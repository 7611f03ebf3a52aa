--------------------------- MODULE I2CSlaveProofs ---------------------------
(***************************************************************************)
(* Proofs about I2CSlave: what the driver keeps stays inside its buffers   *)
(* as long as no buffer is replaced by a smaller one; a read that is not   *)
(* disturbed itself and follows none that was cut off is served from the   *)
(* first byte of the transmit buffer on; and the callbacks are those of    *)
(* the frames, in order, each once, with the right address and error, once *)
(* the driver is in step.  All of it however late the interrupt is.        *)
(***************************************************************************)
EXTENDS I2CSlave, TLAPS, SequenceTheorems, WellFoundedInduction

SlaveStates == {"receiving", "transmitting", "idle"}
SlaveErrors == {"ok", "buffer_overflow", "buffer_underflow", "bit_error"}

\* The fields of the driver, with c as the log of its callbacks.
Slaves(states, c) ==
  [state : states, address_called : Addresses, error : SlaveErrors,
   trailing_byte_sent : BOOLEAN,
   tx_buffer : Sizes, tx_size : Sizes, tx_index : Nat,
   rx_buffer : Sizes, rx_size : Sizes, rx_bytes : Seq(Nat \X Nat), calls : {c}]

Received == [SOF : BOOLEAN, DATA : Nat \X Nat]

Ports == [SEN : BOOLEAN, AVF : BOOLEAN, SASR : Addresses, SDF : BOOLEAN,
          TDF : BOOLEAN, BEF : BOOLEAN, STDR : {<<>>} \cup {<<b>> : b \in Nat},
          SRDR : {<<>>} \cup {<<r>> : r \in Received}]

Lengths == ReadLengths \cup WriteLengths

Frames == [dir : {"read"}, address : Addresses, length : Lengths,
           bytes : Seq(Nat), rx : Sizes, tx : Sizes]
            \cup [dir : {"write"}, address : Addresses, length : Lengths,
                  bytes : Seq(Nat \X Nat), rx : Sizes, tx : Sizes]

Changing == {"reset", "buffer"} \X NewSizes \X {"rx", "tx"}

Types ==
  /\ frames \in Seq(Frames)
  /\ \A i \in 1 .. Len(frames) : Len(frames[i].bytes) <= frames[i].length
  /\ open \in BOOLEAN
  /\ open => frames # <<>>
  /\ port \in Ports
  /\ slave \in Slaves(SlaveStates, slave.calls)
  /\ app = <<>> \/ app \in Changing
  /\ changes \in 0 .. MAX_CHANGES
  /\ calm \in [is : BOOLEAN, begun : 0 .. MAX_FRAMES] /\ Len(frames) <= calm.begun

\* What the port has been given or asked for belongs to the frame that goes on.
PortFits ==
  /\ ~open => port.SRDR = <<>> /\ port.STDR = <<>> /\ ~port.TDF
  /\ open /\ Current.dir = "read" => port.SRDR = <<>>
  /\ open /\ Current.dir = "write" => port.STDR = <<>> /\ ~port.TDF

\* No interrupt since the frame began: it has only been asked for a byte.
Unserved ==
  open /\ port.SDF /\ Current.dir = "read" =>
    Current.bytes = <<>> /\ port.STDR = <<>> /\ port.TDF

LastKind == last \in {"fresh", "behind", "disturbed", "cut"}

\* The driver knows of all that was before the last frame, or will with the
\* next interrupt.
Followed == calm.is \/ last = "fresh"

\* The size of the transmit buffer is the one the frame began with.
SizeKnown == open /\ (Followed \/ Len(frames) > 1) => Current.tx = slave.tx_size

\* No bit error is left to be seen, and the driver is idle between frames
\* unless it was stopped in one of them.
AtRest ==
  /\ calm.is \/ (open /\ last = "fresh") => ~port.BEF
  /\ (calm.is \/ last # "cut") /\ ~open /\ ~port.SDF => slave.state = "idle"

Expected(tx, j) == IF j <= tx THEN j ELSE DUMMY_BYTE
Lesser(n, tx) == IF n <= tx THEN n ELSE tx

\* A read that goes on waits for its first byte, for another, or has one.
Serving ==
  LET n == Len(Current.bytes)
      tx == slave.tx_size
  IN  Followed /\ open /\ Current.dir = "read" =>
        \/ /\ port.TDF /\ port.STDR = <<>> /\ n = 0
           /\ ~port.SDF => slave.state = "idle"
        \/ /\ port.TDF /\ port.STDR = <<>> /\ ~port.SDF
           /\ slave.state = "transmitting" /\ slave.tx_index = Lesser(n, tx)
        \/ /\ ~port.TDF /\ ~port.SDF /\ port.STDR = <<Expected(tx, n + 1)>>
           /\ slave.state = "transmitting" /\ slave.tx_index = Lesser(n + 1, tx)

InOrderServed(f) ==
  f.dir = "read" => \A j \in 1 .. Len(f.bytes) : f.bytes[j] = Expected(f.tx, j)

LastServed == last = "fresh" /\ frames # <<>> => InOrderServed(Current)

ReadInv == /\ Types /\ LastKind /\ PortFits /\ Unserved /\ SizeKnown /\ AtRest
           /\ Serving /\ LastServed

\* The indexes stay within the sizes, the sizes within the buffers, also while
\* a buffer is being replaced.
Inside ==
  /\ Len(slave.rx_bytes) <= slave.rx_size /\ slave.rx_size <= slave.rx_buffer
  /\ slave.tx_index <= slave.tx_size /\ slave.tx_size <= slave.tx_buffer
  /\ app # <<>> =>
       LET old == IF app[3] = "rx" THEN slave.rx_buffer ELSE slave.tx_buffer
       IN  IF app[1] = "reset" THEN old <= app[2] ELSE old = app[2]

\* The application replaces a buffer by one that is at least as large.
NoSmaller ==
  app = <<>> /\ app' # <<>> =>
    app'[2] >= IF app'[3] = "rx" THEN slave.rx_buffer ELSE slave.tx_buffer

-----------------------------------------------------------------------------
(* The interrupt service routine, one lemma for each part.                 *)

Within(s) == Len(s.rx_bytes) <= s.rx_size /\ s.tx_index <= s.tx_size

Typed(s) == s \in Slaves(SlaveStates, s.calls)

\* No part of the routine changes the buffers.
SameBuffers(s, t) ==
  /\ t.tx_buffer = s.tx_buffer /\ t.tx_size = s.tx_size
  /\ t.rx_buffer = s.rx_buffer /\ t.rx_size = s.rx_size

SameBytes(s, t) == t.tx_index = s.tx_index /\ t.rx_bytes = s.rx_bytes

LEMMA CallPart ==
  ASSUME NEW ss, NEW c, NEW s \in Slaves(ss, c), NEW kind, NEW bytes
  PROVE  LET t == Call(s, kind, bytes)
         IN  /\ t \in Slaves(ss, t.calls) /\ SameBuffers(s, t) /\ SameBytes(s, t)
             /\ t.state = s.state
<1> DEFINE r == Append(s.calls, [kind |-> kind, bytes |-> bytes,
                                 address |-> s.address_called,
                                 error |-> s.error])
<1>1. Call(s, kind, bytes) = [s EXCEPT !.calls = r]
  BY DEF Call
<1> HIDE DEF r
<1> QED
  BY <1>1 DEF Slaves, SameBuffers, SameBytes

LEMMA AddressPart ==
  ASSUME port \in Ports, NEW s, Typed(s)
  PROVE  LET t == AfterAddress(s)
         IN  Typed(t) /\ SameBuffers(s, t) /\ SameBytes(s, t) /\ t.state = s.state
BY DEF AfterAddress, Typed, Slaves, Ports, SameBuffers, SameBytes

LEMMA EndLemma ==
  ASSUME NEW s, s \in Slaves(SlaveStates \cup {"aborted"}, s.calls)
  PROVE  LET t == end_of_frame(s)
         IN  /\ Typed(t) /\ SameBuffers(s, t) /\ SameBytes(s, t)
             /\ t.state = "idle"
<1> DEFINE ss == SlaveStates \cup {"aborted"}
           q == [s EXCEPT !.trailing_byte_sent = FALSE]
           received == Call(s, "received", s.rx_bytes)
           transmitted == Call(q, "transmitted", <<>>)
           told == CASE s.state = "receiving" -> received
                     [] s.state = "transmitting" -> transmitted
                     [] OTHER -> s
<1>1. q \in Slaves(ss, q.calls) /\ SameBuffers(s, q) /\ SameBytes(s, q)
  BY DEF Slaves, SameBuffers, SameBytes
<1> HIDE DEF q
<1>2. received \in Slaves(ss, received.calls) /\ SameBuffers(s, received)
        /\ SameBytes(s, received)
  BY CallPart
<1>3. transmitted \in Slaves(ss, transmitted.calls) /\ SameBuffers(q, transmitted)
        /\ SameBytes(q, transmitted)
  BY <1>1, CallPart
<1> HIDE DEF received, transmitted
<1>4. told \in Slaves(ss, told.calls) /\ SameBuffers(s, told) /\ SameBytes(s, told)
  <2>1. CASE s.state = "receiving"
    BY <2>1, <1>2
  <2>2. CASE s.state = "transmitting"
    BY <2>2, <1>1, <1>3 DEF SameBuffers, SameBytes
  <2>3. CASE s.state \notin {"receiving", "transmitting"}
    <3>1. told = s
      BY <2>3
    <3> QED
      BY <3>1 DEF SameBuffers, SameBytes
  <2> QED
    BY <2>1, <2>2, <2>3
<1>5. end_of_frame(s) = [told EXCEPT !.state = "idle"]
  BY DEF end_of_frame, q, received, transmitted
<1> HIDE DEF told
<1> QED
  BY <1>4, <1>5 DEF Typed, Slaves, SlaveStates, SameBuffers, SameBytes

LEMMA EndPart ==
  ASSUME NEW s, Typed(s)
  PROVE  LET t == AfterEnd(s)
         IN  /\ Typed(t) /\ SameBuffers(s, t) /\ SameBytes(s, t)
             /\ t.state = IF port.SDF THEN "idle" ELSE s.state
<1>1. s \in Slaves(SlaveStates \cup {"aborted"}, s.calls)
  BY DEF Typed, Slaves
<1>2. CASE port.SDF
  BY <1>1, <1>2, EndLemma DEF AfterEnd
<1>3. CASE ~port.SDF
  BY <1>3 DEF AfterEnd, SameBuffers, SameBytes
<1> QED
  BY <1>2, <1>3

LEMMA ReceivePart ==
  ASSUME SlaveAssumption, port \in Ports, NEW s, Typed(s)
  PROVE  LET t == AfterReceive(s)
         IN  /\ Typed(t) /\ SameBuffers(s, t) /\ t.tx_index = s.tx_index
             /\ Within(s) => Within(t)
             /\ port.SRDR = <<>> => t = s
<1>1. CASE port.SRDR = <<>>
  BY <1>1 DEF AfterReceive, SameBuffers
<1>2. CASE port.SRDR # <<>>
  <2> DEFINE srdr == port.SRDR[1]
             ok == [s EXCEPT !.error = IF srdr.SOF THEN "ok" ELSE @]
             begun == IF srdr.SOF THEN [ok EXCEPT !.rx_bytes = <<>>,
                                                  !.state = "receiving"] ELSE ok
             full == [begun EXCEPT !.error = "buffer_overflow"]
             bytes == Append(begun.rx_bytes, srdr.DATA)
             more == [begun EXCEPT !.rx_bytes = bytes]
             none == [ok EXCEPT !.state = "idle"]
  <2>1. srdr \in Received
    BY <1>2 DEF Ports
  <2>2. srdr.SOF \in BOOLEAN /\ srdr.DATA \in Nat \X Nat
    BY <2>1 DEF Received
  <2>3. AfterReceive(s) = IF s.rx_size > 0
                          THEN IF Len(begun.rx_bytes) = begun.rx_size
                               THEN full ELSE more
                          ELSE none
    BY <1>2 DEF AfterReceive, rx_write
  <2> HIDE DEF srdr
  <2>4. /\ Typed(ok) /\ SameBuffers(s, ok) /\ SameBytes(s, ok)
    BY <2>2 DEF Typed, Slaves, SameBuffers, SameBytes, SlaveErrors
  <2> HIDE DEF ok
  <2>5. s.rx_size \in Nat
    BY DEF Typed, Slaves, Sizes, SlaveAssumption
  <2>6. /\ Typed(begun) /\ SameBuffers(s, begun) /\ begun.tx_index = s.tx_index
        /\ Within(s) => Within(begun)
    <3>1. CASE srdr.SOF
      <4>1. begun = [ok EXCEPT !.rx_bytes = <<>>, !.state = "receiving"]
        BY <3>1
      <4> HIDE DEF begun
      <4>2. /\ Typed(begun) /\ SameBuffers(ok, begun)
            /\ begun.tx_index = ok.tx_index /\ begun.rx_bytes = <<>>
        <5> DEFINE bs == Nat \X Nat
        <5>1. <<>> \in Seq(bs)
          OBVIOUS
        <5>2. ok \in Slaves(SlaveStates, ok.calls)
          BY <2>4 DEF Typed
        <5> HIDE DEF bs
        <5> QED
          BY <4>1, <5>1, <5>2 DEF Typed, Slaves, SameBuffers, SlaveStates, bs
      <4> QED
        BY <4>2, <2>4, <2>5 DEF SameBuffers, SameBytes, Within
    <3>2. CASE ~srdr.SOF
      BY <3>2, <2>4 DEF SameBuffers, SameBytes, Within
    <3> QED
      BY <3>1, <3>2
  <2> HIDE DEF begun
  <2>7. begun.rx_bytes \in Seq(Nat \X Nat)
    BY <2>6 DEF Typed, Slaves
  <2>8. bytes \in Seq(Nat \X Nat) /\ Len(bytes) = Len(begun.rx_bytes) + 1
          /\ Len(begun.rx_bytes) \in Nat
    BY <2>7, <2>2
  <2> HIDE DEF bytes
  <2>9. CASE s.rx_size > 0
    <3>1. CASE Len(begun.rx_bytes) = begun.rx_size
      BY <3>1, <2>9, <2>3, <2>6, <1>2
      DEF Typed, Slaves, SameBuffers, SlaveErrors, Within
    <3>2. CASE Len(begun.rx_bytes) # begun.rx_size
      <4>1. /\ more.rx_bytes = bytes /\ Typed(more) /\ SameBuffers(s, more)
            /\ more.tx_index = begun.tx_index /\ more.rx_size = begun.rx_size
            /\ more.tx_size = begun.tx_size
        BY <2>6, <2>8 DEF Typed, Slaves, SameBuffers
      <4>2. AfterReceive(s) = more
        BY <2>3, <2>9, <3>2
      <4> HIDE DEF more
      <4>3. Within(begun) => Within(more)
        BY <4>1, <2>5, <2>6, <2>8, <3>2 DEF Within, SameBuffers
      <4> QED
        BY <4>1, <4>2, <4>3, <2>6, <1>2
    <3> QED
      BY <3>1, <3>2
  <2>10. CASE ~(s.rx_size > 0)
    BY <2>10, <2>3, <2>4, <1>2
    DEF Typed, Slaves, SameBuffers, SameBytes, SlaveStates, Within
  <2> QED
    BY <2>9, <2>10
<1> QED
  BY <1>1, <1>2

LEMMA BeginPart ==
  ASSUME NEW s, Typed(s)
  PROVE  LET t == BeginTransmit(s)
         IN  /\ Typed(t) /\ SameBuffers(s, t) /\ t.rx_bytes = s.rx_bytes
             /\ t.state = IF s.state = "idle" THEN "transmitting" ELSE s.state
             /\ t.tx_index = IF s.state = "idle" THEN 0 ELSE s.tx_index
<1> DEFINE q == [s EXCEPT !.error = "ok", !.state = "transmitting",
                          !.tx_index = 0]
<1>1. /\ q \in Slaves(SlaveStates, q.calls) /\ SameBuffers(s, q)
      /\ q.rx_bytes = s.rx_bytes /\ q.state = "transmitting" /\ q.tx_index = 0
  BY DEF Typed, Slaves, SameBuffers, SlaveErrors, SlaveStates
<1>2. BeginTransmit(s) = IF s.state = "idle" THEN Call(q, "transmitting", <<>>)
                                             ELSE s
  BY DEF BeginTransmit, Typed, Slaves, SlaveStates
<1> HIDE DEF q
<1>3. CASE s.state = "idle"
  <2>1. LET t == Call(q, "transmitting", <<>>)
        IN  /\ t \in Slaves(SlaveStates, t.calls) /\ SameBuffers(q, t)
            /\ SameBytes(q, t) /\ t.state = q.state
    BY <1>1, CallPart
  <2> QED
    BY <2>1, <1>1, <1>2, <1>3 DEF Typed, SameBuffers, SameBytes
<1>4. CASE s.state # "idle"
  BY <1>2, <1>4 DEF SameBuffers
<1> QED
  BY <1>3, <1>4

LEMMA TransmitPart ==
  ASSUME SlaveAssumption, port \in Ports, NEW s, Typed(s)
  PROVE  LET t == AfterTransmit(s)
         IN  /\ Typed(t) /\ SameBuffers(s, t) /\ t.rx_bytes = s.rx_bytes
             /\ t.state = s.state
             /\ t.tx_index = IF port.TDF /\ s.tx_index < s.tx_size
                             THEN s.tx_index + 1 ELSE s.tx_index
             /\ Within(s) => Within(t)
             /\ Answer(s) \in {<<b>> : b \in Nat}
<1>1. s.tx_index \in Nat /\ s.tx_size \in Nat /\ s.tx_index + 1 \in Nat
  BY DEF Typed, Slaves, Sizes, SlaveAssumption
<1>2. Answer(s) \in {<<b>> : b \in Nat}
  BY <1>1 DEF Answer, DUMMY_BYTE
<1>3. CASE ~port.TDF
  BY <1>2, <1>3 DEF AfterTransmit, SameBuffers
<1>4. CASE port.TDF /\ s.tx_index < s.tx_size
  <2> DEFINE n == s.tx_index + 1
             t == [s EXCEPT !.tx_index = n]
  <2>1. AfterTransmit(s) = t
    BY <1>4 DEF AfterTransmit, has_data_available
  <2>2. n \in Nat /\ n <= s.tx_size
    BY <1>1, <1>4
  <2> HIDE DEF n
  <2>3. /\ Typed(t) /\ SameBuffers(s, t) /\ t.rx_bytes = s.rx_bytes
        /\ t.state = s.state /\ t.tx_index = n
    BY <2>2 DEF Typed, Slaves, SameBuffers
  <2> HIDE DEF t
  <2> QED
    BY <2>1, <2>2, <2>3, <1>2, <1>4 DEF n, Within, SameBuffers
<1>5. CASE port.TDF /\ ~(s.tx_index < s.tx_size)
  <2>1. AfterTransmit(s) \in {[s EXCEPT !.trailing_byte_sent = TRUE],
                              [s EXCEPT !.error = "buffer_underflow"]}
    BY <1>5 DEF AfterTransmit, has_data_available
  <2> QED
    BY <2>1, <1>2, <1>5 DEF Typed, Slaves, SlaveErrors, SameBuffers, Within
<1> QED
  BY <1>3, <1>4, <1>5

LEMMA ErrorPart ==
  ASSUME NEW s, Typed(s)
  PROVE  LET t == AfterBitError(s)
         IN  /\ Typed(t) /\ SameBuffers(s, t) /\ SameBytes(s, t)
             /\ t.state = IF port.BEF THEN "idle" ELSE s.state
<1> DEFINE q == [s EXCEPT !.state = "aborted", !.error = "bit_error"]
<1>1. /\ q \in Slaves(SlaveStates \cup {"aborted"}, q.calls)
      /\ SameBuffers(s, q) /\ SameBytes(s, q)
  BY DEF Typed, Slaves, SlaveErrors, SameBuffers, SameBytes
<1>2. AfterBitError(s) = IF port.BEF THEN end_of_frame(q) ELSE s
  BY DEF AfterBitError
<1> HIDE DEF q
<1>3. CASE port.BEF
  BY <1>1, <1>2, <1>3, EndLemma DEF SameBuffers, SameBytes
<1>4. CASE ~port.BEF
  BY <1>2, <1>4 DEF SameBuffers, SameBytes
<1> QED
  BY <1>3, <1>4

\* The driver when the bytes for the port are due, and after the routine.
Begun == IF port.TDF THEN BeginTransmit(BeforeTransmit(slave))
                     ELSE BeforeTransmit(slave)
Done == AfterBitError(AfterTransmit(Begun))

\* Where a read stands when its byte is due: a frame that ended is over.
StateDue == IF port.SDF THEN "idle" ELSE slave.state
IndexDue == IF StateDue = "idle" THEN 0 ELSE slave.tx_index

LEMMA RoutineLemma ==
  ASSUME SlaveAssumption, port \in Ports, Typed(slave)
  PROVE  /\ Typed(Done) /\ SameBuffers(slave, Done)
         /\ Within(slave) => Within(Done)
         /\ Answer(Begun) \in {<<b>> : b \in Nat}
         /\ port.BEF => Done.state = "idle"
         /\ port.SRDR = <<>> /\ ~port.TDF /\ ~port.BEF =>
              Done.state = StateDue /\ Done.tx_index = slave.tx_index
         /\ port.SRDR = <<>> /\ port.TDF /\ ~port.BEF =>
              /\ Done.state = IF StateDue = "idle" THEN "transmitting" ELSE StateDue
              /\ Done.tx_index = IF IndexDue < slave.tx_size THEN IndexDue + 1
                                                             ELSE IndexDue
              /\ Answer(Begun) = IF IndexDue < slave.tx_size
                                 THEN <<IndexDue + 1>> ELSE <<DUMMY_BYTE>>
<1> DEFINE addressed == AfterAddress(slave)
           ended == AfterEnd(addressed)
           received == AfterReceive(ended)
           transmitted == AfterTransmit(Begun)
<1>1. /\ Typed(addressed) /\ SameBuffers(slave, addressed)
      /\ SameBytes(slave, addressed) /\ addressed.state = slave.state
  BY AddressPart
<1> HIDE DEF addressed
<1>2. /\ Typed(ended) /\ SameBuffers(addressed, ended)
      /\ SameBytes(addressed, ended)
      /\ ended.state = IF port.SDF THEN "idle" ELSE addressed.state
  BY <1>1, EndPart
<1> HIDE DEF ended
<1>3. /\ Typed(received) /\ SameBuffers(ended, received)
      /\ received.tx_index = ended.tx_index
      /\ Within(ended) => Within(received)
      /\ port.SRDR = <<>> => received = ended
  BY <1>2, ReceivePart
<1>4. received = BeforeTransmit(slave)
  BY DEF received, ended, addressed, BeforeTransmit
<1> HIDE DEF received
<1>5. /\ Typed(received) /\ SameBuffers(slave, received)
      /\ Within(slave) => Within(received)
      /\ port.SRDR = <<>> =>
           received.state = StateDue /\ received.tx_index = slave.tx_index
  BY <1>1, <1>2, <1>3 DEF SameBuffers, SameBytes, Within, StateDue
<1>6. /\ Typed(Begun) /\ SameBuffers(slave, Begun)
      /\ Within(slave) => Within(Begun)
      /\ port.SRDR = <<>> /\ ~port.TDF =>
           Begun.state = StateDue /\ Begun.tx_index = slave.tx_index
      /\ port.SRDR = <<>> /\ port.TDF =>
           /\ Begun.state = IF StateDue = "idle" THEN "transmitting" ELSE StateDue
           /\ Begun.tx_index = IndexDue
  <2>1. CASE port.TDF
    <3> DEFINE t == BeginTransmit(received)
    <3>1. /\ Typed(t) /\ SameBuffers(received, t) /\ t.rx_bytes = received.rx_bytes
          /\ t.state = IF received.state = "idle" THEN "transmitting"
                                                  ELSE received.state
          /\ t.tx_index = IF received.state = "idle" THEN 0 ELSE received.tx_index
      BY <1>5, BeginPart
    <3>2. Begun = t
      BY <2>1, <1>4 DEF Begun
    <3> HIDE DEF t
    <3>3. received.tx_size \in Nat
      BY <1>5 DEF Typed, Slaves, Sizes, SlaveAssumption
    <3>4. Within(received) => Within(t)
      BY <3>1, <3>3 DEF SameBuffers, Within
    <3> QED
      BY <3>1, <3>2, <3>4, <1>5, <2>1 DEF SameBuffers, IndexDue
  <2>2. CASE ~port.TDF
    BY <2>2, <1>4, <1>5 DEF Begun
  <2> QED
    BY <2>1, <2>2
<1>7. /\ Typed(transmitted) /\ SameBuffers(Begun, transmitted)
      /\ transmitted.state = Begun.state
      /\ transmitted.tx_index = IF port.TDF /\ Begun.tx_index < Begun.tx_size
                                THEN Begun.tx_index + 1 ELSE Begun.tx_index
      /\ Within(Begun) => Within(transmitted)
      /\ Answer(Begun) \in {<<b>> : b \in Nat}
  BY <1>6, TransmitPart
<1>8. Done = AfterBitError(transmitted)
  BY DEF Done, transmitted
<1> HIDE DEF transmitted
<1>9. /\ Typed(Done) /\ SameBuffers(transmitted, Done)
      /\ SameBytes(transmitted, Done)
      /\ Done.state = IF port.BEF THEN "idle" ELSE transmitted.state
  BY <1>7, <1>8, ErrorPart
<1>10. Within(transmitted) => Within(Done)
  BY <1>9 DEF SameBuffers, SameBytes, Within
<1>11. Answer(Begun) = IF Begun.tx_index < Begun.tx_size
                       THEN <<Begun.tx_index + 1>> ELSE <<DUMMY_BYTE>>
  BY DEF Answer, has_data_available
<1> HIDE DEF Begun, Done
<1>12. SameBuffers(slave, Done)
  BY <1>6, <1>7, <1>9 DEF SameBuffers
<1>13. Within(slave) => Within(Done)
  BY <1>6, <1>7, <1>10
<1>14. port.SRDR = <<>> /\ ~port.TDF /\ ~port.BEF =>
         Done.state = StateDue /\ Done.tx_index = slave.tx_index
  BY <1>6, <1>7, <1>9 DEF SameBytes
<1>15. port.SRDR = <<>> /\ port.TDF /\ ~port.BEF =>
         /\ Done.state = IF StateDue = "idle" THEN "transmitting" ELSE StateDue
         /\ Done.tx_index = IF IndexDue < slave.tx_size THEN IndexDue + 1
                                                        ELSE IndexDue
         /\ Answer(Begun) = IF IndexDue < slave.tx_size
                            THEN <<IndexDue + 1>> ELSE <<DUMMY_BYTE>>
  BY <1>6, <1>7, <1>9, <1>11 DEF SameBytes, SameBuffers
<1> QED
  BY <1>7, <1>9, <1>12, <1>13, <1>14, <1>15

-----------------------------------------------------------------------------
(* The frames.                                                             *)

LEMMA CurrentLemma ==
  ASSUME Types, frames # <<>>
  PROVE  /\ Len(frames) \in 1 .. Len(frames) /\ Current \in Frames
         /\ Len(Current.bytes) \in Nat /\ Len(Current.bytes) <= Current.length
         /\ Current.bytes \in Seq(BytesOf(Current))
<1>1. Len(frames) \in 1 .. Len(frames)
  BY DEF Types
<1>2. Current \in Frames /\ Len(Current.bytes) <= Current.length
  BY <1>1 DEF Types, Current
<1>3. Current.bytes \in Seq(BytesOf(Current))
  BY <1>2 DEF Frames, BytesOf
<1>4. Len(Current.bytes) \in Nat
  BY <1>3
<1> QED
  BY <1>1, <1>2, <1>3, <1>4

LEMMA ByteAdded ==
  ASSUME SlaveAssumption, Types, open, NEW byte \in BytesOf(Current), Transfer(byte)
  PROVE  LET n == Len(frames)
         IN  /\ frames' \in Seq(Frames) /\ Len(frames') = n
             /\ \A i \in 1 .. n : i # n => frames'[i] = frames[i]
             /\ Current' = [Current EXCEPT !.bytes = Append(@, byte)]
             /\ Current'.dir = Current.dir /\ Current'.tx = Current.tx
             /\ Current'.bytes = Append(Current.bytes, byte)
             /\ Len(Current'.bytes) = Len(Current.bytes) + 1
             /\ \A i \in 1 .. n : Len(frames'[i].bytes) <= frames'[i].length
<1> DEFINE n == Len(frames)
           b == Append(Current.bytes, byte)
           f == [Current EXCEPT !.bytes = b]
<1>1. /\ n \in 1 .. n /\ Current \in Frames /\ Len(Current.bytes) \in Nat
      /\ Current.bytes \in Seq(BytesOf(Current))
  BY CurrentLemma DEF Types
<1>2. b \in Seq(BytesOf(Current)) /\ Len(b) = Len(Current.bytes) + 1
  BY <1>1
<1>3. Current.length \in Nat
  BY <1>1 DEF Frames, Lengths, SlaveAssumption
<1>4. Len(b) <= Current.length
  BY <1>1, <1>2, <1>3 DEF Transfer
<1> HIDE DEF b
<1>5. /\ f \in Frames /\ f.dir = Current.dir /\ f.tx = Current.tx /\ f.bytes = b
      /\ f.length = Current.length
  BY <1>1, <1>2 DEF Frames, BytesOf
<1>6. frames' = [frames EXCEPT ![n] = f]
  BY DEF Transfer, b, Current
<1> HIDE DEF f
<1>7. frames \in Seq(Frames)
  BY DEF Types
<1>8. /\ frames' \in Seq(Frames) /\ Len(frames') = n
      /\ \A i \in 1 .. n : frames'[i] = IF i = n THEN f ELSE frames[i]
  BY <1>1, <1>5, <1>6, <1>7
<1>9. Current' = f
  BY <1>1, <1>8 DEF Current
<1>10. \A i \in 1 .. n : Len(frames'[i].bytes) <= frames'[i].length
  <2>1. TAKE i \in 1 .. n
  <2>2. CASE i = n
    BY <2>2, <1>4, <1>5, <1>8
  <2>3. CASE i # n
    BY <2>3, <1>8 DEF Types
  <2> QED
    BY <2>2, <2>3
<1> HIDE DEF n
<1> QED
  BY <1>2, <1>5, <1>8, <1>9, <1>10 DEF n, b, f

LEMMA LastLemma ==
  ASSUME Types, NEW fr, fr = LastFrame
  PROVE  /\ fr \in Seq(Frames) /\ Len(fr) \in 0 .. 1 /\ Len(fr) <= Len(frames)
         /\ frames # <<>> => fr = <<Current>>
         /\ frames = <<>> => fr = <<>>
         /\ \A i \in 1 .. Len(fr) :
              fr[i] = Current /\ Len(fr[i].bytes) <= fr[i].length
<1>1. CASE frames = <<>>
  BY <1>1 DEF LastFrame, Types
<1>2. CASE frames # <<>>
  <2>1. Current \in Frames /\ Len(Current.bytes) <= Current.length
          /\ Len(frames) \in 1 .. Len(frames)
    BY <1>2, CurrentLemma
  <2> DEFINE f == Current
  <2>2. fr = <<f>>
    BY <1>2 DEF LastFrame
  <2> HIDE DEF f
  <2>3. f \in Frames /\ Len(f.bytes) <= f.length
    BY <2>1 DEF f
  <2>4. Len(frames) \in Nat /\ Len(frames) >= 1
    BY <2>1 DEF Types
  <2>5. fr \in Seq(Frames) /\ Len(fr) = 1 /\ fr[1] = f
    BY <2>2, <2>3
  <2> QED
    BY <2>2, <2>3, <2>4, <2>5, <1>2 DEF f
<1> QED
  BY <1>1, <1>2

-----------------------------------------------------------------------------
(* Reads are served in order: what each step does to ReadInv.              *)

LEMMA InitInv ==
  ASSUME SlaveAssumption, Init
  PROVE  ReadInv /\ Inside
<1>1. \E a : a \in Addresses
  BY DEF SlaveAssumption
<1>2. (CHOOSE a \in Addresses : TRUE) \in Addresses
  BY <1>1
<1>3. port \in Ports /\ port.SRDR = <<>> /\ port.STDR = <<>> /\ ~port.TDF
        /\ ~port.BEF
  BY <1>2 DEF Init, Idle, Ports
<1>4. slave \in Slaves(SlaveStates, slave.calls)
  BY <1>3 DEF Init, Slaves, SlaveStates, SlaveErrors, Sizes, Ports
<1>5. frames \in Seq(Frames) /\ Len(frames) = 0
  BY DEF Init
<1>6. calm \in [is : BOOLEAN, begun : 0 .. MAX_FRAMES] /\ calm.begun = 0
  BY DEF Init, SlaveAssumption
<1>7. Types
  <2>1. open \in BOOLEAN
    BY DEF Init
  <2> QED
    BY <2>1, <1>3, <1>4, <1>5, <1>6 DEF Init, Types, SlaveAssumption
<1>8. LastKind /\ PortFits /\ Unserved /\ SizeKnown /\ AtRest /\ Serving
        /\ LastServed
  BY <1>3, <1>5
  DEF Init, LastKind, PortFits, Unserved, SizeKnown, AtRest, Serving, LastServed
<1>9. Inside
  BY DEF Init, Inside, SlaveAssumption
<1> QED
  BY <1>7, <1>8, <1>9 DEF ReadInv

LEMMA StartStep ==
  ASSUME SlaveAssumption, ReadInv, StartFrame
  PROVE  ReadInv'
<1>1. PICK d \in {"read", "write"}, a \in Addresses, l \in Lengths :
        /\ frames' = Append(frames, [dir |-> d, address |-> a, length |-> l,
                                     bytes |-> <<>>, rx |-> slave.rx_size,
                                     tx |-> slave.tx_size])
        /\ port' = [port EXCEPT !.AVF = TRUE, !.SASR = a, !.TDF = d = "read"]
  BY DEF StartFrame, Lengths
<1> DEFINE f == [dir |-> d, address |-> a, length |-> l, bytes |-> <<>>,
                 rx |-> slave.rx_size, tx |-> slave.tx_size]
           n == Len(frames)
<1>2. slave.rx_size \in Sizes /\ slave.tx_size \in Sizes
  BY DEF ReadInv, Types, Slaves
<1>3. l \in Nat
  BY DEF Lengths, SlaveAssumption
<1>4. /\ f \in Frames /\ f.dir = d /\ f.bytes = <<>> /\ f.tx = slave.tx_size
      /\ f.length = l
  BY <1>2 DEF Frames
<1> HIDE DEF f
<1>5. frames \in Seq(Frames) /\ n \in Nat
  BY DEF ReadInv, Types
<1>6. /\ frames' \in Seq(Frames) /\ Len(frames') = n + 1 /\ frames'[n + 1] = f
      /\ \A i \in 1 .. n : frames'[i] = frames[i]
  BY <1>1, <1>4, <1>5 DEF f
<1>7. \A i \in 1 .. n + 1 : i \in 1 .. n \/ frames'[i] = f
  BY <1>5, <1>6
<1>8. Current' = f
  BY <1>6 DEF Current
<1>9. /\ ~open /\ open' = TRUE /\ slave' = slave /\ app' = app
      /\ changes' = changes /\ calm' = [calm EXCEPT !.begun = @ + 1]
      /\ calm.begun < MAX_FRAMES
      /\ last' = IF last = "cut" \/ port.BEF THEN "behind" ELSE "fresh"
  BY DEF StartFrame
<1>10. /\ calm' \in [is : BOOLEAN, begun : 0 .. MAX_FRAMES]
       /\ calm'.is = calm.is /\ n + 1 <= calm'.begun
  BY <1>5, <1>9 DEF ReadInv, Types, SlaveAssumption
<1>11. /\ port' \in Ports /\ port'.SRDR = port.SRDR /\ port'.STDR = port.STDR
       /\ port'.TDF = (d = "read") /\ port'.SDF = port.SDF
       /\ port'.BEF = port.BEF
  BY <1>1 DEF ReadInv, Types, Ports
<1>12. port.SRDR = <<>> /\ port.STDR = <<>> /\ ~port.TDF
  BY <1>9 DEF ReadInv, PortFits
<1> HIDE DEF n
<1>13. \A i \in 1 .. n + 1 : Len(frames'[i].bytes) <= frames'[i].length
  BY <1>3, <1>4, <1>6, <1>7 DEF ReadInv, Types, n
<1>14. frames' # <<>>
  BY <1>5, <1>6
<1>15. Types'
  BY <1>6, <1>9, <1>10, <1>11, <1>13, <1>14 DEF ReadInv, Types
<1>16. PortFits' /\ Unserved' /\ SizeKnown'
  BY <1>4, <1>8, <1>9, <1>11, <1>12 DEF PortFits, Unserved, SizeKnown
<1>17. AtRest' /\ LastKind'
  BY <1>9, <1>10, <1>11 DEF ReadInv, AtRest, LastKind
<1>18. Serving'
  <2>1. Followed' /\ ~port.SDF => slave.state = "idle"
    BY <1>9, <1>10 DEF ReadInv, AtRest, Followed
  <2> QED
    BY <1>4, <1>8, <1>9, <1>11, <1>12, <2>1 DEF Serving
<1>19. LastServed'
  BY <1>4, <1>8 DEF LastServed, InOrderServed
<1> QED
  BY <1>15, <1>16, <1>17, <1>18, <1>19 DEF ReadInv

LEMMA SendStep ==
  ASSUME SlaveAssumption, ReadInv, SendByte
  PROVE  ReadInv'
<1> DEFINE byte == <<calm.begun, Len(Current.bytes) + 1>>
           r == [SOF |-> Current.bytes = <<>>, DATA |-> byte]
           n == Len(frames)
<1>1. /\ open /\ Current.dir = "write" /\ Transfer(byte) /\ frames # <<>>
      /\ port' = [port EXCEPT !.SRDR = <<r>>]
  BY DEF SendByte, ReadInv, Types
<1>2. Len(Current.bytes) \in Nat /\ calm.begun \in Nat
  BY <1>1, CurrentLemma DEF ReadInv, Types, SlaveAssumption
<1>3. byte \in Nat \X Nat /\ r \in Received
  BY <1>2 DEF Received
<1>4. byte \in BytesOf(Current)
  BY <1>1, <1>3 DEF BytesOf
<1> HIDE DEF byte, r
<1>5. /\ frames' \in Seq(Frames) /\ Len(frames') = n
      /\ \A i \in 1 .. n : i # n => frames'[i] = frames[i]
      /\ Current'.dir = Current.dir /\ Current'.tx = Current.tx
      /\ \A i \in 1 .. n : Len(frames'[i].bytes) <= frames'[i].length
  BY <1>1, <1>4, ByteAdded DEF ReadInv
<1>6. UNCHANGED <<open, slave, app, changes, calm, last>>
  BY <1>1 DEF Transfer
<1>7. /\ port' \in Ports /\ port'.STDR = port.STDR /\ port'.TDF = port.TDF
      /\ port'.BEF = port.BEF /\ port'.SDF = port.SDF
  BY <1>1, <1>3 DEF ReadInv, Types, Ports
<1>8. n > 0 /\ n \in Nat
  BY <1>1 DEF ReadInv, Types
<1> HIDE DEF n
<1>9. frames' # <<>>
  BY <1>5, <1>8
<1>10. Types'
  BY <1>5, <1>6, <1>7, <1>9 DEF ReadInv, Types, n
<1>11. LastKind' /\ PortFits' /\ Unserved' /\ SizeKnown' /\ AtRest' /\ Serving'
  BY <1>1, <1>5, <1>6, <1>7
  DEF ReadInv, LastKind, Followed, PortFits, Unserved, SizeKnown, AtRest,
      Serving, n
<1>12. LastServed'
  BY <1>1, <1>5 DEF LastServed, InOrderServed
<1> QED
  BY <1>10, <1>11, <1>12 DEF ReadInv

LEMMA TakeStep ==
  ASSUME SlaveAssumption, ReadInv, TakeByte
  PROVE  ReadInv'
<1> DEFINE byte == port.STDR[1]
           n == Len(frames)
           k == Len(Current.bytes)
<1>1. /\ open /\ Current.dir = "read" /\ Transfer(byte) /\ frames # <<>>
      /\ port.STDR # <<>> /\ port' = [port EXCEPT !.STDR = <<>>, !.TDF = TRUE]
  BY DEF TakeByte, ReadInv, Types
<1>2. byte \in Nat /\ port.STDR = <<byte>>
  BY <1>1 DEF ReadInv, Types, Ports
<1>3. byte \in BytesOf(Current)
  BY <1>1, <1>2 DEF BytesOf
<1>4. k \in Nat /\ Current.bytes \in Seq(BytesOf(Current))
  BY <1>1, CurrentLemma DEF ReadInv
<1> HIDE DEF byte
<1>5. /\ frames' \in Seq(Frames) /\ Len(frames') = n
      /\ \A i \in 1 .. n : i # n => frames'[i] = frames[i]
      /\ Current'.dir = Current.dir /\ Current'.tx = Current.tx
      /\ Current'.bytes = Append(Current.bytes, byte)
      /\ Len(Current'.bytes) = k + 1
      /\ \A i \in 1 .. n : Len(frames'[i].bytes) <= frames'[i].length
  BY <1>1, <1>3, ByteAdded DEF ReadInv
<1>6. /\ Current'.bytes[k + 1] = byte
      /\ \A j \in 1 .. k : Current'.bytes[j] = Current.bytes[j]
  BY <1>3, <1>4, <1>5
<1>7. UNCHANGED <<open, slave, app, changes, calm, last>>
  BY <1>1 DEF Transfer
<1>8. /\ port' \in Ports /\ port'.STDR = <<>> /\ port'.TDF
      /\ port'.BEF = port.BEF /\ port'.SDF = port.SDF /\ port'.SRDR = port.SRDR
  BY <1>1 DEF ReadInv, Types, Ports
<1>9. n > 0 /\ n \in Nat
  BY <1>1 DEF ReadInv, Types
<1> HIDE DEF n, k
<1>10. frames' # <<>>
  BY <1>5, <1>9
<1>11. Types'
  BY <1>5, <1>7, <1>8, <1>10 DEF ReadInv, Types, n
<1>12. ~port.SDF
  BY <1>1 DEF ReadInv, Unserved
<1>13. LastKind' /\ PortFits' /\ Unserved' /\ SizeKnown' /\ AtRest'
  BY <1>1, <1>5, <1>7, <1>8, <1>12
  DEF ReadInv, LastKind, Followed, PortFits, Unserved, SizeKnown, AtRest, n
<1>14. Followed => /\ <<byte>> = <<Expected(slave.tx_size, k + 1)>>
                   /\ slave.state = "transmitting"
                   /\ slave.tx_index = Lesser(k + 1, slave.tx_size)
  BY <1>1, <1>2 DEF ReadInv, Serving, k
<1>15. Followed => byte = Expected(slave.tx_size, k + 1)
  BY <1>14
<1>16. Serving'
  BY <1>5, <1>7, <1>8, <1>12, <1>14 DEF Serving, Followed
<1>17. Followed => Current.tx = slave.tx_size
  BY <1>1 DEF ReadInv, SizeKnown
<1>18. LastServed'
  <2> SUFFICES ASSUME last = "fresh" PROVE InOrderServed(Current)'
    BY <1>7 DEF LastServed
  <2>1. Followed /\ InOrderServed(Current)
    BY <1>1 DEF ReadInv, LastServed, Followed
  <2>2. ASSUME NEW j \in 1 .. k + 1
        PROVE  Current'.bytes[j] = Expected(Current'.tx, j)
    <3>1. CASE j = k + 1
      BY <2>1, <3>1, <1>5, <1>6, <1>15, <1>17
    <3>2. CASE j # k + 1
      <4>1. j \in 1 .. k
        BY <3>2, <1>4 DEF k
      <4> QED
        BY <4>1, <1>1, <1>5, <1>6, <2>1 DEF InOrderServed, k
    <3> QED
      BY <3>1, <3>2
  <2> QED
    BY <1>5, <2>2 DEF InOrderServed
<1> QED
  BY <1>11, <1>13, <1>16, <1>18 DEF ReadInv

LEMMA EndStep ==
  ASSUME SlaveAssumption, ReadInv, EndFrame
  PROVE  ReadInv'
<1>1. /\ port' \in Ports /\ port'.SDF /\ ~port'.TDF /\ port'.STDR = <<>>
      /\ port'.SRDR = <<>> /\ port'.BEF = port.BEF
  BY DEF EndFrame, Ended, ReadInv, Types, Ports
<1>2. open' = FALSE /\ UNCHANGED <<frames, slave, app, changes, calm, last>>
  BY DEF EndFrame
<1>3. Types'
  BY <1>1, <1>2 DEF ReadInv, Types
<1>4. LastKind' /\ PortFits' /\ Unserved' /\ SizeKnown' /\ AtRest' /\ Serving'
  BY <1>1, <1>2
  DEF ReadInv, LastKind, PortFits, Unserved, SizeKnown, AtRest, Serving
<1>5. LastServed'
  BY <1>2 DEF ReadInv, LastServed, Current
<1> QED
  BY <1>3, <1>4, <1>5 DEF ReadInv

\* Whatever the driver is not told of leaves the frame that goes on, if any,
\* and puts the driver out of step; at rest there is nothing to forget.
LEMMA DisturbedStep ==
  ASSUME SlaveAssumption, ReadInv,
         NEW b, ~b => ~Busy,
         NEW left, left = LastFrame \/ (left = <<>> /\ ~open'),
         NEW s, Typed(s), s.state = slave.state, Disturbed(b, left, s),
         open' \in BOOLEAN, open' => open,
         port' \in Ports, PortFits', port'.BEF => port.BEF \/ b,
         port'.SDF => port.SDF \/ b,
         ~open' \/ port' = port,
         app' = <<>> \/ app' \in Changing, changes' \in 0 .. MAX_CHANGES,
         b => last' \in {"disturbed", "cut"}, ~b => last' = last,
         b /\ last' # "cut" => open' \/ port'.SDF
  PROVE  ReadInv'
<1>1. slave' \in Slaves(SlaveStates, slave'.calls) /\ slave'.state = s.state
  BY DEF Disturbed, Typed, Slaves
<1>2. CASE b
  <2>1. /\ calm' \in [is : BOOLEAN, begun : 0 .. MAX_FRAMES] /\ ~calm'.is
        /\ calm'.begun = calm.begun /\ frames' = left
    BY <1>2 DEF Disturbed, ReadInv, Types
  <2>2. /\ LastFrame \in Seq(Frames) /\ Len(LastFrame) \in 0 .. 1
        /\ Len(LastFrame) <= Len(frames)
        /\ frames # <<>> => LastFrame = <<Current>>
        /\ \A i \in 1 .. Len(LastFrame) :
             Len(LastFrame[i].bytes) <= LastFrame[i].length
    BY LastLemma DEF ReadInv
  <2>3. Len(frames) \in Nat /\ Len(frames) <= calm.begun /\ calm.begun \in Nat
    BY DEF ReadInv, Types, SlaveAssumption
  <2>4. /\ frames' \in Seq(Frames) /\ Len(frames') \in 0 .. 1
        /\ Len(frames') <= calm'.begun
        /\ \A i \in 1 .. Len(frames') :
             Len(frames'[i].bytes) <= frames'[i].length
    <3>1. CASE left = LastFrame
      BY <3>1, <2>1, <2>2, <2>3
    <3>2. CASE left = <<>>
      BY <3>2, <2>1, <2>3
    <3> QED
      BY <3>1, <3>2
  <2>5. open' => frames' = <<Current>> /\ frames # <<>>
    BY <2>1, <2>2 DEF ReadInv, Types
  <2>6. open' => Current' = Current
    <3> DEFINE f == Current
    <3>1. open' => frames' = <<f>>
      BY <2>5
    <3> HIDE DEF f
    <3>2. <<f>>[Len(<<f>>)] = f
      OBVIOUS
    <3>3. open' => frames'[Len(frames')] = f
      BY <3>1, <3>2
    <3> QED
      BY <3>3 DEF Current, f
  <2>7. open' => frames' # <<>>
    BY <2>5
  <2>8. Types'
    BY <2>1, <2>4, <2>7, <1>1 DEF Types
  <2>9. Unserved'
    BY <2>6 DEF ReadInv, Unserved
  <2>10. ~Followed' /\ LastKind'
    BY <1>2, <2>1 DEF Followed, LastKind
  <2>11. SizeKnown' /\ AtRest' /\ Serving' /\ LastServed'
    BY <1>2, <2>1, <2>4, <2>10
    DEF SizeKnown, AtRest, Serving, LastServed, Followed
  <2> QED
    BY <2>8, <2>9, <2>10, <2>11 DEF ReadInv
<1>3. CASE ~b
  <2>1. ~open' /\ ~open /\ UNCHANGED <<calm, frames, last>>
    BY <1>3 DEF Disturbed, Busy
  <2>2. Types'
    BY <1>1, <2>1 DEF ReadInv, Types
  <2>3. LastKind' /\ Unserved' /\ SizeKnown' /\ Serving' /\ LastServed'
    BY <2>1 DEF ReadInv, LastKind, Unserved, SizeKnown, Serving, LastServed, Current
  <2>4. AtRest'
    BY <2>1, <1>1, <1>3 DEF ReadInv, AtRest, Busy, Pending
  <2> QED
    BY <2>2, <2>3, <2>4 DEF ReadInv
<1> QED
  BY <1>2, <1>3

LEMMA BitErrorStep ==
  ASSUME SlaveAssumption, ReadInv, BitError
  PROVE  ReadInv'
<1>1. Typed(slave)
  BY DEF ReadInv, Types, Typed
<1>2. /\ port' \in Ports /\ ~port'.TDF /\ port'.STDR = <<>>
      /\ port'.SRDR = port.SRDR /\ port'.SDF
  BY DEF BitError, Ended, ReadInv, Types, Ports
<1>3. /\ open /\ ~open' /\ open' = FALSE /\ Current.dir = "read"
      /\ Disturbed(TRUE, <<>>, slave) /\ UNCHANGED <<app, changes>>
      /\ last' = "disturbed"
  BY DEF BitError
<1>4. PortFits'
  BY <1>2, <1>3 DEF ReadInv, PortFits
<1>5. app' = <<>> \/ app' \in Changing
  BY <1>3 DEF ReadInv, Types
<1>6. changes' \in 0 .. MAX_CHANGES
  BY <1>3 DEF ReadInv, Types
<1>7. open' \in BOOLEAN
  BY <1>3
<1> QED
  BY <1>1, <1>2, <1>3, <1>4, <1>5, <1>6, <1>7, DisturbedStep

LEMMA ChangesBounded ==
  ASSUME SlaveAssumption, Types, Change
  PROVE  changes' \in 0 .. MAX_CHANGES
BY DEF Change, Types, SlaveAssumption

LEMMA InitialiseStep ==
  ASSUME SlaveAssumption, ReadInv, initialise
  PROVE  ReadInv'
<1>1. Typed(slave)
  BY DEF ReadInv, Types, Typed
<1>2. ASSUME NEW s, Typed(s), s.state = slave.state,
             Disturbed(Busy, LastFrame, s), UNCHANGED <<open, port>>,
             app' = <<>> \/ app' \in Changing, changes' \in 0 .. MAX_CHANGES
      PROVE  ReadInv'
  <2>0. /\ Busy => last' \in {"disturbed", "cut"}
        /\ ~Busy => last' = last
        /\ Busy /\ last' # "cut" => open' \/ port'.SDF
    BY <1>2 DEF initialise, Busy, Pending, ReadInv, PortFits
  <2>1. PortFits'
    <3>1. CASE open
      <4>1. Busy /\ frames' = LastFrame /\ frames # <<>>
        BY <1>2, <3>1 DEF Busy, Disturbed, ReadInv, Types
      <4> DEFINE f == Current
      <4>2. frames' = <<f>>
        BY <4>1 DEF LastFrame
      <4> HIDE DEF f
      <4>3. frames'[Len(frames')] = f
        BY <4>2
      <4>4. Current' = Current
        BY <4>3 DEF Current, f
      <4> QED
        BY <1>2, <3>1, <4>4 DEF ReadInv, PortFits
    <3>2. CASE ~open
      BY <1>2, <3>2 DEF ReadInv, PortFits
    <3> QED
      BY <3>1, <3>2
  <2>2. open \in BOOLEAN /\ port \in Ports
    BY DEF ReadInv, Types
  <2>3. open' = open /\ port' = port
    BY <1>2
  <2>4. open' \in BOOLEAN
    BY <2>2, <2>3
  <2>5. port' \in Ports
    BY <2>2, <2>3
  <2>6. /\ open' => open
        /\ port'.BEF => port.BEF
        /\ port'.SDF => port.SDF
        /\ ~open' \/ port' = port
    BY <2>3
  <2>7. Disturbed(Busy, LastFrame, s) /\ Typed(s) /\ s.state = slave.state
    BY <1>2
  <2>8. /\ port'.BEF => port.BEF \/ Busy
        /\ port'.SDF => port.SDF \/ Busy
        /\ LastFrame = LastFrame \/ (LastFrame = <<>> /\ ~open')
    BY <2>6
  <2>9. app' = <<>> \/ app' \in Changing
    BY <1>2
  <2>10. changes' \in 0 .. MAX_CHANGES
    BY <1>2
  <2> QED
    BY <2>0, <2>1, <2>4, <2>5, <2>6, <2>7, <2>8, <2>9, <2>10, DisturbedStep
<1>3. CASE ResetIndex
  <2>1. PICK which \in {"rx", "tx"}, n \in NewSizes :
          /\ app' = <<"reset", n, which>>
          /\ Disturbed(Busy, LastFrame,
               IF which = "rx" THEN [slave EXCEPT !.rx_bytes = <<>>]
                               ELSE [slave EXCEPT !.tx_index = 0])
    BY <1>3 DEF ResetIndex
  <2> DEFINE s == IF which = "rx" THEN [slave EXCEPT !.rx_bytes = <<>>]
                                  ELSE [slave EXCEPT !.tx_index = 0]
             bs == Nat \X Nat
  <2>2. <<>> \in Seq(bs)
    OBVIOUS
  <2> HIDE DEF bs
  <2>3. Typed(s) /\ s.state = slave.state
    BY <1>1, <2>2 DEF Typed, Slaves, bs
  <2>4. Disturbed(Busy, LastFrame, s)
    BY <2>1
  <2> HIDE DEF s
  <2>5. app' \in Changing
    BY <2>1 DEF Changing
  <2>6. changes' \in 0 .. MAX_CHANGES /\ UNCHANGED <<open, port>>
    BY <1>3, ChangesBounded DEF ResetIndex, ReadInv
  <2> QED
    BY <1>2, <2>3, <2>4, <2>5, <2>6
<1>4. CASE SetBuffer \/ SetSize
  <2>1. app \in Changing /\ app[2] \in Sizes /\ changes \in 0 .. MAX_CHANGES
    BY <1>4 DEF SetBuffer, SetSize, ReadInv, Types, Changing, Sizes
  <2>2. UNCHANGED <<open, port, changes>>
    BY <1>4 DEF SetBuffer, SetSize
  <2>3. CASE SetBuffer
    <3> DEFINE bs == [i \in DOMAIN slave.rx_bytes |-> <<0, 0>>]
               s == IF app[3] = "rx"
                    THEN [slave EXCEPT !.rx_buffer = app[2], !.rx_bytes = bs]
                    ELSE [slave EXCEPT !.tx_buffer = app[2]]
    <3>1. bs \in Seq(Nat \X Nat)
      <4> DEFINE q == slave.rx_bytes
      <4>1. q \in Seq(Nat \X Nat)
        BY <1>1 DEF Typed, Slaves
      <4> HIDE DEF q
      <4>2. DOMAIN q = 1 .. Len(q) /\ Len(q) \in Nat /\ <<0, 0>> \in Nat \X Nat
        BY <4>1
      <4> DEFINE zero == <<0, 0>>
      <4> HIDE DEF zero
      <4>3. [i \in DOMAIN q |-> zero] \in Seq(Nat \X Nat)
        BY <4>2 DEF zero
      <4> QED
        BY <4>3 DEF q, zero
    <3>2. Disturbed(Busy, LastFrame, s)
      BY <2>3 DEF SetBuffer
    <3> HIDE DEF bs
    <3>3. Typed(s) /\ s.state = slave.state
      BY <1>1, <2>1, <3>1 DEF Typed, Slaves
    <3> HIDE DEF s
    <3>4. app' \in Changing
      BY <2>1, <2>3 DEF SetBuffer, Changing
    <3> QED
      BY <1>2, <2>1, <2>2, <3>2, <3>3, <3>4
  <2>4. CASE SetSize
    <3> DEFINE s == IF app[3] = "rx" THEN [slave EXCEPT !.rx_size = app[2]]
                                     ELSE [slave EXCEPT !.tx_size = app[2]]
    <3>1. Disturbed(Busy, LastFrame, s) /\ app' = <<>>
      BY <2>4 DEF SetSize
    <3>2. Typed(s) /\ s.state = slave.state
      BY <1>1, <2>1 DEF Typed, Slaves
    <3> HIDE DEF s
    <3> QED
      BY <1>2, <2>1, <2>2, <3>1, <3>2
  <2> QED
    BY <1>4, <2>3, <2>4
<1> QED
  BY <1>3, <1>4 DEF initialise

LEMMA ListenStep ==
  ASSUME SlaveAssumption, ReadInv, stop_listening \/ listen
  PROVE  ReadInv'
<1>1. Typed(slave)
  BY DEF ReadInv, Types, Typed
<1>2. port' \in Ports /\ port'.SRDR = <<>> /\ port'.STDR = <<>> /\ ~port'.TDF
        /\ ~port'.SDF /\ ~port'.BEF
  <2>1. port.SASR \in Addresses
    BY DEF ReadInv, Types, Ports
  <2>2. Idle(port.SASR) \in Ports /\ [Idle(port.SASR) EXCEPT !.SEN = TRUE] \in Ports
    BY <2>1 DEF Idle, Ports
  <2>3. port' = Idle(port.SASR) \/ port' = [Idle(port.SASR) EXCEPT !.SEN = TRUE]
    BY DEF stop_listening, listen
  <2>4. CASE port' = Idle(port.SASR)
    BY <2>2, <2>4 DEF Idle
  <2>5. CASE port' = [Idle(port.SASR) EXCEPT !.SEN = TRUE]
    BY <2>2, <2>5 DEF Idle
  <2> QED
    BY <2>3, <2>4, <2>5
<1>3. /\ open' = FALSE /\ app' = app /\ Disturbed(Busy, <<>>, slave)
      /\ Change \/ changes' = changes
  BY DEF stop_listening, listen
<1>4. changes' \in 0 .. MAX_CHANGES
  BY <1>3, ChangesBounded DEF ReadInv, Types
<1>5. PortFits'
  BY <1>2, <1>3 DEF PortFits
<1>6. app' = <<>> \/ app' \in Changing
  BY <1>3 DEF ReadInv, Types
<1>7. open' \in BOOLEAN
  BY <1>3
<1>8. last' = IF Busy THEN "cut" ELSE last
  BY DEF stop_listening, listen
<1> QED
  BY <1>1, <1>2, <1>3, <1>4, <1>5, <1>6, <1>7, <1>8, DisturbedStep

LEMMA ResetStep ==
  ASSUME SlaveAssumption, ReadInv, reset
  PROVE  ReadInv'
<1>1. slave' \in Slaves(SlaveStates, slave'.calls) /\ slave'.state = "idle"
  BY DEF reset, ReadInv, Types, Slaves, SlaveStates, SlaveErrors
<1>2. /\ port' \in Ports /\ port'.SRDR = <<>> /\ port'.STDR = <<>> /\ ~port'.TDF
      /\ port'.BEF = port.BEF
  BY DEF reset, ReadInv, Types, Ports
<1>3. /\ calm' \in [is : BOOLEAN, begun : 0 .. MAX_FRAMES]
      /\ calm'.is = ~port.BEF /\ 0 <= calm'.begun
  <2> DEFINE b == ~port.BEF
  <2>1. b \in BOOLEAN
    OBVIOUS
  <2>2. calm' = [calm EXCEPT !.is = b]
    BY DEF reset
  <2> HIDE DEF b
  <2>3. calm' \in [is : BOOLEAN, begun : 0 .. MAX_FRAMES] /\ calm'.is = b
    BY <2>1, <2>2 DEF ReadInv, Types
  <2> QED
    BY <2>3 DEF b, SlaveAssumption
<1>4. open' = FALSE /\ app' = app /\ frames' = <<>> /\ last' = "disturbed"
  BY DEF reset
<1>5. changes' \in 0 .. MAX_CHANGES
  BY ChangesBounded DEF reset, ReadInv
<1>6. frames' \in Seq(Frames) /\ Len(frames') = 0
  BY <1>4
<1>7. Types'
  <2>1. open' \in BOOLEAN
    BY <1>4
  <2> QED
    BY <2>1, <1>1, <1>2, <1>3, <1>4, <1>5, <1>6 DEF ReadInv, Types
<1>8. LastKind' /\ PortFits' /\ Unserved' /\ SizeKnown' /\ AtRest' /\ Serving'
        /\ LastServed'
  BY <1>1, <1>2, <1>3, <1>4, <1>6
  DEF LastKind, PortFits, Unserved, SizeKnown, AtRest, Serving, LastServed
<1> QED
  BY <1>7, <1>8 DEF ReadInv

LEMMA InterruptStep ==
  ASSUME SlaveAssumption, ReadInv, interrupt_service_routine
  PROVE  ReadInv'
<1>1. port \in Ports /\ Typed(slave) /\ Pending
  BY DEF ReadInv, Types, Typed, interrupt_service_routine
<1>2. /\ port' = [port EXCEPT !.AVF = FALSE, !.SDF = FALSE, !.BEF = FALSE,
                              !.SRDR = <<>>, !.TDF = FALSE,
                              !.STDR = IF port.TDF THEN Answer(Begun) ELSE @]
      /\ UNCHANGED <<open, app, changes, last>>
  BY DEF interrupt_service_routine, Begun
<1>3. \/ /\ InStep /\ calm' = [calm EXCEPT !.is = TRUE]
         /\ frames' = IF open THEN LastFrame ELSE <<>>
         /\ \E l : slave' = [Done EXCEPT !.calls = l]
      \/ ~InStep /\ slave' = Done /\ UNCHANGED <<calm, frames>>
  BY DEF interrupt_service_routine, Done, Begun
<1>4. /\ Typed(Done) /\ SameBuffers(slave, Done)
      /\ Answer(Begun) \in {<<b>> : b \in Nat}
      /\ port.BEF => Done.state = "idle"
      /\ port.SRDR = <<>> /\ ~port.TDF /\ ~port.BEF =>
           Done.state = StateDue /\ Done.tx_index = slave.tx_index
      /\ port.SRDR = <<>> /\ port.TDF /\ ~port.BEF =>
           /\ Done.state = IF StateDue = "idle" THEN "transmitting" ELSE StateDue
           /\ Done.tx_index = IF IndexDue < slave.tx_size THEN IndexDue + 1
                                                          ELSE IndexDue
           /\ Answer(Begun) = IF IndexDue < slave.tx_size
                              THEN <<IndexDue + 1>> ELSE <<DUMMY_BYTE>>
  BY <1>1, RoutineLemma
<1> DEFINE answer == Answer(Begun)
           done == Done
<1>5. /\ port' \in Ports /\ ~port'.SDF /\ ~port'.BEF /\ ~port'.TDF
      /\ port'.SRDR = <<>>
      /\ port'.STDR = IF port.TDF THEN answer ELSE port.STDR
  <2> HIDE DEF answer
  <2> QED
    BY <1>1, <1>2, <1>4 DEF answer, Ports
<1> HIDE DEF answer, done
<1>6. /\ slave' \in Slaves(SlaveStates, slave'.calls)
      /\ slave'.state = done.state /\ slave'.tx_index = done.tx_index
      /\ slave'.tx_size = slave.tx_size
  BY <1>3, <1>4 DEF done, Typed, Slaves, SameBuffers
<1>7. /\ calm' \in [is : BOOLEAN, begun : 0 .. MAX_FRAMES]
      /\ calm'.begun = calm.begun /\ calm'.is = (InStep \/ calm.is)
  BY <1>3 DEF ReadInv, Types
<1>8. frames' = frames \/ (InStep /\ ~open /\ frames' = <<>>)
        \/ (InStep /\ open /\ frames' = LastFrame)
  BY <1>3
<1>9. /\ frames' \in Seq(Frames) /\ Len(frames') <= calm'.begun
      /\ \A i \in 1 .. Len(frames') : Len(frames'[i].bytes) <= frames'[i].length
      /\ open' => frames' # <<>> /\ Current' = Current
  <2>1. /\ LastFrame \in Seq(Frames) /\ Len(LastFrame) \in 0 .. 1
        /\ Len(LastFrame) <= Len(frames)
        /\ frames # <<>> => LastFrame = <<Current>>
        /\ \A i \in 1 .. Len(LastFrame) :
             Len(LastFrame[i].bytes) <= LastFrame[i].length
    BY LastLemma DEF ReadInv
  <2>2. frames \in Seq(Frames) /\ Len(frames) <= calm.begun /\ calm.begun \in Nat
    BY DEF ReadInv, Types, SlaveAssumption
  <2>3. open' = open /\ (open => frames # <<>>)
    BY <1>2 DEF ReadInv, Types
  <2>4. CASE frames' = frames
    BY <2>2, <2>3, <2>4, <1>7 DEF ReadInv, Types, Current
  <2>5. CASE ~open /\ frames' = <<>>
    BY <2>2, <2>3, <2>5, <1>7
  <2>6. CASE open /\ frames' = LastFrame
    <3> DEFINE f == Current
    <3>1. frames' = <<f>>
      BY <2>1, <2>3, <2>6
    <3> HIDE DEF f
    <3>2. frames'[Len(frames')] = f /\ frames' # <<>>
      BY <3>1
    <3>3. Current' = Current
      BY <3>2 DEF Current, f
    <3>4. Len(frames) \in Nat /\ Len(LastFrame) \in Nat
      BY <2>1, <2>2
    <3> QED
      BY <2>1, <2>2, <2>6, <3>2, <3>3, <3>4, <1>7
  <2> QED
    BY <1>8, <2>4, <2>5, <2>6
<1>10. Types'
  BY <1>2, <1>5, <1>6, <1>7, <1>9 DEF ReadInv, Types
<1>11. PortFits'
  BY <1>1, <1>2, <1>5, <1>9 DEF ReadInv, PortFits
<1>12. Unserved' /\ LastKind'
  BY <1>2, <1>5 DEF ReadInv, Unserved, LastKind
<1>13. InStep => Len(frames) > IF open THEN 1 ELSE 0
  BY DEF InStep
<1>14. SizeKnown'
  BY <1>2, <1>6, <1>7, <1>8, <1>9, <1>13 DEF ReadInv, SizeKnown, Followed
<1>15. AtRest'
  <2>1. ASSUME ~open PROVE done.state = "idle"
    <3>1. port.SRDR = <<>> /\ ~port.TDF
      BY <2>1 DEF ReadInv, PortFits
    <3>2. port.SDF
      BY <1>1, <3>1 DEF Pending
    <3> QED
      BY <1>4, <3>1, <3>2 DEF done, StateDue
  <2> QED
    BY <1>2, <1>5, <1>6, <2>1 DEF AtRest
<1>16. Followed' /\ open => ~port.BEF
  BY <1>2, <1>7 DEF ReadInv, AtRest, InStep, Followed
<1>17. Serving'
  <2> SUFFICES ASSUME Followed', open', Current'.dir = "read"
               PROVE  LET n == Len(Current.bytes)
                          tx == slave.tx_size
                      IN  /\ answer = <<Expected(tx, n + 1)>> /\ port.TDF
                          /\ done.state = "transmitting"
                          /\ done.tx_index = Lesser(n + 1, tx)
    BY <1>5, <1>6, <1>9 DEF Serving
  <2>1. open /\ Current.dir = "read" /\ port.SRDR = <<>>
    BY <1>2, <1>9 DEF ReadInv, PortFits
  <2>2. slave.tx_size \in Nat /\ slave.tx_index \in Nat
    BY <1>1 DEF Typed, Slaves, Sizes, SlaveAssumption
  <2>3. ASSUME port.TDF, StateDue = "idle", Len(Current.bytes) = 0
        PROVE  /\ answer = <<Expected(slave.tx_size, 1)>>
               /\ done.state = "transmitting"
               /\ done.tx_index = Lesser(1, slave.tx_size)
    <3>1. IndexDue = 0
      BY <2>3 DEF IndexDue
    <3> QED
      BY <1>4, <1>16, <2>1, <2>2, <2>3, <3>1
      DEF answer, done, Expected, Lesser
  <2>4. CASE port.SDF
    <3>1. Current.bytes = <<>> /\ port.TDF
      BY <2>1, <2>4 DEF ReadInv, Unserved
    <3> QED
      BY <2>3, <2>4, <3>1 DEF StateDue
  <2>5. CASE ~port.SDF
    <3>1. Followed /\ port.TDF
      BY <1>1, <1>2, <1>7, <2>1, <2>5 DEF InStep, Pending, Followed
    <3> DEFINE n == Len(Current.bytes)
    <3>2. CASE n = 0 /\ slave.state = "idle"
      BY <2>3, <2>5, <3>1, <3>2 DEF StateDue
    <3>3. CASE slave.state = "transmitting" /\ slave.tx_index = Lesser(n, slave.tx_size)
      <4>1. StateDue = "transmitting" /\ IndexDue = slave.tx_index
        BY <2>5, <3>3 DEF StateDue, IndexDue
      <4>2. n \in Nat
        BY <2>1, CurrentLemma DEF ReadInv, Types
      <4> HIDE DEF n
      <4>3. done.state = "transmitting"
        BY <1>4, <1>16, <2>1, <3>1, <4>1 DEF done
      <4>4. CASE n < slave.tx_size
        <5>1. IndexDue = n
          BY <4>1, <4>2, <4>4, <2>2, <3>3 DEF Lesser
        <5>2. done.tx_index = n + 1 /\ answer = <<n + 1>>
          BY <1>4, <1>16, <2>1, <3>1, <4>4, <5>1 DEF done, answer
        <5>3. Expected(slave.tx_size, n + 1) = n + 1
              /\ Lesser(n + 1, slave.tx_size) = n + 1
          <6> DEFINE tx == slave.tx_size
          <6>1. tx \in Nat /\ n < tx
            BY <4>4, <2>2
          <6> HIDE DEF tx
          <6>2. n + 1 <= tx
            BY <4>2, <6>1
          <6>3. Expected(tx, n + 1) = n + 1 /\ Lesser(n + 1, tx) = n + 1
            BY <6>2 DEF Expected, Lesser
          <6> QED
            BY <6>3 DEF tx
        <5> QED
          BY <3>1, <4>3, <5>2, <5>3 DEF n
      <4>5. CASE ~(n < slave.tx_size)
        <5>1. IndexDue = slave.tx_size
          BY <4>1, <4>2, <4>5, <2>2, <3>3 DEF Lesser
        <5>2. done.tx_index = slave.tx_size /\ answer = <<DUMMY_BYTE>>
          BY <1>4, <1>16, <2>1, <2>2, <3>1, <5>1 DEF done, answer
        <5>3. Expected(slave.tx_size, n + 1) = DUMMY_BYTE
              /\ Lesser(n + 1, slave.tx_size) = slave.tx_size
          BY <4>2, <4>5, <2>2 DEF Expected, Lesser
        <5> QED
          BY <3>1, <4>3, <5>2, <5>3 DEF n
      <4> QED
        BY <4>4, <4>5
    <3> QED
      BY <2>1, <2>5, <3>1, <3>2, <3>3 DEF ReadInv, Serving
  <2> QED
    BY <2>4, <2>5
<1>18. LastServed'
  <2>1. frames' # <<>> => frames # <<>> /\ Current' = Current
    <3>1. open => frames # <<>> /\ Current' = Current
      BY <1>2, <1>9 DEF ReadInv, Types
    <3>2. ~open /\ frames' # <<>> => frames' = frames
      BY <1>8
    <3> QED
      BY <3>1, <3>2 DEF Current
  <2> QED
    BY <1>2, <2>1 DEF ReadInv, LastServed
<1> QED
  BY <1>10, <1>11, <1>12, <1>14, <1>15, <1>17, <1>18 DEF ReadInv

LEMMA ReadStep ==
  ASSUME SlaveAssumption, ReadInv, [Next]_vars
  PROVE  ReadInv'
<1>1. CASE Master
  BY <1>1, StartStep, SendStep, TakeStep, EndStep, BitErrorStep DEF Master
<1>2. CASE interrupt_service_routine
  BY <1>2, InterruptStep
<1>3. CASE Application
  BY <1>3, InitialiseStep, ListenStep, ResetStep DEF Application
<1>4. CASE UNCHANGED vars
  <2>1. ReadInv' = ReadInv
    BY <1>4 DEF vars, ReadInv, Types, LastKind, Followed, PortFits, Unserved,
                SizeKnown, AtRest, Serving, LastServed, Current
  <2> QED
    BY <2>1
<1> QED
  BY <1>1, <1>2, <1>3, <1>4 DEF Next

LEMMA ReadInvariance == Spec => []ReadInv
<1>1. Init => ReadInv
  BY SlaveAssumption, InitInv
<1>2. ReadInv /\ [Next]_vars => ReadInv'
  BY SlaveAssumption, ReadStep
<1> QED
  BY <1>1, <1>2, PTL DEF Spec

\* A read that is not disturbed itself and does not follow one cut off by
\* stop_listening() or listen() is sent the bytes of the transmit buffer from
\* the first one on, and no byte of it again after the last, however late the
\* interrupt is.  (What it is sent after the last is not said.)
THEOREM ReadsAreServedInOrder == Spec => []ReadsServed
<1>1. ReadInv => ReadsServed
  <2> SUFFICES ASSUME ReadInv, LastRead, last = "fresh" PROVE Served(Current)
    BY DEF ReadsServed
  <2>1. InOrderServed(Current) /\ Current \in Frames /\ Current.dir = "read"
    BY CurrentLemma DEF ReadInv, LastServed, LastRead
  <2>2. Current.bytes \in Seq(Nat) /\ Current.tx \in Nat
    <3>1. Current.bytes \in Seq(Nat) /\ Current.tx \in Sizes
      BY <2>1 DEF Frames
    <3>2. Sizes \subseteq Nat
      BY SlaveAssumption DEF Sizes, SlaveAssumption
    <3> QED
      BY <3>1, <3>2
  <2>3. \A j \in 1 .. Len(Current.bytes) :
          Current.bytes[j] = IF j <= Current.tx THEN j ELSE 0
    BY <2>1 DEF InOrderServed, Expected, DUMMY_BYTE
  <2> DEFINE b == Current.bytes
  <2>4. DOMAIN b = 1 .. Len(b)
    BY <2>2
  <2>5. 0 \notin 1 .. Current.tx
    BY <2>2
  <2> QED
    BY <2>3, <2>4, <2>5 DEF Served
<1> QED
  BY <1>1, ReadInvariance, PTL

-----------------------------------------------------------------------------
(* What is stored and served stays inside the buffers.                     *)

\* What StoresInBuffer says of a step that is not the application's own.
Stores ==
  app' = app =>
    /\ slave'.rx_bytes # slave.rx_bytes => Len(slave'.rx_bytes) <= slave.rx_buffer
    /\ slave'.tx_index > slave.tx_index => slave'.tx_index <= slave.tx_buffer

SameFields(s, t) == SameBuffers(s, t) /\ SameBytes(s, t)

LEMMA NumbersLemma ==
  ASSUME SlaveAssumption, NEW s, Typed(s)
  PROVE  /\ s.rx_size \in Nat /\ s.rx_buffer \in Nat
         /\ s.tx_size \in Nat /\ s.tx_buffer \in Nat /\ s.tx_index \in Nat
         /\ Len(s.rx_bytes) \in Nat
<1>1. s.rx_bytes \in Seq(Nat \X Nat)
  BY DEF Typed, Slaves
<1>2. Len(s.rx_bytes) \in Nat
  BY <1>1
<1>3. Sizes \subseteq Nat
  BY DEF Sizes, SlaveAssumption
<1> QED
  BY <1>2, <1>3 DEF Typed, Slaves

\* The callbacks are no part of what is stored.
LEMMA DisturbedFields ==
  ASSUME NEW b, NEW left, NEW s, Typed(s), Disturbed(b, left, s)
  PROVE  SameFields(s, slave')
BY DEF Disturbed, Typed, Slaves, SameFields, SameBuffers, SameBytes

LEMMA InsideKept ==
  ASSUME SlaveAssumption, Typed(slave), Inside, SameFields(slave, slave'),
         app' = app
  PROVE  Inside' /\ Stores
<1>1. slave.tx_index \in Nat
  BY NumbersLemma
<1> QED
  BY <1>1 DEF Inside, Stores, SameFields, SameBuffers, SameBytes

LEMMA InterruptInside ==
  ASSUME SlaveAssumption, ReadInv, Inside, interrupt_service_routine
  PROVE  Inside' /\ Stores
<1>1. port \in Ports /\ Typed(slave)
  BY DEF ReadInv, Types, Typed
<1>2. Within(slave)
  BY DEF Within, Inside
<1>3. Typed(Done) /\ SameBuffers(slave, Done) /\ Within(Done)
  BY <1>1, <1>2, RoutineLemma
<1>4. app' = app /\ \E l : slave' = [Done EXCEPT !.calls = l] \/ slave' = Done
  BY DEF interrupt_service_routine, Done, Begun
<1>5. SameFields(Done, slave')
  BY <1>3, <1>4 DEF Typed, Slaves, SameFields, SameBuffers, SameBytes
<1>6. /\ slave.rx_size \in Nat /\ slave.rx_buffer \in Nat
      /\ slave.tx_size \in Nat /\ slave.tx_buffer \in Nat
  BY <1>1, NumbersLemma
<1>7. Len(Done.rx_bytes) \in Nat /\ Done.tx_index \in Nat
  BY <1>3, NumbersLemma
<1>8. /\ Len(slave'.rx_bytes) \in Nat /\ Len(slave'.rx_bytes) <= slave.rx_size
      /\ slave'.tx_index \in Nat /\ slave'.tx_index <= slave.tx_size
      /\ SameBuffers(slave, slave')
  BY <1>3, <1>5, <1>7 DEF Within, SameFields, SameBuffers, SameBytes
<1>9. /\ Len(slave'.rx_bytes) <= slave.rx_buffer
      /\ slave'.tx_index <= slave.tx_buffer
  BY <1>6, <1>8 DEF Inside
<1>10. Inside'
  BY <1>4, <1>8 DEF Inside, SameBuffers
<1> QED
  BY <1>9, <1>10 DEF Stores

LEMMA InitialiseInside ==
  ASSUME SlaveAssumption, ReadInv, Inside, initialise, [NoSmaller]_vars
  PROVE  Inside' /\ Stores
<1>1. Typed(slave)
  BY DEF ReadInv, Types, Typed
<1>2. /\ slave.rx_size \in Nat /\ slave.rx_buffer \in Nat
      /\ slave.tx_size \in Nat /\ slave.tx_buffer \in Nat
      /\ slave.tx_index \in Nat /\ Len(slave.rx_bytes) \in Nat
  BY <1>1, NumbersLemma
<1>3. CASE ResetIndex
  <2>1. PICK which \in {"rx", "tx"}, n \in NewSizes :
          /\ app' = <<"reset", n, which>>
          /\ Disturbed(Busy, LastFrame,
               IF which = "rx" THEN [slave EXCEPT !.rx_bytes = <<>>]
                               ELSE [slave EXCEPT !.tx_index = 0])
    BY <1>3 DEF ResetIndex
  <2>2. app = <<>>
    BY <1>3 DEF ResetIndex, Change
  <2> DEFINE s == IF which = "rx" THEN [slave EXCEPT !.rx_bytes = <<>>]
                                  ELSE [slave EXCEPT !.tx_index = 0]
             bs == Nat \X Nat
             old == IF which = "rx" THEN slave.rx_buffer ELSE slave.tx_buffer
  <2>3. <<>> \in Seq(bs) /\ n \in Nat
    BY DEF SlaveAssumption
  <2> HIDE DEF bs
  <2>4. Typed(s) /\ SameBuffers(slave, s)
        /\ s.rx_bytes = (IF which = "rx" THEN <<>> ELSE slave.rx_bytes)
        /\ s.tx_index = (IF which = "rx" THEN slave.tx_index ELSE 0)
    BY <1>1, <2>3 DEF Typed, Slaves, SameBuffers, bs
  <2>5. Disturbed(Busy, LastFrame, s)
    BY <2>1
  <2> HIDE DEF s
  <2>6. SameFields(s, slave')
    BY <2>4, <2>5, DisturbedFields
  <2>7. app'[1] = "reset" /\ app'[2] = n /\ app'[3] = which /\ app' # <<>>
    BY <2>1
  <2>8. old <= n
    BY <2>2, <2>3, <2>7, <1>2 DEF NoSmaller, vars
  <2>9. Inside'
    <3>1. Len(s.rx_bytes) <= s.rx_size /\ s.tx_index <= s.tx_size
      BY <1>2, <2>4 DEF Inside, SameBuffers
    <3> QED
      BY <2>4, <2>6, <2>7, <2>8, <3>1
      DEF Inside, SameFields, SameBuffers, SameBytes
  <2> QED
    BY <2>2, <2>7, <2>9 DEF Stores
<1>4. CASE SetBuffer
  <2>1. app \in Changing /\ app # <<>> /\ app[1] = "reset"
    BY <1>4 DEF SetBuffer, ReadInv, Types
  <2>2. PICK n \in NewSizes, which \in {"rx", "tx"} : app = <<"reset", n, which>>
    <3> DEFINE a1 == app[1]
               a2 == app[2]
               a3 == app[3]
    <3>1. /\ a2 \in NewSizes /\ a3 \in {"rx", "tx"} /\ a1 = "reset"
          /\ app = <<a1, a2, a3>>
      BY <2>1 DEF Changing
    <3> HIDE DEF a1, a2, a3
    <3>2. app = <<"reset", a2, a3>>
      BY <3>1
    <3> QED
      BY <3>1, <3>2
  <2>3. app' = <<"buffer", n, which>>
    BY <1>4, <2>2 DEF SetBuffer
  <2> DEFINE bs == [i \in DOMAIN slave.rx_bytes |-> <<0, 0>>]
             s == IF app[3] = "rx"
                  THEN [slave EXCEPT !.rx_buffer = app[2], !.rx_bytes = bs]
                  ELSE [slave EXCEPT !.tx_buffer = app[2]]
  <2>4. bs \in Seq(Nat \X Nat) /\ Len(bs) = Len(slave.rx_bytes)
    <3> DEFINE q == slave.rx_bytes
               zero == <<0, 0>>
    <3>1. q \in Seq(Nat \X Nat)
      BY <1>1 DEF Typed, Slaves
    <3> HIDE DEF q
    <3>2. DOMAIN q = 1 .. Len(q) /\ Len(q) \in Nat /\ zero \in Nat \X Nat
      BY <3>1
    <3> HIDE DEF zero
    <3>3. /\ [i \in DOMAIN q |-> zero] \in Seq(Nat \X Nat)
          /\ Len([i \in DOMAIN q |-> zero]) = Len(q)
      BY <3>2
    <3> QED
      BY <3>3 DEF q, zero
  <2>5. Disturbed(Busy, LastFrame, s)
    BY <1>4 DEF SetBuffer
  <2> HIDE DEF bs
  <2>6. app[2] = n /\ app[3] = which /\ n \in Sizes /\ n \in Nat
    BY <2>2 DEF Sizes, SlaveAssumption
  <2>7. /\ Typed(s) /\ s.tx_index = slave.tx_index
        /\ s.rx_size = slave.rx_size /\ s.tx_size = slave.tx_size
        /\ s.rx_bytes = (IF which = "rx" THEN bs ELSE slave.rx_bytes)
        /\ s.rx_buffer = (IF which = "rx" THEN n ELSE slave.rx_buffer)
        /\ s.tx_buffer = (IF which = "rx" THEN slave.tx_buffer ELSE n)
    BY <1>1, <2>4, <2>6 DEF Typed, Slaves
  <2> HIDE DEF s
  <2>8. SameFields(s, slave')
    BY <2>5, <2>7, DisturbedFields
  <2>9. (IF which = "rx" THEN slave.rx_buffer ELSE slave.tx_buffer) <= n
    BY <2>1, <2>6 DEF Inside
  <2>10. app'[1] = "buffer" /\ app'[2] = n /\ app'[3] = which /\ app' # app
    BY <2>2, <2>3
  <2>11. Inside'
    <3>1. /\ Len(s.rx_bytes) <= s.rx_size /\ s.rx_size <= s.rx_buffer
          /\ s.tx_index <= s.tx_size /\ s.tx_size <= s.tx_buffer
      BY <1>2, <2>4, <2>6, <2>7, <2>9 DEF Inside
    <3> QED
      BY <2>7, <2>8, <2>10, <3>1 DEF Inside, SameFields, SameBuffers, SameBytes
  <2> QED
    BY <2>10, <2>11 DEF Stores
<1>5. CASE SetSize
  <2>1. app \in Changing /\ app # <<>> /\ app[1] = "buffer" /\ app' = <<>>
    BY <1>5 DEF SetSize, ReadInv, Types
  <2> DEFINE s == IF app[3] = "rx" THEN [slave EXCEPT !.rx_size = app[2]]
                                   ELSE [slave EXCEPT !.tx_size = app[2]]
  <2>2. Disturbed(Busy, LastFrame, s)
    BY <1>5 DEF SetSize
  <2>3. app[2] \in Sizes /\ app[2] \in Nat
    BY <2>1 DEF Changing, Sizes, SlaveAssumption
  <2>4. /\ Typed(s) /\ SameBytes(slave, s)
        /\ s.rx_buffer = slave.rx_buffer /\ s.tx_buffer = slave.tx_buffer
        /\ s.rx_size = (IF app[3] = "rx" THEN app[2] ELSE slave.rx_size)
        /\ s.tx_size = (IF app[3] = "rx" THEN slave.tx_size ELSE app[2])
    BY <1>1, <2>3 DEF Typed, Slaves, SameBytes
  <2> HIDE DEF s
  <2>5. SameFields(s, slave')
    BY <2>2, <2>4, DisturbedFields
  <2>6. (IF app[3] = "rx" THEN slave.rx_buffer ELSE slave.tx_buffer) = app[2]
    BY <2>1 DEF Inside
  <2>7. Inside'
    <3>1. /\ Len(s.rx_bytes) <= s.rx_size /\ s.rx_size <= s.rx_buffer
          /\ s.tx_index <= s.tx_size /\ s.tx_size <= s.tx_buffer
      BY <1>2, <2>3, <2>4, <2>6 DEF Inside, SameBytes
    <3> QED
      BY <2>1, <2>5, <3>1 DEF Inside, SameFields, SameBuffers, SameBytes
  <2> QED
    BY <2>1, <2>7 DEF Stores
<1> QED
  BY <1>3, <1>4, <1>5 DEF initialise

LEMMA InsideStep ==
  ASSUME SlaveAssumption, ReadInv, Inside, [Next]_vars, [NoSmaller]_vars
  PROVE  Inside' /\ [Stores]_vars
<1>1. Typed(slave)
  BY DEF ReadInv, Types, Typed
<1>2. SameFields(slave, slave)
  BY DEF SameFields, SameBuffers, SameBytes
<1>3. CASE Master
  <2>1. CASE BitError
    <3>1. Disturbed(TRUE, <<>>, slave) /\ app' = app
      BY <2>1 DEF BitError
    <3> QED
      BY <1>1, <3>1, DisturbedFields, InsideKept
  <2>2. CASE StartFrame \/ SendByte \/ TakeByte \/ EndFrame
    <3>1. slave' = slave /\ app' = app
      BY <2>2 DEF StartFrame, SendByte, TakeByte, Transfer, EndFrame
    <3> QED
      BY <1>1, <1>2, <3>1, InsideKept
  <2> QED
    BY <1>3, <2>1, <2>2 DEF Master
<1>4. CASE interrupt_service_routine
  BY <1>4, InterruptInside
<1>5. CASE initialise
  BY <1>5, InitialiseInside
<1>6. CASE stop_listening \/ listen
  <2>1. Disturbed(Busy, <<>>, slave) /\ app' = app
    BY <1>6 DEF stop_listening, listen
  <2> QED
    BY <1>1, <2>1, DisturbedFields, InsideKept
<1>7. CASE reset
  <2>1. SameFields(slave, slave') /\ app' = app
    BY <1>1, <1>7 DEF reset, Typed, Slaves, SameFields, SameBuffers, SameBytes
  <2> QED
    BY <1>1, <2>1, InsideKept
<1>8. CASE UNCHANGED vars
  BY <1>8 DEF vars, Inside
<1> QED
  BY <1>3, <1>4, <1>5, <1>6, <1>7, <1>8 DEF Next, Application

LEMMA InsideInvariance ==
  Spec /\ [][NoSmaller]_vars => [](ReadInv /\ Inside)
<1>1. Init => ReadInv /\ Inside
  BY SlaveAssumption, InitInv
<1>2. ReadInv /\ Inside /\ [Next]_vars /\ [NoSmaller]_vars => (ReadInv /\ Inside)'
  BY SlaveAssumption, ReadStep, InsideStep
<1> QED
  BY <1>1, <1>2, PTL DEF Spec

LEMMA ShortLemma ==
  ASSUME NEW S, NEW q \in {<<>>} \cup {<<c>> : c \in S}
  PROVE  q \in Seq(S) /\ Len(q) <= 1
<1>1. CASE q = <<>>
  BY <1>1
<1>2. CASE q # <<>>
  <2>1. PICK c \in S : q = <<c>>
    BY <1>2
  <2> QED
    BY <2>1
<1> QED
  BY <1>1, <1>2

LEMMA TypesImplyTypeOK ==
  ASSUME SlaveAssumption, ReadInv, Inside
  PROVE  TypeOK
<1>1. /\ frames \in Seq(Frames) /\ Len(frames) \in Nat
      /\ DOMAIN frames = 1 .. Len(frames)
  BY DEF ReadInv, Types
<1>2. Len(frames) <= MAX_FRAMES /\ calm.begun \in Len(frames) .. MAX_FRAMES
  BY <1>1 DEF ReadInv, Types, SlaveAssumption
<1>3. ASSUME NEW i \in DOMAIN frames
      PROVE  /\ frames[i].dir \in {"read", "write"}
             /\ frames[i].address \in Addresses
             /\ frames[i].length \in ReadLengths \cup WriteLengths
             /\ frames[i].bytes \in Seq(BytesOf(frames[i]))
             /\ Len(frames[i].bytes) <= frames[i].length
  <2>1. frames[i] \in Frames /\ Len(frames[i].bytes) <= frames[i].length
    BY <1>1 DEF ReadInv, Types
  <2> QED
    BY <2>1 DEF Frames, Lengths, BytesOf
<1>4. open \in BOOLEAN /\ port \in Ports
  BY DEF ReadInv, Types
<1>5. /\ port.STDR \in {<<>>} \cup {<<b>> : b \in Nat}
      /\ port.SRDR \in {<<>>} \cup {<<r>> : r \in Received}
  BY <1>4 DEF Ports
<1>6. /\ port.STDR \in Seq(Nat) /\ Len(port.STDR) <= 1
      /\ port.SRDR \in Seq(Received) /\ Len(port.SRDR) <= 1
  BY <1>5, ShortLemma
<1>7. port \in [SEN : BOOLEAN, AVF : BOOLEAN, SASR : Addresses, SDF : BOOLEAN,
                TDF : BOOLEAN, BEF : BOOLEAN, STDR : Seq(Nat),
                SRDR : Seq([SOF : BOOLEAN, DATA : Nat \X Nat])]
  BY <1>4, <1>6 DEF Ports, Received
<1>8. Typed(slave)
  BY DEF ReadInv, Types, Typed
<1>9. slave.tx_index \in 0 .. slave.tx_size
  BY <1>8, NumbersLemma DEF Inside
<1>10. /\ slave.state \in {"receiving", "transmitting", "idle"}
       /\ slave.error \in {"ok", "buffer_overflow", "buffer_underflow", "bit_error"}
       /\ slave.address_called \in Addresses
       /\ slave.trailing_byte_sent \in BOOLEAN
       /\ {slave.tx_buffer, slave.tx_size, slave.rx_buffer, slave.rx_size}
            \subseteq Sizes
       /\ slave.rx_bytes \in Seq(Nat \X Nat)
  BY <1>8 DEF Typed, Slaves, SlaveStates, SlaveErrors
<1>11. /\ changes \in 0 .. MAX_CHANGES
       /\ app = <<>> \/ app \in {"reset", "buffer"} \X NewSizes \X {"rx", "tx"}
  BY DEF ReadInv, Types, Changing
<1> QED
  BY <1>2, <1>3, <1>4, <1>6, <1>7, <1>9, <1>10, <1>11 DEF TypeOK, ReadInv, LastKind

\* As long as no buffer is replaced by a smaller one the fields of the driver
\* stay in their types, the index of the transmit buffer within its size.
THEOREM TypeCorrect == Spec /\ [][NoSmaller]_vars => []TypeOK
<1>1. ReadInv /\ Inside => TypeOK
  BY SlaveAssumption, TypesImplyTypeOK
<1> QED
  BY <1>1, InsideInvariance, PTL

\* The interrupt stores nothing beyond the receive buffer and serves nothing
\* from beyond the transmit buffer, also while the application replaces one of
\* them by a buffer that is at least as large.
THEOREM BuffersAreRespected == Spec /\ [][NoSmaller]_vars => StoresInBuffer
<1>1. ReadInv /\ Inside /\ [Next]_vars /\ [NoSmaller]_vars => [Stores]_vars
  BY SlaveAssumption, InsideStep
<1>2. Spec /\ [][NoSmaller]_vars => [][Stores]_vars
  BY <1>1, InsideInvariance, PTL DEF Spec
<1> QED
  BY <1>2 DEF StoresInBuffer, Stores


-----------------------------------------------------------------------------
(* Sequences, and sequences of sequences put together.                     *)

\* A set of numbers that is not empty has a least one.
LEMMA LeastLemma ==
  ASSUME NEW S \in SUBSET Nat, S # {}
  PROVE  \E m \in S : \A y \in S : m <= y
<1>1. PICK m \in S : \A y \in S : <<y, m>> \notin OpToRel(<, Nat)
  BY NatLessThanWellFounded, WFMin, Zenon
<1>2. m \in Nat /\ \A y \in S : y \in Nat
  OBVIOUS
<1>3. \A y \in S : ~(y < m)
  BY <1>1, <1>2, Zenon DEF OpToRel
<1> QED
  BY <1>2, <1>3

\* One sequence after another.
LEMMA ConcatLemma ==
  ASSUME NEW S, NEW p \in Seq(S), NEW q \in Seq(S)
  PROVE  /\ p \o q \in Seq(S) /\ Len(p \o q) = Len(p) + Len(q)
         /\ \A i \in 1 .. Len(p) : (p \o q)[i] = p[i]
         /\ \A i \in 1 .. Len(q) : (p \o q)[Len(p) + i] = q[i]
         /\ p \o <<>> = p /\ <<>> \o q = q
  OBVIOUS

\* Sequences with the same elements are the same.
LEMMA SameSeq ==
  ASSUME NEW S, NEW p \in Seq(S), NEW q \in Seq(S), Len(p) = Len(q),
         \A i \in 1 .. Len(p) : p[i] = q[i]
  PROVE  p = q
  OBVIOUS

\* n sequences, and others that begin with them or are as long.
Continues(r, q, n, S) ==
  /\ n \in Nat /\ q \in [1 .. n -> Seq(S)] /\ r \in [1 .. n + 1 -> Seq(S)]
  /\ \A i \in 1 .. n : r[i] = q[i]

\* n sequences, and as many of the same lengths.
AsLong(q, r, n, S, R) ==
  /\ n \in Nat /\ q \in [1 .. n -> Seq(S)] /\ r \in [1 .. n -> Seq(R)]
  /\ \A i \in 1 .. n : Len(q[i]) = Len(r[i])

\* f[i] is the first i sequences of q in a row.
Flat(f, q, n) ==
  /\ f[1] = q[1]
  /\ \A i \in 2 .. n : f[i] = f[i - 1] \o q[i]

\* There is a function that puts together the first 0, 1, .. n of n sequences.
LEMMA FlatExists ==
  ASSUME NEW S, NEW n \in Nat \ {0}, NEW q \in [1 .. n -> Seq(S)]
  PROVE  \E f \in [1 .. n -> Seq(S)] : Flat(f, q, n)
<1> DEFINE T == {k \in 1 .. n : ~ \E f \in [1 .. k -> Seq(S)] : Flat(f, q, k)}
<1>1. T \in SUBSET Nat /\ (n \notin T => \E f \in [1 .. n -> Seq(S)] : Flat(f, q, n))
  OBVIOUS
<1> HIDE DEF T
<1> SUFFICES ASSUME T # {}
             PROVE  FALSE
  BY <1>1
<1>2. PICK m \in T : \A k \in T : m <= k
  BY <1>1, LeastLemma
<1>3. m \in 1 .. n /\ ~ \E f \in [1 .. m -> Seq(S)] : Flat(f, q, m)
  BY <1>2 DEF T
<1>4. CASE m = 1
  <2> DEFINE f == [i \in 1 .. 1 |-> q[1]]
  <2>1. f \in [1 .. 1 -> Seq(S)] /\ f[1] = q[1]
    OBVIOUS
  <2>2. 2 .. 1 = {}
    OBVIOUS
  <2> HIDE DEF f
  <2>3. Flat(f, q, 1)
    BY <2>1, <2>2 DEF Flat
  <2> QED
    BY <1>3, <1>4, <2>1, <2>3
<1>5. CASE m # 1
  <2> DEFINE k == m - 1
  <2>1. k \in 1 .. n /\ k \in Nat /\ k + 1 = m /\ k < m /\ m \in Nat
    BY <1>3, <1>5
  <2> HIDE DEF k
  <2>2. k \notin T
    BY <1>2, <1>3, <2>1
  <2>3. PICK f \in [1 .. k -> Seq(S)] : Flat(f, q, k)
    BY <2>1, <2>2 DEF T
  <2> DEFINE x == f[k] \o q[m]
             g == [i \in 1 .. m |-> IF i = m THEN x ELSE f[i]]
  <2>4. x \in Seq(S)
    BY <1>3, <2>1, <2>3
  <2> HIDE DEF x
  <2>5. \A i \in 1 .. m : i # m => i \in 1 .. k
    BY <2>1
  <2>6. g \in [1 .. m -> Seq(S)]
    BY <2>3, <2>4, <2>5
  <2>7. g[m] = x /\ \A i \in 1 .. k : g[i] = f[i]
    BY <2>1
  <2> HIDE DEF g
  <2>8. Flat(g, q, m)
    <3>1. g[1] = q[1]
      BY <2>1, <2>3, <2>7 DEF Flat
    <3>2. ASSUME NEW i \in 2 .. m
          PROVE  g[i] = g[i - 1] \o q[i]
      <4>1. CASE i = m
        <5>1. i - 1 = k /\ k \in 1 .. k
          BY <2>1, <4>1
        <5> QED
          BY <2>7, <4>1, <5>1 DEF x
      <4>2. CASE i # m
        <5>1. i \in 2 .. k /\ i \in 1 .. k /\ i - 1 \in 1 .. k
          BY <2>1, <4>2
        <5> QED
          BY <2>3, <2>7, <5>1 DEF Flat
      <4> QED
        BY <4>1, <4>2
    <3> QED
      BY <3>1, <3>2 DEF Flat
  <2> QED
    BY <1>3, <2>6, <2>8
<1> QED
  BY <1>4, <1>5

\* FlattenSeq() is the last of them.
LEMMA FlattenIs ==
  ASSUME NEW S, NEW n \in Nat \ {0}, NEW q \in [1 .. n -> Seq(S)]
  PROVE  \E f : Flat(f, q, n) /\ FlattenSeq(q) = f[n]
<1> DEFINE flatten == CHOOSE f : f = [i \in 1 .. n |->
                        IF i = 1 THEN q[i] ELSE f[i - 1] \o q[i]]
<1>1. q \in Seq(Seq(S)) /\ Len(q) = n /\ n # 0
  OBVIOUS
<1>2. FlattenSeq(q) = flatten[n]
  BY <1>1 DEF FlattenSeq
<1>3. PICK f \in [1 .. n -> Seq(S)] : Flat(f, q, n)
  BY FlatExists
<1>4. f = [i \in 1 .. n |-> IF i = 1 THEN q[i] ELSE f[i - 1] \o q[i]]
  <2>1. \A i \in 1 .. n : i = 1 \/ i \in 2 .. n
    OBVIOUS
  <2>2. \A i \in 1 .. n : f[i] = IF i = 1 THEN q[i] ELSE f[i - 1] \o q[i]
    <3>1. TAKE i \in 1 .. n
    <3>2. CASE i = 1
      BY <1>3, <3>2 DEF Flat
    <3>3. CASE i # 1
      BY <1>3, <2>1, <3>3 DEF Flat
    <3> QED
      BY <3>2, <3>3
  <2> QED
    BY <1>3, <2>2
<1>5. flatten = [i \in 1 .. n |-> IF i = 1 THEN q[i] ELSE flatten[i - 1] \o q[i]]
  BY <1>4, Zenon
<1> HIDE DEF flatten
<1>6. \A i \in 1 .. n : flatten[i] = IF i = 1 THEN q[i] ELSE flatten[i - 1] \o q[i]
  BY <1>5
<1>7. Flat(flatten, q, n)
  <2>1. 1 \in 1 .. n /\ \A i \in 2 .. n : i \in 1 .. n /\ i # 1
    OBVIOUS
  <2> QED
    BY <1>6, <2>1 DEF Flat
<1> QED
  BY <1>2, <1>7

\* It depends on the sequences only.
LEMMA FlatUnique ==
  ASSUME NEW m \in Nat \ {0}, NEW f, NEW g, NEW q, NEW r, Flat(f, q, m), Flat(g, r, m),
         \A i \in 1 .. m : q[i] = r[i]
  PROVE  f[m] = g[m]
<1> DEFINE T == {k \in 1 .. m : f[k] # g[k]}
<1>1. T \in SUBSET Nat /\ (m \notin T => f[m] = g[m])
  OBVIOUS
<1> HIDE DEF T
<1> SUFFICES ASSUME T # {}
             PROVE  FALSE
  BY <1>1
<1>2. PICK k \in T : \A i \in T : k <= i
  BY <1>1, LeastLemma
<1>3. k \in 1 .. m /\ f[k] # g[k]
  BY <1>2 DEF T
<1>4. k # 1
  <2>1. 1 \in 1 .. m
    OBVIOUS
  <2> QED
    BY <1>3, <2>1 DEF Flat
<1>5. k \in 2 .. m /\ k - 1 \in 1 .. m /\ k - 1 < k
  BY <1>3, <1>4
<1>6. k - 1 \notin T
  BY <1>2, <1>3, <1>5
<1>7. f[k - 1] = g[k - 1]
  BY <1>5, <1>6 DEF T
<1>8. f[k] = f[k - 1] \o q[k] /\ g[k] = g[k - 1] \o r[k] /\ q[k] = r[k]
  BY <1>3, <1>5 DEF Flat
<1> QED
  BY <1>3, <1>7, <1>8

\* One sequence more.
LEMMA FlattenAppend ==
  ASSUME NEW S, NEW n, NEW q, NEW r, Continues(r, q, n, S)
  PROVE  FlattenSeq(r) = FlattenSeq(q) \o r[n + 1]
<1> USE DEF Continues
<1> DEFINE m == n + 1
<1>1. m \in Nat \ {0} /\ m = n + 1 /\ m \in 1 .. m
  OBVIOUS
<1> HIDE DEF m
<1>2. r \in [1 .. m -> Seq(S)]
  BY DEF m
<1>3. PICK g : Flat(g, r, m) /\ FlattenSeq(r) = g[m]
  BY <1>1, <1>2, FlattenIs
<1>4. CASE n = 0
  <2>1. m = 1 /\ 1 .. n = {}
    BY <1>1, <1>4
  <2>2. q = <<>> /\ Len(q) = 0
    <3>1. q \in Seq(Seq(S)) /\ Len(q) = 0
      BY <1>4
    <3> QED
      BY <3>1, EmptySeq
  <2>3. FlattenSeq(q) = <<>>
    BY <2>2 DEF FlattenSeq
  <2>4. g[1] = r[1] /\ r[1] \in Seq(S)
    BY <1>1, <1>2, <1>3, <2>1 DEF Flat
  <2>5. <<>> \o r[1] = r[1]
    BY <2>4
  <2> QED
    BY <1>3, <2>1, <2>3, <2>4, <2>5 DEF m
<1>5. CASE n # 0
  <2>1. n \in Nat \ {0} /\ m \in 2 .. m /\ m - 1 = n
    BY <1>1, <1>5
  <2>2. PICK f : Flat(f, q, n) /\ FlattenSeq(q) = f[n]
    BY <2>1, FlattenIs
  <2>3. Flat(g, r, n)
    <3>1. \A i \in 2 .. n : i \in 2 .. m
      BY <1>1
    <3> QED
      BY <1>3, <3>1 DEF Flat
  <2>4. f[n] = g[n]
    BY <2>1, <2>2, <2>3, FlatUnique
  <2>5. g[m] = g[n] \o r[m]
    BY <1>3, <2>1 DEF Flat
  <2> QED
    BY <1>3, <2>2, <2>4, <2>5 DEF m
<1> QED
  BY <1>4, <1>5

\* FlattenSeq of sequences over S is one over S.
LEMMA FlattenType ==
  ASSUME NEW S, NEW n \in Nat, NEW q \in [1 .. n -> Seq(S)]
  PROVE  FlattenSeq(q) \in Seq(S)
<1>1. CASE n = 0
  <2>1. q \in Seq(Seq(S)) /\ Len(q) = 0
    BY <1>1
  <2>2. q = <<>>
    BY <2>1, EmptySeq
  <2>3. FlattenSeq(q) = <<>>
    BY <2>1, <2>2 DEF FlattenSeq
  <2> QED
    BY <2>3
<1>2. CASE n # 0
  <2>1. n \in Nat \ {0}
    BY <1>2
  <2>2. PICK f : Flat(f, q, n) /\ FlattenSeq(q) = f[n]
    BY <2>1, FlattenIs
  <2>3. PICK g \in [1 .. n -> Seq(S)] : Flat(g, q, n)
    BY <2>1, FlatExists
  <2>4. f[n] = g[n]
    BY <2>1, <2>2, <2>3, FlatUnique
  <2>5. g[n] \in Seq(S)
    BY <2>1, <2>3
  <2> QED
    BY <2>2, <2>4, <2>5
<1> QED
  BY <1>1, <1>2

\* Its length depends on the lengths of its parts only.
LEMMA FlattenLength ==
  ASSUME NEW S, NEW R, NEW n, NEW q, NEW r, AsLong(q, r, n, S, R)
  PROVE  Len(FlattenSeq(q)) = Len(FlattenSeq(r))
<1> USE DEF AsLong
<1>1. CASE n = 0
  <2>1. q \in Seq(Seq(S)) /\ Len(q) = 0 /\ r \in Seq(Seq(R)) /\ Len(r) = 0
    BY <1>1
  <2>2. q = r
    BY <2>1, EmptySeq
  <2> QED
    BY <2>2
<1>2. CASE n # 0
  <2>1. n \in Nat \ {0} /\ n \in 1 .. n
    BY <1>2
  <2>2. PICK f0 : Flat(f0, q, n) /\ FlattenSeq(q) = f0[n]
    BY <2>1, FlattenIs
  <2>3. PICK g0 : Flat(g0, r, n) /\ FlattenSeq(r) = g0[n]
    BY <2>1, FlattenIs
  <2>4. PICK f \in [1 .. n -> Seq(S)] : Flat(f, q, n)
    BY <2>1, FlatExists
  <2>5. PICK g \in [1 .. n -> Seq(R)] : Flat(g, r, n)
    BY <2>1, FlatExists
  <2>6. f0[n] = f[n]
    BY <2>1, <2>2, <2>4, FlatUnique
  <2>7. g0[n] = g[n]
    BY <2>1, <2>3, <2>5, FlatUnique
  <2> DEFINE T == {k \in 1 .. n : Len(f[k]) # Len(g[k])}
  <2>8. T \in SUBSET Nat /\ (n \notin T => Len(f[n]) = Len(g[n]))
    BY <2>1
  <2> HIDE DEF T
  <2>9. ASSUME T # {}
        PROVE  FALSE
    <3>1. PICK k \in T : \A i \in T : k <= i
      BY <2>8, <2>9, LeastLemma
    <3>2. k \in 1 .. n /\ Len(f[k]) # Len(g[k])
      BY <3>1 DEF T
    <3>3. k # 1
      <4>1. 1 \in 1 .. n
        BY <2>1
      <4>2. Len(f[1]) = Len(g[1])
        BY <2>4, <2>5, <4>1 DEF Flat
      <4> QED
        BY <3>2, <4>2
    <3>4. k \in 2 .. n /\ k - 1 \in 1 .. n /\ k - 1 < k
      BY <3>2, <3>3
    <3>5. k - 1 \notin T
      BY <3>1, <3>2, <3>4
    <3>6. Len(f[k - 1]) = Len(g[k - 1])
      BY <3>4, <3>5 DEF T
    <3>7. f[k] = f[k - 1] \o q[k] /\ g[k] = g[k - 1] \o r[k]
      BY <2>4, <2>5, <3>4 DEF Flat
    <3>8. /\ f[k - 1] \in Seq(S) /\ q[k] \in Seq(S)
          /\ g[k - 1] \in Seq(R) /\ r[k] \in Seq(R)
      BY <2>4, <2>5, <3>2, <3>4
    <3>9. Len(f[k]) = Len(f[k - 1]) + Len(q[k])
      BY <3>7, <3>8
    <3>10. Len(g[k]) = Len(g[k - 1]) + Len(r[k])
      BY <3>7, <3>8
    <3> QED
      BY <3>2, <3>6, <3>9, <3>10
  <2> QED
    BY <2>2, <2>3, <2>6, <2>7, <2>8, <2>9
<1> QED
  BY <1>1, <1>2

-----------------------------------------------------------------------------
(* The callbacks: what the frames call for, and whose they are.            *)

\* What a callback is, and what of it CallbacksFollowFrames compares (Told).
Kinds == {"received", "transmitting", "transmitted"}
Callbacks == [kind : Kinds, bytes : Seq(Nat \X Nat), error : SlaveErrors,
              address : Addresses]
\* The frames, with no more bytes than they are long.
Sent == {f \in Frames : Len(f.bytes) <= f.length}

\* What is told of the callbacks, and of those the frames s call for.
Tells == {Told(c) : c \in Callbacks}

Telling(calls) == [i \in DOMAIN calls |-> Told(calls[i])]

Due(s) == Telling(CallsOfAll(s))

\* A read that begins, and one that ends.
Announced == <<"transmitting", <<>>, "untold">>
Confirmed == <<"transmitted", <<>>, "untold">>

\* What has been received of n bytes b, and the error told.
Fitting(b, n, rx) == SubSeq(b, 1, Lesser(n, rx))
Overflow(n, rx) == IF n > rx THEN "buffer_overflow" ELSE "ok"

\* What is told of callbacks put together is told of them one by one.
LEMMA TellingLemma ==
  ASSUME NEW p \in Seq(Callbacks), NEW q \in Seq(Callbacks)
  PROVE  /\ Telling(p) \in Seq(Tells) /\ Len(Telling(p)) = Len(p)
         /\ Telling(p \o q) = Telling(p) \o Telling(q)
<1>1. \A c \in Callbacks : Told(c) \in Tells
  BY DEF Tells
<1> DEFINE told(c) == Told(c)
           tell(s) == [i \in DOMAIN s |-> told(s[i])]
<1> HIDE DEF told
<1>2. \A c \in Callbacks : told(c) \in Tells
  BY <1>1 DEF told
<1>3. tell(p) \in Seq(Tells) /\ Len(tell(p)) = Len(p)
  BY <1>2
<1>4. tell(p \o q) = tell(p) \o tell(q)
  <2> DEFINE a == tell(p)
             b == tell(q)
             m == Len(p)
             n == Len(q)
             c == tell(p \o q)
  <2>1. /\ p \o q \in Seq(Callbacks) /\ Len(p \o q) = m + n
        /\ \A i \in 1 .. m : (p \o q)[i] = p[i]
        /\ \A i \in 1 .. n : (p \o q)[m + i] = q[i]
        /\ m \in Nat /\ n \in Nat /\ DOMAIN p = 1 .. m /\ DOMAIN q = 1 .. n
    OBVIOUS
  <2>2. /\ a \in Seq(Tells) /\ b \in Seq(Tells) /\ Len(a) = m /\ Len(b) = n
        /\ \A i \in 1 .. m : a[i] = told(p[i])
        /\ \A i \in 1 .. n : b[i] = told(q[i])
    BY <1>2
  <2>3. DOMAIN (p \o q) = 1 .. m + n
    BY <2>1
  <2>4. DOMAIN c = 1 .. m + n /\ \A i \in 1 .. m + n : c[i] = told((p \o q)[i])
    BY <2>3
  <2> HIDE DEF a, b, m, n
  <2>5. /\ a \o b \in Seq(Tells) /\ Len(a \o b) = m + n
        /\ \A i \in 1 .. m : (a \o b)[i] = a[i]
        /\ \A i \in 1 .. n : (a \o b)[m + i] = b[i]
    <3>1. /\ a \o b \in Seq(Tells) /\ Len(a \o b) = Len(a) + Len(b)
          /\ \A i \in 1 .. Len(a) : (a \o b)[i] = a[i]
          /\ \A i \in 1 .. Len(b) : (a \o b)[Len(a) + i] = b[i]
      <4>1. a \in Seq(Tells) /\ b \in Seq(Tells)
        BY <2>2
      <4> QED
        BY <4>1, ConcatLemma
    <3> QED
      BY <2>2, <3>1
  <2>6. ASSUME NEW i \in 1 .. m + n
        PROVE  c[i] = (a \o b)[i]
    <3>1. CASE i \in 1 .. m
      BY <2>1, <2>2, <2>4, <2>5, <3>1
    <3>2. CASE i \notin 1 .. m
      <4> DEFINE j == i - m
      <4>1. j \in 1 .. n /\ i = m + j
        BY <2>1, <3>2
      <4> HIDE DEF j
      <4> QED
        BY <2>1, <2>2, <2>4, <2>5, <4>1
    <3> QED
      BY <3>1, <3>2
  <2>7. c \in Seq(Tells) /\ Len(c) = m + n
    <3>1. \A i \in 1 .. m + n : c[i] \in Tells
      <4>1. \A i \in 1 .. m + n : (p \o q)[i] \in Callbacks
        BY <2>1, <2>3
      <4> QED
        BY <1>2, <2>4, <4>1
    <3>2. c = [i \in 1 .. m + n |-> c[i]] /\ m + n \in Nat
      BY <2>1, <2>4
    <3> HIDE DEF c
    <3> QED
      BY <3>1, <3>2
  <2> HIDE DEF c
  <2>8. c = a \o b
    BY <2>5, <2>6, <2>7, SameSeq
  <2> QED
    BY <2>8 DEF a, b, c
<1> QED
  BY <1>3, <1>4 DEF told, Telling

\* One callback more.
LEMMA TellingOne ==
  ASSUME NEW p \in Seq(Callbacks), NEW c \in Callbacks
  PROVE  /\ Append(p, c) \in Seq(Callbacks) /\ Len(Append(p, c)) = Len(p) + 1
         /\ Telling(Append(p, c)) = Telling(p) \o <<Told(c)>>
<1>1. <<c>> \in Seq(Callbacks) /\ Append(p, c) = p \o <<c>> /\ Len(Append(p, c)) = Len(p) + 1
  OBVIOUS
<1>2. Telling(<<c>>) = <<Told(c)>>
  <2> DEFINE q == <<c>>
  <2>1. DOMAIN q = 1 .. 1 /\ q[1] = c /\ \A i \in 1 .. 1 : i = 1
    OBVIOUS
  <2> HIDE DEF q
  <2>2. Telling(q) = [i \in 1 .. 1 |-> Told(c)]
    BY <2>1 DEF Telling
  <2> DEFINE d == Told(c)
  <2> HIDE DEF d
  <2>3. <<d>> = [i \in 1 .. 1 |-> d]
    OBVIOUS
  <2> QED
    BY <2>2, <2>3 DEF q, d
<1> DEFINE q == <<c>>
<1>3. Telling(p \o q) = Telling(p) \o Telling(q)
  BY <1>1, TellingLemma
<1>4. Telling(Append(p, c)) = Telling(p) \o Telling(q)
  BY <1>1, <1>3
<1>5. Append(p, c) \in Seq(Callbacks)
  OBVIOUS
<1> QED
  BY <1>1, <1>2, <1>4, <1>5

\* The callbacks of one frame.
LEMMA CallsOfLemma ==
  ASSUME SlaveAssumption, NEW f \in Sent
  PROVE  /\ CallsOf(f) \in Seq(Callbacks)
         /\ f.dir = "read" => Telling(CallsOf(f)) = <<Announced, Confirmed>>
         /\ f.dir = "write" =>
              Telling(CallsOf(f)) =
                IF f.bytes = <<>> \/ f.rx = 0 THEN <<>>
                ELSE <<<<"received", Fitting(f.bytes, Len(f.bytes), f.rx),
                         Overflow(f.length, f.rx)>>>>
<1>1. /\ f.address \in Addresses /\ f.rx \in Nat /\ f.length \in Nat
      /\ f.dir \in {"read", "write"}
      /\ f.dir = "write" => f.bytes \in Seq(Nat \X Nat)
      /\ Len(f.bytes) <= f.length
  BY DEF Sent, Frames, Sizes, Lengths, SlaveAssumption
<1> DEFINE call(k, b, e) == [kind |-> k, bytes |-> b, error |-> e,
                             address |-> f.address]
<1>2. \A k \in Kinds, b \in Seq(Nat \X Nat), e \in SlaveErrors : call(k, b, e) \in Callbacks
  BY <1>1 DEF Callbacks
<1>4. CASE f.dir = "read"
  <2> DEFINE a == call("transmitting", <<>>, "ok")
             c == call("transmitted", <<>>, "ok")
  <2>1. <<>> \in Seq(Nat \X Nat)
    OBVIOUS
  <2>2. a \in Callbacks /\ c \in Callbacks
    BY <1>2, <2>1 DEF Kinds, SlaveErrors
  <2>3. Told(a) = Announced /\ Told(c) = Confirmed
    BY DEF Told, Announced, Confirmed
  <2>4. CallsOf(f) = <<a>> \o <<c>>
    BY <1>4 DEF CallsOf
  <2> HIDE DEF a, c
  <2>5. <<a>> \in Seq(Callbacks) /\ <<a>> \o <<c>> = Append(<<a>>, c)
        /\ <<>> \in Seq(Callbacks) /\ Append(<<>>, a) = <<a>>
        /\ <<a>> \o <<c>> \in Seq(Callbacks)
    BY <2>2
  <2>6. Telling(<<a>>) = Telling(<<>>) \o <<Told(a)>>
    BY <2>2, <2>5, TellingOne
  <2>7. Telling(<<>>) = <<>>
    BY DEF Telling
  <2> DEFINE x == Announced
             y == Confirmed
  <2> HIDE DEF x, y
  <2>8. <<>> \o <<x>> = <<x>> /\ <<x>> \o <<y>> = <<x, y>>
    <3>1. <<x>> \in Seq({x, y}) /\ <<x>> \o <<y>> = Append(<<x>>, y)
      OBVIOUS
    <3> DEFINE u == Append(<<x>>, y)
               v == <<x, y>>
    <3>2. u \in Seq({x, y}) /\ Len(u) = 2 /\ u[1] = x /\ u[2] = y
      BY <3>1
    <3>3. v \in Seq({x, y}) /\ Len(v) = 2 /\ v[1] = x /\ v[2] = y
      OBVIOUS
    <3> HIDE DEF u, v
    <3>4. u = v
      BY <3>2, <3>3, SameSeq
    <3>5. <<>> \o <<x>> = <<x>>
      OBVIOUS
    <3> QED
      BY <3>1, <3>4, <3>5 DEF u, v
  <2>9. Telling(<<a>> \o <<c>>) = Telling(<<a>>) \o <<Told(c)>>
    BY <2>2, <2>5, TellingOne
  <2> QED
    BY <1>4, <2>3, <2>4, <2>5, <2>6, <2>7, <2>8, <2>9 DEF x, y
<1>5. CASE f.dir = "write"
  <2>1. CASE f.bytes = <<>> \/ f.rx = 0
    <3>1. CallsOf(f) = <<>>
      BY <1>5, <2>1 DEF CallsOf
    <3>2. Telling(<<>>) = <<>>
      BY DEF Telling
    <3> QED
      BY <1>5, <2>1, <3>1, <3>2
  <2>2. CASE ~(f.bytes = <<>> \/ f.rx = 0)
    <3> DEFINE n == Len(f.bytes)
               r == Fitting(f.bytes, n, f.rx)
               e == Overflow(f.length, f.rx)
               a == call("received", r, e)
    <3>1. n \in Nat
      BY <1>1, <1>5
    <3>2. r \in Seq(Nat \X Nat)
      BY <1>1, <1>5, <3>1 DEF Fitting, Lesser
    <3>3. e \in SlaveErrors
      BY DEF Overflow, SlaveErrors
    <3>4. a \in Callbacks
      BY <1>2, <3>2, <3>3 DEF Kinds
    <3>5. Told(a) = <<"received", r, e>>
      <4> HIDE DEF r, e
      <4> QED
        BY DEF Told
    <3>6. CallsOf(f) = <<a>>
      <4>1. CASE f.length > f.rx
        <5>1. Min({f.rx, n}) = Lesser(n, f.rx)
          <6>1. Min({f.rx, n}) = CHOOSE x \in {f.rx, n} : \A y \in {f.rx, n} : x <= y
            BY DEF Min
          <6>2. \E x \in {f.rx, n} : \A y \in {f.rx, n} : x <= y
            <7> HIDE DEF n
            <7> QED
              BY <1>1, <3>1
          <6> DEFINE m == Min({f.rx, n})
          <6>3. m \in {f.rx, n} /\ \A y \in {f.rx, n} : m <= y
            BY <6>1, <6>2
          <6> HIDE DEF m, n
          <6>4. m = Lesser(n, f.rx)
            BY <1>1, <3>1, <6>3 DEF Lesser
          <6> QED
            BY <6>4 DEF m
        <5>2. e = "buffer_overflow"
          BY <4>1 DEF Overflow
        <5> QED
          BY <1>5, <2>2, <4>1, <5>1, <5>2 DEF CallsOf, Fitting
      <4>2. CASE ~(f.length > f.rx)
        <5> DEFINE b == f.bytes
        <5>1. n <= f.rx
          <6> HIDE DEF n
          <6>1. n <= f.length
            BY <1>1 DEF n
          <6> QED
            BY <1>1, <3>1, <4>2, <6>1
        <5>2. Lesser(n, f.rx) = n
          BY <5>1 DEF Lesser
        <5>3. SubSeq(b, 1, Len(b)) = b
          <6>1. b \in Seq(Nat \X Nat)
            BY <1>1, <1>5
          <6> HIDE DEF b
          <6> QED
            BY <6>1
        <5>4. r = f.bytes
          BY <5>2, <5>3 DEF Fitting
        <5>5. e = "ok"
          BY <4>2 DEF Overflow
        <5> HIDE DEF r, e
        <5> QED
          BY <1>5, <2>2, <4>2, <5>4, <5>5 DEF CallsOf
      <4> QED
        BY <4>1, <4>2
    <3> HIDE DEF a
    <3>7. <<>> \in Seq(Callbacks) /\ Append(<<>>, a) = <<a>> /\ <<a>> \in Seq(Callbacks)
      BY <3>4
    <3>8. Telling(<<a>>) = Telling(<<>>) \o <<Told(a)>>
      BY <3>4, <3>7, TellingOne
    <3>9. Telling(<<>>) = <<>>
      BY DEF Telling
    <3> DEFINE x == Told(a)
    <3> HIDE DEF x
    <3>10. <<>> \o <<x>> = <<x>>
      OBVIOUS
    <3> QED
      BY <1>5, <2>2, <3>5, <3>6, <3>7, <3>8, <3>9, <3>10 DEF x
  <2> QED
    BY <2>1, <2>2
<1> QED
  BY <1>1, <1>4, <1>5

\* The i-th frame f has this many callbacks.
Own(f, i) == [k \in DOMAIN CallsOf(f) |-> i]

\* The callbacks of frames are as many as their owners, which are among the
\* frames.
LEMMA FramesLemma ==
  ASSUME SlaveAssumption, NEW s \in Seq(Sent)
  PROVE  /\ CallsOfAll(s) \in Seq(Callbacks) /\ Owners(s) \in Seq(1 .. Len(s))
         /\ Len(Owners(s)) = Len(CallsOfAll(s))
         /\ Due(s) \in Seq(Tells) /\ Len(Due(s)) = Len(Owners(s))
<1> DEFINE n == Len(s)
           q == [i \in 1 .. n |-> CallsOf(s[i])]
           r == [i \in 1 .. n |-> Own(s[i], i)]
<1>1. n \in Nat /\ DOMAIN s = 1 .. n /\ \A i \in 1 .. n : s[i] \in Sent
  OBVIOUS
<1> HIDE DEF n
<1>2. \A i \in 1 .. n : CallsOf(s[i]) \in Seq(Callbacks)
  BY <1>1, CallsOfLemma
<1>3. \A i \in 1 .. n : Own(s[i], i) \in Seq(1 .. n) /\ Len(Own(s[i], i)) = Len(CallsOf(s[i]))
  <2> TAKE i \in 1 .. n
  <2> DEFINE c == CallsOf(s[i])
             o == [k \in DOMAIN c |-> i]
  <2>1. c \in Seq(Callbacks)
    BY <1>2
  <2> HIDE DEF c
  <2>2. DOMAIN c = 1 .. Len(c) /\ Len(c) \in Nat
    BY <2>1
  <2>3. o \in Seq(1 .. n) /\ Len(o) = Len(c)
    BY <2>2
  <2> QED
    BY <2>3 DEF Own, c
<1>4. q \in [1 .. n -> Seq(Callbacks)] /\ r \in [1 .. n -> Seq(1 .. n)]
  BY <1>2, <1>3
<1>5. \A i \in 1 .. n : Len(q[i]) = Len(r[i])
  BY <1>3
<1>6. CallsOfAll(s) = FlattenSeq(q) /\ Owners(s) = FlattenSeq(r)
  BY <1>1 DEF CallsOfAll, Owners, Own
<1> HIDE DEF q, r
<1>7. FlattenSeq(q) \in Seq(Callbacks) /\ FlattenSeq(r) \in Seq(1 .. n)
  BY <1>1, <1>4, FlattenType
<1>8. Len(FlattenSeq(q)) = Len(FlattenSeq(r))
  <2> DEFINE I == 1 .. n
  <2>1. AsLong(q, r, n, Callbacks, I)
    BY <1>1, <1>4, <1>5 DEF AsLong
  <2> HIDE DEF I
  <2> QED
    BY <2>1, FlattenLength
<1>9. CallsOfAll(s) \in Seq(Callbacks)
  BY <1>6, <1>7
<1>10. Due(s) \in Seq(Tells) /\ Len(Due(s)) = Len(CallsOfAll(s))
  BY <1>9, TellingLemma DEF Due
<1> QED
  BY <1>6, <1>7, <1>8, <1>9, <1>10 DEF n

\* One frame more adds its callbacks after the others.
LEMMA FramesAppend ==
  ASSUME SlaveAssumption, NEW s \in Seq(Sent), NEW f \in Sent
  PROVE  /\ Due(Append(s, f)) = Due(s) \o Telling(CallsOf(f))
         /\ Owners(Append(s, f)) = Owners(s) \o Own(f, Len(s) + 1)
<1> DEFINE n == Len(s)
           t == Append(s, f)
           m == n + 1
           q == [i \in 1 .. n |-> CallsOf(s[i])]
           r == [i \in 1 .. n |-> Own(s[i], i)]
           qq == [i \in 1 .. m |-> CallsOf(t[i])]
           rr == [i \in 1 .. m |-> Own(t[i], i)]
<1>1. /\ n \in Nat /\ DOMAIN s = 1 .. n /\ \A i \in 1 .. n : s[i] \in Sent
      /\ t \in Seq(Sent) /\ Len(t) = m /\ m \in Nat /\ DOMAIN t = 1 .. m
      /\ t[m] = f /\ \A i \in 1 .. n : t[i] = s[i] /\ i \in 1 .. m
      /\ \A i \in 1 .. m : t[i] \in Sent
  OBVIOUS
<1>2. m = n + 1 /\ m \in 1 .. m
  BY <1>1
<1> HIDE DEF n, t, m
<1>3. \A e \in Sent, i \in 1 .. m : /\ CallsOf(e) \in Seq(Callbacks)
                                    /\ Own(e, i) \in Seq(1 .. m)
  <2> TAKE e \in Sent, i \in 1 .. m
  <2> DEFINE c == CallsOf(e)
             o == [k \in DOMAIN c |-> i]
  <2>1. c \in Seq(Callbacks)
    BY CallsOfLemma
  <2> HIDE DEF c
  <2>2. DOMAIN c = 1 .. Len(c) /\ Len(c) \in Nat
    BY <2>1
  <2>3. o \in Seq(1 .. m)
    BY <2>2
  <2> QED
    BY <2>1, <2>3 DEF Own, c
<1>4. /\ q \in [1 .. n -> Seq(Callbacks)] /\ r \in [1 .. n -> Seq(1 .. m)]
      /\ qq \in [1 .. m -> Seq(Callbacks)] /\ rr \in [1 .. m -> Seq(1 .. m)]
  BY <1>1, <1>3
<1>5. \A i \in 1 .. n : qq[i] = q[i] /\ rr[i] = r[i]
  BY <1>1
<1>6. qq[m] = CallsOf(f) /\ rr[m] = Own(f, m)
  BY <1>1, <1>2
<1>7. CallsOfAll(s) = FlattenSeq(q) /\ Owners(s) = FlattenSeq(r)
  BY <1>1 DEF CallsOfAll, Owners, Own
<1>8. CallsOfAll(t) = FlattenSeq(qq) /\ Owners(t) = FlattenSeq(rr)
  BY <1>1 DEF CallsOfAll, Owners, Own
<1> HIDE DEF q, r, qq, rr
<1>9. qq \in [1 .. n + 1 -> Seq(Callbacks)] /\ rr \in [1 .. n + 1 -> Seq(1 .. m)]
  BY <1>2, <1>4
<1> DEFINE I == 1 .. m
<1>16. Continues(qq, q, n, Callbacks) /\ Continues(rr, r, n, I)
  BY <1>1, <1>4, <1>5, <1>9 DEF Continues
<1> HIDE DEF I
<1>10. FlattenSeq(qq) = FlattenSeq(q) \o qq[n + 1]
  BY <1>16, FlattenAppend
<1>11. FlattenSeq(rr) = FlattenSeq(r) \o rr[n + 1]
  BY <1>16, FlattenAppend
<1>12. CallsOfAll(t) = CallsOfAll(s) \o CallsOf(f)
  BY <1>2, <1>6, <1>7, <1>8, <1>10
<1>13. CallsOfAll(s) \in Seq(Callbacks) /\ CallsOf(f) \in Seq(Callbacks)
  BY FramesLemma, CallsOfLemma
<1>14. Due(t) = Due(s) \o Telling(CallsOf(f))
  BY <1>12, <1>13, TellingLemma DEF Due
<1>15. Owners(t) = Owners(s) \o Own(f, Len(s) + 1)
  BY <1>2, <1>6, <1>7, <1>8, <1>11 DEF n
<1> QED
  BY <1>14, <1>15 DEF t

-----------------------------------------------------------------------------
(* What the callbacks have to do with the frames.                          *)

\* The log holds callbacks.
Logged == slave.calls \in Seq(Callbacks)

\* The callback that the end found in the status register still calls for.
Owed ==
  IF ~port.SDF THEN <<>>
  ELSE CASE slave.state = "receiving" ->
              <<<<"received", slave.rx_bytes, slave.error>>>>
         [] slave.state = "transmitting" -> <<Confirmed>>
         [] OTHER -> <<>>

\* The frame that goes on has been announced.
Started ==
  IF ~port.SDF /\ open /\ slave.state = "transmitting" THEN <<Announced>> ELSE <<>>

\* What has been told and is owed is what the frames call for, in order.
InOrder ==
  calm.is => Telling(slave.calls) \o Owed = Due(EndedFrames) \o Started

\* What is left of a write, and what has been stored of it.
Arrived ==
  port.SRDR # <<>> => LET n == Len(Current.bytes)
                      IN  /\ n > 0 /\ port.SRDR[1].DATA = Current.bytes[n]
                          /\ port.SRDR[1].SOF <=> n = 1

\* m bytes of a write have been stored, or none if there is no buffer.
Stored(m) ==
  IF m = 0 \/ slave.rx_size = 0 THEN slave.state = "idle"
  ELSE /\ slave.state = "receiving"
       /\ slave.rx_bytes = Fitting(Current.bytes, m, slave.rx_size)
       /\ slave.error = Overflow(m, slave.rx_size)

\* What is left of a write that goes on is in the port, the rest is stored.
Arriving ==
  open /\ Current.dir = "write" =>
    /\ Arrived
    /\ port.SDF => Len(Current.bytes) = Len(port.SRDR)
    /\ calm.is /\ ~port.SDF => Stored(Len(Current.bytes) - Len(port.SRDR))

\* The frame that goes on began with the receive buffer there is.
RxKnown == open /\ (calm.is \/ Len(frames) > 1) => Current.rx = slave.rx_size

\* A read is of one byte at least.
Wanted == open /\ Current.dir = "read" => Current.length > 0

\* The address of the last frame is where the routine looks for it.
Called == IF port.AVF THEN port.SASR ELSE slave.address_called

\* The last frame called the address that the next callback gets.
Addressed ==
  frames # <<>> => Called = Current.address /\ (port.AVF => open \/ port.SDF)

\* The frame of the k-th callback: one of those that have ended, or the last
\* of n.
OwnerIn(ended, n, k) ==
  LET owner == Owners(ended) IN IF k <= Len(owner) THEN owner[k] ELSE n

OwnerOf(k) == OwnerIn(EndedFrames, Len(frames), k)

\* The error given with the end of the read f says whether bytes were missing.
Good(error, f) ==
  /\ error = "buffer_underflow" => f.length > f.tx
  /\ f.length > f.tx + 1 => error = "buffer_underflow"

\* Nothing has been forgotten, or a read has put right what was remembered.
Sure(fs, begun, i) == \/ begun = Len(fs)
                      \/ \E j \in 1 .. i - 1 : fs[j].dir = "read"

\* It does so for the i-th frame, if what is remembered is right.
TrueOf(fs, begun, i, error) ==
  fs[i].tx > 0 /\ Sure(fs, begun, i) => Good(error, fs[i])

\* The callback c is given an address, and tells of an underflow, as it may
\* for the i-th frame.
Fits(fs, begun, i, c) ==
  /\ i \in 1 .. Len(fs)
  /\ \E j \in i .. Len(fs) : c.address = fs[j].address
  /\ c.kind = "transmitted" => TrueOf(fs, begun, i, c.error)

\* Each callback is one its frame may have.
CallsFit ==
  calm.is => \A k \in 1 .. Len(slave.calls) :
               Fits(frames, calm.begun, OwnerOf(k), slave.calls[k])

\* The end of a read that is yet to be told will be told rightly.
Owing ==
  calm.is /\ port.SDF /\ slave.state = "transmitting" =>
    TrueOf(frames, calm.begun, OwnerOf(Len(slave.calls) + 1), slave.error)

\* What the driver remembers after n bytes of a read have been asked for.
Remembered(n) ==
  /\ slave.trailing_byte_sent = (n > slave.tx_size)
  /\ slave.error = IF n > slave.tx_size + 1 THEN "buffer_underflow" ELSE "ok"

\* The bytes of the read that goes on that the driver was asked for.
Asked == Len(Current.bytes) + IF port.TDF THEN 0 ELSE 1

\* The driver remembers what it was asked for in this read, and nothing of
\* another.
Trailing ==
  calm.is =>
    /\ /\ ~port.SDF /\ open /\ Current.dir = "read"
       /\ slave.state = "transmitting" /\ slave.tx_size > 0
       /\ Sure(frames, calm.begun, Len(frames))
       => Remembered(Asked)
    /\ /\ slave.state # "transmitting"
       /\ Sure(frames, calm.begun, Len(EndedFrames) + 1)
       => ~slave.trailing_byte_sent

\* Nothing is remembered before the first frame.
Fresh == calm.begun = 0 => ~slave.trailing_byte_sent

\* With ReadInv, what every step keeps of the callbacks.
CallInv == /\ Logged /\ InOrder /\ Arriving /\ RxKnown /\ Addressed
           /\ CallsFit /\ Owing /\ Trailing /\ Fresh /\ Wanted

-----------------------------------------------------------------------------
(* The frames that have ended, and the one that goes on.                   *)

\* The first n elements of a sequence.
LEMMA TakenLemma ==
  ASSUME NEW S, NEW s \in Seq(S), NEW n \in 0 .. Len(s)
  PROVE  LET t == SubSeq(s, 1, n)
         IN  /\ t \in Seq(S) /\ Len(t) = n
             /\ \A i \in 1 .. n : i \in 1 .. Len(s) /\ t[i] = s[i]
<1> DEFINE t == SubSeq(s, 1, n)
<1>1. n \in Int /\ 1 \in Int /\ \A i \in 1 .. n : i \in 1 .. Len(s) /\ s[i] \in S
  OBVIOUS
<1>2. /\ t \in Seq(S) /\ Len(t) = IF 1 <= n THEN n - 1 + 1 ELSE 0
      /\ \A i \in 1 .. n - 1 + 1 : t[i] = s[1 + i - 1]
  BY <1>1, SubSeqProperties
<1> HIDE DEF t
<1>3. \A i \in 1 .. n : i \in 1 .. n - 1 + 1 /\ 1 + i - 1 = i
  OBVIOUS
<1>4. Len(t) = n
  BY <1>2
<1>5. \A i \in 1 .. n : t[i] = s[i]
  BY <1>2, <1>3
<1> QED
  BY <1>1, <1>2, <1>4, <1>5 DEF t

\* A sequence is its last element after the others.
LEMMA ButLastLemma ==
  ASSUME NEW S, NEW s \in Seq(S), Len(s) > 0
  PROVE  LET n == Len(s)
             t == SubSeq(s, 1, n - 1)
         IN  /\ t \in Seq(S) /\ Len(t) = n - 1 /\ s[n] \in S
             /\ \A i \in 1 .. n - 1 : i \in 1 .. n /\ t[i] = s[i]
             /\ s = Append(t, s[n])
<1> DEFINE n == Len(s)
           t == SubSeq(s, 1, n - 1)
           u == Append(t, s[n])
<1>1. n \in Nat /\ n > 0 /\ s[n] \in S
  OBVIOUS
<1>2. /\ t \in Seq(S) /\ Len(t) = n - 1
      /\ \A i \in 1 .. n - 1 : i \in 1 .. n /\ t[i] = s[i]
  <2>1. n - 1 \in 0 .. Len(s)
    BY <1>1
  <2> QED
    BY <2>1, TakenLemma
<1> HIDE DEF t, n
<1>3. /\ u \in Seq(S) /\ Len(u) = Len(t) + 1 /\ u[Len(t) + 1] = s[n]
      /\ \A i \in 1 .. Len(t) : u[i] = t[i]
  BY <1>1, <1>2
<1>4. Len(t) + 1 = n /\ \A i \in 1 .. n : i = n \/ i \in 1 .. n - 1
  BY <1>1, <1>2
<1> HIDE DEF u
<1>5. \A i \in 1 .. n : u[i] = s[i]
  BY <1>2, <1>3, <1>4
<1>6. u = s
  BY <1>3, <1>4, <1>5, SameSeq DEF n
<1> QED
  BY <1>1, <1>2, <1>6 DEF n, t, u

\* Frames as Types has them.
FramesTyped(fs) ==
  fs \in Seq(Frames) /\ \A i \in 1 .. Len(fs) : Len(fs[i].bytes) <= fs[i].length

\* The frames that have ended are all but the last if it goes on.
LEMMA EndedOf ==
  ASSUME SlaveAssumption, NEW fs, FramesTyped(fs), NEW op, op => fs # <<>>,
         NEW e, e = IF op THEN Front(fs) ELSE fs
  PROVE  /\ fs \in Seq(Sent) /\ e \in Seq(Sent) /\ Len(fs) \in Nat
         /\ Len(e) = IF op THEN Len(fs) - 1 ELSE Len(fs)
         /\ \A i \in 1 .. Len(e) : i \in 1 .. Len(fs) /\ e[i] = fs[i]
         /\ op => /\ Len(fs) > 0 /\ fs[Len(fs)] \in Sent
                  /\ fs = Append(e, fs[Len(fs)])
<1>1. fs \in Seq(Frames) /\ \A i \in 1 .. Len(fs) : fs[i] \in Sent
  BY DEF FramesTyped, Sent
<1>2. fs \in Seq(Sent) /\ Len(fs) \in Nat
  BY <1>1
<1>3. CASE op
  <2> DEFINE n == Len(fs)
             t == SubSeq(fs, 1, n - 1)
  <2>1. n > 0
    BY <1>2, <1>3
  <2>2. e = t
    BY <1>3 DEF Front
  <2>3. /\ t \in Seq(Sent) /\ Len(t) = n - 1 /\ fs[n] \in Sent
        /\ \A i \in 1 .. n - 1 : i \in 1 .. n /\ t[i] = fs[i]
        /\ fs = Append(t, fs[n])
    BY <1>2, <2>1, ButLastLemma
  <2> HIDE DEF t
  <2> QED
    BY <1>2, <1>3, <2>1, <2>2, <2>3
<1>4. CASE ~op
  BY <1>2, <1>4
<1> QED
  BY <1>3, <1>4

\* The same of the frames now, and after a step.
LEMMA EndedLemma ==
  ASSUME SlaveAssumption, Types
  PROVE  /\ frames \in Seq(Sent) /\ EndedFrames \in Seq(Sent) /\ Len(frames) \in Nat
         /\ Len(EndedFrames) = IF open THEN Len(frames) - 1 ELSE Len(frames)
         /\ \A i \in 1 .. Len(EndedFrames) :
              i \in 1 .. Len(frames) /\ EndedFrames[i] = frames[i]
         /\ open => /\ Len(frames) > 0 /\ Current \in Sent
                    /\ frames = Append(EndedFrames, Current)
         /\ ~open => EndedFrames = frames
<1>1. FramesTyped(frames) /\ (open => frames # <<>>)
  BY DEF Types, FramesTyped
<1>2. EndedFrames = IF open THEN Front(frames) ELSE frames
  BY DEF EndedFrames
<1>3. Current = frames[Len(frames)]
  BY DEF Current
<1> HIDE DEF Current, EndedFrames
<1> QED
  BY <1>1, <1>2, <1>3, EndedOf

\* After a step.
LEMMA EndedNext ==
  ASSUME SlaveAssumption, Types'
  PROVE  /\ frames' \in Seq(Sent) /\ EndedFrames' \in Seq(Sent) /\ Len(frames') \in Nat
         /\ Len(EndedFrames') = IF open' THEN Len(frames') - 1 ELSE Len(frames')
         /\ \A i \in 1 .. Len(EndedFrames') :
              i \in 1 .. Len(frames') /\ EndedFrames'[i] = frames'[i]
         /\ open' => /\ Len(frames') > 0 /\ Current' \in Sent
                     /\ frames' = Append(EndedFrames', Current')
         /\ ~open' => EndedFrames' = frames'
<1>1. FramesTyped(frames') /\ (open' => frames' # <<>>)
  BY DEF Types, FramesTyped
<1>2. EndedFrames' = IF open' THEN Front(frames') ELSE frames'
  BY DEF EndedFrames
<1>3. Current' = frames'[Len(frames')]
  BY DEF Current
<1> HIDE DEF Current, EndedFrames
<1> QED
  BY <1>1, <1>2, <1>3, EndedOf

\* The callbacks the frames s call for, and their owners.
LEMMA DueLemma ==
  ASSUME SlaveAssumption, NEW s \in Seq(Sent)
  PROVE  /\ Owners(s) \in Seq(1 .. Len(s)) /\ Due(s) \in Seq(Tells)
         /\ Len(Due(s)) = Len(Owners(s)) /\ Len(Owners(s)) \in Nat
         /\ \A k \in 1 .. Len(Owners(s)) : Owners(s)[k] \in 1 .. Len(s)
<1>1. Owners(s) \in Seq(1 .. Len(s)) /\ Due(s) \in Seq(Tells) /\ Len(Due(s)) = Len(Owners(s))
  BY FramesLemma
<1> QED
  BY <1>1

\* What one frame more changes of the owners.
LEMMA OwnersAppend ==
  ASSUME SlaveAssumption, NEW s \in Seq(Sent), NEW f \in Sent, NEW k \in Nat, k > 0
  PROVE  /\ Len(Owners(Append(s, f))) = Len(Owners(s)) + Len(CallsOf(f))
         /\ OwnerIn(Append(s, f), Len(s) + 1, k) = OwnerIn(s, Len(s) + 1, k)
<1> DEFINE o == Owners(s)
           m == Len(s) + 1
           c == CallsOf(f)
           w == Own(f, m)
           n == Len(c)
<1>1. Owners(Append(s, f)) = o \o w
  BY FramesAppend
<1>2. o \in Seq(Nat) /\ m \in Nat
  <2>1. o \in Seq(1 .. Len(s)) /\ 1 .. Len(s) \subseteq Nat
    BY DueLemma
  <2> HIDE DEF o
  <2>2. o \in Seq(Nat)
    BY <2>1
  <2> QED
    BY <2>2
<1>3. c \in Seq(Callbacks)
  BY CallsOfLemma
<1>4. w \in Seq(Nat) /\ Len(w) = n /\ n \in Nat /\ \A j \in 1 .. n : w[j] = m
  <2> HIDE DEF m
  <2>1. w = [j \in DOMAIN c |-> m]
    BY DEF Own
  <2> HIDE DEF c, w
  <2>2. DOMAIN c = 1 .. n /\ n \in Nat
    BY <1>3
  <2> HIDE DEF n
  <2> QED
    BY <1>2, <2>1, <2>2
<1> HIDE DEF o, w, n, m
<1>5. /\ Len(o \o w) = Len(o) + n /\ Len(o) \in Nat
      /\ \A j \in 1 .. Len(o) : (o \o w)[j] = o[j]
      /\ \A j \in 1 .. n : (o \o w)[Len(o) + j] = w[j]
  <2>1. o \in Seq(Nat) /\ w \in Seq(Nat) /\ Len(o) \in Nat
    BY <1>2, <1>4
  <2> DEFINE y == o \o w
             l == Len(w)
  <2>2. /\ Len(y) = Len(o) + l
        /\ \A j \in 1 .. Len(o) : y[j] = o[j]
        /\ \A j \in 1 .. l : y[Len(o) + j] = w[j]
    BY <2>1, ConcatLemma
  <2>3. l = n
    BY <1>4
  <2> HIDE DEF y, l
  <2> QED
    BY <2>1, <2>2, <2>3 DEF y
<1>6. OwnerIn(Append(s, f), m, k) = OwnerIn(s, m, k)
  <2> DEFINE a == Len(o)
             p == o \o w
  <2>1. /\ OwnerIn(Append(s, f), m, k) = IF k <= Len(p) THEN p[k] ELSE m
        /\ OwnerIn(s, m, k) = IF k <= a THEN o[k] ELSE m
    BY <1>1 DEF OwnerIn, o
  <2>2. /\ Len(p) = a + n /\ a \in Nat
        /\ \A j \in 1 .. a : p[j] = o[j]
        /\ \A j \in 1 .. n : p[a + j] = w[j]
    BY <1>5
  <2> HIDE DEF a, p
  <2>3. CASE k <= a
    BY <1>4, <2>1, <2>2, <2>3
  <2>4. CASE ~(k <= a) /\ k <= a + n
    <3> DEFINE j == k - a
    <3>1. j \in 1 .. n /\ a + j = k
      BY <1>4, <2>2, <2>4
    <3> HIDE DEF j
    <3>2. p[k] = m
      BY <1>4, <2>2, <3>1
    <3> QED
      BY <2>1, <2>2, <2>4, <3>2
  <2>5. CASE ~(k <= a + n)
    BY <1>4, <2>1, <2>2, <2>5
  <2> QED
    BY <2>3, <2>4, <2>5
<1> QED
  BY <1>1, <1>5, <1>6 DEF m, n, o

\* Frames that are still there with what was known of them, and others.
Grown(fs, gs, b, c) ==
  /\ fs \in Seq(Sent) /\ gs \in Seq(Sent) /\ Len(fs) <= Len(gs)
  /\ \A j \in 1 .. Len(fs) :
       /\ gs[j].dir = fs[j].dir /\ gs[j].address = fs[j].address
       /\ gs[j].length = fs[j].length /\ gs[j].tx = fs[j].tx
  /\ (b = Len(fs)) = (c = Len(gs))

\* What was sure of the i-th frame is sure when frames have grown.
LEMMA SureKept ==
  ASSUME NEW fs, NEW gs, NEW b, NEW c, NEW i, Grown(fs, gs, b, c), i \in 1 .. Len(fs) + 1
  PROVE  Sure(gs, c, i) = Sure(fs, b, i)
<1>1. Len(fs) \in Nat /\ \A j \in 1 .. i - 1 : j \in 1 .. Len(fs)
  BY DEF Grown
<1>2. \A j \in 1 .. i - 1 : gs[j].dir = fs[j].dir
  BY <1>1 DEF Grown
<1> QED
  BY <1>2 DEF Sure, Grown

\* What was true of a read is true when frames have grown.
LEMMA TruthKept ==
  ASSUME NEW fs, NEW gs, NEW b, NEW c, NEW i, NEW e, Grown(fs, gs, b, c),
         i \in 1 .. Len(fs), TrueOf(fs, b, i, e)
  PROVE  TrueOf(gs, c, i, e)
<1>1. i \in 1 .. Len(fs) + 1
  BY DEF Grown
<1>2. Sure(gs, c, i) = Sure(fs, b, i)
  BY <1>1, SureKept
<1>3. gs[i].length = fs[i].length /\ gs[i].tx = fs[i].tx
  BY DEF Grown
<1> QED
  BY <1>2, <1>3 DEF TrueOf, Good

\* A callback that was right is right when frames have grown.
LEMMA FitsKept ==
  ASSUME NEW fs, NEW gs, NEW b, NEW c, NEW i, NEW x, Grown(fs, gs, b, c),
         Fits(fs, b, i, x)
  PROVE  Fits(gs, c, i, x)
<1>1. Len(fs) \in Nat /\ Len(gs) \in Nat /\ Len(fs) <= Len(gs)
  BY DEF Grown
<1>2. i \in 1 .. Len(gs)
  BY <1>1 DEF Fits
<1>3. PICK j \in i .. Len(fs) : x.address = fs[j].address
  BY DEF Fits
<1>4. j \in 1 .. Len(fs) /\ j \in i .. Len(gs)
  BY <1>1, <1>3 DEF Fits
<1>5. x.address = gs[j].address
  BY <1>3, <1>4 DEF Grown
<1>6. x.kind = "transmitted" => TrueOf(gs, c, i, x.error)
  BY TruthKept DEF Fits
<1> QED
  BY <1>2, <1>4, <1>5, <1>6 DEF Fits

-----------------------------------------------------------------------------
(* The callbacks of the routine, part by part.                             *)

\* The log of s holds callbacks.
Log(s) == s.calls \in Seq(Callbacks)

\* The callback at the end of a frame.
EndCall(s) ==
  [kind |-> IF s.state = "receiving" THEN "received" ELSE "transmitted",
   bytes |-> IF s.state = "receiving" THEN s.rx_bytes ELSE <<>>,
   address |-> s.address_called, error |-> s.error]

\* The end of a frame makes one callback, or none if nothing was begun.
LEMMA EndCallsLemma ==
  ASSUME NEW s, s \in Slaves(SlaveStates \cup {"aborted"}, s.calls), Log(s)
  PROVE  LET t == end_of_frame(s)
         IN  /\ Log(t) /\ t.error = s.error /\ t.address_called = s.address_called
             /\ t.trailing_byte_sent = (s.trailing_byte_sent /\ s.state # "transmitting")
             /\ EndCall(s) \in Callbacks
             /\ t.calls = IF s.state \in {"receiving", "transmitting"}
                          THEN Append(s.calls, EndCall(s)) ELSE s.calls
<1> DEFINE q == [s EXCEPT !.trailing_byte_sent = FALSE]
           b == IF s.state = "receiving" THEN s.rx_bytes ELSE <<>>
           k == IF s.state = "receiving" THEN "received" ELSE "transmitted"
           c == EndCall(s)
           l == Append(s.calls, c)
           t == end_of_frame(s)
<1>1. b \in Seq(Nat \X Nat) /\ k \in Kinds
  <2>1. s.rx_bytes \in Seq(Nat \X Nat) /\ <<>> \in Seq(Nat \X Nat)
    BY DEF Slaves
  <2> QED
    BY <2>1 DEF Kinds
<1>2. c = [kind |-> k, bytes |-> b, address |-> s.address_called, error |-> s.error]
  BY DEF EndCall
<1> HIDE DEF b, k
<1>3. c \in Callbacks
  <2> HIDE DEF c
  <2> QED
    BY <1>1, <1>2 DEF Callbacks, Slaves
<1>4. l \in Seq(Callbacks)
  <2> HIDE DEF c
  <2> QED
    BY <1>3 DEF Log
<1>5. /\ s.state = "receiving" => t = [s EXCEPT !.calls = l, !.state = "idle"]
      /\ s.state = "transmitting" =>
           t = [s EXCEPT !.trailing_byte_sent = FALSE, !.calls = l, !.state = "idle"]
      /\ s.state \notin {"receiving", "transmitting"} =>
           t = [s EXCEPT !.state = "idle"]
  <2>1. CASE s.state = "receiving"
    <3>1. l = Append(s.calls, [kind |-> "received", bytes |-> s.rx_bytes,
                     address |-> s.address_called, error |-> s.error])
      BY <2>1 DEF EndCall
    <3>2. Call(s, "received", s.rx_bytes) = [s EXCEPT !.calls = l]
      BY <3>1 DEF Call
    <3> HIDE DEF l
    <3>3. t = [[s EXCEPT !.calls = l] EXCEPT !.state = "idle"]
      BY <2>1, <3>2 DEF end_of_frame
    <3> QED
      BY <2>1, <3>3 DEF Slaves
  <2>2. CASE s.state = "transmitting"
    <3>1. q.calls = s.calls /\ q.address_called = s.address_called /\ q.error = s.error
      BY DEF Slaves
    <3>2. l = Append(q.calls, [kind |-> "transmitted", bytes |-> <<>>,
                     address |-> q.address_called, error |-> q.error])
      BY <2>2, <3>1 DEF EndCall
    <3>3. Call(q, "transmitted", <<>>) = [q EXCEPT !.calls = l]
      BY <3>2 DEF Call
    <3> HIDE DEF l
    <3>4. t = [[q EXCEPT !.calls = l] EXCEPT !.state = "idle"]
      BY <2>2, <3>3 DEF end_of_frame
    <3> QED
      BY <2>2, <3>4 DEF Slaves
  <2>3. CASE s.state \notin {"receiving", "transmitting"}
    BY <2>3 DEF end_of_frame
  <2> QED
    BY <2>1, <2>2, <2>3
<1> HIDE DEF t, l
<1>6. CASE s.state = "receiving"
  BY <1>3, <1>4, <1>5, <1>6 DEF Slaves, Log, l, t
<1>7. CASE s.state = "transmitting"
  BY <1>3, <1>4, <1>5, <1>7 DEF Slaves, Log, l, t
<1>8. CASE s.state \notin {"receiving", "transmitting"}
  BY <1>3, <1>4, <1>5, <1>8 DEF Slaves, Log, l, t
<1> QED
  BY <1>6, <1>7, <1>8

\* What is told of a callback, by its kind.
LEMMA ToldLemma ==
  ASSUME NEW c, NEW b, NEW e, c.bytes = b, c.error = e
  PROVE  /\ c.kind = "received" => Told(c) = <<"received", b, e>>
         /\ c.kind = "transmitted" => Told(c) = <<"transmitted", b, "untold">>
         /\ c.kind = "transmitting" => Told(c) = <<"transmitting", b, "untold">>
<1> DEFINE x == IF c.kind = "received" THEN c.error ELSE "untold"
<1>1. Told(c) = <<c.kind, b, x>>
  BY DEF Told
<1>2. x = IF c.kind = "received" THEN e ELSE "untold"
  OBVIOUS
<1> HIDE DEF x
<1>3. CASE c.kind = "received"
  BY <1>1, <1>2, <1>3
<1>4. CASE c.kind # "received"
  <2>1. x = "untold"
    BY <1>2, <1>4
  <2> QED
    BY <1>1, <1>4, <2>1
<1> QED
  BY <1>3, <1>4

\* After the address and the end of the frame before.
Ending == AfterEnd(AfterAddress(slave))

\* A callback is owed for the end of a frame.
AtEnd == port.SDF /\ slave.state # "idle"

\* That callback, with the address the routine has found.
Ends == [EndCall(slave) EXCEPT !.address = Called]

\* What the routine does up to the end of a frame.
LEMMA EndingLemma ==
  ASSUME SlaveAssumption, port \in Ports, Typed(slave), Log(slave)
  PROVE  /\ Typed(Ending) /\ Log(Ending) /\ Called \in Addresses
         /\ SameBuffers(slave, Ending) /\ SameBytes(slave, Ending)
         /\ Ending.state = StateDue
         /\ Ending.address_called = Called /\ Ending.error = slave.error
         /\ Ending.trailing_byte_sent =
              (slave.trailing_byte_sent /\ ~(port.SDF /\ slave.state = "transmitting"))
         /\ Ends \in Callbacks
         /\ Ending.calls = IF AtEnd THEN Append(slave.calls, Ends) ELSE slave.calls
         /\ Owed = IF AtEnd THEN <<Told(Ends)>> ELSE <<>>
<1> DEFINE a == AfterAddress(slave)
<1>1. /\ Typed(a) /\ SameBuffers(slave, a) /\ SameBytes(slave, a)
      /\ a.state = slave.state
  BY AddressPart
<1>2. /\ a.calls = slave.calls /\ a.address_called = Called /\ a.error = slave.error
      /\ a.trailing_byte_sent = slave.trailing_byte_sent
  BY DEF AfterAddress, Called, Typed, Slaves
<1>3. Ending = AfterEnd(a)
  BY DEF Ending
<1>4. /\ slave.state \in SlaveStates /\ slave.error \in SlaveErrors
      /\ slave.rx_bytes \in Seq(Nat \X Nat) /\ slave.address_called \in Addresses
      /\ slave.trailing_byte_sent \in BOOLEAN
  BY DEF Typed, Slaves
<1>5. Called \in Addresses
  BY <1>4 DEF Called, Ports
<1> HIDE DEF a
<1>6. /\ Typed(Ending) /\ SameBuffers(a, Ending) /\ SameBytes(a, Ending)
      /\ Ending.state = IF port.SDF THEN "idle" ELSE a.state
  BY <1>1, <1>3, EndPart
<1>7. EndCall(a) = Ends
  BY <1>1, <1>2 DEF EndCall, Ends, SameBytes
<1>8. Log(a) /\ a \in Slaves(SlaveStates \cup {"aborted"}, a.calls)
  BY <1>1, <1>2 DEF Log, Typed, Slaves
<1>9. Ends \in Callbacks
  BY <1>7, <1>8, EndCallsLemma
<1>10. Told(Ends) = IF slave.state = "receiving"
                    THEN <<"received", slave.rx_bytes, slave.error>> ELSE Confirmed
  <2>1. /\ Ends.error = slave.error
        /\ slave.state = "receiving" => Ends.kind = "received" /\ Ends.bytes = slave.rx_bytes
        /\ slave.state # "receiving" => Ends.kind = "transmitted" /\ Ends.bytes = <<>>
    BY DEF Ends, EndCall
  <2> HIDE DEF Ends
  <2>3. CASE slave.state = "receiving"
    <3>1. Told(Ends) = <<"received", slave.rx_bytes, slave.error>>
      BY <2>1, <2>3, ToldLemma
    <3> QED
      BY <2>3, <3>1
  <2>4. CASE slave.state # "receiving"
    <3>1. Told(Ends) = <<"transmitted", <<>>, "untold">>
      BY <2>1, <2>4, ToldLemma
    <3> QED
      BY <2>4, <3>1 DEF Confirmed
  <2> QED
    BY <2>3, <2>4
<1>11. Owed = IF AtEnd THEN <<Told(Ends)>> ELSE <<>>
  BY <1>4, <1>10 DEF Owed, AtEnd, SlaveStates
<1>12. CASE port.SDF
  <2>1. Ending = end_of_frame(a)
    BY <1>3, <1>12 DEF AfterEnd
  <2>2. /\ Log(Ending) /\ Ending.error = a.error /\ Ending.address_called = a.address_called
        /\ Ending.trailing_byte_sent = (a.trailing_byte_sent /\ a.state # "transmitting")
        /\ Ending.calls = IF a.state \in {"receiving", "transmitting"}
                          THEN Append(a.calls, Ends) ELSE a.calls
    BY <1>7, <1>8, <2>1, EndCallsLemma
  <2>3. AtEnd = (a.state \in {"receiving", "transmitting"})
    BY <1>1, <1>4, <1>12 DEF AtEnd, SlaveStates
  <2>4. Ending.trailing_byte_sent =
              (slave.trailing_byte_sent /\ ~(port.SDF /\ slave.state = "transmitting"))
    BY <1>1, <1>2, <1>12, <2>2
  <2> HIDE DEF AtEnd, Ends
  <2>5. Ending.calls = IF AtEnd THEN Append(slave.calls, Ends) ELSE slave.calls
    BY <1>2, <2>2, <2>3
  <2>6. Ending.state = StateDue
    BY <1>6, <1>12 DEF StateDue
  <2>7. SameBuffers(slave, Ending) /\ SameBytes(slave, Ending)
    BY <1>1, <1>6 DEF SameBuffers, SameBytes
  <2> QED
    BY <1>2, <1>5, <1>6, <1>9, <1>11, <2>2, <2>4, <2>5, <2>6, <2>7
<1>13. CASE ~port.SDF
  <2>1. Ending = a
    BY <1>3, <1>13 DEF AfterEnd
  <2>2. ~AtEnd
    BY <1>13 DEF AtEnd
  <2>3. Ending.trailing_byte_sent =
              (slave.trailing_byte_sent /\ ~(port.SDF /\ slave.state = "transmitting"))
    BY <1>2, <1>4, <1>13, <2>1
  <2>4. Ending.state = StateDue
    BY <1>1, <1>13, <2>1 DEF StateDue
  <2> QED
    BY <1>1, <1>2, <1>5, <1>8, <1>9, <1>11, <2>1, <2>2, <2>3, <2>4
<1> QED
  BY <1>12, <1>13

\* The callback at the first request of a read.
BeginCall(a) ==
  [kind |-> "transmitting", bytes |-> <<>>, address |-> a, error |-> "ok"]

\* The callback at the first request is an announcement.
LEMMA BeginCallLemma ==
  ASSUME NEW a \in Addresses
  PROVE  BeginCall(a) \in Callbacks /\ Told(BeginCall(a)) = Announced
<1> DEFINE c == BeginCall(a)
<1>1. /\ c.kind = "transmitting" /\ c.bytes = <<>> /\ c.error = "ok"
      /\ c.address = a
  BY DEF BeginCall
<1>2. c \in Callbacks
  <2>1. <<>> \in Seq(Nat \X Nat)
    OBVIOUS
  <2> QED
    BY <2>1 DEF BeginCall, Callbacks, Kinds, SlaveErrors
<1> HIDE DEF c
<1>3. Told(c) = <<"transmitting", <<>>, "untold">>
  BY <1>1, ToldLemma
<1> QED
  BY <1>2, <1>3 DEF c, Announced

\* BeginTransmit announces a read unless one has been announced.
LEMMA BeginCallsLemma ==
  ASSUME NEW s, Typed(s), Log(s)
  PROVE  LET t == BeginTransmit(s)
         IN  /\ Log(t) /\ t.address_called = s.address_called
             /\ t.trailing_byte_sent = s.trailing_byte_sent
             /\ t.error = IF s.state = "idle" THEN "ok" ELSE s.error
             /\ t.calls = IF s.state = "idle"
                          THEN Append(s.calls, BeginCall(s.address_called))
                          ELSE s.calls
<1> DEFINE q == [s EXCEPT !.error = "ok", !.state = "transmitting",
                          !.tx_index = 0]
           c == BeginCall(s.address_called)
           l == Append(s.calls, c)
<1>1. s.address_called \in Addresses
  BY DEF Typed, Slaves
<1>2. l \in Seq(Callbacks)
  <2>1. c \in Callbacks
    BY <1>1, BeginCallLemma
  <2> HIDE DEF c
  <2> QED
    BY <2>1 DEF Log
<1>3. l = Append(q.calls, [kind |-> "transmitting", bytes |-> <<>>,
                           address |-> q.address_called, error |-> q.error])
  BY DEF BeginCall, Typed, Slaves
<1>4. Call(q, "transmitting", <<>>) = [q EXCEPT !.calls = l]
  BY <1>3 DEF Call
<1>5. BeginTransmit(s) = IF s.state = "idle" THEN [q EXCEPT !.calls = l] ELSE s
  BY <1>4 DEF BeginTransmit, Typed, Slaves, SlaveStates
<1> HIDE DEF l
<1>6. CASE s.state = "idle"
  BY <1>2, <1>5, <1>6 DEF Typed, Slaves, Log, l
<1>7. CASE s.state # "idle"
  BY <1>5, <1>7
<1> QED
  BY <1>6, <1>7

\* What is remembered of the bytes that were asked for and not there.
Missing(s, t) ==
  IF s.tx_index < s.tx_size
  THEN t.trailing_byte_sent = s.trailing_byte_sent /\ t.error = s.error
  ELSE s.tx_size > 0 =>
         /\ t.trailing_byte_sent
         /\ t.error = IF s.trailing_byte_sent THEN "buffer_underflow" ELSE s.error

\* AfterTransmit makes no callback, but remembers a byte that was not there.
LEMMA TransmitCallsLemma ==
  ASSUME NEW s, Typed(s), Log(s)
  PROVE  LET t == AfterTransmit(s)
         IN  /\ Log(t) /\ t.address_called = s.address_called /\ t.calls = s.calls
             /\ ~port.TDF => t = s
             /\ port.TDF => Missing(s, t)
<1> DEFINE t == AfterTransmit(s)
<1>1. CASE ~port.TDF
  BY <1>1 DEF AfterTransmit
<1>2. CASE port.TDF /\ s.tx_index < s.tx_size
  <2>1. t = [s EXCEPT !.tx_index = @ + 1]
    BY <1>2 DEF AfterTransmit, has_data_available
  <2> QED
    BY <1>2, <2>1 DEF Typed, Slaves, Log, Missing
<1>3. CASE port.TDF /\ ~(s.tx_index < s.tx_size) /\ s.tx_size > 0
             /\ ~s.trailing_byte_sent
  <2>1. t = [s EXCEPT !.trailing_byte_sent = TRUE]
    BY <1>3 DEF AfterTransmit, has_data_available
  <2> QED
    BY <1>3, <2>1 DEF Typed, Slaves, Log, Missing
<1>4. CASE /\ port.TDF /\ ~(s.tx_index < s.tx_size)
           /\ ~(s.tx_size > 0 /\ ~s.trailing_byte_sent)
  <2>1. t = [s EXCEPT !.error = "buffer_underflow"]
    BY <1>4 DEF AfterTransmit, has_data_available
  <2> QED
    BY <1>4, <2>1 DEF Typed, Slaves, Log, Missing
<1> QED
  BY <1>1, <1>2, <1>3, <1>4

\* A byte that has come in is stored, or an overflow remembered.
StoredIn(s, t) ==
  LET r == port.SRDR[1]
  IN  IF s.rx_size = 0 THEN t.state = "idle"
      ELSE IF r.SOF
      THEN t.state = "receiving" /\ t.rx_bytes = <<r.DATA>> /\ t.error = "ok"
      ELSE /\ t.state = s.state
           /\ IF Len(s.rx_bytes) = s.rx_size
              THEN t.rx_bytes = s.rx_bytes /\ t.error = "buffer_overflow"
              ELSE t.rx_bytes = Append(s.rx_bytes, r.DATA) /\ t.error = s.error

\* AfterReceive makes no callback.
LEMMA ReceiveCallsLemma ==
  ASSUME SlaveAssumption, port \in Ports, NEW s, Typed(s), Log(s)
  PROVE  LET t == AfterReceive(s)
         IN  /\ Log(t) /\ t.address_called = s.address_called /\ t.calls = s.calls
             /\ t.trailing_byte_sent = s.trailing_byte_sent
             /\ port.SRDR = <<>> => t = s
             /\ port.SRDR # <<>> => StoredIn(s, t)
<1> DEFINE t == AfterReceive(s)
           r == port.SRDR[1]
<1>1. CASE port.SRDR = <<>>
  BY <1>1 DEF AfterReceive
<1>2. CASE port.SRDR # <<>>
  <2>1. r.SOF \in BOOLEAN
    BY <1>2 DEF Ports, Received
  <2>2. s.rx_size \in Nat
    BY DEF Typed, Slaves, Sizes, SlaveAssumption
  <2> DEFINE ok == [s EXCEPT !.error = IF r.SOF THEN "ok" ELSE @]
             b == IF r.SOF THEN [ok EXCEPT !.rx_bytes = <<>>, !.state = "receiving"]
                           ELSE ok
             d == r.DATA
  <2>3. t = IF s.rx_size > 0 THEN rx_write(b, d) ELSE [ok EXCEPT !.state = "idle"]
    BY <1>2 DEF AfterReceive
  <2> HIDE DEF t
  <2>4. CASE s.rx_size = 0
    <3>1. t = [ok EXCEPT !.state = "idle"]
      BY <2>2, <2>3, <2>4
    <3> HIDE DEF r
    <3>2. /\ t.calls = s.calls /\ t.address_called = s.address_called
          /\ t.trailing_byte_sent = s.trailing_byte_sent /\ t.state = "idle"
      BY <3>1 DEF Typed, Slaves
    <3> QED
      BY <1>2, <2>4, <3>2 DEF StoredIn, Log, t
  <2>5. CASE s.rx_size # 0 /\ r.SOF
    <3>1. b = [s EXCEPT !.error = "ok", !.rx_bytes = <<>>, !.state = "receiving"]
      BY <2>5 DEF Typed, Slaves
    <3> DEFINE one == <<d>>
    <3>2. Len(<<>>) = 0 /\ Append(<<>>, d) = one
      OBVIOUS
    <3> HIDE DEF r, d
    <3>3. b.rx_bytes = <<>> /\ b.rx_size = s.rx_size
      BY <3>1 DEF Typed, Slaves
    <3>4. t = [b EXCEPT !.rx_bytes = one]
      <4>1. t = rx_write(b, d)
        BY <2>2, <2>3, <2>5
      <4> HIDE DEF b
      <4>2. Len(b.rx_bytes) # b.rx_size
        BY <2>5, <3>2, <3>3
      <4>3. t = [b EXCEPT !.rx_bytes = Append(@, d)]
        BY <4>1, <4>2 DEF rx_write
      <4> QED
        BY <3>2, <3>3, <4>3
    <3> HIDE DEF b, one
    <3>5. /\ t.calls = s.calls /\ t.address_called = s.address_called
          /\ t.trailing_byte_sent = s.trailing_byte_sent /\ t.state = "receiving"
          /\ t.error = "ok" /\ t.rx_bytes = one
      BY <3>1, <3>4 DEF Typed, Slaves
    <3> QED
      BY <1>2, <2>5, <3>5 DEF StoredIn, Log, t, one, d, r
  <2>6. CASE s.rx_size # 0 /\ ~r.SOF
    <3>1. b = s
      BY <2>5, <2>6 DEF Typed, Slaves
    <3>2. t = rx_write(s, d)
      BY <2>2, <2>3, <2>6, <3>1
    <3> DEFINE l == Append(s.rx_bytes, d)
    <3>3. t = IF Len(s.rx_bytes) = s.rx_size THEN [s EXCEPT !.error = "buffer_overflow"]
              ELSE [s EXCEPT !.rx_bytes = l]
      BY <3>2 DEF rx_write
    <3> HIDE DEF l
    <3>4. /\ t.calls = s.calls /\ t.address_called = s.address_called
          /\ t.trailing_byte_sent = s.trailing_byte_sent /\ t.state = s.state
          /\ IF Len(s.rx_bytes) = s.rx_size
             THEN t.rx_bytes = s.rx_bytes /\ t.error = "buffer_overflow"
             ELSE t.rx_bytes = l /\ t.error = s.error
      <4>1. CASE Len(s.rx_bytes) = s.rx_size
        BY <3>3, <4>1 DEF Typed, Slaves
      <4>2. CASE Len(s.rx_bytes) # s.rx_size
        BY <3>3, <4>2 DEF Typed, Slaves
      <4> QED
        BY <4>1, <4>2
    <3> QED
      BY <1>2, <2>6, <3>4 DEF StoredIn, Log, t, l
  <2> QED
    BY <2>1, <2>4, <2>5, <2>6
<1> QED
  BY <1>1, <1>2

\* AfterBitError does nothing without a bit error, and remembers nothing.
LEMMA ErrorCallsLemma ==
  ASSUME NEW s, Typed(s), Log(s)
  PROVE  LET t == AfterBitError(s)
         IN  /\ Log(t) /\ t.address_called = s.address_called
             /\ t.trailing_byte_sent => s.trailing_byte_sent
             /\ ~port.BEF => t = s
<1> DEFINE q == [s EXCEPT !.state = "aborted", !.error = "bit_error"]
<1>1. CASE port.BEF
  <2>1. /\ q \in Slaves(SlaveStates \cup {"aborted"}, q.calls) /\ Log(q)
        /\ q.address_called = s.address_called
        /\ q.trailing_byte_sent = s.trailing_byte_sent
    BY DEF Typed, Slaves, SlaveErrors, Log
  <2>2. AfterBitError(s) = end_of_frame(q)
    BY <1>1 DEF AfterBitError
  <2> HIDE DEF q
  <2> QED
    BY <1>1, <2>1, <2>2, EndCallsLemma
<1>2. CASE ~port.BEF
  BY <1>2 DEF AfterBitError
<1> QED
  BY <1>1, <1>2

\* The error before the byte asked for has been looked for.
ErrorDue == IF StateDue = "idle" THEN "ok" ELSE slave.error

\* A byte has been asked for.
Requested ==
  IF IndexDue < slave.tx_size
  THEN /\ Done.trailing_byte_sent = Ending.trailing_byte_sent
       /\ Done.error = ErrorDue
  ELSE slave.tx_size > 0 =>
         /\ Done.trailing_byte_sent
         /\ Done.error = IF Ending.trailing_byte_sent THEN "buffer_underflow"
                                                      ELSE ErrorDue

\* The callback at the first request.
Beginning ==
  IF port.TDF /\ StateDue = "idle" THEN <<BeginCall(Called)>> ELSE <<>>

\* What the whole routine does with the callbacks, the error and what is
\* remembered.
LEMMA RoutineCallsLemma ==
  ASSUME SlaveAssumption, port \in Ports, Typed(slave), Log(slave)
  PROVE  /\ Log(Done) /\ Done.address_called = Called
         /\ ~port.TDF /\ Done.trailing_byte_sent => slave.trailing_byte_sent
         /\ ~port.BEF /\ (port.TDF => port.SRDR = <<>>) =>
              Done.calls = Ending.calls \o Beginning
         /\ ~port.BEF /\ ~port.TDF =>
              /\ Done.trailing_byte_sent = Ending.trailing_byte_sent
              /\ port.SRDR = <<>> => Done = Ending
              /\ port.SRDR # <<>> => StoredIn(Ending, Done)
         /\ ~port.BEF /\ port.TDF /\ port.SRDR = <<>> => Requested
<1> DEFINE r == AfterReceive(Ending)
           b == BeginTransmit(r)
           t == AfterTransmit(Begun)
<1>1. /\ Typed(Ending) /\ Log(Ending) /\ SameBuffers(slave, Ending)
      /\ SameBytes(slave, Ending) /\ Ending.state = StateDue
      /\ Ending.address_called = Called /\ Ending.error = slave.error
      /\ Called \in Addresses
      /\ Ending.trailing_byte_sent =
           (slave.trailing_byte_sent /\ ~(port.SDF /\ slave.state = "transmitting"))
  BY EndingLemma
<1>2. /\ Typed(r) /\ SameBuffers(Ending, r) /\ r.tx_index = Ending.tx_index
  BY <1>1, ReceivePart
<1>3. /\ Log(r) /\ r.address_called = Called /\ r.calls = Ending.calls
      /\ r.trailing_byte_sent = Ending.trailing_byte_sent
      /\ port.SRDR = <<>> => r = Ending
      /\ port.SRDR # <<>> => StoredIn(Ending, r)
  BY <1>1, ReceiveCallsLemma
<1>4. /\ Typed(b) /\ SameBuffers(r, b)
      /\ b.tx_index = IF r.state = "idle" THEN 0 ELSE r.tx_index
  BY <1>2, BeginPart
<1>5. /\ Log(b) /\ b.address_called = r.address_called
      /\ b.trailing_byte_sent = r.trailing_byte_sent
      /\ b.error = IF r.state = "idle" THEN "ok" ELSE r.error
      /\ b.calls = IF r.state = "idle" THEN Append(r.calls, BeginCall(r.address_called))
                   ELSE r.calls
  BY <1>2, <1>3, BeginCallsLemma
<1>6. Begun = IF port.TDF THEN b ELSE r
  BY DEF Begun, BeforeTransmit, Ending
<1> HIDE DEF r, b
<1>7. Typed(Begun) /\ Log(Begun) /\ Begun.address_called = Called
  BY <1>2, <1>3, <1>4, <1>5, <1>6
<1>8. Typed(t)
  BY <1>7, TransmitPart
<1>9. /\ Log(t) /\ t.address_called = Called /\ t.calls = Begun.calls
      /\ ~port.TDF => t = Begun
      /\ port.TDF => Missing(Begun, t)
  BY <1>7, TransmitCallsLemma
<1>10. Done = AfterBitError(t)
  BY DEF Done
<1> HIDE DEF t
<1>11. Log(Done) /\ Done.address_called = Called /\ (~port.BEF => Done = t)
      /\ (Done.trailing_byte_sent => t.trailing_byte_sent)
  BY <1>8, <1>9, <1>10, ErrorCallsLemma
<1>12. ASSUME ~port.BEF, port.TDF => port.SRDR = <<>>
       PROVE  Done.calls = Ending.calls \o Beginning
  <2> DEFINE l == Ending.calls
             c == BeginCall(Called)
  <2>1. l \in Seq(Callbacks) /\ c \in Callbacks
    BY <1>1, BeginCallLemma DEF Log
  <2>2. Done.calls = IF port.TDF /\ StateDue = "idle" THEN Append(l, c) ELSE l
    <3>1. CASE port.TDF
      <4>1. r = Ending
        BY <1>3, <1>12, <3>1
      <4> QED
        BY <1>1, <1>5, <1>6, <1>9, <1>11, <1>12, <3>1, <4>1
    <3>2. CASE ~port.TDF
      BY <1>3, <1>6, <1>9, <1>11, <1>12, <3>2
    <3> QED
      BY <3>1, <3>2
  <2> HIDE DEF l, c
  <2>3. Append(l, c) = l \o <<c>> /\ l \o <<>> = l
    BY <2>1
  <2> QED
    BY <2>2, <2>3 DEF Beginning, l, c
<1>13. ASSUME ~port.BEF, ~port.TDF
       PROVE  /\ Done.trailing_byte_sent = Ending.trailing_byte_sent
              /\ port.SRDR = <<>> => Done = Ending
              /\ port.SRDR # <<>> => StoredIn(Ending, Done)
  BY <1>3, <1>6, <1>9, <1>11, <1>13
<1>14. ASSUME ~port.BEF, port.TDF, port.SRDR = <<>>
       PROVE  Requested
  <2>1. r = Ending /\ Begun = b /\ Done = t
    BY <1>3, <1>6, <1>11, <1>14
  <2>2. /\ Begun.tx_index = IndexDue /\ Begun.tx_size = slave.tx_size
        /\ Begun.trailing_byte_sent = Ending.trailing_byte_sent
        /\ Begun.error = ErrorDue
    BY <1>1, <1>4, <1>5, <2>1 DEF SameBuffers, SameBytes, IndexDue, ErrorDue
  <2> HIDE DEF Begun, Ending, IndexDue, ErrorDue, Done
  <2>3. Missing(Begun, Done)
    BY <1>9, <1>14, <2>1
  <2> QED
    BY <2>2, <2>3 DEF Missing, Requested
<1>15. ~port.TDF /\ Done.trailing_byte_sent => slave.trailing_byte_sent
  BY <1>1, <1>3, <1>6, <1>9, <1>11
<1> QED
  BY <1>11, <1>12, <1>13, <1>14, <1>15

-----------------------------------------------------------------------------
(* The callbacks follow the frames: what each step does to CallInv.        *)

\* No frames call for no callbacks.
LEMMA NothingDue ==
  Due(<<>>) = <<>> /\ Telling(<<>>) = <<>> /\ <<>> \in Seq(Sent) /\ <<>> \in Seq(Callbacks)
<1>1. Telling(<<>>) = <<>>
  BY DEF Telling
<1>2. [i \in DOMAIN <<>> |-> CallsOf(<<>>[i])] = <<>>
  OBVIOUS
<1>3. CallsOfAll(<<>>) = FlattenSeq(<<>>)
  BY <1>2 DEF CallsOfAll
<1>4. <<>> \in Seq(Callbacks) /\ <<>> \in Seq(Sent) /\ Len(<<>>) = 0
  OBVIOUS
<1>5. FlattenSeq(<<>>) = <<>>
  BY <1>4 DEF FlattenSeq
<1> QED
  BY <1>1, <1>3, <1>4, <1>5 DEF Due

\* CallInv holds at the start.
LEMMA CallInit ==
  ASSUME SlaveAssumption, Init
  PROVE  CallInv
<1>1. ReadInv
  BY InitInv
<1>2. frames = <<>> /\ ~open /\ EndedFrames = <<>> /\ ~port.SDF /\ ~port.AVF
  BY DEF Init, EndedFrames, Idle
<1>3. slave.calls = <<>> /\ slave.state = "idle" /\ ~slave.trailing_byte_sent
  BY DEF Init
<1>4. <<>> \in Seq(Callbacks) /\ <<>> \in Seq(Sent) /\ Len(<<>>) = 0 /\ 1 .. 0 = {}
  OBVIOUS
<1>5. Logged
  BY <1>3, <1>4 DEF Logged
<1>6. Due(<<>>) = <<>> /\ Telling(<<>>) = <<>>
  BY NothingDue
<1>7. InOrder
  <2>1. Owed = <<>> /\ Started = <<>>
    BY <1>2 DEF Owed, Started
  <2> QED
    BY <1>2, <1>3, <1>6, <2>1 DEF InOrder
<1>8. Arriving /\ RxKnown /\ Addressed /\ Wanted
  BY <1>2 DEF Arriving, RxKnown, Addressed, Wanted
<1>9. CallsFit
  BY <1>3, <1>4 DEF CallsFit
<1>10. Owing /\ Trailing /\ Fresh
  BY <1>2, <1>3 DEF Owing, Trailing, Fresh
<1> QED
  BY <1>5, <1>7, <1>8, <1>9, <1>10 DEF CallInv

-----------------------------------------------------------------------------
(* What each step does to what has been told.                              *)

\* What has been told, is owed and has been announced.
LEMMA OwedLemma ==
  ASSUME SlaveAssumption, Types, Logged
  PROVE  /\ Telling(slave.calls) \in Seq(Tells)
         /\ Len(Telling(slave.calls)) = Len(slave.calls) /\ Len(slave.calls) \in Nat
         /\ Owed \in Seq(Tells) /\ Len(Owed) = IF AtEnd THEN 1 ELSE 0
         /\ Started \in Seq(Tells)
         /\ Len(Started) = IF Started = <<>> THEN 0 ELSE 1
<1>1. port \in Ports /\ Typed(slave) /\ Log(slave)
  BY DEF Types, Typed, Logged, Log
<1>2. Ends \in Callbacks /\ Owed = IF AtEnd THEN <<Told(Ends)>> ELSE <<>>
  BY <1>1, EndingLemma
<1>3. Told(Ends) \in Tells
  BY <1>2 DEF Tells
<1> DEFINE x == Told(Ends)
           y == Announced
<1>4. y \in Tells
  <2>1. PICK a : a \in Addresses
    BY DEF SlaveAssumption
  <2>2. BeginCall(a) \in Callbacks /\ Told(BeginCall(a)) = y
    BY <2>1, BeginCallLemma
  <2> QED
    BY <2>2 DEF Tells
<1>5. Started = <<y>> \/ Started = <<>>
  BY DEF Started
<1>6. \A z \in Tells : <<z>> \in Seq(Tells) /\ Len(<<z>>) = 1 /\ <<z>> # <<>>
  OBVIOUS
<1>7. <<>> \in Seq(Tells) /\ Len(<<>>) = 0
  OBVIOUS
<1> HIDE DEF x, y
<1>8. Owed \in Seq(Tells) /\ Len(Owed) = IF AtEnd THEN 1 ELSE 0
  BY <1>2, <1>3, <1>6, <1>7
<1>9. Started \in Seq(Tells) /\ Len(Started) = IF Started = <<>> THEN 0 ELSE 1
  <2>1. CASE Started = <<y>>
    BY <1>4, <1>6, <2>1
  <2>2. CASE Started = <<>>
    BY <1>7, <2>2
  <2> QED
    BY <1>5, <2>1, <2>2
<1>10. /\ Telling(slave.calls) \in Seq(Tells)
       /\ Len(Telling(slave.calls)) = Len(slave.calls)
  <2>1. slave.calls \in Seq(Callbacks)
    BY DEF Logged
  <2> QED
    BY <2>1, TellingLemma
<1>11. Len(slave.calls) \in Nat
  <2> DEFINE l == slave.calls
  <2>1. l \in Seq(Callbacks)
    BY DEF Logged
  <2> HIDE DEF l
  <2> QED
    BY <2>1 DEF l
<1> QED
  BY <1>8, <1>9, <1>10, <1>11

\* What has been told is as much as is due, but for what is owed or announced.
LEMMA CountLemma ==
  ASSUME SlaveAssumption, Types, Logged, InOrder, calm.is
  PROVE  LET n == Len(Owners(EndedFrames))
         IN  /\ n \in Nat /\ Len(slave.calls) \in Nat
             /\ Len(slave.calls) + Len(Owed) = n + Len(Started)
<1> DEFINE n == Len(Owners(EndedFrames))
           p == Telling(slave.calls)
           d == Due(EndedFrames)
<1>1. EndedFrames \in Seq(Sent)
  BY EndedLemma
<1>2. d \in Seq(Tells) /\ Len(d) = n /\ n \in Nat
  BY <1>1, DueLemma
<1>3. p \in Seq(Tells) /\ Len(p) = Len(slave.calls) /\ Owed \in Seq(Tells) /\ Started \in Seq(Tells)
      /\ Len(slave.calls) \in Nat
  BY OwedLemma
<1>4. p \o Owed = d \o Started
  BY DEF InOrder
<1> HIDE DEF p, d, n
<1>5. Len(p \o Owed) = Len(p) + Len(Owed)
  <2>1. p \in Seq(Tells) /\ Owed \in Seq(Tells)
    BY <1>3
  <2> QED
    BY <2>1, ConcatLemma
<1>6. Len(d \o Started) = Len(d) + Len(Started)
  <2>1. d \in Seq(Tells) /\ Started \in Seq(Tells)
    BY <1>2, <1>3
  <2> QED
    BY <2>1, ConcatLemma
<1> QED
  BY <1>2, <1>3, <1>4, <1>5, <1>6 DEF n

\* Without the last element appended a sequence is what it was.
LEMMA FrontAppend ==
  ASSUME NEW S, NEW s \in Seq(S), NEW f \in S
  PROVE  Front(Append(s, f)) = s
<1> DEFINE u == Append(s, f)
           t == SubSeq(u, 1, Len(u) - 1)
<1>1. /\ u \in Seq(S) /\ Len(u) = Len(s) + 1 /\ Len(s) \in Nat
      /\ \A i \in 1 .. Len(s) : u[i] = s[i]
  OBVIOUS
<1>2. Front(Append(s, f)) = t
  BY DEF Front
<1> HIDE DEF u
<1>3. Len(u) - 1 \in 0 .. Len(u) /\ Len(u) - 1 = Len(s)
  BY <1>1
<1>4. t \in Seq(S) /\ Len(t) = Len(s) /\ \A i \in 1 .. Len(s) : t[i] = u[i]
  BY <1>1, <1>3, TakenLemma
<1> HIDE DEF t
<1>5. t = s
  BY <1>1, <1>4, SameSeq
<1> QED
  BY <1>2, <1>5

\* The callbacks stay those of their frames.
LEMMA FitsStep ==
  ASSUME CallsFit, calm'.is => calm.is, slave'.calls = slave.calls,
         Grown(frames, frames', calm.begun, calm'.begun),
         calm.is => \A k \in 1 .. Len(slave.calls) :
           OwnerIn(EndedFrames', Len(frames'), k) = OwnerIn(EndedFrames, Len(frames), k)
  PROVE  CallsFit'
<1> SUFFICES ASSUME calm'.is, NEW k \in 1 .. Len(slave.calls)
             PROVE  Fits(frames', calm'.begun, OwnerIn(EndedFrames', Len(frames'), k),
                         slave.calls[k])
  BY DEF CallsFit, OwnerOf
<1>1. Fits(frames, calm.begun, OwnerIn(EndedFrames, Len(frames), k), slave.calls[k])
  BY DEF CallsFit, OwnerOf
<1>2. Fits(frames', calm'.begun, OwnerIn(EndedFrames, Len(frames), k), slave.calls[k])
  BY <1>1, FitsKept
<1> QED
  BY <1>2

\* What StartFrame leaves and changes.
LEMMA StartFields ==
  ASSUME SlaveAssumption, ReadInv, StartFrame
  PROVE  \E d \in {"read", "write"}, a \in Addresses, l \in Lengths :
           /\ frames' = Append(frames, [dir |-> d, address |-> a, length |-> l,
                                        bytes |-> <<>>, rx |-> slave.rx_size,
                                        tx |-> slave.tx_size])
           /\ port'.SDF = port.SDF /\ port'.SRDR = port.SRDR /\ port'.AVF
           /\ port'.SASR = a
           /\ d = "read" => l > 0
<1>1. PICK d \in {"read", "write"}, a \in Addresses, l \in Lengths :
        /\ frames' = Append(frames, [dir |-> d, address |-> a, length |-> l,
                                     bytes |-> <<>>, rx |-> slave.rx_size,
                                     tx |-> slave.tx_size])
        /\ port' = [port EXCEPT !.AVF = TRUE, !.SASR = a, !.TDF = d = "read"]
        /\ l \in IF d = "read" THEN ReadLengths ELSE WriteLengths
  BY DEF StartFrame, Lengths
<1>2. /\ port'.SDF = port.SDF /\ port'.SRDR = port.SRDR /\ port'.AVF
      /\ port'.SASR = a
  BY <1>1 DEF ReadInv, Types, Ports
<1>3. d = "read" => l > 0
  BY <1>1 DEF SlaveAssumption
<1> QED
  BY <1>1, <1>2, <1>3

\* StartFrame keeps CallInv.
LEMMA StartCalls ==
  ASSUME SlaveAssumption, ReadInv, ReadInv', CallInv, StartFrame
  PROVE  CallInv'
<1>1. PICK d \in {"read", "write"}, a \in Addresses, l \in Lengths :
        /\ frames' = Append(frames, [dir |-> d, address |-> a, length |-> l,
                                     bytes |-> <<>>, rx |-> slave.rx_size,
                                     tx |-> slave.tx_size])
        /\ port'.SDF = port.SDF /\ port'.SRDR = port.SRDR /\ port'.AVF
        /\ port'.SASR = a
        /\ d = "read" => l > 0
  BY StartFields
<1> DEFINE f == [dir |-> d, address |-> a, length |-> l, bytes |-> <<>>,
                 rx |-> slave.rx_size, tx |-> slave.tx_size]
           n == Len(frames)
<1>2. /\ f.bytes = <<>> /\ f.rx = slave.rx_size /\ f.address = a /\ f.dir = d /\ f.length = l
  OBVIOUS
<1>3. /\ ~open /\ open' /\ slave' = slave
      /\ calm' = [calm EXCEPT !.begun = @ + 1]
  BY DEF StartFrame
<1>4. Types /\ Types'
  BY DEF ReadInv
<1>5. /\ frames \in Seq(Sent) /\ EndedFrames = frames /\ n \in Nat
      /\ calm.begun \in Nat /\ calm'.begun = calm.begun + 1 /\ calm'.is = calm.is
  BY <1>3, <1>4, EndedLemma DEF Types, SlaveAssumption
<1>6. f \in Sent
  <2> HIDE DEF f
  <2>1. frames' \in Seq(Sent) /\ frames' = Append(frames, f)
    BY <1>1, <1>4, EndedNext DEF f
  <2>2. Len(frames') = n + 1 /\ frames'[n + 1] = f
    BY <1>5, <2>1
  <2>3. n + 1 \in 1 .. Len(frames')
    BY <1>5, <2>2
  <2> QED
    BY <2>1, <2>2, <2>3
<1>7. frames' = Append(frames, f)
  BY <1>1
<1> HIDE DEF f
<1>8. /\ frames' \in Seq(Sent) /\ Len(frames') = n + 1 /\ frames'[n + 1] = f
      /\ \A i \in 1 .. n : frames'[i] = frames[i]
  BY <1>5, <1>6, <1>7
<1>9. EndedFrames' = frames
  <2>1. EndedFrames' = Front(frames')
    BY <1>3 DEF EndedFrames
  <2> QED
    BY <1>5, <1>6, <1>7, <2>1, FrontAppend
<1>10. Current' = f
  BY <1>8 DEF Current
<1>11. /\ port'.SDF = port.SDF /\ port'.SRDR = port.SRDR /\ port'.AVF
       /\ port'.SASR = a /\ port.SRDR = <<>>
  BY <1>1, <1>3 DEF ReadInv, PortFits
<1>12. calm.is /\ ~port.SDF => slave.state = "idle"
  BY <1>3 DEF ReadInv, AtRest
<1>13. Logged'
  BY <1>3 DEF CallInv, Logged
<1>14. Started = <<>> /\ (calm.is => Started' = <<>>) /\ Owed' = Owed
  BY <1>3, <1>11, <1>12 DEF Started, Owed
<1>15. InOrder'
  BY <1>3, <1>5, <1>9, <1>14 DEF CallInv, InOrder
<1>16. Arriving'
  <2>1. Len(f.bytes) = 0 /\ Len(port'.SRDR) = 0
    BY <1>2, <1>11
  <2>2. Len(Current'.bytes) - Len(port'.SRDR) = 0
    BY <1>2, <1>10, <2>1
  <2>3. calm'.is /\ ~port'.SDF => Stored(Len(Current.bytes) - Len(port.SRDR))'
    BY <1>3, <1>5, <1>11, <1>12, <2>2 DEF Stored
  <2>4. port'.SDF => Len(Current'.bytes) = Len(port'.SRDR)
    BY <1>2, <1>10, <2>1
  <2>5. Arrived'
    BY <1>11 DEF Arrived
  <2> QED
    BY <2>3, <2>4, <2>5 DEF Arriving
<1>17. RxKnown'
  BY <1>2, <1>3, <1>10 DEF RxKnown
<1>18. Addressed'
  BY <1>2, <1>3, <1>10, <1>11 DEF Addressed, Called
<1>19. Grown(frames, frames', calm.begun, calm'.begun)
  <2>1. n <= Len(frames') /\ (calm.begun = n) = (calm'.begun = Len(frames'))
    BY <1>5, <1>8
  <2> QED
    BY <1>5, <1>8, <2>1 DEF Grown
<1>20. calm.is => Len(slave.calls) + Len(Owed) = Len(Owners(frames))
         /\ Len(slave.calls) \in Nat /\ Len(Owners(frames)) \in Nat /\ Len(Owed) \in Nat
  <2>1. Len(<<>>) = 0
    OBVIOUS
  <2>2. Len(Owed) \in Nat
    BY <1>4, OwedLemma DEF CallInv
  <2> QED
    BY <1>4, <1>5, <1>14, <2>1, <2>2, CountLemma DEF CallInv
<1>21. ASSUME calm.is, NEW k \in Nat, k <= Len(Owners(frames))
       PROVE  /\ OwnerIn(EndedFrames', Len(frames'), k) = OwnerIn(EndedFrames, n, k)
              /\ k > 0 => OwnerIn(EndedFrames, n, k) \in 1 .. n
  <2>1. k > 0 => Owners(frames)[k] \in 1 .. n
    BY <1>5, <1>21, DueLemma
  <2> QED
    BY <1>5, <1>9, <1>21, <2>1 DEF OwnerIn
<1>22. CallsFit'
  <2>1. calm.is => \A k \in 1 .. Len(slave.calls) :
           OwnerIn(EndedFrames', Len(frames'), k) = OwnerIn(EndedFrames, Len(frames), k)
    <3> SUFFICES ASSUME calm.is, NEW k \in 1 .. Len(slave.calls)
                 PROVE  k \in Nat /\ k <= Len(Owners(frames))
      BY <1>21
    <3> QED
      BY <1>20
  <2> QED
    BY <1>3, <1>5, <1>19, <2>1, FitsStep DEF CallInv
<1>23. Owing'
  <2> SUFFICES ASSUME calm.is, port.SDF, slave.state = "transmitting"
               PROVE  TrueOf(frames', calm'.begun,
                             OwnerIn(EndedFrames', Len(frames'), Len(slave.calls) + 1),
                             slave.error)
    BY <1>3, <1>5, <1>11 DEF Owing, OwnerOf
  <2> DEFINE k == Len(slave.calls) + 1
  <2>1. AtEnd
    BY DEF AtEnd
  <2>2. Len(Owed) = 1
    BY <1>4, <2>1, OwedLemma DEF CallInv
  <2>3. k \in Nat /\ k > 0 /\ k <= Len(Owners(frames))
    BY <1>20, <2>2
  <2> DEFINE i == OwnerIn(EndedFrames, n, k)
  <2>4. TrueOf(frames, calm.begun, i, slave.error)
    BY DEF CallInv, Owing, OwnerOf
  <2> HIDE DEF k
  <2>5. i \in 1 .. n /\ OwnerIn(EndedFrames', Len(frames'), k) = i
    BY <1>21, <2>3
  <2> HIDE DEF i
  <2>6. TrueOf(frames', calm'.begun, i, slave.error)
    BY <1>19, <2>4, <2>5, TruthKept
  <2> QED
    BY <2>5, <2>6 DEF k
<1>24. Trailing'
  <2>1. Sure(frames', calm'.begun, n + 1) = Sure(frames, calm.begun, n + 1)
    <3>1. n + 1 \in 1 .. Len(frames) + 1
      BY <1>5
    <3> QED
      BY <1>19, <3>1, SureKept
  <2>2. slave.state # "transmitting" /\ Sure(frames, calm.begun, n + 1) /\ calm.is
          => ~slave.trailing_byte_sent
    BY <1>5 DEF CallInv, Trailing
  <2>3. calm.is /\ ~port.SDF => slave.state # "transmitting"
    BY <1>12
  <2> QED
    BY <1>3, <1>5, <1>9, <1>11, <2>1, <2>2, <2>3 DEF Trailing
<1>25. Fresh'
  BY <1>3, <1>5 DEF CallInv, Fresh
<1>26. Wanted'
  BY <1>1, <1>2, <1>10 DEF Wanted
<1> QED
  BY <1>26, <1>13, <1>15, <1>16, <1>17, <1>18, <1>22, <1>23, <1>24, <1>25 DEF CallInv

\* A step within a frame leaves the frames that have ended.
LEMMA SameEnded ==
  ASSUME SlaveAssumption, Types, Types', open, open', Len(frames') = Len(frames),
         \A i \in 1 .. Len(frames) : i # Len(frames) => frames'[i] = frames[i]
  PROVE  EndedFrames' = EndedFrames
<1> DEFINE n == Len(frames)
           e == EndedFrames
           d == EndedFrames'
<1>1. /\ e \in Seq(Sent) /\ n \in Nat /\ Len(e) = n - 1
      /\ \A i \in 1 .. Len(e) : i \in 1 .. n /\ e[i] = frames[i]
  BY EndedLemma
<1>2. /\ d \in Seq(Sent) /\ Len(d) = n - 1
      /\ \A i \in 1 .. Len(d) : d[i] = frames'[i]
  BY EndedNext
<1>3. \A i \in 1 .. n : i # n => frames'[i] = frames[i]
  OBVIOUS
<1> HIDE DEF n, e, d
<1>4. \A i \in 1 .. Len(d) : i \in 1 .. Len(e) /\ i \in 1 .. n /\ i # n
  BY <1>1, <1>2
<1>5. \A i \in 1 .. Len(d) : d[i] = e[i]
  BY <1>1, <1>2, <1>3, <1>4
<1>6. d = e
  BY <1>1, <1>2, <1>5, SameSeq
<1> QED
  BY <1>6 DEF d, e

\* The owner of a callback is one of the frames.
LEMMA OwnerLemma ==
  ASSUME SlaveAssumption, Types, open, NEW k \in Nat, k > 0
  PROVE  OwnerOf(k) \in 1 .. Len(frames)
<1> DEFINE e == EndedFrames
           n == Len(frames)
           o == Owners(e)
<1>1. e \in Seq(Sent) /\ n \in Nat /\ Len(e) = n - 1 /\ n > 0
  BY EndedLemma
<1>2. OwnerOf(k) = IF k <= Len(o) THEN o[k] ELSE n
  BY DEF OwnerOf, OwnerIn
<1> HIDE DEF e, n
<1>3. Len(o) \in Nat /\ \A i \in 1 .. Len(o) : o[i] \in 1 .. Len(e)
  BY <1>1, DueLemma
<1> HIDE DEF o
<1>4. CASE k <= Len(o)
  <2>1. o[k] \in 1 .. Len(e)
    BY <1>3, <1>4
  <2>2. o[k] \in 1 .. n
    BY <1>1, <2>1
  <2> QED
    BY <1>2, <1>4, <2>2 DEF n
<1>5. CASE ~(k <= Len(o))
  <2>1. n \in 1 .. n
    BY <1>1
  <2> QED
    BY <1>2, <1>5, <2>1 DEF n
<1> QED
  BY <1>4, <1>5

\* What one byte more of the frame that goes on leaves as it is.
LEMMA TransferCalls ==
  ASSUME SlaveAssumption, ReadInv, ReadInv', CallInv, open,
         NEW byte \in BytesOf(Current), Transfer(byte),
         port'.SDF = port.SDF, port'.AVF = port.AVF, port'.SASR = port.SASR,
         Arriving',
         /\ calm.is /\ ~port.SDF /\ Current.dir = "read"
         /\ slave.state = "transmitting" /\ slave.tx_size > 0
         /\ Sure(frames, calm.begun, Len(frames))
         => Remembered(Asked')
  PROVE  CallInv'
<1> DEFINE n == Len(frames)
<1>1. /\ open' /\ slave' = slave /\ calm' = calm /\ Types /\ Types'
  BY DEF Transfer, ReadInv
<1>2. /\ frames' \in Seq(Frames) /\ Len(frames') = n
      /\ \A i \in 1 .. n : i # n => frames'[i] = frames[i]
      /\ Current' = [Current EXCEPT !.bytes = Append(@, byte)]
  BY <1>1, ByteAdded
<1>3. /\ frames \in Seq(Sent) /\ n \in Nat /\ n > 0 /\ Current \in Sent
      /\ Len(EndedFrames) = n - 1
  BY <1>1, EndedLemma
<1>4. frames' \in Seq(Sent)
  BY <1>1, EndedNext
<1>5. EndedFrames' = EndedFrames
  BY <1>1, <1>2, SameEnded
<1>6. /\ Current'.dir = Current.dir /\ Current'.address = Current.address
      /\ Current'.length = Current.length /\ Current'.tx = Current.tx
      /\ Current'.rx = Current.rx
  BY <1>2, <1>3 DEF Sent, Frames
<1>7. calm.begun \in Nat
  BY <1>1 DEF Types, SlaveAssumption
<1>8. Grown(frames, frames', calm.begun, calm'.begun)
  <2>1. ASSUME NEW j \in 1 .. n
        PROVE  /\ frames'[j].dir = frames[j].dir /\ frames'[j].address = frames[j].address
               /\ frames'[j].length = frames[j].length /\ frames'[j].tx = frames[j].tx
    <3>1. CASE j = n
      BY <1>2, <1>6, <3>1 DEF Current
    <3>2. CASE j # n
      BY <1>2, <3>2
    <3> QED
      BY <3>1, <3>2
  <2> QED
    BY <1>1, <1>2, <1>3, <1>4, <2>1 DEF Grown
<1>9. Logged' /\ Fresh'
  BY <1>1 DEF CallInv, Logged, Fresh
<1>10. InOrder'
  <2>1. Owed' = Owed /\ Started' = Started
    BY <1>1 DEF Owed, Started
  <2> QED
    BY <1>1, <1>5, <2>1 DEF CallInv, InOrder
<1>11. RxKnown'
  BY <1>1, <1>2, <1>6 DEF CallInv, RxKnown
<1>12. Addressed'
  <2>1. frames # <<>>
    BY <1>1 DEF Types
  <2> QED
    BY <1>1, <1>6, <2>1 DEF CallInv, Addressed, Called
<1>13. CallsFit'
  BY <1>1, <1>2, <1>5, <1>8, FitsStep DEF CallInv
<1>14. Owing'
  <2> SUFFICES ASSUME calm.is, port.SDF, slave.state = "transmitting"
               PROVE  TrueOf(frames', calm'.begun,
                             OwnerIn(EndedFrames', Len(frames'), Len(slave.calls) + 1),
                             slave.error)
    BY <1>1 DEF Owing, OwnerOf
  <2> DEFINE k == Len(slave.calls) + 1
             i == OwnerOf(k)
  <2>1. TrueOf(frames, calm.begun, i, slave.error)
    BY DEF CallInv, Owing
  <2>2. k \in Nat /\ k > 0
    BY <1>1, OwedLemma DEF CallInv
  <2>3. OwnerIn(EndedFrames', Len(frames'), k) = i
    BY <1>2, <1>5 DEF OwnerOf
  <2> HIDE DEF k
  <2>4. i \in 1 .. Len(frames)
    BY <1>1, <2>2, OwnerLemma
  <2> HIDE DEF i
  <2>5. TrueOf(frames', calm'.begun, i, slave.error)
    BY <1>8, <2>1, <2>4, TruthKept
  <2> QED
    BY <2>3, <2>5 DEF k
<1>15. Trailing'
  <2>1. Sure(frames', calm'.begun, n) = Sure(frames, calm.begun, n)
    <3>1. n \in 1 .. Len(frames) + 1
      BY <1>3
    <3> QED
      BY <1>8, <3>1, SureKept
  <2>2. Len(EndedFrames) + 1 = n
    BY <1>3
  <2>3. slave.state # "transmitting" /\ Sure(frames, calm.begun, n) /\ calm.is
          => ~slave.trailing_byte_sent
    BY <2>2 DEF CallInv, Trailing
  <2>4. Remembered(Asked') => Remembered(Asked)'
    BY <1>1 DEF Remembered
  <2> HIDE DEF n
  <2> QED
    BY <1>1, <1>2, <1>5, <1>6, <2>1, <2>2, <2>3, <2>4 DEF Trailing, n
<1>16. Wanted'
  BY <1>1, <1>6 DEF CallInv, Wanted
<1> QED
  BY <1>16, <1>9, <1>10, <1>11, <1>12, <1>13, <1>14, <1>15 DEF CallInv

\* SendByte keeps CallInv.
LEMMA SendCalls ==
  ASSUME SlaveAssumption, ReadInv, ReadInv', CallInv, SendByte
  PROVE  CallInv'
<1>20. Types
  BY DEF ReadInv
<1>21. frames # <<>>
  BY DEF SendByte, ReadInv, Types
<1>22. Len(Current.bytes) \in Nat
  BY <1>20, <1>21, CurrentLemma
<1>0. PICK m \in Nat : m = Len(Current.bytes)
  BY <1>22
<1> DEFINE byte == <<calm.begun, m + 1>>
           r == [SOF |-> Current.bytes = <<>>, DATA |-> byte]
<1>1. /\ open /\ Current.dir = "write" /\ Transfer(byte) /\ port.SRDR = <<>>
      /\ port' = [port EXCEPT !.SRDR = <<r>>]
  BY <1>0 DEF SendByte
<1>2. Types /\ frames # <<>>
  BY <1>20, <1>21
<1>3. m = Len(Current.bytes) /\ calm.begun \in Nat /\ Current.bytes \in Seq(BytesOf(Current))
  BY <1>0, <1>2, CurrentLemma DEF Types, SlaveAssumption
<1>4. byte \in BytesOf(Current)
  BY <1>1, <1>3 DEF BytesOf
<1> HIDE DEF byte, r
<1>5. /\ port'.SDF = port.SDF /\ port'.AVF = port.AVF /\ port'.SASR = port.SASR
      /\ port'.SRDR = <<r>>
  BY <1>1, <1>2 DEF Types, Ports
<1>6. /\ slave' = slave /\ calm' = calm /\ open'
  BY <1>1 DEF Transfer
<1>7. /\ Current'.dir = "write" /\ Current'.bytes = Append(Current.bytes, byte)
      /\ Len(Current'.bytes) = m + 1
  BY <1>1, <1>2, <1>3, <1>4, ByteAdded
<1>8. /\ Current'.bytes[m + 1] = byte
      /\ \A i \in 1 .. m : Current'.bytes[i] = Current.bytes[i]
  BY <1>3, <1>4, <1>7
<1>9. Len(port'.SRDR) = 1 /\ port'.SRDR[1] = r /\ Len(port.SRDR) = 0
  BY <1>1, <1>5
<1>10. (Current.bytes = <<>>) = (m = 0)
  BY <1>3
<1>11. r.DATA = byte /\ r.SOF = (m = 0)
  BY <1>10 DEF r
<1>12. Arrived'
  <2>1. (m + 1 = 1) = (m = 0) /\ m + 1 > 0
    BY <1>3
  <2> QED
    BY <1>7, <1>8, <1>9, <1>11, <2>1 DEF Arrived
<1>13. port.SDF => m = 0
  BY <1>1, <1>3, <1>9 DEF CallInv, Arriving
<1>14. calm.is /\ ~port.SDF => Stored(m)
  <2>1. m - 0 = m
    BY <1>3
  <2> QED
    BY <1>1, <1>3, <1>9, <2>1 DEF CallInv, Arriving
<1>15. Stored(m) => Stored(m)'
  <2> DEFINE l == Lesser(m, slave.rx_size)
             b == Current.bytes
             c == Current'.bytes
  <2>1. SubSeq(c, 1, l) = SubSeq(b, 1, l)
    <3>1. slave.rx_size \in Nat
      BY <1>2 DEF Types, Slaves, Sizes, SlaveAssumption
    <3>2. l \in Nat /\ l <= m
      BY <1>3, <3>1 DEF Lesser
    <3>3. c = Append(b, byte)
      BY <1>7
    <3> DEFINE S == BytesOf(Current)
    <3>4. b \in Seq(S) /\ byte \in S
      BY <1>3, <1>4
    <3>5. c \in Seq(S) /\ Len(c) = m + 1 /\ \A i \in 1 .. m : c[i] = b[i]
      BY <1>7, <1>8, <3>3, <3>4
    <3> HIDE DEF l, c, S
    <3>6. l \in 0 .. Len(b) /\ l \in 0 .. Len(c)
      BY <1>3, <3>2, <3>5
    <3> DEFINE x == SubSeq(c, 1, l)
               y == SubSeq(b, 1, l)
    <3>7. y \in Seq(S) /\ Len(y) = l /\ \A i \in 1 .. l : y[i] = b[i]
      BY <3>4, <3>6, TakenLemma
    <3>8. x \in Seq(S) /\ Len(x) = l /\ \A i \in 1 .. l : x[i] = c[i]
      BY <3>5, <3>6, TakenLemma
    <3> HIDE DEF x, y
    <3>9. \A i \in 1 .. l : i \in 1 .. m
      BY <1>3, <3>2
    <3>10. \A i \in 1 .. Len(x) : x[i] = y[i]
      BY <3>5, <3>7, <3>8, <3>9
    <3>11. x = y
      BY <3>7, <3>8, <3>10, SameSeq
    <3> QED
      BY <3>11 DEF x, y
  <2> QED
    BY <1>6, <2>1 DEF Stored, Fitting
<1>16. Arriving'
  <2>1. m + 1 - 1 = m
    BY <1>3
  <2>2. port'.SDF => Len(Current'.bytes) = Len(port'.SRDR)
    BY <1>5, <1>7, <1>9, <1>13
  <2>3. calm'.is /\ ~port'.SDF => Stored(m)'
    BY <1>5, <1>6, <1>14, <1>15
  <2>4. Len(Current'.bytes) - Len(port'.SRDR) = m
    BY <1>7, <1>9, <2>1
  <2> QED
    BY <1>12, <2>2, <2>3, <2>4 DEF Arriving
<1> QED
  BY <1>1, <1>4, <1>5, <1>16, TransferCalls

\* TakeByte keeps CallInv.
LEMMA TakeCalls ==
  ASSUME SlaveAssumption, ReadInv, ReadInv', CallInv, TakeByte
  PROVE  CallInv'
<1> DEFINE byte == port.STDR[1]
           k == Len(Current.bytes)
<1>1. /\ open /\ Current.dir = "read" /\ Transfer(byte) /\ port.STDR # <<>>
      /\ port' = [port EXCEPT !.STDR = <<>>, !.TDF = TRUE]
  BY DEF TakeByte
<1>2. Types /\ frames # <<>>
  BY <1>1 DEF ReadInv, Types
<1>3. byte \in BytesOf(Current)
  BY <1>1, <1>2 DEF Types, Ports, BytesOf
<1> HIDE DEF byte
<1>4. /\ port'.SDF = port.SDF /\ port'.AVF = port.AVF /\ port'.SASR = port.SASR
      /\ port'.TDF
  BY <1>1, <1>2 DEF Types, Ports
<1>5. /\ Current'.dir = "read" /\ Len(Current'.bytes) = k + 1
  BY <1>1, <1>2, <1>3, ByteAdded
<1>6. Arriving'
  BY <1>5 DEF Arriving
<1>7. ASSUME calm.is, ~port.SDF, slave.state = "transmitting", slave.tx_size > 0,
             Sure(frames, calm.begun, Len(frames))
      PROVE  Remembered(Asked')
  <2>1. ~port.TDF
    BY <1>1, <1>7 DEF ReadInv, Serving, Followed
  <2>2. Asked = k + 1
    BY <2>1 DEF Asked
  <2>3. Asked' = k + 1
    <3>1. k \in Nat
      BY <1>2, CurrentLemma
    <3> HIDE DEF k
    <3>2. Asked' = (k + 1) + 0
      BY <1>4, <1>5 DEF Asked
    <3> QED
      BY <3>1, <3>2
  <2>4. Remembered(Asked)
    BY <1>1, <1>7 DEF CallInv, Trailing
  <2> QED
    BY <2>2, <2>3, <2>4
<1> QED
  BY <1>1, <1>3, <1>4, <1>6, <1>7, TransferCalls

\* Two sequences of one element make one of two.
LEMMA PairLemma ==
  ASSUME NEW S, NEW x \in S, NEW y \in S
  PROVE  <<x>> \o <<y>> = <<x, y>> /\ <<>> \o <<x, y>> = <<x, y>>
<1> DEFINE u == <<x>>
           v == <<y>>
           w == <<x, y>>
           c == u \o v
<1>1. /\ u \in Seq(S) /\ Len(u) = 1 /\ u[1] = x
      /\ v \in Seq(S) /\ Len(v) = 1 /\ v[1] = y
      /\ w \in Seq(S) /\ Len(w) = 2 /\ w[1] = x /\ w[2] = y
  OBVIOUS
<1> HIDE DEF u, v, w
<1>2. /\ c \in Seq(S) /\ Len(c) = Len(u) + Len(v) /\ <<>> \o w = w
      /\ \A i \in 1 .. Len(u) : c[i] = u[i]
      /\ \A i \in 1 .. Len(v) : c[Len(u) + i] = v[i]
  <2>1. u \in Seq(S) /\ v \in Seq(S) /\ w \in Seq(S)
    BY <1>1
  <2>2. <<>> \o w = w
    BY <2>1, ConcatLemma
  <2> QED
    BY <2>1, <2>2, ConcatLemma
<1> HIDE DEF c
<1>3. Len(c) = 2 /\ c[1] = x /\ c[2] = y
  <2>1. 1 \in 1 .. Len(u) /\ 1 \in 1 .. Len(v) /\ Len(u) + 1 = 2
    BY <1>1
  <2> QED
    BY <1>1, <1>2, <2>1
<1>4. \A i \in 1 .. 2 : i = 1 \/ i = 2
  OBVIOUS
<1>5. \A i \in 1 .. Len(c) : c[i] = w[i]
  BY <1>1, <1>3, <1>4
<1>6. c = w
  BY <1>1, <1>2, <1>3, <1>5, SameSeq
<1> QED
  BY <1>2, <1>6 DEF u, v, w, c

\* It does not matter which of three sequences are put together first.
LEMMA JoinLemma ==
  ASSUME NEW S, NEW p \in Seq(S), NEW q \in Seq(S), NEW r \in Seq(S)
  PROVE  p \o (q \o r) = (p \o q) \o r
OBVIOUS

\* What is owed after a step that leaves the driver as it is.
LEMMA OwedNext ==
  ASSUME SlaveAssumption, Types, Logged, slave' = slave, port'.SDF
  PROVE  Owed' \in Seq(Tells)
<1> DEFINE b == slave.rx_bytes
           x == slave.error
<1>1. b \in Seq(Nat \X Nat) /\ x \in SlaveErrors
  BY DEF Types, Slaves
<1>2. <<"received", b, x>> \in Tells
  <2> DEFINE c == [kind |-> "received", bytes |-> b, error |-> x, address |-> slave.address_called]
  <2>1. c \in Callbacks
    BY <1>1 DEF Types, Slaves, Callbacks, Kinds
  <2>2. c.kind = "received" /\ c.bytes = b /\ c.error = x
    OBVIOUS
  <2> HIDE DEF c, b, x
  <2>3. Told(c) = <<"received", b, x>>
    BY <2>2, ToldLemma
  <2>4. Told(c) \in Tells
    BY <2>1 DEF Tells
  <2> QED
    BY <2>3, <2>4 DEF b, x
<1>3. Confirmed \in Tells
  <2> DEFINE c == [kind |-> "transmitted", bytes |-> <<>>, error |-> x, address |-> slave.address_called]
  <2>1. c \in Callbacks
    <3>1. <<>> \in Seq(Nat \X Nat)
      OBVIOUS
    <3> QED
      BY <1>1, <3>1 DEF Types, Slaves, Callbacks, Kinds
  <2>2. c.kind = "transmitted" /\ c.bytes = <<>> /\ c.error = x
    OBVIOUS
  <2> HIDE DEF c, x
  <2>3. Told(c) = <<"transmitted", <<>>, "untold">>
    BY <2>2, ToldLemma
  <2> QED
    BY <2>1, <2>3 DEF Tells, Confirmed
<1>4. Owed' = CASE slave.state = "receiving" -> <<<<"received", b, x>>>>
                [] slave.state = "transmitting" -> <<Confirmed>>
                [] OTHER -> <<>>
  BY DEF Owed
<1> DEFINE u == <<"received", b, x>>
           v == Confirmed
<1>5. \A z \in Tells : <<z>> \in Seq(Tells)
  OBVIOUS
<1>6. <<>> \in Seq(Tells)
  OBVIOUS
<1> HIDE DEF u, v
<1>7. <<u>> \in Seq(Tells) /\ <<v>> \in Seq(Tells)
  BY <1>2, <1>3, <1>5 DEF u, v
<1> QED
  BY <1>4, <1>6, <1>7 DEF u, v

\* What the end of a frame calls for is then owed.
LEMMA EndOwed ==
  ASSUME SlaveAssumption, ReadInv, ReadInv', CallInv, EndFrame, calm.is
  PROVE  /\ Started \o Owed' = Owed \o Telling(CallsOf(Current))
         /\ Current.dir = "read" => ~port.SDF /\ slave.state = "transmitting"
         /\ Current.dir = "write" /\ slave.state = "transmitting" => port.SDF
<1> DEFINE f == Current
           m == Len(f.bytes)
<1>1. /\ open /\ m = f.length /\ port.SRDR = <<>> /\ slave' = slave
  BY DEF EndFrame
<1>2. Types /\ frames # <<>> /\ f \in Sent
  BY <1>1, EndedLemma DEF ReadInv, Types
<1>3. port'.SDF
  BY <1>2 DEF EndFrame, Ended, Types, Ports
<1>4. m \in Nat /\ (f.bytes = <<>>) = (m = 0) /\ f.dir \in {"read", "write"}
  <2>1. m \in Nat /\ f.bytes \in Seq(BytesOf(f)) /\ f \in Frames
    BY <1>2, CurrentLemma
  <2> HIDE DEF f
  <2> QED
    BY <2>1 DEF Frames
<1>5. Owed' = CASE slave.state = "receiving" ->
                     <<<<"received", slave.rx_bytes, slave.error>>>>
                [] slave.state = "transmitting" -> <<Confirmed>>
                [] OTHER -> <<>>
  BY <1>1, <1>3 DEF Owed
<1>6. slave.rx_size \in Nat /\ f.rx = slave.rx_size
  BY <1>1, <1>2 DEF CallInv, RxKnown, Types, Slaves, Sizes, SlaveAssumption
<1>7. CASE f.dir = "read"
  <2>1. m > 0
    BY <1>1, <1>7 DEF CallInv, Wanted
  <2>2. ~port.SDF
    BY <1>1, <1>4, <1>7, <2>1 DEF ReadInv, Unserved
  <2>3. slave.state = "transmitting"
    BY <1>1, <1>7, <2>1 DEF ReadInv, Serving, Followed
  <2>4. Started = <<Announced>> /\ Owed = <<>> /\ Owed' = <<Confirmed>>
    BY <1>1, <1>5, <2>2, <2>3 DEF Started, Owed
  <2>5. Telling(CallsOf(f)) = <<Announced, Confirmed>>
    BY <1>2, <1>7, CallsOfLemma
  <2> DEFINE x == Announced
             y == Confirmed
  <2>7. x \in {x, y} /\ y \in {x, y}
    OBVIOUS
  <2> HIDE DEF x, y
  <2>6. <<x>> \o <<y>> = <<x, y>> /\ <<>> \o <<x, y>> = <<x, y>>
    BY <2>7, PairLemma
  <2> QED
    BY <1>7, <2>2, <2>3, <2>4, <2>5, <2>6 DEF x, y
<1>8. CASE f.dir = "write"
  <2> DEFINE c == Telling(CallsOf(f))
             w == <<"received", Fitting(f.bytes, m, f.rx), Overflow(f.length, f.rx)>>
  <2>1. c = IF f.bytes = <<>> \/ f.rx = 0 THEN <<>> ELSE <<w>>
    BY <1>2, <1>8, CallsOfLemma
  <2>2. CASE port.SDF
    <3>1. m = 0
      <4>1. m = Len(port.SRDR) /\ Len(port.SRDR) = 0
        BY <1>1, <1>8, <2>2 DEF CallInv, Arriving
      <4> QED
        BY <4>1
    <3>2. c = <<>>
      BY <1>4, <2>1, <3>1
    <3>3. Started = <<>> /\ Owed' = Owed
      BY <1>1, <1>3, <2>2 DEF Started, Owed
    <3>4. Owed \in Seq(Tells)
      BY <1>2, OwedLemma DEF CallInv
    <3>5. <<>> \o Owed = Owed /\ Owed \o <<>> = Owed
      <4> DEFINE z == Owed
      <4>1. z \in Seq(Tells)
        BY <3>4
      <4> HIDE DEF z
      <4>2. <<>> \o z = z /\ z \o <<>> = z
        BY <4>1
      <4> QED
        BY <4>2 DEF z
    <3> QED
      BY <1>8, <2>2, <3>2, <3>3, <3>5
  <2>3. CASE ~port.SDF
    <3>1. Stored(m)
      <4>1. Stored(Len(Current.bytes) - Len(port.SRDR)) /\ Len(port.SRDR) = 0
        BY <1>1, <1>8, <2>3 DEF CallInv, Arriving
      <4>2. m - 0 = m
        BY <1>4
      <4> QED
        BY <4>1, <4>2
    <3>2. Owed = <<>>
      BY <2>3 DEF Owed
    <3>3. CASE m = 0 \/ f.rx = 0
      <4>1. slave.state = "idle"
        BY <1>6, <3>1, <3>3 DEF Stored
      <4>2. Owed' = <<>> /\ Started = <<>> /\ c = <<>>
        BY <1>4, <1>5, <2>1, <3>3, <4>1 DEF Started
      <4>3. <<>> \o <<>> = <<>>
        OBVIOUS
      <4> QED
        BY <1>8, <3>2, <4>1, <4>2, <4>3
    <3>4. CASE ~(m = 0 \/ f.rx = 0)
      <4>1. /\ slave.state = "receiving" /\ slave.rx_bytes = Fitting(f.bytes, m, f.rx)
            /\ slave.error = Overflow(m, f.rx)
        BY <1>6, <3>1, <3>4 DEF Stored
      <4>2. Owed' = <<w>> /\ Started = <<>>
        BY <1>1, <1>5, <4>1 DEF Started
      <4>3. c = <<w>>
        BY <1>4, <2>1, <3>4
      <4> HIDE DEF c, w
      <4>4. <<>> \o <<w>> = <<w>>
        OBVIOUS
      <4> QED
        BY <1>8, <3>2, <4>1, <4>2, <4>3, <4>4 DEF c
    <3> QED
      BY <3>3, <3>4
  <2> QED
    BY <2>2, <2>3
<1> QED
  BY <1>4, <1>7, <1>8

\* A read that ends is told of rightly.
LEMMA EndTruth ==
  ASSUME SlaveAssumption, ReadInv, CallInv, EndFrame, calm.is,
         Current.dir = "read", ~port.SDF, slave.state = "transmitting"
  PROVE  TrueOf(frames, calm.begun, Len(frames), slave.error)
<1> DEFINE f == Current
           m == Len(f.bytes)
           tx == slave.tx_size
<1>1. /\ open /\ m = f.length
  BY DEF EndFrame
<1>2. Types /\ frames # <<>>
  BY <1>1 DEF ReadInv, Types
<1>3. m \in Nat
  BY <1>2, CurrentLemma
<1>4. tx \in Nat /\ f.tx = tx
  BY <1>1, <1>2 DEF ReadInv, SizeKnown, Followed, Types, Slaves, Sizes, SlaveAssumption
<1>5. frames[Len(frames)] = f
  BY DEF Current
<1> SUFFICES ASSUME tx > 0, Sure(frames, calm.begun, Len(frames))
             PROVE  Good(slave.error, f)
  BY <1>4, <1>5 DEF TrueOf
<1>6. Remembered(Asked)
  BY <1>1 DEF CallInv, Trailing
<1>7. Asked = m \/ Asked = m + 1
  <2>1. Asked = m + 0 \/ Asked = m + 1
    BY DEF Asked
  <2> QED
    BY <1>3, <2>1
<1>8. slave.error = IF Asked > tx + 1 THEN "buffer_underflow" ELSE "ok"
  BY <1>6 DEF Remembered
<1> HIDE DEF m, tx
<1>9. CASE Asked > tx + 1
  <2>1. m > tx
    BY <1>3, <1>4, <1>7, <1>9
  <2> QED
    BY <1>1, <1>4, <1>8, <1>9, <2>1 DEF Good
<1>10. CASE ~(Asked > tx + 1)
  <2>1. ~(m > tx + 1)
    BY <1>3, <1>4, <1>7, <1>10
  <2> QED
    BY <1>1, <1>4, <1>8, <1>10, <2>1 DEF Good
<1> QED
  BY <1>9, <1>10

\* EndFrame keeps CallInv.
LEMMA EndCalls ==
  ASSUME SlaveAssumption, ReadInv, ReadInv', CallInv, EndFrame
  PROVE  CallInv'
<1> DEFINE n == Len(frames)
           e == EndedFrames
           f == Current
<1>1. /\ open /\ ~open' /\ UNCHANGED <<frames, slave, calm>> /\ Types /\ Types'
  BY DEF EndFrame, ReadInv
<1>2. /\ port'.SDF /\ port'.AVF = port.AVF /\ port'.SASR = port.SASR
  BY <1>1 DEF EndFrame, Ended, Types, Ports
<1>3. /\ frames \in Seq(Sent) /\ n \in Nat /\ n > 0 /\ f \in Sent
      /\ e \in Seq(Sent) /\ Len(e) + 1 = n /\ frames = Append(e, f)
      /\ \A i \in 1 .. Len(e) : i \in 1 .. n /\ e[i] = frames[i]
  BY <1>1, EndedLemma
<1>4. EndedFrames' = frames
  BY <1>1, EndedNext
<1>5. Logged' /\ Fresh' /\ Arriving' /\ RxKnown' /\ Wanted'
  BY <1>1 DEF CallInv, Logged, Fresh, Arriving, RxKnown, Wanted
<1>6. InOrder'
  <2> SUFFICES ASSUME calm.is
               PROVE  Telling(slave.calls) \o Owed' = Due(frames)
    <3>1. Started' = <<>>
      BY <1>1 DEF Started
    <3>2. Due(frames) \in Seq(Tells)
      BY <1>3, DueLemma
    <3>3. Due(frames) \o <<>> = Due(frames)
      BY <3>2
    <3> QED
      BY <1>1, <1>4, <3>1, <3>3 DEF InOrder
  <2> DEFINE p == Telling(slave.calls)
             d == Due(e)
             c == Telling(CallsOf(f))
             o == Owed
             oo == Owed'
             s == Started
  <2>1. p \o o = d \o s
    BY DEF CallInv, InOrder
  <2>2. Due(frames) = d \o c
    BY <1>3, FramesAppend
  <2>3. s \o oo = o \o c /\ (o = <<>> \/ s = <<>>)
    <3>1. s \o oo = o \o c
      BY EndOwed
    <3>2. o = <<>> \/ s = <<>>
      BY DEF Owed, Started
    <3> QED
      BY <3>1, <3>2
  <2>4. /\ p \in Seq(Tells) /\ o \in Seq(Tells) /\ s \in Seq(Tells)
    BY <1>1, OwedLemma DEF CallInv
  <2>5. d \in Seq(Tells)
    <3>1. e \in Seq(Sent)
      BY <1>3
    <3> QED
      BY <3>1, DueLemma
  <2>6. c \in Seq(Tells)
    <3>1. CallsOf(f) \in Seq(Callbacks)
      BY <1>3, CallsOfLemma
    <3> QED
      BY <3>1, TellingLemma
  <2>7. oo \in Seq(Tells)
    BY <1>1, <1>2, OwedNext DEF CallInv
  <2> HIDE DEF p, d, c, o, oo, s
  <2>8. CASE o = <<>>
    <3>1. p = d \o s
      BY <2>1, <2>4, <2>8
    <3>2. s \o oo = c
      BY <2>3, <2>6, <2>8
    <3>3. p \o oo = d \o (s \o oo)
      BY <2>4, <2>5, <2>7, <3>1, JoinLemma
    <3> QED
      BY <2>2, <3>2, <3>3 DEF p, oo
  <2>9. CASE s = <<>>
    <3>1. p \o o = d
      BY <2>1, <2>5, <2>9
    <3>2. oo = o \o c
      BY <2>3, <2>7, <2>9
    <3>3. p \o (o \o c) = (p \o o) \o c
      BY <2>4, <2>6, JoinLemma
    <3> QED
      BY <2>2, <3>1, <3>2, <3>3 DEF p, oo
  <2> QED
    BY <2>3, <2>8, <2>9
<1>7. Addressed'
  <2>1. frames # <<>>
    BY <1>1 DEF Types
  <2> QED
    BY <1>1, <1>2, <2>1 DEF CallInv, Addressed, Called, Current
<1>8. ASSUME NEW k \in Nat, k > 0
      PROVE  OwnerIn(EndedFrames', Len(frames'), k) = OwnerOf(k)
  <2>1. OwnerIn(Append(e, f), Len(e) + 1, k) = OwnerIn(e, Len(e) + 1, k)
    BY <1>3, <1>8, OwnersAppend
  <2> QED
    BY <1>1, <1>3, <1>4, <2>1 DEF OwnerOf
<1>9. Grown(frames, frames', calm.begun, calm'.begun)
  BY <1>1, <1>3 DEF Grown
<1>10. Len(slave.calls) \in Nat
  BY <1>1, OwedLemma DEF CallInv
<1>11. CallsFit'
  <2>1. \A k \in 1 .. Len(slave.calls) :
           OwnerIn(EndedFrames', Len(frames'), k) = OwnerIn(EndedFrames, Len(frames), k)
    <3> TAKE k \in 1 .. Len(slave.calls)
    <3>1. k \in Nat /\ k > 0
      BY <1>10
    <3> QED
      BY <1>8, <3>1 DEF OwnerOf
  <2> QED
    BY <1>1, <1>9, <2>1, FitsStep DEF CallInv
<1>12. Owing'
  <2> SUFFICES ASSUME calm.is, slave.state = "transmitting"
               PROVE  TrueOf(frames, calm.begun,
                             OwnerIn(EndedFrames', Len(frames'), Len(slave.calls) + 1),
                             slave.error)
    BY <1>1 DEF Owing, OwnerOf
  <2> DEFINE k == Len(slave.calls) + 1
  <2>1. OwnerIn(EndedFrames', Len(frames'), k) = OwnerOf(k)
    <3>1. k \in Nat /\ k > 0
      BY <1>10
    <3> HIDE DEF k
    <3> QED
      BY <1>8, <3>1
  <2>2. CASE port.SDF
    BY <2>1, <2>2 DEF CallInv, Owing
  <2>3. CASE ~port.SDF
    <3>1. f.dir = "read"
      <4>1. f.dir # "write"
        BY <2>3, EndOwed DEF f
      <4>2. f \in Frames
        BY <1>3 DEF Sent
      <4> HIDE DEF f
      <4>3. f.dir \in {"read", "write"}
        BY <4>2 DEF Frames
      <4> QED
        BY <4>1, <4>3 DEF f
    <3>2. TrueOf(frames, calm.begun, n, slave.error)
      <4>1. Current.dir = "read"
        BY <3>1
      <4>2. TrueOf(frames, calm.begun, Len(frames), slave.error)
        BY <2>3, <4>1, EndTruth
      <4> QED
        BY <4>2
    <3>3. OwnerOf(k) = n
      <4>1. Len(Owed) = 0 /\ Len(Started) = 1
        <5>1. Started = <<Announced>> /\ Started # <<>> /\ ~AtEnd
          BY <1>1, <2>3 DEF Started, AtEnd
        <5> QED
          BY <1>1, <5>1, OwedLemma DEF CallInv
      <4> DEFINE j == Len(Owners(e))
      <4>2. j \in Nat /\ Len(slave.calls) + Len(Owed) = j + Len(Started)
        BY <1>1, CountLemma DEF CallInv
      <4> DEFINE a == Len(slave.calls)
                 b == Len(Owed)
                 c == Len(Started)
      <4>4. a \in Nat /\ a + b = j + c /\ b = 0 /\ c = 1 /\ j \in Nat
        BY <1>10, <4>1, <4>2
      <4> HIDE DEF j, a, b, c
      <4>3. ~(a + 1 <= j)
        BY <4>4
      <4> QED
        BY <4>3 DEF OwnerOf, OwnerIn, j, a
    <3> QED
      BY <2>1, <3>2, <3>3
  <2> QED
    BY <2>2, <2>3
<1>13. Trailing'
  <2> SUFFICES ASSUME calm.is, slave.state # "transmitting",
                      Sure(frames, calm.begun, n + 1)
               PROVE  ~slave.trailing_byte_sent
    BY <1>1, <1>4 DEF Trailing
  <2>1. f.dir # "read"
    BY EndOwed
  <2>2. Sure(frames, calm.begun, n)
    <3>1. CASE calm.begun = Len(frames)
      BY <3>1 DEF Sure
    <3>2. CASE calm.begun # Len(frames)
      <4>1. PICK j \in 1 .. n + 1 - 1 : frames[j].dir = "read"
        BY <3>2 DEF Sure
      <4>2. j # n
        BY <2>1, <4>1 DEF Current
      <4>3. j \in 1 .. n - 1
        BY <1>3, <4>2
      <4> QED
        BY <4>1, <4>3 DEF Sure
    <3> QED
      BY <3>1, <3>2
  <2>3. Sure(frames, calm.begun, Len(e) + 1)
    BY <1>3, <2>2
  <2> QED
    BY <2>3 DEF CallInv, Trailing
<1> QED
  BY <1>5, <1>6, <1>7, <1>11, <1>12, <1>13 DEF CallInv

\* Whatever the driver is not told of leaves of the callbacks nothing, or
\* comes when there is nothing to be told.
LEMMA DisturbedCalls ==
  ASSUME SlaveAssumption, ReadInv, ReadInv', CallInv,
         NEW b, ~b => ~Busy,
         NEW left, \/ left = LastFrame /\ port' = port /\ open' = open
                   \/ left = <<>> /\ ~open',
         ~b => port' = port \/ (~port'.SDF /\ ~port'.AVF),
         NEW s, Typed(s), s.calls = slave.calls, s.state = slave.state,
         s.address_called = slave.address_called,
         s.trailing_byte_sent = slave.trailing_byte_sent, Disturbed(b, left, s)
  PROVE  CallInv'
<1>1. Types /\ calm.begun \in Nat
  BY DEF ReadInv, Types, SlaveAssumption
<1>2. CASE b
  <2>1. /\ calm' = [calm EXCEPT !.is = FALSE] /\ frames' = left
        /\ slave' = [s EXCEPT !.calls = <<>>]
    BY <1>2 DEF Disturbed
  <2>2. ~calm'.is /\ calm'.begun = calm.begun
    BY <1>1, <2>1 DEF Types
  <2>3. /\ slave'.calls = <<>> /\ slave'.address_called = slave.address_called
        /\ slave'.trailing_byte_sent = slave.trailing_byte_sent
    BY <2>1 DEF Typed, Slaves
  <2>4. <<>> \in Seq(Callbacks)
    OBVIOUS
  <2>5. Len(frames') \in 0 .. 1
    <3>1. Len(LastFrame) \in 0 .. 1
      BY <1>1, LastLemma
    <3>2. Len(<<>>) = 0
      OBVIOUS
    <3> QED
      BY <2>1, <3>1, <3>2
  <2>6. frames' # <<>> => /\ left = LastFrame /\ port' = port /\ open' = open
                          /\ frames # <<>> /\ Current' = Current
    <3> SUFFICES ASSUME frames' # <<>>
                 PROVE  /\ left = LastFrame /\ port' = port /\ open' = open
                        /\ frames # <<>> /\ Current' = Current
      OBVIOUS
    <3>1. left = LastFrame /\ port' = port /\ open' = open
      BY <2>1
    <3>2. frames # <<>>
      BY <2>1, <3>1 DEF LastFrame
    <3> DEFINE f == Current
    <3>3. frames' = <<f>>
      BY <2>1, <3>1, <3>2 DEF LastFrame
    <3> HIDE DEF f
    <3>4. frames'[Len(frames')] = f
      BY <3>3
    <3> QED
      BY <3>1, <3>2, <3>4 DEF f, Current
  <2>7. open' => frames' # <<>>
    BY DEF ReadInv, Types
  <2>8. Logged' /\ Fresh'
    BY <2>2, <2>3, <2>4 DEF CallInv, Logged, Fresh
  <2>9. Arriving' /\ Wanted'
    <3>1. CASE open'
      <4>1. /\ port' = port /\ open /\ Current' = Current
        BY <2>6, <2>7, <3>1
      <4>2. Wanted'
        BY <4>1 DEF CallInv, Wanted
      <4>3. Arrived => Arrived'
        BY <4>1 DEF Arrived
      <4>4. Arriving'
        BY <2>2, <4>1, <4>3 DEF CallInv, Arriving
      <4> QED
        BY <4>2, <4>4
    <3>2. CASE ~open'
      BY <3>2 DEF Arriving, Wanted
    <3> QED
      BY <3>1, <3>2
  <2>10. RxKnown'
    <3> DEFINE k == Len(frames')
    <3>2. k \in 0 .. 1
      BY <2>5
    <3> HIDE DEF k
    <3>3. ~(k > 1)
      BY <3>2
    <3>1. ~(Len(frames') > 1)
      BY <3>3 DEF k
    <3> QED
      BY <2>2, <3>1 DEF RxKnown
  <2>11. Addressed'
    BY <2>3, <2>6 DEF CallInv, Addressed, Called
  <2>12. InOrder' /\ CallsFit' /\ Owing' /\ Trailing'
    BY <2>2 DEF InOrder, CallsFit, Owing, Trailing
  <2> QED
    BY <2>8, <2>9, <2>10, <2>11, <2>12 DEF CallInv
<1>3. CASE ~b
  <2>1. /\ ~open /\ ~open' /\ ~port.SDF /\ ~port'.SDF /\ UNCHANGED <<calm, frames>>
        /\ slave' = s
    BY <1>3 DEF Disturbed, Busy, Pending
  <2>2. EndedFrames' = frames /\ EndedFrames = frames
    BY <2>1 DEF EndedFrames
  <2>3. Logged' /\ Fresh' /\ Arriving' /\ RxKnown' /\ Wanted' /\ Owing'
    BY <2>1 DEF CallInv, Logged, Fresh, Arriving, RxKnown, Wanted, Owing
  <2>4. InOrder'
    <3>1. Owed = <<>> /\ Owed' = <<>> /\ Started = <<>> /\ Started' = <<>>
      BY <2>1 DEF Owed, Started
    <3> QED
      BY <2>1, <2>2, <3>1 DEF CallInv, InOrder
  <2>5. Addressed'
    <3>1. frames # <<>> => ~port.AVF /\ ~port'.AVF
      BY <1>3, <2>1 DEF CallInv, Addressed
    <3> QED
      BY <2>1, <3>1 DEF CallInv, Addressed, Called, Current
  <2>6. CallsFit'
    BY <2>1, <2>2 DEF CallInv, CallsFit, OwnerOf
  <2>7. Trailing'
    BY <2>1, <2>2 DEF CallInv, Trailing
  <2> QED
    BY <2>3, <2>4, <2>5, <2>6, <2>7 DEF CallInv
<1> QED
  BY <1>2, <1>3

\* BitError keeps CallInv.
LEMMA BitErrorCalls ==
  ASSUME SlaveAssumption, ReadInv, ReadInv', CallInv, BitError
  PROVE  CallInv'
<1>1. Typed(slave) /\ ~open' /\ Disturbed(TRUE, <<>>, slave)
  BY DEF BitError, ReadInv, Types, Typed
<1> QED
  BY <1>1, DisturbedCalls

\* stop_listening and listen keep CallInv.
LEMMA ListenCalls ==
  ASSUME SlaveAssumption, ReadInv, ReadInv', CallInv, stop_listening \/ listen
  PROVE  CallInv'
<1>1. Typed(slave) /\ ~open' /\ Disturbed(Busy, <<>>, slave)
  BY DEF stop_listening, listen, ReadInv, Types, Typed
<1>2. ~port'.SDF /\ ~port'.AVF
  BY DEF stop_listening, listen, Idle
<1> QED
  BY <1>1, <1>2, DisturbedCalls

\* initialise() keeps CallInv, between any two of its assignments.
LEMMA InitialiseCalls ==
  ASSUME SlaveAssumption, ReadInv, ReadInv', CallInv, initialise
  PROVE  CallInv'
<1>1. Typed(slave)
  BY DEF ReadInv, Types, Typed
<1>2. UNCHANGED <<open, port>>
  BY DEF initialise, ResetIndex, SetBuffer, SetSize
<1>3. ASSUME NEW s, Disturbed(Busy, LastFrame, s), Typed(s),
             s.calls = slave.calls, s.state = slave.state,
             s.address_called = slave.address_called,
             s.trailing_byte_sent = slave.trailing_byte_sent
      PROVE  CallInv'
  <2> DEFINE l == LastFrame
  <2>1. l = LastFrame /\ port' = port /\ open' = open
    BY <1>2
  <2> QED
    BY <1>3, <2>1, DisturbedCalls
<1>4. CASE ResetIndex
  <2>1. PICK which \in {"rx", "tx"} :
          Disturbed(Busy, LastFrame,
               IF which = "rx" THEN [slave EXCEPT !.rx_bytes = <<>>]
                               ELSE [slave EXCEPT !.tx_index = 0])
    BY <1>4 DEF ResetIndex
  <2> DEFINE s == IF which = "rx" THEN [slave EXCEPT !.rx_bytes = <<>>]
                                  ELSE [slave EXCEPT !.tx_index = 0]
             bs == Nat \X Nat
  <2>2. <<>> \in Seq(bs)
    OBVIOUS
  <2> HIDE DEF bs
  <2>3. /\ Typed(s) /\ s.calls = slave.calls /\ s.state = slave.state
        /\ s.address_called = slave.address_called
        /\ s.trailing_byte_sent = slave.trailing_byte_sent
    BY <1>1, <2>2 DEF Typed, Slaves, bs
  <2>4. Disturbed(Busy, LastFrame, s)
    BY <2>1
  <2> HIDE DEF s
  <2> QED
    BY <1>3, <2>3, <2>4
<1>5. CASE SetBuffer \/ SetSize
  <2>1. app[2] \in Sizes
    BY <1>5 DEF SetBuffer, SetSize, ReadInv, Types, Changing, Sizes
  <2>2. CASE SetBuffer
    <3> DEFINE bs == [i \in DOMAIN slave.rx_bytes |-> <<0, 0>>]
               s == IF app[3] = "rx"
                    THEN [slave EXCEPT !.rx_buffer = app[2], !.rx_bytes = bs]
                    ELSE [slave EXCEPT !.tx_buffer = app[2]]
    <3>1. bs \in Seq(Nat \X Nat)
      <4> DEFINE q == slave.rx_bytes
      <4>1. q \in Seq(Nat \X Nat)
        BY <1>1 DEF Typed, Slaves
      <4> HIDE DEF q
      <4>2. DOMAIN q = 1 .. Len(q) /\ Len(q) \in Nat /\ <<0, 0>> \in Nat \X Nat
        BY <4>1
      <4> DEFINE zero == <<0, 0>>
      <4> HIDE DEF zero
      <4>3. [i \in DOMAIN q |-> zero] \in Seq(Nat \X Nat)
        BY <4>2 DEF zero
      <4> QED
        BY <4>3 DEF q, zero
    <3>2. Disturbed(Busy, LastFrame, s)
      BY <2>2 DEF SetBuffer
    <3> HIDE DEF bs
    <3>3. /\ Typed(s) /\ s.calls = slave.calls /\ s.state = slave.state
          /\ s.address_called = slave.address_called
          /\ s.trailing_byte_sent = slave.trailing_byte_sent
      BY <1>1, <2>1, <3>1 DEF Typed, Slaves
    <3> HIDE DEF s
    <3> QED
      BY <1>3, <3>2, <3>3
  <2>3. CASE SetSize
    <3> DEFINE s == IF app[3] = "rx" THEN [slave EXCEPT !.rx_size = app[2]]
                                     ELSE [slave EXCEPT !.tx_size = app[2]]
    <3>1. Disturbed(Busy, LastFrame, s)
      BY <2>3 DEF SetSize
    <3>2. /\ Typed(s) /\ s.calls = slave.calls /\ s.state = slave.state
          /\ s.address_called = slave.address_called
          /\ s.trailing_byte_sent = slave.trailing_byte_sent
      BY <1>1, <2>1 DEF Typed, Slaves
    <3> HIDE DEF s
    <3> QED
      BY <1>3, <3>1, <3>2
  <2> QED
    BY <1>5, <2>2, <2>3
<1> QED
  BY <1>4, <1>5 DEF initialise

\* reset keeps CallInv.
LEMMA ResetCalls ==
  ASSUME SlaveAssumption, ReadInv, ReadInv', CallInv, reset
  PROVE  CallInv'
<1>1. Types /\ Len(frames) \in Nat
  BY DEF ReadInv, Types
<1>2. /\ ~open' /\ frames' = <<>> /\ calm'.begun = calm.begun
      /\ port'.SDF = port.SDF
  BY <1>1 DEF reset, Types, Ports
<1>3. /\ slave'.calls = <<>> /\ slave'.state = "idle"
      /\ slave'.trailing_byte_sent = slave.trailing_byte_sent
  BY <1>1 DEF reset, Types, Slaves
<1>4. /\ Due(<<>>) = <<>> /\ Telling(<<>>) = <<>> /\ <<>> \in Seq(Callbacks)
      /\ Len(<<>>) = 0 /\ 1 .. 0 = {} /\ <<>> \o <<>> = <<>>
  BY NothingDue
<1>5. EndedFrames' = <<>>
  BY <1>2 DEF EndedFrames
<1>6. Logged' /\ Fresh' /\ Arriving' /\ RxKnown' /\ Wanted' /\ Addressed' /\ Owing'
  BY <1>2, <1>3, <1>4
  DEF CallInv, Logged, Fresh, Arriving, RxKnown, Wanted, Addressed, Owing
<1>7. InOrder'
  <2>1. Owed' = <<>> /\ Started' = <<>>
    BY <1>2, <1>3 DEF Owed, Started
  <2> QED
    BY <1>3, <1>4, <1>5, <2>1 DEF InOrder
<1>8. CallsFit'
  BY <1>3, <1>4 DEF CallsFit
<1>9. Trailing'
  <2>1. Sure(<<>>, calm.begun, Len(<<>>) + 1) => calm.begun = 0
    BY <1>4 DEF Sure
  <2> QED
    BY <1>2, <1>3, <1>5, <2>1 DEF CallInv, Fresh, Trailing
<1> QED
  BY <1>6, <1>7, <1>8, <1>9 DEF CallInv

-----------------------------------------------------------------------------
(* What the interrupt service routine does to what has been told.          *)

\* The same but for the callbacks logged.
Alike(s, t) ==
  /\ t.state = s.state /\ t.address_called = s.address_called
  /\ t.error = s.error /\ t.trailing_byte_sent = s.trailing_byte_sent
  /\ t.tx_size = s.tx_size /\ t.tx_index = s.tx_index
  /\ t.rx_size = s.rx_size /\ t.rx_bytes = s.rx_bytes

\* What the routine leaves and changes.
LEMMA RoutineFields ==
  ASSUME SlaveAssumption, ReadInv, CallInv, interrupt_service_routine
  PROVE  /\ Types /\ port \in Ports /\ Typed(slave) /\ Log(slave) /\ Pending
         /\ ~port'.AVF /\ ~port'.SDF /\ ~port'.TDF /\ port'.SRDR = <<>>
         /\ open' = open /\ calm'.begun = calm.begun
         /\ calm'.is = (InStep \/ calm.is) /\ (calm'.is => ~port.BEF)
         /\ port.TDF => open /\ Current.dir = "read" /\ port.SRDR = <<>>
         /\ port.SRDR # <<>> => open /\ Current.dir = "write"
         /\ Alike(Done, slave') /\ SameBuffers(slave, Done)
         /\ InStep => /\ frames' = (IF open THEN LastFrame ELSE <<>>)
                      /\ slave'.calls = SubSeq(Done.calls, Len(Ending.calls) + 1,
                                               Len(Done.calls))
         /\ ~InStep => frames' = frames /\ slave' = Done
<1>1. Types /\ port \in Ports /\ Typed(slave) /\ Log(slave) /\ Pending
  BY DEF ReadInv, CallInv, Logged, Log, Types, Typed, interrupt_service_routine
<1>2. /\ port' = [port EXCEPT !.AVF = FALSE, !.SDF = FALSE, !.BEF = FALSE,
                              !.SRDR = <<>>, !.TDF = FALSE,
                              !.STDR = IF port.TDF THEN Answer(Begun) ELSE @]
      /\ UNCHANGED <<open, app, changes, last>>
  BY DEF interrupt_service_routine, Begun
<1>3. /\ InStep => /\ calm' = [calm EXCEPT !.is = TRUE]
                   /\ frames' = (IF open THEN LastFrame ELSE <<>>)
                   /\ slave' = [Done EXCEPT !.calls =
                        SubSeq(@, Len(Ending.calls) + 1, Len(@))]
      /\ ~InStep => slave' = Done /\ UNCHANGED <<calm, frames>>
  BY DEF interrupt_service_routine, Done, Begun, Ending
<1>4. Typed(Done) /\ SameBuffers(slave, Done)
  BY <1>1, RoutineLemma
<1>5. ~port'.AVF /\ ~port'.SDF /\ ~port'.TDF /\ port'.SRDR = <<>>
  <2> DEFINE x == IF port.TDF THEN Answer(Begun) ELSE port.STDR
  <2>1. port' = [port EXCEPT !.AVF = FALSE, !.SDF = FALSE, !.BEF = FALSE,
                              !.SRDR = <<>>, !.TDF = FALSE, !.STDR = x]
    BY <1>2
  <2> HIDE DEF x
  <2> QED
    BY <1>1, <2>1 DEF Ports
<1>6. calm'.begun = calm.begun /\ calm'.is = (InStep \/ calm.is)
  BY <1>1, <1>3 DEF Types
<1>7. calm'.is => ~port.BEF
  BY <1>6 DEF ReadInv, AtRest, InStep
<1>8. /\ port.TDF => open /\ Current.dir = "read" /\ port.SRDR = <<>>
      /\ port.SRDR # <<>> => open /\ Current.dir = "write"
  <2>1. open => Current.dir \in {"read", "write"}
    <3> DEFINE f == Current
    <3>1. open => f \in Frames
      BY <1>1, CurrentLemma DEF Types
    <3> HIDE DEF f
    <3>2. open => f.dir \in {"read", "write"}
      BY <3>1 DEF Frames
    <3> QED
      BY <3>2 DEF f
  <2> QED
    BY <2>1 DEF ReadInv, PortFits
<1> DEFINE d == Done
           l == SubSeq(d.calls, Len(Ending.calls) + 1, Len(d.calls))
<1>9. CASE InStep
  <2>1. slave' = [d EXCEPT !.calls = l]
    BY <1>3, <1>9
  <2>2. Typed(d)
    BY <1>4
  <2> HIDE DEF d, l
  <2>3. Alike(d, slave') /\ slave'.calls = l
    BY <2>1, <2>2 DEF Typed, Slaves, Alike
  <2> QED
    BY <1>1, <1>2, <1>3, <1>4, <1>5, <1>6, <1>7, <1>8, <1>9, <2>3 DEF d, l
<1>10. CASE ~InStep
  <2>1. Alike(Done, slave')
    BY <1>3, <1>10 DEF Alike
  <2> QED
    BY <1>1, <1>2, <1>3, <1>4, <1>5, <1>6, <1>7, <1>8, <1>10, <2>1
<1> QED
  BY <1>9, <1>10

\* The frames change only when the driver comes in step again.
LEMMA RoutineFrames ==
  ASSUME SlaveAssumption, ReadInv, ReadInv', CallInv, interrupt_service_routine
  PROVE  /\ EndedFrames' = IF InStep THEN <<>> ELSE EndedFrames
         /\ Len(frames') = IF InStep THEN (IF open THEN 1 ELSE 0) ELSE Len(frames)
         /\ open => frames # <<>> /\ Current' = Current
         /\ frames' # <<>> => frames # <<>> /\ Current' = Current
         /\ InStep => /\ ~Sure(frames', calm'.begun, 1)
                      /\ open => Len(frames) > 1
<1>1. /\ Types /\ Types' /\ open' = open /\ calm'.begun = calm.begun
      /\ InStep => frames' = (IF open THEN LastFrame ELSE <<>>)
      /\ ~InStep => frames' = frames
  BY RoutineFields DEF ReadInv
<1>2. open => frames # <<>>
  BY <1>1 DEF Types
<1>3. CASE InStep /\ open
  <2> DEFINE f == Current
             n == Len(frames)
  <2>1. frames' = <<f>> /\ n > 1
    BY <1>1, <1>2, <1>3 DEF LastFrame, InStep
  <2> HIDE DEF f
  <2>2. Len(frames') = 1 /\ frames'[Len(frames')] = f
    BY <2>1
  <2>3. Len(EndedFrames') = 0 /\ EndedFrames' \in Seq(Sent)
    BY <1>1, <1>3, <2>2, EndedNext
  <2> DEFINE e == EndedFrames'
  <2>4. e \in Seq(Sent) /\ Len(e) = 0
    BY <2>3
  <2> HIDE DEF e
  <2>5. e = <<>>
    BY <2>4
  <2>6. ~Sure(frames', calm'.begun, 1)
    <3>1. n <= calm.begun /\ n \in Nat /\ calm.begun \in Nat
      BY <1>1 DEF Types, SlaveAssumption
    <3> HIDE DEF n
    <3>2. calm'.begun # Len(frames')
      BY <1>1, <2>1, <2>2, <3>1
    <3>3. 1 .. 1 - 1 = {}
      OBVIOUS
    <3> QED
      BY <3>2, <3>3 DEF Sure
  <2>7. Current' = Current
    BY <2>2 DEF f, Current
  <2> QED
    BY <1>2, <1>3, <2>1, <2>2, <2>5, <2>6, <2>7 DEF e, n
<1>4. CASE InStep /\ ~open
  <2>1. frames' = <<>> /\ Len(frames') = 0 /\ EndedFrames' = <<>>
    <3>1. frames' = <<>> /\ Len(<<>>) = 0
      BY <1>1, <1>4
    <3> QED
      BY <1>1, <1>4, <3>1 DEF EndedFrames
  <2> DEFINE n == Len(frames)
  <2>2. n > 0 /\ n <= calm.begun /\ n \in Nat /\ calm.begun \in Nat
    BY <1>1, <1>4 DEF Types, SlaveAssumption, InStep
  <2> HIDE DEF n
  <2>3. calm'.begun # Len(frames')
    BY <1>1, <2>1, <2>2
  <2>4. 1 .. 1 - 1 = {}
    OBVIOUS
  <2>5. ~Sure(frames', calm'.begun, 1)
    BY <2>3, <2>4 DEF Sure
  <2> QED
    BY <1>4, <2>1, <2>5
<1>5. CASE ~InStep
  BY <1>1, <1>2, <1>5 DEF EndedFrames, Current
<1> QED
  BY <1>3, <1>4, <1>5

\* A read that goes on has been answered.
LEMMA ReadRoutine ==
  ASSUME SlaveAssumption, ReadInv, CallInv, interrupt_service_routine,
         calm'.is, open, Current.dir = "read"
  PROVE  /\ port.TDF /\ slave'.state = "transmitting" /\ Requested
         /\ StateDue = "idle" => Len(Current.bytes) = 0
         /\ StateDue # "idle" =>
              /\ ~port.SDF /\ calm.is /\ ~InStep /\ slave.state = "transmitting"
              /\ slave.tx_index = Lesser(Len(Current.bytes), slave.tx_size)
<1>1. /\ Types /\ port \in Ports /\ Typed(slave) /\ Log(slave) /\ Pending
      /\ ~port.BEF /\ Alike(Done, slave') /\ calm'.is = (InStep \/ calm.is)
  BY RoutineFields
<1>2. port.SRDR = <<>>
  BY DEF ReadInv, PortFits
<1>3. port.TDF
  BY <1>1, <1>2 DEF Pending, ReadInv, Unserved
<1>4. Requested
  BY <1>1, <1>2, <1>3, RoutineCallsLemma
<1>5. Done.state = IF StateDue = "idle" THEN "transmitting" ELSE StateDue
  BY <1>1, <1>2, <1>3, RoutineLemma
<1>6. ~InStep \/ port.SDF
  BY DEF InStep
<1>7. CASE port.SDF
  <2>1. StateDue = "idle" /\ Current.bytes = <<>>
    BY <1>7 DEF ReadInv, Unserved, StateDue
  <2>2. Len(<<>>) = 0
    OBVIOUS
  <2> QED
    BY <1>1, <1>3, <1>4, <1>5, <2>1, <2>2 DEF Alike
<1>8. CASE ~port.SDF
  <2>1. calm.is /\ StateDue = slave.state /\ ~InStep
    BY <1>1, <1>6, <1>8 DEF StateDue
  <2>2. \/ Len(Current.bytes) = 0 /\ slave.state = "idle"
        \/ /\ slave.state = "transmitting"
           /\ slave.tx_index = Lesser(Len(Current.bytes), slave.tx_size)
    BY <1>3, <1>8, <2>1 DEF ReadInv, Serving, Followed
  <2> QED
    BY <1>1, <1>3, <1>4, <1>5, <1>8, <2>1, <2>2 DEF Alike
<1> QED
  BY <1>7, <1>8

\* What fits of one byte more.
LEMMA OneLemma ==
  ASSUME NEW S, NEW b \in Seq(S), Len(b) = 1
  PROVE  SubSeq(b, 1, 1) = <<b[1]>>
<1> DEFINE t == SubSeq(b, 1, 1)
           x == b[1]
           u == <<x>>
<1>1. 1 \in 0 .. Len(b) /\ x \in S
  OBVIOUS
<1>2. t \in Seq(S) /\ Len(t) = 1 /\ \A i \in 1 .. 1 : t[i] = b[i]
  BY <1>1, TakenLemma
<1> HIDE DEF t
<1>3. \A i \in 1 .. 1 : i = 1
  OBVIOUS
<1>4. \A i \in 1 .. Len(t) : t[i] = x
  BY <1>2, <1>3
<1> HIDE DEF x
<1>5. u \in Seq(S) /\ Len(u) = 1 /\ u[1] = x
  BY <1>1
<1> HIDE DEF u
<1>6. t = u
  BY <1>2, <1>3, <1>4, <1>5, SameSeq
<1> QED
  BY <1>6 DEF t, u, x

\* A byte that fits is added to those before it.
LEMMA FittingLemma ==
  ASSUME NEW S, NEW b \in Seq(S), NEW m \in Nat, m > 0, m = Len(b), NEW rx \in Nat
  PROVE  /\ Len(Fitting(b, m - 1, rx)) = Lesser(m - 1, rx)
         /\ m - 1 < rx => Append(Fitting(b, m - 1, rx), b[m]) = Fitting(b, m, rx)
<1> DEFINE k == Lesser(m - 1, rx)
           t == SubSeq(b, 1, k)
           u == SubSeq(b, 1, m)
           v == Append(t, b[m])
<1>1. k \in 0 .. m - 1 /\ k \in 0 .. Len(b) /\ m \in 0 .. Len(b)
  BY DEF Lesser
<1>2. Fitting(b, m - 1, rx) = t
  BY DEF Fitting
<1> HIDE DEF k
<1>3. t \in Seq(S) /\ Len(t) = k /\ \A i \in 1 .. k : t[i] = b[i]
  BY <1>1, TakenLemma
<1>4. u \in Seq(S) /\ Len(u) = m /\ \A i \in 1 .. m : u[i] = b[i]
  BY <1>1, TakenLemma
<1> HIDE DEF t, u
<1>5. ASSUME m - 1 < rx
      PROVE  v = Fitting(b, m, rx)
  <2>1. k = m - 1 /\ Fitting(b, m, rx) = u
    BY <1>5 DEF k, Lesser, Fitting, u
  <2>2. b[m] \in S
    OBVIOUS
  <2>3. /\ v \in Seq(S) /\ Len(v) = k + 1 /\ v[k + 1] = b[m]
        /\ \A i \in 1 .. k : v[i] = t[i]
    BY <1>3, <2>2
  <2> HIDE DEF v
  <2>4. k + 1 = m /\ \A i \in 1 .. m : i \in 1 .. k \/ i = m
    BY <1>1, <2>1
  <2>5. \A i \in 1 .. m : v[i] = u[i]
    BY <1>3, <1>4, <2>3, <2>4
  <2>6. v = u
    BY <1>4, <2>3, <2>4, <2>5, SameSeq
  <2> QED
    BY <2>1, <2>6
<1> QED
  BY <1>2, <1>3, <1>5 DEF k

\* What a write that goes on has brought is stored.
LEMMA WriteRoutine ==
  ASSUME SlaveAssumption, ReadInv, ReadInv', CallInv, interrupt_service_routine,
         calm'.is, open, Current.dir = "write", NEW m, m = Len(Current.bytes)
  PROVE  /\ ~port.TDF /\ Started = <<>> /\ slave'.state # "transmitting"
         /\ Stored(m)'
<1> DEFINE f == Current
           rx == slave.rx_size
           d == Done
<1>1. /\ Types /\ port \in Ports /\ Typed(slave) /\ Log(slave) /\ Pending
      /\ ~port.BEF /\ Alike(Done, slave') /\ calm'.is = (InStep \/ calm.is)
      /\ SameBuffers(slave, Done) /\ open' = open
  BY RoutineFields
<1>2. ~port.TDF
  BY DEF ReadInv, PortFits
<1>3. frames # <<>> /\ Current' = f
  BY RoutineFrames
<1>4. rx \in Nat /\ d.rx_size = rx /\ slave'.rx_size = rx
  BY <1>1 DEF Typed, Slaves, Sizes, SlaveAssumption, SameBuffers, Alike
<1>5. m \in Nat
  BY <1>1, <1>3, CurrentLemma
<1>6. ~port.SDF => calm.is
  BY <1>1 DEF InStep
<1>7. /\ Arrived /\ (port.SDF => m = Len(port.SRDR))
      /\ ~port.SDF => Stored(m - Len(port.SRDR))
  BY <1>6 DEF CallInv, Arriving
<1>8. ~port.SDF => slave.state # "transmitting"
  BY <1>7 DEF Stored
<1>9. Started = <<>>
  BY <1>8 DEF Started
<1>10. slave'.state # "transmitting" =>
         (Stored(m)' <=> IF m = 0 \/ rx = 0 THEN d.state = "idle"
                       ELSE /\ d.state = "receiving"
                            /\ d.rx_bytes = Fitting(f.bytes, m, rx)
                            /\ d.error = Overflow(m, rx))
  BY <1>1, <1>3, <1>4 DEF Stored, Alike
<1>11. /\ port.SRDR = <<>> => d = Ending
       /\ port.SRDR # <<>> => StoredIn(Ending, d)
  BY <1>1, <1>2, RoutineCallsLemma
<1>12. /\ SameBuffers(slave, Ending) /\ SameBytes(slave, Ending)
       /\ Ending.state = StateDue /\ Ending.error = slave.error
  BY <1>1, EndingLemma
<1>13. Len(<<>>) = 0
  OBVIOUS
<1>14. CASE port.SRDR = <<>>
  <2>1. port.SDF
    BY <1>1, <1>2, <1>14 DEF Pending
  <2>2. m = 0 /\ d.state = "idle"
    BY <1>7, <1>11, <1>12, <1>13, <1>14, <2>1 DEF StateDue
  <2>3. slave'.state # "transmitting"
    BY <1>1, <2>2 DEF Alike
  <2> QED
    BY <1>2, <1>9, <1>10, <2>2, <2>3
<1>15. CASE port.SRDR # <<>>
  <2> DEFINE q == port.SRDR
             byte == q[1].DATA
  <2>1. Len(q) = 1 /\ m > 0 /\ byte = f.bytes[m] /\ (q[1].SOF <=> m = 1)
    <3>1. q \in {<<>>} \cup {<<r>> : r \in Received}
      BY <1>1 DEF Ports
    <3>2. Len(q) = 1
      <4> HIDE DEF q
      <4> QED
        BY <1>15, <3>1 DEF q
    <3> QED
      BY <1>7, <1>15, <3>2 DEF Arrived
  <2>2. /\ Ending.rx_size = rx /\ Ending.rx_bytes = slave.rx_bytes
    BY <1>12 DEF SameBuffers, SameBytes
  <2>3. IF rx = 0 THEN d.state = "idle"
        ELSE IF m = 1
        THEN d.state = "receiving" /\ d.rx_bytes = <<byte>> /\ d.error = "ok"
        ELSE /\ d.state = StateDue
             /\ IF Len(slave.rx_bytes) = rx
                THEN d.rx_bytes = slave.rx_bytes /\ d.error = "buffer_overflow"
                ELSE d.rx_bytes = Append(slave.rx_bytes, byte) /\ d.error = slave.error
    BY <1>11, <1>12, <1>15, <2>1, <2>2 DEF StoredIn
  <2>4. f.bytes \in Seq(BytesOf(f)) /\ m = Len(f.bytes)
    BY <1>1, <1>3, CurrentLemma
  <2> HIDE DEF q, byte, d, rx
  <2>5. CASE rx = 0
    BY <1>1, <1>2, <1>9, <1>10, <2>3, <2>5 DEF Alike, d
  <2>6. CASE rx # 0 /\ m = 1
    <3>1. d.state = "receiving" /\ d.rx_bytes = <<byte>> /\ d.error = "ok"
      BY <2>3, <2>6
    <3>2. Overflow(m, rx) = "ok" /\ Lesser(m, rx) = 1
      BY <1>4, <2>6 DEF Overflow, Lesser
    <3>3. SubSeq(f.bytes, 1, 1) = <<byte>>
      <4> DEFINE S == BytesOf(f)
                 b == f.bytes
      <4>1. b \in Seq(S) /\ Len(b) = 1 /\ byte = b[1]
        BY <2>1, <2>4, <2>6
      <4> HIDE DEF S, b
      <4>2. SubSeq(b, 1, 1) = <<byte>>
        BY <4>1, OneLemma
      <4> QED
        BY <4>2 DEF b
    <3>4. slave'.state # "transmitting"
      BY <1>1, <3>1 DEF Alike, d
    <3> QED
      <4>1. Fitting(f.bytes, m, rx) = <<byte>>
        BY <3>2, <3>3 DEF Fitting
      <4>2. ~(m = 0 \/ rx = 0)
        BY <2>6
      <4>3. d.rx_bytes = Fitting(f.bytes, m, rx) /\ d.error = Overflow(m, rx)
        BY <3>1, <3>2, <4>1
      <4> HIDE DEF f
      <4>4. Stored(m)'
        BY <1>10, <3>1, <3>4, <4>2, <4>3 DEF d, rx
      <4> QED
        BY <1>2, <1>9, <3>4, <4>4
  <2>7. CASE rx # 0 /\ m # 1
    <3>1. ~port.SDF
      BY <1>7, <2>1, <2>7 DEF q
    <3>2. Stored(m - 1) /\ m - 1 # 0 /\ m - 1 \in Nat
      BY <1>5, <1>7, <2>1, <2>7, <3>1 DEF q
    <3>3. /\ slave.state = "receiving" /\ slave.rx_bytes = Fitting(f.bytes, m - 1, rx)
          /\ slave.error = Overflow(m - 1, rx)
      BY <2>7, <3>2 DEF Stored, rx
    <3>4. d.state = "receiving"
      BY <2>3, <2>7, <3>1, <3>3 DEF StateDue
    <3>5. slave'.state # "transmitting"
      BY <1>1, <3>4 DEF Alike, d
    <3>6. /\ Len(Fitting(f.bytes, m - 1, rx)) = Lesser(m - 1, rx)
          /\ m - 1 < rx => Append(Fitting(f.bytes, m - 1, rx), byte)
                             = Fitting(f.bytes, m, rx)
      <4> DEFINE S == BytesOf(f)
                 b == f.bytes
      <4>1. b \in Seq(S) /\ Len(b) = m /\ byte = b[m] /\ m \in Nat /\ m > 0 /\ rx \in Nat
        BY <1>4, <1>5, <2>1, <2>4
      <4> HIDE DEF S, b
      <4>2. /\ Len(Fitting(b, m - 1, rx)) = Lesser(m - 1, rx)
            /\ m - 1 < rx => Append(Fitting(b, m - 1, rx), byte) = Fitting(b, m, rx)
        BY <4>1, FittingLemma
      <4> QED
        BY <4>2 DEF b
    <3>7. CASE m - 1 < rx
      <4>1. Lesser(m - 1, rx) # rx /\ Overflow(m - 1, rx) = "ok" /\ Overflow(m, rx) = "ok"
        BY <1>4, <1>5, <3>7 DEF Lesser, Overflow
      <4>2. d.rx_bytes = Fitting(f.bytes, m, rx) /\ d.error = Overflow(m, rx)
        BY <2>3, <2>7, <3>3, <3>6, <3>7, <4>1
      <4> QED
        BY <1>2, <1>9, <1>10, <2>1, <2>7, <3>4, <3>5, <4>2
    <3>8. CASE ~(m - 1 < rx)
      <4>1. Lesser(m - 1, rx) = rx /\ Lesser(m, rx) = rx /\ Overflow(m, rx) = "buffer_overflow"
        BY <1>4, <1>5, <3>8 DEF Lesser, Overflow
      <4>2. d.rx_bytes = Fitting(f.bytes, m, rx) /\ d.error = Overflow(m, rx)
        BY <2>3, <2>7, <3>3, <3>6, <4>1 DEF Fitting
      <4> QED
        BY <1>2, <1>9, <1>10, <2>1, <2>7, <3>4, <3>5, <4>2
    <3> QED
      BY <3>7, <3>8
  <2> QED
    BY <2>5, <2>6, <2>7
<1> QED
  BY <1>14, <1>15

\* What comes after the first of two sequences is the second.
LEMMA TailLemma ==
  ASSUME NEW S, NEW p \in Seq(S), NEW q \in Seq(S)
  PROVE  SubSeq(p \o q, Len(p) + 1, Len(p \o q)) = q
<1> DEFINE u == p \o q
           m == Len(p)
           n == Len(q)
           a == m + 1
           z == Len(u)
           t == SubSeq(u, a, z)
<1>1. /\ u \in Seq(S) /\ z = m + n /\ m \in Nat /\ n \in Nat
      /\ \A i \in 1 .. n : u[m + i] = q[i]
  BY ConcatLemma
<1> HIDE DEF u, m, n
<1>2. a = m + 1 /\ a \in Int /\ z \in Int /\ \A i \in a .. z : u[i] \in S
  BY <1>1
<1> HIDE DEF a, z
<1>3. /\ t \in Seq(S)
      /\ Len(t) = IF a <= z THEN z - a + 1 ELSE 0
      /\ \A i \in 1 .. z - a + 1 : t[i] = u[a + i - 1]
  BY <1>2, SubSeqProperties
<1> HIDE DEF t
<1>4. Len(t) = n
  BY <1>1, <1>2, <1>3
<1>5. \A i \in 1 .. n : i \in 1 .. z - a + 1 /\ a + i - 1 = m + i
  BY <1>1, <1>2
<1>6. \A i \in 1 .. n : t[i] = q[i]
  BY <1>1, <1>3, <1>5
<1>7. t = q
  BY <1>3, <1>4, <1>6, SameSeq DEF n
<1> QED
  BY <1>7 DEF t, u, m, a, z

\* The routine announces a read at its first request.
LEMMA BeginningLemma ==
  ASSUME SlaveAssumption, ReadInv, CallInv, interrupt_service_routine
  PROVE  /\ Beginning \in Seq(Callbacks) /\ Len(Beginning) \in 0 .. 1
         /\ Len(Beginning) = 1 => /\ port.TDF /\ StateDue = "idle"
                                  /\ Beginning[1].address = Called
                                  /\ Beginning[1].kind = "transmitting"
         /\ Telling(Beginning) = IF port.TDF /\ StateDue = "idle"
                                 THEN <<Announced>> ELSE <<>>
<1> DEFINE c == BeginCall(Called)
           q == <<c>>
<1>1. Called \in Addresses
  BY RoutineFields, EndingLemma
<1>2. c \in Callbacks /\ Told(c) = Announced
  BY <1>1, BeginCallLemma
<1>3. c.address = Called /\ c.kind = "transmitting"
  BY DEF BeginCall
<1>4. Beginning = IF port.TDF /\ StateDue = "idle" THEN q ELSE <<>>
  BY DEF Beginning
<1> HIDE DEF c
<1>5. q \in Seq(Callbacks) /\ Len(q) = 1 /\ q[1] = c
  BY <1>2
<1>6. <<>> \in Seq(Callbacks) /\ Len(<<>>) = 0 /\ Telling(<<>>) = <<>>
  BY NothingDue
<1>7. Telling(q) = <<Announced>>
  <2>1. Append(<<>>, c) = q
    OBVIOUS
  <2>2. Telling(Append(<<>>, c)) = Telling(<<>>) \o <<Told(c)>>
    BY <1>2, <1>6, TellingOne
  <2> DEFINE d == Announced
  <2>3. Telling(q) = <<>> \o <<d>>
    BY <1>2, <1>6, <2>1, <2>2
  <2> HIDE DEF d, q
  <2>4. <<>> \o <<d>> = <<d>>
    OBVIOUS
  <2> QED
    BY <2>3, <2>4 DEF d
<1> HIDE DEF q
<1> QED
  BY <1>3, <1>4, <1>5, <1>6, <1>7

\* The callbacks of the routine: the end of a frame, then the beginning of the
\* next.
LEMMA RoutineLog ==
  ASSUME SlaveAssumption, ReadInv, CallInv, interrupt_service_routine
  PROVE  /\ slave'.calls \in Seq(Callbacks)
         /\ calm'.is => slave'.calls = IF InStep THEN Beginning
                                       ELSE Ending.calls \o Beginning
<1> DEFINE d == Done.calls
           e == Ending.calls
           b == Beginning
           l == SubSeq(d, Len(e) + 1, Len(d))
<1>1. /\ port \in Ports /\ Typed(slave) /\ Log(slave)
      /\ calm'.is => ~port.BEF
      /\ port.TDF => port.SRDR = <<>>
      /\ InStep => slave'.calls = l /\ calm'.is
      /\ ~InStep => slave'.calls = d
  BY RoutineFields
<1>2. Log(Done) /\ (calm'.is => d = e \o b)
  BY <1>1, RoutineCallsLemma
<1>3. d \in Seq(Callbacks)
  BY <1>2 DEF Log
<1>4. e \in Seq(Callbacks)
  BY <1>1, EndingLemma DEF Log
<1>5. b \in Seq(Callbacks)
  BY BeginningLemma
<1> HIDE DEF d, e, b, l
<1>6. CASE InStep
  <2>1. d = e \o b
    BY <1>1, <1>2, <1>6
  <2>2. l = b
    BY <1>4, <1>5, <2>1, TailLemma DEF l
  <2> QED
    BY <1>1, <1>5, <1>6, <2>2 DEF b
<1>7. CASE ~InStep
  BY <1>1, <1>2, <1>3, <1>7 DEF b, e
<1> QED
  BY <1>6, <1>7

\* What was owed has been told, and a read that goes on is announced.
LEMMA RoutineOrder ==
  ASSUME SlaveAssumption, ReadInv, ReadInv', CallInv, interrupt_service_routine
  PROVE  InOrder'
<1> SUFFICES ASSUME calm'.is PROVE Telling(slave'.calls) \o Owed' = Due(EndedFrames') \o Started'
  BY DEF InOrder
<1> DEFINE b == Telling(Beginning)
           s == Started
           x == Announced
           ss == Started'
           p == Telling(slave.calls)
           o == Owed
           d == Due(EndedFrames)
<1>1. /\ Types /\ port \in Ports /\ Typed(slave) /\ Log(slave) /\ ~port'.SDF
      /\ open' = open /\ calm'.is = (InStep \/ calm.is) /\ (port.TDF => open)
      /\ EndedFrames' = IF InStep THEN <<>> ELSE EndedFrames
  BY RoutineFields, RoutineFrames
<1>2. Owed' = <<>>
  BY <1>1 DEF Owed
<1>3. /\ p \in Seq(Tells) /\ o \in Seq(Tells) /\ s \in Seq(Tells)
  BY <1>1, OwedLemma DEF CallInv
<1>4. d \in Seq(Tells)
  <2>1. EndedFrames \in Seq(Sent)
    BY <1>1, EndedLemma
  <2> QED
    BY <2>1, DueLemma
<1>5. Beginning \in Seq(Callbacks)
  BY BeginningLemma
<1>6. b \in Seq(Tells)
  BY <1>5, TellingLemma
<1>7. b = IF port.TDF /\ StateDue = "idle" THEN <<x>> ELSE <<>>
  BY BeginningLemma
<1>8. ss = IF open /\ slave'.state = "transmitting" THEN <<x>> ELSE <<>>
  BY <1>1 DEF Started
<1>9. s = IF ~port.SDF /\ open /\ slave.state = "transmitting" THEN <<x>> ELSE <<>>
  BY DEF Started
<1>10. open => Current.dir \in {"read", "write"}
  <2> DEFINE f == Current
  <2>1. open => f \in Frames
    BY <1>1, CurrentLemma DEF Types
  <2> HIDE DEF f
  <2>2. open => f.dir \in {"read", "write"}
    BY <2>1 DEF Frames
  <2> QED
    BY <2>2 DEF f
<1>11. ss \in Seq(Tells) /\ ss = s \o b
  <2>0. <<>> \in Seq(Tells) /\ <<>> \o <<>> = <<>> /\ <<>> \o b = b /\ s \o <<>> = s
    BY <1>3, <1>6
  <2>1. CASE ~open
    BY <1>1, <1>7, <1>8, <1>9, <2>0, <2>1
  <2>2. CASE open /\ Current.dir = "write"
    <3>1. ~port.TDF /\ s = <<>> /\ slave'.state # "transmitting"
      BY <2>2, WriteRoutine
    <3> QED
      BY <1>7, <1>8, <2>0, <3>1
  <2>3. CASE open /\ Current.dir = "read"
    <3>1. /\ port.TDF /\ slave'.state = "transmitting"
          /\ StateDue # "idle" => ~port.SDF /\ slave.state = "transmitting"
      BY <2>3, ReadRoutine
    <3>2. ss = <<x>>
      BY <1>8, <2>3, <3>1
    <3>3. CASE StateDue = "idle"
      <4>1. s = <<>>
        BY <1>9, <3>3 DEF StateDue
      <4>2. b = <<x>>
        BY <1>7, <3>1, <3>3
      <4> HIDE DEF s, b, ss, x
      <4> QED
        BY <1>6, <2>0, <3>2, <4>1, <4>2
    <3>4. CASE StateDue # "idle"
      <4>1. s = <<x>> /\ b = <<>>
        BY <1>7, <1>9, <2>3, <3>1, <3>4
      <4> HIDE DEF s, b, ss, x
      <4> QED
        BY <1>3, <2>0, <3>2, <4>1
    <3> QED
      BY <3>3, <3>4
  <2> QED
    BY <1>10, <2>1, <2>2, <2>3
<1>12. CASE InStep
  <2>1. slave'.calls = Beginning
    BY <1>12, RoutineLog
  <2>2. s = <<>>
    BY <1>9, <1>12 DEF InStep
  <2>3. Due(EndedFrames') = <<>>
    BY <1>1, <1>12, NothingDue
  <2>4. Telling(slave'.calls) = b
    BY <2>1
  <2> HIDE DEF b, s, ss
  <2>5. b \o <<>> = b /\ <<>> \o b = b /\ <<>> \o ss = ss
    BY <1>6, <1>11
  <2> QED
    BY <1>2, <1>11, <2>2, <2>3, <2>4, <2>5 DEF ss
<1>13. CASE ~InStep
  <2>1. slave'.calls = Ending.calls \o Beginning
    BY <1>13, RoutineLog
  <2>2. Ending.calls \in Seq(Callbacks) /\ Telling(Ending.calls) = p \o o
    <3> DEFINE l == slave.calls
    <3>1. /\ Ends \in Callbacks
          /\ Ending.calls = IF AtEnd THEN Append(l, Ends) ELSE l
          /\ o = IF AtEnd THEN <<Told(Ends)>> ELSE <<>>
          /\ Log(Ending)
      BY <1>1, EndingLemma
    <3>2. l \in Seq(Callbacks)
      BY <1>1 DEF Log
    <3>3. Telling(Append(l, Ends)) = Telling(l) \o <<Told(Ends)>>
      BY <3>1, <3>2, TellingOne
    <3>4. p = Telling(l)
      OBVIOUS
    <3> HIDE DEF l, p, o
    <3>5. p \o <<>> = p
      BY <1>3
    <3> QED
      BY <3>1, <3>3, <3>4, <3>5 DEF Log
  <2>3. Telling(slave'.calls) = (p \o o) \o b
    <3> DEFINE e == Ending.calls
               g == Beginning
    <3>1. e \in Seq(Callbacks) /\ g \in Seq(Callbacks)
      BY <1>5, <2>2
    <3> HIDE DEF e, g
    <3>2. Telling(e \o g) = Telling(e) \o Telling(g)
      BY <3>1, TellingLemma
    <3> QED
      BY <2>1, <2>2, <3>2 DEF e, g
  <2>4. p \o o = d \o s
    BY <1>1, <1>13 DEF CallInv, InOrder
  <2>5. Due(EndedFrames') = d
    BY <1>1, <1>13
  <2> HIDE DEF p, o, d, b, s, ss
  <2>6. (d \o s) \o b = d \o (s \o b)
    BY <1>3, <1>4, <1>6, JoinLemma
  <2>7. ((p \o o) \o b) \o <<>> = (p \o o) \o b
    <3>1. p \o o \in Seq(Tells)
      BY <1>3, ConcatLemma
    <3> DEFINE y == p \o o
    <3> HIDE DEF y
    <3>2. y \o b \in Seq(Tells)
      BY <1>6, <3>1, ConcatLemma DEF y
    <3> DEFINE z == y \o b
    <3> HIDE DEF z
    <3>3. z \o <<>> = z
      BY <3>2 DEF z
    <3> QED
      BY <3>3 DEF z, y
  <2> QED
    BY <1>2, <1>11, <2>3, <2>4, <2>5, <2>6, <2>7 DEF ss
<1> QED
  BY <1>12, <1>13

\* The owner of a callback is one of n frames.
LEMMA OwnerRange ==
  ASSUME SlaveAssumption, NEW e \in Seq(Sent), NEW n \in Nat, n > 0, Len(e) <= n,
         NEW k \in Nat, k > 0
  PROVE  OwnerIn(e, n, k) \in 1 .. n
<1> DEFINE o == Owners(e)
           l == Len(e)
<1>1. Len(o) \in Nat /\ l \in Nat /\ \A i \in 1 .. Len(o) : o[i] \in 1 .. l
  BY DueLemma
<1>2. OwnerIn(e, n, k) = IF k <= Len(o) THEN o[k] ELSE n
  BY DEF OwnerIn
<1>3. l <= n
  OBVIOUS
<1> HIDE DEF o, l
<1>4. CASE k <= Len(o)
  BY <1>1, <1>2, <1>3, <1>4
<1>5. CASE ~(k <= Len(o))
  BY <1>2, <1>5
<1> QED
  BY <1>4, <1>5

\* The callback at the end of a frame is that frame's.
LEMMA EndsFits ==
  ASSUME SlaveAssumption, ReadInv, CallInv, calm.is, AtEnd
  PROVE  Fits(frames, calm.begun, OwnerOf(Len(slave.calls) + 1), Ends)
<1> DEFINE n == Len(frames)
           o == Owners(EndedFrames)
           a == Len(slave.calls)
           i == OwnerOf(Len(slave.calls) + 1)
<1>1. Types /\ slave.state \in SlaveStates
  BY DEF ReadInv, Types, Slaves
<1>2. /\ n \in Nat /\ EndedFrames \in Seq(Sent)
      /\ \A j \in 1 .. Len(EndedFrames) : j \in 1 .. n
  BY <1>1, EndedLemma
<1>3. Len(o) \in Nat /\ \A j \in 1 .. Len(o) : o[j] \in 1 .. Len(EndedFrames)
  BY <1>2, DueLemma
<1>4. a + 1 = Len(o) /\ a \in Nat
  <2>1. Len(Owed) = 1 /\ a \in Nat
    BY <1>1, OwedLemma DEF CallInv
  <2>2. Started = <<>> /\ Len(<<>>) = 0
    BY DEF Started, AtEnd
  <2>3. a + Len(Owed) = Len(o) + Len(Started)
    BY <1>1, CountLemma DEF CallInv
  <2> HIDE DEF a, o
  <2> QED
    BY <1>3, <2>1, <2>2, <2>3
<1>5. i = o[a + 1]
  <2>1. i = IF a + 1 <= Len(o) THEN o[a + 1] ELSE n
    BY DEF OwnerOf, OwnerIn
  <2> HIDE DEF i, o, a, n
  <2> QED
    BY <1>3, <1>4, <2>1
<1> HIDE DEF n, o, a, i
<1>6. i \in 1 .. n
  BY <1>2, <1>3, <1>4, <1>5
<1>7. n > 0 /\ n \in i .. n
  BY <1>2, <1>6
<1>8. frames # <<>>
  <2>1. Len(<<>>) = 0
    OBVIOUS
  <2> QED
    BY <1>7, <2>1 DEF n
<1>9. Ends.address = frames[n].address
  <2>1. Called = Current.address
    BY <1>8 DEF CallInv, Addressed
  <2>2. Ends.address = Called
    BY DEF Ends, EndCall
  <2> QED
    BY <2>1, <2>2 DEF Current, n
<1>10. Ends.kind = "transmitted" => TrueOf(frames, calm.begun, i, Ends.error)
  <2>1. /\ Ends.kind = IF slave.state = "receiving" THEN "received" ELSE "transmitted"
        /\ Ends.error = slave.error
    BY DEF Ends, EndCall
  <2>2. Ends.kind = "transmitted" => slave.state = "transmitting"
    BY <1>1, <2>1 DEF AtEnd, SlaveStates
  <2> QED
    BY <2>1, <2>2 DEF CallInv, Owing, AtEnd, i
<1>11. \E j \in i .. Len(frames) : Ends.address = frames[j].address
  BY <1>7, <1>9 DEF n
<1> QED
  BY <1>6, <1>10, <1>11 DEF Fits, i, n

\* The callback at the first request is the last frame's.
LEMMA BeginningFits ==
  ASSUME SlaveAssumption, ReadInv, ReadInv', CallInv, interrupt_service_routine,
         calm'.is, Len(Beginning) = 1, NEW k \in Nat, k > 0
  PROVE  Fits(frames', calm'.begun, OwnerIn(EndedFrames', Len(frames'), k), Beginning[1])
<1> DEFINE n == Len(frames')
           c == Beginning[1]
           i == OwnerIn(EndedFrames', n, k)
<1>1. c.address = Called /\ c.kind = "transmitting" /\ port.TDF
  BY BeginningLemma
<1>2. open /\ open' /\ frames # <<>> /\ Current' = Current /\ Types'
  <2>1. open /\ open'
    <3>1. port.TDF
      BY <1>1
    <3>2. (port.TDF => open) /\ open' = open
      BY RoutineFields
    <3> QED
      BY <3>1, <3>2
  <2>2. frames # <<>> /\ Current' = Current
    BY <2>1, RoutineFrames
  <2>3. Types'
    BY DEF ReadInv
  <2> QED
    BY <2>1, <2>2, <2>3
<1>3. n \in Nat /\ n > 0 /\ EndedFrames' \in Seq(Sent) /\ Len(EndedFrames') = n - 1
  BY <1>2, EndedNext
<1> HIDE DEF n
<1>4. Len(EndedFrames') <= n
  BY <1>3
<1>5. i \in 1 .. n
  <2> DEFINE e == EndedFrames'
  <2>1. e \in Seq(Sent) /\ Len(e) <= n
    BY <1>3, <1>4
  <2> HIDE DEF e
  <2>2. OwnerIn(e, n, k) \in 1 .. n
    BY <1>3, <2>1, OwnerRange
  <2> QED
    BY <2>2 DEF e
<1> HIDE DEF i, c
<1>6. c.address = frames'[n].address
  <2>1. Called = Current.address
    BY <1>2 DEF CallInv, Addressed
  <2>2. frames'[n] = Current
    BY <1>2 DEF n, Current
  <2> QED
    BY <1>1, <2>1, <2>2 DEF c
<1>7. n \in i .. n
  BY <1>3, <1>5
<1>8. \E j \in i .. Len(frames') : c.address = frames'[j].address
  BY <1>6, <1>7 DEF n
<1>9. c.kind # "transmitted"
  BY <1>1 DEF c
<1> QED
  BY <1>5, <1>8, <1>9 DEF Fits, c, i, n

\* The callbacks of the routine are those their frames may have.
LEMMA RoutineFit ==
  ASSUME SlaveAssumption, ReadInv, ReadInv', CallInv, interrupt_service_routine
  PROVE  CallsFit'
<1> SUFFICES ASSUME calm'.is, NEW k \in 1 .. Len(slave'.calls)
             PROVE  Fits(frames', calm'.begun, OwnerIn(EndedFrames', Len(frames'), k),
                         slave'.calls[k])
  BY DEF CallsFit, OwnerOf
<1> DEFINE g == Beginning
           l == slave.calls
           e == Ending.calls
<1>1. /\ Types /\ port \in Ports /\ Typed(slave) /\ Log(slave)
      /\ calm'.is = (InStep \/ calm.is) /\ calm'.begun = calm.begun
      /\ ~InStep => frames' = frames /\ EndedFrames' = EndedFrames
  BY RoutineFields, RoutineFrames
<1>2. g \in Seq(Callbacks) /\ Len(g) \in 0 .. 1
  BY BeginningLemma
<1>3. slave'.calls = IF InStep THEN g ELSE e \o g
  BY RoutineLog
<1>4. l \in Seq(Callbacks) /\ Ends \in Callbacks
      /\ e = IF AtEnd THEN Append(l, Ends) ELSE l
  BY <1>1, EndingLemma DEF Log
<1>5. Len(g) = 1 => Fits(frames', calm'.begun, OwnerIn(EndedFrames', Len(frames'), k), g[1])
  <2>1. k \in Nat /\ k > 0
    OBVIOUS
  <2> QED
    BY <2>1, BeginningFits
<1> HIDE DEF g, e
<1>6. CASE InStep
  <2>1. k \in 1 .. Len(g) /\ slave'.calls[k] = g[k]
    BY <1>3, <1>6
  <2>2. k = 1 /\ Len(g) = 1
    BY <1>2, <2>1
  <2> QED
    BY <1>5, <2>1, <2>2
<1>7. CASE ~InStep
  <2> DEFINE a == Len(l)
             x == Ends
  <2>1. calm.is /\ slave'.calls = e \o g /\ frames' = frames /\ EndedFrames' = EndedFrames
        /\ calm'.begun = calm.begun
    BY <1>1, <1>3, <1>7
  <2>2. \A j \in 1 .. a : Fits(frames, calm.begun, OwnerIn(EndedFrames, Len(frames), j), l[j])
    BY <2>1 DEF CallInv, CallsFit, OwnerOf
  <2>3. AtEnd => Fits(frames, calm.begun, OwnerIn(EndedFrames, Len(frames), a + 1), x)
    BY <2>1, EndsFits DEF OwnerOf
  <2> HIDE DEF x, l
  <2>4. /\ e \in Seq(Callbacks) /\ a \in Nat
        /\ \A j \in 1 .. a : e[j] = l[j]
        /\ Len(e) = IF AtEnd THEN a + 1 ELSE a
        /\ AtEnd => e[a + 1] = x
    BY <1>4 DEF x
  <2>5. /\ Len(e \o g) = Len(e) + Len(g)
        /\ \A j \in 1 .. Len(e) : (e \o g)[j] = e[j]
        /\ \A j \in 1 .. Len(g) : (e \o g)[Len(e) + j] = g[j]
    <3>1. e \in Seq(Callbacks) /\ g \in Seq(Callbacks)
      BY <1>2, <2>4
    <3> QED
      BY <3>1, ConcatLemma
  <2>6. k \in 1 .. Len(e) + Len(g) /\ slave'.calls[k] = (e \o g)[k]
    <3> DEFINE c == slave'.calls
    <3>1. c = e \o g /\ k \in 1 .. Len(c)
      BY <2>1
    <3> HIDE DEF c
    <3> QED
      BY <2>5, <3>1 DEF c
  <2> DEFINE q == (e \o g)[k]
             m == Len(e)
             n == Len(g)
             F(c) == Fits(frames, calm.begun, OwnerIn(EndedFrames, Len(frames), k), c)
  <2>7. n = 1 => F(g[1])
    BY <1>5, <2>1
  <2>8. k \in 1 .. a => F(l[k])
    BY <2>2
  <2>9. AtEnd /\ k = a + 1 => F(x)
    BY <2>3
  <2>10. /\ k \in 1 .. m + n /\ m \in Nat /\ n \in 0 .. 1
         /\ k \in 1 .. m => q = e[k]
         /\ \A j \in 1 .. n : k = m + j => q = g[j]
    BY <1>2, <2>4, <2>5, <2>6
  <2> HIDE DEF q, F, a, m, n
  <2>11. F(q)
    <3>1. CASE k \in 1 .. a
      <4>1. k \in 1 .. m
        BY <2>4, <3>1 DEF m
      <4> QED
        BY <2>4, <2>8, <2>10, <3>1, <4>1
    <3>2. CASE AtEnd /\ k = a + 1
      <4>1. k \in 1 .. m
        BY <2>4, <3>2 DEF m
      <4> QED
        BY <2>4, <2>9, <2>10, <3>2, <4>1
    <3>3. CASE k \notin 1 .. a /\ ~(AtEnd /\ k = a + 1)
      <4>1. k = m + 1 /\ n = 1 /\ 1 \in 1 .. n
        BY <2>4, <2>10, <3>3 DEF m
      <4> QED
        BY <2>7, <2>10, <4>1
    <3> QED
      BY <3>1, <3>2, <3>3
  <2> QED
    BY <2>1, <2>6, <2>11 DEF F, q
<1> QED
  BY <1>6, <1>7

\* The address of a frame is the one found with it.
LEMMA RoutineAddressed ==
  ASSUME SlaveAssumption, ReadInv, ReadInv', CallInv, interrupt_service_routine
  PROVE  Addressed'
<1> SUFFICES ASSUME frames' # <<>>
             PROVE  Called' = Current'.address /\ ~port'.AVF
  BY DEF Addressed
<1>1. /\ ~port'.AVF /\ Alike(Done, slave')
      /\ port \in Ports /\ Typed(slave) /\ Log(slave)
  BY RoutineFields
<1>2. frames # <<>> /\ Current' = Current
  BY RoutineFrames
<1>3. Called = Current.address
  BY <1>2 DEF CallInv, Addressed
<1>4. Done.address_called = Called
  BY <1>1, RoutineCallsLemma
<1>5. Called' = slave'.address_called
  BY <1>1 DEF Called
<1>6. slave'.address_called = Called
  BY <1>1, <1>4 DEF Alike
<1> QED
  BY <1>1, <1>2, <1>3, <1>5, <1>6

\* What has arrived is stored.
LEMMA RoutineArriving ==
  ASSUME SlaveAssumption, ReadInv, ReadInv', CallInv, interrupt_service_routine
  PROVE  Arriving'
<1> SUFFICES ASSUME open', Current'.dir = "write"
             PROVE  /\ Arrived'
                    /\ port'.SDF => Len(Current'.bytes) = Len(port'.SRDR)
                    /\ calm'.is /\ ~port'.SDF => Stored(Len(Current.bytes) - Len(port.SRDR))'
  BY DEF Arriving
<1>1. /\ ~port'.SDF /\ port'.SRDR = <<>> /\ open' = open /\ Types
  BY RoutineFields
<1>2. Current' = Current
  BY <1>1, RoutineFrames
<1>3. Arrived'
  BY <1>1 DEF Arrived
<1>4. ASSUME calm'.is
      PROVE  Stored(Len(Current.bytes) - Len(port.SRDR))'
  <2>0. open /\ frames # <<>>
    BY <1>1 DEF Types
  <2>1. PICK m : m = Len(Current.bytes)
    OBVIOUS
  <2>2. m \in Nat
    BY <1>1, <2>0, <2>1, CurrentLemma
  <2>3. Stored(m)'
    BY <1>1, <1>2, <1>4, <2>1, WriteRoutine
  <2>4. (Len(Current.bytes) - Len(port.SRDR))' = m
    <3>1. Len(Current'.bytes) = m /\ Len(port'.SRDR) = 0
      BY <1>1, <1>2, <2>1
    <3> QED
      BY <2>2, <3>1
  <2> QED
    BY <2>3, <2>4 DEF Stored
<1> QED
  BY <1>1, <1>3, <1>4

\* The routine leaves the buffers.
LEMMA RoutineRx ==
  ASSUME SlaveAssumption, ReadInv, ReadInv', CallInv, interrupt_service_routine
  PROVE  RxKnown'
<1> SUFFICES ASSUME open', calm'.is \/ Len(frames') > 1
             PROVE  Current'.rx = slave'.rx_size
  BY DEF RxKnown
<1>1. /\ open /\ calm'.is = (InStep \/ calm.is)
      /\ Alike(Done, slave') /\ SameBuffers(slave, Done)
  BY RoutineFields
<1>2. /\ Current' = Current
      /\ InStep => Len(frames) > 1
      /\ ~InStep => Len(frames') = Len(frames)
  BY <1>1, RoutineFrames
<1>3. calm.is \/ Len(frames) > 1
  BY <1>1, <1>2
<1>4. Current.rx = slave.rx_size
  BY <1>1, <1>3 DEF CallInv, RxKnown
<1> QED
  BY <1>1, <1>2, <1>4 DEF Alike, SameBuffers

\* What is remembered after n bytes of a read have been asked for.
Recalled(n, tx, t, e) ==
  t = (n > tx) /\ e = IF n > tx + 1 THEN "buffer_underflow" ELSE "ok"

\* How a byte asked for, at the given index, changes what is remembered.
Recalls(index, tx, t, e, t2, e2) ==
  IF index < tx THEN t2 = t /\ e2 = e
  ELSE t2 = TRUE /\ e2 = IF t THEN "buffer_underflow" ELSE e

\* What is remembered, by how many bytes were asked for.
LEMMA RecalledLemma ==
  ASSUME NEW n \in Nat, NEW tx \in Nat
  PROVE  /\ Recalled(n, tx, TRUE, "buffer_underflow") <=> n > tx + 1
         /\ Recalled(n, tx, TRUE, "ok") <=> n > tx /\ ~(n > tx + 1)
         /\ Recalled(n, tx, FALSE, "ok") <=> ~(n > tx)
<1>1. (n > tx) \in BOOLEAN /\ (n > tx + 1 => n > tx)
  OBVIOUS
<1> DEFINE a == n > tx
           c == n > tx + 1
<1>2. a \in BOOLEAN /\ (c => a) /\ "buffer_underflow" # "ok"
  BY <1>1
<1>3. \A t, e : Recalled(n, tx, t, e) <=> t = a /\ e = IF c THEN "buffer_underflow" ELSE "ok"
  BY DEF Recalled
<1> HIDE DEF a, c
<1>4. /\ Recalled(n, tx, TRUE, "buffer_underflow") <=> c
      /\ Recalled(n, tx, TRUE, "ok") <=> a /\ ~c
      /\ Recalled(n, tx, FALSE, "ok") <=> ~a
  <2> DEFINE w == IF c THEN "buffer_underflow" ELSE "ok"
  <2>1. /\ Recalled(n, tx, TRUE, "buffer_underflow") <=> TRUE = a /\ "buffer_underflow" = w
        /\ Recalled(n, tx, TRUE, "ok") <=> TRUE = a /\ "ok" = w
        /\ Recalled(n, tx, FALSE, "ok") <=> FALSE = a /\ "ok" = w
    BY <1>3
  <2>2. (TRUE = a <=> a) /\ (FALSE = a <=> ~a)
    BY <1>2
  <2>3. ("buffer_underflow" = w <=> c) /\ ("ok" = w <=> ~c)
    BY <1>2
  <2> HIDE DEF w
  <2> QED
    BY <1>2, <2>1, <2>2, <2>3
<1> QED
  BY <1>4 DEF a, c

\* A byte asked for adds one to what is remembered.
LEMMA RecalledStep ==
  ASSUME NEW n \in Nat, NEW tx \in Nat, tx > 0, NEW index, NEW t, NEW e, NEW t2, NEW e2,
         index = Lesser(n, tx), Recalled(n, tx, t, e), Recalls(index, tx, t, e, t2, e2)
  PROVE  Recalled(n + 1, tx, t2, e2)
<1> DEFINE m == n + 1
<1>0. m \in Nat /\ m = n + 1
  OBVIOUS
<1> HIDE DEF m
<1>1. CASE n < tx
  <2>1. index < tx /\ ~(n > tx) /\ ~(n > tx + 1) /\ ~(m > tx)
    BY <1>0, <1>1 DEF Lesser
  <2>2. (n > tx) = FALSE
    BY <2>1
  <2>3. t = FALSE /\ e = "ok"
    BY <2>1, <2>2 DEF Recalled
  <2>4. t2 = FALSE /\ e2 = "ok"
    BY <2>1, <2>3 DEF Recalls
  <2>5. Recalled(m, tx, FALSE, "ok")
    BY <1>0, <2>1, RecalledLemma
  <2> QED
    BY <2>4, <2>5 DEF m
<1>2. CASE n = tx
  <2>1. ~(index < tx) /\ ~(n > tx) /\ ~(n > tx + 1) /\ m > tx /\ ~(m > tx + 1)
    BY <1>0, <1>2 DEF Lesser
  <2>2. (n > tx) = FALSE
    BY <2>1
  <2>3. t = FALSE /\ e = "ok"
    BY <2>1, <2>2 DEF Recalled
  <2>4. t2 = TRUE /\ e2 = "ok"
    BY <2>1, <2>3 DEF Recalls
  <2>5. Recalled(m, tx, TRUE, "ok")
    BY <1>0, <2>1, RecalledLemma
  <2> QED
    BY <2>4, <2>5 DEF m
<1>3. CASE n > tx
  <2>1. ~(index < tx) /\ n > tx /\ m > tx + 1
    BY <1>0, <1>3 DEF Lesser
  <2>2. (n > tx) = TRUE
    BY <2>1
  <2>3. t = TRUE
    BY <2>2 DEF Recalled
  <2>4. t2 = TRUE /\ e2 = "buffer_underflow"
    BY <2>1, <2>3 DEF Recalls
  <2>5. Recalled(m, tx, TRUE, "buffer_underflow")
    BY <1>0, <2>1, RecalledLemma
  <2> QED
    BY <2>4, <2>5 DEF m
<1> QED
  BY <1>1, <1>2, <1>3

\* Within a read the driver remembers what it was asked for.
LEMMA RoutineRemembers ==
  ASSUME SlaveAssumption, ReadInv, ReadInv', CallInv, interrupt_service_routine,
         calm'.is, open', Current'.dir = "read", slave'.tx_size > 0,
         Sure(frames', calm'.begun, Len(frames'))
  PROVE  Remembered(Asked)'
<1> DEFINE b == Len(Current.bytes)
           tx == slave.tx_size
           t == Done.trailing_byte_sent
           e == Done.error
<1>1. /\ Types /\ port \in Ports /\ Typed(slave) /\ Log(slave) /\ open
      /\ ~port'.TDF /\ calm'.begun = calm.begun
      /\ calm'.is = (InStep \/ calm.is)
      /\ Alike(Done, slave') /\ SameBuffers(slave, Done)
  BY RoutineFields
<1>2. /\ Current' = Current /\ frames # <<>>
      /\ InStep => Len(frames') = 1 /\ ~Sure(frames', calm'.begun, 1)
  BY <1>1, RoutineFrames
<1>3. ~InStep /\ calm.is /\ frames' = frames
  BY <1>1, <1>2, RoutineFields
<1>4. Sure(frames, calm.begun, Len(frames))
  BY <1>1, <1>3
<1>5. Current.dir = "read"
  BY <1>2
<1>6. b \in Nat
  BY <1>1, <1>2, CurrentLemma
<1>7. tx \in Nat /\ slave'.tx_size = tx /\ Done.tx_size = tx /\ tx > 0
  <2>1. tx \in Nat
    BY <1>1, NumbersLemma
  <2> QED
    BY <1>1, <2>1 DEF Alike, SameBuffers
<1>8. /\ port.TDF /\ Requested
      /\ StateDue = "idle" => b = 0
      /\ StateDue # "idle" =>
           /\ ~port.SDF /\ slave.state = "transmitting"
           /\ slave.tx_index = Lesser(b, tx)
  BY <1>1, <1>5, ReadRoutine
<1>9. Recalls(IndexDue, tx, Ending.trailing_byte_sent, ErrorDue, t, e)
  <2>1. Log(Done) /\ Typed(Done)
    BY <1>1, RoutineLemma, RoutineCallsLemma
  <2>2. t \in BOOLEAN
    BY <2>1 DEF Typed, Slaves
  <2> QED
    BY <1>7, <1>8, <2>2 DEF Requested, Recalls
<1>10. Ending.trailing_byte_sent =
          (slave.trailing_byte_sent /\ ~(port.SDF /\ slave.state = "transmitting"))
  BY <1>1, EndingLemma
<1>11. slave.trailing_byte_sent \in BOOLEAN
  BY <1>1 DEF Typed, Slaves
<1>12. Recalled(b + 1, tx, t, e) => Remembered(Asked)'
  <2>1. Asked' = b + 1
    BY <1>1, <1>2 DEF Asked
  <2>2. slave'.trailing_byte_sent = t /\ slave'.error = e /\ slave'.tx_size = tx
    BY <1>1, <1>7 DEF Alike
  <2>3. Recalled(Asked', slave'.tx_size, slave'.trailing_byte_sent, slave'.error)
          => Remembered(Asked)'
    BY DEF Remembered, Recalled
  <2> HIDE DEF t, e, tx, b
  <2> QED
    BY <2>1, <2>2, <2>3
<1>13. CASE StateDue = "idle"
  <2>1. b = 0 /\ IndexDue = 0 /\ ErrorDue = "ok"
    BY <1>8, <1>13 DEF IndexDue, ErrorDue
  <2>2. Ending.trailing_byte_sent = FALSE
    <3>1. CASE slave.state = "transmitting"
      <4>1. port.SDF
        BY <1>13, <3>1 DEF StateDue
      <4> QED
        BY <1>10, <3>1, <4>1
    <3>2. CASE slave.state # "transmitting"
      <4>1. Len(frames) = Len(EndedFrames) + 1
        <5> DEFINE n == Len(frames)
                   m == Len(EndedFrames)
        <5>1. n \in Nat /\ m = n - 1
          BY <1>1, EndedLemma
        <5> HIDE DEF n, m
        <5>2. n = m + 1
          BY <5>1
        <5> QED
          BY <5>2 DEF n, m
      <4>2. Sure(frames, calm.begun, Len(EndedFrames) + 1)
        BY <1>4, <4>1
      <4>3. ~slave.trailing_byte_sent
        BY <1>3, <3>2, <4>2 DEF CallInv, Trailing
      <4> QED
        BY <1>10, <4>3
    <3> QED
      BY <3>1, <3>2
  <2>3. t = FALSE /\ e = "ok"
    <3>1. IndexDue < tx
      BY <1>7, <2>1
    <3> QED
      BY <1>9, <2>1, <2>2, <3>1 DEF Recalls
  <2> HIDE DEF t, e, b, tx
  <2>4. Recalled(b + 1, tx, FALSE, "ok")
    <3> DEFINE m == b + 1
    <3>1. m \in Nat /\ ~(m > tx)
      BY <1>7, <2>1
    <3> HIDE DEF m
    <3>2. Recalled(m, tx, FALSE, "ok")
      BY <1>7, <3>1, RecalledLemma
    <3> QED
      BY <3>2 DEF m
  <2> QED
    BY <1>12, <2>3, <2>4
<1>14. CASE StateDue # "idle"
  <2>1. ~port.SDF /\ slave.state = "transmitting" /\ slave.tx_index = Lesser(b, tx)
    BY <1>8, <1>14
  <2>2. IndexDue = Lesser(b, tx) /\ ErrorDue = slave.error
    BY <1>14, <2>1 DEF IndexDue, ErrorDue
  <2>3. Asked = b
    BY <1>6, <1>8 DEF Asked
  <2>4. Remembered(Asked)
    BY <1>1, <1>3, <1>4, <1>5, <1>7, <2>1 DEF CallInv, Trailing
  <2> DEFINE u == slave.trailing_byte_sent
             x == slave.error
             i == IndexDue
  <2>5. Recalled(b, tx, u, x)
    BY <2>3, <2>4 DEF Remembered, Recalled
  <2>6. Ending.trailing_byte_sent = u
    BY <1>10, <1>11, <2>1
  <2> HIDE DEF b, tx, t, e, u, x, i
  <2>7. Recalls(i, tx, u, x, t, e)
    BY <1>9, <2>2, <2>6 DEF i, x
  <2>8. i = Lesser(b, tx)
    BY <2>2 DEF i
  <2>9. Recalled(b + 1, tx, t, e)
    BY <1>6, <1>7, <2>5, <2>7, <2>8, RecalledStep
  <2> QED
    BY <1>12, <2>9
<1> QED
  BY <1>13, <1>14

\* Outside a read nothing is remembered.
LEMMA RoutineForgets ==
  ASSUME SlaveAssumption, ReadInv, ReadInv', CallInv, interrupt_service_routine,
         calm'.is, slave'.state # "transmitting",
         Sure(frames', calm'.begun, Len(EndedFrames') + 1)
  PROVE  ~slave'.trailing_byte_sent
<1>1. /\ port \in Ports /\ Typed(slave) /\ Log(slave) /\ Pending
      /\ calm'.begun = calm.begun /\ calm'.is = (InStep \/ calm.is)
      /\ Alike(Done, slave') /\ ~port.BEF
      /\ port.TDF => open /\ Current.dir = "read"
      /\ port.SRDR # <<>> => open /\ Current.dir = "write"
      /\ ~InStep => frames' = frames
  BY RoutineFields
<1>2. ~InStep
  <2>1. SUFFICES ASSUME InStep PROVE FALSE
    OBVIOUS
  <2>2. EndedFrames' = <<>> /\ ~Sure(frames', calm'.begun, 1)
    BY <2>1, RoutineFrames
  <2>3. Len(EndedFrames') + 1 = 1
    BY <2>2
  <2> QED
    BY <2>2, <2>3
<1>3. calm.is /\ frames' = frames /\ EndedFrames' = EndedFrames
  BY <1>1, <1>2, RoutineFrames
<1>4. Sure(frames, calm.begun, Len(EndedFrames) + 1)
  BY <1>1, <1>3
<1>5. ~port.TDF
  BY <1>1, ReadRoutine
<1>6. /\ slave'.trailing_byte_sent = Ending.trailing_byte_sent
      /\ Ending.trailing_byte_sent =
           (slave.trailing_byte_sent /\ ~(port.SDF /\ slave.state = "transmitting"))
  BY <1>1, <1>5, RoutineCallsLemma, EndingLemma DEF Alike
<1>7. CASE slave.state # "transmitting"
  <2>1. ~slave.trailing_byte_sent
    BY <1>3, <1>4, <1>7 DEF CallInv, Trailing
  <2> QED
    BY <1>6, <2>1
<1>8. CASE slave.state = "transmitting"
  <2>1. port.SDF
    <3>1. SUFFICES ASSUME ~port.SDF PROVE FALSE
      OBVIOUS
    <3>2. port.SRDR # <<>> /\ open /\ Current.dir = "write"
      BY <1>1, <1>5, <3>1 DEF Pending
    <3>3. Stored(Len(Current.bytes) - Len(port.SRDR))
      BY <1>3, <3>1, <3>2 DEF CallInv, Arriving
    <3> QED
      BY <1>8, <3>3 DEF Stored
  <2> QED
    BY <1>6, <1>8, <2>1
<1> QED
  BY <1>7, <1>8

\* Without a frame nothing is asked for.
LEMMA RoutineFresh ==
  ASSUME SlaveAssumption, ReadInv, CallInv, interrupt_service_routine
  PROVE  Fresh'
<1> SUFFICES ASSUME calm'.begun = 0 PROVE ~slave'.trailing_byte_sent
  BY DEF Fresh
<1>1. /\ Types /\ port \in Ports /\ Typed(slave) /\ Log(slave)
      /\ calm'.begun = calm.begun /\ Alike(Done, slave') /\ (port.TDF => open)
  BY RoutineFields
<1>2. ~open
  <2> DEFINE n == Len(frames)
  <2>1. n \in Nat /\ n <= 0 /\ (open => n > 0)
    BY <1>1, EndedLemma DEF Types
  <2> HIDE DEF n
  <2> QED
    BY <2>1
<1>3. Done.trailing_byte_sent => slave.trailing_byte_sent
  BY <1>1, <1>2, RoutineCallsLemma
<1>4. ~slave.trailing_byte_sent
  BY <1>1 DEF CallInv, Fresh
<1> QED
  BY <1>1, <1>3, <1>4 DEF Alike

\* The interrupt service routine keeps CallInv.
LEMMA RoutineCalls ==
  ASSUME SlaveAssumption, ReadInv, ReadInv', CallInv, interrupt_service_routine
  PROVE  CallInv'
<1>1. ~port'.SDF /\ open' = open
  BY RoutineFields
<1>2. Logged'
  BY RoutineLog DEF Logged
<1>3. Owing'
  BY <1>1 DEF Owing
<1>4. Trailing'
  BY RoutineRemembers, RoutineForgets DEF Trailing
<1>5. Wanted'
  <2>1. open' => Current' = Current
    BY <1>1, RoutineFrames
  <2> QED
    BY <1>1, <2>1 DEF CallInv, Wanted
<1> QED
  BY <1>2, <1>3, <1>4, <1>5, RoutineOrder, RoutineArriving, RoutineRx,
     RoutineAddressed, RoutineFit, RoutineFresh DEF CallInv

\* Every step keeps CallInv.
LEMMA CallStep ==
  ASSUME SlaveAssumption, ReadInv, ReadInv', CallInv, [Next]_vars
  PROVE  CallInv'
<1>1. CASE Master
  BY <1>1, StartCalls, SendCalls, TakeCalls, EndCalls, BitErrorCalls DEF Master
<1>2. CASE interrupt_service_routine
  BY <1>2, RoutineCalls
<1>3. CASE Application
  BY <1>3, InitialiseCalls, ListenCalls, ResetCalls DEF Application
<1>4. CASE UNCHANGED vars
  <2>1. UNCHANGED <<frames, open, port, slave, calm>>
    BY <1>4 DEF vars
  <2>2. UNCHANGED <<Current, EndedFrames>>
    BY <2>1 DEF Current, EndedFrames
  <2>3. Logged' /\ Arriving' /\ RxKnown' /\ Addressed' /\ Fresh' /\ Wanted'
    BY <2>1, <2>2 DEF CallInv, Logged, Arriving, Arrived, Stored, RxKnown, Addressed,
                      Called, Fresh, Wanted
  <2>4. InOrder'
    BY <2>1, <2>2 DEF CallInv, InOrder, Owed, Started
  <2>5. CallsFit' /\ Owing'
    BY <2>1, <2>2 DEF CallInv, CallsFit, Owing, OwnerOf
  <2>6. Trailing'
    BY <2>1, <2>2 DEF CallInv, Trailing, Remembered, Asked
  <2> QED
    BY <2>3, <2>4, <2>5, <2>6 DEF CallInv
<1> QED
  BY <1>1, <1>2, <1>3, <1>4 DEF Next

\* CallInv holds throughout.
LEMMA CallInvariance == Spec => [](ReadInv /\ CallInv)
<1>1. Init => CallInv
  BY SlaveAssumption, CallInit
<1>2. ReadInv /\ ReadInv' /\ CallInv /\ [Next]_vars => CallInv'
  BY SlaveAssumption, CallStep
<1> QED
  BY <1>1, <1>2, ReadInvariance, PTL DEF Spec

-----------------------------------------------------------------------------
(* What the callbacks tell.                                                *)

\* What a sequence is continued with makes no difference to what it begins with.
LEMMA PrefixLemma ==
  ASSUME NEW S, NEW p \in Seq(S), NEW q \in Seq(S)
  PROVE  IsPrefix(p, p \o q)
<1> DEFINE u == p \o q
           n == Len(p)
           a == SubSeq(p, 1, n)
           b == SubSeq(u, 1, n)
<1>1. /\ u \in Seq(S) /\ Len(u) = n + Len(q) /\ n \in Nat /\ Len(q) \in Nat
      /\ \A i \in 1 .. n : u[i] = p[i]
  BY ConcatLemma
<1> HIDE DEF u
<1>2. n <= Len(u) /\ n \in 0 .. Len(u) /\ n \in 0 .. Len(p)
  BY <1>1
<1> HIDE DEF n
<1>3. a \in Seq(S) /\ Len(a) = n /\ \A i \in 1 .. n : a[i] = p[i]
  BY <1>2, TakenLemma
<1>4. b \in Seq(S) /\ Len(b) = n /\ \A i \in 1 .. n : b[i] = u[i]
  BY <1>1, <1>2, TakenLemma
<1> HIDE DEF a, b
<1>5. a = b
  BY <1>1, <1>3, <1>4, SameSeq
<1> QED
  BY <1>2, <1>5 DEF IsPrefix, a, b, n, u

\* The frame that goes on is announced only if it is a read, and no later than
\* the interrupt has been served.
LEMMA StartedLemma ==
  ASSUME SlaveAssumption, ReadInv, CallInv, calm.is
  PROVE  LET announced == IF open /\ Current.dir = "read" THEN <<Announced>> ELSE <<>>
         IN  /\ Started = <<>> \/ Started = announced
             /\ ~Pending => Started = announced /\ Owed = <<>>
<1>1. Types
  BY DEF ReadInv
<1>2. open => Current.dir \in {"read", "write"}
  <2> DEFINE f == Current
  <2>1. open => f \in Frames
    BY <1>1, CurrentLemma DEF Types
  <2> HIDE DEF f
  <2>2. open => f.dir \in {"read", "write"}
    BY <2>1 DEF Frames
  <2> QED
    BY <2>2 DEF f
<1>3. open /\ Current.dir = "write" /\ ~port.SDF => slave.state # "transmitting"
  BY DEF CallInv, Arriving, Stored
<1>4. open /\ Current.dir = "read" /\ ~Pending => slave.state = "transmitting"
  BY DEF ReadInv, Serving, Followed, Pending
<1>5. ~Pending => ~port.SDF
  BY DEF Pending
<1> QED
  BY <1>2, <1>3, <1>4, <1>5 DEF Started, Owed

\* The callbacks the slave makes are those of the frames that have ended, in
\* order, each once, and the announcement of a read that goes on; when no
\* interrupt is pending there is none left to make.
THEOREM EveryFrameIsTold == Spec => []CallbacksFollowFrames
<1>1. ReadInv /\ CallInv => CallbacksFollowFrames
  <2> SUFFICES ASSUME ReadInv, CallInv, calm.is
               PROVE  LET begun == IF open /\ Current.dir = "read"
                                   THEN <<CallsOf(Current)[1]>> ELSE <<>>
                          due == CallsOfAll(EndedFrames)
                      IN  /\ IsPrefix(Telling(slave.calls), Telling(due \o begun))
                          /\ ~Pending => Len(slave.calls) = Len(due \o begun)
    BY DEF CallbacksFollowFrames, Telling
  <2> DEFINE begun == IF open /\ Current.dir = "read"
                      THEN <<CallsOf(Current)[1]>> ELSE <<>>
             due == CallsOfAll(EndedFrames)
             t == Telling(slave.calls)
             o == Owed
             d == Telling(due)
             s == Started
             b == IF open /\ Current.dir = "read" THEN <<Announced>> ELSE <<>>
  <2>1. Types /\ Logged
    BY DEF ReadInv, CallInv
  <2>2. /\ t \in Seq(Tells) /\ Len(t) = Len(slave.calls)
        /\ o \in Seq(Tells) /\ s \in Seq(Tells)
    BY <2>1, SlaveAssumption, OwedLemma
  <2>3. EndedFrames \in Seq(Sent) /\ (open => Current \in Sent)
    BY <2>1, SlaveAssumption, EndedLemma
  <2>4. due \in Seq(Callbacks) /\ d \in Seq(Tells) /\ Len(d) = Len(due)
    <3>1. due \in Seq(Callbacks)
      BY <2>3, SlaveAssumption, FramesLemma
    <3> QED
      BY <3>1, TellingLemma
  <2>5. t \o o = d \o s
    BY DEF CallInv, InOrder, Due
  <2>6. s = <<>> \/ s = b
    BY SlaveAssumption, StartedLemma
  <2>7. ~Pending => s = b /\ o = <<>>
    BY SlaveAssumption, StartedLemma
  <2>8. begun \in Seq(Callbacks) /\ Telling(begun) = b
    <3>1. CASE open /\ Current.dir = "read"
      <4> DEFINE c == CallsOf(Current)
                 x == Announced
                 y == Confirmed
      <4>1. c \in Seq(Callbacks) /\ Telling(c) = <<x, y>>
        BY <2>3, <3>1, SlaveAssumption, CallsOfLemma
      <4> HIDE DEF c, x, y
      <4>2. Len(Telling(c)) = 2 /\ Telling(c)[1] = x
        BY <4>1
      <4>3. Len(c) = 2
        BY <4>1, <4>2, TellingLemma
      <4>4. c[1] \in Callbacks /\ 1 \in DOMAIN c
        BY <4>1, <4>3
      <4>5. Told(c[1]) = x
        BY <4>2, <4>4 DEF Telling
      <4> DEFINE q == <<c[1]>>
      <4>6. q \in Seq(Callbacks) /\ DOMAIN q = 1 .. 1 /\ q[1] = c[1]
            /\ \A i \in 1 .. 1 : i = 1
        BY <4>4
      <4>7. begun = q
        BY <3>1 DEF c
      <4> HIDE DEF q
      <4>8. Telling(q) = [i \in 1 .. 1 |-> x]
        BY <4>5, <4>6 DEF Telling
      <4>9. <<x>> = [i \in 1 .. 1 |-> x]
        OBVIOUS
      <4> QED
        BY <3>1, <4>6, <4>7, <4>8, <4>9 DEF x
    <3>2. CASE ~(open /\ Current.dir = "read")
      BY <3>2, NothingDue
    <3> QED
      BY <3>1, <3>2
  <2> HIDE DEF begun, due, t, o, s, b
  <2>9. /\ Telling(due \o begun) = d \o b /\ b \in Seq(Tells)
        /\ Len(due \o begun) = Len(due) + Len(begun) /\ Len(b) = Len(begun)
    BY <2>4, <2>8, TellingLemma
  <2> HIDE DEF d
  <2>10. IsPrefix(t, d \o b)
    <3>1. CASE s = b
      <4>1. IsPrefix(t, t \o o)
        BY <2>2, PrefixLemma
      <4> QED
        BY <2>5, <3>1, <4>1
    <3>2. CASE s = <<>>
      <4>1. d = t \o o
        BY <2>4, <2>5, <3>2
      <4>2. d \o b = t \o (o \o b)
        BY <2>2, <2>9, <4>1, JoinLemma
      <4>3. o \o b \in Seq(Tells)
        BY <2>2, <2>9, ConcatLemma
      <4> DEFINE r == o \o b
      <4> HIDE DEF r
      <4>4. IsPrefix(t, t \o r)
        BY <2>2, <4>3, PrefixLemma DEF r
      <4> QED
        BY <4>2, <4>4 DEF r
    <3> QED
      BY <2>6, <3>1, <3>2
  <2>11. ~Pending => Len(slave.calls) = Len(due \o begun)
    <3> SUFFICES ASSUME ~Pending PROVE Len(slave.calls) = Len(due \o begun)
      OBVIOUS
    <3>1. t = d \o b
      BY <2>2, <2>5, <2>7
    <3>2. Len(t) = Len(d) + Len(b)
      <4>1. d \in Seq(Tells) /\ b \in Seq(Tells)
        BY <2>4, <2>9
      <4>2. Len(d \o b) = Len(d) + Len(b)
        BY <4>1, ConcatLemma
      <4> QED
        BY <3>1, <4>2
    <3> QED
      BY <2>2, <2>4, <2>9, <3>2
  <2> QED
    BY <2>9, <2>10, <2>11 DEF begun, due, t
<1> QED
  BY <1>1, CallInvariance, PTL

\* Among the callbacks of the frames, OwnerOf is what Owners says.
LEMMA OwnedLemma ==
  ASSUME SlaveAssumption, Types, NEW k \in DOMAIN Owners(frames)
  PROVE  k \in Nat /\ k > 0 /\ OwnerOf(k) = Owners(frames)[k]
<1> DEFINE e == EndedFrames
           f == Current
           n == Len(frames)
           w == Owners(frames)
           o == Owners(e)
<1>1. frames \in Seq(Sent) /\ e \in Seq(Sent)
  BY EndedLemma
<1>2. w \in Seq(1 .. n) /\ k \in 1 .. Len(w)
  <2>1. w \in Seq(1 .. n)
    BY <1>1, DueLemma
  <2> HIDE DEF w, n
  <2>2. DOMAIN w = 1 .. Len(w)
    BY <2>1
  <2> QED
    BY <2>1, <2>2 DEF w
<1>3. OwnerOf(k) = IF k <= Len(o) THEN o[k] ELSE n
  BY DEF OwnerOf, OwnerIn
<1>4. k \in Nat /\ k > 0
  BY <1>2
<1>5. CASE ~open
  <2>1. e = frames
    BY <1>5, EndedLemma
  <2>2. o = w
    BY <2>1
  <2> HIDE DEF o, w
  <2>3. k <= Len(w)
    BY <1>2
  <2> QED
    BY <1>3, <1>4, <2>2, <2>3 DEF w
<1>6. CASE open
  <2>1. f \in Sent /\ frames = Append(e, f) /\ Len(e) = n - 1 /\ n \in Nat
    BY <1>6, EndedLemma
  <2> HIDE DEF e, f, n
  <2>2. w = o \o Own(f, Len(e) + 1)
    BY <1>1, <2>1, FramesAppend
  <2> DEFINE c == CallsOf(f)
             m == Len(e) + 1
             x == Own(f, m)
  <2>3. m = n
    BY <1>1, <2>1
  <2>4. c \in Seq(Callbacks)
    BY <2>1, CallsOfLemma
  <2>5. o \in Seq(Nat)
    <3> DEFINE l == Len(e)
    <3>1. o \in Seq(1 .. l) /\ l \in Nat
      BY <1>1, DueLemma
    <3> HIDE DEF o, l
    <3>2. \A i \in 1 .. l : i \in Nat
      BY <3>1
    <3> QED
      BY <3>1, <3>2
  <2> HIDE DEF c
  <2>6. x = [i \in DOMAIN c |-> n]
    BY <2>3 DEF Own, c
  <2> HIDE DEF m, x, o
  <2>7. x \in Seq(Nat) /\ Len(x) = Len(c) /\ \A i \in 1 .. Len(x) : x[i] = n
    BY <2>1, <2>4, <2>6
  <2>8. w = o \o x
    BY <2>2 DEF x, m
  <2>9. /\ Len(w) = Len(o) + Len(x) /\ Len(o) \in Nat /\ Len(x) \in Nat
        /\ \A i \in 1 .. Len(o) : w[i] = o[i]
        /\ \A i \in 1 .. Len(x) : w[Len(o) + i] = x[i]
    <3> DEFINE y == o \o x
    <3>1. o \in Seq(Nat) /\ x \in Seq(Nat)
      BY <2>5, <2>7
    <3>2. /\ Len(y) = Len(o) + Len(x)
          /\ \A i \in 1 .. Len(o) : y[i] = o[i]
          /\ \A i \in 1 .. Len(x) : y[Len(o) + i] = x[i]
      BY <3>1, ConcatLemma
    <3>3. Len(o) \in Nat /\ Len(x) \in Nat
      BY <3>1
    <3> HIDE DEF y
    <3> QED
      BY <2>8, <3>2, <3>3 DEF y
  <2> HIDE DEF w
  <2>10. CASE k <= Len(o)
    <3>1. k \in 1 .. Len(o)
      BY <1>4, <2>9, <2>10
    <3> QED
      BY <1>3, <1>4, <2>9, <2>10, <3>1 DEF w
  <2>11. CASE ~(k <= Len(o))
    <3>1. k - Len(o) \in 1 .. Len(x) /\ Len(o) + (k - Len(o)) = k
      BY <1>2, <1>4, <2>9, <2>11
    <3>2. w[k] = n
      BY <2>7, <2>9, <3>1
    <3> QED
      BY <1>3, <1>4, <2>11, <3>2 DEF w
  <2> QED
    BY <2>10, <2>11
<1> QED
  BY <1>5, <1>6

\* Each callback fits the frame that Owners gives it.
LEMMA CallsOwned ==
  ASSUME SlaveAssumption, ReadInv, CallInv, calm.is,
         NEW k \in DOMAIN slave.calls \cap DOMAIN Owners(frames)
  PROVE  Fits(frames, calm.begun, Owners(frames)[k], slave.calls[k])
<1>1. Types /\ slave.calls \in Seq(Callbacks)
  BY DEF ReadInv, CallInv, Logged
<1>2. k \in 1 .. Len(slave.calls)
  <2> DEFINE l == slave.calls
  <2>1. l \in Seq(Callbacks) /\ k \in DOMAIN l
    BY <1>1
  <2> HIDE DEF l
  <2>2. k \in 1 .. Len(l)
    BY <2>1
  <2> QED
    BY <2>2 DEF l
<1>3. OwnerOf(k) = Owners(frames)[k]
  BY <1>1, OwnedLemma
<1>4. Fits(frames, calm.begun, OwnerOf(k), slave.calls[k])
  BY <1>2 DEF CallInv, CallsFit
<1> QED
  BY <1>3, <1>4

\* No callback is given the address of a frame before its own.
THEOREM NoStaleAddress == Spec => []AddressNotStale
<1>1. ReadInv /\ CallInv => AddressNotStale
  <2> DEFINE w == Owners(frames)
  <2> SUFFICES ASSUME ReadInv, CallInv, calm.is,
                      NEW k \in DOMAIN slave.calls \cap DOMAIN w
               PROVE  slave.calls[k].address \in
                        {frames[j].address : j \in w[k] .. Len(frames)}
    BY DEF AddressNotStale
  <2>1. Fits(frames, calm.begun, w[k], slave.calls[k])
    BY SlaveAssumption, CallsOwned
  <2> HIDE DEF w
  <2> QED
    BY <2>1 DEF Fits
<1> QED
  BY <1>1, CallInvariance, PTL

\* The driver tells of an underflow when more than one byte was missing, and
\* only when one was.
THEOREM UnderflowIsTold == Spec => []UnderflowTold
<1>1. ReadInv /\ CallInv => UnderflowTold
  <2> DEFINE w == Owners(frames)
             sure(i) == /\ frames[i].tx > 0
                        /\ \/ calm.begun = Len(frames)
                           \/ \E j \in 1 .. i - 1 : frames[j].dir = "read"
             told(k) == slave.calls[k].error = "buffer_underflow"
  <2> SUFFICES ASSUME ReadInv, CallInv, calm.is,
                      NEW k \in DOMAIN slave.calls \cap DOMAIN w,
                      slave.calls[k].kind = "transmitted", sure(w[k])
               PROVE  /\ told(k) => frames[w[k]].length > frames[w[k]].tx
                      /\ frames[w[k]].length > frames[w[k]].tx + 1 => told(k)
    BY DEF UnderflowTold
  <2>1. Fits(frames, calm.begun, w[k], slave.calls[k])
    BY SlaveAssumption, CallsOwned
  <2> HIDE DEF w
  <2>2. TrueOf(frames, calm.begun, w[k], slave.calls[k].error)
    BY <2>1 DEF Fits
  <2>3. Sure(frames, calm.begun, w[k])
    BY DEF Sure
  <2>4. Good(slave.calls[k].error, frames[w[k]])
    BY <2>2, <2>3 DEF TrueOf
  <2> QED
    BY <2>4 DEF Good
<1> QED
  BY <1>1, CallInvariance, PTL

=============================================================================
