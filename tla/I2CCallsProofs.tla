--------------------------- MODULE I2CCallsProofs ---------------------------
(***************************************************************************)
(* Proofs about I2CCalls: whatever fails, times out or is late, the driver *)
(* and its FIFOs stay within their bounds, and what a slave takes in one   *)
(* frame is the buffer of one call, in order and from its first byte.      *)
(* While callers wait for the driver and interrupts are not late, no byte  *)
(* moves through the buffer of a call that has ended, a refused address is *)
(* told to the call that sent it, a read counts its own bytes, one that    *)
(* reports success returns all it asked for, from a frame of its own, and  *)
(* a write that reports success has had its bytes acknowledged.            *)
(***************************************************************************)
EXTENDS I2CCalls, TLAPS

Directions == {"read", "write"}
Buffers == Nat \X {"none", "in", "out"}
OutBytes == Buffers \X Nat
InBytes == Nat \X Nat

Commands == [op : {"START"}, dir : Directions, call : Nat]
              \cup [op : {"STOP"}] \cup [op : {"TRANSMIT"}, byte : OutBytes]
              \cup [op : {"RECEIVE"}, n : Nat \ {0}]

Drivers ==
  [state : States, error : Errors, ignore_tdf : BOOLEAN,
   stop_on_completion : BOOLEAN, buffer : Buffers, size : Nat,
   done : Seq(OutBytes \cup InBytes), MTDR : Seq(Commands), MRDR : Seq(InBytes),
   MSR : SUBSET (Failures \cup {"SDF"}), TDIE : BOOLEAN, MBF : BOOLEAN,
   command : {<<>>} \cup {<<c>> : c \in Commands}]

Frames == [call : Nat, ack : BOOLEAN, dir : Directions,
           bytes : Seq(OutBytes \cup InBytes)]

\* The failures that are told when a command is over.
Final == Failures \ {"PLTF"}

Doing1(s, op) == s.command # <<>> /\ s.command[1].op = op
Has(s, op) == \E j \in 1 .. Len(s.MTDR) : s.MTDR[j].op = op
Only(s, op) == \A j \in 1 .. Len(s.MTDR) : s.MTDR[j].op = op
First(s, op) == Len(s.MTDR) > 0 /\ s.MTDR[1].op = op

Bounded(s) ==
  /\ Len(s.done) <= s.size
  /\ Len(s.MTDR) <= NUM_FIFOS /\ Len(s.MRDR) <= NUM_FIFOS

\* How the FIFO, the driver's state and the status belong together.
Consistent(s) ==
  /\ \A j \in 2 .. Len(s.MTDR) : s.MTDR[j].op # "START"
  /\ First(s, "START") /\ ~s.ignore_tdf =>
       /\ Len(s.MTDR) = 1
       /\ s.MTDR[1].dir = "write" =>
            s.buffer = <<s.MTDR[1].call, "out">> /\ s.done = <<>>
  /\ s.ignore_tdf => ~Has(s, "TRANSMIT")
  /\ ~s.ignore_tdf => ~Has(s, "RECEIVE")
  /\ s.state = "stopping" => ~Has(s, "TRANSMIT")
  /\ s.MSR \cap Final # {} => s.command = <<>>
  /\ Doing1(s, "START") => s.MBF
  /\ "SDF" \in s.MSR /\ s.MBF /\ ~s.ignore_tdf => s.MTDR = <<>>

\* The bytes that are queued next are those of call k from the n-th on.
Follows(s, k, n) ==
  \A j \in 1 .. Len(s.MTDR) :
    (\A i \in 1 .. j : s.MTDR[i].op = "TRANSMIT") =>
      s.MTDR[j].byte = <<<<k, "out">>, n + j>>

\* So will be those that FillFifo adds to them.
Due(s, k, n) ==
  ~s.ignore_tdf /\ s.state = "transferring" /\ Only(s, "TRANSMIT") =>
    s.buffer = <<k, "out">> /\ Len(s.done) = n + Len(s.MTDR)

\* FillFifo begins with a buffer in any state.
Fresh(s, k, n) ==
  ~s.ignore_tdf /\ s.done = <<>> /\ Only(s, "TRANSMIT") =>
    s.buffer = <<k, "out">> /\ n + Len(s.MTDR) = 0

InWrite(s, fr) == s.MBF /\ fr # <<>> /\ fr[Len(fr)].ack /\ fr[Len(fr)].dir = "write"

\* A START is being sent: its frame will have what is queued behind it.
Starting(s) ==
  Doing1(s, "START") /\ s.command[1].dir = "write" =>
    LET k == s.command[1].call
    IN  Follows(s, k, 0) /\ Due(s, k, 0) /\ Fresh(s, k, 0)

\* A frame is being written: what is queued continues it.
Writing(s, fr) ==
  InWrite(s, fr) /\ (s.command = <<>> \/ Doing1(s, "TRANSMIT")) =>
    LET k == fr[Len(fr)].call
        n == Len(fr[Len(fr)].bytes)
        m == n + IF s.command = <<>> THEN 0 ELSE 1
    IN  /\ Doing1(s, "TRANSMIT") => s.command[1].byte = <<<<k, "out">>, n + 1>>
        /\ s.MSR \cap Final = {} => Follows(s, k, m) /\ Due(s, k, m)
        /\ Fresh(s, k, m)

\* A read went on when the START of a write was queued behind it.
Reading(s, fr) ==
  InWrite(s, fr) /\ Doing1(s, "RECEIVE") /\ ~s.ignore_tdf =>
    Len(s.MTDR) > 0 /\ s.MTDR[1].op # "TRANSMIT"

Queued(s, fr) == Starting(s) /\ Writing(s, fr) /\ Reading(s, fr)

DriverInv(s, fr) ==
  s \in Drivers /\ Bounded(s) /\ Consistent(s) /\ Queued(s, fr)

-----------------------------------------------------------------------------
(* What the parts of the driver do to its record.                          *)

LEMMA FunctionIsSeq ==
  ASSUME NEW S, NEW m \in Nat, NEW b \in [1 .. m -> S]
  PROVE  b \in Seq(S) /\ Len(b) = m
  OBVIOUS

LEMMA AppendLemma ==
  ASSUME NEW S, NEW q \in Seq(S), NEW e \in S
  PROVE  /\ Append(q, e) \in Seq(S) /\ Len(Append(q, e)) = Len(q) + 1
         /\ \A i \in 1 .. Len(q) : Append(q, e)[i] = q[i]
         /\ Append(q, e)[Len(q) + 1] = e
  OBVIOUS

LEMMA ShortLemma ==
  ASSUME NEW S, NEW a \in S, NEW e \in S
  PROVE  /\ <<a>> \in Seq(S) /\ Len(<<a>>) = 1 /\ <<a>>[1] = a
         /\ Append(<<a>>, e) \in Seq(S) /\ Len(Append(<<a>>, e)) = 2
         /\ Append(<<a>>, e)[1] = a /\ Append(<<a>>, e)[2] = e
<1> DEFINE q == <<a>>
<1>1. q \in Seq(S) /\ Len(q) = 1 /\ q[1] = a
  OBVIOUS
<1> HIDE DEF q
<1>2. /\ Append(q, e) \in Seq(S) /\ Len(Append(q, e)) = Len(q) + 1
      /\ \A i \in 1 .. Len(q) : Append(q, e)[i] = q[i]
      /\ Append(q, e)[Len(q) + 1] = e
  BY <1>1, AppendLemma
<1> QED BY <1>1, <1>2 DEF q

LEMMA StopLemma ==
  /\ STOP \in Commands /\ STOP.op = "STOP"
  /\ <<STOP>> \in Seq(Commands) /\ Len(<<STOP>>) = 1 /\ <<STOP>>[1] = STOP
  /\ <<>> \in Seq(Commands) /\ Len(<<>>) = 0
<1>1. STOP \in Commands /\ STOP.op = "STOP"
  BY DEF STOP, Commands
<1> QED BY <1>1

LEMMA AbortLemma ==
  ASSUME NEW s \in Drivers
  PROVE  LET a == abort_transaction_async(s)
         IN  /\ a \in Drivers
             /\ a.MTDR = IF s.MBF /\ "SDF" \notin s.MSR THEN <<STOP>> ELSE <<>>
             /\ a.MRDR = <<>>
             /\ a.state = s.state /\ a.ignore_tdf = s.ignore_tdf
             /\ a.buffer = s.buffer /\ a.size = s.size /\ a.done = s.done
             /\ a.MSR = s.MSR /\ a.MBF = s.MBF /\ a.command = s.command
<1> DEFINE m == IF s.MBF /\ "SDF" \notin s.MSR THEN <<STOP>> ELSE <<>>
           a == [s EXCEPT !.TDIE = FALSE, !.MRDR = <<>>, !.MTDR = m]
<1>1. m \in Seq(Commands)
  BY StopLemma
<1>2. <<>> \in Seq(InBytes)
  OBVIOUS
<1> HIDE DEF m
<1>3. a \in Drivers
  BY <1>1, <1>2 DEF Drivers
<1>4. /\ a.MTDR = m /\ a.MRDR = <<>>
      /\ a.state = s.state /\ a.ignore_tdf = s.ignore_tdf
      /\ a.buffer = s.buffer /\ a.size = s.size /\ a.done = s.done
      /\ a.MSR = s.MSR /\ a.MBF = s.MBF /\ a.command = s.command
  BY DEF Drivers
<1> QED BY <1>3, <1>4 DEF abort_transaction_async, m

-----------------------------------------------------------------------------
(* The invariant of the driver, as a step changes its record from s to t.  *)

\* The FIFO is emptied, and ends in a STOP if the bus is still the master's.
LEMMA Emptied ==
  ASSUME NEW s, NEW t \in Drivers, NEW fr, DriverInv(s, fr),
         t.MTDR = IF s.MBF /\ "SDF" \notin s.MSR THEN <<STOP>> ELSE <<>>,
         t.MRDR = <<>>, t.MBF = s.MBF, t.command = s.command,
         t.buffer = s.buffer, t.size = s.size, t.done = s.done,
         t.MSR \subseteq s.MSR, "SDF" \in s.MSR => "SDF" \in t.MSR,
         t.state # "transferring",
         "SDF" \in s.MSR => t.ignore_tdf = s.ignore_tdf
  PROVE  DriverInv(t, fr)
<1> USE MasterAssumption
<1>1. /\ s \in Drivers /\ Bounded(s) /\ Consistent(s) /\ Queued(s, fr)
  BY DEF DriverInv
<1>2. \/ /\ s.MBF /\ "SDF" \notin s.MSR
         /\ Len(t.MTDR) = 1 /\ t.MTDR[1].op = "STOP"
      \/ /\ ~(s.MBF /\ "SDF" \notin s.MSR) /\ Len(t.MTDR) = 0 /\ t.MTDR = <<>>
  BY StopLemma
<1>3. Len(t.MRDR) = 0
  OBVIOUS
<1>4. Bounded(t)
  BY <1>1, <1>2, <1>3 DEF Bounded
<1>5. Consistent(t)
  <2>1. t.MSR \cap Final # {} => t.command = <<>>
    BY <1>1 DEF Consistent
  <2>2. Doing1(t, "START") => t.MBF
    BY <1>1 DEF Consistent, Doing1
  <2>3. "SDF" \in t.MSR => t.MTDR = <<>> \/ ~t.MBF
    BY <1>2
  <2> QED BY <1>2, <2>1, <2>2, <2>3 DEF Consistent, Has, First
<1>6. \A k, n : Follows(t, k, n) /\ Due(t, k, n)
  BY <1>2 DEF Follows, Due
<1>7. ASSUME t.MBF, ~t.ignore_tdf, Only(t, "TRANSMIT")
      PROVE  ~s.ignore_tdf /\ s.MTDR = <<>> /\ Len(s.MTDR) = 0 /\ t.MTDR = <<>>
             /\ Only(s, "TRANSMIT")
  <2>1. t.MTDR = <<>> /\ "SDF" \in s.MSR
    BY <1>2, <1>7 DEF Only
  <2>2. s.MTDR = <<>> /\ ~s.ignore_tdf
    BY <1>1, <1>7, <2>1 DEF Consistent
  <2>3. Len(s.MTDR) = 0
    BY <2>2
  <2> QED BY <2>1, <2>2, <2>3 DEF Only
<1>8. \A k, n : t.MBF /\ Fresh(s, k, n) => Fresh(t, k, n)
  BY <1>7 DEF Fresh
<1>9. Doing1(t, "START") => s.MBF /\ Doing1(s, "START")
  BY <1>1 DEF Consistent, Doing1
<1>10. /\ InWrite(t, fr) <=> InWrite(s, fr)
       /\ \A op : Doing1(t, op) <=> Doing1(s, op)
       /\ InWrite(t, fr) => t.MBF
  BY DEF InWrite, Doing1
<1>11. Reading(t, fr)
  <2> SUFFICES ASSUME InWrite(t, fr), Doing1(t, "RECEIVE"), ~t.ignore_tdf
               PROVE  Len(t.MTDR) > 0 /\ t.MTDR[1].op # "TRANSMIT"
    BY DEF Reading
  <2>1. s.MBF /\ InWrite(s, fr) /\ Doing1(s, "RECEIVE")
    BY <1>10
  <2>2. CASE "SDF" \in s.MSR
    <3>1. s.MTDR = <<>> /\ ~s.ignore_tdf
      BY <1>1, <2>1, <2>2 DEF Consistent
    <3>2. Len(s.MTDR) > 0
      BY <1>1, <2>1, <3>1 DEF Queued, Reading
    <3> QED BY <3>1, <3>2
  <2>3. CASE "SDF" \notin s.MSR
    BY <1>2, <2>1, <2>3
  <2> QED BY <2>2, <2>3
<1>12. Starting(t)
  BY <1>1, <1>6, <1>8, <1>9, <1>10 DEF Queued, Starting
<1>13. Writing(t, fr)
  BY <1>1, <1>6, <1>8, <1>10 DEF Queued, Writing
<1> QED BY <1>1, <1>4, <1>5, <1>11, <1>12, <1>13 DEF DriverInv, Queued

\* The FIFO is left alone.
LEMMA Touched ==
  ASSUME NEW s, NEW t \in Drivers, NEW fr, DriverInv(s, fr), Bounded(t),
         t.MTDR = s.MTDR, t.MBF = s.MBF, t.command = s.command,
         t.ignore_tdf = s.ignore_tdf,
         ~s.ignore_tdf => t.buffer = s.buffer /\ t.done = s.done,
         "SDF" \in t.MSR => "SDF" \in s.MSR,
         \/ t.MSR \cap Final = s.MSR \cap Final
         \/ s.state = "stopping" /\ t.state = "stopping" /\ t.MSR \cap Final = {},
         t.state = "stopping" => ~Has(s, "TRANSMIT"),
         t.state = "transferring" => s.state = "transferring" \/ s.ignore_tdf
  PROVE  DriverInv(t, fr)
<1>1. /\ s \in Drivers /\ Consistent(s) /\ Queued(s, fr)
  BY DEF DriverInv
<1>2. /\ InWrite(t, fr) <=> InWrite(s, fr)
      /\ \A op : Doing1(t, op) <=> Doing1(s, op)
      /\ \A op : Has(t, op) <=> Has(s, op)
      /\ \A op : Only(t, op) <=> Only(s, op)
      /\ \A op : First(t, op) <=> First(s, op)
      /\ \A k, n : Follows(t, k, n) <=> Follows(s, k, n)
      /\ \A k, n : Fresh(s, k, n) => Fresh(t, k, n)
      /\ \A k, n : Due(s, k, n) => Due(t, k, n)
  BY DEF InWrite, Doing1, Has, Only, First, Follows, Fresh, Due
<1>3. Consistent(t)
  BY <1>1, <1>2 DEF Consistent
<1>4. Starting(t) /\ Reading(t, fr)
  BY <1>1, <1>2 DEF Queued, Starting, Reading
<1>5. s.state = "stopping" => \A k, n : Follows(s, k, n)
  <2> SUFFICES ASSUME s.state = "stopping", NEW k, NEW n, NEW j \in 1 .. Len(s.MTDR),
                      \A i \in 1 .. j : s.MTDR[i].op = "TRANSMIT"
               PROVE  FALSE
    BY DEF Follows
  <2>1. ~Has(s, "TRANSMIT")
    BY <1>1 DEF Consistent
  <2>2. s.MTDR[j].op = "TRANSMIT"
    OBVIOUS
  <2> QED BY <2>1, <2>2 DEF Has
<1>6. t.state = "stopping" => \A k, n : Due(t, k, n)
  BY DEF Due
<1>7. Writing(t, fr)
  BY <1>1, <1>2, <1>5, <1>6 DEF Queued, Writing
<1> QED BY <1>3, <1>4, <1>7 DEF DriverInv, Queued

\* A START is queued in the empty FIFO, and with it the commands of a read or
\* of a call without bytes, or a buffer is installed to be written.
LEMMA Started ==
  ASSUME NEW s, NEW t \in Drivers, NEW fr, DriverInv(s, fr), Bounded(t),
         t.MBF = s.MBF, t.command = s.command, t.MSR = {}, s.MSR = {},
         t.state = "starting",
         Len(t.MTDR) > 0, t.MTDR[1].op = "START",
         \A j \in 2 .. Len(t.MTDR) : t.MTDR[j].op \notin {"START", "TRANSMIT"},
         \/ t.ignore_tdf
         \/ /\ Len(t.MTDR) = 1 /\ t.MTDR[1].dir = "write"
            /\ t.buffer = <<t.MTDR[1].call, "out">> /\ t.done = <<>>
  PROVE  DriverInv(t, fr)
<1>1. /\ s \in Drivers /\ Consistent(s) /\ Queued(s, fr)
  BY DEF DriverInv
<1>2. Len(t.MTDR) \in Nat
  BY DEF Drivers
<1>3. \A j \in 1 .. Len(t.MTDR) : j = 1 \/ j \in 2 .. Len(t.MTDR)
  BY <1>2
<1>4. ~Has(t, "TRANSMIT")
  BY <1>3 DEF Has
<1>5. ~t.ignore_tdf => ~Has(t, "RECEIVE")
  BY <1>2 DEF Has
<1>6. \A op : Doing1(t, op) <=> Doing1(s, op)
  BY DEF Doing1
<1>7. t.MSR \cap Final = {} /\ "SDF" \notin t.MSR
  OBVIOUS
<1>8. Consistent(t)
  BY <1>1, <1>4, <1>5, <1>6, <1>7 DEF Consistent
<1>9. ~Only(t, "TRANSMIT") /\ 1 \in 1 .. Len(t.MTDR)
  BY <1>2 DEF Only
<1>10. \A k, n : Follows(t, k, n) /\ Due(t, k, n) /\ Fresh(t, k, n)
  <2>1. \A j \in 1 .. Len(t.MTDR) : 1 \in 1 .. j
    BY <1>2
  <2> QED BY <1>9, <2>1 DEF Follows, Due, Fresh
<1>11. InWrite(t, fr) <=> InWrite(s, fr)
  BY DEF InWrite
<1>12. Starting(t) /\ Reading(t, fr)
  BY <1>10 DEF Starting, Reading
<1>13. Writing(t, fr)
  BY <1>1, <1>6, <1>10, <1>11 DEF Queued, Writing
<1> QED BY <1>8, <1>12, <1>13 DEF DriverInv, Queued

\* FillFifo puts the next bytes of the buffer behind what is queued.
LEMMA FillLemma ==
  ASSUME NEW s \in Drivers, Bounded(s)
  PROVE  LET f == FillFifo(s)
             m == Len(f.MTDR) - Len(s.MTDR)
         IN  /\ f \in Drivers /\ Bounded(f) /\ m \in Nat
             /\ Len(f.MTDR) = Len(s.MTDR) + m
             /\ Len(f.done) = Len(s.done) + m
             /\ \A j \in 1 .. Len(s.MTDR) : f.MTDR[j] = s.MTDR[j]
             /\ \A j \in 1 .. m :
                  /\ f.MTDR[Len(s.MTDR) + j].op = "TRANSMIT"
                  /\ f.MTDR[Len(s.MTDR) + j].byte = <<s.buffer, Len(s.done) + j>>
             /\ m = 0 => Len(s.done) = s.size \/ Len(s.MTDR) = NUM_FIFOS
             /\ f.state = s.state /\ f.ignore_tdf = s.ignore_tdf
             /\ f.buffer = s.buffer /\ f.size = s.size /\ f.MRDR = s.MRDR
             /\ f.MSR = s.MSR /\ f.MBF = s.MBF /\ f.command = s.command
<1> USE MasterAssumption
<1> DEFINE room == NUM_FIFOS - Len(s.MTDR)
           left == s.size - Len(s.done)
           m == IF left < room THEN left ELSE room
           bytes == [i \in 1 .. m |-> <<s.buffer, Len(s.done) + i>>]
           new == [i \in 1 .. m |-> [op |-> "TRANSMIT",
                                     byte |-> <<s.buffer, Len(s.done) + i>>]]
           f == FillFifo(s)
<1>1. /\ s.buffer \in Buffers /\ s.size \in Nat
      /\ s.done \in Seq(OutBytes \cup InBytes) /\ s.MTDR \in Seq(Commands)
  BY DEF Drivers
<1>2. Len(s.done) \in Nat /\ Len(s.MTDR) \in Nat
  BY <1>1
<1>3. room \in Nat /\ left \in Nat
  BY <1>1, <1>2 DEF Bounded
<1>4. m \in Nat /\ Len(s.done) + m <= s.size /\ Len(s.MTDR) + m <= NUM_FIFOS
      /\ (m = 0 => Len(s.done) = s.size \/ Len(s.MTDR) = NUM_FIFOS)
  BY <1>1, <1>2, <1>3
<1> HIDE DEF room, left
<1>5. f = [s EXCEPT !.done = s.done \o bytes, !.MTDR = s.MTDR \o new]
  <2>1. DOMAIN bytes = 1 .. m
    OBVIOUS
  <2>2. [i \in DOMAIN bytes |-> [op |-> "TRANSMIT", byte |-> bytes[i]]] = new
    BY <2>1
  <2> QED BY <2>2 DEF FillFifo, room, left
<1> HIDE DEF m
<1>6. bytes \in Seq(OutBytes \cup InBytes) /\ Len(bytes) = m
  <2>1. \A i \in 1 .. m : <<s.buffer, Len(s.done) + i>> \in OutBytes \cup InBytes
    BY <1>1, <1>2, <1>4 DEF OutBytes
  <2>2. bytes \in [1 .. m -> OutBytes \cup InBytes]
    BY <2>1
  <2> QED BY <1>4, <2>2, FunctionIsSeq
<1>7. /\ new \in Seq(Commands) /\ Len(new) = m
      /\ \A i \in 1 .. m : new[i] = [op |-> "TRANSMIT",
                                   byte |-> <<s.buffer, Len(s.done) + i>>]
  <2>1. \A i \in 1 .. m : [op |-> "TRANSMIT", byte |-> <<s.buffer, Len(s.done) + i>>]
                          \in Commands
    BY <1>1, <1>2, <1>4 DEF OutBytes, Commands
  <2>2. new \in [1 .. m -> Commands]
    BY <2>1
  <2> QED BY <1>4, <2>2, FunctionIsSeq
<1> HIDE DEF bytes, new, f
<1>8. /\ s.done \o bytes \in Seq(OutBytes \cup InBytes)
      /\ Len(s.done \o bytes) = Len(s.done) + m
  BY <1>1, <1>6
<1>9. /\ s.MTDR \o new \in Seq(Commands)
      /\ Len(s.MTDR \o new) = Len(s.MTDR) + m
      /\ \A j \in 1 .. Len(s.MTDR) : (s.MTDR \o new)[j] = s.MTDR[j]
      /\ \A j \in 1 .. m : (s.MTDR \o new)[Len(s.MTDR) + j] = new[j]
  <2> DEFINE q == s.MTDR
             w == new
  <2>1. q \in Seq(Commands) /\ w \in Seq(Commands) /\ Len(w) = m
    BY <1>1, <1>7
  <2> HIDE DEF q, w
  <2>2. /\ q \o w \in Seq(Commands) /\ Len(q \o w) = Len(q) + Len(w)
        /\ \A j \in 1 .. Len(q) : (q \o w)[j] = q[j]
        /\ \A j \in 1 .. Len(w) : (q \o w)[Len(q) + j] = w[j]
    BY ONLY <2>1
  <2> QED BY ONLY <2>1, <2>2 DEF q, w
<1>10. /\ f \in Drivers /\ f.done = s.done \o bytes /\ f.MTDR = s.MTDR \o new
       /\ f.state = s.state /\ f.ignore_tdf = s.ignore_tdf
       /\ f.buffer = s.buffer /\ f.size = s.size /\ f.MRDR = s.MRDR
       /\ f.MSR = s.MSR /\ f.MBF = s.MBF /\ f.command = s.command
  <2>1. s.done \o bytes \in Seq(OutBytes \cup InBytes) /\ s.MTDR \o new \in Seq(Commands)
    BY <1>8, <1>9
  <2> DEFINE d == s.done \o bytes
             q == s.MTDR \o new
  <2>2. d \in Seq(OutBytes \cup InBytes) /\ q \in Seq(Commands)
        /\ f = [s EXCEPT !.done = d, !.MTDR = q]
    BY <1>5, <2>1
  <2> HIDE DEF d, q
  <2>3. /\ f \in Drivers /\ f.done = d /\ f.MTDR = q
        /\ f.state = s.state /\ f.ignore_tdf = s.ignore_tdf
        /\ f.buffer = s.buffer /\ f.size = s.size /\ f.MRDR = s.MRDR
        /\ f.MSR = s.MSR /\ f.MBF = s.MBF /\ f.command = s.command
    BY ONLY <2>2, s \in Drivers DEF Drivers
  <2> QED BY <2>3 DEF d, q
<1>11. Len(f.MTDR) - Len(s.MTDR) = m
  BY <1>2, <1>4, <1>9, <1>10
<1>12. \A j \in 1 .. m : new[j].op = "TRANSMIT"
                       /\ new[j].byte = <<s.buffer, Len(s.done) + j>>
  BY <1>7
<1>13. Bounded(f)
  BY <1>4, <1>8, <1>9, <1>10 DEF Bounded
<1>14. /\ Len(f.MTDR) = Len(s.MTDR) + m /\ Len(f.done) = Len(s.done) + m
       /\ \A j \in 1 .. Len(s.MTDR) : f.MTDR[j] = s.MTDR[j]
       /\ \A j \in 1 .. m :
             /\ f.MTDR[Len(s.MTDR) + j].op = "TRANSMIT"
             /\ f.MTDR[Len(s.MTDR) + j].byte = <<s.buffer, Len(s.done) + j>>
  BY <1>8, <1>9, <1>10, <1>12
<1> QED BY ONLY <1>4, <1>10, <1>11, <1>13, <1>14 DEF f

\* What is queued then continues what was queued, on the bus or begun.
LEMMA Filled ==
  ASSUME NEW s \in Drivers, NEW fr \in Seq(Frames), DriverInv(s, fr),
         ~s.ignore_tdf, "SDF" \notin s.MSR, s.MTDR = <<>> \/ s.MTDR = <<STOP>>,
         FirstByte(s).state = "transferring"
  PROVE  LET f == FillFifo(FirstByte(s))
         IN  f.state = "transferring" /\ f \in Drivers /\ DriverInv(f, fr)
             /\ ~f.ignore_tdf /\ "SDF" \notin f.MSR
<1> DEFINE b == FirstByte(s)
           f == FillFifo(b)
           m == Len(f.MTDR) - Len(s.MTDR)
<1>1. Bounded(s) /\ Consistent(s) /\ Queued(s, fr)
  BY DEF DriverInv
<1>2. /\ b \in Drivers /\ b.MTDR = s.MTDR /\ b.done = s.done /\ b.size = s.size
      /\ b.MRDR = s.MRDR /\ b.buffer = s.buffer /\ b.ignore_tdf = s.ignore_tdf
      /\ b.MSR = s.MSR /\ b.MBF = s.MBF /\ b.command = s.command
      /\ s.done # <<>> => s.state = "transferring"
  <2>1. CASE s.done = <<>>
    <3>1. b = [s EXCEPT !.error = "ok", !.state = "transferring"]
      BY <2>1 DEF FirstByte
    <3>2. "ok" \in Errors /\ "transferring" \in States
      BY DEF Errors, States, BusyStates
    <3> HIDE DEF b
    <3> QED BY <2>1, <3>1, <3>2 DEF Drivers
  <2>2. CASE s.done # <<>>
    BY <2>2 DEF FirstByte
  <2> QED BY <2>1, <2>2
<1>3. Bounded(b)
  BY <1>1, <1>2 DEF Bounded
<1> HIDE DEF b
<1>4. /\ f \in Drivers /\ Bounded(f) /\ m \in Nat
      /\ Len(f.MTDR) = Len(s.MTDR) + m
      /\ Len(f.done) = Len(s.done) + m
      /\ \A j \in 1 .. Len(s.MTDR) : f.MTDR[j] = s.MTDR[j]
      /\ \A j \in 1 .. m :
           /\ f.MTDR[Len(s.MTDR) + j].op = "TRANSMIT"
           /\ f.MTDR[Len(s.MTDR) + j].byte = <<s.buffer, Len(s.done) + j>>
      /\ f.state = "transferring" /\ f.ignore_tdf = s.ignore_tdf
      /\ f.buffer = s.buffer /\ f.size = s.size /\ f.MRDR = s.MRDR
      /\ f.MSR = s.MSR /\ f.MBF = s.MBF /\ f.command = s.command
  <2>1. LET g == FillFifo(b)
            l == Len(g.MTDR) - Len(b.MTDR)
        IN  /\ g \in Drivers /\ Bounded(g) /\ l \in Nat
            /\ Len(g.MTDR) = Len(b.MTDR) + l
            /\ Len(g.done) = Len(b.done) + l
            /\ \A j \in 1 .. Len(b.MTDR) : g.MTDR[j] = b.MTDR[j]
            /\ \A j \in 1 .. l :
                 /\ g.MTDR[Len(b.MTDR) + j].op = "TRANSMIT"
                 /\ g.MTDR[Len(b.MTDR) + j].byte = <<b.buffer, Len(b.done) + j>>
            /\ g.state = b.state /\ g.ignore_tdf = b.ignore_tdf
            /\ g.buffer = b.buffer /\ g.size = b.size /\ g.MRDR = b.MRDR
            /\ g.MSR = b.MSR /\ g.MBF = b.MBF /\ g.command = b.command
    BY <1>2, <1>3, FillLemma
  <2>2. b.state = "transferring"
    BY DEF b
  <2> QED BY ONLY <1>2, <2>1, <2>2 DEF f
<1> HIDE DEF f, m
<1>5. /\ Len(s.done) \in Nat /\ Len(f.MTDR) \in Nat /\ f.done \in Seq(OutBytes \cup InBytes)
      /\ s.done \in Seq(OutBytes \cup InBytes)
  BY <1>4 DEF Drivers
<1>6. /\ f.MSR \cap Final = s.MSR \cap Final
      /\ InWrite(f, fr) <=> InWrite(s, fr)
      /\ \A op : Doing1(f, op) <=> Doing1(s, op)
  BY <1>4 DEF InWrite, Doing1
<1>7. \A j \in 1 .. Len(f.MTDR) : f.MTDR[j].op \in {"STOP", "TRANSMIT"}
  <2>1. CASE s.MTDR = <<>>
    <3>1. Len(s.MTDR) = 0
      BY <2>1
    <3>2. Len(f.MTDR) = m
      BY <1>4, <3>1
    <3> QED BY <1>4, <3>1, <3>2
  <2>2. CASE s.MTDR = <<STOP>>
    <3>1. Len(s.MTDR) = 1 /\ s.MTDR[1].op = "STOP"
      BY <2>2, StopLemma
    <3>2. TAKE j \in 1 .. Len(f.MTDR)
    <3>3. CASE j = 1
      BY <1>4, <3>1, <3>3
    <3>4. CASE j # 1
      <4> DEFINE i == j - 1
      <4>1. i \in 1 .. m /\ j = Len(s.MTDR) + i
        BY <1>4, <3>1, <3>4
      <4> HIDE DEF i
      <4>2. f.MTDR[Len(s.MTDR) + i].op = "TRANSMIT"
        BY <1>4, <4>1
      <4> QED BY <4>1, <4>2
    <3> QED BY <3>3, <3>4
  <2> QED BY <2>1, <2>2
<1>8. ~Has(f, "START") /\ ~Has(f, "RECEIVE")
  BY <1>7 DEF Has
<1>9. Consistent(f)
  <2>1. /\ \A j \in 2 .. Len(f.MTDR) : f.MTDR[j].op # "START"
        /\ ~First(f, "START")
    BY <1>5, <1>8 DEF Has, First
  <2> QED BY <1>1, <1>4, <1>6, <1>8, <2>1 DEF Consistent
<1>10. CASE s.MTDR = <<STOP>>
  <2>1. Len(s.MTDR) = 1 /\ s.MTDR[1].op = "STOP"
    BY <1>10, StopLemma
  <2>2. Len(f.MTDR) > 0 /\ f.MTDR[1].op = "STOP" /\ 1 \in 1 .. Len(f.MTDR)
    BY <1>4, <2>1
  <2>3. \A j \in 1 .. Len(f.MTDR) : 1 \in 1 .. j
    BY <1>5
  <2>4. \A k, n : Follows(f, k, n) /\ Due(f, k, n) /\ Fresh(f, k, n)
    BY <2>2, <2>3 DEF Follows, Due, Fresh, Only
  <2>5. Starting(f) /\ Reading(f, fr)
    BY <2>2, <2>4 DEF Starting, Reading
  <2>6. Writing(f, fr)
    BY <1>1, <1>4, <1>6, <2>4 DEF Queued, Writing
  <2> QED BY <1>4, <1>9, <2>5, <2>6 DEF DriverInv, Queued, f, b
<1>11. CASE s.MTDR = <<>>
  <2>1. Len(s.MTDR) = 0 /\ Only(s, "TRANSMIT")
    BY <1>11 DEF Only
  <2>2. /\ Len(f.MTDR) = m
        /\ \A j \in 1 .. m : f.MTDR[j].byte = <<s.buffer, Len(s.done) + j>>
    BY <1>4, <2>1
  <2>3. ASSUME NEW k, NEW n \in Nat, s.buffer = <<k, "out">>, Len(s.done) = n
        PROVE  Follows(f, k, n) /\ Due(f, k, n) /\ Fresh(f, k, n)
    <3>1. Follows(f, k, n)
      BY <2>2, <2>3 DEF Follows
    <3>2. Due(f, k, n)
      BY <1>4, <2>2, <2>3 DEF Due
    <3>3. Fresh(f, k, n)
      <4>1. f.done = <<>> => n + m = 0
        BY <1>4, <1>5, <2>3
      <4> QED BY <1>4, <2>2, <2>3, <4>1 DEF Fresh
    <3> QED BY <3>1, <3>2, <3>3
  <2>4. ASSUME NEW k, NEW n \in Nat, Fresh(s, k, n)
        PROVE  Fresh(f, k, n)
    <3>1. CASE s.done = <<>>
      <4>1. s.buffer = <<k, "out">> /\ n + Len(s.MTDR) = 0
        BY <2>1, <2>4, <3>1 DEF Fresh
      <4>2. Len(s.done) = n
        BY <2>1, <3>1, <4>1
      <4> QED BY <2>3, <4>1, <4>2
    <3>2. CASE s.done # <<>>
      <4>1. Len(s.done) > 0
        BY <1>5, <3>2
      <4>2. Len(f.done) > 0
        BY <1>4, <1>5, <4>1
      <4>3. f.done # <<>>
        BY <4>2
      <4> QED BY <4>3 DEF Fresh
    <3> QED BY <3>1, <3>2
  <2>5. ASSUME NEW k, NEW n \in Nat, Fresh(s, k, n), Due(s, k, n)
        PROVE  Follows(f, k, n) /\ Due(f, k, n)
    <3>1. CASE s.done = <<>>
      <4>1. s.buffer = <<k, "out">> /\ n + Len(s.MTDR) = 0
        BY <2>1, <2>5, <3>1 DEF Fresh
      <4>2. Len(s.done) = n
        BY <2>1, <3>1, <4>1
      <4> QED BY <2>3, <4>1, <4>2
    <3>2. CASE s.done # <<>>
      <4>1. s.buffer = <<k, "out">> /\ Len(s.done) = n + Len(s.MTDR)
        BY <1>2, <2>1, <2>5, <3>2 DEF Due
      <4>2. Len(s.done) = n
        BY <2>1, <4>1
      <4> QED BY <2>3, <4>1, <4>2
    <3> QED BY <3>1, <3>2
  <2>6. Starting(f)
    BY <1>1, <1>4, <1>6, <2>4, <2>5 DEF Queued, Starting
  <2>7. Reading(f, fr)
    BY <1>1, <1>6, <2>1 DEF Queued, Reading
  <2>8. Writing(f, fr)
    <3> SUFFICES ASSUME InWrite(f, fr), f.command = <<>> \/ Doing1(f, "TRANSMIT")
                 PROVE  Writing(f, fr)
      BY DEF Writing
    <3> DEFINE k == fr[Len(fr)].call
               l == Len(fr[Len(fr)].bytes)
               n == l + IF s.command = <<>> THEN 0 ELSE 1
    <3>1. /\ Doing1(s, "TRANSMIT") => s.command[1].byte = <<<<k, "out">>, l + 1>>
          /\ s.MSR \cap Final = {} => Follows(s, k, n) /\ Due(s, k, n)
          /\ Fresh(s, k, n)
      BY <1>1, <1>4, <1>6 DEF Queued, Writing
    <3>2. n \in Nat
      <4>1. fr[Len(fr)] \in Frames
        BY <1>6 DEF InWrite
      <4>2. l \in Nat
        BY <4>1 DEF Frames
      <4> HIDE DEF l
      <4>3. n = l \/ n = l + 1
        BY <4>2
      <4> QED BY <4>2, <4>3
    <3> HIDE DEF k, n
    <3>3. /\ s.MSR \cap Final = {} => Follows(f, k, n) /\ Due(f, k, n)
          /\ Fresh(f, k, n)
      BY <2>4, <2>5, <3>1, <3>2
    <3> QED BY <1>4, <1>6, <3>1, <3>3 DEF Writing, k, n
  <2> QED BY <1>4, <1>9, <2>6, <2>7, <2>8 DEF DriverInv, Queued, f, b
<1> QED BY <1>4, <1>10, <1>11 DEF f, b

LEMMA Ended ==
  ASSUME NEW s \in Drivers, NEW fr, DriverInv(s, fr), ~s.ignore_tdf,
         "SDF" \notin s.MSR, s.state = "transferring"
  PROVE  EndOfWrite(s) \in Drivers /\ DriverInv(EndOfWrite(s), fr)
<1> USE MasterAssumption
<1> DEFINE e == EndOfWrite(s)
<1>1. Bounded(s) /\ Consistent(s) /\ Queued(s, fr)
  BY DEF DriverInv
<1>2. {"stopping", "transfer_complete"} \subseteq States
  BY DEF States, BusyStates
<1>3. CASE Len(s.done) # s.size \/ s.MTDR # <<>>
  BY <1>3 DEF EndOfWrite
<1>4. CASE Len(s.done) = s.size /\ s.MTDR = <<>> /\ ~s.stop_on_completion
  <2> DEFINE t == [s EXCEPT !.TDIE = FALSE, !.state = "transfer_complete"]
  <2>1. /\ t \in Drivers /\ t.MTDR = s.MTDR /\ t.MBF = s.MBF /\ t.command = s.command
        /\ t.ignore_tdf = s.ignore_tdf /\ t.buffer = s.buffer /\ t.done = s.done
        /\ t.MSR = s.MSR /\ t.state = "transfer_complete" /\ t.size = s.size
        /\ t.MRDR = s.MRDR
    BY <1>2 DEF Drivers
  <2> HIDE DEF t
  <2>2. Bounded(t)
    BY <1>1, <2>1 DEF Bounded
  <2>3. DriverInv(t, fr)
    BY <2>1, <2>2, Touched
  <2> QED BY <1>4, <2>1, <2>3 DEF EndOfWrite, t
<1>5. CASE Len(s.done) = s.size /\ s.MTDR = <<>> /\ s.stop_on_completion
  <2> DEFINE t == [s EXCEPT !.TDIE = FALSE, !.state = "stopping", !.MTDR = <<STOP>>]
  <2>1. /\ t \in Drivers /\ t.MTDR = <<STOP>> /\ t.MBF = s.MBF /\ t.command = s.command
        /\ t.ignore_tdf = s.ignore_tdf /\ t.buffer = s.buffer /\ t.done = s.done
        /\ t.MSR = s.MSR /\ t.state = "stopping" /\ t.size = s.size
        /\ t.MRDR = s.MRDR
    BY <1>2, StopLemma DEF Drivers
  <2> HIDE DEF t
  <2>2. Len(t.MTDR) = 1 /\ t.MTDR[1].op = "STOP"
    BY <2>1, StopLemma
  <2>3. Bounded(t)
    BY <1>1, <2>1, <2>2 DEF Bounded
  <2>4. \A op : Doing1(t, op) <=> Doing1(s, op)
    BY <2>1 DEF Doing1
  <2>5. Consistent(t)
    BY <1>1, <2>1, <2>2, <2>4 DEF Consistent, Has, First
  <2>6. \A k, n : Follows(t, k, n) /\ Due(t, k, n) /\ Fresh(t, k, n)
    BY <2>2 DEF Follows, Due, Fresh, Only
  <2>7. Starting(t) /\ Reading(t, fr)
    BY <2>2, <2>6 DEF Starting, Reading
  <2>8. InWrite(t, fr) <=> InWrite(s, fr)
    BY <2>1 DEF InWrite
  <2>9. Writing(t, fr)
    BY <1>1, <2>1, <2>4, <2>6, <2>8 DEF Queued, Writing
  <2> QED BY <1>5, <2>1, <2>3, <2>5, <2>7, <2>9 DEF EndOfWrite, DriverInv, Queued, t
<1> QED BY <1>3, <1>4, <1>5

-----------------------------------------------------------------------------
(* The interrupt service routine, part by part.                            *)

\* What the next part needs of a part that made s of r, with the status msr.
Served(r, s, fr) ==
  /\ s \in Drivers /\ DriverInv(s, fr)
  /\ "SDF" \in s.MSR => "SDF" \in r.MSR
  /\ r.MTDR = <<>> /\ ~s.ignore_tdf => s.MTDR = <<>> \/ s.MTDR = <<STOP>>

LEMMA FailurePart ==
  ASSUME NEW s \in Drivers, NEW fr, DriverInv(s, fr), NEW msr
  PROVE  Served(s, AfterFailure(s, msr), fr)
<1> DEFINE told == [s EXCEPT !.error = ErrorOf(s, msr), !.MSR = @ \ Failures]
           aborting == [told EXCEPT !.state = "stopping"]
           t == abort_transaction_async(aborting)
<1>1. Bounded(s)
  BY DEF DriverInv
<1>2. ErrorOf(s, msr) \in Errors /\ "stopping" \in States
  BY DEF ErrorOf, Errors, States, BusyStates, Drivers, has_error
<1>3. /\ told \in Drivers /\ told.MTDR = s.MTDR /\ told.MRDR = s.MRDR
      /\ told.MBF = s.MBF /\ told.command = s.command
      /\ told.ignore_tdf = s.ignore_tdf /\ told.buffer = s.buffer
      /\ told.done = s.done /\ told.size = s.size /\ told.state = s.state
      /\ told.MSR = s.MSR \ Failures
  BY <1>2 DEF Drivers
<1> HIDE DEF told
<1>4. /\ told.MSR \subseteq s.MSR /\ told.MSR \cap Final = {}
      /\ "SDF" \in told.MSR <=> "SDF" \in s.MSR
  BY <1>3 DEF Final, Failures
<1>5. CASE msr \cap Failures = {}
  BY <1>5 DEF AfterFailure, Served
<1>6. CASE msr \cap Failures # {} /\ s.state = "stopping"
  <2>1. Bounded(told)
    BY <1>1, <1>3 DEF Bounded
  <2>2. ~Has(s, "TRANSMIT")
    BY <1>6 DEF DriverInv, Consistent
  <2>3. DriverInv(told, fr)
    BY <1>3, <1>4, <1>6, <2>1, <2>2, Touched
  <2> QED BY <1>3, <1>4, <1>6, <2>3 DEF AfterFailure, Served, told
<1>7. CASE msr \cap Failures # {} /\ s.state # "stopping"
  <2>1. /\ aborting \in Drivers /\ aborting.state = "stopping"
        /\ aborting.MBF = told.MBF /\ aborting.command = told.command
        /\ aborting.ignore_tdf = told.ignore_tdf /\ aborting.buffer = told.buffer
        /\ aborting.done = told.done /\ aborting.size = told.size
        /\ aborting.MSR = told.MSR
    BY <1>2, <1>3 DEF Drivers
  <2> HIDE DEF aborting
  <2>2. /\ t \in Drivers
        /\ t.MTDR = IF aborting.MBF /\ "SDF" \notin aborting.MSR THEN <<STOP>> ELSE <<>>
        /\ t.MRDR = <<>>
        /\ t.state = aborting.state /\ t.ignore_tdf = aborting.ignore_tdf
        /\ t.buffer = aborting.buffer /\ t.size = aborting.size /\ t.done = aborting.done
        /\ t.MSR = aborting.MSR /\ t.MBF = aborting.MBF /\ t.command = aborting.command
    BY <2>1, AbortLemma
  <2> HIDE DEF t
  <2>3. t.MTDR = IF s.MBF /\ "SDF" \notin s.MSR THEN <<STOP>> ELSE <<>>
    BY <1>3, <1>4, <2>1, <2>2
  <2>4. DriverInv(t, fr)
    BY <1>3, <1>4, <2>1, <2>2, <2>3, Emptied
  <2> QED
    BY <1>3, <1>4, <1>7, <2>1, <2>2, <2>4 DEF AfterFailure, Served, t, aborting, told
<1> QED BY <1>5, <1>6, <1>7

LEMMA StopPart ==
  ASSUME NEW s \in Drivers, NEW fr, DriverInv(s, fr), NEW msr
  PROVE  LET t == AfterStop(s, msr)
         IN  /\ t \in Drivers /\ DriverInv(t, fr)
             /\ t.MTDR = s.MTDR /\ t.ignore_tdf = s.ignore_tdf
             /\ "SDF" \notin t.MSR \/ ("SDF" \in s.MSR /\ "SDF" \notin msr)
<1> DEFINE t == [s EXCEPT !.TDIE = FALSE, !.state = "stopped", !.MSR = @ \ {"SDF"}]
<1>1. Bounded(s)
  BY DEF DriverInv
<1>2. "stopped" \in States
  BY DEF States
<1>3. /\ t \in Drivers /\ t.MTDR = s.MTDR /\ t.MRDR = s.MRDR
      /\ t.MBF = s.MBF /\ t.command = s.command
      /\ t.ignore_tdf = s.ignore_tdf /\ t.buffer = s.buffer
      /\ t.done = s.done /\ t.size = s.size /\ t.state = "stopped"
      /\ t.MSR = s.MSR \ {"SDF"}
  BY <1>2 DEF Drivers
<1> HIDE DEF t
<1>4. /\ t.MSR \cap Final = s.MSR \cap Final /\ "SDF" \notin t.MSR
  BY <1>3 DEF Final, Failures
<1>5. Bounded(t)
  BY <1>1, <1>3 DEF Bounded
<1>6. DriverInv(t, fr)
  BY <1>3, <1>4, <1>5, Touched
<1> QED BY <1>3, <1>4, <1>6 DEF AfterStop, t

LEMMA FirstLemma ==
  ASSUME NEW s \in Drivers
  PROVE  LET b == FirstByte(s)
         IN  /\ b \in Drivers /\ b.MTDR = s.MTDR /\ b.done = s.done /\ b.size = s.size
             /\ b.MRDR = s.MRDR /\ b.buffer = s.buffer /\ b.ignore_tdf = s.ignore_tdf
             /\ b.MSR = s.MSR /\ b.MBF = s.MBF /\ b.command = s.command
             /\ b.state = s.state \/ b.state = "transferring"
<1>1. "ok" \in Errors /\ "transferring" \in States
  BY DEF Errors, States, BusyStates
<1> QED BY <1>1 DEF FirstByte, Drivers

LEMMA TakeLemma ==
  ASSUME NEW s \in Drivers, Bounded(s), s.ignore_tdf
  PROVE  LET b == TakeByte(s)
         IN  /\ b \in Drivers /\ Bounded(b) /\ b.MTDR = s.MTDR
             /\ b.ignore_tdf /\ b.state = s.state
             /\ b.MSR = s.MSR /\ b.MBF = s.MBF /\ b.command = s.command
<1> USE MasterAssumption
<1> DEFINE byte == IF s.MRDR = <<>> THEN <<0, 0>> ELSE Head(s.MRDR)
           rest == IF s.MRDR = <<>> THEN <<>> ELSE Tail(s.MRDR)
           read == IF Len(s.done) = s.size THEN s.done ELSE Append(s.done, byte)
           b == [s EXCEPT !.MRDR = rest, !.done = read]
<1>1. /\ s.MRDR \in Seq(InBytes) /\ s.done \in Seq(OutBytes \cup InBytes)
      /\ s.size \in Nat
  BY DEF Drivers
<1>2. byte \in InBytes
  <2>1. <<0, 0>> \in InBytes
    BY DEF InBytes
  <2>2. s.MRDR # <<>> => Head(s.MRDR) \in InBytes
    BY <1>1
  <2> QED BY <2>1, <2>2
<1>3. rest \in Seq(InBytes) /\ Len(rest) <= Len(s.MRDR)
  <2>1. CASE s.MRDR = <<>>
    BY <1>1, <2>1
  <2>2. CASE s.MRDR # <<>>
    <3>1. Tail(s.MRDR) \in Seq(InBytes) /\ Len(Tail(s.MRDR)) = Len(s.MRDR) - 1
      BY <1>1, <2>2
    <3> QED BY <1>1, <2>2, <3>1
  <2> QED BY <2>1, <2>2
<1> HIDE DEF byte, rest
<1>4. read \in Seq(OutBytes \cup InBytes) /\ Len(read) <= s.size
  <2>1. CASE Len(s.done) = s.size
    BY <1>1, <2>1
  <2>2. CASE Len(s.done) # s.size
    <3>1. byte \in OutBytes \cup InBytes
      BY <1>2
    <3>2. Append(s.done, byte) \in Seq(OutBytes \cup InBytes)
      BY <1>1, <3>1
    <3>3. Len(Append(s.done, byte)) = Len(s.done) + 1
      BY <1>1, <3>1
    <3>4. Len(s.done) \in Nat /\ Len(s.done) <= s.size
      BY <1>1 DEF Bounded
    <3> QED BY <1>1, <2>2, <3>2, <3>3, <3>4
  <2> QED BY <2>1, <2>2
<1> HIDE DEF read
<1>5. /\ b \in Drivers /\ b.MTDR = s.MTDR /\ b.MRDR = rest /\ b.done = read
      /\ b.ignore_tdf = s.ignore_tdf /\ b.state = s.state /\ b.size = s.size
      /\ b.MSR = s.MSR /\ b.MBF = s.MBF /\ b.command = s.command
  BY <1>3, <1>4 DEF Drivers
<1> HIDE DEF b
<1>6. Len(rest) \in Nat /\ Len(s.MRDR) \in Nat
  BY <1>1, <1>3
<1>7. Bounded(b)
  BY <1>3, <1>4, <1>5, <1>6 DEF Bounded
<1>8. TakeByte(s) = b
  BY DEF TakeByte, b, rest, read, byte
<1> QED BY <1>5, <1>7, <1>8

LEMMA ReceivePart ==
  ASSUME NEW s \in Drivers, NEW fr, DriverInv(s, fr), NEW msr
  PROVE  LET t == AfterReceive(s, msr)
         IN  /\ t \in Drivers /\ DriverInv(t, fr) /\ t.ignore_tdf = s.ignore_tdf
             /\ "SDF" \in t.MSR => "SDF" \in s.MSR
             /\ \/ s.ignore_tdf \/ t.MTDR = s.MTDR
                \/ t.MTDR = <<>> \/ t.MTDR = <<STOP>>
<1>1. Bounded(s) /\ Consistent(s)
  BY DEF DriverInv
<1>2. CASE "RDF" \notin msr
  BY <1>2 DEF AfterReceive
<1>3. CASE "RDF" \in msr /\ ~s.ignore_tdf
  <2> DEFINE aborting == [s EXCEPT !.state = "stopping"]
             t == abort_transaction_async(aborting)
  <2>0. "stopping" \in States
    BY DEF States, BusyStates
  <2>1. /\ aborting \in Drivers /\ aborting.state = "stopping"
        /\ aborting.MBF = s.MBF /\ aborting.command = s.command
        /\ aborting.ignore_tdf = s.ignore_tdf /\ aborting.buffer = s.buffer
        /\ aborting.done = s.done /\ aborting.size = s.size
        /\ aborting.MSR = s.MSR
    BY <2>0 DEF Drivers
  <2> HIDE DEF aborting
  <2>2. /\ t \in Drivers
        /\ t.MTDR = IF aborting.MBF /\ "SDF" \notin aborting.MSR THEN <<STOP>> ELSE <<>>
        /\ t.MRDR = <<>>
        /\ t.state = aborting.state /\ t.ignore_tdf = aborting.ignore_tdf
        /\ t.buffer = aborting.buffer /\ t.size = aborting.size /\ t.done = aborting.done
        /\ t.MSR = aborting.MSR /\ t.MBF = aborting.MBF /\ t.command = aborting.command
    BY <2>1, AbortLemma
  <2> HIDE DEF t
  <2>3. DriverInv(t, fr)
    BY <2>1, <2>2, Emptied
  <2> QED BY <1>3, <2>1, <2>2, <2>3 DEF AfterReceive, t, aborting
<1>4. CASE "RDF" \in msr /\ s.ignore_tdf
  <2> DEFINE b == FirstByte(s)
             dropped == [b EXCEPT !.MRDR = <<>>]
             r == IF b.state = "transferring" THEN TakeByte(b) ELSE dropped
             t == EndOfRead(r)
  <2>1. /\ b \in Drivers /\ b.MTDR = s.MTDR /\ b.done = s.done /\ b.size = s.size
        /\ b.MRDR = s.MRDR /\ b.ignore_tdf = s.ignore_tdf
        /\ b.MSR = s.MSR /\ b.MBF = s.MBF /\ b.command = s.command
    BY FirstLemma
  <2> HIDE DEF b
  <2>2. Bounded(b)
    BY <1>1, <2>1 DEF Bounded
  <2>3. /\ dropped \in Drivers /\ Bounded(dropped) /\ dropped.MTDR = b.MTDR
        /\ dropped.ignore_tdf = b.ignore_tdf
        /\ dropped.MSR = b.MSR /\ dropped.MBF = b.MBF /\ dropped.command = b.command
    <3>0. <<>> \in Seq(InBytes)
      OBVIOUS
    <3>1. /\ dropped \in Drivers /\ dropped.MTDR = b.MTDR /\ dropped.MRDR = <<>>
          /\ dropped.ignore_tdf = b.ignore_tdf /\ dropped.done = b.done
          /\ dropped.size = b.size
          /\ dropped.MSR = b.MSR /\ dropped.MBF = b.MBF /\ dropped.command = b.command
      BY ONLY <2>1, <3>0 DEF Drivers, dropped
    <3> HIDE DEF dropped
    <3>2. Len(dropped.MRDR) = 0
      BY <3>1
    <3> QED BY <2>2, <3>1, <3>2, MasterAssumption DEF Bounded
  <2> HIDE DEF dropped
  <2>4. /\ r \in Drivers /\ Bounded(r) /\ r.MTDR = s.MTDR /\ r.ignore_tdf
        /\ r.MSR = s.MSR /\ r.MBF = s.MBF /\ r.command = s.command
    BY <1>4, <2>1, <2>2, <2>3, TakeLemma
  <2> HIDE DEF r
  <2>5. /\ t \in Drivers /\ Bounded(t) /\ t.MTDR = s.MTDR /\ t.ignore_tdf
        /\ t.MSR = s.MSR /\ t.MBF = s.MBF /\ t.command = s.command
    <3>1. {"stopping", "transfer_complete"} \subseteq States
      BY DEF States, BusyStates
    <3> QED BY <2>4, <3>1 DEF EndOfRead, Drivers, Bounded
  <2> HIDE DEF t
  <2>6. ~Has(s, "TRANSMIT")
    BY <1>1, <1>4 DEF Consistent
  <2>7. DriverInv(t, fr)
    BY <1>4, <2>5, <2>6, Touched
  <2> QED BY <1>4, <2>5, <2>7 DEF AfterReceive, t, r, dropped, b
<1> QED BY <1>2, <1>3, <1>4

LEMMA TransmitPart ==
  ASSUME NEW s \in Drivers, NEW fr \in Seq(Frames), DriverInv(s, fr), NEW msr,
         "SDF" \notin s.MSR,
         "TDF" \in msr /\ ~s.ignore_tdf => s.MTDR = <<>> \/ s.MTDR = <<STOP>>
  PROVE  /\ AfterTransmit(s, msr) \in Drivers
         /\ DriverInv(AfterTransmit(s, msr), fr)
<1> DEFINE b == FirstByte(s)
           f == FillFifo(b)
<1>1. CASE s.ignore_tdf \/ "TDF" \notin msr
  BY <1>1 DEF AfterTransmit
<1>2. CASE ~s.ignore_tdf /\ "TDF" \in msr /\ b.state = "transferring"
  <2>1. f.state = "transferring" /\ f \in Drivers /\ DriverInv(f, fr)
        /\ ~f.ignore_tdf /\ "SDF" \notin f.MSR
    BY <1>2, Filled
  <2> HIDE DEF f
  <2>2. EndOfWrite(f) \in Drivers /\ DriverInv(EndOfWrite(f), fr)
    BY <2>1, Ended
  <2> QED BY <1>2, <2>2 DEF AfterTransmit, f
<1>3. CASE ~s.ignore_tdf /\ "TDF" \in msr /\ b.state # "transferring"
  <2>1. "transferring" \in States
    BY DEF States, BusyStates
  <2>2. s.done # <<>>
    BY <1>3, <2>1 DEF FirstByte, Drivers
  <2>3. b = s
    BY <2>2 DEF FirstByte
  <2> QED BY <1>3, <2>3 DEF AfterTransmit
<1> QED BY <1>1, <1>2, <1>3

LEMMA InterruptLemma ==
  ASSUME NEW s \in Drivers, NEW fr \in Seq(Frames), DriverInv(s, fr)
  PROVE  LET msr == Status(s)
             t == AfterTransmit(AfterReceive(AfterStop(AfterFailure(s, msr),
                                                       msr), msr), msr)
         IN  t \in Drivers /\ DriverInv(t, fr)
<1> DEFINE msr == Status(s)
           a == AfterFailure(s, msr)
           b == AfterStop(a, msr)
           c == AfterReceive(b, msr)
<1>1. /\ "SDF" \in s.MSR => "SDF" \in msr
      /\ "TDF" \in msr => s.MTDR = <<>>
  BY DEF Status, Drivers, Failures
<1> HIDE DEF msr
<1>2. Served(s, a, fr)
  BY FailurePart
<1> HIDE DEF a
<1>3. a \in Drivers /\ DriverInv(a, fr)
  BY <1>2 DEF Served
<1>4. /\ b \in Drivers /\ DriverInv(b, fr)
      /\ b.MTDR = a.MTDR /\ b.ignore_tdf = a.ignore_tdf
      /\ "SDF" \notin b.MSR \/ ("SDF" \in a.MSR /\ "SDF" \notin msr)
  BY <1>3, StopPart
<1> HIDE DEF b
<1>5. "SDF" \notin b.MSR
  BY <1>1, <1>2, <1>4 DEF Served
<1>6. /\ c \in Drivers /\ DriverInv(c, fr) /\ c.ignore_tdf = b.ignore_tdf
      /\ "SDF" \in c.MSR => "SDF" \in b.MSR
      /\ \/ b.ignore_tdf \/ c.MTDR = b.MTDR
         \/ c.MTDR = <<>> \/ c.MTDR = <<STOP>>
  BY <1>4, ReceivePart
<1> HIDE DEF c
<1>7. "SDF" \notin c.MSR
  BY <1>5, <1>6
<1>8. "TDF" \in msr /\ ~c.ignore_tdf => c.MTDR = <<>> \/ c.MTDR = <<STOP>>
  BY <1>1, <1>2, <1>4, <1>6 DEF Served
<1> QED BY <1>6, <1>7, <1>8, TransmitPart DEF msr, a, b, c

-----------------------------------------------------------------------------
(* The calls, made while no interrupt waits to be served.                  *)

Start(direction, k) == [op |-> "START", dir |-> direction, call |-> k]

LEMMA StartLemma ==
  ASSUME NEW s \in Drivers, CanStart(s), NEW d \in Directions, NEW k \in Nat
  PROVE  LET b == start(s, d, k)
         IN  /\ b \in Drivers /\ b.MTDR = <<Start(d, k)>> /\ b.MRDR = <<>>
             /\ b.ignore_tdf = (d = "read") /\ b.state = "starting" /\ b.MSR = {}
             /\ b.buffer = s.buffer /\ b.size = s.size /\ b.done = s.done
             /\ b.MBF = s.MBF /\ b.command = s.command
<1> DEFINE q == <<Start(d, k)>>
           r == d = "read"
           b == [s EXCEPT !.ignore_tdf = r, !.error = "ok", !.state = "starting",
                          !.MSR = {}, !.MTDR = q]
<1>1. Start(d, k) \in Commands
  BY DEF Start, Commands
<1>2. q \in Seq(Commands)
  BY <1>1
<1>3. "ok" \in Errors /\ "starting" \in States /\ r \in BOOLEAN
  BY DEF Errors, States, BusyStates
<1>4. finished(s) /\ s.MRDR = <<>>
  BY DEF CanStart
<1>5. start(s, d, k) = b
  BY <1>4 DEF start, Start, Drivers
<1> HIDE DEF q, r
<1>6. /\ b \in Drivers /\ b.MTDR = q /\ b.MRDR = s.MRDR
      /\ b.ignore_tdf = r /\ b.state = "starting" /\ b.MSR = {}
      /\ b.buffer = s.buffer /\ b.size = s.size /\ b.done = s.done
      /\ b.MBF = s.MBF /\ b.command = s.command
  BY <1>2, <1>3 DEF Drivers
<1> HIDE DEF b
<1> QED BY <1>4, <1>5, <1>6 DEF q, r

LEMMA NotStarted ==
  ASSUME NEW s \in Drivers, NEW fr, DriverInv(s, fr), s.MSR = {}, ~CanStart(s),
         NEW d, NEW k
  PROVE  start(s, d, k) \in Drivers /\ DriverInv(start(s, d, k), fr)
<1> DEFINE error == IF finished(s) THEN "master_fifos_not_empty" ELSE "master_not_ready"
           state == IF finished(s) THEN "starting" ELSE "idle"
           ignore == IF finished(s) THEN d = "read" ELSE s.ignore_tdf
           fifo == IF s.MBF /\ "SDF" \notin s.MSR THEN <<STOP>> ELSE <<>>
           t == [s EXCEPT !.TDIE = FALSE, !.MRDR = <<>>, !.MTDR = fifo,
                          !.error = error, !.state = state, !.ignore_tdf = ignore]
<1>1. /\ error \in Errors /\ state \in States /\ state # "transferring"
      /\ ignore \in BOOLEAN
  BY DEF Errors, States, BusyStates, Drivers
<1>2. fifo \in Seq(Commands) /\ <<>> \in Seq(InBytes)
  BY StopLemma
<1>3. start(s, d, k) = t
  <2>1. CASE ~finished(s)
    BY <2>1 DEF start, abort_transaction_async, Drivers
  <2>2. CASE finished(s)
    BY <2>2 DEF start, abort_transaction_async, Drivers
  <2> QED BY <2>1, <2>2
<1> HIDE DEF error, state, ignore, fifo
<1>4. /\ t \in Drivers /\ t.MTDR = fifo /\ t.MRDR = <<>> /\ t.state = state
      /\ t.buffer = s.buffer /\ t.size = s.size /\ t.done = s.done
      /\ t.MSR = s.MSR /\ t.MBF = s.MBF /\ t.command = s.command
  BY <1>1, <1>2 DEF Drivers
<1> HIDE DEF t
<1>5. DriverInv(t, fr)
  BY <1>1, <1>4, Emptied DEF fifo
<1> QED BY <1>3, <1>4, <1>5

LEMMA WriteCall ==
  ASSUME NEW s \in Drivers, NEW fr, DriverInv(s, fr), s.MSR = {},
         NEW k \in Nat, NEW n \in Nat, NEW stop \in BOOLEAN
  PROVE  LET t == write_async(s, k, n, stop)
         IN  t \in Drivers /\ DriverInv(t, fr)
<1> USE MasterAssumption
<1> DEFINE b == start(s, "write", k)
<1>1. CASE ~CanStart(s)
  BY <1>1, NotStarted DEF write_async
<1>2. ASSUME CanStart(s)
      PROVE  /\ b \in Drivers /\ b.MTDR = <<Start("write", k)>> /\ b.MRDR = <<>>
             /\ ~b.ignore_tdf /\ b.state = "starting" /\ b.MSR = {}
             /\ b.buffer = s.buffer /\ b.size = s.size /\ b.done = s.done
             /\ b.MBF = s.MBF /\ b.command = s.command
  BY <1>2, StartLemma DEF Directions
<1> HIDE DEF b
<1>3. Bounded(s)
  BY DEF DriverInv
<1>4. Start("write", k) \in Commands /\ Start("write", k).op = "START"
      /\ Start("write", k).dir = "write" /\ Start("write", k).call = k
  BY DEF Start, Commands, Directions
<1>5. CASE CanStart(s) /\ n = 0
  <2> DEFINE q == Append(b.MTDR, STOP)
             t == [b EXCEPT !.ignore_tdf = TRUE, !.MTDR = q]
  <2>1. q = Append(<<Start("write", k)>>, STOP)
    BY <1>2, <1>5
  <2>2. /\ q \in Seq(Commands) /\ Len(q) = 2 /\ q[1] = Start("write", k)
        /\ q[2] = STOP
    BY <1>4, <2>1, StopLemma, ShortLemma
  <2> HIDE DEF q
  <2>3. /\ t \in Drivers /\ t.MTDR = q /\ t.MRDR = b.MRDR /\ t.ignore_tdf
        /\ t.state = b.state /\ t.MSR = b.MSR /\ t.size = b.size
        /\ t.done = b.done /\ t.MBF = b.MBF /\ t.command = b.command
    BY <1>2, <1>5, <2>2 DEF Drivers
  <2> HIDE DEF t
  <2>4. Bounded(t)
    <3>1. t.MRDR = <<>> /\ t.size = s.size /\ t.done = s.done
      BY <1>2, <1>5, <2>3
    <3>2. Len(t.MRDR) = 0
      BY <3>1
    <3>3. Len(t.MTDR) = 2 /\ Len(t.done) <= t.size
      BY <1>3, <2>2, <2>3, <3>1 DEF Bounded
    <3> QED BY <3>2, <3>3 DEF Bounded
  <2>5. \A j \in 2 .. Len(t.MTDR) : t.MTDR[j].op \notin {"START", "TRANSMIT"}
    <3>1. \A j \in 2 .. 2 : q[j].op \notin {"START", "TRANSMIT"}
      BY <2>2, StopLemma
    <3> QED BY <2>2, <2>3, <3>1
  <2>6. DriverInv(t, fr)
    BY <1>2, <1>4, <1>5, <2>2, <2>3, <2>4, <2>5, Started
  <2> QED BY <1>5, <2>3, <2>6 DEF write_async, t, q, b
<1>6. CASE CanStart(s) /\ n # 0
  <2> DEFINE t == [initialise(b, <<k, "out">>, n)
                     EXCEPT !.stop_on_completion = stop, !.TDIE = TRUE]
  <2>1. <<k, "out">> \in Buffers /\ <<>> \in Seq(OutBytes \cup InBytes)
    BY DEF Buffers
  <2>2. /\ t \in Drivers /\ t.MTDR = b.MTDR /\ t.MRDR = b.MRDR
        /\ t.ignore_tdf = b.ignore_tdf /\ t.buffer = <<k, "out">>
        /\ t.state = b.state /\ t.MSR = b.MSR /\ t.size = n /\ t.done = <<>>
        /\ t.MBF = b.MBF /\ t.command = b.command
    BY <1>2, <1>6, <2>1 DEF Drivers, initialise
  <2> HIDE DEF t
  <2>3. Len(t.MRDR) = 0 /\ Len(t.MTDR) = 1 /\ t.MTDR[1] = Start("write", k)
        /\ Len(t.done) = 0
    <3>1. t.MRDR = <<>> /\ t.done = <<>> /\ t.MTDR = <<Start("write", k)>>
      BY <1>2, <1>6, <2>2
    <3>2. Len(t.MRDR) = 0 /\ Len(t.done) = 0
      BY <3>1
    <3> QED BY <1>4, <3>1, <3>2, ShortLemma
  <2>4. Bounded(t)
    BY <2>2, <2>3 DEF Bounded
  <2>5. DriverInv(t, fr)
    BY <1>2, <1>4, <1>6, <2>2, <2>3, <2>4, Started
  <2> QED BY <1>6, <2>2, <2>5 DEF write_async, t, b
<1> QED BY <1>1, <1>5, <1>6

\* A queue that begins with c, and has no START or byte to send behind it.
Headed(q, c) ==
  /\ q \in Seq(Commands) /\ Len(q) > 0 /\ q[1] = c
  /\ \A j \in 2 .. Len(q) : q[j].op \notin {"START", "TRANSMIT"}

LEMMA HeadedLemma ==
  ASSUME NEW q, NEW c, Headed(q, c), NEW e \in Seq(Commands), Len(e) <= 1,
         \A j \in 1 .. Len(e) : e[j].op \notin {"START", "TRANSMIT"}
  PROVE  Headed(q \o e, c) /\ Len(q \o e) <= Len(q) + 1
<1> DEFINE w == q \o e
<1>1. q \in Seq(Commands) /\ Len(q) \in Nat /\ Len(e) \in Nat
  BY DEF Headed
<1>2. /\ w \in Seq(Commands) /\ Len(w) = Len(q) + Len(e)
      /\ \A j \in 1 .. Len(q) : w[j] = q[j]
      /\ \A j \in 1 .. Len(e) : w[Len(q) + j] = e[j]
  BY <1>1
<1> HIDE DEF w
<1>3. ASSUME NEW j \in 2 .. Len(w)
      PROVE  w[j].op \notin {"START", "TRANSMIT"}
  <2>1. CASE j \in 2 .. Len(q)
    BY <1>1, <1>2, <2>1 DEF Headed
  <2>2. CASE j \notin 2 .. Len(q)
    <3> DEFINE l == Len(q)
               m == Len(e)
               n == Len(w)
    <3>1. l \in Nat /\ m \in Nat /\ m <= 1 /\ n = l + m
      BY <1>1, <1>2
    <3>2. j \in 2 .. n /\ j \notin 2 .. l
      BY <2>2
    <3> HIDE DEF l, m, n
    <3>3. j \in Int /\ 2 <= j /\ j <= n /\ ~(j <= l)
      BY ONLY <3>1, <3>2
    <3>4. m = 1 /\ j = l + 1
      BY ONLY <3>1, <3>3
    <3>5. w[Len(q) + 1] = e[1]
      BY <1>2, <3>4 DEF l, m
    <3> QED BY <3>4, <3>5 DEF l, m
  <2> QED BY <2>1, <2>2
<1>4. Len(q) > 0 /\ q[1] = c
  BY DEF Headed
<1>5. Len(w) > 0 /\ w[1] = c /\ Len(w) <= Len(q) + 1
  BY <1>1, <1>2, <1>4
<1> QED BY <1>2, <1>3, <1>5 DEF Headed, w

LEMMA ReadCall ==
  ASSUME NEW s \in Drivers, NEW fr, DriverInv(s, fr), s.MSR = {},
         NEW k \in Nat, NEW n \in Nat, NEW stop \in BOOLEAN
  PROVE  LET t == read_async(s, k, n, stop)
         IN  t \in Drivers /\ DriverInv(t, fr)
<1> USE MasterAssumption
<1> DEFINE b == start(s, "read", k)
           receive == IF n = 0 THEN <<>> ELSE <<[op |-> "RECEIVE", n |-> n]>>
           end == IF n = 0 \/ stop THEN <<STOP>> ELSE <<>>
           q == b.MTDR \o receive \o end
           asked == [b EXCEPT !.MTDR = q]
<1>1. Bounded(s)
  BY DEF DriverInv
<1>2. CASE n > MAX_MASTER_READ_LENGTH
  <2> DEFINE t == [s EXCEPT !.error = "invalid_request"]
  <2>1. "invalid_request" \in Errors
    BY DEF Errors
  <2>2. /\ t \in Drivers /\ t.MTDR = s.MTDR /\ t.MRDR = s.MRDR
        /\ t.MBF = s.MBF /\ t.command = s.command
        /\ t.ignore_tdf = s.ignore_tdf /\ t.buffer = s.buffer
        /\ t.done = s.done /\ t.size = s.size /\ t.state = s.state
        /\ t.MSR = s.MSR
    BY <2>1 DEF Drivers
  <2> HIDE DEF t
  <2>3. Bounded(t)
    BY <1>1, <2>2 DEF Bounded
  <2>4. t.state = "stopping" => ~Has(s, "TRANSMIT")
    BY <2>2 DEF DriverInv, Consistent
  <2>5. DriverInv(t, fr)
    BY <2>2, <2>3, <2>4, Touched
  <2> QED BY <1>2, <2>2, <2>5 DEF read_async, t
<1>3. CASE ~(n > MAX_MASTER_READ_LENGTH) /\ ~CanStart(s)
  BY <1>3, NotStarted DEF read_async
<1>4. CASE ~(n > MAX_MASTER_READ_LENGTH) /\ CanStart(s)
  <2>1. /\ b \in Drivers /\ b.MTDR = <<Start("read", k)>> /\ b.MRDR = <<>>
        /\ b.ignore_tdf /\ b.state = "starting" /\ b.MSR = {}
        /\ b.buffer = s.buffer /\ b.size = s.size /\ b.done = s.done
        /\ b.MBF = s.MBF /\ b.command = s.command
    BY <1>4, StartLemma DEF Directions
  <2> HIDE DEF b
  <2>2. Start("read", k) \in Commands /\ Start("read", k).op = "START"
    BY DEF Start, Commands, Directions
  <2>3. /\ receive \in Seq(Commands) /\ Len(receive) <= 1
        /\ \A j \in 1 .. Len(receive) : receive[j].op \notin {"START", "TRANSMIT"}
    <3>1. CASE n = 0
      BY <3>1, StopLemma
    <3>2. CASE n # 0
      <4> DEFINE r == [op |-> "RECEIVE", n |-> n]
      <4>1. r \in Commands /\ r.op = "RECEIVE"
        BY <3>2 DEF Commands
      <4>2. receive = <<r>>
        BY <3>2
      <4> HIDE DEF r
      <4>3. receive \in Seq(Commands) /\ Len(receive) = 1 /\ receive[1] = r
        BY <4>1, <4>2, ShortLemma
      <4> HIDE DEF receive
      <4> QED BY <4>1, <4>3
    <3> QED BY <3>1, <3>2
  <2>4. /\ end \in Seq(Commands) /\ Len(end) <= 1
        /\ \A j \in 1 .. Len(end) : end[j].op \notin {"START", "TRANSMIT"}
    <3>1. CASE end = <<>>
      BY <3>1, StopLemma
    <3>2. CASE end = <<STOP>>
      BY <3>2, StopLemma
    <3> QED BY <3>1, <3>2
  <2> HIDE DEF receive, end
  <2>5. Headed(b.MTDR, Start("read", k)) /\ Len(b.MTDR) = 1
    <3>1. /\ b.MTDR \in Seq(Commands) /\ Len(b.MTDR) = 1
          /\ b.MTDR[1] = Start("read", k)
      BY <2>1, <2>2, ShortLemma
    <3> QED BY <3>1 DEF Headed
  <2>6. /\ Headed(b.MTDR \o receive, Start("read", k))
        /\ Len(b.MTDR \o receive) <= 2
    <3>1. /\ Headed(b.MTDR \o receive, Start("read", k))
          /\ Len(b.MTDR \o receive) <= Len(b.MTDR) + 1
      BY <2>3, <2>5, HeadedLemma
    <3> QED BY <2>5, <3>1
  <2>7. Headed(q, Start("read", k)) /\ Len(q) <= Len(b.MTDR \o receive) + 1
    BY <2>4, <2>6, HeadedLemma
  <2>8. Headed(q, Start("read", k)) /\ Len(q) <= 3
    <3> DEFINE p == b.MTDR \o receive
    <3>1. Len(p) \in Nat /\ Len(p) <= 2 /\ Len(q) <= Len(p) + 1
      BY <2>6, <2>7 DEF Headed
    <3>2. Len(q) \in Nat
      BY <2>7 DEF Headed
    <3> HIDE DEF p, q
    <3>3. Len(q) <= 3
      BY <3>1, <3>2
    <3> QED BY <2>7, <3>3
  <2> HIDE DEF q
  <2>9. /\ asked \in Drivers /\ asked.MTDR = q /\ asked.MRDR = b.MRDR
        /\ asked.ignore_tdf /\ asked.state = "starting" /\ asked.MSR = {}
        /\ asked.buffer = b.buffer /\ asked.size = b.size /\ asked.done = b.done
        /\ asked.MBF = b.MBF /\ asked.command = b.command
    BY <2>1, <2>8 DEF Drivers, Headed
  <2> HIDE DEF asked
  <2>10. ASSUME NEW t \in Drivers, t.MTDR = q, t.MRDR = <<>>, t.ignore_tdf,
                t.state = "starting", t.MSR = {}, Len(t.done) <= t.size,
                t.MBF = s.MBF, t.command = s.command
         PROVE  DriverInv(t, fr)
    <3>1. Len(q) > 0 /\ q[1].op = "START" /\ Len(q) <= 3 /\ Len(q) \in Nat
          /\ \A j \in 2 .. Len(q) : q[j].op \notin {"START", "TRANSMIT"}
      BY <2>2, <2>8 DEF Headed
    <3>2. Len(t.MRDR) = 0
      BY <2>10
    <3>3. Bounded(t)
      BY <2>10, <3>1, <3>2 DEF Bounded
    <3> QED BY <2>10, <3>1, <3>3, Started
  <2>11. CASE n = 0
    <3>1. asked.MRDR = <<>> /\ Len(asked.done) <= asked.size
      BY <1>1, <2>1, <2>9 DEF Bounded
    <3>2. DriverInv(asked, fr)
      BY <2>1, <2>9, <2>10, <3>1
    <3> QED BY <1>4, <2>9, <2>11, <3>2 DEF read_async, asked, q, receive, end, b
  <2>12. CASE n # 0
    <3> DEFINE t == initialise(asked, <<k, "in">>, n)
    <3>1. <<k, "in">> \in Buffers /\ <<>> \in Seq(OutBytes \cup InBytes)
      BY DEF Buffers
    <3>2. /\ t \in Drivers /\ t.MTDR = asked.MTDR /\ t.MRDR = asked.MRDR
          /\ t.ignore_tdf = asked.ignore_tdf
          /\ t.state = asked.state /\ t.MSR = asked.MSR /\ t.size = n /\ t.done = <<>>
          /\ t.MBF = asked.MBF /\ t.command = asked.command
      BY <2>9, <3>1 DEF Drivers, initialise
    <3> HIDE DEF t
    <3>3. t.ignore_tdf
      BY <2>9, <3>2
    <3>4. Len(t.done) <= t.size
      <4>1. Len(t.done) = 0
        BY <3>2
      <4> QED BY <3>2, <4>1
    <3>5. DriverInv(t, fr)
      BY <2>1, <2>9, <2>10, <3>2, <3>3, <3>4
    <3> QED BY <1>4, <2>12, <3>2, <3>5 DEF read_async, t, asked, q, receive, end, b
  <2> QED BY <2>11, <2>12
<1> QED BY <1>2, <1>3, <1>4

-----------------------------------------------------------------------------
(* The port.                                                               *)

LEMMA CommandTaken ==
  ASSUME NEW s \in Drivers, NEW fr \in Seq(Frames), DriverInv(s, fr),
         s.command = <<>>, s.MTDR # <<>>, s.MSR \cap Failures = {}
  PROVE  LET t == [s EXCEPT !.command = <<Head(s.MTDR)>>, !.MTDR = Tail(@),
                            !.MBF = @ \/ Head(s.MTDR).op = "START"]
         IN  t \in Drivers /\ DriverInv(t, fr)
<1> DEFINE c == s.MTDR[1]
           rest == Tail(s.MTDR)
           busy == s.MBF \/ c.op = "START"
           t == [s EXCEPT !.command = <<c>>, !.MTDR = rest, !.MBF = busy]
           l == Len(rest)
<1>1. Bounded(s) /\ Consistent(s) /\ Queued(s, fr)
  BY DEF DriverInv
<1>2. s.MTDR \in Seq(Commands) /\ busy \in BOOLEAN
  BY DEF Drivers
<1>3. Head(s.MTDR) = c /\ c \in Commands
  BY <1>2
<1>4. rest \in Seq(Commands) /\ l \in Nat /\ Len(s.MTDR) = l + 1
      /\ \A j \in 1 .. l : rest[j] = s.MTDR[j + 1]
  BY <1>2
<1>5. <<c>> \in {<<>>} \cup {<<d>> : d \in Commands} /\ <<c>> # <<>> /\ <<c>>[1] = c
  BY <1>3
<1> HIDE DEF rest, busy, l
<1>6. /\ t \in Drivers /\ t.MTDR = rest /\ t.MRDR = s.MRDR /\ t.MBF = busy
      /\ t.command = <<c>> /\ t.ignore_tdf = s.ignore_tdf /\ t.buffer = s.buffer
      /\ t.done = s.done /\ t.size = s.size /\ t.state = s.state /\ t.MSR = s.MSR
  BY <1>2, <1>4, <1>5 DEF Drivers
<1>7. [s EXCEPT !.command = <<Head(s.MTDR)>>, !.MTDR = Tail(@),
                !.MBF = @ \/ Head(s.MTDR).op = "START"] = t
  BY <1>3 DEF rest, busy
<1> HIDE DEF c, t
<1>8. t.command # <<>> /\ t.command[1] = c /\ \A op : Doing1(t, op) <=> c.op = op
  BY <1>5, <1>6 DEF Doing1
<1>9. s.MSR \cap Final = {} /\ t.MSR \cap Final = {}
  BY <1>6 DEF Final
<1>10. Bounded(t)
  <2>1. Len(t.MTDR) = l
    BY <1>6 DEF l
  <2>2. l + 1 <= NUM_FIFOS
    BY <1>1, <1>4 DEF Bounded
  <2>3. l <= NUM_FIFOS
    BY <1>4, <2>2, MasterAssumption
  <2> QED BY <1>1, <1>6, <2>1, <2>3 DEF Bounded
<1>11. Len(t.MTDR) = l /\ Len(s.MTDR) = l + 1 /\ l \in Nat
       /\ \A j \in 1 .. l : t.MTDR[j] = s.MTDR[j + 1] /\ j + 1 \in 2 .. Len(s.MTDR)
                          /\ j + 1 \in 1 .. Len(s.MTDR)
  BY <1>4, <1>6 DEF l
<1>12. s.MTDR[1] = c /\ 1 \in 1 .. Len(s.MTDR)
  BY <1>11 DEF c
<1>13. /\ \A op : Has(t, op) => Has(s, op)
       /\ Has(s, c.op)
       /\ \A op : Only(t, op) /\ c.op = op => Only(s, op)
  <2>1. ASSUME NEW op, Has(t, op)
        PROVE  Has(s, op)
    BY <1>11, <2>1 DEF Has
  <2>2. ASSUME NEW op, Only(t, op), c.op = op
        PROVE  Only(s, op)
    <3> SUFFICES ASSUME NEW j \in 1 .. Len(s.MTDR)
                 PROVE  s.MTDR[j].op = op
      BY DEF Only
    <3>1. CASE j = 1
      BY <1>12, <2>2, <3>1
    <3>2. CASE j # 1
      <4> DEFINE h == j - 1
      <4>1. h \in 1 .. l /\ j = h + 1
        BY <1>11, <3>2
      <4> HIDE DEF h
      <4> QED BY <1>11, <2>2, <4>1 DEF Only
    <3> QED BY <3>1, <3>2
  <2>3. Has(s, c.op)
    BY <1>12 DEF Has
  <2> QED BY <2>1, <2>2, <2>3
<1>14. ~Has(t, "START")
  BY <1>1, <1>11 DEF Has, Consistent
<1>15. /\ \A j \in 2 .. Len(t.MTDR) : t.MTDR[j].op # "START"
       /\ ~First(t, "START")
  BY <1>11, <1>14 DEF Has, First
<1>16. c.op = "START" /\ ~s.ignore_tdf =>
         /\ t.MTDR = <<>> /\ l = 0
         /\ c.dir = "write" => s.buffer = <<c.call, "out">> /\ s.done = <<>>
  <2> SUFFICES ASSUME c.op = "START", ~s.ignore_tdf
               PROVE  /\ t.MTDR = <<>> /\ l = 0
                      /\ c.dir = "write" => s.buffer = <<c.call, "out">> /\ s.done = <<>>
    OBVIOUS
  <2>1. First(s, "START")
    BY <1>11, <1>12 DEF First
  <2>2. Len(s.MTDR) = 1
        /\ (c.dir = "write" => s.buffer = <<c.call, "out">> /\ s.done = <<>>)
    BY <1>1, <1>12, <2>1 DEF Consistent
  <2>3. l = 0
    BY <1>11, <2>2
  <2>4. t.MTDR = <<>>
    BY <1>4, <1>6, <2>3 DEF l
  <2> QED BY <2>2, <2>3, <2>4
<1>17. "SDF" \in t.MSR /\ t.MBF /\ ~t.ignore_tdf => t.MTDR = <<>>
  BY <1>1, <1>6, <1>16 DEF Consistent, busy
<1>18. Consistent(t)
  BY <1>1, <1>6, <1>8, <1>9, <1>13, <1>15, <1>17 DEF Consistent, busy
<1>19. Starting(t)
  <2> SUFFICES ASSUME c.op = "START", c.dir = "write"
               PROVE  Follows(t, c.call, 0) /\ Due(t, c.call, 0) /\ Fresh(t, c.call, 0)
    BY <1>8 DEF Starting
  <2>1. CASE s.ignore_tdf
    <3>1. ~Has(t, "TRANSMIT")
      BY <1>1, <1>13, <2>1 DEF Consistent
    <3>2. \A j \in 1 .. l : j \in 1 .. j
      BY <1>11
    <3> QED BY <1>6, <1>11, <2>1, <3>1, <3>2 DEF Follows, Due, Fresh, Has
  <2>2. CASE ~s.ignore_tdf
    <3>1. l = 0 /\ t.buffer = <<c.call, "out">> /\ t.done = <<>> /\ Len(t.MTDR) = 0
      BY <1>6, <1>11, <1>16, <2>2
    <3>2. Len(t.done) = 0
      BY <3>1
    <3> QED BY <3>1, <3>2 DEF Follows, Due, Fresh
  <2> QED BY <2>1, <2>2
<1>20. Reading(t, fr)
  BY <1>1, <1>6, <1>8, <1>13 DEF Reading, Consistent
<1>21. Writing(t, fr)
  <2> SUFFICES ASSUME InWrite(t, fr), c.op = "TRANSMIT"
               PROVE  Writing(t, fr)
    BY <1>8 DEF Writing
  <2> DEFINE k == fr[Len(fr)].call
             n == Len(fr[Len(fr)].bytes)
  <2>1. InWrite(s, fr)
    BY <1>6 DEF InWrite, busy
  <2>2. n \in Nat
    <3>1. fr[Len(fr)] \in Frames
      BY <2>1 DEF InWrite
    <3> QED BY <3>1 DEF Frames
  <2>3. Follows(s, k, n + 0) /\ Due(s, k, n + 0) /\ Fresh(s, k, n + 0)
    BY <1>1, <1>9, <2>1 DEF Queued, Writing
  <2> HIDE DEF k, n
  <2>4. Follows(s, k, n) /\ Due(s, k, n) /\ Fresh(s, k, n)
    BY <2>2, <2>3
  <2>5. c.byte = <<<<k, "out">>, n + 1>>
    <3>1. \A i \in 1 .. 1 : s.MTDR[i].op = "TRANSMIT"
      BY <1>12
    <3> QED BY <1>12, <2>4, <3>1 DEF Follows
  <2>6. Follows(t, k, n + 1)
    <3> SUFFICES ASSUME NEW j \in 1 .. l, \A i \in 1 .. j : t.MTDR[i].op = "TRANSMIT"
                 PROVE  t.MTDR[j].byte = <<<<k, "out">>, (n + 1) + j>>
      BY <1>11 DEF Follows
    <3>1. ASSUME NEW i \in 1 .. j + 1
          PROVE  s.MTDR[i].op = "TRANSMIT"
      <4>1. CASE i = 1
        BY <1>12, <4>1
      <4>2. CASE i # 1
        <5> DEFINE h == i - 1
        <5>1. h \in 1 .. j /\ h \in 1 .. l /\ i = h + 1
          BY <1>11, <4>2
        <5> HIDE DEF h
        <5> QED BY <1>11, <5>1
      <4> QED BY <4>1, <4>2
    <3>2. s.MTDR[j + 1].byte = <<<<k, "out">>, n + (j + 1)>>
      BY <1>11, <2>4, <3>1 DEF Follows
    <3>3. n + (j + 1) = (n + 1) + j
      BY <2>2
    <3> QED BY <1>11, <3>2, <3>3
  <2>7. Due(t, k, n + 1)
    <3> SUFFICES ASSUME ~t.ignore_tdf, t.state = "transferring", Only(t, "TRANSMIT")
                 PROVE  t.buffer = <<k, "out">> /\ Len(t.done) = (n + 1) + Len(t.MTDR)
      BY DEF Due
    <3>1. s.buffer = <<k, "out">> /\ Len(s.done) = n + Len(s.MTDR)
      BY <1>6, <1>13, <2>4 DEF Due
    <3> QED BY <1>6, <1>11, <2>2, <3>1
  <2>8. Fresh(t, k, n + 1)
    <3> SUFFICES ASSUME ~t.ignore_tdf, t.done = <<>>, Only(t, "TRANSMIT")
                 PROVE  FALSE
      BY DEF Fresh
    <3>1. n + Len(s.MTDR) = 0
      BY <1>6, <1>13, <2>4 DEF Fresh
    <3> QED BY <1>11, <2>2, <3>1
  <2> QED BY <1>8, <2>5, <2>6, <2>7, <2>8 DEF Writing, k, n
<1> QED BY <1>6, <1>7, <1>10, <1>18, <1>19, <1>20, <1>21 DEF DriverInv, Queued

\* A command is over, and what is queued behind it stays.
Finish(s, flags, busy) ==
  [s EXCEPT !.command = <<>>, !.MSR = @ \cup flags, !.MBF = busy]

\* What that leaves of s.
Ends(s, t, flags, busy) ==
  /\ t \in Drivers /\ t.MSR = s.MSR \cup flags /\ t.MBF = busy
  /\ t.command = <<>> /\ ~Doing1(t, "START") /\ ~Doing1(t, "RECEIVE")
  /\ ~Doing1(t, "TRANSMIT")
  /\ t.MTDR = s.MTDR /\ t.MRDR = s.MRDR /\ t.ignore_tdf = s.ignore_tdf
  /\ t.buffer = s.buffer /\ t.done = s.done /\ t.size = s.size
  /\ t.state = s.state
  /\ \A op : Has(t, op) <=> Has(s, op)
  /\ \A op : Only(t, op) <=> Only(s, op)
  /\ \A op : First(t, op) <=> First(s, op)
  /\ \A k, n : Follows(t, k, n) <=> Follows(s, k, n)
  /\ \A k, n : Fresh(s, k, n) <=> Fresh(t, k, n)
  /\ \A k, n : Due(s, k, n) <=> Due(t, k, n)
  /\ Bounded(t) <=> Bounded(s)

LEMMA CommandOver ==
  ASSUME NEW s \in Drivers, NEW flags \in SUBSET {"NDF", "ALF", "FEF", "SDF"},
         NEW busy \in BOOLEAN
  PROVE  Ends(s, Finish(s, flags, busy), flags, busy)
<1> DEFINE msr == s.MSR \cup flags
           t == [s EXCEPT !.command = <<>>, !.MSR = msr, !.MBF = busy]
<1>1. msr \in SUBSET (Failures \cup {"SDF"})
  BY DEF Drivers, Failures
<1> HIDE DEF msr
<1>2. /\ t \in Drivers /\ t.MSR = msr /\ t.MBF = busy
      /\ t.command = <<>>
      /\ t.MTDR = s.MTDR /\ t.MRDR = s.MRDR /\ t.ignore_tdf = s.ignore_tdf
      /\ t.buffer = s.buffer /\ t.done = s.done /\ t.size = s.size
      /\ t.state = s.state
  BY <1>1 DEF Drivers
<1> HIDE DEF t
<1>3. ~Doing1(t, "START") /\ ~Doing1(t, "RECEIVE") /\ ~Doing1(t, "TRANSMIT")
  BY <1>2 DEF Doing1
<1>4. /\ \A op : Has(t, op) <=> Has(s, op)
      /\ \A op : Only(t, op) <=> Only(s, op)
      /\ \A op : First(t, op) <=> First(s, op)
      /\ \A k, n : Follows(t, k, n) <=> Follows(s, k, n)
      /\ \A k, n : Fresh(s, k, n) <=> Fresh(t, k, n)
      /\ \A k, n : Due(s, k, n) <=> Due(t, k, n)
      /\ Bounded(t) <=> Bounded(s)
  BY <1>2 DEF Has, Only, First, Follows, Fresh, Due, Bounded
<1> QED BY <1>2, <1>3, <1>4 DEF Ends, Finish, t, msr

\* The master lets go of the bus: a STOP was sent, another master has won, or
\* the port is set up again.
LEMMA BusReleased ==
  ASSUME NEW s \in Drivers, NEW t \in Drivers, NEW fr, DriverInv(s, fr), Bounded(t),
         ~t.MBF, t.command = <<>>, t.MTDR = s.MTDR \/ t.MTDR = <<>>,
         t.ignore_tdf = s.ignore_tdf, t.buffer = s.buffer, t.done = s.done,
         t.size = s.size, t.state = s.state
  PROVE  DriverInv(t, fr)
<1>1. Consistent(s)
  BY DEF DriverInv
<1>2. ~Doing1(t, "START") /\ ~Doing1(t, "RECEIVE") /\ ~InWrite(t, fr)
  BY DEF Doing1, InWrite
<1>3. Consistent(t)
  <2>1. CASE t.MTDR = s.MTDR
    BY <1>1, <1>2, <2>1 DEF Consistent, Has, First
  <2>2. CASE t.MTDR = <<>>
    <3>1. Len(t.MTDR) = 0
      BY <2>2
    <3> QED BY <1>2, <2>2, <3>1 DEF Consistent, Has, First
  <2> QED BY <2>1, <2>2
<1> QED BY <1>2, <1>3 DEF DriverInv, Queued, Starting, Writing, Reading

-----------------------------------------------------------------------------
(* What has happened on the bus.                                           *)

\* The bytes of a frame are those of the buffer of its call, from the first.
Whole(f) ==
  f.dir = "write" => \A i \in 1 .. Len(f.bytes) : f.bytes[i] = <<<<f.call, "out">>, i>>

Truthful(fr) == fr \in Seq(Frames) /\ \A f \in 1 .. Len(fr) : Whole(fr[f])

LEMMA NextByte ==
  ASSUME NEW S, NEW b \in Seq(S), NEW x, NEW e \in S,
         \A i \in 1 .. Len(b) : b[i] = <<x, i>>, e = <<x, Len(b) + 1>>
  PROVE  \A i \in 1 .. Len(Append(b, e)) : Append(b, e)[i] = <<x, i>>
<1> DEFINE a == Append(b, e)
<1>1. Len(b) \in Nat
  OBVIOUS
<1>2. /\ a \in Seq(S) /\ Len(a) = Len(b) + 1
      /\ \A i \in 1 .. Len(b) : a[i] = b[i]
      /\ a[Len(b) + 1] = e
  BY AppendLemma
<1> HIDE DEF a
<1>3. \A i \in 1 .. Len(a) : a[i] = <<x, i>>
  <2>1. TAKE i \in 1 .. Len(a)
  <2>2. CASE i \in 1 .. Len(b)
    BY <1>2, <2>2
  <2>3. CASE i = Len(b) + 1
    BY <1>2, <2>3
  <2> QED BY <1>1, <1>2, <2>2, <2>3
<1> QED BY <1>3 DEF a

\* A frame begins.
LEMMA FrameBegun ==
  ASSUME NEW fr, Truthful(fr), NEW f \in Frames, f.bytes = <<>>
  PROVE  LET g == Append(fr, f)
         IN  Truthful(g) /\ g # <<>> /\ g[Len(g)] = f
<1> DEFINE g == Append(fr, f)
<1>1. fr \in Seq(Frames) /\ \A i \in 1 .. Len(fr) : Whole(fr[i])
  BY DEF Truthful
<1>2. /\ g \in Seq(Frames) /\ Len(g) = Len(fr) + 1
      /\ \A i \in 1 .. Len(fr) : g[i] = fr[i]
      /\ g[Len(fr) + 1] = f
  BY <1>1, AppendLemma
<1> HIDE DEF g
<1>3. Whole(f)
  <2>1. Len(f.bytes) = 0
    OBVIOUS
  <2> QED BY <2>1 DEF Whole
<1>4. ASSUME NEW i \in 1 .. Len(g)
      PROVE  Whole(g[i])
  <2>1. CASE i \in 1 .. Len(fr)
    BY <1>1, <1>2, <2>1
  <2>2. CASE i = Len(fr) + 1
    BY <1>2, <1>3, <2>2
  <2>3. Len(fr) \in Nat
    BY <1>1
  <2> QED BY <1>2, <2>1, <2>2, <2>3
<1>5. g # <<>>
  <2>1. Len(fr) \in Nat
    BY <1>1
  <2>2. Len(g) > 0
    BY <1>2, <2>1
  <2> QED BY <2>2
<1> QED BY <1>2, <1>4, <1>5 DEF Truthful, g

\* A byte is added to the frame that goes on.
LEMMA FrameGrown ==
  ASSUME NEW fr, Truthful(fr), fr # <<>>, NEW e \in OutBytes \cup InBytes,
         LET f == fr[Len(fr)]
         IN  f.dir = "write" => e = <<<<f.call, "out">>, Len(f.bytes) + 1>>
  PROVE  LET g == [fr EXCEPT ![Len(fr)].bytes = Append(@, e)]
         IN  /\ Truthful(g) /\ g # <<>> /\ Len(g) = Len(fr)
             /\ g[Len(g)].call = fr[Len(fr)].call /\ g[Len(g)].ack = fr[Len(fr)].ack
             /\ g[Len(g)].dir = fr[Len(fr)].dir
             /\ Len(g[Len(g)].bytes) = Len(fr[Len(fr)].bytes) + 1
<1> DEFINE l == Len(fr)
           f == fr[l]
           b == Append(f.bytes, e)
           h == [f EXCEPT !.bytes = b]
           g == [fr EXCEPT ![l] = h]
<1>1. fr \in Seq(Frames) /\ \A i \in 1 .. l : Whole(fr[i])
  BY DEF Truthful
<1>2. l \in Nat /\ l \in 1 .. l /\ f \in Frames
  BY <1>1
<1>3. f.bytes \in Seq(OutBytes \cup InBytes)
  BY <1>2 DEF Frames
<1>4. b \in Seq(OutBytes \cup InBytes) /\ Len(b) = Len(f.bytes) + 1
  BY <1>3, AppendLemma
<1>5. f.dir = "write" => \A i \in 1 .. Len(b) : b[i] = <<<<f.call, "out">>, i>>
  <2> SUFFICES ASSUME f.dir = "write"
               PROVE  \A i \in 1 .. Len(b) : b[i] = <<<<f.call, "out">>, i>>
    OBVIOUS
  <2>1. \A i \in 1 .. Len(f.bytes) : f.bytes[i] = <<<<f.call, "out">>, i>>
    BY <1>1, <1>2 DEF Whole
  <2>2. e = <<<<f.call, "out">>, Len(f.bytes) + 1>>
    OBVIOUS
  <2> QED BY <1>3, <2>1, <2>2, NextByte
<1> HIDE DEF b
<1>6. /\ h \in Frames /\ h.bytes = b /\ h.call = f.call /\ h.ack = f.ack
      /\ h.dir = f.dir
  BY <1>2, <1>4 DEF Frames
<1>7. [fr EXCEPT ![Len(fr)].bytes = Append(@, e)] = g
  BY DEF b
<1> HIDE DEF h, f
<1>8. /\ g \in Seq(Frames) /\ Len(g) = l /\ g[l] = h
      /\ \A i \in 1 .. l : i # l => g[i] = fr[i]
  BY <1>1, <1>2, <1>6
<1> HIDE DEF g
<1>9. Whole(h)
  BY <1>5, <1>6 DEF Whole
<1>10. \A i \in 1 .. Len(g) : Whole(g[i])
  BY <1>1, <1>8, <1>9
<1>11. g # <<>>
  BY <1>2, <1>8
<1> QED BY <1>4, <1>6, <1>7, <1>8, <1>10, <1>11 DEF Truthful, f

-----------------------------------------------------------------------------
(* What the port does, and what happens on the bus.                        *)

LEMMA CommandLemma ==
  ASSUME NEW s \in Drivers, s.command # <<>>
  PROVE  /\ s.command[1] \in Commands
         /\ s.command[1].op = "START" => s.command[1].dir \in Directions
                                        /\ s.command[1].call \in Nat
         /\ s.command[1].op = "TRANSMIT" => s.command[1].byte \in OutBytes
         /\ s.command[1].op = "RECEIVE" => s.command[1].n \in Nat \ {0}
<1>1. PICK c \in Commands : s.command = <<c>>
  BY DEF Drivers
<1>2. s.command[1] = c
  BY <1>1
<1> HIDE <1>1
<1> QED BY <1>2 DEF Commands

LEMMA StartSent ==
  ASSUME NEW s \in Drivers, NEW fr, Truthful(fr), DriverInv(s, fr),
         Doing1(s, "START"), NEW ack \in BOOLEAN
  PROVE  LET t == Finish(s, IF ack THEN {} ELSE {"NDF"}, TRUE)
             g == Append(fr, [call |-> s.command[1].call, ack |-> ack,
                              dir |-> s.command[1].dir, bytes |-> <<>>])
         IN  t \in Drivers /\ DriverInv(t, g) /\ Truthful(g)
<1> DEFINE c == s.command[1]
           flags == IF ack THEN {} ELSE {"NDF"}
           t == Finish(s, flags, TRUE)
           f == [call |-> c.call, ack |-> ack, dir |-> c.dir, bytes |-> <<>>]
           g == Append(fr, f)
<1>1. Bounded(s) /\ Consistent(s) /\ Queued(s, fr)
  BY DEF DriverInv
<1>2. s.command # <<>> /\ c.op = "START" /\ c.dir \in Directions /\ c.call \in Nat
  BY CommandLemma DEF Doing1
<1>3. Ends(s, t, flags, TRUE)
  BY CommandOver
<1> USE DEF Ends
<1>4. /\ f \in Frames /\ f.bytes = <<>> /\ Len(f.bytes) = 0 /\ f.dir = c.dir
      /\ f.call = c.call
  <2>1. <<>> \in Seq(OutBytes \cup InBytes)
    OBVIOUS
  <2> QED BY <1>2, <2>1 DEF Frames
<1>5. "SDF" \in t.MSR => "SDF" \in s.MSR
  BY <1>3
<1> HIDE DEF t, f, c
<1>6. Truthful(g) /\ g # <<>> /\ g[Len(g)] = f
  BY <1>4, FrameBegun
<1> HIDE DEF g
<1>7. s.MBF
  BY <1>1 DEF Consistent
<1>8. Consistent(t)
  BY <1>1, <1>3, <1>5, <1>7 DEF Consistent
<1>9. Starting(t) /\ Reading(t, g)
  BY <1>3 DEF Starting, Reading
<1>10. Writing(t, g)
  <2> SUFFICES ASSUME InWrite(t, g)
               PROVE  Writing(t, g)
    BY DEF Writing
  <2>1. c.dir = "write"
    BY <1>4, <1>6 DEF InWrite
  <2>2. Follows(s, c.call, 0) /\ Due(s, c.call, 0) /\ Fresh(s, c.call, 0)
    BY <1>1, <2>1 DEF Queued, Starting, c
  <2>3. Follows(t, c.call, 0) /\ Due(t, c.call, 0) /\ Fresh(t, c.call, 0)
    BY <1>3, <2>2
  <2>4. g[Len(g)].call = c.call /\ Len(g[Len(g)].bytes) + 0 = 0
    BY <1>4, <1>6
  <2> QED BY <1>3, <2>3, <2>4 DEF Writing
<1> QED BY <1>1, <1>3, <1>6, <1>8, <1>9, <1>10 DEF DriverInv, Queued, t, g, f, c

\* A slave takes the byte of a frame that is being written.
LEMMA ByteTaken ==
  ASSUME NEW s \in Drivers, NEW fr, Truthful(fr), DriverInv(s, fr),
         Doing1(s, "TRANSMIT"), InWrite(s, fr)
  PROVE  LET t == Finish(s, {}, TRUE)
             g == [fr EXCEPT ![Len(fr)].bytes = Append(@, s.command[1].byte)]
         IN  t \in Drivers /\ DriverInv(t, g) /\ Truthful(g)
<1> DEFINE c == s.command[1]
           flags == {}
           t == Finish(s, flags, TRUE)
           g == [fr EXCEPT ![Len(fr)].bytes = Append(@, c.byte)]
           k == fr[Len(fr)].call
           n == Len(fr[Len(fr)].bytes)
<1>1. Bounded(s) /\ Consistent(s) /\ Queued(s, fr)
  BY DEF DriverInv
<1>2. s.command # <<>> /\ c.byte \in OutBytes
  BY CommandLemma DEF Doing1
<1>0. flags \in SUBSET {"NDF", "ALF", "FEF", "SDF"} /\ TRUE \in BOOLEAN
  OBVIOUS
<1> HIDE DEF flags
<1>3. Ends(s, t, flags, TRUE)
  BY <1>0, CommandOver
<1> USE DEF Ends
<1>4. t.MSR = s.MSR
  BY <1>3 DEF flags
<1> HIDE DEF t
<1>5. s.MSR \cap Final = {} /\ s.MBF /\ fr # <<>>
  BY <1>1, <1>2 DEF Consistent, InWrite
<1>6. /\ c.byte = <<<<k, "out">>, n + 1>>
      /\ Follows(s, k, n + 1) /\ Due(s, k, n + 1) /\ Fresh(s, k, n + 1)
  BY <1>1, <1>2, <1>5 DEF Queued, Writing
<1>7. /\ Truthful(g) /\ g # <<>> /\ Len(g) = Len(fr)
      /\ g[Len(g)].call = k /\ g[Len(g)].ack = fr[Len(fr)].ack
      /\ g[Len(g)].dir = fr[Len(fr)].dir
      /\ Len(g[Len(g)].bytes) = n + 1
  BY <1>2, <1>5, <1>6, FrameGrown
<1> HIDE DEF g
<1>8. n + 1 \in Nat
  <2>1. fr[Len(fr)] \in Frames
    BY <1>5 DEF Truthful
  <2> QED BY <2>1 DEF Frames
<1> HIDE DEF k, n, c
<1>9. Consistent(t)
  BY <1>1, <1>3, <1>4, <1>5 DEF Consistent
<1>10. Starting(t) /\ Reading(t, g)
  BY <1>3 DEF Starting, Reading
<1>11. Writing(t, g)
  <2>1. Follows(t, k, n + 1) /\ Due(t, k, n + 1) /\ Fresh(t, k, n + 1)
    BY <1>3, <1>6
  <2>2. (n + 1) + 0 = n + 1
    BY <1>8
  <2> QED BY <1>3, <1>7, <2>1, <2>2 DEF Writing
<1> QED BY <1>1, <1>3, <1>7, <1>9, <1>10, <1>11 DEF DriverInv, Queued, t, flags, g, c

\* A byte is refused, or the port cannot carry out the command.
LEMMA CommandFailed ==
  ASSUME NEW s \in Drivers, NEW fr, Truthful(fr), DriverInv(s, fr),
         NEW flag \in {"NDF", "FEF"}, NEW busy \in BOOLEAN,
         busy => s.MBF,
         Doing1(s, "TRANSMIT") \/ Doing1(s, "RECEIVE")
  PROVE  LET t == Finish(s, {flag}, busy)
         IN  t \in Drivers /\ DriverInv(t, fr)
<1> DEFINE flags == {flag}
           t == Finish(s, flags, busy)
           k == fr[Len(fr)].call
           n == Len(fr[Len(fr)].bytes)
<1>1. Bounded(s) /\ Consistent(s) /\ Queued(s, fr)
  BY DEF DriverInv
<1>2. s.command # <<>>
  BY DEF Doing1
<1>0. flags \in SUBSET {"NDF", "ALF", "FEF", "SDF"}
  OBVIOUS
<1> HIDE DEF flags
<1>3. Ends(s, t, flags, busy)
  BY <1>0, CommandOver
<1> USE DEF Ends
<1> HIDE DEF t
<1>4. /\ s.MSR \cap Final = {} /\ t.MSR \cap Final # {}
      /\ "SDF" \in t.MSR => "SDF" \in s.MSR
  BY <1>1, <1>2, <1>3 DEF Consistent, Final, Failures, flags
<1>5. Consistent(t)
  BY <1>1, <1>3, <1>4 DEF Consistent
<1>6. Starting(t) /\ Reading(t, fr)
  BY <1>3 DEF Starting, Reading
<1>7. InWrite(t, fr) => InWrite(s, fr) /\ fr # <<>>
  BY <1>3 DEF InWrite
<1>8. fr # <<>> => n \in Nat
  <2>1. fr # <<>> => fr[Len(fr)] \in Frames
    BY DEF Truthful
  <2> QED BY <2>1 DEF Frames
<1> HIDE DEF k
<1>9. InWrite(t, fr) => Fresh(s, k, n)
  <2> SUFFICES ASSUME InWrite(t, fr)
               PROVE  Fresh(s, k, n)
    OBVIOUS
  <2>1. InWrite(s, fr) /\ n \in Nat
    BY <1>7, <1>8
  <2>2. CASE Doing1(s, "TRANSMIT")
    <3>1. Fresh(s, k, n + 1)
      BY <1>1, <1>2, <2>1, <2>2 DEF Queued, Writing, k
    <3> HIDE DEF n
    <3>2. ~(n + 1 + Len(s.MTDR) = 0)
      <4>1. Len(s.MTDR) \in Nat
        BY DEF Drivers
      <4> DEFINE l == Len(s.MTDR)
      <4>2. n \in Nat /\ l \in Nat
        BY <2>1, <4>1
      <4> HIDE DEF l
      <4>3. ~(n + 1 + l = 0)
        BY ONLY <4>2
      <4> QED BY <4>3 DEF l
    <3> QED BY <3>1, <3>2 DEF Fresh
  <2>3. CASE Doing1(s, "RECEIVE")
    <3>1. ~s.ignore_tdf => Len(s.MTDR) > 0 /\ s.MTDR[1].op # "TRANSMIT"
      BY <1>1, <2>1, <2>3 DEF Queued, Reading
    <3>2. Len(s.MTDR) \in Nat
      BY DEF Drivers
    <3>3. ~s.ignore_tdf => ~Only(s, "TRANSMIT")
      BY <3>1, <3>2 DEF Only
    <3> QED BY <3>3 DEF Fresh
  <2> QED BY <2>2, <2>3
<1>10. Writing(t, fr)
  <2> SUFFICES ASSUME InWrite(t, fr)
               PROVE  Writing(t, fr)
    BY DEF Writing
  <2>1. Fresh(t, k, n) /\ n \in Nat
    BY <1>3, <1>7, <1>8, <1>9
  <2>2. n + 0 = n
    BY <2>1
  <2> QED BY <1>3, <1>4, <2>1, <2>2 DEF Writing, k
<1> QED BY <1>1, <1>3, <1>5, <1>6, <1>10 DEF DriverInv, Queued, t, flags

LEMMA ByteReceived ==
  ASSUME NEW s \in Drivers, NEW fr, Truthful(fr), DriverInv(s, fr),
         Doing1(s, "RECEIVE"), fr # <<>>, fr[Len(fr)].dir = "read",
         Len(s.MRDR) < NUM_FIFOS
  PROVE  LET byte == <<Len(fr), Len(fr[Len(fr)].bytes) + 1>>
             n == s.command[1].n
             t == [s EXCEPT !.MRDR = Append(@, byte),
                     !.command = IF n = 1 THEN <<>> ELSE <<[@[1] EXCEPT !.n = n - 1]>>]
             g == [fr EXCEPT ![Len(fr)].bytes = Append(@, byte)]
         IN  t \in Drivers /\ DriverInv(t, g) /\ Truthful(g)
<1> USE MasterAssumption
<1> DEFINE byte == <<Len(fr), Len(fr[Len(fr)].bytes) + 1>>
           c == s.command[1]
           n == c.n
           next == IF n = 1 THEN <<>> ELSE <<[c EXCEPT !.n = n - 1]>>
           fifo == Append(s.MRDR, byte)
           t == [s EXCEPT !.MRDR = fifo, !.command = next]
           g == [fr EXCEPT ![Len(fr)].bytes = Append(@, byte)]
<1>1. Bounded(s) /\ Consistent(s) /\ Queued(s, fr)
  BY DEF DriverInv
<1>2. s.command # <<>> /\ c.op = "RECEIVE" /\ c \in Commands /\ n \in Nat \ {0}
  BY CommandLemma DEF Doing1
<1>3. next = <<>> \/ \E d \in Commands : next = <<d>> /\ d.op = "RECEIVE"
  <2>1. CASE n = 1
    BY <2>1
  <2>2. CASE n # 1
    <3> DEFINE d == [c EXCEPT !.n = n - 1]
    <3>1. n - 1 \in Nat \ {0}
      BY <1>2, <2>2
    <3>2. c \in [op : {"RECEIVE"}, n : Nat \ {0}]
      BY <1>2 DEF Commands
    <3>3. d \in [op : {"RECEIVE"}, n : Nat \ {0}]
      BY <3>1, <3>2
    <3>4. next = <<d>>
      BY <2>2
    <3> HIDE DEF d, next
    <3>5. d \in Commands /\ d.op = "RECEIVE"
      BY <3>3 DEF Commands
    <3> QED BY <3>4, <3>5
  <2> QED BY <2>1, <2>2
<1>4. fr \in Seq(Frames) /\ fr[Len(fr)] \in Frames
  BY DEF Truthful
<1>5. byte \in InBytes
  BY <1>4 DEF InBytes, Frames
<1> HIDE DEF byte, next
<1>6. s.MRDR \in Seq(InBytes)
  BY DEF Drivers
<1>7. fifo \in Seq(InBytes) /\ Len(fifo) = Len(s.MRDR) + 1
  BY <1>5, <1>6, AppendLemma
<1> HIDE DEF fifo
<1>8. next \in {<<>>} \cup {<<d>> : d \in Commands}
  BY <1>3
<1>9. /\ t \in Drivers /\ t.MRDR = fifo /\ t.command = next
      /\ t.MTDR = s.MTDR /\ t.ignore_tdf = s.ignore_tdf
      /\ t.buffer = s.buffer /\ t.done = s.done /\ t.size = s.size
      /\ t.state = s.state /\ t.MSR = s.MSR /\ t.MBF = s.MBF
  BY <1>7, <1>8 DEF Drivers
<1>10. [s EXCEPT !.MRDR = Append(@, byte),
          !.command = IF n = 1 THEN <<>> ELSE <<[@[1] EXCEPT !.n = n - 1]>>] = t
  BY DEF next, fifo
<1> HIDE DEF t
<1>11. /\ Truthful(g) /\ g # <<>> /\ Len(g) = Len(fr)
       /\ g[Len(g)].dir = fr[Len(fr)].dir
  BY <1>5, FrameGrown
<1> HIDE DEF g
<1>12. ~InWrite(t, g)
  BY <1>11 DEF InWrite
<1>13. \A op \in {"START", "TRANSMIT"} : ~Doing1(t, op)
  <2>1. next # <<>> => next[1].op = "RECEIVE"
    BY <1>3
  <2> QED BY <1>9, <2>1 DEF Doing1
<1>14. Bounded(t)
  <2>1. Len(s.MRDR) \in Nat
    BY <1>6
  <2>2. Len(fifo) <= NUM_FIFOS
    BY <1>7, <2>1
  <2> QED BY <1>1, <1>9, <2>2 DEF Bounded
<1>15. s.MSR \cap Final = {}
  BY <1>1, <1>2 DEF Consistent
<1>16. Consistent(t)
  BY <1>1, <1>9, <1>13, <1>15 DEF Consistent, Has, First
<1>17. Queued(t, g)
  BY <1>12, <1>13 DEF Queued, Starting, Writing, Reading
<1> QED BY <1>9, <1>10, <1>11, <1>14, <1>16, <1>17 DEF DriverInv, g, byte

LEMMA PinHeldLow ==
  ASSUME NEW s \in Drivers, NEW fr, DriverInv(s, fr)
  PROVE  LET t == [s EXCEPT !.MSR = @ \cup {"PLTF"}]
         IN  t \in Drivers /\ DriverInv(t, fr)
<1> DEFINE msr == s.MSR \cup {"PLTF"}
           t == [s EXCEPT !.MSR = msr]
<1>1. msr \in SUBSET (Failures \cup {"SDF"})
  BY DEF Drivers, Failures
<1>2. msr \cap Final = s.MSR \cap Final /\ ("SDF" \in msr => "SDF" \in s.MSR)
  BY DEF Final
<1> HIDE DEF msr
<1>3. /\ t \in Drivers /\ t.MSR = msr /\ t.MBF = s.MBF /\ t.command = s.command
      /\ t.MTDR = s.MTDR /\ t.MRDR = s.MRDR /\ t.ignore_tdf = s.ignore_tdf
      /\ t.buffer = s.buffer /\ t.done = s.done /\ t.size = s.size
      /\ t.state = s.state
  BY <1>1 DEF Drivers
<1> HIDE DEF t
<1>4. Bounded(t) /\ (t.state = "stopping" => ~Has(s, "TRANSMIT"))
  BY <1>3 DEF DriverInv, Bounded, Consistent
<1>5. DriverInv(t, fr)
  BY <1>2, <1>3, <1>4, Touched
<1> QED BY <1>3, <1>5 DEF t, msr

-----------------------------------------------------------------------------
(* The invariant of the whole, and the theorems.                           *)

Asked == [phase : {"register", "transfer"}, asked : Calls, ready : BOOLEAN,
          timedOut : BOOLEAN]
Results == [asked : Calls, ready : BOOLEAN, timedOut : BOOLEAN,
            data : Seq(OutBytes \cup InBytes), code : Nat, count : Nat]

Faults == {"NAK", "NAK too late", "arbitration", "pin", "begin"}

\* What the calls and the faults keep in reach of the driver.
CallerInv ==
  /\ call = NoCall \/ call \in Asked
  /\ results \in Seq(Results)
  /\ faults \in Seq(Faults) /\ Len(faults) <= MAX_FAULTS

IInv == DriverInv(i2c, frames) /\ Truthful(frames) /\ CallerInv

LEMMA MinLemma ==
  ASSUME NEW a \in Nat, NEW b \in Nat
  PROVE  Min({a, b}) \in Nat
<1>1. \E x \in {a, b} : \A y \in {a, b} : x <= y
  <2>1. CASE a <= b
    BY <2>1
  <2>2. CASE ~(a <= b)
    BY <2>2
  <2> QED BY <2>1, <2>2
<1>2. Min({a, b}) \in {a, b}
  BY <1>1 DEF Min
<1> QED BY <1>2

LEMMA InitInv == Init => IInv
<1> SUFFICES ASSUME Init
             PROVE  IInv
  OBVIOUS
<1> USE DEF Init, MasterInit
<1>1. /\ <<>> \in Seq(Commands) /\ <<>> \in Seq(InBytes) /\ Len(<<>>) = 0
      /\ <<>> \in Seq(OutBytes \cup InBytes)
  OBVIOUS
<1>2. i2c \in Drivers
  BY <1>1 DEF Drivers, States, Errors, Buffers
<1>3. /\ i2c.MTDR = <<>> /\ i2c.MRDR = <<>> /\ i2c.done = <<>> /\ i2c.size = 0
      /\ i2c.MSR = {} /\ i2c.MBF = FALSE /\ i2c.command = <<>>
      /\ i2c.state = "idle" /\ i2c.ignore_tdf = FALSE /\ frames = <<>>
  OBVIOUS
<1>4. Len(i2c.MTDR) = 0 /\ Len(i2c.MRDR) = 0 /\ Len(i2c.done) = 0 /\ Len(frames) = 0
  BY <1>3
<1>5. Bounded(i2c)
  BY <1>3, <1>4, MasterAssumption DEF Bounded
<1>6. Consistent(i2c)
  BY <1>3, <1>4 DEF Consistent, Has, First, Doing1
<1>7. Queued(i2c, frames)
  BY <1>3 DEF Queued, Starting, Writing, Reading, InWrite, Doing1
<1>8. Truthful(frames)
  <2>1. frames \in Seq(Frames)
    BY <1>3
  <2> QED BY <1>4, <2>1 DEF Truthful
<1>9. CallerInv
  <2>1. results \in Seq(Results) /\ faults \in Seq(Faults) /\ Len(faults) = 0
    OBVIOUS
  <2> QED BY <2>1, MasterAssumption DEF CallerInv
<1> QED BY <1>2, <1>5, <1>6, <1>7, <1>8, <1>9 DEF IInv, DriverInv

LEMMA FaultLemma ==
  ASSUME CallerInv, NEW kind \in Faults, Fault(kind), UNCHANGED <<call, results>>
  PROVE  CallerInv'
<1> DEFINE q == faults
<1>1. q \in Seq(Faults) /\ Len(q) < MAX_FAULTS /\ faults' = Append(q, kind)
  BY MasterAssumption DEF CallerInv, Fault
<1> HIDE DEF q
<1>2. Append(q, kind) \in Seq(Faults) /\ Len(Append(q, kind)) = Len(q) + 1
  BY <1>1, AppendLemma
<1>3. Len(q) \in Nat
  BY <1>1
<1>4. Len(q) + 1 <= MAX_FAULTS
  BY <1>1, <1>3, MasterAssumption
<1>5. faults' \in Seq(Faults) /\ Len(faults') <= MAX_FAULTS
  BY <1>1, <1>2, <1>4
<1> QED BY <1>5 DEF CallerInv

LEMMA Unfaulted ==
  ASSUME CallerInv, UNCHANGED <<call, results, faults>>
  PROVE  CallerInv'
  BY DEF CallerInv

\* A call, while no interrupt waits.
LEMMA CallerStep ==
  ASSUME IInv, ~Pending, Caller
  PROVE  IInv'
<1> USE MasterAssumption, CallsAssumption
<1>1. DriverInv(i2c, frames) /\ Truthful(frames) /\ CallerInv /\ i2c \in Drivers
  BY DEF IInv, DriverInv
<1>2. i2c.MSR = {}
  BY DEF Pending
<1>3. Number \in Nat
  <2>1. results \in Seq(Results)
    BY <1>1 DEF CallerInv
  <2> QED BY <2>1 DEF Number
<1>4. ASSUME NEW c \in Calls
      PROVE  c.n \in Nat /\ c.stop \in BOOLEAN /\ c.n + 1 \in Nat
             /\ Min({c.n, rx_buffer_length}) \in Nat
  <2>1. c.n \in Nat /\ c.stop \in BOOLEAN
    BY <1>4
  <2> QED BY <2>1, MinLemma
<1>5. CASE Begin
  <2>1. PICK c \in Calls :
          /\ IF c.by = "device" THEN BeginDevice(c) ELSE BeginWire(c)
          /\ call' = [phase |-> IF c.by = "device" /\ c.op = "read"
                                THEN "register" ELSE "transfer",
                      asked |-> c, ready |-> finished(i2c), timedOut |-> FALSE]
    BY <1>5 DEF Begin
  <2>2. UNCHANGED <<frames, faults, results>>
    BY <1>5 DEF Begin
  <2>3. DriverInv(i2c', frames)
    <3>1. CASE c.by = "device" /\ c.op = "write"
      BY <1>1, <1>2, <1>3, <1>4, <2>1, <3>1, WriteCall DEF BeginDevice
    <3>2. CASE c.by = "device" /\ c.op # "write"
      <4>1. i2c' = write_async(i2c, Number, 1, FALSE)
        BY <2>1, <3>2 DEF BeginDevice
      <4>2. 1 \in Nat /\ FALSE \in BOOLEAN
        OBVIOUS
      <4> QED BY <1>1, <1>2, <1>3, <4>1, <4>2, WriteCall
    <3>3. CASE c.by # "device" /\ c.op = "write"
      BY <1>1, <1>2, <1>3, <1>4, <2>1, <3>3, WriteCall DEF BeginWire
    <3>4. CASE c.by # "device" /\ c.op # "write"
      BY <1>1, <1>2, <1>3, <1>4, <2>1, <3>4, ReadCall DEF BeginWire
    <3> QED BY <3>1, <3>2, <3>3, <3>4
  <2>4. call' \in Asked
    BY <2>1 DEF Asked, finished
  <2>5. CallerInv'
    BY <1>1, <2>2, <2>4 DEF CallerInv
  <2> QED BY <1>1, <2>2, <2>3, <2>5 DEF IInv
<1>6. CASE TimeOut
  <2>1. call \in Asked /\ call' = [call EXCEPT !.timedOut = TRUE]
        /\ UNCHANGED <<i2c, frames, faults, results>>
    BY <1>1, <1>6 DEF TimeOut, CallerInv
  <2>2. call' \in Asked
    BY <2>1 DEF Asked
  <2>3. CallerInv'
    BY <1>1, <2>1, <2>2 DEF CallerInv
  <2> QED BY <1>1, <2>1, <2>3 DEF IInv
<1>7. CASE ReadRegister
  <2>1. call \in Asked /\ call' = [call EXCEPT !.phase = "transfer"]
        /\ UNCHANGED <<frames, faults, results>>
        /\ i2c' = read_async(i2c, Number, call.asked.n, call.asked.stop)
    BY <1>1, <1>7 DEF ReadRegister, Waited, CallerInv
  <2>2. call' \in Asked /\ call.asked \in Calls
    BY <2>1 DEF Asked
  <2>3. CallerInv'
    BY <1>1, <2>1, <2>2 DEF CallerInv
  <2>4. DriverInv(i2c', frames)
    BY <1>1, <1>2, <1>3, <1>4, <2>1, <2>2, ReadCall
  <2> QED BY <1>1, <2>1, <2>3, <2>4 DEF IInv
<1>8. CASE Return
  <2> DEFINE r == [asked |-> call.asked, ready |-> call.ready,
                   timedOut |-> call.timedOut, data |-> Stored,
                   code |-> toWireResult(i2c.error), count |-> Len(i2c.done)]
  <2>1. call \in Asked /\ call' = NoCall /\ results' = Append(results, r)
        /\ UNCHANGED <<i2c, frames, faults>>
    BY <1>1, <1>8 DEF Return, Waited, CallerInv
  <2>2. i2c.done \in Seq(OutBytes \cup InBytes)
    BY <1>1 DEF Drivers
  <2>3. Stored \in Seq(OutBytes \cup InBytes) /\ Len(i2c.done) \in Nat
    BY <2>2 DEF Stored
  <2>4. toWireResult(i2c.error) \in Nat
    BY DEF toWireResult
  <2>5. r \in Results
    BY <2>1, <2>3, <2>4 DEF Asked, Results
  <2> HIDE DEF r
  <2>6. results' \in Seq(Results)
    BY <1>1, <2>1, <2>5, AppendLemma DEF CallerInv
  <2>7. CallerInv'
    BY <1>1, <2>1, <2>6 DEF CallerInv
  <2> QED BY <1>1, <2>1, <2>7 DEF IInv
<1>9. CASE Restart
  <2> DEFINE t == [i2c EXCEPT !.MTDR = <<>>, !.MRDR = <<>>, !.MSR = {}, !.MBF = FALSE,
                              !.TDIE = FALSE, !.command = <<>>]
  <2>1. i2c' = t /\ UNCHANGED <<frames, call, results>> /\ Fault("begin")
    BY <1>9 DEF Restart, begin
  <2>2. <<>> \in Seq(Commands) /\ <<>> \in Seq(InBytes)
    OBVIOUS
  <2>3. /\ t \in Drivers /\ t.MTDR = <<>> /\ t.MRDR = <<>> /\ t.MBF = FALSE
        /\ t.command = <<>> /\ t.ignore_tdf = i2c.ignore_tdf /\ t.buffer = i2c.buffer
        /\ t.done = i2c.done /\ t.size = i2c.size /\ t.state = i2c.state
    BY <1>1, <2>2 DEF Drivers
  <2> HIDE DEF t
  <2>4. Len(t.MTDR) = 0 /\ Len(t.MRDR) = 0
    BY <2>3
  <2>5. Bounded(t)
    BY <1>1, <2>3, <2>4 DEF DriverInv, Bounded
  <2>6. DriverInv(t, frames)
    BY <1>1, <2>3, <2>5, BusReleased
  <2>7. CallerInv'
    <3>1. "begin" \in Faults
      BY DEF Faults
    <3> QED BY <1>1, <2>1, <3>1, FaultLemma
  <2> QED BY <1>1, <2>1, <2>6, <2>7 DEF IInv
<1> QED BY <1>5, <1>6, <1>7, <1>8, <1>9 DEF Caller

\* The interrupt service routine, or a step of the port.
LEMMA TransferStep ==
  ASSUME IInv, Transfer
  PROVE  IInv'
<1> USE MasterAssumption
<1>1. DriverInv(i2c, frames) /\ Truthful(frames) /\ CallerInv /\ i2c \in Drivers
      /\ frames \in Seq(Frames) /\ UNCHANGED <<call, results>>
  BY DEF IInv, DriverInv, Truthful, Transfer
<1>2. \A op, dir : /\ Doing(op) => Doing1(i2c, op)
                   /\ InFrame(dir) <=> /\ i2c.MBF /\ frames # <<>>
                                       /\ frames[Len(frames)].ack
                                       /\ frames[Len(frames)].dir = dir
  BY DEF Doing, Doing1, InFrame, Last
<1>3. InFrame("write") <=> InWrite(i2c, frames)
  BY <1>2 DEF InWrite
<1>4. \A flags, busy : Over(flags, busy) => i2c' = Finish(i2c, flags, busy)
  BY DEF Over, Finish
<1>5. CASE interrupt_service_routine
  <2>1. DriverInv(i2c', frames) /\ UNCHANGED <<frames, faults>>
    BY <1>1, <1>5, InterruptLemma DEF interrupt_service_routine
  <2> QED BY <1>1, <2>1, Unfaulted DEF IInv
<1>6. CASE TakeCommand
  <2>1. DriverInv(i2c', frames) /\ UNCHANGED <<frames, faults>>
    BY <1>1, <1>6, CommandTaken DEF TakeCommand
  <2> QED BY <1>1, <2>1, Unfaulted DEF IInv
<1>7. CASE SendStart
  <2>1. PICK ack \in BOOLEAN :
          /\ frames' = Append(frames, [call |-> i2c.command[1].call, ack |-> ack,
                                       dir |-> i2c.command[1].dir, bytes |-> <<>>])
          /\ Over(IF ack THEN {} ELSE {"NDF"}, TRUE)
          /\ Answer(ack, "NAK")
    BY <1>7 DEF SendStart
  <2>2. Doing1(i2c, "START") /\ i2c' = Finish(i2c, IF ack THEN {} ELSE {"NDF"}, TRUE)
    BY <1>2, <1>4, <1>7, <2>1 DEF SendStart
  <2>3. DriverInv(i2c', frames') /\ Truthful(frames')
    BY <1>1, <2>1, <2>2, StartSent
  <2>4. CallerInv'
    <3>1. "NAK" \in Faults /\ (UNCHANGED faults \/ Fault("NAK"))
      BY <2>1 DEF Faults, Answer
    <3> QED BY <1>1, <3>1, FaultLemma, Unfaulted
  <2> QED BY <2>3, <2>4 DEF IInv
<1>8. CASE SendByte
  <2>1. Doing1(i2c, "TRANSMIT") /\ InWrite(i2c, frames)
    BY <1>2, <1>3, <1>8 DEF SendByte
  <2>2. PICK ack \in BOOLEAN :
          /\ IF ack THEN Transferred(i2c.command[1].byte) ELSE UNCHANGED frames
          /\ Over(IF ack THEN {} ELSE {"NDF"}, TRUE)
          /\ Answer(ack, IF \E c \in ToSet(i2c.MTDR) : c.op = "START"
                         THEN "NAK too late" ELSE "NAK")
    BY <1>8 DEF SendByte
  <2>3. DriverInv(i2c', frames') /\ Truthful(frames')
    <3>1. CASE ack
      <4>1. i2c' = Finish(i2c, {}, TRUE)
            /\ frames' = [frames EXCEPT ![Len(frames)].bytes =
                                           Append(@, i2c.command[1].byte)]
        BY <1>4, <2>2, <3>1 DEF Transferred
      <4> QED BY <1>1, <2>1, <4>1, ByteTaken
    <3>2. CASE ~ack
      <4>1. i2c' = Finish(i2c, {"NDF"}, TRUE) /\ frames' = frames
        BY <1>4, <2>2, <3>2
      <4>2. i2c.MBF
        BY <2>1 DEF InWrite
      <4>3. "NDF" \in {"NDF", "FEF"} /\ TRUE \in BOOLEAN
        OBVIOUS
      <4> QED BY <1>1, <2>1, <4>1, <4>2, <4>3, CommandFailed
    <3> QED BY <3>1, <3>2
  <2>4. CallerInv'
    <3>1. /\ "NAK" \in Faults /\ "NAK too late" \in Faults
          /\ UNCHANGED faults \/ Fault("NAK") \/ Fault("NAK too late")
      BY <2>2 DEF Faults, Answer
    <3> QED BY <1>1, <3>1, FaultLemma, Unfaulted
  <2> QED BY <2>3, <2>4 DEF IInv
<1>9. CASE ReceiveByte
  <2>1. Doing1(i2c, "RECEIVE") /\ frames # <<>> /\ frames[Len(frames)].dir = "read"
        /\ Len(i2c.MRDR) < NUM_FIFOS /\ UNCHANGED faults
    BY <1>2, <1>9 DEF ReceiveByte
  <2>2. DriverInv(i2c', frames') /\ Truthful(frames')
    BY <1>1, <1>9, <2>1, ByteReceived DEF ReceiveByte, Transferred, Last
  <2> QED BY <1>1, <2>1, <2>2, Unfaulted DEF IInv
<1>10. CASE FifoError
  <2>1. Doing1(i2c, "TRANSMIT") \/ Doing1(i2c, "RECEIVE")
    BY <1>2, <1>10 DEF FifoError
  <2>2. i2c' = Finish(i2c, {"FEF"}, i2c.MBF) /\ UNCHANGED <<frames, faults>>
    BY <1>4, <1>10 DEF FifoError
  <2>3. i2c.MBF \in BOOLEAN /\ "FEF" \in {"NDF", "FEF"}
    BY <1>1 DEF Drivers
  <2>4. DriverInv(i2c', frames)
    BY <1>1, <2>1, <2>2, <2>3, CommandFailed
  <2> QED BY <1>1, <2>2, <2>4, Unfaulted DEF IInv
<1>11. ASSUME NEW flags \in SUBSET {"NDF", "ALF", "FEF", "SDF"}, Over(flags, FALSE),
              UNCHANGED frames
       PROVE  DriverInv(i2c', frames')
  <2>1. i2c' = Finish(i2c, flags, FALSE) /\ FALSE \in BOOLEAN
    BY <1>4, <1>11
  <2>2. Ends(i2c, i2c', flags, FALSE)
    BY <1>1, <2>1, CommandOver
  <2>3. Bounded(i2c)
    BY <1>1 DEF DriverInv
  <2>4. DriverInv(i2c', frames)
    BY <1>1, <2>2, <2>3, BusReleased DEF Ends
  <2> QED BY <1>11, <2>4
<1>12. CASE SendStop
  <2>1. DriverInv(i2c', frames') /\ UNCHANGED <<frames, faults>>
    BY <1>11, <1>12 DEF SendStop
  <2> QED BY <1>1, <2>1, Unfaulted DEF IInv
<1>13. CASE LoseArbitration
  <2>1. DriverInv(i2c', frames') /\ UNCHANGED frames
    BY <1>11, <1>13 DEF LoseArbitration
  <2>2. CallerInv'
    <3>1. "arbitration" \in Faults /\ Fault("arbitration")
      BY <1>13 DEF Faults, LoseArbitration
    <3> QED BY <1>1, <3>1, FaultLemma
  <2> QED BY <1>1, <2>1, <2>2 DEF IInv
<1>14. CASE HoldPinLow
  <2>1. DriverInv(i2c', frames) /\ UNCHANGED frames
    BY <1>1, <1>14, PinHeldLow DEF HoldPinLow
  <2>2. CallerInv'
    <3>1. "pin" \in Faults /\ Fault("pin")
      BY <1>14 DEF Faults, HoldPinLow
    <3> QED BY <1>1, <3>1, FaultLemma
  <2> QED BY <1>1, <2>1, <2>2 DEF IInv
<1> QED BY <1>5, <1>6, <1>7, <1>8, <1>9, <1>10, <1>12, <1>13, <1>14 DEF Transfer, Port

LEMMA NextInv == IInv /\ [Next]_vars => IInv'
<1> SUFFICES ASSUME IInv, [Next]_vars
             PROVE  IInv'
  OBVIOUS
<1>1. CASE ~Pending /\ Caller
  BY <1>1, CallerStep
<1>2. CASE Transfer
  BY <1>2, TransferStep
<1>3. CASE UNCHANGED vars
  BY <1>3 DEF vars, IInv, CallerInv
<1> QED BY <1>1, <1>2, <1>3 DEF Next

LEMMA Invariance == Spec => []IInv
<1> QED BY InitInv, NextInv, PTL DEF Spec

\* The driver, its FIFOs and its buffer stay within their bounds (the FIFOs of
\* the port, I2CBuffer), for any calls, faults and delays.
THEOREM TypeCorrect == Spec => []TypeOK
<1>1. IInv => TypeOK
  <2> SUFFICES ASSUME IInv
               PROVE  TypeOK
    OBVIOUS
  <2>1. i2c \in Drivers /\ Bounded(i2c) /\ Len(faults) <= MAX_FAULTS
    BY DEF IInv, DriverInv, CallerInv
  <2>2. Len(i2c.command) <= 1
    <3>1. CASE i2c.command = <<>>
      BY <3>1
    <3>2. CASE i2c.command # <<>>
      <4>1. PICK c \in Commands : i2c.command = <<c>>
        BY <2>1, <3>2 DEF Drivers
      <4> QED BY <4>1
    <3> QED BY <3>1, <3>2
  <2>3. /\ i2c.state \in States /\ i2c.error \in Errors
        /\ i2c.MSR \subseteq Failures \cup {"SDF"}
    BY <2>1 DEF Drivers
  <2> QED BY <2>1, <2>2, <2>3 DEF TypeOK, Bounded
<1> QED BY <1>1, Invariance, PTL

\* What a slave takes in one frame is the buffer of one call, in order and from
\* its first byte (start(), the abort path and the refill of the FIFO), for any
\* calls, faults and delays.
THEOREM FramesAreOfOneCall == Spec => []FramesAreCalls
<1>1. IInv => FramesAreCalls
  <2> SUFFICES ASSUME IInv, NEW f \in DOMAIN frames, frames[f].dir = "write"
               PROVE  frames[f].bytes = [i \in DOMAIN frames[f].bytes |->
                                           <<<<frames[f].call, "out">>, i>>]
    BY DEF FramesAreCalls
  <2> DEFINE b == frames[f].bytes
             x == <<frames[f].call, "out">>
  <2>1. frames[f] \in Frames /\ Whole(frames[f])
    BY DEF IInv, Truthful
  <2>2. b \in Seq(OutBytes \cup InBytes) /\ \A i \in 1 .. Len(b) : b[i] = <<x, i>>
    BY <2>1 DEF Frames, Whole
  <2> HIDE DEF b, x
  <2>3. DOMAIN b = 1 .. Len(b) /\ b = [i \in DOMAIN b |-> b[i]]
    BY <2>2
  <2>4. \A i \in DOMAIN b : b[i] = <<x, i>>
    BY <2>2, <2>3
  <2>5. b = [i \in DOMAIN b |-> <<x, i>>]
    BY <2>3, <2>4
  <2> QED BY <2>5 DEF b, x
<1> QED BY <1>1, Invariance, PTL

-----------------------------------------------------------------------------
(* While nothing disturbs the calls: whose bytes are moved.  An interrupt   *)
(* is served before anything else goes on, so that little happens while     *)
(* one waits.                                                               *)

\* Nothing goes on at the port.
Still(s) ==
  s.MTDR = <<>> /\ s.MRDR = <<>> /\ s.MSR = {} /\ s.command = <<>> /\ ~s.TDIE

\* A write whose first byte is not queued yet.
Unbegun(s) == ~s.ignore_tdf /\ s.done = <<>>

\* What is true while a byte or a STOP is still to be told to the driver.
Prompt(s) ==
  /\ s.MRDR # <<>> =>
       /\ s.MSR = {} /\ s.ignore_tdf /\ Only(s, "STOP")
       /\ s.command = <<>> \/ Doing1(s, "RECEIVE")
       /\ Len(s.MRDR) + Len(s.done) <= s.size
  /\ "SDF" \in s.MSR =>
       /\ s.MSR = {"SDF"} /\ s.command = <<>> /\ ~s.MBF
       /\ ~Has(s, "START") /\ ~Has(s, "RECEIVE")

\* The order of the queue: a STOP is the last command, and a STOP only comes
\* behind the bytes to receive, for which the buffer has room.
Ordered(s) ==
  \A j \in 1 .. Len(s.MTDR) :
    /\ s.MTDR[j].op = "STOP" => j = Len(s.MTDR)
    /\ s.MTDR[j].op = "RECEIVE" =>
         /\ s.MTDR[j].n + Len(s.done) <= s.size
         /\ \A i \in 1 .. Len(s.MTDR) : i > j => s.MTDR[i].op = "STOP"

\* How what is queued and sent belongs to the driver's state.
Shape(s) ==
  /\ Doing1(s, "RECEIVE") =>
       /\ Only(s, "STOP") /\ s.ignore_tdf
       /\ s.command[1].n + Len(s.MRDR) + Len(s.done) <= s.size
  /\ Doing1(s, "STOP") /\ s.MBF => ~Has(s, "START") /\ ~Has(s, "RECEIVE")
  /\ Has(s, "START") => s.state = "starting"
  /\ Has(s, "TRANSMIT") => ~s.ignore_tdf /\ s.done # <<>> /\ s.state # "starting"
  /\ Has(s, "STOP") /\ ~s.ignore_tdf => s.state # "transferring"
  /\ ~s.ignore_tdf /\ s.state = "transferring" =>
       /\ s.done # <<>>
       /\ Doing1(s, "START") \/ Doing1(s, "STOP") => s.MTDR # <<>>
  /\ Doing1(s, "START") => s.MBF
  /\ Doing1(s, "TRANSMIT") /\ s.state = "starting" /\ s.MBF => Has(s, "START")

Reads(s) == s.MRDR # <<>> \/ Has(s, "RECEIVE") \/ Doing1(s, "RECEIVE")

\* A driver that has finished has no transfer of its own at the port.
Quiet(s) ==
  finished(s) =>
    /\ ~Doing1(s, "START") /\ ~Has(s, "START") /\ ~Reads(s)
    /\ Doing1(s, "STOP") => ~s.MBF
    /\ s.MTDR # <<>> =>
         ~s.MBF /\ (s.command = <<>> \/ (Doing1(s, "TRANSMIT") /\ s.done # <<>>))

\* Before the first byte of a write: its START is queued, is being sent, or
\* has been given up and waits for a STOP.
Waiting(s) ==
  Unbegun(s) =>
    \/ Still(s)
    \/ /\ s.size > 0 /\ ~finished(s) /\ s.MRDR = <<>>
       /\ \/ /\ Len(s.MTDR) = 1 /\ First(s, "START") /\ s.TDIE
             /\ ~Doing1(s, "START") /\ (Doing1(s, "STOP") => ~s.MBF)
          \/ Doing1(s, "START") /\ s.MTDR = <<>> /\ s.TDIE /\ s.MSR = {}
          \/ /\ s.state = "stopping" /\ ~Doing1(s, "START")
             /\ s.MTDR = <<>> \/ s.MTDR = <<STOP>>
             /\ Doing1(s, "STOP") /\ s.MBF => s.MTDR = <<>>
             /\ "SDF" \in s.MSR => s.MTDR = <<>>

\* Without a call that owns the buffer nothing is stored in it or read from it.
Owned(s, live) ==
  ~live => /\ ~Reads(s)
           /\ s.ignore_tdf \/ s.state # "transferring"
           /\ Unbegun(s) => Still(s)

Own(s, live) ==
  /\ Prompt(s) /\ Ordered(s) /\ Shape(s) /\ Quiet(s) /\ Waiting(s)
  /\ Owned(s, live)

LEMMA EmptyFifo ==
  ASSUME NEW s, s.MTDR = <<>>
  PROVE  /\ Len(s.MTDR) = 0 /\ Ordered(s)
         /\ \A op : ~Has(s, op) /\ Only(s, op) /\ ~First(s, op)
<1>1. Len(s.MTDR) = 0
  OBVIOUS
<1> QED BY <1>1 DEF Ordered, Has, Only, First

LEMMA OneStop ==
  ASSUME NEW s, s.MTDR = <<STOP>>
  PROVE  /\ Len(s.MTDR) = 1 /\ s.MTDR # <<>> /\ Ordered(s)
         /\ \A op : (Has(s, op) <=> op = "STOP") /\ (Only(s, op) <=> op = "STOP")
                    /\ (First(s, op) <=> op = "STOP")
<1>1. Len(s.MTDR) = 1 /\ s.MTDR[1].op = "STOP" /\ s.MTDR # <<>>
  BY StopLemma
<1> QED BY <1>1 DEF Ordered, Has, Only, First

\* A failure while the transfer is being given up already.
LEMMA OwnTold ==
  ASSUME NEW s \in Drivers, NEW t \in Drivers, NEW live, Own(s, live),
         s.state = "stopping", s.MSR \cap Failures # {}, t.MSR = {},
         t.state = s.state, t.MTDR = s.MTDR, t.MRDR = s.MRDR, t.MBF = s.MBF,
         t.command = s.command, t.ignore_tdf = s.ignore_tdf,
         t.done = s.done, t.size = s.size, t.TDIE = s.TDIE
  PROVE  Own(t, live)
<1>1. /\ \A op : Has(t, op) <=> Has(s, op)
      /\ \A op : Only(t, op) <=> Only(s, op)
      /\ \A op : First(t, op) <=> First(s, op)
      /\ \A op : Doing1(t, op) <=> Doing1(s, op)
      /\ Ordered(t) <=> Ordered(s)
      /\ Unbegun(t) <=> Unbegun(s)
      /\ finished(t) <=> finished(s)
  BY DEF Has, Only, First, Doing1, Ordered, Unbegun, finished
<1>2. s.MSR # {} /\ ~Still(s)
  BY DEF Still
<1>3. Prompt(t)
  BY <1>1, <1>2 DEF Own, Prompt
<1>4. Shape(t) /\ Quiet(t)
  BY <1>1 DEF Own, Shape, Quiet, Reads
<1>5. Waiting(t)
  BY <1>1, <1>2 DEF Own, Waiting
<1>6. Owned(t, live)
  BY <1>1, <1>2 DEF Own, Owned, Reads
<1> QED BY <1>1, <1>3, <1>4, <1>5, <1>6 DEF Own

\* A failure ends the transfer.
LEMMA OwnAborted ==
  ASSUME NEW s \in Drivers, NEW t \in Drivers, NEW live, Own(s, live),
         s.state # "stopping", s.MSR \cap Failures # {}, t.MSR = {},
         t.MTDR = IF s.MBF /\ "SDF" \notin s.MSR THEN <<STOP>> ELSE <<>>,
         t.state = "stopping", t.MRDR = <<>>, t.MBF = s.MBF,
         t.command = s.command, t.ignore_tdf = s.ignore_tdf,
         t.done = s.done, t.size = s.size
  PROVE  Own(t, live)
<1>1. /\ \A op : Doing1(t, op) <=> Doing1(s, op)
      /\ Unbegun(t) <=> Unbegun(s)
      /\ ~finished(t)
  BY DEF Doing1, Unbegun, finished, BusyStates
<1>2. s.MSR # {} /\ ~Still(s) /\ s.MRDR = <<>>
  BY DEF Still, Own, Prompt
<1>3. /\ t.MTDR = <<>> \/ (t.MTDR = <<STOP>> /\ t.MBF)
      /\ Ordered(t) /\ ~Has(t, "START") /\ ~Has(t, "RECEIVE") /\ ~Has(t, "TRANSMIT")
      /\ Only(t, "STOP")
  BY EmptyFifo, OneStop
<1>4. Prompt(t) /\ Quiet(t)
  BY <1>1 DEF Prompt, Quiet
<1>5. Shape(t)
  BY <1>1, <1>2, <1>3 DEF Own, Shape
<1>6. Waiting(t)
  BY <1>1, <1>2, <1>3 DEF Own, Waiting
<1>7. Owned(t, live)
  BY <1>1, <1>2, <1>3 DEF Own, Owned, Reads
<1> QED BY <1>3, <1>4, <1>5, <1>6, <1>7 DEF Own

\* The STOP was sent.
LEMMA OwnStopped ==
  ASSUME NEW s \in Drivers, NEW t \in Drivers, NEW live, Own(s, live),
         "SDF" \in s.MSR, t.MSR = s.MSR \ {"SDF"}, t.state = "stopped",
         ~t.TDIE, t.MTDR = s.MTDR, t.MRDR = s.MRDR, t.MBF = s.MBF,
         t.command = s.command, t.ignore_tdf = s.ignore_tdf,
         t.done = s.done, t.size = s.size
  PROVE  Own(t, live)
<1>1. /\ \A op : Has(t, op) <=> Has(s, op)
      /\ \A op : Only(t, op) <=> Only(s, op)
      /\ \A op : First(t, op) <=> First(s, op)
      /\ \A op : ~Doing1(t, op) /\ ~Doing1(s, op)
      /\ Ordered(t) <=> Ordered(s)
      /\ Unbegun(t) <=> Unbegun(s)
  BY DEF Own, Prompt, Has, Only, First, Doing1, Ordered, Unbegun
<1>2. /\ s.MSR = {"SDF"} /\ t.MSR = {} /\ ~Still(s) /\ s.MRDR = <<>>
      /\ s.command = <<>> /\ ~s.MBF /\ ~Has(s, "START") /\ ~Has(s, "RECEIVE")
  BY DEF Still, Own, Prompt
<1>3. Prompt(t) /\ Quiet(t)
  BY <1>1, <1>2 DEF Prompt, Quiet, Reads
<1>4. Shape(t)
  BY <1>1, <1>2 DEF Own, Shape
<1>5. Waiting(t)
  <2> SUFFICES ASSUME Unbegun(t)
               PROVE  Still(t)
    BY DEF Waiting
  <2>1. First(s, "START") => Has(s, "START")
    BY DEF First, Has, Drivers
  <2>2. s.MTDR = <<>>
    BY <1>1, <1>2, <2>1 DEF Own, Waiting
  <2> QED BY <1>2, <2>2 DEF Still
<1>6. Owned(t, live)
  BY <1>1, <1>2 DEF Own, Owned, Reads
<1> QED BY <1>1, <1>3, <1>4, <1>5, <1>6 DEF Own

\* A byte is taken out of the receive FIFO, or what is in it is dropped.
LEMMA OwnTaken ==
  ASSUME NEW s \in Drivers, NEW t \in Drivers, NEW live, Own(s, live),
         s.MRDR # <<>>, t.MSR = s.MSR, t.MTDR = s.MTDR, t.MBF = s.MBF,
         t.command = s.command, t.ignore_tdf = s.ignore_tdf, t.size = s.size,
         \/ t.MRDR = <<>> /\ t.done = s.done /\ t.state = s.state
         \/ /\ t.MRDR = Tail(s.MRDR) /\ Len(t.done) = Len(s.done) + 1
            /\ t.state = IF Len(t.done) = t.size
                         THEN IF Len(t.MTDR) = 1 THEN "stopping" ELSE "transfer_complete"
                         ELSE "transferring"
  PROVE  Own(t, live) /\ live
<1>1. /\ \A op : Has(t, op) <=> Has(s, op)
      /\ \A op : Only(t, op) <=> Only(s, op)
      /\ \A op : Doing1(t, op) <=> Doing1(s, op)
  BY DEF Own, Has, Only, Doing1
<1>2. /\ s.MSR = {} /\ s.ignore_tdf /\ Only(s, "STOP")
      /\ s.command = <<>> \/ Doing1(s, "RECEIVE")
      /\ Len(s.MRDR) + Len(s.done) <= s.size
      /\ ~finished(s) /\ live
  BY DEF Own, Prompt, Quiet, Owned, Reads
<1>3. /\ \A op : op # "STOP" => ~Has(s, op)
      /\ Ordered(t)
  BY <1>2 DEF Own, Only, Has, Ordered
<1> DEFINE r == Len(s.MRDR)  d == Len(s.done)  z == s.size
           left == Len(t.MRDR)  read == Len(t.done)
<1>4. r \in Nat /\ d \in Nat /\ r > 0 /\ z \in Nat /\ left \in Nat /\ read \in Nat
  BY DEF Drivers
<1>5. r + d <= z /\ t.size = z
  BY <1>2
<1>6. t.MRDR = <<>> <=> left = 0
  BY DEF Drivers
<1>7. \/ t.MRDR = <<>> /\ read = d /\ t.state = s.state
      \/ /\ left = r - 1 /\ read = d + 1
         /\ t.state = IF read = z
                      THEN IF Len(t.MTDR) = 1 THEN "stopping" ELSE "transfer_complete"
                      ELSE "transferring"
  <2>1. Len(Tail(s.MRDR)) = Len(s.MRDR) - 1
    BY <1>4 DEF Drivers
  <2>2. CASE t.MRDR = <<>> /\ t.done = s.done /\ t.state = s.state
    BY <2>2
  <2>3. CASE /\ t.MRDR = Tail(s.MRDR) /\ Len(t.done) = Len(s.done) + 1
             /\ t.state = IF Len(t.done) = t.size
                          THEN IF Len(t.MTDR) = 1 THEN "stopping" ELSE "transfer_complete"
                          ELSE "transferring"
    <3>1. left = r - 1
      BY <2>1, <2>3
    <3>2. read = d + 1
      BY <2>3
    <3> QED BY <1>5, <2>3, <3>1, <3>2
  <2> QED BY <2>2, <2>3
<1> HIDE DEF r, d, z, left, read
<1>8. left + read <= r + d /\ left + read <= z
  BY <1>4, <1>5, <1>6, <1>7
<1>9. Prompt(t)
  <2>1. Len(t.MRDR) + Len(t.done) <= t.size
    BY <1>5, <1>8 DEF left, read
  <2> QED BY <1>1, <1>2, <2>1 DEF Prompt
<1>10. Doing1(s, "RECEIVE") => s.command[1].n \in Nat \ {0}
  BY CommandLemma DEF Doing1
<1>11. Shape(t)
  <2>1. ASSUME Doing1(t, "RECEIVE")
        PROVE  t.command[1].n + Len(t.MRDR) + Len(t.done) <= t.size
    <3> DEFINE n == s.command[1].n
    <3>1. n \in Nat /\ n + r + d <= z
      BY <1>1, <1>10, <2>1 DEF Own, Shape, r, d, z
    <3> HIDE DEF n
    <3>2. n + left + read <= z
      BY <1>4, <1>8, <3>1
    <3> QED BY <1>5, <3>2 DEF n, left, read
  <2> QED BY <1>1, <1>2, <1>3, <2>1 DEF Own, Shape
<1>12. Quiet(t)
  <2> SUFFICES ASSUME finished(t)
               PROVE  t.MTDR = <<>> /\ t.command = <<>> /\ t.MRDR = <<>>
    BY EmptyFifo DEF Quiet, Reads, Doing1
  <2>1. read = z /\ Len(t.MTDR) # 1
    BY <1>2, <1>7 DEF finished, BusyStates
  <2>2. t.MRDR = <<>>
    BY <1>4, <1>6, <1>8, <2>1
  <2>3. ~Doing1(s, "RECEIVE")
    <3> DEFINE n == s.command[1].n
    <3> SUFFICES ASSUME Doing1(s, "RECEIVE")
                 PROVE  FALSE
      OBVIOUS
    <3>1. n \in Nat \ {0} /\ n + left + read <= z
      BY <1>1, <1>5, <1>10, <1>11 DEF Shape, left, read
    <3> HIDE DEF n
    <3> QED BY <1>4, <2>1, <3>1
  <2>4. t.MTDR = <<>>
    <3> SUFFICES ASSUME t.MTDR # <<>>
                 PROVE  FALSE
      OBVIOUS
    <3>1. Len(t.MTDR) \in Nat /\ Len(t.MTDR) > 0
      BY DEF Drivers
    <3>2. 1 \in 1 .. Len(t.MTDR)
      BY <3>1
    <3>3. t.MTDR[1].op = "STOP"
      BY <1>2, <3>2 DEF Only
    <3> QED BY <1>3, <2>1, <3>2, <3>3 DEF Ordered
  <2> QED BY <1>1, <1>2, <2>2, <2>3, <2>4
<1>13. Waiting(t) /\ Owned(t, live)
  BY <1>2 DEF Waiting, Unbegun, Owned
<1> QED BY <1>2, <1>3, <1>9, <1>11, <1>12, <1>13 DEF Own

\* The next bytes of a write are queued in the empty FIFO.
LEMMA OwnFilled ==
  ASSUME NEW s \in Drivers, NEW t \in Drivers, NEW live, Own(s, live),
         s.MRDR = <<>>, s.MSR = {}, s.MTDR = <<>>, ~s.ignore_tdf,
         s.done = <<>> \/ s.state = "transferring",
         Unbegun(s) => live /\ s.size > 0,
         t.MSR = {}, t.MBF = s.MBF, t.MRDR = <<>>, t.command = s.command,
         t.ignore_tdf = s.ignore_tdf, t.size = s.size,
         Len(t.done) = Len(s.done) + Len(t.MTDR), Only(t, "TRANSMIT"),
         t.state = "transferring", s.done = <<>> => t.MTDR # <<>>,
         t.MTDR # <<>>
  PROVE  Own(t, live) /\ live
<1>1. /\ \A op : Doing1(t, op) <=> Doing1(s, op)
      /\ \A op : ~Has(s, op)
  BY EmptyFifo DEF Doing1
<1>2. live
  BY DEF Own, Owned, Unbegun
<1> DEFINE m == Len(t.MTDR)  d == Len(s.done)  done == Len(t.done)
<1>3. m \in Nat /\ m > 0 /\ d \in Nat /\ done = d + m
  BY DEF Drivers
<1>4. t.done # <<>>
  <2>1. t.done = <<>> => done = 0
    BY StopLemma
  <2> HIDE DEF m, d, done
  <2>2. done # 0
    BY <1>3
  <2> QED BY <2>1, <2>2
<1>5. /\ \A op : op # "TRANSMIT" => ~Has(t, op)
      /\ Ordered(t)
  BY DEF Only, Has, Ordered
<1>6. Prompt(t) /\ Quiet(t) /\ Waiting(t) /\ Owned(t, live)
  BY <1>2, <1>4 DEF Prompt, Quiet, finished, BusyStates, Waiting, Unbegun, Owned
<1>7. Shape(t)
  BY <1>1, <1>4, <1>5 DEF Own, Shape
<1> QED BY <1>2, <1>5, <1>6, <1>7 DEF Own

\* All bytes of a write were sent: a STOP is, or the transfer is complete.
LEMMA OwnWritten ==
  ASSUME NEW s \in Drivers, NEW t \in Drivers, NEW live, Own(s, live),
         s.MRDR = <<>>, s.MSR = {}, s.MTDR = <<>>, ~s.ignore_tdf,
         s.done # <<>>, s.state = "transferring",
         t.MSR = {}, t.MBF = s.MBF, t.MRDR = <<>>, t.command = s.command,
         t.ignore_tdf = s.ignore_tdf, t.done # <<>>,
         \/ t.MTDR = <<STOP>> /\ t.state = "stopping"
         \/ t.MTDR = <<>> /\ t.state = "transfer_complete"
  PROVE  Own(t, live)
<1>1. /\ \A op : Doing1(t, op) <=> Doing1(s, op)
      /\ ~Doing1(s, "START") /\ ~Doing1(s, "STOP") /\ ~Doing1(s, "RECEIVE")
  BY DEF Own, Shape, Doing1
<1>2. live
  BY DEF Own, Owned
<1>3. \A op : Has(t, op) => op = "STOP"
  BY EmptyFifo, OneStop
<1>4. Ordered(t)
  BY EmptyFifo, OneStop
<1>5. Prompt(t) /\ Waiting(t) /\ Owned(t, live)
  BY <1>2 DEF Prompt, Waiting, Unbegun, Owned
<1>6. Shape(t)
  BY <1>1, <1>3 DEF Own, Shape
<1>7. Quiet(t)
  BY <1>1, <1>3 DEF Quiet, finished, BusyStates, Reads
<1> QED BY <1>4, <1>5, <1>6, <1>7 DEF Own

\* No interrupt waits, so that the port may go on.
AllServed(s) == s.MSR = {} /\ s.MRDR = <<>> /\ ~(s.TDIE /\ s.MTDR = <<>>)

\* The next command is taken from the FIFO.
LEMMA OwnCommand ==
  ASSUME NEW s \in Drivers, NEW t \in Drivers, NEW live, Own(s, live),
         AllServed(s), ~s.ignore_tdf => ~Has(s, "RECEIVE"),
         s.command = <<>>, s.MTDR # <<>>,
         t.command = <<Head(s.MTDR)>>, t.MTDR = Tail(s.MTDR),
         t.MBF = (s.MBF \/ Head(s.MTDR).op = "START"),
         t.state = s.state, t.MRDR = s.MRDR, t.MSR = s.MSR, t.TDIE = s.TDIE,
         t.ignore_tdf = s.ignore_tdf, t.done = s.done, t.size = s.size
  PROVE  Own(t, live)
<1> DEFINE c == s.MTDR[1]
           l == Len(t.MTDR)
<1>1. /\ c \in Commands /\ Head(s.MTDR) = c /\ l \in Nat /\ Len(s.MTDR) = l + 1
      /\ \A j \in 1 .. l : t.MTDR[j] = s.MTDR[j + 1]
  BY DEF Drivers
<1>2. t.command = <<c>> /\ t.command # <<>> /\ t.command[1] = c
  BY <1>1
<1>3. 1 \in 1 .. Len(s.MTDR) /\ s.MTDR[1] = c
  BY <1>1
<1> HIDE DEF c, l
<1>4. \A j \in 1 .. l : j + 1 \in 1 .. Len(s.MTDR) /\ j + 1 > 1
  BY <1>1
<1>5. /\ \A op : Doing1(t, op) <=> c.op = op
      /\ \A op : ~Doing1(s, op)
      /\ \A op : c.op = op => Has(s, op)
      /\ \A op : Has(t, op) => Has(s, op)
  BY <1>1, <1>2, <1>3, <1>4 DEF Doing1, Has, l
<1>6. c.op = "STOP" => t.MTDR = <<>> /\ l = 0
  <2> SUFFICES ASSUME c.op = "STOP"
               PROVE  t.MTDR = <<>> /\ l = 0
    OBVIOUS
  <2>1. Len(s.MTDR) = 1
    BY <1>3 DEF Own, Ordered
  <2>2. l = 0
    BY <1>1, <2>1
  <2> QED BY <2>2 DEF l, Drivers
<1>7. c.op = "RECEIVE" => Only(t, "STOP") /\ s.ignore_tdf /\ c.n + Len(s.done) <= s.size
  BY <1>1, <1>3, <1>4, <1>5 DEF Own, Ordered, Only, l
<1>8. Ordered(t)
  <2> SUFFICES ASSUME NEW j \in 1 .. l
               PROVE  /\ t.MTDR[j].op = "STOP" => j = l
                      /\ t.MTDR[j].op = "RECEIVE" =>
                           /\ t.MTDR[j].n + Len(t.done) <= t.size
                           /\ \A i \in 1 .. l : i > j => t.MTDR[i].op = "STOP"
    BY DEF Ordered, l
  <2>1. t.MTDR[j] = s.MTDR[j + 1] /\ j + 1 \in 1 .. Len(s.MTDR)
    BY <1>1, <1>4
  <2>2. t.MTDR[j].op = "STOP" => j = l
    <3>1. t.MTDR[j].op = "STOP" => j + 1 = Len(s.MTDR)
      BY <2>1 DEF Own, Ordered
    <3> QED BY <1>1, <3>1
  <2>3. ASSUME t.MTDR[j].op = "RECEIVE", NEW i \in 1 .. l, i > j
        PROVE  t.MTDR[i].op = "STOP"
    <3>1. t.MTDR[i] = s.MTDR[i + 1] /\ i + 1 \in 1 .. Len(s.MTDR)
      BY <1>1, <1>4, <2>3
    <3>2. i + 1 > j + 1
      BY <1>1, <2>3
    <3> QED BY <2>1, <2>3, <3>1, <3>2 DEF Own, Ordered
  <2>4. t.MTDR[j].op = "RECEIVE" => t.MTDR[j].n + Len(t.done) <= t.size
    BY <2>1 DEF Own, Ordered
  <2> QED BY <2>2, <2>3, <2>4
<1>9. /\ Unbegun(t) <=> Unbegun(s)
      /\ finished(t) <=> finished(s)
      /\ ~Still(s) /\ s.MSR = {} /\ s.MRDR = <<>> /\ t.MRDR = <<>>
  BY DEF Unbegun, finished, Still, AllServed
<1>10. Prompt(t)
  BY <1>9 DEF Prompt
<1>11. Shape(t)
  <2>1. ASSUME Doing1(t, "RECEIVE")
        PROVE  /\ Only(t, "STOP") /\ t.ignore_tdf
               /\ t.command[1].n + Len(t.MRDR) + Len(t.done) <= t.size
    <3>1. c.op = "RECEIVE"
      BY <1>5, <2>1
    <3>2. c.n \in Nat /\ c.n + Len(s.done) <= s.size
      BY <1>1, <1>7, <3>1 DEF Commands
    <3> DEFINE n == c.n  d == Len(s.done)
    <3>3. n \in Nat /\ d \in Nat /\ n + d <= s.size /\ Len(t.MRDR) = 0
      BY <1>9, <3>2, StopLemma DEF Drivers
    <3> HIDE DEF n, d
    <3>4. n + 0 + d <= s.size
      BY <3>3
    <3> QED BY <1>2, <1>7, <3>1, <3>3, <3>4 DEF n, d
  <2>2. Doing1(t, "STOP") => t.MTDR = <<>> /\ ~Has(t, "START") /\ ~Has(t, "RECEIVE")
    BY <1>5, <1>6, EmptyFifo
  <2>3. Doing1(t, "START") => t.MBF /\ t.state = "starting"
    BY <1>1, <1>5 DEF Own, Shape
  <2>4. Doing1(t, "TRANSMIT") => t.state # "starting"
    BY <1>5 DEF Own, Shape
  <2>5. Doing1(t, "STOP") /\ ~t.ignore_tdf => t.state # "transferring"
    BY <1>5 DEF Own, Shape
  <2>6. /\ Has(t, "START") => t.state = "starting"
        /\ Has(t, "TRANSMIT") => ~t.ignore_tdf /\ t.done # <<>> /\ t.state # "starting"
        /\ Has(t, "STOP") /\ ~t.ignore_tdf => t.state # "transferring"
        /\ ~t.ignore_tdf /\ t.state = "transferring" => t.done # <<>>
    BY <1>5 DEF Own, Shape
  <2> QED BY <2>1, <2>2, <2>3, <2>4, <2>5, <2>6 DEF Shape
<1>12. Quiet(t)
  <2> SUFFICES ASSUME finished(t)
               PROVE  /\ ~Doing1(t, "START") /\ ~Has(t, "START") /\ ~Reads(t)
                      /\ Doing1(t, "STOP") => ~t.MBF
                      /\ t.MTDR # <<>> =>
                           ~t.MBF /\ (t.command = <<>>
                                      \/ (Doing1(t, "TRANSMIT") /\ t.done # <<>>))
    BY DEF Quiet
  <2>1. /\ ~Has(s, "START") /\ ~Has(s, "RECEIVE") /\ ~s.MBF
    BY <1>9 DEF Own, Quiet, Reads
  <2>2. c.op \in {"STOP", "TRANSMIT"}
    BY <1>1, <1>5, <2>1 DEF Commands
  <2>3. c.op = "TRANSMIT" => t.done # <<>>
    BY <1>5 DEF Own, Shape
  <2>4. ~t.MBF
    BY <1>1, <2>1, <2>2
  <2> QED BY <1>5, <1>6, <1>9, <2>1, <2>2, <2>3, <2>4 DEF Reads
<1>13. Waiting(t)
  <2> SUFFICES ASSUME Unbegun(t)
               PROVE  /\ t.size > 0 /\ ~finished(t) /\ t.MRDR = <<>>
                      /\ \/ Doing1(t, "START") /\ t.MTDR = <<>> /\ t.TDIE /\ t.MSR = {}
                         \/ t.state = "stopping" /\ ~Doing1(t, "START") /\ t.MTDR = <<>>
    BY <1>9 DEF Waiting
  <2>1. CASE Len(s.MTDR) = 1 /\ First(s, "START") /\ s.TDIE /\ s.size > 0 /\ ~finished(s)
    <3>1. l = 0 /\ c.op = "START"
      BY <1>1, <1>3, <2>1 DEF First
    <3>2. t.MTDR = <<>>
      BY <3>1 DEF l, Drivers
    <3> QED BY <1>5, <1>9, <2>1, <3>1, <3>2
  <2>2. CASE s.state = "stopping" /\ s.MTDR = <<STOP>> /\ s.size > 0 /\ ~finished(s)
    <3>1. c.op = "STOP"
      BY <1>3, <2>2, StopLemma
    <3> QED BY <1>5, <1>6, <1>9, <2>2, <3>1
  <2> QED BY <1>5, <1>9, <2>1, <2>2 DEF Own, Waiting
<1>14. Owned(t, live)
  BY <1>5, <1>9 DEF Own, Owned, Reads
<1> QED BY <1>8, <1>10, <1>11, <1>12, <1>13, <1>14 DEF Own

\* A command is over.
LEMMA OwnEnded ==
  ASSUME NEW s \in Drivers, NEW t \in Drivers, NEW live, Own(s, live),
         AllServed(s), s.command # <<>>, t.command = <<>>,
         t.MBF => s.MBF,
         "SDF" \in t.MSR => /\ Doing1(s, "STOP") /\ s.MBF /\ ~t.MBF /\ t.MSR = {"SDF"},
         t.MTDR = s.MTDR, t.state = s.state, t.MRDR = s.MRDR, t.TDIE = s.TDIE,
         t.ignore_tdf = s.ignore_tdf, t.done = s.done, t.size = s.size
  PROVE  Own(t, live)
<1>1. /\ \A op : Has(t, op) <=> Has(s, op)
      /\ \A op : First(t, op) <=> First(s, op)
      /\ \A op : ~Doing1(t, op)
      /\ Ordered(t) <=> Ordered(s)
      /\ Unbegun(t) <=> Unbegun(s)
      /\ finished(t) <=> finished(s)
  BY DEF Has, First, Doing1, Ordered, Unbegun, finished
<1>2. s.MSR = {} /\ s.MRDR = <<>> /\ ~Still(s) /\ ~(s.TDIE /\ s.MTDR = <<>>)
  BY DEF AllServed, Still
<1>3. Prompt(t)
  BY <1>1, <1>2 DEF Own, Prompt, Shape
<1>4. Shape(t) /\ Quiet(t)
  BY <1>1, <1>2 DEF Own, Shape, Quiet, Reads
<1>5. Waiting(t)
  BY <1>1, <1>2 DEF Own, Waiting
<1>6. Owned(t, live)
  BY <1>1, <1>2 DEF Own, Owned, Reads
<1> QED BY <1>1, <1>3, <1>4, <1>5, <1>6 DEF Own

\* A byte has been received.
LEMMA OwnReceived ==
  ASSUME NEW s \in Drivers, NEW t \in Drivers, NEW live, Own(s, live),
         AllServed(s), Doing1(s, "RECEIVE"), Len(t.MRDR) = 1, t.MRDR # <<>>,
         \/ t.command = <<>>
         \/ Doing1(t, "RECEIVE") /\ t.command[1].n = s.command[1].n - 1,
         t.MTDR = s.MTDR, t.state = s.state, t.MSR = s.MSR, t.MBF = s.MBF,
         t.ignore_tdf = s.ignore_tdf, t.done = s.done, t.size = s.size
  PROVE  Own(t, live)
<1>1. /\ \A op : Has(t, op) <=> Has(s, op)
      /\ \A op : Only(t, op) <=> Only(s, op)
      /\ Ordered(t) <=> Ordered(s)
      /\ ~finished(t) /\ live /\ t.ignore_tdf /\ Only(s, "STOP") /\ t.MSR = {}
  BY DEF Own, Has, Only, Ordered, finished, Quiet, Owned, Reads, Shape, AllServed
<1>2. /\ \A op : op # "RECEIVE" => ~Doing1(t, op)
      /\ \A op : op # "STOP" => ~Has(s, op)
  BY <1>1 DEF Doing1, Has, Only
<1> DEFINE n == s.command[1].n  d == Len(s.done)  z == s.size
<1>3. n \in Nat \ {0} /\ d \in Nat /\ z \in Nat /\ n + 0 + d <= z
  <2>1. s.command[1].n \in Nat \ {0}
    BY CommandLemma DEF Doing1
  <2>2. Len(s.MRDR) = 0
    BY StopLemma DEF AllServed
  <2> QED BY <2>1, <2>2 DEF Own, Shape, Drivers
<1> HIDE DEF n, d, z
<1>4. 1 + d <= z /\ (n - 1) + 1 + d <= z
  BY <1>3
<1>5. Prompt(t)
  BY <1>1, <1>4 DEF Prompt, d, z
<1>6. Shape(t)
  <2>1. ASSUME Doing1(t, "RECEIVE")
        PROVE  t.command[1].n + Len(t.MRDR) + Len(t.done) <= t.size
    <3>1. t.command[1].n = n - 1
      BY <2>1 DEF Doing1, n
    <3> QED BY <1>4, <3>1 DEF d, z
  <2> QED BY <1>1, <1>2, <2>1 DEF Own, Shape
<1>7. Quiet(t) /\ Waiting(t) /\ Owned(t, live)
  BY <1>1 DEF Quiet, Waiting, Unbegun, Owned
<1> QED BY <1>1, <1>5, <1>6, <1>7 DEF Own

\* SCL is held low.
LEMMA OwnHeld ==
  ASSUME NEW s \in Drivers, NEW t \in Drivers, NEW live, Own(s, live),
         AllServed(s), s.command # <<>>, t.MSR = {"PLTF"},
         t.command = s.command, t.MBF = s.MBF, t.MTDR = s.MTDR,
         t.state = s.state, t.MRDR = s.MRDR, t.TDIE = s.TDIE,
         t.ignore_tdf = s.ignore_tdf, t.done = s.done, t.size = s.size
  PROVE  Own(t, live)
<1>1. /\ \A op : Has(t, op) <=> Has(s, op)
      /\ \A op : Only(t, op) <=> Only(s, op)
      /\ \A op : First(t, op) <=> First(s, op)
      /\ \A op : Doing1(t, op) <=> Doing1(s, op)
      /\ Ordered(t) <=> Ordered(s)
      /\ Unbegun(t) <=> Unbegun(s)
      /\ finished(t) <=> finished(s)
  BY DEF Has, Only, First, Doing1, Ordered, Unbegun, finished
<1>2. /\ s.MSR = {} /\ s.MRDR = <<>> /\ ~Still(s) /\ ~(s.TDIE /\ s.MTDR = <<>>)
      /\ "SDF" \notin t.MSR
  BY DEF AllServed, Still
<1>3. Prompt(t)
  BY <1>2 DEF Prompt
<1>4. Shape(t) /\ Quiet(t)
  BY <1>1 DEF Own, Shape, Quiet, Reads
<1>5. Waiting(t)
  BY <1>1, <1>2 DEF Own, Waiting
<1>6. Owned(t, live)
  BY <1>1, <1>2 DEF Own, Owned, Reads
<1> QED BY <1>1, <1>3, <1>4, <1>5, <1>6 DEF Own

-----------------------------------------------------------------------------

\* start() finds the FIFO not empty.
LEMMA OwnRefused ==
  ASSUME NEW s \in Drivers, NEW t \in Drivers, NEW was, NEW live, Own(s, was),
         AllServed(s), finished(s), s.MTDR # <<>>,
         t.MTDR = IF s.MBF /\ "SDF" \notin s.MSR THEN <<STOP>> ELSE <<>>,
         t.MRDR = <<>>, t.MSR = s.MSR, ~t.TDIE, t.state = "starting",
         t.MBF = s.MBF, t.command = s.command, t.done = s.done
  PROVE  Own(t, live)
<1>1. /\ s.MSR = {} /\ ~s.MBF /\ t.MTDR = <<>> /\ ~finished(t)
      /\ s.command = <<>> \/ (Doing1(s, "TRANSMIT") /\ s.done # <<>>)
  BY DEF Own, Quiet, AllServed, finished, BusyStates
<1>2. /\ \A op : ~Has(t, op)
      /\ Ordered(t)
  BY <1>1, EmptyFifo
<1>3. \A op : op # "TRANSMIT" => ~Doing1(t, op)
  BY <1>1 DEF Doing1
<1>4. Unbegun(t) => Still(t)
  BY <1>1 DEF Unbegun, Still
<1>5. Prompt(t) /\ Quiet(t) /\ Waiting(t) /\ Owned(t, live)
  BY <1>1, <1>2, <1>3, <1>4 DEF Prompt, Quiet, Waiting, Owned, Reads
<1>6. Shape(t)
  BY <1>1, <1>2, <1>3 DEF Shape
<1> QED BY <1>2, <1>5, <1>6 DEF Own

\* What start(), and a call without bytes or a read, put into the FIFO.
Opens(q, k, n) ==
  /\ q \in Seq(Commands) /\ Len(q) > 0 /\ q[1].op = "START" /\ q[1].call = k
  /\ \A j \in 2 .. Len(q) :
       /\ q[j].op \in {"RECEIVE", "STOP"}
       /\ q[j].op = "STOP" => j = Len(q)
       /\ q[j].op = "RECEIVE" => /\ n > 0 /\ q[j].n = n
                                 /\ \A i \in 1 .. Len(q) : i > j => q[i].op = "STOP"

LEMMA OpensLemma ==
  ASSUME NEW c \in Commands, c.op = "START", NEW k, c.call = k, NEW n \in Nat
  PROVE  /\ Opens(<<c>>, k, n) /\ Len(<<c>>) = 1
         /\ Opens(<<c>> \o <<STOP>>, k, n)
         /\ n > 0 => LET r == [op |-> "RECEIVE", n |-> n]
                     IN  Opens(<<c>> \o <<r>>, k, n) /\ Opens(<<c>> \o <<r>> \o <<STOP>>, k, n)
<1>1. ASSUME NEW q \in Seq(Commands), NEW e \in Commands
      PROVE  /\ q \o <<e>> \in Seq(Commands) /\ Len(q \o <<e>>) = Len(q) + 1
             /\ \A j \in 1 .. Len(q) : (q \o <<e>>)[j] = q[j]
             /\ (q \o <<e>>)[Len(q) + 1] = e
  OBVIOUS
<1> DEFINE a == <<c>>
<1>2. a \in Seq(Commands) /\ Len(a) = 1 /\ a[1] = c
  BY ShortLemma
<1> HIDE DEF a
<1>3. Opens(a, k, n)
  BY <1>2 DEF Opens
<1>4. Opens(a \o <<STOP>>, k, n)
  <2> DEFINE b == a \o <<STOP>>
  <2>1. b \in Seq(Commands) /\ Len(b) = 2 /\ b[1] = c /\ b[2] = STOP
    <3>1. /\ b \in Seq(Commands) /\ Len(b) = Len(a) + 1
          /\ \A j \in 1 .. Len(a) : b[j] = a[j]
          /\ b[Len(a) + 1] = STOP
      BY <1>1, <1>2, StopLemma
    <3> HIDE DEF b
    <3> QED BY <1>2, <3>1
  <2> HIDE DEF b
  <2>2. \A j \in 2 .. 2 : j = 2
    OBVIOUS
  <2> QED BY <2>1, <2>2, StopLemma DEF Opens, b
<1>5. ASSUME n > 0
      PROVE  LET r == [op |-> "RECEIVE", n |-> n]
             IN  Opens(a \o <<r>>, k, n) /\ Opens(a \o <<r>> \o <<STOP>>, k, n)
  <2> DEFINE r == [op |-> "RECEIVE", n |-> n]
             b == a \o <<r>>
             d == b \o <<STOP>>
  <2>1. r \in Commands /\ r.op = "RECEIVE" /\ r.n = n
    BY <1>5 DEF Commands
  <2> HIDE DEF r
  <2>2. b \in Seq(Commands) /\ Len(b) = 2 /\ b[1] = c /\ b[2] = r
    <3>1. /\ b \in Seq(Commands) /\ Len(b) = Len(a) + 1
          /\ \A j \in 1 .. Len(a) : b[j] = a[j]
          /\ b[Len(a) + 1] = r
      BY <1>1, <1>2, <2>1
    <3> HIDE DEF b
    <3> QED BY <1>2, <3>1
  <2> HIDE DEF b
  <2>3. d \in Seq(Commands) /\ Len(d) = 3 /\ d[1] = c /\ d[2] = r /\ d[3] = STOP
    <3>1. /\ d \in Seq(Commands) /\ Len(d) = Len(b) + 1
          /\ \A j \in 1 .. Len(b) : d[j] = b[j]
          /\ d[Len(b) + 1] = STOP
      BY <1>1, <2>2, StopLemma
    <3> HIDE DEF d
    <3> QED BY <2>2, <3>1
  <2> HIDE DEF d
  <2>4. Opens(b, k, n)
    <3>1. \A j \in 2 .. 2 : j = 2 /\ \A i \in 1 .. 2 : ~(i > j)
      OBVIOUS
    <3> QED BY <1>5, <2>1, <2>2, <3>1 DEF Opens
  <2>5. Opens(d, k, n)
    <3>1. /\ \A j \in 2 .. 3 : j = 2 \/ j = 3
          /\ \A i \in 1 .. 3 : i > 2 => i = 3
          /\ \A i \in 1 .. 3 : ~(i > 3)
      OBVIOUS
    <3> QED BY <1>5, <2>1, <2>3, <3>1, StopLemma DEF Opens
  <2> QED BY <2>4, <2>5 DEF b, d, r
<1> QED BY <1>2, <1>3, <1>4, <1>5 DEF a

\* What a call that could start does to the driver.
Begun(s, t, k, n, live) ==
  /\ finished(s) /\ s.MTDR = <<>>
  /\ n \in Nat /\ Opens(t.MTDR, k, n)
  /\ t.MRDR = <<>> /\ t.MSR = {} /\ t.state = "starting"
  /\ t.MBF = s.MBF /\ t.command = s.command
  /\ t.ignore_tdf \/ (t.TDIE /\ t.size > 0 /\ Len(t.MTDR) = 1)
  /\ n > 0 => live /\ t.ignore_tdf /\ n + Len(t.done) <= t.size
  /\ live \/ t.ignore_tdf

LEMMA OwnBegun ==
  ASSUME NEW s \in Drivers, NEW t \in Drivers, NEW was, NEW live, Own(s, was),
         NEW k, NEW n, Begun(s, t, k, n, live)
  PROVE  Own(t, live)
<1> USE DEF Begun
<1> DEFINE q == t.MTDR
<1>1. /\ ~finished(t)
      /\ \A op : Doing1(t, op) <=> Doing1(s, op)
      /\ ~Doing1(t, "START") /\ ~Doing1(t, "RECEIVE")
      /\ Doing1(t, "STOP") => ~t.MBF
  BY DEF Own, Quiet, Reads, finished, BusyStates, Doing1
<1>2. Len(q) \in Nat /\ Len(q) > 0 /\ 1 \in 1 .. Len(q) /\ q[1].op = "START"
      /\ \A j \in 1 .. Len(q) : j = 1 \/ j \in 2 .. Len(q)
  BY DEF Opens
<1> HIDE DEF q
<1>3. /\ Has(t, "START") /\ First(t, "START") /\ ~Has(t, "TRANSMIT")
      /\ Has(t, "RECEIVE") => n > 0
  BY <1>2 DEF Has, First, Opens, q
<1>4. Ordered(t)
  <2> SUFFICES ASSUME NEW j \in 1 .. Len(q)
               PROVE  /\ q[j].op = "STOP" => j = Len(q)
                      /\ q[j].op = "RECEIVE" =>
                           /\ q[j].n + Len(t.done) <= t.size
                           /\ \A i \in 1 .. Len(q) : i > j => q[i].op = "STOP"
    BY DEF Ordered, q
  <2>1. CASE j = 1
    BY <1>2, <2>1
  <2>2. CASE j \in 2 .. Len(q)
    BY <2>2 DEF Opens, q
  <2> QED BY <1>2, <2>1, <2>2
<1>5. Prompt(t) /\ Quiet(t)
  BY <1>1 DEF Prompt, Quiet
<1>6. Shape(t)
  BY <1>1, <1>3 DEF Shape
<1>7. Waiting(t)
  BY <1>1, <1>3 DEF Waiting, Unbegun
<1>8. Owned(t, live)
  BY <1>1, <1>3 DEF Owned, Reads, Unbegun
<1> QED BY <1>4, <1>5, <1>6, <1>7, <1>8 DEF Own

\* A driver that has finished needs no owner.
LEMMA OwnFinished ==
  ASSUME NEW s, NEW was, NEW live, Own(s, was), finished(s)
  PROVE  Own(s, live)
<1>1. ~Reads(s) /\ (Unbegun(s) => Still(s)) /\ s.state # "transferring"
  BY DEF Own, Quiet, Waiting, finished, BusyStates
<1> QED BY <1>1 DEF Own, Owned

\* start() when the FIFO is not empty.
LEMMA OwnNotStarted ==
  ASSUME NEW s \in Drivers, NEW was, NEW live, Own(s, was), AllServed(s),
         finished(s), ~CanStart(s), NEW d, NEW k
  PROVE  Own(start(s, d, k), live)
<1> DEFINE fifo == IF s.MBF /\ "SDF" \notin s.MSR THEN <<STOP>> ELSE <<>>
           ignore == d = "read"
           t == [s EXCEPT !.TDIE = FALSE, !.MRDR = <<>>, !.MTDR = fifo,
                          !.error = "master_fifos_not_empty", !.state = "starting",
                          !.ignore_tdf = ignore]
<1>1. /\ "master_fifos_not_empty" \in Errors /\ "starting" \in States
      /\ ignore \in BOOLEAN
  BY DEF Errors, States, BusyStates
<1>2. fifo \in Seq(Commands) /\ <<>> \in Seq(InBytes)
  BY StopLemma
<1>3. start(s, d, k) = t
  BY DEF start, abort_transaction_async, Drivers
<1>4. s.MTDR # <<>>
  BY DEF CanStart, AllServed
<1> HIDE DEF fifo, ignore
<1>5. /\ t \in Drivers /\ t.MTDR = fifo /\ t.MRDR = <<>> /\ t.state = "starting"
      /\ t.TDIE = FALSE /\ t.done = s.done
      /\ t.MSR = s.MSR /\ t.MBF = s.MBF /\ t.command = s.command
  BY <1>1, <1>2 DEF Drivers
<1> HIDE DEF t
<1>6. Own(t, live)
  BY <1>4, <1>5, OwnRefused DEF fifo
<1> QED BY <1>3, <1>6

LEMMA OwnWriteCall ==
  ASSUME NEW s \in Drivers, NEW was, Own(s, was), AllServed(s), finished(s),
         NEW k \in Nat, NEW n \in Nat, NEW stop \in BOOLEAN
  PROVE  LET t == write_async(s, k, n, stop)
         IN  Own(t, t.buffer[1] = k)
<1> DEFINE b == start(s, "write", k)
           c == Start("write", k)
<1>1. CASE ~CanStart(s)
  BY <1>1, OwnNotStarted DEF write_async
<1>2. ASSUME CanStart(s)
      PROVE  /\ b \in Drivers /\ b.MTDR = <<c>> /\ b.MRDR = <<>>
             /\ ~b.ignore_tdf /\ b.state = "starting" /\ b.MSR = {}
             /\ b.buffer = s.buffer /\ b.size = s.size /\ b.done = s.done
             /\ b.MBF = s.MBF /\ b.command = s.command
             /\ s.MTDR = <<>>
  BY <1>2, StartLemma DEF Directions, CanStart
<1> HIDE DEF b
<1>3. c \in Commands /\ c.op = "START" /\ c.call = k
  BY DEF Start, Commands, Directions
<1> HIDE DEF c
<1>4. CASE CanStart(s) /\ n = 0
  <2> DEFINE q == Append(b.MTDR, STOP)
             t == [b EXCEPT !.ignore_tdf = TRUE, !.MTDR = q]
  <2>1. q = <<c>> \o <<STOP>>
    BY <1>2, <1>3, <1>4, ShortLemma, StopLemma
  <2>2. Opens(q, k, 0)
    BY <1>3, <2>1, OpensLemma
  <2> HIDE DEF q
  <2>3. /\ t \in Drivers /\ t.MTDR = q /\ t.MRDR = <<>> /\ t.ignore_tdf
        /\ t.state = "starting" /\ t.MSR = {} /\ t.MBF = s.MBF /\ t.command = s.command
    BY <1>2, <1>4, <2>2 DEF Drivers, Opens
  <2> HIDE DEF t
  <2>4. Own(t, t.buffer[1] = k)
    <3> DEFINE live == t.buffer[1] = k
    <3> HIDE DEF live
    <3>2. Begun(s, t, k, 0, live)
      BY <1>2, <1>4, <2>2, <2>3 DEF Begun
    <3>3. Own(t, live)
      BY <2>3, <3>2, OwnBegun
    <3> QED BY <3>3 DEF live
  <2> QED BY <1>4, <2>4 DEF write_async, t, q, b
<1>5. CASE CanStart(s) /\ n # 0
  <2> DEFINE t == [initialise(b, <<k, "out">>, n)
                     EXCEPT !.stop_on_completion = stop, !.TDIE = TRUE]
  <2>1. <<k, "out">> \in Buffers /\ <<>> \in Seq(OutBytes \cup InBytes)
    BY DEF Buffers
  <2>2. /\ t \in Drivers /\ t.MTDR = b.MTDR /\ t.MRDR = b.MRDR
        /\ t.ignore_tdf = b.ignore_tdf /\ t.buffer = <<k, "out">>
        /\ t.state = b.state /\ t.MSR = b.MSR /\ t.size = n /\ t.done = <<>>
        /\ t.MBF = b.MBF /\ t.command = b.command /\ t.TDIE = TRUE
    BY <1>2, <1>5, <2>1 DEF Drivers, initialise
  <2> HIDE DEF t
  <2>3. t.buffer[1] = k /\ t.size > 0
    BY <1>5, <2>2
  <2>4. Opens(t.MTDR, k, 0) /\ Len(t.MTDR) = 1
    BY <1>2, <1>3, <1>5, <2>2, OpensLemma
  <2>5. Own(t, t.buffer[1] = k)
    <3> DEFINE live == t.buffer[1] = k
    <3>1. live
      BY <2>3
    <3> HIDE DEF live
    <3>2. Begun(s, t, k, 0, live)
      BY <1>2, <1>5, <2>2, <2>3, <2>4, <3>1 DEF Begun
    <3>3. Own(t, live)
      BY <2>2, <3>2, OwnBegun
    <3> QED BY <3>3 DEF live
  <2> QED BY <1>5, <2>5 DEF write_async, t, b
<1> QED BY <1>1, <1>4, <1>5

LEMMA OwnReadCall ==
  ASSUME NEW s \in Drivers, NEW was, Own(s, was), AllServed(s), finished(s),
         NEW k \in Nat, NEW n \in Nat, NEW stop \in BOOLEAN
  PROVE  LET t == read_async(s, k, n, stop)
         IN  Own(t, t.buffer[1] = k)
<1> DEFINE b == start(s, "read", k)
           c == Start("read", k)
           receive == IF n = 0 THEN <<>> ELSE <<[op |-> "RECEIVE", n |-> n]>>
           end == IF n = 0 \/ stop THEN <<STOP>> ELSE <<>>
           q == b.MTDR \o receive \o end
           asked == [b EXCEPT !.MTDR = q]
<1>1. CASE n > MAX_MASTER_READ_LENGTH
  <2> DEFINE t == [s EXCEPT !.error = "invalid_request"]
  <2>1. /\ t.MTDR = s.MTDR /\ t.MRDR = s.MRDR
        /\ t.MBF = s.MBF /\ t.command = s.command
        /\ t.ignore_tdf = s.ignore_tdf
        /\ t.done = s.done /\ t.size = s.size /\ t.state = s.state
        /\ t.MSR = s.MSR /\ t.TDIE = s.TDIE
    BY DEF Drivers
  <2> HIDE DEF t
  <2>2. /\ \A op : Has(t, op) <=> Has(s, op)
        /\ \A op : Only(t, op) <=> Only(s, op)
        /\ \A op : First(t, op) <=> First(s, op)
        /\ \A op : Doing1(t, op) <=> Doing1(s, op)
        /\ Ordered(t) <=> Ordered(s)
        /\ finished(t) <=> finished(s)
        /\ Still(t) <=> Still(s)
        /\ Unbegun(t) <=> Unbegun(s)
        /\ Reads(t) <=> Reads(s)
    BY <2>1 DEF Has, Only, First, Doing1, Ordered, finished, Still, Unbegun, Reads
  <2>3. Prompt(t) /\ Shape(t) /\ Quiet(t) /\ Waiting(t) /\ Owned(t, was)
    BY <2>1, <2>2 DEF Own, Prompt, Shape, Quiet, Waiting, Owned
  <2>4. Own(t, t.buffer[1] = k)
    BY <2>2, <2>3, OwnFinished DEF Own
  <2> QED BY <1>1, <2>4 DEF read_async, t
<1>2. CASE ~(n > MAX_MASTER_READ_LENGTH) /\ ~CanStart(s)
  BY <1>2, OwnNotStarted DEF read_async
<1>3. CASE ~(n > MAX_MASTER_READ_LENGTH) /\ CanStart(s)
  <2>1. /\ b \in Drivers /\ b.MTDR = <<c>> /\ b.MRDR = <<>>
        /\ b.ignore_tdf /\ b.state = "starting" /\ b.MSR = {}
        /\ b.buffer = s.buffer /\ b.size = s.size /\ b.done = s.done
        /\ b.MBF = s.MBF /\ b.command = s.command
        /\ s.MTDR = <<>>
    BY <1>3, StartLemma DEF Directions, CanStart
  <2> HIDE DEF b
  <2>2. c \in Commands /\ c.op = "START" /\ c.call = k
    BY DEF Start, Commands, Directions
  <2> HIDE DEF c
  <2>3. Opens(q, k, n)
    <3>1. CASE n = 0
      <4>1. q = <<c>> \o <<STOP>>
        BY <2>1, <2>2, <3>1, ShortLemma, StopLemma
      <4> QED BY <2>2, <3>1, <4>1, OpensLemma
    <3>2. CASE n # 0
      <4> DEFINE r == [op |-> "RECEIVE", n |-> n]
                 a == <<c>> \o <<r>>
      <4>1. n > 0
        BY <3>2
      <4>2. Opens(a, k, n) /\ Opens(a \o <<STOP>>, k, n)
        BY <2>2, <4>1, OpensLemma
      <4>3. b.MTDR \o receive = a
        BY <2>1, <3>2
      <4> HIDE DEF a
      <4>4. a \o <<>> = a
        BY <4>2 DEF Opens
      <4> QED BY <3>2, <4>2, <4>3, <4>4
    <3> QED BY <3>1, <3>2
  <2> HIDE DEF q
  <2>4. /\ asked \in Drivers /\ asked.MTDR = q /\ asked.MRDR = <<>>
        /\ asked.ignore_tdf /\ asked.state = "starting" /\ asked.MSR = {}
        /\ asked.MBF = s.MBF /\ asked.command = s.command
    BY <2>1, <2>3 DEF Drivers, Opens
  <2> HIDE DEF asked
  <2>5. CASE n = 0
    <3>1. Own(asked, asked.buffer[1] = k)
      <4> DEFINE live == asked.buffer[1] = k
      <4> HIDE DEF live
      <4>2. Begun(s, asked, k, 0, live)
        BY <2>1, <2>3, <2>4, <2>5 DEF Begun
      <4>3. Own(asked, live)
        BY <2>4, <4>2, OwnBegun
      <4> QED BY <4>3 DEF live
    <3> QED BY <1>3, <2>5, <3>1 DEF read_async, asked, q, receive, end, b
  <2>6. CASE n # 0
    <3> DEFINE t == initialise(asked, <<k, "in">>, n)
    <3>1. <<k, "in">> \in Buffers /\ <<>> \in Seq(OutBytes \cup InBytes)
      BY DEF Buffers
    <3>2. /\ t \in Drivers /\ t.MTDR = asked.MTDR /\ t.MRDR = asked.MRDR
          /\ t.ignore_tdf = asked.ignore_tdf /\ t.buffer = <<k, "in">>
          /\ t.state = asked.state /\ t.MSR = asked.MSR /\ t.size = n /\ t.done = <<>>
          /\ t.MBF = asked.MBF /\ t.command = asked.command
      BY <2>4, <3>1 DEF Drivers, initialise
    <3> HIDE DEF t
    <3>3. Len(t.done) = 0 /\ t.buffer[1] = k
      BY <3>2, StopLemma
    <3>4. n + Len(t.done) <= t.size
      BY <3>2, <3>3
    <3>5. Opens(t.MTDR, k, n) /\ t.MRDR = <<>> /\ t.MSR = {} /\ t.state = "starting"
          /\ t.MBF = s.MBF /\ t.command = s.command /\ t.ignore_tdf
      BY <2>3, <2>4, <3>2
    <3>6. Own(t, t.buffer[1] = k)
      <4> DEFINE live == t.buffer[1] = k
      <4>1. live
        BY <3>3
      <4> HIDE DEF live
      <4>2. Begun(s, t, k, n, live)
        BY <2>1, <2>6, <3>2, <3>3, <3>4, <3>5, <4>1 DEF Begun
      <4>3. Own(t, live)
        BY <3>2, <4>2, OwnBegun
      <4> QED BY <4>3 DEF live
    <3> QED BY <1>3, <2>6, <3>6 DEF read_async, t, asked, q, receive, end, b
  <2> QED BY <2>5, <2>6
<1> QED BY <1>1, <1>2, <1>3

-----------------------------------------------------------------------------
(* The interrupt, part by part.                                            *)

\* What a part of the interrupt that stores nothing leaves of s.
Kept(s, t) ==
  /\ t \in Drivers /\ t.done = s.done /\ t.size = s.size /\ t.buffer = s.buffer
  /\ t.ignore_tdf = s.ignore_tdf

\* An interrupt waits.
Wants(s) == s.MSR # {} \/ s.MRDR # <<>> \/ (s.TDIE /\ s.MTDR = <<>>)

LEMMA OwnFailure ==
  ASSUME NEW s \in Drivers, NEW live, Own(s, live), NEW msr,
         msr \cap Failures = s.MSR \cap Failures
  PROVE  LET t == AfterFailure(s, msr)
         IN  /\ Own(t, live) /\ Kept(s, t) /\ t.MSR = s.MSR \ Failures
             /\ Wants(s) /\ Unbegun(s) => t.MTDR = s.MTDR \/ s.MTDR # <<>>
             /\ s.MRDR = <<>> => t.MRDR = <<>>
             /\ s.MSR \cap Failures = {} => t = s
             /\ t = s \/ t.state = "stopping"
<1> DEFINE told == [s EXCEPT !.error = ErrorOf(s, msr), !.MSR = @ \ Failures]
           aborting == [told EXCEPT !.state = "stopping"]
           t == abort_transaction_async(aborting)
<1>1. ErrorOf(s, msr) \in Errors /\ "stopping" \in States
  BY DEF ErrorOf, Errors, States, BusyStates, Drivers, has_error
<1>2. /\ told \in Drivers /\ told.MTDR = s.MTDR /\ told.MRDR = s.MRDR
      /\ told.MBF = s.MBF /\ told.command = s.command
      /\ told.ignore_tdf = s.ignore_tdf /\ told.buffer = s.buffer
      /\ told.done = s.done /\ told.size = s.size /\ told.state = s.state
      /\ told.MSR = s.MSR \ Failures /\ told.TDIE = s.TDIE
  BY <1>1 DEF Drivers
<1> HIDE DEF told
<1>3. CASE s.MSR \cap Failures = {}
  <2>1. AfterFailure(s, msr) = s /\ s.MSR = s.MSR \ Failures
    BY <1>3 DEF AfterFailure
  <2> QED BY <1>3, <2>1 DEF Kept
<1>4. ASSUME s.MSR \cap Failures # {}
      PROVE  "SDF" \notin s.MSR /\ s.MSR \ Failures = {} /\ s.MRDR = <<>>
  <2>1. "SDF" \notin Failures
    BY DEF Failures
  <2>2. "SDF" \notin s.MSR
    BY <1>4, <2>1 DEF Own, Prompt
  <2>3. s.MSR \subseteq Failures \cup {"SDF"}
    BY DEF Drivers
  <2>4. s.MRDR = <<>>
    BY <1>4 DEF Own, Prompt
  <2> QED BY <2>2, <2>3, <2>4
<1>5. CASE s.MSR \cap Failures # {} /\ s.state = "stopping"
  <2>1. Own(told, live)
    BY <1>2, <1>4, <1>5, OwnTold
  <2>2. AfterFailure(s, msr) = told
    BY <1>5 DEF AfterFailure, told
  <2> QED BY <1>2, <1>4, <1>5, <2>1, <2>2 DEF Kept
<1>6. CASE s.MSR \cap Failures # {} /\ s.state # "stopping"
  <2>1. /\ aborting \in Drivers /\ aborting.state = "stopping"
        /\ aborting.MBF = told.MBF /\ aborting.command = told.command
        /\ aborting.ignore_tdf = told.ignore_tdf /\ aborting.buffer = told.buffer
        /\ aborting.done = told.done /\ aborting.size = told.size
        /\ aborting.MSR = told.MSR
    BY <1>1, <1>2 DEF Drivers
  <2> HIDE DEF aborting
  <2>2. /\ t \in Drivers
        /\ t.MTDR = IF aborting.MBF /\ "SDF" \notin aborting.MSR THEN <<STOP>> ELSE <<>>
        /\ t.MRDR = <<>>
        /\ t.state = aborting.state /\ t.ignore_tdf = aborting.ignore_tdf
        /\ t.buffer = aborting.buffer /\ t.size = aborting.size /\ t.done = aborting.done
        /\ t.MSR = aborting.MSR /\ t.MBF = aborting.MBF /\ t.command = aborting.command
    BY <2>1, AbortLemma
  <2> HIDE DEF t
  <2>3. t.MTDR = IF s.MBF /\ "SDF" \notin s.MSR THEN <<STOP>> ELSE <<>>
    BY <1>2, <1>4, <1>6, <2>1, <2>2
  <2>4. Own(t, live)
    BY <1>2, <1>4, <1>6, <2>1, <2>2, <2>3, OwnAborted
  <2>5. Kept(s, t) /\ t.MSR = s.MSR \ Failures /\ t.state = "stopping"
    BY <1>2, <2>1, <2>2 DEF Kept
  <2>6. Unbegun(s) => s.MTDR # <<>>
    <3> SUFFICES ASSUME Unbegun(s), s.MTDR = <<>>
                 PROVE  FALSE
      OBVIOUS
    <3>1. ~Still(s) /\ Len(s.MTDR) = 0 /\ s.MSR # {}
      BY <1>6, EmptyFifo DEF Still
    <3>2. s.state = "stopping"
      BY <3>1 DEF Own, Waiting
    <3> QED BY <1>6, <3>2
  <2>7. AfterFailure(s, msr) = t
    BY <1>6 DEF AfterFailure, t, aborting, told
  <2> QED BY <1>6, <2>2, <2>4, <2>5, <2>6, <2>7
<1> QED BY <1>3, <1>5, <1>6

LEMMA OwnStop ==
  ASSUME NEW s \in Drivers, NEW live, Own(s, live), NEW msr,
         "SDF" \in msr <=> "SDF" \in s.MSR
  PROVE  LET t == AfterStop(s, msr)
         IN  /\ Own(t, live) /\ Kept(s, t) /\ t.MSR = s.MSR \ {"SDF"}
             /\ t.MTDR = s.MTDR /\ t.MRDR = s.MRDR
             /\ "SDF" \notin s.MSR => t = s
<1> DEFINE t == [s EXCEPT !.TDIE = FALSE, !.state = "stopped", !.MSR = @ \ {"SDF"}]
<1>1. "stopped" \in States
  BY DEF States
<1>2. /\ t \in Drivers /\ t.MTDR = s.MTDR /\ t.MRDR = s.MRDR
      /\ t.MBF = s.MBF /\ t.command = s.command
      /\ t.ignore_tdf = s.ignore_tdf /\ t.buffer = s.buffer
      /\ t.done = s.done /\ t.size = s.size /\ t.state = "stopped"
      /\ t.MSR = s.MSR \ {"SDF"} /\ t.TDIE = FALSE
  BY <1>1 DEF Drivers
<1> HIDE DEF t
<1>3. CASE "SDF" \in s.MSR
  <2>1. Own(t, live)
    BY <1>2, <1>3, OwnStopped
  <2> QED BY <1>2, <1>3, <2>1 DEF AfterStop, Kept, t
<1>4. CASE "SDF" \notin s.MSR
  <2>1. AfterStop(s, msr) = s /\ s.MSR = s.MSR \ {"SDF"}
    BY <1>4 DEF AfterStop
  <2> QED BY <1>4, <2>1 DEF Kept
<1> QED BY <1>3, <1>4

LEMMA OwnReceive ==
  ASSUME NEW s \in Drivers, Bounded(s), NEW live, Own(s, live), NEW msr,
         "RDF" \in msr <=> s.MRDR # <<>>
  PROVE  LET t == AfterReceive(s, msr)
         IN  /\ Own(t, live) /\ t.ignore_tdf = s.ignore_tdf /\ t.buffer = s.buffer
             /\ s.MRDR # <<>> => live /\ s.ignore_tdf
             /\ s.MRDR = <<>> => t = s
<1>1. CASE s.MRDR = <<>>
  BY <1>1 DEF AfterReceive
<1>2. CASE s.MRDR # <<>>
  <2> DEFINE b == FirstByte(s)
             dropped == [b EXCEPT !.MRDR = <<>>]
             taken == TakeByte(b)
             r == IF b.state = "transferring" THEN taken ELSE dropped
             t == EndOfRead(r)
  <2>1. /\ b \in Drivers /\ b.MTDR = s.MTDR /\ b.done = s.done /\ b.size = s.size
        /\ b.MRDR = s.MRDR /\ b.ignore_tdf = s.ignore_tdf /\ b.buffer = s.buffer
        /\ b.MSR = s.MSR /\ b.MBF = s.MBF /\ b.command = s.command
        /\ b.state = s.state \/ b.state = "transferring"
    BY FirstLemma
  <2> HIDE DEF b
  <2>2. s.ignore_tdf /\ Len(s.done) # s.size
    <3> DEFINE d == Len(s.done)  m == Len(s.MRDR)
    <3>1. s.ignore_tdf /\ m + d <= s.size /\ m \in Nat /\ m > 0 /\ d \in Nat /\ s.size \in Nat
      BY <1>2 DEF Own, Prompt, Drivers
    <3> HIDE DEF d, m
    <3>2. d # s.size
      BY <3>1
    <3> QED BY <3>1, <3>2 DEF d
  <2>3. /\ dropped \in Drivers /\ dropped.MTDR = s.MTDR /\ dropped.MRDR = <<>>
        /\ dropped.ignore_tdf = s.ignore_tdf /\ dropped.done = s.done
        /\ dropped.size = s.size /\ dropped.state = b.state /\ dropped.buffer = s.buffer
        /\ dropped.MSR = s.MSR /\ dropped.MBF = s.MBF /\ dropped.command = s.command
    <3>1. <<>> \in Seq(InBytes)
      OBVIOUS
    <3> QED BY ONLY <2>1, <3>1 DEF Drivers, dropped
  <2> HIDE DEF dropped
  <2>4. /\ taken \in Drivers /\ taken.MTDR = s.MTDR /\ taken.MRDR = Tail(s.MRDR)
        /\ taken.ignore_tdf = s.ignore_tdf /\ Len(taken.done) = Len(s.done) + 1
        /\ taken.size = s.size /\ taken.state = b.state /\ taken.buffer = s.buffer
        /\ taken.MSR = s.MSR /\ taken.MBF = s.MBF /\ taken.command = s.command
    <3> DEFINE byte == Head(b.MRDR)
               rest == Tail(b.MRDR)
               read == Append(b.done, byte)
    <3>1. taken = [b EXCEPT !.MRDR = rest, !.done = read]
      BY <1>2, <2>1, <2>2 DEF TakeByte
    <3>2. byte \in OutBytes \cup InBytes /\ rest \in Seq(InBytes)
          /\ b.done \in Seq(OutBytes \cup InBytes)
      BY <1>2, <2>1 DEF Drivers
    <3>3. read \in Seq(OutBytes \cup InBytes) /\ Len(read) = Len(b.done) + 1
      BY <3>2, AppendLemma
    <3> HIDE DEF taken, byte, rest, read
    <3>4. /\ taken \in Drivers /\ taken.MTDR = b.MTDR /\ taken.MRDR = rest
          /\ taken.ignore_tdf = b.ignore_tdf /\ taken.done = read
          /\ taken.size = b.size /\ taken.state = b.state /\ taken.buffer = b.buffer
          /\ taken.MSR = b.MSR /\ taken.MBF = b.MBF /\ taken.command = b.command
      BY <2>1, <3>1, <3>2, <3>3 DEF Drivers
    <3> QED BY <2>1, <3>3, <3>4 DEF rest
  <2> HIDE DEF taken
  <2>5. CASE b.state # "transferring"
    <3>1. r = dropped /\ t = dropped
      BY <2>2, <2>3, <2>5 DEF EndOfRead
    <3>2. b.state = s.state
      BY <2>1, <2>5
    <3>3. Own(dropped, live) /\ live
      BY <1>2, <2>3, <3>2, OwnTaken
    <3>4. AfterReceive(s, msr) = t
      BY <1>2, <2>2 DEF AfterReceive, r, taken, dropped, b
    <3> HIDE DEF t
    <3> QED BY <1>2, <2>2, <2>3, <3>1, <3>3, <3>4
  <2>6. CASE b.state = "transferring"
    <3>1. r = taken
      BY <2>6
    <3>2. /\ t \in Drivers /\ t.MTDR = s.MTDR /\ t.MRDR = Tail(s.MRDR)
          /\ t.ignore_tdf = s.ignore_tdf /\ t.done = taken.done
          /\ t.size = s.size /\ t.buffer = s.buffer
          /\ t.MSR = s.MSR /\ t.MBF = s.MBF /\ t.command = s.command
          /\ t.state = IF Len(t.done) = t.size
                       THEN IF Len(t.MTDR) = 1 THEN "stopping" ELSE "transfer_complete"
                       ELSE "transferring"
      <4>1. {"stopping", "transfer_complete"} \subseteq States
        BY DEF States, BusyStates
      <4>2. CASE Len(taken.done) = taken.size
        BY <2>4, <2>6, <3>1, <4>1, <4>2 DEF EndOfRead, Drivers
      <4>3. CASE Len(taken.done) # taken.size
        BY <2>4, <2>6, <3>1, <4>3 DEF EndOfRead
      <4> QED BY <4>2, <4>3
    <3> HIDE DEF t
    <3>3. Len(t.done) = Len(s.done) + 1
      BY <2>4, <3>2
    <3>4. Own(t, live) /\ live
      BY <1>2, <3>2, <3>3, OwnTaken
    <3>5. AfterReceive(s, msr) = t
      BY <1>2, <2>2 DEF AfterReceive, t, r, taken, dropped, b
    <3> QED BY <1>2, <2>2, <3>2, <3>4, <3>5
  <2> QED BY <2>5, <2>6
<1> QED BY <1>1, <1>2

\* The next bytes are queued, or the write ends.
LEMMA OwnTransmit ==
  ASSUME NEW s \in Drivers, Bounded(s), NEW live, Own(s, live), NEW msr,
         ~s.ignore_tdf /\ "TDF" \in msr /\ (s.done = <<>> \/ s.state = "transferring")
           => s.MTDR = <<>> /\ s.MRDR = <<>> /\ s.MSR = {},
         ~s.ignore_tdf /\ "TDF" \in msr /\ s.done = <<>> => live /\ s.size > 0
  PROVE  LET t == AfterTransmit(s, msr)
         IN  /\ Own(t, live) /\ t.buffer = s.buffer
             /\ t.done # s.done => live
<1> USE MasterAssumption
<1> DEFINE b == FirstByte(s)
           f == FillFifo(b)
<1>1. /\ b \in Drivers /\ b.MTDR = s.MTDR /\ b.done = s.done /\ b.size = s.size
      /\ b.MRDR = s.MRDR /\ b.buffer = s.buffer /\ b.ignore_tdf = s.ignore_tdf
      /\ b.MSR = s.MSR /\ b.MBF = s.MBF /\ b.command = s.command
  BY FirstLemma
<1>2. b.state = "transferring" <=> s.done = <<>> \/ s.state = "transferring"
  BY DEF FirstByte, Drivers
<1>3. b.state # "transferring" => b = s
  BY <1>2 DEF FirstByte
<1> HIDE DEF b
<1>4. CASE s.ignore_tdf \/ "TDF" \notin msr
  BY <1>4 DEF AfterTransmit
<1>5. CASE ~s.ignore_tdf /\ "TDF" \in msr /\ b.state # "transferring"
  BY <1>3, <1>5 DEF AfterTransmit, b
<1>6. CASE ~s.ignore_tdf /\ "TDF" \in msr /\ b.state = "transferring"
  <2>1. /\ s.MTDR = <<>> /\ s.MRDR = <<>> /\ s.MSR = {} /\ Len(s.MTDR) = 0
        /\ s.done = <<>> \/ s.state = "transferring"
        /\ Unbegun(s) => live /\ s.size > 0
    BY <1>2, <1>6, EmptyFifo DEF Unbegun
  <2>2. live
    BY <1>6, <2>1 DEF Own, Owned, Unbegun
  <2>3. Bounded(b)
    BY <1>1 DEF Bounded
  <2> DEFINE m == Len(f.MTDR) - Len(b.MTDR)
  <2>4. /\ f \in Drivers /\ m \in Nat
        /\ Len(f.MTDR) = Len(b.MTDR) + m /\ Len(f.done) = Len(b.done) + m
        /\ \A j \in 1 .. m : f.MTDR[Len(b.MTDR) + j].op = "TRANSMIT"
        /\ m = 0 => Len(b.done) = b.size \/ Len(b.MTDR) = NUM_FIFOS
        /\ f.state = b.state /\ f.ignore_tdf = b.ignore_tdf
        /\ f.buffer = b.buffer /\ f.size = b.size /\ f.MRDR = b.MRDR
        /\ f.MSR = b.MSR /\ f.MBF = b.MBF /\ f.command = b.command
    BY <1>1, <2>3, FillLemma
  <2> HIDE DEF f, m
  <2>5. Len(f.MTDR) = m /\ Len(b.MTDR) = 0 /\ Len(f.done) = Len(s.done) + Len(f.MTDR)
    <3>1. Len(b.MTDR) = 0 /\ Len(b.done) = Len(s.done)
      BY <1>1, <2>1
    <3>2. Len(f.MTDR) = m
      BY <2>4, <3>1
    <3> QED BY <2>4, <3>1, <3>2
  <2>6. Only(f, "TRANSMIT")
    BY <2>4, <2>5 DEF Only
  <2>7. CASE f.MTDR # <<>>
    <3>1. Own(f, live)
      BY <1>1, <1>6, <2>1, <2>4, <2>5, <2>6, <2>7, OwnFilled
    <3>2. EndOfWrite(f) = f
      BY <2>7 DEF EndOfWrite
    <3> QED BY <1>1, <1>6, <2>2, <2>4, <3>1, <3>2 DEF AfterTransmit, f, b
  <2>8. CASE f.MTDR = <<>>
    <3> DEFINE t == EndOfWrite(f)
    <3>1. m = 0
      BY <2>5, <2>8, StopLemma
    <3>2. Len(s.done) = s.size
      BY <1>1, <2>4, <2>5, <3>1
    <3>3. Len(f.done) = f.size
      BY <1>1, <2>4, <2>5, <3>2, <2>8, StopLemma DEF Drivers
    <3>4. s.done # <<>> /\ f.done # <<>> /\ s.state = "transferring"
      <4>1. s.done # <<>>
        BY <1>6, <2>1, <3>2, StopLemma DEF Unbegun
      <4>2. Len(s.done) # 0
        BY <4>1 DEF Drivers
      <4>3. f.done # <<>>
        BY <1>1, <2>4, <3>2, <3>3, <4>2, StopLemma
      <4> QED BY <2>1, <4>1, <4>3
    <3>5. /\ t \in Drivers /\ t.MSR = {} /\ t.MBF = s.MBF /\ t.MRDR = <<>>
          /\ t.command = s.command /\ t.ignore_tdf = s.ignore_tdf
          /\ t.size = s.size /\ t.done = f.done /\ t.buffer = s.buffer
          /\ \/ t.MTDR = <<STOP>> /\ t.state = "stopping"
             \/ t.MTDR = <<>> /\ t.state = "transfer_complete"
      <4>1. {"stopping", "transfer_complete"} \subseteq States
            /\ <<STOP>> \in Seq(Commands)
        BY StopLemma DEF States, BusyStates
      <4> QED BY <1>1, <2>1, <2>4, <2>8, <3>3, <4>1 DEF EndOfWrite, Drivers
    <3> HIDE DEF t
    <3>6. Own(t, live)
      BY <1>6, <2>1, <3>4, <3>5, OwnWritten
    <3> QED BY <1>6, <2>2, <3>5, <3>6 DEF AfterTransmit, t, f, b
  <2> QED BY <2>7, <2>8
<1> QED BY <1>4, <1>5, <1>6

LEMMA OwnInterrupt ==
  ASSUME NEW s \in Drivers, NEW fr \in Seq(Frames), DriverInv(s, fr),
         NEW live, Own(s, live), Wants(s)
  PROVE  LET msr == Status(s)
             t == AfterTransmit(AfterReceive(AfterStop(AfterFailure(s, msr),
                                                       msr), msr), msr)
         IN  Own(t, live) /\ t.buffer = s.buffer /\ (t.done # s.done => live)
<1> DEFINE msr == Status(s)
           a == AfterFailure(s, msr)
           b == AfterStop(a, msr)
           c == AfterReceive(b, msr)
<1>1. /\ "SDF" \in msr <=> "SDF" \in s.MSR
      /\ "RDF" \in msr <=> s.MRDR # <<>>
      /\ "TDF" \in msr <=> s.MTDR = <<>>
      /\ msr \cap Failures = s.MSR \cap Failures
      /\ "SDF" \notin Failures /\ s.MSR \subseteq Failures \cup {"SDF"}
  BY DEF Status, Drivers, Failures
<1> HIDE DEF msr
<1>2. Bounded(s)
  BY DEF DriverInv
<1>3. /\ Own(a, live) /\ Kept(s, a) /\ a.MSR = s.MSR \ Failures
      /\ Wants(s) /\ Unbegun(s) => a.MTDR = s.MTDR \/ s.MTDR # <<>>
      /\ s.MRDR = <<>> => a.MRDR = <<>>
      /\ s.MSR \cap Failures = {} => a = s
      /\ a = s \/ a.state = "stopping"
  BY <1>1, OwnFailure
<1>4. a \in Drivers /\ DriverInv(a, fr)
  BY FailurePart DEF Served
<1> HIDE DEF a
<1>5. /\ Own(b, live) /\ Kept(a, b) /\ b.MSR = a.MSR \ {"SDF"}
      /\ b.MTDR = a.MTDR /\ b.MRDR = a.MRDR
      /\ "SDF" \notin a.MSR => b = a
  BY <1>1, <1>3, <1>4, OwnStop DEF Kept
<1>6. b \in Drivers /\ DriverInv(b, fr)
  BY <1>4, StopPart
<1> HIDE DEF b
<1>7. b.MSR = {}
  BY <1>1, <1>3, <1>5
<1>8. s.MRDR # <<>> => b = s
  BY <1>3, <1>5 DEF Own, Prompt
<1>9. "RDF" \in msr <=> b.MRDR # <<>>
  BY <1>1, <1>3, <1>5, <1>8
<1>10. /\ Own(c, live) /\ c.ignore_tdf = b.ignore_tdf /\ c.buffer = b.buffer
       /\ b.MRDR # <<>> => live /\ b.ignore_tdf
       /\ b.MRDR = <<>> => c = b
  BY <1>5, <1>6, <1>9, OwnReceive DEF DriverInv
<1>11. c \in Drivers /\ Bounded(c)
  BY <1>6, ReceivePart DEF DriverInv
<1> HIDE DEF c
<1>12. ASSUME ~c.ignore_tdf, "TDF" \in msr
       PROVE  /\ c = b /\ c.MRDR = <<>> /\ c.MSR = {} /\ ~s.ignore_tdf
              /\ c.done = s.done /\ c.size = s.size
              /\ s.done = <<>> => c.MTDR = <<>> /\ live /\ s.size > 0
              /\ c.state = "transferring" => c.MTDR = <<>>
  <2>1. c = b /\ b.MRDR = <<>> /\ ~s.ignore_tdf /\ c.done = s.done /\ c.size = s.size
    BY <1>3, <1>5, <1>10, <1>12 DEF Kept
  <2>2. s.MTDR = <<>> /\ Len(s.MTDR) = 0
    BY <1>1, <1>12, EmptyFifo
  <2>3. s.done = <<>> => c.MTDR = <<>> /\ live /\ s.size > 0
    <3> SUFFICES ASSUME s.done = <<>>
                 PROVE  c.MTDR = <<>> /\ live /\ s.size > 0
      OBVIOUS
    <3>1. Unbegun(s) /\ ~Still(s)
      BY <2>1, <2>2 DEF Unbegun, Still, Wants
    <3>2. live /\ s.size > 0
      BY <3>1 DEF Own, Owned, Waiting
    <3>3. c.MTDR = <<>>
      BY <1>3, <1>5, <2>1, <2>2, <3>1
    <3> QED BY <3>2, <3>3
  <2>4. c.state = "transferring" => c.MTDR = <<>>
    <3>1. CASE a = s
      BY <1>5, <2>1, <2>2, <3>1
    <3>2. CASE a # s
      <4>1. a.state = "stopping" /\ "SDF" \notin a.MSR
        BY <1>1, <1>3, <3>2 DEF Own, Prompt
      <4> QED BY <1>5, <2>1, <4>1
    <3> QED BY <3>1, <3>2
  <2> QED BY <1>7, <2>1, <2>3, <2>4
<1>13. LET t == AfterTransmit(c, msr)
       IN  Own(t, live) /\ t.buffer = c.buffer /\ (t.done # c.done => live)
  BY <1>10, <1>11, <1>12, OwnTransmit
<1>14. c.buffer = s.buffer /\ (c.done # s.done => live)
  BY <1>3, <1>5, <1>10 DEF Kept
<1> QED BY <1>13, <1>14 DEF msr, a, b, c

-----------------------------------------------------------------------------

\* The buffer in the driver belongs to the call that is being made.
Live == call # NoCall /\ i2c.buffer[1] = Number

OwnInv == Undisturbed => Own(i2c, Live)

LEMMA InitOwn == Init => OwnInv
<1> SUFFICES ASSUME Init
             PROVE  Own(i2c, Live)
  BY DEF OwnInv
<1>1. /\ i2c.MTDR = <<>> /\ i2c.MRDR = <<>> /\ i2c.done = <<>> /\ i2c.TDIE = FALSE
      /\ i2c.MSR = {} /\ i2c.MBF = FALSE /\ i2c.command = <<>>
      /\ i2c.state = "idle" /\ i2c.ignore_tdf = FALSE
  BY DEF Init, MasterInit
<1>2. /\ Ordered(i2c) /\ Still(i2c)
      /\ \A op : ~Has(i2c, op) /\ ~Doing1(i2c, op)
  BY <1>1, EmptyFifo DEF Still, Doing1
<1>3. Prompt(i2c) /\ Shape(i2c) /\ Quiet(i2c) /\ Waiting(i2c) /\ Owned(i2c, Live)
  BY <1>1, <1>2 DEF Prompt, Shape, Quiet, Waiting, Owned, Reads
<1> QED BY <1>1, <1>2, <1>3 DEF Own

\* What is disturbed stays so.
LEMMA DisturbedStays ==
  ASSUME IInv, Next, Undisturbed'
  PROVE  Undisturbed /\ ~late /\ (call # NoCall => call \in Asked /\ call.ready /\ ~call.timedOut)
<1>1. CallerInv
  BY DEF IInv
<1>2. late' = late
  BY DEF Next, Caller, Begin, TimeOut, ReadRegister, Return, Restart, begin, Transfer,
         interrupt_service_routine, Port, TakeCommand, SendStart, SendByte, ReceiveByte,
         FifoError, SendStop, LoseArbitration, HoldPinLow
<1>3. ~late
  BY <1>2 DEF Undisturbed, OnTime
<1>4. CASE UNCHANGED <<call, results>>
  BY <1>1, <1>3, <1>4 DEF Undisturbed, OnTime, CallerInv
<1>5. CASE Begin
  BY <1>3, <1>5 DEF Begin, Undisturbed, OnTime
<1>6. CASE TimeOut
  <2>1. call \in Asked /\ call' = [call EXCEPT !.timedOut = TRUE]
    BY <1>1, <1>6 DEF TimeOut, CallerInv
  <2>2. call' # NoCall /\ call'.timedOut
    BY <2>1 DEF Asked, NoCall
  <2> QED BY <2>2 DEF Undisturbed, OnTime
<1>7. CASE ReadRegister
  <2>1. call \in Asked /\ call' = [call EXCEPT !.phase = "transfer"] /\ results' = results
    BY <1>1, <1>7 DEF ReadRegister, Waited, CallerInv
  <2>2. call'.timedOut = call.timedOut /\ call'.ready = call.ready /\ call' # NoCall
    BY <2>1 DEF Asked, NoCall
  <2> QED BY <1>3, <2>1, <2>2 DEF Undisturbed, OnTime
<1>8. CASE Return
  <2> DEFINE r == [asked |-> call.asked, ready |-> call.ready,
                   timedOut |-> call.timedOut, data |-> Stored,
                   code |-> toWireResult(i2c.error), count |-> Len(i2c.done)]
             q == results
  <2>1. call \in Asked /\ results' = Append(q, r) /\ q \in Seq(Results)
    BY <1>1, <1>8 DEF Return, Waited, CallerInv
  <2>2. r.timedOut = call.timedOut /\ r.ready = call.ready
    OBVIOUS
  <2> HIDE DEF r, q
  <2>3. /\ \A k \in DOMAIN q : k \in DOMAIN Append(q, r) /\ Append(q, r)[k] = q[k]
        /\ Len(q) + 1 \in DOMAIN Append(q, r) /\ Append(q, r)[Len(q) + 1] = r
    BY <2>1
  <2>4. /\ \A k \in DOMAIN q : ~q[k].timedOut /\ q[k].ready
        /\ ~r.timedOut /\ r.ready
    BY <2>1, <2>3 DEF Undisturbed, OnTime
  <2> QED BY <1>3, <2>1, <2>2, <2>4 DEF Undisturbed, OnTime, q
<1>9. CASE Restart
  BY <1>4, <1>9 DEF Restart
<1> QED BY <1>4, <1>5, <1>6, <1>7, <1>8, <1>9 DEF Next, Caller, Transfer

LEMMA CallsKeepDone ==
  ASSUME NEW s \in Drivers, NEW k, NEW n, NEW stop
  PROVE  /\ write_async(s, k, n, stop).done \in {s.done, <<>>}
         /\ read_async(s, k, n, stop).done \in {s.done, <<>>}
<1>1. \A d : start(s, d, k).done = s.done
  BY DEF start, abort_transaction_async, Drivers
<1>2. write_async(s, k, n, stop).done \in {s.done, <<>>}
  <2> DEFINE b == start(s, "write", k)
  <2>1. b.done = s.done /\ DOMAIN b = DOMAIN s
    BY <1>1 DEF start, abort_transaction_async
  <2>2. {"ignore_tdf", "MTDR", "done", "buffer", "size", "TDIE", "stop_on_completion"}
          \subseteq DOMAIN s
    BY DEF Drivers
  <2> HIDE DEF b
  <2>3. [b EXCEPT !.ignore_tdf = TRUE, !.MTDR = Append(@, STOP)].done = b.done
    BY <2>1, <2>2
  <2>4. [initialise(b, <<k, "out">>, n)
           EXCEPT !.stop_on_completion = stop, !.TDIE = TRUE].done = <<>>
    BY <2>1, <2>2 DEF initialise
  <2> QED BY <2>1, <2>3, <2>4 DEF write_async, b
<1>3. read_async(s, k, n, stop).done \in {s.done, <<>>}
  <2> DEFINE b == start(s, "read", k)
             q == b.MTDR \o (IF n = 0 THEN <<>> ELSE <<[op |-> "RECEIVE", n |-> n]>>)
                         \o (IF n = 0 \/ stop THEN <<STOP>> ELSE <<>>)
             asked == [b EXCEPT !.MTDR = q]
  <2>1. b.done = s.done /\ DOMAIN b = DOMAIN s
    BY <1>1 DEF start, abort_transaction_async
  <2>2. {"MTDR", "done", "buffer", "size", "error"} \subseteq DOMAIN s
    BY DEF Drivers
  <2>3. [s EXCEPT !.error = "invalid_request"].done = s.done
    BY <2>2
  <2> HIDE DEF b, q
  <2>4. asked.done = b.done /\ DOMAIN asked = DOMAIN b
    BY <2>1, <2>2
  <2> HIDE DEF asked
  <2>5. initialise(asked, <<k, "in">>, n).done = <<>>
    BY <2>1, <2>2, <2>4 DEF initialise
  <2> QED BY <2>1, <2>3, <2>4, <2>5 DEF read_async, asked, q, b
<1> QED BY <1>2, <1>3

\* While no interrupt waits, a call begins, goes on or returns.
LEMMA OwnCaller ==
  ASSUME IInv, OwnInv, ~Pending, Caller, Undisturbed, Undisturbed',
         call # NoCall => call \in Asked /\ call.ready /\ ~call.timedOut
  PROVE  Own(i2c', Live')
<1> USE CallsAssumption
<1>1. i2c \in Drivers /\ Own(i2c, Live) /\ AllServed(i2c) /\ CallerInv
  BY DEF IInv, DriverInv, OwnInv, AllServed, Pending
<1>2. Number \in Nat
  <2>1. results \in Seq(Results)
    BY <1>1 DEF CallerInv
  <2> QED BY <2>1 DEF Number
<1>3. ASSUME NEW c \in Calls
      PROVE  c.n \in Nat /\ c.stop \in BOOLEAN /\ c.n + 1 \in Nat
             /\ Min({c.n, rx_buffer_length}) \in Nat
  <2>1. c.n \in Nat /\ c.stop \in BOOLEAN
    BY <1>3
  <2> QED BY <2>1, MinLemma
<1>4. ASSUME finished(i2c), NEW n \in Nat, NEW stop \in BOOLEAN,
             \/ i2c' = write_async(i2c, Number, n, stop)
             \/ i2c' = read_async(i2c, Number, n, stop)
      PROVE  Own(i2c', i2c'.buffer[1] = Number)
  BY <1>1, <1>2, <1>4, OwnWriteCall, OwnReadCall
<1>5. ASSUME UNCHANGED results, call' # NoCall, Own(i2c', i2c'.buffer[1] = Number)
      PROVE  Own(i2c', Live')
  <2>1. Live' <=> i2c'.buffer[1] = Number
    BY <1>5 DEF Live, Number
  <2>2. Live' = (i2c'.buffer[1] = Number)
    BY <2>1 DEF Live
  <2> QED BY <1>5, <2>2
<1>6. CASE Begin
  <2>1. PICK c \in Calls :
          /\ IF c.by = "device" THEN BeginDevice(c) ELSE BeginWire(c)
          /\ call' = [phase |-> IF c.by = "device" /\ c.op = "read"
                                THEN "register" ELSE "transfer",
                      asked |-> c, ready |-> finished(i2c), timedOut |-> FALSE]
    BY <1>6 DEF Begin
  <2>2. call' # NoCall /\ call'.ready = finished(i2c) /\ UNCHANGED results
    BY <1>6, <2>1 DEF NoCall, Begin
  <2>3. finished(i2c)
    BY <2>2 DEF Undisturbed
  <2>4. Own(i2c', i2c'.buffer[1] = Number)
    <3>1. 1 \in Nat /\ FALSE \in BOOLEAN
      OBVIOUS
    <3> QED BY <1>3, <1>4, <2>1, <2>3, <3>1 DEF BeginDevice, BeginWire
  <2> QED BY <1>5, <2>2, <2>4
<1>7. CASE TimeOut
  <2>1. call \in Asked /\ call' = [call EXCEPT !.timedOut = TRUE]
    BY <1>1, <1>7 DEF TimeOut, CallerInv
  <2>2. call' # NoCall /\ call'.timedOut
    BY <2>1 DEF Asked, NoCall
  <2> QED BY <2>2 DEF Undisturbed, OnTime
<1>8. CASE ReadRegister
  <2>1. call \in Asked /\ call' = [call EXCEPT !.phase = "transfer"] /\ UNCHANGED results
        /\ i2c' = read_async(i2c, Number, call.asked.n, call.asked.stop)
        /\ finished(i2c)
    BY <1>8 DEF ReadRegister, Waited
  <2>2. call' # NoCall /\ call.asked \in Calls
    BY <2>1 DEF Asked, NoCall
  <2>3. Own(i2c', i2c'.buffer[1] = Number)
    BY <1>3, <1>4, <2>1, <2>2
  <2> QED BY <1>5, <2>1, <2>2, <2>3
<1>9. CASE Return
  <2>1. finished(i2c) /\ i2c' = i2c
    BY <1>9 DEF Return, Waited
  <2> QED BY <1>1, <2>1, OwnFinished
<1>10. CASE Restart
  <2> DEFINE t == [i2c EXCEPT !.MTDR = <<>>, !.MRDR = <<>>, !.MSR = {}, !.MBF = FALSE,
                              !.TDIE = FALSE, !.command = <<>>]
  <2>1. i2c' = t /\ call = NoCall
    BY <1>10 DEF Restart, begin
  <2>2. /\ t.MTDR = <<>> /\ t.MRDR = <<>> /\ t.MSR = {} /\ t.MBF = FALSE
        /\ t.TDIE = FALSE /\ t.command = <<>>
        /\ t.ignore_tdf = i2c.ignore_tdf /\ t.done = i2c.done /\ t.state = i2c.state
    BY <1>1 DEF Drivers
  <2> HIDE DEF t
  <2>3. ~Live /\ Owned(i2c, FALSE)
    BY <1>1, <2>1 DEF Live, Own, Owned
  <2>4. /\ Ordered(t) /\ Still(t) /\ \A op : ~Has(t, op) /\ ~Doing1(t, op)
        /\ t.ignore_tdf \/ t.state # "transferring"
    BY <2>2, <2>3, EmptyFifo DEF Still, Doing1, Owned
  <2>5. Prompt(t) /\ Shape(t) /\ Quiet(t) /\ Waiting(t) /\ Owned(t, Live')
    BY <2>2, <2>4 DEF Prompt, Shape, Quiet, Waiting, Owned, Reads
  <2> QED BY <2>1, <2>2, <2>4, <2>5 DEF Own
<1> QED BY <1>6, <1>7, <1>8, <1>9, <1>10 DEF Caller

\* The interrupt, or the port while no interrupt waits.
LEMMA OwnTransfer ==
  ASSUME IInv, OwnInv, Transfer, Undisturbed, ~late
  PROVE  /\ Own(i2c', Live') /\ (i2c'.done # i2c.done => Live)
         /\ i2c'.buffer = i2c.buffer
<1> DEFINE s == i2c
           t == i2c'
           live == Live
<1>1. s \in Drivers /\ Own(s, live) /\ DriverInv(s, frames) /\ UNCHANGED <<call, results>>
      /\ frames \in Seq(Frames)
  BY DEF IInv, DriverInv, Truthful, OwnInv, Transfer
<1>2. /\ AllServed(s) <=> ~Pending
      /\ Wants(s) <=> Pending
  BY DEF AllServed, Wants, Pending
<1>3. t.buffer = s.buffer => Live' = live
  BY <1>1 DEF Live, Number
<1>4. CASE interrupt_service_routine
  <2>1. Own(t, live) /\ t.buffer = s.buffer /\ (t.done # s.done => live)
    BY <1>1, <1>2, <1>4, OwnInterrupt DEF interrupt_service_routine
  <2> QED BY <1>3, <2>1
<1>5. t \in Drivers
  BY TransferStep DEF IInv, DriverInv
<1>6. SUFFICES ASSUME Port, AllServed(s)
               PROVE  Own(t, live) /\ t.buffer = s.buffer /\ t.done = s.done
  <2>1. Port => ~Pending
    BY DEF Port, TakeCommand, SendStart, SendByte, ReceiveByte, FifoError, SendStop,
           LoseArbitration, HoldPinLow, Doing, PortMayGoOn
  <2> QED BY <1>2, <1>3, <1>4, <2>1 DEF Transfer
<1>7. CASE TakeCommand
  <2> DEFINE busy == s.MBF \/ Head(s.MTDR).op = "START"
             c == <<Head(s.MTDR)>>
             rest == Tail(s.MTDR)
  <2>1. t = [s EXCEPT !.command = c, !.MTDR = rest, !.MBF = busy]
        /\ s.command = <<>> /\ s.MTDR # <<>>
    BY <1>7 DEF TakeCommand
  <2>2. ~s.ignore_tdf => ~Has(s, "RECEIVE")
    BY <1>1 DEF DriverInv, Consistent
  <2> HIDE DEF busy, c, rest
  <2>3. /\ t.command = c /\ t.MTDR = rest /\ t.MBF = busy
        /\ t.state = s.state /\ t.MRDR = s.MRDR /\ t.MSR = s.MSR /\ t.TDIE = s.TDIE
        /\ t.ignore_tdf = s.ignore_tdf /\ t.done = s.done /\ t.size = s.size
        /\ t.buffer = s.buffer
    BY <1>1, <2>1 DEF Drivers
  <2> HIDE DEF s, t, live
  <2>4. Own(t, live)
    BY <1>1, <1>5, <1>6, <2>1, <2>2, <2>3, OwnCommand DEF busy, c, rest
  <2> QED BY <2>3, <2>4
<1>8. ASSUME NEW flags, NEW busy \in BOOLEAN, Over(flags, busy), s.command # <<>>,
             busy => s.MBF,
             "SDF" \in flags => Doing1(s, "STOP") /\ s.MBF /\ ~busy /\ flags = {"SDF"}
      PROVE  Own(t, live) /\ t.buffer = s.buffer /\ t.done = s.done
  <2> DEFINE msr == s.MSR \cup flags
  <2>1. t = [s EXCEPT !.command = <<>>, !.MSR = msr, !.MBF = busy]
    BY <1>8 DEF Over
  <2>2. msr = flags
    BY <1>6 DEF AllServed
  <2> HIDE DEF msr
  <2>3. /\ t.command = <<>> /\ t.MSR = flags /\ t.MBF = busy
        /\ t.MTDR = s.MTDR /\ t.state = s.state /\ t.MRDR = s.MRDR /\ t.TDIE = s.TDIE
        /\ t.ignore_tdf = s.ignore_tdf /\ t.done = s.done /\ t.size = s.size
        /\ t.buffer = s.buffer
    BY <1>1, <2>1, <2>2 DEF Drivers
  <2> HIDE DEF s, t, live
  <2>4. Own(t, live)
    BY <1>1, <1>5, <1>6, <1>8, <2>3, OwnEnded
  <2> QED BY <2>3, <2>4
<1>9. \A op : Doing(op) => s.command # <<>> /\ Doing1(s, op)
  BY DEF Doing, Doing1
<1>10. CASE SendStart
  <2>1. PICK ack \in BOOLEAN : Over(IF ack THEN {} ELSE {"NDF"}, TRUE)
    BY <1>10 DEF SendStart
  <2>2. s.MBF /\ s.command # <<>>
    BY <1>1, <1>9, <1>10 DEF SendStart, DriverInv, Consistent
  <2> QED BY <1>8, <2>1, <2>2
<1>11. CASE SendByte
  <2>1. PICK ack \in BOOLEAN : Over(IF ack THEN {} ELSE {"NDF"}, TRUE)
    BY <1>11 DEF SendByte
  <2>2. s.MBF /\ s.command # <<>>
    BY <1>9, <1>11 DEF SendByte, InFrame
  <2> QED BY <1>8, <2>1, <2>2
<1>12. CASE FifoError
  <2>1. Over({"FEF"}, s.MBF) /\ s.command # <<>> /\ s.MBF \in BOOLEAN
    BY <1>1, <1>9, <1>12 DEF FifoError, Drivers
  <2> QED BY <1>8, <2>1
<1>13. CASE SendStop
  <2>1. Over(IF s.MBF THEN {"SDF"} ELSE {}, FALSE) /\ s.command # <<>> /\ Doing1(s, "STOP")
    BY <1>9, <1>13 DEF SendStop
  <2> QED BY <1>8, <2>1
<1>14. CASE LoseArbitration
  <2>1. Over({"ALF"}, FALSE) /\ s.command # <<>>
    BY <1>9, <1>14 DEF LoseArbitration
  <2> QED BY <1>8, <2>1
<1>15. CASE ReceiveByte
  <2> DEFINE byte == <<Len(frames), Len(Last(frames).bytes) + 1>>
             n == s.command[1].n
             c == IF n = 1 THEN <<>> ELSE <<[s.command[1] EXCEPT !.n = n - 1]>>
             q == Append(s.MRDR, byte)
  <2>1. Doing1(s, "RECEIVE") /\ s.command # <<>> /\ t = [s EXCEPT !.MRDR = q, !.command = c]
    BY <1>9, <1>15 DEF ReceiveByte
  <2>2. Len(q) = 1 /\ q # <<>>
    <3>1. s.MRDR = <<>>
      BY <1>6 DEF AllServed
    <3> HIDE DEF byte
    <3>2. q = <<byte>>
      BY <3>1
    <3> QED BY <3>2
  <2>3. c = <<>> \/ (c # <<>> /\ c[1].op = "RECEIVE" /\ c[1].n = n - 1)
    <3> DEFINE d == s.command[1]
               e == [d EXCEPT !.n = n - 1]
    <3>1. d \in Commands /\ d.op = "RECEIVE"
      BY <1>1, <2>1, CommandLemma DEF Doing1
    <3>2. d \in [op : {"RECEIVE"}, n : Nat \ {0}]
      BY <3>1 DEF Commands
    <3> HIDE DEF d, n
    <3>3. e.op = "RECEIVE" /\ e.n = n - 1
      BY <3>2
    <3>4. c = <<>> \/ c = <<e>>
      BY DEF d
    <3> QED BY <3>3, <3>4
  <2> HIDE DEF q, c
  <2>4. /\ t.MRDR = q /\ t.command = c
        /\ t.MTDR = s.MTDR /\ t.state = s.state /\ t.MSR = s.MSR /\ t.MBF = s.MBF
        /\ t.ignore_tdf = s.ignore_tdf /\ t.done = s.done /\ t.size = s.size
        /\ t.buffer = s.buffer
    BY <1>1, <2>1 DEF Drivers
  <2>5. t.command = <<>> \/ (Doing1(t, "RECEIVE") /\ t.command[1].n = s.command[1].n - 1)
    BY <2>3, <2>4 DEF Doing1
  <2> HIDE DEF s, t, live
  <2>6. Own(t, live)
    BY <1>1, <1>5, <1>6, <2>1, <2>2, <2>4, <2>5, OwnReceived
  <2> QED BY <2>4, <2>6
<1>16. CASE HoldPinLow
  <2> DEFINE msr == s.MSR \cup {"PLTF"}
  <2>1. t = [s EXCEPT !.MSR = msr] /\ s.command # <<>>
    BY <1>16 DEF HoldPinLow
  <2>2. msr = {"PLTF"}
    BY <1>6 DEF AllServed
  <2> HIDE DEF msr
  <2>3. /\ t.MSR = {"PLTF"} /\ t.command = s.command /\ t.MBF = s.MBF
        /\ t.MTDR = s.MTDR /\ t.state = s.state /\ t.MRDR = s.MRDR /\ t.TDIE = s.TDIE
        /\ t.ignore_tdf = s.ignore_tdf /\ t.done = s.done /\ t.size = s.size
        /\ t.buffer = s.buffer
    BY <1>1, <2>1, <2>2 DEF Drivers
  <2> HIDE DEF s, t, live
  <2>4. Own(t, live)
    BY <1>1, <1>5, <1>6, <2>1, <2>3, OwnHeld
  <2> QED BY <2>3, <2>4
<1> QED BY <1>6, <1>7, <1>10, <1>11, <1>12, <1>13, <1>14, <1>15, <1>16 DEF Port

LEMMA OwnStep ==
  ASSUME IInv, OwnInv, [Next]_vars
  PROVE  OwnInv'
<1> SUFFICES ASSUME Undisturbed'
             PROVE  Own(i2c', Live')
  BY DEF OwnInv
<1>1. CASE UNCHANGED vars
  <2>1. Undisturbed /\ Own(i2c, Live)
    BY <1>1 DEF vars, OwnInv, Undisturbed, OnTime
  <2>2. i2c' = i2c /\ Live' = Live
    BY <1>1 DEF vars, Live, Number
  <2> QED BY <2>1, <2>2
<1>2. CASE Next
  <2>1. Undisturbed /\ ~late
        /\ (call # NoCall => call \in Asked /\ call.ready /\ ~call.timedOut)
    BY <1>2, DisturbedStays
  <2>2. CASE ~Pending /\ Caller
    BY <2>1, <2>2, OwnCaller
  <2>3. CASE Transfer
    BY <2>1, <2>3, OwnTransfer
  <2> QED BY <1>2, <2>2, <2>3 DEF Next
<1> QED BY <1>1, <1>2

LEMMA CallerKeepsDone ==
  ASSUME IInv, Caller
  PROVE  i2c'.done \in {i2c.done, <<>>}
<1>1. i2c \in Drivers
  BY DEF IInv, DriverInv
<1>2. CASE Begin
  <2>1. PICK c \in Calls : IF c.by = "device" THEN BeginDevice(c) ELSE BeginWire(c)
    BY <1>2 DEF Begin
  <2>2. \/ \E n, stop : i2c' = write_async(i2c, Number, n, stop)
        \/ \E n, stop : i2c' = read_async(i2c, Number, n, stop)
    BY <2>1 DEF BeginDevice, BeginWire
  <2> QED BY <1>1, <2>2, CallsKeepDone
<1>3. CASE ReadRegister
  BY <1>1, <1>3, CallsKeepDone DEF ReadRegister
<1>4. CASE Restart
  BY <1>1, <1>4 DEF Restart, begin, Drivers
<1>5. CASE TimeOut \/ Return
  BY <1>5 DEF TimeOut, Return
<1> QED BY <1>2, <1>3, <1>4, <1>5 DEF Caller

LEMMA OwnInvariance == Spec => []OwnInv
<1>1. IInv /\ OwnInv /\ [Next]_vars => OwnInv'
  BY OwnStep
<1> QED BY <1>1, InitOwn, Invariance, PTL DEF Spec

\* Bytes move through a buffer while the call that owns it is being made, and
\* never later (finish(), the interrupt and the buffers on the callers' stacks).
THEOREM BuffersStayAlive == Spec => BuffersAlive
<1>1. IInv /\ OwnInv /\ [Next]_vars =>
        [Undisturbed /\ i2c'.done # i2c.done /\ i2c'.done # <<>>
           => call # NoCall /\ i2c.buffer[1] = Number]_vars
  <2> SUFFICES ASSUME IInv, OwnInv, [Next]_vars, Undisturbed,
                      i2c'.done # i2c.done, i2c'.done # <<>>
               PROVE  Live
    BY DEF Live
  <2>1. CASE Caller
    BY <2>1, CallerKeepsDone
  <2>2. CASE Transfer
    BY <2>2, OwnTransfer DEF Undisturbed, OnTime
  <2> QED BY <2>1, <2>2 DEF Next, vars
<1> QED BY <1>1, Invariance, OwnInvariance, PTL DEF Spec, BuffersAlive

-----------------------------------------------------------------------------
(* Whose START was refused, and whose bytes are counted.                    *)

Refused(k) == \E f \in DOMAIN frames : frames[f].call = k /\ ~frames[f].ack

\* A START, queued or being sent, is that of the call that is being made.
StartsAreTheirs ==
  /\ First(i2c, "START") => call # NoCall /\ i2c.MTDR[1].call = Number
  /\ Doing1(i2c, "START") => call # NoCall /\ i2c.command[1].call = Number

\* And only one that was refused can be, or become, an "address_nak".
NaksAreTheirs ==
  /\ call # NoCall /\ i2c.error = "address_nak" => Refused(Number)
  /\ "NDF" \in i2c.MSR /\ i2c.state = "starting" => Refused(Number)
  /\ \A k \in DOMAIN results : results[k].code = 2 => Refused(k)

NakInv == /\ Undisturbed => StartsAreTheirs
          /\ Orderly => NaksAreTheirs

\* What a part of the interrupt that meets no failure does.
Forgets(s, t) ==
  /\ t.command = s.command /\ t.error \in {s.error, "ok"} /\ t.MSR \subseteq s.MSR
  /\ First(t, "START") => First(s, "START") /\ t.MTDR[1].call = s.MTDR[1].call

LEMMA ForgetsAgain ==
  ASSUME NEW s, NEW t, NEW u, Forgets(s, t), Forgets(t, u)
  PROVE  Forgets(s, u)
  BY DEF Forgets

LEMMA SameFifo ==
  ASSUME NEW s, NEW t, t.MTDR = s.MTDR \/ t.MTDR = <<>> \/ t.MTDR = <<STOP>>
  PROVE  First(t, "START") => First(s, "START") /\ t.MTDR[1].call = s.MTDR[1].call
<1>1. CASE t.MTDR = s.MTDR
  BY <1>1 DEF First
<1>2. CASE t.MTDR = <<>>
  BY <1>2, EmptyFifo
<1>3. CASE t.MTDR = <<STOP>>
  BY <1>3, OneStop
<1> QED BY <1>1, <1>2, <1>3

LEMMA AbortForgets ==
  ASSUME NEW s \in Drivers
  PROVE  LET t == abort_transaction_async(s)
         IN  /\ Forgets(s, t) /\ t.error = s.error /\ t.state = s.state
             /\ t.MSR = s.MSR
<1> DEFINE q == IF s.MBF /\ "SDF" \notin s.MSR THEN <<STOP>> ELSE <<>>
           t == [s EXCEPT !.TDIE = FALSE, !.MRDR = <<>>, !.MTDR = q]
<1>1. q = <<>> \/ q = <<STOP>>
  OBVIOUS
<1> HIDE DEF q
<1>2. /\ t.MTDR = q /\ t.command = s.command /\ t.error = s.error
      /\ t.MSR = s.MSR /\ t.state = s.state
  BY DEF Drivers
<1> HIDE DEF t
<1>3. First(t, "START") => First(s, "START") /\ t.MTDR[1].call = s.MTDR[1].call
  BY <1>1, <1>2, SameFifo
<1> QED BY <1>2, <1>3 DEF Forgets, abort_transaction_async, t, q

LEMMA FailureTells ==
  ASSUME NEW s \in Drivers, NEW msr, msr \cap Failures = s.MSR \cap Failures
  PROVE  LET t == AfterFailure(s, msr)
         IN  /\ t.command = s.command /\ t.MSR = s.MSR \ Failures
             /\ First(t, "START") => First(s, "START") /\ t.MTDR[1].call = s.MTDR[1].call
             /\ t.error = "address_nak" =>
                  s.error = "address_nak" \/ ("NDF" \in s.MSR /\ s.state = "starting")
<1> DEFINE e == ErrorOf(s, msr)
           told == [s EXCEPT !.error = e, !.MSR = @ \ Failures]
           aborting == [told EXCEPT !.state = "stopping"]
           t == abort_transaction_async(aborting)
<1>1. e \in Errors /\ "stopping" \in States
  BY DEF ErrorOf, Errors, States, BusyStates, Drivers, has_error
<1>2. e = "address_nak" => s.error = "address_nak" \/ ("NDF" \in msr /\ s.state = "starting")
  BY DEF ErrorOf
<1>3. "NDF" \in msr <=> "NDF" \in s.MSR
  BY DEF Failures
<1> HIDE DEF e
<1>4. /\ told \in Drivers /\ told.MTDR = s.MTDR /\ told.command = s.command
      /\ told.error = e /\ told.MSR = s.MSR \ Failures
  BY <1>1 DEF Drivers
<1> HIDE DEF told
<1>5. /\ aborting \in Drivers /\ aborting.MTDR = s.MTDR /\ aborting.command = s.command
      /\ aborting.error = e /\ aborting.MSR = s.MSR \ Failures
  BY <1>1, <1>4 DEF Drivers
<1> HIDE DEF aborting
<1>6. /\ Forgets(aborting, t) /\ t.error = e /\ t.MSR = s.MSR \ Failures
  BY <1>5, AbortForgets
<1> HIDE DEF t
<1>7. CASE msr \cap Failures = {}
  BY <1>7 DEF AfterFailure
<1>8. CASE msr \cap Failures # {} /\ s.state = "stopping"
  <2>1. AfterFailure(s, msr) = told
    BY <1>8 DEF AfterFailure, told, e
  <2> QED BY <1>2, <1>3, <1>4, <2>1 DEF First
<1>9. CASE msr \cap Failures # {} /\ s.state # "stopping"
  <2>1. AfterFailure(s, msr) = t
    BY <1>9 DEF AfterFailure, t, aborting, told, e
  <2>2. First(t, "START") => First(s, "START") /\ t.MTDR[1].call = s.MTDR[1].call
    BY <1>5, <1>6 DEF Forgets, First
  <2> QED BY <1>2, <1>3, <1>5, <1>6, <2>1, <2>2 DEF Forgets
<1> QED BY <1>7, <1>8, <1>9

LEMMA StopForgets ==
  ASSUME NEW s \in Drivers, NEW msr
  PROVE  Forgets(s, AfterStop(s, msr))
<1> DEFINE t == [s EXCEPT !.TDIE = FALSE, !.state = "stopped", !.MSR = @ \ {"SDF"}]
<1>1. /\ t.MTDR = s.MTDR /\ t.command = s.command /\ t.error = s.error
      /\ t.MSR = s.MSR \ {"SDF"}
  BY DEF Drivers
<1> HIDE DEF t
<1>2. Forgets(s, t) /\ Forgets(s, s)
  BY <1>1 DEF Forgets, First
<1> QED BY <1>2 DEF AfterStop, t

LEMMA ReceiveForgets ==
  ASSUME NEW s \in Drivers, NEW msr
  PROVE  Forgets(s, AfterReceive(s, msr))
<1> DEFINE b == FirstByte(s)
           stopping == [s EXCEPT !.state = "stopping"]
           byte == IF b.MRDR = <<>> THEN <<0, 0>> ELSE Head(b.MRDR)
           rest == IF b.MRDR = <<>> THEN <<>> ELSE Tail(b.MRDR)
           read == IF Len(b.done) = b.size THEN b.done ELSE Append(b.done, byte)
           taken == [b EXCEPT !.MRDR = rest, !.done = read]
           dropped == [b EXCEPT !.MRDR = <<>>]
<1>1. Forgets(s, s)
  BY DEF Forgets
<1>2. /\ stopping \in Drivers /\ stopping.MTDR = s.MTDR /\ stopping.command = s.command
      /\ stopping.error = s.error /\ stopping.MSR = s.MSR
  BY DEF Drivers, States, BusyStates
<1> HIDE DEF stopping
<1>3. Forgets(s, abort_transaction_async(stopping))
  <2>1. Forgets(s, stopping)
    BY <1>2 DEF Forgets, First
  <2> QED BY <1>2, <2>1, AbortForgets, ForgetsAgain
<1>4. /\ b \in Drivers /\ b.MTDR = s.MTDR /\ b.command = s.command
      /\ b.error \in {s.error, "ok"} /\ b.MSR = s.MSR
  BY FirstLemma DEF FirstByte, Drivers
<1> HIDE DEF b
<1>5. \A r \in {taken, dropped} :
        /\ DOMAIN r = DOMAIN b /\ r.MTDR = b.MTDR /\ r.command = b.command
        /\ r.error = b.error /\ r.MSR = b.MSR
  BY <1>4 DEF Drivers
<1>6. TakeByte(b) = taken
  <2>1. "done" \in DOMAIN b /\ "MRDR" \in DOMAIN b
    BY <1>4 DEF Drivers
  <2> QED BY <2>1 DEF TakeByte
<1> HIDE DEF taken, dropped
<1>7. ASSUME NEW r \in {taken, dropped}
      PROVE  Forgets(s, EndOfRead(r))
  <2>1. "state" \in DOMAIN r
    BY <1>4, <1>5 DEF Drivers
  <2>2. /\ EndOfRead(r).MTDR = r.MTDR /\ EndOfRead(r).command = r.command
        /\ EndOfRead(r).error = r.error /\ EndOfRead(r).MSR = r.MSR
    BY <2>1 DEF EndOfRead
  <2> QED BY <1>4, <1>5, <2>2 DEF Forgets, First
<1> QED BY <1>1, <1>3, <1>6, <1>7 DEF AfterReceive, b, dropped, stopping

LEMMA TransmitForgets ==
  ASSUME NEW s \in Drivers, Bounded(s), NEW msr
  PROVE  Forgets(s, AfterTransmit(s, msr))
<1> DEFINE b == FirstByte(s)
           f == FillFifo(b)
           t == EndOfWrite(f)
<1>1. Forgets(s, s)
  BY DEF Forgets
<1>2. /\ b \in Drivers /\ b.MTDR = s.MTDR /\ b.command = s.command
      /\ b.error \in {s.error, "ok"} /\ b.MSR = s.MSR
      /\ b.done = s.done /\ b.size = s.size /\ b.MRDR = s.MRDR
  BY FirstLemma DEF FirstByte, Drivers
<1> HIDE DEF b
<1>3. Forgets(s, b)
  BY <1>2 DEF Forgets, First
<1>4. Forgets(b, f) /\ f \in Drivers
  <2>1. Bounded(b)
    BY <1>2 DEF Bounded
  <2> DEFINE m == Len(f.MTDR) - Len(b.MTDR)
  <2>2. /\ f \in Drivers /\ m \in Nat /\ Len(f.MTDR) = Len(b.MTDR) + m
        /\ \A j \in 1 .. Len(b.MTDR) : f.MTDR[j] = b.MTDR[j]
        /\ \A j \in 1 .. m : f.MTDR[Len(b.MTDR) + j].op = "TRANSMIT"
        /\ f.command = b.command /\ f.MSR = b.MSR
    BY <1>2, <2>1, FillLemma
  <2>3. f.error = b.error
    BY <1>2 DEF FillFifo, Drivers
  <2> HIDE DEF f
  <2> DEFINE q == b.MTDR  n == Len(q)  r == f.MTDR
  <2>4. n \in Nat
    BY <1>2 DEF Drivers
  <2>5. First(f, "START") => First(b, "START") /\ r[1].call = q[1].call
    <3> SUFFICES ASSUME Len(r) > 0, r[1].op = "START"
                 PROVE  n > 0 /\ q[1].op = "START" /\ r[1].call = q[1].call
      BY DEF First
    <3>1. CASE n = 0
      <4>1. m > 0 /\ 1 \in 1 .. m /\ n + 1 = 1
        BY <2>2, <3>1
      <4>2. r[1].op = "TRANSMIT"
        BY <2>2, <4>1
      <4> QED BY <4>2
    <3>2. CASE n > 0
      <4>1. 1 \in 1 .. n
        BY <2>4, <3>2
      <4>2. r[1] = q[1]
        BY <2>2, <4>1
      <4> QED BY <3>2, <4>2
    <3> QED BY <2>4, <3>1, <3>2
  <2> QED BY <2>2, <2>3, <2>5 DEF Forgets
<1>5. Forgets(f, t)
  <2> HIDE DEF f
  <2>1. /\ t.MTDR \in {f.MTDR, <<STOP>>} /\ t.command = f.command
        /\ t.error = f.error /\ t.MSR = f.MSR
    BY <1>4 DEF EndOfWrite, Drivers
  <2> HIDE DEF t
  <2> QED BY <2>1, SameFifo DEF Forgets
<1>6. Forgets(s, t)
  BY <1>3, <1>4, <1>5, ForgetsAgain
<1> QED BY <1>1, <1>3, <1>6 DEF AfterTransmit, b, f, t

\* The interrupt tells of a refused address only after a NAK of a START.
LEMMA InterruptTells ==
  ASSUME NEW s \in Drivers, NEW fr \in Seq(Frames), DriverInv(s, fr)
  PROVE  LET msr == Status(s)
             t == AfterTransmit(AfterReceive(AfterStop(AfterFailure(s, msr),
                                                       msr), msr), msr)
         IN  /\ t.command = s.command /\ "NDF" \notin t.MSR
             /\ First(t, "START") => First(s, "START") /\ t.MTDR[1].call = s.MTDR[1].call
             /\ t.error = "address_nak" =>
                  s.error = "address_nak" \/ ("NDF" \in s.MSR /\ s.state = "starting")
<1> DEFINE msr == Status(s)
           a == AfterFailure(s, msr)
           b == AfterStop(a, msr)
           c == AfterReceive(b, msr)
           d == AfterTransmit(c, msr)
<1>1. /\ msr \cap Failures = s.MSR \cap Failures
      /\ "NDF" \in Failures
  BY DEF Status, Drivers, Failures
<1> HIDE DEF msr
<1>2. a \in Drivers /\ DriverInv(a, fr)
  BY FailurePart DEF Served, msr
<1>3. /\ a.command = s.command /\ a.MSR = s.MSR \ Failures
      /\ First(a, "START") => First(s, "START") /\ a.MTDR[1].call = s.MTDR[1].call
      /\ a.error = "address_nak" =>
           s.error = "address_nak" \/ ("NDF" \in s.MSR /\ s.state = "starting")
  BY <1>1, FailureTells
<1> HIDE DEF a
<1>4. b \in Drivers /\ DriverInv(b, fr) /\ Forgets(a, b)
  BY <1>2, StopPart, StopForgets
<1> HIDE DEF b
<1>5. c \in Drivers /\ Bounded(c) /\ Forgets(b, c)
  BY <1>4, ReceivePart, ReceiveForgets DEF DriverInv
<1> HIDE DEF c
<1>6. Forgets(a, d)
  BY <1>4, <1>5, TransmitForgets, ForgetsAgain
<1> HIDE DEF d
<1>7. /\ d.command = s.command /\ "NDF" \notin d.MSR
      /\ First(d, "START") => First(s, "START") /\ d.MTDR[1].call = s.MTDR[1].call
      /\ d.error = "address_nak" =>
           s.error = "address_nak" \/ ("NDF" \in s.MSR /\ s.state = "starting")
  BY <1>1, <1>3, <1>6 DEF Forgets
<1> QED BY <1>7 DEF d, c, b, a, msr

\* The first command that a call leaves in the FIFO, if it is a START.
LEMMA FirstOfCall ==
  ASSUME NEW c \in Commands, NEW r \in Seq(Commands), NEW e \in Seq(Commands)
  PROVE  (<<c>> \o r \o e)[1] = c /\ Append(<<c>>, STOP)[1] = c
<1>1. <<c>> \in Seq(Commands) /\ Len(<<c>>) = 1 /\ <<c>>[1] = c
  OBVIOUS
<1> DEFINE a == <<c>>
<1> HIDE DEF a
<1>2. (a \o r) \in Seq(Commands) /\ (a \o r)[1] = a[1] /\ Len(a \o r) > 0
  BY <1>1 DEF a
<1> DEFINE b == a \o r
<1> HIDE DEF b
<1>3. (b \o e)[1] = b[1]
  BY <1>2 DEF b
<1>4. Append(a, STOP)[1] = a[1]
  BY <1>1 DEF a
<1> QED BY <1>1, <1>2, <1>3, <1>4 DEF a, b

\* A call begins with an error of its own or none, and with its own START.
Anew(s, t, k) ==
  /\ t.command = s.command /\ t.MSR = {} /\ t.error # "address_nak"
  /\ First(t, "START") => t.MTDR[1].call = k

LEMMA StartsAnew ==
  ASSUME NEW s \in Drivers, s.MSR = {}, NEW d \in Directions, NEW k \in Nat
  PROVE  LET b == start(s, d, k)
         IN  /\ DOMAIN b = DOMAIN s /\ Anew(s, b, k)
             /\ CanStart(s) => b.MTDR = <<Start(d, k)>>
<1> DEFINE q == IF s.MBF /\ "SDF" \notin s.MSR THEN <<STOP>> ELSE <<>>
           b == start(s, d, k)
           ignore == d = "read"
           none == [s EXCEPT !.MTDR = <<>>]
<1>1. q = <<>> \/ q = <<STOP>>
  OBVIOUS
<1> HIDE DEF q
<1>2. \A t : t.MTDR = q => ~First(t, "START")
  BY <1>1, EmptyFifo, OneStop DEF First
<1>3. CASE ~finished(s)
  <2>1. b = [s EXCEPT !.TDIE = FALSE, !.MRDR = <<>>, !.MTDR = q,
                      !.error = "master_not_ready", !.state = "idle"]
    BY <1>3 DEF start, abort_transaction_async, q
  <2>2. DOMAIN b = DOMAIN s /\ b.command = s.command /\ b.MSR = {}
        /\ b.error = "master_not_ready" /\ b.MTDR = q
    BY <2>1 DEF Drivers
  <2> QED BY <1>2, <1>3, <2>2 DEF Anew, CanStart
<1>4. CASE finished(s) /\ ~CanStart(s)
  <2>1. b = [s EXCEPT !.TDIE = FALSE, !.MRDR = <<>>, !.MTDR = q, !.ignore_tdf = ignore,
                      !.error = "master_fifos_not_empty", !.state = "starting"]
    BY <1>4 DEF start, abort_transaction_async, q, Drivers
  <2>2. DOMAIN b = DOMAIN s /\ b.command = s.command /\ b.MSR = {}
        /\ b.error = "master_fifos_not_empty" /\ b.MTDR = q
    BY <2>1 DEF Drivers
  <2> QED BY <1>2, <1>4, <2>2 DEF Anew
<1>5. CASE CanStart(s)
  <2> DEFINE c == Start(d, k)
  <2>1. b = [s EXCEPT !.ignore_tdf = ignore, !.error = "ok", !.state = "starting",
                      !.MSR = {}, !.MTDR = <<c>>]
    BY <1>5 DEF start, CanStart, Start
  <2>2. c.call = k
    BY DEF Start
  <2> HIDE DEF c, b
  <2>3. DOMAIN b = DOMAIN s /\ b.command = s.command /\ b.MSR = {}
        /\ b.error = "ok" /\ b.MTDR = <<c>>
    BY <2>1 DEF Drivers
  <2>4. First(b, "START") => b.MTDR[1].call = k
    BY <2>2, <2>3
  <2> QED BY <2>3, <2>4 DEF Anew, c, b
<1> QED BY <1>3, <1>4, <1>5 DEF CanStart

LEMMA WritesAnew ==
  ASSUME NEW s \in Drivers, s.MSR = {}, NEW k \in Nat, NEW n, NEW stop
  PROVE  Anew(s, write_async(s, k, n, stop), k)
<1> DEFINE b == start(s, "write", k)
           c == Start("write", k)
           q == Append(b.MTDR, STOP)
           empty == [b EXCEPT !.ignore_tdf = TRUE, !.MTDR = q]
           full == [initialise(b, <<k, "out">>, n)
                      EXCEPT !.stop_on_completion = stop, !.TDIE = TRUE]
<1>1. DOMAIN b = DOMAIN s /\ Anew(s, b, k) /\ (CanStart(s) => b.MTDR = <<c>>)
  BY StartsAnew DEF Directions
<1>2. c \in Commands /\ c.call = k
  BY DEF Start, Commands, Directions
<1>3. CanStart(s) => q[1] = c
  BY <1>1, <1>2, FirstOfCall, StopLemma
<1> HIDE DEF b, c, q
<1>4. /\ empty.command = b.command /\ empty.MSR = b.MSR /\ empty.error = b.error
      /\ empty.MTDR = q
  BY <1>1 DEF Drivers
<1>5. /\ full.command = b.command /\ full.MSR = b.MSR /\ full.error = b.error
      /\ full.MTDR = b.MTDR
  BY <1>1 DEF Drivers, initialise
<1> HIDE DEF empty, full
<1>6. CanStart(s) => Anew(s, empty, k) /\ Anew(s, full, k)
  BY <1>1, <1>2, <1>3, <1>4, <1>5 DEF Anew, First
<1> QED BY <1>1, <1>6 DEF write_async, empty, full, q, b

LEMMA ReadsAnew ==
  ASSUME NEW s \in Drivers, s.MSR = {}, ~First(s, "START"),
         NEW k \in Nat, NEW n \in Nat, NEW stop
  PROVE  Anew(s, read_async(s, k, n, stop), k)
<1> DEFINE b == start(s, "read", k)
           c == Start("read", k)
           receive == IF n = 0 THEN <<>> ELSE <<[op |-> "RECEIVE", n |-> n]>>
           end == IF n = 0 \/ stop THEN <<STOP>> ELSE <<>>
           q == b.MTDR \o receive \o end
           asked == [b EXCEPT !.MTDR = q]
           t == initialise(asked, <<k, "in">>, n)
           invalid == [s EXCEPT !.error = "invalid_request"]
<1>1. DOMAIN b = DOMAIN s /\ Anew(s, b, k) /\ (CanStart(s) => b.MTDR = <<c>>)
  BY StartsAnew DEF Directions
<1>2. c \in Commands /\ c.call = k
  BY DEF Start, Commands, Directions
<1>3. receive \in Seq(Commands) /\ end \in Seq(Commands)
  <2>1. n # 0 => [op |-> "RECEIVE", n |-> n] \in Commands
    BY DEF Commands
  <2> QED BY <2>1, StopLemma
<1> HIDE DEF b, c, receive, end
<1>4. CanStart(s) => q[1] = c
  <2>1. (<<c>> \o receive \o end)[1] = c
    BY <1>2, <1>3, FirstOfCall
  <2>2. CanStart(s) => q = <<c>> \o receive \o end
    BY <1>1
  <2> QED BY <2>1, <2>2
<1> HIDE DEF q
<1>5. /\ asked.command = b.command /\ asked.MSR = b.MSR /\ asked.error = b.error
      /\ asked.MTDR = q /\ DOMAIN asked = DOMAIN b
  BY <1>1 DEF Drivers
<1> HIDE DEF asked
<1>6. /\ t.command = b.command /\ t.MSR = b.MSR /\ t.error = b.error /\ t.MTDR = q
  BY <1>1, <1>5 DEF Drivers, initialise
<1> HIDE DEF t
<1>7. /\ invalid.command = s.command /\ invalid.MSR = s.MSR /\ invalid.MTDR = s.MTDR
      /\ invalid.error = "invalid_request"
  BY DEF Drivers
<1> HIDE DEF invalid
<1>8. Anew(s, invalid, k)
  BY <1>7 DEF Anew, First
<1>9. CanStart(s) => Anew(s, asked, k) /\ Anew(s, t, k)
  BY <1>1, <1>2, <1>4, <1>5, <1>6 DEF Anew, First
<1> QED BY <1>1, <1>8, <1>9 DEF read_async, invalid, t, asked, q, receive, end, b

\* What was refused stays so.
LEMMA RefusedStays ==
  ASSUME NEW k, Refused(k), frames \in Seq(Frames),
         \/ UNCHANGED frames
         \/ \E f \in Frames : frames' = Append(frames, f)
         \/ \E byte : frames # <<>> /\ Transferred(byte)
  PROVE  Refused(k)'
<1> DEFINE fr == frames
<1>1. PICK f \in DOMAIN fr : fr[f].call = k /\ ~fr[f].ack
  BY DEF Refused
<1>2. f \in 1 .. Len(fr)
  OBVIOUS
<1>3. CASE UNCHANGED frames
  BY <1>1, <1>3 DEF Refused
<1>4. ASSUME NEW g \in Frames, frames' = Append(frames, g)
      PROVE  Refused(k)'
  <2>1. f \in DOMAIN frames' /\ frames'[f] = fr[f]
    BY <1>2, <1>4
  <2> QED BY <1>1, <2>1 DEF Refused
<1>5. ASSUME NEW byte, frames # <<>>, Transferred(byte)
      PROVE  Refused(k)'
  <2>1. f \in DOMAIN frames' /\ frames'[f].call = fr[f].call /\ frames'[f].ack = fr[f].ack
    <3> DEFINE g == [fr[Len(fr)] EXCEPT !.bytes = Append(@, byte)]
    <3>1. frames' = [fr EXCEPT ![Len(fr)] = g]
      BY <1>5 DEF Transferred
    <3>2. fr[f] \in Frames
      BY <1>2
    <3>3. f = Len(fr) => g.call = fr[f].call /\ g.ack = fr[f].ack
      BY <3>2 DEF Frames
    <3> HIDE DEF g
    <3> QED BY <1>2, <3>1, <3>3
  <2> QED BY <1>1, <2>1 DEF Refused
<1> QED BY <1>3, <1>4, <1>5

LEMMA InitNak == Init => NakInv
<1> SUFFICES ASSUME Init
             PROVE  StartsAreTheirs /\ NaksAreTheirs
  BY DEF NakInv
<1>1. /\ i2c.MTDR = <<>> /\ i2c.MSR = {} /\ i2c.command = <<>> /\ call = NoCall
      /\ results = <<>>
  BY DEF Init, MasterInit
<1>2. ~First(i2c, "START") /\ ~Doing1(i2c, "START") /\ DOMAIN results = {}
  BY <1>1, EmptyFifo DEF Doing1
<1> QED BY <1>1, <1>2 DEF StartsAreTheirs, NaksAreTheirs

\* Calls, which are made while no interrupt waits.
LEMMA NakCaller ==
  ASSUME IInv, OwnInv, NakInv, ~Pending, Caller, Undisturbed, Undisturbed',
         call # NoCall => call \in Asked /\ call.ready /\ ~call.timedOut
  PROVE  NakInv'
<1> USE CallsAssumption
<1>1. i2c \in Drivers /\ Own(i2c, Live) /\ CallerInv /\ i2c.MSR = {}
      /\ StartsAreTheirs /\ frames \in Seq(Frames) /\ results \in Seq(Results)
  BY DEF IInv, DriverInv, OwnInv, Pending, NakInv, CallerInv, Truthful
<1>2. Number \in Nat
  BY <1>1 DEF Number
<1>3. First(i2c, "START") => Has(i2c, "START")
  BY <1>1 DEF First, Has, Drivers
<1>4. finished(i2c) => ~First(i2c, "START") /\ ~Doing1(i2c, "START")
  BY <1>1, <1>3 DEF Own, Quiet
<1>5. Orderly' => Orderly \/ ~UNCHANGED faults
  BY DEF Orderly
<1>6. ASSUME finished(i2c), Anew(i2c, i2c', Number), UNCHANGED <<frames, faults, results>>,
             call' # NoCall
      PROVE  NakInv'
  <2>1. StartsAreTheirs'
    <3>1. Number' = Number
      BY <1>6 DEF Number
    <3>2. ~Doing1(i2c', "START")
      BY <1>4, <1>6 DEF Anew, Doing1
    <3>3. First(i2c', "START") => i2c'.MTDR[1].call = Number
      BY <1>6 DEF Anew
    <3> QED BY <1>6, <3>1, <3>2, <3>3 DEF StartsAreTheirs, First, Doing1
  <2>2. Orderly' => NaksAreTheirs'
    <3> SUFFICES ASSUME Orderly'
                 PROVE  NaksAreTheirs'
      OBVIOUS
    <3>1. NaksAreTheirs
      BY <1>5, <1>6 DEF NakInv
    <3>2. \A k : Refused(k) => Refused(k)'
      BY <1>6 DEF Refused
    <3> QED BY <1>6, <3>1, <3>2 DEF NaksAreTheirs, Anew
  <2> QED BY <2>1, <2>2 DEF NakInv
<1>7. CASE Begin
  <2>1. PICK c \in Calls :
          /\ IF c.by = "device" THEN BeginDevice(c) ELSE BeginWire(c)
          /\ call' = [phase |-> IF c.by = "device" /\ c.op = "read"
                                THEN "register" ELSE "transfer",
                      asked |-> c, ready |-> finished(i2c), timedOut |-> FALSE]
    BY <1>7 DEF Begin
  <2>2. call' # NoCall /\ call'.ready = finished(i2c) /\ UNCHANGED <<frames, faults, results>>
    BY <1>7, <2>1 DEF NoCall, Begin
  <2>3. finished(i2c)
    BY <2>2 DEF Undisturbed
  <2>4. c.n \in Nat /\ Min({c.n, rx_buffer_length}) \in Nat
    BY MinLemma
  <2>5. Anew(i2c, i2c', Number)
    <3>1. CASE \E n, stop : i2c' = write_async(i2c, Number, n, stop)
      <4>1. PICK n, stop : i2c' = write_async(i2c, Number, n, stop)
        BY <3>1
      <4> QED BY <1>1, <1>2, <4>1, WritesAnew
    <3>2. CASE \E n \in Nat : \E stop : i2c' = read_async(i2c, Number, n, stop)
      BY <1>1, <1>2, <1>4, <2>3, <3>2, ReadsAnew
    <3> QED BY <2>1, <2>4, <3>1, <3>2 DEF BeginDevice, BeginWire
  <2> QED BY <1>6, <2>2, <2>3, <2>5
<1>8. CASE TimeOut
  <2>1. call \in Asked /\ call' = [call EXCEPT !.timedOut = TRUE]
    BY <1>1, <1>8 DEF TimeOut, CallerInv
  <2>2. call' # NoCall /\ call'.timedOut
    BY <2>1 DEF Asked, NoCall
  <2> QED BY <2>2 DEF Undisturbed, OnTime
<1>9. CASE ReadRegister
  <2>1. call \in Asked /\ call' = [call EXCEPT !.phase = "transfer"]
        /\ UNCHANGED <<frames, faults, results>>
        /\ i2c' = read_async(i2c, Number, call.asked.n, call.asked.stop)
        /\ finished(i2c)
    BY <1>9 DEF ReadRegister, Waited
  <2>2. call' # NoCall /\ call.asked \in Calls /\ call.asked.n \in Nat
    BY <2>1 DEF Asked, NoCall
  <2>3. Anew(i2c, i2c', Number)
    BY <1>1, <1>2, <1>4, <2>1, <2>2, ReadsAnew
  <2> QED BY <1>6, <2>1, <2>2, <2>3
<1>10. CASE Return
  <2> DEFINE r == [asked |-> call.asked, ready |-> call.ready,
                   timedOut |-> call.timedOut, data |-> Stored,
                   code |-> toWireResult(i2c.error), count |-> Len(i2c.done)]
             q == results
  <2>1. /\ results' = Append(q, r) /\ q \in Seq(Results) /\ call # NoCall /\ call' = NoCall
        /\ finished(i2c) /\ UNCHANGED <<i2c, frames, faults>>
    BY <1>1, <1>10 DEF Return, Waited
  <2>2. r.code = 2 => i2c.error = "address_nak"
    BY DEF toWireResult
  <2> HIDE DEF r
  <2>3. \A k \in DOMAIN Append(q, r) :
          \/ k \in DOMAIN q /\ Append(q, r)[k] = q[k]
          \/ k = Number /\ Append(q, r)[k] = r
    BY <2>1 DEF Number
  <2>4. StartsAreTheirs'
    BY <1>4, <2>1 DEF StartsAreTheirs, First, Doing1
  <2>5. Orderly' => NaksAreTheirs'
    <3> SUFFICES ASSUME Orderly'
                 PROVE  NaksAreTheirs'
      OBVIOUS
    <3>1. NaksAreTheirs
      BY <1>5, <2>1 DEF NakInv
    <3>2. \A k : Refused(k) => Refused(k)'
      BY <2>1 DEF Refused
    <3>3. \A k \in DOMAIN results' : results'[k].code = 2 => Refused(k)
      BY <2>1, <2>2, <2>3, <3>1 DEF NaksAreTheirs
    <3> QED BY <1>1, <2>1, <3>2, <3>3 DEF NaksAreTheirs
  <2> QED BY <2>4, <2>5 DEF NakInv
<1>11. CASE Restart
  <2>1. /\ i2c' = [i2c EXCEPT !.MTDR = <<>>, !.MRDR = <<>>, !.MSR = {}, !.MBF = FALSE,
                              !.TDIE = FALSE, !.command = <<>>]
        /\ faults' = Append(faults, "begin")
    BY <1>11 DEF Restart, begin, Fault
  <2>2. i2c'.MTDR = <<>> /\ i2c'.command = <<>>
    BY <1>1, <2>1 DEF Drivers
  <2>3. ~Orderly'
    <3>1. "begin" \in ToSet(faults')
      <4> DEFINE q == faults
      <4>1. q \in Seq(Faults)
        BY <1>1 DEF CallerInv
      <4>2. Len(q) + 1 \in DOMAIN Append(q, "begin") /\ Append(q, "begin")[Len(q) + 1] = "begin"
        BY <4>1
      <4> QED BY <2>1, <4>2 DEF ToSet
    <3> QED BY <3>1 DEF Orderly
  <2>4. StartsAreTheirs'
    BY <2>2, EmptyFifo DEF StartsAreTheirs, Doing1
  <2> QED BY <2>3, <2>4 DEF NakInv
<1> QED BY <1>7, <1>8, <1>9, <1>10, <1>11 DEF Caller

\* The interrupt, and the port while no interrupt waits.
LEMMA NakTransfer ==
  ASSUME IInv, OwnInv, NakInv, Transfer, Undisturbed
  PROVE  NakInv'
<1>1. i2c \in Drivers /\ Own(i2c, Live) /\ CallerInv /\ DriverInv(i2c, frames)
      /\ StartsAreTheirs /\ frames \in Seq(Frames) /\ UNCHANGED <<call, results>>
  BY DEF IInv, DriverInv, OwnInv, NakInv, Truthful, Transfer
<1>2. Number' = Number
  BY <1>1 DEF Number
<1>3. ASSUME \/ UNCHANGED faults
             \/ \E kind : Fault(kind)
      PROVE  Orderly' => Orderly
  <2>1. CASE UNCHANGED faults
    BY <2>1 DEF Orderly
  <2>2. ASSUME NEW kind, Fault(kind)
        PROVE  Orderly' => Orderly
    <3> DEFINE q == faults
    <3>1. q \in Seq(Faults) /\ faults' = Append(q, kind)
      BY <1>1, <2>2 DEF CallerInv, Fault
    <3>2. \A k \in DOMAIN q : k \in DOMAIN Append(q, kind) /\ Append(q, kind)[k] = q[k]
      BY <3>1
    <3>3. ToSet(q) \subseteq ToSet(Append(q, kind))
      BY <3>2 DEF ToSet
    <3> QED BY <3>1, <3>3 DEF Orderly
  <2> QED BY <1>3, <2>1, <2>2
<1>4. ASSUME NEW kind, kind # "NAK", Fault(kind)
      PROVE  ~Orderly'
  <2> DEFINE q == faults
  <2>1. q \in Seq(Faults) /\ faults' = Append(q, kind)
    BY <1>1, <1>4 DEF CallerInv, Fault
  <2>2. Len(q) + 1 \in DOMAIN Append(q, kind) /\ Append(q, kind)[Len(q) + 1] = kind
    BY <2>1
  <2>3. kind \in ToSet(faults')
    BY <2>1, <2>2 DEF ToSet
  <2> QED BY <1>4, <2>3 DEF Orderly
<1>5. ASSUME \A k : Refused(k) => Refused(k)',
             First(i2c', "START") => First(i2c, "START") /\ i2c'.MTDR[1].call = i2c.MTDR[1].call,
             \/ ~Doing1(i2c', "START")
             \/ i2c'.command = i2c.command
             \/ First(i2c, "START") /\ i2c'.command[1].call = i2c.MTDR[1].call,
             Orderly' => Orderly,
             Orderly' => /\ i2c'.error = "address_nak" =>
                              \/ i2c.error = "address_nak"
                              \/ "NDF" \in i2c.MSR /\ i2c.state = "starting"
                         /\ "NDF" \in i2c'.MSR /\ i2c'.state = "starting" =>
                              Refused(Number)'
      PROVE  NakInv'
  <2>1. StartsAreTheirs'
    BY <1>1, <1>2, <1>5 DEF StartsAreTheirs, Doing1
  <2>2. Orderly' => NaksAreTheirs'
    <3> SUFFICES ASSUME Orderly'
                 PROVE  NaksAreTheirs'
      OBVIOUS
    <3>1. NaksAreTheirs
      BY <1>5 DEF NakInv
    <3>2. \A k : Refused(k) => Refused(k)'
      BY <1>5
    <3>3. Refused(Number) => Refused(Number)'
      BY <1>2, <3>2 DEF Refused
    <3>4. \A k \in DOMAIN results' : results'[k].code = 2 => Refused(k)'
      BY <1>1, <3>1, <3>2 DEF NaksAreTheirs
    <3> QED BY <1>1, <1>5, <3>1, <3>3, <3>4 DEF NaksAreTheirs
  <2> QED BY <2>1, <2>2 DEF NakInv
<1>6. CASE interrupt_service_routine
  <2>1. /\ i2c'.command = i2c.command /\ "NDF" \notin i2c'.MSR
        /\ First(i2c', "START") => First(i2c, "START") /\ i2c'.MTDR[1].call = i2c.MTDR[1].call
        /\ i2c'.error = "address_nak" =>
             i2c.error = "address_nak" \/ ("NDF" \in i2c.MSR /\ i2c.state = "starting")
    BY <1>1, <1>6, InterruptTells DEF interrupt_service_routine
  <2>2. UNCHANGED <<frames, faults>>
    BY <1>6 DEF interrupt_service_routine
  <2>3. \A k : Refused(k) => Refused(k)'
    BY <2>2 DEF Refused
  <2> QED BY <1>3, <1>5, <2>1, <2>2, <2>3
<1>7. CASE TakeCommand
  <2> DEFINE c == Head(i2c.MTDR)
             busy == i2c.MBF \/ c.op = "START"
             rest == Tail(i2c.MTDR)
  <2>1. i2c' = [i2c EXCEPT !.command = <<c>>, !.MTDR = rest, !.MBF = busy]
        /\ i2c.MTDR # <<>> /\ UNCHANGED <<frames, faults>>
    BY <1>7 DEF TakeCommand
  <2>2. /\ c = i2c.MTDR[1] /\ Len(i2c.MTDR) > 0
        /\ \A j \in 2 .. Len(i2c.MTDR) : i2c.MTDR[j].op # "START"
    BY <1>1, <2>1 DEF Drivers, DriverInv, Consistent
  <2>3. ~\E j \in 1 .. Len(rest) : rest[j].op = "START"
    <3> DEFINE q == i2c.MTDR
    <3>1. q \in Seq(Commands) /\ q # <<>>
      BY <1>1, <2>1 DEF Drivers
    <3>2. \A j \in 1 .. Len(Tail(q)) : j + 1 \in 2 .. Len(q) /\ Tail(q)[j] = q[j + 1]
      BY <3>1
    <3> QED BY <2>2, <3>2
  <2> HIDE DEF c, busy, rest
  <2>4. i2c'.command = <<c>> /\ i2c'.MTDR = rest /\ i2c'.MSR = i2c.MSR
        /\ i2c'.state = i2c.state /\ i2c'.error = i2c.error
    BY <1>1, <2>1 DEF Drivers
  <2>5. ~First(i2c', "START")
    <3>1. rest \in Seq(Commands)
      BY <1>1, <2>1 DEF Drivers, rest
    <3> QED BY <2>3, <2>4, <3>1 DEF First
  <2>6. Doing1(i2c', "START") => First(i2c, "START") /\ i2c'.command[1].call = i2c.MTDR[1].call
    BY <2>2, <2>4 DEF Doing1, First
  <2>7. \A k : Refused(k) <=> Refused(k)'
    BY <2>1 DEF Refused
  <2>8. Orderly' => Orderly
    BY <1>3, <2>1
  <2>9. Orderly /\ "NDF" \in i2c.MSR /\ i2c.state = "starting" => Refused(Number)'
    BY <1>2, <2>1 DEF NakInv, NaksAreTheirs, Refused
  <2> QED BY <1>5, <2>4, <2>5, <2>6, <2>7, <2>8, <2>9
<1>8. ASSUME i2c'.MTDR = i2c.MTDR, i2c'.error = i2c.error, i2c'.state = i2c.state,
             ~Doing1(i2c', "START") \/ i2c'.command = i2c.command,
             \A k : Refused(k) => Refused(k)',
             Orderly' => Orderly,
             Orderly' /\ "NDF" \in i2c'.MSR /\ i2c.state = "starting" =>
               "NDF" \in i2c.MSR \/ Refused(Number)'
      PROVE  NakInv'
  <2>1. First(i2c', "START") => First(i2c, "START") /\ i2c'.MTDR[1].call = i2c.MTDR[1].call
    BY <1>8 DEF First
  <2>2. Orderly' /\ "NDF" \in i2c'.MSR /\ i2c'.state = "starting" => Refused(Number)'
    <3>1. Orderly /\ "NDF" \in i2c.MSR /\ i2c.state = "starting" => Refused(Number)
      BY DEF NakInv, NaksAreTheirs
    <3>2. Refused(Number) => Refused(Number)'
      BY <1>2, <1>8 DEF Refused
    <3> QED BY <1>8, <3>1, <3>2
  <2> QED BY <1>5, <1>8, <2>1, <2>2
<1>9. ASSUME NEW flags, NEW busy, Over(flags, busy), i2c.command # <<>>
      PROVE  /\ i2c'.MTDR = i2c.MTDR /\ i2c'.error = i2c.error /\ i2c'.state = i2c.state
             /\ i2c'.MSR = i2c.MSR \cup flags /\ ~Doing1(i2c', "START")
  BY <1>1, <1>9 DEF Over, Drivers, Doing1
<1>10. \A op : Doing(op) => i2c.command # <<>> /\ Doing1(i2c, op)
  BY DEF Doing, Doing1
<1>11. ASSUME UNCHANGED frames
       PROVE  \A k : Refused(k) => Refused(k)'
  BY <1>11 DEF Refused
<1>12. CASE SendStart
  <2>1. PICK ack \in BOOLEAN :
          /\ frames' = Append(frames, [call |-> i2c.command[1].call, ack |-> ack,
                                       dir |-> i2c.command[1].dir, bytes |-> <<>>])
          /\ Over(IF ack THEN {} ELSE {"NDF"}, TRUE)
          /\ Answer(ack, "NAK")
    BY <1>12 DEF SendStart
  <2>2. Doing1(i2c, "START") /\ i2c.command # <<>>
    BY <1>10, <1>12 DEF SendStart
  <2> DEFINE f == [call |-> i2c.command[1].call, ack |-> ack,
                   dir |-> i2c.command[1].dir, bytes |-> <<>>]
             flags == IF ack THEN {} ELSE {"NDF"}
             fr == frames
  <2>3. f \in Frames /\ f.call = Number /\ f.ack = ack
    <3>1. <<>> \in Seq(OutBytes \cup InBytes)
      OBVIOUS
    <3> QED BY <1>1, <2>2, <3>1, CommandLemma DEF Frames, StartsAreTheirs, Doing1
  <2> HIDE DEF f
  <2>4. frames' = Append(fr, f)
    BY <2>1 DEF f
  <2>5. \A k : Refused(k) => Refused(k)'
    BY <1>1, <2>3, <2>4, RefusedStays
  <2>6. ~ack => Refused(Number)'
    <3>1. Len(fr) + 1 \in DOMAIN Append(fr, f) /\ Append(fr, f)[Len(fr) + 1] = f
      BY <1>1, <2>3
    <3> QED BY <1>2, <2>3, <2>4, <3>1 DEF Refused
  <2>7. Orderly' => Orderly
    BY <1>3, <2>1 DEF Answer
  <2>8. "NDF" \in flags => ~ack
    OBVIOUS
  <2>9. Over(flags, TRUE)
    BY <2>1
  <2> HIDE DEF flags, fr
  <2> QED BY <1>8, <1>9, <2>2, <2>5, <2>6, <2>7, <2>8, <2>9
<1>13. CASE SendByte
  <2> DEFINE kind == IF \E c \in ToSet(i2c.MTDR) : c.op = "START"
                     THEN "NAK too late" ELSE "NAK"
  <2>1. PICK ack \in BOOLEAN :
          /\ IF ack THEN Transferred(i2c.command[1].byte) ELSE UNCHANGED frames
          /\ Over(IF ack THEN {} ELSE {"NDF"}, TRUE)
          /\ Answer(ack, kind)
    BY <1>13 DEF SendByte
  <2>2. Doing1(i2c, "TRANSMIT") /\ i2c.command # <<>> /\ i2c.MBF /\ frames # <<>>
    BY <1>10, <1>13 DEF SendByte, InFrame
  <2>3. \A k : Refused(k) => Refused(k)'
    BY <1>1, <2>1, <2>2, RefusedStays
  <2>4. Orderly' => Orderly
    BY <1>3, <2>1 DEF Answer
  <2>5. i2c.state = "starting" => kind # "NAK"
    <3> SUFFICES ASSUME i2c.state = "starting"
                 PROVE  \E c \in ToSet(i2c.MTDR) : c.op = "START"
      OBVIOUS
    <3>1. Has(i2c, "START")
      BY <1>1, <2>2 DEF Own, Shape
    <3> QED BY <1>1, <3>1 DEF Has, ToSet, Drivers
  <2> HIDE DEF kind
  <2>6. ~ack /\ i2c.state = "starting" => ~Orderly'
    BY <1>4, <2>1, <2>5 DEF Answer
  <2> DEFINE flags == IF ack THEN {} ELSE {"NDF"}
  <2>7. Over(flags, TRUE) /\ ("NDF" \in flags => ~ack)
    BY <2>1
  <2> HIDE DEF flags
  <2> QED BY <1>8, <1>9, <2>2, <2>3, <2>4, <2>6, <2>7
<1>14. CASE ReceiveByte
  <2> DEFINE byte == <<Len(frames), Len(Last(frames).bytes) + 1>>
             n == i2c.command[1].n
             c == IF n = 1 THEN <<>> ELSE <<[i2c.command[1] EXCEPT !.n = n - 1]>>
             q == Append(i2c.MRDR, byte)
  <2>1. /\ i2c' = [i2c EXCEPT !.MRDR = q, !.command = c]
        /\ Transferred(byte) /\ frames # <<>> /\ UNCHANGED faults
    BY <1>14 DEF ReceiveByte, InFrame
  <2>2. Doing1(i2c, "RECEIVE")
    BY <1>10, <1>14 DEF ReceiveByte
  <2>3. c = <<>> \/ c[1].op = "RECEIVE"
    <3>1. i2c.command[1] \in Commands
      BY <1>1, <2>2, CommandLemma DEF Doing1
    <3>2. i2c.command[1] \in [op : {"RECEIVE"}, n : Nat \ {0}]
      BY <2>2, <3>1 DEF Commands, Doing1
    <3> QED BY <3>2
  <2> HIDE DEF byte, n, c, q
  <2>4. /\ i2c'.MTDR = i2c.MTDR /\ i2c'.error = i2c.error /\ i2c'.state = i2c.state
        /\ i2c'.MSR = i2c.MSR /\ i2c'.command = c
    BY <1>1, <2>1 DEF Drivers
  <2>5. ~Doing1(i2c', "START")
    BY <2>3, <2>4 DEF Doing1
  <2>6. \A k : Refused(k) => Refused(k)'
    BY <1>1, <2>1, RefusedStays
  <2>7. Orderly' => Orderly
    BY <1>3, <2>1
  <2> QED BY <1>8, <2>4, <2>5, <2>6, <2>7
<1>15. CASE FifoError
  <2>1. Over({"FEF"}, i2c.MBF) /\ i2c.command # <<>> /\ UNCHANGED <<frames, faults>>
    BY <1>10, <1>15 DEF FifoError
  <2>2. /\ i2c'.MTDR = i2c.MTDR /\ i2c'.error = i2c.error /\ i2c'.state = i2c.state
        /\ i2c'.MSR = i2c.MSR \cup {"FEF"} /\ ~Doing1(i2c', "START")
    BY <1>9, <2>1
  <2>3. (Orderly' => Orderly) /\ \A k : Refused(k) => Refused(k)'
    BY <1>3, <1>11, <2>1
  <2> QED BY <1>8, <2>2, <2>3
<1>16. CASE SendStop
  <2> DEFINE flags == IF i2c.MBF THEN {"SDF"} ELSE {}
  <2>1. Over(flags, FALSE) /\ i2c.command # <<>> /\ UNCHANGED <<frames, faults>>
    BY <1>10, <1>16 DEF SendStop
  <2>2. "NDF" \notin flags
    OBVIOUS
  <2> HIDE DEF flags
  <2> QED BY <1>3, <1>8, <1>9, <1>11, <2>1, <2>2
<1>17. CASE LoseArbitration
  <2>1. Over({"ALF"}, FALSE) /\ i2c.command # <<>> /\ UNCHANGED frames
        /\ Fault("arbitration")
    BY <1>10, <1>17 DEF LoseArbitration
  <2>2. /\ i2c'.MTDR = i2c.MTDR /\ i2c'.error = i2c.error /\ i2c'.state = i2c.state
        /\ i2c'.MSR = i2c.MSR \cup {"ALF"} /\ ~Doing1(i2c', "START")
    BY <1>9, <2>1
  <2>3. (Orderly' => Orderly) /\ \A k : Refused(k) => Refused(k)'
    BY <1>3, <1>11, <2>1
  <2> QED BY <1>8, <2>2, <2>3
<1>18. CASE HoldPinLow
  <2>1. i2c' = [i2c EXCEPT !.MSR = @ \cup {"PLTF"}] /\ UNCHANGED frames /\ Fault("pin")
    BY <1>18 DEF HoldPinLow
  <2>2. /\ i2c'.MTDR = i2c.MTDR /\ i2c'.error = i2c.error /\ i2c'.state = i2c.state
        /\ i2c'.MSR = i2c.MSR \cup {"PLTF"} /\ i2c'.command = i2c.command
    BY <1>1, <2>1 DEF Drivers
  <2>3. "NDF" \in i2c'.MSR => "NDF" \in i2c.MSR
    BY <2>2
  <2> QED BY <1>3, <1>8, <1>11, <2>1, <2>2, <2>3
<1> QED BY <1>6, <1>7, <1>12, <1>13, <1>14, <1>15, <1>16, <1>17, <1>18 DEF Transfer, Port

LEMMA NakStep ==
  ASSUME IInv, OwnInv, NakInv, [Next]_vars
  PROVE  NakInv'
<1>1. CASE UNCHANGED vars
  <2>1. /\ Undisturbed' = Undisturbed /\ Orderly' = Orderly
        /\ StartsAreTheirs' = StartsAreTheirs /\ NaksAreTheirs' = NaksAreTheirs
    BY <1>1 DEF vars, Undisturbed, OnTime, Orderly, StartsAreTheirs, NaksAreTheirs,
                Number, Refused, First, Doing1
  <2> QED BY <2>1 DEF NakInv
<1>2. CASE Next
  <2>1. CASE ~Undisturbed'
    BY <2>1 DEF NakInv, Orderly
  <2>2. CASE Undisturbed'
    <3>1. Undisturbed /\ (call # NoCall => call \in Asked /\ call.ready /\ ~call.timedOut)
      BY <1>2, <2>2, DisturbedStays
    <3>2. CASE ~Pending /\ Caller
      BY <2>2, <3>1, <3>2, NakCaller
    <3>3. CASE Transfer
      BY <3>1, <3>3, NakTransfer
    <3> QED BY <1>2, <3>2, <3>3 DEF Next
  <2> QED BY <2>1, <2>2
<1> QED BY <1>1, <1>2

\* A call that is told that nobody answered had its START refused (start() and
\* the interrupt), if callers wait and nothing worse than a NAK has happened.
THEOREM NaksAreTold == Spec => []NakIsTheirs
<1>1. NakInv => NakIsTheirs
  BY DEF NakInv, NaksAreTheirs, NakIsTheirs, Refused
<1>2. IInv /\ OwnInv /\ NakInv /\ [Next]_vars => NakInv'
  BY NakStep
<1> QED BY <1>1, <1>2, InitNak, Invariance, OwnInvariance, PTL DEF Spec

-----------------------------------------------------------------------------
(* requestFrom().                                                           *)

\* A call that could not start on a bus that is free: nothing will end it.
Abandoned(s) ==
  /\ s.state \in {"starting", "stopping"} /\ ~s.MBF /\ "SDF" \notin s.MSR
  /\ s.MTDR = <<>> /\ s.MRDR = <<>> /\ ~s.TDIE
  /\ ~Doing1(s, "START") /\ ~Doing1(s, "RECEIVE")
  /\ s.ignore_tdf \/ s.done # <<>> \/ Still(s)

\* The buffer that will be counted is the reader's, if there is a count at all.
Requests(c) == c.by = "wire" /\ c.op = "read" /\ c.n > 0

CountInv ==
  Undisturbed =>
    /\ call # NoCall => (call.phase = "register" => call.asked.by = "device")
    /\ call # NoCall => (Requests(call.asked) =>
         i2c.buffer = <<Number, "in">> \/ Abandoned(i2c))
    /\ \A k \in DOMAIN results :
         Requests(results[k].asked) /\ results[k].code # 4 =>
           results[k].count = Len(results[k].data)

LEMMA MinBounds ==
  ASSUME NEW a \in Nat \ {0}, NEW b \in Nat \ {0}
  PROVE  Min({a, b}) \in 1 .. b
<1> DEFINE m == IF a <= b THEN a ELSE b
<1>1. m \in {a, b} /\ \A y \in {a, b} : m <= y
  OBVIOUS
<1>2. Min({a, b}) \in {a, b} /\ \A y \in {a, b} : Min({a, b}) <= y
  BY <1>1 DEF Min
<1> QED BY <1>2

\* A read installs its buffer or is abandoned.
LEMMA ReadInstalls ==
  ASSUME NEW s \in Drivers, NEW was, Own(s, was), AllServed(s), finished(s),
         NEW k \in Nat, NEW n \in 1 .. MAX_MASTER_READ_LENGTH, NEW stop
  PROVE  LET t == read_async(s, k, n, stop)
         IN  t.buffer = <<k, "in">> \/ Abandoned(t)
<1> USE MasterAssumption
<1>1. n # 0 /\ ~(n > MAX_MASTER_READ_LENGTH)
  OBVIOUS
<1>2. CASE CanStart(s)
  <2> DEFINE b == start(s, "read", k)
             receive == IF n = 0 THEN <<>> ELSE <<[op |-> "RECEIVE", n |-> n]>>
             end == IF n = 0 \/ stop THEN <<STOP>> ELSE <<>>
             q == b.MTDR \o receive \o end
             asked == [b EXCEPT !.MTDR = q]
  <2>1. b \in Drivers
    BY <1>2, StartLemma DEF Directions
  <2> HIDE DEF b, q
  <2>2. DOMAIN asked = DOMAIN b /\ "buffer" \in DOMAIN b
    BY <2>1 DEF Drivers
  <2> HIDE DEF asked
  <2>3. initialise(asked, <<k, "in">>, n).buffer = <<k, "in">>
    BY <2>2 DEF initialise
  <2> QED BY <1>1, <1>2, <2>3 DEF read_async, asked, q, b
<1>3. CASE ~CanStart(s)
  <2>1. s.MRDR = <<>> /\ s.MTDR # <<>> /\ s.MSR = {}
    BY <1>3 DEF AllServed, CanStart
  <2>2. ~s.MBF /\ (s.command = <<>> \/ Doing1(s, "TRANSMIT"))
    BY <2>1 DEF Own, Quiet
  <2> DEFINE t == [s EXCEPT !.TDIE = FALSE, !.MRDR = <<>>, !.MTDR = <<>>,
                            !.ignore_tdf = TRUE,
                            !.error = "master_fifos_not_empty", !.state = "starting"]
  <2>3. start(s, "read", k) = t
    BY <1>3, <2>1, <2>2 DEF start, abort_transaction_async, Drivers
  <2>4. /\ t.state = "starting" /\ t.MBF = s.MBF /\ t.MTDR = <<>> /\ t.MRDR = <<>>
        /\ t.MSR = s.MSR /\ t.ignore_tdf = TRUE /\ t.command = s.command /\ t.TDIE = FALSE
    BY DEF Drivers
  <2> HIDE DEF t
  <2>5. Abandoned(t)
    BY <2>1, <2>2, <2>4 DEF Abandoned, Doing1
  <2> QED BY <1>1, <1>3, <2>3, <2>5 DEF read_async
<1> QED BY <1>2, <1>3

\* Neither the interrupt nor the port brings an abandoned call to its end.
LEMMA AbandonedStays ==
  ASSUME IInv, Transfer, Abandoned(i2c)
  PROVE  Abandoned(i2c')
<1> DEFINE s == i2c
           t == i2c'
<1>1. s \in Drivers
  BY DEF IInv, DriverInv
<1>9. ~Still(s) /\ (s.ignore_tdf \/ s.done # <<>>)
  <2>1. Still(s) => ~Pending /\ s.MTDR = <<>> /\ s.command = <<>>
    BY DEF Still, Pending
  <2>2. interrupt_service_routine => Pending
    BY DEF interrupt_service_routine
  <2>3. TakeCommand => s.MTDR # <<>>
    BY DEF TakeCommand
  <2>4. \A op : Doing(op) => s.command # <<>>
    BY DEF Doing
  <2>5. /\ SendStart => Doing("START")
        /\ SendByte => Doing("TRANSMIT")
        /\ ReceiveByte => Doing("RECEIVE")
        /\ FifoError => Doing("TRANSMIT") \/ Doing("RECEIVE")
        /\ SendStop => Doing("STOP")
        /\ LoseArbitration => Doing("START") \/ Doing("TRANSMIT")
        /\ HoldPinLow => s.command # <<>>
    BY Zenon DEF SendStart, SendByte, ReceiveByte, FifoError, SendStop, LoseArbitration,
                 HoldPinLow
  <2>6. ~Still(s)
    BY <2>1, <2>2, <2>3, <2>4, <2>5 DEF Transfer, Port
  <2> QED BY <2>6 DEF Abandoned
<1>2. CASE interrupt_service_routine
  <2> DEFINE msr == Status(s)
             e == ErrorOf(s, msr)
             told == [s EXCEPT !.error = e, !.MSR = @ \ Failures]
             stopping == [told EXCEPT !.state = "stopping", !.TDIE = FALSE,
                                      !.MRDR = <<>>, !.MTDR = <<>>]
             a == AfterFailure(s, msr)
  <2>1. "SDF" \notin msr /\ "RDF" \notin msr
    <3>1. "SDF" \notin s.MSR /\ "RDF" \notin s.MSR /\ s.MRDR = <<>>
      BY <1>1 DEF Abandoned, Drivers, Failures
    <3> QED BY <3>1 DEF Status
  <2> HIDE DEF msr, e
  <2>2. /\ told.MTDR = s.MTDR /\ told.MRDR = s.MRDR /\ told.MBF = s.MBF
        /\ told.command = s.command /\ told.ignore_tdf = s.ignore_tdf
        /\ told.state = s.state /\ told.MSR = s.MSR \ Failures /\ DOMAIN told = DOMAIN s
        /\ told.done = s.done /\ told.TDIE = s.TDIE
    BY <1>1 DEF Drivers
  <2>3. Abandoned(told)
    BY <1>9, <2>2 DEF Abandoned, Doing1
  <2> HIDE DEF told
  <2>4. /\ stopping.MTDR = <<>> /\ stopping.MRDR = <<>> /\ stopping.MBF = told.MBF
        /\ stopping.command = told.command /\ stopping.ignore_tdf = told.ignore_tdf
        /\ stopping.state = "stopping" /\ stopping.MSR = told.MSR
        /\ stopping.TDIE = FALSE /\ stopping.done = told.done
    BY <1>1, <2>2 DEF Drivers
  <2>5. Abandoned(stopping)
    BY <1>9, <2>2, <2>3, <2>4 DEF Abandoned, Doing1
  <2>6. a \in {s, told, stopping}
    <3>1. {"state", "MBF", "MSR", "TDIE", "MRDR", "MTDR"} \subseteq DOMAIN told
      BY <1>1, <2>2 DEF Drivers
    <3>2. abort_transaction_async([told EXCEPT !.state = "stopping"]) = stopping
      BY <2>3, <3>1 DEF abort_transaction_async, Abandoned
    <3> QED BY <3>2 DEF AfterFailure, told, e
  <2>7. Abandoned(a) /\ (a.ignore_tdf \/ a.done # <<>>)
    BY <1>9, <2>2, <2>3, <2>4, <2>5, <2>6
  <2> HIDE DEF a
  <2>8. AfterTransmit(AfterReceive(AfterStop(a, msr), msr), msr) = a
    BY <2>1, <2>7 DEF AfterStop, AfterReceive, AfterTransmit, FirstByte, Abandoned
  <2>9. t = a
    BY <1>2, <2>8 DEF interrupt_service_routine, msr, a
  <2> QED BY <2>7, <2>9
<1>3. ASSUME NEW flags, NEW busy, Over(flags, busy), "SDF" \notin flags, ~busy
      PROVE  Abandoned(t)
  <2>1. /\ t.MTDR = s.MTDR /\ t.MRDR = s.MRDR /\ t.MBF = busy /\ t.command = <<>>
        /\ t.ignore_tdf = s.ignore_tdf /\ t.state = s.state /\ t.MSR = s.MSR \cup flags
        /\ t.done = s.done /\ t.TDIE = s.TDIE
    BY <1>1, <1>3 DEF Over, Drivers
  <2> QED BY <1>3, <1>9, <2>1 DEF Abandoned, Doing1
<1>4. CASE TakeCommand \/ SendStart \/ SendByte \/ ReceiveByte
  <2>1. ~s.MBF /\ s.MTDR = <<>> /\ ~Doing1(s, "START")
    BY DEF Abandoned
  <2>2. TakeCommand => s.MTDR # <<>>
    BY DEF TakeCommand
  <2>3. SendStart => Doing1(s, "START")
    BY DEF SendStart, Doing, Doing1
  <2>4. SendByte \/ ReceiveByte => s.MBF
    <3>1. SendByte => InFrame("write")
      BY Zenon DEF SendByte
    <3>2. ReceiveByte => InFrame("read")
      BY Zenon DEF ReceiveByte
    <3> QED BY <3>1, <3>2 DEF InFrame
  <2> QED BY <1>4, <2>1, <2>2, <2>3, <2>4
<1>5. CASE FifoError
  <2>1. Over({"FEF"}, s.MBF) /\ ~s.MBF
    BY <1>5 DEF FifoError, Abandoned
  <2> QED BY <1>3, <2>1
<1>6. CASE SendStop
  <2>1. Over({}, FALSE)
    BY <1>6 DEF SendStop, Abandoned
  <2> QED BY <1>3, <2>1
<1>7. CASE LoseArbitration
  <2>1. Over({"ALF"}, FALSE)
    BY <1>7 DEF LoseArbitration
  <2> QED BY <1>3, <2>1
<1>8. CASE HoldPinLow
  <2>1. t = [s EXCEPT !.MSR = @ \cup {"PLTF"}]
    BY <1>8 DEF HoldPinLow
  <2>2. /\ t.MTDR = s.MTDR /\ t.MRDR = s.MRDR /\ t.MBF = s.MBF /\ t.command = s.command
        /\ t.ignore_tdf = s.ignore_tdf /\ t.state = s.state /\ t.MSR = s.MSR \cup {"PLTF"}
        /\ t.done = s.done /\ t.TDIE = s.TDIE
    BY <1>1, <2>1 DEF Drivers
  <2> QED BY <1>9, <2>2 DEF Abandoned, Doing1
<1> QED BY <1>2, <1>4, <1>5, <1>6, <1>7, <1>8 DEF Transfer, Port

LEMMA CountCaller ==
  ASSUME IInv, OwnInv, CountInv, ~Pending, Caller, Undisturbed, Undisturbed',
         call # NoCall => call \in Asked /\ call.ready /\ ~call.timedOut
  PROVE  CountInv'
<1> USE CallsAssumption, MasterAssumption
<1>1. i2c \in Drivers /\ Own(i2c, Live) /\ AllServed(i2c) /\ results \in Seq(Results)
  BY DEF IInv, DriverInv, OwnInv, Pending, AllServed, CallerInv
<1>2. Number \in Nat
  BY <1>1 DEF Number
<1>3. CASE Begin
  <2>1. PICK c \in Calls :
          /\ IF c.by = "device" THEN BeginDevice(c) ELSE BeginWire(c)
          /\ call' = [phase |-> IF c.by = "device" /\ c.op = "read"
                                THEN "register" ELSE "transfer",
                      asked |-> c, ready |-> finished(i2c), timedOut |-> FALSE]
    BY <1>3 DEF Begin
  <2>2. call' # NoCall /\ call'.ready = finished(i2c) /\ call'.asked = c
        /\ (call'.phase = "register" => c.by = "device") /\ UNCHANGED results
    BY <1>3, <2>1 DEF NoCall, Begin
  <2>3. finished(i2c)
    BY <2>2 DEF Undisturbed
  <2>4. Requests(c) => i2c'.buffer = <<Number, "in">> \/ Abandoned(i2c')
    <3> SUFFICES ASSUME Requests(c)
                 PROVE  i2c'.buffer = <<Number, "in">> \/ Abandoned(i2c')
      OBVIOUS
    <3>1. c.n \in Nat \ {0} /\ i2c' = read_async(i2c, Number, Min({c.n, rx_buffer_length}), c.stop)
      BY <2>1 DEF BeginWire, Requests
    <3>2. Min({c.n, rx_buffer_length}) \in 1 .. MAX_MASTER_READ_LENGTH
      BY <3>1, MinBounds
    <3> QED BY <1>1, <1>2, <2>3, <3>1, <3>2, ReadInstalls
  <2>5. Number' = Number
    BY <2>2 DEF Number
  <2> QED BY <2>2, <2>4, <2>5 DEF CountInv
<1>4. CASE TimeOut
  <2>1. call \in Asked /\ call' = [call EXCEPT !.timedOut = TRUE]
    BY <1>4 DEF TimeOut
  <2>2. call' # NoCall /\ call'.timedOut
    BY <2>1 DEF Asked, NoCall
  <2> QED BY <2>2 DEF Undisturbed, OnTime
<1>5. CASE ReadRegister
  <2>1. call \in Asked /\ call' = [call EXCEPT !.phase = "transfer"] /\ UNCHANGED results
        /\ call.phase = "register" /\ call # NoCall
    BY <1>5 DEF ReadRegister, Waited
  <2>2. call'.phase = "transfer" /\ call'.asked = call.asked /\ ~Requests(call.asked)
    BY <2>1 DEF Asked, CountInv, Requests
  <2> QED BY <2>1, <2>2 DEF CountInv
<1>6. CASE Return
  <2> DEFINE r == [asked |-> call.asked, ready |-> call.ready,
                   timedOut |-> call.timedOut, data |-> Stored,
                   code |-> toWireResult(i2c.error), count |-> Len(i2c.done)]
             q == results
  <2>1. /\ results' = Append(q, r) /\ call # NoCall /\ call' = NoCall /\ finished(i2c)
    BY <1>6 DEF Return, Waited
  <2>2. Requests(r.asked) => r.count = Len(r.data)
    <3> SUFFICES ASSUME Requests(call.asked)
                 PROVE  Stored = i2c.done
      OBVIOUS
    <3>1. i2c.buffer = <<Number, "in">>
      BY <2>1 DEF CountInv, Abandoned, finished, BusyStates
    <3> QED BY <3>1 DEF Stored
  <2> HIDE DEF r
  <2>3. \A k \in DOMAIN Append(q, r) :
          \/ k \in DOMAIN q /\ Append(q, r)[k] = q[k]
          \/ Append(q, r)[k] = r
    BY <1>1
  <2> QED BY <2>1, <2>2, <2>3 DEF CountInv
<1>7. CASE Restart
  BY <1>7 DEF Restart, CountInv
<1> QED BY <1>3, <1>4, <1>5, <1>6, <1>7 DEF Caller

LEMMA CountStep ==
  ASSUME IInv, OwnInv, CountInv, [Next]_vars
  PROVE  CountInv'
<1>1. CASE UNCHANGED vars
  BY <1>1 DEF vars, CountInv, Undisturbed, OnTime, Number
<1>2. CASE Next
  <2> SUFFICES ASSUME Undisturbed'
               PROVE  CountInv'
    BY DEF CountInv
  <2>1. Undisturbed /\ ~late
        /\ (call # NoCall => call \in Asked /\ call.ready /\ ~call.timedOut)
    BY <1>2, DisturbedStays
  <2>2. CASE ~Pending /\ Caller
    BY <2>1, <2>2, CountCaller
  <2>3. CASE Transfer
    <3>1. i2c'.buffer = i2c.buffer /\ (Abandoned(i2c) => Abandoned(i2c'))
          /\ UNCHANGED <<call, results>>
      BY <2>1, <2>3, OwnTransfer, AbandonedStays DEF Transfer
    <3> QED BY <2>1, <3>1 DEF CountInv, Number
  <2> QED BY <1>2, <2>2, <2>3 DEF Next
<1> QED BY <1>1, <1>2

\* requestFrom() counts the bytes it has read, and no others (read_async() and
\* get_bytes_transferred()), if callers wait and interrupts are not late.
THEOREM CountsAreTrue == Spec => []CountTrue
<1>1. CountInv => CountTrue
  BY DEF CountInv, CountTrue, Requests
<1>2. Init => CountInv
  BY DEF Init, MasterInit, CountInv
<1>3. IInv /\ OwnInv /\ CountInv /\ [Next]_vars => CountInv'
  BY CountStep
<1> QED BY <1>1, <1>2, <1>3, Invariance, OwnInvariance, PTL DEF Spec

-----------------------------------------------------------------------------
(* Reads.                                                                   *)

\* No command has failed since the last interrupt.
Clean(s) == s.MSR \cap Final = {}

\* The START of the transfer is not sent yet.
Beginning(s) == Has(s, "START") \/ Doing1(s, "START")

\* The bytes the slave is still to send.
Left(s) == IF Has(s, "RECEIVE") THEN s.size
           ELSE IF Doing1(s, "RECEIVE") THEN s.command[1].n ELSE 0

InRead(fr, k) == /\ fr # <<>> /\ fr[Len(fr)].ack
                 /\ fr[Len(fr)].dir = "read" /\ fr[Len(fr)].call = k

\* The read's own frame has begun, and the read has not failed or goes on.
Flowing(s) == /\ Clean(s) /\ ~Beginning(s)
              /\ Reads(s) \/ (s.done # <<>> /\ s.error = "ok")

\* A read of call k, from read_async() on: its commands are queued in order, and
\* unless it has failed every byte of its frame is in the buffer, waits in the
\* FIFO or is still to come.
ReadOf(s, fr, k) ==
  /\ s.ignore_tdf /\ s.size > 0
  /\ Beginning(s) \/ Has(s, "RECEIVE") => s.done = <<>> /\ s.MRDR = <<>>
  /\ Has(s, "RECEIVE") => s.state = "starting"
  /\ \A j \in 1 .. Len(s.MTDR) :
       /\ s.MTDR[j].op = "RECEIVE" => s.MTDR[j].n = s.size
       /\ s.MTDR[j].op = "START" => s.MTDR[j].dir = "read" /\ s.MTDR[j].call = k
  /\ Doing1(s, "START") => s.command[1].dir = "read" /\ s.command[1].call = k
  /\ Clean(s) /\ s.error = "ok" /\ s.done = <<>> => Reads(s)
  /\ s.error = "ok" /\ s.done # <<>> /\ Len(s.done) < s.size => s.state = "transferring"
  /\ Flowing(s) =>
       /\ InRead(fr, k)
       /\ s.done = <<>> \/ s.error = "ok" =>
            /\ fr[Len(fr)].bytes = s.done \o s.MRDR
            /\ Len(s.done) + Len(s.MRDR) + Left(s) = s.size

\* A byte that call k wrote was acknowledged.
Written(fr, k) == \E f \in DOMAIN fr :
  fr[f].call = k /\ fr[f].dir = "write" /\ fr[f].ack /\ Len(fr[f].bytes) >= 1

\* A command on the bus that is still the master's sends a byte of call k.
SendsOwn(s, k) ==
  Doing1(s, "TRANSMIT") /\ s.MBF => s.command[1].byte[1] = <<k, "out">>

\* The write of a register number by call k: unless it has failed, the number
\* is written, or on its way once it has left the buffer.
NumberOf(s, fr, k) ==
  /\ ~s.ignore_tdf /\ s.size > 0 /\ s.buffer = <<k, "out">>
  /\ s.done = <<>> => ~finished(s)
  /\ (s.done = <<>> => s.MTDR = <<>>) => SendsOwn(s, k)
  /\ \A j \in 1 .. Len(s.MTDR) : s.MTDR[j].op = "TRANSMIT" => s.MTDR[j].byte[1] = <<k, "out">>
  /\ Clean(s) /\ s.error = "ok" /\ s.done # <<>> =>
       Written(fr, k) \/ Has(s, "TRANSMIT") \/ Doing1(s, "TRANSMIT")

\* During the read that follows the number is written, or on its way, or the
\* read has failed before it had a byte.
Selected(s, fr, k) ==
  \/ Written(fr, k)
  \/ /\ s.done = <<>> /\ s.MRDR = <<>> /\ ~Doing1(s, "START") /\ ~Doing1(s, "RECEIVE")
     /\ \/ Doing1(s, "TRANSMIT") /\ SendsOwn(s, k)
        \/ ~Clean(s)
        \/ s.error # "ok" /\ ~Has(s, "START") /\ ~Has(s, "RECEIVE")

\* The read was too long: it was refused, with the write as it was.
Refusal(s) == s.error # "ok" /\ ~s.ignore_tdf /\ (s.done # <<>> \/ Still(s))

-----------------------------------------------------------------------------
\* A byte is added to the last frame.
LEMMA LastGrown ==
  ASSUME NEW fr \in Seq(Frames), fr # <<>>, NEW byte \in OutBytes \cup InBytes
  PROVE  LET g == [fr EXCEPT ![Len(fr)].bytes = Append(@, byte)]
         IN  /\ g \in Seq(Frames) /\ Len(g) = Len(fr) /\ g # <<>>
             /\ \A i \in 1 .. Len(fr) : i # Len(fr) => g[i] = fr[i]
             /\ LET f == fr[Len(fr)]  h == g[Len(fr)]
                IN  /\ h.call = f.call /\ h.ack = f.ack /\ h.dir = f.dir
                    /\ h.bytes = Append(f.bytes, byte)
<1> DEFINE n == Len(fr)
           f == fr[n]
           more == Append(f.bytes, byte)
           h == [f EXCEPT !.bytes = more]
           g == [fr EXCEPT ![n] = h]
<1>1. n \in 1 .. n /\ n \in Nat /\ DOMAIN fr = 1 .. n
  OBVIOUS
<1>2. f \in Frames
  BY <1>1
<1>3. f.bytes \in Seq(OutBytes \cup InBytes)
  BY <1>2 DEF Frames
<1>4. more \in Seq(OutBytes \cup InBytes)
  BY <1>3, AppendLemma
<1> HIDE DEF more, f
<1>5. h \in Frames /\ h.call = f.call /\ h.ack = f.ack /\ h.dir = f.dir /\ h.bytes = more
  BY <1>2, <1>4 DEF Frames
<1> HIDE DEF h
<1>6. g \in Seq(Frames) /\ Len(g) = n /\ g[n] = h /\ (\A i \in 1 .. n : i # n => g[i] = fr[i])
  <2>1. n \in Nat /\ n \in 1 .. n /\ fr \in [1 .. n -> Frames]
    BY <1>1
  <2> HIDE DEF n
  <2>2. g \in [1 .. n -> Frames]
    BY <1>5, <2>1
  <2>3. g \in Seq(Frames) /\ Len(g) = n
    BY <2>1, <2>2, FunctionIsSeq
  <2>4. g[n] = h /\ (\A i \in 1 .. n : i # n => g[i] = fr[i])
    BY <2>1
  <2> QED BY <2>3, <2>4
<1>7. g # <<>>
  <2> HIDE DEF g, n
  <2>1. n # 0
    BY <1>1
  <2> QED BY <1>6, <2>1, StopLemma
<1>8. g = [fr EXCEPT ![Len(fr)].bytes = Append(@, byte)]
  BY DEF g, h, more, f, n
<1> HIDE DEF g, n
<1> QED BY <1>5, <1>6, <1>7, <1>8 DEF more, f, n

\* A byte that was acknowledged stays so.
LEMMA WrittenStays ==
  ASSUME NEW fr \in Seq(Frames), NEW k, Written(fr, k)
  PROVE  /\ \A f \in Frames : Written(Append(fr, f), k)
         /\ \A byte \in OutBytes \cup InBytes :
              fr # <<>> => Written([fr EXCEPT ![Len(fr)].bytes = Append(@, byte)], k)
<1>1. PICK i \in 1 .. Len(fr) :
        fr[i].call = k /\ fr[i].dir = "write" /\ fr[i].ack /\ Len(fr[i].bytes) >= 1
  BY DEF Written
<1>2. ASSUME NEW f \in Frames
      PROVE  Written(Append(fr, f), k)
  <2>1. Append(fr, f) \in Seq(Frames) /\ i \in 1 .. Len(Append(fr, f)) /\ Append(fr, f)[i] = fr[i]
    BY <1>1
  <2> QED BY <1>1, <2>1 DEF Written
<1>3. ASSUME NEW byte \in OutBytes \cup InBytes, fr # <<>>
      PROVE  Written([fr EXCEPT ![Len(fr)].bytes = Append(@, byte)], k)
  <2> DEFINE g == [fr EXCEPT ![Len(fr)].bytes = Append(@, byte)]
  <2>1. /\ g \in Seq(Frames) /\ Len(g) = Len(fr)
        /\ \A j \in 1 .. Len(fr) : j # Len(fr) => g[j] = fr[j]
        /\ g[Len(fr)].call = fr[Len(fr)].call /\ g[Len(fr)].ack = fr[Len(fr)].ack
        /\ g[Len(fr)].dir = fr[Len(fr)].dir
        /\ g[Len(fr)].bytes = Append(fr[Len(fr)].bytes, byte)
    BY <1>3, LastGrown
  <2> HIDE DEF g
  <2>2. i \in DOMAIN g /\ g[i].call = k /\ g[i].dir = "write" /\ g[i].ack
    BY <1>1, <2>1
  <2>3. Len(g[i].bytes) >= 1
    <3>1. fr[Len(fr)].bytes \in Seq(OutBytes \cup InBytes)
      <4>1. fr[Len(fr)] \in Frames
        BY <1>3
      <4> QED BY <4>1 DEF Frames
    <3>2. Len(g[Len(fr)].bytes) = Len(fr[Len(fr)].bytes) + 1 /\ Len(fr[Len(fr)].bytes) \in Nat
      BY <1>3, <2>1, <3>1, AppendLemma
    <3> QED BY <1>1, <2>1, <3>2
  <2>4. Written(g, k)
    BY <2>2, <2>3 DEF Written
  <2> QED BY <2>4 DEF g
<1> QED BY <1>2, <1>3

-----------------------------------------------------------------------------
\* The interrupt leaves the transfer on the bus alone.
Untouched(s, t) ==
  /\ t.command = s.command /\ t.MBF = s.MBF /\ t.size = s.size
  /\ t.buffer = s.buffer /\ t.ignore_tdf = s.ignore_tdf

\* A failure was told, and the transfer given up.
Failed(s, t) ==
  /\ s.MSR \cap Failures # {} /\ t.MSR = {} /\ s.MRDR = <<>> /\ t.MRDR = <<>>
  /\ t.error # "ok" /\ t.done = s.done /\ t.state = "stopping"
  /\ \/ t.MTDR = s.MTDR /\ s.state = "stopping"
     \/ t.MTDR = IF s.MBF THEN <<STOP>> ELSE <<>>

\* The STOP was told.
Ceased(s, t) ==
  /\ s.MSR = {"SDF"} /\ t.MSR = {} /\ s.MRDR = <<>> /\ t.MRDR = <<>>
  /\ t.error = s.error /\ t.done = s.done /\ t.state = "stopped" /\ t.MTDR = s.MTDR

LEMMA FailureServed ==
  ASSUME NEW s \in Drivers, NEW live, Own(s, live), NEW msr,
         msr \cap Failures = s.MSR \cap Failures, s.MSR \cap Failures # {}
  PROVE  Untouched(s, AfterFailure(s, msr)) /\ Failed(s, AfterFailure(s, msr))
<1> DEFINE e == ErrorOf(s, msr)
           m == s.MSR \ Failures
           told == [s EXCEPT !.error = e, !.MSR = m]
           aborting == [told EXCEPT !.state = "stopping"]
           t == abort_transaction_async(aborting)
<1>1. "SDF" \notin s.MSR /\ m = {} /\ s.MRDR = <<>>
  <2>1. "SDF" \notin Failures
    BY DEF Failures
  <2>2. "SDF" \notin s.MSR
    BY <2>1 DEF Own, Prompt
  <2>3. s.MSR \subseteq Failures \cup {"SDF"}
    BY DEF Drivers
  <2>4. s.MRDR = <<>>
    BY DEF Own, Prompt
  <2> QED BY <2>2, <2>3, <2>4
<1>2. e # "ok" /\ e \in Errors
  BY DEF ErrorOf, Errors, Drivers, has_error
<1>3. told = [s EXCEPT !.error = ErrorOf(s, msr), !.MSR = @ \ Failures]
  BY DEF Drivers
<1> HIDE DEF e, m
<1>4. /\ told \in Drivers /\ told.MTDR = s.MTDR /\ told.MRDR = s.MRDR
      /\ told.MBF = s.MBF /\ told.command = s.command
      /\ told.ignore_tdf = s.ignore_tdf /\ told.buffer = s.buffer
      /\ told.done = s.done /\ told.size = s.size /\ told.state = s.state
      /\ told.MSR = m /\ told.error = e
  BY <1>1, <1>2 DEF Drivers
<1> HIDE DEF told
<1>5. CASE s.state = "stopping"
  <2>1. AfterFailure(s, msr) = told
    BY <1>3, <1>5 DEF AfterFailure
  <2> QED BY <1>1, <1>2, <1>4, <1>5, <2>1 DEF Untouched, Failed
<1>6. CASE s.state # "stopping"
  <2>1. AfterFailure(s, msr) = t
    BY <1>3, <1>6 DEF AfterFailure
  <2>2. "stopping" \in States
    BY DEF States, BusyStates
  <2>3. /\ aborting \in Drivers /\ aborting.state = "stopping" /\ aborting.error = e
        /\ aborting.MBF = s.MBF /\ aborting.command = s.command
        /\ aborting.ignore_tdf = s.ignore_tdf /\ aborting.buffer = s.buffer
        /\ aborting.done = s.done /\ aborting.size = s.size /\ aborting.MSR = {}
    BY <1>1, <1>4, <2>2 DEF Drivers
  <2> HIDE DEF aborting
  <2>4. /\ t.MTDR = IF aborting.MBF /\ "SDF" \notin aborting.MSR THEN <<STOP>> ELSE <<>>
        /\ t.MRDR = <<>>
        /\ t.state = aborting.state /\ t.ignore_tdf = aborting.ignore_tdf
        /\ t.buffer = aborting.buffer /\ t.size = aborting.size /\ t.done = aborting.done
        /\ t.MSR = aborting.MSR /\ t.MBF = aborting.MBF /\ t.command = aborting.command
    BY <2>3, AbortLemma
  <2>5. t.error = e
    BY <2>3 DEF abort_transaction_async, Drivers
  <2> HIDE DEF t
  <2> QED BY <1>1, <1>2, <2>1, <2>3, <2>4, <2>5 DEF Untouched, Failed
<1> QED BY <1>5, <1>6

LEMMA StopServed ==
  ASSUME NEW s \in Drivers, NEW live, Own(s, live), NEW msr,
         "SDF" \in s.MSR, "SDF" \in msr
  PROVE  Untouched(s, AfterStop(s, msr)) /\ Ceased(s, AfterStop(s, msr))
<1> DEFINE t == [s EXCEPT !.TDIE = FALSE, !.state = "stopped", !.MSR = @ \ {"SDF"}]
<1>1. AfterStop(s, msr) = t
  BY DEF AfterStop
<1>2. s.MSR = {"SDF"} /\ s.MRDR = <<>>
  BY DEF Own, Prompt
<1>3. /\ t.command = s.command /\ t.MBF = s.MBF /\ t.size = s.size
      /\ t.buffer = s.buffer /\ t.ignore_tdf = s.ignore_tdf /\ t.MSR = s.MSR \ {"SDF"}
      /\ t.MRDR = s.MRDR /\ t.MTDR = s.MTDR /\ t.done = s.done /\ t.error = s.error
      /\ t.state = "stopped"
  BY DEF Drivers
<1> HIDE DEF t
<1> QED BY <1>1, <1>2, <1>3 DEF Untouched, Ceased

\* The byte that waits is stored, unless the read has failed after its first.
Took(s, t) ==
  /\ s.MRDR # <<>> /\ s.MSR = {} /\ t.MSR = {} /\ t.MTDR = s.MTDR
  /\ t.error = IF s.done = <<>> THEN "ok" ELSE s.error
  /\ \/ /\ s.done # <<>> /\ s.state # "transferring"
        /\ t.MRDR = <<>> /\ t.done = s.done /\ t.state = s.state
     \/ /\ t.MRDR = Tail(s.MRDR) /\ t.done = Append(s.done, Head(s.MRDR))
        /\ t.state = IF Len(t.done) = s.size
                     THEN IF Len(t.MTDR) = 1 THEN "stopping" ELSE "transfer_complete"
                     ELSE "transferring"

LEMMA ReceiveServed ==
  ASSUME NEW s \in Drivers, NEW live, Own(s, live), NEW msr, "RDF" \in msr, s.MRDR # <<>>
  PROVE  Untouched(s, AfterReceive(s, msr)) /\ Took(s, AfterReceive(s, msr))
<1> DEFINE b == FirstByte(s)
           dropped == [b EXCEPT !.MRDR = <<>>]
           taken == TakeByte(b)
           r == IF b.state = "transferring" THEN taken ELSE dropped
           t == EndOfRead(r)
<1>1. /\ b \in Drivers /\ b.MTDR = s.MTDR /\ b.done = s.done /\ b.size = s.size
      /\ b.MRDR = s.MRDR /\ b.ignore_tdf = s.ignore_tdf /\ b.buffer = s.buffer
      /\ b.MSR = s.MSR /\ b.MBF = s.MBF /\ b.command = s.command
  BY FirstLemma
<1>2. /\ b.state = IF s.done = <<>> THEN "transferring" ELSE s.state
      /\ b.error = IF s.done = <<>> THEN "ok" ELSE s.error
  BY DEF FirstByte, Drivers
<1> HIDE DEF b
<1>3. s.MSR = {} /\ s.ignore_tdf /\ Len(s.done) # s.size
  <2> DEFINE d == Len(s.done)  m == Len(s.MRDR)
  <2>1. s.MSR = {} /\ s.ignore_tdf /\ m + d <= s.size /\ m \in Nat /\ m > 0 /\ d \in Nat
        /\ s.size \in Nat
    BY DEF Own, Prompt, Drivers
  <2> HIDE DEF d, m
  <2>2. d # s.size
    BY <2>1
  <2> QED BY <2>1, <2>2 DEF d
<1>4. AfterReceive(s, msr) = t
  BY <1>3 DEF AfterReceive, t, r, taken, dropped, b
<1>5. CASE b.state # "transferring"
  <2>1. /\ dropped.MRDR = <<>> /\ dropped.MTDR = s.MTDR /\ dropped.done = s.done
        /\ dropped.size = s.size /\ dropped.ignore_tdf = s.ignore_tdf
        /\ dropped.buffer = s.buffer /\ dropped.MSR = s.MSR /\ dropped.MBF = s.MBF
        /\ dropped.command = s.command /\ dropped.state = b.state /\ dropped.error = b.error
    BY <1>1 DEF Drivers
  <2>2. r = dropped
    BY <1>5
  <2> HIDE DEF dropped, r
  <2>3. t = dropped
    BY <1>3, <2>1, <2>2 DEF EndOfRead
  <2> HIDE DEF t
  <2> QED BY <1>2, <1>3, <1>4, <1>5, <2>1, <2>3 DEF Untouched, Took
<1>6. CASE b.state = "transferring"
  <2> DEFINE byte == Head(s.MRDR)
             rest == Tail(s.MRDR)
             read == Append(s.done, byte)
  <2>1. taken = [b EXCEPT !.MRDR = rest, !.done = read]
    BY <1>1, <1>3 DEF TakeByte
  <2> HIDE DEF taken, byte, rest, read
  <2>2. /\ taken.MRDR = rest /\ taken.MTDR = s.MTDR /\ taken.done = read
        /\ taken.size = s.size /\ taken.ignore_tdf = s.ignore_tdf
        /\ taken.buffer = s.buffer /\ taken.MSR = s.MSR /\ taken.MBF = s.MBF
        /\ taken.command = s.command /\ taken.state = "transferring" /\ taken.error = b.error
        /\ DOMAIN taken = DOMAIN b /\ "state" \in DOMAIN b
    BY <1>1, <1>6, <2>1 DEF Drivers
  <2>3. r = taken
    BY <1>6
  <2> HIDE DEF r
  <2>4. /\ t.MRDR = rest /\ t.MTDR = s.MTDR /\ t.done = read
        /\ t.size = s.size /\ t.ignore_tdf = s.ignore_tdf
        /\ t.buffer = s.buffer /\ t.MSR = s.MSR /\ t.MBF = s.MBF
        /\ t.command = s.command /\ t.error = b.error
        /\ t.state = IF Len(t.done) = s.size
                     THEN IF Len(t.MTDR) = 1 THEN "stopping" ELSE "transfer_complete"
                     ELSE "transferring"
    <3>1. CASE Len(taken.done) = taken.size
      BY <2>2, <2>3, <3>1 DEF EndOfRead
    <3>2. CASE Len(taken.done) # taken.size
      BY <2>2, <2>3, <3>2 DEF EndOfRead
    <3> QED BY <3>1, <3>2
  <2> HIDE DEF t
  <2> QED BY <1>2, <1>3, <1>4, <2>4 DEF Untouched, Took, rest, read, byte
<1> QED BY <1>5, <1>6

\* What the interrupt makes of the driver.
Interrupted(s) ==
  LET msr == Status(s)
  IN  AfterTransmit(AfterReceive(AfterStop(AfterFailure(s, msr), msr), msr), msr)

\* Nothing was told.
Unmoved(s, t) == t = s /\ s.MSR = {} /\ s.MRDR = <<>>

Told(s, t) == Failed(s, t) \/ Ceased(s, t) \/ Unmoved(s, t)

\* The first two parts of the interrupt, when no byte waits.
LEMMA ToldLemma ==
  ASSUME NEW s \in Drivers, NEW live, Own(s, live), s.MRDR = <<>>
  PROVE  LET msr == Status(s)
             t == AfterStop(AfterFailure(s, msr), msr)
         IN  /\ Untouched(s, t) /\ Told(s, t) /\ t \in Drivers /\ AfterReceive(t, msr) = t
             /\ Wants(s) /\ Unbegun(s) => t.MTDR = s.MTDR \/ s.MTDR # <<>>
<1> DEFINE msr == Status(s)
           a == AfterFailure(s, msr)
           t == AfterStop(a, msr)
<1>1. /\ "SDF" \in msr <=> "SDF" \in s.MSR
      /\ "RDF" \notin msr
      /\ msr \cap Failures = s.MSR \cap Failures
      /\ "SDF" \notin Failures /\ s.MSR \subseteq Failures \cup {"SDF"}
  BY DEF Status, Drivers, Failures
<1> HIDE DEF msr
<1>2. /\ Own(a, live) /\ Kept(s, a) /\ a.MSR = s.MSR \ Failures
      /\ Wants(s) /\ Unbegun(s) => a.MTDR = s.MTDR \/ s.MTDR # <<>>
      /\ s.MSR \cap Failures = {} => a = s
  BY <1>1, OwnFailure
<1>3. AfterReceive(t, msr) = t
  BY <1>1 DEF AfterReceive
<1>4. CASE s.MSR \cap Failures # {}
  <2>1. Untouched(s, a) /\ Failed(s, a)
    BY <1>1, <1>4, FailureServed
  <2>2. "SDF" \notin msr
    BY <1>1, <1>4 DEF Own, Prompt
  <2>3. t = a
    BY <2>2 DEF AfterStop
  <2> QED BY <1>2, <1>3, <2>1, <2>3 DEF Told, Kept, msr
<1>5. CASE "SDF" \in s.MSR
  <2>1. a = s
    <3>1. s.MSR = {"SDF"}
      BY <1>5 DEF Own, Prompt
    <3> QED BY <1>1, <1>2, <3>1
  <2>2. Untouched(s, t) /\ Ceased(s, t) /\ t \in Drivers
    <3>1. Kept(s, t)
      BY <1>1, <2>1, OwnStop
    <3> QED BY <1>1, <1>5, <2>1, <3>1, StopServed DEF Kept
  <2> QED BY <1>3, <2>2 DEF Told, Ceased, msr
<1>6. CASE s.MSR \cap Failures = {} /\ "SDF" \notin s.MSR
  <2>1. a = s /\ s.MSR = {}
    BY <1>1, <1>2, <1>6
  <2>2. t = s
    BY <1>1, <1>6, <2>1 DEF AfterStop
  <2> QED BY <1>3, <2>1, <2>2 DEF Told, Unmoved, Untouched, msr
<1> QED BY <1>4, <1>5, <1>6

\* The interrupt during a read.
LEMMA ServedRead ==
  ASSUME NEW s \in Drivers, NEW live, Own(s, live), s.ignore_tdf
  PROVE  /\ Untouched(s, Interrupted(s))
         /\ Told(s, Interrupted(s)) \/ Took(s, Interrupted(s))
<1> DEFINE msr == Status(s)
           a == AfterFailure(s, msr)
           b == AfterStop(a, msr)
           c == AfterReceive(b, msr)
<1>1. CASE s.MRDR = <<>>
  <2>1. Untouched(s, b) /\ Told(s, b) /\ c = b
    BY <1>1, ToldLemma
  <2> HIDE DEF c, msr
  <2>2. c.ignore_tdf
    BY <2>1 DEF Untouched
  <2>3. AfterTransmit(c, msr) = c
    BY <2>2 DEF AfterTransmit
  <2> QED BY <2>1, <2>3 DEF Interrupted, c, msr
<1>2. CASE s.MRDR # <<>>
  <2>1. s.MSR = {}
    BY <1>2 DEF Own, Prompt
  <2>2. /\ "RDF" \in msr /\ "SDF" \notin msr /\ msr \cap Failures = {}
    BY <1>2, <2>1 DEF Status, Failures
  <2> HIDE DEF msr
  <2>3. a = s /\ b = s
    BY <2>2 DEF AfterFailure, AfterStop
  <2>4. Untouched(s, c) /\ Took(s, c)
    BY <1>2, <2>2, <2>3, ReceiveServed
  <2> HIDE DEF c
  <2>5. c.ignore_tdf
    BY <2>4 DEF Untouched
  <2>6. AfterTransmit(c, msr) = c
    BY <2>5 DEF AfterTransmit
  <2> QED BY <2>4, <2>6 DEF Interrupted, c, b, a, msr
<1> QED BY <1>1, <1>2

\* The next bytes of the buffer are queued, after whatever happened if they are
\* the first.
Queues(s, t) ==
  /\ s.MTDR = <<>> /\ t.MTDR # <<>> /\ t.MTDR \in Seq(Commands) /\ t.MRDR = <<>> /\ t.MSR = {}
  /\ \A j \in 1 .. Len(t.MTDR) : t.MTDR[j].op = "TRANSMIT" /\ t.MTDR[j].byte[1] = s.buffer
  /\ t.done # <<>> /\ t.state = "transferring"
  /\ s.done # <<>> => t.error = s.error /\ s.MSR = {} /\ s.state = "transferring"

\* All of them have been sent.
Completes(s, t) ==
  /\ s.MSR = {} /\ t.MSR = {} /\ s.MTDR = <<>> /\ t.MRDR = <<>>
  /\ s.done # <<>> /\ t.done # <<>> /\ t.error = s.error /\ s.state = "transferring"
  /\ Len(s.done) = s.size
  /\ t.state = IF t.stop_on_completion THEN "stopping" ELSE "transfer_complete"
  /\ t.MTDR = <<>> \/ t.MTDR = <<STOP>>

\* The interrupt during a write.
LEMMA ServedWrite ==
  ASSUME NEW s \in Drivers, Bounded(s), NEW live, Own(s, live), ~s.ignore_tdf, Wants(s)
  PROVE  LET t == Interrupted(s)
         IN  /\ Untouched(s, t)
             /\ \/ Told(s, t) /\ (s.done = <<>> => s.MTDR # <<>>)
                \/ Queues(s, t) \/ Completes(s, t)
<1> USE MasterAssumption
<1> DEFINE msr == Status(s)
           a == AfterStop(AfterFailure(s, msr), msr)
           b == FirstByte(a)
           f == FillFifo(b)
<1>1. s.MRDR = <<>>
  BY DEF Own, Prompt
<1>2. /\ Untouched(s, a) /\ Told(s, a) /\ a \in Drivers /\ AfterReceive(a, msr) = a
      /\ Unbegun(s) => a.MTDR = s.MTDR \/ s.MTDR # <<>>
  BY <1>1, ToldLemma
<1>3. "TDF" \in msr <=> s.MTDR = <<>>
  BY DEF Status, Drivers, Failures
<1>4. Interrupted(s) = AfterTransmit(a, msr)
  BY <1>2 DEF Interrupted
<1> HIDE DEF msr, a
<1>5. /\ b \in Drivers /\ b.MTDR = a.MTDR /\ b.done = a.done /\ b.size = a.size
      /\ b.MRDR = a.MRDR /\ b.buffer = a.buffer /\ b.ignore_tdf = a.ignore_tdf
      /\ b.MSR = a.MSR /\ b.MBF = a.MBF /\ b.command = a.command
  BY <1>2, FirstLemma
<1>6. /\ b.state = "transferring" <=> a.done = <<>> \/ a.state = "transferring"
      /\ a.done # <<>> => b = a
  BY <1>2 DEF FirstByte, Drivers
<1> HIDE DEF b
<1>7. a.done = s.done /\ a.MSR = {} /\ a.MRDR = <<>>
      /\ (a.state = "transferring" => Unmoved(s, a))
  BY <1>2 DEF Told, Failed, Ceased, Unmoved
<1>8. CASE "TDF" \notin msr
  <2>1. AfterTransmit(a, msr) = a /\ s.MTDR # <<>>
    BY <1>3, <1>8 DEF AfterTransmit
  <2> QED BY <1>2, <1>4, <2>1
<1>9. CASE "TDF" \in msr /\ b.state # "transferring"
  <2>1. s.done # <<>> /\ b = a
    BY <1>6, <1>7, <1>9
  <2>2. AfterTransmit(a, msr) = a
    BY <1>9, <2>1 DEF AfterTransmit, b
  <2> QED BY <1>2, <1>4, <2>1, <2>2
<1>10. CASE "TDF" \in msr /\ b.state = "transferring"
  <2>1. s.MTDR = <<>> /\ Len(s.MTDR) = 0 /\ (s.done # <<>> => Unmoved(s, a))
    BY <1>3, <1>6, <1>7, <1>10, EmptyFifo
  <2>2. s.done = <<>> => s.size > 0 /\ Unbegun(s)
    <3> SUFFICES ASSUME s.done = <<>>
                 PROVE  s.size > 0 /\ Unbegun(s)
      OBVIOUS
    <3>1. Unbegun(s) /\ ~Still(s)
      BY DEF Unbegun, Still, Wants
    <3> QED BY <3>1 DEF Own, Waiting
  <2>3. a.MTDR = <<>>
    BY <1>2, <2>1, <2>2 DEF Unmoved
  <2>4. Bounded(b)
    <3>1. Len(b.MTDR) = 0 /\ Len(b.MRDR) = 0
      BY <1>5, <1>7, <2>3
    <3> QED BY <1>2, <1>5, <1>7, <3>1 DEF Bounded, Untouched
  <2> DEFINE m == Len(f.MTDR) - Len(b.MTDR)
  <2>5. /\ f \in Drivers /\ m \in Nat
        /\ Len(f.MTDR) = Len(b.MTDR) + m /\ Len(f.done) = Len(b.done) + m
        /\ \A j \in 1 .. m :
             /\ f.MTDR[Len(b.MTDR) + j].op = "TRANSMIT"
             /\ f.MTDR[Len(b.MTDR) + j].byte = <<b.buffer, Len(b.done) + j>>
        /\ m = 0 => Len(b.done) = b.size \/ Len(b.MTDR) = NUM_FIFOS
        /\ f.state = b.state /\ f.ignore_tdf = b.ignore_tdf
        /\ f.buffer = b.buffer /\ f.size = b.size /\ f.MRDR = b.MRDR
        /\ f.MSR = b.MSR /\ f.MBF = b.MBF /\ f.command = b.command
    BY <1>5, <2>4, FillLemma
  <2>6. f.error = b.error
    BY <1>5 DEF FillFifo, Drivers
  <2>7. AfterTransmit(a, msr) = EndOfWrite(f)
    BY <1>2, <1>10 DEF AfterTransmit, f, b, Untouched
  <2> HIDE DEF f, m
  <2>8. Len(b.MTDR) = 0 /\ Len(f.MTDR) = m /\ Len(b.done) = Len(s.done) /\ Len(s.done) \in Nat
    <3>1. Len(b.MTDR) = 0 /\ Len(b.done) = Len(s.done) /\ Len(s.done) \in Nat
      BY <1>5, <1>7, <2>3 DEF Drivers
    <3> QED BY <2>5, <3>1
  <2>9. Untouched(s, f) /\ f.MSR = {} /\ f.MRDR = <<>>
        /\ (s.done # <<>> => f.error = s.error /\ s.MSR = {} /\ s.state = "transferring")
    <3>1. s.done # <<>> => s.state = "transferring"
      BY <1>6, <1>7, <1>10, <2>1 DEF Unmoved
    <3> QED BY <1>2, <1>5, <1>6, <1>7, <2>1, <2>5, <2>6, <3>1 DEF Untouched, Unmoved
  <2>10. CASE f.MTDR # <<>>
    <3>1. EndOfWrite(f) = f
      BY <2>10 DEF EndOfWrite
    <3>2. \A j \in 1 .. Len(f.MTDR) : f.MTDR[j].op = "TRANSMIT" /\ f.MTDR[j].byte[1] = s.buffer
      <4> TAKE j \in 1 .. Len(f.MTDR)
      <4>1. f.MTDR[j].op = "TRANSMIT" /\ f.MTDR[j].byte = <<b.buffer, Len(b.done) + j>>
        BY <2>5, <2>8
      <4> QED BY <1>2, <1>5, <4>1 DEF Untouched
    <3>3. f.done # <<>> /\ f.MTDR \in Seq(Commands)
      <4>1. m # 0
        BY <2>5, <2>8, <2>10 DEF Drivers
      <4>2. Len(f.done) # 0
        BY <2>5, <2>8, <4>1
      <4> QED BY <2>5, <4>2 DEF Drivers
    <3>4. Queues(s, f)
      BY <1>10, <2>1, <2>5, <2>9, <2>10, <3>2, <3>3 DEF Queues
    <3> QED BY <1>4, <2>7, <2>9, <3>1, <3>4
  <2>11. CASE f.MTDR = <<>>
    <3>1. m = 0
      BY <2>8, <2>11, StopLemma
    <3>2. Len(s.done) = s.size
      BY <1>2, <1>5, <2>5, <2>8, <3>1 DEF Untouched
    <3>3. s.done # <<>>
      BY <2>2, <3>2, StopLemma
    <3>4. f.done # <<>>
      <4>1. Len(f.done) = Len(s.done) /\ Len(s.done) # 0
        BY <2>5, <2>8, <3>1, <3>3 DEF Drivers
      <4> QED BY <4>1, StopLemma
    <3> DEFINE t == EndOfWrite(f)
    <3> DEFINE e == IF f.stop_on_completion THEN "stopping" ELSE "transfer_complete"
               q == IF f.stop_on_completion THEN <<STOP>> ELSE f.MTDR
               r == [f EXCEPT !.TDIE = FALSE, !.state = e, !.MTDR = q]
    <3>5. t = r
      <4>1. Len(f.done) = f.size
        BY <1>2, <1>5, <2>5, <2>8, <3>1, <3>2 DEF Untouched
      <4>2. CASE f.stop_on_completion
        BY <2>5, <2>11, <4>1, <4>2 DEF EndOfWrite, Drivers
      <4>3. CASE ~f.stop_on_completion
        BY <2>5, <2>11, <4>1, <4>3 DEF EndOfWrite, Drivers
      <4> QED BY <4>2, <4>3
    <3> HIDE DEF t
    <3>6. /\ q = <<>> \/ q = <<STOP>>
          /\ e = IF f.stop_on_completion THEN "stopping" ELSE "transfer_complete"
      BY <2>11
    <3> HIDE DEF q, e
    <3>7. /\ Untouched(f, t) /\ t.error = f.error /\ t.done = f.done /\ t.MSR = f.MSR
          /\ t.MRDR = f.MRDR /\ t.MTDR = q /\ t.state = e
          /\ t.stop_on_completion = f.stop_on_completion
      BY <2>5, <3>5 DEF Drivers, Untouched
    <3> HIDE DEF t
    <3>8. Untouched(s, t) /\ Completes(s, t)
      BY <2>1, <2>9, <3>2, <3>3, <3>4, <3>6, <3>7 DEF Untouched, Completes
    <3> QED BY <1>4, <2>7, <3>8 DEF t
  <2> QED BY <2>10, <2>11
<1> QED BY <1>8, <1>9, <1>10

-----------------------------------------------------------------------------
\* The same queue and command.
LEMMA SameCommands ==
  ASSUME NEW s, NEW t, t.MTDR = s.MTDR, t.command = s.command
  PROVE  /\ \A op : (Has(t, op) <=> Has(s, op)) /\ (Doing1(t, op) <=> Doing1(s, op))
         /\ Beginning(t) <=> Beginning(s)
         /\ t.MRDR = s.MRDR => (Reads(t) <=> Reads(s))
BY DEF Has, Doing1, Beginning, Reads

\* An emptied queue.
LEMMA NoCommands ==
  ASSUME NEW t, t.MTDR = <<>> \/ t.MTDR = <<STOP>>
  PROVE  /\ \A op : op # "STOP" => ~Has(t, op)
         /\ \A j \in 1 .. Len(t.MTDR) : t.MTDR[j].op = "STOP"
<1>1. CASE t.MTDR = <<>>
  <2>1. Len(t.MTDR) = 0
    BY <1>1
  <2> QED BY <2>1 DEF Has
<1>2. CASE t.MTDR = <<STOP>>
  <2>1. Len(t.MTDR) = 1 /\ t.MTDR[1].op = "STOP"
    BY <1>2, StopLemma
  <2> QED BY <2>1 DEF Has
<1> QED BY <1>1, <1>2

\* What a clear status says.
LEMMA CleanLemma ==
  ASSUME NEW s
  PROVE  /\ s.MSR = {} => Clean(s)
         /\ s.MSR = {"SDF"} => Clean(s)
         /\ s.MSR = {"PLTF"} => Clean(s)
         /\ ~Clean(s) => s.MSR \cap Failures # {}
BY DEF Clean, Final, Failures

LEMMA ReadTold ==
  ASSUME NEW s \in Drivers, NEW t \in Drivers, NEW fr, NEW k, NEW live, Own(s, live),
         ReadOf(s, fr, k), DriverInv(s, fr), Untouched(s, t), Told(s, t)
  PROVE  ReadOf(t, fr, k)
<1>1. CASE Unmoved(s, t)
  BY <1>1 DEF Unmoved
<1>2. CASE Ceased(s, t)
  <2>1. /\ \A op : (Has(t, op) <=> Has(s, op)) /\ (Doing1(t, op) <=> Doing1(s, op))
        /\ Beginning(t) <=> Beginning(s)
        /\ Reads(t) <=> Reads(s)
        /\ Clean(s) /\ Clean(t)
    BY <1>2, SameCommands, CleanLemma DEF Ceased, Untouched
  <2>2. ~Beginning(s) /\ ~Has(s, "RECEIVE") /\ ~Reads(s) /\ Left(s) = 0
    <3>1. "SDF" \in s.MSR /\ s.MRDR = <<>>
      BY <1>2 DEF Ceased
    <3>2. s.command = <<>> /\ ~Has(s, "START") /\ ~Has(s, "RECEIVE")
      BY <3>1 DEF Own, Prompt
    <3> QED BY <3>1, <3>2 DEF Beginning, Reads, Doing1, Left
  <2>3. Left(t) = Left(s) /\ (Flowing(t) <=> Flowing(s))
    <3>1. t.size = s.size /\ t.command = s.command /\ t.done = s.done /\ t.error = s.error
      BY <1>2 DEF Untouched, Ceased
    <3>2. Left(t) = Left(s)
      BY <2>1, <3>1 DEF Left
    <3> QED BY <2>1, <3>1, <3>2 DEF Flowing
  <2>4. s.error = "ok" /\ s.done # <<>> => ~(Len(s.done) < s.size)
    <3> SUFFICES ASSUME s.error = "ok", s.done # <<>>
                 PROVE  ~(Len(s.done) < s.size)
      OBVIOUS
    <3>1. Len(s.done) + Len(s.MRDR) + Left(s) = s.size
      BY <2>1, <2>2 DEF ReadOf, Flowing
    <3>2. Len(s.MRDR) = 0
      BY <1>2 DEF Ceased
    <3>3. Len(s.done) + 0 + 0 = s.size
      BY <2>2, <3>1, <3>2
    <3> DEFINE d == Len(s.done)
    <3>4. d \in Nat /\ s.size \in Nat
      BY DEF Drivers
    <3> HIDE DEF d
    <3> QED BY <3>3, <3>4 DEF d
  <2> QED BY <1>2, <2>1, <2>2, <2>3, <2>4 DEF ReadOf, Ceased, Untouched
<1>3. CASE Failed(s, t)
  <2>1. \A op : Doing1(t, op) <=> Doing1(s, op)
    BY DEF Doing1, Untouched
  <2>2. Clean(t) /\ t.error # "ok" /\ s.MRDR = <<>> /\ t.MRDR = <<>> /\ t.done = s.done
    BY <1>3, CleanLemma DEF Failed
  <2>3. ~Clean(s) => s.command = <<>>
    BY DEF DriverInv, Consistent, Clean
  <2>4. /\ ~Has(t, "START") /\ ~Has(t, "RECEIVE")
        /\ \A j \in 1 .. Len(t.MTDR) : t.MTDR[j].op \notin {"START", "RECEIVE"}
        /\ Doing1(s, "RECEIVE") => ~Has(s, "START") /\ ~Has(s, "RECEIVE")
    <3>1. Doing1(s, "RECEIVE") => ~Has(s, "START") /\ ~Has(s, "RECEIVE")
      BY DEF Own, Shape, Only, Has
    <3>2. CASE t.MTDR = s.MTDR /\ s.state = "stopping"
      <4>1. ~Has(s, "START") /\ ~Has(s, "RECEIVE")
        BY <3>2 DEF Own, Shape, ReadOf
      <4> QED BY <3>1, <3>2, <4>1 DEF Has
    <3>3. CASE t.MTDR = <<>> \/ t.MTDR = <<STOP>>
      BY <3>1, <3>3, NoCommands
    <3> QED BY <1>3, <3>2, <3>3 DEF Failed
  <2>5. Flowing(t) => Flowing(s) /\ Left(t) = Left(s)
    <3> SUFFICES ASSUME Flowing(t)
                 PROVE  Flowing(s) /\ Left(t) = Left(s)
      OBVIOUS
    <3>1. Doing1(s, "RECEIVE") /\ ~Doing1(s, "START") /\ s.command # <<>>
      BY <2>1, <2>2, <2>4 DEF Flowing, Reads, Doing1
    <3>2. t.command = s.command
      BY DEF Untouched
    <3> QED BY <2>1, <2>3, <2>4, <3>1, <3>2 DEF Flowing, Reads, Beginning, Left
  <2>6. \A j \in 1 .. Len(t.MTDR) : t.MTDR[j].op # "RECEIVE" /\ t.MTDR[j].op # "START"
    BY <2>4
  <2>7. /\ t.ignore_tdf = s.ignore_tdf /\ t.size = s.size /\ t.command = s.command
        /\ t.MRDR = s.MRDR
    BY <2>2 DEF Untouched
  <2>8. Doing1(t, "START") => s.done = <<>> /\ t.command[1].dir = "read" /\ t.command[1].call = k
    BY <2>1, <2>7 DEF ReadOf, Beginning
  <2>9. Flowing(t) =>
          /\ InRead(fr, k)
          /\ t.done = <<>> \/ t.error = "ok" =>
               /\ fr[Len(fr)].bytes = t.done \o t.MRDR
               /\ Len(t.done) + Len(t.MRDR) + Left(t) = t.size
    BY <2>2, <2>5, <2>7 DEF ReadOf
  <2>10. t.ignore_tdf /\ t.size > 0
    BY <2>7 DEF ReadOf
  <2> QED BY <2>2, <2>4, <2>6, <2>8, <2>9, <2>10 DEF ReadOf, Beginning
<1> QED BY <1>1, <1>2, <1>3 DEF Told

\* A byte goes from the FIFO to the buffer.
LEMMA MovedByte ==
  ASSUME NEW S, NEW d \in Seq(S), NEW m \in Seq(S), m # <<>>
  PROVE  /\ Append(d, Head(m)) \o Tail(m) = d \o m
         /\ Append(d, Head(m)) # <<>> /\ Len(Append(d, Head(m))) = Len(d) + 1
         /\ Len(Tail(m)) = Len(m) - 1 /\ Len(m) \in Nat /\ Len(m) > 0
<1>1. Len(m) \in Nat /\ Len(m) > 0 /\ Head(m) = m[1] /\ Head(m) \in S
  OBVIOUS
<1>2. /\ Tail(m) \in Seq(S) /\ Len(Tail(m)) = Len(m) - 1
      /\ \A i \in 1 .. Len(m) - 1 : Tail(m)[i] = m[i + 1]
  BY <1>1
<1> DEFINE a == Append(d, Head(m))
<1>3. /\ a \in Seq(S) /\ Len(a) = Len(d) + 1 /\ Len(d) \in Nat
      /\ \A i \in 1 .. Len(d) : a[i] = d[i]
      /\ a[Len(d) + 1] = m[1]
  BY <1>1, AppendLemma
<1>4. a # <<>>
  <2>1. Len(a) # 0
    BY <1>3
  <2> QED BY <2>1, StopLemma
<1> HIDE DEF a
<1> DEFINE r == Tail(m)
<1> HIDE DEF r
<1>5. a \o r = d \o m
  <2>1. Len(a \o r) = Len(d \o m)
    BY <1>1, <1>2, <1>3 DEF r
  <2>2. \A i \in 1 .. Len(d \o m) : (a \o r)[i] = (d \o m)[i]
    BY <1>1, <1>2, <1>3 DEF r
  <2>3. a \o r \in Seq(S) /\ d \o m \in Seq(S)
    BY <1>2, <1>3 DEF r
  <2> DEFINE x == a \o r  y == d \o m  n == Len(y)
  <2>4. Len(x) = n /\ (\A i \in 1 .. n : x[i] = y[i]) /\ x \in Seq(S) /\ y \in Seq(S)
    BY <2>1, <2>2, <2>3
  <2> HIDE DEF x, y
  <2>5. x \in [1 .. n -> S] /\ y \in [1 .. n -> S]
    BY <2>4
  <2>6. x = y
    BY <2>4, <2>5
  <2> QED BY <2>6 DEF x, y
<1> QED BY <1>1, <1>2, <1>3, <1>4, <1>5 DEF a, r

LEMMA ReadTook ==
  ASSUME NEW s \in Drivers, NEW t \in Drivers, NEW fr, NEW k, NEW live, Own(s, live),
         ReadOf(s, fr, k), Untouched(s, t), Took(s, t)
  PROVE  ReadOf(t, fr, k)
<1>1. /\ s.MRDR # <<>> /\ s.MSR = {} /\ t.MSR = {} /\ t.MTDR = s.MTDR
      /\ t.error = IF s.done = <<>> THEN "ok" ELSE s.error
      /\ t.ignore_tdf = s.ignore_tdf /\ t.size = s.size /\ t.command = s.command
  BY DEF Took, Untouched
<1>2. /\ \A op : (Has(t, op) <=> Has(s, op)) /\ (Doing1(t, op) <=> Doing1(s, op))
      /\ Beginning(t) <=> Beginning(s)
      /\ Clean(s) /\ Clean(t)
  BY <1>1, SameCommands, CleanLemma
<1>3. ~Beginning(s) /\ ~Has(s, "RECEIVE") /\ ~Has(s, "START") /\ ~Doing1(s, "START")
  BY <1>1 DEF Own, Prompt, Only, Has, Beginning, Doing1
<1>4. Flowing(s)
  BY <1>1, <1>2, <1>3 DEF Flowing, Reads
<1> DEFINE d == Len(s.done)  m == Len(s.MRDR)  z == s.size  l == Left(s)
<1>5. Left(t) = Left(s)
  BY <1>1, <1>2 DEF Left
<1>6. d \in Nat /\ m \in Nat /\ m > 0 /\ z \in Nat /\ l \in Nat
  <2>1. l \in Nat
    <3>1. Doing1(s, "RECEIVE") => s.command[1].n \in Nat
      BY CommandLemma DEF Doing1
    <3> QED BY <1>3, <3>1 DEF Left
  <2> QED BY <1>1, <2>1 DEF Drivers
<1>7. /\ InRead(fr, k)
      /\ s.done = <<>> \/ s.error = "ok" =>
           /\ fr[Len(fr)].bytes = s.done \o s.MRDR
           /\ d + m + l = z
  BY <1>4 DEF ReadOf
<1> HIDE DEF d, m, z, l
<1>8. CASE s.done # <<>> /\ s.state # "transferring" /\ t.MRDR = <<>> /\ t.done = s.done
  <2>1. s.error # "ok"
    <3> SUFFICES ASSUME s.error = "ok"
                 PROVE  FALSE
      OBVIOUS
    <3>1. d < z
      BY <1>6, <1>7
    <3> QED BY <1>8, <3>1 DEF ReadOf, d, z
  <2>2. t.error # "ok" /\ t.done # <<>>
    BY <1>1, <1>8, <2>1
  <2>3. /\ ~Beginning(t) /\ ~Has(t, "RECEIVE") /\ ~Doing1(t, "START")
    BY <1>2, <1>3
  <2>4. /\ \A j \in 1 .. Len(t.MTDR) :
              /\ t.MTDR[j].op = "RECEIVE" => t.MTDR[j].n = t.size
              /\ t.MTDR[j].op = "START" => t.MTDR[j].dir = "read" /\ t.MTDR[j].call = k
        /\ t.ignore_tdf /\ t.size > 0
    BY <1>1 DEF ReadOf
  <2>5. ~(t.done = <<>> \/ t.error = "ok")
    BY <2>2
  <2> QED BY <1>7, <2>2, <2>3, <2>4, <2>5 DEF ReadOf
<1>9. CASE /\ t.MRDR = Tail(s.MRDR) /\ t.done = Append(s.done, Head(s.MRDR))
           /\ t.state = IF Len(t.done) = s.size
                        THEN IF Len(t.MTDR) = 1 THEN "stopping" ELSE "transfer_complete"
                        ELSE "transferring"
  <2>1. s.done \in Seq(OutBytes \cup InBytes) /\ s.MRDR \in Seq(OutBytes \cup InBytes)
    BY DEF Drivers
  <2>2. /\ t.done \o t.MRDR = s.done \o s.MRDR /\ t.done # <<>>
        /\ Len(t.done) = d + 1 /\ Len(t.MRDR) = m - 1
    <3> DEFINE S == OutBytes \cup InBytes  x == s.done  y == s.MRDR
    <3>1. x \in Seq(S) /\ y \in Seq(S) /\ y # <<>>
      BY <1>1, <2>1
    <3> HIDE DEF S, x, y
    <3>2. /\ Append(x, Head(y)) \o Tail(y) = x \o y
          /\ Append(x, Head(y)) # <<>> /\ Len(Append(x, Head(y))) = Len(x) + 1
          /\ Len(Tail(y)) = Len(y) - 1
      BY <3>1, MovedByte
    <3> QED BY <1>9, <3>2 DEF x, y, d, m
  <2>3. t.error = "ok" => s.done = <<>> \/ s.error = "ok"
    BY <1>1
  <2>4. t.error = "ok" =>
          /\ fr[Len(fr)].bytes = t.done \o t.MRDR
          /\ Len(t.done) + Len(t.MRDR) + Left(t) = t.size
    <3> SUFFICES ASSUME t.error = "ok"
                 PROVE  /\ fr[Len(fr)].bytes = t.done \o t.MRDR
                        /\ Len(t.done) + Len(t.MRDR) + Left(t) = t.size
      OBVIOUS
    <3>1. d + m + l = z /\ fr[Len(fr)].bytes = s.done \o s.MRDR
      BY <1>7, <2>3
    <3>2. (d + 1) + (m - 1) + l = z
      <4> HIDE DEF d, m, z, l
      <4> QED BY <1>6, <3>1
    <3>3. Left(t) = l /\ t.size = z
      BY <1>1, <1>5 DEF l, z
    <3> HIDE DEF d, m, z, l
    <3> QED BY <2>2, <3>1, <3>2, <3>3
  <2>5. Len(t.done) < t.size => t.state = "transferring"
    <3>1. Len(t.done) # t.size => t.state = "transferring"
      BY <1>1, <1>9
    <3>2. Len(t.done) < t.size => Len(t.done) # t.size
      BY <1>1, <1>6, <2>2 DEF z
    <3> QED BY <3>1, <3>2
  <2>6. ~Beginning(t) /\ ~Has(t, "RECEIVE") /\ ~Doing1(t, "START")
    BY <1>2, <1>3
  <2>7. /\ \A j \in 1 .. Len(t.MTDR) :
              /\ t.MTDR[j].op = "RECEIVE" => t.MTDR[j].n = t.size
              /\ t.MTDR[j].op = "START" => t.MTDR[j].dir = "read" /\ t.MTDR[j].call = k
        /\ t.ignore_tdf /\ t.size > 0
    BY <1>1 DEF ReadOf
  <2> QED BY <1>7, <2>2, <2>4, <2>5, <2>6, <2>7 DEF ReadOf
<1> QED BY <1>8, <1>9 DEF Took

\* The interrupt during a read keeps what the bus has yet to send of the number.
LEMMA SelectedServed ==
  ASSUME NEW s \in Drivers, NEW t \in Drivers, NEW fr, NEW k, NEW live, Own(s, live),
         ReadOf(s, fr, k), Selected(s, fr, k), Untouched(s, t), Told(s, t) \/ Took(s, t)
  PROVE  Selected(t, fr, k)
<1> SUFFICES ASSUME ~Written(fr, k)
             PROVE  Selected(t, fr, k)
  BY DEF Selected
<1>1. /\ s.done = <<>> /\ s.MRDR = <<>> /\ ~Doing1(s, "START") /\ ~Doing1(s, "RECEIVE")
      /\ \/ Doing1(s, "TRANSMIT") /\ SendsOwn(s, k)
         \/ ~Clean(s)
         \/ s.error # "ok" /\ ~Has(s, "START") /\ ~Has(s, "RECEIVE")
  BY DEF Selected
<1>2. Told(s, t)
  BY <1>1 DEF Took
<1>3. /\ \A op : Doing1(t, op) <=> Doing1(s, op)
      /\ SendsOwn(t, k) <=> SendsOwn(s, k)
  BY DEF Doing1, SendsOwn, Untouched
<1>4. t.done = <<>> /\ t.MRDR = <<>>
  BY <1>1, <1>2 DEF Told, Failed, Ceased, Unmoved
<1>5. CASE Doing1(s, "TRANSMIT") /\ SendsOwn(s, k)
  BY <1>1, <1>3, <1>4, <1>5 DEF Selected
<1>6. CASE Unmoved(s, t)
  BY <1>6 DEF Unmoved
<1>7. CASE Ceased(s, t)
  <2>1. Clean(s) /\ t.MTDR = s.MTDR /\ t.error = s.error /\ s.command = <<>>
    <3>1. s.MSR = {"SDF"}
      BY <1>7 DEF Ceased
    <3> QED BY <1>7, <3>1, CleanLemma DEF Ceased, Own, Prompt
  <2>2. ~Has(t, "START") /\ ~Has(t, "RECEIVE") /\ t.error # "ok"
    BY <1>1, <2>1 DEF Has, Doing1
  <2> QED BY <1>1, <1>3, <1>4, <2>2 DEF Selected
<1>8. CASE Failed(s, t)
  <2>1. ~Has(t, "START") /\ ~Has(t, "RECEIVE")
    <3>1. CASE t.MTDR = s.MTDR /\ s.state = "stopping"
      <4>1. ~Has(s, "START") /\ ~Has(s, "RECEIVE")
        BY <3>1 DEF Own, Shape, ReadOf
      <4> QED BY <3>1, <4>1 DEF Has
    <3>2. CASE t.MTDR = <<>> \/ t.MTDR = <<STOP>>
      BY <3>2, NoCommands
    <3> QED BY <1>8, <3>1, <3>2 DEF Failed
  <2> QED BY <1>1, <1>3, <1>4, <1>8, <2>1 DEF Selected, Failed
<1> QED BY <1>2, <1>6, <1>7, <1>8 DEF Told

\* The interrupt during the write of the number.
LEMMA NumberServed ==
  ASSUME NEW s \in Drivers, Bounded(s), NEW fr, NEW k, NEW live, Own(s, live), Wants(s),
         NumberOf(s, fr, k)
  PROVE  NumberOf(Interrupted(s), fr, k)
<1> DEFINE t == Interrupted(s)
<1>1. /\ Untouched(s, t)
      /\ \/ Told(s, t) /\ (s.done = <<>> => s.MTDR # <<>>)
         \/ Queues(s, t) \/ Completes(s, t)
  BY ServedWrite DEF NumberOf
<1> SUFFICES NumberOf(t, fr, k)
  OBVIOUS
<1> HIDE DEF t
<1>2. /\ ~t.ignore_tdf /\ t.size > 0 /\ t.buffer = <<k, "out">>
      /\ t.command = s.command /\ t.MBF = s.MBF
      /\ \A op : Doing1(t, op) <=> Doing1(s, op)
      /\ SendsOwn(t, k) <=> SendsOwn(s, k)
  BY <1>1 DEF NumberOf, Untouched, Doing1, SendsOwn
<1>3. ~Still(s)
  BY DEF Still, Wants
<1>4. CASE Unmoved(s, t)
  BY <1>4 DEF Unmoved
<1>5. CASE Ceased(s, t) /\ (s.done = <<>> => s.MTDR # <<>>)
  <2>1. s.MSR = {"SDF"} /\ t.MTDR = s.MTDR /\ t.done = s.done /\ t.error = s.error
        /\ Clean(s)
    BY <1>5, CleanLemma DEF Ceased
  <2>2. s.done # <<>>
    <3> SUFFICES ASSUME s.done = <<>>
                 PROVE  FALSE
      OBVIOUS
    <3>1. Unbegun(s) /\ s.MTDR # <<>> /\ ~Has(s, "START")
      BY <1>5, <2>1 DEF Unbegun, NumberOf, Own, Prompt
    <3>2. ~First(s, "START")
      BY <3>1 DEF First, Has, Drivers
    <3> QED BY <1>3, <2>1, <3>1, <3>2 DEF Own, Waiting
  <2>3. \A op : Has(t, op) <=> Has(s, op)
    BY <2>1 DEF Has
  <2> QED BY <1>2, <2>1, <2>2, <2>3 DEF NumberOf
<1>6. CASE Failed(s, t) /\ (s.done = <<>> => s.MTDR # <<>>)
  <2>1. t.error # "ok" /\ t.done = s.done /\ ~finished(t)
    BY <1>6 DEF Failed, finished, BusyStates
  <2>2. \A j \in 1 .. Len(t.MTDR) : t.MTDR[j].op = "TRANSMIT" => t.MTDR[j].byte[1] = <<k, "out">>
    <3>1. CASE t.MTDR = s.MTDR
      BY <3>1 DEF NumberOf
    <3>2. CASE t.MTDR = <<>> \/ t.MTDR = <<STOP>>
      BY <3>2, NoCommands
    <3> QED BY <1>6, <3>1, <3>2 DEF Failed
  <2>3. (t.done = <<>> => t.MTDR = <<>>) => SendsOwn(t, k)
    <3>1. s.MBF => (t.MTDR = s.MTDR \/ t.MTDR = <<STOP>>)
      BY <1>6 DEF Failed
    <3>2. <<STOP>> # <<>>
      BY StopLemma
    <3>3. CASE s.done # <<>>
      BY <1>2, <2>1, <3>3 DEF NumberOf
    <3>4. CASE s.done = <<>>
      BY <1>2, <1>6, <2>1, <3>1, <3>2, <3>4 DEF SendsOwn
    <3> QED BY <3>3, <3>4
  <2> QED BY <1>2, <2>1, <2>2, <2>3 DEF NumberOf
<1>7. CASE Queues(s, t)
  <2>1. /\ \A j \in 1 .. Len(t.MTDR) : t.MTDR[j].op = "TRANSMIT" /\ t.MTDR[j].byte[1] = <<k, "out">>
        /\ t.done # <<>> /\ s.MTDR = <<>> /\ t.MTDR # <<>> /\ t.MTDR \in Seq(Commands)
    BY <1>7 DEF Queues, NumberOf
  <2>2. Has(t, "TRANSMIT")
    <3> DEFINE q == t.MTDR
    <3>1. q \in Seq(Commands) /\ q # <<>>
      BY <2>1
    <3>2. 1 \in 1 .. Len(q)
      BY <3>1
    <3> QED BY <2>1, <3>2 DEF Has
  <2> QED BY <1>2, <2>1, <2>2 DEF NumberOf
<1>8. CASE Completes(s, t)
  <2>1. /\ Clean(s) /\ t.error = s.error /\ s.done # <<>> /\ t.done # <<>> /\ s.MTDR = <<>>
        /\ t.MTDR = <<>> \/ t.MTDR = <<STOP>>
    BY <1>8, CleanLemma DEF Completes
  <2>2. ~Has(s, "TRANSMIT") /\ \A j \in 1 .. Len(t.MTDR) : t.MTDR[j].op = "STOP"
    BY <2>1, EmptyFifo, NoCommands
  <2> QED BY <1>2, <2>1, <2>2 DEF NumberOf
<1> QED BY <1>1, <1>4, <1>5, <1>6, <1>7, <1>8 DEF Told

\* The interrupt after a read that was refused.
LEMMA RefusalServed ==
  ASSUME NEW s \in Drivers, Bounded(s), NEW live, Own(s, live), Wants(s), Refusal(s)
  PROVE  Refusal(Interrupted(s))
<1> DEFINE t == Interrupted(s)
<1>1. s.done # <<>>
  BY DEF Refusal, Still, Wants
<1>2. Untouched(s, t) /\ (Told(s, t) \/ Queues(s, t) \/ Completes(s, t))
  BY ServedWrite DEF Refusal
<1> HIDE DEF t
<1>3. t.error # "ok" /\ t.done # <<>>
  BY <1>1, <1>2 DEF Refusal, Told, Failed, Ceased, Unmoved, Queues, Completes
<1> QED BY <1>2, <1>3 DEF Refusal, Untouched, t

-----------------------------------------------------------------------------
\* The port does not touch the driver's own variables.
Steady(s, t) ==
  /\ t.state = s.state /\ t.error = s.error /\ t.ignore_tdf = s.ignore_tdf
  /\ t.buffer = s.buffer /\ t.size = s.size /\ t.done = s.done

\* The next command is taken from the FIFO.
Taken(s, t) ==
  /\ Steady(s, t) /\ s.command = <<>> /\ s.MTDR # <<>>
  /\ t.command = <<Head(s.MTDR)>> /\ t.MTDR = Tail(s.MTDR)
  /\ t.MRDR = s.MRDR /\ t.MSR = s.MSR

LEMMA NextCommand ==
  ASSUME NEW s \in Drivers, NEW t, Taken(s, t)
  PROVE  /\ t.command # <<>> /\ t.command[1] = s.MTDR[1]
         /\ 1 \in 1 .. Len(s.MTDR)
         /\ \A op : /\ Has(s, op) <=> Doing1(t, op) \/ Has(t, op)
                    /\ ~Doing1(s, op)
         /\ \A j \in 1 .. Len(t.MTDR) : j + 1 \in 1 .. Len(s.MTDR) /\ t.MTDR[j] = s.MTDR[j + 1]
<1> DEFINE q == s.MTDR
           r == t.MTDR
<1>1. q \in Seq(Commands) /\ q # <<>> /\ r = Tail(q) /\ t.command = <<Head(q)>>
  BY DEF Taken, Drivers
<1>2. s.command = <<>>
  BY DEF Taken
<1> HIDE DEF q, r
<1>3. /\ Len(q) \in Nat /\ 1 \in 1 .. Len(q) /\ Head(q) = q[1]
      /\ Len(r) = Len(q) - 1
      /\ \A j \in 1 .. Len(r) : j + 1 \in 1 .. Len(q) /\ r[j] = q[j + 1]
  BY <1>1
<1>4. t.command # <<>> /\ t.command[1] = q[1]
  BY <1>1, <1>3
<1>5. \A j \in 1 .. Len(q) : j = 1 \/ (j - 1 \in 1 .. Len(r) /\ q[j] = r[j - 1])
  <2> TAKE j \in 1 .. Len(q)
  <2>1. j # 1 => j - 1 \in 1 .. Len(r) /\ (j - 1) + 1 = j
    BY <1>3
  <2> QED BY <1>3, <2>1
<1>6. ASSUME NEW op
      PROVE  (\E j \in 1 .. Len(q) : q[j].op = op) <=> q[1].op = op \/ \E j \in 1 .. Len(r) : r[j].op = op
  BY <1>3, <1>5
<1> QED BY <1>2, <1>3, <1>4, <1>6 DEF Has, Doing1, q, r

LEMMA ReadTaken ==
  ASSUME NEW s \in Drivers, NEW t, Taken(s, t), NEW fr, NEW k, ReadOf(s, fr, k)
  PROVE  ReadOf(t, fr, k)
<1>1. /\ t.command # <<>> /\ t.command[1] = s.MTDR[1]
      /\ 1 \in 1 .. Len(s.MTDR)
      /\ \A op : /\ Has(s, op) <=> Doing1(t, op) \/ Has(t, op)
                 /\ ~Doing1(s, op)
      /\ \A j \in 1 .. Len(t.MTDR) : j + 1 \in 1 .. Len(s.MTDR) /\ t.MTDR[j] = s.MTDR[j + 1]
  BY NextCommand
<1>2. /\ t.state = s.state /\ t.error = s.error /\ t.ignore_tdf = s.ignore_tdf
      /\ t.size = s.size /\ t.done = s.done /\ t.MRDR = s.MRDR
      /\ Clean(t) <=> Clean(s)
  BY DEF Taken, Steady, Clean
<1>3. /\ Beginning(t) <=> Beginning(s)
      /\ Reads(t) <=> Reads(s)
      /\ Has(t, "RECEIVE") => Has(s, "RECEIVE")
  BY <1>1, <1>2 DEF Beginning, Reads
<1>4. /\ t.command[1].op = "RECEIVE" => t.command[1].n = s.size
      /\ t.command[1].op = "START" => t.command[1].dir = "read" /\ t.command[1].call = k
      /\ \A j \in 1 .. Len(t.MTDR) :
           /\ t.MTDR[j].op = "RECEIVE" => t.MTDR[j].n = t.size
           /\ t.MTDR[j].op = "START" => t.MTDR[j].dir = "read" /\ t.MTDR[j].call = k
  BY <1>1, <1>2 DEF ReadOf
<1>5. Left(t) = Left(s)
  BY <1>1, <1>2, <1>4 DEF Left, Doing1
<1>6. Flowing(t) <=> Flowing(s)
  BY <1>2, <1>3 DEF Flowing
<1>7. Flowing(t) =>
        /\ InRead(fr, k)
        /\ t.done = <<>> \/ t.error = "ok" =>
             /\ fr[Len(fr)].bytes = t.done \o t.MRDR
             /\ Len(t.done) + Len(t.MRDR) + Left(t) = t.size
  BY <1>2, <1>5, <1>6 DEF ReadOf
<1>8. Doing1(t, "START") => t.command[1].dir = "read" /\ t.command[1].call = k
  BY <1>4 DEF Doing1
<1> QED BY <1>2, <1>3, <1>4, <1>7, <1>8 DEF ReadOf

LEMMA SelectedTaken ==
  ASSUME NEW s \in Drivers, NEW t, Taken(s, t), s.MSR = {}, NEW fr, NEW k,
         Selected(s, fr, k)
  PROVE  Selected(t, fr, k)
<1>1. /\ \A op : /\ Has(s, op) <=> Doing1(t, op) \/ Has(t, op)
                 /\ ~Doing1(s, op)
  BY NextCommand
<1>2. Clean(s) /\ t.error = s.error /\ t.done = s.done /\ t.MRDR = s.MRDR
  BY CleanLemma DEF Taken, Steady
<1> QED BY <1>1, <1>2 DEF Selected

LEMMA NumberTaken ==
  ASSUME NEW s \in Drivers, NEW t, Taken(s, t), NEW fr, NEW k, NumberOf(s, fr, k)
  PROVE  NumberOf(t, fr, k)
<1>1. /\ t.command # <<>> /\ t.command[1] = s.MTDR[1]
      /\ 1 \in 1 .. Len(s.MTDR)
      /\ \A op : /\ Has(s, op) <=> Doing1(t, op) \/ Has(t, op)
                 /\ ~Doing1(s, op)
      /\ \A j \in 1 .. Len(t.MTDR) : j + 1 \in 1 .. Len(s.MTDR) /\ t.MTDR[j] = s.MTDR[j + 1]
  BY NextCommand
<1>2. /\ t.state = s.state /\ t.error = s.error /\ t.ignore_tdf = s.ignore_tdf
      /\ t.size = s.size /\ t.done = s.done /\ t.buffer = s.buffer
      /\ Clean(t) <=> Clean(s)
  BY DEF Taken, Steady, Clean
<1>3. \A j \in 1 .. Len(t.MTDR) : t.MTDR[j].op = "TRANSMIT" => t.MTDR[j].byte[1] = <<k, "out">>
  BY <1>1 DEF NumberOf
<1>4. SendsOwn(t, k)
  BY <1>1 DEF NumberOf, SendsOwn, Doing1
<1> QED BY <1>1, <1>2, <1>3, <1>4 DEF NumberOf, finished

\* A command is over.
Past(s, t) ==
  /\ Steady(s, t) /\ s.command # <<>> /\ t.command = <<>>
  /\ t.MTDR = s.MTDR /\ t.MRDR = s.MRDR

LEMMA PastLemma ==
  ASSUME NEW s, NEW t, Past(s, t)
  PROVE  /\ \A op : (Has(t, op) <=> Has(s, op)) /\ ~Doing1(t, op)
         /\ Beginning(t) => Beginning(s)
         /\ Reads(t) => Reads(s)
         /\ ~Doing1(s, "START") => (Beginning(t) <=> Beginning(s))
         /\ ~Doing1(s, "RECEIVE") => (Reads(t) <=> Reads(s)) /\ Left(t) = Left(s)
BY DEF Past, Steady, Has, Doing1, Beginning, Reads, Left

\* A failure ends it.
LEMMA FailedPast ==
  ASSUME NEW s, NEW t, Past(s, t), ~Clean(t), NEW fr, NEW gr, NEW k,
         Written(fr, k) => Written(gr, k)
  PROVE  /\ ReadOf(s, fr, k) => ReadOf(t, gr, k)
         /\ NumberOf(s, fr, k) => NumberOf(t, gr, k)
         /\ Selected(s, fr, k) => Selected(t, gr, k)
<1>1. /\ \A op : (Has(t, op) <=> Has(s, op)) /\ ~Doing1(t, op)
      /\ Beginning(t) => Beginning(s)
  BY PastLemma
<1>2. /\ t.state = s.state /\ t.error = s.error /\ t.ignore_tdf = s.ignore_tdf
      /\ t.size = s.size /\ t.done = s.done /\ t.buffer = s.buffer /\ t.MTDR = s.MTDR
      /\ t.MRDR = s.MRDR
  BY DEF Past, Steady
<1>3. ASSUME ReadOf(s, fr, k)
      PROVE  ReadOf(t, gr, k)
  <2>1. ~Flowing(t)
    BY DEF Flowing
  <2>2. /\ \A j \in 1 .. Len(t.MTDR) :
             /\ t.MTDR[j].op = "RECEIVE" => t.MTDR[j].n = t.size
             /\ t.MTDR[j].op = "START" => t.MTDR[j].dir = "read" /\ t.MTDR[j].call = k
    BY <1>2, <1>3 DEF ReadOf
  <2> QED BY <1>1, <1>2, <1>3, <2>1, <2>2 DEF ReadOf
<1>4. NumberOf(s, fr, k) => NumberOf(t, gr, k)
  BY <1>1, <1>2 DEF NumberOf, SendsOwn, finished
<1>5. Selected(s, fr, k) => Selected(t, gr, k)
  BY <1>1, <1>2 DEF Selected
<1> QED BY <1>3, <1>4, <1>5

\* A STOP, or a byte of another call, is sent.
LEMMA ReadPast ==
  ASSUME NEW s, NEW t, Past(s, t), s.MSR = {}, Clean(t),
         NEW fr, NEW gr, NEW k, ReadOf(s, fr, k),
         ~Doing1(s, "START"), ~Doing1(s, "RECEIVE"),
         gr = fr \/ ~InRead(fr, k)
  PROVE  ReadOf(t, gr, k)
<1>1. /\ \A op : (Has(t, op) <=> Has(s, op)) /\ ~Doing1(t, op)
      /\ Beginning(t) <=> Beginning(s)
      /\ (Reads(t) <=> Reads(s)) /\ Left(t) = Left(s)
  BY PastLemma
<1>2. /\ t.state = s.state /\ t.error = s.error /\ t.ignore_tdf = s.ignore_tdf
      /\ t.size = s.size /\ t.done = s.done /\ t.MTDR = s.MTDR
      /\ t.MRDR = s.MRDR /\ Clean(s)
  BY CleanLemma DEF Past, Steady
<1>3. Flowing(t) <=> Flowing(s)
  BY <1>1, <1>2 DEF Flowing
<1>4. Flowing(t) =>
        /\ InRead(gr, k)
        /\ t.done = <<>> \/ t.error = "ok" =>
             /\ gr[Len(gr)].bytes = t.done \o t.MRDR
             /\ Len(t.done) + Len(t.MRDR) + Left(t) = t.size
  BY <1>1, <1>2, <1>3 DEF ReadOf
<1>5. /\ \A j \in 1 .. Len(t.MTDR) :
           /\ t.MTDR[j].op = "RECEIVE" => t.MTDR[j].n = t.size
           /\ t.MTDR[j].op = "START" => t.MTDR[j].dir = "read" /\ t.MTDR[j].call = k
  BY <1>2 DEF ReadOf
<1> QED BY <1>1, <1>2, <1>4, <1>5 DEF ReadOf

\* The START of the read is acknowledged.
LEMMA ReadStarted ==
  ASSUME NEW s \in Drivers, NEW t, Past(s, t), s.MSR = {}, s.MRDR = <<>>,
         NEW fr \in Seq(Frames), NEW f \in Frames, NEW k, ReadOf(s, fr, k),
         Doing1(s, "START"), f.ack, f.dir = s.command[1].dir, f.call = s.command[1].call,
         f.bytes = <<>>
  PROVE  ReadOf(t, Append(fr, f), k)
<1> DEFINE gr == Append(fr, f)
<1>1. /\ \A op : (Has(t, op) <=> Has(s, op)) /\ ~Doing1(t, op)
      /\ Beginning(t) => Beginning(s)
      /\ Reads(t) => Reads(s)
  BY PastLemma
<1>2. /\ t.state = s.state /\ t.error = s.error /\ t.ignore_tdf = s.ignore_tdf
      /\ t.size = s.size /\ t.done = s.done /\ t.MTDR = s.MTDR
      /\ t.MRDR = s.MRDR /\ Clean(s)
  BY CleanLemma DEF Past, Steady
<1>3. /\ s.done = <<>> /\ ~Doing1(s, "RECEIVE")
      /\ f.dir = "read" /\ f.call = k
  BY DEF ReadOf, Beginning, Doing1
<1>4. gr # <<>> /\ gr[Len(gr)] = f
  <2>1. gr \in Seq(Frames) /\ Len(gr) = Len(fr) + 1 /\ gr[Len(fr) + 1] = f
    BY AppendLemma
  <2>2. Len(fr) \in Nat
    OBVIOUS
  <2> HIDE DEF gr
  <2>3. Len(gr) # 0
    BY <2>1, <2>2
  <2> QED BY <2>1, <2>3, StopLemma
<1> HIDE DEF gr
<1>5. InRead(gr, k) /\ gr[Len(gr)].bytes = <<>>
  BY <1>3, <1>4 DEF InRead
<1>6. t.done = <<>> /\ t.MRDR = <<>> /\ s.size \in Nat
  BY <1>2, <1>3 DEF Drivers
<1>7. Flowing(t) => Left(t) = t.size
  <2>1. Flowing(t) => Has(t, "RECEIVE")
    BY <1>1, <1>6 DEF Flowing, Reads
  <2> QED BY <2>1 DEF Left
<1>8. Flowing(t) =>
        /\ InRead(gr, k)
        /\ t.done = <<>> \/ t.error = "ok" =>
             /\ gr[Len(gr)].bytes = t.done \o t.MRDR
             /\ Len(t.done) + Len(t.MRDR) + Left(t) = t.size
  <2>1. <<>> \o <<>> = <<>> /\ Len(<<>>) = 0 /\ 0 + 0 + s.size = s.size
    BY <1>6
  <2> QED BY <1>2, <1>5, <1>6, <1>7, <2>1
<1>9. t.error = "ok" => Reads(t)
  BY <1>1, <1>2, <1>3 DEF ReadOf, Reads
<1>10. /\ \A j \in 1 .. Len(t.MTDR) :
            /\ t.MTDR[j].op = "RECEIVE" => t.MTDR[j].n = t.size
            /\ t.MTDR[j].op = "START" => t.MTDR[j].dir = "read" /\ t.MTDR[j].call = k
  BY <1>2 DEF ReadOf
<1> QED BY <1>1, <1>2, <1>6, <1>8, <1>9, <1>10 DEF ReadOf, gr

\* A STOP or the START of the read is sent after the number, or after a failure.
LEMMA SelectedPast ==
  ASSUME NEW s, NEW t, Past(s, t), s.MSR = {},
         NEW fr, NEW gr, NEW k, Selected(s, fr, k), Written(fr, k) => Written(gr, k),
         Doing1(s, "TRANSMIT") => Written(gr, k) \/ ~SendsOwn(s, k)
  PROVE  Selected(t, gr, k)
<1>1. /\ \A op : (Has(t, op) <=> Has(s, op)) /\ ~Doing1(t, op)
  BY PastLemma
<1>2. /\ t.error = s.error /\ t.done = s.done /\ t.MRDR = s.MRDR /\ Clean(s)
  BY CleanLemma DEF Past, Steady
<1> QED BY <1>1, <1>2 DEF Selected

LEMMA NumberPast ==
  ASSUME NEW s, NEW t, Past(s, t), s.MSR = {},
         NEW fr, NEW gr, NEW k, NumberOf(s, fr, k), Written(fr, k) => Written(gr, k),
         Doing1(s, "TRANSMIT") => Written(gr, k) \/ ~SendsOwn(s, k)
  PROVE  NumberOf(t, gr, k)
<1>1. /\ \A op : (Has(t, op) <=> Has(s, op)) /\ ~Doing1(t, op)
  BY PastLemma
<1>2. /\ t.state = s.state /\ t.error = s.error /\ t.ignore_tdf = s.ignore_tdf
      /\ t.size = s.size /\ t.done = s.done /\ t.buffer = s.buffer /\ t.MTDR = s.MTDR
      /\ Clean(s)
  BY CleanLemma DEF Past, Steady
<1> QED BY <1>1, <1>2 DEF NumberOf, SendsOwn, finished

\* A byte of a read comes in.
LEMMA ReadReceived ==
  ASSUME NEW s \in Drivers, NEW live, Own(s, live), s.MSR = {}, s.MRDR = <<>>,
         Doing1(s, "RECEIVE"), NEW byte \in InBytes, NEW fr \in Seq(Frames), NEW k,
         NEW t, Steady(s, t), t.MTDR = s.MTDR, t.MRDR = <<byte>>, t.MSR = s.MSR,
         \/ t.command = <<>> /\ s.command[1].n = 1
         \/ Doing1(t, "RECEIVE") /\ t.command[1].n = s.command[1].n - 1,
         ReadOf(s, fr, k)
  PROVE  InRead(fr, k) /\ ReadOf(t, [fr EXCEPT ![Len(fr)].bytes = Append(@, byte)], k)
<1> DEFINE gr == [fr EXCEPT ![Len(fr)].bytes = Append(@, byte)]
<1>1. /\ t.state = s.state /\ t.error = s.error /\ t.ignore_tdf = s.ignore_tdf
      /\ t.size = s.size /\ t.done = s.done /\ Clean(s) /\ t.MTDR = s.MTDR
  BY CleanLemma DEF Steady
<1>2. \A op : Has(t, op) <=> Has(s, op)
  BY <1>1 DEF Has
<1>3. ~Has(s, "START") /\ ~Has(s, "RECEIVE") /\ ~Doing1(s, "START") /\ ~Doing1(t, "START")
  BY DEF Own, Shape, Only, Has, Doing1
<1>4. Flowing(s)
  BY <1>1, <1>3 DEF Flowing, Beginning, Reads
<1>5. /\ InRead(fr, k)
      /\ s.done = <<>> \/ s.error = "ok" =>
           /\ fr[Len(fr)].bytes = s.done \o s.MRDR
           /\ Len(s.done) + Len(s.MRDR) + Left(s) = s.size
  BY <1>4 DEF ReadOf
<1>6. fr # <<>> /\ byte \in OutBytes \cup InBytes
  BY <1>5 DEF InRead
<1>7. /\ gr \in Seq(Frames) /\ Len(gr) = Len(fr) /\ gr # <<>>
      /\ LET f == fr[Len(fr)]  h == gr[Len(fr)]
         IN  /\ h.call = f.call /\ h.ack = f.ack /\ h.dir = f.dir
             /\ h.bytes = Append(f.bytes, byte)
  BY <1>6, LastGrown
<1> HIDE DEF gr
<1>8. InRead(gr, k)
  BY <1>5, <1>7 DEF InRead
<1>9. s.command[1].n \in Nat \ {0}
  <2>1. s.command[1] \in Commands
    BY CommandLemma DEF Doing1
  <2>2. s.command[1].op = "RECEIVE"
    BY DEF Doing1
  <2> QED BY <2>1, <2>2 DEF Commands
<1>10. Left(s) = s.command[1].n /\ Left(t) = s.command[1].n - 1
  BY <1>2, <1>3, <1>9 DEF Left, Doing1
<1>11. ASSUME s.done = <<>> \/ s.error = "ok"
       PROVE  /\ gr[Len(gr)].bytes = t.done \o t.MRDR
              /\ Len(t.done) + Len(t.MRDR) + Left(t) = t.size
  <2> DEFINE d == s.done  S == OutBytes \cup InBytes  n == s.command[1].n
  <2>1. d \in Seq(S) /\ byte \in S /\ s.size \in Nat
    BY <1>6 DEF Drivers
  <2>2. fr[Len(fr)].bytes = d \o <<>> /\ Len(d) + 0 + n = s.size
    <3>1. Len(s.MRDR) = 0
      OBVIOUS
    <3> QED BY <1>5, <1>10, <1>11, <3>1
  <2>3. n \in Nat /\ Left(t) = n - 1
    BY <1>9, <1>10
  <2> HIDE DEF d, S, n
  <2>4. d \o <<>> = d /\ Append(d, byte) = d \o <<byte>> /\ Len(d) \in Nat
    BY <2>1
  <2>5. Len(<<byte>>) = 1
    OBVIOUS
  <2>6. Len(d) + 1 + (n - 1) = s.size
    BY <2>1, <2>2, <2>3, <2>4
  <2> QED BY <1>1, <1>7, <2>2, <2>3, <2>4, <2>5, <2>6 DEF d
<1>12. t.MRDR # <<>>
  OBVIOUS
<1>13. Reads(t)
  BY <1>12 DEF Reads
<1>14. /\ \A j \in 1 .. Len(t.MTDR) :
             /\ t.MTDR[j].op = "RECEIVE" => t.MTDR[j].n = t.size
             /\ t.MTDR[j].op = "START" => t.MTDR[j].dir = "read" /\ t.MTDR[j].call = k
  BY <1>1 DEF ReadOf
<1>15. ~Beginning(t) /\ ~Has(t, "RECEIVE")
  BY <1>2, <1>3 DEF Beginning
<1> QED BY <1>1, <1>3, <1>5, <1>8, <1>11, <1>13, <1>14, <1>15 DEF ReadOf, gr

\* SCL is held low.
LEMMA HeldLemma ==
  ASSUME NEW s, NEW t, Steady(s, t), s.MSR = {}, t.MSR = {"PLTF"}, t.command = s.command,
         t.MBF = s.MBF, t.MTDR = s.MTDR, t.MRDR = s.MRDR, NEW fr, NEW k
  PROVE  /\ ReadOf(s, fr, k) => ReadOf(t, fr, k)
         /\ NumberOf(s, fr, k) => NumberOf(t, fr, k)
         /\ Selected(s, fr, k) => Selected(t, fr, k)
         /\ Reads(t) <=> Reads(s)
<1>1. /\ \A op : (Has(t, op) <=> Has(s, op)) /\ (Doing1(t, op) <=> Doing1(s, op))
      /\ (Beginning(t) <=> Beginning(s)) /\ (Reads(t) <=> Reads(s))
      /\ Clean(s) /\ Clean(t)
  BY SameCommands, CleanLemma
<1>2. /\ t.state = s.state /\ t.error = s.error /\ t.ignore_tdf = s.ignore_tdf
      /\ t.size = s.size /\ t.done = s.done /\ t.buffer = s.buffer
  BY DEF Steady
<1>3. /\ Left(t) = Left(s)
      /\ Flowing(t) <=> Flowing(s)
      /\ SendsOwn(t, k) <=> SendsOwn(s, k)
  BY <1>1, <1>2 DEF Left, Flowing, SendsOwn
<1>4. ASSUME ReadOf(s, fr, k)
      PROVE  ReadOf(t, fr, k)
  <2>1. Flowing(t) =>
          /\ InRead(fr, k)
          /\ t.done = <<>> \/ t.error = "ok" =>
               /\ fr[Len(fr)].bytes = t.done \o t.MRDR
               /\ Len(t.done) + Len(t.MRDR) + Left(t) = t.size
    BY <1>2, <1>3, <1>4 DEF ReadOf
  <2>2. /\ \A j \in 1 .. Len(t.MTDR) :
             /\ t.MTDR[j].op = "RECEIVE" => t.MTDR[j].n = t.size
             /\ t.MTDR[j].op = "START" => t.MTDR[j].dir = "read" /\ t.MTDR[j].call = k
    BY <1>2, <1>4 DEF ReadOf
  <2> QED BY <1>1, <1>2, <1>4, <2>1, <2>2 DEF ReadOf
<1>5. NumberOf(s, fr, k) => NumberOf(t, fr, k)
  BY <1>1, <1>2, <1>3 DEF NumberOf, finished
<1>6. Selected(s, fr, k) => Selected(t, fr, k)
  BY <1>1, <1>2, <1>3 DEF Selected
<1> QED BY <1>1, <1>4, <1>5, <1>6

-----------------------------------------------------------------------------
\* The frames stay as they are, but the one in which a byte is received.
FramesStay(s, fr, gr) ==
  /\ \A j : Written(fr, j) => Written(gr, j)
  /\ \A f \in DOMAIN fr : fr[f].dir = "read" =>
       \/ f \in DOMAIN gr /\ gr[f] = fr[f]
       \/ Doing1(s, "RECEIVE") /\ f = Len(fr)

\* A step of the interrupt or of the port carries the calls on.
Carries(s, fr, t, gr, k) ==
  /\ t.buffer = s.buffer /\ t.size = s.size
  /\ Reads(t) => Reads(s)
  /\ NumberOf(s, fr, k) => NumberOf(t, gr, k)
  /\ ReadOf(s, fr, k) => ReadOf(t, gr, k)
  /\ ReadOf(s, fr, k) /\ Selected(s, fr, k) => Selected(t, gr, k)
  /\ Refusal(s) => Refusal(t)
  /\ FramesStay(s, fr, gr)

LEMMA InterruptReads ==
  ASSUME NEW s \in Drivers, Bounded(s), NEW live, Own(s, live), Wants(s),
         Reads(Interrupted(s))
  PROVE  Reads(s)
<1> DEFINE t == Interrupted(s)
<1>1. /\ Untouched(s, t)
      /\ Told(s, t) \/ Took(s, t) \/ Queues(s, t) \/ Completes(s, t)
  BY ServedRead, ServedWrite
<1>2. Reads(t)
  OBVIOUS
<1> HIDE DEF t
<1>3. Doing1(t, "RECEIVE") => Doing1(s, "RECEIVE")
  BY <1>1 DEF Untouched, Doing1
<1>4. CASE s.MRDR # <<>>
  BY <1>4 DEF Reads
<1>5. CASE s.MRDR = <<>> /\ Told(s, t)
  <2>1. t.MRDR = <<>> /\ (t.MTDR = s.MTDR \/ t.MTDR = <<>> \/ t.MTDR = <<STOP>>)
    BY <1>5 DEF Told, Failed, Ceased, Unmoved
  <2>2. Has(t, "RECEIVE") => Has(s, "RECEIVE")
    BY <2>1, NoCommands DEF Has
  <2> QED BY <1>2, <1>3, <2>1, <2>2 DEF Reads
<1>6. CASE Queues(s, t)
  <2>1. t.MRDR = <<>> /\ ~Has(t, "RECEIVE")
    BY <1>6 DEF Queues, Has
  <2> QED BY <1>2, <1>3, <2>1 DEF Reads
<1>7. CASE Completes(s, t)
  <2>1. t.MRDR = <<>> /\ ~Has(t, "RECEIVE")
    BY <1>7, NoCommands DEF Completes
  <2> QED BY <1>2, <1>3, <2>1 DEF Reads
<1> QED BY <1>1, <1>4, <1>5, <1>6, <1>7 DEF Took

LEMMA InterruptCarries ==
  ASSUME NEW s \in Drivers, NEW fr, DriverInv(s, fr), NEW live, Own(s, live), Wants(s),
         Interrupted(s) \in Drivers, NEW k
  PROVE  Carries(s, fr, Interrupted(s), fr, k)
<1> DEFINE t == Interrupted(s)
<1>1. Bounded(s) /\ t \in Drivers
  BY DEF DriverInv
<1>2. Untouched(s, t)
  BY <1>1, ServedRead, ServedWrite
<1>3. Reads(t) => Reads(s)
  BY <1>1, InterruptReads
<1>4. NumberOf(s, fr, k) => NumberOf(t, fr, k)
  BY <1>1, NumberServed
<1>5. Refusal(s) => Refusal(t)
  BY <1>1, RefusalServed
<1>6. ASSUME ReadOf(s, fr, k)
      PROVE  ReadOf(t, fr, k) /\ (Selected(s, fr, k) => Selected(t, fr, k))
  <2>1. Told(s, t) \/ Took(s, t)
    BY <1>6, ServedRead DEF ReadOf
  <2> HIDE DEF t
  <2> QED BY <1>1, <1>2, <1>6, <2>1, ReadTold, ReadTook, SelectedServed
<1> HIDE DEF t
<1>7. Carries(s, fr, t, fr, k)
  BY <1>2, <1>3, <1>4, <1>5, <1>6 DEF Carries, Untouched, FramesStay
<1> QED BY <1>7 DEF t

\* What the port keeps of a call that was refused.
LEMMA RefusalSteady ==
  ASSUME NEW s, NEW t, Steady(s, t), s.MTDR # <<>> \/ s.command # <<>>, Refusal(s)
  PROVE  Refusal(t)
BY DEF Steady, Refusal, Still

\* The frames, when none or one byte or frame is added.
LEMMA FramesKept ==
  ASSUME NEW fr \in Seq(Frames), NEW s
  PROVE  /\ FramesStay(s, fr, fr)
         /\ \A f \in Frames : FramesStay(s, fr, Append(fr, f))
         /\ \A byte \in OutBytes \cup InBytes :
              fr # <<>> /\ (fr[Len(fr)].dir # "read" \/ Doing1(s, "RECEIVE")) =>
                FramesStay(s, fr, [fr EXCEPT ![Len(fr)].bytes = Append(@, byte)])
<1>1. ASSUME NEW f \in Frames
      PROVE  \A i \in DOMAIN fr : i \in DOMAIN Append(fr, f) /\ Append(fr, f)[i] = fr[i]
  BY <1>1
<1>2. ASSUME NEW byte \in OutBytes \cup InBytes, fr # <<>>
      PROVE  LET gr == [fr EXCEPT ![Len(fr)].bytes = Append(@, byte)]
             IN  \A i \in DOMAIN fr : i \in DOMAIN gr /\ (i # Len(fr) => gr[i] = fr[i])
  <2> DEFINE gr == [fr EXCEPT ![Len(fr)].bytes = Append(@, byte)]
  <2>1. /\ gr \in Seq(Frames) /\ Len(gr) = Len(fr)
        /\ \A i \in 1 .. Len(fr) : i # Len(fr) => gr[i] = fr[i]
    BY <1>2, LastGrown
  <2> HIDE DEF gr
  <2>2. \A i \in DOMAIN fr : i \in DOMAIN gr /\ (i # Len(fr) => gr[i] = fr[i])
    BY <2>1
  <2> QED BY <2>2 DEF gr
<1>3. \A j : Written(fr, j) =>
        /\ \A f \in Frames : Written(Append(fr, f), j)
        /\ \A byte \in OutBytes \cup InBytes :
             fr # <<>> => Written([fr EXCEPT ![Len(fr)].bytes = Append(@, byte)], j)
  BY WrittenStays
<1> QED BY <1>1, <1>2, <1>3 DEF FramesStay

\* The port takes or ends a command while no interrupt waits.
LEMMA TakenCarries ==
  ASSUME NEW s \in Drivers, NEW t, Taken(s, t), s.MSR = {}, NEW fr \in Seq(Frames), NEW k
  PROVE  Carries(s, fr, t, fr, k)
<1>1. t.buffer = s.buffer /\ t.size = s.size /\ t.MRDR = s.MRDR
  BY DEF Taken, Steady
<1>2. Reads(t) => Reads(s)
  BY <1>1, NextCommand DEF Reads
<1>3. /\ NumberOf(s, fr, k) => NumberOf(t, fr, k)
      /\ ReadOf(s, fr, k) => ReadOf(t, fr, k)
      /\ Selected(s, fr, k) => Selected(t, fr, k)
  BY NumberTaken, ReadTaken, SelectedTaken
<1>4. Refusal(s) => Refusal(t)
  BY RefusalSteady DEF Taken
<1> QED BY <1>1, <1>2, <1>3, <1>4, FramesKept DEF Carries

LEMMA FailedCarries ==
  ASSUME NEW s, NEW t, Past(s, t), ~Clean(t), NEW fr \in Seq(Frames), NEW gr, NEW k,
         FramesStay(s, fr, gr)
  PROVE  Carries(s, fr, t, gr, k)
<1>1. t.buffer = s.buffer /\ t.size = s.size
  BY DEF Past, Steady
<1>2. Reads(t) => Reads(s)
  BY PastLemma
<1>3. /\ NumberOf(s, fr, k) => NumberOf(t, gr, k)
      /\ ReadOf(s, fr, k) => ReadOf(t, gr, k)
      /\ Selected(s, fr, k) => Selected(t, gr, k)
  BY FailedPast DEF FramesStay
<1>4. Refusal(s) => Refusal(t)
  BY RefusalSteady DEF Past
<1> QED BY <1>1, <1>2, <1>3, <1>4 DEF Carries

LEMMA StopCarries ==
  ASSUME NEW s, NEW t, Past(s, t), s.MSR = {}, Clean(t), Doing1(s, "STOP"),
         NEW fr \in Seq(Frames), NEW k
  PROVE  Carries(s, fr, t, fr, k)
<1>1. t.buffer = s.buffer /\ t.size = s.size
  BY DEF Past, Steady
<1>2. Reads(t) => Reads(s)
  BY PastLemma
<1>3. ~Doing1(s, "START") /\ ~Doing1(s, "RECEIVE") /\ ~Doing1(s, "TRANSMIT")
  BY DEF Doing1
<1>4. /\ NumberOf(s, fr, k) => NumberOf(t, fr, k)
      /\ ReadOf(s, fr, k) => ReadOf(t, fr, k)
      /\ Selected(s, fr, k) => Selected(t, fr, k)
  BY <1>3, NumberPast, ReadPast, SelectedPast
<1>5. Refusal(s) => Refusal(t)
  BY RefusalSteady DEF Past
<1> QED BY <1>1, <1>2, <1>4, <1>5, FramesKept DEF Carries

LEMMA StartCarries ==
  ASSUME NEW s \in Drivers, NEW t, Past(s, t), s.MSR = {}, s.MRDR = <<>>,
         NEW fr \in Seq(Frames), NEW f \in Frames, NEW k,
         Doing1(s, "START"), f.ack, f.dir = s.command[1].dir, f.call = s.command[1].call,
         f.bytes = <<>>
  PROVE  Carries(s, fr, t, Append(fr, f), k)
<1>1. t.buffer = s.buffer /\ t.size = s.size
  BY DEF Past, Steady
<1>2. Reads(t) => Reads(s)
  BY PastLemma
<1>3. ~Doing1(s, "TRANSMIT")
  BY DEF Doing1
<1> DEFINE gr == Append(fr, f)
<1>4. FramesStay(s, fr, gr)
  BY FramesKept
<1>5. ReadOf(s, fr, k) => ReadOf(t, gr, k)
  BY ReadStarted
<1> HIDE DEF gr
<1>6. /\ NumberOf(s, fr, k) => NumberOf(t, gr, k)
      /\ Selected(s, fr, k) => Selected(t, gr, k)
  BY <1>3, <1>4, NumberPast, SelectedPast DEF FramesStay
<1>7. Refusal(s) => Refusal(t)
  BY RefusalSteady DEF Past
<1>8. Carries(s, fr, t, gr, k)
  BY <1>1, <1>2, <1>4, <1>5, <1>6, <1>7 DEF Carries
<1> QED BY <1>8 DEF gr

LEMMA ByteCarries ==
  ASSUME NEW s \in Drivers, NEW t, Past(s, t), s.MSR = {}, Clean(t),
         NEW fr \in Seq(Frames), Doing1(s, "TRANSMIT"), InWrite(s, fr), Writing(s, fr), NEW k
  PROVE  Carries(s, fr, t, [fr EXCEPT ![Len(fr)].bytes = Append(@, s.command[1].byte)], k)
<1> DEFINE byte == s.command[1].byte
           gr == [fr EXCEPT ![Len(fr)].bytes = Append(@, byte)]
           f == fr[Len(fr)]
           h == gr[Len(fr)]
<1>1. t.buffer = s.buffer /\ t.size = s.size
  BY DEF Past, Steady
<1>2. Reads(t) => Reads(s)
  BY PastLemma
<1>3. ~Doing1(s, "START") /\ ~Doing1(s, "RECEIVE")
  BY DEF Doing1
<1>4. byte \in OutBytes /\ byte[1] = <<f.call, "out">>
  <2>1. s.command # <<>> /\ s.command[1].op = "TRANSMIT"
    BY DEF Doing1
  <2>2. byte = <<<<f.call, "out">>, Len(f.bytes) + 1>>
    BY DEF Writing
  <2> QED BY <2>1, <2>2, CommandLemma
<1>5. fr # <<>> /\ f.dir = "write" /\ f.ack /\ s.MBF /\ f \in Frames /\ Len(fr) \in DOMAIN fr
  BY DEF InWrite
<1>6. FramesStay(s, fr, gr)
  BY <1>4, <1>5, FramesKept
<1>7. /\ gr \in Seq(Frames) /\ Len(gr) = Len(fr)
      /\ h.call = f.call /\ h.ack = f.ack /\ h.dir = f.dir
      /\ h.bytes = Append(f.bytes, byte)
  BY <1>4, <1>5, LastGrown
<1> HIDE DEF gr
<1>8. Written(gr, f.call)
  <2>1. f.bytes \in Seq(OutBytes \cup InBytes)
    BY <1>5 DEF Frames
  <2>2. Len(h.bytes) = Len(f.bytes) + 1 /\ Len(f.bytes) \in Nat
    BY <1>4, <1>7, <2>1, AppendLemma
  <2>3. Len(h.bytes) >= 1
    BY <2>2
  <2>4. Len(fr) \in DOMAIN gr
    BY <1>5, <1>7
  <2> QED BY <1>5, <1>7, <2>3, <2>4 DEF Written
<1>9. SendsOwn(s, k) => f.call = k
  BY <1>4, <1>5 DEF SendsOwn
<1> HIDE DEF f, byte, h
<1>10. SendsOwn(s, k) => Written(gr, k)
  BY <1>8, <1>9
<1>11. ~InRead(fr, k)
  BY <1>5 DEF InRead, f
<1>12. /\ NumberOf(s, fr, k) => NumberOf(t, gr, k)
       /\ ReadOf(s, fr, k) => ReadOf(t, gr, k)
       /\ Selected(s, fr, k) => Selected(t, gr, k)
  BY <1>3, <1>6, <1>10, <1>11, NumberPast, ReadPast, SelectedPast DEF FramesStay
<1>13. Refusal(s) => Refusal(t)
  BY RefusalSteady DEF Past
<1>14. Carries(s, fr, t, gr, k)
  BY <1>1, <1>2, <1>6, <1>12, <1>13 DEF Carries
<1> QED BY <1>14 DEF gr, byte

LEMMA ReceiveCarries ==
  ASSUME NEW s \in Drivers, NEW live, Own(s, live), s.MSR = {}, s.MRDR = <<>>,
         Doing1(s, "RECEIVE"), NEW byte \in InBytes, NEW fr \in Seq(Frames), fr # <<>>, NEW k,
         NEW t, Steady(s, t), t.MTDR = s.MTDR, t.MRDR = <<byte>>, t.MSR = s.MSR,
         \/ t.command = <<>> /\ s.command[1].n = 1
         \/ Doing1(t, "RECEIVE") /\ t.command[1].n = s.command[1].n - 1
  PROVE  Carries(s, fr, t, [fr EXCEPT ![Len(fr)].bytes = Append(@, byte)], k)
<1> DEFINE gr == [fr EXCEPT ![Len(fr)].bytes = Append(@, byte)]
<1>1. t.buffer = s.buffer /\ t.size = s.size
  BY DEF Steady
<1>2. Reads(s) /\ s.ignore_tdf /\ s.command # <<>>
  BY DEF Reads, Own, Shape, Doing1
<1>3. ~NumberOf(s, fr, k) /\ ~Refusal(s)
  BY <1>2 DEF NumberOf, Refusal
<1>4. FramesStay(s, fr, gr)
  BY FramesKept
<1>5. ReadOf(s, fr, k) => ReadOf(t, gr, k)
  BY ReadReceived
<1> HIDE DEF gr
<1>6. Selected(s, fr, k) => Selected(t, gr, k)
  BY <1>4 DEF Selected, FramesStay
<1>7. Carries(s, fr, t, gr, k)
  BY <1>1, <1>2, <1>3, <1>4, <1>5, <1>6 DEF Carries
<1> QED BY <1>7 DEF gr

LEMMA HeldCarries ==
  ASSUME NEW s, NEW t, Steady(s, t), s.MSR = {}, t.MSR = {"PLTF"}, t.command = s.command,
         t.MBF = s.MBF, t.MTDR = s.MTDR, t.MRDR = s.MRDR, s.command # <<>>,
         NEW fr \in Seq(Frames), NEW k
  PROVE  Carries(s, fr, t, fr, k)
<1>1. t.buffer = s.buffer /\ t.size = s.size
  BY DEF Steady
<1>2. Refusal(s) => Refusal(t)
  BY RefusalSteady
<1> QED BY <1>1, <1>2, HeldLemma, FramesKept DEF Carries

\* The interrupt, or the port while no interrupt waits.
LEMMA TransferCarries ==
  ASSUME IInv, OwnInv, Transfer, Undisturbed, ~late, NEW k
  PROVE  Carries(i2c, frames, i2c', frames', k)
<1> DEFINE s == i2c
           t == i2c'
           fr == frames
           live == Live
<1>1. s \in Drivers /\ Own(s, live) /\ DriverInv(s, fr) /\ fr \in Seq(Frames)
  BY DEF IInv, DriverInv, Truthful, OwnInv
<1>2. /\ AllServed(s) <=> ~Pending
      /\ Wants(s) <=> Pending
  BY DEF AllServed, Wants, Pending
<1>3. t \in Drivers
  BY TransferStep DEF IInv, DriverInv
<1>4. CASE interrupt_service_routine
  <2>1. t = Interrupted(s) /\ frames' = fr
    BY <1>4 DEF interrupt_service_routine, Interrupted
  <2>2. Wants(s)
    BY <1>2, <1>4 DEF interrupt_service_routine
  <2> HIDE DEF s, t, live, fr
  <2>3. Carries(s, fr, t, fr, k)
    BY <1>1, <1>3, <2>1, <2>2, InterruptCarries
  <2> QED BY <2>1, <2>3 DEF s, t, fr
<1>5. SUFFICES ASSUME Port, AllServed(s)
               PROVE  Carries(s, fr, t, frames', k)
  <2>1. Port => ~Pending
    BY Zenon DEF Port, TakeCommand, SendStart, SendByte, ReceiveByte, FifoError, SendStop,
           LoseArbitration, HoldPinLow, Doing, PortMayGoOn
  <2> QED BY <1>2, <1>4, <2>1 DEF Transfer
<1>6. s.MSR = {} /\ s.MRDR = <<>>
  BY <1>5 DEF AllServed
<1>7. \A op, dir : /\ Doing(op) => s.command # <<>> /\ Doing1(s, op)
                   /\ InFrame(dir) <=> /\ s.MBF /\ fr # <<>>
                                       /\ fr[Len(fr)].ack
                                       /\ fr[Len(fr)].dir = dir
  BY DEF Doing, Doing1, InFrame, Last
<1>8. InFrame("write") <=> InWrite(s, fr)
  BY <1>7 DEF InWrite
<1>9. FramesStay(s, fr, fr)
  BY <1>1, FramesKept
<1>10. CASE TakeCommand
  <2> DEFINE busy == s.MBF \/ Head(s.MTDR).op = "START"
             c == <<Head(s.MTDR)>>
             rest == Tail(s.MTDR)
  <2>1. t = [s EXCEPT !.command = c, !.MTDR = rest, !.MBF = busy]
        /\ s.command = <<>> /\ s.MTDR # <<>> /\ frames' = fr
    BY <1>10 DEF TakeCommand
  <2> HIDE DEF busy, c, rest
  <2>2. /\ t.command = c /\ t.MTDR = rest /\ t.MRDR = s.MRDR /\ t.MSR = s.MSR
        /\ Steady(s, t)
    BY <1>1, <2>1 DEF Drivers, Steady
  <2>3. Taken(s, t)
    BY <2>1, <2>2 DEF Taken, c, rest
  <2> HIDE DEF s, t, fr
  <2>4. Carries(s, fr, t, fr, k)
    BY <1>1, <1>6, <2>3, TakenCarries
  <2> QED BY <2>1, <2>4
<1>11. ASSUME NEW flags, NEW busy, Over(flags, busy), s.command # <<>>
       PROVE  Past(s, t) /\ t.MSR = flags
  <2> DEFINE msr == s.MSR \cup flags
  <2>1. t = [s EXCEPT !.command = <<>>, !.MSR = msr, !.MBF = busy]
    BY <1>11 DEF Over
  <2>2. msr = flags
    BY <1>6
  <2> HIDE DEF msr
  <2>3. /\ t.command = <<>> /\ t.MSR = flags /\ t.MTDR = s.MTDR /\ t.MRDR = s.MRDR
        /\ Steady(s, t)
    BY <1>1, <2>1, <2>2 DEF Drivers, Steady
  <2> QED BY <1>11, <2>3 DEF Past
<1>12. ASSUME NEW flag \in {"NDF", "ALF", "FEF"}, NEW busy, Over({flag}, busy), s.command # <<>>,
              FramesStay(s, fr, frames')
       PROVE  Carries(s, fr, t, frames', k)
  <2>1. Past(s, t) /\ t.MSR = {flag}
    BY <1>11, <1>12
  <2>2. ~Clean(t)
    BY <2>1 DEF Clean, Final, Failures
  <2> DEFINE gr == frames'
  <2>3. FramesStay(s, fr, gr)
    BY <1>12
  <2> HIDE DEF s, t, fr, gr
  <2>4. Carries(s, fr, t, gr, k)
    BY <1>1, <2>1, <2>2, <2>3, FailedCarries
  <2> QED BY <2>4 DEF gr
<1>13. CASE SendStart
  <2>1. PICK ack \in BOOLEAN :
          /\ frames' = Append(frames, [call |-> i2c.command[1].call, ack |-> ack,
                                       dir |-> i2c.command[1].dir, bytes |-> <<>>])
          /\ Over(IF ack THEN {} ELSE {"NDF"}, TRUE)
    BY <1>13 DEF SendStart
  <2> DEFINE f == [call |-> s.command[1].call, ack |-> ack,
                   dir |-> s.command[1].dir, bytes |-> <<>>]
  <2>2. Doing1(s, "START") /\ s.command # <<>>
    BY <1>7, <1>13 DEF SendStart
  <2>3. f \in Frames /\ f.ack = ack /\ f.dir = s.command[1].dir
        /\ f.call = s.command[1].call /\ f.bytes = <<>>
    <3>1. <<>> \in Seq(OutBytes \cup InBytes)
      OBVIOUS
    <3> QED BY <1>1, <2>2, <3>1, CommandLemma DEF Frames, Doing1
  <2> HIDE DEF f
  <2>4. frames' = Append(fr, f)
    BY <2>1 DEF f
  <2>5. CASE ack
    <3>1. Past(s, t)
      BY <1>11, <2>1, <2>2
    <3> HIDE DEF s, t, fr
    <3>2. Carries(s, fr, t, Append(fr, f), k)
      BY <1>1, <1>6, <2>2, <2>3, <2>5, <3>1, StartCarries
    <3> QED BY <2>4, <3>2
  <2>6. CASE ~ack
    <3>1. FramesStay(s, fr, frames')
      BY <1>1, <2>3, <2>4, FramesKept
    <3>2. Over({"NDF"}, TRUE)
      BY <2>1, <2>6
    <3> QED BY <1>12, <2>2, <3>1, <3>2
  <2> QED BY <2>5, <2>6
<1>14. CASE SendByte
  <2>1. PICK ack \in BOOLEAN :
          /\ ack => Transferred(i2c.command[1].byte) /\ Over({}, TRUE)
          /\ ~ack => UNCHANGED frames /\ Over({"NDF"}, TRUE)
    BY Zenon, <1>14 DEF SendByte
  <2>2. Doing1(s, "TRANSMIT") /\ s.command # <<>> /\ InWrite(s, fr)
    <3>1. Doing("TRANSMIT") /\ InFrame("write")
      BY Zenon, <1>14 DEF SendByte
    <3> QED BY <1>7, <1>8, <3>1
  <2>3. CASE ack
    <3>1. Past(s, t) /\ t.MSR = {}
      BY <1>11, <2>1, <2>2, <2>3
    <3>2. Clean(t) /\ Writing(s, fr)
      BY <1>1, <3>1, CleanLemma DEF DriverInv, Queued
    <3>3. frames' = [fr EXCEPT ![Len(fr)].bytes = Append(@, s.command[1].byte)]
      BY <2>1, <2>3 DEF Transferred
    <3> DEFINE gr == frames'
    <3> HIDE DEF s, t, fr, gr
    <3>4. Carries(s, fr, t, [fr EXCEPT ![Len(fr)].bytes = Append(@, s.command[1].byte)], k)
      BY <1>1, <1>6, <2>2, <3>1, <3>2, ByteCarries
    <3> QED BY <3>3, <3>4 DEF gr
  <2>4. CASE ~ack
    <3>1. FramesStay(s, fr, frames') /\ Over({"NDF"}, TRUE)
      BY <1>9, <2>1, <2>4
    <3> QED BY <1>12, <2>2, <3>1
  <2> QED BY <2>3, <2>4
<1>15. CASE FifoError
  <2>1. Over({"FEF"}, s.MBF) /\ s.command # <<>> /\ frames' = fr
    BY <1>7, <1>15 DEF FifoError
  <2> QED BY <1>9, <1>12, <2>1
<1>16. CASE SendStop
  <2> DEFINE flags == IF s.MBF THEN {"SDF"} ELSE {}
  <2>1. Over(flags, FALSE) /\ s.command # <<>> /\ Doing1(s, "STOP") /\ frames' = fr
    BY <1>7, <1>16 DEF SendStop
  <2>2. flags = {} \/ flags = {"SDF"}
    OBVIOUS
  <2> HIDE DEF flags
  <2>3. Past(s, t) /\ t.MSR = flags
    BY <1>11, <2>1
  <2>4. Clean(t)
    BY <2>2, <2>3, CleanLemma
  <2> HIDE DEF s, t, fr
  <2>5. Carries(s, fr, t, fr, k)
    BY <1>1, <1>6, <2>1, <2>3, <2>4, StopCarries
  <2> QED BY <2>1, <2>5
<1>17. CASE LoseArbitration
  <2>1. Over({"ALF"}, FALSE) /\ s.command # <<>> /\ frames' = fr
    BY <1>7, <1>17 DEF LoseArbitration
  <2> QED BY <1>9, <1>12, <2>1
<1>18. CASE ReceiveByte
  <2> DEFINE byte == <<Len(frames), Len(Last(frames).bytes) + 1>>
             n == i2c.command[1].n
             c == IF n = 1 THEN <<>> ELSE <<[i2c.command[1] EXCEPT !.n = n - 1]>>
             q == Append(s.MRDR, byte)
  <2>1. /\ Doing1(s, "RECEIVE") /\ s.command # <<>> /\ t = [s EXCEPT !.MRDR = q, !.command = c]
        /\ frames' = [frames EXCEPT ![Len(frames)].bytes = Append(@, byte)] /\ fr # <<>>
    BY <1>7, <1>18 DEF ReceiveByte, Transferred
  <2>2. byte \in InBytes
    <3>1. fr[Len(fr)] \in Frames
      BY <1>1, <2>1
    <3>2. Len(fr[Len(fr)].bytes) \in Nat /\ Len(fr) \in Nat
      BY <1>1, <3>1 DEF Frames
    <3> QED BY <3>2 DEF InBytes, Last
  <2>3. \/ c = <<>> /\ n = 1
        \/ c # <<>> /\ c[1].op = "RECEIVE" /\ c[1].n = n - 1
    <3> DEFINE d == s.command[1]
               e == [d EXCEPT !.n = n - 1]
    <3>1. d \in Commands /\ d.op = "RECEIVE"
      BY <1>1, <2>1, CommandLemma DEF Doing1
    <3>2. d \in [op : {"RECEIVE"}, n : Nat \ {0}]
      BY <3>1 DEF Commands
    <3> HIDE DEF d, n
    <3>3. e.op = "RECEIVE" /\ e.n = n - 1
      BY <3>2
    <3>4. (c = <<>> /\ n = 1) \/ c = <<e>>
      BY DEF d
    <3> QED BY <3>3, <3>4
  <2> HIDE DEF c, byte
  <2>4. q = <<byte>>
    BY <1>6
  <2> HIDE DEF q
  <2>5. /\ t.MRDR = q /\ t.command = c /\ t.MTDR = s.MTDR /\ t.MSR = s.MSR /\ Steady(s, t)
    BY <1>1, <2>1 DEF Drivers, Steady
  <2>6. \/ t.command = <<>> /\ s.command[1].n = 1
        \/ Doing1(t, "RECEIVE") /\ t.command[1].n = s.command[1].n - 1
    BY <2>3, <2>5 DEF Doing1
  <2>7. frames' = [fr EXCEPT ![Len(fr)].bytes = Append(@, byte)]
    BY <2>1
  <2> DEFINE gr == frames'
  <2> HIDE DEF s, t, fr, n, gr
  <2>8. Carries(s, fr, t, [fr EXCEPT ![Len(fr)].bytes = Append(@, byte)], k)
    BY <1>1, <1>6, <2>1, <2>2, <2>4, <2>5, <2>6, ReceiveCarries
  <2> QED BY <2>7, <2>8 DEF gr
<1>19. CASE HoldPinLow
  <2> DEFINE msr == s.MSR \cup {"PLTF"}
  <2>1. t = [s EXCEPT !.MSR = msr] /\ s.command # <<>> /\ frames' = fr
    BY <1>19 DEF HoldPinLow
  <2>2. msr = {"PLTF"}
    BY <1>6
  <2> HIDE DEF msr
  <2>3. /\ t.MSR = {"PLTF"} /\ t.command = s.command /\ t.MBF = s.MBF
        /\ t.MTDR = s.MTDR /\ t.MRDR = s.MRDR /\ Steady(s, t)
    BY <1>1, <2>1, <2>2 DEF Drivers, Steady
  <2> HIDE DEF s, t, fr
  <2>4. Carries(s, fr, t, fr, k)
    BY <1>1, <1>6, <2>1, <2>3, HeldCarries
  <2> QED BY <2>1, <2>4
<1> QED BY <1>5, <1>10, <1>13, <1>14, <1>15, <1>16, <1>17, <1>18, <1>19 DEF Port

\* What a call that does not begin a transfer leaves of the FIFO.
LEMMA NotBegun ==
  ASSUME NEW s \in Drivers, NEW was, Own(s, was), AllServed(s), finished(s), ~CanStart(s),
         NEW d, NEW k
  PROVE  LET t == start(s, d, k)
         IN  /\ Abandoned(t) /\ ~Reads(t)
             /\ t.state = "starting" /\ t.MSR = {} /\ t.command = s.command /\ t.MBF = s.MBF
<1>1. s.MRDR = <<>> /\ s.MTDR # <<>> /\ s.MSR = {}
  BY DEF AllServed, CanStart
<1>2. /\ ~s.MBF /\ (s.command = <<>> \/ (Doing1(s, "TRANSMIT") /\ s.done # <<>>))
      /\ ~Reads(s)
  BY <1>1 DEF Own, Quiet
<1> DEFINE ignore == d = "read"
           t == [s EXCEPT !.TDIE = FALSE, !.MRDR = <<>>, !.MTDR = <<>>,
                          !.ignore_tdf = ignore,
                          !.error = "master_fifos_not_empty", !.state = "starting"]
<1>3. start(s, d, k) = t
  BY <1>1, <1>2 DEF start, abort_transaction_async, Drivers
<1> HIDE DEF ignore
<1>4. /\ t.state = "starting" /\ t.MBF = s.MBF /\ t.MTDR = <<>> /\ t.MRDR = <<>>
      /\ t.MSR = s.MSR /\ t.command = s.command /\ t.TDIE = FALSE /\ t.done = s.done
  BY DEF Drivers
<1> HIDE DEF t
<1>5. Abandoned(t)
  BY <1>1, <1>2, <1>4 DEF Abandoned, Doing1, Still
<1>6. ~Reads(t)
  BY <1>2, <1>4, EmptyFifo DEF Reads, Doing1
<1> QED BY <1>1, <1>3, <1>4, <1>5, <1>6

\* A call whose FIFO holds the START it has begun with, and no RECEIVE.
LEMMA BegunWrite ==
  ASSUME NEW s \in Drivers, NEW was, Own(s, was), AllServed(s), finished(s),
         NEW k \in Nat, NEW n \in Nat, NEW stop
  PROVE  LET t == write_async(s, k, n, stop)
         IN  /\ ~Reads(t)
             /\ \A fr : n > 0 => Abandoned(t) \/ NumberOf(t, fr, k)
<1> DEFINE b == start(s, "write", k)
           c == Start("write", k)
<1>1. CASE ~CanStart(s)
  BY <1>1, NotBegun DEF write_async
<1>2. ASSUME CanStart(s)
      PROVE  /\ b \in Drivers /\ b.MTDR = <<c>> /\ b.MRDR = <<>>
             /\ ~b.ignore_tdf /\ b.state = "starting" /\ b.command = s.command
  BY <1>2, StartLemma DEF Directions
<1> HIDE DEF b
<1>3. c \in Commands /\ c.op = "START"
  BY DEF Start, Commands, Directions
<1> HIDE DEF c
<1>4. ~Doing1(s, "RECEIVE")
  BY DEF Own, Quiet, Reads
<1>5. CASE CanStart(s) /\ n = 0
  <2> DEFINE q == Append(b.MTDR, STOP)
             t == [b EXCEPT !.ignore_tdf = TRUE, !.MTDR = q]
  <2>1. q = <<c>> \o <<STOP>>
    BY <1>2, <1>3, <1>5, ShortLemma, StopLemma
  <2>2. Opens(q, c.call, 0)
    <3>1. Opens(<<c>> \o <<STOP>>, c.call, 0)
      BY <1>3, OpensLemma
    <3> QED BY <2>1, <3>1
  <2> HIDE DEF q
  <2>3. t.MTDR = q /\ t.MRDR = <<>> /\ t.command = s.command
    BY <1>2, <1>5 DEF Drivers
  <2> HIDE DEF t
  <2>4. ~Has(t, "RECEIVE")
    <3>1. \A j \in 1 .. Len(q) : j = 1 \/ j \in 2 .. Len(q)
      BY <2>2 DEF Opens
    <3> QED BY <2>2, <2>3, <3>1 DEF Opens, Has
  <2>5. ~Reads(t)
    BY <1>4, <2>3, <2>4 DEF Reads, Doing1
  <2> QED BY <1>5, <2>5 DEF write_async, t, q, b
<1>6. CASE CanStart(s) /\ n # 0
  <2> DEFINE t == [initialise(b, <<k, "out">>, n)
                     EXCEPT !.stop_on_completion = stop, !.TDIE = TRUE]
  <2>1. /\ t.MTDR = b.MTDR /\ t.MRDR = b.MRDR /\ t.ignore_tdf = b.ignore_tdf
        /\ t.buffer = <<k, "out">> /\ t.state = b.state /\ t.size = n /\ t.done = <<>>
        /\ t.command = b.command
    BY <1>2, <1>6 DEF Drivers, initialise
  <2> HIDE DEF t
  <2>2. /\ t.MTDR = <<c>> /\ Len(t.MTDR) = 1 /\ t.MTDR[1] = c
    <3>1. t.MTDR = <<c>>
      BY <1>2, <1>6, <2>1
    <3>2. Len(<<c>>) = 1 /\ <<c>>[1] = c
      BY <1>3, ShortLemma
    <3> QED BY <3>1, <3>2
  <2>3. \A j \in 1 .. Len(t.MTDR) : t.MTDR[j] = c
    BY <2>2
  <2>4. ~Reads(t)
    BY <1>2, <1>3, <1>4, <1>6, <2>1, <2>3 DEF Reads, Doing1, Has
  <2>5. ASSUME NEW fr
        PROVE  NumberOf(t, fr, k)
    <3>1. t.MTDR # <<>> /\ t.size > 0 /\ ~t.ignore_tdf /\ ~finished(t)
      BY <1>2, <1>6, <2>1, <2>2 DEF finished, BusyStates
    <3> QED BY <1>3, <2>1, <2>3, <3>1 DEF NumberOf
  <2> QED BY <1>6, <2>4, <2>5 DEF write_async, t, b
<1> QED BY <1>1, <1>5, <1>6

\* read_async() on a port that can start: what the caller's read begins with.
LEMMA BegunRead ==
  ASSUME NEW s \in Drivers, NEW was, Own(s, was), AllServed(s), finished(s), CanStart(s),
         NEW k \in Nat, NEW n \in 1 .. MAX_MASTER_READ_LENGTH, NEW stop
  PROVE  LET t == read_async(s, k, n, stop)
         IN  /\ t.buffer = <<k, "in">> /\ t.size = n /\ t.done = <<>> /\ t.MRDR = <<>>
             /\ t.ignore_tdf /\ t.state = "starting" /\ t.MSR = {}
             /\ t.MBF = s.MBF /\ t.command = s.command
             /\ Opens(t.MTDR, k, n) /\ t.MTDR[1].dir = "read" /\ Has(t, "RECEIVE")
<1> USE MasterAssumption
<1> DEFINE b == start(s, "read", k)
           c == Start("read", k)
           r == [op |-> "RECEIVE", n |-> n]
           receive == IF n = 0 THEN <<>> ELSE <<r>>
           end == IF n = 0 \/ stop THEN <<STOP>> ELSE <<>>
           q == b.MTDR \o receive \o end
           asked == [b EXCEPT !.MTDR = q]
           t == initialise(asked, <<k, "in">>, n)
<1>1. n \in Nat /\ n > 0 /\ n # 0 /\ ~(n > MAX_MASTER_READ_LENGTH)
  OBVIOUS
<1>2. /\ b \in Drivers /\ b.MTDR = <<c>> /\ b.MRDR = <<>>
      /\ b.ignore_tdf /\ b.state = "starting" /\ b.MSR = {}
      /\ b.MBF = s.MBF /\ b.command = s.command
  BY StartLemma DEF Directions
<1> HIDE DEF b
<1>3. c \in Commands /\ c.op = "START" /\ c.call = k /\ c.dir = "read"
  BY DEF Start, Commands, Directions
<1> HIDE DEF c
<1>4. r \in Commands /\ r.op = "RECEIVE"
  BY <1>1 DEF Commands
<1>5. Opens(q, k, n) /\ q[1] = c /\ Len(q) > 1 /\ q[2] = r
  <2> DEFINE a == <<c>> \o <<r>>
  <2>1. Opens(a, k, n) /\ Opens(a \o <<STOP>>, k, n)
    BY <1>1, <1>3, OpensLemma
  <2> HIDE DEF r
  <2>2. b.MTDR \o receive = a
    BY <1>1, <1>2
  <2>3. a \in Seq(Commands) /\ Len(a) = 2 /\ a[1] = c /\ a[2] = r
    BY <1>3, <1>4
  <2> HIDE DEF a
  <2>4. a \o <<>> = a
    BY <2>3
  <2>5. q = a \/ q = a \o <<STOP>>
    BY <2>2, <2>4
  <2>6. /\ Len(a \o <<STOP>>) = 3
        /\ (a \o <<STOP>>)[1] = c /\ (a \o <<STOP>>)[2] = r
    <3> DEFINE d == a \o <<STOP>>
    <3>0. ASSUME NEW p \in Seq(Commands), NEW e \in Commands
          PROVE  /\ Len(p \o <<e>>) = Len(p) + 1
                 /\ \A j \in 1 .. Len(p) : (p \o <<e>>)[j] = p[j]
      OBVIOUS
    <3>1. Len(d) = Len(a) + 1 /\ \A j \in 1 .. Len(a) : d[j] = a[j]
      BY <2>3, <3>0, StopLemma
    <3> HIDE DEF d
    <3>2. Len(d) = 3 /\ d[1] = c /\ d[2] = r
      BY <2>3, <3>1
    <3> QED BY <3>2 DEF d
  <2> HIDE DEF q
  <2>7. CASE q = a
    <3>1. Len(q) = 2 /\ q[1] = c /\ q[2] = r
      BY <2>3, <2>7
    <3> QED BY <2>1, <2>7, <3>1
  <2>8. CASE q = a \o <<STOP>>
    BY <2>1, <2>6, <2>8
  <2> QED BY <2>5, <2>7, <2>8
<1> HIDE DEF q, r
<1>6. /\ asked \in Drivers /\ asked.MTDR = q /\ asked.MRDR = <<>>
      /\ asked.ignore_tdf /\ asked.state = "starting" /\ asked.MSR = {}
      /\ asked.MBF = s.MBF /\ asked.command = s.command
  BY <1>2, <1>5 DEF Drivers, Opens
<1> HIDE DEF asked
<1>7. /\ t.MTDR = q /\ t.MRDR = <<>> /\ t.size = n /\ t.done = <<>>
      /\ t.ignore_tdf /\ t.buffer = <<k, "in">> /\ t.state = "starting" /\ t.MSR = {}
      /\ t.MBF = s.MBF /\ t.command = s.command
  BY <1>6 DEF Drivers, initialise
<1> HIDE DEF t
<1>8. Has(t, "RECEIVE")
  <2>1. 2 \in 1 .. Len(q)
    BY <1>5 DEF Opens
  <2> QED BY <1>4, <1>5, <1>7, <2>1 DEF Has
<1>9. read_async(s, k, n, stop) = t
  BY <1>1 DEF read_async, t, asked, q, receive, end, r, b
<1> QED BY <1>3, <1>5, <1>7, <1>8, <1>9

\* A read begins, with the number written or on its way if it follows a write of one.
LEMMA ReadBegins ==
  ASSUME NEW s \in Drivers, NEW was, Own(s, was), AllServed(s), finished(s),
         NEW k \in Nat, NEW n \in 1 .. MAX_MASTER_READ_LENGTH, NEW stop
  PROVE  LET t == read_async(s, k, n, stop)
         IN  \/ Abandoned(t)
             \/ /\ t.buffer = <<k, "in">> /\ t.size = n
                /\ \A fr : /\ ReadOf(t, fr, k)
                           /\ NumberOf(s, fr, k) /\ s.error = "ok" => Selected(t, fr, k)
<1> DEFINE t == read_async(s, k, n, stop)
<1>1. CASE ~CanStart(s)
  <2>1. n # 0 /\ ~(n > MAX_MASTER_READ_LENGTH)
    BY MasterAssumption
  <2>2. Abandoned(start(s, "read", k))
    BY <1>1, NotBegun
  <2> QED BY <1>1, <2>1, <2>2 DEF read_async
<1>2. CASE CanStart(s)
  <2>1. /\ t.buffer = <<k, "in">> /\ t.size = n /\ t.done = <<>> /\ t.MRDR = <<>>
        /\ t.ignore_tdf /\ t.state = "starting" /\ t.MSR = {}
        /\ t.MBF = s.MBF /\ t.command = s.command
        /\ Opens(t.MTDR, k, n) /\ t.MTDR[1].dir = "read" /\ Has(t, "RECEIVE")
    BY <1>2, BegunRead
  <2> SUFFICES \/ Abandoned(t)
               \/ /\ t.buffer = <<k, "in">> /\ t.size = n
                  /\ \A fr : /\ ReadOf(t, fr, k)
                             /\ NumberOf(s, fr, k) /\ s.error = "ok" => Selected(t, fr, k)
    OBVIOUS
  <2> HIDE DEF t
  <2>2. ~Doing1(s, "START") /\ ~Doing1(s, "RECEIVE")
    BY DEF Own, Quiet, Reads
  <2>3. ~Doing1(t, "START") /\ ~Doing1(t, "RECEIVE")
        /\ (Doing1(t, "TRANSMIT") <=> Doing1(s, "TRANSMIT"))
    BY <2>1, <2>2 DEF Doing1
  <2>4. Reads(t)
    BY <2>1 DEF Reads
  <2>5. Beginning(t)
    <3>1. 1 \in 1 .. Len(t.MTDR) /\ t.MTDR[1].op = "START"
      BY <2>1 DEF Opens
    <3> QED BY <3>1 DEF Beginning, Has
  <2>6. ~Flowing(t)
    BY <2>5 DEF Flowing
  <2>7. \A j \in 1 .. Len(t.MTDR) :
          /\ t.MTDR[j].op = "RECEIVE" => t.MTDR[j].n = t.size
          /\ t.MTDR[j].op = "START" => t.MTDR[j].dir = "read" /\ t.MTDR[j].call = k
    <3>1. \A j \in 1 .. Len(t.MTDR) : j = 1 \/ j \in 2 .. Len(t.MTDR)
      BY <2>1 DEF Opens
    <3> QED BY <2>1, <3>1 DEF Opens
  <2>8. \A fr : ReadOf(t, fr, k)
    <3>1. t.size > 0
      BY <2>1
    <3> QED BY <2>1, <2>3, <2>4, <2>6, <2>7, <3>1 DEF ReadOf
  <2>9. ASSUME NEW fr, NumberOf(s, fr, k), s.error = "ok"
        PROVE  Selected(t, fr, k)
    <3>1. s.done # <<>> /\ s.MTDR = <<>> /\ Clean(s)
      BY <1>2, <2>9 DEF NumberOf, CanStart, AllServed, Clean
    <3>2. ~Has(s, "TRANSMIT")
      BY <3>1, EmptyFifo DEF Has
    <3>3. SendsOwn(s, k) /\ (Written(fr, k) \/ Doing1(s, "TRANSMIT"))
      BY <2>9, <3>1, <3>2 DEF NumberOf
    <3>4. SendsOwn(t, k)
      BY <2>1, <2>3, <3>3 DEF SendsOwn
    <3> QED BY <2>1, <2>3, <3>3, <3>4 DEF Selected
  <2> QED BY <2>1, <2>8, <2>9
<1> QED BY <1>1, <1>2

\* The call that is being made has begun a read.
Asking == /\ call # NoCall /\ call.phase = "transfer"
          /\ call.asked.op = "read" /\ call.asked.n > 0

\* A read waits for its register number.
NumberComes ==
  /\ call.asked.by = "device" /\ call.asked.op = "read"
  /\ Abandoned(i2c) \/ NumberOf(i2c, frames, Number)

\* A read is given up, or was refused, or its bytes come.
ReadComes ==
  \/ Abandoned(i2c) \/ Refusal(i2c)
  \/ /\ i2c.buffer = <<Number, "in">> /\ ReadOf(i2c, frames, Number)
     /\ call.asked.by = "device" =>
          i2c.size = call.asked.n /\ Selected(i2c, frames, Number)

\* What call k returned is what a frame of its own brought.
Backed(r, fr, k) ==
  r.code = 0 /\ r.asked.op = "read" /\ r.asked.n > 0 =>
    /\ r.asked.by = "device" => Written(fr, k) /\ Len(r.data) = r.asked.n
    /\ \E f \in DOMAIN fr :
         fr[f].call = k /\ fr[f].dir = "read" /\ r.data = fr[f].bytes

WholeInv ==
  Undisturbed =>
    /\ Reads(i2c) => Asking
    /\ call # NoCall => (call.phase = "register" => NumberComes)
    /\ Asking => ReadComes
    /\ \A k \in DOMAIN results : Backed(results[k], frames, k)

\* The last frame, while its bytes are received, belongs to the call being made.
LEMMA ReceivesOwn ==
  ASSUME IInv, OwnInv, WholeInv, Undisturbed, Doing1(i2c, "RECEIVE")
  PROVE  InRead(frames, Number)
<1>1. Reads(i2c) /\ Own(i2c, Live) /\ DriverInv(i2c, frames)
  BY DEF Reads, OwnInv, IInv
<1>2. Asking /\ ReadComes
  BY <1>1 DEF WholeInv
<1>3. i2c.ignore_tdf /\ ~Has(i2c, "START") /\ ~Doing1(i2c, "START")
  BY <1>1 DEF Own, Shape, Only, Has, Doing1
<1>4. ReadOf(i2c, frames, Number)
  BY <1>2, <1>3 DEF ReadComes, Abandoned, Refusal
<1>5. Clean(i2c)
  BY <1>1 DEF DriverInv, Consistent, Doing1, Clean
<1>6. Flowing(i2c)
  BY <1>1, <1>3, <1>5 DEF Flowing, Beginning
<1> QED BY <1>4, <1>6 DEF ReadOf

LEMMA WholeTransfer ==
  ASSUME IInv, OwnInv, WholeInv, Transfer, Undisturbed, ~late
  PROVE  WholeInv'
<1> DEFINE s == i2c
           t == i2c'
           fr == frames
           gr == frames'
           k == Number
<1>1. UNCHANGED <<call, results>> /\ results \in Seq(Results)
  BY DEF Transfer, IInv, CallerInv
<1>2. Number' = Number /\ (Asking' <=> Asking)
  BY <1>1 DEF Number, Asking
<1>3. Carries(s, fr, t, gr, k)
  BY TransferCarries
<1>4. Abandoned(s) => Abandoned(t)
  BY AbandonedStays
<1>5. Reads(i2c') => Asking'
  BY <1>2, <1>3 DEF Carries, WholeInv
<1>6. call # NoCall => (call.phase = "register" => NumberComes')
  BY <1>1, <1>2, <1>3, <1>4 DEF Carries, WholeInv, NumberComes
<1>7. Asking => ReadComes'
  BY <1>1, <1>2, <1>3, <1>4 DEF Carries, WholeInv, ReadComes
<1>8. ASSUME NEW j \in DOMAIN results
      PROVE  Backed(results[j], gr, j)
  <2> DEFINE r == results[j]
  <2> SUFFICES ASSUME r.code = 0 /\ r.asked.op = "read" /\ r.asked.n > 0
               PROVE  /\ r.asked.by = "device" => Written(gr, j) /\ Len(r.data) = r.asked.n
                      /\ \E f \in DOMAIN gr :
                           gr[f].call = j /\ gr[f].dir = "read" /\ r.data = gr[f].bytes
    BY DEF Backed
  <2>1. Backed(r, fr, j)
    BY DEF WholeInv
  <2>2. PICK f \in DOMAIN fr : fr[f].call = j /\ fr[f].dir = "read" /\ r.data = fr[f].bytes
    BY <2>1 DEF Backed
  <2>3. ~(Doing1(s, "RECEIVE") /\ f = Len(fr))
    <3>1. j # k
      BY <1>1 DEF Number
    <3> QED BY <2>2, <3>1, ReceivesOwn DEF InRead
  <2>4. f \in DOMAIN gr /\ gr[f] = fr[f]
    BY <1>3, <2>2, <2>3 DEF Carries, FramesStay
  <2>5. r.asked.by = "device" => Written(gr, j) /\ Len(r.data) = r.asked.n
    BY <1>3, <2>1 DEF Carries, FramesStay, Backed
  <2> QED BY <2>2, <2>4, <2>5
<1> QED BY <1>1, <1>2, <1>5, <1>6, <1>7, <1>8 DEF WholeInv

\* A call ends with success: the whole of its frame is in its buffer.
LEMMA WholeEnds ==
  ASSUME IInv, OwnInv, WholeInv, Undisturbed, ~Pending, finished(i2c), Asking,
         i2c.error = "ok"
  PROVE  /\ i2c.buffer = <<Number, "in">>
         /\ call.asked.by = "device" =>
              Written(frames, Number) /\ Len(i2c.done) = call.asked.n
         /\ \E f \in DOMAIN frames : /\ frames[f].call = Number /\ frames[f].dir = "read"
                                     /\ i2c.done = frames[f].bytes
<1> DEFINE s == i2c
           fr == frames
           k == Number
<1>1. s \in Drivers /\ Own(s, Live) /\ fr \in Seq(Frames)
  BY DEF IInv, DriverInv, OwnInv, Truthful
<1>2. s.MSR = {} /\ s.MRDR = <<>>
  BY DEF Pending
<1>3. /\ ~Doing1(s, "START") /\ ~Has(s, "START") /\ ~Has(s, "RECEIVE")
      /\ ~Doing1(s, "RECEIVE") /\ ~Reads(s)
  BY <1>1 DEF Own, Quiet, Reads
<1>4. ~Abandoned(s) /\ ~Refusal(s)
  BY DEF Abandoned, Refusal, finished, BusyStates
<1>5. /\ s.buffer = <<k, "in">> /\ ReadOf(s, fr, k)
      /\ call.asked.by = "device" => s.size = call.asked.n /\ Selected(s, fr, k)
  BY <1>4 DEF WholeInv, ReadComes
<1>6. Clean(s) /\ ~Beginning(s) /\ Left(s) = 0
  BY <1>2, <1>3 DEF Clean, Beginning, Left
<1>7. s.done # <<>>
  BY <1>3, <1>5, <1>6 DEF ReadOf
<1>8. Flowing(s)
  BY <1>6, <1>7 DEF Flowing
<1>9. /\ InRead(fr, k) /\ fr[Len(fr)].bytes = s.done \o s.MRDR
      /\ Len(s.done) + Len(s.MRDR) + Left(s) = s.size
  BY <1>5, <1>8 DEF ReadOf
<1>10. s.done \in Seq(OutBytes \cup InBytes)
  BY <1>1 DEF Drivers
<1> HIDE DEF s, fr, k
<1>11. s.done \o <<>> = s.done /\ Len(s.done) \in Nat
  BY <1>10
<1>12. fr[Len(fr)].bytes = s.done
  BY <1>2, <1>9, <1>11
<1>13. Len(s.done) = s.size
  <2>1. Len(s.MRDR) = 0
    BY <1>2
  <2> QED BY <1>6, <1>9, <1>11, <2>1
<1>14. Len(fr) \in DOMAIN fr
  <2>1. fr # <<>>
    BY <1>9 DEF InRead
  <2> QED BY <1>1, <2>1
<1>15. Selected(s, fr, k) => Written(fr, k)
  BY <1>7 DEF Selected
<1>16. \E f \in DOMAIN fr : fr[f].call = k /\ fr[f].dir = "read" /\ s.done = fr[f].bytes
  BY <1>9, <1>12, <1>14 DEF InRead
<1> QED BY <1>5, <1>13, <1>15, <1>16 DEF s, fr, k

\* Nothing is read when no byte is asked for.
LEMMA EmptyRead ==
  ASSUME NEW s \in Drivers, NEW was, Own(s, was), AllServed(s), finished(s),
         NEW k \in Nat, NEW stop
  PROVE  ~Reads(read_async(s, k, 0, stop))
<1> DEFINE b == start(s, "read", k)
           c == Start("read", k)
           q == b.MTDR \o <<>> \o <<STOP>>
           t == [b EXCEPT !.MTDR = q]
<1>1. ~(0 > MAX_MASTER_READ_LENGTH)
  BY MasterAssumption
<1>2. CASE ~CanStart(s)
  <2>1. ~Reads(b)
    BY <1>2, NotBegun
  <2> QED BY <1>1, <1>2, <2>1 DEF read_async
<1>3. CASE CanStart(s)
  <2>1. /\ b \in Drivers /\ b.MTDR = <<c>> /\ b.MRDR = <<>> /\ b.command = s.command
    BY <1>3, StartLemma DEF Directions
  <2> HIDE DEF b
  <2>2. c \in Commands /\ c.op = "START"
    BY DEF Start, Commands, Directions
  <2> HIDE DEF c
  <2>3. Opens(q, c.call, 0)
    <3>1. q = <<c>> \o <<STOP>>
      BY <2>1, <2>2, ShortLemma, StopLemma
    <3> QED BY <2>2, <3>1, OpensLemma
  <2> HIDE DEF q
  <2>4. t.MTDR = q /\ t.MRDR = <<>> /\ t.command = s.command
    BY <2>1 DEF Drivers
  <2>5. ~Doing1(s, "RECEIVE")
    BY DEF Own, Quiet, Reads
  <2> HIDE DEF t
  <2>6. ~Has(t, "RECEIVE")
    <3>1. \A j \in 1 .. Len(q) : j = 1 \/ j \in 2 .. Len(q)
      BY <2>3 DEF Opens
    <3> QED BY <2>3, <2>4, <3>1 DEF Opens, Has
  <2>7. ~Reads(t)
    BY <2>4, <2>5, <2>6 DEF Reads, Doing1
  <2> QED BY <1>1, <1>3, <2>7 DEF read_async, t, q, b
<1> QED BY <1>2, <1>3

\* The port cannot read so many bytes.
LEMMA LongRead ==
  ASSUME NEW s \in Drivers, NEW was, Own(s, was), finished(s), NEW k,
         NEW n \in Nat, n > MAX_MASTER_READ_LENGTH, NEW stop
  PROVE  LET t == read_async(s, k, n, stop)
         IN  /\ ~Reads(t)
             /\ \A fr, j : NumberOf(s, fr, j) => Refusal(t)
<1> DEFINE t == [s EXCEPT !.error = "invalid_request"]
<1>1. read_async(s, k, n, stop) = t
  BY DEF read_async
<1>2. /\ t.error = "invalid_request" /\ t.ignore_tdf = s.ignore_tdf /\ t.done = s.done
      /\ t.MTDR = s.MTDR /\ t.MRDR = s.MRDR /\ t.command = s.command
  BY DEF Drivers
<1> HIDE DEF t
<1>3. ~Reads(t)
  <2>1. ~Reads(s)
    BY DEF Own, Quiet
  <2> QED BY <1>2, <2>1 DEF Reads, Has, Doing1
<1>4. \A fr, j : NumberOf(s, fr, j) => Refusal(t)
  BY <1>2 DEF NumberOf, Refusal
<1> QED BY <1>1, <1>3, <1>4

LEMMA WholeBegin ==
  ASSUME IInv, OwnInv, WholeInv, ~Pending, Begin, Undisturbed, Undisturbed'
  PROVE  WholeInv'
<1> USE CallsAssumption
<1> DEFINE s == i2c
           t == i2c'
           k == Number
<1>1. s \in Drivers /\ Own(s, Live) /\ AllServed(s) /\ results \in Seq(Results)
  BY DEF IInv, DriverInv, OwnInv, Pending, AllServed, CallerInv
<1>2. k \in Nat
  BY <1>1 DEF Number
<1>3. PICK c \in Calls :
        /\ IF c.by = "device" THEN BeginDevice(c) ELSE BeginWire(c)
        /\ call' = [phase |-> IF c.by = "device" /\ c.op = "read"
                              THEN "register" ELSE "transfer",
                    asked |-> c, ready |-> finished(i2c), timedOut |-> FALSE]
  BY DEF Begin
<1>4. /\ call' # NoCall /\ call'.ready = finished(i2c) /\ call'.asked = c
      /\ call'.phase = IF c.by = "device" /\ c.op = "read" THEN "register" ELSE "transfer"
      /\ UNCHANGED <<frames, results>>
  BY <1>3 DEF NoCall, Begin
<1>5. finished(s)
  BY <1>4 DEF Undisturbed
<1>6. Number' = k
  BY <1>4 DEF Number
<1>7. c.n \in Nat /\ c.by \in {"device", "wire"} /\ c.op \in {"read", "write"}
      /\ c.n + 1 \in Nat
  OBVIOUS
<1>8. \A j \in DOMAIN results' : Backed(results'[j], frames', j)
  BY <1>4 DEF WholeInv
<1>9. ASSUME NEW n \in Nat, NEW stop, t = write_async(s, k, n, stop)
      PROVE  ~Reads(t) /\ (n > 0 => Abandoned(t) \/ NumberOf(t, frames, k))
  BY <1>1, <1>2, <1>5, <1>9, BegunWrite
<1>10. CASE c.op = "write"
  <2>1. ~Reads(t)
    BY <1>3, <1>7, <1>9, <1>10 DEF BeginDevice, BeginWire
  <2>2. ~Asking' /\ call'.phase # "register"
    BY <1>4, <1>10 DEF Asking
  <2> QED BY <1>8, <2>1, <2>2 DEF WholeInv
<1>11. CASE c.op = "read" /\ c.by = "device"
  <2>1. t = write_async(s, k, 1, FALSE)
    BY <1>3, <1>11 DEF BeginDevice
  <2>2. ~Reads(t) /\ (Abandoned(t) \/ NumberOf(t, frames, k))
    <3>1. 1 \in Nat /\ 1 > 0
      OBVIOUS
    <3>2. ~Reads(t) /\ (1 > 0 => Abandoned(t) \/ NumberOf(t, frames, k))
      BY Zenon, <1>9, <2>1, <3>1
    <3> QED BY <3>1, <3>2
  <2>3. ~Asking' /\ NumberComes'
    BY <1>4, <1>6, <1>11, <2>2 DEF Asking, NumberComes
  <2> QED BY <1>8, <2>2, <2>3 DEF WholeInv
<1>12. CASE c.op = "read" /\ c.by = "wire"
  <2> DEFINE n == Min({c.n, rx_buffer_length})
  <2>1. t = read_async(s, k, n, c.stop)
    BY <1>3, <1>12 DEF BeginWire
  <2>2. call'.phase = "transfer"
    BY <1>4, <1>12
  <2>3. CASE c.n = 0
    <3>1. n = 0
      <4>1. 0 \in {0, rx_buffer_length} /\ \A y \in {0, rx_buffer_length} : 0 <= y
        OBVIOUS
      <4>2. /\ Min({0, rx_buffer_length}) \in {0, rx_buffer_length}
            /\ \A y \in {0, rx_buffer_length} : Min({0, rx_buffer_length}) <= y
        BY <4>1 DEF Min
      <4> QED BY <2>3, <4>2
    <3>2. ~Reads(t)
      BY <1>1, <1>2, <1>5, <2>1, <3>1, EmptyRead
    <3>3. ~Asking'
      BY <1>4, <2>3 DEF Asking
    <3> QED BY <1>8, <2>2, <3>2, <3>3 DEF WholeInv
  <2>4. CASE c.n # 0
    <3>1. n \in 1 .. MAX_MASTER_READ_LENGTH
      <4>1. c.n \in Nat \ {0} /\ rx_buffer_length \in Nat \ {0}
        BY <2>4, MasterAssumption
      <4>2. n \in 1 .. rx_buffer_length
        BY <4>1, MinBounds
      <4> QED BY <4>2, MasterAssumption
    <3> HIDE DEF n
    <3>2. \/ Abandoned(t)
          \/ /\ t.buffer = <<k, "in">> /\ t.size = n
             /\ ReadOf(t, frames, k)
      BY <1>1, <1>2, <1>5, <2>1, <3>1, ReadBegins
    <3>3. Asking'
      <4>1. c.n > 0
        BY <1>7, <2>4
      <4> QED BY <1>4, <1>12, <2>2, <4>1 DEF Asking
    <3>4. ReadComes'
      BY <1>4, <1>6, <1>12, <3>2 DEF ReadComes
    <3> QED BY <1>8, <2>2, <3>3, <3>4 DEF WholeInv
  <2> QED BY <2>3, <2>4
<1> QED BY <1>7, <1>10, <1>11, <1>12

LEMMA WholeRegister ==
  ASSUME IInv, OwnInv, WholeInv, ~Pending, ReadRegister, Undisturbed,
         call \in Asked, ~call.timedOut
  PROVE  WholeInv'
<1> USE CallsAssumption
<1> DEFINE s == i2c
           t == i2c'
           k == Number
           n == call.asked.n
<1>1. s \in Drivers /\ Own(s, Live) /\ AllServed(s) /\ results \in Seq(Results)
  BY DEF IInv, DriverInv, OwnInv, Pending, AllServed, CallerInv
<1>2. k \in Nat
  BY <1>1 DEF Number
<1>3. /\ call' = [call EXCEPT !.phase = "transfer"] /\ UNCHANGED <<frames, results>>
      /\ call.phase = "register" /\ call # NoCall /\ finished(s) /\ s.error = "ok"
      /\ t = read_async(s, k, n, call.asked.stop)
  BY DEF ReadRegister, Waited, has_error
<1>4. call'.phase = "transfer" /\ call'.asked = call.asked /\ call' # NoCall /\ n \in Nat
  BY <1>3 DEF Asked, NoCall
<1>5. Number' = k
  BY <1>3 DEF Number
<1>6. \A j \in DOMAIN results' : Backed(results'[j], frames', j)
  BY <1>3 DEF WholeInv
<1>7. /\ call.asked.by = "device" /\ call.asked.op = "read"
      /\ NumberOf(s, frames, k)
  <2>1. NumberComes
    BY <1>3 DEF WholeInv
  <2>2. ~Abandoned(s)
    BY <1>3 DEF Abandoned, finished, BusyStates
  <2> QED BY <2>1, <2>2 DEF NumberComes
<1>8. CASE n = 0
  <2>1. ~Reads(t)
    BY <1>1, <1>2, <1>3, <1>8, EmptyRead
  <2>2. ~Asking'
    BY <1>4, <1>8 DEF Asking
  <2> QED BY <1>4, <1>6, <2>1, <2>2 DEF WholeInv
<1>9. CASE n > MAX_MASTER_READ_LENGTH
  <2>1. ~Reads(t) /\ Refusal(t)
    BY <1>1, <1>3, <1>4, <1>7, <1>9, LongRead
  <2>2. ReadComes'
    BY <2>1 DEF ReadComes
  <2> QED BY <1>4, <1>6, <2>1, <2>2 DEF WholeInv
<1>10. CASE n \in 1 .. MAX_MASTER_READ_LENGTH
  <2>1. \/ Abandoned(t)
        \/ /\ t.buffer = <<k, "in">> /\ t.size = n
           /\ ReadOf(t, frames, k) /\ Selected(t, frames, k)
    <3> HIDE DEF n
    <3> QED BY <1>1, <1>2, <1>3, <1>7, <1>10, ReadBegins
  <2>2. Asking'
    BY <1>4, <1>7, <1>10 DEF Asking
  <2>3. ReadComes'
    BY <1>3, <1>4, <1>5, <2>1 DEF ReadComes
  <2> QED BY <1>4, <1>6, <2>2, <2>3 DEF WholeInv
<1> QED BY <1>4, <1>8, <1>9, <1>10, MasterAssumption

LEMMA WholeReturn ==
  ASSUME IInv, OwnInv, WholeInv, ~Pending, Return, Undisturbed,
         call \in Asked, ~call.timedOut
  PROVE  WholeInv'
<1> DEFINE r == [asked |-> call.asked, ready |-> call.ready,
                 timedOut |-> call.timedOut, data |-> Stored,
                 code |-> toWireResult(i2c.error), count |-> Len(i2c.done)]
           q == results
<1>1. /\ results' = Append(q, r) /\ q \in Seq(Results) /\ call # NoCall /\ call' = NoCall
      /\ finished(i2c) /\ UNCHANGED <<i2c, frames>>
      /\ call.phase = "transfer" \/ has_error(i2c)
  BY DEF Return, Waited, IInv, CallerInv
<1>2. ~Reads(i2c)
  BY <1>1 DEF OwnInv, Own, Quiet
<1>3. Backed(r, frames, Number)
  <2> SUFFICES ASSUME r.code = 0, call.asked.op = "read", call.asked.n > 0
               PROVE  /\ call.asked.by = "device" =>
                           Written(frames, Number) /\ Len(Stored) = call.asked.n
                      /\ \E f \in DOMAIN frames :
                           /\ frames[f].call = Number /\ frames[f].dir = "read"
                           /\ Stored = frames[f].bytes
    BY DEF Backed
  <2>1. i2c.error = "ok"
    BY DEF toWireResult
  <2>2. Asking
    BY <1>1, <2>1 DEF Asking, has_error
  <2>3. /\ i2c.buffer = <<Number, "in">>
        /\ call.asked.by = "device" =>
             Written(frames, Number) /\ Len(i2c.done) = call.asked.n
        /\ \E f \in DOMAIN frames : /\ frames[f].call = Number /\ frames[f].dir = "read"
                                    /\ i2c.done = frames[f].bytes
    BY <1>1, <2>1, <2>2, WholeEnds
  <2>4. Stored = i2c.done
    BY <2>3 DEF Stored
  <2> QED BY <2>3, <2>4
<1> HIDE DEF r
<1>4. \A k \in DOMAIN Append(q, r) :
        \/ k \in DOMAIN q /\ Append(q, r)[k] = q[k]
        \/ k = Number /\ Append(q, r)[k] = r
  BY <1>1 DEF Number
<1>5. \A k \in DOMAIN results' : Backed(results'[k], frames', k)
  BY <1>1, <1>3, <1>4 DEF WholeInv
<1> QED BY <1>1, <1>2, <1>5 DEF WholeInv, Asking

LEMMA WholeCaller ==
  ASSUME IInv, OwnInv, WholeInv, ~Pending, Caller, Undisturbed, Undisturbed',
         call # NoCall => call \in Asked /\ call.ready /\ ~call.timedOut
  PROVE  WholeInv'
<1>1. CASE Begin
  BY <1>1, WholeBegin
<1>2. CASE TimeOut
  <2>1. call \in Asked /\ call' = [call EXCEPT !.timedOut = TRUE]
    BY <1>2 DEF TimeOut
  <2>2. call' # NoCall /\ call'.timedOut
    BY <2>1 DEF Asked, NoCall
  <2> QED BY <2>2 DEF Undisturbed, OnTime
<1>3. CASE ReadRegister
  BY <1>3, WholeRegister DEF ReadRegister, Waited
<1>4. CASE Return
  BY <1>4, WholeReturn DEF Return, Waited
<1>5. CASE Restart
  <2>1. i2c \in Drivers
    BY DEF IInv, DriverInv
  <2>2. /\ i2c'.MTDR = <<>> /\ i2c'.MRDR = <<>> /\ i2c'.command = <<>>
        /\ UNCHANGED <<call, results, frames>> /\ call = NoCall
    BY <1>5, <2>1 DEF Restart, begin, Drivers
  <2>3. ~Reads(i2c')
    BY <2>2, EmptyFifo DEF Reads, Doing1
  <2> QED BY <2>2, <2>3 DEF WholeInv, Asking
<1> QED BY <1>1, <1>2, <1>3, <1>4, <1>5 DEF Caller

LEMMA WholeStep ==
  ASSUME IInv, OwnInv, WholeInv, [Next]_vars
  PROVE  WholeInv'
<1>1. CASE UNCHANGED vars
  BY <1>1 DEF vars, WholeInv, Undisturbed, OnTime, Number, Asking, NumberComes, ReadComes
<1>2. CASE Next
  <2> SUFFICES ASSUME Undisturbed'
               PROVE  WholeInv'
    BY DEF WholeInv
  <2>1. Undisturbed /\ ~late
        /\ (call # NoCall => call \in Asked /\ call.ready /\ ~call.timedOut)
    BY <1>2, DisturbedStays
  <2>2. CASE ~Pending /\ Caller
    BY <2>1, <2>2, WholeCaller
  <2>3. CASE Transfer
    BY <2>1, <2>3, WholeTransfer
  <2> QED BY <1>2, <2>2, <2>3 DEF Next
<1> QED BY <1>1, <1>2

LEMMA InitWhole == Init => WholeInv
<1> SUFFICES ASSUME Init
             PROVE  WholeInv
  OBVIOUS
<1>1. i2c.MTDR = <<>> /\ i2c.MRDR = <<>> /\ i2c.command = <<>>
      /\ call = NoCall /\ results = <<>>
  BY DEF Init, MasterInit
<1>2. ~Reads(i2c)
  BY <1>1, EmptyFifo DEF Reads, Doing1
<1> QED BY <1>1, <1>2 DEF WholeInv, Asking

\* A read that reports success returns the bytes of one frame of its own and no
\* others, all that were asked for, and its register number was acknowledged
\* (I2CDevice::read() and requestFrom()), if callers wait and interrupts are not
\* late, whatever else fails.
THEOREM ReadsWhole == Spec => []ReadsAreWhole
<1>1. WholeInv => ReadsAreWhole
  <2> SUFFICES ASSUME WholeInv, Undisturbed, NEW k \in DOMAIN results
               PROVE  LET r == results[k]
                      IN  r.code = 0 /\ r.asked.op = "read" /\ r.asked.n > 0 =>
                            /\ r.asked.by = "device" => Sent(k, 1) /\ Len(r.data) = r.asked.n
                            /\ \E f \in DOMAIN frames :
                                 /\ frames[f].call = k /\ frames[f].dir = "read"
                                 /\ r.data = frames[f].bytes
    BY DEF ReadsAreWhole
  <2>1. Backed(results[k], frames, k)
    BY DEF WholeInv
  <2>2. Written(frames, k) => Sent(k, 1)
    BY DEF Written, Sent
  <2> QED BY <2>1, <2>2 DEF Backed
<1>2. Init => WholeInv
  BY InitWhole
<1>3. IInv /\ OwnInv /\ WholeInv /\ [Next]_vars => WholeInv'
  BY WholeStep
<1> QED BY <1>1, <1>2, <1>3, Invariance, OwnInvariance, PTL DEF Spec

-----------------------------------------------------------------------------
(* Writes.  What is left of one that was given up, and of the calls before  *)
(* it, is told apart from what is sent in the frame of the call.            *)

\* Call k had a frame acknowledged, and n bytes of it.
SentIn(fr, k, n) == \E f \in DOMAIN fr :
  fr[f].call = k /\ fr[f].dir = "write" /\ fr[f].ack /\ Len(fr[f].bytes) >= n

Sends(s) == Has(s, "TRANSMIT") \/ Doing1(s, "TRANSMIT")

\* The interrupt fills the FIFO with the bytes of a write.
Fills(s) == ~s.ignore_tdf /\ s.state = "transferring"

WriteStarts(s) ==
  /\ \A j \in 1 .. Len(s.MTDR) : s.MTDR[j].op = "START" => s.MTDR[j].dir = "write"
  /\ Doing1(s, "START") => s.command[1].dir = "write"

\* Only a byte that is sent on a bus that is not the master's fails by itself.
Blamed(s, fa) ==
  /\ s.MSR \cap {"NDF", "ALF", "PLTF"} # {} => fa # <<>>
  /\ "FEF" \in s.MSR /\ ~s.ignore_tdf => ~s.MBF

\* What is sent while the bus is the master's is sent in a frame of a write.
Framed(s, fr) ==
  /\ ~s.ignore_tdf => WriteStarts(s)
  /\ (Sends(s) \/ Fills(s)) /\ s.MBF /\ Clean(s)
       /\ ~Doing1(s, "START") /\ ~Doing1(s, "STOP") => InWrite(s, fr)

\* A write whose bytes are queued when it is given up already does not end by
\* itself: the bus is not the master's, and its first byte will fail.
Filling(s) ==
  Fills(s) =>
    /\ "SDF" \notin s.MSR /\ (Doing1(s, "STOP") => ~s.MBF)
    /\ ~s.MBF /\ Clean(s) => ~s.TDIE /\ (First(s, "TRANSMIT") \/ Doing1(s, "TRANSMIT"))

\* A write that was given up before its first byte was queued.
GivenUp(s, fa) ==
  Unbegun(s) /\ s.state = "stopping" =>
    /\ ~s.TDIE
    /\ s.MBF => fa # <<>>
    /\ s.MBF /\ s.MTDR = <<>> =>
         s.MSR \cap Failures = {} /\ (s.command = <<>> \/ Doing1(s, "STOP"))

Sound(s, fr, fa) == Blamed(s, fa) /\ Framed(s, fr) /\ Filling(s) /\ GivenUp(s, fa)

\* A write of call k: when all its bytes were queued, all but the last are
\* acknowledged, and the last one is or is being sent, or has failed.
WriteOf(s, fr, k) ==
  /\ ~s.ignore_tdf /\ s.size > 0 /\ s.buffer = <<k, "out">>
  /\ s.done = <<>> => ~finished(s)
  /\ Clean(s) /\ s.error = "ok" /\ s.done # <<>> /\ s.state # "transferring" =>
       \/ SentIn(fr, k, s.size)
       \/ ~s.stop_on_completion /\ SentIn(fr, k, s.size - 1)
       \/ /\ s.state = "stopping" /\ Doing1(s, "TRANSMIT") /\ InWrite(s, fr)
          /\ fr[Len(fr)].call = k /\ Len(fr[Len(fr)].bytes) >= s.size - 1

\* A write of no bytes by call k: its START was acknowledged or has failed, or
\* it is still to be sent.
EmptyOf(s, fr, k) ==
  /\ s.ignore_tdf
  /\ \A j \in 1 .. Len(s.MTDR) : s.MTDR[j].op = "START" =>
       s.MTDR[j].dir = "write" /\ s.MTDR[j].call = k
  /\ Doing1(s, "START") => s.command[1].dir = "write" /\ s.command[1].call = k
  /\ Clean(s) /\ s.error = "ok" => Beginning(s) \/ SentIn(fr, k, 0)

\* What was acknowledged stays so.
LEMMA SentStays ==
  ASSUME NEW fr \in Seq(Frames), NEW k, NEW n \in Int, SentIn(fr, k, n)
  PROVE  /\ \A f \in Frames : SentIn(Append(fr, f), k, n)
         /\ \A byte \in OutBytes \cup InBytes :
              fr # <<>> => SentIn([fr EXCEPT ![Len(fr)].bytes = Append(@, byte)], k, n)
<1>1. PICK i \in 1 .. Len(fr) :
        fr[i].call = k /\ fr[i].dir = "write" /\ fr[i].ack /\ Len(fr[i].bytes) >= n
  BY DEF SentIn
<1>2. ASSUME NEW f \in Frames
      PROVE  SentIn(Append(fr, f), k, n)
  <2>1. Append(fr, f) \in Seq(Frames) /\ i \in 1 .. Len(Append(fr, f)) /\ Append(fr, f)[i] = fr[i]
    BY <1>1
  <2> QED BY <1>1, <2>1 DEF SentIn
<1>3. ASSUME NEW byte \in OutBytes \cup InBytes, fr # <<>>
      PROVE  SentIn([fr EXCEPT ![Len(fr)].bytes = Append(@, byte)], k, n)
  <2> DEFINE g == [fr EXCEPT ![Len(fr)].bytes = Append(@, byte)]
  <2>1. /\ g \in Seq(Frames) /\ Len(g) = Len(fr)
        /\ \A j \in 1 .. Len(fr) : j # Len(fr) => g[j] = fr[j]
        /\ g[Len(fr)].call = fr[Len(fr)].call /\ g[Len(fr)].ack = fr[Len(fr)].ack
        /\ g[Len(fr)].dir = fr[Len(fr)].dir
        /\ g[Len(fr)].bytes = Append(fr[Len(fr)].bytes, byte)
    BY <1>3, LastGrown
  <2> HIDE DEF g
  <2>2. i \in DOMAIN g /\ g[i].call = k /\ g[i].dir = "write" /\ g[i].ack
    BY <1>1, <2>1
  <2>3. Len(g[i].bytes) >= n
    <3>1. fr[Len(fr)].bytes \in Seq(OutBytes \cup InBytes)
      <4>1. fr[Len(fr)] \in Frames
        BY <1>3
      <4> QED BY <4>1 DEF Frames
    <3>2. Len(g[Len(fr)].bytes) = Len(fr[Len(fr)].bytes) + 1 /\ Len(fr[Len(fr)].bytes) \in Nat
      BY <1>3, <2>1, <3>1, AppendLemma
    <3> QED BY <1>1, <2>1, <3>2
  <2>4. SentIn(g, k, n)
    BY <2>2, <2>3 DEF SentIn
  <2> QED BY <2>4 DEF g
<1> QED BY <1>2, <1>3

-----------------------------------------------------------------------------
\* The interrupt never sets TDIE, and what was asked of the end stays.
Keeps(s, t) == t.stop_on_completion = s.stop_on_completion /\ (t.TDIE => s.TDIE)

LEMMA KeepsAgain ==
  ASSUME NEW s, NEW t, NEW u, Keeps(s, t), Keeps(t, u)
  PROVE  Keeps(s, u)
BY DEF Keeps

LEMMA AbortKeeps ==
  ASSUME NEW s \in Drivers
  PROVE  Keeps(s, abort_transaction_async(s)) /\ ~abort_transaction_async(s).TDIE
<1> DEFINE q == IF s.MBF /\ "SDF" \notin s.MSR THEN <<STOP>> ELSE <<>>
           t == [s EXCEPT !.TDIE = FALSE, !.MRDR = <<>>, !.MTDR = q]
<1> HIDE DEF q
<1>1. t.TDIE = FALSE /\ t.stop_on_completion = s.stop_on_completion
  BY DEF Drivers
<1> HIDE DEF t
<1>2. Keeps(s, t) /\ ~t.TDIE
  BY <1>1 DEF Keeps
<1> QED BY <1>2 DEF abort_transaction_async, t, q

LEMMA FailureKeeps ==
  ASSUME NEW s \in Drivers, NEW msr
  PROVE  LET t == AfterFailure(s, msr)
         IN  Keeps(s, t) /\ (msr \cap Failures # {} /\ s.state # "stopping" => ~t.TDIE)
<1> DEFINE e == ErrorOf(s, msr)
           told == [s EXCEPT !.error = e, !.MSR = @ \ Failures]
           aborting == [told EXCEPT !.state = "stopping"]
           t == abort_transaction_async(aborting)
<1>1. e \in Errors /\ "stopping" \in States
  BY DEF ErrorOf, Errors, States, BusyStates, Drivers, has_error
<1> HIDE DEF e
<1>2. told \in Drivers /\ Keeps(s, told)
  BY <1>1 DEF Drivers, Keeps
<1> HIDE DEF told
<1>3. aborting \in Drivers /\ Keeps(told, aborting)
  BY <1>1, <1>2 DEF Drivers, Keeps
<1> HIDE DEF aborting
<1>4. Keeps(s, t) /\ ~t.TDIE
  BY <1>2, <1>3, AbortKeeps, KeepsAgain
<1> HIDE DEF t
<1>5. CASE msr \cap Failures = {}
  BY <1>5 DEF AfterFailure, Keeps
<1>6. CASE msr \cap Failures # {} /\ s.state = "stopping"
  <2>1. AfterFailure(s, msr) = told
    BY <1>6 DEF AfterFailure, told, e
  <2> QED BY <1>2, <1>6, <2>1
<1>7. CASE msr \cap Failures # {} /\ s.state # "stopping"
  <2>1. AfterFailure(s, msr) = t
    BY <1>7 DEF AfterFailure, t, aborting, told, e
  <2> QED BY <1>4, <2>1
<1> QED BY <1>5, <1>6, <1>7

LEMMA StopKeeps ==
  ASSUME NEW s \in Drivers, NEW msr
  PROVE  Keeps(s, AfterStop(s, msr))
<1> DEFINE t == [s EXCEPT !.TDIE = FALSE, !.state = "stopped", !.MSR = @ \ {"SDF"}]
<1>1. t.TDIE = FALSE /\ t.stop_on_completion = s.stop_on_completion
  BY DEF Drivers
<1> HIDE DEF t
<1>2. Keeps(s, t) /\ Keeps(s, s)
  BY <1>1 DEF Keeps
<1> QED BY <1>2 DEF AfterStop, t

LEMMA ReceiveKeeps ==
  ASSUME NEW s \in Drivers, NEW msr
  PROVE  Keeps(s, AfterReceive(s, msr))
<1> DEFINE b == FirstByte(s)
           stopping == [s EXCEPT !.state = "stopping"]
           byte == IF b.MRDR = <<>> THEN <<0, 0>> ELSE Head(b.MRDR)
           rest == IF b.MRDR = <<>> THEN <<>> ELSE Tail(b.MRDR)
           read == IF Len(b.done) = b.size THEN b.done ELSE Append(b.done, byte)
           taken == [b EXCEPT !.MRDR = rest, !.done = read]
           dropped == [b EXCEPT !.MRDR = <<>>]
<1>1. Keeps(s, s)
  BY DEF Keeps
<1>2. stopping \in Drivers /\ Keeps(s, stopping)
  BY DEF Drivers, States, BusyStates, Keeps
<1> HIDE DEF stopping
<1>3. Keeps(s, abort_transaction_async(stopping))
  BY <1>2, AbortKeeps, KeepsAgain
<1>4. b \in Drivers /\ b.TDIE = s.TDIE /\ b.stop_on_completion = s.stop_on_completion
  BY FirstLemma DEF FirstByte, Drivers
<1> HIDE DEF b
<1>5. \A r \in {taken, dropped} :
        DOMAIN r = DOMAIN b /\ r.TDIE = b.TDIE /\ r.stop_on_completion = b.stop_on_completion
  BY <1>4 DEF Drivers
<1>6. TakeByte(b) = taken
  <2>1. "done" \in DOMAIN b /\ "MRDR" \in DOMAIN b
    BY <1>4 DEF Drivers
  <2> QED BY <2>1 DEF TakeByte
<1> HIDE DEF taken, dropped
<1>7. ASSUME NEW r \in {taken, dropped}
      PROVE  Keeps(s, EndOfRead(r))
  <2>1. "state" \in DOMAIN r
    BY <1>4, <1>5 DEF Drivers
  <2>2. EndOfRead(r).TDIE = r.TDIE /\ EndOfRead(r).stop_on_completion = r.stop_on_completion
    BY <2>1 DEF EndOfRead
  <2> QED BY <1>4, <1>5, <2>2 DEF Keeps
<1> QED BY <1>1, <1>3, <1>6, <1>7 DEF AfterReceive, b, dropped, stopping

LEMMA TransmitKeeps ==
  ASSUME NEW s \in Drivers, Bounded(s), NEW msr
  PROVE  Keeps(s, AfterTransmit(s, msr))
<1> DEFINE b == FirstByte(s)
           f == FillFifo(b)
           t == EndOfWrite(f)
<1>1. Keeps(s, s)
  BY DEF Keeps
<1>2. /\ b \in Drivers /\ b.MTDR = s.MTDR /\ b.done = s.done /\ b.size = s.size
      /\ b.MRDR = s.MRDR /\ Keeps(s, b)
  BY FirstLemma DEF FirstByte, Drivers, Keeps
<1> HIDE DEF b
<1>3. f \in Drivers /\ Keeps(b, f)
  <2>1. Bounded(b)
    BY <1>2 DEF Bounded
  <2>2. f \in Drivers
    BY <1>2, <2>1, FillLemma
  <2>3. f.TDIE = b.TDIE /\ f.stop_on_completion = b.stop_on_completion
    BY <1>2 DEF FillFifo, Drivers
  <2> QED BY <2>2, <2>3 DEF Keeps
<1> HIDE DEF f
<1>4. Keeps(f, t)
  BY <1>3 DEF EndOfWrite, Drivers, Keeps
<1>5. Keeps(s, t)
  BY <1>2, <1>3, <1>4, KeepsAgain
<1> QED BY <1>1, <1>2, <1>5 DEF AfterTransmit, b, f, t

LEMMA InterruptKeeps ==
  ASSUME NEW s \in Drivers, NEW fr \in Seq(Frames), DriverInv(s, fr)
  PROVE  LET t == Interrupted(s)
         IN  /\ Keeps(s, t)
             /\ s.MSR \cap Failures # {} /\ s.state # "stopping" => ~t.TDIE
<1> DEFINE msr == Status(s)
           a == AfterFailure(s, msr)
           b == AfterStop(a, msr)
           c == AfterReceive(b, msr)
           d == AfterTransmit(c, msr)
<1>1. msr \cap Failures = s.MSR \cap Failures
  BY DEF Status, Drivers, Failures
<1> HIDE DEF msr
<1>2. a \in Drivers /\ DriverInv(a, fr)
  BY FailurePart DEF Served
<1>3. Keeps(s, a) /\ (s.MSR \cap Failures # {} /\ s.state # "stopping" => ~a.TDIE)
  BY <1>1, FailureKeeps
<1> HIDE DEF a
<1>4. b \in Drivers /\ DriverInv(b, fr) /\ Keeps(a, b)
  BY <1>2, StopPart, StopKeeps
<1> HIDE DEF b
<1>5. c \in Drivers /\ Bounded(c) /\ Keeps(b, c)
  BY <1>4, ReceivePart, ReceiveKeeps DEF DriverInv
<1> HIDE DEF c
<1>6. Keeps(a, d)
  BY <1>4, <1>5, TransmitKeeps, KeepsAgain
<1> HIDE DEF d
<1>7. /\ Keeps(s, d)
      /\ s.MSR \cap Failures # {} /\ s.state # "stopping" => ~d.TDIE
  BY <1>3, <1>6 DEF Keeps
<1> QED BY <1>7 DEF Interrupted, d, c, b, a, msr

-----------------------------------------------------------------------------
\* What the interrupt did during a write, and when.
LEMMA ServedBoth ==
  ASSUME NEW s \in Drivers, NEW fr \in Seq(Frames), DriverInv(s, fr), NEW live, Own(s, live),
         Wants(s)
  PROVE  LET t == Interrupted(s)
         IN  /\ Untouched(s, t) /\ Keeps(s, t) /\ t.MSR = {}
             /\ \A op : Doing1(t, op) <=> Doing1(s, op)
             /\ s.MSR \cap Failures # {} /\ s.state # "stopping" => ~t.TDIE
             /\ \/ Told(s, t) /\ (Unbegun(s) => s.MTDR # <<>>)
                \/ Took(s, t) /\ s.ignore_tdf
                \/ ~s.ignore_tdf /\ (Queues(s, t) \/ Completes(s, t))
<1> DEFINE t == Interrupted(s)
<1>1. /\ Untouched(s, t)
      /\ \/ Told(s, t) /\ (Unbegun(s) => s.MTDR # <<>>)
         \/ Took(s, t) /\ s.ignore_tdf
         \/ ~s.ignore_tdf /\ (Queues(s, t) \/ Completes(s, t))
  <2>1. CASE s.ignore_tdf
    BY <2>1, ServedRead DEF Unbegun
  <2>2. CASE ~s.ignore_tdf
    <3>1. Bounded(s)
      BY DEF DriverInv
    <3> QED BY <2>2, <3>1, ServedWrite DEF Unbegun
  <2> QED BY <2>1, <2>2
<1>2. Keeps(s, t) /\ (s.MSR \cap Failures # {} /\ s.state # "stopping" => ~t.TDIE)
  BY InterruptKeeps
<1> HIDE DEF t
<1>3. t.MSR = {}
  BY <1>1 DEF Told, Failed, Ceased, Unmoved, Took, Queues, Completes
<1>4. \A op : Doing1(t, op) <=> Doing1(s, op)
  BY <1>1 DEF Untouched, Doing1
<1> QED BY <1>1, <1>2, <1>3, <1>4 DEF t

\* A write whose first bytes are queued: its START is being sent, or it was
\* given up and the bus is not the master's.
LEMMA FirstQueued ==
  ASSUME NEW s \in Drivers, NEW live, Own(s, live), Wants(s), Unbegun(s), s.MTDR = <<>>,
         NEW fa, GivenUp(s, fa)
  PROVE  (Doing1(s, "START") /\ s.MBF) \/ (~s.MBF /\ ~s.TDIE)
<1>1. ~Still(s) /\ ~First(s, "START")
  BY EmptyFifo DEF Still, Wants
<1>2. CASE Doing1(s, "START")
  BY <1>2 DEF Own, Shape
<1>3. CASE s.state = "stopping" /\ s.MRDR = <<>>
  <2>1. ~s.TDIE /\ (s.MBF => s.MSR \cap Failures = {})
    BY <1>3 DEF GivenUp
  <2>2. s.MSR # {} /\ s.MSR \subseteq Failures \cup {"SDF"}
    BY <1>3, <2>1 DEF Wants, Drivers
  <2>3. s.MBF => "SDF" \in s.MSR
    BY <2>1, <2>2
  <2> QED BY <2>1, <2>3 DEF Own, Prompt
<1> QED BY <1>1, <1>2, <1>3 DEF Own, Waiting

LEMMA SoundServed ==
  ASSUME NEW s \in Drivers, NEW fr \in Seq(Frames), DriverInv(s, fr), NEW live, Own(s, live),
         Wants(s), NEW fa, Sound(s, fr, fa)
  PROVE  Sound(Interrupted(s), fr, fa)
<1> DEFINE t == Interrupted(s)
<1>1. /\ Untouched(s, t) /\ Keeps(s, t) /\ t.MSR = {}
      /\ \A op : Doing1(t, op) <=> Doing1(s, op)
      /\ s.MSR \cap Failures # {} /\ s.state # "stopping" => ~t.TDIE
      /\ \/ Told(s, t) /\ (Unbegun(s) => s.MTDR # <<>>)
         \/ Took(s, t) /\ s.ignore_tdf
         \/ ~s.ignore_tdf /\ (Queues(s, t) \/ Completes(s, t))
  BY ServedBoth
<1> SUFFICES Sound(t, fr, fa)
  OBVIOUS
<1> HIDE DEF t
<1>2. /\ t.ignore_tdf = s.ignore_tdf /\ t.MBF = s.MBF /\ t.command = s.command
      /\ InWrite(t, fr) <=> InWrite(s, fr)
  BY <1>1 DEF Untouched, InWrite
<1>3. Consistent(s) /\ Blamed(s, fa) /\ Framed(s, fr) /\ Filling(s) /\ GivenUp(s, fa)
  BY DEF DriverInv, Sound
<1>4. Blamed(t, fa) /\ Clean(t)
  BY <1>1 DEF Blamed, Clean
<1>5. CASE Unmoved(s, t)
  BY <1>5 DEF Unmoved
<1>6. \/ t.MTDR = s.MTDR \/ t.MTDR = <<>> \/ t.MTDR = <<STOP>>
      \/ \A j \in 1 .. Len(t.MTDR) : t.MTDR[j].op = "TRANSMIT"
  BY <1>1 DEF Told, Failed, Ceased, Unmoved, Took, Queues, Completes
<1>7. ~t.ignore_tdf => WriteStarts(t)
  <2> SUFFICES ASSUME ~s.ignore_tdf
               PROVE  WriteStarts(t)
    BY <1>2
  <2>1. WriteStarts(s)
    BY <1>3 DEF Framed
  <2>2. Doing1(t, "START") => t.command[1].dir = "write"
    BY <1>1, <1>2, <2>1 DEF WriteStarts
  <2>3. \A j \in 1 .. Len(t.MTDR) : t.MTDR[j].op = "START" => t.MTDR[j].dir = "write"
    BY <1>6, <2>1, NoCommands DEF WriteStarts
  <2> QED BY <2>2, <2>3 DEF WriteStarts
<1>8. Doing1(s, "TRANSMIT") =>
        (s.MBF /\ ~Doing1(s, "START") /\ ~Doing1(s, "STOP") => InWrite(s, fr))
  <2> SUFFICES ASSUME Doing1(s, "TRANSMIT"), s.MBF
               PROVE  ~Doing1(s, "START") /\ ~Doing1(s, "STOP") => InWrite(s, fr)
    OBVIOUS
  <2>1. Clean(s)
    BY <1>3 DEF Consistent, Clean, Doing1
  <2> QED BY <1>3, <2>1 DEF Framed, Sends
<1>9. CASE Failed(s, t)
  <2>1. t.state = "stopping" /\ t.done = s.done /\ s.MSR \cap Failures # {}
        /\ \/ t.MTDR = s.MTDR /\ s.state = "stopping"
           \/ t.MTDR = <<>> \/ t.MTDR = <<STOP>>
    BY <1>9 DEF Failed
  <2>2. ~Has(t, "TRANSMIT") /\ ~Fills(t)
    <3>1. t.MTDR = s.MTDR /\ s.state = "stopping" => ~Has(t, "TRANSMIT")
      BY <1>3 DEF Consistent, Has
    <3>2. t.MTDR = <<>> \/ t.MTDR = <<STOP>> => ~Has(t, "TRANSMIT")
      BY NoCommands
    <3> QED BY <2>1, <3>1, <3>2 DEF Fills
  <2>3. Framed(t, fr) /\ Filling(t)
    BY <1>1, <1>2, <1>7, <1>8, <2>2 DEF Framed, Filling, Sends
  <2>4. GivenUp(t, fa)
    <3> SUFFICES ASSUME Unbegun(t)
                 PROVE  ~t.TDIE /\ (t.MBF => fa # <<>> /\ t.MTDR # <<>>)
      BY <1>1 DEF GivenUp
    <3>1. Unbegun(s) /\ <<STOP>> # <<>>
      BY <1>2, <2>1, StopLemma DEF Unbegun
    <3>2. CASE s.state = "stopping"
      <4>1. ~s.TDIE /\ (s.MBF => fa # <<>> /\ s.MTDR # <<>>)
        BY <1>3, <2>1, <3>1, <3>2 DEF GivenUp
      <4> QED BY <1>1, <1>2, <1>9, <3>1, <4>1 DEF Keeps, Failed
    <3>3. CASE s.state # "stopping"
      <4>1. s.MBF => "FEF" \notin s.MSR
        BY <1>3, <3>1 DEF Blamed, Unbegun
      <4>2. s.MBF => s.MSR \cap {"NDF", "ALF", "PLTF"} # {}
        BY <2>1, <4>1 DEF Failures
      <4>3. t.MBF => t.MTDR # <<>>
        BY <1>2, <1>9, <3>1, <3>3 DEF Failed
      <4> QED BY <1>1, <1>2, <1>3, <2>1, <3>3, <4>2, <4>3 DEF Blamed
    <3> QED BY <3>2, <3>3
  <2> QED BY <1>4, <2>3, <2>4 DEF Sound
<1>10. CASE Ceased(s, t)
  <2>1. t.state = "stopped" /\ t.MTDR = s.MTDR /\ Clean(s)
    BY <1>10, CleanLemma DEF Ceased
  <2>2. Has(t, "TRANSMIT") <=> Has(s, "TRANSMIT")
    BY <2>1 DEF Has
  <2>3. Framed(t, fr)
    BY <1>1, <1>2, <1>3, <1>7, <2>1, <2>2 DEF Framed, Sends, Fills
  <2> QED BY <1>4, <2>1, <2>3 DEF Sound, Filling, Fills, GivenUp
<1>11. CASE Took(s, t) /\ s.ignore_tdf
  <2>1. t.MTDR = s.MTDR /\ Clean(s)
    BY <1>11, CleanLemma DEF Took
  <2>2. Has(t, "TRANSMIT") <=> Has(s, "TRANSMIT")
    BY <2>1 DEF Has
  <2>3. Framed(t, fr)
    BY <1>1, <1>2, <1>3, <1>11, <2>1, <2>2 DEF Framed, Sends, Fills
  <2> QED BY <1>2, <1>4, <1>11, <2>3 DEF Sound, Filling, Fills, GivenUp, Unbegun
<1>12. CASE Completes(s, t)
  <2>1. t.state # "transferring" /\ t.done # <<>> /\ (t.MTDR = <<>> \/ t.MTDR = <<STOP>>)
    BY <1>12 DEF Completes
  <2>2. ~Has(t, "TRANSMIT") /\ ~Fills(t) /\ ~Unbegun(t)
    BY <2>1, NoCommands DEF Fills, Unbegun
  <2>3. Framed(t, fr)
    BY <1>1, <1>2, <1>7, <1>8, <2>2 DEF Framed, Sends
  <2> QED BY <1>4, <2>2, <2>3 DEF Sound, Filling, GivenUp
<1>13. CASE Queues(s, t) /\ ~s.ignore_tdf
  <2>1. /\ s.MTDR = <<>> /\ t.MTDR # <<>> /\ t.MTDR \in Seq(Commands) /\ t.done # <<>>
        /\ \A j \in 1 .. Len(t.MTDR) : t.MTDR[j].op = "TRANSMIT"
        /\ s.done # <<>> => s.MSR = {} /\ s.state = "transferring"
    BY <1>13 DEF Queues
  <2>2. First(t, "TRANSMIT") /\ ~Unbegun(t)
    <3> DEFINE q == t.MTDR
    <3>1. q \in Seq(Commands) /\ q # <<>>
      BY <2>1
    <3>2. 1 \in 1 .. Len(q) /\ Len(q) > 0
      BY <3>1
    <3> QED BY <2>1, <3>2 DEF First, Unbegun
  <2>3. CASE s.done = <<>>
    <3>1. (Doing1(s, "START") /\ s.MBF) \/ (~s.MBF /\ ~s.TDIE)
      BY <1>3, <1>13, <2>1, <2>3, FirstQueued DEF Unbegun
    <3>2. Doing1(s, "START") => ~Doing1(s, "STOP")
      BY DEF Doing1
    <3>3. Framed(t, fr) /\ Filling(t)
      BY <1>1, <1>2, <1>7, <2>2, <3>1, <3>2 DEF Framed, Filling, Keeps
    <3> QED BY <1>4, <2>2, <3>3 DEF Sound, GivenUp
  <2>4. CASE s.done # <<>>
    <3>1. Fills(s) /\ Clean(s) /\ s.MRDR = <<>>
      BY <1>13, <2>1, <2>4, CleanLemma DEF Fills, Own, Prompt
    <3>2. s.TDIE
      BY <2>1, <2>4, <3>1 DEF Wants
    <3>3. s.MBF /\ ~Doing1(s, "STOP")
      BY <1>3, <3>1, <3>2 DEF Filling
    <3>4. Framed(t, fr) /\ Filling(t)
      BY <1>1, <1>2, <1>3, <1>7, <3>1, <3>3 DEF Framed, Filling
    <3> QED BY <1>4, <2>2, <3>4 DEF Sound, GivenUp
  <2> QED BY <2>3, <2>4
<1> QED BY <1>1, <1>5, <1>9, <1>10, <1>11, <1>12, <1>13 DEF Told

-----------------------------------------------------------------------------
\* All bytes are queued and none waits: all but the last, which may be on its
\* way, are acknowledged.
LEMMA LastSent ==
  ASSUME NEW s \in Drivers, NEW fr \in Seq(Frames), DriverInv(s, fr), NEW live, Own(s, live),
         Fills(s), s.MSR = {}, s.MTDR = <<>>, s.TDIE, Len(s.done) = s.size, s.size > 0,
         Framed(s, fr), Filling(s), NEW k, s.buffer = <<k, "out">>
  PROVE  \/ SentIn(fr, k, s.size)
         \/ /\ SentIn(fr, k, s.size - 1) /\ Doing1(s, "TRANSMIT") /\ InWrite(s, fr)
            /\ fr[Len(fr)].call = k /\ Len(fr[Len(fr)].bytes) >= s.size - 1
<1> DEFINE f == fr[Len(fr)]
           b == f.bytes
           n == Len(b)
<1>1. Clean(s) /\ ~s.ignore_tdf /\ s.state = "transferring"
  BY CleanLemma DEF Fills
<1>2. ~Doing1(s, "START") /\ ~Doing1(s, "STOP") /\ ~Doing1(s, "RECEIVE")
  BY <1>1 DEF Own, Shape
<1>3. s.command = <<>> \/ Doing1(s, "TRANSMIT")
  BY <1>2, CommandLemma DEF Doing1, Commands
<1>4. InWrite(s, fr)
  <2>1. s.MBF
    BY <1>1 DEF Filling
  <2> QED BY <1>1, <1>2, <2>1 DEF Framed
<1>5. f \in Frames /\ Len(fr) \in DOMAIN fr /\ f.ack /\ f.dir = "write"
  BY <1>4 DEF InWrite
<1>6. b \in Seq(OutBytes \cup InBytes) /\ n \in Nat
  BY <1>5 DEF Frames
<1>7. Only(s, "TRANSMIT") /\ Len(s.MTDR) = 0
  BY EmptyFifo
<1>8. Due(s, f.call, n + IF s.command = <<>> THEN 0 ELSE 1)
  BY <1>1, <1>3, <1>4 DEF DriverInv, Queued, Writing, Clean
<1>9. /\ s.buffer = <<f.call, "out">>
      /\ Len(s.done) = (n + IF s.command = <<>> THEN 0 ELSE 1) + Len(s.MTDR)
  BY <1>1, <1>7, <1>8 DEF Due
<1>10. f.call = k
  BY <1>9
<1> HIDE DEF n
<1>11. CASE s.command = <<>>
  <2>1. n >= s.size
    BY <1>6, <1>7, <1>9, <1>11
  <2> QED BY <1>5, <1>10, <2>1 DEF SentIn, n
<1>12. CASE s.command # <<>>
  <2>1. n >= s.size - 1
    BY <1>6, <1>7, <1>9, <1>12
  <2>2. SentIn(fr, k, s.size - 1)
    BY <1>5, <1>10, <2>1 DEF SentIn, n
  <2> QED BY <1>3, <1>4, <1>10, <1>12, <2>1, <2>2 DEF n
<1> QED BY <1>11, <1>12

\* The interrupt during a write.
LEMMA WriteServed ==
  ASSUME NEW s \in Drivers, NEW fr \in Seq(Frames), DriverInv(s, fr), NEW live, Own(s, live),
         Wants(s), NEW fa, Sound(s, fr, fa), NEW k, WriteOf(s, fr, k)
  PROVE  WriteOf(Interrupted(s), fr, k)
<1> DEFINE t == Interrupted(s)
<1>1. /\ Untouched(s, t) /\ Keeps(s, t)
      /\ \A op : Doing1(t, op) <=> Doing1(s, op)
      /\ \/ Told(s, t) /\ (Unbegun(s) => s.MTDR # <<>>)
         \/ Queues(s, t) \/ Completes(s, t)
  BY ServedBoth DEF WriteOf
<1> SUFFICES WriteOf(t, fr, k)
  OBVIOUS
<1> HIDE DEF t
<1>2. /\ ~t.ignore_tdf /\ t.size > 0 /\ t.buffer = <<k, "out">> /\ t.size = s.size
      /\ t.stop_on_completion = s.stop_on_completion /\ ~s.ignore_tdf
      /\ s.buffer = <<k, "out">>
      /\ InWrite(t, fr) <=> InWrite(s, fr)
  BY <1>1 DEF WriteOf, Untouched, Keeps, InWrite
<1>3. Framed(s, fr) /\ Filling(s)
  BY DEF Sound
<1>4. CASE Unmoved(s, t)
  BY <1>4 DEF Unmoved
<1>5. CASE Failed(s, t)
  <2>1. t.error # "ok" /\ ~finished(t)
    BY <1>5 DEF Failed, finished, BusyStates
  <2> QED BY <1>2, <2>1 DEF WriteOf
<1>6. CASE Ceased(s, t) /\ (Unbegun(s) => s.MTDR # <<>>)
  <2>1. s.MSR = {"SDF"} /\ t.MTDR = s.MTDR /\ t.done = s.done /\ t.error = s.error
        /\ t.state = "stopped" /\ Clean(s) /\ s.command = <<>>
    BY <1>6, CleanLemma DEF Ceased, Own, Prompt
  <2>2. s.done # <<>>
    <3> SUFFICES ASSUME s.done = <<>>
                 PROVE  FALSE
      OBVIOUS
    <3>1. Unbegun(s) /\ s.MTDR # <<>> /\ ~Has(s, "START") /\ ~Still(s)
      BY <1>2, <1>6, <2>1 DEF Unbegun, Own, Prompt, Still
    <3>2. ~First(s, "START")
      BY <3>1 DEF First, Has, Drivers
    <3> QED BY <2>1, <3>1, <3>2 DEF Own, Waiting
  <2>3. s.state # "transferring"
    BY <1>2, <1>3, <2>1 DEF Filling, Fills
  <2>4. ~Doing1(s, "TRANSMIT")
    BY <2>1 DEF Doing1
  <2> QED BY <1>2, <2>1, <2>2, <2>3, <2>4 DEF WriteOf
<1>7. CASE Queues(s, t)
  BY <1>2, <1>7 DEF Queues, WriteOf
<1>8. CASE Completes(s, t)
  <2>1. /\ s.MSR = {} /\ s.MTDR = <<>> /\ t.done # <<>> /\ Len(s.done) = s.size
        /\ s.state = "transferring"
        /\ t.state = IF t.stop_on_completion THEN "stopping" ELSE "transfer_complete"
    BY <1>8 DEF Completes
  <2>2. Fills(s) /\ s.MRDR = <<>> /\ s.TDIE
    BY <1>2, <2>1 DEF Fills, Own, Prompt, Wants
  <2>3. \/ SentIn(fr, k, s.size)
        \/ /\ SentIn(fr, k, s.size - 1) /\ Doing1(s, "TRANSMIT") /\ InWrite(s, fr)
           /\ fr[Len(fr)].call = k /\ Len(fr[Len(fr)].bytes) >= s.size - 1
    BY <1>2, <1>3, <2>1, <2>2, LastSent
  <2> QED BY <1>1, <1>2, <2>1, <2>3 DEF WriteOf
<1> QED BY <1>1, <1>4, <1>5, <1>6, <1>7, <1>8 DEF Told

\* The interrupt during a write of no bytes.
LEMMA EmptyServed ==
  ASSUME NEW s \in Drivers, NEW fr, NEW live, Own(s, live), ~Reads(s), NEW k, EmptyOf(s, fr, k)
  PROVE  EmptyOf(Interrupted(s), fr, k)
<1> DEFINE t == Interrupted(s)
<1>1. Untouched(s, t) /\ Told(s, t)
  BY ServedRead DEF EmptyOf, Took, Reads
<1> SUFFICES EmptyOf(t, fr, k)
  OBVIOUS
<1> HIDE DEF t
<1>2. /\ t.ignore_tdf /\ t.command = s.command
      /\ Doing1(t, "START") <=> Doing1(s, "START")
  BY <1>1 DEF Untouched, EmptyOf, Doing1
<1>3. CASE Unmoved(s, t)
  BY <1>3 DEF Unmoved
<1>4. CASE Failed(s, t)
  <2>1. t.error # "ok" /\ (t.MTDR = s.MTDR \/ t.MTDR = <<>> \/ t.MTDR = <<STOP>>)
    BY <1>4 DEF Failed
  <2>2. \A j \in 1 .. Len(t.MTDR) : t.MTDR[j].op = "START" =>
          t.MTDR[j].dir = "write" /\ t.MTDR[j].call = k
    BY <2>1, NoCommands DEF EmptyOf
  <2> QED BY <1>2, <2>1, <2>2 DEF EmptyOf
<1>5. CASE Ceased(s, t)
  <2>1. t.MTDR = s.MTDR /\ t.error = s.error /\ Clean(s)
    BY <1>5, CleanLemma DEF Ceased
  <2>2. Beginning(t) <=> Beginning(s)
    BY <1>2, <2>1 DEF Beginning, Has
  <2> QED BY <1>2, <2>1, <2>2 DEF EmptyOf
<1> QED BY <1>1, <1>3, <1>4, <1>5 DEF Told

-----------------------------------------------------------------------------
\* The port touches neither the driver's variables nor TDIE.
Stays(s, t) ==
  /\ Steady(s, t) /\ t.TDIE = s.TDIE /\ t.stop_on_completion = s.stop_on_completion

LEMMA SoundTaken ==
  ASSUME NEW s \in Drivers, NEW fr, DriverInv(s, fr), NEW live, Own(s, live), NEW t,
         Taken(s, t), Stays(s, t), s.MSR = {},
         t.MBF <=> s.MBF \/ s.MTDR[1].op = "START", NEW fa, Sound(s, fr, fa)
  PROVE  Sound(t, fr, fa)
<1>1. /\ t.command # <<>> /\ t.command[1] = s.MTDR[1]
      /\ 1 \in 1 .. Len(s.MTDR)
      /\ \A op : /\ Has(s, op) <=> Doing1(t, op) \/ Has(t, op)
                 /\ ~Doing1(s, op)
      /\ \A j \in 1 .. Len(t.MTDR) : j + 1 \in 1 .. Len(s.MTDR) /\ t.MTDR[j] = s.MTDR[j + 1]
  BY NextCommand
<1>2. /\ t.state = s.state /\ t.ignore_tdf = s.ignore_tdf /\ t.done = s.done
      /\ t.MSR = {} /\ t.TDIE = s.TDIE /\ Clean(s) /\ Clean(t)
      /\ s.MTDR # <<>> /\ t.MTDR = Tail(s.MTDR)
      /\ Fills(t) <=> Fills(s)
      /\ Unbegun(t) <=> Unbegun(s)
  BY CleanLemma DEF Taken, Stays, Steady, Fills, Unbegun
<1>3. Doing1(t, "START") <=> s.MTDR[1].op = "START"
  BY <1>1 DEF Doing1
<1>4. ~t.ignore_tdf => WriteStarts(t)
  BY <1>1, <1>2 DEF Sound, Framed, WriteStarts, Doing1
<1>5. Framed(t, fr)
  BY <1>1, <1>2, <1>3, <1>4 DEF Sound, Framed, Sends, InWrite
<1>6. Filling(t)
  <2> SUFFICES ASSUME Fills(s)
               PROVE  /\ ~Doing1(t, "STOP")
                      /\ ~s.MBF => ~t.TDIE /\ Doing1(t, "TRANSMIT")
    BY <1>2 DEF Filling
  <2>1. ~Has(s, "STOP")
    BY DEF Own, Shape, Fills
  <2>2. ~s.MBF => ~s.TDIE /\ First(s, "TRANSMIT")
    BY <1>1, <1>2 DEF Sound, Filling
  <2>3. First(s, "TRANSMIT") => Doing1(t, "TRANSMIT")
    BY <1>1 DEF First, Doing1
  <2> QED BY <1>1, <1>2, <2>1, <2>2, <2>3
<1>7. GivenUp(t, fa)
  <2> SUFFICES ASSUME Unbegun(s), s.state = "stopping"
               PROVE  /\ ~t.TDIE /\ (t.MBF => fa # <<>>)
                      /\ t.MTDR = <<>> => Doing1(t, "STOP")
    BY <1>2 DEF GivenUp
  <2>1. ~s.TDIE /\ (s.MBF => fa # <<>>)
    BY DEF Sound, GivenUp
  <2>2. ~Has(s, "START") /\ ~First(s, "START")
    <3>1. ~Has(s, "START")
      BY DEF Own, Shape
    <3>2. First(s, "START") => Has(s, "START")
      BY <1>1 DEF First, Has
    <3> QED BY <3>1, <3>2
  <2>3. t.MBF <=> s.MBF
    BY <1>1, <2>2 DEF Has
  <2>4. s.MTDR = <<STOP>>
    BY <1>2, <2>2 DEF Own, Waiting, Still
  <2>5. Doing1(t, "STOP")
    BY <1>1, <2>4, StopLemma DEF Doing1
  <2> QED BY <1>2, <2>1, <2>3, <2>5
<1> QED BY <1>2, <1>5, <1>6, <1>7 DEF Sound, Blamed

LEMMA WriteTaken ==
  ASSUME NEW s \in Drivers, NEW t, Taken(s, t), Stays(s, t), NEW fr, NEW k
  PROVE  /\ WriteOf(s, fr, k) => WriteOf(t, fr, k)
         /\ EmptyOf(s, fr, k) => EmptyOf(t, fr, k)
<1>1. /\ t.command # <<>> /\ t.command[1] = s.MTDR[1]
      /\ 1 \in 1 .. Len(s.MTDR)
      /\ \A op : /\ Has(s, op) <=> Doing1(t, op) \/ Has(t, op)
                 /\ ~Doing1(s, op)
      /\ \A j \in 1 .. Len(t.MTDR) : j + 1 \in 1 .. Len(s.MTDR) /\ t.MTDR[j] = s.MTDR[j + 1]
  BY NextCommand
<1>2. /\ t.state = s.state /\ t.error = s.error /\ t.ignore_tdf = s.ignore_tdf
      /\ t.size = s.size /\ t.done = s.done /\ t.buffer = s.buffer
      /\ t.stop_on_completion = s.stop_on_completion
      /\ Clean(t) <=> Clean(s)
  BY DEF Taken, Stays, Steady, Clean
<1>3. WriteOf(s, fr, k) => WriteOf(t, fr, k)
  BY <1>1, <1>2 DEF WriteOf, finished
<1>4. EmptyOf(s, fr, k) => EmptyOf(t, fr, k)
  BY <1>1, <1>2 DEF EmptyOf, Beginning, Doing1
<1> QED BY <1>3, <1>4

\* A command is over: what that leaves of what was given up, and of the STARTs.
LEMMA SoundPast ==
  ASSUME NEW s, NEW t, Past(s, t), Stays(s, t), s.MSR = {}, NEW fr, NEW gr, NEW fa, NEW ga,
         Sound(s, fr, fa), Blamed(t, ga),
         Fills(t) => "SDF" \notin t.MSR,
         t.MBF => s.MBF, t.MBF /\ fa # <<>> => ga # <<>>,
         t.MSR \cap Failures # {} => ~Doing1(s, "STOP"),
         Sends(t) \/ Fills(t) => ~Clean(t) \/ ~t.MBF \/ InWrite(t, gr),
         Fills(t) /\ Clean(t) /\ ~t.MBF => ~s.MBF /\ ~Doing1(s, "TRANSMIT")
  PROVE  Sound(t, gr, ga)
<1>1. \A op : (Has(t, op) <=> Has(s, op)) /\ ~Doing1(t, op)
  BY PastLemma
<1>2. /\ t.state = s.state /\ t.ignore_tdf = s.ignore_tdf /\ t.done = s.done
      /\ t.TDIE = s.TDIE /\ Clean(s) /\ t.MTDR = s.MTDR /\ t.command = <<>> /\ s.command # <<>>
      /\ Fills(t) <=> Fills(s)
      /\ Unbegun(t) <=> Unbegun(s)
      /\ First(t, "TRANSMIT") <=> First(s, "TRANSMIT")
  BY CleanLemma DEF Past, Stays, Steady, Fills, Unbegun, First
<1>3. ~t.ignore_tdf => WriteStarts(t)
  BY <1>1, <1>2 DEF Sound, Framed, WriteStarts
<1>4. Framed(t, gr)
  BY <1>1, <1>3 DEF Framed
<1>5. Filling(t)
  BY <1>1, <1>2 DEF Sound, Filling
<1>6. GivenUp(t, ga)
  BY <1>1, <1>2 DEF Sound, GivenUp
<1> QED BY <1>4, <1>5, <1>6 DEF Sound

\* A command fails.
LEMMA SoundFailed ==
  ASSUME NEW s, NEW t, Past(s, t), Stays(s, t), s.MSR = {}, NEW fr, NEW gr, NEW fa, NEW ga,
         NEW live, Own(s, live), Sound(s, fr, fa),
         NEW flag \in {"NDF", "ALF", "FEF"}, t.MSR = {flag}, t.MBF => s.MBF,
         flag # "FEF" => ga # <<>> /\ (Doing1(s, "START") \/ Doing1(s, "TRANSMIT")),
         flag = "FEF" => /\ ga = fa
                         /\ \/ Doing1(s, "TRANSMIT") /\ ~InWrite(s, fr)
                            \/ Doing1(s, "RECEIVE")
  PROVE  /\ Sound(t, gr, ga)
         /\ \A k : /\ WriteOf(s, fr, k) => WriteOf(t, gr, k)
                   /\ EmptyOf(s, fr, k) => EmptyOf(t, gr, k)
<1>1. \A op : (Has(t, op) <=> Has(s, op)) /\ ~Doing1(t, op)
  BY PastLemma
<1>2. /\ t.state = s.state /\ t.ignore_tdf = s.ignore_tdf /\ t.done = s.done
      /\ t.buffer = s.buffer /\ t.size = s.size /\ t.MTDR = s.MTDR
      /\ Clean(s) /\ ~Clean(t)
  BY CleanLemma DEF Past, Steady, Clean, Final, Failures
<1>3. ~Doing1(s, "STOP")
  BY DEF Doing1
<1>4. Blamed(t, ga)
  <2>1. flag = "FEF" /\ ~s.ignore_tdf => ~s.MBF
    <3>1. Doing1(s, "RECEIVE") => s.ignore_tdf
      BY DEF Own, Shape
    <3>2. Doing1(s, "TRANSMIT") /\ s.MBF => InWrite(s, fr)
      BY <1>2 DEF Sound, Framed, Sends, Doing1
    <3> QED BY <3>1, <3>2
  <2> QED BY <1>2, <2>1 DEF Blamed
<1>5. Sound(t, gr, ga)
  <2>1. "SDF" \notin t.MSR
    OBVIOUS
  <2>2. fa # <<>> => ga # <<>>
    OBVIOUS
  <2> QED BY <1>2, <1>3, <1>4, <2>1, <2>2, SoundPast
<1>6. ASSUME NEW k
      PROVE  /\ WriteOf(s, fr, k) => WriteOf(t, gr, k)
             /\ EmptyOf(s, fr, k) => EmptyOf(t, gr, k)
  BY <1>1, <1>2 DEF WriteOf, EmptyOf, finished
<1> QED BY <1>5, <1>6

\* A STOP is sent.
LEMMA SoundStop ==
  ASSUME NEW s, NEW t, Past(s, t), Stays(s, t), s.MSR = {}, NEW fr, NEW fa, Sound(s, fr, fa),
         Doing1(s, "STOP"), ~t.MBF, t.MSR = IF s.MBF THEN {"SDF"} ELSE {}
  PROVE  /\ Sound(t, fr, fa)
         /\ \A k : /\ WriteOf(s, fr, k) => WriteOf(t, fr, k)
                   /\ EmptyOf(s, fr, k) => EmptyOf(t, fr, k)
<1>1. /\ \A op : (Has(t, op) <=> Has(s, op)) /\ ~Doing1(t, op)
      /\ ~Doing1(s, "START") /\ ~Doing1(s, "TRANSMIT")
      /\ Beginning(t) <=> Beginning(s)
  BY PastLemma DEF Doing1
<1>2. /\ t.state = s.state /\ t.ignore_tdf = s.ignore_tdf /\ t.done = s.done
      /\ t.buffer = s.buffer /\ t.size = s.size /\ t.MTDR = s.MTDR /\ t.error = s.error
      /\ t.stop_on_completion = s.stop_on_completion
      /\ Clean(s) /\ (Fills(t) <=> Fills(s))
  BY CleanLemma DEF Past, Stays, Steady, Fills
<1>3. Blamed(t, fa) /\ t.MSR \cap Failures = {}
  BY DEF Blamed, Failures
<1>4. Fills(t) => ~s.MBF /\ "SDF" \notin t.MSR
  BY <1>2 DEF Sound, Filling
<1>5. Sound(t, fr, fa)
  BY <1>1, <1>3, <1>4, SoundPast
<1>6. ASSUME NEW k
      PROVE  /\ WriteOf(s, fr, k) => WriteOf(t, fr, k)
             /\ EmptyOf(s, fr, k) => EmptyOf(t, fr, k)
  BY <1>1, <1>2 DEF WriteOf, EmptyOf, finished
<1> QED BY <1>5, <1>6

-----------------------------------------------------------------------------
\* A START is acknowledged.
LEMMA SoundStarted ==
  ASSUME NEW s \in Drivers, NEW fr \in Seq(Frames), DriverInv(s, fr), NEW live, Own(s, live),
         NEW t, Past(s, t), Stays(s, t), s.MSR = {}, t.MSR = {}, t.MBF, NEW fa, Sound(s, fr, fa),
         Doing1(s, "START"), NEW f \in Frames, f.ack, f.bytes = <<>>,
         f.dir = s.command[1].dir, f.call = s.command[1].call
  PROVE  /\ Sound(t, Append(fr, f), fa)
         /\ \A k \in Nat : /\ WriteOf(s, fr, k) => WriteOf(t, Append(fr, f), k)
                           /\ EmptyOf(s, fr, k) => EmptyOf(t, Append(fr, f), k)
<1> DEFINE gr == Append(fr, f)
<1>1. /\ \A op : (Has(t, op) <=> Has(s, op)) /\ ~Doing1(t, op)
      /\ ~Doing1(s, "STOP") /\ ~Doing1(s, "TRANSMIT") /\ ~Doing1(s, "RECEIVE")
      /\ Beginning(s)
  BY PastLemma DEF Doing1, Beginning
<1>2. /\ t.state = s.state /\ t.ignore_tdf = s.ignore_tdf /\ t.done = s.done
      /\ t.buffer = s.buffer /\ t.size = s.size /\ t.MTDR = s.MTDR /\ t.error = s.error
      /\ t.stop_on_completion = s.stop_on_completion
      /\ Clean(s) /\ Clean(t) /\ (Fills(t) <=> Fills(s))
  BY CleanLemma DEF Past, Stays, Steady, Fills
<1>3. s.MBF
  BY DEF Own, Shape
<1>4. gr \in Seq(Frames) /\ gr # <<>> /\ Len(gr) \in DOMAIN gr /\ gr[Len(gr)] = f
  <2>1. gr \in Seq(Frames) /\ Len(gr) = Len(fr) + 1 /\ gr[Len(fr) + 1] = f /\ Len(fr) \in Nat
    BY AppendLemma
  <2> HIDE DEF gr
  <2>2. Len(gr) # 0 /\ Len(gr) \in DOMAIN gr
    BY <2>1
  <2> QED BY <2>1, <2>2, StopLemma
<1>5. \A k, n \in Int : SentIn(fr, k, n) => SentIn(gr, k, n)
  BY SentStays
<1> HIDE DEF gr
<1>6. f.dir = "write" => SentIn(gr, f.call, 0)
  <2>1. Len(<<>>) >= 0
    OBVIOUS
  <2> QED BY <1>4, <2>1 DEF SentIn
<1>7. Sends(t) \/ Fills(t) => InWrite(t, gr)
  <2> SUFFICES ASSUME Sends(t) \/ Fills(t)
               PROVE  InWrite(t, gr)
    OBVIOUS
  <2>1. ~s.ignore_tdf
    BY <1>1, <1>2 DEF Sends, Fills, DriverInv, Consistent
  <2>2. f.dir = "write"
    BY <2>1 DEF Sound, Framed, WriteStarts
  <2> QED BY <1>4, <2>2 DEF InWrite
<1>8. Blamed(t, fa) /\ t.MSR \cap Failures = {}
  BY DEF Blamed
<1>9. Sound(t, gr, fa)
  BY <1>1, <1>3, <1>7, <1>8, SoundPast
<1>10. ASSUME NEW k \in Nat, WriteOf(s, fr, k)
       PROVE  WriteOf(t, gr, k)
  <2>1. s.size \in Int /\ s.size - 1 \in Int
    BY DEF Drivers
  <2> QED BY <1>1, <1>2, <1>5, <1>10, <2>1 DEF WriteOf, finished
<1>11. ASSUME NEW k \in Nat, EmptyOf(s, fr, k)
       PROVE  EmptyOf(t, gr, k)
  <2>1. f.dir = "write" /\ f.call = k
    BY <1>11 DEF EmptyOf
  <2> QED BY <1>1, <1>2, <1>6, <1>11, <2>1 DEF EmptyOf
<1> QED BY <1>9, <1>10, <1>11 DEF gr

\* A byte is acknowledged.
LEMMA SoundByte ==
  ASSUME NEW s \in Drivers, NEW fr \in Seq(Frames), NEW t, Past(s, t), Stays(s, t),
         s.MSR = {}, t.MSR = {}, t.MBF, NEW fa, Sound(s, fr, fa),
         Doing1(s, "TRANSMIT"), InWrite(s, fr), NEW byte \in OutBytes
  PROVE  LET gr == [fr EXCEPT ![Len(fr)].bytes = Append(@, byte)]
         IN  /\ Sound(t, gr, fa)
             /\ \A k \in Nat : /\ WriteOf(s, fr, k) => WriteOf(t, gr, k)
                               /\ EmptyOf(s, fr, k) => EmptyOf(t, gr, k)
<1> DEFINE gr == [fr EXCEPT ![Len(fr)].bytes = Append(@, byte)]
           f == fr[Len(fr)]
           h == gr[Len(gr)]
<1>1. /\ \A op : (Has(t, op) <=> Has(s, op)) /\ ~Doing1(t, op)
      /\ ~Doing1(s, "STOP") /\ ~Doing1(s, "START")
      /\ Beginning(t) <=> Beginning(s)
  BY PastLemma DEF Doing1
<1>2. /\ t.state = s.state /\ t.ignore_tdf = s.ignore_tdf /\ t.done = s.done
      /\ t.buffer = s.buffer /\ t.size = s.size /\ t.MTDR = s.MTDR /\ t.error = s.error
      /\ t.stop_on_completion = s.stop_on_completion
      /\ Clean(s) /\ Clean(t)
  BY CleanLemma DEF Past, Stays, Steady
<1>3. fr # <<>> /\ f.dir = "write" /\ f.ack /\ s.MBF /\ f \in Frames /\ byte \in OutBytes \cup InBytes
  BY DEF InWrite
<1>4. \A k, n \in Int : SentIn(fr, k, n) => SentIn(gr, k, n)
  BY <1>3, SentStays
<1>5. /\ gr \in Seq(Frames) /\ Len(gr) = Len(fr) /\ gr # <<>>
      /\ h.call = f.call /\ h.ack = f.ack /\ h.dir = f.dir /\ h.bytes = Append(f.bytes, byte)
  <2>1. /\ gr \in Seq(Frames) /\ Len(gr) = Len(fr) /\ gr # <<>>
        /\ LET g == gr[Len(fr)]
           IN  /\ g.call = f.call /\ g.ack = f.ack /\ g.dir = f.dir
               /\ g.bytes = Append(f.bytes, byte)
    BY <1>3, LastGrown
  <2> HIDE DEF gr
  <2> QED BY <2>1
<1> HIDE DEF gr
<1>6. InWrite(t, gr)
  BY <1>3, <1>5 DEF InWrite
<1>7. Len(gr) \in DOMAIN gr
  <2>1. Len(fr) # 0 /\ Len(fr) \in Nat
    BY <1>3
  <2> QED BY <1>5, <2>1
<1>8. Len(h.bytes) = Len(f.bytes) + 1 /\ Len(f.bytes) \in Nat
  <2>1. f.bytes \in Seq(OutBytes \cup InBytes)
    BY <1>3 DEF Frames
  <2> QED BY <1>3, <1>5, <2>1, AppendLemma
<1> HIDE DEF h, f
<1>9. Blamed(t, fa) /\ t.MSR \cap Failures = {}
  BY DEF Blamed
<1>10. Sound(t, gr, fa)
  BY <1>3, <1>6, <1>9, SoundPast
<1>11. ASSUME NEW k \in Nat, WriteOf(s, fr, k)
       PROVE  WriteOf(t, gr, k)
  <2>1. s.size \in Int /\ s.size - 1 \in Int
    BY DEF Drivers
  <2>2. f.call = k /\ Len(f.bytes) >= s.size - 1 => SentIn(gr, k, s.size)
    <3>1. Len(f.bytes) >= s.size - 1 => Len(h.bytes) >= s.size
      BY <1>8, <2>1
    <3> QED BY <1>3, <1>5, <1>7, <3>1 DEF SentIn, h
  <2>3. f.call = fr[Len(fr)].call /\ f.bytes = fr[Len(fr)].bytes
    BY DEF f
  <2> QED BY <1>1, <1>2, <1>4, <1>11, <2>1, <2>2, <2>3 DEF WriteOf, finished
<1>12. ASSUME NEW k \in Nat, EmptyOf(s, fr, k)
       PROVE  EmptyOf(t, gr, k)
  BY <1>1, <1>2, <1>4, <1>12 DEF EmptyOf
<1> QED BY <1>10, <1>11, <1>12 DEF gr

\* A byte comes in.
LEMMA SoundReceived ==
  ASSUME NEW s, NEW live, Own(s, live), NEW t, Stays(s, t), s.MSR = {}, t.MSR = {},
         Doing1(s, "RECEIVE"), t.MTDR = s.MTDR,
         t.command = <<>> \/ Doing1(t, "RECEIVE"), NEW fr, NEW gr, NEW fa
  PROVE  Sound(t, gr, fa) /\ \A k : ~WriteOf(s, fr, k)
<1>1. s.ignore_tdf /\ Only(s, "STOP") /\ t.ignore_tdf = s.ignore_tdf
  BY DEF Own, Shape, Stays, Steady
<1>2. ~Sends(t) /\ ~Fills(t) /\ ~Unbegun(t)
  BY <1>1 DEF Sends, Has, Only, Doing1, Fills, Unbegun
<1> QED BY <1>1, <1>2 DEF Sound, Blamed, Framed, Filling, GivenUp, WriteOf

\* SCL is held low for the first time.
LEMMA SoundHeld ==
  ASSUME NEW s, NEW t, Stays(s, t), s.MSR = {}, t.MSR = {"PLTF"}, t.command = s.command,
         t.MBF = s.MBF, t.MTDR = s.MTDR, s.command # <<>>,
         NEW fr, NEW ga, ga # <<>>, Sound(s, fr, <<>>)
  PROVE  /\ Sound(t, fr, ga)
         /\ \A k : /\ WriteOf(s, fr, k) => WriteOf(t, fr, k)
                   /\ EmptyOf(s, fr, k) => EmptyOf(t, fr, k)
<1>1. /\ \A op : /\ Has(t, op) <=> Has(s, op)
                 /\ Doing1(t, op) <=> Doing1(s, op)
                 /\ First(t, op) <=> First(s, op)
      /\ Beginning(t) <=> Beginning(s)
      /\ WriteStarts(t) <=> WriteStarts(s)
  BY DEF Has, Doing1, First, Beginning, WriteStarts
<1>2. /\ t.state = s.state /\ t.ignore_tdf = s.ignore_tdf /\ t.done = s.done
      /\ t.buffer = s.buffer /\ t.size = s.size /\ t.error = s.error
      /\ t.stop_on_completion = s.stop_on_completion /\ t.TDIE = s.TDIE
      /\ Clean(s) /\ Clean(t) /\ (Fills(t) <=> Fills(s)) /\ (Unbegun(t) <=> Unbegun(s))
      /\ Sends(t) <=> Sends(s)
  BY <1>1, CleanLemma DEF Stays, Steady, Fills, Unbegun, Sends
<1>3. Blamed(t, ga)
  BY DEF Blamed
<1>4. Framed(t, fr)
  BY <1>1, <1>2 DEF Sound, Framed, InWrite
<1>5. Filling(t)
  BY <1>1, <1>2 DEF Sound, Filling
<1>6. GivenUp(t, ga)
  BY <1>1, <1>2 DEF Sound, GivenUp
<1>7. ASSUME NEW k
      PROVE  /\ WriteOf(s, fr, k) => WriteOf(t, fr, k)
             /\ EmptyOf(s, fr, k) => EmptyOf(t, fr, k)
  BY <1>1, <1>2 DEF WriteOf, EmptyOf, finished, InWrite
<1> QED BY <1>3, <1>4, <1>5, <1>6, <1>7 DEF Sound

-----------------------------------------------------------------------------
\* A fault is added to the others: a pin is held low first, or not at all.
LEMMA FaultAdded ==
  ASSUME faults \in Seq(Faults), NEW kind, Fault(kind)
  PROVE  /\ faults' # <<>>
         /\ OneReason' => OneReason
         /\ OneReason' /\ kind = "pin" => faults = <<>>
<1> DEFINE q == faults
           r == Append(q, kind)
           S == Faults \cup {kind}
<1>1. faults' = r
  BY DEF Fault
<1>2. /\ q \in Seq(S) /\ Len(q) \in Nat /\ Len(r) = Len(q) + 1
      /\ \A i \in DOMAIN q : i \in DOMAIN r /\ r[i] = q[i]
      /\ Len(q) + 1 \in DOMAIN r /\ r[Len(q) + 1] = kind
      /\ Len(q) = 0 => q = <<>>
  <2>1. q \in Seq(S) /\ kind \in S
    OBVIOUS
  <2> HIDE DEF q, S
  <2> QED BY <2>1
<1> HIDE DEF q, r
<1>3. r # <<>>
  <2>1. Len(r) # 0
    BY <1>2
  <2> QED BY <2>1
<1>4. ("pin" \in ToSet(q) => "pin" \in ToSet(r)) /\ kind \in ToSet(r)
  BY <1>2 DEF ToSet
<1>5. "pin" \in ToSet(q) => Len(q) # 0
  BY <1>2 DEF ToSet, q
<1>6. Len(r) = 1 <=> Len(q) = 0
  BY <1>2
<1>7. OneReason <=> ("pin" \in ToSet(q) => Len(q) = 1)
  BY DEF OneReason, q
<1>8. OneReason' <=> ("pin" \in ToSet(r) => Len(r) = 1)
  BY <1>1 DEF OneReason
<1>9. OneReason' => OneReason
  BY <1>4, <1>5, <1>6, <1>7, <1>8
<1>10. OneReason' /\ kind = "pin" => q = <<>>
  BY <1>2, <1>4, <1>6, <1>8
<1> QED BY <1>1, <1>3, <1>9, <1>10 DEF q

LEMMA OneReasonStays ==
  ASSUME IInv, [Next]_vars, OneReason'
  PROVE  OneReason
<1>1. faults \in Seq(Faults)
  BY DEF IInv, CallerInv
<1>2. UNCHANGED faults \/ \E kind \in Faults \cup {"NAK", "NAK too late"} : Fault(kind)
  BY DEF vars, Next, Caller, Begin, TimeOut, ReadRegister, Return, Restart, begin, Transfer,
         interrupt_service_routine, Port, TakeCommand, SendStart, SendByte, ReceiveByte,
         FifoError, SendStop, LoseArbitration, HoldPinLow, Answer, Faults
<1>3. CASE UNCHANGED faults
  BY <1>3 DEF OneReason
<1>4. CASE \E kind \in Faults \cup {"NAK", "NAK too late"} : Fault(kind)
  BY <1>1, <1>4, FaultAdded
<1> QED BY <1>2, <1>3, <1>4

\* What the interrupt and the port carry on of a write.
SendsOn(s, fr, t, gr, ga) ==
  /\ Sound(t, gr, ga) /\ t.stop_on_completion = s.stop_on_completion
  /\ \A j : \A n \in Int : SentIn(fr, j, n) => SentIn(gr, j, n)
  /\ \A j \in Nat : /\ WriteOf(s, fr, j) => WriteOf(t, gr, j)
                    /\ EmptyOf(s, fr, j) /\ ~Reads(s) => EmptyOf(t, gr, j)

\* The interrupt, or the port while no interrupt waits.
LEMMA TransferSends ==
  ASSUME IInv, OwnInv, Transfer, Undisturbed, ~late, OneReason',
         Sound(i2c, frames, faults)
  PROVE  SendsOn(i2c, frames, i2c', frames', faults')
<1> DEFINE s == i2c
           t == i2c'
           fr == frames
           fa == faults
           live == Live
<1>1. s \in Drivers /\ Own(s, live) /\ DriverInv(s, fr) /\ fr \in Seq(Frames)
      /\ fa \in Seq(Faults) /\ Sound(s, fr, fa)
  BY DEF IInv, DriverInv, Truthful, OwnInv, CallerInv
<1>2. /\ AllServed(s) <=> ~Pending
      /\ Wants(s) <=> Pending
  BY DEF AllServed, Wants, Pending
<1>3. CASE interrupt_service_routine
  <2>1. t = Interrupted(s) /\ frames' = fr /\ faults' = fa
    BY <1>3 DEF interrupt_service_routine, Interrupted
  <2>2. Wants(s)
    BY <1>2, <1>3 DEF interrupt_service_routine
  <2> HIDE DEF s, t, live, fr, fa
  <2>3. Sound(t, fr, fa)
    BY <1>1, <2>1, <2>2, SoundServed
  <2>4. ASSUME NEW j
        PROVE  /\ WriteOf(s, fr, j) => WriteOf(t, fr, j)
               /\ EmptyOf(s, fr, j) /\ ~Reads(s) => EmptyOf(t, fr, j)
    BY <1>1, <2>1, <2>2, WriteServed, EmptyServed
  <2>5. Keeps(s, t)
    BY <1>1, <2>1, InterruptKeeps
  <2>6. SendsOn(s, fr, t, fr, fa)
    BY <2>3, <2>4, <2>5 DEF SendsOn, Keeps
  <2> QED BY <2>1, <2>6 DEF s, t, fr
<1>4. SUFFICES ASSUME Port, AllServed(s)
               PROVE  SendsOn(s, fr, t, frames', faults')
  <2>1. Port => ~Pending
    BY Zenon DEF Port, TakeCommand, SendStart, SendByte, ReceiveByte, FifoError, SendStop,
           LoseArbitration, HoldPinLow, Doing, PortMayGoOn
  <2> QED BY <1>2, <1>3, <2>1 DEF Transfer
<1>5. s.MSR = {} /\ s.MRDR = <<>> /\ s.MBF \in BOOLEAN
  BY <1>1, <1>4 DEF AllServed, Drivers
<1>6. \A op, dir : /\ Doing(op) => s.command # <<>> /\ Doing1(s, op)
                   /\ InFrame(dir) <=> /\ s.MBF /\ fr # <<>>
                                       /\ fr[Len(fr)].ack
                                       /\ fr[Len(fr)].dir = dir
  BY DEF Doing, Doing1, InFrame, Last
<1>7. InFrame("write") <=> InWrite(s, fr)
  BY <1>6 DEF InWrite
<1>8. CASE TakeCommand
  <2> DEFINE busy == s.MBF \/ Head(s.MTDR).op = "START"
             c == <<Head(s.MTDR)>>
             rest == Tail(s.MTDR)
  <2>1. t = [s EXCEPT !.command = c, !.MTDR = rest, !.MBF = busy]
        /\ s.command = <<>> /\ s.MTDR # <<>> /\ frames' = fr /\ faults' = fa
    BY <1>8 DEF TakeCommand
  <2> HIDE DEF busy, c, rest
  <2>2. /\ t.command = c /\ t.MTDR = rest /\ t.MRDR = s.MRDR /\ t.MSR = s.MSR
        /\ t.MBF = busy /\ Steady(s, t) /\ Stays(s, t)
    BY <1>1, <2>1 DEF Drivers, Steady, Stays
  <2>3. Taken(s, t)
    BY <2>1, <2>2 DEF Taken, c, rest
  <2>4. t.MBF <=> s.MBF \/ s.MTDR[1].op = "START"
    <3>1. Head(s.MTDR) = s.MTDR[1]
      BY <1>1, <2>1 DEF Drivers
    <3> QED BY <1>1, <2>2, <3>1 DEF busy, Drivers
  <2> HIDE DEF s, t, fr, fa, live
  <2>5. Sound(t, fr, fa)
    BY <1>1, <1>5, <2>2, <2>3, <2>4, SoundTaken
  <2>6. ASSUME NEW j
        PROVE  /\ WriteOf(s, fr, j) => WriteOf(t, fr, j)
               /\ EmptyOf(s, fr, j) => EmptyOf(t, fr, j)
    BY <1>1, <2>2, <2>3, WriteTaken
  <2>7. SendsOn(s, fr, t, fr, fa)
    BY <2>2, <2>5, <2>6 DEF SendsOn, Stays
  <2> QED BY <2>1, <2>7
<1>9. ASSUME NEW flags, NEW busy, Over(flags, busy), s.command # <<>>
      PROVE  Past(s, t) /\ Stays(s, t) /\ t.MSR = flags /\ t.MBF = busy
  <2> DEFINE msr == s.MSR \cup flags
  <2>1. t = [s EXCEPT !.command = <<>>, !.MSR = msr, !.MBF = busy]
    BY <1>9 DEF Over
  <2>2. msr = flags
    BY <1>5
  <2> HIDE DEF msr
  <2>3. /\ t.command = <<>> /\ t.MSR = flags /\ t.MTDR = s.MTDR /\ t.MRDR = s.MRDR
        /\ t.MBF = busy /\ Steady(s, t) /\ Stays(s, t)
    BY <1>1, <2>1, <2>2 DEF Drivers, Steady, Stays
  <2> QED BY <1>9, <2>3 DEF Past
<1>10. ASSUME NEW flag \in {"NDF", "ALF", "FEF"}, NEW busy, Over({flag}, busy), s.command # <<>>,
              busy => s.MBF, NEW gr, NEW ga,
              \A j : \A n \in Int : SentIn(fr, j, n) => SentIn(gr, j, n),
              flag # "FEF" => ga # <<>> /\ (Doing1(s, "START") \/ Doing1(s, "TRANSMIT")),
              flag = "FEF" => /\ ga = fa
                              /\ \/ Doing1(s, "TRANSMIT") /\ ~InWrite(s, fr)
                                 \/ Doing1(s, "RECEIVE")
       PROVE  SendsOn(s, fr, t, gr, ga)
  <2>1. Past(s, t) /\ Stays(s, t) /\ t.MSR = {flag} /\ (t.MBF => s.MBF)
    BY <1>9, <1>10
  <2> HIDE DEF s, t, fr, fa, live
  <2>2. /\ Sound(t, gr, ga)
        /\ \A k : /\ WriteOf(s, fr, k) => WriteOf(t, gr, k)
                  /\ EmptyOf(s, fr, k) => EmptyOf(t, gr, k)
    BY <1>1, <1>5, <1>10, <2>1, SoundFailed
  <2> QED BY <1>10, <2>1, <2>2 DEF SendsOn, Stays
<1>11. CASE SendStart
  <2>1. PICK ack \in BOOLEAN :
          /\ frames' = Append(frames, [call |-> i2c.command[1].call, ack |-> ack,
                                       dir |-> i2c.command[1].dir, bytes |-> <<>>])
          /\ Over(IF ack THEN {} ELSE {"NDF"}, TRUE)
          /\ Answer(ack, "NAK")
    BY <1>11 DEF SendStart
  <2> DEFINE f == [call |-> s.command[1].call, ack |-> ack,
                   dir |-> s.command[1].dir, bytes |-> <<>>]
  <2>2. Doing1(s, "START") /\ s.command # <<>> /\ s.MBF
    <3>1. Doing1(s, "START") /\ s.command # <<>>
      BY <1>6, <1>11 DEF SendStart
    <3> QED BY <1>1, <3>1 DEF Own, Shape
  <2>3. f \in Frames /\ f.ack = ack /\ f.dir = s.command[1].dir
        /\ f.call = s.command[1].call /\ f.bytes = <<>>
    <3>1. <<>> \in Seq(OutBytes \cup InBytes)
      OBVIOUS
    <3> QED BY <1>1, <2>2, <3>1, CommandLemma DEF Frames, Doing1
  <2> HIDE DEF f
  <2>4. frames' = Append(fr, f)
    BY <2>1 DEF f
  <2>5. \A j : \A n \in Int : SentIn(fr, j, n) => SentIn(Append(fr, f), j, n)
    BY <1>1, <2>3, SentStays
  <2>6. CASE ack
    <3>1. Past(s, t) /\ Stays(s, t) /\ t.MSR = {} /\ t.MBF /\ faults' = fa
      BY <1>9, <2>1, <2>2, <2>6 DEF Answer
    <3> HIDE DEF s, t, fr, fa, live
    <3>2. /\ Sound(t, Append(fr, f), fa)
          /\ \A j \in Nat : /\ WriteOf(s, fr, j) => WriteOf(t, Append(fr, f), j)
                            /\ EmptyOf(s, fr, j) => EmptyOf(t, Append(fr, f), j)
      BY <1>1, <1>5, <2>2, <2>3, <2>6, <3>1, SoundStarted
    <3>3. SendsOn(s, fr, t, Append(fr, f), fa)
      BY <2>5, <3>1, <3>2 DEF SendsOn, Stays
    <3> QED BY <2>4, <3>1, <3>3
  <2>7. CASE ~ack
    <3>1. faults' # <<>>
      BY <1>1, <2>1, <2>7, FaultAdded DEF Answer
    <3>2. Over({"NDF"}, TRUE)
      BY <2>1, <2>7
    <3> DEFINE gr == frames'  ga == faults'
    <3>3. \A j : \A n \in Int : SentIn(fr, j, n) => SentIn(gr, j, n)
      BY <2>4, <2>5
    <3>4. ga # <<>>
      BY <3>1
    <3> HIDE DEF gr, ga
    <3>5. SendsOn(s, fr, t, gr, ga)
      BY <1>10, <2>2, <3>2, <3>3, <3>4
    <3> QED BY <3>5 DEF gr, ga
  <2> QED BY <2>6, <2>7
<1>12. CASE SendByte
  <2>1. PICK ack \in BOOLEAN :
          /\ ack => Transferred(i2c.command[1].byte) /\ Over({}, TRUE) /\ UNCHANGED faults
          /\ ~ack => UNCHANGED frames /\ Over({"NDF"}, TRUE) /\ \E kind : Fault(kind)
    BY Zenon, <1>12 DEF SendByte, Answer
  <2>2. Doing1(s, "TRANSMIT") /\ s.command # <<>> /\ InWrite(s, fr)
    <3>1. Doing("TRANSMIT") /\ InFrame("write")
      BY Zenon, <1>12 DEF SendByte
    <3> QED BY <1>6, <1>7, <3>1
  <2>3. CASE ack
    <3>1. Past(s, t) /\ Stays(s, t) /\ t.MSR = {} /\ t.MBF /\ faults' = fa
      BY <1>9, <2>1, <2>2, <2>3
    <3> DEFINE byte == s.command[1].byte
               gr == [fr EXCEPT ![Len(fr)].bytes = Append(@, byte)]
    <3>2. frames' = gr
      BY <2>1, <2>3 DEF Transferred
    <3>3. byte \in OutBytes
      <4>1. s.command[1].op = "TRANSMIT"
        BY <2>2 DEF Doing1
      <4> QED BY <1>1, <2>2, <4>1, CommandLemma
    <3> HIDE DEF s, t, fr, fa, live, byte
    <3>4. \A j : \A n \in Int : SentIn(fr, j, n) => SentIn(gr, j, n)
      <4>1. fr # <<>> /\ byte \in OutBytes \cup InBytes
        BY <2>2, <3>3 DEF InWrite
      <4> QED BY <1>1, <4>1, SentStays
    <3>5. /\ Sound(t, gr, fa)
          /\ \A j \in Nat : /\ WriteOf(s, fr, j) => WriteOf(t, gr, j)
                            /\ EmptyOf(s, fr, j) => EmptyOf(t, gr, j)
      BY <1>1, <1>5, <2>2, <3>1, <3>3, SoundByte
    <3> HIDE DEF gr
    <3>6. SendsOn(s, fr, t, gr, fa)
      BY <3>1, <3>4, <3>5 DEF SendsOn, Stays
    <3> QED BY <3>1, <3>2, <3>6
  <2>4. CASE ~ack
    <3>1. faults' # <<>> /\ frames' = fr /\ Over({"NDF"}, TRUE) /\ s.MBF
      BY <1>1, <2>1, <2>2, <2>4, FaultAdded DEF InWrite
    <3> DEFINE ga == faults'
    <3>2. ga # <<>>
      BY <3>1
    <3> HIDE DEF ga
    <3>3. SendsOn(s, fr, t, fr, ga)
      BY <1>10, <2>2, <3>1, <3>2
    <3> QED BY <3>1, <3>3 DEF ga
  <2> QED BY <2>3, <2>4
<1>13. CASE FifoError
  <2>1. Over({"FEF"}, s.MBF) /\ s.command # <<>> /\ frames' = fr /\ faults' = fa
    BY <1>6, <1>13 DEF FifoError
  <2>2. \/ Doing1(s, "TRANSMIT") /\ ~InWrite(s, fr)
        \/ Doing1(s, "RECEIVE")
    BY <1>6, <1>7, <1>13 DEF FifoError
  <2>3. SendsOn(s, fr, t, fr, fa)
    BY <1>10, <2>1, <2>2
  <2> QED BY <2>1, <2>3
<1>14. CASE SendStop
  <2> DEFINE flags == IF s.MBF THEN {"SDF"} ELSE {}
  <2>1. Over(flags, FALSE) /\ s.command # <<>> /\ Doing1(s, "STOP")
        /\ frames' = fr /\ faults' = fa
    BY <1>6, <1>14 DEF SendStop
  <2>2. Past(s, t) /\ Stays(s, t) /\ t.MSR = flags /\ ~t.MBF
    BY <1>9, <2>1
  <2> HIDE DEF s, t, fr, fa, live
  <2>3. /\ Sound(t, fr, fa)
        /\ \A k : /\ WriteOf(s, fr, k) => WriteOf(t, fr, k)
                  /\ EmptyOf(s, fr, k) => EmptyOf(t, fr, k)
    BY <1>1, <1>5, <2>1, <2>2, SoundStop
  <2>4. SendsOn(s, fr, t, fr, fa)
    BY <2>2, <2>3 DEF SendsOn, Stays
  <2> QED BY <2>1, <2>4
<1>15. CASE LoseArbitration
  <2>1. Over({"ALF"}, FALSE) /\ s.command # <<>> /\ frames' = fr
        /\ (Doing1(s, "START") \/ Doing1(s, "TRANSMIT"))
    BY <1>6, <1>15 DEF LoseArbitration
  <2>2. faults' # <<>>
    BY <1>1, <1>15, FaultAdded DEF LoseArbitration
  <2> DEFINE ga == faults'
  <2>3. ga # <<>>
    BY <2>2
  <2> HIDE DEF ga
  <2>4. SendsOn(s, fr, t, fr, ga)
    BY <1>10, <2>1, <2>3
  <2> QED BY <2>1, <2>4 DEF ga
<1>16. CASE ReceiveByte
  <2> DEFINE byte == <<Len(frames), Len(Last(frames).bytes) + 1>>
             n == i2c.command[1].n
             c == IF n = 1 THEN <<>> ELSE <<[i2c.command[1] EXCEPT !.n = n - 1]>>
             q == Append(s.MRDR, byte)
  <2>1. /\ Doing1(s, "RECEIVE") /\ s.command # <<>> /\ t = [s EXCEPT !.MRDR = q, !.command = c]
        /\ frames' = [frames EXCEPT ![Len(frames)].bytes = Append(@, byte)] /\ fr # <<>>
        /\ faults' = fa
    BY <1>6, <1>16 DEF ReceiveByte, Transferred
  <2>2. byte \in OutBytes \cup InBytes
    <3>1. fr[Len(fr)] \in Frames
      BY <1>1, <2>1
    <3>2. Len(fr[Len(fr)].bytes) \in Nat /\ Len(fr) \in Nat
      BY <1>1, <3>1 DEF Frames
    <3> QED BY <3>2 DEF InBytes, Last
  <2>3. c = <<>> \/ (c # <<>> /\ c[1].op = "RECEIVE")
    <3> DEFINE d == s.command[1]
               e == [d EXCEPT !.n = n - 1]
    <3>1. d \in Commands /\ d.op = "RECEIVE"
      BY <1>1, <2>1, CommandLemma DEF Doing1
    <3>2. d \in [op : {"RECEIVE"}, n : Nat \ {0}]
      BY <3>1 DEF Commands
    <3> HIDE DEF d, n
    <3>3. e.op = "RECEIVE"
      BY <3>2
    <3>4. c = <<>> \/ c = <<e>>
      BY DEF d
    <3> QED BY <3>3, <3>4
  <2> HIDE DEF c, byte, q
  <2>4. /\ t.command = c /\ t.MTDR = s.MTDR /\ t.MSR = s.MSR /\ Steady(s, t) /\ Stays(s, t)
    BY <1>1, <2>1 DEF Drivers, Steady, Stays
  <2>5. t.command = <<>> \/ Doing1(t, "RECEIVE")
    BY <2>3, <2>4 DEF Doing1
  <2>6. Reads(s)
    BY <2>1 DEF Reads
  <2> DEFINE gr == [fr EXCEPT ![Len(fr)].bytes = Append(@, byte)]
  <2>7. \A j : \A m \in Int : SentIn(fr, j, m) => SentIn(gr, j, m)
    BY <1>1, <2>1, <2>2, SentStays
  <2>8. frames' = gr
    BY <2>1
  <2> HIDE DEF s, t, fr, fa, live, gr
  <2>9. Sound(t, gr, fa) /\ \A j : ~WriteOf(s, fr, j)
    BY <1>1, <1>5, <2>1, <2>4, <2>5, SoundReceived
  <2>10. SendsOn(s, fr, t, gr, fa)
    BY <2>4, <2>6, <2>7, <2>9 DEF SendsOn, Stays
  <2> QED BY <2>1, <2>8, <2>10
<1>17. CASE HoldPinLow
  <2> DEFINE msr == s.MSR \cup {"PLTF"}
  <2>1. t = [s EXCEPT !.MSR = msr] /\ s.command # <<>> /\ frames' = fr
    BY <1>17 DEF HoldPinLow
  <2>2. msr = {"PLTF"}
    BY <1>5
  <2> HIDE DEF msr
  <2>3. /\ t.MSR = {"PLTF"} /\ t.command = s.command /\ t.MBF = s.MBF
        /\ t.MTDR = s.MTDR /\ Stays(s, t)
    BY <1>1, <2>1, <2>2 DEF Drivers, Steady, Stays
  <2>4. faults' # <<>> /\ fa = <<>>
    BY <1>1, <1>17, FaultAdded DEF HoldPinLow
  <2> DEFINE ga == faults'
  <2>5. ga # <<>> /\ Sound(s, fr, <<>>)
    BY <1>1, <2>4
  <2> HIDE DEF s, t, fr, fa, ga
  <2>6. /\ Sound(t, fr, ga)
        /\ \A k : /\ WriteOf(s, fr, k) => WriteOf(t, fr, k)
                  /\ EmptyOf(s, fr, k) => EmptyOf(t, fr, k)
    BY <1>5, <2>1, <2>3, <2>5, SoundHeld
  <2>7. SendsOn(s, fr, t, fr, ga)
    BY <2>3, <2>6 DEF SendsOn, Stays
  <2> QED BY <2>1, <2>7 DEF ga
<1> QED BY <1>4, <1>8, <1>11, <1>12, <1>13, <1>14, <1>15, <1>16, <1>17 DEF Port

-----------------------------------------------------------------------------
\* A call has begun, or could not: what the port does meanwhile it did before.
LEMMA SoundBegun ==
  ASSUME NEW s, NEW was, Own(s, was), finished(s), s.MSR = {}, NEW fr, NEW fa,
         Sound(s, fr, fa), NEW t, t.state = "starting", t.MSR = {}, t.command = s.command,
         t.MBF = s.MBF, ~Has(t, "TRANSMIT"),
         t.ignore_tdf \/ \A j \in 1 .. Len(t.MTDR) :
                           t.MTDR[j].op = "START" => t.MTDR[j].dir = "write"
  PROVE  Sound(t, fr, fa)
<1>1. /\ \A op : Doing1(t, op) <=> Doing1(s, op)
      /\ ~Doing1(t, "START")
  BY DEF Own, Quiet, Doing1
<1>2. ~Fills(t) /\ Clean(s)
  BY CleanLemma DEF Fills
<1>3. Framed(t, fr)
  BY <1>1, <1>2 DEF Sound, Framed, WriteStarts, Sends, InWrite
<1> QED BY <1>2, <1>3 DEF Sound, Blamed, Filling, GivenUp

LEMMA WriteBegins ==
  ASSUME NEW s \in Drivers, NEW was, Own(s, was), AllServed(s), finished(s),
         NEW fr, NEW fa, Sound(s, fr, fa), NEW k \in Nat, NEW n \in Nat, NEW stop \in BOOLEAN
  PROVE  LET t == write_async(s, k, n, stop)
         IN  /\ Sound(t, fr, fa)
             /\ \/ Abandoned(t)
                \/ n = 0 /\ EmptyOf(t, fr, k)
                \/ WriteOf(t, fr, k) /\ t.size = n /\ t.stop_on_completion = stop
<1> DEFINE b == start(s, "write", k)
           c == Start("write", k)
<1>1. s.MSR = {} /\ ~Doing1(s, "START")
  BY DEF AllServed, Own, Quiet
<1>2. CASE ~CanStart(s)
  <2>1. /\ Abandoned(b) /\ b.state = "starting" /\ b.MSR = {} /\ b.command = s.command
        /\ b.MBF = s.MBF
    BY <1>2, NotBegun
  <2> HIDE DEF b
  <2>2. b.MTDR = <<>> /\ Len(b.MTDR) = 0 /\ ~Has(b, "TRANSMIT")
    BY <2>1, EmptyFifo DEF Abandoned
  <2>3. Sound(b, fr, fa)
    BY <1>1, <2>1, <2>2, SoundBegun
  <2>4. write_async(s, k, n, stop) = b
    BY <1>2 DEF write_async, b
  <2> QED BY <2>1, <2>3, <2>4
<1>3. ASSUME CanStart(s)
      PROVE  /\ b \in Drivers /\ b.MTDR = <<c>> /\ b.MRDR = <<>> /\ b.MSR = {}
             /\ ~b.ignore_tdf /\ b.state = "starting" /\ b.command = s.command
             /\ b.MBF = s.MBF
  BY <1>3, StartLemma DEF Directions
<1> HIDE DEF b
<1>4. c \in Commands /\ c.op = "START" /\ c.dir = "write" /\ c.call = k
  BY DEF Start, Commands, Directions
<1> HIDE DEF c
<1>5. CASE CanStart(s) /\ n = 0
  <2> DEFINE q == Append(b.MTDR, STOP)
             t == [b EXCEPT !.ignore_tdf = TRUE, !.MTDR = q]
  <2>1. q = <<c>> \o <<STOP>> /\ q[1] = c
    BY <1>3, <1>4, <1>5, ShortLemma, StopLemma
  <2>2. Opens(q, k, 0)
    BY <1>4, <2>1, OpensLemma
  <2> HIDE DEF q
  <2>3. /\ t.MTDR = q /\ t.ignore_tdf /\ t.state = "starting" /\ t.MSR = {}
        /\ t.command = s.command /\ t.MBF = s.MBF
    BY <1>3, <1>5 DEF Drivers
  <2> HIDE DEF t
  <2>4. /\ \A j \in 1 .. Len(q) : j = 1 \/ j \in 2 .. Len(q)
        /\ 1 \in 1 .. Len(q)
    BY <2>2 DEF Opens
  <2>5. /\ ~Has(t, "TRANSMIT") /\ Has(t, "START")
        /\ \A j \in 1 .. Len(t.MTDR) : t.MTDR[j].op = "START" => t.MTDR[j] = c
    BY <1>4, <2>1, <2>2, <2>3, <2>4 DEF Opens, Has
  <2>6. ~Doing1(t, "START")
    BY <1>1, <2>3 DEF Doing1
  <2>7. EmptyOf(t, fr, k)
    BY <1>4, <2>3, <2>5, <2>6 DEF EmptyOf, Beginning
  <2>8. Sound(t, fr, fa)
    BY <1>1, <2>3, <2>5, SoundBegun
  <2>9. write_async(s, k, n, stop) = t
    BY <1>5 DEF write_async, t, q, b
  <2> QED BY <1>5, <2>7, <2>8, <2>9
<1>6. CASE CanStart(s) /\ n # 0
  <2> DEFINE t == [initialise(b, <<k, "out">>, n)
                     EXCEPT !.stop_on_completion = stop, !.TDIE = TRUE]
  <2>1. /\ t.MTDR = b.MTDR /\ t.ignore_tdf = b.ignore_tdf /\ t.MSR = b.MSR
        /\ t.buffer = <<k, "out">> /\ t.state = b.state /\ t.size = n /\ t.done = <<>>
        /\ t.command = b.command /\ t.MBF = b.MBF /\ t.stop_on_completion = stop
    BY <1>3, <1>6 DEF Drivers, initialise
  <2> HIDE DEF t
  <2>2. \A j \in 1 .. Len(t.MTDR) : t.MTDR[j] = c
    <3>1. t.MTDR = <<c>>
      BY <1>3, <1>6, <2>1
    <3>2. Len(<<c>>) = 1 /\ <<c>>[1] = c
      BY <1>4, ShortLemma
    <3> QED BY <3>1, <3>2
  <2>3. ~Has(t, "TRANSMIT")
    BY <1>4, <2>2 DEF Has
  <2>4. Sound(t, fr, fa)
    BY <1>1, <1>3, <1>4, <1>6, <2>1, <2>2, <2>3, SoundBegun
  <2>5. WriteOf(t, fr, k)
    <3>1. t.size > 0 /\ ~t.ignore_tdf /\ ~finished(t)
      BY <1>3, <1>6, <2>1 DEF finished, BusyStates
    <3> QED BY <2>1, <3>1 DEF WriteOf
  <2>6. write_async(s, k, n, stop) = t
    BY <1>6 DEF write_async, t, b
  <2> QED BY <2>1, <2>4, <2>5, <2>6
<1> QED BY <1>2, <1>5, <1>6

LEMMA SoundRead ==
  ASSUME NEW s \in Drivers, NEW was, Own(s, was), AllServed(s), finished(s),
         NEW fr, DriverInv(s, fr), NEW fa, Sound(s, fr, fa),
         NEW k \in Nat, NEW n \in Nat, NEW stop \in BOOLEAN
  PROVE  Sound(read_async(s, k, n, stop), fr, fa)
<1> DEFINE b == start(s, "read", k)
           t == read_async(s, k, n, stop)
<1>1. s.MSR = {}
  BY DEF AllServed
<1>2. t \in Drivers /\ DriverInv(t, fr)
  BY <1>1, ReadCall
<1>3. t.ignore_tdf => ~Has(t, "TRANSMIT")
  BY <1>2 DEF DriverInv, Consistent
<1>4. CASE n > MAX_MASTER_READ_LENGTH
  <2> DEFINE u == [s EXCEPT !.error = "invalid_request"]
  <2>1. t = u
    BY <1>4 DEF read_async
  <2>2. /\ u.state = s.state /\ u.ignore_tdf = s.ignore_tdf /\ u.done = s.done
        /\ u.MTDR = s.MTDR /\ u.command = s.command /\ u.MSR = s.MSR /\ u.MBF = s.MBF
        /\ u.TDIE = s.TDIE
    BY DEF Drivers
  <2> HIDE DEF u
  <2>3. Sound(u, fr, fa)
    BY <2>2 DEF Sound, Blamed, Framed, Filling, GivenUp, WriteStarts, Sends, Fills, Unbegun,
            Has, Doing1, First, InWrite, Clean
  <2> QED BY <2>1, <2>3
<1>5. CASE ~(n > MAX_MASTER_READ_LENGTH)
  <2>1. /\ t.state = "starting" /\ t.MSR = {} /\ t.command = s.command /\ t.MBF = s.MBF
        /\ t.ignore_tdf
    <3>1. CASE ~CanStart(s)
      <4>1. t = b
        BY <1>5, <3>1 DEF read_async
      <4>2. b.ignore_tdf
        BY <3>1 DEF start, abort_transaction_async, CanStart, Drivers
      <4> QED BY <3>1, <4>1, <4>2, NotBegun
    <3>2. CASE CanStart(s) /\ n = 0
      <4>1. /\ b \in Drivers /\ b.state = "starting" /\ b.MSR = {} /\ b.command = s.command
            /\ b.MBF = s.MBF /\ b.ignore_tdf
        BY <3>2, StartLemma DEF Directions
      <4> HIDE DEF b
      <4> DEFINE q == b.MTDR \o <<>> \o <<STOP>>
                 u == [b EXCEPT !.MTDR = q]
      <4>2. t = u
        BY <1>5, <3>2 DEF read_async, b
      <4> HIDE DEF q, t
      <4>3. /\ u.state = "starting" /\ u.MSR = {} /\ u.command = s.command
            /\ u.MBF = s.MBF /\ u.ignore_tdf
        BY <4>1 DEF Drivers
      <4> QED BY <4>2, <4>3
    <3>3. CASE CanStart(s) /\ n # 0
      <4>1. n \in 1 .. MAX_MASTER_READ_LENGTH
        BY <1>5, <3>3, MasterAssumption
      <4> QED BY <3>3, <4>1, BegunRead
    <3> QED BY <3>1, <3>2, <3>3
  <2> HIDE DEF t
  <2>2. Sound(t, fr, fa)
    BY <1>1, <1>3, <2>1, SoundBegun
  <2> QED BY <2>2 DEF t
<1> QED BY <1>4, <1>5

\* The port is set up again: nothing is left of what was given up.
LEMMA SoundReset ==
  ASSUME NEW s, Own(s, FALSE), NEW t, t.MTDR = <<>>, t.MSR = {}, ~t.MBF, ~t.TDIE,
         t.command = <<>>, t.state = s.state, t.ignore_tdf = s.ignore_tdf, t.done = s.done,
         NEW fr, NEW fa
  PROVE  Sound(t, fr, fa)
<1>1. \A op : ~Has(t, op) /\ ~Doing1(t, op)
  BY EmptyFifo DEF Doing1
<1>2. ~Fills(t)
  BY DEF Own, Owned, Fills
<1>3. WriteStarts(t)
  BY EmptyFifo, <1>1 DEF WriteStarts
<1> QED BY <1>1, <1>2, <1>3 DEF Sound, Blamed, Framed, Filling, GivenUp

\* A write ends with success: its bytes were acknowledged.
LEMMA WriteEnds ==
  ASSUME NEW s \in Drivers, NEW live, Own(s, live), AllServed(s), finished(s), s.error = "ok",
         NEW fr, NEW k
  PROVE  /\ WriteOf(s, fr, k) =>
              SentIn(fr, k, s.size) \/ (~s.stop_on_completion /\ SentIn(fr, k, s.size - 1))
         /\ EmptyOf(s, fr, k) => SentIn(fr, k, 0)
<1>1. Clean(s) /\ s.state \notin BusyStates
  BY CleanLemma DEF AllServed, finished
<1>2. ~Beginning(s)
  BY DEF Own, Quiet, Beginning
<1> QED BY <1>1, <1>2 DEF WriteOf, EmptyOf, BusyStates, finished

-----------------------------------------------------------------------------
\* The bytes of a write: the device's register number goes before them.
Bytes(c) == c.n + IF c.by = "device" THEN 1 ELSE 0

\* A write is given up, or its bytes are sent.
WriteComes ==
  \/ Abandoned(i2c)
  \/ Bytes(call.asked) = 0 /\ EmptyOf(i2c, frames, Number)
  \/ /\ WriteOf(i2c, frames, Number)
     /\ i2c.size = Bytes(call.asked) /\ i2c.stop_on_completion = call.asked.stop

\* What call k returned is what a frame of its own took.
Delivered(r, fr, k) ==
  r.code = 0 /\ r.asked.op = "write" =>
    LET n == Bytes(r.asked)
    IN  SentIn(fr, k, IF r.asked.stop \/ n = 0 THEN n ELSE n - 1)

DoneInv ==
  Undisturbed /\ OneReason =>
    /\ Sound(i2c, frames, faults)
    /\ call # NoCall => (call.asked.op = "write" => WriteComes)
    /\ \A k \in DOMAIN results : Delivered(results[k], frames, k)

LEMMA InitDone == Init => DoneInv
<1> SUFFICES ASSUME Init
             PROVE  DoneInv
  OBVIOUS
<1>1. /\ i2c.MTDR = <<>> /\ i2c.done = <<>> /\ i2c.TDIE = FALSE
      /\ i2c.MSR = {} /\ i2c.MBF = FALSE /\ i2c.command = <<>>
      /\ i2c.state = "idle" /\ call = NoCall /\ results = <<>>
  BY DEF Init, MasterInit
<1>2. \A op : ~Has(i2c, op) /\ ~Doing1(i2c, op)
  BY <1>1, EmptyFifo DEF Doing1
<1>3. WriteStarts(i2c)
  BY <1>1, <1>2, EmptyFifo DEF WriteStarts
<1>4. Sound(i2c, frames, faults)
  BY <1>1, <1>2, <1>3 DEF Sound, Blamed, Framed, Filling, GivenUp, Fills
<1> QED BY <1>1, <1>4 DEF DoneInv

LEMMA DeliveredStays ==
  ASSUME NEW fr, NEW gr, \A j : \A n \in Int : SentIn(fr, j, n) => SentIn(gr, j, n),
         NEW r \in Results, NEW k, Delivered(r, fr, k)
  PROVE  Delivered(r, gr, k)
<1>1. r.asked.n \in Nat
  BY CallsAssumption DEF Results
<1>2. Bytes(r.asked) \in Int /\ Bytes(r.asked) - 1 \in Int
  BY <1>1 DEF Bytes
<1> QED BY <1>2 DEF Delivered

LEMMA DoneTransfer ==
  ASSUME IInv, OwnInv, WholeInv, DoneInv, Transfer, Undisturbed, ~late, OneReason, OneReason'
  PROVE  DoneInv'
<1> DEFINE s == i2c
           t == i2c'
           fr == frames
           gr == frames'
           k == Number
<1>1. UNCHANGED <<call, results>> /\ results \in Seq(Results)
  BY DEF Transfer, IInv, CallerInv
<1>2. Number' = k /\ k \in Nat
  BY <1>1 DEF Number
<1>3. SendsOn(s, fr, t, gr, faults')
  BY TransferSends DEF DoneInv
<1>4. t.size = s.size /\ (Abandoned(s) => Abandoned(t))
  BY AbandonedStays, TransferCarries DEF Carries
<1>5. ASSUME call # NoCall, call.asked.op = "write"
      PROVE  WriteComes'
  <2>1. ~Reads(s)
    BY <1>5 DEF WholeInv, Asking
  <2>2. WriteComes
    BY <1>5 DEF DoneInv
  <2>3. CASE Abandoned(s)
    BY <1>4, <2>3 DEF WriteComes
  <2>4. CASE Bytes(call.asked) = 0 /\ EmptyOf(s, fr, k)
    <3>1. EmptyOf(t, gr, k)
      BY <1>2, <1>3, <2>1, <2>4 DEF SendsOn
    <3> QED BY <1>1, <1>2, <2>4, <3>1 DEF WriteComes
  <2>5. CASE /\ WriteOf(s, fr, k)
             /\ s.size = Bytes(call.asked) /\ s.stop_on_completion = call.asked.stop
    <3>1. WriteOf(t, gr, k) /\ t.stop_on_completion = s.stop_on_completion
      BY <1>2, <1>3, <2>5 DEF SendsOn
    <3> QED BY <1>1, <1>2, <1>4, <2>5, <3>1 DEF WriteComes
  <2> QED BY <2>2, <2>3, <2>4, <2>5 DEF WriteComes
<1>6. ASSUME NEW j \in DOMAIN results
      PROVE  Delivered(results[j], gr, j)
  <2>1. Delivered(results[j], fr, j) /\ results[j] \in Results
    BY <1>1 DEF DoneInv
  <2> QED BY <1>3, <2>1, DeliveredStays DEF SendsOn
<1> QED BY <1>1, <1>3, <1>5, <1>6 DEF DoneInv, SendsOn

LEMMA DoneBegin ==
  ASSUME IInv, OwnInv, DoneInv, ~Pending, Begin, Undisturbed, Undisturbed', OneReason
  PROVE  DoneInv'
<1> USE CallsAssumption
<1> DEFINE s == i2c
           t == i2c'
           k == Number
<1>1. s \in Drivers /\ Own(s, Live) /\ AllServed(s) /\ results \in Seq(Results)
      /\ DriverInv(s, frames)
  BY DEF IInv, DriverInv, OwnInv, Pending, AllServed, CallerInv
<1>2. k \in Nat
  BY <1>1 DEF Number
<1>3. PICK c \in Calls :
        /\ IF c.by = "device" THEN BeginDevice(c) ELSE BeginWire(c)
        /\ call' = [phase |-> IF c.by = "device" /\ c.op = "read"
                              THEN "register" ELSE "transfer",
                    asked |-> c, ready |-> finished(i2c), timedOut |-> FALSE]
  BY DEF Begin
<1>4. /\ call' # NoCall /\ call'.ready = finished(i2c) /\ call'.asked = c
      /\ UNCHANGED <<frames, faults, results>>
  BY <1>3 DEF NoCall, Begin
<1>5. finished(s)
  BY <1>4 DEF Undisturbed
<1>6. Number' = k
  BY <1>4 DEF Number
<1>7. c.n \in Nat /\ c.by \in {"device", "wire"} /\ c.op \in {"read", "write"}
      /\ c.n + 1 \in Nat /\ c.stop \in BOOLEAN
  OBVIOUS
<1>8. /\ Sound(s, frames, faults)
      /\ \A j \in DOMAIN results' : Delivered(results'[j], frames', j)
  BY <1>4 DEF DoneInv
<1>9. ASSUME NEW n \in Nat, NEW stop \in BOOLEAN, t = write_async(s, k, n, stop)
      PROVE  /\ Sound(t, frames, faults)
             /\ \/ Abandoned(t)
                \/ n = 0 /\ EmptyOf(t, frames, k)
                \/ WriteOf(t, frames, k) /\ t.size = n /\ t.stop_on_completion = stop
  BY <1>1, <1>2, <1>5, <1>8, <1>9, WriteBegins
<1>10. CASE c.op = "write"
  <2>1. Bytes(c) \in Nat /\ t = write_async(s, k, Bytes(c), c.stop)
    <3>1. c.by = "device" => Bytes(c) = c.n + 1
      BY DEF Bytes
    <3>2. c.by = "wire" => Bytes(c) = c.n
      BY <1>7 DEF Bytes
    <3> QED BY <1>3, <1>7, <1>10, <3>1, <3>2 DEF BeginDevice, BeginWire
  <2>2. /\ Sound(t, frames, faults)
        /\ \/ Abandoned(t)
           \/ Bytes(c) = 0 /\ EmptyOf(t, frames, k)
           \/ WriteOf(t, frames, k) /\ t.size = Bytes(c) /\ t.stop_on_completion = c.stop
    BY <1>7, <1>9, <2>1
  <2>3. WriteComes'
    BY <1>4, <1>6, <2>2 DEF WriteComes
  <2> QED BY <1>4, <1>8, <2>2, <2>3 DEF DoneInv
<1>11. CASE c.op = "read"
  <2>1. Sound(t, frames, faults)
    <3>1. CASE c.by = "device"
      <4>1. t = write_async(s, k, 1, FALSE)
        BY <1>3, <1>11, <3>1 DEF BeginDevice
      <4>2. 1 \in Nat /\ FALSE \in BOOLEAN
        OBVIOUS
      <4> QED BY <1>9, <4>1, <4>2
    <3>2. CASE c.by = "wire"
      <4> DEFINE n == Min({c.n, rx_buffer_length})
      <4>1. t = read_async(s, k, n, c.stop)
        BY <1>3, <1>11, <3>2 DEF BeginWire
      <4>2. n \in Nat
        BY <1>7, MinLemma
      <4> HIDE DEF n
      <4> QED BY <1>1, <1>2, <1>5, <1>7, <1>8, <4>1, <4>2, SoundRead
    <3> QED BY <1>7, <3>1, <3>2
  <2> QED BY <1>4, <1>8, <1>11, <2>1 DEF DoneInv
<1> QED BY <1>7, <1>10, <1>11

LEMMA DoneRegister ==
  ASSUME IInv, OwnInv, WholeInv, DoneInv, ~Pending, ReadRegister, Undisturbed, OneReason,
         call \in Asked, ~call.timedOut
  PROVE  DoneInv'
<1> USE CallsAssumption
<1> DEFINE s == i2c
           t == i2c'
           k == Number
           n == call.asked.n
<1>1. s \in Drivers /\ Own(s, Live) /\ AllServed(s) /\ DriverInv(s, frames)
      /\ results \in Seq(Results)
  BY DEF IInv, DriverInv, OwnInv, Pending, AllServed, CallerInv
<1>2. k \in Nat
  BY <1>1 DEF Number
<1>3. /\ call' = [call EXCEPT !.phase = "transfer"] /\ UNCHANGED <<frames, faults, results>>
      /\ call.phase = "register" /\ call # NoCall /\ finished(s)
      /\ t = read_async(s, k, n, call.asked.stop)
  BY DEF ReadRegister, Waited
<1>4. call'.asked = call.asked /\ n \in Nat /\ call.asked.stop \in BOOLEAN
  BY <1>3 DEF Asked
<1>5. call.asked.op = "read"
  BY <1>3 DEF WholeInv, NumberComes
<1>6. Sound(t, frames, faults)
  BY <1>1, <1>2, <1>3, <1>4, SoundRead DEF DoneInv
<1> QED BY <1>3, <1>4, <1>5, <1>6 DEF DoneInv

LEMMA DoneReturn ==
  ASSUME IInv, OwnInv, DoneInv, ~Pending, Return, Undisturbed, OneReason,
         call \in Asked, ~call.timedOut
  PROVE  DoneInv'
<1> DEFINE r == [asked |-> call.asked, ready |-> call.ready,
                 timedOut |-> call.timedOut, data |-> Stored,
                 code |-> toWireResult(i2c.error), count |-> Len(i2c.done)]
           q == results
<1>1. /\ results' = Append(q, r) /\ q \in Seq(Results) /\ call # NoCall /\ call' = NoCall
      /\ finished(i2c) /\ UNCHANGED <<i2c, frames, faults>>
      /\ i2c \in Drivers /\ Own(i2c, Live) /\ AllServed(i2c)
  BY DEF Return, Waited, IInv, DriverInv, OwnInv, CallerInv, Pending, AllServed
<1>2. Delivered(r, frames, Number)
  <2> DEFINE n == Bytes(call.asked)
  <2> SUFFICES ASSUME r.code = 0, call.asked.op = "write"
               PROVE  SentIn(frames, Number, IF call.asked.stop \/ n = 0 THEN n ELSE n - 1)
    BY DEF Delivered
  <2>1. i2c.error = "ok"
    BY DEF toWireResult
  <2>2. WriteComes /\ ~Abandoned(i2c)
    BY <1>1 DEF DoneInv, Abandoned, finished, BusyStates
  <2>3. CASE n = 0 /\ EmptyOf(i2c, frames, Number)
    <3>1. SentIn(frames, Number, 0)
      BY <1>1, <2>1, <2>3, WriteEnds
    <3> QED BY <2>3, <3>1
  <2>4. CASE /\ WriteOf(i2c, frames, Number)
             /\ i2c.size = n /\ i2c.stop_on_completion = call.asked.stop
    <3>1. n > 0 /\ n \in Nat
      BY <1>1, <2>4 DEF WriteOf, Drivers
    <3>2. SentIn(frames, Number, n) \/ (~call.asked.stop /\ SentIn(frames, Number, n - 1))
      BY <1>1, <2>1, <2>4, WriteEnds
    <3>3. SentIn(frames, Number, n) => SentIn(frames, Number, n - 1)
      <4>1. frames \in Seq(Frames)
        BY DEF IInv, Truthful
      <4>2. \A f \in DOMAIN frames : Len(frames[f].bytes) \in Nat
        BY <4>1 DEF Frames
      <4> HIDE DEF n
      <4>3. \A m \in Nat : m >= n => m >= n - 1
        BY <3>1
      <4> QED BY <4>2, <4>3 DEF SentIn
    <3> HIDE DEF n
    <3> QED BY <3>1, <3>2, <3>3
  <2> QED BY <2>2, <2>3, <2>4 DEF WriteComes
<1> HIDE DEF r
<1>3. \A k \in DOMAIN Append(q, r) :
        \/ k \in DOMAIN q /\ Append(q, r)[k] = q[k]
        \/ k = Number /\ Append(q, r)[k] = r
  BY <1>1 DEF Number
<1>4. \A k \in DOMAIN results' : Delivered(results'[k], frames', k)
  BY <1>1, <1>2, <1>3 DEF DoneInv
<1>5. Sound(i2c, frames, faults)
  BY DEF DoneInv
<1> QED BY <1>1, <1>4, <1>5 DEF DoneInv

LEMMA DoneCaller ==
  ASSUME IInv, OwnInv, WholeInv, DoneInv, ~Pending, Caller, Undisturbed, Undisturbed',
         OneReason, call # NoCall => call \in Asked /\ call.ready /\ ~call.timedOut
  PROVE  DoneInv'
<1>1. CASE Begin
  BY <1>1, DoneBegin
<1>2. CASE TimeOut
  <2>1. call \in Asked /\ call' = [call EXCEPT !.timedOut = TRUE]
    BY <1>2 DEF TimeOut
  <2>2. call' # NoCall /\ call'.timedOut
    BY <2>1 DEF Asked, NoCall
  <2> QED BY <2>2 DEF Undisturbed, OnTime
<1>3. CASE ReadRegister
  BY <1>3, DoneRegister DEF ReadRegister, Waited
<1>4. CASE Return
  BY <1>4, DoneReturn DEF Return, Waited
<1>5. CASE Restart
  <2> DEFINE t == [i2c EXCEPT !.MTDR = <<>>, !.MRDR = <<>>, !.MSR = {}, !.MBF = FALSE,
                              !.TDIE = FALSE, !.command = <<>>]
  <2>1. i2c' = t /\ call = NoCall /\ UNCHANGED <<call, results, frames>>
    BY <1>5 DEF Restart, begin
  <2>2. i2c \in Drivers /\ Own(i2c, Live)
    BY DEF IInv, DriverInv, OwnInv
  <2>3. /\ t.MTDR = <<>> /\ t.MSR = {} /\ t.MBF = FALSE /\ t.TDIE = FALSE
        /\ t.command = <<>> /\ t.ignore_tdf = i2c.ignore_tdf /\ t.done = i2c.done
        /\ t.state = i2c.state
    BY <2>2 DEF Drivers
  <2> HIDE DEF t
  <2>4. Own(i2c, FALSE)
    <3>1. ~Live
      BY <2>1 DEF Live
    <3> QED BY <2>2, <3>1 DEF Own, Owned
  <2>5. \A fa : Sound(t, frames, fa)
    BY <2>3, <2>4, SoundReset
  <2>6. Sound(i2c', frames', faults')
    BY <2>1, <2>5
  <2> QED BY <2>1, <2>6 DEF DoneInv
<1> QED BY <1>1, <1>2, <1>3, <1>4, <1>5 DEF Caller

LEMMA DoneStep ==
  ASSUME IInv, OwnInv, WholeInv, DoneInv, [Next]_vars
  PROVE  DoneInv'
<1>1. CASE UNCHANGED vars
  BY <1>1 DEF vars, DoneInv, Undisturbed, OnTime, OneReason, Number, WriteComes
<1>2. CASE Next
  <2> SUFFICES ASSUME Undisturbed', OneReason'
               PROVE  DoneInv'
    BY DEF DoneInv
  <2>1. Undisturbed /\ ~late /\ OneReason
        /\ (call # NoCall => call \in Asked /\ call.ready /\ ~call.timedOut)
    BY <1>2, DisturbedStays, OneReasonStays
  <2>2. CASE ~Pending /\ Caller
    BY <2>1, <2>2, DoneCaller
  <2>3. CASE Transfer
    BY <2>1, <2>3, DoneTransfer
  <2> QED BY <1>2, <2>2, <2>3 DEF Next
<1> QED BY <1>1, <1>2

\* A call that reports success has done what it was asked: every byte of a write
\* was acknowledged in a frame of its own, all but the last when no STOP was asked
\* for (I2CDevice::write() and endTransmission()), if callers wait, interrupts are
\* not late and no pin is held low on top of another failure.
THEOREM SuccessesAreDone == Spec => []SuccessIsDone
<1>1. DoneInv => SuccessIsDone
  <2> SUFFICES ASSUME DoneInv, Undisturbed, OneReason, NEW k \in DOMAIN results
               PROVE  Done(k)
    BY DEF SuccessIsDone
  <2>1. Delivered(results[k], frames, k)
    BY DEF DoneInv
  <2> QED BY <2>1 DEF Delivered, Done, Bytes, SentIn, Sent
<1>2. Init => WholeInv
  BY InitWhole
<1>3. IInv /\ OwnInv /\ WholeInv /\ [Next]_vars => WholeInv'
  BY WholeStep
<1>4. Init => DoneInv
  BY InitDone
<1>5. IInv /\ OwnInv /\ WholeInv /\ DoneInv /\ [Next]_vars => DoneInv'
  BY DoneStep
<1> QED BY <1>1, <1>2, <1>3, <1>4, <1>5, Invariance, OwnInvariance, PTL DEF Spec
=============================================================================
