------------------------------ MODULE I2CSlave ------------------------------
(***************************************************************************)
(* The slave half of the I2C driver (imx_rt1060_i2c_driver.cpp) behind the *)
(* LPI2C port: its interrupt service routine, the two buffers, the         *)
(* callbacks, and the application that may install other buffers, stop and *)
(* listen again or reset the slave at any time.  The port and the master   *)
(* are external.                                                           *)
(*                                                                         *)
(* The routine is one step: it takes less than a byte on the bus.  It may  *)
(* be late by any amount, so that it finds the end of one frame and the    *)
(* start of the next together in the status register.                      *)
(***************************************************************************)
EXTENDS Integers, Sequences, SequencesExt, FiniteSetsExt

CONSTANTS
  Addresses,   \* the addresses the slave listens on
  RX_SIZE,     \* size of the receive buffer installed before listen(), or 0
  TX_SIZE,     \* size of the transmit buffer, or 0
  NewSizes,    \* sizes of the buffers the application may install later
  MAX_CHANGES, \* bound: buffers installed, stops, restarts and resets
  BIT_ERRORS,  \* whether another device may corrupt what the slave sends
  ReadLengths, WriteLengths,  \* bound: bytes of a frame
  MAX_FRAMES   \* bound: frames in a behaviour

ASSUME SlaveAssumption ==
  /\ Addresses # {}
  /\ RX_SIZE \in Nat /\ TX_SIZE \in Nat /\ NewSizes \subseteq Nat
  /\ MAX_CHANGES \in Nat
  /\ BIT_ERRORS \in BOOLEAN
  /\ ReadLengths \subseteq Nat \ {0} /\ WriteLengths \subseteq Nat /\ MAX_FRAMES \in Nat

DUMMY_BYTE == 0

VARIABLES
  frames,  \* the frames of the master since the last disturbance, with the
           \* bytes transferred so far
  open,    \* whether the last of them is still being transferred
  port,    \* the LPI2C registers
  slave,   \* the fields of IMX_RT1060_I2CSlave, and the callbacks it made
  app,     \* how far the application is with I2CBuffer::initialise()
  changes, \* what the application has changed so far, counted
  calm,    \* whether the driver is in step with the frames; frames begun
  last     \* the last frame: "fresh", or "behind" when the driver had yet to
           \* learn that what was before is over; "disturbed", or "cut" off so
           \* that its end is told to nobody

vars == <<frames, open, port, slave, app, changes, calm, last>>

\* A byte of the master is <<frame, position>>, one of the slave a number.
Sizes == {RX_SIZE, TX_SIZE} \cup NewSizes
BytesOf(f) == IF f.dir = "write" THEN Nat \X Nat ELSE Nat

Current == frames[Len(frames)]

Idle(sasr) == [SEN |-> FALSE, AVF |-> FALSE, SASR |-> sasr, SDF |-> FALSE,
               TDF |-> FALSE, BEF |-> FALSE, SRDR |-> <<>>, STDR |-> <<>>]

Init ==
  /\ frames = <<>> /\ open = FALSE
  /\ port = [Idle(CHOOSE a \in Addresses : TRUE) EXCEPT !.SEN = TRUE]
  /\ slave = [state |-> "idle", address_called |-> port.SASR, error |-> "ok",
              trailing_byte_sent |-> FALSE,
              tx_buffer |-> TX_SIZE, tx_size |-> TX_SIZE, tx_index |-> 0,
              rx_buffer |-> RX_SIZE, rx_size |-> RX_SIZE, rx_bytes |-> <<>>,
              calls |-> <<>>]
  /\ app = <<>> /\ changes = 0
  /\ calm = [is |-> TRUE, begun |-> 0] /\ last = "fresh"

\* RSIE, SDIE, TDIE and RDIE are the interrupts enabled by listen().
Pending == port.SDF \/ port.TDF \/ port.SRDR # <<>>

\* Something happens to the slave that its driver is not told of: what was
\* before is forgotten, but for a frame that goes on.
Disturbed(busy, left, s) ==
  IF busy
  THEN /\ calm' = [calm EXCEPT !.is = FALSE]
       /\ frames' = left /\ slave' = [s EXCEPT !.calls = <<>>]
  ELSE UNCHANGED <<calm, frames>> /\ slave' = s

Busy == open \/ Pending
LastFrame == IF frames = <<>> THEN <<>> ELSE <<Current>>

-----------------------------------------------------------------------------
(* The master and the port.                                                *)

\* A START or repeated START and an address that matches.  A read is asked
\* for its first byte at once (TDF).
StartFrame ==
  /\ port.SEN /\ ~open /\ calm.begun < MAX_FRAMES
  /\ \E d \in {"read", "write"}, a \in Addresses, n \in ReadLengths \cup WriteLengths :
       /\ n \in IF d = "read" THEN ReadLengths ELSE WriteLengths
       /\ frames' = Append(frames, [dir |-> d, address |-> a, length |-> n,
                                    bytes |-> <<>>, rx |-> slave.rx_size,
                                    tx |-> slave.tx_size])
       /\ port' = [port EXCEPT !.AVF = TRUE, !.SASR = a, !.TDF = d = "read"]
  /\ open' = TRUE
  /\ calm' = [calm EXCEPT !.begun = @ + 1]
  /\ last' = IF last = "cut" \/ port.BEF THEN "behind" ELSE "fresh"
  /\ UNCHANGED <<slave, app, changes>>

Transfer(byte) ==
  /\ open /\ Len(Current.bytes) < Current.length
  /\ frames' = [frames EXCEPT ![Len(frames)].bytes = Append(@, byte)]
  /\ UNCHANGED <<open, slave, app, changes, calm, last>>

\* RXSTALL: the next byte waits until SRDR has been read.
SendByte ==
  LET byte == <<calm.begun, Len(Current.bytes) + 1>>
      sof == Current.bytes = <<>>
  IN  /\ open /\ Current.dir = "write" /\ port.SRDR = <<>>
      /\ Transfer(byte)
      /\ port' = [port EXCEPT !.SRDR = <<[SOF |-> sof, DATA |-> byte]>>]

\* TXDSTALL: the byte waits until STDR is written.  Once it is being shifted
\* out the port asks for one more, whether the master wants it or not.
TakeByte ==
  /\ open /\ Current.dir = "read" /\ port.STDR # <<>>
  /\ Transfer(port.STDR[1])
  /\ port' = [port EXCEPT !.STDR = <<>>, !.TDF = TRUE]

\* A STOP or the repeated START of the next frame: what the port had asked
\* for or been given in advance is dropped.
Ended == [port EXCEPT !.SDF = TRUE, !.TDF = FALSE, !.STDR = <<>>]

EndFrame ==
  /\ open /\ Len(Current.bytes) = Current.length /\ port.SRDR = <<>>
  /\ open' = FALSE
  /\ port' = Ended
  /\ UNCHANGED <<frames, slave, app, changes, calm, last>>

\* The slave sends a 1 and finds a 0; the master gives the frame up.  The bit
\* error flag raises no interrupt of its own.
BitError ==
  /\ BIT_ERRORS
  /\ open /\ Current.dir = "read" /\ Current.bytes # <<>>
  /\ open' = FALSE
  /\ port' = [Ended EXCEPT !.BEF = TRUE]
  /\ Disturbed(TRUE, <<>>, slave) /\ last' = "disturbed"
  /\ UNCHANGED <<app, changes>>

-----------------------------------------------------------------------------
(* The interrupt service routine, part by part.  Each part maps the fields *)
(* of the slave to what they are after it.                                 *)

Call(s, kind, bytes) ==
  [s EXCEPT !.calls = Append(@, [kind |-> kind, bytes |-> bytes,
                                 address |-> s.address_called,
                                 error |-> s.error])]

\* Mutant of AfterAddress: the address is looked at with a received byte only.
AfterAddress_OnByte(s) ==
  IF port.AVF /\ port.SRDR # <<>> THEN [s EXCEPT !.address_called = port.SASR] ELSE s

AfterAddress(s) ==
  IF port.AVF THEN [s EXCEPT !.address_called = port.SASR] ELSE s

\* Mutant of end_of_frame: trailing_byte_sent is not reset.
end_of_frame_KeepsTrailing(s) ==
  LET told == CASE s.state = "receiving" -> Call(s, "received", s.rx_bytes)
                [] s.state = "transmitting" -> Call(s, "transmitted", <<>>)
                [] OTHER -> s
  IN  [told EXCEPT !.state = "idle"]

end_of_frame(s) ==
  LET told == CASE s.state = "receiving" -> Call(s, "received", s.rx_bytes)
                [] s.state = "transmitting" ->
                     Call([s EXCEPT !.trailing_byte_sent = FALSE],
                          "transmitted", <<>>)
                [] OTHER -> s
  IN  [told EXCEPT !.state = "idle"]

AfterEnd(s) == IF port.SDF THEN end_of_frame(s) ELSE s

\* Mutant of rx_write: no test for a full buffer.
rx_write_Unchecked(s, byte) == [s EXCEPT !.rx_bytes = Append(@, byte)]

\* I2CBuffer::write(), which compares the index with the size for equality.
rx_write(s, byte) ==
  IF Len(s.rx_bytes) = s.rx_size
  THEN [s EXCEPT !.error = "buffer_overflow"]
  ELSE [s EXCEPT !.rx_bytes = Append(@, byte)]

AfterReceive(s) ==
  LET srdr == port.SRDR[1]
      ok == [s EXCEPT !.error = IF srdr.SOF THEN "ok" ELSE @]
      begun == IF srdr.SOF THEN [ok EXCEPT !.rx_bytes = <<>>,
                                           !.state = "receiving"] ELSE ok
  IN  IF port.SRDR = <<>> THEN s
      ELSE IF s.rx_size > 0 THEN rx_write(begun, srdr.DATA)
      ELSE [ok EXCEPT !.state = "idle"]

\* Mutant of BeginTransmit: the transmit buffer is not reset.
BeginTransmit_NoReset(s) ==
  IF s.state \in {"idle", "aborted"}
  THEN Call([s EXCEPT !.error = "ok", !.state = "transmitting"],
            "transmitting", <<>>)
  ELSE s

\* The first request of a read: state >= State::idle.
BeginTransmit(s) ==
  IF s.state \in {"idle", "aborted"}
  THEN Call([s EXCEPT !.error = "ok", !.state = "transmitting",
                      !.tx_index = 0], "transmitting", <<>>)
  ELSE s

\* Mutant of has_data_available: one byte too many.
has_data_available_OffByOne(s) == s.tx_index <= s.tx_size

has_data_available(s) == s.tx_index < s.tx_size

\* Mutant of Answer: no padding is sent.
Answer_NoPadding(s) ==
  IF has_data_available(s) THEN <<s.tx_index + 1>> ELSE <<>>

\* What the routine writes to STDR: the bytes of the buffer are 1, 2, ...
Answer(s) == IF has_data_available(s) THEN <<s.tx_index + 1>> ELSE <<DUMMY_BYTE>>

AfterTransmit(s) ==
  IF ~port.TDF THEN s
  ELSE IF has_data_available(s) THEN [s EXCEPT !.tx_index = @ + 1]
  ELSE IF s.tx_size > 0 /\ ~s.trailing_byte_sent
       THEN [s EXCEPT !.trailing_byte_sent = TRUE]
  ELSE [s EXCEPT !.error = "buffer_underflow"]

AfterBitError(s) ==
  IF port.BEF THEN end_of_frame([s EXCEPT !.state = "aborted",
                                          !.error = "bit_error"])
              ELSE s

\* Mutant of BeforeTransmit: the end of a frame is handled after the byte that
\* came with it.
BeforeTransmit_EndLast(s) == AfterEnd(AfterReceive(AfterAddress(s)))

BeforeTransmit(s) == AfterReceive(AfterEnd(AfterAddress(s)))

\* In step again: the disturbed frame, or one after it, has ended, and no
\* error came with its end.
InStep ==
  /\ ~calm.is /\ port.SDF /\ ~port.BEF
  /\ Len(frames) > IF open THEN 1 ELSE 0

interrupt_service_routine ==
  LET begun == IF port.TDF THEN BeginTransmit(BeforeTransmit(slave))
                           ELSE BeforeTransmit(slave)
      done == AfterBitError(AfterTransmit(begun))
      old == Len(AfterEnd(AfterAddress(slave)).calls)
  IN  /\ Pending
      /\ port' = [port EXCEPT !.AVF = FALSE, !.SDF = FALSE, !.BEF = FALSE,
                              !.SRDR = <<>>, !.TDF = FALSE,
                              !.STDR = IF port.TDF THEN Answer(begun) ELSE @]
      /\ IF InStep
         THEN /\ calm' = [calm EXCEPT !.is = TRUE]
              /\ frames' = IF open THEN LastFrame ELSE <<>>
              /\ slave' = [done EXCEPT !.calls = SubSeq(@, old + 1, Len(@))]
         ELSE slave' = done /\ UNCHANGED <<calm, frames>>
      /\ UNCHANGED <<open, app, changes, last>>

-----------------------------------------------------------------------------
(* The application, outside the interrupt.                                 *)

Change == changes < MAX_CHANGES /\ changes' = changes + 1 /\ app = <<>>

\* set_receive_buffer() and set_transmit_buffer(): three assignments, and the
\* interrupt may come between any two of them.
ResetIndex ==
  /\ Change
  /\ \E which \in {"rx", "tx"}, n \in NewSizes :
       /\ app' = <<"reset", n, which>>
       /\ Disturbed(Busy, LastFrame,
            IF which = "rx" THEN [slave EXCEPT !.rx_bytes = <<>>]
                            ELSE [slave EXCEPT !.tx_index = 0])
  /\ UNCHANGED <<open, port>>

\* The new receive buffer has whatever it had below the index.
SetBuffer ==
  /\ app # <<>> /\ app[1] = "reset"
  /\ app' = [app EXCEPT ![1] = "buffer"]
  /\ Disturbed(Busy, LastFrame,
       IF app[3] = "rx"
       THEN [slave EXCEPT !.rx_buffer = app[2],
                          !.rx_bytes = [i \in DOMAIN @ |-> <<0, 0>>]]
       ELSE [slave EXCEPT !.tx_buffer = app[2]])
  /\ UNCHANGED <<open, port, changes>>

SetSize ==
  /\ app # <<>> /\ app[1] = "buffer"
  /\ app' = <<>>
  /\ Disturbed(Busy, LastFrame,
       IF app[3] = "rx" THEN [slave EXCEPT !.rx_size = app[2]]
                        ELSE [slave EXCEPT !.tx_size = app[2]])
  /\ UNCHANGED <<open, port, changes>>

initialise ==
  /\ ResetIndex \/ SetBuffer \/ SetSize
  /\ last' = IF Busy THEN "disturbed" ELSE last

\* stop() resets the port, the driver's fields stay as they are.  The master
\* has to do without the slave for the rest of the frame.
stop_listening ==
  /\ Change /\ port.SEN
  /\ port' = Idle(port.SASR) /\ open' = FALSE
  /\ Disturbed(Busy, <<>>, slave)
  /\ last' = IF Busy THEN "cut" ELSE last
  /\ UNCHANGED app

listen ==
  /\ IF port.SEN THEN Change ELSE app = <<>> /\ UNCHANGED changes
  /\ port' = [Idle(port.SASR) EXCEPT !.SEN = TRUE] /\ open' = FALSE
  /\ Disturbed(Busy, <<>>, slave)
  /\ last' = IF Busy THEN "cut" ELSE last
  /\ UNCHANGED app

\* reset() empties the port and lets the frame go; the driver is in step at
\* once, unless a bit error is yet to be seen.  trailing_byte_sent stays.
reset ==
  /\ Change /\ port.SEN
  /\ port' = [port EXCEPT !.SRDR = <<>>, !.STDR = <<>>, !.TDF = FALSE]
  /\ open' = FALSE
  /\ slave' = [slave EXCEPT !.state = "idle", !.error = "ok", !.calls = <<>>]
  /\ frames' = <<>> /\ calm' = [calm EXCEPT !.is = ~port.BEF]
  /\ last' = "disturbed"
  /\ UNCHANGED app

Application == initialise \/ stop_listening \/ listen \/ reset

-----------------------------------------------------------------------------
Master == StartFrame \/ SendByte \/ TakeByte \/ EndFrame \/ BitError

Next == Master \/ interrupt_service_routine \/ Application

Spec == Init /\ [][Next]_vars

\* The interrupt is served, and a master that began a frame goes on with it.
FairSpec == Spec /\ WF_vars(interrupt_service_routine)
                 /\ WF_vars(SendByte \/ TakeByte \/ EndFrame)

-----------------------------------------------------------------------------
TypeOK ==
  /\ Len(frames) <= MAX_FRAMES
  /\ \A i \in DOMAIN frames :
       /\ frames[i].dir \in {"read", "write"} /\ frames[i].address \in Addresses
       /\ frames[i].length \in ReadLengths \cup WriteLengths
       /\ frames[i].bytes \in Seq(BytesOf(frames[i]))
       /\ Len(frames[i].bytes) <= frames[i].length
  /\ open \in BOOLEAN
  /\ port \in [SEN : BOOLEAN, AVF : BOOLEAN, SASR : Addresses, SDF : BOOLEAN,
               TDF : BOOLEAN, BEF : BOOLEAN, STDR : Seq(Nat),
               SRDR : Seq([SOF : BOOLEAN, DATA : Nat \X Nat])]
  /\ Len(port.SRDR) <= 1 /\ Len(port.STDR) <= 1
  /\ slave.state \in {"receiving", "transmitting", "idle"}
  /\ slave.error \in {"ok", "buffer_overflow", "buffer_underflow", "bit_error"}
  /\ slave.address_called \in Addresses
  /\ slave.trailing_byte_sent \in BOOLEAN
  /\ {slave.tx_buffer, slave.tx_size, slave.rx_buffer, slave.rx_size} \subseteq Sizes
  /\ slave.tx_index \in 0 .. slave.tx_size
  /\ slave.rx_bytes \in Seq(Nat \X Nat)
  /\ changes \in 0 .. MAX_CHANGES
  /\ app = <<>> \/ app \in {"reset", "buffer"} \X NewSizes \X {"rx", "tx"}
  /\ calm.begun \in Len(frames) .. MAX_FRAMES
  /\ last \in {"fresh", "behind", "disturbed", "cut"}

\* The frames that have ended, and the callbacks each frame calls for.
EndedFrames == IF open THEN Front(frames) ELSE frames

CallsOf(f) ==
  LET call(kind, bytes, error) ==
        <<[kind |-> kind, bytes |-> bytes, error |-> error,
           address |-> f.address]>>
  IN  IF f.dir = "read"
      THEN call("transmitting", <<>>, "ok") \o call("transmitted", <<>>, "ok")
      ELSE IF f.bytes = <<>> \/ f.rx = 0 THEN <<>>
      ELSE IF f.length > f.rx
      THEN call("received", SubSeq(f.bytes, 1, Min({f.rx, Len(f.bytes)})),
                "buffer_overflow")
      ELSE call("received", f.bytes, "ok")

CallsOfAll(s) == FlattenSeq([i \in DOMAIN s |-> CallsOf(s[i])])

Told(call) ==
  <<call.kind, call.bytes, IF call.kind = "received" THEN call.error ELSE "untold">>

\* The callbacks are those of the frames that ended, in order, each once: a
\* write with its bytes as far as they fit and an overflow told if they do
\* not, a read announced before and confirmed after.  However late the
\* interrupt is, at most the last frame is still owed its callbacks.  Whatever
\* disturbs a frame (a new buffer, a stop, a bit error) costs no more callbacks
\* than those of the frames up to the next that ends.
CallbacksFollowFrames ==
  LET due == CallsOfAll(EndedFrames)
      begun == IF open /\ Current.dir = "read"
               THEN <<CallsOf(Current)[1]>> ELSE <<>>
      Telling(calls) == [i \in DOMAIN calls |-> Told(calls[i])]
  IN  calm.is =>
        /\ IsPrefix(Telling(slave.calls), Telling(due \o begun))
        /\ ~Pending => Len(slave.calls) = Len(due \o begun)

\* The frame that the k-th callback is for.
Owners(s) ==
  FlattenSeq([i \in DOMAIN s |-> [k \in DOMAIN CallsOf(s[i]) |-> i]])

\* A callback is given the address its frame called, or that of a later frame
\* when the interrupt was late; never one of before.
AddressNotStale ==
  LET owner == Owners(frames)
  IN  calm.is => \A k \in DOMAIN slave.calls \cap DOMAIN owner :
        slave.calls[k].address \in {frames[j].address : j \in owner[k] .. Len(frames)}

\* A read has been sent the bytes of the buffer from the first one on, and
\* none of them again after the last.
Served(f) == \A j \in DOMAIN f.bytes :
  IF j <= f.tx THEN f.bytes[j] = j ELSE f.bytes[j] \notin 1 .. f.tx

LastRead == frames # <<>> /\ Current.dir = "read"

\* No read is sent a byte of an earlier one, or a byte twice, however late the
\* interrupt is and whatever was before: frames that ended, bit errors that
\* have been seen, buffers installed, stops and restarts between frames, resets
\* at any time.  It must not be disturbed itself, nor follow a frame that
\* stop_listening() or listen() cut off, whose state the driver keeps.
ReadsServed == LastRead /\ last = "fresh" => Served(Current)

\* The port asks for one byte more than the master does.  The driver still
\* does not tell of an underflow when the buffer sufficed, and does tell when
\* more than one byte was missing.  (It does not know after a disturbed read:
\* what it remembers of the byte too many is put right by the next read.)
UnderflowTold ==
  LET owner == Owners(frames)
      sure(i) == /\ frames[i].tx > 0
                 /\ \/ calm.begun = Len(frames)
                    \/ \E j \in 1 .. i - 1 : frames[j].dir = "read"
      told(k) == slave.calls[k].error = "buffer_underflow"
  IN  calm.is => \A k \in DOMAIN slave.calls \cap DOMAIN owner :
        LET f == frames[owner[k]]
        IN  slave.calls[k].kind = "transmitted" /\ sure(owner[k]) =>
              /\ told(k) => f.length > f.tx
              /\ f.length > f.tx + 1 => told(k)

\* With SCL held until the slave answers, every frame must end.
FramesEnd == open ~> ~open

\* The interrupt never stores beyond the receive buffer nor serves what is
\* beyond the transmit buffer.
StoresInBuffer ==
  [][ app' = app =>
        /\ slave'.rx_bytes # slave.rx_bytes => Len(slave'.rx_bytes) <= slave.rx_buffer
        /\ slave'.tx_index > slave.tx_index => slave'.tx_index <= slave.tx_buffer
    ]_vars

-----------------------------------------------------------------------------
(* What a comment of the code says, and the code does not do.              *)

\* i2c_driver.h:137-138 of set_transmit_buffer(): "Determines which data will
\* be sent to the master the next time it reads from us."  That is from its
\* start, also when the slave was stopped or listened again before it.
ReadsFromStart == LastRead /\ last \in {"fresh", "behind"} => Served(Current)

=============================================================================
