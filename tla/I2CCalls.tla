------------------------------- MODULE I2CCalls -------------------------------
(***************************************************************************)
(* The blocking calls made on one master driver: I2CDevice (i2c_device.h)  *)
(* and the master side of I2CDriverWire (i2c_driver_wire.cpp).  A call     *)
(* begins a transfer, polls finished() for up to 200 ms and returns what   *)
(* the driver says by then, whether the transfer has ended or not.         *)
(***************************************************************************)
EXTENDS I2CMaster, FiniteSetsExt

CONSTANTS
  Calls,             \* the calls the application may make
  MAX_CALLS,         \* bound: calls in a behaviour
  MAX_LATE_CALLS,    \* bound: the same when one timed out or interrupts are late
  rx_buffer_length   \* the size of the buffer requestFrom() reads into

ASSUME CallsAssumption ==
  /\ Calls \subseteq [by : {"device", "wire"}, op : {"read", "write"},
                     n : Nat, stop : BOOLEAN]
  /\ MAX_CALLS \in Nat /\ MAX_LATE_CALLS \in Nat
  /\ rx_buffer_length \in 1 .. MAX_MASTER_READ_LENGTH  \* 32 of 256

VARIABLES
  call,     \* the call being made: how far it is and what it was asked
  results   \* what the calls returned

vars == <<i2c, frames, faults, late, call, results>>

NoCall == [phase |-> "none"]

Init == MasterInit /\ call = NoCall /\ results = <<>>

Number == Len(results) + 1

\* No interrupt was late and no call has timed out yet.
OnTime == /\ ~late
          /\ \A k \in DOMAIN results : ~results[k].timedOut
          /\ call # NoCall => ~call.timedOut

-----------------------------------------------------------------------------
\* I2CDevice::write() puts the register number before the bytes; read() first
\* writes the register number, without a STOP.
BeginDevice(c) ==
  IF c.op = "write"
  THEN i2c' = write_async(i2c, Number, c.n + 1, c.stop)
  ELSE i2c' = write_async(i2c, Number, 1, FALSE)

\* endTransmission() and requestFrom().
BeginWire(c) ==
  IF c.op = "write"
  THEN i2c' = write_async(i2c, Number, c.n, c.stop)
  ELSE i2c' = read_async(i2c, Number, Min({c.n, rx_buffer_length}), c.stop)

Begin ==
  /\ call = NoCall
  /\ Len(results) < IF OnTime THEN MAX_CALLS ELSE MAX_LATE_CALLS
  /\ \E c \in Calls :
       /\ IF c.by = "device" THEN BeginDevice(c) ELSE BeginWire(c)
       /\ call' = [phase |-> IF c.by = "device" /\ c.op = "read"
                             THEN "register" ELSE "transfer",
                   asked |-> c, ready |-> finished(i2c), timedOut |-> FALSE]
  /\ UNCHANGED <<frames, faults, late, results>>

\* finish() gives up; nothing tells the driver or the caller.  A call that has
\* timed out may do so again in its second finish().
TimeOut ==
  /\ call # NoCall /\ ~call.timedOut /\ ~finished(i2c) /\ Number <= MAX_LATE_CALLS
  /\ call' = [call EXCEPT !.timedOut = TRUE]
  /\ UNCHANGED <<i2c, frames, faults, late, results>>

\* Mutant of Waited: finish() does not wait.
Waited_NotAtAll == call # NoCall

Waited == call # NoCall /\ (finished(i2c) \/ call.timedOut)

\* The register number was written as far as anyone knows.
ReadRegister ==
  /\ Waited /\ call.phase = "register" /\ ~has_error(i2c)
  /\ i2c' = read_async(i2c, Number, call.asked.n, call.asked.stop)
  /\ call' = [call EXCEPT !.phase = "transfer"]
  /\ UNCHANGED <<frames, faults, late, results>>

\* What endTransmission() returns; the device's calls return TRUE for 0.
toWireResult(error) == CASE error = "ok" -> 0
                         [] error = "address_nak" -> 2
                         [] error = "data_nak" -> 3
                         [] OTHER -> 4

\* The bytes that came from the bus into the buffer of this call.
Stored == IF i2c.buffer = <<Number, "in">> THEN i2c.done ELSE <<>>

\* requestFrom() returns get_bytes_transferred() instead of the code.
Return ==
  /\ Waited /\ (call.phase = "transfer" \/ has_error(i2c))
  /\ results' = Append(results,
       [asked |-> call.asked, ready |-> call.ready, timedOut |-> call.timedOut,
        data |-> Stored, code |-> toWireResult(i2c.error), count |-> Len(i2c.done)])
  /\ call' = NoCall
  /\ UNCHANGED <<i2c, frames, faults, late>>

\* The application sets the port up again between two calls.
Restart == call = NoCall /\ begin /\ UNCHANGED <<call, results>>

Caller == Begin \/ TimeOut \/ ReadRegister \/ Return \/ Restart

Transfer == (interrupt_service_routine \/ Port) /\ UNCHANGED <<call, results>>

\* The interrupt goes before the code it interrupts.
Next == \/ ~Pending /\ Caller
        \/ Transfer

Spec == Init /\ [][Next]_vars

\* The processor serves interrupts and the port carries out its commands.
FairSpec == Spec /\ WF_vars(Transfer)

-----------------------------------------------------------------------------
\* The driver, its FIFOs and its buffer stay within their bounds, whatever
\* fails, times out or comes late.
TypeOK ==
  /\ i2c.state \in States /\ i2c.error \in Errors
  /\ Len(i2c.done) <= i2c.size
  /\ Len(i2c.MTDR) <= NUM_FIFOS /\ Len(i2c.MRDR) <= NUM_FIFOS
  /\ i2c.MSR \subseteq Failures \cup {"SDF"}
  /\ Len(i2c.command) <= 1
  /\ Len(faults) <= MAX_FAULTS

\* And no call was made while finished() was FALSE.  A call that does not time
\* out leaves it TRUE, but a NAK that comes after the end of a write without a
\* STOP makes it FALSE again.
Undisturbed == /\ OnTime
               /\ \A k \in DOMAIN results : results[k].ready
               /\ call # NoCall => call.ready

\* Nothing worse than a NAK has happened either.
Orderly == Undisturbed /\ ToSet(faults) \subseteq {"NAK"}

\* Whatever times out, fails, is aborted or is tried again, and however late
\* the interrupts are: what a slave takes in one frame comes from the buffer
\* of one call, in order and from its first byte (start(), abort, FillFifo).
FramesAreCalls ==
  \A f \in DOMAIN frames : frames[f].dir = "write" =>
    frames[f].bytes = [i \in DOMAIN frames[f].bytes |->
                         <<<<frames[f].call, "out">>, i>>]

Sent(k, n) == \E f \in DOMAIN frames :
  /\ frames[f].call = k /\ frames[f].dir = "write" /\ frames[f].ack
  /\ Len(frames[f].bytes) >= n

\* If call k reports success, all its bytes were acknowledged (all but the last
\* when no STOP was asked for).
Done(k) ==
  LET r == results[k]
      n == r.asked.n + IF r.asked.by = "device" THEN 1 ELSE 0
  IN  r.code = 0 /\ r.asked.op = "write" =>
        Sent(k, IF r.asked.stop \/ n = 0 THEN n ELSE n - 1)

\* A pin that is held low while a transfer is being aborted for another reason
\* makes the interrupt take it up again.
OneReason == "pin" \in ToSet(faults) => Len(faults) = 1

\* A call that reports success has done what it was asked.
SuccessIsDone == Undisturbed /\ OneReason => \A k \in DOMAIN results : Done(k)

\* "True when it's Ok to do another read or write" (i2c_driver.h:77): so has a
\* call that was made when finished() was TRUE, whatever became of others.
ReadyIsDone ==
  OnTime /\ OneReason => \A k \in DOMAIN results : results[k].ready => Done(k)

\* A read that reports success holds all bytes of one frame of its own, after
\* its register was written.  (A read that times out while its transfer goes on
\* returns TRUE with the buffer as it was: i2c_device.h:104 asks has_error() only.)
ReadsAreWhole ==
  Undisturbed => \A k \in DOMAIN results :
    LET r == results[k]
    IN  r.code = 0 /\ r.asked.op = "read" /\ r.asked.n > 0 =>
          /\ r.asked.by = "device" => Sent(k, 1) /\ Len(r.data) = r.asked.n
          /\ \E f \in DOMAIN frames :
               /\ frames[f].call = k /\ frames[f].dir = "read"
               /\ r.data = frames[f].bytes

\* requestFrom() tells of the bytes it read and no others, also when a NAK ends
\* the transfer.  The count is the driver's, from the transfer it began last:
\* when the driver was not ready (code 4), it is an earlier call's.
CountTrue ==
  Undisturbed => \A k \in DOMAIN results :
    LET r == results[k]
    IN  r.asked.by = "wire" /\ r.asked.op = "read" /\ r.asked.n > 0 /\ r.code # 4 =>
          r.count = Len(r.data)

\* Nobody answered: the call that is told so is the one whose START was
\* refused (by then the driver may serve the next call).
NakIsTheirs ==
  Orderly => \A k \in DOMAIN results : results[k].code = 2 =>
    \E f \in DOMAIN frames : frames[f].call = k /\ ~frames[f].ack

\* Bytes move through a buffer while the call that owns it is being made, and
\* never later: write()'s big_buffer and the reader's are on the stack.
BuffersAlive ==
  [][Undisturbed /\ i2c'.done # i2c.done /\ i2c'.done # <<>>
       => call # NoCall /\ i2c.buffer[1] = Number]_vars

\* Every transfer ends, without a call's timeout, if nothing worse than a NAK
\* happens; a STOP always tells the driver.
NotStuck == Orderly /\ ~finished(i2c) ~> finished(i2c) \/ ~Orderly

=============================================================================
