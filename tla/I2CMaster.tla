------------------------------ MODULE I2CMaster ------------------------------
(***************************************************************************)
(* The master half of the I2C driver (imx_rt1060_i2c_driver.cpp) and the   *)
(* LPI2C port it drives: the calls that begin a transfer, the interrupt    *)
(* service routine, the two FIFOs and the abort path.  I2CCalls adds the   *)
(* programs that make the calls.                                           *)
(*                                                                         *)
(* The port and the slaves are external.  A command leaves the transmit    *)
(* FIFO when the port begins to carry it out, so that a FIFO can be empty  *)
(* while its last command is still on the bus.  The interrupt is served    *)
(* before the port goes on, or, in a `late' behaviour, at any later time.  *)
(***************************************************************************)
EXTENDS Integers, Sequences, SequencesExt

CONSTANTS
  NUM_FIFOS,               \* places in each of the two FIFOs
  MAX_MASTER_READ_LENGTH,  \* the longest read the port can be asked for
  MAX_FAULTS,              \* bound: NAKs, lost arbitrations, stuck pins, resets
  MAX_LATE_FAULTS          \* bound: the same when interrupts are late

ASSUME MasterAssumption ==
  /\ NUM_FIFOS \in Nat \ (0 .. 2)  \* start() and read_async() need three
  /\ MAX_MASTER_READ_LENGTH \in Nat \ {0}
  /\ MAX_FAULTS \in Nat /\ MAX_LATE_FAULTS \in 0 .. MAX_FAULTS

VARIABLES
  i2c,     \* the driver (lower case) and the registers of its port (upper case)
  frames,  \* what happened on the bus, one record per START
  faults,  \* the faults so far
  late     \* whether the port may go on while an interrupt waits to be served

masterVars == <<i2c, frames, faults, late>>

Errors == {"ok", "arbitration_lost", "invalid_request",
           "master_pin_low_timeout", "master_not_ready", "master_fifo_error",
           "master_fifos_not_empty", "address_nak", "data_nak"}

BusyStates == {"starting", "transferring", "stopping"}
States == BusyStates \cup {"idle", "transfer_complete", "stopped"}

MasterInit ==
  /\ i2c = [state |-> "idle", error |-> "ok", ignore_tdf |-> FALSE,
            stop_on_completion |-> FALSE,
            buffer |-> <<0, "none">>, size |-> 0, done |-> <<>>,
            MTDR |-> <<>>, MRDR |-> <<>>, MSR |-> {}, TDIE |-> FALSE,
            MBF |-> FALSE, command |-> <<>>]
  /\ frames = <<>>
  /\ faults = <<>>
  /\ late \in BOOLEAN

finished(s) == s.state \notin BusyStates
has_error(s) == s.error # "ok"

Fault(kind) == /\ Len(faults) < IF late THEN MAX_LATE_FAULTS ELSE MAX_FAULTS
               /\ faults' = Append(faults, kind)

-----------------------------------------------------------------------------
(* The calls.  They map the record i2c to what it is after them.           *)

STOP == [op |-> "STOP"]

\* Mutant of abort_transaction_async: no STOP is sent.
abort_without_stop(s) ==
  [s EXCEPT !.TDIE = FALSE, !.MRDR = <<>>, !.MTDR = <<>>]

\* Both FIFOs are emptied; a STOP follows if the bus is still the master's.
abort_transaction_async(s) ==
  [s EXCEPT !.TDIE = FALSE, !.MRDR = <<>>,
            !.MTDR = IF s.MBF /\ "SDF" \notin s.MSR THEN <<STOP>> ELSE <<>>]

CanStart(s) == finished(s) /\ s.MTDR = <<>> /\ s.MRDR = <<>>

\* start(): only when it can start does it send the address.  The other two
\* cases differ in the state they leave behind.
start(s, direction, caller) ==
  LET begun == [s EXCEPT !.ignore_tdf = direction = "read",
                         !.error = "ok", !.state = "starting"]
  IN  IF ~finished(s)
      THEN [abort_transaction_async(s) EXCEPT !.error = "master_not_ready",
                                              !.state = "idle"]
      ELSE IF ~CanStart(s)
      THEN abort_transaction_async(
             [begun EXCEPT !.error = "master_fifos_not_empty"])
      ELSE [begun EXCEPT !.MSR = {},
              !.MTDR = <<[op |-> "START", dir |-> direction, call |-> caller]>>]

\* I2CBuffer::initialise(); `done' is what went through the buffer since.
initialise(s, buffer, n) ==
  [s EXCEPT !.buffer = buffer, !.size = n, !.done = <<>>]

\* Mutant of write_async: the buffer is not installed anew.
write_async_KeepsIndex(s, caller, n, send_stop) ==
  LET begun == start(s, "write", caller)
  IN  IF ~CanStart(s) THEN begun
      ELSE [begun EXCEPT !.buffer = <<caller, "out">>, !.size = n,
                         !.stop_on_completion = send_stop, !.TDIE = TRUE]

write_async(s, caller, n, send_stop) ==
  LET begun == start(s, "write", caller)
  IN  IF ~CanStart(s) THEN begun
      ELSE IF n = 0 THEN [begun EXCEPT !.ignore_tdf = TRUE,
                                       !.MTDR = Append(@, STOP)]
      ELSE [initialise(begun, <<caller, "out">>, n)
              EXCEPT !.stop_on_completion = send_stop, !.TDIE = TRUE]

\* Mutant of read_async: the buffer is installed when the bytes are asked for
\* with a STOP only.
read_async_StopOnly(s, caller, n, send_stop) ==
  LET begun == start(s, "read", caller)
      asked == [begun EXCEPT !.MTDR = @ \o <<[op |-> "RECEIVE", n |-> n]>>]
  IN  IF n > MAX_MASTER_READ_LENGTH \/ ~CanStart(s) \/ n = 0 THEN begun
      ELSE IF ~send_stop THEN asked
      ELSE initialise([asked EXCEPT !.MTDR = Append(@, STOP)], <<caller, "in">>, n)

read_async(s, caller, n, send_stop) ==
  LET begun == start(s, "read", caller)
      receive == IF n = 0 THEN <<>> ELSE <<[op |-> "RECEIVE", n |-> n]>>
      end == IF n = 0 \/ send_stop THEN <<STOP>> ELSE <<>>
      asked == [begun EXCEPT !.MTDR = @ \o receive \o end]
  IN  IF n > MAX_MASTER_READ_LENGTH THEN [s EXCEPT !.error = "invalid_request"]
      ELSE IF ~CanStart(s) THEN begun
      ELSE IF n = 0 THEN asked
      ELSE initialise(asked, <<caller, "in">>, n)

\* end() and begin(): the port is reset, the driver's own state is not.
begin ==
  /\ i2c' = [i2c EXCEPT !.MTDR = <<>>, !.MRDR = <<>>, !.MSR = {}, !.MBF = FALSE,
                        !.TDIE = FALSE, !.command = <<>>]
  /\ Fault("begin")
  /\ UNCHANGED <<frames, late>>

-----------------------------------------------------------------------------
(* The interrupt service routine, part by part; msr is the status it read  *)
(* when it began.                                                          *)

Status(s) == s.MSR \cup (IF s.MRDR # <<>> THEN {"RDF"} ELSE {})
                   \cup (IF s.MTDR = <<>> THEN {"TDF"} ELSE {})

Pending == \/ i2c.MSR # {}
           \/ i2c.MRDR # <<>>
           \/ i2c.TDIE /\ i2c.MTDR = <<>>

Failures == {"NDF", "ALF", "FEF", "PLTF"}

\* Of several failures the last one in the order of the code is told.
ErrorOf(s, msr) ==
  CASE "PLTF" \in msr -> "master_pin_low_timeout"
    [] "ALF" \in msr -> "arbitration_lost"
    [] "NDF" \in msr -> IF s.state = "starting" THEN "address_nak"
                                                ELSE "data_nak"
    [] OTHER -> IF has_error(s) THEN s.error ELSE "master_fifo_error"

AfterFailure(s, msr) ==
  LET told == [s EXCEPT !.error = ErrorOf(s, msr), !.MSR = @ \ Failures]
  IN  IF msr \cap Failures = {} THEN s
      ELSE IF s.state = "stopping" THEN told
      ELSE abort_transaction_async([told EXCEPT !.state = "stopping"])

AfterStop(s, msr) ==
  IF "SDF" \in msr
  THEN [s EXCEPT !.TDIE = FALSE, !.state = "stopped", !.MSR = @ \ {"SDF"}]
  ELSE s

\* The first byte in either direction: the error is forgotten.
FirstByte(s) ==
  IF s.done = <<>> THEN [s EXCEPT !.error = "ok", !.state = "transferring"]
                   ELSE s

\* buff.write(port->MRDR); a FIFO that was just emptied reads as anything.
TakeByte(s) ==
  LET byte == IF s.MRDR = <<>> THEN <<0, 0>> ELSE Head(s.MRDR)
      rest == IF s.MRDR = <<>> THEN <<>> ELSE Tail(s.MRDR)
  IN  [s EXCEPT !.MRDR = rest,
                !.done = IF Len(@) = s.size THEN @ ELSE Append(@, byte)]

\* finished_reading(): the STOP that ends the read may still be queued.
EndOfRead(s) ==
  IF Len(s.done) = s.size
  THEN [s EXCEPT !.state = IF Len(s.MTDR) = 1 THEN "stopping"
                                              ELSE "transfer_complete"]
  ELSE s

AfterReceive(s, msr) ==
  LET first == FirstByte(s)
  IN  IF "RDF" \notin msr THEN s
      ELSE IF ~s.ignore_tdf
      THEN abort_transaction_async([s EXCEPT !.state = "stopping"])
      ELSE EndOfRead(IF first.state = "transferring" THEN TakeByte(first)
                                                     ELSE [first EXCEPT !.MRDR = <<>>])

\* Mutant of FillFifo: every refill begins at the first byte.
FillFifo_FromStart(s) ==
  LET left == s.size - Len(s.done)
      bytes == [i \in 1 .. (IF left < NUM_FIFOS THEN left ELSE NUM_FIFOS) |->
                  <<s.buffer, i>>]
  IN  [s EXCEPT !.done = @ \o bytes,
         !.MTDR = [i \in DOMAIN bytes |-> [op |-> "TRANSMIT", byte |-> bytes[i]]]]

\* As many bytes of the buffer as the FIFO has room for.
FillFifo(s) ==
  LET room == NUM_FIFOS - Len(s.MTDR)
      left == s.size - Len(s.done)
      bytes == [i \in 1 .. (IF left < room THEN left ELSE room) |->
                  <<s.buffer, Len(s.done) + i>>]
  IN  [s EXCEPT !.done = @ \o bytes,
         !.MTDR = @ \o [i \in DOMAIN bytes |->
                          [op |-> "TRANSMIT", byte |-> bytes[i]]]]

\* Mutant of EndOfWrite: the end is told when the last byte is queued.
EndOfWrite_Early(s) ==
  IF Len(s.done) # s.size THEN s
  ELSE IF s.stop_on_completion
  THEN [s EXCEPT !.TDIE = FALSE, !.state = "stopped",
                 !.MTDR = Append(@, STOP)]
  ELSE [s EXCEPT !.TDIE = FALSE, !.state = "transfer_complete"]

\* finished_writing() and nothing queued any more.
EndOfWrite(s) ==
  IF Len(s.done) # s.size \/ s.MTDR # <<>> THEN s
  ELSE IF s.stop_on_completion
  THEN [s EXCEPT !.TDIE = FALSE, !.state = "stopping", !.MTDR = <<STOP>>]
  ELSE [s EXCEPT !.TDIE = FALSE, !.state = "transfer_complete"]

AfterTransmit(s, msr) ==
  LET first == FirstByte(s)
  IN  IF s.ignore_tdf \/ "TDF" \notin msr THEN s
      ELSE IF first.state = "transferring" THEN EndOfWrite(FillFifo(first))
      ELSE first

interrupt_service_routine ==
  LET msr == Status(i2c)
  IN  /\ Pending
      /\ i2c' = AfterTransmit(AfterReceive(AfterStop(AfterFailure(i2c, msr),
                                                     msr), msr), msr)
      /\ UNCHANGED <<frames, faults, late>>

-----------------------------------------------------------------------------
(* The port and the slaves.                                                *)

PortMayGoOn == late \/ ~Pending

\* A command is taken from the FIFO (a START makes the master busy); after a
\* failure the port waits until the driver has cleared the flag.
TakeCommand ==
  /\ PortMayGoOn
  /\ i2c.command = <<>> /\ i2c.MTDR # <<>> /\ i2c.MSR \cap Failures = {}
  /\ i2c' = [i2c EXCEPT !.command = <<Head(i2c.MTDR)>>, !.MTDR = Tail(@),
                         !.MBF = @ \/ Head(i2c.MTDR).op = "START"]
  /\ UNCHANGED <<frames, faults, late>>

Doing(op) == PortMayGoOn /\ i2c.command # <<>> /\ i2c.command[1].op = op

\* The command is over, with or without a failure.
Over(flags, busy) ==
  i2c' = [i2c EXCEPT !.command = <<>>, !.MSR = @ \cup flags, !.MBF = busy]

Answer(ack, kind) == IF ack THEN UNCHANGED faults ELSE Fault(kind)

SendStart ==
  /\ Doing("START")
  /\ \E ack \in BOOLEAN :
       /\ frames' = Append(frames, [call |-> i2c.command[1].call, ack |-> ack,
                                    dir |-> i2c.command[1].dir, bytes |-> <<>>])
       /\ Over(IF ack THEN {} ELSE {"NDF"}, TRUE)
       /\ Answer(ack, "NAK")
  /\ UNCHANGED late

\* A START was acknowledged, for this direction, and no STOP has followed.
InFrame(direction) == /\ i2c.MBF /\ frames # <<>>
                      /\ Last(frames).ack /\ Last(frames).dir = direction

Transferred(byte) ==
  frames' = [frames EXCEPT ![Len(frames)].bytes = Append(@, byte)]

\* The next START may be queued already when the last byte of a write without
\* a STOP is refused.
SendByte ==
  /\ Doing("TRANSMIT") /\ InFrame("write")
  /\ \E ack \in BOOLEAN :
       /\ IF ack THEN Transferred(i2c.command[1].byte) ELSE UNCHANGED frames
       /\ Over(IF ack THEN {} ELSE {"NDF"}, TRUE)
       /\ Answer(ack, IF \E c \in ToSet(i2c.MTDR) : c.op = "START"
                      THEN "NAK too late" ELSE "NAK")
  /\ UNCHANGED late

ReceiveByte ==
  LET byte == <<Len(frames), Len(Last(frames).bytes) + 1>>
      n == i2c.command[1].n
  IN  /\ Doing("RECEIVE") /\ InFrame("read") /\ Len(i2c.MRDR) < NUM_FIFOS
      /\ Transferred(byte)
      /\ i2c' = [i2c EXCEPT !.MRDR = Append(@, byte),
                   !.command = IF n = 1 THEN <<>> ELSE <<[@[1] EXCEPT !.n = n - 1]>>]
      /\ UNCHANGED <<faults, late>>

\* Sending or receiving without a START.
FifoError ==
  /\ \/ Doing("TRANSMIT") /\ ~InFrame("write")
     \/ Doing("RECEIVE") /\ ~InFrame("read")
  /\ Over({"FEF"}, i2c.MBF)
  /\ UNCHANGED <<frames, faults, late>>

\* A STOP on a bus that is not the master's has no effect.
SendStop ==
  /\ Doing("STOP")
  /\ Over(IF i2c.MBF THEN {"SDF"} ELSE {}, FALSE)
  /\ UNCHANGED <<frames, faults, late>>

\* Another master wins: the bus is released, and there will be no STOP.
LoseArbitration ==
  /\ Doing("START") \/ Doing("TRANSMIT")
  /\ Fault("arbitration")
  /\ Over({"ALF"}, FALSE)
  /\ UNCHANGED <<frames, late>>

\* SCL is held low for too long: the command goes on when it is released.
HoldPinLow ==
  /\ PortMayGoOn /\ i2c.command # <<>> /\ "PLTF" \notin i2c.MSR
  /\ Fault("pin")
  /\ i2c' = [i2c EXCEPT !.MSR = @ \cup {"PLTF"}]
  /\ UNCHANGED <<frames, late>>

Port == \/ TakeCommand \/ SendStart \/ SendByte \/ ReceiveByte \/ FifoError
        \/ SendStop \/ LoseArbitration \/ HoldPinLow

=============================================================================
