-------------------------- MODULE I2CRegisterSlave --------------------------
(***************************************************************************)
(* A slave whose memory the master sees as numbered registers              *)
(* (i2c_register_slave.cpp): one write selects a register, the next write  *)
(* or read is about it.  The class does this by installing other buffers   *)
(* in the slave driver from inside the driver's callbacks.                 *)
(*                                                                         *)
(* A frame is one step: what the driver does with its bytes and callbacks  *)
(* is I2CSlave's subject.  Byte i of frame k is <<k, i>>; only a first     *)
(* byte is ever taken as a number.                                         *)
(***************************************************************************)
EXTENDS Integers, Sequences, SequencesExt, FiniteSetsExt

CONSTANTS
  mutable_buffer_size,            \* registers the master may write and read
  read_only_buffer_size,          \* registers after them that it may read
  REG_SLAVE_WRITE_BUFFER_LENGTH,  \* size of rx_buffer
  RegisterNumbers,                \* numbers the master may send
  MAX_LENGTH,                     \* bound: bytes of a frame
  MAX_FRAMES                      \* bound: frames in a behaviour

\* buffer_size is a uint8_t: it holds sizes below 256 only.
ASSUME RegisterAssumption ==
  /\ mutable_buffer_size \in 0 .. 255 /\ read_only_buffer_size \in Nat
  /\ REG_SLAVE_WRITE_BUFFER_LENGTH \in 1 .. 255
  /\ RegisterNumbers \subseteq 0 .. 255
  /\ MAX_LENGTH \in Nat /\ MAX_FRAMES \in Nat

VARIABLES
  frames,  \* what the master sent, and each call of listen()
  device   \* the fields of the class, the driver's two buffers, the memory

vars == <<frames, device>>

Registers == 0 .. (mutable_buffer_size + read_only_buffer_size - 1)
Mutable == 0 .. (mutable_buffer_size - 1)
DUMMY == <<"dummy">>
NONE == -1

\* The receive buffer is rx_buffer (at NONE) or begins at a register.
set_receive_buffer(d, at, size) == [d EXCEPT !.rx = [at |-> at, size |-> size]]
set_transmit_buffer(d, at, size) == [d EXCEPT !.tx = [at |-> at, size |-> size]]

\* Mutant of wait_for_reg_num: the transmit buffer stays installed.
wait_for_reg_num_KeepsTransmit(d) ==
  set_receive_buffer([d EXCEPT !.got_reg_num = FALSE],
                     NONE, REG_SLAVE_WRITE_BUFFER_LENGTH)

wait_for_reg_num(d) ==
  set_transmit_buffer(
    set_receive_buffer([d EXCEPT !.got_reg_num = FALSE],
                       NONE, REG_SLAVE_WRITE_BUFFER_LENGTH), 0, 0)

Init ==
  /\ frames = <<>>
  /\ device = wait_for_reg_num(
       [got_reg_num |-> FALSE, rx |-> [at |-> NONE, size |-> 0],
        tx |-> [at |-> 0, size |-> 0], number |-> 0,
        memory |-> [r \in Registers |-> <<0, r>>], replies |-> <<>>,
        told |-> <<>>])

\* Bytes first, first + 1, ... of frame k, n of them, stored from a register on.
Stored(memory, at, k, first, n) ==
  [r \in DOMAIN memory |-> IF r \in at .. (at + n - 1)
                           THEN <<k, first + r - at>> ELSE memory[r]]

-----------------------------------------------------------------------------
\* Mutant of WriteAtOnce: as many bytes as came are copied.
WriteAtOnce_Unclipped(d, k, len) ==
  LET size == mutable_buffer_size + read_only_buffer_size - d.number
  IN  [d EXCEPT !.memory = Stored(@, d.number, k, 2, Min({len - 1, size}))]

\* The number and the data came in one frame.
WriteAtOnce(d, k, len) ==
  LET buffer_size == mutable_buffer_size - d.number
  IN  IF d.number \notin Mutable THEN d
      ELSE [d EXCEPT !.memory =
              Stored(@, d.number, k, 2, Min({len - 1, buffer_size}))]

\* Mutant of Select: the receive buffer may reach the read only registers.
Select_ReachesReadOnly(d) ==
  LET size == mutable_buffer_size + read_only_buffer_size - d.number
  IN  set_transmit_buffer(set_receive_buffer(d, d.number, Max({size, 0})),
                          d.number, Max({size, 0}))

\* Only the number came: the next frame is about this register.
Select(d) ==
  LET buffer_size == mutable_buffer_size - d.number
      offset == d.number - mutable_buffer_size
  IN  IF d.number \in Mutable
      THEN set_transmit_buffer(set_receive_buffer(d, d.number, buffer_size),
                               d.number, buffer_size)
      ELSE LET discarding == set_receive_buffer(d, NONE, 0) IN
        IF offset < read_only_buffer_size
        THEN set_transmit_buffer(discarding, d.number,
                                 read_only_buffer_size - offset)
        ELSE set_transmit_buffer(discarding, mutable_buffer_size, 0)

after_write(d, n) ==
  wait_for_reg_num([d EXCEPT !.told = Append(@, <<"write", d.number, n>>)])

\* Mutant of after_receive: nobody is told of a write in one frame.
after_receive_AtOnceUntold(d, k, len) ==
  IF d.got_reg_num THEN after_write(d, len)
  ELSE IF len > 1 THEN wait_for_reg_num(WriteAtOnce(d, k, len))
  ELSE Select([d EXCEPT !.got_reg_num = TRUE])

after_receive(d, k, len) ==
  IF d.got_reg_num THEN after_write(d, len)
  ELSE IF len > 1 THEN after_write(WriteAtOnce(d, k, len), len - 1)
  ELSE Select([d EXCEPT !.got_reg_num = TRUE])

\* The driver stores what fits; with no buffer it stores nothing and calls
\* nobody.
WriteFrame ==
  \E number \in RegisterNumbers, length \in 0 .. MAX_LENGTH :
    LET k == Len(frames) + 1
        n == Min({length, device.rx.size})
        stored == IF n = 0 THEN device
                  ELSE IF device.rx.at = NONE
                  THEN [device EXCEPT !.number = number]
                  ELSE [device EXCEPT !.memory = Stored(@, device.rx.at, k, 1, n)]
    IN  /\ frames' = Append(frames, [kind |-> "write", length |-> length,
                                     number |-> number])
        /\ device' = IF n = 0 THEN device ELSE after_receive(stored, k, n)

after_transmit(d) ==
  [wait_for_reg_num(d) EXCEPT !.told = Append(@, <<"read", d.number>>)]

ReadFrame ==
  \E length \in 1 .. MAX_LENGTH :
    LET reply == [i \in 1 .. length |-> IF i <= device.tx.size
                    THEN device.memory[device.tx.at + i - 1] ELSE DUMMY]
    IN  /\ frames' = Append(frames, [kind |-> "read", length |-> length])
        /\ device' = after_transmit([device EXCEPT !.replies = Append(@, reply)])

\* The class enables the port first, and sets its callbacks and buffers after
\* that, outside the interrupt.  A frame that comes when listen() is repeated,
\* between the two, is one before this step; one that comes while the buffers
\* are being set, or before the first listen() has ended, is not modelled.
listen ==
  /\ frames' = Append(frames, [kind |-> "listen"])
  /\ device' = wait_for_reg_num(device)

Next == Len(frames) < MAX_FRAMES /\ (WriteFrame \/ ReadFrame \/ listen)

Spec == Init /\ [][Next]_vars

-----------------------------------------------------------------------------
\* The buffers the driver may store into or send from lie in the registers.
TypeOK ==
  /\ device.rx.at = NONE \/ device.rx.at + device.rx.size <= mutable_buffer_size
  /\ device.tx.size = 0 \/ device.tx.at + device.tx.size - 1 \in Registers
  /\ device.number \in RegisterNumbers \cup {0}
  /\ DOMAIN device.memory = Registers

\* The memory that the frames address, one register at most being selected.
File == INSTANCE RegisterFile WITH
          selected <- IF device.got_reg_num THEN device.number ELSE NONE,
          memory <- device.memory, replies <- device.replies

\* A write that finds a register selected which is no mutable one: the driver
\* has a receive buffer of no bytes, so it calls nobody, and the register stays
\* selected.
StaysSelected ==
  /\ device.got_reg_num /\ device.number \notin Mutable
  /\ \E number \in RegisterNumbers, length \in 1 .. MAX_LENGTH :
       frames' = Append(frames, [kind |-> "write", length |-> length,
                                 number |-> number])
  /\ UNCHANGED device

\* What the class does by swapping buffers is what the frames mean: every read
\* is answered from the register selected last, if no frame has used the
\* selection up, up to the end of its kind, and with dummies after it; the
\* memory holds the bytes that were addressed to it, and no read only register
\* changes.  The one exception is the write that ought to be discarded and use
\* up the selection: the class discards it and keeps the selection.
IsFileButForDiscards ==
  File!Init /\ [][File!Next \/ StaysSelected]_vars

\* i2c_register_slave.cpp:41 says of a selected register that cannot be written
\* "Discard the next write if there is one", and the test after it
\* (test_i2c_register_slave.cpp:406-426) that this write uses the selection up
\* and is told.  The code discards every write until a read.
IsRegisterFile == File!Spec

\* A change is told once, in the frame that made it, with the first register
\* it changed and no fewer bytes than it changed.
ChangesTold ==
  [][device'.memory # device.memory =>
       LET changed == {r \in Registers : device'.memory[r] # device.memory[r]}
           told == Last(device'.told)
       IN  /\ Len(device'.told) = Len(device.told) + 1
           /\ told[1] = "write" /\ told[2] = Min(changed)
           /\ told[3] >= Cardinality(changed)]_vars

=============================================================================
