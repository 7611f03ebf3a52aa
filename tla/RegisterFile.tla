---------------------------- MODULE RegisterFile ----------------------------
(***************************************************************************)
(* What I2CRegisterSlave promises the master, told without buffers: a      *)
(* memory of registers, of which one may be selected.  A write selects a   *)
(* register or changes registers, a read is answered and ends the          *)
(* selection.                                                              *)
(***************************************************************************)
EXTENDS Integers, Sequences

CONSTANTS
  mutable_buffer_size,            \* registers the master may write and read
  read_only_buffer_size,          \* registers after them that it may read
  REG_SLAVE_WRITE_BUFFER_LENGTH,  \* bytes a write with its register may have
  RegisterNumbers,                \* numbers the master may send
  MAX_LENGTH                      \* bound: bytes of a frame

VARIABLES
  frames,    \* what the master sent
  selected,  \* the register that the next frame is about, or NONE
  memory,    \* the byte in each register
  replies    \* what the master read

vars == <<frames, selected, memory, replies>>

Registers == 0 .. (mutable_buffer_size + read_only_buffer_size - 1)
Mutable == 0 .. (mutable_buffer_size - 1)
NONE == -1
DUMMY == <<"dummy">>

\* The registers that one frame may reach from register r.
SpanOf(r) == IF r \in Mutable THEN r .. (mutable_buffer_size - 1)
             ELSE r .. (mutable_buffer_size + read_only_buffer_size - 1)

Init ==
  /\ frames = <<>>
  /\ selected = NONE
  /\ memory = [r \in Registers |-> <<0, r>>]
  /\ replies = <<>>

\* The bytes of this frame, from the first to the last, are in the registers
\* from r on.
Written(r, first, last) ==
  memory' = [x \in Registers |->
               IF r \in Mutable /\ x \in SpanOf(r) /\ x - r + first <= last
               THEN <<Len(frames) + 1, x - r + first>> ELSE memory[x]]

Frame(f) == frames' = Append(frames, f)

WriteFrame(number, length) ==
  Frame([kind |-> "write", length |-> length, number |-> number])

Taken(length) ==
  IF length < REG_SLAVE_WRITE_BUFFER_LENGTH THEN length
                                            ELSE REG_SLAVE_WRITE_BUFFER_LENGTH

EmptyWrite(number) ==
  /\ WriteFrame(number, 0)
  /\ UNCHANGED <<selected, memory, replies>>

Select(number, length) ==
  /\ selected = NONE /\ Taken(length) = 1
  /\ WriteFrame(number, length)
  /\ selected' = number
  /\ UNCHANGED <<memory, replies>>

\* The number of the register and the bytes for it in one frame.
WriteAtOnce(number, length) ==
  /\ selected = NONE /\ Taken(length) > 1
  /\ WriteFrame(number, length)
  /\ Written(number, 2, Taken(length))
  /\ UNCHANGED <<selected, replies>>

\* The write that follows the selection uses it up, also when the register is
\* no mutable one and what is written is discarded: "Discard the next write if
\* there is one" (i2c_register_slave.cpp:41).
WriteSelected(number, length) ==
  /\ selected # NONE /\ length > 0
  /\ WriteFrame(number, length)
  /\ Written(selected, 1, length)
  /\ selected' = NONE
  /\ UNCHANGED replies

\* Answered up to the end of the register's kind, and with dummies after it.
Read(length) ==
  /\ Frame([kind |-> "read", length |-> length])
  /\ replies' = Append(replies, [i \in 1 .. length |->
       IF selected # NONE /\ selected + i - 1 \in SpanOf(selected)
       THEN memory[selected + i - 1] ELSE DUMMY])
  /\ selected' = NONE
  /\ UNCHANGED memory

listen ==
  /\ Frame([kind |-> "listen"])
  /\ selected' = NONE
  /\ UNCHANGED <<memory, replies>>

Write(number, length) ==
  \/ length = 0 /\ EmptyWrite(number)
  \/ Select(number, length)
  \/ WriteAtOnce(number, length)
  \/ WriteSelected(number, length)

Next ==
  \/ \E number \in RegisterNumbers, length \in 0 .. MAX_LENGTH :
       Write(number, length)
  \/ \E length \in 1 .. MAX_LENGTH : Read(length)
  \/ listen

Spec == Init /\ [][Next]_vars

=============================================================================
