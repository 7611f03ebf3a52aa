------------------------------ MODULE WireSlave ------------------------------
(***************************************************************************)
(* The slave side of the Wire compatible driver (i2c_driver_wire.cpp): the *)
(* two buffers it shares between the callbacks, which run in the interrupt *)
(* of the I2C slave, and the sketch's loop().  The slave driver is taken   *)
(* by what I2CSlave shows of it: bytes are stored and served in order, and *)
(* each frame has its callbacks.                                           *)
(*                                                                         *)
(* The fields are not volatile and loop() is not protected: it is one step *)
(* per access, in every order the compiler may choose, and the interrupt   *)
(* may come between any two.                                               *)
(***************************************************************************)
EXTENDS Integers, Sequences, SequencesExt, FiniteSetsExt

CONSTANTS
  rx_buffer_length,
  tx_buffer_length,
  Blocks,      \* lengths of what the sketch passes to one write()
  MAX_LENGTH,  \* bound: bytes of a frame
  MAX_FRAMES   \* bound: frames in a behaviour

ASSUME WireAssumption ==
  /\ rx_buffer_length \in Nat \ {0} /\ tx_buffer_length \in Nat \ {0}
  /\ Blocks \subseteq Nat \ {0}
  /\ MAX_LENGTH \in Nat /\ MAX_FRAMES \in Nat

VARIABLES
  role,    \* whether a callback or loop() reads, which of them writes, and
           \* whether the master waits until loop() has read a frame
  wire,    \* the fields of I2CDriverWire
  slave,   \* the indexes of the slave driver's two I2CBuffers
  frame,   \* the frame under way, if any
  count,   \* frames begun
  loop,    \* loop(): where it is, what it has loaded, and whether a frame was
           \* told after a read() had loaded the count, before it advanced
  sent, got,    \* the bytes told to the sketch, and those it has read
  told, served  \* the bytes write() accepted for a read, and those it was sent

vars == <<role, wire, slave, frame, count, loop, sent, got, told, served>>

DUMMY == <<0, 0>>
\* A byte is known by its frame and its position.
Bytes == (0 .. MAX_FRAMES) \X (0 .. MAX_LENGTH + tx_buffer_length)

Roles == [reader : {"callback", "loop"}, writer : {"callback", "loop"},
          waits : BOOLEAN]

Goto(l, pc, todo) == [l EXCEPT !.pc = pc, !.todo = todo]

Init ==
  \* It is only a reading loop() that the master may wait for.
  /\ role \in { r \in Roles : r.waits => r.reader = "loop" }
  /\ wire = [rxBuffer |-> [i \in 1 .. rx_buffer_length |-> DUMMY],
             tx_buffer |-> [i \in 1 .. tx_buffer_length |-> DUMMY],
             rx_bytes_available |-> 0, rx_next_byte_to_read |-> 0,
             tx_next_byte_to_write |-> 0]
  /\ slave = [rx_index |-> 0, tx_size |-> 0, tx_index |-> 0]
  /\ frame = <<>> /\ count = 0
  /\ loop = [pc |-> "available", todo |-> {"available", "next"},
             available |-> 0, next |-> 0, byte |-> DUMMY,
             length |-> 1, filled |-> <<>>, overtaken |-> FALSE]
  /\ sent = <<>> /\ got = <<>> /\ told = <<>> /\ served = <<>>

-----------------------------------------------------------------------------
(* write() and read() without interruption, as a callback has them.        *)

Block(f, index, n) == [i \in 1 .. n |-> <<f, index + i>>]

\* Bytes stored from an index on; a store outside the buffer shows as a cell
\* the buffer does not have.
Stored(buffer, index, block) ==
  [i \in DOMAIN buffer \cup (index + 1) .. (index + Len(block)) |->
     IF i \in (index + 1) .. (index + Len(block)) THEN block[i - index]
     ELSE buffer[i]]

\* Mutant of Fits: one byte too many.
Fits_OneMore(index, n) == index + n <= tx_buffer_length + 1

\* Both write(): all of it or, when it does not fit, nothing.
Fits(index, n) == index + n <= tx_buffer_length

write(w, n) ==
  IF Fits(w.tx_next_byte_to_write, n)
  THEN [w EXCEPT !.tx_buffer =
                   Stored(@, w.tx_next_byte_to_write,
                          Block(count, w.tx_next_byte_to_write, n)),
                 !.tx_next_byte_to_write = @ + n]
  ELSE w

\* What a sketch gets from this many calls of read(), without the last -1.
Readable(w, n) ==
  SubSeq(w.rxBuffer, w.rx_next_byte_to_read + 1,
         Min({w.rx_next_byte_to_read + n, w.rx_bytes_available}))

-----------------------------------------------------------------------------
(* The master, the slave driver and the callbacks, all in the interrupt.   *)

\* There is one buffer, and nothing in the code protects what loop() has not
\* read of it: the next frame replaces it, unless the master waits.
StartFrame ==
  /\ frame = <<>> /\ count < MAX_FRAMES
  /\ \E d \in {"read", "write"}, n \in 1 .. MAX_LENGTH :
       /\ d = "write" /\ role.reader = "loop" /\ role.waits => got = sent
       /\ frame' = <<[dir |-> d, length |-> n, done |-> 0]>>
  /\ count' = count + 1
  /\ slave' = [slave EXCEPT !.rx_index = 0]
  /\ told' = <<>> /\ served' = <<>>
  /\ UNCHANGED <<role, wire, loop, sent, got>>

\* Mutant of Room: one byte too many.
Room_OneMore(index) == index <= rx_buffer_length

Room(index) == index < rx_buffer_length

\* I2CBuffer::write() into rxBuffer.
Receive ==
  /\ frame # <<>> /\ frame[1].dir = "write" /\ frame[1].done < frame[1].length
  /\ frame' = [frame EXCEPT ![1].done = @ + 1]
  /\ IF Room(slave.rx_index)
     THEN /\ wire' = [wire EXCEPT !.rxBuffer[slave.rx_index + 1] =
                        <<count, frame'[1].done>>]
          /\ slave' = [slave EXCEPT !.rx_index = @ + 1]
     ELSE UNCHANGED <<wire, slave>>
  /\ UNCHANGED <<role, count, loop, sent, got, told, served>>

\* Mutant of Received: the index keeps its place in the frame before.
Received_KeepsIndex(num_bytes) ==
  [wire EXCEPT !.rx_bytes_available = num_bytes]

Received(num_bytes) ==
  [wire EXCEPT !.rx_bytes_available = num_bytes, !.rx_next_byte_to_read = 0]

\* loop() has the count that read() tests, and has not stored the index yet.
Reading == \/ loop.pc = "read" /\ "available" \notin loop.todo
           \/ loop.pc = "take" /\ "index" \in loop.todo

\* The sketch's on_receive() may read as many bytes as it likes.
on_receive_wrapper ==
  /\ frame # <<>> /\ frame[1].dir = "write" /\ frame[1].done = frame[1].length
  /\ frame' = <<>>
  /\ LET announced == Block(count, 0, slave.rx_index)
         told_wire == Received(slave.rx_index)
     IN  IF role.reader = "callback"
         THEN \E n \in 0 .. rx_buffer_length :
                /\ sent' = announced /\ got' = Readable(told_wire, n)
                /\ wire' = [told_wire EXCEPT !.rx_next_byte_to_read =
                              @ + Len(Readable(told_wire, n))]
         ELSE sent' = sent \o announced /\ wire' = told_wire /\ UNCHANGED got
  /\ loop' = [loop EXCEPT !.overtaken = Reading]
  /\ UNCHANGED <<role, slave, count, told, served>>

\* Mutant of Requested: the transmit buffer is not emptied.
Requested_KeepsIndex(n, m) == write(write(wire, n), m)

\* on_request() with up to two write() in it; a length of 0 is none.
Requested(n, m) == write(write([wire EXCEPT !.tx_next_byte_to_write = 0], n), m)

\* What the calls of write() in on_request() say that they accepted.
Accepted(n, m) ==
  LET first == IF n <= tx_buffer_length THEN n ELSE 0
      both == IF first + m <= tx_buffer_length THEN first + m ELSE first
  IN  Block(count, 0, both)

before_transmit ==
  /\ frame # <<>> /\ frame[1].dir = "read" /\ frame[1].done = 0
  /\ \E n, m \in IF role.writer = "callback" THEN Blocks \cup {0} ELSE {0} :
       /\ wire' = Requested(n, m)
       /\ told' = loop.filled \o Accepted(n, m)
  /\ slave' = [slave EXCEPT !.tx_size = wire'.tx_next_byte_to_write, !.tx_index = 0]
  /\ loop' = [loop EXCEPT !.filled = <<>>]
  /\ frame' = [frame EXCEPT ![1].done = 1]
  /\ UNCHANGED <<role, count, sent, got, served>>

\* The interrupt of the slave driver answers from the buffer it was given.
Serve ==
  /\ frame # <<>> /\ frame[1].dir = "read" /\ frame[1].done > 0
  /\ IF frame[1].done > frame[1].length
     THEN frame' = <<>> /\ UNCHANGED <<slave, served>>
     ELSE /\ frame' = [frame EXCEPT ![1].done = @ + 1]
          /\ served' = Append(served, IF slave.tx_index < slave.tx_size
                                      THEN wire.tx_buffer[slave.tx_index + 1]
                                      ELSE DUMMY)
          /\ slave' = [slave EXCEPT !.tx_index =
                         IF @ < slave.tx_size THEN @ + 1 ELSE @]
  /\ UNCHANGED <<role, wire, count, loop, sent, got, told>>

interrupt == StartFrame \/ Receive \/ on_receive_wrapper \/ before_transmit \/ Serve

-----------------------------------------------------------------------------
(* loop(): while (available()) read(); then perhaps a write().             *)

LoadIndexes(l) ==
  {Goto([l EXCEPT ![f] = IF f = "next" THEN wire.rx_next_byte_to_read
                                       ELSE wire.rx_bytes_available],
        l.pc, l.todo \ {f}) : f \in l.todo}

Load ==
  /\ role.reader = "loop" /\ loop.pc \in {"available", "read"}
  /\ loop' \in LoadIndexes(loop)
  /\ UNCHANGED <<role, wire, slave, frame, count, sent, got, told, served>>

Again(l) == Goto([l EXCEPT !.available = 0, !.next = 0, !.length = 1],
                 "available", {"available", "next"})

available ==
  /\ loop.pc = "available" /\ (loop.todo = {} \/ role.reader = "callback")
  /\ IF loop.available - loop.next # 0
     THEN loop' = Goto(loop, "read", {"available", "next"})
     ELSE \/ loop' = Again(loop)
          \/ /\ role.writer = "loop"
             /\ \E n \in Blocks :
                  loop' = Goto([loop EXCEPT !.length = n], "write", {"test"})
  /\ UNCHANGED <<role, wire, slave, frame, count, sent, got, told, served>>

read ==
  /\ loop.pc = "read" /\ loop.todo = {}
  /\ loop' = IF loop.next < loop.available THEN Goto(loop, "take", {"byte", "index"})
             ELSE Again(loop)
  /\ UNCHANGED <<role, wire, slave, frame, count, sent, got, told, served>>

\* rxBuffer[rx_next_byte_to_read++]
Take ==
  /\ loop.pc = "take"
  /\ \/ /\ "byte" \in loop.todo
        /\ loop' = [loop EXCEPT !.byte = wire.rxBuffer[loop.next + 1],
                                !.todo = @ \ {"byte"}]
        /\ UNCHANGED <<wire, got>>
     \/ /\ "index" \in loop.todo
        /\ wire' = [wire EXCEPT !.rx_next_byte_to_read = loop.next + 1]
        /\ loop' = [loop EXCEPT !.todo = @ \ {"index"}]
        /\ UNCHANGED got
     \/ /\ loop.todo = {}
        /\ got' = Append(got, loop.byte)
        /\ loop' = Again([loop EXCEPT !.byte = DUMMY])
        /\ UNCHANGED wire
  /\ UNCHANGED <<role, slave, frame, count, sent, told, served>>

\* The index that was tested may be used, or loaded again, at both places
\* (but not after it has been stored).
Index == IF "advance" \in loop.todo THEN {loop.next, wire.tx_next_byte_to_write}
                                    ELSE {loop.next}

Written == Block(0, loop.next, loop.length)

Write ==
  /\ loop.pc = "write"
  /\ \/ /\ "test" \in loop.todo
        /\ loop' = IF Fits(wire.tx_next_byte_to_write, loop.length)
                   THEN Goto([loop EXCEPT !.next = wire.tx_next_byte_to_write],
                             "write", {"copy", "advance"})
                   ELSE Again(loop)
        /\ UNCHANGED wire
     \/ /\ "copy" \in loop.todo
        /\ \E i \in Index :
             wire' = [wire EXCEPT !.tx_buffer = Stored(@, i, Written)]
        /\ loop' = Goto(loop, "write", loop.todo \ {"copy"})
     \/ /\ "advance" \in loop.todo
        /\ \E i \in Index :
             wire' = [wire EXCEPT !.tx_next_byte_to_write = i + loop.length]
        /\ loop' = Goto(loop, "write", loop.todo \ {"advance"})
     \/ /\ loop.todo = {}
        /\ loop' = Again([loop EXCEPT !.filled = @ \o Written])
        /\ UNCHANGED wire
  /\ UNCHANGED <<role, slave, frame, count, sent, got, told, served>>

Loop == Load \/ available \/ read \/ Take \/ Write

Next == interrupt \/ Loop

Spec == Init /\ [][Next]_vars

\* loop() goes on, and a master that began a frame goes on with it.
FairSpec == Spec /\ WF_vars(Loop)
                 /\ WF_vars(Receive \/ on_receive_wrapper \/ before_transmit \/ Serve)

-----------------------------------------------------------------------------
TypeOK ==
  /\ role \in Roles
  /\ wire.rxBuffer \in [1 .. rx_buffer_length -> Bytes]
  /\ wire.rx_bytes_available \in 0 .. rx_buffer_length
  /\ wire.rx_next_byte_to_read \in 0 .. rx_buffer_length
  /\ slave.rx_index \in 0 .. rx_buffer_length
  /\ slave.tx_index \in 0 .. slave.tx_size
  /\ count \in 0 .. MAX_FRAMES /\ Len(frame) <= 1
  /\ loop.pc \in {"available", "read", "take", "write"}
  /\ loop.byte \in Bytes
  /\ {sent, got, told, served} \subseteq Seq(Bytes)

\* Nothing is stored outside the transmit buffer, nor served from there, even
\* when a request empties it between two accesses of a write().
WritesInBuffer ==
  /\ wire.tx_buffer \in [1 .. tx_buffer_length -> Bytes]
  /\ slave.tx_size <= tx_buffer_length

\* The sketch reads the bytes of a frame in order, each once, and none of an
\* earlier frame: in on_receive(), and in loop() if the master waits for it.
ReadsAreFrames ==
  (role.reader = "loop" => role.waits) => IsPrefix(got, sent)

\* available() is negative only after a frame that was told in the middle of a
\* read() in loop() (between the load and the store of its index,
\* i2c_driver_wire.cpp:94-95), and not after the next one, whether the master
\* waits or not.  In a callback it is never negative.
NeverNegative ==
  loop.overtaken \/ wire.rx_next_byte_to_read <= wire.rx_bytes_available

\* Every byte told to a sketch that reads in loop() is read, if the master waits
\* for it.
AllIsRead == role.reader = "loop" /\ role.waits /\ got # sent ~> got = sent

Served == \A i \in DOMAIN served :
            served[i] = IF i <= Len(told) THEN told[i] ELSE DUMMY

\* A read is sent the bytes that write() said it had accepted for it, and
\* padding after them.
ServedAsTold == role.writer = "callback" => Served

=============================================================================
