--------------------------- MODULE WireSlaveProofs ---------------------------
(***************************************************************************)
(* Proofs about WireSlave: for any size of the two buffers, and however    *)
(* the callbacks and loop() interleave, nothing is stored outside a        *)
(* buffer, available() is negative only after a frame was told inside a    *)
(* read(), and a read is sent what on_request() wrote for it; if the       *)
(* master waits for a sketch that reads in loop(), every byte is read once *)
(* and in order.                                                           *)
(***************************************************************************)
EXTENDS WireSlave, TLAPS

Frames == [dir : {"read", "write"}, length : 1 .. MAX_LENGTH,
           done : 0 .. MAX_LENGTH + 1]

Wires == [rxBuffer : [1 .. rx_buffer_length -> Bytes],
          tx_buffer : [1 .. tx_buffer_length -> Bytes],
          rx_bytes_available : 0 .. rx_buffer_length,
          rx_next_byte_to_read : 0 .. rx_buffer_length,
          tx_next_byte_to_write : 0 .. tx_buffer_length]
Slaves == [rx_index : 0 .. rx_buffer_length, tx_size : 0 .. tx_buffer_length,
           tx_index : 0 .. tx_buffer_length]
Loops == [pc : {"available", "read", "take", "write"},
          todo : SUBSET {"available", "next", "byte", "index",
                         "test", "copy", "advance"},
          available : 0 .. rx_buffer_length, next : Nat, byte : Bytes,
          length : Nat, filled : Seq(Bytes), overtaken : BOOLEAN]

Types ==
  /\ role \in Roles /\ wire \in Wires /\ slave \in Slaves /\ loop \in Loops
  /\ frame = <<>> \/ \E f \in Frames : frame = <<f>>
  /\ count \in 0 .. MAX_FRAMES
  /\ sent \in Seq(Bytes) /\ got \in Seq(Bytes)
  /\ told \in Seq(Bytes) /\ served \in Seq(Bytes)

Receiving == frame # <<>> /\ frame[1].dir = "write"
Asking == frame # <<>> /\ frame[1].dir = "read" /\ frame[1].done = 0
Serving == frame # <<>> /\ frame[1].dir = "read" /\ frame[1].done > 0

\* Of a frame under way as much has been stored as the buffer holds.
FrameStored ==
  Receiving =>
    /\ frame[1].done <= frame[1].length
    /\ slave.rx_index =
         IF frame[1].done <= rx_buffer_length THEN frame[1].done
                                              ELSE rx_buffer_length
    /\ \A i \in 1 .. slave.rx_index : wire.rxBuffer[i] = <<count, i>>

\* write() in loop(): the block fits where it was tested, and a request that
\* comes in between can only make room.
WriteFits ==
  loop.pc = "write" =>
    /\ role.writer = "loop"
    /\ "test" \in loop.todo => loop.todo = {"test"}
    /\ "test" \notin loop.todo => loop.next + loop.length <= tx_buffer_length
    /\ "advance" \in loop.todo => wire.tx_next_byte_to_write <= loop.next

\* What each place of loop() has to do before it goes on; a byte is taken only
\* from before the count that was loaded.
Places ==
  /\ loop.pc \in {"available", "read"} => loop.todo \subseteq {"available", "next"}
  /\ loop.pc = "take" => /\ loop.todo \subseteq {"byte", "index"}
                         /\ loop.next < loop.available
  /\ loop.pc = "write" => loop.todo \subseteq {"test", "copy", "advance"}

\* A sketch that reads in its callback reads nothing in loop().
CallbackReads ==
  role.reader = "callback" =>
    /\ loop.pc \in {"available", "write"}
    /\ loop.pc = "available" => loop.available = loop.next

\* The index of the first byte that loop() has not taken.
Unread == IF loop.pc = "take" THEN loop.next ELSE wire.rx_next_byte_to_read

\* What was told and not read yet is what the buffer holds from there on.
BufferHolds ==
  role.reader = "loop" =>
    /\ Unread <= wire.rx_bytes_available
    /\ Len(sent) = Len(got) + (wire.rx_bytes_available - Unread)
    /\ \A i \in 1 .. wire.rx_bytes_available - Unread :
         sent[Len(got) + i] = wire.rxBuffer[Unread + i]

\* What loop() has loaded is true, or was before the frame that is unread now
\* came; that is found out before a byte is taken.
LoadsTrue ==
  role.reader = "loop" =>
    /\ loop.pc = "available" =>
         /\ Unread < wire.rx_bytes_available \/
              /\ "available" \notin loop.todo =>
                   loop.available = wire.rx_bytes_available
              /\ "next" \notin loop.todo =>
                   loop.next = wire.rx_next_byte_to_read
    /\ loop.pc = "read" =>
         /\ Unread < wire.rx_bytes_available
         /\ "available" \notin loop.todo =>
              loop.available = wire.rx_bytes_available
         /\ "next" \notin loop.todo => loop.next = wire.rx_next_byte_to_read
    /\ loop.pc = "take" =>
         /\ loop.next < wire.rx_bytes_available
         /\ wire.rx_next_byte_to_read =
              IF "index" \in loop.todo THEN loop.next ELSE loop.next + 1
         /\ "byte" \notin loop.todo => loop.byte = wire.rxBuffer[loop.next + 1]

\* The master has waited for a sketch that reads in loop().
Waited == role.reader = "loop" /\ Receiving => got = sent

InOrder ==
  /\ Len(got) <= Len(sent)
  /\ \A i \in 1 .. Len(got) : got[i] = sent[i]

NotAhead == wire.rx_next_byte_to_read <= wire.rx_bytes_available

\* This takes a master that waits.
Paced == role.reader = "loop" => role.waits

ReadInv ==
  /\ InOrder
  /\ NotAhead
  /\ CallbackReads /\ BufferHolds /\ LoadsTrue /\ Waited

\* A read under way is answered from what on_request() has just written.
Answering ==
  role.writer = "callback" =>
    /\ loop.filled = <<>>
    /\ Asking => served = <<>>
    /\ Serving =>
         /\ slave.tx_size = Len(told)
         /\ Len(served) = frame[1].done - 1
         /\ slave.tx_index = IF Len(served) <= Len(told) THEN Len(served)
                                                         ELSE Len(told)
         /\ \A i \in 1 .. Len(told) : wire.tx_buffer[i] = told[i]

ServeInv == Answering /\ ServedAsTold

IndexBound == slave.tx_index <= slave.tx_size

TInv == Types /\ WriteFits /\ IndexBound /\ FrameStored /\ Places

\* Whatever the master does: a count that loop() has loaded is the one of the
\* buffer until a frame is told, and then the read() is known as overtaken.
CountInv ==
  /\ NeverNegative
  /\ loop.pc = "read" /\ "available" \notin loop.todo =>
       loop.overtaken \/ loop.available = wire.rx_bytes_available
  /\ loop.pc = "take" /\ "index" \in loop.todo =>
       loop.overtaken \/ loop.next < wire.rx_bytes_available

IInv == TInv /\ CountInv /\ ServeInv /\ (Paced => ReadInv)

-----------------------------------------------------------------------------
LEMMA MinLemma ==
  ASSUME NEW a \in Int, NEW b \in Int
  PROVE  Min({a, b}) = IF a <= b THEN a ELSE b
<1>1. \E x \in {a, b} : \A y \in {a, b} : x <= y
  OBVIOUS
<1>2. Min({a, b}) \in {a, b} /\ \A y \in {a, b} : Min({a, b}) <= y
  BY <1>1 DEF Min
<1> QED
  BY <1>2

LEMMA ConcatLemma ==
  ASSUME NEW S, NEW s \in Seq(S), NEW t \in Seq(S)
  PROVE  Len(s \o t) = Len(s) + Len(t)
  OBVIOUS

LEMMA DummyLemma == DUMMY \in Bytes
  BY WireAssumption DEF DUMMY, Bytes

LEMMA InitTInv == Init => TInv
<1> SUFFICES ASSUME Init
             PROVE  TInv
  OBVIOUS
<1> USE WireAssumption
<1>2. Types
  BY DummyLemma DEF Init, Types, Roles, Wires, Slaves, Loops
<1> QED
  BY <1>2 DEF Init, TInv, WriteFits, IndexBound, FrameStored, Receiving,
                 Places

\* A frame under way is one record, and so it is with a byte more.
LEMMA OneLemma ==
  ASSUME NEW f \in Frames
  PROVE  /\ <<f>> # <<>> /\ <<f>>[1] = f
         /\ [<<f>> EXCEPT ![1].done = @ + 1] = <<[f EXCEPT !.done = @ + 1]>>
         /\ [<<f>> EXCEPT ![1].done = 1] = <<[f EXCEPT !.done = 1]>>
  OBVIOUS

LEMMA FrameLemma ==
  ASSUME Types, frame # <<>>
  PROVE  /\ frame[1] \in Frames
         /\ frame = <<frame[1]>>
         /\ [frame EXCEPT ![1].done = @ + 1] =
              <<[frame[1] EXCEPT !.done = @ + 1]>>
         /\ [frame EXCEPT ![1].done = 1] = <<[frame[1] EXCEPT !.done = 1]>>
<1>1. PICK f \in Frames : frame = <<f>>
  BY DEF Types
<1>2. frame[1] = f
  BY <1>1, OneLemma
<1> QED
  BY <1>1, <1>2, OneLemma

LEMMA BlockLemma ==
  ASSUME NEW f \in 0 .. MAX_FRAMES, NEW index \in Nat, NEW n \in Nat,
         index + n <= MAX_LENGTH + tx_buffer_length
  PROVE  /\ Block(f, index, n) \in Seq(Bytes)
         /\ Len(Block(f, index, n)) = n
         /\ \A i \in 1 .. n : Block(f, index, n)[i] = <<f, index + i>>
<1>1. \A i \in 1 .. n : <<f, index + i>> \in Bytes
  BY WireAssumption DEF Bytes
<1> QED
  BY <1>1 DEF Block

\* A block that fits leaves the buffer its cells.
LEMMA StoredLemma ==
  ASSUME NEW buffer \in [1 .. tx_buffer_length -> Bytes],
         NEW index \in Nat, NEW block \in Seq(Bytes),
         index + Len(block) <= tx_buffer_length
  PROVE  /\ Stored(buffer, index, block) \in [1 .. tx_buffer_length -> Bytes]
         /\ \A i \in 1 .. tx_buffer_length :
              Stored(buffer, index, block)[i] =
                IF i \in (index + 1) .. (index + Len(block))
                THEN block[i - index] ELSE buffer[i]
<1>1. DOMAIN buffer \cup (index + 1) .. (index + Len(block)) = 1 .. tx_buffer_length
  BY WireAssumption
<1>2. \A i \in (index + 1) .. (index + Len(block)) : block[i - index] \in Bytes
  OBVIOUS
<1> QED
  BY <1>1, <1>2 DEF Stored
-----------------------------------------------------------------------------
(* The types, the bound of a write() in loop() and the bytes stored.       *)

LEMMA TStartFrame == TInv /\ StartFrame => TInv'
<1> SUFFICES ASSUME TInv, StartFrame
             PROVE  TInv'
  OBVIOUS
<1> USE WireAssumption
<1>1. PICK f \in Frames : frame' = <<f>> /\ f.done = 0 /\ f.length >= 1
  <2>1. PICK d \in {"read", "write"}, n \in 1 .. MAX_LENGTH :
          frame' = <<[dir |-> d, length |-> n, done |-> 0]>>
    BY DEF StartFrame
  <2>2. [dir |-> d, length |-> n, done |-> 0] \in Frames
    BY DEF Frames
  <2> QED
    BY <2>1, <2>2
<1>2. frame'[1] = f
  BY <1>1, OneLemma
<1>3. Types'
  <2>1. slave' \in Slaves
    <3>1. slave \in Slaves /\ slave' = [slave EXCEPT !.rx_index = 0]
      BY DEF TInv, Types, StartFrame
    <3> QED
      BY <3>1 DEF Slaves
  <2>2. count' \in 0 .. MAX_FRAMES
    BY DEF TInv, Types, StartFrame
  <2>3. told' \in Seq(Bytes) /\ served' \in Seq(Bytes)
    BY DEF StartFrame
  <2>4. UNCHANGED <<role, wire, loop, sent, got>>
    BY DEF StartFrame
  <2> QED
    BY <1>1, <2>1, <2>2, <2>3, <2>4 DEF TInv, Types
<1>4. FrameStored'
  BY <1>1, <1>2 DEF TInv, Types, StartFrame, FrameStored, Receiving
<1>5. WriteFits' /\ IndexBound'
  BY DEF TInv, WriteFits, IndexBound, StartFrame
<1>20. Places'
  BY DEF TInv, Places, StartFrame
<1> QED
  BY <1>3, <1>4, <1>5, <1>20 DEF TInv

LEMMA TReceive == TInv /\ Receive => TInv'
<1> SUFFICES ASSUME TInv, Receive
             PROVE  TInv'
  OBVIOUS
<1> USE WireAssumption
<1> DEFINE f == frame[1]
           g == [f EXCEPT !.done = @ + 1]
<1>1. Types /\ WriteFits /\ IndexBound /\ FrameStored
  BY DEF TInv
<1>2. f \in Frames /\ frame' = <<g>>
  BY <1>1, FrameLemma DEF Receive
<1>3. f.dir = "write" /\ f.done < f.length /\ Receiving
  BY DEF Receive, Receiving
<1>4. g \in Frames /\ g.done = f.done + 1 /\ g.dir = f.dir /\ g.length = f.length
  BY <1>2, <1>3 DEF Frames
<1>5. frame'[1] = g /\ frame' # <<>>
  BY <1>2, <1>4, OneLemma
<1> HIDE DEF f, g
<1>6. <<count, g.done>> \in Bytes
  BY <1>1, <1>2, <1>3, <1>4 DEF Types, Frames, Bytes
<1>7. \/ /\ slave.rx_index < rx_buffer_length
         /\ wire' = [wire EXCEPT !.rxBuffer[slave.rx_index + 1] = <<count, g.done>>]
         /\ slave' = [slave EXCEPT !.rx_index = @ + 1]
      \/ /\ ~(slave.rx_index < rx_buffer_length)
         /\ wire' = wire /\ slave' = slave
  BY <1>5 DEF Receive, Room
<1>8. UNCHANGED <<role, count, loop, sent, got, told, served>>
  BY DEF Receive
<1>9. wire' \in Wires
  <2> DEFINE b == [wire.rxBuffer EXCEPT ![slave.rx_index + 1] = <<count, g.done>>]
  <2>1. b \in [1 .. rx_buffer_length -> Bytes]
    BY <1>1, <1>6 DEF Types, Wires
  <2>2. wire' = wire \/ wire' = [wire EXCEPT !.rxBuffer = b]
    BY <1>7
  <2> HIDE DEF b
  <2> QED
    BY <1>1, <2>1, <2>2 DEF Types, Wires
<1>10. slave' \in Slaves
  BY <1>1, <1>7 DEF Types, Slaves
<1>11. Types'
  BY <1>1, <1>2, <1>4, <1>8, <1>9, <1>10 DEF Types
<1>12. FrameStored'
  <2>1. /\ f.done <= f.length
        /\ slave.rx_index = IF f.done <= rx_buffer_length THEN f.done
                                                          ELSE rx_buffer_length
        /\ \A i \in 1 .. slave.rx_index : wire.rxBuffer[i] = <<count, i>>
    BY <1>1, <1>3 DEF FrameStored, f
  <2>2. f.done \in Nat /\ f.length \in Nat /\ slave.rx_index \in Nat
    BY <1>1, <1>2 DEF Frames, Types, Slaves
  <2>3. slave'.rx_index = IF g.done <= rx_buffer_length THEN g.done
                                                        ELSE rx_buffer_length
    BY <1>1, <1>4, <1>7, <2>1, <2>2 DEF Types, Slaves, Wires
  <2>4. \A i \in 1 .. slave'.rx_index : wire'.rxBuffer[i] = <<count, i>>
    <3>1. wire.rxBuffer \in [1 .. rx_buffer_length -> Bytes]
      BY <1>1 DEF Types, Wires
    <3>2. CASE ~(slave.rx_index < rx_buffer_length)
      BY <1>7, <2>1, <3>2
    <3>3. CASE slave.rx_index < rx_buffer_length
      <4>1. wire'.rxBuffer =
              [wire.rxBuffer EXCEPT ![slave.rx_index + 1] = <<count, g.done>>]
        BY <1>1, <1>7, <3>3 DEF Types, Wires
      <4>2. slave'.rx_index = slave.rx_index + 1
        BY <1>1, <1>7, <3>3 DEF Types, Slaves
      <4>3. g.done = slave.rx_index + 1
        BY <1>4, <2>1, <2>2, <3>3
      <4> QED
        BY <2>1, <2>2, <3>1, <3>3, <4>1, <4>2, <4>3
    <3> QED
      BY <3>2, <3>3
  <2> QED
    BY <1>3, <1>4, <1>5, <1>8, <2>1, <2>2, <2>3, <2>4 DEF FrameStored, Receiving
<1>13. WriteFits' /\ IndexBound'
  BY <1>1, <1>7, <1>8 DEF WriteFits, IndexBound, Types, Slaves, Wires
<1>20. Places'
  BY DEF TInv, Places, Receive
<1> QED
  BY <1>11, <1>12, <1>13, <1>20 DEF TInv

\* What read() gets of a frame that has just been told to the sketch.
LEMMA ReadableLemma ==
  ASSUME NEW w \in Wires, w.rx_next_byte_to_read = 0, NEW n \in Nat
  PROVE  /\ Readable(w, n) \in Seq(Bytes)
         /\ Len(Readable(w, n)) =
              IF n <= w.rx_bytes_available THEN n ELSE w.rx_bytes_available
         /\ \A i \in 1 .. Len(Readable(w, n)) : Readable(w, n)[i] = w.rxBuffer[i]
<1> DEFINE m == IF n <= w.rx_bytes_available THEN n ELSE w.rx_bytes_available
<1>1. w.rx_bytes_available \in 0 .. rx_buffer_length
  BY DEF Wires
<1>2. Min({w.rx_next_byte_to_read + n, w.rx_bytes_available}) = m
  BY <1>1, MinLemma, WireAssumption
<1>3. Readable(w, n) = SubSeq(w.rxBuffer, 1, m)
  <2>1. w.rx_next_byte_to_read + 1 = 1
    OBVIOUS
  <2> HIDE DEF m
  <2> QED
    BY <1>2, <2>1 DEF Readable
<1>4. m \in 0 .. rx_buffer_length
  BY <1>1, WireAssumption
<1>5. w.rxBuffer \in [1 .. rx_buffer_length -> Bytes]
  BY DEF Wires
<1> HIDE DEF m
<1>6. SubSeq(w.rxBuffer, 1, m) = [i \in 1 .. m |-> w.rxBuffer[i]]
  BY <1>4, <1>5, WireAssumption
<1>7. \A i \in 1 .. m : w.rxBuffer[i] \in Bytes
  BY <1>4, <1>5, WireAssumption
<1> QED
  BY <1>3, <1>4, <1>6, <1>7 DEF m

\* Telling a frame marks a read() under way and leaves loop() otherwise alone.
LEMMA MarkLemma ==
  ASSUME Types, on_receive_wrapper
  PROVE  /\ loop' \in Loops /\ loop'.overtaken = Reading
         /\ loop'.pc = loop.pc /\ loop'.todo = loop.todo
         /\ loop'.available = loop.available /\ loop'.next = loop.next
         /\ loop'.byte = loop.byte /\ loop'.length = loop.length
         /\ loop'.filled = loop.filled
<1>1. loop \in Loops
  BY DEF Types
<1>2. Reading \in BOOLEAN /\ loop' = [loop EXCEPT !.overtaken = Reading]
  BY DEF on_receive_wrapper, Reading
<1> QED
  BY ONLY <1>1, <1>2 DEF Loops

LEMMA Ton_receive_wrapper == TInv /\ on_receive_wrapper => TInv'
<1> SUFFICES ASSUME TInv, on_receive_wrapper
             PROVE  TInv'
  OBVIOUS
<1> USE WireAssumption
<1> DEFINE announced == Block(count, 0, slave.rx_index)
           w == Received(slave.rx_index)
<1>1. Types /\ WriteFits /\ IndexBound /\ FrameStored
  BY DEF TInv
<1>2. frame[1] \in Frames /\ Receiving
  BY <1>1, FrameLemma DEF on_receive_wrapper, Receiving
<1>3. slave.rx_index \in 0 .. MAX_LENGTH /\ slave.rx_index <= rx_buffer_length
  BY <1>1, <1>2 DEF FrameStored, Frames
<1>4. announced \in Seq(Bytes)
  BY <1>1, <1>3, BlockLemma DEF Types
<1>5. w \in Wires /\ w.rx_next_byte_to_read = 0
      /\ w.rx_bytes_available = slave.rx_index
      /\ w.tx_next_byte_to_write = wire.tx_next_byte_to_write
  <2>1. wire \in Wires /\ w = [wire EXCEPT !.rx_bytes_available = slave.rx_index,
                                         !.rx_next_byte_to_read = 0]
    BY <1>1 DEF Types, Received
  <2>2. slave.rx_index \in 0 .. rx_buffer_length /\ 0 \in 0 .. rx_buffer_length
    BY <1>3
  <2> HIDE DEF w
  <2>3. w \in Wires
    BY ONLY <2>1, <2>2 DEF Wires
  <2>4. w.rx_next_byte_to_read = 0 /\ w.rx_bytes_available = slave.rx_index
        /\ w.tx_next_byte_to_write = wire.tx_next_byte_to_write
    BY ONLY <2>1 DEF Wires
  <2> QED
    BY <2>3, <2>4
<1> HIDE DEF announced, w
<1>6. \/ /\ role.reader = "callback"
         /\ \E n \in 0 .. rx_buffer_length :
               /\ sent' = announced /\ got' = Readable(w, n)
               /\ wire' = [w EXCEPT !.rx_next_byte_to_read =
                             @ + Len(Readable(w, n))]
      \/ /\ role.reader = "loop"
         /\ sent' = sent \o announced /\ wire' = w /\ UNCHANGED got
  BY <1>1 DEF on_receive_wrapper, announced, w, Types, Roles
<1>7. /\ wire' \in Wires /\ sent' \in Seq(Bytes) /\ got' \in Seq(Bytes)
      /\ wire'.tx_next_byte_to_write = wire.tx_next_byte_to_write
  <2>1. CASE role.reader = "callback"
    <3>1. PICK n \in 0 .. rx_buffer_length :
            /\ sent' = announced /\ got' = Readable(w, n)
            /\ wire' = [w EXCEPT !.rx_next_byte_to_read = @ + Len(Readable(w, n))]
      BY <1>6, <2>1
    <3>2. n \in Nat
      OBVIOUS
    <3> DEFINE r == Readable(w, n)
    <3>3. r \in Seq(Bytes) /\ Len(r) = IF n <= slave.rx_index THEN n
                                                             ELSE slave.rx_index
      BY <1>5, <3>2, ReadableLemma
    <3> HIDE DEF r
    <3>4. Len(r) \in 0 .. rx_buffer_length
      BY <1>3, <3>2, <3>3
    <3>5. wire' = [w EXCEPT !.rx_next_byte_to_read = Len(r)]
      BY <1>5, <3>1, <3>4 DEF r, Wires
    <3>6. wire' \in Wires /\ wire'.tx_next_byte_to_write = w.tx_next_byte_to_write
      BY <1>5, <3>4, <3>5 DEF Wires
    <3> QED
      BY <1>4, <1>5, <3>1, <3>3, <3>6 DEF r
  <2>2. CASE role.reader = "loop"
    <3>1. sent \in Seq(Bytes) /\ got \in Seq(Bytes)
      BY <1>1 DEF Types
    <3>2. sent' = sent \o announced /\ wire' = w /\ got' = got
      BY <1>6, <2>2
    <3> QED
      BY <1>4, <1>5, <3>1, <3>2
  <2> QED
    BY <1>6, <2>1, <2>2
<1>8. frame' = <<>> /\ UNCHANGED <<role, slave, count, told, served>>
  BY DEF on_receive_wrapper
<1>14. /\ loop' \in Loops /\ loop'.pc = loop.pc /\ loop'.todo = loop.todo
       /\ loop'.available = loop.available /\ loop'.next = loop.next
       /\ loop'.length = loop.length
  BY <1>1, MarkLemma
<1>9. Types'
  BY <1>1, <1>7, <1>8, <1>14 DEF Types
<1>10. FrameStored' /\ IndexBound'
  BY <1>1, <1>8 DEF FrameStored, Receiving, IndexBound
<1>11. WriteFits'
  BY <1>1, <1>7, <1>8, <1>14 DEF WriteFits
<1>20. Places'
  BY <1>14 DEF TInv, Places
<1> QED
  BY <1>9, <1>10, <1>11, <1>20 DEF TInv

\* A write() takes all of its bytes or none.
LEMMA WriteLemma ==
  ASSUME NEW w \in Wires, NEW n \in Nat, count \in 0 .. MAX_FRAMES
  PROVE  /\ write(w, n) \in Wires
         /\ write(w, n).rxBuffer = w.rxBuffer
         /\ write(w, n).rx_bytes_available = w.rx_bytes_available
         /\ write(w, n).rx_next_byte_to_read = w.rx_next_byte_to_read
         /\ write(w, n).tx_next_byte_to_write =
              IF w.tx_next_byte_to_write + n <= tx_buffer_length
              THEN w.tx_next_byte_to_write + n ELSE w.tx_next_byte_to_write
         /\ \A i \in 1 .. write(w, n).tx_next_byte_to_write :
              write(w, n).tx_buffer[i] =
                IF i <= w.tx_next_byte_to_write THEN w.tx_buffer[i] ELSE <<count, i>>
<1> USE WireAssumption
<1> DEFINE k == w.tx_next_byte_to_write
           block == Block(count, k, n)
           buffer == Stored(w.tx_buffer, k, block)
<1>1. k \in Nat /\ k \in 0 .. tx_buffer_length
      /\ w.tx_buffer \in [1 .. tx_buffer_length -> Bytes]
  BY DEF Wires
<1>2. CASE ~(k + n <= tx_buffer_length)
  BY <1>1, <1>2 DEF write, Fits
<1>3. CASE k + n <= tx_buffer_length
  <2>1. block \in Seq(Bytes) /\ Len(block) = n
        /\ \A i \in 1 .. n : block[i] = <<count, k + i>>
    <3>1. k + n <= MAX_LENGTH + tx_buffer_length
      BY <1>1, <1>3
    <3> HIDE DEF k
    <3> QED
      BY <1>1, <3>1, BlockLemma
  <2> HIDE DEF block
  <2>2. /\ buffer \in [1 .. tx_buffer_length -> Bytes]
        /\ \A i \in 1 .. tx_buffer_length :
             buffer[i] = IF i \in (k + 1) .. (k + n) THEN block[i - k]
                         ELSE w.tx_buffer[i]
    <3> HIDE DEF k
    <3>1. k + Len(block) <= tx_buffer_length
      BY <1>3, <2>1
    <3> QED
      BY <1>1, <2>1, <3>1, StoredLemma
  <2>3. write(w, n) = [w EXCEPT !.tx_buffer = buffer, !.tx_next_byte_to_write = k + n]
    BY <1>3 DEF write, Fits, block
  <2> HIDE DEF buffer
  <2>4. k + n \in 0 .. tx_buffer_length
    BY <1>1, <1>3
  <2>5. /\ write(w, n) \in Wires
        /\ write(w, n).rxBuffer = w.rxBuffer
        /\ write(w, n).rx_bytes_available = w.rx_bytes_available
        /\ write(w, n).rx_next_byte_to_read = w.rx_next_byte_to_read
        /\ write(w, n).tx_next_byte_to_write = k + n
        /\ write(w, n).tx_buffer = buffer
    <3> HIDE DEF k
    <3> QED
      BY ONLY <2>2, <2>3, <2>4 DEF Wires
  <2>6. \A i \in 1 .. k + n : buffer[i] = IF i <= k THEN w.tx_buffer[i]
                                                    ELSE <<count, i>>
    <3> HIDE DEF k
    <3> SUFFICES ASSUME NEW i \in 1 .. k + n
                 PROVE  buffer[i] = IF i <= k THEN w.tx_buffer[i] ELSE <<count, i>>
      OBVIOUS
    <3>1. i \in 1 .. tx_buffer_length
      BY <1>1, <1>3
    <3>2. CASE i <= k
      BY <1>1, <2>2, <3>1, <3>2
    <3>3. CASE ~(i <= k)
      <4>1. i - k \in 1 .. n /\ i \in (k + 1) .. (k + n) /\ k + (i - k) = i
        BY <1>1, <3>1, <3>3
      <4>2. block[i - k] = <<count, k + (i - k)>>
        BY <2>1, <4>1
      <4> QED
        BY <2>2, <3>1, <3>3, <4>1, <4>2
    <3> QED
      BY <3>2, <3>3
  <2> QED
    BY <1>3, <2>5, <2>6
<1> QED
  BY <1>2, <1>3

\* What on_request() was told is in the buffer, from its start.
LEMMA RequestedLemma ==
  ASSUME Types, NEW n \in Nat, NEW m \in Nat
  PROVE  /\ Requested(n, m) \in Wires
         /\ Requested(n, m).rxBuffer = wire.rxBuffer
         /\ Requested(n, m).rx_bytes_available = wire.rx_bytes_available
         /\ Requested(n, m).rx_next_byte_to_read = wire.rx_next_byte_to_read
         /\ Accepted(n, m) \in Seq(Bytes)
         /\ Len(Accepted(n, m)) = Requested(n, m).tx_next_byte_to_write
         /\ \A i \in 1 .. Len(Accepted(n, m)) :
              Requested(n, m).tx_buffer[i] = Accepted(n, m)[i]
         /\ n = 0 /\ m = 0 => Requested(n, m).tx_next_byte_to_write = 0
                              /\ Accepted(n, m) = <<>>
<1> USE WireAssumption
<1> DEFINE w0 == [wire EXCEPT !.tx_next_byte_to_write = 0]
           w1 == write(w0, n)
           w2 == write(w1, m)
           first == IF n <= tx_buffer_length THEN n ELSE 0
           both == IF first + m <= tx_buffer_length THEN first + m ELSE first
<1>0. count \in 0 .. MAX_FRAMES
  BY DEF Types
<1>1. /\ w0 \in Wires /\ w0.rxBuffer = wire.rxBuffer
      /\ w0.rx_bytes_available = wire.rx_bytes_available
      /\ w0.rx_next_byte_to_read = wire.rx_next_byte_to_read
      /\ w0.tx_next_byte_to_write = 0
  <2>1. wire \in Wires /\ 0 \in 0 .. tx_buffer_length
    BY DEF Types
  <2> QED
    BY ONLY <2>1 DEF Wires
<1> HIDE DEF w0
<1>2. /\ w1 \in Wires /\ w1.rxBuffer = wire.rxBuffer
      /\ w1.rx_bytes_available = wire.rx_bytes_available
      /\ w1.rx_next_byte_to_read = wire.rx_next_byte_to_read
      /\ w1.tx_next_byte_to_write = first
      /\ \A i \in 1 .. first : w1.tx_buffer[i] = <<count, i>>
  <2>1. w1.tx_next_byte_to_write = first
    BY <1>0, <1>1, WriteLemma
  <2>2. \A i \in 1 .. w1.tx_next_byte_to_write :
          w1.tx_buffer[i] = IF i <= w0.tx_next_byte_to_write
                            THEN w0.tx_buffer[i] ELSE <<count, i>>
    BY <1>0, <1>1, WriteLemma
  <2>3. \A i \in 1 .. first : ~(i <= w0.tx_next_byte_to_write)
    BY <1>1
  <2> HIDE DEF first
  <2>4. \A i \in 1 .. first : w1.tx_buffer[i] = <<count, i>>
    BY <2>1, <2>2, <2>3
  <2> QED
    BY <1>0, <1>1, <2>1, <2>4, WriteLemma
<1> HIDE DEF w1
<1>3. first \in 0 .. tx_buffer_length
  OBVIOUS
<1>4. /\ w2 \in Wires /\ w2.rxBuffer = wire.rxBuffer
      /\ w2.rx_bytes_available = wire.rx_bytes_available
      /\ w2.rx_next_byte_to_read = wire.rx_next_byte_to_read
      /\ w2.tx_next_byte_to_write = both
      /\ \A i \in 1 .. both : w2.tx_buffer[i] = <<count, i>>
  <2> HIDE DEF first
  <2>1. w2.tx_next_byte_to_write = both
    BY <1>0, <1>2, WriteLemma
  <2>2. \A i \in 1 .. w2.tx_next_byte_to_write :
          w2.tx_buffer[i] = IF i <= w1.tx_next_byte_to_write
                            THEN w1.tx_buffer[i] ELSE <<count, i>>
    BY <1>0, <1>2, WriteLemma
  <2>3. \A i \in 1 .. both : i <= w1.tx_next_byte_to_write => i \in 1 .. first
    BY <1>2, <1>3
  <2> HIDE DEF both
  <2>4. \A i \in 1 .. both : w2.tx_buffer[i] = <<count, i>>
    BY <1>2, <2>1, <2>2, <2>3
  <2> QED
    BY <1>0, <1>2, <2>1, <2>4, WriteLemma
<1>5. Requested(n, m) = w2 /\ Accepted(n, m) = Block(count, 0, both)
  BY DEF Requested, Accepted, w1, w0
<1>6. both \in 0 .. tx_buffer_length
  BY <1>3
<1>7. n = 0 /\ m = 0 => both = 0
  OBVIOUS
<1> HIDE DEF w2, both
<1>8. /\ Block(count, 0, both) \in Seq(Bytes)
      /\ Len(Block(count, 0, both)) = both
      /\ \A i \in 1 .. both : Block(count, 0, both)[i] = <<count, 0 + i>>
  <2>1. 0 \in Nat /\ both \in Nat /\ 0 + both <= MAX_LENGTH + tx_buffer_length
    BY <1>6
  <2> QED
    BY <1>0, <2>1, BlockLemma
<1>9. \A i \in 1 .. both : 0 + i = i
  BY <1>6
<1>10. both = 0 => Block(count, 0, both) = <<>>
  BY DEF Block
<1>11. /\ Accepted(n, m) \in Seq(Bytes) /\ Len(Accepted(n, m)) = both
       /\ \A i \in 1 .. both : Accepted(n, m)[i] = <<count, i>>
  BY <1>5, <1>8, <1>9
<1>12. \A i \in 1 .. both : Requested(n, m).tx_buffer[i] = <<count, i>>
  BY ONLY <1>4, <1>5
<1>13. \A i \in 1 .. Len(Accepted(n, m)) :
         Requested(n, m).tx_buffer[i] = Accepted(n, m)[i]
  BY ONLY <1>11, <1>12
<1>14. n = 0 /\ m = 0 => Requested(n, m).tx_next_byte_to_write = 0
                         /\ Accepted(n, m) = <<>>
  BY ONLY <1>4, <1>5, <1>7, <1>10
<1> QED
  BY ONLY <1>4, <1>5, <1>11, <1>13, <1>14

LEMMA Tbefore_transmit == TInv /\ before_transmit => TInv'
<1> SUFFICES ASSUME TInv, before_transmit
             PROVE  TInv'
  OBVIOUS
<1> USE WireAssumption
<1>1. Types /\ WriteFits /\ IndexBound /\ FrameStored
  BY DEF TInv
<1>2. PICK n \in Nat, m \in Nat :
        /\ wire' = Requested(n, m) /\ told' = loop.filled \o Accepted(n, m)
        /\ role.writer = "loop" => n = 0 /\ m = 0
  BY <1>1 DEF before_transmit, Types, Roles
<1>3. frame[1] \in Frames /\ frame' = <<[frame[1] EXCEPT !.done = 1]>>
      /\ frame[1].dir = "read"
  BY <1>1, FrameLemma DEF before_transmit
<1>4. [frame[1] EXCEPT !.done = 1] \in Frames
      /\ [frame[1] EXCEPT !.done = 1].dir = "read"
  BY <1>3 DEF Frames
<1>5. frame'[1] = [frame[1] EXCEPT !.done = 1]
  BY <1>3, <1>4, OneLemma
<1>6. /\ slave' = [slave EXCEPT !.tx_size = wire'.tx_next_byte_to_write,
                               !.tx_index = 0]
      /\ loop' = [loop EXCEPT !.filled = <<>>]
      /\ UNCHANGED <<role, count, sent, got, served>>
  BY DEF before_transmit
<1>7. wire' \in Wires
  BY <1>1, <1>2, RequestedLemma
<1>8. slave' \in Slaves
  <2>1. slave \in Slaves /\ wire'.tx_next_byte_to_write \in 0 .. tx_buffer_length
        /\ 0 \in 0 .. tx_buffer_length
    BY <1>1, <1>7 DEF Types, Wires
  <2> QED
    BY ONLY <1>6, <2>1 DEF Slaves
<1>9. loop' \in Loops
  <2>1. loop \in Loops /\ <<>> \in Seq(Bytes)
    BY <1>1 DEF Types
  <2> QED
    BY ONLY <1>6, <2>1 DEF Loops
<1>10. told' \in Seq(Bytes)
  <2>1. Accepted(n, m) \in Seq(Bytes)
    BY <1>1, RequestedLemma
  <2>2. loop.filled \in Seq(Bytes)
    BY <1>1 DEF Types, Loops
  <2> QED
    BY <1>2, <2>1, <2>2
<1>11. Types'
  BY <1>1, <1>3, <1>4, <1>6, <1>7, <1>8, <1>9, <1>10 DEF Types
<1>12. FrameStored'
  BY <1>4, <1>5 DEF FrameStored, Receiving
<1>13. IndexBound'
  <2>1. slave'.tx_size = wire'.tx_next_byte_to_write /\ slave'.tx_index = 0
    BY <1>1, <1>6 DEF Types, Slaves
  <2> QED
    BY <1>7, <2>1 DEF IndexBound, Wires
<1>14. WriteFits'
  <2> SUFFICES ASSUME loop'.pc = "write"
               PROVE  /\ role'.writer = "loop"
                      /\ "test" \in loop'.todo => loop'.todo = {"test"}
                      /\ "test" \notin loop'.todo =>
                           loop'.next + loop'.length <= tx_buffer_length
                      /\ "advance" \in loop'.todo =>
                           wire'.tx_next_byte_to_write <= loop'.next
    BY DEF WriteFits
  <2>1. loop'.pc = loop.pc /\ loop'.todo = loop.todo /\ loop'.next = loop.next
        /\ loop'.length = loop.length /\ loop.next \in Nat
    BY <1>1, <1>6 DEF Types, Loops
  <2>2. role.writer = "loop"
    BY <1>1, <2>1 DEF WriteFits
  <2>3. wire'.tx_next_byte_to_write = 0
    BY <1>1, <1>2, <2>2, RequestedLemma
  <2> QED
    BY <1>1, <1>6, <2>1, <2>2, <2>3 DEF WriteFits
<1>20. Places'
  <2>1. loop'.pc = loop.pc /\ loop'.todo = loop.todo
        /\ loop'.next = loop.next /\ loop'.available = loop.available
    BY <1>1, <1>6 DEF Types, Loops
  <2> QED
    BY <2>1 DEF TInv, Places
<1> QED
  BY <1>11, <1>12, <1>13, <1>14, <1>20 DEF TInv

LEMMA TServe == TInv /\ Serve => TInv'
<1> SUFFICES ASSUME TInv, Serve
             PROVE  TInv'
  OBVIOUS
<1> USE WireAssumption
<1> DEFINE f == frame[1]
           g == [f EXCEPT !.done = @ + 1]
<1>1. Types /\ WriteFits /\ IndexBound /\ FrameStored
  BY DEF TInv
<1>2. f \in Frames /\ f.dir = "read"
      /\ [frame EXCEPT ![1].done = @ + 1] = <<g>>
  BY <1>1, FrameLemma DEF Serve
<1>3. UNCHANGED <<role, wire, count, loop, sent, got, told>>
  BY DEF Serve
<1>4. WriteFits' /\ Places'
  BY <1>1, <1>3 DEF TInv, WriteFits, Places
<1>5. CASE f.done > f.length
  <2>1. frame' = <<>> /\ UNCHANGED <<slave, served>>
    BY <1>5 DEF Serve
  <2>2. Types' /\ IndexBound'
    BY <1>1, <1>3, <2>1 DEF Types, IndexBound
  <2>3. FrameStored'
    BY <2>1 DEF FrameStored, Receiving
  <2> QED
    BY <1>4, <2>2, <2>3 DEF TInv
<1>6. CASE ~(f.done > f.length)
  <2>1. /\ frame' = <<g>>
        /\ served' = Append(served, IF slave.tx_index < slave.tx_size
                                    THEN wire.tx_buffer[slave.tx_index + 1]
                                    ELSE DUMMY)
        /\ slave' = [slave EXCEPT !.tx_index = IF @ < slave.tx_size THEN @ + 1 ELSE @]
    BY <1>2, <1>6 DEF Serve
  <2>2. g \in Frames /\ g.dir = "read"
    BY <1>2, <1>6 DEF Frames
  <2>3. frame'[1] = g
    BY <2>1, <2>2, OneLemma
  <2> HIDE DEF g, f
  <2>4. slave.tx_size \in 0 .. tx_buffer_length /\ slave.tx_index \in 0 .. slave.tx_size
    BY <1>1 DEF Types, Slaves, IndexBound
  <2>5. slave' \in Slaves /\ IndexBound'
    <3> DEFINE x == IF slave.tx_index < slave.tx_size THEN slave.tx_index + 1
                                                     ELSE slave.tx_index
    <3>1. slave \in Slaves /\ slave' = [slave EXCEPT !.tx_index = x]
      BY <1>1, <2>1 DEF Types
    <3>2. x \in 0 .. tx_buffer_length /\ x <= slave.tx_size
      BY <2>4
    <3> HIDE DEF x
    <3> QED
      BY <3>1, <3>2 DEF Slaves, IndexBound
  <2>6. served' \in Seq(Bytes)
    <3>1. wire.tx_buffer \in [1 .. tx_buffer_length -> Bytes]
      BY <1>1 DEF Types, Wires
    <3>2. slave.tx_index < slave.tx_size => wire.tx_buffer[slave.tx_index + 1] \in Bytes
      BY <2>4, <3>1
    <3>3. DUMMY \in Bytes
      BY DummyLemma
    <3>4. served \in Seq(Bytes)
      BY <1>1 DEF Types
    <3> QED
      BY <2>1, <3>2, <3>3, <3>4
  <2>7. Types'
    BY <1>1, <1>3, <2>1, <2>2, <2>5, <2>6 DEF Types
  <2>8. FrameStored'
    BY <2>2, <2>3 DEF FrameStored, Receiving
  <2> QED
    BY <1>4, <2>5, <2>7, <2>8 DEF TInv
<1> QED
  BY <1>5, <1>6

LEMMA AgainLemma ==
  ASSUME NEW l \in Loops
  PROVE  /\ Again(l) \in Loops
         /\ Again(l).pc = "available" /\ Again(l).todo = {"available", "next"}
         /\ Again(l).available = 0 /\ Again(l).next = 0
         /\ Again(l).filled = l.filled /\ Again(l).overtaken = l.overtaken
<1>1. 0 \in 0 .. rx_buffer_length /\ 0 \in Nat /\ 1 \in Nat
  BY WireAssumption
<1> QED
  BY <1>1 DEF Again, Goto, Loops

LEMMA GotoLemma ==
  ASSUME NEW l \in Loops, NEW pc \in {"available", "read", "take", "write"},
         NEW todo \in SUBSET {"available", "next", "byte", "index",
                             "test", "copy", "advance"}
  PROVE  /\ Goto(l, pc, todo) \in Loops
         /\ Goto(l, pc, todo).pc = pc /\ Goto(l, pc, todo).todo = todo
         /\ Goto(l, pc, todo).available = l.available
         /\ Goto(l, pc, todo).next = l.next
         /\ Goto(l, pc, todo).length = l.length
         /\ Goto(l, pc, todo).byte = l.byte
         /\ Goto(l, pc, todo).filled = l.filled
         /\ Goto(l, pc, todo).overtaken = l.overtaken
  BY DEF Goto, Loops

\* What a step of loop() has to show: the rest it leaves alone.
LEMMA TKept ==
  ASSUME TInv, UNCHANGED <<role, slave, frame, count, told, served, sent>>,
         got' \in Seq(Bytes),
         wire' \in Wires, wire'.rxBuffer = wire.rxBuffer, loop' \in Loops, WriteFits', Places'
  PROVE  TInv'
<1>1. Types'
  BY DEF TInv, Types
<1>2. FrameStored' /\ IndexBound'
  BY DEF TInv, FrameStored, Receiving, IndexBound
<1> QED
  BY <1>1, <1>2 DEF TInv

LEMMA LoadLemma ==
  ASSUME TInv, Load
  PROVE  \E f \in loop.todo \cap {"available", "next"} :
           /\ loop' \in Loops /\ loop'.pc = loop.pc /\ loop'.todo = loop.todo \ {f}
           /\ loop'.available = IF f = "available" THEN wire.rx_bytes_available
                                                  ELSE loop.available
           /\ loop'.next = IF f = "next" THEN wire.rx_next_byte_to_read
                                        ELSE loop.next
           /\ loop'.overtaken = loop.overtaken
<1> USE WireAssumption
<1>1. loop \in Loops /\ wire \in Wires
  BY DEF TInv, Types
<1>2. loop.pc \in {"available", "read"}
  BY DEF Load
<1>3. PICK f \in loop.todo :
        loop' = Goto([loop EXCEPT ![f] = IF f = "next" THEN wire.rx_next_byte_to_read
                                                      ELSE wire.rx_bytes_available],
                     loop.pc, loop.todo \ {f})
  BY DEF Load, LoadIndexes
<1> DEFINE v == IF f = "next" THEN wire.rx_next_byte_to_read
                             ELSE wire.rx_bytes_available
           l == [loop EXCEPT ![f] = v]
<1>4. f \in {"available", "next"}
  BY <1>2 DEF TInv, Places
<1>5. v \in 0 .. rx_buffer_length /\ v \in Nat
  BY <1>1 DEF Wires
<1> HIDE DEF v
<1>6. /\ l \in Loops /\ l.overtaken = loop.overtaken
      /\ l.available = IF f = "available" THEN v ELSE loop.available
      /\ l.next = IF f = "next" THEN v ELSE loop.next
  BY ONLY <1>1, <1>4, <1>5 DEF Loops
<1>7. loop.todo \ {f} \in SUBSET {"available", "next", "byte", "index",
                                  "test", "copy", "advance"}
  BY <1>1 DEF Loops
<1>8. loop' \in Loops /\ loop'.pc = loop.pc /\ loop'.todo = loop.todo \ {f}
      /\ loop'.available = l.available /\ loop'.next = l.next
      /\ loop'.overtaken = l.overtaken
  <2>1. loop' = Goto(l, loop.pc, loop.todo \ {f})
    BY <1>3 DEF v
  <2>2. loop.pc \in {"available", "read", "take", "write"}
    BY <1>2
  <2> HIDE DEF l
  <2> QED
    BY <1>6, <1>7, <2>1, <2>2, GotoLemma
<1> HIDE DEF l
<1> QED
  BY <1>4, <1>6, <1>8 DEF v

LEMMA TLoad == TInv /\ Load => TInv'
<1> SUFFICES ASSUME TInv, Load
             PROVE  TInv'
  OBVIOUS
<1>1. wire \in Wires /\ got \in Seq(Bytes)
  BY DEF TInv, Types
<1>2. UNCHANGED <<role, wire, slave, frame, count, sent, got, told, served>>
      /\ loop.pc \in {"available", "read"}
  BY DEF Load
<1>3. loop' \in Loops /\ loop'.pc = loop.pc /\ loop'.todo \subseteq loop.todo
  BY LoadLemma
<1>4. WriteFits' /\ Places'
  BY <1>2, <1>3 DEF TInv, WriteFits, Places
<1> QED
  BY <1>1, <1>2, <1>3, <1>4, TKept

LEMMA Tavailable == TInv /\ available => TInv'
<1> SUFFICES ASSUME TInv, available
             PROVE  TInv'
  OBVIOUS
<1> USE WireAssumption
<1>1. loop \in Loops /\ wire \in Wires /\ got \in Seq(Bytes)
  BY DEF TInv, Types
<1>2. UNCHANGED <<role, wire, slave, frame, count, sent, got, told, served>>
  BY DEF available
<1>3. \/ loop' = Goto(loop, "read", {"available", "next"})
      \/ loop' = Again(loop)
      \/ /\ role.writer = "loop"
         /\ \E n \in Blocks :
              loop' = Goto([loop EXCEPT !.length = n], "write", {"test"})
  BY DEF available
<1>4. loop' \in Loops /\ WriteFits' /\ Places'
  <2>1. CASE loop' = Goto(loop, "read", {"available", "next"})
    BY <1>1, <2>1, GotoLemma DEF WriteFits, Places
  <2>2. CASE loop' = Again(loop)
    BY <1>1, <2>2, AgainLemma DEF WriteFits, Places
  <2>3. ASSUME role.writer = "loop", NEW n \in Blocks,
               loop' = Goto([loop EXCEPT !.length = n], "write", {"test"})
        PROVE  loop' \in Loops /\ WriteFits' /\ Places'
    <3>1. [loop EXCEPT !.length = n] \in Loops
      BY <1>1 DEF Loops
    <3>2. loop' \in Loops /\ loop'.pc = "write" /\ loop'.todo = {"test"}
      BY <2>3, <3>1, GotoLemma
    <3> QED
      BY <1>2, <2>3, <3>2 DEF WriteFits, Places
  <2> QED
    BY <1>3, <2>1, <2>2, <2>3
<1> QED
  BY <1>1, <1>2, <1>4, TKept

LEMMA Tread == TInv /\ read => TInv'
<1> SUFFICES ASSUME TInv, read
             PROVE  TInv'
  OBVIOUS
<1>1. loop \in Loops /\ wire \in Wires /\ got \in Seq(Bytes)
  BY DEF TInv, Types
<1>2. UNCHANGED <<role, wire, slave, frame, count, sent, got, told, served>>
  BY DEF read
<1>3. \/ loop.next < loop.available /\ loop' = Goto(loop, "take", {"byte", "index"})
      \/ loop' = Again(loop)
  BY DEF read
<1>4. loop' \in Loops /\ WriteFits' /\ Places'
  BY <1>1, <1>3, GotoLemma, AgainLemma DEF WriteFits, Places
<1> QED
  BY <1>1, <1>2, <1>4, TKept

LEMMA TTake == TInv /\ Take => TInv'
<1> SUFFICES ASSUME TInv, Take
             PROVE  TInv'
  OBVIOUS
<1> USE WireAssumption
<1>1. loop \in Loops /\ wire \in Wires /\ got \in Seq(Bytes)
      /\ role \in Roles
  BY DEF TInv, Types
<1>2. UNCHANGED <<role, slave, frame, count, sent, told, served>>
      /\ loop.pc = "take"
  BY DEF Take
<1>3. loop.next \in 0 .. rx_buffer_length - 1
  <2>1. loop.next < loop.available
    BY <1>2 DEF TInv, Places
  <2>2. loop.available \in 0 .. rx_buffer_length /\ loop.next \in Nat
    BY <1>1 DEF Loops
  <2> QED
    BY <2>1, <2>2
<1>4. CASE /\ "byte" \in loop.todo
           /\ loop' = [loop EXCEPT !.byte = wire.rxBuffer[loop.next + 1],
                                   !.todo = @ \ {"byte"}]
           /\ UNCHANGED <<wire, got>>
  <2>1. wire.rxBuffer[loop.next + 1] \in Bytes
    BY <1>1, <1>3 DEF Wires
  <2>2. loop' \in Loops /\ loop'.pc = "take" /\ loop'.todo \subseteq loop.todo
        /\ loop'.next = loop.next /\ loop'.available = loop.available
    BY <1>1, <1>2, <1>4, <2>1 DEF Loops
  <2>3. WriteFits' /\ Places'
    BY <1>2, <2>2 DEF TInv, WriteFits, Places
  <2> QED
    BY <1>1, <1>2, <1>4, <2>2, <2>3, TKept
<1>5. CASE /\ "index" \in loop.todo
           /\ wire' = [wire EXCEPT !.rx_next_byte_to_read = loop.next + 1]
           /\ loop' = [loop EXCEPT !.todo = @ \ {"index"}]
           /\ UNCHANGED got
  <2>1. loop.next + 1 \in 0 .. rx_buffer_length
    BY <1>3
  <2>2. wire' \in Wires /\ wire'.rxBuffer = wire.rxBuffer
    BY ONLY <1>1, <1>5, <2>1 DEF Wires
  <2>3. loop' \in Loops /\ loop'.pc = "take" /\ loop'.todo \subseteq loop.todo
        /\ loop'.next = loop.next /\ loop'.available = loop.available
    BY <1>1, <1>2, <1>5 DEF Loops
  <2>4. WriteFits' /\ Places'
    BY <1>2, <2>3 DEF TInv, WriteFits, Places
  <2> QED
    BY <1>1, <1>2, <1>5, <2>2, <2>3, <2>4, TKept
<1>6. CASE /\ loop.todo = {}
           /\ got' = Append(got, loop.byte)
           /\ loop' = Again([loop EXCEPT !.byte = DUMMY])
           /\ UNCHANGED wire
  <2>1. [loop EXCEPT !.byte = DUMMY] \in Loops /\ loop.byte \in Bytes
    BY <1>1, DummyLemma DEF Loops
  <2>2. loop' \in Loops /\ loop'.pc = "available"
        /\ loop'.todo = {"available", "next"}
    BY <1>6, <2>1, AgainLemma
  <2>3. WriteFits' /\ Places'
    BY <2>2 DEF WriteFits, Places
  <2>4. got' \in Seq(Bytes)
    BY <1>1, <1>6, <2>1
  <2> QED
    BY <1>1, <1>2, <1>6, <2>2, <2>3, <2>4, TKept
<1> QED
  BY <1>4, <1>5, <1>6 DEF Take

LEMMA TWrite == TInv /\ Write => TInv'
<1> SUFFICES ASSUME TInv, Write
             PROVE  TInv'
  OBVIOUS
<1> USE WireAssumption
<1>1. loop \in Loops /\ wire \in Wires /\ got \in Seq(Bytes)
  BY DEF TInv, Types
<1>2. UNCHANGED <<role, slave, frame, count, sent, got, told, served>>
      /\ loop.pc = "write"
  BY DEF Write
<1>3. /\ role.writer = "loop"
      /\ "test" \in loop.todo => loop.todo = {"test"}
      /\ "test" \notin loop.todo => loop.next + loop.length <= tx_buffer_length
      /\ "advance" \in loop.todo => wire.tx_next_byte_to_write <= loop.next
  BY <1>2 DEF TInv, WriteFits
<1>4. loop.next \in Nat /\ loop.length \in Nat
      /\ wire.tx_next_byte_to_write \in Nat
      /\ wire.tx_buffer \in [1 .. tx_buffer_length -> Bytes]
  BY <1>1 DEF Loops, Wires
<1>5. "test" \notin loop.todo =>
        /\ Written \in Seq(Bytes) /\ Len(Written) = loop.length
        /\ \A i \in Index : i \in Nat /\ i <= loop.next
                            /\ i + loop.length \in 0 .. tx_buffer_length
  <2> SUFFICES ASSUME "test" \notin loop.todo
               PROVE  /\ Written \in Seq(Bytes) /\ Len(Written) = loop.length
                      /\ \A i \in Index :
                           i \in Nat /\ i <= loop.next
                           /\ i + loop.length \in 0 .. tx_buffer_length
    OBVIOUS
  <2>1. loop.next + loop.length <= MAX_LENGTH + tx_buffer_length
    BY <1>3, <1>4
  <2>2. 0 \in 0 .. MAX_FRAMES
    OBVIOUS
  <2>3. Written \in Seq(Bytes) /\ Len(Written) = loop.length
    BY <1>4, <2>1, <2>2, BlockLemma DEF Written
  <2>4. \A i \in Index : i \in Nat /\ i <= loop.next
    BY <1>3, <1>4 DEF Index
  <2> QED
    BY <1>3, <1>4, <2>3, <2>4
<1>6. CASE /\ "test" \in loop.todo
           /\ loop' = IF Fits(wire.tx_next_byte_to_write, loop.length)
                      THEN Goto([loop EXCEPT !.next = wire.tx_next_byte_to_write],
                                "write", {"copy", "advance"})
                      ELSE Again(loop)
           /\ UNCHANGED wire
  <2>1. CASE ~Fits(wire.tx_next_byte_to_write, loop.length)
    <3>1. loop' \in Loops /\ loop'.pc = "available"
          /\ loop'.todo = {"available", "next"}
      BY <1>1, <1>6, <2>1, AgainLemma
    <3>2. WriteFits' /\ Places'
      BY <3>1 DEF WriteFits, Places
    <3> QED
      BY <1>1, <1>2, <1>6, <3>1, <3>2, TKept
  <2>2. CASE Fits(wire.tx_next_byte_to_write, loop.length)
    <3> DEFINE l == [loop EXCEPT !.next = wire.tx_next_byte_to_write]
    <3>1. l \in Loops /\ l.next = wire.tx_next_byte_to_write /\ l.length = loop.length
      BY <1>1, <1>4 DEF Loops
    <3>2. loop' = Goto(l, "write", {"copy", "advance"})
      BY <1>6, <2>2
    <3> HIDE DEF l
    <3>3. loop' \in Loops /\ loop'.pc = "write" /\ loop'.todo = {"copy", "advance"}
          /\ loop'.next = wire.tx_next_byte_to_write /\ loop'.length = loop.length
      BY <3>1, <3>2, GotoLemma
    <3>4. WriteFits' /\ Places'
      BY <1>2, <1>3, <1>4, <1>6, <2>2, <3>3 DEF WriteFits, Places, Fits
    <3> QED
      BY <1>1, <1>2, <1>6, <3>3, <3>4, TKept
  <2> QED
    BY <2>1, <2>2
<1>7. CASE /\ "copy" \in loop.todo
           /\ \E i \in Index :
                wire' = [wire EXCEPT !.tx_buffer = Stored(@, i, Written)]
           /\ loop' = Goto(loop, "write", loop.todo \ {"copy"})
  <2>0. "test" \notin loop.todo
    BY <1>3, <1>7
  <2>1. PICK i \in Index :
          wire' = [wire EXCEPT !.tx_buffer = Stored(wire.tx_buffer, i, Written)]
    BY <1>7
  <2>2. Stored(wire.tx_buffer, i, Written) \in [1 .. tx_buffer_length -> Bytes]
    <3>1. i \in Nat /\ i + Len(Written) <= tx_buffer_length /\ Written \in Seq(Bytes)
      BY <1>5, <2>0
    <3> QED
      BY <1>4, <3>1, StoredLemma
  <2>3. wire' \in Wires /\ wire'.rxBuffer = wire.rxBuffer
        /\ wire'.tx_next_byte_to_write = wire.tx_next_byte_to_write
    BY ONLY <1>1, <2>1, <2>2 DEF Wires
  <2>4. loop.todo \ {"copy"} \in SUBSET {"available", "next", "byte", "index",
                                        "test", "copy", "advance"}
    BY <1>1 DEF Loops
  <2>5. loop' \in Loops /\ loop'.pc = "write" /\ loop'.todo = loop.todo \ {"copy"}
        /\ loop'.next = loop.next /\ loop'.length = loop.length
    BY <1>1, <1>7, <2>4, GotoLemma
  <2>6. WriteFits' /\ Places'
    BY <1>2, <1>3, <2>0, <2>3, <2>5 DEF TInv, WriteFits, Places
  <2> QED
    BY <1>1, <1>2, <2>3, <2>5, <2>6, TKept
<1>8. CASE /\ "advance" \in loop.todo
           /\ \E i \in Index :
                wire' = [wire EXCEPT !.tx_next_byte_to_write = i + loop.length]
           /\ loop' = Goto(loop, "write", loop.todo \ {"advance"})
  <2>0. "test" \notin loop.todo
    BY <1>3, <1>8
  <2>1. PICK i \in Index :
          wire' = [wire EXCEPT !.tx_next_byte_to_write = i + loop.length]
    BY <1>8
  <2>2. i + loop.length \in 0 .. tx_buffer_length
    BY <1>5, <2>0
  <2>3. wire' \in Wires /\ wire'.rxBuffer = wire.rxBuffer
    BY ONLY <1>1, <2>1, <2>2 DEF Wires
  <2>4. loop.todo \ {"advance"} \in SUBSET {"available", "next", "byte", "index",
                                           "test", "copy", "advance"}
    BY <1>1 DEF Loops
  <2>5. loop' \in Loops /\ loop'.pc = "write" /\ loop'.todo = loop.todo \ {"advance"}
        /\ loop'.next = loop.next /\ loop'.length = loop.length
    BY <1>1, <1>8, <2>4, GotoLemma
  <2>6. WriteFits' /\ Places'
    BY <1>2, <1>3, <2>0, <2>5 DEF TInv, WriteFits, Places
  <2> QED
    BY <1>1, <1>2, <2>3, <2>5, <2>6, TKept
<1>9. CASE /\ loop.todo = {}
           /\ loop' = Again([loop EXCEPT !.filled = @ \o Written])
           /\ UNCHANGED wire
  <2>1. loop.filled \in Seq(Bytes) /\ Written \in Seq(Bytes)
    BY <1>1, <1>5, <1>9 DEF Loops
  <2>2. loop.filled \o Written \in Seq(Bytes)
    BY <2>1
  <2>3. [loop EXCEPT !.filled = @ \o Written] \in Loops
    BY <1>1, <2>2 DEF Loops
  <2>4. loop' \in Loops /\ loop'.pc = "available"
        /\ loop'.todo = {"available", "next"}
    BY <1>9, <2>3, AgainLemma
  <2>5. WriteFits' /\ Places'
    BY <2>4 DEF WriteFits, Places
  <2> QED
    BY <1>1, <1>2, <1>9, <2>4, <2>5, TKept
<1> QED
  BY <1>6, <1>7, <1>8, <1>9 DEF Write

LEMMA NextTInv == TInv /\ [Next]_vars => TInv'
<1> SUFFICES ASSUME TInv, [Next]_vars
             PROVE  TInv'
  OBVIOUS
<1>1. CASE UNCHANGED vars
  BY <1>1 DEF vars, TInv, Types, WriteFits, IndexBound, FrameStored, Receiving, Places
<1>2. CASE Next
  BY <1>2, TStartFrame, TReceive, Ton_receive_wrapper, Tbefore_transmit, TServe,
     TLoad, Tavailable, Tread, TTake, TWrite DEF Next, interrupt, Loop
<1> QED
  BY <1>1, <1>2

-----------------------------------------------------------------------------
(* The bytes that are read.                                                *)

LEMMA InitReadInv == Init => ReadInv
<1> SUFFICES ASSUME Init
             PROVE  ReadInv
  OBVIOUS
<1>1. /\ wire.rx_bytes_available = 0 /\ wire.rx_next_byte_to_read = 0
      /\ loop.pc = "available" /\ loop.todo = {"available", "next"}
      /\ loop.available = 0 /\ loop.next = 0
      /\ Len(sent) = 0 /\ Len(got) = 0 /\ frame = <<>>
  BY DEF Init
<1> QED
  BY ONLY <1>1 DEF ReadInv, InOrder, NotAhead, CallbackReads, BufferHolds,
     LoadsTrue, Waited, Receiving, Unread

\* The steps that leave what is read alone.
LEMMA RKept ==
  ASSUME ReadInv, UNCHANGED <<role, sent, got>>,
         wire'.rxBuffer = wire.rxBuffer,
         wire'.rx_bytes_available = wire.rx_bytes_available,
         wire'.rx_next_byte_to_read = wire.rx_next_byte_to_read,
         Unread' = Unread, Waited', LoadsTrue', CallbackReads'
  PROVE  ReadInv'
<1>1. InOrder' /\ NotAhead'
  BY DEF ReadInv, InOrder, NotAhead
<1>2. BufferHolds'
  BY DEF ReadInv, BufferHolds
<1> QED
  BY <1>1, <1>2 DEF ReadInv

LEMMA RStartFrame == TInv /\ Paced /\ ReadInv /\ StartFrame => ReadInv'
<1> SUFFICES ASSUME TInv, Paced, ReadInv, StartFrame
             PROVE  ReadInv'
  OBVIOUS
<1>1. UNCHANGED <<role, wire, loop, sent, got>>
  BY DEF StartFrame
<1>2. Unread' = Unread
  BY <1>1 DEF Unread
<1>3. LoadsTrue' /\ CallbackReads'
  BY <1>1, <1>2 DEF ReadInv, LoadsTrue, CallbackReads
<1>4. Waited'
  <2>1. PICK d \in {"read", "write"}, n \in 1 .. MAX_LENGTH :
          /\ d = "write" /\ role.reader = "loop" => got = sent
          /\ frame' = <<[dir |-> d, length |-> n, done |-> 0]>>
    BY DEF StartFrame, Paced
  <2>2. frame'[1].dir = d
    BY <2>1
  <2> QED
    BY <1>1, <2>1, <2>2 DEF Waited, Receiving
<1> QED
  BY <1>1, <1>2, <1>3, <1>4, RKept

\* While a frame for loop() comes in nothing is left to read.
LEMMA NothingLeft ==
  ASSUME TInv, ReadInv, Receiving, role.reader = "loop"
  PROVE  /\ got = sent
         /\ wire.rx_bytes_available = wire.rx_next_byte_to_read
         /\ loop.pc \in {"available", "write"}
<1>1. got = sent /\ Unread <= wire.rx_bytes_available
      /\ Len(sent) = Len(got) + (wire.rx_bytes_available - Unread)
  BY DEF ReadInv, Waited, BufferHolds
<1>2. /\ wire.rx_bytes_available \in Nat /\ wire.rx_next_byte_to_read \in Nat
      /\ loop.next \in Nat /\ sent \in Seq(Bytes)
      /\ loop.pc \in {"available", "read", "take", "write"}
  BY DEF TInv, Types, Wires, Loops
<1>3. Unread \in Nat /\ Len(sent) \in Nat
  BY <1>2 DEF Unread
<1>4. wire.rx_bytes_available = Unread
  BY <1>1, <1>2, <1>3
<1>5. loop.pc # "take"
  BY <1>2, <1>4 DEF ReadInv, LoadsTrue, Unread
<1>6. loop.pc # "read"
  BY <1>2, <1>4 DEF ReadInv, LoadsTrue, Unread
<1> QED
  BY <1>1, <1>2, <1>4, <1>5, <1>6 DEF Unread

LEMMA RReceive == TInv /\ ReadInv /\ Receive => ReadInv'
<1> SUFFICES ASSUME TInv, ReadInv, Receive
             PROVE  ReadInv'
  OBVIOUS
<1>1. UNCHANGED <<role, loop, sent, got>> /\ Receiving
  BY DEF Receive, Receiving
<1>2. /\ wire'.rx_bytes_available = wire.rx_bytes_available
      /\ wire'.rx_next_byte_to_read = wire.rx_next_byte_to_read
  <2>1. wire \in Wires
    BY DEF TInv, Types
  <2>2. wire' = wire \/ \E v : wire' = [wire EXCEPT !.rxBuffer[slave.rx_index + 1] = v]
    BY DEF Receive
  <2> QED
    BY ONLY <2>1, <2>2 DEF Wires
<1>3. InOrder' /\ NotAhead' /\ CallbackReads'
  BY <1>1, <1>2 DEF ReadInv, InOrder, NotAhead, CallbackReads
<1>4. Unread' = Unread
  BY <1>1, <1>2 DEF Unread
<1>5. CASE role.reader = "callback"
  BY <1>1, <1>3, <1>5 DEF ReadInv, BufferHolds, LoadsTrue, Waited
<1>6. CASE role.reader = "loop"
  <2>1. /\ got = sent /\ loop.pc \in {"available", "write"}
        /\ wire.rx_bytes_available = wire.rx_next_byte_to_read
    BY <1>1, <1>6, NothingLeft
  <2>2. Unread = wire.rx_bytes_available /\ wire.rx_bytes_available \in Nat
    BY <2>1 DEF Unread, TInv, Types, Wires
  <2>3. BufferHolds'
    <3>1. Len(sent) = Len(got) + (wire.rx_bytes_available - Unread)
      BY <1>6 DEF ReadInv, BufferHolds
    <3>2. \A i \in 1 .. wire.rx_bytes_available - Unread : FALSE
      BY <2>2
    <3> QED
      BY <1>1, <1>2, <1>4, <2>2, <3>1, <3>2 DEF BufferHolds
  <2>4. LoadsTrue'
    BY <1>1, <1>2, <1>4, <1>6, <2>1 DEF ReadInv, LoadsTrue
  <2>5. Waited'
    BY <1>1, <2>1 DEF Waited
  <2> QED
    BY <1>3, <2>3, <2>4, <2>5 DEF ReadInv
<1>7. role.reader \in {"callback", "loop"}
  BY DEF TInv, Types, Roles
<1> QED
  BY <1>5, <1>6, <1>7

\* The frame that is told to the sketch is what the buffer has from its start.
LEMMA ToldLemma ==
  ASSUME TInv, on_receive_wrapper
  PROVE  LET announced == Block(count, 0, slave.rx_index)
             w == Received(slave.rx_index)
         IN  /\ Receiving /\ slave.rx_index \in Nat \ {0}
             /\ announced \in Seq(Bytes) /\ Len(announced) = slave.rx_index
             /\ \A i \in 1 .. slave.rx_index : announced[i] = w.rxBuffer[i]
             /\ w \in Wires /\ w.rxBuffer = wire.rxBuffer
             /\ w.rx_bytes_available = slave.rx_index
             /\ w.rx_next_byte_to_read = 0
<1> USE WireAssumption
<1> DEFINE announced == Block(count, 0, slave.rx_index)
           w == Received(slave.rx_index)
<1>1. Types /\ FrameStored
  BY DEF TInv
<1>2. frame[1] \in Frames /\ Receiving /\ frame[1].done = frame[1].length
  BY <1>1, FrameLemma DEF on_receive_wrapper, Receiving
<1>3. slave.rx_index \in 1 .. MAX_LENGTH /\ slave.rx_index <= rx_buffer_length
      /\ \A i \in 1 .. slave.rx_index : wire.rxBuffer[i] = <<count, i>>
  BY <1>1, <1>2 DEF FrameStored, Frames
<1>4. /\ announced \in Seq(Bytes) /\ Len(announced) = slave.rx_index
      /\ \A i \in 1 .. slave.rx_index : announced[i] = <<count, 0 + i>>
  <2>1. 0 \in Nat /\ slave.rx_index \in Nat
        /\ 0 + slave.rx_index <= MAX_LENGTH + tx_buffer_length
        /\ count \in 0 .. MAX_FRAMES
    BY <1>1, <1>3 DEF Types
  <2> QED
    BY <2>1, BlockLemma
<1>5. /\ w \in Wires /\ w.rxBuffer = wire.rxBuffer
      /\ w.rx_bytes_available = slave.rx_index
      /\ w.rx_next_byte_to_read = 0
  <2>1. wire \in Wires /\ w = [wire EXCEPT !.rx_bytes_available = slave.rx_index,
                                         !.rx_next_byte_to_read = 0]
    BY <1>1 DEF Types, Received
  <2>2. slave.rx_index \in 0 .. rx_buffer_length /\ 0 \in 0 .. rx_buffer_length
    BY <1>3
  <2> HIDE DEF w
  <2>3. w \in Wires
    BY ONLY <2>1, <2>2 DEF Wires
  <2>4. /\ w.rx_next_byte_to_read = 0 /\ w.rx_bytes_available = slave.rx_index
        /\ w.rxBuffer = wire.rxBuffer
    BY ONLY <2>1 DEF Wires
  <2> QED
    BY <2>3, <2>4
<1>6. \A i \in 1 .. slave.rx_index : 0 + i = i
  BY <1>3
<1> HIDE DEF announced, w
<1>7. \A i \in 1 .. slave.rx_index : announced[i] = w.rxBuffer[i]
  BY <1>3, <1>4, <1>5, <1>6
<1>8. slave.rx_index \in Nat \ {0}
  BY <1>3
<1> QED
  BY <1>2, <1>4, <1>5, <1>7, <1>8 DEF announced, w

LEMMA Ron_receive_wrapper == TInv /\ ReadInv /\ on_receive_wrapper => ReadInv'
<1> SUFFICES ASSUME TInv, ReadInv, on_receive_wrapper
             PROVE  ReadInv'
  OBVIOUS
<1> DEFINE announced == Block(count, 0, slave.rx_index)
           w == Received(slave.rx_index)
           x == slave.rx_index
<1>1. /\ Receiving /\ x \in Nat \ {0}
      /\ announced \in Seq(Bytes) /\ Len(announced) = x
      /\ \A i \in 1 .. x : announced[i] = w.rxBuffer[i]
      /\ w \in Wires /\ w.rxBuffer = wire.rxBuffer
      /\ w.rx_bytes_available = x
      /\ w.rx_next_byte_to_read = 0
  BY ToldLemma
<1>2. \/ /\ role.reader = "callback"
         /\ \E n \in 0 .. rx_buffer_length :
               /\ sent' = announced /\ got' = Readable(w, n)
               /\ wire' = [w EXCEPT !.rx_next_byte_to_read =
                             @ + Len(Readable(w, n))]
      \/ /\ role.reader = "loop"
         /\ sent' = sent \o announced /\ wire' = w /\ UNCHANGED got
  BY DEF on_receive_wrapper, TInv, Types, Roles
<1>3. /\ role' = role /\ frame' = <<>>
      /\ loop'.pc = loop.pc /\ loop'.todo = loop.todo /\ loop'.next = loop.next
      /\ loop'.available = loop.available
  BY MarkLemma DEF on_receive_wrapper, TInv
<1> HIDE DEF announced, w, x
<1>4. CallbackReads' /\ Waited'
  BY <1>3 DEF ReadInv, CallbackReads, Waited, Receiving
<1>5. CASE role.reader = "callback"
  <2>1. PICK n \in 0 .. rx_buffer_length :
          /\ sent' = announced /\ got' = Readable(w, n)
          /\ wire' = [w EXCEPT !.rx_next_byte_to_read = @ + Len(Readable(w, n))]
    BY <1>2, <1>5
  <2> DEFINE r == Readable(w, n)
  <2>2. /\ r \in Seq(Bytes) /\ Len(r) = IF n <= x THEN n ELSE x
        /\ \A i \in 1 .. Len(r) : r[i] = w.rxBuffer[i]
    <3>1. n \in Nat
      BY WireAssumption
    <3> QED
      BY <1>1, <3>1, ReadableLemma
  <2> HIDE DEF r
  <2>3. Len(r) \in 0 .. x
    BY <1>1, <2>2, WireAssumption
  <2>4. wire'.rx_next_byte_to_read = Len(r) /\ wire'.rx_bytes_available = x
    <3>1. wire' = [w EXCEPT !.rx_next_byte_to_read = @ + Len(r)]
      BY <2>1 DEF r
    <3>2. 0 + Len(r) = Len(r)
      BY <2>3
    <3> QED
      BY ONLY <1>1, <3>1, <3>2 DEF Wires
  <2>5. InOrder'
    <3>1. got' = r /\ sent' = announced
      BY <2>1 DEF r
    <3>2. \A i \in 1 .. Len(r) : i \in 1 .. x
      BY <1>1, <2>3
    <3> QED
      BY <1>1, <2>2, <2>3, <3>1, <3>2 DEF InOrder
  <2>6. NotAhead'
    BY <1>1, <2>3, <2>4 DEF NotAhead
  <2>7. BufferHolds' /\ LoadsTrue'
    BY <1>3, <1>5 DEF BufferHolds, LoadsTrue
  <2> QED
    BY <1>4, <2>5, <2>6, <2>7 DEF ReadInv
<1>6. CASE role.reader = "loop"
  <2>1. /\ got = sent /\ loop.pc \in {"available", "write"}
    BY <1>1, <1>6, NothingLeft
  <2>2. sent' = sent \o announced /\ wire' = w /\ got' = sent
    BY <1>2, <1>6, <2>1
  <2>3. sent \in Seq(Bytes) /\ Len(sent) \in Nat
    BY DEF TInv, Types
  <2>4. Unread' = 0
    BY <1>1, <1>3, <2>1, <2>2 DEF Unread
  <2>5. Len(sent') = Len(sent) + x
    <3>1. announced \in Seq(Bytes) /\ Len(announced) = x
      BY <1>1
    <3>2. sent' = sent \o announced /\ sent \in Seq(Bytes)
      BY <2>2, <2>3
    <3>3. Len(sent \o announced) = Len(sent) + Len(announced)
      BY <3>1, <3>2, ConcatLemma
    <3> QED
      BY <3>1, <3>2, <3>3
  <2>6. \A i \in 1 .. x : sent'[Len(sent) + i] = announced[i]
    BY ONLY <1>1, <2>2, <2>3
  <2>7. \A i \in 1 .. Len(sent) : sent'[i] = sent[i]
    BY <1>1, <2>2, <2>3
  <2>8. InOrder'
    BY <1>1, <2>2, <2>3, <2>5, <2>7 DEF InOrder
  <2>9. NotAhead'
    BY <1>1, <2>2 DEF NotAhead
  <2>10. BufferHolds'
    <3>1. x - 0 = x /\ \A i \in 1 .. x : 0 + i = i
      BY <1>1
    <3> QED
      BY <1>1, <2>2, <2>4, <2>5, <2>6, <3>1 DEF BufferHolds
  <2>11. LoadsTrue'
    <3>1. Unread' < wire'.rx_bytes_available
      BY <1>1, <2>2, <2>4
    <3> QED
      BY <1>3, <2>1, <3>1 DEF LoadsTrue
  <2> QED
    BY <1>4, <2>8, <2>9, <2>10, <2>11 DEF ReadInv
<1> QED
  BY <1>2, <1>5, <1>6

LEMMA Rbefore_transmit == TInv /\ ReadInv /\ before_transmit => ReadInv'
<1> SUFFICES ASSUME TInv, ReadInv, before_transmit
             PROVE  ReadInv'
  OBVIOUS
<1>1. Types
  BY DEF TInv
<1>2. PICK n \in Nat, m \in Nat : wire' = Requested(n, m)
  BY <1>1, WireAssumption DEF before_transmit
<1>3. /\ wire'.rxBuffer = wire.rxBuffer
      /\ wire'.rx_bytes_available = wire.rx_bytes_available
      /\ wire'.rx_next_byte_to_read = wire.rx_next_byte_to_read
  BY <1>1, <1>2, RequestedLemma
<1>4. UNCHANGED <<role, sent, got>> /\ loop' = [loop EXCEPT !.filled = <<>>]
      /\ frame' = [frame EXCEPT ![1].done = 1] /\ frame # <<>> /\ frame[1].dir = "read"
  BY DEF before_transmit
<1>5. /\ loop'.pc = loop.pc /\ loop'.todo = loop.todo /\ loop'.next = loop.next
      /\ loop'.available = loop.available /\ loop'.byte = loop.byte
  BY <1>1, <1>4 DEF Types, Loops
<1>6. Unread' = Unread
  BY <1>3, <1>5 DEF Unread
<1>7. CallbackReads' /\ LoadsTrue'
  BY <1>3, <1>4, <1>5, <1>6 DEF ReadInv, CallbackReads, LoadsTrue
<1>8. Waited'
  <2>1. frame[1] \in Frames /\ frame' = <<[frame[1] EXCEPT !.done = 1]>>
    BY <1>1, <1>4, FrameLemma
  <2>2. [frame[1] EXCEPT !.done = 1].dir = "read"
    BY <1>4, <2>1 DEF Frames
  <2>3. frame'[1].dir = "read"
    BY <2>1, <2>2
  <2> QED
    BY <2>3 DEF Waited, Receiving
<1> QED
  BY <1>3, <1>4, <1>6, <1>7, <1>8, RKept

LEMMA RServe == TInv /\ ReadInv /\ Serve => ReadInv'
<1> SUFFICES ASSUME TInv, ReadInv, Serve
             PROVE  ReadInv'
  OBVIOUS
<1>1. Types
  BY DEF TInv
<1>2. UNCHANGED <<role, wire, loop, sent, got>> /\ frame # <<>>
      /\ frame[1].dir = "read"
  BY DEF Serve
<1>3. frame' = <<>> \/ frame' = [frame EXCEPT ![1].done = @ + 1]
  BY DEF Serve
<1>4. ~Receiving'
  <2>1. frame[1] \in Frames
        /\ [frame EXCEPT ![1].done = @ + 1] = <<[frame[1] EXCEPT !.done = @ + 1]>>
    BY <1>1, <1>2, FrameLemma
  <2>2. [frame[1] EXCEPT !.done = @ + 1].dir = "read"
    BY <1>2, <2>1 DEF Frames
  <2>3. frame' = <<>> \/ frame'[1].dir = "read"
    BY <1>3, <2>1, <2>2
  <2> QED
    BY <2>3 DEF Receiving
<1>5. Unread' = Unread
  BY <1>2 DEF Unread
<1>6. CallbackReads' /\ LoadsTrue' /\ Waited'
  BY <1>2, <1>4, <1>5 DEF ReadInv, CallbackReads, LoadsTrue, Waited
<1> QED
  BY <1>2, <1>5, <1>6, RKept

LEMMA RLoad == TInv /\ ReadInv /\ Load => ReadInv'
<1> SUFFICES ASSUME TInv, ReadInv, Load
             PROVE  ReadInv'
  OBVIOUS
<1>1. UNCHANGED <<role, wire, frame, sent, got>> /\ role.reader = "loop"
      /\ loop.pc \in {"available", "read"}
  BY DEF Load
<1>2. PICK f \in loop.todo \cap {"available", "next"} :
        /\ loop'.pc = loop.pc /\ loop'.todo = loop.todo \ {f}
        /\ loop'.available = IF f = "available" THEN wire.rx_bytes_available
                                               ELSE loop.available
        /\ loop'.next = IF f = "next" THEN wire.rx_next_byte_to_read
                                     ELSE loop.next
  BY LoadLemma
<1>3. Unread' = Unread /\ Unread = wire.rx_next_byte_to_read
  BY <1>1, <1>2 DEF Unread
<1>4. LoadsTrue'
  BY <1>1, <1>2, <1>3 DEF ReadInv, LoadsTrue
<1>5. CallbackReads' /\ Waited'
  BY <1>1 DEF ReadInv, CallbackReads, Waited, Receiving
<1> QED
  BY <1>1, <1>3, <1>4, <1>5, RKept

\* A step of loop() that does not touch what is received, and ends where
\* nothing is loaded.
LEMMA RUnloaded ==
  ASSUME ReadInv, UNCHANGED <<role, frame, sent, got>>,
         wire'.rxBuffer = wire.rxBuffer,
         wire'.rx_bytes_available = wire.rx_bytes_available,
         wire'.rx_next_byte_to_read = wire.rx_next_byte_to_read,
         loop.pc # "take",
         \/ loop'.pc = "write"
         \/ /\ loop'.pc = "available" /\ loop'.todo = {"available", "next"}
            /\ loop'.available = loop'.next
  PROVE  ReadInv'
<1>1. Unread' = Unread
  BY DEF Unread
<1>2. CallbackReads' /\ LoadsTrue' /\ Waited'
  BY DEF ReadInv, CallbackReads, LoadsTrue, Waited, Receiving
<1> QED
  BY <1>1, <1>2, RKept

LEMMA Ravailable == TInv /\ ReadInv /\ available => ReadInv'
<1> SUFFICES ASSUME TInv, ReadInv, available
             PROVE  ReadInv'
  OBVIOUS
<1>1. loop \in Loops /\ wire \in Wires /\ role \in Roles
  BY DEF TInv, Types
<1>2. UNCHANGED <<role, wire, frame, sent, got>> /\ loop.pc = "available"
      /\ (loop.todo = {} \/ role.reader = "callback")
  BY DEF available
<1>3. /\ loop.available \in Nat /\ loop.next \in Nat
      /\ wire.rx_bytes_available \in Nat /\ wire.rx_next_byte_to_read \in Nat
  BY <1>1, WireAssumption DEF Loops, Wires
<1>4. CASE loop.available - loop.next # 0
  <2>1. loop' = Goto(loop, "read", {"available", "next"})
    BY <1>4 DEF available
  <2>2. loop'.pc = "read" /\ loop'.todo = {"available", "next"}
    BY <1>1, <2>1, GotoLemma
  <2>3. loop.available # loop.next
    BY <1>3, <1>4
  <2>4. role.reader = "loop" /\ loop.todo = {}
    BY <1>1, <1>2, <2>3 DEF ReadInv, CallbackReads, Roles
  <2>5. Unread' = Unread /\ Unread = wire.rx_next_byte_to_read
    BY <1>2, <2>2 DEF Unread
  <2>6. Unread < wire.rx_bytes_available
    <3>1. \/ Unread < wire.rx_bytes_available
          \/ /\ loop.available = wire.rx_bytes_available
             /\ loop.next = wire.rx_next_byte_to_read
      BY <1>2, <2>4 DEF ReadInv, LoadsTrue
    <3>2. wire.rx_next_byte_to_read <= wire.rx_bytes_available
      BY DEF ReadInv, NotAhead
    <3> QED
      BY <1>3, <2>3, <2>5, <3>1, <3>2
  <2>7. LoadsTrue'
    BY <1>2, <2>2, <2>5, <2>6 DEF LoadsTrue
  <2>8. CallbackReads' /\ Waited'
    BY <1>2, <2>4 DEF ReadInv, CallbackReads, Waited, Receiving
  <2> QED
    BY <1>2, <2>5, <2>7, <2>8, RKept
<1>5. CASE ~(loop.available - loop.next # 0)
  <2>1. CASE loop' = Again(loop)
    BY <1>1, <1>2, <2>1, AgainLemma, RUnloaded
  <2>2. ASSUME NEW n \in Blocks,
               loop' = Goto([loop EXCEPT !.length = n], "write", {"test"})
        PROVE  ReadInv'
    <3>1. [loop EXCEPT !.length = n] \in Loops
      BY <1>1, WireAssumption DEF Loops
    <3>2. loop'.pc = "write"
      BY <2>2, <3>1, GotoLemma
    <3> QED
      BY <1>2, <3>2, RUnloaded
  <2> QED
    BY <1>5, <2>1, <2>2 DEF available
<1> QED
  BY <1>4, <1>5

LEMMA Rread == TInv /\ ReadInv /\ read => ReadInv'
<1> SUFFICES ASSUME TInv, ReadInv, read
             PROVE  ReadInv'
  OBVIOUS
<1>1. loop \in Loops /\ role \in Roles
  BY DEF TInv, Types
<1>2. UNCHANGED <<role, wire, frame, sent, got>> /\ loop.pc = "read" /\ loop.todo = {}
  BY DEF read
<1>3. role.reader = "loop"
  BY <1>1, <1>2 DEF ReadInv, CallbackReads, Roles
<1>4. CASE loop' = Again(loop)
  BY <1>1, <1>2, <1>4, AgainLemma, RUnloaded
<1>5. CASE loop' = Goto(loop, "take", {"byte", "index"})
  <2>1. loop'.pc = "take" /\ loop'.todo = {"byte", "index"} /\ loop'.next = loop.next
    BY <1>1, <1>5, GotoLemma
  <2>2. loop.next = wire.rx_next_byte_to_read /\ Unread < wire.rx_bytes_available
    BY <1>2, <1>3 DEF ReadInv, LoadsTrue
  <2>3. Unread' = Unread /\ Unread = loop.next
    BY <1>2, <2>1, <2>2 DEF Unread
  <2>4. LoadsTrue'
    BY <1>2, <2>1, <2>2, <2>3 DEF LoadsTrue
  <2>5. CallbackReads' /\ Waited'
    BY <1>2, <1>3 DEF ReadInv, CallbackReads, Waited, Receiving
  <2> QED
    BY <1>2, <2>3, <2>4, <2>5, RKept
<1> QED
  BY <1>4, <1>5 DEF read

LEMMA RTake == TInv /\ ReadInv /\ Take => ReadInv'
<1> SUFFICES ASSUME TInv, ReadInv, Take
             PROVE  ReadInv'
  OBVIOUS
<1>1. loop \in Loops /\ wire \in Wires /\ role \in Roles
      /\ got \in Seq(Bytes) /\ sent \in Seq(Bytes)
  BY DEF TInv, Types
<1>2. UNCHANGED <<role, frame, sent>> /\ loop.pc = "take"
  BY DEF Take
<1>3. role.reader = "loop"
  BY <1>1, <1>2 DEF ReadInv, CallbackReads, Roles
<1>4. /\ loop.next < wire.rx_bytes_available
      /\ wire.rx_next_byte_to_read =
           IF "index" \in loop.todo THEN loop.next ELSE loop.next + 1
      /\ "byte" \notin loop.todo => loop.byte = wire.rxBuffer[loop.next + 1]
  BY <1>2, <1>3 DEF ReadInv, LoadsTrue
<1>5. loop.next \in Nat /\ wire.rx_bytes_available \in Nat
  BY <1>1, WireAssumption DEF Loops, Wires
<1>6. ~Receiving
  BY <1>2, <1>3, NothingLeft
<1>7. CallbackReads' /\ Waited'
  BY <1>2, <1>3, <1>6 DEF CallbackReads, Waited, Receiving
<1>8. Unread = loop.next
  BY <1>2 DEF Unread
<1>9. CASE /\ "byte" \in loop.todo
           /\ loop' = [loop EXCEPT !.byte = wire.rxBuffer[loop.next + 1],
                                   !.todo = @ \ {"byte"}]
           /\ UNCHANGED <<wire, got>>
  <2>1. /\ loop'.pc = "take" /\ loop'.next = loop.next
        /\ loop'.byte = wire.rxBuffer[loop.next + 1]
        /\ loop'.todo = loop.todo \ {"byte"}
    BY ONLY <1>1, <1>2, <1>9 DEF Loops
  <2>2. Unread' = Unread
    BY <1>2, <2>1 DEF Unread
  <2>3. LoadsTrue'
    BY <1>4, <1>9, <2>1 DEF LoadsTrue
  <2> QED
    BY <1>2, <1>7, <1>9, <2>2, <2>3, RKept
<1>10. CASE /\ "index" \in loop.todo
            /\ wire' = [wire EXCEPT !.rx_next_byte_to_read = loop.next + 1]
            /\ loop' = [loop EXCEPT !.todo = @ \ {"index"}]
            /\ UNCHANGED got
  <2>1. /\ loop'.pc = "take" /\ loop'.next = loop.next /\ loop'.byte = loop.byte
        /\ loop'.todo = loop.todo \ {"index"}
    BY ONLY <1>1, <1>2, <1>10 DEF Loops
  <2>2. /\ wire'.rxBuffer = wire.rxBuffer
        /\ wire'.rx_bytes_available = wire.rx_bytes_available
        /\ wire'.rx_next_byte_to_read = loop.next + 1
    BY ONLY <1>1, <1>10 DEF Wires
  <2>3. Unread' = Unread
    BY <1>8, <2>1 DEF Unread
  <2>4. LoadsTrue'
    BY <1>4, <2>1, <2>2 DEF LoadsTrue
  <2>5. InOrder' /\ BufferHolds'
    BY <1>2, <1>10, <2>2, <2>3 DEF ReadInv, InOrder, BufferHolds
  <2>6. NotAhead'
    BY <1>4, <1>5, <2>2 DEF NotAhead
  <2> QED
    BY <1>7, <2>4, <2>5, <2>6 DEF ReadInv
<1>11. CASE /\ loop.todo = {}
            /\ got' = Append(got, loop.byte)
            /\ loop' = Again([loop EXCEPT !.byte = DUMMY])
            /\ UNCHANGED wire
  <2>1. loop'.pc = "available" /\ loop'.todo = {"available", "next"}
    <3>1. [loop EXCEPT !.byte = DUMMY] \in Loops
      BY <1>1, DummyLemma DEF Loops
    <3> QED
      BY <1>11, <3>1, AgainLemma
  <2>2. wire.rx_next_byte_to_read = loop.next + 1
        /\ loop.byte = wire.rxBuffer[loop.next + 1]
    BY <1>4, <1>11
  <2>3. Unread' = loop.next + 1
    BY <1>11, <2>1, <2>2 DEF Unread
  <2> DEFINE n == Len(got)
  <2>4. /\ n \in Nat /\ Len(sent) = n + (wire.rx_bytes_available - loop.next)
        /\ \A i \in 1 .. wire.rx_bytes_available - loop.next :
             sent[n + i] = wire.rxBuffer[loop.next + i]
    BY <1>1, <1>3, <1>8 DEF ReadInv, BufferHolds
  <2>5. Len(got') = n + 1 /\ got'[n + 1] = loop.byte
        /\ \A i \in 1 .. n : got'[i] = got[i]
    BY <1>1, <1>11
  <2>6. \A i \in 1 .. n : got[i] = sent[i]
    BY DEF ReadInv, InOrder
  <2> HIDE DEF n
  <2>7. sent[n + 1] = loop.byte
    <3>1. 1 \in 1 .. wire.rx_bytes_available - loop.next
      BY <1>4, <1>5
    <3> QED
      BY <2>2, <2>4, <3>1
  <2>8. InOrder'
    <3>1. n + 1 <= Len(sent)
      BY <1>4, <1>5, <2>4
    <3>2. \A i \in 1 .. n + 1 : got'[i] = sent[i]
      <4> TAKE i \in 1 .. n + 1
      <4>1. i \in 1 .. n \/ i = n + 1
        BY <2>4
      <4> QED
        BY <2>5, <2>6, <2>7, <4>1
    <3> QED
      BY <1>2, <2>5, <3>1, <3>2 DEF InOrder
  <2>9. BufferHolds'
    <3>1. loop.next + 1 <= wire.rx_bytes_available
          /\ Len(sent) = (n + 1) + (wire.rx_bytes_available - (loop.next + 1))
      BY <1>4, <1>5, <2>4
    <3>2. \A i \in 1 .. wire.rx_bytes_available - (loop.next + 1) :
            sent[(n + 1) + i] = wire.rxBuffer[(loop.next + 1) + i]
      <4> TAKE i \in 1 .. wire.rx_bytes_available - (loop.next + 1)
      <4>1. /\ 1 + i \in 1 .. wire.rx_bytes_available - loop.next
            /\ n + (1 + i) = (n + 1) + i
            /\ loop.next + (1 + i) = (loop.next + 1) + i
        <5>1. n \in Nat
          BY <2>4
        <5> QED
          BY ONLY <1>5, <5>1, i \in 1 .. wire.rx_bytes_available - (loop.next + 1)
      <4> QED
        BY <2>4, <4>1
    <3> QED
      BY <1>2, <1>11, <2>3, <2>5, <3>1, <3>2 DEF BufferHolds
  <2>10. LoadsTrue'
    BY <2>1 DEF LoadsTrue
  <2>11. NotAhead'
    BY <1>11 DEF ReadInv, NotAhead
  <2> QED
    BY <1>7, <2>8, <2>9, <2>10, <2>11 DEF ReadInv
<1> QED
  BY <1>9, <1>10, <1>11 DEF Take

LEMMA RWrite == TInv /\ ReadInv /\ Write => ReadInv'
<1> SUFFICES ASSUME TInv, ReadInv, Write
             PROVE  ReadInv'
  OBVIOUS
<1>1. loop \in Loops /\ wire \in Wires
  BY DEF TInv, Types
<1>2. UNCHANGED <<role, frame, sent, got>> /\ loop.pc = "write"
  BY DEF Write
<1>3. /\ wire'.rxBuffer = wire.rxBuffer
      /\ wire'.rx_bytes_available = wire.rx_bytes_available
      /\ wire'.rx_next_byte_to_read = wire.rx_next_byte_to_read
  <2>1. \/ wire' = wire
        \/ \E i \in Index : wire' = [wire EXCEPT !.tx_buffer = Stored(@, i, Written)]
        \/ \E i \in Index : wire' = [wire EXCEPT !.tx_next_byte_to_write = i + loop.length]
    BY DEF Write
  <2> QED
    BY ONLY <1>1, <2>1 DEF Wires
<1>4. \/ loop'.pc = "write"
      \/ /\ loop'.pc = "available" /\ loop'.todo = {"available", "next"}
         /\ loop'.available = loop'.next
  <2>1. CASE loop' = Again(loop)
    BY <1>1, <2>1, AgainLemma
  <2>2. CASE loop.todo = {} /\ loop' = Again([loop EXCEPT !.filled = @ \o Written])
    BY <2>2 DEF Again, Goto
  <2>3. CASE "test" \in loop.todo /\
             loop' = Goto([loop EXCEPT !.next = wire.tx_next_byte_to_write],
                          "write", {"copy", "advance"})
    <3>1. [loop EXCEPT !.next = wire.tx_next_byte_to_write] \in Loops
      <4>1. wire.tx_next_byte_to_write \in Nat
        BY <1>1, WireAssumption DEF Wires
      <4> QED
        BY ONLY <1>1, <4>1 DEF Loops
    <3> QED
      BY <2>3, <3>1, GotoLemma
  <2>4. ASSUME NEW f, loop' = Goto(loop, "write", loop.todo \ {f})
        PROVE  loop'.pc = "write"
    <3>1. loop.todo \ {f} \in SUBSET {"available", "next", "byte", "index",
                                      "test", "copy", "advance"}
      BY <1>1 DEF Loops
    <3> QED
      BY <1>1, <2>4, <3>1, GotoLemma
  <2> QED
    BY <2>1, <2>2, <2>3, <2>4 DEF Write
<1> QED
  BY <1>2, <1>3, <1>4, RUnloaded

LEMMA NextReadInv == TInv /\ Paced /\ ReadInv /\ [Next]_vars => ReadInv'
<1> SUFFICES ASSUME TInv, Paced, ReadInv, [Next]_vars
             PROVE  ReadInv'
  OBVIOUS
<1>1. CASE UNCHANGED vars
  BY <1>1 DEF vars, ReadInv, InOrder, NotAhead, CallbackReads, BufferHolds,
     LoadsTrue, Waited, Receiving, Unread
<1>2. CASE Next
  BY <1>2, RStartFrame, RReceive, Ron_receive_wrapper, Rbefore_transmit, RServe,
     RLoad, Ravailable, Rread, RTake, RWrite DEF Next, interrupt, Loop
<1> QED
  BY <1>1, <1>2

-----------------------------------------------------------------------------
(* The bytes that a read is sent.                                          *)

LEMMA InitServeInv == Init => ServeInv
<1> SUFFICES ASSUME Init
             PROVE  ServeInv
  OBVIOUS
<1>1. frame = <<>> /\ served = <<>> /\ loop.filled = <<>>
  BY DEF Init
<1> QED
  BY <1>1 DEF ServeInv, Answering, Asking, Serving, ServedAsTold, Served

\* The steps that leave the answer to a read alone.
LEMMA SKept ==
  ASSUME ServeInv,
         role.writer = "callback" =>
           /\ UNCHANGED <<told, served>> /\ loop'.filled = loop.filled
           /\ \/ ~Asking' /\ ~Serving'
              \/ UNCHANGED <<slave, frame>> /\ wire'.tx_buffer = wire.tx_buffer,
         UNCHANGED role
  PROVE  ServeInv'
<1>1. CASE role.writer # "callback"
  BY <1>1 DEF ServeInv, Answering, ServedAsTold
<1>2. CASE role.writer = "callback"
  <2>1. ServedAsTold'
    BY <1>2 DEF ServeInv, ServedAsTold, Served
  <2>2. CASE ~Asking' /\ ~Serving'
    BY <1>2, <2>1, <2>2 DEF ServeInv, Answering
  <2>3. CASE UNCHANGED <<slave, frame>> /\ wire'.tx_buffer = wire.tx_buffer
    BY <1>2, <2>1, <2>3 DEF ServeInv, Answering, Asking, Serving
  <2> QED
    BY <1>2, <2>2, <2>3
<1> QED
  BY <1>1, <1>2

LEMMA SStartFrame == TInv /\ ServeInv /\ StartFrame => ServeInv'
<1> SUFFICES ASSUME TInv, ServeInv, StartFrame
             PROVE  ServeInv'
  OBVIOUS
<1>1. UNCHANGED <<role, loop>> /\ served' = <<>>
  BY DEF StartFrame
<1>2. ~Serving'
  <2>1. PICK d \in {"read", "write"}, n \in 1 .. MAX_LENGTH :
          frame' = <<[dir |-> d, length |-> n, done |-> 0]>>
    BY DEF StartFrame
  <2>2. frame'[1].done = 0
    BY <2>1
  <2> QED
    BY <2>2 DEF Serving
<1> QED
  BY <1>1, <1>2 DEF ServeInv, Answering, ServedAsTold, Served

LEMMA SReceive == TInv /\ ServeInv /\ Receive => ServeInv'
<1> SUFFICES ASSUME TInv, ServeInv, Receive
             PROVE  ServeInv'
  OBVIOUS
<1>1. UNCHANGED <<role, loop, told, served>>
  BY DEF Receive
<1>2. ~Asking' /\ ~Serving'
  <2>1. frame[1] \in Frames /\ frame' = <<[frame[1] EXCEPT !.done = @ + 1]>>
    BY FrameLemma DEF TInv, Receive
  <2>2. [frame[1] EXCEPT !.done = @ + 1].dir = "write"
    BY <2>1 DEF Receive, Frames
  <2>3. frame'[1].dir = "write"
    BY <2>1, <2>2
  <2> QED
    BY <2>3 DEF Asking, Serving
<1> QED
  BY <1>1, <1>2, SKept

LEMMA Son_receive_wrapper == TInv /\ ServeInv /\ on_receive_wrapper => ServeInv'
<1> SUFFICES ASSUME TInv, ServeInv, on_receive_wrapper
             PROVE  ServeInv'
  OBVIOUS
<1>1. /\ UNCHANGED <<role, told, served>> /\ frame' = <<>>
      /\ loop'.filled = loop.filled
  BY MarkLemma DEF on_receive_wrapper, TInv
<1>2. ~Asking' /\ ~Serving'
  BY <1>1 DEF Asking, Serving
<1> QED
  BY <1>1, <1>2, SKept

LEMMA Sbefore_transmit == TInv /\ ServeInv /\ before_transmit => ServeInv'
<1> SUFFICES ASSUME TInv, ServeInv, before_transmit
             PROVE  ServeInv'
  OBVIOUS
<1>0. role' = role
  BY DEF before_transmit
<1> SUFFICES ASSUME role.writer = "callback"
             PROVE  ServeInv'
  BY <1>0 DEF ServeInv, Answering, ServedAsTold
<1>1. Types
  BY DEF TInv
<1>2. PICK n \in Nat, m \in Nat :
        wire' = Requested(n, m) /\ told' = loop.filled \o Accepted(n, m)
  BY <1>1, WireAssumption DEF before_transmit
<1>3. /\ Accepted(n, m) \in Seq(Bytes)
      /\ Len(Accepted(n, m)) = wire'.tx_next_byte_to_write
      /\ \A i \in 1 .. Len(Accepted(n, m)) : wire'.tx_buffer[i] = Accepted(n, m)[i]
  BY <1>1, <1>2, RequestedLemma
<1>4. loop.filled = <<>> /\ served = <<>>
  BY DEF ServeInv, Answering, Asking, before_transmit
<1>5. told' = Accepted(n, m)
  BY <1>2, <1>3, <1>4
<1>6. /\ slave' = [slave EXCEPT !.tx_size = wire'.tx_next_byte_to_write,
                               !.tx_index = 0]
      /\ loop' = [loop EXCEPT !.filled = <<>>] /\ served' = served
  BY DEF before_transmit
<1>7. slave'.tx_size = wire'.tx_next_byte_to_write /\ slave'.tx_index = 0
  <2>1. slave \in Slaves
    BY <1>1 DEF Types
  <2> QED
    BY ONLY <1>6, <2>1 DEF Slaves
<1>8. loop'.filled = <<>>
  BY <1>1, <1>6 DEF Types, Loops
<1>9. frame'[1].done = 1
  <2>1. frame[1] \in Frames /\ frame' = <<[frame[1] EXCEPT !.done = 1]>>
    BY <1>1, FrameLemma DEF before_transmit
  <2>2. [frame[1] EXCEPT !.done = 1].done = 1
    BY <2>1 DEF Frames
  <2> QED
    BY <2>1, <2>2
<1> DEFINE k == Len(told')
<1>10. k \in Nat /\ Len(served') = 0 /\ Len(served') = frame'[1].done - 1
       /\ slave'.tx_size = k /\ \A i \in 1 .. k : wire'.tx_buffer[i] = told'[i]
  BY <1>3, <1>4, <1>5, <1>6, <1>7, <1>9
<1>11. ServedAsTold'
  BY <1>4, <1>6 DEF ServedAsTold, Served
<1>12. ~Asking'
  BY <1>9 DEF Asking
<1> HIDE DEF k
<1>13. slave'.tx_index = IF Len(served') <= k THEN Len(served') ELSE k
  BY <1>7, <1>10
<1> QED
  BY <1>8, <1>10, <1>11, <1>12, <1>13 DEF ServeInv, Answering, k

LEMMA SServe == TInv /\ ServeInv /\ Serve => ServeInv'
<1> SUFFICES ASSUME TInv, ServeInv, Serve
             PROVE  ServeInv'
  OBVIOUS
<1>0. role' = role
  BY DEF Serve
<1> SUFFICES ASSUME role.writer = "callback"
             PROVE  ServeInv'
  BY <1>0 DEF ServeInv, Answering, ServedAsTold
<1>1. Types
  BY DEF TInv
<1>2. UNCHANGED <<role, wire, loop, told>>
  BY DEF Serve
<1>3. CASE frame[1].done > frame[1].length
  <2>1. frame' = <<>> /\ UNCHANGED <<slave, served>>
    BY <1>3 DEF Serve
  <2>2. ~Asking' /\ ~Serving'
    BY <2>1 DEF Asking, Serving
  <2> QED
    BY <1>2, <2>1, <2>2, SKept
<1>4. CASE ~(frame[1].done > frame[1].length)
  <2> DEFINE v == IF slave.tx_index < slave.tx_size
                  THEN wire.tx_buffer[slave.tx_index + 1] ELSE DUMMY
             n == Len(served)
             k == Len(told)
  <2>1. /\ frame' = [frame EXCEPT ![1].done = @ + 1]
        /\ served' = Append(served, v)
        /\ slave' = [slave EXCEPT !.tx_index = IF @ < slave.tx_size THEN @ + 1 ELSE @]
    BY <1>4 DEF Serve
  <2>2. frame'[1].done = frame[1].done + 1 /\ frame[1].done \in Nat
    <3>1. frame[1] \in Frames /\ frame' = <<[frame[1] EXCEPT !.done = @ + 1]>>
      BY <1>1, <2>1, FrameLemma DEF Serve
    <3>2. [frame[1] EXCEPT !.done = @ + 1].done = frame[1].done + 1
          /\ frame[1].done \in Nat
      BY <3>1, WireAssumption DEF Frames
    <3> QED
      BY <3>1, <3>2
  <2>3. Serving
    BY DEF Serve, Serving
  <2>4. n \in Nat /\ k \in Nat /\ served \in Seq(Bytes)
    BY <1>1 DEF Types
  <2> HIDE DEF v, n, k
  <2>5. /\ loop.filled = <<>> /\ slave.tx_size = k
        /\ n = frame[1].done - 1
        /\ slave.tx_index = IF n <= k THEN n ELSE k
        /\ \A i \in 1 .. k : wire.tx_buffer[i] = told[i]
    BY <2>3 DEF ServeInv, Answering, n, k
  <2>6. slave'.tx_size = k /\ slave'.tx_index = IF n + 1 <= k THEN n + 1 ELSE k
    <3>1. slave \in Slaves
      BY <1>1 DEF Types
    <3>2. /\ slave'.tx_size = slave.tx_size
          /\ slave'.tx_index = IF slave.tx_index < slave.tx_size
                               THEN slave.tx_index + 1 ELSE slave.tx_index
      BY ONLY <2>1, <3>1 DEF Slaves
    <3> QED
      BY ONLY <2>4, <2>5, <3>2
  <2>7. v = IF n + 1 <= k THEN told[n + 1] ELSE DUMMY
    <3>1. n + 1 <= k => n + 1 \in 1 .. k
      BY <2>4
    <3> QED
      BY <2>4, <2>5, <3>1 DEF v
  <2>8. /\ Len(served') = n + 1 /\ served'[n + 1] = v
        /\ \A i \in 1 .. n : served'[i] = served[i]
        /\ DOMAIN served' = 1 .. n + 1 /\ DOMAIN served = 1 .. n
    BY <2>1, <2>4 DEF n
  <2>9. ServedAsTold'
    <3>1. \A i \in 1 .. n : served[i] = IF i <= k THEN told[i] ELSE DUMMY
      BY <2>8 DEF ServeInv, ServedAsTold, Served, k
    <3>2. \A i \in 1 .. n + 1 : served'[i] = IF i <= k THEN told[i] ELSE DUMMY
      <4> TAKE i \in 1 .. n + 1
      <4>1. i \in 1 .. n \/ i = n + 1
        BY <2>4
      <4> QED
        BY <2>7, <2>8, <3>1, <4>1
    <3> QED
      BY <1>2, <2>8, <3>2 DEF ServedAsTold, Served, k
  <2>10. ~Asking'
    BY <2>2 DEF Asking
  <2>11. n + 1 = frame'[1].done - 1
    BY <2>2, <2>4, <2>5
  <2> QED
    BY <1>2, <2>5, <2>6, <2>8, <2>9, <2>10, <2>11 DEF ServeInv, Answering, k
<1> QED
  BY <1>3, <1>4

\* A sketch that writes in on_request() leaves the answers alone in loop().
LEMMA SLoop == TInv /\ ServeInv /\ Loop => ServeInv'
<1> SUFFICES ASSUME TInv, ServeInv, Loop
             PROVE  ServeInv'
  OBVIOUS
<1>1. UNCHANGED <<role, slave, frame, told, served>>
  BY DEF Loop, Load, available, read, Take, Write
<1>2. loop \in Loops /\ wire \in Wires
  BY DEF TInv, Types
<1>3. ASSUME role.writer = "callback"
      PROVE  loop'.filled = loop.filled /\ wire'.tx_buffer = wire.tx_buffer
  <2>1. CASE Load
    <3>1. UNCHANGED wire
      BY <2>1 DEF Load
    <3>2. PICK f \in loop.todo :
            loop' = Goto([loop EXCEPT ![f] = IF f = "next" THEN wire.rx_next_byte_to_read
                                                          ELSE wire.rx_bytes_available],
                         loop.pc, loop.todo \ {f})
      BY <2>1 DEF Load, LoadIndexes
    <3>3. f \in {"available", "next"}
      BY <2>1 DEF Load, TInv, Places
    <3> QED
      BY <1>2, <3>1, <3>2, <3>3 DEF Goto, Loops
  <2>2. CASE available
    <3>1. UNCHANGED wire /\ \/ loop' = Goto(loop, "read", {"available", "next"})
                            \/ loop' = Again(loop)
      BY <1>3, <2>2 DEF available
    <3> QED
      BY <1>2, <3>1 DEF Goto, Again, Loops
  <2>3. CASE read
    BY <1>2, <2>3 DEF read, Goto, Again, Loops
  <2>4. CASE Take
    <3>1. /\ wire' = wire \/ wire' = [wire EXCEPT !.rx_next_byte_to_read = loop.next + 1]
          /\ \/ loop' = [loop EXCEPT !.byte = wire.rxBuffer[loop.next + 1],
                                     !.todo = @ \ {"byte"}]
             \/ loop' = [loop EXCEPT !.todo = @ \ {"index"}]
             \/ loop' = Again([loop EXCEPT !.byte = DUMMY])
      BY <2>4 DEF Take
    <3> QED
      BY <1>2, <3>1 DEF Goto, Again, Loops, Wires
  <2>5. CASE Write
    BY <1>3, <2>5 DEF Write, TInv, WriteFits
  <2> QED
    BY <2>1, <2>2, <2>3, <2>4, <2>5 DEF Loop
<1> QED
  BY <1>1, <1>3, SKept

LEMMA NextServeInv == TInv /\ ServeInv /\ [Next]_vars => ServeInv'
<1> SUFFICES ASSUME TInv, ServeInv, [Next]_vars
             PROVE  ServeInv'
  OBVIOUS
<1>1. CASE UNCHANGED vars
  BY <1>1, SKept DEF vars
<1>2. CASE Next
  BY <1>2, SStartFrame, SReceive, Son_receive_wrapper, Sbefore_transmit, SServe,
     SLoop DEF Next, interrupt
<1> QED
  BY <1>1, <1>2

-----------------------------------------------------------------------------
(* The count that available() gives.                                       *)

LEMMA InitCountInv == Init => CountInv
<1> SUFFICES ASSUME Init
             PROVE  CountInv
  OBVIOUS
<1>1. /\ wire.rx_bytes_available = 0 /\ wire.rx_next_byte_to_read = 0
      /\ loop.pc = "available"
  BY DEF Init
<1> QED
  BY <1>1 DEF CountInv, NeverNegative

\* The steps that leave the count and the index alone, and have loaded neither.
LEMMA CKept ==
  ASSUME CountInv,
         wire'.rx_bytes_available = wire.rx_bytes_available,
         wire'.rx_next_byte_to_read = wire.rx_next_byte_to_read,
         loop'.overtaken = loop.overtaken,
         \/ /\ loop'.pc = loop.pc /\ loop'.todo = loop.todo
            /\ loop'.available = loop.available /\ loop'.next = loop.next
         \/ loop'.pc \in {"available", "write"}
         \/ loop'.pc = "read" /\ "available" \in loop'.todo
  PROVE  CountInv'
  BY DEF CountInv, NeverNegative

LEMMA Cinterrupt == TInv /\ CountInv /\ interrupt => CountInv'
<1> SUFFICES ASSUME TInv, CountInv, interrupt
             PROVE  CountInv'
  OBVIOUS
<1>1. Types /\ wire \in Wires /\ loop \in Loops
  BY DEF TInv, Types
<1>2. CASE StartFrame \/ Serve
  BY <1>2, CKept DEF StartFrame, Serve
<1>3. CASE Receive
  <2>1. wire' = wire \/ \E v : wire' = [wire EXCEPT !.rxBuffer[slave.rx_index + 1] = v]
    BY <1>3 DEF Receive
  <2>2. /\ wire'.rx_bytes_available = wire.rx_bytes_available
        /\ wire'.rx_next_byte_to_read = wire.rx_next_byte_to_read
    BY ONLY <1>1, <2>1 DEF Wires
  <2> QED
    BY <1>3, <2>2, CKept DEF Receive
<1>4. CASE before_transmit
  <2>1. PICK n \in Nat, m \in Nat : wire' = Requested(n, m)
    BY <1>1, <1>4, WireAssumption DEF before_transmit, Types
  <2>2. /\ wire'.rx_bytes_available = wire.rx_bytes_available
        /\ wire'.rx_next_byte_to_read = wire.rx_next_byte_to_read
    BY <1>1, <2>1, RequestedLemma
  <2>3. loop' = [loop EXCEPT !.filled = <<>>]
    BY <1>4 DEF before_transmit
  <2>4. /\ loop'.pc = loop.pc /\ loop'.todo = loop.todo
        /\ loop'.available = loop.available /\ loop'.next = loop.next
        /\ loop'.overtaken = loop.overtaken
    BY ONLY <1>1, <2>3 DEF Loops
  <2> QED
    BY <2>2, <2>4, CKept
<1>5. CASE on_receive_wrapper
  <2>1. /\ loop'.overtaken = Reading /\ loop'.pc = loop.pc /\ loop'.todo = loop.todo
    BY <1>1, <1>5, MarkLemma
  <2>2. wire'.rx_next_byte_to_read <= wire'.rx_bytes_available
    <3> DEFINE w == Received(slave.rx_index)
               x == slave.rx_index
    <3>1. /\ w \in Wires /\ x \in Nat \ {0} /\ w.rx_bytes_available = x
          /\ w.rx_next_byte_to_read = 0
      BY <1>5, ToldLemma
    <3>2. \/ wire' = w
          \/ \E n \in 0 .. rx_buffer_length :
               wire' = [w EXCEPT !.rx_next_byte_to_read = @ + Len(Readable(w, n))]
      BY <1>5 DEF on_receive_wrapper
    <3> HIDE DEF w, x
    <3>3. ASSUME NEW n \in 0 .. rx_buffer_length,
                 wire' = [w EXCEPT !.rx_next_byte_to_read = @ + Len(Readable(w, n))]
          PROVE  wire'.rx_next_byte_to_read <= wire'.rx_bytes_available
      <4>1. n \in Nat
        BY WireAssumption
      <4> DEFINE k == Len(Readable(w, n))
      <4>2. k = IF n <= x THEN n ELSE x
        BY <3>1, <4>1, ReadableLemma
      <4> HIDE DEF k
      <4>3. k \in 0 .. x
        BY <3>1, <4>1, <4>2
      <4>4. 0 + k = k
        BY <4>3
      <4>5. wire'.rx_next_byte_to_read = k /\ wire'.rx_bytes_available = x
        BY ONLY <3>1, <3>3, <4>4 DEF Wires, k
      <4> QED
        BY <3>1, <4>3, <4>5
    <3> QED
      BY <3>1, <3>2, <3>3
  <2> QED
    BY <2>1, <2>2 DEF CountInv, NeverNegative, Reading
<1> QED
  BY <1>2, <1>3, <1>4, <1>5 DEF interrupt

LEMMA CTake == TInv /\ CountInv /\ Take => CountInv'
<1> SUFFICES ASSUME TInv, CountInv, Take
             PROVE  CountInv'
  OBVIOUS
<1>1. wire \in Wires /\ loop \in Loops /\ loop.pc = "take"
  BY DEF TInv, Types, Take
<1>2. loop.next \in Nat /\ wire.rx_bytes_available \in Nat
  BY <1>1, WireAssumption DEF Loops, Wires
<1>3. CASE /\ "byte" \in loop.todo
           /\ loop' = [loop EXCEPT !.byte = wire.rxBuffer[loop.next + 1],
                                   !.todo = @ \ {"byte"}]
           /\ UNCHANGED <<wire, got>>
  <2>1. /\ loop'.pc = "take" /\ loop'.todo = loop.todo \ {"byte"}
        /\ loop'.next = loop.next /\ loop'.overtaken = loop.overtaken
    BY ONLY <1>1, <1>3 DEF Loops
  <2> QED
    BY <1>1, <1>3, <2>1 DEF CountInv, NeverNegative
<1>4. CASE /\ "index" \in loop.todo
           /\ wire' = [wire EXCEPT !.rx_next_byte_to_read = loop.next + 1]
           /\ loop' = [loop EXCEPT !.todo = @ \ {"index"}]
           /\ UNCHANGED got
  <2>1. /\ loop'.pc = "take" /\ loop'.todo = loop.todo \ {"index"}
        /\ loop'.overtaken = loop.overtaken
    BY ONLY <1>1, <1>4 DEF Loops
  <2>2. /\ wire'.rx_next_byte_to_read = loop.next + 1
        /\ wire'.rx_bytes_available = wire.rx_bytes_available
    BY ONLY <1>1, <1>4 DEF Wires
  <2>3. loop.overtaken \/ loop.next < wire.rx_bytes_available
    BY <1>1, <1>4 DEF CountInv
  <2>4. loop.overtaken \/ loop.next + 1 <= wire.rx_bytes_available
    BY <1>2, <2>3
  <2> QED
    BY <2>1, <2>2, <2>4 DEF CountInv, NeverNegative
<1>5. CASE /\ loop.todo = {}
           /\ got' = Append(got, loop.byte)
           /\ loop' = Again([loop EXCEPT !.byte = DUMMY])
           /\ UNCHANGED wire
  <2> DEFINE l == [loop EXCEPT !.byte = DUMMY]
  <2>1. l \in Loops /\ l.overtaken = loop.overtaken
    BY <1>1, DummyLemma DEF Loops
  <2>2. loop' = Again(l)
    BY <1>5
  <2> HIDE DEF l
  <2>3. loop'.pc = "available" /\ loop'.overtaken = loop.overtaken
    BY <2>1, <2>2, AgainLemma
  <2> QED
    BY <1>5, <2>3, CKept
<1> QED
  BY <1>3, <1>4, <1>5 DEF Take

LEMMA CWrite == TInv /\ CountInv /\ Write => CountInv'
<1> SUFFICES ASSUME TInv, CountInv, Write
             PROVE  CountInv'
  OBVIOUS
<1>1. loop \in Loops /\ wire \in Wires
  BY DEF TInv, Types
<1>2. /\ wire'.rx_bytes_available = wire.rx_bytes_available
      /\ wire'.rx_next_byte_to_read = wire.rx_next_byte_to_read
  <2>1. \/ wire' = wire
        \/ \E i \in Index : wire' = [wire EXCEPT !.tx_buffer = Stored(@, i, Written)]
        \/ \E i \in Index : wire' = [wire EXCEPT !.tx_next_byte_to_write = i + loop.length]
    BY DEF Write
  <2> QED
    BY ONLY <1>1, <2>1 DEF Wires
<1>3. loop'.pc \in {"available", "write"} /\ loop'.overtaken = loop.overtaken
  <2>1. \/ \E f : loop' = Goto(loop, "write", loop.todo \ {f})
        \/ loop' = Goto([loop EXCEPT !.next = wire.tx_next_byte_to_write],
                        "write", {"copy", "advance"})
        \/ loop' = Again(loop)
        \/ loop' = Again([loop EXCEPT !.filled = @ \o Written])
    BY DEF Write
  <2> QED
    BY ONLY <1>1, <2>1 DEF Loops, Goto, Again
<1> QED
  BY <1>2, <1>3, CKept

LEMMA CLoop == TInv /\ CountInv /\ Loop => CountInv'
<1> SUFFICES ASSUME TInv, CountInv, Loop
             PROVE  CountInv'
  OBVIOUS
<1>1. wire \in Wires /\ loop \in Loops
  BY DEF TInv, Types
<1>2. CASE Load
  <2>1. UNCHANGED wire /\ loop.pc \in {"available", "read"}
    BY <1>2 DEF Load
  <2>2. PICK f \in loop.todo \cap {"available", "next"} :
          /\ loop'.pc = loop.pc /\ loop'.todo = loop.todo \ {f}
          /\ loop'.available = IF f = "available" THEN wire.rx_bytes_available
                                                 ELSE loop.available
          /\ loop'.overtaken = loop.overtaken
    BY <1>2, LoadLemma
  <2> QED
    BY <2>1, <2>2 DEF CountInv, NeverNegative
<1>3. CASE available
  <2>1. UNCHANGED wire
    BY <1>3 DEF available
  <2>2. \/ loop' = Goto(loop, "read", {"available", "next"})
        \/ loop' = Again(loop)
        \/ \E n : loop' = Goto([loop EXCEPT !.length = n], "write", {"test"})
    BY <1>3 DEF available
  <2>3. /\ loop'.overtaken = loop.overtaken
        /\ \/ loop'.pc \in {"available", "write"}
           \/ loop'.pc = "read" /\ "available" \in loop'.todo
    BY ONLY <1>1, <2>2 DEF Loops, Goto, Again
  <2> QED
    BY <2>1, <2>3, CKept
<1>4. CASE read
  <2>1. UNCHANGED wire /\ loop.pc = "read" /\ loop.todo = {}
    BY <1>4 DEF read
  <2>2. CASE loop' = Again(loop)
    BY <1>1, <2>1, <2>2, AgainLemma, CKept
  <2>3. CASE loop.next < loop.available /\ loop' = Goto(loop, "take", {"byte", "index"})
    <3>1. /\ loop'.pc = "take" /\ loop'.next = loop.next
          /\ loop'.overtaken = loop.overtaken
      BY <1>1, <2>3, GotoLemma
    <3>2. loop.overtaken \/ loop.available = wire.rx_bytes_available
      BY <2>1 DEF CountInv
    <3> QED
      BY <2>1, <2>3, <3>1, <3>2 DEF CountInv, NeverNegative
  <2> QED
    BY <1>4, <2>2, <2>3 DEF read
<1> QED
  BY <1>2, <1>3, <1>4, CTake, CWrite DEF Loop

LEMMA NextCountInv == TInv /\ CountInv /\ [Next]_vars => CountInv'
<1> SUFFICES ASSUME TInv, CountInv, [Next]_vars
             PROVE  CountInv'
  OBVIOUS
<1>1. CASE UNCHANGED vars
  BY <1>1, CKept DEF vars
<1> QED
  BY <1>1, Cinterrupt, CLoop DEF Next

-----------------------------------------------------------------------------
LEMMA Inductive == Spec => []IInv
<1>1. Init => IInv
  BY InitTInv, InitCountInv, InitReadInv, InitServeInv DEF IInv
<1>2. IInv /\ [Next]_vars => IInv'
  <2> SUFFICES ASSUME IInv, [Next]_vars
               PROVE  IInv'
    OBVIOUS
  <2>1. role' = role
    BY DEF vars, Next, interrupt, StartFrame, Receive, on_receive_wrapper,
       before_transmit, Serve, Loop, Load, available, read, Take, Write
  <2>2. Paced' => Paced
    BY <2>1 DEF Paced
  <2> QED
    BY <2>2, NextTInv, NextCountInv, NextReadInv, NextServeInv DEF IInv
<1> QED
  BY <1>1, <1>2, PTL DEF Spec

\* The variables have their types and the indexes stay within the buffers
\* they point into, whatever the sizes (i2c_driver_wire.cpp).
THEOREM TypeCorrect == Spec => []TypeOK
<1>1. IInv => TypeOK
  <2> SUFFICES ASSUME TInv
               PROVE  TypeOK
    BY DEF IInv
  <2>1. Types /\ slave.tx_index <= slave.tx_size
    BY DEF TInv, IndexBound
  <2>2. Len(frame) <= 1
    <3>1. frame = <<>> \/ \E f \in Frames : frame = <<f>>
      BY <2>1 DEF Types
    <3>2. CASE frame = <<>>
      BY <3>2
    <3>3. ASSUME NEW f \in Frames, frame = <<f>>
          PROVE  Len(frame) <= 1
      BY <3>3
    <3> QED
      BY <3>1, <3>2, <3>3
  <2>3. slave.tx_index \in 0 .. slave.tx_size /\ slave.rx_index \in 0 .. rx_buffer_length
    BY <2>1 DEF Types, Slaves
  <2> QED
    BY <2>1, <2>2, <2>3 DEF Types, Roles, Wires, Loops, TypeOK
<1> QED
  BY <1>1, Inductive, PTL

\* No write() of the sketch, from on_request() or interrupted by it in loop(),
\* stores outside the transmit buffer, and none makes the driver serve from
\* outside it.
THEOREM WritesStayInBuffer == Spec => []WritesInBuffer
<1>1. IInv => WritesInBuffer
  BY DEF IInv, TInv, Types, Wires, Slaves, WritesInBuffer
<1> QED
  BY <1>1, Inductive, PTL

\* available() is negative only after a frame that was told in the middle of a
\* read() in loop() (i2c_driver_wire.cpp:94-95), and no longer than until the
\* next frame is told: for any sizes, and whether the master waits or not.
THEOREM AvailableIsNatural == Spec => []NeverNegative
<1>1. IInv => NeverNegative
  BY DEF IInv, CountInv
<1> QED
  BY <1>1, Inductive, PTL

\* read() returns the bytes of the frames in order, each once: in on_receive(),
\* and in loop() if the master waits until a frame is read.
THEOREM BytesAreReadInOrder == Spec => []ReadsAreFrames
<1>1. IInv => ReadsAreFrames
  <2> SUFFICES ASSUME Types, InOrder
               PROVE  IsPrefix(got, sent)
    BY DEF IInv, TInv, ReadInv, Paced, ReadsAreFrames
  <2>1. got \in Seq(Bytes) /\ sent \in Seq(Bytes)
    BY DEF Types
  <2>2. SubSeq(sent, 1, Len(got)) = got
    BY <2>1 DEF InOrder
  <2> QED
    BY <2>1, <2>2 DEF InOrder, IsPrefix
<1> QED
  BY <1>1, Inductive, PTL

\* A read is sent the bytes that the calls of write() in on_request() said
\* they had accepted, in order, and padding after them.
THEOREM ReadsAreServed == Spec => []ServedAsTold
<1>1. IInv => ServedAsTold
  BY DEF IInv, ServeInv
<1> QED
  BY <1>1, Inductive, PTL
=============================================================================
