--------------------------- MODULE CircularBuffer ---------------------------
(***************************************************************************)
(* Circular_Buffer (include/circular_buffer.h), with multi = 0 (items are  *)
(* values) and with multi > 0 (items are arrays with a length).  The       *)
(* indexes count twice around, so that a full buffer differs from an empty *)
(* one.  An array is its key (what find() and the like compare) and its    *)
(* length, kept in two elements of the item.                               *)
(*                                                                         *)
(* Each operation is modelled as it is; `sound' names the uses for which   *)
(* it does what its name says.  A behaviour ends with the first other use. *)
(* An operation on a block that calls the one on a value is a step for     *)
(* each call; no other operation comes between.                            *)
(***************************************************************************)
EXTENDS Integers, Sequences, SequencesExt, FiniteSetsExt, Functions

CONSTANTS
  _size,    \* the capacity, a power of two
  Values,   \* the values pushed
  Keys,     \* the keys of the arrays pushed
  Lengths,  \* the lengths of the arrays pushed
  BYTE,     \* 2 to the width of an element
  WORD      \* 2 to the width of a uint16_t

ASSUME BufferAssumption ==
  /\ _size \in Nat \ {0} /\ \E w \in 1 .. 15 : _size = 2 ^ w
  /\ BYTE \in Nat \ {0} /\ WORD = BYTE * BYTE /\ WORD > 2 * _size + 1
  /\ Values \subseteq Int /\ Lengths \subseteq 0 .. WORD - 1

VARIABLES
  multi,  \* the template parameter, as a Boolean
  buf,    \* head, tail, _available and the cells
  todo,   \* the calls that a block operation has still to make
  moved,  \* the items the last step was given or returned
  kept    \* whether every use so far was sound

vars == <<multi, buf, todo, moved, kept>>

Arrays == [key : Keys, length : Lengths]

Init ==
  /\ multi \in BOOLEAN
  /\ buf = [head |-> 0, tail |-> 0, available |-> 0,
            cells |-> [i \in 0 .. _size - 1 |->
                         IF multi THEN [key |-> 0, high |-> 0, low |-> 0] ELSE 0]]
  /\ todo = <<>> /\ moved = <<>> /\ kept = TRUE

Turn(i) == i % (2 * _size)
Cell(b, i) == b.cells[(b.head + i) % _size]

\* tail == (head ^ _size)
Full(b) == b.tail = Turn(b.head + _size)

OneMore(b) == IF b.available < _size THEN b.available + 1 ELSE b.available
OneLess(b) == IF b.available > 0 THEN b.available - 1 ELSE 0

\* An operation: what the buffer becomes, the calls it makes then, the items
\* given to it or returned, and whether this use of it is sound.
Begins(b, calls, items, sound) ==
  /\ buf' = b /\ todo' = calls /\ moved' = items /\ kept' = sound
  /\ UNCHANGED multi

Does(b, items, sound) == Begins(b, <<>>, items, sound)

Calls(op, s) == [i \in DOMAIN s |-> [op |-> op, item |-> s[i]]]

\* How an array's length is kept; the high part is shifted by write() only.
Shifted(x) == [key |-> x.key, high |-> (x.length \div BYTE) % BYTE,
               low |-> x.length % BYTE]
Unshifted(x) == [key |-> x.key, high |-> (x.length - (x.length % BYTE)) % BYTE,
                 low |-> x.length % BYTE]
LengthOf(cell) == cell.high * BYTE + cell.low

Item(cell) == IF multi THEN [key |-> cell.key, length |-> LengthOf(cell)]
                       ELSE cell

-----------------------------------------------------------------------------
\* Mutant of Written: a full buffer keeps its head.
Written_KeepsHead(b, x) ==
  [b EXCEPT !.cells[b.tail % _size] = x, !.available = OneMore(b),
            !.tail = Turn(@ + 1)]

\* write() of one value or array.
Written(b, x) ==
  [b EXCEPT !.cells[b.tail % _size] = x, !.available = OneMore(b),
            !.tail = Turn(@ + 1), !.head = IF Full(b) THEN Turn(@ + 1) ELSE @]

write ==
  \E x \in IF multi THEN Arrays ELSE Values :
    Does(Written(buf, IF multi THEN Shifted(x) ELSE x), <<x>>, TRUE)

\* write(buffer, length): the count is raised first, and once more for every
\* value when the values do not fit before the end of the array.
write_block ==
  /\ ~multi
  /\ \E s \in SeqOf(Values, _size + 1) :
       LET n == Len(s)
           sum == (buf.available + n) % WORD
           counted == [buf EXCEPT !.available = IF sum >= _size THEN _size ELSE sum]
       IN  IF n < _size - buf.tail
           THEN Does([counted EXCEPT !.tail = Turn(@ + n),
                        !.cells = [i \in DOMAIN @ |->
                           IF i \in buf.tail .. (buf.tail + n - 1)
                           THEN s[i - buf.tail + 1] ELSE @[i]]],
                     s, buf.available + n <= _size)
           ELSE Begins(counted, Calls("write", s), <<>>,
                       n = 0 \/ buf.available + n >= _size)

\* push_front() of a value does not move the tail of a full buffer.
PutFirst(b, x) ==
  LET head == Turn(b.head - 1)
  IN  [b EXCEPT !.head = head, !.cells[head % _size] = x, !.available = OneMore(b)]

push_front ==
  /\ ~multi
  /\ \E x \in Values : Does(PutFirst(buf, x), <<x>>, buf.available < _size)

\* push_front(buffer, length), last value first; length - 1 underflows for none.
push_front_block ==
  /\ ~multi
  /\ \E s \in SeqOf(Values, _size) \ {<<>>} :
       Begins(buf, Calls("push_front", Reverse(s)), <<>>,
              buf.available + Len(s) <= _size)

push_front_array ==
  /\ multi
  /\ \E x \in Arrays :
       Does(PutFirst([buf EXCEPT !.tail = IF Full(buf) THEN Turn(@ - 1) ELSE @],
                     Unshifted(x)), <<x>>, x.length < BYTE)

-----------------------------------------------------------------------------
Dropped(b) == [b EXCEPT !.available = OneLess(b), !.head = Turn(@ + 1)]

\* read() moves the head of an empty buffer too.  An array is dropped by it
\* and returned by readBytes().
read == Does(Dropped(buf), <<Item(Cell(buf, 0))>>, buf.available > 0)

\* readBytes(): the block copy is from the first cell, and as much is taken
\* from the count as was asked for.
readBytes ==
  /\ ~multi
  /\ \E length \in 0 .. _size + 1 :
       LET count == IF buf.available < length THEN buf.available ELSE length
       IN  IF count < _size - buf.head
           THEN Does([buf EXCEPT !.available = (@ - length) % WORD,
                                 !.head = Turn(@ + count)],
                     [i \in 1 .. count |-> buf.cells[i - 1]],
                     length <= buf.available /\ (buf.head = 0 \/ count = 0))
           ELSE Begins(buf, [i \in 1 .. count |-> [op |-> "read"]], <<>>, TRUE)

\* The next call of a block operation.
Call ==
  /\ LET op == Head(todo).op
         x == IF op = "read" THEN Item(Cell(buf, 0)) ELSE Head(todo).item
     IN  /\ buf' = CASE op = "write" -> Written(buf, x)
                     [] op = "push_front" -> PutFirst(buf, x)
                     [] op = "read" -> Dropped(buf)
         /\ moved' = <<x>>
  /\ todo' = Tail(todo)
  /\ UNCHANGED <<multi, kept>>

\* Mutant of pop_back_array: the count is not lowered.
pop_back_array_KeepsCount ==
  /\ multi
  /\ Does([buf EXCEPT !.tail = Turn(@ - 1)],
          <<Item(buf.cells[(buf.tail - 1) % _size])>>, buf.available > 0)

pop_back_array ==
  /\ multi
  /\ Does([buf EXCEPT !.tail = Turn(@ - 1), !.available = OneLess(buf)],
          <<Item(buf.cells[(buf.tail - 1) % _size])>>, buf.available > 0)

\* pop_back() of a value returns what the cell before the one it removes holds
\* (it moves the tail, and then counts back from it once more).  So a caller
\* may drop the last item with it, but use what it returns only where the two
\* cells happen to hold the same.
pop_back ==
  /\ ~multi /\ buf.available > 0
  /\ LET removed == buf.cells[(buf.tail - 1) % _size]
         returned == buf.cells[(buf.tail - 2) % _size]
     IN  \E used \in BOOLEAN :
           Does([buf EXCEPT !.tail = Turn(@ - 1), !.available = OneLess(buf)],
                IF used THEN <<returned>> ELSE <<>>, used => returned = removed)

clear == Does([buf EXCEPT !.head = 0, !.tail = 0, !.available = 0], <<>>, TRUE)

-----------------------------------------------------------------------------
\* remove(): the arrays before the one at this cell move up by one.
Removed(b, pos) ==
  LET area == (pos - b.head) % _size
      before(i) == (i - b.head) % _size < area
      shifted == [i \in DOMAIN b.cells |->
                  IF i = pos \/ before(i)
                  THEN b.cells[IF i = b.head % _size THEN i ELSE (i - 1) % _size]
                  ELSE b.cells[i]]
  IN  [b EXCEPT !.cells = shifted, !.head = Turn(@ + 1),
                !.available = (@ - 1) % WORD]

remove ==
  /\ multi
  /\ \E pos \in DOMAIN buf.cells :
       Does(Removed(buf, pos), <<Item(buf.cells[pos])>>,
            (pos - buf.head) % _size < buf.available)

\* Mutant of Found: the search includes the cells after the last item.
Found_BeyondLast(key) == {j \in 0 .. _size - 1 : Cell(buf, j).key = key}

Found(key) == {j \in 0 .. buf.available - 1 : Cell(buf, j).key = key}

findRemove ==
  /\ multi
  /\ \E key \in Keys :
       /\ Found(key) # {}
       /\ Does(Removed(buf, (buf.head + Min(Found(key))) % _size),
               <<Item(Cell(buf, Min(Found(key))))>>, TRUE)

replace ==
  /\ multi
  /\ \E x \in Arrays :
       /\ Found(x.key) # {}
       /\ Does([buf EXCEPT !.cells[(buf.head + Min(Found(x.key))) % _size] =
                  Unshifted(x)], <<x>>, x.length < BYTE)

\* What std::sort() makes of s.
Sorted(s) ==
  {t \in [DOMAIN s -> ToSet(s)] :
     /\ \A i, j \in DOMAIN s : i < j => t[i] <= t[j]
     /\ \E p \in Injection(DOMAIN s, DOMAIN s) : \A i \in DOMAIN s : t[i] = s[p[i]]}

Stored(s) ==
  [buf EXCEPT !.cells = [i \in DOMAIN @ |->
     LET j == (i - buf.head) % _size
     IN  IF j < buf.available THEN s[j + 1] ELSE @[i]]]

\* sort_descending() sorts as sort_ascending() does and reverses.
sort ==
  /\ ~multi
  /\ \E descending \in BOOLEAN,
        up \in Sorted([i \in 1 .. buf.available |-> Cell(buf, i - 1)]) :
       Does(Stored(IF descending THEN Reverse(up) ELSE up), <<>>, TRUE)

Operation ==
  \/ write \/ write_block \/ push_front \/ push_front_block \/ push_front_array
  \/ read \/ readBytes \/ pop_back \/ pop_back_array \/ clear
  \/ remove \/ findRemove \/ replace \/ sort

Next == \/ kept /\ todo = <<>> /\ Operation
        \/ kept /\ todo # <<>> /\ Call

Spec == Init /\ [][Next]_vars

-----------------------------------------------------------------------------
(* The queries.                                                            *)

peek(pos) == IF pos > _size THEN 0 ELSE Cell(buf, pos)

peekBytes(length) ==
  LET count == Min({buf.available, length})
  IN  IF count < _size - buf.head THEN [i \in 1 .. count |-> buf.cells[i - 1]]
                                  ELSE [i \in 1 .. count |-> peek(i - 1)]

length_front == LengthOf(Cell(buf, 0))
length_back == LengthOf(Cell(buf, buf.available - 1))
back == buf.cells[(buf.tail - 1) % _size]

sum == IF buf.available = 0 THEN 0
       ELSE FoldLeft(+, 0, [i \in 1 .. buf.available |-> peek(i - 1)])

average == IF buf.available = 0 THEN 0 ELSE sum \div buf.available

-----------------------------------------------------------------------------
\* The items, counted by the indexes.
Contents == [i \in 1 .. Turn(buf.tail - buf.head) |-> Item(Cell(buf, i - 1))]

\* The indexes and the count tell the same number of items, after any sound
\* uses: otherwise a later write() stores over an item or away from the end.
IndexesAgree ==
  kept /\ todo = <<>> => /\ buf.available \in 0 .. _size
          /\ buf.head \in 0 .. (2 * _size - 1)
          /\ buf.tail = Turn(buf.head + buf.available)

\* In its sound uses Circular_Buffer is a deque of capacity _size.
D == INSTANCE Deque WITH
       Capacity <- _size, kept <- kept,
       queue <- IF kept THEN Contents ELSE <<>>,
       moved <- IF kept THEN moved ELSE <<>>

IsDeque == D!Spec

\* The queries answer from the items and no other cell: the lengths at both
\* ends, the last item, the first values (where the block copy begins at the
\* first cell), and an average between the least and the greatest value.
QueriesAnswer ==
  kept /\ todo = <<>> /\ buf.available > 0 =>
    IF multi
    THEN /\ length_front = Contents[1].length
         /\ length_back = Last(Contents).length
         /\ Item(back) = Last(Contents)
         /\ \A key \in Keys : Found(key) = {} <=>
              \A i \in DOMAIN Contents : Contents[i].key # key
    ELSE /\ \A n \in 0 .. _size :
              LET count == Min({n, buf.available})
              IN  buf.head = 0 \/ count >= _size - buf.head =>
                    peekBytes(n) = SubSeq(Contents, 1, count)
         /\ average \in Min(ToSet(Contents)) .. Max(ToSet(Contents))

=============================================================================
