-------------------------------- MODULE Deque --------------------------------
(***************************************************************************)
(* What Circular_Buffer promises: a queue with two ends and a capacity.    *)
(* Pushing at one end of a full queue drops from the other.  A use outside *)
(* the promise ends it (kept becomes FALSE and nothing is known any more). *)
(***************************************************************************)
EXTENDS Integers, Sequences, SequencesExt, Functions

CONSTANT Capacity  \* how many items the queue can hold

VARIABLES
  queue,  \* the items, first to last
  moved,  \* the items that the last operation put in or took out
  kept    \* whether only promised uses were made

vars == <<queue, moved, kept>>

Init == queue = <<>> /\ moved = <<>> /\ kept = TRUE

First(s, n) == SubSeq(s, 1, IF n < Len(s) THEN n ELSE Len(s))
Final(s, n) == SubSeq(s, IF n < Len(s) THEN Len(s) - n + 1 ELSE 1, Len(s))

PushBack == queue' = Final(queue \o moved', Capacity)

PushFront == queue' = First(moved' \o queue, Capacity)

PopFront == \E n \in 0 .. Len(queue) :
  moved' = First(queue, n) /\ queue' = Final(queue, Len(queue) - n)

\* The item removed is the one returned.
PopBack ==
  /\ queue # <<>> /\ queue' = Front(queue) /\ moved' = <<Last(queue)>>

\* The same for a caller who does not look at what it is given.
DropBack == queue # <<>> /\ queue' = Front(queue) /\ moved' = <<>>

TakeOut == \E i \in DOMAIN queue :
  moved' = <<queue[i]>> /\ queue' = RemoveAt(queue, i)

Replace == \E i \in DOMAIN queue :
  Len(moved') = 1 /\ queue' = [queue EXCEPT ![i] = moved'[1]]

\* t is s in ascending order.
InOrder(t, s) ==
  /\ DOMAIN t = DOMAIN s
  /\ \A i, j \in DOMAIN t : i < j => t[i] <= t[j]
  /\ \E p \in Injection(DOMAIN s, DOMAIN s) : \A i \in DOMAIN s : t[i] = s[p[i]]

Sort ==
  /\ moved' = <<>>
  /\ InOrder(queue', queue) \/ InOrder(Reverse(queue'), queue)

Clear == queue' = <<>> /\ moved' = <<>>

Keeps == \/ PushBack \/ PushFront \/ PopFront \/ PopBack \/ DropBack
         \/ TakeOut \/ Replace \/ Clear \/ Sort

Misuse == kept' = FALSE /\ queue' = <<>> /\ moved' = <<>>

Next == (Keeps /\ UNCHANGED kept) \/ Misuse

Spec == Init /\ [][Next]_vars

=============================================================================
