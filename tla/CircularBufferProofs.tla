------------------------ MODULE CircularBufferProofs ------------------------
(***************************************************************************)
(* Proofs about CircularBuffer: whatever the capacity, the indexes and the *)
(* count agree (IndexesAgree), the buffer is a deque (IsDeque), and the    *)
(* queries answer from its items (QueriesAnswer).                          *)
(***************************************************************************)
EXTENDS CircularBuffer, SequenceTheorems, WellFoundedInduction, TLAPS

-----------------------------------------------------------------------------
(* Arithmetic around the ring.                                             *)

LEMMA SizeFact == _size \in Nat \ {0}
  BY BufferAssumption

\* Any number of turns away.
LEMMA TurnsLemma ==
  ASSUME NEW n \in Nat \ {0}, NEW q \in Int, NEW r \in 0 .. n - 1
  PROVE  (n * q + r) % n = r
<1> DEFINE a == n * q + r
           p == a \div n
           m == a % n
<1>1. a \in Int /\ p \in Int /\ m \in 0 .. n - 1 /\ a = n * p + m
  OBVIOUS
<1>2. n * (q - p) = m - r
  <2> HIDE DEF p, m
  <2> QED
    BY <1>1
<1> HIDE DEF a, p, m
<1>3. -n < m - r /\ m - r < n
  BY <1>1
<1>4. CASE q - p >= 1
  <2>1. n * (q - p) >= n
    BY <1>1, <1>4
  <2> QED
    BY <1>1, <1>2, <1>3, <2>1
<1>5. CASE q - p <= -1
  <2>1. n * (q - p) <= -n
    BY <1>1, <1>5
  <2> QED
    BY <1>1, <1>2, <1>3, <2>1
<1>6. CASE q - p = 0
  <2>1. m = r
    BY <1>1, <1>2, <1>6
  <2> QED
    BY <2>1 DEF a, m
<1> QED
  BY <1>1, <1>4, <1>5, <1>6

LEMMA ModSum ==
  ASSUME NEW n \in Nat \ {0}, NEW x \in Int, NEW y \in Int
  PROVE  ((x % n) + y) % n = (x + y) % n
<1> DEFINE m == x % n
           q == x \div n
           a == x + y
           p == a \div n
           r == a % n
           w == p - q
<1>1. m \in Int /\ q \in Int /\ x = n * q + m
  OBVIOUS
<1>2. p \in Int /\ r \in 0 .. n - 1 /\ a = n * p + r
  OBVIOUS
<1>3. a = x + y
  OBVIOUS
<1> HIDE DEF m, q, a, p, r
<1>4. n * w = n * p - n * q /\ w \in Int
  BY <1>1, <1>2
<1>5. m + y = n * w + r
  BY <1>1, <1>2, <1>3, <1>4
<1> HIDE DEF w
<1>6. (n * w + r) % n = r
  BY <1>2, <1>4, TurnsLemma
<1> QED
  BY <1>5, <1>6 DEF a, r, m

\* Turning an index changes no cell.
LEMMA SameCell ==
  ASSUME NEW x \in Int, NEW i \in Int
  PROVE  (Turn(x) + i) % _size = (x + i) % _size
<1> DEFINE n == _size
           q == x \div (2 * n)
           y == x % (2 * n)
           a == x + i
           p == a \div n
           r == a % n
           w == p - 2 * q
<1>1. n \in Nat \ {0}
  BY SizeFact
<1>2. 2 * n \in Nat \ {0}
  BY <1>1
<1>3. q \in Int /\ y \in Int /\ x = (2 * n) * q + y
  <2> DEFINE m == 2 * n
  <2>1. m \in Nat \ {0}
    BY <1>2
  <2> HIDE DEF m
  <2>2. x \div m \in Int /\ x % m \in Int /\ x = (m * (x \div m)) + (x % m)
    BY <2>1
  <2> QED
    BY <2>2 DEF m
<1>4. p \in Int /\ r \in 0 .. n - 1 /\ a = n * p + r
  BY <1>1
<1>5. a = x + i
  OBVIOUS
<1> HIDE DEF q, y, a, p, r
<1>6. n * w = n * p - (2 * n) * q /\ w \in Int
  BY <1>1, <1>3, <1>4
<1>7. y + i = n * w + r
  BY <1>1, <1>3, <1>4, <1>5, <1>6
<1> HIDE DEF w
<1>8. (n * w + r) % n = r
  BY <1>1, <1>4, <1>6, TurnsLemma
<1> QED
  BY <1>7, <1>8 DEF Turn, a, r, y

\* The distance of two indexes that are moved and turned by themselves.
LEMMA MovedLemma ==
  ASSUME NEW n \in Nat \ {0}, NEW t \in Int, NEW h \in Int, NEW i \in Int,
         NEW j \in Int, ((t - h) % n) + i - j \in 0 .. n - 1
  PROVE  (((t + i) % n) - ((h + j) % n)) % n = ((t - h) % n) + i - j
<1> DEFINE a == t + i
           c == h + j
           d == t - h
           u == a % n
           v == c % n
           m == d % n
           p == a \div n
           s == c \div n
           w == d \div n
           r == m + i - j
           q == (w + s) - p
<1>1. /\ u \in Int /\ v \in Int /\ m \in Int /\ p \in Int /\ s \in Int /\ w \in Int
      /\ a = n * p + u /\ c = n * s + v /\ d = n * w + m
  OBVIOUS
<1>2. d = t - h /\ a = t + i /\ c = h + j
  OBVIOUS
<1>3. r \in 0 .. n - 1
  OBVIOUS
<1> HIDE DEF a, c, d, u, v, m, p, s, w
<1>4. u - v = (n * w - n * p) + n * s + r
  BY <1>1, <1>2
<1>5. n * q = (n * w - n * p) + n * s
  BY <1>1
<1>6. u - v = n * q + r /\ q \in Int
  BY <1>1, <1>3, <1>4, <1>5
<1>7. (n * q + r) % n = r
  BY <1>3, <1>6, TurnsLemma
<1> QED
  BY <1>6, <1>7 DEF a, c, d, u, v, m

\* i % n, one turn back to two turns on.
LEMMA ModLemma ==
  ASSUME NEW n \in Nat \ {0}, NEW i \in -n .. 3 * n - 1
  PROVE  /\ i % n \in 0 .. n - 1
         /\ i % n = IF i < 0 THEN i + n ELSE IF i < n THEN i
                    ELSE IF i < 2 * n THEN i - n ELSE i - 2 * n
<1>1. CASE i < 0
  BY <1>1
<1>2. CASE 0 <= i /\ i < n
  BY <1>2
<1>3. CASE n <= i /\ i < 2 * n
  BY <1>3
<1>4. CASE 2 * n <= i
  BY <1>4
<1> QED
  BY <1>1, <1>2, <1>3, <1>4

\* The indexes.
LEMMA TurnLemma ==
  ASSUME NEW i \in -2 * _size .. 4 * _size - 1
  PROVE  /\ Turn(i) \in 0 .. 2 * _size - 1
         /\ Turn(i) = IF i < 0 THEN i + 2 * _size
                      ELSE IF i < 2 * _size THEN i ELSE i - 2 * _size
<1> DEFINE n == 2 * _size
<1>1. n \in Nat \ {0} /\ i \in -n .. 3 * n - 1 /\ i < 2 * n
  BY SizeFact
<1>2. Turn(i) = i % n
  BY DEF Turn
<1> HIDE DEF n
<1>3. i % n \in 0 .. n - 1 /\ i % n = IF i < 0 THEN i + n ELSE IF i < n THEN i ELSE i - n
  BY <1>1, ModLemma
<1> QED
  BY <1>2, <1>3 DEF n

\* The cells.
LEMMA CellLemma ==
  ASSUME NEW i \in -_size .. 3 * _size - 1
  PROVE  /\ i % _size \in 0 .. _size - 1
         /\ i % _size = IF i < 0 THEN i + _size ELSE IF i < _size THEN i
                        ELSE IF i < 2 * _size THEN i - _size ELSE i - 2 * _size
  BY SizeFact, ModLemma


\* Two of n cells in a row are different.
LEMMA DistinctLemma ==
  ASSUME NEW n \in Nat \ {0}, NEW h \in 0 .. 2 * n - 1,
         NEW i \in 0 .. n - 1, NEW j \in 0 .. n - 1, (h + i) % n = (h + j) % n
  PROVE  i = j
<1> DEFINE u == h + i
           v == h + j
<1>1. u \in 0 .. 3 * n - 1 /\ v \in 0 .. 3 * n - 1 /\ u - v = i - j
  OBVIOUS
<1>2. -n < u - v /\ u - v < n
  BY <1>1
<1>3. u % n = v % n
  OBVIOUS
<1> HIDE DEF u, v
<1>4. CASE u < n /\ v < n
  BY <1>1, <1>3, <1>4
<1>5. CASE u < n /\ n <= v /\ v < 2 * n
  <2>1. u % n = u /\ v % n = v - n
    BY <1>1, <1>5
  <2> QED
    BY <1>1, <1>2, <1>3, <2>1
<1>6. CASE n <= u /\ u < 2 * n /\ v < n
  <2>1. u % n = u - n /\ v % n = v
    BY <1>1, <1>6
  <2> QED
    BY <1>1, <1>2, <1>3, <2>1
<1>7. CASE n <= u /\ u < 2 * n /\ n <= v /\ v < 2 * n
  <2>1. u % n = u - n /\ v % n = v - n
    BY <1>1, <1>7
  <2> QED
    BY <1>1, <1>2, <1>3, <2>1
<1>8. CASE n <= u /\ u < 2 * n /\ 2 * n <= v
  <2>1. u % n = u - n /\ v % n = v - 2 * n
    BY <1>1, <1>8
  <2> QED
    BY <1>1, <1>2, <1>3, <2>1
<1>9. CASE 2 * n <= u /\ n <= v /\ v < 2 * n
  <2>1. u % n = u - 2 * n /\ v % n = v - n
    BY <1>1, <1>9
  <2> QED
    BY <1>1, <1>2, <1>3, <2>1
<1>10. CASE 2 * n <= u /\ 2 * n <= v
  <2>1. u % n = u - 2 * n /\ v % n = v - 2 * n
    BY <1>1, <1>10
  <2> QED
    BY <1>1, <1>2, <1>3, <2>1
<1> QED
  BY <1>1, <1>2, <1>4, <1>5, <1>6, <1>7, <1>8, <1>9, <1>10

-----------------------------------------------------------------------------
(* Buffers whose indexes count at most _size items.                        *)

CellSet == IF multi THEN [key : Keys \cup {0}, high : Nat, low : Nat]
                    ELSE Values \cup {0}
Items == {Item(c) : c \in CellSet}

Rings == [head : 0 .. 2 * _size - 1, tail : 0 .. 2 * _size - 1,
          available : 0 .. _size, cells : [0 .. _size - 1 -> CellSet]]

Count(b) == Turn(b.tail - b.head)

Holds(b) == b \in Rings /\ Count(b) <= _size

ContentsOf(b) == [i \in 1 .. Count(b) |-> Item(Cell(b, i - 1))]

LEMMA CountLemma ==
  ASSUME NEW b \in Rings
  PROVE  /\ Count(b) \in 0 .. 2 * _size - 1
         /\ Count(b) = IF b.tail >= b.head THEN b.tail - b.head
                       ELSE b.tail - b.head + 2 * _size
  BY SizeFact, TurnLemma DEF Rings, Count

\* What the count is when the indexes have moved.
LEMMA MovedCount ==
  ASSUME NEW b \in Rings, NEW c \in Rings, NEW i \in Int, NEW j \in Int,
         c.tail = Turn(b.tail + i), c.head = Turn(b.head + j),
         Count(b) + i - j \in 0 .. 2 * _size - 1
  PROVE  Count(c) = Count(b) + i - j
<1> DEFINE n == 2 * _size
<1>1. n \in Nat \ {0} /\ b.tail \in Int /\ b.head \in Int
  BY SizeFact DEF Rings
<1>2. /\ ((b.tail - b.head) % n) + i - j \in 0 .. n - 1
      /\ Count(c) = (((b.tail + i) % n) - ((b.head + j) % n)) % n
      /\ Count(b) = (b.tail - b.head) % n
  BY DEF Count, Turn
<1> HIDE DEF n
<1> QED
  BY <1>1, <1>2, MovedLemma

\* A buffer is full when the two indexes differ in the highest bit only.
LEMMA FullLemma ==
  ASSUME NEW b, Holds(b)
  PROVE  Full(b) <=> Count(b) = _size
<1>1. b.head \in 0 .. 2 * _size - 1 /\ b.tail \in 0 .. 2 * _size - 1
  BY DEF Holds, Rings
<1>2. Turn(b.head + _size) = IF b.head < _size THEN b.head + _size
                             ELSE b.head - _size
  BY <1>1, SizeFact, TurnLemma
<1> QED
  BY <1>1, <1>2, SizeFact, CountLemma DEF Full, Holds

Place(b, i) == (b.head + i) % _size

\* The cells of the items are different ones, and the tail is at the next.
LEMMA PlaceLemma ==
  ASSUME NEW b \in Rings
  PROVE  /\ \A i \in 0 .. _size - 1 : Place(b, i) \in 0 .. _size - 1
         /\ \A i, j \in 0 .. _size - 1 : Place(b, i) = Place(b, j) => i = j
         /\ b.tail % _size \in 0 .. _size - 1
         /\ b.tail % _size = Place(b, Count(b))
         /\ Place(b, _size) = Place(b, 0)
<1> USE DEF Place
<1>1. b.head \in 0 .. 2 * _size - 1 /\ b.tail \in 0 .. 2 * _size - 1
  BY DEF Rings
<1>2. \A i \in 0 .. _size - 1 :
        /\ (b.head + i) % _size \in 0 .. _size - 1
        /\ (b.head + i) % _size =
             IF b.head + i < _size THEN b.head + i
             ELSE IF b.head + i < 2 * _size THEN (b.head + i) - _size
             ELSE (b.head + i) - (2 * _size)
  <2> SUFFICES ASSUME NEW i \in 0 .. _size - 1
               PROVE  /\ (b.head + i) % _size \in 0 .. _size - 1
                      /\ (b.head + i) % _size =
                           IF b.head + i < _size THEN b.head + i
                           ELSE IF b.head + i < 2 * _size THEN (b.head + i) - _size
                           ELSE (b.head + i) - (2 * _size)
    OBVIOUS
  <2> DEFINE k == b.head + i
  <2>1. k \in 0 .. 3 * _size - 1
    BY <1>1, SizeFact
  <2>2. k \in -_size .. 3 * _size - 1 /\ ~(k < 0)
    BY <2>1, SizeFact
  <2> HIDE DEF k
  <2>3. /\ k % _size \in 0 .. _size - 1
        /\ k % _size = IF k < _size THEN k
                       ELSE IF k < 2 * _size THEN k - _size ELSE k - 2 * _size
    BY <2>2, CellLemma
  <2> QED
    BY <2>3 DEF k
<1>3. /\ b.tail % _size \in 0 .. _size - 1
      /\ b.tail % _size = IF b.tail < _size THEN b.tail ELSE b.tail - _size
  BY <1>1, SizeFact, CellLemma
<1>4. b.tail % _size = (b.head + Count(b)) % _size
  <2>1. CASE b.tail >= b.head
    BY <1>1, <2>1, CountLemma, SizeFact
  <2>2. CASE ~(b.tail >= b.head)
    <3>1. b.head + Count(b) = b.tail + 2 * _size
      BY <1>1, <2>2, CountLemma, SizeFact
    <3>2. CASE b.tail < _size
      BY <1>1, <1>3, <3>1, <3>2, SizeFact, CellLemma
    <3>3. CASE ~(b.tail < _size)
      <4>1. (b.tail + 2 * _size) % _size = b.tail - _size
        BY <1>1, <3>3, SizeFact
      <4> QED
        BY <1>3, <3>1, <3>3, <4>1
    <3> QED
      BY <3>2, <3>3
  <2> QED
    BY <2>1, <2>2
<1>5. ASSUME NEW i \in 0 .. _size - 1, NEW j \in 0 .. _size - 1,
             (b.head + i) % _size = (b.head + j) % _size
      PROVE  i = j
  BY <1>1, <1>5, SizeFact, DistinctLemma
<1>6. (b.head + _size) % _size = (b.head + 0) % _size
  <2> DEFINE h == b.head
  <2>1. h \in 0 .. 2 * _size - 1
    BY <1>1
  <2> HIDE DEF h
  <2>2. CASE h < _size
    <3>1. /\ h + _size = _size * 1 + h /\ h + 0 = _size * 0 + h
          /\ h \in 0 .. _size - 1
      BY <2>1, <2>2, SizeFact
    <3>2. (_size * 1 + h) % _size = h /\ (_size * 0 + h) % _size = h
      BY <3>1, SizeFact, TurnsLemma
    <3> QED
      BY <3>1, <3>2 DEF h
  <2>3. CASE ~(h < _size)
    <3> DEFINE r == h - _size
    <3>1. /\ h + _size = _size * 2 + r /\ h + 0 = _size * 1 + r
          /\ r \in 0 .. _size - 1
      BY <2>1, <2>3, SizeFact
    <3> HIDE DEF r
    <3>2. (_size * 2 + r) % _size = r /\ (_size * 1 + r) % _size = r
      BY <3>1, SizeFact, TurnsLemma
    <3> QED
      BY <3>1, <3>2 DEF h
  <2> QED
    BY <2>2, <2>3
<1> QED
  BY <1>2, <1>3, <1>4, <1>5, <1>6

LEMMA PlacesMoved ==
  ASSUME NEW b \in Rings, NEW c, NEW k \in Int, c.head = Turn(b.head + k)
  PROVE  \A i \in Int : Place(c, i) = Place(b, i + k)
<1> SUFFICES ASSUME NEW i \in Int
             PROVE  Place(c, i) = Place(b, i + k)
  OBVIOUS
<1>1. b.head \in Int
  BY DEF Rings
<1>2. b.head + k \in Int /\ (b.head + k) + i = b.head + (i + k)
  BY <1>1
<1>3. (Turn(b.head + k) + i) % _size = ((b.head + k) + i) % _size
  BY <1>2, SameCell
<1> QED
  BY <1>2, <1>3 DEF Place

LEMMA ContentsLemma ==
  ASSUME NEW b, Holds(b)
  PROVE  /\ Count(b) \in 0 .. _size
         /\ ContentsOf(b) \in Seq(Items) /\ Len(ContentsOf(b)) = Count(b)
         /\ \A i \in 1 .. Count(b) : ContentsOf(b)[i] = Item(Cell(b, i - 1))
<1>1. Count(b) \in 0 .. _size
  BY CountLemma, SizeFact DEF Holds
<1>2. \A i \in 1 .. Count(b) : Item(Cell(b, i - 1)) \in Items
  <2> SUFFICES ASSUME NEW i \in 1 .. Count(b)
               PROVE  Item(Cell(b, i - 1)) \in Items
    OBVIOUS
  <2>1. i - 1 \in 0 .. _size - 1
    BY <1>1, SizeFact
  <2>2. Cell(b, i - 1) \in CellSet
    BY <2>1, PlaceLemma DEF Holds, Rings, Cell, Place
  <2> QED
    BY <2>2 DEF Items
<1> DEFINE e(i) == Item(Cell(b, i - 1))
           n == Count(b)
<1>3. ContentsOf(b) = [i \in 1 .. n |-> e(i)]
  BY DEF ContentsOf
<1>4. n \in Nat /\ \A i \in 1 .. n : e(i) \in Items
  BY <1>1, <1>2, SizeFact
<1> HIDE DEF e, n
<1>5. [i \in 1 .. n |-> e(i)] \in Seq(Items) /\ Len([i \in 1 .. n |-> e(i)]) = n
  BY <1>4
<1>6. \A i \in 1 .. n : [j \in 1 .. n |-> e(j)][i] = e(i)
  OBVIOUS
<1>7. /\ ContentsOf(b) \in Seq(Items) /\ Len(ContentsOf(b)) = n
      /\ \A i \in 1 .. n : ContentsOf(b)[i] = e(i)
  BY <1>3, <1>5, <1>6
<1> QED
  BY <1>1, <1>7 DEF e, n

-----------------------------------------------------------------------------
(* What the operations on one item do to the indexes and the items.        *)

LEMMA WrittenLemma ==
  ASSUME NEW b, Holds(b), NEW x \in CellSet, NEW k \in 0 .. 1,
         k = IF Count(b) = _size THEN 1 ELSE 0
  PROVE  LET c == Written(b, x)
         IN  /\ Holds(c) /\ c.available = OneMore(b)
             /\ Count(c) = Count(b) + 1 - k
             /\ Cell(c, Count(b) - k) = x
             /\ \A i \in 0 .. Count(b) - k - 1 : Cell(c, i) = Cell(b, i + k)
<1> DEFINE c == Written(b, x)
           n == Count(b)
<1>1. /\ b.head \in 0 .. 2 * _size - 1 /\ b.tail \in 0 .. 2 * _size - 1
      /\ b.available \in 0 .. _size /\ b.cells \in [0 .. _size - 1 -> CellSet]
      /\ b \in Rings
  BY DEF Holds, Rings
<1>2. n \in 0 .. _size /\ (Full(b) <=> n = _size)
  BY <1>1, CountLemma, FullLemma, SizeFact DEF Holds
<1>3. /\ Turn(b.tail + 1) \in 0 .. 2 * _size - 1
      /\ Turn(b.head + 1) \in 0 .. 2 * _size - 1 /\ b.head = Turn(b.head + 0)
  BY <1>1, SizeFact, TurnLemma
<1>4. OneMore(b) \in 0 .. _size
  BY <1>1, SizeFact DEF OneMore
<1>5. b.tail % _size \in 0 .. _size - 1
  BY <1>1, PlaceLemma
<1>6. /\ c \in Rings /\ c.available = OneMore(b)
      /\ c.tail = Turn(b.tail + 1)
      /\ c.head = IF Full(b) THEN Turn(b.head + 1) ELSE b.head
      /\ c.cells = [b.cells EXCEPT ![b.tail % _size] = x]
  BY <1>1, <1>3, <1>4, <1>5 DEF Rings, Written
<1>7. c.head = Turn(b.head + k)
  BY <1>2, <1>3, <1>6
<1> HIDE DEF c
<1>8. Count(c) = Count(b) + 1 - k
  <2>1. Count(b) + 1 - k \in 0 .. 2 * _size - 1
    BY <1>2, SizeFact
  <2> QED
    BY <1>1, <1>6, <1>7, <2>1, MovedCount
<1>9. Holds(c)
  BY <1>2, <1>6, <1>8, SizeFact DEF Holds
<1>10. \A i \in Int : Place(c, i) = Place(b, i + k)
  BY <1>1, <1>7, PlacesMoved
<1>11. Cell(c, n - k) = x
  <2>1. Place(c, n - k) = b.tail % _size
    <3>1. (n - k) + k = n /\ n - k \in Int
      BY <1>2, SizeFact
    <3> QED
      BY <1>1, <1>10, <3>1, PlaceLemma
  <2> QED
    BY <1>1, <1>5, <1>6, <2>1 DEF Cell, Place
<1>12. ASSUME NEW i \in 0 .. n - k - 1
       PROVE  Cell(c, i) = Cell(b, i + k)
  <2>1. i \in Int /\ i + k \in 0 .. _size - 1
    BY <1>2, SizeFact
  <2>2. Place(b, i + k) # b.tail % _size
    <3>1. CASE n = _size
      <4>1. i + k # 0 /\ 0 \in 0 .. _size - 1
        BY <3>1, SizeFact
      <4> QED
        BY <1>1, <2>1, <3>1, <4>1, PlaceLemma
    <3>2. CASE n # _size
      <4>1. i + k # n /\ n \in 0 .. _size - 1
        BY <1>2, <3>2, SizeFact
      <4> QED
        BY <1>1, <2>1, <4>1, PlaceLemma
    <3> QED
      BY <3>1, <3>2
  <2>3. Place(b, i + k) \in 0 .. _size - 1
    BY <1>1, <2>1, PlaceLemma
  <2>4. Place(c, i) = Place(b, i + k)
    BY <1>10, <2>1
  <2> QED
    BY <1>1, <1>6, <2>2, <2>3, <2>4 DEF Cell, Place
<1> QED
  BY <1>6, <1>8, <1>9, <1>11, <1>12 DEF c

LEMMA PutFirstLemma ==
  ASSUME NEW b, Holds(b), Count(b) < _size, NEW x \in CellSet
  PROVE  LET c == PutFirst(b, x)
         IN  /\ Holds(c) /\ c.available = OneMore(b)
             /\ Count(c) = Count(b) + 1
             /\ Cell(c, 0) = x
             /\ \A i \in 1 .. Count(b) : Cell(c, i) = Cell(b, i - 1)
<1> DEFINE c == PutFirst(b, x)
           h == Turn(b.head - 1)
<1>1. /\ b.head \in 0 .. 2 * _size - 1 /\ b.tail \in 0 .. 2 * _size - 1
      /\ b.available \in 0 .. _size /\ b.cells \in [0 .. _size - 1 -> CellSet]
      /\ b \in Rings
  BY DEF Holds, Rings
<1>2. Count(b) \in 0 .. _size - 1
  BY <1>1, CountLemma, SizeFact
<1>3. /\ h \in 0 .. 2 * _size - 1 /\ h = Turn(b.head + (-1))
      /\ b.tail = Turn(b.tail + 0)
  <2>1. b.head - 1 \in -2 * _size .. 4 * _size - 1
        /\ b.tail \in -2 * _size .. 4 * _size - 1
        /\ b.head - 1 = b.head + (-1) /\ b.tail + 0 = b.tail
    BY <1>1, SizeFact
  <2> QED
    BY <1>1, <2>1, SizeFact, TurnLemma
<1>4. OneMore(b) \in 0 .. _size
  BY <1>1, SizeFact DEF OneMore
<1>5. h % _size \in 0 .. _size - 1
  BY <1>3, SizeFact, CellLemma
<1> HIDE DEF h
<1>6. /\ c \in Rings /\ c.available = OneMore(b) /\ c.tail = b.tail /\ c.head = h
      /\ c.cells = [b.cells EXCEPT ![h % _size] = x]
  BY <1>1, <1>3, <1>4, <1>5 DEF Rings, PutFirst, h
<1> HIDE DEF c
<1>7. Count(c) = Count(b) + 1
  <2>1. /\ Count(b) + 0 - (-1) \in 0 .. 2 * _size - 1
        /\ Count(b) + 0 - (-1) = Count(b) + 1
    BY <1>2, SizeFact
  <2>2. Count(c) = Count(b) + 0 - (-1)
    BY <1>1, <1>3, <1>6, <2>1, MovedCount
  <2> QED
    BY <2>1, <2>2
<1>8. Holds(c)
  BY <1>2, <1>6, <1>7, SizeFact DEF Holds
<1>9. h % _size = Place(c, 0)
  <2>1. h + 0 = h
    BY <1>3
  <2> QED
    BY <1>6, <2>1 DEF Place
<1>10. Cell(c, 0) = x
  BY <1>1, <1>5, <1>6, <1>9 DEF Cell, Place
<1>11. ASSUME NEW i \in 1 .. Count(b)
       PROVE  Cell(c, i) = Cell(b, i - 1)
  <2>1. /\ i \in 0 .. _size - 1 /\ i # 0 /\ 0 \in 0 .. _size - 1
        /\ i + (-1) = i - 1 /\ i \in Int
    BY <1>2, SizeFact
  <2>2. Place(c, i) # h % _size /\ Place(c, i) \in 0 .. _size - 1
    BY <1>6, <1>9, <2>1, PlaceLemma
  <2>3. Place(c, i) = Place(b, i - 1)
    BY <1>1, <1>3, <1>6, <2>1, PlacesMoved
  <2> QED
    BY <1>1, <1>6, <2>2, <2>3 DEF Cell, Place
<1> QED
  BY <1>6, <1>7, <1>8, <1>10, <1>11 DEF c

\* The head moves on by k items.
Advanced(b, a, k) == [b EXCEPT !.available = a, !.head = Turn(@ + k)]

LEMMA AdvancedLemma ==
  ASSUME NEW b, Holds(b), NEW k \in 0 .. Count(b), NEW a \in 0 .. _size
  PROVE  LET c == Advanced(b, a, k)
         IN  /\ Holds(c) /\ c.available = a
             /\ Count(c) = Count(b) - k
             /\ \A i \in Int : Cell(c, i) = Cell(b, i + k)
<1> DEFINE c == Advanced(b, a, k)
           x == b.head + k
<1>1. /\ b.head \in 0 .. 2 * _size - 1 /\ b.tail \in 0 .. 2 * _size - 1
      /\ b.available \in 0 .. _size /\ b.cells \in [0 .. _size - 1 -> CellSet]
      /\ b \in Rings
  BY DEF Holds, Rings
<1>2. Count(b) \in 0 .. _size /\ k \in 0 .. _size
  <2>1. Count(b) \in 0 .. _size
    BY <1>1, CountLemma, SizeFact DEF Holds
  <2> QED
    BY <2>1, SizeFact
<1>3. Turn(x) \in 0 .. 2 * _size - 1 /\ b.tail = Turn(b.tail + 0)
  <2>1. x \in -2 * _size .. 4 * _size - 1 /\ b.tail + 0 = b.tail
    BY <1>1, <1>2, SizeFact
  <2> HIDE DEF x
  <2> QED
    BY <1>1, <2>1, SizeFact, TurnLemma
<1>4. /\ c \in Rings /\ c.available = a /\ c.tail = b.tail
      /\ c.head = Turn(b.head + k) /\ c.cells = b.cells
  BY <1>1, <1>3 DEF Rings, Advanced
<1> HIDE DEF c, x
<1>5. Count(c) = Count(b) - k
  <2>1. /\ Count(b) + 0 - k \in 0 .. 2 * _size - 1
        /\ Count(b) + 0 - k = Count(b) - k
    BY <1>2, SizeFact
  <2>2. Count(c) = Count(b) + 0 - k
    BY <1>1, <1>2, <1>3, <1>4, <2>1, MovedCount
  <2> QED
    BY <2>1, <2>2
<1>6. Holds(c)
  BY <1>2, <1>4, <1>5, SizeFact DEF Holds
<1>7. ASSUME NEW i \in Int
      PROVE  Cell(c, i) = Cell(b, i + k)
  <2>1. Place(c, i) = Place(b, i + k)
    BY <1>1, <1>2, <1>4, PlacesMoved
  <2> QED
    BY <1>4, <2>1 DEF Cell, Place
<1> QED
  BY <1>4, <1>5, <1>6, <1>7 DEF c

LEMMA DroppedLemma ==
  ASSUME NEW b, Holds(b), Count(b) > 0
  PROVE  LET c == Dropped(b)
         IN  /\ Holds(c) /\ c.available = OneLess(b)
             /\ Count(c) = Count(b) - 1
             /\ \A i \in Int : Cell(c, i) = Cell(b, i + 1)
<1>1. Count(b) \in 0 .. _size /\ b.available \in 0 .. _size
  BY CountLemma, SizeFact DEF Holds, Rings
<1>2. OneLess(b) \in 0 .. _size /\ 1 \in 0 .. Count(b)
  BY <1>1, SizeFact DEF OneLess
<1> QED
  <2>1. Dropped(b) = Advanced(b, OneLess(b), 1)
    BY DEF Dropped, Advanced
  <2> QED
    BY <1>2, <2>1, AdvancedLemma

\* The tail moves back: pop_back(), with either count.
LEMMA ShortenedLemma ==
  ASSUME NEW b, Holds(b), Count(b) > 0, NEW a \in 0 .. _size
  PROVE  LET c == [b EXCEPT !.tail = Turn(@ - 1), !.available = a]
         IN  /\ Holds(c) /\ c.available = a /\ c.head = b.head
             /\ Count(c) = Count(b) - 1
             /\ \A i \in Int : Cell(c, i) = Cell(b, i)
             /\ b.cells[(b.tail - 1) % _size] = Cell(b, Count(b) - 1)
<1> DEFINE c == [b EXCEPT !.tail = Turn(@ - 1), !.available = a]
<1>1. /\ b.head \in 0 .. 2 * _size - 1 /\ b.tail \in 0 .. 2 * _size - 1
      /\ b.available \in 0 .. _size /\ b.cells \in [0 .. _size - 1 -> CellSet]
      /\ b \in Rings
  BY DEF Holds, Rings
<1>2. Count(b) \in 1 .. _size
  BY <1>1, CountLemma, SizeFact DEF Holds
<1>3. /\ Turn(b.tail - 1) \in 0 .. 2 * _size - 1
      /\ Turn(b.tail - 1) = Turn(b.tail + (-1)) /\ b.head = Turn(b.head + 0)
  <2>1. b.tail - 1 \in -2 * _size .. 4 * _size - 1
        /\ b.head \in -2 * _size .. 4 * _size - 1
        /\ b.tail - 1 = b.tail + (-1) /\ b.head + 0 = b.head
    BY <1>1, SizeFact
  <2> QED
    BY <1>1, <2>1, SizeFact, TurnLemma
<1>4. /\ c \in Rings /\ c.available = a /\ c.head = b.head
      /\ c.tail = Turn(b.tail - 1) /\ c.cells = b.cells
  BY <1>1, <1>3 DEF Rings
<1> HIDE DEF c
<1>5. Count(c) = Count(b) - 1
  <2>1. /\ Count(b) + (-1) - 0 \in 0 .. 2 * _size - 1
        /\ Count(b) + (-1) - 0 = Count(b) - 1
    BY <1>2, SizeFact
  <2>2. Count(c) = Count(b) + (-1) - 0
    BY <1>1, <1>3, <1>4, <2>1, MovedCount
  <2> QED
    BY <2>1, <2>2
<1>6. Holds(c)
  BY <1>2, <1>4, <1>5, SizeFact DEF Holds
<1>7. \A i \in Int : Cell(c, i) = Cell(b, i)
  BY <1>4 DEF Cell
<1>8. b.cells[(b.tail - 1) % _size] = Cell(b, Count(b) - 1)
  <2>1. c.tail % _size = Place(c, Count(c))
    BY <1>4, PlaceLemma
  <2>2. (Turn(b.tail - 1) + 0) % _size = ((b.tail - 1) + 0) % _size
    <3> DEFINE t == b.tail - 1
    <3>1. t \in Int
      BY <1>1
    <3> HIDE DEF t
    <3>2. (Turn(t) + 0) % _size = (t + 0) % _size
      BY <3>1, SameCell
    <3> QED
      BY <3>2 DEF t
  <2>3. Turn(b.tail - 1) + 0 = Turn(b.tail - 1) /\ (b.tail - 1) + 0 = b.tail - 1
    BY <1>1, <1>3
  <2> QED
    BY <1>4, <1>5, <2>1, <2>2, <2>3 DEF Cell, Place
<1> QED
  BY <1>4, <1>5, <1>6, <1>7, <1>8 DEF c

-----------------------------------------------------------------------------
(* What the operations on several items do.                                *)

\* From a cell back to the place of its item.
LEMMA OffsetLemma ==
  ASSUME NEW b \in Rings
  PROVE  /\ \A i \in 0 .. _size - 1 : (Place(b, i) - b.head) % _size = i
         /\ \A i \in Int : (Place(b, i) - 1) % _size = Place(b, i - 1)
         /\ \A k \in 0 .. _size - 1 :
              /\ (k - b.head) % _size \in 0 .. _size - 1
              /\ Place(b, (k - b.head) % _size) = k
<1> DEFINE h == b.head
           n == _size
<1>1. h \in Int /\ n \in Nat \ {0}
  BY SizeFact DEF Rings
<1> HIDE DEF h, n
<1>2. ASSUME NEW i \in 0 .. n - 1
      PROVE  (((h + i) % n) - h) % n = i
  <2> DEFINE x == h + i
             y == -h
  <2>1. x \in Int /\ y \in Int /\ x + y = i /\ i % n = i
    BY <1>1
  <2>2. ((h + i) % n) - h = (x % n) + y
    BY <1>1
  <2> HIDE DEF x, y
  <2>3. ((x % n) + y) % n = (x + y) % n
    BY <1>1, <2>1, ModSum
  <2> QED
    BY <2>1, <2>2, <2>3
<1>3. ASSUME NEW i \in Int
      PROVE  (((h + i) % n) - 1) % n = (h + (i - 1)) % n
  <2> DEFINE x == h + i
             y == -1
  <2>1. x \in Int /\ y \in Int /\ x + y = h + (i - 1)
    BY <1>1
  <2>2. ((h + i) % n) - 1 = (x % n) + y
    BY <1>1
  <2> HIDE DEF x, y
  <2>3. ((x % n) + y) % n = (x + y) % n
    BY <1>1, <2>1, ModSum
  <2> QED
    BY <2>1, <2>2, <2>3
<1>4. ASSUME NEW k \in 0 .. n - 1
      PROVE  (k - h) % n \in 0 .. n - 1 /\ (h + ((k - h) % n)) % n = k
  <2>1. (k - h) % n \in 0 .. n - 1
    BY <1>1
  <2> DEFINE x == k - h
  <2>2. x \in Int /\ x + h = k /\ k % n = k
    BY <1>1
  <2>3. h + ((k - h) % n) = (x % n) + h
    BY <1>1
  <2> HIDE DEF x
  <2>4. ((x % n) + h) % n = (x + h) % n
    BY <1>1, <2>2, ModSum
  <2> QED
    BY <2>1, <2>2, <2>3, <2>4
<1> QED
  BY <1>2, <1>3, <1>4 DEF Place, h, n

\* The values are copied behind the items, without a turn.
Copied(b, a, s) ==
  [b EXCEPT !.available = a, !.tail = Turn(@ + Len(s)),
            !.cells = [i \in DOMAIN @ |->
              IF i \in b.tail .. (b.tail + Len(s) - 1)
              THEN s[i - b.tail + 1] ELSE @[i]]]

LEMMA CopiedLemma ==
  ASSUME NEW b, Holds(b), NEW s \in Seq(Values), NEW a \in 0 .. _size,
         Len(s) < _size - b.tail, Count(b) + Len(s) <= _size, ~multi
  PROVE  LET n == Len(s)
             c == Copied(b, a, s)
         IN  /\ Holds(c) /\ c.available = a /\ c.head = b.head
             /\ Count(c) = Count(b) + n
             /\ \A i \in 0 .. Count(b) - 1 : Cell(c, i) = Cell(b, i)
             /\ \A i \in 1 .. n : Cell(c, Count(b) + i - 1) = s[i]
<1> DEFINE n == Len(s)
           m == Count(b)
           t == b.tail
           f == [i \in DOMAIN b.cells |->
                  IF i \in t .. (t + n - 1) THEN s[i - t + 1] ELSE b.cells[i]]
           c == Copied(b, a, s)
<1>1. /\ b.head \in 0 .. 2 * _size - 1 /\ t \in 0 .. 2 * _size - 1
      /\ b.available \in 0 .. _size /\ b.cells \in [0 .. _size - 1 -> CellSet]
      /\ b \in Rings
  BY DEF Holds, Rings
<1>2. /\ n \in Nat /\ n <= _size /\ t < _size /\ t + n < _size
      /\ m \in 0 .. _size /\ m + n <= _size
  <2>1. n \in Nat /\ m \in 0 .. _size
    BY <1>1, CountLemma, SizeFact DEF Holds
  <2> QED
    BY <1>1, <2>1, SizeFact
<1>3. /\ \A i \in 1 .. n : s[i] \in Values
      /\ c = [b EXCEPT !.available = a, !.tail = Turn(t + n), !.cells = f]
      /\ (\A i \in 0 .. _size - 1 :
            f[i] = IF i \in t .. (t + n - 1) THEN s[i - t + 1] ELSE b.cells[i])
      /\ DOMAIN f = 0 .. _size - 1
      /\ f = [i \in 0 .. _size - 1 |->
               IF i \in t .. (t + n - 1) THEN s[i - t + 1] ELSE b.cells[i]]
  <2>1. \A i \in 1 .. n : s[i] \in Values
    OBVIOUS
  <2>2. DOMAIN b.cells = 0 .. _size - 1
    BY <1>1
  <2>3. c = [b EXCEPT !.available = a, !.tail = Turn(t + n), !.cells = f]
    BY DEF Copied
  <2> HIDE DEF c
  <2>4. f = [i \in 0 .. _size - 1 |->
             IF i \in t .. (t + n - 1) THEN s[i - t + 1] ELSE b.cells[i]]
    BY <2>2
  <2> HIDE DEF f, n, t
  <2>5. /\ DOMAIN f = 0 .. _size - 1
        /\ \A i \in 0 .. _size - 1 :
             f[i] = IF i \in t .. (t + n - 1) THEN s[i - t + 1] ELSE b.cells[i]
    BY <2>4
  <2> QED
    BY <2>1, <2>3, <2>4, <2>5
<1>4. f \in [0 .. _size - 1 -> CellSet]
  <2> HIDE DEF n, t, f
  <2>1. ASSUME NEW i \in 0 .. _size - 1, i \in t .. (t + n - 1)
        PROVE  s[i - t + 1] \in CellSet
    <3>1. i - t + 1 \in 1 .. n
      BY <1>1, <1>2, <2>1, SizeFact
    <3> QED
      BY <1>3, <3>1 DEF CellSet
  <2> QED
    BY <1>1, <1>3, <2>1
<1> HIDE DEF n, m, t, f
<1>5. Turn(t + n) \in 0 .. 2 * _size - 1 /\ b.head = Turn(b.head + 0)
  <2> DEFINE k == t + n
  <2>1. /\ k \in -2 * _size .. 4 * _size - 1
        /\ b.head \in -2 * _size .. 4 * _size - 1 /\ b.head + 0 = b.head
        /\ 0 <= b.head /\ b.head < 2 * _size
    BY <1>1, <1>2, SizeFact
  <2> HIDE DEF k
  <2>2. Turn(k) \in 0 .. 2 * _size - 1 /\ Turn(b.head) = b.head
    BY <2>1, TurnLemma
  <2> QED
    BY <2>1, <2>2 DEF k
<1>6. /\ c \in Rings /\ c.available = a /\ c.head = b.head
      /\ c.tail = Turn(t + n) /\ c.cells = f
  BY <1>1, <1>3, <1>4, <1>5 DEF Rings
<1> HIDE DEF c
<1>7. Count(c) = m + n
  <2>1. m + n - 0 \in 0 .. 2 * _size - 1 /\ m + n - 0 = m + n
    BY <1>2, SizeFact
  <2>2. Count(c) = m + n - 0
    BY <1>1, <1>2, <1>5, <1>6, <2>1, MovedCount DEF m, t
  <2> QED
    BY <2>1, <2>2
<1>8. Holds(c)
  BY <1>2, <1>6, <1>7, SizeFact DEF Holds
<1>9. ASSUME NEW i \in 0 .. n - 1
      PROVE  Place(b, m + i) = t + i
  <2> DEFINE x == b.head + m
             k == t + i
  <2>1. /\ x \in Int /\ x + i = b.head + (m + i) /\ i \in Int
        /\ k \in 0 .. _size - 1 /\ t \in 0 .. _size - 1
    BY <1>1, <1>2, SizeFact
  <2>2. t % _size = Place(b, m)
    BY <1>1, PlaceLemma DEF m, t
  <2>3. t % _size = t
    BY <2>1, SizeFact
  <2>4. x % _size = t
    BY <2>2, <2>3 DEF Place
  <2> HIDE DEF x
  <2>5. ((x % _size) + i) % _size = (x + i) % _size
    <3> DEFINE z == _size
    <3>1. z \in Nat \ {0}
      BY SizeFact
    <3> HIDE DEF z
    <3>2. ((x % z) + i) % z = (x + i) % z
      BY <2>1, <3>1, ModSum
    <3> QED
      BY <3>2 DEF z
  <2>6. k % _size = k
    <3> HIDE DEF k
    <3> QED
      BY <2>1, SizeFact
  <2> QED
    BY <2>1, <2>4, <2>5, <2>6 DEF Place
<1>10. ASSUME NEW i \in 0 .. m - 1
       PROVE  Cell(c, i) = Cell(b, i)
  <2>0. i \in 0 .. _size - 1
    BY <1>2, SizeFact
  <2>1. Place(b, i) \in 0 .. _size - 1
    BY <1>1, <2>0, PlaceLemma
  <2>2. Place(b, i) \notin t .. (t + n - 1)
    <3> SUFFICES ASSUME Place(b, i) \in t .. (t + n - 1)
                 PROVE  FALSE
      OBVIOUS
    <3> DEFINE k == Place(b, i) - t
               j == m + k
    <3>1. k \in 0 .. n - 1 /\ t + k = Place(b, i)
      BY <1>1, <1>2, <2>1
    <3> HIDE DEF k
    <3>2. Place(b, j) = Place(b, i)
      BY <1>9, <3>1
    <3>3. j \in 0 .. _size - 1 /\ j # i
      BY <1>2, <3>1, SizeFact
    <3> HIDE DEF j
    <3> QED
      BY <1>1, <2>0, <3>2, <3>3, PlaceLemma
  <2> QED
    BY <1>3, <1>6, <2>1, <2>2 DEF Cell, Place
<1>11. ASSUME NEW i \in 1 .. n
       PROVE  Cell(c, m + i - 1) = s[i]
  <2> DEFINE k == i - 1
             j == t + k
  <2>1. /\ k \in 0 .. n - 1 /\ j \in 0 .. _size - 1
        /\ j \in t .. (t + n - 1)
        /\ m + i - 1 = m + k /\ j - t + 1 = i
    BY <1>1, <1>2, SizeFact
  <2> HIDE DEF k
  <2>2. Place(b, m + k) = j
    BY <1>9, <2>1
  <2> HIDE DEF j
  <2>3. f[j] = s[i]
    BY <1>3, <2>1
  <2>4. Place(c, m + k) = j
    BY <1>6, <2>2 DEF Place
  <2> QED
    BY <1>6, <2>1, <2>3, <2>4 DEF Cell, Place
<1> QED
  BY <1>6, <1>7, <1>8, <1>10, <1>11 DEF c, f, n, m, t

LEMMA WordFact == WORD \in Nat /\ WORD > 2 * _size + 1
  BY BufferAssumption

LEMMA RemovedLemma ==
  ASSUME NEW b, Holds(b), NEW a \in 0 .. Count(b) - 1, b.available > 0
  PROVE  LET c == Removed(b, Place(b, a))
         IN  /\ Holds(c) /\ c.available = b.available - 1
             /\ Count(c) = Count(b) - 1
             /\ \A i \in 0 .. Count(b) - 2 :
                  Cell(c, i) = IF i < a THEN Cell(b, i) ELSE Cell(b, i + 1)
<1> DEFINE pos == Place(b, a)
           n == b.available
           f == [i \in DOMAIN b.cells |->
                  IF i = pos \/ (i - b.head) % _size < (pos - b.head) % _size
                  THEN b.cells[IF i = b.head % _size THEN i ELSE (i - 1) % _size]
                  ELSE b.cells[i]]
           d == [b EXCEPT !.available = n - 1, !.head = Turn(@ + 1)]
           c == Removed(b, pos)
<1>1. /\ b.head \in 0 .. 2 * _size - 1 /\ b.tail \in 0 .. 2 * _size - 1
      /\ n \in 0 .. _size /\ b.cells \in [0 .. _size - 1 -> CellSet]
      /\ b \in Rings
  BY DEF Holds, Rings
<1>2. /\ Count(b) \in 1 .. _size /\ a \in 0 .. _size - 1
      /\ n - 1 \in 0 .. _size /\ 1 \in 0 .. Count(b)
  <2>1. Count(b) \in 0 .. _size
    BY <1>1, CountLemma, SizeFact DEF Holds
  <2> QED
    BY <1>1, <2>1, SizeFact
<1>3. (n - 1) % WORD = n - 1
  <2> DEFINE k == n - 1
  <2>1. k \in 0 .. WORD - 1
    BY <1>1, <1>2, SizeFact, WordFact
  <2> HIDE DEF k
  <2>2. k % WORD = k
    BY <2>1, WordFact
  <2> QED
    BY <2>2 DEF k
<1>4. /\ Holds(d) /\ d.available = n - 1 /\ Count(d) = Count(b) - 1
      /\ d.head = Turn(b.head + 1) /\ d.tail = b.tail
  <2>1. Holds(d) /\ d.available = n - 1 /\ Count(d) = Count(b) - 1
    <3> DEFINE k == n - 1
    <3>1. k \in 0 .. _size
      BY <1>2
    <3> HIDE DEF k
    <3>2. d = Advanced(b, k, 1)
      BY DEF k, Advanced
    <3> HIDE DEF d
    <3>3. Holds(d) /\ d.available = k /\ Count(d) = Count(b) - 1
      BY <1>2, <3>1, <3>2, AdvancedLemma
    <3> QED
      BY <3>3 DEF k
  <2> QED
    BY <1>1, <2>1 DEF Rings
<1>5. c = [d EXCEPT !.cells = f]
  BY <1>1, <1>3 DEF Removed, Rings
<1>6. \A i \in 0 .. _size - 1 :
        /\ (i - 1) % _size \in 0 .. _size - 1
        /\ f[i] = IF i = pos \/ (i - b.head) % _size < (pos - b.head) % _size
                  THEN b.cells[IF i = b.head % _size THEN i ELSE (i - 1) % _size]
                  ELSE b.cells[i]
  BY <1>1, SizeFact
<1>7. f \in [0 .. _size - 1 -> CellSet]
  BY <1>1, <1>6
<1> HIDE DEF f, d, pos
<1>8. /\ c \in Rings /\ c.available = n - 1 /\ c.cells = f
      /\ c.head = d.head /\ c.tail = d.tail
  BY <1>4, <1>5, <1>7 DEF Holds, Rings
<1> HIDE DEF c
<1>9. Count(c) = Count(b) - 1 /\ Holds(c)
  BY <1>4, <1>8 DEF Count, Holds
<1>10. ASSUME NEW i \in 0 .. Count(b) - 2
       PROVE  Cell(c, i) = IF i < a THEN Cell(b, i) ELSE Cell(b, i + 1)
  <2> DEFINE j == i + 1
             p == Place(b, j)
  <2>1. /\ j \in 0 .. _size - 1 /\ j # 0 /\ 0 \in 0 .. _size - 1
        /\ j - 1 = i /\ i \in Int /\ j \in Int
    BY <1>2, SizeFact
  <2>2. Place(c, i) = p
    BY <1>1, <1>4, <1>8, <2>1, PlacesMoved
  <2> HIDE DEF j
  <2>3. /\ p \in 0 .. _size - 1 /\ p # Place(b, 0)
        /\ (p = pos <=> j = a)
    BY <1>1, <1>2, <2>1, PlaceLemma DEF pos
  <2>4. /\ (p - b.head) % _size = j /\ (pos - b.head) % _size = a
        /\ (p - 1) % _size = Place(b, i)
    BY <1>1, <1>2, <2>1, OffsetLemma DEF pos
  <2>5. Place(b, 0) = b.head % _size
    BY <1>1 DEF Place
  <2> HIDE DEF p
  <2>6. f[p] = IF j = a \/ j < a THEN b.cells[Place(b, i)] ELSE b.cells[p]
    BY <1>6, <2>3, <2>4, <2>5
  <2>7. (j = a \/ j < a) <=> i < a
    BY <1>2, <2>1
  <2> QED
    BY <1>8, <2>2, <2>6, <2>7 DEF Cell, Place, p, j
<1> QED
  BY <1>8, <1>9, <1>10 DEF c, pos

\* One of the items is replaced.
LEMMA ReplacedLemma ==
  ASSUME NEW b, Holds(b), NEW a \in 0 .. Count(b) - 1, NEW x \in CellSet
  PROVE  LET c == [b EXCEPT !.cells[Place(b, a)] = x]
         IN  /\ Holds(c) /\ c.available = b.available /\ Count(c) = Count(b)
             /\ \A i \in 0 .. Count(b) - 1 :
                  Cell(c, i) = IF i = a THEN x ELSE Cell(b, i)
<1> DEFINE pos == Place(b, a)
           c == [b EXCEPT !.cells[pos] = x]
<1>1. b.cells \in [0 .. _size - 1 -> CellSet] /\ b \in Rings
  BY DEF Holds, Rings
<1>2. Count(b) \in 0 .. _size /\ a \in 0 .. _size - 1
  <2>1. Count(b) \in 0 .. _size
    BY <1>1, CountLemma, SizeFact DEF Holds
  <2> QED
    BY <2>1, SizeFact
<1>3. pos \in 0 .. _size - 1
  BY <1>1, <1>2, PlaceLemma
<1> HIDE DEF pos
<1>4. /\ c \in Rings /\ c.available = b.available /\ c.head = b.head
      /\ c.tail = b.tail /\ c.cells = [b.cells EXCEPT ![pos] = x]
  BY <1>1, <1>3 DEF Rings
<1> HIDE DEF c
<1>5. Count(c) = Count(b) /\ Holds(c)
  BY <1>4 DEF Count, Holds
<1>6. ASSUME NEW i \in 0 .. Count(b) - 1
      PROVE  Cell(c, i) = IF i = a THEN x ELSE Cell(b, i)
  <2>1. i \in 0 .. _size - 1
    BY <1>2, SizeFact
  <2>2. Place(b, i) \in 0 .. _size - 1 /\ (Place(b, i) = pos <=> i = a)
    BY <1>1, <1>2, <2>1, PlaceLemma DEF pos
  <2>3. Place(c, i) = Place(b, i)
    BY <1>4 DEF Place
  <2> QED
    BY <1>1, <1>4, <2>2, <2>3 DEF Cell, Place
<1> QED
  BY <1>4, <1>5, <1>6 DEF c, pos

\* The items are stored again from a sequence as long.
LEMMA StoredLemma ==
  ASSUME Holds(buf), buf.available = Count(buf), ~multi,
         NEW s, \A i \in 1 .. Count(buf) : s[i] \in CellSet
  PROVE  LET c == Stored(s)
         IN  /\ Holds(c) /\ c.available = buf.available /\ Count(c) = Count(buf)
             /\ \A i \in 0 .. Count(buf) - 1 : Cell(c, i) = s[i + 1]
<1> DEFINE b == buf
           m == Count(b)
           f == [i \in DOMAIN b.cells |->
                  IF (i - b.head) % _size < m
                  THEN s[((i - b.head) % _size) + 1] ELSE b.cells[i]]
           c == Stored(s)
<1>1. b.cells \in [0 .. _size - 1 -> CellSet] /\ b \in Rings
  BY DEF Holds, Rings
<1>2. m \in 0 .. _size
  BY <1>1, CountLemma, SizeFact DEF Holds
<1>3. c = [b EXCEPT !.cells = f]
  BY <1>1 DEF Stored, Rings
<1>4. \A i \in 0 .. _size - 1 :
        f[i] = IF (i - b.head) % _size < m
               THEN s[((i - b.head) % _size) + 1] ELSE b.cells[i]
  BY <1>1
<1>5. f \in [0 .. _size - 1 -> CellSet]
  <2>1. DOMAIN f = 0 .. _size - 1 /\ f = [i \in DOMAIN f |-> f[i]]
    BY <1>1
  <2>2. \A i \in 0 .. _size - 1 : s[i] \in CellSet \/ i \notin 1 .. m
    OBVIOUS
  <2> HIDE DEF f, m
  <2>3. ASSUME NEW i \in 0 .. _size - 1
        PROVE  f[i] \in CellSet
    <3> DEFINE k == (i - b.head) % _size
    <3>1. k \in 0 .. _size - 1
      BY <1>1, OffsetLemma
    <3> HIDE DEF k
    <3>2. k < m => k + 1 \in 1 .. m
      BY <1>2, <3>1, SizeFact
    <3>3. k < m => s[k + 1] \in CellSet
      BY <3>2 DEF m
    <3> QED
      BY <1>1, <1>4, <3>3 DEF k
  <2> QED
    BY <2>1, <2>3
<1> HIDE DEF f
<1>6. /\ c \in Rings /\ c.available = b.available /\ c.head = b.head
      /\ c.tail = b.tail /\ c.cells = f
  BY <1>1, <1>3, <1>5 DEF Rings
<1> HIDE DEF c
<1>7. Count(c) = m /\ Holds(c)
  BY <1>6 DEF Count, Holds
<1>8. ASSUME NEW i \in 0 .. m - 1
      PROVE  Cell(c, i) = s[i + 1]
  <2> DEFINE p == Place(b, i)
  <2>1. i \in 0 .. _size - 1
    BY <1>2, SizeFact
  <2>2. p \in 0 .. _size - 1 /\ (p - b.head) % _size = i
    BY <1>1, <2>1, PlaceLemma, OffsetLemma
  <2>3. Place(c, i) = p
    BY <1>6 DEF Place
  <2> HIDE DEF p, m
  <2>4. f[p] = s[i + 1]
    BY <1>2, <1>4, <2>1, <2>2
  <2> QED
    BY <1>6, <2>3, <2>4 DEF Cell, Place
<1> QED
  BY <1>6, <1>7, <1>8 DEF c

-----------------------------------------------------------------------------
(* The items and their cells.                                              *)

LEMMA LengthLemma ==
  ASSUME NEW n \in Nat \ {0}, NEW l \in 0 .. n * n - 1
  PROVE  /\ (l \div n) % n \in Nat /\ l % n \in Nat
         /\ ((l \div n) % n) * n + (l % n) = l
<1> DEFINE q == l \div n
           r == l % n
<1>1. l \in Nat /\ n * n \in Nat /\ l < n * n
  OBVIOUS
<1>2. q \in Nat /\ r \in 0 .. n - 1 /\ l = n * q + r
  BY <1>1
<1> HIDE DEF q, r
<1>3. q < n
  <2> SUFFICES ASSUME q >= n
               PROVE  FALSE
    BY <1>2
  <2>1. n * q >= n * n
    BY <1>2
  <2> QED
    BY <1>1, <1>2, <2>1
<1>4. q % n = q
  BY <1>2, <1>3
<1>5. q * n = n * q
  BY <1>2
<1> QED
  BY <1>1, <1>2, <1>4, <1>5 DEF q, r

\* An array is read back as it was stored: with the length shifted always,
\* with the length not shifted when it fits an element.
LEMMA ItemLemma ==
  /\ ~multi => \A x \in Values : x \in CellSet /\ Item(x) = x
  /\ multi => \A x \in Arrays :
       /\ Shifted(x) \in CellSet /\ Item(Shifted(x)) = x
       /\ Unshifted(x) \in CellSet
       /\ x.length < BYTE => Item(Unshifted(x)) = x
<1>1. ASSUME ~multi, NEW x \in Values
      PROVE  x \in CellSet /\ Item(x) = x
  BY <1>1 DEF CellSet, Item
<1>2. ASSUME multi, NEW x \in Arrays
      PROVE  /\ Shifted(x) \in CellSet /\ Item(Shifted(x)) = x
             /\ Unshifted(x) \in CellSet
             /\ x.length < BYTE => Item(Unshifted(x)) = x
  <2> DEFINE l == x.length
             n == BYTE
             w == WORD
  <2>1. n \in Nat \ {0} /\ w = n * n /\ l \in 0 .. w - 1
    BY BufferAssumption DEF Arrays
  <2>2. x \in [key : Keys, length : Lengths] /\ x.key \in Keys
        /\ x = [key |-> x.key, length |-> l]
    BY DEF Arrays
  <2>3. l \in Nat
    <3>1. Lengths \subseteq Nat
      BY BufferAssumption
    <3> QED
      BY <2>2, <3>1
  <2> HIDE DEF l, n, w
  <2>4. /\ (l \div n) % n \in Nat /\ l % n \in Nat
        /\ ((l \div n) % n) * n + (l % n) = l
    BY <2>1, LengthLemma
  <2>5. (l - (l % n)) % n \in Nat
    BY <2>1, <2>3, <2>4
  <2>6. l < n => l % n = l /\ (l - (l % n)) % n = 0
    BY <2>1, <2>3
  <2>7. /\ Shifted(x) = [key |-> x.key, high |-> (l \div n) % n, low |-> l % n]
        /\ Unshifted(x) = [key |-> x.key, high |-> (l - (l % n)) % n, low |-> l % n]
    BY DEF Shifted, Unshifted, l, n
  <2>8. Shifted(x) \in CellSet /\ Unshifted(x) \in CellSet
    BY <1>2, <2>2, <2>4, <2>5, <2>7 DEF CellSet
  <2>9. Item(Shifted(x)) = x
    BY <1>2, <2>2, <2>4, <2>7 DEF Item, LengthOf, n
  <2>10. ASSUME l < n
         PROVE  Item(Unshifted(x)) = x
    <3>1. Unshifted(x) = [key |-> x.key, high |-> 0, low |-> l]
      BY <2>6, <2>7, <2>10
    <3>2. 0 * n + l = l
      BY <2>1, <2>3
    <3> QED
      BY <1>2, <2>2, <3>1, <3>2 DEF Item, LengthOf, n
  <2> QED
    BY <2>8, <2>9, <2>10 DEF l, n
<1> QED
  BY <1>1, <1>2

-----------------------------------------------------------------------------
(* The invariant: in its sound uses the buffer holds its items, as many as *)
(* it counts.  While a block operation is under way the calls that are     *)
(* left still fit: a block of values to write fills the buffer, and is     *)
(* counted before it is written; one to push in front has room; one to     *)
(* read is there.                                                          *)

Quiet(b) == Holds(b) /\ b.available = Count(b)

Writing(b, calls) ==
  /\ calls \in Seq([op : {"write"}, item : Values])
  /\ b.available = _size /\ Count(b) + Len(calls) >= _size

Pushing(b, calls) ==
  /\ calls \in Seq([op : {"push_front"}, item : Values])
  /\ b.available = Count(b) /\ Count(b) + Len(calls) <= _size

Reading(b, calls) ==
  /\ calls \in Seq([op : {"read"}])
  /\ b.available = Count(b) /\ Len(calls) <= Count(b)

Steady(b, calls) ==
  \/ calls = <<>> /\ Quiet(b)
  \/ /\ ~multi /\ calls # <<>> /\ Holds(b)
     /\ Writing(b, calls) \/ Pushing(b, calls) \/ Reading(b, calls)

Agrees == kept => Steady(buf, todo)

LEMMA AgreesNext ==
  ASSUME UNCHANGED multi, kept' => Steady(buf', todo')
  PROVE  Agrees'
  BY DEF Agrees, Steady, Quiet, Writing, Pushing, Reading, Holds, Rings,
         CellSet, Count, Turn

LEMMA TailLemma ==
  ASSUME NEW S, NEW s \in Seq(S), s # <<>>
  PROVE  /\ Head(s) \in S /\ Tail(s) \in Seq(S) /\ Len(s) \in Nat \ {0}
         /\ Len(Tail(s)) = Len(s) - 1
         /\ Tail(s) = <<>> => Len(s) = 1
<1>1. Len(s) \in Nat /\ Len(s) # 0
  BY LenProperties, EmptySeq
<1>2. Head(s) \in S /\ Tail(s) \in Seq(S) /\ Len(Tail(s)) = Len(s) - 1
  BY HeadTailProperties
<1>3. Tail(s) = <<>> => Len(Tail(s)) = 0
  <2>1. Len(<<>>) = 0
    OBVIOUS
  <2> QED
    BY <2>1
<1> QED
  BY <1>1, <1>2, <1>3

LEMMA CallsLemma ==
  ASSUME NEW m \in Nat, NEW s \in [1 .. m -> Values], NEW op
  PROVE  /\ s \in Seq(Values) /\ Len(s) = m
         /\ Calls(op, s) \in Seq([op : {op}, item : Values])
         /\ Len(Calls(op, s)) = m
         /\ m = 0 => Calls(op, s) = <<>>
<1>1. Calls(op, s) = [i \in 1 .. m |-> [op |-> op, item |-> s[i]]]
  BY DEF Calls
<1>2. \A i \in 1 .. m : [op |-> op, item |-> s[i]] \in [op : {op}, item : Values]
  OBVIOUS
<1> DEFINE e(i) == [op |-> op, item |-> s[i]]
<1> HIDE DEF e
<1>3. /\ [i \in 1 .. m |-> e(i)] \in Seq([op : {op}, item : Values])
      /\ Len([i \in 1 .. m |-> e(i)]) = m
  BY <1>2 DEF e
<1>4. Calls(op, s) = [i \in 1 .. m |-> e(i)]
  BY <1>1 DEF e
<1> HIDE DEF e
<1>5. m = 0 => Calls(op, s) = <<>>
  BY <1>3, <1>4, EmptySeq
<1>6. s \in Seq(Values) /\ Len(s) = m
  OBVIOUS
<1> QED
  BY <1>3, <1>4, <1>5, <1>6

\* The operations on one item of a buffer at rest.
LEMMA WriteQuiet ==
  ASSUME NEW b, Quiet(b), NEW x \in CellSet
  PROVE  Quiet(Written(b, x))
<1> DEFINE k == IF Count(b) = _size THEN 1 ELSE 0
<1>1. k \in 0 .. 1 /\ Holds(b) /\ b.available = Count(b)
      /\ Count(b) \in 0 .. _size
  BY CountLemma, SizeFact DEF Quiet, Holds
<1> HIDE DEF k
<1>2. /\ Holds(Written(b, x)) /\ Written(b, x).available = OneMore(b)
      /\ Count(Written(b, x)) = Count(b) + 1 - k
  BY <1>1, WrittenLemma DEF k
<1> QED
  BY <1>1, <1>2, SizeFact DEF Quiet, OneMore, k

LEMMA PutFirstQuiet ==
  ASSUME NEW b, Quiet(b), Count(b) < _size, NEW x \in CellSet
  PROVE  Quiet(PutFirst(b, x))
<1>1. Holds(b) /\ b.available = Count(b) /\ Count(b) \in 0 .. _size
  BY CountLemma, SizeFact DEF Quiet, Holds
<1>2. /\ Holds(PutFirst(b, x)) /\ PutFirst(b, x).available = OneMore(b)
      /\ Count(PutFirst(b, x)) = Count(b) + 1
  BY <1>1, PutFirstLemma
<1> QED
  BY <1>1, <1>2, SizeFact DEF Quiet, OneMore

LEMMA DroppedQuiet ==
  ASSUME NEW b, Quiet(b), b.available > 0
  PROVE  Quiet(Dropped(b))
<1>1. Holds(b) /\ b.available = Count(b) /\ Count(b) \in 0 .. _size
  BY CountLemma, SizeFact DEF Quiet, Holds
<1>2. /\ Holds(Dropped(b)) /\ Dropped(b).available = OneLess(b)
      /\ Count(Dropped(b)) = Count(b) - 1
  BY <1>1, DroppedLemma
<1> QED
  BY <1>1, <1>2, SizeFact DEF Quiet, OneLess

\* The next call of a block operation keeps the invariant.
LEMMA CallKeeps ==
  ASSUME Agrees, kept, todo # <<>>, Call
  PROVE  Agrees'
<1> DEFINE op == Head(todo).op
           b == buf
           n == Len(todo)
           m == Count(b)
<1>1. /\ ~multi /\ Holds(b)
      /\ Writing(b, todo) \/ Pushing(b, todo) \/ Reading(b, todo)
  BY DEF Agrees, Steady
<1>2. m \in 0 .. _size /\ b.available \in 0 .. _size
  BY <1>1, CountLemma, SizeFact DEF Holds, Rings
<1>3. /\ todo' = Tail(todo) /\ UNCHANGED <<multi, kept>>
      /\ op = "write" => buf' = Written(b, Head(todo).item)
      /\ op = "push_front" => buf' = PutFirst(b, Head(todo).item)
      /\ op = "read" => buf' = Dropped(b)
  BY DEF Call
<1>4. CASE Writing(b, todo)
  <2>1. /\ Head(todo) \in [op : {"write"}, item : Values]
        /\ Tail(todo) \in Seq([op : {"write"}, item : Values])
        /\ n \in Nat \ {0} /\ Len(Tail(todo)) = n - 1
        /\ Tail(todo) = <<>> => n = 1
        /\ b.available = _size /\ m + n >= _size
    BY <1>4, TailLemma DEF Writing
  <2> DEFINE x == Head(todo).item
             k == IF Count(b) = _size THEN 1 ELSE 0
             c == Written(b, x)
  <2>2. x \in CellSet /\ op = "write" /\ k \in 0 .. 1
    BY <1>1, <2>1, ItemLemma
  <2> HIDE DEF x, k
  <2>3. /\ Holds(c) /\ c.available = OneMore(b) /\ Count(c) = Count(b) + 1 - k
    BY <1>1, <2>2, WrittenLemma DEF k
  <2>4. c.available = _size
    BY <2>1, <2>3, SizeFact DEF OneMore
  <2>5. Count(c) + (n - 1) >= _size /\ (n = 1 => Count(c) = _size)
    <3> HIDE DEF n, m, c
    <3>1. m = _size => k = 1
      BY DEF k, m
    <3>2. m # _size => k = 0
      BY DEF k, m
    <3>3. Count(c) = m + 1 - k
      BY <2>3 DEF m
    <3> QED
      BY <1>2, <2>1, <3>1, <3>2, <3>3, SizeFact
  <2>6. buf' = c
    BY <1>3, <2>2 DEF x
  <2>7. Steady(c, Tail(todo))
    BY <1>1, <2>1, <2>3, <2>4, <2>5 DEF Steady, Quiet, Writing
  <2> QED
    BY <1>3, <2>6, <2>7, AgreesNext
<1>5. CASE Pushing(b, todo)
  <2>1. /\ Head(todo) \in [op : {"push_front"}, item : Values]
        /\ Tail(todo) \in Seq([op : {"push_front"}, item : Values])
        /\ n \in Nat \ {0} /\ Len(Tail(todo)) = n - 1
        /\ Tail(todo) = <<>> => n = 1
        /\ b.available = m /\ m + n <= _size
    BY <1>5, TailLemma DEF Pushing
  <2> DEFINE x == Head(todo).item
             c == PutFirst(b, x)
  <2>2. x \in CellSet /\ op = "push_front" /\ Count(b) < _size /\ Quiet(b)
    BY <1>1, <1>2, <2>1, ItemLemma, SizeFact DEF Quiet
  <2> HIDE DEF x
  <2>3. Quiet(c) /\ Count(c) = m + 1
    BY <1>1, <2>2, PutFirstLemma, PutFirstQuiet
  <2>4. buf' = c
    BY <1>3, <2>2 DEF x
  <2>5. Count(c) + (n - 1) <= _size
    BY <1>2, <2>1, <2>3, SizeFact
  <2>6. Steady(c, Tail(todo))
    BY <1>1, <2>1, <2>3, <2>5 DEF Steady, Quiet, Pushing
  <2> QED
    BY <1>3, <2>4, <2>6, AgreesNext
<1>6. CASE Reading(b, todo)
  <2>1. /\ Head(todo) \in [op : {"read"}]
        /\ Tail(todo) \in Seq([op : {"read"}])
        /\ n \in Nat \ {0} /\ Len(Tail(todo)) = n - 1
        /\ Tail(todo) = <<>> => n = 1
        /\ b.available = m /\ n <= m
    BY <1>6, TailLemma DEF Reading
  <2> DEFINE c == Dropped(b)
  <2>2. op = "read" /\ Count(b) > 0 /\ Quiet(b)
    BY <1>1, <1>2, <2>1, SizeFact DEF Quiet
  <2>3. Quiet(c) /\ Count(c) = m - 1
    BY <1>1, <2>1, <2>2, DroppedLemma, DroppedQuiet
  <2>4. buf' = c
    BY <1>3, <2>2
  <2>5. n - 1 <= Count(c)
    BY <1>2, <2>1, <2>3, SizeFact
  <2>6. Steady(c, Tail(todo))
    BY <1>1, <2>1, <2>3, <2>5 DEF Steady, Quiet, Reading
  <2> QED
    BY <1>3, <2>4, <2>6, AgreesNext
<1> QED
  BY <1>1, <1>4, <1>5, <1>6

\* The operations on one item keep the invariant.
LEMMA DoesKeeps ==
  ASSUME NEW b, NEW items, NEW sound, Does(b, items, sound), sound => Quiet(b)
  PROVE  Agrees'
<1>1. buf' = b /\ todo' = <<>> /\ kept' = sound /\ UNCHANGED multi
  BY DEF Does, Begins
<1> QED
  BY <1>1, AgreesNext DEF Steady

LEMMA OneItemKeeps ==
  ASSUME Quiet(buf),
         \/ write \/ push_front \/ push_front_array \/ read \/ pop_back
         \/ pop_back_array \/ clear
  PROVE  Agrees'
<1> DEFINE b == buf
<1>1. /\ Holds(b) /\ b.available = Count(b) /\ Count(b) \in 0 .. _size
      /\ b \in Rings
  BY CountLemma, SizeFact DEF Quiet, Holds
<1>2. CASE write
  <2>1. PICK x \in IF multi THEN Arrays ELSE Values :
          Does(Written(b, IF multi THEN Shifted(x) ELSE x), <<x>>, TRUE)
    BY <1>2 DEF write
  <2>2. (IF multi THEN Shifted(x) ELSE x) \in CellSet
    BY ItemLemma
  <2> DEFINE y == IF multi THEN Shifted(x) ELSE x
  <2> HIDE DEF y
  <2>3. Quiet(Written(b, y))
    BY <2>2, WriteQuiet DEF y
  <2> QED
    BY <2>1, <2>3, DoesKeeps DEF y
<1>3. CASE push_front
  <2>1. PICK x \in Values : Does(PutFirst(b, x), <<x>>, b.available < _size)
    BY <1>3 DEF push_front
  <2>2. x \in CellSet
    BY <1>3, ItemLemma DEF push_front
  <2>3. b.available < _size => Quiet(PutFirst(b, x))
    BY <1>1, <2>2, PutFirstQuiet
  <2> QED
    BY <2>1, <2>3, DoesKeeps
<1>4. CASE push_front_array
  <2> DEFINE c == [b EXCEPT !.tail = IF Full(b) THEN Turn(@ - 1) ELSE @]
  <2>1. PICK x \in Arrays : Does(PutFirst(c, Unshifted(x)), <<x>>, x.length < BYTE)
    BY <1>4 DEF push_front_array
  <2>2. Unshifted(x) \in CellSet
    BY <1>4, ItemLemma DEF push_front_array
  <2> DEFINE y == Unshifted(x)
  <2> HIDE DEF y
  <2>3. Quiet(PutFirst(c, y))
    <3>1. CASE Full(b)
      <4>1. Count(b) = _size /\ b.available \in 0 .. _size
        BY <1>1, <3>1, FullLemma DEF Rings
      <4>2. c = [b EXCEPT !.tail = Turn(@ - 1), !.available = b.available]
        BY <1>1, <3>1 DEF Rings
      <4> HIDE DEF c
      <4>3. Holds(c) /\ c.available = b.available /\ Count(c) = _size - 1
        <5> DEFINE a == b.available
        <5>1. a \in 0 .. _size /\ Count(b) > 0
          BY <4>1, SizeFact
        <5>2. c = [b EXCEPT !.tail = Turn(@ - 1), !.available = a]
          BY <4>2
        <5> HIDE DEF a
        <5>3. Holds(c) /\ c.available = a /\ Count(c) = Count(b) - 1
          BY <1>1, <5>1, <5>2, ShortenedLemma
        <5> QED
          BY <4>1, <5>3 DEF a
      <4>4. /\ Holds(PutFirst(c, y)) /\ PutFirst(c, y).available = OneMore(c)
            /\ Count(PutFirst(c, y)) = Count(c) + 1
        BY <2>2, <4>3, SizeFact, PutFirstLemma DEF y
      <4> QED
        BY <1>1, <4>1, <4>3, <4>4, SizeFact DEF Quiet, OneMore
    <3>2. CASE ~Full(b)
      <4>1. c = b
        BY <1>1, <3>2 DEF Rings
      <4>2. Count(b) < _size
        BY <1>1, <3>2, FullLemma, SizeFact
      <4> QED
        BY <2>2, <4>1, <4>2, PutFirstQuiet DEF y
    <3> QED
      BY <3>1, <3>2
  <2> QED
    BY <2>1, <2>3, DoesKeeps DEF y
<1>5. CASE read
  <2>1. Does(Dropped(b), <<Item(Cell(b, 0))>>, b.available > 0)
    BY <1>5 DEF read
  <2>2. b.available > 0 => Quiet(Dropped(b))
    BY DroppedQuiet
  <2> QED
    BY <2>1, <2>2, DoesKeeps
<1>6. ASSUME b.available > 0
      PROVE  Quiet([b EXCEPT !.tail = Turn(@ - 1), !.available = OneLess(b)])
  <2> DEFINE a == OneLess(b)
             c == [b EXCEPT !.tail = Turn(@ - 1), !.available = a]
  <2>1. a \in 0 .. _size /\ a = b.available - 1 /\ Count(b) > 0
    BY <1>1, <1>6, SizeFact DEF OneLess
  <2> HIDE DEF a
  <2>2. Holds(c) /\ c.available = a /\ Count(c) = Count(b) - 1
    BY <1>1, <2>1, ShortenedLemma
  <2> QED
    BY <1>1, <2>1, <2>2 DEF Quiet, a
<1>7. CASE pop_back
  <2> DEFINE c == [b EXCEPT !.tail = Turn(@ - 1), !.available = OneLess(b)]
  <2>1. PICK items, sound : b.available > 0 /\ Does(c, items, sound)
    BY <1>7 DEF pop_back
  <2>2. Quiet(c)
    BY <1>6, <2>1
  <2> HIDE DEF c
  <2> QED
    BY <2>1, <2>2, DoesKeeps
<1>8. CASE pop_back_array
  BY <1>6, <1>8, DoesKeeps DEF pop_back_array
<1>9. CASE clear
  <2> DEFINE c == [b EXCEPT !.head = 0, !.tail = 0, !.available = 0]
  <2>1. 0 \in 0 .. 2 * _size - 1 /\ 0 \in 0 .. _size
    BY SizeFact
  <2>2. c \in Rings /\ c.head = 0 /\ c.tail = 0 /\ c.available = 0
    BY <1>1, <2>1 DEF Rings
  <2> HIDE DEF c
  <2>3. Quiet(c)
    BY <2>2, CountLemma, SizeFact DEF Quiet, Holds
  <2> QED
    BY <1>9, <2>3, DoesKeeps DEF clear, c
<1> QED
  BY <1>2, <1>3, <1>4, <1>5, <1>7, <1>8, <1>9

LEMMA RemovedQuiet ==
  ASSUME NEW b, Quiet(b), NEW a \in 0 .. b.available - 1
  PROVE  Quiet(Removed(b, Place(b, a)))
<1>1. /\ Holds(b) /\ b.available = Count(b) /\ Count(b) \in 0 .. _size
      /\ a \in 0 .. Count(b) - 1
  BY CountLemma, SizeFact DEF Quiet, Holds
<1>2. b.available > 0
  BY <1>1
<1>3. /\ Holds(Removed(b, Place(b, a)))
      /\ Removed(b, Place(b, a)).available = b.available - 1
      /\ Count(Removed(b, Place(b, a))) = Count(b) - 1
  BY <1>1, <1>2, RemovedLemma
<1> QED
  BY <1>1, <1>3 DEF Quiet

\* A set of numbers that is not empty has a least one.
LEMMA LeastLemma ==
  ASSUME NEW S \in SUBSET Nat, S # {}
  PROVE  \E m \in S : \A y \in S : m <= y
<1>1. PICK m \in S : \A y \in S : <<y, m>> \notin OpToRel(<, Nat)
  BY NatLessThanWellFounded, WFMin, Zenon
<1>2. m \in Nat /\ \A y \in S : y \in Nat
  OBVIOUS
<1>3. \A y \in S : ~(y < m)
  BY <1>1, <1>2, Zenon DEF OpToRel
<1> QED
  BY <1>2, <1>3

\* What is found is an item, and has the key.
LEMMA FoundLemma ==
  ASSUME buf.available \in Nat, NEW key, Found(key) # {}
  PROVE  /\ Min(Found(key)) \in 0 .. buf.available - 1
         /\ Cell(buf, Min(Found(key))).key = key
<1> DEFINE S == Found(key)
<1>1. S \subseteq 0 .. buf.available - 1 /\ S \subseteq Nat
  BY DEF Found
<1>2. \A j \in S : Cell(buf, j).key = key
  BY DEF Found
<1> HIDE DEF S
<1>3. PICK m \in S : \A y \in S : m <= y
  BY <1>1, LeastLemma DEF S
<1>4. Min(S) \in S
  <2>1. Min(S) = CHOOSE x \in S : \A y \in S : x <= y
    BY DEF Min
  <2> QED
    BY <1>3, <2>1
<1> QED
  BY <1>1, <1>2, <1>4 DEF S

\* The operations on a found item keep the invariant.
LEMMA OnFoundKeeps ==
  ASSUME Quiet(buf), remove \/ findRemove \/ replace
  PROVE  Agrees'
<1> DEFINE b == buf
<1>1. /\ Holds(b) /\ b.available = Count(b) /\ Count(b) \in 0 .. _size
      /\ b \in Rings /\ b.available \in Nat
      /\ DOMAIN b.cells = 0 .. _size - 1
  BY CountLemma, SizeFact DEF Quiet, Holds, Rings
<1>2. CASE remove
  <2>1. PICK pos \in 0 .. _size - 1 :
          Does(Removed(b, pos), <<Item(b.cells[pos])>>,
               (pos - b.head) % _size < b.available)
    BY <1>1, <1>2 DEF remove
  <2> DEFINE a == (pos - b.head) % _size
  <2>2. a \in 0 .. _size - 1 /\ Place(b, a) = pos
    BY <1>1, OffsetLemma
  <2>3. ASSUME a < b.available
        PROVE  Quiet(Removed(b, pos))
    <3> HIDE DEF a
    <3>1. a \in 0 .. b.available - 1
      BY <1>1, <2>2, <2>3, SizeFact
    <3> QED
      BY <2>2, <3>1, RemovedQuiet
  <2> QED
    BY <2>1, <2>3, DoesKeeps
<1>3. CASE findRemove
  <2>1. PICK key \in Keys :
          /\ Found(key) # {}
          /\ Does(Removed(b, Place(b, Min(Found(key)))),
                  <<Item(Cell(b, Min(Found(key))))>>, TRUE)
    BY <1>3 DEF findRemove, Place
  <2> DEFINE a == Min(Found(key))
  <2>2. a \in 0 .. b.available - 1
    BY <1>1, <2>1, FoundLemma
  <2> HIDE DEF a
  <2>3. Quiet(Removed(b, Place(b, a)))
    BY <2>2, RemovedQuiet
  <2> QED
    BY <2>1, <2>3, DoesKeeps DEF a
<1>4. CASE replace
  <2>1. PICK x \in Arrays :
          /\ Found(x.key) # {}
          /\ Does([b EXCEPT !.cells[Place(b, Min(Found(x.key)))] = Unshifted(x)],
                  <<x>>, x.length < BYTE)
    BY <1>4 DEF replace, Place
  <2> DEFINE a == Min(Found(x.key))
             y == Unshifted(x)
  <2>2. a \in 0 .. Count(b) - 1 /\ y \in CellSet
    BY <1>1, <1>4, <2>1, FoundLemma, ItemLemma DEF replace
  <2> HIDE DEF a, y
  <2> DEFINE c == [b EXCEPT !.cells[Place(b, a)] = y]
  <2>3. Holds(c) /\ c.available = b.available /\ Count(c) = Count(b)
    BY <1>1, <2>2, ReplacedLemma
  <2>4. Quiet(c)
    BY <1>1, <2>3 DEF Quiet
  <2> QED
    BY <2>1, <2>4, DoesKeeps DEF a, y
<1> QED
  BY <1>2, <1>3, <1>4

\* A function on 1 .. n, and its reverse.
LEMMA ReverseLemma ==
  ASSUME NEW n \in Nat, NEW S, NEW u \in [1 .. n -> S]
  PROVE  /\ Reverse(u) \in [1 .. n -> S]
         /\ \A i \in 1 .. n : Reverse(u)[i] = u[n - i + 1]
         /\ Reverse(Reverse(u)) = u
<1> DEFINE v == [i \in 1 .. n |-> u[(n - i) + 1]]
<1>1. Len(u) = n
  OBVIOUS
<1>2. Reverse(u) = v
  BY <1>1 DEF Reverse
<1>3. \A i \in 1 .. n : (n - i) + 1 \in 1 .. n /\ (n - ((n - i) + 1)) + 1 = i
  OBVIOUS
<1>4. v \in [1 .. n -> S]
  BY <1>3
<1>5. \A i \in 1 .. n : v[i] = u[(n - i) + 1] /\ u[(n - i) + 1] = u[n - i + 1]
  OBVIOUS
<1> HIDE DEF v
<1>6. Len(v) = n
  BY <1>4
<1>7. Reverse(v) = [i \in 1 .. n |-> v[(n - i) + 1]]
  BY <1>6 DEF Reverse
<1>8. \A i \in 1 .. n : v[(n - i) + 1] = u[i]
  BY <1>3, <1>5
<1>9. [i \in 1 .. n |-> v[(n - i) + 1]] = [i \in 1 .. n |-> u[i]]
  BY <1>8
<1> QED
  BY <1>2, <1>4, <1>5, <1>7, <1>9

LEMMA SortKeeps ==
  ASSUME Quiet(buf), sort
  PROVE  Agrees'
<1> DEFINE b == buf
           n == b.available
           s == [i \in 1 .. n |-> Cell(b, i - 1)]
<1>1. /\ Holds(b) /\ n = Count(b) /\ n \in 0 .. _size /\ n \in Nat
      /\ b \in Rings /\ b.cells \in [0 .. _size - 1 -> CellSet] /\ ~multi
  BY CountLemma, SizeFact DEF Quiet, Holds, Rings, sort
<1>2. PICK descending \in BOOLEAN, up \in Sorted(s) :
        Does(Stored(IF descending THEN Reverse(up) ELSE up), <<>>, TRUE)
  BY DEF sort
<1> HIDE DEF n
<1>3. \A i \in 1 .. n : s[i] \in CellSet
  <2> SUFFICES ASSUME NEW i \in 1 .. n
               PROVE  Cell(b, i - 1) \in CellSet
    OBVIOUS
  <2>1. i - 1 \in 0 .. _size - 1
    BY <1>1, SizeFact
  <2> QED
    BY <1>1, <2>1, PlaceLemma DEF Cell, Place
<1>4. ToSet(s) \subseteq CellSet /\ DOMAIN s = 1 .. n
  BY <1>3 DEF ToSet
<1> HIDE DEF s
<1>5. up \in [1 .. n -> CellSet]
  BY <1>4 DEF Sorted
<1> DEFINE t == IF descending THEN Reverse(up) ELSE up
<1>6. t \in [1 .. n -> CellSet]
  BY <1>1, <1>5, ReverseLemma
<1> HIDE DEF t
<1>7. Quiet(Stored(t))
  <2>1. \A i \in 1 .. Count(buf) : t[i] \in CellSet
    BY <1>1, <1>6
  <2>2. /\ Holds(Stored(t)) /\ Stored(t).available = buf.available
        /\ Count(Stored(t)) = Count(buf)
    BY <1>1, <2>1, StoredLemma DEF n
  <2> QED
    BY <1>1, <2>2 DEF Quiet, n
<1> QED
  BY <1>2, <1>7, DoesKeeps DEF t

\* The operations on a block: what they do at once, or begin.
LEMMA BeginsKeeps ==
  ASSUME NEW b, NEW calls, NEW items, NEW sound, Begins(b, calls, items, sound),
         sound => Steady(b, calls)
  PROVE  Agrees'
  BY AgreesNext DEF Begins

LEMMA WriteBlockKeeps ==
  ASSUME Quiet(buf), write_block
  PROVE  Agrees'
<1> DEFINE b == buf
<1>1. PICK s \in SeqOf(Values, _size + 1) :
        LET n == Len(s)
            total == (b.available + n) % WORD
            counted == [b EXCEPT !.available = IF total >= _size THEN _size ELSE total]
        IN  IF n < _size - b.tail
            THEN Does([counted EXCEPT !.tail = Turn(@ + n),
                         !.cells = [i \in DOMAIN @ |->
                            IF i \in b.tail .. (b.tail + n - 1)
                            THEN s[i - b.tail + 1] ELSE @[i]]],
                      s, b.available + n <= _size)
            ELSE Begins(counted, Calls("write", s), <<>>,
                        n = 0 \/ b.available + n >= _size)
  BY DEF write_block
<1>2. PICK m \in 0 .. _size + 1 : s \in [1 .. m -> Values]
  <2>1. s \in UNION {[1 .. m -> Values] : m \in 0 .. _size + 1}
    BY DEF SeqOf
  <2> QED
    BY <2>1
<1> DEFINE n == Len(s)
           total == (b.available + n) % WORD
           a == IF total >= _size THEN _size ELSE total
<1>3. /\ Holds(b) /\ b.available = Count(b) /\ Count(b) \in 0 .. _size /\ ~multi
      /\ b \in Rings /\ b.tail \in 0 .. 2 * _size - 1
  BY CountLemma, SizeFact DEF Quiet, Holds, Rings, write_block
<1>4. /\ s \in Seq(Values) /\ n = m /\ n \in 0 .. _size + 1
      /\ Calls("write", s) \in Seq([op : {"write"}, item : Values])
      /\ Len(Calls("write", s)) = n
      /\ n = 0 => Calls("write", s) = <<>>
  <2>1. m \in Nat
    BY SizeFact
  <2> QED
    BY <1>2, <2>1, CallsLemma
<1>5. total = Count(b) + n
  <2> DEFINE k == Count(b) + n
  <2>1. k \in 0 .. WORD - 1
    BY <1>3, <1>4, SizeFact, WordFact
  <2> HIDE DEF k
  <2>2. k % WORD = k
    BY <2>1, WordFact
  <2> QED
    BY <1>3, <2>2 DEF k
<1> HIDE DEF total
<1>6. /\ a \in 0 .. _size
      /\ Count(b) + n >= _size => a = _size
      /\ Count(b) + n <= _size => a = Count(b) + n
  BY <1>3, <1>4, <1>5, SizeFact
<1> DEFINE counted == [b EXCEPT !.available = a]
<1>7. CASE n < _size - b.tail
  <2> DEFINE c == [b EXCEPT !.available = a, !.tail = Turn(@ + n),
                    !.cells = [i \in DOMAIN @ |->
                       IF i \in b.tail .. (b.tail + n - 1)
                       THEN s[i - b.tail + 1] ELSE @[i]]]
  <2>1. Does(c, s, b.available + n <= _size)
    BY <1>1, <1>7 DEF total
  <2>2. ASSUME b.available + n <= _size
        PROVE  Quiet(c)
    <3>1. Count(b) + n <= _size
      BY <1>3, <2>2
    <3> HIDE DEF a
    <3>2. c = Copied(b, a, s)
      BY DEF Copied
    <3> HIDE DEF c
    <3>3. Holds(c) /\ c.available = a /\ Count(c) = Count(b) + n
      BY <1>3, <1>4, <1>6, <1>7, <3>1, <3>2, CopiedLemma
    <3> QED
      BY <1>6, <3>1, <3>3 DEF Quiet
  <2> HIDE DEF c
  <2> QED
    BY <2>1, <2>2, DoesKeeps
<1>8. CASE ~(n < _size - b.tail)
  <2>1. Begins(counted, Calls("write", s), <<>>, n = 0 \/ b.available + n >= _size)
    BY <1>1, <1>8 DEF total
  <2> HIDE DEF a
  <2>2. /\ counted \in Rings /\ counted.available = a
        /\ counted.head = b.head /\ counted.tail = b.tail
    BY <1>3, <1>6 DEF Rings
  <2> HIDE DEF counted
  <2>3. Count(counted) = Count(b) /\ Holds(counted)
    BY <1>3, <2>2 DEF Count, Holds
  <2>4. ASSUME n = 0 \/ b.available + n >= _size
        PROVE  Steady(counted, Calls("write", s))
    <3>1. CASE n = 0
      <4>1. a = Count(b)
        BY <1>3, <1>6, <3>1
      <4> QED
        BY <1>4, <2>2, <2>3, <3>1, <4>1 DEF Steady, Quiet
    <3>2. CASE n # 0
      <4>1. Calls("write", s) # <<>>
        <5>1. Len(<<>>) = 0
          OBVIOUS
        <5> QED
          BY <1>4, <3>2, <5>1
      <4>2. Count(b) + n >= _size
        BY <1>3, <2>4, <3>2
      <4> QED
        BY <1>3, <1>4, <1>6, <2>2, <2>3, <4>1, <4>2 DEF Steady, Writing
    <3> QED
      BY <3>1, <3>2
  <2> QED
    BY <2>1, <2>4, BeginsKeeps
<1> QED
  BY <1>7, <1>8

LEMMA PushFrontBlockKeeps ==
  ASSUME Quiet(buf), push_front_block
  PROVE  Agrees'
<1> DEFINE b == buf
<1>1. PICK s \in SeqOf(Values, _size) \ {<<>>} :
        Begins(b, Calls("push_front", Reverse(s)), <<>>, b.available + Len(s) <= _size)
  BY DEF push_front_block
<1>2. PICK m \in 0 .. _size : s \in [1 .. m -> Values]
  <2>1. s \in UNION {[1 .. m -> Values] : m \in 0 .. _size}
    BY DEF SeqOf
  <2> QED
    BY <2>1
<1>3. /\ Holds(b) /\ b.available = Count(b) /\ Count(b) \in 0 .. _size /\ ~multi
      /\ m \in Nat
  BY CountLemma, SizeFact DEF Quiet, Holds, push_front_block
<1> DEFINE r == Reverse(s)
           calls == Calls("push_front", r)
<1>4. r \in [1 .. m -> Values] /\ Len(s) = m
  BY <1>2, <1>3, ReverseLemma
<1> HIDE DEF r
<1>5. /\ calls \in Seq([op : {"push_front"}, item : Values]) /\ Len(calls) = m
      /\ m = 0 => calls = <<>>
  BY <1>3, <1>4, CallsLemma
<1> HIDE DEF calls
<1>6. ASSUME b.available + m <= _size
      PROVE  Steady(b, calls)
  BY <1>3, <1>5, <1>6 DEF Steady, Quiet, Pushing
<1>7. Begins(b, calls, <<>>, b.available + m <= _size)
  BY <1>1, <1>4 DEF calls, r
<1> QED
  BY <1>6, <1>7, BeginsKeeps

LEMMA ReadBytesKeeps ==
  ASSUME Quiet(buf), readBytes
  PROVE  Agrees'
<1> DEFINE b == buf
<1>1. PICK length \in 0 .. _size + 1 :
        LET count == IF b.available < length THEN b.available ELSE length
        IN  IF count < _size - b.head
            THEN Does([b EXCEPT !.available = (@ - length) % WORD,
                                !.head = Turn(@ + count)],
                      [i \in 1 .. count |-> b.cells[i - 1]],
                      length <= b.available /\ (b.head = 0 \/ count = 0))
            ELSE Begins(b, [i \in 1 .. count |-> [op |-> "read"]], <<>>, TRUE)
  BY DEF readBytes
<1> DEFINE count == IF b.available < length THEN b.available ELSE length
<1>2. /\ Holds(b) /\ b.available = Count(b) /\ Count(b) \in 0 .. _size /\ ~multi
      /\ length \in Nat /\ b \in Rings
  BY CountLemma, SizeFact DEF Quiet, Holds, readBytes
<1>3. count \in 0 .. Count(b) /\ count \in Nat
  BY <1>2
<1>4. CASE count < _size - b.head
  <2> DEFINE a == (b.available - length) % WORD
             c == [b EXCEPT !.available = a, !.head = Turn(@ + count)]
             items == [i \in 1 .. count |-> b.cells[i - 1]]
             sound == length <= b.available /\ (b.head = 0 \/ count = 0)
  <2>1. Does(c, items, sound)
    <3>1. c = [b EXCEPT !.available = (@ - length) % WORD, !.head = Turn(@ + count)]
      BY <1>2 DEF Rings
    <3> QED
      BY <1>1, <1>4, <3>1
  <2>2. ASSUME length <= b.available
        PROVE  Quiet(c)
    <3>1. count = length
      BY <1>2, <2>2
    <3> DEFINE k == b.available - length
    <3>2. k \in 0 .. WORD - 1 /\ k \in 0 .. _size
      BY <1>2, <2>2, SizeFact, WordFact
    <3> HIDE DEF k
    <3>3. k % WORD = k
      BY <3>2, WordFact
    <3>4. a = k
      BY <3>3 DEF k
    <3>5. a \in 0 .. _size
      BY <3>2, <3>4
    <3> HIDE DEF a, count
    <3>6. c = Advanced(b, a, count)
      BY DEF Advanced
    <3> HIDE DEF c
    <3>7. Holds(c) /\ c.available = a /\ Count(c) = Count(b) - count
      BY <1>2, <1>3, <3>5, <3>6, AdvancedLemma
    <3> QED
      BY <1>2, <3>1, <3>4, <3>7 DEF Quiet, k
  <2> HIDE DEF c
  <2>3. sound => Quiet(c)
    BY <2>2
  <2> HIDE DEF items, sound
  <2> QED
    BY <2>1, <2>3, DoesKeeps
<1>5. CASE ~(count < _size - b.head)
  <2> DEFINE calls == [i \in 1 .. count |-> [op |-> "read"]]
  <2>1. Begins(b, calls, <<>>, TRUE)
    BY <1>1, <1>5
  <2> HIDE DEF count
  <2>2. calls \in Seq([op : {"read"}]) /\ Len(calls) = count
    BY <1>3
  <2> HIDE DEF calls
  <2>3. Steady(b, calls)
    BY <1>2, <1>3, <2>2 DEF Steady, Quiet, Reading
  <2> QED
    BY <2>1, <2>3, BeginsKeeps
<1> QED
  BY <1>4, <1>5

-----------------------------------------------------------------------------
LEMMA AgreesInit == Init => Agrees
<1> SUFFICES ASSUME Init
             PROVE  Agrees
  OBVIOUS
<1>1. /\ 0 \in 0 .. 2 * _size - 1 /\ 0 \in 0 .. _size
  BY SizeFact
<1>2. [i \in 0 .. _size - 1 |->
         IF multi THEN [key |-> 0, high |-> 0, low |-> 0] ELSE 0]
        \in [0 .. _size - 1 -> CellSet]
  BY DEF CellSet
<1>3. buf \in Rings /\ buf.head = 0 /\ buf.tail = 0 /\ buf.available = 0
  BY <1>1, <1>2 DEF Init, Rings
<1>4. Quiet(buf)
  BY <1>3, CountLemma, SizeFact DEF Quiet, Holds
<1> QED
  BY <1>4 DEF Agrees, Steady, Init

\* Each step keeps the invariant: an operation of a buffer at rest, and the
\* next call of one on a block.
LEMMA AgreesStep == Agrees /\ [Next]_vars => Agrees'
<1> SUFFICES ASSUME Agrees, [Next]_vars
             PROVE  Agrees'
  OBVIOUS
<1>1. CASE UNCHANGED vars
  BY <1>1, AgreesNext DEF vars, Agrees
<1>2. CASE kept /\ todo # <<>> /\ Call
  BY <1>2, CallKeeps
<1>3. CASE kept /\ todo = <<>> /\ Operation
  <2>1. Quiet(buf)
    BY <1>3 DEF Agrees, Steady
  <2> QED
    BY <1>3, <2>1, OneItemKeeps, OnFoundKeeps, SortKeeps, WriteBlockKeeps,
       PushFrontBlockKeeps, ReadBytesKeeps DEF Operation
<1> QED
  BY <1>1, <1>2, <1>3 DEF Next

\* After any sound uses the two indexes and the count tell the same number of
\* items, for every capacity, and every content.
THEOREM CircularBuffer_IndexesAgree == Spec => []IndexesAgree
<1>1. Agrees => IndexesAgree
  <2> SUFFICES ASSUME Agrees, kept, todo = <<>>
               PROVE  /\ buf.available \in 0 .. _size
                      /\ buf.head \in 0 .. (2 * _size - 1)
                      /\ buf.tail = Turn(buf.head + buf.available)
    BY DEF IndexesAgree
  <2>1. Holds(buf) /\ buf.available = Count(buf)
    BY DEF Agrees, Steady, Quiet
  <2> DEFINE h == buf.head
             t == buf.tail
             a == buf.available
             x == h + a
  <2>2. /\ h \in 0 .. 2 * _size - 1 /\ t \in 0 .. 2 * _size - 1 /\ a \in 0 .. _size
        /\ a = IF t >= h THEN t - h ELSE t - h + 2 * _size
    BY <2>1, CountLemma DEF Holds, Rings
  <2>3. /\ x \in -2 * _size .. 4 * _size - 1 /\ ~(x < 0)
        /\ t = IF x < 2 * _size THEN x ELSE x - 2 * _size
    <3> HIDE DEF h, t, a
    <3> QED
      BY <2>2, SizeFact
  <2> HIDE DEF x
  <2>4. Turn(x) = IF x < 2 * _size THEN x ELSE x - 2 * _size
    BY <2>3, TurnLemma
  <2> QED
    BY <2>2, <2>3, <2>4 DEF x
<1> QED
  BY <1>1, AgreesInit, AgreesStep, PTL DEF Spec

-----------------------------------------------------------------------------
(* What the deque does to a sequence, item by item.                        *)

LEMMA FinalLemma ==
  ASSUME NEW S, NEW s \in Seq(S), NEW n \in Nat,
         NEW m \in 0 .. Len(s), m = IF n < Len(s) THEN n ELSE Len(s)
  PROVE  /\ D!Final(s, n) \in Seq(S) /\ Len(D!Final(s, n)) = m
         /\ \A i \in 1 .. m : D!Final(s, n)[i] = s[Len(s) - m + i]
<1> DEFINE l == Len(s)
           a == IF n < l THEN l - n + 1 ELSE 1
<1>1. l \in Nat /\ a \in Int /\ a >= 1 /\ a = l - m + 1 /\ m \in 0 .. l
  BY LenProperties
<1>2. D!Final(s, n) = SubSeq(s, a, l)
  BY DEF D!Final
<1>3. \A i \in 1 .. l : s[i] \in S
  BY ElementOfSeq
<1> HIDE DEF a, l
<1>4. \A i \in a .. l : s[i] \in S
  BY <1>1, <1>3
<1>5. /\ SubSeq(s, a, l) \in Seq(S)
      /\ Len(SubSeq(s, a, l)) = IF a <= l THEN l - a + 1 ELSE 0
      /\ \A i \in 1 .. l - a + 1 : SubSeq(s, a, l)[i] = s[a + i - 1]
  <2>1. a \in Int /\ l \in Int
    BY <1>1
  <2> QED
    BY <1>4, <2>1, SubSeqProperties
<1>6. /\ l - a + 1 = m /\ (IF a <= l THEN l - a + 1 ELSE 0) = m
      /\ \A i \in 1 .. m : a + i - 1 = l - m + i
  BY <1>1
<1> QED
  BY <1>2, <1>5, <1>6 DEF l

LEMMA FirstLemma ==
  ASSUME NEW S, NEW s \in Seq(S), NEW n \in Nat,
         NEW m \in 0 .. Len(s), m = IF n < Len(s) THEN n ELSE Len(s)
  PROVE  /\ D!First(s, n) \in Seq(S) /\ Len(D!First(s, n)) = m
         /\ \A i \in 1 .. m : D!First(s, n)[i] = s[i]
<1>1. Len(s) \in Nat /\ m \in 0 .. Len(s)
  BY LenProperties
<1>2. D!First(s, n) = SubSeq(s, 1, m)
  BY DEF D!First
<1>3. \A i \in 1 .. m : s[i] \in S
  BY <1>1, ElementOfSeq
<1>4. /\ SubSeq(s, 1, m) \in Seq(S)
      /\ Len(SubSeq(s, 1, m)) = IF 1 <= m THEN m - 1 + 1 ELSE 0
      /\ \A i \in 1 .. m - 1 + 1 : SubSeq(s, 1, m)[i] = s[1 + i - 1]
  BY <1>1, <1>3, SubSeqProperties
<1>5. /\ m - 1 + 1 = m /\ (IF 1 <= m THEN m - 1 + 1 ELSE 0) = m
      /\ \A i \in 1 .. m : 1 + i - 1 = i
  BY <1>1
<1> QED
  BY <1>2, <1>4, <1>5

\* r is q without its first k items, and then x: the last n of both.
Follows(q, x, r, n, k) ==
  /\ k \in 0 .. Len(q) /\ Len(r) = Len(q) + Len(x) - k
  /\ n < Len(q) + Len(x) => Len(r) = n
  /\ n >= Len(q) + Len(x) => k = 0
  /\ \A i \in 1 .. Len(q) - k : r[i] = q[i + k]
  /\ \A i \in 1 .. Len(x) : r[Len(q) - k + i] = x[i]

LEMMA PushedBack ==
  ASSUME NEW S, NEW q \in Seq(S), NEW x \in Seq(S), NEW r \in Seq(S),
         NEW n \in Nat, NEW k, Follows(q, x, r, n, k)
  PROVE  r = D!Final(q \o x, n)
<1> DEFINE s == q \o x
           l == Len(q)
           j == Len(x)
           f == D!Final(s, n)
           m == Len(r)
<1>1. /\ l \in Nat /\ j \in Nat /\ s \in Seq(S) /\ Len(s) = l + j
      /\ \A i \in 1 .. l + j : s[i] = IF i <= l THEN q[i] ELSE x[i - l]
  BY LenProperties, ConcatProperties
<1>2. /\ m = l + j - k /\ k \in 0 .. l /\ m \in Nat
      /\ m = IF n < l + j THEN n ELSE l + j
  <2>1. /\ k \in 0 .. l /\ m = l + j - k
        /\ n < l + j => m = n
        /\ n >= l + j => k = 0
    BY DEF Follows
  <2> HIDE DEF l, j, m, s
  <2> QED
    BY <1>1, <2>1
<1>3. /\ \A i \in 1 .. l - k : r[i] = q[i + k]
      /\ \A i \in 1 .. j : r[l - k + i] = x[i]
  BY DEF Follows
<1> HIDE DEF s, l, j
<1>4. /\ f \in Seq(S) /\ Len(f) = m
      /\ \A i \in 1 .. m : f[i] = s[l + j - m + i]
  <2> HIDE DEF m
  <2>1. /\ m \in 0 .. Len(s) /\ m = IF n < Len(s) THEN n ELSE Len(s)
        /\ s \in Seq(S) /\ n \in Nat
    BY <1>1, <1>2
  <2>2. /\ f \in Seq(S) /\ Len(f) = m
        /\ \A i \in 1 .. m : f[i] = s[Len(s) - m + i]
    BY ONLY <2>1, FinalLemma
  <2>3. \A i \in 1 .. m : Len(s) - m + i = l + j - m + i
    BY <1>1, <2>1
  <2> HIDE DEF f
  <2> QED
    BY <2>2, <2>3
<1> HIDE DEF f, m
<1>5. ASSUME NEW i \in 1 .. m
      PROVE  r[i] = f[i]
  <2>1. f[i] = s[k + i]
    <3>1. l + j - m + i = k + i
      BY <1>1, <1>2
    <3> QED
      BY <1>4, <3>1
  <2>2. k + i \in 1 .. l + j
    BY <1>1, <1>2
  <2>3. CASE i <= l - k
    <3>1. k + i <= l /\ i + k = k + i /\ i \in 1 .. l - k
      BY <1>1, <1>2, <2>3
    <3> QED
      BY <1>1, <1>3, <2>1, <2>2, <3>1
  <2>4. CASE i > l - k
    <3> DEFINE p == i - (l - k)
    <3>1. p \in 1 .. j /\ l - k + p = i /\ (k + i) - l = p /\ ~(k + i <= l)
      BY <1>1, <1>2, <2>4
    <3> HIDE DEF p
    <3> QED
      BY <1>1, <1>3, <2>1, <2>2, <3>1
  <2> QED
    BY <1>1, <1>2, <2>3, <2>4
<1>6. r = f
  <2>1. Len(r) = Len(f) /\ \A i \in 1 .. Len(r) : r[i] = f[i]
    BY <1>4, <1>5 DEF m
  <2> QED
    BY <1>4, <2>1, SeqEqual
<1> QED
  BY <1>6 DEF f, s

\* One pushed in front: the first n of it and of q.
LEMMA PushedFront ==
  ASSUME NEW S, NEW q \in Seq(S), NEW x \in S, NEW r \in Seq(S),
         NEW n \in Nat \ {0}, Len(q) <= n,
         Len(r) = IF Len(q) < n THEN Len(q) + 1 ELSE n,
         r[1] = x, \A i \in 2 .. Len(r) : r[i] = q[i - 1]
  PROVE  r = D!First(<<x>> \o q, n)
<1> DEFINE s == <<x>> \o q
           l == Len(q)
           f == D!First(s, n)
           m == Len(r)
<1>1. /\ l \in Nat /\ s \in Seq(S) /\ Len(s) = 1 + l
      /\ \A i \in 1 .. 1 + l : s[i] = IF i <= 1 THEN <<x>>[i] ELSE q[i - 1]
  <2>1. <<x>> \in Seq(S) /\ Len(<<x>>) = 1
    OBVIOUS
  <2> QED
    BY <2>1, LenProperties, ConcatProperties
<1>2. m \in 1 .. 1 + l /\ m = IF n < 1 + l THEN n ELSE 1 + l
  BY <1>1
<1> HIDE DEF s
<1>3. f \in Seq(S) /\ Len(f) = m /\ \A i \in 1 .. m : f[i] = s[i]
  <2> HIDE DEF m, l
  <2>1. m \in 0 .. Len(s) /\ m = IF n < Len(s) THEN n ELSE Len(s)
    BY <1>1, <1>2
  <2> QED
    BY <1>1, <2>1, FirstLemma
<1>4. ASSUME NEW i \in 1 .. m
      PROVE  r[i] = f[i]
  <2>1. f[i] = s[i] /\ i \in 1 .. 1 + l
    BY <1>2, <1>3
  <2>2. CASE i = 1
    BY <1>1, <2>1, <2>2
  <2>3. CASE i # 1
    <3>1. i \in 2 .. m /\ ~(i <= 1)
      BY <1>2, <2>3
    <3> QED
      BY <1>1, <2>1, <3>1
  <2> QED
    BY <2>2, <2>3
<1> HIDE DEF f
<1>5. r = f
  BY <1>3, <1>4, SeqEqual
<1> QED
  BY <1>5 DEF f, s

\* k items taken from the front.
LEMMA PoppedFront ==
  ASSUME NEW S, NEW q \in Seq(S), NEW k \in 0 .. Len(q),
         NEW x \in Seq(S), Len(x) = k, \A i \in 1 .. k : x[i] = q[i],
         NEW r \in Seq(S), Len(r) = Len(q) - k,
         \A i \in 1 .. Len(r) : r[i] = q[i + k]
  PROVE  x = D!First(q, k) /\ r = D!Final(q, Len(q) - k)
<1> DEFINE l == Len(q)
           n == l - k
           f == D!First(q, k)
           g == D!Final(q, n)
<1>1. l \in Nat /\ k \in Nat /\ n \in Nat /\ k <= l /\ n <= l
  BY LenProperties
<1>2. f \in Seq(S) /\ Len(f) = k /\ \A i \in 1 .. k : f[i] = q[i]
  <2>1. k \in 0 .. Len(q) /\ k = IF k < Len(q) THEN k ELSE Len(q)
    BY <1>1
  <2> QED
    BY <1>1, <2>1, FirstLemma
<1>3. g \in Seq(S) /\ Len(g) = n /\ \A i \in 1 .. n : g[i] = q[i + k]
  <2>1. n \in 0 .. Len(q) /\ n = IF n < Len(q) THEN n ELSE Len(q)
    BY <1>1
  <2>2. \A i \in 1 .. n : l - n + i = i + k
    BY <1>1
  <2> HIDE DEF n
  <2>3. g \in Seq(S) /\ Len(g) = n /\ \A i \in 1 .. n : g[i] = q[Len(q) - n + i]
    BY <1>1, <2>1, FinalLemma
  <2> QED
    BY <2>2, <2>3
<1> HIDE DEF f, g
<1>4. x = f
  BY <1>2, SeqEqual
<1>5. r = g
  BY <1>3, SeqEqual
<1> QED
  BY <1>4, <1>5 DEF f, g

LEMMA PoppedBack ==
  ASSUME NEW S, NEW q \in Seq(S), NEW r \in Seq(S), Len(q) > 0,
         Len(r) = Len(q) - 1, \A i \in 1 .. Len(r) : r[i] = q[i]
  PROVE  q # <<>> /\ r = Front(q)
<1> DEFINE l == Len(q)
           n == l - 1
           f == Front(q)
<1>1. l \in Nat /\ n \in Nat
  BY LenProperties
<1>2. \A i \in 1 .. n : q[i] \in S
  BY <1>1, ElementOfSeq
<1>3. /\ SubSeq(q, 1, n) \in Seq(S)
      /\ Len(SubSeq(q, 1, n)) = IF 1 <= n THEN n - 1 + 1 ELSE 0
      /\ \A i \in 1 .. n - 1 + 1 : SubSeq(q, 1, n)[i] = q[1 + i - 1]
  <2> HIDE DEF n
  <2> QED
    BY <1>1, <1>2, SubSeqProperties
<1>4. f = SubSeq(q, 1, n)
  BY DEF Front
<1>5. f \in Seq(S) /\ Len(f) = n /\ \A i \in 1 .. n : f[i] = q[i]
  <2>1. /\ n - 1 + 1 = n /\ (IF 1 <= n THEN n - 1 + 1 ELSE 0) = n
        /\ \A i \in 1 .. n : 1 + i - 1 = i
    BY <1>1
  <2> HIDE DEF n, f
  <2> QED
    BY <1>3, <1>4, <2>1
<1> HIDE DEF f
<1>6. r = f
  BY <1>5, SeqEqual
<1> QED
  BY <1>6, EmptySeq DEF f

\* The item at p taken out.
LEMMA TakenOut ==
  ASSUME NEW S, NEW q \in Seq(S), NEW p \in 1 .. Len(q), NEW r \in Seq(S),
         Len(r) = Len(q) - 1,
         \A i \in 1 .. Len(r) : r[i] = IF i < p THEN q[i] ELSE q[i + 1]
  PROVE  r = RemoveAt(q, p)
<1> DEFINE l == Len(q)
           u == SubSeq(q, 1, p - 1)
           v == SubSeq(q, p + 1, l)
           f == RemoveAt(q, p)
<1>1. l \in Nat /\ p \in Nat /\ 1 <= p /\ p <= l
  BY LenProperties
<1>2. u \in Seq(S) /\ Len(u) = p - 1 /\ \A i \in 1 .. p - 1 : u[i] = q[i]
  <2> DEFINE n == p - 1
  <2>1. n \in Nat /\ \A i \in 1 .. n : q[i] \in S
    BY <1>1, ElementOfSeq
  <2> HIDE DEF n
  <2>2. /\ SubSeq(q, 1, n) \in Seq(S)
        /\ Len(SubSeq(q, 1, n)) = IF 1 <= n THEN n - 1 + 1 ELSE 0
        /\ \A i \in 1 .. n - 1 + 1 : SubSeq(q, 1, n)[i] = q[1 + i - 1]
    BY <2>1, SubSeqProperties
  <2>3. /\ n - 1 + 1 = n /\ (IF 1 <= n THEN n - 1 + 1 ELSE 0) = n
        /\ \A i \in 1 .. n : 1 + i - 1 = i
    BY <2>1
  <2>4. /\ SubSeq(q, 1, n) \in Seq(S) /\ Len(SubSeq(q, 1, n)) = n
        /\ \A i \in 1 .. n : SubSeq(q, 1, n)[i] = q[i]
    BY <2>2, <2>3
  <2> QED
    BY <2>4 DEF n
<1>3. v \in Seq(S) /\ Len(v) = l - p /\ \A i \in 1 .. l - p : v[i] = q[p + i]
  <2> DEFINE a == p + 1
  <2>1. a \in Int /\ \A i \in a .. l : q[i] \in S
    BY <1>1, ElementOfSeq
  <2>2. /\ l - a + 1 = l - p /\ (IF a <= l THEN l - a + 1 ELSE 0) = l - p
        /\ \A i \in 1 .. l - p : a + i - 1 = p + i
    BY <1>1
  <2> HIDE DEF a
  <2>3. /\ SubSeq(q, a, l) \in Seq(S)
        /\ Len(SubSeq(q, a, l)) = IF a <= l THEN l - a + 1 ELSE 0
        /\ \A i \in 1 .. l - a + 1 : SubSeq(q, a, l)[i] = q[a + i - 1]
    BY <1>1, <2>1, SubSeqProperties
  <2>4. /\ SubSeq(q, a, l) \in Seq(S) /\ Len(SubSeq(q, a, l)) = l - p
        /\ \A i \in 1 .. l - p : SubSeq(q, a, l)[i] = q[p + i]
    BY <2>2, <2>3
  <2> QED
    BY <2>4 DEF a
<1>4. f = u \o v
  BY DEF RemoveAt
<1> HIDE DEF u, v, f
<1>5. /\ f \in Seq(S) /\ Len(f) = l - 1
      /\ \A i \in 1 .. l - 1 : f[i] = IF i < p THEN q[i] ELSE q[i + 1]
  <2>1. /\ u \o v \in Seq(S) /\ Len(u \o v) = Len(u) + Len(v)
        /\ \A i \in 1 .. Len(u) + Len(v) :
             (u \o v)[i] = IF i <= Len(u) THEN u[i] ELSE v[i - Len(u)]
    BY <1>2, <1>3, ConcatProperties
  <2>2. Len(u) + Len(v) = l - 1
    BY <1>1, <1>2, <1>3
  <2>3. ASSUME NEW i \in 1 .. l - 1
        PROVE  f[i] = IF i < p THEN q[i] ELSE q[i + 1]
    <3>1. f[i] = IF i <= p - 1 THEN u[i] ELSE v[i - (p - 1)]
      BY <1>2, <1>4, <2>1, <2>2
    <3>2. CASE i < p
      <4>1. i \in 1 .. p - 1 /\ i <= p - 1
        BY <1>1, <3>2
      <4> QED
        BY <1>2, <3>1, <3>2, <4>1
    <3>3. CASE ~(i < p)
      <4> DEFINE j == i - (p - 1)
      <4>1. j \in 1 .. l - p /\ ~(i <= p - 1) /\ p + j = i + 1
        BY <1>1, <3>3
      <4> HIDE DEF j
      <4>2. f[i] = v[j]
        BY <3>1, <4>1 DEF j
      <4> QED
        BY <1>3, <3>3, <4>1, <4>2
    <3> QED
      BY <3>2, <3>3
  <2> QED
    BY <1>4, <2>1, <2>2, <2>3
<1>6. r = f
  BY <1>5, SeqEqual
<1> QED
  BY <1>6 DEF f

-----------------------------------------------------------------------------
(* What the operations do to the contents.                                 *)

LEMMA ItemsFact == \A c \in CellSet : Item(c) \in Items
  BY DEF Items

LEMMA WrittenContents ==
  ASSUME NEW b, Holds(b), NEW y \in CellSet
  PROVE  ContentsOf(Written(b, y)) = D!Final(ContentsOf(b) \o <<Item(y)>>, _size)
<1> DEFINE k == IF Count(b) = _size THEN 1 ELSE 0
           c == Written(b, y)
           m == Count(b)
           q == ContentsOf(b)
           r == ContentsOf(c)
           x == <<Item(y)>>
<1>1. m \in 0 .. _size /\ k \in 0 .. 1 /\ k \in 0 .. m /\ _size \in Nat \ {0}
  BY CountLemma, SizeFact DEF Holds
<1> HIDE DEF k
<1>2. /\ Holds(c) /\ Count(c) = m + 1 - k /\ Cell(c, m - k) = y
      /\ \A i \in 0 .. m - k - 1 : Cell(c, i) = Cell(b, i + k)
  BY <1>1, WrittenLemma DEF k
<1>3. /\ q \in Seq(Items) /\ Len(q) = m
      /\ \A i \in 1 .. m : q[i] = Item(Cell(b, i - 1))
  BY ContentsLemma
<1> HIDE DEF c, m, q
<1>4. /\ r \in Seq(Items) /\ Len(r) = m + 1 - k
      /\ \A i \in 1 .. m + 1 - k : r[i] = Item(Cell(c, i - 1))
  BY <1>2, ContentsLemma
<1>5. x \in Seq(Items) /\ Len(x) = 1 /\ x[1] = Item(y)
  BY ItemsFact
<1> HIDE DEF r, x
<1>6. ASSUME NEW i \in 1 .. m - k
      PROVE  r[i] = q[i + k]
  <2>1. /\ i \in 1 .. m + 1 - k /\ i - 1 \in 0 .. m - k - 1
        /\ (i - 1) + k = (i + k) - 1 /\ i + k \in 1 .. m
    BY <1>1
  <2>2. Cell(c, i - 1) = Cell(b, (i + k) - 1)
    BY <1>2, <2>1
  <2>3. q[i + k] = Item(Cell(b, (i + k) - 1))
    BY <1>3, <2>1
  <2> QED
    BY <1>4, <2>1, <2>2, <2>3
<1>7. r[m - k + 1] = Item(y)
  <2>1. m - k + 1 \in 1 .. m + 1 - k /\ (m - k + 1) - 1 = m - k
    BY <1>1
  <2> QED
    BY <1>2, <1>4, <2>1
<1>8. /\ Len(r) = Len(q) + Len(x) - k
      /\ _size < Len(q) + Len(x) => Len(r) = _size
      /\ _size >= Len(q) + Len(x) => k = 0
      /\ \A i \in 1 .. Len(q) - k : r[i] = q[i + k]
      /\ \A i \in 1 .. Len(x) : r[Len(q) - k + i] = x[i]
      /\ k \in 0 .. Len(q)
  BY <1>1, <1>3, <1>4, <1>5, <1>6, <1>7 DEF k, m
<1>9. r = D!Final(q \o x, _size)
  <2>1. Follows(q, x, r, _size, k)
    BY <1>8 DEF Follows
  <2> QED
    BY <1>1, <1>3, <1>4, <1>5, <2>1, PushedBack
<1> QED
  BY <1>9 DEF r, q, x, c

LEMMA PutFirstContents ==
  ASSUME NEW b, Holds(b), Count(b) < _size, NEW y \in CellSet
  PROVE  /\ Count(PutFirst(b, y)) = Count(b) + 1
         /\ ContentsOf(PutFirst(b, y)) \in Seq(Items)
         /\ Len(ContentsOf(PutFirst(b, y))) = Count(b) + 1
         /\ ContentsOf(PutFirst(b, y))[1] = Item(y)
         /\ \A i \in 2 .. Count(b) + 1 :
              ContentsOf(PutFirst(b, y))[i] = Item(Cell(b, i - 2))
<1> DEFINE c == PutFirst(b, y)
           m == Count(b)
           r == ContentsOf(c)
<1>1. m \in 0 .. _size
  BY CountLemma, SizeFact DEF Holds
<1>2. /\ Holds(c) /\ Count(c) = m + 1 /\ Cell(c, 0) = y
      /\ \A i \in 1 .. m : Cell(c, i) = Cell(b, i - 1)
  BY PutFirstLemma
<1> HIDE DEF c, m
<1>3. /\ r \in Seq(Items) /\ Len(r) = m + 1
      /\ \A i \in 1 .. m + 1 : r[i] = Item(Cell(c, i - 1))
  BY <1>2, ContentsLemma
<1> HIDE DEF r
<1>4. r[1] = Item(y)
  <2>1. 1 \in 1 .. m + 1 /\ 1 - 1 = 0
    BY <1>1
  <2> QED
    BY <1>2, <1>3, <2>1
<1>5. ASSUME NEW i \in 2 .. m + 1
      PROVE  r[i] = Item(Cell(b, i - 2))
  <2>1. i \in 1 .. m + 1 /\ i - 1 \in 1 .. m /\ (i - 1) - 1 = i - 2
    BY <1>1
  <2>2. Cell(c, i - 1) = Cell(b, i - 2)
    BY <1>2, <2>1
  <2> QED
    BY <1>3, <2>1, <2>2
<1> QED
  BY <1>2, <1>3, <1>4, <1>5 DEF c, m, r

LEMMA PutFirstPushes ==
  ASSUME NEW b, Holds(b), Count(b) < _size, NEW y \in CellSet
  PROVE  ContentsOf(PutFirst(b, y)) = D!First(<<Item(y)>> \o ContentsOf(b), _size)
<1> DEFINE m == Count(b)
           q == ContentsOf(b)
           r == ContentsOf(PutFirst(b, y))
           x == Item(y)
<1>1. m \in 0 .. _size /\ _size \in Nat \ {0} /\ x \in Items /\ m < _size
  BY CountLemma, SizeFact, ItemsFact DEF Holds
<1>2. /\ r \in Seq(Items) /\ Len(r) = m + 1 /\ r[1] = x
      /\ \A i \in 2 .. m + 1 : r[i] = Item(Cell(b, i - 2))
  BY PutFirstContents
<1>3. /\ q \in Seq(Items) /\ Len(q) = m
      /\ \A i \in 1 .. m : q[i] = Item(Cell(b, i - 1))
  BY ContentsLemma
<1> HIDE DEF m, q, r, x
<1>4. ASSUME NEW i \in 2 .. m + 1
      PROVE  r[i] = q[i - 1]
  <2>1. i - 1 \in 1 .. m /\ (i - 1) - 1 = i - 2
    BY <1>1
  <2> QED
    BY <1>2, <1>3, <2>1
<1>5. /\ Len(q) <= _size /\ Len(r) = IF Len(q) < _size THEN Len(q) + 1 ELSE _size
      /\ \A i \in 2 .. Len(r) : r[i] = q[i - 1]
  BY <1>1, <1>2, <1>3, <1>4
<1>6. r = D!First(<<x>> \o q, _size)
  BY <1>1, <1>2, <1>3, <1>5, PushedFront
<1> QED
  BY <1>6 DEF q, r, x

LEMMA AdvancedPops ==
  ASSUME NEW b, Holds(b), NEW k \in 0 .. Count(b), NEW a \in 0 .. _size,
         NEW x, x = [i \in 1 .. k |-> Item(Cell(b, i - 1))]
  PROVE  /\ x = D!First(ContentsOf(b), k)
         /\ ContentsOf(Advanced(b, a, k)) =
              D!Final(ContentsOf(b), Len(ContentsOf(b)) - k)
         /\ k \in 0 .. Len(ContentsOf(b))
<1> DEFINE c == Advanced(b, a, k)
           m == Count(b)
           q == ContentsOf(b)
           r == ContentsOf(c)
<1>1. m \in 0 .. _size /\ m \in Nat /\ k \in 0 .. m /\ k \in Nat
  BY CountLemma, SizeFact DEF Holds
<1>2. /\ Holds(c) /\ Count(c) = m - k
      /\ \A i \in Int : Cell(c, i) = Cell(b, i + k)
  BY AdvancedLemma
<1>3. /\ q \in Seq(Items) /\ Len(q) = m
      /\ \A i \in 1 .. m : q[i] = Item(Cell(b, i - 1))
  BY ContentsLemma
<1> HIDE DEF c, m, q
<1>4. /\ r \in Seq(Items) /\ Len(r) = m - k
      /\ \A i \in 1 .. m - k : r[i] = Item(Cell(c, i - 1))
  BY <1>2, ContentsLemma
<1> HIDE DEF r
<1>5. ASSUME NEW i \in 1 .. m - k
      PROVE  r[i] = q[i + k]
  <2>1. i - 1 \in Int /\ (i - 1) + k = (i + k) - 1 /\ i + k \in 1 .. m
    BY <1>1
  <2>2. Cell(c, i - 1) = Cell(b, (i + k) - 1)
    BY <1>2, <2>1
  <2>3. q[i + k] = Item(Cell(b, (i + k) - 1))
    BY <1>3, <2>1
  <2> QED
    BY <1>4, <2>2, <2>3
<1>6. x \in Seq(Items) /\ Len(x) = k /\ \A i \in 1 .. k : x[i] = q[i]
  <2>1. \A i \in 1 .. k : i \in 1 .. m
    BY <1>1
  <2>2. \A i \in 1 .. k : x[i] = Item(Cell(b, i - 1)) /\ x[i] = q[i]
    BY <1>3, <2>1
  <2>3. \A i \in 1 .. k : q[i] \in Items
    BY <1>3, <2>1, ElementOfSeq
  <2>4. x = [i \in 1 .. k |-> q[i]]
    BY <2>2
  <2>5. [i \in 1 .. k |-> q[i]] \in Seq(Items) /\ Len([i \in 1 .. k |-> q[i]]) = k
    BY <1>1, <2>3
  <2> QED
    BY <2>2, <2>4, <2>5
<1>7. k \in 0 .. Len(q) /\ Len(r) = Len(q) - k /\ \A i \in 1 .. Len(r) : r[i] = q[i + k]
  BY <1>1, <1>3, <1>4, <1>5
<1>8. x = D!First(q, k) /\ r = D!Final(q, Len(q) - k)
  BY <1>3, <1>4, <1>6, <1>7, PoppedFront
<1> QED
  BY <1>7, <1>8 DEF q, r, c

LEMMA CopiedContents ==
  ASSUME NEW b, Holds(b), NEW s \in Seq(Values), NEW a \in 0 .. _size,
         Len(s) < _size - b.tail, Count(b) + Len(s) <= _size, ~multi
  PROVE  ContentsOf(Copied(b, a, s)) = D!Final(ContentsOf(b) \o s, _size)
<1> DEFINE c == Copied(b, a, s)
           n == Len(s)
           m == Count(b)
           q == ContentsOf(b)
           r == ContentsOf(c)
<1>1. m \in 0 .. _size /\ n \in Nat /\ m + n <= _size /\ _size \in Nat
  BY CountLemma, SizeFact, LenProperties DEF Holds
<1>2. /\ Holds(c) /\ Count(c) = m + n
      /\ \A i \in 0 .. m - 1 : Cell(c, i) = Cell(b, i)
      /\ \A i \in 1 .. n : Cell(c, m + i - 1) = s[i]
  BY CopiedLemma
<1>3. /\ q \in Seq(Items) /\ Len(q) = m
      /\ \A i \in 1 .. m : q[i] = Item(Cell(b, i - 1))
  BY ContentsLemma
<1>4. \A i \in 1 .. n : s[i] \in Values /\ Item(s[i]) = s[i] /\ s[i] \in Items
  <2> SUFFICES ASSUME NEW i \in 1 .. n
               PROVE  s[i] \in Values /\ Item(s[i]) = s[i] /\ s[i] \in Items
    OBVIOUS
  <2>1. s[i] \in Values
    OBVIOUS
  <2>2. s[i] \in CellSet /\ Item(s[i]) = s[i]
    BY <2>1, ItemLemma
  <2>3. Item(s[i]) \in Items
    BY <2>2, ItemsFact
  <2> QED
    BY <2>1, <2>2, <2>3
<1>5. s \in Seq(Items)
  <2>1. s = [i \in 1 .. n |-> s[i]]
    OBVIOUS
  <2> HIDE DEF n
  <2>2. [i \in 1 .. n |-> s[i]] \in Seq(Items)
    BY <1>1, <1>4
  <2> QED
    BY <2>1, <2>2
<1> HIDE DEF c, m, n, q
<1>6. /\ r \in Seq(Items) /\ Len(r) = m + n
      /\ \A i \in 1 .. m + n : r[i] = Item(Cell(c, i - 1))
  BY <1>2, ContentsLemma
<1> HIDE DEF r
<1>7. ASSUME NEW i \in 1 .. m
      PROVE  r[i] = q[i]
  <2>1. i \in 1 .. m + n /\ i - 1 \in 0 .. m - 1
    BY <1>1
  <2> QED
    BY <1>2, <1>3, <1>6, <2>1
<1>8. ASSUME NEW i \in 1 .. n
      PROVE  r[m + i] = s[i]
  <2>1. m + i \in 1 .. m + n /\ (m + i) - 1 = m + i - 1
    BY <1>1
  <2>2. Cell(c, (m + i) - 1) = s[i]
    BY <1>2, <2>1
  <2> QED
    BY <1>4, <1>6, <2>1, <2>2
<1>9. Follows(q, s, r, _size, 0)
  <2>1. 0 \in 0 .. m /\ m + n - 0 = m + n /\ m - 0 = m /\ (_size < m + n => m + n = _size)
    BY <1>1
  <2>2. \A i \in 1 .. m : i + 0 = i
    OBVIOUS
  <2> QED
    BY <1>3, <1>6, <1>7, <1>8, <2>1, <2>2 DEF Follows, n
<1>10. r = D!Final(q \o s, _size)
  BY <1>1, <1>3, <1>5, <1>6, <1>9, PushedBack
<1> QED
  BY <1>10 DEF r, q, c

LEMMA ShortenedContents ==
  ASSUME NEW b, Holds(b), Count(b) > 0, NEW a \in 0 .. _size,
         NEW c, c = [b EXCEPT !.tail = Turn(@ - 1), !.available = a]
  PROVE  /\ Holds(c) /\ c.available = a /\ Count(c) = Count(b) - 1
         /\ ContentsOf(b) # <<>> /\ ContentsOf(c) = Front(ContentsOf(b))
         /\ Item(b.cells[(b.tail - 1) % _size]) = Last(ContentsOf(b))
<1> DEFINE m == Count(b)
           q == ContentsOf(b)
           r == ContentsOf(c)
           last == b.cells[(b.tail - 1) % _size]
<1>1. m \in 0 .. _size /\ m > 0
  BY CountLemma, SizeFact DEF Holds
<1>2. /\ Holds(c) /\ c.available = a /\ Count(c) = m - 1
      /\ \A i \in Int : Cell(c, i) = Cell(b, i)
      /\ last = Cell(b, m - 1)
  BY ShortenedLemma
<1>3. /\ q \in Seq(Items) /\ Len(q) = m
      /\ \A i \in 1 .. m : q[i] = Item(Cell(b, i - 1))
  BY ContentsLemma
<1> HIDE DEF m, q, last
<1>4. /\ r \in Seq(Items) /\ Len(r) = m - 1
      /\ \A i \in 1 .. m - 1 : r[i] = Item(Cell(c, i - 1))
  BY <1>2, ContentsLemma
<1> HIDE DEF r
<1>5. ASSUME NEW i \in 1 .. m - 1
      PROVE  r[i] = q[i]
  <2>1. i \in 1 .. m /\ i - 1 \in Int
    BY <1>1
  <2> QED
    BY <1>2, <1>3, <1>4, <2>1
<1>6. q # <<>> /\ r = Front(q)
  <2>1. Len(q) > 0 /\ Len(r) = Len(q) - 1 /\ \A i \in 1 .. Len(r) : r[i] = q[i]
    BY <1>1, <1>3, <1>4, <1>5
  <2> QED
    BY <1>3, <1>4, <2>1, PoppedBack
<1>7. Item(last) = Last(q)
  <2>1. m \in 1 .. m
    BY <1>1
  <2> QED
    BY <1>2, <1>3, <2>1 DEF Last
<1> QED
  BY <1>2, <1>6, <1>7 DEF m, q, r, last

LEMMA RemovedContents ==
  ASSUME NEW b, Holds(b), NEW a \in 0 .. Count(b) - 1, b.available > 0
  PROVE  /\ a + 1 \in DOMAIN ContentsOf(b)
         /\ ContentsOf(b)[a + 1] = Item(b.cells[Place(b, a)])
         /\ ContentsOf(Removed(b, Place(b, a))) = RemoveAt(ContentsOf(b), a + 1)
<1> DEFINE m == Count(b)
           p == a + 1
           q == ContentsOf(b)
           c == Removed(b, Place(b, a))
           r == ContentsOf(c)
<1>1. m \in 0 .. _size /\ a \in 0 .. m - 1 /\ p \in 1 .. m /\ p - 1 = a
  <2>1. m \in 0 .. _size
    BY CountLemma, SizeFact DEF Holds
  <2> QED
    BY <2>1
<1>2. /\ Holds(c) /\ Count(c) = m - 1
      /\ \A i \in 0 .. m - 2 :
           Cell(c, i) = IF i < a THEN Cell(b, i) ELSE Cell(b, i + 1)
  BY RemovedLemma
<1>3. /\ q \in Seq(Items) /\ Len(q) = m
      /\ \A i \in 1 .. m : q[i] = Item(Cell(b, i - 1))
  BY ContentsLemma
<1> HIDE DEF m, p, q, c
<1>4. /\ r \in Seq(Items) /\ Len(r) = m - 1
      /\ \A i \in 1 .. m - 1 : r[i] = Item(Cell(c, i - 1))
  BY <1>2, ContentsLemma
<1> HIDE DEF r
<1>5. ASSUME NEW i \in 1 .. m - 1
      PROVE  r[i] = IF i < p THEN q[i] ELSE q[i + 1]
  <2> DEFINE j == i - 1
  <2>1. /\ j \in 0 .. m - 2 /\ i \in 1 .. m /\ i + 1 \in 1 .. m
        /\ (i + 1) - 1 = j + 1 /\ (i < p <=> j < a)
    BY <1>1
  <2>2. r[i] = Item(Cell(c, j)) /\ q[i] = Item(Cell(b, j))
    BY <1>3, <1>4, <2>1
  <2>3. q[i + 1] = Item(Cell(b, (i + 1) - 1))
    BY <1>3, <2>1
  <2> HIDE DEF j
  <2> QED
    BY <1>2, <2>1, <2>2, <2>3
<1>6. r = RemoveAt(q, p)
  <2>1. /\ p \in 1 .. Len(q) /\ Len(r) = Len(q) - 1
        /\ \A i \in 1 .. Len(r) : r[i] = IF i < p THEN q[i] ELSE q[i + 1]
    BY <1>1, <1>3, <1>4, <1>5
  <2> QED
    BY <1>3, <1>4, <2>1, TakenOut
<1>7. q[p] = Item(b.cells[Place(b, a)])
  BY <1>1, <1>3 DEF Cell, Place
<1>8. p \in DOMAIN q
  BY <1>1, <1>3
<1> QED
  BY <1>6, <1>7, <1>8 DEF p, q, c, r

LEMMA ReplacedContents ==
  ASSUME NEW b, Holds(b), NEW a \in 0 .. Count(b) - 1, NEW x \in CellSet,
         NEW c, c = [b EXCEPT !.cells[Place(b, a)] = x]
  PROVE  /\ a + 1 \in DOMAIN ContentsOf(b)
         /\ ContentsOf(c) = [ContentsOf(b) EXCEPT ![a + 1] = Item(x)]
<1> DEFINE m == Count(b)
           p == a + 1
           q == ContentsOf(b)
           r == ContentsOf(c)
           t == [q EXCEPT ![p] = Item(x)]
<1>1. m \in 0 .. _size /\ a \in 0 .. m - 1 /\ p \in 1 .. m /\ p - 1 = a
  <2>1. m \in 0 .. _size
    BY CountLemma, SizeFact DEF Holds
  <2> QED
    BY <2>1
<1>2. /\ Holds(c) /\ Count(c) = m
      /\ \A i \in 0 .. m - 1 : Cell(c, i) = IF i = a THEN x ELSE Cell(b, i)
  BY ReplacedLemma
<1>3. /\ q \in Seq(Items) /\ Len(q) = m
      /\ \A i \in 1 .. m : q[i] = Item(Cell(b, i - 1))
  BY ContentsLemma
<1> HIDE DEF m, p, q
<1>4. /\ r \in Seq(Items) /\ Len(r) = m
      /\ \A i \in 1 .. m : r[i] = Item(Cell(c, i - 1))
  BY <1>2, ContentsLemma
<1> HIDE DEF r
<1>5. /\ t \in Seq(Items) /\ Len(t) = m
      /\ \A i \in 1 .. m : t[i] = IF i = p THEN Item(x) ELSE q[i]
  BY <1>1, <1>3, ItemsFact
<1> HIDE DEF t
<1>6. ASSUME NEW i \in 1 .. m
      PROVE  r[i] = t[i]
  <2> DEFINE j == i - 1
  <2>1. j \in 0 .. m - 1 /\ (i = p <=> j = a)
    BY <1>1
  <2>2. r[i] = Item(Cell(c, j)) /\ q[i] = Item(Cell(b, j))
    BY <1>3, <1>4
  <2> HIDE DEF j
  <2> QED
    BY <1>2, <1>5, <2>1, <2>2
<1>7. r = t
  BY <1>4, <1>5, <1>6, SeqEqual
<1>8. p \in DOMAIN q
  BY <1>1, <1>3
<1> QED
  BY <1>7, <1>8 DEF p, q, r, t

LEMMA StoredContents ==
  ASSUME Holds(buf), buf.available = Count(buf), ~multi,
         NEW s \in [1 .. Count(buf) -> CellSet]
  PROVE  ContentsOf(Stored(s)) = s
<1> DEFINE m == Count(buf)
           c == Stored(s)
           r == ContentsOf(c)
<1>1. m \in 0 .. _size /\ m \in Nat
  BY CountLemma, SizeFact DEF Holds
<1>2. \A i \in 1 .. m : s[i] \in CellSet /\ Item(s[i]) = s[i] /\ s[i] \in Items
  BY ItemsFact DEF Item
<1>3. /\ Holds(c) /\ Count(c) = m
      /\ \A i \in 0 .. m - 1 : Cell(c, i) = s[i + 1]
  BY <1>2, StoredLemma
<1>4. s \in [1 .. m -> CellSet]
  OBVIOUS
<1> HIDE DEF m, c
<1>5. /\ r \in Seq(Items) /\ Len(r) = m
      /\ \A i \in 1 .. m : r[i] = Item(Cell(c, i - 1))
  BY <1>3, ContentsLemma
<1> HIDE DEF r
<1>6. s \in Seq(Items) /\ Len(s) = m
  <2>1. s = [i \in 1 .. m |-> s[i]]
    BY <1>4
  <2>2. /\ [i \in 1 .. m |-> s[i]] \in Seq(Items)
        /\ Len([i \in 1 .. m |-> s[i]]) = m
    BY <1>1, <1>2
  <2> QED
    BY <2>1, <2>2
<1>7. ASSUME NEW i \in 1 .. m
      PROVE  r[i] = s[i]
  <2>1. i - 1 \in 0 .. m - 1 /\ (i - 1) + 1 = i
    BY <1>1
  <2>2. Cell(c, i - 1) = s[(i - 1) + 1]
    BY <1>3, <2>1
  <2> QED
    BY <1>2, <1>5, <2>1, <2>2
<1>8. r = s
  BY <1>5, <1>6, <1>7, SeqEqual
<1> QED
  BY <1>8 DEF r, c

-----------------------------------------------------------------------------
(* Each step is one of the deque, or leaves it alone.                      *)

\* The deque's state, and the next one.
LEMMA DequeState ==
  ASSUME kept = TRUE, kept' = TRUE, UNCHANGED multi
  PROVE  /\ (IF kept THEN Contents ELSE <<>>) = ContentsOf(buf)
         /\ (IF kept THEN Contents ELSE <<>>)' = ContentsOf(buf')
         /\ (IF kept THEN moved ELSE <<>>)' = moved'
  BY DEF Contents, ContentsOf, Count, Cell, Item, LengthOf, Turn

LEMMA DequeMaps ==
  ASSUME kept = TRUE, kept' = TRUE, UNCHANGED multi, NEW q, NEW r,
         q = ContentsOf(buf), r = ContentsOf(buf')
  PROVE  /\ r = D!Final(q \o moved', _size) => D!Next
         /\ r = D!First(moved' \o q, _size) => D!Next
         /\ (\E n \in 0 .. Len(q) :
               moved' = D!First(q, n) /\ r = D!Final(q, Len(q) - n)) => D!Next
         /\ q # <<>> /\ r = Front(q) /\ moved' \in {<<Last(q)>>, <<>>} => D!Next
         /\ (\E i \in DOMAIN q : moved' = <<q[i]>> /\ r = RemoveAt(q, i)) => D!Next
         /\ (\E i \in DOMAIN q :
               Len(moved') = 1 /\ r = [q EXCEPT ![i] = moved'[1]]) => D!Next
         /\ r = <<>> /\ moved' = <<>> => D!Next
         /\ moved' = <<>> /\ (D!InOrder(r, q) \/ D!InOrder(Reverse(r), q)) => D!Next
<1>1. /\ (IF kept THEN Contents ELSE <<>>) = q
      /\ (IF kept THEN Contents ELSE <<>>)' = r
      /\ (IF kept THEN moved ELSE <<>>)' = moved'
      /\ UNCHANGED kept
  BY DequeState
<1>2. r = D!Final(q \o moved', _size) => D!Next
  BY <1>1 DEF D!Next, D!Keeps, D!PushBack
<1>3. r = D!First(moved' \o q, _size) => D!Next
  BY <1>1 DEF D!Next, D!Keeps, D!PushFront
<1>4. (\E n \in 0 .. Len(q) :
        moved' = D!First(q, n) /\ r = D!Final(q, Len(q) - n)) => D!Next
  BY <1>1 DEF D!Next, D!Keeps, D!PopFront
<1>5. q # <<>> /\ r = Front(q) /\ moved' \in {<<Last(q)>>, <<>>} => D!Next
  BY <1>1 DEF D!Next, D!Keeps, D!PopBack, D!DropBack, D!Front, D!Last, Front, Last
<1>6. (\E i \in DOMAIN q : moved' = <<q[i]>> /\ r = RemoveAt(q, i)) => D!Next
  BY <1>1 DEF D!Next, D!Keeps, D!TakeOut, D!RemoveAt, RemoveAt
<1>7. (\E i \in DOMAIN q :
        Len(moved') = 1 /\ r = [q EXCEPT ![i] = moved'[1]]) => D!Next
  BY <1>1 DEF D!Next, D!Keeps, D!Replace
<1>8. r = <<>> /\ moved' = <<>> => D!Next
  BY <1>1 DEF D!Next, D!Keeps, D!Clear
<1>9. moved' = <<>> /\ (D!InOrder(r, q) \/ D!InOrder(Reverse(r), q)) => D!Next
  BY <1>1 DEF D!Next, D!Keeps, D!Sort, D!Reverse, Reverse
<1> QED
  BY <1>2, <1>3, <1>4, <1>5, <1>6, <1>7, <1>8, <1>9

LEMMA WriteIsDeque ==
  ASSUME Quiet(buf), kept = TRUE, kept' = TRUE, write
  PROVE  D!Next
<1> DEFINE b == buf
           q == ContentsOf(b)
<1>1. PICK x \in IF multi THEN Arrays ELSE Values :
        Does(Written(b, IF multi THEN Shifted(x) ELSE x), <<x>>, TRUE)
  BY DEF write
<1> DEFINE y == IF multi THEN Shifted(x) ELSE x
<1>2. y \in CellSet /\ Item(y) = x
  BY ItemLemma
<1>3. buf' = Written(b, y) /\ moved' = <<x>> /\ UNCHANGED multi
  <2> HIDE DEF y
  <2>1. Does(Written(b, y), <<x>>, TRUE)
    BY <1>1 DEF y
  <2> QED
    BY <2>1 DEF Does, Begins
<1> HIDE DEF y
<1>4. ContentsOf(Written(b, y)) = D!Final(q \o <<Item(y)>>, _size)
  BY <1>2, WrittenContents DEF Quiet
<1>5. ContentsOf(buf') = D!Final(q \o moved', _size)
  BY <1>2, <1>3, <1>4
<1> QED
  BY <1>3, <1>5, DequeMaps

LEMMA PushFrontIsDeque ==
  ASSUME Quiet(buf), kept = TRUE, kept' = TRUE, push_front
  PROVE  D!Next
<1> DEFINE b == buf
           q == ContentsOf(b)
<1>1. PICK x \in Values : Does(PutFirst(b, x), <<x>>, b.available < _size)
  BY DEF push_front
<1>2. x \in CellSet /\ Item(x) = x
  BY ItemLemma DEF push_front
<1>3. buf' = PutFirst(b, x) /\ moved' = <<x>> /\ b.available < _size /\ UNCHANGED multi
  BY <1>1 DEF Does, Begins
<1>4. ContentsOf(PutFirst(b, x)) = D!First(<<Item(x)>> \o q, _size)
  BY <1>2, <1>3, PutFirstPushes DEF Quiet
<1>5. ContentsOf(buf') = D!First(moved' \o q, _size)
  BY <1>2, <1>3, <1>4
<1> QED
  BY <1>3, <1>5, DequeMaps

LEMMA PushFrontArrayIsDeque ==
  ASSUME Quiet(buf), kept = TRUE, kept' = TRUE, push_front_array
  PROVE  D!Next
<1> DEFINE b == buf
           q == ContentsOf(b)
           m == Count(b)
           c == [b EXCEPT !.tail = IF Full(b) THEN Turn(@ - 1) ELSE @]
<1>1. PICK x \in Arrays : Does(PutFirst(c, Unshifted(x)), <<x>>, x.length < BYTE)
  BY DEF push_front_array
<1> DEFINE y == Unshifted(x)
           r == ContentsOf(PutFirst(c, y))
<1>2. /\ buf' = PutFirst(c, y) /\ moved' = <<x>> /\ x.length < BYTE
      /\ UNCHANGED multi /\ multi
  BY <1>1 DEF Does, Begins, push_front_array
<1>3. y \in CellSet /\ Item(y) = x /\ x \in Items
  <2>1. y \in CellSet /\ Item(y) = x
    BY <1>2, ItemLemma
  <2> HIDE DEF y
  <2> QED
    BY <2>1, ItemsFact
<1> HIDE DEF y
<1>4. /\ Holds(b) /\ b \in Rings /\ b.available = m /\ m \in 0 .. _size
      /\ _size \in Nat \ {0}
  BY CountLemma, SizeFact DEF Quiet, Holds
<1>5. /\ q \in Seq(Items) /\ Len(q) = m
      /\ \A i \in 1 .. m : q[i] = Item(Cell(b, i - 1))
  BY <1>4, ContentsLemma
<1>6. CASE Full(b)
  <2>1. m = _size /\ b.available \in 0 .. _size /\ m > 0
    BY <1>4, <1>6, FullLemma
  <2> DEFINE a == b.available
  <2>2. c = [b EXCEPT !.tail = Turn(@ - 1), !.available = a]
    BY <1>4, <1>6 DEF Rings
  <2>3. a \in 0 .. _size
    BY <2>1
  <2> HIDE DEF a, c
  <2>4. /\ Holds(c) /\ Count(c) = m - 1
        /\ \A i \in Int : Cell(c, i) = Cell(b, i)
    BY <1>4, <2>1, <2>2, <2>3, ShortenedLemma
  <2> HIDE DEF m, q
  <2>5. /\ r \in Seq(Items) /\ Len(r) = m /\ r[1] = Item(y)
        /\ \A i \in 2 .. m : r[i] = Item(Cell(c, i - 2))
    <3>1. Count(c) < _size /\ Count(c) + 1 = m
      BY <1>4, <2>1, <2>4
    <3> QED
      BY <1>3, <2>4, <3>1, PutFirstContents
  <2> HIDE DEF r
  <2>6. ASSUME NEW i \in 2 .. m
        PROVE  r[i] = q[i - 1]
    <3>1. i - 1 \in 1 .. m /\ (i - 1) - 1 = i - 2 /\ i - 2 \in Int
      BY <1>4
    <3>2. r[i] = Item(Cell(b, i - 2))
      BY <2>4, <2>5, <3>1
    <3> QED
      BY <1>5, <3>1, <3>2
  <2>7. /\ Len(q) <= _size /\ Len(r) = IF Len(q) < _size THEN Len(q) + 1 ELSE _size
        /\ \A i \in 2 .. Len(r) : r[i] = q[i - 1]
        /\ r[1] = x
    BY <1>3, <1>4, <1>5, <2>1, <2>5, <2>6
  <2>8. r = D!First(<<x>> \o q, _size)
    BY <1>3, <1>4, <1>5, <2>5, <2>7, PushedFront
  <2>9. ContentsOf(buf') = D!First(moved' \o q, _size)
    BY <1>2, <2>8 DEF r
  <2> QED
    BY <1>2, <2>9, DequeMaps DEF q
<1>7. CASE ~Full(b)
  <2>1. c = b
    BY <1>4, <1>7 DEF Rings
  <2>2. m < _size
    BY <1>4, <1>7, FullLemma
  <2> HIDE DEF c
  <2>3. ContentsOf(PutFirst(b, y)) = D!First(<<Item(y)>> \o q, _size)
    BY <1>3, <1>4, <2>2, PutFirstPushes
  <2>4. ContentsOf(buf') = D!First(moved' \o q, _size)
    BY <1>2, <1>3, <2>1, <2>3
  <2> QED
    BY <1>2, <2>4, DequeMaps
<1> QED
  BY <1>6, <1>7

\* A value taken from the front.
LEMMA DroppedPops ==
  ASSUME NEW b, Holds(b), Count(b) > 0
  PROVE  \E n \in 0 .. Len(ContentsOf(b)) :
           /\ <<Item(Cell(b, 0))>> = D!First(ContentsOf(b), n)
           /\ ContentsOf(Dropped(b)) =
                D!Final(ContentsOf(b), Len(ContentsOf(b)) - n)
<1> DEFINE a == OneLess(b)
           x == [i \in 1 .. 1 |-> Item(Cell(b, i - 1))]
<1>1. a \in 0 .. _size /\ 1 \in 0 .. Count(b)
  <2>1. Count(b) \in 0 .. _size /\ b.available \in 0 .. _size
    BY CountLemma, SizeFact DEF Holds, Rings
  <2> QED
    BY <2>1, SizeFact DEF OneLess
<1>2. Dropped(b) = Advanced(b, a, 1)
  BY DEF Dropped, Advanced
<1>3. x = <<Item(Cell(b, 0))>>
  <2> DEFINE e(i) == Item(Cell(b, i - 1))
  <2>1. e(1) = Item(Cell(b, 0))
    <3>1. 1 - 1 = 0
      OBVIOUS
    <3> QED
      BY <3>1
  <2> HIDE DEF e
  <2>2. [i \in 1 .. 1 |-> e(i)] = <<e(1)>>
    OBVIOUS
  <2> QED
    BY <2>1, <2>2 DEF e
<1> HIDE DEF a, x
<1>4. /\ x = D!First(ContentsOf(b), 1)
      /\ ContentsOf(Advanced(b, a, 1)) = D!Final(ContentsOf(b), Len(ContentsOf(b)) - 1)
      /\ 1 \in 0 .. Len(ContentsOf(b))
  BY <1>1, AdvancedPops DEF x
<1> QED
  BY <1>2, <1>3, <1>4

LEMMA ReadIsDeque ==
  ASSUME Quiet(buf), kept = TRUE, kept' = TRUE, read
  PROVE  D!Next
<1> DEFINE b == buf
           q == ContentsOf(b)
<1>1. /\ buf' = Dropped(b) /\ moved' = <<Item(Cell(b, 0))>> /\ b.available > 0
      /\ UNCHANGED multi
  BY DEF read, Does, Begins
<1>2. \E n \in 0 .. Len(q) :
        moved' = D!First(q, n) /\ ContentsOf(buf') = D!Final(q, Len(q) - n)
  BY <1>1, DroppedPops DEF Quiet
<1> QED
  BY <1>1, <1>2, DequeMaps

LEMMA PopsAreDeque ==
  ASSUME Quiet(buf), kept = TRUE, kept' = TRUE, pop_back \/ pop_back_array
  PROVE  D!Next
<1> DEFINE b == buf
           q == ContentsOf(b)
           a == OneLess(b)
           c == [b EXCEPT !.tail = Turn(@ - 1), !.available = a]
           last == Item(b.cells[(b.tail - 1) % _size])
<1>1. /\ Holds(b) /\ b.available = Count(b) /\ Count(b) \in 0 .. _size
  BY CountLemma, SizeFact DEF Quiet, Holds
<1>2. /\ buf' = c /\ moved' \in {<<last>>, <<>>} /\ b.available > 0
      /\ UNCHANGED multi
  <2>1. CASE pop_back
    <3>1. PICK used \in BOOLEAN :
            /\ ~multi /\ b.available > 0 /\ buf' = c /\ UNCHANGED multi
            /\ moved' = IF used THEN <<b.cells[(b.tail - 2) % _size]>> ELSE <<>>
            /\ kept' = (used => b.cells[(b.tail - 2) % _size]
                                  = b.cells[(b.tail - 1) % _size])
      BY <2>1 DEF pop_back, Does, Begins
    <3>2. ~multi => last = b.cells[(b.tail - 1) % _size]
      BY DEF Item
    <3> HIDE DEF c, last
    <3> QED
      BY <3>1, <3>2
  <2>2. CASE pop_back_array
    BY <2>2 DEF pop_back_array, Does, Begins
  <2> QED
    BY <2>1, <2>2
<1>3. a \in 0 .. _size /\ Count(b) > 0
  BY <1>1, <1>2, SizeFact DEF OneLess
<1>4. q # <<>> /\ ContentsOf(c) = Front(q) /\ last = Last(q)
  <2> HIDE DEF a
  <2>1. c = [b EXCEPT !.tail = Turn(@ - 1), !.available = a]
    OBVIOUS
  <2> HIDE DEF c
  <2> QED
    BY <1>1, <1>3, <2>1, ShortenedContents
<1> HIDE DEF c, last
<1>5. q # <<>> /\ ContentsOf(buf') = Front(q) /\ moved' \in {<<Last(q)>>, <<>>}
  BY <1>2, <1>4
<1> QED
  BY <1>2, <1>5, DequeMaps

LEMMA ClearIsDeque ==
  ASSUME Quiet(buf), kept = TRUE, kept' = TRUE, clear
  PROVE  D!Next
<1> DEFINE b == buf
           c == [b EXCEPT !.head = 0, !.tail = 0, !.available = 0]
<1>1. buf' = c /\ moved' = <<>> /\ UNCHANGED multi
  BY DEF clear, Does, Begins
<1>2. 0 \in 0 .. 2 * _size - 1 /\ 0 \in 0 .. _size
  BY SizeFact
<1>3. c \in Rings /\ c.head = 0 /\ c.tail = 0
  BY <1>2 DEF Quiet, Holds, Rings
<1> HIDE DEF c
<1>4. Count(c) = 0 /\ Holds(c)
  BY <1>3, CountLemma, SizeFact DEF Holds
<1>5. ContentsOf(c) = <<>>
  <2>1. ContentsOf(c) \in Seq(Items) /\ Len(ContentsOf(c)) = 0
    BY <1>4, ContentsLemma
  <2> QED
    BY <2>1, EmptySeq
<1>6. ContentsOf(buf') = <<>>
  BY <1>1, <1>5
<1> QED
  BY <1>1, <1>6, DequeMaps

LEMMA RemoveIsDeque ==
  ASSUME Quiet(buf), kept = TRUE, kept' = TRUE, remove \/ findRemove
  PROVE  D!Next
<1> DEFINE b == buf
           q == ContentsOf(b)
<1>1. /\ Holds(b) /\ b.available = Count(b) /\ Count(b) \in 0 .. _size
      /\ b \in Rings /\ b.available \in Nat
      /\ DOMAIN b.cells = 0 .. _size - 1
  BY CountLemma, SizeFact DEF Quiet, Holds, Rings
<1>2. ASSUME NEW a \in 0 .. b.available - 1, buf' = Removed(b, Place(b, a)),
             moved' = <<Item(b.cells[Place(b, a)])>>, UNCHANGED multi
      PROVE  D!Next
  <2>1. a \in 0 .. Count(b) - 1 /\ b.available > 0
    BY <1>1
  <2>2. /\ a + 1 \in DOMAIN q /\ q[a + 1] = Item(b.cells[Place(b, a)])
        /\ ContentsOf(Removed(b, Place(b, a))) = RemoveAt(q, a + 1)
    BY <1>1, <2>1, RemovedContents
  <2>3. \E i \in DOMAIN q : moved' = <<q[i]>> /\ ContentsOf(buf') = RemoveAt(q, i)
    BY <1>2, <2>2
  <2> QED
    BY <1>2, <2>3, DequeMaps
<1>3. CASE remove
  <2>1. PICK pos \in 0 .. _size - 1 :
          Does(Removed(b, pos), <<Item(b.cells[pos])>>,
               (pos - b.head) % _size < b.available)
    BY <1>1, <1>3 DEF remove
  <2> DEFINE a == (pos - b.head) % _size
  <2>2. a \in 0 .. _size - 1 /\ Place(b, a) = pos
    BY <1>1, OffsetLemma
  <2>3. /\ a < b.available /\ buf' = Removed(b, pos)
        /\ moved' = <<Item(b.cells[pos])>> /\ UNCHANGED multi
    BY <2>1 DEF Does, Begins
  <2> HIDE DEF a
  <2>4. a \in 0 .. b.available - 1
    BY <1>1, <2>2, <2>3, SizeFact
  <2> QED
    BY <1>2, <2>2, <2>3, <2>4
<1>4. CASE findRemove
  <2>1. PICK key \in Keys :
          /\ Found(key) # {}
          /\ Does(Removed(b, Place(b, Min(Found(key)))),
                  <<Item(Cell(b, Min(Found(key))))>>, TRUE)
    BY <1>4 DEF findRemove, Place
  <2> DEFINE a == Min(Found(key))
  <2>2. a \in 0 .. b.available - 1
    BY <1>1, <2>1, FoundLemma
  <2>3. /\ buf' = Removed(b, Place(b, a))
        /\ moved' = <<Item(b.cells[Place(b, a)])>> /\ UNCHANGED multi
    BY <2>1 DEF Does, Begins, Cell, Place
  <2> HIDE DEF a
  <2> QED
    BY <1>2, <2>2, <2>3
<1> QED
  BY <1>3, <1>4

LEMMA ReplaceIsDeque ==
  ASSUME Quiet(buf), kept = TRUE, kept' = TRUE, replace
  PROVE  D!Next
<1> DEFINE b == buf
           q == ContentsOf(b)
<1>1. /\ Holds(b) /\ b.available = Count(b) /\ Count(b) \in 0 .. _size
      /\ b.available \in Nat /\ multi
  BY CountLemma, SizeFact DEF Quiet, Holds, replace
<1>2. PICK x \in Arrays :
        /\ Found(x.key) # {}
        /\ Does([b EXCEPT !.cells[Place(b, Min(Found(x.key)))] = Unshifted(x)],
                <<x>>, x.length < BYTE)
  BY DEF replace, Place
<1> DEFINE a == Min(Found(x.key))
           y == Unshifted(x)
           c == [b EXCEPT !.cells[Place(b, a)] = y]
<1>3. buf' = c /\ moved' = <<x>> /\ x.length < BYTE /\ UNCHANGED multi
  BY <1>2 DEF Does, Begins
<1>4. a \in 0 .. Count(b) - 1 /\ y \in CellSet /\ Item(y) = x
  BY <1>1, <1>2, <1>3, FoundLemma, ItemLemma
<1> HIDE DEF a, y
<1>5. /\ a + 1 \in DOMAIN q /\ ContentsOf(c) = [q EXCEPT ![a + 1] = Item(y)]
  <2>1. c = [b EXCEPT !.cells[Place(b, a)] = y]
    OBVIOUS
  <2> HIDE DEF c
  <2> QED
    BY <1>1, <1>4, <2>1, ReplacedContents
<1> HIDE DEF c
<1>6. \E i \in DOMAIN q :
        Len(moved') = 1 /\ ContentsOf(buf') = [q EXCEPT ![i] = moved'[1]]
  <2>1. Len(moved') = 1 /\ moved'[1] = x
    BY <1>3
  <2> QED
    BY <1>3, <1>4, <1>5, <2>1
<1> QED
  BY <1>3, <1>6, DequeMaps

LEMMA SortIsDeque ==
  ASSUME Quiet(buf), kept = TRUE, kept' = TRUE, sort
  PROVE  D!Next
<1> DEFINE b == buf
           n == b.available
           s == [i \in 1 .. n |-> Cell(b, i - 1)]
           q == ContentsOf(b)
<1>1. /\ Holds(b) /\ n = Count(b) /\ n \in 0 .. _size /\ n \in Nat
      /\ b \in Rings /\ b.cells \in [0 .. _size - 1 -> CellSet] /\ ~multi
  BY CountLemma, SizeFact DEF Quiet, Holds, Rings, sort
<1>2. PICK descending \in BOOLEAN, up \in Sorted(s) :
        Does(Stored(IF descending THEN Reverse(up) ELSE up), <<>>, TRUE)
  BY DEF sort
<1> DEFINE t == IF descending THEN Reverse(up) ELSE up
<1>3. buf' = Stored(t) /\ moved' = <<>> /\ UNCHANGED multi
  <2> HIDE DEF t
  <2>1. Does(Stored(t), <<>>, TRUE)
    BY <1>2 DEF t
  <2> QED
    BY <2>1 DEF Does, Begins
<1>4. s = q
  BY <1>1 DEF ContentsOf, Item
<1>5. \A i \in 1 .. n : s[i] \in CellSet
  <2> SUFFICES ASSUME NEW i \in 1 .. n
               PROVE  Cell(b, i - 1) \in CellSet
    OBVIOUS
  <2>1. i - 1 \in 0 .. _size - 1
    BY <1>1, SizeFact
  <2> QED
    BY <1>1, <2>1, PlaceLemma DEF Cell, Place
<1>6. ToSet(s) \subseteq CellSet /\ DOMAIN s = 1 .. n
  BY <1>5 DEF ToSet
<1> HIDE DEF s, n
<1>7. /\ up \in [1 .. n -> CellSet]
      /\ \A i, j \in 1 .. n : i < j => up[i] <= up[j]
      /\ \E p \in Injection(1 .. n, 1 .. n) : \A i \in 1 .. n : up[i] = s[p[i]]
  BY <1>6 DEF Sorted
<1>8. t \in [1 .. n -> CellSet] /\ (up = t \/ up = Reverse(t))
  BY <1>1, <1>7, ReverseLemma
<1> HIDE DEF t, q
<1>9. D!InOrder(up, q)
  <2>1. DOMAIN up = 1 .. n /\ DOMAIN q = 1 .. n
    BY <1>4, <1>6, <1>7
  <2> QED
    BY <1>4, <1>7, <2>1
      DEF D!InOrder, D!Injection, Injection, D!IsInjective, IsInjective
<1>10. ContentsOf(Stored(t)) = t
  BY <1>1, <1>8, StoredContents DEF n
<1>11. /\ moved' = <<>>
       /\ D!InOrder(ContentsOf(buf'), q) \/ D!InOrder(Reverse(ContentsOf(buf')), q)
  BY <1>3, <1>8, <1>9, <1>10
<1> QED
  BY <1>3, <1>11, DequeMaps DEF q

\* A block operation that begins moves nothing yet.
LEMMA NothingPushed ==
  ASSUME Holds(buf), kept = TRUE, kept' = TRUE, UNCHANGED multi, moved' = <<>>,
         buf'.head = buf.head, buf'.tail = buf.tail, buf'.cells = buf.cells
  PROVE  D!Next
<1> DEFINE q == ContentsOf(buf)
<1>1. ContentsOf(buf') = q
  BY DEF ContentsOf, Count, Cell
<1>2. q \in Seq(Items) /\ Len(q) \in 0 .. _size /\ _size \in Nat
  BY ContentsLemma, SizeFact
<1> HIDE DEF q
<1>3. Follows(q, <<>>, q, _size, 0)
  <2>1. Len(<<>>) = 0
    OBVIOUS
  <2>2. \A i \in 1 .. Len(q) : i + 0 = i
    OBVIOUS
  <2> QED
    BY <1>2, <2>1, <2>2 DEF Follows
<1>4. <<>> \in Seq(Items)
  OBVIOUS
<1>5. q = D!Final(q \o <<>>, _size)
  BY <1>2, <1>3, <1>4, PushedBack
<1> QED
  BY <1>1, <1>5, DequeMaps DEF q

LEMMA WriteBlockIsDeque ==
  ASSUME Quiet(buf), kept = TRUE, kept' = TRUE, write_block
  PROVE  D!Next
<1> DEFINE b == buf
           q == ContentsOf(b)
<1>1. PICK s \in SeqOf(Values, _size + 1) :
        LET n == Len(s)
            total == (b.available + n) % WORD
            counted == [b EXCEPT !.available = IF total >= _size THEN _size ELSE total]
        IN  IF n < _size - b.tail
            THEN Does([counted EXCEPT !.tail = Turn(@ + n),
                         !.cells = [i \in DOMAIN @ |->
                            IF i \in b.tail .. (b.tail + n - 1)
                            THEN s[i - b.tail + 1] ELSE @[i]]],
                      s, b.available + n <= _size)
            ELSE Begins(counted, Calls("write", s), <<>>,
                        n = 0 \/ b.available + n >= _size)
  BY DEF write_block
<1>2. PICK m \in 0 .. _size + 1 : s \in [1 .. m -> Values]
  <2>1. s \in UNION {[1 .. m -> Values] : m \in 0 .. _size + 1}
    BY DEF SeqOf
  <2> QED
    BY <2>1
<1> DEFINE n == Len(s)
           total == (b.available + n) % WORD
           a == IF total >= _size THEN _size ELSE total
<1>3. /\ Holds(b) /\ b.available = Count(b) /\ Count(b) \in 0 .. _size /\ ~multi
      /\ b \in Rings /\ b.tail \in 0 .. 2 * _size - 1
  BY CountLemma, SizeFact DEF Quiet, Holds, Rings, write_block
<1>4. s \in Seq(Values) /\ n \in 0 .. _size + 1
  <2>1. m \in Nat
    BY SizeFact
  <2> QED
    BY <1>2, <2>1, CallsLemma
<1>5. a \in 0 .. _size
  <2>1. total \in Nat
    BY <1>3, <1>4, WordFact, SizeFact
  <2> HIDE DEF total
  <2> QED
    BY <2>1, SizeFact
<1>6. CASE n < _size - b.tail
  <2> DEFINE c == [b EXCEPT !.available = a, !.tail = Turn(@ + n),
                    !.cells = [i \in DOMAIN @ |->
                       IF i \in b.tail .. (b.tail + n - 1)
                       THEN s[i - b.tail + 1] ELSE @[i]]]
  <2>1. buf' = c /\ moved' = s /\ b.available + n <= _size /\ UNCHANGED multi
    BY <1>1, <1>6 DEF Does, Begins
  <2> HIDE DEF a
  <2>2. c = Copied(b, a, s)
    BY DEF Copied
  <2> HIDE DEF c
  <2>3. Count(b) + Len(s) <= _size
    BY <1>3, <2>1
  <2>4. ContentsOf(Copied(b, a, s)) = D!Final(q \o s, _size)
    BY <1>3, <1>4, <1>5, <1>6, <2>3, CopiedContents
  <2>5. ContentsOf(buf') = D!Final(q \o moved', _size)
    BY <2>1, <2>2, <2>4
  <2> QED
    BY <2>1, <2>5, DequeMaps
<1>7. CASE ~(n < _size - b.tail)
  <2> DEFINE counted == [b EXCEPT !.available = a]
  <2>1. buf' = counted /\ moved' = <<>> /\ UNCHANGED multi
    BY <1>1, <1>7 DEF Begins
  <2>2. counted.head = b.head /\ counted.tail = b.tail /\ counted.cells = b.cells
    BY <1>3 DEF Rings
  <2> HIDE DEF counted
  <2> QED
    BY <1>3, <2>1, <2>2, NothingPushed
<1> QED
  BY <1>6, <1>7

LEMMA PushFrontBlockIsDeque ==
  ASSUME Quiet(buf), kept = TRUE, kept' = TRUE, push_front_block
  PROVE  D!Next
<1>1. buf' = buf /\ moved' = <<>> /\ UNCHANGED multi
  BY DEF push_front_block, Begins
<1> QED
  BY <1>1, NothingPushed DEF Quiet

LEMMA ReadBytesIsDeque ==
  ASSUME Quiet(buf), kept = TRUE, kept' = TRUE, readBytes
  PROVE  D!Next
<1> DEFINE b == buf
           q == ContentsOf(b)
<1>1. PICK length \in 0 .. _size + 1 :
        LET count == IF b.available < length THEN b.available ELSE length
        IN  IF count < _size - b.head
            THEN Does([b EXCEPT !.available = (@ - length) % WORD,
                                !.head = Turn(@ + count)],
                      [i \in 1 .. count |-> b.cells[i - 1]],
                      length <= b.available /\ (b.head = 0 \/ count = 0))
            ELSE Begins(b, [i \in 1 .. count |-> [op |-> "read"]], <<>>, TRUE)
  BY DEF readBytes
<1> DEFINE count == IF b.available < length THEN b.available ELSE length
<1>2. /\ Holds(b) /\ b.available = Count(b) /\ Count(b) \in 0 .. _size /\ ~multi
      /\ length \in Nat /\ b \in Rings
  BY CountLemma, SizeFact DEF Quiet, Holds, readBytes
<1>3. count \in 0 .. Count(b) /\ count \in 0 .. _size
  BY <1>2, SizeFact
<1>4. CASE count < _size - b.head
  <2> DEFINE a == (b.available - length) % WORD
             c == [b EXCEPT !.available = a, !.head = Turn(@ + count)]
             x == [i \in 1 .. count |-> b.cells[i - 1]]
  <2>1. /\ buf' = c /\ moved' = x /\ UNCHANGED multi
        /\ length <= b.available /\ (b.head = 0 \/ count = 0)
    <3>1. c = [b EXCEPT !.available = (@ - length) % WORD, !.head = Turn(@ + count)]
      BY <1>2 DEF Rings
    <3> QED
      BY <1>1, <1>4, <3>1 DEF Does, Begins
  <2>2. a \in 0 .. _size
    <3> DEFINE k == b.available - length
    <3>1. k \in 0 .. WORD - 1 /\ k \in 0 .. _size
      BY <1>2, <2>1, SizeFact, WordFact
    <3> HIDE DEF k
    <3>2. k % WORD = k
      BY <3>1, WordFact
    <3> QED
      BY <3>1, <3>2 DEF k
  <2> HIDE DEF a, count
  <2>3. x = [i \in 1 .. count |-> Item(Cell(b, i - 1))]
    <3> SUFFICES ASSUME NEW i \in 1 .. count
                 PROVE  b.cells[i - 1] = Item(Cell(b, i - 1))
      OBVIOUS
    <3> DEFINE j == i - 1
    <3>1. b.head = 0 /\ j \in 0 .. _size - 1
      BY <1>3, <2>1, SizeFact
    <3> HIDE DEF j
    <3>2. b.head + j = j /\ j % _size = j
      BY <3>1, SizeFact
    <3>3. Cell(b, j) = b.cells[j]
      BY <3>2 DEF Cell
    <3> QED
      BY <1>2, <3>3 DEF Item, j
  <2>4. c = Advanced(b, a, count)
    BY DEF Advanced
  <2> HIDE DEF c, x
  <2>5. /\ x = D!First(q, count) /\ count \in 0 .. Len(q)
        /\ ContentsOf(Advanced(b, a, count)) = D!Final(q, Len(q) - count)
    BY <1>2, <1>3, <2>2, <2>3, AdvancedPops
  <2>6. \E n \in 0 .. Len(q) :
          moved' = D!First(q, n) /\ ContentsOf(buf') = D!Final(q, Len(q) - n)
    BY <2>1, <2>4, <2>5
  <2> QED
    BY <2>1, <2>6, DequeMaps
<1>5. CASE ~(count < _size - b.head)
  <2>1. buf' = b /\ moved' = <<>> /\ UNCHANGED multi
    BY <1>1, <1>5 DEF Begins
  <2> QED
    BY <1>2, <2>1, NothingPushed
<1> QED
  BY <1>4, <1>5

\* Each call of a block operation is an operation on one value.
LEMMA CallIsDeque ==
  ASSUME Agrees, kept = TRUE, kept' = TRUE, todo # <<>>, Call
  PROVE  D!Next
<1> DEFINE op == Head(todo).op
           b == buf
           q == ContentsOf(b)
           x == Head(todo).item
<1>1. /\ ~multi /\ Holds(b) /\ Count(b) \in 0 .. _size
      /\ Writing(b, todo) \/ Pushing(b, todo) \/ Reading(b, todo)
  BY CountLemma, SizeFact DEF Agrees, Steady, Holds
<1>2. /\ UNCHANGED multi
      /\ op = "write" => buf' = Written(b, x) /\ moved' = <<x>>
      /\ op = "push_front" => buf' = PutFirst(b, x) /\ moved' = <<x>>
      /\ op = "read" => buf' = Dropped(b) /\ moved' = <<Item(Cell(b, 0))>>
  BY DEF Call
<1>3. CASE Writing(b, todo)
  <2>1. Head(todo) \in [op : {"write"}, item : Values]
    BY <1>3, TailLemma DEF Writing
  <2>2. x \in CellSet /\ Item(x) = x /\ op = "write"
    BY <1>1, <2>1, ItemLemma
  <2> HIDE DEF x
  <2>3. ContentsOf(Written(b, x)) = D!Final(q \o <<Item(x)>>, _size)
    BY <1>1, <2>2, WrittenContents
  <2>4. ContentsOf(buf') = D!Final(q \o moved', _size)
    BY <1>2, <2>2, <2>3
  <2> QED
    BY <1>2, <2>4, DequeMaps
<1>4. CASE Pushing(b, todo)
  <2>1. /\ Head(todo) \in [op : {"push_front"}, item : Values]
        /\ Len(todo) \in Nat \ {0} /\ Count(b) + Len(todo) <= _size
    BY <1>4, TailLemma DEF Pushing
  <2>2. x \in CellSet /\ Item(x) = x /\ op = "push_front" /\ Count(b) < _size
    BY <1>1, <2>1, ItemLemma, SizeFact
  <2> HIDE DEF x
  <2>3. ContentsOf(PutFirst(b, x)) = D!First(<<Item(x)>> \o q, _size)
    BY <1>1, <2>2, PutFirstPushes
  <2>4. ContentsOf(buf') = D!First(moved' \o q, _size)
    BY <1>2, <2>2, <2>3
  <2> QED
    BY <1>2, <2>4, DequeMaps
<1>5. CASE Reading(b, todo)
  <2>1. /\ Head(todo) \in [op : {"read"}]
        /\ Len(todo) \in Nat \ {0} /\ Len(todo) <= Count(b)
    BY <1>5, TailLemma DEF Reading
  <2>2. op = "read" /\ Count(b) > 0
    BY <1>1, <2>1
  <2>3. \E n \in 0 .. Len(q) :
          moved' = D!First(q, n) /\ ContentsOf(buf') = D!Final(q, Len(q) - n)
    BY <1>1, <1>2, <2>2, DroppedPops
  <2> QED
    BY <1>2, <2>3, DequeMaps
<1> QED
  BY <1>1, <1>3, <1>4, <1>5

\* A use is sound or it is not.
LEMMA KeptBoolean == ASSUME Operation PROVE kept' \in BOOLEAN
<1> USE DEF Does, Begins
<1>1. CASE write
  <2>1. kept' = TRUE
    BY <1>1 DEF write
  <2> QED
    BY <2>1
<1>2. CASE read
  <2>1. kept' = (buf.available > 0)
    BY <1>2 DEF read
  <2> QED
    BY <2>1
<1>3. CASE pop_back
  <2>1. \E used \in BOOLEAN : kept' = (used =>
          buf.cells[(buf.tail - 2) % _size] = buf.cells[(buf.tail - 1) % _size])
    BY <1>3 DEF pop_back
  <2> QED
    BY <2>1
<1>4. CASE pop_back_array
  <2>1. kept' = (buf.available > 0)
    BY <1>4 DEF pop_back_array
  <2> QED
    BY <2>1
<1>5. CASE clear
  <2>1. kept' = TRUE
    BY <1>5 DEF clear
  <2> QED
    BY <2>1
<1>6. CASE push_front
  <2>1. kept' = (buf.available < _size)
    BY <1>6 DEF push_front
  <2> QED
    BY <2>1
<1>7. CASE push_front_array
  <2>1. \E x \in Arrays : kept' = (x.length < BYTE)
    BY <1>7 DEF push_front_array
  <2> QED
    BY <2>1
<1>8. CASE push_front_block
  <2>1. \E s \in SeqOf(Values, _size) : kept' = (buf.available + Len(s) <= _size)
    BY <1>8 DEF push_front_block
  <2> QED
    BY <2>1
<1>9. CASE write_block
  <2>1. PICK s \in SeqOf(Values, _size + 1) :
          \/ kept' = (buf.available + Len(s) <= _size)
          \/ kept' = (Len(s) = 0 \/ buf.available + Len(s) >= _size)
    BY <1>9 DEF write_block
  <2>2. CASE kept' = (buf.available + Len(s) <= _size)
    BY <2>2
  <2>3. CASE kept' = (Len(s) = 0 \/ buf.available + Len(s) >= _size)
    BY <2>3
  <2> QED
    BY <2>1, <2>2, <2>3
<1>10. CASE readBytes
  BY <1>10 DEF readBytes
<1>11. CASE remove
  <2>1. \E pos \in DOMAIN buf.cells :
          kept' = ((pos - buf.head) % _size < buf.available)
    BY <1>11 DEF remove
  <2> QED
    BY <2>1
<1>12. CASE findRemove
  <2>1. kept' = TRUE
    BY <1>12 DEF findRemove
  <2> QED
    BY <2>1
<1>13. CASE replace
  <2>1. \E x \in Arrays : kept' = (x.length < BYTE)
    BY <1>13 DEF replace
  <2> QED
    BY <2>1
<1>14. CASE sort
  <2>1. kept' = TRUE
    BY <1>14 DEF sort
  <2> QED
    BY <2>1
<1> QED
  BY <1>1, <1>2, <1>3, <1>4, <1>5, <1>6, <1>7, <1>8, <1>9, <1>10, <1>11, <1>12,
     <1>13, <1>14 DEF Operation

\* In its sound uses the buffer is a deque of its capacity, for every capacity
\* and all items: each operation does to its contents what the deque's does,
\* and each call of a block operation too.
THEOREM CircularBuffer_IsDeque == Spec => IsDeque
<1> DEFINE Inv == Agrees /\ kept \in BOOLEAN
<1>1. Init => Inv
  <2>1. Init => kept \in BOOLEAN
    BY DEF Init
  <2> QED
    BY <2>1, AgreesInit
<1>2. Inv /\ [Next]_vars => Inv'
  <2> SUFFICES ASSUME Inv, [Next]_vars
               PROVE  Inv'
    OBVIOUS
  <2>1. Agrees'
    BY AgreesStep
  <2>2. CASE UNCHANGED vars
    BY <2>1, <2>2 DEF vars
  <2>3. CASE kept /\ todo # <<>> /\ Call
    BY <2>1, <2>3 DEF Call
  <2>4. CASE kept /\ todo = <<>> /\ Operation
    BY <2>1, <2>4, KeptBoolean
  <2> QED
    BY <2>2, <2>3, <2>4 DEF Next
<1>3. Init => D!Init
  <2> SUFFICES ASSUME Init
               PROVE  D!Init
    OBVIOUS
  <2>1. Quiet(buf) /\ buf.available = 0 /\ kept = TRUE /\ moved = <<>>
    BY AgreesInit DEF Agrees, Steady, Init
  <2>2. ContentsOf(buf) \in Seq(Items) /\ Len(ContentsOf(buf)) = 0
    BY <2>1, ContentsLemma DEF Quiet
  <2>3. ContentsOf(buf) = <<>>
    BY <2>2, EmptySeq
  <2>4. Contents = ContentsOf(buf)
    BY DEF Contents, ContentsOf, Count
  <2> QED
    BY <2>1, <2>3, <2>4 DEF D!Init
<1>4. Inv /\ [Next]_vars => [D!Next]_(D!vars)
  <2> SUFFICES ASSUME Inv, [Next]_vars
               PROVE  [D!Next]_(D!vars)
    OBVIOUS
  <2>1. CASE UNCHANGED vars
    <3>1. UNCHANGED <<multi, buf, moved, kept>>
      BY <2>1 DEF vars
    <3>2. (IF kept THEN Contents ELSE <<>>)' = (IF kept THEN Contents ELSE <<>>)
      BY <3>1 DEF Contents, Cell, Item, LengthOf, Turn
    <3> QED
      BY <3>1, <3>2 DEF D!vars
  <2>2. CASE kept /\ todo # <<>> /\ Call
    <3>1. kept = TRUE /\ kept' = TRUE
      BY <2>2 DEF Call
    <3> QED
      BY <2>2, <3>1, CallIsDeque
  <2>3. CASE kept /\ todo = <<>> /\ Operation
    <3>1. Quiet(buf) /\ kept = TRUE /\ kept' \in BOOLEAN
      BY <2>3, KeptBoolean DEF Agrees, Steady
    <3>2. CASE kept' = TRUE
      BY <2>3, <3>1, <3>2, WriteIsDeque, WriteBlockIsDeque, PushFrontIsDeque,
         PushFrontBlockIsDeque, PushFrontArrayIsDeque, ReadIsDeque,
         ReadBytesIsDeque, PopsAreDeque, ClearIsDeque, RemoveIsDeque,
         ReplaceIsDeque, SortIsDeque DEF Operation
    <3>3. CASE kept' = FALSE
      BY <3>3 DEF D!Next, D!Misuse
    <3> QED
      BY <3>1, <3>2, <3>3
  <2> QED
    BY <2>1, <2>2, <2>3 DEF Next
<1> QED
  BY <1>1, <1>2, <1>3, <1>4, PTL DEF Spec, IsDeque, D!Spec

-----------------------------------------------------------------------------
(* What is added up: the fold of addition is a function on the sets of     *)
(* positions, whose values for the first k positions follow one another.   *)

\* A set of numbers up to n has a greatest one.
LEMMA GreatestLemma ==
  ASSUME NEW n \in Nat, NEW S \in SUBSET (1 .. n), S # {}
  PROVE  Max(S) \in S /\ \A y \in S : Max(S) >= y
<1> DEFINE T == {k \in 0 .. n : \A y \in S : k >= y}
<1>1. T \in SUBSET Nat /\ n \in T
  OBVIOUS
<1> HIDE DEF T
<1>2. PICK m \in T : \A k \in T : m <= k
  BY <1>1, LeastLemma
<1>3. m \in 0 .. n /\ \A y \in S : m >= y
  BY <1>2 DEF T
<1>4. m \in S
  <2> SUFFICES ASSUME m \notin S
               PROVE  FALSE
    OBVIOUS
  <2>1. PICK y0 \in S : TRUE
    OBVIOUS
  <2>2. \A y \in S : y \in 1 .. n /\ m - 1 >= y
    BY <1>3
  <2>3. m - 1 \in T
    BY <1>3, <2>1, <2>2 DEF T
  <2>4. m <= m - 1
    BY <1>2, <2>3
  <2> QED
    BY <1>3, <2>4
<1>5. Max(S) = CHOOSE x \in S : \A y \in S : x >= y
  BY DEF Max
<1> QED
  BY <1>3, <1>4, <1>5

\* What the fold of addition is on the sets of the first k positions.
Adds(f, u, k) ==
  /\ f \in [SUBSET (1 .. k) -> Int]
  /\ \A s \in SUBSET (1 .. k) :
       f[s] = IF s = {} THEN 0 ELSE f[s \ {Max(s)}] + u[Max(s)]

LEMMA AddsNext ==
  ASSUME NEW k \in Nat, NEW u, u[k + 1] \in Int, NEW f, Adds(f, u, k)
  PROVE  \E g : Adds(g, u, k + 1)
<1> DEFINE n == k + 1
           g == [s \in SUBSET (1 .. n) |->
                   IF n \in s THEN f[s \ {n}] + u[n] ELSE f[s]]
<1>1. n \in Nat /\ n = k + 1 /\ u[n] \in Int
  OBVIOUS
<1> HIDE DEF n
<1>2. \A s \in SUBSET (1 .. n) : s \ {n} \in SUBSET (1 .. k)
  BY <1>1
<1>3. \A s \in SUBSET (1 .. n) : n \notin s => s \in SUBSET (1 .. k)
  BY <1>1
<1>4. f \in [SUBSET (1 .. k) -> Int]
  BY DEF Adds
<1>5. g \in [SUBSET (1 .. n) -> Int]
  BY <1>1, <1>2, <1>3, <1>4
<1>6. ASSUME NEW s \in SUBSET (1 .. n)
      PROVE  g[s] = IF s = {} THEN 0 ELSE g[s \ {Max(s)}] + u[Max(s)]
  <2>1. g[s] = IF n \in s THEN f[s \ {n}] + u[n] ELSE f[s]
    OBVIOUS
  <2>2. CASE n \in s
    <3>1. Max(s) \in s /\ Max(s) >= n
      BY <1>1, <2>2, GreatestLemma
    <3>2. Max(s) = n
      <4> DEFINE m == Max(s)
      <4>1. m \in 1 .. n /\ m >= n
        BY <3>1
      <4> HIDE DEF m
      <4>2. m = n
        BY <1>1, <4>1
      <4> QED
        BY <4>2 DEF m
    <3>3. s \ {n} \in SUBSET (1 .. n) /\ n \notin s \ {n}
      OBVIOUS
    <3>4. g[s \ {n}] = f[s \ {n}]
      BY <3>3
    <3> QED
      BY <2>1, <2>2, <3>2, <3>4
  <2>3. CASE n \notin s
    <3>1. s \in SUBSET (1 .. k)
      BY <1>3, <2>3
    <3>2. f[s] = IF s = {} THEN 0 ELSE f[s \ {Max(s)}] + u[Max(s)]
      BY <3>1 DEF Adds
    <3>3. s \ {Max(s)} \in SUBSET (1 .. n) /\ n \notin s \ {Max(s)}
      BY <2>3
    <3>4. g[s \ {Max(s)}] = f[s \ {Max(s)}]
      BY <3>3
    <3> QED
      BY <2>1, <2>3, <3>2, <3>4
  <2> QED
    BY <2>2, <2>3
<1> HIDE DEF g
<1> QED
  BY <1>1, <1>5, <1>6 DEF Adds, n

LEMMA AddsExists ==
  ASSUME NEW n \in Nat, NEW u \in [1 .. n -> Int]
  PROVE  \E f : Adds(f, u, n)
<1> DEFINE T == {k \in 0 .. n : ~ \E f : Adds(f, u, k)}
<1>1. T \in SUBSET Nat /\ (n \notin T => \E f : Adds(f, u, n))
  OBVIOUS
<1> HIDE DEF T
<1> SUFFICES ASSUME T # {}
             PROVE  FALSE
  BY <1>1
<1>2. PICK m \in T : \A k \in T : m <= k
  BY <1>1, LeastLemma
<1>3. m \in 0 .. n /\ ~ \E f : Adds(f, u, m)
  BY <1>2 DEF T
<1>4. CASE m = 0
  <2> DEFINE f == [s \in SUBSET (1 .. 0) |-> 0]
  <2>1. 1 .. 0 = {}
    OBVIOUS
  <2>2. SUBSET (1 .. 0) = {{}}
    BY <2>1
  <2>3. f \in [SUBSET (1 .. 0) -> Int] /\ \A s \in SUBSET (1 .. 0) : s = {} /\ f[s] = 0
    BY <2>2
  <2> HIDE DEF f
  <2>4. Adds(f, u, 0)
    BY <2>3 DEF Adds
  <2> QED
    BY <1>3, <1>4, <2>4
<1>5. CASE m # 0
  <2> DEFINE k == m - 1
  <2>1. k \in Nat /\ k \in 0 .. n /\ k + 1 = m /\ k < m /\ k + 1 \in 1 .. n
    BY <1>3, <1>5
  <2> HIDE DEF k
  <2>2. k \notin T
    BY <1>2, <1>3, <2>1
  <2>3. PICK f : Adds(f, u, k)
    BY <2>1, <2>2 DEF T
  <2>4. u[k + 1] \in Int
    BY <2>1
  <2>5. \E g : Adds(g, u, k + 1)
    BY <2>1, <2>3, <2>4, AddsNext
  <2> QED
    BY <1>3, <2>1, <2>5
<1> QED
  BY <1>4, <1>5

\* The fold adds them up.
Sums(f, u, n) ==
  \A s \in SUBSET (1 .. n) :
    f[s] = IF s = {} THEN 0 ELSE f[s \ {Max(s)}] + u[Max(s)]

Total(u) == FoldLeft(+, 0, u)

LEMMA FoldSums ==
  ASSUME NEW n \in Nat, NEW u \in [1 .. n -> Int]
  PROVE  \E f : Sums(f, u, n) /\ Total(u) = f[1 .. n]
<1> DEFINE S == SUBSET (1 .. n)
           iter == CHOOSE f : f = [s \in S |->
                     IF s = {} THEN 0 ELSE f[s \ {Max(s)}] + u[Max(s)]]
<1>1. DOMAIN u = 1 .. n
  OBVIOUS
<1>2. Total(u) = iter[1 .. n]
  BY <1>1 DEF Total, FoldLeft, MapThenFoldSet
<1>3. PICK f : Adds(f, u, n)
  BY AddsExists
<1>4. f = [s \in S |-> IF s = {} THEN 0 ELSE f[s \ {Max(s)}] + u[Max(s)]]
  BY <1>3 DEF Adds
<1>5. iter = [s \in S |-> IF s = {} THEN 0 ELSE iter[s \ {Max(s)}] + u[Max(s)]]
  BY <1>4
<1> HIDE DEF iter
<1>6. \A s \in S : iter[s] = IF s = {} THEN 0 ELSE iter[s \ {Max(s)}] + u[Max(s)]
  BY <1>5
<1>7. Sums(iter, u, n)
  BY <1>6 DEF Sums
<1> QED
  BY <1>2, <1>7

\* The first k add up to a number between k times the least and k times the
\* greatest.
Between(f, k, lo, hi) == f[1 .. k] \in Int /\ k * lo <= f[1 .. k] /\ f[1 .. k] <= k * hi

LEMMA BetweenNext ==
  ASSUME NEW n \in Nat, NEW u \in [1 .. n -> Int], NEW f, Sums(f, u, n),
         NEW lo \in Int, NEW hi \in Int, \A i \in 1 .. n : lo <= u[i] /\ u[i] <= hi,
         NEW k \in 0 .. n - 1, Between(f, k, lo, hi)
  PROVE  Between(f, k + 1, lo, hi)
<1> DEFINE m == k + 1
           x == u[m]
           y == f[1 .. k]
<1>1. m \in 1 .. n /\ k \in Nat /\ m \in Nat
  OBVIOUS
<1>2. x \in Int /\ lo <= x /\ x <= hi
  BY <1>1
<1>3. 1 .. m \in SUBSET (1 .. n) /\ 1 .. m \in SUBSET (1 .. m) /\ m \in 1 .. m
  <2>1. \A i \in 1 .. m : i \in 1 .. n
    BY <1>1
  <2>2. m \in 1 .. m
    BY <1>1
  <2> QED
    BY <2>1, <2>2
<1>4. Max(1 .. m) = m
  <2> DEFINE a == Max(1 .. m)
  <2>1. a \in 1 .. m /\ a >= m
    BY <1>1, <1>3, GreatestLemma
  <2> HIDE DEF a
  <2>2. a = m
    BY <1>1, <2>1
  <2> QED
    BY <2>2 DEF a
<1>5. (1 .. m) \ {m} = 1 .. k
  BY <1>1
<1>6. f[1 .. m] = y + x
  BY <1>3, <1>4, <1>5 DEF Sums
<1>7. y \in Int /\ k * lo <= y /\ y <= k * hi
  BY DEF Between
<1>8. m * lo = k * lo + lo /\ m * hi = k * hi + hi
  BY <1>1
<1> DEFINE z == f[1 .. m]
<1> SUFFICES z \in Int /\ m * lo <= z /\ z <= m * hi
  BY DEF Between
<1> HIDE DEF x, y, z
<1>9. z = y + x
  BY <1>6 DEF x, y, z
<1> DEFINE a == k * lo
           b == k * hi
<1>10. a \in Int /\ b \in Int
  BY <1>1
<1> HIDE DEF a, b, m
<1> QED
  BY <1>2, <1>7, <1>8, <1>9, <1>10 DEF a, b

LEMMA BetweenAll ==
  ASSUME NEW n \in Nat, NEW u \in [1 .. n -> Int], NEW f, Sums(f, u, n),
         NEW lo \in Int, NEW hi \in Int, \A i \in 1 .. n : lo <= u[i] /\ u[i] <= hi
  PROVE  Between(f, n, lo, hi)
<1> DEFINE T == {k \in 0 .. n : ~ Between(f, k, lo, hi)}
<1>1. T \in SUBSET Nat /\ (n \notin T => Between(f, n, lo, hi))
  OBVIOUS
<1> HIDE DEF T
<1> SUFFICES ASSUME T # {}
             PROVE  FALSE
  BY <1>1
<1>2. PICK m \in T : \A k \in T : m <= k
  BY <1>1, LeastLemma
<1>3. m \in 0 .. n /\ ~ Between(f, m, lo, hi)
  BY <1>2 DEF T
<1>4. CASE m = 0
  <2>1. 1 .. 0 = {} /\ {} \in SUBSET (1 .. n)
    OBVIOUS
  <2>2. f[1 .. 0] = 0
    BY <2>1 DEF Sums
  <2>3. 0 * lo = 0 /\ 0 * hi = 0
    OBVIOUS
  <2> QED
    BY <1>3, <1>4, <2>2, <2>3 DEF Between
<1>5. CASE m # 0
  <2> DEFINE k == m - 1
  <2>1. k \in 0 .. n - 1 /\ k \in 0 .. n /\ k + 1 = m /\ k < m
    BY <1>3, <1>5
  <2> HIDE DEF k
  <2>2. k \notin T
    BY <1>2, <1>3, <2>1
  <2>3. Between(f, k, lo, hi)
    BY <2>1, <2>2 DEF T
  <2>4. Between(f, k + 1, lo, hi)
    BY <2>1, <2>3, BetweenNext
  <2> QED
    BY <1>3, <2>1, <2>4
<1> QED
  BY <1>4, <1>5

LEMMA QuotientBetween ==
  ASSUME NEW n \in Nat \ {0}, NEW x \in Int, NEW lo \in Int, NEW hi \in Int,
         n * lo <= x, x <= n * hi
  PROVE  x \div n \in lo .. hi
<1> DEFINE q == x \div n
           r == x % n
<1>1. q \in Int /\ r \in 0 .. n - 1 /\ x = n * q + r
  OBVIOUS
<1> HIDE DEF q, r
<1>2. CASE q < lo
  <2>1. n * (q + 1) <= n * lo
    BY <1>1, <1>2
  <2>2. n * (q + 1) = n * q + n
    BY <1>1
  <2> QED
    BY <1>1, <2>1, <2>2
<1>3. CASE q > hi
  <2>1. n * (hi + 1) <= n * q
    BY <1>1, <1>3
  <2>2. n * (hi + 1) = n * hi + n
    BY <1>1
  <2> QED
    BY <1>1, <2>1, <2>2
<1>4. CASE lo <= q /\ q <= hi
  BY <1>1, <1>4 DEF q
<1> QED
  BY <1>1, <1>2, <1>3, <1>4

\* The sum of some numbers, divided by how many they are, is between the least
\* and the greatest.
LEMMA AverageLemma ==
  ASSUME NEW n \in Nat \ {0}, NEW u \in [1 .. n -> Int], NEW lo \in Int,
         NEW hi \in Int, \A i \in 1 .. n : lo <= u[i] /\ u[i] <= hi
  PROVE  Total(u) \div n \in lo .. hi
<1>1. PICK f : Sums(f, u, n) /\ Total(u) = f[1 .. n]
  BY FoldSums
<1>2. Between(f, n, lo, hi)
  BY <1>1, BetweenAll
<1> DEFINE x == f[1 .. n]
<1>3. x \in Int /\ n * lo <= x /\ x <= n * hi
  BY <1>2 DEF Between
<1> HIDE DEF x
<1>4. x \div n \in lo .. hi
  BY <1>3, QuotientBetween
<1> QED
  BY <1>1, <1>4 DEF x

\* Some number of them is the least, and some number is the greatest.
LEMMA LeastItem ==
  ASSUME NEW n \in Nat \ {0}, NEW u \in [1 .. n -> Int]
  PROVE  \E j \in 1 .. n : \A i \in 1 .. n : u[j] <= u[i]
<1> DEFINE T == {k \in 1 .. n : ~ \E j \in 1 .. k : \A i \in 1 .. k : u[j] <= u[i]}
<1>1. T \in SUBSET Nat
  OBVIOUS
<1>2. n \notin T => \E j \in 1 .. n : \A i \in 1 .. n : u[j] <= u[i]
  OBVIOUS
<1> HIDE DEF T
<1> SUFFICES ASSUME T # {}
             PROVE  FALSE
  BY <1>2
<1>3. PICK m \in T : \A k \in T : m <= k
  BY <1>1, LeastLemma
<1>4. m \in 1 .. n /\ ~ \E j \in 1 .. m : \A i \in 1 .. m : u[j] <= u[i]
  BY <1>3 DEF T
<1>5. CASE m = 1
  <2>1. \A i \in 1 .. 1 : i = 1
    OBVIOUS
  <2>2. 1 \in 1 .. m /\ u[1] <= u[1]
    BY <1>4, <1>5
  <2>3. \A i \in 1 .. m : u[1] <= u[i]
    BY <1>5, <2>1, <2>2
  <2> QED
    BY <1>4, <2>2, <2>3
<1>6. CASE m # 1
  <2> DEFINE k == m - 1
  <2>1. k \in 1 .. n /\ k + 1 = m /\ k < m /\ m \in Nat
    BY <1>4, <1>6
  <2> HIDE DEF k
  <2>2. k \notin T
    BY <1>3, <1>4, <2>1
  <2>3. PICK j \in 1 .. k : \A i \in 1 .. k : u[j] <= u[i]
    BY <2>1, <2>2 DEF T
  <2>4. \A i \in 1 .. m : i \in 1 .. k \/ i = m
    BY <2>1
  <2>5. j \in 1 .. m /\ m \in 1 .. m /\ \A i \in 1 .. k : i \in 1 .. m
    BY <1>4, <2>1
  <2>6. \A i \in 1 .. m : u[i] \in Int
    BY <1>4
  <2>7. CASE u[j] <= u[m]
    BY <1>4, <2>3, <2>4, <2>5, <2>7
  <2>8. CASE u[m] <= u[j]
    <3>1. \A i \in 1 .. m : u[m] <= u[i]
      BY <2>3, <2>4, <2>5, <2>6, <2>8
    <3> QED
      BY <1>4, <2>5, <3>1
  <2> QED
    BY <2>5, <2>6, <2>7, <2>8
<1> QED
  BY <1>5, <1>6

LEMMA GreatestItem ==
  ASSUME NEW n \in Nat \ {0}, NEW u \in [1 .. n -> Int]
  PROVE  \E j \in 1 .. n : \A i \in 1 .. n : u[i] <= u[j]
<1> DEFINE w == [i \in 1 .. n |-> -u[i]]
<1>1. w \in [1 .. n -> Int] /\ \A i \in 1 .. n : w[i] = -u[i] /\ u[i] \in Int
  OBVIOUS
<1> HIDE DEF w
<1>2. PICK j \in 1 .. n : \A i \in 1 .. n : w[j] <= w[i]
  BY <1>1, LeastItem
<1>3. \A i \in 1 .. n : u[i] <= u[j]
  BY <1>1, <1>2
<1> QED
  BY <1>3

LEMMA RangeLemma ==
  ASSUME NEW n \in Nat \ {0}, NEW u \in [1 .. n -> Int]
  PROVE  /\ Min(ToSet(u)) \in Int /\ Max(ToSet(u)) \in Int
         /\ \A i \in 1 .. n : Min(ToSet(u)) <= u[i] /\ u[i] <= Max(ToSet(u))
<1> DEFINE S == ToSet(u)
<1>1. S = {u[i] : i \in 1 .. n}
  BY DEF ToSet
<1> HIDE DEF S
<1>2. \E x \in S : \A y \in S : x <= y
  <2>1. PICK j \in 1 .. n : \A i \in 1 .. n : u[j] <= u[i]
    BY LeastItem
  <2> QED
    BY <1>1, <2>1
<1>3. \E x \in S : \A y \in S : x >= y
  <2>1. PICK j \in 1 .. n : \A i \in 1 .. n : u[i] <= u[j]
    BY GreatestItem
  <2>2. \A i \in 1 .. n : u[j] >= u[i]
    BY <2>1
  <2> QED
    BY <1>1, <2>2
<1>4. Min(S) \in S /\ \A y \in S : Min(S) <= y
  <2>1. Min(S) = CHOOSE x \in S : \A y \in S : x <= y
    BY DEF Min
  <2> QED
    BY <1>2, <2>1
<1>5. Max(S) \in S /\ \A y \in S : Max(S) >= y
  <2>1. Max(S) = CHOOSE x \in S : \A y \in S : x >= y
    BY DEF Max
  <2> QED
    BY <1>3, <2>1
<1>6. \A i \in 1 .. n : u[i] \in S /\ u[i] \in Int
  BY <1>1
<1>7. S \subseteq Int
  BY <1>1
<1>8. Min(S) \in Int /\ Max(S) \in Int
  BY <1>4, <1>5, <1>7
<1>9. \A i \in 1 .. n : Min(S) <= u[i] /\ u[i] <= Max(S)
  <2> SUFFICES ASSUME NEW i \in 1 .. n
               PROVE  Min(S) <= u[i] /\ u[i] <= Max(S)
    OBVIOUS
  <2> DEFINE y == u[i]
             b == Max(S)
  <2>1. y \in S /\ y \in Int /\ b \in Int /\ b >= y
    BY <1>5, <1>6, <1>8
  <2> HIDE DEF y, b
  <2>2. y <= b
    BY <2>1
  <2> QED
    BY <1>4, <1>6, <2>2 DEF y, b
<1> QED
  BY <1>8, <1>9 DEF S

\* The smaller of two numbers.
LEMMA SmallerLemma ==
  ASSUME NEW x \in Int, NEW y \in Int
  PROVE  Min({x, y}) = IF x <= y THEN x ELSE y
<1>1. Min({x, y}) = CHOOSE z \in {x, y} : \A w \in {x, y} : z <= w
  BY DEF Min
<1>2. \E z \in {x, y} : \A w \in {x, y} : z <= w
  <2>1. CASE x <= y
    BY <2>1
  <2>2. CASE y <= x
    BY <2>2
  <2> QED
    BY <2>1, <2>2
<1> DEFINE m == Min({x, y})
<1>3. m \in {x, y} /\ \A w \in {x, y} : m <= w
  BY <1>1, <1>2
<1> HIDE DEF m
<1>4. m = IF x <= y THEN x ELSE y
  BY <1>3
<1> QED
  BY <1>4 DEF m

-----------------------------------------------------------------------------
(* The queries, at rest.                                                   *)

LEMMA ContentsFact ==
  ASSUME Quiet(buf), buf.available > 0
  PROVE  /\ buf.available \in 1 .. _size /\ buf.available \in Nat \ {0}
         /\ buf.head \in 0 .. 2 * _size - 1
         /\ Contents \in [1 .. buf.available -> Items]
         /\ Contents \in Seq(Items) /\ Len(Contents) = buf.available
         /\ \A i \in 1 .. buf.available : Contents[i] = Item(Cell(buf, i - 1))
         /\ \A i \in 0 .. _size - 1 : Cell(buf, i) \in CellSet
<1>1. /\ Holds(buf) /\ buf.available = Count(buf)
  BY DEF Quiet
<1>2. Contents = ContentsOf(buf)
  BY DEF Contents, ContentsOf, Count
<1>3. /\ Count(buf) \in 0 .. _size
      /\ Contents \in Seq(Items) /\ Len(Contents) = Count(buf)
      /\ \A i \in 1 .. Count(buf) : Contents[i] = Item(Cell(buf, i - 1))
  BY <1>1, <1>2, ContentsLemma
<1>4. Contents \in [1 .. Len(Contents) -> Items]
  BY <1>3
<1>5. \A i \in 0 .. _size - 1 : Cell(buf, i) \in CellSet
  BY <1>1, PlaceLemma DEF Holds, Rings, Cell, Place
<1>6. buf.available \in 1 .. _size /\ buf.available \in Nat \ {0}
  BY <1>1, <1>3, SizeFact
<1>7. buf.head \in 0 .. 2 * _size - 1
  BY <1>1 DEF Holds, Rings
<1> QED
  BY <1>1, <1>3, <1>4, <1>5, <1>6, <1>7

\* The lengths at both ends, the last item and the keys.
LEMMA ArrayQueries ==
  ASSUME Quiet(buf), buf.available > 0, multi,
         buf.tail = Turn(buf.head + buf.available)
  PROVE  /\ length_front = Contents[1].length
         /\ length_back = Last(Contents).length
         /\ Item(back) = Last(Contents)
         /\ \A key \in Keys : Found(key) = {} <=>
              \A i \in DOMAIN Contents : Contents[i].key # key
<1> DEFINE n == buf.available
           h == buf.head
<1>1. /\ n \in 1 .. _size /\ n \in Nat \ {0} /\ h \in Int
      /\ Contents \in [1 .. n -> Items] /\ Len(Contents) = n
      /\ \A i \in 1 .. n : Contents[i] = Item(Cell(buf, i - 1))
  BY ContentsFact
<1> HIDE DEF n, h
<1>2. \A i \in 1 .. n : /\ Contents[i].length = LengthOf(Cell(buf, i - 1))
                        /\ Contents[i].key = Cell(buf, i - 1).key
  BY <1>1 DEF Item
<1>3. 1 \in 1 .. n /\ 1 - 1 = 0 /\ n \in 1 .. n
  BY <1>1
<1>4. length_front = Contents[1].length
  BY <1>2, <1>3 DEF length_front
<1>5. Last(Contents) = Contents[n]
  BY <1>1 DEF Last
<1>6. length_back = Last(Contents).length
  BY <1>2, <1>3, <1>5 DEF length_back, n
<1>7. (buf.tail - 1) % _size = (h + (n - 1)) % _size
  <2> DEFINE x == h + n
  <2>1. x \in Int /\ x + (-1) = h + (n - 1)
    BY <1>1
  <2>2. buf.tail = Turn(x)
    BY DEF h, n
  <2> HIDE DEF x
  <2>3. (Turn(x) + (-1)) % _size = (x + (-1)) % _size
    BY <2>1, SameCell
  <2>4. Turn(x) \in Int
    BY <2>1, SizeFact DEF Turn
  <2>5. Turn(x) + (-1) = Turn(x) - 1
    BY <2>4
  <2> QED
    BY <2>1, <2>2, <2>3, <2>5
<1>8. back = Cell(buf, n - 1)
  BY <1>7 DEF back, Cell, h
<1>9. Item(back) = Last(Contents)
  BY <1>1, <1>3, <1>5, <1>8
<1>10. ASSUME NEW key \in Keys
       PROVE  Found(key) = {} <=> \A i \in DOMAIN Contents : Contents[i].key # key
  <2>1. \A j \in 0 .. n - 1 : j + 1 \in 1 .. n /\ (j + 1) - 1 = j
    BY <1>1
  <2>2. \A i \in 1 .. n : i - 1 \in 0 .. n - 1
    BY <1>1
  <2>3. DOMAIN Contents = 1 .. n
    BY <1>1
  <2>4. Found(key) = {j \in 0 .. n - 1 : Cell(buf, j).key = key}
    BY DEF Found, n
  <2>5. ASSUME Found(key) = {}, NEW i \in 1 .. n
        PROVE  Contents[i].key # key
    BY <1>2, <2>2, <2>4, <2>5
  <2>6. ASSUME \A i \in 1 .. n : Contents[i].key # key, NEW j \in Found(key)
        PROVE  FALSE
    <3>1. j \in 0 .. n - 1 /\ Cell(buf, j).key = key
      BY <2>4
    <3>2. Contents[j + 1].key = Cell(buf, (j + 1) - 1).key
      BY <1>2, <2>1, <3>1
    <3> QED
      BY <2>1, <2>6, <3>1, <3>2
  <2> QED
    BY <2>3, <2>5, <2>6
<1> QED
  BY <1>4, <1>6, <1>9, <1>10

LEMMA FrontLemma ==
  ASSUME NEW S, NEW s \in Seq(S), NEW m \in Nat, m <= Len(s)
  PROVE  SubSeq(s, 1, m) = [i \in 1 .. m |-> s[i]]
<1> DEFINE r == SubSeq(s, 1, m)
<1>1. m \in 0 .. Len(s) /\ m = (IF m < Len(s) THEN m ELSE Len(s))
  <2>1. Len(s) \in Nat
    BY LenProperties
  <2> QED
    BY <2>1
<1>2. /\ D!First(s, m) \in Seq(S) /\ Len(D!First(s, m)) = m
      /\ \A i \in 1 .. m : D!First(s, m)[i] = s[i]
  BY <1>1, FirstLemma
<1>3. D!First(s, m) = r
  BY <1>1 DEF D!First
<1> HIDE DEF r
<1>4. r \in Seq(S) /\ Len(r) = m /\ \A i \in 1 .. m : r[i] = s[i]
  BY <1>2, <1>3
<1>5. r \in [1 .. m -> S]
  BY <1>4
<1>6. r = [i \in 1 .. m |-> s[i]]
  BY <1>4, <1>5
<1> QED
  BY <1>6 DEF r

\* The first values.
LEMMA ValueQueries ==
  ASSUME Quiet(buf), buf.available > 0, ~multi, NEW m \in 0 .. _size,
         NEW count, count = Min({m, buf.available}),
         buf.head = 0 \/ count >= _size - buf.head
  PROVE  peekBytes(m) = SubSeq(Contents, 1, count)
<1> DEFINE n == buf.available
<1>1. /\ n \in 1 .. _size /\ n \in Nat \ {0} /\ buf.head \in 0 .. 2 * _size - 1
      /\ Contents \in Seq(Items) /\ Len(Contents) = n
      /\ \A i \in 1 .. n : Contents[i] = Item(Cell(buf, i - 1))
  BY ContentsFact
<1>2. {m, n} = {n, m} /\ n \in Int /\ m \in Int
  BY <1>1, SizeFact
<1>3. count = (IF m <= n THEN m ELSE n) /\ count = Min({n, m})
  BY <1>2, SmallerLemma DEF n
<1> HIDE DEF n
<1>4. count \in Nat /\ count <= n /\ count <= _size
  BY <1>1, <1>3, SizeFact
<1>5. SubSeq(Contents, 1, count) = [i \in 1 .. count |-> Contents[i]]
  BY <1>1, <1>4, FrontLemma
<1>6. \A i \in 1 .. count : /\ i \in 1 .. n /\ i - 1 \in 0 .. _size - 1
                            /\ Contents[i] = Cell(buf, i - 1)
  <2>1. \A i \in 1 .. count : i \in 1 .. n /\ i - 1 \in 0 .. _size - 1
    BY <1>1, <1>4, SizeFact
  <2>2. \A i \in 1 .. n : Contents[i] = Cell(buf, i - 1)
    BY <1>1 DEF Item
  <2> QED
    BY <2>1, <2>2
<1>7. CASE count < _size - buf.head
  <2>1. buf.head = 0
    BY <1>1, <1>4, <1>7, SizeFact
  <2>2. \A i \in 1 .. count : buf.cells[i - 1] = Contents[i]
    <3> SUFFICES ASSUME NEW i \in 1 .. count
                 PROVE  buf.cells[i - 1] = Contents[i]
      OBVIOUS
    <3>1. (0 + (i - 1)) % _size = i - 1
      <4> DEFINE j == i - 1
      <4>1. j \in 0 .. _size - 1
        BY <1>6
      <4> HIDE DEF j
      <4>2. j \in -_size .. 3 * _size - 1 /\ 0 + j = j /\ ~(j < 0) /\ j < _size
        BY <4>1, SizeFact
      <4> QED
        BY <4>2, CellLemma DEF j
    <3> QED
      BY <1>6, <2>1, <3>1 DEF Cell
  <2>3. peekBytes(m) = [i \in 1 .. count |-> buf.cells[i - 1]]
    BY <1>3, <1>7 DEF peekBytes, n
  <2> QED
    BY <1>5, <2>2, <2>3
<1>8. CASE ~(count < _size - buf.head)
  <2>1. \A i \in 1 .. count : peek(i - 1) = Contents[i]
    BY <1>6, SizeFact DEF peek
  <2>2. peekBytes(m) = [i \in 1 .. count |-> peek(i - 1)]
    BY <1>3, <1>8 DEF peekBytes, n
  <2> QED
    BY <1>5, <2>1, <2>2
<1> QED
  BY <1>7, <1>8

LEMMA AverageAnswers ==
  ASSUME Quiet(buf), buf.available > 0, ~multi
  PROVE  average \in Min(ToSet(Contents)) .. Max(ToSet(Contents))
<1> DEFINE n == buf.available
           u == Contents
<1>1. /\ n \in 1 .. _size /\ n \in Nat \ {0}
      /\ u \in [1 .. n -> Items]
      /\ \A i \in 1 .. n : u[i] = Item(Cell(buf, i - 1))
      /\ \A i \in 0 .. _size - 1 : Cell(buf, i) \in CellSet
  BY ContentsFact
<1>2. \A c \in Items : c \in Int
  BY BufferAssumption DEF Items, CellSet, Item
<1> HIDE DEF n
<1>3. [i \in 1 .. n |-> peek(i - 1)] = u
  <2>1. \A i \in 1 .. n : peek(i - 1) = u[i]
    BY <1>1, SizeFact DEF peek, Item
  <2> QED
    BY <1>1, <2>1
<1>4. average = Total(u) \div n
  <2>1. sum = Total([i \in 1 .. n |-> peek(i - 1)])
    BY <1>1 DEF sum, Total, n, FoldLeft, MapThenFoldSet
  <2> QED
    BY <1>1, <1>3, <2>1 DEF average, n
<1> HIDE DEF u
<1>5. u \in [1 .. n -> Int]
  BY <1>1, <1>2
<1>6. /\ Min(ToSet(u)) \in Int /\ Max(ToSet(u)) \in Int
      /\ \A i \in 1 .. n : Min(ToSet(u)) <= u[i] /\ u[i] <= Max(ToSet(u))
  BY <1>1, <1>5, RangeLemma
<1>7. Total(u) \div n \in Min(ToSet(u)) .. Max(ToSet(u))
  BY <1>1, <1>5, <1>6, AverageLemma
<1> QED
  BY <1>4, <1>7 DEF u

\* What the queries answer, whatever was done before (QueriesAnswer): the
\* lengths and the last item, what find() finds, the first values and an
\* average between the least and the greatest value.
THEOREM CircularBuffer_QueriesAnswer == Spec => []QueriesAnswer
<1>1. Agrees /\ IndexesAgree => QueriesAnswer
  <2> SUFFICES ASSUME Agrees, IndexesAgree, kept, todo = <<>>, buf.available > 0
               PROVE  QueriesAnswer
    BY DEF QueriesAnswer
  <2>1. Quiet(buf) /\ buf.tail = Turn(buf.head + buf.available)
    BY DEF Agrees, Steady, IndexesAgree
  <2>2. CASE multi
    BY <2>1, <2>2, ArrayQueries DEF QueriesAnswer
  <2>3. CASE ~multi
    <3>1. ASSUME NEW n \in 0 .. _size,
                 buf.head = 0 \/ Min({n, buf.available}) >= _size - buf.head
          PROVE  peekBytes(n) = SubSeq(Contents, 1, Min({n, buf.available}))
      BY <2>1, <2>3, <3>1, ValueQueries
    <3> QED
      BY <2>1, <2>3, <3>1, AverageAnswers DEF QueriesAnswer
  <2> QED
    BY <2>2, <2>3
<1>2. Spec => []Agrees
  BY AgreesInit, AgreesStep, PTL DEF Spec
<1> QED
  BY <1>1, <1>2, CircularBuffer_IndexesAgree, PTL

=============================================================================
