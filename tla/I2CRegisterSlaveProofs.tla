----------------------- MODULE I2CRegisterSlaveProofs -----------------------
(***************************************************************************)
(* Proofs about I2CRegisterSlave: for any numbers of registers and any     *)
(* frames, the class is a RegisterFile, and the buffers it installs lie in *)
(* the registers.                                                          *)
(***************************************************************************)
EXTENDS I2CRegisterSlave, FiniteSetTheorems, TLAPS

Numbers == RegisterNumbers \cup {0}

\* A byte remembers the frame it came with.
Bytes(k) == (0 .. k) \X Nat

Replies == Seq(Seq((Nat \X Nat) \cup {DUMMY}))
Told == Seq(({"write"} \X Numbers \X Nat) \cup ({"read"} \X Numbers))

Buffers == [at : Int, size : Nat]

Devices(k) ==
  [got_reg_num : BOOLEAN, rx : Buffers, tx : Buffers, number : Numbers,
   memory : [Registers -> Bytes(k)], replies : Replies, told : Told]

FrameRecords ==
  [kind : {"write"}, length : Nat, number : RegisterNumbers]
    \cup [kind : {"read"}, length : Nat] \cup [kind : {"listen"}]

Types == frames \in Seq(FrameRecords) /\ device \in Devices(Len(frames))

Waiting(d) ==
  /\ d.rx = [at |-> NONE, size |-> REG_SLAVE_WRITE_BUFFER_LENGTH]
  /\ d.tx.size = 0

\* The buffers of a selected register end where its kind ends; what is written
\* to any but a mutable one is discarded.
Selected(d) ==
  IF d.number \in Mutable
  THEN LET all == [at |-> d.number, size |-> mutable_buffer_size - d.number]
       IN  d.rx = all /\ d.tx = all
  ELSE /\ d.rx = [at |-> NONE, size |-> 0]
       /\ IF d.number \in Registers
          THEN d.tx = [at |-> d.number, size |->
                  mutable_buffer_size + read_only_buffer_size - d.number]
          ELSE d.tx.size = 0

\* Which buffers are installed is what is selected.
Installed(d) == IF d.got_reg_num THEN Selected(d) ELSE Waiting(d)

IInv == Types /\ Installed(device)

-----------------------------------------------------------------------------
(* What the parts of the class do.                                         *)

LEMMA MinLemma ==
  ASSUME NEW a \in Int, NEW b \in Int
  PROVE  Min({a, b}) = IF a <= b THEN a ELSE b
<1>1. \E x \in {a, b} : \A y \in {a, b} : x <= y
  OBVIOUS
<1>2. Min({a, b}) \in {a, b} /\ \A y \in {a, b} : Min({a, b}) <= y
  BY <1>1 DEF Min
<1> QED
  BY <1>2

\* What the master can see of the device and what it is told stay as they are.
SameData(d, t) ==
  t.number = d.number /\ t.memory = d.memory /\ t.replies = d.replies

Install(d, rx, tx) == [[d EXCEPT !.rx = rx] EXCEPT !.tx = tx]

LEMMA InstallLemma ==
  ASSUME NEW k, NEW d \in Devices(k), NEW rx \in Buffers, NEW tx \in Buffers
  PROVE  LET t == Install(d, rx, tx)
         IN  /\ t \in Devices(k) /\ (t.got_reg_num <=> d.got_reg_num)
             /\ t.rx = rx /\ t.tx = tx /\ SameData(d, t) /\ t.told = d.told
  BY DEF Install, Devices, SameData

LEMMA WaitLemma ==
  ASSUME RegisterAssumption, NEW k \in Nat, NEW d \in Devices(k)
  PROVE  LET t == wait_for_reg_num(d)
         IN  /\ t \in Devices(k) /\ ~t.got_reg_num /\ Waiting(t)
             /\ SameData(d, t) /\ t.told = d.told
<1> DEFINE rx == [at |-> NONE, size |-> REG_SLAVE_WRITE_BUFFER_LENGTH]
           tx == [at |-> 0, size |-> 0]
           q == [d EXCEPT !.got_reg_num = FALSE]
           t == Install(q, rx, tx)
<1>1. rx \in Buffers /\ tx \in Buffers /\ tx.size = 0
  BY DEF RegisterAssumption, Buffers, NONE
<1>2. wait_for_reg_num(d) = t
  BY DEF wait_for_reg_num, set_receive_buffer, set_transmit_buffer, Install
<1> HIDE DEF rx, tx
<1>3. /\ q \in Devices(k) /\ ~q.got_reg_num /\ SameData(d, q)
      /\ q.told = d.told
  BY DEF Devices, SameData
<1> HIDE DEF q
<1>4. /\ t \in Devices(k) /\ ~t.got_reg_num /\ t.rx = rx /\ t.tx = tx
      /\ SameData(d, t) /\ t.told = d.told
  BY <1>1, <1>3, InstallLemma DEF SameData
<1> QED
  BY <1>1, <1>2, <1>4 DEF Waiting, rx

LEMMA ToldLemma ==
  ASSUME RegisterAssumption, NEW k \in Nat, NEW d \in Devices(k), NEW n \in Nat
  PROVE  LET t == after_write(d, n)
         IN  /\ t \in Devices(k) /\ ~t.got_reg_num /\ Waiting(t)
             /\ SameData(d, t)
             /\ t.told = Append(d.told, <<"write", d.number, n>>)
<1> DEFINE told == Append(d.told, <<"write", d.number, n>>)
           q == [d EXCEPT !.told = told]
<1>1. told \in Told
  <2> DEFINE S == ({"write"} \X Numbers \X Nat) \cup ({"read"} \X Numbers)
             e == <<"write", d.number, n>>
  <2>1. e \in S /\ d.told \in Seq(S)
    BY DEF Devices, Told
  <2> HIDE DEF S, e
  <2>2. Append(d.told, e) \in Seq(S)
    BY <2>1
  <2> QED
    BY <2>2 DEF Told, S, e
<1> HIDE DEF told
<1>2. q \in Devices(k) /\ SameData(d, q) /\ q.told = told
  BY <1>1 DEF Devices, SameData
<1>3. after_write(d, n) = wait_for_reg_num(q)
  BY DEF after_write, told
<1> HIDE DEF q
<1> QED
  BY <1>2, <1>3, WaitLemma DEF SameData, told

\* Storing the bytes of frame k makes t of the memory m.
Overwritten(t, m, at, k, first, n) ==
  \A r \in Registers : t[r] = IF r \in at .. (at + n - 1)
                              THEN <<k, first + r - at>> ELSE m[r]

Memories(k) == [Registers -> Bytes(k)]

LEMMA StoredLemma ==
  ASSUME NEW k \in Nat, NEW m \in Memories(k),
         NEW at \in Int, NEW first \in Nat, NEW n \in Int
  PROVE  LET t == Stored(m, at, k + 1, first, n)
         IN  t \in Memories(k + 1) /\ Overwritten(t, m, at, k + 1, first, n)
<1> DEFINE t == Stored(m, at, k + 1, first, n)
<1>1. t = [r \in Registers |-> IF r \in at .. (at + n - 1)
                               THEN <<k + 1, first + r - at>> ELSE m[r]]
  BY DEF Stored, Memories
<1>2. ASSUME NEW r \in Registers
      PROVE  (IF r \in at .. (at + n - 1)
              THEN <<k + 1, first + r - at>> ELSE m[r]) \in Bytes(k + 1)
  <2>1. r \in Int /\ m[r] \in Bytes(k + 1)
    BY DEF Bytes, Registers, Memories
  <2>2. CASE r \in at .. (at + n - 1)
    <3> DEFINE p == first + r - at
    <3>1. p \in Nat
      BY <2>1, <2>2
    <3> HIDE DEF p
    <3>2. <<k + 1, p>> \in Bytes(k + 1)
      BY <3>1 DEF Bytes
    <3> QED
      BY <2>2, <3>2 DEF p
  <2> QED
    BY <2>1, <2>2
<1> QED
  BY <1>1, <1>2 DEF Memories, Overwritten

LEMMA NumberLemma ==
  ASSUME RegisterAssumption, NEW r \in Numbers
  PROVE  r \in Nat
BY DEF Numbers, RegisterAssumption

LEMMA SelectLemma ==
  ASSUME RegisterAssumption, NEW k \in Nat, NEW d \in Devices(k), d.got_reg_num,
         d.rx = [at |-> NONE, size |-> REG_SLAVE_WRITE_BUFFER_LENGTH]
  PROVE  LET t == Select(d)
         IN  /\ t \in Devices(k) /\ t.got_reg_num /\ Selected(t)
             /\ SameData(d, t) /\ t.told = d.told
<1> DEFINE m == mutable_buffer_size
           offset == d.number - m
           all == [at |-> d.number, size |-> m - d.number]
           none == [at |-> NONE, size |-> 0]
           rest == [at |-> d.number, size |-> read_only_buffer_size - offset]
           end == [at |-> m, size |-> 0]
<1>1. d.number \in Nat /\ m \in Nat /\ read_only_buffer_size \in Nat
  BY NumberLemma DEF Devices, RegisterAssumption
<1>2. ASSUME NEW rx \in Buffers, NEW tx \in Buffers
      PROVE  LET t == Install(d, rx, tx)
             IN  /\ t \in Devices(k) /\ t.got_reg_num /\ t.rx = rx /\ t.tx = tx
                 /\ SameData(d, t) /\ t.told = d.told
  BY InstallLemma
<1>3. CASE d.number \in Mutable
  <2>1. all \in Buffers
    BY <1>1, <1>3 DEF Buffers, Mutable
  <2>2. Select(d) = Install(d, all, all)
    BY <1>3 DEF Select, set_receive_buffer, set_transmit_buffer, Install
  <2> DEFINE t == Install(d, all, all)
  <2> HIDE DEF all
  <2>3. /\ t \in Devices(k) /\ t.got_reg_num /\ t.rx = all /\ t.tx = all
        /\ SameData(d, t) /\ t.told = d.told
    BY <1>2, <2>1
  <2> HIDE DEF t
  <2>4. Selected(t)
    BY <1>3, <2>3 DEF Selected, SameData, all
  <2> QED
    BY <2>2, <2>3, <2>4 DEF t
<1>4. CASE d.number \notin Mutable
  <2>1. none \in Buffers /\ end \in Buffers /\ end.size = 0
    BY <1>1 DEF Buffers, NONE
  <2>2. d.number \in Registers <=> offset < read_only_buffer_size
    BY <1>1, <1>4 DEF Registers, Mutable
  <2>3. CASE offset < read_only_buffer_size
    <3>1. rest \in Buffers
      BY <1>1, <2>3 DEF Buffers
    <3>2. rest = [at |-> d.number, size |-> m + read_only_buffer_size - d.number]
      BY <1>1
    <3>3. Select(d) = Install(d, none, rest)
      BY <1>4, <2>3 DEF Select, set_receive_buffer, set_transmit_buffer, Install
    <3> DEFINE t == Install(d, none, rest)
    <3> HIDE DEF rest, none
    <3>4. /\ t \in Devices(k) /\ t.got_reg_num /\ t.rx = none /\ t.tx = rest
          /\ SameData(d, t) /\ t.told = d.told
      BY <1>2, <2>1, <3>1
    <3> HIDE DEF t
    <3>5. Selected(t)
      BY <1>4, <2>2, <2>3, <3>2, <3>4 DEF Selected, SameData, none
    <3> QED
      BY <3>3, <3>4, <3>5 DEF t
  <2>4. CASE ~(offset < read_only_buffer_size)
    <3>1. Select(d) = Install(d, none, end)
      BY <1>4, <2>4 DEF Select, set_receive_buffer, set_transmit_buffer, Install
    <3> DEFINE t == Install(d, none, end)
    <3> HIDE DEF end, none
    <3>2. /\ t \in Devices(k) /\ t.got_reg_num /\ t.rx = none /\ t.tx = end
          /\ SameData(d, t) /\ t.told = d.told
      BY <1>2, <2>1
    <3> HIDE DEF t
    <3>3. Selected(t)
      BY <1>4, <2>1, <2>2, <2>4, <3>2 DEF Selected, SameData, none
    <3> QED
      BY <3>1, <3>2, <3>3 DEF t
  <2> QED
    BY <2>3, <2>4
<1> QED
  BY <1>3, <1>4

-----------------------------------------------------------------------------
(* What each frame does, to the class and to the register file.            *)

LEMMA SameNames ==
  /\ File!Registers = Registers /\ File!Mutable = Mutable
  /\ File!NONE = NONE /\ File!DUMMY = DUMMY
BY DEF File!Registers, File!Mutable, File!NONE, File!DUMMY,
       Registers, Mutable, NONE, DUMMY

\* The register that the register file has selected.
Chosen(d) == IF d.got_reg_num THEN d.number ELSE NONE

LEMMA SpanLemma ==
  ASSUME RegisterAssumption, NEW r \in Nat
  PROVE  /\ File!SpanOf(r) \subseteq Registers
         /\ \A x \in Int : x \in File!SpanOf(r) <=>
              r <= x /\ x < IF r \in Mutable THEN mutable_buffer_size
                            ELSE mutable_buffer_size + read_only_buffer_size
<1>1. mutable_buffer_size \in Nat /\ read_only_buffer_size \in Nat
  BY DEF RegisterAssumption
<1>2. File!SpanOf(r) = IF r \in Mutable THEN r .. (mutable_buffer_size - 1)
         ELSE r .. (mutable_buffer_size + read_only_buffer_size - 1)
  BY SameNames DEF File!SpanOf
<1> QED
  BY <1>1, <1>2 DEF Registers

\* A longer history allows all that a shorter one does.
LEMMA DevicesGrow ==
  ASSUME NEW k \in Nat, NEW d \in Devices(k)
  PROVE  d \in Devices(k + 1)
<1>1. Bytes(k) \subseteq Bytes(k + 1)
  BY DEF Bytes
<1>2. d.memory \in [Registers -> Bytes(k + 1)]
  BY <1>1 DEF Devices
<1> QED
  BY <1>2 DEF Devices

LEMMA FrameAdded ==
  ASSUME Types, NEW f \in FrameRecords, frames' = Append(frames, f)
  PROVE  /\ frames' \in Seq(FrameRecords) /\ Len(frames') = Len(frames) + 1
         /\ Len(frames) \in Nat
BY DEF Types

\* One byte of an answer.
LEMMA ByteLemma ==
  ASSUME RegisterAssumption, IInv, NEW i \in Nat \ {0}
  PROVE  LET chosen == Chosen(device)
             sent == IF i <= device.tx.size THEN device.memory[device.tx.at + i - 1]
                                            ELSE DUMMY
         IN  /\ sent = IF chosen # File!NONE
                          /\ chosen + i - 1 \in File!SpanOf(chosen)
                       THEN device.memory[chosen + i - 1] ELSE File!DUMMY
             /\ sent \in (Nat \X Nat) \cup {DUMMY}
<1> DEFINE chosen == Chosen(device)
           n == device.number
           m == mutable_buffer_size
           all == mutable_buffer_size + read_only_buffer_size
           size == device.tx.size
<1>1. /\ device \in Devices(Len(frames)) /\ n \in Nat /\ m \in Nat /\ all \in Nat
      /\ size \in Nat /\ read_only_buffer_size \in Nat
      /\ device.memory \in [Registers -> Bytes(Len(frames))]
  BY NumberLemma DEF IInv, Types, Devices, Buffers, RegisterAssumption
<1>2. Bytes(Len(frames)) \subseteq Nat \X Nat
  BY DEF Bytes, IInv, Types
<1>3. CASE ~device.got_reg_num
  BY <1>3, <1>1, SameNames DEF Chosen, IInv, Installed, Waiting, NONE
<1>4. CASE device.got_reg_num
  <2>1. chosen = n /\ n # NONE /\ Selected(device)
    BY <1>1, <1>4 DEF Chosen, NONE, IInv, Installed
  <2>2. n + i - 1 \in Int /\ n <= n + i - 1
    BY <1>1
  <2>3. n + i - 1 \in File!SpanOf(n) <=>
          n + i - 1 < IF n \in Mutable THEN m ELSE all
    BY <1>1, <2>2, SpanLemma
  <2>4. i <= size <=> n + i - 1 \in File!SpanOf(n)
    <3>1. CASE n \in Mutable
      BY <1>1, <2>1, <2>3, <3>1 DEF Selected
    <3>2. CASE n \notin Mutable /\ n \in Registers
      BY <1>1, <2>1, <2>3, <3>2 DEF Selected
    <3>3. CASE n \notin Mutable /\ n \notin Registers
      BY <1>1, <2>1, <2>3, <3>3 DEF Selected, Registers
    <3> QED
      BY <3>1, <3>2, <3>3
  <2>5. i <= size => device.tx.at = n /\ n + i - 1 \in Registers
    <3>1. i <= size => n + i - 1 \in Registers
      BY <1>1, <2>4, SpanLemma
    <3>2. i <= size => size # 0
      BY <1>1
    <3> QED
      BY <2>1, <3>1, <3>2 DEF Selected
  <2>6. i <= size => device.memory[n + i - 1] \in Nat \X Nat
    BY <1>1, <1>2, <2>5
  <2> QED
    BY <2>1, <2>4, <2>5, <2>6, SameNames
<1> QED
  BY <1>3, <1>4

LEMMA ReadStep ==
  ASSUME RegisterAssumption, IInv, ReadFrame
  PROVE  IInv' /\ File!Next /\ device'.memory = device.memory
<1> DEFINE k == Len(frames)
           byte(i) == IF i <= device.tx.size
                      THEN device.memory[device.tx.at + i - 1] ELSE DUMMY
<1>1. PICK length \in 1 .. MAX_LENGTH :
        /\ frames' = Append(frames, [kind |-> "read", length |-> length])
        /\ device' = after_transmit([device EXCEPT !.replies =
                       Append(@, [i \in 1 .. length |-> byte(i)])])
  BY DEF ReadFrame
<1> DEFINE reply == [i \in 1 .. length |-> byte(i)]
           f == [kind |-> "read", length |-> length]
           replies == Append(device.replies, reply)
           q == [device EXCEPT !.replies = replies]
           w == wait_for_reg_num(q)
           told == Append(w.told, <<"read", q.number>>)
           chosen == Chosen(device)
<1>2. length \in Nat /\ MAX_LENGTH \in Nat
  BY DEF RegisterAssumption
<1>3. f \in FrameRecords
  BY <1>2 DEF FrameRecords
<1>4. frames' \in Seq(FrameRecords) /\ Len(frames') = k + 1 /\ k \in Nat
  BY <1>1, <1>3, FrameAdded DEF IInv
<1>5. device \in Devices(k)
  BY DEF IInv, Types
<1>6. reply = [i \in 1 .. length |->
         IF chosen # File!NONE /\ chosen + i - 1 \in File!SpanOf(chosen)
         THEN device.memory[chosen + i - 1] ELSE File!DUMMY]
  BY <1>2, ByteLemma
<1>7. reply \in Seq((Nat \X Nat) \cup {DUMMY})
  <2> DEFINE S == (Nat \X Nat) \cup {DUMMY}
  <2>1. \A i \in 1 .. length : byte(i) \in S
    BY <1>2, ByteLemma
  <2> HIDE DEF S, byte
  <2>2. reply \in [1 .. length -> S]
    BY <2>1
  <2> HIDE DEF reply
  <2>3. reply \in Seq(S)
    BY <1>2, <2>2
  <2> QED
    BY <2>3 DEF S
<1> HIDE DEF reply
<1>8. replies \in Replies
  <2> DEFINE S == Seq((Nat \X Nat) \cup {DUMMY})
  <2>1. device.replies \in Seq(S) /\ reply \in S
    BY <1>5, <1>7 DEF Devices, Replies
  <2> HIDE DEF S
  <2>2. Append(device.replies, reply) \in Seq(S)
    BY <2>1
  <2> QED
    BY <2>2 DEF S, Replies
<1> HIDE DEF replies
<1>9. /\ q \in Devices(k) /\ q.number = device.number
      /\ q.memory = device.memory /\ q.replies = replies
  BY <1>5, <1>8 DEF Devices
<1>10. device' = [w EXCEPT !.told = told]
  BY <1>1 DEF after_transmit, replies, reply
<1> HIDE DEF q
<1>11. /\ w \in Devices(k) /\ ~w.got_reg_num /\ Waiting(w) /\ SameData(q, w)
  BY <1>4, <1>9, WaitLemma
<1>12. told \in Told
  <2> DEFINE S == ({"write"} \X Numbers \X Nat) \cup ({"read"} \X Numbers)
             e == <<"read", q.number>>
  <2>1. e \in S /\ w.told \in Seq(S)
    BY <1>9, <1>11 DEF Devices, Told
  <2> HIDE DEF S, e
  <2>2. Append(w.told, e) \in Seq(S)
    BY <2>1
  <2> QED
    BY <2>2 DEF Told, S, e
<1> HIDE DEF w, told
<1>13. /\ device' \in Devices(k) /\ ~device'.got_reg_num /\ Waiting(device')
       /\ device'.memory = device.memory /\ device'.replies = replies
  BY <1>9, <1>10, <1>11, <1>12 DEF Devices, Waiting, SameData
<1>14. IInv'
  BY <1>4, <1>13, DevicesGrow DEF IInv, Types, Installed
<1>15. File!Read(length)
  BY <1>1, <1>6, <1>13, SameNames DEF File!Read, File!Frame, Chosen, replies
<1> QED
  BY <1>13, <1>14, <1>15 DEF File!Next

LEMMA ListenStep ==
  ASSUME RegisterAssumption, IInv, listen
  PROVE  IInv' /\ File!Next /\ device'.memory = device.memory
<1>1. device \in Devices(Len(frames)) /\ [kind |-> "listen"] \in FrameRecords
  BY DEF IInv, Types, FrameRecords
<1>2. /\ frames' \in Seq(FrameRecords) /\ Len(frames') = Len(frames) + 1
      /\ Len(frames) \in Nat
  BY <1>1, FrameAdded DEF IInv, listen
<1>3. /\ device' \in Devices(Len(frames)) /\ ~device'.got_reg_num
      /\ Waiting(device') /\ SameData(device, device')
  BY <1>1, <1>2, WaitLemma DEF listen
<1>4. IInv'
  BY <1>2, <1>3, DevicesGrow DEF IInv, Types, Installed
<1>5. File!listen
  BY <1>3, SameNames DEF listen, File!listen, File!Frame, SameData
<1> QED
  BY <1>3, <1>4, <1>5 DEF File!Next, SameData

\* What a step tells of the registers it changed.
ToldOnce ==
  device'.memory # device.memory =>
    LET changed == {r \in Registers : device'.memory[r] # device.memory[r]}
        told == Last(device'.told)
    IN  /\ Len(device'.told) = Len(device.told) + 1
        /\ told[1] = "write" /\ told[2] = Min(changed)
        /\ told[3] >= Cardinality(changed)

LEMMA AppendLemma ==
  ASSUME NEW S, NEW q \in Seq(S), NEW e \in S
  PROVE  /\ Append(q, e) \in Seq(S) /\ Len(Append(q, e)) = Len(q) + 1
         /\ Append(q, e)[Len(q) + 1] = e
OBVIOUS

LEMMA LeastLemma ==
  ASSUME NEW S \in SUBSET Int, NEW x \in S, \A y \in S : x <= y
  PROVE  Min(S) = x
<1> DEFINE m == Min(S)
<1>1. m \in S /\ \A y \in S : m <= y
  BY DEF Min
<1> HIDE DEF m
<1>2. m <= x /\ x <= m /\ m \in Int /\ x \in Int
  BY <1>1
<1> QED
  BY <1>2 DEF m

\* The bytes of frame k + 1 are stored in n registers from the first on, and
\* they are told as a write of at least n bytes from that register.
LEMMA StoredTold ==
  ASSUME RegisterAssumption, IInv, NEW at \in Registers, NEW first \in Nat,
         NEW n \in Nat, NEW length \in Nat, n <= length,
         at + n - 1 \in Registers \/ n = 0,
         device'.memory = Stored(device.memory, at, Len(frames) + 1, first, n),
         device'.told = Append(device.told, <<"write", at, length>>)
  PROVE  ToldOnce
<1> DEFINE k == Len(frames)
           area == at .. (at + n - 1)
           changed == {r \in Registers : device'.memory[r] # device.memory[r]}
           e == <<"write", at, length>>
<1>1. /\ k \in Nat /\ device \in Devices(k) /\ at \in Int
      /\ mutable_buffer_size \in Nat /\ read_only_buffer_size \in Nat
  BY DEF IInv, Types, Registers, RegisterAssumption
<1>2. device.memory \in [Registers -> Bytes(k)]
  BY <1>1 DEF Devices
<1>3. /\ device'.memory \in [Registers -> Bytes(k + 1)]
      /\ \A r \in Registers :
           device'.memory[r] = IF r \in area THEN <<k + 1, first + r - at>>
                                             ELSE device.memory[r]
  <2> DEFINE m == device.memory
  <2>1. device'.memory = Stored(m, at, k + 1, first, n) /\ n \in Int
    OBVIOUS
  <2>2. m \in Memories(k) /\ k \in Nat /\ at \in Int
    BY <1>1, <1>2 DEF Memories
  <2> HIDE DEF m, k
  <2> DEFINE t == Stored(m, at, k + 1, first, n)
  <2>3. t \in Memories(k + 1) /\ Overwritten(t, m, at, k + 1, first, n)
    BY <2>1, <2>2, StoredLemma
  <2> HIDE DEF t
  <2>4. device'.memory = t
    BY <2>1 DEF t
  <2> QED
    BY <2>3, <2>4 DEF m, Memories, Overwritten
<1>4. area \subseteq Registers
  BY <1>1 DEF Registers
<1>5. \A r \in Registers : device.memory[r] \in Bytes(k)
  BY <1>2
<1>6. \A r \in area : device'.memory[r] # device.memory[r]
  <2> TAKE r \in area
  <2> DEFINE p == first + r - at
  <2>1. device'.memory[r] = <<k + 1, p>> /\ device.memory[r] \in Bytes(k)
    BY <1>3, <1>4, <1>5
  <2> HIDE DEF p
  <2>2. <<k + 1, p>> \notin Bytes(k)
    BY <1>1 DEF Bytes
  <2> QED
    BY <2>1, <2>2
<1>7. changed = area
  BY <1>3, <1>4, <1>6
<1> HIDE DEF changed
<1> SUFFICES ASSUME device'.memory # device.memory
             PROVE  /\ Len(device'.told) = Len(device.told) + 1
                    /\ Last(device'.told)[1] = "write"
                    /\ Last(device'.told)[2] = Min(changed)
                    /\ Last(device'.told)[3] >= Cardinality(changed)
  BY DEF ToldOnce, changed
<1>8. n > 0
  <2> SUFFICES ASSUME n = 0 PROVE FALSE
    OBVIOUS
  <2>1. area = {}
    BY <1>1
  <2>2. \A r \in Registers : device'.memory[r] = device.memory[r]
    BY <1>3, <2>1
  <2> QED
    BY <1>2, <1>3, <2>2
<1>9. Min(changed) = at
  <2>1. area \in SUBSET Int /\ at \in area /\ \A y \in area : at <= y
    BY <1>1, <1>8
  <2> QED
    BY <1>7, <2>1, LeastLemma
<1>10. IsFiniteSet(area) /\ Cardinality(area) = n
  <2> DEFINE b == at + n - 1
  <2>1. b \in Int /\ at <= b /\ b - at + 1 = n
    BY <1>1, <1>8
  <2> HIDE DEF b
  <2>2. /\ IsFiniteSet(at .. b)
        /\ Cardinality(at .. b) = IF at > b THEN 0 ELSE b - at + 1
    BY <1>1, <2>1, FS_Interval
  <2>3. ~(at > b)
    BY <1>1, <2>1
  <2> QED
    BY <2>1, <2>2, <2>3 DEF b
<1>11. Len(device'.told) = Len(device.told) + 1 /\ Last(device'.told) = e
  <2> DEFINE S == ({"write"} \X Numbers \X Nat) \cup ({"read"} \X Numbers)
                    \cup {e}
  <2>1. device.told \in Seq(S) /\ e \in S
    BY <1>1 DEF Devices, Told
  <2> HIDE DEF S, e
  <2>2. device'.told = Append(device.told, e)
    BY DEF e
  <2>3. Len(device'.told) = Len(device.told) + 1 /\ Last(device'.told) = e
    <3> DEFINE q == device.told
    <3>1. q \in Seq(S) /\ device'.told = Append(q, e)
      BY <2>1, <2>2
    <3> HIDE DEF q
    <3> DEFINE a == Append(q, e)
    <3>2. Len(a) = Len(q) + 1 /\ a[Len(q) + 1] = e
      BY <2>1, <3>1, AppendLemma
    <3> HIDE DEF a
    <3>3. device'.told = a
      BY <3>1 DEF a
    <3> QED
      BY <3>2, <3>3 DEF Last, q
  <2> QED
    BY <2>3
<1>12. Last(device'.told)[1] = "write" /\ Last(device'.told)[2] = at
         /\ Last(device'.told)[3] = length
  BY <1>11
<1> QED
  BY <1>7, <1>9, <1>10, <1>11, <1>12

-----------------------------------------------------------------------------
(* A write, case by case.                                                  *)

\* The bytes that fit before the end of the mutable registers are those the
\* register file keeps.
LEMMA WrittenLemma ==
  ASSUME RegisterAssumption, IInv, NEW r \in Mutable,
         NEW first \in Nat, NEW last \in Nat, NEW n \in Int,
         n = IF last - first + 1 <= mutable_buffer_size - r
             THEN last - first + 1 ELSE mutable_buffer_size - r,
         device'.memory = Stored(device.memory, r, Len(frames) + 1, first, n)
  PROVE  File!Written(r, first, last)
<1> DEFINE k == Len(frames)
           m == device.memory
           t == Stored(m, r, k + 1, first, n)
           kept(x) == IF r \in Mutable /\ x \in File!SpanOf(r)
                         /\ x - r + first <= last
                      THEN <<k + 1, x - r + first>> ELSE m[x]
<1>1. k \in Nat /\ m \in Memories(k) /\ r \in Nat /\ mutable_buffer_size \in Nat
  BY DEF IInv, Types, Devices, Memories, Mutable, RegisterAssumption
<1>2. t \in Memories(k + 1) /\ Overwritten(t, m, r, k + 1, first, n)
  <2>1. r \in Int
    BY <1>1
  <2> HIDE DEF m, k
  <2> QED
    BY <1>1, <2>1, StoredLemma
<1>3. device'.memory = t
  OBVIOUS
<1> HIDE DEF t
<1>4. ASSUME NEW x \in Registers PROVE t[x] = kept(x)
  <2>1. x \in Int /\ t[x] = IF x \in r .. (r + n - 1)
                            THEN <<k + 1, first + x - r>> ELSE m[x]
    BY <1>2 DEF Overwritten, Registers
  <2>2. x \in File!SpanOf(r) <=> r <= x /\ x < mutable_buffer_size
    BY <1>1, <2>1, SpanLemma
  <2>3. x \in r .. (r + n - 1)
           <=> x \in File!SpanOf(r) /\ x - r + first <= last
    BY <1>1, <2>1, <2>2
  <2>4. first + x - r = x - r + first
    BY <1>1, <2>1
  <2> QED
    BY <2>1, <2>3, <2>4
<1>5. t = [x \in Registers |-> t[x]]
  BY <1>2 DEF Memories
<1>6. t = [x \in Registers |-> kept(x)]
  <2> HIDE DEF kept
  <2> QED
    BY <1>4, <1>5
<1> QED
  BY <1>3, <1>6, SameNames DEF File!Written

\* Nothing is kept of what is written to any other number.
LEMMA DiscardedLemma ==
  ASSUME IInv, NEW r, r \notin Mutable, NEW first, NEW last,
         device'.memory = device.memory
  PROVE  File!Written(r, first, last)
<1>1. device.memory = [x \in Registers |-> device.memory[x]]
  BY DEF IInv, Types, Devices
<1> QED
  BY <1>1, SameNames DEF File!Written

\* A write of this length is discarded and the register stays selected.
Discarded(number, length) ==
  /\ device.got_reg_num /\ device.number \notin Mutable /\ length > 0
  /\ frames' = Append(frames, [kind |-> "write", length |-> length,
                               number |-> number])
  /\ device' = device

LEMMA EmptyStep ==
  ASSUME RegisterAssumption, IInv, NEW number \in RegisterNumbers,
         NEW length \in Nat, length = 0 \/ device.rx.size = 0,
         frames' = Append(frames, [kind |-> "write", length |-> length,
                                   number |-> number]),
         device' = device
  PROVE  IInv' /\ (File!Write(number, length) \/ Discarded(number, length)) /\ ToldOnce
<1> DEFINE f == [kind |-> "write", length |-> length, number |-> number]
<1>1. f \in FrameRecords
  BY DEF FrameRecords
<1>2. /\ frames' \in Seq(FrameRecords) /\ Len(frames') = Len(frames) + 1
      /\ Len(frames) \in Nat
  <2> HIDE DEF f
  <2> QED
    BY <1>1, FrameAdded DEF IInv, f
<1>3. IInv'
  BY <1>2, DevicesGrow DEF IInv, Types
<1>4. ToldOnce
  BY DEF ToldOnce
<1>5. ASSUME length = 0 PROVE File!Write(number, length)
  <2>1. File!EmptyWrite(number)
    BY <1>5 DEF File!EmptyWrite, File!WriteFrame, File!Frame
  <2> QED
    BY <1>5, <2>1 DEF File!Write
<1>6. ASSUME length > 0 PROVE Discarded(number, length)
  <2>1. device.got_reg_num /\ Selected(device)
    <3>1. device.rx.size = 0
      BY <1>6
    <3>2. REG_SLAVE_WRITE_BUFFER_LENGTH # 0
      BY DEF RegisterAssumption
    <3>3. ~Waiting(device)
      BY <3>1, <3>2 DEF Waiting
    <3> QED
      BY <3>3 DEF IInv, Installed
  <2>2. device.number \in Nat
    BY NumberLemma DEF IInv, Types, Devices
  <2>3. device.number \notin Mutable
    BY <1>6, <2>1, <2>2 DEF Selected, Mutable, RegisterAssumption
  <2> QED
    BY <1>6, <2>1, <2>3 DEF Discarded
<1> QED
  BY <1>3, <1>4, <1>5, <1>6

\* Replacing the memory of a device.
LEMMA MemoryLemma ==
  ASSUME NEW k \in Nat, NEW d \in Devices(k), NEW m \in Memories(k)
  PROVE  LET q == [d EXCEPT !.memory = m]
         IN  /\ q \in Devices(k) /\ q.number = d.number /\ q.memory = m
             /\ q.replies = d.replies /\ q.told = d.told
BY DEF Devices, Memories

\* What a told write leaves behind, given the memory it leaves.
WriteTold(d, m, n) == after_write([d EXCEPT !.memory = m], n)

IsWriteTold(k, t, d, m, n) ==
  /\ t \in Devices(k) /\ ~t.got_reg_num /\ Waiting(t)
  /\ t.number = d.number /\ t.memory = m /\ t.replies = d.replies
  /\ t.told = Append(d.told, <<"write", d.number, n>>)

LEMMA ToldMemoryLemma ==
  ASSUME RegisterAssumption, NEW k \in Nat, NEW d \in Devices(k),
         NEW m \in Memories(k), NEW n \in Nat
  PROVE  IsWriteTold(k, WriteTold(d, m, n), d, m, n)
<1> DEFINE q == [d EXCEPT !.memory = m]
<1>1. /\ q \in Devices(k) /\ q.number = d.number /\ q.memory = m
      /\ q.replies = d.replies /\ q.told = d.told
  BY MemoryLemma
<1> HIDE DEF q
<1>2. LET t == after_write(q, n)
      IN  /\ t \in Devices(k) /\ ~t.got_reg_num /\ Waiting(t)
          /\ SameData(q, t)
          /\ t.told = Append(q.told, <<"write", q.number, n>>)
  BY <1>1, ToldLemma
<1> QED
  BY <1>1, <1>2 DEF SameData, WriteTold, IsWriteTold, q

\* The second frame of a write: the register was selected before.
LEMMA SelectedStep ==
  ASSUME RegisterAssumption, IInv, NEW number \in RegisterNumbers,
         NEW length \in Nat, NEW n \in Nat,
         n = Min({length, device.rx.size}), n > 0, device.got_reg_num,
         File!WriteFrame(number, length),
         device' = WriteTold(device, Stored(device.memory, device.rx.at,
                                            Len(frames) + 1, 1, n), n)
  PROVE  IInv' /\ File!Write(number, length) /\ ToldOnce
<1> DEFINE k == Len(frames)
           f == [kind |-> "write", length |-> length, number |-> number]
           r == device.number
           m == Stored(device.memory, r, k + 1, 1, n)
           fits == mutable_buffer_size - r
<1>1. f \in FrameRecords
  BY DEF FrameRecords
<1>2. /\ frames' \in Seq(FrameRecords) /\ Len(frames') = k + 1 /\ k \in Nat
  <2>1. frames' = Append(frames, f)
    BY DEF File!WriteFrame, File!Frame
  <2> HIDE DEF f
  <2> QED
    BY <1>1, <2>1, FrameAdded DEF IInv
<1>3. /\ device \in Devices(k) /\ device \in Devices(k + 1)
      /\ device.memory \in Memories(k) /\ r \in Nat
      /\ mutable_buffer_size \in Nat /\ read_only_buffer_size \in Nat
      /\ device.rx.size \in Nat
  <2>1. device \in Devices(k)
    BY DEF IInv, Types
  <2>2. device \in Devices(k + 1)
    BY <1>2, <2>1, DevicesGrow
  <2>3. r \in Numbers /\ device.memory \in Memories(k) /\ device.rx \in Buffers
    BY <2>1 DEF Devices, Memories
  <2>4. r \in Nat
    BY <2>3, NumberLemma
  <2>5. device.rx.size \in Nat
    BY <2>3 DEF Buffers
  <2>6. mutable_buffer_size \in Nat /\ read_only_buffer_size \in Nat
    BY DEF RegisterAssumption
  <2> HIDE DEF r, k
  <2> QED
    BY <2>1, <2>2, <2>3, <2>4, <2>5, <2>6
<1>4. Selected(device)
  BY DEF IInv, Installed
<1>5. n = IF length <= device.rx.size THEN length ELSE device.rx.size
  BY <1>3, MinLemma
<1>6. r \in Mutable /\ device.rx.at = r /\ device.rx.size = fits
  <2> DEFINE size == device.rx.size
  <2> HIDE DEF size
  <2>1. device.rx.size # 0
    <3>1. n = (IF length <= size THEN length ELSE size) /\ size \in Nat
      BY <1>3, <1>5 DEF size
    <3>2. size # 0
      BY <3>1
    <3> QED
      BY <3>2 DEF size
  <2>2. r \in Mutable
    BY <1>4, <2>1 DEF Selected
  <2> QED
    BY <1>4, <2>2 DEF Selected
<1>7. m \in Memories(k + 1)
  <2> DEFINE before == device.memory
  <2>1. r \in Int /\ n \in Int /\ before \in Memories(k)
    BY <1>3
  <2> HIDE DEF r, k, before
  <2>2. Stored(before, r, k + 1, 1, n) \in Memories(k + 1)
    BY <1>2, <2>1, StoredLemma
  <2> QED
    BY <2>2 DEF before
<1>8. device' = WriteTold(device, m, n)
  BY <1>6
<1>9. /\ device' \in Devices(k + 1) /\ ~device'.got_reg_num
      /\ Waiting(device') /\ device'.memory = m
      /\ device'.replies = device.replies
      /\ device'.told = Append(device.told, <<"write", r, n>>)
  <2> DEFINE j == k + 1
  <2>1. j \in Nat /\ n \in Nat
    BY <1>2
  <2> HIDE DEF m, j
  <2>2. device \in Devices(j) /\ m \in Memories(j)
    BY <1>3, <1>7 DEF j
  <2>3. IsWriteTold(j, WriteTold(device, m, n), device, m, n)
    BY <2>1, <2>2, ToldMemoryLemma
  <2> QED
    BY <1>8, <2>3 DEF IsWriteTold, j
<1>10. IInv'
  BY <1>2, <1>9 DEF IInv, Types, Installed
<1>11. File!Written(r, 1, length)
  <2>1. n = IF length <= fits THEN length ELSE fits
    BY <1>5, <1>6
  <2>2. fits \in Int /\ n \in Int
    BY <1>3
  <2> HIDE DEF r
  <2>3. n = IF length - 1 + 1 <= fits THEN length - 1 + 1 ELSE fits
    BY <2>1, <2>2
  <2>4. device'.memory = Stored(device.memory, r, Len(frames) + 1, 1, n)
    BY <1>9
  <2> QED
    BY <1>6, <2>2, <2>3, <2>4, WrittenLemma
<1>12. length > 0
  BY <1>3, <1>5
<1>13. Chosen(device) = r /\ r # NONE
  BY <1>3 DEF Chosen, NONE
<1>14. File!WriteSelected(number, length)
  <2> HIDE DEF m
  <2> QED
    BY <1>6, <1>9, <1>11, <1>12, <1>13, SameNames
       DEF File!WriteSelected, Chosen
<1>15. File!Write(number, length)
  BY <1>14 DEF File!Write
<1>16. ToldOnce
  <2>1. n <= fits
    <3>1. n = IF length <= fits THEN length ELSE fits
      BY <1>5, <1>6
    <3>2. fits \in Int
      BY <1>3
    <3> HIDE DEF fits
    <3> QED
      BY <3>1, <3>2
  <2>2. r \in Registers /\ r + n - 1 \in Registers /\ n <= n
    <3> DEFINE own == mutable_buffer_size
               all == mutable_buffer_size + read_only_buffer_size
    <3>1. /\ r \in Nat /\ r < own /\ own <= all /\ all \in Nat /\ own \in Nat
          /\ n <= own - r
      BY <1>3, <1>6, <2>1 DEF Mutable
    <3>2. Registers = 0 .. (all - 1)
      BY DEF Registers
    <3> HIDE DEF r, own, all
    <3> QED
      BY <3>1, <3>2
  <2>3. /\ device'.memory = Stored(device.memory, r, Len(frames) + 1, 1, n)
        /\ device'.told = Append(device.told, <<"write", r, n>>)
    BY <1>9
  <2> HIDE DEF r
  <2> QED
    BY <2>2, <2>3, StoredTold
<1> QED
  BY <1>10, <1>15, <1>16

\* The first byte of a frame is the number of a register.
Named(d, number) == [d EXCEPT !.number = number]

LEMMA NamedLemma ==
  ASSUME NEW k \in Nat, NEW d \in Devices(k), NEW number \in RegisterNumbers
  PROVE  LET q == Named(d, number)
         IN  /\ q \in Devices(k) /\ q.number = number /\ q.memory = d.memory
             /\ q.replies = d.replies /\ q.told = d.told /\ q.rx = d.rx
BY DEF Named, Devices, Numbers

\* A frame with the number and the data.
LEMMA AtOnceStep ==
  ASSUME RegisterAssumption, IInv, NEW number \in RegisterNumbers,
         NEW length \in Nat, NEW n \in Nat,
         n = File!Taken(length), n > 1, ~device.got_reg_num,
         File!WriteFrame(number, length),
         device' = after_write(WriteAtOnce(Named(device, number),
                                           Len(frames) + 1, n), n - 1)
  PROVE  IInv' /\ File!Write(number, length) /\ ToldOnce
<1> DEFINE k == Len(frames)
           f == [kind |-> "write", length |-> length, number |-> number]
           d == Named(device, number)
           fits == mutable_buffer_size - number
           taken == Min({n - 1, fits})
           m == Stored(device.memory, number, k + 1, 2, taken)
<1>1. f \in FrameRecords
  BY DEF FrameRecords
<1>2. /\ frames' \in Seq(FrameRecords) /\ Len(frames') = k + 1 /\ k \in Nat
  <2>1. frames' = Append(frames, f)
    BY DEF File!WriteFrame, File!Frame
  <2> HIDE DEF f
  <2> QED
    BY <1>1, <2>1, FrameAdded DEF IInv
<1>3. device \in Devices(k) /\ device.memory \in Memories(k)
  BY DEF IInv, Types, Devices, Memories
<1>4. /\ number \in Nat /\ number \in Numbers
      /\ mutable_buffer_size \in Nat /\ read_only_buffer_size \in Nat
  BY NumberLemma DEF Numbers, RegisterAssumption
<1>5. /\ d \in Devices(k) /\ d.number = number /\ d.memory = device.memory
      /\ d.replies = device.replies /\ d.told = device.told
  <2> HIDE DEF k
  <2> QED
    BY <1>2, <1>3, NamedLemma
<1>6. d \in Devices(k + 1) /\ k + 1 \in Nat /\ n - 1 \in Nat
  <2>1. k + 1 \in Nat /\ n - 1 \in Nat
    BY <1>2
  <2> HIDE DEF d, k
  <2> QED
    BY <1>2, <1>5, <2>1, DevicesGrow
<1>7. Chosen(device) = NONE
  BY DEF Chosen
<1>8. ASSUME IsWriteTold(k + 1, device', d, device'.memory, n - 1),
             File!Written(number, 2, n)
      PROVE  IInv' /\ File!Write(number, length)
  <2>1. IInv'
    BY <1>2, <1>8 DEF IsWriteTold, IInv, Types, Installed
  <2>2. File!WriteAtOnce(number, length)
    BY <1>5, <1>7, <1>8, SameNames
       DEF File!WriteAtOnce, IsWriteTold, Chosen
  <2> QED
    BY <2>1, <2>2 DEF File!Write
<1>9. CASE number \notin Mutable
  <2>1. device' = after_write(d, n - 1)
    BY <1>5, <1>9 DEF WriteAtOnce
  <2>2. IsWriteTold(k + 1, device', d, d.memory, n - 1)
    <3> DEFINE j == k + 1
               i == n - 1
    <3>1. d \in Devices(j) /\ j \in Nat /\ i \in Nat
      BY <1>6
    <3> HIDE DEF d, j, i
    <3>2. LET t == after_write(d, i)
          IN  /\ t \in Devices(j) /\ ~t.got_reg_num /\ Waiting(t)
              /\ SameData(d, t)
              /\ t.told = Append(d.told, <<"write", d.number, i>>)
      BY <3>1, ToldLemma
    <3> QED
      BY <2>1, <3>2 DEF IsWriteTold, SameData, i, j
  <2>3. device'.memory = device.memory
    BY <1>5, <2>2 DEF IsWriteTold
  <2>4. File!Written(number, 2, n)
    BY <1>9, <2>3, DiscardedLemma
  <2> QED
    BY <1>5, <1>8, <2>2, <2>3, <2>4 DEF ToldOnce
<1>10. CASE number \in Mutable
  <2>1. taken = IF n - 1 <= fits THEN n - 1 ELSE fits
    BY <1>4, <1>6, MinLemma
  <2>2. fits \in Nat /\ fits > 0
    BY <1>4, <1>10 DEF Mutable
  <2>3. taken \in Nat /\ taken <= n - 1 /\ taken <= fits
    <3> HIDE DEF taken, fits
    <3> QED
      BY <1>6, <2>1, <2>2
  <2>4. m \in Memories(k + 1)
    <3> DEFINE before == device.memory
    <3>1. number \in Int /\ taken \in Int /\ before \in Memories(k)
      BY <1>3, <1>4, <2>3
    <3> HIDE DEF k, before, taken
    <3>2. Stored(before, number, k + 1, 2, taken) \in Memories(k + 1)
      BY <1>2, <3>1, StoredLemma
    <3> QED
      BY <3>2 DEF before
  <2>5. device' = WriteTold(d, m, n - 1)
    <3> HIDE DEF d
    <3> QED
      BY <1>5, <1>10 DEF WriteAtOnce, WriteTold, d
  <2>6. IsWriteTold(k + 1, device', d, m, n - 1)
    <3> DEFINE j == k + 1
    <3>1. d \in Devices(j) /\ j \in Nat /\ m \in Memories(j)
      BY <1>6, <2>4
    <3> HIDE DEF d, j, m
    <3> QED
      BY <1>6, <2>5, <3>1, ToldMemoryLemma DEF j
  <2>7. /\ device'.memory = m
        /\ device'.told = Append(device.told, <<"write", number, n - 1>>)
    BY <1>5, <2>6 DEF IsWriteTold
  <2>8. File!Written(number, 2, n)
    <3>1. n - 2 + 1 = n - 1
      BY <1>6
    <3>2. taken = IF n - 2 + 1 <= mutable_buffer_size - number
                  THEN n - 2 + 1 ELSE mutable_buffer_size - number
      BY <2>1, <3>1
    <3>3. device'.memory = Stored(device.memory, number, Len(frames) + 1, 2, taken)
      BY <2>7
    <3> HIDE DEF taken
    <3> QED
      BY <1>10, <2>3, <3>2, <3>3, WrittenLemma
  <2>9. ToldOnce
    <3>1. number \in Registers /\ (number + taken - 1 \in Registers \/ taken = 0)
      BY <1>4, <2>2, <2>3 DEF Registers
    <3>2. device'.memory = Stored(device.memory, number, Len(frames) + 1, 2, taken)
      BY <2>7
    <3> HIDE DEF taken
    <3> QED
      BY <1>6, <2>3, <2>7, <3>1, <3>2, StoredTold
  <2> QED
    BY <1>8, <2>6, <2>7, <2>8, <2>9
<1> QED
  BY <1>9, <1>10

\* A frame with the number alone.
LEMMA SelectStep ==
  ASSUME RegisterAssumption, IInv, NEW number \in RegisterNumbers,
         NEW length \in Nat, File!Taken(length) = 1, ~device.got_reg_num,
         File!WriteFrame(number, length),
         device' = Select([Named(device, number) EXCEPT !.got_reg_num = TRUE])
  PROVE  IInv' /\ File!Write(number, length) /\ ToldOnce
<1> DEFINE k == Len(frames)
           f == [kind |-> "write", length |-> length, number |-> number]
           d == Named(device, number)
           q == [d EXCEPT !.got_reg_num = TRUE]
<1>1. f \in FrameRecords
  BY DEF FrameRecords
<1>2. /\ frames' \in Seq(FrameRecords) /\ Len(frames') = k + 1 /\ k \in Nat
  <2>1. frames' = Append(frames, f)
    BY DEF File!WriteFrame, File!Frame
  <2> HIDE DEF f
  <2> QED
    BY <1>1, <2>1, FrameAdded DEF IInv
<1>3. device \in Devices(k)
  BY DEF IInv, Types
<1>4. /\ d \in Devices(k) /\ d.number = number /\ d.memory = device.memory
      /\ d.replies = device.replies /\ d.rx = device.rx
  <2> HIDE DEF k
  <2> QED
    BY <1>2, <1>3, NamedLemma
<1>5. d.rx = [at |-> NONE, size |-> REG_SLAVE_WRITE_BUFFER_LENGTH]
  BY <1>4 DEF IInv, Installed, Waiting
<1> HIDE DEF d
<1>6. q \in Devices(k) /\ q.got_reg_num /\ SameData(d, q) /\ q.rx = d.rx
  BY <1>4 DEF Devices, SameData
<1>7. device' = Select(q)
  BY DEF d
<1> HIDE DEF q
<1>8. /\ device' \in Devices(k) /\ device'.got_reg_num /\ Selected(device')
      /\ SameData(q, device')
  <2> HIDE DEF k
  <2> QED
    BY <1>2, <1>5, <1>6, <1>7, SelectLemma
<1>9. /\ device'.number = number /\ device'.memory = device.memory
      /\ device'.replies = device.replies
  BY <1>4, <1>6, <1>8 DEF SameData
<1>10. IInv'
  <2>1. device' \in Devices(k + 1)
    <3> HIDE DEF k
    <3> QED
      BY <1>2, <1>8, DevicesGrow
  <2> QED
    BY <1>2, <1>8, <2>1 DEF IInv, Types, Installed
<1>11. File!Select(number, length)
  BY <1>8, <1>9, SameNames DEF File!Select
<1> QED
  BY <1>9, <1>10, <1>11 DEF File!Write, ToldOnce

LEMMA WriteStep ==
  ASSUME RegisterAssumption, IInv, WriteFrame
  PROVE  IInv' /\ (File!Next \/ StaysSelected) /\ ToldOnce
<1>1. PICK number \in RegisterNumbers, length \in 0 .. MAX_LENGTH :
        LET k == Len(frames) + 1
            n == Min({length, device.rx.size})
            stored == IF n = 0 THEN device
                      ELSE IF device.rx.at = NONE
                      THEN [device EXCEPT !.number = number]
                      ELSE [device EXCEPT !.memory =
                              Stored(@, device.rx.at, k, 1, n)]
        IN  /\ frames' = Append(frames, [kind |-> "write", length |-> length,
                                         number |-> number])
            /\ device' = IF n = 0 THEN device ELSE after_receive(stored, k, n)
  BY DEF WriteFrame
<1> DEFINE k == Len(frames) + 1
           n == Min({length, device.rx.size})
           size == device.rx.size
           d == Named(device, number)
           put == [device EXCEPT !.memory =
                     Stored(device.memory, device.rx.at, k, 1, n)]
<1>2. length \in Nat /\ device.rx \in Buffers /\ size \in Nat
  BY DEF RegisterAssumption, IInv, Types, Devices, Buffers
<1>3. n = IF length <= size THEN length ELSE size
  BY <1>2, MinLemma
<1>4. n \in Nat /\ (n = 0 => length = 0 \/ size = 0)
  <2> HIDE DEF n, size
  <2> QED
    BY <1>2, <1>3
<1>5. File!WriteFrame(number, length)
  BY <1>1 DEF File!WriteFrame, File!Frame
<1>6. ASSUME /\ IInv' /\ ToldOnce
             /\ File!Write(number, length) \/ Discarded(number, length)
      PROVE  IInv' /\ (File!Next \/ StaysSelected) /\ ToldOnce
  <2>1. CASE File!Write(number, length)
    BY <1>6, <2>1 DEF File!Next
  <2>2. CASE Discarded(number, length)
    <3>1. length \in 1 .. MAX_LENGTH
      BY <2>2 DEF Discarded, RegisterAssumption
    <3>2. StaysSelected
      BY <2>2, <3>1 DEF Discarded, StaysSelected
    <3> QED
      BY <1>6, <3>2
  <2> QED
    BY <1>6, <2>1, <2>2
<1>7. CASE n = 0
  <2>1. device' = device
    BY <1>1, <1>7
  <2> HIDE DEF n, size
  <2>2. length = 0 \/ device.rx.size = 0
    BY <1>4, <1>7 DEF size
  <2> QED
    BY <1>1, <1>2, <1>6, <2>1, <2>2, EmptyStep
<1>8. CASE n # 0 /\ device.got_reg_num
  <2>1. device.rx.at # NONE
    <3>1. Selected(device) /\ size # 0
      <4> HIDE DEF n, size
      <4>1. size # 0
        BY <1>2, <1>3, <1>8
      <4> QED
        BY <1>8, <4>1 DEF IInv, Installed
    <3>2. device.number \in Mutable /\ device.rx.at = device.number
      BY <3>1 DEF Selected
    <3> QED
      BY <3>2 DEF Mutable, NONE
  <2>2. put.got_reg_num
    BY <1>8 DEF IInv, Types, Devices
  <2>3. device' = after_receive(put, k, n)
    BY <1>1, <1>8, <2>1
  <2>4. device' = WriteTold(device, Stored(device.memory, device.rx.at, k, 1, n), n)
    BY <2>2, <2>3 DEF after_receive, WriteTold
  <2>5. n = Min({length, device.rx.size}) /\ n > 0
    BY <1>4, <1>8
  <2> HIDE DEF n
  <2> QED
    BY <1>2, <1>4, <1>5, <1>6, <1>8, <2>4, <2>5, SelectedStep
<1>9. CASE n # 0 /\ ~device.got_reg_num
  <2>1. device.rx = [at |-> NONE, size |-> REG_SLAVE_WRITE_BUFFER_LENGTH]
    BY <1>9 DEF IInv, Installed, Waiting
  <2>2. device' = after_receive(d, k, n)
    BY <1>1, <1>9, <2>1 DEF Named
  <2>3. ~d.got_reg_num
    BY <1>9 DEF IInv, Types, Devices, Named
  <2>4. n = File!Taken(length)
    <3>1. size = REG_SLAVE_WRITE_BUFFER_LENGTH
      BY <2>1
    <3> HIDE DEF n, size
    <3> QED
      BY <1>2, <1>3, <3>1 DEF File!Taken
  <2> HIDE DEF n
  <2>5. CASE n > 1
    <3>1. device' = after_write(WriteAtOnce(d, k, n), n - 1)
      BY <2>2, <2>3, <2>5 DEF after_receive
    <3> QED
      BY <1>2, <1>4, <1>5, <1>6, <1>9, <2>4, <2>5, <3>1, AtOnceStep
  <2>6. CASE n = 1
    <3>1. device' = Select([d EXCEPT !.got_reg_num = TRUE])
      BY <2>2, <2>3, <2>6 DEF after_receive
    <3> QED
      BY <1>2, <1>5, <1>6, <1>9, <2>4, <2>6, <3>1, SelectStep
  <2> QED
    BY <1>4, <1>9, <2>5, <2>6
<1> QED
  BY <1>7, <1>8, <1>9

-----------------------------------------------------------------------------
(* The theorems.                                                           *)

LEMMA InitInv ==
  ASSUME RegisterAssumption, Init
  PROVE  IInv /\ File!Init
<1> DEFINE d == [got_reg_num |-> FALSE, rx |-> [at |-> NONE, size |-> 0],
                 tx |-> [at |-> 0, size |-> 0], number |-> 0,
                 memory |-> [r \in Registers |-> <<0, r>>], replies |-> <<>>,
                 told |-> <<>>]
<1>1. frames \in Seq(FrameRecords) /\ Len(frames) = 0 /\ 0 \in Nat
  BY DEF Init
<1>2. d \in Devices(0)
  <2> DEFINE m == [r \in Registers |-> <<0, r>>]
  <2>1. m \in [Registers -> Bytes(0)]
    BY DEF Registers, Bytes, RegisterAssumption
  <2>2. <<>> \in Replies /\ <<>> \in Told
    <3>1. \A S : <<>> \in Seq(S)
      OBVIOUS
    <3> QED
      BY <3>1 DEF Replies, Told
  <2> HIDE DEF m
  <2>3. 0 \in Numbers /\ [at |-> NONE, size |-> 0] \in Buffers
          /\ [at |-> 0, size |-> 0] \in Buffers
    BY DEF Numbers, Buffers, NONE
  <2> QED
    BY <2>1, <2>2, <2>3 DEF Devices, m
<1>3. device = wait_for_reg_num(d)
  BY DEF Init
<1>4. d.memory = [r \in Registers |-> <<0, r>>] /\ d.replies = <<>>
  OBVIOUS
<1> HIDE DEF d
<1>5. /\ device \in Devices(0) /\ ~device.got_reg_num /\ Waiting(device)
      /\ SameData(d, device)
  BY <1>1, <1>2, <1>3, WaitLemma
<1>6. IInv
  BY <1>1, <1>5 DEF IInv, Types, Installed
<1>7. File!Init
  BY <1>4, <1>5, SameNames DEF Init, File!Init, SameData
<1> QED
  BY <1>6, <1>7

LEMMA StepInv ==
  ASSUME RegisterAssumption, IInv, [Next]_vars
  PROVE  IInv' /\ [File!Next \/ StaysSelected]_vars
         /\ (UNCHANGED vars \/ ToldOnce)
<1>1. CASE WriteFrame
  BY <1>1, WriteStep
<1>2. CASE ReadFrame
  BY <1>2, ReadStep DEF ToldOnce
<1>3. CASE listen
  BY <1>3, ListenStep DEF ToldOnce
<1>4. CASE UNCHANGED vars
  <2>1. UNCHANGED <<frames, device>>
    BY <1>4 DEF vars
  <2> QED
    BY <1>4, <2>1 DEF IInv, Types
<1> QED
  BY <1>1, <1>2, <1>3, <1>4 DEF Next

LEMMA Invariant == Spec => []IInv
<1>1. Init => IInv
  BY RegisterAssumption, InitInv
<1>2. IInv /\ [Next]_vars => IInv'
  BY RegisterAssumption, StepInv
<1> QED
  BY <1>1, <1>2, PTL DEF Spec

LEMMA BuffersInside ==
  ASSUME RegisterAssumption, IInv
  PROVE  TypeOK
<1> DEFINE own == mutable_buffer_size
           all == mutable_buffer_size + read_only_buffer_size
           n == device.number
<1>1. own \in Nat /\ all \in Nat /\ own <= all
  BY DEF RegisterAssumption
<1>2. n \in Numbers /\ device.memory \in [Registers -> Bytes(Len(frames))]
  BY DEF IInv, Types, Devices
<1>3. n \in Nat
  BY <1>2, NumberLemma
<1>4. CASE ~device.got_reg_num
  BY <1>2, <1>4 DEF IInv, Installed, Waiting, TypeOK, Numbers
<1>5. CASE device.got_reg_num
  <2>1. Selected(device)
    BY <1>5 DEF IInv, Installed
  <2>2. CASE n \in Mutable
    <3>1. /\ device.rx.at = n /\ device.rx.size = own - n
          /\ device.tx.at = n /\ device.tx.size = own - n
      BY <2>1, <2>2 DEF Selected
    <3>2. n < own
      BY <2>2 DEF Mutable
    <3>3. n + (own - n) <= own /\ n + (own - n) - 1 \in Registers
      BY <1>1, <1>3, <3>2 DEF Registers
    <3> QED
      BY <1>2, <3>1, <3>3 DEF TypeOK, Numbers
  <2>3. CASE n \notin Mutable
    <3>1. device.rx.at = NONE
      BY <2>1, <2>3 DEF Selected
    <3>2. device.tx.size = 0 \/ device.tx.at + device.tx.size - 1 \in Registers
      <4>1. CASE n \in Registers
        <5> DEFINE size == mutable_buffer_size + read_only_buffer_size - n
        <5>1. device.tx = [at |-> n, size |-> size]
          BY <2>1, <2>3, <4>1, Zenon DEF Selected
        <5>2. n + size - 1 \in Registers
          BY <1>1, <1>3, <4>1 DEF Registers
        <5> HIDE DEF n, size
        <5> QED
          BY <5>1, <5>2
      <4>2. CASE n \notin Registers
        BY <2>1, <2>3, <4>2 DEF Selected
      <4> QED
        BY <4>1, <4>2
    <3> QED
      BY <1>2, <3>1, <3>2 DEF TypeOK, Numbers
  <2> QED
    BY <2>2, <2>3
<1> QED
  BY <1>4, <1>5

\* The buffers the class gives the driver lie in the registers, the one the
\* driver stores into in the mutable ones, whatever numbers and lengths the
\* master sends.
THEOREM TypeCorrect == Spec => []TypeOK
<1>1. IInv => TypeOK
  BY RegisterAssumption, BuffersInside
<1> QED
  BY <1>1, Invariant, PTL

\* The class is a register file: swapping buffers in the callbacks has the
\* effect that the frames mean, but for a selection that outlives the writes
\* that are discarded.
THEOREM ClassIsRegisterFile == Spec => IsFileButForDiscards
<1>1. Init => File!Init
  BY RegisterAssumption, InitInv
<1>2. IInv /\ [Next]_vars => [File!Next \/ StaysSelected]_vars
  BY RegisterAssumption, StepInv
<1> QED
  BY <1>1, <1>2, Invariant, PTL DEF Spec, IsFileButForDiscards

\* The sketch is told of every change once, with the first register and with
\* at least as many bytes as changed.
THEOREM ChangesAreTold == Spec => ChangesTold
<1>1. IInv /\ [Next]_vars => UNCHANGED vars \/ ToldOnce
  BY RegisterAssumption, StepInv
<1>2. ToldOnce =>
        (device'.memory # device.memory =>
           LET changed == {r \in Registers :
                             device'.memory[r] # device.memory[r]}
               told == Last(device'.told)
           IN  /\ Len(device'.told) = Len(device.told) + 1
               /\ told[1] = "write" /\ told[2] = Min(changed)
               /\ told[3] >= Cardinality(changed))
  BY DEF ToldOnce
<1> QED
  BY <1>1, <1>2, Invariant, PTL DEF Spec, ChangesTold

=============================================================================
