------------------------ MODULE SerialPlotterProofs ------------------------
(***************************************************************************)
(* Proofs about SerialPlotter: wherever the script starts to read and      *)
(* however often the mode changes, it never meets a line of no characters, *)
(* and a column is made of one report.                                     *)
(***************************************************************************)
EXTENDS SerialPlotter, FiniteSetTheorems, TLAPS

\* What is printed before the value of channel c in report k, m tokens back, up
\* to the end of the line before it.
Before(k, c, m) ==
  IF m = 2 * c THEN CR
  ELSE IF m = 2 * c - 1 THEN LF
  ELSE IF m % 2 = 1 THEN SEP ELSE Value(k, c - (m \div 2))

Placed(t) ==
  \A j \in 1 .. Len(t) : \A k \in 1 .. MAX_REPORTS, c \in Channels :
    t[j] = Power(k, c) =>
      /\ c <= N_ENABLED
      /\ \A m \in 1 .. 2 * c : m < j => t[j - m] = Before(k, c, m)

\* Every carriage return is followed by a line feed.
Broken(t) ==
  \A i \in 1 .. Len(t) : t[i] = CR => i < Len(t) /\ t[i + 1] = LF

\* A text ends with the end of a line.
Ends(t) ==
  /\ Len(t) >= 1 => t[Len(t)] = LF
  /\ Len(t) >= 2 => t[Len(t) - 1] = CR

Text(t) == t \in Seq(Token) /\ Placed(t) /\ Broken(t) /\ Ends(t)

\* Whole lines without a value.
Plain(t) ==
  /\ t \in Seq(Token) /\ Broken(t)
  /\ t # <<>> => Len(t) >= 2 /\ t[Len(t)] = LF /\ t[Len(t) - 1] = CR
  /\ \A i \in 1 .. Len(t) : t[i][1] # "dBm"

-----------------------------------------------------------------------------
(* Sequences and tokens.                                                   *)

LEMMA ConcatLemma ==
  ASSUME NEW S, NEW a \in Seq(S), NEW b \in Seq(S)
  PROVE  /\ a \o b \in Seq(S) /\ Len(a \o b) = Len(a) + Len(b)
         /\ \A i \in 1 .. Len(a) : (a \o b)[i] = a[i]
         /\ \A i \in Len(a) + 1 .. Len(a) + Len(b) : (a \o b)[i] = b[i - Len(a)]
OBVIOUS

LEMMA SuffixLemma ==
  ASSUME NEW S, NEW t \in Seq(S), NEW n \in 0 .. Len(t)
  PROVE  LET s == SubSeq(t, n + 1, Len(t))
         IN  /\ s \in Seq(S) /\ Len(s) = Len(t) - n
             /\ \A i \in 1 .. Len(s) : s[i] = t[n + i]
OBVIOUS

LEMMA FunctionLemma ==
  ASSUME NEW S, NEW n \in Nat, NEW f \in [1 .. n -> S]
  PROVE  f \in Seq(S) /\ Len(f) = n
OBVIOUS

LEMMA TokenLemma ==
  /\ \A k, c : Power(k, c)[1] = "dBm" /\ Power(k, c)[2] = k /\ Power(k, c)[3] = c
  /\ \A k, c : Power(k, c) \notin {CR, LF, SEP, TEXT, FLOOR}
  /\ \A x \in {CR, LF, SEP, TEXT, FLOOR} : x[1] # "dBm"
  /\ \A c : Raw(c)[1] = "raw" /\ Raw(c) \notin {CR, LF, SEP, TEXT, FLOOR}
  /\ CR # LF /\ CR # SEP /\ CR # FLOOR /\ LF # SEP /\ LF # FLOOR /\ SEP # FLOOR
  /\ CR # TEXT /\ LF # TEXT /\ SEP # TEXT
  /\ {CR, LF, SEP, TEXT, FLOOR} \subseteq Token
  /\ \A c \in Channels : Raw(c) \in Token
  /\ \A k \in 1 .. MAX_REPORTS, c \in Channels : Power(k, c) \in Token
  /\ \A a \in Token : a[1] = "dBm" =>
       \E k \in 1 .. MAX_REPORTS, c \in Channels : a = Power(k, c)
<1>1. /\ \A k, c : Power(k, c)[1] = "dBm" /\ Power(k, c)[2] = k
                   /\ Power(k, c)[3] = c
      /\ \A c : Raw(c)[1] = "raw"
  BY DEF Power, Raw
<1>2. /\ CR[1] = "CR" /\ LF[1] = "LF" /\ SEP[1] = ", " /\ TEXT[1] = "text"
      /\ FLOOR[1] = "-59"
  BY DEF CR, LF, SEP, TEXT, FLOOR
<1>3. /\ {CR, LF, SEP, TEXT, FLOOR} \subseteq Token
      /\ \A c \in Channels : Raw(c) \in Token
      /\ \A k \in 1 .. MAX_REPORTS, c \in Channels : Power(k, c) \in Token
  BY DEF Token
<1>4. ASSUME NEW a \in Token, a[1] = "dBm"
      PROVE  \E k \in 1 .. MAX_REPORTS, c \in Channels : a = Power(k, c)
  <2>1. a \notin {CR, LF, SEP, TEXT, FLOOR}
    BY <1>2, <1>4
  <2>2. \A c \in Channels : a # Raw(c)
    BY <1>1, <1>4
  <2> QED
    BY <2>1, <2>2 DEF Token
<1>5. /\ \A k, c : Power(k, c) \notin {CR, LF, SEP, TEXT, FLOOR}
      /\ \A c : Raw(c) \notin {CR, LF, SEP, TEXT, FLOOR}
  <2>1. ASSUME NEW a, a[1] \in {"dBm", "raw"}
        PROVE  a \notin {CR, LF, SEP, TEXT, FLOOR}
    BY <1>2, <2>1
  <2> QED
    BY <1>1, <2>1
<1>6. /\ \A x \in {CR, LF, SEP, TEXT, FLOOR} : x[1] # "dBm"
      /\ CR # LF /\ CR # SEP /\ CR # FLOOR /\ LF # SEP /\ LF # FLOOR
      /\ SEP # FLOOR /\ CR # TEXT /\ LF # TEXT /\ SEP # TEXT
  BY <1>2
<1> QED
  BY <1>1, <1>3, <1>4, <1>5, <1>6

LEMMA NumberLemma ==
  /\ N_CHANNELS \in Nat \ {0} /\ N_ENABLED \in Nat /\ N_ENABLED <= N_CHANNELS
  /\ N_BLANKS \in Nat /\ MAX_REPORTS \in Nat
BY PlotterAssumption

-----------------------------------------------------------------------------
(* Texts.                                                                  *)

\* The script may start to read anywhere.
LEMMA SuffixText ==
  ASSUME NEW t, Text(t), NEW n \in 0 .. Len(t)
  PROVE  Text(SubSeq(t, n + 1, Len(t)))
<1> DEFINE s == SubSeq(t, n + 1, Len(t))
<1>1. t \in Seq(Token) /\ Len(t) \in Nat
  BY DEF Text
<1>2. /\ s \in Seq(Token) /\ Len(s) = Len(t) - n
      /\ \A i \in 1 .. Len(s) : s[i] = t[n + i]
  BY <1>1, SuffixLemma
<1> HIDE DEF s
<1>3. Len(s) \in Nat
  BY <1>1, <1>2
<1>4. Placed(s)
  <2> SUFFICES ASSUME NEW j \in 1 .. Len(s), NEW k \in 1 .. MAX_REPORTS,
                      NEW c \in Channels, s[j] = Power(k, c)
               PROVE  /\ c <= N_ENABLED
                      /\ \A m \in 1 .. 2 * c : m < j => s[j - m] = Before(k, c, m)
    BY DEF Placed
  <2>1. n + j \in 1 .. Len(t) /\ t[n + j] = Power(k, c)
    BY <1>1, <1>2, <1>3
  <2>2. /\ c <= N_ENABLED
        /\ \A m \in 1 .. 2 * c : m < n + j => t[n + j - m] = Before(k, c, m)
    BY <2>1 DEF Text, Placed
  <2>3. ASSUME NEW m \in 1 .. 2 * c, m < j PROVE s[j - m] = Before(k, c, m)
    <3>1. j - m \in 1 .. Len(s) /\ n + (j - m) = n + j - m /\ m < n + j
      BY <1>1, <1>3, <2>3 DEF Channels
    <3> QED
      BY <1>2, <2>2, <3>1
  <2> QED
    BY <2>2, <2>3
<1>5. Broken(s)
  <2> SUFFICES ASSUME NEW i \in 1 .. Len(s), s[i] = CR
               PROVE  i < Len(s) /\ s[i + 1] = LF
    BY DEF Broken
  <2>1. n + i \in 1 .. Len(t) /\ t[n + i] = CR
    BY <1>1, <1>2, <1>3
  <2>2. n + i < Len(t) /\ t[n + i + 1] = LF
    BY <2>1 DEF Text, Broken
  <2>3. i < Len(s) /\ i + 1 \in 1 .. Len(s) /\ n + (i + 1) = n + i + 1
    BY <1>1, <1>2, <1>3, <2>2
  <2> QED
    BY <1>2, <2>2, <2>3
<1>6. Ends(s)
  <2>1. Len(s) >= 1 => Len(s) \in 1 .. Len(s) /\ n + Len(s) = Len(t) /\ Len(t) >= 1
    BY <1>1, <1>2, <1>3
  <2>2. Len(s) >= 2 => /\ Len(s) - 1 \in 1 .. Len(s) /\ Len(t) >= 2
                       /\ n + (Len(s) - 1) = Len(t) - 1
    BY <1>1, <1>2, <1>3
  <2> QED
    BY <1>2, <2>1, <2>2 DEF Text, Ends
<1> QED
  BY <1>2, <1>4, <1>5, <1>6 DEF Text, s

LEMMA PlainJoined ==
  ASSUME NEW a, NEW b, Plain(a), Plain(b)
  PROVE  Plain(a \o b)
<1> DEFINE t == a \o b
<1>1. /\ a \in Seq(Token) /\ b \in Seq(Token)
      /\ Len(a) \in Nat /\ Len(b) \in Nat
  BY DEF Plain
<1>2. /\ t \in Seq(Token) /\ Len(t) = Len(a) + Len(b)
      /\ \A i \in 1 .. Len(a) : t[i] = a[i]
      /\ \A i \in Len(a) + 1 .. Len(a) + Len(b) : t[i] = b[i - Len(a)]
  BY <1>1, ConcatLemma
<1>3. (b = <<>> <=> Len(b) = 0) /\ (a = <<>> <=> Len(a) = 0)
      /\ (t = <<>> <=> Len(t) = 0)
  BY <1>1, <1>2
<1> HIDE DEF t
<1>4. Broken(t)
  <2> SUFFICES ASSUME NEW i \in 1 .. Len(t), t[i] = CR
               PROVE  i < Len(t) /\ t[i + 1] = LF
    BY DEF Broken
  <2>1. CASE i \in 1 .. Len(a)
    <3>1. i < Len(a) /\ a[i + 1] = LF
      BY <1>2, <2>1 DEF Plain, Broken
    <3>2. i + 1 \in 1 .. Len(a) /\ i < Len(t)
      BY <1>1, <1>2, <2>1, <3>1
    <3> QED
      BY <1>2, <3>1, <3>2
  <2>2. CASE i \notin 1 .. Len(a)
    <3>1. i - Len(a) \in 1 .. Len(b) /\ b[i - Len(a)] = CR
      BY <1>1, <1>2, <2>2
    <3>2. i - Len(a) < Len(b) /\ b[i - Len(a) + 1] = LF
      BY <3>1 DEF Plain, Broken
    <3>3. /\ i + 1 \in Len(a) + 1 .. Len(a) + Len(b) /\ i < Len(t)
          /\ i + 1 - Len(a) = i - Len(a) + 1
      BY <1>1, <1>2, <2>2, <3>2
    <3> QED
      BY <1>2, <3>2, <3>3
  <2> QED
    BY <2>1, <2>2
<1>5. t # <<>> => Len(t) >= 2 /\ t[Len(t)] = LF /\ t[Len(t) - 1] = CR
  <2>1. CASE Len(b) = 0
    BY <1>1, <1>2, <1>3, <2>1 DEF Plain
  <2>2. CASE Len(b) # 0
    <3>1. Len(b) >= 2 /\ b[Len(b)] = LF /\ b[Len(b) - 1] = CR
      BY <1>1, <1>3, <2>2 DEF Plain
    <3>2. /\ Len(t) \in Len(a) + 1 .. Len(a) + Len(b) /\ Len(t) - Len(a) = Len(b)
          /\ Len(t) - 1 \in Len(a) + 1 .. Len(a) + Len(b)
          /\ Len(t) - 1 - Len(a) = Len(b) - 1 /\ Len(t) >= 2
      BY <1>1, <1>2, <3>1
    <3> QED
      BY <1>2, <3>1, <3>2
  <2> QED
    BY <2>1, <2>2
<1>6. \A i \in 1 .. Len(t) : t[i][1] # "dBm"
  <2> TAKE i \in 1 .. Len(t)
  <2>1. CASE i \in 1 .. Len(a)
    BY <1>2, <2>1 DEF Plain
  <2>2. CASE i \notin 1 .. Len(a)
    <3>1. i - Len(a) \in 1 .. Len(b) /\ t[i] = b[i - Len(a)]
      BY <1>1, <1>2, <2>2
    <3> QED
      BY <3>1 DEF Plain
  <2> QED
    BY <2>1, <2>2
<1> QED
  BY <1>2, <1>4, <1>5, <1>6 DEF Plain, t

\* A text goes on with plain lines.
LEMMA PlainText ==
  ASSUME NEW t, Text(t), NEW v, Plain(v)
  PROVE  Text(t \o v)
<1> DEFINE s == t \o v
<1>1. /\ t \in Seq(Token) /\ v \in Seq(Token)
      /\ Len(t) \in Nat /\ Len(v) \in Nat
  BY DEF Text, Plain
<1>2. /\ s \in Seq(Token) /\ Len(s) = Len(t) + Len(v)
      /\ \A i \in 1 .. Len(t) : s[i] = t[i]
      /\ \A i \in Len(t) + 1 .. Len(t) + Len(v) : s[i] = v[i - Len(t)]
  BY <1>1, ConcatLemma
<1>3. v = <<>> <=> Len(v) = 0
  BY <1>1
<1> HIDE DEF s
<1>4. Placed(s)
  <2> SUFFICES ASSUME NEW j \in 1 .. Len(s), NEW k \in 1 .. MAX_REPORTS,
                      NEW c \in Channels, s[j] = Power(k, c)
               PROVE  /\ c <= N_ENABLED
                      /\ \A m \in 1 .. 2 * c : m < j => s[j - m] = Before(k, c, m)
    BY DEF Placed
  <2>1. j \in 1 .. Len(t)
    <3> SUFFICES ASSUME j \notin 1 .. Len(t) PROVE FALSE
      OBVIOUS
    <3>1. j - Len(t) \in 1 .. Len(v) /\ s[j] = v[j - Len(t)]
      BY <1>1, <1>2
    <3>2. s[j][1] # "dBm"
      BY <3>1 DEF Plain
    <3>3. s[j][1] = "dBm"
      BY TokenLemma
    <3> QED
      BY <3>2, <3>3
  <2>2. /\ c <= N_ENABLED
        /\ \A m \in 1 .. 2 * c : m < j => t[j - m] = Before(k, c, m)
    BY <1>2, <2>1 DEF Text, Placed
  <2>3. ASSUME NEW m \in 1 .. 2 * c, m < j PROVE s[j - m] = Before(k, c, m)
    <3>1. j - m \in 1 .. Len(t)
      BY <1>1, <2>1, <2>3 DEF Channels
    <3> QED
      BY <1>2, <2>2, <2>3, <3>1
  <2> QED
    BY <2>2, <2>3
<1>5. Broken(s)
  <2> SUFFICES ASSUME NEW i \in 1 .. Len(s), s[i] = CR
               PROVE  i < Len(s) /\ s[i + 1] = LF
    BY DEF Broken
  <2>1. CASE i \in 1 .. Len(t)
    <3>1. i < Len(t) /\ t[i + 1] = LF
      BY <1>2, <2>1 DEF Text, Broken
    <3> QED
      BY <1>1, <1>2, <2>1, <3>1
  <2>2. CASE i \notin 1 .. Len(t)
    <3>1. i - Len(t) \in 1 .. Len(v) /\ v[i - Len(t)] = CR
      BY <1>1, <1>2, <2>2
    <3>2. i - Len(t) < Len(v) /\ v[i - Len(t) + 1] = LF
      BY <3>1 DEF Plain, Broken
    <3>3. /\ i + 1 \in Len(t) + 1 .. Len(t) + Len(v) /\ i < Len(s)
          /\ i + 1 - Len(t) = i - Len(t) + 1
      BY <1>1, <1>2, <2>2, <3>2
    <3> QED
      BY <1>2, <3>2, <3>3
  <2> QED
    BY <2>1, <2>2
<1>6. Ends(s)
  <2>1. CASE Len(v) = 0
    <3>1. Len(s) = Len(t)
      BY <1>1, <1>2, <2>1
    <3>2. Len(t) >= 1 => s[Len(t)] = t[Len(t)]
      BY <1>1, <1>2
    <3>3. Len(t) >= 2 => s[Len(t) - 1] = t[Len(t) - 1]
      BY <1>1, <1>2
    <3> QED
      BY <3>1, <3>2, <3>3 DEF Text, Ends
  <2>2. CASE Len(v) # 0
    <3>1. Len(v) >= 2 /\ v[Len(v)] = LF /\ v[Len(v) - 1] = CR
      BY <1>3, <2>2 DEF Plain
    <3>2. /\ Len(s) \in Len(t) + 1 .. Len(t) + Len(v) /\ Len(s) - Len(t) = Len(v)
          /\ Len(s) - 1 \in Len(t) + 1 .. Len(t) + Len(v)
          /\ Len(s) - 1 - Len(t) = Len(v) - 1
      BY <1>1, <1>2, <3>1
    <3> QED
      BY <1>2, <3>1, <3>2 DEF Ends
  <2> QED
    BY <2>1, <2>2
<1> QED
  BY <1>2, <1>4, <1>5, <1>6 DEF Text, s

-----------------------------------------------------------------------------
(* The two reports.                                                        *)

CsvLength == 2 * N_CHANNELS + 3

\* The x-th token of the comma separated report k.
CsvToken(k, x) ==
  IF x <= 2 * N_CHANNELS
  THEN IF x % 2 = 0 THEN SEP ELSE Value(k, (x \div 2) + 1)
  ELSE IF x = 2 * N_CHANNELS + 2 THEN CR ELSE LF

LEMMA ValueLemma ==
  ASSUME NEW k \in 1 .. MAX_REPORTS, NEW c \in Channels
  PROVE  Value(k, c) \in Token
BY TokenLemma DEF Value

LEMMA CsvLemma ==
  ASSUME NEW k \in 1 .. MAX_REPORTS
  PROVE  /\ CsvReport(k) \in Seq(Token) /\ Len(CsvReport(k)) = CsvLength
         /\ \A x \in 1 .. CsvLength : CsvReport(k)[x] = CsvToken(k, x)
<1> DEFINE n == 2 * N_CHANNELS
           body == [i \in 1 .. n |-> IF i % 2 = 0 THEN SEP
                                     ELSE Value(k, (i \div 2) + 1)]
           mid == body \o <<LF>>
<1>1. n \in Nat /\ N_CHANNELS \in Nat
  BY NumberLemma
<1>2. body \in [1 .. n -> Token]
  <2> SUFFICES ASSUME NEW i \in 1 .. n
               PROVE  (IF i % 2 = 0 THEN SEP ELSE Value(k, (i \div 2) + 1)) \in Token
    OBVIOUS
  <2>1. CASE i % 2 = 0
    BY <2>1, TokenLemma
  <2>2. CASE i % 2 # 0
    <3>1. (i \div 2) + 1 \in Channels
      BY <1>1, <2>2 DEF Channels
    <3> QED
      BY <2>2, <3>1, ValueLemma
  <2> QED
    BY <2>1, <2>2
<1>3. \A i \in 1 .. n : body[i] = CsvToken(k, i)
  BY <1>1 DEF CsvToken
<1>4. CsvReport(k) = mid \o Newline
  BY DEF CsvReport
<1> HIDE DEF body
<1>5. body \in Seq(Token) /\ Len(body) = n
  <2> HIDE DEF n
  <2> QED
    BY <1>1, <1>2, FunctionLemma
<1>6. /\ <<LF>> \in Seq(Token) /\ Len(<<LF>>) = 1 /\ <<LF>>[1] = LF
      /\ Newline \in Seq(Token) /\ Len(Newline) = 2 /\ Newline[1] = CR
      /\ Newline[2] = LF
  BY TokenLemma DEF Newline
<1>7. /\ mid \in Seq(Token) /\ Len(mid) = n + 1
      /\ \A i \in 1 .. n : mid[i] = body[i]
      /\ mid[n + 1] = LF
  <2> DEFINE b == <<LF>>
  <2>1. /\ b \in Seq(Token) /\ Len(b) = 1 /\ b[1] = LF
    BY <1>6
  <2> HIDE DEF b, n
  <2> DEFINE joined == body \o b
  <2>2. /\ joined \in Seq(Token) /\ Len(joined) = Len(body) + Len(b)
        /\ \A i \in 1 .. Len(body) : joined[i] = body[i]
        /\ \A i \in Len(body) + 1 .. Len(body) + Len(b) :
             joined[i] = b[i - Len(body)]
    BY <1>5, <2>1, ConcatLemma
  <2> HIDE DEF joined
  <2>3. n + 1 \in n + 1 .. n + 1 /\ n + 1 - n = 1
    BY <1>1
  <2>4. joined[n + 1] = LF
    BY <1>5, <2>1, <2>2, <2>3
  <2>5. /\ joined \in Seq(Token) /\ Len(joined) = n + 1
        /\ \A i \in 1 .. n : joined[i] = body[i]
    BY <1>5, <2>1, <2>2
  <2> USE DEF joined
  <2>6. mid = joined
    BY DEF b
  <2> HIDE DEF joined, mid
  <2> QED
    BY <2>4, <2>5, <2>6
<1> HIDE DEF mid
<1>8. /\ CsvReport(k) \in Seq(Token) /\ Len(CsvReport(k)) = n + 3
      /\ \A i \in 1 .. n + 1 : CsvReport(k)[i] = mid[i]
      /\ CsvReport(k)[n + 2] = CR /\ CsvReport(k)[n + 3] = LF
  <2> DEFINE b == Newline
             t == mid \o b
  <2>1. b \in Seq(Token) /\ Len(b) = 2 /\ b[1] = CR /\ b[2] = LF
    BY <1>6
  <2>2. CsvReport(k) = t
    BY <1>4
  <2> HIDE DEF b, n
  <2>3. /\ t \in Seq(Token) /\ Len(t) = Len(mid) + Len(b)
        /\ \A i \in 1 .. Len(mid) : t[i] = mid[i]
        /\ \A i \in Len(mid) + 1 .. Len(mid) + Len(b) : t[i] = b[i - Len(mid)]
    BY <1>7, <2>1, ConcatLemma
  <2> HIDE DEF t
  <2>4. /\ n + 2 \in Len(mid) + 1 .. Len(mid) + Len(b) /\ (n + 2) - Len(mid) = 1
        /\ n + 3 \in Len(mid) + 1 .. Len(mid) + Len(b) /\ (n + 3) - Len(mid) = 2
        /\ Len(mid) + Len(b) = n + 3
    BY <1>1, <1>7, <2>1
  <2>5. t[n + 2] = CR
    <3> DEFINE at == n + 2
    <3>1. at \in Len(mid) + 1 .. Len(mid) + Len(b) /\ at - Len(mid) = 1
      BY <2>4
    <3> HIDE DEF at
    <3>2. t[at] = b[at - Len(mid)]
      BY <2>3, <3>1
    <3>3. t[at] = CR
      BY <2>1, <3>1, <3>2
    <3> QED
      BY <3>3 DEF at
  <2>6. t[n + 3] = LF
    BY <2>1, <2>3, <2>4
  <2> QED
    BY <1>7, <2>2, <2>3, <2>4, <2>5, <2>6
<1>9. ASSUME NEW x \in 1 .. CsvLength
      PROVE  CsvReport(k)[x] = CsvToken(k, x)
  <2>1. CASE x \in 1 .. n
    BY <1>1, <1>3, <1>7, <1>8, <2>1
  <2>2. CASE x = n + 1
    BY <1>1, <1>7, <1>8, <2>2 DEF CsvToken
  <2>3. CASE x = n + 2
    BY <1>1, <1>8, <2>3 DEF CsvToken
  <2>4. CASE x = n + 3
    BY <1>1, <1>8, <2>4 DEF CsvToken
  <2> QED
    BY <1>1, <2>1, <2>2, <2>3, <2>4 DEF CsvLength
<1> QED
  BY <1>8, <1>9 DEF CsvLength

\* The values that precede a value in its report.
LEMMA CsvBefore ==
  ASSUME NEW k \in 1 .. MAX_REPORTS, NEW x \in 1 .. CsvLength,
         NEW j \in 1 .. MAX_REPORTS, NEW c \in Channels,
         CsvToken(k, x) = Power(j, c)
  PROVE  /\ j = k /\ x = 2 * c - 1 /\ c <= N_ENABLED
         /\ \A m \in 1 .. x - 1 : CsvToken(k, x - m) = Before(k, c, m)
<1>1. N_CHANNELS \in Nat /\ c \in 1 .. N_CHANNELS /\ x \in Int
  BY NumberLemma DEF Channels, CsvLength
<1>2. x <= 2 * N_CHANNELS /\ x % 2 # 0 /\ CsvToken(k, x) = Value(k, (x \div 2) + 1)
  BY TokenLemma DEF CsvToken
<1>3. /\ CsvToken(k, x) = Power(k, (x \div 2) + 1)
      /\ (x \div 2) + 1 <= N_ENABLED
  BY <1>2, TokenLemma DEF Value
<1>4. k = j /\ c = (x \div 2) + 1
  <2> DEFINE a == Power(k, (x \div 2) + 1)
             b == Power(j, c)
  <2>1. a[2] = k /\ a[3] = (x \div 2) + 1 /\ b[2] = j /\ b[3] = c
    BY TokenLemma
  <2> QED
    BY <1>3, <2>1
<1>5. x = 2 * c - 1
  BY <1>1, <1>2, <1>4
<1>6. ASSUME NEW m \in 1 .. x - 1
      PROVE  CsvToken(k, x - m) = Before(k, c, m)
  <2>1. x - m <= 2 * N_CHANNELS /\ m # 2 * c /\ m # 2 * c - 1 /\ m \in Int
    BY <1>1, <1>2, <1>5
  <2>2. CASE m % 2 = 1
    <3>1. (x - m) % 2 = 0
      BY <1>1, <1>5, <2>2
    <3> QED
      BY <2>1, <2>2, <3>1 DEF CsvToken, Before
  <2>3. CASE m % 2 # 1
    <3>1. (x - m) % 2 # 0 /\ ((x - m) \div 2) + 1 = c - (m \div 2)
      BY <1>1, <1>5, <2>3
    <3> QED
      BY <2>1, <2>3, <3>1 DEF CsvToken, Before
  <2> QED
    BY <2>2, <2>3
<1> QED
  BY <1>3, <1>4, <1>5, <1>6

\* A text goes on with a comma separated report.
LEMMA CsvText ==
  ASSUME NEW t, Text(t), NEW k \in 1 .. MAX_REPORTS
  PROVE  Text(t \o CsvReport(k))
<1> DEFINE v == CsvReport(k)
           s == t \o v
           n == Len(t)
<1>1. /\ t \in Seq(Token) /\ v \in Seq(Token)
      /\ n \in Nat /\ Len(v) = CsvLength /\ CsvLength \in Nat /\ CsvLength >= 5
      /\ N_CHANNELS \in Nat
  BY CsvLemma, NumberLemma DEF Text, CsvLength
<1>2. /\ s \in Seq(Token) /\ Len(s) = n + CsvLength
      /\ \A i \in 1 .. n : s[i] = t[i]
      /\ \A i \in n + 1 .. n + CsvLength : s[i] = v[i - n]
  <2> HIDE DEF v
  <2> QED
    BY <1>1, ConcatLemma
<1>3. \A x \in 1 .. CsvLength : s[n + x] = CsvToken(k, x)
  <2> TAKE x \in 1 .. CsvLength
  <2>1. n + x \in n + 1 .. n + CsvLength /\ n + x - n = x
    BY <1>1
  <2>2. s[n + x] = v[x]
    BY <1>2, <2>1
  <2>3. v[x] = CsvToken(k, x)
    BY CsvLemma
  <2> QED
    BY <2>2, <2>3
<1> HIDE DEF s, v
<1>4. Placed(s)
  <2> SUFFICES ASSUME NEW j \in 1 .. Len(s), NEW h \in 1 .. MAX_REPORTS,
                      NEW c \in Channels, s[j] = Power(h, c)
               PROVE  /\ c <= N_ENABLED
                      /\ \A m \in 1 .. 2 * c : m < j => s[j - m] = Before(h, c, m)
    BY DEF Placed
  <2>1. CASE j \in 1 .. n
    <3>1. /\ c <= N_ENABLED
          /\ \A m \in 1 .. 2 * c : m < j => t[j - m] = Before(h, c, m)
      BY <1>2, <2>1 DEF Text, Placed
    <3>2. ASSUME NEW m \in 1 .. 2 * c, m < j PROVE s[j - m] = Before(h, c, m)
      <4>1. j - m \in 1 .. n
        BY <1>1, <2>1, <3>2 DEF Channels
      <4> QED
        BY <1>2, <3>1, <3>2, <4>1
    <3> QED
      BY <3>1, <3>2
  <2>2. CASE j \notin 1 .. n
    <3> DEFINE x == j - n
    <3>1. x \in 1 .. CsvLength /\ n + x = j
      BY <1>1, <1>2, <2>2
    <3>2. CsvToken(k, x) = Power(h, c)
      BY <1>3, <3>1
    <3>3. /\ h = k /\ x = 2 * c - 1 /\ c <= N_ENABLED
          /\ \A m \in 1 .. x - 1 : CsvToken(k, x - m) = Before(k, c, m)
      BY <3>1, <3>2, CsvBefore
    <3>4. c \in Nat \ {0} /\ x \in Int /\ j \in Int
      BY <1>1, <3>1 DEF Channels
    <3> HIDE DEF x
    <3>5. ASSUME NEW m \in 1 .. 2 * c, m < j PROVE s[j - m] = Before(h, c, m)
      <4>1. CASE m \in 1 .. x - 1
        <5>1. x - m \in 1 .. CsvLength /\ n + (x - m) = j - m
          BY <1>1, <3>1, <3>4, <4>1
        <5> QED
          BY <1>3, <3>3, <4>1, <5>1
      <4>2. CASE m = 2 * c - 1
        <5>1. j - m = n /\ n >= 1
          BY <1>1, <3>1, <3>3, <3>4, <3>5, <4>2
        <5>2. s[n] = LF
          BY <1>1, <1>2, <5>1 DEF Text, Ends
        <5>3. Before(h, c, m) = LF
          BY <3>4, <4>2 DEF Before
        <5> QED
          BY <5>1, <5>2, <5>3
      <4>3. CASE m = 2 * c
        <5>1. j - m = n - 1 /\ n >= 2 /\ n - 1 \in 1 .. n
          BY <1>1, <3>1, <3>3, <3>4, <3>5, <4>3
        <5>2. s[n - 1] = CR
          BY <1>2, <5>1 DEF Text, Ends
        <5>3. Before(h, c, m) = CR
          BY <4>3 DEF Before
        <5> QED
          BY <5>1, <5>2, <5>3
      <4> QED
        BY <3>3, <3>4, <4>1, <4>2, <4>3
    <3> QED
      BY <3>3, <3>5
  <2> QED
    BY <2>1, <2>2
<1>5. /\ s[n + CsvLength] = LF /\ s[n + CsvLength - 1] = CR
      /\ \A i \in n + 1 .. n + CsvLength :
           s[i] = CR => i = n + CsvLength - 1
  <2>1. /\ CsvToken(k, CsvLength) = LF /\ CsvToken(k, CsvLength - 1) = CR
        /\ CsvLength \in 1 .. CsvLength /\ CsvLength - 1 \in 1 .. CsvLength
        /\ n + (CsvLength - 1) = n + CsvLength - 1
    BY <1>1 DEF CsvToken, CsvLength
  <2>2. ASSUME NEW x \in 1 .. CsvLength, CsvToken(k, x) = CR
        PROVE  x = CsvLength - 1
    <3>1. x = 2 * N_CHANNELS + 2
      BY <2>2, TokenLemma DEF CsvToken, Value
    <3> QED
      BY <1>1, <3>1 DEF CsvLength
  <2>3. ASSUME NEW i \in n + 1 .. n + CsvLength, s[i] = CR
        PROVE  i = n + CsvLength - 1
    <3>1. i - n \in 1 .. CsvLength /\ n + (i - n) = i
      BY <1>1
    <3>2. CsvToken(k, i - n) = CR
      BY <1>3, <2>3, <3>1
    <3> QED
      BY <1>1, <2>2, <3>1, <3>2
  <2>4. s[n + CsvLength] = LF
    BY <1>3, <2>1
  <2>5. s[n + CsvLength - 1] = CR
    BY <1>3, <2>1
  <2> QED
    BY <2>3, <2>4, <2>5
<1>6. Broken(s)
  <2> SUFFICES ASSUME NEW i \in 1 .. Len(s), s[i] = CR
               PROVE  i < Len(s) /\ s[i + 1] = LF
    BY DEF Broken
  <2>1. CASE i \in 1 .. n
    <3>1. i < n /\ t[i + 1] = LF
      BY <1>2, <2>1 DEF Text, Broken
    <3>2. i + 1 \in 1 .. n /\ i < Len(s)
      BY <1>1, <1>2, <2>1, <3>1
    <3> QED
      BY <1>2, <3>1, <3>2
  <2>2. CASE i \notin 1 .. n
    <3>1. i \in n + 1 .. n + CsvLength
      BY <1>1, <1>2, <2>2
    <3>2. i = n + CsvLength - 1
      BY <1>5, <2>2, <3>1
    <3>3. i < n + CsvLength /\ i + 1 = n + CsvLength
      BY <1>1, <3>2
    <3> QED
      BY <1>2, <1>5, <3>3
  <2> QED
    BY <2>1, <2>2
<1>7. Ends(s)
  <2> DEFINE l == n + CsvLength
  <2>1. n + CsvLength - 1 = l - 1
    BY <1>1
  <2>2. Len(s) = l /\ s[l] = LF /\ s[n + CsvLength - 1] = CR
    BY <1>2, <1>5
  <2> HIDE DEF l
  <2>3. s[l - 1] = CR
    BY <2>1, <2>2
  <2> QED
    BY <2>2, <2>3 DEF Ends
<1> QED
  BY <1>2, <1>4, <1>6, <1>7 DEF Text, s, v

LEMMA ModLemma ==
  ASSUME NEW l \in Nat \ {0}, NEW q \in Int, NEW r \in 0 .. l - 1
  PROVE  (l * q + r) % l = r
<1> DEFINE a == l * q + r
           p == a \div l
           m == a % l
<1>1. a \in Int /\ p \in Int /\ m \in 0 .. l - 1 /\ a = l * p + m
  OBVIOUS
<1>2. l * (q - p) = m - r
  <2> HIDE DEF p, m
  <2> QED
    BY <1>1
<1> HIDE DEF a, p, m
<1>3. -l < m - r /\ m - r < l
  BY <1>1
<1>4. CASE q - p >= 1
  <2>1. l * (q - p) >= l
    BY <1>1, <1>4
  <2> QED
    BY <1>1, <1>2, <1>3, <2>1
<1>5. CASE q - p <= -1
  <2>1. l * (q - p) <= -l
    BY <1>1, <1>5
  <2> QED
    BY <1>1, <1>2, <1>3, <2>1
<1>6. CASE q - p = 0
  <2>1. m = r
    BY <1>1, <1>2, <1>6
  <2> QED
    BY <2>1 DEF a, m
<1> QED
  BY <1>1, <1>4, <1>5, <1>6

\* Tokens repeated.
LEMMA TimesLemma ==
  ASSUME NEW n \in Nat, NEW S, NEW b \in Seq(S), Len(b) \in Nat \ {0}
  PROVE  /\ Times(n, b) \in Seq(S) /\ Len(Times(n, b)) = n * Len(b)
         /\ \A i \in 1 .. n * Len(b) :
              /\ ((i - 1) % Len(b)) + 1 \in 1 .. Len(b)
              /\ Times(n, b)[i] = b[((i - 1) % Len(b)) + 1]
<1> DEFINE l == Len(b)
           f == [i \in 1 .. n * l |-> b[((i - 1) % l) + 1]]
<1>1. l \in Nat \ {0} /\ b \in [1 .. l -> S]
  OBVIOUS
<1>2. n * l \in Nat
  BY <1>1
<1>3. Times(n, b) = f
  BY DEF Times
<1> HIDE DEF l
<1>4. \A i \in 1 .. n * l : ((i - 1) % l) + 1 \in 1 .. l
  <2> TAKE i \in 1 .. n * l
  <2>1. i - 1 \in Int
    BY <1>2
  <2>2. (i - 1) % l \in 0 .. l - 1
    BY <1>1, <2>1
  <2> QED
    BY <1>1, <2>2
<1>5. f \in [1 .. n * l -> S]
  BY <1>1, <1>4
<1>6. \A i \in 1 .. n * l : f[i] = b[((i - 1) % l) + 1]
  OBVIOUS
<1> HIDE DEF f
<1>7. f \in Seq(S) /\ Len(f) = n * l
  BY <1>2, <1>5, FunctionLemma
<1> QED
  BY <1>3, <1>4, <1>6, <1>7 DEF l

\* Whole lines repeated.
LEMMA PlainTimes ==
  ASSUME NEW n \in Nat, NEW b, Plain(b), b # <<>>
  PROVE  Plain(Times(n, b))
<1> DEFINE l == Len(b)
           t == Times(n, b)
           at(i) == ((i - 1) % l) + 1
<1>1. /\ b \in Seq(Token) /\ l \in Nat /\ l >= 2 /\ Broken(b)
      /\ b[l] = LF /\ b[l - 1] = CR
      /\ \A i \in 1 .. l : b[i][1] # "dBm"
  BY DEF Plain
<1>2. /\ t \in Seq(Token) /\ Len(t) = n * l
      /\ \A i \in 1 .. n * l : at(i) \in 1 .. l /\ t[i] = b[at(i)]
  BY <1>1, TimesLemma
<1>3. n * l \in Nat /\ (n # 0 => n * l >= l) /\ (n = 0 => n * l = 0)
  BY <1>1
<1>4. t = <<>> <=> Len(t) = 0
  BY <1>2
<1> HIDE DEF t, l
<1>5. \A i \in 1 .. n * l : at(i) < l => i < n * l /\ at(i + 1) = at(i) + 1
  <2> TAKE i \in 1 .. n * l
  <2> HAVE at(i) < l
  <2> DEFINE q == (i - 1) \div l
             r == (i - 1) % l
  <2>1. i - 1 \in Nat /\ i - 1 = l * q + r /\ r \in 0 .. l - 1 /\ q \in Int
    BY <1>1, <1>3
  <2>2. i = l * q + (r + 1) /\ r + 1 \in 0 .. l - 1
    BY <1>1, <2>1
  <2> HIDE DEF q, r
  <2>3. l * q + (r + 1) # n * l
    <3> SUFFICES ASSUME l * q + (r + 1) = n * l PROVE FALSE
      OBVIOUS
    <3>1. r + 1 = l * (n - q)
      BY <1>1, <2>1
    <3>2. n - q >= 1 \/ n - q <= 0
      BY <2>1
    <3>3. CASE n - q >= 1
      <4>1. l * (n - q) >= l
        BY <1>1, <2>1, <3>3
      <4> QED
        BY <1>1, <2>2, <3>1, <4>1
    <3>4. CASE n - q <= 0
      <4>1. l * (n - q) <= 0
        BY <1>1, <2>1, <3>4
      <4> QED
        BY <1>1, <2>1, <3>1, <4>1
    <3> QED
      BY <3>2, <3>3, <3>4
  <2> DEFINE x == r + 1
  <2> HIDE DEF x
  <2>5. l \in Nat \ {0} /\ q \in Int /\ x \in 0 .. l - 1
    BY <1>1, <2>1, <2>2 DEF x
  <2>6. (l * q + x) % l = x
    BY <2>5, ModLemma, Zenon
  <2>4. i % l = r + 1
    BY <2>2, <2>6 DEF x
  <2> QED
    BY <1>3, <2>1, <2>2, <2>3, <2>4 DEF r
<1>6. n # 0 => at(n * l) = l /\ at(n * l - 1) = l - 1
  <2> SUFFICES ASSUME n # 0 
               PROVE at(n * l) = l /\ at(n * l - 1) = l - 1
    OBVIOUS
  <2>1. n * l - 1 = l * (n - 1) + (l - 1) /\ n * l - 1 - 1 = l * (n - 1) + (l - 2)
    BY <1>1
  <2> DEFINE q == n - 1
             x == l - 1
             y == l - 2
  <2>2. l \in Nat \ {0} /\ q \in Int /\ x \in 0 .. l - 1 /\ y \in 0 .. l - 1
    BY <1>1
  <2> HIDE DEF q, x, y
  <2>3. (l * q + x) % l = x /\ (l * q + y) % l = y
    BY <2>2, ModLemma, Zenon
  <2>4. (n * l - 1) % l = l - 1 /\ (n * l - 1 - 1) % l = l - 2
    BY <2>1, <2>3 DEF q, x, y
  <2> QED
    BY <1>1, <2>4
<1> HIDE DEF at
<1>7. Broken(t)
  <2> SUFFICES ASSUME NEW i \in 1 .. Len(t), t[i] = CR
               PROVE  i < Len(t) /\ t[i + 1] = LF
    BY DEF Broken
  <2>1. at(i) \in 1 .. l /\ b[at(i)] = CR
    BY <1>2
  <2>2. at(i) < l /\ b[at(i) + 1] = LF
    BY <2>1, <1>1 DEF Broken, l
  <2>3. i < Len(t) /\ i + 1 \in 1 .. n * l /\ at(i + 1) = at(i) + 1
    BY <1>2, <1>3, <1>5, <2>2
  <2> QED
    BY <1>2, <2>2, <2>3
<1>8. t # <<>> => Len(t) >= 2 /\ t[Len(t)] = LF /\ t[Len(t) - 1] = CR
  <2> SUFFICES ASSUME t # <<>> PROVE Len(t) >= 2 /\ t[Len(t)] = LF /\ t[Len(t) - 1] = CR
    OBVIOUS
  <2>1. n # 0 /\ n * l >= 2
    BY <1>1, <1>2, <1>3, <1>4
  <2>2. n * l \in 1 .. n * l /\ n * l - 1 \in 1 .. n * l
    BY <1>3, <2>1
  <2> QED
    BY <1>1, <1>2, <1>6, <2>1, <2>2
<1>9. \A i \in 1 .. Len(t) : t[i][1] # "dBm"
  BY <1>1, <1>2
<1> QED
  BY <1>2, <1>7, <1>8, <1>9 DEF Plain, t

LEMMA PlainNewline == Plain(Newline) /\ Newline # <<>>
<1>1. /\ Newline \in Seq(Token) /\ Len(Newline) = 2
      /\ Newline[1] = CR /\ Newline[2] = LF
  BY TokenLemma DEF Newline
<1>2. CR[1] # "dBm" /\ LF[1] # "dBm" /\ CR # LF
  BY TokenLemma
<1>3. Broken(Newline)
  BY <1>1, <1>2 DEF Broken
<1>4. Newline # <<>>
  BY <1>1
<1>5. \A i \in 1 .. Len(Newline) : Newline[i][1] # "dBm"
  <2> TAKE i \in 1 .. Len(Newline)
  <2>1. i = 1 \/ i = 2
    BY <1>1
  <2> QED
    BY <1>1, <1>2, <2>1
<1>6. Len(Newline) - 1 = 1
  BY <1>1
<1> QED
  BY <1>1, <1>3, <1>4, <1>5, <1>6 DEF Plain

\* Tokens that end no line, before the end of a line.
LEMMA PlainEnded ==
  ASSUME NEW a \in Seq(Token), \A i \in 1 .. Len(a) : a[i][1] # "dBm" /\ a[i] # CR
  PROVE  Plain(a \o Newline) /\ a \o Newline # <<>>
<1> DEFINE b == Newline
           t == a \o b
           n == Len(a)
<1>1. n \in Nat
  OBVIOUS
<1>2. /\ b \in Seq(Token) /\ Len(b) = 2 /\ b[1] = CR /\ b[2] = LF
      /\ CR # LF /\ CR[1] # "dBm" /\ LF[1] # "dBm"
  BY TokenLemma DEF Newline
<1> HIDE DEF b
<1>3. /\ t \in Seq(Token) /\ Len(t) = n + 2
      /\ \A i \in 1 .. n : t[i] = a[i]
      /\ \A i \in n + 1 .. n + 2 : t[i] = b[i - n]
  <2>1. /\ t \in Seq(Token) /\ Len(t) = Len(a) + Len(b)
        /\ \A i \in 1 .. Len(a) : t[i] = a[i]
        /\ \A i \in Len(a) + 1 .. Len(a) + Len(b) : t[i] = b[i - Len(a)]
    BY <1>2, ConcatLemma
  <2> HIDE DEF t
  <2> QED
    BY <1>2, <2>1
<1> HIDE DEF t, n
<1> DEFINE x == n + 1
           y == n + 2
<1>4. x \in n + 1 .. n + 2 /\ x - n = 1 /\ y \in n + 1 .. n + 2 /\ y - n = 2
      /\ y - 1 = x /\ y >= 2 /\ x + 1 = y /\ x < y
  BY <1>1
<1>5. \A i \in 1 .. y : i \in 1 .. n \/ i = x \/ i = y
  BY <1>1
<1> HIDE DEF x, y
<1>6. t[x] = CR /\ t[y] = LF /\ Len(t) = y
  <2>1. t[x] = b[x - n] /\ t[y] = b[y - n]
    BY <1>3, <1>4
  <2> QED
    BY <1>2, <1>3, <1>4, <2>1 DEF y
<1>7. \A i \in 1 .. n : t[i] # CR /\ t[i][1] # "dBm"
  BY <1>3 DEF n
<1>8. Broken(t)
  BY <1>2, <1>4, <1>5, <1>6, <1>7 DEF Broken
<1>9. \A i \in 1 .. Len(t) : t[i][1] # "dBm"
  BY <1>2, <1>5, <1>6, <1>7
<1>10. t # <<>>
  <2>1. Len(t) # 0
    BY <1>4, <1>6
  <2> QED
    BY <2>1
<1> QED
  BY <1>3, <1>4, <1>6, <1>8, <1>9, <1>10 DEF Plain, t, b

LEMMA PlainSample == Plain(SampleLine)
<1> DEFINE n == 2 * N_CHANNELS - 2
           f == [i \in 1 .. n |-> IF i % 2 = 1 THEN SEP ELSE Raw((i \div 2) + 1)]
           a == <<TEXT>>
           s == a \o f
           S == { x \in Token : x[1] # "dBm" /\ x # CR }
<1>1. n \in Nat /\ N_CHANNELS \in Nat /\ n = 2 * N_CHANNELS - 2
  BY NumberLemma
<1>2. f \in [1 .. n -> S]
  <2> SUFFICES ASSUME NEW i \in 1 .. n
               PROVE  (IF i % 2 = 1 THEN SEP ELSE Raw((i \div 2) + 1)) \in S
    OBVIOUS
  <2>1. CASE i % 2 = 1
    BY <2>1, TokenLemma
  <2>2. CASE i % 2 # 1
    <3>1. (i \div 2) + 1 \in Channels
      BY <1>1, <2>2 DEF Channels
    <3>2. Raw((i \div 2) + 1) \in Token /\ Raw((i \div 2) + 1)[1] = "raw"
      BY <3>1, TokenLemma
    <3>3. Raw((i \div 2) + 1) # CR
      BY TokenLemma
    <3> QED
      BY <2>2, <3>2, <3>3
  <2> QED
    BY <2>1, <2>2
<1>3. a \in Seq(S)
  BY TokenLemma
<1>4. SampleLine = s \o Newline
  BY DEF SampleLine
<1> HIDE DEF n, f, a, S
<1>5. f \in Seq(S)
  BY <1>1, <1>2, FunctionLemma
<1>6. s \in Seq(S)
  BY <1>3, <1>5
<1> HIDE DEF s
<1>7. s \in Seq(Token) /\ \A i \in 1 .. Len(s) : s[i][1] # "dBm" /\ s[i] # CR
  <2>1. S \subseteq Token /\ \A x \in S : x[1] # "dBm" /\ x # CR
    BY DEF S
  <2>2. \A i \in 1 .. Len(s) : s[i] \in S
    BY <1>6
  <2> QED
    BY <1>6, <2>1, <2>2
<1> QED
  BY <1>4, <1>7, PlainEnded

LEMMA PlainVerbose == Plain(VerboseReport)
<1> DEFINE a == <<TEXT, SEP, TEXT, SEP, TEXT>>
           u == a \o Newline
<1>1. a \in Seq(Token) /\ \A i \in 1 .. Len(a) : a[i][1] # "dBm" /\ a[i] # CR
  <2>1. a \in Seq(Token) /\ Len(a) = 5
    BY TokenLemma
  <2>2. \A i \in 1 .. 5 : a[i] = TEXT \/ a[i] = SEP
    <3> TAKE i \in 1 .. 5
    <3>1. i = 1 \/ i = 2 \/ i = 3 \/ i = 4 \/ i = 5
      OBVIOUS
    <3> QED
      BY <3>1
  <2>3. TEXT[1] # "dBm" /\ SEP[1] # "dBm" /\ TEXT # CR /\ SEP # CR
    BY TokenLemma
  <2> QED
    BY <2>1, <2>2, <2>3
<1> HIDE DEF a
<1>2. Plain(u) /\ u # <<>>
  BY <1>1, PlainEnded
<1>3. VerboseReport = Lines(N_BLANKS) \o SampleLine \o SampleLine \o Newline
                      \o Times(N_ENABLED, u)
  BY DEF VerboseReport, a
<1> HIDE DEF u
<1>4. Plain(Times(N_ENABLED, u)) /\ Plain(Lines(N_BLANKS))
  BY <1>2, PlainTimes, PlainNewline, NumberLemma DEF Lines
<1>5. Plain(Lines(N_BLANKS) \o SampleLine)
  BY <1>4, PlainSample, PlainJoined
<1>6. Plain(Lines(N_BLANKS) \o SampleLine \o SampleLine)
  BY <1>5, PlainSample, PlainJoined
<1>7. Plain(Lines(N_BLANKS) \o SampleLine \o SampleLine \o Newline)
  BY <1>6, PlainNewline, PlainJoined
<1> QED
  BY <1>3, <1>4, <1>7, PlainJoined

-----------------------------------------------------------------------------
(* What the script has still to read, the line it is reading included.     *)

LEMMA EmptyLemma ==
  ASSUME NEW S, NEW t \in Seq(S)
  PROVE  <<>> \o t = t
OBVIOUS

LEMMA TailLemma ==
  ASSUME NEW S, NEW t \in Seq(S), t # <<>>
  PROVE  /\ Tail(t) = SubSeq(t, 2, Len(t)) /\ Tail(t) \in Seq(S)
         /\ Len(t) >= 1 /\ Head(t) = t[1] /\ Head(t) \in S
         /\ Len(Tail(t)) = Len(t) - 1
         /\ \A i \in 1 .. Len(t) - 1 : Tail(t)[i] = t[i + 1]
OBVIOUS

LEMMA EqualLemma ==
  ASSUME NEW S, NEW a \in Seq(S), NEW b \in Seq(S), Len(a) = Len(b),
         \A i \in 1 .. Len(a) : a[i] = b[i]
  PROVE  a = b
OBVIOUS

LEMMA AssociationLemma ==
  ASSUME NEW S, NEW a \in Seq(S), NEW b \in Seq(S), NEW c \in Seq(S)
  PROVE  a \o (b \o c) = (a \o b) \o c
OBVIOUS

\* A token moves from the stream to the line.
LEMMA MoveLemma ==
  ASSUME NEW S, NEW a \in Seq(S), NEW b \in Seq(S), b # <<>>
  PROVE  Append(a, Head(b)) \o Tail(b) = a \o b
OBVIOUS

\* A token leaves after the line was dropped.
LEMMA DropLemma ==
  ASSUME NEW S, NEW a \in Seq(S), NEW b \in Seq(S), b # <<>>
  PROVE  Tail(b) = SubSeq(a \o b, (Len(a) + 1) + 1, Len(a \o b))
OBVIOUS

Unread == dataIn \o stream

Cell == Token \cup {<<"0">>, <<"NaN">>}

Types ==
  /\ booleanRXKey \in BOOLEAN
  /\ styles \in Seq(BOOLEAN) /\ Len(styles) <= MAX_REPORTS
  /\ stream \in Seq(Token)
  /\ host \in {"closed", "syncing", "reading"}
  /\ dataIn \in Seq(Token \ {CR})

\* A line being read starts with the line feed that follows the carriage
\* return before it.
Reading ==
  /\ Text(Unread)
  /\ host = "reading" => Unread # <<>> /\ Unread[1] = LF
  /\ host # "reading" => dataIn = <<>>

Stored ==
  /\ dataList \in Seq(Seq(Cell))
  /\ readR \in Nat /\ Len(dataList) < readR

IInv == Types /\ Reading /\ Stored

LEMMA TextPrinted ==
  ASSUME NEW t, Text(t), NEW k \in 1 .. MAX_REPORTS
  PROVE  /\ Text(t \o CsvReport(k)) /\ CsvReport(k) \in Seq(Token)
         /\ Text(t \o VerboseReport) /\ VerboseReport \in Seq(Token)
BY CsvText, CsvLemma, PlainText, PlainVerbose DEF Plain

\* What a report adds to a text that is not empty leaves its first token.
LEMMA FirstStays ==
  ASSUME NEW t \in Seq(Token), NEW r \in Seq(Token), t # <<>>
  PROVE  t \o r # <<>> /\ (t \o r)[1] = t[1]
OBVIOUS

LEMMA InitHolds == Init => IInv
<1> SUFFICES ASSUME Init PROVE IInv
  OBVIOUS
<1>1. Unread = <<>>
  BY DEF Init, Unread
<1>2. Text(<<>>)
  BY DEF Text, Placed, Broken, Ends
<1>3. Types /\ Stored
  BY NumberLemma DEF Init, Types, Stored
<1> QED
  BY <1>1, <1>2, <1>3 DEF Init, IInv, Reading

LEMMA PrintHolds == IInv /\ PrintReport => Types' /\ Reading'
<1> SUFFICES ASSUME IInv, PrintReport PROVE Types' /\ Reading'
  OBVIOUS
<1> DEFINE k == Len(styles) + 1
           r == IF booleanRXKey THEN CsvReport(k) ELSE VerboseReport
<1>1. /\ Text(Unread) /\ dataIn \in Seq(Token) /\ stream \in Seq(Token)
      /\ styles \in Seq(BOOLEAN) /\ booleanRXKey \in BOOLEAN
  BY DEF IInv, Types, Reading
<1>2. k \in 1 .. MAX_REPORTS
  BY <1>1, NumberLemma DEF PrintReport
<1>3. stream' = stream \o r /\ dataIn' = dataIn /\ host' = host
  BY DEF PrintReport
<1>4. styles' \in Seq(BOOLEAN) /\ Len(styles') <= MAX_REPORTS
  BY <1>1, <1>2 DEF PrintReport
<1> HIDE DEF k
<1>5. Text(Unread \o r) /\ r \in Seq(Token)
  BY <1>1, <1>2, TextPrinted
<1> HIDE DEF r
<1>6. Unread' = Unread \o r
  BY <1>1, <1>3, <1>5, AssociationLemma DEF Unread
<1>7. Unread \in Seq(Token)
  BY <1>1 DEF Text
<1>8. Unread # <<>> => Unread' # <<>> /\ Unread'[1] = Unread[1]
  BY <1>5, <1>6, <1>7, FirstStays
<1>9. Reading'
  BY <1>3, <1>5, <1>6, <1>8 DEF IInv, Reading
<1>10. stream' \in Seq(Token)
  BY <1>1, <1>3, <1>5
<1>11. Types'
  BY <1>3, <1>4, <1>10 DEF IInv, Types, PrintReport
<1> QED
  BY <1>9, <1>11

LEMMA OpenHolds == IInv /\ Open => Types' /\ Reading'
<1> SUFFICES ASSUME IInv, Open PROVE Types' /\ Reading'
  OBVIOUS
<1>1. /\ dataIn = <<>> /\ stream \in Seq(Token) /\ Text(Unread)
  BY DEF IInv, Types, Reading, Open
<1>2. Unread = stream
  BY <1>1, EmptyLemma DEF Unread
<1>3. PICK n \in 0 .. Len(stream) : stream' = SubSeq(stream, n + 1, Len(stream))
  BY DEF Open
<1>4. Text(stream')
  BY <1>1, <1>2, <1>3, SuffixText
<1>5. stream' \in Seq(Token) /\ dataIn' = <<>>
  BY <1>1, <1>4 DEF Text, Open
<1>6. Unread' = stream'
  BY <1>5, EmptyLemma DEF Unread
<1>7. Reading'
  BY <1>4, <1>5, <1>6 DEF Reading, Open
<1>8. Types'
  BY <1>5 DEF IInv, Types, Open
<1> QED
  BY <1>7, <1>8

LEMMA SynchronizeHolds == IInv /\ Synchronize => Types' /\ Reading'
<1> SUFFICES ASSUME IInv, Synchronize PROVE Types' /\ Reading'
  OBVIOUS
<1>1. /\ dataIn = <<>> /\ stream \in Seq(Token) /\ Text(Unread) /\ stream # <<>>
  BY DEF IInv, Types, Reading, Synchronize
<1>2. Unread = stream
  BY <1>1, EmptyLemma DEF Unread
<1>3. /\ stream' = SubSeq(stream, 1 + 1, Len(stream)) /\ 1 \in 0 .. Len(stream)
      /\ Head(stream) = stream[1] /\ Len(stream) >= 1 /\ Len(stream) \in Nat
      /\ \A i \in 1 .. Len(stream) - 1 : stream'[i] = stream[i + 1]
      /\ Len(stream') = Len(stream) - 1
  BY <1>1, TailLemma DEF Synchronize
<1>4. Text(stream')
  BY <1>1, <1>2, <1>3, SuffixText
<1>5. stream' \in Seq(Token) /\ dataIn' = <<>>
  BY <1>1, <1>4 DEF Text, Synchronize
<1>6. Unread' = stream'
  BY <1>5, EmptyLemma DEF Unread
<1>7. host' = "reading" => stream' # <<>> /\ stream'[1] = LF
  <2> SUFFICES ASSUME host' = "reading" PROVE stream' # <<>> /\ stream'[1] = LF
    OBVIOUS
  <2>1. stream[1] = CR
    BY <1>3 DEF Synchronize
  <2>2. 1 < Len(stream) /\ stream[1 + 1] = LF
    BY <1>1, <1>2, <1>3, <2>1 DEF Text, Broken
  <2>3. Len(stream') # 0 /\ stream'[1] = LF
    BY <1>3, <2>2
  <2> QED
    BY <2>3
<1>8. Reading'
  BY <1>4, <1>5, <1>6, <1>7 DEF Reading, Synchronize
<1>9. Types'
  BY <1>5 DEF IInv, Types, Synchronize
<1> QED
  BY <1>8, <1>9

LEMMA ReadHolds == IInv /\ ReadChar => Types' /\ Reading'
<1> SUFFICES ASSUME IInv, ReadChar PROVE Types' /\ Reading'
  OBVIOUS
<1>1. /\ dataIn \in Seq(Token \ {CR}) /\ stream \in Seq(Token) /\ stream # <<>>
      /\ dataIn \in Seq(Token)
  BY DEF IInv, Types, ReadChar
<1>2. Head(stream) \in Token \ {CR} /\ Tail(stream) \in Seq(Token)
  BY <1>1, TailLemma DEF ReadChar
<1>3. Unread' = Unread
  BY <1>1, MoveLemma DEF Unread, ReadChar
<1>4. dataIn' \in Seq(Token \ {CR}) /\ stream' \in Seq(Token)
  BY <1>1, <1>2 DEF ReadChar
<1>5. host' = host /\ host = "reading"
  BY DEF ReadChar
<1> QED
  BY <1>3, <1>4, <1>5 DEF IInv, Types, Reading, ReadChar

\* The position of the carriage return that ends the line.
LEMMA LineEnds ==
  ASSUME IInv, StoreLine
  PROVE  /\ Unread \in Seq(Token) /\ Len(dataIn) \in Nat
         /\ Len(dataIn) + 1 \in 1 .. Len(Unread) /\ Unread[Len(dataIn) + 1] = CR
         /\ \A i \in 1 .. Len(dataIn) : Unread[i] = dataIn[i]
<1>1. /\ dataIn \in Seq(Token) /\ stream \in Seq(Token) /\ stream # <<>>
      /\ Head(stream) = CR
  BY DEF IInv, Types, StoreLine
<1>2. Len(stream) >= 1 /\ stream[1] = CR /\ Len(stream) \in Nat /\ Len(dataIn) \in Nat
  BY <1>1, TailLemma
<1>3. /\ Unread \in Seq(Token) /\ Len(Unread) = Len(dataIn) + Len(stream)
      /\ \A i \in 1 .. Len(dataIn) : Unread[i] = dataIn[i]
      /\ \A i \in Len(dataIn) + 1 .. Len(dataIn) + Len(stream) :
           Unread[i] = stream[i - Len(dataIn)]
  BY <1>1, ConcatLemma DEF Unread
<1> DEFINE x == Len(dataIn) + 1
<1>4. /\ x \in Len(dataIn) + 1 .. Len(dataIn) + Len(stream) /\ x - Len(dataIn) = 1
      /\ x \in 1 .. Len(Unread)
  BY <1>2, <1>3
<1> HIDE DEF x
<1>5. Unread[x] = CR
  BY <1>2, <1>3, <1>4
<1> QED
  BY <1>2, <1>3, <1>4, <1>5 DEF x

LEMMA StoreHolds == IInv /\ StoreLine => Types' /\ Reading' /\ dataIn # <<>>
<1> SUFFICES ASSUME IInv, StoreLine PROVE Types' /\ Reading' /\ dataIn # <<>>
  OBVIOUS
<1> DEFINE n == Len(dataIn) + 1
           t == Unread
<1>1. /\ dataIn \in Seq(Token) /\ stream \in Seq(Token) /\ stream # <<>>
      /\ Text(t) /\ t[1] = LF
  BY DEF IInv, Types, Reading, StoreLine
<1>2. t \in Seq(Token) /\ n \in 1 .. Len(t) /\ t[n] = CR /\ Len(t) \in Nat
  BY LineEnds
<1>3. dataIn # <<>>
  <2> SUFFICES ASSUME dataIn = <<>> PROVE FALSE
    OBVIOUS
  <2>1. n = 1
    OBVIOUS
  <2> QED
    BY <1>1, <1>2, <2>1, TokenLemma
<1>4. n < Len(t) /\ t[n + 1] = LF
  BY <1>1, <1>2 DEF Text, Broken
<1>5. stream' = SubSeq(t, n + 1, Len(t)) /\ dataIn' = <<>> /\ host' = "reading"
  BY <1>1, <1>3, DropLemma DEF StoreLine, Unread
<1> HIDE DEF n, t
<1>6. n \in 0 .. Len(t)
  BY <1>2
<1>7. Text(stream')
  BY <1>1, <1>5, <1>6, SuffixText
<1>8. Len(stream') = Len(t) - n /\ \A i \in 1 .. Len(stream') : stream'[i] = t[n + i]
  BY <1>2, <1>5, <1>6, SuffixLemma
<1>9. stream' # <<>> /\ stream'[1] = LF
  <2>1. Len(stream') # 0 /\ 1 \in 1 .. Len(stream')
    BY <1>2, <1>4, <1>8
  <2> QED
    BY <1>4, <1>8, <2>1
<1>10. stream' \in Seq(Token)
  BY <1>7 DEF Text
<1>11. Unread' = stream'
  BY <1>5, <1>10, EmptyLemma DEF Unread
<1>12. Reading'
  BY <1>5, <1>7, <1>9, <1>11 DEF Reading
<1>13. Types'
  BY <1>5, <1>10 DEF IInv, Types, StoreLine
<1> QED
  BY <1>3, <1>12, <1>13

-----------------------------------------------------------------------------
(* The columns.                                                            *)

LEMMA SeparatorsLemma ==
  ASSUME dataIn \in Seq(Token)
  PROVE  /\ \A j \in 1 .. Len(dataIn) + 1 : SeparatorsBefore(j) \in Nat
         /\ Parts \in Nat \ {0}
<1>1. Len(dataIn) \in Nat
  OBVIOUS
<1>2. ASSUME NEW j \in 1 .. Len(dataIn) + 1
      PROVE  SeparatorsBefore(j) \in Nat
  <2> DEFINE S == { i \in 1 .. j - 1 : dataIn[i] = SEP }
  <2>1. IsFiniteSet(1 .. j - 1)
    BY <1>1, FS_Interval
  <2>2. IsFiniteSet(S)
    BY <2>1, FS_Subset
  <2> QED
    BY <2>2, FS_CardinalityType DEF SeparatorsBefore
<1> QED
  BY <1>1, <1>2 DEF Parts

\* A part of the line is 0, NaN or the one number in it.
LEMMA ContributionLemma ==
  ASSUME dataIn \in Seq(Token), NEW p
  PROVE  \/ Contribution(p) = <<"0">>
         \/ Contribution(p) = <<"NaN">>
         \/ \E j \in 1 .. Len(dataIn) :
              /\ SeparatorsBefore(j) = p - 1
              /\ Contribution(p) = dataIn[j]
<1> DEFINE T == { j \in 1 .. Len(dataIn) : /\ SeparatorsBefore(j) = p - 1
                                           /\ dataIn[j] \notin {SEP, LF} }
           x == CHOOSE j \in T : TRUE
<1>1. CASE Cardinality(T) = 1
  <2>1. T # {}
    <3> HIDE DEF T
    <3> QED
      BY <1>1, FS_EmptySet
  <2>2. x \in T
    BY <2>1
  <2>3. \/ Contribution(p) = <<"0">>
        \/ Contribution(p) = <<"NaN">>
        \/ Contribution(p) = dataIn[x]
    BY DEF Contribution
  <2> QED
    BY <2>2, <2>3
<1>2. CASE Cardinality(T) # 1
  BY <1>2 DEF Contribution
<1> QED
  BY <1>1, <1>2

LEMMA CellLemma ==
  ASSUME dataIn \in Seq(Token), NEW p
  PROVE  Contribution(p) \in Cell
<1>1. \A j \in 1 .. Len(dataIn) : dataIn[j] \in Token
  OBVIOUS
<1> QED
  BY <1>1, ContributionLemma DEF Cell

\* Columns are added at the end.
LEMMA GrowLemma ==
  ASSUME NEW S, NEW list \in Seq(Seq(S)), NEW n \in Nat, NEW x \in Seq(S)
  PROVE  LET new == list \o [r \in 1 .. n |-> <<>>] \o <<x>>
         IN  /\ new \in Seq(Seq(S)) /\ Len(new) = Len(list) + n + 1
             /\ \A r \in 1 .. Len(list) : new[r] = list[r]
             /\ \A r \in Len(list) + 1 .. Len(list) + n : new[r] = <<>>
             /\ new[Len(list) + n + 1] = x
<1> DEFINE e == [r \in 1 .. n |-> <<>>]
           a == list \o e
           new == a \o <<x>>
           l == Len(list)
<1>1. e \in Seq(Seq(S)) /\ Len(e) = n /\ \A r \in 1 .. n : e[r] = <<>>
  OBVIOUS
<1>2. l \in Nat
  OBVIOUS
<1> HIDE DEF e
<1>3. /\ a \in Seq(Seq(S)) /\ Len(a) = Len(list) + Len(e)
      /\ \A i \in 1 .. Len(list) : a[i] = list[i]
      /\ \A i \in Len(list) + 1 .. Len(list) + Len(e) : a[i] = e[i - Len(list)]
  BY <1>1, ConcatLemma
<1> HIDE DEF a
<1>4. /\ new \in Seq(Seq(S)) /\ Len(new) = Len(a) + 1
      /\ \A i \in 1 .. Len(a) : new[i] = a[i]
      /\ new[Len(a) + 1] = x
  <2> DEFINE c == <<x>>
             s == a \o c
  <2>1. c \in Seq(Seq(S)) /\ Len(c) = 1 /\ c[1] = x
    OBVIOUS
  <2> HIDE DEF c
  <2>2. /\ s \in Seq(Seq(S)) /\ Len(s) = Len(a) + Len(c)
        /\ \A i \in 1 .. Len(a) : s[i] = a[i]
        /\ \A i \in Len(a) + 1 .. Len(a) + Len(c) : s[i] = c[i - Len(a)]
    <3>1. a \in Seq(Seq(S)) /\ c \in Seq(Seq(S))
      BY <1>3, <2>1
    <3> QED
      BY <3>1, ConcatLemma
  <2>3. new = s
    BY DEF c
  <2> HIDE DEF s, new
  <2> DEFINE y == Len(a) + 1
  <2>4. y \in Len(a) + 1 .. Len(a) + Len(c) /\ y - Len(a) = 1
    BY <1>3, <2>1
  <2> HIDE DEF y
  <2>5. s[y] = x
    BY <2>1, <2>2, <2>4
  <2> QED
    BY <2>1, <2>2, <2>3, <2>5 DEF y
<1> HIDE DEF new, l
<1>5. Len(a) = l + n /\ Len(new) = l + n + 1 /\ new[l + n + 1] = x
  BY <1>1, <1>3, <1>4 DEF l
<1>6. \A i \in 1 .. l : new[i] = list[i]
  <2> TAKE i \in 1 .. l
  <2>1. i \in 1 .. Len(a)
    BY <1>2, <1>5
  <2>2. a[i] = list[i]
    BY <1>3 DEF l
  <2> QED
    BY <1>4, <2>1, <2>2
<1>7. ASSUME NEW r \in l + 1 .. l + n PROVE new[r] = <<>>
  <2>1. a[r] = e[r - l]
    BY <1>1, <1>3 DEF l
  <2>2. r - l \in 1 .. n /\ r \in 1 .. Len(a)
    BY <1>2, <1>5
  <2> QED
    BY <1>1, <1>4, <2>1, <2>2
<1> QED
  BY <1>4, <1>5, <1>6, <1>7 DEF new, a, e, l

Column == [p \in 1 .. Parts |-> Contribution(p)]

LEMMA ColumnLemma ==
  ASSUME dataIn \in Seq(Token)
  PROVE  /\ Column \in Seq(Cell) /\ Len(Column) = Parts
         /\ \A p \in 1 .. Parts : Column[p] = Contribution(p)
<1>1. Parts \in Nat
  BY SeparatorsLemma
<1>2. Column \in [1 .. Parts -> Cell]
  BY CellLemma DEF Column
<1>3. Column \in Seq(Cell) /\ Len(Column) = Parts
  BY <1>1, <1>2, FunctionLemma
<1> QED
  BY <1>3 DEF Column

\* What a line does to the columns.
LEMMA StoredLine ==
  ASSUME IInv, StoreLine
  PROVE  /\ Len(dataList') \in Nat /\ Stored' /\ readR' = readR + 1
         /\ \/ dataList' = dataList
            \/ /\ Len(dataList') = readR
               /\ \A r \in 1 .. Len(dataList) : dataList'[r] = dataList[r]
               /\ \A r \in Len(dataList) + 1 .. readR - 1 : dataList'[r] = <<>>
               /\ dataList'[readR] = Column
<1> DEFINE n == readR - 1 - Len(dataList)
           e == [r \in 1 .. n |-> <<>>]
           new == dataList \o e \o <<Column>>
<1>1. /\ dataIn \in Seq(Token) /\ dataList \in Seq(Seq(Cell)) /\ readR \in Nat
      /\ Len(dataList) < readR /\ Len(dataList) \in Nat
  BY DEF IInv, Types, Stored
<1>2. n \in Nat /\ Len(dataList) + n = readR - 1 /\ Len(dataList) + n + 1 = readR
  BY <1>1
<1>3. dataList' = dataList \/ dataList' = new
  BY DEF StoreLine, Column
<1>4. readR' = readR + 1
  BY DEF StoreLine
<1>5. Column \in Seq(Cell)
  BY <1>1, ColumnLemma
<1> HIDE DEF n
<1>6. /\ new \in Seq(Seq(Cell)) /\ Len(new) = Len(dataList) + n + 1
      /\ \A r \in 1 .. Len(dataList) : new[r] = dataList[r]
      /\ \A r \in Len(dataList) + 1 .. Len(dataList) + n : new[r] = <<>>
      /\ new[Len(dataList) + n + 1] = Column
  BY <1>1, <1>2, <1>5, GrowLemma
<1> HIDE DEF new
<1>7. CASE dataList' = dataList
  BY <1>1, <1>4, <1>7 DEF Stored
<1>8. CASE dataList' = new
  <2>1. Len(dataList') = readR /\ dataList' \in Seq(Seq(Cell))
    BY <1>2, <1>6, <1>8
  <2>2. Stored'
    BY <1>1, <1>4, <2>1 DEF Stored
  <2>3. \A r \in 1 .. Len(dataList) : dataList'[r] = dataList[r]
    BY <1>6, <1>8
  <2>4. \A r \in Len(dataList) + 1 .. readR - 1 : dataList'[r] = <<>>
    BY <1>2, <1>6, <1>8
  <2>5. dataList'[readR] = Column
    BY <1>2, <1>6, <1>8
  <2> QED
    BY <1>1, <1>4, <2>1, <2>2, <2>3, <2>4, <2>5
<1> QED
  BY <1>3, <1>7, <1>8

LEMMA StepHolds == IInv /\ [Next]_vars => IInv'
<1> SUFFICES ASSUME IInv, [Next]_vars PROVE IInv'
  OBVIOUS
<1>1. CASE PrintReport
  BY <1>1, PrintHolds DEF IInv, Stored, PrintReport
<1>2. CASE ToggleMode
  BY <1>2 DEF IInv, Types, Reading, Stored, Unread, ToggleMode
<1>3. CASE Open
  BY <1>3, OpenHolds DEF IInv, Stored, Open
<1>4. CASE Synchronize
  BY <1>4, SynchronizeHolds DEF IInv, Stored, Synchronize
<1>5. CASE ReadChar
  BY <1>5, ReadHolds DEF IInv, Stored, ReadChar
<1>6. CASE StoreLine
  BY <1>6, StoreHolds, StoredLine DEF IInv
<1>7. CASE UNCHANGED vars
  BY <1>7 DEF IInv, Types, Reading, Stored, Unread, vars
<1> QED
  BY <1>1, <1>2, <1>3, <1>4, <1>5, <1>6, <1>7 DEF Next, Plotter

LEMMA Invariant == Spec => []IInv
<1>1. Init => IInv
  BY InitHolds
<1>2. IInv /\ [Next]_vars => IInv'
  BY StepHolds
<1> QED
  BY <1>1, <1>2, PTL DEF Spec

\* Every variable holds a value of its type: a line has no carriage return and
\* there are fewer columns than lines.
THEOREM TypeCorrect == Spec => []TypeOK
<1>1. IInv => TypeOK
  <2> SUFFICES ASSUME IInv PROVE TypeOK
    OBVIOUS
  <2>1. \A r \in 1 .. Len(dataList) : dataList[r] \in Seq(Cell)
    BY DEF IInv, Stored
  <2>2. Cell = Token \cup {<<"0">>, <<"NaN">>}
    BY DEF Cell
  <2> QED
    BY <2>1, <2>2 DEF IInv, Types, Stored, TypeOK
<1> QED
  BY <1>1, Invariant, PTL

\* The script never meets a line of no characters, wherever it starts to read
\* and however often the mode changes.
THEOREM LinesExist == Spec => []LineExists
<1>1. IInv => LineExists
  BY DEF IInv, Types, LineExists
<1> QED
  BY <1>1, Invariant, PTL

-----------------------------------------------------------------------------
(* A line that is stored starts at the line feed before the first value of *)
(* a report, or has no value.                                              *)

\* A value is where its report puts it.
LEMMA PowerPlace ==
  ASSUME IInv, StoreLine, NEW j \in 1 .. Len(dataIn),
         NEW k \in 1 .. MAX_REPORTS, NEW c \in Channels, dataIn[j] = Power(k, c)
  PROVE  /\ j = 2 * c
         /\ \A m \in 1 .. 2 * c - 1 : dataIn[j - m] = Before(k, c, m)
<1>1. /\ Unread \in Seq(Token) /\ Len(dataIn) \in Nat /\ Placed(Unread)
      /\ Len(dataIn) + 1 \in 1 .. Len(Unread) /\ Unread[1] = LF
      /\ \A i \in 1 .. Len(dataIn) : Unread[i] = dataIn[i]
      /\ \A i \in 1 .. Len(dataIn) : dataIn[i] # CR
  BY LineEnds DEF IInv, Types, Reading, Text, StoreLine
<1>2. j \in 1 .. Len(Unread) /\ Unread[j] = Power(k, c)
  BY <1>1
<1>3. \A m \in 1 .. 2 * c : m < j => Unread[j - m] = Before(k, c, m)
  BY <1>2, <1>1 DEF Placed
<1>4. c \in Nat \ {0} /\ j \in Nat \ {0}
  BY <1>1, NumberLemma DEF Channels
<1>5. j # 1
  BY <1>1, <1>2, TokenLemma
<1>6. ~ (2 * c < j)
  <2> SUFFICES ASSUME 2 * c < j PROVE FALSE
    OBVIOUS
  <2> DEFINE m == 2 * c
  <2>1. m \in 1 .. 2 * c /\ m < j /\ j - m \in 1 .. Len(dataIn)
    BY <1>1, <1>4
  <2>2. Before(k, c, m) = CR
    BY DEF Before
  <2> HIDE DEF m
  <2> QED
    BY <1>1, <1>3, <2>1, <2>2
<1>7. ~ (j < 2 * c)
  <2> SUFFICES ASSUME j < 2 * c PROVE FALSE
    OBVIOUS
  <2> DEFINE m == j - 1
  <2>1. m \in 1 .. 2 * c /\ m < j /\ j - m = 1 /\ m # 2 * c /\ m # 2 * c - 1
    BY <1>4, <1>5
  <2> HIDE DEF m
  <2>2. Before(k, c, m) # LF
    BY <2>1, TokenLemma DEF Before, Value
  <2> QED
    BY <1>1, <1>3, <2>1, <2>2
<1>8. j = 2 * c
  BY <1>4, <1>6, <1>7
<1>9. ASSUME NEW m \in 1 .. 2 * c - 1
      PROVE  dataIn[j - m] = Before(k, c, m)
  <2>1. m \in 1 .. 2 * c /\ m < j /\ j - m \in 1 .. Len(dataIn)
    BY <1>1, <1>4, <1>8
  <2> QED
    BY <1>1, <1>3, <2>1
<1> QED
  BY <1>8, <1>9

\* There is one separator for every value before it.
LEMMA OddLemma ==
  ASSUME NEW c \in Nat \ {0},
         NEW S, S = { i \in 1 .. 2 * c - 1 : i % 2 = 1 /\ i # 1 }
  PROVE  Cardinality(S) = c - 1
<1> DEFINE n == c - 1
           f == [x \in 1 .. n |-> 2 * x + 1]
<1>1. n \in Nat /\ c = n + 1
  OBVIOUS
<1>2. f \in [1 .. n -> S]
  <2> SUFFICES ASSUME NEW x \in 1 .. n PROVE 2 * x + 1 \in S
    OBVIOUS
  <2>1. 2 * x + 1 \in 1 .. 2 * c - 1 /\ (2 * x + 1) % 2 = 1 /\ 2 * x + 1 # 1
    BY <1>1
  <2> QED
    BY <2>1
<1>3. ASSUME NEW y \in S PROVE \E x \in 1 .. n : f[x] = y
  <2>1. y \in 1 .. 2 * c - 1 /\ y % 2 = 1 /\ y # 1
    OBVIOUS
  <2>2. (y - 1) \div 2 \in 1 .. n /\ 2 * ((y - 1) \div 2) + 1 = y
    BY <1>1, <2>1
  <2>3. f[(y - 1) \div 2] = y
    BY <2>2
  <2> QED
    BY <2>2, <2>3
<1>4. \A x, y \in 1 .. n : f[x] = f[y] => x = y
  BY <1>1
<1> HIDE DEF f
<1>5. f \in Bijection(1 .. n, S)
  BY <1>2, <1>3, <1>4 DEF Bijection, Injection, IsInjective, Surjection
<1>6. ExistsBijection(1 .. n, S)
  BY <1>5 DEF ExistsBijection
<1> HIDE DEF n
<1>7. Cardinality(S) = n
  BY <1>1, <1>6, FS_CountingElements
<1> QED
  BY <1>7 DEF n

LEMMA PowerPart ==
  ASSUME IInv, StoreLine, NEW j \in 1 .. Len(dataIn),
         NEW k \in 1 .. MAX_REPORTS, NEW c \in Channels, dataIn[j] = Power(k, c)
  PROVE  SeparatorsBefore(j) = c - 1
<1>1. /\ j = 2 * c
      /\ \A m \in 1 .. 2 * c - 1 : dataIn[j - m] = Before(k, c, m)
  BY PowerPlace
<1>2. c \in Nat \ {0}
  BY NumberLemma DEF Channels
<1>3. ASSUME NEW i \in 1 .. j - 1
      PROVE  dataIn[i] = SEP <=> i % 2 = 1 /\ i # 1
  <2> DEFINE m == j - i
  <2>1. m \in 1 .. 2 * c - 1 /\ j - m = i /\ m # 2 * c
    BY <1>1, <1>2
  <2>2. dataIn[i] = Before(k, c, m)
    BY <1>1, <2>1
  <2>3. (m = 2 * c - 1 <=> i = 1) /\ (m % 2 = 1 <=> i % 2 = 1)
    BY <1>1, <1>2
  <2> HIDE DEF m
  <2>4. CASE m = 2 * c - 1
    BY <2>1, <2>2, <2>3, <2>4, TokenLemma DEF Before
  <2>5. CASE m # 2 * c - 1 /\ m % 2 = 1
    BY <2>1, <2>2, <2>3, <2>5 DEF Before
  <2>6. CASE m # 2 * c - 1 /\ m % 2 # 1
    BY <2>1, <2>2, <2>3, <2>6, TokenLemma DEF Before, Value
  <2> QED
    BY <2>4, <2>5, <2>6
<1> DEFINE S == { i \in 1 .. j - 1 : dataIn[i] = SEP }
<1>4. S = { i \in 1 .. 2 * c - 1 : i % 2 = 1 /\ i # 1 }
  BY <1>1, <1>3
<1> HIDE DEF S
<1>5. Cardinality(S) = c - 1
  BY <1>2, <1>4, OddLemma
<1> QED
  BY <1>5 DEF S, SeparatorsBefore

\* The values of a line are of one report.
LEMMA PowersAgree ==
  ASSUME IInv, StoreLine,
         NEW i \in 1 .. Len(dataIn), NEW j \in 1 .. Len(dataIn),
         NEW h \in 1 .. MAX_REPORTS, NEW k \in 1 .. MAX_REPORTS,
         NEW b \in Channels, NEW c \in Channels,
         dataIn[i] = Power(h, b), dataIn[j] = Power(k, c), b <= c
  PROVE  h = k
<1>1. b \in Nat \ {0} /\ c \in Nat \ {0}
  BY NumberLemma DEF Channels
<1>2. /\ i = 2 * b /\ j = 2 * c
      /\ \A m \in 1 .. 2 * c - 1 : dataIn[j - m] = Before(k, c, m)
  BY PowerPlace
<1>3. CASE b = c
  <2>1. Power(h, b) = Power(k, c)
    BY <1>2, <1>3
  <2>2. Power(h, b)[2] = h /\ Power(k, c)[2] = k
    BY TokenLemma, Zenon
  <2> QED
    BY <2>1, <2>2
<1>4. CASE b < c
  <2> DEFINE m == 2 * c - 2 * b
  <2>1. /\ m \in 1 .. 2 * c - 1 /\ j - m = i /\ m # 2 * c /\ m # 2 * c - 1
        /\ m % 2 # 1 /\ c - (m \div 2) = b
    BY <1>1, <1>2, <1>4
  <2> HIDE DEF m
  <2>2. Power(h, b) = Before(k, c, m)
    BY <1>2, <2>1
  <2>3. Power(h, b) = Value(k, b)
    BY <2>1, <2>2 DEF Before
  <2>4. Power(h, b) = Power(k, b)
    BY <2>3, TokenLemma DEF Value
  <2>5. Power(h, b)[2] = h /\ Power(k, b)[2] = k
    BY TokenLemma, Zenon
  <2> QED
    BY <2>4, <2>5
<1> QED
  BY <1>1, <1>3, <1>4

\* A column of one report.
OneReport(column) ==
  \A p, q \in 1 .. Len(column) :
    LET a == column[p]
        b == column[q]
    IN  a[1] = "dBm" /\ b[1] = "dBm" => a[2] = b[2] /\ a[3] = p

LEMMA ColumnIsReport ==
  ASSUME IInv, StoreLine
  PROVE  OneReport(Column)
<1>1. dataIn \in Seq(Token) /\ Parts \in Nat \ {0}
  BY SeparatorsLemma DEF IInv, Types
<1>2. /\ Len(Column) = Parts
      /\ \A p \in 1 .. Parts : Column[p] = Contribution(p)
  BY <1>1, ColumnLemma
<1>3. ASSUME NEW p \in 1 .. Parts, Column[p][1] = "dBm"
      PROVE  \E j \in 1 .. Len(dataIn), k \in 1 .. MAX_REPORTS :
               /\ p \in Channels /\ dataIn[j] = Power(k, p)
               /\ Column[p] = Power(k, p)
  <2>1. <<"0">>[1] # "dBm" /\ <<"NaN">>[1] # "dBm"
    OBVIOUS
  <2>2. PICK j \in 1 .. Len(dataIn) : /\ SeparatorsBefore(j) = p - 1
                                      /\ Column[p] = dataIn[j]
    BY <1>1, <1>2, <1>3, <2>1, ContributionLemma
  <2>3. dataIn[j] \in Token /\ dataIn[j][1] = "dBm"
    BY <1>1, <1>3, <2>2
  <2>4. PICK k \in 1 .. MAX_REPORTS, c \in Channels : dataIn[j] = Power(k, c)
    BY <2>3, TokenLemma
  <2>5. SeparatorsBefore(j) = c - 1
    BY <2>4, PowerPart
  <2>6. c \in Int /\ p \in Int
    BY <1>1, NumberLemma DEF Channels
  <2>7. c = p
    BY <2>2, <2>5, <2>6
  <2> QED
    BY <2>2, <2>4, <2>7
<1>4. ASSUME NEW p \in 1 .. Parts, NEW q \in 1 .. Parts,
             Column[p][1] = "dBm", Column[q][1] = "dBm"
      PROVE  Column[p][2] = Column[q][2] /\ Column[p][3] = p
  <2>1. PICK i \in 1 .. Len(dataIn), h \in 1 .. MAX_REPORTS :
               /\ p \in Channels /\ dataIn[i] = Power(h, p)
               /\ Column[p] = Power(h, p)
    BY <1>3, <1>4
  <2>2. PICK j \in 1 .. Len(dataIn), k \in 1 .. MAX_REPORTS :
               /\ q \in Channels /\ dataIn[j] = Power(k, q)
               /\ Column[q] = Power(k, q)
    BY <1>3, <1>4
  <2>3. p <= q \/ q <= p
    BY <1>1
  <2>4. h = k
    BY <2>1, <2>2, <2>3, PowersAgree
  <2>5. /\ Power(h, p)[2] = h /\ Power(h, p)[3] = p /\ Power(k, q)[2] = k
    BY TokenLemma, Zenon
  <2> QED
    BY <2>1, <2>2, <2>4, <2>5
<1> QED
  BY <1>2, <1>4 DEF OneReport

OneReportInv == \A r \in 1 .. Len(dataList) : OneReport(dataList[r])

\* In whatever mode the device is and is switched to, and wherever the script
\* starts to read, no column has values of two reports.
THEOREM ColumnsAreReports == Spec => []OneReportPerColumn
<1>1. Init => OneReportInv
  BY DEF Init, OneReportInv
<1>2. IInv /\ OneReportInv /\ [Next]_vars => OneReportInv'
  <2> SUFFICES ASSUME IInv, OneReportInv, [Next]_vars PROVE OneReportInv'
    OBVIOUS
  <2>1. CASE StoreLine
    <3>1. OneReport(Column) /\ OneReport(<<>>)
      BY <2>1, ColumnIsReport DEF OneReport
    <3>2. CASE dataList' = dataList
      BY <3>2 DEF OneReportInv
    <3>3. CASE /\ Len(dataList') = readR
               /\ \A r \in 1 .. Len(dataList) : dataList'[r] = dataList[r]
               /\ \A r \in Len(dataList) + 1 .. readR - 1 : dataList'[r] = <<>>
               /\ dataList'[readR] = Column
      <4> SUFFICES ASSUME NEW r \in 1 .. readR PROVE OneReport(dataList'[r])
        BY <3>3 DEF OneReportInv
      <4>1. Len(dataList) \in Nat /\ readR \in Nat
        BY DEF IInv, Stored
      <4>2. \/ r \in 1 .. Len(dataList)
            \/ r \in Len(dataList) + 1 .. readR - 1
            \/ r = readR
        BY <4>1
      <4> QED
        BY <3>1, <3>3, <4>2 DEF OneReportInv
    <3> QED
      BY <2>1, <3>2, <3>3, StoredLine
  <2>2. CASE ~StoreLine
    <3>1. dataList' = dataList
      BY <2>2 DEF Next, Plotter, PrintReport, ToggleMode, Open, Synchronize,
                  ReadChar, vars
    <3> QED
      BY <3>1 DEF OneReportInv
  <2> QED
    BY <2>1, <2>2
<1>3. OneReportInv => OneReportPerColumn
  BY DEF OneReportInv, OneReport, OneReportPerColumn
<1> QED
  BY <1>1, <1>2, <1>3, Invariant, PTL DEF Spec

-----------------------------------------------------------------------------
(* As long as every report is comma separated, a token of the stream is    *)
(* known by its distance from the end.                                     *)

AllCsv == \A k \in 1 .. Len(styles) : styles[k]

\* The tokens printed after the x-th of the last but q-th report.
After(q, x) == q * CsvLength + (CsvLength - x)

Traced(t, n) ==
  \A q \in Nat : \A x \in 1 .. CsvLength :
    After(q, x) < Len(t) =>
      q < n /\ t[Len(t) - After(q, x)] = CsvToken(n - q, x)

LEMMA AfterLemma ==
  /\ CsvLength \in Nat /\ CsvLength >= 5
  /\ \A q \in Nat : \A x \in 1 .. CsvLength : After(q, x) \in Nat
  /\ \A x \in 1 .. CsvLength : After(0, x) = CsvLength - x
  /\ \A q \in Nat : \A x \in 1 .. CsvLength :
       After(q + 1, x) = After(q, x) + CsvLength
  /\ \A y \in Nat : \E q \in Nat : \E x \in 1 .. CsvLength : y = After(q, x)
  /\ \A q \in Nat : After(q, CsvLength) = q * CsvLength
<1> DEFINE l == CsvLength
<1>1. l \in Nat /\ l >= 5
  BY NumberLemma DEF CsvLength
<1> HIDE DEF l
<1>2. \A q \in Nat : \A x \in 1 .. l : q * l + (l - x) \in Nat
  <2> TAKE q \in Nat
  <2> TAKE x \in 1 .. l
  <2>1. q * l \in Nat
    BY <1>1
  <2> QED
    BY <1>1, <2>1
<1>3. \A x \in 1 .. l : 0 * l + (l - x) = l - x
  BY <1>1
<1>4. \A q \in Nat : \A x \in 1 .. l :
        (q + 1) * l + (l - x) = q * l + (l - x) + l
  BY <1>1
<1>5. ASSUME NEW y \in Nat
      PROVE  \E q \in Nat : \E x \in 1 .. l : y = q * l + (l - x)
  <2> DEFINE q == y \div l
             r == y % l
             x == l - r
  <2>1. q \in Int /\ r \in 0 .. l - 1 /\ y = l * q + r
    BY <1>1
  <2>2. q >= 0
    <3> HIDE DEF q, r
    <3> SUFFICES ASSUME q <= -1 PROVE FALSE
      BY <2>1
    <3>1. l * q <= -l
      BY <1>1, <2>1
    <3> QED
      BY <1>1, <2>1, <3>1
  <2> HIDE DEF q, r
  <2>3. q \in Nat /\ x \in 1 .. l /\ y = q * l + (l - x)
    BY <1>1, <2>1, <2>2
  <2> QED
    BY <2>3
<1>6. \A q \in Nat : q * l + (l - l) = q * l
  BY <1>1
<1> QED
  BY <1>1, <1>2, <1>3, <1>4, <1>5, <1>6 DEF After, l

LEMMA TracedSuffix ==
  ASSUME NEW t \in Seq(Token), NEW n \in Nat, Traced(t, n),
         NEW m \in 0 .. Len(t)
  PROVE  Traced(SubSeq(t, m + 1, Len(t)), n)
<1> DEFINE s == SubSeq(t, m + 1, Len(t))
<1>1. /\ Len(s) = Len(t) - m /\ Len(t) \in Nat
      /\ \A i \in 1 .. Len(s) : s[i] = t[m + i]
  BY SuffixLemma
<1> HIDE DEF s
<1>2. ASSUME NEW q \in Nat, NEW x \in 1 .. CsvLength, After(q, x) < Len(s)
      PROVE  q < n /\ s[Len(s) - After(q, x)] = CsvToken(n - q, x)
  <2> DEFINE a == After(q, x)
  <2>1. a \in Nat
    BY AfterLemma
  <2>2. a < Len(t) /\ Len(s) - a \in 1 .. Len(s) /\ m + (Len(s) - a) = Len(t) - a
    BY <1>1, <1>2, <2>1
  <2>3. q < n /\ t[Len(t) - a] = CsvToken(n - q, x)
    BY <2>2 DEF Traced
  <2> HIDE DEF a
  <2>4. s[Len(s) - a] = t[Len(t) - a]
    BY <1>1, <2>2
  <2> QED
    BY <2>3, <2>4 DEF a
<1> QED
  BY <1>2 DEF Traced, s

LEMMA TracedPrinted ==
  ASSUME NEW t \in Seq(Token), NEW n \in Nat, n + 1 \in 1 .. MAX_REPORTS,
         Traced(t, n)
  PROVE  /\ Traced(t \o CsvReport(n + 1), n + 1)
         /\ Len(t \o CsvReport(n + 1)) = Len(t) + CsvLength
<1> DEFINE k == n + 1
           v == CsvReport(k)
           s == t \o v
<1> HIDE DEF k
<1>1. /\ v \in Seq(Token) /\ Len(v) = CsvLength
      /\ \A x \in 1 .. CsvLength : v[x] = CsvToken(k, x)
  BY CsvLemma DEF k
<1> HIDE DEF v
<1>2. /\ Len(s) = Len(t) + Len(v)
      /\ \A i \in 1 .. Len(t) : s[i] = t[i]
      /\ \A i \in Len(t) + 1 .. Len(t) + Len(v) : s[i] = v[i - Len(t)]
  BY <1>1, ConcatLemma
<1>3. Len(t) \in Nat /\ CsvLength \in Nat /\ Len(s) = Len(t) + CsvLength
  BY <1>1, <1>2, AfterLemma
<1> HIDE DEF s
<1>4. ASSUME NEW q \in Nat, NEW x \in 1 .. CsvLength, After(q, x) < Len(s)
      PROVE  q < k /\ s[Len(s) - After(q, x)] = CsvToken(k - q, x)
  <2> DEFINE a == After(q, x)
  <2>1. a \in Nat
    BY AfterLemma
  <2>2. CASE q = 0
    <3> DEFINE i == Len(s) - a
    <3>1. a = CsvLength - x
      BY <2>2, AfterLemma
    <3>2. i \in Len(t) + 1 .. Len(t) + CsvLength /\ i - Len(t) = x
      BY <1>3, <3>1
    <3> HIDE DEF i
    <3>3. s[i] = v[x]
      BY <1>1, <1>2, <3>2
    <3>4. q < k /\ k - q = k
      BY <2>2 DEF k
    <3> QED
      BY <1>1, <3>3, <3>4 DEF i
  <2>3. CASE q # 0
    <3> DEFINE p == q - 1
               b == After(p, x)
    <3>1. p \in Nat /\ q = p + 1
      BY <2>3
    <3> HIDE DEF p
    <3>2. a = b + CsvLength /\ b \in Nat
      BY <3>1, AfterLemma
    <3>3. b < Len(t) /\ Len(s) - a = Len(t) - b /\ Len(t) - b \in 1 .. Len(t)
      BY <1>3, <1>4, <3>2
    <3>4. p < n /\ t[Len(t) - b] = CsvToken(n - p, x)
      BY <3>1, <3>3 DEF Traced
    <3>5. q < k /\ n - p = k - q
      BY <3>1, <3>4 DEF k
    <3> HIDE DEF a, b
    <3>6. s[Len(s) - a] = t[Len(t) - b]
      BY <1>2, <3>3
    <3>7. s[Len(s) - a] = CsvToken(k - q, x)
      BY <3>4, <3>5, <3>6
    <3> QED
      BY <3>5, <3>7 DEF a
  <2> QED
    BY <2>2, <2>3
<1> QED
  BY <1>3, <1>4 DEF Traced, k, s, v

\* Where the carriage returns are.
LEMMA ReturnLemma ==
  ASSUME NEW k, NEW x \in 1 .. CsvLength
  PROVE  CsvToken(k, x) = CR <=> x = CsvLength - 1
<1>1. N_CHANNELS \in Nat /\ x \in Int
  BY NumberLemma DEF CsvLength
<1>2. CASE x <= 2 * N_CHANNELS
  <2>1. CsvToken(k, x) # CR
    BY <1>2, TokenLemma DEF CsvToken, Value
  <2> QED
    BY <1>1, <1>2, <2>1 DEF CsvLength
<1>3. CASE ~(x <= 2 * N_CHANNELS) /\ x = 2 * N_CHANNELS + 2
  BY <1>1, <1>3 DEF CsvToken, CsvLength
<1>4. CASE ~(x <= 2 * N_CHANNELS) /\ x # 2 * N_CHANNELS + 2
  BY <1>1, <1>4, TokenLemma DEF CsvToken, CsvLength
<1> QED
  BY <1>2, <1>3, <1>4

\* A line that starts behind a carriage return is the rest of a report without
\* the line feed of the report before it at its end.
CsvLine(k) ==
  /\ k \in 1 .. MAX_REPORTS /\ dataIn \in Seq(Token)
  /\ Len(dataIn) = CsvLength - 1
  /\ dataIn[1] = LF
  /\ \A x \in 1 .. CsvLength - 2 : dataIn[x + 1] = CsvToken(k, x)

LEMMA LineIsReport ==
  ASSUME IInv, StoreLine, Traced(Unread, Len(styles)),
         NEW q \in Nat, Len(Unread) = After(q, CsvLength) + 1
  PROVE  /\ q # 0 /\ q - 1 < Len(styles)
         /\ CsvLine(Len(styles) - (q - 1))
         /\ Len(Unread') = After(q - 1, CsvLength) + 1
         /\ Traced(Unread', Len(styles))
<1> DEFINE l == CsvLength
           t == Unread
           n == Len(dataIn) + 1
           s == Len(styles)
           p == q - 1
           k == s - p
<1>1. /\ t \in Seq(Token) /\ Len(dataIn) \in Nat /\ n \in 1 .. Len(t)
      /\ t[n] = CR /\ t[1] = LF /\ Len(t) \in Nat
      /\ \A i \in 1 .. Len(dataIn) : t[i] = dataIn[i] /\ dataIn[i] # CR
      /\ dataIn \in Seq(Token) /\ stream \in Seq(Token) /\ stream # <<>>
      /\ s \in Nat /\ s <= MAX_REPORTS /\ dataIn # <<>>
  BY LineEnds, StoreHolds DEF IInv, Types, Reading, StoreLine
<1>2. /\ l \in Nat /\ l >= 5 /\ After(0, l) = 0 /\ l \in 1 .. l /\ l - 1 \in 1 .. l
  BY AfterLemma
<1>3. CR # LF
  BY TokenLemma
<1>4. q # 0
  <2> SUFFICES ASSUME q = 0 PROVE FALSE
    OBVIOUS
  <2>1. Len(t) = 1
    BY <1>2
  <2> HIDE DEF t, n
  <2>2. n = 1
    BY <1>1, <2>1
  <2> QED
    BY <1>1, <1>3, <2>2
<1>5. p \in Nat /\ q = p + 1
  BY <1>4
<1> HIDE DEF p
<1>6. After(q, l) = After(p, l) + l /\ After(p, l) \in Nat
  BY <1>2, <1>5, AfterLemma
<1>7. Len(t) = After(p, l) + l + 1
  BY <1>2, <1>6
<1>8. ASSUME NEW x \in 1 .. l
      PROVE  p < s /\ t[x + 1] = CsvToken(k, x) /\ x + 1 \in 1 .. Len(t)
  <2>1. After(p, x) = After(p, l) + (l - x) /\ After(p, x) \in Nat
    <3>1. After(p, x) = p * l + (l - x) /\ After(p, l) = p * l + (l - l)
      BY DEF After
    <3>2. p * l \in Nat
      BY <1>2, <1>5
    <3> HIDE DEF l
    <3> QED
      BY <1>2, <3>1, <3>2
  <2>2. After(p, x) < Len(t) /\ Len(t) - After(p, x) = x + 1
    BY <1>2, <1>6, <1>7, <2>1
  <2>3. p < s /\ t[Len(t) - After(p, x)] = CsvToken(s - p, x)
    BY <1>5, <2>2 DEF Traced
  <2> HIDE DEF t, s
  <2>4. t[x + 1] = CsvToken(k, x)
    BY <2>2, <2>3
  <2> QED
    BY <1>2, <1>6, <1>7, <2>3, <2>4
<1> HIDE DEF l, t, n, s, k
<1>9. n # 1
  BY <1>1, <1>3
<1>10. n <= l + 1
  <2> SUFFICES ASSUME ~(n <= l + 1) PROVE FALSE
    OBVIOUS
  <2> DEFINE x == l - 1
  <2>1. x \in 1 .. l /\ x + 1 = l
    BY <1>2
  <2>2. x + 1 \in 1 .. Len(dataIn)
    BY <1>1, <1>2, <2>1 DEF n
  <2>3. CsvToken(k, x) = CR
    BY <2>1, ReturnLemma DEF l
  <2> HIDE DEF x
  <2>4. t[x + 1] = CR
    BY <1>8, <2>1, <2>3
  <2> QED
    BY <1>1, <2>2, <2>4
<1>11. n = l
  <2> DEFINE x == n - 1
  <2>1. x \in 1 .. l /\ x + 1 = n
    BY <1>1, <1>2, <1>9, <1>10
  <2> HIDE DEF x
  <2>2. CsvToken(k, x) = CR
    BY <1>1, <1>8, <2>1
  <2>3. x = l - 1
    BY <2>1, <2>2, ReturnLemma DEF l
  <2> QED
    BY <1>2, <2>1, <2>3
<1>12. k \in 1 .. MAX_REPORTS /\ p < s
  <2>1. p < s
    BY <1>2, <1>8
  <2> QED
    BY <1>1, <1>5, <2>1, NumberLemma DEF k
<1>13. ASSUME NEW x \in 1 .. l - 2
       PROVE  dataIn[x + 1] = CsvToken(k, x)
  <2>1. x \in 1 .. l /\ x + 1 \in 1 .. Len(dataIn)
    BY <1>1, <1>2, <1>11 DEF n
  <2> QED
    BY <1>1, <1>8, <2>1
<1>14. Len(dataIn) = l - 1 /\ dataIn[1] = LF
  <2>1. Len(dataIn) = l - 1 /\ 1 \in 1 .. Len(dataIn)
    BY <1>1, <1>2, <1>11 DEF n
  <2> QED
    BY <1>1, <2>1
<1>15. CsvLine(k)
  BY <1>1, <1>12, <1>13, <1>14 DEF CsvLine, l
<1>16. Unread' = SubSeq(t, n + 1, Len(t))
  <2>1. stream' = SubSeq(t, n + 1, Len(t)) /\ dataIn' = <<>> /\ stream' = Tail(stream)
    BY <1>1, DropLemma DEF StoreLine, Unread, t, n
  <2>2. stream' \in Seq(Token)
    BY <1>1, <2>1, TailLemma
  <2> QED
    BY <2>1, <2>2, EmptyLemma DEF Unread
<1>17. n \in 0 .. Len(t)
  BY <1>1
<1>18. Len(Unread') = Len(t) - n
  BY <1>1, <1>16, <1>17, SuffixLemma
<1>19. Traced(Unread', s)
  BY <1>1, <1>16, <1>17, TracedSuffix DEF t, s
<1>20. Len(Unread') = After(p, l) + 1
  BY <1>2, <1>6, <1>7, <1>11, <1>18
<1> QED
  BY <1>4, <1>12, <1>15, <1>19, <1>20 DEF k, p, s, l

LEMMA PrefixLemma ==
  ASSUME NEW S, NEW a \in Seq(S), NEW b \in Seq(S), Len(a) <= Len(b),
         \A i \in 1 .. Len(a) : a[i] = b[i]
  PROVE  IsPrefix(a, b)
BY DEF IsPrefix

\* The tokens of such a line.
LEMMA CsvLineTokens ==
  ASSUME NEW k, CsvLine(k), NEW i \in 1 .. Len(dataIn)
  PROVE  /\ dataIn[i] = SEP <=> i % 2 = 1 /\ i # 1
         /\ dataIn[i] \notin {SEP, LF} => i % 2 = 0 /\ i <= 2 * N_CHANNELS
         /\ i % 2 = 0 /\ i <= 2 * N_CHANNELS =>
              dataIn[i] = Value(k, i \div 2) /\ dataIn[i] \notin {SEP, LF}
<1> DEFINE n == N_CHANNELS
           x == i - 1
<1>1. n \in Nat \ {0} /\ i \in 1 .. 2 * n + 2
  BY NumberLemma DEF CsvLine, CsvLength
<1>2. LF # SEP
  BY TokenLemma
<1>3. CASE i = 1
  BY <1>1, <1>2, <1>3 DEF CsvLine
<1>4. CASE i # 1
  <2>1. x \in 1 .. CsvLength - 2 /\ x + 1 = i /\ x \in 1 .. 2 * n + 1
    BY <1>1, <1>4 DEF CsvLength
  <2>2. dataIn[i] = CsvToken(k, x)
    BY <2>1 DEF CsvLine
  <2>3. CASE i = 2 * n + 2
    <3>1. CsvToken(k, x) = LF /\ i % 2 = 0 /\ ~(i <= 2 * n)
      BY <1>1, <2>3 DEF CsvToken
    <3> QED
      BY <1>2, <2>2, <3>1
  <2>4. CASE i # 2 * n + 2 /\ i % 2 = 1
    <3>1. x % 2 = 0 /\ x <= 2 * n
      BY <1>1, <2>1, <2>4
    <3>2. CsvToken(k, x) = SEP
      BY <3>1 DEF CsvToken
    <3> QED
      BY <1>4, <2>2, <2>4, <3>2
  <2>5. CASE i # 2 * n + 2 /\ i % 2 # 1
    <3>1. x % 2 # 0 /\ x <= 2 * n /\ (x \div 2) + 1 = i \div 2 /\ i % 2 = 0
          /\ i <= 2 * n
      BY <1>1, <2>1, <2>5
    <3>2. CsvToken(k, x) = Value(k, i \div 2)
      BY <3>1 DEF CsvToken
    <3>3. Value(k, i \div 2) \notin {SEP, LF}
      BY TokenLemma DEF Value
    <3> QED
      BY <2>2, <2>5, <3>1, <3>2, <3>3
  <2> QED
    BY <2>3, <2>4, <2>5
<1> QED
  BY <1>3, <1>4

LEMMA CsvLineParts ==
  ASSUME NEW k, CsvLine(k)
  PROVE  /\ Parts = N_CHANNELS + 1
         /\ \A c \in Channels : SeparatorsBefore(2 * c) = c - 1
<1> DEFINE n == N_CHANNELS
<1>1. n \in Nat \ {0} /\ Len(dataIn) = 2 * n + 2
  BY NumberLemma DEF CsvLine, CsvLength
<1>2. \A i \in 1 .. Len(dataIn) : dataIn[i] = SEP <=> i % 2 = 1 /\ i # 1
  BY CsvLineTokens
<1>3. ASSUME NEW c \in Nat \ {0}, NEW j \in {2 * c, 2 * c + 1}, j <= Len(dataIn) + 1
      PROVE  SeparatorsBefore(j) = c - 1
  <2> DEFINE S == { i \in 1 .. j - 1 : dataIn[i] = SEP }
  <2>1. S = { i \in 1 .. 2 * c - 1 : i % 2 = 1 /\ i # 1 }
    <3>1. \A i \in 1 .. j - 1 : i \in 1 .. Len(dataIn)
      BY <1>1, <1>3
    <3>2. S = { i \in 1 .. j - 1 : i % 2 = 1 /\ i # 1 }
      BY <1>2, <3>1
    <3>3. \A i : (i \in 1 .. j - 1 /\ i % 2 = 1) <=> (i \in 1 .. 2 * c - 1 /\ i % 2 = 1)
      BY <1>3
    <3> HIDE DEF S
    <3> QED
      BY <3>2, <3>3
  <2> HIDE DEF S
  <2>2. Cardinality(S) = c - 1
    BY <2>1, OddLemma
  <2> QED
    BY <2>2 DEF S, SeparatorsBefore
<1>4. \A c \in Channels : SeparatorsBefore(2 * c) = c - 1
  <2> TAKE c \in Channels
  <2>1. c \in Nat \ {0} /\ 2 * c <= Len(dataIn) + 1
    BY <1>1 DEF Channels
  <2> QED
    BY <1>3, <2>1
<1>5. SeparatorsBefore(Len(dataIn) + 1) = n
  <2> DEFINE c == n + 1
             j == Len(dataIn) + 1
  <2>1. c \in Nat \ {0} /\ j = 2 * c + 1 /\ c - 1 = n
    BY <1>1
  <2>2. j \in {2 * c, 2 * c + 1} /\ j <= Len(dataIn) + 1
    BY <1>1, <2>1
  <2> HIDE DEF c, j
  <2>3. SeparatorsBefore(j) = c - 1
    BY <1>1, <1>3, <2>1, <2>2 DEF j
  <2> QED
    BY <2>1, <2>3 DEF j
<1> QED
  BY <1>4, <1>5 DEF Parts

LEMMA CsvColumn ==
  ASSUME NEW k, CsvLine(k)
  PROVE  /\ IsPrefix(ColumnOf(k), Column)
         /\ 1 \in 1 .. Parts /\ Column[1] # <<"0">>
<1> DEFINE n == N_CHANNELS
<1>1. /\ n \in Nat \ {0} /\ Len(dataIn) = 2 * n + 2 /\ k \in 1 .. MAX_REPORTS
      /\ dataIn \in Seq(Token)
  BY NumberLemma DEF CsvLine, CsvLength
<1>2. /\ Parts = n + 1
      /\ \A c \in Channels : SeparatorsBefore(2 * c) = c - 1
  BY CsvLineParts
<1>3. ASSUME NEW p \in Channels
      PROVE  Contribution(p) = ColumnOf(k)[p] /\ Contribution(p) # <<"0">>
  <2> DEFINE T == { j \in 1 .. Len(dataIn) : /\ SeparatorsBefore(j) = p - 1
                                             /\ dataIn[j] \notin {SEP, LF} }
             x == CHOOSE j \in T : TRUE
             y == 2 * p
  <2>1. /\ p \in Nat \ {0} /\ y \in 1 .. Len(dataIn) /\ y % 2 = 0
        /\ y <= 2 * N_CHANNELS /\ y \div 2 = p
    BY <1>1 DEF Channels
  <2>2. dataIn[y] = Value(k, p) /\ dataIn[y] \notin {SEP, LF}
    BY <2>1, CsvLineTokens
  <2>3. y \in T
    BY <1>2, <2>1, <2>2
  <2>4. ASSUME NEW j \in T PROVE j = y
    <3>1. j % 2 = 0 /\ j <= 2 * N_CHANNELS /\ j \in 1 .. Len(dataIn)
      BY CsvLineTokens
    <3> DEFINE c == j \div 2
    <3>2. c \in Channels /\ j = 2 * c
      BY <1>1, <3>1 DEF Channels
    <3> HIDE DEF c
    <3>3. SeparatorsBefore(j) = c - 1
      BY <1>2, <3>2
    <3>4. c - 1 = p - 1
      BY <3>3
    <3>5. c = p
      BY <1>1, <3>2, <3>4 DEF Channels
    <3> QED
      BY <3>2, <3>5
  <2>5. T = {y}
    BY <2>3, <2>4
  <2>6. Cardinality(T) = 1
    <3> HIDE DEF T, y
    <3> QED
      BY <2>5, FS_Singleton
  <2>7. x = y
    BY <2>5
  <2>8. IsNumber(Value(k, p)) /\ (Value(k, p) = FLOOR <=> ~(p <= N_ENABLED))
    <3>1. Power(k, p)[1] = "dBm" /\ FLOOR[1] = "-59" /\ Power(k, p) # FLOOR
      BY TokenLemma DEF FLOOR
    <3> QED
      BY <3>1 DEF IsNumber, Value
  <2>9. Contribution(p) = IF Value(k, p) = FLOOR THEN <<"NaN">> ELSE Value(k, p)
    BY <2>2, <2>6, <2>7, <2>8 DEF Contribution
  <2>10. Contribution(p) = IF p <= N_ENABLED THEN Power(k, p) ELSE <<"NaN">>
    BY <2>8, <2>9 DEF Value
  <2>11. Power(k, p) # <<"0">> /\ <<"NaN">> # <<"0">>
    <3>1. Power(k, p)[1] = "dBm" /\ <<"0">>[1] = "0" /\ <<"NaN">>[1] = "NaN"
      BY TokenLemma
    <3> QED
      BY <3>1
  <2> QED
    BY <2>10, <2>11 DEF ColumnOf
<1>4. /\ Column \in Seq(Cell) /\ Len(Column) = n + 1
      /\ \A p \in 1 .. n + 1 : Column[p] = Contribution(p)
  BY <1>1, <1>2, ColumnLemma
<1>5. ColumnOf(k) \in Seq(Cell) /\ Len(ColumnOf(k)) = n
  <2>1. ColumnOf(k) \in [1 .. n -> Cell]
    <3> SUFFICES ASSUME NEW p \in 1 .. n
                 PROVE  (IF p <= N_ENABLED THEN Power(k, p) ELSE <<"NaN">>) \in Cell
      BY DEF ColumnOf, Channels
    <3> QED
      BY <1>1, TokenLemma DEF Cell, Channels
  <2> QED
    BY <1>1, <2>1, FunctionLemma
<1>6. \A p \in 1 .. n : p \in Channels /\ p \in 1 .. n + 1
  BY <1>1 DEF Channels
<1>7. IsPrefix(ColumnOf(k), Column)
  BY <1>1, <1>3, <1>4, <1>5, <1>6, PrefixLemma
<1>8. 1 \in 1 .. n /\ 1 \in 1 .. Parts
  BY <1>1, <1>2
<1>9. Column[1] = Contribution(1) /\ Contribution(1) # <<"0">>
  BY <1>3, <1>4, <1>6, <1>8
<1> QED
  BY <1>7, <1>8, <1>9

-----------------------------------------------------------------------------
(* The columns follow the reports.                                         *)

\* The script has still to read the last q reports, and the columns it stored
\* are the reports before those.
Behind(q) ==
  /\ Len(Unread) = After(q, CsvLength) + 1
  /\ Len(dataList) <= Len(styles) - q
  /\ \A r \in 1 .. Len(dataList) :
       IsPrefix(ColumnOf((Len(styles) - q - Len(dataList)) + r), dataList[r])

Following ==
  AllCsv =>
    /\ Traced(Unread, Len(styles))
    /\ Len(dataList) = readR - 1
    /\ host = "reading" => \E q \in Nat : Behind(q)
    /\ host # "reading" => dataList = <<>>

LEMMA FollowingPrint ==
  ASSUME IInv, Following, PrintReport
  PROVE  Following'
<1> SUFFICES ASSUME AllCsv' PROVE Following'
  BY DEF Following
<1> DEFINE n == Len(styles)
<1>1. /\ dataIn \in Seq(Token) /\ stream \in Seq(Token) /\ styles \in Seq(BOOLEAN)
      /\ Unread \in Seq(Token) /\ n \in Nat /\ n + 1 \in 1 .. MAX_REPORTS
      /\ booleanRXKey \in BOOLEAN /\ Len(Unread) \in Nat
  BY NumberLemma DEF IInv, Types, Reading, Text, PrintReport
<1>2. /\ Len(styles') = n + 1 /\ styles'[n + 1] = booleanRXKey
      /\ \A k \in 1 .. n : styles'[k] = styles[k]
  BY <1>1 DEF PrintReport
<1>3. AllCsv /\ booleanRXKey
  BY <1>1, <1>2 DEF AllCsv
<1>4. Unread' = Unread \o CsvReport(n + 1)
  <2>1. CsvReport(n + 1) \in Seq(Token)
    BY <1>1, CsvLemma
  <2>2. dataIn' = dataIn /\ stream' = stream \o CsvReport(n + 1)
    BY <1>3 DEF PrintReport
  <2> QED
    BY <1>1, <2>1, <2>2, AssociationLemma DEF Unread
<1>5. Traced(Unread', Len(styles')) /\ Len(Unread') = Len(Unread) + CsvLength
  BY <1>1, <1>2, <1>3, <1>4, TracedPrinted DEF Following
<1>6. /\ dataList' = dataList /\ readR' = readR /\ host' = host
  BY DEF PrintReport
<1>7. ASSUME NEW q \in Nat, Behind(q)
      PROVE  Behind(q + 1)'
  <2> DEFINE m == Len(dataList)
             b == n - q - m
  <2>1. After(q + 1, CsvLength) = After(q, CsvLength) + CsvLength
        /\ After(q, CsvLength) \in Nat /\ CsvLength \in Nat
    BY AfterLemma
  <2>2. Len(Unread') = After(q + 1, CsvLength) + 1
    BY <1>5, <1>7, <2>1 DEF Behind
  <2>3. m \in Nat
    BY DEF IInv, Stored
  <2>4. /\ m <= n - q
        /\ \A r \in 1 .. m : IsPrefix(ColumnOf(b + r), dataList[r])
    BY <1>7 DEF Behind
  <2>5. (n + 1) - (q + 1) - m = b /\ m <= (n + 1) - (q + 1)
    BY <1>1, <2>3, <2>4
  <2> HIDE DEF b, m, n
  <2>6. Len(dataList') = m
    BY <1>6 DEF m
  <2>7. \A r \in 1 .. m :
          IsPrefix(ColumnOf(((n + 1) - (q + 1) - m) + r), dataList'[r])
    BY <1>6, <2>4, <2>5
  <2> QED
    BY <1>2, <2>2, <2>5, <2>6, <2>7 DEF Behind
<1>8. host = "reading" => \E q \in Nat : Behind(q)'
  <2> SUFFICES ASSUME host = "reading" PROVE \E q \in Nat : Behind(q)'
    OBVIOUS
  <2>1. PICK q \in Nat : Behind(q)
    BY <1>3 DEF Following
  <2>2. q + 1 \in Nat /\ Behind(q + 1)'
    BY <1>7, <2>1
  <2> QED
    BY <2>2
<1>9. Len(dataList) = readR - 1 /\ (host # "reading" => dataList = <<>>)
  BY <1>3 DEF Following
<1> QED
  BY <1>5, <1>6, <1>8, <1>9 DEF Following

\* Steps of the script that store nothing.
LEMMA FollowingOpen ==
  ASSUME IInv, Following, Open \/ ReadChar
  PROVE  Following'
<1> SUFFICES ASSUME AllCsv' PROVE Following'
  BY DEF Following
<1>1. /\ dataIn \in Seq(Token) /\ stream \in Seq(Token) /\ styles \in Seq(BOOLEAN)
      /\ Unread \in Seq(Token) /\ Len(styles) \in Nat /\ styles' = styles
      /\ dataList' = dataList /\ readR' = readR
  BY DEF IInv, Types, Reading, Text, Open, ReadChar
<1>2. AllCsv
  BY <1>1 DEF AllCsv
<1>3. CASE Open
  <2>1. /\ dataIn = <<>> /\ dataIn' = <<>> /\ host # "reading" /\ host' # "reading"
    BY <1>3 DEF IInv, Reading, Open
  <2>2. PICK n \in 0 .. Len(stream) : stream' = SubSeq(stream, n + 1, Len(stream))
    BY <1>3 DEF Open
  <2>3. Unread = stream
    BY <1>1, <2>1, EmptyLemma DEF Unread
  <2>4. stream' \in Seq(Token)
    BY <1>1, <2>2, SuffixLemma
  <2>5. Unread' = stream'
    BY <2>1, <2>4, EmptyLemma DEF Unread
  <2>6. Traced(Unread', Len(styles))
    BY <1>1, <1>2, <2>2, <2>3, <2>5, TracedSuffix DEF Following
  <2> QED
    BY <1>1, <1>2, <2>1, <2>6 DEF Following
<1>4. CASE ReadChar
  <2>1. Unread' = Unread /\ host' = host
    BY <1>1, <1>4, MoveLemma DEF Unread, ReadChar
  <2>2. \A q \in Nat : Behind(q) => Behind(q)'
    BY <1>1, <2>1 DEF Behind
  <2> QED
    BY <1>1, <1>2, <2>1, <2>2 DEF Following
<1> QED
  BY <1>3, <1>4

LEMMA FollowingSynchronize ==
  ASSUME IInv, Following, Synchronize
  PROVE  Following'
<1> SUFFICES ASSUME AllCsv' PROVE Following'
  BY DEF Following
<1> DEFINE l == CsvLength
           n == Len(styles)
<1>1. /\ dataIn = <<>> /\ stream \in Seq(Token) /\ styles \in Seq(BOOLEAN)
      /\ stream # <<>> /\ n \in Nat /\ styles' = styles /\ dataIn' = <<>>
      /\ dataList' = dataList /\ readR' = readR /\ host = "syncing"
  BY DEF IInv, Types, Reading, Text, Synchronize
<1>2. AllCsv
  BY <1>1 DEF AllCsv
<1>3. dataList = <<>> /\ Len(dataList) = readR - 1 /\ Traced(Unread, n)
  BY <1>1, <1>2 DEF Following
<1>4. Unread = stream
  BY <1>1, EmptyLemma DEF Unread
<1>5. /\ stream' = SubSeq(stream, 1 + 1, Len(stream)) /\ 1 \in 0 .. Len(stream)
      /\ Head(stream) = stream[1] /\ Len(stream) >= 1 /\ Len(stream) \in Nat
      /\ Len(stream') = Len(stream) - 1 /\ stream' \in Seq(Token)
  BY <1>1, TailLemma DEF Synchronize
<1>6. Unread' = stream'
  BY <1>1, <1>5, EmptyLemma DEF Unread
<1>7. Traced(Unread', n)
  BY <1>1, <1>3, <1>4, <1>5, <1>6, TracedSuffix
<1>8. CASE Head(stream) # CR
  <2>1. host' # "reading"
    BY <1>8 DEF Synchronize
  <2> QED
    BY <1>1, <1>3, <1>7, <2>1 DEF Following
<1>9. CASE Head(stream) = CR
  <2> DEFINE y == Len(stream) - 1
  <2>1. y \in Nat
    BY <1>5
  <2>2. PICK q \in Nat : \E x \in 1 .. l : y = After(q, x)
    BY <2>1, AfterLemma
  <2>3. PICK x \in 1 .. l : y = After(q, x)
    BY <2>2
  <2>4. After(q, x) < Len(stream) /\ Len(stream) - After(q, x) = 1
    BY <1>5, <2>1, <2>3
  <2>5. q < n /\ stream[Len(stream) - After(q, x)] = CsvToken(n - q, x)
    BY <1>3, <1>4, <2>4 DEF Traced
  <2>6. x = l - 1
    BY <1>5, <1>9, <2>4, <2>5, ReturnLemma
  <2>7. l \in Nat /\ l >= 5 /\ After(q, x) = After(q, l) + 1
    <3>1. After(q, x) = q * l + (l - x) /\ After(q, l) = q * l + (l - l)
      BY DEF After
    <3>2. l \in Nat /\ l >= 5
      BY AfterLemma
    <3> HIDE DEF l
    <3>3. q * l \in Nat
      BY <3>2
    <3> QED
      BY <2>6, <3>1, <3>2, <3>3
  <2>8. Len(Unread') = After(q, l) + 1
    BY <1>5, <1>6, <2>3, <2>7
  <2>9. Behind(q)'
    <3>1. Len(dataList') = 0 /\ 0 <= n - q /\ Len(styles') = n
      BY <1>1, <1>3, <2>5
    <3>2. \A r \in 1 .. Len(dataList') : FALSE
      BY <3>1
    <3> QED
      BY <2>8, <3>1, <3>2 DEF Behind
  <2>10. host' = "reading"
    BY <1>9 DEF Synchronize
  <2> QED
    BY <1>1, <1>3, <1>7, <2>9, <2>10 DEF Following
<1> QED
  BY <1>8, <1>9

LEMMA FollowingStore ==
  ASSUME IInv, Following, StoreLine
  PROVE  Following'
<1> SUFFICES ASSUME AllCsv' PROVE Following'
  BY DEF Following
<1> DEFINE n == Len(styles)
           m == Len(dataList)
<1>1. /\ styles' = styles /\ styles \in Seq(BOOLEAN) /\ n \in Nat
      /\ m \in Nat /\ host = "reading" /\ readR \in Nat
  BY DEF IInv, Types, Stored, StoreLine
<1>2. AllCsv
  BY <1>1 DEF AllCsv
<1>3. Traced(Unread, n) /\ m = readR - 1
  BY <1>2 DEF Following
<1>4. PICK q \in Nat : Behind(q)
  BY <1>1, <1>2 DEF Following
<1> DEFINE p == q - 1
           k == n - p
           b == n - q - m
<1>5. Len(Unread) = After(q, CsvLength) + 1
  BY <1>4 DEF Behind
<1>6. /\ q # 0 /\ p < n /\ CsvLine(k)
      /\ Len(Unread') = After(p, CsvLength) + 1
      /\ Traced(Unread', n)
  BY <1>3, <1>5, LineIsReport
<1>7. IsPrefix(ColumnOf(k), Column) /\ 1 \in 1 .. Parts /\ Column[1] # <<"0">>
  BY <1>6, CsvColumn
<1>8. dataIn # <<>> /\ host' = "reading"
  BY StoreHolds DEF StoreLine
<1>9. /\ Len(dataList') = readR /\ readR' = readR + 1
      /\ \A r \in 1 .. m : dataList'[r] = dataList[r]
      /\ dataList'[readR] = Column
  <2>1. Column[1] = Contribution(1)
    BY <1>7 DEF Column
  <2> DEFINE column == [i \in 1 .. Parts |-> Contribution(i)]
             empty == [r \in 1 .. readR - 1 - Len(dataList) |-> <<>>]
  <2>2. ~ \A i \in 1 .. Parts : column[i] = <<"0">>
    BY <1>7, <2>1
  <2>3. dataList' = dataList \o empty \o <<column>>
    BY <2>2 DEF StoreLine
  <2>4. dataList' # dataList
    <3>1. /\ dataList \in Seq(Seq(Cell)) /\ readR - 1 - Len(dataList) \in Nat
      BY <1>1, <1>3 DEF IInv, Stored
    <3>2. column \in Seq(Cell)
      <4>1. Column \in Seq(Cell)
        BY ColumnLemma DEF IInv, Types
      <4> QED
        BY <4>1 DEF Column
    <3> HIDE DEF column
    <3> DEFINE e == readR - 1 - Len(dataList)
    <3> HIDE DEF e
    <3>3. /\ Len(dataList \o [r \in 1 .. e |-> <<>>] \o <<column>>)
               = Len(dataList) + e + 1
          /\ e \in Nat
      BY <3>1, <3>2, GrowLemma DEF e
    <3>4. Len(dataList') = Len(dataList) + e + 1
      BY <2>3, <3>3 DEF e
    <3> QED
      BY <1>1, <3>3, <3>4
  <2> QED
    BY <2>4, StoredLine
<1>10. /\ p \in Nat /\ m <= n - q
       /\ \A r \in 1 .. m : IsPrefix(ColumnOf(b + r), dataList[r])
  BY <1>4, <1>6 DEF Behind
<1>11. /\ Len(dataList') = m + 1 /\ m + 1 = readR /\ n - p - (m + 1) = b
       /\ b + (m + 1) = k /\ m + 1 <= n - p /\ readR' - 1 = m + 1
  BY <1>1, <1>3, <1>9, <1>10
<1> HIDE DEF p, b, k
<1>12. ASSUME NEW r \in 1 .. m + 1
       PROVE  IsPrefix(ColumnOf(b + r), dataList'[r])
  <2>1. CASE r \in 1 .. m
    BY <1>9, <1>10, <2>1
  <2>2. CASE r = m + 1
    <3>1. dataList'[r] = Column /\ b + r = k
      BY <1>9, <1>11, <2>2
    <3> QED
      BY <1>7, <3>1
  <2> QED
    BY <1>1, <2>1, <2>2
<1>13. Behind(p)'
  BY <1>1, <1>6, <1>11, <1>12 DEF Behind
<1> QED
  BY <1>1, <1>6, <1>8, <1>10, <1>11, <1>13 DEF Following

\* As long as only comma separated reports are printed, the columns stored are
\* consecutive whole reports, wherever in the stream the script starts.
THEOREM ColumnsFollow == Spec => []ColumnsFollowReports
<1>1. Init => Following
  <2> SUFFICES ASSUME Init PROVE Following
    OBVIOUS
  <2>1. Unread = <<>> /\ Len(<<>>) = 0 /\ Len(dataList) = 0 /\ readR = 1
        /\ host = "closed" /\ dataList = <<>>
    BY DEF Init, Unread
  <2>2. Traced(Unread, Len(styles))
    <3>1. \A q \in Nat : \A x \in 1 .. CsvLength : ~(After(q, x) < 0)
      <4>1. \A y \in Nat : ~(y < 0)
        OBVIOUS
      <4> QED
        BY <4>1, AfterLemma, Zenon
    <3>2. Len(Unread) = 0
      BY <2>1
    <3> QED
      BY <3>1, <3>2 DEF Traced
  <2> QED
    BY <2>1, <2>2 DEF Following
<1>2. IInv /\ Following /\ [Next]_vars => Following'
  <2> SUFFICES ASSUME IInv, Following, [Next]_vars PROVE Following'
    OBVIOUS
  <2>1. CASE ToggleMode
    BY <2>1 DEF Following, Behind, AllCsv, Unread, ToggleMode
  <2>2. CASE UNCHANGED vars
    BY <2>2 DEF Following, Behind, AllCsv, Unread, vars
  <2> QED
    BY <2>1, <2>2, FollowingPrint, FollowingOpen, FollowingSynchronize,
       FollowingStore DEF Next, Plotter
<1>3. IInv /\ Following => ColumnsFollowReports
  <2> SUFFICES ASSUME IInv, Following, AllCsv
               PROVE  \E first \in 0 .. MAX_REPORTS : \A r \in 1 .. Len(dataList) :
                        IsPrefix(ColumnOf(first + r), dataList[r])
    BY DEF ColumnsFollowReports, AllCsv
  <2>1. /\ Len(styles) \in Nat /\ Len(styles) <= MAX_REPORTS
        /\ MAX_REPORTS \in Nat /\ Len(dataList) \in Nat
    BY NumberLemma DEF IInv, Types, Stored
  <2>2. CASE host = "reading"
    <3>1. PICK q \in Nat : Behind(q)
      BY <2>2 DEF Following
    <3> DEFINE first == Len(styles) - q - Len(dataList)
    <3>2. first \in 0 .. MAX_REPORTS
      BY <2>1, <3>1 DEF Behind
    <3>3. \A r \in 1 .. Len(dataList) :
            IsPrefix(ColumnOf(first + r), dataList[r])
      BY <3>1 DEF Behind
    <3> QED
      BY <3>2, <3>3
  <2>3. CASE host # "reading"
    <3>1. Len(dataList) = 0 /\ 0 \in 0 .. MAX_REPORTS
      BY <2>1, <2>3 DEF Following
    <3>2. \A r \in 1 .. Len(dataList) : IsPrefix(ColumnOf(0 + r), dataList[r])
      BY <3>1
    <3> QED
      BY <3>1, <3>2
  <2> QED
    BY <2>2, <2>3
<1> QED
  BY <1>1, <1>2, <1>3, Invariant, PTL DEF Spec

=============================================================================
