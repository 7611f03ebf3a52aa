--------------------------- MODULE SerialPlotter ---------------------------
(***************************************************************************)
(* The serial line: the reports that loop() prints (main.cpp) and the      *)
(* Octave script that plots them (RF_dBPlotter.m).  The script may start   *)
(* at any time, in the middle of a report, while the device keeps the mode *)
(* an earlier reader left it in.                                           *)
(*                                                                         *)
(* The stream is a sequence of tokens: a number, a text that is no number, *)
(* ", ", line feed or carriage return.  The script splits the stream at    *)
(* carriage returns, and a line at ", ".                                   *)
(***************************************************************************)
EXTENDS Integers, Sequences, FiniteSets, SequencesExt

CONSTANTS
  N_CHANNELS,   \* channels in rfAdcList
  N_ENABLED,    \* the first so many of them are enabled
  N_BLANKS,     \* empty lines before a verbose report
  MAX_REPORTS   \* bound: reports printed in a behaviour

ASSUME PlotterAssumption ==
  /\ N_CHANNELS \in Nat \ {0}
  /\ N_ENABLED \in 0 .. N_CHANNELS
  /\ N_BLANKS \in Nat
  /\ MAX_REPORTS \in Nat

Channels == 1 .. N_CHANNELS

CR == <<"CR">>
LF == <<"LF">>
SEP == <<", ">>
TEXT == <<"text">>
Raw(c) == <<"raw", c>>        \* an ADC code of channel c
Power(k, c) == <<"dBm", k, c>>  \* the average of channel c in report k
FLOOR == <<"-59">>            \* what a channel without a reading shows

IsNumber(token) == token[1] \in {"raw", "dBm", "-59"}

-----------------------------------------------------------------------------
(* What loop() prints.                                                     *)

\* Mutant of Newline: a carriage return alone.
NewlineCR == <<CR>>

\* Serial.println() ends what it prints with two characters.
Newline == <<CR, LF>>

\* The same tokens n times.
Times(n, tokens) ==
  [i \in 1 .. n * Len(tokens) |-> tokens[((i - 1) % Len(tokens)) + 1]]

Lines(n) == Times(n, Newline)

\* A disabled channel averages 0, which is -59.
Value(k, c) == IF c <= N_ENABLED THEN Power(k, c) ELSE FLOOR

\* The comma separated report: one value per channel, in dBm, each followed
\* by ", ", then println('\n').
CsvReport(k) ==
  [i \in 1 .. 2 * N_CHANNELS |-> IF i % 2 = 0 THEN SEP ELSE Value(k, (i \div 2) + 1)]
  \o <<LF>> \o Newline

\* RFSample::toString() after a text: the first field is part of the text.
SampleLine ==
  <<TEXT>>
  \o [i \in 1 .. 2 * N_CHANNELS - 2 |-> IF i % 2 = 1 THEN SEP ELSE Raw((i \div 2) + 1)]
  \o Newline

\* The verbose report: empty lines, the header, a frame and an empty line,
\* and one line with a unit after every number per enabled channel.
VerboseReport ==
  Lines(N_BLANKS) \o SampleLine \o SampleLine \o Newline
  \o Times(N_ENABLED, <<TEXT, SEP, TEXT, SEP, TEXT>> \o Newline)

VARIABLES
  booleanRXKey,  \* the mode of the device: TRUE for comma separated values
  styles,        \* the modes of the reports printed so far
  stream,        \* tokens printed and not yet read
  host,          \* "closed", "syncing", "reading" or "failed"
  dataIn,        \* the line being read; <<>> stands for "does not exist"
  readR,         \* the column the next line is stored in
  dataList       \* the columns stored, each a sequence of channels

vars == <<booleanRXKey, styles, stream, host, dataIn, readR, dataList>>

Init ==
  /\ booleanRXKey = TRUE
  /\ styles = <<>>
  /\ stream = <<>>
  /\ host = "closed"
  /\ dataIn = <<>>
  /\ readR = 1
  /\ dataList = <<>>

PrintReport ==
  /\ Len(styles) < MAX_REPORTS
  /\ styles' = Append(styles, booleanRXKey)
  /\ stream' = stream \o IF booleanRXKey THEN CsvReport(Len(styles) + 1)
                                         ELSE VerboseReport
  /\ UNCHANGED <<booleanRXKey, host, dataIn, readR, dataList>>

\* Someone sends 'M': the script itself does not.
ToggleMode ==
  /\ Len(styles) < MAX_REPORTS
  /\ booleanRXKey' = ~booleanRXKey
  /\ UNCHANGED <<styles, stream, host, dataIn, readR, dataList>>

-----------------------------------------------------------------------------
(* What RF_dBPlotter.m does.                                               *)

\* srl_flush() discards what has arrived, which may end anywhere.
Open ==
  /\ host = "closed"
  /\ \E n \in 0 .. Len(stream) : stream' = SubSeq(stream, n + 1, Len(stream))
  /\ host' = "syncing"
  /\ UNCHANGED <<booleanRXKey, styles, dataIn, readR, dataList>>

\* Mutant of Synchronize: the first line is taken as it comes.
NoSynchronization ==
  /\ host = "syncing"
  /\ host' = "reading"
  /\ UNCHANGED <<booleanRXKey, styles, stream, dataIn, readR, dataList>>

\* while (srl_read(deviceTeensy,1) != 13)
Synchronize ==
  /\ host = "syncing"
  /\ stream # <<>>
  /\ stream' = Tail(stream)
  /\ host' = IF Head(stream) = CR THEN "reading" ELSE "syncing"
  /\ UNCHANGED <<booleanRXKey, styles, dataIn, readR, dataList>>

\* Mutant of ReadChar: a carriage return becomes part of the line.
ReadAnyChar ==
  /\ host = "reading"
  /\ stream # <<>>
  /\ dataIn' = Append(dataIn, Head(stream))
  /\ stream' = Tail(stream)
  /\ UNCHANGED <<booleanRXKey, styles, host, readR, dataList>>

ReadChar ==
  /\ host = "reading"
  /\ stream # <<>> /\ Head(stream) # CR
  /\ dataIn' = Append(dataIn, Head(stream))
  /\ stream' = Tail(stream)
  /\ UNCHANGED <<booleanRXKey, styles, host, readR, dataList>>

\* The number of ", " before position j of the line.
SeparatorsBefore(j) ==
  Cardinality({ i \in 1 .. j - 1 : dataIn[i] = SEP })

Parts == SeparatorsBefore(Len(dataIn) + 1) + 1

\* What the p-th part of the line contributes to the column: str2double()
\* ignores line feeds around a number, -59 becomes NaN, and a part that is no
\* number leaves the 0 that Octave fills a growing matrix with.
Contribution(p) ==
  LET tokens == { j \in 1 .. Len(dataIn) : /\ SeparatorsBefore(j) = p - 1
                                           /\ dataIn[j] \notin {SEP, LF} }
      number == dataIn[CHOOSE j \in tokens : TRUE]
  IN  IF Cardinality(tokens) # 1 \/ ~IsNumber(number) THEN <<"0">>
      ELSE IF number = FLOOR THEN <<"NaN">> ELSE number

\* Mutant of StoreLine: the line is not cleared (line 33 of the script).
StoreLineKeep ==
  /\ host = "reading"
  /\ stream # <<>> /\ Head(stream) = CR
  /\ stream' = Tail(stream)
  /\ dataList' = Append(dataList, [p \in 1 .. Parts |-> Contribution(p)])
  /\ readR' = readR + 1
  /\ UNCHANGED <<booleanRXKey, styles, host, dataIn>>

\* A carriage return ends the line.  A line of no characters does not exist
\* in dataIn and stops the script with an error; a line without a number does
\* not make dataList grow, but the next one that has one does, up to readR.
StoreLine ==
  /\ host = "reading"
  /\ stream # <<>> /\ Head(stream) = CR
  /\ stream' = Tail(stream)
  /\ host' = IF dataIn = <<>> THEN "failed" ELSE "reading"
  /\ LET column == [p \in 1 .. Parts |-> Contribution(p)]
         empty == [r \in 1 .. readR - 1 - Len(dataList) |-> <<>>]
     IN  dataList' = IF \A p \in 1 .. Parts : column[p] = <<"0">>
                     THEN dataList
                     ELSE dataList \o empty \o <<column>>
  /\ readR' = readR + 1
  /\ dataIn' = <<>>
  /\ UNCHANGED <<booleanRXKey, styles>>

Plotter == Open \/ Synchronize \/ ReadChar \/ StoreLine

Next == PrintReport \/ ToggleMode \/ Plotter

Spec == Init /\ [][Next]_vars

-----------------------------------------------------------------------------
Token == {CR, LF, SEP, TEXT, FLOOR} \cup { Raw(c) : c \in Channels }
           \cup { Power(k, c) : k \in 1 .. MAX_REPORTS, c \in Channels }

TypeOK ==
  /\ booleanRXKey \in BOOLEAN
  /\ styles \in Seq(BOOLEAN) /\ Len(styles) <= MAX_REPORTS
  /\ stream \in Seq(Token)
  /\ host \in {"closed", "syncing", "reading", "failed"}
  /\ dataIn \in Seq(Token \ {CR})
  /\ readR \in Nat /\ Len(dataList) < readR
  /\ \A r \in 1 .. Len(dataList) :
       dataList[r] \in Seq(Token \cup {<<"0">>, <<"NaN">>})

\* The column that report k should become.
ColumnOf(k) ==
  [c \in Channels |-> IF c <= N_ENABLED THEN Power(k, c) ELSE <<"NaN">>]

\* As long as only comma separated reports are printed, the columns stored
\* are consecutive whole reports, wherever in the stream the script starts:
\* column r is drawn r intervals after the first (RF_dBPlotter.m:54).
ColumnsFollowReports ==
  (\A k \in 1 .. Len(styles) : styles[k]) =>
    \E first \in 0 .. MAX_REPORTS : \A r \in 1 .. Len(dataList) :
      IsPrefix(ColumnOf(first + r), dataList[r])

\* In whatever mode the device is and is switched to, no column has values of
\* two reports.
OneReportPerColumn ==
  \A r \in 1 .. Len(dataList) : \A p, q \in 1 .. Len(dataList[r]) :
    LET a == dataList[r][p]
        b == dataList[r][q]
    IN  a[1] = "dBm" /\ b[1] = "dBm" => a[2] = b[2] /\ a[3] = p

\* The script never meets a line of no characters, which would stop it at
\* regexp(dataIn, ...): every carriage return the device prints is followed
\* by a line feed before the next one.
LineExists == host # "failed"

=============================================================================
