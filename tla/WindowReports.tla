--------------------------- MODULE WindowReports ---------------------------
(***************************************************************************)
(* What the power detector promises the reader of its serial port,         *)
(* whatever the interleaving of the sampling interrupt with loop().        *)
(*                                                                         *)
(* Samples are collected in a window.  A report is a list of items, each   *)
(* of them computed from the first `count' samples of that one window:     *)
(* an average lists the readings it is the mean of, a frame shows one      *)
(* sample.  The counts of a report never decrease (an item printed later   *)
(* may cover more samples, never fewer), and publishing the report starts  *)
(* an empty window, so that no sample is ever part of two reports.         *)
(***************************************************************************)
EXTENDS Integers, Sequences

CONSTANTS Fields,   \* the fields of a sample in the order they are printed
          Values    \* the values a field can have

FieldSet == { Fields[i] : i \in 1 .. Len(Fields) }

Sample == [FieldSet -> Values]

VARIABLES window,   \* the samples acquired since the last report
          report    \* the items of the report being written

absVars == <<window, report>>

\* The readings of channel c in the first n samples of the window.
Prefix(c, n) == [i \in 1 .. n |-> window[i][c]]

\* The fields of the sample at index `at' (counted from 0), in print order.
Shown(at) == [i \in 1 .. Len(Fields) |-> window[at + 1][Fields[i]]]

LastCount == IF report = <<>> THEN 0 ELSE report[Len(report)].count

\* new is old with one more element at its end.
Grown(old, new) == /\ Len(new) = Len(old) + 1
                   /\ SubSeq(new, 1, Len(old)) = old

Init == window = <<>> /\ report = <<>>

Acquire ==
  /\ Grown(window, window')
  /\ window'[Len(window')] \in Sample
  /\ UNCHANGED report

\* The mean of channel c over the first n samples: vals are its readings.
ReportAverage(c, n) ==
  /\ report' = Append(report, [kind |-> "average", what |-> c,
                               count |-> n, vals |-> Prefix(c, n)])
  /\ UNCHANGED window

\* A frame taken from a window of n samples is one of those n samples; when
\* n = 0 there is none, and nothing is said of the values that are printed.
ReportFrame(n) ==
  /\ Grown(report, report')
  /\ LET frame == report'[Len(report')] IN
       /\ frame.kind = "frame" /\ frame.count = n
       /\ n > 0 => frame.what < n /\ frame.vals = Shown(frame.what)
  /\ UNCHANGED window

Publish == window' = <<>> /\ report' = <<>>

Next ==
  \/ Acquire
  \/ \E n \in LastCount .. Len(window) :
       ReportFrame(n) \/ \E c \in FieldSet : ReportAverage(c, n)
  \/ Publish

Spec == Init /\ [][Next]_absVars
=============================================================================
