----------------------------- MODULE RFSampler -----------------------------
(***************************************************************************)
(* The firmware of the power detector (src/main.cpp, RFSample.cpp,         *)
(* RFInputADC.cpp, dataHelper.cpp): the timer interrupt fastMeasure()      *)
(* stores samples in adcSampleBuffer while loop() reads that buffer,       *)
(* prints a report and empties it by setting rfSampleBufferLength to 0.    *)
(*                                                                         *)
(* fastMeasure() preempts loop() between any two of its memory accesses    *)
(* and is never preempted by it, so it is one step; every access of loop() *)
(* to the shared length or to one field of one sample is a step.  Time is  *)
(* counted in sampling periods (RF_SAMPLE_INTERVAL, 5 microseconds).       *)
(***************************************************************************)
EXTENDS Integers, Sequences, FiniteSets

CONSTANTS
  Channels,          \* rfAdcList: the channels in the order they are visited
  Enabled,           \* those whose isEnabled is true after setup()
  Readings,          \* what getADCMeasure() can return
  RF_INVALID_VALUE,  \* contents of a cell that was never written
  RF_BUFFER_LENGTH,  \* cells of adcSampleBuffer
  OUTPUT_INTERVAL,   \* SERIAL_OUTPUT_INTERVAL, in sampling periods
  LATENCY,           \* how late loop() may notice that a report is due
  MICROS_WRAP        \* where the counter of elapsedMicros starts again at 0

ChannelSet == { Channels[i] : i \in 1 .. Len(Channels) }

ASSUME SamplerAssumption ==
  /\ Channels \in Seq(ChannelSet) /\ Channels # <<>>
  /\ Enabled \subseteq ChannelSet
  /\ "timestamp" \notin ChannelSet
  /\ Readings \subseteq Nat /\ Readings # {}
  /\ RF_INVALID_VALUE \in Nat
  /\ RF_BUFFER_LENGTH \in Nat \ {0}
  /\ OUTPUT_INTERVAL \in Nat \ {0}
  /\ LATENCY \in Nat
  /\ MICROS_WRAP \in Nat \ {0}

\* The fields of an RFSample in the order toString() prints them.
Fields == <<"timestamp">> \o Channels
FieldSet == { Fields[i] : i \in 1 .. Len(Fields) }
Sample == [FieldSet -> Nat]

Cells == 0 .. RF_BUFFER_LENGTH - 1

VARIABLES
  rfSampleBufferLength,  \* samples in the window, shared with the interrupt
  adcSampleBuffer,       \* the samples, shared with the interrupt
  rfSampleMicroseconds,  \* time since the first sample of the window
  sinceReport,           \* serialOutputTimer: time since the last one was due
  booleanRXKey,          \* TRUE: comma separated output, FALSE: verbose
  pc,                    \* where loop() is
  selectedADC,           \* index in Channels of the channel being averaged
  sampleCount,           \* the length as loop() last read it
  selectedFrame,         \* index of the sample being printed
  readSoFar,             \* values copied or summed so far
  report                 \* the items printed since the report was begun

shared == <<rfSampleBufferLength, adcSampleBuffer>>
clocks == <<rfSampleMicroseconds, sinceReport>>
locals == <<selectedADC, sampleCount, selectedFrame, readSoFar>>
vars == <<shared, clocks, booleanRXKey, pc, locals, report>>

\* RFSample(): every channel invalid, timestamp 0.
InvalidSample ==
  [f \in FieldSet |-> IF f = "timestamp" THEN 0 ELSE RF_INVALID_VALUE]

\* setup() has filled the buffer and started the sampling timer; the report
\* timer has been running since the program started.
Init ==
  /\ rfSampleBufferLength = 0
  /\ adcSampleBuffer = [i \in Cells |-> InvalidSample]
  /\ rfSampleMicroseconds = 0
  /\ sinceReport \in 0 .. OUTPUT_INTERVAL + LATENCY
  /\ booleanRXKey = TRUE
  /\ pc = "idle"
  /\ selectedADC = 1
  /\ sampleCount = 0
  /\ selectedFrame = 0
  /\ readSoFar = <<>>
  /\ report = <<>>

-----------------------------------------------------------------------------
(* The sampling interrupt.                                                 *)

\* The timing assumption: loop() never lets a report become more than
\* LATENCY periods overdue.  The firmware does not enforce it, and under it
\* nothing can be said of progress: ReportProgress does without.
TimeMayPass == sinceReport < OUTPUT_INTERVAL + LATENCY

\* One sample: the enabled channels are read, the others are set to 0.
\* A write beyond the last cell leaves the array as it is.
StoreSample ==
  /\ TimeMayPass
  /\ \E reading \in [Enabled -> Readings] :
       adcSampleBuffer' =
         [adcSampleBuffer EXCEPT ![rfSampleBufferLength] =
            [f \in FieldSet |->
               IF f = "timestamp" THEN rfSampleMicroseconds'
               ELSE IF f \in Enabled THEN reading[f] ELSE 0]]
  /\ rfSampleBufferLength' = rfSampleBufferLength + 1
  /\ sinceReport' = sinceReport + 1
  /\ UNCHANGED <<booleanRXKey, pc, locals, report>>

\* Mutant of fastMeasure: the first sample does not restart the counter.
fastMeasureKeepsTime ==
  /\ rfSampleMicroseconds' = (rfSampleMicroseconds + 1) % MICROS_WRAP
  /\ StoreSample

fastMeasure ==
  /\ rfSampleMicroseconds' =
       IF rfSampleBufferLength = 0 THEN 0
       ELSE (rfSampleMicroseconds + 1) % MICROS_WRAP
  /\ StoreSample

\* An expiry of the sampling timer that finds the previous one still being
\* served is merged with it: a period passes without a sample.
expiryMissed ==
  /\ TimeMayPass
  /\ rfSampleMicroseconds' = (rfSampleMicroseconds + 1) % MICROS_WRAP
  /\ sinceReport' = sinceReport + 1
  /\ UNCHANGED <<shared, booleanRXKey, pc, locals, report>>

-----------------------------------------------------------------------------
(* loop()                                                                  *)

\* Mutants of ReportDue: a timer that starts again when it is looked at, and
\* one that subtracts the wrong way round.
ReportDueNoCatchUp ==
  /\ pc = "idle"
  /\ sinceReport >= OUTPUT_INTERVAL
  /\ sinceReport' = 0
  /\ pc' = IF booleanRXKey THEN "average" ELSE "header"
  /\ UNCHANGED <<shared, rfSampleMicroseconds, booleanRXKey, locals, report>>

ReportDueSwapped ==
  /\ pc = "idle"
  /\ sinceReport >= OUTPUT_INTERVAL
  /\ sinceReport' = OUTPUT_INTERVAL - sinceReport
  /\ pc' = IF booleanRXKey THEN "average" ELSE "header"
  /\ UNCHANGED <<shared, rfSampleMicroseconds, booleanRXKey, locals, report>>

\* serialOutputTimer.check() = 1: the timer moves on by one interval, so a
\* report that was more than an interval late is followed by another one.
ReportDue ==
  /\ pc = "idle"
  /\ sinceReport >= OUTPUT_INTERVAL
  /\ sinceReport' = sinceReport - OUTPUT_INTERVAL
  /\ pc' = IF booleanRXKey THEN "average" ELSE "header"
  /\ UNCHANGED <<shared, rfSampleMicroseconds, booleanRXKey, locals, report>>

ReportNotDue ==
  /\ pc = "idle"
  /\ sinceReport < OUTPUT_INTERVAL
  /\ pc' = "receive"
  /\ UNCHANGED <<shared, clocks, booleanRXKey, locals, report>>

\* printSampleInformationHeader(adcSampleBuffer, (long) rfSampleBufferLength)
ReadHeaderCount ==
  /\ pc = "header"
  /\ sampleCount' = rfSampleBufferLength
  /\ selectedFrame' = 0
  /\ readSoFar' = <<>>
  /\ pc' = "copyHeader"
  /\ UNCHANGED <<shared, clocks, booleanRXKey, selectedADC, report>>

\* random(rfSampleBufferLength): below its argument, and 0 for 0.
SelectFrame ==
  /\ pc = "select"
  /\ sampleCount' = rfSampleBufferLength
  /\ selectedFrame' \in
       IF rfSampleBufferLength = 0 THEN {0} ELSE 0 .. rfSampleBufferLength - 1
  /\ readSoFar' = <<>>
  /\ pc' = "copyFrame"
  /\ UNCHANGED <<shared, clocks, booleanRXKey, selectedADC, report>>

\* One field of the sample is read, for toString() or to pass it by value.
CopyField ==
  /\ pc \in {"copyHeader", "copyFrame"}
  /\ Len(readSoFar) < Len(Fields)
  /\ readSoFar' = Append(readSoFar,
       adcSampleBuffer[selectedFrame][Fields[Len(readSoFar) + 1]])
  /\ UNCHANGED <<shared, clocks, booleanRXKey, pc, selectedADC, sampleCount,
                 selectedFrame, report>>

\* toString() and the prints that follow it.
PrintFrame ==
  /\ pc \in {"copyHeader", "copyFrame"}
  /\ Len(readSoFar) = Len(Fields)
  /\ report' = Append(report, [kind |-> "frame", what |-> selectedFrame,
                               count |-> sampleCount, vals |-> readSoFar])
  /\ pc' = IF pc = "copyHeader" THEN "select" ELSE "average"
  /\ UNCHANGED <<shared, clocks, booleanRXKey, locals>>

\* calculateChannelAverage(adcSampleBuffer, rfSampleBufferLength, channel):
\* the length is read anew for every channel.  The comma separated report
\* covers every channel, the verbose one the enabled channels.
StartAverage ==
  /\ pc = "average"
  /\ selectedADC <= Len(Channels)
  /\ booleanRXKey \/ Channels[selectedADC] \in Enabled
  /\ sampleCount' = rfSampleBufferLength
  /\ readSoFar' = <<>>
  /\ pc' = "sum"
  /\ UNCHANGED <<shared, clocks, booleanRXKey, selectedADC, selectedFrame,
                 report>>

SkipDisabled ==
  /\ pc = "average"
  /\ selectedADC <= Len(Channels)
  /\ ~booleanRXKey /\ Channels[selectedADC] \notin Enabled
  /\ selectedADC' = selectedADC + 1
  /\ UNCHANGED <<shared, clocks, booleanRXKey, pc, sampleCount, selectedFrame,
                 readSoFar, report>>

\* One round of the loop of calculateChannelSum().
AddSample ==
  /\ pc = "sum"
  /\ Len(readSoFar) < sampleCount
  /\ readSoFar' = Append(readSoFar,
       adcSampleBuffer[Len(readSoFar)][Channels[selectedADC]])
  /\ UNCHANGED <<shared, clocks, booleanRXKey, pc, selectedADC, sampleCount,
                 selectedFrame, report>>

\* Mutant of PrintAverage: the sum is divided by the length as it is by then.
DivideByCurrentLength ==
  /\ pc = "sum"
  /\ Len(readSoFar) = sampleCount
  /\ report' = Append(report,
       [kind |-> "average", what |-> Channels[selectedADC],
        count |-> rfSampleBufferLength, vals |-> readSoFar])
  /\ selectedADC' = selectedADC + 1
  /\ pc' = "average"
  /\ UNCHANGED <<shared, clocks, booleanRXKey, sampleCount, selectedFrame,
                 readSoFar>>

PrintAverage ==
  /\ pc = "sum"
  /\ Len(readSoFar) = sampleCount
  /\ report' = Append(report,
       [kind |-> "average", what |-> Channels[selectedADC],
        count |-> sampleCount, vals |-> readSoFar])
  /\ selectedADC' = selectedADC + 1
  /\ pc' = "average"
  /\ UNCHANGED <<shared, clocks, booleanRXKey, sampleCount, selectedFrame,
                 readSoFar>>

\* rfSampleBufferLength = 0, after the last channel; the cells keep their
\* contents.
ResetWindow ==
  /\ pc = "average"
  /\ selectedADC > Len(Channels)
  /\ rfSampleBufferLength' = 0
  /\ report' = <<>>
  /\ selectedADC' = 1
  /\ pc' = "receive"
  /\ UNCHANGED <<adcSampleBuffer, clocks, booleanRXKey, sampleCount,
                 selectedFrame, readSoFar>>

\* Mutant of Receive: the byte is handled while a report is being printed.
ReceiveInterrupts ==
  /\ pc \in {"average", "receive"}
  /\ booleanRXKey' \in BOOLEAN
  /\ pc' = IF pc = "receive" THEN "idle" ELSE pc
  /\ UNCHANGED <<shared, clocks, locals, report>>

\* One byte of serial input at most is taken per round; 'M' changes the mode.
Receive ==
  /\ pc = "receive"
  /\ \E incomingData \in {"none", "M", "other"} :
       booleanRXKey' = IF incomingData = "M" THEN ~booleanRXKey
                                             ELSE booleanRXKey
  /\ pc' = "idle"
  /\ UNCHANGED <<shared, clocks, locals, report>>

loop ==
  \/ ReportDue \/ ReportNotDue
  \/ ReadHeaderCount \/ SelectFrame \/ CopyField \/ PrintFrame
  \/ StartAverage \/ SkipDisabled \/ AddSample \/ PrintAverage
  \/ ResetWindow \/ Receive

Next == fastMeasure \/ expiryMissed \/ loop

Spec == Init /\ [][Next]_vars

-----------------------------------------------------------------------------
(* Types, and the two conditions on the constants.                         *)

Steps == {"idle", "header", "copyHeader", "select", "copyFrame", "average",
          "sum", "receive"}

Item == [kind : {"frame"}, what : Nat, count : Nat, vals : Seq(Nat)]
          \cup [kind : {"average"}, what : ChannelSet, count : Nat,
                vals : Seq(Nat)]

\* Every variable stays in its domain; a read beyond the buffer would put
\* something into readSoFar of which nothing is known.
TypeOK ==
  /\ rfSampleBufferLength \in Nat
  /\ adcSampleBuffer \in [Cells -> Sample]
  /\ rfSampleMicroseconds \in 0 .. MICROS_WRAP - 1
  /\ sinceReport \in 0 .. OUTPUT_INTERVAL + LATENCY
  /\ booleanRXKey \in BOOLEAN
  /\ pc \in Steps
  /\ selectedADC \in 1 .. Len(Channels) + 1
  /\ sampleCount \in Nat
  /\ selectedFrame \in Nat
  /\ readSoFar \in Seq(Nat)
  /\ report \in Seq(Item)

\* The longest a window can last: one interval and the latency until the
\* report is begun, and one more interval while it is being printed.
LongestWindow == 2 * OUTPUT_INTERVAL + LATENCY

\* The buffer holds the longest window ...
BufferFits == LongestWindow <= RF_BUFFER_LENGTH

\* ... and the microsecond counter does not wrap within it.
ClockFits == LongestWindow <= MICROS_WRAP

-----------------------------------------------------------------------------
(* Safety.                                                                 *)

\* The unchecked store of fastMeasure() stays inside adcSampleBuffer: the
\* samples of the window never outnumber its cells (main.cpp:133 says of
\* rfSampleBufferLength that its "maximum is buffer size").
NoOverrun == rfSampleBufferLength <= RF_BUFFER_LENGTH

\* The window is a time series: it starts at time 0 and the timestamps of
\* its samples grow, although the counter is restarted by the interrupt and
\* the length by loop().
StampsGrow ==
  \A i, j \in 0 .. rfSampleBufferLength - 1 :
    /\ adcSampleBuffer[0]["timestamp"] = 0
    /\ i < j => adcSampleBuffer[i]["timestamp"]
                  < adcSampleBuffer[j]["timestamp"]

\* The places in rfAdcList, among the first n, of the channels a report has an
\* average of: all of them, or the enabled ones in verbose mode.
Covered(n) == { i \in 1 .. n : booleanRXKey \/ Channels[i] \in Enabled }

Frames == IF booleanRXKey THEN 0 ELSE 2

\* The report has its frames and the averages of the first n channels.
HasAverages(n) ==
  /\ Len(report) = Frames + Cardinality(Covered(n))
  /\ \A i \in 1 .. Frames : report[i].kind = "frame"
  /\ \A i \in Covered(n) :
       LET item == report[Frames + Cardinality(Covered(i))]
       IN  item.kind = "average" /\ item.what = Channels[i]

Publishing == pc = "average" /\ selectedADC > Len(Channels)

\* When the window is about to be emptied, the report has, in verbose mode
\* only, its two frames, then one average of every channel it covers, in the
\* order of rfAdcList, and nothing else: a byte received meanwhile does not
\* change the mode of a report half printed.
ReportComplete == Publishing => HasAverages(Len(Channels))

-----------------------------------------------------------------------------
(* The promise to the reader of the serial port.                           *)

window == [i \in 1 .. rfSampleBufferLength |-> adcSampleBuffer[i - 1]]

Reports == INSTANCE WindowReports WITH Values <- Nat

\* Whatever the interrupt does while a report is written, its items are
\* computed from growing prefixes of one window, and no sample of it is part
\* of the next report.
Promise == Reports!Spec

-----------------------------------------------------------------------------
(* What the comments of the code say, and the code does not do.            *)

\* main.cpp:202: "Print a RFSample from the External PSRAM Buffer".  What is
\* printed is one sample of the buffer, not parts of two.
FrameIsStored ==
  \A i \in DOMAIN report : report[i].kind = "frame" =>
    \E cell \in Cells :
      report[i].vals = [f \in 1 .. Len(Fields) |->
                          adcSampleBuffer[cell][Fields[f]]]
=============================================================================
