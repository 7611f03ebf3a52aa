---------------------------- MODULE ReportProgress ----------------------------
(***************************************************************************)
(* The program of main.cpp as two actors, and whether loop() ever gets     *)
(* through a report.  The timer never stops: its interrupt, fastMeasure(), *)
(* acquires the readings of a sample (AdcFrontEnd) and stores it, every    *)
(* period, also while loop() is reading samples, and no period is too late *)
(* for another.  loop() goes on when the interrupt has returned.           *)
(* (RFSampler follows the data and assumes that loop() is never more than  *)
(* LATENCY periods late, so it cannot tell.)                               *)
(*                                                                         *)
(* Of the window only the numbers are kept: how many samples it has, and   *)
(* how many accesses loop() still has to make before it prints.            *)
(***************************************************************************)
EXTENDS AdcFrontEnd, FiniteSetsExt

CONSTANTS
  OUTPUT_INTERVAL,  \* SERIAL_OUTPUT_INTERVAL, in sampling periods
  MAX_SAMPLES,      \* bound: a window of this length may be any longer one
  MAX_LATE          \* bound: a clock at this value may have any later one

ASSUME ProgressAssumption ==
  /\ OUTPUT_INTERVAL \in Nat \ {0}
  /\ MAX_SAMPLES \in Nat \ {0}
  /\ MAX_LATE \in Nat /\ MAX_LATE > OUTPUT_INTERVAL

VARIABLES
  rfSampleBufferLength,  \* samples in the window
  sinceReport,           \* serialOutputTimer
  booleanRXKey,          \* TRUE: comma separated output, FALSE: verbose
  loopPc,                \* where loop() is (pc: where the interrupt is)
  selectedADC,           \* the channel being averaged
  left                   \* fields or samples still to be read before a print

window == <<rfSampleBufferLength, sinceReport, booleanRXKey, loopPc,
            selectedADC, left>>

StartUp ==
  /\ Init
  /\ rfSampleBufferLength = 0
  /\ sinceReport \in 0 .. MAX_LATE
  /\ booleanRXKey = TRUE
  /\ loopPc = "idle" /\ selectedADC = 1 /\ left = 0

\* An RFSample has a timestamp and a value of each channel.
FieldCount == Len(Channels) + 1

-----------------------------------------------------------------------------
(* The timer and its interrupt.                                            *)

\* A period later; a clock at its bound stands for every later time.
TimePasses == sinceReport' = Min({sinceReport + 1, MAX_LATE})

Store ==
  /\ rfSampleBufferLength' = Min({rfSampleBufferLength + 1, MAX_SAMPLES})
  /\ TimePasses
  /\ UNCHANGED <<booleanRXKey, loopPc, selectedADC>>

\* Mutant of StoreSample: calculateChannelSum() compares with the length
\* itself, so a new sample is one more to sum.
StoreSample_Chased ==
  /\ Store
  /\ left' = IF loopPc = "sum" THEN Min({left + 1, MAX_SAMPLES}) ELSE left

\* The bound of a sum was passed by value: the interrupt leaves it alone.
StoreSample == Store /\ UNCHANGED left

\* The sample is stored when the last channel has been read.
interrupt ==
  /\ fastMeasure
  /\ IF pc' = "waiting" THEN StoreSample ELSE UNCHANGED window

\* The one before is still being served.
expiryMissed ==
  /\ pc # "waiting"
  /\ TimePasses
  /\ UNCHANGED <<vars, rfSampleBufferLength, booleanRXKey, loopPc, selectedADC,
                 left>>

-----------------------------------------------------------------------------
(* loop()                                                                  *)

At(place, next) == loopPc = place /\ loopPc' = next

ReportDue ==
  /\ sinceReport >= OUTPUT_INTERVAL
  /\ At("idle", IF booleanRXKey THEN "average" ELSE "header")
  /\ sinceReport' \in IF sinceReport = MAX_LATE
                      THEN (MAX_LATE - OUTPUT_INTERVAL) .. MAX_LATE
                      ELSE {sinceReport - OUTPUT_INTERVAL}
  /\ UNCHANGED <<rfSampleBufferLength, booleanRXKey, selectedADC, left>>

ReportNotDue ==
  /\ sinceReport < OUTPUT_INTERVAL
  /\ At("idle", "receive")
  /\ UNCHANGED <<rfSampleBufferLength, sinceReport, booleanRXKey, selectedADC, left>>

\* The header reads the first sample, the frame one chosen by random().
StartFrame ==
  /\ At("header", "copyHeader") \/ At("select", "copyFrame")
  /\ left' = FieldCount
  /\ UNCHANGED <<rfSampleBufferLength, sinceReport, booleanRXKey, selectedADC>>

PrintFrame ==
  /\ left = 0
  /\ At("copyHeader", "select") \/ At("copyFrame", "average")
  /\ UNCHANGED <<rfSampleBufferLength, sinceReport, booleanRXKey, selectedADC, left>>

\* One field of a sample, or one round of calculateChannelSum().
Access ==
  /\ loopPc \in {"copyHeader", "copyFrame", "sum"} /\ left > 0
  /\ left' = left - 1
  /\ UNCHANGED <<rfSampleBufferLength, sinceReport, booleanRXKey, loopPc, selectedADC>>

Averaged == booleanRXKey \/ Channels[selectedADC] \in Enabled

StartAverage ==
  /\ selectedADC <= Len(Channels) /\ Averaged
  /\ At("average", "sum")
  /\ left' = rfSampleBufferLength
  /\ UNCHANGED <<rfSampleBufferLength, sinceReport, booleanRXKey, selectedADC>>

\* The average is printed, or this channel has none.
NextChannel ==
  /\ \/ At("sum", "average") /\ left = 0
     \/ At("average", "average") /\ selectedADC <= Len(Channels) /\ ~Averaged
  /\ selectedADC' = selectedADC + 1
  /\ UNCHANGED <<rfSampleBufferLength, sinceReport, booleanRXKey, left>>

Publishing == loopPc = "average" /\ selectedADC > Len(Channels)

ResetWindow ==
  /\ Publishing /\ loopPc' = "receive"
  /\ rfSampleBufferLength' = 0 /\ selectedADC' = 1
  /\ UNCHANGED <<sinceReport, booleanRXKey, left>>

Receive ==
  /\ At("receive", "idle")
  /\ \E incomingData \in {"none", "M", "other"} :
       booleanRXKey' = IF incomingData = "M" THEN ~booleanRXKey ELSE booleanRXKey
  /\ UNCHANGED <<rfSampleBufferLength, sinceReport, selectedADC, left>>

\* loop() runs between two interrupts.
loop ==
  /\ pc = "waiting"
  /\ \/ ReportDue \/ ReportNotDue \/ StartFrame \/ PrintFrame \/ Access
     \/ StartAverage \/ NextChannel \/ ResetWindow \/ Receive
  /\ UNCHANGED vars

Next == interrupt \/ expiryMissed \/ loop

\* The interrupt returns, and before it comes again loop() has gone on; no print
\* in loop() waits for ever.
ProgressSpec ==
  /\ StartUp /\ [][Next]_<<vars, window>>
  /\ WF_<<vars, window>>(interrupt) /\ SF_<<vars, window>>(loop)

-----------------------------------------------------------------------------
\* A report that is due is begun, and one that is begun is published, however
\* many samples arrive while it is being computed and however late it is
\* (calculateChannelSum() has a bound that was read once).
DueIsPublished ==
  LET due == sinceReport >= OUTPUT_INTERVAL
  IN  /\ due ~> due /\ loopPc = "idle"
      /\ due /\ loopPc = "idle" ~> Publishing

=============================================================================
