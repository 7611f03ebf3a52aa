-------------------------- MODULE RFSamplerProofs --------------------------
(***************************************************************************)
(* Proofs about RFSampler: its types, the timing argument that keeps the   *)
(* unchecked store of fastMeasure() inside the buffer, and that the        *)
(* firmware keeps the promise of WindowReports.                            *)
(***************************************************************************)
EXTENDS RFSampler, FiniteSetTheorems, TLAPS

\* loop() is between taking a report from the timer and emptying the window.
Reporting == pc \in {"header", "copyHeader", "select", "copyFrame",
                     "average", "sum"}

\* Every sample of the window took at least one period.
LengthBound ==
  rfSampleBufferLength <=
    sinceReport + (IF Reporting THEN OUTPUT_INTERVAL ELSE 0)

\* What loop() is about to read is a sample that exists.
ReadsInside ==
  /\ pc \in {"copyHeader", "copyFrame"} =>
       /\ Len(readSoFar) <= Len(Fields)
       /\ selectedFrame \in Cells
  /\ pc = "sum" => /\ selectedADC <= Len(Channels)
                   /\ sampleCount <= rfSampleBufferLength
                   /\ Len(readSoFar) <= sampleCount

\* The invariant behind TypeOK and NoOverrun: neither is inductive without
\* the bound of the length by the time that has passed.
IInv == TypeOK /\ LengthBound /\ ReadsInside

-----------------------------------------------------------------------------
\* The fields that are printed are fields of a sample, and so are the
\* channels, the first field being the timestamp.
LEMMA FieldsLemma ==
  /\ Fields \in Seq(FieldSet)
  /\ Len(Fields) = Len(Channels) + 1
  /\ \A i \in 1 .. Len(Channels) : Channels[i] \in FieldSet
  /\ \A i \in 1 .. Len(Channels) : Channels[i] \in ChannelSet
  /\ "timestamp" \in FieldSet
<1>1. Channels \in Seq(ChannelSet)
  BY SamplerAssumption
<1>2. Channels \in Seq(ChannelSet \cup {"timestamp"})
  BY <1>1
<1>3. Fields \in Seq(ChannelSet \cup {"timestamp"})
  BY <1>2 DEF Fields
<1>4. Len(Fields) = Len(Channels) + 1
  BY <1>2 DEF Fields
<1>5. \A i \in 1 .. Len(Channels) : Channels[i] = Fields[i + 1]
  BY <1>2 DEF Fields
<1>6. \A i \in 1 .. Len(Fields) : Fields[i] \in FieldSet
  BY DEF FieldSet
<1>7. Fields \in Seq(FieldSet)
  BY <1>3, <1>6
<1>8. \A i \in 1 .. Len(Channels) : Channels[i] \in FieldSet
  BY <1>1, <1>4, <1>5, <1>6
<1>9. \A i \in 1 .. Len(Channels) : Channels[i] \in ChannelSet
  BY <1>1
<1>10. Fields[1] = "timestamp"
  BY <1>2 DEF Fields
<1>11. "timestamp" \in FieldSet
  BY <1>1, <1>4, <1>6, <1>10
<1> QED
  BY <1>4, <1>7, <1>8, <1>9, <1>11

\* The window never outlasts the longest window.
LEMMA WindowLemma ==
  ASSUME IInv, BufferFits
  PROVE  NoOverrun
BY SamplerAssumption
   DEF IInv, TypeOK, LengthBound, BufferFits, LongestWindow, NoOverrun

LEMMA InitIInv == Init => IInv
<1> SUFFICES ASSUME Init
             PROVE  IInv
  OBVIOUS
<1> USE SamplerAssumption DEF Init
<1>1. InvalidSample \in Sample
  BY DEF InvalidSample, Sample
<1>2. Len(Channels) \in Nat
  BY FieldsLemma
<1>3. TypeOK
  BY <1>1, <1>2 DEF TypeOK, Steps
<1>4. LengthBound
  BY DEF LengthBound, Reporting
<1>5. ReadsInside
  BY DEF ReadsInside
<1> QED
  BY <1>3, <1>4, <1>5 DEF IInv

\* One step per action: the inductive invariant is kept.
LEMMA NextIInv ==
  ASSUME IInv, BufferFits, [Next]_vars
  PROVE  IInv'
<1> USE SamplerAssumption, FieldsLemma
<1>0. NoOverrun
  BY WindowLemma
<1>1. CASE UNCHANGED vars
  BY <1>1 DEF IInv, TypeOK, LengthBound, ReadsInside, Reporting, vars, shared,
              clocks, locals
<1>2. CASE fastMeasure
  <2>1. PICK reading \in [Enabled -> Readings] :
          adcSampleBuffer' =
            [adcSampleBuffer EXCEPT ![rfSampleBufferLength] =
              [f \in FieldSet |->
                 IF f = "timestamp" THEN rfSampleMicroseconds'
                 ELSE IF f \in Enabled THEN reading[f] ELSE 0]]
    BY <1>2 DEF fastMeasure, StoreSample
  <2>2. rfSampleMicroseconds' \in 0 .. MICROS_WRAP - 1
    BY <1>2 DEF fastMeasure, StoreSample, IInv, TypeOK
  <2>3. [f \in FieldSet |->
           IF f = "timestamp" THEN rfSampleMicroseconds'
           ELSE IF f \in Enabled THEN reading[f] ELSE 0] \in Sample
    <3>1. rfSampleMicroseconds' \in Nat
      BY <2>2
    <3>2. \A f \in Enabled : reading[f] \in Nat
      OBVIOUS
    <3> QED
      BY <3>1, <3>2 DEF Sample
  <2>4. adcSampleBuffer' \in [Cells -> Sample]
    BY <2>1, <2>3 DEF IInv, TypeOK
  <2>5. TypeOK'
    BY <1>2, <2>2, <2>4
       DEF fastMeasure, StoreSample, TimeMayPass, IInv, TypeOK, locals
  <2>6. LengthBound'
    BY <1>2 DEF fastMeasure, StoreSample, IInv, TypeOK, LengthBound,
                Reporting, locals
  <2>7. ReadsInside'
    BY <1>2 DEF fastMeasure, StoreSample, IInv, TypeOK, ReadsInside, locals
  <2> QED
    BY <2>5, <2>6, <2>7 DEF IInv
<1>3. CASE expiryMissed
  BY <1>3 DEF expiryMissed, TimeMayPass, IInv, TypeOK, LengthBound,
              ReadsInside, Reporting, shared, locals
<1>4. CASE ReportDue
  BY <1>4 DEF ReportDue, IInv, TypeOK, LengthBound, ReadsInside, Reporting,
              Steps, shared, locals
<1>5. CASE ReportNotDue
  BY <1>5 DEF ReportNotDue, IInv, TypeOK, LengthBound, ReadsInside, Reporting,
              Steps, shared, clocks, locals
<1>6. CASE ReadHeaderCount
  BY <1>6 DEF ReadHeaderCount, IInv, TypeOK, LengthBound, ReadsInside,
              Reporting, Steps, Cells, shared, clocks
<1>7. CASE SelectFrame
  BY <1>0, <1>7 DEF SelectFrame, IInv, TypeOK, LengthBound, ReadsInside,
              Reporting, Steps, Cells, NoOverrun, shared, clocks
<1>8. CASE CopyField
  <2>1. Fields[Len(readSoFar) + 1] \in FieldSet
    BY <1>8 DEF CopyField, IInv, TypeOK
  <2>2. adcSampleBuffer[selectedFrame][Fields[Len(readSoFar) + 1]] \in Nat
    BY <1>8, <2>1 DEF CopyField, IInv, TypeOK, ReadsInside, Sample
  <2> QED
    BY <1>8, <2>2 DEF CopyField, IInv, TypeOK, LengthBound, ReadsInside,
              Reporting, shared, clocks
<1>9. CASE PrintFrame
  <2>1. [kind |-> "frame", what |-> selectedFrame, count |-> sampleCount,
         vals |-> readSoFar] \in Item
    BY DEF IInv, TypeOK, Item
  <2> QED
    BY <1>9, <2>1 DEF PrintFrame, IInv, TypeOK, LengthBound, ReadsInside,
              Reporting, Steps, shared, clocks, locals
<1>10. CASE StartAverage
  BY <1>10 DEF StartAverage, IInv, TypeOK, LengthBound, ReadsInside,
              Reporting, Steps, shared, clocks
<1>11. CASE SkipDisabled
  BY <1>11 DEF SkipDisabled, IInv, TypeOK, LengthBound, ReadsInside,
              Reporting, shared, clocks
<1>12. CASE AddSample
  <2>1. Len(readSoFar) \in Cells
    BY <1>0, <1>12 DEF AddSample, IInv, TypeOK, ReadsInside, NoOverrun, Cells
  <2>2. Channels[selectedADC] \in FieldSet
    BY <1>12 DEF AddSample, IInv, TypeOK, ReadsInside
  <2>3. adcSampleBuffer[Len(readSoFar)][Channels[selectedADC]] \in Nat
    BY <2>1, <2>2 DEF IInv, TypeOK, Sample
  <2> QED
    BY <1>12, <2>3 DEF AddSample, IInv, TypeOK, LengthBound, ReadsInside,
              Reporting, shared, clocks
<1>13. CASE PrintAverage
  <2>1. [kind |-> "average", what |-> Channels[selectedADC],
         count |-> sampleCount, vals |-> readSoFar] \in Item
    BY <1>13 DEF PrintAverage, IInv, TypeOK, ReadsInside, Item
  <2> QED
    BY <1>13, <2>1 DEF PrintAverage, IInv, TypeOK, LengthBound, ReadsInside,
              Reporting, Steps, shared, clocks
<1>14. CASE ResetWindow
  BY <1>14 DEF ResetWindow, IInv, TypeOK, LengthBound, ReadsInside,
              Reporting, Steps, clocks
<1>15. CASE Receive
  BY <1>15 DEF Receive, IInv, TypeOK, LengthBound, ReadsInside, Reporting,
              Steps, shared, clocks, locals
<1> QED
  BY <1>1, <1>2, <1>3, <1>4, <1>5, <1>6, <1>7, <1>8, <1>9, <1>10, <1>11,
     <1>12, <1>13, <1>14, <1>15 DEF Next, loop

\* Spec keeps the invariant when the buffer holds the longest window.
LEMMA SpecIInv == ASSUME BufferFits PROVE Spec => []IInv
BY InitIInv, NextIInv, PTL DEF Spec

\* Type correctness: no variable leaves its domain, and loop() reads no cell
\* beyond the end of adcSampleBuffer.
THEOREM TypeCorrect == ASSUME BufferFits PROVE Spec => []TypeOK
<1>1. IInv => TypeOK
  BY DEF IInv
<1> QED
  BY <1>1, SpecIInv, PTL

\* The interrupt never writes beyond the end of adcSampleBuffer, for every
\* interval, latency and buffer with 2 * OUTPUT_INTERVAL + LATENCY cells or
\* more (the firmware's 250002 cells and 50000 periods leave loop() 150002
\* periods, three quarters of a second).
THEOREM BufferNeverOverrun == ASSUME BufferFits PROVE Spec => []NoOverrun
<1>1. IInv => NoOverrun
  BY WindowLemma
<1> QED
  BY <1>1, SpecIInv, PTL

-----------------------------------------------------------------------------
(* The timestamps of a window.                                             *)

\* Since the first sample of the window the microsecond counter has run no
\* longer than the report timer.
ClockBound ==
  rfSampleBufferLength > 0 =>
    rfSampleMicroseconds + 1 <=
      sinceReport + (IF Reporting THEN OUTPUT_INTERVAL ELSE 0)

\* The counter is not behind the timestamps it has given.
StampsPast ==
  \A i \in 0 .. rfSampleBufferLength - 1 :
    adcSampleBuffer[i]["timestamp"] <= rfSampleMicroseconds

SInv == ClockBound /\ StampsPast /\ StampsGrow

LEMMA ModLemma == \A m \in Nat \ {0}, n \in Nat : n < m => n % m = n
  OBVIOUS

\* As long as time may pass, the counter is not about to wrap.
LEMMA NoWrap ==
  ASSUME IInv, ClockBound, ClockFits, TimeMayPass, rfSampleBufferLength > 0
  PROVE  (rfSampleMicroseconds + 1) % MICROS_WRAP = rfSampleMicroseconds + 1
<1> USE SamplerAssumption
<1>1. sinceReport + 1 + OUTPUT_INTERVAL <= MICROS_WRAP
  BY DEF IInv, TypeOK, TimeMayPass, ClockFits, LongestWindow
<1>2. rfSampleMicroseconds + 1 \in Nat /\ rfSampleMicroseconds + 1 < MICROS_WRAP
  BY <1>1 DEF IInv, TypeOK, ClockBound
<1> QED
  BY <1>2, ModLemma

\* What a sample that is taken adds to the window.
LEMMA NewSample ==
  ASSUME IInv, IInv', BufferFits, fastMeasure
  PROVE  /\ rfSampleBufferLength \in Cells
         /\ adcSampleBuffer'[rfSampleBufferLength] \in Sample
         /\ adcSampleBuffer'[rfSampleBufferLength]["timestamp"]
              = rfSampleMicroseconds'
         /\ \A i \in Cells : i # rfSampleBufferLength =>
              adcSampleBuffer'[i] = adcSampleBuffer[i]
<1> USE SamplerAssumption
<1>1. rfSampleBufferLength < LongestWindow
  BY DEF fastMeasure, StoreSample, TimeMayPass, IInv, TypeOK, LengthBound,
         LongestWindow
<1>2. rfSampleBufferLength \in Cells
  BY <1>1 DEF BufferFits, LongestWindow, IInv, TypeOK, Cells
<1>3. adcSampleBuffer' \in [Cells -> Sample]
  BY DEF IInv, TypeOK
<1>4. "timestamp" \in FieldSet
  BY FieldsLemma
<1>5. adcSampleBuffer'[rfSampleBufferLength]["timestamp"]
        = rfSampleMicroseconds'
  BY <1>2, <1>4 DEF fastMeasure, StoreSample, IInv, TypeOK
<1>6. \A i \in Cells : i # rfSampleBufferLength =>
        adcSampleBuffer'[i] = adcSampleBuffer[i]
  BY DEF fastMeasure, StoreSample, IInv, TypeOK
<1> QED
  BY <1>2, <1>3, <1>5, <1>6

LEMMA NextSInv ==
  ASSUME IInv, IInv', SInv, BufferFits, ClockFits, [Next]_vars
  PROVE  SInv'
<1> USE SamplerAssumption
<1>1. CASE fastMeasure
  <2>1. /\ rfSampleBufferLength \in Cells
        /\ adcSampleBuffer'[rfSampleBufferLength]["timestamp"]
             = rfSampleMicroseconds'
        /\ \A i \in 0 .. rfSampleBufferLength - 1 :
             adcSampleBuffer'[i] = adcSampleBuffer[i]
    BY <1>1, NewSample DEF Cells
  <2>2. rfSampleMicroseconds' =
          IF rfSampleBufferLength = 0 THEN 0 ELSE rfSampleMicroseconds + 1
    BY <1>1, NoWrap DEF fastMeasure, StoreSample, IInv, TypeOK, SInv
  <2>3. ClockBound'
    BY <1>1, <2>2 DEF fastMeasure, StoreSample, IInv, TypeOK, SInv,
                      ClockBound, Reporting
  <2>4. \A i \in 0 .. rfSampleBufferLength - 1 :
          adcSampleBuffer'[i]["timestamp"] < rfSampleMicroseconds'
    <3> SUFFICES ASSUME NEW i \in 0 .. rfSampleBufferLength - 1
                 PROVE  adcSampleBuffer'[i]["timestamp"]
                          < rfSampleMicroseconds'
      OBVIOUS
    <3>1. adcSampleBuffer[i]["timestamp"] \in Nat
      BY <2>1, FieldsLemma DEF IInv, TypeOK, Cells, Sample
    <3>2. rfSampleBufferLength # 0 /\ rfSampleMicroseconds \in Nat
      BY DEF IInv, TypeOK
    <3> QED
      BY <2>1, <2>2, <3>1, <3>2 DEF SInv, StampsPast
  <2>5. rfSampleBufferLength' = rfSampleBufferLength + 1
        /\ rfSampleBufferLength \in Nat
    BY <1>1 DEF fastMeasure, StoreSample, IInv, TypeOK
  <2>6. StampsPast'
    <3> SUFFICES ASSUME NEW i \in 0 .. rfSampleBufferLength
                 PROVE  adcSampleBuffer'[i]["timestamp"]
                          <= rfSampleMicroseconds'
      BY <2>5 DEF StampsPast
    <3>1. rfSampleMicroseconds' \in Nat
      BY DEF IInv, TypeOK
    <3>2. CASE i = rfSampleBufferLength
      BY <2>1, <3>1, <3>2
    <3>3. CASE i \in 0 .. rfSampleBufferLength - 1
      <4>1. adcSampleBuffer[i]["timestamp"] \in Nat
        BY <2>1, <3>3, FieldsLemma DEF IInv, TypeOK, Cells, Sample
      <4> QED
        BY <2>1, <2>4, <3>1, <3>3, <4>1
    <3> QED
      BY <2>5, <3>2, <3>3
  <2>7. StampsGrow'
    <3> SUFFICES ASSUME NEW i \in 0 .. rfSampleBufferLength,
                        NEW j \in 0 .. rfSampleBufferLength
                 PROVE  /\ adcSampleBuffer'[0]["timestamp"] = 0
                        /\ i < j => adcSampleBuffer'[i]["timestamp"]
                                      < adcSampleBuffer'[j]["timestamp"]
      BY <2>5 DEF StampsGrow
    <3>1. adcSampleBuffer'[0]["timestamp"] = 0
      <4>1. CASE rfSampleBufferLength = 0
        BY <2>1, <2>2, <4>1
      <4>2. CASE rfSampleBufferLength # 0
        <5>1. 0 \in 0 .. rfSampleBufferLength - 1
          BY <2>5, <4>2
        <5> QED
          BY <2>1, <5>1 DEF SInv, StampsGrow
      <4> QED
        BY <4>1, <4>2
    <3>2. ASSUME i < j
          PROVE  adcSampleBuffer'[i]["timestamp"]
                   < adcSampleBuffer'[j]["timestamp"]
      <4>1. i \in 0 .. rfSampleBufferLength - 1
        BY <2>5, <3>2
      <4>2. CASE j = rfSampleBufferLength
        BY <2>1, <2>4, <4>1, <4>2
      <4>3. CASE j \in 0 .. rfSampleBufferLength - 1
        BY <2>1, <3>2, <4>1, <4>3 DEF SInv, StampsGrow
      <4> QED
        BY <2>5, <4>2, <4>3
    <3> QED
      BY <3>1, <3>2
  <2> QED
    BY <2>3, <2>6, <2>7 DEF SInv
<1>2. CASE expiryMissed
  <2>1. rfSampleBufferLength > 0 =>
          rfSampleMicroseconds' = rfSampleMicroseconds + 1
    BY <1>2, NoWrap DEF expiryMissed, SInv
  <2>2. UNCHANGED <<rfSampleBufferLength, adcSampleBuffer, pc>>
    BY <1>2 DEF expiryMissed, shared
  <2>3. ClockBound'
    BY <1>2, <2>1, <2>2 DEF expiryMissed, IInv, TypeOK, SInv, ClockBound,
                            Reporting
  <2>4. StampsPast'
    <3> SUFFICES ASSUME NEW i \in 0 .. rfSampleBufferLength - 1
                 PROVE  adcSampleBuffer[i]["timestamp"]
                          <= rfSampleMicroseconds'
      BY <2>2 DEF StampsPast
    <3>1. adcSampleBuffer[i]["timestamp"] \in Nat
      <4>1. i \in Cells
        BY WindowLemma DEF NoOverrun, IInv, TypeOK, Cells
      <4> QED
        BY <4>1, FieldsLemma DEF IInv, TypeOK, Sample
    <3>2. rfSampleBufferLength > 0 /\ rfSampleMicroseconds \in Nat
      BY DEF IInv, TypeOK
    <3> QED
      BY <2>1, <3>1, <3>2 DEF SInv, StampsPast
  <2>5. StampsGrow'
    BY <2>2 DEF SInv, StampsGrow
  <2> QED
    BY <2>3, <2>4, <2>5 DEF SInv
<1>3. CASE ResetWindow
  <2>1. rfSampleBufferLength' = 0
    BY <1>3 DEF ResetWindow
  <2> QED
    BY <2>1 DEF SInv, ClockBound, StampsPast, StampsGrow
<1>4. CASE ReportDue
  BY <1>4 DEF ReportDue, IInv, TypeOK, SInv, ClockBound, StampsPast,
              StampsGrow, Reporting, shared
<1>5. CASE /\ UNCHANGED <<shared, clocks>>
           /\ Reporting' = Reporting
  BY <1>5 DEF SInv, ClockBound, StampsPast, StampsGrow, shared, clocks
<1> QED
  BY <1>1, <1>2, <1>3, <1>4, <1>5
     DEF Next, loop, vars, Reporting, ReportNotDue, ReadHeaderCount,
         SelectFrame, CopyField, PrintFrame, StartAverage, SkipDisabled,
         AddSample, PrintAverage, Receive

\* The timestamps of a window start at 0 and grow, whenever the interrupt
\* and the reset of the length fall: the microsecond counter is restarted by
\* the first sample of a window, and cannot wrap before the window ends.
THEOREM StampsAlwaysGrow ==
  ASSUME BufferFits, ClockFits
  PROVE  Spec => []StampsGrow
<1>1. Init => SInv
  BY SamplerAssumption
     DEF Init, SInv, ClockBound, StampsPast, StampsGrow
<1>2. IInv /\ IInv' /\ SInv /\ [Next]_vars => SInv'
  BY NextSInv
<1>3. SInv => StampsGrow
  BY DEF SInv
<1> QED
  BY <1>1, <1>2, <1>3, SpecIInv, PTL DEF Spec

-----------------------------------------------------------------------------
(* The promise of WindowReports.                                           *)

\* The counts of the items printed so far do not exceed the count of the
\* item being prepared, nor that the length; what has been read for it is
\* what the window holds.
ReportBound ==
  /\ Reports!LastCount <= rfSampleBufferLength
  /\ pc \in {"copyHeader", "copyFrame", "sum"} =>
       /\ Reports!LastCount <= sampleCount
       /\ sampleCount <= rfSampleBufferLength

FrameRead ==
  pc \in {"copyHeader", "copyFrame"} /\ sampleCount > 0 =>
    /\ selectedFrame < sampleCount
    /\ \A f \in 1 .. Len(readSoFar) :
         readSoFar[f] = adcSampleBuffer[selectedFrame][Fields[f]]

ReadingsRead ==
  pc = "sum" =>
    \A k \in 1 .. Len(readSoFar) :
      readSoFar[k] = adcSampleBuffer[k - 1][Channels[selectedADC]]

RInv == ReportBound /\ FrameRead /\ ReadingsRead

\* Printing an item makes its count the last one; emptying the report makes
\* the last count 0.
LEMMA LastCountLemma ==
  ASSUME TypeOK
  PROVE  /\ Reports!LastCount \in Nat
         /\ \A item \in Item :
              report' = Append(report, item) => Reports!LastCount' = item.count
         /\ report' = <<>> => Reports!LastCount' = 0
<1>1. Reports!LastCount \in Nat
  BY DEF TypeOK, Item, Reports!LastCount
<1>2. ASSUME NEW item \in Item, report' = Append(report, item)
      PROVE  Reports!LastCount' = item.count
  <2>1. report \in Seq(Item)
    BY DEF TypeOK
  <2>2. report' # <<>> /\ report'[Len(report')] = item
    BY <1>2, <2>1
  <2> QED
    BY <2>2 DEF Reports!LastCount
<1>3. ASSUME report' = <<>>
      PROVE  Reports!LastCount' = 0
  BY <1>3 DEF Reports!LastCount
<1> QED
  BY <1>1, <1>2, <1>3

LEMMA InitRInv == Init => RInv
  BY DEF Init, RInv, ReportBound, FrameRead, ReadingsRead, Reports!LastCount

LEMMA NextRInv ==
  ASSUME IInv, IInv', RInv, BufferFits, [Next]_vars
  PROVE  RInv'
<1> USE SamplerAssumption
<1>0. /\ TypeOK
      /\ rfSampleBufferLength \in Nat
      /\ sampleCount \in Nat
      /\ Reports!LastCount \in Nat
      /\ readSoFar \in Seq(Nat)
  BY LastCountLemma DEF IInv, TypeOK
<1>1. CASE fastMeasure
  <2>1. \A i \in 0 .. rfSampleBufferLength - 1 :
          adcSampleBuffer'[i] = adcSampleBuffer[i]
    BY <1>1, NewSample DEF Cells
  <2>2. /\ rfSampleBufferLength' = rfSampleBufferLength + 1
        /\ UNCHANGED <<pc, selectedADC, sampleCount, selectedFrame, readSoFar,
                       report>>
    BY <1>1 DEF fastMeasure, StoreSample, locals
  <2>3. Reports!LastCount' = Reports!LastCount
    BY <2>2 DEF Reports!LastCount
  <2>4. ReportBound'
    BY <1>0, <2>2, <2>3 DEF RInv, ReportBound
  <2>5. FrameRead'
    <3> SUFFICES ASSUME pc \in {"copyHeader", "copyFrame"}, sampleCount > 0
                 PROVE  /\ selectedFrame < sampleCount
                        /\ \A f \in 1 .. Len(readSoFar) :
                             readSoFar[f] =
                               adcSampleBuffer'[selectedFrame][Fields[f]]
      BY <2>2 DEF FrameRead
    <3>1. selectedFrame \in 0 .. rfSampleBufferLength - 1
      BY <1>0 DEF RInv, FrameRead, ReportBound, TypeOK
    <3> QED
      BY <2>1, <3>1 DEF RInv, FrameRead
  <2>6. ReadingsRead'
    <3> SUFFICES ASSUME pc = "sum", NEW k \in 1 .. Len(readSoFar)
                 PROVE  readSoFar[k] =
                          adcSampleBuffer'[k - 1][Channels[selectedADC]]
      BY <2>2 DEF ReadingsRead
    <3>1. k - 1 \in 0 .. rfSampleBufferLength - 1
      BY <1>0 DEF IInv, ReadsInside
    <3> QED
      BY <2>1, <3>1 DEF RInv, ReadingsRead
  <2> QED
    BY <2>4, <2>5, <2>6 DEF RInv
<1>2. CASE /\ UNCHANGED <<shared, locals, report>>
           /\ \/ pc' = pc
              \/ pc' \notin {"copyHeader", "copyFrame", "sum"}
  BY <1>2 DEF RInv, ReportBound, FrameRead, ReadingsRead, Reports!LastCount,
              shared, locals
<1>3. CASE ReadHeaderCount
  BY <1>0, <1>3 DEF ReadHeaderCount, RInv, ReportBound, FrameRead, ReadingsRead,
              Reports!LastCount, shared
<1>4. CASE SelectFrame
  BY <1>0, <1>4 DEF SelectFrame, RInv, ReportBound, FrameRead, ReadingsRead,
              Reports!LastCount, shared
<1>5. CASE CopyField
  <2>1. UNCHANGED <<shared, pc, selectedADC, sampleCount, selectedFrame,
                    report>>
    BY <1>5 DEF CopyField
  <2>2. readSoFar' = Append(readSoFar,
          adcSampleBuffer[selectedFrame][Fields[Len(readSoFar) + 1]])
    BY <1>5 DEF CopyField
  <2>3. pc \in {"copyHeader", "copyFrame"}
    BY <1>5 DEF CopyField
  <2>4. Reports!LastCount' = Reports!LastCount
    BY <2>1 DEF Reports!LastCount
  <2>5. ReportBound' /\ ReadingsRead'
    BY <2>1, <2>3, <2>4 DEF RInv, ReportBound, ReadingsRead, shared
  <2>6. FrameRead'
    <3> SUFFICES ASSUME sampleCount > 0
                 PROVE  /\ selectedFrame < sampleCount
                        /\ \A f \in 1 .. Len(readSoFar') :
                             readSoFar'[f] =
                               adcSampleBuffer[selectedFrame][Fields[f]]
      BY <2>1 DEF FrameRead, shared
    <3>1. /\ selectedFrame < sampleCount
          /\ \A f \in 1 .. Len(readSoFar) :
               readSoFar[f] = adcSampleBuffer[selectedFrame][Fields[f]]
      BY <2>3 DEF RInv, FrameRead
    <3>2. /\ Len(readSoFar') = Len(readSoFar) + 1
          /\ \A f \in 1 .. Len(readSoFar) : readSoFar'[f] = readSoFar[f]
          /\ readSoFar'[Len(readSoFar) + 1] =
               adcSampleBuffer[selectedFrame][Fields[Len(readSoFar) + 1]]
      BY <1>0, <2>2
    <3> QED
      BY <1>0, <3>1, <3>2
  <2> QED
    BY <2>5, <2>6 DEF RInv
<1>6. CASE PrintFrame
  <2>1. [kind |-> "frame", what |-> selectedFrame, count |-> sampleCount,
         vals |-> readSoFar] \in Item
    BY DEF IInv, TypeOK, Item
  <2>2. Reports!LastCount' = sampleCount
    BY <1>0, <1>6, <2>1, LastCountLemma DEF PrintFrame
  <2> QED
    BY <1>0, <1>6, <2>2 DEF PrintFrame, RInv, ReportBound, FrameRead,
              ReadingsRead, shared, locals
<1>7. CASE StartAverage
  BY <1>0, <1>7 DEF StartAverage, RInv, ReportBound, FrameRead, ReadingsRead,
              Reports!LastCount, shared
<1>8. CASE SkipDisabled
  BY <1>0, <1>8 DEF SkipDisabled, RInv, ReportBound, FrameRead, ReadingsRead,
              Reports!LastCount, shared
<1>9. CASE AddSample
  <2>1. UNCHANGED <<shared, pc, selectedADC, sampleCount, selectedFrame,
                    report>>
    BY <1>9 DEF AddSample
  <2>2. readSoFar' = Append(readSoFar,
          adcSampleBuffer[Len(readSoFar)][Channels[selectedADC]])
    BY <1>9 DEF AddSample
  <2>3. pc = "sum"
    BY <1>9 DEF AddSample
  <2>4. Reports!LastCount' = Reports!LastCount
    BY <2>1 DEF Reports!LastCount
  <2>5. ReportBound' /\ FrameRead'
    BY <2>1, <2>3, <2>4 DEF RInv, ReportBound, FrameRead, shared
  <2>6. ReadingsRead'
    <3> SUFFICES ASSUME NEW k \in 1 .. Len(readSoFar')
                 PROVE  readSoFar'[k] =
                          adcSampleBuffer[k - 1][Channels[selectedADC]]
      BY <2>1 DEF ReadingsRead, shared
    <3>1. /\ Len(readSoFar') = Len(readSoFar) + 1
          /\ \A f \in 1 .. Len(readSoFar) : readSoFar'[f] = readSoFar[f]
          /\ readSoFar'[Len(readSoFar) + 1] =
               adcSampleBuffer[Len(readSoFar)][Channels[selectedADC]]
      BY <1>0, <2>2
    <3>2. Len(readSoFar) \in Nat
      BY <1>0
    <3>3. CASE k = Len(readSoFar) + 1
      BY <3>1, <3>2, <3>3
    <3>4. CASE k \in 1 .. Len(readSoFar)
      BY <2>3, <3>1, <3>4 DEF RInv, ReadingsRead
    <3> QED
      BY <3>1, <3>2, <3>3, <3>4
  <2> QED
    BY <2>5, <2>6 DEF RInv
<1>10. CASE PrintAverage
  <2>1. [kind |-> "average", what |-> Channels[selectedADC],
         count |-> sampleCount, vals |-> readSoFar] \in Item
    BY <1>10, FieldsLemma DEF PrintAverage, IInv, TypeOK, ReadsInside, Item
  <2>2. Reports!LastCount' = sampleCount
    BY <1>0, <1>10, <2>1, LastCountLemma DEF PrintAverage
  <2> QED
    BY <1>0, <1>10, <2>2 DEF PrintAverage, RInv, ReportBound, FrameRead,
              ReadingsRead, shared
<1>11. CASE ResetWindow
  <2>1. Reports!LastCount' = 0
    BY <1>0, <1>11, LastCountLemma DEF ResetWindow
  <2> QED
    BY <1>11, <2>1 DEF ResetWindow, RInv, ReportBound, FrameRead, ReadingsRead
<1> QED
  BY <1>1, <1>2, <1>3, <1>4, <1>5, <1>6, <1>7, <1>8, <1>9, <1>10, <1>11
     DEF Next, loop, vars, expiryMissed, ReportDue, ReportNotDue, Receive

\* The fields of a sample are those of the abstract specification.
LEMMA FieldSetLemma == Reports!FieldSet = FieldSet /\ Reports!Sample = Sample
  BY DEF Reports!FieldSet, FieldSet, Reports!Sample, Sample

LEMMA WindowSeq ==
  ASSUME IInv, BufferFits
  PROVE  /\ window \in Seq(Sample)
         /\ Len(window) = rfSampleBufferLength
         /\ \A i \in 1 .. Len(window) : window[i] = adcSampleBuffer[i - 1]
<1>1. rfSampleBufferLength \in Nat
  BY DEF IInv, TypeOK
<1>2. \A i \in 1 .. rfSampleBufferLength : adcSampleBuffer[i - 1] \in Sample
  BY <1>1, WindowLemma, SamplerAssumption
     DEF NoOverrun, IInv, TypeOK, Cells
<1> QED
  BY <1>1, <1>2 DEF window

\* Taking a sample is Acquire.
LEMMA FastMeasureAcquires ==
  ASSUME IInv, IInv', BufferFits, fastMeasure
  PROVE  Reports!Acquire
<1> USE SamplerAssumption
<1>1. /\ rfSampleBufferLength \in Nat
      /\ rfSampleBufferLength' = rfSampleBufferLength + 1
  BY DEF IInv, TypeOK, fastMeasure, StoreSample
<1>2. /\ window' = [i \in 1 .. rfSampleBufferLength + 1 |->
                      adcSampleBuffer'[i - 1]]
      /\ window = [i \in 1 .. rfSampleBufferLength |-> adcSampleBuffer[i - 1]]
  BY <1>1 DEF window
<1>3. /\ adcSampleBuffer'[rfSampleBufferLength] \in Sample
      /\ \A i \in 0 .. rfSampleBufferLength - 1 :
           adcSampleBuffer'[i] = adcSampleBuffer[i]
  BY <1>1, NewSample DEF Cells
<1>4. /\ window \in Seq(Sample)
      /\ Len(window) = rfSampleBufferLength
  BY WindowSeq
<1>5. /\ window' \in Seq(Sample)
      /\ Len(window') = rfSampleBufferLength + 1
      /\ \A i \in 1 .. rfSampleBufferLength : window'[i] = window[i]
      /\ window'[rfSampleBufferLength + 1] \in Sample
  <2>1. \A i \in 1 .. rfSampleBufferLength :
          adcSampleBuffer'[i - 1] = adcSampleBuffer[i - 1]
    BY <1>1, <1>3
  <2>2. \A i \in 1 .. rfSampleBufferLength : adcSampleBuffer[i - 1] \in Sample
    BY <1>1, WindowLemma DEF NoOverrun, IInv, TypeOK, Cells
  <2>3. \A i \in 1 .. rfSampleBufferLength + 1 :
          adcSampleBuffer'[i - 1] \in Sample
    BY <1>1, <1>3, <2>1, <2>2
  <2> QED
    BY <1>1, <1>2, <1>3, <2>1, <2>3
<1>6. SubSeq(window', 1, Len(window)) = window
  BY <1>1, <1>4, <1>5
<1>7. UNCHANGED report
  BY DEF fastMeasure, StoreSample
<1> QED
  BY <1>4, <1>5, <1>6, <1>7, FieldSetLemma
     DEF Reports!Acquire, Reports!Grown

\* Printing a frame is ReportFrame(sampleCount).
LEMMA PrintFrameReports ==
  ASSUME IInv, RInv, BufferFits, PrintFrame
  PROVE  Reports!ReportFrame(sampleCount)
<1> DEFINE frame == [kind |-> "frame", what |-> selectedFrame,
                     count |-> sampleCount, vals |-> readSoFar]
<1>1. /\ report \in Seq(Item)
      /\ report' = Append(report, frame)
      /\ frame \in Item
      /\ sampleCount \in Nat /\ selectedFrame \in Nat
      /\ readSoFar \in Seq(Nat)
      /\ Len(readSoFar) = Len(Fields)
      /\ UNCHANGED <<rfSampleBufferLength, adcSampleBuffer>>
  BY DEF PrintFrame, IInv, TypeOK, Item, shared
<1>2. Len(report') = Len(report) + 1 /\ report'[Len(report')] = frame
  BY <1>1
<1>3. SubSeq(report', 1, Len(report)) = report
  BY <1>1
<1>4. window' = window
  BY <1>1 DEF window
<1>5. ASSUME sampleCount > 0
      PROVE  /\ selectedFrame < sampleCount
             /\ readSoFar = Reports!Shown(selectedFrame)
  <2>1. /\ selectedFrame < sampleCount
        /\ sampleCount <= rfSampleBufferLength
        /\ \A f \in 1 .. Len(readSoFar) :
             readSoFar[f] = adcSampleBuffer[selectedFrame][Fields[f]]
    BY <1>5 DEF PrintFrame, RInv, FrameRead, ReportBound
  <2>2. window[selectedFrame + 1] = adcSampleBuffer[selectedFrame]
    BY <1>1, <2>1 DEF window, IInv, TypeOK
  <2>3. Len(Fields) \in Nat
    BY FieldsLemma
  <2> QED
    BY <1>1, <2>1, <2>2, <2>3 DEF Reports!Shown
<1> QED
  BY <1>2, <1>3, <1>4, <1>5 DEF Reports!ReportFrame, Reports!Grown

\* Printing an average is ReportAverage(channel, sampleCount).
LEMMA PrintAverageReports ==
  ASSUME IInv, RInv, BufferFits, PrintAverage
  PROVE  Reports!ReportAverage(Channels[selectedADC], sampleCount)
<1>1. /\ sampleCount \in Nat /\ rfSampleBufferLength \in Nat
      /\ sampleCount <= rfSampleBufferLength
      /\ readSoFar \in Seq(Nat)
      /\ Len(readSoFar) = sampleCount
      /\ \A k \in 1 .. Len(readSoFar) :
           readSoFar[k] = adcSampleBuffer[k - 1][Channels[selectedADC]]
  BY DEF PrintAverage, IInv, TypeOK, RInv, ReportBound, ReadingsRead
<1>2. \A k \in 1 .. sampleCount : window[k] = adcSampleBuffer[k - 1]
  BY <1>1 DEF window
<1>3. readSoFar = Reports!Prefix(Channels[selectedADC], sampleCount)
  <2>1. readSoFar = [k \in 1 .. sampleCount |-> readSoFar[k]]
    BY <1>1
  <2>2. \A k \in 1 .. sampleCount :
          readSoFar[k] = window[k][Channels[selectedADC]]
    BY <1>1, <1>2
  <2> QED
    BY <2>1, <2>2 DEF Reports!Prefix
<1>4. window' = window
  BY DEF PrintAverage, shared, window
<1> QED
  BY <1>3, <1>4 DEF PrintAverage, Reports!ReportAverage

\* An item that is printed has an admissible count.
LEMMA CountAdmissible ==
  ASSUME IInv, RInv, BufferFits, pc \in {"copyHeader", "copyFrame", "sum"}
  PROVE  sampleCount \in Reports!LastCount .. Len(window)
  BY WindowSeq, LastCountLemma DEF IInv, TypeOK, RInv, ReportBound

LEMMA StepSimulates ==
  ASSUME IInv, IInv', RInv, BufferFits, [Next]_vars
  PROVE  [Reports!Next]_Reports!absVars
<1>1. CASE fastMeasure
  BY <1>1, FastMeasureAcquires DEF Reports!Next
<1>2. CASE PrintFrame
  BY <1>2, PrintFrameReports, CountAdmissible DEF PrintFrame, Reports!Next
<1>3. CASE PrintAverage
  <2>1. pc = "sum" /\ Channels[selectedADC] \in Reports!FieldSet
    BY <1>3, FieldsLemma, FieldSetLemma
       DEF PrintAverage, IInv, TypeOK, ReadsInside
  <2> QED
    BY <1>3, <2>1, PrintAverageReports, CountAdmissible DEF Reports!Next
<1>4. CASE ResetWindow
  <2>1. window' = <<>>
    BY <1>4 DEF ResetWindow, window
  <2> QED
    BY <1>4, <2>1 DEF ResetWindow, Reports!Next, Reports!Publish
<1>5. CASE UNCHANGED <<shared, report>>
  BY <1>5 DEF Reports!absVars, shared, window
<1> QED
  BY <1>1, <1>2, <1>3, <1>4, <1>5
     DEF Next, loop, vars, expiryMissed, ReportDue, ReportNotDue, Receive,
         ReadHeaderCount, SelectFrame, CopyField, StartAverage, SkipDisabled,
         AddSample

\* The firmware implements WindowReports: whatever samples the interrupt
\* stores between two steps of loop(), every average is one of a prefix of
\* the current window, every frame of a window that is not empty is one of
\* its samples, and no sample is part of two reports.
THEOREM PromiseKept == ASSUME BufferFits PROVE Spec => Promise
<1>1. Init => Reports!Init
  BY DEF Init, Reports!Init, window
<1>2. IInv /\ IInv' /\ RInv /\ [Next]_vars => RInv'
  BY NextRInv
<1>3. IInv /\ IInv' /\ RInv /\ [Next]_vars => [Reports!Next]_Reports!absVars
  BY StepSimulates
<1> QED
  BY <1>1, <1>2, <1>3, InitRInv, SpecIInv, PTL DEF Spec, Promise, Reports!Spec

-----------------------------------------------------------------------------
(* A report is complete.                                                   *)

\* How much of the report has been printed, by where loop() is.
Printed ==
  /\ pc \in {"idle", "receive", "header", "copyHeader"} =>
       report = <<>> /\ selectedADC = 1
  /\ pc \in {"select", "copyFrame"} =>
       Len(report) = 1 /\ report[1].kind = "frame" /\ selectedADC = 1
  /\ pc \in {"header", "copyHeader", "select", "copyFrame"} => ~booleanRXKey
  /\ pc \in {"average", "sum"} => HasAverages(selectedADC - 1)
  /\ pc = "sum" => booleanRXKey \/ Channels[selectedADC] \in Enabled

\* One more channel is covered, or not.
LEMMA CoveredLemma ==
  ASSUME NEW n \in Nat
  PROVE  /\ Cardinality(Covered(n)) \in Nat
         /\ Covered(n) \subseteq 1 .. n
         /\ booleanRXKey \/ Channels[n + 1] \in Enabled =>
              /\ Covered(n + 1) = Covered(n) \cup {n + 1}
              /\ Cardinality(Covered(n + 1)) = Cardinality(Covered(n)) + 1
         /\ ~(booleanRXKey \/ Channels[n + 1] \in Enabled) =>
              Covered(n + 1) = Covered(n)
         /\ \A i \in Covered(n) : Cardinality(Covered(i)) \in 1 .. Cardinality(Covered(n))
<1>1. \A k \in Nat : /\ IsFiniteSet(Covered(k)) /\ Covered(k) \subseteq 1 .. k
                     /\ Cardinality(Covered(k)) \in Nat
  <2> TAKE k \in Nat
  <2>1. IsFiniteSet(1 .. k)
    BY FS_Interval
  <2>2. Covered(k) \subseteq 1 .. k
    BY DEF Covered
  <2> HIDE DEF Covered
  <2>3. IsFiniteSet(Covered(k))
    BY <2>1, <2>2, FS_Subset
  <2> QED
    BY <2>2, <2>3, FS_CardinalityType
<1>2. ASSUME booleanRXKey \/ Channels[n + 1] \in Enabled
      PROVE  /\ Covered(n + 1) = Covered(n) \cup {n + 1}
             /\ Cardinality(Covered(n + 1)) = Cardinality(Covered(n)) + 1
  <2>1. \A i : i \in 1 .. n + 1 <=> i \in 1 .. n \/ i = n + 1
    OBVIOUS
  <2>2. Covered(n + 1) = Covered(n) \cup {n + 1}
    BY <1>2, <2>1 DEF Covered
  <2>3. n + 1 \notin Covered(n)
    BY DEF Covered
  <2> DEFINE S == Covered(n)
             x == n + 1
  <2>4. IsFiniteSet(S)
    BY <1>1
  <2> HIDE DEF S, x
  <2>5. x \notin S => Cardinality(S \cup {x}) = Cardinality(S) + 1
    BY <2>4, FS_AddElement
  <2> QED
    BY <2>2, <2>3, <2>5 DEF S, x
<1>3. ASSUME ~(booleanRXKey \/ Channels[n + 1] \in Enabled)
      PROVE  Covered(n + 1) = Covered(n)
  <2>1. \A i : i \in 1 .. n + 1 <=> i \in 1 .. n \/ i = n + 1
    OBVIOUS
  <2> QED
    BY <1>3, <2>1 DEF Covered
<1>4. ASSUME NEW i \in Covered(n)
      PROVE  Cardinality(Covered(i)) \in 1 .. Cardinality(Covered(n))
  <2>1. i \in 1 .. n /\ (booleanRXKey \/ Channels[i] \in Enabled)
    BY DEF Covered
  <2>2. i \in Covered(i) /\ Covered(i) \subseteq Covered(n)
    BY <2>1 DEF Covered
  <2> DEFINE S == Covered(i)
             T == Covered(n)
  <2>3. IsFiniteSet(S) /\ IsFiniteSet(T) /\ S # {} /\ S \in SUBSET T
        /\ Cardinality(S) \in Nat /\ Cardinality(T) \in Nat
    BY <1>1, <2>1, <2>2
  <2> HIDE DEF S, T
  <2>4. Cardinality(S) <= Cardinality(T)
    BY <2>3, FS_Subset
  <2>5. Cardinality(S) # 0
    BY <2>3, FS_EmptySet
  <2>6. Cardinality(S) \in 1 .. Cardinality(T)
    BY <2>3, <2>4, <2>5
  <2> QED
    BY <2>6 DEF S, T
<1> QED
  BY <1>1, <1>2, <1>3, <1>4

LEMMA AppendLemma ==
  ASSUME NEW S, NEW s \in Seq(S), NEW x \in S
  PROVE  /\ Len(Append(s, x)) = Len(s) + 1
         /\ \A i \in 1 .. Len(s) : Append(s, x)[i] = s[i]
         /\ Append(s, x)[Len(s) + 1] = x
OBVIOUS

LEMMA NoneCovered == Covered(0) = {} /\ Cardinality(Covered(0)) = 0
BY FS_EmptySet DEF Covered

\* What the steps that print nothing keep.
LEMMA PrintedStays ==
  ASSUME Printed, UNCHANGED <<report, booleanRXKey, selectedADC>>,
         \/ pc' = pc
         \/ pc = "header" /\ pc' = "copyHeader"
         \/ pc = "select" /\ pc' = "copyFrame"
         \/ pc = "idle" /\ pc' = "receive"
         \/ /\ pc = "average" /\ pc' = "sum"
            /\ booleanRXKey \/ Channels[selectedADC] \in Enabled
  PROVE  Printed'
<1>1. /\ report' = report /\ selectedADC' = selectedADC
      /\ booleanRXKey' = booleanRXKey
  OBVIOUS
<1>2. Frames' = Frames /\ \A n : Covered(n)' = Covered(n)
  BY <1>1 DEF Covered, Frames
<1>3. HasAverages(selectedADC - 1) => HasAverages(selectedADC - 1)'
  BY <1>1, <1>2 DEF HasAverages
<1> QED
  BY <1>1, <1>3 DEF Printed

LEMMA PrintedBegun ==
  ASSUME IInv, Printed, ReportDue
  PROVE  Printed'
<1>1. /\ report' = <<>> /\ selectedADC' = 1 /\ booleanRXKey' = booleanRXKey
      /\ pc' = IF booleanRXKey THEN "average" ELSE "header"
  BY DEF ReportDue, Printed, locals
<1>2. booleanRXKey => HasAverages(0)'
  <2> SUFFICES ASSUME booleanRXKey PROVE HasAverages(0)'
    OBVIOUS
  <2>1. Covered(0)' = {} /\ Cardinality({}) = 0 /\ Frames' = 0
    BY <1>1, NoneCovered DEF Covered, Frames
  <2> QED
    BY <1>1, <2>1 DEF HasAverages
<1> QED
  BY <1>1, <1>2 DEF Printed

LEMMA PrintedFrame ==
  ASSUME IInv, Printed, PrintFrame
  PROVE  Printed'
<1> DEFINE item == [kind |-> "frame", what |-> selectedFrame,
                    count |-> sampleCount, vals |-> readSoFar]
<1>1. /\ report \in Seq(Item) /\ report' = Append(report, item)
      /\ selectedADC' = selectedADC /\ booleanRXKey' = booleanRXKey
      /\ ~booleanRXKey /\ item.kind = "frame"
  BY DEF IInv, TypeOK, PrintFrame, Printed, locals
<1> HIDE DEF item
<1>2. CASE pc = "copyHeader"
  <2>1. report = <<>> /\ selectedADC = 1 /\ pc' = "select"
    BY <1>2 DEF Printed, PrintFrame
  <2>2. Len(report') = 1 /\ report'[1] = item
    BY <1>1, <2>1
  <2> QED
    BY <1>1, <2>1, <2>2 DEF Printed
<1>3. CASE pc = "copyFrame"
  <2>1. /\ Len(report) = 1 /\ report[1].kind = "frame" /\ selectedADC = 1
        /\ pc' = "average"
    BY <1>3 DEF Printed, PrintFrame
  <2>2. Len(report') = 2 /\ report'[1] = report[1] /\ report'[2] = item
    <3> DEFINE S == Item \cup {item}
    <3>2. report \in Seq(S) /\ item \in S
      BY <1>1
    <3> HIDE DEF S
    <3>1. /\ Len(Append(report, item)) = Len(report) + 1
          /\ \A i \in 1 .. Len(report) : Append(report, item)[i] = report[i]
          /\ Append(report, item)[Len(report) + 1] = item
      BY <3>2, AppendLemma
    <3>3. 1 \in 1 .. 1 /\ 1 + 1 = 2
      OBVIOUS
    <3>4. Len(Append(report, item)) = 2 /\ Append(report, item)[2] = item
      BY <2>1, <3>1, <3>3
    <3>5. Append(report, item)[1] = report[1]
      BY <2>1, <3>1, <3>3
    <3> QED
      BY <1>1, <3>4, <3>5
  <2>3. Covered(0)' = {} /\ Cardinality({}) = 0 /\ Frames' = 2
    BY <1>1, NoneCovered DEF Covered, Frames
  <2>4. \A i \in 1 .. 2 : report'[i].kind = "frame"
    BY <1>1, <2>1, <2>2
  <2>5. HasAverages(0)'
    BY <2>2, <2>3, <2>4 DEF HasAverages
  <2> QED
    BY <1>1, <2>1, <2>5 DEF Printed
<1> QED
  BY <1>2, <1>3 DEF PrintFrame

LEMMA PrintedSkips ==
  ASSUME IInv, Printed, SkipDisabled
  PROVE  Printed'
<1> DEFINE n == selectedADC - 1
<1>1. /\ n \in Nat /\ n + 1 = selectedADC /\ pc = "average" /\ pc' = "average"
      /\ selectedADC' - 1 = n + 1
      /\ ~(booleanRXKey \/ Channels[n + 1] \in Enabled)
      /\ report' = report /\ booleanRXKey' = booleanRXKey
  BY FieldsLemma DEF IInv, TypeOK, SkipDisabled
<1>2. HasAverages(n)
  BY <1>1 DEF Printed
<1> HIDE DEF n
<1>3. Covered(n + 1) = Covered(n)
  BY <1>1, CoveredLemma
<1>4. HasAverages(n + 1)
  BY <1>2, <1>3 DEF HasAverages
<1>5. Frames' = Frames /\ \A i : Covered(i)' = Covered(i)
  BY <1>1 DEF Frames, Covered
<1>6. HasAverages(selectedADC - 1)'
  <2>1. /\ Len(report') = Frames' + Cardinality(Covered(selectedADC - 1)')
        /\ \A i \in 1 .. Frames' : report'[i].kind = "frame"
    BY <1>1, <1>4, <1>5 DEF HasAverages
  <2>2. \A i \in Covered(selectedADC - 1)' :
          LET it == report'[Frames' + Cardinality(Covered(i)')]
          IN  it.kind = "average" /\ it.what = Channels[i]
    BY <1>1, <1>4, <1>5 DEF HasAverages
  <2> QED
    BY <2>1, <2>2 DEF HasAverages
<1> QED
  BY <1>1, <1>6 DEF Printed

LEMMA PrintedAverage ==
  ASSUME IInv, Printed, PrintAverage
  PROVE  Printed'
<1> DEFINE n == selectedADC - 1
           item == [kind |-> "average", what |-> Channels[selectedADC],
                    count |-> sampleCount, vals |-> readSoFar]
           l == Len(report)
<1>1. /\ n \in Nat /\ n + 1 = selectedADC /\ pc = "sum" /\ pc' = "average"
      /\ selectedADC' - 1 = n + 1 /\ selectedADC' = n + 1 + 1
      /\ report \in Seq(Item) /\ report' = Append(report, item)
      /\ booleanRXKey' = booleanRXKey
      /\ item.kind = "average" /\ item.what = Channels[n + 1]
  BY FieldsLemma DEF IInv, TypeOK, PrintAverage
<1>2. HasAverages(n) /\ (booleanRXKey \/ Channels[n + 1] \in Enabled)
  BY <1>1 DEF Printed
<1>3. /\ l \in Nat /\ Len(report') = l + 1 /\ report'[l + 1] = item
      /\ \A i \in 1 .. l : report'[i] = report[i]
  BY <1>1
<1> HIDE DEF n, item, l
<1>4. /\ Covered(n + 1) = Covered(n) \cup {n + 1}
      /\ Cardinality(Covered(n + 1)) = Cardinality(Covered(n)) + 1
      /\ Cardinality(Covered(n)) \in Nat
      /\ Covered(n) \subseteq 1 .. n
      /\ \A i \in Covered(n) : Cardinality(Covered(i)) \in 1 .. Cardinality(Covered(n))
  BY <1>1, <1>2, CoveredLemma
<1>5. Frames' = Frames /\ Frames \in Nat /\ \A i : Covered(i)' = Covered(i)
  BY <1>1 DEF Frames, Covered
<1>6. l = Frames + Cardinality(Covered(n))
  BY <1>2 DEF HasAverages, l
<1>7. l + 1 = Frames + Cardinality(Covered(n + 1))
  BY <1>4, <1>5, <1>6
<1>8. \A i \in 1 .. Frames : report'[i].kind = "frame"
  <2> TAKE i \in 1 .. Frames
  <2>1. i \in 1 .. l
    BY <1>4, <1>5, <1>6
  <2> QED
    BY <1>2, <1>3, <2>1 DEF HasAverages
<1>9. ASSUME NEW i \in Covered(n + 1)
      PROVE  LET it == report'[Frames + Cardinality(Covered(i))]
             IN  it.kind = "average" /\ it.what = Channels[i]
  <2>1. CASE i = n + 1
    BY <1>1, <1>3, <1>7, <2>1
  <2>2. CASE i # n + 1
    <3> DEFINE x == Frames + Cardinality(Covered(i))
    <3>1. i \in Covered(n)
      BY <1>4, <2>2
    <3>2. x \in 1 .. l
      BY <1>4, <1>5, <1>6, <3>1
    <3>3. report[x].kind = "average" /\ report[x].what = Channels[i]
      BY <1>2, <3>1 DEF HasAverages
    <3> HIDE DEF x
    <3>4. report'[x] = report[x]
      BY <1>3, <3>2
    <3>5. report'[x].kind = "average" /\ report'[x].what = Channels[i]
      BY <3>3, <3>4
    <3> QED
      BY <3>5 DEF x
  <2> QED
    BY <2>1, <2>2
<1>10. HasAverages(selectedADC - 1)'
  <2>1. /\ Len(report') = Frames' + Cardinality(Covered(selectedADC - 1)')
        /\ \A i \in 1 .. Frames' : report'[i].kind = "frame"
    BY <1>1, <1>3, <1>5, <1>7, <1>8
  <2>2. \A i \in Covered(selectedADC - 1)' :
          LET it == report'[Frames' + Cardinality(Covered(i)')]
          IN  it.kind = "average" /\ it.what = Channels[i]
    BY <1>1, <1>5, <1>9
  <2> QED
    BY <2>1, <2>2 DEF HasAverages
<1> QED
  BY <1>1, <1>10 DEF Printed

LEMMA NextPrinted ==
  ASSUME IInv, Printed, [Next]_vars
  PROVE  Printed'
<1>1. CASE fastMeasure \/ expiryMissed \/ UNCHANGED vars
  BY <1>1, PrintedStays DEF fastMeasure, StoreSample, expiryMissed, vars, locals
<1>2. CASE ReportDue
  BY <1>2, PrintedBegun
<1>3. CASE \/ ReportNotDue \/ ReadHeaderCount \/ SelectFrame \/ CopyField
           \/ StartAverage \/ AddSample
  BY <1>3, PrintedStays
     DEF ReportNotDue, ReadHeaderCount, SelectFrame, CopyField, StartAverage,
         AddSample, locals
<1>4. CASE PrintFrame
  BY <1>4, PrintedFrame
<1>5. CASE SkipDisabled
  BY <1>5, PrintedSkips
<1>6. CASE PrintAverage
  BY <1>6, PrintedAverage
<1>7. CASE ResetWindow
  BY <1>7 DEF ResetWindow, Printed
<1>8. CASE Receive
  BY <1>8 DEF Receive, Printed, locals
<1> QED
  BY <1>1, <1>2, <1>3, <1>4, <1>5, <1>6, <1>7, <1>8 DEF Next, loop

\* When the window is about to be emptied, the report has the frames and the
\* averages of its mode, in the order of rfAdcList, and nothing else.
THEOREM ReportsAreComplete == ASSUME BufferFits PROVE Spec => []ReportComplete
<1>1. Init => Printed
  BY DEF Init, Printed
<1>2. IInv /\ Printed /\ [Next]_vars => Printed'
  BY NextPrinted
<1>3. IInv /\ Printed => ReportComplete
  <2> SUFFICES ASSUME IInv, Printed, Publishing PROVE HasAverages(Len(Channels))
    BY DEF ReportComplete
  <2>1. selectedADC - 1 = Len(Channels)
    BY FieldsLemma, SamplerAssumption DEF Publishing, IInv, TypeOK
  <2>2. HasAverages(selectedADC - 1)
    BY DEF Publishing, Printed
  <2> QED
    BY <2>1, <2>2
<1> QED
  BY <1>1, <1>2, <1>3, SpecIInv, PTL DEF Spec

=============================================================================
