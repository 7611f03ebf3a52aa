-------------------------- MODULE AdcFrontEndProofs --------------------------
(***************************************************************************)
(* Proofs about AdcFrontEnd: its types, and that from the second sample on *)
(* every channel is given the word of its own ADC, for any number of       *)
(* channels and any order in which they are visited.                       *)
(***************************************************************************)
EXTENDS AdcFrontEnd, TLAPS

Transferring == pc \in {"bigger", "smaller", "release"}

\* A channel is being visited, and only an enabled one has its pin moved.
Visiting ==
  /\ pc # "waiting" => visited \in 1 .. Len(Channels)
  /\ Transferring => Current \in Enabled

IInv == TypeOK /\ Visiting

-----------------------------------------------------------------------------
LEMMA ChannelsLemma ==
  /\ Len(Channels) \in Nat \ {0}
  /\ \A i \in 1 .. Len(Channels) : Channels[i] \in ChannelSet
  /\ \A c \in ChannelSet : \E i \in 1 .. Len(Channels) : c = Channels[i]
<1>1. Channels \in Seq(ChannelSet) /\ Channels # <<>>
  BY FrontEndAssumption
<1> QED
  BY <1>1 DEF ChannelSet

\* Two bytes, shifted right by one, fit 15 bits.
LEMMA ConvertLemma ==
  ASSUME NEW big \in 0 .. 255, NEW small \in 0 .. 255
  PROVE  Convert(big, small) \in Readings
<1>1. 2 ^ 8 = 256
  OBVIOUS
<1>2. 2 ^ 15 - 1 = 32767
  OBVIOUS
<1>3. (big * 256 + small) \div 2 \in 0 .. 32767
  OBVIOUS
<1> QED
  BY <1>1, <1>2, <1>3 DEF Convert, Readings

LEMMA ZeroLemma == 0 \in Readings
<1>1. 2 ^ 15 - 1 = 32767
  OBVIOUS
<1> QED
  BY <1>1 DEF Readings

LEMMA InitIInv == Init => IInv
BY ChannelsLemma, ZeroLemma DEF Init, IInv, TypeOK, Visiting, Transferring

\* What storing a value does to the index, the sample and the state.
LEMMA StoreLemma ==
  ASSUME IInv, pc # "waiting", NEW value \in Readings,
         StoreValue(value)
  PROVE  /\ fastSampleArray' \in [ChannelSet -> Readings]
         /\ visited' \in 0 .. Len(Channels) + 1
         /\ passes' \in 0 .. 1
         /\ pc' \in {"waiting", "visit"}
         /\ pc' # "waiting" => visited' \in 1 .. Len(Channels)
<1>1. visited \in 1 .. Len(Channels) /\ Current \in ChannelSet
  BY ChannelsLemma DEF IInv, Visiting, Current
<1> QED
  BY <1>1, ChannelsLemma DEF StoreValue, IInv, TypeOK

LEMMA NextIInv ==
  ASSUME IInv, [fastMeasure]_vars
  PROVE  IInv'
<1> USE FrontEndAssumption
<1>1. CASE UNCHANGED vars
  BY <1>1 DEF IInv, TypeOK, Visiting, Transferring, Current, vars, board, bytes
<1>2. CASE Interrupt
  BY <1>2, ChannelsLemma
     DEF Interrupt, IInv, TypeOK, Visiting, Transferring, board, bytes
<1>3. CASE SkipDisabled
  BY <1>3, ZeroLemma, StoreLemma
     DEF SkipDisabled, IInv, TypeOK, Visiting, Transferring, board, bytes
<1>4. CASE Select
  <2>1. Current \in ChannelSet /\ visited \in 1 .. Len(Channels)
    BY <1>4, ChannelsLemma DEF Select, IInv, Visiting, Current
  <2>2. /\ selectPin' \in [ChannelSet -> {"LOW", "HIGH"}]
        /\ shifted' \in [ChannelSet -> 0 .. 2]
    BY <1>4, <2>1 DEF Select, IInv, TypeOK
  <2>3. word' \in [ChannelSet -> Words]
    BY <1>4, <2>1 DEF Select, IInv, TypeOK
  <2> QED
    BY <1>4, <2>1, <2>2, <2>3
       DEF Select, IInv, TypeOK, Visiting, Transferring, Current, bytes
<1>5. ASSUME Clock
      PROVE  shifted' \in [ChannelSet -> 0 .. 2]
  BY <1>5 DEF Clock, IInv, TypeOK
<1>6. CASE TransferBigger
  BY <1>5, <1>6 DEF TransferBigger, Received, IInv, TypeOK, Visiting,
                    Transferring, Current
<1>7. CASE TransferSmaller
  BY <1>5, <1>7 DEF TransferSmaller, Received, IInv, TypeOK, Visiting,
                    Transferring, Current
<1>8. CASE Release
  <2>1. Current \in ChannelSet
    BY <1>8, ChannelsLemma DEF Release, IInv, Visiting, Current
  <2>2. biggerByte \in 0 .. 255 /\ smallerByte \in 0 .. 255
    BY DEF IInv, TypeOK
  <2>3. Convert(biggerByte, smallerByte) \in Readings
    BY <2>2, ConvertLemma
  <2>4. selectPin' \in [ChannelSet -> {"LOW", "HIGH"}]
    BY <1>8, <2>1 DEF Release, IInv, TypeOK
  <2> QED
    BY <1>8, <2>3, <2>4, StoreLemma
       DEF Release, IInv, TypeOK, Visiting, Transferring, bytes
<1> QED
  BY <1>1, <1>2, <1>3, <1>4, <1>6, <1>7, <1>8 DEF fastMeasure

\* Type correctness: the index stays in rfAdcList, and a reading fits 15 bits.
THEOREM TypeCorrect == Spec => []TypeOK
<1>1. IInv => TypeOK
  BY DEF IInv
<1> QED
  BY <1>1, InitIInv, NextIInv, PTL DEF Spec

-----------------------------------------------------------------------------
(* Own readings.                                                           *)

\* Every enabled channel has an ADC: there is something to read.
EnabledFitted == Enabled \subseteq Fitted

\* The word the ADC of a channel has latched, as getADCMeasure() returns it.
OwnReading(c) == (word[c][1] * 2 ^ 8 + word[c][2]) \div 2

\* A channel that was visited has left its pin high, from the first sample on.
Released ==
  \A i \in 1 .. Len(Channels) :
    /\ Channels[i] \in Enabled
    /\ i < visited \/ passes = 1
    => selectPin[Channels[i]] = "HIGH"
       \/ (Transferring /\ Channels[i] = Current)

\* After the first sample, the ADC being read latched its word when its pin
\* fell, and what was received are the bytes it has shifted out since.
Shifting ==
  passes = 1 /\ Transferring =>
    /\ selectPin[Current] = "LOW"
    /\ pc = "bigger" => shifted[Current] = 0
    /\ pc = "smaller" => shifted[Current] = 1 /\ biggerByte = word[Current][1]
    /\ pc = "release" => /\ biggerByte = word[Current][1]
                         /\ smallerByte = word[Current][2]

\* The channels visited so far have their readings, but for one that is being
\* read again.
StoredReadings ==
  passes = 1 /\ pc # "waiting" =>
    \A i \in 1 .. visited - 1 :
      \/ Transferring /\ Channels[i] = Current
      \/ fastSampleArray[Channels[i]] =
           IF Channels[i] \in Enabled THEN OwnReading(Channels[i]) ELSE 0

RInv == Released /\ Shifting /\ StoredReadings

\* While an ADC is read after the first sample, no other drives the line.
LEMMA OneDrives ==
  ASSUME IInv, RInv, EnabledFitted, Stuck = {}, passes = 1, Transferring
  PROVE  Driving = {Current}
<1>1. Current \in ChannelSet /\ Current \in Enabled
  BY ChannelsLemma DEF IInv, Visiting, Current, Transferring
<1>2. Current \in Driving
  BY <1>1 DEF RInv, Shifting, Driving, Selected, EnabledFitted
<1>3. ASSUME NEW c \in Driving
      PROVE  c = Current
  <2>1. c \in Enabled /\ c \in ChannelSet /\ selectPin[c] = "LOW"
    BY <1>3 DEF Driving, Selected, Stuck
  <2>2. PICK i \in 1 .. Len(Channels) : c = Channels[i]
    BY <2>1, ChannelsLemma
  <2> QED
    BY <2>1, <2>2 DEF RInv, Released
<1> QED
  BY <1>2, <1>3

\* So what is received is its next byte, and it moves on by one.
LEMMA OwnByte ==
  ASSUME IInv, RInv, EnabledFitted, Stuck = {}, passes = 1, Transferring,
         shifted[Current] < 2, NEW b \in Received, Clock
  PROVE  /\ b = word[Current][shifted[Current] + 1]
         /\ shifted'[Current] = shifted[Current] + 1
<1>1. Current \in ChannelSet
  BY ChannelsLemma DEF IInv, Visiting, Current, Transferring
<1>2. Driving = {Current}
  BY OneDrives
<1> QED
  BY <1>1, <1>2 DEF Received, Clock

LEMMA InitRInv == Init => RInv
BY ChannelsLemma
   DEF Init, RInv, Released, Shifting, StoredReadings, Transferring

LEMMA NextRInv ==
  ASSUME IInv, IInv', RInv, EnabledFitted, Stuck = {}, [fastMeasure]_vars
  PROVE  RInv'
<1> USE ChannelsLemma
<1>0. /\ pc # "waiting" => Current \in ChannelSet /\ visited \in 1 .. Len(Channels)
      /\ passes \in 0 .. 1
  BY DEF IInv, TypeOK, Visiting, Current
<1>1. CASE UNCHANGED vars
  BY <1>1 DEF RInv, Released, Shifting, StoredReadings, OwnReading,
              Transferring, Current, vars, board, bytes
<1>2. CASE Interrupt
  <2>1. /\ \A i \in 1 .. Len(Channels) : ~(i < visited')
        /\ ~Transferring /\ UNCHANGED <<selectPin, passes>>
    BY <1>2 DEF Interrupt, Transferring, board
  <2>2. Released'
    BY <2>1 DEF RInv, Released
  <2>3. Shifting' /\ StoredReadings'
    BY <1>2 DEF Interrupt, Shifting, StoredReadings, Transferring
  <2> QED
    BY <2>2, <2>3 DEF RInv
<1>3. CASE SkipDisabled
  <2>1. Released'
    BY <1>0, <1>3 DEF SkipDisabled, StoreValue, RInv, Released, Transferring,
                board, Current, IInv, TypeOK
  <2>2. Shifting'
    BY <1>3 DEF SkipDisabled, StoreValue, Shifting, Transferring
  <2>3. StoredReadings'
    BY <1>0, <1>3 DEF SkipDisabled, StoreValue, RInv, StoredReadings,
                OwnReading, Transferring, board, Current, IInv, TypeOK
  <2> QED
    BY <2>1, <2>2, <2>3 DEF RInv
<1>4. CASE Select
  <2>1. Released'
    BY <1>0, <1>4 DEF Select, RInv, Released, Transferring, Current, IInv,
                TypeOK
  <2>2. Shifting'
    BY <1>0, <1>4 DEF Select, RInv, Released, Shifting, Transferring, Current,
                IInv, TypeOK
  <2>3. StoredReadings'
    BY <1>0, <1>4 DEF Select, RInv, StoredReadings, OwnReading,
                Transferring, Current, IInv, TypeOK
  <2> QED
    BY <2>1, <2>2, <2>3 DEF RInv
<1>5. CASE TransferBigger
  <2>1. Released' /\ StoredReadings'
    BY <1>5 DEF TransferBigger, RInv, Released, StoredReadings, OwnReading,
                Transferring, Current
  <2>2. Shifting'
    BY <1>5, OwnByte DEF TransferBigger, RInv, Shifting, Transferring, Current
  <2> QED
    BY <2>1, <2>2 DEF RInv
<1>6. CASE TransferSmaller
  <2>1. Released' /\ StoredReadings'
    BY <1>6 DEF TransferSmaller, RInv, Released, StoredReadings, OwnReading,
                Transferring, Current
  <2>2. Shifting'
    BY <1>6, OwnByte DEF TransferSmaller, RInv, Shifting, Transferring, Current
  <2> QED
    BY <2>1, <2>2 DEF RInv
<1>7. CASE Release
  <2>1. Released'
    <3> SUFFICES ASSUME NEW i \in 1 .. Len(Channels), Channels[i] \in Enabled,
                        i < visited' \/ passes' = 1
                 PROVE  selectPin'[Channels[i]] = "HIGH"
      BY DEF Released
    <3>1. selectPin' = [selectPin EXCEPT ![Current] = "HIGH"]
      BY <1>7 DEF Release
    <3>2. CASE Channels[i] = Current
      BY <1>0, <1>7, <3>1, <3>2 DEF Release, IInv, TypeOK
    <3>3. CASE Channels[i] # Current
      <4>1. i < visited \/ passes = 1
        BY <1>0, <1>7, <3>3 DEF Release, StoreValue, Current
      <4>2. selectPin[Channels[i]] = "HIGH"
        BY <3>3, <4>1 DEF RInv, Released
      <4> QED
        BY <3>1, <3>3, <4>2 DEF IInv, TypeOK
    <3> QED
      BY <3>2, <3>3
  <2>2. Shifting'
    BY <1>7 DEF Release, StoreValue, Shifting, Transferring
  <2>3. StoredReadings'
    BY <1>0, <1>7 DEF Release, StoreValue, Convert, RInv, Shifting,
                StoredReadings, OwnReading, Transferring, Current, IInv,
                TypeOK, Visiting
  <2> QED
    BY <2>1, <2>2, <2>3 DEF RInv
<1> QED
  BY <1>1, <1>2, <1>3, <1>4, <1>5, <1>6, <1>7 DEF fastMeasure

\* What OwnReadings says of a step.
LEMMA SampleComplete ==
  ASSUME IInv, RInv, fastMeasure, pc' = "waiting", passes = 1,
         NEW c \in ChannelSet
  PROVE  fastSampleArray'[c] = IF c \in Enabled THEN OwnReading(c) ELSE 0
<1>1. PICK i \in 1 .. Len(Channels) : c = Channels[i]
  BY ChannelsLemma
<1>2. visited = Len(Channels) /\ Current \in ChannelSet /\ pc # "waiting"
  BY ChannelsLemma
     DEF fastMeasure, Interrupt, SkipDisabled, Select, TransferBigger,
         TransferSmaller, Release, StoreValue, IInv, Visiting, Current
<1>3. CASE c # Current
  <2>1. i \in 1 .. visited - 1
    BY <1>1, <1>2, <1>3, ChannelsLemma DEF Current
  <2> QED
    BY <1>1, <1>2, <1>3, <2>1
       DEF fastMeasure, Interrupt, SkipDisabled, Select, TransferBigger,
           TransferSmaller, Release, StoreValue, IInv, TypeOK, RInv,
           StoredReadings
<1>4. CASE c = Current
  BY <1>2, <1>4
     DEF fastMeasure, Interrupt, SkipDisabled, Select, TransferBigger,
         TransferSmaller, Release, StoreValue, IInv, TypeOK, Visiting,
         Transferring, RInv, Shifting, Convert, OwnReading
<1> QED
  BY <1>3, <1>4

\* From the second sample on every enabled channel is given the word of its
\* own ADC, and every other 0, if no disabled channel has an ADC on the board.
THEOREM ReadingsAreOwn == ASSUME EnabledFitted PROVE Spec => OwnReadings
<1>1. ASSUME IInv, IInv', Stuck = {} => RInv, [fastMeasure]_vars
      PROVE  (Stuck = {} => RInv)'
  BY <1>1, NextRInv DEF Stuck
<1>2. ASSUME IInv, Stuck = {} => RInv, [fastMeasure]_vars
      PROVE  [ pc' = "waiting" /\ passes = 1 /\ Stuck = {} =>
                 \A c \in ChannelSet :
                   fastSampleArray'[c] =
                     IF c \in Enabled
                     THEN (word[c][1] * 2 ^ 8 + word[c][2]) \div 2
                     ELSE 0 ]_vars
  BY <1>2, SampleComplete DEF OwnReading
<1> QED
  BY <1>1, <1>2, InitIInv, InitRInv, NextIInv, PTL DEF Spec, OwnReadings
=============================================================================
