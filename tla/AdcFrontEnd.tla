---------------------------- MODULE AdcFrontEnd ----------------------------
(***************************************************************************)
(* How fastMeasure() obtains the readings of a sample: getADCMeasure()     *)
(* takes the select pin of one ADC low, shifts two bytes out of it over    *)
(* SPI1 and takes the pin high again.  All ADCs share the data line, and   *)
(* every ADC whose pin is low drives it and moves on by one byte with each *)
(* transfer.                                                               *)
(*                                                                         *)
(* A reading is two bytes; an ADC latches a new word (the two bytes it     *)
(* will shift out) when its pin falls.  setup() makes the pins outputs and *)
(* never writes them: a pin starts low.                                    *)
(***************************************************************************)
EXTENDS Integers, Sequences

CONSTANTS
  Channels,  \* rfAdcList, in the order it is visited
  Enabled,   \* the channels whose isEnabled is true after setup()
  Fitted,    \* the channels whose ADC is on the board
  Bytes      \* the bytes an ADC may shift out

ChannelSet == { Channels[i] : i \in 1 .. Len(Channels) }

ASSUME FrontEndAssumption ==
  /\ Channels \in Seq(ChannelSet) /\ Channels # <<>>
  /\ Enabled \subseteq ChannelSet
  /\ Fitted \subseteq ChannelSet
  /\ Bytes \subseteq 0 .. 255 /\ Bytes # {}

Words == Bytes \X Bytes
Readings == 0 .. 2 ^ 15 - 1

\* Mutant of Convert: the word is not shifted.
ConvertUnshifted(big, small) == big * 2 ^ 8 + small

\* calculatedValue of getADCMeasure(); two bytes fit its 16 bits.
Convert(big, small) == (big * 2 ^ 8 + small) \div 2

VARIABLES
  selectPin,        \* the level of every select pin
  word,             \* the word each ADC has latched
  shifted,          \* how many of its bytes each ADC has shifted out
  visited,          \* index in Channels of the channel being visited
  pc,               \* where the interrupt is
  biggerByte, smallerByte,
  fastSampleArray,  \* the sample being composed
  passes            \* samples completed, counted up to 1

board == <<selectPin, word, shifted>>
bytes == <<biggerByte, smallerByte>>
vars == <<board, visited, pc, bytes, fastSampleArray, passes>>

Init ==
  /\ selectPin = [c \in ChannelSet |-> "LOW"]
  /\ word \in [ChannelSet -> Words]
  \* An ADC that is not there has no word: any one will do.
  /\ \A c \in ChannelSet \ Fitted : word[c] = CHOOSE w \in Words : TRUE
  /\ shifted = [c \in ChannelSet |-> 0]
  /\ visited = 0
  /\ pc = "waiting"
  /\ biggerByte = 0 /\ smallerByte = 0
  /\ fastSampleArray = [c \in ChannelSet |-> 0]
  /\ passes = 0

\* The timer expires: the first channel is visited.
Interrupt ==
  /\ pc = "waiting"
  /\ visited' = 1
  /\ pc' = "visit"
  /\ UNCHANGED <<board, bytes, fastSampleArray, passes>>

Current == Channels[visited]

\* fastSampleArray[selectedADC->getEnumADC()] = fastSampleValue, and on to the
\* next channel.
StoreValue(value) ==
  /\ fastSampleArray' = [fastSampleArray EXCEPT ![Current] = value]
  /\ visited' = visited + 1
  /\ pc' = IF visited = Len(Channels) THEN "waiting" ELSE "visit"
  /\ passes' = IF visited = Len(Channels) THEN 1 ELSE passes

\* A disabled channel: fastSampleValue stays 0, its pin is not touched.
SkipDisabled ==
  /\ pc = "visit"
  /\ Current \notin Enabled
  /\ StoreValue(0)
  /\ UNCHANGED <<board, bytes>>

\* digitalWrite(adcCSPin, LOW): the ADC latches a word if the pin was high.
Select ==
  /\ pc = "visit"
  /\ Current \in Enabled
  /\ selectPin' = [selectPin EXCEPT ![Current] = "LOW"]
  /\ IF selectPin[Current] = "HIGH"
     THEN /\ \E w \in Words : word' = [word EXCEPT ![Current] = w]
          /\ shifted' = [shifted EXCEPT ![Current] = 0]
     ELSE UNCHANGED <<word, shifted>>
  /\ pc' = "bigger"
  /\ UNCHANGED <<visited, bytes, fastSampleArray, passes>>

Selected == { c \in ChannelSet : selectPin[c] = "LOW" }
Driving == Selected \cap Fitted

\* What SPI1.transfer() may return: the next byte of the ADC that drives the
\* line, if it is the only one and has one left, and any byte otherwise.
Received ==
  { b \in Bytes :
      \A c \in ChannelSet :
        Driving = {c} /\ shifted[c] < 2 => b = word[c][shifted[c] + 1] }

Clock ==
  shifted' = [c \in ChannelSet |->
                IF c \in Driving /\ shifted[c] < 2 THEN shifted[c] + 1
                                                   ELSE shifted[c]]

TransferBigger ==
  /\ pc = "bigger"
  /\ biggerByte' \in Received
  /\ Clock
  /\ pc' = "smaller"
  /\ UNCHANGED <<selectPin, word, visited, smallerByte, fastSampleArray,
                 passes>>

TransferSmaller ==
  /\ pc = "smaller"
  /\ smallerByte' \in Received
  /\ Clock
  /\ pc' = "release"
  /\ UNCHANGED <<selectPin, word, visited, biggerByte, fastSampleArray,
                 passes>>

\* Mutant of Release: the pin is left low.
KeepSelected ==
  /\ pc = "release"
  /\ StoreValue(Convert(biggerByte, smallerByte))
  /\ UNCHANGED <<board, bytes>>

\* digitalWrite(adcCSPin, HIGH), and the reading is returned.
Release ==
  /\ pc = "release"
  /\ selectPin' = [selectPin EXCEPT ![Current] = "HIGH"]
  /\ StoreValue(Convert(biggerByte, smallerByte))
  /\ UNCHANGED <<word, shifted, bytes>>

fastMeasure ==
  \/ Interrupt \/ SkipDisabled \/ Select
  \/ TransferBigger \/ TransferSmaller \/ Release

Spec == Init /\ [][fastMeasure]_vars

TypeOK ==
  /\ selectPin \in [ChannelSet -> {"LOW", "HIGH"}]
  /\ word \in [ChannelSet -> Words]
  /\ shifted \in [ChannelSet -> 0 .. 2]
  /\ visited \in 0 .. Len(Channels) + 1
  /\ pc \in {"waiting", "visit", "bigger", "smaller", "release"}
  /\ biggerByte \in Bytes \cup {0} /\ smallerByte \in Bytes \cup {0}
  /\ fastSampleArray \in [ChannelSet -> Readings]
  /\ passes \in 0 .. 1

-----------------------------------------------------------------------------
\* The ADCs that drive the line although they are never released: those that
\* are fitted but not enabled.
Stuck == Fitted \ Enabled

\* From the second sample on, and if no disabled ADC is fitted, a sample holds
\* the upper 15 bits of the word each enabled ADC latched for it, and 0 for
\* the disabled channels.  getADCMeasure() moves one pin only and relies on
\* the pins it left high before; it has released all of them after one sample.
OwnReadings ==
  [][ pc' = "waiting" /\ passes = 1 /\ Stuck = {} =>
        \A c \in ChannelSet :
          fastSampleArray'[c] =
            IF c \in Enabled THEN (word[c][1] * 2 ^ 8 + word[c][2]) \div 2
                              ELSE 0 ]_vars

=============================================================================
