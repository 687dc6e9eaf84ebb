---------------------------- MODULE VideoByteStream ----------------------------
(***************************************************************************)
(* PCCVideoBitstream: a coded video on its way from the video encoder to   *)
(* the video decoder.  The encoder's output has start codes in front of its*)
(* NAL units; byteStreamToSampleStream replaces them by size fields for the *)
(* V3C unit, and sampleStreamToByteStream puts start codes back, of a size *)
(* chosen by the type of the unit.  Neither adds or removes emulation      *)
(* prevention bytes, since both are called with their defaults.            *)
(*                                                                         *)
(* Both functions are a loop over the units of data_; a turn of a loop is  *)
(* one action.  Indices into data_ count from 0.                           *)
(***************************************************************************)
EXTENDS Digits, FiniteSets, SequencesExt, FiniteSetsExt

CONSTANTS
  Codings,     \* <<coding of the video, isAvc, isVvc>>
  Units,       \* for each coding the NAL units its encoder may produce
  MaxNalUnits, \* bound: NAL units of a video
  Precision    \* bytes of a size field, 4

Byte == 0 .. 255

(* a NAL unit has no start code inside and does not end in a zero byte *)
Legal(u) ==
  /\ u \in Seq(Byte) /\ u # <<>> /\ u[Len(u)] # 0
  /\ \A i \in 1 .. Len(u) - 2 : ~(u[i] = 0 /\ u[i + 1] = 0 /\ u[i + 2] <= 2)

ASSUME StreamAssumption ==
  /\ Codings \subseteq {"avc", "hevc", "vvc"} \X BOOLEAN \X BOOLEAN
  /\ \A c \in Codings : \A u \in Units[c[1]] : Legal(u) /\ (c[1] # "avc" => Len(u) >= 2)
  /\ MaxNalUnits \in Nat \ {0} /\ Precision \in Nat \ {0}

(* naluSize is an int32_t; two units that stay together (Hidden) are to fit as well *)
ASSUME SizeAssumption ==
  \A c \in Codings : \A u \in Units[c[1]] : (Len(u) + 4) \div Power(256, Precision - 1) < 128

VARIABLES
  coding,
  nalUnits,       \* what the encoder has coded (not in the code)
  longs,          \* the units it has put a start code of four bytes in front of (not in the code)
  conversion,     \* "toSamples", "toBytes" or "decode"
  data_,          \* the stream being read
  data,           \* the one being made
  startIndex,
  sizeStartCode,  \* of the next unit
  samples         \* the sample stream as it was multiplexed (not in the code)

source == <<coding, nalUnits, longs>>
videoVars == <<source, conversion, data_, data, startIndex, sizeStartCode, samples>>

At(d, i) == d[i + 1]
Bytes(d, from, to) == SubSeq(d, from + 1, to)   \* data_[from] to data_[to - 1]

StartCode(size) == [i \in 1 .. size |-> IF i = size THEN 1 ELSE 0]

(* the encoder's output *)
ByteStream(us, ls) == FlattenSeq([k \in DOMAIN us |-> StartCode(IF k \in ls THEN 4 ELSE 3) \o us[k]])

VideoInit ==
  /\ coding \in Codings
  /\ nalUnits \in UNION {[1 .. n -> Units[coding[1]]] : n \in 1 .. MaxNalUnits}
  /\ longs \in SUBSET (DOMAIN nalUnits)
  /\ conversion = "toSamples"
  /\ data_ = ByteStream(nalUnits, longs)
  /\ data = <<>>
  /\ startIndex = 0
  /\ sizeStartCode = 4
  /\ samples = <<>>

-----------------------------------------------------------------------------
(* byteStreamToSampleStream *)

(* mutant: start codes of four bytes are not looked for *)
IsStartCode_Short(d, i) == At(d, i) = 0 /\ At(d, i + 1) = 0 /\ At(d, i + 2) = 1

IsStartCode(d, i) ==
  At(d, i) = 0 /\ At(d, i + 1) = 0 /\ (At(d, i + 2) = 1 \/ (At(d, i + 2) = 0 /\ At(d, i + 3) = 1))

getEndOfNaluPosition(d, start) ==
  LET found == {i \in start .. Len(d) - 5 : IsStartCode(d, i)}
  IN  IF found = {} THEN Len(d) ELSE Min(found)

(* mutant: start codes have three bytes *)
StartCodeAt_Three(d, i) == 3

StartCodeAt(d, i) == IF At(d, i + 2) = 0 THEN 4 ELSE 3

SampleSize(n) == [i \in 1 .. Precision |-> Digit(n, 256, Precision, i)]

NaluToSample ==
  LET from == startIndex + StartCodeAt(data_, startIndex)
      end  == getEndOfNaluPosition(data_, from)
      done == end >= Len(data_)
      made == data \o SampleSize(end - from) \o Bytes(data_, from, end)
  IN  /\ conversion = "toSamples"
      /\ conversion' = IF done THEN "toBytes" ELSE conversion
      /\ data_'      = IF done THEN made ELSE data_
      /\ data'       = IF done THEN <<>> ELSE made
      /\ startIndex' = IF done THEN 0 ELSE end
      /\ samples'    = IF done THEN made ELSE samples
      /\ UNCHANGED <<source, sizeStartCode>>

-----------------------------------------------------------------------------
(* sampleStreamToByteStream *)

SizeAt(d, i) == Number(Bytes(d, i, i + Precision), 256)

isAvc == coding[2]
isVvc == coding[3]

(* parameter sets and the like; a flag for the first unit of a frame is always
   cleared before it is looked at *)
UseLongStartCode(d, i) ==
  \/ isAvc
  \/ ~isAvc /\ isVvc /\ At(d, i + Precision + 1) \div 8 \in 12 .. 19
  \/ ~isAvc /\ ~isVvc /\ (At(d, i + Precision) % 128) \div 2 \in 32 .. 40

NaluEnd(d, i) == i + Precision + SizeAt(d, i)

NaluToBytes ==
  LET end  == NaluEnd(data_, startIndex)
      done == end >= Len(data_)
      made == data \o StartCode(sizeStartCode) \o Bytes(data_, startIndex + Precision, end)
  IN  /\ conversion = "toBytes"
      /\ conversion'    = IF done THEN "decode" ELSE conversion
      /\ data_'         = IF done THEN made ELSE data_
      /\ data'          = IF done THEN <<>> ELSE made
      /\ startIndex'    = end
      /\ sizeStartCode' = IF end + Precision < Len(data_)
                          THEN (IF UseLongStartCode(data_, end) THEN 4 ELSE 3)
                          ELSE sizeStartCode
      /\ UNCHANGED <<source, samples>>

VideoNext == NaluToSample \/ NaluToBytes

VideoSpec == VideoInit /\ [][VideoNext]_videoVars /\ WF_videoVars(VideoNext)

-----------------------------------------------------------------------------
(* The buffers hold bytes, and a start code is three or four of them. *)
VideoTypeOK ==
  /\ coding \in Codings /\ nalUnits \in Seq(Units[coding[1]]) /\ longs \subseteq DOMAIN nalUnits
  /\ conversion \in {"toSamples", "toBytes", "decode"}
  /\ data_ \in Seq(Byte) /\ data \in Seq(Byte) /\ samples \in Seq(Byte)
  /\ startIndex \in Nat /\ sizeStartCode \in {3, 4}

(* what a decoder finds in a byte stream: what is between two start codes, without
   the zeros at its end *)
Parsed(d) ==
  LET codes   == {i \in 0 .. Len(d) - 3 : At(d, i) = 0 /\ At(d, i + 1) = 0 /\ At(d, i + 2) = 1}
      n       == Cardinality(codes)
      Code(k) == CHOOSE i \in codes : Cardinality({j \in codes : j <= i}) = k
      To(k)   == IF k < n THEN Code(k + 1) ELSE Len(d)
      End(from, to) == Max({from} \cup {i \in from + 1 .. to : At(d, i - 1) # 0})
  IN  [k \in 1 .. n |-> Bytes(d, Code(k) + 3, End(Code(k) + 3, To(k)))]

(* The decoder is given the units the encoder has made, whatever start codes they
   had (both conversions, and a search that does not see all start codes). *)
UnitsSurvive == conversion = "decode" => Parsed(data_) = nalUnits

AsSamples(us) == FlattenSeq([k \in DOMAIN us |-> SampleSize(Len(us[k])) \o us[k]])

(* a last unit of one byte behind a start code of three *)
Hidden == Len(nalUnits) > 1 /\ Len(Last(nalUnits)) = 1 /\ Len(nalUnits) \notin longs

(* what is multiplexed for it: it stays a part of the unit before *)
Merged ==
  LET n == Len(nalUnits)
  IN  Append(SubSeq(nalUnits, 1, n - 2), nalUnits[n - 1] \o StartCode(3) \o nalUnits[n])

(* The V3C unit holds one sample per unit, each as long as it says, except that a
   last unit of one byte behind a short start code is not found by the search, which
   ends four bytes before the stream does (getEndOfNaluPosition). *)
SamplesAreUnits == samples # <<>> => samples = AsSamples(IF Hidden THEN Merged ELSE nalUnits)
================================================================================
