-------------------------- MODULE SampleStreamFormat --------------------------
(***************************************************************************)
(* The byte format that the V3C units of a file and the NAL units of an    *)
(* atlas sub-stream share: one byte that gives the width of the size       *)
(* fields, then every unit as a size field and the unit's own bytes.       *)
(* A byte of a unit is named by the unit and its place, so that a reader   *)
(* that loses its place is seen to read something else.                    *)
(***************************************************************************)
EXTENDS Digits, SequencesExt

CONSTANT ByteBits   \* bits of a byte; smaller than 8 makes the size fields' limits reachable

ASSUME ByteBitsAssumption == ByteBits \in Nat \ {0}

VARIABLES
  phase,      \* of the writer and, after it, of the reader
  written,    \* units written so far
  precision,  \* bytes of the writer's size fields
  stream,     \* the bytes
  pos         \* bytes the reader has consumed

Base == Power(2, ByteBits)

(* the sizes are compared in a uint32_t (maxUnitSize), which has four bytes *)
UnsignedLimit == Power(Base, 4)

(* PCCBitstreamCommon.h *)
floorLog2(x) == IF x = 0 THEN -1 ELSE CHOOSE n \in 0 .. x : Power(2, n) <= x /\ x < Power(2, n + 1)

ceilLog2(x) == IF x = 0 THEN -1 ELSE floorLog2(x - 1) + 1

(* the bytes of ceilLog2(x) bits, at least one and at most eight *)
BytesFor(x) ==
  LET n == (ceilLog2(x) + ByteBits - 1) \div ByteBits
  IN  IF n < 1 THEN 1 ELSE IF n > 8 THEN 8 ELSE n

HeaderByte(n) == <<"precision", n, 0>>

(* a number in n bytes: what does not fit is cut off, as PCCBitstream::write does *)
SizeField(v, n) == [k \in 1 .. n |-> <<"size", Digit(v, Base, n, k), k>>]

UnitBytes(u, n) == [k \in 1 .. n |-> <<"unit", u, k>>]

(* what a reader finds from one place to another: nothing beyond the end *)
Slice(bytes, first, last) == SubSeq(bytes, first, Min({last, Len(bytes)}))

IsSizeField(bytes, n) == Len(bytes) = n /\ \A k \in 1 .. n : bytes[k][1] = "size" /\ bytes[k][3] = k

FieldValue(bytes) == Number([k \in DOMAIN bytes |-> bytes[k][2]], Base)
=============================================================================
