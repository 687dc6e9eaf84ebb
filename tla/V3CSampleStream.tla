--------------------------- MODULE V3CSampleStream ---------------------------
(***************************************************************************)
(* The file: PCCBitstreamWriter::write lays the V3C units of a sequence    *)
(* out as a sample stream, PCCBitstreamReader::read takes it apart again.  *)
(* The file has no index; the size fields alone tell where a unit ends.    *)
(***************************************************************************)
EXTENDS SampleStreamFormat

CONSTANTS
  Sizes,      \* sizes a V3C unit may have, in bytes; the header makes them positive
  MaxUnits,   \* bound: units of the file
  Forced      \* values of forcedSsvhUnitSizePrecisionBytes, 0 unless the user asks; write and
              \* read shift 32 bit numbers, so that more than four bytes are undefined

ASSUME UnitsAssumption ==
  /\ Sizes \subseteq Nat \ {0} /\ MaxUnits \in Nat \ {0} /\ Forced \subseteq 0 .. 4
  /\ \A n \in Sizes : n < UnsignedLimit   \* write casts the longest size to a uint32_t

VARIABLES
  sizes,      \* of the units
  forced,
  width,      \* the precision the reader found
  units       \* the units it has read, each a sequence of bytes

fileVars == <<sizes, forced, phase, written, precision, stream, width, pos, units>>

MaxUnitSize == Max({sizes[i] : i \in DOMAIN sizes})

FileInit ==
  /\ sizes \in BoundedSeq(Sizes, MaxUnits) \ {<<>>}
  /\ forced \in Forced
  /\ phase = "write" /\ written = 0 /\ precision = 0 /\ stream = <<>>
  /\ width = 0 /\ pos = 0 /\ units = <<>>

(* mutant: the smaller logarithm *)
UnitSizePrecision_Floor(max) == LET n == (floorLog2(max) + ByteBits - 1) \div ByteBits IN IF n < 1 THEN 1 ELSE n

UnitSizePrecision(max) == BytesFor(max)

(* sampleStreamV3CHeader: the precision, and the first byte *)
WriteHeader ==
  /\ phase = "write"
  /\ precision' = Max({UnitSizePrecision(MaxUnitSize), forced})
  /\ stream' = <<HeaderByte(precision')>>
  /\ phase' = "units"
  /\ UNCHANGED <<sizes, forced, written, width, pos, units>>

(* sampleStreamV3CUnit *)
WriteUnit ==
  /\ phase = "units" /\ written < Len(sizes)
  /\ LET n == sizes[written + 1]
     IN  stream' = stream \o SizeField(n, precision) \o UnitBytes(written + 1, n)
  /\ written' = written + 1
  /\ UNCHANGED <<sizes, forced, phase, precision, width, pos, units>>

CloseFile ==
  /\ phase = "units" /\ written = Len(sizes)
  /\ phase' = "read"
  /\ UNCHANGED <<sizes, forced, written, precision, stream, width, pos, units>>

ReadHeader ==
  /\ phase = "read"
  /\ width' = stream[1][2] /\ pos' = 1
  /\ phase' = "parse"
  /\ UNCHANGED <<sizes, forced, written, precision, stream, units>>

EndOfUnit(n) == pos + width + n

(* one turn of read's loop: a unit without bytes is fatal, its type is read *)
(* from its first byte; so is a size beyond the end of the file             *)
ReadUnit ==
  /\ phase = "parse" /\ pos < Len(stream)
  /\ LET field == Slice(stream, pos + 1, pos + width)
         n     == FieldValue(field)
         unit  == Slice(stream, pos + width + 1, pos + width + n)
         moved == IsSizeField(field, width) /\ n > 0 /\ Len(unit) = n
     IN  /\ phase' = IF moved THEN "parse" ELSE IF IsSizeField(field, width) /\ n = 0 THEN "crashed" ELSE "lost"
         /\ units' = IF moved THEN Append(units, unit) ELSE units
         /\ pos'   = IF moved THEN EndOfUnit(n) ELSE pos
  /\ UNCHANGED <<sizes, forced, written, precision, stream, width>>

EndOfFile ==
  /\ phase = "parse" /\ pos = Len(stream)
  /\ phase' = "done"
  /\ UNCHANGED <<sizes, forced, written, precision, stream, width, pos, units>>

FileNext == WriteHeader \/ WriteUnit \/ CloseFile \/ ReadHeader \/ ReadUnit \/ EndOfFile

(* writer and reader are loops of one thread that never wait *)
FileSpec == FileInit /\ [][FileNext]_fileVars /\ WF_fileVars(FileNext)

-----------------------------------------------------------------------------
(* The writer's and the reader's place stay inside the file. *)
FileTypeOK ==
  /\ sizes \in Seq(Sizes) /\ forced \in Forced
  /\ phase \in {"write", "units", "read", "parse", "done", "crashed", "lost"}
  /\ written \in 0 .. Len(sizes) /\ precision \in 0 .. 4 /\ width \in {0, precision}
  /\ pos \in 0 .. Len(stream) /\ Len(units) <= Len(sizes)

(* The units read so far are the units that were written, byte for byte,   *)
(* however the sizes and the forced precision are chosen.                  *)
UnitsReadBack == \A k \in DOMAIN units : units[k] = UnitBytes(k, sizes[k])

(* The only files that cannot be read back are those whose longest unit is *)
(* a power of the byte base: ceilLog2(256) bits are 8, but 256 needs 9.    *)
OnlyPowersFail ==
  phase \in {"crashed", "lost"} => phase = "crashed" /\ MaxUnitSize = Power(Base, precision)

(* A file whose longest unit is no such power is read to its end. *)
FileIsRead ==
  <>(\/ phase = "done" /\ Len(units) = Len(sizes)
     \/ phase = "crashed" /\ \E k \in 1 .. MaxUnitSize : MaxUnitSize = Power(Base, k))
=============================================================================
