-------------------------------- MODULE Ebml --------------------------------
(***************************************************************************)
(* The variable-size integers of internal/format/ebml/vint.go and the      *)
(* elements of a Matroska file.  The first byte of a VINT says by its      *)
(* leading one how many bytes follow; a size with all its data bits set is *)
(* not a size but says that the end of the element is unknown.             *)
(*                                                                         *)
(* A file is a sequence of cells.  The header of an element is one cell,   *)
(* its id a name and its size encoded; an element without children holds   *)
(* its value in the same cell.  Sizes and offsets count cells.             *)
(***************************************************************************)
EXTENDS Integers, SequencesExt

CONSTANT ByteBits   \* bits of a byte, 8 in the code; as many bytes to the widest VINT

ASSUME ByteAssumption == ByteBits \in 2 .. 8

VARIABLE file

DataBits(width) == (ByteBits - 1) * width

AllOnes(width) == 2 ^ DataBits(width) - 1

\* encodeVINTInto: the marker is the bit above the data.
VintBytes(v, width) ==
    [i \in 1 .. width |-> ((v + 2 ^ DataBits(width)) \div 2 ^ (ByteBits * (width - i))) % 2 ^ ByteBits]

\* Nothing if the value does not fit.
EncodeVINTWidth(v, width) == IF v >= AllOnes(width) THEN <<>> ELSE VintBytes(v, width)

EncodeVINT_MayBeUnknown(v) ==
    LET fits == {width \in 1 .. ByteBits : v <= AllOnes(width)}
    IN  IF fits = {} THEN <<>> ELSE VintBytes(v, Min(fits))

\* The narrowest width at which the value is not taken for an unknown size.
EncodeVINT(v) ==
    LET fits == {width \in 1 .. ByteBits : v < AllOnes(width)}
    IN  IF fits = {} THEN <<>> ELSE VintBytes(v, Min(fits))

EncodeVINTUnknown(width) == VintBytes(AllOnes(width), width)

\* The width a first byte stands for, 0 if it has no marker.
VINTWidth(byte) ==
    IF byte = 0 THEN 0
    ELSE CHOOSE width \in 1 .. ByteBits : byte \div 2 ^ (ByteBits - width) = 1

\* Width 0 if what is there is no VINT.
DecodeVINT(src) ==
    LET width == IF src = <<>> THEN 0 ELSE VINTWidth(src[1])
        number == FoldLeft(LAMBDA n, byte : n * 2 ^ ByteBits + byte, 0, SubSeq(src, 1, width))
    IN  IF width = 0 \/ Len(src) < width THEN [val |-> 0, width |-> 0]
        ELSE [val |-> number - 2 ^ DataBits(width), width |-> width]

IsUnknownSize(src) ==
    LET vint == DecodeVINT(src) IN vint.width > 0 /\ vint.val = AllOnes(vint.width)

-----------------------------------------------------------------------------
Cell(id, size, val) == [id |-> id, size |-> size, val |-> val]

Leaf(id, val) == <<Cell(id, EncodeVINT(0), val)>>

\* writeElement: children are buffered until their length is known.
Master(id, children) == <<Cell(id, EncodeVINT(Len(children)), 0)>> \o children

\* A size that is patched when the element is complete, or never known.
Reserved(id, width) == <<Cell(id, EncodeVINTWidth(0, width), 0)>>
Unbounded(id, width) == <<Cell(id, EncodeVINTUnknown(width), 0)>>

Torn == Cell("torn", <<>>, 0)   \* a header that was written in part
=============================================================================
