--------------------------- MODULE PassThruOptions --------------------------
(***************************************************************************)
(* The options the pass-through encoder knows (the switch of               *)
(* PassThru_ParseOption) and the packet headers they are about: constants  *)
(* only.  Words and bytes are sets of bit positions, bit 0 the least       *)
(* significant.                                                            *)
(***************************************************************************)
EXTENDS Integers

-----------------------------------------------------------------------------
(* Header words and their fields.                                          *)

WordIds == {"Pri0", "Pri1", "Pri2", "Ext0", "Ext1", "Sec"}

Word == SUBSET (0..15)
Byte == SUBSET (0..7)

Field(word, lo, hi) == [word |-> word, lo |-> lo, hi |-> hi]

\* The options that write a header field, each with the word it is in and
\* the bits of its mask.
FieldOf ==
    [ pktver    |-> Field("Pri0", 13, 15), pkttype   |-> Field("Pri0", 12, 12),
      pktsec    |-> Field("Pri0", 11, 11), pktapid   |-> Field("Pri0", 0, 10),
      pktid     |-> Field("Pri0", 0, 15),  pktseqflg |-> Field("Pri1", 14, 15),
      pktseqcnt |-> Field("Pri1", 0, 13),  pktlen    |-> Field("Pri2", 0, 15),
      pktedsver |-> Field("Ext0", 11, 15), pktendian |-> Field("Ext0", 10, 10),
      pktpb     |-> Field("Ext0", 9, 9),   pktsubsys |-> Field("Ext0", 0, 8),
      pktsys    |-> Field("Ext1", 0, 15),  cmdcode   |-> Field("Sec", 8, 14),
      pktfc     |-> Field("Sec", 8, 14),   pktcksum  |-> Field("Sec", 0, 7) ]

FieldIds == DOMAIN FieldOf

Mask(f) == f.lo .. f.hi

\* The fields GetPackedObject fills in by itself unless their own option was given.
Overridable == {"pkttype", "pktsec", "pktseqflg", "pktlen", "pktendian", "pktcksum"}

Headers == {"Pri", "Ext", "Sec"}

HeaderOf(word) ==
    IF word \in {"Pri0", "Pri1", "Pri2"} THEN "Pri"
    ELSE IF word \in {"Ext0", "Ext1"} THEN "Ext" ELSE "Sec"

HeaderSize(lay) ==
    (IF "Pri" \in lay THEN 6 ELSE 0) + (IF "Ext" \in lay THEN 4 ELSE 0)
        + (IF "Sec" \in lay THEN 2 ELSE 0)

\* The header layout of every protocol name that GetProtocolFromString
\* translates; it gives no protocol for any other name, "raw" included.
LayoutOf ==
    [ ccsdspri |-> {"Pri"}, ccsdsext |-> {"Pri", "Ext"},
      cfsv1 |-> {"Pri", "Sec"}, cfsv2 |-> {"Pri", "Ext", "Sec"} ]

DefaultLayout == LayoutOf["cfsv1"]

-----------------------------------------------------------------------------
(* Payload options: how many bytes each writes and how its text is read.   *)

Num(size, kind) == [size |-> size, kind |-> kind]

NumberOf ==
    [ int8   |-> Num(1, "signed"), byte    |-> Num(1, "signed"),
      int16  |-> Num(2, "signed"), half    |-> Num(2, "signed"),
      int16b |-> Num(2, "signed"), int32   |-> Num(4, "signed"),
      long   |-> Num(4, "signed"), word    |-> Num(4, "signed"),
      int32b |-> Num(4, "signed"), int64   |-> Num(8, "signed"),
      int64b |-> Num(8, "signed"), uint8   |-> Num(1, "unsigned"),
      uint16  |-> Num(2, "unsigned"), uint16b |-> Num(2, "unsigned"),
      uint32  |-> Num(4, "unsigned"), uint32b |-> Num(4, "unsigned"),
      uint64  |-> Num(8, "unsigned"), uint64b |-> Num(8, "unsigned"),
      float   |-> Num(4, "real"),     double  |-> Num(8, "real") ]

NumberIds == DOMAIN NumberOf

\* The "b" options ignore the endianness in force.
ForcedBigEndian == {"int16b", "uint16b", "int32b", "uint32b", "int64b", "uint64b"}

\* Every option the switch has a case for that looks at the text.
HandledIds == FieldIds \cup NumberIds \cup {"string", "endian", "protocol"}

=============================================================================
