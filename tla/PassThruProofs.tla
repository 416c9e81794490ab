--------------------------- MODULE PassThruProofs ---------------------------
(***************************************************************************)
(* Proofs about the pass-through encoder, for any command line, buffer     *)
(* size and width of unsigned int that satisfy the assumptions.            *)
(***************************************************************************)
EXTENDS PassThruProperties, IndexLemmas, FiniteSetTheorems

\* The options of the table of fields, one by one.
LEMMA FieldIdsAre ==
  FieldIds = {"pktver", "pkttype", "pktsec", "pktapid", "pktid", "pktseqflg", "pktseqcnt", "pktlen",
     "pktedsver", "pktendian", "pktpb", "pktsubsys", "pktsys", "cmdcode", "pktfc", "pktcksum"}
BY DEF FieldIds, FieldOf

\* Every field lies inside a header word.
LEMMA FieldShape ==
  \A id \in FieldIds : /\ FieldOf[id].word \in WordIds
                       /\ FieldOf[id].lo \in 0..15
                       /\ FieldOf[id].hi \in 0..15
BY FieldIdsAre DEF FieldOf, Field, WordIds

\* The options of the table of payload numbers, one by one.
LEMMA NumberIdsAre ==
  NumberIds = {"int8", "byte", "int16", "half", "int16b", "int32", "long", "word", "int32b",
     "int64", "int64b", "uint8", "uint16", "uint16b", "uint32", "uint32b", "uint64", "uint64b",
     "float", "double"}
BY DEF NumberIds, NumberOf

\* A payload number is one to eight bytes long.
LEMMA NumberShape == \A id \in NumberIds : NumberOf[id].size \in 1..8
BY NumberIdsAre DEF NumberOf, Num

\* The text of a payload number was converted to at least the bytes it is narrowed
\* to (strtoll and strtoull give eight, strtof and strtod the image itself).
LEMMA NumberArg ==
  ASSUME NEW a \in ArgV, a.id \in NumberIds
  PROVE  a.val \in Seq(Byte) /\ NumberOf[a.id].size <= Len(a.val)
<1>1. a.val \in Seq(Byte)
  <2>1. a \in Arg
    BY ArgAssumption
  <2>2. /\ a.id \notin FieldIds
        /\ a.id \notin {"string", "endian", "protocol", "NONE", "pktname"}
    BY FieldIdsAre, NumberIdsAre
  <2> QED
    BY <2>1, <2>2 DEF Arg
<1>2. Len(a.val) = IF NumberOf[a.id].kind = "real" THEN NumberOf[a.id].size ELSE 8
  BY ArgAssumption
<1> QED
  BY <1>1, <1>2, NumberShape

\* A fixed length string is bytes and a length.
LEMMA StringArg ==
  ASSUME NEW a \in ArgV, a.id = "string"
  PROVE  a.text \in Seq(Byte) /\ a.width \in Nat
<1>1. a \in Arg
  BY ArgAssumption
<1>2. a.id \notin FieldIds /\ a.id \notin NumberIds
  BY FieldIdsAre, NumberIdsAre
<1>3. a \in [id : {"string"}, ok : BOOLEAN, width : Nat, text : Seq(Byte \ {{}})]
  BY <1>1, <1>2 DEF Arg
<1>4. a.text \in Seq(Byte \ {{}}) /\ a.width \in Nat
  BY <1>3
<1> QED
  BY <1>4

\* CopyData never lets the payload grow beyond the buffer, and overruns it only
\* when the sum its test looks at wrapped around.
LEMMA CopyDataShape ==
  ASSUME NEW pl \in Seq(Byte), Len(pl) <= MAX_PACKET_SIZE,
         NEW bytes \in Seq(Byte), NEW n \in Nat, n <= Len(bytes)
  PROVE  LET c == CopyData(pl, bytes, n)
         IN /\ c.payload \in Seq(Byte)
            /\ Len(c.payload) <= MAX_PACKET_SIZE
            /\ c.verdict \in {"ACCEPTED", "INVALID", "OVERRUN"}
            /\ Len(pl) + n < UINT_MOD => c.verdict # "OVERRUN"
            /\ c.verdict = "ACCEPTED" => Len(c.payload) = Len(pl) + n
<1>1. CASE ~Room(Len(pl), n)
  BY <1>1 DEF CopyData
<1>2. CASE Room(Len(pl), n) /\ Len(pl) + n > MAX_PACKET_SIZE
  <2>1. Len(pl) + n >= UINT_MOD
    BY <1>2, SizeAssumption, UintAssumption DEF Room
  <2> QED
    BY <1>2, <2>1, UintAssumption DEF CopyData
<1>3. CASE Room(Len(pl), n) /\ Len(pl) + n <= MAX_PACKET_SIZE
  <2>1. CopyData(pl, bytes, n) = [verdict |-> "ACCEPTED", payload |-> pl \o SubSeq(bytes, 1, n)]
    BY <1>3, SizeAssumption DEF CopyData
  <2>2. SubSeq(bytes, 1, n) \in Seq(Byte) /\ Len(SubSeq(bytes, 1, n)) = n
    OBVIOUS
  <2>3. pl \o SubSeq(bytes, 1, n) \in Seq(Byte)
        /\ Len(pl \o SubSeq(bytes, 1, n)) = Len(pl) + n
    BY <2>2
  <2> QED
    BY <2>1, <2>3, <1>3
<1> QED
  BY <1>1, <1>2, <1>3, SizeAssumption

\* The same of PadData.
LEMMA PadDataShape ==
  ASSUME NEW pl \in Seq(Byte), Len(pl) <= MAX_PACKET_SIZE, NEW n \in Nat
  PROVE  LET c == PadData(pl, n)
         IN /\ c.payload \in Seq(Byte)
            /\ Len(c.payload) <= MAX_PACKET_SIZE
            /\ c.verdict \in {"ACCEPTED", "INVALID", "OVERRUN"}
            /\ Len(pl) + n < UINT_MOD => c.verdict # "OVERRUN"
<1> DEFINE zeros == [i \in 1..n |-> {}]
<1>1. \A i \in 1..n : zeros[i] \in Byte
  BY DEF Byte
<1>2. zeros \in Seq(Byte) /\ Len(zeros) = n
  BY <1>1
<1>3. PadData(pl, n) = CopyData(pl, zeros, n)
  BY DEF PadData
<1> HIDE DEF zeros
<1> QED
  BY <1>2, <1>3, CopyDataShape

\* A new encoder is well typed.
LEMMA InitTypeOK == Init => TypeOK
<1> SUFFICES ASSUME Init PROVE TypeOK
  OBVIOUS
<1> USE DEF Init, Instantiate
<1>1. hdr \in [WordIds -> Word]
  BY DEF Word
<1>2. layout \subseteq Headers
  BY DEF DefaultLayout, LayoutOf, Headers
<1>3. /\ overridden \subseteq Overridable
      /\ bigEndian \in BOOLEAN
      /\ payloadError \in BOOLEAN
  OBVIOUS
<1>4. payload \in Seq(Byte) /\ argv \in Seq(ArgV) /\ packet \in Seq(Byte)
  OBVIOUS
<1>5. status \in Status
  BY DEF Status
<1> QED
  BY <1>1, <1>2, <1>3, <1>4, <1>5 DEF TypeOK

\* The inductive invariant: what is proved of the types is needed for the sizes,
\* and the size of the payload for the space checks.
IInv == TypeOK /\ PackedFits /\ NoOverrun

\* What a verdict of ParseOption makes of the status.
LEMMA ReturnsShape ==
  ASSUME status = "parsing", NEW v \in {"ACCEPTED", "UNDEFINED", "INVALID", "OVERRUN"}, Returns(v)
  PROVE  /\ status' \in {"parsing", "rejected", "overrun"}
         /\ status' = "overrun" => v = "OVERRUN"
BY DEF Returns

\* What a ParseOption action has to show: types, a payload that fits, and an
\* overrun only by a string whose length is near the width of an unsigned int.
LEMMA ParsedArgument ==
  ASSUME IInv, NEW a \in ArgV, argv' = Append(argv, a), packet' = packet,
         hdr' \in [WordIds -> Word], layout' \subseteq Headers, overridden' \subseteq Overridable,
         bigEndian' \in BOOLEAN, payloadError' \in BOOLEAN,
         payload' \in Seq(Byte), Len(payload') <= MAX_PACKET_SIZE,
         status' \in {"parsing", "rejected", "overrun"},
         status' = "overrun" => a.id = "string" /\ a.width + MAX_PACKET_SIZE >= UINT_MOD
  PROVE  IInv'
<1>1. argv' \in Seq(ArgV) /\ packet' \in Seq(Byte)
  BY DEF IInv, TypeOK
<1>2. TypeOK'
  BY <1>1 DEF TypeOK, Status
<1>3. PackedFits'
  BY DEF IInv, PackedFits
<1>4. NoOverrun'
  <2> SUFFICES ASSUME StringLengthsClear', status' = "overrun" PROVE FALSE
    BY DEF NoOverrun
  <2>1. argv \in Seq(ArgV)
    BY DEF IInv, TypeOK
  <2>2. Len(argv) + 1 \in DOMAIN argv' /\ argv'[Len(argv) + 1] = a
    BY <2>1
  <2>3. a.id = "string" => a.width + MAX_PACKET_SIZE < UINT_MOD
    BY <2>2 DEF StringLengthsClear
  <2> QED
    BY <2>3, StringArg, SizeAssumption, UintAssumption
<1> QED
  BY <1>2, <1>3, <1>4 DEF IInv

\* A header field option touches one word, and never the payload.
LEMMA FieldStep ==
  ASSUME IInv, status = "parsing", NEW a \in ArgV, argv' = Append(argv, a), ParseField(a)
  PROVE  IInv'
<1>1. PICK f \in [word : WordIds, lo : 0..15, hi : 0..15] : f = FieldOf[a.id]
  BY FieldShape, FieldIdsAre DEF ParseField, FieldOf, Field, WordIds
<1>2. hdr' \in [WordIds -> Word]
  <2>1. Mask(f) \subseteq 0..15
    BY <1>1 DEF Mask
  <2>2. CASE hdr' = hdr
    BY <2>2 DEF IInv, TypeOK
  <2>3. CASE hdr' # hdr
    <3> DEFINE sh == ShiftLeft(a.val, f.lo)
    <3>1. sh \subseteq Mask(f) /\ hdr' = [hdr EXCEPT ![f.word] = Insert(@, f, sh)]
      BY <2>3, <1>1 DEF ParseField
    <3>2. Insert(hdr[f.word], f, sh) \in Word
      BY <3>1, <2>1, <1>1 DEF IInv, TypeOK, Insert, Word
    <3> QED
      BY <3>1, <3>2, <1>1 DEF IInv, TypeOK
  <2> QED
    BY <2>2, <2>3
<1>3. overridden' \subseteq Overridable
  BY DEF ParseField, IInv, TypeOK
<1>4. PICK v \in {"ACCEPTED", "INVALID"} : Returns(v)
  BY DEF ParseField
<1>5. status' \in {"parsing", "rejected", "overrun"} /\ status' # "overrun"
  BY <1>4, ReturnsShape
<1> QED
  BY <1>2, <1>3, <1>5, ParsedArgument DEF ParseField, IInv, TypeOK, PackedFits

\* --endian keeps the invariant.
LEMMA EndianStep ==
  ASSUME IInv, status = "parsing", NEW a \in ArgV, argv' = Append(argv, a), ParseEndian(a)
  PROVE  IInv'
<1>1. PICK v \in {"ACCEPTED", "INVALID"} : Returns(v)
  BY DEF ParseEndian
<1>2. status' \in {"parsing", "rejected", "overrun"} /\ status' # "overrun"
  BY <1>1, ReturnsShape
<1>3. bigEndian' \in BOOLEAN
  BY DEF ParseEndian, IInv, TypeOK
<1> QED
  BY <1>2, <1>3, ParsedArgument DEF ParseEndian, IInv, TypeOK, PackedFits

\* --protocol keeps the invariant.
LEMMA ProtocolStep ==
  ASSUME IInv, status = "parsing", NEW a \in ArgV, argv' = Append(argv, a), ParseProtocol(a)
  PROVE  IInv'
<1>1. PICK v \in {"ACCEPTED", "INVALID"} : Returns(v)
  BY DEF ParseProtocol
<1>2. status' \in {"parsing", "rejected", "overrun"} /\ status' # "overrun"
  BY <1>1, ReturnsShape
<1>3. layout' \subseteq Headers
  BY DEF ParseProtocol, LayoutOf, Headers
<1> QED
  BY <1>2, <1>3, ParsedArgument DEF ParseProtocol, IInv, TypeOK, PackedFits

\* Byte order does not change how many bytes there are.
LEMMA OrderedShape ==
  ASSUME NEW bytes \in Seq(Byte), NEW big \in BOOLEAN
  PROVE  Ordered(bytes, big) \in Seq(Byte) /\ Len(Ordered(bytes, big)) = Len(bytes)
BY DEF Ordered, Reverse

\* Narrowing gives as many bytes as asked for.
LEMMA LowShape ==
  ASSUME NEW val \in Seq(Byte), NEW size \in 1..8, size <= Len(val)
  PROVE  Low(val, size) \in Seq(Byte) /\ Len(Low(val, size)) = size
BY DEF Low

\* A payload number is at most eight bytes: its space check cannot wrap.
LEMMA NumberStep ==
  ASSUME IInv, status = "parsing", NEW a \in ArgV, argv' = Append(argv, a), ParseNumber(a)
  PROVE  IInv'
<1> DEFINE n == NumberOf[a.id]
           image == Ordered(Low(a.val, n.size), bigEndian \/ a.id \in ForcedBigEndian)
           copy == CopyData(payload, image, n.size)
<1>0. a.id \in NumberIds
  BY DEF ParseNumber
<1>1. n.size \in 1..8 /\ a.val \in Seq(Byte) /\ n.size <= Len(a.val)
  BY <1>0, NumberShape, NumberArg
<1>2. Low(a.val, n.size) \in Seq(Byte) /\ Len(Low(a.val, n.size)) = n.size
  BY <1>1, LowShape
<1>3. image \in Seq(Byte) /\ Len(image) = n.size
  BY <1>2, OrderedShape
<1>4. payload \in Seq(Byte) /\ Len(payload) <= MAX_PACKET_SIZE
  BY DEF IInv, TypeOK, PackedFits
<1>5. /\ copy.payload \in Seq(Byte)
      /\ Len(copy.payload) <= MAX_PACKET_SIZE
      /\ copy.verdict \in {"ACCEPTED", "INVALID"}
  <2> HIDE DEF n, image
  <2>1. n.size \in Nat /\ n.size <= 8 /\ n.size <= Len(image)
    BY <1>1, <1>3
  <2>2. Len(payload) \in Nat
    BY <1>4
  <2>3. Len(payload) + n.size < UINT_MOD
    BY <1>4, <2>1, <2>2, UintAssumption, SizeAssumption
  <2>4. n.size \in Nat /\ n.size <= Len(image) /\ Len(payload) + n.size < UINT_MOD
    BY <2>1, <2>3
  <2> USE DEF n, image
  <2> QED
    BY <2>4, <1>3, <1>4, CopyDataShape
<1>6. \/ payload' = copy.payload /\ Returns(copy.verdict)
      \/ payload' = payload /\ Returns("INVALID")
  BY DEF ParseNumber, Collect
<1>7. payload' \in Seq(Byte) /\ Len(payload') <= MAX_PACKET_SIZE
  BY <1>4, <1>5, <1>6
<1>8. PICK v \in {"ACCEPTED", "INVALID"} : Returns(v)
  BY <1>5, <1>6
<1>9. status' \in {"parsing", "rejected", "overrun"} /\ status' # "overrun"
  BY <1>8, ReturnsShape
<1> QED
  BY <1>7, <1>9, ParsedArgument DEF ParseNumber, IInv, TypeOK

\* Cutting a number to an unsigned int.
LEMMA ModShape ==
  ASSUME NEW m \in Nat, m > 0, NEW k \in Nat
  PROVE  k % m \in Nat /\ k % m < m /\ k % m <= k /\ (k < m => k % m = k)
<1>1. k % m \in Nat /\ k % m < m
  OBVIOUS
<1>2. k < m => k % m = k
  OBVIOUS
<1> QED
  BY <1>1, <1>2

\* A fixed length string keeps the invariant: when its length is clear of the width
\* of an unsigned int neither the copy nor the padding wraps.
LEMMA StringStep ==
  ASSUME IInv, status = "parsing", NEW a \in ArgV, argv' = Append(argv, a), ParseString(a)
  PROVE  IInv'
<1> DEFINE len == Len(a.text)
           first == len % UINT_MOD
           rest == (a.width - len) % UINT_MOD
           copied == CopyData(payload, a.text, first)
           padded == PadData(copied.payload, rest)
           both == IF copied.verdict = "ACCEPTED" /\ len # a.width THEN padded ELSE copied
<1>1. a.id = "string" /\ a.text \in Seq(Byte) /\ a.width \in Nat /\ len \in Nat
  BY StringArg DEF ParseString
<1>2. payload \in Seq(Byte) /\ Len(payload) <= MAX_PACKET_SIZE
  BY DEF IInv, TypeOK, PackedFits
<1>3. CASE ~a.ok \/ a.width = 0 \/ len > a.width
  <2>1. payload' = payload /\ Returns("INVALID")
    BY <1>3, <1>1 DEF ParseString
  <2>2. status' \in {"parsing", "rejected", "overrun"} /\ status' # "overrun"
    BY <2>1, ReturnsShape
  <2> QED
    BY <2>1, <2>2, <1>2, ParsedArgument DEF ParseString, IInv, TypeOK
<1>4. CASE a.ok /\ a.width # 0 /\ len <= a.width
  <2>1. first \in Nat /\ first <= len /\ rest \in Nat /\ rest < UINT_MOD
    <3>1. UINT_MOD \in Nat /\ UINT_MOD > 0
      BY UintAssumption, SizeAssumption
    <3>2. len \in Nat /\ a.width - len \in Nat
      BY <1>1, <1>4
    <3> QED
      BY <3>1, <3>2, ModShape
  <2>2. /\ copied.payload \in Seq(Byte)
        /\ Len(copied.payload) <= MAX_PACKET_SIZE
        /\ copied.verdict \in {"ACCEPTED", "INVALID", "OVERRUN"}
        /\ Len(payload) + first < UINT_MOD => copied.verdict # "OVERRUN"
    BY <2>1, <1>1, <1>2, CopyDataShape
  <2>3. /\ padded.payload \in Seq(Byte)
        /\ Len(padded.payload) <= MAX_PACKET_SIZE
        /\ padded.verdict \in {"ACCEPTED", "INVALID", "OVERRUN"}
        /\ Len(copied.payload) + rest < UINT_MOD => padded.verdict # "OVERRUN"
    <3> HIDE DEF copied, rest
    <3> QED
      BY <2>1, <2>2, PadDataShape
  <2>4. /\ both.payload \in Seq(Byte)
        /\ Len(both.payload) <= MAX_PACKET_SIZE
        /\ both.verdict \in {"ACCEPTED", "INVALID", "OVERRUN"}
    BY <2>2, <2>3
  <2>5. both.verdict = "OVERRUN" => a.width + MAX_PACKET_SIZE >= UINT_MOD
    <3>1. CASE a.width + MAX_PACKET_SIZE < UINT_MOD
      <4>1. UINT_MOD > 0 /\ UINT_MOD \in Nat /\ MAX_PACKET_SIZE \in Nat
        BY SizeAssumption, UintAssumption
      <4>2. len < UINT_MOD /\ a.width - len \in Nat /\ a.width - len < UINT_MOD
        BY <3>1, <4>1, <1>1, <1>4
      <4>3. rest = a.width - len /\ first = len
        BY <4>1, <4>2, <1>1, ModShape
      <4>4. Len(payload) + first < UINT_MOD
        <5> HIDE DEF first, len
        <5> QED
          BY <3>1, <4>1, <4>3, <1>1, <1>2, <1>4
      <4>5. Len(copied.payload) \in Nat /\ Len(copied.payload) <= MAX_PACKET_SIZE
        <5> HIDE DEF copied
        <5> QED
          BY <2>2
      <4>6. Len(copied.payload) + rest < UINT_MOD
        <5> HIDE DEF copied, rest, len
        <5> QED
          BY <3>1, <4>1, <4>2, <4>3, <4>5, <1>1
      <4> QED
        BY <4>4, <4>6, <2>2, <2>3
    <3>2. CASE ~(a.width + MAX_PACKET_SIZE < UINT_MOD)
      <4>1. a.width \in Nat /\ MAX_PACKET_SIZE \in Nat /\ UINT_MOD \in Nat
        BY <1>1, SizeAssumption, UintAssumption
      <4> QED
        BY <3>2, <4>1
    <3> QED
      BY <3>1, <3>2
  <2>6. payload' = both.payload /\ Returns(both.verdict)
    BY <1>4, <1>1 DEF ParseString, Collect
  <2>7. /\ status' \in {"parsing", "rejected", "overrun"}
        /\ status' = "overrun" => both.verdict = "OVERRUN"
    <3>1. PICK v \in {"ACCEPTED", "UNDEFINED", "INVALID", "OVERRUN"} : v = both.verdict
      BY <2>4
    <3> QED
      BY <3>1, <2>6, ReturnsShape
  <2> QED
    BY <2>4, <2>5, <2>6, <2>7, <1>1, ParsedArgument DEF ParseString, IInv, TypeOK
<1> QED
  BY <1>1, <1>3, <1>4

\* What no case of the switch handles keeps the invariant.
LEMMA OtherStep ==
  ASSUME IInv, status = "parsing", NEW a \in ArgV, argv' = Append(argv, a), ParseOther(a)
  PROVE  IInv'
<1>1. Returns("UNDEFINED")
  BY DEF ParseOther
<1>2. status' \in {"parsing", "rejected", "overrun"} /\ status' # "overrun"
  BY <1>1, ReturnsShape
<1>3. payloadError' \in BOOLEAN
  BY DEF ParseOther, IInv, TypeOK
<1> QED
  BY <1>2, <1>3, ParsedArgument DEF ParseOther, IInv, TypeOK, PackedFits

-----------------------------------------------------------------------------
(* GetPackedObject.                                                        *)

\* A header word is two bytes on the wire.
LEMMA WordBytesShape ==
  ASSUME NEW w PROVE WordBytes(w) \in Seq(Byte) /\ Len(WordBytes(w)) = 2
<1>1. HighByte(w) \in Byte /\ LowByte(w) \in Byte
  BY DEF HighByte, LowByte, Byte
<1> QED
  BY <1>1 DEF WordBytes

\* The length of two sequences one after the other.
LEMMA ConcatShape ==
  ASSUME NEW s \in Seq(Byte), NEW t \in Seq(Byte)
  PROVE  s \o t \in Seq(Byte) /\ Len(s \o t) = Len(s) + Len(t)
OBVIOUS

\* The headers chosen take HeaderSize bytes.
LEMMA HeaderBytesShape ==
  ASSUME NEW h, NEW lay
  PROVE  /\ HeaderBytes(h, lay) \in Seq(Byte)
         /\ Len(HeaderBytes(h, lay)) = HeaderSize(lay)
<1> DEFINE pri == IF "Pri" \in lay THEN WordBytes(h["Pri0"]) \o WordBytes(h["Pri1"]) \o WordBytes(h["Pri2"]) ELSE <<>>
           ext == IF "Ext" \in lay THEN WordBytes(h["Ext0"]) \o WordBytes(h["Ext1"]) ELSE <<>>
           sec == IF "Sec" \in lay THEN WordBytes(h["Sec"]) ELSE <<>>
<1>1. pri \in Seq(Byte) /\ Len(pri) = IF "Pri" \in lay THEN 6 ELSE 0
  <2> DEFINE w0 == WordBytes(h["Pri0"])
             w1 == WordBytes(h["Pri1"])
             w2 == WordBytes(h["Pri2"])
  <2>1. /\ w0 \in Seq(Byte) /\ Len(w0) = 2
        /\ w1 \in Seq(Byte) /\ Len(w1) = 2
        /\ w2 \in Seq(Byte) /\ Len(w2) = 2
    BY WordBytesShape
  <2> HIDE DEF w0, w1, w2
  <2>2. w0 \o w1 \in Seq(Byte) /\ Len(w0 \o w1) = 4
    <3>1. w0 \o w1 \in Seq(Byte) /\ Len(w0 \o w1) = Len(w0) + Len(w1)
      BY <2>1, ConcatShape
    <3> QED
      BY <2>1, <3>1
  <2>3. w0 \o w1 \o w2 \in Seq(Byte) /\ Len(w0 \o w1 \o w2) = 6
    BY <2>1, <2>2, ConcatShape
  <2>4. <<>> \in Seq(Byte) /\ Len(<<>>) = 0
    OBVIOUS
  <2>5. pri = IF "Pri" \in lay THEN w0 \o w1 \o w2 ELSE <<>>
    BY DEF w0, w1, w2
  <2> HIDE DEF pri
  <2> QED
    BY <2>3, <2>4, <2>5
<1>2. ext \in Seq(Byte) /\ Len(ext) = IF "Ext" \in lay THEN 4 ELSE 0
  <2> DEFINE w0 == WordBytes(h["Ext0"])
             w1 == WordBytes(h["Ext1"])
  <2>1. /\ w0 \in Seq(Byte) /\ Len(w0) = 2
        /\ w1 \in Seq(Byte) /\ Len(w1) = 2
    BY WordBytesShape
  <2> HIDE DEF w0, w1
  <2>2. w0 \o w1 \in Seq(Byte) /\ Len(w0 \o w1) = 4
    <3>1. w0 \o w1 \in Seq(Byte) /\ Len(w0 \o w1) = Len(w0) + Len(w1)
      BY <2>1, ConcatShape
    <3> QED
      BY <2>1, <3>1
  <2>3. <<>> \in Seq(Byte) /\ Len(<<>>) = 0
    OBVIOUS
  <2>4. ext = IF "Ext" \in lay THEN w0 \o w1 ELSE <<>>
    BY DEF w0, w1
  <2> HIDE DEF ext
  <2> QED
    BY <2>2, <2>3, <2>4
<1>3. sec \in Seq(Byte) /\ Len(sec) = IF "Sec" \in lay THEN 2 ELSE 0
  <2> DEFINE w0 == WordBytes(h["Sec"])
  <2>1. w0 \in Seq(Byte) /\ Len(w0) = 2 /\ 2 \in Nat
    BY WordBytesShape
  <2>2. <<>> \in Seq(Byte) /\ Len(<<>>) = 0
    OBVIOUS
  <2>3. sec = IF "Sec" \in lay THEN w0 ELSE <<>>
    OBVIOUS
  <2> HIDE DEF w0, sec
  <2>4. CASE "Sec" \in lay
    BY <2>1, <2>3, <2>4
  <2>5. CASE "Sec" \notin lay
    BY <2>2, <2>3, <2>5
  <2> QED
    BY <2>4, <2>5
<1>4. HeaderBytes(h, lay) = pri \o ext \o sec
  BY DEF HeaderBytes
<1>5. HeaderSize(lay) = Len(pri) + Len(ext) + Len(sec)
  <2> HIDE DEF pri, ext, sec
  <2> QED
    BY <1>1, <1>2, <1>3 DEF HeaderSize
<1> HIDE DEF pri, ext, sec
<1>6. pri \o ext \in Seq(Byte) /\ Len(pri \o ext) = Len(pri) + Len(ext)
  BY <1>1, <1>2, ConcatShape
<1>7. pri \o ext \o sec \in Seq(Byte) /\ Len(pri \o ext \o sec) = Len(pri \o ext) + Len(sec)
  BY <1>3, <1>6, ConcatShape
<1> QED
  BY <1>4, <1>5, <1>6, <1>7

\* The checksum replaces a byte and adds none.
LEMMA WithChecksumShape ==
  ASSUME NEW bytes \in Seq(Byte)
  PROVE  WithChecksum(bytes) \in Seq(Byte) /\ Len(WithChecksum(bytes)) = Len(bytes)
<1>1. CalcChecksum(bytes) \in Byte
  BY DEF CalcChecksum, Byte
<1> DEFINE closed == [bytes EXCEPT ![Len(bytes)] = CalcChecksum(bytes)]
<1>2. DOMAIN closed = 1..Len(bytes) /\ \A i \in 1..Len(bytes) : closed[i] \in Byte
  BY <1>1
<1>3. closed \in [1..Len(bytes) -> Byte]
  BY <1>1, <1>2
<1>4. closed \in Seq(Byte) /\ Len(closed) = Len(bytes)
  <2> HIDE DEF closed
  <2> QED
    BY <1>3
<1> QED
  BY <1>4 DEF WithChecksum

\* Default values stay inside their header words.
LEMMA WithDefaultsShape ==
  ASSUME hdr \in [WordIds -> Word], NEW n
  PROVE  WithDefaults(n) \in [WordIds -> Word]
<1>1. LengthWord(n) \in Word
  BY DEF LengthWord, Word
<1> QED
  BY <1>1 DEF WithDefaults, WordIds, Word

\* A packet is within the network buffer: GetPackedObject's size check.
LEMMA PackStep ==
  ASSUME IInv, GetPackedObject
  PROVE  IInv'
<1> USE DEF IInv, TypeOK, PackedFits
<1>1. CASE PackedSize > MAX_PACKET_SIZE /\ status' = "refused" /\ UNCHANGED <<hdr, packet>>
  BY <1>1 DEF GetPackedObject, Status, NoOverrun, StringLengthsClear
<1>2. CASE /\ PackedSize <= MAX_PACKET_SIZE
           /\ hdr' = WithDefaults(PackedSize)
           /\ packet' = WithChecksum(HeaderBytes(hdr', layout)) \o payload
           /\ status' = "packed"
  <2> DEFINE head == WithChecksum(HeaderBytes(hdr', layout))
  <2>1. hdr' \in [WordIds -> Word]
    BY <1>2, WithDefaultsShape
  <2>2. head \in Seq(Byte) /\ Len(head) = HeaderSize(layout)
    BY HeaderBytesShape, WithChecksumShape
  <2>3. packet' \in Seq(Byte) /\ Len(packet') = HeaderSize(layout) + Len(payload)
    BY <1>2, <2>2
  <2>4. Len(packet') <= MAX_PACKET_SIZE
    BY <1>2, <2>2, <2>3 DEF PackedSize
  <2>5. UNCHANGED <<layout, overridden, bigEndian, payloadError, payload, argv>>
    BY DEF GetPackedObject
  <2> QED
    BY <1>2, <2>1, <2>3, <2>4, <2>5 DEF Status, NoOverrun
<1> QED
  BY <1>1, <1>2 DEF GetPackedObject

-----------------------------------------------------------------------------

\* The steps, on a command line of any length.
Calls == (\E a \in ArgV : ParseOption(a)) \/ GetPackedObject

LEMMA NextCalls == Next => Calls
BY DEF Next, Calls

\* Every step keeps the invariant.
LEMMA NextStep ==
  ASSUME IInv, [Calls]_vars
  PROVE  IInv'
<1>1. CASE UNCHANGED vars
  BY <1>1 DEF vars, IInv, TypeOK, PackedFits, NoOverrun, StringLengthsClear
<1>2. CASE GetPackedObject
  BY <1>2, PackStep
<1>3. ASSUME NEW a \in ArgV, ParseOption(a) PROVE IInv'
  <2>1. status = "parsing" /\ argv' = Append(argv, a)
    BY <1>3 DEF ParseOption
  <2>2. CASE ParseField(a)
    BY <2>1, <2>2, FieldStep
  <2>3. CASE ParseEndian(a)
    BY <2>1, <2>3, EndianStep
  <2>4. CASE ParseProtocol(a)
    BY <2>1, <2>4, ProtocolStep
  <2>5. CASE ParseNumber(a)
    BY <2>1, <2>5, NumberStep
  <2>6. CASE ParseString(a)
    BY <2>1, <2>6, StringStep
  <2>7. CASE ParseOther(a)
    BY <2>1, <2>7, OtherStep
  <2> QED
    BY <1>3, <2>2, <2>3, <2>4, <2>5, <2>6, <2>7 DEF ParseOption
<1> QED
  BY <1>1, <1>2, <1>3 DEF Calls

\* A new encoder satisfies the invariant.
LEMMA InitIInv == Init => IInv
<1>1. Init => PackedFits /\ NoOverrun
  BY SizeAssumption DEF Init, Instantiate, PackedFits, NoOverrun
<1> QED
  BY <1>1, InitTypeOK DEF IInv

\* The inductive invariant holds throughout.
THEOREM Invariance == Spec => []IInv
<1>1. Init => IInv
  BY InitIInv
<1>2. IInv /\ [Next]_vars => IInv'
  BY NextStep, NextCalls
<1> QED
  BY <1>1, <1>2, PTL DEF Spec

\* Every variable keeps its type, for any arguments and any buffer size.
THEOREM TypeCorrect == Spec => []TypeOK
<1>1. IInv => TypeOK
  BY DEF IInv
<1> QED
  BY <1>1, Invariance, PTL

\* No payload and no packet is ever longer than the buffers it is written to.
THEOREM PacketsFit == Spec => []PackedFits
<1>1. IInv => PackedFits
  BY DEF IInv
<1> QED
  BY <1>1, Invariance, PTL

\* No copy runs past the payload buffer as long as the string lengths asked for
\* leave room below 2^32.
THEOREM CopiesStayInside == Spec => []NoOverrun
<1>1. IInv => NoOverrun
  BY DEF IInv
<1> QED
  BY <1>1, Invariance, PTL

-----------------------------------------------------------------------------
(* What the encoder's state says of the command line read so far.          *)

\* The arguments that write a bit of a header word, and those of an option.
WriterArgs(w, b) ==
    {a \in ArgV : a.id \in FieldIds /\ FieldOf[a.id].word = w /\ b \in Mask(FieldOf[a.id])}
WithId(id) == {a \in ArgV : a.id = id}

\* What a command line v asks for.
AskedIn(v, w, b) ==
    /\ Where(v, WriterArgs(w, b)) # {}
    /\ b - FieldOf[Latest(v, WriterArgs(w, b)).id].lo \in Latest(v, WriterArgs(w, b)).val
GivenIn(v, id) == Where(v, WithId(id)) # {}
BigIn(v) == Where(v, WithId("endian")) # {} => Latest(v, WithId("endian")).name = "BE"
LayoutIn(v) ==
    IF Where(v, WithId("protocol")) = {} THEN DefaultLayout
    ELSE LayoutOf[Latest(v, WithId("protocol")).name]

\* It is what the properties read from argv.
ReadingAgrees ==
    argv \in Seq(ArgV) =>
      /\ \A w, b : Asked(w, b) <=> AskedIn(argv, w, b)
      /\ \A id : Given(id) <=> GivenIn(argv, id)
      /\ BigAt(Len(argv)) <=> BigIn(argv)
      /\ ChosenLayout = LayoutIn(argv)

\* For any sequence of arguments.
LEMMA ReadingIs == ReadingAgrees
<1> SUFFICES ASSUME argv \in Seq(ArgV)
             PROVE  /\ \A w, b : Asked(w, b) <=> AskedIn(argv, w, b)
                    /\ \A id : Given(id) <=> GivenIn(argv, id)
                    /\ BigAt(Len(argv)) <=> BigIn(argv)
                    /\ ChosenLayout = LayoutIn(argv)
  BY DEF ReadingAgrees
<1>1. \A k \in DOMAIN argv : argv[k] \in ArgV
  OBVIOUS
<1>2. DOMAIN argv = 1..Len(argv)
  OBVIOUS
<1>3. \A w, b : Writers(w, b) = Where(argv, WriterArgs(w, b))
  BY <1>1 DEF Writers, Where, WriterArgs
<1>4. \A id : LastOf(id, Len(argv)) = Where(argv, WithId(id))
  BY <1>1, <1>2 DEF LastOf, Where, WithId
<1>5. \A w, b : Asked(w, b) <=> AskedIn(argv, w, b)
  BY <1>3, Zenon DEF Asked, AskedIn, Latest
<1>6. \A id : Given(id) <=> GivenIn(argv, id)
  BY <1>1 DEF Given, GivenIn, Where, WithId
<1>7. BigAt(Len(argv)) <=> BigIn(argv)
  BY <1>4, Zenon DEF BigAt, BigIn, Latest
<1>8. ChosenLayout = LayoutIn(argv)
  <2>1. LastOf("protocol", Len(argv)) = Where(argv, WithId("protocol"))
    BY <1>4
  <2> QED
    BY <2>1 DEF ChosenLayout, LayoutIn, Latest
<1> QED
  BY <1>5, <1>6, <1>7, <1>8

\* One argument more: the last word on every bit and option it is about.
LEMMA ReadOneMore ==
  ASSUME NEW v \in Seq(ArgV), NEW a \in ArgV
  PROVE  /\ \A w, b : AskedIn(Append(v, a), w, b) <=>
                        IF a \in WriterArgs(w, b) THEN b - FieldOf[a.id].lo \in a.val ELSE AskedIn(v, w, b)
         /\ \A id : GivenIn(Append(v, a), id) <=> GivenIn(v, id) \/ a.id = id
         /\ a.id # "endian" => (BigIn(Append(v, a)) <=> BigIn(v))
         /\ a.id = "endian" => (BigIn(Append(v, a)) <=> a.name = "BE")
         /\ a.id # "protocol" => LayoutIn(Append(v, a)) = LayoutIn(v)
         /\ a.id = "protocol" => LayoutIn(Append(v, a)) = LayoutOf[a.name]
<1>1. \A S : /\ a \in S => Where(Append(v, a), S) # {} /\ Latest(Append(v, a), S) = a
             /\ a \notin S => /\ Where(Append(v, a), S) = Where(v, S)
                              /\ Where(v, S) # {} => Latest(Append(v, a), S) = Latest(v, S)
  BY LatestAppended
<1>2. \A w, b : AskedIn(Append(v, a), w, b) <=>
                  IF a \in WriterArgs(w, b) THEN b - FieldOf[a.id].lo \in a.val ELSE AskedIn(v, w, b)
  <2> TAKE w, b
  <2>1. CASE a \in WriterArgs(w, b)
    BY <1>1, <2>1, Zenon DEF AskedIn
  <2>2. CASE a \notin WriterArgs(w, b)
    BY <1>1, <2>2, Zenon DEF AskedIn
  <2> QED
    BY <2>1, <2>2
<1>3. \A id : a \in WithId(id) <=> a.id = id
  BY DEF WithId
<1>4. \A id : GivenIn(Append(v, a), id) <=> GivenIn(v, id) \/ a.id = id
  <2> TAKE id
  <2>1. CASE a.id = id
    BY <1>1, <1>3, <2>1, Zenon DEF GivenIn
  <2>2. CASE a.id # id
    BY <1>1, <1>3, <2>2, Zenon DEF GivenIn
  <2> QED
    BY <2>1, <2>2
<1>5. a.id # "endian" => (BigIn(Append(v, a)) <=> BigIn(v))
  BY <1>1, <1>3, Zenon DEF BigIn
<1>6. a.id = "endian" => (BigIn(Append(v, a)) <=> a.name = "BE")
  BY <1>1, <1>3, Zenon DEF BigIn
<1>7. a.id # "protocol" => LayoutIn(Append(v, a)) = LayoutIn(v)
  <2>1. ASSUME a.id # "protocol" PROVE Where(Append(v, a), WithId("protocol")) = Where(v, WithId("protocol"))
    BY <1>1, <1>3, <2>1, Zenon
  <2> QED
    BY <1>1, <1>3, <2>1, Zenon DEF LayoutIn
<1>8. a.id = "protocol" => LayoutIn(Append(v, a)) = LayoutOf[a.name]
  BY <1>1, <1>3, Zenon DEF LayoutIn
<1> QED
  BY <1>2, <1>4, <1>5, <1>6, <1>7, <1>8

Layouts == {LayoutOf[p] : p \in DOMAIN LayoutOf}

\* While it reads, and once it has packed, the encoder knows what was asked for.
ReadInv ==
    /\ status = "parsing" => \A w \in WordIds : \A b \in 0..15 : b \in hdr[w] <=> AskedIn(argv, w, b)
    /\ status \in {"parsing", "packed"} =>
         /\ \A id \in Overridable : id \in overridden <=> GivenIn(argv, id)
         /\ bigEndian <=> BigIn(argv)
         /\ layout = LayoutIn(argv) /\ layout \in Layouts

\* An encoder that still parses has not rejected the argument.
LEMMA StillParsing ==
  ASSUME status = "parsing", status' = "parsing", NEW v, Returns(v)
  PROVE  v # "INVALID" /\ v # "OVERRUN"
BY DEF Returns

\* No option is of two kinds.
LEMMA OptionKinds ==
  /\ {"endian", "protocol", "string", "NONE", "pktname"} \cap FieldIds = {}
  /\ {"endian", "protocol", "string", "NONE", "pktname"} \cap NumberIds = {}
  /\ FieldIds \cap NumberIds = {}
  /\ Overridable \subseteq FieldIds
BY FieldIdsAre, NumberIdsAre DEF Overridable

\* A field that was accepted: the bits of its mask are those of its value.
LEMMA FieldRead ==
  ASSUME ReadInv, TypeOK, status = "parsing", status' = "parsing", NEW a \in ArgV,
         argv' = Append(argv, a), ParseField(a)
  PROVE  ReadInv'
<1> DEFINE f == FieldOf[a.id]
           sh == ShiftLeft(a.val, f.lo)
<1>1. /\ a.id \in FieldIds /\ argv \in Seq(ArgV)
      /\ f.word \in WordIds /\ f.lo \in 0..15 /\ f.hi \in 0..15
      /\ hdr \in [WordIds -> Word]
  BY FieldShape DEF ParseField, TypeOK
<1>2. sh \subseteq Mask(f) /\ hdr' = [hdr EXCEPT ![f.word] = Insert(@, f, sh)]
  BY StillParsing DEF ParseField
<1>3. \A b \in 0..15 : b \in sh <=> b - f.lo \in a.val
  <2>1. \A b \in 0..15 : b \in 0..63
    OBVIOUS
  <2> QED
    BY <2>1 DEF ShiftLeft
<1>4. \A w, b : a \in WriterArgs(w, b) <=> w = f.word /\ b \in Mask(f)
  BY <1>1 DEF WriterArgs
<1>5. \A w, b : AskedIn(argv', w, b) <=>
                  IF a \in WriterArgs(w, b) THEN b - f.lo \in a.val ELSE AskedIn(argv, w, b)
  BY <1>1, ReadOneMore
<1>6. \A w \in WordIds : \A b \in 0..15 : b \in hdr[w] <=> AskedIn(argv, w, b)
  BY DEF ReadInv
<1> HIDE DEF f, sh
<1>7. ASSUME NEW w \in WordIds, NEW b \in 0..15
      PROVE  b \in hdr'[w] <=> AskedIn(argv', w, b)
  <2>1. CASE w # f.word
    <3>1. hdr'[w] = hdr[w]
      BY <2>1, <1>1, <1>2
    <3> QED
      BY <2>1, <3>1, <1>4, <1>5, <1>6, <1>7
  <2>2. CASE w = f.word
    <3>1. hdr'[w] = (hdr[w] \ Mask(f)) \cup sh
      BY <2>2, <1>1, <1>2 DEF Insert
    <3>2. CASE b \in Mask(f)
      BY <2>2, <3>1, <3>2, <1>3, <1>4, <1>5, <1>7
    <3>3. CASE b \notin Mask(f)
      BY <2>2, <3>1, <3>3, <1>2, <1>4, <1>5, <1>6, <1>7
    <3> QED
      BY <3>2, <3>3
  <2> QED
    BY <2>1, <2>2
<1>8. UNCHANGED <<layout, bigEndian>> /\ overridden' = overridden \cup ({a.id} \cap Overridable)
  BY DEF ParseField
<1>9. /\ \A id : GivenIn(argv', id) <=> GivenIn(argv, id) \/ a.id = id
      /\ BigIn(argv') <=> BigIn(argv)
      /\ LayoutIn(argv') = LayoutIn(argv)
  BY <1>1, ReadOneMore, OptionKinds
<1>10. \A id \in Overridable : id \in overridden' <=> GivenIn(argv', id)
  BY <1>8, <1>9 DEF ReadInv
<1> QED
  BY <1>7, <1>8, <1>9, <1>10, Zenon DEF ReadInv

\* Any other argument that was accepted leaves the header alone.
LEMMA OtherRead ==
  ASSUME ReadInv, TypeOK, status = "parsing", status' = "parsing", NEW a \in ArgV,
         argv' = Append(argv, a),
         ParseEndian(a) \/ ParseProtocol(a) \/ ParseNumber(a) \/ ParseString(a) \/ ParseOther(a)
  PROVE  ReadInv'
<1>1. /\ a.id \notin FieldIds /\ argv \in Seq(ArgV)
      /\ UNCHANGED <<hdr, overridden>>
  BY OptionKinds DEF ParseEndian, ParseProtocol, ParseNumber, ParseString, ParseOther, TypeOK
<1>2. \A w, b : a \notin WriterArgs(w, b)
  BY <1>1 DEF WriterArgs
<1>3. \A w, b : AskedIn(argv', w, b) <=> AskedIn(argv, w, b)
  BY <1>1, <1>2, ReadOneMore
<1>4. \A id \in Overridable : GivenIn(argv', id) <=> GivenIn(argv, id)
  BY <1>1, ReadOneMore, OptionKinds
<1>5. (bigEndian' <=> BigIn(argv')) /\ bigEndian' \in BOOLEAN
  <2>1. CASE ParseEndian(a)
    <3>1. /\ a.id = "endian" /\ a.name \in {"LE", "BE"}
          /\ bigEndian' = IF a.name = "LE" THEN FALSE ELSE IF a.name = "BE" THEN TRUE ELSE bigEndian
      BY <2>1, StillParsing DEF ParseEndian
    <3>2. BigIn(argv') <=> a.name = "BE"
      BY <1>1, <3>1, ReadOneMore
    <3> QED
      BY <3>1, <3>2
  <2>2. CASE ParseProtocol(a) \/ ParseNumber(a) \/ ParseString(a) \/ ParseOther(a)
    <3>1. a.id # "endian" /\ bigEndian' = bigEndian
      BY <2>2, OptionKinds DEF ParseProtocol, ParseNumber, ParseString, ParseOther
    <3>2. BigIn(argv') <=> BigIn(argv)
      BY <1>1, <3>1, ReadOneMore
    <3> QED
      BY <3>1, <3>2, Zenon DEF ReadInv, TypeOK
  <2> QED
    BY <2>1, <2>2
<1>6. layout' = LayoutIn(argv') /\ layout' \in Layouts
  <2>1. CASE ParseProtocol(a)
    <3>1. a.id = "protocol" /\ a.name \in DOMAIN LayoutOf /\ layout' = LayoutOf[a.name]
      BY <2>1, StillParsing DEF ParseProtocol
    <3>2. LayoutIn(argv') = LayoutOf[a.name]
      BY <1>1, <3>1, ReadOneMore
    <3> QED
      BY <3>1, <3>2 DEF Layouts
  <2>2. CASE ParseEndian(a) \/ ParseNumber(a) \/ ParseString(a) \/ ParseOther(a)
    <3>1. a.id # "protocol" /\ layout' = layout
      BY <2>2, OptionKinds DEF ParseEndian, ParseNumber, ParseString, ParseOther
    <3>2. LayoutIn(argv') = LayoutIn(argv)
      BY <1>1, <3>1, ReadOneMore
    <3> QED
      BY <3>1, <3>2 DEF ReadInv
  <2> QED
    BY <2>1, <2>2
<1> QED
  BY <1>1, <1>3, <1>4, <1>5, <1>6, Zenon DEF ReadInv

-----------------------------------------------------------------------------
(* The bytes of the headers.                                               *)

\* Where a word starts in the headers of a layout.
Place(w, lay) ==
    CASE w = "Pri0" -> 0 [] w = "Pri1" -> 2 [] w = "Pri2" -> 4
      [] w = "Ext0" -> 6 [] w = "Ext1" -> 8
      [] OTHER -> HeaderSize(lay \ {"Sec"})

\* w stands at place n of bytes, most significant byte first.
StandsAt(bytes, n, w) ==
    n + 2 <= Len(bytes) /\ bytes[n + 1] = HighByte(w) /\ bytes[n + 2] = LowByte(w)

\* A word put behind m other bytes stands there, and the words among those stay.
LEMMA WordBehind ==
  ASSUME NEW bytes \in Seq(Byte), NEW m \in Nat, Len(bytes) = m, NEW w
  PROVE  /\ bytes \o WordBytes(w) \in Seq(Byte) /\ Len(bytes \o WordBytes(w)) = m + 2
         /\ StandsAt(bytes \o WordBytes(w), m, w)
         /\ \A n \in Nat : \A u : StandsAt(bytes, n, u) => StandsAt(bytes \o WordBytes(w), n, u)
<1> DEFINE t == WordBytes(w)
           both == bytes \o t
<1>1. t \in Seq(Byte) /\ Len(t) = 2 /\ t[1] = HighByte(w) /\ t[2] = LowByte(w)
  BY WordBytesShape DEF WordBytes
<1> HIDE DEF t
<1>2. /\ both \in Seq(Byte) /\ Len(both) = m + 2
      /\ \A k \in 1..(m + 2) : both[k] = IF k <= m THEN bytes[k] ELSE t[k - m]
  <2>1. /\ both \in Seq(Byte) /\ Len(both) = Len(bytes) + Len(t)
        /\ \A k \in 1..(Len(bytes) + Len(t)) : both[k] = IF k <= Len(bytes) THEN bytes[k] ELSE t[k - Len(bytes)]
    BY <1>1, ConcatProperties
  <2> HIDE DEF both
  <2> QED
    BY <1>1, <2>1
<1> HIDE DEF both
<1>3. StandsAt(both, m, w)
  <2>1. both[m + 1] = t[1] /\ both[m + 2] = t[2]
    BY <1>2
  <2> QED
    BY <1>1, <1>2, <2>1 DEF StandsAt
<1>4. \A n \in Nat : \A u : StandsAt(bytes, n, u) => StandsAt(both, n, u)
  BY <1>2 DEF StandsAt
<1> QED
  BY <1>2, <1>3, <1>4 DEF t, both

\* The layouts there are.
LEMMA LayoutsAre ==
  /\ Layouts = {{"Pri"}, {"Pri", "Ext"}, {"Pri", "Sec"}, {"Pri", "Ext", "Sec"}}
  /\ DefaultLayout \in Layouts
<1>1. DOMAIN LayoutOf = {"ccsdspri", "ccsdsext", "cfsv1", "cfsv2"}
  BY DEF LayoutOf
<1>2. /\ LayoutOf["ccsdspri"] = {"Pri"} /\ LayoutOf["ccsdsext"] = {"Pri", "Ext"}
      /\ LayoutOf["cfsv1"] = {"Pri", "Sec"} /\ LayoutOf["cfsv2"] = {"Pri", "Ext", "Sec"}
  BY DEF LayoutOf
<1> QED
  BY <1>1, <1>2 DEF Layouts, DefaultLayout

\* Every word of the headers of a layout stands at its place.
LEMMA HeaderWords ==
  ASSUME NEW h, NEW lay \in Layouts
  PROVE  /\ HeaderBytes(h, lay) \in Seq(Byte)
         /\ Len(HeaderBytes(h, lay)) = HeaderSize(lay)
         /\ \A w \in WordIds : HeaderOf(w) \in lay => StandsAt(HeaderBytes(h, lay), Place(w, lay), h[w])
<1> DEFINE W(w) == WordBytes(h[w])
           p1 == W("Pri0")
           p2 == p1 \o W("Pri1")
           p3 == p2 \o W("Pri2")
           e1 == p3 \o W("Ext0")
           e2 == e1 \o W("Ext1")
           S == HeaderBytes(h, lay)
           pri == IF "Pri" \in lay THEN p3 ELSE <<>>
           ext == IF "Ext" \in lay THEN W("Ext0") \o W("Ext1") ELSE <<>>
           sec == IF "Sec" \in lay THEN W("Sec") ELSE <<>>
<1>1. S = pri \o ext \o sec
  BY DEF HeaderBytes
<1>2. S \in Seq(Byte) /\ Len(S) = HeaderSize(lay)
  BY HeaderBytesShape
<1>3. \A w : W(w) \in Seq(Byte) /\ Len(W(w)) = 2
  BY WordBytesShape
<1>4. p1 \in Seq(Byte) /\ Len(p1) = 2 /\ StandsAt(p1, 0, h["Pri0"])
  BY <1>3 DEF WordBytes, StandsAt
<1> HIDE DEF p1
<1>5. /\ p2 \in Seq(Byte) /\ Len(p2) = 4
      /\ StandsAt(p2, 2, h["Pri1"])
      /\ \A n \in Nat : \A u : StandsAt(p1, n, u) => StandsAt(p2, n, u)
  <2>1. p1 \in Seq(Byte) /\ Len(p1) = 2 /\ 2 \in Nat
    BY <1>4
  <2>2. /\ p2 \in Seq(Byte) /\ Len(p2) = 2 + 2
        /\ StandsAt(p2, 2, h["Pri1"])
        /\ \A n \in Nat : \A u : StandsAt(p1, n, u) => StandsAt(p2, n, u)
    BY <2>1, WordBehind, Zenon
  <2> QED
    BY <2>2
<1> HIDE DEF p2
<1>6. /\ p3 \in Seq(Byte) /\ Len(p3) = 6
      /\ StandsAt(p3, 4, h["Pri2"])
      /\ \A n \in Nat : \A u : StandsAt(p2, n, u) => StandsAt(p3, n, u)
  <2>1. p2 \in Seq(Byte) /\ Len(p2) = 4 /\ 4 \in Nat
    BY <1>5
  <2>2. /\ p3 \in Seq(Byte) /\ Len(p3) = 4 + 2
        /\ StandsAt(p3, 4, h["Pri2"])
        /\ \A n \in Nat : \A u : StandsAt(p2, n, u) => StandsAt(p3, n, u)
    BY <2>1, WordBehind, Zenon
  <2> QED
    BY <2>2
<1> HIDE DEF p3
<1>7. /\ e1 \in Seq(Byte) /\ Len(e1) = 8
      /\ StandsAt(e1, 6, h["Ext0"])
      /\ \A n \in Nat : \A u : StandsAt(p3, n, u) => StandsAt(e1, n, u)
  <2>1. p3 \in Seq(Byte) /\ Len(p3) = 6 /\ 6 \in Nat
    BY <1>6
  <2>2. /\ e1 \in Seq(Byte) /\ Len(e1) = 6 + 2
        /\ StandsAt(e1, 6, h["Ext0"])
        /\ \A n \in Nat : \A u : StandsAt(p3, n, u) => StandsAt(e1, n, u)
    BY <2>1, WordBehind, Zenon
  <2> QED
    BY <2>2
<1> HIDE DEF e1
<1>8. /\ e2 \in Seq(Byte) /\ Len(e2) = 10
      /\ StandsAt(e2, 8, h["Ext1"])
      /\ \A n \in Nat : \A u : StandsAt(e1, n, u) => StandsAt(e2, n, u)
  <2>1. e1 \in Seq(Byte) /\ Len(e1) = 8 /\ 8 \in Nat
    BY <1>7
  <2>2. /\ e2 \in Seq(Byte) /\ Len(e2) = 8 + 2
        /\ StandsAt(e2, 8, h["Ext1"])
        /\ \A n \in Nat : \A u : StandsAt(e1, n, u) => StandsAt(e2, n, u)
    BY <2>1, WordBehind, Zenon
  <2> QED
    BY <2>2
<1> HIDE DEF e2
<1> DEFINE fore == IF "Ext" \in lay THEN e2 ELSE p3
<1>9. "Pri" \in lay
  BY LayoutsAre
<1>10. pri \o ext = fore
  <2>1. CASE "Ext" \in lay
    <3>1. pri = p3 /\ ext = W("Ext0") \o W("Ext1") /\ fore = (p3 \o W("Ext0")) \o W("Ext1")
      BY <1>9, <2>1 DEF e1, e2
    <3> DEFINE x == W("Ext0")
               y == W("Ext1")
    <3>2. p3 \in Seq(Byte) /\ x \in Seq(Byte) /\ y \in Seq(Byte)
      BY <1>3, <1>6
    <3> HIDE DEF x, y
    <3>3. (p3 \o x) \o y = p3 \o (x \o y)
      BY <3>2, ConcatAssociative
    <3> HIDE DEF pri, ext, fore
    <3> QED
      BY <3>1, <3>3 DEF x, y
  <2>2. CASE "Ext" \notin lay
    <3>1. pri = p3 /\ ext = <<>> /\ fore = p3
      BY <1>9, <2>2
    <3> HIDE DEF pri, ext, fore
    <3> QED
      BY <1>6, <3>1
  <2> QED
    BY <2>1, <2>2
<1>11. /\ fore \in Seq(Byte) /\ Len(fore) = HeaderSize(lay \ {"Sec"})
       /\ StandsAt(fore, 0, h["Pri0"]) /\ StandsAt(fore, 2, h["Pri1"]) /\ StandsAt(fore, 4, h["Pri2"])
       /\ "Ext" \in lay => StandsAt(fore, 6, h["Ext0"]) /\ StandsAt(fore, 8, h["Ext1"])
  <2>1. /\ "Ext" \in lay => Len(fore) = 10
        /\ "Ext" \notin lay => Len(fore) = 6
        /\ fore \in Seq(Byte)
    BY <1>6, <1>8
  <2>2. HeaderSize(lay \ {"Sec"}) = IF "Ext" \in lay THEN 10 ELSE 6
    BY <1>9 DEF HeaderSize
  <2>3. StandsAt(p3, 0, h["Pri0"]) /\ StandsAt(p3, 2, h["Pri1"]) /\ StandsAt(p3, 4, h["Pri2"])
    BY <1>4, <1>5, <1>6
  <2>4. /\ StandsAt(e2, 0, h["Pri0"]) /\ StandsAt(e2, 2, h["Pri1"]) /\ StandsAt(e2, 4, h["Pri2"])
        /\ StandsAt(e2, 6, h["Ext0"]) /\ StandsAt(e2, 8, h["Ext1"])
    BY <2>3, <1>7, <1>8
  <2> QED
    BY <2>1, <2>2, <2>3, <2>4
<1> HIDE DEF pri, ext, fore
<1>12. /\ "Sec" \notin lay => S = fore
       /\ "Sec" \in lay => S = fore \o W("Sec")
  <2>1. S = fore \o sec
    BY <1>1, <1>10
  <2> HIDE DEF S
  <2>2. "Sec" \notin lay => S = fore \o <<>>
    BY <2>1
  <2>3. fore \o <<>> = fore
    BY <1>11
  <2> QED
    BY <2>1, <2>2, <2>3
<1>13. /\ \A n \in Nat : \A u : StandsAt(fore, n, u) => StandsAt(S, n, u)
       /\ "Sec" \in lay => StandsAt(S, HeaderSize(lay \ {"Sec"}), h["Sec"])
  <2> HIDE DEF S, fore
  <2>1. fore \in Seq(Byte) /\ Len(fore) \in Nat
    BY <1>11
  <2>2. ASSUME "Sec" \in lay
        PROVE  StandsAt(S, Len(fore), h["Sec"]) /\ \A n \in Nat : \A u : StandsAt(fore, n, u) => StandsAt(S, n, u)
    <3>1. S = fore \o WordBytes(h["Sec"])
      BY <1>12, <2>2
    <3> QED
      BY <2>1, <3>1, WordBehind
  <2> QED
    BY <1>11, <1>12, <2>2
<1>14. /\ Place("Pri0", lay) = 0 /\ Place("Pri1", lay) = 2 /\ Place("Pri2", lay) = 4
       /\ Place("Ext0", lay) = 6 /\ Place("Ext1", lay) = 8
       /\ Place("Sec", lay) = HeaderSize(lay \ {"Sec"})
  BY DEF Place
<1>15. /\ HeaderOf("Ext0") = "Ext" /\ HeaderOf("Ext1") = "Ext" /\ HeaderOf("Sec") = "Sec"
  BY DEF HeaderOf
<1> HIDE DEF S, W
<1>16. \A w \in WordIds : HeaderOf(w) \in lay => StandsAt(S, Place(w, lay), h[w])
  BY <1>11, <1>13, <1>14, <1>15 DEF WordIds
<1> QED
  BY <1>2, <1>16 DEF S

-----------------------------------------------------------------------------
(* The packet.                                                             *)

\* The packet carries the words h of the headers, the checksum byte aside.
Carries(h) ==
    \A w \in WordIds : HeaderOf(w) \in layout =>
      \A b \in 0..15 : (w = "Sec" /\ b < 8 => "pktcksum" \in overridden) => (b \in OnWire(w) <=> b \in h[w])

\* The checksum changes the last byte, if any.
LEMMA ChecksumByte ==
  ASSUME NEW bytes \in Seq(Byte), NEW k \in 1..Len(bytes),
         k < Len(bytes) \/ "Sec" \notin layout \/ "pktcksum" \in overridden
  PROVE  WithChecksum(bytes)[k] = bytes[k]
<1>1. CASE "Sec" \in layout /\ "pktcksum" \notin overridden
  <2>1. WithChecksum(bytes) = [bytes EXCEPT ![Len(bytes)] = CalcChecksum(bytes)]
    BY <1>1 DEF WithChecksum
  <2>2. k \in DOMAIN bytes /\ k # Len(bytes)
    BY <1>1
  <2> QED
    BY <2>1, <2>2
<1>2. CASE ~("Sec" \in layout /\ "pktcksum" \notin overridden)
  BY <1>2 DEF WithChecksum
<1> QED
  BY <1>1, <1>2

\* The words before the command secondary header end before it.
LEMMA PlacesInside ==
  ASSUME NEW lay \in Layouts, NEW w \in WordIds, HeaderOf(w) \in lay
  PROVE  /\ Place(w, lay) \in Nat
         /\ Place(w, lay) + 2 <= HeaderSize(lay)
         /\ "Sec" \in lay /\ w # "Sec" => Place(w, lay) + 2 < HeaderSize(lay)
<1>1. "Pri" \in lay /\ lay \subseteq {"Pri", "Ext", "Sec"}
  BY LayoutsAre
<1>2. HeaderSize(lay) = 6 + (IF "Ext" \in lay THEN 4 ELSE 0) + (IF "Sec" \in lay THEN 2 ELSE 0)
  BY <1>1 DEF HeaderSize
<1>3. HeaderSize(lay \ {"Sec"}) = 6 + (IF "Ext" \in lay THEN 4 ELSE 0)
  BY <1>1 DEF HeaderSize
<1>4. /\ Place("Pri0", lay) = 0 /\ Place("Pri1", lay) = 2 /\ Place("Pri2", lay) = 4
      /\ Place("Ext0", lay) = 6 /\ Place("Ext1", lay) = 8
      /\ Place("Sec", lay) = HeaderSize(lay \ {"Sec"})
  BY DEF Place
<1>5. HeaderOf("Ext0") = "Ext" /\ HeaderOf("Ext1") = "Ext" /\ HeaderOf("Sec") = "Sec"
  BY DEF HeaderOf
<1> QED
  BY <1>2, <1>3, <1>4, <1>5 DEF WordIds

\* The headers come first, then the payload.
LEMMA HeadersCarried ==
  ASSUME ReadInv, TypeOK, GetPackedObject, status' = "packed"
  PROVE  /\ hdr' = WithDefaults(PackedSize)
         /\ packet' = WithChecksum(HeaderBytes(hdr', layout)) \o payload
         /\ UNCHANGED <<layout, overridden, bigEndian, payload, argv>>
         /\ layout \in Layouts
         /\ Carries(hdr)'
<1> DEFINE B == HeaderBytes(hdr', layout)
           C == WithChecksum(B)
<1>1. /\ hdr' = WithDefaults(PackedSize)
      /\ packet' = C \o payload
      /\ status = "parsing"
      /\ UNCHANGED <<layout, overridden, bigEndian, payload, argv>>
  BY DEF GetPackedObject
<1>2. /\ layout \in Layouts /\ layout = LayoutIn(argv) /\ argv \in Seq(ArgV) /\ payload \in Seq(Byte)
  BY <1>1 DEF ReadInv, TypeOK
<1>3. ChosenLayout' = layout
  <2>1. ReadingAgrees'
    BY ReadingIs, PTL
  <2> QED
    BY <1>1, <1>2, <2>1 DEF ReadingAgrees
<1>4. /\ B \in Seq(Byte) /\ Len(B) = HeaderSize(layout)
      /\ \A w \in WordIds : HeaderOf(w) \in layout => StandsAt(B, Place(w, layout), hdr'[w])
  BY <1>2, HeaderWords
<1> HIDE DEF B
<1>5. /\ C \in Seq(Byte) /\ Len(C) = Len(B)
      /\ \A k \in 1..Len(B) :
           k < Len(B) \/ "Sec" \notin layout \/ "pktcksum" \in overridden => C[k] = B[k]
  BY <1>4, WithChecksumShape, ChecksumByte
<1> HIDE DEF C
<1>6. \A k \in 1..Len(B) : packet'[k] = C[k]
  <2>1. \A k \in 1..(Len(C) + Len(payload)) :
          (C \o payload)[k] = IF k <= Len(C) THEN C[k] ELSE payload[k - Len(C)]
    BY <1>2, <1>5, ConcatProperties
  <2>2. Len(B) = Len(C) /\ Len(C) \in Nat /\ Len(payload) \in Nat
    BY <1>2, <1>5
  <2> QED
    BY <1>1, <2>1, <2>2
<1>7. ASSUME NEW w \in WordIds, HeaderOf(w) \in layout, NEW b \in 0..15,
             w = "Sec" /\ b < 8 => "pktcksum" \in overridden
      PROVE  b \in OnWire(w)' <=> b \in hdr'[w]
  <2> DEFINE n == Place(w, layout)
             S == HeaderSize(layout)
  <2>1. OffsetOf(w)' = n
    BY <1>3, <1>7 DEF OffsetOf, Place, WordIds
  <2>2. b \in OnWire(w)' <=> (IF b >= 8 THEN b - 8 \in packet'[n + 1] ELSE b \in packet'[n + 2])
    BY <2>1, <1>7 DEF OnWire
  <2>3. B[n + 1] = HighByte(hdr'[w]) /\ B[n + 2] = LowByte(hdr'[w])
    BY <1>4, <1>7 DEF StandsAt
  <2>4. /\ n \in Nat /\ n + 2 <= S /\ ("Sec" \in layout /\ w # "Sec" => n + 2 < S)
    BY <1>2, <1>7, PlacesInside
  <2>5. w = "Sec" => "Sec" \in layout
    BY <1>7 DEF HeaderOf
  <2> HIDE DEF n, S
  <2>6. S = Len(B) /\ Len(B) \in Nat
    BY <1>4 DEF S
  <2>7. packet'[n + 1] = HighByte(hdr'[w])
    <3>1. n + 1 \in 1..Len(B) /\ n + 1 < Len(B)
      BY <2>4, <2>6
    <3> QED
      BY <3>1, <1>5, <1>6, <2>3
  <2>8. CASE b >= 8
    BY <1>7, <2>2, <2>7, <2>8 DEF HighByte
  <2>9. CASE b < 8
    <3>1. n + 2 \in 1..Len(B) /\ (n + 2 < Len(B) \/ "Sec" \notin layout \/ "pktcksum" \in overridden)
      BY <1>7, <2>4, <2>6, <2>9
    <3>2. packet'[n + 2] = LowByte(hdr'[w])
      BY <3>1, <1>5, <1>6, <2>3
    <3> QED
      BY <1>7, <2>2, <2>9, <3>2 DEF LowByte
  <2> QED
    BY <1>7, <2>8, <2>9
<1>8. Carries(hdr)'
  BY <1>1, <1>7 DEF Carries
<1> QED
  BY <1>1, <1>2, <1>8 DEF B, C

\* The bits that are the encoder's to fill in.
Free(w, b) ==
    \/ w = "Pri0" /\ b = 12 /\ "pkttype" \notin overridden
    \/ w = "Pri0" /\ b = 11 /\ "pktsec" \notin overridden
    \/ w = "Pri1" /\ b \in {14, 15} /\ "pktseqflg" \notin overridden
    \/ w = "Pri2" /\ "pktlen" \notin overridden
    \/ w = "Ext0" /\ b = 10 /\ "pktendian" \notin overridden
    \/ w = "Sec" /\ b < 8 /\ "pktcksum" \notin overridden

\* Once the packet is there the words are what was asked for, the free bits the defaults.
Filled ==
    status = "packed" =>
      /\ Carries(hdr)
      /\ \A w \in WordIds : \A b \in 0..15 : ~Free(w, b) => (b \in hdr[w] <=> AskedIn(argv, w, b))
      /\ "pkttype" \notin overridden => 12 \in hdr["Pri0"]
      /\ "pktsec" \notin overridden =>
           (11 \in hdr["Pri0"] <=> "Sec" \in layout \/ AskedIn(argv, "Pri0", 11))
      /\ "pktseqflg" \notin overridden => {14, 15} \subseteq hdr["Pri1"]
      /\ "pktendian" \notin overridden => (10 \in hdr["Ext0"] <=> ~bigEndian)
      /\ "pktlen" \notin overridden => hdr["Pri2"] = LengthWord(Len(packet))

\* Only the endian option writes the endian flag.
LEMMA EndianFlag ==
  ASSUME NEW v \in Seq(ArgV), AskedIn(v, "Ext0", 10)
  PROVE  GivenIn(v, "pktendian")
<1> DEFINE S == WriterArgs("Ext0", 10)
<1>1. Where(v, S) # {}
  BY DEF AskedIn
<1> HIDE DEF S
<1>2. PICK k \in Where(v, S) : TRUE
  BY <1>1
<1>3. k \in DOMAIN v /\ v[k] \in S
  BY <1>2 DEF Where
<1>4. v[k] \in ArgV /\ v[k].id \in FieldIds /\ FieldOf[v[k].id].word = "Ext0" /\ 10 \in Mask(FieldOf[v[k].id])
  BY <1>3 DEF S, WriterArgs
<1>5. \A id \in FieldIds : FieldOf[id].word = "Ext0" /\ 10 \in Mask(FieldOf[id]) => id = "pktendian"
  BY FieldIdsAre DEF FieldOf, Field, Mask
<1>6. v[k] \in WithId("pktendian")
  BY <1>4, <1>5 DEF WithId
<1> QED
  BY <1>3, <1>6 DEF GivenIn, Where

\* The defaults go in where no option overrides them and nowhere else.
LEMMA DefaultsFilled ==
  ASSUME ReadInv, TypeOK, GetPackedObject, status' = "packed"
  PROVE  Filled'
<1>1. /\ hdr' = WithDefaults(PackedSize)
      /\ packet' = WithChecksum(HeaderBytes(hdr', layout)) \o payload
      /\ UNCHANGED <<layout, overridden, bigEndian, payload, argv>>
      /\ Carries(hdr)'
      /\ layout \in Layouts
  BY HeadersCarried
<1>2. /\ status = "parsing" /\ argv \in Seq(ArgV) /\ hdr \in [WordIds -> Word] /\ bigEndian \in BOOLEAN
      /\ payload \in Seq(Byte)
  BY DEF GetPackedObject, TypeOK
<1>3. /\ \A w \in WordIds : \A b \in 0..15 : b \in hdr[w] <=> AskedIn(argv, w, b)
      /\ \A id \in Overridable : id \in overridden <=> GivenIn(argv, id)
  BY <1>2 DEF ReadInv
<1> DEFINE Unless(field, bits) == IF field \in overridden THEN {} ELSE bits
<1>4. /\ hdr'["Pri0"] = hdr["Pri0"] \cup Unless("pkttype", {12})
                          \cup (IF "Sec" \in layout THEN Unless("pktsec", {11}) ELSE {})
      /\ hdr'["Pri1"] = hdr["Pri1"] \cup Unless("pktseqflg", {14, 15})
      /\ hdr'["Pri2"] = IF "pktlen" \in overridden THEN hdr["Pri2"] ELSE LengthWord(PackedSize)
      /\ hdr'["Ext0"] = hdr["Ext0"] \cup (IF bigEndian THEN {} ELSE Unless("pktendian", {10}))
      /\ hdr'["Ext1"] = hdr["Ext1"] /\ hdr'["Sec"] = hdr["Sec"]
  BY <1>1, <1>2 DEF WithDefaults, WordIds
<1> HIDE DEF Unless
<1>5. ASSUME NEW b \in 0..15, NEW w \in WordIds, ~Free(w, b)
      PROVE  b \in hdr'[w] <=> b \in hdr[w]
  <2> USE <1>4, <1>5 DEF Free, Unless
  <2>1. CASE w = "Pri0"
    BY <2>1
  <2>2. CASE w = "Pri1"
    BY <2>2
  <2>3. CASE w = "Pri2"
    BY <2>3
  <2>4. CASE w = "Ext0"
    BY <2>4
  <2>5. CASE w \in {"Ext1", "Sec"}
    BY <2>5
  <2> QED
    BY <2>1, <2>2, <2>3, <2>4, <2>5 DEF WordIds
<1>6. \A w \in WordIds : \A b \in 0..15 : ~Free(w, b) => (b \in hdr'[w] <=> AskedIn(argv, w, b))
  BY <1>3, <1>5
<1>7. "pkttype" \notin overridden => 12 \in hdr'["Pri0"]
  BY <1>4 DEF Unless
<1>8. "pktsec" \notin overridden => (11 \in hdr'["Pri0"] <=> "Sec" \in layout \/ AskedIn(argv, "Pri0", 11))
  BY <1>3, <1>4 DEF Unless, WordIds
<1>9. "pktseqflg" \notin overridden => {14, 15} \subseteq hdr'["Pri1"]
  BY <1>4 DEF Unless
<1>10. "pktendian" \notin overridden => (10 \in hdr'["Ext0"] <=> ~bigEndian)
  <2> SUFFICES ASSUME "pktendian" \notin overridden PROVE 10 \in hdr'["Ext0"] <=> ~bigEndian
    OBVIOUS
  <2>1. ~AskedIn(argv, "Ext0", 10)
    BY <1>2, <1>3, EndianFlag DEF Overridable
  <2>2. 10 \notin hdr["Ext0"]
    BY <1>3, <2>1 DEF WordIds
  <2> QED
    BY <1>4, <2>2 DEF Unless
<1>11. "pktlen" \notin overridden => hdr'["Pri2"] = LengthWord(Len(packet'))
  <2>1. Len(packet') = HeaderSize(layout) + Len(payload)
    <3> DEFINE head == WithChecksum(HeaderBytes(hdr', layout))
    <3>1. head \in Seq(Byte) /\ Len(head) = HeaderSize(layout)
      BY HeaderBytesShape, WithChecksumShape
    <3> HIDE DEF head
    <3> QED
      BY <1>1, <1>2, <3>1 DEF head
  <2>2. HeaderSize(layout) \in Nat /\ Len(payload) \in Nat
    BY <1>2 DEF HeaderSize
  <2>3. PackedSize = Len(packet')
    BY <2>1, <2>2 DEF PackedSize
  <2> QED
    BY <1>4, <2>3
<1>12. \A w, b : Free(w, b)' <=> Free(w, b)
  BY <1>1 DEF Free
<1>13. status' = "packed" => 
         /\ \A w \in WordIds : \A b \in 0..15 : ~Free(w, b)' => (b \in hdr'[w] <=> AskedIn(argv', w, b))
         /\ "pktsec" \notin overridden' => (11 \in hdr'["Pri0"] <=> "Sec" \in layout' \/ AskedIn(argv', "Pri0", 11))
         /\ "pktendian" \notin overridden' => (10 \in hdr'["Ext0"] <=> ~bigEndian')
  BY <1>1, <1>6, <1>8, <1>10, <1>12
<1> QED
  BY <1>1, <1>7, <1>9, <1>11, <1>13, Zenon DEF Filled

\* Every step keeps what the encoder knows and what it packed.
LEMMA ReadStep ==
  ASSUME ReadInv, Filled, TypeOK, [Calls]_vars
  PROVE  ReadInv' /\ Filled'
<1>1. CASE UNCHANGED vars
  <2>1. UNCHANGED <<hdr, layout, overridden, bigEndian, argv, status, packet>>
    BY <1>1 DEF vars
  <2>2. ReadInv'
    BY <2>1, Zenon DEF ReadInv
  <2>3. OnWire("Pri0")' = OnWire("Pri0") /\ \A w : OnWire(w)' = OnWire(w)
    BY <2>1 DEF OnWire, OffsetOf, ChosenLayout, LastOf
  <2>4. \A w, b : Free(w, b)' <=> Free(w, b)
    BY <2>1 DEF Free
  <2>5. Carries(hdr)' <=> Carries(hdr)
    BY <2>1, <2>3, Zenon DEF Carries
  <2> QED
    BY <2>1, <2>2, <2>4, <2>5, Zenon DEF Filled
<1>2. CASE GetPackedObject
  <2>1. CASE status' = "packed"
    <3>1. /\ UNCHANGED <<layout, overridden, bigEndian, argv>> /\ status = "parsing"
      BY <1>2 DEF GetPackedObject
    <3> QED
      BY <1>2, <2>1, <3>1, DefaultsFilled, Zenon DEF ReadInv
  <2>2. CASE status' # "packed"
    <3>1. status' = "refused"
      BY <1>2, <2>2 DEF GetPackedObject
    <3> QED
      BY <3>1 DEF ReadInv, Filled
  <2> QED
    BY <2>1, <2>2
<1>3. ASSUME NEW a \in ArgV, ParseOption(a) PROVE ReadInv' /\ Filled'
  <2>1. status = "parsing" /\ argv' = Append(argv, a)
    BY <1>3 DEF ParseOption
  <2>2. PICK v : Returns(v)
    BY <1>3 DEF ParseOption, ParseField, ParseEndian, ParseProtocol, ParseNumber, ParseString,
                ParseOther, Collect
  <2>3. status' \in {"parsing", "rejected", "overrun"}
    BY <2>1, <2>2 DEF Returns
  <2>4. CASE status' = "parsing"
    <3>1. ReadInv'
      BY <1>3, <2>1, <2>4, FieldRead, OtherRead DEF ParseOption
    <3> QED
      BY <2>4, <3>1 DEF Filled
  <2>5. CASE status' # "parsing"
    BY <2>3, <2>5 DEF ReadInv, Filled
  <2> QED
    BY <2>4, <2>5
<1> QED
  BY <1>1, <1>2, <1>3 DEF Calls

\* A new encoder has been asked for nothing.
LEMMA InitRead == Init => ReadInv /\ Filled
<1> SUFFICES ASSUME Init PROVE ReadInv /\ Filled
  OBVIOUS
<1>1. /\ hdr = [w \in WordIds |-> {}] /\ layout = DefaultLayout /\ overridden = {}
      /\ bigEndian = TRUE /\ argv = <<>> /\ status = "parsing"
  BY DEF Init, Instantiate
<1>2. \A S : Where(argv, S) = {}
  BY <1>1 DEF Where
<1>3. \A w, b : ~AskedIn(argv, w, b)
  BY <1>2 DEF AskedIn
<1>4. \A id : ~GivenIn(argv, id)
  BY <1>2 DEF GivenIn
<1>5. BigIn(argv)
  BY <1>2 DEF BigIn
<1>6. LayoutIn(argv) = DefaultLayout
  BY <1>2 DEF LayoutIn
<1>7. \A w \in WordIds : \A b \in 0..15 : b \in hdr[w] <=> AskedIn(argv, w, b)
  BY <1>1, <1>3
<1> QED
  BY <1>1, <1>4, <1>5, <1>6, <1>7, LayoutsAre DEF ReadInv, Filled

\* The encoder knows what was asked for throughout.
THEOREM ReadInvariance == Spec => [](TypeOK /\ ReadInv /\ Filled)
<1>1. Init => ReadInv /\ Filled
  BY InitRead
<1>2. TypeOK /\ ReadInv /\ Filled /\ [Next]_vars => ReadInv' /\ Filled'
  BY ReadStep, NextCalls
<1> QED
  BY <1>1, <1>2, TypeCorrect, PTL DEF Spec

\* A word of the headers: what the properties read from argv is what the
\* encoder knows.
LEMMA PackedReading ==
  ASSUME TypeOK, ReadInv, status = "packed"
  PROVE  /\ \A w, b : Asked(w, b) <=> AskedIn(argv, w, b)
         /\ \A id \in Overridable : Given(id) <=> id \in overridden
         /\ BigAt(Len(argv)) <=> bigEndian
         /\ ChosenLayout = layout
         /\ layout \in Layouts
<1>1. argv \in Seq(ArgV) /\ bigEndian \in BOOLEAN
  BY DEF TypeOK
<1>2. /\ \A id \in Overridable : id \in overridden <=> GivenIn(argv, id)
      /\ bigEndian <=> BigIn(argv)
      /\ layout = LayoutIn(argv) /\ layout \in Layouts
  BY DEF ReadInv
<1>3. /\ \A w, b : Asked(w, b) <=> AskedIn(argv, w, b)
      /\ \A id : Given(id) <=> GivenIn(argv, id)
      /\ BigAt(Len(argv)) <=> BigIn(argv)
      /\ ChosenLayout = LayoutIn(argv)
  BY <1>1, ReadingIs, Zenon DEF ReadingAgrees
<1> QED
  BY <1>2, <1>3, Zenon

\* What the properties call the encoder's to fill in is what it treats so.
LEMMA FreeIs ==
  ASSUME TypeOK, ReadInv, status = "packed", NEW w \in WordIds, NEW b \in 0..15
  PROVE  Free(w, b) <=> b \in Defaulted(w)
<1>1. \A id \in Overridable : Given(id) <=> id \in overridden
  BY PackedReading
<1>2. {"pkttype", "pktsec", "pktseqflg", "pktlen", "pktendian", "pktcksum"} \subseteq Overridable
  BY DEF Overridable
<1>3. /\ Given("pkttype") <=> "pkttype" \in overridden
      /\ Given("pktsec") <=> "pktsec" \in overridden
      /\ Given("pktseqflg") <=> "pktseqflg" \in overridden
      /\ Given("pktlen") <=> "pktlen" \in overridden
      /\ Given("pktendian") <=> "pktendian" \in overridden
      /\ Given("pktcksum") <=> "pktcksum" \in overridden
  BY <1>1, <1>2
<1> QED
  BY <1>3 DEF Free, Defaulted, WordIds

\* So the packet carries what was asked for,
LEMMA FieldsRead == TypeOK /\ ReadInv /\ Filled => FieldsReachTheWire
<1> SUFFICES ASSUME TypeOK, ReadInv, Filled, status = "packed",
                    NEW w \in SentWords, NEW b \in (0..15) \ Defaulted(w)
             PROVE  b \in OnWire(w) <=> Asked(w, b)
  BY DEF FieldsReachTheWire
<1>1. w \in WordIds /\ HeaderOf(w) \in layout
  BY PackedReading DEF SentWords
<1>2. b \in 0..15 /\ ~Free(w, b)
  BY <1>1, FreeIs
<1>3. Carries(hdr) /\ (b \in hdr[w] <=> AskedIn(argv, w, b))
  BY <1>1, <1>2 DEF Filled
<1>4. w = "Sec" /\ b < 8 => "pktcksum" \in overridden
  BY <1>2 DEF Free
<1>5. b \in OnWire(w) <=> b \in hdr[w]
  BY <1>1, <1>2, <1>3, <1>4 DEF Carries
<1>6. Asked(w, b) <=> AskedIn(argv, w, b)
  BY PackedReading
<1> QED
  BY <1>3, <1>5, <1>6

\* Every header bit of a packet, but those the encoder fills in, is what the last
\* argument about it asked for.
THEOREM FieldsArrive == Spec => []FieldsReachTheWire
<1>1. TypeOK /\ ReadInv /\ Filled => FieldsReachTheWire
  BY FieldsRead
<1> QED
  BY <1>1, ReadInvariance, PTL

-----------------------------------------------------------------------------
(* The number a word stands for, and the length word.                      *)

\* 2^b is worth its bit.
LEMMA Powers ==
  /\ 2^0 = 1 /\ 2^1 = 2 /\ 2^2 = 4 /\ 2^3 = 8 /\ 2^4 = 16 /\ 2^5 = 32 /\ 2^6 = 64 /\ 2^7 = 128
  /\ 2^8 = 256 /\ 2^9 = 512 /\ 2^10 = 1024 /\ 2^11 = 2048 /\ 2^12 = 4096 /\ 2^13 = 8192
  /\ 2^14 = 16384 /\ 2^15 = 32768
OBVIOUS

\* The number a word stands for, bit by bit, four bits at a time.
Bit(bits, b) == IF b \in bits THEN 2^b ELSE 0
Digit(bits, b) == Bit(bits, b) + Bit(bits, b + 1) + Bit(bits, b + 2) + Bit(bits, b + 3)
Number(bits) == Digit(bits, 0) + Digit(bits, 4) + Digit(bits, 8) + Digit(bits, 12)

\* A digit with one bit less.
LEMMA DigitLess ==
  ASSUME NEW s \in SUBSET (0..15), NEW x \in s, NEW k \in {0, 4, 8, 12}
  PROVE  /\ 2^x \in Nat \ {0} /\ Digit(s \ {x}, k) \in Nat
         /\ Digit(s, k) = Digit(s \ {x}, k) + (IF x \in k..(k + 3) THEN 2^x ELSE 0)
<1>1. \A b \in 0..15 : 2^b \in Nat \ {0}
  <2> SUFFICES ASSUME NEW b \in 0..15 PROVE 2^b \in Nat \ {0}
    OBVIOUS
  <2>1. CASE b = 0
    BY <2>1
  <2>2. CASE b = 1
    BY <2>2
  <2>3. CASE b = 2
    BY <2>3
  <2>4. CASE b = 3
    BY <2>4
  <2>5. CASE b = 4
    BY <2>5
  <2>6. CASE b = 5
    BY <2>6
  <2>7. CASE b = 6
    BY <2>7
  <2>8. CASE b = 7
    BY <2>8
  <2>9. CASE b = 8
    BY <2>9
  <2>10. CASE b = 9
    BY <2>10
  <2>11. CASE b = 10
    BY <2>11
  <2>12. CASE b = 11
    BY <2>12
  <2>13. CASE b = 12
    BY <2>13
  <2>14. CASE b = 13
    BY <2>14
  <2>15. CASE b = 14
    BY <2>15
  <2>16. CASE b = 15
    BY <2>16
  <2> QED
    BY <2>1, <2>2, <2>3, <2>4, <2>5, <2>6, <2>7, <2>8, <2>9, <2>10, <2>11, <2>12, <2>13, <2>14, <2>15, <2>16
<1>2. \A b \in 0..15 : /\ Bit(s, b) \in Nat /\ Bit(s \ {x}, b) \in Nat
                       /\ Bit(s \ {x}, b) = IF b = x THEN 0 ELSE Bit(s, b)
  BY <1>1 DEF Bit
<1>3. Bit(s, x) = 2^x /\ 2^x \in Nat \ {0} /\ x \in 0..15
  BY <1>1 DEF Bit
<1>4. k \in 0..15 /\ k + 1 \in 0..15 /\ k + 2 \in 0..15 /\ k + 3 \in 0..15
  OBVIOUS
<1>5. x \in k..(k + 3) <=> x = k \/ x = k + 1 \/ x = k + 2 \/ x = k + 3
  BY <1>3
<1> DEFINE p(j) == Bit(s, j)
           q(j) == Bit(s \ {x}, j)
<1>6. /\ q(k) = (IF k = x THEN 0 ELSE p(k)) /\ q(k + 1) = (IF k + 1 = x THEN 0 ELSE p(k + 1))
      /\ q(k + 2) = (IF k + 2 = x THEN 0 ELSE p(k + 2)) /\ q(k + 3) = (IF k + 3 = x THEN 0 ELSE p(k + 3))
      /\ p(k) \in Nat /\ p(k + 1) \in Nat /\ p(k + 2) \in Nat /\ p(k + 3) \in Nat
      /\ q(k) \in Nat /\ q(k + 1) \in Nat /\ q(k + 2) \in Nat /\ q(k + 3) \in Nat
  BY <1>2, <1>4
<1>7. p(x) = 2^x
  BY <1>3
<1>8. Digit(s, k) = p(k) + p(k + 1) + p(k + 2) + p(k + 3) /\ Digit(s \ {x}, k) = q(k) + q(k + 1) + q(k + 2) + q(k + 3)
  BY DEF Digit
<1> HIDE DEF p, q
<1>9. Digit(s, k) = Digit(s \ {x}, k) + (IF x \in k..(k + 3) THEN 2^x ELSE 0)
  <2>1. CASE x = k
    BY <2>1, <1>3, <1>5, <1>6, <1>7, <1>8
  <2>2. CASE x = k + 1
    BY <2>2, <1>3, <1>5, <1>6, <1>7, <1>8
  <2>3. CASE x = k + 2
    BY <2>3, <1>3, <1>5, <1>6, <1>7, <1>8
  <2>4. CASE x = k + 3
    BY <2>4, <1>3, <1>5, <1>6, <1>7, <1>8
  <2>5. CASE ~(x \in k..(k + 3))
    BY <2>5, <1>5, <1>6, <1>8
  <2> QED
    BY <2>1, <2>2, <2>3, <2>4, <2>5, <1>5
<1> QED
  BY <1>3, <1>6, <1>8, <1>9

\* Taking a bit away takes its worth away.
LEMMA NumberLess ==
  ASSUME NEW s \in SUBSET (0..15), NEW x \in s
  PROVE  2^x \in Nat \ {0} /\ Number(s \ {x}) \in Nat /\ Number(s) = 2^x + Number(s \ {x})
<1>1. \A k \in {0, 4, 8, 12} :
        /\ 2^x \in Nat \ {0} /\ Digit(s \ {x}, k) \in Nat
        /\ Digit(s, k) = Digit(s \ {x}, k) + (IF x \in k..(k + 3) THEN 2^x ELSE 0)
  BY DigitLess
<1>2. x \in Nat /\ x <= 15
  OBVIOUS
<1> QED
  BY <1>1, <1>2 DEF Number

\* The sum of the powers of two of a set of bits, as the fold of the community
\* modules computes it.
IsSum(g, T) ==
    g = [s \in SUBSET T |-> IF s = {} THEN 0
                            ELSE 2^(CHOOSE x \in s : TRUE) + g[s \ {CHOOSE x \in s : TRUE}]]

LEMMA ValueIsSum == \A T : Value(T) = (CHOOSE g : IsSum(g, T))[T]
BY DEF Value, MapThenSumSet, MapThenFoldSet, IsSum

\* It is the number the word stands for.
LEMMA ValueIs ==
  ASSUME NEW T \in SUBSET (0..15)
  PROVE  Value(T) = Number(T)
<1> DEFINE g == [s \in SUBSET T |-> Number(s)]
           h == CHOOSE k : IsSum(k, T)
           Pick(s) == CHOOSE x \in s : TRUE
<1>1. IsSum(g, T)
  <2>1. ASSUME NEW s \in SUBSET T
        PROVE  Number(s) = IF s = {} THEN 0 ELSE 2^Pick(s) + g[s \ {Pick(s)}]
    <3>1. CASE s = {}
      BY <3>1 DEF Number, Digit, Bit
    <3>2. CASE s # {}
      <4>1. Pick(s) \in s /\ s \in SUBSET (0..15)
        BY <3>2
      <4> HIDE DEF Pick
      <4>2. g[s \ {Pick(s)}] = Number(s \ {Pick(s)})
        OBVIOUS
      <4> QED
        BY <3>2, <4>1, <4>2, NumberLess
    <3> QED
      BY <3>1, <3>2
  <2> QED
    BY <2>1, Zenon DEF IsSum
<1> HIDE DEF g
<1>2. IsSum(h, T)
  BY <1>1
<1> HIDE DEF h
<1>3. \A s \in SUBSET T : h[s] = IF s = {} THEN 0 ELSE 2^Pick(s) + h[s \ {Pick(s)}]
  BY <1>2, Zenon DEF IsSum
<1> DEFINE Bad == {s \in SUBSET T : h[s] # Number(s)}
           N == {Number(s) : s \in Bad}
<1>4. Bad = {}
  <2> SUFFICES ASSUME Bad # {} PROVE FALSE
    OBVIOUS
  <2>1. \A s \in SUBSET T : Number(s) \in Nat
    BY DEF Number, Digit, Bit
  <2>2. N \in SUBSET Nat /\ N # {}
    BY <2>1
  <2>3. PICK n \in N : \A m \in N : n <= m
    <3> HIDE DEF N
    <3> QED
      BY <2>2, SmallestNat
  <2>4. PICK s \in Bad : n = Number(s)
    BY <2>3
  <2>5. s # {}
    BY <1>3, <2>4 DEF Number, Digit, Bit
  <2>6. Pick(s) \in s /\ s \in SUBSET (0..15) /\ s \in SUBSET T
    BY <2>4, <2>5
  <2> HIDE DEF Pick
  <2> DEFINE r == s \ {Pick(s)}
  <2>7. 2^Pick(s) \in Nat \ {0} /\ Number(r) \in Nat /\ Number(s) = 2^Pick(s) + Number(r)
    BY <2>6, NumberLess
  <2>8. h[s] = 2^Pick(s) + h[r]
    BY <1>3, <2>5, <2>6
  <2>9. r \in SUBSET T
    BY <2>6
  <2> HIDE DEF r
  <2>10. h[r] # Number(r)
    BY <2>4, <2>7, <2>8
  <2>11. Number(r) \in N
    BY <2>9, <2>10
  <2> QED
    BY <2>3, <2>4, <2>7, <2>11
<1>5. h[T] = Number(T)
  BY <1>4
<1> QED
  BY <1>5, ValueIsSum DEF h

\* What bit b of a number m is worth.
Worth(m, b) == IF (m \div 2^b) % 2 = 1 THEN 2^b ELSE 0

\* The bits of a number are worth what it says.
LEMMA BitsOf ==
  ASSUME NEW m, NEW bits, \A b \in 0..15 : b \in bits <=> (m \div 2^b) % 2 = 1
  PROVE  \A b \in 0..15 : Bit(bits, b) = Worth(m, b)
BY Zenon DEF Bit, Worth

\* The length word of a packet of a size that fits stands for its size less 7.
LEMMA LengthWordValue ==
  ASSUME NEW n \in Nat, 7 <= n, n <= 65542
  PROVE  LengthWord(n) \in SUBSET (0..15) /\ Value(LengthWord(n)) = n - 7
<1> DEFINE m == n - 7
           q(w) == m \div w
<1>1. m \in Nat /\ m < 65536 /\ m % 65536 = m
  <2>1. m \in Nat /\ m < 65536
    OBVIOUS
  <2> HIDE DEF m
  <2> QED
    BY <2>1
<1>2. LengthWord(n) = {b \in 0..15 : (m \div 2^b) % 2 = 1}
  BY <1>1 DEF LengthWord
<1> HIDE DEF m
<1>3. \A b \in 0..15 : Bit(LengthWord(n), b) = Worth(m, b)
  <2>1. \A b \in 0..15 : b \in LengthWord(n) <=> (m \div 2^b) % 2 = 1
    BY <1>2
  <2> QED
    BY <2>1, BitsOf
<1>4. Digit(LengthWord(n), 0) = 1 * q(1) - 16 * q(16)
  <2>1. Worth(m, 0) = 1 * q(1) - 2 * q(2)
    BY <1>1, Powers DEF Worth
  <2>2. Worth(m, 1) = 2 * q(2) - 4 * q(4)
    BY <1>1, Powers DEF Worth
  <2>3. Worth(m, 2) = 4 * q(4) - 8 * q(8)
    BY <1>1, Powers DEF Worth
  <2>4. Worth(m, 3) = 8 * q(8) - 16 * q(16)
    BY <1>1, Powers DEF Worth
  <2>5. Digit(LengthWord(n), 0) = Worth(m, 0) + Worth(m, 1) + Worth(m, 2) + Worth(m, 3)
    BY <1>3 DEF Digit
  <2>6. q(1) \in Nat /\ q(2) \in Nat /\ q(4) \in Nat /\ q(8) \in Nat /\ q(16) \in Nat
    BY <1>1
  <2> HIDE DEF q
  <2> QED
    BY <2>1, <2>2, <2>3, <2>4, <2>5, <2>6
<1>5. Digit(LengthWord(n), 4) = 16 * q(16) - 256 * q(256)
  <2>1. Worth(m, 4) = 16 * q(16) - 32 * q(32)
    BY <1>1, Powers DEF Worth
  <2>2. Worth(m, 5) = 32 * q(32) - 64 * q(64)
    BY <1>1, Powers DEF Worth
  <2>3. Worth(m, 6) = 64 * q(64) - 128 * q(128)
    BY <1>1, Powers DEF Worth
  <2>4. Worth(m, 7) = 128 * q(128) - 256 * q(256)
    BY <1>1, Powers DEF Worth
  <2>5. Digit(LengthWord(n), 4) = Worth(m, 4) + Worth(m, 5) + Worth(m, 6) + Worth(m, 7)
    BY <1>3 DEF Digit
  <2>6. q(16) \in Nat /\ q(32) \in Nat /\ q(64) \in Nat /\ q(128) \in Nat /\ q(256) \in Nat
    BY <1>1
  <2> HIDE DEF q
  <2> QED
    BY <2>1, <2>2, <2>3, <2>4, <2>5, <2>6
<1>6. Digit(LengthWord(n), 8) = 256 * q(256) - 4096 * q(4096)
  <2>1. Worth(m, 8) = 256 * q(256) - 512 * q(512)
    BY <1>1, Powers DEF Worth
  <2>2. Worth(m, 9) = 512 * q(512) - 1024 * q(1024)
    BY <1>1, Powers DEF Worth
  <2>3. Worth(m, 10) = 1024 * q(1024) - 2048 * q(2048)
    BY <1>1, Powers DEF Worth
  <2>4. Worth(m, 11) = 2048 * q(2048) - 4096 * q(4096)
    BY <1>1, Powers DEF Worth
  <2>5. Digit(LengthWord(n), 8) = Worth(m, 8) + Worth(m, 9) + Worth(m, 10) + Worth(m, 11)
    BY <1>3 DEF Digit
  <2>6. q(256) \in Nat /\ q(512) \in Nat /\ q(1024) \in Nat /\ q(2048) \in Nat /\ q(4096) \in Nat
    BY <1>1
  <2> HIDE DEF q
  <2> QED
    BY <2>1, <2>2, <2>3, <2>4, <2>5, <2>6
<1>7. Digit(LengthWord(n), 12) = 4096 * q(4096) - 65536 * q(65536)
  <2>1. Worth(m, 12) = 4096 * q(4096) - 8192 * q(8192)
    BY <1>1, Powers DEF Worth
  <2>2. Worth(m, 13) = 8192 * q(8192) - 16384 * q(16384)
    BY <1>1, Powers DEF Worth
  <2>3. Worth(m, 14) = 16384 * q(16384) - 32768 * q(32768)
    BY <1>1, Powers DEF Worth
  <2>4. Worth(m, 15) = 32768 * q(32768) - 65536 * q(65536)
    BY <1>1, Powers DEF Worth
  <2>5. Digit(LengthWord(n), 12) = Worth(m, 12) + Worth(m, 13) + Worth(m, 14) + Worth(m, 15)
    BY <1>3 DEF Digit
  <2>6. q(4096) \in Nat /\ q(8192) \in Nat /\ q(16384) \in Nat /\ q(32768) \in Nat /\ q(65536) \in Nat
    BY <1>1
  <2> HIDE DEF q
  <2> QED
    BY <2>1, <2>2, <2>3, <2>4, <2>5, <2>6
<1>8. q(1) = m /\ q(16) \in Nat /\ q(256) \in Nat /\ q(4096) \in Nat /\ q(65536) = 0
  BY <1>1
<1> HIDE DEF q
<1>9. Number(LengthWord(n)) = m
  BY <1>1, <1>4, <1>5, <1>6, <1>7, <1>8 DEF Number
<1> QED
  BY <1>2, <1>9, ValueIs DEF m

-----------------------------------------------------------------------------
(* The defaults.                                                           *)

\* the defaults,
LEMMA DefaultsRead == TypeOK /\ ReadInv /\ Filled /\ PackedFits => DefaultsOnWire
<1> SUFFICES ASSUME TypeOK, ReadInv, Filled, PackedFits, status = "packed" PROVE DefaultsOnWire
  BY DEF DefaultsOnWire
<1>1. /\ \A w, b : Asked(w, b) <=> AskedIn(argv, w, b)
      /\ \A id \in Overridable : Given(id) <=> id \in overridden
      /\ BigAt(Len(argv)) <=> bigEndian
      /\ ChosenLayout = layout
  BY PackedReading
<1>2. /\ Given("pkttype") <=> "pkttype" \in overridden
      /\ Given("pktsec") <=> "pktsec" \in overridden
      /\ Given("pktseqflg") <=> "pktseqflg" \in overridden
      /\ Given("pktlen") <=> "pktlen" \in overridden
      /\ Given("pktendian") <=> "pktendian" \in overridden
  BY <1>1 DEF Overridable
<1>3. /\ Carries(hdr)
      /\ "pkttype" \notin overridden => 12 \in hdr["Pri0"]
      /\ "pktsec" \notin overridden =>
           (11 \in hdr["Pri0"] <=> "Sec" \in layout \/ AskedIn(argv, "Pri0", 11))
      /\ "pktseqflg" \notin overridden => {14, 15} \subseteq hdr["Pri1"]
      /\ "pktendian" \notin overridden => (10 \in hdr["Ext0"] <=> ~bigEndian)
      /\ "pktlen" \notin overridden => hdr["Pri2"] = LengthWord(Len(packet))
  BY DEF Filled
<1>4. \A w \in SentWords : w # "Sec" => \A b \in 0..15 : b \in OnWire(w) <=> b \in hdr[w]
  BY <1>1, <1>3 DEF Carries, SentWords
<1>5. ~Given("pkttype") /\ "Pri0" \in SentWords => 12 \in OnWire("Pri0")
  BY <1>2, <1>3, <1>4
<1>6. ~Given("pktsec") /\ "Pri0" \in SentWords =>
        (11 \in OnWire("Pri0") <=> "Sec" \in ChosenLayout \/ Asked("Pri0", 11))
  BY <1>1, <1>2, <1>3, <1>4
<1>7. ~Given("pktseqflg") /\ "Pri1" \in SentWords => {14, 15} \subseteq OnWire("Pri1")
  BY <1>2, <1>3, <1>4
<1>8. ~Given("pktendian") /\ "Ext0" \in SentWords => (10 \in OnWire("Ext0") <=> ~BigAt(Len(argv)))
  BY <1>1, <1>2, <1>3, <1>4
<1>9. ASSUME ~Given("pktlen"), "Pri2" \in SentWords, Len(packet) > 6
      PROVE  Value(OnWire("Pri2")) = Len(packet) - 7
  <2>1. Len(packet) \in Nat /\ 7 <= Len(packet) /\ Len(packet) <= 65542
    BY <1>9, SizeAssumption DEF PackedFits, TypeOK
  <2>2. hdr["Pri2"] = LengthWord(Len(packet))
    BY <1>2, <1>3, <1>9
  <2>3. LengthWord(Len(packet)) \subseteq 0..15 /\ Value(LengthWord(Len(packet))) = Len(packet) - 7
    BY <2>1, LengthWordValue
  <2>4. OnWire("Pri2") \subseteq 0..15
    BY DEF OnWire
  <2>5. OnWire("Pri2") = hdr["Pri2"]
    BY <1>4, <1>9, <2>2, <2>3, <2>4
  <2> QED
    BY <2>2, <2>3, <2>5
<1> QED
  BY <1>5, <1>6, <1>7, <1>8, <1>9 DEF DefaultsOnWire

\* A default is on the wire exactly when the option that overrides it was not
\* given, and the length is that of the packet, for any buffer of at most 65542 bytes.
THEOREM DefaultsArrive == Spec => []DefaultsOnWire
<1>1. TypeOK /\ ReadInv /\ Filled /\ PackedFits => DefaultsOnWire
  BY DefaultsRead
<1> QED
  BY <1>1, ReadInvariance, PacketsFit, PTL

-----------------------------------------------------------------------------
(* The checksum of the headers.                                            *)

\* The bits that an odd number of the bytes at the places s have.
Having(s, bytes, b) == {i \in s : b \in bytes[i]}
Odd(s, bytes) == {b \in 0..7 : Cardinality(Having(s, bytes, b)) % 2 = 1}

\* One place less is exclusive or with its byte.
LEMMA OddLess ==
  ASSUME NEW bytes \in Seq(Byte), NEW s \in SUBSET DOMAIN bytes, NEW x \in s
  PROVE  Odd(s, bytes) = SymDiff(Odd(s \ {x}, bytes), bytes[x])
<1>1. DOMAIN bytes = 1..Len(bytes) /\ Len(bytes) \in Nat /\ bytes[x] \subseteq 0..7
  BY DEF Byte
<1>2. ASSUME NEW b \in 0..7
      PROVE  b \in Odd(s, bytes) <=> b \in SymDiff(Odd(s \ {x}, bytes), bytes[x])
  <2> DEFINE A == Having(s, bytes, b)
             R == Having(s \ {x}, bytes, b)
  <2>1. IsFiniteSet(A) /\ IsFiniteSet(R)
    <3>1. A \subseteq 1..Len(bytes) /\ R \subseteq 1..Len(bytes)
      BY <1>1 DEF Having
    <3> HIDE DEF A, R
    <3>2. IsFiniteSet(1..Len(bytes))
      BY <1>1, FS_Interval
    <3> QED
      BY <3>1, <3>2, FS_Subset
  <2>2. R = A \ {x} /\ (x \in A <=> b \in bytes[x])
    BY DEF Having
  <2>3. (b \in Odd(s, bytes) <=> Cardinality(A) % 2 = 1) /\ (b \in Odd(s \ {x}, bytes) <=> Cardinality(R) % 2 = 1)
    BY DEF Odd
  <2>4. b \in SymDiff(Odd(s \ {x}, bytes), bytes[x]) <=> ~(b \in Odd(s \ {x}, bytes) <=> b \in bytes[x])
    BY DEF SymDiff
  <2> HIDE DEF A, R
  <2>5. Cardinality(A) \in Nat /\ Cardinality(R) \in Nat
    BY <2>1, FS_CardinalityType
  <2>6. Cardinality(R) = IF x \in A THEN Cardinality(A) - 1 ELSE Cardinality(A)
    BY <2>1, <2>2, FS_RemoveElement
  <2> QED
    BY <2>2, <2>3, <2>4, <2>5, <2>6
<1>3. Odd(s, bytes) \subseteq 0..7 /\ SymDiff(Odd(s \ {x}, bytes), bytes[x]) \subseteq 0..7
  BY <1>1 DEF Odd, SymDiff
<1> QED
  BY <1>2, <1>3

\* The exclusive or of a sequence of bytes, as the fold of the community modules
\* computes it.
IsXor(g, bytes) ==
    g = [s \in SUBSET DOMAIN bytes |-> IF s = {} THEN {} ELSE SymDiff(g[s \ {Max(s)}], bytes[Max(s)])]

LEMMA XorIsFold == \A bytes : XorAll(bytes) = (CHOOSE g : IsXor(g, bytes))[DOMAIN bytes]
BY DEF XorAll, FoldLeft, MapThenFoldSet, IsXor

\* It has the bits that an odd number of the bytes have.
LEMMA XorIs ==
  ASSUME NEW bytes \in Seq(Byte)
  PROVE  XorAll(bytes) = Odd(DOMAIN bytes, bytes)
<1> DEFINE D == DOMAIN bytes
           g == [s \in SUBSET D |-> Odd(s, bytes)]
           h == CHOOSE k : IsXor(k, bytes)
<1>1. D = 1..Len(bytes) /\ Len(bytes) \in Nat
  OBVIOUS
<1>2. \A s \in SUBSET D : s # {} => Max(s) \in s
  <2> SUFFICES ASSUME NEW s \in SUBSET D, s # {} PROVE Max(s) \in s
    OBVIOUS
  <2>1. s \in SUBSET Nat /\ \A i \in s : i <= Len(bytes)
    BY <1>1
  <2> QED
    BY <1>1, <2>1, MaxOf
<1>3. \A s \in SUBSET D : IsFiniteSet(s)
  <2>1. IsFiniteSet(1..Len(bytes))
    BY <1>1, FS_Interval
  <2> QED
    BY <1>1, <2>1, FS_Subset
<1>4. Odd({}, bytes) = {}
  <2>1. \A b : Having({}, bytes, b) = {}
    BY DEF Having
  <2>2. Cardinality({}) % 2 # 1
    BY FS_EmptySet
  <2> QED
    BY <2>1, <2>2 DEF Odd
<1> HIDE DEF D
<1>5. IsXor(g, bytes)
  <2>1. ASSUME NEW s \in SUBSET D
        PROVE  Odd(s, bytes) = IF s = {} THEN {} ELSE SymDiff(g[s \ {Max(s)}], bytes[Max(s)])
    <3>1. CASE s = {}
      BY <1>4, <3>1
    <3>2. CASE s # {}
      <4>1. Max(s) \in s
        BY <1>2, <3>2
      <4>2. g[s \ {Max(s)}] = Odd(s \ {Max(s)}, bytes)
        OBVIOUS
      <4> HIDE DEF g
      <4> QED
        BY <3>2, <4>1, <4>2, OddLess DEF D
    <3> QED
      BY <3>1, <3>2
  <2> QED
    BY <2>1, Zenon DEF IsXor, D
<1> HIDE DEF g
<1>6. IsXor(h, bytes)
  BY <1>5
<1> HIDE DEF h
<1>7. \A s \in SUBSET D : h[s] = IF s = {} THEN {} ELSE SymDiff(h[s \ {Max(s)}], bytes[Max(s)])
  BY <1>6, Zenon DEF IsXor, D
<1> DEFINE Bad == {s \in SUBSET D : h[s] # Odd(s, bytes)}
           N == {Cardinality(s) : s \in Bad}
<1>8. Bad = {}
  <2> SUFFICES ASSUME Bad # {} PROVE FALSE
    OBVIOUS
  <2>1. N \in SUBSET Nat /\ N # {}
    BY <1>3, FS_CardinalityType
  <2>2. PICK n \in N : \A m \in N : n <= m
    <3> HIDE DEF N
    <3> QED
      BY <2>1, SmallestNat
  <2>3. PICK s \in Bad : n = Cardinality(s)
    BY <2>2
  <2>4. s # {} /\ s \in SUBSET D
    BY <1>4, <1>7, <2>3
  <2> DEFINE x == Max(s)
             r == s \ {x}
  <2>5. x \in s
    BY <1>2, <2>4
  <2> HIDE DEF x
  <2>6. Cardinality(r) = n - 1 /\ n \in Nat
    BY <1>3, <2>3, <2>4, <2>5, FS_RemoveElement, FS_CardinalityType
  <2>7. h[s] = SymDiff(h[r], bytes[x])
    BY <1>7, <2>4 DEF x
  <2>8. Odd(s, bytes) = SymDiff(Odd(r, bytes), bytes[x])
    BY <2>4, <2>5, OddLess DEF D
  <2>9. r \in SUBSET D
    BY <2>4
  <2> HIDE DEF r
  <2>10. h[r] # Odd(r, bytes)
    BY <2>3, <2>7, <2>8
  <2>11. Cardinality(r) \in N
    BY <2>9, <2>10
  <2> QED
    BY <2>2, <2>6, <2>11
<1>9. h[D] = Odd(D, bytes)
  BY <1>8
<1> QED
  BY <1>9, XorIsFold DEF h, D

\* Bytes that end in 0 close to 0xFF once their last byte is their checksum.
LEMMA ChecksumCloses ==
  ASSUME NEW bytes \in Seq(Byte), Len(bytes) > 0, bytes[Len(bytes)] = {}
  PROVE  XorAll([bytes EXCEPT ![Len(bytes)] = CalcChecksum(bytes)]) = 0..7
<1> DEFINE n == Len(bytes)
           sum == CalcChecksum(bytes)
           all == [bytes EXCEPT ![n] = sum]
<1>1. n \in Nat /\ n > 0 /\ DOMAIN bytes = 1..n
  OBVIOUS
<1>2. sum \in Byte
  BY DEF CalcChecksum, Byte
<1> HIDE DEF sum
<1>3. /\ all \in Seq(Byte) /\ DOMAIN all = 1..n /\ all[n] = sum
      /\ \A i \in 1..n : i # n => all[i] = bytes[i]
  BY <1>1, <1>2
<1> HIDE DEF all
<1>4. ASSUME NEW b \in 0..7 PROVE b \in Odd(1..n, all)
  <2> DEFINE K == Having(1..n, bytes, b)
             A == Having(1..n, all, b)
  <2>1. n \notin K /\ A = IF b \in sum THEN K \cup {n} ELSE K
    <3>1. n \notin K
      BY <1>1 DEF Having
    <3>2. ASSUME b \in sum PROVE A = K \cup {n}
      <4>1. \A i \in 1..n : i \in A <=> i \in K \/ i = n
        BY <1>1, <1>3, <3>2 DEF Having
      <4>2. A \subseteq 1..n /\ K \subseteq 1..n /\ n \in 1..n
        BY <1>1 DEF Having
      <4> HIDE DEF A, K
      <4> QED
        BY <4>1, <4>2
    <3>3. b \notin sum => A = K
      BY <1>1, <1>3, <3>1 DEF Having
    <3> HIDE DEF A, K
    <3> QED
      BY <3>1, <3>2, <3>3
  <2>2. IsFiniteSet(K)
    <3>1. K \subseteq 1..n
      BY DEF Having
    <3> HIDE DEF K
    <3>2. IsFiniteSet(1..n)
      BY <1>1, FS_Interval
    <3> QED
      BY <3>1, <3>2, FS_Subset
  <2>3. b \in sum <=> Cardinality(K) % 2 = 0
    BY <1>1 DEF sum, CalcChecksum, Having
  <2> HIDE DEF K, A
  <2>4. Cardinality(K) \in Nat /\ Cardinality(K \cup {n}) = Cardinality(K) + 1
    BY <2>1, <2>2, FS_CardinalityType, FS_AddElement
  <2>5. Cardinality(A) % 2 = 1
    BY <2>1, <2>3, <2>4
  <2> QED
    BY <2>5 DEF Odd, A
<1>5. Odd(1..n, all) = 0..7
  BY <1>4 DEF Odd
<1> QED
  BY <1>3, <1>5, XorIs DEF all, sum

\* Only the checksum option writes the checksum.
LEMMA ChecksumFlag ==
  ASSUME NEW v \in Seq(ArgV), NEW b \in 0..7, AskedIn(v, "Sec", b)
  PROVE  GivenIn(v, "pktcksum")
<1> DEFINE S == WriterArgs("Sec", b)
<1>1. Where(v, S) # {}
  BY DEF AskedIn
<1> HIDE DEF S
<1>2. PICK k \in Where(v, S) : TRUE
  BY <1>1
<1>3. k \in DOMAIN v /\ v[k] \in S
  BY <1>2 DEF Where
<1>4. v[k] \in ArgV /\ v[k].id \in FieldIds /\ FieldOf[v[k].id].word = "Sec" /\ b \in Mask(FieldOf[v[k].id])
  BY <1>3 DEF S, WriterArgs
<1>5. \A id \in FieldIds : FieldOf[id].word = "Sec" /\ b \in Mask(FieldOf[id]) => id = "pktcksum"
  BY FieldIdsAre DEF FieldOf, Field, Mask
<1>6. v[k] \in WithId("pktcksum")
  BY <1>4, <1>5 DEF WithId
<1> QED
  BY <1>3, <1>6 DEF GivenIn, Where

\* The headers of a packet whose checksum was not given close to 0xFF.
Closed ==
    status = "packed" /\ "Sec" \in layout /\ "pktcksum" \notin overridden =>
      XorAll(SubSeq(packet, 1, HeaderSize(layout))) = 0..7

\* The checksum is taken over the headers with everything else filled in, its own
\* byte still empty.
LEMMA ChecksumTaken ==
  ASSUME ReadInv, TypeOK, GetPackedObject, status' = "packed", "Sec" \in layout, "pktcksum" \notin overridden
  PROVE  XorAll(SubSeq(packet', 1, HeaderSize(layout))) = 0..7
<1> DEFINE B == HeaderBytes(hdr', layout)
           C == WithChecksum(B)
           H == HeaderSize(layout)
<1>1. /\ hdr' = WithDefaults(PackedSize) /\ packet' = C \o payload
      /\ layout \in Layouts
  BY HeadersCarried
<1>2. /\ status = "parsing" /\ argv \in Seq(ArgV) /\ hdr \in [WordIds -> Word] /\ payload \in Seq(Byte)
  BY DEF GetPackedObject, TypeOK
<1>3. B \in Seq(Byte) /\ Len(B) = H /\ StandsAt(B, Place("Sec", layout), hdr'["Sec"])
  BY <1>1, HeaderWords DEF WordIds, HeaderOf
<1>4. H \in Nat /\ H > 0 /\ Place("Sec", layout) = H - 2
  BY DEF HeaderSize, Place
<1> HIDE DEF B, H
<1>5. B[Len(B)] = LowByte(hdr'["Sec"])
  BY <1>3, <1>4 DEF StandsAt
<1>6. hdr'["Sec"] = hdr["Sec"]
  BY <1>1, <1>2 DEF WithDefaults, WordIds
<1>7. ~GivenIn(argv, "pktcksum")
  BY <1>2 DEF ReadInv, Overridable
<1>8. \A b \in 0..7 : b \notin hdr["Sec"]
  <2> SUFFICES ASSUME NEW b \in 0..7 PROVE b \notin hdr["Sec"]
    OBVIOUS
  <2>1. b \in hdr["Sec"] <=> AskedIn(argv, "Sec", b)
    BY <1>2 DEF ReadInv, WordIds
  <2> QED
    BY <1>2, <1>7, <2>1, ChecksumFlag
<1>9. B[Len(B)] = {}
  BY <1>5, <1>6, <1>8 DEF LowByte
<1>10. C = [B EXCEPT ![Len(B)] = CalcChecksum(B)]
  BY DEF WithChecksum
<1>11. XorAll(C) = 0..7
  BY <1>3, <1>4, <1>9, <1>10, ChecksumCloses
<1>12. C \in Seq(Byte) /\ Len(C) = H
  BY <1>3, WithChecksumShape
<1> HIDE DEF C
<1>13. SubSeq(packet', 1, H) = C
  BY <1>1, <1>2, <1>4, <1>12
<1> QED
  BY <1>11, <1>13 DEF H

\* Every step keeps the checksum of what was packed.
LEMMA ClosedStep ==
  ASSUME ReadInv, TypeOK, Closed, [Calls]_vars
  PROVE  Closed'
<1>1. CASE UNCHANGED vars
  BY <1>1, Zenon DEF Closed, vars
<1>2. CASE GetPackedObject
  <2>1. UNCHANGED <<layout, overridden>>
    BY <1>2 DEF GetPackedObject
  <2>2. CASE status' = "packed" /\ "Sec" \in layout /\ "pktcksum" \notin overridden
    <3>1. XorAll(SubSeq(packet', 1, HeaderSize(layout))) = 0..7
      BY <1>2, <2>2, ChecksumTaken
    <3> QED
      BY <2>1, <3>1, Zenon DEF Closed
  <2>3. CASE ~(status' = "packed" /\ "Sec" \in layout /\ "pktcksum" \notin overridden)
    BY <2>1, <2>3 DEF Closed
  <2> QED
    BY <2>2, <2>3
<1>3. ASSUME NEW a \in ArgV, ParseOption(a) PROVE Closed'
  <2>1. PICK v : Returns(v)
    BY <1>3 DEF ParseOption, ParseField, ParseEndian, ParseProtocol, ParseNumber, ParseString,
                ParseOther, Collect
  <2>2. status' # "packed"
    BY <1>3, <2>1 DEF ParseOption, Returns
  <2> QED
    BY <2>2 DEF Closed
<1> QED
  BY <1>1, <1>2, <1>3 DEF Calls

\* the checksum
LEMMA ClosedRead == TypeOK /\ ReadInv /\ Closed => HeaderChecksumCloses
<1> SUFFICES ASSUME TypeOK, ReadInv, Closed, status = "packed", "Sec" \in ChosenLayout, ~Given("pktcksum")
             PROVE  XorAll(SubSeq(packet, 1, HeaderSize(ChosenLayout))) = 0..7
  BY DEF HeaderChecksumCloses
<1>1. ChosenLayout = layout /\ "pktcksum" \notin overridden
  BY PackedReading DEF Overridable
<1> QED
  BY <1>1, Zenon DEF Closed

\* No packet is there at first,
LEMMA InitClosed == Init => Closed
BY DEF Init, Instantiate, Closed

\* The headers of every packet with a command secondary header close to 0xFF,
\* unless the checksum was given.
THEOREM HeadersClose == Spec => []HeaderChecksumCloses
<1>1. Init => Closed
  BY InitClosed
<1>2. TypeOK /\ ReadInv /\ Closed /\ [Next]_vars => Closed'
  BY ClosedStep, NextCalls
<1>3. TypeOK /\ ReadInv /\ Closed => HeaderChecksumCloses
  BY ClosedRead
<1> QED
  BY <1>1, <1>2, <1>3, ReadInvariance, PTL DEF Spec

-----------------------------------------------------------------------------
(* The payload.                                                            *)

\* A sequence of sequences strung together, as the community modules compute it.
IsFlat(h, ss) == h = [i \in 1..Len(ss) |-> IF i = 1 THEN ss[i] ELSE h[i-1] \o ss[i]]

LEMMA FlattenIsFlat ==
  \A ss : FlattenSeq(ss) = IF Len(ss) = 0 THEN ss ELSE (CHOOSE h : IsFlat(h, ss))[Len(ss)]
BY DEF FlattenSeq, IsFlat

Agree(s, t, n) == \A i \in 1..n : s[i] = t[i]

\* It depends on nothing behind it.
LEMMA FlatAgrees ==
  ASSUME NEW ss, NEW tt, Len(ss) \in Nat, Len(tt) \in Nat, NEW h, NEW k, IsFlat(h, ss), IsFlat(k, tt),
         NEW n \in Nat, n <= Len(ss), n <= Len(tt), Agree(ss, tt, n)
  PROVE  Agree(h, k, n)
<1> DEFINE Bad == {i \in 1..n : h[i] # k[i]}
<1> SUFFICES ASSUME Bad # {} PROVE FALSE
  BY DEF Agree
<1>1. Bad \in SUBSET Nat
  OBVIOUS
<1>2. PICK i \in Bad : \A j \in Bad : i <= j
  <2> HIDE DEF Bad
  <2> QED
    BY <1>1, SmallestNat
<1>3. i \in 1..n /\ h[i] # k[i] /\ i \in 1..Len(ss) /\ i \in 1..Len(tt)
  BY <1>2
<1>4. /\ h[i] = IF i = 1 THEN ss[i] ELSE h[i-1] \o ss[i]
      /\ k[i] = IF i = 1 THEN tt[i] ELSE k[i-1] \o tt[i]
  BY <1>3, Zenon DEF IsFlat
<1>5. i # 1 /\ i - 1 \in 1..n
  BY <1>3, <1>4 DEF Agree
<1>6. h[i-1] # k[i-1]
  BY <1>3, <1>4, <1>5 DEF Agree
<1>7. i - 1 \in Bad
  BY <1>5, <1>6
<1> QED
  BY <1>2, <1>3, <1>7

\* There is one for every sequence of sequences.
LEMMA FlatExists ==
  ASSUME NEW S, NEW ss \in Seq(S)
  PROVE  \E h : IsFlat(h, ss)
<1> DEFINE Bad == {tt \in Seq(S) : ~\E h : IsFlat(h, tt)}
           N == {Len(tt) : tt \in Bad}
<1> SUFFICES ASSUME Bad # {} PROVE FALSE
  OBVIOUS
<1>1. N \in SUBSET Nat /\ N # {}
  <2>1. \A tt \in Seq(S) : Len(tt) \in Nat
    OBVIOUS
  <2>2. Bad \subseteq Seq(S)
    OBVIOUS
  <2> HIDE DEF Bad
  <2> QED
    BY <2>1, <2>2, Zenon
<1>2. PICK n \in N : \A m \in N : n <= m
  <2> HIDE DEF N
  <2> QED
    BY <1>1, SmallestNat
<1>3. PICK tt \in Bad : n = Len(tt)
  BY <1>2
<1>4. tt \in Seq(S) /\ n \in Nat /\ ~\E h : IsFlat(h, tt)
  BY <1>3
<1>5. n # 0
  <2>1. ASSUME n = 0 PROVE IsFlat(<<>>, tt)
    <3>1. 1..Len(tt) = {}
      BY <1>3, <2>1
    <3> QED
      BY <3>1 DEF IsFlat
  <2> QED
    BY <1>4, <2>1
<1> DEFINE front == SubSeq(tt, 1, n - 1)
<1>6. front \in Seq(S) /\ Len(front) = n - 1 /\ \A i \in 1..(n - 1) : front[i] = tt[i]
  BY <1>3, <1>4, <1>5
<1> HIDE DEF front
<1>7. front \notin Bad
  <2>1. front \in Bad => n - 1 \in N
    <3> HIDE DEF Bad
    <3> QED
      BY <1>6, Zenon
  <2> HIDE DEF N, Bad
  <2> QED
    BY <1>2, <1>4, <2>1
<1>8. PICK h : IsFlat(h, front)
  BY <1>6, <1>7
<1>9. \A i \in 1..(n - 1) : h[i] = IF i = 1 THEN tt[i] ELSE h[i-1] \o tt[i]
  BY <1>6, <1>8 DEF IsFlat
<1> DEFINE last == IF n = 1 THEN tt[n] ELSE h[n-1] \o tt[n]
           k == [i \in 1..n |-> IF i = n THEN last ELSE h[i]]
<1>10. \A i \in 1..n : k[i] = IF i = 1 THEN tt[i] ELSE k[i-1] \o tt[i]
  <2> SUFFICES ASSUME NEW i \in 1..n PROVE k[i] = IF i = 1 THEN tt[i] ELSE k[i-1] \o tt[i]
    OBVIOUS
  <2>1. CASE i = n
    <3>1. k[i] = last
      BY <2>1
    <3>2. i # 1 => k[i-1] = h[i-1]
      BY <2>1
    <3> HIDE DEF k
    <3> QED
      BY <2>1, <3>1, <3>2
  <2>2. CASE i # n
    <3>1. i \in 1..(n - 1) /\ k[i] = h[i] /\ (i # 1 => k[i-1] = h[i-1])
      BY <2>2
    <3> HIDE DEF k
    <3> QED
      BY <1>9, <3>1
  <2> QED
    BY <2>1, <2>2
<1>11. k = [i \in 1..Len(tt) |-> IF i = 1 THEN tt[i] ELSE k[i-1] \o tt[i]]
  <2>1. k = [i \in 1..n |-> k[i]]
    OBVIOUS
  <2> HIDE DEF k
  <2> QED
    BY <1>3, <1>10, <2>1, Zenon
<1>12. IsFlat(k, tt)
  <2> HIDE DEF k
  <2> QED
    BY <1>11, Zenon DEF IsFlat
<1> QED
  BY <1>4, <1>12

\* One sequence more is put behind the others.
LEMMA FlattenAppended ==
  ASSUME NEW T, NEW ss \in Seq(Seq(T)), NEW x \in Seq(T)
  PROVE  FlattenSeq(Append(ss, x)) = FlattenSeq(ss) \o x
<1>1. PICK n \in Nat : n = Len(ss)
  OBVIOUS
<1>2. PICK m \in Nat : m = n + 1
  OBVIOUS
<1>3. PICK tt \in Seq(Seq(T)) : tt = Append(ss, x)
  <2>1. Append(ss, x) \in Seq(Seq(T))
    OBVIOUS
  <2> QED
    BY <2>1, Zenon
<1>4. Len(tt) = m /\ tt[m] = x /\ \A i \in 1..n : ss[i] = tt[i]
  BY <1>1, <1>2, <1>3
<1>5. PICK h : h = CHOOSE k : IsFlat(k, ss)
  OBVIOUS
<1>6. PICK g : g = CHOOSE k : IsFlat(k, tt)
  OBVIOUS
<1>7. IsFlat(h, ss) /\ IsFlat(g, tt)
  BY <1>5, <1>6, FlatExists
<1>8. FlattenSeq(tt) = g[m]
  BY <1>2, <1>4, <1>6, FlattenIsFlat
<1>9. g[m] = IF m = 1 THEN tt[m] ELSE g[m-1] \o tt[m]
  <2>1. \A i \in 1..Len(tt) : g[i] = IF i = 1 THEN tt[i] ELSE g[i-1] \o tt[i]
    BY <1>7, Zenon DEF IsFlat
  <2>2. m \in 1..Len(tt)
    BY <1>2, <1>4
  <2> QED
    BY <2>1, <2>2, Zenon
<1>10. CASE n = 0
  <2>1. ss = <<>> /\ m = 1
    <3>1. Len(ss) = 0
      BY <1>1, <1>10
    <3>2. ss = <<>>
      BY <3>1
    <3> QED
      BY <1>2, <1>10, <3>2
  <2>2. FlattenSeq(ss) = <<>>
    BY <1>1, <1>10, <2>1, FlattenIsFlat
  <2> QED
    BY <1>3, <1>4, <1>8, <1>9, <2>1, <2>2
<1>11. CASE n # 0
  <2>1. FlattenSeq(ss) = h[n]
    BY <1>1, <1>5, <1>11, FlattenIsFlat
  <2>2. n <= Len(ss) /\ n <= Len(tt) /\ m # 1 /\ m - 1 = n /\ n \in 1..n
    BY <1>1, <1>2, <1>4, <1>11
  <2>3. Agree(h, g, n)
    <3>1. Len(ss) \in Nat /\ Len(tt) \in Nat /\ Agree(ss, tt, n)
      BY <1>1, <1>2, <1>4 DEF Agree
    <3> QED
      BY <1>7, <2>2, <3>1, FlatAgrees
  <2>4. h[n] = g[n]
    BY <2>2, <2>3 DEF Agree
  <2> QED
    BY <1>3, <1>4, <1>8, <1>9, <2>1, <2>2, <2>4, Zenon
<1> QED
  BY <1>10, <1>11

\* What argument a stands for when the endianness in force is big.
NewImage(a, big) ==
    CASE a.id \in NumberIds ->
           LET low == Low(a.val, NumberOf[a.id].size)
           IN IF big \/ a.id \in ForcedBigEndian THEN low ELSE Reverse(low)
      [] a.id = "string" -> [k \in 1..a.width |-> IF k <= Len(a.text) THEN a.text[k] ELSE {}]
      [] OTHER -> <<>>

\* The images of the arguments of a command line v.
EndiansIn(v, i) == {j \in 1..i : v[j].id = "endian"}
BigBefore(v, i) == EndiansIn(v, i) # {} => v[Max(EndiansIn(v, i))].name = "BE"
ImagesIn(v) == [i \in DOMAIN v |-> NewImage(v[i], BigBefore(v, i))]

\* They are what the property strings together.
LEMMA ImagesAre == [i \in DOMAIN argv |-> Image(i)] = ImagesIn(argv)
<1>1. \A i : BigAt(i) <=> BigBefore(argv, i)
  BY Zenon DEF BigAt, BigBefore, LastOf, EndiansIn
<1>2. \A i \in DOMAIN argv : Image(i) = NewImage(argv[i], BigBefore(argv, i))
  <2> SUFFICES ASSUME NEW i \in DOMAIN argv PROVE Image(i) = NewImage(argv[i], BigBefore(argv, i))
    OBVIOUS
  <2>1. CASE BigAt(i)
    <3>1. BigBefore(argv, i)
      BY <1>1, <2>1
    <3> QED
      BY <2>1, <3>1, Zenon DEF Image, NewImage
  <2>2. CASE ~BigAt(i)
    <3>1. ~BigBefore(argv, i)
      BY <1>1, <2>2
    <3> QED
      BY <2>2, <3>1, Zenon DEF Image, NewImage
  <2> QED
    BY <2>1, <2>2
<1> QED
  BY <1>2, Zenon DEF ImagesIn

\* An image is a sequence of bytes.
LEMMA ImageShape ==
  ASSUME NEW a \in ArgV, NEW big \in BOOLEAN
  PROVE  NewImage(a, big) \in Seq(Byte)
<1>1. CASE a.id \in NumberIds
  <2> DEFINE low == Low(a.val, NumberOf[a.id].size)
  <2>1. low \in Seq(Byte)
    BY <1>1, NumberShape, NumberArg, LowShape
  <2>2. NewImage(a, big) = IF big \/ a.id \in ForcedBigEndian THEN low ELSE Reverse(low)
    BY <1>1, Zenon, OptionKinds DEF NewImage
  <2> HIDE DEF low
  <2> QED
    BY <2>1, <2>2, OrderedShape DEF Ordered
<1>2. CASE a.id = "string"
  <2> DEFINE text == [k \in 1..a.width |-> IF k <= Len(a.text) THEN a.text[k] ELSE {}]
  <2>1. a.text \in Seq(Byte) /\ a.width \in Nat
    BY <1>2, StringArg
  <2>2. \A k \in 1..a.width : text[k] \in Byte
    BY <2>1 DEF Byte
  <2>3. text \in Seq(Byte)
    <3>1. text \in [1..a.width -> Byte]
      BY <2>2, Zenon
    <3> HIDE DEF text
    <3> QED
      BY <2>1, <3>1
  <2>4. a.id \notin NumberIds
    BY <1>2, OptionKinds
  <2>5. NewImage(a, big) = text
    BY <1>2, <2>4, Zenon DEF NewImage
  <2> QED
    BY <2>3, <2>5
<1>3. CASE a.id \notin NumberIds /\ a.id # "string"
  <2>1. NewImage(a, big) = <<>>
    BY <1>3, Zenon DEF NewImage
  <2> QED
    BY <2>1
<1> QED
  BY <1>1, <1>2, <1>3

\* One argument more is one image more.
LEMMA ImagesAppended ==
  ASSUME NEW v \in Seq(ArgV), NEW a \in ArgV
  PROVE  /\ ImagesIn(v) \in Seq(Seq(Byte))
         /\ NewImage(a, BigIn(v)) \in Seq(Byte)
         /\ ImagesIn(Append(v, a)) = Append(ImagesIn(v), NewImage(a, BigIn(v)))
<1> DEFINE w == Append(v, a)
           n == Len(v)
<1>1. /\ w \in Seq(ArgV) /\ n \in Nat /\ DOMAIN w = 1..(n + 1) /\ DOMAIN v = 1..n /\ w[n + 1] = a
      /\ \A i \in 1..n : w[i] = v[i]
  OBVIOUS
<1>2. ImagesIn(v) \in Seq(Seq(Byte)) /\ DOMAIN ImagesIn(v) = 1..n /\ Len(ImagesIn(v)) = n
  <2>1. \A i \in 1..n : v[i] \in ArgV /\ BigBefore(v, i) \in BOOLEAN
    BY <1>1 DEF BigBefore
  <2>2. \A i \in 1..n : NewImage(v[i], BigBefore(v, i)) \in Seq(Byte)
    BY <2>1, ImageShape
  <2>3. ImagesIn(v) = [i \in 1..n |-> NewImage(v[i], BigBefore(v, i))]
    BY <1>1, Zenon DEF ImagesIn
  <2> QED
    BY <1>1, <2>2, <2>3
<1>3. BigIn(v) \in BOOLEAN
  BY DEF BigIn
<1>4. NewImage(a, BigIn(v)) \in Seq(Byte)
  BY <1>3, ImageShape
<1>5. \A i \in 1..n : BigBefore(w, i) <=> BigBefore(v, i)
  <2> SUFFICES ASSUME NEW i \in 1..n PROVE BigBefore(w, i) <=> BigBefore(v, i)
    OBVIOUS
  <2>1. EndiansIn(w, i) = EndiansIn(v, i) /\ EndiansIn(v, i) \subseteq 1..i
    BY <1>1 DEF EndiansIn
  <2>2. EndiansIn(v, i) # {} => w[Max(EndiansIn(v, i))] = v[Max(EndiansIn(v, i))]
    <3>1. EndiansIn(v, i) \in SUBSET Nat /\ i \in Nat /\ \A j \in EndiansIn(v, i) : j <= i
      BY <2>1
    <3>2. EndiansIn(v, i) # {} => Max(EndiansIn(v, i)) \in 1..i
      BY <2>1, <3>1, MaxOf
    <3> QED
      BY <1>1, <3>2
  <2> QED
    BY <2>1, <2>2, Zenon DEF BigBefore
<1>6. BigBefore(w, n + 1) <=> BigIn(w)
  <2>1. EndiansIn(w, n + 1) = Where(w, WithId("endian"))
    BY <1>1 DEF EndiansIn, Where, WithId
  <2> QED
    BY <2>1, Zenon DEF BigBefore, BigIn, Latest
<1>7. NewImage(a, BigBefore(w, n + 1)) = NewImage(a, BigIn(v))
  <2>1. CASE a.id = "endian"
    <3>1. a.id \notin NumberIds /\ a.id # "string"
      BY <2>1, OptionKinds
    <3>2. \A big : NewImage(a, big) = <<>>
      BY <3>1, Zenon DEF NewImage
    <3> QED
      BY <3>2
  <2>2. CASE a.id # "endian"
    <3>1. BigBefore(w, n + 1) <=> BigIn(v)
      BY <1>6, <2>2, ReadOneMore
    <3> QED
      BY <3>1, Zenon DEF NewImage
  <2> QED
    BY <2>1, <2>2
<1> DEFINE both == Append(ImagesIn(v), NewImage(a, BigIn(v)))
<1>8. /\ both \in Seq(Seq(Byte)) /\ Len(both) = n + 1 /\ both[n + 1] = NewImage(a, BigIn(v))
      /\ \A i \in 1..n : both[i] = ImagesIn(v)[i]
  BY <1>2, <1>4
<1> HIDE DEF both
<1>9. \A i \in 1..n : ImagesIn(v)[i] = NewImage(w[i], BigBefore(w, i))
  <2> SUFFICES ASSUME NEW i \in 1..n PROVE ImagesIn(v)[i] = NewImage(w[i], BigBefore(w, i))
    OBVIOUS
  <2>1. ImagesIn(v)[i] = NewImage(v[i], BigBefore(v, i))
    BY <1>1 DEF ImagesIn
  <2>2. (BigBefore(w, i) <=> BigBefore(v, i)) /\ w[i] = v[i]
    BY <1>1, <1>5
  <2> QED
    BY <2>1, <2>2, Zenon DEF NewImage
<1>10. \A i \in 1..(n + 1) : both[i] = NewImage(w[i], BigBefore(w, i))
  <2> SUFFICES ASSUME NEW i \in 1..(n + 1) PROVE both[i] = NewImage(w[i], BigBefore(w, i))
    OBVIOUS
  <2>1. CASE i = n + 1
    BY <1>1, <1>7, <1>8, <2>1, Zenon
  <2>2. CASE i # n + 1
    <3>1. i \in 1..n
      BY <1>1, <2>2
    <3> QED
      BY <1>8, <1>9, <3>1, Zenon
  <2> QED
    BY <2>1, <2>2
<1>11. both = [i \in 1..(n + 1) |-> NewImage(w[i], BigBefore(w, i))]
  <2>1. both = [i \in 1..(n + 1) |-> both[i]]
    BY <1>1, <1>8
  <2> QED
    BY <1>10, <2>1, Zenon
<1>12. ImagesIn(w) = both
  BY <1>1, <1>11, Zenon DEF ImagesIn
<1> QED
  BY <1>2, <1>4, <1>12 DEF w, both

\* A copy that was neither refused nor ran over is there in full.
InFull(c, pl, bytes, n) ==
    c.verdict # "INVALID" /\ c.verdict # "OVERRUN" =>
      c.verdict = "ACCEPTED" /\ c.payload = pl \o SubSeq(bytes, 1, n)

\* For any copy.
LEMMA CopyAccepted == \A pl, bytes, n : InFull(CopyData(pl, bytes, n), pl, bytes, n)
<1> SUFFICES ASSUME NEW pl, NEW bytes, NEW n PROVE InFull(CopyData(pl, bytes, n), pl, bytes, n)
  BY Zenon
<1>1. PICK all : all = pl \o SubSeq(bytes, 1, n)
  OBVIOUS
<1>2. CASE Room(Len(pl), n) /\ ~(Len(pl) + n > MAX_PACKET_SIZE)
  <2>1. CopyData(pl, bytes, n) = [verdict |-> "ACCEPTED", payload |-> all]
    BY <1>1, <1>2, Zenon DEF CopyData
  <2>2. [verdict |-> "ACCEPTED", payload |-> all].verdict = "ACCEPTED"
        /\ [verdict |-> "ACCEPTED", payload |-> all].payload = all
    OBVIOUS
  <2> QED
    BY <1>1, <2>1, <2>2, Zenon DEF InFull
<1>3. CASE ~(Room(Len(pl), n) /\ ~(Len(pl) + n > MAX_PACKET_SIZE))
  <2>1. CopyData(pl, bytes, n).verdict \in {"INVALID", "OVERRUN"}
    BY <1>3 DEF CopyData
  <2> QED
    BY <2>1, Zenon DEF InFull
<1> QED
  BY <1>2, <1>3

\* An accepted number adds its image to the payload.
LEMMA NumberAdded ==
  ASSUME TypeOK, status = "parsing", status' = "parsing", NEW a \in ArgV, ParseNumber(a)
  PROVE  payload' = payload \o NewImage(a, bigEndian)
<1> DEFINE n == NumberOf[a.id]
           low == Low(a.val, n.size)
           image == Ordered(low, bigEndian \/ a.id \in ForcedBigEndian)
           copy == CopyData(payload, image, n.size)
<1>1. a.id \in NumberIds /\ bigEndian \in BOOLEAN
  BY DEF ParseNumber, TypeOK
<1>2. n.size \in 1..8 /\ a.val \in Seq(Byte) /\ n.size <= Len(a.val)
  BY <1>1, NumberShape, NumberArg
<1>3. low \in Seq(Byte) /\ Len(low) = n.size
  BY <1>2, LowShape
<1>4. image \in Seq(Byte) /\ Len(image) = n.size
  BY <1>3, OrderedShape
<1>5. payload' = copy.payload /\ Returns(copy.verdict)
  BY StillParsing DEF ParseNumber, Collect
<1> HIDE DEF copy
<1>6. copy.verdict # "INVALID" /\ copy.verdict # "OVERRUN"
  BY <1>5, StillParsing
<1> HIDE DEF image
<1>7. payload' = payload \o SubSeq(image, 1, n.size)
  <2>1. copy = CopyData(payload, image, n.size)
    BY DEF copy
  <2>2. copy.payload = payload \o SubSeq(image, 1, n.size)
    <3>1. InFull(copy, payload, image, n.size)
      BY <2>1, CopyAccepted
    <3> QED
      BY <1>6, <3>1, Zenon DEF InFull
  <2> QED
    BY <1>5, <2>2
<1>8. SubSeq(image, 1, n.size) = image
  BY <1>4
<1>9. image = NewImage(a, bigEndian)
  <2>1. a.id # "string"
    BY <1>1, OptionKinds
  <2> QED
    BY <1>1, <2>1, Zenon DEF image, Ordered, NewImage
<1> QED
  BY <1>7, <1>8, <1>9

\* Bytes with zeros behind them, up to a width.
LEMMA Padded ==
  ASSUME NEW pl \in Seq(Byte), NEW text \in Seq(Byte), NEW width \in Nat, Len(text) <= width
  PROVE  (pl \o text) \o SubSeq([i \in 1..(width - Len(text)) |-> {}], 1, width - Len(text))
           = pl \o [k \in 1..width |-> IF k <= Len(text) THEN text[k] ELSE {}]
<1> DEFINE len == Len(text)
           zeros == [i \in 1..(width - len) |-> {}]
           full == [k \in 1..width |-> IF k <= len THEN text[k] ELSE {}]
<1>1. len \in Nat /\ width - len \in Nat
  OBVIOUS
<1>2. zeros \in Seq(Byte) /\ Len(zeros) = width - len
  <2>1. \A i \in 1..(width - len) : zeros[i] \in Byte
    BY DEF Byte
  <2> QED
    BY <1>1, <2>1
<1>3. SubSeq(zeros, 1, width - len) = zeros
  BY <1>1, <1>2
<1>4. text \o zeros = full
  <2>1. /\ text \o zeros \in Seq(Byte) /\ Len(text \o zeros) = width
        /\ \A k \in 1..width : (text \o zeros)[k] = IF k <= len THEN text[k] ELSE zeros[k - len]
    <3> HIDE DEF zeros
    <3> QED
      BY <1>1, <1>2, ConcatProperties
  <2>2. \A k \in 1..width : k > len => zeros[k - len] = {}
    BY <1>1
  <2>3. PICK both \in Seq(Byte) : both = text \o zeros
    <3> HIDE DEF zeros
    <3> QED
      BY <2>1, Zenon
  <2> HIDE DEF zeros
  <2>4. both = [k \in 1..width |-> both[k]]
    <3>1. Len(both) = width
      BY <2>1, <2>3, Zenon
    <3> QED
      BY <3>1
  <2>5. \A k \in 1..width : both[k] = IF k <= len THEN text[k] ELSE {}
    <3>1. \A k \in 1..width : both[k] = IF k <= len THEN text[k] ELSE zeros[k - len]
      BY <2>1, <2>3, Zenon
    <3>2. \A k \in 1..width : k <= len \/ k > len
      BY <1>1
    <3> QED
      BY <2>2, <3>1, <3>2, Zenon
  <2> QED
    BY <2>3, <2>4, <2>5, Zenon
<1> HIDE DEF zeros, full
<1>5. (pl \o text) \o zeros = pl \o (text \o zeros)
  BY <1>2, ConcatAssociative
<1> QED
  BY <1>3, <1>4, <1>5 DEF zeros, full

\* An accepted string of a length clear of the width of an unsigned int adds its text
\* and its padding.
LEMMA StringAdded ==
  ASSUME TypeOK, status = "parsing", status' = "parsing", NEW a \in ArgV, ParseString(a),
         a.width + MAX_PACKET_SIZE < UINT_MOD
  PROVE  payload' = payload \o NewImage(a, bigEndian)
<1> DEFINE len == Len(a.text)
           copied == CopyData(payload, a.text, len % UINT_MOD)
           padded == PadData(copied.payload, (a.width - len) % UINT_MOD)
           full == [k \in 1..a.width |-> IF k <= Len(a.text) THEN a.text[k] ELSE {}]
<1>1. a.id = "string" /\ a.text \in Seq(Byte) /\ a.width \in Nat /\ len \in Nat /\ payload \in Seq(Byte)
  BY StringArg DEF ParseString, TypeOK
<1>2. /\ len <= a.width
      /\ Collect(IF copied.verdict = "ACCEPTED" /\ len # a.width THEN padded ELSE copied)
  BY StillParsing DEF ParseString
<1>3. len % UINT_MOD = len /\ (a.width - len) % UINT_MOD = a.width - len /\ a.width - len \in Nat
  <2>1. UINT_MOD \in Nat /\ UINT_MOD > 0 /\ a.width < UINT_MOD
    BY <1>1, UintAssumption, SizeAssumption
  <2>2. len < UINT_MOD /\ a.width - len \in Nat /\ a.width - len < UINT_MOD
    <3>1. len \in Nat /\ a.width \in Nat /\ len <= a.width
      BY <1>1, <1>2
    <3> HIDE DEF len
    <3> QED
      BY <2>1, <3>1
  <2> QED
    BY <1>1, <2>1, <2>2, ModShape
<1>4. NewImage(a, bigEndian) = full
  <2>1. a.id \notin NumberIds
    BY <1>1, OptionKinds
  <2> QED
    BY <1>1, <2>1, Zenon DEF NewImage
<1>5. copied = CopyData(payload, a.text, len)
  BY <1>3, Zenon
<1>6. padded = CopyData(copied.payload, [i \in 1..(a.width - len) |-> {}], a.width - len)
  BY <1>3, Zenon DEF PadData
<1>7. SubSeq(a.text, 1, len) = a.text
  BY <1>1
<1> HIDE DEF copied, padded, len
<1>8. copied.verdict # "INVALID" /\ copied.verdict # "OVERRUN"
  <2>1. CASE copied.verdict = "ACCEPTED"
    BY <2>1
  <2>2. CASE copied.verdict # "ACCEPTED"
    <3>1. Returns(copied.verdict)
      BY <1>2, <2>2 DEF Collect
    <3> QED
      BY <3>1, StillParsing
  <2> QED
    BY <2>1, <2>2
<1>9. copied.verdict = "ACCEPTED" /\ copied.payload = payload \o a.text
  <2>1. InFull(copied, payload, a.text, len)
    BY <1>5, CopyAccepted
  <2> QED
    BY <1>7, <1>8, <2>1, Zenon DEF InFull
<1>10. (payload \o a.text) \o SubSeq([i \in 1..(a.width - len) |-> {}], 1, a.width - len) = payload \o full
  BY <1>1, <1>2, Padded DEF len
<1>11. CASE len # a.width
  <2>1. payload' = padded.payload /\ Returns(padded.verdict)
    BY <1>2, <1>9, <1>11 DEF Collect
  <2>2. padded.verdict # "INVALID" /\ padded.verdict # "OVERRUN"
    BY <2>1, StillParsing
  <2>3. padded.payload = copied.payload \o SubSeq([i \in 1..(a.width - len) |-> {}], 1, a.width - len)
    <3>1. InFull(padded, copied.payload, [i \in 1..(a.width - len) |-> {}], a.width - len)
      BY <1>6, CopyAccepted
    <3> QED
      BY <2>2, <3>1, Zenon DEF InFull
  <2> QED
    BY <1>4, <1>9, <1>10, <2>1, <2>3, Zenon
<1>12. CASE len = a.width
  <2>1. payload' = copied.payload
    BY <1>2, <1>12 DEF Collect
  <2>2. full = a.text
    <3>1. PICK text \in Seq(Byte) : text = a.text
      BY <1>1
    <3>2. text = [k \in 1..a.width |-> text[k]]
      BY <1>12, <3>1 DEF len
    <3>3. \A k \in 1..a.width : (IF k <= Len(text) THEN text[k] ELSE {}) = text[k]
      BY <1>12, <3>1 DEF len
    <3> QED
      BY <3>1, <3>2, <3>3, Zenon
  <2> QED
    BY <1>4, <1>9, <2>1, <2>2, Zenon
<1> QED
  BY <1>11, <1>12

\* A number that fits is what its bytes are widened to.
LEMMA FitsWidened ==
  ASSUME NEW a \in ArgV, a.id \in NumberIds, Fits(a)
  PROVE  Widened(a) = a.val
<1> DEFINE n == NumberOf[a.id]
           low == Low(a.val, n.size)
           fill == IF n.kind = "signed" /\ 7 \in low[1] THEN 0..7 ELSE {}
           high == [k \in 1..(Len(a.val) - n.size) |-> fill]
<1>1. a.val \in Seq(Byte) /\ n.size \in 1..8 /\ n.size <= Len(a.val)
  BY NumberArg, NumberShape
<1>2. \A i \in 1..(Len(a.val) - n.size) : a.val[i] = fill
  BY DEF Fits
<1> HIDE DEF fill, n
<1>3. low = SubSeq(a.val, Len(a.val) - n.size + 1, Len(a.val))
  BY DEF Low
<1>4. PICK val \in Seq(Byte), size \in Nat : val = a.val /\ size = n.size /\ size <= Len(val)
  BY <1>1
<1>5. [k \in 1..(Len(val) - size) |-> fill] \o SubSeq(val, Len(val) - size + 1, Len(val)) = val
  <2>1. \A i \in 1..(Len(val) - size) : val[i] = fill
    BY <1>2, <1>4
  <2>2. [k \in 1..(Len(val) - size) |-> fill] = SubSeq(val, 1, Len(val) - size)
    BY <1>4, <2>1
  <2>3. SubSeq(val, 1, Len(val) - size) \o SubSeq(val, Len(val) - size + 1, Len(val)) = val
    <3>1. PICK m \in Nat : m = Len(val) - size
      BY <1>4
    <3>2. 1 \in 1..(Len(val) + 1) /\ m \in (1 - 1)..Len(val) /\ Len(val) \in m..Len(val)
      BY <1>4, <3>1
    <3>3. SubSeq(val, 1, m) \o SubSeq(val, m + 1, Len(val)) = SubSeq(val, 1, Len(val))
      BY <3>2, ConcatAdjacentSubSeq
    <3> QED
      BY <3>1, <3>3, SubSeqFull
  <2> QED
    BY <2>2, <2>3
<1> QED
  BY <1>3, <1>4, <1>5 DEF Widened, fill, n

\* An accepted number is intact, as are those before it.
LEMMA IntactAdded ==
  ASSUME argv \in Seq(ArgV), NumbersIntact, NEW a \in ArgV, ParseOption(a), status' = "parsing"
  PROVE  NumbersIntact'
<1>1. status = "parsing" /\ argv' = Append(argv, a)
  BY DEF ParseOption
<1>2. ASSUME a.id \in NumberIds PROVE Widened(a) = a.val
  <2>1. ParseNumber(a)
    <3>1. a.id \notin FieldIds /\ a.id \notin {"string", "endian", "protocol", "NONE", "pktname"}
      BY <1>2, OptionKinds, FieldIdsAre, NumberIdsAre
    <3> QED
      BY <3>1 DEF ParseOption, ParseField, ParseString, ParseEndian, ParseProtocol, ParseOther
  <2>2. Fits(a)
    BY <1>1, <2>1 DEF ParseNumber, Returns
  <2> QED
    BY <1>2, <2>2, FitsWidened
<1>3. /\ DOMAIN argv' = 1..(Len(argv) + 1) /\ DOMAIN argv = 1..Len(argv) /\ Len(argv) \in Nat
      /\ argv'[Len(argv) + 1] = a /\ \A i \in 1..Len(argv) : argv'[i] = argv[i]
  BY <1>1
<1>4. ASSUME NEW i \in DOMAIN argv', argv'[i].id \in NumberIds
      PROVE  Widened(argv'[i]) = argv'[i].val
  <2>1. CASE i = Len(argv) + 1
    BY <1>2, <1>3, <1>4, <2>1
  <2>2. CASE i \in DOMAIN argv
    BY <1>3, <1>4, <2>2 DEF NumbersIntact
  <2> QED
    BY <1>3, <2>1, <2>2
<1> QED
  BY <1>4 DEF NumbersIntact, Widened

\* The payload is the images of the arguments read so far, one behind the other, and
\* in a packet it comes behind the headers; the numbers among them are intact.
Collected ==
    /\ status \in {"parsing", "packed"} => NumbersIntact
    /\ status \in {"parsing", "packed"} /\ StringLengthsClear => payload = FlattenSeq(ImagesIn(argv))
    /\ status = "packed" => SubSeq(packet, HeaderSize(layout) + 1, Len(packet)) = payload

\* An accepted argument adds its image.
LEMMA ArgumentAdded ==
  ASSUME ReadInv, TypeOK, Collected, NEW a \in ArgV, ParseOption(a), status' = "parsing",
         StringLengthsClear'
  PROVE  payload' = FlattenSeq(ImagesIn(argv'))
<1>1. status = "parsing" /\ argv' = Append(argv, a) /\ argv \in Seq(ArgV) /\ payload \in Seq(Byte)
  BY DEF ParseOption, TypeOK
<1>2. StringLengthsClear /\ (a.id = "string" => a.width + MAX_PACKET_SIZE < UINT_MOD)
  <2>1. /\ DOMAIN argv' = 1..(Len(argv) + 1) /\ DOMAIN argv = 1..Len(argv) /\ Len(argv) \in Nat
        /\ argv'[Len(argv) + 1] = a /\ \A i \in 1..Len(argv) : argv'[i] = argv[i]
    BY <1>1
  <2>2. \A i \in DOMAIN argv' : argv'[i].id = "string" => argv'[i].width + MAX_PACKET_SIZE < UINT_MOD
    BY DEF StringLengthsClear
  <2> QED
    BY <2>1, <2>2 DEF StringLengthsClear
<1>3. payload = FlattenSeq(ImagesIn(argv))
  BY <1>1, <1>2 DEF Collected
<1>4. bigEndian = BigIn(argv)
  <2>1. (bigEndian <=> BigIn(argv)) /\ bigEndian \in BOOLEAN /\ BigIn(argv) \in BOOLEAN
    BY <1>1 DEF ReadInv, TypeOK, BigIn
  <2> QED
    BY <2>1
<1>5. payload' = payload \o NewImage(a, bigEndian)
  <2>1. CASE ParseNumber(a)
    BY <1>1, <2>1, NumberAdded
  <2>2. CASE ParseString(a)
    <3>1. a.id = "string"
      BY <2>2 DEF ParseString
    <3> QED
      BY <1>1, <1>2, <2>2, <3>1, StringAdded
  <2>3. CASE ParseField(a) \/ ParseEndian(a) \/ ParseProtocol(a) \/ ParseOther(a)
    <3>1. payload' = payload /\ a.id \notin NumberIds /\ a.id # "string"
      BY <2>3, OptionKinds DEF ParseField, ParseEndian, ParseProtocol, ParseOther
    <3>2. NewImage(a, bigEndian) = <<>>
      BY <3>1, Zenon DEF NewImage
    <3> QED
      BY <1>1, <3>1, <3>2
  <2> QED
    BY <2>1, <2>2, <2>3 DEF ParseOption
<1>6. /\ ImagesIn(argv) \in Seq(Seq(Byte)) /\ NewImage(a, BigIn(argv)) \in Seq(Byte)
      /\ ImagesIn(argv') = Append(ImagesIn(argv), NewImage(a, BigIn(argv)))
  BY <1>1, ImagesAppended
<1>7. FlattenSeq(ImagesIn(argv')) = FlattenSeq(ImagesIn(argv)) \o NewImage(a, BigIn(argv))
  BY <1>6, FlattenAppended
<1> QED
  BY <1>3, <1>4, <1>5, <1>7

\* Every step keeps it.
LEMMA CollectedStep ==
  ASSUME ReadInv, TypeOK, Collected, [Calls]_vars
  PROVE  Collected'
<1>1. CASE UNCHANGED vars
  <2>1. UNCHANGED <<status, payload, argv, packet, layout>>
    BY <1>1 DEF vars
  <2>2. (StringLengthsClear' <=> StringLengthsClear) /\ (NumbersIntact' <=> NumbersIntact)
    BY <2>1 DEF StringLengthsClear, NumbersIntact, Widened
  <2> QED
    BY <2>1, <2>2, Zenon DEF Collected
<1>2. CASE GetPackedObject
  <2>1. UNCHANGED <<payload, argv, layout>> /\ status = "parsing"
    BY <1>2 DEF GetPackedObject
  <2>2. (StringLengthsClear' <=> StringLengthsClear) /\ (NumbersIntact' <=> NumbersIntact)
    BY <2>1 DEF StringLengthsClear, NumbersIntact, Widened
  <2>3. ASSUME status' = "packed"
        PROVE  SubSeq(packet', HeaderSize(layout) + 1, Len(packet')) = payload
    <3> DEFINE C == WithChecksum(HeaderBytes(hdr', layout))
               H == HeaderSize(layout)
    <3>1. packet' = C \o payload /\ payload \in Seq(Byte)
      BY <1>2, <2>3 DEF GetPackedObject, TypeOK
    <3>2. C \in Seq(Byte) /\ Len(C) = H /\ H \in Nat
      BY HeaderBytesShape, WithChecksumShape DEF HeaderSize
    <3> HIDE DEF C, H
    <3>3. SubSeq(packet', H + 1, Len(packet')) = payload
      BY <3>1, <3>2
    <3> QED
      BY <3>3 DEF H
  <2> QED
    BY <2>1, <2>2, <2>3, Zenon DEF Collected
<1>3. ASSUME NEW a \in ArgV, ParseOption(a) PROVE Collected'
  <2>1. PICK v : Returns(v)
    BY <1>3 DEF ParseOption, ParseField, ParseEndian, ParseProtocol, ParseNumber, ParseString,
                ParseOther, Collect
  <2>2. status' # "packed" 
    BY <1>3, <2>1 DEF ParseOption, Returns
  <2>3. ASSUME status' = "parsing" PROVE NumbersIntact'
    <3>1. status = "parsing" /\ argv \in Seq(ArgV)
      BY <1>3 DEF ParseOption, TypeOK
    <3> QED
      BY <1>3, <2>3, <3>1, IntactAdded DEF Collected
  <2>4. ASSUME status' = "parsing", StringLengthsClear' PROVE payload' = FlattenSeq(ImagesIn(argv'))
    BY <1>3, <2>4, ArgumentAdded
  <2> QED
    BY <2>2, <2>3, <2>4 DEF Collected
<1> QED
  BY <1>1, <1>2, <1>3 DEF Calls

\* and the payload.
LEMMA CollectedRead == TypeOK /\ ReadInv /\ Collected => PayloadOnWire
<1> SUFFICES ASSUME TypeOK, ReadInv, Collected, status = "packed", StringLengthsClear
             PROVE  SubSeq(packet, HeaderSize(ChosenLayout) + 1, Len(packet))
                      = FlattenSeq([i \in DOMAIN argv |-> Image(i)])
  BY DEF PayloadOnWire, Collected
<1>1. ChosenLayout = layout
  BY PackedReading
<1> QED
  BY <1>1, ImagesAre, Zenon DEF Collected

\* nor a payload.
LEMMA InitCollected == Init => Collected
<1> SUFFICES ASSUME Init PROVE Collected
  OBVIOUS
<1>1. argv = <<>> /\ payload = <<>> /\ status = "parsing"
  BY DEF Init, Instantiate
<1>2. ImagesIn(argv) = <<>> /\ NumbersIntact
  BY <1>1 DEF ImagesIn, NumbersIntact
<1>3. FlattenSeq(<<>>) = <<>>
  BY FlattenIsFlat
<1> QED
  BY <1>1, <1>2, <1>3 DEF Collected

\* The payload of a packet is the images of its arguments, in order, each in the
\* endianness in force when it was read, for any command line whose string lengths
\* stay clear of the width of an unsigned int; and every number is the one that was typed,
\* whatever those lengths.
THEOREM PayloadArrives == Spec => []PayloadOnWire
<1>1. Init => Collected
  BY InitCollected
<1>2. TypeOK /\ ReadInv /\ Collected /\ [Next]_vars => Collected'
  BY CollectedStep, NextCalls
<1>3. TypeOK /\ ReadInv /\ Collected => PayloadOnWire
  BY CollectedRead
<1> QED
  BY <1>1, <1>2, <1>3, ReadInvariance, PTL DEF Spec

-----------------------------------------------------------------------------
(* Two lines that differ in what stands for no bytes.                      *)

\* By s the sequences of u that are not empty are those of v, in the same order.
Matched(u, v, s) ==
    /\ \A n \in DOMAIN u : u[n] # <<>> => s[n] \in DOMAIN v /\ v[s[n]] = u[n]
    /\ \A k \in DOMAIN v : v[k] # <<>> => \E n \in DOMAIN u : s[n] = k /\ u[n] = v[k]
    /\ \A m, n \in DOMAIN u : u[m] # <<>> /\ u[n] # <<>> /\ m < n => s[m] < s[n]

\* Some two such lines of N sequences in all are not the same when strung together.
Differ(T, s, N) ==
    \E u, v \in Seq(Seq(T)) : Matched(u, v, s) /\ Len(u) + Len(v) = N /\ FlattenSeq(u) # FlattenSeq(v)

\* w is u without its last member.
ButLast(w, u) ==
    /\ Len(w) + 1 = Len(u) /\ u = Append(w, u[Len(u)]) /\ Len(u) \in DOMAIN u
    /\ DOMAIN w = DOMAIN u \ {Len(u)} /\ \A n \in DOMAIN w : w[n] = u[n]

\* What is not the empty sequence is a sequence and one more.
LEMMA SplitLast ==
  ASSUME NEW S, NEW u \in Seq(S), u # <<>>
  PROVE  u[Len(u)] \in S /\ \E w \in Seq(S) : ButLast(w, u)
<1> DEFINE w == [n \in 1..(Len(u) - 1) |-> u[n]]
<1>1. Len(u) \in Nat /\ Len(u) # 0 /\ DOMAIN u = 1..Len(u)
  OBVIOUS
<1>2. w \in Seq(S) /\ Len(w) = Len(u) - 1
  BY <1>1
<1>3. u = Append(w, u[Len(u)])
  BY <1>1, <1>2
<1>4. DOMAIN w = DOMAIN u \ {Len(u)} /\ \A n \in DOMAIN w : w[n] = u[n]
  BY <1>1
<1>5. u[Len(u)] \in S /\ Len(u) \in DOMAIN u /\ Len(w) + 1 = Len(u)
  BY <1>1, <1>2
<1> HIDE DEF w
<1> QED
  BY <1>2, <1>3, <1>4, <1>5 DEF ButLast

\* Sequences strung together are a sequence.
LEMMA FlattenTyped ==
  ASSUME NEW T, NEW u \in Seq(Seq(T))
  PROVE  FlattenSeq(u) \in Seq(T)
<1> DEFINE Bad == {N \in Nat : \E w \in Seq(Seq(T)) : Len(w) = N /\ FlattenSeq(w) \notin Seq(T)}
<1>1. SUFFICES ASSUME FlattenSeq(u) \notin Seq(T) PROVE FALSE
  OBVIOUS
<1>2. Len(u) \in Bad
  BY <1>1
<1>3. PICK N \in Bad : \A x \in Bad : N <= x
  BY <1>2, SmallestNat
<1>4. PICK w \in Seq(Seq(T)) : Len(w) = N /\ FlattenSeq(w) \notin Seq(T)
  BY <1>3
<1>5. CASE w = <<>>
  <2>1. FlattenSeq(w) = <<>>
    BY <1>5, FlattenIsFlat
  <2> QED
    BY <1>4, <2>1
<1>6. CASE w # <<>>
  <2>0. w[Len(w)] \in Seq(T) /\ \E x \in Seq(Seq(T)) : ButLast(x, w)
    BY <1>6, SplitLast
  <2>1. PICK x \in Seq(Seq(T)) : Len(x) + 1 = Len(w) /\ w = Append(x, w[Len(w)])
    BY <2>0 DEF ButLast
  <2>2. Len(x) \in Nat /\ ~(N <= Len(x))
    BY <1>4, <2>1
  <2>3. FlattenSeq(x) \in Seq(T)
    BY <1>3, <2>2
  <2>4. FlattenSeq(w) = FlattenSeq(x) \o w[Len(w)]
    BY <2>0, <2>1, FlattenAppended
  <2> QED
    BY <1>4, <2>0, <2>3, <2>4
<1> QED
  BY <1>5, <1>6

\* Strung together they are the same.
LEMMA FlatSkips ==
  ASSUME NEW T, NEW u \in Seq(Seq(T)), NEW v \in Seq(Seq(T)), NEW s, Matched(u, v, s)
  PROVE  FlattenSeq(u) = FlattenSeq(v)
<1> DEFINE Bad == {N \in Nat : Differ(T, s, N)}
<1>1. SUFFICES ASSUME FlattenSeq(u) # FlattenSeq(v) PROVE FALSE
  OBVIOUS
<1>2. Len(u) + Len(v) \in Bad
  BY <1>1 DEF Differ
<1>3. PICK N \in Bad : \A x \in Bad : N <= x
  BY <1>2, SmallestNat
<1>4. PICK a, b \in Seq(Seq(T)) : Matched(a, b, s) /\ Len(a) + Len(b) = N /\ FlattenSeq(a) # FlattenSeq(b)
  BY <1>3 DEF Differ
<1>5. ASSUME NEW x \in Seq(Seq(T)), NEW y \in Seq(Seq(T)), Matched(x, y, s), Len(x) + Len(y) < N
      PROVE  FlattenSeq(x) = FlattenSeq(y)
  <2>1. Len(x) + Len(y) \in Nat /\ ~(N <= Len(x) + Len(y))
    BY <1>3, <1>5
  <2> QED
    BY <1>3, <1>5, <2>1, Zenon DEF Differ
<1> HIDE DEF Bad
<1>6. ASSUME NEW x \in Seq(Seq(T)) PROVE FlattenSeq(Append(x, <<>>)) = FlattenSeq(x)
  <2>1. <<>> \in Seq(T)
    OBVIOUS
  <2>2. FlattenSeq(Append(x, <<>>)) = FlattenSeq(x) \o <<>>
    BY <2>1, FlattenAppended, Zenon
  <2>3. FlattenSeq(x) \in Seq(T)
    BY FlattenTyped
  <2> QED
    BY <2>2, <2>3
<1>7. CASE a # <<>> /\ a[Len(a)] = <<>>
  <2>0. \E w \in Seq(Seq(T)) : ButLast(w, a)
    BY <1>7, SplitLast
  <2>1. PICK w \in Seq(Seq(T)) : /\ Len(w) + 1 = Len(a) /\ a = Append(w, a[Len(a)])
                                 /\ DOMAIN w = DOMAIN a \ {Len(a)} /\ \A n \in DOMAIN w : w[n] = a[n]
    BY <2>0 DEF ButLast
  <2>2. \A n \in DOMAIN a : a[n] # <<>> => n \in DOMAIN w
    BY <1>7, <2>1
  <2>3. Matched(w, b, s)
    <3>1. \A n \in DOMAIN w : w[n] # <<>> => s[n] \in DOMAIN b /\ b[s[n]] = w[n]
      BY <1>4, <2>1 DEF Matched
    <3>2. \A k \in DOMAIN b : b[k] # <<>> => \E n \in DOMAIN w : s[n] = k /\ w[n] = b[k]
      <4> SUFFICES ASSUME NEW k \in DOMAIN b, b[k] # <<>>
                   PROVE  \E n \in DOMAIN w : s[n] = k /\ w[n] = b[k]
        OBVIOUS
      <4>1. PICK n \in DOMAIN a : s[n] = k /\ a[n] = b[k]
        BY <1>4 DEF Matched
      <4> QED
        BY <2>1, <2>2, <4>1
    <3>3. \A m, n \in DOMAIN w : w[m] # <<>> /\ w[n] # <<>> /\ m < n => s[m] < s[n]
      BY <1>4, <2>1 DEF Matched
    <3> QED
      BY <3>1, <3>2, <3>3 DEF Matched
  <2>4. FlattenSeq(w) = FlattenSeq(b)
    BY <1>4, <1>5, <2>1, <2>3
  <2> QED
    BY <1>4, <1>6, <1>7, <2>1, <2>4
<1>8. CASE b # <<>> /\ b[Len(b)] = <<>>
  <2>0. \E w \in Seq(Seq(T)) : ButLast(w, b)
    BY <1>8, SplitLast
  <2>1. PICK w \in Seq(Seq(T)) : /\ Len(w) + 1 = Len(b) /\ b = Append(w, b[Len(b)])
                                 /\ DOMAIN w = DOMAIN b \ {Len(b)} /\ \A n \in DOMAIN w : w[n] = b[n]
    BY <2>0 DEF ButLast
  <2>2. \A n \in DOMAIN b : b[n] # <<>> => n \in DOMAIN w
    BY <1>8, <2>1
  <2>3. Matched(a, w, s)
    BY <1>4, <2>1, <2>2 DEF Matched
  <2>4. FlattenSeq(a) = FlattenSeq(w)
    BY <1>4, <1>5, <2>1, <2>3
  <2> QED
    BY <1>4, <1>6, <1>8, <2>1, <2>4
<1>9. CASE a = <<>> /\ b = <<>>
  BY <1>4, <1>9
<1>10. CASE a # <<>> /\ a[Len(a)] # <<>> /\ (b = <<>> \/ b[Len(b)] # <<>>)
  <2>0. a[Len(a)] \in Seq(T) /\ \E w \in Seq(Seq(T)) : ButLast(w, a)
    BY <1>10, SplitLast
  <2>1. PICK w \in Seq(Seq(T)) : /\ Len(w) + 1 = Len(a) /\ a = Append(w, a[Len(a)])
                                 /\ Len(a) \in DOMAIN a
                                 /\ DOMAIN w = DOMAIN a \ {Len(a)} /\ \A n \in DOMAIN w : w[n] = a[n]
    BY <2>0 DEF ButLast
  <2>2. s[Len(a)] \in DOMAIN b /\ b[s[Len(a)]] = a[Len(a)]
    BY <1>4, <1>10, <2>1 DEF Matched
  <2>3. b # <<>> /\ b[Len(b)] # <<>>
    BY <1>10, <2>2
  <2>3b. b[Len(b)] \in Seq(T) /\ \E y \in Seq(Seq(T)) : ButLast(y, b)
    BY <2>3, SplitLast
  <2>4. PICK y \in Seq(Seq(T)) : /\ Len(y) + 1 = Len(b) /\ b = Append(y, b[Len(b)])
                                 /\ Len(b) \in DOMAIN b
                                 /\ DOMAIN y = DOMAIN b \ {Len(b)} /\ \A n \in DOMAIN y : y[n] = b[n]
    BY <2>3b DEF ButLast
  <2>5. s[Len(a)] = Len(b)
    <3>1. PICK n \in DOMAIN a : s[n] = Len(b) /\ a[n] = b[Len(b)]
      BY <1>4, <2>3, <2>4 DEF Matched
    <3>2. n = Len(a) \/ n < Len(a)
      OBVIOUS
    <3>3. n < Len(a) => s[n] < s[Len(a)]
      BY <1>4, <1>10, <2>1, <2>3, <3>1 DEF Matched
    <3>4. s[Len(a)] <= Len(b)
      BY <2>2
    <3>5. s[Len(a)] \in Nat /\ Len(b) \in Nat
      BY <2>2
    <3> QED
      BY <3>1, <3>2, <3>3, <3>4, <3>5
  <2>6. a[Len(a)] = b[Len(b)]
    BY <2>2, <2>5
  <2>7. Matched(w, y, s)
    <3>1. ASSUME NEW n \in DOMAIN w, w[n] # <<>> PROVE s[n] \in DOMAIN y /\ y[s[n]] = w[n]
      <4>1. n \in DOMAIN a /\ n < Len(a) /\ a[n] = w[n]
        BY <2>1
      <4>2. s[n] \in DOMAIN b /\ b[s[n]] = a[n] /\ s[n] < s[Len(a)]
        BY <1>4, <1>10, <2>1, <3>1, <4>1 DEF Matched
      <4> QED
        BY <2>4, <2>5, <4>1, <4>2
    <3>2. ASSUME NEW k \in DOMAIN y, y[k] # <<>> PROVE \E n \in DOMAIN w : s[n] = k /\ w[n] = y[k]
      <4>1. k \in DOMAIN b /\ k # Len(b) /\ b[k] = y[k]
        BY <2>4
      <4>2. PICK n \in DOMAIN a : s[n] = k /\ a[n] = b[k]
        BY <1>4, <3>2, <4>1 DEF Matched
      <4> QED
        BY <2>1, <2>5, <4>1, <4>2
    <3>3. \A m, n \in DOMAIN w : w[m] # <<>> /\ w[n] # <<>> /\ m < n => s[m] < s[n]
      BY <1>4, <2>1 DEF Matched
    <3> QED
      BY <3>1, <3>2, <3>3 DEF Matched
  <2>8. FlattenSeq(w) = FlattenSeq(y)
    BY <1>4, <1>5, <2>1, <2>4, <2>7
  <2>9. FlattenSeq(a) = FlattenSeq(w) \o a[Len(a)] /\ FlattenSeq(b) = FlattenSeq(y) \o b[Len(b)]
    BY <2>0, <2>1, <2>3b, <2>4, FlattenAppended
  <2> QED
    BY <1>4, <2>6, <2>8, <2>9
<1>11. CASE a = <<>> /\ b # <<>> /\ b[Len(b)] # <<>>
  BY <1>4, <1>11 DEF Matched
<1> QED
  BY <1>7, <1>8, <1>9, <1>10, <1>11

-----------------------------------------------------------------------------
(* All of it, for a program that has the encoder as a part.                *)

EncoderInv == IInv /\ ReadInv /\ Filled /\ Closed /\ Collected

LEMMA InitEncoder == Init => EncoderInv
BY InitIInv, InitRead, InitClosed, InitCollected DEF EncoderInv

LEMMA EncoderStep ==
  ASSUME EncoderInv, [Calls]_vars
  PROVE  EncoderInv'
<1>1. IInv /\ TypeOK /\ ReadInv /\ Filled /\ Closed /\ Collected
  BY DEF EncoderInv, IInv
<1>2. IInv'
  BY <1>1, NextStep
<1>3. ReadInv' /\ Filled'
  BY <1>1, ReadStep
<1>4. Closed' /\ Collected'
  BY <1>1, ClosedStep, CollectedStep
<1> QED
  BY <1>2, <1>3, <1>4 DEF EncoderInv

LEMMA EncoderPromises ==
  EncoderInv => FieldsReachTheWire /\ DefaultsOnWire /\ HeaderChecksumCloses /\ PayloadOnWire
BY FieldsRead, DefaultsRead, ClosedRead, CollectedRead DEF EncoderInv, IInv
=============================================================================
