--------------------------- MODULE PassThruEncode ---------------------------
(***************************************************************************)
(* The pass-through encoder of cmd_send (passthru_encode.c): it is handed  *)
(* the command line one argument at a time, keeps the header words, the    *)
(* overrides and the payload collected so far, and finally packs them into *)
(* one CCSDS packet.                                                       *)
(*                                                                         *)
(* Words and bytes are sets of bit positions, bit 0 the least significant: *)
(* C's "|" is \cup, "^" is the symmetric difference, "& ~mask" is \ and    *)
(* "<<" adds to every position.  What strtoul, strtoll and strtod answer   *)
(* for a text is part of the argument (see Arg): the model is about what   *)
(* the encoder does with the answer.                                       *)
(***************************************************************************)
EXTENDS Integers, Sequences, FiniteSets, SequencesExt, PassThruOptions

CONSTANTS
    MAX_PACKET_SIZE,  \* CMDSEND_MAX_PACKET_SIZE: capacity of Payload and of the network buffer
    UINT_MOD,         \* 2^32, the modulus of "unsigned int"
    MAX_ARGS,         \* bound on the length of the command line
    ArgV              \* the arguments a command line is made of

-----------------------------------------------------------------------------
\* An argument: the option it came with and what the conversions say of its text.
\*   ok     the text converts: not empty, no range error, no trailing characters
\*          for a field; some leading digits for a number; a number and a colon
\*          for a string
\*   val    a field: the bits of the unsigned long;  a number: the bytes of the
\*          64-bit integer or of the IEEE image, most significant first
Arg ==
    [id : FieldIds, ok : BOOLEAN, val : SUBSET (0..63)]
      \cup [id : NumberIds, ok : BOOLEAN, val : Seq(Byte)]
      \cup [id : {"string"}, ok : BOOLEAN, width : Nat, text : Seq(Byte \ {{}})]
      \cup [id : {"endian"}, name : {"BE", "LE", "NATIVE"}]
      \cup [id : {"protocol"}, name : DOMAIN LayoutOf \cup {"raw", "other"}]
      \cup [id : {"NONE", "pktname"}]

\* The buffers hold every header and no more than the largest CCSDS packet.
ASSUME SizeAssumption == MAX_PACKET_SIZE \in Nat /\ 12 <= MAX_PACKET_SIZE /\ MAX_PACKET_SIZE <= 65542
ASSUME UintAssumption == UINT_MOD \in Nat /\ MAX_PACKET_SIZE + 8 < UINT_MOD
ASSUME BoundAssumption == MAX_ARGS \in Nat
ASSUME ArgAssumption ==
    /\ ArgV \subseteq Arg
    /\ \A a \in ArgV : a.id \in NumberIds =>
         Len(a.val) = IF NumberOf[a.id].kind = "real" THEN NumberOf[a.id].size ELSE 8

-----------------------------------------------------------------------------
VARIABLES
    hdr,          \* the header words CCSDS_Pri[0..2], CCSDS_Ext[0..1], CFS_CmdSecHdr
    layout,       \* the headers whose Include flag is set
    overridden,   \* the fields whose Override flag is set
    bigEndian,    \* BigEndian
    payloadError, \* PayloadError
    payload,      \* the first payload_bytes bytes of Payload
    argv,         \* the arguments ParseOption was called with, in order
    status,       \* what the encoder told its caller last, see Status
    packet        \* the bytes GetPackedObject wrote

vars == <<hdr, layout, overridden, bigEndian, payloadError, payload, argv, status, packet>>

\* parsing: no INVALID so far; rejected: ParseOption returned INVALID, the caller
\* calls no more; packed / refused: GetPackedObject returned true / false;
\* overrun: a copy ran past the end of Payload, where C gives no meaning
Status == {"parsing", "rejected", "packed", "refused", "overrun"}

TypeOK ==
    /\ hdr \in [WordIds -> Word]
    /\ layout \subseteq Headers
    /\ overridden \subseteq Overridable
    /\ bigEndian \in BOOLEAN
    /\ payloadError \in BOOLEAN
    /\ payload \in Seq(Byte)
    /\ argv \in Seq(ArgV)
    /\ status \in Status
    /\ packet \in Seq(Byte)

Instantiate ==
    /\ hdr = [w \in WordIds |-> {}]
    /\ layout = DefaultLayout
    /\ overridden = {}
    /\ bigEndian = TRUE
    /\ payloadError = FALSE
    /\ payload = <<>>
    /\ argv = <<>>
    /\ status = "parsing"
    /\ packet = <<>>

Returns(verdict) ==
    status' = CASE verdict = "INVALID" -> "rejected"
                [] verdict = "OVERRUN" -> "overrun"
                [] OTHER -> status

-----------------------------------------------------------------------------
(* ParseOption, one action per group of options.                           *)

\* "templong <<= shift" on 64 bits.
ShiftLeft(bits, n) == {b \in 0..63 : b - n \in bits}

\* "(*orig & ~mask) | (templong & mask)".
InsertWithoutClearing(w, f, bits) == w \cup bits
Insert(w, f, bits) == (w \ Mask(f)) \cup bits

ParseField(a) ==
    /\ a.id \in FieldIds
    /\ LET f == FieldOf[a.id]
           shifted == ShiftLeft(a.val, f.lo)
       IN \/ /\ HeaderOf(f.word) \in layout /\ a.ok /\ shifted \subseteq Mask(f)
             /\ hdr' = [hdr EXCEPT ![f.word] = Insert(@, f, shifted)]
             /\ Returns("ACCEPTED")
          \/ /\ ~(HeaderOf(f.word) \in layout /\ a.ok /\ shifted \subseteq Mask(f))
             /\ hdr' = hdr
             /\ Returns("INVALID")
    /\ overridden' = overridden \cup ({a.id} \cap Overridable)
    /\ UNCHANGED <<layout, bigEndian, payloadError, payload, packet>>

ParseEndian(a) ==
    /\ a.id = "endian"
    /\ bigEndian' = IF a.name = "LE" THEN FALSE ELSE IF a.name = "BE" THEN TRUE ELSE bigEndian
    /\ Returns(IF a.name \in {"LE", "BE"} THEN "ACCEPTED" ELSE "INVALID")
    /\ UNCHANGED <<hdr, layout, overridden, payloadError, payload, packet>>

\* SetProtocol clears the Include flags before it looks at the protocol.
ParseProtocol(a) ==
    /\ a.id = "protocol"
    /\ layout' = IF a.name \in DOMAIN LayoutOf THEN LayoutOf[a.name] ELSE {}
    /\ Returns(IF a.name \in DOMAIN LayoutOf THEN "ACCEPTED" ELSE "INVALID")
    /\ UNCHANGED <<hdr, overridden, bigEndian, payloadError, payload, packet>>

\* The test of CopyData and PadData, in unsigned int arithmetic.
RoomForNewBytesOnly(used, n) == n % UINT_MOD <= MAX_PACKET_SIZE
Room(used, n) == (used + n) % UINT_MOD <= MAX_PACKET_SIZE

\* CopyData: n bytes more, where n has already become an unsigned int.
CopyData(pl, bytes, n) ==
    CASE ~Room(Len(pl), n) -> [verdict |-> "INVALID", payload |-> pl]
      [] Room(Len(pl), n) /\ Len(pl) + n > MAX_PACKET_SIZE -> [verdict |-> "OVERRUN", payload |-> pl]
      [] OTHER -> [verdict |-> "ACCEPTED", payload |-> pl \o SubSeq(bytes, 1, n)]

\* PadData is CopyData of zeros.
PadDataAndTerminator(pl, n) == CopyData(pl, [i \in 1..(n + 1) |-> {}], n + 1)
PadData(pl, n) == CopyData(pl, [i \in 1..n |-> {}], n)

Collect(copy) ==
    /\ payload' = copy.payload
    /\ Returns(copy.verdict)

\* The last size bytes: C's narrowing conversion.
Low(val, size) == SubSeq(val, Len(val) - size + 1, Len(val))

\* Narrowing keeps the low bytes; the value fits when widening them again
\* gives the bytes that were dropped.
FitsUnsigned(a) == \A i \in 1..(Len(a.val) - NumberOf[a.id].size) : a.val[i] = {}
Fits(a) ==
    LET n == NumberOf[a.id]
        negative == n.kind = "signed" /\ 7 \in Low(a.val, n.size)[1]
    IN \A i \in 1..(Len(a.val) - n.size) : a.val[i] = IF negative THEN 0..7 ELSE {}

\* htobe16 and its likes against htole16 and its likes.
Ordered(bytes, big) == IF big THEN bytes ELSE Reverse(bytes)

ParseNumber(a) ==
    /\ a.id \in NumberIds
    /\ LET n == NumberOf[a.id]
           image == Ordered(Low(a.val, n.size), bigEndian \/ a.id \in ForcedBigEndian)
       IN \/ /\ a.ok /\ Fits(a)
             /\ Collect(CopyData(payload, image, n.size))
          \/ /\ ~(a.ok /\ Fits(a))
             /\ payload' = payload
             /\ Returns("INVALID")
    /\ UNCHANGED <<hdr, layout, overridden, bigEndian, payloadError, packet>>

\* --string=NNN:text copies the text, then pads it to NNN bytes; the two calls
\* can fail one after the other, and NNN - len is cut to an unsigned int.
ParseString(a) ==
    /\ a.id = "string"
    /\ LET len == Len(a.text)
           copied == CopyData(payload, a.text, len % UINT_MOD)
       IN \/ /\ ~a.ok \/ a.width = 0 \/ len > a.width
             /\ payload' = payload
             /\ Returns("INVALID")
          \/ /\ a.ok /\ a.width # 0 /\ len <= a.width
             /\ Collect(IF copied.verdict = "ACCEPTED" /\ len # a.width
                        THEN PadData(copied.payload, (a.width - len) % UINT_MOD)
                        ELSE copied)
    /\ UNCHANGED <<hdr, layout, overridden, bigEndian, payloadError, packet>>

\* An argument without an option only sets a flag, and pktname is not in the
\* switch: both return UNDEFINED.
ParseOther(a) ==
    /\ a.id \in {"NONE", "pktname"}
    /\ payloadError' = (payloadError \/ a.id = "NONE")
    /\ Returns("UNDEFINED")
    /\ UNCHANGED <<hdr, layout, overridden, bigEndian, payload, packet>>

ParseOption(a) ==
    /\ status = "parsing"
    /\ argv' = Append(argv, a)
    /\ \/ ParseField(a)
       \/ ParseEndian(a)
       \/ ParseProtocol(a)
       \/ ParseNumber(a)
       \/ ParseString(a)
       \/ ParseOther(a)

-----------------------------------------------------------------------------
(* GetPackedObject.                                                        *)

\* htobe16(nbytes - 7): the low 16 bits.
LengthWordOffByOne(nbytes) == {b \in 0..15 : (((nbytes - 6) % 65536) \div 2^b) % 2 = 1}
LengthWordNotCut(nbytes) == {b \in 0..19 : (((nbytes - 7) % 2^20) \div 2^b) % 2 = 1}
LengthWord(nbytes) == {b \in 0..15 : (((nbytes - 7) % 65536) \div 2^b) % 2 = 1}

\* The header words once the fields nobody overrode have their defaults.
WithDefaults(nbytes) ==
    LET Unless(field, bits) == IF field \in overridden THEN {} ELSE bits
    IN [hdr EXCEPT
         !["Pri0"] = @ \cup Unless("pkttype", {12})
                       \cup (IF "Sec" \in layout THEN Unless("pktsec", {11}) ELSE {}),
         !["Pri1"] = @ \cup Unless("pktseqflg", {14, 15}),
         !["Pri2"] = IF "pktlen" \in overridden THEN @ ELSE LengthWord(nbytes),
         !["Ext0"] = @ \cup (IF bigEndian THEN {} ELSE Unless("pktendian", {10}))]

HighByte(w) == {b \in 0..7 : b + 8 \in w}
LowByte(w) == {b \in 0..7 : b \in w}
WordBytes(w) == <<HighByte(w), LowByte(w)>>

HeaderBytes(h, lay) ==
    (IF "Pri" \in lay THEN WordBytes(h["Pri0"]) \o WordBytes(h["Pri1"]) \o WordBytes(h["Pri2"]) ELSE <<>>)
      \o (IF "Ext" \in lay THEN WordBytes(h["Ext0"]) \o WordBytes(h["Ext1"]) ELSE <<>>)
      \o (IF "Sec" \in lay THEN WordBytes(h["Sec"]) ELSE <<>>)

\* CalcChecksum: a bit of 0xFF ^ b1 ^ ... ^ bn is set when an even number of
\* the bytes have it.
CalcChecksumSeedZero(bytes) ==
    {b \in 0..7 : Cardinality({i \in DOMAIN bytes : b \in bytes[i]}) % 2 = 1}
CalcChecksum(bytes) ==
    {b \in 0..7 : Cardinality({i \in DOMAIN bytes : b \in bytes[i]}) % 2 = 0}

\* The checksum goes into the last header byte, computed over the headers with
\* that byte as ParseOption left it.
WithChecksum(bytes) ==
    IF "Sec" \in layout /\ "pktcksum" \notin overridden
    THEN [bytes EXCEPT ![Len(bytes)] = CalcChecksum(bytes)]
    ELSE bytes

\* nbytes, the size of the packet to be.
PackedSizeWithoutSec == Len(payload) + HeaderSize(layout \ {"Sec"})
PackedSize == Len(payload) + HeaderSize(layout)

GetPackedObject ==
    /\ status = "parsing"
    /\ \/ /\ PackedSize > MAX_PACKET_SIZE
          /\ status' = "refused"
          /\ UNCHANGED <<hdr, packet>>
       \/ /\ PackedSize <= MAX_PACKET_SIZE
          /\ hdr' = WithDefaults(PackedSize)
          /\ packet' = WithChecksum(HeaderBytes(hdr', layout)) \o payload
          /\ status' = "packed"
    /\ UNCHANGED <<layout, overridden, bigEndian, payloadError, payload, argv>>

-----------------------------------------------------------------------------
Init == Instantiate

Next ==
    \/ Len(argv) < MAX_ARGS /\ \E a \in ArgV : ParseOption(a)
    \/ GetPackedObject

Spec == Init /\ [][Next]_vars

=============================================================================
