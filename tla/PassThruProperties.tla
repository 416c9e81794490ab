------------------------- MODULE PassThruProperties -------------------------
(***************************************************************************)
(* What the pass-through encoder promises, stated over the command line    *)
(* (argv) and the bytes it packed (packet) alone, so that the reference    *)
(* value is computed from the arguments and not from the encoder's state.  *)
(***************************************************************************)
EXTENDS PassThruEncode

-----------------------------------------------------------------------------
(* Reading the command line.                                               *)

Given(id) == \E i \in DOMAIN argv : argv[i].id = id

\* The arguments that write bit b of a header word.
Writers(word, b) ==
    {i \in DOMAIN argv : /\ argv[i].id \in FieldIds
                         /\ FieldOf[argv[i].id].word = word
                         /\ b \in Mask(FieldOf[argv[i].id])}

\* The value the last writer of a bit asked for; 0 if nobody wrote it.
Asked(word, b) ==
    /\ Writers(word, b) # {}
    /\ LET a == argv[Max(Writers(word, b))] IN b - FieldOf[a.id].lo \in a.val

\* The bits the encoder is free to fill in.
Defaulted(word) ==
    (IF word = "Pri0" /\ ~Given("pkttype") THEN {12} ELSE {})
      \cup (IF word = "Pri0" /\ ~Given("pktsec") THEN {11} ELSE {})
      \cup (IF word = "Pri1" /\ ~Given("pktseqflg") THEN {14, 15} ELSE {})
      \cup (IF word = "Pri2" /\ ~Given("pktlen") THEN 0..15 ELSE {})
      \cup (IF word = "Ext0" /\ ~Given("pktendian") THEN {10} ELSE {})
      \cup (IF word = "Sec" /\ ~Given("pktcksum") THEN 0..7 ELSE {})

\* The arguments of option id, the last of them, and the endianness in force
\* when argument i was parsed.
LastOf(id, n) == {i \in 1..n : argv[i].id = id}
BigAt(i) ==
    LastOf("endian", i) # {} => argv[Max(LastOf("endian", i))].name = "BE"

ChosenLayout ==
    LET P == LastOf("protocol", Len(argv))
    IN IF P = {} THEN DefaultLayout ELSE LayoutOf[argv[Max(P)].name]

\* The bytes an accepted argument stands for.
Image(i) ==
    LET a == argv[i] IN
    CASE a.id \in NumberIds ->
           LET low == Low(a.val, NumberOf[a.id].size)
           IN IF BigAt(i) \/ a.id \in ForcedBigEndian THEN low ELSE Reverse(low)
      [] a.id = "string" -> [k \in 1..a.width |-> IF k <= Len(a.text) THEN a.text[k] ELSE {}]
      [] OTHER -> <<>>

\* What the receiver of a number reads: its bytes, widened to 64 bits by their sign if they
\* have one.
Widened(a) ==
    LET n == NumberOf[a.id]
        low == Low(a.val, n.size)
        fill == IF n.kind = "signed" /\ 7 \in low[1] THEN 0..7 ELSE {}
    IN [k \in 1..(Len(a.val) - n.size) |-> fill] \o low
NumbersIntact == \A i \in DOMAIN argv : argv[i].id \in NumberIds => Widened(argv[i]) = argv[i].val

\* Every fixed string length, and the buffer on top of it, is within an unsigned int.
StringLengthsClear ==
    \A i \in DOMAIN argv : argv[i].id = "string" => argv[i].width + MAX_PACKET_SIZE < UINT_MOD

-----------------------------------------------------------------------------
(* Reading the packet.                                                     *)

\* Where a word starts in a packet with the chosen headers (bytes before it).
OffsetOf(word) ==
    CASE word = "Pri0" -> 0 [] word = "Pri1" -> 2 [] word = "Pri2" -> 4
      [] word = "Ext0" -> 6 [] word = "Ext1" -> 8
      [] OTHER -> HeaderSize(ChosenLayout \ {"Sec"})

\* The header words are big endian on the wire.
OnWire(word) ==
    {b \in 0..15 : IF b >= 8 THEN b - 8 \in packet[OffsetOf(word) + 1]
                             ELSE b \in packet[OffsetOf(word) + 2]}

SentWords == {w \in WordIds : HeaderOf(w) \in ChosenLayout}

Value(bits) == MapThenSumSet(LAMBDA b : 2^b, bits)

XorAll(bytes) == FoldLeft(SymDiff, {}, bytes)

-----------------------------------------------------------------------------
(* Safety.                                                                 *)

\* Every header bit a packet carries has the value the last argument that
\* names it asked for, and is zero if no argument did, whatever the order of
\* fields, overlapping fields (pktid over its parts) and protocol changes; only
\* bits the encoder may default are excepted.  (ProcessField, SetProtocol,
\* GetPackedObject.)
FieldsReachTheWire ==
    status = "packed" =>
      \A w \in SentWords : \A b \in (0..15) \ Defaulted(w) : b \in OnWire(w) <=> Asked(w, b)

\* A default is on the wire exactly when the option that overrides it was not
\* given: command type, sequence flags "unsegmented", secondary header flag by
\* protocol, the endian flag of the endianness in force at the end, and the
\* packet's own length less 7.  (GetPackedObject's five Override tests; a packet
\* of 6 bytes has no such length, see LengthIsSizeLess7.)
DefaultsOnWire ==
    status = "packed" =>
      /\ ~Given("pkttype") /\ "Pri0" \in SentWords => 12 \in OnWire("Pri0")
      /\ ~Given("pktsec") /\ "Pri0" \in SentWords =>
           (11 \in OnWire("Pri0") <=> "Sec" \in ChosenLayout \/ Asked("Pri0", 11))
      /\ ~Given("pktseqflg") /\ "Pri1" \in SentWords => {14, 15} \subseteq OnWire("Pri1")
      /\ ~Given("pktendian") /\ "Ext0" \in SentWords =>
           (10 \in OnWire("Ext0") <=> ~BigAt(Len(argv)))
      /\ ~Given("pktlen") /\ "Pri2" \in SentWords /\ Len(packet) > 6 =>
           Value(OnWire("Pri2")) = Len(packet) - 7

\* The headers of a packet with a command secondary header close to 0xFF under
\* exclusive or, unless the checksum was given: the checksum is taken after the
\* last default went in, over everything before it.  (GetPackedObject's order.)
HeaderChecksumCloses ==
    status = "packed" /\ "Sec" \in ChosenLayout /\ ~Given("pktcksum") =>
      XorAll(SubSeq(packet, 1, HeaderSize(ChosenLayout))) = 0..7

\* The payload of a packet is what the payload arguments stand for, in the order
\* given, each in the endianness in force when it was read, each at its full
\* size: nothing of an argument that was refused, or was half copied, is sent.  (Fixed string
\* lengths of 2^32 and more, which PadData cuts, are left out.)  And whoever reads a number
\* there has the number that was typed: none lost a byte or its sign on the way to its
\* width.  (The comparisons "tempint8 != templl" and their likes.)
PayloadOnWire ==
    status = "packed" =>
      /\ StringLengthsClear =>
           SubSeq(packet, HeaderSize(ChosenLayout) + 1, Len(packet))
             = FlattenSeq([i \in DOMAIN argv |-> Image(i)])
      /\ NumbersIntact

\* Neither the payload buffer nor the network buffer ever holds more than
\* MAX_PACKET_SIZE bytes, and a packet is exactly its headers and its payload.
\* (The checks of CopyData, PadData and GetPackedObject.)
PackedFits ==
    /\ Len(payload) <= MAX_PACKET_SIZE
    /\ Len(packet) <= MAX_PACKET_SIZE
    /\ status = "packed" => Len(packet) = HeaderSize(layout) + Len(payload)

\* While the lengths asked for stay clear of the width of an unsigned int the
\* space checks cannot be fooled: no copy ever runs past the buffer.
NoOverrun == StringLengthsClear => status # "overrun"

-----------------------------------------------------------------------------
(* What the documentation says and the code does not do.                   *)

\* "--protocol=raw" is one of the protocols (cmd_send.c:181, 233): giving it
\* does not make the encoder reject the command line.
RawProtocolAccepted ==
    argv # <<>> /\ argv[Len(argv)] = [id |-> "protocol", name |-> "raw"] => status # "rejected"

\* "Packet Data Length: (total packet length) - 7" (passthru_encode.c:79) of a
\* packet whose length was not given.
LengthIsSizeLess7 ==
    status = "packed" /\ ~Given("pktlen") /\ "Pri" \in layout => Value(OnWire("Pri2")) = Len(packet) - 7

\* "Packet checksum (default will calculate value)" (cmd_send.c:208), "this
\* matches cFS checksum calc in framework" (passthru_encode.c:299): the bytes of
\* the packet, payload included, close to 0xFF.
PacketChecksumCloses ==
    status = "packed" /\ "Sec" \in layout /\ ~Given("pktcksum") => XorAll(packet) = 0..7

\* "EDS version (range=0-0x1F)" (cmd_send.c:201) and the other field ranges: a
\* value outside the field is rejected.
FieldsInRange ==
    status = "packed" =>
      \A i \in DOMAIN argv : argv[i].id \in FieldIds =>
        LET f == FieldOf[argv[i].id] IN argv[i].val \subseteq 0..(f.hi - f.lo)
=============================================================================
