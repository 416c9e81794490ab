----------------------------- MODULE MCPassThru -----------------------------
(***************************************************************************)
(* Command lines for model checking the pass-through encoder.              *)
(***************************************************************************)
EXTENDS PassThruProperties

BitsOf(n) == {b \in 0..15 : (n \div 2^b) % 2 = 1}
FieldArg(id, n) == [id |-> id, ok |-> TRUE, val |-> BitsOf(n)]
BadField(id) == [id |-> id, ok |-> FALSE, val |-> {}]

\* A 64-bit integer with the given last bytes; every other byte is fill.
Int64(fill, low) == [i \in 1..8 |-> IF i <= 8 - Len(low) THEN BitsOf(fill)
                                    ELSE BitsOf(low[i - 8 + Len(low)])]
NumArg(id, fill, low) == [id |-> id, ok |-> TRUE, val |-> Int64(fill, low)]
RealArg(id, bytes) == [id |-> id, ok |-> TRUE, val |-> [i \in DOMAIN bytes |-> BitsOf(bytes[i])]]
StringArg(width, bytes) ==
    [id |-> "string", ok |-> TRUE, width |-> width, text |-> [i \in DOMAIN bytes |-> BitsOf(bytes[i])]]
Endian(name) == [id |-> "endian", name |-> name]
Protocol(name) == [id |-> "protocol", name |-> name]

\* One argument for every header field, overlapping and out of range ones too,
\* and a protocol for every layout.
HeaderArgs ==
    { FieldArg("pktid", 6147), FieldArg("pktid", 38912), FieldArg("pktapid", 6),
      FieldArg("pktapid", 2048), FieldArg("pktver", 5), FieldArg("pkttype", 0),
      FieldArg("pktsec", 0), FieldArg("pktseqflg", 2), FieldArg("pktseqcnt", 291),
      FieldArg("pktlen", 2748), FieldArg("pktedsver", 10), FieldArg("pktendian", 1),
      FieldArg("pktpb", 1), FieldArg("pktsubsys", 291), FieldArg("pktsys", 17185),
      FieldArg("pktfc", 11), FieldArg("cmdcode", 2), FieldArg("pktcksum", 90),
      BadField("pktlen"), [id |-> "pktname"],
      Endian("LE"), Endian("BE"), NumArg("uint8", 0, <<200>>) }
      \cup {Protocol(p) : p \in DOMAIN LayoutOf}

\* Every kind of payload argument: values that fit and values that do not, strings
\* that leave room, that fill the buffer, that do not fit and (UINT_MOD = 64)
\* whose length makes the space check wrap around.
PayloadArgs ==
    { NumArg("int8", 255, <<129>>), NumArg("byte", 0, <<200>>), NumArg("uint8", 0, <<200>>),
      NumArg("int16", 255, <<254, 12>>), NumArg("uint16", 0, <<1, 2>>),
      NumArg("uint16b", 0, <<3, 4>>), NumArg("int64b", 0, <<6, 192, 0, 0, 0, 3, 2, 221>>),
      RealArg("float", <<64, 73, 15, 219>>), [NumArg("int32", 0, <<1>>) EXCEPT !.ok = FALSE],
      StringArg(6, <<69, 83>>), StringArg(2, <<79, 75>>), StringArg(1, <<79, 75>>),
      StringArg(0, <<>>), StringArg(43, <<79>>), StringArg(63, <<>>),
      [StringArg(4, <<79>>) EXCEPT !.ok = FALSE],
      Endian("LE"), Endian("BE"), Endian("NATIVE"),
      Protocol("ccsdspri"), Protocol("cfsv2"), [id |-> "NONE"] }

\* Arguments for the corners of the documentation.
CornerArgs ==
    { Protocol("raw"), Protocol("ccsdspri"), Protocol("cfsv2"), Endian("LE"),
      FieldArg("pktfc", 3),
      [id |-> "pktedsver", ok |-> TRUE, val |-> {0, 53}],
      NumArg("uint16", 0, <<0, 2>>), StringArg(16, <<69, 83>>), StringArg(68, <<79, 75>>) }
=============================================================================
