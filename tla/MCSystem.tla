------------------------------ MODULE MCSystem ------------------------------
(***************************************************************************)
(* Command lines for model checking the whole of cmd_send.                 *)
(***************************************************************************)
EXTENDS CmdSendSystemProperties, EdsDatabase

Nothing == [x \in {} |-> x]
Same(token, conversions) == Word(token, conversions, conversions)

\* A destination by name, which is no number, or by number, which is both.
NamedWord(token, intf, command) ==
    Word(token, [name |-> [inst |-> "", intf |-> intf], cmd |-> command], [ok |-> FALSE, val |-> {}])
NumberWord(token, intf, bits) ==
    Word(token, [name |-> [inst |-> "", intf |-> intf], cmd |-> ""], [ok |-> TRUE, val |-> bits])
MemberWord(token, text, bits) ==
    Word(token, [ok |-> TRUE, val |-> text], [ok |-> TRUE, val |-> bits])
NumWord(token, bytes) == Word(token, Nothing, [ok |-> TRUE, val |-> bytes])
Integer(high, low) == <<{}, {}, {}, {}, {}, {}, high, low>>
ParamWord(member, val) ==
    Word("argument", [assigns |-> TRUE, member |-> member, ok |-> TRUE, val |-> val], Nothing)

Help == Same("help", Nothing)
Unknown == Same("unknown", Nothing)
Host == Same("host", Nothing)
EsNoop == NamedWord("pktid", "ES", "Noop")
EsTwo == Word("pktid", [name |-> [inst |-> "two", intf |-> "ES"], cmd |-> ""], [ok |-> FALSE, val |-> {}])
Es == NumberWord("pktid", "d6406", {1, 2, 8, 11, 12})
HkApid == NumberWord("pktapid", "HK", {0, 1})
Code2 == Word("pktfc", [cmd |-> "2"], [ok |-> TRUE, val |-> {1}])
Code7 == Word("cmdcode", [cmd |-> "7"], [ok |-> TRUE, val |-> {0, 1, 2}])
SeqCount == MemberWord("pktname", "5", {0, 2})
Version == MemberWord("pktver", "1", {0})
Little == Word("endian", [known |-> FALSE], [name |-> "LE"])
Big == Word("endian", [known |-> FALSE], [name |-> "BE"])
EdsEndian == Word("endian", [known |-> TRUE], [name |-> "NATIVE"])
Cfsv2 == Word("protocol", [known |-> TRUE], [name |-> "cfsv2"])
BadProtocol == Word("protocol", [known |-> FALSE], [name |-> "other"])
HalfWord == NumWord("half", Integer({0}, {7}))
LongWord == NumWord("word", Integer({1}, {2}))
UByte == NumWord("uint8", Integer({}, {3}))
Type1 == ParamWord("Type", "1")
Type2 == ParamWord("Type", "2")
Count7 == ParamWord("Count", "7")

\* Every line of up to three words, and longer ones that mix values, members
\* and what they depend on.
Words == { Help, Unknown, EsNoop, EsTwo, Es, HkApid, Code2, SeqCount, Little, EdsEndian, Cfsv2, HalfWord,
           Type1, Count7 }

Permutations4(a, b, c, d) == {<<p[1], p[2], p[3], p[4]>> : p \in
    {q \in [1..4 -> {a, b, c, d}] : \A m, n \in 1..4 : m # n => q[m] # q[n]}}

Lines ==
    UNION {[1..n -> Words] : n \in 0..3}
      \cup Permutations4(Type1, Es, Code2, Type2)
      \cup Permutations4(Little, HalfWord, Big, LongWord)
      \cup Permutations4(Type1, Es, Code7, Little)
      \cup Permutations4(Help, Type1, Es, Code2)
      \cup Permutations4(Host, Version, HkApid, Count7)
      \cup {<<BadProtocol, UByte>>, <<Es, Code7, Version>>}
=============================================================================
