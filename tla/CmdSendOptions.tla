--------------------------- MODULE CmdSendOptions ---------------------------
(***************************************************************************)
(* The option table of cmd_send and the names its letters go back to       *)
(* (cmd_send.c): constants only.                                           *)
(***************************************************************************)
EXTENDS Integers, Sequences, SequencesExt

Option(name, val) == [name |-> name, val |-> val]

\* CMDSEND_OPTION_LONGINFO, in the order of the option ids.  Some long names
\* share a letter.
LONGINFO == <<
    Option("help", "?"), Option("verbose", "v"), Option("pktapid", "A"), Option("pktpb", "B"),
    Option("cmdcode", "C"), Option("pktfc", "C"), Option("pktedsver", "D"), Option("endian", "E"),
    Option("pktseqflg", "F"), Option("pktname", "G"), Option("pktseqcnt", "G"), Option("host", "H"),
    Option("pktid", "I"), Option("pktendian", "J"), Option("pktlen", "L"), Option("port", "P"),
    Option("protocol", "Q"), Option("pktcksum", "R"), Option("pktsec", "S"), Option("pkttype", "T"),
    Option("pktsubsys", "U"), Option("pktver", "V"), Option("pktsys", "Y"), Option("byte", "b"),
    Option("int8", "b"), Option("double", "d"), Option("float", "f"), Option("half", "h"),
    Option("int16", "h"), Option("int16b", "i"), Option("int32b", "j"), Option("int64b", "k"),
    Option("long", "l"), Option("word", "l"), Option("int32", "l"), Option("uint8", "m"),
    Option("uint16", "n"), Option("uint32", "o"), Option("uint64", "p"), Option("int64", "q"),
    Option("string", "s"), Option("uint16b", "w"), Option("uint32b", "x"), Option("uint64b", "y") >>

OptionNames == {LONGINFO[k].name : k \in DOMAIN LONGINFO}

\* A word of the command line: an option (with its text, if it takes one), one
\* that getopt_long does not know or that lacks its text, or another argument.
LineTokens == OptionNames \cup {"unknown", "argument"}

\* What getopt_long returns for an option.
Letter(token) ==
    IF token = "unknown" THEN "?"
    ELSE (CHOOSE o \in Range(LONGINFO) : o.name = token).val

\* reverse_opt_lookup is filled in a loop over the ids, so the last name with a
\* letter stays.
FirstNameOf(letter) == LONGINFO[Min({k \in DOMAIN LONGINFO : LONGINFO[k].val = letter})].name
NameOf(letter) == LONGINFO[Max({k \in DOMAIN LONGINFO : LONGINFO[k].val = letter})].name

=============================================================================
