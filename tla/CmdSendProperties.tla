-------------------------- MODULE CmdSendProperties -------------------------
(***************************************************************************)
(* What the main program of cmd_send promises, as far as possible in terms *)
(* of the command line it was started with and what came out of it.        *)
(***************************************************************************)
EXTENDS CmdSend, PassThruOptions

PCs == {"count", "categorize", "instantiate", "parse", "help", "encode", "report", "destroy",
        "exit", "done", "failed"}

TypeOK ==
    /\ pc \in PCs
    /\ line \in CommandLines
    /\ optind \in Nat \ {0}
    /\ ArgV \in Seq([name : OptionNames \cup {"NONE"}, text : Nat])
    /\ ShowHelp \in BOOLEAN
    /\ HostName \in Nat
    /\ Obj \subseteq Parsers
    /\ IsOK \subseteq Parsers
    /\ GoodParsers \in 0..NUM_PARSERS
    /\ i \in Nat \ {0}
    /\ j \in Parsers
    /\ ContentSize \in {0, 1}
    /\ bufOwner \in 0..NUM_PARSERS
    /\ calls \in [Parsers -> Seq(Nat)]
    /\ packed \subseteq Parsers

-----------------------------------------------------------------------------
(* Safety.                                                                 *)

\* The counter that ends the parse loop and the flags that decide who is asked
\* are kept apart and always agree.  (InstantiateParsers, DoParseOption.)
GoodParsersCounts == GoodParsers = Cardinality(IsOK)

\* The words of the line that the encoders should be given: every option that is
\* not main's own, and everything that is no option.
ForEncoders == {k \in DOMAIN line : line[k] \notin OwnOptions \cup {"unknown"}}

\* Options come first, both kinds in the order typed.
Precedes(k, m) ==
    IF line[k] = "argument" THEN line[m] = "argument" /\ k < m
    ELSE line[m] = "argument" \/ k < m

\* No encoder is ever given an argument twice, out of order, without a text, or
\* a positional argument before the last option: the EDS encoder looks its
\* interface up once, on the first positional argument, and keeps the answer.
CallsInOrder ==
    \A p \in Parsers :
      /\ \A n \in DOMAIN calls[p] : calls[p][n] \in ForEncoders
      /\ \A m, n \in DOMAIN calls[p] : m < n => Precedes(calls[p][m], calls[p][n])

\* An encoder that may still make the packet when the loop is over has been given
\* all of the command line, whenever the others dropped out.
EncodersSawEverything ==
    pc \notin {"count", "categorize", "instantiate", "parse", "failed"} =>
      \A p \in IsOK : \A k \in ForEncoders : \E n \in DOMAIN calls[p] : calls[p][n] = k

\* Once a packet is there the shared buffer holds it: no later encoder touched
\* the buffer, and its maker rejected nothing.  (DoEncode's two conditions.)
BufferHoldsThePacket ==
    ContentSize > 0 => packed = {bufOwner} /\ bufOwner \in IsOK

\* No encoder is called without an object, and none is left at the end, those
\* included that rejected the command line.  (InstantiateParsers, DestroyParsers.)
ObjectsLiveAndFreed ==
    /\ pc \in {"instantiate", "parse", "help", "encode", "report"} => IsOK \subseteq Obj
    /\ pc \in {"exit", "done"} => Obj = {}

Events(what) == {k \in DOMAIN output : output[k].what = what}

\* A run that ends has one outcome.  If help was asked for, or an option was not
\* understood, wherever on the line, usage comes last and nothing is sent.
\* Otherwise exactly one packet is sent, to the last host named, if an encoder
\* made one, and an error is all there is if none did.
OneOutcome ==
    pc = "done" =>
      LET hosts == {k \in DOMAIN line : line[k] = "host"}
      IN IF \E k \in DOMAIN line : line[k] \in {"help", "unknown"}
         THEN /\ Events("packet") = {} /\ Events("error") = {}
              /\ Events("usage") = {Len(output)}
         ELSE /\ Events("usage") = {} /\ Events("options") = {}
              /\ packed = {} => Events("packet") = {}
              /\ packed # {} =>
                   /\ Len(output) = 1 /\ Events("packet") = {1}
                   /\ output[1].who \in packed
                   /\ output[1].host = (IF hosts = {} THEN 0 ELSE Max(hosts))

\* What an option asks of the encoder, whichever of its names is used.
Meaning(name) ==
    CASE name \in FieldIds -> FieldOf[name]
      [] name = "pktname" -> FieldOf["pktseqcnt"]
      [] name \in NumberIds -> <<NumberOf[name], name \in ForcedBigEndian>>
      [] OTHER -> name

\* Every option handed on goes by a name that the pass-through encoder has a case
\* for and that means what the name typed means: names that share a letter are
\* all turned into the last of them.  (reverse_opt_lookup, ParseOption's switch.)
OptionsUnderstood ==
    \A n \in DOMAIN ArgV :
      ArgV[n].name # "NONE" /\ ArgV[n].text # 0 =>
        ArgV[n].name \in HandledIds /\ Meaning(ArgV[n].name) = Meaning(line[ArgV[n].text])

-----------------------------------------------------------------------------
(* Liveness.                                                               *)

\* The program ends, whatever the encoders answer.
Termination == <>(pc \in {"done", "failed"})
=============================================================================
