------------------------------ MODULE CmdSend -------------------------------
(***************************************************************************)
(* The main program of cmd_send (cmd_send.c): it collects the command line *)
(* with two passes of getopt_long, feeds every argument to every encoder   *)
(* ("parser") that has not rejected one yet, asks the encoders in order    *)
(* for the packet, sends the first one it gets and destroys the encoders.  *)
(*                                                                         *)
(* The encoders are the callbacks of CMDSEND_PARSER_API; what they answer  *)
(* is left open here.  PassThruEncode models one of them in detail.        *)
(***************************************************************************)
EXTENDS Integers, Sequences, FiniteSets, SequencesExt, CmdSendOptions

CONSTANTS
    NUM_PARSERS,   \* CMDSEND_MAX_NUM_PARSERS: 1, or 2 with CFE_EDS_ENABLED
    WithHelp,      \* the encoders whose ShowHelp is not NULL: the EDS encoder
    CommandLines   \* the command lines to start from, see LineTokens

ASSUME ParserAssumption == NUM_PARSERS \in Nat \ {0}
ASSUME HelpAssumption == WithHelp \subseteq 1..NUM_PARSERS
ASSUME LineAssumption == CommandLines \subseteq Seq(LineTokens)

Parsers == 1..NUM_PARSERS

-----------------------------------------------------------------------------
VARIABLES
    pc,          \* where main is
    line,        \* the command line: argv[1], argv[2], ...
    optind,      \* how far getopt_long has looked through line in the second pass
    ArgV,        \* CommandData.ArgV up to OptionCount + NonOptionCount: an option's
                 \* name and its Text, which is a position in line, 0 for NULL
    ShowHelp,
    HostName,    \* the position of the --host in force, 0 for the default
    Obj,         \* the encoders whose Obj pointer is not NULL
    IsOK,        \* the encoders whose IsOK flag is set
    GoodParsers,
    i, j,        \* loop counters: the argument and the encoder at hand
    ContentSize, \* 0 or, for any other size, 1
    bufOwner,    \* the encoder that wrote NetBuf last, 0 for none
    calls,       \* the Texts each encoder's ParseOption was given, in order
    packed,      \* the encoders whose GetPackedObject returned true with content
    output       \* what the user got to see, and the packet, in order

vars == <<pc, line, optind, ArgV, ShowHelp, HostName, Obj, IsOK, GoodParsers, i, j,
          ContentSize, bufOwner, calls, packed, output>>

Init ==
    /\ pc = "count"
    /\ line \in CommandLines
    /\ optind = 1
    /\ ArgV = <<>>
    /\ ShowHelp = FALSE
    /\ HostName = 0
    /\ Obj = {} /\ IsOK = {} /\ GoodParsers = 0
    /\ i = 1 /\ j = 1
    /\ ContentSize = 0
    /\ bufOwner = 0
    /\ calls = [p \in Parsers |-> <<>>]
    /\ packed = {}
    /\ output = <<>>

-----------------------------------------------------------------------------
(* CollectOptions.                                                         *)

\* The first pass counts; with nothing on the line there is nothing to allocate,
\* otherwise the malloc may fail.
CountOptions ==
    /\ pc = "count"
    /\ \/ pc' = "categorize"
       \/ line # <<>> /\ pc' = "failed"
    /\ UNCHANGED <<line, optind, ArgV, ShowHelp, HostName, Obj, IsOK, GoodParsers, i, j,
                   ContentSize, bufOwner, calls, packed, output>>

\* Options main uses itself leave their Text NULL.
OwnOptions == {"help", "verbose", "host", "port"}

OptionsLeft == {k \in DOMAIN line : k >= optind /\ line[k] # "argument"}

\* One turn of the second pass, for the next option that getopt_long finds.
CategorizeOption ==
    /\ pc = "categorize"
    /\ \E k \in OptionsLeft :
         LET name == NameOf(Letter(line[k])) IN
         /\ \A m \in OptionsLeft : k <= m
         /\ optind' = k + 1
         /\ ArgV' = Append(ArgV, [name |-> name, text |-> IF name \in OwnOptions THEN 0 ELSE k])
         /\ ShowHelp' = (ShowHelp \/ name = "help")
         /\ HostName' = IF name = "host" THEN k ELSE HostName
    /\ UNCHANGED <<pc, line, Obj, IsOK, GoodParsers, i, j, ContentSize, bufOwner,
                   calls, packed, output>>

\* The other arguments, which getopt_long has moved behind the options in their order.
ArgumentsLeft == {k \in DOMAIN line : line[k] = "argument" /\ \A n \in DOMAIN ArgV : ArgV[n].text # k}

\* One turn of the last loop: they follow under no option.
CollectNonOption ==
    /\ pc = "categorize" /\ OptionsLeft = {}
    /\ \E k \in ArgumentsLeft :
         /\ \A m \in ArgumentsLeft : k <= m
         /\ ArgV' = Append(ArgV, [name |-> "NONE", text |-> k])
    /\ UNCHANGED <<pc, line, optind, ShowHelp, HostName, Obj, IsOK, GoodParsers, i, j,
                   ContentSize, bufOwner, calls, packed, output>>

AllCollected ==
    /\ pc = "categorize" /\ OptionsLeft = {} /\ ArgumentsLeft = {}
    /\ pc' = "instantiate"
    /\ UNCHANGED <<line, optind, ArgV, ShowHelp, HostName, Obj, IsOK, GoodParsers, i, j,
                   ContentSize, bufOwner, calls, packed, output>>

-----------------------------------------------------------------------------
(* The encoders: InstantiateParsers, ForeachParser and what it is used     *)
(* with.                                                                   *)

\* "parser->Obj != NULL"; NULL again once the object is freed.
StillGood(p) == p \in IsOK
Live(p) == p \in Obj

\* ForeachParser turns to the next encoder, or main goes on to after when it had
\* the last.
NextParser(after) ==
    IF j < NUM_PARSERS THEN j' = j + 1 /\ UNCHANGED pc
    ELSE j' = 1 /\ pc' = after

\* Instantiate gives an object or, as EDS_Instantiate may, NULL.
InstantiateParser ==
    /\ pc = "instantiate"
    /\ \/ /\ Obj' = Obj \cup {j}
          /\ IsOK' = IsOK \cup {j}
          /\ GoodParsers' = GoodParsers + 1
       \/ UNCHANGED <<Obj, IsOK, GoodParsers>>
    /\ NextParser("parse")
    /\ UNCHANGED <<line, optind, ArgV, ShowHelp, HostName, i, ContentSize, bufOwner, calls, packed, output>>

\* The condition of main's loop over the arguments; ForeachParser does not look
\* at it again between two encoders.
MoreToParseAll == GoodParsers = NUM_PARSERS /\ i <= Len(ArgV)
MoreToParse == GoodParsers > 0 /\ i <= Len(ArgV)
AnyText == TRUE
HasText == ArgV[i].text # 0

\* The loop's "++i".
SameArgument == i
NextArgument == i + 1

SkipNoText ==
    /\ pc = "parse" /\ j = 1
    /\ MoreToParse /\ ~HasText
    /\ i' = NextArgument
    /\ UNCHANGED <<pc, line, optind, ArgV, ShowHelp, HostName, Obj, IsOK, GoodParsers, j,
                   ContentSize, bufOwner, calls, packed, output>>

\* "parser->IsOK = false; --CommandData.GoodParsers;"
PutOutUncounted(p) == IsOK' = IsOK \ {p} /\ GoodParsers' = GoodParsers
PutOutCountedTwice(p) == IsOK' = IsOK \ {p} /\ GoodParsers' = GoodParsers - 2
PutOut(p) == IsOK' = IsOK \ {p} /\ GoodParsers' = GoodParsers - 1

\* Only INVALID puts an encoder out; UNDEFINED and ACCEPTED are alike here.
ParseAnswers == {"ACCEPTED", "INVALID"}

DoParseOption ==
    /\ pc = "parse"
    /\ (j = 1 => MoreToParse) /\ HasText
    /\ \/ /\ j \in IsOK
          /\ calls' = [calls EXCEPT ![j] = Append(@, ArgV[i].text)]
          /\ \E answer \in ParseAnswers :
               IF answer = "INVALID" THEN PutOut(j)
               ELSE UNCHANGED <<IsOK, GoodParsers>>
       \/ /\ j \notin IsOK
          /\ UNCHANGED <<calls, IsOK, GoodParsers>>
    /\ i' = IF j = NUM_PARSERS THEN NextArgument ELSE i
    /\ NextParser("parse")
    /\ UNCHANGED <<line, optind, ArgV, ShowHelp, HostName, Obj, ContentSize, bufOwner, packed, output>>

AfterParsingRegardless == "encode"
AfterParsing == IF ShowHelp THEN "help" ELSE "encode"

ParsingDone ==
    /\ pc = "parse" /\ j = 1
    /\ ~MoreToParse
    /\ pc' = AfterParsing
    /\ UNCHANGED <<line, optind, ArgV, ShowHelp, HostName, Obj, IsOK, GoodParsers, i, j,
                   ContentSize, bufOwner, calls, packed, output>>

Event(what, who) == [what |-> what, who |-> who]

DoShowHelp ==
    /\ pc = "help"
    /\ output' = IF Live(j) /\ j \in WithHelp THEN Append(output, Event("options", j)) ELSE output
    /\ NextParser("destroy")
    /\ UNCHANGED <<line, optind, ArgV, ShowHelp, HostName, Obj, IsOK, GoodParsers, i,
                   ContentSize, bufOwner, calls, packed>>

\* GetPackedObject may write the shared buffer and then fail, or succeed with
\* nothing in it.
MayEncodeAlways == TRUE
MayEncode == ContentSize = 0

DoEncode ==
    /\ pc = "encode"
    /\ \/ /\ MayEncode /\ j \in IsOK
          /\ \/ ContentSize' = 1 /\ bufOwner' = j /\ packed' = packed \cup {j}
             \/ ContentSize' = ContentSize /\ bufOwner' \in {bufOwner, j} /\ packed' = packed
       \/ /\ ~(MayEncode /\ j \in IsOK)
          /\ UNCHANGED <<ContentSize, bufOwner, packed>>
    /\ NextParser("report")
    /\ UNCHANGED <<line, optind, ArgV, ShowHelp, HostName, Obj, IsOK, GoodParsers, i, calls, output>>

\* "Option parsing failed:", then what every encoder has to say.
DoShowError ==
    /\ pc = "report" /\ ContentSize = 0
    /\ output' = IF Live(j) THEN Append(output, Event("error", j)) ELSE output
    /\ NextParser("destroy")
    /\ UNCHANGED <<line, optind, ArgV, ShowHelp, HostName, Obj, IsOK, GoodParsers, i,
                   ContentSize, bufOwner, calls, packed>>

\* The hexdump and SendUdp, whose result main does not look at.
Send ==
    /\ pc = "report" /\ ContentSize > 0
    /\ output' = Append(output, [what |-> "packet", who |-> bufOwner, host |-> HostName])
    /\ pc' = "destroy"
    /\ UNCHANGED <<line, optind, ArgV, ShowHelp, HostName, Obj, IsOK, GoodParsers, i, j,
                   ContentSize, bufOwner, calls, packed>>

DestroyParser ==
    /\ pc = "destroy"
    /\ Obj' = IF Live(j) THEN Obj \ {j} ELSE Obj
    /\ NextParser("exit")
    /\ UNCHANGED <<line, optind, ArgV, ShowHelp, HostName, IsOK, GoodParsers, i, ContentSize,
                   bufOwner, calls, packed, output>>

\* DisplayUsage exits too.
Exit ==
    /\ pc = "exit"
    /\ output' = IF ShowHelp THEN Append(output, Event("usage", 0)) ELSE output
    /\ pc' = "done"
    /\ UNCHANGED <<line, optind, ArgV, ShowHelp, HostName, Obj, IsOK, GoodParsers, i, j,
                   ContentSize, bufOwner, calls, packed>>

-----------------------------------------------------------------------------
Next ==
    \/ CountOptions \/ CategorizeOption \/ CollectNonOption \/ AllCollected
    \/ InstantiateParser
    \/ SkipNoText \/ DoParseOption \/ ParsingDone
    \/ DoShowHelp \/ DoEncode \/ DoShowError \/ Send
    \/ DestroyParser \/ Exit

\* main is one thread: it goes on as long as it has something to do.
Spec == Init /\ [][Next]_vars /\ WF_vars(Next)

=============================================================================
