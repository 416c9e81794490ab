---------------------------- MODULE CmdSendSystem ---------------------------
(***************************************************************************)
(* The program cmd_send as it is linked with CFE_EDS_ENABLED: main         *)
(* (CmdSend) with the EDS encoder (EdsEncode) and the pass-through encoder *)
(* (PassThruEncode) behind its callbacks, in this order, and SendUdp       *)
(* behind the packet.  A step of main that calls a callback is that step   *)
(* of CmdSend together with the step of the encoder called, the answer of  *)
(* the one being what the other goes by.                                   *)
(***************************************************************************)
EXTENDS Integers, Sequences, FiniteSets, TLC

CONSTANTS
    Typed,            \* the command lines: sequences of words, see Word
    MAX_PACKET_SIZE, UINT_MOD, DB,
    MAX_ADDRESSES

VARIABLES
    typed,    \* the command line
    \* CmdSend
    pc, optind, ArgV, ShowHelp, HostName, Obj, IsOK, GoodParsers, i, j, ContentSize,
    bufOwner, calls, packed, output,
    \* EdsEncode, with its parsed arguments, its status and its packet
    cmd, edsArgs, edsStatus, edsPacket, listing,
    \* PassThruEncode
    hdr, layout, overridden, bigEndian, payloadError, payload, ptArgs, ptStatus, ptPacket,
    \* SendUdp
    upc, result, naddrs, rp, sd, open, attempts, sent, rc

mainVars == <<pc, optind, ArgV, ShowHelp, HostName, Obj, IsOK, GoodParsers, i, j, ContentSize,
              bufOwner, calls, packed, output>>
edsVars == <<cmd, edsArgs, edsStatus, edsPacket, listing>>
ptVars == <<hdr, layout, overridden, bigEndian, payloadError, payload, ptArgs, ptStatus, ptPacket>>
udpVars == <<upc, result, naddrs, rp, sd, open, attempts, sent, rc>>
vars == <<typed, mainVars, edsVars, ptVars, udpVars>>

\* CMDSEND_PARSER_API.
EdsParser == 1
PassThruParser == 2

\* A word, with what each encoder's conversions say of its text: the arguments of
\* the encoders less their id, which main decides.
Word(token, eds, pt) == [token |-> token, eds |-> eds, pt |-> pt]

Tokens(words) == [k \in DOMAIN words |-> words[k].token]

Main == INSTANCE CmdSend
          WITH NUM_PARSERS <- 2, WithHelp <- {EdsParser},
               CommandLines <- {Tokens(words) : words \in Typed}, line <- Tokens(typed)

ASSUME TypedAssumption == \A words \in Typed : Tokens(words) \in Seq(Main!LineTokens)
ASSUME KernelAssumption == MAX_ADDRESSES \in Nat \ {0}

\* The options an encoder has a case for, under the names main gives them.
EdsIds == {"pktapid", "pktid", "pktedsver", "pktfc", "pktpb", "pktseqflg", "pktseqcnt", "pktendian",
           "pktsubsys", "pktsys", "pktver", "endian", "protocol", "NONE"}

\* An argument: its id with what the encoder's conversions say of its text.
Under(id, conversions) ==
    [f \in DOMAIN conversions \cup {"id"} |-> IF f = "id" THEN id ELSE conversions[f]]
EdsArg(id, conversions) == IF id \in EdsIds THEN Under(id, conversions) ELSE [id |-> "other"]

EdsArgOf(arg) == EdsArg(arg.name, typed[arg.text].eds)
PassThruArgOf(arg) == Under(arg.name, typed[arg.text].pt)

\* The arguments are whatever main hands on: no bound of their own is needed.
EDS == INSTANCE EdsEncode
         WITH MAX_ARGS <- 0, ArgV <- {}, argv <- edsArgs, status <- edsStatus, packet <- edsPacket
PassThru == INSTANCE PassThruEncode
              WITH MAX_ARGS <- 0, ArgV <- {}, argv <- ptArgs, status <- ptStatus, packet <- ptPacket

\* The id main hands a word on under.  What its text converts to is what an argument with
\* this id may have.
HandedId(token) == IF token = "argument" THEN "NONE" ELSE Main!NameOf(Main!Letter(token))
ASSUME WordAssumption ==
    \A words \in Typed : \A k \in DOMAIN words :
      LET id == HandedId(words[k].token)
      IN id \notin Main!OwnOptions =>
           /\ EdsArg(id, words[k].eds) \in EDS!Arg
           /\ id \in PassThru!NumberIds =>
                LET n == PassThru!NumberOf[id]
                IN words[k].pt \in [ok : BOOLEAN,
                                    val : [1..(IF n.kind = "real" THEN n.size ELSE 8) -> PassThru!Byte]]
           /\ id \notin PassThru!NumberIds => Under(id, words[k].pt) \in PassThru!Arg
ASSUME EncoderAssumption ==
    /\ EDS!DatabaseAssumption /\ EDS!IdAssumption /\ EDS!MessageIdAssumption
    /\ PassThru!SizeAssumption /\ PassThru!UintAssumption

\* Of a packet's bytes send takes none, some or all.
Udp == INSTANCE SendUdp WITH PACKET_SIZE <- 2, pc <- upc

Init ==
    /\ typed \in Typed
    /\ Main!Init /\ EDS!Init /\ PassThru!Init /\ Udp!Init

-----------------------------------------------------------------------------
\* Steps of main alone.
MainStep ==
    /\ \/ Main!CountOptions \/ Main!CategorizeOption \/ Main!CollectNonOption \/ Main!AllCollected
       \/ Main!SkipNoText \/ Main!ParsingDone
       \/ Main!DoShowError \/ Main!DestroyParser \/ Main!Exit
    /\ UNCHANGED <<edsVars, ptVars, udpVars>>

\* Both give an object, unless EDS_Instantiate crashes: the program goes no further.
Instantiate ==
    /\ edsStatus # "crashed"
    /\ Main!InstantiateParser
    /\ Obj' = Obj \cup {j}
    /\ UNCHANGED <<edsVars, ptVars, udpVars>>

DoParseOption ==
    /\ Main!DoParseOption
    /\ \/ /\ j = EdsParser /\ j \in IsOK
          /\ EDS!ParseOption(EdsArgOf(ArgV[i]))
          /\ j \in IsOK' <=> edsStatus' = "parsing"
          /\ UNCHANGED ptVars
       \/ /\ j = PassThruParser /\ j \in IsOK
          /\ PassThru!ParseOption(PassThruArgOf(ArgV[i]))
          /\ j \in IsOK' <=> ptStatus' = "parsing"
          /\ UNCHANGED edsVars
       \/ /\ j \notin IsOK
          /\ UNCHANGED <<edsVars, ptVars>>
    /\ UNCHANGED udpVars

DoShowHelp ==
    /\ Main!DoShowHelp
    /\ IF j = EdsParser THEN EDS!HelpUsage ELSE UNCHANGED edsVars
    /\ UNCHANGED <<ptVars, udpVars>>

\* An encoder that is asked writes the buffer if it succeeds.
DoEncode ==
    /\ Main!DoEncode
    /\ \/ /\ j = EdsParser /\ j \in IsOK
          /\ EDS!GetPackedObject
          /\ j \in packed' <=> edsStatus' = "packed"
          /\ UNCHANGED ptVars
       \/ /\ j = PassThruParser /\ j \in IsOK /\ ContentSize = 0
          /\ PassThru!GetPackedObject
          /\ j \in packed' <=> ptStatus' = "packed"
          /\ UNCHANGED edsVars
       \/ /\ j \notin IsOK \/ ContentSize # 0
          /\ UNCHANGED <<edsVars, ptVars>>
    /\ UNCHANGED udpVars

\* SendUdp runs between main's decision to send and main's next step.  Host and port
\* are never missing.
SendUdpStep ==
    /\ pc = "report" /\ ContentSize > 0
    /\ Udp!Next
    /\ rc' \notin {-1, -2}
    /\ UNCHANGED <<mainVars, edsVars, ptVars>>

Send ==
    /\ upc = "returned"
    /\ Main!Send
    /\ UNCHANGED <<edsVars, ptVars, udpVars>>

\* The end, or the crash in EDS_Instantiate.  Anywhere else the program has a step
\* to take: TLC looks for deadlocks.
Over ==
    /\ pc \in {"done", "failed"} \/ (pc = "instantiate" /\ edsStatus = "crashed")
    /\ UNCHANGED <<mainVars, edsVars, ptVars, udpVars>>

Next ==
    /\ UNCHANGED typed
    /\ \/ MainStep \/ Instantiate \/ DoParseOption \/ DoShowHelp \/ DoEncode
       \/ SendUdpStep \/ Send \/ Over

Spec == Init /\ [][Next]_vars
=============================================================================
