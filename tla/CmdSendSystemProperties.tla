----------------------- MODULE CmdSendSystemProperties ----------------------
(***************************************************************************)
(* What cmd_send does for its user, from the command line as typed to the  *)
(* datagram: the properties of the encoders again, now stated over the     *)
(* words in the order and under the names they were typed, before          *)
(* getopt_long moved them and reverse_opt_lookup renamed them.             *)
(***************************************************************************)
EXTENDS CmdSendSystem

-----------------------------------------------------------------------------
(* Reading the command line as typed.                                      *)

IsTyped(tokens) == \E k \in DOMAIN typed : typed[k].token \in tokens

\* The one option that stands for another: --pktname shares the letter of --pktseqcnt.
MeantId(token) ==
    CASE token = "argument" -> "NONE" [] token = "pktname" -> "pktseqcnt" [] OTHER -> token

KnownToEds == EDS!DestinationIds \cup EDS!CommandCodeIds \cup DOMAIN EDS!OptionMember
                \cup {"endian", "protocol", "NONE"}

\* The words as arguments of an encoder: those for main alone say nothing to it.
EdsTyped ==
    [k \in DOMAIN typed |->
       LET id == MeantId(typed[k].token)
       IN IF id \in KnownToEds THEN Under(id, typed[k].eds) ELSE [id |-> "other"]]
PassThruTyped == [k \in DOMAIN typed |-> Under(MeantId(typed[k].token), typed[k].pt)]

EdsAsTyped == INSTANCE EdsProperties
                WITH MAX_ARGS <- 0, ArgV <- {}, argv <- EdsTyped, status <- edsStatus,
                     packet <- edsPacket
PassThruAsTyped == INSTANCE PassThruProperties
                     WITH MAX_ARGS <- 0, ArgV <- {}, argv <- PassThruTyped, status <- ptStatus,
                          packet <- ptPacket

\* The EDS encoder has nothing on the line to refuse, no instance of a destination
\* included, and a type it can pack.
EdsRefuses(a) ==
    \/ a.id \in {"endian", "protocol"} /\ ~a.known
    \/ a.id = "pktapid" /\ a.cmd # ""
    \/ a.id \in EDS!DestinationIds /\ a.name.inst # ""
EdsCanMakeIt ==
    /\ \A k \in DOMAIN EdsTyped : ~EdsRefuses(EdsTyped[k])
    /\ EdsAsTyped!Usable(EdsAsTyped!TypeAsked) /\ EdsAsTyped!TypeAsked \notin DB.unpackable

-----------------------------------------------------------------------------
(* Safety.                                                                 *)

\* main has a packet and is about to call SendUdp.
ReadyToSend == pc = "report" /\ ContentSize > 0 /\ upc = "check"

\* A packet of the pass-through encoder is what the line says, typed in whatever
\* order and under whichever names: header bits, defaults, checksum and payload, the
\* endianness being that of the last --endian typed before a value.  (CollectOptions,
\* DoParseOption, PassThru_ParseOption and PassThru_GetPackedObject together.)
PassThruPacketAsTyped ==
    ReadyToSend /\ bufOwner = PassThruParser =>
      /\ PassThruAsTyped!FieldsReachTheWire /\ PassThruAsTyped!DefaultsOnWire
      /\ PassThruAsTyped!HeaderChecksumCloses /\ PassThruAsTyped!PayloadOnWire

\* A packet of the EDS encoder is the command the line names, for the instance the line
\* names, with the header and the members the line sets, although values may be typed
\* before the destination they are members of.  (CollectOptions, EDS_ParseOption, EDS_GetPackedObject.)
EdsPacketAsTyped ==
    ReadyToSend /\ bufOwner = EdsParser =>
      /\ EdsAsTyped!PacketIsTheCommandAsked
      /\ EdsAsTyped!HeaderAsAsked /\ EdsAsTyped!PayloadAsAsked
      /\ EdsAsTyped!InstanceAsNamed

\* The pass-through encoder, which leaves out every "name=value" on the line, has its
\* packet sent only when the EDS encoder cannot make one.  (The order of
\* CMDSEND_PARSER_API and the end of DoEncode's search.)
EdsGoesFirst == ReadyToSend => (bufOwner = EdsParser <=> EdsCanMakeIt)

\* The kernel is given at most one datagram, none if help was asked for or a word was
\* no option, and only of a packet that some encoder made of the whole line: none that
\* refused a word.  (main's branches before SendUdp, DoEncode.)
OneDatagram ==
    /\ Len(sent) <= 1
    /\ upc # "check" =>
         /\ ~IsTyped({"help", "unknown"})
         /\ bufOwner = EdsParser => edsStatus = "packed"
         /\ bufOwner = PassThruParser => ptStatus = "packed" /\ edsStatus # "packed"

\* The help that the EDS encoder gives is about the line as typed, as long as it has
\* refused none of it.  (DoShowHelp, EDS_HelpUsage.)
HelpAsTyped == EdsParser \in IsOK => EdsAsTyped!HelpFitsTheCommandLine

=============================================================================
