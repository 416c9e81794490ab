----------------------------- MODULE EdsEncode ------------------------------
(***************************************************************************)
(* The EDS encoder of cmd_send (eds_encode.c): it collects a destination   *)
(* and a command name, looks both up in the EDS database when the first    *)
(* "name=value" argument comes, or else when help or the packet is asked   *)
(* for, keeps both answers, fills in the native message and packs it.      *)
(*                                                                         *)
(* The EDS libraries are external.  What they answer is the constant DB;   *)
(* which members of the message they write is modelled from how the        *)
(* encoder depends on it: the address and the header options are written   *)
(* before InitializeNativeObject and are to be in the packet, so it writes *)
(* only the members the type fixes.                                        *)
(***************************************************************************)
EXTENDS Integers, Sequences, SequencesExt

CONSTANTS
    DB,        \* the EDS database, see Database
    MAX_ARGS,  \* bound on the length of the command line
    ArgV       \* the arguments a command line is made of

NoId == "NoId"   \* EDSLIB_ID_INVALID

\* The native message: the members options write, and those the libraries do.
OptionMember ==
    [ pktpb |-> "Playback", pktseqflg |-> "SeqFlag", pktseqcnt |-> "Sequence",
      pktendian |-> "Endian", pktsubsys |-> "SubsystemId", pktver |-> "VersionId",
      pktsys |-> "SystemId" ]
HeaderMembers == Range(OptionMember) \cup {"StreamId", "FunctionCode"}

DestinationIds == {"pktedsver", "pktid", "pktapid"}
CommandCodeIds == {"cmdcode", "pktfc"}

\* The name of a destination, which may have an instance.
DestName == [inst : STRING, intf : STRING]

\* An argument and what its text says.
\*   name, cmd  "inst:intf.cmd" cut at the first "." (a text without one has no cmd)
\*   ok, val    what EdsLib_Scalar_FromString says of the text, or of what is
\*              behind the "="
\*   known      the byte order, or the protocol, is one of those there are
Arg ==
    [id : DestinationIds, name : DestName, cmd : STRING]
      \cup [id : CommandCodeIds, cmd : STRING]
      \cup [id : DOMAIN OptionMember, ok : BOOLEAN, val : STRING]
      \cup [id : {"endian", "protocol"}, known : BOOLEAN]
      \cup [id : {"NONE"}, assigns : BOOLEAN, member : STRING, ok : BOOLEAN, val : STRING]
      \cup [id : {"other"}]

\* What the libraries know.
\*   interface   names to interfaces
\*   complete    a name with a "/" to that name with the default component put in
\*   instance    names of instances to their numbers
\*   topic       an interface to its topic, if it has one; parent a topic to its
\*   parent      interface
\*   numeric     destinations that are numbers to the message ids they are
\*   unmap       a message id to the instance and the topic it is for
\*   map         an instance and a topic to their message id
\*   fails       the lookup of an interface that fails: its info, or its argument
\*               type
\*   argument    an interface to the type of its argument
\*   derived     a type with derived types to these, in the database's order, each
\*               with its name and the values of its constraints
\*   unknown     the types GetTypeInfo fails for; raw the ones that cannot be
\*   raw         initialized; unpackable the ones that cannot be packed
\*   payload     a type with a member "Payload" to the members of that
\*   addressing  the header members Set_PubSub_Parameters writes
\*   fixed       the members InitializeNativeObject writes, with their values
ASSUME DatabaseAssumption ==
    /\ Range(DB.interface) \cup Range(DB.parent) \cup DOMAIN DB.topic \subseteq DOMAIN DB.argument
    /\ DOMAIN DB.fails \subseteq DOMAIN DB.argument
    /\ DB.addressing \subseteq HeaderMembers
    /\ "StreamId" \in DB.addressing
    /\ Range(DB.argument) \subseteq DOMAIN DB.fixed
    /\ \A t \in DOMAIN DB.derived : \A k \in DOMAIN DB.derived[t] : DB.derived[t][k].type \in DOMAIN DB.fixed
    /\ \A t \in DOMAIN DB.fixed : DOMAIN DB.fixed[t] \subseteq HeaderMembers
    /\ \A t \in DOMAIN DB.derived :
         DB.derived[t] \in Seq([name : STRING, constraints : SUBSET STRING, type : STRING])
\* No id is the invalid one.
ASSUME IdAssumption ==
    /\ NoId \notin DOMAIN DB.argument \cup Range(DB.argument) \cup DOMAIN DB.payload
    /\ \A t \in DOMAIN DB.derived : \A k \in DOMAIN DB.derived[t] : DB.derived[t][k].type # NoId
\* Params.Telecommand.
Params(instance, topic) == [InstanceNumber |-> instance, TopicId |-> topic]

\* Every message id is of some instance and topic, and a topic has one for the
\* first instance.
ASSUME MessageIdAssumption ==
    /\ Range(DB.numeric) \subseteq DOMAIN DB.unmap
    /\ Range(DB.unmap) \subseteq [InstanceNumber : Nat, TopicId : Nat]
    /\ Range(DB.topic) \subseteq Nat
    /\ \A t \in Range(DB.topic) :
         /\ DB.map[Params(1, t)] \in DOMAIN DB.unmap
         /\ DB.unmap[DB.map[Params(1, t)]] = Params(1, t)
ASSUME EdsArgAssumption == ArgV \subseteq Arg
ASSUME EdsBoundAssumption == MAX_ARGS \in Nat

-----------------------------------------------------------------------------
VARIABLES
    cmd,      \* the CommandData_t object; Buf is in two parts, Buf and Payload
    argv,     \* the arguments ParseOption was called with, in order
    status,   \* what the encoder told its caller last, see Status
    packet,   \* what GetPackedObject wrote
    listing   \* what HelpUsage printed

vars == <<cmd, argv, status, packet, listing>>

\* crashed: EDS_Instantiate wrote through the NULL pointer it was about to
\* return; the others are as in PassThruEncode.
Status == {"parsing", "rejected", "packed", "refused", "helped", "crashed"}

LookupState == {"FAILED", "UNKNOWN", "SUCCESS"}
NoPacket == [type |-> NoId]
NoListing == [what |-> "none", of |-> NoId]
NoName == [inst |-> "", intf |-> ""]

\* memset, then "InstanceNumber = 1" and "SeqFlag = 0x3".
FreshBuf == [m \in HeaderMembers |-> IF m = "SeqFlag" THEN "3" ELSE "0"]

FreshObject ==
    [ DestIntf |-> NoName, CmdName |-> "", InstanceNumber |-> 1, TopicId |-> 0, MsgId |-> "0",
      IntfState |-> "UNKNOWN", PayloadState |-> "UNKNOWN", PayloadError |-> FALSE,
      IntfEdsId |-> NoId, IntfArg |-> NoId, ActualArg |-> NoId, EdsPayloadInfo |-> NoId,
      Buf |-> FreshBuf, Payload |-> [m \in {} |-> "0"] ]

\* The primary header lookup may fail; its object is then freed and written to.
Init ==
    /\ cmd = FreshObject
    /\ argv = <<>>
    /\ status \in {"parsing", "crashed"}
    /\ packet = NoPacket
    /\ listing = NoListing

-----------------------------------------------------------------------------
(* The lookups: each takes an object and gives it back as the C function   *)
(* leaves it, with FAILED or SUCCESS in its state for the return value.    *)

Find(name) ==
    IF name.inst = "" /\ name.intf \in DOMAIN DB.interface THEN DB.interface[name.intf] ELSE NoId
InterfaceOfTopic(t) == IF t \in DOMAIN DB.parent THEN DB.parent[t] ELSE NoId
IsNumeric(name) == name.inst = "" /\ name.intf \in DOMAIN DB.numeric
Fails(intf, call) == intf \in DOMAIN DB.fails /\ DB.fails[intf] = call

\* The implicit "Application" component, put in when the name as typed is not known.
Completed(name) ==
    IF Find(name) = NoId /\ name.intf \in DOMAIN DB.complete
    THEN [name EXCEPT !.intf = DB.complete[name.intf]]
    ELSE name

\* CFE_MissionLib_Set_PubSub_Parameters on Buf: of the message id, every member that
\* carries the address gets its share.
Addressed(buf, id) == [m \in HeaderMembers |-> IF m \in DB.addressing THEN id ELSE buf[m]]

\* A number is the message id; UnmapListenerComponent writes the instance and the topic
\* it is for over the ones there were, and the topic gives the interface.
ProcessNumber(c) ==
    LET id == DB.numeric[c.DestIntf.intf]
        params == DB.unmap[id]
        intf == InterfaceOfTopic(params.TopicId)
    IN [c EXCEPT !.MsgId = id, !.InstanceNumber = params.InstanceNumber, !.TopicId = params.TopicId,
                 !.IntfEdsId = IF intf = NoId THEN @ ELSE intf,
                 !.IntfState = IF intf = NoId THEN "FAILED" ELSE @]

\* A name gives the interface before its topic and its info are looked up, so IntfEdsId may
\* stay behind; MapListenerComponent makes the message id of topic and instance.
MapListenerComponent(instance, topic) == DB.map[Params(instance, topic)]
ProcessName(c) ==
    LET name == Completed(c.DestIntf)
        intf == Find(name)
        found == [c EXCEPT !.DestIntf = name, !.IntfEdsId = IF intf = NoId THEN @ ELSE intf,
                           !.TopicId = IF intf \in DOMAIN DB.topic THEN DB.topic[intf] ELSE @]
    IN IF intf \in DOMAIN DB.topic /\ ~Fails(intf, "info")
       THEN [found EXCEPT !.MsgId = MapListenerComponent(found.InstanceNumber, found.TopicId)]
       ELSE [found EXCEPT !.IntfState = "FAILED"]

\* What is found is addressed, and asked for the type of its argument.
AddressInterface(found) ==
    LET addressed == [found EXCEPT !.Buf = Addressed(@, found.MsgId)]
        type == DB.argument[found.IntfEdsId]
    IN CASE found.IntfState = "FAILED" -> found
         [] found.IntfState # "FAILED" /\ Fails(found.IntfEdsId, "argument") ->
              [addressed EXCEPT !.IntfState = "FAILED"]
         [] OTHER -> [addressed EXCEPT !.IntfArg = type, !.ActualArg = type]

ProcessDestIntf(c) ==
    AddressInterface(IF IsNumeric(c.DestIntf) THEN ProcessNumber(c) ELSE ProcessName(c))

\* A number is compared with the constraints of a derived type, anything else with
\* its name.
Matches(d, name) == name = d.name \/ name \in d.constraints

FirstMatch(ds, name) == ds[SelectInSeq(ds, LAMBDA d : Matches(d, name))].type
LastMatch(ds, name) == ds[SelectLastInSeq(ds, LAMBDA d : Matches(d, name))].type

\* Without a match ActualArg stays the argument of the interface, which is an error.
ChosenType(ds, name) == FirstMatch(ds, name)

ProcessCmdCode(c) ==
    IF c.IntfArg \in DOMAIN DB.derived
    THEN LET ds == DB.derived[c.IntfArg]
         IN IF \E k \in DOMAIN ds : Matches(ds[k], c.CmdName)
            THEN [c EXCEPT !.ActualArg = ChosenType(ds, c.CmdName), !.IntfState = "SUCCESS"]
            ELSE [c EXCEPT !.IntfState = "FAILED"]
    ELSE [c EXCEPT !.IntfState = IF c.CmdName = "" THEN "SUCCESS" ELSE "FAILED"]

\* The interface is looked up while IntfState is UNKNOWN, and never again.
LookUpCommand(dest) == IF dest.IntfState = "FAILED" THEN dest ELSE ProcessCmdCode(dest)
CheckValidIntf(c) == IF c.IntfState # "UNKNOWN" THEN c ELSE LookUpCommand(ProcessDestIntf(c))

\* EdsLib_DataTypeDB_InitializeNativeObject on Buf.
InitializedFromZero(buf, type) ==
    [m \in HeaderMembers |-> IF m \in DOMAIN DB.fixed[type] THEN DB.fixed[type][m] ELSE "0"]
Initialized(buf, type) ==
    [m \in HeaderMembers |-> IF m \in DOMAIN DB.fixed[type] THEN DB.fixed[type][m] ELSE buf[m]]

\* EDS_LookupPayloadDetail fails for an unknown type, and leaves EdsPayloadInfo for
\* one without a member "Payload".
PayloadDetail(c) == IF c.ActualArg \in DOMAIN DB.payload THEN c.ActualArg ELSE c.EdsPayloadInfo

LookUpPayload(i) ==
    CASE i.IntfState = "FAILED" \/ i.ActualArg \in DB.unknown -> [i EXCEPT !.PayloadState = "FAILED"]
      [] i.IntfState = "SUCCESS" /\ i.ActualArg \in DB.raw \ DB.unknown ->
           [i EXCEPT !.PayloadState = "FAILED", !.EdsPayloadInfo = PayloadDetail(i)]
      [] OTHER -> [i EXCEPT !.PayloadState = "SUCCESS", !.EdsPayloadInfo = PayloadDetail(i),
                            !.Buf = Initialized(@, i.ActualArg)]
CheckValidPayload(c) == IF c.PayloadState # "UNKNOWN" THEN c ELSE LookUpPayload(CheckValidIntf(c))

-----------------------------------------------------------------------------
(* ParseOption, one action per group of cases.                             *)

Returns(verdict) == status' = IF verdict = "INVALID" THEN "rejected" ELSE status

\* memcpy and the terminating NUL, or strncpy: the old text is gone.
StoreTextUnterminated(old, new) == IF old = "" THEN new ELSE <<new, old>>
StoreText(old, new) == new

\* A command name from a destination only counts if there is one.
StoreCommand(c, text) == IF text = "" THEN c ELSE [c EXCEPT !.CmdName = StoreText(@, text)]

\* CFE_MissionLib_GetInstanceNumber, 0 for a name it does not know.
GetInstanceNumber(inst) == IF inst \in DOMAIN DB.instance THEN DB.instance[inst] ELSE 0

\* Where an instance is allowed it becomes 0; otherwise CFE_MissionLib finds it.
InstanceNumber(AllowInst, inst) == IF AllowInst THEN 0 ELSE GetInstanceNumber(inst)

\* "InstanceNumber == 0".
InvalidUnchecked(number) == FALSE
Invalid(number) == number = 0

Parsed(obj, verdict) == [obj |-> obj, verdict |-> verdict]

\* The separator of an instance is searched in the destination so far, not in the
\* text; behind it is the old name again.
ParseDestFullImpl(c, a, AllowInst, AllowCmd) ==
    LET inst == InstanceNumber(AllowInst, c.DestIntf.inst)
        named == [c EXCEPT !.DestIntf = a.name]
    IN CASE c.DestIntf.inst # "" /\ Invalid(inst) -> Parsed([c EXCEPT !.InstanceNumber = inst], "INVALID")
         [] c.DestIntf.inst # "" /\ ~Invalid(inst) ->
              Parsed([c EXCEPT !.InstanceNumber = inst, !.DestIntf.inst = ""], "ACCEPTED")
         [] c.DestIntf.inst = "" /\ a.cmd # "" /\ ~AllowCmd -> Parsed(named, "INVALID")
         [] OTHER -> Parsed(StoreCommand(named, a.cmd), "ACCEPTED")

ParseDestination(a) ==
    /\ a.id \in DestinationIds
    /\ LET parsed == ParseDestFullImpl(cmd, a, TRUE, a.id # "pktapid")
       IN cmd' = parsed.obj /\ Returns(parsed.verdict)

ParseCommandCode(a) ==
    /\ a.id \in CommandCodeIds
    /\ cmd' = [cmd EXCEPT !.CmdName = StoreText(@, a.cmd)]
    /\ Returns("ACCEPTED")

\* A value EdsLib refuses is UNDEFINED, which the caller takes like ACCEPTED.
ParseHeaderMember(a) ==
    /\ a.id \in DOMAIN OptionMember
    /\ cmd' = IF a.ok THEN [cmd EXCEPT !.Buf[OptionMember[a.id]] = a.val] ELSE cmd
    /\ Returns(IF a.ok THEN "ACCEPTED" ELSE "UNDEFINED")

\* SelectedProto is set and never read.
ParseSetting(a) ==
    /\ \/ a.id \in {"endian", "protocol"} /\ Returns(IF a.known THEN "ACCEPTED" ELSE "INVALID")
       \/ a.id = "other" /\ Returns("UNDEFINED")
    /\ UNCHANGED cmd

\* EDS_ProcessParameterArgument.  LocateSubEntity knows the members of the payload
\* found before, none without one.
SettableUnread(c, a) == a.assigns /\ c.EdsPayloadInfo # NoId /\ a.member \in DB.payload[c.EdsPayloadInfo]
Settable(c, a) ==
    /\ a.assigns
    /\ c.EdsPayloadInfo # NoId /\ a.member \in DB.payload[c.EdsPayloadInfo]
    /\ a.ok

StoreMember(payload, member, val) ==
    [m \in DOMAIN payload \cup {member} |-> IF m = member THEN val ELSE payload[m]]

ProcessParameterArgument(c, a) ==
    IF Settable(c, a) THEN [c EXCEPT !.Payload = StoreMember(@, a.member, a.val)]
    ELSE [c EXCEPT !.PayloadError = TRUE]

ParseParameter(a) ==
    /\ a.id = "NONE"
    /\ \E c \in {CheckValidPayload(cmd)} :
         cmd' = IF c.PayloadState = "SUCCESS" THEN ProcessParameterArgument(c, a) ELSE c
    /\ Returns("UNDEFINED")

ParseOption(a) ==
    /\ status = "parsing"
    /\ argv' = Append(argv, a)
    /\ \/ ParseDestination(a) \/ ParseCommandCode(a) \/ ParseHeaderMember(a)
       \/ ParseSetting(a) \/ ParseParameter(a)
    /\ UNCHANGED <<packet, listing>>

-----------------------------------------------------------------------------
(* The end.                                                                *)

\* The two checks, whose results are not looked at: the second makes the first again,
\* which keeps its answer.
InterfaceLookedUp(c) == CheckValidIntf(c)
LookedUp(c) == CheckValidPayload(c)

\* EDS_HelpUsage, also after INVALID.
HelpUsage ==
    /\ status \in {"parsing", "rejected"}
    /\ cmd' = LookedUp(cmd)
    /\ listing' =
         CASE cmd'.IntfEdsId = NoId -> [what |-> "interfaces", of |-> NoId]
           [] cmd'.IntfEdsId # NoId /\ cmd'.EdsPayloadInfo # NoId ->
                [what |-> "fields", of |-> cmd'.EdsPayloadInfo]
           [] cmd'.IntfEdsId # NoId /\ cmd'.EdsPayloadInfo = NoId /\ cmd'.CmdName = "" ->
                [what |-> "commands", of |-> cmd'.IntfArg]
           [] OTHER -> [what |-> "no_fields", of |-> cmd'.ActualArg]
    /\ status' = "helped"
    /\ UNCHANGED <<argv, packet>>

\* The packet is the image of the native message.
GetPackedObject ==
    /\ status = "parsing"
    /\ cmd' = CheckValidPayload(cmd)
    /\ \/ /\ cmd'.PayloadState = "SUCCESS" /\ cmd'.ActualArg \notin DB.unpackable
          /\ packet' = [type |-> cmd'.ActualArg, hdr |-> cmd'.Buf, payload |-> cmd'.Payload]
          /\ status' = "packed"
       \/ /\ ~(cmd'.PayloadState = "SUCCESS" /\ cmd'.ActualArg \notin DB.unpackable)
          /\ packet' = packet
          /\ status' = "refused"
    /\ UNCHANGED <<argv, listing>>

-----------------------------------------------------------------------------
\* CollectOptions puts every option before every other argument.
AnyOrder(a) == TRUE
OptionsFirst(a) == argv # <<>> /\ Last(argv).id = "NONE" => a.id = "NONE"

Next ==
    \/ Len(argv) < MAX_ARGS /\ \E a \in ArgV : OptionsFirst(a) /\ ParseOption(a)
    \/ HelpUsage
    \/ GetPackedObject

Spec == Init /\ [][Next]_vars

=============================================================================
