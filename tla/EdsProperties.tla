--------------------------- MODULE EdsProperties ----------------------------
(***************************************************************************)
(* What the EDS encoder promises, stated over the arguments it was given,  *)
(* as if nothing were kept between them: the lookups are made afresh.      *)
(***************************************************************************)
EXTENDS EdsEncode, FiniteSets

Interfaces == DOMAIN DB.argument
DerivedTypes(t) == IF t \in DOMAIN DB.derived THEN {d.type : d \in Range(DB.derived[t])} ELSE {}
Types == Range(DB.argument) \cup UNION {DerivedTypes(t) : t \in Range(DB.argument)}

Texts == {a.cmd : a \in {b \in ArgV : b.id \in DestinationIds \cup CommandCodeIds}} \cup {""}
Values ==
    {"0", "3"} \cup {a.val : a \in {b \in ArgV : b.id \in DOMAIN OptionMember}}
      \cup DOMAIN DB.unmap \cup UNION {Range(DB.fixed[t]) : t \in DOMAIN DB.fixed}

TypeOK ==
    /\ cmd.CmdName \in Texts
    /\ cmd.InstanceNumber \in Nat /\ cmd.TopicId \in Nat
    /\ cmd.MsgId \in DOMAIN DB.unmap \cup {"0"}
    /\ cmd.IntfState \in LookupState /\ cmd.PayloadState \in LookupState
    /\ cmd.PayloadError \in BOOLEAN
    /\ cmd.IntfEdsId \in Interfaces \cup {NoId}
    /\ {cmd.IntfArg, cmd.ActualArg, cmd.EdsPayloadInfo} \subseteq Types \cup {NoId}
    /\ cmd.Buf \in [HeaderMembers -> Values]
    /\ argv \in Seq(ArgV)
    /\ status \in Status
    /\ packet.type \in Types \cup {NoId}
    /\ listing.of \in Types \cup {NoId}

-----------------------------------------------------------------------------
(* Reading the command line.                                               *)

Indices(ids) == {k \in DOMAIN argv : argv[k].id \in ids}

\* The destination named last, and the command named last, with a destination or by
\* itself: a destination without a command leaves the one before, --pktapid names
\* none, and only a command code option can take it back.
NamedDestination ==
    LET D == Indices(DestinationIds) IN IF D = {} THEN NoName ELSE argv[Max(D)].name
NamedCommand ==
    LET C == Indices(CommandCodeIds) \cup {k \in Indices({"pktid", "pktedsver"}) : argv[k].cmd # ""}
    IN IF C = {} THEN "" ELSE argv[Max(C)].cmd

\* The interface of a name, with the implicit component where that helps, or of a number.
InterfaceNamed(name) ==
    IF IsNumeric(name) THEN InterfaceOfTopic(DB.unmap[DB.numeric[name.intf]].TopicId)
    ELSE IF Find(name) = NoId /\ name.intf \in DOMAIN DB.complete
         THEN Find([name EXCEPT !.intf = DB.complete[name.intf]])
         ELSE Find(name)

\* A name needs a topic and an info to be reached by, a number does not.
Reachable(name) ==
    /\ InterfaceNamed(name) # NoId
    /\ ~Fails(InterfaceNamed(name), "argument")
    /\ IsNumeric(name) \/ (InterfaceNamed(name) \in DOMAIN DB.topic /\ ~Fails(InterfaceNamed(name), "info"))

\* The instance a destination is for: the one it says, the one its message id is for, or
\* else the first.  Its message id is the number typed, or the one of topic and instance.
InstanceNamed(name) ==
    CASE IsNumeric(name) -> DB.unmap[DB.numeric[name.intf]].InstanceNumber
      [] ~IsNumeric(name) /\ name.inst # "" -> GetInstanceNumber(name.inst)
      [] OTHER -> 1
MessageIdNamed(name) ==
    IF IsNumeric(name) THEN DB.numeric[name.intf]
    ELSE DB.map[Params(InstanceNamed(name), DB.topic[InterfaceNamed(name)])]

\* The type a destination and a command stand for: an interface with derived
\* types needs a command, one without takes none.
TypeWithin(base, command) ==
    LET ds == DB.derived[base]
        matching == {k \in DOMAIN ds : command = ds[k].name \/ command \in ds[k].constraints}
    IN IF base \notin DOMAIN DB.derived THEN IF command = "" THEN base ELSE NoId
       ELSE IF matching = {} THEN NoId ELSE ds[Min(matching)].type
TypeNamed(name, command) ==
    IF Reachable(name) THEN TypeWithin(DB.argument[InterfaceNamed(name)], command) ELSE NoId

TypeAsked == TypeNamed(NamedDestination, NamedCommand)
Usable(t) == t # NoId /\ t \notin DB.unknown \cup DB.raw

\* The last value EdsLib accepted for a member of the header.
Given(ids, Good(_)) == {k \in Indices(ids) : Good(argv[k])}
ValueAsked(m) ==
    LET G == Given({id \in DOMAIN OptionMember : OptionMember[id] = m}, LAMBDA a : a.ok)
    IN IF G # {} THEN argv[Max(G)].val ELSE IF m = "SeqFlag" THEN "3" ELSE "0"

-----------------------------------------------------------------------------
(* Safety.                                                                 *)

\* The answer kept from the first lookup is the one a lookup would give now: no
\* option that it depends on comes after it.  (EDS_CheckValidIntf, which never looks
\* twice, and the order of CollectOptions.)
LookupNeverStale ==
    status # "rejected" /\ cmd.IntfState # "UNKNOWN" /\ listing = NoListing =>
      /\ cmd.IntfState = "SUCCESS" <=> TypeAsked # NoId
      /\ cmd.IntfState = "SUCCESS" => cmd.ActualArg = TypeAsked

\* A packet is made exactly when destination and command stand for a type that
\* the libraries can pack, and it is of that type: whichever call
\* made the lookups, and whatever of the arguments could not be used.
PacketIsTheCommandAsked ==
    /\ status = "packed" => packet.type = TypeAsked
    /\ status \in {"packed", "refused"} =>
         (status = "packed" <=> Usable(TypeAsked) /\ TypeAsked \notin DB.unpackable)

\* Every member of the packet's header has the value the last option that EdsLib
\* accepted for it asked for, or its default (sequence flags 3), although options write it
\* before the lookup: only the address, which is the message id of the destination, and what
\* the type fixes are written later, and always are.  (ProcessDestIntf, CheckValidPayload, and the cases
\* that answer UNDEFINED.)
HeaderAsAsked ==
    status = "packed" =>
      LET fixed == DB.fixed[TypeAsked]
      IN \A m \in HeaderMembers :
           packet.hdr[m] =
             (CASE m \in DOMAIN fixed -> fixed[m]
                [] m \in DB.addressing \ DOMAIN fixed -> MessageIdNamed(NamedDestination)
                [] OTHER -> ValueAsked(m))

\* The members set in the packet are the members of its type that some argument set,
\* each with the last value that could be read; the other arguments are lost, and
\* the packet is made all the same.  (EDS_ProcessParameterArgument: PayloadError is never read.)
PayloadAsAsked ==
    status = "packed" =>
      LET members == IF TypeAsked \in DOMAIN DB.payload THEN DB.payload[TypeAsked] ELSE {}
          Setters(m) == Given({"NONE"}, LAMBDA a : a.assigns /\ a.ok /\ a.member = m)
      IN /\ DOMAIN packet.payload = {m \in members : Setters(m) # {}}
         /\ \A m \in DOMAIN packet.payload : packet.payload[m] = argv[Max(Setters(m))].val

\* A packet goes to the instance that the destination named last is for, as whoever
\* receives it reads from its address: none that an earlier destination or message id left
\* in Params, and the first if nothing names one.  (EDS_ParseDestFullImpl and both branches of
\* EDS_ProcessDestIntf write InstanceNumber.)
InstanceAsNamed ==
    status = "packed" =>
      LET instance == InstanceNamed(NamedDestination)
      IN /\ cmd.InstanceNumber = instance
         /\ "StreamId" \notin DOMAIN DB.fixed[TypeAsked] =>
              DB.unmap[packet.hdr["StreamId"]].InstanceNumber = instance

\* Help is about the command line it was asked for with: fields are those of
\* the type a packet would be of, commands those of the interface named, and the
\* list of interfaces only comes when none was.  (EDS_HelpUsage makes both lookups
\* unless an argument made them.)
HelpFitsTheCommandLine ==
    status = "helped" /\ (\A k \in Indices(DestinationIds) : argv[k].name.inst = "") =>
      /\ listing.what = "interfaces" <=> InterfaceNamed(NamedDestination) = NoId
      /\ listing.what = "fields" <=> TypeAsked \in DOMAIN DB.payload \ DB.unknown
      /\ listing.what = "fields" => listing.of = TypeAsked
      /\ listing.what = "commands" => NamedCommand = "" /\
           (listing.of = NoId \/ listing.of = DB.argument[InterfaceNamed(NamedDestination)])
=============================================================================
