----------------------------- MODULE EdsProofs ------------------------------
(***************************************************************************)
(* Proofs about the EDS encoder, for any database, any arguments and any   *)
(* number of them: what it keeps is what the command line says, and the    *)
(* packet and the help follow.                                             *)
(***************************************************************************)
EXTENDS EdsProperties, IndexLemmas

-----------------------------------------------------------------------------
(* Reading one more argument.                                              *)

NamesDestination == {a \in Arg : a.id \in DestinationIds}
NamesCommand ==
    {a \in Arg : a.id \in CommandCodeIds \/ (a.id \in {"pktid", "pktedsver"} /\ a.cmd # "")}
GivesValue(m) == {a \in Arg : a.id \in DOMAIN OptionMember /\ OptionMember[a.id] = m /\ a.ok}
SetsMember(m) == {a \in Arg : a.id = "NONE" /\ a.assigns /\ a.ok /\ a.member = m}

\* The ids of options, and what an argument with each has.
LEMMA ArgShape ==
  ASSUME NEW a \in Arg
  PROVE  /\ a.id \in DestinationIds => a.name \in DestName /\ a.cmd \in STRING
         /\ a.id \in CommandCodeIds => a.cmd \in STRING
         /\ a.id \in DOMAIN OptionMember =>
              a.ok \in BOOLEAN /\ a.val \in STRING /\ OptionMember[a.id] \in HeaderMembers
         /\ a.id = "NONE" =>
              a.assigns \in BOOLEAN /\ a.ok \in BOOLEAN /\ a.member \in STRING /\ a.val \in STRING
         /\ a.id \in {"endian", "protocol"} => a.known \in BOOLEAN
<1>1. \A x \in DOMAIN OptionMember : OptionMember[x] \in HeaderMembers
  BY DEF HeaderMembers, Range
<1>2. DOMAIN OptionMember = {"pktpb", "pktseqflg", "pktseqcnt", "pktendian", "pktsubsys", "pktver", "pktsys"}
  BY DEF OptionMember
<1> HIDE DEF OptionMember, HeaderMembers
<1> QED
  BY <1>1, <1>2 DEF Arg, DestinationIds, CommandCodeIds

\* The properties read the last place of these sets.
LEMMA ReadByPlace ==
  argv \in Seq(Arg) =>
         /\ Indices(DestinationIds) = Where(argv, NamesDestination)
         /\ NamedDestination =
              IF Where(argv, NamesDestination) = {} THEN NoName
              ELSE Latest(argv, NamesDestination).name
         /\ NamedCommand =
              IF Where(argv, NamesCommand) = {} THEN "" ELSE Latest(argv, NamesCommand).cmd
         /\ \A m : ValueAsked(m) =
              IF Where(argv, GivesValue(m)) # {} THEN Latest(argv, GivesValue(m)).val
              ELSE IF m = "SeqFlag" THEN "3" ELSE "0"
<1> SUFFICES ASSUME argv \in Seq(Arg)
             PROVE  ReadByPlace!2
  OBVIOUS
<1>1. \A k \in DOMAIN argv : argv[k] \in Arg
  OBVIOUS
<1>2. Indices(DestinationIds) = Where(argv, NamesDestination)
  BY <1>1 DEF Indices, Where, NamesDestination
<1>3. Indices(CommandCodeIds) \cup {k \in Indices({"pktid", "pktedsver"}) : argv[k].cmd # ""}
        = Where(argv, NamesCommand)
  BY <1>1 DEF Indices, Where, NamesCommand
<1>4. \A m : Given({id \in DOMAIN OptionMember : OptionMember[id] = m}, LAMBDA a : a.ok)
               = Where(argv, GivesValue(m))
  <2>1. ASSUME NEW m, NEW k \in DOMAIN argv
        PROVE  argv[k] \in GivesValue(m) <=>
                 /\ argv[k].id \in {id \in DOMAIN OptionMember : OptionMember[id] = m}
                 /\ argv[k].ok
    BY <1>1 DEF GivesValue
  <2> QED
    BY <2>1 DEF Given, Indices, Where
<1> QED
  BY <1>2, <1>3, <1>4 DEF NamedDestination, NamedCommand, ValueAsked, Latest

\* One more argument replaces what it is about and nothing else.
LEMMA ReadAppended ==
  ASSUME argv \in Seq(Arg), NEW a \in Arg, argv' = Append(argv, a)
  PROVE  /\ NamedDestination' = IF a \in NamesDestination THEN a.name ELSE NamedDestination
         /\ NamedCommand' = IF a \in NamesCommand THEN a.cmd ELSE NamedCommand
         /\ \A m : ValueAsked(m)' = IF a \in GivesValue(m) THEN a.val ELSE ValueAsked(m)
<1>1. argv' \in Seq(Arg)
  OBVIOUS
<1>2. ReadByPlace'
  BY ReadByPlace, PTL
<1>3. ASSUME NEW S
      PROVE  /\ a \in S => Where(argv', S) # {} /\ Latest(argv', S) = a
             /\ a \notin S => /\ Where(argv', S) = Where(argv, S)
                              /\ Where(argv, S) # {} => Latest(argv', S) = Latest(argv, S)
  BY LatestAppended
<1>4. NamedDestination' = IF a \in NamesDestination THEN a.name ELSE NamedDestination
  <2>1. NamedDestination' = IF Where(argv', NamesDestination) = {} THEN NoName
                            ELSE Latest(argv', NamesDestination).name
    BY <1>1, <1>2
  <2> QED
    BY <2>1, <1>3, ReadByPlace
<1>5. NamedCommand' = IF a \in NamesCommand THEN a.cmd ELSE NamedCommand
  <2>1. NamedCommand' = IF Where(argv', NamesCommand) = {} THEN ""
                        ELSE Latest(argv', NamesCommand).cmd
    BY <1>1, <1>2
  <2> QED
    BY <2>1, <1>3, ReadByPlace
<1>6. ASSUME NEW m
      PROVE  ValueAsked(m)' = IF a \in GivesValue(m) THEN a.val ELSE ValueAsked(m)
  <2>1. ValueAsked(m)' = IF Where(argv', GivesValue(m)) # {}
                         THEN Latest(argv', GivesValue(m)).val
                         ELSE IF m = "SeqFlag" THEN "3" ELSE "0"
    BY <1>1, <1>2
  <2> QED
    BY <2>1, <1>3, ReadByPlace
<1> QED
  BY <1>4, <1>5, <1>6

-----------------------------------------------------------------------------
(* The lookups, of an object that nothing was looked up for yet.           *)

NoError == FALSE
NoPayload == [m \in {} |-> "0"]

\* The names of destinations, and the one there is before any.
Names == DestName \cup {NoName}

Sought(dest, command, buf, instance, topic, id, intf) ==
    [ DestIntf |-> dest, CmdName |-> command, InstanceNumber |-> instance, TopicId |-> topic, MsgId |-> id,
      IntfState |-> "UNKNOWN", PayloadState |-> "UNKNOWN", PayloadError |-> NoError,
      IntfEdsId |-> intf, IntfArg |-> NoId, ActualArg |-> NoId, EdsPayloadInfo |-> NoId,
      Buf |-> buf, Payload |-> NoPayload ]
Gathered(dest, command, buf, n) == Sought(dest, command, buf, n, 0, "0", NoId)

\* The object when the interface is known, and when its argument is too.
TopicNamed(dest) ==
    IF IsNumeric(dest) THEN DB.unmap[DB.numeric[dest.intf]].TopicId ELSE DB.topic[InterfaceNamed(dest)]
Located(dest, command, buf) ==
    Sought(IF IsNumeric(dest) THEN dest ELSE Completed(dest), command, buf,
           InstanceNamed(dest), TopicNamed(dest), MessageIdNamed(dest), InterfaceNamed(dest))
Reached(dest, command, buf) ==
    [Located(dest, command, Addressed(buf, MessageIdNamed(dest))) EXCEPT
       !.IntfArg = DB.argument[InterfaceNamed(dest)], !.ActualArg = DB.argument[InterfaceNamed(dest)]]

\* What the lookups leave alone, and what they only write ids and numbers to.
Untouched(c, command) ==
    /\ c.CmdName = command
    /\ c.PayloadError = NoError /\ c.Payload = NoPayload
    /\ c = [x \in DOMAIN FreshObject |-> c[x]]
Numbered(c) ==
    c.InstanceNumber \in Nat /\ c.TopicId \in Nat /\ c.MsgId \in DOMAIN DB.unmap \cup {"0"}

\* The header before the address is written, or after.
MaybeAddressed(new, buf) == new = buf \/ \E id \in DOMAIN DB.unmap : new = Addressed(buf, id)

\* What is kept of a lookup that fails before the argument type is known.
Unreached(found, dest, command, buf) ==
    /\ found.IntfState = "FAILED" /\ found.PayloadState = "UNKNOWN"
    /\ found.IntfArg = NoId /\ found.ActualArg = NoId /\ found.EdsPayloadInfo = NoId
    /\ found.IntfEdsId = InterfaceNamed(dest)
    /\ MaybeAddressed(found.Buf, buf)
    /\ Numbered(found) /\ Untouched(found, command)

\* ProcessDestIntf finds the interface the properties name.
LEMMA FoundIsNamed ==
  ASSUME NEW dest \in Names
  PROVE  /\ InterfaceNamed(dest) = IF IsNumeric(dest)
                                   THEN InterfaceOfTopic(DB.unmap[DB.numeric[dest.intf]].TopicId)
                                   ELSE Find(Completed(dest))
         /\ InterfaceNamed(dest) # NoId => InterfaceNamed(dest) \in DOMAIN DB.argument
         /\ InterfaceNamed(dest) # NoId => dest.inst = ""
<1>1. \A name : Find(name) # NoId => name.inst = "" /\ Find(name) \in DOMAIN DB.argument
  BY DatabaseAssumption DEF Find, Range
<1>2. \A t : InterfaceOfTopic(t) # NoId => InterfaceOfTopic(t) \in DOMAIN DB.argument
  BY DatabaseAssumption DEF InterfaceOfTopic, Range
<1>3. CASE IsNumeric(dest)
  <2>1. InterfaceNamed(dest) = InterfaceOfTopic(DB.unmap[DB.numeric[dest.intf]].TopicId)
    BY <1>3 DEF InterfaceNamed
  <2> QED
    BY <1>2, <1>3, <2>1 DEF IsNumeric
<1>4. CASE ~IsNumeric(dest) /\ Find(dest) = NoId /\ dest.intf \in DOMAIN DB.complete
  <2>1. Completed(dest) = [dest EXCEPT !.intf = DB.complete[dest.intf]]
    BY <1>4 DEF Completed
  <2>2. Completed(dest).inst = dest.inst
    BY <2>1, <1>4 DEF Names, DestName, NoName
  <2> QED
    BY <1>1, <1>4, <2>1, <2>2 DEF InterfaceNamed
<1>5. CASE ~IsNumeric(dest) /\ ~(Find(dest) = NoId /\ dest.intf \in DOMAIN DB.complete)
  <2>1. Completed(dest) = dest
    BY <1>5 DEF Completed
  <2>2. InterfaceNamed(dest) = Find(dest)
    BY <1>5 DEF InterfaceNamed
  <2> QED
    BY <1>1, <1>5, <2>1, <2>2
<1> QED
  BY <1>3, <1>4, <1>5

\* A number is a message id, with its instance and its topic.
LEMMA NumberTyped ==
  ASSUME NEW dest, IsNumeric(dest)
  PROVE  LET id == DB.numeric[dest.intf]
         IN id \in DOMAIN DB.unmap /\ DB.unmap[id].InstanceNumber \in Nat /\ DB.unmap[id].TopicId \in Nat
<1>1. DB.numeric[dest.intf] \in Range(DB.numeric)
  BY DEF IsNumeric, Range
<1>2. DB.numeric[dest.intf] \in DOMAIN DB.unmap
  BY <1>1, MessageIdAssumption
<1>3. DB.unmap[DB.numeric[dest.intf]] \in [InstanceNumber : Nat, TopicId : Nat]
  BY <1>2, MessageIdAssumption DEF Range
<1> QED
  BY <1>2, <1>3

\* The message id of a destination is of its instance.
LEMMA MessageIdTyped ==
  ASSUME NEW dest \in Names, IsNumeric(dest) \/ InterfaceNamed(dest) \in DOMAIN DB.topic
  PROVE  /\ MessageIdNamed(dest) \in DOMAIN DB.unmap
         /\ DB.unmap[MessageIdNamed(dest)].InstanceNumber = InstanceNamed(dest)
         /\ InstanceNamed(dest) \in Nat /\ TopicNamed(dest) \in Nat
<1>1. CASE IsNumeric(dest)
  <2>1. /\ MessageIdNamed(dest) = DB.numeric[dest.intf]
        /\ InstanceNamed(dest) = DB.unmap[DB.numeric[dest.intf]].InstanceNumber
        /\ TopicNamed(dest) = DB.unmap[DB.numeric[dest.intf]].TopicId
    BY <1>1 DEF MessageIdNamed, InstanceNamed, TopicNamed
  <2> QED
    BY <1>1, <2>1, NumberTyped
<1>2. CASE ~IsNumeric(dest)
  <2> DEFINE topic == DB.topic[InterfaceNamed(dest)]
  <2>1. InterfaceNamed(dest) \in DOMAIN DB.topic /\ InterfaceNamed(dest) # NoId
    BY <1>2, DatabaseAssumption, IdAssumption
  <2>2. topic \in Range(DB.topic)
    BY <2>1 DEF Range
  <2>3. /\ topic \in Nat
        /\ DB.map[Params(1, topic)] \in DOMAIN DB.unmap
        /\ DB.unmap[DB.map[Params(1, topic)]] = Params(1, topic)
    BY <2>2, MessageIdAssumption
  <2>4. InstanceNamed(dest) = 1
    BY <1>2, <2>1, FoundIsNamed DEF InstanceNamed
  <2>5. MessageIdNamed(dest) = DB.map[Params(1, topic)] /\ TopicNamed(dest) = topic
    BY <1>2, <2>4 DEF MessageIdNamed, TopicNamed
  <2> QED
    BY <2>3, <2>4, <2>5 DEF Params
<1> QED
  BY <1>1, <1>2

\* The instance gathered for a destination without one is the first.
ForFirst(dest, n) == dest.inst = "" => n = 1
LEMMA FirstOfAll == \A dest : ForFirst(dest, 1)
BY DEF ForFirst

\* A lookup that stops before the address is written.
Failed(c) == [c EXCEPT !.IntfState = "FAILED"]
LEMMA SoughtInVain ==
  ASSUME NEW dest, NEW name, NEW command, NEW buf, NEW instance \in Nat, NEW topic \in Nat,
         NEW id \in DOMAIN DB.unmap \cup {"0"},
         NEW found, found = Failed(Sought(name, command, buf, instance, topic, id, InterfaceNamed(dest)))
  PROVE  Unreached(found, dest, command, buf) /\ found.Buf = buf
<1>1. /\ found.IntfState = "FAILED" /\ found.PayloadState = "UNKNOWN"
      /\ found.IntfArg = NoId /\ found.ActualArg = NoId /\ found.EdsPayloadInfo = NoId
      /\ found.IntfEdsId = InterfaceNamed(dest) /\ found.Buf = buf
      /\ found.InstanceNumber = instance /\ found.TopicId = topic /\ found.MsgId = id
  BY DEF Sought, Failed
<1>2. Untouched(found, command)
  BY DEF Sought, Failed, Untouched, FreshObject
<1> QED
  BY <1>1, <1>2 DEF Unreached, MaybeAddressed, Numbered

\* A number or a name gives the message id, or stops on the way.  What is gathered with an
\* instance is for none, but no lookup finds it.
Known(dest) ==
    /\ InterfaceNamed(dest) # NoId
    /\ IsNumeric(dest) \/ (InterfaceNamed(dest) \in DOMAIN DB.topic /\ ~Fails(InterfaceNamed(dest), "info"))

Renumbered(c, id, instance, topic, intf) ==
    [c EXCEPT !.MsgId = id, !.InstanceNumber = instance, !.TopicId = topic, !.IntfEdsId = intf]
LEMMA NumberSought ==
  ASSUME NEW dest, NEW command, NEW buf, NEW n, NEW instance, NEW topic, NEW id, NEW intf
  PROVE  Renumbered(Gathered(dest, command, buf, n), id, instance, topic, intf)
           = Sought(dest, command, buf, instance, topic, id, intf)
<1>1. [Gathered(dest, command, buf, n) EXCEPT !.MsgId = id] = Sought(dest, command, buf, n, 0, id, NoId)
  BY DEF Gathered, Sought
<1>2. [Sought(dest, command, buf, n, 0, id, NoId) EXCEPT !.InstanceNumber = instance]
        = Sought(dest, command, buf, instance, 0, id, NoId)
  BY DEF Sought
<1>3. [Sought(dest, command, buf, instance, 0, id, NoId) EXCEPT !.TopicId = topic]
        = Sought(dest, command, buf, instance, topic, id, NoId)
  BY DEF Sought
<1>4. [Sought(dest, command, buf, instance, topic, id, NoId) EXCEPT !.IntfEdsId = intf]
        = Sought(dest, command, buf, instance, topic, id, intf)
  BY DEF Sought
<1> QED
  BY <1>1, <1>2, <1>3, <1>4 DEF Renumbered

LEMMA NumberLookup ==
  ASSUME NEW dest \in Names, NEW command, NEW buf, NEW n \in Nat, IsNumeric(dest)
  PROVE  LET found == ProcessNumber(Gathered(dest, command, buf, n))
         IN /\ Known(dest) => found = Located(dest, command, buf)
            /\ ~Known(dest) => Unreached(found, dest, command, buf) /\ found.Buf = buf
<1> DEFINE id == DB.numeric[dest.intf]
           params == DB.unmap[id]
           intf == InterfaceOfTopic(params.TopicId)
           o == Gathered(dest, command, buf, n)
           found == ProcessNumber(o)
<1>1. /\ MessageIdNamed(dest) = id /\ InstanceNamed(dest) = params.InstanceNumber
      /\ TopicNamed(dest) = params.TopicId /\ InterfaceNamed(dest) = intf
  BY FoundIsNamed DEF MessageIdNamed, InstanceNamed, TopicNamed
<1>2. id \in DOMAIN DB.unmap /\ params.InstanceNumber \in Nat /\ params.TopicId \in Nat
  BY NumberTyped
<1>3. /\ o.DestIntf = dest /\ o.IntfEdsId = NoId /\ o.IntfState = "UNKNOWN"
      /\ o = Sought(dest, command, buf, n, 0, "0", NoId)
  BY DEF Gathered, Sought
<1> HIDE DEF o
<1>4. found = [o EXCEPT !.MsgId = id, !.InstanceNumber = params.InstanceNumber, !.TopicId = params.TopicId,
                        !.IntfEdsId = IF intf = NoId THEN NoId ELSE intf,
                        !.IntfState = IF intf = NoId THEN "FAILED" ELSE "UNKNOWN"]
  BY <1>3 DEF ProcessNumber
<1> HIDE DEF found, id, params, intf
<1>5. CASE intf # NoId
  <2>1. found = [o EXCEPT !.MsgId = id, !.InstanceNumber = params.InstanceNumber, !.TopicId = params.TopicId,
                          !.IntfEdsId = intf, !.IntfState = "UNKNOWN"]
    BY <1>4, <1>5
  <2>2. found = Sought(dest, command, buf, params.InstanceNumber, params.TopicId, id, intf)
    BY <2>1 DEF o, Gathered, Sought
  <2>3. found = Located(dest, command, buf) /\ Known(dest)
    BY <1>1, <1>5, <2>2 DEF Located, Known
  <2> QED
    BY <2>3 DEF found, o
<1>6. CASE intf = NoId
  <2>1. found = [o EXCEPT !.MsgId = id, !.InstanceNumber = params.InstanceNumber, !.TopicId = params.TopicId,
                          !.IntfEdsId = intf, !.IntfState = "FAILED"]
    BY <1>4, <1>6
  <2>2. found = Failed(Sought(dest, command, buf, params.InstanceNumber, params.TopicId, id, intf))
    <3>1. found = Failed(Renumbered(o, id, params.InstanceNumber, params.TopicId, intf))
      BY <2>1 DEF Failed, Renumbered
    <3>2. Renumbered(o, id, params.InstanceNumber, params.TopicId, intf)
            = Sought(dest, command, buf, params.InstanceNumber, params.TopicId, id, intf)
      BY NumberSought DEF o
    <3> QED
      BY <3>1, <3>2
  <2>3. found = Failed(Sought(dest, command, buf, params.InstanceNumber, params.TopicId, id, InterfaceNamed(dest)))
    BY <1>1, <2>2
  <2>5. Unreached(found, dest, command, buf) /\ found.Buf = buf
    BY <1>2, <2>3, SoughtInVain
  <2>4. ~Known(dest)
    BY <1>1, <1>6 DEF Known
  <2> QED
    BY <2>4, <2>5 DEF found, o
<1> QED
  BY <1>5, <1>6

LEMMA NameLookup ==
  ASSUME NEW dest \in Names, NEW command, NEW buf, NEW n \in Nat, ForFirst(dest, n), ~IsNumeric(dest)
  PROVE  LET found == ProcessName(Gathered(dest, command, buf, n))
         IN /\ Known(dest) => found = Located(dest, command, buf)
            /\ ~Known(dest) => Unreached(found, dest, command, buf) /\ found.Buf = buf
<1> DEFINE name == Completed(dest)
           intf == InterfaceNamed(dest)
           topic == IF intf \in DOMAIN DB.topic THEN DB.topic[intf] ELSE 0
           o == Gathered(dest, command, buf, n)
           begun == [o EXCEPT !.DestIntf = name, !.IntfEdsId = IF intf = NoId THEN o.IntfEdsId ELSE intf,
                              !.TopicId = IF intf \in DOMAIN DB.topic THEN DB.topic[intf] ELSE o.TopicId]
           found == ProcessName(o)
           known == intf \in DOMAIN DB.topic /\ ~Fails(intf, "info")
<1>1. Find(name) = intf /\ (intf # NoId => dest.inst = "")
  BY FoundIsNamed
<1>2. intf \in DOMAIN DB.topic => intf # NoId
  BY DatabaseAssumption, IdAssumption
<1>3. /\ o.DestIntf = dest /\ o.IntfEdsId = NoId /\ o.TopicId = 0
      /\ o = Sought(dest, command, buf, n, 0, "0", NoId)
  BY DEF Gathered, Sought
<1> HIDE DEF o
<1>4. begun = Sought(name, command, buf, n, topic, "0", intf)
  <2>1. (IF intf = NoId THEN o.IntfEdsId ELSE intf) = intf
    BY <1>3
  <2>2. (IF intf \in DOMAIN DB.topic THEN DB.topic[intf] ELSE o.TopicId) = topic
    BY <1>3
  <2>3. begun = [o EXCEPT !.DestIntf = name, !.IntfEdsId = intf, !.TopicId = topic]
    BY <2>1, <2>2
  <2> HIDE DEF begun, name, intf, topic
  <2> QED
    BY <2>3 DEF o, Gathered, Sought
<1>5. found = IF known THEN [begun EXCEPT !.MsgId = DB.map[Params(begun.InstanceNumber, begun.TopicId)]]
              ELSE [begun EXCEPT !.IntfState = "FAILED"]
  <2> DEFINE told == [o EXCEPT !.DestIntf = Completed(o.DestIntf),
                               !.IntfEdsId = IF Find(Completed(o.DestIntf)) = NoId THEN o.IntfEdsId
                                             ELSE Find(Completed(o.DestIntf)),
                               !.TopicId = IF Find(Completed(o.DestIntf)) \in DOMAIN DB.topic
                                           THEN DB.topic[Find(Completed(o.DestIntf))] ELSE o.TopicId]
  <2>1. found = IF Find(Completed(o.DestIntf)) \in DOMAIN DB.topic /\ ~Fails(Find(Completed(o.DestIntf)), "info")
                THEN [told EXCEPT !.MsgId = DB.map[Params(told.InstanceNumber, told.TopicId)]]
                ELSE [told EXCEPT !.IntfState = "FAILED"]
    BY DEF ProcessName, MapListenerComponent
  <2>2. Completed(o.DestIntf) = name /\ Find(Completed(o.DestIntf)) = intf
    BY <1>1, <1>3
  <2>3. told = begun
    BY <2>2
  <2> HIDE DEF told, begun, found, name, intf
  <2> QED
    BY <2>1, <2>2, <2>3
<1> HIDE DEF found, begun
<1>6. begun.InstanceNumber = n /\ begun.TopicId = topic
  BY <1>4 DEF Sought
<1>7. CASE known
  <2>1. n = 1 /\ topic = DB.topic[intf]
    BY <1>1, <1>2, <1>7 DEF ForFirst
  <2>2. InstanceNamed(dest) = n
    BY <1>1, <1>2, <1>7, <2>1 DEF InstanceNamed
  <2>3. MessageIdNamed(dest) = DB.map[Params(n, topic)] /\ TopicNamed(dest) = topic
    BY <2>1, <2>2 DEF MessageIdNamed, TopicNamed
  <2>4. found = [begun EXCEPT !.MsgId = DB.map[Params(n, topic)]]
    BY <1>5, <1>6, <1>7
  <2>5. Known(dest)
    BY <1>2, <1>7 DEF Known
  <2> HIDE DEF topic, name, intf, known
  <2>6. found = Sought(name, command, buf, n, topic, DB.map[Params(n, topic)], intf)
    BY <1>4, <2>4 DEF Sought
  <2>7. found = Located(dest, command, buf)
    BY <2>2, <2>3, <2>6 DEF Located, name, intf
  <2> QED
    BY <2>5, <2>7 DEF found, o
<1>8. CASE ~known
  <2>1. ~Known(dest)
    BY <1>8 DEF Known
  <2>2. topic \in Nat
    BY MessageIdAssumption DEF Range
  <2>3. found = [begun EXCEPT !.IntfState = "FAILED"]
    BY <1>5, <1>8
  <2> HIDE DEF topic, name, known
  <2>4. found = Failed(Sought(name, command, buf, n, topic, "0", intf))
    BY <1>4, <2>3 DEF Failed
  <2>5. "0" \in DOMAIN DB.unmap \cup {"0"}
    OBVIOUS
  <2>6. Unreached(found, dest, command, buf) /\ found.Buf = buf
    BY <2>2, <2>4, <2>5, SoughtInVain
  <2> QED
    BY <2>1, <2>6 DEF found, o
<1> QED
  BY <1>7, <1>8

\* ProcessDestIntf: the interface is reached and its argument type known, or not.
LEMMA DestinationLookup ==
  ASSUME NEW dest \in Names, NEW command, NEW buf, NEW n \in Nat, ForFirst(dest, n)
  PROVE  LET found == ProcessDestIntf(Gathered(dest, command, buf, n))
         IN /\ Reachable(dest) => found = Reached(dest, command, buf)
            /\ ~Reachable(dest) => Unreached(found, dest, command, buf)
<1> DEFINE o == Gathered(dest, command, buf, n)
           found == IF IsNumeric(dest) THEN ProcessNumber(o) ELSE ProcessName(o)
           addressed == [found EXCEPT !.Buf = Addressed(found.Buf, found.MsgId)]
           type == DB.argument[found.IntfEdsId]
           result == ProcessDestIntf(o)
           located == Located(dest, command, buf)
           id == MessageIdNamed(dest)
           intf == InterfaceNamed(dest)
<1>1. /\ Known(dest) => found = located
      /\ ~Known(dest) => Unreached(found, dest, command, buf) /\ found.Buf = buf
  <2>1. CASE IsNumeric(dest)
    <3>1. found = ProcessNumber(o)
      BY <2>1
    <3> HIDE DEF found
    <3> QED
      BY <2>1, <3>1, NumberLookup
  <2>2. CASE ~IsNumeric(dest)
    <3>1. found = ProcessName(o)
      BY <2>2
    <3> HIDE DEF found
    <3> QED
      BY <2>2, <3>1, NameLookup
  <2> QED
    BY <2>1, <2>2
<1>2. o.DestIntf = dest
  BY DEF Gathered, Sought
<1>3. result = CASE found.IntfState = "FAILED" -> found
                 [] found.IntfState # "FAILED" /\ Fails(found.IntfEdsId, "argument") ->
                      [addressed EXCEPT !.IntfState = "FAILED"]
                 [] OTHER -> [addressed EXCEPT !.IntfArg = type, !.ActualArg = type]
  BY <1>2 DEF ProcessDestIntf, AddressInterface
<1>4. Reachable(dest) <=> Known(dest) /\ ~Fails(intf, "argument")
  BY DEF Reachable, Known
<1>5. /\ located.IntfState = "UNKNOWN" /\ located.IntfEdsId = intf /\ located.MsgId = id /\ located.Buf = buf
      /\ [located EXCEPT !.Buf = Addressed(buf, id)] = Located(dest, command, Addressed(buf, id))
  BY DEF Located, Sought
<1>9. Known(dest) => /\ addressed = Located(dest, command, Addressed(buf, id))
                     /\ found.IntfState # "FAILED" /\ found.IntfEdsId = intf
  BY <1>1, <1>5
<1> HIDE DEF found, o, result, located, addressed, id, intf
<1>6. CASE ~Known(dest)
  <2>1. result = found
    BY <1>1, <1>3, <1>6 DEF Unreached
  <2> QED
    BY <1>1, <1>4, <1>6, <2>1 DEF result, o
<1>7. CASE Known(dest) /\ Fails(intf, "argument")
  <2>1. result = [Located(dest, command, Addressed(buf, id)) EXCEPT !.IntfState = "FAILED"]
    BY <1>3, <1>7, <1>9
  <2>2. id \in DOMAIN DB.unmap /\ InstanceNamed(dest) \in Nat /\ TopicNamed(dest) \in Nat
    BY <1>7, MessageIdTyped DEF Known, id
  <2> DEFINE name == IF IsNumeric(dest) THEN dest ELSE Completed(dest)
             new == Addressed(buf, id)
  <2>5. result = Failed(Sought(name, command, new, InstanceNamed(dest), TopicNamed(dest), id, InterfaceNamed(dest)))
    BY <2>1 DEF Located, Failed, id
  <2> HIDE DEF name, new
  <2>3. Unreached(result, dest, command, new) /\ result.Buf = new
    BY <2>2, <2>5, SoughtInVain
  <2>4. Unreached(result, dest, command, buf)
    BY <2>2, <2>3 DEF Unreached, MaybeAddressed, new
  <2> QED
    BY <1>4, <1>7, <2>4 DEF result, o
<1>8. CASE Known(dest) /\ ~Fails(intf, "argument")
  <2>1. result = Reached(dest, command, buf)
    BY <1>3, <1>8, <1>9 DEF Reached, id, intf
  <2> QED
    BY <1>4, <1>8, <2>1 DEF result, o
<1> QED
  BY <1>6, <1>7, <1>8

\* ProcessCmdCode chooses the type of a command among those derived from base, or base itself.
LEMMA CommandLookup ==
  ASSUME NEW base \in Range(DB.argument), NEW command,
         NEW c, c.IntfArg = base, c.ActualArg = base, c.IntfState = "UNKNOWN", c.CmdName = command,
         DOMAIN c = DOMAIN FreshObject
  PROVE  /\ TypeWithin(base, command) # NoId =>
              ProcessCmdCode(c) = [c EXCEPT !.ActualArg = TypeWithin(base, command),
                                            !.IntfState = "SUCCESS"]
         /\ TypeWithin(base, command) = NoId =>
              ProcessCmdCode(c) = [c EXCEPT !.IntfState = "FAILED"]
<1> DEFINE ds == DB.derived[base]
           matching == {k \in DOMAIN ds : command = ds[k].name \/ command \in ds[k].constraints}
           chosen == ProcessCmdCode(c)
<1>1. base # NoId
  BY IdAssumption
<1>2. CASE base \notin DOMAIN DB.derived
  <2>1. chosen = [c EXCEPT !.IntfState = IF command = "" THEN "SUCCESS" ELSE "FAILED"]
    BY <1>2 DEF ProcessCmdCode
  <2>2. [c EXCEPT !.ActualArg = base, !.IntfState = "SUCCESS"] = [c EXCEPT !.IntfState = "SUCCESS"]
    BY DEF FreshObject
  <2> QED
    BY <1>1, <1>2, <2>1, <2>2 DEF TypeWithin
<1>3. CASE base \in DOMAIN DB.derived
  <2>1. ds \in Seq([name : STRING, constraints : SUBSET STRING, type : STRING])
    BY <1>3, DatabaseAssumption
  <2>2. \A k \in DOMAIN ds : Matches(ds[k], command) <=> k \in matching
    BY DEF Matches
  <2>3. {k \in 1..Len(ds) : Matches(ds[k], command)} = matching
    BY <2>1, <2>2
  <2>4. FirstMatch(ds, command) = ds[IF matching # {} THEN Min(matching) ELSE 0].type
    BY <2>3 DEF FirstMatch, SelectInSeq
  <2>5. matching # {} => Min(matching) \in DOMAIN ds
    <3>1. matching \in SUBSET Nat
      BY <2>1
    <3> QED
      BY <3>1, MinOf
  <2>6. matching # {} => ds[Min(matching)].type # NoId
    BY <1>3, <2>5, IdAssumption
  <2> QED
    BY <1>3, <2>2, <2>4, <2>6 DEF ProcessCmdCode, ChosenType, TypeWithin
<1> QED
  BY <1>2, <1>3

\* CheckValidIntf: found out, for good.
FoundOut(i, dest, command, buf) ==
    LET type == TypeNamed(dest, command)
        reached == Reached(dest, command, buf)
    IN /\ type # NoId => Reachable(dest) /\ i = [reached EXCEPT !.ActualArg = type, !.IntfState = "SUCCESS"]
       /\ type = NoId /\ Reachable(dest) => i = [reached EXCEPT !.IntfState = "FAILED"]
       /\ ~Reachable(dest) => Unreached(i, dest, command, buf)

LEMMA InterfaceLookup ==
  ASSUME NEW dest \in Names, NEW command, NEW buf, NEW n \in Nat, ForFirst(dest, n)
  PROVE  FoundOut(CheckValidIntf(Gathered(dest, command, buf, n)), dest, command, buf)
<1> DEFINE o == Gathered(dest, command, buf, n)
           i == CheckValidIntf(o)
           found == ProcessDestIntf(o)
           type == TypeNamed(dest, command)
           reached == Reached(dest, command, buf)
<1>1. o.IntfState = "UNKNOWN"
  BY DEF Gathered, Sought
<1>2. i = IF found.IntfState = "FAILED" THEN found ELSE ProcessCmdCode(found)
  BY <1>1 DEF CheckValidIntf, LookUpCommand
<1> HIDE DEF o, i, found
<1>3. CASE Reachable(dest)
  <2> DEFINE base == DB.argument[InterfaceNamed(dest)]
  <2>1. found = reached
    BY <1>3, DestinationLookup DEF found, o
  <2>2. /\ reached.IntfArg = base /\ reached.ActualArg = base /\ reached.IntfState = "UNKNOWN"
        /\ reached.CmdName = command /\ DOMAIN reached = DOMAIN FreshObject
    BY DEF Reached, Located, Sought, FreshObject
  <2>3. base \in Range(DB.argument)
    BY <1>3, FoundIsNamed DEF Reachable, Range
  <2>4. i = ProcessCmdCode(reached)
    BY <1>2, <2>1, <2>2
  <2>5. type = TypeWithin(base, command)
    BY <1>3 DEF TypeNamed
  <2> HIDE DEF reached, base, type
  <2>6. /\ type # NoId => i = [reached EXCEPT !.ActualArg = type, !.IntfState = "SUCCESS"]
        /\ type = NoId => i = [reached EXCEPT !.IntfState = "FAILED"]
    BY <2>2, <2>3, <2>4, <2>5, CommandLookup
  <2> QED
    BY <1>3, <2>6 DEF FoundOut, reached, type, i, o
<1>4. CASE ~Reachable(dest)
  <2>1. Unreached(found, dest, command, buf)
    BY <1>4, DestinationLookup DEF found, o
  <2>2. i = found
    BY <1>2, <2>1 DEF Unreached
  <2>3. type = NoId
    BY <1>4 DEF TypeNamed
  <2> QED
    BY <1>4, <2>1, <2>2, <2>3 DEF FoundOut, i, o
<1> QED
  BY <1>3, <1>4

\* CheckValidPayload: what is kept is what the properties say the line stands for.
KeptAnswer(c, dest, command, buf) ==
    LET type == TypeNamed(dest, command)
        intf == InterfaceNamed(dest)
    IN /\ Untouched(c, command) /\ Numbered(c)
       /\ c.IntfState = IF type # NoId THEN "SUCCESS" ELSE "FAILED"
       /\ type # NoId => c.ActualArg = type /\ c.InstanceNumber = InstanceNamed(dest)
       /\ c.ActualArg \in {NoId, type} \/ (Reachable(dest) /\ c.ActualArg = DB.argument[intf])
       /\ c.PayloadState = IF Usable(type) THEN "SUCCESS" ELSE "FAILED"
       /\ Usable(type) => c.Buf = Initialized(Addressed(buf, MessageIdNamed(dest)), type)
       /\ ~Usable(type) => MaybeAddressed(c.Buf, buf)
       /\ c.EdsPayloadInfo = IF type \in DOMAIN DB.payload \ DB.unknown THEN type ELSE NoId
       /\ c.IntfEdsId = intf
       /\ c.IntfArg = NoId \/ (Reachable(dest) /\ c.IntfArg = DB.argument[intf])

LEMMA ReachedNumbered ==
  ASSUME NEW dest \in Names, NEW command, NEW buf, Reachable(dest)
  PROVE  Numbered(Reached(dest, command, buf)) /\ MessageIdNamed(dest) \in DOMAIN DB.unmap
<1>1. MessageIdNamed(dest) \in DOMAIN DB.unmap /\ InstanceNamed(dest) \in Nat /\ TopicNamed(dest) \in Nat
  BY MessageIdTyped DEF Reachable
<1> QED
  BY <1>1 DEF Numbered, Reached, Located, Sought

LEMMA LookupOutcome ==
  ASSUME NEW dest \in Names, NEW command, NEW buf, NEW n \in Nat, ForFirst(dest, n)
  PROVE  KeptAnswer(CheckValidPayload(Gathered(dest, command, buf, n)), dest, command, buf)
<1> DEFINE o == Gathered(dest, command, buf, n)
           c == CheckValidPayload(o)
           i == CheckValidIntf(o)
           type == TypeNamed(dest, command)
           reached == Reached(dest, command, buf)
<1>1. o.PayloadState = "UNKNOWN"
  BY DEF Gathered, Sought
<1>2. c = CASE i.IntfState = "FAILED" \/ i.ActualArg \in DB.unknown -> [i EXCEPT !.PayloadState = "FAILED"]
            [] i.IntfState = "SUCCESS" /\ i.ActualArg \in DB.raw \ DB.unknown ->
                 [i EXCEPT !.PayloadState = "FAILED", !.EdsPayloadInfo = PayloadDetail(i)]
            [] OTHER -> [i EXCEPT !.PayloadState = "SUCCESS", !.EdsPayloadInfo = PayloadDetail(i),
                                  !.Buf = Initialized(@, i.ActualArg)]
  BY <1>1 DEF CheckValidPayload, LookUpPayload
<1>3. NoId \notin DOMAIN DB.payload
  BY IdAssumption
<1>0. FoundOut(i, dest, command, buf)
  BY InterfaceLookup
<1> HIDE DEF o, c, i
<1>4. CASE type = NoId
  <2>1. /\ Untouched(i, command) /\ i.IntfState = "FAILED" /\ i.PayloadState = "UNKNOWN"
        /\ i.IntfEdsId = InterfaceNamed(dest) /\ i.EdsPayloadInfo = NoId
        /\ i.ActualArg = NoId \/ (Reachable(dest) /\ i.ActualArg = DB.argument[InterfaceNamed(dest)])
        /\ i.IntfArg = NoId \/ (Reachable(dest) /\ i.IntfArg = DB.argument[InterfaceNamed(dest)])
        /\ Numbered(i) /\ MaybeAddressed(i.Buf, buf)
    <3>1. CASE Reachable(dest)
      <4>1. i = [reached EXCEPT !.IntfState = "FAILED"]
        BY <1>4, <3>1, <1>0 DEF FoundOut
      <4>2. Numbered(reached) /\ MaybeAddressed(reached.Buf, buf)
        BY <3>1, ReachedNumbered DEF Reached, Located, Sought, MaybeAddressed
      <4> QED
        BY <3>1, <4>1, <4>2 DEF Reached, Located, Sought, Untouched, Numbered, FreshObject
    <3>2. CASE ~Reachable(dest)
      <4>1. Unreached(i, dest, command, buf)
        BY <3>2, <1>0 DEF FoundOut
      <4> QED
        BY <4>1 DEF Unreached
    <3> QED
      BY <3>1, <3>2
  <2>2. c = [i EXCEPT !.PayloadState = "FAILED"]
    BY <1>2, <2>1
  <2> QED
    BY <1>3, <1>4, <2>1, <2>2 DEF KeptAnswer, Untouched, Numbered, Usable, FreshObject, c, o
<1>5. CASE type # NoId
  <2>1. i = [reached EXCEPT !.ActualArg = type, !.IntfState = "SUCCESS"] /\ Reachable(dest)
    BY <1>5, <1>0 DEF FoundOut
  <2>2. /\ Untouched(i, command) /\ i.IntfState = "SUCCESS" /\ i.PayloadState = "UNKNOWN"
        /\ i.IntfEdsId = InterfaceNamed(dest) /\ i.EdsPayloadInfo = NoId
        /\ i.ActualArg = type /\ i.IntfArg = DB.argument[InterfaceNamed(dest)]
        /\ i.Buf = Addressed(buf, MessageIdNamed(dest))
        /\ i.InstanceNumber = InstanceNamed(dest)
    BY <2>1 DEF Reached, Located, Sought, Untouched, FreshObject
  <2>3. Numbered(i) /\ MaybeAddressed(i.Buf, buf)
    BY <2>1, ReachedNumbered DEF Reached, Located, Sought, Numbered, MaybeAddressed
  <2>4. PayloadDetail(i) = IF type \in DOMAIN DB.payload THEN type ELSE NoId
    BY <2>2 DEF PayloadDetail
  <2> HIDE DEF type
  <2>5. CASE type \in DB.unknown
    <3>1. c = [i EXCEPT !.PayloadState = "FAILED"]
      BY <1>2, <2>2, <2>5
    <3>2. Untouched(c, command) /\ Numbered(c)
      BY <2>2, <2>3, <3>1 DEF Untouched, Numbered, FreshObject
    <3> QED
      BY <1>5, <2>1, <2>2, <2>3, <2>5, <3>1, <3>2 DEF KeptAnswer, Untouched, Usable, FreshObject, c, o, type
  <2>6. CASE type \notin DB.unknown /\ type \in DB.raw
    <3>1. c = [i EXCEPT !.PayloadState = "FAILED", !.EdsPayloadInfo = PayloadDetail(i)]
      BY <1>2, <2>2, <2>6
    <3>2. Untouched(c, command) /\ Numbered(c)
      BY <2>2, <2>3, <3>1 DEF Untouched, Numbered, FreshObject
    <3>3. DOMAIN i = DOMAIN FreshObject
      BY <2>2 DEF Untouched
    <3> HIDE DEF o, c
    <3>4. /\ c.IntfState = "SUCCESS" /\ c.PayloadState = "FAILED"
          /\ c.ActualArg = type /\ c.IntfEdsId = InterfaceNamed(dest)
          /\ c.IntfArg = DB.argument[InterfaceNamed(dest)] /\ c.EdsPayloadInfo = PayloadDetail(i)
          /\ c.Buf = Addressed(buf, MessageIdNamed(dest)) /\ c.InstanceNumber = InstanceNamed(dest)
      BY <2>2, <3>1, <3>3 DEF FreshObject
    <3>5. ~Usable(type) /\ MaybeAddressed(c.Buf, buf)
      BY <2>2, <2>3, <2>6, <3>4 DEF Usable
    <3> QED
      BY <1>5, <2>1, <2>4, <2>6, <3>2, <3>4, <3>5 DEF KeptAnswer, c, o, type
  <2>7. CASE type \notin DB.unknown /\ type \notin DB.raw
    <3>1. c = [i EXCEPT !.PayloadState = "SUCCESS", !.EdsPayloadInfo = PayloadDetail(i),
                        !.Buf = Initialized(@, i.ActualArg)]
      BY <1>2, <2>2, <2>7
    <3>2. Untouched(c, command) /\ Numbered(c)
      BY <2>2, <2>3, <3>1 DEF Untouched, Numbered, FreshObject
    <3>3. DOMAIN i = DOMAIN FreshObject
      BY <2>2 DEF Untouched
    <3> HIDE DEF o, c
    <3>4. /\ c.IntfState = "SUCCESS" /\ c.PayloadState = "SUCCESS"
          /\ c.ActualArg = type /\ c.IntfEdsId = InterfaceNamed(dest)
          /\ c.IntfArg = DB.argument[InterfaceNamed(dest)] /\ c.EdsPayloadInfo = PayloadDetail(i)
          /\ c.Buf = Initialized(Addressed(buf, MessageIdNamed(dest)), type)
          /\ c.InstanceNumber = InstanceNamed(dest)
      BY <2>2, <3>1, <3>3 DEF FreshObject
    <3> QED
      BY <1>5, <2>1, <2>3, <2>4, <2>7, <3>2, <3>4 DEF KeptAnswer, Usable, c, o, type
  <2> QED
    BY <2>5, <2>6, <2>7
<1> QED
  BY <1>4, <1>5

-----------------------------------------------------------------------------
(* The inductive invariant: what the encoder keeps is what the command     *)
(* line so far says.                                                       *)

Header == [m \in HeaderMembers |-> ValueAsked(m)]
NoParameter == \A k \in DOMAIN argv : argv[k].id # "NONE"
NoInstance == \A k \in Indices(DestinationIds) : argv[k].name.inst = ""

\* The members of the payload of the type asked for that arguments set.
MembersOf(t) == IF Usable(t) /\ t \in DOMAIN DB.payload THEN DB.payload[t] ELSE {}
MembersSet(t) ==
    [m \in {x \in MembersOf(t) : Where(argv, SetsMember(x)) # {}} |-> Latest(argv, SetsMember(m)).val]

\* The object before the lookups, and behind them with the payload.
Collected == Gathered(NamedDestination, NamedCommand, Header, 1)
Finished(e) ==
    [CheckValidPayload(Collected) EXCEPT !.Payload = MembersSet(TypeAsked), !.PayloadError = e]

\* What HelpUsage prints of an object.
Listed(c) ==
    CASE c.IntfEdsId = NoId -> [what |-> "interfaces", of |-> NoId]
      [] c.IntfEdsId # NoId /\ c.EdsPayloadInfo # NoId -> [what |-> "fields", of |-> c.EdsPayloadInfo]
      [] c.IntfEdsId # NoId /\ c.EdsPayloadInfo = NoId /\ c.CmdName = "" ->
           [what |-> "commands", of |-> c.IntfArg]
      [] OTHER -> [what |-> "no_fields", of |-> c.ActualArg]

WhileParsing ==
    status = "parsing" =>
      /\ NoParameter => cmd = Collected
      /\ ~NoParameter => Last(argv).id = "NONE" /\ (\E e \in BOOLEAN : cmd = Finished(e))
      /\ NamedDestination.inst = "" => NoInstance

\* An instance makes the encoder refuse the next destination, which it does not keep.
WhenRejected ==
    status = "rejected" =>
      \E dest \in Names, command \in Texts, n \in {0, 1} :
        /\ cmd = Gathered(dest, command, Header, n)
        /\ ForFirst(dest, n)
        /\ NoInstance => dest = NamedDestination /\ command = NamedCommand /\ n = 1

WhenAsked ==
    /\ status \in {"packed", "refused"} =>
         /\ \E e \in BOOLEAN : cmd = Finished(e)
         /\ NamedDestination.inst = "" => NoInstance
         /\ status = "packed" <=> cmd.PayloadState = "SUCCESS" /\ cmd.ActualArg \notin DB.unpackable
    /\ status = "packed" =>
         packet = [type |-> cmd.ActualArg, hdr |-> cmd.Buf, payload |-> cmd.Payload]
    /\ status = "helped" =>
         /\ listing = Listed(cmd)
         /\ \/ \E e \in BOOLEAN : cmd = Finished(e)
            \/ /\ ~NoInstance
               /\ \E dest \in Names, command \in Texts, n \in {0, 1} :
                    /\ cmd = CheckValidPayload(Gathered(dest, command, Header, n))
                    /\ ForFirst(dest, n)

KeptInv ==
    /\ argv \in Seq(ArgV)
    /\ status \in Status
    /\ status = "crashed" => cmd = FreshObject
    /\ status # "packed" => packet = NoPacket
    /\ status # "helped" => listing = NoListing
    /\ status = "rejected" => NoParameter
    /\ WhileParsing /\ WhenRejected /\ WhenAsked

-----------------------------------------------------------------------------
(* What the command line says is of the right type.                        *)

LEMMA NamedTyped ==
  argv \in Seq(ArgV) =>
    /\ argv \in Seq(Arg)
    /\ NamedDestination \in Names /\ NamedCommand \in Texts
    /\ Header \in [HeaderMembers -> Values]
<1> SUFFICES ASSUME argv \in Seq(ArgV)
             PROVE  NamedTyped!2
  OBVIOUS
<1>1. argv \in Seq(Arg) /\ \A k \in DOMAIN argv : argv[k] \in ArgV
  BY EdsArgAssumption
<1>2. ASSUME NEW S, Where(argv, S) # {}
      PROVE  Latest(argv, S) \in S \cap ArgV
  BY <1>1, <1>2, LastWhere DEF Latest
<1>3. ReadByPlace!2
  BY <1>1, ReadByPlace
<1>4. NamedDestination \in Names
  <2>1. \A a \in NamesDestination : a.name \in DestName
    BY ArgShape DEF NamesDestination
  <2> QED
    BY <1>2, <1>3, <2>1 DEF Names
<1>5. NamedCommand \in Texts
  <2>1. \A a \in NamesCommand \cap ArgV : a.cmd \in Texts
    BY DEF NamesCommand, Texts, DestinationIds, CommandCodeIds
  <2>2. "" \in Texts
    BY DEF Texts
  <2> QED
    BY <1>2, <1>3, <2>1, <2>2
<1>6. \A m : ValueAsked(m) \in Values
  <2>1. \A m : \A a \in GivesValue(m) \cap ArgV : a.val \in Values
    BY DEF GivesValue, Values
  <2>2. "0" \in Values /\ "3" \in Values
    BY DEF Values
  <2> QED
    BY <1>2, <1>3, <2>1, <2>2
<1> QED
  BY <1>1, <1>4, <1>5, <1>6 DEF Header

\* A type asked for is one of the database.
LEMMA TypeNamedTyped ==
  ASSUME NEW dest \in Names, NEW command
  PROVE  /\ TypeNamed(dest, command) \in Types \cup {NoId}
         /\ Reachable(dest) => DB.argument[InterfaceNamed(dest)] \in Types
         /\ TypeNamed(dest, command) # NoId =>
              TypeNamed(dest, command) \in DOMAIN DB.fixed /\ Reachable(dest)
<1>1. CASE ~Reachable(dest)
  BY <1>1 DEF TypeNamed
<1>2. CASE Reachable(dest)
  <2> DEFINE base == DB.argument[InterfaceNamed(dest)]
             ds == DB.derived[base]
             matching == {k \in DOMAIN ds : command = ds[k].name \/ command \in ds[k].constraints}
  <2>1. base \in Range(DB.argument)
    BY <1>2, FoundIsNamed DEF Reachable, Range
  <2>2. base \in Types /\ base \in DOMAIN DB.fixed
    BY <2>1, DatabaseAssumption DEF Types
  <2>3. TypeNamed(dest, command) = TypeWithin(base, command)
    BY <1>2 DEF TypeNamed
  <2>4. CASE base \notin DOMAIN DB.derived
    BY <1>2, <2>2, <2>3, <2>4 DEF TypeWithin
  <2>5. CASE base \in DOMAIN DB.derived
    <3>1. ds \in Seq([name : STRING, constraints : SUBSET STRING, type : STRING])
      BY <2>5, DatabaseAssumption
    <3>2. matching \in SUBSET Nat
      BY <3>1
    <3>3. matching # {} => Min(matching) \in DOMAIN ds
      BY <3>2, MinOf
    <3>4. \A k \in DOMAIN ds : ds[k].type \in DerivedTypes(base) /\ ds[k].type \in DOMAIN DB.fixed
      BY <2>5, DatabaseAssumption DEF DerivedTypes, Range
    <3>5. DerivedTypes(base) \subseteq Types
      BY <2>1 DEF Types
    <3> HIDE DEF ds
    <3>6. matching # {} => ds[Min(matching)].type \in Types /\ ds[Min(matching)].type \in DOMAIN DB.fixed
      BY <3>3, <3>4, <3>5
    <3> QED
      BY <1>2, <2>2, <2>3, <2>5, <3>6 DEF TypeWithin, ds
  <2> QED
    BY <2>4, <2>5
<1> QED
  BY <1>1, <1>2

\* And what the lookups keep is too.
LEMMA AnswerTyped ==
  ASSUME NEW dest \in Names, NEW command, NEW buf \in [HeaderMembers -> Values],
         NEW c, KeptAnswer(c, dest, command, buf)
  PROVE  /\ c.IntfState \in LookupState /\ c.PayloadState \in LookupState
         /\ c.IntfEdsId \in Interfaces \cup {NoId}
         /\ {c.IntfArg, c.ActualArg, c.EdsPayloadInfo} \subseteq Types \cup {NoId}
         /\ c.Buf \in [HeaderMembers -> Values]
<1> DEFINE type == TypeNamed(dest, command)
           intf == InterfaceNamed(dest)
<1>1. /\ type \in Types \cup {NoId}
      /\ Reachable(dest) => DB.argument[intf] \in Types
      /\ type # NoId => type \in DOMAIN DB.fixed /\ Reachable(dest)
  BY TypeNamedTyped
<1>2. \A id \in DOMAIN DB.unmap : id \in Values
  BY DEF Values
<1>3. \A id \in DOMAIN DB.unmap : Addressed(buf, id) \in [HeaderMembers -> Values]
  BY <1>2 DEF Addressed
<1>4. Usable(type) => Initialized(Addressed(buf, MessageIdNamed(dest)), type) \in [HeaderMembers -> Values]
  <2> SUFFICES ASSUME Usable(type)
               PROVE  <1>4!2
    OBVIOUS
  <2>1. MessageIdNamed(dest) \in DOMAIN DB.unmap /\ type \in DOMAIN DB.fixed
    BY <1>1, MessageIdTyped DEF Usable, Reachable
  <2>2. \A m \in DOMAIN DB.fixed[type] : DB.fixed[type][m] \in Values
    BY <2>1 DEF Values, Range
  <2> QED
    BY <1>3, <2>1, <2>2 DEF Initialized
<1> QED
  BY <1>1, <1>3, <1>4, FoundIsNamed DEF KeptAnswer, MaybeAddressed, LookupState, Interfaces

-----------------------------------------------------------------------------
(* The steps.                                                              *)

\* The lookups of a line without parameters.
LEMMA LooksUpOptions ==
  ASSUME argv \in Seq(ArgV), NoParameter
  PROVE  CheckValidPayload(Collected) = Finished(FALSE)
<1> DEFINE c == CheckValidPayload(Collected)
<1>1. KeptAnswer(c, NamedDestination, NamedCommand, Header)
  BY NamedTyped, LookupOutcome, FirstOfAll DEF Collected
<1>2. \A m : Where(argv, SetsMember(m)) = {}
  BY DEF NoParameter, Where, SetsMember
<1>3. MembersSet(TypeAsked) = NoPayload
  BY <1>2 DEF MembersSet, NoPayload
<1>4. c = [c EXCEPT !.Payload = NoPayload, !.PayloadError = NoError]
  BY <1>1 DEF KeptAnswer, Untouched, FreshObject
<1> QED
  BY <1>3, <1>4 DEF Finished, NoError

\* The lookups of the end, and of every parameter, find what the line stands for.
LEMMA LooksUpTheLine ==
  ASSUME KeptInv, status = "parsing"
  PROVE  \E e \in BOOLEAN : CheckValidPayload(cmd) = Finished(e)
<1> DEFINE c == CheckValidPayload(Collected)
<1>1. KeptAnswer(c, NamedDestination, NamedCommand, Header)
  BY NamedTyped, LookupOutcome, FirstOfAll DEF KeptInv, Collected
<1>2. CASE NoParameter
  BY <1>2, LooksUpOptions DEF KeptInv, WhileParsing
<1>3. CASE ~NoParameter
  <2>1. PICK e \in BOOLEAN : cmd = Finished(e)
    BY <1>3 DEF KeptInv, WhileParsing
  <2>2. cmd.PayloadState # "UNKNOWN"
    BY <1>1, <2>1 DEF Finished, KeptAnswer, Untouched, FreshObject
  <2>3. CheckValidPayload(cmd) = cmd
    BY <2>2 DEF CheckValidPayload
  <2> QED
    BY <2>1, <2>3
<1> QED
  BY <1>2, <1>3

\* What an argument adds to the destinations and the parameters of the line.
LEMMA LineAppended ==
  ASSUME argv \in Seq(Arg), NEW a \in Arg, argv' = Append(argv, a)
  PROVE  /\ NoParameter' <=> NoParameter /\ a.id # "NONE"
         /\ NoInstance' <=> NoInstance /\ (a.id \in DestinationIds => a.name.inst = "")
         /\ argv' # <<>> /\ Last(argv') = a
<1>1. /\ Len(argv') = Len(argv) + 1 /\ argv'[Len(argv) + 1] = a
      /\ DOMAIN argv' = 1..(Len(argv) + 1) /\ DOMAIN argv = 1..Len(argv) /\ Len(argv) \in Nat
      /\ \A k \in 1..Len(argv) : argv'[k] = argv[k]
  BY AppendProperties
<1>2. NoParameter' <=> NoParameter /\ a.id # "NONE"
  BY <1>1 DEF NoParameter
<1>3. NoInstance' <=> NoInstance /\ (a.id \in DestinationIds => a.name.inst = "")
  <2>1. NoInstance <=> \A k \in 1..Len(argv) : argv[k].id \in DestinationIds => argv[k].name.inst = ""
    BY <1>1 DEF NoInstance, Indices
  <2>2. NoInstance' <=> \A k \in 1..(Len(argv) + 1) :
                          argv'[k].id \in DestinationIds => argv'[k].name.inst = ""
    BY <1>1 DEF NoInstance, Indices
  <2>3. 1..(Len(argv) + 1) = (1..Len(argv)) \cup {Len(argv) + 1}
    BY <1>1
  <2>4. NoInstance' <=> /\ \A k \in 1..Len(argv) : argv[k].id \in DestinationIds => argv[k].name.inst = ""
                        /\ a.id \in DestinationIds => a.name.inst = ""
    BY <1>1, <2>2, <2>3, Zenon
  <2> QED
    BY <2>1, <2>4
<1>4. argv' # <<>> /\ Last(argv') = a
  BY <1>1 DEF Last
<1> QED
  BY <1>2, <1>3, <1>4

\* An argument that is no parameter leaves the members set alone.
LEMMA HeaderAppended ==
  ASSUME argv \in Seq(Arg), NEW a \in Arg, argv' = Append(argv, a)
  PROVE  Header' = [m \in HeaderMembers |-> IF a \in GivesValue(m) THEN a.val ELSE Header[m]]
BY ReadAppended DEF Header

LEMMA HeaderKept ==
  ASSUME argv \in Seq(ArgV), NEW a \in Arg, argv' = Append(argv, a), a.id \notin DOMAIN OptionMember
  PROVE  Header' = Header
<1>1. argv \in Seq(Arg) /\ Header \in [HeaderMembers -> Values]
  BY NamedTyped
<1>2. \A m : a \notin GivesValue(m)
  BY DEF GivesValue
<1>3. Header' = [m \in HeaderMembers |-> Header[m]]
  BY <1>1, <1>2, HeaderAppended
<1> QED
  BY <1>1, <1>3

\* A parameter sets the member it names, if the type has it and the value is read.
LEMMA MembersAppended ==
  ASSUME argv \in Seq(Arg), NEW a \in Arg, argv' = Append(argv, a), a.id = "NONE", NEW t
  PROVE  MembersSet(t)' = IF a.assigns /\ a.ok /\ a.member \in MembersOf(t)
                          THEN StoreMember(MembersSet(t), a.member, a.val)
                          ELSE MembersSet(t)
<1> DEFINE sets == a.assigns /\ a.ok /\ a.member \in MembersOf(t)
           asked == {x \in MembersOf(t) : Where(argv, SetsMember(x)) # {}}
           asked2 == {x \in MembersOf(t) : Where(argv', SetsMember(x)) # {}}
<1>1. \A m : a \in SetsMember(m) <=> a.assigns /\ a.ok /\ a.member = m
  BY ArgShape DEF SetsMember
<1>2. ASSUME NEW S
      PROVE  /\ a \in S => Where(argv', S) # {} /\ Latest(argv', S) = a
             /\ a \notin S => /\ Where(argv', S) = Where(argv, S)
                              /\ Where(argv, S) # {} => Latest(argv', S) = Latest(argv, S)
  BY LatestAppended
<1>3. asked2 = IF sets THEN asked \cup {a.member} ELSE asked
  BY <1>1, <1>2
<1>4. \A m \in asked2 : Latest(argv', SetsMember(m)).val =
                          IF sets /\ m = a.member THEN a.val ELSE Latest(argv, SetsMember(m)).val
  BY <1>1, <1>2
<1>5. MembersSet(t)' = [m \in asked2 |-> Latest(argv', SetsMember(m)).val]
  BY DEF MembersSet, MembersOf, Usable, SetsMember
<1>6. MembersSet(t) = [m \in asked |-> Latest(argv, SetsMember(m)).val]
  BY DEF MembersSet
<1> HIDE DEF asked, asked2
<1>7. CASE sets
  <2>1. StoreMember(MembersSet(t), a.member, a.val) =
          [m \in asked2 |-> IF m = a.member THEN a.val ELSE MembersSet(t)[m]]
    BY <1>3, <1>6, <1>7 DEF StoreMember
  <2>2. \A m \in asked2 : Latest(argv', SetsMember(m)).val = IF m = a.member THEN a.val ELSE MembersSet(t)[m]
    BY <1>3, <1>4, <1>6, <1>7
  <2> QED
    BY <1>5, <1>7, <2>1, <2>2
<1>8. CASE ~sets
  BY <1>3, <1>4, <1>5, <1>6, <1>8
<1> QED
  BY <1>7, <1>8

\* The destination named last has no instance when none has.
LEMMA LastHasNoInstance ==
  ASSUME argv \in Seq(Arg), NoInstance
  PROVE  NamedDestination.inst = ""
<1>0. /\ Indices(DestinationIds) = Where(argv, NamesDestination)
      /\ NamedDestination = IF Where(argv, NamesDestination) = {} THEN NoName
                            ELSE Latest(argv, NamesDestination).name
  BY ReadByPlace
<1>1. CASE Where(argv, NamesDestination) = {}
  BY <1>0, <1>1 DEF NoName
<1>2. CASE Where(argv, NamesDestination) # {}
  <2>1. Max(Where(argv, NamesDestination)) \in Indices(DestinationIds)
    <3>1. /\ Max(Where(argv, NamesDestination)) \in 1..Len(argv)
          /\ Latest(argv, NamesDestination) \in NamesDestination
      BY <1>2, LastWhere
    <3> QED
      BY <1>0, <3>1 DEF Latest, Where
  <2>2. NamedDestination = argv[Max(Where(argv, NamesDestination))].name
    BY <1>0, <1>2 DEF Latest
  <2> QED
    BY <2>1, <2>2 DEF NoInstance
<1> QED
  BY <1>1, <1>2

\* One field of the object set.
LEMMA GatheredSet ==
  ASSUME NEW dest, NEW command, NEW buf, NEW n, NEW x, NEW g, g = Gathered(dest, command, buf, n)
  PROVE  /\ [g EXCEPT !.InstanceNumber = x] = Gathered(dest, command, buf, x)
         /\ [g EXCEPT !.DestIntf = x] = Gathered(x, command, buf, n)
         /\ [g EXCEPT !.CmdName = x] = Gathered(dest, x, buf, n)
         /\ [g EXCEPT !.Buf = x] = Gathered(dest, command, x, n)
<1>1. [g EXCEPT !.InstanceNumber = x] = Gathered(dest, command, buf, x)
  BY DEF Gathered, Sought
<1>2. [g EXCEPT !.DestIntf = x] = Gathered(x, command, buf, n)
  BY DEF Gathered, Sought
<1>3. [g EXCEPT !.CmdName = x] = Gathered(dest, x, buf, n)
  BY DEF Gathered, Sought
<1>4. [g EXCEPT !.Buf = x] = Gathered(dest, command, x, n)
  BY DEF Gathered, Sought
<1> QED
  BY <1>1, <1>2, <1>3, <1>4

LEMMA CollectedSet ==
  ASSUME cmd = Collected, NEW x
  PROVE  /\ [cmd EXCEPT !.InstanceNumber = x] = Gathered(NamedDestination, NamedCommand, Header, x)
         /\ [cmd EXCEPT !.DestIntf = x] = Gathered(x, NamedCommand, Header, 1)
         /\ [cmd EXCEPT !.CmdName = x] = Gathered(NamedDestination, x, Header, 1)
         /\ [cmd EXCEPT !.Buf = x] = Gathered(NamedDestination, NamedCommand, x, 1)
<1>1. cmd = Gathered(NamedDestination, NamedCommand, Header, 1)
  BY DEF Collected
<1> QED
  BY <1>1, GatheredSet

\* An option while the encoder parses: what it leaves for the lookups.
LEMMA OptionCollected ==
  ASSUME KeptInv, NEW a \in ArgV, OptionsFirst(a), ParseOption(a), a.id # "NONE"
  PROVE  /\ cmd = Collected /\ NoParameter /\ a \in Arg /\ argv \in Seq(Arg)
         /\ status = "parsing" /\ argv' = Append(argv, a)
         /\ NamedDestination.inst = "" => NoInstance
<1>1. argv \in Seq(Arg) /\ a \in Arg /\ status = "parsing" /\ argv' = Append(argv, a)
  BY EdsArgAssumption, NamedTyped DEF KeptInv, ParseOption
<1>2. ~NoParameter => argv # <<>>
  BY DEF NoParameter
<1> QED
  BY <1>1, <1>2 DEF KeptInv, WhileParsing, OptionsFirst

\* An option is kept as the line says, or refused.
Kept ==
    /\ status' \in {"parsing", "rejected"}
    /\ status' = "parsing" => cmd' = Collected' /\ (NamedDestination'.inst = "" => NoInstance')
    /\ WhenRejected'

LEMMA DestinationKept ==
  ASSUME KeptInv, NEW a \in ArgV, OptionsFirst(a), ParseOption(a), ParseDestination(a)
  PROVE  Kept
<1>1. a.id \in DestinationIds /\ a.id # "NONE"
  BY DEF ParseDestination, DestinationIds
<1>2. /\ cmd = Collected /\ NoParameter /\ a \in Arg /\ argv \in Seq(Arg)
      /\ status = "parsing" /\ argv' = Append(argv, a)
      /\ NamedDestination.inst = "" => NoInstance
  BY <1>1, OptionCollected
<1>3. /\ NamedDestination' = a.name /\ a.name \in Names
      /\ NamedCommand' = IF a.id # "pktapid" /\ a.cmd # "" THEN a.cmd ELSE NamedCommand
      /\ Header' = Header
      /\ NoInstance' <=> NoInstance /\ a.name.inst = ""
  <2>1. a \in NamesDestination /\ (a \in NamesCommand <=> a.id # "pktapid" /\ a.cmd # "")
    BY <1>1, <1>2 DEF NamesDestination, NamesCommand, DestinationIds, CommandCodeIds
  <2>2. \A m : a \notin GivesValue(m)
    BY <1>1 DEF GivesValue, DestinationIds, OptionMember
  <2>3. Header \in [HeaderMembers -> Values]
    BY NamedTyped DEF KeptInv
  <2> QED
    BY <1>1, <1>2, <2>1, <2>2, <2>3, ReadAppended, HeaderAppended, LineAppended, ArgShape DEF Names
<1>4. NamedDestination \in Names /\ NamedCommand \in Texts
  BY NamedTyped DEF KeptInv
<1> DEFINE parsed == ParseDestFullImpl(cmd, a, TRUE, a.id # "pktapid")
<1>5. cmd' = parsed.obj /\ status' = IF parsed.verdict = "INVALID" THEN "rejected" ELSE "parsing"
  BY <1>2 DEF ParseDestination, Returns
<1>6. cmd.DestIntf = NamedDestination
  BY <1>2 DEF Collected, Gathered, Sought
<1> HIDE DEF parsed
<1>10. \A x : [Gathered(a.name, NamedCommand, Header, 1) EXCEPT !.CmdName = x] =
                Gathered(a.name, x, Header, 1)
  BY GatheredSet
<1>7. CASE NamedDestination.inst # ""
  <2>1. parsed.obj = [cmd EXCEPT !.InstanceNumber = 0] /\ parsed.verdict = "INVALID"
    BY <1>6, <1>7 DEF ParseDestFullImpl, InstanceNumber, Invalid, Parsed, parsed
  <2>2. cmd' = Gathered(NamedDestination, NamedCommand, Header', 0) /\ status' = "rejected"
    BY <1>2, <1>3, <1>5, <2>1, CollectedSet DEF Collected
  <2>3. ~NoInstance'
    BY <1>2, <1>3, <1>7, LastHasNoInstance
  <2> QED
    <3>1. ForFirst(NamedDestination, 0)
      BY <1>7 DEF ForFirst
    <3>2. \E dest \in Names, command \in Texts, n \in {0, 1} :
            /\ cmd' = Gathered(dest, command, Header', n)
            /\ ForFirst(dest, n)
            /\ NoInstance' => dest = NamedDestination' /\ command = NamedCommand' /\ n = 1
      BY <1>4, <2>2, <2>3, <3>1
    <3> QED
      BY <2>2, <3>2 DEF Kept, WhenRejected, Texts
<1>8. CASE NamedDestination.inst = "" /\ a.cmd # "" /\ a.id = "pktapid"
  <2>1. parsed.obj = [cmd EXCEPT !.DestIntf = a.name] /\ parsed.verdict = "INVALID"
    BY <1>6, <1>8 DEF ParseDestFullImpl, Parsed, parsed
  <2>2. cmd' = Gathered(NamedDestination', NamedCommand', Header', 1) /\ status' = "rejected"
    BY <1>2, <1>3, <1>5, <1>8, <2>1, CollectedSet DEF Collected
  <2> QED
    BY <1>3, <1>4, <1>8, <2>2, FirstOfAll DEF Kept, WhenRejected, Texts
<1>9. CASE NamedDestination.inst = "" /\ ~(a.cmd # "" /\ a.id = "pktapid")
  <2>1. parsed.obj = StoreCommand([cmd EXCEPT !.DestIntf = a.name], a.cmd) /\ parsed.verdict = "ACCEPTED"
    BY <1>6, <1>9 DEF ParseDestFullImpl, Parsed, parsed
  <2>2. cmd' = Gathered(NamedDestination', NamedCommand', Header', 1) /\ status' = "parsing"
    BY <1>2, <1>3, <1>5, <1>9, <2>1, <1>10, CollectedSet DEF StoreCommand, StoreText
  <2> QED
    BY <1>2, <1>3, <1>9, <2>2 DEF Kept, WhenRejected, Collected
<1> QED
  BY <1>7, <1>8, <1>9

LEMMA CommandCodeKept ==
  ASSUME KeptInv, NEW a \in ArgV, OptionsFirst(a), ParseOption(a), ParseCommandCode(a)
  PROVE  Kept
<1>1. a.id \in CommandCodeIds /\ a.id # "NONE"
  BY DEF ParseCommandCode, CommandCodeIds
<1>2. /\ cmd = Collected /\ NoParameter /\ a \in Arg /\ argv \in Seq(Arg)
      /\ status = "parsing" /\ argv' = Append(argv, a)
      /\ NamedDestination.inst = "" => NoInstance
  BY <1>1, OptionCollected
<1>3. NamedDestination' = NamedDestination /\ NamedCommand' = a.cmd
      /\ Header' = Header /\ (NoInstance' <=> NoInstance)
  <2>1. a \notin NamesDestination /\ a \in NamesCommand /\ a.id \notin DestinationIds
    BY <1>1, <1>2 DEF NamesDestination, NamesCommand, DestinationIds, CommandCodeIds
  <2>2. a.id \notin DOMAIN OptionMember
    BY <1>1 DEF CommandCodeIds, OptionMember
  <2>3. Header' = Header
    BY <1>2, <2>2, HeaderKept DEF KeptInv
  <2>4. NamedDestination' = NamedDestination /\ NamedCommand' = a.cmd
    BY <1>2, <2>1, ReadAppended
  <2> QED
    BY <1>2, <2>1, <2>3, <2>4, LineAppended
<1>4. cmd' = [cmd EXCEPT !.CmdName = a.cmd] /\ status' = "parsing"
  BY <1>2 DEF ParseCommandCode, Returns, StoreText
<1>5. cmd' = Gathered(NamedDestination', NamedCommand', Header', 1)
  BY <1>2, <1>3, <1>4, CollectedSet
<1> QED
  BY <1>2, <1>3, <1>4, <1>5 DEF Kept, WhenRejected, Collected

LEMMA HeaderMemberKept ==
  ASSUME KeptInv, NEW a \in ArgV, OptionsFirst(a), ParseOption(a), ParseHeaderMember(a)
  PROVE  Kept
<1>1. a.id \in DOMAIN OptionMember /\ a.id # "NONE" /\ a.id \notin DestinationIds \cup CommandCodeIds
  BY DEF ParseHeaderMember, OptionMember, DestinationIds, CommandCodeIds
<1>2. /\ cmd = Collected /\ NoParameter /\ a \in Arg /\ argv \in Seq(Arg)
      /\ status = "parsing" /\ argv' = Append(argv, a)
      /\ NamedDestination.inst = "" => NoInstance
  BY <1>1, OptionCollected
<1>3. a.ok \in BOOLEAN /\ OptionMember[a.id] \in HeaderMembers
  BY <1>1, <1>2, ArgShape
<1>4. \A m : a \in GivesValue(m) <=> a.ok /\ m = OptionMember[a.id]
  BY <1>1, <1>2 DEF GivesValue
<1>5. NamedDestination' = NamedDestination /\ NamedCommand' = NamedCommand
      /\ (NoInstance' <=> NoInstance)
  <2>1. a \notin NamesDestination /\ a \notin NamesCommand /\ a.id \notin DestinationIds
    BY <1>1 DEF NamesDestination, NamesCommand, DestinationIds, CommandCodeIds
  <2> QED
    BY <1>2, <2>1, ReadAppended, LineAppended
<1>6. Header \in [HeaderMembers -> Values]
  BY NamedTyped DEF KeptInv
<1>7. Header' = IF a.ok THEN [Header EXCEPT ![OptionMember[a.id]] = a.val] ELSE Header
  BY <1>2, <1>3, <1>4, <1>6, HeaderAppended
<1>8. /\ cmd' = IF a.ok THEN [cmd EXCEPT !.Buf = [cmd.Buf EXCEPT ![OptionMember[a.id]] = a.val]] ELSE cmd
      /\ status' = "parsing"
  BY <1>2, <1>3 DEF ParseHeaderMember, Returns
<1>9. cmd.Buf = Header
  BY <1>2 DEF Collected, Gathered, Sought
<1>10. cmd' = Gathered(NamedDestination', NamedCommand', Header', 1)
  <2>1. CASE a.ok
    <3>1. cmd' = Gathered(NamedDestination, NamedCommand, Header', 1)
      BY <1>2, <1>7, <1>8, <1>9, <2>1, CollectedSet
    <3> QED
      BY <1>5, <3>1
  <2>2. CASE ~a.ok
    BY <1>2, <1>5, <1>7, <1>8, <2>2 DEF Collected
  <2> QED
    BY <2>1, <2>2
<1> QED
  BY <1>2, <1>5, <1>8, <1>10 DEF Kept, WhenRejected, Collected

LEMMA SettingKept ==
  ASSUME KeptInv, NEW a \in ArgV, OptionsFirst(a), ParseOption(a), ParseSetting(a)
  PROVE  Kept
<1>1. a.id \in {"endian", "protocol", "other"}
  BY DEF ParseSetting
<1>2. /\ cmd = Collected /\ NoParameter /\ a \in Arg /\ argv \in Seq(Arg)
      /\ status = "parsing" /\ argv' = Append(argv, a)
      /\ NamedDestination.inst = "" => NoInstance
  BY <1>1, OptionCollected
<1>3. NamedDestination' = NamedDestination /\ NamedCommand' = NamedCommand
      /\ Header' = Header /\ (NoInstance' <=> NoInstance)
  <2>1. a \notin NamesDestination /\ a \notin NamesCommand /\ a.id \notin DestinationIds
    BY <1>1 DEF NamesDestination, NamesCommand, DestinationIds, CommandCodeIds
  <2>2. a.id \notin DOMAIN OptionMember
    BY <1>1 DEF OptionMember
  <2>3. Header' = Header
    BY <1>2, <2>2, HeaderKept DEF KeptInv
  <2>4. NamedDestination' = NamedDestination /\ NamedCommand' = NamedCommand
    BY <1>2, <2>1, ReadAppended
  <2> QED
    BY <1>2, <2>1, <2>3, <2>4, LineAppended
<1>4. cmd' = cmd /\ status' \in {"parsing", "rejected"}
  BY <1>2 DEF ParseSetting, Returns
<1>5. cmd' = Gathered(NamedDestination', NamedCommand', Header', 1)
  BY <1>2, <1>3, <1>4 DEF Collected
<1>6. NamedDestination \in Names /\ NamedCommand \in Texts
  BY NamedTyped DEF KeptInv
<1> QED
  BY <1>2, <1>3, <1>4, <1>5, <1>6, FirstOfAll DEF Kept, WhenRejected, Collected

\* An option leaves the invariant.
LEMMA OptionKeepsInv ==
  ASSUME KeptInv, NEW a \in ArgV, OptionsFirst(a), ParseOption(a), a.id # "NONE"
  PROVE  KeptInv'
<1>1. Kept
  <2>1. ParseDestination(a) \/ ParseCommandCode(a) \/ ParseHeaderMember(a) \/ ParseSetting(a)
    BY DEF ParseOption, ParseParameter
  <2> QED
    BY <2>1, DestinationKept, CommandCodeKept, HeaderMemberKept, SettingKept
<1>2. /\ NoParameter /\ a \in Arg /\ argv \in Seq(Arg) /\ argv' = Append(argv, a) /\ status = "parsing"
  BY OptionCollected
<1>3. NoParameter'
  BY <1>2, LineAppended
<1>4. argv' \in Seq(ArgV) /\ packet' = NoPacket /\ listing' = NoListing
  BY <1>2 DEF KeptInv, ParseOption
<1>5. WhileParsing'
  BY <1>1, <1>3 DEF WhileParsing, Kept
<1>6. WhenAsked'
  BY <1>1 DEF WhenAsked, Kept
<1> QED
  BY <1>1, <1>3, <1>4, <1>5, <1>6 DEF KeptInv, Kept, Status

\* The payload set, and its error, once more.
LEMMA PayloadSet ==
  ASSUME NEW c, {"Payload", "PayloadError"} \subseteq DOMAIN c, NEW p, NEW q, NEW e, NEW d,
         NEW f, f = [c EXCEPT !.Payload = p, !.PayloadError = e]
  PROVE  /\ [f EXCEPT !.Payload = q] = [c EXCEPT !.Payload = q, !.PayloadError = e]
         /\ [f EXCEPT !.PayloadError = d] = [c EXCEPT !.Payload = p, !.PayloadError = d]
         /\ f.Payload = p /\ f.PayloadError = e /\ DOMAIN f = DOMAIN c
         /\ \A x \in DOMAIN c \ {"Payload", "PayloadError"} : f[x] = c[x]
OBVIOUS

\* The fields of the finished object.
LEMMA FinishedFields ==
  ASSUME argv \in Seq(ArgV), NEW e
  PROVE  /\ Finished(e).IntfState = IF TypeAsked # NoId THEN "SUCCESS" ELSE "FAILED"
         /\ TypeAsked # NoId => /\ Finished(e).ActualArg = TypeAsked
                               /\ Finished(e).InstanceNumber = InstanceNamed(NamedDestination)
         /\ Finished(e).PayloadState = IF Usable(TypeAsked) THEN "SUCCESS" ELSE "FAILED"
         /\ Usable(TypeAsked) =>
              Finished(e).Buf = Initialized(Addressed(Header, MessageIdNamed(NamedDestination)), TypeAsked)
         /\ Finished(e).EdsPayloadInfo =
              IF TypeAsked \in DOMAIN DB.payload \ DB.unknown THEN TypeAsked ELSE NoId
         /\ Finished(e).IntfEdsId = InterfaceNamed(NamedDestination)
         /\ \/ Finished(e).IntfArg = NoId
            \/ /\ Reachable(NamedDestination)
               /\ Finished(e).IntfArg = DB.argument[InterfaceNamed(NamedDestination)]
         /\ Finished(e).CmdName = NamedCommand /\ Numbered(Finished(e))
         /\ Finished(e).Payload = MembersSet(TypeAsked) /\ Finished(e).PayloadError = e
         /\ Finished(e).IntfState \in LookupState /\ Finished(e).PayloadState \in LookupState
         /\ Finished(e).IntfEdsId \in Interfaces \cup {NoId}
         /\ {Finished(e).IntfArg, Finished(e).ActualArg, Finished(e).EdsPayloadInfo} \subseteq Types \cup {NoId}
         /\ Finished(e).Buf \in [HeaderMembers -> Values]
<1> DEFINE c == CheckValidPayload(Collected)
           f == Finished(e)
<1>1. KeptAnswer(c, NamedDestination, NamedCommand, Header)
  BY NamedTyped, LookupOutcome, FirstOfAll DEF Collected
<1>2. f = [c EXCEPT !.Payload = MembersSet(TypeAsked), !.PayloadError = e]
  BY DEF Finished
<1> HIDE DEF c, f
<1>3. DOMAIN c = DOMAIN FreshObject
  BY <1>1 DEF KeptAnswer, Untouched
<1>4. {"Payload", "PayloadError"} \subseteq DOMAIN c
  BY <1>3 DEF FreshObject
<1>5. /\ f.Payload = MembersSet(TypeAsked) /\ f.PayloadError = e
      /\ \A x \in DOMAIN c \ {"Payload", "PayloadError"} : f[x] = c[x]
  BY <1>2, <1>4, PayloadSet
<1>6. /\ f.IntfState = c.IntfState /\ f.PayloadState = c.PayloadState /\ f.ActualArg = c.ActualArg
      /\ f.Buf = c.Buf /\ f.EdsPayloadInfo = c.EdsPayloadInfo /\ f.IntfEdsId = c.IntfEdsId
      /\ f.IntfArg = c.IntfArg /\ f.CmdName = c.CmdName
      /\ f.InstanceNumber = c.InstanceNumber /\ f.TopicId = c.TopicId /\ f.MsgId = c.MsgId
  BY <1>3, <1>5 DEF FreshObject
<1>7. /\ c.IntfState \in LookupState /\ c.PayloadState \in LookupState
      /\ c.IntfEdsId \in Interfaces \cup {NoId}
      /\ {c.IntfArg, c.ActualArg, c.EdsPayloadInfo} \subseteq Types \cup {NoId}
      /\ c.Buf \in [HeaderMembers -> Values]
  BY <1>1, NamedTyped, AnswerTyped
<1> QED
  BY <1>1, <1>5, <1>6, <1>7 DEF f, KeptAnswer, Untouched, Numbered, TypeAsked

\* A parameter leaves the invariant.
LEMMA ParameterKeepsInv ==
  ASSUME KeptInv, NEW a \in ArgV, ParseOption(a), a.id = "NONE"
  PROVE  KeptInv'
<1> DEFINE c == CheckValidPayload(Collected)
           M == MembersSet(TypeAsked)
<1>1. /\ argv \in Seq(Arg) /\ a \in Arg /\ status = "parsing" /\ argv' = Append(argv, a)
      /\ argv' \in Seq(ArgV) /\ packet' = NoPacket /\ listing' = NoListing
  BY NamedTyped, EdsArgAssumption DEF KeptInv, ParseOption
<1>2. ParseParameter(a)
  BY DEF ParseOption, ParseDestination, ParseCommandCode, ParseHeaderMember, ParseSetting,
         DestinationIds, CommandCodeIds, OptionMember
<1>3. status' = "parsing"
  BY <1>1, <1>2 DEF ParseParameter, Returns
<1>4. PICK e \in BOOLEAN : CheckValidPayload(cmd) = Finished(e)
  BY <1>1, LooksUpTheLine
<1>5. cmd' = IF Finished(e).PayloadState = "SUCCESS" THEN ProcessParameterArgument(Finished(e), a)
             ELSE Finished(e)
  BY <1>2, <1>4 DEF ParseParameter
<1>6. /\ NamedDestination' = NamedDestination /\ NamedCommand' = NamedCommand /\ Header' = Header
      /\ TypeAsked' = TypeAsked
  <2>1. a \notin NamesDestination /\ a \notin NamesCommand /\ a.id \notin DOMAIN OptionMember
    BY DEF NamesDestination, NamesCommand, DestinationIds, CommandCodeIds, OptionMember
  <2>2. NamedDestination' = NamedDestination /\ NamedCommand' = NamedCommand
    BY <1>1, <2>1, ReadAppended
  <2>3. Header' = Header
    BY <1>1, <2>1, HeaderKept DEF KeptInv
  <2> QED
    BY <2>2, <2>3 DEF TypeAsked
<1>7. Collected' = Collected /\ CheckValidPayload(Collected)' = c
  BY <1>6 DEF Collected
<1>8. \A d : Finished(d) = [c EXCEPT !.Payload = M, !.PayloadError = d]
  BY DEF Finished
<1>9. \A d : Finished(d)' = [c EXCEPT !.Payload = MembersSet(TypeAsked)', !.PayloadError = d]
  BY <1>7 DEF Finished
<1>10. MembersSet(TypeAsked)' = IF a.assigns /\ a.ok /\ a.member \in MembersOf(TypeAsked)
                                THEN StoreMember(M, a.member, a.val) ELSE M
  BY <1>1, <1>6, MembersAppended
<1>11. /\ Finished(e).PayloadState = IF Usable(TypeAsked) THEN "SUCCESS" ELSE "FAILED"
       /\ Finished(e).EdsPayloadInfo =
            IF TypeAsked \in DOMAIN DB.payload \ DB.unknown THEN TypeAsked ELSE NoId
       /\ Finished(e).Payload = M
  BY FinishedFields DEF KeptInv
<1>12. {"Payload", "PayloadError"} \subseteq DOMAIN c
  <2>1. KeptAnswer(c, NamedDestination, NamedCommand, Header)
    BY NamedTyped, LookupOutcome, FirstOfAll DEF KeptInv, Collected
  <2> QED
    BY <2>1 DEF KeptAnswer, Untouched, FreshObject
<1>13. MembersOf(TypeAsked) = IF Usable(TypeAsked) /\ Finished(e).EdsPayloadInfo # NoId
                              THEN DB.payload[Finished(e).EdsPayloadInfo] ELSE {}
  BY <1>11, IdAssumption DEF MembersOf, Usable
<1> HIDE DEF c, M
<1>14. \E d \in BOOLEAN : cmd' = Finished(d)'
  <2>1. CASE Finished(e).PayloadState # "SUCCESS"
    <3>1. MembersSet(TypeAsked)' = M
      BY <1>10, <1>11, <2>1 DEF MembersOf
    <3> QED
      BY <1>5, <1>8, <1>9, <2>1, <3>1
  <2>2. CASE Finished(e).PayloadState = "SUCCESS" /\ Settable(Finished(e), a)
    <3>1. MembersSet(TypeAsked)' = StoreMember(M, a.member, a.val)
      BY <1>10, <1>11, <1>13, <2>2 DEF Settable
    <3>2. cmd' = [Finished(e) EXCEPT !.Payload = StoreMember(M, a.member, a.val)]
      BY <1>5, <1>11, <2>2 DEF ProcessParameterArgument
    <3>3. cmd' = [c EXCEPT !.Payload = StoreMember(M, a.member, a.val), !.PayloadError = e]
      BY <1>8, <1>12, <3>2, PayloadSet
    <3> QED
      BY <1>9, <3>1, <3>3
  <2>3. CASE Finished(e).PayloadState = "SUCCESS" /\ ~Settable(Finished(e), a)
    <3>1. MembersSet(TypeAsked)' = M
      BY <1>10, <1>11, <1>13, <2>3 DEF Settable
    <3>2. cmd' = [Finished(e) EXCEPT !.PayloadError = TRUE]
      BY <1>5, <2>3 DEF ProcessParameterArgument
    <3>3. PICK d \in BOOLEAN : cmd' = [Finished(e) EXCEPT !.PayloadError = d]
      BY <3>2
    <3>4. cmd' = [c EXCEPT !.Payload = M, !.PayloadError = d]
      BY <1>8, <1>12, <3>3, PayloadSet
    <3> QED
      BY <1>9, <3>1, <3>4
  <2> QED
    BY <2>1, <2>2, <2>3
<1>15. ~NoParameter' /\ Last(argv').id = "NONE"
  BY <1>1, LineAppended
<1>16. NamedDestination'.inst = "" => NoInstance'
  <2>1. NoInstance' <=> NoInstance
    BY <1>1, LineAppended DEF DestinationIds
  <2> QED
    BY <1>1, <1>6, <2>1 DEF KeptInv, WhileParsing
<1>17. WhileParsing'
  BY <1>14, <1>15, <1>16 DEF WhileParsing
<1>18. WhenRejected' /\ WhenAsked'
  BY <1>3 DEF WhenRejected, WhenAsked
<1> QED
  BY <1>1, <1>3, <1>17, <1>18 DEF KeptInv, Status

\* The two ends leave the invariant.
LEMMA HelpKeepsInv ==
  ASSUME KeptInv, HelpUsage
  PROVE  KeptInv'
<1>1. /\ status' = "helped" /\ argv' = argv /\ packet' = packet /\ listing' = Listed(cmd')
      /\ cmd' = CheckValidPayload(cmd)
  BY DEF HelpUsage, LookedUp, Listed
<1>2. /\ \A e : Finished(e)' = Finished(e)
      /\ Header' = Header /\ (NoInstance' <=> NoInstance)
  BY <1>1 DEF Finished, Collected, Header, ValueAsked, NamedDestination, NamedCommand, TypeAsked,
              MembersSet, SetsMember, Where, Latest, Indices, Given, NoInstance
<1>3. CASE status = "parsing"
  <2>1. PICK e \in BOOLEAN : cmd' = Finished(e)'
    BY <1>1, <1>2, <1>3, LooksUpTheLine
  <2>2. WhenAsked'
    BY <1>1, <2>1 DEF WhenAsked
  <2> QED
    BY <1>1, <1>3, <2>2 DEF KeptInv, Status, WhileParsing, WhenRejected
<1>4. CASE status = "rejected"
  <2>1. PICK dest \in Names, command \in Texts, n \in {0, 1} :
          /\ cmd = Gathered(dest, command, Header, n)
          /\ ForFirst(dest, n)
          /\ NoInstance => dest = NamedDestination /\ command = NamedCommand /\ n = 1
    BY <1>4 DEF KeptInv, WhenRejected
  <2>2. NoInstance => cmd' = Finished(FALSE)'
    BY <1>1, <1>2, <1>4, <2>1, LooksUpOptions DEF KeptInv, Collected
  <2>3. ~NoInstance => cmd' = CheckValidPayload(Gathered(dest, command, Header', n))
    BY <1>1, <1>2, <2>1
  <2>4. WhenAsked'
    BY <1>1, <1>2, <2>1, <2>2, <2>3 DEF WhenAsked
  <2> QED
    BY <1>1, <1>4, <2>4 DEF KeptInv, Status, WhileParsing, WhenRejected
<1> QED
  BY <1>3, <1>4 DEF HelpUsage

LEMMA PackKeepsInv ==
  ASSUME KeptInv, GetPackedObject
  PROVE  KeptInv'
<1>1. /\ status = "parsing" /\ status' \in {"packed", "refused"}
      /\ argv' = argv /\ listing' = listing /\ cmd' = CheckValidPayload(cmd)
      /\ status' # "packed" => packet' = packet
      /\ status' = "packed" =>
           packet' = [type |-> cmd'.ActualArg, hdr |-> cmd'.Buf, payload |-> cmd'.Payload]
      /\ status' = "packed" <=> cmd'.PayloadState = "SUCCESS" /\ cmd'.ActualArg \notin DB.unpackable
  BY DEF GetPackedObject
<1>2. /\ \A e : Finished(e)' = Finished(e)
      /\ NamedDestination' = NamedDestination /\ (NoInstance' <=> NoInstance)
  BY <1>1 DEF Finished, Collected, Header, ValueAsked, NamedDestination, NamedCommand, TypeAsked,
              MembersSet, SetsMember, Where, Latest, Indices, Given, NoInstance
<1>3. PICK e \in BOOLEAN : cmd' = Finished(e)'
  BY <1>1, <1>2, LooksUpTheLine
<1>4. NamedDestination'.inst = "" => NoInstance'
  BY <1>1, <1>2 DEF KeptInv, WhileParsing
<1>5. WhenAsked'
  BY <1>1, <1>3, <1>4 DEF WhenAsked
<1> QED
  BY <1>1, <1>5 DEF KeptInv, Status, WhileParsing, WhenRejected

\* The invariant holds at first,
LEMMA InitKept == Init => KeptInv
<1> SUFFICES ASSUME Init
             PROVE  KeptInv
  OBVIOUS
<1>1. argv = <<>> /\ argv \in Seq(ArgV) /\ argv \in Seq(Arg)
  BY DEF Init
<1>2. \A S : Where(argv, S) = {}
  BY <1>1 DEF Where
<1>3. /\ NamedDestination = NoName /\ NamedCommand = ""
      /\ \A m : ValueAsked(m) = IF m = "SeqFlag" THEN "3" ELSE "0"
  BY <1>1, <1>2, ReadByPlace
<1>4. Header = FreshBuf
  BY <1>3 DEF Header, FreshBuf
<1>5. FreshObject = Collected
  BY <1>3, <1>4 DEF FreshObject, Collected, Gathered, Sought, NoPayload, NoError
<1>6. NoParameter /\ NoInstance
  BY <1>1 DEF NoParameter, NoInstance, Indices
<1> QED
  BY <1>1, <1>5, <1>6 DEF Init, KeptInv, WhileParsing, WhenRejected, WhenAsked, Status

\* The steps, on a command line of any length.
Calls == (\E a \in ArgV : OptionsFirst(a) /\ ParseOption(a)) \/ HelpUsage \/ GetPackedObject

\* and every step keeps it.
LEMMA KeptStep ==
  ASSUME KeptInv, [Calls]_vars
  PROVE  KeptInv'
<1>1. CASE \E a \in ArgV : OptionsFirst(a) /\ ParseOption(a)
  BY <1>1, OptionKeepsInv, ParameterKeepsInv
<1>2. CASE HelpUsage
  BY <1>2, HelpKeepsInv
<1>3. CASE GetPackedObject
  BY <1>3, PackKeepsInv
<1>4. CASE UNCHANGED vars
  <2>1. UNCHANGED <<cmd, argv, status, packet, listing>>
    BY <1>4 DEF vars
  <2>2. /\ \A e : Finished(e)' = Finished(e)
        /\ Collected' = Collected /\ Header' = Header
        /\ NamedDestination' = NamedDestination /\ NamedCommand' = NamedCommand
    BY <2>1 DEF Finished, Collected, Header, ValueAsked, NamedDestination, NamedCommand, TypeAsked,
                MembersSet, SetsMember, Where, Latest, Indices, Given
  <2>3. (NoInstance' <=> NoInstance) /\ (NoParameter' <=> NoParameter)
    BY <2>1 DEF NoInstance, NoParameter, Indices
  <2>4. WhileParsing'
    BY <2>1, <2>2, <2>3 DEF KeptInv, WhileParsing
  <2>5. WhenRejected'
    BY <2>1, <2>2, <2>3 DEF KeptInv, WhenRejected
  <2>6. WhenAsked'
    BY <2>1, <2>2, <2>3 DEF KeptInv, WhenAsked, Listed
  <2> QED
    BY <2>1, <2>3, <2>4, <2>5, <2>6 DEF KeptInv
<1> QED
  BY <1>1, <1>2, <1>3, <1>4 DEF Calls

\* Why the encoder refuses a line: a byte order or a protocol there is not, a command
\* where none may be, or a destination behind one with an instance.
Refused(a) ==
    \/ a.id \in {"endian", "protocol"} /\ ~a.known
    \/ a.id = "pktapid" /\ a.cmd # ""
NamesInstance(a) == a.id \in DestinationIds /\ a.name.inst # ""
RefusalInv ==
    /\ status \in {"parsing", "packed", "refused"} => \A k \in DOMAIN argv : ~Refused(argv[k])
    /\ status = "rejected" => \E k \in DOMAIN argv : Refused(argv[k]) \/ NamesInstance(argv[k])

\* An argument is refused for itself or for the destination before it.
LEMMA RefusedFor ==
  ASSUME KeptInv, NEW a \in ArgV, OptionsFirst(a), ParseOption(a)
  PROVE  /\ status' \in {"parsing", "rejected"}
         /\ status' = "parsing" => ~Refused(a)
         /\ status' = "rejected" => Refused(a) \/ ~NoInstance
<1>1. status = "parsing" /\ a \in Arg /\ argv \in Seq(Arg)
  BY NamedTyped, EdsArgAssumption DEF KeptInv, ParseOption
<1>2. CASE ParseDestination(a)
  <2>1. a.id # "NONE" /\ a.id \in DestinationIds
    BY <1>2 DEF ParseDestination, DestinationIds
  <2>2. cmd = Collected
    BY <2>1, OptionCollected
  <2>3. cmd.DestIntf.inst # "" => ~NoInstance
    BY <1>1, <2>2, LastHasNoInstance DEF Collected, Gathered, Sought
  <2>4. Refused(a) <=> a.id = "pktapid" /\ a.cmd # ""
    BY <2>1 DEF Refused, DestinationIds
  <2>5. /\ cmd.DestIntf.inst # "" => status' = "rejected"
        /\ cmd.DestIntf.inst = "" => status' = IF a.cmd # "" /\ a.id = "pktapid" THEN "rejected" ELSE "parsing"
    BY <1>1, <1>2 DEF ParseDestination, ParseDestFullImpl, InstanceNumber, Invalid, Returns, Parsed
  <2> QED
    BY <2>3, <2>4, <2>5
<1>3. CASE ParseCommandCode(a) \/ ParseHeaderMember(a) \/ ParseParameter(a)
  <2>1. status' = "parsing"
    BY <1>1, <1>3 DEF ParseCommandCode, ParseHeaderMember, ParseParameter, Returns
  <2>2. ~Refused(a)
    BY <1>3 DEF ParseCommandCode, ParseHeaderMember, ParseParameter, Refused, CommandCodeIds, OptionMember
  <2> QED
    BY <2>1, <2>2
<1>4. CASE ParseSetting(a)
  BY <1>1, <1>4 DEF ParseSetting, Returns, Refused
<1> QED
  BY <1>2, <1>3, <1>4 DEF ParseOption

\* It refuses a line only for one of these, and none of the first two ever passes.
LEMMA RefusalStep ==
  ASSUME KeptInv, RefusalInv, [Calls]_vars
  PROVE  RefusalInv'
<1>1. ASSUME NEW a \in ArgV, OptionsFirst(a), ParseOption(a)
      PROVE  RefusalInv'
  <2>1. status = "parsing" /\ argv' = Append(argv, a) /\ argv \in Seq(Arg) /\ a \in Arg
    BY <1>1, NamedTyped, EdsArgAssumption DEF KeptInv, ParseOption
  <2>2. /\ DOMAIN argv' = DOMAIN argv \cup {Len(argv) + 1}
        /\ argv'[Len(argv) + 1] = a
        /\ \A k \in DOMAIN argv : argv'[k] = argv[k]
    BY <2>1, AppendProperties
  <2>3. CASE status' = "parsing"
    <3>1. ~Refused(a) /\ \A k \in DOMAIN argv : ~Refused(argv[k])
      BY <1>1, <2>1, <2>3, RefusedFor DEF RefusalInv
    <3>2. \A k \in DOMAIN argv' : ~Refused(argv'[k])
      BY <2>2, <3>1
    <3> QED
      BY <2>3, <3>2 DEF RefusalInv
  <2>4. CASE status' = "rejected"
    <3>1. Refused(a) \/ \E k \in DOMAIN argv : NamesInstance(argv[k])
      BY <1>1, <2>4, RefusedFor DEF NoInstance, Indices, NamesInstance
    <3>2. \E k \in DOMAIN argv' : Refused(argv'[k]) \/ NamesInstance(argv'[k])
      BY <2>2, <3>1
    <3> QED
      BY <2>4, <3>2 DEF RefusalInv
  <2> QED
    BY <1>1, <2>3, <2>4, RefusedFor
<1>2. CASE HelpUsage
  BY <1>2 DEF HelpUsage, RefusalInv
<1>3. CASE GetPackedObject
  BY <1>3 DEF GetPackedObject, RefusalInv
<1>4. CASE UNCHANGED vars
  BY <1>4 DEF vars, RefusalInv
<1> QED
  BY <1>1, <1>2, <1>3, <1>4 DEF Calls

LEMMA InitRefusal == Init => RefusalInv
BY DEF Init, RefusalInv

LEMMA KeptInvariant == Spec => []KeptInv
<1>1. Next => Calls
  BY DEF Next, Calls
<1> QED
  BY <1>1, InitKept, KeptStep, PTL DEF Spec

-----------------------------------------------------------------------------
(* The properties.                                                         *)

\* The object's part of TypeOK.
ObjectOK(c) ==
    /\ c.CmdName \in Texts
    /\ Numbered(c)
    /\ c.IntfState \in LookupState /\ c.PayloadState \in LookupState
    /\ c.PayloadError \in BOOLEAN
    /\ c.IntfEdsId \in Interfaces \cup {NoId}
    /\ {c.IntfArg, c.ActualArg, c.EdsPayloadInfo} \subseteq Types \cup {NoId}
    /\ c.Buf \in [HeaderMembers -> Values]

LEMMA GatheredTyped ==
  ASSUME NEW dest \in Names, NEW command \in Texts, NEW buf \in [HeaderMembers -> Values],
         NEW n \in {0, 1}, ForFirst(dest, n)
  PROVE  /\ ObjectOK(Gathered(dest, command, buf, n))
         /\ ObjectOK(CheckValidPayload(Gathered(dest, command, buf, n)))
<1> DEFINE c == CheckValidPayload(Gathered(dest, command, buf, n))
<1>1. ObjectOK(Gathered(dest, command, buf, n))
  BY DEF Gathered, Sought, ObjectOK, Numbered, LookupState, NoError
<1>2. KeptAnswer(c, dest, command, buf)
  BY LookupOutcome
<1> HIDE DEF c
<1>3. /\ c.IntfState \in LookupState /\ c.PayloadState \in LookupState
      /\ c.IntfEdsId \in Interfaces \cup {NoId}
      /\ {c.IntfArg, c.ActualArg, c.EdsPayloadInfo} \subseteq Types \cup {NoId}
      /\ c.Buf \in [HeaderMembers -> Values]
  BY <1>2, AnswerTyped
<1>4. c.CmdName = command /\ Numbered(c) /\ c.PayloadError \in BOOLEAN
  BY <1>2 DEF KeptAnswer, Untouched, NoError
<1> QED
  BY <1>1, <1>3, <1>4 DEF ObjectOK, c

LEMMA KeptTyped == KeptInv => TypeOK
<1> SUFFICES ASSUME KeptInv
             PROVE  TypeOK
  OBVIOUS
<1>1. argv \in Seq(ArgV) /\ NamedDestination \in Names /\ NamedCommand \in Texts
      /\ Header \in [HeaderMembers -> Values]
  BY NamedTyped DEF KeptInv
<1>2. \A e \in BOOLEAN : ObjectOK(Finished(e))
  <2> SUFFICES ASSUME NEW e \in BOOLEAN
               PROVE  ObjectOK(Finished(e))
    OBVIOUS
  <2> QED
    BY <1>1, FinishedFields DEF ObjectOK
<1>3. ObjectOK(Collected)
  BY <1>1, FirstOfAll, GatheredTyped DEF Collected
<1>4. ObjectOK(FreshObject)
  <2>1. FreshObject = Gathered(NoName, "", FreshBuf, 1)
    BY DEF FreshObject, Gathered, Sought, NoPayload, NoError
  <2>2. NoName \in Names /\ "" \in Texts /\ FreshBuf \in [HeaderMembers -> Values]
    BY DEF Names, Texts, FreshBuf, Values
  <2> QED
    BY <2>1, <2>2, FirstOfAll, GatheredTyped
<1>5. ObjectOK(cmd)
  <2>1. CASE status = "parsing"
    BY <1>2, <1>3, <2>1 DEF KeptInv, WhileParsing
  <2>2. CASE status = "rejected"
    BY <1>1, <2>2, GatheredTyped DEF KeptInv, WhenRejected
  <2>3. CASE status \in {"packed", "refused"}
    BY <1>2, <2>3 DEF KeptInv, WhenAsked
  <2>4. CASE status = "helped"
    BY <1>1, <1>2, <2>4, GatheredTyped DEF KeptInv, WhenAsked
  <2>5. CASE status = "crashed"
    BY <1>4, <2>5 DEF KeptInv
  <2> QED
    BY <2>1, <2>2, <2>3, <2>4, <2>5 DEF KeptInv, Status
<1>6. packet.type \in Types \cup {NoId}
  <2>1. CASE status = "packed"
    <3>1. packet = [type |-> cmd.ActualArg, hdr |-> cmd.Buf, payload |-> cmd.Payload]
      BY <2>1 DEF KeptInv, WhenAsked
    <3>2. packet.type = cmd.ActualArg
      BY <3>1
    <3> QED
      BY <1>5, <3>2 DEF ObjectOK
  <2>2. CASE status # "packed"
    BY <2>2 DEF KeptInv, NoPacket
  <2> QED
    BY <2>1, <2>2
<1>7. listing.of \in Types \cup {NoId}
  <2>1. CASE status = "helped"
    <3>1. listing = Listed(cmd)
      BY <2>1 DEF KeptInv, WhenAsked
    <3>2. Listed(cmd).of \in {NoId, cmd.EdsPayloadInfo, cmd.IntfArg, cmd.ActualArg}
      BY DEF Listed
    <3> QED
      BY <1>5, <3>1, <3>2 DEF ObjectOK
  <2>2. CASE status # "helped"
    BY <2>2 DEF KeptInv, NoListing
  <2> QED
    BY <2>1, <2>2
<1> QED
  BY <1>1, <1>5, <1>6, <1>7 DEF TypeOK, ObjectOK, Numbered, KeptInv

\* Types are right for every database, every set of arguments and any number of them:
\* no lookup leaves something else than what the database knows.
THEOREM TypesCorrect == Spec => []TypeOK
BY KeptInvariant, KeptTyped, PTL

LEMMA KeptNotStale == KeptInv => LookupNeverStale
<1> SUFFICES ASSUME KeptInv, status # "rejected", cmd.IntfState # "UNKNOWN", listing = NoListing
             PROVE  /\ cmd.IntfState = "SUCCESS" <=> TypeAsked # NoId
                    /\ cmd.IntfState = "SUCCESS" => cmd.ActualArg = TypeAsked
  BY DEF LookupNeverStale
<1>1. status # "helped"
  BY DEF KeptInv, WhenAsked, Listed, NoListing
<1>2. status # "crashed"
  <2>1. status = "crashed" => cmd = FreshObject
    BY DEF KeptInv
  <2>2. FreshObject.IntfState = "UNKNOWN"
    BY DEF FreshObject
  <2> QED
    BY <2>1, <2>2
<1>3. cmd # Collected
  BY DEF Collected, Gathered, Sought
<1>4. PICK e : cmd = Finished(e)
  BY <1>1, <1>2, <1>3 DEF KeptInv, WhileParsing, WhenAsked, Status
<1> QED
  BY <1>4, FinishedFields DEF KeptInv

\* What EDS_CheckValidIntf found out once, and never looks up again, is what the
\* command line stands for: no later option changes it.
THEOREM LookupsNeverStale == Spec => []LookupNeverStale
BY KeptInvariant, KeptNotStale, PTL

\* What a packet is made of.
LEMMA Packed ==
  ASSUME KeptInv, status = "packed"
  PROVE  /\ Usable(TypeAsked) /\ TypeAsked \notin DB.unpackable
         /\ packet.type = TypeAsked
         /\ packet.hdr = Initialized(Addressed(Header, MessageIdNamed(NamedDestination)), TypeAsked)
         /\ packet.payload = MembersSet(TypeAsked)
         /\ cmd.InstanceNumber = InstanceNamed(NamedDestination)
         /\ DB.unmap[MessageIdNamed(NamedDestination)].InstanceNumber = InstanceNamed(NamedDestination)
         /\ NoInstance
<1>1. PICK e \in BOOLEAN : cmd = Finished(e)
  BY DEF KeptInv, WhenAsked
<1>2. cmd.PayloadState = "SUCCESS" /\ cmd.ActualArg \notin DB.unpackable
  BY DEF KeptInv, WhenAsked
<1>3. Usable(TypeAsked)
  BY <1>1, <1>2, FinishedFields DEF KeptInv
<1>4. cmd.ActualArg = TypeAsked /\ cmd.InstanceNumber = InstanceNamed(NamedDestination)
      /\ cmd.Payload = MembersSet(TypeAsked)
      /\ cmd.Buf = Initialized(Addressed(Header, MessageIdNamed(NamedDestination)), TypeAsked)
  BY <1>1, <1>3, FinishedFields DEF KeptInv, Usable
<1>5. packet.type = cmd.ActualArg /\ packet.hdr = cmd.Buf /\ packet.payload = cmd.Payload
  <2>1. packet = [type |-> cmd.ActualArg, hdr |-> cmd.Buf, payload |-> cmd.Payload]
    BY DEF KeptInv, WhenAsked
  <2> QED
    BY <2>1
<1>6. NamedDestination \in Names /\ Reachable(NamedDestination)
  BY <1>3, NamedTyped, TypeNamedTyped DEF KeptInv, Usable, TypeAsked
<1>7. DB.unmap[MessageIdNamed(NamedDestination)].InstanceNumber = InstanceNamed(NamedDestination)
  BY <1>6, MessageIdTyped DEF Reachable
<1>8. NoInstance
  <2>1. NamedDestination.inst = ""
    BY <1>6, FoundIsNamed DEF Reachable
  <2> QED
    BY <2>1 DEF KeptInv, WhenAsked
<1> QED
  BY <1>2, <1>3, <1>4, <1>5, <1>7, <1>8

LEMMA KeptPacket == KeptInv => PacketIsTheCommandAsked
<1> SUFFICES ASSUME KeptInv
             PROVE  PacketIsTheCommandAsked
  OBVIOUS
<1>1. ASSUME status = "refused"
      PROVE  ~(Usable(TypeAsked) /\ TypeAsked \notin DB.unpackable)
  <2>1. PICK e \in BOOLEAN : cmd = Finished(e)
    BY <1>1 DEF KeptInv, WhenAsked
  <2>2. ~(cmd.PayloadState = "SUCCESS" /\ cmd.ActualArg \notin DB.unpackable)
    BY <1>1 DEF KeptInv, WhenAsked
  <2> QED
    BY <2>1, <2>2, FinishedFields DEF KeptInv, Usable
<1> QED
  BY <1>1, Packed DEF PacketIsTheCommandAsked

\* For every database and every command line: there is a packet exactly when destination
\* and command stand for a type that can be packed, and it is of that type.
THEOREM PacketsAreTheCommandAsked == Spec => []PacketIsTheCommandAsked
BY KeptInvariant, KeptPacket, PTL

LEMMA KeptHeader == KeptInv => HeaderAsAsked
<1> SUFFICES ASSUME KeptInv, status = "packed", NEW m \in HeaderMembers
             PROVE  packet.hdr[m] =
                      (CASE m \in DOMAIN DB.fixed[TypeAsked] -> DB.fixed[TypeAsked][m]
                         [] m \in DB.addressing \ DOMAIN DB.fixed[TypeAsked] -> MessageIdNamed(NamedDestination)
                         [] OTHER -> ValueAsked(m))
  BY DEF HeaderAsAsked
<1>1. packet.hdr = Initialized(Addressed(Header, MessageIdNamed(NamedDestination)), TypeAsked)
  BY Packed
<1>2. packet.hdr[m] = IF m \in DOMAIN DB.fixed[TypeAsked] THEN DB.fixed[TypeAsked][m]
                      ELSE IF m \in DB.addressing THEN MessageIdNamed(NamedDestination) ELSE ValueAsked(m)
  BY <1>1 DEF Initialized, Addressed, Header
<1> QED
  BY <1>2

\* Whatever options come before the lookups, every member of the header has the value that
\* was asked for last, its default, or the one the address and the type give it.
THEOREM HeadersAsAsked == Spec => []HeaderAsAsked
BY KeptInvariant, KeptHeader, PTL

LEMMA KeptPayload == KeptInv => PayloadAsAsked
<1> SUFFICES ASSUME KeptInv, status = "packed"
             PROVE  PayloadAsAsked
  BY DEF PayloadAsAsked
<1> DEFINE members == IF TypeAsked \in DOMAIN DB.payload THEN DB.payload[TypeAsked] ELSE {}
           Setters(m) == Given({"NONE"}, LAMBDA a : a.assigns /\ a.ok /\ a.member = m)
<1>1. \A m : Setters(m) = Where(argv, SetsMember(m))
  <2>1. argv \in Seq(Arg)
    BY NamedTyped DEF KeptInv
  <2> QED
    BY <2>1 DEF Given, Indices, Where, SetsMember
<1>2. packet.payload = MembersSet(TypeAsked) /\ Usable(TypeAsked)
  BY Packed
<1>3. packet.payload = [m \in {x \in members : Where(argv, SetsMember(x)) # {}} |-> Latest(argv, SetsMember(m)).val]
  BY <1>2 DEF MembersSet, MembersOf
<1> HIDE DEF members, Setters
<1>4. /\ DOMAIN packet.payload = {m \in members : Setters(m) # {}}
      /\ \A m \in DOMAIN packet.payload : packet.payload[m] = argv[Max(Setters(m))].val
  BY <1>1, <1>3 DEF Latest
<1> QED
  BY <1>4 DEF PayloadAsAsked, members, Setters

\* The members set in the packet are those of its type some argument set, with the last value
\* that could be read, however many arguments there are.
THEOREM PayloadsAsAsked == Spec => []PayloadAsAsked
BY KeptInvariant, KeptPayload, PTL

LEMMA KeptInstance == KeptInv => InstanceAsNamed
<1> SUFFICES ASSUME KeptInv, status = "packed"
             PROVE  InstanceAsNamed
  BY DEF InstanceAsNamed
<1>1. /\ cmd.InstanceNumber = InstanceNamed(NamedDestination)
      /\ DB.unmap[MessageIdNamed(NamedDestination)].InstanceNumber = InstanceNamed(NamedDestination)
      /\ packet.hdr = Initialized(Addressed(Header, MessageIdNamed(NamedDestination)), TypeAsked)
  BY Packed
<1>2. "StreamId" \notin DOMAIN DB.fixed[TypeAsked] => packet.hdr["StreamId"] = MessageIdNamed(NamedDestination)
  BY <1>1, DatabaseAssumption DEF Initialized, Addressed, HeaderMembers
<1> QED
  BY <1>1, <1>2 DEF InstanceAsNamed

\* For every database and every command line: a packet is for the instance that the destination
\* named last is for, by its message id or as the first one, and its address says so.
THEOREM InstancesAsNamed == Spec => []InstanceAsNamed
BY KeptInvariant, KeptInstance, PTL

LEMMA KeptHelp == KeptInv => HelpFitsTheCommandLine
<1> SUFFICES ASSUME KeptInv, status = "helped", NoInstance
             PROVE  HelpFitsTheCommandLine
  BY DEF HelpFitsTheCommandLine, NoInstance
<1>1. PICK e \in BOOLEAN : cmd = Finished(e)
  BY DEF KeptInv, WhenAsked
<1>2. listing = Listed(cmd)
  BY DEF KeptInv, WhenAsked
<1>3. /\ cmd.IntfEdsId = InterfaceNamed(NamedDestination)
      /\ cmd.EdsPayloadInfo = IF TypeAsked \in DOMAIN DB.payload \ DB.unknown THEN TypeAsked ELSE NoId
      /\ cmd.CmdName = NamedCommand
      /\ cmd.IntfArg = NoId \/ cmd.IntfArg = DB.argument[InterfaceNamed(NamedDestination)]
  BY <1>1, FinishedFields DEF KeptInv
<1>4. TypeAsked \in DOMAIN DB.payload => TypeAsked # NoId
  BY IdAssumption
<1>5. TypeAsked # NoId => InterfaceNamed(NamedDestination) # NoId
  <2>1. NamedDestination \in Names
    BY NamedTyped DEF KeptInv
  <2> QED
    BY <2>1, TypeNamedTyped DEF TypeAsked, Reachable
<1> QED
  BY <1>2, <1>3, <1>4, <1>5 DEF Listed, HelpFitsTheCommandLine

\* Help lists what the command line is about: the fields of the type a packet would be of,
\* the commands of the interface named, and the interfaces only if none was.
THEOREM HelpFits == Spec => []HelpFitsTheCommandLine
BY KeptInvariant, KeptHelp, PTL
=============================================================================
