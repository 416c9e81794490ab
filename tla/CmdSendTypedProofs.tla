------------------------- MODULE CmdSendTypedProofs -------------------------
(***************************************************************************)
(* Proofs about cmd_send as linked: what it does with the command line as  *)
(* typed, for any command line.  An encoder promises something about the   *)
(* arguments it was given; here they are traced back, through main's       *)
(* renaming and reordering, to the words of the user.                      *)
(***************************************************************************)
EXTENDS CmdSendSystemProofs

-----------------------------------------------------------------------------
(* From what an encoder was given to what was typed.                       *)

Argument(k) == Tokens(typed)[k] = "argument"
LoopOver == pc \notin {"count", "categorize", "instantiate", "parse", "failed"}

\* An encoder that is still good has seen the last of any words that are options, and
\* of any that are arguments, last of them.
LEMMA Moved ==
  ASSUME EncodersInv, LoopOver, NEW p \in IsOK,
         NEW B \in SUBSET M!ForEncoders, (\A k \in B : Argument(k)) \/ (\A k \in B : ~Argument(k)),
         NEW A, A = {n \in DOMAIN calls[p] : calls[p][n] \in B}
  PROVE  /\ A = {} <=> B = {}
         /\ A # {} => Max(A) \in A /\ calls[p][Max(A)] = Max(B)
<1>1. p \in {EdsParser, PassThruParser} /\ MainInv
  BY DEF EncodersInv, DatagramInv, PartsInv, MainInv, M!IInv, M!LoopTypeOK, M!Parsers, EdsParser, PassThruParser
<1>2. /\ calls[p] \in Seq(Nat) /\ \A n \in DOMAIN calls[p] : calls[p][n] \in M!ForEncoders
      /\ \A m, n \in DOMAIN calls[p] : m < n => M!Precedes(calls[p][m], calls[p][n])
  BY <1>1, CallsShape
<1>3. \A k \in M!ForEncoders : \E n \in DOMAIN calls[p] : calls[p][n] = k
  <2>1. M!EncodersSawEverything
    BY <1>1, PartsAssumptions, M!NothingMissed DEF MainInv
  <2>2. p \in M!Parsers
    BY <1>1 DEF M!Parsers, EdsParser, PassThruParser
  <2> QED
    BY <2>1, <2>2 DEF M!EncodersSawEverything, LoopOver
<1>4. B = {calls[p][n] : n \in A}
  BY <1>3
<1>5. \A m, n \in A : m < n => calls[p][m] < calls[p][n]
  BY <1>2 DEF M!Precedes, Argument
<1> QED
  BY <1>2, <1>4, <1>5, GreatestMoved

\* A word main keeps for itself says nothing to the EDS encoder, and the others say the same
\* as typed and as handed on.
LEMMA EdsTypedWords ==
  ASSUME typed \in Typed, NEW k \in DOMAIN typed
  PROVE  /\ k \notin M!ForEncoders => EdsTyped[k] = [id |-> "other"]
         /\ k \in M!ForEncoders =>
              \/ EdsTyped[k] = EdsWord(k)
              \/ EdsTyped[k].id = "cmdcode" /\ EdsWord(k).id = "pktfc" /\ EdsTyped[k].cmd = EdsWord(k).cmd
<1> DEFINE t == typed[k].token
<1>1. t \in M!LineTokens /\ (k \in M!ForEncoders <=> t \notin M!OwnOptions \cup {"unknown"})
  BY WordsAreTokens DEF M!ForEncoders
<1>2. KnownToEds = {"pktedsver", "pktid", "pktapid", "cmdcode", "pktfc", "pktpb", "pktseqflg", "pktseqcnt",
                    "pktendian", "pktsubsys", "pktver", "pktsys", "endian", "protocol", "NONE"}
  BY DEF KnownToEds, EDS!DestinationIds, EDS!CommandCodeIds, EDS!OptionMember
<1>3. EdsTyped[k] = IF MeantId(t) \in KnownToEds THEN Under(MeantId(t), typed[k].eds) ELSE [id |-> "other"]
  BY DEF EdsTyped
<1>4. EdsWord(k) = IF HandedId(t) \in EdsIds THEN Under(HandedId(t), typed[k].eds) ELSE [id |-> "other"]
  BY DEF EdsWord, EdsArg
<1> HIDE DEF t
<1>5. ASSUME k \notin M!ForEncoders
      PROVE  EdsTyped[k] = [id |-> "other"]
  BY <1>1, <1>2, <1>3, <1>5 DEF M!OwnOptions, MeantId
<1>6. ASSUME k \in M!ForEncoders, t # "cmdcode"
      PROVE  EdsTyped[k] = EdsWord(k)
  <2>1. HandedId(t) = IF t = "argument" THEN "NONE" ELSE IF t \in DOMAIN M!Renamed THEN M!Renamed[t] ELSE t
    BY <1>6, HandedIdIs DEF t
  <2>2. MeantId(t) = HandedId(t) \/ (MeantId(t) \notin KnownToEds /\ HandedId(t) \notin EdsIds)
    BY <1>2, <1>6, <2>1 DEF MeantId, EdsIds, M!Renamed
  <2>3. MeantId(t) \in KnownToEds <=> HandedId(t) \in EdsIds
    BY <1>2, <1>6, <2>1 DEF MeantId, EdsIds, M!Renamed
  <2> QED
    BY <1>3, <1>4, <2>2, <2>3
<1>7. ASSUME k \in M!ForEncoders, t = "cmdcode"
      PROVE  EdsTyped[k].id = "cmdcode" /\ EdsWord(k).id = "pktfc" /\ EdsTyped[k].cmd = EdsWord(k).cmd
  <2>1. HandedId(t) = "pktfc" /\ MeantId(t) = "cmdcode"
    BY <1>7, HandedIdIs DEF MeantId, M!Renamed, t
  <2>2. EdsTyped[k] = Under("cmdcode", typed[k].eds) /\ EdsWord(k) = Under("pktfc", typed[k].eds)
    BY <1>2, <1>3, <1>4, <2>1 DEF EdsIds
  <2>3. Under("cmdcode", typed[k].eds).cmd = Under("pktfc", typed[k].eds).cmd
    <3>1. "cmd" \in DOMAIN EdsWord(k)
      <4>1. EdsWord(k) \in EDS!Arg /\ EdsWord(k).id = "pktfc"
        BY <1>7, <2>2, HandedWord, UnderName
      <4>2. EdsWord(k) \in [id : EDS!CommandCodeIds, cmd : STRING]
        BY <4>1 DEF EDS!Arg, EDS!CommandCodeIds, EDS!DestinationIds, EDS!OptionMember
      <4> QED
        BY <4>2
    <3>2. "cmd" \in DOMAIN typed[k].eds
      BY <2>2, <3>1 DEF Under
    <3> QED
      BY <3>2 DEF Under
  <2> QED
    BY <2>2, <2>3, UnderName
<1> QED
  BY <1>5, <1>6, <1>7

\* The EDS encoder is still good and was given the whole line.
EdsSawTheLine == EncodersInv /\ LoopOver /\ EdsParser \in IsOK

\* What it finds under some of its arguments is what the words say.
LEMMA EdsReads ==
  ASSUME EdsSawTheLine,
         NEW B \in SUBSET M!ForEncoders, (\A k \in B : Argument(k)) \/ (\A k \in B : ~Argument(k)),
         NEW A \in SUBSET DOMAIN edsArgs,
         \A n \in DOMAIN edsArgs : \A k \in M!ForEncoders :
           edsArgs[n] = EdsWord(k) => (n \in A <=> k \in B)
  PROVE  /\ A = {} <=> B = {}
         /\ A # {} => Max(B) \in B /\ edsArgs[Max(A)] = EdsWord(Max(B))
<1> DEFINE s == calls[EdsParser]
<1>1. MainInv /\ edsArgs = [n \in DOMAIN s |-> EdsWords[s[n]]]
  BY DEF EdsSawTheLine, EncodersInv, DatagramInv, PartsInv, ArgsInv
<1>2. s \in Seq(Nat) /\ \A n \in DOMAIN s : s[n] \in M!ForEncoders
  BY <1>1, CallsShape
<1>3. DOMAIN edsArgs = DOMAIN s /\ \A n \in DOMAIN s : edsArgs[n] = EdsWord(s[n])
  BY <1>1, <1>2 DEF EdsWords
<1> HIDE DEF s
<1>4. A = {n \in DOMAIN s : s[n] \in B}
  BY <1>2, <1>3
<1>5. (A = {} <=> B = {}) /\ (A # {} => Max(A) \in A /\ s[Max(A)] = Max(B))
  BY <1>4, Moved DEF s, EdsSawTheLine
<1> QED
  BY <1>3, <1>4, <1>5

\* The arguments are among the words.
LEMMA EdsArgsAre ==
  ASSUME EdsSawTheLine
  PROVE  \A n \in DOMAIN edsArgs : \E k \in M!ForEncoders : edsArgs[n] = EdsWord(k)
<1> DEFINE s == calls[EdsParser]
<1>1. MainInv /\ edsArgs = [n \in DOMAIN s |-> EdsWords[s[n]]]
  BY DEF EdsSawTheLine, EncodersInv, DatagramInv, PartsInv, ArgsInv
<1>2. s \in Seq(Nat) /\ \A n \in DOMAIN s : s[n] \in M!ForEncoders
  BY <1>1, CallsShape
<1> QED
  BY <1>1, <1>2 DEF EdsWords

\* The words that an index of the typed line may be about.
LEMMA EdsTypedIndex ==
  ASSUME typed \in Typed, NEW k \in DOMAIN typed, EdsTyped[k].id # "other"
  PROVE  /\ k \in M!ForEncoders /\ EdsWord(k) \in EDS!Arg
         /\ EdsTyped[k] = EdsWord(k) \/ EdsTyped[k].id = "cmdcode"
         /\ EdsTyped[k].id = "NONE" <=> Argument(k)
<1>1. k \in M!ForEncoders
  BY EdsTypedWords
<1>2. /\ EdsTyped[k] = EdsWord(k) \/ (EdsTyped[k].id = "cmdcode" /\ EdsWord(k).id = "pktfc")
      /\ EdsWord(k) \in EDS!Arg /\ (EdsWord(k).id = "NONE" <=> Argument(k))
  BY <1>1, EdsTypedWords, HandedWord, EdsWordKind DEF Argument
<1> QED
  BY <1>1, <1>2

\* The destination as typed and as given,
LEMMA SameDestination ==
  ASSUME EdsSawTheLine
  PROVE  E!NamedDestination = EdsAsTyped!NamedDestination
<1> DEFINE B == EdsAsTyped!Indices(EDS!DestinationIds)
           A == E!Indices(EDS!DestinationIds)
<1>1. /\ B = {k \in DOMAIN typed : EdsTyped[k].id \in EDS!DestinationIds}
      /\ A = {n \in DOMAIN edsArgs : edsArgs[n].id \in EDS!DestinationIds}
  BY DEF EdsAsTyped!Indices, E!Indices, EdsTyped
<1>2. typed \in Typed /\ DOMAIN EdsTyped = DOMAIN typed
  BY DEF EdsSawTheLine, EncodersInv, EdsTyped
<1>3. \A k \in B : k \in M!ForEncoders /\ ~Argument(k) /\ EdsTyped[k] = EdsWord(k)
  BY <1>1, <1>2, EdsTypedIndex DEF EDS!DestinationIds
<1>4. \A k \in M!ForEncoders : k \in DOMAIN typed /\ (EdsWord(k).id \in EDS!DestinationIds => k \in B)
  BY <1>1, <1>2, HandedIdIs, EdsTypedWords DEF EDS!DestinationIds
<1>5. /\ E!NamedDestination = IF A = {} THEN E!NoName ELSE edsArgs[Max(A)].name
      /\ EdsAsTyped!NamedDestination = IF B = {} THEN E!NoName ELSE EdsTyped[Max(B)].name
  BY DEF E!NamedDestination, EdsAsTyped!NamedDestination, E!Max, EdsAsTyped!Max, Max, E!DestinationIds, EdsAsTyped!DestinationIds, EDS!DestinationIds, E!NoName, EdsAsTyped!NoName
<1> HIDE DEF A, B
<1>6. (A = {} <=> B = {}) /\ (A # {} => Max(B) \in B /\ edsArgs[Max(A)] = EdsWord(Max(B)))
  <2>1. \A k \in M!ForEncoders : k \in B <=> EdsWord(k).id \in EDS!DestinationIds
    BY <1>1, <1>3, <1>4
  <2>2. \A n \in DOMAIN edsArgs : \A k \in M!ForEncoders : edsArgs[n] = EdsWord(k) => (n \in A <=> k \in B)
    BY <1>1, <2>1
  <2>3. A \in SUBSET DOMAIN edsArgs /\ B \in SUBSET M!ForEncoders /\ \A k \in B : ~Argument(k)
    BY <1>1, <1>3
  <2> QED
    BY <2>2, <2>3, EdsReads
<1> QED
  BY <1>3, <1>5, <1>6

\* the command,
LEMMA SameCommand ==
  ASSUME EdsSawTheLine
  PROVE  E!NamedCommand = EdsAsTyped!NamedCommand
<1> DEFINE Names(a) == a.id \in EDS!CommandCodeIds \/ (a.id \in {"pktid", "pktedsver"} /\ a.cmd # "")
           B == {k \in DOMAIN typed : Names(EdsTyped[k])}
           A == {n \in DOMAIN edsArgs : Names(edsArgs[n])}
<1>1. typed \in Typed /\ DOMAIN EdsTyped = DOMAIN typed
  BY DEF EdsSawTheLine, EncodersInv, EdsTyped
<1>2. \A k \in DOMAIN typed : Names(EdsTyped[k]) =>
        /\ k \in M!ForEncoders /\ ~Argument(k)
        /\ Names(EdsWord(k)) /\ EdsTyped[k].cmd = EdsWord(k).cmd
  <2> SUFFICES ASSUME NEW k \in DOMAIN typed, Names(EdsTyped[k])
               PROVE  /\ k \in M!ForEncoders /\ ~Argument(k)
                      /\ Names(EdsWord(k)) /\ EdsTyped[k].cmd = EdsWord(k).cmd
    OBVIOUS
  <2>1. k \in M!ForEncoders /\ ~Argument(k)
    BY <1>1, EdsTypedIndex DEF EDS!CommandCodeIds
  <2> QED
    BY <1>1, <2>1, EdsTypedWords DEF EDS!CommandCodeIds
<1>3. \A k \in M!ForEncoders : k \in DOMAIN typed /\ (Names(EdsWord(k)) => k \in B)
  BY <1>1, HandedIdIs, EdsTypedWords DEF EDS!CommandCodeIds
<1>4. /\ E!NamedCommand = IF A = {} THEN "" ELSE edsArgs[Max(A)].cmd
      /\ EdsAsTyped!NamedCommand = IF B = {} THEN "" ELSE EdsTyped[Max(B)].cmd
  <2>1. E!Indices(EDS!CommandCodeIds) \cup {k \in E!Indices({"pktid", "pktedsver"}) : edsArgs[k].cmd # ""} = A
    BY DEF E!Indices
  <2>2. EdsAsTyped!Indices(EDS!CommandCodeIds)
          \cup {k \in EdsAsTyped!Indices({"pktid", "pktedsver"}) : EdsTyped[k].cmd # ""} = B
    BY <1>1 DEF EdsAsTyped!Indices
  <2>3. E!Max(A) = Max(A) /\ EdsAsTyped!Max(B) = Max(B)
    BY DEF E!Max, EdsAsTyped!Max, Max
  <2>4. E!CommandCodeIds = EDS!CommandCodeIds /\ EdsAsTyped!CommandCodeIds = EDS!CommandCodeIds
    BY DEF E!CommandCodeIds, EdsAsTyped!CommandCodeIds, EDS!CommandCodeIds
  <2> HIDE DEF A, B
  <2>5. E!NamedCommand = IF A = {} THEN "" ELSE edsArgs[E!Max(A)].cmd
    BY <2>1, <2>4 DEF E!NamedCommand
  <2>6. EdsAsTyped!NamedCommand = IF B = {} THEN "" ELSE EdsTyped[EdsAsTyped!Max(B)].cmd
    BY <2>2, <2>4 DEF EdsAsTyped!NamedCommand
  <2> QED
    BY <2>3, <2>5, <2>6
<1>5. (A = {} <=> B = {}) /\ (A # {} => Max(B) \in B /\ edsArgs[Max(A)] = EdsWord(Max(B)))
  <2>1. \A k \in M!ForEncoders : k \in B <=> Names(EdsWord(k))
    BY <1>2, <1>3
  <2>2. \A n \in DOMAIN edsArgs : \A k \in M!ForEncoders : edsArgs[n] = EdsWord(k) => (n \in A <=> k \in B)
    BY <2>1
  <2>3. A \in SUBSET DOMAIN edsArgs /\ B \in SUBSET M!ForEncoders /\ \A k \in B : ~Argument(k)
    BY <1>2
  <2> HIDE DEF A, B
  <2> QED
    BY <2>2, <2>3, EdsReads
<1>6. \A k \in B : EdsTyped[k].cmd = EdsWord(k).cmd
  BY <1>2
<1> HIDE DEF A, B
<1> QED
  BY <1>4, <1>5, <1>6

\* the values of the header
LEMMA SameValues ==
  ASSUME EdsSawTheLine, NEW m
  PROVE  E!ValueAsked(m) = EdsAsTyped!ValueAsked(m)
<1> DEFINE ids == {id \in DOMAIN EDS!OptionMember : EDS!OptionMember[id] = m}
           B == {k \in DOMAIN typed : EdsTyped[k].id \in ids /\ EdsTyped[k].ok}
           A == {n \in DOMAIN edsArgs : edsArgs[n].id \in ids /\ edsArgs[n].ok}
<1>0. "cmdcode" \notin ids /\ "pktfc" \notin ids /\ "other" \notin ids /\ "NONE" \notin ids
  BY DEF EDS!OptionMember
<1>0a. /\ ids = {id \in DOMAIN E!OptionMember : E!OptionMember[id] = m}
       /\ ids = {id \in DOMAIN EdsAsTyped!OptionMember : EdsAsTyped!OptionMember[id] = m}
  BY DEF EDS!OptionMember, E!OptionMember, EdsAsTyped!OptionMember
<1> HIDE DEF ids
<1>1. typed \in Typed /\ DOMAIN EdsTyped = DOMAIN typed
  BY DEF EdsSawTheLine, EncodersInv, EdsTyped
<1>2. \A k \in DOMAIN typed : EdsTyped[k].id \in ids =>
        k \in M!ForEncoders /\ ~Argument(k) /\ EdsTyped[k] = EdsWord(k)
  BY <1>0, <1>1, EdsTypedIndex
<1>3. \A k \in M!ForEncoders : k \in DOMAIN typed /\ (EdsWord(k).id \in ids => EdsTyped[k] = EdsWord(k))
  BY <1>0, <1>1, HandedIdIs, EdsTypedWords
<1>4. /\ E!ValueAsked(m) = IF A # {} THEN edsArgs[Max(A)].val ELSE IF m = "SeqFlag" THEN "3" ELSE "0"
      /\ EdsAsTyped!ValueAsked(m) =
           IF B # {} THEN EdsTyped[Max(B)].val ELSE IF m = "SeqFlag" THEN "3" ELSE "0"
  <2>1. E!Given(ids, LAMBDA a : a.ok) = A
    BY DEF E!Given, E!Indices
  <2>2. EdsAsTyped!Given(ids, LAMBDA a : a.ok) = B
    BY <1>1 DEF EdsAsTyped!Given, EdsAsTyped!Indices
  <2>3. E!Max(A) = Max(A) /\ EdsAsTyped!Max(B) = Max(B)
    BY DEF E!Max, EdsAsTyped!Max, Max
  <2> HIDE DEF A, B
  <2>4. E!ValueAsked(m) = IF A # {} THEN edsArgs[E!Max(A)].val ELSE IF m = "SeqFlag" THEN "3" ELSE "0"
    BY <1>0a, <2>1 DEF E!ValueAsked
  <2>5. EdsAsTyped!ValueAsked(m) =
          IF B # {} THEN EdsTyped[EdsAsTyped!Max(B)].val ELSE IF m = "SeqFlag" THEN "3" ELSE "0"
    BY <1>0a, <2>2 DEF EdsAsTyped!ValueAsked
  <2> QED
    BY <2>3, <2>4, <2>5
<1>5. (A = {} <=> B = {}) /\ (A # {} => Max(B) \in B /\ edsArgs[Max(A)] = EdsWord(Max(B)))
  <2>1. \A k \in M!ForEncoders : k \in B <=> EdsWord(k).id \in ids /\ EdsWord(k).ok
    BY <1>2, <1>3
  <2>2. \A n \in DOMAIN edsArgs : \A k \in M!ForEncoders : edsArgs[n] = EdsWord(k) => (n \in A <=> k \in B)
    BY <2>1
  <2>3. A \in SUBSET DOMAIN edsArgs /\ B \in SUBSET M!ForEncoders /\ \A k \in B : ~Argument(k)
    BY <1>2
  <2> HIDE DEF A, B
  <2> QED
    BY <2>2, <2>3, EdsReads
<1>6. \A k \in B : EdsTyped[k] = EdsWord(k)
  BY <1>2
<1> HIDE DEF A, B
<1> QED
  BY <1>4, <1>5, <1>6

\* and of the members.
Assigns(a, m) == a.id = "NONE" /\ a.assigns /\ a.ok /\ a.member = m

LEMMA SameSetters ==
  ASSUME EdsSawTheLine, NEW m,
         NEW A, A = {n \in DOMAIN edsArgs : Assigns(edsArgs[n], m)},
         NEW B, B = {k \in DOMAIN typed : Assigns(EdsTyped[k], m)}
  PROVE  (A = {} <=> B = {}) /\ (A # {} => edsArgs[Max(A)].val = EdsTyped[Max(B)].val)
<1>1. typed \in Typed /\ DOMAIN EdsTyped = DOMAIN typed
  BY DEF EdsSawTheLine, EncodersInv, EdsTyped
<1>2. \A k \in B : k \in M!ForEncoders /\ Argument(k) /\ EdsTyped[k] = EdsWord(k)
  BY <1>1, EdsTypedIndex DEF Assigns
<1>3. \A k \in M!ForEncoders : k \in DOMAIN typed /\ (EdsWord(k).id = "NONE" => EdsTyped[k] = EdsWord(k))
  BY <1>1, HandedIdIs, EdsTypedWords
<1>4. (A = {} <=> B = {}) /\ (A # {} => Max(B) \in B /\ edsArgs[Max(A)] = EdsWord(Max(B)))
  <2>1. \A k \in M!ForEncoders : k \in B <=> Assigns(EdsWord(k), m)
    BY <1>2, <1>3 DEF Assigns
  <2>2. \A n \in DOMAIN edsArgs : \A k \in M!ForEncoders : edsArgs[n] = EdsWord(k) => (n \in A <=> k \in B)
    BY <2>1
  <2>3. A \in SUBSET DOMAIN edsArgs
    OBVIOUS
  <2>4. B \in SUBSET M!ForEncoders
    BY <1>2
  <2>5. (\A k \in B : Argument(k)) \/ (\A k \in B : ~Argument(k))
    BY <1>2
  <2> QED
    BY <2>2, <2>3, <2>4, <2>5, EdsReads
<1> QED
  BY <1>2, <1>4

-----------------------------------------------------------------------------
(* The command as typed.                                                   *)

\* The database is read alike.
LEMMA SameLookups ==
  /\ E!NoId = EdsAsTyped!NoId
  /\ \A name : E!InterfaceNamed(name) = EdsAsTyped!InterfaceNamed(name)
  /\ \A name : E!InstanceNamed(name) = EdsAsTyped!InstanceNamed(name)
  /\ \A name : E!MessageIdNamed(name) = EdsAsTyped!MessageIdNamed(name)
  /\ \A name, command : E!TypeNamed(name, command) = EdsAsTyped!TypeNamed(name, command)
  /\ \A t : E!Usable(t) <=> EdsAsTyped!Usable(t)
<1>1. E!NoId = EdsAsTyped!NoId
  BY DEF E!NoId, EdsAsTyped!NoId
<1>2. \A name : /\ E!Find(name) = EdsAsTyped!Find(name)
                /\ E!IsNumeric(name) <=> EdsAsTyped!IsNumeric(name)
  BY <1>1 DEF E!Find, EdsAsTyped!Find, E!IsNumeric, EdsAsTyped!IsNumeric
<1>3. \A intf, call : E!Fails(intf, call) <=> EdsAsTyped!Fails(intf, call)
  BY DEF E!Fails, EdsAsTyped!Fails
<1>4. \A name : E!InterfaceNamed(name) = EdsAsTyped!InterfaceNamed(name)
  <2>1. \A t : E!InterfaceOfTopic(t) = EdsAsTyped!InterfaceOfTopic(t)
    BY <1>1 DEF E!InterfaceOfTopic, EdsAsTyped!InterfaceOfTopic
  <2> QED
    BY <1>1, <1>2, <2>1 DEF E!InterfaceNamed, EdsAsTyped!InterfaceNamed
<1>5. \A name : E!Reachable(name) <=> EdsAsTyped!Reachable(name)
  BY <1>1, <1>2, <1>3, <1>4, Zenon DEF E!Reachable, EdsAsTyped!Reachable
<1>9. \A name : E!InstanceNamed(name) = EdsAsTyped!InstanceNamed(name)
  BY <1>2 DEF E!InstanceNamed, EdsAsTyped!InstanceNamed, E!GetInstanceNumber, EdsAsTyped!GetInstanceNumber
<1>10. \A name : E!MessageIdNamed(name) = EdsAsTyped!MessageIdNamed(name)
  BY <1>2, <1>4, <1>9 DEF E!MessageIdNamed, EdsAsTyped!MessageIdNamed, E!Params, EdsAsTyped!Params
<1>6. \A S : E!Min(S) = EdsAsTyped!Min(S)
  BY Zenon DEF E!Min, EdsAsTyped!Min
<1>7. \A name, command : E!TypeNamed(name, command) = EdsAsTyped!TypeNamed(name, command)
  BY <1>1, <1>4, <1>5, <1>6 DEF E!TypeNamed, EdsAsTyped!TypeNamed, E!TypeWithin, EdsAsTyped!TypeWithin
<1>8. \A t : E!Usable(t) <=> EdsAsTyped!Usable(t)
  BY <1>1 DEF E!Usable, EdsAsTyped!Usable
<1> QED
  BY <1>1, <1>4, <1>7, <1>8, <1>9, <1>10

\* The type asked for is the same.
LEMMA SameType ==
  ASSUME EdsSawTheLine
  PROVE  E!TypeAsked = EdsAsTyped!TypeAsked
BY SameLookups, SameDestination, SameCommand DEF E!TypeAsked, EdsAsTyped!TypeAsked

\* What is sent of the EDS encoder, it made of the whole line.
LEMMA EdsMadeIt ==
  ASSUME EncodersInv, ReadyToSend, bufOwner = EdsParser
  PROVE  EdsSawTheLine /\ edsStatus = "packed"
<1>1. bufOwner \in IsOK /\ packed = {bufOwner}
  BY DEF ReadyToSend, EncodersInv, DatagramInv, PartsInv, MainInv, M!IInv, M!BufferHoldsThePacket
<1>2. edsStatus = "packed"
  BY <1>1 DEF EncodersInv, DatagramInv
<1> QED
  BY <1>1, <1>2 DEF EdsSawTheLine, LoopOver, ReadyToSend

\* The promise of the encoder is kept for the line as typed.
LEMMA PacketKept == EncodersInv => EdsPacketAsTyped
<1> SUFFICES ASSUME EncodersInv, ReadyToSend, bufOwner = EdsParser
             PROVE  /\ EdsAsTyped!PacketIsTheCommandAsked
                    /\ EdsAsTyped!HeaderAsAsked /\ EdsAsTyped!PayloadAsAsked
                    /\ EdsAsTyped!InstanceAsNamed
  BY DEF EdsPacketAsTyped
<1>1. EdsSawTheLine /\ edsStatus = "packed" /\ E!KeptInv
  BY EdsMadeIt DEF EncodersInv
<1>2. /\ E!TypeAsked = EdsAsTyped!TypeAsked
      /\ E!NamedDestination = EdsAsTyped!NamedDestination
  BY <1>1, SameType, SameDestination
<1>3. EdsAsTyped!PacketIsTheCommandAsked
  <2>1. E!PacketIsTheCommandAsked
    BY <1>1, EdsAssumptions, E!KeptPacket
  <2> QED
    BY <1>2, <2>1, SameLookups DEF E!PacketIsTheCommandAsked, EdsAsTyped!PacketIsTheCommandAsked
<1>4. EdsAsTyped!HeaderAsAsked
  <2>1. E!HeaderAsAsked
    BY <1>1, EdsAssumptions, E!KeptHeader
  <2>2. E!HeaderMembers = EdsAsTyped!HeaderMembers
    BY DEF E!HeaderMembers, EdsAsTyped!HeaderMembers, E!OptionMember, EdsAsTyped!OptionMember, E!Range, EdsAsTyped!Range
  <2>3. \A m : E!ValueAsked(m) = EdsAsTyped!ValueAsked(m)
    BY <1>1, SameValues
  <2>4. E!MessageIdNamed(E!NamedDestination) = EdsAsTyped!MessageIdNamed(EdsAsTyped!NamedDestination)
    BY <1>2, SameLookups
  <2> QED
    BY <1>1, <1>2, <2>1, <2>2, <2>3, <2>4 DEF E!HeaderAsAsked, EdsAsTyped!HeaderAsAsked
<1>5. EdsAsTyped!PayloadAsAsked
  <2>1. E!PayloadAsAsked
    BY <1>1, EdsAssumptions, E!KeptPayload
  <2> DEFINE Given(m) == {n \in DOMAIN edsArgs : Assigns(edsArgs[n], m)}
             AsTyped(m) == {k \in DOMAIN typed : Assigns(EdsTyped[k], m)}
             members == IF E!TypeAsked \in DOMAIN DB.payload THEN DB.payload[E!TypeAsked] ELSE {}
  <2>2. \A m : E!Given({"NONE"}, LAMBDA a : a.assigns /\ a.ok /\ a.member = m) = Given(m)
    BY DEF E!Given, E!Indices, Assigns
  <2>3. \A m : EdsAsTyped!Given({"NONE"}, LAMBDA a : a.assigns /\ a.ok /\ a.member = m) = AsTyped(m)
    <3>1. DOMAIN EdsTyped = DOMAIN typed
      BY DEF EdsTyped
    <3> QED
      BY <3>1 DEF EdsAsTyped!Given, EdsAsTyped!Indices, Assigns
  <2>4. \A S : E!Max(S) = Max(S) /\ EdsAsTyped!Max(S) = Max(S)
    BY Zenon DEF E!Max, EdsAsTyped!Max, Max
  <2>5. \A m : /\ Given(m) = {} <=> AsTyped(m) = {}
               /\ Given(m) # {} => edsArgs[Max(Given(m))].val = EdsTyped[Max(AsTyped(m))].val
    BY <1>1, SameSetters
  <2> HIDE DEF Given, AsTyped
  <2>6. /\ DOMAIN edsPacket.payload = {m \in members : Given(m) # {}}
        /\ \A m \in DOMAIN edsPacket.payload : edsPacket.payload[m] = edsArgs[Max(Given(m))].val
    <3> DEFINE Setters(m) == E!Given({"NONE"}, LAMBDA a : a.assigns /\ a.ok /\ a.member = m)
    <3>1. /\ DOMAIN edsPacket.payload = {m \in members : Setters(m) # {}}
          /\ \A m \in DOMAIN edsPacket.payload : edsPacket.payload[m] = edsArgs[E!Max(Setters(m))].val
      BY <1>1, <2>1, Zenon DEF E!PayloadAsAsked
    <3>2. \A m : Setters(m) = Given(m)
      BY <2>2
    <3> HIDE DEF Setters
    <3> QED
      BY <2>4, <3>1, <3>2
  <2>7. /\ DOMAIN edsPacket.payload = {m \in members : AsTyped(m) # {}}
        /\ \A m \in DOMAIN edsPacket.payload : edsPacket.payload[m] = EdsTyped[Max(AsTyped(m))].val
    BY <2>5, <2>6
  <2> QED
    BY <1>1, <1>2, <2>3, <2>4, <2>7 DEF EdsAsTyped!PayloadAsAsked
<1>6. EdsAsTyped!InstanceAsNamed
  <2>1. E!InstanceAsNamed
    BY <1>1, EdsAssumptions, E!KeptInstance
  <2>2. E!InstanceNamed(E!NamedDestination) = EdsAsTyped!InstanceNamed(EdsAsTyped!NamedDestination)
    BY <1>2, SameLookups
  <2> QED
    BY <1>1, <1>2, <2>1, <2>2 DEF E!InstanceAsNamed, EdsAsTyped!InstanceAsNamed
<1> QED
  BY <1>3, <1>4, <1>5, <1>6

\* Whatever is typed in whatever order, a packet the EDS encoder has sent is the command the
\* line names, for the instance it names, with the header and the members the line sets.
THEOREM EdsPacketsAsTyped == Spec => []EdsPacketAsTyped
BY EncodersInvariance, PacketKept, PTL

-----------------------------------------------------------------------------
(* The instances typed, help, and which encoder is asked.                  *)

\* An instance is among the arguments if one was typed.
LEMMA SameInstances ==
  ASSUME EdsSawTheLine
  PROVE  E!NoInstance <=> \A k \in EdsAsTyped!Indices(EdsAsTyped!DestinationIds) : EdsTyped[k].name.inst = ""
<1> DEFINE B == {k \in DOMAIN typed : EdsTyped[k].id \in EDS!DestinationIds /\ EdsTyped[k].name.inst # ""}
           A == {n \in DOMAIN edsArgs : edsArgs[n].id \in EDS!DestinationIds /\ edsArgs[n].name.inst # ""}
<1>1. typed \in Typed /\ DOMAIN EdsTyped = DOMAIN typed
  BY DEF EdsSawTheLine, EncodersInv, EdsTyped
<1>2. /\ E!NoInstance <=> A = {}
      /\ (\A k \in EdsAsTyped!Indices(EdsAsTyped!DestinationIds) : EdsTyped[k].name.inst = "") <=> B = {}
  BY <1>1 DEF E!NoInstance, E!Indices, EdsAsTyped!Indices, E!DestinationIds, EdsAsTyped!DestinationIds,
              EDS!DestinationIds
<1>3. \A k \in B : k \in M!ForEncoders /\ ~Argument(k) /\ EdsTyped[k] = EdsWord(k)
  BY <1>1, EdsTypedIndex DEF EDS!DestinationIds
<1>4. \A k \in M!ForEncoders : k \in DOMAIN typed /\ (EdsWord(k).id \in EDS!DestinationIds => EdsTyped[k] = EdsWord(k))
  BY <1>1, HandedIdIs, EdsTypedWords DEF EDS!DestinationIds
<1>5. \A k \in M!ForEncoders : k \in B <=> EdsWord(k).id \in EDS!DestinationIds /\ EdsWord(k).name.inst # ""
  BY <1>3, <1>4
<1>6. A = {} <=> B = {}
  <2>1. \A n \in DOMAIN edsArgs : \A k \in M!ForEncoders : edsArgs[n] = EdsWord(k) => (n \in A <=> k \in B)
    BY <1>5
  <2>2. A \in SUBSET DOMAIN edsArgs /\ B \in SUBSET M!ForEncoders /\ \A k \in B : ~Argument(k)
    BY <1>3
  <2> HIDE DEF A, B
  <2> QED
    BY <2>1, <2>2, EdsReads
<1> QED
  BY <1>2, <1>6

\* The help is about the line as typed.
LEMMA HelpKept == EncodersInv => HelpAsTyped
<1> SUFFICES ASSUME EncodersInv, EdsParser \in IsOK, edsStatus = "helped",
                    \A k \in EdsAsTyped!Indices(EdsAsTyped!DestinationIds) : EdsTyped[k].name.inst = ""
             PROVE  EdsAsTyped!HelpFitsTheCommandLine
  BY DEF HelpAsTyped, EdsAsTyped!HelpFitsTheCommandLine
<1>1. EdsSawTheLine
  BY DEF EdsSawTheLine, LoopOver, EncodersInv, StatusInv
<1>2. E!NoInstance
  BY <1>1, SameInstances
<1>3. E!HelpFitsTheCommandLine
  BY EdsAssumptions, E!KeptHelp DEF EncodersInv
<1>4. /\ E!TypeAsked = EdsAsTyped!TypeAsked
      /\ E!NamedDestination = EdsAsTyped!NamedDestination
      /\ E!NamedCommand = EdsAsTyped!NamedCommand
      /\ E!InterfaceNamed(E!NamedDestination) = EdsAsTyped!InterfaceNamed(EdsAsTyped!NamedDestination)
      /\ E!NoId = EdsAsTyped!NoId
  BY <1>1, SameType, SameDestination, SameCommand, SameLookups
<1> QED
  BY <1>2, <1>3, <1>4 DEF E!HelpFitsTheCommandLine, EdsAsTyped!HelpFitsTheCommandLine, E!NoInstance

\* Whatever is typed in whatever order, the help of an EDS encoder that refused nothing
\* is about that line.
THEOREM HelpIsAsTyped == Spec => []HelpAsTyped
BY EncodersInvariance, HelpKept, PTL

\* What the encoder refuses of its arguments was typed.
LEMMA RefusedWasTyped ==
  ASSUME EncodersInv,
         NEW n \in DOMAIN edsArgs, E!Refused(edsArgs[n]) \/ E!NamesInstance(edsArgs[n])
  PROVE  \E k \in DOMAIN EdsTyped : EdsRefuses(EdsTyped[k])
<1>1. typed \in Typed /\ DOMAIN EdsTyped = DOMAIN typed
  BY DEF EncodersInv, EdsTyped
<1>2. PICK k \in M!ForEncoders : edsArgs[n] = EdsWord(k)
  <2> DEFINE s == calls[EdsParser]
  <2>1. MainInv /\ edsArgs = [m \in DOMAIN s |-> EdsWords[s[m]]]
    BY DEF EncodersInv, DatagramInv, PartsInv, ArgsInv
  <2>2. \A m \in DOMAIN s : s[m] \in M!ForEncoders
    BY <2>1, CallsShape
  <2> QED
    BY <2>1, <2>2 DEF EdsWords
<1>3. EdsWord(k).id \in EDS!DestinationIds \cup {"endian", "protocol"} /\ EdsRefuses(EdsWord(k))
  BY <1>2 DEF E!Refused, E!NamesInstance, E!DestinationIds, EDS!DestinationIds, EdsRefuses
<1>4. k \in DOMAIN typed /\ EdsTyped[k] = EdsWord(k)
  BY <1>1, <1>3, HandedIdIs, EdsTypedWords DEF EDS!DestinationIds
<1> QED
  BY <1>1, <1>3, <1>4

\* An encoder that made its packet refused nothing typed.
LEMMA NothingToRefuse ==
  ASSUME EdsSawTheLine, edsStatus = "packed"
  PROVE  \A k \in DOMAIN EdsTyped : ~EdsRefuses(EdsTyped[k])
<1> SUFFICES ASSUME NEW k \in DOMAIN EdsTyped, EdsRefuses(EdsTyped[k])
             PROVE  FALSE
  OBVIOUS
<1>1. typed \in Typed /\ DOMAIN EdsTyped = DOMAIN typed /\ k \in DOMAIN typed
  BY DEF EdsSawTheLine, EncodersInv, EdsTyped
<1>2. EdsTyped[k].id \in EDS!DestinationIds \cup {"endian", "protocol"}
  BY DEF EdsRefuses, EDS!DestinationIds
<1>3. k \in M!ForEncoders /\ EdsTyped[k] = EdsWord(k)
  BY <1>1, <1>2, EdsTypedIndex DEF EDS!DestinationIds
<1>4. \E n \in DOMAIN edsArgs : edsArgs[n] = EdsWord(k)
  <2> DEFINE B == {x \in M!ForEncoders : EdsWord(x) = EdsWord(k)}
             A == {n \in DOMAIN edsArgs : edsArgs[n] = EdsWord(k)}
  <2>1. \A x \in B : Argument(x) <=> EdsWord(k).id = "NONE"
    BY <1>1, EdsWordKind DEF Argument
  <2>2. (\A x \in B : Argument(x)) \/ (\A x \in B : ~Argument(x))
    BY <2>1
  <2>3. \A n \in DOMAIN edsArgs : \A x \in M!ForEncoders : edsArgs[n] = EdsWord(x) => (n \in A <=> x \in B)
    OBVIOUS
  <2>4. A \in SUBSET DOMAIN edsArgs /\ B \in SUBSET M!ForEncoders /\ k \in B
    BY <1>3
  <2>5. ASSUME A # {} PROVE \E n \in DOMAIN edsArgs : edsArgs[n] = EdsWord(k)
    BY <2>5
  <2> HIDE DEF A, B
  <2>6. A = {} <=> B = {}
    BY <2>2, <2>3, <2>4, EdsReads
  <2> QED
    BY <2>4, <2>5, <2>6
<1>5. \/ E!Refused(EdsWord(k))
      \/ EdsWord(k).id \in EDS!DestinationIds /\ EdsWord(k).name.inst # ""
  BY <1>3 DEF E!Refused, EdsRefuses
<1>6. /\ \A n \in DOMAIN edsArgs : ~E!Refused(edsArgs[n])
      /\ \A n \in DOMAIN edsArgs : edsArgs[n].id \in EDS!DestinationIds => edsArgs[n].name.inst = ""
  <2>1. E!NoInstance
    BY EdsAssumptions, E!Packed DEF EdsSawTheLine, EncodersInv
  <2>2. E!DestinationIds = EDS!DestinationIds
    BY DEF E!DestinationIds, EDS!DestinationIds
  <2> QED
    BY <2>1, <2>2 DEF EdsSawTheLine, EncodersInv, E!RefusalInv, E!NoInstance, E!Indices
<1> QED
  BY <1>4, <1>5, <1>6

\* The pass-through encoder is only asked for what the EDS encoder cannot make.
LEMMA EdsAskedFirst == EncodersInv => EdsGoesFirst
<1> SUFFICES ASSUME EncodersInv, ReadyToSend
             PROVE  bufOwner = EdsParser <=> EdsCanMakeIt
  BY DEF EdsGoesFirst
<1>1. /\ packed = {bufOwner} /\ bufOwner \in {EdsParser, PassThruParser}
      /\ EdsParser \in packed <=> edsStatus = "packed"
  BY DEF ReadyToSend, EncodersInv, DatagramInv, PartsInv, MainInv, M!IInv, M!BufferHoldsThePacket
<1>2. ASSUME bufOwner = EdsParser PROVE EdsCanMakeIt
  <2>1. EdsSawTheLine /\ edsStatus = "packed"
    BY <1>2, EdsMadeIt
  <2>2. E!Usable(E!TypeAsked) /\ E!TypeAsked \notin DB.unpackable
    BY <2>1, EdsAssumptions, E!Packed DEF EncodersInv
  <2> QED
    BY <2>1, <2>2, NothingToRefuse, SameType, SameLookups DEF EdsCanMakeIt
<1>3. ASSUME EdsCanMakeIt, bufOwner # EdsParser PROVE FALSE
  <2>1. edsStatus \in {"refused", "rejected"}
    BY <1>1, <1>3 DEF EncodersInv, StatusInv, ReadyToSend
  <2>2. edsStatus # "rejected"
    BY <1>3, RefusedWasTyped DEF EncodersInv, E!RefusalInv, EdsCanMakeIt
  <2>3. EdsSawTheLine
    BY <2>1, <2>2 DEF EncodersInv, StatusInv, ReadyToSend, EdsSawTheLine, LoopOver
  <2>4. ~(E!Usable(E!TypeAsked) /\ E!TypeAsked \notin DB.unpackable)
    BY <2>1, <2>2, EdsAssumptions, E!KeptPacket DEF EncodersInv, E!PacketIsTheCommandAsked
  <2> QED
    BY <1>3, <2>3, <2>4, SameType, SameLookups DEF EdsCanMakeIt
<1> QED
  BY <1>2, <1>3

\* Whatever is typed in whatever order, the pass-through encoder has its packet sent only
\* when the EDS encoder cannot make one of the line.
THEOREM EdsIsAskedFirst == Spec => []EdsGoesFirst
BY EncodersInvariance, EdsAskedFirst, PTL
-----------------------------------------------------------------------------
(* The words of the pass-through encoder.                                  *)

\* The options the properties of the pass-through encoder name one by one.
Spoken == P!Overridable \cup {"string", "endian", "protocol"}

\* Two arguments that mean the same.
Alike(a, w) ==
    /\ a.id \in P!FieldIds <=> w.id \in P!FieldIds
    /\ a.id \in P!FieldIds => P!FieldOf[a.id] = P!FieldOf[w.id] /\ a.val = w.val
    /\ a.id \in P!NumberIds <=> w.id \in P!NumberIds
    /\ a.id \in P!NumberIds => /\ P!NumberOf[a.id] = P!NumberOf[w.id] /\ a.val = w.val
                               /\ a.id \in P!ForcedBigEndian <=> w.id \in P!ForcedBigEndian
    /\ \A x \in Spoken : a.id = x <=> w.id = x
    /\ a.id \in {"string", "endian", "protocol"} => a = w

\* The two names of an option are names of the same option.
Synonyms ==
    {<<"pktfc", "cmdcode">>, <<"int8", "byte">>, <<"int16", "half">>, <<"int32", "long">>, <<"int32", "word">>}

\* Where the two names differ, both are header bits of one field, or numbers of one width
\* and one byte order.
LEMMA SynonymsAre ==
  ASSUME NEW x, NEW y, <<x, y>> \in Synonyms
  PROVE  /\ \/ /\ x \in P!FieldIds /\ y \in P!FieldIds /\ P!FieldOf[x] = P!FieldOf[y]
                /\ x \notin P!NumberIds /\ y \notin P!NumberIds
             \/ /\ x \in P!NumberIds /\ y \in P!NumberIds /\ P!NumberOf[x] = P!NumberOf[y]
                /\ x \notin P!FieldIds /\ y \notin P!FieldIds
                /\ x \notin P!ForcedBigEndian /\ y \notin P!ForcedBigEndian
         /\ x \notin Spoken /\ y \notin Spoken
<1>1. /\ x \notin Spoken /\ y \notin Spoken /\ x \notin P!ForcedBigEndian /\ y \notin P!ForcedBigEndian
  BY DEF Synonyms, Spoken, P!Overridable, P!ForcedBigEndian
<1>2. CASE x = "pktfc"
  <2>1. y = "cmdcode"
    BY <1>2 DEF Synonyms
  <2>2. x \in P!FieldIds /\ y \in P!FieldIds /\ x \notin P!NumberIds /\ y \notin P!NumberIds
    BY <1>2, <2>1, PassThruAssumptions, P!FieldIdsAre, P!NumberIdsAre
  <2>3. P!FieldOf[x] = P!FieldOf[y]
    BY <1>2, <2>1 DEF P!FieldOf
  <2> QED
    BY <1>1, <2>2, <2>3
<1>3. CASE x # "pktfc"
  <2>1. <<x, y>> \in {<<"int8", "byte">>, <<"int16", "half">>, <<"int32", "long">>, <<"int32", "word">>}
    BY <1>3 DEF Synonyms
  <2>2. x \in P!NumberIds /\ y \in P!NumberIds /\ x \notin P!FieldIds /\ y \notin P!FieldIds
    BY <2>1, PassThruAssumptions, P!FieldIdsAre, P!NumberIdsAre
  <2>3. P!NumberOf[x] = P!NumberOf[y]
    BY <2>1 DEF P!NumberOf
  <2> QED
    BY <1>1, <2>2, <2>3
<1> QED
  BY <1>2, <1>3

\* A word main keeps for itself says nothing to the pass-through encoder, and the others say
\* the same as typed and as handed on.
LEMMA PassThruTypedWords ==
  ASSUME typed \in Typed, NEW k \in DOMAIN typed
  PROVE  /\ k \notin M!ForEncoders => PassThruTyped[k].id \notin P!HandledIds
         /\ k \in M!ForEncoders =>
              /\ Alike(PassThruWord(k), PassThruTyped[k])
              /\ Argument(k) => PassThruTyped[k].id \notin P!HandledIds
<1> DEFINE t == typed[k].token
<1>1. t \in M!LineTokens /\ (k \in M!ForEncoders <=> t \notin M!OwnOptions \cup {"unknown"})
  BY WordsAreTokens DEF M!ForEncoders
<1>2. PassThruTyped[k] = Under(MeantId(t), typed[k].pt) /\ PassThruWord(k) = Under(HandedId(t), typed[k].pt)
  BY DEF PassThruTyped, PassThruWord
<1>3. PassThruTyped[k].id = MeantId(t) /\ PassThruWord(k).id = HandedId(t)
  BY <1>2, UnderName
<1> HIDE DEF t
<1>4. ASSUME t \in M!OwnOptions \cup {"unknown", "argument"} PROVE MeantId(t) \notin P!HandledIds
  <2>1. MeantId(t) = IF t = "argument" THEN "NONE" ELSE t
    BY <1>4 DEF MeantId, M!OwnOptions
  <2>2. {"help", "verbose", "host", "port", "unknown", "NONE"} \cap P!HandledIds = {}
    BY PassThruAssumptions, P!FieldIdsAre, P!NumberIdsAre DEF P!HandledIds
  <2> QED
    BY <1>4, <2>1, <2>2 DEF M!OwnOptions
<1>5. ASSUME k \in M!ForEncoders, Argument(k) PROVE PassThruTyped[k].id \notin P!HandledIds
  <2>1. t = "argument"
    BY <1>5, WordsAreTokens DEF Argument, t
  <2> QED
    BY <1>3, <1>4, <2>1
<1>6. ASSUME k \in M!ForEncoders
      PROVE  HandedId(t) = MeantId(t) \/ <<HandedId(t), MeantId(t)>> \in Synonyms
  <2>1. HandedId(t) = IF t = "argument" THEN "NONE" ELSE IF t \in DOMAIN M!Renamed THEN M!Renamed[t] ELSE t
    BY <1>6, HandedIdIs DEF t
  <2> QED
    BY <2>1 DEF M!Renamed, MeantId, Synonyms
<1>7. ASSUME k \in M!ForEncoders PROVE Alike(PassThruWord(k), PassThruTyped[k])
  <2>1. CASE HandedId(t) = MeantId(t)
    <3>1. PassThruWord(k) = PassThruTyped[k]
      BY <1>2, <2>1
    <3> QED
      BY <3>1 DEF Alike
  <2>2. CASE <<HandedId(t), MeantId(t)>> \in Synonyms
    <3> DEFINE x == HandedId(t)
               y == MeantId(t)
    <3>1. /\ \/ /\ x \in P!FieldIds /\ y \in P!FieldIds /\ P!FieldOf[x] = P!FieldOf[y]
                /\ x \notin P!NumberIds /\ y \notin P!NumberIds
             \/ /\ x \in P!NumberIds /\ y \in P!NumberIds /\ P!NumberOf[x] = P!NumberOf[y]
                /\ x \notin P!FieldIds /\ y \notin P!FieldIds
                /\ x \notin P!ForcedBigEndian /\ y \notin P!ForcedBigEndian
          /\ x \notin Spoken /\ y \notin Spoken
      BY <2>2, SynonymsAre
    <3>2. PassThruWord(k).val = PassThruTyped[k].val
      <4>1. PassThruWord(k) \in PassThru!Arg
        BY <1>7, HandedWord DEF PassThruArgs
      <4>2. x \in PassThru!FieldIds \/ x \in PassThru!NumberIds
        BY <3>1 DEF PassThru!FieldIds, P!FieldIds, PassThru!NumberIds, P!NumberIds, PassThru!FieldOf, P!FieldOf, PassThru!NumberOf, P!NumberOf
      <4>3. "val" \in DOMAIN PassThruWord(k)
        BY <1>3, <2>2, <4>1 DEF PassThru!Arg, Synonyms
      <4>4. "val" \in DOMAIN typed[k].pt
        BY <1>2, <4>3 DEF Under
      <4> QED
        BY <1>2, <4>4 DEF Under
    <3> HIDE DEF x, y
    <3>3. PassThruWord(k).id = x /\ PassThruTyped[k].id = y
      BY <1>3 DEF x, y
    <3>4. {"string", "endian", "protocol"} \subseteq Spoken
      BY DEF Spoken
    <3> QED
      BY <3>1, <3>2, <3>3, <3>4 DEF Alike
  <2> QED
    BY <1>6, <1>7, <2>1, <2>2
<1> QED
  BY <1>1, <1>3, <1>4, <1>5, <1>7

\* The pass-through encoder is still good and was given the whole line.
PassThruSawTheLine == EncodersInv /\ LoopOver /\ PassThruParser \in IsOK

\* Its arguments are the words, in the order of its calls, and the options among them in the
\* order typed.
LEMMA PassThruArgsAre ==
  ASSUME PassThruSawTheLine, NEW s, s = calls[PassThruParser]
  PROVE  /\ s \in Seq(Nat) /\ typed \in Typed
         /\ DOMAIN ptArgs = DOMAIN s /\ Len(ptArgs) = Len(s) /\ ptArgs \in Seq(PassThruArgs)
         /\ \A n \in DOMAIN s : /\ s[n] \in M!ForEncoders /\ s[n] \in DOMAIN typed
                                /\ ptArgs[n] = PassThruWord(s[n])
                                /\ Alike(ptArgs[n], PassThruTyped[s[n]])
         /\ \A k \in M!ForEncoders : k \in DOMAIN typed /\ \E n \in DOMAIN s : s[n] = k
         /\ \A m, n \in DOMAIN s : m < n /\ ~Argument(s[m]) /\ ~Argument(s[n]) => s[m] < s[n]
<1>1. MainInv /\ ptArgs = [n \in DOMAIN s |-> PassThruWords[s[n]]]
  BY DEF PassThruSawTheLine, EncodersInv, DatagramInv, PartsInv, ArgsInv
<1>2. /\ s \in Seq(Nat) /\ \A n \in DOMAIN s : s[n] \in M!ForEncoders
      /\ \A m, n \in DOMAIN s : m < n => M!Precedes(s[m], s[n])
  BY <1>1, CallsShape
<1>3. typed \in Typed /\ \A k \in M!ForEncoders : k \in DOMAIN typed
  BY HandedIdIs DEF PassThruSawTheLine, EncodersInv
<1>4. \A k \in M!ForEncoders : \E n \in DOMAIN s : s[n] = k
  <2>1. M!EncodersSawEverything
    BY <1>1, PartsAssumptions, M!NothingMissed DEF MainInv
  <2>2. PassThruParser \in M!Parsers
    BY DEF M!Parsers, PassThruParser
  <2> QED
    BY <2>1, <2>2 DEF M!EncodersSawEverything, LoopOver, PassThruSawTheLine
<1>5. \A n \in DOMAIN s : ptArgs[n] = PassThruWord(s[n])
  BY <1>1, <1>2 DEF PassThruWords
<1>6. DOMAIN ptArgs = DOMAIN s /\ Len(ptArgs) = Len(s) /\ ptArgs \in Seq(PassThruArgs)
  <2>1. \A n \in DOMAIN s : PassThruWords[s[n]] \in PassThruArgs
    BY <1>2, <1>3, HandedWord DEF PassThruWords
  <2>2. DOMAIN s = 1..Len(s) /\ Len(s) \in Nat
    BY <1>2
  <2> QED
    BY <1>1, <2>1, <2>2
<1>7. \A n \in DOMAIN s : Alike(ptArgs[n], PassThruTyped[s[n]])
  BY <1>2, <1>3, <1>5, PassThruTypedWords
<1>8. \A m, n \in DOMAIN s : m < n /\ ~Argument(s[m]) /\ ~Argument(s[n]) => s[m] < s[n]
  BY <1>2 DEF M!Precedes, Argument
<1> QED
  BY <1>2, <1>3, <1>4, <1>5, <1>6, <1>7, <1>8

\* An option that the encoder knows stands on the line if and only if it is an argument.
LEMMA PassThruTypedIndex ==
  ASSUME PassThruSawTheLine, NEW k \in DOMAIN typed, PassThruTyped[k].id \in P!HandledIds
  PROVE  k \in M!ForEncoders /\ ~Argument(k)
<1>1. typed \in Typed
  BY PassThruArgsAre
<1> QED
  BY <1>1, PassThruTypedWords

\* What the encoder finds last of some of its arguments is what the words say last.
LEMMA PassThruReads ==
  ASSUME PassThruSawTheLine, NEW s, s = calls[PassThruParser],
         NEW A \in SUBSET DOMAIN ptArgs,
         NEW B \in SUBSET DOMAIN typed, \A k \in B : PassThruTyped[k].id \in P!HandledIds,
         \A n \in DOMAIN s : n \in A <=> s[n] \in B
  PROVE  /\ A = {} <=> B = {}
         /\ A # {} => /\ Max(A) \in A /\ Max(B) \in B
                      /\ Alike(ptArgs[Max(A)], PassThruTyped[Max(B)])
<1>1. /\ DOMAIN ptArgs = DOMAIN s
      /\ \A n \in DOMAIN s : Alike(ptArgs[n], PassThruTyped[s[n]])
  BY PassThruArgsAre
<1>2. \A k \in B : k \in M!ForEncoders /\ ~Argument(k)
  BY PassThruTypedIndex
<1>3. A = {n \in DOMAIN s : s[n] \in B} /\ B \in SUBSET M!ForEncoders
  BY <1>1, <1>2
<1>4. (A = {} <=> B = {}) /\ (A # {} => Max(A) \in A /\ s[Max(A)] = Max(B))
  <2>1. EncodersInv /\ LoopOver /\ PassThruParser \in IsOK
    BY DEF PassThruSawTheLine
  <2>2. (\A k \in B : Argument(k)) \/ (\A k \in B : ~Argument(k))
    BY <1>2
  <2>3. A = {n \in DOMAIN calls[PassThruParser] : calls[PassThruParser][n] \in B}
    BY <1>3
  <2>4. (A = {} <=> B = {}) /\ (A # {} => Max(A) \in A /\ calls[PassThruParser][Max(A)] = Max(B))
    BY <1>3, <2>1, <2>2, <2>3, Moved
  <2> QED
    BY <2>4
<1> QED
  BY <1>1, <1>3, <1>4

-----------------------------------------------------------------------------
(* The properties read alike.                                              *)

\* They go by the same tables.
LEMMA SameTables ==
  /\ P!FieldOf = PassThruAsTyped!FieldOf /\ P!FieldIds = PassThruAsTyped!FieldIds
  /\ P!NumberOf = PassThruAsTyped!NumberOf /\ P!NumberIds = PassThruAsTyped!NumberIds
  /\ P!ForcedBigEndian = PassThruAsTyped!ForcedBigEndian
  /\ P!LayoutOf = PassThruAsTyped!LayoutOf /\ P!DefaultLayout = PassThruAsTyped!DefaultLayout
  /\ P!WordIds = PassThruAsTyped!WordIds
  /\ \A f : P!Mask(f) = PassThruAsTyped!Mask(f)
  /\ \A w : P!HeaderOf(w) = PassThruAsTyped!HeaderOf(w)
  /\ \A lay : P!HeaderSize(lay) = PassThruAsTyped!HeaderSize(lay)
  /\ \A S : PassThruAsTyped!Max(S) = Max(S)
  /\ \A S : P!Max(S) = Max(S)
  /\ \A v, n : P!Low(v, n) = PassThruAsTyped!Low(v, n)
  /\ \A v : P!Reverse(v) = PassThruAsTyped!Reverse(v)
<1>1. P!FieldOf = PassThruAsTyped!FieldOf /\ P!FieldIds = PassThruAsTyped!FieldIds
  BY DEF P!FieldOf, PassThruAsTyped!FieldOf, P!Field, PassThruAsTyped!Field, P!FieldIds, PassThruAsTyped!FieldIds
<1>2. P!NumberOf = PassThruAsTyped!NumberOf /\ P!NumberIds = PassThruAsTyped!NumberIds
  BY DEF P!NumberOf, PassThruAsTyped!NumberOf, P!Num, PassThruAsTyped!Num, P!NumberIds, PassThruAsTyped!NumberIds
<1>3. P!ForcedBigEndian = PassThruAsTyped!ForcedBigEndian
  BY DEF P!ForcedBigEndian, PassThruAsTyped!ForcedBigEndian
<1>4. P!LayoutOf = PassThruAsTyped!LayoutOf /\ P!DefaultLayout = PassThruAsTyped!DefaultLayout
  BY DEF P!LayoutOf, PassThruAsTyped!LayoutOf, P!DefaultLayout, PassThruAsTyped!DefaultLayout
<1>5. P!WordIds = PassThruAsTyped!WordIds
  BY DEF P!WordIds, PassThruAsTyped!WordIds
<1>6. \A f : P!Mask(f) = PassThruAsTyped!Mask(f)
  BY DEF P!Mask, PassThruAsTyped!Mask
<1>7. \A w : P!HeaderOf(w) = PassThruAsTyped!HeaderOf(w)
  BY DEF P!HeaderOf, PassThruAsTyped!HeaderOf
<1>8. \A lay : P!HeaderSize(lay) = PassThruAsTyped!HeaderSize(lay)
  BY DEF P!HeaderSize, PassThruAsTyped!HeaderSize
<1>9. \A S : PassThruAsTyped!Max(S) = Max(S) /\ P!Max(S) = Max(S)
  BY Zenon DEF PassThruAsTyped!Max, P!Max, Max
<1>10. \A v, n : P!Low(v, n) = PassThruAsTyped!Low(v, n)
  BY DEF P!Low, PassThruAsTyped!Low
<1>11. \A v : P!Reverse(v) = PassThruAsTyped!Reverse(v)
  BY Zenon DEF P!Reverse, PassThruAsTyped!Reverse
<1> QED
  BY <1>1, <1>2, <1>3, <1>4, <1>5, <1>6, <1>7, <1>8, <1>9, <1>10, <1>11

\* The options that properties name are options the encoder knows.
LEMMA SpokenIsHandled == Spoken \cup P!FieldIds \cup P!NumberIds \subseteq P!HandledIds
<1>1. P!Overridable \subseteq P!FieldIds
  BY PassThruAssumptions, P!OptionKinds
<1> QED
  BY <1>1 DEF Spoken, P!HandledIds

\* Their words are the words,
LEMMA TypedPlaces ==
  ASSUME PassThruSawTheLine
  PROVE  DOMAIN PassThruTyped = DOMAIN typed /\ DOMAIN typed = 1..Len(PassThruTyped) /\ Len(PassThruTyped) \in Nat
<1>1. DOMAIN Tokens(typed) = DOMAIN typed /\ Tokens(typed) \in Seq(Main!LineTokens)
  BY TypedAssumption, WordsAreTokens DEF PassThruSawTheLine, EncodersInv
<1>2. PICK n \in Nat : DOMAIN typed = 1..n
  <2>1. DOMAIN Tokens(typed) = 1..Len(Tokens(typed)) /\ Len(Tokens(typed)) \in Nat
    BY <1>1
  <2> QED
    BY <1>1, <2>1
<1> DEFINE v == PassThruTyped
<1>3. DOMAIN v = 1..n
  BY <1>2 DEF PassThruTyped
<1>4. v = [k \in 1..n |-> v[k]]
  BY <1>2 DEF PassThruTyped
<1> HIDE DEF v
<1>5. Len(v) = n
  BY <1>3, <1>4
<1> QED
  BY <1>2, <1>3, <1>5 DEF v

\* given are the same options,
LEMMA SameGiven ==
  ASSUME PassThruSawTheLine, NEW id \in Spoken
  PROVE  P!Given(id) <=> PassThruAsTyped!Given(id)
<1> DEFINE s == calls[PassThruParser]
           A == {n \in DOMAIN ptArgs : ptArgs[n].id = id}
           B == {k \in DOMAIN typed : PassThruTyped[k].id = id}
<1>1. \A n \in DOMAIN s : n \in A <=> s[n] \in B
  BY PassThruArgsAre DEF Alike
<1>2. \A k \in B : PassThruTyped[k].id \in P!HandledIds
  BY SpokenIsHandled
<1>3. A = {} <=> B = {}
  <2>1. A \in SUBSET DOMAIN ptArgs /\ B \in SUBSET DOMAIN typed
    OBVIOUS
  <2> HIDE DEF A, B
  <2> QED
    BY <1>1, <1>2, <2>1, PassThruReads
<1> QED
  BY <1>3, TypedPlaces DEF P!Given, PassThruAsTyped!Given

\* every header bit is asked to be the same,
LEMMA SameAsked ==
  ASSUME PassThruSawTheLine, NEW w, NEW b
  PROVE  P!Asked(w, b) <=> PassThruAsTyped!Asked(w, b)
<1> DEFINE s == calls[PassThruParser]
           Writes(a) == a.id \in P!FieldIds /\ P!FieldOf[a.id].word = w /\ b \in P!Mask(P!FieldOf[a.id])
           A == {n \in DOMAIN ptArgs : Writes(ptArgs[n])}
           B == {k \in DOMAIN typed : Writes(PassThruTyped[k])}
<1>1. P!Writers(w, b) = A /\ PassThruAsTyped!Writers(w, b) = B
  BY TypedPlaces, SameTables DEF P!Writers, PassThruAsTyped!Writers
<1>2. \A n \in DOMAIN s : n \in A <=> s[n] \in B
  BY PassThruArgsAre DEF Alike
<1>3. \A k \in B : PassThruTyped[k].id \in P!HandledIds
  BY SpokenIsHandled
<1>4. \A n \in A : ptArgs[n].id \in P!FieldIds
  OBVIOUS
<1>5. A \in SUBSET DOMAIN ptArgs /\ B \in SUBSET DOMAIN typed
  OBVIOUS
<1> HIDE DEF A, B
<1>6. /\ A = {} <=> B = {}
      /\ A # {} => /\ Max(A) \in A /\ Max(B) \in B
                   /\ Alike(ptArgs[Max(A)], PassThruTyped[Max(B)])
  BY <1>2, <1>3, <1>5, PassThruReads, Zenon
<1>7. P!Asked(w, b) <=> A # {} /\ b - P!FieldOf[ptArgs[Max(A)].id].lo \in ptArgs[Max(A)].val
  BY <1>1, SameTables DEF P!Asked
<1>8. PassThruAsTyped!Asked(w, b) <=>
        B # {} /\ b - P!FieldOf[PassThruTyped[Max(B)].id].lo \in PassThruTyped[Max(B)].val
  BY <1>1, SameTables DEF PassThruAsTyped!Asked
<1> QED
  BY <1>4, <1>6, <1>7, <1>8 DEF Alike

\* the layout is the same,
LEMMA SameLayout ==
  ASSUME PassThruSawTheLine
  PROVE  P!ChosenLayout = PassThruAsTyped!ChosenLayout
<1> DEFINE s == calls[PassThruParser]
           A == {n \in DOMAIN ptArgs : ptArgs[n].id = "protocol"}
           B == {k \in DOMAIN typed : PassThruTyped[k].id = "protocol"}
<1>0. "protocol" \in Spoken
  BY DEF Spoken
<1>1. P!LastOf("protocol", Len(ptArgs)) = A /\ PassThruAsTyped!LastOf("protocol", Len(PassThruTyped)) = B
  <2>1. DOMAIN ptArgs = 1..Len(ptArgs)
    BY PassThruArgsAre
  <2> QED
    BY <2>1, TypedPlaces DEF P!LastOf, PassThruAsTyped!LastOf
<1>2. \A n \in DOMAIN s : n \in A <=> s[n] \in B
  BY <1>0, PassThruArgsAre DEF Alike
<1>3. \A k \in B : PassThruTyped[k].id \in P!HandledIds
  BY <1>0, SpokenIsHandled
<1>4. \A n \in A : ptArgs[n].id = "protocol"
  OBVIOUS
<1>5. A \in SUBSET DOMAIN ptArgs /\ B \in SUBSET DOMAIN typed
  OBVIOUS
<1> HIDE DEF A, B
<1>6. /\ A = {} <=> B = {}
      /\ A # {} => /\ Max(A) \in A /\ Max(B) \in B
                   /\ Alike(ptArgs[Max(A)], PassThruTyped[Max(B)])
  BY <1>2, <1>3, <1>5, PassThruReads, Zenon
<1>7. P!ChosenLayout = IF A = {} THEN P!DefaultLayout ELSE P!LayoutOf[ptArgs[Max(A)].name]
  BY <1>1, SameTables DEF P!ChosenLayout
<1>8. PassThruAsTyped!ChosenLayout = IF B = {} THEN P!DefaultLayout ELSE P!LayoutOf[PassThruTyped[Max(B)].name]
  BY <1>1, SameTables DEF PassThruAsTyped!ChosenLayout
<1> QED
  BY <1>4, <1>6, <1>7, <1>8 DEF Alike

\* the endianness is the same where all of the same words came before,
LEMMA SameEndianness ==
  ASSUME PassThruSawTheLine, NEW s, s = calls[PassThruParser],
         NEW n \in Nat, n <= Len(ptArgs), NEW k \in Nat, k <= Len(PassThruTyped),
         \A m \in DOMAIN s : ~Argument(s[m]) => (m <= n <=> s[m] <= k)
  PROVE  P!BigAt(n) <=> PassThruAsTyped!BigAt(k)
<1> DEFINE A == {m \in 1..n : ptArgs[m].id = "endian"}
           B == {m \in 1..k : PassThruTyped[m].id = "endian"}
<1>0. "endian" \in Spoken
  BY DEF Spoken
<1>1. P!LastOf("endian", n) = A /\ PassThruAsTyped!LastOf("endian", k) = B
  BY DEF P!LastOf, PassThruAsTyped!LastOf
<1>2. /\ DOMAIN ptArgs = 1..Len(ptArgs) /\ Len(ptArgs) \in Nat /\ DOMAIN ptArgs = DOMAIN s
      /\ DOMAIN typed = 1..Len(PassThruTyped) /\ Len(PassThruTyped) \in Nat
  BY PassThruArgsAre, TypedPlaces
<1>3. A \in SUBSET DOMAIN ptArgs /\ B \in SUBSET DOMAIN typed
  BY <1>2
<1>4. \A m \in DOMAIN s : m \in A <=> s[m] \in B
  <2> SUFFICES ASSUME NEW m \in DOMAIN s PROVE m \in A <=> s[m] \in B
    OBVIOUS
  <2>1. s[m] \in DOMAIN typed /\ (ptArgs[m].id = "endian" <=> PassThruTyped[s[m]].id = "endian")
    BY <1>0, PassThruArgsAre DEF Alike
  <2>2. PassThruTyped[s[m]].id = "endian" => ~Argument(s[m])
    BY <1>0, <2>1, SpokenIsHandled, PassThruTypedIndex
  <2>3. m \in 1..Len(ptArgs) /\ s[m] \in 1..Len(PassThruTyped)
    BY <1>2, <2>1
  <2> QED
    BY <1>2, <2>1, <2>2, <2>3
<1>5. \A m \in B : PassThruTyped[m].id \in P!HandledIds
  BY <1>0, SpokenIsHandled
<1>6. \A m \in A : ptArgs[m].id = "endian"
  OBVIOUS
<1> HIDE DEF A, B
<1>7. /\ A = {} <=> B = {}
      /\ A # {} => /\ Max(A) \in A /\ Max(B) \in B
                   /\ Alike(ptArgs[Max(A)], PassThruTyped[Max(B)])
  BY <1>3, <1>4, <1>5, PassThruReads, Zenon
<1>8. P!BigAt(n) <=> (A # {} => ptArgs[Max(A)].name = "BE")
  BY <1>1, SameTables DEF P!BigAt
<1>9. PassThruAsTyped!BigAt(k) <=> (B # {} => PassThruTyped[Max(B)].name = "BE")
  BY <1>1, SameTables DEF PassThruAsTyped!BigAt
<1> QED
  BY <1>6, <1>7, <1>8, <1>9 DEF Alike

\* and so at the end of the line,
LEMMA SameEndiannessAtTheEnd ==
  ASSUME PassThruSawTheLine
  PROVE  P!BigAt(Len(ptArgs)) <=> PassThruAsTyped!BigAt(Len(PassThruTyped))
<1> DEFINE s == calls[PassThruParser]
<1>1. /\ DOMAIN ptArgs = 1..Len(ptArgs) /\ Len(ptArgs) \in Nat /\ DOMAIN ptArgs = DOMAIN s
      /\ DOMAIN typed = 1..Len(PassThruTyped) /\ Len(PassThruTyped) \in Nat
  BY PassThruArgsAre, TypedPlaces
<1>2. \A m \in DOMAIN s : m <= Len(ptArgs) /\ s[m] <= Len(PassThruTyped)
  BY <1>1, PassThruArgsAre
<1> QED
  BY <1>1, <1>2, SameEndianness

\* and what a word stands for is what its argument stands for.
LEMMA SameImage ==
  ASSUME PassThruSawTheLine, NEW s, s = calls[PassThruParser], NEW n \in DOMAIN s
  PROVE  P!Image(n) = PassThruAsTyped!Image(s[n])
<1> DEFINE a == ptArgs[n]
           w == PassThruTyped[s[n]]
           k == s[n]
<1>1. Alike(a, w) /\ k \in DOMAIN typed
  BY PassThruArgsAre
<1>2. ASSUME a.id \in P!NumberIds
      PROVE  P!BigAt(n) <=> PassThruAsTyped!BigAt(k)
  <2>1. w.id \in P!NumberIds
    BY <1>1, <1>2 DEF Alike
  <2>2. ~Argument(k)
    BY <1>1, <2>1, SpokenIsHandled, PassThruTypedIndex
  <2>3. /\ DOMAIN s = 1..Len(ptArgs) /\ Len(ptArgs) \in Nat
        /\ DOMAIN typed = 1..Len(PassThruTyped) /\ Len(PassThruTyped) \in Nat
        /\ s \in Seq(Nat)
        /\ \A l, m \in DOMAIN s : l < m /\ ~Argument(s[l]) /\ ~Argument(s[m]) => s[l] < s[m]
    <3>1. DOMAIN ptArgs = DOMAIN s /\ ptArgs \in Seq(PassThruArgs)
      BY PassThruArgsAre
    <3> QED
      BY <3>1, PassThruArgsAre, TypedPlaces
  <2>4. n \in Nat /\ n <= Len(ptArgs) /\ k \in Nat /\ k <= Len(PassThruTyped)
    BY <1>1, <2>3
  <2>5. \A m \in DOMAIN s : ~Argument(s[m]) => (m <= n <=> s[m] <= k)
    <3> SUFFICES ASSUME NEW m \in DOMAIN s, ~Argument(s[m]) PROVE m <= n <=> s[m] <= k
      OBVIOUS
    <3>1. m \in Nat /\ n \in Nat /\ s[m] \in Nat /\ s[n] \in Nat
      BY <2>3
    <3>2. (m < n => s[m] < s[n]) /\ (n < m => s[n] < s[m])
      BY <2>2, <2>3
    <3> QED
      BY <3>1, <3>2
  <2> HIDE DEF k
  <2> QED
    BY <2>4, <2>5, SameEndianness
<1> DEFINE low == P!Low(a.val, P!NumberOf[a.id].size)
           text == [m \in 1..a.width |-> IF m <= Len(a.text) THEN a.text[m] ELSE {}]
<1>3. P!Image(n) = CASE a.id \in P!NumberIds ->
                          IF P!BigAt(n) \/ a.id \in P!ForcedBigEndian THEN low ELSE P!Reverse(low)
                     [] a.id = "string" -> text
                     [] OTHER -> <<>>
  BY Zenon DEF P!Image
<1> DEFINE lowTyped == P!Low(w.val, P!NumberOf[w.id].size)
           textTyped == [m \in 1..w.width |-> IF m <= Len(w.text) THEN w.text[m] ELSE {}]
<1>4. PassThruAsTyped!Image(k) =
        CASE w.id \in P!NumberIds ->
               IF PassThruAsTyped!BigAt(k) \/ w.id \in P!ForcedBigEndian THEN lowTyped ELSE P!Reverse(lowTyped)
          [] w.id = "string" -> textTyped
          [] OTHER -> <<>>
  <2>1. /\ PassThruAsTyped!NumberIds = P!NumberIds /\ PassThruAsTyped!ForcedBigEndian = P!ForcedBigEndian
        /\ PassThruAsTyped!NumberOf = P!NumberOf
        /\ \A v : PassThruAsTyped!Reverse(v) = P!Reverse(v)
        /\ \A v, m : PassThruAsTyped!Low(v, m) = P!Low(v, m)
    BY SameTables
  <2>2. PassThruAsTyped!Image(k) =
          CASE w.id \in PassThruAsTyped!NumberIds ->
                 IF PassThruAsTyped!BigAt(k) \/ w.id \in PassThruAsTyped!ForcedBigEndian
                 THEN PassThruAsTyped!Low(w.val, PassThruAsTyped!NumberOf[w.id].size)
                 ELSE PassThruAsTyped!Reverse(PassThruAsTyped!Low(w.val, PassThruAsTyped!NumberOf[w.id].size))
            [] w.id = "string" -> textTyped
            [] OTHER -> <<>>
    BY Zenon DEF PassThruAsTyped!Image
  <2> HIDE DEF textTyped
  <2> QED
    BY <2>1, <2>2, Zenon
<1>5. "string" \in Spoken /\ "string" \notin P!NumberIds
  BY PassThruAssumptions, P!OptionKinds DEF Spoken
<1>6. CASE a.id \in P!NumberIds
  <2>1. /\ w.id \in P!NumberIds /\ lowTyped = low
        /\ (a.id \in P!ForcedBigEndian <=> w.id \in P!ForcedBigEndian)
        /\ (P!BigAt(n) <=> PassThruAsTyped!BigAt(k))
    BY <1>1, <1>2, <1>6 DEF Alike
  <2> HIDE DEF a, w, low, lowTyped, k
  <2>2. P!Image(n) = IF P!BigAt(n) \/ a.id \in P!ForcedBigEndian THEN low ELSE P!Reverse(low)
    BY <1>3, <1>5, <1>6, Zenon
  <2>3. PassThruAsTyped!Image(k) =
          IF PassThruAsTyped!BigAt(k) \/ w.id \in P!ForcedBigEndian THEN lowTyped ELSE P!Reverse(lowTyped)
    BY <1>4, <1>5, <2>1, Zenon
  <2>4. P!Image(n) = PassThruAsTyped!Image(k)
    BY <2>1, <2>2, <2>3
  <2> QED
    BY <2>4 DEF k
<1>7. CASE a.id = "string"
  <2>1. a = w
    BY <1>1, <1>7 DEF Alike
  <2>2. text = textTyped
    BY <2>1
  <2>3. w.id = "string" /\ a.id \notin P!NumberIds /\ w.id \notin P!NumberIds
    BY <1>5, <1>7, <2>1
  <2> HIDE DEF a, w, text, textTyped, k
  <2>4. P!Image(n) = text /\ PassThruAsTyped!Image(k) = textTyped
    BY <1>3, <1>4, <1>7, <2>3, Zenon
  <2> QED
    BY <2>2, <2>4 DEF k
<1>8. CASE a.id \notin P!NumberIds /\ a.id # "string"
  <2>1. w.id \notin P!NumberIds /\ w.id # "string"
    BY <1>1, <1>5, <1>8 DEF Alike
  <2> HIDE DEF a, w, text, textTyped, k
  <2>2. P!Image(n) = <<>> /\ PassThruAsTyped!Image(k) = <<>>
    BY <1>3, <1>4, <1>8, <2>1, Zenon
  <2> QED
    BY <2>2 DEF k
<1> QED
  BY <1>6, <1>7, <1>8

\* A word the encoder does not know stands for nothing.
LEMMA NoImage ==
  \A k : PassThruTyped[k].id \notin P!HandledIds => PassThruAsTyped!Image(k) = <<>>
<1> SUFFICES ASSUME NEW k, PassThruTyped[k].id \notin P!HandledIds
             PROVE  PassThruAsTyped!Image(k) = <<>>
  OBVIOUS
<1>1. PassThruTyped[k].id # "string" /\ PassThruTyped[k].id \notin PassThruAsTyped!NumberIds
  BY SameTables DEF P!HandledIds
<1> QED
  BY <1>1, Zenon DEF PassThruAsTyped!Image

\* The payload is the same.
LEMMA SamePayload ==
  ASSUME PassThruSawTheLine
  PROVE  P!FlattenSeq([n \in DOMAIN ptArgs |-> P!Image(n)])
           = P!FlattenSeq([k \in DOMAIN PassThruTyped |-> PassThruAsTyped!Image(k)])
<1> DEFINE s == calls[PassThruParser]
           u == [n \in DOMAIN ptArgs |-> P!Image(n)]
           v == [k \in DOMAIN PassThruTyped |-> PassThruAsTyped!Image(k)]
<1>1. /\ DOMAIN ptArgs = DOMAIN s /\ DOMAIN ptArgs = 1..Len(ptArgs) /\ Len(ptArgs) \in Nat
      /\ DOMAIN PassThruTyped = DOMAIN typed /\ DOMAIN typed = 1..Len(PassThruTyped) /\ Len(PassThruTyped) \in Nat
  BY PassThruArgsAre, TypedPlaces
<1>2. \A n \in DOMAIN u : s[n] \in DOMAIN v /\ v[s[n]] = u[n]
  BY <1>1, PassThruArgsAre, SameImage
<1>3. \A k \in DOMAIN v : v[k] # <<>> => k \in M!ForEncoders /\ ~Argument(k)
  <2> SUFFICES ASSUME NEW k \in DOMAIN v, v[k] # <<>> PROVE k \in M!ForEncoders /\ ~Argument(k)
    OBVIOUS
  <2>1. k \in DOMAIN typed /\ PassThruTyped[k].id \in P!HandledIds
    BY <1>1, NoImage
  <2> QED
    BY <2>1, PassThruTypedIndex
<1>4. \A k \in DOMAIN v : v[k] # <<>> => \E n \in DOMAIN u : s[n] = k /\ u[n] = v[k]
  <2> SUFFICES ASSUME NEW k \in DOMAIN v, v[k] # <<>> PROVE \E n \in DOMAIN u : s[n] = k /\ u[n] = v[k]
    OBVIOUS
  <2>1. k \in M!ForEncoders
    BY <1>3
  <2>2. PICK n \in DOMAIN s : s[n] = k
    BY <2>1, PassThruArgsAre
  <2> QED
    BY <1>1, <1>2, <2>2
<1>5. u \in Seq(Seq(P!Byte))
  <2>1. \A n \in DOMAIN ptArgs : P!Image(n) \in Seq(P!Byte)
    <3> SUFFICES ASSUME NEW n \in DOMAIN ptArgs PROVE P!Image(n) \in Seq(P!Byte)
      OBVIOUS
    <3>1. ptArgs[n] \in PassThruArgs
      BY PassThruArgsAre
    <3>2. P!BigBefore(ptArgs, n) \in BOOLEAN
      BY DEF P!BigBefore
    <3>3. P!NewImage(ptArgs[n], P!BigBefore(ptArgs, n)) \in Seq(P!Byte)
      BY <3>1, <3>2, PassThruAssumptions, P!ImageShape
    <3>4. u[n] = P!NewImage(ptArgs[n], P!BigBefore(ptArgs, n))
      <4>1. u = P!ImagesIn(ptArgs)
        BY PassThruAssumptions, P!ImagesAre
      <4> QED
        BY <4>1 DEF P!ImagesIn
    <3> QED
      BY <3>3, <3>4
  <2> QED
    BY <1>1, <2>1
<1>6. v \in Seq(Seq(P!Byte))
  <2>1. \A k \in DOMAIN v : v[k] \in Seq(P!Byte)
    <3> SUFFICES ASSUME NEW k \in DOMAIN v PROVE v[k] \in Seq(P!Byte)
      OBVIOUS
    <3>1. v[k] = <<>> \/ \E n \in DOMAIN u : u[n] = v[k]
      BY <1>4
    <3>2. \A n \in DOMAIN u : u[n] \in Seq(P!Byte)
      BY <1>5
    <3>3. <<>> \in Seq(P!Byte)
      OBVIOUS
    <3> HIDE DEF u, v
    <3> QED
      BY <3>1, <3>2, <3>3
  <2> QED
    BY <1>1, <2>1
<1>7. \A m, n \in DOMAIN u : u[m] # <<>> /\ u[n] # <<>> /\ m < n => s[m] < s[n]
  <2> SUFFICES ASSUME NEW m \in DOMAIN u, NEW n \in DOMAIN u, u[m] # <<>>, u[n] # <<>>, m < n
               PROVE  s[m] < s[n]
    OBVIOUS
  <2>1. ~Argument(s[m]) /\ ~Argument(s[n])
    BY <1>2, <1>3
  <2> QED
    BY <1>1, <2>1, PassThruArgsAre
<1> HIDE DEF u, v
<1>8. P!Matched(u, v, s)
  BY <1>2, <1>4, <1>7 DEF P!Matched
<1>9. P!FlattenSeq(u) = P!FlattenSeq(v)
  BY <1>5, <1>6, <1>8, PassThruAssumptions, P!FlatSkips
<1> QED
  BY <1>9 DEF u, v
-----------------------------------------------------------------------------
(* The packet of the pass-through encoder as typed.                        *)

\* What is sent of the pass-through encoder, it made of the whole line.
LEMMA PassThruMadeIt ==
  ASSUME EncodersInv, ReadyToSend, bufOwner = PassThruParser
  PROVE  PassThruSawTheLine /\ ptStatus = "packed"
<1>1. bufOwner \in IsOK /\ packed = {bufOwner}
  BY DEF ReadyToSend, EncodersInv, DatagramInv, PartsInv, MainInv, M!IInv, M!BufferHoldsThePacket
<1>2. ptStatus = "packed"
  BY <1>1 DEF EncodersInv, DatagramInv
<1> QED
  BY <1>1, <1>2 DEF PassThruSawTheLine, LoopOver, ReadyToSend

\* A packet is read alike by the arguments and by the words.
LEMMA SamePacket ==
  ASSUME PassThruSawTheLine
  PROVE  /\ \A w : P!OnWire(w) = PassThruAsTyped!OnWire(w)
         /\ P!SentWords = PassThruAsTyped!SentWords
         /\ \A w : P!Defaulted(w) = PassThruAsTyped!Defaulted(w)
         /\ \A T : P!Value(T) = PassThruAsTyped!Value(T)
         /\ \A bytes : P!XorAll(bytes) = PassThruAsTyped!XorAll(bytes)
         /\ \A ss : P!FlattenSeq(ss) = PassThruAsTyped!FlattenSeq(ss)
<1>1. \A w : P!OnWire(w) = PassThruAsTyped!OnWire(w)
  <2> SUFFICES ASSUME NEW w PROVE P!OnWire(w) = PassThruAsTyped!OnWire(w)
    OBVIOUS
  <2>1. P!HeaderSize(P!ChosenLayout \ {"Sec"}) = PassThruAsTyped!HeaderSize(PassThruAsTyped!ChosenLayout \ {"Sec"})
    BY SameLayout, SameTables
  <2>2. P!OffsetOf(w) = PassThruAsTyped!OffsetOf(w)
    BY <2>1, Zenon DEF P!OffsetOf, PassThruAsTyped!OffsetOf
  <2> QED
    BY <2>2, Zenon DEF P!OnWire, PassThruAsTyped!OnWire
<1>2. P!SentWords = PassThruAsTyped!SentWords
  BY SameLayout, SameTables DEF P!SentWords, PassThruAsTyped!SentWords
<1>3. \A w : P!Defaulted(w) = PassThruAsTyped!Defaulted(w)
  <2>1. \A id \in P!Overridable : P!Given(id) <=> PassThruAsTyped!Given(id)
    BY SameGiven DEF Spoken
  <2>2. /\ P!Given("pkttype") <=> PassThruAsTyped!Given("pkttype")
        /\ P!Given("pktsec") <=> PassThruAsTyped!Given("pktsec")
        /\ P!Given("pktseqflg") <=> PassThruAsTyped!Given("pktseqflg")
        /\ P!Given("pktlen") <=> PassThruAsTyped!Given("pktlen")
        /\ P!Given("pktendian") <=> PassThruAsTyped!Given("pktendian")
        /\ P!Given("pktcksum") <=> PassThruAsTyped!Given("pktcksum")
    BY <2>1 DEF P!Overridable
  <2> QED
    BY <2>2 DEF P!Defaulted, PassThruAsTyped!Defaulted
<1>4. \A T : P!Value(T) = PassThruAsTyped!Value(T)
  <2> SUFFICES ASSUME NEW T PROVE P!Value(T) = PassThruAsTyped!Value(T)
    OBVIOUS
  <2>1. P!Value(T) = (CHOOSE g : P!IsSum(g, T))[T]
    BY PassThruAssumptions, P!ValueIsSum
  <2>2. PassThruAsTyped!Value(T) = (CHOOSE g : P!IsSum(g, T))[T]
    BY DEF PassThruAsTyped!Value, PassThruAsTyped!MapThenSumSet, PassThruAsTyped!MapThenFoldSet, P!IsSum
  <2> QED
    BY <2>1, <2>2
<1>5. \A bytes : P!XorAll(bytes) = PassThruAsTyped!XorAll(bytes)
  <2> SUFFICES ASSUME NEW bytes PROVE P!XorAll(bytes) = PassThruAsTyped!XorAll(bytes)
    OBVIOUS
  <2>1. P!XorAll(bytes) = (CHOOSE g : P!IsXor(g, bytes))[DOMAIN bytes]
    BY PassThruAssumptions, P!XorIsFold
  <2>2. PassThruAsTyped!XorAll(bytes) = (CHOOSE g : P!IsXor(g, bytes))[DOMAIN bytes]
    BY DEF PassThruAsTyped!XorAll, PassThruAsTyped!FoldLeft, PassThruAsTyped!MapThenFoldSet, P!IsXor,
           PassThruAsTyped!SymDiff, P!SymDiff, PassThruAsTyped!Max, P!Max
  <2> QED
    BY <2>1, <2>2
<1>6. \A ss : P!FlattenSeq(ss) = PassThruAsTyped!FlattenSeq(ss)
  <2> SUFFICES ASSUME NEW ss PROVE P!FlattenSeq(ss) = PassThruAsTyped!FlattenSeq(ss)
    OBVIOUS
  <2>1. P!FlattenSeq(ss) = IF Len(ss) = 0 THEN ss ELSE (CHOOSE h : P!IsFlat(h, ss))[Len(ss)]
    BY PassThruAssumptions, P!FlattenIsFlat
  <2>2. PassThruAsTyped!FlattenSeq(ss) = IF Len(ss) = 0 THEN ss ELSE (CHOOSE h : P!IsFlat(h, ss))[Len(ss)]
    BY DEF PassThruAsTyped!FlattenSeq, P!IsFlat
  <2> QED
    BY <2>1, <2>2
<1> QED
  BY <1>1, <1>2, <1>3, <1>4, <1>5, <1>6

\* A number typed is intact if its argument is.
LEMMA SameNumbers ==
  ASSUME PassThruSawTheLine, P!NumbersIntact
  PROVE  PassThruAsTyped!NumbersIntact
<1> DEFINE s == calls[PassThruParser]
<1>1. \A w : PassThruAsTyped!Widened(w) = P!Widened(w)
  <2>1. /\ PassThruAsTyped!NumberOf = P!NumberOf
        /\ \A v, m : PassThruAsTyped!Low(v, m) = P!Low(v, m)
    BY SameTables
  <2> QED
    BY <2>1, Zenon DEF PassThruAsTyped!Widened, P!Widened
<1>2. PassThruAsTyped!NumberIds = P!NumberIds
  BY SameTables
<1> SUFFICES ASSUME NEW k \in DOMAIN PassThruTyped, PassThruTyped[k].id \in P!NumberIds
             PROVE  P!Widened(PassThruTyped[k]) = PassThruTyped[k].val
  BY <1>1, <1>2 DEF PassThruAsTyped!NumbersIntact
<1>3. k \in M!ForEncoders
  <2>1. typed \in Typed /\ k \in DOMAIN typed
    BY PassThruArgsAre, TypedPlaces
  <2>2. PassThruTyped[k].id \in P!HandledIds
    BY SpokenIsHandled
  <2> QED
    BY <2>1, <2>2, PassThruTypedWords
<1>4. PICK n \in DOMAIN s : s[n] = k
  BY <1>3, PassThruArgsAre
<1>5. Alike(ptArgs[n], PassThruTyped[k]) /\ n \in DOMAIN ptArgs
  BY <1>4, PassThruArgsAre
<1>6. /\ ptArgs[n].id \in P!NumberIds /\ ptArgs[n].val = PassThruTyped[k].val
      /\ P!NumberOf[ptArgs[n].id] = P!NumberOf[PassThruTyped[k].id]
  BY <1>5 DEF Alike
<1>7. P!Widened(ptArgs[n]) = ptArgs[n].val
  BY <1>5, <1>6 DEF P!NumbersIntact
<1>8. P!Widened(ptArgs[n]) = P!Widened(PassThruTyped[k])
  BY <1>6, Zenon DEF P!Widened
<1> QED
  BY <1>6, <1>7, <1>8

\* The promises of the encoder are kept for the line as typed.
LEMMA PassThruKept == EncodersInv => PassThruPacketAsTyped
<1> SUFFICES ASSUME EncodersInv, ReadyToSend, bufOwner = PassThruParser
             PROVE  /\ PassThruAsTyped!FieldsReachTheWire /\ PassThruAsTyped!DefaultsOnWire
                    /\ PassThruAsTyped!HeaderChecksumCloses /\ PassThruAsTyped!PayloadOnWire
  BY DEF PassThruPacketAsTyped
<1>1. PassThruSawTheLine /\ ptStatus = "packed"
  BY PassThruMadeIt
<1>2. P!FieldsReachTheWire /\ P!DefaultsOnWire /\ P!HeaderChecksumCloses /\ P!PayloadOnWire
  BY PassThruAssumptions, P!EncoderPromises DEF EncodersInv
<1>3. \A w, b : P!Asked(w, b) <=> PassThruAsTyped!Asked(w, b)
  BY <1>1, SameAsked
<1>4. /\ P!Given("pkttype") <=> PassThruAsTyped!Given("pkttype")
      /\ P!Given("pktsec") <=> PassThruAsTyped!Given("pktsec")
      /\ P!Given("pktseqflg") <=> PassThruAsTyped!Given("pktseqflg")
      /\ P!Given("pktlen") <=> PassThruAsTyped!Given("pktlen")
      /\ P!Given("pktendian") <=> PassThruAsTyped!Given("pktendian")
      /\ P!Given("pktcksum") <=> PassThruAsTyped!Given("pktcksum")
  <2>1. \A id \in P!Overridable : P!Given(id) <=> PassThruAsTyped!Given(id)
    BY <1>1, SameGiven DEF Spoken
  <2> QED
    BY <2>1 DEF P!Overridable
<1>5. /\ \A w : P!OnWire(w) = PassThruAsTyped!OnWire(w)
      /\ P!SentWords = PassThruAsTyped!SentWords
      /\ \A w : P!Defaulted(w) = PassThruAsTyped!Defaulted(w)
      /\ \A T : P!Value(T) = PassThruAsTyped!Value(T)
      /\ \A bytes : P!XorAll(bytes) = PassThruAsTyped!XorAll(bytes)
      /\ \A ss : P!FlattenSeq(ss) = PassThruAsTyped!FlattenSeq(ss)
  BY <1>1, SamePacket
<1>6. /\ P!ChosenLayout = PassThruAsTyped!ChosenLayout
      /\ P!HeaderSize(P!ChosenLayout) = PassThruAsTyped!HeaderSize(PassThruAsTyped!ChosenLayout)
  BY <1>1, SameLayout, SameTables
<1>7. PassThruAsTyped!FieldsReachTheWire
  BY <1>2, <1>3, <1>5 DEF P!FieldsReachTheWire, PassThruAsTyped!FieldsReachTheWire
<1>8. PassThruAsTyped!DefaultsOnWire
  <2>1. P!BigAt(Len(ptArgs)) <=> PassThruAsTyped!BigAt(Len(PassThruTyped))
    BY <1>1, SameEndiannessAtTheEnd
  <2> QED
    BY <1>2, <1>3, <1>4, <1>5, <1>6, <2>1 DEF P!DefaultsOnWire, PassThruAsTyped!DefaultsOnWire
<1>9. PassThruAsTyped!HeaderChecksumCloses
  BY <1>2, <1>4, <1>5, <1>6 DEF P!HeaderChecksumCloses, PassThruAsTyped!HeaderChecksumCloses
<1>10. PassThruAsTyped!PayloadOnWire
  <2>1. PassThruAsTyped!StringLengthsClear => P!StringLengthsClear
    <3> DEFINE s == calls[PassThruParser]
    <3> SUFFICES ASSUME PassThruAsTyped!StringLengthsClear,
                        NEW n \in DOMAIN ptArgs, ptArgs[n].id = "string"
                 PROVE  ptArgs[n].width + MAX_PACKET_SIZE < UINT_MOD
      BY DEF P!StringLengthsClear
    <3>1. s[n] \in DOMAIN PassThruTyped /\ ptArgs[n] = PassThruTyped[s[n]]
      BY <1>1, PassThruArgsAre, TypedPlaces DEF Alike
    <3> QED
      BY <3>1 DEF PassThruAsTyped!StringLengthsClear
  <2>2. P!FlattenSeq([n \in DOMAIN ptArgs |-> P!Image(n)])
          = PassThruAsTyped!FlattenSeq([k \in DOMAIN PassThruTyped |-> PassThruAsTyped!Image(k)])
    BY <1>1, <1>5, SamePayload
  <2>3. PassThruAsTyped!NumbersIntact
    BY <1>1, <1>2, SameNumbers DEF P!PayloadOnWire
  <2> QED
    BY <1>1, <1>2, <1>6, <2>1, <2>2, <2>3, Zenon DEF P!PayloadOnWire, PassThruAsTyped!PayloadOnWire
<1> QED
  BY <1>7, <1>8, <1>9, <1>10

\* Whatever is typed in whatever order and under whichever names, a packet the pass-through
\* encoder has sent is what the line says: header bits, defaults, checksum and payload.
THEOREM PassThruPacketsAsTyped == Spec => []PassThruPacketAsTyped
BY EncodersInvariance, PassThruKept, PTL
=============================================================================
