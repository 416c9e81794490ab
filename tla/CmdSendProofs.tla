---------------------------- MODULE CmdSendProofs ---------------------------
(***************************************************************************)
(* Proofs about main, for any number of encoders and any command lines:    *)
(* the count of good encoders, the ownership of the shared buffer, the     *)
(* life of the encoder objects, that every step of main is a step of       *)
(* Dispatch or invisible to it, and what the encoders are given of the     *)
(* command line and in which order.                                        *)
(***************************************************************************)
EXTENDS CmdSendRefinement, IndexLemmas, FiniteSetTheorems, TLAPS

\* The variables of the loops over the encoders.
LoopTypeOK ==
    /\ pc \in PCs
    /\ Obj \subseteq Parsers
    /\ IsOK \subseteq Parsers
    /\ GoodParsers \in Int
    /\ j \in Parsers
    /\ ContentSize \in {0, 1}

\* How far each loop has come, at every point of main.
Progress ==
    /\ pc \in {"count", "categorize"} => IsOK = {} /\ j = 1
    /\ pc = "instantiate" => \A p \in IsOK : p < j
    /\ pc \in {"count", "categorize", "instantiate", "parse"} => ContentSize = 0
    /\ ContentSize = 0 => packed = {}
    /\ pc = "report" /\ ContentSize > 0 => j = 1
    /\ pc = "destroy" => \A p \in Obj : j <= p

\* The inductive invariant.
IInv ==
    /\ LoopTypeOK
    /\ Progress
    /\ GoodParsersCounts
    /\ BufferHoldsThePacket
    /\ ObjectsLiveAndFreed

\* A set of encoders is finite.
LEMMA EncodersFinite ==
  ASSUME NEW S, S \subseteq Parsers
  PROVE  IsFiniteSet(S)
<1>1. IsFiniteSet(1..NUM_PARSERS)
  BY ParserAssumption, FS_Interval
<1> QED
  BY <1>1, FS_Subset DEF Parsers

\* Where ForeachParser goes next.
LEMMA NextParserShape ==
  ASSUME j \in Parsers, NEW after \in PCs, NextParser(after)
  PROVE  /\ j' \in Parsers
         /\ \/ pc' = pc /\ j' = j + 1
            \/ pc' = after /\ j' = 1 /\ j = NUM_PARSERS
BY ParserAssumption DEF NextParser, Parsers

\* main starts with no encoders.
LEMMA InitIInv == Init => IInv
<1> SUFFICES ASSUME Init PROVE IInv
  OBVIOUS
<1>1. LoopTypeOK
  BY ParserAssumption DEF Init, LoopTypeOK, PCs, Parsers
<1>2. Progress
  BY DEF Init, Progress
<1>3. GoodParsersCounts
  BY FS_EmptySet DEF Init, GoodParsersCounts
<1>4. BufferHoldsThePacket /\ ObjectsLiveAndFreed
  BY DEF Init, BufferHoldsThePacket, ObjectsLiveAndFreed
<1> QED
  BY <1>1, <1>2, <1>3, <1>4 DEF IInv

\* CollectOptions touches none of it.
LEMMA CollectStep ==
  ASSUME IInv, CountOptions \/ CategorizeOption \/ CollectNonOption \/ AllCollected
  PROVE  IInv'
<1> USE DEF IInv, LoopTypeOK, Progress, GoodParsersCounts, BufferHoldsThePacket, ObjectsLiveAndFreed, PCs
<1>1. CASE CountOptions
  BY <1>1 DEF CountOptions
<1>2. CASE CategorizeOption
  BY <1>2 DEF CategorizeOption
<1>3. CASE CollectNonOption
  BY <1>3 DEF CollectNonOption
<1>4. CASE AllCollected
  BY <1>4 DEF AllCollected
<1> QED
  BY <1>1, <1>2, <1>3, <1>4

\* An encoder that is instantiated was not counted before.
LEMMA InstantiateStep ==
  ASSUME IInv, InstantiateParser
  PROVE  IInv'
<1> USE DEF IInv
<1>1. /\ j \in Parsers /\ pc = "instantiate" /\ "parse" \in PCs
      /\ NextParser("parse")
      /\ ContentSize = 0 /\ ContentSize' = 0 /\ packed' = packed /\ packed = {}
  BY DEF InstantiateParser, LoopTypeOK, Progress, PCs
<1>2. /\ j' \in Parsers
      /\ pc' \in {"instantiate", "parse"}
      /\ pc' = "instantiate" => j' = j + 1
  BY <1>1, NextParserShape
<1>3. CASE /\ Obj' = Obj \cup {j}
           /\ IsOK' = IsOK \cup {j}
           /\ GoodParsers' = GoodParsers + 1
  <2>1. j \notin IsOK
    BY <1>1 DEF Progress, LoopTypeOK, Parsers
  <2>2. IsFiniteSet(IsOK)
    BY EncodersFinite DEF LoopTypeOK
  <2>3. Cardinality(IsOK') = Cardinality(IsOK) + 1
    BY <1>3, <2>1, <2>2, FS_AddElement
  <2>4. GoodParsersCounts' /\ LoopTypeOK'
    BY <1>1, <1>2, <1>3, <2>3 DEF GoodParsersCounts, LoopTypeOK, PCs
  <2>5. Progress'
    BY <1>1, <1>2, <1>3 DEF Progress, LoopTypeOK, Parsers
  <2> QED
    BY <1>1, <1>2, <1>3, <2>4, <2>5 DEF BufferHoldsThePacket, ObjectsLiveAndFreed
<1>4. CASE UNCHANGED <<Obj, IsOK, GoodParsers>>
  <2>1. Progress'
    BY <1>1, <1>2, <1>4 DEF Progress, LoopTypeOK, Parsers
  <2> QED
    BY <1>1, <1>2, <1>4, <2>1
       DEF LoopTypeOK, GoodParsersCounts, BufferHoldsThePacket, ObjectsLiveAndFreed, PCs
<1> QED
  BY <1>3, <1>4 DEF InstantiateParser

\* An encoder put out was counted once: it is uncounted once.
LEMMA ParseStep ==
  ASSUME IInv, DoParseOption
  PROVE  IInv'
<1> USE DEF IInv
<1>1. /\ j \in Parsers /\ pc = "parse" /\ "parse" \in PCs
      /\ NextParser("parse")
      /\ ContentSize = 0 /\ ContentSize' = 0 /\ packed' = packed /\ packed = {} /\ Obj' = Obj
  BY DEF DoParseOption, LoopTypeOK, Progress, PCs
<1>2. j' \in Parsers /\ pc' = "parse"
  BY <1>1, NextParserShape
<1>3. ASSUME j \in IsOK, PutOut(j) PROVE IInv'
  <2>1. IsFiniteSet(IsOK)
    BY EncodersFinite DEF LoopTypeOK
  <2>2. Cardinality(IsOK') = Cardinality(IsOK) - 1
    BY <1>3, <2>1, FS_RemoveElement DEF PutOut
  <2>3. LoopTypeOK' /\ GoodParsersCounts'
    BY <1>1, <1>2, <1>3, <2>2 DEF PutOut, LoopTypeOK, GoodParsersCounts
  <2> QED
    BY <1>1, <1>2, <1>3, <2>3 DEF PutOut, Progress, BufferHoldsThePacket, ObjectsLiveAndFreed
<1>4. CASE UNCHANGED <<IsOK, GoodParsers>>
  BY <1>1, <1>2, <1>4
     DEF LoopTypeOK, Progress, GoodParsersCounts, BufferHoldsThePacket, ObjectsLiveAndFreed
<1> QED
  BY <1>3, <1>4 DEF DoParseOption

\* The rest of the parse loop changes only the argument at hand and leaves for the
\* help or for the encoding.
LEMMA ParseLoopStep ==
  ASSUME IInv, SkipNoText \/ ParsingDone
  PROVE  IInv'
<1> USE DEF IInv, LoopTypeOK, Progress, GoodParsersCounts, BufferHoldsThePacket, ObjectsLiveAndFreed, PCs
<1>1. CASE SkipNoText
  BY <1>1 DEF SkipNoText
<1>2. CASE ParsingDone
  BY <1>2 DEF ParsingDone, AfterParsing
<1> QED
  BY <1>1, <1>2

\* An encoder is asked for the packet only while there is none.
LEMMA EncodeStep ==
  ASSUME IInv, DoEncode
  PROVE  IInv'
<1> USE DEF IInv
<1>1. /\ j \in Parsers /\ pc = "encode" /\ "report" \in PCs
      /\ NextParser("report")
      /\ UNCHANGED <<Obj, IsOK, GoodParsers>>
  BY DEF DoEncode, LoopTypeOK, PCs
<1>2. /\ j' \in Parsers
      /\ pc' \in {"encode", "report"}
      /\ pc' = "report" => j' = 1
  BY <1>1, NextParserShape
<1>3. /\ ContentSize' \in {0, 1}
      /\ ContentSize' = 0 => packed' = {}
      /\ ContentSize' > 0 => packed' = {bufOwner'} /\ bufOwner' \in IsOK
  <2>1. CASE MayEncode /\ j \in IsOK
    BY <2>1 DEF DoEncode, MayEncode, Progress
  <2>2. CASE ~(MayEncode /\ j \in IsOK)
    BY <2>2 DEF DoEncode, Progress, BufferHoldsThePacket, LoopTypeOK
  <2> QED
    BY <2>1, <2>2
<1>4. LoopTypeOK' /\ Progress'
  BY <1>1, <1>2, <1>3 DEF LoopTypeOK, Progress, PCs
<1> QED
  BY <1>1, <1>2, <1>3, <1>4 DEF GoodParsersCounts, BufferHoldsThePacket, ObjectsLiveAndFreed

\* Help and error reports change no encoder.
LEMMA ReportStep ==
  ASSUME IInv, DoShowHelp \/ DoShowError \/ Send
  PROVE  IInv'
<1> USE DEF IInv
<1>1. UNCHANGED <<Obj, IsOK, GoodParsers, ContentSize, bufOwner, packed>>
  BY DEF DoShowHelp, DoShowError, Send
<1>2. /\ j \in Parsers /\ pc \in {"help", "report"}
      /\ pc = "report" /\ ContentSize > 0 => j = 1
  BY DEF DoShowHelp, DoShowError, Send, LoopTypeOK, Progress
<1>3. /\ j' \in Parsers
      /\ pc' \in {"help", "report", "destroy"}
      /\ pc' = "destroy" => j' = 1
      /\ pc' = "report" => ContentSize = 0
  <2>1. CASE DoShowHelp
    <3>1. NextParser("destroy") /\ "destroy" \in PCs /\ pc = "help"
      BY <2>1 DEF DoShowHelp, PCs
    <3> QED
      BY <3>1, <1>2, NextParserShape
  <2>2. CASE DoShowError
    <3>1. NextParser("destroy") /\ "destroy" \in PCs /\ pc = "report" /\ ContentSize = 0
      BY <2>2 DEF DoShowError, PCs
    <3> QED
      BY <3>1, <1>2, NextParserShape
  <2>3. CASE Send
    BY <2>3, <1>2 DEF Send
  <2> QED
    BY <2>1, <2>2, <2>3
<1>4. Obj \subseteq Parsers /\ \A p \in Parsers : 1 <= p
  BY ParserAssumption DEF LoopTypeOK, Parsers
<1>5. ObjectsLiveAndFreed'
  BY <1>1, <1>2, <1>3 DEF ObjectsLiveAndFreed
<1>6. Progress' /\ LoopTypeOK'
  BY <1>1, <1>2, <1>3, <1>4 DEF Progress, LoopTypeOK, PCs
<1> QED
  BY <1>1, <1>5, <1>6 DEF GoodParsersCounts, BufferHoldsThePacket

\* The objects left are those of the encoders not visited yet.
LEMMA DestroyStep ==
  ASSUME IInv, DestroyParser \/ Exit
  PROVE  IInv'
<1> USE DEF IInv
<1>1. CASE DestroyParser
  <2>1. /\ pc = "destroy" /\ j \in Parsers /\ Obj \subseteq Parsers
        /\ Obj' = Obj \ {j}
        /\ \A p \in Obj : j <= p
        /\ NextParser("exit") /\ "exit" \in PCs
        /\ UNCHANGED <<IsOK, GoodParsers, ContentSize, bufOwner, packed>>
    BY <1>1 DEF DestroyParser, Live, LoopTypeOK, Progress, PCs
  <2>2. /\ j' \in Parsers
        /\ \/ pc' = "destroy" /\ j' = j + 1
           \/ pc' = "exit" /\ j = NUM_PARSERS
    BY <2>1, NextParserShape
  <2>3. pc' = "destroy" => \A p \in Obj' : j' <= p
    BY <2>1, <2>2 DEF Parsers
  <2>4. pc' = "exit" => Obj' = {}
    BY <2>1, <2>2, ParserAssumption DEF Parsers
  <2>5. Progress' /\ LoopTypeOK'
    BY <2>1, <2>2, <2>3 DEF Progress, LoopTypeOK, PCs
  <2> QED
    BY <2>1, <2>2, <2>4, <2>5 DEF GoodParsersCounts, BufferHoldsThePacket, ObjectsLiveAndFreed
<1>2. CASE Exit
  BY <1>2 DEF Exit, LoopTypeOK, Progress, GoodParsersCounts, BufferHoldsThePacket,
              ObjectsLiveAndFreed, PCs
<1> QED
  BY <1>1, <1>2

-----------------------------------------------------------------------------

\* Every step keeps the invariant.
LEMMA NextStep ==
  ASSUME IInv, [Next]_vars
  PROVE  IInv'
<1>1. CASE CountOptions \/ CategorizeOption \/ CollectNonOption \/ AllCollected
  BY <1>1, CollectStep
<1>2. CASE InstantiateParser
  BY <1>2, InstantiateStep
<1>3. CASE DoParseOption
  BY <1>3, ParseStep
<1>4. CASE SkipNoText \/ ParsingDone
  BY <1>4, ParseLoopStep
<1>5. CASE DoEncode
  BY <1>5, EncodeStep
<1>6. CASE DoShowHelp \/ DoShowError \/ Send
  BY <1>6, ReportStep
<1>7. CASE DestroyParser \/ Exit
  BY <1>7, DestroyStep
<1>8. CASE UNCHANGED vars
  BY <1>8 DEF vars, IInv, LoopTypeOK, Progress, GoodParsersCounts, BufferHoldsThePacket,
              ObjectsLiveAndFreed
<1> QED
  BY <1>1, <1>2, <1>3, <1>4, <1>5, <1>6, <1>7, <1>8 DEF Next

\* The inductive invariant holds throughout.
THEOREM Invariance == Spec => []IInv
<1>1. Init => IInv
  BY InitIInv
<1>2. IInv /\ [Next]_vars => IInv'
  BY NextStep
<1> QED
  BY <1>1, <1>2, PTL DEF Spec

\* The counter that ends main's parse loop is the number of encoders that are
\* still good, for any number of encoders, whatever they answer.
THEOREM CounterAgrees == Spec => []GoodParsersCounts
<1>1. IInv => GoodParsersCounts
  BY DEF IInv
<1> QED
  BY <1>1, Invariance, PTL

\* The packet that is sent is the one the network buffer holds.
THEOREM BufferUndisturbed == Spec => []BufferHoldsThePacket
<1>1. IInv => BufferHoldsThePacket
  BY DEF IInv
<1> QED
  BY <1>1, Invariance, PTL

\* Every encoder has its object as long as it is called, and none is left.
THEOREM ObjectsFreed == Spec => []ObjectsLiveAndFreed
<1>1. IInv => ObjectsLiveAndFreed
  BY DEF IInv
<1> QED
  BY <1>1, Invariance, PTL

-----------------------------------------------------------------------------
(* The option table.                                                       *)

\* The rows of help and host, which share their letters with no other.
LEMMA TableRows ==
  /\ DOMAIN LONGINFO = 1..44
  /\ \A k \in 1..44 : LONGINFO[k].name = "help" <=> k = 1
  /\ \A k \in 1..44 : LONGINFO[k].val = "?" <=> k = 1
  /\ \A k \in 1..44 : LONGINFO[k].name = "host" <=> k = 12
  /\ \A k \in 1..44 : LONGINFO[k].val = "H" <=> k = 12
<1>1. DOMAIN LONGINFO = 1..44
  BY DEF LONGINFO
<1>2. \A k \in 1..44 : LONGINFO[k].name = "help" <=> k = 1
  BY SMTT(60) DEF LONGINFO, Option
<1>3. \A k \in 1..44 : LONGINFO[k].val = "?" <=> k = 1
  BY SMTT(60) DEF LONGINFO, Option
<1>4. \A k \in 1..44 : LONGINFO[k].name = "host" <=> k = 12
  BY SMTT(60) DEF LONGINFO, Option
<1>5. \A k \in 1..44 : LONGINFO[k].val = "H" <=> k = 12
  BY SMTT(60) DEF LONGINFO, Option
<1> QED
  BY <1>1, <1>2, <1>3, <1>4, <1>5

\* Names that share a letter stand next to each other, three at most.
LEMMA LastRowWithLetter ==
  ASSUME NEW k \in 1..44
  PROVE  \E w \in {k, k + 1, k + 2} :
           /\ w \in 1..44
           /\ LONGINFO[w].val = LONGINFO[k].val
           /\ \A y \in 1..44 : LONGINFO[y].val = LONGINFO[k].val => w >= y
BY SMTT(100) DEF LONGINFO, Option

\* The name a row's letter is turned into has that letter too.
LEMMA NameOfRow ==
  ASSUME NEW k \in 1..44
  PROVE  \E w \in 1..44 : /\ LONGINFO[w].val = LONGINFO[k].val
                          /\ NameOf(LONGINFO[k].val) = LONGINFO[w].name
<1> DEFINE S == {y \in DOMAIN LONGINFO : LONGINFO[y].val = LONGINFO[k].val}
<1>1. PICK w \in S : \A y \in S : w >= y
  <2>1. S = {y \in 1..44 : LONGINFO[y].val = LONGINFO[k].val}
    BY TableRows
  <2> HIDE DEF S
  <2> QED
    BY <2>1, LastRowWithLetter
<1>2. Max(S) \in S
  BY <1>1 DEF Max
<1>3. NameOf(LONGINFO[k].val) = LONGINFO[Max(S)].name
  BY DEF NameOf
<1> QED
  BY <1>2, <1>3, TableRows

\* The letter of an option is that of its row.
LEMMA LetterOfWord ==
  ASSUME NEW t \in LineTokens, t \notin {"argument", "unknown"}
  PROVE  \E m \in 1..44 : LONGINFO[m].name = t /\ Letter(t) = LONGINFO[m].val
<1> DEFINE o == CHOOSE r \in Range(LONGINFO) : r.name = t
<1>1. PICK k \in 1..44 : LONGINFO[k].name = t
  BY TableRows DEF LineTokens, OptionNames
<1>2. LONGINFO[k] \in Range(LONGINFO)
  BY TableRows DEF Range
<1>3. o \in Range(LONGINFO) /\ o.name = t
  BY <1>1, <1>2
<1>4. Letter(t) = o.val
  BY DEF Letter
<1> HIDE DEF o
<1> QED
  BY <1>3, <1>4, TableRows DEF Range

\* A word of the line is taken for help exactly when it is help or no option, and
\* for a host exactly when it is one.
LEMMA WordTakenFor ==
  ASSUME NEW t \in LineTokens, t # "argument"
  PROVE  /\ NameOf(Letter(t)) = "help" <=> t \in {"help", "unknown"}
         /\ NameOf(Letter(t)) = "host" <=> t = "host"
<1>1. CASE t = "unknown"
  <2>1. Letter(t) = LONGINFO[1].val
    BY <1>1, TableRows DEF Letter
  <2>2. PICK w \in 1..44 : LONGINFO[w].val = LONGINFO[1].val /\ NameOf(LONGINFO[1].val) = LONGINFO[w].name
    <3>1. 1 \in 1..44
      OBVIOUS
    <3> QED
      BY <3>1, NameOfRow
  <2> QED
    BY <1>1, <2>1, <2>2, TableRows
<1>2. CASE t # "unknown"
  <2>2. PICK m \in 1..44 : LONGINFO[m].name = t /\ Letter(t) = LONGINFO[m].val
    BY <1>2, LetterOfWord
  <2>3. PICK w \in 1..44 : LONGINFO[w].val = LONGINFO[m].val /\ NameOf(LONGINFO[m].val) = LONGINFO[w].name
    BY NameOfRow
  <2>4. w = 1 <=> m = 1
    <3>1. LONGINFO[w].val = "?" <=> LONGINFO[m].val = "?"
      BY <2>3
    <3> QED
      BY <3>1, TableRows
  <2>5. w = 12 <=> m = 12
    <3>1. LONGINFO[w].val = "H" <=> LONGINFO[m].val = "H"
      BY <2>3
    <3> QED
      BY <3>1, TableRows
  <2>6. NameOf(Letter(t)) = LONGINFO[w].name
    BY <2>2, <2>3
  <2>7. (NameOf(Letter(t)) = "help" <=> w = 1) /\ (NameOf(Letter(t)) = "host" <=> w = 12)
    BY <2>6, TableRows
  <2>8. (t = "help" <=> m = 1) /\ (t = "host" <=> m = 12)
    BY <2>2, TableRows
  <2> QED
    BY <1>2, <2>4, <2>5, <2>7, <2>8
<1> QED
  BY <1>1, <1>2

-----------------------------------------------------------------------------
(* What main knows of the command line.                                    *)

\* h is the last host that getopt_long has come by.
IsHostSoFar(h) ==
    /\ h = 0 \/ (h \in DOMAIN line /\ line[h] = "host")
    /\ \A k \in DOMAIN line : k < optind /\ line[k] = "host" => k <= h

HelpSoFar == \E k \in DOMAIN line : k < optind /\ line[k] \in {"help", "unknown"}

\* The invariant of the options: what the second pass has learned so far, that it
\* is complete once it is over, and that nothing is encoded when help is due.
LineInv ==
    /\ line \in Seq(LineTokens)
    /\ optind \in Nat \ {0}
    /\ HostName \in Nat
    /\ ShowHelp \in BOOLEAN
    /\ ShowHelp <=> HelpSoFar
    /\ IsHostSoFar(HostName)
    /\ pc \notin {"count", "categorize", "failed"} => OptionsLeft = {}
    /\ pc \in {"encode", "report"} => ~ShowHelp

\* main starts knowing nothing.
LEMMA InitLineInv == Init => LineInv
<1> SUFFICES ASSUME Init PROVE LineInv
  OBVIOUS
<1>1. line \in Seq(LineTokens) /\ optind = 1 /\ HostName = 0 /\ ShowHelp = FALSE /\ pc = "count"
  BY LineAssumption DEF Init
<1>2. ~HelpSoFar /\ IsHostSoFar(HostName)
  BY <1>1 DEF HelpSoFar, IsHostSoFar
<1>3. ShowHelp \in BOOLEAN /\ (ShowHelp <=> HelpSoFar)
  BY <1>1, <1>2, Zenon
<1> QED
  BY <1>1, <1>2, <1>3 DEF LineInv

\* One option more: everything before optind' that was not before optind is k or a
\* word getopt_long passes over.
LEMMA CategorizeLine ==
  ASSUME LineInv, CategorizeOption
  PROVE  LineInv'
<1>1. PICK k \in OptionsLeft :
        /\ \A m \in OptionsLeft : k <= m
        /\ optind' = k + 1
        /\ ShowHelp' = (ShowHelp \/ NameOf(Letter(line[k])) = "help")
        /\ HostName' = IF NameOf(Letter(line[k])) = "host" THEN k ELSE HostName
  BY DEF CategorizeOption
<1>2. /\ pc = "categorize" /\ pc' = pc /\ line' = line
      /\ line \in Seq(LineTokens) /\ optind \in Nat \ {0}
  BY DEF CategorizeOption, LineInv
<1>3. /\ k \in DOMAIN line /\ k \in Nat \ {0} /\ optind <= k
      /\ line[k] \in LineTokens /\ line[k] # "argument"
  BY <1>2 DEF OptionsLeft
<1>4. \A m \in DOMAIN line : m < k + 1 /\ line[m] # "argument" => m < optind \/ m = k
  BY <1>1, <1>2, <1>3 DEF OptionsLeft
<1>5. ShowHelp' \in BOOLEAN /\ (ShowHelp' <=> HelpSoFar')
  <2>1. ShowHelp' <=> ShowHelp \/ line[k] \in {"help", "unknown"}
    BY <1>1, <1>3, WordTakenFor
  <2>2. HelpSoFar' <=> HelpSoFar \/ line[k] \in {"help", "unknown"}
    <3>1. \A m \in DOMAIN line : m \in Nat
      BY <1>2
    <3>2. HelpSoFar' = \E m \in DOMAIN line : m < k + 1 /\ line[m] \in {"help", "unknown"}
      BY <1>1, <1>2 DEF HelpSoFar
    <3>3. ASSUME NEW m \in DOMAIN line, m < optind PROVE m < k + 1
      BY <1>2, <1>3, <3>1, <3>3
    <3> QED
      BY <1>3, <1>4, <3>1, <3>2, <3>3 DEF HelpSoFar
  <2> QED
    BY <2>1, <2>2, <1>1 DEF LineInv
<1>6. HostName' \in Nat /\ IsHostSoFar(HostName)'
  <2>1. HostName' = IF line[k] = "host" THEN k ELSE HostName
    BY <1>1, <1>3, WordTakenFor
  <2> QED
    BY <2>1, <1>1, <1>2, <1>3, <1>4 DEF LineInv, IsHostSoFar
<1> QED
  BY <1>1, <1>2, <1>3, <1>5, <1>6 DEF LineInv

\* Nothing else changes what main knows.
LEMMA LineStep ==
  ASSUME LineInv, IInv, [Next]_vars
  PROVE  LineInv'
<1>1. CASE CategorizeOption
  BY <1>1, CategorizeLine
<1>2. CASE CollectNonOption \/ AllCollected
  BY <1>2 DEF CollectNonOption, AllCollected, LineInv, HelpSoFar, IsHostSoFar, OptionsLeft
<1>3. CASE ParsingDone
  BY <1>3 DEF ParsingDone, AfterParsing, LineInv, HelpSoFar, IsHostSoFar, OptionsLeft
<1>4. ASSUME /\ UNCHANGED <<line, optind, HostName, ShowHelp>>
             /\ pc' \in {"count", "categorize", "failed"} \/ pc \notin {"count", "categorize", "failed"}
             /\ pc' \in {"encode", "report"} => pc \in {"encode", "report"}
      PROVE  LineInv'
  BY <1>4 DEF LineInv, HelpSoFar, IsHostSoFar, OptionsLeft
<1>5. CASE CountOptions \/ SkipNoText \/ Send \/ Exit \/ UNCHANGED vars
  BY <1>4, <1>5 DEF CountOptions, SkipNoText, Send, Exit, vars
<1>6. CASE InstantiateParser \/ DoParseOption \/ DoShowHelp \/ DoEncode \/ DoShowError \/ DestroyParser
  BY <1>4, <1>6 DEF InstantiateParser, DoParseOption, DoShowHelp, DoEncode, DoShowError,
                    DestroyParser, NextParser
<1> QED
  BY <1>1, <1>2, <1>3, <1>5, <1>6 DEF Next

\* Once the second pass is over main knows what was asked.
LEMMA RequestKnown ==
  ASSUME LineInv, pc \in {"encode", "report"}
  PROVE  ~HelpAsked /\ HostAsked = HostName
<1>1. \A k \in DOMAIN line : line[k] # "argument" => k < optind
  BY DEF LineInv, OptionsLeft
<1>2. ~HelpAsked
  BY <1>1 DEF HelpAsked, LineInv, HelpSoFar
<1>3. IsHostAsked(HostName) /\ HostName \in 0..Len(line)
  BY <1>1 DEF LineInv, IsHostSoFar, IsHostAsked
<1>4. \A h \in 0..Len(line) : IsHostAsked(h) => h = HostName
  BY <1>3 DEF IsHostAsked, LineInv
<1> QED
  BY <1>2, <1>3, <1>4 DEF HostAsked

-----------------------------------------------------------------------------
(* What came out so far, and the encoders instantiated so far.             *)

Outputs ==
    [what : {"options", "error", "usage"}, who : Nat]
      \cup [what : {"packet"}, who : Nat, host : Nat]

OutInv ==
    /\ output \in Seq(Outputs)
    /\ pc \notin {"destroy", "exit", "done"} => Events("packet") = {}
    /\ pc \in {"count", "categorize"} => Obj = {}
    /\ pc = "instantiate" => \A p \in Obj : p < j
    /\ bufOwner \in Nat

\* One thing more comes out.
LEMMA AppendOutput ==
  ASSUME NEW e \in Outputs, output \in Seq(Outputs), output' = Append(output, e)
  PROVE  /\ output' \in Seq(Outputs)
         /\ e.what # "packet" => Events("packet")' = Events("packet") /\ Sent' = Sent
         /\ e.what = "packet" /\ Events("packet") = {} => Sent' = {[who |-> e.who, host |-> e.host]}
<1>1. /\ output' \in Seq(Outputs)
      /\ DOMAIN output' = DOMAIN output \cup {Len(output) + 1}
      /\ output'[Len(output) + 1] = e
      /\ \A k \in DOMAIN output : output'[k] = output[k] /\ k # Len(output) + 1
  OBVIOUS
<1>2. ASSUME e.what # "packet" PROVE Events("packet")' = Events("packet") /\ Sent' = Sent
  <2>1. Events("packet")' = Events("packet")
    BY <1>1, <1>2 DEF Events
  <2>2. \A k \in Events("packet") : output'[k] = output[k]
    BY <1>1 DEF Events
  <2> QED
    BY <2>1, <2>2 DEF Sent
<1>3. ASSUME e.what = "packet", Events("packet") = {}
      PROVE  Sent' = {[who |-> e.who, host |-> e.host]}
  <2>1. Events("packet")' = {Len(output) + 1}
    BY <1>1, <1>3 DEF Events
  <2> QED
    BY <1>1, <2>1 DEF Sent
<1> QED
  BY <1>1, <1>2, <1>3

\* Nothing has come out at the start.
LEMMA InitOutInv == Init => OutInv /\ Sent = {}
<1> SUFFICES ASSUME Init PROVE OutInv /\ Sent = {}
  OBVIOUS
<1>1. output = <<>> /\ Obj = {} /\ bufOwner = 0
  BY DEF Init
<1>2. Events("packet") = {}
  BY <1>1 DEF Events
<1> QED
  BY <1>1, <1>2 DEF OutInv, Sent

\* The steps after which something more is out: all but the packet are invisible.
LEMMA OutputStep ==
  ASSUME OutInv, LineInv, IInv, DoShowHelp \/ DoShowError \/ Send \/ Exit
  PROVE  /\ output' \in Seq(Outputs)
         /\ ~Send => Events("packet")' = Events("packet") /\ Sent' = Sent
         /\ Send => Sent' = {[who |-> bufOwner, host |-> HostName]}
<1>1. /\ output \in Seq(Outputs) /\ j \in Nat /\ bufOwner \in Nat /\ HostName \in Nat
      /\ pc # "destroy" /\ pc # "exit" /\ pc # "done" => Events("packet") = {}
  BY ParserAssumption DEF OutInv, LineInv, IInv, LoopTypeOK, Parsers
<1>2. ASSUME NEW what \in {"options", "error", "usage"}, NEW who \in Nat,
             output' = Append(output, Event(what, who))
      PROVE  output' \in Seq(Outputs) /\ Events("packet")' = Events("packet") /\ Sent' = Sent
  <2> DEFINE e == Event(what, who)
  <2>1. e \in Outputs
    BY DEF Event, Outputs
  <2>2. e.what # "packet" /\ output' = Append(output, e)
    BY <1>2 DEF Event
  <2> HIDE DEF e
  <2> QED
    BY <1>1, <2>1, <2>2, AppendOutput
<1>3. ASSUME output' = output
      PROVE  output' \in Seq(Outputs) /\ Events("packet")' = Events("packet") /\ Sent' = Sent
  BY <1>1, <1>3 DEF Events, Sent
<1>4. CASE DoShowHelp
  BY <1>1, <1>2, <1>3, <1>4 DEF DoShowHelp, Send
<1>5. CASE DoShowError
  BY <1>1, <1>2, <1>3, <1>5 DEF DoShowError, Send
<1>6. CASE Exit
  BY <1>2, <1>3, <1>6 DEF Exit, Send
<1>7. CASE Send
  <2>1. pc = "report"
    BY <1>7 DEF Send
  <2> DEFINE e == [what |-> "packet", who |-> bufOwner, host |-> HostName]
  <2>2. e \in Outputs
    BY <1>1 DEF Outputs
  <2>3. output' = Append(output, e)
    BY <1>7 DEF Send
  <2>4. e.what = "packet" /\ e.who = bufOwner /\ e.host = HostName
    OBVIOUS
  <2> HIDE DEF e
  <2> QED
    BY <1>1, <1>7, <2>1, <2>2, <2>3, <2>4, AppendOutput
<1> QED
  BY <1>4, <1>5, <1>6, <1>7

\* Every step keeps the invariant of the output.
LEMMA OutStep ==
  ASSUME OutInv, LineInv, IInv, [Next]_vars
  PROVE  OutInv'
<1>1. j \in Nat /\ j \in Parsers
  BY ParserAssumption DEF IInv, LoopTypeOK, Parsers
<1>2. ASSUME /\ UNCHANGED <<output, Obj, bufOwner>>
             /\ pc' \notin {"destroy", "exit", "done"} => pc \notin {"destroy", "exit", "done"}
             /\ pc' \in {"count", "categorize"} => pc \in {"count", "categorize"}
             /\ pc' = "instantiate" => pc = "categorize" \/ (pc = "instantiate" /\ j' = j)
      PROVE  OutInv'
  BY <1>2 DEF OutInv, Events
<1>3. CASE CountOptions \/ CategorizeOption \/ CollectNonOption \/ AllCollected \/ SkipNoText \/ ParsingDone \/ UNCHANGED vars
  BY <1>2, <1>3 DEF CountOptions, CategorizeOption, CollectNonOption, AllCollected, SkipNoText, ParsingDone,
                    AfterParsing, vars
<1>4. CASE DoParseOption
  BY <1>2, <1>4 DEF DoParseOption, NextParser
<1>5. CASE InstantiateParser
  <2>1. /\ output' = output /\ bufOwner' = bufOwner
        /\ Obj' \subseteq Obj \cup {j}
        /\ pc = "instantiate" /\ \A p \in Obj : p < j
        /\ Events("packet") = {}
    BY <1>5 DEF InstantiateParser, OutInv
  <2>2. (pc' = "instantiate" /\ j' = j + 1) \/ pc' = "parse"
    BY <1>5 DEF InstantiateParser, NextParser
  <2>3. Obj \subseteq Parsers /\ \A p \in Parsers : p \in Nat
    BY ParserAssumption DEF IInv, LoopTypeOK, Parsers
  <2>4. Events("packet")' = {}
    BY <2>1 DEF Events
  <2>5. pc' = "instantiate" => \A p \in Obj' : p < j'
    BY <1>1, <2>1, <2>2, <2>3
  <2> QED
    BY <2>1, <2>2, <2>4, <2>5 DEF OutInv
<1>6. CASE DoEncode
  <2>1. /\ output' = output /\ Obj' = Obj /\ bufOwner' \in {bufOwner, j}
        /\ pc = "encode" /\ pc' \in {"encode", "report"}
    BY <1>6 DEF DoEncode, NextParser
  <2> QED
    BY <1>1, <2>1 DEF OutInv, Events
<1>7. CASE DestroyParser
  <2>1. output' = output /\ bufOwner' = bufOwner /\ pc' \in {"destroy", "exit"}
    BY <1>7 DEF DestroyParser, NextParser
  <2> QED
    BY <2>1 DEF OutInv
<1>8. CASE DoShowHelp \/ DoShowError \/ Send \/ Exit
  <2>1. /\ output' \in Seq(Outputs)
        /\ ~Send => Events("packet")' = Events("packet")
    BY <1>8, OutputStep
  <2>2. /\ bufOwner' = bufOwner
        /\ pc' \notin {"destroy", "exit", "done"} => pc \notin {"destroy", "exit", "done"} /\ ~Send
        /\ pc' \notin {"count", "categorize", "instantiate"}
    BY <1>8 DEF DoShowHelp, DoShowError, Send, Exit, NextParser
  <2> QED
    BY <2>1, <2>2 DEF OutInv
<1> QED
  BY <1>3, <1>4, <1>5, <1>6, <1>7, <1>8 DEF Next

-----------------------------------------------------------------------------
(* The simulation.                                                         *)

\* What is asked does not change.
LEMMA RequestStays ==
  ASSUME line' = line
  PROVE  Request' = Request
BY DEF Request, HelpAsked, HostAsked, IsHostAsked

\* A step that leaves all of it as it is.
LEMMA Invisible ==
  ASSUME UNCHANGED <<line, Obj, IsOK>>, Phase' = Phase, Sent' = Sent
  PROVE  UNCHANGED D!vars
BY RequestStays DEF D!vars

\* Nothing comes out in these steps.
LEMMA SentStays ==
  ASSUME output' = output
  PROVE  Sent' = Sent
BY DEF Sent, Events

\* Before the encoders are asked for anything but to parse.
LEMMA ReadingStep ==
  ASSUME LineInv, IInv, OutInv,
         CountOptions \/ CategorizeOption \/ CollectNonOption \/ AllCollected \/ InstantiateParser
           \/ SkipNoText \/ DoParseOption \/ ParsingDone
  PROVE  [D!Next]_(D!vars)
<1> USE DEF Phase
<1>1. /\ line' = line /\ output' = output /\ Phase = "reading" /\ j \in Parsers
      /\ Request' = Request /\ Sent' = Sent
  <2>1. line' = line /\ output' = output
    BY DEF CountOptions, CategorizeOption, CollectNonOption, AllCollected, InstantiateParser, SkipNoText,
           DoParseOption, ParsingDone
  <2>2. Phase = "reading" /\ j \in Parsers
    BY DEF CountOptions, CategorizeOption, CollectNonOption, AllCollected, InstantiateParser, SkipNoText,
           DoParseOption, ParsingDone, IInv, LoopTypeOK
  <2> QED
    BY <2>1, <2>2, RequestStays, SentStays
<1>2. CASE CountOptions
  <2>1. CASE pc' = "categorize"
    BY <1>1, <1>2, <2>1, Invisible DEF CountOptions
  <2>2. CASE pc' = "failed"
    BY <1>1, <1>2, <2>2 DEF CountOptions, OutInv, D!Next, D!Abort
  <2> QED
    BY <1>2, <2>1, <2>2 DEF CountOptions
<1>3. CASE CategorizeOption \/ CollectNonOption \/ AllCollected \/ SkipNoText
  BY <1>1, <1>3, Invisible DEF CategorizeOption, CollectNonOption, AllCollected, SkipNoText
<1>4. CASE InstantiateParser
  <2>1. Phase' = "reading" /\ j \notin Obj
    <3>1. Phase' = "reading"
      BY <1>4 DEF InstantiateParser, NextParser
    <3>2. j \in Nat /\ \A p \in Obj : p < j
      BY <1>4, ParserAssumption DEF InstantiateParser, OutInv, IInv, LoopTypeOK, Parsers
    <3> QED
      BY <3>1, <3>2
  <2>2. CASE Obj' = Obj \cup {j} /\ IsOK' = IsOK \cup {j}
    BY <1>1, <2>1, <2>2 DEF D!Next, D!Acquire
  <2>3. CASE UNCHANGED <<Obj, IsOK>>
    BY <1>1, <2>1, <2>3, Invisible
  <2> QED
    BY <1>4, <2>2, <2>3 DEF InstantiateParser
<1>5. CASE DoParseOption
  <2>1. Phase' = "reading" /\ Obj' = Obj
    BY <1>5 DEF DoParseOption, NextParser
  <2>2. CASE j \in IsOK /\ IsOK' = IsOK \ {j}
    BY <1>1, <2>1, <2>2 DEF D!Next, D!Refuse
  <2>3. CASE IsOK' = IsOK
    BY <1>1, <2>1, <2>3, Invisible
  <2> QED
    BY <1>5, <2>2, <2>3 DEF DoParseOption, PutOut
<1>6. CASE ParsingDone
  <2>1. Phase' = "choosing" /\ Obj' = Obj /\ IsOK' = IsOK
    BY <1>6 DEF ParsingDone, AfterParsing
  <2> QED
    BY <1>1, <2>1 DEF D!Next, D!Decide
<1> QED
  BY <1>2, <1>3, <1>4, <1>5, <1>6

\* Help, the packet or the error, and then the end.
LEMMA EndingStep ==
  ASSUME LineInv, IInv, OutInv,
         DoShowHelp \/ DoEncode \/ DoShowError \/ Send \/ DestroyParser \/ Exit
  PROVE  [D!Next]_(D!vars)
<1> USE DEF Phase
<1>1. line' = line /\ IsOK' = IsOK /\ Request' = Request /\ j \in Parsers
  <2>1. line' = line /\ IsOK' = IsOK
    BY DEF DoShowHelp, DoEncode, DoShowError, Send, DestroyParser, Exit
  <2> QED
    BY <2>1, RequestStays DEF IInv, LoopTypeOK
<1>2. CASE DoShowHelp \/ DoShowError
  <2>1. Obj' = Obj /\ Phase = "choosing" /\ Phase' \in {"choosing", "leaving"}
    BY <1>2 DEF DoShowHelp, DoShowError, NextParser
  <2>2. Sent' = Sent
    <3>1. ~Send
      BY <1>2 DEF DoShowHelp, DoShowError, Send
    <3> QED
      BY <1>2, <3>1, OutputStep
  <2>3. CASE Phase' = "choosing"
    BY <1>1, <2>1, <2>2, <2>3, Invisible
  <2>4. CASE Phase' = "leaving"
    BY <1>1, <2>1, <2>2, <2>4 DEF D!Next, D!GiveUp
  <2> QED
    BY <2>1, <2>3, <2>4
<1>3. CASE DoEncode
  <2>1. Obj' = Obj /\ output' = output /\ Phase = "choosing" /\ Phase' = "choosing"
    BY <1>3 DEF DoEncode, NextParser
  <2> QED
    BY <1>1, <2>1, SentStays, Invisible
<1>4. CASE Send
  <2>1. /\ pc = "report" /\ ContentSize > 0 /\ Obj' = Obj
        /\ Phase = "choosing" /\ Phase' = "leaving"
    BY <1>4 DEF Send
  <2>2. bufOwner \in IsOK /\ bufOwner \in Parsers
    BY <2>1 DEF IInv, BufferHoldsThePacket, LoopTypeOK
  <2>3. Sent' = {[who |-> bufOwner, host |-> HostName]}
    BY <1>4, OutputStep
  <2>4. ~Request.help /\ Request.host = HostName
    BY <2>1, RequestKnown DEF Request
  <2>5. D!Deliver(bufOwner)
    BY <1>1, <2>1, <2>2, <2>3, <2>4 DEF D!Deliver
  <2> QED
    BY <2>2, <2>5 DEF D!Next
<1>5. CASE DestroyParser
  <2>1. /\ output' = output /\ Phase = "leaving" /\ Phase' = "leaving"
        /\ Obj' = IF j \in Obj THEN Obj \ {j} ELSE Obj
    BY <1>5 DEF DestroyParser, NextParser, Live
  <2>2. CASE j \in Obj
    BY <1>1, <2>1, <2>2, SentStays DEF D!Next, D!Release
  <2>3. CASE j \notin Obj
    BY <1>1, <2>1, <2>3, SentStays, Invisible
  <2> QED
    BY <2>2, <2>3
<1>6. CASE Exit
  <2>1. Obj' = Obj /\ Obj = {} /\ Phase = "leaving" /\ Phase' = "done"
    BY <1>6 DEF Exit, IInv, ObjectsLiveAndFreed
  <2>2. Sent' = Sent
    <3>1. ~Send
      BY <1>6 DEF Exit, Send
    <3> QED
      BY <1>6, <3>1, OutputStep
  <2> QED
    BY <1>1, <2>1, <2>2 DEF D!Next, D!End
<1> QED
  BY <1>2, <1>3, <1>4, <1>5, <1>6

\* main starts as Dispatch does.
LEMMA InitSimulates == Init => D!Init
<1> SUFFICES ASSUME Init PROVE D!Init
  OBVIOUS
<1>1. Sent = {} /\ Phase = "reading" /\ Obj = {} /\ IsOK = {}
  BY InitOutInv DEF Init, Phase
<1>2. Request.help \in BOOLEAN
  BY DEF Request, HelpAsked
<1> QED
  BY <1>1, <1>2 DEF D!Init

\* main does nothing that Dispatch does not allow: for any number of encoders,
\* whatever they answer, and any command line, at most one packet is sent, by an
\* encoder that refused nothing, to the host typed last, never when help or an
\* unknown option is anywhere on the line; and every encoder is let go before the
\* program ends.  (The liveness part of Dispatch is left to ImplementsDispatch.)
THEOREM ImplementsDispatchSafely == Spec => D!Init /\ [][D!Next]_(D!vars)
<1>1. Init => LineInv /\ OutInv /\ D!Init
  BY InitLineInv, InitOutInv, InitSimulates
<1>2. LineInv /\ OutInv /\ IInv /\ [Next]_vars => LineInv' /\ OutInv'
  BY LineStep, OutStep
<1>3. LineInv /\ OutInv /\ IInv /\ [Next]_vars => [D!Next]_(D!vars)
  <2> SUFFICES ASSUME LineInv, OutInv, IInv, [Next]_vars PROVE [D!Next]_(D!vars)
    OBVIOUS
  <2>1. CASE UNCHANGED vars
    BY <2>1, SentStays, Invisible DEF vars, Phase
  <2> QED
    BY <2>1, ReadingStep, EndingStep DEF Next
<1>4. Spec => []IInv
  BY Invariance
<1> QED
  BY <1>1, <1>2, <1>3, <1>4, PTL DEF Spec

-----------------------------------------------------------------------------
(* The option table: the rows of main's own options.                       *)

\* The options of main are rows of their own, each with a letter of its own.
LEMMA OwnRows ==
  /\ \A k \in 1..44 : LONGINFO[k].name = "verbose" <=> k = 2
  /\ \A k \in 1..44 : LONGINFO[k].val = "v" <=> k = 2
  /\ \A k \in 1..44 : LONGINFO[k].name = "port" <=> k = 16
  /\ \A k \in 1..44 : LONGINFO[k].val = "P" <=> k = 16
<1>1. \A k \in 1..44 : LONGINFO[k].name = "verbose" <=> k = 2
  BY SMTT(60) DEF LONGINFO, Option
<1>2. \A k \in 1..44 : LONGINFO[k].val = "v" <=> k = 2
  BY SMTT(60) DEF LONGINFO, Option
<1>3. \A k \in 1..44 : LONGINFO[k].name = "port" <=> k = 16
  BY SMTT(60) DEF LONGINFO, Option
<1>4. \A k \in 1..44 : LONGINFO[k].val = "P" <=> k = 16
  BY SMTT(60) DEF LONGINFO, Option
<1> QED
  BY <1>1, <1>2, <1>3, <1>4

\* The name a word goes by is a row of the table, one that shares its letter with the
\* row of the word; an unknown word goes by the first.
LEMMA RowOfWord ==
  ASSUME NEW t \in LineTokens, t # "argument"
  PROVE  \E m, w \in 1..44 :
           /\ t = "unknown" => m = 1
           /\ t # "unknown" => LONGINFO[m].name = t
           /\ LONGINFO[w].val = LONGINFO[m].val
           /\ NameOf(Letter(t)) = LONGINFO[w].name
<1>1. CASE t = "unknown"
  <2>1. Letter(t) = LONGINFO[1].val /\ 1 \in 1..44
    BY <1>1, TableRows DEF Letter
  <2>2. PICK w \in 1..44 : LONGINFO[w].val = LONGINFO[1].val /\ NameOf(LONGINFO[1].val) = LONGINFO[w].name
    BY <2>1, NameOfRow
  <2> QED
    BY <1>1, <2>1, <2>2
<1>2. CASE t # "unknown"
  <2>2. PICK m \in 1..44 : LONGINFO[m].name = t /\ Letter(t) = LONGINFO[m].val
    BY <1>2, LetterOfWord
  <2>3. PICK w \in 1..44 : LONGINFO[w].val = LONGINFO[m].val /\ NameOf(LONGINFO[m].val) = LONGINFO[w].name
    BY NameOfRow
  <2> QED
    BY <1>2, <2>2, <2>3
<1> QED
  BY <1>1, <1>2

\* main keeps an option for itself exactly when it is one of its own or no option.
LEMMA WordKept ==
  ASSUME NEW t \in LineTokens, t # "argument"
  PROVE  /\ NameOf(Letter(t)) \in OptionNames
         /\ NameOf(Letter(t)) \in OwnOptions <=> t \in OwnOptions \cup {"unknown"}
<1>1. PICK m \in 1..44, w \in 1..44 :
        /\ t = "unknown" => m = 1
        /\ t # "unknown" => LONGINFO[m].name = t
        /\ LONGINFO[w].val = LONGINFO[m].val
        /\ NameOf(Letter(t)) = LONGINFO[w].name
  BY RowOfWord
<1>2. NameOf(Letter(t)) \in OptionNames
  BY <1>1, TableRows DEF OptionNames
<1>3. w \in {1, 2, 12, 16} <=> m \in {1, 2, 12, 16}
  <2>1. \A r \in {"?", "v", "H", "P"} : LONGINFO[w].val = r <=> LONGINFO[m].val = r
    BY <1>1
  <2>2. (w = 1 <=> m = 1) /\ (w = 12 <=> m = 12)
    BY <2>1, TableRows
  <2>3. (w = 2 <=> m = 2) /\ (w = 16 <=> m = 16)
    BY <2>1, OwnRows
  <2> QED
    BY <2>2, <2>3
<1>4. NameOf(Letter(t)) \in OwnOptions <=> w \in {1, 2, 12, 16}
  BY <1>1, TableRows, OwnRows DEF OwnOptions
<1>5. t \in OwnOptions \cup {"unknown"} <=> m \in {1, 2, 12, 16}
  BY <1>1, TableRows, OwnRows DEF OwnOptions
<1> QED
  BY <1>2, <1>3, <1>4, <1>5

-----------------------------------------------------------------------------
(* The list of arguments that CollectOptions makes.                        *)

Texts == {n \in DOMAIN ArgV : ArgV[n].text # 0}
IsArgument(k) == line[k] = "argument"

\* The list so far: the texts are words for the encoders, none twice and in the order of
\* Precedes; what is not in it are options not reached yet or arguments behind those
\* that are.
ListInv ==
    /\ ArgV \in Seq([name : OptionNames \cup {"NONE"}, text : Nat])
    /\ \A n \in Texts : ArgV[n].text \in ForEncoders
    /\ \A n \in Texts : ~IsArgument(ArgV[n].text) => ArgV[n].text < optind
    /\ \A n \in Texts : IsArgument(ArgV[n].text) => OptionsLeft = {}
    /\ \A n \in Texts : \A k \in ArgumentsLeft : IsArgument(ArgV[n].text) => ArgV[n].text < k
    /\ \A m, n \in Texts : m < n => Precedes(ArgV[m].text, ArgV[n].text)
    /\ \A k \in ForEncoders : ~IsArgument(k) /\ k < optind => \E n \in Texts : ArgV[n].text = k
    /\ pc = "count" => ArgV = <<>>
    /\ pc \notin {"count", "categorize", "failed"} => ArgumentsLeft = {}

\* What an entry of the list is.
LEMMA EntryShape ==
  ASSUME ArgV \in Seq([name : OptionNames \cup {"NONE"}, text : Nat])
  PROVE  \A n \in DOMAIN ArgV : n \in Nat \ {0} /\ n <= Len(ArgV) /\ ArgV[n].text \in Nat
<1> SUFFICES ASSUME NEW n \in DOMAIN ArgV
             PROVE  n \in Nat \ {0} /\ n <= Len(ArgV) /\ ArgV[n].text \in Nat
  OBVIOUS
<1> DEFINE R == [name : OptionNames \cup {"NONE"}, text : Nat]
<1>1. ArgV \in Seq(R)
  OBVIOUS
<1>2. \A r \in R : r.text \in Nat
  OBVIOUS
<1> HIDE DEF R
<1>3. n \in Nat \ {0} /\ n <= Len(ArgV) /\ ArgV[n] \in R
  BY <1>1
<1> QED
  BY <1>2, <1>3

\* One entry more.
LEMMA AppendEntry ==
  ASSUME NEW e \in [name : OptionNames \cup {"NONE"}, text : Nat],
         ArgV \in Seq([name : OptionNames \cup {"NONE"}, text : Nat]), ArgV' = Append(ArgV, e)
  PROVE  /\ ArgV' \in Seq([name : OptionNames \cup {"NONE"}, text : Nat])
         /\ Texts' = IF e.text = 0 THEN Texts ELSE Texts \cup {Len(ArgV) + 1}
         /\ \A n \in DOMAIN ArgV : n < Len(ArgV) + 1 /\ ArgV'[n] = ArgV[n]
         /\ Len(ArgV) + 1 \in DOMAIN ArgV' /\ ArgV'[Len(ArgV) + 1] = e
         /\ DOMAIN ArgV' = DOMAIN ArgV \cup {Len(ArgV) + 1}
<1>1. /\ ArgV' \in Seq([name : OptionNames \cup {"NONE"}, text : Nat])
      /\ \A n \in DOMAIN ArgV : n < Len(ArgV) + 1 /\ ArgV'[n] = ArgV[n]
      /\ ArgV'[Len(ArgV) + 1] = e
      /\ DOMAIN ArgV' = DOMAIN ArgV \cup {Len(ArgV) + 1}
  OBVIOUS
<1>2. Texts' = IF e.text = 0 THEN Texts ELSE Texts \cup {Len(ArgV) + 1}
  BY <1>1 DEF Texts
<1> QED
  BY <1>1, <1>2

\* An option of the line is entered, with its text unless main keeps it.
LEMMA CategorizeList ==
  ASSUME ListInv, LineInv, CategorizeOption
  PROVE  ListInv'
<1>1. PICK k \in OptionsLeft :
        /\ \A m \in OptionsLeft : k <= m
        /\ optind' = k + 1
        /\ ArgV' = Append(ArgV, [name |-> NameOf(Letter(line[k])),
                                 text |-> IF NameOf(Letter(line[k])) \in OwnOptions THEN 0 ELSE k])
  BY DEF CategorizeOption
<1>2. /\ pc = "categorize" /\ pc' = pc /\ line' = line
      /\ line \in Seq(LineTokens) /\ optind \in Nat \ {0}
  BY DEF CategorizeOption, LineInv
<1>3. /\ k \in DOMAIN line /\ k \in Nat \ {0} /\ optind <= k
      /\ line[k] \in LineTokens /\ line[k] # "argument"
  BY <1>2 DEF OptionsLeft
<1>4. \A m \in DOMAIN line : m \in Nat /\ (m < k + 1 /\ line[m] # "argument" => m < optind \/ m = k)
  BY <1>1, <1>2, <1>3 DEF OptionsLeft
<1> DEFINE e == [name |-> NameOf(Letter(line[k])),
                 text |-> IF NameOf(Letter(line[k])) \in OwnOptions THEN 0 ELSE k]
           N == Len(ArgV) + 1
<1>5. /\ e \in [name : OptionNames \cup {"NONE"}, text : Nat]
      /\ k \in ForEncoders <=> e.text # 0
      /\ e.text \in {0, k}
  <2>1. /\ NameOf(Letter(line[k])) \in OptionNames
        /\ NameOf(Letter(line[k])) \in OwnOptions <=> line[k] \in OwnOptions \cup {"unknown"}
    BY <1>3, WordKept
  <2> QED
    BY <1>3, <2>1 DEF ForEncoders
<1> HIDE DEF e
<1>6. /\ ArgV' \in Seq([name : OptionNames \cup {"NONE"}, text : Nat])
      /\ Texts' = IF e.text = 0 THEN Texts ELSE Texts \cup {N}
      /\ \A n \in DOMAIN ArgV : n < N /\ ArgV'[n] = ArgV[n]
      /\ N \in DOMAIN ArgV' /\ ArgV'[N] = e
      /\ DOMAIN ArgV' = DOMAIN ArgV \cup {N}
  BY <1>1, <1>5, AppendEntry DEF ListInv, e
<1> HIDE DEF N
<1>7. /\ \A n \in Texts : ArgV'[n] = ArgV[n] /\ ~IsArgument(ArgV[n].text) /\ ArgV[n].text < optind
      /\ \A n \in Texts : n < N /\ n \in Nat /\ ArgV[n].text \in ForEncoders /\ ArgV[n].text \in Nat
  <2>1. Texts \subseteq DOMAIN ArgV /\ \A n \in DOMAIN ArgV : n \in Nat /\ ArgV[n].text \in Nat
    <3>1. ArgV \in Seq([name : OptionNames \cup {"NONE"}, text : Nat])
      BY DEF ListInv
    <3>2. \A n \in DOMAIN ArgV : n \in Nat /\ ArgV[n].text \in Nat
      BY <3>1, EntryShape
    <3> QED
      BY <3>2 DEF Texts
  <2>2. OptionsLeft # {}
    BY <1>1
  <2>3. \A n \in Texts : ~IsArgument(ArgV[n].text) /\ ArgV[n].text < optind /\ ArgV[n].text \in ForEncoders
    BY <2>2 DEF ListInv
  <2> QED
    BY <1>6, <2>1, <2>3
<1>8. \A n \in Texts' : n \in Texts \/ (n = N /\ ArgV'[n].text = k /\ k \in ForEncoders)
  BY <1>5, <1>6
<1>9. ForEncoders' = ForEncoders
  BY <1>2 DEF ForEncoders
<1>10. ~IsArgument(k) /\ optind' = k + 1
  BY <1>1, <1>3 DEF IsArgument
<1>11. \A n \in Texts' : ArgV'[n].text \in ForEncoders'
  BY <1>7, <1>8, <1>9
<1>12. \A n \in Texts' : ~IsArgument(ArgV'[n].text) /\ ArgV'[n].text < optind'
  BY <1>3, <1>2, <1>7, <1>8, <1>9, <1>10
<1>13. \A m, n \in Texts' : m < n => Precedes(ArgV'[m].text, ArgV'[n].text)
  <2> SUFFICES ASSUME NEW m \in Texts', NEW n \in Texts', m < n
               PROVE  Precedes(ArgV'[m].text, ArgV'[n].text)
    OBVIOUS
  <2>1. CASE n \in Texts
    <3>1. m \in Texts
      <4>1. m # N
        BY <2>1, <1>6, <1>7 DEF N, ListInv
      <4> QED
        BY <4>1, <1>8
    <3> QED
      BY <2>1, <3>1, <1>7 DEF ListInv
  <2>2. CASE n \notin Texts
    <3>1. n = N /\ ArgV'[n].text = k
      BY <2>2, <1>8
    <3>2. m \in Texts
      <4>1. N \in Nat
        BY DEF N, ListInv
      <4> QED
        BY <3>1, <4>1, <1>8
    <3>3. ArgV'[m].text < k /\ ~IsArgument(ArgV'[m].text)
      BY <3>2, <1>7, <1>3, <1>2
    <3> QED
      BY <3>1, <3>3 DEF Precedes, IsArgument
  <2> QED
    BY <2>1, <2>2
<1>14. ASSUME NEW q \in ForEncoders', ~IsArgument(q), q < optind'
       PROVE  \E n \in Texts' : ArgV'[n].text = q
  <2>1. q \in DOMAIN line /\ q \in ForEncoders /\ line[q] # "argument" /\ q < k + 1
    BY <1>9, <1>10, <1>14 DEF ForEncoders, IsArgument
  <2>2. CASE q = k
    <3>1. N \in Texts' /\ ArgV'[N].text = k
      BY <2>1, <2>2, <1>5, <1>6, <1>3
    <3> QED
      BY <2>2, <3>1
  <2>3. CASE q < optind
    <3>1. PICK n \in Texts : ArgV[n].text = q
      BY <2>1, <2>3 DEF ListInv, IsArgument
    <3> QED
      BY <3>1, <1>6, <1>7
  <2> QED
    BY <2>1, <2>2, <2>3, <1>4
<1> QED
  BY <1>2, <1>6, <1>11, <1>12, <1>13, <1>14 DEF ListInv, IsArgument, Precedes

\* An argument is entered once no option is left.
LEMMA CollectList ==
  ASSUME ListInv, LineInv, CollectNonOption
  PROVE  ListInv'
<1>1. PICK k \in ArgumentsLeft :
        /\ \A m \in ArgumentsLeft : k <= m
        /\ ArgV' = Append(ArgV, [name |-> "NONE", text |-> k])
  BY DEF CollectNonOption
<1>2. /\ pc = "categorize" /\ pc' = pc /\ line' = line /\ optind' = optind /\ OptionsLeft = {}
      /\ line \in Seq(LineTokens) /\ optind \in Nat \ {0}
  BY DEF CollectNonOption, LineInv
<1>3. k \in DOMAIN line /\ k \in Nat \ {0} /\ line[k] = "argument" /\ IsArgument(k) /\ k \in ForEncoders
  BY <1>2 DEF ArgumentsLeft, IsArgument, ForEncoders, OwnOptions
<1> DEFINE e == [name |-> "NONE", text |-> k]
           N == Len(ArgV) + 1
<1>4. e \in [name : OptionNames \cup {"NONE"}, text : Nat] /\ e.text = k
  BY <1>3
<1> HIDE DEF e
<1>5. /\ ArgV' \in Seq([name : OptionNames \cup {"NONE"}, text : Nat])
      /\ Texts' = Texts \cup {N}
      /\ \A n \in DOMAIN ArgV : n < N /\ ArgV'[n] = ArgV[n]
      /\ N \in DOMAIN ArgV' /\ ArgV'[N] = e
      /\ DOMAIN ArgV' = DOMAIN ArgV \cup {N}
  BY <1>1, <1>3, <1>4, AppendEntry DEF ListInv, e
<1>6. N \in Nat
  BY DEF ListInv
<1> HIDE DEF N
<1>7. \A n \in Texts : ArgV'[n] = ArgV[n] /\ n < N /\ n \in Nat /\ ArgV[n].text \in ForEncoders
  <2>1. Texts \subseteq DOMAIN ArgV /\ \A n \in DOMAIN ArgV : n \in Nat
    BY DEF Texts, ListInv
  <2> QED
    BY <1>5, <2>1 DEF ListInv
<1>8. ForEncoders' = ForEncoders /\ OptionsLeft' = {}
  BY <1>2 DEF ForEncoders, OptionsLeft
<1>9. \A a \in ArgumentsLeft' : a \in ArgumentsLeft /\ k < a /\ a \in Nat
  <2>1. \A a \in ArgumentsLeft' : a \in DOMAIN line /\ line[a] = "argument" /\ \A n \in DOMAIN ArgV' : ArgV'[n].text # a
    BY <1>2 DEF ArgumentsLeft
  <2>2. \A a \in ArgumentsLeft' : a \in ArgumentsLeft /\ a # k
    BY <2>1, <1>4, <1>5 DEF ArgumentsLeft
  <2>3. \A a \in ArgumentsLeft : a \in Nat
    BY <1>2 DEF ArgumentsLeft
  <2> QED
    BY <1>1, <1>3, <2>2, <2>3
<1>10. \A n \in Texts' : ArgV'[n].text \in ForEncoders' /\ (~IsArgument(ArgV'[n].text) => ArgV'[n].text < optind')
  BY <1>2, <1>3, <1>4, <1>5, <1>7, <1>8 DEF ListInv
<1>11. \A n \in Texts' : \A a \in ArgumentsLeft' : IsArgument(ArgV'[n].text) => ArgV'[n].text < a
  BY <1>4, <1>5, <1>7, <1>8, <1>9 DEF ListInv
<1>12. \A m, n \in Texts' : m < n => Precedes(ArgV'[m].text, ArgV'[n].text)
  <2> SUFFICES ASSUME NEW m \in Texts', NEW n \in Texts', m < n
               PROVE  Precedes(ArgV'[m].text, ArgV'[n].text)
    OBVIOUS
  <2>1. m \in Texts
    BY <1>5, <1>6, <1>7
  <2>2. CASE n \in Texts
    BY <2>1, <2>2, <1>7 DEF ListInv
  <2>3. CASE n = N
    <3>1. IsArgument(ArgV[m].text) => ArgV[m].text < k
      BY <2>1, <1>1 DEF ListInv
    <3> QED
      BY <2>1, <2>3, <3>1, <1>3, <1>4, <1>5, <1>7 DEF Precedes, IsArgument
  <2> QED
    BY <2>2, <2>3, <1>5
<1>13. \A q \in ForEncoders' : ~IsArgument(q) /\ q < optind' => \E n \in Texts' : ArgV'[n].text = q
  <2> SUFFICES ASSUME NEW q \in ForEncoders, ~IsArgument(q), q < optind
               PROVE  \E n \in Texts' : ArgV'[n].text = q
    BY <1>2, <1>8
  <2>1. PICK n \in Texts : ArgV[n].text = q
    BY DEF ListInv
  <2> QED
    BY <2>1, <1>5, <1>7
<1> QED
  BY <1>2, <1>5, <1>8, <1>10, <1>11, <1>12, <1>13 DEF ListInv, IsArgument, Precedes

\* Nothing else changes the list.
LEMMA ListStep ==
  ASSUME ListInv, LineInv, IInv, [Next]_vars
  PROVE  ListInv'
<1>1. ASSUME /\ UNCHANGED <<line, optind, ArgV>>
             /\ pc' = "count" => pc = "count"
             /\ pc \in {"count", "categorize", "failed"} =>
                  pc' \in {"count", "categorize", "failed"} \/ ArgumentsLeft = {}
      PROVE  ListInv'
  <2>1. /\ Texts' = Texts /\ ForEncoders' = ForEncoders
        /\ OptionsLeft' = OptionsLeft /\ ArgumentsLeft' = ArgumentsLeft
    BY <1>1 DEF Texts, ForEncoders, OptionsLeft, ArgumentsLeft
  <2> QED
    BY <1>1, <2>1 DEF ListInv, IsArgument, Precedes
<1>2. CASE AllCollected \/ CountOptions \/ SkipNoText \/ ParsingDone \/ Send \/ Exit \/ UNCHANGED vars
  BY <1>1, <1>2 DEF AllCollected, CountOptions, SkipNoText, ParsingDone, AfterParsing, Send, Exit, vars
<1>3. CASE InstantiateParser \/ DoParseOption \/ DoShowHelp \/ DoEncode \/ DoShowError \/ DestroyParser
  BY <1>1, <1>3 DEF InstantiateParser, DoParseOption, DoShowHelp, DoEncode, DoShowError,
                    DestroyParser, NextParser
<1> QED
  BY <1>2, <1>3, CategorizeList, CollectList DEF Next

\* The list starts empty.
LEMMA InitListInv == Init => ListInv
<1> SUFFICES ASSUME Init PROVE ListInv
  OBVIOUS
<1>1. ArgV = <<>> /\ optind = 1 /\ pc = "count" /\ line \in Seq(LineTokens)
  BY LineAssumption DEF Init
<1>2. Texts = {} /\ ForEncoders \subseteq Nat \ {0}
  BY <1>1 DEF Texts, ForEncoders
<1> QED
  BY <1>1, <1>2 DEF ListInv

-----------------------------------------------------------------------------
(* The calls of the encoders.                                              *)

\* The loop has come by this argument with this encoder.
Past(n, p) == n < i \/ (n = i /\ pc = "parse" /\ p < j)

\* What an encoder was given are texts it has come by, each after those it has to follow,
\* and one that is still good was given all of them.
CallsInv ==
    /\ calls \in [Parsers -> Seq(Nat)]
    /\ i \in Nat \ {0}
    /\ pc \in {"count", "categorize", "instantiate"} => i = 1
    /\ pc = "parse" /\ j > 1 => i \in Texts
    /\ \A p \in Parsers : \A r \in DOMAIN calls[p] :
         \E n \in Texts : Past(n, p) /\ ArgV[n].text = calls[p][r]
    /\ \A p \in Parsers : \A q, r \in DOMAIN calls[p] :
         q < r => Precedes(calls[p][q], calls[p][r])
    /\ \A p \in IsOK : \A n \in Texts : Past(n, p) => \E r \in DOMAIN calls[p] : calls[p][r] = ArgV[n].text
    /\ pc \notin {"count", "categorize", "instantiate", "parse", "failed"} => IsOK = {} \/ i > Len(ArgV)

\* No call was made yet.
LEMMA InitCallsInv == Init => CallsInv
<1> SUFFICES ASSUME Init PROVE CallsInv
  OBVIOUS
<1>1. calls = [p \in Parsers |-> <<>>] /\ i = 1 /\ pc = "count" /\ IsOK = {}
  BY DEF Init
<1> QED
  BY <1>1 DEF CallsInv

\* No encoder comes by an argument before the loop starts.
LEMMA NothingPast ==
  ASSUME CallsInv, ListInv, pc \in {"count", "categorize", "instantiate"}
  PROVE  /\ \A n \in Texts : \A p \in Parsers : ~Past(n, p)
         /\ \A p \in Parsers : DOMAIN calls[p] = {}
<1>1. ArgV \in Seq([name : OptionNames \cup {"NONE"}, text : Nat])
  BY DEF ListInv
<1>2. \A n \in Texts : n \in Nat \ {0}
  BY <1>1 DEF Texts
<1>3. \A n \in Texts : \A p \in Parsers : ~Past(n, p)
  BY <1>2 DEF CallsInv, Past
<1> QED
  BY <1>3 DEF CallsInv

\* Before the loop over the arguments.
LEMMA BeforeCalls ==
  ASSUME CallsInv, ListInv, ListInv', IInv, LineInv,
         CountOptions \/ CategorizeOption \/ CollectNonOption \/ AllCollected \/ InstantiateParser
  PROVE  CallsInv'
<1>1. /\ pc \in {"count", "categorize", "instantiate"}
      /\ calls' = calls /\ i' = i /\ i = 1
      /\ \A p \in Parsers : DOMAIN calls[p] = {}
      /\ calls \in [Parsers -> Seq(Nat)]
  <2>1. /\ pc \in {"count", "categorize", "instantiate"}
        /\ calls' = calls /\ i' = i
    BY DEF CountOptions, CategorizeOption, CollectNonOption, AllCollected, InstantiateParser
  <2> QED
    BY <2>1, NothingPast DEF CallsInv
<1>2. /\ pc' \in {"count", "categorize", "instantiate", "parse", "failed"}
      /\ pc' = "parse" => j' = 1
  <2>1. CASE InstantiateParser
    BY <2>1 DEF InstantiateParser, NextParser
  <2>2. CASE CountOptions \/ CategorizeOption \/ CollectNonOption \/ AllCollected
    BY <2>2 DEF CountOptions, CategorizeOption, CollectNonOption, AllCollected
  <2> QED
    BY <2>1, <2>2
<1>3. \A n \in Texts' : n \in Nat \ {0}
  <2>1. ArgV' \in Seq([name : OptionNames \cup {"NONE"}, text : Nat])
    BY DEF ListInv
  <2> QED
    BY <2>1 DEF Texts
<1>4. \A n \in Texts' : \A p \in Parsers : ~(n < i' \/ (n = i' /\ pc' = "parse" /\ p < j'))
  BY <1>1, <1>2, <1>3 DEF Parsers
<1>5. IsOK' \subseteq Parsers
  BY NextStep DEF IInv, LoopTypeOK, Next
<1> QED
  BY <1>1, <1>2, <1>4, <1>5 DEF CallsInv, Past

\* An argument without a text is no call.
LEMMA SkipCalls ==
  ASSUME CallsInv, ListInv, IInv, SkipNoText
  PROVE  CallsInv'
<1>1. /\ pc = "parse" /\ pc' = "parse" /\ j = 1 /\ j' = 1 /\ i \notin Texts /\ i' = i + 1
      /\ UNCHANGED <<line, ArgV, IsOK, calls>>
  BY DEF SkipNoText, HasText, NextArgument, Texts
<1>2. i \in Nat \ {0} /\ \A n \in Texts : n \in Nat
  <2>1. ArgV \in Seq([name : OptionNames \cup {"NONE"}, text : Nat])
    BY DEF ListInv
  <2> QED
    BY <2>1 DEF Texts, CallsInv
<1>3. Texts' = Texts
  BY <1>1 DEF Texts
<1>4. \A n \in Texts : \A p \in Parsers : Past(n, p)' <=> Past(n, p)
  BY <1>1, <1>2 DEF Past, Parsers
<1>5. IsOK \subseteq Parsers
  BY DEF IInv, LoopTypeOK
<1> QED
  BY <1>1, <1>2, <1>3, <1>4, <1>5 DEF CallsInv, Precedes

\* One call, or none when the encoder dropped out.
LEMMA ParseCalls ==
  ASSUME CallsInv, ListInv, IInv, DoParseOption
  PROVE  CallsInv'
<1>1. /\ pc = "parse" /\ j \in Parsers /\ j \in Nat /\ Parsers \subseteq Nat
      /\ UNCHANGED <<line, ArgV>> /\ IsOK' \subseteq IsOK /\ IsOK \subseteq Parsers
      /\ \A p \in Parsers : 1 <= p /\ p <= NUM_PARSERS
  <2>1. pc = "parse" /\ UNCHANGED <<line, ArgV>> /\ IsOK' \subseteq IsOK
    BY DEF DoParseOption, PutOut
  <2> QED
    BY <2>1, ParserAssumption DEF IInv, LoopTypeOK, Parsers
<1>2. /\ ArgV \in Seq([name : OptionNames \cup {"NONE"}, text : Nat])
      /\ calls \in [Parsers -> Seq(Nat)] /\ i \in Nat \ {0}
  BY DEF ListInv, CallsInv
<1>3. i \in Texts /\ ArgV[i].text \in Nat /\ \A n \in Texts : n \in Nat
  <2>1. \A n \in Texts : n \in DOMAIN ArgV /\ n \in Nat /\ ArgV[n].text \in Nat
    BY <1>2, EntryShape DEF Texts
  <2>2. i \in Texts
    <3>1. CASE j = 1
      BY <1>2, <3>1 DEF DoParseOption, MoreToParse, HasText, Texts
    <3>2. CASE j > 1
      BY <1>1, <3>2 DEF CallsInv
    <3> QED
      BY <1>1, <3>1, <3>2
  <2> QED
    BY <2>1, <2>2
<1>4. Texts' = Texts
  BY <1>1 DEF Texts
<1>5. /\ pc' = "parse"
      /\ \/ j < NUM_PARSERS /\ j' = j + 1 /\ i' = i
         \/ j = NUM_PARSERS /\ j' = 1 /\ i' = i + 1
  BY <1>1, ParserAssumption DEF DoParseOption, NextParser, NextArgument
<1>6. \A n \in Texts : \A p \in Parsers : Past(n, p)' <=> Past(n, p) \/ (n = i /\ p = j)
  BY <1>1, <1>2, <1>3, <1>5, ParserAssumption DEF Past
<1>7. i' \in Nat \ {0} /\ (j' > 1 => i' \in Texts)
  BY <1>2, <1>3, <1>5
<1>8. CASE j \in IsOK /\ calls' = [calls EXCEPT ![j] = Append(@, ArgV[i].text)]
  <2> DEFINE t == ArgV[i].text
             s == calls[j]
  <2>1. /\ s \in Seq(Nat) /\ calls'[j] = Append(s, t) /\ t \in Nat
        /\ \A p \in Parsers : p # j => calls'[p] = calls[p]
        /\ calls' \in [Parsers -> Seq(Nat)]
    BY <1>1, <1>2, <1>3, <1>8
  <2> HIDE DEF t, s
  <2>2. /\ DOMAIN calls'[j] = DOMAIN s \cup {Len(s) + 1}
        /\ \A r \in DOMAIN s : calls'[j][r] = s[r] /\ r \in Nat /\ r < Len(s) + 1
        /\ calls'[j][Len(s) + 1] = t
        /\ Len(s) + 1 \in Nat
    BY <2>1
  <2>3. \A r \in DOMAIN s : \E n \in Texts : n < i /\ ArgV[n].text = s[r]
    BY <1>1, <1>3 DEF CallsInv, Past, s
  <2>4. \A r \in DOMAIN s : Precedes(s[r], t)
    <3> TAKE r \in DOMAIN s
    <3>1. PICK n \in Texts : n < i /\ ArgV[n].text = s[r]
      BY <2>3
    <3> QED
      BY <3>1, <1>3 DEF ListInv, t
  <2>5. ASSUME NEW p \in Parsers, NEW r \in DOMAIN calls'[p]
        PROVE  \E n \in Texts' : Past(n, p)' /\ ArgV'[n].text = calls'[p][r]
    <3>1. CASE p # j \/ r \in DOMAIN s
      <4>1. r \in DOMAIN calls[p] /\ calls'[p][r] = calls[p][r]
        BY <2>5, <3>1, <2>1, <2>2 DEF s
      <4>2. PICK n \in Texts : Past(n, p) /\ ArgV[n].text = calls[p][r]
        BY <4>1 DEF CallsInv
      <4> QED
        BY <4>1, <4>2, <1>1, <1>4, <1>6
    <3>2. CASE p = j /\ r = Len(s) + 1
      BY <3>2, <2>2, <1>1, <1>3, <1>4, <1>6 DEF t
    <3> QED
      BY <3>1, <3>2, <2>2
  <2>6. ASSUME NEW p \in Parsers, NEW q \in DOMAIN calls'[p], NEW r \in DOMAIN calls'[p], q < r
        PROVE  Precedes(calls'[p][q], calls'[p][r])
    <3>1. CASE p # j
      BY <3>1, <2>1, <2>6 DEF CallsInv
    <3>2. CASE p = j
      <4>1. q \in DOMAIN s
        BY <3>2, <2>2, <2>6
      <4>2. CASE r \in DOMAIN s
        BY <3>2, <4>1, <4>2, <2>2, <2>6 DEF CallsInv, s
      <4>3. CASE r = Len(s) + 1
        BY <3>2, <4>1, <4>3, <2>2, <2>4
      <4> QED
        BY <3>2, <4>2, <4>3, <2>2
    <3> QED
      BY <3>1, <3>2
  <2>7. ASSUME NEW p \in IsOK', NEW n \in Texts', Past(n, p)'
        PROVE  \E r \in DOMAIN calls'[p] : calls'[p][r] = ArgV'[n].text
    <3>1. p \in IsOK /\ p \in Parsers /\ n \in Texts /\ (Past(n, p) \/ (n = i /\ p = j))
      BY <2>7, <1>1, <1>4, <1>6
    <3>2. CASE Past(n, p)
      <4>1. PICK r \in DOMAIN calls[p] : calls[p][r] = ArgV[n].text
        BY <3>1, <3>2 DEF CallsInv
      <4>2. r \in DOMAIN calls'[p] /\ calls'[p][r] = calls[p][r]
        BY <3>1, <4>1, <2>1, <2>2 DEF s
      <4> QED
        BY <4>1, <4>2, <1>1
    <3>3. CASE n = i /\ p = j
      BY <3>3, <2>2, <1>1 DEF t
    <3> QED
      BY <3>1, <3>2, <3>3
  <2> QED
    BY <1>1, <1>4, <1>5, <1>7, <2>1, <2>5, <2>6, <2>7 DEF CallsInv, Precedes
<1>9. CASE j \notin IsOK /\ calls' = calls
  <2>1. \A p \in IsOK' : p \in IsOK /\ p # j
    BY <1>1, <1>9
  <2> QED
    BY <1>1, <1>4, <1>5, <1>6, <1>7, <1>9, <2>1 DEF CallsInv, Precedes
<1> QED
  BY <1>8, <1>9 DEF DoParseOption

\* The loop ends when no encoder is left to ask or no argument to give.
LEMMA DoneCalls ==
  ASSUME CallsInv, ListInv, IInv, ParsingDone
  PROVE  CallsInv'
<1>1. /\ pc = "parse" /\ pc' \in {"help", "encode"} /\ j = 1
      /\ UNCHANGED <<line, ArgV, IsOK, calls, i>>
      /\ ~(GoodParsers > 0 /\ i <= Len(ArgV))
  BY DEF ParsingDone, AfterParsing, MoreToParse
<1>2. /\ IsOK \subseteq Parsers /\ \A p \in Parsers : ~(p < 1)
      /\ ArgV \in Seq([name : OptionNames \cup {"NONE"}, text : Nat]) /\ i \in Nat
  BY DEF IInv, LoopTypeOK, Parsers, ListInv, CallsInv
<1>3. IsOK = {} \/ i > Len(ArgV)
  <2>1. IsFiniteSet(IsOK) /\ GoodParsers = Cardinality(IsOK)
    BY <1>2, EncodersFinite DEF IInv, GoodParsersCounts
  <2>2. Cardinality(IsOK) \in Nat /\ (Cardinality(IsOK) = 0 <=> IsOK = {})
    BY <2>1, FS_CardinalityType, FS_EmptySet
  <2> QED
    BY <1>1, <1>2, <2>1, <2>2
<1>4. Texts' = Texts /\ \A n \in Texts : \A p \in Parsers : Past(n, p)' <=> Past(n, p)
  BY <1>1, <1>2 DEF Texts, Past
<1> QED
  BY <1>1, <1>2, <1>3, <1>4 DEF CallsInv, Precedes

\* After the loop there are no calls.
LEMMA AfterCalls ==
  ASSUME CallsInv, IInv,
         DoShowHelp \/ DoEncode \/ DoShowError \/ Send \/ DestroyParser \/ Exit \/ UNCHANGED vars
  PROVE  CallsInv'
<1>1. CASE UNCHANGED vars
  BY <1>1 DEF vars, CallsInv, Texts, Past, Precedes
<1>2. CASE DoShowHelp \/ DoEncode \/ DoShowError \/ Send \/ DestroyParser \/ Exit
  <2>1. /\ UNCHANGED <<line, ArgV, IsOK, calls, i>>
        /\ pc \notin {"count", "categorize", "instantiate", "parse", "failed"}
        /\ pc' \notin {"count", "categorize", "instantiate", "parse", "failed"}
    BY <1>2 DEF DoShowHelp, DoEncode, DoShowError, Send, DestroyParser, Exit, NextParser
  <2>2. Texts' = Texts /\ \A n, p : Past(n, p)' <=> Past(n, p)
    BY <2>1 DEF Texts, Past
  <2> QED
    BY <2>1, <2>2 DEF CallsInv, Precedes
<1> QED
  BY <1>1, <1>2

\* Every step keeps the invariant.
LEMMA CallsStep ==
  ASSUME CallsInv, ListInv, ListInv', IInv, LineInv, [Next]_vars
  PROVE  CallsInv'
BY BeforeCalls, SkipCalls, ParseCalls, DoneCalls, AfterCalls DEF Next

\* The three invariants of the command line hold throughout.
LEMMA OrderInvariance == Spec => [](IInv /\ LineInv /\ ListInv /\ CallsInv)
<1>1. Init => LineInv /\ ListInv /\ CallsInv
  BY InitLineInv, InitListInv, InitCallsInv
<1>2. IInv /\ LineInv /\ ListInv /\ CallsInv /\ [Next]_vars => LineInv' /\ ListInv' /\ CallsInv'
  BY LineStep, ListStep, CallsStep
<1> QED
  BY <1>1, <1>2, Invariance, PTL DEF Spec

\* The texts of the list are words for the encoders, so what they are given is.
LEMMA InOrder ==
  ASSUME ListInv, CallsInv
  PROVE  CallsInOrder
<1>1. \A p \in Parsers : \A r \in DOMAIN calls[p] : calls[p][r] \in ForEncoders
  BY DEF ListInv, CallsInv
<1> QED
  BY <1>1 DEF CallsInOrder, CallsInv

\* All of them are in the list when it is complete, and an encoder that is still good
\* when the loop is over was given every text of the list.
LEMMA NothingMissed ==
  ASSUME LineInv, ListInv, CallsInv
  PROVE  EncodersSawEverything
<1> SUFFICES ASSUME pc \notin {"count", "categorize", "instantiate", "parse", "failed"},
                    NEW p \in IsOK, NEW k \in ForEncoders
             PROVE  \E r \in DOMAIN calls[p] : calls[p][r] = k
  BY DEF EncodersSawEverything
<1>1. OptionsLeft = {} /\ ArgumentsLeft = {} /\ optind \in Nat /\ line \in Seq(LineTokens)
  BY DEF LineInv, ListInv
<1>2. k \in DOMAIN line /\ k \in Nat \ {0}
  BY <1>1 DEF ForEncoders
<1>3. \E n \in Texts : ArgV[n].text = k
  <2>1. CASE line[k] = "argument"
    <3>1. PICK n \in DOMAIN ArgV : ArgV[n].text = k
      BY <1>1, <1>2, <2>1 DEF ArgumentsLeft
    <3> QED
      BY <3>1, <1>2 DEF Texts
  <2>2. CASE line[k] # "argument"
    <3>1. k < optind
      BY <1>1, <1>2, <2>2 DEF OptionsLeft
    <3> QED
      BY <3>1, <2>2 DEF ListInv, IsArgument
  <2> QED
    BY <2>1, <2>2
<1>4. PICK n \in Texts : ArgV[n].text = k
  BY <1>3
<1>5. Past(n, p)
  <2>1. ArgV \in Seq([name : OptionNames \cup {"NONE"}, text : Nat]) /\ i \in Nat
    BY DEF ListInv, CallsInv
  <2>2. n \in Nat /\ n <= Len(ArgV)
    BY <2>1 DEF Texts
  <2>3. i > Len(ArgV)
    BY DEF CallsInv
  <2> QED
    BY <2>1, <2>2, <2>3 DEF Past
<1> QED
  BY <1>4, <1>5 DEF CallsInv

\* No encoder is given an argument twice, out of order, without a text, or a positional
\* argument before the last option, for any number of encoders and any command line
\* (CollectOptions and the loop of main).
THEOREM OrderOfCalls == Spec => []CallsInOrder
<1>1. IInv /\ LineInv /\ ListInv /\ CallsInv => CallsInOrder
  BY InOrder
<1> QED
  BY <1>1, OrderInvariance, PTL

\* An encoder still good when the loop is over was given the whole command line,
\* whenever the others dropped out.
THEOREM WholeLineSeen == Spec => []EncodersSawEverything
<1>1. IInv /\ LineInv /\ ListInv /\ CallsInv => EncodersSawEverything
  BY NothingMissed
<1> QED
  BY <1>1, OrderInvariance, PTL

-----------------------------------------------------------------------------
(* The types of main's variables.                                          *)

\* The two variables the other invariants say too little of.
SmallInv == line \in CommandLines /\ bufOwner \in 0..NUM_PARSERS

\* Only an encoder writes the buffer.
LEMMA SmallStep ==
  ASSUME SmallInv, IInv, [Next]_vars
  PROVE  SmallInv'
<1>1. CASE DoEncode
  BY <1>1, ParserAssumption DEF DoEncode, SmallInv, IInv, LoopTypeOK, Parsers
<1>2. CASE CountOptions \/ CategorizeOption \/ CollectNonOption \/ AllCollected \/ InstantiateParser
             \/ SkipNoText \/ DoParseOption \/ ParsingDone
  BY <1>2 DEF CountOptions, CategorizeOption, CollectNonOption, AllCollected, InstantiateParser,
              SkipNoText, DoParseOption, ParsingDone, SmallInv
<1>3. CASE DoShowHelp \/ DoShowError \/ Send \/ DestroyParser \/ Exit \/ UNCHANGED vars
  BY <1>3 DEF DoShowHelp, DoShowError, Send, DestroyParser, Exit, vars, SmallInv
<1> QED
  BY <1>1, <1>2, <1>3 DEF Next

\* Every variable of main has its type, for any number of encoders and any command line.
THEOREM TypeCorrect == Spec => []TypeOK
<1>1. Init => SmallInv
  BY ParserAssumption DEF Init, SmallInv
<1>2. SmallInv /\ IInv /\ [Next]_vars => SmallInv'
  BY SmallStep
<1>3. SmallInv /\ IInv /\ LineInv /\ ListInv /\ CallsInv => TypeOK
  <2> SUFFICES ASSUME SmallInv, IInv, LineInv, ListInv, CallsInv PROVE TypeOK
    OBVIOUS
  <2>1. /\ pc \in PCs /\ Obj \subseteq Parsers /\ IsOK \subseteq Parsers
        /\ j \in Parsers /\ ContentSize \in {0, 1}
    BY DEF IInv, LoopTypeOK
  <2>2. GoodParsers \in 0..NUM_PARSERS
    <3>1. IsFiniteSet(1..NUM_PARSERS) /\ Cardinality(1..NUM_PARSERS) = NUM_PARSERS
      BY ParserAssumption, FS_Interval
    <3>2. Cardinality(IsOK) \in Nat /\ Cardinality(IsOK) <= NUM_PARSERS
      BY <2>1, <3>1, FS_Subset, FS_CardinalityType DEF Parsers
    <3> QED
      BY <3>2, ParserAssumption DEF IInv, GoodParsersCounts
  <2>3. packed \subseteq Parsers
    BY <2>1 DEF IInv, Progress, BufferHoldsThePacket
  <2>4. ShowHelp \in BOOLEAN
    BY Zenon DEF LineInv
  <2>5. /\ line \in CommandLines /\ bufOwner \in 0..NUM_PARSERS
        /\ optind \in Nat \ {0} /\ HostName \in Nat
    BY DEF SmallInv, LineInv
  <2>6. ArgV \in Seq([name : OptionNames \cup {"NONE"}, text : Nat])
    BY DEF ListInv
  <2>7. i \in Nat \ {0} /\ calls \in [Parsers -> Seq(Nat)]
    BY DEF CallsInv
  <2> QED
    BY <2>1, <2>2, <2>3, <2>4, <2>5, <2>6, <2>7, Zenon DEF TypeOK
<1> QED
  BY <1>1, <1>2, <1>3, OrderInvariance, Invariance, PTL DEF Spec
-----------------------------------------------------------------------------
(* The outcome.                                                            *)

\* Everything that came out is of these kinds.
Only(whats) == \A k \in DOMAIN output : output[k].what \in whats

\* What main has shown or sent once it gets to the end, usage left aside.
Result ==
    IF ShowHelp THEN Only({"options"})
    ELSE IF packed = {} THEN Only({"error"})
    ELSE \E who \in packed : output = <<[what |-> "packet", who |-> who, host |-> HostName]>>

\* Usage comes last, behind the options of the encoders.
UsageLast ==
    /\ Len(output) > 0 /\ output[Len(output)].what = "usage"
    /\ \A k \in DOMAIN output : k < Len(output) => output[k].what = "options"

\* What came out so far, at every point of main.
OutcomeInv ==
    /\ pc \in {"count", "categorize", "instantiate", "parse", "encode", "failed"} => output = <<>>
    /\ pc = "help" => ShowHelp /\ Only({"options"})
    /\ pc = "report" => Only({"error"}) /\ (ContentSize > 0 => output = <<>> /\ packed # {})
    /\ pc \in {"destroy", "exit"} => Result
    /\ pc = "done" => IF ShowHelp THEN UsageLast ELSE Result

\* One thing more of the same kinds.
LEMMA OneMore ==
  ASSUME NEW whats, NEW e \in Outputs, e.what \in whats, Only(whats),
         output \in Seq(Outputs), output' = Append(output, e)
  PROVE  Only(whats)'
<1>1. /\ DOMAIN output' = DOMAIN output \cup {Len(output) + 1}
      /\ output'[Len(output) + 1] = e
      /\ \A k \in DOMAIN output : output'[k] = output[k]
  OBVIOUS
<1> QED
  BY <1>1 DEF Only

\* Until it reports main has shown nothing.
LEMMA SilentOutcome ==
  ASSUME OutcomeInv, LineInv, IInv,
         CountOptions \/ CategorizeOption \/ CollectNonOption \/ AllCollected \/ InstantiateParser
           \/ SkipNoText \/ DoParseOption \/ ParsingDone \/ DoEncode
  PROVE  OutcomeInv'
<1>1. output' = output /\ ShowHelp' \in BOOLEAN
      /\ pc \in {"count", "categorize", "instantiate", "parse", "encode"}
  BY DEF CountOptions, CategorizeOption, CollectNonOption, AllCollected, InstantiateParser,
         SkipNoText, DoParseOption, ParsingDone, DoEncode, LineInv
<1>2. output = <<>> /\ Only({"options"})' /\ Only({"error"})'
  BY <1>1 DEF OutcomeInv, Only
<1>3. CASE ParsingDone
  <2>1. \/ pc' = "help" /\ ShowHelp'
        \/ pc' = "encode"
    BY <1>3 DEF ParsingDone, AfterParsing
  <2> QED
    BY <1>1, <1>2, <2>1 DEF OutcomeInv
<1>4. CASE DoEncode
  <2>1. pc' \in {"encode", "report"}
    BY <1>4 DEF DoEncode, NextParser
  <2>2. IInv'
    BY <1>4, EncodeStep
  <2>3. ContentSize' > 0 => packed' # {}
    BY <2>2 DEF IInv, BufferHoldsThePacket
  <2> QED
    BY <1>1, <1>2, <2>1, <2>3 DEF OutcomeInv
<1>5. CASE CountOptions \/ CategorizeOption \/ CollectNonOption \/ AllCollected \/ InstantiateParser
             \/ SkipNoText \/ DoParseOption
  <2>1. pc' \in {"count", "categorize", "instantiate", "parse", "failed"}
    BY <1>5 DEF CountOptions, CategorizeOption, CollectNonOption, AllCollected, InstantiateParser,
                SkipNoText, DoParseOption, NextParser
  <2> QED
    BY <1>1, <1>2, <2>1 DEF OutcomeInv
<1> QED
  BY <1>3, <1>4, <1>5

\* The help of the encoders and their errors.
LEMMA ShownOutcome ==
  ASSUME OutcomeInv, OutInv, LineInv, IInv, DoShowHelp \/ DoShowError
  PROVE  OutcomeInv'
<1>1. output \in Seq(Outputs) /\ j \in Nat /\ j \in Parsers
  BY ParserAssumption DEF OutInv, IInv, LoopTypeOK, Parsers
<1>2. UNCHANGED <<ShowHelp, HostName, ContentSize, packed>>
  BY DEF DoShowHelp, DoShowError
<1>3. CASE DoShowHelp
  <2>1. ShowHelp /\ Only({"options"}) /\ pc = "help" /\ pc' \in {"help", "destroy"}
    BY <1>3 DEF DoShowHelp, NextParser, OutcomeInv
  <2> DEFINE e == Event("options", j)
  <2>2. e \in Outputs /\ e.what \in {"options"}
    BY <1>1 DEF Event, Outputs
  <2>3. output' = Append(output, e) \/ output' = output
    BY <1>3 DEF DoShowHelp
  <2> HIDE DEF e
  <2>4. Only({"options"})'
    <3>1. CASE output' = Append(output, e)
      BY <3>1, <1>1, <2>1, <2>2, OneMore
    <3>2. CASE output' = output
      BY <3>2, <2>1 DEF Only
    <3> QED
      BY <3>1, <3>2, <2>3
  <2> QED
    BY <1>2, <2>1, <2>4 DEF OutcomeInv, Result
<1>4. CASE DoShowError
  <2>1. /\ ~ShowHelp /\ Only({"error"}) /\ ContentSize = 0 /\ packed = {}
        /\ pc' \in {"report", "destroy"}
    BY <1>4 DEF DoShowError, NextParser, OutcomeInv, LineInv, IInv, Progress
  <2> DEFINE e == Event("error", j)
  <2>2. e \in Outputs /\ e.what \in {"error"}
    BY <1>1 DEF Event, Outputs
  <2>3. output' = Append(output, e) \/ output' = output
    BY <1>4 DEF DoShowError
  <2> HIDE DEF e
  <2>4. Only({"error"})'
    <3>1. CASE output' = Append(output, e)
      BY <3>1, <1>1, <2>1, <2>2, OneMore
    <3>2. CASE output' = output
      BY <3>2, <2>1 DEF Only
    <3> QED
      BY <3>1, <3>2, <2>3
  <2> QED
    BY <1>2, <2>1, <2>4 DEF OutcomeInv, Result
<1> QED
  BY <1>3, <1>4

\* The packet is all that comes out when there is one.
LEMMA SentOutcome ==
  ASSUME OutcomeInv, LineInv, IInv, Send
  PROVE  OutcomeInv'
<1> DEFINE Packet(who) == [what |-> "packet", who |-> who, host |-> HostName]
<1>1. /\ output = <<>> /\ ~ShowHelp /\ packed # {} /\ packed = {bufOwner} /\ pc' = "destroy"
      /\ UNCHANGED <<ShowHelp, HostName, packed, bufOwner>>
  BY DEF Send, OutcomeInv, LineInv, IInv, BufferHoldsThePacket
<1>2. output' = Append(output, Packet(bufOwner))
  BY DEF Send
<1>3. Packet(bufOwner)' = Packet(bufOwner)
  BY <1>1
<1> HIDE DEF Packet
<1>4. output' = <<Packet(bufOwner)>>
  BY <1>1, <1>2
<1>5. Result'
  <2>1. bufOwner \in packed' /\ output' = <<[what |-> "packet", who |-> bufOwner, host |-> HostName']>>
    BY <1>1, <1>4 DEF Packet
  <2> QED
    BY <1>1, <2>1 DEF Result
<1> QED
  BY <1>1, <1>5 DEF OutcomeInv

\* Usage follows the help, nothing a packet or an error.
LEMMA LeftOutcome ==
  ASSUME OutcomeInv, OutInv, LineInv, DestroyParser \/ Exit
  PROVE  OutcomeInv'
<1>1. UNCHANGED <<ShowHelp, HostName, packed>> /\ Result /\ output \in Seq(Outputs)
  BY DEF DestroyParser, Exit, OutcomeInv, OutInv
<1>2. ASSUME output' = output PROVE Result'
  BY <1>1, <1>2, Zenon DEF Result, Only
<1>3. CASE DestroyParser
  <2>1. pc' \in {"destroy", "exit"} /\ output' = output
    BY <1>3 DEF DestroyParser, NextParser
  <2> QED
    BY <1>2, <2>1 DEF OutcomeInv
<1>4. CASE Exit
  <2>1. pc' = "done"
    BY <1>4 DEF Exit
  <2>2. CASE ShowHelp
    <3> DEFINE e == Event("usage", 0)
    <3>1. e \in Outputs /\ e.what = "usage"
      BY DEF Event, Outputs
    <3>2. output' = Append(output, e)
      BY <1>4, <2>2 DEF Exit
    <3> HIDE DEF e
    <3>3. Only({"options"})
      BY <1>1, <2>2 DEF Result
    <3>4. /\ Len(output') = Len(output) + 1 /\ Len(output) \in Nat
          /\ DOMAIN output' = 1..(Len(output) + 1) /\ DOMAIN output = 1..Len(output)
          /\ output'[Len(output) + 1] = e
          /\ \A k \in DOMAIN output : output'[k] = output[k]
      BY <1>1, <3>1, <3>2
    <3>5. UsageLast'
      BY <3>1, <3>3, <3>4 DEF UsageLast, Only
    <3> QED
      BY <1>1, <2>1, <2>2, <3>5 DEF OutcomeInv
  <2>3. CASE ~ShowHelp
    <3>1. output' = output
      BY <1>4, <2>3 DEF Exit
    <3> QED
      BY <1>1, <1>2, <2>1, <2>3, <3>1 DEF OutcomeInv
  <2> QED
    BY <2>2, <2>3
<1> QED
  BY <1>3, <1>4

\* Every step keeps the invariant of the outcome.
LEMMA OutcomeStep ==
  ASSUME OutcomeInv, OutInv, LineInv, IInv, [Next]_vars
  PROVE  OutcomeInv'
<1>1. CASE UNCHANGED vars
  <2>1. UNCHANGED <<pc, ShowHelp, HostName, ContentSize, packed, output>>
    BY <1>1 DEF vars
  <2>2. \A whats : Only(whats)' = Only(whats)
    BY <2>1, Zenon DEF Only
  <2>3. Result' = Result /\ UsageLast' = UsageLast
    BY <2>1, <2>2, Zenon DEF Result, UsageLast
  <2> QED
    BY <2>1, <2>2, <2>3, Zenon DEF OutcomeInv
<1> QED
  BY <1>1, SilentOutcome, ShownOutcome, SentOutcome, LeftOutcome DEF Next

\* The first outcome is none.
LEMMA InitOutcome == Init => OutcomeInv
<1> SUFFICES ASSUME Init PROVE OutcomeInv
  OBVIOUS
<1>1. pc = "count" /\ output = <<>>
  BY DEF Init
<1> QED
  BY <1>1 DEF OutcomeInv

\* What came out of a run that ended.
LEMMA OneAtTheEnd ==
  ASSUME LineInv, OutInv, OutcomeInv
  PROVE  OneOutcome
<1> DEFINE hosts == {k \in DOMAIN line : line[k] = "host"}
           host == IF hosts = {} THEN 0 ELSE Max(hosts)
<1> SUFFICES ASSUME pc = "done"
             PROVE  IF \E k \in DOMAIN line : line[k] \in {"help", "unknown"}
                    THEN /\ Events("packet") = {} /\ Events("error") = {}
                         /\ Events("usage") = {Len(output)}
                    ELSE /\ Events("usage") = {} /\ Events("options") = {}
                         /\ packed = {} => Events("packet") = {}
                         /\ packed # {} => /\ Len(output) = 1 /\ Events("packet") = {1}
                                           /\ output[1].who \in packed
                                           /\ output[1].host = host
  BY DEF OneOutcome
<1>1. /\ line \in Seq(LineTokens) /\ OptionsLeft = {} /\ HostName \in Nat
      /\ \A k \in DOMAIN line : line[k] # "argument" => k < optind
  BY DEF LineInv, OptionsLeft
<1>2. ShowHelp <=> \E k \in DOMAIN line : line[k] \in {"help", "unknown"}
  BY <1>1 DEF LineInv, HelpSoFar
<1>3. host = HostName
  <2>1. hosts \in SUBSET Nat
    BY <1>1
  <2>2. HostName = 0 \/ HostName \in hosts
    BY DEF LineInv, IsHostSoFar
  <2>3. \A k \in hosts : k <= HostName /\ k \in Nat \ {0}
    BY <1>1 DEF LineInv, IsHostSoFar
  <2> HIDE DEF hosts
  <2>4. CASE hosts = {}
    BY <2>2, <2>4
  <2>5. CASE hosts # {}
    <3>1. HostName \in hosts
      BY <1>1, <2>2, <2>3, <2>5
    <3> QED
      BY <2>1, <2>3, <2>5, <3>1, MaxIs
  <2> QED
    BY <2>4, <2>5
<1> HIDE DEF host
<1>4. CASE ShowHelp
  <2>1. UsageLast /\ output \in Seq(Outputs)
    BY <1>4 DEF OutcomeInv, OutInv
  <2>2. \A k \in DOMAIN output : k \in Nat /\ k <= Len(output) /\ Len(output) \in DOMAIN output
    BY <2>1 DEF UsageLast
  <2>3. \A k \in DOMAIN output : output[k].what = "usage" <=> k = Len(output)
    BY <2>1, <2>2 DEF UsageLast
  <2>4. \A k \in DOMAIN output : output[k].what \in {"options", "usage"}
    BY <2>1, <2>2 DEF UsageLast
  <2>5. Len(output) \in DOMAIN output
    BY <2>1 DEF UsageLast
  <2> QED
    BY <1>2, <1>4, <2>3, <2>4, <2>5 DEF Events
<1>5. CASE ~ShowHelp
  <2>1. Result
    BY <1>5 DEF OutcomeInv
  <2>2. CASE packed = {}
    BY <1>2, <1>5, <2>1, <2>2 DEF Result, Only, Events
  <2>3. CASE packed # {}
    <3>1. PICK who \in packed : output = <<[what |-> "packet", who |-> who, host |-> HostName]>>
      BY <1>5, <2>1, <2>3 DEF Result
    <3>2. /\ Len(output) = 1 /\ DOMAIN output = {1}
          /\ output[1].what = "packet" /\ output[1].who = who /\ output[1].host = HostName
      BY <3>1
    <3> QED
      BY <1>2, <1>3, <1>5, <2>3, <3>2 DEF Events
  <2> QED
    BY <2>2, <2>3
<1> QED
  BY <1>4, <1>5

\* A run that ends has one outcome: usage last and nothing sent if help was asked for or an
\* option was not understood, else one packet to the last host named, or errors if there
\* is none.  For any number of encoders and any command line (main).
THEOREM OutcomeIsOne == Spec => []OneOutcome
<1>1. Init => LineInv /\ OutInv /\ OutcomeInv
  BY InitLineInv, InitOutInv, InitOutcome
<1>2. IInv /\ LineInv /\ OutInv /\ OutcomeInv /\ [Next]_vars => LineInv' /\ OutInv' /\ OutcomeInv'
  BY LineStep, OutStep, OutcomeStep
<1>3. LineInv /\ OutInv /\ OutcomeInv => OneOutcome
  BY OneAtTheEnd
<1> QED
  BY <1>1, <1>2, <1>3, Invariance, PTL DEF Spec

-----------------------------------------------------------------------------
(* What the names that share a letter mean.                                *)

\* The last row with the letter of row k.
LastRow(k) == IF k \in {5, 10, 24, 28, 34} THEN k + 1 ELSE IF k = 33 THEN k + 2 ELSE k

\* The rows of one letter are neighbours.
LEMMA LastRowIs ==
  ASSUME NEW k \in 1..44
  PROVE  /\ LastRow(k) \in 1..44
         /\ LONGINFO[LastRow(k)].val = LONGINFO[k].val
         /\ \A y \in 1..44 : LONGINFO[y].val = LONGINFO[k].val => y <= LastRow(k)
BY SMTT(100) DEF LONGINFO, Option, LastRow

\* A letter is turned into the name of its last row.
LEMMA NameOfLastRow ==
  ASSUME NEW k \in 1..44
  PROVE  NameOf(LONGINFO[k].val) = LONGINFO[LastRow(k)].name
<1> DEFINE S == {y \in DOMAIN LONGINFO : LONGINFO[y].val = LONGINFO[k].val}
<1>1. NameOf(LONGINFO[k].val) = LONGINFO[Max(S)].name
  BY DEF NameOf
<1>2. S \subseteq 1..44 /\ \A y \in 1..44 : y \in S <=> LONGINFO[y].val = LONGINFO[k].val
  BY TableRows, Zenon
<1> HIDE DEF S
<1>3. /\ S \in SUBSET Nat /\ LastRow(k) \in S
      /\ \A y \in S : y <= LastRow(k)
  <2> DEFINE w == LastRow(k)
  <2>1. /\ w \in 1..44 /\ LONGINFO[w].val = LONGINFO[k].val
        /\ \A y \in 1..44 : LONGINFO[y].val = LONGINFO[k].val => y <= w
    BY LastRowIs
  <2> HIDE DEF w
  <2>2. w \in S /\ \A y \in S : y <= w
    BY <1>2, <2>1, Zenon
  <2> QED
    BY <1>2, <2>2 DEF w
<1> QED
  BY <1>1, <1>3, MaxIs

\* The cases of a name exclude each other.
LEMMA MeaningIs ==
  /\ \A n \in FieldIds : Meaning(n) = FieldOf[n]
  /\ Meaning("pktname") = FieldOf["pktseqcnt"]
  /\ \A n \in NumberIds : Meaning(n) = <<NumberOf[n], n \in ForcedBigEndian>>
<1>1. /\ \A n \in NumberIds : n \notin FieldIds /\ n # "pktname"
      /\ "pktname" \notin FieldIds /\ "pktname" \notin NumberIds
  BY DEF FieldIds, FieldOf, NumberIds, NumberOf
<1>2. \A n \in FieldIds : Meaning(n) = FieldOf[n]
  BY <1>1, Zenon DEF Meaning
<1>3. Meaning("pktname") = FieldOf["pktseqcnt"]
  BY <1>1, Zenon DEF Meaning
<1>4. \A n \in NumberIds : Meaning(n) = <<NumberOf[n], n \in ForcedBigEndian>>
  BY <1>1, Zenon DEF Meaning
<1> QED
  BY <1>2, <1>3, <1>4

\* The names that are not the last of their letter mean what the last one means.
LEMMA SharedLetters ==
  ASSUME NEW k \in 1..44
  PROVE  Meaning(LONGINFO[LastRow(k)].name) = Meaning(LONGINFO[k].name)
<1>1. CASE k \notin {5, 10, 24, 28, 33, 34}
  BY <1>1 DEF LastRow
<1>2. CASE k = 5
  <2>1. LONGINFO[k].name = "cmdcode" /\ LONGINFO[LastRow(k)].name = "pktfc"
    BY <1>2 DEF LONGINFO, Option, LastRow
  <2>2. Meaning("cmdcode") = Meaning("pktfc")
    <3>1. {"cmdcode", "pktfc"} \subseteq FieldIds /\ FieldOf["cmdcode"] = FieldOf["pktfc"]
      BY DEF FieldIds, FieldOf
    <3> QED
      BY <3>1, MeaningIs
  <2> QED
    BY <2>1, <2>2
<1>3. CASE k = 10
  <2>1. LONGINFO[k].name = "pktname" /\ LONGINFO[LastRow(k)].name = "pktseqcnt"
    BY <1>3 DEF LONGINFO, Option, LastRow
  <2>2. Meaning("pktname") = FieldOf["pktseqcnt"] /\ Meaning("pktseqcnt") = FieldOf["pktseqcnt"]
    <3>1. "pktseqcnt" \in FieldIds
      BY DEF FieldIds, FieldOf
    <3> QED
      BY <3>1, MeaningIs
  <2> QED
    BY <2>1, <2>2
<1>4. ASSUME NEW a \in NumberIds, NEW b \in NumberIds, NumberOf[a] = NumberOf[b],
             a \notin ForcedBigEndian, b \notin ForcedBigEndian
      PROVE  Meaning(a) = Meaning(b)
  <2>1. (a \in ForcedBigEndian) = (b \in ForcedBigEndian)
    BY <1>4, SMT
  <2> QED
    BY <1>4, <2>1, MeaningIs
<1>5. CASE k \in {24, 28, 33, 34}
  <2>1. /\ k = 24 => LONGINFO[k].name = "byte" /\ LONGINFO[LastRow(k)].name = "int8"
        /\ k = 28 => LONGINFO[k].name = "half" /\ LONGINFO[LastRow(k)].name = "int16"
        /\ k = 33 => LONGINFO[k].name = "long" /\ LONGINFO[LastRow(k)].name = "int32"
        /\ k = 34 => LONGINFO[k].name = "word" /\ LONGINFO[LastRow(k)].name = "int32"
    BY DEF LONGINFO, Option, LastRow
  <2>2. \A n \in {"byte", "int8", "half", "int16", "long", "word", "int32"} :
          n \in NumberIds /\ n \notin ForcedBigEndian
    BY DEF NumberIds, NumberOf, ForcedBigEndian
  <2>3. /\ NumberOf["byte"] = NumberOf["int8"] /\ NumberOf["half"] = NumberOf["int16"]
        /\ NumberOf["long"] = NumberOf["int32"] /\ NumberOf["word"] = NumberOf["int32"]
    BY DEF NumberOf
  <2> QED
    BY <1>4, <1>5, <2>1, <2>2, <2>3
<1> QED
  BY <1>1, <1>2, <1>3, <1>5

\* Apart from main's own, the pass-through encoder has a case for every name left.
LEMMA NamesHandled ==
  ASSUME NEW k \in 1..44, k \notin {1, 2, 12, 16}
  PROVE  LONGINFO[LastRow(k)].name \in HandledIds
<1>1. LastRow(k) \in (1..44) \ {1, 2, 5, 10, 12, 16}
  BY DEF LastRow
<1>2. \A r \in (1..44) \ {1, 2, 5, 10, 12, 16} : LONGINFO[r].name \in HandledIds
  BY SMTT(100) DEF LONGINFO, Option, HandledIds, FieldIds, FieldOf, NumberIds, NumberOf
<1> QED
  BY <1>1, <1>2

\* The names that are turned into another, and those that are not.
Renamed ==
    [ cmdcode |-> "pktfc", pktname |-> "pktseqcnt", byte |-> "int8", half |-> "int16",
      long |-> "int32", word |-> "int32" ]

LEMMA HandedName ==
  ASSUME NEW t \in LineTokens, t \notin OwnOptions \cup {"unknown", "argument"}
  PROVE  NameOf(Letter(t)) = IF t \in DOMAIN Renamed THEN Renamed[t] ELSE t
<1>1. PICK m \in 1..44 : LONGINFO[m].name = t /\ Letter(t) = LONGINFO[m].val
  BY LetterOfWord
<1>2. NameOf(Letter(t)) = LONGINFO[LastRow(m)].name
  BY <1>1, NameOfLastRow
<1>3. CASE m \in {5, 10, 24, 28, 33, 34}
  <2>1. /\ m = 5 => t = "cmdcode" /\ LONGINFO[LastRow(m)].name = "pktfc"
        /\ m = 10 => t = "pktname" /\ LONGINFO[LastRow(m)].name = "pktseqcnt"
        /\ m = 24 => t = "byte" /\ LONGINFO[LastRow(m)].name = "int8"
        /\ m = 28 => t = "half" /\ LONGINFO[LastRow(m)].name = "int16"
        /\ m = 33 => t = "long" /\ LONGINFO[LastRow(m)].name = "int32"
        /\ m = 34 => t = "word" /\ LONGINFO[LastRow(m)].name = "int32"
    BY <1>1 DEF LONGINFO, Option, LastRow
  <2> QED
    BY <1>2, <1>3, <2>1 DEF Renamed
<1>4. CASE m \notin {5, 10, 24, 28, 33, 34}
  <2>1. LastRow(m) = m
    BY <1>4 DEF LastRow
  <2>2. t \notin DOMAIN Renamed
    <3>1. \A r \in (1..44) \ {5, 10, 24, 28, 33, 34} :
            LONGINFO[r].name \notin {"cmdcode", "pktname", "byte", "half", "long", "word"}
      BY SMTT(100) DEF LONGINFO, Option
    <3> QED
      BY <1>1, <1>4, <3>1 DEF Renamed
  <2> QED
    BY <1>1, <1>2, <2>1, <2>2
<1> QED
  BY <1>3, <1>4

\* An entry of the list that has a text goes by the name its word's letter is turned into,
\* or by none if the word is no option.
GoesBy(e) ==
    /\ e.name # "NONE" /\ e.text # 0 =>
         /\ e.text \in DOMAIN line /\ line[e.text] # "argument"
         /\ e.name = NameOf(Letter(line[e.text])) /\ e.name \notin OwnOptions
    /\ e.name = "NONE" => e.text \in DOMAIN line /\ line[e.text] = "argument"
NamesInv == \A n \in DOMAIN ArgV : GoesBy(ArgV[n])

\* A name is entered with the option it comes from.
LEMMA NamesStep ==
  ASSUME NamesInv, ListInv, LineInv, [Next]_vars
  PROVE  NamesInv'
<1>1. ASSUME UNCHANGED <<line, ArgV>> PROVE NamesInv'
  BY <1>1 DEF NamesInv, GoesBy
<1>2. ASSUME line' = line, NEW e \in [name : OptionNames \cup {"NONE"}, text : Nat],
             ArgV' = Append(ArgV, e), GoesBy(e)
      PROVE  NamesInv'
  <2>1. /\ \A n \in DOMAIN ArgV : ArgV'[n] = ArgV[n]
        /\ ArgV'[Len(ArgV) + 1] = e
        /\ DOMAIN ArgV' = DOMAIN ArgV \cup {Len(ArgV) + 1}
    BY <1>2, AppendEntry DEF ListInv
  <2>2. \A f : GoesBy(f)' <=> GoesBy(f)
    BY <1>2 DEF GoesBy
  <2>3. \A n \in DOMAIN ArgV' : GoesBy(ArgV'[n])
    BY <1>2, <2>1 DEF NamesInv
  <2> QED
    BY <1>2, <2>3 DEF NamesInv, GoesBy
<1>3. line \in Seq(LineTokens)
  BY DEF LineInv
<1>4. CASE CategorizeOption
  <2>1. PICK k \in OptionsLeft :
          ArgV' = Append(ArgV, [name |-> NameOf(Letter(line[k])),
                                text |-> IF NameOf(Letter(line[k])) \in OwnOptions THEN 0 ELSE k])
    BY <1>4 DEF CategorizeOption
  <2> DEFINE e == [name |-> NameOf(Letter(line[k])),
                   text |-> IF NameOf(Letter(line[k])) \in OwnOptions THEN 0 ELSE k]
  <2>2. k \in DOMAIN line /\ k \in Nat /\ line[k] \in LineTokens /\ line[k] # "argument"
    BY <1>3 DEF OptionsLeft
  <2>3. NameOf(Letter(line[k])) \in OptionNames /\ NameOf(Letter(line[k])) # "NONE"
    <3>1. \A r \in 1..44 : LONGINFO[r].name # "NONE"
      BY SMTT(100) DEF LONGINFO, Option
    <3>2. "NONE" \notin OptionNames
      BY <3>1, TableRows DEF OptionNames
    <3> QED
      BY <2>2, <3>2, WordKept
  <2>4. e \in [name : OptionNames \cup {"NONE"}, text : Nat] /\ GoesBy(e)
    BY <2>2, <2>3 DEF GoesBy
  <2>5. line' = line
    BY <1>4 DEF CategorizeOption
  <2> HIDE DEF e
  <2> QED
    BY <1>2, <2>1, <2>4, <2>5 DEF e
<1>5. CASE CollectNonOption
  <2>1. PICK k \in ArgumentsLeft : ArgV' = Append(ArgV, [name |-> "NONE", text |-> k])
    BY <1>5 DEF CollectNonOption
  <2> DEFINE e == [name |-> "NONE", text |-> k]
  <2>2. e \in [name : OptionNames \cup {"NONE"}, text : Nat] /\ GoesBy(e)
    BY <1>3 DEF ArgumentsLeft, GoesBy
  <2>3. line' = line
    BY <1>5 DEF CollectNonOption
  <2> HIDE DEF e
  <2> QED
    BY <1>2, <2>1, <2>2, <2>3 DEF e
<1>6. CASE AllCollected \/ CountOptions \/ SkipNoText \/ ParsingDone \/ Send \/ Exit \/ UNCHANGED vars
  BY <1>1, <1>6 DEF AllCollected, CountOptions, SkipNoText, ParsingDone, Send, Exit, vars
<1>7. CASE InstantiateParser \/ DoParseOption \/ DoShowHelp \/ DoEncode \/ DoShowError \/ DestroyParser
  BY <1>1, <1>7 DEF InstantiateParser, DoParseOption, DoShowHelp, DoEncode, DoShowError, DestroyParser
<1> QED
  BY <1>4, <1>5, <1>6, <1>7 DEF Next

\* The name of an entry is that of the last row with the letter of the word.
LEMMA NamesUnderstood ==
  ASSUME LineInv, NamesInv
  PROVE  OptionsUnderstood
<1> SUFFICES ASSUME NEW n \in DOMAIN ArgV, ArgV[n].name # "NONE", ArgV[n].text # 0
             PROVE  /\ ArgV[n].name \in HandledIds
                    /\ Meaning(ArgV[n].name) = Meaning(line[ArgV[n].text])
  BY DEF OptionsUnderstood
<1> DEFINE t == line[ArgV[n].text]
<1>1. t \in LineTokens /\ t # "argument" /\ ArgV[n].name = NameOf(Letter(t)) /\ NameOf(Letter(t)) \notin OwnOptions
  BY DEF NamesInv, GoesBy, LineInv
<1> HIDE DEF t
<1>2. t \notin OwnOptions \cup {"unknown"}
  BY <1>1, WordKept
<1>3. PICK m \in 1..44 : LONGINFO[m].name = t /\ Letter(t) = LONGINFO[m].val
  BY <1>1, <1>2, LetterOfWord
<1>4. m \notin {1, 2, 12, 16}
  BY <1>2, <1>3, TableRows, OwnRows DEF OwnOptions
<1>5. ArgV[n].name = LONGINFO[LastRow(m)].name
  BY <1>1, <1>3, NameOfLastRow
<1> QED
  BY <1>3, <1>4, <1>5, NamesHandled, SharedLetters DEF t

\* Nothing is in the list at first.
LEMMA InitNames == Init => NamesInv
BY DEF Init, NamesInv

\* Every option handed on goes by a name that the pass-through encoder has a case for and
\* that means what the name typed means, for any command line (reverse_opt_lookup).
THEOREM OptionsAreUnderstood == Spec => []OptionsUnderstood
<1>1. LineInv /\ NamesInv => OptionsUnderstood
  BY NamesUnderstood
<1> QED
  BY <1>1, InitNames, NamesStep, OrderInvariance, PTL DEF Spec
=============================================================================
