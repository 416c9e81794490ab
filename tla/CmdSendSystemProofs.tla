------------------------- MODULE CmdSendSystemProofs ------------------------
(***************************************************************************)
(* Proofs about cmd_send as linked: its steps are steps of main, of        *)
(* SendUdp and of the encoders, so that what is proved of them holds of    *)
(* the program, and at most one datagram leaves it, for any command line.  *)
(***************************************************************************)
EXTENDS CmdSendSystemProperties, IndexLemmas

\* The parts with what is proved of them.
M == INSTANCE CmdSendProofs
       WITH NUM_PARSERS <- 2, WithHelp <- {EdsParser},
            CommandLines <- {Tokens(words) : words \in Typed}, line <- Tokens(typed)
U == INSTANCE SendUdpProofs WITH PACKET_SIZE <- 2, pc <- upc

\* The encoders, for all arguments there are.
E == INSTANCE EdsProofs
       WITH MAX_ARGS <- 0, ArgV <- EDS!Arg, argv <- edsArgs, status <- edsStatus, packet <- edsPacket

PassThruArgs ==
    {a \in PassThru!Arg :
       a.id \in PassThru!NumberIds =>
         Len(a.val) = IF PassThru!NumberOf[a.id].kind = "real" THEN PassThru!NumberOf[a.id].size ELSE 8}
P == INSTANCE PassThruProofs
       WITH MAX_ARGS <- 0, ArgV <- PassThruArgs, argv <- ptArgs, status <- ptStatus, packet <- ptPacket

\* What their proofs assume holds here.
LEMMA PartsAssumptions ==
  /\ M!ParserAssumption /\ M!HelpAssumption /\ M!LineAssumption
  /\ U!AddressAssumption /\ U!PacketAssumption
<1>1. M!LineTokens = Main!LineTokens
  BY DEF M!LineTokens, Main!LineTokens, M!OptionNames, Main!OptionNames, M!LONGINFO, Main!LONGINFO,
         M!Option, Main!Option
<1> QED
  BY <1>1, TypedAssumption, KernelAssumption
     DEF M!ParserAssumption, M!HelpAssumption, M!LineAssumption, U!AddressAssumption,
         U!PacketAssumption, EdsParser

-----------------------------------------------------------------------------
(* The steps of the parts.                                                 *)

\* M has the actions of Main.
LEMMA SameActions ==
  /\ Main!CountOptions <=> M!CountOptions
  /\ Main!CategorizeOption <=> M!CategorizeOption
  /\ Main!CollectNonOption <=> M!CollectNonOption
  /\ Main!AllCollected <=> M!AllCollected
  /\ Main!SkipNoText <=> M!SkipNoText
  /\ Main!ParsingDone <=> M!ParsingDone
  /\ Main!DoShowError <=> M!DoShowError
  /\ Main!DestroyParser <=> M!DestroyParser
  /\ Main!Exit <=> M!Exit
  /\ Main!InstantiateParser <=> M!InstantiateParser
  /\ Main!DoParseOption <=> M!DoParseOption
  /\ Main!DoShowHelp <=> M!DoShowHelp
  /\ Main!DoEncode <=> M!DoEncode
  /\ Main!Send <=> M!Send
<1>1. Main!CountOptions <=> M!CountOptions
  BY DEF Main!CountOptions, M!CountOptions
<1>2. Main!CategorizeOption <=> M!CategorizeOption
  BY DEF Main!Max, M!Max, Main!Range, M!Range, Main!CategorizeOption, M!CategorizeOption, Main!OptionsLeft, M!OptionsLeft, Main!NameOf, M!NameOf, Main!Letter, M!Letter, Main!LONGINFO, M!LONGINFO, Main!Option, M!Option, Main!OwnOptions, M!OwnOptions
<1>3. Main!CollectNonOption <=> M!CollectNonOption
  BY DEF Main!CollectNonOption, M!CollectNonOption, Main!OptionsLeft, M!OptionsLeft, Main!ArgumentsLeft, M!ArgumentsLeft
<1>4. Main!AllCollected <=> M!AllCollected
  BY DEF Main!AllCollected, M!AllCollected, Main!OptionsLeft, M!OptionsLeft, Main!ArgumentsLeft, M!ArgumentsLeft
<1>5. Main!SkipNoText <=> M!SkipNoText
  BY DEF Main!SkipNoText, M!SkipNoText, Main!MoreToParse, M!MoreToParse, Main!HasText, M!HasText, Main!NextArgument, M!NextArgument
<1>6. Main!ParsingDone <=> M!ParsingDone
  BY DEF Main!ParsingDone, M!ParsingDone, Main!MoreToParse, M!MoreToParse, Main!AfterParsing, M!AfterParsing
<1>7. Main!DoShowError <=> M!DoShowError
  BY DEF Main!DoShowError, M!DoShowError, Main!Live, M!Live, Main!Event, M!Event, Main!NextParser, M!NextParser
<1>8. Main!DestroyParser <=> M!DestroyParser
  BY DEF Main!DestroyParser, M!DestroyParser, Main!Live, M!Live, Main!NextParser, M!NextParser
<1>9. Main!Exit <=> M!Exit
  BY DEF Main!Exit, M!Exit, Main!Event, M!Event
<1>10. Main!InstantiateParser <=> M!InstantiateParser
  BY DEF Main!InstantiateParser, M!InstantiateParser, Main!NextParser, M!NextParser
<1>11. Main!DoParseOption <=> M!DoParseOption
  BY DEF Main!DoParseOption, M!DoParseOption, Main!MoreToParse, M!MoreToParse, Main!HasText, M!HasText, Main!PutOut, M!PutOut, Main!ParseAnswers, M!ParseAnswers, Main!NextArgument, M!NextArgument, Main!NextParser, M!NextParser
<1>12. Main!DoShowHelp <=> M!DoShowHelp
  BY DEF Main!DoShowHelp, M!DoShowHelp, Main!Live, M!Live, Main!Event, M!Event, Main!NextParser, M!NextParser
<1>13. Main!DoEncode <=> M!DoEncode
  BY DEF Main!DoEncode, M!DoEncode, Main!MayEncode, M!MayEncode, Main!NextParser, M!NextParser
<1>14. Main!Send <=> M!Send
  BY DEF Main!Send, M!Send
<1> QED
  BY <1>1, <1>2, <1>3, <1>4, <1>5, <1>6, <1>7, <1>8, <1>9, <1>10, <1>11, <1>12, <1>13, <1>14

\* What typed says of the line stays.
LEMMA LineStays == typed' = typed => Tokens(typed)' = Tokens(typed)
BY DEF Tokens

\* A step of the program is a step of main or none.
LEMMA MainPart ==
  ASSUME [Next]_vars
  PROVE  [M!Next]_(M!vars)
<1>1. typed' = typed
  BY DEF Next, vars
<1>2. CASE UNCHANGED mainVars
  BY <1>1, <1>2, LineStays DEF M!vars, mainVars
<1>3. CASE MainStep \/ Instantiate \/ DoParseOption \/ DoShowHelp \/ DoEncode \/ Send
  BY <1>3, SameActions, Zenon DEF MainStep, Instantiate, DoParseOption, DoShowHelp, DoEncode, Send, M!Next
<1>4. CASE SendUdpStep \/ Over \/ UNCHANGED vars
  BY <1>2, <1>4 DEF SendUdpStep, Over, vars
<1> QED
  BY <1>3, <1>4 DEF Next

\* And a step of SendUdp or none.
LEMMA UdpPart ==
  ASSUME [Next]_vars
  PROVE  [U!Next]_(U!vars)
<1>1. CASE UNCHANGED udpVars
  BY <1>1 DEF udpVars, U!vars
<1>2. CASE SendUdpStep
  <2>1. Udp!CheckArguments => U!CheckArguments
    BY DEF Udp!CheckArguments, U!CheckArguments, Udp!Return, U!Return
  <2>2. Udp!Resolve => U!Resolve
    BY DEF Udp!Resolve, U!Resolve, Udp!Return, U!Return
  <2>3. Udp!OpenSocket => U!OpenSocket
    <3>1. Udp!FreshDescriptor = U!FreshDescriptor
      BY Zenon DEF Udp!FreshDescriptor, U!FreshDescriptor, Udp!Cardinality, U!Cardinality
    <3> QED
      BY <3>1 DEF Udp!OpenSocket, U!OpenSocket, Udp!NextAddress, U!NextAddress, Udp!Attempted, U!Attempted
  <2>4. Udp!Connect => U!Connect
    BY DEF Udp!Connect, U!Connect, Udp!NextAddress, U!NextAddress, Udp!Attempted, U!Attempted, Udp!CloseSocket, U!CloseSocket
  <2>5. Udp!NoneLeft => U!NoneLeft
    BY DEF Udp!NoneLeft, U!NoneLeft, Udp!Return, U!Return
  <2>6. Udp!NameAndFree => U!NameAndFree
    BY DEF Udp!NameAndFree, U!NameAndFree
  <2>7. Udp!Send => U!Send
    BY DEF Udp!Send, U!Send
  <2>8. Udp!Close => U!Close
    BY DEF Udp!Close, U!Close, Udp!CloseSocket, U!CloseSocket, Udp!Return, U!Return, Udp!WholePacketTaken, U!WholePacketTaken
  <2> QED
    BY <1>2, <2>1, <2>2, <2>3, <2>4, <2>5, <2>6, <2>7, <2>8, Zenon DEF SendUdpStep, Udp!Next, U!Next
<1>3. CASE MainStep \/ Instantiate \/ DoParseOption \/ DoShowHelp \/ DoEncode \/ Send \/ Over \/ UNCHANGED vars
  BY <1>1, <1>3 DEF MainStep, Instantiate, DoParseOption, DoShowHelp, DoEncode, Send, Over, vars
<1> QED
  BY <1>2, <1>3 DEF Next

\* The invariants of main and of SendUdp.
MainInv ==
    /\ M!IInv /\ M!LineInv /\ M!ListInv /\ M!CallsInv
    /\ M!OutInv /\ M!OutcomeInv /\ M!NamesInv
PartsInv == MainInv /\ U!IInv

\* They hold at first.
LEMMA InitParts == Init => PartsInv
<1> SUFFICES ASSUME Init PROVE PartsInv
  OBVIOUS
<1>1. M!Init
  BY DEF Init, Main!Init, M!Init, Main!Parsers, M!Parsers
<1>2. U!Init
  BY DEF Init, Udp!Init, U!Init
<1>3. M!IInv /\ M!LineInv /\ M!ListInv /\ M!CallsInv
  BY <1>1, PartsAssumptions, M!InitIInv, M!InitLineInv, M!InitListInv, M!InitCallsInv
<1>4. M!OutInv /\ M!OutcomeInv /\ M!NamesInv
  BY <1>1, PartsAssumptions, M!InitOutInv, M!InitOutcome, M!InitNames
<1>5. U!IInv
  BY <1>2, PartsAssumptions, U!InitIInv
<1> QED
  BY <1>3, <1>4, <1>5 DEF PartsInv, MainInv

\* And at every step.
LEMMA PartsStep ==
  ASSUME PartsInv, [Next]_vars
  PROVE  PartsInv'
<1>1. [M!Next]_(M!vars) /\ [U!Next]_(U!vars)
  BY MainPart, UdpPart
<1>2. /\ M!IInv /\ M!LineInv /\ M!ListInv /\ M!CallsInv
      /\ M!OutInv /\ M!OutcomeInv /\ M!NamesInv /\ U!IInv
  BY DEF PartsInv, MainInv
<1>3. M!IInv' /\ M!LineInv'
  BY <1>1, <1>2, PartsAssumptions, M!NextStep, M!LineStep
<1>4. M!ListInv'
  BY <1>1, <1>2, PartsAssumptions, M!ListStep
<1>5. M!CallsInv'
  BY <1>1, <1>2, <1>4, PartsAssumptions, M!CallsStep
<1>6. M!OutInv' /\ M!OutcomeInv'
  BY <1>1, <1>2, PartsAssumptions, M!OutStep, M!OutcomeStep
<1>7. M!NamesInv'
  BY <1>1, <1>2, PartsAssumptions, M!NamesStep
<1>8. U!IInv'
  BY <1>1, <1>2, PartsAssumptions, U!NextStep
<1> QED
  BY <1>3, <1>4, <1>5, <1>6, <1>7, <1>8 DEF PartsInv, MainInv

\* The program is main with everything it does besides invisible: what is proved of main
\* for any encoders holds with the two that are linked.
THEOREM RunsMain == Spec => M!Init /\ [][M!Next]_(M!vars)
<1>1. Init => M!Init
  BY DEF Init, Main!Init, M!Init, Main!Parsers, M!Parsers
<1> QED
  BY <1>1, MainPart, PTL DEF Spec

\* Each encoder is given the words of the line that are for it, in order and under
\* names it knows, one that makes the packet all of them, and a run has one outcome.
THEOREM MainKeepsItsPromises ==
  Spec => [](/\ M!CallsInOrder /\ M!EncodersSawEverything /\ M!OptionsUnderstood
             /\ M!BufferHoldsThePacket /\ M!ObjectsLiveAndFreed /\ M!OneOutcome)
<1>1. ASSUME PartsInv
      PROVE  /\ M!CallsInOrder /\ M!EncodersSawEverything /\ M!OptionsUnderstood
             /\ M!BufferHoldsThePacket /\ M!ObjectsLiveAndFreed /\ M!OneOutcome
  <2>1. /\ M!IInv /\ M!LineInv /\ M!ListInv /\ M!CallsInv
        /\ M!OutInv /\ M!OutcomeInv /\ M!NamesInv
    BY <1>1 DEF PartsInv, MainInv
  <2>2. M!CallsInOrder /\ M!EncodersSawEverything
    BY <2>1, PartsAssumptions, M!InOrder, M!NothingMissed
  <2>3. M!OptionsUnderstood /\ M!OneOutcome
    BY <2>1, PartsAssumptions, M!NamesUnderstood, M!OneAtTheEnd
  <2>4. M!BufferHoldsThePacket /\ M!ObjectsLiveAndFreed
    BY <2>1 DEF M!IInv
  <2> QED
    BY <2>2, <2>3, <2>4
<1> QED
  BY <1>1, InitParts, PartsStep, PTL DEF Spec

-----------------------------------------------------------------------------
(* One datagram.                                                           *)

\* The inductive invariant: an encoder is in packed if its own status says so, SendUdp is
\* called only with a packet and on a line without help, and sends once.
DatagramInv ==
    /\ PartsInv
    /\ EdsParser \in packed <=> edsStatus = "packed"
    /\ PassThruParser \in packed <=> ptStatus = "packed"
    /\ packed \subseteq {EdsParser, PassThruParser}
    /\ pc \in {"count", "categorize", "instantiate", "parse", "help"} => packed = {}
    /\ upc # "check" => /\ pc \in {"report", "destroy", "exit", "done"} /\ ContentSize > 0
                        /\ ~IsTyped({"help", "unknown"})
    /\ Len(sent) <= 1

\* What it was for.
LEMMA OneDatagramLeaves ==
  ASSUME DatagramInv
  PROVE  OneDatagram
<1>1. upc # "check" => packed = {bufOwner}
  BY DEF DatagramInv, PartsInv, MainInv, M!IInv, M!BufferHoldsThePacket
<1> QED
  BY <1>1 DEF DatagramInv, OneDatagram, EdsParser, PassThruParser

\* Nothing is packed or sent at first.
LEMMA InitDatagram == Init => DatagramInv
<1> SUFFICES ASSUME Init PROVE DatagramInv
  OBVIOUS
<1>1. packed = {} /\ edsStatus # "packed" /\ ptStatus # "packed" /\ upc = "check" /\ sent = <<>>
  BY DEF Init, Main!Init, EDS!Init, PassThru!Init, PassThru!Instantiate, Udp!Init
<1> QED
  BY <1>1, InitParts DEF DatagramInv

\* The encoders' steps do not pack a thing but when they are asked to.
LEMMA OnlyPackingPacks ==
  /\ \A a : EDS!ParseOption(a) => edsStatus # "packed" /\ edsStatus' # "packed"
  /\ \A a : PassThru!ParseOption(a) => ptStatus # "packed" /\ ptStatus' # "packed"
  /\ EDS!HelpUsage => edsStatus # "packed" /\ edsStatus' # "packed"
<1>1. ASSUME NEW a, EDS!ParseOption(a) PROVE edsStatus # "packed" /\ edsStatus' # "packed"
  BY <1>1 DEF EDS!ParseOption, EDS!ParseDestination, EDS!ParseCommandCode, EDS!ParseHeaderMember,
       EDS!ParseSetting, EDS!ParseParameter, EDS!Returns
<1>2. ASSUME NEW a, PassThru!ParseOption(a) PROVE ptStatus # "packed" /\ ptStatus' # "packed"
  <2>1. ptStatus = "parsing"
    BY <1>2 DEF PassThru!ParseOption
  <2>2. \/ PassThru!ParseField(a) \/ PassThru!ParseEndian(a) \/ PassThru!ParseProtocol(a)
        \/ PassThru!ParseNumber(a) \/ PassThru!ParseString(a) \/ PassThru!ParseOther(a)
    BY <1>2 DEF PassThru!ParseOption
  <2>3. ASSUME \E v : PassThru!Returns(v) PROVE ptStatus' # "packed"
    BY <2>1, <2>3 DEF PassThru!Returns
  <2>4. PassThru!ParseField(a) => \E v : PassThru!Returns(v)
    BY Zenon DEF PassThru!ParseField
  <2>5. PassThru!ParseEndian(a) => \E v : PassThru!Returns(v)
    BY Zenon DEF PassThru!ParseEndian
  <2>6. PassThru!ParseProtocol(a) => \E v : PassThru!Returns(v)
    BY Zenon DEF PassThru!ParseProtocol
  <2>7. PassThru!ParseNumber(a) => \E v : PassThru!Returns(v)
    BY Zenon DEF PassThru!ParseNumber, PassThru!Collect
  <2>8. PassThru!ParseString(a) => \E v : PassThru!Returns(v)
    BY Zenon DEF PassThru!ParseString, PassThru!Collect
  <2>9. PassThru!ParseOther(a) => \E v : PassThru!Returns(v)
    BY Zenon DEF PassThru!ParseOther
  <2> QED
    BY <2>1, <2>2, <2>3, <2>4, <2>5, <2>6, <2>7, <2>8, <2>9
<1>3. EDS!HelpUsage => edsStatus # "packed" /\ edsStatus' # "packed"
  BY DEF EDS!HelpUsage
<1> QED
  BY <1>1, <1>2, <1>3

\* The line as SendUdp's caller knows it: no help on it and nothing unknown.
LEMMA NoHelpTyped ==
  ASSUME PartsInv, pc = "report"
  PROVE  ~IsTyped({"help", "unknown"})
<1>1. ~M!HelpAsked
  BY PartsAssumptions, M!RequestKnown DEF PartsInv, MainInv
<1>2. DOMAIN Tokens(typed) = DOMAIN typed /\ \A k \in DOMAIN typed : Tokens(typed)[k] = typed[k].token
  BY DEF Tokens
<1> QED
  BY <1>1, <1>2 DEF IsTyped, M!HelpAsked

\* A step of SendUdp, called once with the packet.
LEMMA UdpDatagram ==
  ASSUME DatagramInv, SendUdpStep
  PROVE  /\ pc = "report" /\ ContentSize > 0 /\ upc' # "check"
         /\ Len(sent') <= 1 /\ UNCHANGED <<mainVars, edsVars, ptVars>>
<1>1. pc = "report" /\ ContentSize > 0 /\ UNCHANGED <<mainVars, edsVars, ptVars>>
  BY DEF SendUdpStep
<1>2. /\ Len(sent) <= 1 /\ U!Assertions
  BY DEF DatagramInv, PartsInv, U!IInv
<1>3. CASE Udp!Send
  <2>1. sent = <<>> /\ upc' = "close"
    BY <1>2, <1>3 DEF Udp!Send, U!Assertions
  <2>2. sent' = <<>> \/ \E e : sent' = <<e>>
    BY <1>3, <2>1 DEF Udp!Send
  <2>3. ASSUME sent' = <<>> PROVE Len(sent') <= 1
    BY <2>3
  <2>4. ASSUME NEW e, sent' = <<e>> PROVE Len(sent') <= 1
    BY <2>4
  <2> QED
    BY <1>1, <2>1, <2>2, <2>3, <2>4, Zenon
<1>4. CASE Udp!CheckArguments
  <2>1. upc' \in {"returned", "resolve"} /\ sent' = sent
    BY <1>4 DEF Udp!CheckArguments, Udp!Return
  <2> QED
    BY <1>1, <1>2, <2>1
<1>5. CASE \/ Udp!Resolve \/ Udp!OpenSocket \/ Udp!Connect \/ Udp!NoneLeft \/ Udp!NameAndFree \/ Udp!Close
  <2>1. upc' # "check" /\ sent' = sent
    BY <1>5 DEF Udp!Resolve, Udp!OpenSocket, Udp!Connect, Udp!NoneLeft, Udp!NameAndFree, Udp!Close,
                Udp!Return, Udp!NextAddress
  <2> QED
    BY <1>1, <1>2, <2>1
<1> QED
  BY <1>3, <1>4, <1>5 DEF SendUdpStep, Udp!Next

\* What main does before an encoder is asked to encode.
LEMMA BeforeEncoding ==
  ASSUME DatagramInv, [Next]_vars,
         pc \in {"count", "categorize", "instantiate", "parse", "help"}
  PROVE  DatagramInv'
<1>1. packed = {} /\ upc = "check" /\ edsStatus # "packed" /\ ptStatus # "packed" /\ Len(sent) <= 1
  BY DEF DatagramInv
<1>2. PartsInv'
  BY PartsStep DEF DatagramInv
<1>3. packed' = packed /\ UNCHANGED udpVars
  <2>1. CASE MainStep \/ Instantiate \/ DoParseOption \/ DoShowHelp
    BY <2>1 DEF MainStep, Instantiate, DoParseOption, DoShowHelp, Main!CountOptions,
                Main!CategorizeOption, Main!CollectNonOption, Main!AllCollected, Main!SkipNoText,
                Main!ParsingDone, Main!DoShowError, Main!DestroyParser, Main!Exit,
                Main!InstantiateParser, Main!DoParseOption, Main!DoShowHelp
  <2>2. CASE DoEncode \/ SendUdpStep \/ Send
    BY <2>2 DEF DoEncode, SendUdpStep, Send, Main!DoEncode, Main!Send
  <2>3. CASE Over \/ UNCHANGED vars
    BY <2>3 DEF Over, vars, mainVars
  <2> QED
    BY <2>1, <2>2, <2>3 DEF Next
<1>4. edsStatus' # "packed" /\ ptStatus' # "packed"
  <2>1. CASE MainStep \/ Instantiate \/ Over \/ UNCHANGED vars
    BY <1>1, <2>1 DEF MainStep, Instantiate, Over, vars, edsVars, ptVars
  <2>2. CASE DoParseOption
    BY <1>1, <2>2, OnlyPackingPacks DEF DoParseOption, edsVars, ptVars
  <2>3. CASE DoShowHelp
    BY <1>1, <2>3, OnlyPackingPacks DEF DoShowHelp, edsVars, ptVars
  <2>4. CASE DoEncode \/ SendUdpStep \/ Send
    BY <2>4 DEF DoEncode, SendUdpStep, Send, Main!DoEncode, Main!Send
  <2> QED
    BY <2>1, <2>2, <2>3, <2>4 DEF Next
<1>5. upc' = "check" /\ sent' = sent /\ packed' = {}
  BY <1>1, <1>3 DEF udpVars
<1> QED
  BY <1>1, <1>2, <1>4, <1>5 DEF DatagramInv

\* An encoder is in packed as soon as its status says so, and only itself.
LEMMA Encoding ==
  ASSUME DatagramInv, [Next]_vars, DoEncode
  PROVE  DatagramInv'
<1>1. PartsInv'
  BY PartsStep DEF DatagramInv
<1>2. /\ pc = "encode" /\ pc' \in {"encode", "report"} /\ UNCHANGED udpVars
      /\ packed' \in {packed, packed \cup {j}}
      /\ ContentSize # 0 \/ j \notin IsOK => packed' = packed
  BY DEF DoEncode, Main!DoEncode, Main!NextParser, Main!MayEncode
<1>3. upc = "check" /\ upc' = "check" /\ sent' = sent
  BY <1>2 DEF DatagramInv, udpVars
<1>4. CASE j = EdsParser /\ j \in IsOK /\ (j \in packed' <=> edsStatus' = "packed") /\ UNCHANGED ptVars
  BY <1>1, <1>2, <1>3, <1>4 DEF DatagramInv, ptVars, EdsParser, PassThruParser
<1>5. CASE j = PassThruParser /\ (j \in packed' <=> ptStatus' = "packed") /\ UNCHANGED edsVars
  BY <1>1, <1>2, <1>3, <1>5 DEF DatagramInv, edsVars, EdsParser, PassThruParser
<1>6. CASE (j \notin IsOK \/ ContentSize # 0) /\ UNCHANGED <<edsVars, ptVars>>
  BY <1>1, <1>2, <1>3, <1>6 DEF DatagramInv, edsVars, ptVars
<1> QED
  BY <1>4, <1>5, <1>6 DEF DoEncode

\* What main does once it has a packet or has not.
LEMMA AfterEncoding ==
  ASSUME DatagramInv, [Next]_vars, ~DoEncode,
         pc \notin {"count", "categorize", "instantiate", "parse", "help"}
  PROVE  DatagramInv'
<1>1. PartsInv'
  BY PartsStep DEF DatagramInv
<1>2. CASE SendUdpStep
  <2>1. /\ pc = "report" /\ ContentSize > 0 /\ Len(sent') <= 1
        /\ UNCHANGED <<pc, ContentSize, packed, edsStatus, ptStatus, typed>>
    BY <1>2, UdpDatagram DEF mainVars, edsVars, ptVars, Next, vars
  <2>2. ~IsTyped({"help", "unknown"})'
    BY <2>1, NoHelpTyped DEF DatagramInv, IsTyped
  <2> QED
    BY <1>1, <2>1, <2>2 DEF DatagramInv
<1>3. CASE MainStep \/ Send \/ Over \/ UNCHANGED vars
  <2>1. UNCHANGED <<edsVars, ptVars, udpVars, typed>>
    BY <1>3 DEF MainStep, Send, Over, vars, Next
  <2>2. /\ packed' = packed /\ ContentSize' = ContentSize
        /\ pc' \notin {"count", "categorize", "instantiate", "parse", "help"}
        /\ pc \in {"report", "destroy", "exit", "done"} => pc' \in {"report", "destroy", "exit", "done"}
    <3>1. CASE MainStep
      BY <3>1 DEF MainStep, Main!CountOptions, Main!CategorizeOption, Main!CollectNonOption,
                  Main!AllCollected, Main!SkipNoText, Main!ParsingDone, Main!DoShowError,
                  Main!DestroyParser, Main!Exit, Main!NextParser
    <3>2. CASE Send
      BY <3>2 DEF Send, Main!Send
    <3>3. CASE Over \/ UNCHANGED vars
      BY <3>3 DEF Over, vars, mainVars
    <3> QED
      BY <1>3, <3>1, <3>2, <3>3
  <2>3. IsTyped({"help", "unknown"})' <=> IsTyped({"help", "unknown"})
    BY <2>1 DEF IsTyped
  <2>4. UNCHANGED <<edsStatus, ptStatus, upc, sent>>
    BY <2>1 DEF edsVars, ptVars, udpVars
  <2> QED
    BY <1>1, <2>2, <2>3, <2>4 DEF DatagramInv
<1>4. CASE Instantiate \/ DoParseOption \/ DoShowHelp
  BY <1>4 DEF Instantiate, DoParseOption, DoShowHelp, Main!InstantiateParser, Main!DoParseOption,
              Main!DoShowHelp
<1> QED
  BY <1>2, <1>3, <1>4 DEF Next

\* It holds at every step.
LEMMA DatagramStep ==
  ASSUME DatagramInv, [Next]_vars
  PROVE  DatagramInv'
BY BeforeEncoding, Encoding, AfterEncoding DEF DoEncode, Main!DoEncode

\* Whatever is typed, and however the kernel and the resolver answer, the kernel is given
\* at most one datagram, none if help was asked for or a word was no option, and only of a
\* packet that an encoder made of a line of which it refused nothing.
THEOREM OneDatagramIsSent == Spec => []OneDatagram
<1>1. Spec => []DatagramInv
  BY InitDatagram, DatagramStep, PTL DEF Spec
<1> QED
  BY <1>1, OneDatagramLeaves, PTL
-----------------------------------------------------------------------------
(* The steps of the encoders.                                              *)

\* What their proofs assume holds here.
LEMMA EdsAssumptions ==
  /\ E!DatabaseAssumption /\ E!IdAssumption /\ E!MessageIdAssumption
  /\ E!EdsArgAssumption /\ E!EdsBoundAssumption
<1>1. E!DatabaseAssumption /\ E!IdAssumption /\ E!MessageIdAssumption
  BY EncoderAssumption
     DEF EDS!DatabaseAssumption, E!DatabaseAssumption, EDS!IdAssumption, E!IdAssumption, EDS!MessageIdAssumption, E!MessageIdAssumption, EDS!HeaderMembers, E!HeaderMembers, EDS!OptionMember, E!OptionMember, EDS!Range, E!Range, EDS!NoId, E!NoId, EDS!Params, E!Params
<1>2. E!EdsArgAssumption
  BY DEF E!EdsArgAssumption, EDS!Arg, E!Arg, EDS!DestinationIds, E!DestinationIds, EDS!CommandCodeIds, E!CommandCodeIds, EDS!OptionMember, E!OptionMember, EDS!DestName, E!DestName
<1> QED
  BY <1>1, <1>2 DEF E!EdsBoundAssumption

LEMMA PassThruAssumptions ==
  P!SizeAssumption /\ P!UintAssumption /\ P!BoundAssumption /\ P!ArgAssumption
<1>1. P!SizeAssumption /\ P!UintAssumption /\ P!BoundAssumption
  BY EncoderAssumption
     DEF PassThru!SizeAssumption, P!SizeAssumption, PassThru!UintAssumption, P!UintAssumption, P!BoundAssumption
<1>2. P!ArgAssumption
  BY DEF P!ArgAssumption, PassThruArgs, PassThru!Arg, P!Arg, PassThru!FieldIds, P!FieldIds, PassThru!FieldOf, P!FieldOf, PassThru!Field, P!Field, PassThru!NumberIds, P!NumberIds, PassThru!NumberOf, P!NumberOf, PassThru!Num, P!Num, PassThru!Byte, P!Byte, PassThru!LayoutOf, P!LayoutOf
<1> QED
  BY <1>1, <1>2

\* E has the actions of EDS.
LEMMA EdsActions ==
  /\ EDS!Init => E!Init
  /\ \A a : EDS!ParseOption(a) => E!ParseOption(a)
  /\ EDS!HelpUsage => E!HelpUsage
  /\ EDS!GetPackedObject => E!GetPackedObject
<1>0. EDS!HeaderMembers = E!HeaderMembers /\ EDS!NoId = E!NoId
  BY DEF EDS!HeaderMembers, E!HeaderMembers, EDS!OptionMember, E!OptionMember, EDS!Range, E!Range, EDS!NoId, E!NoId
<1>1. EDS!Init => E!Init
  <2>1. EDS!FreshBuf = E!FreshBuf /\ EDS!NoName = E!NoName
    BY <1>0, Zenon DEF EDS!FreshBuf, E!FreshBuf, EDS!NoName, E!NoName
  <2>2. EDS!FreshObject = E!FreshObject
    BY <1>0, <2>1 DEF EDS!FreshObject, E!FreshObject
  <2> QED
    BY <1>0, <2>2 DEF EDS!Init, E!Init, EDS!NoPacket, E!NoPacket, EDS!NoListing, E!NoListing
<1>2. \A c : EDS!CheckValidPayload(c) = E!CheckValidPayload(c)
  <2>1. \A n : EDS!Find(n) = E!Find(n)
    BY <1>0 DEF EDS!Find, E!Find
  <2>2. \A n : (EDS!IsNumeric(n) <=> E!IsNumeric(n)) /\ EDS!Completed(n) = E!Completed(n)
    BY <1>0, <2>1 DEF EDS!IsNumeric, E!IsNumeric, EDS!Completed, E!Completed
  <2>3. \A x, y : EDS!Fails(x, y) <=> E!Fails(x, y)
    BY DEF EDS!Fails, E!Fails
  <2>4. \A x, y : EDS!Addressed(x, y) = E!Addressed(x, y) /\ EDS!Initialized(x, y) = E!Initialized(x, y)
    BY <1>0 DEF EDS!Addressed, E!Addressed, EDS!Initialized, E!Initialized
  <2>10. \A c : EDS!ProcessNumber(c) = E!ProcessNumber(c)
    <3>1. \A t : EDS!InterfaceOfTopic(t) = E!InterfaceOfTopic(t)
      BY <1>0 DEF EDS!InterfaceOfTopic, E!InterfaceOfTopic
    <3> QED
      BY <1>0, <3>1, Zenon DEF EDS!ProcessNumber, E!ProcessNumber
  <2>11. \A c : EDS!ProcessName(c) = E!ProcessName(c)
    BY Zenon DEF EDS!ProcessName, E!ProcessName, EDS!Find, E!Find, EDS!Completed, E!Completed, EDS!Fails, E!Fails, EDS!MapListenerComponent, E!MapListenerComponent, EDS!Params, E!Params, EDS!NoId, E!NoId
  <2>5. \A c : EDS!ProcessDestIntf(c) = E!ProcessDestIntf(c)
    BY <2>2, <2>3, <2>4, <2>10, <2>11, Zenon DEF EDS!ProcessDestIntf, E!ProcessDestIntf, EDS!AddressInterface, E!AddressInterface
  <2>6. \A ds, n : EDS!ChosenType(ds, n) = E!ChosenType(ds, n)
    BY Zenon DEF EDS!ChosenType, E!ChosenType, EDS!FirstMatch, E!FirstMatch, EDS!SelectInSeq, E!SelectInSeq, EDS!Matches, E!Matches, EDS!Min, E!Min
  <2>7. \A c : EDS!ProcessCmdCode(c) = E!ProcessCmdCode(c)
    BY <2>6 DEF EDS!ProcessCmdCode, E!ProcessCmdCode, EDS!Matches, E!Matches
  <2>8. \A c : EDS!CheckValidIntf(c) = E!CheckValidIntf(c)
    BY <2>5, <2>7 DEF EDS!CheckValidIntf, E!CheckValidIntf, EDS!LookUpCommand, E!LookUpCommand
  <2>9. \A c : EDS!PayloadDetail(c) = E!PayloadDetail(c)
    BY DEF EDS!PayloadDetail, E!PayloadDetail
  <2> QED
    BY <2>4, <2>8, <2>9 DEF EDS!CheckValidPayload, E!CheckValidPayload, EDS!LookUpPayload, E!LookUpPayload
<1>3. ASSUME NEW a, EDS!ParseOption(a) PROVE E!ParseOption(a)
  <2>1. EDS!ParseDestination(a) => E!ParseDestination(a)
    BY Zenon DEF EDS!ParseDestination, E!ParseDestination, EDS!DestinationIds, E!DestinationIds, EDS!ParseDestFullImpl, E!ParseDestFullImpl, EDS!InstanceNumber, E!InstanceNumber, EDS!GetInstanceNumber, E!GetInstanceNumber, EDS!Invalid, E!Invalid, EDS!Parsed, E!Parsed, EDS!StoreCommand, E!StoreCommand, EDS!StoreText, E!StoreText, EDS!Returns, E!Returns
  <2>2. EDS!ParseCommandCode(a) => E!ParseCommandCode(a)
    BY Zenon DEF EDS!ParseCommandCode, E!ParseCommandCode, EDS!CommandCodeIds, E!CommandCodeIds, EDS!StoreText, E!StoreText, EDS!Returns, E!Returns
  <2>3. EDS!ParseHeaderMember(a) => E!ParseHeaderMember(a)
    BY Zenon DEF EDS!ParseHeaderMember, E!ParseHeaderMember, EDS!OptionMember, E!OptionMember, EDS!Returns, E!Returns
  <2>4. EDS!ParseSetting(a) => E!ParseSetting(a)
    BY Zenon DEF EDS!ParseSetting, E!ParseSetting, EDS!Returns, E!Returns
  <2>5. EDS!ParseParameter(a) => E!ParseParameter(a)
    <3>1. \A c : EDS!ProcessParameterArgument(c, a) = E!ProcessParameterArgument(c, a)
      BY Zenon DEF EDS!ProcessParameterArgument, E!ProcessParameterArgument, EDS!Settable, E!Settable, EDS!StoreMember, E!StoreMember, EDS!NoId, E!NoId
    <3> QED
      BY <1>2, <3>1 DEF EDS!ParseParameter, E!ParseParameter, EDS!Returns, E!Returns
  <2> QED
    BY <1>3, <2>1, <2>2, <2>3, <2>4, <2>5, Zenon DEF EDS!ParseOption, E!ParseOption
<1>4. EDS!HelpUsage => E!HelpUsage
  <2>1. \A c : EDS!LookedUp(c) = E!LookedUp(c)
    BY <1>2 DEF EDS!LookedUp, E!LookedUp
  <2> QED
    BY <1>0, <2>1 DEF EDS!HelpUsage, E!HelpUsage
<1>5. EDS!GetPackedObject => E!GetPackedObject
  BY <1>2 DEF EDS!GetPackedObject, E!GetPackedObject
<1> QED
  BY <1>1, <1>3, <1>4, <1>5

\* P has those of PassThru.
LEMMA PassThruActions ==
  /\ PassThru!Init => P!Init
  /\ \A a : PassThru!ParseOption(a) => P!ParseOption(a)
  /\ PassThru!GetPackedObject => P!GetPackedObject
<1>1. PassThru!Init => P!Init
  BY Zenon DEF PassThru!Init, P!Init, PassThru!Instantiate, P!Instantiate, PassThru!WordIds, P!WordIds, PassThru!DefaultLayout, P!DefaultLayout, PassThru!LayoutOf, P!LayoutOf
<1>2. ASSUME NEW a, PassThru!ParseOption(a) PROVE P!ParseOption(a)
  <2>1. PassThru!ParseField(a) => P!ParseField(a)
    BY Zenon DEF PassThru!ParseField, P!ParseField, PassThru!FieldIds, P!FieldIds, PassThru!FieldOf, P!FieldOf, PassThru!Field, P!Field, PassThru!ShiftLeft, P!ShiftLeft, PassThru!Mask, P!Mask, PassThru!HeaderOf, P!HeaderOf, PassThru!Insert, P!Insert, PassThru!Returns, P!Returns, PassThru!Overridable, P!Overridable
  <2>2. PassThru!ParseEndian(a) => P!ParseEndian(a)
    BY Zenon DEF PassThru!ParseEndian, P!ParseEndian, PassThru!Returns, P!Returns
  <2>3. PassThru!ParseProtocol(a) => P!ParseProtocol(a)
    BY Zenon DEF PassThru!ParseProtocol, P!ParseProtocol, PassThru!LayoutOf, P!LayoutOf, PassThru!Returns, P!Returns
  <2>4. PassThru!ParseNumber(a) => P!ParseNumber(a)
    BY Zenon DEF PassThru!ParseNumber, P!ParseNumber, PassThru!NumberIds, P!NumberIds, PassThru!NumberOf, P!NumberOf, PassThru!Num, P!Num, PassThru!Ordered, P!Ordered, PassThru!Reverse, P!Reverse, PassThru!Low, P!Low, PassThru!ForcedBigEndian, P!ForcedBigEndian, PassThru!Fits, P!Fits, PassThru!Collect, P!Collect, PassThru!CopyData, P!CopyData, PassThru!Room, P!Room, PassThru!Returns, P!Returns
  <2>5. PassThru!ParseString(a) => P!ParseString(a)
    BY Zenon DEF PassThru!ParseString, P!ParseString, PassThru!CopyData, P!CopyData, PassThru!PadData, P!PadData, PassThru!Room, P!Room, PassThru!Collect, P!Collect, PassThru!Returns, P!Returns
  <2>6. PassThru!ParseOther(a) => P!ParseOther(a)
    BY Zenon DEF PassThru!ParseOther, P!ParseOther, PassThru!Returns, P!Returns
  <2> QED
    BY <1>2, <2>1, <2>2, <2>3, <2>4, <2>5, <2>6, Zenon DEF PassThru!ParseOption, P!ParseOption
<1>3. PassThru!GetPackedObject => P!GetPackedObject
  <2>1. PassThru!PackedSize = P!PackedSize
    BY DEF PassThru!PackedSize, P!PackedSize, PassThru!HeaderSize, P!HeaderSize
  <2>2. ASSUME NEW n PROVE PassThru!WithDefaults(n) = P!WithDefaults(n)
    <3>1. PassThru!LengthWord(n) = P!LengthWord(n)
      BY SMT DEF PassThru!LengthWord, P!LengthWord
    <3> QED
      BY <3>1, Zenon DEF PassThru!WithDefaults, P!WithDefaults
  <2>3. \A h, lay : PassThru!HeaderBytes(h, lay) = P!HeaderBytes(h, lay)
    BY Zenon DEF PassThru!HeaderBytes, P!HeaderBytes, PassThru!WordBytes, P!WordBytes, PassThru!HighByte, P!HighByte, PassThru!LowByte, P!LowByte
  <2>4. \A bytes : PassThru!WithChecksum(bytes) = P!WithChecksum(bytes)
    BY Zenon DEF PassThru!WithChecksum, P!WithChecksum, PassThru!CalcChecksum, P!CalcChecksum, PassThru!Cardinality, P!Cardinality
  <2> QED
    BY <2>1, <2>2, <2>3, <2>4 DEF PassThru!GetPackedObject, P!GetPackedObject
<1> QED
  BY <1>1, <1>2, <1>3

-----------------------------------------------------------------------------
(* The words as the encoders are handed them.                              *)

EdsWord(k) == EdsArg(HandedId(typed[k].token), typed[k].eds)
PassThruWord(k) == Under(HandedId(typed[k].token), typed[k].pt)

\* The words are words of main.
LEMMA WordsAreTokens ==
  ASSUME typed \in Typed
  PROVE  /\ DOMAIN Tokens(typed) = DOMAIN typed
         /\ \A k \in DOMAIN typed :
              Tokens(typed)[k] = typed[k].token /\ typed[k].token \in M!LineTokens
<1>1. M!LineTokens = Main!LineTokens
  BY DEF M!LineTokens, Main!LineTokens, M!OptionNames, Main!OptionNames, M!LONGINFO, Main!LONGINFO,
         M!Option, Main!Option
<1>2. DOMAIN Tokens(typed) = DOMAIN typed /\ \A k \in DOMAIN typed : Tokens(typed)[k] = typed[k].token
  BY DEF Tokens
<1>3. Tokens(typed) \in Seq(M!LineTokens)
  BY <1>1, TypedAssumption
<1>4. \A k \in DOMAIN Tokens(typed) : Tokens(typed)[k] \in M!LineTokens
  BY <1>3
<1> QED
  BY <1>2, <1>4

\* The names are those of main.
LEMMA HandedByName ==
  \A t : HandedId(t) = IF t = "argument" THEN "NONE" ELSE M!NameOf(M!Letter(t))
<1> SUFFICES ASSUME NEW t
             PROVE  HandedId(t) = IF t = "argument" THEN "NONE" ELSE M!NameOf(M!Letter(t))
  OBVIOUS
<1>1. Main!NameOf(Main!Letter(t)) = M!NameOf(M!Letter(t))
  BY DEF Main!NameOf, M!NameOf, Main!Letter, M!Letter, Main!LONGINFO, M!LONGINFO, Main!Option, M!Option, Main!Max, M!Max, Main!Range, M!Range
<1> QED
  BY <1>1 DEF HandedId

\* A word is handed on under its name, the name the table turns it into, or none.
LEMMA HandedIdIs ==
  ASSUME typed \in Typed, NEW k \in M!ForEncoders
  PROVE  /\ k \in DOMAIN typed
         /\ typed[k].token \in M!LineTokens /\ typed[k].token \notin M!OwnOptions \cup {"unknown"}
         /\ HandedId(typed[k].token) =
              IF typed[k].token = "argument" THEN "NONE"
              ELSE IF typed[k].token \in DOMAIN M!Renamed THEN M!Renamed[typed[k].token]
              ELSE typed[k].token
<1>1. /\ k \in DOMAIN typed /\ typed[k].token \in M!LineTokens
      /\ typed[k].token \notin M!OwnOptions \cup {"unknown"}
  BY WordsAreTokens DEF M!ForEncoders
<1>3. CASE typed[k].token = "argument"
  BY <1>1, <1>3, HandedByName
<1>4. CASE typed[k].token # "argument"
  <2>1. M!NameOf(M!Letter(typed[k].token)) =
          IF typed[k].token \in DOMAIN M!Renamed THEN M!Renamed[typed[k].token] ELSE typed[k].token
    BY <1>1, <1>4, PartsAssumptions, M!HandedName
  <2> QED
    BY <1>1, <1>4, <2>1, HandedByName
<1> QED
  BY <1>3, <1>4

\* What is under a name has it.
LEMMA UnderName == \A id, c : Under(id, c).id = id
BY DEF Under

\* What its text converts to is what an argument under that name may have.
LEMMA HandedWord ==
  ASSUME typed \in Typed, NEW k \in M!ForEncoders
  PROVE  /\ EdsWord(k) \in EDS!Arg
         /\ PassThruWord(k) \in PassThruArgs
<1> DEFINE id == HandedId(typed[k].token)
<1>1. k \in DOMAIN typed /\ id \notin Main!OwnOptions
  BY HandedIdIs DEF M!OwnOptions, Main!OwnOptions, M!Renamed
<1>2. /\ EdsArg(id, typed[k].eds) \in EDS!Arg
      /\ id \in PassThru!NumberIds =>
           LET n == PassThru!NumberOf[id]
           IN typed[k].pt \in [ok : BOOLEAN,
                               val : [1..(IF n.kind = "real" THEN n.size ELSE 8) -> PassThru!Byte]]
      /\ id \notin PassThru!NumberIds => Under(id, typed[k].pt) \in PassThru!Arg
  BY <1>1, WordAssumption
<1>3. PassThruWord(k) = Under(id, typed[k].pt) /\ PassThruWord(k).id = id
  BY UnderName DEF PassThruWord
<1> HIDE DEF id
<1>4. ASSUME id \notin PassThru!NumberIds PROVE PassThruWord(k) \in PassThruArgs
  BY <1>2, <1>3, <1>4 DEF PassThruArgs
<1>5. ASSUME id \in PassThru!NumberIds PROVE PassThruWord(k) \in PassThruArgs
  <2> DEFINE n == IF PassThru!NumberOf[id].kind = "real" THEN PassThru!NumberOf[id].size ELSE 8
  <2>1. n \in Nat
    BY <1>5 DEF PassThru!NumberIds, PassThru!NumberOf, PassThru!Num
  <2>2. PICK c \in [ok : BOOLEAN, val : [1..n -> PassThru!Byte]] : typed[k].pt = c
    BY <1>2, <1>5
  <2> HIDE DEF n
  <2>3. c.val \in Seq(PassThru!Byte) /\ Len(c.val) = n
    BY <2>1, <2>2
  <2>4. Under(id, c) = [id |-> id, ok |-> c.ok, val |-> c.val]
    BY <2>2 DEF Under
  <2>5. Under(id, c) \in [id : PassThru!NumberIds, ok : BOOLEAN, val : Seq(PassThru!Byte)]
    BY <1>5, <2>2, <2>3, <2>4
  <2> DEFINE w == Under(id, c)
  <2>6. w \in PassThru!Arg /\ w.id = id /\ w.val = c.val
    BY <2>4, <2>5 DEF PassThru!Arg
  <2>7. PassThruWord(k) = w
    BY <1>3, <2>2
  <2> HIDE DEF w
  <2>8. PassThruWord(k) \in PassThru!Arg /\ PassThruWord(k).id = id /\ Len(PassThruWord(k).val) = n
    BY <2>3, <2>6, <2>7
  <2> QED
    BY <2>8 DEF PassThruArgs, n
<1>6. EdsWord(k) \in EDS!Arg
  BY <1>2, Zenon DEF EdsWord, id
<1> QED
  BY <1>4, <1>5, <1>6

\* An argument of the EDS encoder is a word that is no option.
LEMMA EdsWordKind ==
  ASSUME typed \in Typed, NEW k \in M!ForEncoders
  PROVE  EdsWord(k).id = "NONE" <=> Tokens(typed)[k] = "argument"
<1>1. "NONE" \notin M!LineTokens
  <2>1. \A r \in 1..44 : M!LONGINFO[r].name # "NONE"
    BY SMTT(100) DEF M!LONGINFO, M!Option
  <2> QED
    BY <2>1, PartsAssumptions, M!TableRows DEF M!LineTokens, M!OptionNames
<1>2. HandedId(typed[k].token) = "NONE" <=> typed[k].token = "argument"
  BY <1>1, HandedIdIs DEF M!Renamed
<1>3. EdsWord(k).id = IF HandedId(typed[k].token) \in EdsIds THEN HandedId(typed[k].token) ELSE "other"
  BY UnderName DEF EdsWord, EdsArg
<1> QED
  BY <1>2, <1>3, HandedIdIs, WordsAreTokens DEF EdsIds

\* DoParseOption gives the encoders the word it has come to.
LEMMA HandedArgument ==
  ASSUME MainInv, typed \in Typed, DoParseOption
  PROVE  /\ i \in M!Texts /\ ArgV[i].text \in M!ForEncoders
         /\ EdsArgOf(ArgV[i]) = EdsWord(ArgV[i].text)
         /\ PassThruArgOf(ArgV[i]) = PassThruWord(ArgV[i].text)
<1>1. /\ ArgV \in Seq([name : M!OptionNames \cup {"NONE"}, text : Nat])
      /\ i \in Nat \ {0} /\ j \in M!Parsers /\ M!Parsers = 1..2
      /\ pc = "parse" /\ (j > 1 => i \in M!Texts)
  BY DEF MainInv, M!ListInv, M!CallsInv, M!IInv, M!LoopTypeOK, DoParseOption, Main!DoParseOption,
         M!Parsers
<1>2. i \in M!Texts
  <2>1. j = 1 => i \in DOMAIN ArgV /\ ArgV[i].text # 0
    BY <1>1 DEF DoParseOption, Main!DoParseOption, Main!MoreToParse, Main!HasText
  <2> QED
    BY <1>1, <2>1 DEF M!Texts
<1>3. ArgV[i].text \in M!ForEncoders
  BY <1>2 DEF MainInv, M!ListInv
<1>4. ArgV[i].name = HandedId(typed[ArgV[i].text].token)
  <2>1. M!GoesBy(ArgV[i]) /\ ArgV[i].text # 0
    BY <1>2 DEF MainInv, M!NamesInv, M!Texts
  <2>2. Tokens(typed)[ArgV[i].text] = typed[ArgV[i].text].token
    BY <1>3, WordsAreTokens, HandedIdIs
  <2> QED
    BY <2>1, <2>2, HandedByName DEF M!GoesBy
<1> QED
  BY <1>2, <1>3, <1>4 DEF EdsArgOf, PassThruArgOf, EdsWord, PassThruWord

-----------------------------------------------------------------------------
(* The invariant of the encoders.                                          *)

EdsWords == [k \in M!ForEncoders |-> EdsWord(k)]
PassThruWords == [k \in M!ForEncoders |-> PassThruWord(k)]

\* The arguments of an encoder are the words it was given.
ArgsInv ==
    /\ edsArgs = [n \in DOMAIN calls[EdsParser] |-> EdsWords[calls[EdsParser][n]]]
    /\ ptArgs = [n \in DOMAIN calls[PassThruParser] |-> PassThruWords[calls[PassThruParser][n]]]

\* What the EDS encoder has said so far goes with what main goes by.
StatusInv ==
    /\ pc \in {"count", "categorize", "instantiate"} =>
         Obj \subseteq IsOK /\ edsStatus \in {"parsing", "crashed"}
    /\ pc = "instantiate" /\ j = PassThruParser => EdsParser \in IsOK /\ edsStatus = "parsing"
    /\ pc = "parse" => edsStatus \in {"parsing", "rejected"}
    /\ pc = "encode" /\ j = EdsParser => edsStatus \in {"parsing", "rejected"} /\ ContentSize = 0
    /\ (pc = "encode" /\ j = PassThruParser) \/ pc = "report" =>
         edsStatus \in {"packed", "refused", "rejected"}
    /\ pc \in {"parse", "encode", "report"} => (EdsParser \in IsOK <=> edsStatus # "rejected")
    /\ edsStatus = "helped" => pc \in {"help", "destroy", "exit", "done"}

\* A function along a sequence that gets longer.
LEMMA AlongAppended ==
  ASSUME NEW S, NEW s \in Seq(S), NEW x, NEW f
  PROVE  [n \in DOMAIN Append(s, x) |-> f[Append(s, x)[n]]]
           = Append([n \in DOMAIN s |-> f[s[n]]], f[x])
<1> DEFINE u == Append(s, x)
           g == [n \in DOMAIN s |-> f[s[n]]]
<1>1. /\ DOMAIN u = 1..(Len(s) + 1) /\ DOMAIN s = 1..Len(s) /\ Len(s) \in Nat
      /\ u[Len(s) + 1] = x /\ \A n \in 1..Len(s) : u[n] = s[n]
  BY DEF u
<1> HIDE DEF u
<1>2. DOMAIN g = 1..Len(s) /\ Len(g) = Len(s) /\ \A n \in 1..Len(s) : g[n] = f[s[n]]
  BY <1>1
<1>3. Append(g, f[x]) = [n \in 1..(Len(s) + 1) |-> IF n = Len(s) + 1 THEN f[x] ELSE g[n]]
  <2>1. Append(g, f[x]) = [n \in 1..(Len(g) + 1) |-> IF n = Len(g) + 1 THEN f[x] ELSE g[n]]
    OBVIOUS
  <2> HIDE DEF g
  <2> QED
    BY <1>2, <2>1
<1> HIDE DEF g
<1>4. [n \in DOMAIN u |-> f[u[n]]] = [n \in 1..(Len(s) + 1) |-> IF n = Len(s) + 1 THEN f[x] ELSE g[n]]
  BY <1>1, <1>2
<1> QED
  BY <1>3, <1>4 DEF u, g

\* The words stay the same.
LEMMA WordsStay ==
  ASSUME typed' = typed
  PROVE  /\ M!ForEncoders' = M!ForEncoders /\ EdsWords' = EdsWords /\ PassThruWords' = PassThruWords
<1>1. M!ForEncoders' = M!ForEncoders
  BY LineStays DEF M!ForEncoders
<1> QED
  BY <1>1 DEF EdsWords, PassThruWords, EdsWord, PassThruWord

\* The calls made so far, as sequences of words in the order of Precedes.
LEMMA CallsShape ==
  ASSUME MainInv, NEW p \in {EdsParser, PassThruParser}
  PROVE  /\ calls[p] \in Seq(Nat) /\ \A n \in DOMAIN calls[p] : calls[p][n] \in M!ForEncoders
         /\ \A m, n \in DOMAIN calls[p] : m < n => M!Precedes(calls[p][m], calls[p][n])
<1>1. M!Parsers = {EdsParser, PassThruParser}
  BY DEF M!Parsers, EdsParser, PassThruParser
<1>2. M!ListInv /\ M!CallsInv
  BY DEF MainInv
<1>3. M!CallsInOrder
  BY <1>2, PartsAssumptions, M!InOrder
<1> QED
  BY <1>1, <1>2, <1>3 DEF M!CallsInOrder, M!CallsInv

\* Within the calls the options come first.
LEMMA OptionsComeFirst ==
  ASSUME MainInv, MainInv', typed \in Typed, typed' = typed, ArgsInv,
         NEW k \in M!ForEncoders,
         calls'[EdsParser] = Append(calls[EdsParser], k)
  PROVE  E!OptionsFirst(EdsWord(k))
<1> DEFINE s == calls[EdsParser]
<1>1. s \in Seq(Nat) /\ \A n \in DOMAIN s : s[n] \in M!ForEncoders
  BY CallsShape
<1>2. \A m, n \in DOMAIN calls'[EdsParser] : m < n =>
        M!Precedes(calls'[EdsParser][m], calls'[EdsParser][n])
  <2>1. EdsParser \in M!Parsers /\ M!CallsInv'
    BY DEF M!Parsers, EdsParser, MainInv
  <2> QED
    BY <2>1, LineStays DEF M!CallsInv, M!Precedes
<1>3. edsArgs = [n \in DOMAIN s |-> EdsWords[s[n]]]
  BY DEF ArgsInv
<1>4. ASSUME edsArgs # <<>>
      PROVE  E!Last(edsArgs) = EdsWord(s[Len(s)]) /\ s[Len(s)] \in M!ForEncoders
             /\ M!Precedes(s[Len(s)], k)
  <2>1. Len(s) \in DOMAIN s /\ Len(edsArgs) = Len(s)
    BY <1>1, <1>3, <1>4
  <2>2. edsArgs[Len(s)] = EdsWord(s[Len(s)]) /\ s[Len(s)] \in M!ForEncoders
    BY <1>1, <1>3, <2>1 DEF EdsWords
  <2>3. Len(s) < Len(s) + 1 /\ Len(s) \in DOMAIN Append(s, k) /\ Len(s) + 1 \in DOMAIN Append(s, k)
        /\ Append(s, k)[Len(s)] = s[Len(s)] /\ Append(s, k)[Len(s) + 1] = k
    BY <1>1, <2>1
  <2> QED
    BY <1>2, <2>1, <2>2, <2>3 DEF E!Last
<1>5. ASSUME edsArgs # <<>>, E!Last(edsArgs).id = "NONE"
      PROVE  EdsWord(k).id = "NONE"
  <2>1. Tokens(typed)[s[Len(s)]] = "argument"
    BY <1>4, <1>5, EdsWordKind
  <2>2. Tokens(typed)[k] = "argument"
    BY <1>4, <1>5, <2>1 DEF M!Precedes
  <2> QED
    BY <2>2, EdsWordKind
<1> QED
  BY <1>5 DEF E!OptionsFirst

\* A call of DoParseOption is a call of the encoder, which gets the word main has come to.
LEMMA EncodersParse ==
  ASSUME MainInv, MainInv', typed \in Typed, typed' = typed, ArgsInv, DoParseOption
  PROVE  ArgsInv' /\ [E!Calls]_(E!vars) /\ [P!Calls]_(P!vars)
<1> DEFINE k == ArgV[i].text
<1>1. /\ k \in M!ForEncoders
      /\ EdsArgOf(ArgV[i]) = EdsWord(k) /\ PassThruArgOf(ArgV[i]) = PassThruWord(k)
  BY HandedArgument
<1>2. /\ j \in IsOK => calls' = [calls EXCEPT ![j] = Append(@, k)]
      /\ j \notin IsOK => calls' = calls
  BY DEF DoParseOption, Main!DoParseOption
<1> HIDE DEF k
<1>3. /\ DOMAIN calls = {EdsParser, PassThruParser} /\ EdsParser # PassThruParser
      /\ calls[EdsParser] \in Seq(Nat) /\ calls[PassThruParser] \in Seq(Nat)
  BY DEF MainInv, M!CallsInv, M!Parsers, EdsParser, PassThruParser
<1>4. EdsWords' = EdsWords /\ PassThruWords' = PassThruWords
  BY WordsStay
<1>5. EdsWords[k] = EdsWord(k) /\ PassThruWords[k] = PassThruWord(k)
  BY <1>1 DEF EdsWords, PassThruWords
<1>6. CASE j = EdsParser /\ j \in IsOK /\ EDS!ParseOption(EdsArgOf(ArgV[i])) /\ UNCHANGED ptVars
  <2>1. calls'[EdsParser] = Append(calls[EdsParser], k) /\ calls'[PassThruParser] = calls[PassThruParser]
    BY <1>2, <1>3, <1>6
  <2>2. E!ParseOption(EdsWord(k)) /\ EdsWord(k) \in EDS!Arg /\ E!OptionsFirst(EdsWord(k))
    BY <1>1, <1>6, <2>1, EdsActions, HandedWord, OptionsComeFirst
  <2>3. edsArgs' = Append(edsArgs, EdsWord(k))
    BY <2>2 DEF E!ParseOption
  <2>4. edsArgs' = [n \in DOMAIN calls'[EdsParser] |-> EdsWords[calls'[EdsParser][n]]]
    BY <1>3, <1>5, <2>1, <2>3, AlongAppended DEF ArgsInv
  <2>5. ptArgs' = [n \in DOMAIN calls'[PassThruParser] |-> PassThruWords[calls'[PassThruParser][n]]]
    BY <1>6, <2>1 DEF ArgsInv, ptVars
  <2>6. ArgsInv'
    BY <1>4, <2>4, <2>5 DEF ArgsInv
  <2>7. UNCHANGED P!vars
    BY <1>6 DEF ptVars, P!vars
  <2> QED
    BY <2>2, <2>6, <2>7 DEF E!Calls
<1>7. CASE j = PassThruParser /\ j \in IsOK /\ PassThru!ParseOption(PassThruArgOf(ArgV[i])) /\ UNCHANGED edsVars
  <2>1. calls'[PassThruParser] = Append(calls[PassThruParser], k) /\ calls'[EdsParser] = calls[EdsParser]
    BY <1>2, <1>3, <1>7
  <2>2. P!ParseOption(PassThruWord(k)) /\ PassThruWord(k) \in PassThruArgs
    BY <1>1, <1>7, PassThruActions, HandedWord
  <2>3. ptArgs' = Append(ptArgs, PassThruWord(k))
    BY <2>2 DEF P!ParseOption
  <2>4. ptArgs' = [n \in DOMAIN calls'[PassThruParser] |-> PassThruWords[calls'[PassThruParser][n]]]
    BY <1>3, <1>5, <2>1, <2>3, AlongAppended DEF ArgsInv
  <2>5. edsArgs' = [n \in DOMAIN calls'[EdsParser] |-> EdsWords[calls'[EdsParser][n]]]
    BY <1>7, <2>1 DEF ArgsInv, edsVars
  <2>6. ArgsInv'
    BY <1>4, <2>4, <2>5 DEF ArgsInv
  <2>7. UNCHANGED E!vars
    BY <1>7 DEF edsVars, E!vars
  <2> QED
    BY <2>2, <2>6, <2>7 DEF P!Calls
<1>8. CASE j \notin IsOK /\ UNCHANGED <<edsVars, ptVars>>
  BY <1>2, <1>4, <1>8 DEF ArgsInv, edsVars, ptVars, E!vars, P!vars
<1> QED
  BY <1>6, <1>7, <1>8 DEF DoParseOption

\* Every step of the program is one of the encoders' or none.
LEMMA EncodersStep ==
  ASSUME MainInv, MainInv', typed \in Typed, ArgsInv, [Next]_vars
  PROVE  /\ typed' = typed /\ ArgsInv'
         /\ [E!Calls]_(E!vars) /\ [P!Calls]_(P!vars)
<1>1. typed' = typed
  BY DEF Next, vars
<1>2. CASE DoParseOption
  BY <1>1, <1>2, EncodersParse
<1>3. ASSUME UNCHANGED <<calls, edsArgs, ptArgs>> PROVE ArgsInv'
  BY <1>1, <1>3, WordsStay DEF ArgsInv
<1>4. CASE DoShowHelp
  <2>1. calls' = calls /\ UNCHANGED ptVars /\ (EDS!HelpUsage \/ UNCHANGED edsVars)
    BY <1>4 DEF DoShowHelp, Main!DoShowHelp
  <2>2. edsArgs' = edsArgs /\ ptArgs' = ptArgs
    BY <2>1 DEF EDS!HelpUsage, edsVars, ptVars
  <2>3. UNCHANGED P!vars /\ (E!HelpUsage \/ UNCHANGED E!vars)
    BY <2>1, EdsActions DEF edsVars, ptVars, E!vars, P!vars
  <2> QED
    BY <1>1, <1>3, <2>1, <2>2, <2>3 DEF E!Calls
<1>5. CASE DoEncode
  <2>1. calls' = calls
    BY <1>5 DEF DoEncode, Main!DoEncode
  <2>2. \/ EDS!GetPackedObject /\ UNCHANGED ptVars
        \/ PassThru!GetPackedObject /\ UNCHANGED edsVars
        \/ UNCHANGED <<edsVars, ptVars>>
    BY <1>5 DEF DoEncode
  <2>3. edsArgs' = edsArgs /\ ptArgs' = ptArgs
    BY <2>2 DEF EDS!GetPackedObject, PassThru!GetPackedObject, edsVars, ptVars
  <2>4. E!GetPackedObject \/ UNCHANGED E!vars
    BY <2>2, EdsActions DEF edsVars, E!vars
  <2>5. P!GetPackedObject \/ UNCHANGED P!vars
    BY <2>2, PassThruActions DEF ptVars, P!vars
  <2> QED
    BY <1>1, <1>3, <2>1, <2>3, <2>4, <2>5 DEF E!Calls, P!Calls
<1>6. CASE MainStep \/ Instantiate \/ SendUdpStep \/ Send \/ Over \/ UNCHANGED vars
  <2>1. UNCHANGED <<edsVars, ptVars>>
    BY <1>6 DEF MainStep, Instantiate, SendUdpStep, Send, Over, vars
  <2>2. calls' = calls
    <3>1. CASE MainStep
      BY <3>1 DEF MainStep, Main!CountOptions,
                  Main!CategorizeOption, Main!CollectNonOption, Main!AllCollected, Main!SkipNoText,
                  Main!ParsingDone, Main!DoShowError, Main!DestroyParser, Main!Exit
    <3>2. CASE Instantiate \/ Send
      BY <3>2 DEF Instantiate, Main!InstantiateParser, Send, Main!Send
    <3>3. CASE SendUdpStep \/ Over \/ UNCHANGED vars
      BY <3>3 DEF SendUdpStep, Over, vars, mainVars
    <3> QED
      BY <1>6, <3>1, <3>2, <3>3
  <2> QED
    BY <1>1, <1>3, <2>1, <2>2 DEF edsVars, ptVars, E!vars, P!vars
<1> QED
  BY <1>2, <1>4, <1>5, <1>6 DEF Next

\* The status follows main's flags.
LEMMA StatusStep ==
  ASSUME StatusInv, MainInv, [Next]_vars
  PROVE  StatusInv'
<1>1. /\ IsOK \subseteq {1, 2} /\ j \in {1, 2}
      /\ (pc \in {"count", "categorize"} => IsOK = {} /\ j = 1)
      /\ (pc = "instantiate" => \A p \in IsOK : p < j)
      /\ (pc \in {"count", "categorize", "instantiate", "parse"} => ContentSize = 0)
      /\ EdsParser = 1 /\ PassThruParser = 2
  BY DEF MainInv, M!IInv, M!LoopTypeOK, M!Progress, M!Parsers, EdsParser, PassThruParser
<1>2. ASSUME UNCHANGED edsVars, Main!CountOptions \/ Main!CategorizeOption \/ Main!CollectNonOption \/ Main!AllCollected
      PROVE  StatusInv'
  BY <1>1, <1>2 DEF StatusInv, edsVars, Main!CountOptions, Main!CategorizeOption, Main!CollectNonOption,
                    Main!AllCollected
<1>3. ASSUME UNCHANGED edsVars, Main!SkipNoText \/ Main!ParsingDone
      PROVE  StatusInv'
  BY <1>1, <1>3 DEF StatusInv, edsVars, Main!SkipNoText, Main!ParsingDone, Main!AfterParsing
<1>4. ASSUME UNCHANGED edsVars, Main!DoShowError \/ Main!DestroyParser \/ Main!Exit \/ Main!Send
      PROVE  StatusInv'
  BY <1>1, <1>4 DEF StatusInv, edsVars, Main!DoShowError, Main!DestroyParser, Main!Exit, Main!Send,
                    Main!NextParser
<1>5. CASE Instantiate
  BY <1>1, <1>5 DEF StatusInv, Instantiate, edsVars, Main!InstantiateParser, Main!NextParser
<1>6. CASE DoParseOption
  <2>1. /\ pc = "parse" /\ pc' = "parse" /\ ContentSize' = ContentSize
        /\ edsStatus \in {"parsing", "rejected"} /\ (EdsParser \in IsOK <=> edsStatus # "rejected")
    BY <1>6 DEF StatusInv, DoParseOption, Main!DoParseOption, Main!NextParser
  <2>2. CASE j = EdsParser /\ EDS!ParseOption(EdsArgOf(ArgV[i])) /\ (j \in IsOK' <=> edsStatus' = "parsing")
    <3>1. edsStatus' \in {"parsing", "rejected"}
      BY <2>1, <2>2 DEF EDS!ParseOption, EDS!ParseDestination, EDS!ParseCommandCode,
                        EDS!ParseHeaderMember, EDS!ParseSetting, EDS!ParseParameter, EDS!Returns
    <3> QED
      BY <2>1, <2>2, <3>1 DEF StatusInv
  <2>3. CASE (j = PassThruParser \/ j \notin IsOK) /\ UNCHANGED edsVars
    <3>1. EdsParser \in IsOK' <=> EdsParser \in IsOK
      BY <1>1, <1>6, <2>3 DEF DoParseOption, Main!DoParseOption, Main!PutOut
    <3> QED
      BY <2>1, <2>3, <3>1 DEF StatusInv, edsVars
  <2> QED
    BY <1>6, <2>2, <2>3 DEF DoParseOption
<1>7. CASE DoShowHelp
  <2>1. pc = "help" /\ pc' \in {"help", "destroy"} /\ (edsStatus' = "helped" \/ edsStatus' = edsStatus)
    BY <1>7 DEF DoShowHelp, Main!DoShowHelp, Main!NextParser, EDS!HelpUsage, edsVars
  <2> QED
    BY <2>1 DEF StatusInv
<1>8. CASE DoEncode
  <2>1. /\ pc = "encode" /\ IsOK' = IsOK
        /\ IF j = 1 THEN j' = 2 /\ pc' = "encode" ELSE pc' = "report"
    BY <1>1, <1>8 DEF DoEncode, Main!DoEncode, Main!NextParser
  <2>2. CASE j = EdsParser /\ j \in IsOK /\ EDS!GetPackedObject
    BY <1>1, <2>1, <2>2 DEF StatusInv, EDS!GetPackedObject
  <2>3. CASE j = PassThruParser /\ UNCHANGED edsVars
    BY <1>1, <2>1, <2>3 DEF StatusInv, edsVars
  <2>4. CASE (j \notin IsOK \/ ContentSize # 0) /\ UNCHANGED edsVars
    BY <1>1, <2>1, <2>4 DEF StatusInv, edsVars
  <2> QED
    BY <1>8, <2>2, <2>3, <2>4 DEF DoEncode
<1>9. CASE SendUdpStep \/ Over \/ UNCHANGED vars
  <2>1. UNCHANGED <<mainVars, edsVars>>
    BY <1>9 DEF SendUdpStep, Over, vars
  <2> QED
    BY <2>1 DEF StatusInv, mainVars, edsVars
<1>10. CASE MainStep \/ Send
  BY <1>2, <1>3, <1>4, <1>10 DEF MainStep, Send
<1> QED
  BY <1>5, <1>6, <1>7, <1>8, <1>9, <1>10 DEF Next

\* The inductive invariant of the whole.
EncodersInv ==
    /\ DatagramInv /\ typed \in Typed
    /\ ArgsInv /\ StatusInv
    /\ E!KeptInv /\ E!RefusalInv /\ P!EncoderInv

LEMMA InitEncoders == Init => EncodersInv
<1> SUFFICES ASSUME Init PROVE EncodersInv
  OBVIOUS
<1>1. /\ calls = [p \in Main!Parsers |-> <<>>] /\ edsArgs = <<>> /\ ptArgs = <<>>
      /\ pc = "count" /\ Obj = {} /\ edsStatus \in {"parsing", "crashed"}
  BY DEF Init, Main!Init, EDS!Init, PassThru!Init, PassThru!Instantiate
<1>2. calls[EdsParser] = <<>> /\ calls[PassThruParser] = <<>>
  BY <1>1 DEF Main!Parsers, EdsParser, PassThruParser
<1>3. ArgsInv /\ StatusInv
  BY <1>1, <1>2 DEF ArgsInv, StatusInv
<1>4. E!Init /\ P!Init
  BY EdsActions, PassThruActions DEF Init
<1>5. E!KeptInv /\ E!RefusalInv
  BY <1>4, EdsAssumptions, E!InitKept, E!InitRefusal
<1>6. P!EncoderInv
  BY <1>4, PassThruAssumptions, P!InitEncoder
<1> QED
  BY <1>3, <1>5, <1>6, InitDatagram DEF Init, EncodersInv

LEMMA EncodersInvStep ==
  ASSUME EncodersInv, [Next]_vars
  PROVE  EncodersInv'
<1>1. DatagramInv /\ PartsInv /\ MainInv
  BY DEF EncodersInv, DatagramInv, PartsInv
<1>2. DatagramInv' /\ MainInv'
  BY <1>1, DatagramStep, PartsStep DEF PartsInv
<1>3. typed' = typed /\ ArgsInv' /\ [E!Calls]_(E!vars) /\ [P!Calls]_(P!vars)
  BY <1>1, <1>2, EncodersStep DEF EncodersInv
<1>4. E!KeptInv' /\ E!RefusalInv'
  BY <1>3, EdsAssumptions, E!KeptStep, E!RefusalStep DEF EncodersInv
<1>5. P!EncoderInv'
  BY <1>3, PassThruAssumptions, P!EncoderStep DEF EncodersInv
<1>6. StatusInv'
  BY <1>1, StatusStep DEF EncodersInv
<1> QED
  BY <1>2, <1>3, <1>4, <1>5, <1>6 DEF EncodersInv

LEMMA EncodersInvariance == Spec => []EncodersInv
BY InitEncoders, EncodersInvStep, PTL DEF Spec
=============================================================================
