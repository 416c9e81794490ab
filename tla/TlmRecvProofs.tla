---------------------------- MODULE TlmRecvProofs ---------------------------
(***************************************************************************)
(* Proofs about tlm_recv: who shows a datagram, what the EDS decoder shows *)
(* of it and what the hex dump does, for any datagrams, buffer size, line  *)
(* width and number of datagrams.                                          *)
(***************************************************************************)
EXTENDS TlmRecv, IndexLemmas

\* Whatever its elements are, it is a sequence.
IsSequence(s) == s \in Seq({s[k] : k \in DOMAIN s})

\* An element more.
LEMMA AppendShape ==
  ASSUME NEW s, IsSequence(s), NEW e
  PROVE  /\ IsSequence(Append(s, e)) /\ Len(s) \in Nat /\ DOMAIN s = 1..Len(s)
         /\ Len(Append(s, e)) = Len(s) + 1 /\ DOMAIN Append(s, e) = 1..(Len(s) + 1)
         /\ Append(s, e)[Len(s) + 1] = e
         /\ \A k \in 1..Len(s) : Append(s, e)[k] = s[k]
<1> DEFINE S == {s[k] : k \in DOMAIN s}
           T == S \cup {e}
           a == Append(s, e)
<1>1. s \in Seq(S)
  BY DEF IsSequence
<1> HIDE DEF S
<1>2. s \in Seq(T) /\ e \in T
  BY <1>1
<1> HIDE DEF T
<1>3. /\ a \in Seq(T) /\ Len(s) \in Nat /\ DOMAIN s = 1..Len(s)
      /\ Len(a) = Len(s) + 1 /\ DOMAIN a = 1..(Len(s) + 1)
      /\ a[Len(s) + 1] = e /\ \A k \in 1..Len(s) : a[k] = s[k]
  BY <1>2
<1> HIDE DEF a
<1>4. a \in Seq({a[k] : k \in DOMAIN a})
  BY <1>3
<1> USE DEF a
<1> QED
  BY <1>3, <1>4 DEF IsSequence

\* The decoders in the build: the last of them always has something to show.
LEMMA DisplaysShape ==
  /\ NumDisplays \in {1, 2}
  /\ DISPLAYS \in Seq({"EDS", "PassThrough"})
  /\ DISPLAYS[NumDisplays] = "PassThrough"
BY DisplayAssumption DEF NumDisplays

\* The decoders are asked in their order, and as many as there were dumps.
AskedInOrder ==
    /\ IsSequence(dumps) /\ Len(dumps) <= NumDisplays
    /\ \A k \in DOMAIN dumps : dumps[k].by = DISPLAYS[k]

\* The inductive invariant: who was asked about the last datagram, and that every
\* datagram before it was shown.
ShownInv ==
    /\ received \in Seq(Nat) /\ IsSequence(shown)
    /\ j \in 1..NumDisplays
    /\ AskedInOrder
    /\ pc \in {"options", "instantiate", "socket"} => received = <<>> /\ shown = <<>>
    /\ pc = "display" =>
         received # <<>> /\ Len(dumps) = j - 1 /\ Len(shown) + 1 = Len(received)
    /\ pc \in {"receive", "destroy"} =>
         /\ Len(shown) = Len(received)
         /\ received # <<>> => Len(dumps) > 0 /\ shown[Len(shown)] = DISPLAYS[Len(dumps)]

\* tlm_recv starts with nothing received.
LEMMA InitShown == Init => ShownInv
<1> SUFFICES ASSUME Init PROVE ShownInv
  OBVIOUS
<1>1. received = <<>> /\ shown = <<>> /\ dumps = <<>> /\ j = 1 /\ pc = "options"
  BY DEF Init
<1>2. IsSequence(<<>>) /\ Len(<<>>) = 0 /\ DOMAIN <<>> = {}
  BY DEF IsSequence
<1> QED
  BY <1>1, <1>2, DisplaysShape DEF ShownInv, AskedInOrder

\* A datagram that arrives has not been shown to anybody.
LEMMA ReceiveShown ==
  ASSUME ShownInv, Receive
  PROVE  ShownInv'
<1>1. PICK size \in Sizes : received' = Append(received, size)
  BY DEF Receive
<1>2. size \in Nat /\ received \in Seq(Nat)
  BY <1>1, ReceiveAssumption DEF ShownInv
<1>3. received' \in Seq(Nat) /\ Len(received') = Len(received) + 1 /\ received' # <<>>
  BY <1>1, <1>2
<1>4. pc = "receive" /\ pc' = "display" /\ j' = 1 /\ dumps' = <<>> /\ shown' = shown
  BY DEF Receive
<1>5. IsSequence(<<>>) /\ Len(<<>>) = 0 /\ DOMAIN <<>> = {}
  BY DEF IsSequence
<1> QED
  BY <1>2, <1>3, <1>4, <1>5, DisplaysShape DEF ShownInv, AskedInOrder

\* A decoder is asked: it shows the datagram, or the next one is asked.
LEMMA DisplayShown ==
  ASSUME ShownInv, DisplayObject
  PROVE  ShownInv'
<1>1. PICK answer \in BOOLEAN :
        /\ dumps' = Append(dumps, [by |-> DISPLAYS[j], lines |-> Hexdump(DataOf(n))])
        /\ IF DISPLAYS[j] = "EDS" THEN EdsDisplayObject(answer) ELSE PassThruDisplayObject(answer)
        /\ shown' = IF answer THEN Append(shown, DISPLAYS[j]) ELSE shown
        /\ IF LoopIsOver(answer) THEN pc' = "receive" /\ j' = 1 ELSE pc' = pc /\ j' = j + 1
  BY DEF DisplayObject
<1>2. /\ pc = "display" /\ received' = received /\ received # <<>> /\ received \in Seq(Nat)
      /\ IsSequence(dumps) /\ IsSequence(shown)
      /\ Len(dumps) = j - 1 /\ Len(shown) + 1 = Len(received)
      /\ j \in 1..NumDisplays /\ NumDisplays \in {1, 2}
      /\ \A k \in DOMAIN dumps : dumps[k].by = DISPLAYS[k]
  BY DisplaysShape DEF DisplayObject, ShownInv, AskedInOrder
<1> DEFINE e == [by |-> DISPLAYS[j], lines |-> Hexdump(DataOf(n))]
<1>3. e.by = DISPLAYS[j]
  OBVIOUS
<1>4. dumps' = Append(dumps, e)
  BY <1>1
<1> HIDE DEF e
<1>5. /\ IsSequence(dumps') /\ Len(dumps') = j /\ DOMAIN dumps' = 1..j
      /\ dumps'[j] = e /\ \A k \in 1..(j - 1) : dumps'[k] = dumps[k]
      /\ DOMAIN dumps = 1..(j - 1)
  BY <1>2, <1>4, AppendShape
<1>6. AskedInOrder'
  <2>1. \A k \in DOMAIN dumps' : dumps'[k].by = DISPLAYS[k]
    BY <1>2, <1>3, <1>5
  <2> QED
    BY <1>2, <1>5, <2>1 DEF AskedInOrder
<1>7. j = NumDisplays => answer = TRUE
  <2>1. j = NumDisplays => DISPLAYS[j] # "EDS"
    BY DisplaysShape
  <2> QED
    BY <1>1, <2>1 DEF PassThruDisplayObject
<1>8. CASE answer = TRUE
  <2>1. pc' = "receive" /\ j' = 1 /\ shown' = Append(shown, DISPLAYS[j])
    BY <1>1, <1>8 DEF LoopIsOver
  <2>2. /\ IsSequence(shown') /\ Len(shown') = Len(received)
        /\ shown'[Len(shown')] = DISPLAYS[j]
    BY <1>2, <2>1, AppendShape
  <2> QED
    BY <1>2, <1>5, <1>6, <2>1, <2>2 DEF ShownInv
<1>9. CASE answer = FALSE
  <2>1. pc' = "display" /\ j' = j + 1 /\ shown' = shown /\ j < NumDisplays
    BY <1>1, <1>2, <1>7, <1>9 DEF LoopIsOver
  <2> QED
    BY <1>2, <1>5, <1>6, <2>1 DEF ShownInv
<1> QED
  BY <1>8, <1>9

\* The rest has nothing to do with datagrams.
LEMMA OtherShown ==
  ASSUME ShownInv,
         TakeOption \/ InstantiateDisplays \/ OpenPort \/ ReceiveFails \/ DestroyDisplay \/ UNCHANGED vars
  PROVE  ShownInv'
<1>1. UNCHANGED <<received, shown, dumps>>
  BY DEF TakeOption, InstantiateDisplays, OpenPort, ReceiveFails, DestroyDisplay, vars
<1>2. AskedInOrder' <=> AskedInOrder
  BY <1>1 DEF AskedInOrder
<1>3. CASE TakeOption \/ InstantiateDisplays \/ OpenPort \/ UNCHANGED vars
  BY <1>1, <1>2, <1>3 DEF TakeOption, InstantiateDisplays, OpenPort, vars, ShownInv
<1>4. CASE ReceiveFails
  BY <1>1, <1>2, <1>4, DisplaysShape DEF ReceiveFails, ShownInv
<1>5. CASE DestroyDisplay
  BY <1>1, <1>2, <1>5, DisplaysShape DEF DestroyDisplay, ShownInv
<1> QED
  BY <1>3, <1>4, <1>5

\* Every datagram received has been accepted by exactly one decoder when the next one
\* is awaited, and dumped by each decoder asked (DisplayObject).
THEOREM ShownExactlyOnce == Spec => []EachShownOnce
<1>1. ShownInv /\ [Next]_vars => ShownInv'
  BY ReceiveShown, DisplayShown, OtherShown DEF Next
<1>2. ShownInv => EachShownOnce
  <2> SUFFICES ASSUME ShownInv, pc \in {"receive", "destroy"}
               PROVE  /\ Len(shown) = Len(received)
                      /\ received # <<>> =>
                           /\ [k \in DOMAIN dumps |-> dumps[k].by] = SubSeq(DISPLAYS, 1, Len(dumps))
                           /\ dumps[Len(dumps)].by = shown[Len(shown)]
    BY DEF EachShownOnce
  <2>1. /\ Len(dumps) \in Nat /\ DOMAIN dumps = 1..Len(dumps)
        /\ Len(dumps) <= NumDisplays /\ \A k \in DOMAIN dumps : dumps[k].by = DISPLAYS[k]
    BY AppendShape DEF ShownInv, AskedInOrder
  <2>2. SubSeq(DISPLAYS, 1, Len(dumps)) = [k \in 1..Len(dumps) |-> DISPLAYS[k]]
    BY <2>1, DisplaysShape DEF NumDisplays
  <2>3. [k \in DOMAIN dumps |-> dumps[k].by] = SubSeq(DISPLAYS, 1, Len(dumps))
    BY <2>1, <2>2
  <2> QED
    BY <2>1, <2>3 DEF ShownInv
<1> QED
  BY <1>1, <1>2, InitShown, PTL DEF Spec

\* What the EDS decoder displays is the datagram at hand, header and body, whatever
\* its buffer held before (EDS_DisplayObject).
THEOREM DecodesAtHand == Spec => []DecodesTheDatagramAtHand
<1> DEFINE I == IsSequence(decoded) /\ DecodesTheDatagramAtHand
<1>1. Init => I
  BY DEF Init, IsSequence, DecodesTheDatagramAtHand
<1>2. I /\ [Next]_vars => I'
  <2> SUFFICES ASSUME I, [Next]_vars PROVE I'
    OBVIOUS
  <2>1. CASE decoded' = decoded
    BY <2>1 DEF DecodesTheDatagramAtHand
  <2>2. CASE decoded' = Append(decoded, [datagram |-> Len(received), header |-> Len(received),
                                         body |-> Len(received)])
    <3> DEFINE d == [datagram |-> Len(received), header |-> Len(received), body |-> Len(received)]
    <3>1. d.header = d.datagram /\ d.body = d.datagram /\ decoded' = Append(decoded, d)
      BY <2>2
    <3> HIDE DEF d
    <3>2. /\ IsSequence(decoded') /\ DOMAIN decoded' = 1..(Len(decoded) + 1)
          /\ decoded'[Len(decoded) + 1] = d /\ Len(decoded) \in Nat /\ DOMAIN decoded = 1..Len(decoded)
          /\ \A k \in 1..Len(decoded) : decoded'[k] = decoded[k]
      BY <3>1, AppendShape
    <3>3. \A k \in 1..(Len(decoded) + 1) : k \in 1..Len(decoded) \/ k = Len(decoded) + 1
      BY <3>2
    <3> QED
      BY <3>1, <3>2, <3>3 DEF DecodesTheDatagramAtHand
  <2>3. CASE DisplayObject
    <3>1. PICK answer \in BOOLEAN :
            IF DISPLAYS[j] = "EDS" THEN EdsDisplayObject(answer) ELSE PassThruDisplayObject(answer)
      BY <2>3 DEF DisplayObject
    <3>2. CASE EdsDisplayObject(answer)
      BY <2>1, <2>2, <3>2 DEF EdsDisplayObject, Shown, Unpacked
    <3> QED
      BY <2>1, <3>1, <3>2 DEF PassThruDisplayObject
  <2>4. CASE TakeOption \/ InstantiateDisplays \/ OpenPort \/ Receive \/ ReceiveFails
               \/ DestroyDisplay \/ UNCHANGED vars
    BY <2>1, <2>4 DEF TakeOption, InstantiateDisplays, OpenPort, Receive, ReceiveFails, DestroyDisplay, vars
  <2> QED
    BY <2>3, <2>4 DEF Next
<1> QED
  BY <1>1, <1>2, PTL DEF Spec

-----------------------------------------------------------------------------
(* The hex dump.                                                           *)

\* One turn of the dump's inner loop, and what the line buffer holds at first.
TurnInto(data, s, i, k) ==
    [ cells |-> WriteCell(s.cells, k, data[i]),
      printed |-> IF k = WIDTH \/ i = Len(data)
                  THEN Append(s.printed, PrintedLine(i - k, Visible(WriteCell(s.cells, k, data[i]))))
                  ELSE s.printed ]
Turn(data, s, i) == TurnInto(data, s, i, ((i - 1) % WIDTH) + 1)
Start == [cells |-> [k \in 1..(WIDTH + 1) |-> Garbage], printed |-> <<>>]

\* The dump as the fold of the community modules computes it.
Places(data) == [i \in DOMAIN data |-> i]
IsDump(g, data) ==
    g = [s \in SUBSET DOMAIN Places(data) |->
           IF s = {} THEN Start ELSE Turn(data, g[s \ {Max(s)}], Places(data)[Max(s)])]

LEMMA HexdumpIsFold == \A data : Hexdump(data) = (CHOOSE g : IsDump(g, data))[DOMAIN Places(data)].printed
BY DEF Hexdump, FoldLeftDomain, FoldLeft, MapThenFoldSet, IsDump, Turn, TurnInto, Start, Places

\* The first m turns.
IsDumpTo(g, data, m) ==
    g = [s \in SUBSET (1..m) |-> IF s = {} THEN Start ELSE Turn(data, g[s \ {Max(s)}], Max(s))]

LEMMA MaxInside ==
  ASSUME NEW m \in Nat, NEW s \in SUBSET (1..m), s # {}
  PROVE  Max(s) \in s /\ \A i \in s : i <= Max(s)
<1>1. s \in SUBSET Nat /\ \A i \in s : i <= m
  OBVIOUS
<1> QED
  BY <1>1, MaxOf

\* There are such turns, however many.
LEMMA DumpExists ==
  ASSUME NEW data, NEW m \in Nat
  PROVE  \E g : IsDumpTo(g, data, m)
<1> DEFINE Bad == {i \in Nat : ~\E g : IsDumpTo(g, data, i)}
<1> SUFFICES ASSUME Bad # {} PROVE FALSE
  OBVIOUS
<1>1. PICK i \in Bad : \A l \in Bad : i <= l
  <2>1. Bad \in SUBSET Nat
    OBVIOUS
  <2> HIDE DEF Bad
  <2> QED
    BY <2>1, SmallestNat
<1>2. i \in Nat /\ ~\E g : IsDumpTo(g, data, i)
  BY <1>1
<1>3. i # 0
  <2> DEFINE g == [s \in SUBSET (1..0) |-> Start]
  <2>1. \A s \in SUBSET (1..0) : s = {}
    OBVIOUS
  <2>2. g = [s \in SUBSET (1..0) |-> IF s = {} THEN Start ELSE Turn(data, g[s \ {Max(s)}], Max(s))]
    BY <2>1, Zenon
  <2> HIDE DEF g
  <2>3. IsDumpTo(g, data, 0)
    BY <2>2, Zenon DEF IsDumpTo
  <2> QED
    BY <1>2, <2>3
<1>4. PICK p \in Nat : i = p + 1
  BY <1>2, <1>3
<1>5. PICK h : IsDumpTo(h, data, p)
  <2>1. p \notin Bad
    <3> HIDE DEF Bad
    <3> QED
      BY <1>1, <1>2, <1>4
  <2> QED
    BY <2>1
<1>6. \A s \in SUBSET (1..p) : h[s] = IF s = {} THEN Start ELSE Turn(data, h[s \ {Max(s)}], Max(s))
  BY <1>5, Zenon DEF IsDumpTo
<1> DEFINE g == [s \in SUBSET (1..i) |-> IF i \in s THEN Turn(data, h[s \ {i}], i) ELSE h[s]]
<1>7. ASSUME NEW s \in SUBSET (1..i)
      PROVE  g[s] = IF s = {} THEN Start ELSE Turn(data, g[s \ {Max(s)}], Max(s))
  <2>1. s # {} => Max(s) \in s /\ s \ {Max(s)} \in SUBSET (1..i)
    BY <1>2, MaxInside
  <2>2. CASE i \in s
    <3>1. Max(s) = i
      <4>1. Max(s) \in s /\ \A l \in s : l <= Max(s)
        BY <1>2, <2>2, MaxInside
      <4>2. Max(s) \in 1..i
        BY <4>1
      <4>3. Max(s) \in Nat /\ Max(s) <= i /\ i <= Max(s)
        BY <1>2, <2>2, <4>1, <4>2
      <4> QED
        BY <1>2, <4>3
    <3>2. g[s] = Turn(data, h[s \ {i}], i)
      BY <2>2
    <3>3. g[s \ {i}] = h[s \ {i}]
      OBVIOUS
    <3> HIDE DEF g
    <3> QED
      BY <2>2, <3>1, <3>2, <3>3
  <2>3. CASE i \notin s
    <3>1. s \in SUBSET (1..p)
      BY <1>4, <2>3
    <3>2. g[s] = h[s]
      BY <2>3
    <3>3. s # {} => g[s \ {Max(s)}] = h[s \ {Max(s)}]
      BY <2>1, <2>3
    <3> HIDE DEF g
    <3>4. h[s] = IF s = {} THEN Start ELSE Turn(data, h[s \ {Max(s)}], Max(s))
      BY <1>6, <3>1
    <3> QED
      BY <3>2, <3>3, <3>4, Zenon
  <2> QED
    BY <2>2, <2>3
<1>8. IsDumpTo(g, data, i)
  <2>1. g = [s \in SUBSET (1..i) |-> g[s]]
    OBVIOUS
  <2> HIDE DEF g
  <2>2. g = [s \in SUBSET (1..i) |-> IF s = {} THEN Start ELSE Turn(data, g[s \ {Max(s)}], Max(s))]
    BY <1>7, <2>1, Zenon
  <2> QED
    BY <2>2, Zenon DEF IsDumpTo
<1> QED
  BY <1>2, <1>8

\* A dump is its turns, one after the other.
LEMMA DumpTurns ==
  ASSUME NEW T, NEW data \in Seq(T)
  PROVE  \E st : /\ Hexdump(data) = st[Len(data)].printed
                 /\ st[0] = Start
                 /\ \A m \in 1..Len(data) : st[m] = Turn(data, st[m - 1], m)
<1>1. PICK len \in Nat : len = Len(data)
  OBVIOUS
<1>2. DOMAIN data = 1..len
  BY <1>1
<1>3. \A g : IsDump(g, data) <=> IsDumpTo(g, data, len)
  <2> SUFFICES ASSUME NEW g PROVE IsDump(g, data) <=> IsDumpTo(g, data, len)
    OBVIOUS
  <2>1. DOMAIN Places(data) = 1..len /\ \A i \in 1..len : Places(data)[i] = i
    BY <1>2 DEF Places
  <2>2. \A s \in SUBSET (1..len) : s # {} => Places(data)[Max(s)] = Max(s)
    BY <2>1, MaxInside
  <2>3. [s \in SUBSET (1..len) |-> IF s = {} THEN Start ELSE Turn(data, g[s \ {Max(s)}], Places(data)[Max(s)])]
          = [s \in SUBSET (1..len) |-> IF s = {} THEN Start ELSE Turn(data, g[s \ {Max(s)}], Max(s))]
    <3>1. \A s \in SUBSET (1..len) :
            (IF s = {} THEN Start ELSE Turn(data, g[s \ {Max(s)}], Places(data)[Max(s)]))
              = (IF s = {} THEN Start ELSE Turn(data, g[s \ {Max(s)}], Max(s)))
      BY <2>2, Zenon
    <3> QED
      BY <3>1, Zenon
  <2> QED
    BY <2>1, <2>3, Zenon DEF IsDump, IsDumpTo
<1>4. PICK h : h = CHOOSE g : IsDump(g, data)
  OBVIOUS
<1>5. IsDumpTo(h, data, len)
  BY <1>1, <1>3, <1>4, DumpExists
<1>6. \A s \in SUBSET (1..len) : h[s] = IF s = {} THEN Start ELSE Turn(data, h[s \ {Max(s)}], Max(s))
  BY <1>5, Zenon DEF IsDumpTo
<1> DEFINE st == [m \in 0..len |-> h[1..m]]
<1>7. Hexdump(data) = st[len].printed
  <2>1. DOMAIN Places(data) = 1..len
    BY <1>2 DEF Places
  <2>2. st[len] = h[1..len]
    BY <1>1
  <2> HIDE DEF st
  <2> QED
    BY <1>4, <2>1, <2>2, HexdumpIsFold, Zenon
<1>8. st[0] = Start
  <2>1. st[0] = h[{}]
    BY <1>1
  <2> HIDE DEF st
  <2> QED
    BY <1>6, <2>1
<1>9. ASSUME NEW m \in 1..len PROVE st[m] = Turn(data, st[m - 1], m)
  <2>1. 1..m \in SUBSET (1..len) /\ 1..m # {} /\ (1..m) \ {m} = 1..(m - 1) /\ m - 1 \in 0..len /\ m \in 0..len
    <3>1. 1..m \in SUBSET (1..len)
      BY <1>1
    <3>2. 1..m # {} /\ m \in Nat
      <4>1. m \in Nat /\ 1 <= m
        BY <1>1
      <4>2. 1 \in 1..m
        BY <4>1
      <4> QED
        BY <4>1, <4>2
    <3>3. (1..m) \ {m} = 1..(m - 1)
      BY <3>2
    <3> QED
      BY <1>1, <3>1, <3>2, <3>3
  <2>2. Max(1..m) = m
    <3>1. 1..m \in SUBSET Nat /\ m \in 1..m /\ \A i \in 1..m : i <= m
      OBVIOUS
    <3> QED
      BY <3>1, MaxIs
  <2>3. st[m] = h[1..m] /\ st[m - 1] = h[1..(m - 1)]
    BY <2>1
  <2> HIDE DEF st
  <2>4. h[1..m] = Turn(data, h[(1..m) \ {Max(1..m)}], Max(1..m))
    BY <1>6, <2>1, Zenon
  <2> QED
    BY <2>1, <2>2, <2>3, <2>4
<1> HIDE DEF st
<1> QED
  BY <1>1, <1>7, <1>8, <1>9

\* Line q of a dump, counted from 0.
LineAt(data, q) ==
    PrintedLine(WIDTH * q, SubSeq(data, WIDTH * q + 1, Least(WIDTH * (q + 1), Len(data))))

\* The first lines of a dump.
FirstLines(data, printed, q) ==
    IsSequence(printed) /\ Len(printed) = q /\ \A l \in 1..q : printed[l] = LineAt(data, l - 1)

\* Before turn m + 1: q lines are printed, and k bytes of the next are in its buffer.
Sofar(data, s, m, q, k) ==
    /\ m = WIDTH * q + k /\ k < WIDTH
    /\ DOMAIN s.cells = 1..(WIDTH + 1)
    /\ \A c \in 1..k : s.cells[c] = data[WIDTH * q + c]
    /\ FirstLines(data, s.printed, q)

\* Lines of any width.
LEMMA Rows ==
  ASSUME NEW q \in Nat, NEW k \in Nat, k < WIDTH
  PROVE  /\ WIDTH * q \in Nat /\ WIDTH * (q + 1) = WIDTH * q + WIDTH
         /\ (WIDTH * q + k) % WIDTH = k /\ (WIDTH * q + k) \div WIDTH = q
<1>1. WIDTH * q \in Nat
  BY WidthAssumption
<1>2. WIDTH * (q + 1) = WIDTH * q + WIDTH
  BY WidthAssumption
<1>3. (WIDTH * q + k) % WIDTH = k
  BY WidthAssumption
<1>4. (WIDTH * q + k) \div WIDTH = q
  BY WidthAssumption
<1> QED
  BY <1>1, <1>2, <1>3, <1>4

\* A line is what was written into the buffer for it, whatever else the buffer holds.
LEMMA LineShown ==
  ASSUME NEW T, NUL \notin T, NEW data \in Seq(T), NEW a \in Nat, NEW k \in 1..WIDTH, a + k <= Len(data),
         NEW cells, DOMAIN cells = 1..(WIDTH + 1), \A c \in 1..k : cells[c] = data[a + c],
         cells[k + 1] = NUL
  PROVE  Visible(cells) = SubSeq(data, a + 1, a + k)
<1> DEFINE ends == {c \in DOMAIN cells : cells[c] = NUL}
<1>1. WIDTH \in Nat /\ k \in Nat /\ 1 <= k /\ k <= WIDTH
  BY WidthAssumption
<1>2. \A c \in 1..k : cells[c] \in T /\ cells[c] # NUL
  <2>1. \A c \in 1..k : a + c \in 1..Len(data)
    BY <1>1
  <2>2. \A i \in 1..Len(data) : data[i] \in T /\ data[i] # NUL
    OBVIOUS
  <2> QED
    BY <2>1, <2>2
<1>3. ends \in SUBSET Nat /\ k + 1 \in ends /\ \A c \in ends : k + 1 <= c
  <2>1. ends \in SUBSET Nat /\ k + 1 \in ends
    BY <1>1
  <2>2. \A c \in ends : c \in Nat /\ 1 <= c /\ c \notin 1..k
    BY <1>1, <1>2
  <2> QED
    BY <1>1, <2>1, <2>2
<1> HIDE DEF ends
<1>4. Min(ends) = k + 1
  <2>1. Min(ends) \in ends /\ \A c \in ends : Min(ends) <= c
    BY <1>3, MinOf
  <2>2. Min(ends) \in Nat /\ k + 1 <= Min(ends) /\ Min(ends) <= k + 1
    BY <1>3, <2>1
  <2> QED
    BY <1>1, <2>2
<1>5. Visible(cells) = SubSeq(cells, 1, k)
  <2>1. Visible(cells) = SubSeq(cells, 1, Min(ends) - 1)
    BY <1>3 DEF Visible, ends
  <2> QED
    BY <1>1, <1>4, <2>1
<1>6. /\ SubSeq(cells, 1, k) \in Seq(T) /\ Len(SubSeq(cells, 1, k)) = k
      /\ \A c \in 1..k : SubSeq(cells, 1, k)[c] = cells[c]
  <2>1. \A c \in 1..k : cells[c] \in T
    BY <1>2
  <2>2. /\ SubSeq(cells, 1, k) \in Seq(T)
        /\ Len(SubSeq(cells, 1, k)) = IF 1 <= k THEN k - 1 + 1 ELSE 0
        /\ \A c \in 1..(k - 1 + 1) : SubSeq(cells, 1, k)[c] = cells[1 + c - 1]
    BY <1>1, <2>1, SubSeqProperties
  <2> QED
    BY <1>1, <2>2
<1>7. /\ SubSeq(data, a + 1, a + k) \in Seq(T) /\ Len(SubSeq(data, a + 1, a + k)) = k
      /\ \A c \in 1..k : SubSeq(data, a + 1, a + k)[c] = data[a + c]
  BY <1>1
<1>8. PICK x \in Seq(T), y \in Seq(T) : x = SubSeq(cells, 1, k) /\ y = SubSeq(data, a + 1, a + k)
  BY <1>6, <1>7
<1>9. Len(x) = k /\ Len(y) = k /\ \A c \in 1..k : x[c] = y[c]
  BY <1>6, <1>7, <1>8
<1>10. x = y
  BY <1>1, <1>9
<1> QED
  BY <1>5, <1>8, <1>10

\* A line more.
LEMMA LineAdded ==
  ASSUME NEW data, NEW printed, NEW q \in Nat, FirstLines(data, printed, q)
  PROVE  FirstLines(data, Append(printed, LineAt(data, q)), q + 1)
<1> DEFINE more == Append(printed, LineAt(data, q))
<1>1. /\ IsSequence(more) /\ Len(more) = q + 1 /\ more[q + 1] = LineAt(data, q)
      /\ \A l \in 1..q : more[l] = printed[l]
  BY AppendShape DEF FirstLines
<1> HIDE DEF more
<1>2. \A l \in 1..(q + 1) : l \in 1..q \/ l = q + 1
  OBVIOUS
<1>3. \A l \in 1..(q + 1) : more[l] = LineAt(data, l - 1)
  <2> SUFFICES ASSUME NEW l \in 1..(q + 1) PROVE more[l] = LineAt(data, l - 1)
    OBVIOUS
  <2>1. CASE l \in 1..q
    BY <1>1, <2>1 DEF FirstLines
  <2>2. CASE l = q + 1
    <3>1. l - 1 = q
      BY <2>2
    <3> QED
      BY <1>1, <2>2, <3>1
  <2> QED
    BY <1>2, <2>1, <2>2
<1> QED
  BY <1>1, <1>3 DEF FirstLines, more

\* One turn: the byte goes into its cell, and a line that is full or the last is printed.
LEMMA TurnTaken ==
  ASSUME NEW T, NUL \notin T, NEW data \in Seq(T), NEW s, NEW m \in Nat, m < Len(data),
         NEW q \in Nat, NEW k \in Nat, Sofar(data, s, m, q, k),
         NEW t, t = Turn(data, s, m + 1)
  PROVE  /\ k + 1 < WIDTH /\ m + 1 < Len(data) => Sofar(data, t, m + 1, q, k + 1)
         /\ k + 1 = WIDTH => Sofar(data, t, m + 1, q + 1, 0)
         /\ k + 1 = WIDTH \/ m + 1 = Len(data) => FirstLines(data, t.printed, q + 1)
<1> DEFINE a == WIDTH * q
           d == data[m + 1]
           cells == WriteCell(s.cells, k + 1, d)
           line == PrintedLine(a, Visible(cells))
           ends == k + 1 = WIDTH \/ m + 1 = Len(data)
<1>1. /\ WIDTH \in Nat /\ a \in Nat /\ WIDTH * (q + 1) = a + WIDTH /\ (a + k) % WIDTH = k
      /\ Len(data) \in Nat /\ k < WIDTH /\ m = a + k
  <2>1. k < WIDTH /\ m = a + k
    BY DEF Sofar
  <2>2. a \in Nat /\ WIDTH * (q + 1) = a + WIDTH /\ (a + k) % WIDTH = k
    BY <2>1, Rows
  <2> HIDE DEF a
  <2> QED
    BY <2>1, <2>2, WidthAssumption
<1>2. /\ DOMAIN s.cells = 1..(WIDTH + 1) /\ \A c \in 1..k : s.cells[c] = data[a + c]
      /\ FirstLines(data, s.printed, q)
  BY DEF Sofar
<1> HIDE DEF a
<1>3. ((m + 1 - 1) % WIDTH) + 1 = k + 1 /\ m + 1 - (k + 1) = a
  <2>1. m + 1 - 1 = a + k
    BY <1>1
  <2> QED
    BY <1>1, <2>1
<1>4. t.cells = cells /\ t.printed = IF ends THEN Append(s.printed, line) ELSE s.printed
  <2>1. t = [cells |-> cells, printed |-> IF ends THEN Append(s.printed, line) ELSE s.printed]
    <3>1. PICK i, l : i = m + 1 /\ l = ((i - 1) % WIDTH) + 1
      OBVIOUS
    <3>2. t = Turn(data, s, i)
      BY <3>1
    <3>3. t = TurnInto(data, s, i, l)
      BY <3>1, <3>2 DEF Turn
    <3>4. l = k + 1
      BY <1>3, <3>1
    <3>5. i - (k + 1) = a
      BY <1>3, <3>1
    <3>6. t = TurnInto(data, s, i, k + 1)
      BY <3>3, <3>4
    <3>7. (k + 1 = WIDTH \/ i = Len(data)) <=> ends
      BY <3>1
    <3> HIDE DEF ends
    <3> QED
      BY <3>1, <3>5, <3>6, <3>7, Zenon DEF TurnInto
  <2>2. PICK x, y : x = cells /\ y = IF ends THEN Append(s.printed, line) ELSE s.printed
    OBVIOUS
  <2>3. t = [cells |-> x, printed |-> y]
    BY <2>1, <2>2, Zenon
  <2>4. t.cells = x /\ t.printed = y
    BY <2>3
  <2> QED
    BY <2>2, <2>4, Zenon
<1>5. /\ DOMAIN cells = 1..(WIDTH + 1)
      /\ \A c \in 1..(k + 1) : cells[c] = data[a + c]
      /\ cells[k + 2] = NUL
  <2>1. cells = [s.cells EXCEPT ![k + 1] = d, ![k + 2] = NUL]
    <3>1. k + 1 + 1 = k + 2
      OBVIOUS
    <3> QED
      BY <3>1 DEF WriteCell
  <2> HIDE DEF cells, d
  <2>2. k + 1 \in 1..(WIDTH + 1) /\ k + 2 \in 1..(WIDTH + 1)
    BY <1>1
  <2>3. PICK f : f = s.cells
    OBVIOUS
  <2>4. DOMAIN f = 1..(WIDTH + 1) /\ cells = [f EXCEPT ![k + 1] = d, ![k + 2] = NUL]
    BY <1>2, <2>1, <2>3
  <2>5. PICK l \in Nat, i \in Nat : l = k + 1 /\ i = k + 2 /\ l # i /\ \A c \in 1..k : c # l /\ c # i
    OBVIOUS
  <2>6. cells = [f EXCEPT ![l] = d, ![i] = NUL] /\ l \in DOMAIN f /\ i \in DOMAIN f
    BY <2>2, <2>4, <2>5
  <2>7. /\ DOMAIN cells = 1..(WIDTH + 1) /\ cells[l] = d /\ cells[i] = NUL
        /\ \A c \in 1..k : cells[c] = f[c]
    <3>1. \A c \in 1..k : c \in DOMAIN f
      BY <1>1, <2>4
    <3> QED
      BY <2>4, <2>5, <2>6, <3>1, Zenon
  <2>8. /\ DOMAIN cells = 1..(WIDTH + 1) /\ cells[k + 1] = d /\ cells[k + 2] = NUL
        /\ \A c \in 1..k : cells[c] = s.cells[c]
    BY <2>3, <2>5, <2>7, Zenon
  <2>9. \A c \in 1..(k + 1) : c \in 1..k \/ c = k + 1
    OBVIOUS
  <2>10. d = data[a + (k + 1)]
    BY <1>1 DEF d
  <2> QED
    BY <1>2, <2>8, <2>9, <2>10, Zenon
<1> HIDE DEF cells, d
<1>6. ends => line = LineAt(data, q)
  <2>1. Visible(cells) = SubSeq(data, a + 1, a + (k + 1))
    <3>1. k + 1 \in 1..WIDTH /\ a + (k + 1) <= Len(data) /\ cells[k + 1 + 1] = NUL
      <4>1. k + 1 + 1 = k + 2
        OBVIOUS
      <4>2. k + 1 \in 1..WIDTH /\ a + (k + 1) <= Len(data)
        BY <1>1
      <4> QED
        BY <1>5, <4>1, <4>2, Zenon
    <3>2. PICK l \in 1..WIDTH : l = k + 1
      BY <3>1
    <3>3. /\ a + l <= Len(data) /\ cells[l + 1] = NUL /\ a \in Nat
          /\ DOMAIN cells = 1..(WIDTH + 1) /\ \A c \in 1..l : cells[c] = data[a + c]
      BY <1>1, <1>5, <3>1, <3>2
    <3>4. Visible(cells) = SubSeq(data, a + 1, a + l)
      BY <3>3, LineShown
    <3> QED
      BY <3>2, <3>4
  <2>2. ends => Least(WIDTH * (q + 1), Len(data)) = a + (k + 1)
    BY <1>1 DEF Least
  <2> QED
    BY <2>1, <2>2, Zenon DEF LineAt, a
<1>7. ends => FirstLines(data, t.printed, q + 1)
  <2>1. ends => t.printed = Append(s.printed, LineAt(data, q))
    BY <1>4, <1>6, Zenon
  <2> HIDE DEF ends
  <2> QED
    BY <1>2, <2>1, LineAdded
<1>8. ASSUME k + 1 < WIDTH, m + 1 < Len(data) PROVE Sofar(data, t, m + 1, q, k + 1)
  <2>1. ~ends
    BY <1>1, <1>8
  <2>2. t.printed = s.printed /\ t.cells = cells /\ m + 1 = a + (k + 1)
    BY <1>1, <1>4, <2>1
  <2> QED
    BY <1>2, <1>5, <1>8, <2>2, Zenon DEF Sofar, a
<1>9. ASSUME k + 1 = WIDTH PROVE Sofar(data, t, m + 1, q + 1, 0)
  <2>1. m + 1 = WIDTH * (q + 1) + 0 /\ 0 < WIDTH /\ 1..0 = {}
    BY <1>1, <1>9
  <2>2. FirstLines(data, t.printed, q + 1) /\ t.cells = cells
    BY <1>4, <1>7, <1>9
  <2> QED
    BY <1>5, <2>1, <2>2, Zenon DEF Sofar
<1> QED
  BY <1>7, <1>8, <1>9

\* All the lines of a dump are what they should be.
LEMMA LinesAre ==
  ASSUME NEW data, NEW printed, FirstLines(data, printed, (Len(data) + WIDTH - 1) \div WIDTH)
  PROVE  printed = LinesOf(data)
<1> DEFINE q == (Len(data) + WIDTH - 1) \div WIDTH
           lines == LinesOf(data)
<1>1. /\ DOMAIN printed = 1..q /\ printed \in Seq({printed[l] : l \in DOMAIN printed})
      /\ \A l \in 1..q : printed[l] = LineAt(data, l - 1)
  <2>1. IsSequence(printed) /\ Len(printed) = q /\ \A l \in 1..q : printed[l] = LineAt(data, l - 1)
    BY DEF FirstLines
  <2>2. DOMAIN printed = 1..Len(printed)
    BY <2>1, AppendShape
  <2> HIDE DEF q
  <2> QED
    BY <2>1, <2>2, Zenon DEF IsSequence
<1>2. DOMAIN lines = 1..q /\ lines = [l \in 1..q |-> lines[l]]
  BY DEF LinesOf
<1>3. ASSUME NEW l \in 1..q PROVE lines[l] = LineAt(data, l - 1)
  <2>1. lines[l] = PrintedLine(WIDTH * (l - 1), SubSeq(data, WIDTH * (l - 1) + 1, Least(WIDTH * l, Len(data))))
    BY Zenon DEF LinesOf
  <2>2. l - 1 + 1 = l
    OBVIOUS
  <2> QED
    BY <2>1, <2>2, Zenon DEF LineAt
<1> HIDE DEF lines, q
<1>4. printed = [l \in 1..q |-> printed[l]]
  BY <1>1
<1> USE DEF lines
<1> QED
  BY <1>1, <1>2, <1>3, <1>4, Zenon

\* The dump of any bytes: all of them in order, nothing else, each line under the
\* index of its first byte (ConsoleUtils_Hexdump).
LEMMA HexdumpIs ==
  ASSUME NEW T, NUL \notin T, NEW data \in Seq(T)
  PROVE  Hexdump(data) = LinesOf(data)
<1>1. PICK len \in Nat : len = Len(data)
  OBVIOUS
<1>2. PICK st : /\ Hexdump(data) = st[len].printed /\ st[0] = Start
                /\ \A m \in 1..len : st[m] = Turn(data, st[m - 1], m)
  BY <1>1, DumpTurns
<1>3. Start.printed = <<>> /\ DOMAIN Start.cells = 1..(WIDTH + 1)
  BY DEF Start
<1>4. FirstLines(data, <<>>, 0)
  BY DEF FirstLines, IsSequence
<1>5. CASE len = 0
  <2>1. (Len(data) + WIDTH - 1) \div WIDTH = 0
    <3>1. WIDTH - 1 \in Nat /\ WIDTH - 1 < WIDTH /\ Len(data) + WIDTH - 1 = WIDTH * 0 + (WIDTH - 1)
      BY <1>1, <1>5, WidthAssumption
    <3>2. (WIDTH * 0 + (WIDTH - 1)) \div WIDTH = 0
      BY <3>1, Rows
    <3> QED
      BY <3>1, <3>2
  <2>2. Hexdump(data) = <<>>
    BY <1>2, <1>3, <1>5
  <2>3. FirstLines(data, Hexdump(data), (Len(data) + WIDTH - 1) \div WIDTH)
    BY <1>4, <2>1, <2>2
  <2> QED
    BY <2>3, LinesAre
<1>6. CASE len # 0
  <2> DEFINE Reached(m) == \E q, k \in Nat : Sofar(data, st[m], m, q, k)
             Bad == {m \in Nat : m < len /\ ~Reached(m)}
  <2>1. Reached(0)
    <3>1. WIDTH * 0 + 0 = 0 /\ 0 < WIDTH /\ 1..0 = {}
      BY WidthAssumption
    <3>2. Sofar(data, st[0], 0, 0, 0)
      BY <1>2, <1>3, <1>4, <3>1, Zenon DEF Sofar
    <3> QED
      BY <3>2
  <2>2. ASSUME NEW m \in Nat, m + 1 < len, Reached(m) PROVE Reached(m + 1)
    <3>1. PICK q \in Nat, k \in Nat : Sofar(data, st[m], m, q, k)
      BY <2>2
    <3>2. st[m + 1] = Turn(data, st[m], m + 1)
      <4>1. m + 1 \in 1..len /\ m + 1 - 1 = m
        BY <1>1, <2>2
      <4> QED
        BY <1>2, <4>1
    <3>3. m < Len(data) /\ m + 1 < Len(data)
      BY <1>1, <2>2
    <3>4. /\ k + 1 < WIDTH => Sofar(data, st[m + 1], m + 1, q, k + 1)
          /\ k + 1 = WIDTH => Sofar(data, st[m + 1], m + 1, q + 1, 0)
      BY <3>1, <3>2, <3>3, TurnTaken
    <3>5. k + 1 < WIDTH \/ k + 1 = WIDTH
      <4>1. k < WIDTH
        BY <3>1 DEF Sofar
      <4> QED
        BY <4>1, WidthAssumption
    <3> QED
      BY <3>4, <3>5
  <2>3. Bad = {}
    <3> SUFFICES ASSUME Bad # {} PROVE FALSE
      OBVIOUS
    <3>1. PICK m \in Bad : \A l \in Bad : m <= l
      <4>1. Bad \in SUBSET Nat
        OBVIOUS
      <4> HIDE DEF Bad
      <4> QED
        BY <4>1, SmallestNat
    <3>2. m \in Nat /\ m < len /\ ~Reached(m)
      BY <3>1
    <3> HIDE DEF Reached
    <3>3. m # 0
      BY <2>1, <3>2
    <3>4. PICK p \in Nat : p + 1 = m
      BY <3>2, <3>3
    <3>5. p \in Nat /\ p < len /\ p \notin Bad
      <4>1. ~(m <= p)
        BY <3>4
      <4>2. p \notin Bad
        <5> HIDE DEF Bad
        <5> QED
          BY <3>1, <4>1
      <4> QED
        BY <1>1, <3>2, <3>4, <4>2
    <3>6. Reached(p)
      BY <3>5
    <3> QED
      BY <2>2, <3>2, <3>4, <3>6
  <2>4. PICK m \in Nat : len = m + 1
    BY <1>6
  <2>5. PICK q \in Nat, k \in Nat : Sofar(data, st[m], m, q, k)
    <3>1. m < len
      BY <2>4
    <3> HIDE DEF Reached
    <3>2. Reached(m)
      BY <2>3, <3>1
    <3> USE DEF Reached
    <3> QED
      BY <3>2
  <2>6. FirstLines(data, st[len].printed, q + 1)
    <3>1. st[m + 1] = Turn(data, st[m], m + 1)
      <4>1. m + 1 \in 1..len /\ m + 1 - 1 = m
        BY <2>4
      <4> QED
        BY <1>2, <4>1
    <3>2. m < Len(data) /\ m + 1 = Len(data)
      BY <1>1, <2>4
    <3>3. FirstLines(data, st[m + 1].printed, q + 1)
      BY <2>5, <3>1, <3>2, TurnTaken
    <3> QED
      BY <2>4, <3>3
  <2>7. (Len(data) + WIDTH - 1) \div WIDTH = q + 1
    <3>1. k < WIDTH /\ m = WIDTH * q + k
      BY <2>5 DEF Sofar
    <3>2. WIDTH * (q + 1) = WIDTH * q + WIDTH /\ WIDTH * q \in Nat
      BY <3>1, Rows
    <3>3. Len(data) + WIDTH - 1 = WIDTH * (q + 1) + k
      <4> DEFINE a == WIDTH * q
      <4>1. m = a + k /\ WIDTH * (q + 1) = a + WIDTH /\ a \in Nat
        BY <3>1, <3>2
      <4> HIDE DEF a
      <4>2. Len(data) + WIDTH - 1 = (a + WIDTH) + k
        BY <1>1, <2>4, <4>1, WidthAssumption
      <4> QED
        BY <4>1, <4>2
    <3>4. (WIDTH * (q + 1) + k) \div WIDTH = q + 1
      BY <3>1, Rows
    <3> QED
      BY <3>3, <3>4
  <2> QED
    BY <1>2, <2>6, <2>7, LinesAre
<1> QED
  BY <1>5, <1>6

-----------------------------------------------------------------------------
(* The buffer.                                                             *)

Lines == [addr : Nat, bytes : Seq(Bytes)]
DumpRecords == [by : Range(DISPLAYS), lines : Seq(Lines)]

\* The bytes of the last datagram that fit the buffer.
Kept == Least(received[Len(received)], MAX_PACKET_SIZE)
LastDatagram == [b \in 1..Kept |-> Byte(Len(received), b)]

\* While a datagram is displayed the buffer begins with it.
AtHand ==
    /\ received # <<>> /\ n = Kept /\ n \in 0..MAX_PACKET_SIZE
    /\ \A b \in 1..n : NetBuf[b] = Byte(Len(received), b)

\* The inductive invariant: what the buffer holds, and what was dumped of it.
BufferInv ==
    /\ TypeOK
    /\ Len(received) <= MAX_RECEIVED
    /\ pc = "display" => AtHand
    /\ DumpsTheLastDatagram

\* The lines of a dump are lines.
LEMMA LinesType ==
  ASSUME NEW T, NEW data \in Seq(T)
  PROVE  LinesOf(data) \in Seq([addr : Nat, bytes : Seq(T)])
<1> DEFINE q == (Len(data) + WIDTH - 1) \div WIDTH
           f(l) == PrintedLine(WIDTH * (l - 1), SubSeq(data, WIDTH * (l - 1) + 1, Least(WIDTH * l, Len(data))))
<1>1. q \in Nat
  <2>1. Len(data) + WIDTH - 1 \in Nat
    BY WidthAssumption
  <2> QED
    BY <2>1, WidthAssumption
<1>2. ASSUME NEW l \in 1..q PROVE f(l) \in [addr : Nat, bytes : Seq(T)]
  <2>1. l - 1 \in Nat /\ l \in Nat
    BY <1>1
  <2>2. PICK a \in Nat, b \in Nat : a = WIDTH * (l - 1) /\ b = WIDTH * l
    BY <2>1, WidthAssumption
  <2>3. Least(b, Len(data)) \in Nat /\ Least(b, Len(data)) <= Len(data)
    BY <2>2 DEF Least
  <2>4. SubSeq(data, a + 1, Least(b, Len(data))) \in Seq(T)
    BY <2>2, <2>3
  <2>5. f(l) = PrintedLine(a, SubSeq(data, a + 1, Least(b, Len(data))))
    BY <2>2, Zenon
  <2> QED
    BY <2>2, <2>4, <2>5 DEF PrintedLine
<1>3. LinesOf(data) = [l \in 1..q |-> f(l)]
  BY DEF LinesOf
<1> HIDE DEF q, f
<1> QED
  BY <1>1, <1>2, <1>3

\* tlm_recv starts with an empty buffer.
LEMMA InitBuffer == Init => BufferInv
<1> SUFFICES ASSUME Init PROVE BufferInv
  OBVIOUS
<1>1. /\ pc = "options" /\ todo \in OptionLines /\ Port = BASE_SERVER_PORT /\ freed = <<>> /\ received = <<>>
      /\ Obj = [d \in 1..NumDisplays |-> "NULL"] /\ NetBuf = [k \in 1..MAX_PACKET_SIZE |-> Byte(0, k)]
      /\ n = 0 /\ j = 1 /\ dumps = <<>> /\ shown = <<>> /\ LocalBuffer = [header |-> 0, body |-> 0]
      /\ decoded = <<>>
  BY DEF Init
<1>2. MAX_PACKET_SIZE \in Nat /\ MAX_RECEIVED \in Nat /\ NumDisplays \in {1, 2}
  BY ReceiveAssumption, DisplaysShape
<1>3. todo \in Seq(Options) /\ Port \in Ports /\ n \in -1..MAX_PACKET_SIZE /\ j \in 1..NumDisplays
  BY <1>1, <1>2, OptionAssumption DEF BASE_SERVER_PORT, Ports
<1>4. NetBuf \in [1..MAX_PACKET_SIZE -> Bytes]
  BY <1>1, <1>2 DEF Byte, Bytes
<1>5. Obj \in [1..NumDisplays -> Memory] /\ LocalBuffer \in [header : 0..MAX_RECEIVED, body : 0..MAX_RECEIVED]
  BY <1>1, <1>2 DEF Memory
<1>6. \A S : <<>> \in Seq(S)
  OBVIOUS
<1>7. TypeOK
  BY <1>1, <1>3, <1>4, <1>5, <1>6, Zenon DEF TypeOK
<1>8. DumpsTheLastDatagram /\ Len(received) <= MAX_RECEIVED
  BY <1>1, <1>2 DEF DumpsTheLastDatagram
<1> QED
  BY <1>1, <1>7, <1>8 DEF BufferInv

\* Nothing but receiving and displaying has to do with the buffer.
LEMMA OtherBuffer ==
  ASSUME BufferInv,
         TakeOption \/ InstantiateDisplays \/ OpenPort \/ ReceiveFails \/ DestroyDisplay \/ UNCHANGED vars
  PROVE  BufferInv'
<1>1. UNCHANGED <<received, NetBuf, dumps, shown, LocalBuffer, decoded>>
  BY DEF TakeOption, InstantiateDisplays, OpenPort, ReceiveFails, DestroyDisplay, vars
<1>2. DumpsTheLastDatagram' /\ Len(received') <= MAX_RECEIVED
  BY <1>1 DEF BufferInv, DumpsTheLastDatagram
<1>3. pc' = "display" => AtHand'
  <2>1. pc' = "display" => pc = "display" /\ n' = n
    BY DEF TakeOption, InstantiateDisplays, OpenPort, ReceiveFails, DestroyDisplay, vars
  <2> QED
    BY <1>1, <2>1 DEF BufferInv, AtHand, Kept
<1>4. /\ TypeOK /\ NumDisplays \in {1, 2} /\ MAX_PACKET_SIZE \in Nat
  BY DisplaysShape, ReceiveAssumption DEF BufferInv
<1>5. /\ pc' \in {"options", "instantiate", "socket", "receive", "display", "destroy", "returned", "exited"}
      /\ n' \in -1..MAX_PACKET_SIZE /\ j' \in 1..NumDisplays
  <2>1. n' \in {n, -1} /\ j' \in {1, j, j + 1} /\ (j' = j + 1 => j # NumDisplays \/ j' = j)
    BY <1>4 DEF TakeOption, InstantiateDisplays, OpenPort, ReceiveFails, DestroyDisplay, vars
  <2>2. n \in -1..MAX_PACKET_SIZE /\ j \in 1..NumDisplays
    BY <1>4 DEF TypeOK
  <2>3. pc' \in {pc, "instantiate", "socket", "receive", "exited", "destroy", "returned"}
    BY DEF TakeOption, InstantiateDisplays, OpenPort, ReceiveFails, DestroyDisplay, vars
  <2> QED
    BY <1>4, <2>1, <2>2, <2>3 DEF TypeOK
<1>6. todo' \in Seq(Options) /\ Port' \in Ports
  <2>1. todo \in Seq(Options) /\ Port \in Ports
    BY <1>4 DEF TypeOK
  <2>2. CASE TakeOption /\ todo # <<>>
    <3>1. Head(todo) \in Options /\ Tail(todo) \in Seq(Options)
      BY <2>1, <2>2
    <3>2. Head(todo).n \in Int
      BY <3>1 DEF Options
    <3>3. /\ Port' = UnsignedShort(IF Head(todo).opt = "cpu" THEN BASE_SERVER_PORT + Head(todo).n - 1
                                   ELSE Head(todo).n)
          /\ todo' = Tail(todo)
      BY <2>2 DEF TakeOption
    <3>4. \A k \in Int : UnsignedShort(k) \in Ports
      BY DEF UnsignedShort, Ports
    <3>5. (IF Head(todo).opt = "cpu" THEN BASE_SERVER_PORT + Head(todo).n - 1 ELSE Head(todo).n) \in Int
      BY <3>2 DEF BASE_SERVER_PORT
    <3> QED
      BY <3>1, <3>3, <3>4, <3>5
  <2>3. CASE ~(TakeOption /\ todo # <<>>)
    <3>1. UNCHANGED <<todo, Port>>
      BY <2>3 DEF TakeOption, InstantiateDisplays, OpenPort, ReceiveFails, DestroyDisplay, vars
    <3> QED
      BY <2>1, <3>1
  <2> QED
    BY <2>2, <2>3
<1>7. Obj' \in [1..NumDisplays -> Memory] /\ freed' \in Seq(Memory)
  <2>1. Obj \in [1..NumDisplays -> Memory] /\ freed \in Seq(Memory) /\ j \in 1..NumDisplays
    BY <1>4 DEF TypeOK
  <2>2. CASE InstantiateDisplays
    BY <2>1, <2>2 DEF InstantiateDisplays, Memory
  <2>3. CASE DestroyDisplay
    <3>1. Obj[j] \in Memory /\ "NULL" \in Memory
      BY <2>1 DEF Memory
    <3>2. freed' = Append(freed, Obj[j]) /\ Obj' = [Obj EXCEPT ![j] = "NULL"]
      BY <2>3 DEF DestroyDisplay
    <3> QED
      BY <2>1, <3>1, <3>2
  <2>4. CASE TakeOption \/ OpenPort \/ ReceiveFails \/ UNCHANGED vars
    <3>1. UNCHANGED <<Obj, freed>>
      BY <2>4 DEF TakeOption, OpenPort, ReceiveFails, vars
    <3> QED
      BY <2>1, <3>1
  <2> QED
    BY <2>2, <2>3, <2>4
<1>8. TypeOK'
  BY <1>1, <1>4, <1>5, <1>6, <1>7, Zenon DEF TypeOK
<1> QED
  BY <1>2, <1>3, <1>8 DEF BufferInv

\* A datagram that arrives takes the front of the buffer, and leaves the rest.
LEMMA ReceiveBuffer ==
  ASSUME BufferInv, Receive
  PROVE  BufferInv'
<1>1. PICK size \in Sizes : received' = Append(received, size) /\ n' = Least(size, MAX_PACKET_SIZE)
  BY DEF Receive
<1>2. /\ NetBuf' = [k \in 1..MAX_PACKET_SIZE |-> IF k <= n' THEN Byte(Len(received'), k) ELSE NetBuf[k]]
      /\ Len(received) < MAX_RECEIVED /\ pc' = "display" /\ j' = 1 /\ dumps' = <<>>
      /\ UNCHANGED <<todo, Port, Obj, freed, shown, LocalBuffer, decoded>>
  BY DEF Receive
<1>3. /\ TypeOK /\ MAX_PACKET_SIZE \in Nat /\ MAX_RECEIVED \in Nat /\ NumDisplays \in {1, 2} /\ size \in Nat
  BY <1>1, DisplaysShape, ReceiveAssumption DEF BufferInv
<1>4. /\ received \in Seq(Sizes) /\ NetBuf \in [1..MAX_PACKET_SIZE -> Bytes]
  BY <1>3 DEF TypeOK
<1>5. /\ received' \in Seq(Sizes) /\ Len(received') = Len(received) + 1 /\ received' # <<>>
      /\ received'[Len(received')] = size
  BY <1>1, <1>4
<1>6. n' \in 0..MAX_PACKET_SIZE /\ n' = Kept'
  BY <1>1, <1>3, <1>5 DEF Least, Kept
<1>7. Len(received') \in 0..MAX_RECEIVED
  BY <1>2, <1>3, <1>4, <1>5
<1>8. ASSUME NEW k \in 1..MAX_PACKET_SIZE
      PROVE  NetBuf'[k] \in Bytes /\ (k <= n' => NetBuf'[k] = Byte(Len(received'), k))
  <2>1. Byte(Len(received'), k) \in Bytes
    BY <1>7 DEF Byte, Bytes
  <2> QED
    BY <1>2, <1>4, <2>1
<1>9. NetBuf' \in [1..MAX_PACKET_SIZE -> Bytes]
  <2>1. NetBuf' = [k \in 1..MAX_PACKET_SIZE |-> NetBuf'[k]]
    BY <1>2, Zenon
  <2> QED
    BY <1>8, <2>1, Zenon
<1>10. AtHand'
  <2>1. \A b \in 1..n' : b \in 1..MAX_PACKET_SIZE /\ b <= n'
    BY <1>3, <1>6
  <2> QED
    BY <1>5, <1>6, <1>8, <2>1 DEF AtHand
<1>11. TypeOK'
  <2>1. n' \in -1..MAX_PACKET_SIZE /\ j' \in 1..NumDisplays
    BY <1>2, <1>3, <1>6
  <2>2. dumps' \in Seq([by : Range(DISPLAYS), lines : Seq([addr : Nat, bytes : Seq(Bytes)])])
    BY <1>2
  <2> QED
    BY <1>2, <1>3, <1>5, <1>9, <2>1, <2>2, Zenon DEF TypeOK
<1>12. DumpsTheLastDatagram'
  BY <1>2 DEF DumpsTheLastDatagram
<1> QED
  BY <1>7, <1>10, <1>11, <1>12 DEF BufferInv

\* What is dumped is the front of the buffer.
LEMMA DumpAtHand ==
  ASSUME BufferInv, pc = "display"
  PROVE  Hexdump(DataOf(n)) = LinesOf(LastDatagram) /\ LinesOf(LastDatagram) \in Seq(Lines)
<1>1. /\ NetBuf \in [1..MAX_PACKET_SIZE -> Bytes] /\ n \in 0..MAX_PACKET_SIZE /\ n = Kept
      /\ \A b \in 1..n : NetBuf[b] = Byte(Len(received), b)
      /\ MAX_PACKET_SIZE \in Nat
  BY ReceiveAssumption DEF BufferInv, TypeOK, AtHand
<1>2. NetBuf \in Seq(Bytes) /\ Len(NetBuf) = MAX_PACKET_SIZE
  BY <1>1
<1>3. /\ DataOf(n) \in Seq(Bytes) /\ Len(DataOf(n)) = n /\ \A b \in 1..n : DataOf(n)[b] = NetBuf[b]
  BY <1>1, <1>2 DEF DataOf
<1>4. PICK d \in Seq(Bytes) : d = DataOf(n)
  BY <1>3
<1>5. d = [b \in 1..n |-> d[b]]
  BY <1>3, <1>4
<1>6. d = [b \in 1..n |-> Byte(Len(received), b)]
  BY <1>1, <1>3, <1>4, <1>5, Zenon
<1>7. d = LastDatagram
  BY <1>1, <1>6 DEF LastDatagram
<1>8. Hexdump(d) = LinesOf(d) /\ LinesOf(d) \in Seq(Lines)
  BY NulAssumption, HexdumpIs, LinesType DEF Lines
<1> QED
  BY <1>4, <1>7, <1>8

\* A decoder is asked: it dumps the datagram at hand, whatever it makes of it.
LEMMA DisplayBuffer ==
  ASSUME BufferInv, DisplayObject
  PROVE  BufferInv'
<1>1. PICK answer \in BOOLEAN :
        /\ dumps' = Append(dumps, [by |-> DISPLAYS[j], lines |-> Hexdump(DataOf(n))])
        /\ IF DISPLAYS[j] = "EDS" THEN EdsDisplayObject(answer) ELSE PassThruDisplayObject(answer)
        /\ shown' = IF answer THEN Append(shown, DISPLAYS[j]) ELSE shown
        /\ IF LoopIsOver(answer) THEN pc' = "receive" /\ j' = 1 ELSE pc' = pc /\ j' = j + 1
  BY DEF DisplayObject
<1>2. pc = "display" /\ UNCHANGED <<todo, Port, Obj, freed, received, NetBuf, n>>
  BY DEF DisplayObject
<1>3. /\ TypeOK /\ AtHand /\ Len(received) <= MAX_RECEIVED /\ DumpsTheLastDatagram
      /\ NumDisplays \in {1, 2} /\ MAX_RECEIVED \in Nat
  BY <1>2, DisplaysShape, ReceiveAssumption DEF BufferInv
<1>4. j \in 1..NumDisplays /\ received \in Seq(Sizes) /\ Len(received) \in 1..MAX_RECEIVED
  <2>1. received \in Seq(Sizes) /\ received # <<>>
    BY <1>3 DEF TypeOK, AtHand
  <2> QED
    BY <1>3, <2>1 DEF TypeOK
<1>5. DISPLAYS[j] \in Range(DISPLAYS)
  BY <1>4, DisplaysShape DEF Range, NumDisplays
<1>6. PICK e \in DumpRecords : /\ dumps' = Append(dumps, e)
                               /\ e.lines = LinesOf(LastDatagram)
  <2>1. PICK x \in Range(DISPLAYS), y \in Seq(Lines) :
          x = DISPLAYS[j] /\ y = Hexdump(DataOf(n)) /\ y = LinesOf(LastDatagram)
    BY <1>2, <1>5, DumpAtHand
  <2>2. dumps' = Append(dumps, [by |-> x, lines |-> y])
    BY <1>1, <2>1, Zenon
  <2>3. [by |-> x, lines |-> y] \in DumpRecords /\ [by |-> x, lines |-> y].lines = LinesOf(LastDatagram)
    BY <2>1 DEF DumpRecords
  <2> QED
    BY <2>2, <2>3
<1>7. dumps \in Seq(DumpRecords)
  BY <1>3 DEF TypeOK, DumpRecords, Lines
<1>8. dumps' \in Seq(DumpRecords) /\ DumpsTheLastDatagram'
  <2>1. /\ dumps' \in Seq(DumpRecords) /\ DOMAIN dumps' = 1..(Len(dumps) + 1) /\ DOMAIN dumps = 1..Len(dumps)
        /\ dumps'[Len(dumps) + 1] = e /\ Len(dumps) \in Nat
        /\ \A k \in 1..Len(dumps) : dumps'[k] = dumps[k]
    BY <1>6, <1>7
  <2>2. \A k \in 1..(Len(dumps) + 1) : k \in 1..Len(dumps) \/ k = Len(dumps) + 1
    BY <2>1
  <2>3. \A k \in DOMAIN dumps : dumps[k].lines = LinesOf(LastDatagram)
    BY <1>3, Zenon DEF DumpsTheLastDatagram, LastDatagram, Kept
  <2>4. \A k \in DOMAIN dumps' : dumps'[k].lines = LinesOf(LastDatagram)
    BY <1>6, <2>1, <2>2, <2>3
  <2> QED
    BY <1>2, <2>1, <2>4, Zenon DEF DumpsTheLastDatagram, LastDatagram, Kept
<1>9. /\ shown' \in Seq(Range(DISPLAYS))
      /\ LocalBuffer' \in [header : 0..MAX_RECEIVED, body : 0..MAX_RECEIVED]
      /\ decoded' \in Seq([datagram : 1..MAX_RECEIVED, header : 0..MAX_RECEIVED, body : 0..MAX_RECEIVED])
  <2>1. /\ shown \in Seq(Range(DISPLAYS))
        /\ LocalBuffer \in [header : 0..MAX_RECEIVED, body : 0..MAX_RECEIVED]
        /\ decoded \in Seq([datagram : 1..MAX_RECEIVED, header : 0..MAX_RECEIVED, body : 0..MAX_RECEIVED])
    BY <1>3 DEF TypeOK
  <2>2. shown' \in Seq(Range(DISPLAYS))
    BY <1>1, <1>5, <2>1
  <2>3. CASE UNCHANGED <<LocalBuffer, decoded>>
    BY <2>1, <2>2, <2>3
  <2>4. CASE EdsDisplayObject(answer)
    <3>1. PICK exit \in EdsExits :
            /\ LocalBuffer' \in Unpacked(exit)
            /\ decoded' = IF Shown(exit)
                          THEN Append(decoded, [datagram |-> Len(received), header |-> LocalBuffer'.header,
                                                body |-> LocalBuffer'.body])
                          ELSE decoded
      BY <2>4 DEF EdsDisplayObject
    <3>2. LocalBuffer' \in [header : 0..MAX_RECEIVED, body : 0..MAX_RECEIVED]
      <4>1. LocalBuffer.header \in 0..MAX_RECEIVED /\ LocalBuffer.body \in 0..MAX_RECEIVED /\ Len(received) \in 0..MAX_RECEIVED
        BY <1>4, <2>1
      <4>2. Unpacked(exit) \subseteq [header : 0..MAX_RECEIVED, body : 0..MAX_RECEIVED]
        BY <2>1, <3>1, <4>1 DEF Unpacked, EdsExits
      <4> QED
        BY <3>1, <4>2
    <3>3. [datagram |-> Len(received), header |-> LocalBuffer'.header, body |-> LocalBuffer'.body]
             \in [datagram : 1..MAX_RECEIVED, header : 0..MAX_RECEIVED, body : 0..MAX_RECEIVED]
      BY <1>4, <3>2
    <3>4. decoded' \in Seq([datagram : 1..MAX_RECEIVED, header : 0..MAX_RECEIVED, body : 0..MAX_RECEIVED])
      <4>1. PICK D : D = [datagram : 1..MAX_RECEIVED, header : 0..MAX_RECEIVED, body : 0..MAX_RECEIVED]
        OBVIOUS
      <4>2. PICK d \in D : d = [datagram |-> Len(received), header |-> LocalBuffer'.header,
                                body |-> LocalBuffer'.body]
        BY <3>3, <4>1
      <4>3. decoded' = (IF Shown(exit) THEN Append(decoded, d) ELSE decoded) /\ decoded \in Seq(D)
        BY <2>1, <3>1, <4>1, <4>2, Zenon
      <4>4. decoded' \in Seq(D)
        BY <4>3
      <4> QED
        BY <4>1, <4>4, Zenon
    <3> QED
      BY <2>2, <3>2, <3>4
  <2> QED
    BY <1>1, <2>3, <2>4 DEF PassThruDisplayObject
<1>10. /\ pc' \in {"receive", "display"} /\ j' \in 1..NumDisplays
  BY <1>1, <1>2, <1>3, <1>4 DEF LoopIsOver
<1>11. TypeOK'
  <2>1. dumps' \in Seq([by : Range(DISPLAYS), lines : Seq([addr : Nat, bytes : Seq(Bytes)])])
    BY <1>8 DEF DumpRecords, Lines
  <2>2. pc' \in {"options", "instantiate", "socket", "receive", "display", "destroy", "returned", "exited"}
    BY <1>10
  <2> QED
    BY <1>2, <1>3, <1>9, <1>10, <2>1, <2>2, Zenon DEF TypeOK
<1>12. AtHand' /\ Len(received') <= MAX_RECEIVED
  BY <1>2, <1>3 DEF AtHand, Kept
<1> QED
  BY <1>8, <1>11, <1>12 DEF BufferInv

\* The invariant of the buffer.
THEOREM BufferInvariance == Spec => []BufferInv
<1>1. BufferInv /\ [Next]_vars => BufferInv'
  BY ReceiveBuffer, DisplayBuffer, OtherBuffer DEF Next
<1> QED
  BY <1>1, InitBuffer, PTL DEF Spec

\* Every variable keeps its type: the port is 16 bits wide, what was received fits the
\* buffer, every dump is of whole lines.
THEOREM TypesCorrect == Spec => []TypeOK
<1>1. BufferInv => TypeOK
  BY DEF BufferInv
<1> QED
  BY <1>1, BufferInvariance, PTL

\* What is dumped of a datagram is all of it that fits the buffer, in order, and nothing
\* that was there before (main, ConsoleUtils_Hexdump).
THEOREM DumpsAreOfTheLastDatagram == Spec => []DumpsTheLastDatagram
<1>1. BufferInv => DumpsTheLastDatagram
  BY DEF BufferInv
<1> QED
  BY <1>1, BufferInvariance, PTL
=============================================================================
