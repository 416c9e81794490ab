---------------------------- MODULE SendUdpProofs ---------------------------
(***************************************************************************)
(* Proofs about SendUdp, for any number of addresses and any packet size.  *)
(***************************************************************************)
EXTENDS SendUdp, FiniteSetTheorems, TLAPS

\* Of the addresses tried so far none, or the last, took the connection.
NoneConnected == \A k \in 1..Len(attempts) : attempts[k] # "connected"
LastConnected == Len(attempts) > 0 /\ attempts[Len(attempts)] = "connected"

\* What holds at each point of SendUdp.
Assertions ==
    /\ pc \in {"check", "resolve"} =>
         open = {} /\ result = "none" /\ naddrs = 0 /\ attempts = <<>> /\ sent = <<>>
    /\ pc = "socket" =>
         /\ open = {} /\ result = "held" /\ sent = <<>>
         /\ rp > 0 /\ Len(attempts) = rp - 1 /\ NoneConnected
    /\ pc = "connect" =>
         /\ open = {sd} /\ result = "held" /\ sent = <<>>
         /\ rp > 0 /\ Len(attempts) = rp - 1 /\ NoneConnected
    /\ pc = "none_left" =>
         /\ open = {} /\ sent = <<>>
         /\ naddrs > 0 /\ Len(attempts) = naddrs /\ NoneConnected
    /\ pc = "name" =>
         open = {sd} /\ result = "held" /\ rp > 0 /\ sent = <<>> /\ LastConnected
    /\ pc = "send" => open = {sd} /\ result = "freed" /\ sent = <<>> /\ LastConnected
    /\ pc = "close" =>
         /\ open = {sd} /\ result = "freed" /\ LastConnected
         /\ sent = <<>> \/ \E size \in 0..PACKET_SIZE : sent = <<[to |-> sd, size |-> size]>>
    /\ pc = "returned" => NothingLeaked /\ CodeTellsTheTruth

\* The inductive invariant.
IInv == TypeOK /\ Assertions

\* A descriptor the kernel hands out when none is open is a number.
LEMMA FreshShape ==
  ASSUME open = {}
  PROVE  FreshDescriptor \in Nat
<1>1. Cardinality(open) = 0
  BY FS_EmptySet
<1> QED
  BY <1>1 DEF FreshDescriptor

\* SendUdp starts with nothing held.
LEMMA InitIInv == Init => IInv
<1> SUFFICES ASSUME Init PROVE IInv
  OBVIOUS
<1>1. attempts \in Seq(Outcomes) /\ sent \in Seq([to : Nat, size : 0..PACKET_SIZE])
  BY DEF Init
<1>2. TypeOK
  BY <1>1, AddressAssumption DEF Init, TypeOK
<1> QED
  BY <1>2 DEF Init, IInv, Assertions

\* The early returns have done nothing yet.
LEMMA StartStep ==
  ASSUME IInv, CheckArguments \/ Resolve
  PROVE  IInv'
<1>1. CASE CheckArguments
  BY <1>1 DEF CheckArguments, Return, IInv, TypeOK, Assertions, NothingLeaked, CodeTellsTheTruth
<1>2. CASE Resolve
  <2>1. CASE Return(-3) /\ UNCHANGED <<result, naddrs, rp>>
    BY <1>2, <2>1 DEF Resolve, Return, IInv, TypeOK, Assertions, NothingLeaked, CodeTellsTheTruth
  <2>2. CASE /\ result' = "held" /\ naddrs' \in 1..MAX_ADDRESSES /\ rp' = 1
             /\ pc' = "socket" /\ rc' = rc
    BY <1>2, <2>2, AddressAssumption DEF Resolve, IInv, TypeOK, Assertions, NoneConnected
  <2> QED
    BY <1>2, <2>1, <2>2 DEF Resolve
<1> QED
  BY <1>1, <1>2

\* Every address before the one at hand was attempted, so one more attempt is recorded.
LEMMA OneMoreAttempt ==
  ASSUME attempts \in Seq(Outcomes), rp \in Nat, Len(attempts) = rp - 1, NEW o, Attempted(o)
  PROVE  attempts' = Append(attempts, o)
<1>1. SubSeq(attempts, 1, Len(attempts)) = attempts
  OBVIOUS
<1> QED
  BY <1>1 DEF Attempted

\* An address that failed is one more attempt that did not connect.
LEMMA FailedAttempt ==
  ASSUME attempts \in Seq(Outcomes), NoneConnected,
         rp \in Nat, Len(attempts) = rp - 1,
         NEW o \in {"unopened", "unconnected"}, Attempted(o)
  PROVE  /\ attempts' \in Seq(Outcomes)
         /\ Len(attempts') = Len(attempts) + 1
         /\ NoneConnected'
<1>1. o \in Outcomes /\ o # "connected"
  BY DEF Outcomes
<1>2. /\ attempts' \in Seq(Outcomes)
      /\ Len(attempts') = Len(attempts) + 1
      /\ \A k \in 1..Len(attempts') : attempts'[k] = IF k <= Len(attempts) THEN attempts[k] ELSE o
  BY <1>1, OneMoreAttempt
<1>3. \A k \in 1..Len(attempts') : attempts'[k] # "connected"
  BY <1>1, <1>2 DEF NoneConnected
<1> QED
  BY <1>2, <1>3 DEF NoneConnected

\* Where the loop over the addresses goes next.
LEMMA NextAddressShape ==
  ASSUME naddrs \in Nat, rp \in 1..naddrs, NextAddress
  PROVE  \/ pc' = "socket" /\ rp' = rp + 1 /\ rp' \in 1..naddrs
         \/ pc' = "none_left" /\ rp' = 0 /\ rp = naddrs
BY DEF NextAddress

\* Opening a socket: one more attempt that failed, or one descriptor.
LEMMA SocketStep ==
  ASSUME IInv, OpenSocket
  PROVE  IInv'
<1> USE DEF IInv
<1>1. /\ open = {} /\ result = "held" /\ sent = <<>> /\ rp \in 1..naddrs /\ naddrs \in Nat
      /\ Len(attempts) = rp - 1 /\ NoneConnected /\ attempts \in Seq(Outcomes)
      /\ UNCHANGED <<result, naddrs, sent, rc>>
  BY AddressAssumption DEF OpenSocket, TypeOK, Assertions
<1>2. CASE sd' = -1 /\ Attempted("unopened") /\ NextAddress /\ open' = open
  <2>1. /\ attempts' \in Seq(Outcomes)
        /\ Len(attempts') = rp
        /\ NoneConnected'
    BY <1>1, <1>2, FailedAttempt
  <2>2. \/ pc' = "socket" /\ rp' = rp + 1 /\ rp' \in 1..naddrs
        \/ pc' = "none_left" /\ rp' = 0 /\ rp = naddrs
    BY <1>1, <1>2, NextAddressShape
  <2>3. TypeOK'
    BY <1>1, <1>2, <2>1, <2>2 DEF TypeOK
  <2> QED
    BY <1>1, <1>2, <2>1, <2>2, <2>3 DEF Assertions
<1>3. CASE /\ sd' = FreshDescriptor /\ open' = open \cup {FreshDescriptor} /\ pc' = "connect"
           /\ UNCHANGED <<rp, attempts>>
  <2>1. sd' \in Nat /\ open' = {sd'}
    BY <1>1, <1>3, FreshShape
  <2>2. TypeOK'
    BY <1>1, <1>3, <2>1 DEF TypeOK
  <2> QED
    BY <1>1, <1>3, <2>1, <2>2 DEF Assertions, NoneConnected
<1> QED
  BY <1>2, <1>3 DEF OpenSocket

\* Connecting: the descriptor is kept, or closed and the attempt failed.
LEMMA ConnectStep ==
  ASSUME IInv, Connect
  PROVE  IInv'
<1> USE DEF IInv
<1>1. /\ open = {sd} /\ result = "held" /\ sent = <<>> /\ rp \in 1..naddrs /\ naddrs \in Nat
      /\ Len(attempts) = rp - 1 /\ NoneConnected /\ attempts \in Seq(Outcomes)
      /\ UNCHANGED <<result, naddrs, sd, sent, rc>>
  BY AddressAssumption DEF Connect, TypeOK, Assertions
<1>2. CASE Attempted("connected") /\ pc' = "name" /\ UNCHANGED <<rp, open>>
  <2>1. attempts' \in Seq(Outcomes) /\ LastConnected'
    BY <1>1, <1>2, OneMoreAttempt DEF Outcomes, LastConnected
  <2>2. TypeOK'
    BY <1>1, <1>2, <2>1 DEF TypeOK
  <2> QED
    BY <1>1, <1>2, <2>1, <2>2 DEF Assertions
<1>3. CASE Attempted("unconnected") /\ CloseSocket /\ NextAddress
  <2>1. /\ attempts' \in Seq(Outcomes)
        /\ Len(attempts') = rp
        /\ NoneConnected'
    BY <1>1, <1>3, FailedAttempt
  <2>2. \/ pc' = "socket" /\ rp' = rp + 1 /\ rp' \in 1..naddrs
        \/ pc' = "none_left" /\ rp' = 0 /\ rp = naddrs
    BY <1>1, <1>3, NextAddressShape
  <2>3. open' = {}
    BY <1>1, <1>3 DEF CloseSocket
  <2>4. TypeOK'
    BY <1>1, <2>1, <2>2, <2>3 DEF TypeOK
  <2> QED
    BY <1>1, <2>1, <2>2, <2>3, <2>4 DEF Assertions
<1> QED
  BY <1>2, <1>3 DEF Connect

\* All addresses failed.
LEMMA GiveUpStep ==
  ASSUME IInv, NoneLeft
  PROVE  IInv'
<1>1. TypeOK'
  BY DEF IInv, NoneLeft, Return, TypeOK
<1>2. NothingLeaked' /\ CodeTellsTheTruth'
  BY DEF IInv, NoneLeft, Return, TypeOK, Assertions, NoneConnected, NothingLeaked, CodeTellsTheTruth
<1> QED
  BY <1>1, <1>2 DEF IInv, NoneLeft, Return, Assertions

\* The list is freed before the packet is sent.
LEMMA SendStep ==
  ASSUME IInv, NameAndFree \/ Send
  PROVE  IInv'
<1>1. CASE NameAndFree
  BY <1>1 DEF NameAndFree, IInv, TypeOK, Assertions, LastConnected
<1>2. CASE Send
  <2> USE DEF IInv
  <2>1. sent = <<>> /\ open = {sd} /\ sd \in Nat /\ result = "freed" /\ LastConnected
    BY <1>2 DEF Send, TypeOK, Assertions
  <2>2. sent' = <<>> \/ \E size \in 0..PACKET_SIZE : sent' = <<[to |-> sd, size |-> size]>>
    BY <1>2, <2>1 DEF Send
  <2>3. sent' \in Seq([to : Nat, size : 0..PACKET_SIZE])
    <3> DEFINE T == [to : Nat, size : 0..PACKET_SIZE]
    <3>1. \A size \in 0..PACKET_SIZE : [to |-> sd, size |-> size] \in T
      BY <2>1
    <3>2. \A r \in T : <<r>> \in Seq(T)
      OBVIOUS
    <3>3. <<>> \in Seq(T)
      OBVIOUS
    <3> HIDE DEF T
    <3>4. sent' \in Seq(T)
      BY <2>2, <3>1, <3>2, <3>3
    <3> QED
      BY <3>4 DEF T
  <2>4. TypeOK'
    BY <1>2, <2>3 DEF Send, TypeOK
  <2> QED
    BY <1>2, <2>1, <2>2, <2>4 DEF Send, Assertions, LastConnected
<1> QED
  BY <1>1, <1>2

\* What the code returned says of the send and of the attempts.
LEMMA CloseStep ==
  ASSUME IInv, Close
  PROVE  IInv'
<1> USE DEF IInv
<1>1. /\ open = {sd} /\ sd \in Nat /\ result = "freed" /\ LastConnected
      /\ sent = <<>> \/ \E size \in 0..PACKET_SIZE : sent = <<[to |-> sd, size |-> size]>>
      /\ UNCHANGED <<result, naddrs, rp, sd, attempts, sent>>
      /\ attempts \in Seq(Outcomes)
  BY DEF Close, TypeOK, Assertions
<1>2. open' = {} /\ pc' = "returned" /\ rc' = IF WholePacketTaken THEN 0 ELSE -6
  BY <1>1 DEF Close, CloseSocket, Return
<1>3. WholePacketTaken <=> sent = <<[to |-> sd, size |-> PACKET_SIZE]>>
  <2>1. CASE sent = <<>>
    BY <2>1 DEF WholePacketTaken
  <2>2. ASSUME NEW size \in 0..PACKET_SIZE, sent = <<[to |-> sd, size |-> size]>>
        PROVE  WholePacketTaken <=> sent = <<[to |-> sd, size |-> PACKET_SIZE]>>
    <3>1. Len(sent) = 1 /\ sent[1].size = size /\ sent # <<>>
      BY <2>2
    <3>2. WholePacketTaken <=> size = PACKET_SIZE
      BY <3>1 DEF WholePacketTaken
    <3> QED
      BY <2>2, <3>1, <3>2
  <2> QED
    BY <1>1, <2>1, <2>2
<1>4. TypeOK'
  BY <1>1, <1>2 DEF TypeOK
<1>5. NothingLeaked'
  BY <1>1, <1>2 DEF NothingLeaked
<1>6. CodeTellsTheTruth'
  <2>1. Len(attempts) \in 1..Len(attempts) /\ attempts[Len(attempts)] = "connected"
    BY <1>1 DEF LastConnected
  <2> QED
    BY <1>1, <1>2, <1>3, <2>1 DEF CodeTellsTheTruth
<1> QED
  BY <1>2, <1>4, <1>5, <1>6 DEF Assertions

\* Every step keeps the invariant.
LEMMA NextStep ==
  ASSUME IInv, [Next]_vars
  PROVE  IInv'
<1>1. CASE UNCHANGED vars
  BY <1>1 DEF vars, IInv, TypeOK, Assertions, NoneConnected, LastConnected, NothingLeaked,
              CodeTellsTheTruth
<1> QED
  BY <1>1, StartStep, SocketStep, ConnectStep, GiveUpStep, SendStep, CloseStep DEF Next

\* The inductive invariant holds throughout.
THEOREM Invariance == Spec => []IInv
<1>1. Init => IInv
  BY InitIInv
<1>2. IInv /\ [Next]_vars => IInv'
  BY NextStep
<1> QED
  BY <1>1, <1>2, PTL DEF Spec

\* SendUdp leaks neither a descriptor nor the address list.
THEOREM NoLeak == Spec => []NothingLeaked
<1>1. IInv => NothingLeaked
  BY DEF IInv, Assertions, NothingLeaked
<1> QED
  BY <1>1, Invariance, PTL

\* No address is looked at before the list is there or after it was freed.
THEOREM AddressesStayHeld == Spec => []AddressesHeld
<1>1. IInv => AddressesHeld
  BY DEF IInv, TypeOK, Assertions, AddressesHeld
<1> QED
  BY <1>1, Invariance, PTL

\* The code returned tells whether the packet went out, and why not.
THEOREM CodeIsTrue == Spec => []CodeTellsTheTruth
<1>1. IInv => CodeTellsTheTruth
  BY DEF IInv, Assertions, CodeTellsTheTruth
<1> QED
  BY <1>1, Invariance, PTL

\* Every variable has its type, for any number of addresses and any size of packet.
THEOREM TypeCorrect == Spec => []TypeOK
<1>1. IInv => TypeOK
  BY DEF IInv
<1> QED
  BY <1>1, Invariance, PTL

\* Never are two descriptors open, however many addresses refuse.
THEOREM OneDescriptor == Spec => []OneSocket
<1>1. IInv => OneSocket
  <2>1. IInv => open = {} \/ open = {sd}
    BY DEF IInv, TypeOK, Assertions, NothingLeaked
  <2> QED
    BY <2>1 DEF OneSocket
<1> QED
  BY <1>1, Invariance, PTL
=============================================================================
