------------------------------ MODULE SendUdp -------------------------------
(***************************************************************************)
(* SendUdp (send_udp.c): resolve the host, try its addresses until one     *)
(* takes a connected socket, send the packet as one datagram.  The kernel  *)
(* and the resolver may fail at every call.                                *)
(***************************************************************************)
EXTENDS Integers, Sequences, FiniteSets

CONSTANTS
    MAX_ADDRESSES,  \* bound on the addresses getaddrinfo finds
    PACKET_SIZE     \* packetSize

ASSUME AddressAssumption == MAX_ADDRESSES \in Nat \ {0}
ASSUME PacketAssumption == PACKET_SIZE \in Nat \ {0}

VARIABLES
    pc,
    result,    \* the address list: "none", "held" or "freed"
    naddrs,    \* its length
    rp,        \* the address at hand, 0 for NULL
    sd,        \* the descriptor last obtained, -1 if socket failed
    open,      \* the descriptors that are open
    attempts,  \* what became of each address tried so far
    sent,      \* the sends the kernel took: descriptor and size
    rc         \* what SendUdp returns, 1 before it does

vars == <<pc, result, naddrs, rp, sd, open, attempts, sent, rc>>

Outcomes == {"unopened", "unconnected", "connected"}

TypeOK ==
    /\ pc \in {"check", "resolve", "socket", "connect", "none_left", "name", "send", "close", "returned"}
    /\ result \in {"none", "held", "freed"}
    /\ naddrs \in 0..MAX_ADDRESSES
    /\ rp \in 0..naddrs
    /\ sd \in Nat \cup {-1}
    /\ open \subseteq Nat
    /\ attempts \in Seq(Outcomes)
    /\ sent \in Seq([to : Nat, size : 0..PACKET_SIZE])
    /\ rc \in {1, 0, -1, -2, -3, -4, -6}

Init ==
    /\ pc = "check"
    /\ result = "none" /\ naddrs = 0 /\ rp = 0
    /\ sd = -1 /\ open = {}
    /\ attempts = <<>>
    /\ sent = <<>>
    /\ rc = 1

Return(code) == pc' = "returned" /\ rc' = code

\* No host name, or a port of -1.
CheckArguments ==
    /\ pc = "check"
    /\ \/ Return(-1)
       \/ Return(-2)
       \/ pc' = "resolve" /\ rc' = rc
    /\ UNCHANGED <<result, naddrs, rp, sd, open, attempts, sent>>

Resolve ==
    /\ pc = "resolve"
    /\ \/ /\ Return(-3)
          /\ UNCHANGED <<result, naddrs, rp>>
       \/ /\ result' = "held"
          /\ naddrs' \in 1..MAX_ADDRESSES
          /\ rp' = 1
          /\ pc' = "socket" /\ rc' = rc
    /\ UNCHANGED <<sd, open, attempts, sent>>

\* "rp = rp->ai_next", then the loop's condition.
NextAddressPastEnd ==
    /\ rp' = rp + 1
    /\ pc' = IF rp <= naddrs THEN "socket" ELSE "none_left"
NextAddressNoEnd ==
    /\ rp' = IF rp < naddrs THEN rp + 1 ELSE 0
    /\ pc' = IF rp # 0 THEN "socket" ELSE "none_left"
NextAddressForgotten ==
    /\ rp' = rp
    /\ pc' = IF rp # 0 THEN "socket" ELSE "none_left"
NextAddress ==
    /\ rp' = IF rp < naddrs THEN rp + 1 ELSE 0
    /\ pc' = IF rp < naddrs THEN "socket" ELSE "none_left"

\* The kernel hands out the lowest free descriptor (standard input and the like
\* are not counted).
FreshDescriptor == CHOOSE d \in 0..Cardinality(open) :
                     d \notin open /\ \A e \in 0..(d - 1) : e \in open

\* What became of the address at hand, behind those before it in the list.
Attempted(outcome) == attempts' = Append(SubSeq(attempts, 1, rp - 1), outcome)

OpenSocket ==
    /\ pc = "socket"
    /\ \/ /\ sd' = -1
          /\ Attempted("unopened")
          /\ NextAddress
          /\ open' = open
       \/ /\ sd' = FreshDescriptor
          /\ open' = open \cup {FreshDescriptor}
          /\ pc' = "connect"
          /\ UNCHANGED <<rp, attempts>>
    /\ UNCHANGED <<result, naddrs, sent, rc>>

\* A socket that does not connect is closed before the next address is tried.
CloseForgotten == open' = open
CloseSocket == open' = open \ {sd}

Connect ==
    /\ pc = "connect"
    /\ \/ /\ Attempted("connected")
          /\ pc' = "name"
          /\ UNCHANGED <<rp, open>>
       \/ /\ Attempted("unconnected")
          /\ CloseSocket
          /\ NextAddress
    /\ UNCHANGED <<result, naddrs, sd, sent, rc>>

NoneLeft ==
    /\ pc = "none_left"
    /\ result' = "freed"
    /\ Return(-4)
    /\ UNCHANGED <<naddrs, rp, sd, open, attempts, sent>>

\* getnameinfo and the log line look at the address, then the list is freed.
NameAndFree ==
    /\ pc = "name"
    /\ result' = "freed"
    /\ pc' = "send"
    /\ UNCHANGED <<naddrs, rp, sd, open, attempts, sent, rc>>

\* send may fail, or take less than the whole packet.
Send ==
    /\ pc = "send"
    /\ \/ \E size \in 0..PACKET_SIZE : sent' = Append(sent, [to |-> sd, size |-> size])
       \/ sent' = sent
    /\ pc' = "close"
    /\ UNCHANGED <<result, naddrs, rp, sd, open, attempts, rc>>

\* "rc != packetSize" with the rc of send.
SomethingTaken == sent # <<>>
WholePacketTaken == sent # <<>> /\ sent[Len(sent)].size = PACKET_SIZE

Close ==
    /\ pc = "close"
    /\ CloseSocket
    /\ Return(IF WholePacketTaken THEN 0 ELSE -6)
    /\ UNCHANGED <<result, naddrs, rp, sd, attempts, sent>>

Next ==
    \/ CheckArguments \/ Resolve \/ OpenSocket \/ Connect
    \/ NoneLeft \/ NameAndFree \/ Send \/ Close

\* One thread, and every system call returns.
Spec == Init /\ [][Next]_vars /\ WF_vars(Next)

-----------------------------------------------------------------------------
(* Properties.                                                             *)

\* However the calls fail, no descriptor is left open and no address list is
\* left allocated when SendUdp returns.
NothingLeaked == pc = "returned" => open = {} /\ result # "held"

\* The address list is there whenever rp is followed.
AddressesHeld == pc \in {"socket", "connect", "name"} => result = "held" /\ rp # 0

\* The code returned says what happened: 0 exactly when the packet went out
\* whole, once, on the socket that connected; -4 exactly when every address
\* found was tried and none connected.
CodeTellsTheTruth ==
    pc = "returned" =>
      /\ rc = 0 <=> sent = <<[to |-> sd, size |-> PACKET_SIZE]>>
      /\ sent # <<>> => attempts[Len(attempts)] = "connected"
      /\ rc = -4 <=> naddrs > 0 /\ Len(attempts) = naddrs /\ "connected" \notin {attempts[k] : k \in 1..naddrs}

\* At most one descriptor is open at a time, and it is the one at hand.
OneSocket == open \subseteq {sd}

\* SendUdp returns.
Returns == <>(pc = "returned")
=============================================================================
