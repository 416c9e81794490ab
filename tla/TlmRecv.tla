------------------------------- MODULE TlmRecv ------------------------------
(***************************************************************************)
(* tlm_recv (tlm_recv.c): bind a UDP port and show every datagram that     *)
(* arrives with the first decoder ("display") that can make sense of it,   *)
(* until receiving fails.  The decoders are those of passthru_decode.c and *)
(* eds_decode.c; the EDS libraries may fail at every call.                 *)
(***************************************************************************)
EXTENDS Integers, Sequences, FiniteSets, SequencesExt, Hexdump

CONSTANTS
    DISPLAYS,         \* TLMRECV_DISPLAY_API: the names of the decoders, in order
    MAX_PACKET_SIZE,  \* TLMRECV_MAX_PACKET_SIZE
    OptionLines,      \* the command lines: sequences of -c and -p options
    Sizes,            \* the sizes of the datagrams that may arrive
    MAX_RECEIVED      \* bound on the number of datagrams

Options == [opt : {"cpu", "port"}, n : Int]

ASSUME DisplayAssumption ==
    DISPLAYS \in {<<"PassThrough">>, <<"EDS", "PassThrough">>}
ASSUME ReceiveAssumption ==
    MAX_PACKET_SIZE \in Nat \ {0} /\ Sizes \subseteq Nat /\ MAX_RECEIVED \in Nat
ASSUME OptionAssumption == OptionLines \subseteq Seq(Options)

BASE_SERVER_PORT == 2234

VARIABLES
    pc,
    todo,      \* the options getopt_long has not returned yet
    Port,
    Obj,       \* what the Obj pointer of each decoder points to
    freed,     \* what free was called with
    received,  \* the sizes of the datagrams received, in order
    NetBuf,    \* the bytes of the buffer, see Byte
    n,         \* what recvfrom returned
    j,         \* the decoder at hand
    dumps,     \* the lines every decoder dumped of the last datagram, in order
    shown,     \* for every datagram, the decoder that accepted it
    LocalBuffer, \* of the EDS decoder: the datagram its header and its body came
               \* with, 0 for none
    decoded    \* what the EDS decoder displayed of which datagram, in order

vars == <<pc, todo, Port, Obj, freed, received, NetBuf, n, j, dumps, shown, LocalBuffer, decoded>>

\* A byte is known by its datagram, 0 for none, and its place in it.
Byte(datagram, at) == [datagram |-> datagram, at |-> at]
Bytes == [datagram : 0..MAX_RECEIVED, at : 1..MAX_PACKET_SIZE]

\* A byte is shown as two digits, or as a dot or a printable character.
ASSUME NulAssumption == NUL \notin Bytes

NumDisplays == Len(DISPLAYS)
Memory == {"NULL", "heap", "static"}
Ports == 0..65535

TypeOK ==
    /\ pc \in {"options", "instantiate", "socket", "receive", "display", "destroy", "returned", "exited"}
    /\ todo \in Seq(Options)
    /\ Port \in Ports
    /\ Obj \in [1..NumDisplays -> Memory]
    /\ freed \in Seq(Memory)
    /\ received \in Seq(Sizes)
    /\ NetBuf \in [1..MAX_PACKET_SIZE -> Bytes]
    /\ n \in -1..MAX_PACKET_SIZE
    /\ j \in 1..NumDisplays
    /\ dumps \in Seq([by : Range(DISPLAYS), lines : Seq([addr : Nat, bytes : Seq(Bytes)])])
    /\ shown \in Seq(Range(DISPLAYS))
    /\ LocalBuffer \in [header : 0..MAX_RECEIVED, body : 0..MAX_RECEIVED]
    /\ decoded \in Seq([datagram : 1..MAX_RECEIVED, header : 0..MAX_RECEIVED, body : 0..MAX_RECEIVED])

Init ==
    /\ pc = "options"
    /\ todo \in OptionLines
    /\ Port = BASE_SERVER_PORT
    /\ Obj = [d \in 1..NumDisplays |-> "NULL"]
    /\ freed = <<>>
    /\ received = <<>>
    /\ NetBuf = [k \in 1..MAX_PACKET_SIZE |-> Byte(0, k)]
    /\ n = 0 /\ j = 1
    /\ dumps = <<>> /\ shown = <<>>
    /\ LocalBuffer = [header |-> 0, body |-> 0]
    /\ decoded = <<>>

-----------------------------------------------------------------------------
(* Start.                                                                  *)

\* Port is an unsigned short.
NotCut(k) == k
UnsignedShort(k) == k % 65536

TakeOption ==
    /\ pc = "options"
    /\ \/ /\ todo # <<>>
          /\ Port' = UnsignedShort(IF Head(todo).opt = "cpu" THEN BASE_SERVER_PORT + Head(todo).n - 1
                                   ELSE Head(todo).n)
          /\ todo' = Tail(todo)
          /\ pc' = pc
       \/ /\ todo = <<>>
          /\ pc' = "instantiate"
          /\ UNCHANGED <<todo, Port>>
    /\ UNCHANGED <<Obj, freed, received, NetBuf, n, j, dumps, shown, LocalBuffer, decoded>>

\* The EDS decoder is allocated; the pass-through decoder needs no object and
\* gives the address of a static variable.
InstantiateDisplays ==
    /\ pc = "instantiate"
    /\ Obj' = [d \in 1..NumDisplays |-> IF DISPLAYS[d] = "EDS" THEN "heap" ELSE "static"]
    /\ pc' = "socket"
    /\ UNCHANGED <<todo, Port, freed, received, NetBuf, n, j, dumps, shown, LocalBuffer, decoded>>

\* socket and bind.
OpenPort ==
    /\ pc = "socket"
    /\ pc' \in {"receive", "exited"}
    /\ UNCHANGED <<todo, Port, Obj, freed, received, NetBuf, n, j, dumps, shown, LocalBuffer, decoded>>

-----------------------------------------------------------------------------
(* The server loop.                                                        *)

\* recvfrom cuts a datagram that is longer than the buffer; a shorter one leaves
\* the rest of the buffer as it was.
Receive ==
    /\ pc = "receive" /\ Len(received) < MAX_RECEIVED
    /\ \E size \in Sizes :
         /\ received' = Append(received, size)
         /\ n' = Least(size, MAX_PACKET_SIZE)
    /\ NetBuf' = [k \in 1..MAX_PACKET_SIZE |-> IF k <= n' THEN Byte(Len(received'), k) ELSE NetBuf[k]]
    /\ pc' = "display"
    /\ j' = 1 /\ dumps' = <<>>
    /\ UNCHANGED <<todo, Port, Obj, freed, shown, LocalBuffer, decoded>>

ReceiveFails ==
    /\ pc = "receive"
    /\ n' = -1
    /\ pc' = "destroy"
    /\ j' = 1
    /\ UNCHANGED <<todo, Port, Obj, freed, received, NetBuf, dumps, shown, LocalBuffer, decoded>>

\* Where EDS_DisplayObject may return: the call that fails, or "shown" at its end.
\* A packet that does not verify is displayed all the same.
EdsExits == {"header_type", "header", "topic", "argument", "body", "shown"}

\* An unpack that fails may have written its part already.
Unpacked(exit) ==
    LET now == Len(received)
        old == LocalBuffer
    IN CASE exit = "header_type" -> {old}
         [] exit = "header" -> [header : {old.header, now}, body : {old.body}]
         [] exit \in {"topic", "argument"} -> [header : {now}, body : {old.body}]
         [] exit = "body" -> [header : {now}, body : {old.body, now}]
         [] OTHER -> [header : {now}, body : {now}]

ShownUnlessHeaderFails(exit) == exit \in {"topic", "argument", "body", "shown"}
Shown(exit) == exit = "shown"

EdsDisplayObject(answer) ==
    \E exit \in EdsExits :
      /\ answer = Shown(exit)
      /\ LocalBuffer' \in Unpacked(exit)
      /\ decoded' = IF Shown(exit)
                    THEN Append(decoded, [datagram |-> Len(received), header |-> LocalBuffer'.header,
                                          body |-> LocalBuffer'.body])
                    ELSE decoded

\* The pass-through decoder has nothing but the dump.
PassThruDisplayObject(answer) == answer = TRUE /\ UNCHANGED <<LocalBuffer, decoded>>

WholeBuffer(size) == SubSeq(NetBuf, 1, MAX_PACKET_SIZE)
DataOf(size) == SubSeq(NetBuf, 1, size)

\* "break" once a decoder returned true.
LeaveLoopAtEnd(answer) == j = NumDisplays
LoopIsOver(answer) == answer \/ j = NumDisplays

\* One turn of DisplayObject: both decoders dump the packet before anything else.
\* Obj[j] is never NULL here, so the test for it is a guard.
DisplayObject ==
    /\ pc = "display"
    /\ Obj[j] # "NULL"
    /\ dumps' = Append(dumps, [by |-> DISPLAYS[j], lines |-> Hexdump(DataOf(n))])
    /\ \E answer \in BOOLEAN :
         /\ IF DISPLAYS[j] = "EDS" THEN EdsDisplayObject(answer) ELSE PassThruDisplayObject(answer)
         /\ shown' = IF answer THEN Append(shown, DISPLAYS[j]) ELSE shown
         /\ IF LoopIsOver(answer) THEN pc' = "receive" /\ j' = 1 ELSE pc' = pc /\ j' = j + 1
    /\ UNCHANGED <<todo, Port, Obj, freed, received, NetBuf, n>>

\* One turn of DestroyDisplays.
DestroyDisplay ==
    /\ pc = "destroy"
    /\ freed' = Append(freed, Obj[j])
    /\ Obj' = [Obj EXCEPT ![j] = "NULL"]
    /\ IF j = NumDisplays THEN pc' = "returned" /\ j' = 1 ELSE pc' = pc /\ j' = j + 1
    /\ UNCHANGED <<todo, Port, received, NetBuf, n, dumps, shown, LocalBuffer, decoded>>

Next ==
    \/ TakeOption \/ InstantiateDisplays \/ OpenPort
    \/ Receive \/ ReceiveFails \/ DisplayObject \/ DestroyDisplay

Spec == Init /\ [][Next]_vars

-----------------------------------------------------------------------------
(* Properties.                                                             *)

\* The lines dumped are those of the last datagram, in order: all of it that fits
\* the buffer, nothing an earlier and longer one left behind in the buffer, and nothing
\* that a line before left behind in the line buffers.
DumpsTheLastDatagram ==
    \A k \in DOMAIN dumps :
      dumps[k].lines = LinesOf([b \in 1..Least(received[Len(received)], MAX_PACKET_SIZE) |->
                                  Byte(Len(received), b)])

\* What the EDS decoder displays was unpacked from the datagram at hand, header and
\* body, whatever attempts at other datagrams left in the buffer it keeps.
\* (EDS_DisplayObject's early returns.)
DecodesTheDatagramAtHand ==
    \A k \in DOMAIN decoded :
      decoded[k].header = decoded[k].datagram /\ decoded[k].body = decoded[k].datagram

\* By the time the next datagram is awaited every one received has been accepted
\* by exactly one decoder, and dumped by each decoder asked, in their order.
EachShownOnce ==
    pc \in {"receive", "destroy"} =>
      /\ Len(shown) = Len(received)
      /\ received # <<>> =>
           /\ [k \in DOMAIN dumps |-> dumps[k].by] = SubSeq(DISPLAYS, 1, Len(dumps))
           /\ dumps[Len(dumps)].by = shown[Len(shown)]

\* "Destroys the display/decoder objects" (tlm_recv.c:116): what is freed is what
\* was allocated.
FreesWhatWasAllocated == \A k \in DOMAIN freed : freed[k] = "heap"
=============================================================================
