------------------------- MODULE CmdSendRefinement --------------------------
(***************************************************************************)
(* main as an implementation of Dispatch: what its counters, flags and     *)
(* buffers amount to for the user.                                         *)
(***************************************************************************)
EXTENDS CmdSendProperties

\* What the user typed, wherever on the line: help, or something that is no option.
HelpAsked == \E k \in DOMAIN line : line[k] \in {"help", "unknown"}

\* h is the host asked for: the one named last, or 0 for the default.
IsHostAsked(h) ==
    /\ h = 0 \/ (h \in DOMAIN line /\ line[h] = "host")
    /\ \A k \in DOMAIN line : line[k] = "host" => k <= h
HostAsked == CHOOSE h \in 0..Len(line) : IsHostAsked(h)

Request == [help |-> HelpAsked, host |-> HostAsked]

Phase ==
    CASE pc \in {"count", "categorize", "instantiate", "parse"} -> "reading"
      [] pc \in {"help", "encode", "report"} -> "choosing"
      [] pc \in {"destroy", "exit"} -> "leaving"
      [] OTHER -> pc

Sent == {[who |-> output[k].who, host |-> output[k].host] : k \in Events("packet")}

D == INSTANCE Dispatch
       WITH Encoders <- Parsers, request <- Request,
            phase <- Phase, held <- Obj, willing <- IsOK, sent <- Sent

\* main keeps the promise of Dispatch at every step: all it does besides is
\* invisible, a packet goes out once, from an encoder that refused nothing, to the host typed
\* last, and never when help is due; and it comes to an end.
ImplementsDispatch == D!Spec
=============================================================================
