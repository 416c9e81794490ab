------------------------------ MODULE Dispatch ------------------------------
(***************************************************************************)
(* What the main program of cmd_send promises its user, without its        *)
(* passes, loops, counters and flags: some encoders are put to work, each  *)
(* may refuse the command line, and then either one that did not refuse    *)
(* has its packet sent, once, to the host asked for, or nothing is sent;   *)
(* the encoders are let go before the program ends.  CmdSend implements    *)
(* this specification, see CmdSendRefinement.                              *)
(***************************************************************************)
CONSTANT Encoders

VARIABLES
    request,  \* what the command line asks for: help or not, and some host
    phase,
    held,     \* the encoders at work
    willing,  \* those of them that have not refused
    sent      \* the packets sent: their maker and their host

vars == <<request, phase, held, willing, sent>>

Init ==
    /\ request.help \in BOOLEAN
    /\ phase = "reading"
    /\ held = {} /\ willing = {} /\ sent = {}

Acquire(e) ==
    /\ phase = "reading"
    /\ e \notin held
    /\ held' = held \cup {e}
    /\ willing' = willing \cup {e}
    /\ UNCHANGED <<request, phase, sent>>

Refuse(e) ==
    /\ phase = "reading"
    /\ e \in willing
    /\ willing' = willing \ {e}
    /\ UNCHANGED <<request, phase, held, sent>>

Decide ==
    /\ phase = "reading"
    /\ phase' = "choosing"
    /\ UNCHANGED <<request, held, willing, sent>>

\* The only way anything is sent.
Deliver(e) ==
    /\ phase = "choosing"
    /\ ~request.help
    /\ e \in willing
    /\ sent' = {[who |-> e, host |-> request.host]}
    /\ phase' = "leaving"
    /\ UNCHANGED <<request, held, willing>>

GiveUp ==
    /\ phase = "choosing"
    /\ phase' = "leaving"
    /\ UNCHANGED <<request, held, willing, sent>>

Release(e) ==
    /\ phase = "leaving"
    /\ e \in held
    /\ held' = held \ {e}
    /\ UNCHANGED <<request, phase, willing, sent>>

End ==
    /\ phase = "leaving"
    /\ held = {}
    /\ phase' = "done"
    /\ UNCHANGED <<request, held, willing, sent>>

\* Out of memory.
Abort ==
    /\ phase = "reading"
    /\ held = {}
    /\ phase' = "failed"
    /\ UNCHANGED <<request, held, willing, sent>>

Next ==
    \/ \E e \in Encoders : Acquire(e) \/ Refuse(e) \/ Deliver(e) \/ Release(e)
    \/ Decide \/ GiveUp \/ End \/ Abort

\* The user gets an outcome.
Spec == Init /\ [][Next]_vars /\ WF_vars(Next)
=============================================================================
