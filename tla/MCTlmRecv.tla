------------------------------ MODULE MCTlmRecv -----------------------------
(***************************************************************************)
(* Instance of tlm_recv for model checking.                                *)
(***************************************************************************)
EXTENDS TlmRecv

BothDisplays == <<"EDS", "PassThrough">>
Lines == { <<>>, <<[opt |-> "cpu", n |-> 2]>>, <<[opt |-> "port", n |-> 65536]>>,
           <<[opt |-> "port", n |-> 1235], [opt |-> "cpu", n |-> -3000]>> }
=============================================================================
