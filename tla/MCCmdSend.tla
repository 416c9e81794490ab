------------------------------ MODULE MCCmdSend -----------------------------
(***************************************************************************)
(* Command lines for model checking main.                                  *)
(***************************************************************************)
EXTENDS CmdSendRefinement

\* Every line of up to three words of each kind main tells apart, and every
\* option between two others.
KindsOfWord == {"help", "unknown", "host", "pktname", "word", "argument"}

Lines ==
    SeqOf(KindsOfWord, 3)
      \cup {<<"argument", o, "argument", "uint8">> : o \in OptionNames}
=============================================================================
