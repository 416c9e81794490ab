-------------------------------- MODULE MCEds -------------------------------
(***************************************************************************)
(* The arguments for model checking the EDS encoder.                       *)
(***************************************************************************)
EXTENDS EdsProperties, EdsDatabase

Dest(id, inst, intf, command) == [id |-> id, name |-> [inst |-> inst, intf |-> intf], cmd |-> command]
Code(id, command) == [id |-> id, cmd |-> command]
Member(id, ok, val) == [id |-> id, ok |-> ok, val |-> val]
Param(assigns, member, ok, val) ==
    [id |-> "NONE", assigns |-> assigns, member |-> member, ok |-> ok, val |-> val]

EdsArgs ==
    { Dest("pktid", "", "ES", "Noop"), Dest("pktid", "", "ES_short", ""), Dest("pktid", "", "ES_short", "5"),
      Dest("pktedsver", "", "x1806", "2"), Dest("pktedsver", "", "x1806", "Reset"),
      Dest("pktapid", "", "HK", ""), Dest("pktapid", "", "ES", "Noop"), Dest("pktid", "", "HK", "Noop"),
      Dest("pktid", "", "X_short", ""), Dest("pktid", "", "Lost", ""), Dest("pktid", "", "Bare", ""),
      Dest("pktid", "", "Mute", ""), Dest("pktid", "", "d6406", "Noop"), Dest("pktedsver", "", "x1908", ""),
      Dest("pktid", "", "x19FF", "Noop"),
      Dest("pktid", "CPU2", "ES", "Noop"), Dest("pktapid", "CPU2", "HK", ""),
      Code("pktfc", "Reset"), Code("pktfc", ""), Code("pktfc", "9"), Code("pktfc", "5"), Code("pktfc", "6"),
      Code("cmdcode", "7"), Code("cmdcode", "Restart"),
      Member("pktver", TRUE, "5"), Member("pktver", FALSE, "8"), Member("pktver", TRUE, "6"),
      Member("pktsubsys", TRUE, "4"), Member("pktseqflg", TRUE, "1"),
      [id |-> "endian", known |-> TRUE], [id |-> "protocol", known |-> FALSE], [id |-> "other"],
      Param(TRUE, "Type", TRUE, "1"), Param(TRUE, "Type", TRUE, "2"), Param(TRUE, "Type", FALSE, "z"),
      Param(TRUE, "Count", TRUE, "7"), Param(FALSE, "Type", FALSE, "") }
=============================================================================
