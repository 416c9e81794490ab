---------------------------- MODULE EdsDatabase -----------------------------
(***************************************************************************)
(* A small EDS database for model checking.                                *)
(***************************************************************************)
EXTENDS Integers

Derived(name, constraints, type) == [name |-> name, constraints |-> constraints, type |-> type]
NoFields == [m \in {} |-> "0"]

\* A message id for each of three topics of instance 0, 1 and 2, and one of a topic
\* nobody has.
MessageIds == << <<"x1706", "x1707", "x1708">>, <<"x1806", "x1807", "x1808">>, <<"x1906", "x1907", "x1908">> >>
Listener(instance, topic) == [InstanceNumber |-> instance, TopicId |-> topic]
Listeners ==
    [ x1706 |-> Listener(0, 1), x1707 |-> Listener(0, 2), x1708 |-> Listener(0, 3),
      x1806 |-> Listener(1, 1), x1807 |-> Listener(1, 2), x1808 |-> Listener(1, 3),
      x1906 |-> Listener(2, 1), x1907 |-> Listener(2, 2), x1908 |-> Listener(2, 3),
      x19FF |-> Listener(2, 9) ]

\* ES has commands, one of them without a payload, two with the same code, and
\* types the libraries fail for; HK has none; the other interfaces fail on the way: Lost has
\* no topic, Mute no info and Bare no argument type.
Database ==
    [ interface |-> [ES |-> "ES", ES_Application |-> "ES", HK |-> "HK", Lost |-> "Lost",
                     Mute |-> "Mute", Bare |-> "Bare"],
      instance |-> [CPU1 |-> 1, CPU2 |-> 2],
      topic |-> [ES |-> 1, HK |-> 2, Mute |-> 2, Bare |-> 3],
      parent |-> << "ES", "HK", "Bare" >>,
      numeric |-> [x1806 |-> "x1806", d6406 |-> "x1906", x1908 |-> "x1908", x19FF |-> "x19FF"],
      unmap |-> Listeners,
      map |-> [p \in [InstanceNumber : 0..2, TopicId : 1..3] |-> MessageIds[p.InstanceNumber + 1][p.TopicId]],
      complete |-> [ES_short |-> "ES_Application", X_short |-> "X_Application"],
      fails |-> [Mute |-> "info", Bare |-> "argument"],
      argument |-> [ES |-> "ES_Cmd", HK |-> "HK_Cmd", Lost |-> "Lost_Cmd", Mute |-> "Lost_Cmd", Bare |-> "Bare_Cmd"],
      derived |-> [ES_Cmd |-> << Derived("Restart", {"2"}, "RestartCmd"), Derived("Noop", {"0"}, "NoopCmd"),
                                 Derived("Reset", {"2"}, "ResetCmd"), Derived("Odd", {"5"}, "OddCmd"),
                                 Derived("Raw", {"6"}, "RawCmd"), Derived("Big", {"7"}, "BigCmd") >>],
      unknown |-> {"OddCmd"}, raw |-> {"RawCmd"}, unpackable |-> {"BigCmd"},
      payload |-> [RestartCmd |-> {"Type"}, ResetCmd |-> {"Type"}, HK_Cmd |-> {"Count"},
                   OddCmd |-> {"Type"}, RawCmd |-> {"Type"}, BigCmd |-> {"Type"}],
      addressing |-> {"StreamId", "SubsystemId"},
      fixed |-> [ES_Cmd |-> NoFields, Lost_Cmd |-> NoFields, Bare_Cmd |-> NoFields,
                 RestartCmd |-> [FunctionCode |-> "2"], NoopCmd |-> [FunctionCode |-> "0"],
                 ResetCmd |-> [FunctionCode |-> "2", VersionId |-> "1"], HK_Cmd |-> NoFields,
                 OddCmd |-> NoFields, RawCmd |-> NoFields, BigCmd |-> NoFields] ]
=============================================================================
