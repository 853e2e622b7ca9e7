----------------------------- MODULE MCEventBus -----------------------------
(***************************************************************************)
(* The programs for TLC: SIPxApp with every choice of its flags, and       *)
(* programs that put the modules on a dispatcher of their own.             *)
(***************************************************************************)
EXTENDS EventBus

Directory == [named |-> TRUE, exists |-> TRUE, is_directory |-> TRUE, writable |-> TRUE]
Good == [status_known |-> TRUE, dir |-> Directory]
ReadOnly == [Good EXCEPT !.dir.writable = FALSE]

Paths == {Good, ReadOnly, [Good EXCEPT !.status_known = FALSE], [Good EXCEPT !.dir.named = FALSE],
          [Good EXCEPT !.dir.exists = FALSE], [Good EXCEPT !.dir.is_directory = FALSE]}

SIPxAppPrograms ==
  {SIPxAppProgram(m_flags, path) : m_flags \in [parser : BOOLEAN, network : BOOLEAN, logwriter : BOOLEAN],
                                   path \in Paths}

OwnOrders ==
  {<<"network", "parser", "app">>,
   <<"parser", "network", "register", "app">>,
   <<"parser", "app", "register">>,
   <<LogWriterListener(Good), "parser", "network", "app">>,
   <<"network", "parser", "register", LogWriterListener(Good), "app">>}
  \cup {<<LogWriterListener(path), "parser", "app">> : path \in Paths}

MCProgram ==
  SIPxAppPrograms \cup {[listeners |-> order, m_logger |-> FALSE] : order \in OwnOrders}
=============================================================================
