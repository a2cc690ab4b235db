----------------------------- MODULE MCTcpServer -----------------------------
(* One or two servers with two types of handlers. *)
EXTENDS TcpServer, TLC
CONSTANTS A, B, c1, c2

OneServer    == {A}
TwoServers   == {A, B}
TwoClients   == {c1, c2}
(* Nothing tells servers or clients apart; for safety only. *)
Symmetry     == Permutations(TwoServers) \cup Permutations(TwoClients)
TwoTypes     == <<"type_handler_1", "type_handler_2">>
Whole        == {"type_handler_2", "data"}
Halved       == {"type_handler_2", "half", "rest"}
Split        == {"half", "rest"}
=============================================================================
