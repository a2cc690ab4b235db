---------------------------- MODULE MCThreadPool ----------------------------
(* Small pools for TLC: callers, tasks and sentinels are model values. *)
EXTENDS ThreadPool
CONSTANTS main, client, x1, x2, x3

MCCallers  == {main, client}
MCOne      == {x1}
MCTwo      == {x1, x2}
MCThree    == {x1, x2, x3}
MCMain     == {main}
=============================================================================
