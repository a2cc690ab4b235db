---------------------------- MODULE MCAppRuntime ----------------------------
(* One of the signals main.c installs. *)
EXTENDS AppRuntime
CONSTANT SIGINT

OneSignal == {SIGINT}
=============================================================================
