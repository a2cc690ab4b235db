------------------------------ MODULE MCLogger ------------------------------
(* Small logs for TLC. *)
EXTENDS Logger, TLC
CONSTANTS w1, w2, r1, r2

OneWriter   == {w1}
TwoWriters  == {w1, w2}
OneReader   == {r1}
TwoReaders  == {r1, r2}
Payloads    == {1, 2}
=============================================================================
