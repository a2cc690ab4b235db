---------------------------- MODULE MCApplyPatch ----------------------------
(* Small scripts for TLC. *)
EXTENDS ApplyPatch, TLC
CONSTANTS app, lib, newlib, boot, conf, newconf, other, radio, image, recovery

AllPaths == {app, lib, newlib, boot, conf, newconf, other, radio, image, recovery}
Mtd      == {boot, radio, recovery}
(* Job 1 patches a file in its place, job 2 makes a new file of another, job 3
   patches a partition, jobs 4 and 5 make two files of one, job 6 a file of a
   partition and job 7 a partition of another. *)
Sources == <<app, lib, boot, conf, conf, radio, radio>>
Targets == <<app, newlib, boot, newconf, other, image, recovery>>
(* The script asserts the first four; all; none. *)
Four    == 1..4
Seven   == 1..7
Nobody  == {}
(* The hash of the source is the second of the list; for job 4, or for all, it
   is the first, as in the test script. *)
Second  == [j \in 1..7 |-> IF j = 4 THEN 0 ELSE 1]
First   == [j \in 1..7 |-> 0]
=============================================================================
