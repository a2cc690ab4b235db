--------------------------- MODULE MCDiskLruCache ---------------------------
(* Small caches for TLC. *)
EXTENDS DiskLruCache
CONSTANTS k1, k2

OneKey  == {k1}
TwoKeys == {k1, k2}
=============================================================================
