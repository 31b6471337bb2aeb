--------------------------- MODULE MCLmdbSessions ---------------------------
(* Two writers share the single write executor, one reader pages through    *)
(* two records one at a time, and the storage may be closed at any point.   *)
EXTENDS LmdbSessions

MCSessions == [w1 |-> 1, w2 |-> 1, r1 |-> 3]
MCWorkers == [r |-> 1, w |-> 1]
=============================================================================
