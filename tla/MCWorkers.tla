------------------------------ MODULE MCWorkers ------------------------------
(* Instances of Workers for TLC. *)
EXTENDS Workers, TLC

CONSTANTS w1, w2, gc, checkpoint, optimize, metrics, g1, c1, c2

OneWorker == {w1}
TwoWorkers == {w1, w2}
OneClient == {g1}
TwoClosers == {c1, c2}
OneCloser == {c1}
None == {}
Gc == {gc}
Checkpoint == {checkpoint}
Optimize == {optimize}
Metrics == {metrics}
=============================================================================
