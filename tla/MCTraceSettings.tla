-------------------------- MODULE MCTraceSettings --------------------------
(* Two Logs over two names, one thread with an id, one module, and two     *)
(* variables that may both hold handles of it, of the same trace or not.   *)
EXTENDS TraceSettings, TLC

CONSTANTS l1, l2, io, main, net

MCHandleKind == [h \in Handles |-> "trace"]

Symmetry == Permutations({l1, l2}) \cup Permutations(Vars)
=============================================================================
