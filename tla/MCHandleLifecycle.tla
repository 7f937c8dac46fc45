------------------------- MODULE MCHandleLifecycle -------------------------
(* Small instances of HandleLifecycle and the modules over it for TLC.      *)
EXTENDS HandleCopies, HandleRefinement, TLC

CONSTANTS t1, t2, c1, l1, l2, g1, g2, main, net

MCHandleKind == [h \in Handles |-> CASE h = c1 -> "client"
                                     [] h \in {l1, l2} -> "trace"
                                     [] h \in {g1, g2} -> "telemetry"]

Symmetry == Permutations(Threads) \cup Permutations(Objs)
              \cup Permutations({l1, l2})

ObjectSymmetry == Permutations(Objs)
=============================================================================
