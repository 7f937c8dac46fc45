---------------------------- MODULE MCCrashExit ----------------------------
(* Small instances of CrashExit for TLC.                                   *)
EXTENDS CrashExit, HandleRefinement, TLC

CONSTANTS t1, t2, c1, s1, l2, main, net, ABRT, SEGV

MCHandleKind == [h \in Handles |-> IF h = c1 THEN "client" ELSE "trace"]
MCThreads    == Tasks \X (0 .. MaxLevel)

(* Two threads with a Log each, one of them static, both of which make the *)
(* client; SIGABRT for all signals.                                        *)
OnlyAbort   == <<ABRT>>
PairHandles == MCThreads \cup {s1, l2}
PairUses    == [t \in Tasks |-> IF t = t1 THEN {s1} ELSE {l2}]

(* One thread with a Log, every signal, and room for nested handlers.      *)
MCOrder     == <<ABRT, SEGV>>
LoneHandles == MCThreads \cup {l2}
LoneUses    == [t \in Tasks |-> {l2}]

(* One thread with nothing but a static Log.                               *)
StaticHandles == MCThreads \cup {s1}
StaticUses    == [t \in Tasks |-> {s1}]

Symmetry == Permutations(Objs)
=============================================================================
