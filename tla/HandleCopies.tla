---------------------------- MODULE HandleCopies ----------------------------
(***************************************************************************)
(* Copying, moving and assigning the handles of HandleLifecycle.  The five *)
(* special members of Client, Log and Telemetry are all defaulted, so each *)
(* copies the raw pointer of its source and counts nothing, while every    *)
(* destructor releases what its own pointer holds.  (Telemetry and Client  *)
(* default their move members too: a raw pointer is not reset by a move.)  *)
(***************************************************************************)
EXTENDS HandleLifecycle

SameClass(g, h) == HandleKind[g] = HandleKind[h]

(* C h(g);  C h(std::move(g));                                             *)
CopyConstruct(g, h) ==
  /\ SameClass(g, h) /\ handle[g] # Unbuilt
  /\ Vacant(h) /\ h \notin Statics
  /\ handle' = [handle EXCEPT ![h] = handle[g]]
  /\ UNCHANGED <<p7, frame, hooks, ghost>>

(* h = g;  h = std::move(g);  h's old pointer is not released.             *)
Assign(g, h) ==
  /\ SameClass(g, h) /\ handle[g] # Unbuilt /\ handle[h] # Unbuilt
  /\ handle' = [handle EXCEPT ![h] = handle[g]]
  /\ UNCHANGED <<p7, frame, hooks, ghost>>

(* Nothing follows a dangling pointer: its use is undefined behaviour.     *)
CopyNext ==
  /\ NoDangling
  /\ \/ Next
     \/ \E g, h \in Handles : CopyConstruct(g, h) \/ Assign(g, h)

CopySpec == Init /\ [][CopyNext]_vars
=============================================================================
