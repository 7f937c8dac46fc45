-------------------------- MODULE HandleRefinement --------------------------
(***************************************************************************)
(* HandleLifecycle implements NamedChannels: a handle stands for the name  *)
(* under which P7 shares the object its pointer leads to.                  *)
(***************************************************************************)
EXTENDS HandleLifecycle

(* No pointer is mistaken for a channel.                                   *)
ASSUME RefinementAssumption == NULL \notin Keys /\ Unbuilt \notin Keys

KeyOf(o) == CHOOSE k \in Keys : shared[k] = o

Chan == [h \in Handles |-> IF handle[h] \in Objs THEN KeyOf(handle[h])
                                                 ELSE handle[h]]
Present == {k \in Keys : shared[k] # NULL}

Channels == INSTANCE NamedChannels WITH chan <- Chan, present <- Present

(* Constructing, destroying and swapping handles over raw, counted P7      *)
(* pointers shows the program nothing but named channels that are there    *)
(* for as long as a handle uses them.                                      *)
ImplementsNames == Channels!Spec

(* The client "main" outlives every channel created on it, and is the one  *)
(* found by that name: a channel never sends through a client that lost    *)
(* the race for the name or was destroyed under it.                        *)
ClientOutlivesChannels ==
  \A k \in Present : k[1] # "client" =>
    /\ shared[<<"client", Main>>] # NULL
    /\ client[shared[k]] = shared[<<"client", Main>>]
=============================================================================
