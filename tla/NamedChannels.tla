--------------------------- MODULE NamedChannels ---------------------------
(***************************************************************************)
(* What the constructors and destructors of Client, Log and Telemetry      *)
(* promise, with no pointer and no reference count: a live handle stands   *)
(* for one named channel, every handle of that name for the same one, and  *)
(* a channel is there for as long as some handle stands for it.            *)
(***************************************************************************)
CONSTANTS Handles, HandleKind, Names, Main, NULL, Unbuilt

Keys == {"client", "trace", "telemetry"} \X Names

VARIABLES
  chan,    \* the channel of each handle; NULL when default constructed
  present  \* the channels that can be found by name

cvars == <<chan, present>>

Init ==
  /\ chan = [h \in Handles |-> Unbuilt]
  /\ present = {}

Fits(h, k) == k[1] = HandleKind[h]
InUse(c)   == {k \in Keys : \E h \in Handles : c[h] = k}

(* Every trace and telemetry channel sends through the client "main".      *)
Anchored(set) == (\E k \in set : k[1] # "client") => <<"client", Main>> \in set

(* Mutant: the last but one handle of a channel takes it along.            *)
FadeUnderHandles ==
  /\ present' \in SUBSET present
  /\ {k \in present : k[1] = "telemetry"} \subseteq present'
  /\ Anchored(present')

(* Channels may go once no handle uses them; a telemetry channel stays.    *)
Fade ==
  /\ present' \in SUBSET present
  /\ {k \in present : k[1] = "telemetry"} \cup (InUse(chan') \cap present)
       \subseteq present'
  /\ Anchored(present')

(* A constructor makes its name known before, or as, its handle is built.  *)
Publish(k) ==
  /\ k \notin present
  /\ present' = present \cup {k}
  /\ Anchored(present')
  /\ UNCHANGED chan

PublishOpen(h, k) ==
  /\ k \notin present
  /\ chan[h] = Unbuilt /\ Fits(h, k)
  /\ present' = present \cup {k}
  /\ Anchored(present')
  /\ chan' = [chan EXCEPT ![h] = k]

Open(h, k) ==
  /\ k \in present
  /\ chan[h] = Unbuilt /\ Fits(h, k)
  /\ chan' = [chan EXCEPT ![h] = k]
  /\ UNCHANGED present

Detached(h) ==
  /\ chan[h] = Unbuilt
  /\ chan' = [chan EXCEPT ![h] = NULL]
  /\ UNCHANGED present

Close(h) ==
  /\ chan[h] # Unbuilt
  /\ chan' = [chan EXCEPT ![h] = Unbuilt]
  /\ Fade

(* A constructor that fails may have been the last user of the client.     *)
Abandon == UNCHANGED chan /\ Fade

Exchange(g, h) ==
  /\ HandleKind[g] = HandleKind[h]
  /\ chan[g] # Unbuilt /\ chan[h] # Unbuilt
  /\ chan' = [chan EXCEPT ![g] = chan[h], ![h] = chan[g]]
  /\ UNCHANGED present

Next ==
  \/ Abandon
  \/ \E k \in Keys : Publish(k)
  \/ \E h \in Handles, k \in Keys : PublishOpen(h, k) \/ Open(h, k)
  \/ \E h \in Handles : Detached(h) \/ Close(h)
  \/ \E g, h \in Handles : Exchange(g, h)

Spec == Init /\ [][Next]_cvars

-----------------------------------------------------------------------------
(* A handle stands for a channel of its own class that can be found by     *)
(* name: closing, swapping and failing constructors never take it away.    *)
ChannelInv ==
  /\ present \subseteq Keys /\ Anchored(present)
  /\ chan \in [Handles -> Keys \cup {NULL, Unbuilt}]
  /\ \A h \in Handles :
       chan[h] \in {NULL, Unbuilt} \cup {k \in present : Fits(h, k)}
=============================================================================
