------------------------- MODULE TelemetryChannels -------------------------
(***************************************************************************)
(* Counters of a telemetry channel and the handles the program keeps to    *)
(* them (Telemetry.hpp, Telemetry.cpp).  A TelemetryChannelHandle holds a  *)
(* counter's name and id and a raw pointer to the C++ Telemetry object it  *)
(* came from; the counters themselves belong to the P7 channel which that  *)
(* object happens to stand for, and die with it.                           *)
(*                                                                         *)
(* Construction is one step here, and the program makes no copy of a       *)
(* Telemetry object: HandleLifecycle has the steps, HandleCopies copies.   *)
(*                                                                         *)
(* External: a P7 channel numbers its counters in the order they are       *)
(* created, keeps them, has each name once, and rejects unknown ids; it is *)
(* found by its name until its last reference is released.                 *)
(***************************************************************************)
EXTENDS Naturals, Sequences, FiniteSets

CONSTANTS
  Slots,        \* where the program keeps its Telemetry objects
  Channels,     \* the P7 channels, by name
  Counters,     \* names of counters
  Handles,      \* the program's TelemetryChannelHandle variables
  MaxCounters,  \* counters a channel can hold
  NULL          \* nullptr, no object or an empty optional

ASSUME TelemetryAssumption ==
  /\ MaxCounters \in Nat /\ IsFiniteSet(Slots)
  /\ NULL \notin Channels \cup Slots \cup Counters

VARIABLES
  refs,       \* P7: the references to each channel, 0 when there is none
  counters,   \* P7: the names of each channel's counters; the id is the place
  telemetry,  \* telemetry_: the channel of the object in each slot
  handle,     \* the handles
  origin      \* history: the channel a handle's counter was created in

vars == <<refs, counters, telemetry, handle, origin>>

Init ==
  /\ refs = [c \in Channels |-> 0]
  /\ counters = [c \in Channels |-> <<>>]
  /\ telemetry = [s \in Slots |-> NULL]
  /\ handle = [h \in Handles |-> NULL]
  /\ origin = [h \in Handles |-> NULL]

-----------------------------------------------------------------------------
(* The Telemetry object in slot s is constructed, destroyed and swapped.   *)

(* Mutant: Add_Ref() is commented out, as it is in Log.cpp.                *)
ConstructUnpinned(s, c) ==
  /\ telemetry[s] = NULL
  /\ refs' = [refs EXCEPT ![c] = @ + 1]
  /\ telemetry' = [telemetry EXCEPT ![s] = c]
  /\ UNCHANGED <<counters, handle, origin>>

(* A new channel gets one reference more than it has objects.              *)
Construct(s, c) ==
  /\ telemetry[s] = NULL
  /\ refs' = [refs EXCEPT ![c] = IF @ = 0 THEN 2 ELSE @ + 1]
  /\ telemetry' = [telemetry EXCEPT ![s] = c]
  /\ UNCHANGED <<counters, handle, origin>>

Destroy(s) ==
  LET c == telemetry[s] IN
  /\ c # NULL
  /\ telemetry' = [telemetry EXCEPT ![s] = NULL]
  /\ refs' = [refs EXCEPT ![c] = @ - 1]
  /\ counters' = IF refs[c] = 1 THEN [counters EXCEPT ![c] = <<>>] ELSE counters
  /\ UNCHANGED <<handle, origin>>

Swap(s, t) ==
  /\ telemetry' = [telemetry EXCEPT ![s] = telemetry[t], ![t] = telemetry[s]]
  /\ UNCHANGED <<refs, counters, handle, origin>>

-----------------------------------------------------------------------------
(* Handles to counters.                                                    *)

Bind(h, s, n, i) ==
  /\ handle' = [handle EXCEPT ![h] = [name |-> n, id |-> i, telemetry |-> s]]
  /\ origin' = [origin EXCEPT ![h] = telemetry[s]]

Empty(h) ==
  /\ handle' = [handle EXCEPT ![h] = NULL]
  /\ origin' = [origin EXCEPT ![h] = NULL]

Knows(c, n) == \E i \in DOMAIN counters[c] : counters[c][i] = n

(* h = telemetry.Create(n, ...)                                            *)
Create(h, s, n) ==
  LET c == telemetry[s] IN
  /\ c # NULL
  /\ IF Knows(c, n) \/ Len(counters[c]) = MaxCounters
     THEN Empty(h) /\ UNCHANGED counters
     ELSE /\ counters' = [counters EXCEPT ![c] = Append(@, n)]
          /\ Bind(h, s, n, Len(counters[c]) + 1)
  /\ UNCHANGED <<refs, telemetry>>

(* h = telemetry.Find(n)                                                   *)
Find(h, s, n) ==
  LET c == telemetry[s] IN
  /\ c # NULL
  /\ IF Knows(c, n)
     THEN Bind(h, s, n, CHOOSE i \in DOMAIN counters[c] : counters[c][i] = n)
     ELSE Empty(h)
  /\ UNCHANGED <<refs, counters, telemetry>>

SwapHandles(g, h) ==
  /\ handle' = [handle EXCEPT ![g] = handle[h], ![h] = handle[g]]
  /\ origin' = [origin EXCEPT ![g] = origin[h], ![h] = origin[g]]
  /\ UNCHANGED <<refs, counters, telemetry>>

(* The channel and the id that h.Add(value) hands to P7, when h can be     *)
(* used at all: nothing follows the pointer to a destroyed object.         *)
Usable(h) == handle[h] # NULL /\ telemetry[handle[h].telemetry] # NULL
Target(h) == counters[telemetry[handle[h].telemetry]]
Add(h)    == handle[h].id \in DOMAIN Target(h)

Next ==
  \/ \E s \in Slots, c \in Channels : Construct(s, c)
  \/ \E s \in Slots : Destroy(s)
  \/ \E s, t \in Slots : Swap(s, t)
  \/ \E h \in Handles, s \in Slots, n \in Counters : Create(h, s, n) \/ Find(h, s, n)
  \/ \E g, h \in Handles : SwapHandles(g, h)

Spec == Init /\ [][Next]_vars

-----------------------------------------------------------------------------
(* While the object a handle points to stands for the channel it stood for *)
(* when the handle was made, a sample goes to the counter the handle       *)
(* names: not only after other counters were created or handles exchanged, *)
(* but also when every object of the channel has been destroyed meanwhile  *)
(* and another one constructed, for the reference that the constructor     *)
(* adds keeps the channel and the numbers of its counters.                 *)
SampleReachesItsCounter ==
  \A h \in Handles :
    Usable(h) /\ telemetry[handle[h].telemetry] = origin[h] =>
      Add(h) /\ Target(h)[handle[h].id] = handle[h].name
=============================================================================
