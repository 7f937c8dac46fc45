-------------------------- MODULE TelemetryProofs --------------------------
(* Machine-checked proofs about TelemetryChannels, for any number of       *)
(* objects, channels, counters and handles.                                *)
EXTENDS TelemetryChannels, SequenceTheorems, FiniteSetTheorems, TLAPS

ChannelHandle == [name: Counters, id: Nat, telemetry: Slots]

TelemetryType ==
  /\ refs \in [Channels -> Nat]
  /\ counters \in [Channels -> Seq(Counters)]
  /\ telemetry \in [Slots -> Channels \cup {NULL}]
  /\ handle \in [Handles -> ChannelHandle \cup {NULL}]
  /\ origin \in [Handles -> Channels \cup {NULL}]

(* Wherever its object has gone since: in the channel a handle was made    *)
(* in, its id is that of the counter it names.                             *)
Named(h) ==
  /\ handle[h] \in ChannelHandle /\ origin[h] \in Channels
  /\ handle[h].id \in DOMAIN counters[origin[h]]
  /\ counters[origin[h]][handle[h].id] = handle[h].name

(* A channel has a reference for each of its objects, and one of its own.  *)
Objects(f, c) == {s \in Slots : f[s] = c}
Count(f, c)   == Cardinality(Objects(f, c))

Counted(c) ==
  \/ refs[c] = 0 /\ Count(telemetry, c) = 0
  \/ refs[c] = Count(telemetry, c) + 1

PinInv == \A c \in Channels : Counted(c)

CounterInv ==
  TelemetryType /\ \A h \in Handles : handle[h] # NULL => Named(h)

(* Counters are only added behind those that are there.                    *)
LEMMA AppendKeeps ==
  ASSUME NEW s \in Seq(Counters), NEW n \in Counters
  PROVE  /\ Append(s, n) \in Seq(Counters)
         /\ \A i \in DOMAIN s : i \in DOMAIN Append(s, n) /\ Append(s, n)[i] = s[i]
         /\ Len(s) + 1 \in DOMAIN Append(s, n) /\ Append(s, n)[Len(s) + 1] = n
         /\ Len(s) + 1 \in Nat
BY AppendProperties

(* A handle that is made for a counter of its object's channel.            *)
LEMMA BindKeeps ==
  ASSUME CounterInv, NEW h \in Handles, NEW s \in Slots, NEW n \in Counters, NEW i \in Nat,
         Bind(h, s, n, i), UNCHANGED <<refs, telemetry>>, telemetry[s] # NULL,
         counters' \in [Channels -> Seq(Counters)],
         \A c \in Channels : \A j \in DOMAIN counters[c] :
           j \in DOMAIN counters'[c] /\ counters'[c][j] = counters[c][j],
         i \in DOMAIN counters'[telemetry[s]], counters'[telemetry[s]][i] = n
  PROVE  CounterInv'
<1> USE DEF CounterInv
<1>1. [name |-> n, id |-> i, telemetry |-> s] \in ChannelHandle
  BY DEF ChannelHandle
<1>2. telemetry[s] \in Channels
  BY DEF TelemetryType
<1>3. TelemetryType'
  BY <1>1, <1>2 DEF TelemetryType, Bind
<1>4. Named(h)'
  BY <1>1, <1>2 DEF TelemetryType, Bind, Named
<1>5. ASSUME NEW g \in Handles, g # h, handle'[g] # NULL
      PROVE  Named(g)'
  <2>1. handle'[g] = handle[g] /\ origin'[g] = origin[g]
    BY <1>5 DEF TelemetryType, Bind
  <2>2. Named(g)
    BY <1>5, <2>1
  <2>3. QED
    BY <2>1, <2>2 DEF Named
<1>6. QED
  BY <1>3, <1>4, <1>5

(* A handle whose counter was not found or could not be created.           *)
LEMMA EmptyKeeps ==
  ASSUME CounterInv, NEW h \in Handles, Empty(h), UNCHANGED <<refs, counters, telemetry>>
  PROVE  CounterInv'
BY DEF CounterInv, TelemetryType, Empty, Named

(* What happens to Telemetry objects does not touch handles.               *)
LEMMA ObjectsKeep ==
  ASSUME CounterInv, UNCHANGED <<counters, handle, origin>>,
         telemetry' \in [Slots -> Channels \cup {NULL}], refs' \in [Channels -> Nat]
  PROVE  CounterInv'
BY DEF CounterInv, TelemetryType, Named

(* Create() adds a counter at the end, or leaves the handle empty.         *)
LEMMA CreateKeeps ==
  ASSUME CounterInv, NEW h \in Handles, NEW s \in Slots, NEW n \in Counters, Create(h, s, n)
  PROVE  CounterInv'
<1> DEFINE c == telemetry[s]
<1>1. c \in Channels /\ c # NULL /\ counters[c] \in Seq(Counters)
      /\ UNCHANGED <<refs, telemetry>>
  BY DEF Create, CounterInv, TelemetryType
<1>2. CASE Empty(h) /\ UNCHANGED counters
  BY <1>1, <1>2, EmptyKeeps
<1>3. CASE /\ counters' = [counters EXCEPT ![c] = Append(@, n)]
           /\ Bind(h, s, n, Len(counters[c]) + 1)
  <2>1. counters'[c] = Append(counters[c], n)
        /\ \A d \in Channels \ {c} : counters'[d] = counters[d]
    BY <1>1, <1>3 DEF CounterInv, TelemetryType
  <2>2. counters' \in [Channels -> Seq(Counters)]
    BY <1>1, <1>3, AppendKeeps DEF CounterInv, TelemetryType
  <2>3. \A d \in Channels : \A j \in DOMAIN counters[d] :
          j \in DOMAIN counters'[d] /\ counters'[d][j] = counters[d][j]
    BY <1>1, <2>1, AppendKeeps
  <2>4. /\ Len(counters[c]) + 1 \in DOMAIN counters'[c] /\ Len(counters[c]) + 1 \in Nat
        /\ counters'[c][Len(counters[c]) + 1] = n
    BY <1>1, <2>1, AppendKeeps
  <2>5. QED
    BY <1>1, <1>3, <2>2, <2>3, <2>4, BindKeeps
<1>4. QED
  BY <1>2, <1>3 DEF Create

(* Find() hands out the place of the counter, or leaves the handle empty.  *)
LEMMA FindKeeps ==
  ASSUME CounterInv, NEW h \in Handles, NEW s \in Slots, NEW n \in Counters, Find(h, s, n)
  PROVE  CounterInv'
<1> DEFINE c == telemetry[s]
           i == CHOOSE j \in DOMAIN counters[c] : counters[c][j] = n
<1>1. /\ c \in Channels /\ c # NULL /\ counters[c] \in Seq(Counters)
      /\ UNCHANGED <<refs, counters, telemetry>>
  BY DEF Find, CounterInv, TelemetryType
<1>2. CASE Knows(c, n) /\ Bind(h, s, n, i)
  <2>1. i \in DOMAIN counters[c] /\ counters[c][i] = n
    BY <1>2 DEF Knows
  <2>2. i \in Nat
    BY <1>1, <2>1
  <2>3. counters' \in [Channels -> Seq(Counters)]
    BY <1>1 DEF CounterInv, TelemetryType
  <2>4. QED
    BY <1>1, <1>2, <2>1, <2>2, <2>3, BindKeeps
<1>3. CASE Empty(h)
  BY <1>1, <1>3, EmptyKeeps
<1>4. QED
  BY <1>2, <1>3 DEF Find

(* Handles are exchanged with everything they hold.                        *)
LEMMA SwapHandlesKeeps ==
  ASSUME CounterInv, NEW g \in Handles, NEW h \in Handles, SwapHandles(g, h)
  PROVE  CounterInv'
<1> USE DEF CounterInv, SwapHandles
<1>1. TelemetryType'
  BY DEF TelemetryType
<1>2. ASSUME NEW k \in Handles, handle'[k] # NULL
      PROVE  Named(k)'
  <2>1. PICK j \in Handles : handle'[k] = handle[j] /\ origin'[k] = origin[j]
    BY DEF TelemetryType
  <2>2. Named(j)
    BY <1>2, <2>1
  <2>3. QED
    BY <2>1, <2>2 DEF Named
<1>3. QED
  BY <1>1, <1>2

-----------------------------------------------------------------------------
(* References.                                                             *)

LEMMA CountType ==
  \A f, c : IsFiniteSet(Objects(f, c)) /\ Count(f, c) \in Nat
BY TelemetryAssumption, FS_Subset, FS_CardinalityType DEF Objects, Count

(* An object that comes, goes or stands for another channel.               *)
OnlyAt(f, g, s) == \A u \in Slots \ {s} : g[u] = f[u]

Recounted(f, g, s, c) ==
  Count(g, c) = Count(f, c) + (IF g[s] = c THEN 1 ELSE 0) - (IF f[s] = c THEN 1 ELSE 0)

LEMMA Recount ==
  ASSUME NEW f, NEW g, NEW s \in Slots, NEW c, OnlyAt(f, g, s)
  PROVE  Recounted(f, g, s, c)
<1>1. s \in Objects(f, c) <=> f[s] = c
  BY DEF Objects
<1>2. Objects(g, c) = IF g[s] = c THEN Objects(f, c) \cup {s} ELSE Objects(f, c) \ {s}
  BY DEF Objects, OnlyAt
<1>3. g[s] = c => Cardinality(Objects(g, c)) =
                 IF f[s] = c THEN Cardinality(Objects(f, c))
                 ELSE Cardinality(Objects(f, c)) + 1
  BY <1>1, <1>2, CountType, FS_AddElement
<1>4. g[s] # c => Cardinality(Objects(g, c)) =
                 IF f[s] = c THEN Cardinality(Objects(f, c)) - 1
                 ELSE Cardinality(Objects(f, c))
  BY <1>1, <1>2, CountType, FS_RemoveElement
<1>5. Count(f, c) = Cardinality(Objects(f, c)) /\ Count(g, c) = Cardinality(Objects(g, c))
      /\ Count(f, c) \in Nat
  BY CountType DEF Count
<1>6. QED
  BY <1>3, <1>4, <1>5 DEF Recounted

(* The first object of a channel brings two references, any other one.     *)
LEMMA ConstructCounts ==
  ASSUME TelemetryType, PinInv, NEW s \in Slots, NEW c \in Channels, Construct(s, c)
  PROVE  PinInv'
<1> SUFFICES ASSUME NEW d \in Channels PROVE Counted(d)'
  BY DEF PinInv
<1>1. /\ Counted(d) /\ Count(telemetry, d) \in Nat /\ d # NULL /\ refs[d] \in Nat
      /\ telemetry[s] = NULL /\ telemetry' = [telemetry EXCEPT ![s] = c]
      /\ refs'[d] = IF d # c THEN refs[d] ELSE IF refs[d] = 0 THEN 2 ELSE refs[d] + 1
  BY CountType, TelemetryAssumption DEF PinInv, Construct, TelemetryType
<1>2. Count(telemetry', d) = Count(telemetry, d) + (IF c = d THEN 1 ELSE 0)
  <2>1. OnlyAt(telemetry, telemetry', s) /\ telemetry'[s] = c
    BY <1>1 DEF OnlyAt, TelemetryType
  <2>2. Recounted(telemetry, telemetry', s, d)
    BY <2>1, Recount
  <2>3. QED
    BY <1>1, <2>1, <2>2 DEF Recounted
<1>3. QED
  BY <1>1, <1>2 DEF Counted

(* The channel's own reference outlives its last object.                   *)
LEMMA DestroyCounts ==
  ASSUME TelemetryType, PinInv, NEW s \in Slots, Destroy(s)
  PROVE  PinInv' /\ refs' \in [Channels -> Nat] /\ counters' = counters
<1>1. PICK c \in Channels : c = telemetry[s] /\ c # NULL
  BY DEF Destroy, TelemetryType
<1>2. /\ telemetry' = [telemetry EXCEPT ![s] = NULL]
      /\ refs' = [refs EXCEPT ![c] = @ - 1] /\ refs \in [Channels -> Nat]
      /\ counters' = IF refs[c] = 1 THEN [counters EXCEPT ![c] = <<>>] ELSE counters
  BY <1>1 DEF Destroy, TelemetryType
<1>3. Count(telemetry, c) # 0 /\ Count(telemetry, c) \in Nat
  <2>1. s \in Objects(telemetry, c)
    BY <1>1 DEF Objects
  <2>2. QED
    BY <2>1, CountType, FS_EmptySet DEF Count
<1>4. refs[c] = Count(telemetry, c) + 1 /\ refs[c] # 1 /\ refs[c] - 1 \in Nat
  BY <1>3 DEF PinInv, Counted
<1>5. ASSUME NEW d \in Channels PROVE Counted(d)'
  <2>1. Count(telemetry', d) = Count(telemetry, d) - (IF c = d THEN 1 ELSE 0)
    <3>1. NULL # d /\ Count(telemetry, d) \in Nat
      BY TelemetryAssumption, CountType
    <3>2. OnlyAt(telemetry, telemetry', s) /\ telemetry'[s] = NULL
      BY <1>2 DEF OnlyAt, TelemetryType
    <3>3. Recounted(telemetry, telemetry', s, d)
      BY <3>2, Recount
    <3>4. QED
      BY <1>1, <3>1, <3>2, <3>3 DEF Recounted
  <2>2. Counted(d) /\ refs'[d] = IF c = d THEN refs[d] - 1 ELSE refs[d]
    BY <1>2 DEF PinInv
  <2>3. QED
    BY <1>3, <1>4, <2>1, <2>2, CountType DEF Counted
<1>6. QED
  BY <1>2, <1>4, <1>5 DEF PinInv

(* Objects are exchanged with the references they have.                    *)
LEMMA SwapCounts ==
  ASSUME TelemetryType, PinInv, NEW s \in Slots, NEW t \in Slots, Swap(s, t)
  PROVE  PinInv'
<1> DEFINE f == [telemetry EXCEPT ![s] = telemetry[t]]
<1>1. /\ telemetry \in [Slots -> Channels \cup {NULL}] /\ refs' = refs
      /\ f \in [Slots -> Channels \cup {NULL}]
      /\ telemetry' = [f EXCEPT ![t] = telemetry[s]]
      /\ s # t => f[t] = telemetry[t]
      /\ s = t => telemetry' = telemetry
  BY DEF TelemetryType, Swap
<1>2. /\ f[s] = telemetry[t] /\ telemetry'[t] = telemetry[s]
      /\ OnlyAt(telemetry, f, s) /\ OnlyAt(f, telemetry', t)
  BY <1>1 DEF OnlyAt, TelemetryType
<1> HIDE DEF f
<1>3. ASSUME NEW c \in Channels PROVE Count(telemetry', c) = Count(telemetry, c)
  <2>1. CASE s = t
    BY <1>1, <2>1
  <2>2. CASE s # t
    <3>1. Recounted(telemetry, f, s, c) /\ Recounted(f, telemetry', t, c)
      BY <1>2, Recount
    <3>2. Count(telemetry, c) \in Nat
      BY CountType
    <3>3. QED
      BY <1>1, <1>2, <2>2, <3>1, <3>2 DEF Recounted
  <2>3. QED
    BY <2>1, <2>2
<1>4. QED
  BY <1>1, <1>3 DEF PinInv, Counted

(* The invariant holds in every state.                                     *)
THEOREM TelemetryInvariant == Spec => [](CounterInv /\ PinInv)
<1>1. Init => CounterInv /\ PinInv
  <2>1. ASSUME Init PROVE CounterInv
    BY <2>1 DEF Init, CounterInv, TelemetryType
  <2>2. ASSUME Init, NEW c \in Channels PROVE Counted(c)
    <3>1. Objects(telemetry, c) = {}
      BY <2>2, TelemetryAssumption DEF Init, Objects
    <3>2. QED
      BY <2>2, <3>1, FS_EmptySet DEF Init, Counted, Count
  <2>3. QED
    BY <2>1, <2>2 DEF PinInv
<1>2. ASSUME CounterInv, PinInv, [Next]_vars
      PROVE  CounterInv' /\ PinInv'
  <2> USE <1>2
  <2>1. UNCHANGED <<refs, telemetry>> => PinInv'
    BY DEF PinInv, Counted
  <2>2. CASE UNCHANGED vars
    BY <2>1, <2>2 DEF CounterInv, TelemetryType, Named, vars
  <2>3. ASSUME NEW s \in Slots, NEW c \in Channels, Construct(s, c)
        PROVE  CounterInv' /\ PinInv'
    <3>1. PinInv'
      BY <2>3, ConstructCounts DEF CounterInv
    <3>2. /\ UNCHANGED <<counters, handle, origin>>
          /\ telemetry' \in [Slots -> Channels \cup {NULL}] /\ refs' \in [Channels -> Nat]
      BY <2>3 DEF Construct, CounterInv, TelemetryType
    <3>3. QED
      BY <3>1, <3>2, ObjectsKeep
  <2>4. ASSUME NEW s \in Slots, Destroy(s)
        PROVE  CounterInv' /\ PinInv'
    BY <2>4, DestroyCounts, ObjectsKeep DEF Destroy, CounterInv, TelemetryType
  <2>5. ASSUME NEW s \in Slots, NEW t \in Slots, Swap(s, t)
        PROVE  CounterInv' /\ PinInv'
    <3>1. PinInv'
      BY <2>5, SwapCounts DEF CounterInv
    <3>2. UNCHANGED <<refs, counters, handle, origin>>
          /\ telemetry' \in [Slots -> Channels \cup {NULL}]
      BY <2>5 DEF Swap, CounterInv, TelemetryType
    <3>3. QED
      BY <3>1, <3>2, ObjectsKeep DEF CounterInv, TelemetryType
  <2>6. ASSUME NEW h \in Handles, NEW s \in Slots, NEW n \in Counters,
               Create(h, s, n) \/ Find(h, s, n)
        PROVE  CounterInv' /\ PinInv'
    BY <2>1, <2>6, CreateKeeps, FindKeeps DEF Create, Find
  <2>7. ASSUME NEW g \in Handles, NEW h \in Handles, SwapHandles(g, h)
        PROVE  CounterInv' /\ PinInv'
    BY <2>1, <2>7, SwapHandlesKeeps DEF SwapHandles
  <2>8. QED
    BY <2>2, <2>3, <2>4, <2>5, <2>6, <2>7 DEF Next
<1>3. QED
  BY <1>1, <1>2, PTL DEF Spec

(* A sample goes to the counter its handle names whenever the object the   *)
(* handle points to stands for the channel the handle was made in.         *)
THEOREM SamplesArrive == Spec => []SampleReachesItsCounter
<1>1. ASSUME CounterInv
      PROVE  SampleReachesItsCounter
  BY <1>1 DEF CounterInv, Named, SampleReachesItsCounter, Usable, Add, Target
<1>2. QED
  BY <1>1, TelemetryInvariant, PTL
=============================================================================
