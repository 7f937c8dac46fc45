----------------------- MODULE HandleRefinementProofs -----------------------
(* Machine-checked proof that HandleLifecycle implements NamedChannels.     *)
EXTENDS HandleRefinement, HandleLifecycleProofs

MainKey == <<"client", Main>>

-----------------------------------------------------------------------------
(* The client "main".                                                      *)

(* Every channel, finished or not, holds the client found as "main", and   *)
(* so does a constructor from the moment it has a client.                  *)
AnchorInv ==
  /\ \A o \in Objs : client[o] # NULL => client[o] = shared[MainKey]
  /\ \A t \in Threads : pc[t] \in {"create", "share", "pin", "close", "unwind"}
       => local[t] = shared[MainKey]

(* The name of the client "main".                                          *)
LEMMA MainIsKey == MainKey \in Keys
BY LifecycleAssumption DEF MainKey, Keys, Kinds

(* A shared object keeps its name for as long as it lives.                 *)
LEMMA SharedKept ==
  ASSUME IndInv, HandleStep
  PROVE  \A k \in Keys : shared[k] # NULL =>
           \/ shared'[k] = shared[k]
           \/ shared'[k] = NULL /\ refs'[shared[k]] = 0
<1>1. ASSUME NEW x \in Objs, refs[x] > 0, Release(x), NEW k \in Keys, shared[k] # NULL
      PROVE  shared'[k] = shared[k] \/ (shared'[k] = NULL /\ refs'[shared[k]] = 0)
  <2>1. shared[k] \in Objs
    BY <1>1 DEF IndInv, TypeOK
  <2>2. /\ refs' \in [Objs -> Nat]
        /\ shared'[k] # NULL => shared'[k] = shared[k]
        /\ refs'[shared[k]] > 0 => shared'[k] = shared[k]
    BY <1>1, ReleaseCounts DEF IndInv
  <2>3. refs'[shared[k]] \in Nat
    BY <2>1, <2>2
  <2>4. QED
    BY <2>2, <2>3
<1>2. ASSUME NEW h \in Handles, Destroy(h), NEW k \in Keys, shared[k] # NULL
      PROVE  shared'[k] = shared[k] \/ (shared'[k] = NULL /\ refs'[shared[k]] = 0)
  <2>1. CASE handle[h] = NULL
    BY <1>2, <2>1 DEF Destroy, p7
  <2>2. CASE handle[h] # NULL
    <3>1. handle[h] \in Objs /\ refs[handle[h]] > 0 /\ Release(handle[h])
      BY <1>2, <2>2, OwnedIsLive DEF Destroy, IndInv, TypeOK
    <3>2. QED
      BY <1>1, <1>2, <3>1
  <2>3. QED
    BY <2>1, <2>2
<1>3. ASSUME NEW t \in Threads, CloseClient(t) \/ Unwind(t), NEW k \in Keys,
             shared[k] # NULL
      PROVE  shared'[k] = shared[k] \/ (shared'[k] = NULL /\ refs'[shared[k]] = 0)
  <2>1. pc[t] \in {"close", "unwind"} /\ Release(local[t])
    BY <1>3 DEF CloseClient, Unwind
  <2>2. local[t] \in Objs /\ refs[local[t]] > 0
    BY <2>1, OwnedIsLive DEF IndInv, FrameInv, TypeOK
  <2>3. QED
    BY <1>1, <1>3, <2>1, <2>2
<1>4. ASSUME NEW t \in Threads, Share(t) \/ ShareClient(t)
      PROVE  \A k \in Keys : shared[k] # NULL => shared'[k] = shared[k]
  BY <1>4 DEF Share, ShareClient, IndInv, TypeOK
<1>5. ASSUME NEW t \in Threads,
             \/ GetShared(t) \/ GetSharedClient(t) \/ AddRefTelemetry(t)
             \/ \E o \in Objs : CreateClient(t, o) \/ CreateChannel(t, o)
      PROVE  shared' = shared
  BY <1>5 DEF GetShared, GetSharedClient, AddRefTelemetry, CreateClient,
              CreateChannel, Create
<1>6. ASSUME NEW t \in Threads,
             \/ RegisterUnixCrashHandlers(t) \/ AtexitFails(t)
             \/ SigactionFails(t) \/ CreateClientFails(t) \/ CreateChannelFails(t)
             \/ ShareFails(t) \/ ShareClientFails(t)
             \/ \E h \in Handles, n \in Names : Construct(t, h, n)
      PROVE  shared' = shared
  BY <1>6 DEF RegisterUnixCrashHandlers, AtexitFails, SigactionFails,
              CreateClientFails, CreateChannelFails, ShareFails,
              ShareClientFails, Construct, p7
<1>7. ASSUME NEW h \in Handles,
             DefaultConstruct(h) \/ \E g \in Handles : Swap(g, h)
      PROVE  shared' = shared
  BY <1>7 DEF DefaultConstruct, Swap, p7
<1>8. QED
  BY <1>2, <1>3, <1>4, <1>5, <1>6, <1>7, LifecycleAssumption
     DEF HandleStep, Next, ConstructorStep

(* What a step does to the pointers to clients: they are new only where a  *)
(* constructor has found or shared "main" or creates a channel on it.      *)
LEMMA ClientPointers ==
  ASSUME IndInv, IndInv', AnchorInv, HandleStep
  PROVE  /\ \A o \in Objs : client'[o] # NULL =>
              client'[o] = shared[MainKey] /\ shared[MainKey] # NULL
         /\ \A t \in Threads :
              pc'[t] \in {"create", "share", "pin", "close", "unwind"} =>
                \/ local'[t] = shared[MainKey] /\ shared[MainKey] # NULL
                \/ local'[t] = shared'[MainKey]
<1> USE DEF IndInv
<1> DEFINE Held == {"create", "share", "pin", "close", "unwind"}
           Clients == \A o \in Objs : client'[o] # NULL =>
                        client'[o] = shared[MainKey] /\ shared[MainKey] # NULL
           Locals == \A t \in Threads : pc'[t] \in Held =>
                       \/ local'[t] = shared[MainKey] /\ shared[MainKey] # NULL
                       \/ local'[t] = shared'[MainKey]
<1>1. \A o \in Objs : client[o] # NULL =>
        client[o] = shared[MainKey] /\ shared[MainKey] # NULL
  BY DEF AnchorInv
<1>2. \A t \in Threads : pc[t] \in Held =>
        local[t] = shared[MainKey] /\ shared[MainKey] # NULL
  BY DEF AnchorInv, FrameInv
<1>3. ASSUME NEW x \in Objs, refs[x] > 0, Release(x)
      PROVE  Clients
  BY <1>1, <1>3, ReleaseCounts
<1>4. ASSUME NEW h \in Handles, Destroy(h)
      PROVE  Clients /\ Locals
  <2>1. pc' = pc /\ local' = local
    BY <1>4 DEF Destroy, frame
  <2>2. CASE handle[h] = NULL
    BY <1>1, <1>2, <1>4, <2>1, <2>2 DEF Destroy, p7
  <2>3. CASE handle[h] # NULL
    <3>1. handle[h] \in Objs /\ refs[handle[h]] > 0 /\ Release(handle[h])
      BY <1>4, <2>3, OwnedIsLive DEF Destroy, TypeOK
    <3>2. QED
      BY <1>2, <1>3, <2>1, <3>1
  <2>4. QED
    BY <2>2, <2>3
<1>5. ASSUME NEW t \in Threads, CloseClient(t) \/ Unwind(t)
      PROVE  Clients /\ Locals
  <2>1. pc[t] \in {"close", "unwind"} /\ Release(local[t])
    BY <1>5 DEF CloseClient, Unwind
  <2>2. local[t] \in Objs /\ refs[local[t]] > 0
    BY <2>1, OwnedIsLive DEF FrameInv, TypeOK
  <2>3. pc' = [pc EXCEPT ![t] = "idle"] /\ local' = [local EXCEPT ![t] = NULL]
    BY <1>5 DEF CloseClient, Unwind, Return, Throw, Leave
  <2>4. QED
    BY <1>2, <1>3, <2>1, <2>2, <2>3 DEF TypeOK
<1>6. ASSUME NEW t \in Threads, Share(t)
      PROVE  Clients /\ Locals
  BY <1>1, <1>2, <1>6 DEF Share, Goto, TypeOK
<1>7. ASSUME NEW t \in Threads, ShareClient(t)
      PROVE  Clients /\ Locals
  <2>1. Clients
    BY <1>1, <1>7 DEF ShareClient
  <2>2. \A u \in Threads \ {t} : pc'[u] = pc[u] /\ local'[u] = local[u]
    BY <1>7 DEF ShareClient, Return, Throw, Leave, Goto, TypeOK
  <2>3. pc'[t] \in Held => local'[t] = shared'[MainKey]
    <3>1. SUFFICES ASSUME pc'[t] \in Held
                   PROVE  local'[t] = shared'[MainKey]
      OBVIOUS
    <3>2. /\ shared' = [shared EXCEPT ![ClientKey(t)] = local[t]]
          /\ Kind(t) # "client" /\ local' = local
      BY <1>7, <3>1 DEF ShareClient, Return, Throw, Leave, Goto, TypeOK
    <3>3. QED
      BY <3>2, MainIsKey DEF ClientKey, MainKey, TypeOK
  <2>4. QED
    BY <1>2, <2>1, <2>2, <2>3
<1>8. ASSUME NEW t \in Threads, GetSharedClient(t)
      PROVE  Clients /\ Locals
  <2>1. Clients
    BY <1>1, <1>8 DEF GetSharedClient
  <2>2. \A u \in Threads \ {t} : pc'[u] = pc[u] /\ local'[u] = local[u]
    BY <1>8 DEF GetSharedClient, Return, Leave, Goto, TypeOK
  <2>3. pc'[t] \in Held => local'[t] = shared[MainKey] /\ shared[MainKey] # NULL
    BY <1>8 DEF GetSharedClient, Return, Leave, Goto, TypeOK, ClientKey, MainKey
  <2>4. QED
    BY <1>2, <2>1, <2>2, <2>3
<1>9. ASSUME NEW t \in Threads, NEW o \in Objs, CreateChannel(t, o)
      PROVE  Clients /\ Locals
  <2>1. pc[t] = "create" /\ client' = [client EXCEPT ![o] = local[t]] /\ local' = local
    BY <1>9 DEF CreateChannel, Create
  <2>2. pc' = [pc EXCEPT ![t] = "share"]
    BY <1>9 DEF CreateChannel, Goto
  <2>3. QED
    BY <1>1, <1>2, <2>1, <2>2 DEF TypeOK
<1>10. ASSUME NEW t \in Threads, NEW o \in Objs, CreateClient(t, o)
       PROVE  Clients /\ Locals
  <2>1. client' = [client EXCEPT ![o] = NULL] /\ local' = [local EXCEPT ![t] = o]
    BY <1>10 DEF CreateClient, Create
  <2>2. pc' = [pc EXCEPT ![t] = "share_client"]
    BY <1>10 DEF CreateClient, Goto
  <2>3. QED
    BY <1>1, <1>2, <2>1, <2>2 DEF TypeOK
<1>11. ASSUME NEW t \in Threads, GetShared(t) \/ AddRefTelemetry(t)
                                 \/ CreateChannelFails(t) \/ ShareFails(t)
       PROVE  Clients /\ Locals
  <2>1. client' = client /\ local' = local
    BY <1>11 DEF GetShared, AddRefTelemetry, CreateChannelFails, ShareFails, p7
  <2>2. \A u \in Threads : pc'[u] \in Held => pc[u] \in Held
    BY <1>11 DEF GetShared, AddRefTelemetry, CreateChannelFails, ShareFails, Return,
                 Leave, Goto, TypeOK
  <2>3. QED
    BY <1>1, <1>2, <2>1, <2>2
<1>12. ASSUME NEW t \in Threads,
              \/ RegisterUnixCrashHandlers(t) \/ AtexitFails(t)
              \/ SigactionFails(t) \/ CreateClientFails(t)
              \/ \E h \in Handles, n \in Names : Construct(t, h, n)
       PROVE  Clients /\ Locals
  <2>1. client' = client /\ local' = local
    BY <1>12 DEF RegisterUnixCrashHandlers, AtexitFails, SigactionFails,
                 CreateClientFails, Construct, p7
  <2>2. \A u \in Threads : pc'[u] \in Held => pc[u] \in Held
    BY <1>12 DEF RegisterUnixCrashHandlers, AtexitFails, SigactionFails,
                 CreateClientFails, Construct, Throw, Leave, Goto, TypeOK
  <2>3. QED
    BY <1>1, <1>2, <2>1, <2>2
<1>13. ASSUME NEW h \in Handles,
              DefaultConstruct(h) \/ \E g \in Handles : Swap(g, h)
       PROVE  Clients /\ Locals
  BY <1>1, <1>2, <1>13 DEF DefaultConstruct, Swap, p7, frame
<1>14. ASSUME NEW t \in Threads, ShareClientFails(t)
       PROVE  Clients /\ Locals
  <2>1. client' = client /\ \A u \in Threads \ {t} : local'[u] = local[u]
    BY <1>14 DEF ShareClientFails, p7, TypeOK
  <2>2. \A u \in Threads : pc'[u] \in Held => u # t /\ pc[u] \in Held
    BY <1>14 DEF ShareClientFails, Throw, Leave, TypeOK
  <2>3. QED
    BY <1>1, <1>2, <2>1, <2>2
<1>15. Clients /\ Locals
  BY <1>4, <1>5, <1>6, <1>7, <1>8, <1>9, <1>10, <1>11, <1>12, <1>13, <1>14,
     LifecycleAssumption DEF HandleStep, Next, ConstructorStep
<1>16. QED
  BY <1>15

(* "main" is never exchanged under a channel, nor under a constructor that *)
(* is about to create one.                                                 *)
LEMMA AnchorNext ==
  ASSUME IndInv, IndInv', AnchorInv, HandleStep
  PROVE  AnchorInv'
<1>1. NoDangling'
  BY NoDanglingNext DEF IndInv
<1>2. ASSUME NEW c \in Objs, c = shared[MainKey], shared[MainKey] # NULL, refs'[c] > 0
      PROVE  shared'[MainKey] = c
  BY <1>2, SharedKept, MainIsKey
<1>3. ASSUME NEW o \in Objs, client'[o] # NULL
      PROVE  client'[o] = shared'[MainKey]
  <2>1. client'[o] = shared[MainKey] /\ shared[MainKey] # NULL
    BY <1>3, ClientPointers
  <2>2. client'[o] \in Objs
    BY <1>3 DEF IndInv, TypeOK
  <2>3. refs'[client'[o]] > 0
    BY <1>1, <1>3 DEF NoDangling, Live
  <2>4. QED
    BY <1>2, <2>1, <2>2, <2>3
<1>4. ASSUME NEW t \in Threads,
             pc'[t] \in {"create", "share", "pin", "close", "unwind"}
      PROVE  local'[t] = shared'[MainKey]
  <2>1. local'[t] \in Objs /\ local'[t] # NULL
    BY <1>4 DEF IndInv, TypeOK, FrameInv
  <2>2. refs'[local'[t]] > 0
    BY <1>1, <2>1 DEF NoDangling, Live
  <2>3. QED
    BY <1>2, <1>4, <2>1, <2>2, ClientPointers
<1>5. QED
  BY <1>3, <1>4 DEF AnchorInv

(* An object with the extra reference of Add_Ref() is a channel.           *)
PinnedInv == \A o \in pinned : client[o] # NULL

(* It remains one, for it is never destroyed.                              *)
LEMMA PinnedNext ==
  ASSUME IndInv, IndInv', PinnedInv, HandleStep
  PROVE  PinnedInv'
<1> DEFINE Keep(o) == client[o] # NULL /\ refs'[o] > 0 => client'[o] # NULL
<1>1. ASSUME NEW x \in Objs, Release(x), NEW o \in Objs PROVE Keep(o)
  BY <1>1 DEF Release, IndInv, TypeOK
<1>2. ASSUME NEW h \in Handles, Destroy(h), NEW o \in Objs PROVE Keep(o)
  <2>1. CASE handle[h] = NULL
    BY <1>2, <2>1 DEF Destroy, p7
  <2>2. CASE handle[h] # NULL
    BY <1>1, <1>2, <2>2 DEF Destroy, IndInv, TypeOK
  <2>3. QED
    BY <2>1, <2>2
<1>3. ASSUME NEW t \in Threads, CloseClient(t) \/ Unwind(t), NEW o \in Objs
      PROVE  Keep(o)
  <2>1. local[t] \in Objs /\ Release(local[t])
    BY <1>3 DEF CloseClient, Unwind, IndInv, TypeOK, FrameInv
  <2>2. QED
    BY <1>1, <2>1
<1>4. ASSUME NEW t \in Threads, NEW x \in Objs,
             CreateClient(t, x) \/ CreateChannel(t, x), NEW o \in Objs
      PROVE  Keep(o)
  <2>1. PICK c : refs[x] = 0 /\ client' = [client EXCEPT ![x] = c]
    BY <1>4 DEF CreateClient, CreateChannel, Create
  <2>2. client[x] = NULL
    BY <2>1 DEF IndInv, RoleInv
  <2>3. client \in [Objs -> Objs \cup {NULL}]
    BY DEF IndInv, TypeOK
  <2>4. QED
    BY <2>1, <2>2, <2>3
<1>5. ASSUME NEW t \in Threads,
             \/ GetShared(t) \/ GetSharedClient(t) \/ RegisterUnixCrashHandlers(t)
             \/ AtexitFails(t) \/ SigactionFails(t) \/ CreateClientFails(t)
             \/ ShareClient(t) \/ CreateChannelFails(t) \/ Share(t)
             \/ ShareClientFails(t) \/ ShareFails(t) \/ AddRefTelemetry(t)
             \/ \E h \in Handles, n \in Names : Construct(t, h, n)
      PROVE  client' = client
  BY <1>5 DEF GetShared, GetSharedClient, RegisterUnixCrashHandlers, AtexitFails,
              SigactionFails, CreateClientFails, ShareClient, CreateChannelFails,
              Share, ShareClientFails, ShareFails, AddRefTelemetry, Construct, p7
<1>6. \A o \in Objs : Keep(o)
  <2>1. ASSUME NEW t \in Threads, ConstructorStep(t), NEW o \in Objs
        PROVE  Keep(o)
    BY <1>3, <1>4, <1>5, <2>1 DEF ConstructorStep
  <2>2. ASSUME NEW t \in Threads, NEW h \in Handles, NEW n \in Names,
               Construct(t, h, n), NEW o \in Objs
        PROVE  Keep(o)
    BY <1>5, <2>2
  <2>3. ASSUME NEW h \in Handles, DefaultConstruct(h) \/ \E g \in Handles : Swap(g, h),
               NEW o \in Objs
        PROVE  Keep(o)
    BY <2>3 DEF DefaultConstruct, Swap, p7
  <2>4. QED
    BY <1>2, <2>1, <2>2, <2>3, LifecycleAssumption DEF HandleStep, Next
<1>7. \A o \in pinned' : o \in pinned \/ \E t \in Threads : o = self[t] /\ AddRefTelemetry(t)
  BY LifecycleAssumption
     DEF HandleStep, Next, ConstructorStep, GetShared, GetSharedClient,
         RegisterUnixCrashHandlers, AtexitFails, SigactionFails, CreateClientFails,
         CreateClient, ShareClient, CreateChannelFails, CreateChannel, Share,
         ShareClientFails, ShareFails, AddRefTelemetry, CloseClient, Unwind,
         Construct, Destroy,
         DefaultConstruct, Swap, ghost
<1>8. ASSUME NEW t \in Threads, AddRefTelemetry(t) PROVE client'[self[t]] # NULL
  BY <1>8 DEF AddRefTelemetry, IndInv, FrameInv, RoleInv
<1>9. \A o \in pinned' : o \in Objs /\ refs'[o] > 0
  BY PinnedIsLiveNext DEF PinnedLive, IndInv, TypeOK
<1>10. QED
  BY <1>6, <1>7, <1>8, <1>9 DEF PinnedInv

(* A constructor of a Log or Telemetry creates a client only where there   *)
(* is none with the name "main".                                           *)
LEMMA NoClientFound ==
  ASSUME IndInv, HandleStep, NEW t \in Threads,
         pc[t] = "get_client", pc'[t] = "register"
  PROVE  shared[ClientKey(t)] = NULL
<1>1. pc \in [Threads -> PCs]
  BY DEF IndInv, TypeOK
<1>2. CASE pc' = pc
  BY <1>2
<1>3. ASSUME NEW u \in Threads, NEW l \in PCs, pc' = [pc EXCEPT ![u] = l],
             pc[u] # "get_client" \/ l # "register"
      PROVE  FALSE
  BY <1>1, <1>3
<1>4. ASSUME NEW u \in Threads, GetSharedClient(u)
      PROVE  shared[ClientKey(t)] = NULL
  <2>1. CASE shared[ClientKey(u)] # NULL
    BY <1>1, <1>4, <2>1 DEF GetSharedClient, Goto, Return, Leave
  <2>2. CASE shared[ClientKey(u)] = NULL
    BY <1>1, <1>4, <2>2 DEF GetSharedClient, Goto
  <2>3. QED
    BY <2>1, <2>2
<1>5. ASSUME NEW u \in Threads,
             \/ GetShared(u) \/ RegisterUnixCrashHandlers(u) \/ AtexitFails(u)
             \/ SigactionFails(u) \/ CreateClientFails(u) \/ CreateChannelFails(u)
             \/ ShareClient(u) \/ Share(u) \/ AddRefTelemetry(u)
             \/ ShareClientFails(u) \/ ShareFails(u)
             \/ CloseClient(u) \/ Unwind(u)
             \/ \E o \in Objs : CreateClient(u, o) \/ CreateChannel(u, o)
      PROVE  pc[u] # "get_client" /\ \E l \in PCs : pc' = [pc EXCEPT ![u] = l]
  <2>1. pc[u] # "get_client"
    BY <1>5 DEF GetShared, RegisterUnixCrashHandlers, AtexitFails, SigactionFails,
                CreateClientFails, CreateChannelFails, ShareClient, Share,
                ShareClientFails, ShareFails, AddRefTelemetry, CloseClient, Unwind, CreateClient, CreateChannel
  <2>2. \E l \in PCs : pc' = [pc EXCEPT ![u] = l]
    BY <1>5 DEF GetShared, RegisterUnixCrashHandlers, AtexitFails, SigactionFails,
                CreateClientFails, CreateChannelFails, ShareClient, Share,
                ShareClientFails, ShareFails, AddRefTelemetry, CloseClient, Unwind, CreateClient, CreateChannel,
                Goto, Return, Throw, Leave, PCs
  <2>3. QED
    BY <2>1, <2>2
<1>6. CASE \E u \in Threads : ConstructorStep(u)
  BY <1>3, <1>4, <1>5, <1>6 DEF ConstructorStep
<1>7. ASSUME NEW u \in Threads, NEW h \in Handles, NEW n \in Names,
             Construct(u, h, n)
      PROVE  FALSE
  <2>1. \E l \in {"get", "get_client"} : pc' = [pc EXCEPT ![u] = l]
    BY <1>7 DEF Construct
  <2>2. QED
    BY <1>3, <2>1 DEF PCs
<1>8. CASE \/ \E h \in Handles : DefaultConstruct(h) \/ Destroy(h)
           \/ \E g, h \in Handles : Swap(g, h)
  BY <1>2, <1>8 DEF DefaultConstruct, Destroy, Swap, frame
<1>9. QED
  BY <1>6, <1>7, <1>8, LifecycleAssumption DEF HandleStep, Next

(* The invariant of the refinement.                                        *)
THEOREM Anchor == Spec => [](IndInv /\ AnchorInv)
<1>1. Init => AnchorInv
  BY DEF Init, AnchorInv
<1>2. IndInv /\ IndInv' /\ AnchorInv /\ [Next]_vars => AnchorInv'
  <2>1. CASE UNCHANGED vars
    BY <2>1 DEF vars, AnchorInv
  <2>2. CASE Next
    BY <2>2, AnchorNext DEF HandleStep
  <2>3. QED
    BY <2>1, <2>2
<1>3. QED
  BY <1>1, <1>2, Invariant, PTL DEF Spec

(* A shared channel holds the client that is found as "main".              *)
LEMMA OutlivesState == IndInv /\ AnchorInv => ClientOutlivesChannels
<1>1. ASSUME IndInv, AnchorInv, NEW k \in Present, k[1] # "client"
      PROVE  /\ shared[MainKey] # NULL
             /\ client[shared[k]] = shared[MainKey]
  <2>1. k \in Keys /\ shared[k] \in Objs /\ shared[k] # NULL
    BY <1>1 DEF Present, IndInv, TypeOK
  <2>2. client[shared[k]] # NULL
    BY <1>1, <2>1 DEF IndInv, RoleInv
  <2>3. QED
    BY <1>1, <2>1, <2>2 DEF AnchorInv
<1>2. QED
  BY <1>1 DEF ClientOutlivesChannels, MainKey

(* The same in the next state.                                             *)
LEMMA OutlivesNext == IndInv' /\ AnchorInv' => ClientOutlivesChannels'
BY OutlivesState, PTL

(* The client "main" outlives every channel created on it, however many    *)
(* threads race for it and whatever fails.                                 *)
THEOREM ClientOutlives == Spec => []ClientOutlivesChannels
BY Anchor, OutlivesState, PTL

-----------------------------------------------------------------------------
(* The refinement mapping.                                                 *)

(* A handle stands for the one name its object is shared under.            *)
ChanRight ==
  \A h \in Handles :
    /\ handle[h] \notin Objs => Chan[h] = handle[h]
    /\ \A k \in Keys : handle[h] \in Objs /\ shared[k] = handle[h] => Chan[h] = k
    /\ handle[h] \in Objs =>
         Chan[h] \in Keys /\ Chan[h][1] = HandleKind[h] /\ shared[Chan[h]] = handle[h]

(* It does so in every state the invariant allows.                         *)
LEMMA ChanOf == IndInv => ChanRight
<1> SUFFICES ASSUME IndInv, NEW h \in Handles
             PROVE  /\ handle[h] \notin Objs => Chan[h] = handle[h]
                    /\ \A k \in Keys : handle[h] \in Objs /\ shared[k] = handle[h]
                                         => Chan[h] = k
                    /\ handle[h] \in Objs =>
                         Chan[h] \in Keys /\ Chan[h][1] = HandleKind[h]
                           /\ shared[Chan[h]] = handle[h]
  BY DEF ChanRight
<1>1. ASSUME handle[h] \notin Objs
      PROVE  Chan[h] = handle[h]
  BY <1>1 DEF Chan
<1>2. ASSUME handle[h] \in Objs, NEW k \in Keys, shared[k] = handle[h]
      PROVE  Chan[h] = k
  <2>1. shared[k] # NULL
    BY <1>2, LifecycleAssumption
  <2>2. \A m \in Keys : shared[m] = handle[h] => m = k
    BY <1>2, <2>1 DEF IndInv, NameInv
  <2>3. (CHOOSE m \in Keys : shared[m] = handle[h]) = k
    BY <1>2, <2>2
  <2>4. QED
    BY <1>2, <2>3 DEF Chan, KeyOf
<1>3. ASSUME handle[h] \in Objs
      PROVE  Chan[h] \in Keys /\ Chan[h][1] = HandleKind[h] /\ shared[Chan[h]] = handle[h]
  <2>1. PICK n \in Names : shared[<<HandleKind[h], n>>] = handle[h]
    BY <1>3 DEF IndInv, HandleInv
  <2>2. <<HandleKind[h], n>> \in Keys
    BY LifecycleAssumption DEF Keys
  <2>3. QED
    BY <1>2, <1>3, <2>1, <2>2
<1>4. QED
  BY <1>1, <1>2, <1>3

(* The same in the next state.                                             *)
LEMMA ChanOfNext == IndInv' => ChanRight'
BY ChanOf, PTL

(* A handle whose pointer stays stands for what it stood for.              *)
LEMMA ChanStays ==
  ASSUME IndInv, IndInv', HandleStep, NEW h \in Handles, handle'[h] = handle[h]
  PROVE  Chan'[h] = Chan[h]
<1>1. CASE handle[h] \notin Objs
  BY <1>1, ChanOf, ChanOfNext DEF ChanRight
<1>2. CASE handle[h] \in Objs
  <2>1. Chan[h] \in Keys /\ shared[Chan[h]] = handle[h] /\ handle[h] # NULL
    BY <1>2, ChanOf, LifecycleAssumption DEF ChanRight
  <2>2. refs'[handle[h]] > 0
    BY <1>2, NoDanglingNext DEF IndInv, NoDangling, Live
  <2>3. shared'[Chan[h]] = handle'[h]
    BY <2>1, <2>2, SharedKept
  <2>4. QED
    BY <1>2, <2>1, <2>3, ChanOfNext DEF ChanRight
<1>3. QED
  BY <1>1, <1>2

(* The mapping is a function of the handles.                               *)
LEMMA ChanFunction ==
  /\ Chan = [h \in Handles |-> Chan[h]]
  /\ Chan' = [h \in Handles |-> Chan'[h]]
BY DEF Chan

(* If no pointer changes, no handle stands for another channel.            *)
LEMMA AllChanStay ==
  ASSUME IndInv, IndInv', HandleStep, UNCHANGED handle
  PROVE  UNCHANGED Chan
BY ChanStays, ChanFunction

(* One handle is built or destroyed.                                       *)
LEMMA ChanMoves ==
  ASSUME IndInv, IndInv', HandleStep, NEW h \in Handles, NEW o,
         handle' = [handle EXCEPT ![h] = o]
  PROVE  Chan' = [Chan EXCEPT ![h] = Chan'[h]]
<1>1. \A g \in Handles \ {h} : Chan'[g] = Chan[g]
  BY ChanStays DEF IndInv, TypeOK
<1>2. QED
  BY <1>1, ChanFunction

(* If no name changes, the channels are those they were.                   *)
LEMMA PresentStays ==
  ASSUME UNCHANGED shared
  PROVE  UNCHANGED Present
BY DEF Present

(* A name is made known.                                                   *)
LEMMA PresentGrows ==
  ASSUME IndInv, NEW k \in Keys, NEW o \in Objs,
         shared[k] = NULL, shared' = [shared EXCEPT ![k] = o]
  PROVE  k \notin Present /\ Present' = Present \cup {k}
BY LifecycleAssumption DEF Present, IndInv, TypeOK

(* Every channel sends through the client "main".                          *)
LEMMA AnchoredNow ==
  ClientOutlivesChannels => Channels!Anchored(Present)
BY MainIsKey DEF ClientOutlivesChannels, Channels!Anchored, Present, MainKey

(* The same in the next state.                                             *)
LEMMA AnchoredNext ==
  ClientOutlivesChannels' => Channels!Anchored(Present')
BY MainIsKey DEF ClientOutlivesChannels, Channels!Anchored, Present, MainKey

(* Both specifications name channels alike.                                *)
LEMMA SameKeys == Channels!Keys = Keys
BY DEF Channels!Keys, Keys, Kinds

(* A step that shares nothing takes no channel away that is in use.        *)
LEMMA Fades ==
  ASSUME IndInv, IndInv', AnchorInv', HandleStep,
         \A k \in Keys : shared'[k] # NULL => shared[k] # NULL
  PROVE  Channels!Fade
<1>1. Present' \subseteq Present
  BY DEF Present
<1>2. {k \in Present : k[1] = "telemetry"} \subseteq Present'
  BY TelemetryKept DEF Present
<1>3. ASSUME NEW k \in Keys, NEW h \in Handles, Chan'[h] = k, k \in Present
      PROVE  k \in Present'
  <2>1. CASE handle'[h] \in Objs
    <3>1. shared'[k] = handle'[h]
      BY <1>3, <2>1, ChanOfNext DEF ChanRight
    <3>2. QED
      BY <1>3, <2>1, <3>1, LifecycleAssumption DEF Present
  <2>2. CASE handle'[h] \notin Objs
    <3>1. handle'[h] \in {NULL, Unbuilt}
      BY <2>2 DEF IndInv, TypeOK
    <3>2. QED
      BY <1>3, <2>2, <3>1, ChanOfNext, RefinementAssumption DEF ChanRight
  <2>3. QED
    BY <2>1, <2>2
<1>4. Channels!InUse(Chan') \cap Present \subseteq Present'
  BY <1>3, SameKeys DEF Channels!InUse
<1>5. ClientOutlivesChannels'
  BY OutlivesNext
<1>6. QED
  BY <1>1, <1>2, <1>4, <1>5, AnchoredNext DEF Channels!Fade

-----------------------------------------------------------------------------
(* Every step of the handles is one of the channels, or none.              *)

(* A constructor that has found or shared its object opens its handle.     *)
LEMMA Opens ==
  ASSUME IndInv, IndInv', HandleStep, NEW t \in Threads, pc[t] # "idle",
         NEW o \in Objs, shared[Key(t)] = o,
         handle' = [handle EXCEPT ![target[t]] = o], UNCHANGED shared
  PROVE  Channels!Open(target[t], Key(t))
<1> DEFINE h == target[t]
           k == Key(t)
<1>1. h \in Handles /\ k \in Keys /\ handle[h] = Unbuilt
  BY KeyType, LifecycleAssumption DEF IndInv, FrameInv
<1>2. k \in Present
  BY <1>1, LifecycleAssumption DEF Present
<1>3. Chan[h] = Unbuilt
  BY <1>1, ChanOf, LifecycleAssumption DEF ChanRight
<1>4. handle'[h] = o
  BY <1>1 DEF IndInv, TypeOK
<1>5. Chan'[h] = k
  BY <1>1, <1>4, ChanOfNext DEF ChanRight
<1>6. Chan' = [Chan EXCEPT ![h] = k]
  BY <1>1, <1>5, ChanMoves
<1>7. Channels!Fits(h, k)
  BY DEF Channels!Fits, Key, Kind
<1>8. QED
  BY <1>2, <1>3, <1>6, <1>7, PresentStays DEF Channels!Open

(* A Log or Telemetry that finds its name opens; else nothing shows.       *)
LEMMA GetSharedMaps ==
  ASSUME IndInv, IndInv', HandleStep, NEW t \in Threads, GetShared(t)
  PROVE  Channels!Next \/ UNCHANGED <<Chan, Present>>
<1>1. shared' = shared /\ pc[t] # "idle"
  BY DEF GetShared
<1>2. CASE shared[Key(t)] = NULL
  BY <1>1, <1>2, AllChanStay, PresentStays DEF GetShared
<1>3. CASE shared[Key(t)] # NULL
  <2>1. target[t] \in Handles /\ Key(t) \in Keys /\ shared[Key(t)] \in Objs
    BY <1>1, <1>3, KeyType DEF IndInv, TypeOK
  <2>2. handle' = [handle EXCEPT ![target[t]] = shared[Key(t)]]
    BY <1>3 DEF GetShared, Return
  <2>3. Channels!Open(target[t], Key(t))
    BY <1>1, <2>1, <2>2, Opens
  <2>4. QED
    BY <2>1, <2>3, SameKeys DEF Channels!Next
<1>4. QED
  BY <1>2, <1>3

(* So does a Client; a local one does not show.                            *)
LEMMA GetSharedClientMaps ==
  ASSUME IndInv, IndInv', HandleStep, NEW t \in Threads, GetSharedClient(t)
  PROVE  Channels!Next \/ UNCHANGED <<Chan, Present>>
<1>1. shared' = shared /\ pc[t] # "idle"
  BY DEF GetSharedClient
<1>2. CASE handle' = handle
  BY <1>1, <1>2, AllChanStay, PresentStays
<1>3. CASE handle' # handle
  <2>1. /\ Kind(t) = "client" /\ shared[Key(t)] # NULL
        /\ handle' = [handle EXCEPT ![target[t]] = shared[Key(t)]]
    BY <1>3 DEF GetSharedClient, Return, ClientKey
  <2>2. target[t] \in Handles /\ Key(t) \in Keys /\ shared[Key(t)] \in Objs
    BY <1>1, <2>1, KeyType DEF IndInv, TypeOK
  <2>3. Channels!Open(target[t], Key(t))
    BY <1>1, <2>1, <2>2, Opens
  <2>4. QED
    BY <2>2, <2>3, SameKeys DEF Channels!Next
<1>4. QED
  BY <1>2, <1>3

(* A Client that the program builds is found as soon as it is there, the   *)
(* local one of a Log or Telemetry before.                                 *)
LEMMA ShareClientMaps ==
  ASSUME IndInv, IndInv', AnchorInv', HandleStep, NEW t \in Threads, ShareClient(t)
  PROVE  Channels!Next \/ UNCHANGED <<Chan, Present>>
<1> DEFINE k == ClientKey(t)
           h == target[t]
<1>1. /\ pc[t] = "share_client" /\ h \in Handles /\ handle[h] = Unbuilt
      /\ Key(t) \in Keys /\ local[t] \in Objs
  BY KeyType, LifecycleAssumption DEF ShareClient, IndInv, FrameInv, TypeOK
<1>2. k \in Keys
  BY <1>1, MainIsKey DEF ClientKey, MainKey
<1>3. shared[k] = NULL
  BY DEF ShareClient
<1>4. shared' = [shared EXCEPT ![k] = local[t]]
  BY <1>3 DEF ShareClient
<1>5. k \notin Present /\ Present' = Present \cup {k}
  BY <1>1, <1>2, <1>3, <1>4, PresentGrows
<1>6. Channels!Anchored(Present')
  BY OutlivesNext, AnchoredNext
<1>7. CASE Kind(t) = "client"
  <2>1. handle' = [handle EXCEPT ![h] = local[t]] /\ k = Key(t)
    BY <1>3, <1>7 DEF ShareClient, Return, ClientKey
  <2>2. handle'[h] = local[t] /\ shared'[k] = local[t]
    BY <1>1, <1>2, <1>4, <2>1 DEF IndInv, TypeOK
  <2>3. Chan'[h] = k /\ Chan[h] = Unbuilt
    BY <1>1, <1>2, <2>2, ChanOf, ChanOfNext, LifecycleAssumption DEF ChanRight
  <2>4. Chan' = [Chan EXCEPT ![h] = k]
    BY <1>1, <2>1, <2>3, ChanMoves
  <2>5. Channels!Fits(h, k)
    BY <2>1 DEF Channels!Fits, Key, Kind
  <2>6. Channels!PublishOpen(h, k)
    BY <1>5, <1>6, <2>3, <2>4, <2>5 DEF Channels!PublishOpen
  <2>7. QED
    BY <1>1, <1>2, <2>6, SameKeys DEF Channels!Next
<1>8. CASE Kind(t) # "client"
  <2>1. handle' = handle
    BY <1>3, <1>8 DEF ShareClient
  <2>2. Channels!Publish(k)
    BY <1>5, <1>6, <2>1, AllChanStay DEF Channels!Publish
  <2>3. QED
    BY <1>2, <2>2, SameKeys DEF Channels!Next
<1>9. QED
  BY <1>7, <1>8

(* A Log or Telemetry makes its name known before it is done.              *)
LEMMA ShareMaps ==
  ASSUME IndInv, IndInv', AnchorInv', HandleStep, NEW t \in Threads, Share(t)
  PROVE  Channels!Next \/ UNCHANGED <<Chan, Present>>
<1>1. pc[t] = "share" /\ Key(t) \in Keys /\ self[t] \in Objs /\ handle' = handle
  BY KeyType DEF Share, IndInv, FrameInv, TypeOK
<1>2. shared[Key(t)] = NULL /\ shared' = [shared EXCEPT ![Key(t)] = self[t]]
  BY DEF Share
<1>3. Key(t) \notin Present /\ Present' = Present \cup {Key(t)}
  BY <1>1, <1>2, PresentGrows
<1>4. Channels!Publish(Key(t))
  BY <1>1, <1>3, AllChanStay, OutlivesNext, AnchoredNext DEF Channels!Publish
<1>5. QED
  BY <1>1, <1>4, SameKeys DEF Channels!Next

(* The release of the local Client spares the client "main", which the new *)
(* channel holds.                                                          *)
LEMMA CloseClientMaps ==
  ASSUME IndInv, IndInv', AnchorInv, HandleStep, NEW t \in Threads, CloseClient(t)
  PROVE  Channels!Next \/ UNCHANGED <<Chan, Present>>
<1> DEFINE h == target[t]
           k == Key(t)
<1>1. /\ pc[t] = "close" /\ h \in Handles /\ k \in Keys
      /\ self[t] \in Objs /\ local[t] \in Objs /\ shared[k] = self[t]
      /\ handle[h] = Unbuilt /\ refs[local[t]] > 0
  BY KeyType, OwnedIsLive, LifecycleAssumption
     DEF CloseClient, IndInv, FrameInv, FreshInv, TypeOK
<1>2. Release(local[t]) /\ handle' = [handle EXCEPT ![h] = self[t]]
  BY DEF CloseClient, Return
<1>3. handle'[h] = self[t]
  BY <1>1, <1>2 DEF IndInv, TypeOK
<1>4. client[local[t]] = NULL /\ local[t] = shared[MainKey]
      /\ client[self[t]] = shared[MainKey]
  BY <1>1, LifecycleAssumption DEF IndInv, RoleInv, AnchorInv
<1>5. client' = client
  BY <1>1, <1>2, <1>4 DEF Release, IndInv, TypeOK
<1>6. refs'[local[t]] > 0
  <2>1. client'[self[t]] = local[t] /\ local[t] # NULL
    BY <1>1, <1>4, <1>5, LifecycleAssumption
  <2>2. QED
    BY <1>1, <2>1, NoDanglingNext DEF IndInv, NoDangling, Live
<1>7. \A x \in Objs : x # local[t] => refs'[x] = refs[x]
  BY <1>1, <1>2, <1>4, LifecycleAssumption DEF Release
<1>8. shared' = shared
  <2>1. ASSUME NEW m \in Keys
        PROVE  shared'[m] = shared[m]
    <3>1. CASE shared[m] = NULL
      BY <1>2, <3>1 DEF Release
    <3>2. CASE shared[m] # NULL
      <4>1. shared[m] \in Objs /\ refs[shared[m]] > 0
        BY <3>2 DEF IndInv, TypeOK, NameInv, Live
      <4>2. refs'[shared[m]] > 0
        BY <1>6, <1>7, <4>1
      <4>3. QED
        BY <3>2, <4>2, SharedKept
    <3>3. QED
      BY <3>1, <3>2
  <2>2. QED
    BY <2>1 DEF IndInv, TypeOK
<1>9. Channels!Open(h, k)
  BY <1>1, <1>2, <1>8, Opens
<1>10. QED
  BY <1>1, <1>9, SameKeys DEF Channels!Next

(* A constructor that fails may take the client "main" along.              *)
LEMMA UnwindMaps ==
  ASSUME IndInv, IndInv', AnchorInv', HandleStep, NEW t \in Threads, Unwind(t)
  PROVE  Channels!Next
<1>1. pc[t] = "unwind" /\ Release(local[t]) /\ handle' = handle
  BY DEF Unwind, Throw
<1>2. local[t] \in Objs /\ refs[local[t]] > 0
  BY <1>1, OwnedIsLive DEF IndInv, FrameInv, TypeOK
<1>3. \A k \in Keys : shared'[k] # NULL => shared[k] # NULL
  BY <1>1, <1>2, ReleaseCounts DEF IndInv
<1>4. Channels!Fade
  BY <1>3, Fades
<1>5. QED
  BY <1>1, <1>4, AllChanStay DEF Channels!Next, Channels!Abandon

(* A destructor closes the handle, and what nobody uses may go.            *)
LEMMA DestroyMaps ==
  ASSUME IndInv, IndInv', AnchorInv', HandleStep, NEW h \in Handles, Destroy(h)
  PROVE  Channels!Next
<1>1. handle[h] # Unbuilt /\ handle' = [handle EXCEPT ![h] = Unbuilt]
  BY DEF Destroy
<1>2. Chan[h] # Unbuilt
  <2>1. CASE handle[h] \in Objs
    BY <2>1, ChanOf, RefinementAssumption DEF ChanRight
  <2>2. CASE handle[h] \notin Objs
    BY <1>1, <2>2, ChanOf DEF ChanRight
  <2>3. QED
    BY <2>1, <2>2
<1>3. handle'[h] = Unbuilt
  BY <1>1 DEF IndInv, TypeOK
<1>4. Chan'[h] = Unbuilt
  BY <1>3, ChanOfNext, LifecycleAssumption DEF ChanRight
<1>5. Chan' = [Chan EXCEPT ![h] = Unbuilt]
  BY <1>1, <1>4, ChanMoves
<1>6. \A k \in Keys : shared'[k] # NULL => shared[k] # NULL
  <2>1. CASE handle[h] = NULL
    BY <2>1 DEF Destroy, p7
  <2>2. CASE handle[h] # NULL
    <3>1. handle[h] \in Objs /\ refs[handle[h]] > 0 /\ Release(handle[h])
      BY <2>2, OwnedIsLive DEF Destroy, IndInv, TypeOK
    <3>2. QED
      BY <3>1, ReleaseCounts DEF IndInv
  <2>3. QED
    BY <2>1, <2>2
<1>7. Channels!Fade
  BY <1>6, Fades
<1>8. QED
  BY <1>2, <1>5, <1>7 DEF Channels!Next, Channels!Close

(* A handle without a name stands for nothing.                             *)
LEMMA DefaultConstructMaps ==
  ASSUME IndInv, IndInv', HandleStep, NEW h \in Handles, DefaultConstruct(h)
  PROVE  Channels!Next
<1>1. handle[h] = Unbuilt /\ handle' = [handle EXCEPT ![h] = NULL] /\ shared' = shared
  BY DEF DefaultConstruct, Vacant, p7
<1>2. handle'[h] = NULL
  BY <1>1 DEF IndInv, TypeOK
<1>3. Chan[h] = Unbuilt /\ Chan'[h] = NULL
  BY <1>1, <1>2, ChanOf, ChanOfNext, LifecycleAssumption DEF ChanRight
<1>4. Chan' = [Chan EXCEPT ![h] = NULL]
  BY <1>1, <1>3, ChanMoves
<1>5. QED
  BY <1>1, <1>3, <1>4, PresentStays DEF Channels!Next, Channels!Detached

(* swap() exchanges what two handles stand for.                            *)
LEMMA SwapMaps ==
  ASSUME IndInv, IndInv', HandleStep, NEW g \in Handles, NEW h \in Handles, Swap(g, h)
  PROVE  Channels!Next
<1>1. /\ HandleKind[g] = HandleKind[h] /\ handle[g] # Unbuilt /\ handle[h] # Unbuilt
      /\ shared' = shared
      /\ handle' = [handle EXCEPT ![g] = handle[h], ![h] = handle[g]]
  BY DEF Swap, p7
<1>2. ASSUME NEW x \in Handles, NEW y \in Handles, handle'[x] = handle[y]
      PROVE  Chan'[x] = Chan[y]
  <2>1. CASE handle[y] \notin Objs
    BY <1>2, <2>1, ChanOf, ChanOfNext DEF ChanRight
  <2>2. CASE handle[y] \in Objs
    <3>1. Chan[y] \in Keys /\ shared[Chan[y]] = handle[y]
      BY <2>2, ChanOf DEF ChanRight
    <3>2. handle'[x] \in Objs /\ shared'[Chan[y]] = handle'[x]
      BY <1>1, <1>2, <2>2, <3>1
    <3>3. QED
      BY <3>1, <3>2, ChanOfNext DEF ChanRight
  <2>3. QED
    BY <2>1, <2>2
<1>3. /\ handle'[g] = handle[h] /\ handle'[h] = handle[g]
      /\ \A x \in Handles \ {g, h} : handle'[x] = handle[x]
  BY <1>1 DEF IndInv, TypeOK
<1>4. Chan' = [Chan EXCEPT ![g] = Chan[h], ![h] = Chan[g]]
  <2>1. Chan'[g] = Chan[h] /\ Chan'[h] = Chan[g]
        /\ \A x \in Handles \ {g, h} : Chan'[x] = Chan[x]
    BY <1>2, <1>3
  <2>2. QED
    BY <2>1, ChanFunction
<1>5. \A x \in Handles : handle[x] # Unbuilt => Chan[x] # Unbuilt
  BY ChanOf, RefinementAssumption DEF ChanRight
<1>6. QED
  BY <1>1, <1>4, <1>5, PresentStays DEF Channels!Next, Channels!Exchange

(* The other steps change neither a handle nor a name.                     *)
LEMMA QuietSteps ==
  ASSUME IndInv, NEW t \in Threads,
         \/ RegisterUnixCrashHandlers(t) \/ AtexitFails(t) \/ SigactionFails(t)
         \/ CreateClientFails(t) \/ CreateChannelFails(t) \/ AddRefTelemetry(t)
         \/ ShareClientFails(t) \/ ShareFails(t)
         \/ \E o \in Objs : CreateClient(t, o) \/ CreateChannel(t, o)
         \/ \E h \in Handles, n \in Names : Construct(t, h, n)
  PROVE  UNCHANGED <<handle, shared>>
BY DEF RegisterUnixCrashHandlers, AtexitFails, SigactionFails, CreateClientFails,
       CreateChannelFails, AddRefTelemetry, ShareClientFails, ShareFails,
       CreateClient, CreateChannel, Create, Construct, Throw, p7

(* Every step of the handles is a step of the channels or does not show.   *)
LEMMA StepMaps ==
  ASSUME IndInv, IndInv', AnchorInv, AnchorInv', HandleStep
  PROVE  Channels!Next \/ UNCHANGED <<Chan, Present>>
<1>1. ASSUME NEW t \in Threads,
             \/ GetShared(t) \/ GetSharedClient(t) \/ ShareClient(t) \/ Share(t)
             \/ CloseClient(t) \/ Unwind(t)
      PROVE  Channels!Next \/ UNCHANGED <<Chan, Present>>
  BY <1>1, GetSharedMaps, GetSharedClientMaps, ShareClientMaps, ShareMaps,
     CloseClientMaps, UnwindMaps
<1>2. ASSUME UNCHANGED <<handle, shared>>
      PROVE  UNCHANGED <<Chan, Present>>
  BY <1>2, AllChanStay, PresentStays
<1>3. ASSUME NEW h \in Handles,
             \/ DefaultConstruct(h) \/ Destroy(h) \/ \E g \in Handles : Swap(g, h)
      PROVE  Channels!Next
  BY <1>3, DefaultConstructMaps, DestroyMaps, SwapMaps
<1>4. CASE \E t \in Threads : ConstructorStep(t)
  BY <1>1, <1>2, <1>4, QuietSteps DEF ConstructorStep
<1>5. CASE \E t \in Threads, h \in Handles, n \in Names : Construct(t, h, n)
  BY <1>2, <1>5, QuietSteps
<1>6. CASE \/ \E h \in Handles : DefaultConstruct(h)
           \/ \E h \in Handles : Destroy(h)
           \/ \E g, h \in Handles : Swap(g, h)
  BY <1>3, <1>6
<1>7. QED
  BY <1>4, <1>5, <1>6, LifecycleAssumption DEF HandleStep, Next

(* Constructors, destructors and swap() of the handles, over counted       *)
(* pointers, in any number of threads and with any call failing, are those *)
(* of NamedChannels.                                                       *)
THEOREM Implements == Spec => ImplementsNames
<1>1. Init => Channels!Init
  BY LifecycleAssumption DEF Init, Channels!Init, Chan, Present
<1>2. IndInv /\ IndInv' /\ AnchorInv /\ AnchorInv' /\ [Next]_vars
        => [Channels!Next]_<<Chan, Present>>
  <2>1. ASSUME UNCHANGED vars
        PROVE  UNCHANGED <<Chan, Present>>
    BY <2>1 DEF vars, Chan, KeyOf, Present
  <2>2. QED
    BY <2>1, StepMaps DEF HandleStep
<1>3. QED
  BY <1>1, <1>2, Anchor, PTL DEF Spec, ImplementsNames, Channels!Spec, Channels!cvars
=============================================================================
