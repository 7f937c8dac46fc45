----------------------- MODULE HandleLifecycleProofs -----------------------
(* Machine-checked proofs about HandleLifecycle.                           *)
EXTENDS HandleLifecycle, FiniteSetTheorems, TLAPS

-----------------------------------------------------------------------------
(* Counting the owners of an object.                                       *)

(* The owners of v among the cells of a finite table are finitely many.    *)
LEMMA CountNat ==
  ASSUME NEW f, IsFiniteSet(DOMAIN f), NEW v
  PROVE  /\ Count(f, v) \in Nat
         /\ IsFiniteSet({x \in DOMAIN f : f[x] = v})
<1>1. IsFiniteSet({x \in DOMAIN f : f[x] = v})
  BY FS_Subset, {x \in DOMAIN f : f[x] = v} \subseteq DOMAIN f
<1>2. QED
  BY <1>1, FS_CardinalityType DEF Count

(* A cell that holds v is counted.                                         *)
LEMMA CountHolds ==
  ASSUME NEW f, IsFiniteSet(DOMAIN f), NEW x \in DOMAIN f
  PROVE  Count(f, f[x]) >= 1
<1> DEFINE S == {y \in DOMAIN f : f[y] = f[x]}
<1>1. IsFiniteSet(S) /\ Cardinality(S) \in Nat
  BY CountNat DEF Count
<1>2. S # {}
  OBVIOUS
<1>3. Cardinality(S) # 0
  BY <1>1, <1>2, FS_EmptySet
<1>4. QED
  BY <1>1, <1>3 DEF Count

(* Table g is table f with cell x written.                                 *)
Written(f, g, x) ==
  /\ IsFiniteSet(DOMAIN f) /\ x \in DOMAIN f
  /\ DOMAIN g = DOMAIN f /\ \A y \in DOMAIN f \ {x} : g[y] = f[y]

(* Writing one cell moves its reference from the old value to the new one. *)
LEMMA CountUpdate ==
  ASSUME NEW f, NEW g, NEW x, NEW v, Written(f, g, x)
  PROVE  Count(g, v) = Count(f, v)
           + (IF g[x] = v THEN 1 ELSE 0) - (IF f[x] = v THEN 1 ELSE 0)
<1> DEFINE S == {y \in DOMAIN f : f[y] = v}
           T == {y \in DOMAIN g : g[y] = v}
           R == {y \in DOMAIN f \ {x} : f[y] = v}
<1> USE DEF Written
<1>1. IsFiniteSet(R) /\ Cardinality(R) \in Nat /\ x \notin R
  <2>1. IsFiniteSet(S)
    BY CountNat
  <2>2. R \subseteq S
    OBVIOUS
  <2>3. QED
    BY <2>1, <2>2, FS_Subset, FS_CardinalityType
<1>2. Cardinality(R \cup {x}) = Cardinality(R) + 1
  BY <1>1, FS_AddElement
<1>3. Cardinality(S) = Cardinality(R) + (IF f[x] = v THEN 1 ELSE 0)
  <2>1. CASE f[x] = v
    <3>1. S = R \cup {x}
      BY <2>1
    <3>2. QED
      BY <1>2, <2>1, <3>1
  <2>2. CASE f[x] # v
    <3>1. S = R
      BY <2>2
    <3>2. QED
      BY <1>1, <2>2, <3>1
  <2>3. QED
    BY <2>1, <2>2
<1>4. Cardinality(T) = Cardinality(R) + (IF g[x] = v THEN 1 ELSE 0)
  <2>1. CASE g[x] = v
    <3>1. T = R \cup {x}
      BY <2>1
    <3>2. QED
      BY <1>2, <2>1, <3>1
  <2>2. CASE g[x] # v
    <3>1. T = R
      BY <2>2
    <3>2. QED
      BY <1>1, <2>2, <3>1
  <2>3. QED
    BY <2>1, <2>2
<1>5. QED
  BY <1>1, <1>3, <1>4 DEF Count

-----------------------------------------------------------------------------
(* Consequences of the invariant.                                          *)

(* The four pointer tables are finite, as the counting lemmas need.         *)
LEMMA Tables ==
  ASSUME TypeOK
  PROVE  /\ IsFiniteSet(DOMAIN handle) /\ IsFiniteSet(DOMAIN client)
         /\ IsFiniteSet(DOMAIN self) /\ IsFiniteSet(DOMAIN local)
  BY FiniteAssumption DEF TypeOK

(* Every term of Owners is a natural number.                               *)
LEMMA Shares ==
  ASSUME TypeOK, NEW o
  PROVE  /\ Count(handle, o) \in Nat /\ Count(client, o) \in Nat
         /\ Count(self, o) \in Nat /\ Count(local, o) \in Nat
         /\ Bit(o \in pinned) \in Nat /\ Bit(o \in leaked) \in Nat
<1>1. /\ Count(handle, o) \in Nat /\ Count(client, o) \in Nat
      /\ Count(self, o) \in Nat /\ Count(local, o) \in Nat
  BY Tables, CountNat
<1>2. Bit(o \in pinned) \in Nat /\ Bit(o \in leaked) \in Nat
  BY DEF Bit
<1>3. QED
  BY <1>1, <1>2

(* An object with an entry in a pointer table is alive.                    *)
LEMMA SumAtLeast ==
  ASSUME TypeOK, RefAccounting, NEW o \in Objs,
         \/ Count(handle, o) >= 1 \/ Count(self, o) >= 1
         \/ Count(local, o) >= 1 \/ Count(client, o) >= 1
  PROVE  refs[o] > 0
  BY Shares DEF RefAccounting, Owners

(* Whatever an owner points to is alive.                                   *)
LEMMA OwnedIsLive ==
  ASSUME TypeOK, RefAccounting
  PROVE  /\ \A h \in Handles : handle[h] \in Objs => refs[handle[h]] > 0
         /\ \A t \in Threads : /\ self[t] # NULL => refs[self[t]] > 0
                               /\ local[t] # NULL => refs[local[t]] > 0
         /\ \A o \in Objs : /\ client[o] # NULL => refs[client[o]] > 0
                            /\ o \in pinned \cup leaked => refs[o] > 0
<1>1. ASSUME NEW h \in Handles, handle[h] \in Objs
      PROVE  refs[handle[h]] > 0
  <2>1. Count(handle, handle[h]) >= 1
    BY Tables, CountHolds DEF TypeOK
  <2>2. handle[h] \in Objs
    BY <1>1 DEF TypeOK
  <2>3. QED
    BY <2>1, <2>2, SumAtLeast DEF RefAccounting
<1>2. ASSUME NEW t \in Threads, self[t] # NULL
      PROVE  refs[self[t]] > 0
  <2>1. Count(self, self[t]) >= 1
    BY Tables, CountHolds DEF TypeOK
  <2>2. self[t] \in Objs
    BY <1>2 DEF TypeOK
  <2>3. QED
    BY <2>1, <2>2, SumAtLeast DEF RefAccounting
<1>3. ASSUME NEW t \in Threads, local[t] # NULL
      PROVE  refs[local[t]] > 0
  <2>1. Count(local, local[t]) >= 1
    BY Tables, CountHolds DEF TypeOK
  <2>2. local[t] \in Objs
    BY <1>3 DEF TypeOK
  <2>3. QED
    BY <2>1, <2>2, SumAtLeast DEF RefAccounting
<1>4. ASSUME NEW o \in Objs, client[o] # NULL
      PROVE  refs[client[o]] > 0
  <2>1. Count(client, client[o]) >= 1
    BY Tables, CountHolds DEF TypeOK
  <2>2. client[o] \in Objs
    BY <1>4 DEF TypeOK
  <2>3. QED
    BY <2>1, <2>2, SumAtLeast DEF RefAccounting
<1>5. ASSUME NEW o \in Objs, o \in pinned \cup leaked
      PROVE  refs[o] > 0
  BY <1>5, Shares DEF TypeOK, RefAccounting, Owners, Bit
<1>6. QED
  BY <1>1, <1>2, <1>3, <1>4, <1>5

(* The same after a step.                                                  *)
LEMMA NoDanglingInv == TypeOK /\ RefAccounting /\ NameInv => NoDangling
  BY OwnedIsLive DEF NoDangling, NameInv, Live

(* The invariant keeps pointers live in the next state as well.            *)
LEMMA NoDanglingNext ==
  TypeOK' /\ RefAccounting' /\ NameInv' => NoDangling'
  BY NoDanglingInv, PTL

(* Each action preserves the invariant.                                    *)

(* Entering a constructor claims a vacant slot and moves no pointer.       *)
LEMMA ConstructInv ==
  ASSUME IndInv, NEW t \in Threads, NEW h \in Handles, NEW n \in Names,
         Construct(t, h, n)
  PROVE  IndInv'
<1> USE DEF IndInv
<1>1. TypeOK'
  BY LifecycleAssumption DEF TypeOK, PCs, Construct, Idle, Vacant, p7, hooks, ghost
<1>2. FrameInv'
  BY LifecycleAssumption DEF FrameInv, TypeOK, Kind, Construct, Idle, Vacant, p7, hooks, ghost
<1>3. RefAccounting'
  BY LifecycleAssumption DEF RefAccounting, Owners, Construct, Idle, Vacant, p7, hooks, ghost
<1>4. RoleInv'
  BY LifecycleAssumption DEF RoleInv, TypeOK, Construct, Idle, Vacant, p7, hooks, ghost
<1>5. NameInv'
  BY LifecycleAssumption DEF NameInv, TypeOK, Live, Construct, Idle, Vacant, p7, hooks, ghost
<1>6. HandleInv'
  BY LifecycleAssumption DEF HandleInv, TypeOK, Construct, Idle, Vacant, p7, hooks, ghost
<1>7. FreshInv'
  BY LifecycleAssumption DEF FreshInv, FrameInv, TypeOK, Key, Kind, Construct, Idle, Vacant, p7, hooks, ghost
<1>8. GhostInv'
  BY LifecycleAssumption DEF GhostInv, FrameInv, TypeOK, Construct, Idle, Vacant, p7, hooks, ghost
<1>9. HookInv'
  BY LifecycleAssumption DEF HookInv, ArmedBeforeLogging, Live, FrameInv, TypeOK, Construct, Idle, Vacant, p7, hooks, ghost
<1>10. PinInv'
  BY LifecycleAssumption DEF PinInv, FrameInv, TypeOK, Construct, Idle, Vacant, p7, hooks, ghost
<1>11. QED
  BY <1>1, <1>2, <1>3, <1>4, <1>5, <1>6, <1>7, <1>8, <1>9, <1>10

(* A default-constructed handle holds nullptr.                             *)
LEMMA DefaultConstructInv ==
  ASSUME IndInv, NEW h \in Handles,
         DefaultConstruct(h)
  PROVE  IndInv'
<1> USE DEF IndInv
<1>1. TypeOK'
  BY LifecycleAssumption DEF TypeOK, PCs, DefaultConstruct, Vacant, p7, frame, hooks, ghost
<1>2. FrameInv'
  BY LifecycleAssumption DEF FrameInv, TypeOK, Kind, DefaultConstruct, Vacant, p7, frame, hooks, ghost
<1>3. RefAccounting'
  <2> SUFFICES ASSUME NEW o \in Objs PROVE (refs[o] = Owners(o))'
    BY DEF RefAccounting
  <2>1. Written(handle, handle', h) /\ handle'[h] = NULL /\ handle[h] = Unbuilt
    BY Tables DEF DefaultConstruct, Vacant, Written, TypeOK
  <2>2. Count(handle', o) = Count(handle, o) + 0 - 0
    BY <2>1, CountUpdate, LifecycleAssumption
  <2>3. QED
    BY <2>2, Shares DEF RefAccounting, Owners, DefaultConstruct, p7, frame, ghost
<1>4. RoleInv'
  BY LifecycleAssumption DEF RoleInv, TypeOK, DefaultConstruct, Vacant, p7, frame, hooks, ghost
<1>5. NameInv'
  BY LifecycleAssumption DEF NameInv, TypeOK, Live, DefaultConstruct, Vacant, p7, frame, hooks, ghost
<1>6. HandleInv'
  BY LifecycleAssumption DEF HandleInv, TypeOK, DefaultConstruct, Vacant, p7, frame, hooks, ghost
<1>7. FreshInv'
  BY LifecycleAssumption DEF FreshInv, FrameInv, TypeOK, Key, Kind, DefaultConstruct, Vacant, p7, frame, hooks, ghost
<1>8. GhostInv'
  BY LifecycleAssumption DEF GhostInv, FrameInv, TypeOK, DefaultConstruct, Vacant, p7, frame, hooks, ghost
<1>9. HookInv'
  BY LifecycleAssumption DEF HookInv, ArmedBeforeLogging, Live, FrameInv, TypeOK, DefaultConstruct, Vacant, p7, frame, hooks, ghost
<1>10. PinInv'
  BY LifecycleAssumption DEF PinInv, FrameInv, TypeOK, DefaultConstruct, Vacant, p7, frame, hooks, ghost
<1>11. QED
  BY <1>1, <1>2, <1>3, <1>4, <1>5, <1>6, <1>7, <1>8, <1>9, <1>10

(* Installing the handlers changes the hooks and the label only.           *)
LEMMA RegisterUnixCrashHandlersInv ==
  ASSUME IndInv, NEW t \in Threads,
         RegisterUnixCrashHandlers(t)
  PROVE  IndInv'
<1> USE DEF IndInv
<1>1. TypeOK'
  BY LifecycleAssumption DEF TypeOK, PCs, RegisterUnixCrashHandlers, Goto, p7, ghost
<1>2. FrameInv'
  BY LifecycleAssumption DEF FrameInv, TypeOK, Kind, RegisterUnixCrashHandlers, Goto, p7, ghost
<1>3. RefAccounting'
  BY LifecycleAssumption DEF RefAccounting, Owners, RegisterUnixCrashHandlers, Goto, p7, ghost
<1>4. RoleInv'
  BY LifecycleAssumption DEF RoleInv, TypeOK, RegisterUnixCrashHandlers, Goto, p7, ghost
<1>5. NameInv'
  BY LifecycleAssumption DEF NameInv, TypeOK, Live, RegisterUnixCrashHandlers, Goto, p7, ghost
<1>6. HandleInv'
  BY LifecycleAssumption DEF HandleInv, TypeOK, RegisterUnixCrashHandlers, Goto, p7, ghost
<1>7. FreshInv'
  BY LifecycleAssumption DEF FreshInv, FrameInv, TypeOK, Key, Kind, RegisterUnixCrashHandlers, Goto, p7, ghost
<1>8. GhostInv'
  BY LifecycleAssumption DEF GhostInv, FrameInv, TypeOK, RegisterUnixCrashHandlers, Goto, p7, ghost
<1>9. HookInv'
  BY LifecycleAssumption DEF HookInv, ArmedBeforeLogging, Live, FrameInv, TypeOK, RegisterUnixCrashHandlers, Goto, p7, ghost
<1>10. PinInv'
  BY LifecycleAssumption DEF PinInv, FrameInv, TypeOK, RegisterUnixCrashHandlers, Goto, p7, ghost
<1>11. QED
  BY <1>1, <1>2, <1>3, <1>4, <1>5, <1>6, <1>7, <1>8, <1>9, <1>10

(* A failing std::atexit() leaves an empty frame: nothing was allocated.   *)
LEMMA AtexitFailsInv ==
  ASSUME IndInv, NEW t \in Threads,
         AtexitFails(t)
  PROVE  IndInv'
<1> USE DEF IndInv
<1>1. TypeOK'
  BY LifecycleAssumption DEF TypeOK, PCs, AtexitFails, Throw, Leave, p7, ghost
<1>2. FrameInv'
  BY LifecycleAssumption DEF FrameInv, TypeOK, Kind, AtexitFails, Throw, Leave, p7, ghost
<1>3. RefAccounting'
  BY LifecycleAssumption DEF RefAccounting, Owners, AtexitFails, Throw, Leave, p7, ghost
<1>4. RoleInv'
  BY LifecycleAssumption DEF RoleInv, TypeOK, AtexitFails, Throw, Leave, p7, ghost
<1>5. NameInv'
  BY LifecycleAssumption DEF NameInv, TypeOK, Live, AtexitFails, Throw, Leave, p7, ghost
<1>6. HandleInv'
  BY LifecycleAssumption DEF HandleInv, TypeOK, AtexitFails, Throw, Leave, p7, ghost
<1>7. FreshInv'
  BY LifecycleAssumption DEF FreshInv, FrameInv, TypeOK, Key, Kind, AtexitFails, Throw, Leave, p7, ghost
<1>8. GhostInv'
  BY LifecycleAssumption DEF GhostInv, FrameInv, TypeOK, AtexitFails, Throw, Leave, p7, ghost
<1>9. HookInv'
  BY LifecycleAssumption DEF HookInv, ArmedBeforeLogging, Live, FrameInv, TypeOK, AtexitFails, Throw, Leave, p7, ghost
<1>10. PinInv'
  BY LifecycleAssumption DEF PinInv, FrameInv, TypeOK, AtexitFails, Throw, Leave, p7, ghost
<1>11. QED
  BY <1>1, <1>2, <1>3, <1>4, <1>5, <1>6, <1>7, <1>8, <1>9, <1>10

(* So does a failing sigaction().                                          *)
LEMMA SigactionFailsInv ==
  ASSUME IndInv, NEW t \in Threads,
         SigactionFails(t)
  PROVE  IndInv'
<1> USE DEF IndInv
<1>1. TypeOK'
  BY LifecycleAssumption DEF TypeOK, PCs, SigactionFails, Leave, p7, ghost
<1>2. FrameInv'
  BY LifecycleAssumption DEF FrameInv, TypeOK, Kind, SigactionFails, Leave, p7, ghost
<1>3. RefAccounting'
  BY LifecycleAssumption DEF RefAccounting, Owners, SigactionFails, Leave, p7, ghost
<1>4. RoleInv'
  BY LifecycleAssumption DEF RoleInv, TypeOK, SigactionFails, Leave, p7, ghost
<1>5. NameInv'
  BY LifecycleAssumption DEF NameInv, TypeOK, Live, SigactionFails, Leave, p7, ghost
<1>6. HandleInv'
  BY LifecycleAssumption DEF HandleInv, TypeOK, SigactionFails, Leave, p7, ghost
<1>7. FreshInv'
  BY LifecycleAssumption DEF FreshInv, FrameInv, TypeOK, Key, Kind, SigactionFails, Leave, p7, ghost
<1>8. GhostInv'
  BY LifecycleAssumption DEF GhostInv, FrameInv, TypeOK, SigactionFails, Leave, p7, ghost
<1>9. HookInv'
  BY LifecycleAssumption DEF HookInv, ArmedBeforeLogging, Live, FrameInv, TypeOK, SigactionFails, Leave, p7, ghost
<1>10. PinInv'
  BY LifecycleAssumption DEF PinInv, FrameInv, TypeOK, SigactionFails, Leave, p7, ghost
<1>11. QED
  BY <1>1, <1>2, <1>3, <1>4, <1>5, <1>6, <1>7, <1>8, <1>9, <1>10

(* So does a failing P7_Create_Client().                                   *)
LEMMA CreateClientFailsInv ==
  ASSUME IndInv, NEW t \in Threads,
         CreateClientFails(t)
  PROVE  IndInv'
<1> USE DEF IndInv
<1>1. TypeOK'
  BY LifecycleAssumption DEF TypeOK, PCs, CreateClientFails, Throw, Leave, p7, ghost
<1>2. FrameInv'
  BY LifecycleAssumption DEF FrameInv, TypeOK, Kind, CreateClientFails, Throw, Leave, p7, ghost
<1>3. RefAccounting'
  BY LifecycleAssumption DEF RefAccounting, Owners, CreateClientFails, Throw, Leave, p7, ghost
<1>4. RoleInv'
  BY LifecycleAssumption DEF RoleInv, TypeOK, CreateClientFails, Throw, Leave, p7, ghost
<1>5. NameInv'
  BY LifecycleAssumption DEF NameInv, TypeOK, Live, CreateClientFails, Throw, Leave, p7, ghost
<1>6. HandleInv'
  BY LifecycleAssumption DEF HandleInv, TypeOK, CreateClientFails, Throw, Leave, p7, ghost
<1>7. FreshInv'
  BY LifecycleAssumption DEF FreshInv, FrameInv, TypeOK, Key, Kind, CreateClientFails, Throw, Leave, p7, ghost
<1>8. GhostInv'
  BY LifecycleAssumption DEF GhostInv, FrameInv, TypeOK, CreateClientFails, Throw, Leave, p7, ghost
<1>9. HookInv'
  BY LifecycleAssumption DEF HookInv, ArmedBeforeLogging, Live, FrameInv, TypeOK, CreateClientFails, Throw, Leave, p7, ghost
<1>10. PinInv'
  BY LifecycleAssumption DEF PinInv, FrameInv, TypeOK, CreateClientFails, Throw, Leave, p7, ghost
<1>11. QED
  BY <1>1, <1>2, <1>3, <1>4, <1>5, <1>6, <1>7, <1>8, <1>9, <1>10

(* A failing P7_Create_Trace() leaves the local client to the unwinding.   *)
LEMMA CreateChannelFailsInv ==
  ASSUME IndInv, NEW t \in Threads,
         CreateChannelFails(t)
  PROVE  IndInv'
<1> USE DEF IndInv
<1>1. TypeOK'
  BY LifecycleAssumption DEF TypeOK, PCs, CreateChannelFails, Goto, p7, hooks, ghost
<1>2. FrameInv'
  BY LifecycleAssumption DEF FrameInv, TypeOK, Kind, CreateChannelFails, Goto, p7, hooks, ghost
<1>3. RefAccounting'
  BY LifecycleAssumption DEF RefAccounting, Owners, CreateChannelFails, Goto, p7, hooks, ghost
<1>4. RoleInv'
  BY LifecycleAssumption DEF RoleInv, TypeOK, CreateChannelFails, Goto, p7, hooks, ghost
<1>5. NameInv'
  BY LifecycleAssumption DEF NameInv, TypeOK, Live, CreateChannelFails, Goto, p7, hooks, ghost
<1>6. HandleInv'
  BY LifecycleAssumption DEF HandleInv, TypeOK, CreateChannelFails, Goto, p7, hooks, ghost
<1>7. FreshInv'
  BY LifecycleAssumption DEF FreshInv, FrameInv, TypeOK, Key, Kind, CreateChannelFails, Goto, p7, hooks, ghost
<1>8. GhostInv'
  BY LifecycleAssumption DEF GhostInv, FrameInv, TypeOK, CreateChannelFails, Goto, p7, hooks, ghost
<1>9. HookInv'
  BY LifecycleAssumption DEF HookInv, ArmedBeforeLogging, Live, FrameInv, TypeOK, CreateChannelFails, Goto, p7, hooks, ghost
<1>10. PinInv'
  BY LifecycleAssumption DEF PinInv, FrameInv, TypeOK, CreateChannelFails, Goto, p7, hooks, ghost
<1>11. QED
  BY <1>1, <1>2, <1>3, <1>4, <1>5, <1>6, <1>7, <1>8, <1>9, <1>10

(* The deliberate Add_Ref() is matched by its entry in pinned.             *)
LEMMA AddRefTelemetryInv ==
  ASSUME IndInv, NEW t \in Threads, AddRefTelemetry(t)
  PROVE  IndInv'
<1> DEFINE s == self[t]
<1> USE DEF IndInv
<1>1. /\ s \in Objs /\ s \notin pinned /\ refs[s] \in Nat /\ pc[t] = "pin"
      /\ refs' = [refs EXCEPT ![s] = refs[s] + 1] /\ pinned' = pinned \cup {s}
  BY DEF AddRefTelemetry, AddRef, FrameInv, GhostInv, TypeOK
<1>2. \A o \in Objs : /\ refs'[o] = refs[o] + (IF o = s THEN 1 ELSE 0)
                      /\ refs'[o] \in Nat
                      /\ refs[o] > 0 => refs'[o] > 0
                      /\ refs'[o] > 0 => refs[o] > 0 \/ o = s
  BY <1>1 DEF TypeOK
<1> HIDE DEF s
<1>3. refs[s] > 0 /\ client[s] # NULL
  BY <1>1, OwnedIsLive, LifecycleAssumption DEF s, FrameInv, RoleInv
<1>4. TypeOK'
  BY <1>1, <1>2 DEF AddRefTelemetry, Goto, hooks, TypeOK, PCs
<1>5. FrameInv'
  BY <1>1 DEF AddRefTelemetry, Goto, hooks, FrameInv, TypeOK, Kind
<1>6. RefAccounting'
  <2> SUFFICES ASSUME NEW o \in Objs PROVE (refs[o] = Owners(o))'
    BY DEF RefAccounting
  <2>1. Bit(o \in pinned') = Bit(o \in pinned) + (IF o = s THEN 1 ELSE 0)
    BY <1>1 DEF Bit
  <2>2. refs[o] = Owners(o) /\ refs'[o] = refs[o] + (IF o = s THEN 1 ELSE 0)
    BY <1>2 DEF RefAccounting
  <2>3. QED
    BY <2>1, <2>2, Shares DEF AddRefTelemetry, hooks, Owners
<1>7. RoleInv'
  BY <1>1, <1>2, <1>3 DEF AddRefTelemetry, hooks, RoleInv, TypeOK
<1>8. NameInv'
  BY <1>2 DEF AddRefTelemetry, NameInv, Live, TypeOK
<1>9. HandleInv'
  BY DEF AddRefTelemetry, HandleInv
<1>10. FreshInv'
  BY <1>1 DEF AddRefTelemetry, Goto, FreshInv, FrameInv, TypeOK, Key, Kind
<1>11. GhostInv'
  BY <1>1, <1>3 DEF s, AddRefTelemetry, Goto, GhostInv, FreshInv, FrameInv, RoleInv, TypeOK
<1>12. HookInv'
  BY <1>1, <1>2, <1>3 DEF AddRefTelemetry, Goto, hooks, HookInv, ArmedBeforeLogging, Live, TypeOK
<1>13. PinInv'
  BY <1>1 DEF s, AddRefTelemetry, Goto, PinInv, TypeOK
<1>14. QED
  BY <1>4, <1>5, <1>6, <1>7, <1>8, <1>9, <1>10, <1>11, <1>12, <1>13

(* Share() gives the new object its name.                               *)
LEMMA ShareInv ==
  ASSUME IndInv, NEW t \in Threads, Share(t)
  PROVE  IndInv'
<1> DEFINE s == self[t]
           k == Key(t)
<1> USE DEF IndInv
<1>1. /\ s \in Objs /\ s # NULL /\ client[s] # NULL /\ refs[s] > 0
      /\ pc[t] = "share" /\ target[t] # NULL
      /\ k \in Keys /\ k[1] = Kind(t) /\ Kind(t) \in {"trace", "telemetry"}
  BY LifecycleAssumption, OwnedIsLive
     DEF Share, FrameInv, RoleInv, TypeOK, Key, Keys, Kind, Kinds
<1>2. shared[k] = NULL
  BY DEF Share
<1>3. /\ shared' = [shared EXCEPT ![k] = s]
      /\ pc' = [pc EXCEPT ![t] = IF Kind(t) = "telemetry" THEN "pin" ELSE "close"]
      /\ UNCHANGED <<target, name, self, leaked, pinned, refs, client, handle,
                     local, atexit, armed>>
  BY DEF Share, Goto, hooks, ghost
<1>4. TypeOK'
  BY <1>1, <1>3 DEF TypeOK, PCs
<1>5. FrameInv'
  BY <1>1, <1>3 DEF FrameInv, TypeOK, Kind
<1>6. RefAccounting'
  BY <1>3 DEF RefAccounting, Owners
<1>7. RoleInv'
  BY <1>1, <1>3 DEF RoleInv, TypeOK
<1>8. NameInv'
  BY <1>1, <1>3 DEF NameInv, FreshInv, Live, TypeOK
<1>9. HandleInv'
  <2> HIDE DEF s, k
  <2> SUFFICES ASSUME NEW h \in Handles, handle[h] \in Objs
               PROVE  \E n \in Names : shared'[<<HandleKind[h], n>>] = handle[h]
    BY <1>3 DEF HandleInv
  <2>1. PICK n \in Names : shared[<<HandleKind[h], n>>] = handle[h]
    BY DEF HandleInv
  <2>2. <<HandleKind[h], n>> \in Keys /\ <<HandleKind[h], n>> # k
    BY <1>2, <2>1, LifecycleAssumption DEF Keys
  <2>3. QED
    BY <1>3, <2>1, <2>2 DEF TypeOK
<1>10. FreshInv'
  <2> HIDE DEF s, k
  <2>1. k = Key(t) /\ s = self[t] /\ \A u \in Threads : Key(u)' = Key(u)
    BY <1>3 DEF k, s, Key, Kind
  <2>2. \A u \in Threads : u # t => self[u] # s
    BY <1>1, <2>1 DEF FreshInv
  <2>3. \A u \in Threads : local[u] # s
    BY <1>1, LifecycleAssumption DEF RoleInv
  <2>4. QED
    BY <1>1, <1>2, <1>3, <2>1, <2>2, <2>3 DEF FreshInv, FrameInv, TypeOK
<1>11. GhostInv'
  BY <1>1, <1>3 DEF GhostInv, TypeOK
<1>12. HookInv'
  BY <1>1, <1>3 DEF HookInv, ArmedBeforeLogging, Live, TypeOK
<1>13. PinInv'
  BY <1>1, <1>3 DEF PinInv, TypeOK
<1>14. QED
  BY <1>4, <1>5, <1>6, <1>7, <1>8, <1>9, <1>10, <1>11, <1>12, <1>13

(* A Share() that fails leaves the new object to the exception.            *)
LEMMA ShareFailsInv ==
  ASSUME IndInv, NEW t \in Threads, ShareFails(t)
  PROVE  IndInv'
<1> DEFINE s == self[t]
<1> USE DEF IndInv
<1>1. /\ s \in Objs /\ s # NULL /\ client[s] # NULL /\ refs[s] > 0
      /\ pc[t] = "share" /\ target[t] # NULL
  BY LifecycleAssumption, OwnedIsLive
     DEF ShareFails, FrameInv, RoleInv, TypeOK, Key, Keys, Kind, Kinds
<1>2. /\ leaked' = leaked \cup {s}
      /\ self' = [self EXCEPT ![t] = NULL]
      /\ pc' = [pc EXCEPT ![t] = "unwind"]
      /\ UNCHANGED <<target, name, shared, pinned, refs, client, handle,
                     local, atexit, armed>>
  BY DEF ShareFails, Goto, p7, hooks
<1>3. TypeOK'
  BY <1>1, <1>2 DEF TypeOK, PCs
<1>4. FrameInv'
  BY <1>1, <1>2 DEF FrameInv, TypeOK, Kind
<1>5. RefAccounting'
  <2> SUFFICES ASSUME NEW o \in Objs PROVE (refs[o] = Owners(o))'
    BY DEF RefAccounting
  <2>1. Written(self, self', t) /\ self'[t] = NULL
    BY <1>2, Tables DEF Written, TypeOK
  <2>2. Count(self', o) = Count(self, o) + 0 - (IF s = o THEN 1 ELSE 0)
    BY <2>1, CountUpdate, LifecycleAssumption
  <2>3. Bit(o \in leaked') = Bit(o \in leaked) + (IF s = o THEN 1 ELSE 0)
    BY <1>1, <1>2 DEF GhostInv, Bit
  <2>4. refs[o] = Owners(o)
    BY DEF RefAccounting
  <2>5. QED
    BY <1>2, <2>2, <2>3, <2>4, Shares DEF Owners
<1>6. RoleInv'
  BY <1>1, <1>2 DEF RoleInv, TypeOK
<1>7. NameInv'
  BY <1>2 DEF NameInv, Live
<1>8. HandleInv'
  BY <1>2 DEF HandleInv
<1>9. FreshInv'
  BY <1>1, <1>2 DEF FreshInv, TypeOK, Key, Kind
<1>10. GhostInv'
  BY <1>1, <1>2, LifecycleAssumption DEF GhostInv, FreshInv, FrameInv, RoleInv, TypeOK
<1>11. HookInv'
  BY <1>1, <1>2 DEF HookInv, ArmedBeforeLogging, Live, TypeOK
<1>12. PinInv'
  BY <1>1, <1>2 DEF PinInv, TypeOK
<1>13. QED
  BY <1>3, <1>4, <1>5, <1>6, <1>7, <1>8, <1>9, <1>10, <1>11, <1>12

(* client_->Share(): the same for a client; a Client handle then returns.  *)
LEMMA ShareClientInv ==
  ASSUME IndInv, NEW t \in Threads, ShareClient(t)
  PROVE  IndInv'
<1> DEFINE c == local[t]
           k == ClientKey(t)
           h == target[t]
<1> USE DEF IndInv
<1>1. /\ c \in Objs /\ c # NULL /\ client[c] = NULL /\ refs[c] > 0
      /\ pc[t] = "share_client" /\ h # NULL /\ h \in Handles
      /\ handle[h] = Unbuilt /\ self[t] = NULL
      /\ k \in Keys /\ k[1] = "client" /\ shared[k] = NULL
      /\ Kind(t) = "client" => k = <<HandleKind[h], name[t]>>
  BY LifecycleAssumption, OwnedIsLive
     DEF ShareClient, FrameInv, RoleInv, TypeOK, ClientKey, Key, Keys, Kind, Kinds
<1>2. \A u \in Threads : self[u] # c /\ (local[u] = c => u = t)
  BY <1>1 DEF RoleInv, FreshInv
<1>3. CASE Kind(t) = "client"
  <2>1. /\ shared' = [shared EXCEPT ![k] = c]
        /\ handle' = [handle EXCEPT ![h] = c]
        /\ local' = [local EXCEPT ![t] = NULL]
        /\ atexit' = IF h \in Statics /\ Len(atexit) < MaxAtexit
                     THEN Append(atexit, h) ELSE atexit
        /\ pc' = [pc EXCEPT ![t] = "idle"]
        /\ target' = [target EXCEPT ![t] = NULL]
        /\ name' = [name EXCEPT ![t] = Main]
        /\ UNCHANGED <<self, leaked, pinned, refs, client, armed>>
    BY <1>3 DEF ShareClient, Return, Leave, ghost
  <2> HIDE DEF c, k, h
  <2>2. TypeOK'
    BY <1>1, <2>1, LifecycleAssumption DEF TypeOK, PCs
  <2>3. FrameInv'
    BY <1>1, <2>1, LifecycleAssumption DEF FrameInv, TypeOK, Kind, h, c
  <2>4. RefAccounting'
    <3> SUFFICES ASSUME NEW o \in Objs PROVE (refs[o] = Owners(o))'
      BY DEF RefAccounting
    <3>1. /\ Written(local, local', t) /\ local'[t] = NULL /\ local[t] = c
          /\ Written(handle, handle', h) /\ handle'[h] = c
      BY <1>1, <2>1, Tables DEF Written, TypeOK, c
    <3>2. Count(local', o) = Count(local, o) + 0 - (IF c = o THEN 1 ELSE 0)
      BY <3>1, CountUpdate, LifecycleAssumption
    <3>3. Count(handle', o) = Count(handle, o) + (IF c = o THEN 1 ELSE 0) - 0
      BY <1>1, <3>1, CountUpdate, LifecycleAssumption
    <3>4. refs[o] = Owners(o)
      BY DEF RefAccounting
    <3>5. QED
      BY <2>1, <3>2, <3>3, <3>4, Shares DEF Owners
  <2>5. RoleInv'
    BY <1>1, <2>1 DEF RoleInv, TypeOK
  <2>6. NameInv'
    BY <1>1, <2>1 DEF NameInv, FreshInv, Live, TypeOK, c
  <2>7. HandleInv'
    <3> SUFFICES ASSUME NEW g \in Handles, handle'[g] \in Objs
                 PROVE  \E n \in Names : shared'[<<HandleKind[g], n>>] = handle'[g]
      BY DEF HandleInv
    <3>1. CASE g = h
      BY <1>1, <1>3, <2>1, <3>1 DEF TypeOK
    <3>2. CASE g # h
      <4>1. PICK n \in Names : shared[<<HandleKind[g], n>>] = handle[g]
        BY <2>1, <3>2 DEF HandleInv, TypeOK
      <4>2. <<HandleKind[g], n>> \in Keys /\ <<HandleKind[g], n>> # k
        BY <1>1, <1>3, <2>1, <3>2, <4>1, LifecycleAssumption DEF Keys, TypeOK
      <4>3. QED
        BY <2>1, <3>2, <4>1, <4>2 DEF TypeOK
    <3>3. QED
      BY <3>1, <3>2
  <2>8. FreshInv'
    <3>1. \A u \in Threads : u # t => /\ pc'[u] = pc[u] /\ local'[u] = local[u]
                                      /\ Key(u)' = Key(u)
      BY <2>1 DEF TypeOK, Key, Kind
    <3>2. pc'[t] = "idle"
      BY <2>1 DEF TypeOK
    <3>3. \A u \in Threads : Key(u) = k => Kind(u) = "client"
      BY <1>1 DEF Key
    <3>4. QED
      BY <1>1, <1>2, <2>1, <3>1, <3>2, <3>3 DEF FreshInv, FrameInv, TypeOK, c
  <2>9. GhostInv'
    BY <1>1, <2>1 DEF GhostInv, TypeOK
  <2>10. HookInv'
    BY <1>1, <2>1 DEF HookInv, ArmedBeforeLogging, Live, TypeOK
  <2>11. PinInv'
    BY <1>1, <2>1 DEF PinInv, TypeOK
  <2>12. QED
    BY <2>2, <2>3, <2>4, <2>5, <2>6, <2>7, <2>8, <2>9, <2>10, <2>11
<1>4. CASE Kind(t) # "client"
  <2>1. /\ shared' = [shared EXCEPT ![k] = c]
        /\ pc' = [pc EXCEPT ![t] = "create"]
        /\ UNCHANGED <<target, name, self, local, handle, leaked, pinned, refs,
                       client, atexit, armed>>
    BY <1>4 DEF ShareClient, Goto, ghost
  <2> HIDE DEF c, k, h
  <2>2. TypeOK'
    BY <1>1, <2>1 DEF TypeOK, PCs
  <2>3. FrameInv'
    BY <1>1, <1>4, <2>1 DEF FrameInv, TypeOK, Kind, c, h
  <2>4. RefAccounting'
    BY <2>1 DEF RefAccounting, Owners
  <2>5. RoleInv'
    BY <1>1, <2>1 DEF RoleInv, TypeOK
  <2>6. NameInv'
    BY <1>1, <2>1 DEF NameInv, FreshInv, Live, TypeOK, c
  <2>7. HandleInv'
    <3> SUFFICES ASSUME NEW g \in Handles, handle[g] \in Objs
                 PROVE  \E n \in Names : shared'[<<HandleKind[g], n>>] = handle[g]
      BY <2>1 DEF HandleInv
    <3>1. PICK n \in Names : shared[<<HandleKind[g], n>>] = handle[g]
      BY DEF HandleInv
    <3>2. <<HandleKind[g], n>> \in Keys /\ <<HandleKind[g], n>> # k
      BY <1>1, <1>4, <3>1, LifecycleAssumption DEF Keys
    <3>3. QED
      BY <2>1, <3>1, <3>2 DEF TypeOK
  <2>8. FreshInv'
    <3>1. \A u \in Threads : Key(u)' = Key(u)
      BY <2>1 DEF Key, Kind
    <3>2. \A u \in Threads : Key(u) = k => Kind(u) = "client"
      BY <1>1 DEF Key
    <3>3. QED
      BY <1>1, <1>2, <2>1, <3>1, <3>2 DEF FreshInv, FrameInv, TypeOK, c
  <2>9. GhostInv'
    BY <1>1, <2>1 DEF GhostInv, TypeOK
  <2>10. HookInv'
    BY <1>1, <2>1 DEF HookInv, ArmedBeforeLogging, Live, TypeOK
  <2>11. PinInv'
    BY <1>1, <2>1 DEF PinInv, TypeOK
  <2>12. QED
    BY <2>2, <2>3, <2>4, <2>5, <2>6, <2>7, <2>8, <2>9, <2>10, <2>11
<1>5. QED
  BY <1>3, <1>4

(* When it fails, the exception loses the client.                          *)
LEMMA ShareClientFailsInv ==
  ASSUME IndInv, NEW t \in Threads, ShareClientFails(t)
  PROVE  IndInv'
<1> DEFINE c == local[t]
           h == target[t]
<1> USE DEF IndInv
<1>1. /\ c \in Objs /\ c # NULL /\ client[c] = NULL /\ refs[c] > 0
      /\ pc[t] = "share_client" /\ h # NULL /\ h \in Handles
      /\ handle[h] = Unbuilt /\ self[t] = NULL
  BY LifecycleAssumption, OwnedIsLive
     DEF ShareClientFails, FrameInv, RoleInv, TypeOK, ClientKey, Key, Keys, Kind, Kinds
<1>2. \A u \in Threads : self[u] # c /\ (local[u] = c => u = t)
  BY <1>1 DEF RoleInv, FreshInv
<1>3. /\ leaked' = leaked \cup {c}
      /\ local' = [local EXCEPT ![t] = NULL]
      /\ pc' = [pc EXCEPT ![t] = "idle"]
      /\ target' = [target EXCEPT ![t] = NULL]
      /\ name' = [name EXCEPT ![t] = Main]
      /\ UNCHANGED <<self, handle, shared, pinned, refs, client, atexit, armed>>
  BY DEF ShareClientFails, Throw, Leave, p7
<1> HIDE DEF c, h
<1>4. TypeOK'
  BY <1>1, <1>3, LifecycleAssumption DEF TypeOK, PCs
<1>5. FrameInv'
  BY <1>1, <1>3, LifecycleAssumption DEF FrameInv, TypeOK, Kind
<1>6. RefAccounting'
  <2> SUFFICES ASSUME NEW o \in Objs PROVE (refs[o] = Owners(o))'
    BY DEF RefAccounting
  <2>1. Written(local, local', t) /\ local'[t] = NULL /\ local[t] = c
    BY <1>1, <1>3, Tables DEF Written, TypeOK, c
  <2>2. Count(local', o) = Count(local, o) + 0 - (IF c = o THEN 1 ELSE 0)
    BY <2>1, CountUpdate, LifecycleAssumption
  <2>3. Bit(o \in leaked') = Bit(o \in leaked) + (IF c = o THEN 1 ELSE 0)
    BY <1>1, <1>3 DEF GhostInv, Bit, c
  <2>4. refs[o] = Owners(o)
    BY DEF RefAccounting
  <2>5. QED
    BY <1>3, <2>2, <2>3, <2>4, Shares DEF Owners
<1>7. RoleInv'
  BY <1>1, <1>3 DEF RoleInv, TypeOK
<1>8. NameInv'
  BY <1>3 DEF NameInv, Live
<1>9. HandleInv'
  BY <1>3 DEF HandleInv
<1>10. FreshInv'
  BY <1>1, <1>3 DEF FreshInv, FrameInv, TypeOK, Key, Kind
<1>11. GhostInv'
  BY <1>1, <1>2, <1>3 DEF GhostInv, TypeOK
<1>12. HookInv'
  BY <1>1, <1>3 DEF HookInv, ArmedBeforeLogging, Live, TypeOK
<1>13. PinInv'
  BY <1>1, <1>3 DEF PinInv, TypeOK
<1>14. QED
  BY <1>4, <1>5, <1>6, <1>7, <1>8, <1>9, <1>10, <1>11, <1>12, <1>13

(* P7_Get_Shared*(): a further reference on an object that has a name.     *)
LEMMA AddRefCounts ==
  ASSUME TypeOK, NEW c \in Objs, AddRef(c), NEW o \in Objs
  PROVE  /\ refs' \in [Objs -> Nat]
         /\ refs'[o] = refs[o] + (IF c = o THEN 1 ELSE 0)
         /\ refs[o] > 0 => refs'[o] > 0
         /\ refs'[o] > 0 => refs[o] > 0 \/ o = c
  BY DEF TypeOK, AddRef

(* A trace or telemetry found by name gets one reference and one handle.   *)
LEMMA GetSharedInv ==
  ASSUME IndInv, NEW t \in Threads, GetShared(t)
  PROVE  IndInv'
<1> DEFINE k == Key(t)
           c == shared[k]
           h == target[t]
<1> USE DEF IndInv
<1>1. /\ pc[t] = "get" /\ h \in Handles /\ h # NULL /\ handle[h] = Unbuilt
      /\ k \in Keys /\ k = <<HandleKind[h], name[t]>>
      /\ self[t] = NULL /\ local[t] = NULL
  BY LifecycleAssumption DEF GetShared, FrameInv, TypeOK, Key, Keys, Kind, Kinds
<1>2. CASE c = NULL
  <2>1. /\ pc' = [pc EXCEPT ![t] = "get_client"]
        /\ UNCHANGED <<refs, client, shared, handle, target, name, self, local,
                       atexit, armed, pinned, leaked>>
    BY <1>2 DEF GetShared, Goto, ghost
  <2> HIDE DEF k, c, h
  <2>2. TypeOK'
    BY <2>1 DEF TypeOK, PCs
  <2>3. FrameInv'
    BY <1>1, <2>1 DEF FrameInv, TypeOK, Kind
  <2>4. RefAccounting'
    BY <2>1 DEF RefAccounting, Owners
  <2>5. RoleInv'
    BY <2>1 DEF RoleInv
  <2>6. NameInv'
    BY <2>1 DEF NameInv, Live
  <2>7. HandleInv'
    BY <2>1 DEF HandleInv
  <2>8. FreshInv'
    BY <2>1 DEF FreshInv, TypeOK, Key, Kind
  <2>9. GhostInv'
    BY <2>1 DEF GhostInv, TypeOK
  <2>10. HookInv'
    BY <2>1 DEF HookInv, ArmedBeforeLogging, Live, TypeOK
  <2>11. PinInv'
    BY <1>1, <2>1 DEF PinInv, TypeOK
  <2>12. QED
    BY <2>2, <2>3, <2>4, <2>5, <2>6, <2>7, <2>8, <2>9, <2>10, <2>11
<1>3. CASE c # NULL
  <2>1. /\ AddRef(c) /\ c \in Objs /\ refs[c] > 0
        /\ handle' = [handle EXCEPT ![h] = c]
        /\ atexit' = IF h \in Statics /\ Len(atexit) < MaxAtexit
                     THEN Append(atexit, h) ELSE atexit
        /\ pc' = [pc EXCEPT ![t] = "idle"]
        /\ target' = [target EXCEPT ![t] = NULL]
        /\ name' = [name EXCEPT ![t] = Main]
        /\ UNCHANGED <<client, shared, self, local, armed, pinned, leaked>>
    BY <1>1, <1>3 DEF GetShared, Return, Leave, ghost, NameInv, Live, TypeOK
  <2> HIDE DEF k, c, h
  <2>2. TypeOK'
    BY <1>1, <2>1, AddRefCounts, LifecycleAssumption DEF TypeOK, PCs
  <2>3. FrameInv'
    BY <1>1, <2>1, LifecycleAssumption DEF FrameInv, TypeOK, Kind, h
  <2>4. RefAccounting'
    <3> SUFFICES ASSUME NEW o \in Objs PROVE (refs[o] = Owners(o))'
      BY DEF RefAccounting
    <3>1. Written(handle, handle', h) /\ handle'[h] = c
      BY <1>1, <2>1, Tables DEF Written, TypeOK
    <3>2. Count(handle', o) = Count(handle, o) + (IF c = o THEN 1 ELSE 0) - 0
      BY <1>1, <3>1, CountUpdate, LifecycleAssumption
    <3>3. refs[o] = Owners(o) /\ refs'[o] = refs[o] + (IF c = o THEN 1 ELSE 0)
      BY <2>1, AddRefCounts DEF RefAccounting
    <3>4. QED
      BY <2>1, <3>2, <3>3, Shares, SMTT(30) DEF Owners
  <2>5. RoleInv'
    BY <2>1, AddRefCounts, LifecycleAssumption DEF RoleInv, TypeOK
  <2>6. NameInv'
    BY <2>1, AddRefCounts DEF NameInv, Live, TypeOK
  <2>7. HandleInv'
    BY <1>1, <2>1, LifecycleAssumption DEF HandleInv, TypeOK, c
  <2>8. FreshInv'
    BY <2>1 DEF FreshInv, FrameInv, TypeOK, Key, Kind
  <2>9. GhostInv'
    BY <2>1 DEF GhostInv, TypeOK
  <2>10. HookInv'
    BY <2>1, AddRefCounts DEF HookInv, ArmedBeforeLogging, Live, TypeOK
  <2>11. PinInv'
    BY <1>1, <2>1 DEF PinInv, TypeOK
  <2>12. QED
    BY <2>2, <2>3, <2>4, <2>5, <2>6, <2>7, <2>8, <2>9, <2>10, <2>11
<1>4. QED
  BY <1>2, <1>3

(* A client found by name goes to a handle or to the local Client.         *)
LEMMA GetSharedClientInv ==
  ASSUME IndInv, NEW t \in Threads, GetSharedClient(t)
  PROVE  IndInv'
<1> DEFINE k == ClientKey(t)
           c == shared[k]
           h == target[t]
<1> USE DEF IndInv
<1>1. /\ pc[t] = "get_client" /\ h \in Handles /\ h # NULL /\ handle[h] = Unbuilt
      /\ k \in Keys /\ k[1] = "client" /\ self[t] = NULL /\ local[t] = NULL
      /\ Kind(t) = "client" => k = <<HandleKind[h], name[t]>>
  BY LifecycleAssumption
     DEF GetSharedClient, FrameInv, TypeOK, ClientKey, Key, Keys, Kind, Kinds
<1>2. CASE c = NULL
  <2>1. /\ pc' = [pc EXCEPT ![t] = "register"]
        /\ UNCHANGED <<refs, client, shared, handle, target, name, self, local,
                       atexit, armed, pinned, leaked>>
    BY <1>2 DEF GetSharedClient, Goto, ghost
  <2> HIDE DEF k, c, h
  <2>2. TypeOK'
    BY <2>1 DEF TypeOK, PCs
  <2>3. FrameInv'
    BY <1>1, <2>1 DEF FrameInv, TypeOK, Kind
  <2>4. RefAccounting'
    BY <2>1 DEF RefAccounting, Owners
  <2>5. RoleInv'
    BY <2>1 DEF RoleInv
  <2>6. NameInv'
    BY <2>1 DEF NameInv, Live
  <2>7. HandleInv'
    BY <2>1 DEF HandleInv
  <2>8. FreshInv'
    BY <2>1 DEF FreshInv, TypeOK, Key, Kind
  <2>9. GhostInv'
    BY <2>1 DEF GhostInv, TypeOK
  <2>10. HookInv'
    BY <2>1 DEF HookInv, ArmedBeforeLogging, Live, TypeOK
  <2>11. PinInv'
    BY <1>1, <2>1 DEF PinInv, TypeOK
  <2>12. QED
    BY <2>2, <2>3, <2>4, <2>5, <2>6, <2>7, <2>8, <2>9, <2>10, <2>11
<1>3. CASE c # NULL /\ Kind(t) = "client"
  <2>1. /\ AddRef(c) /\ c \in Objs /\ refs[c] > 0
        /\ handle' = [handle EXCEPT ![h] = c]
        /\ atexit' = IF h \in Statics /\ Len(atexit) < MaxAtexit
                     THEN Append(atexit, h) ELSE atexit
        /\ pc' = [pc EXCEPT ![t] = "idle"]
        /\ target' = [target EXCEPT ![t] = NULL]
        /\ name' = [name EXCEPT ![t] = Main]
        /\ UNCHANGED <<client, shared, self, local, armed, pinned, leaked>>
    BY <1>1, <1>3 DEF GetSharedClient, Return, Leave, ghost, NameInv, Live, TypeOK
  <2> HIDE DEF k, c, h
  <2>2. TypeOK'
    BY <1>1, <2>1, AddRefCounts, LifecycleAssumption DEF TypeOK, PCs
  <2>3. FrameInv'
    BY <1>1, <2>1, LifecycleAssumption DEF FrameInv, TypeOK, Kind, h
  <2>4. RefAccounting'
    <3> SUFFICES ASSUME NEW o \in Objs PROVE (refs[o] = Owners(o))'
      BY DEF RefAccounting
    <3>1. Written(handle, handle', h) /\ handle'[h] = c
      BY <1>1, <2>1, Tables DEF Written, TypeOK
    <3>2. Count(handle', o) = Count(handle, o) + (IF c = o THEN 1 ELSE 0) - 0
      BY <1>1, <3>1, CountUpdate, LifecycleAssumption
    <3>3. refs[o] = Owners(o) /\ refs'[o] = refs[o] + (IF c = o THEN 1 ELSE 0)
      BY <2>1, AddRefCounts DEF RefAccounting
    <3>4. QED
      BY <2>1, <3>2, <3>3, Shares DEF Owners
  <2>5. RoleInv'
    BY <2>1, AddRefCounts, LifecycleAssumption DEF RoleInv, TypeOK
  <2>6. NameInv'
    BY <2>1, AddRefCounts DEF NameInv, Live, TypeOK
  <2>7. HandleInv'
    BY <1>1, <1>3, <2>1, LifecycleAssumption DEF HandleInv, TypeOK, c
  <2>8. FreshInv'
    BY <2>1 DEF FreshInv, FrameInv, TypeOK, Key, Kind
  <2>9. GhostInv'
    BY <2>1 DEF GhostInv, TypeOK
  <2>10. HookInv'
    BY <2>1, AddRefCounts DEF HookInv, ArmedBeforeLogging, Live, TypeOK
  <2>11. PinInv'
    BY <1>1, <2>1 DEF PinInv, TypeOK
  <2>12. QED
    BY <2>2, <2>3, <2>4, <2>5, <2>6, <2>7, <2>8, <2>9, <2>10, <2>11
<1>4. CASE c # NULL /\ Kind(t) # "client"
  <2>1. /\ AddRef(c) /\ c \in Objs /\ refs[c] > 0 /\ client[c] = NULL
        /\ local' = [local EXCEPT ![t] = c]
        /\ pc' = [pc EXCEPT ![t] = "create"]
        /\ UNCHANGED <<client, shared, handle, self, target, name, atexit, armed,
                       pinned, leaked>>
    BY <1>1, <1>4
       DEF GetSharedClient, Goto, ghost, NameInv, RoleInv, Live, TypeOK
  <2> HIDE DEF k, c, h
  <2>2. TypeOK'
    BY <1>1, <2>1, AddRefCounts DEF TypeOK, PCs
  <2>3. FrameInv'
    BY <1>1, <1>4, <2>1, LifecycleAssumption DEF FrameInv, TypeOK, Kind, h
  <2>4. RefAccounting'
    <3> SUFFICES ASSUME NEW o \in Objs PROVE (refs[o] = Owners(o))'
      BY DEF RefAccounting
    <3>1. Written(local, local', t) /\ local'[t] = c
      BY <2>1, Tables DEF Written, TypeOK
    <3>2. Count(local', o) = Count(local, o) + (IF c = o THEN 1 ELSE 0) - 0
      BY <1>1, <3>1, CountUpdate, LifecycleAssumption
    <3>3. refs[o] = Owners(o) /\ refs'[o] = refs[o] + (IF c = o THEN 1 ELSE 0)
      BY <2>1, AddRefCounts DEF RefAccounting
    <3>4. QED
      BY <2>1, <3>2, <3>3, Shares DEF Owners
  <2>5. RoleInv'
    BY <2>1, AddRefCounts, LifecycleAssumption DEF RoleInv, TypeOK
  <2>6. NameInv'
    BY <2>1, AddRefCounts DEF NameInv, Live, TypeOK
  <2>7. HandleInv'
    BY <2>1 DEF HandleInv
  <2>8. FreshInv'
    BY <1>1, <2>1 DEF FreshInv, FrameInv, TypeOK, Key, Kind, c
  <2>9. GhostInv'
    BY <2>1 DEF GhostInv, TypeOK
  <2>10. HookInv'
    BY <2>1, AddRefCounts DEF HookInv, ArmedBeforeLogging, Live, TypeOK
  <2>11. PinInv'
    BY <1>1, <2>1 DEF PinInv, TypeOK
  <2>12. QED
    BY <2>2, <2>3, <2>4, <2>5, <2>6, <2>7, <2>8, <2>9, <2>10, <2>11
<1>5. QED
  BY <1>2, <1>3, <1>4

(* P7_Create_*(): nobody holds the object yet.                             *)
LEMMA CreateCounts ==
  ASSUME TypeOK, RefAccounting, RoleInv, NameInv,
         NEW x \in Objs, NEW c \in Objs \cup {NULL},
         c # NULL => refs[c] > 0, Create(x, c)
  PROVE  /\ refs[x] = 0 /\ c # x /\ client[x] = NULL
         /\ \A h \in Handles : handle[h] # x
         /\ \A t \in Threads : self[t] # x /\ local[t] # x
         /\ \A o \in Objs : client[o] # x
         /\ \A k \in Keys : shared[k] # x
         /\ x \notin pinned /\ x \notin leaked
         /\ refs' \in [Objs -> Nat]
         /\ \A o \in Objs : refs'[o] = refs[o] + (IF x = o THEN 1 ELSE 0)
                                               + (IF c = o THEN 1 ELSE 0)
         /\ \A o \in Objs : refs[o] > 0 => refs'[o] > 0
         /\ client' = [client EXCEPT ![x] = c]
         /\ shared' = shared
<1>1. refs[x] = 0 /\ client[x] = NULL /\ c # x
  BY LifecycleAssumption DEF Create, RoleInv, TypeOK
<1>2. ~(refs[x] > 0)
  BY <1>1
<1>3. /\ \A h \in Handles : handle[h] # x
      /\ \A t \in Threads : self[t] # x /\ local[t] # x
      /\ \A o \in Objs : client[o] # x
      /\ \A k \in Keys : shared[k] # x
      /\ x \notin pinned /\ x \notin leaked
  BY <1>2, OwnedIsLive, LifecycleAssumption DEF NameInv, Live
<1>4. /\ refs' \in [Objs -> Nat]
      /\ \A o \in Objs : refs'[o] = refs[o] + (IF x = o THEN 1 ELSE 0)
                                            + (IF c = o THEN 1 ELSE 0)
      /\ \A o \in Objs : refs[o] > 0 => refs'[o] > 0
  BY <1>1, LifecycleAssumption DEF Create, TypeOK
<1>5. QED
  BY <1>1, <1>3, <1>4 DEF Create

(* A new client belongs to its constructor alone.                          *)
LEMMA CreateClientInv ==
  ASSUME IndInv, NEW t \in Threads, NEW x \in Objs, CreateClient(t, x)
  PROVE  IndInv'
<1> USE DEF IndInv
<1>1. /\ pc[t] = "create_client" /\ local[t] = NULL /\ self[t] = NULL
      /\ armed /\ target[t] # NULL /\ target[t] \in Handles
      /\ Create(x, NULL)
  BY DEF CreateClient, FrameInv, HookInv, TypeOK
<1>2. /\ local' = [local EXCEPT ![t] = x]
      /\ pc' = [pc EXCEPT ![t] = "share_client"]
      /\ UNCHANGED <<target, name, handle, self, atexit, armed, pinned, leaked>>
  BY DEF CreateClient, Goto, hooks, ghost
<1>3. /\ refs[x] = 0 /\ client[x] = NULL
      /\ \A h \in Handles : handle[h] # x
      /\ \A u \in Threads : self[u] # x /\ local[u] # x
      /\ \A o \in Objs : client[o] # x
      /\ \A k \in Keys : shared[k] # x
      /\ x \notin pinned /\ x \notin leaked
      /\ refs' \in [Objs -> Nat]
      /\ client' = [client EXCEPT ![x] = NULL] /\ shared' = shared
  BY <1>1, CreateCounts
<1>4. /\ client' = client
      /\ x # NULL
  BY <1>3, LifecycleAssumption DEF TypeOK
<1>5. \A o \in Objs : refs'[o] = refs[o] + (IF x = o THEN 1 ELSE 0)
  <2> TAKE o \in Objs
  <2>1. NULL # o /\ refs[o] \in Nat
    BY LifecycleAssumption DEF TypeOK
  <2>2. refs'[o] = refs[o] + (IF x = o THEN 1 ELSE 0) + (IF NULL = o THEN 1 ELSE 0)
    BY <1>1, CreateCounts
  <2>3. QED
    BY <2>1, <2>2
<1>6. \A o \in Objs : /\ refs[o] > 0 => refs'[o] > 0
                      /\ refs'[o] = 0 => refs[o] = 0
  <2> TAKE o \in Objs
  <2>1. refs[o] \in Nat
    BY DEF IndInv, TypeOK
  <2>2. QED
    BY <1>5, <2>1
<1>7. TypeOK'
  BY <1>1, <1>2, <1>3, <1>4, <1>5, <1>6 DEF TypeOK, PCs
<1>8. FrameInv'
  BY <1>1, <1>2, <1>3, <1>4, <1>5, <1>6 DEF FrameInv, TypeOK, Kind
<1>9. RefAccounting'
  <2> SUFFICES ASSUME NEW o \in Objs PROVE (refs[o] = Owners(o))'
    BY DEF RefAccounting
  <2>1. Written(local, local', t) /\ local'[t] = x
    BY <1>2, Tables DEF Written, TypeOK
  <2>2. Count(local', o) = Count(local, o) + (IF x = o THEN 1 ELSE 0) - 0
    BY <1>1, <2>1, CountUpdate, LifecycleAssumption
  <2>3. refs[o] = Owners(o)
    BY DEF RefAccounting
  <2>4. QED
    BY <1>2, <1>3, <1>4, <1>5, <1>6, <2>2, <2>3, Shares DEF Owners
<1>10. RoleInv'
  BY <1>1, <1>2, <1>3, <1>4, <1>5, <1>6 DEF RoleInv, TypeOK
<1>11. NameInv'
  BY <1>2, <1>3, <1>4, <1>5, <1>6 DEF NameInv, Live, TypeOK
<1>12. HandleInv'
  BY <1>2, <1>3, <1>4, <1>5, <1>6 DEF HandleInv
<1>13. FreshInv'
  BY <1>1, <1>2, <1>3, <1>4, <1>5, <1>6 DEF FreshInv, FrameInv, TypeOK, Key, Kind
<1>14. GhostInv'
  BY <1>1, <1>2, <1>3, <1>4, <1>5, <1>6 DEF GhostInv, TypeOK
<1>15. HookInv'
  BY <1>1, <1>2, <1>3, <1>4, <1>5, <1>6 DEF HookInv, ArmedBeforeLogging, Live, TypeOK
<1>16. PinInv'
  BY <1>1, <1>2, <1>3, <1>4, <1>5, <1>6 DEF PinInv, TypeOK
<1>17. QED
  BY <1>7, <1>8, <1>9, <1>10, <1>11, <1>12, <1>13, <1>14, <1>15, <1>16

(* A new trace or telemetry holds a reference on the local client.         *)
LEMMA CreateChannelInv ==
  ASSUME IndInv, NEW t \in Threads, NEW x \in Objs, CreateChannel(t, x)
  PROVE  IndInv'
<1> DEFINE c == local[t]
<1> USE DEF IndInv
<1>1. /\ pc[t] = "create" /\ c \in Objs /\ c # NULL /\ self[t] = NULL
      /\ refs[c] > 0 /\ client[c] = NULL
      /\ target[t] # NULL /\ target[t] \in Handles
      /\ Create(x, c)
  <2>1. pc[t] = "create" /\ Create(x, c)
    BY DEF CreateChannel
  <2>2. c # NULL /\ self[t] = NULL /\ target[t] # NULL
    BY <2>1 DEF FrameInv
  <2>3. QED
    BY <2>1, <2>2, OwnedIsLive DEF RoleInv, TypeOK
<1>2. /\ self' = [self EXCEPT ![t] = x]
      /\ pc' = [pc EXCEPT ![t] = "share"]
      /\ UNCHANGED <<target, name, handle, local, atexit, armed, pinned, leaked>>
  BY DEF CreateChannel, Goto, hooks, ghost
<1> HIDE DEF c
<1>3. /\ refs[x] = 0 /\ client[x] = NULL /\ x # NULL /\ c # x
      /\ \A h \in Handles : handle[h] # x
      /\ \A u \in Threads : self[u] # x /\ local[u] # x
      /\ \A o \in Objs : client[o] # x
      /\ \A k \in Keys : shared[k] # x
      /\ x \notin pinned /\ x \notin leaked
      /\ refs' \in [Objs -> Nat]
      /\ \A o \in Objs : refs'[o] = refs[o] + (IF x = o THEN 1 ELSE 0)
                                            + (IF c = o THEN 1 ELSE 0)
      /\ \A o \in Objs : refs[o] > 0 => refs'[o] > 0
      /\ client' = [client EXCEPT ![x] = c] /\ shared' = shared
  BY <1>1, CreateCounts, LifecycleAssumption DEF TypeOK
<1>4. TypeOK'
  BY <1>1, <1>2, <1>3 DEF TypeOK, PCs
<1>5. FrameInv'
  BY <1>1, <1>2, <1>3 DEF FrameInv, TypeOK, Kind
<1>6. RefAccounting'
  <2> SUFFICES ASSUME NEW o \in Objs PROVE (refs[o] = Owners(o))'
    BY DEF RefAccounting
  <2>1. /\ Written(self, self', t) /\ self'[t] = x
        /\ Written(client, client', x) /\ client'[x] = c /\ client[x] = NULL
    BY <1>2, <1>3, Tables DEF Written, TypeOK
  <2>2. Count(self', o) = Count(self, o) + (IF x = o THEN 1 ELSE 0) - 0
    BY <1>1, <2>1, CountUpdate, LifecycleAssumption
  <2>3. Count(client', o) = Count(client, o) + (IF c = o THEN 1 ELSE 0) - 0
    BY <2>1, CountUpdate, LifecycleAssumption
  <2>4. refs[o] = Owners(o)
    BY DEF RefAccounting
  <2>5. QED
    BY <1>2, <1>3, <2>2, <2>3, <2>4, Shares DEF Owners
<1>7. RoleInv'
  BY <1>1, <1>2, <1>3 DEF RoleInv, TypeOK
<1>8. NameInv'
  BY <1>2, <1>3 DEF NameInv, Live, TypeOK
<1>9. HandleInv'
  BY <1>2, <1>3 DEF HandleInv
<1>10. FreshInv'
  BY <1>1, <1>2, <1>3 DEF FreshInv, FrameInv, TypeOK, Key, Kind
<1>11. GhostInv'
  BY <1>1, <1>2, <1>3 DEF GhostInv, TypeOK
<1>12. HookInv'
  BY <1>1, <1>2, <1>3 DEF HookInv, ArmedBeforeLogging, Live, TypeOK
<1>13. PinInv'
  BY <1>1, <1>2, <1>3 DEF PinInv, TypeOK
<1>14. QED
  BY <1>4, <1>5, <1>6, <1>7, <1>8, <1>9, <1>10, <1>11, <1>12, <1>13

(* swap() permutes the pointers of two handles of one class.               *)
LEMMA SwapInv ==
  ASSUME IndInv, NEW g \in Handles, NEW h \in Handles, Swap(g, h)
  PROVE  IndInv'
<1> USE DEF IndInv
<1>1. /\ HandleKind[g] = HandleKind[h]
      /\ handle[g] # Unbuilt /\ handle[h] # Unbuilt
      /\ handle' = [handle EXCEPT ![g] = handle[h], ![h] = handle[g]]
      /\ UNCHANGED <<refs, client, shared, pc, target, name, self, local,
                     atexit, armed, pinned, leaked>>
  BY DEF Swap, p7, frame, hooks, ghost
<1>2. /\ DOMAIN handle = Handles /\ DOMAIN handle' = Handles
      /\ handle'[g] = handle[h] /\ handle'[h] = handle[g]
      /\ \A x \in Handles \ {g, h} : handle'[x] = handle[x]
  BY <1>1 DEF TypeOK
<1>3. TypeOK'
  BY <1>1 DEF TypeOK
<1>4. FrameInv'
  BY <1>1, <1>2, LifecycleAssumption DEF FrameInv, TypeOK, Kind
<1>5. RefAccounting'
  <2> SUFFICES ASSUME NEW o \in Objs PROVE (refs[o] = Owners(o))'
    BY DEF RefAccounting
  <2> DEFINE m == [handle EXCEPT ![g] = handle[h]]
  <2>1. /\ Written(handle, m, g) /\ m[g] = handle[h]
        /\ Written(m, handle', h) /\ m[h] = handle[h]
    BY <1>1, <1>2, Tables DEF Written, TypeOK
  <2> HIDE DEF m
  <2>2. Count(m, o) = Count(handle, o) + (IF handle[h] = o THEN 1 ELSE 0)
                                       - (IF handle[g] = o THEN 1 ELSE 0)
    BY <2>1, CountUpdate
  <2>3. Count(handle', o) = Count(m, o) + (IF handle[g] = o THEN 1 ELSE 0)
                                        - (IF handle[h] = o THEN 1 ELSE 0)
    BY <1>2, <2>1, CountUpdate
  <2>4. refs[o] = Owners(o)
    BY DEF RefAccounting
  <2>5. QED
    BY <1>1, <2>2, <2>3, <2>4, Shares DEF Owners
<1>6. RoleInv'
  BY <1>1 DEF RoleInv
<1>7. NameInv'
  BY <1>1 DEF NameInv, Live
<1>8. HandleInv'
  <2> SUFFICES ASSUME NEW x \in Handles, handle'[x] \in Objs
               PROVE  \E n \in Names : shared[<<HandleKind[x], n>>] = handle'[x]
    BY <1>1 DEF HandleInv
  <2>1. PICK y \in Handles : HandleKind[x] = HandleKind[y] /\ handle'[x] = handle[y]
    BY <1>1, <1>2
  <2>2. QED
    BY <2>1 DEF HandleInv
<1>9. FreshInv'
  BY <1>1 DEF FreshInv, Key, Kind
<1>10. GhostInv'
  BY <1>1 DEF GhostInv
<1>11. HookInv'
  BY <1>1 DEF HookInv, ArmedBeforeLogging, Live
<1>12. PinInv'
  BY <1>1 DEF PinInv
<1>13. QED
  BY <1>3, <1>4, <1>5, <1>6, <1>7, <1>8, <1>9, <1>10, <1>11, <1>12

(* The key of a thread that is in a constructor is a key.                  *)
LEMMA KeyType ==
  ASSUME TypeOK, FrameInv, NEW t \in Threads, pc[t] # "idle"
  PROVE  target[t] \in Handles /\ Key(t) \in Keys
  BY LifecycleAssumption DEF TypeOK, FrameInv, Key, Keys, Kind

(* Release(): one owner of x fewer; if it was the last, x gives up its     *)
(* name and its own reference on its client.                               *)
LEMMA ReleaseCounts ==
  ASSUME TypeOK, RefAccounting, RoleInv, NameInv,
         NEW x \in Objs, refs[x] > 0, Release(x)
  PROVE  /\ refs' \in [Objs -> Nat]
         /\ client' \in [Objs -> Objs \cup {NULL}]
         /\ shared' \in [Keys -> Objs \cup {NULL}]
         /\ \A o \in Objs : refs'[o] - Count(client', o)
              = refs[o] - Count(client, o) - (IF x = o THEN 1 ELSE 0)
         /\ \A o \in Objs : /\ refs'[o] > 0 => refs[o] > 0 /\ client'[o] = client[o]
                            /\ refs'[o] = 0 => client'[o] = NULL
                            /\ client'[o] # NULL => client'[o] = client[o]
         /\ \A k \in Keys : /\ shared'[k] # NULL =>
                                 shared'[k] = shared[k] /\ refs'[shared[k]] > 0
                            /\ shared[k] # NULL /\ refs'[shared[k]] > 0 =>
                                 shared'[k] = shared[k]
<1> DEFINE last == refs[x] = 1
           d == client[x]
<1>1. /\ d # x /\ d \in Objs \cup {NULL}
      /\ d # NULL => refs[d] > 0 /\ client[d] = NULL
  BY OwnedIsLive, LifecycleAssumption DEF RoleInv, TypeOK
<1>2. /\ refs' = [o \in Objs |-> IF o = x \/ (o = d /\ last)
                                 THEN refs[o] - 1 ELSE refs[o]]
      /\ client' = [client EXCEPT ![x] = IF last THEN NULL ELSE d]
      /\ shared' = [k \in Keys |-> IF shared[k] # NULL /\ refs'[shared[k]] = 0
                                   THEN NULL ELSE shared[k]]
  BY DEF Release
<1> HIDE DEF d
<1>3. refs' \in [Objs -> Nat] /\ client' \in [Objs -> Objs \cup {NULL}]
  <2>1. \A o \in Objs : o = x \/ o = d => refs[o] - 1 \in Nat
    <3> TAKE o \in Objs
    <3>1. refs[o] \in Nat /\ (o = d => d # NULL)
      BY LifecycleAssumption DEF TypeOK
    <3>2. o = x \/ o = d => refs[o] > 0
      BY <1>1, <3>1
    <3>3. QED
      BY <3>1, <3>2
  <2>2. refs' \in [Objs -> Nat]
    BY <1>2, <2>1 DEF TypeOK
  <2>3. client' \in [Objs -> Objs \cup {NULL}]
    BY <1>1, <1>2 DEF TypeOK
  <2>4. QED
    BY <2>2, <2>3
<1>4. shared' \in [Keys -> Objs \cup {NULL}]
  BY <1>2 DEF TypeOK
<1>5. ASSUME NEW o \in Objs
      PROVE  refs'[o] - Count(client', o)
               = refs[o] - Count(client, o) - (IF x = o THEN 1 ELSE 0)
  <2>1. Written(client, client', x) /\ client'[x] = (IF last THEN NULL ELSE d)
        /\ client[x] = d
    BY <1>2, Tables DEF Written, TypeOK, d
  <2> HIDE DEF last
  <2>2. Count(client', o) = Count(client, o)
          + (IF (IF last THEN NULL ELSE d) = o THEN 1 ELSE 0)
          - (IF d = o THEN 1 ELSE 0)
    BY <2>1, CountUpdate
  <2>3. refs'[o] = refs[o] - (IF x = o THEN 1 ELSE 0)
                           - (IF d = o /\ last THEN 1 ELSE 0)
    BY <1>1, <1>2 DEF TypeOK
  <2>4. NULL # o /\ Count(client, o) \in Nat /\ refs[o] \in Nat
    BY Shares, LifecycleAssumption DEF TypeOK
  <2>5. QED
    BY <2>2, <2>3, <2>4
<1>6. ASSUME NEW o \in Objs
      PROVE  /\ refs'[o] > 0 => refs[o] > 0 /\ client'[o] = client[o]
             /\ refs'[o] = 0 => client'[o] = NULL
             /\ client'[o] # NULL => client'[o] = client[o]
  <2>1. CASE o = x
    BY <1>1, <1>2, <2>1 DEF TypeOK, d
  <2>2. CASE o # x /\ o = d
    BY <1>1, <1>2, <2>2, LifecycleAssumption DEF TypeOK
  <2>3. CASE o # x /\ o # d
    BY <1>2, <2>3 DEF TypeOK, RoleInv
  <2>4. QED
    BY <2>1, <2>2, <2>3
<1>7. ASSUME NEW k \in Keys
      PROVE  /\ shared'[k] # NULL =>
                  shared'[k] = shared[k] /\ refs'[shared[k]] > 0
             /\ shared[k] # NULL /\ refs'[shared[k]] > 0 =>
                  shared'[k] = shared[k]
  <2>1. shared'[k] = IF shared[k] # NULL /\ refs'[shared[k]] = 0
                     THEN NULL ELSE shared[k]
    BY <1>2
  <2>2. shared[k] # NULL => refs'[shared[k]] \in Nat
    BY <1>3 DEF TypeOK
  <2>3. QED
    BY <2>1, <2>2
<1>8. QED
  BY <1>3, <1>4, <1>5, <1>6, <1>7

(* ~Client, ~Log, ~Telemetry.                                              *)
LEMMA DestroyInv ==
  ASSUME IndInv, NEW h \in Handles, Destroy(h)
  PROVE  IndInv'
<1> DEFINE x == handle[h]
<1> USE DEF IndInv
<1>1. /\ x # Unbuilt /\ handle' = [handle EXCEPT ![h] = Unbuilt]
      /\ UNCHANGED <<pc, target, name, self, local, atexit, armed, pinned, leaked>>
  BY DEF Destroy, frame, hooks, ghost
<1>2. /\ \A t \in Threads : Key(t)' = Key(t) /\ Kind(t)' = Kind(t)
      /\ \A g \in Handles : handle'[g] \in Objs => handle'[g] = handle[g]
  BY <1>1, LifecycleAssumption DEF Key, Kind, TypeOK
<1>3. CASE x = NULL
  <2>1. UNCHANGED <<refs, client, shared>>
    BY <1>3 DEF Destroy, p7
  <2>2. TypeOK'
    BY <1>1, <2>1 DEF TypeOK
  <2>3. FrameInv'
    BY <1>1, <1>2, <2>1 DEF FrameInv, TypeOK
  <2>4. RefAccounting'
    <3> SUFFICES ASSUME NEW o \in Objs PROVE (refs[o] = Owners(o))'
      BY DEF RefAccounting
    <3>1. Written(handle, handle', h) /\ handle'[h] = Unbuilt /\ handle[h] = NULL
      BY <1>1, <1>3, Tables DEF Written, TypeOK
    <3>2. Count(handle', o) = Count(handle, o) + 0 - 0
      BY <3>1, CountUpdate, LifecycleAssumption
    <3>3. refs[o] = Owners(o)
      BY DEF RefAccounting
    <3>4. QED
      BY <1>1, <2>1, <3>2, <3>3, Shares DEF Owners
  <2>5. RoleInv'
    BY <1>1, <2>1 DEF RoleInv
  <2>6. NameInv'
    BY <2>1 DEF NameInv, Live
  <2>7. HandleInv'
    BY <1>2, <2>1 DEF HandleInv
  <2>8. FreshInv'
    BY <1>1, <1>2, <2>1 DEF FreshInv
  <2>9. GhostInv'
    BY <1>1, <2>1 DEF GhostInv
  <2>10. HookInv'
    BY <1>1, <2>1 DEF HookInv, ArmedBeforeLogging, Live
  <2>11. PinInv'
    BY <1>1, <2>1 DEF PinInv
  <2>12. QED
    BY <2>2, <2>3, <2>4, <2>5, <2>6, <2>7, <2>8, <2>9, <2>10, <2>11
<1>4. CASE x # NULL
  <2>1. x \in Objs /\ refs[x] > 0 /\ Release(x)
    BY <1>1, <1>4, OwnedIsLive DEF Destroy, TypeOK
  <2> HIDE DEF x
  <2>2. TypeOK'
    BY <1>1, <2>1, ReleaseCounts DEF TypeOK
  <2>3. FrameInv'
    BY <1>1, <1>2 DEF FrameInv, TypeOK
  <2>4. RefAccounting'
    <3> SUFFICES ASSUME NEW o \in Objs PROVE (refs[o] = Owners(o))'
      BY DEF RefAccounting
    <3>1. Written(handle, handle', h) /\ handle'[h] = Unbuilt /\ handle[h] = x
      BY <1>1, Tables DEF Written, TypeOK, x
    <3>2. Count(handle', o) = Count(handle, o) + 0 - (IF x = o THEN 1 ELSE 0)
      BY <3>1, CountUpdate, LifecycleAssumption
    <3>3. /\ refs[o] = Owners(o)
          /\ refs'[o] - Count(client', o)
               = refs[o] - Count(client, o) - (IF x = o THEN 1 ELSE 0)
          /\ refs'[o] \in Nat /\ Count(client', o) \in Nat
      BY <2>1, <2>2, ReleaseCounts, CountNat, FiniteAssumption
         DEF RefAccounting, TypeOK
    <3>4. QED
      BY <1>1, <3>2, <3>3, Shares DEF Owners
  <2>5. NameInv'
    BY <2>1, ReleaseCounts DEF NameInv, Live
  <2>6. NoDangling'
    BY <2>2, <2>4, <2>5, NoDanglingNext
  <2>7. RoleInv'
    BY <1>1, <2>1, <2>2, <2>6, ReleaseCounts, LifecycleAssumption
       DEF RoleInv, NoDangling, Live, TypeOK
  <2>8. HandleInv'
    <3> SUFFICES ASSUME NEW g \in Handles, handle'[g] \in Objs
                 PROVE  \E n \in Names : shared'[<<HandleKind[g], n>>] = handle'[g]
      BY DEF HandleInv
    <3>1. handle'[g] = handle[g] /\ refs'[handle[g]] > 0
      BY <1>2, <2>6 DEF NoDangling, Live
    <3>2. PICK n \in Names : shared[<<HandleKind[g], n>>] = handle[g]
      BY <3>1 DEF HandleInv
    <3>3. <<HandleKind[g], n>> \in Keys
      BY LifecycleAssumption DEF Keys
    <3>4. QED
      BY <2>1, <3>1, <3>2, <3>3, ReleaseCounts, LifecycleAssumption
  <2>9. FreshInv'
    <3>1. ASSUME NEW t \in Threads, pc[t] \in {"pin", "close"}
          PROVE  shared'[Key(t)] = self[t]
      <4>1. Key(t) \in Keys /\ self[t] # NULL /\ shared[Key(t)] = self[t]
        BY <3>1, KeyType DEF FrameInv, FreshInv
      <4>2. refs'[self[t]] > 0
        BY <1>1, <2>6, <4>1 DEF NoDangling, Live
      <4>3. QED
        BY <2>1, <4>1, <4>2, ReleaseCounts
    <3>2. \A k \in Keys : shared'[k] # NULL => shared'[k] = shared[k]
      BY <2>1, ReleaseCounts
    <3>3. \A t \in Threads : /\ pc[t] = "share" => self[t] # NULL
                             /\ pc[t] = "share_client" => local[t] # NULL
      BY DEF FrameInv
    <3>4. ASSUME NEW t \in Threads, pc[t] = "share_client", NEW k \in Keys
          PROVE  shared'[k] # local[t]
      BY <3>2, <3>3, <3>4 DEF FreshInv
    <3>5. ASSUME NEW t \in Threads, pc[t] = "share", NEW k \in Keys
          PROVE  shared'[k] # self[t]
      BY <3>2, <3>3, <3>5 DEF FreshInv
    <3>6. \A t \in Threads : Key(t)' = Key(t)
      BY <1>2
    <3>7. QED
      BY <1>1, <3>1, <3>4, <3>5, <3>6 DEF FreshInv
  <2>10. GhostInv'
    BY <1>1 DEF GhostInv
  <2>11. HookInv'
    BY <1>1, <2>1, ReleaseCounts DEF HookInv, ArmedBeforeLogging, Live
  <2>12. PinInv'
    BY <1>1, <2>1, ReleaseCounts DEF PinInv
  <2>13. QED
    BY <2>2, <2>3, <2>4, <2>5, <2>7, <2>8, <2>9, <2>10, <2>11, <2>12
<1>5. QED
  BY <1>3, <1>4

(* The end of the block: the new handle takes over the pointer, the local  *)
(* Client is destroyed; the new object keeps the client alive.             *)
LEMMA CloseClientInv ==
  ASSUME IndInv, NEW t \in Threads, CloseClient(t)
  PROVE  IndInv'
<1> DEFINE x == local[t]
           s == self[t]
           h == target[t]
<1> USE DEF IndInv
<1>1. /\ x \in Objs /\ refs[x] > 0 /\ Release(x)
      /\ pc[t] = "close" /\ h \in Handles /\ h # NULL /\ handle[h] = Unbuilt
      /\ s \in Objs /\ s # NULL /\ Key(t) = <<HandleKind[h], name[t]>>
      /\ shared[Key(t)] = s
  <2>1. pc[t] = "close" /\ Release(x)
    BY DEF CloseClient
  <2>2. x # NULL /\ s # NULL /\ h # NULL
    BY <2>1 DEF FrameInv
  <2>3. QED
    BY <2>1, <2>2, OwnedIsLive DEF FrameInv, FreshInv, TypeOK, Key, Kind
<1>2. /\ handle' = [handle EXCEPT ![h] = s]
      /\ local' = [local EXCEPT ![t] = NULL]
      /\ self' = [self EXCEPT ![t] = NULL]
      /\ atexit' = IF h \in Statics /\ Len(atexit) < MaxAtexit
                   THEN Append(atexit, h) ELSE atexit
      /\ pc' = [pc EXCEPT ![t] = "idle"]
      /\ target' = [target EXCEPT ![t] = NULL]
      /\ name' = [name EXCEPT ![t] = Main]
      /\ UNCHANGED <<armed, pinned, leaked>>
  BY DEF CloseClient, Return, Leave, ghost
<1> HIDE DEF x, s, h
<1>3. TypeOK'
  BY <1>1, <1>2, ReleaseCounts, LifecycleAssumption DEF TypeOK, PCs
<1>4. FrameInv'
  BY <1>1, <1>2, LifecycleAssumption DEF FrameInv, TypeOK, Kind, h, s
<1>5. RefAccounting'
  <2> SUFFICES ASSUME NEW o \in Objs PROVE (refs[o] = Owners(o))'
    BY DEF RefAccounting
  <2>1. /\ Written(handle, handle', h) /\ handle'[h] = s /\ handle[h] = Unbuilt
        /\ Written(local, local', t) /\ local'[t] = NULL /\ local[t] = x
        /\ Written(self, self', t) /\ self'[t] = NULL /\ self[t] = s
    BY <1>1, <1>2, Tables DEF Written, TypeOK, x, s
  <2>2. Count(handle', o) = Count(handle, o) + (IF s = o THEN 1 ELSE 0) - 0
    BY <2>1, CountUpdate, LifecycleAssumption
  <2>3. Count(self', o) = Count(self, o) + 0 - (IF s = o THEN 1 ELSE 0)
    BY <2>1, CountUpdate, LifecycleAssumption
  <2>4. Count(local', o) = Count(local, o) + 0 - (IF x = o THEN 1 ELSE 0)
    BY <2>1, CountUpdate, LifecycleAssumption
  <2>5. /\ refs[o] = Owners(o)
        /\ refs'[o] - Count(client', o)
             = refs[o] - Count(client, o) - (IF x = o THEN 1 ELSE 0)
        /\ refs'[o] \in Nat /\ Count(client', o) \in Nat
    BY <1>1, <1>3, ReleaseCounts, CountNat, FiniteAssumption
       DEF RefAccounting, TypeOK
  <2>6. pinned' = pinned /\ leaked' = leaked
    BY <1>2
  <2>7. Owners(o)' = Count(handle', o) + Count(self', o) + Count(local', o)
           + Count(client', o) + Bit(o \in pinned) + Bit(o \in leaked)
    BY <2>6 DEF Owners
  <2>8. /\ Count(handle', o) \in Nat /\ Count(self', o) \in Nat
        /\ Count(local', o) \in Nat
    BY <1>3, CountNat, FiniteAssumption DEF TypeOK
  <2>9. QED
    BY <2>2, <2>3, <2>4, <2>5, <2>7, <2>8, Shares DEF Owners
<1>6. NameInv'
  BY <1>1, ReleaseCounts DEF NameInv, Live
<1>7. NoDangling'
  BY <1>3, <1>5, <1>6, NoDanglingNext
<1>8. RoleInv'
  BY <1>1, <1>2, <1>3, <1>7, ReleaseCounts, LifecycleAssumption, SMTT(30)
     DEF RoleInv, NoDangling, Live, TypeOK
<1>9. HandleInv'
  <2> SUFFICES ASSUME NEW g \in Handles, handle'[g] \in Objs
               PROVE  \E n \in Names : shared'[<<HandleKind[g], n>>] = handle'[g]
    BY DEF HandleInv
  <2>1. PICK n \in Names : shared[<<HandleKind[g], n>>] = handle'[g]
    BY <1>1, <1>2 DEF HandleInv, TypeOK
  <2>2. refs'[handle'[g]] > 0 /\ <<HandleKind[g], n>> \in Keys
    BY <1>7, LifecycleAssumption DEF NoDangling, Live, Keys
  <2>3. QED
    BY <1>1, <2>1, <2>2, ReleaseCounts, LifecycleAssumption
<1>10. FreshInv'
  <2>1. ASSUME NEW u \in Threads, pc'[u] \in {"pin", "close"}
        PROVE  shared'[Key(u)'] = self'[u]
    <3>1. u # t /\ pc'[u] = pc[u] /\ self'[u] = self[u]
      BY <1>2, <2>1 DEF TypeOK
    <3>2. Key(u) \in Keys /\ self[u] # NULL /\ shared[Key(u)] = self[u]
      BY <2>1, <3>1, KeyType DEF FrameInv, FreshInv
    <3>3. Key(u)' = Key(u) /\ refs'[self[u]] > 0
      BY <1>2, <1>7, <3>1, <3>2 DEF NoDangling, Live, TypeOK, Key, Kind
    <3>4. QED
      BY <1>1, <3>1, <3>2, <3>3, ReleaseCounts
  <2>2. \A k \in Keys : shared'[k] # NULL => shared'[k] = shared[k]
    BY <1>1, ReleaseCounts
  <2>3. \A u \in Threads : /\ pc'[u] = "share" => u # t /\ pc[u] = "share"
                           /\ pc'[u] = "share_client" => u # t /\ pc[u] = "share_client"
                           /\ u # t => self'[u] = self[u] /\ local'[u] = local[u]
                           /\ self'[u] \in {NULL, self[u]}
                           /\ local'[u] \in {NULL, local[u]}
    BY <1>2, LifecycleAssumption DEF TypeOK
  <2>4. \A u \in Threads : /\ pc[u] = "share" => self[u] # NULL
                           /\ pc[u] = "share_client" => local[u] # NULL
    BY DEF FrameInv
  <2>5. ASSUME NEW u \in Threads, pc'[u] = "share_client", NEW k \in Keys
        PROVE  shared'[k] # local'[u]
    BY <2>2, <2>3, <2>4, <2>5 DEF FreshInv
  <2>6. ASSUME NEW u \in Threads, pc'[u] = "share", NEW k \in Keys
        PROVE  shared'[k] # self'[u]
    BY <2>2, <2>3, <2>4, <2>6 DEF FreshInv
  <2>7. ASSUME NEW u \in Threads, pc'[u] = "share_client",
               NEW w \in Threads, local'[w] = local'[u]
        PROVE  w = u
    BY <2>3, <2>4, <2>7 DEF FreshInv
  <2>8. ASSUME NEW u \in Threads, NEW w \in Threads,
               self'[u] # NULL, self'[w] = self'[u]
        PROVE  u = w
    BY <2>3, <2>8 DEF FreshInv
  <2>9. QED
    BY <2>1, <2>5, <2>6, <2>7, <2>8 DEF FreshInv
<1>11. GhostInv'
  BY <1>2 DEF GhostInv, TypeOK
<1>12. HookInv'
  BY <1>1, <1>2, ReleaseCounts DEF HookInv, ArmedBeforeLogging, Live, TypeOK
<1>13. PinInv'
  <2>1. \A k \in Keys : shared'[k] # NULL => shared'[k] = shared[k]
    BY <1>1, ReleaseCounts
  <2>2. \A u \in Threads : pc[u] = "pin" => pc'[u] = "pin" /\ self'[u] = self[u]
    BY <1>1, <1>2 DEF TypeOK
  <2>3. QED
    BY <1>2, <2>1, <2>2 DEF PinInv
<1>14. QED
  BY <1>3, <1>4, <1>5, <1>6, <1>8, <1>9, <1>10, <1>11, <1>12, <1>13

(* Stack unwinding: the local Client is destroyed, the object is not.      *)
LEMMA UnwindInv ==
  ASSUME IndInv, NEW t \in Threads, Unwind(t)
  PROVE  IndInv'
<1> DEFINE x == local[t]
<1> USE DEF IndInv
<1>1. /\ x \in Objs /\ refs[x] > 0 /\ Release(x)
      /\ pc[t] = "unwind" /\ self[t] = NULL
  <2>1. pc[t] = "unwind" /\ Release(x)
    BY DEF Unwind
  <2>2. x # NULL /\ self[t] = NULL
    BY <2>1 DEF FrameInv
  <2>3. QED
    BY <2>1, <2>2, OwnedIsLive DEF TypeOK
<1>2. /\ local' = [local EXCEPT ![t] = NULL]
      /\ pc' = [pc EXCEPT ![t] = "idle"]
      /\ target' = [target EXCEPT ![t] = NULL]
      /\ name' = [name EXCEPT ![t] = Main]
      /\ UNCHANGED <<handle, self, atexit, armed, pinned, leaked>>
  BY DEF Unwind, Throw, Leave, ghost
<1> HIDE DEF x
<1>3. TypeOK'
  BY <1>1, <1>2, ReleaseCounts, LifecycleAssumption DEF TypeOK, PCs
<1>4. FrameInv'
  BY <1>1, <1>2, LifecycleAssumption DEF FrameInv, TypeOK, Kind
<1>5. RefAccounting'
  <2> SUFFICES ASSUME NEW o \in Objs PROVE (refs[o] = Owners(o))'
    BY DEF RefAccounting
  <2>1. Written(local, local', t) /\ local'[t] = NULL /\ local[t] = x
    BY <1>1, <1>2, Tables DEF Written, TypeOK, x
  <2>2. Count(local', o) = Count(local, o) + 0 - (IF x = o THEN 1 ELSE 0)
    BY <2>1, CountUpdate, LifecycleAssumption
  <2>3. /\ refs[o] = Owners(o)
        /\ refs'[o] - Count(client', o)
             = refs[o] - Count(client, o) - (IF x = o THEN 1 ELSE 0)
        /\ refs'[o] \in Nat /\ Count(client', o) \in Nat
    BY <1>1, <1>3, ReleaseCounts, CountNat, FiniteAssumption
       DEF RefAccounting, TypeOK
  <2>4. UNCHANGED <<handle, self, pinned, leaked>>
    BY <1>2
  <2>5. Owners(o)' = Count(handle, o) + Count(self, o) + Count(local', o)
           + Count(client', o) + Bit(o \in pinned) + Bit(o \in leaked)
    BY <2>4 DEF Owners
  <2>6. Count(local', o) \in Nat
    BY <1>3, CountNat, FiniteAssumption DEF TypeOK
  <2>7. QED
    BY <2>2, <2>3, <2>5, <2>6, Shares DEF Owners
<1>6. NameInv'
  BY <1>1, ReleaseCounts DEF NameInv, Live
<1>7. NoDangling'
  BY <1>3, <1>5, <1>6, NoDanglingNext
<1>8. RoleInv'
  BY <1>1, <1>2, <1>3, <1>7, ReleaseCounts, LifecycleAssumption
     DEF RoleInv, NoDangling, Live, TypeOK
<1>9. HandleInv'
  <2> SUFFICES ASSUME NEW g \in Handles, handle[g] \in Objs
               PROVE  \E n \in Names : shared'[<<HandleKind[g], n>>] = handle[g]
    BY <1>2 DEF HandleInv
  <2>1. PICK n \in Names : shared[<<HandleKind[g], n>>] = handle[g]
    BY DEF HandleInv
  <2>2. refs'[handle[g]] > 0 /\ <<HandleKind[g], n>> \in Keys
    BY <1>2, <1>7, LifecycleAssumption DEF NoDangling, Live, Keys
  <2>3. QED
    BY <1>1, <2>1, <2>2, ReleaseCounts, LifecycleAssumption
<1>10. FreshInv'
  <2>1. ASSUME NEW u \in Threads, pc'[u] \in {"pin", "close"}
        PROVE  shared'[Key(u)'] = self'[u]
    <3>1. u # t /\ pc'[u] = pc[u] /\ self'[u] = self[u]
      BY <1>2, <2>1 DEF TypeOK
    <3>2. Key(u) \in Keys /\ self[u] # NULL /\ shared[Key(u)] = self[u]
      BY <2>1, <3>1, KeyType DEF FrameInv, FreshInv
    <3>3. Key(u)' = Key(u) /\ refs'[self[u]] > 0
      BY <1>2, <1>7, <3>1, <3>2 DEF NoDangling, Live, TypeOK, Key, Kind
    <3>4. QED
      BY <1>1, <3>1, <3>2, <3>3, ReleaseCounts
  <2>2. \A k \in Keys : shared'[k] # NULL => shared'[k] = shared[k]
    BY <1>1, ReleaseCounts
  <2>3. \A u \in Threads : /\ pc'[u] = "share" => u # t /\ pc[u] = "share"
                           /\ pc'[u] = "share_client" => u # t /\ pc[u] = "share_client"
                           /\ u # t => self'[u] = self[u] /\ local'[u] = local[u]
                           /\ self'[u] \in {NULL, self[u]}
                           /\ local'[u] \in {NULL, local[u]}
    BY <1>2, LifecycleAssumption DEF TypeOK
  <2>4. \A u \in Threads : /\ pc[u] = "share" => self[u] # NULL
                           /\ pc[u] = "share_client" => local[u] # NULL
    BY DEF FrameInv
  <2>5. ASSUME NEW u \in Threads, pc'[u] = "share_client", NEW k \in Keys
        PROVE  shared'[k] # local'[u]
    BY <2>2, <2>3, <2>4, <2>5 DEF FreshInv
  <2>6. ASSUME NEW u \in Threads, pc'[u] = "share", NEW k \in Keys
        PROVE  shared'[k] # self'[u]
    BY <2>2, <2>3, <2>4, <2>6 DEF FreshInv
  <2>7. ASSUME NEW u \in Threads, pc'[u] = "share_client",
               NEW w \in Threads, local'[w] = local'[u]
        PROVE  w = u
    BY <2>3, <2>4, <2>7 DEF FreshInv
  <2>8. ASSUME NEW u \in Threads, NEW w \in Threads,
               self'[u] # NULL, self'[w] = self'[u]
        PROVE  u = w
    BY <2>3, <2>8 DEF FreshInv
  <2>9. QED
    BY <2>1, <2>5, <2>6, <2>7, <2>8 DEF FreshInv
<1>11. GhostInv'
  BY <1>2 DEF GhostInv, TypeOK
<1>12. HookInv'
  BY <1>1, <1>2, ReleaseCounts DEF HookInv, ArmedBeforeLogging, Live, TypeOK
<1>13. PinInv'
  <2>1. \A u \in Threads : pc[u] = "pin" => pc'[u] = "pin"
    BY <1>1, <1>2 DEF TypeOK
  <2>2. \A k \in Keys : shared'[k] # NULL => shared'[k] = shared[k]
    BY <1>1, ReleaseCounts
  <2>3. self' = self /\ pinned' = pinned
    BY <1>2
  <2>4. QED
    BY <2>1, <2>2, <2>3 DEF PinInv
<1>14. QED
  BY <1>3, <1>4, <1>5, <1>6, <1>8, <1>9, <1>10, <1>11, <1>12, <1>13

-----------------------------------------------------------------------------
(* The invariant, and what follows from it.                                *)

(* A value that a function never takes is counted zero times.              *)
LEMMA EmptyCount ==
  ASSUME NEW f, NEW v, \A x \in DOMAIN f : f[x] # v
  PROVE  Count(f, v) = 0
<1>1. {x \in DOMAIN f : f[x] = v} = {}
  OBVIOUS
<1>2. QED
  BY <1>1, FS_EmptySet DEF Count

(* The initial state satisfies the invariant.                              *)
LEMMA InitInv == Init => IndInv
<1> SUFFICES ASSUME Init PROVE IndInv
  OBVIOUS
<1> USE DEF Init
<1>1. TypeOK
  <2>1. atexit \in Seq(Statics \cup {ExitHandler})
    OBVIOUS
  <2>2. name \in [Threads -> Names] /\ pc \in [Threads -> PCs]
    BY LifecycleAssumption DEF PCs
  <2>3. QED
    BY <2>1, <2>2 DEF TypeOK
<1>2. FrameInv
  BY DEF FrameInv
<1>3. RefAccounting
  <2> SUFFICES ASSUME NEW o \in Objs PROVE refs[o] = Owners(o)
    BY DEF RefAccounting
  <2>1. /\ Count(handle, o) = 0 /\ Count(self, o) = 0
        /\ Count(local, o) = 0 /\ Count(client, o) = 0
    <3>1. /\ \A x \in DOMAIN handle : handle[x] # o
          /\ \A x \in DOMAIN self : self[x] # o
          /\ \A x \in DOMAIN local : local[x] # o
          /\ \A x \in DOMAIN client : client[x] # o
      BY LifecycleAssumption
    <3> HIDE DEF Init
    <3>2. QED
      BY <3>1, EmptyCount
  <2>2. Bit(o \in pinned) = 0 /\ Bit(o \in leaked) = 0
    BY DEF Bit
  <2>3. refs[o] = 0
    OBVIOUS
  <2>4. QED
    BY <2>1, <2>2, <2>3 DEF Owners
<1>4. RoleInv
  BY DEF RoleInv
<1>5. NameInv
  BY DEF NameInv
<1>6. HandleInv
  BY LifecycleAssumption DEF HandleInv
<1>7. FreshInv
  BY DEF FreshInv
<1>8. GhostInv
  BY DEF GhostInv
<1>9. HookInv
  BY DEF HookInv, ArmedBeforeLogging, Live
<1>10. PinInv
  BY DEF PinInv
<1>11. QED
  BY <1>1, <1>2, <1>3, <1>4, <1>5, <1>6, <1>7, <1>8, <1>9, <1>10 DEF IndInv

(* A stuttering step preserves it.                                         *)
LEMMA StutterInv == IndInv /\ UNCHANGED vars => IndInv'
<1> SUFFICES ASSUME IndInv, UNCHANGED vars PROVE IndInv'
  OBVIOUS
<1> USE DEF IndInv, vars
<1>1. TypeOK'
  BY DEF TypeOK
<1>2. FrameInv'
  BY DEF FrameInv, Kind
<1>3. RefAccounting'
  BY DEF RefAccounting, Owners
<1>4. RoleInv' /\ NameInv' /\ HandleInv'
  BY DEF RoleInv, NameInv, HandleInv, Live
<1>5. FreshInv'
  BY DEF FreshInv, Key, Kind
<1>6. GhostInv' /\ HookInv' /\ PinInv'
  BY DEF GhostInv, HookInv, ArmedBeforeLogging, PinInv, Live
<1>7. QED
  BY <1>1, <1>2, <1>3, <1>4, <1>5, <1>6

(* A step of the program, or of an exit() that destroys a static handle,   *)
(* which Next has no reason to do.                                         *)
HandleStep == Next \/ \E h \in Statics : Destroy(h)

(* Every step of every action preserves it.                                *)
LEMMA NextInv == IndInv /\ HandleStep => IndInv'
<1> SUFFICES ASSUME IndInv, HandleStep PROVE IndInv'
  OBVIOUS
<1>1. ASSUME NEW t \in Threads, ConstructorStep(t) PROVE IndInv'
  BY <1>1, GetSharedInv, GetSharedClientInv, RegisterUnixCrashHandlersInv,
     AtexitFailsInv, SigactionFailsInv, CreateClientFailsInv, ShareClientInv,
     ShareClientFailsInv, CreateChannelFailsInv, ShareInv, ShareFailsInv,
     AddRefTelemetryInv, CloseClientInv, UnwindInv, CreateClientInv,
     CreateChannelInv DEF ConstructorStep
<1>2. ASSUME NEW t \in Threads, NEW h \in Handles, NEW n \in Names,
             Construct(t, h, n)
      PROVE  IndInv'
  BY <1>2, ConstructInv
<1>3. ASSUME NEW h \in Handles, DefaultConstruct(h) PROVE IndInv'
  BY <1>3, DefaultConstructInv
<1>4. ASSUME NEW h \in Handles, Destroy(h) PROVE IndInv'
  BY <1>4, DestroyInv
<1>5. ASSUME NEW g \in Handles, NEW h \in Handles, Swap(g, h) PROVE IndInv'
  BY <1>5, SwapInv
<1>6. QED
  BY <1>1, <1>2, <1>3, <1>4, <1>5, LifecycleAssumption DEF HandleStep, Next

(* IndInv is an inductive invariant of every instance.                     *)
THEOREM Invariant == Spec => []IndInv
<1>1. IndInv /\ [Next]_vars => IndInv'
  BY StutterInv, NextInv DEF HandleStep
<1>2. QED
  BY <1>1, InitInv, PTL DEF Spec

(* Every variable keeps its type.                                          *)
THEOREM TypeCorrect == Spec => []TypeOK
<1>1. IndInv => TypeOK
  BY DEF IndInv
<1>2. QED
  BY <1>1, Invariant, PTL

(* The constructors and destructors of the three classes keep the books:   *)
(* no path releases a reference twice or forgets one it could still reach. *)
THEOREM RefsAccounted == Spec => []RefAccounting
<1>1. IndInv => RefAccounting
  BY DEF IndInv
<1>2. QED
  BY <1>1, Invariant, PTL

(* No handle, constructor or registered name refers to a destroyed object. *)
THEOREM NeverDangling == Spec => []NoDangling
<1>1. IndInv => NoDangling
  BY NoDanglingInv DEF IndInv
<1>2. QED
  BY <1>1, Invariant, PTL

(* Handles built with one name share one object, whoever won the race.     *)
THEOREM OneObjectPerName == Spec => []SameNameSameObject
<1>1. IndInv => SameNameSameObject
  <2> SUFFICES ASSUME IndInv, NEW h \in Handles, handle[h] \in Objs
               PROVE  \E n \in Names :
                        /\ shared[<<HandleKind[h], n>>] = handle[h]
                        /\ \A k \in Keys : shared[k] = handle[h]
                                            => k = <<HandleKind[h], n>>
    BY DEF SameNameSameObject
  <2>1. PICK n \in Names : shared[<<HandleKind[h], n>>] = handle[h]
    BY DEF IndInv, HandleInv
  <2>2. <<HandleKind[h], n>> \in Keys /\ handle[h] # NULL
    BY LifecycleAssumption DEF Keys
  <2>3. QED
    BY <2>1, <2>2 DEF IndInv, NameInv
<1>2. QED
  BY <1>1, Invariant, PTL

(* Nothing is logged before the crash handlers are installed.              *)
THEOREM AlwaysArmed == Spec => []ArmedBeforeLogging
<1>1. IndInv => ArmedBeforeLogging
  BY DEF IndInv, HookInv
<1>2. QED
  BY <1>1, Invariant, PTL

(* The extra reference of Add_Ref() is never released.                     *)
PinnedLive == \A o \in pinned : refs[o] > 0

(* It is one of the references that are counted.                           *)
LEMMA PinnedIsLive == IndInv => PinnedLive
BY OwnedIsLive DEF PinnedLive, IndInv, TypeOK

(* The same in the next state.                                             *)
LEMMA PinnedIsLiveNext == IndInv' => PinnedLive'
BY PinnedIsLive, PTL

(* A Release() spares every object that still has an owner afterwards.     *)
LEMMA ReleaseSpares ==
  ASSUME IndInv, IndInv', NEW x \in Objs, refs[x] > 0, Release(x),
         NEW k \in Keys, k[1] = "telemetry", shared[k] # NULL,
         pinned' = pinned,
         \A t \in Threads : pc[t] = "pin" => self'[t] = self[t]
  PROVE  shared'[k] = shared[k]
<1>1. PICK o \in Objs : o = shared[k] /\ o # NULL
  BY DEF IndInv, TypeOK
<1>2. refs'[o] > 0
  <2>1. CASE o \in pinned
    BY <1>1, <2>1, PinnedIsLiveNext DEF PinnedLive
  <2>2. CASE \E t \in Threads : pc[t] = "pin" /\ self[t] = o
    <3>1. PICK t \in Threads : self'[t] = o /\ o # NULL
      BY <1>1, <2>2
    <3>2. NoDangling'
      BY NoDanglingNext DEF IndInv
    <3>3. QED
      BY <3>1, <3>2 DEF NoDangling, Live
  <2>3. QED
    BY <1>1, <2>1, <2>2 DEF IndInv, PinInv
<1>3. QED
  BY <1>1, <1>2, ReleaseCounts DEF IndInv

(* No step takes a shared telemetry object away.                           *)
LEMMA TelemetryKept ==
  ASSUME IndInv, IndInv', HandleStep,
         NEW k \in Keys, k[1] = "telemetry", shared[k] # NULL
  PROVE  shared'[k] = shared[k]
<1>1. ASSUME NEW h \in Handles, Destroy(h) PROVE shared'[k] = shared[k]
  <2>1. CASE handle[h] = NULL
    BY <1>1, <2>1 DEF Destroy, p7
  <2>2. CASE handle[h] # NULL
    <3>1. handle[h] \in Objs /\ refs[handle[h]] > 0 /\ Release(handle[h])
      BY <1>1, <2>2, OwnedIsLive DEF Destroy, IndInv, TypeOK
    <3>2. pinned' = pinned /\ self' = self
      BY <1>1 DEF Destroy, ghost, frame
    <3>3. QED
      BY <3>1, <3>2, ReleaseSpares
  <2>3. QED
    BY <2>1, <2>2
<1>2. ASSUME NEW t \in Threads, CloseClient(t) \/ Unwind(t)
      PROVE  shared'[k] = shared[k]
  <2>1. /\ pc[t] \in {"close", "unwind"} /\ Release(local[t]) /\ pinned' = pinned
        /\ self' = [self EXCEPT ![t] = NULL] \/ self' = self
    BY <1>2 DEF CloseClient, Unwind, ghost
  <2>2. local[t] \in Objs /\ refs[local[t]] > 0
    BY <2>1, OwnedIsLive DEF IndInv, FrameInv, TypeOK
  <2>3. \A u \in Threads : pc[u] = "pin" => self'[u] = self[u]
    BY <2>1 DEF IndInv, TypeOK
  <2>4. QED
    BY <2>1, <2>2, <2>3, ReleaseSpares
<1>3. ASSUME NEW t \in Threads, Share(t) PROVE shared'[k] = shared[k]
  BY <1>3 DEF Share, IndInv, TypeOK
<1>4. ASSUME NEW t \in Threads, ShareClient(t) PROVE shared'[k] = shared[k]
  BY <1>4 DEF ShareClient, IndInv, TypeOK
<1>5. ASSUME NEW t \in Threads,
             \/ GetShared(t) \/ GetSharedClient(t) \/ AddRefTelemetry(t)
             \/ \E o \in Objs : CreateClient(t, o) \/ CreateChannel(t, o)
      PROVE  shared'[k] = shared[k]
  BY <1>5 DEF GetShared, GetSharedClient, AddRefTelemetry, CreateClient,
              CreateChannel, Create
<1>6. ASSUME NEW t \in Threads,
             \/ RegisterUnixCrashHandlers(t) \/ AtexitFails(t)
             \/ SigactionFails(t) \/ CreateClientFails(t) \/ CreateChannelFails(t)
             \/ ShareFails(t) \/ ShareClientFails(t)
             \/ \E h \in Handles, n \in Names : Construct(t, h, n)
      PROVE  shared'[k] = shared[k]
  BY <1>6 DEF RegisterUnixCrashHandlers, AtexitFails, SigactionFails,
              CreateClientFails, CreateChannelFails, ShareFails,
              ShareClientFails, Construct, p7
<1>7. ASSUME NEW h \in Handles,
             DefaultConstruct(h) \/ \E g \in Handles : Swap(g, h)
      PROVE  shared'[k] = shared[k]
  BY <1>7 DEF DefaultConstruct, Swap, p7
<1>8. QED
  BY <1>1, <1>2, <1>3, <1>4, <1>5, <1>6, <1>7, LifecycleAssumption
     DEF HandleStep, Next, ConstructorStep

(* The extra Add_Ref() of the Telemetry constructor holds: a telemetry     *)
(* object that got its name is never destroyed.                            *)
THEOREM TelemetryNeverDestroyed == Spec => TelemetryStays
<1>1. IndInv /\ IndInv' /\ [Next]_vars =>
        [\A n \in Names : shared[<<"telemetry", n>>] # NULL =>
           shared'[<<"telemetry", n>>] = shared[<<"telemetry", n>>]]_vars
  <2> SUFFICES ASSUME IndInv, IndInv', Next, NEW n \in Names,
                      shared[<<"telemetry", n>>] # NULL
               PROVE  shared'[<<"telemetry", n>>] = shared[<<"telemetry", n>>]
    OBVIOUS
  <2>1. <<"telemetry", n>> \in Keys /\ <<"telemetry", n>>[1] = "telemetry"
    BY DEF Keys, Kinds
  <2>2. QED
    BY <2>1, TelemetryKept DEF HandleStep
<1>2. QED
  BY <1>1, Invariant, PTL DEF Spec, TelemetryStays

=============================================================================
