-------------------------- MODULE HandleLifecycle --------------------------
(***************************************************************************)
(* The C++ handles of LoggerV2 -- logging::Client, logging::Log and        *)
(* logging::Telemetry -- over the reference-counted, named objects of the  *)
(* P7 library they wrap (src/src/LoggerV2/Client.cpp, Log.cpp,             *)
(* Telemetry.cpp, Telemetry.hpp).                                          *)
(*                                                                         *)
(* A constructor is a sequence of P7 calls: look the name up, make sure    *)
(* the crash handlers and the client "main" exist, create, share.  Each    *)
(* call is atomic; between two calls any other thread may run.  P7 itself  *)
(* is not in this repository: it is modelled from how the code uses it.    *)
(*   - P7_Get_Shared*() hands out a reference (every destructor releases   *)
(*     one unconditionally), P7_Create_*() makes an object with one;       *)
(*   - Share() does not own a reference: Log.cpp:55 says that without an   *)
(*     extra Add_Ref() the shared object is destroyed with its last user;  *)
(*   - a trace or telemetry object holds a reference on its client, whose  *)
(*     local handle dies at the end of the block that created the object.  *)
(***************************************************************************)
EXTENDS Integers, Sequences, FiniteSets

CONSTANTS
  Threads,      \* threads of control that run constructors and destructors
  Handles,      \* C++ objects of the three classes: the slots they live in
  HandleKind,   \* the class of each handle
  Statics,      \* the handles of static storage duration
  Names, Main,  \* the names in use; Main is the client name "main"
  Objs,         \* addresses at which P7 can allocate its objects
  NULL,         \* nullptr
  Unbuilt,      \* a slot with no live C++ object in it
  ExitHandler,  \* the function registered with std::atexit
  MaxAtexit,    \* entries the atexit table can hold
  Failures      \* whether calls into P7 and libc may fail

Kinds == {"client", "trace", "telemetry"}
Keys  == Kinds \X Names

ASSUME LifecycleAssumption ==
  /\ HandleKind \in [Handles -> Kinds]
  /\ Statics \subseteq Handles
  /\ Main \in Names
  /\ NULL \notin Objs /\ Unbuilt \notin Objs /\ NULL # Unbuilt
  /\ NULL \notin Handles /\ ExitHandler \notin Handles
  /\ MaxAtexit \in Nat
  /\ Failures \in BOOLEAN

ASSUME FiniteAssumption ==
  IsFiniteSet(Threads) /\ IsFiniteSet(Handles) /\ IsFiniteSet(Objs)

VARIABLES
  refs,    \* P7: the reference count of each object; 0 is free memory
  client,  \* P7: the client a trace or telemetry object holds, or NULL
  shared,  \* P7: the object shared under each kind and name, or NULL
  handle,  \* client_, trace_ or telemetry_ of each handle
  pc,      \* where each thread is in a constructor
  target,  \* the slot whose constructor the thread runs
  name,    \* the constructor's argument
  self,    \* trace_ or telemetry_ of the object under construction
  local,   \* client_ of the Client under construction or in scope
  atexit,  \* libc: the exit functions, last registered last
  armed,   \* whether every sigaction() has been installed
  pinned,  \* history: objects that got the extra reference of Add_Ref()
  leaked   \* history: objects whose reference died with a constructor

p7    == <<refs, client, shared>>
frame == <<pc, target, name, self, local>>
hooks == <<atexit, armed>>
ghost == <<pinned, leaked>>
vars  == <<refs, client, shared, handle, pc, target, name, self, local,
           atexit, armed, pinned, leaked>>

PCs == {"idle", "get", "get_client", "register", "create_client",
        "share_client", "create", "share", "pin", "close", "unwind"}

TypeOK ==
  /\ refs \in [Objs -> Nat]
  /\ client \in [Objs -> Objs \cup {NULL}]
  /\ shared \in [Keys -> Objs \cup {NULL}]
  /\ handle \in [Handles -> Objs \cup {NULL, Unbuilt}]
  /\ pc \in [Threads -> PCs]
  /\ target \in [Threads -> Handles \cup {NULL}]
  /\ name \in [Threads -> Names]
  /\ self \in [Threads -> Objs \cup {NULL}]
  /\ local \in [Threads -> Objs \cup {NULL}]
  /\ atexit \in Seq(Statics \cup {ExitHandler})
  /\ armed \in BOOLEAN
  /\ pinned \subseteq Objs
  /\ leaked \subseteq Objs

Init ==
  /\ refs = [o \in Objs |-> 0]
  /\ client = [o \in Objs |-> NULL]
  /\ shared = [k \in Keys |-> NULL]
  /\ handle = [h \in Handles |-> Unbuilt]
  /\ pc = [t \in Threads |-> "idle"]
  /\ target = [t \in Threads |-> NULL]
  /\ name = [t \in Threads |-> Main]
  /\ self = [t \in Threads |-> NULL]
  /\ local = [t \in Threads |-> NULL]
  /\ atexit = <<>>
  /\ armed = FALSE
  /\ pinned = {}
  /\ leaked = {}

-----------------------------------------------------------------------------
(* P7 objects.                                                             *)

Live(o) == refs[o] > 0

AddRef(o) == refs' = [refs EXCEPT ![o] = @ + 1]

(* The last Release() destroys the object: its name is free again, and a   *)
(* trace or telemetry object releases its client in turn.                  *)
Release(o) ==
  /\ refs' = [x \in Objs |->
       IF x = o \/ (x = client[o] /\ refs[o] = 1) THEN refs[x] - 1 ELSE refs[x]]
  /\ client' = [client EXCEPT ![o] = IF refs[o] = 1 THEN NULL ELSE @]
  /\ shared' = [k \in Keys |->
       IF shared[k] # NULL /\ refs'[shared[k]] = 0 THEN NULL ELSE shared[k]]

(* A new object o holding a reference on client c; NULL for a client.      *)
Create(o, c) ==
  /\ refs[o] = 0
  /\ refs' = [x \in Objs |-> IF x = o THEN 1
                             ELSE IF x = c THEN refs[x] + 1 ELSE refs[x]]
  /\ client' = [client EXCEPT ![o] = c]
  /\ UNCHANGED shared

-----------------------------------------------------------------------------
(* Constructors.                                                           *)

Kind(t)      == HandleKind[target[t]]
Key(t)       == <<Kind(t), name[t]>>
ClientKey(t) == IF Kind(t) = "client" THEN Key(t) ELSE <<"client", Main>>

Goto(t, label) ==
  /\ pc' = [pc EXCEPT ![t] = label]
  /\ UNCHANGED <<target, name>>

Leave(t) ==
  /\ pc' = [pc EXCEPT ![t] = "idle"]
  /\ target' = [target EXCEPT ![t] = NULL]
  /\ name' = [name EXCEPT ![t] = Main]

(* The constructor returns with pointer o; a static object then registers  *)
(* its destructor with the exit functions.                                 *)
Return(t, o) ==
  /\ handle' = [handle EXCEPT ![target[t]] = o]
  /\ atexit' = IF target[t] \in Statics /\ Len(atexit) < MaxAtexit
               THEN Append(atexit, target[t]) ELSE atexit
  /\ Leave(t)

(* The constructor throws: no destructor of the object will run.           *)
Throw(t) == Leave(t) /\ UNCHANGED <<handle, atexit>>

Idle(t)  == pc[t] = "idle"
Vacant(h) == handle[h] = Unbuilt /\ \A t \in Threads : target[t] # h

Construct(t, h, n) ==
  /\ Idle(t) /\ Vacant(h)
  /\ pc' = [pc EXCEPT ![t] = IF HandleKind[h] = "client"
                             THEN "get_client" ELSE "get"]
  /\ target' = [target EXCEPT ![t] = h]
  /\ name' = [name EXCEPT ![t] = n]
  /\ UNCHANGED <<p7, handle, self, local, hooks, ghost>>

DefaultConstruct(h) ==
  /\ Vacant(h) /\ h \notin Statics
  /\ handle' = [handle EXCEPT ![h] = NULL]
  /\ UNCHANGED <<p7, frame, hooks, ghost>>

(* Mutant: the constructor creates without looking the name up.            *)
CreateWithoutLookup(t) ==
  /\ pc[t] = "get"
  /\ Goto(t, "get_client")
  /\ UNCHANGED <<p7, handle, self, local, hooks, ghost>>

(* Mutant: the pointer found is used without a reference of its own.       *)
GetSharedUncounted(t) ==
  /\ pc[t] = "get"
  /\ IF shared[Key(t)] # NULL
     THEN Return(t, shared[Key(t)])
     ELSE Goto(t, "get_client") /\ UNCHANGED <<handle, atexit>>
  /\ UNCHANGED <<p7, self, local, armed, ghost>>

(* Mutant: every Log registers ExitHandler, not only a Client it creates.  *)
GetSharedRegisters(t) ==
  /\ pc[t] = "get"
  /\ IF shared[Key(t)] # NULL
     THEN /\ AddRef(shared[Key(t)])
          /\ handle' = [handle EXCEPT ![target[t]] = shared[Key(t)]]
          /\ atexit' = IF Len(atexit) < MaxAtexit
                       THEN Append(atexit, ExitHandler) ELSE atexit
          /\ Leave(t)
     ELSE Goto(t, "get_client") /\ UNCHANGED <<refs, handle, atexit>>
  /\ UNCHANGED <<client, shared, self, local, armed, ghost>>

(* P7_Get_Shared_Trace() / P7_Get_Shared_Telemetry()                       *)
GetShared(t) ==
  /\ pc[t] = "get"
  /\ IF shared[Key(t)] # NULL
     THEN AddRef(shared[Key(t)]) /\ Return(t, shared[Key(t)])
     ELSE Goto(t, "get_client") /\ UNCHANGED <<refs, handle, atexit>>
  /\ UNCHANGED <<client, shared, self, local, armed, ghost>>

(* P7_Get_Shared() in Client::Client, for a Client handle of the program   *)
(* or for the local Client of a Log or Telemetry constructor.              *)
GetSharedClient(t) ==
  LET c == shared[ClientKey(t)] IN
  /\ pc[t] = "get_client"
  /\ IF c = NULL
     THEN Goto(t, "register") /\ UNCHANGED <<refs, handle, atexit, local>>
     ELSE /\ AddRef(c)
          /\ IF Kind(t) = "client"
             THEN Return(t, c) /\ UNCHANGED local
             ELSE /\ Goto(t, "create")
                  /\ local' = [local EXCEPT ![t] = c]
                  /\ UNCHANGED <<handle, atexit>>
  /\ UNCHANGED <<client, shared, self, armed, ghost>>

RegisterUnixCrashHandlers(t) ==
  /\ pc[t] = "register"
  /\ Len(atexit) < MaxAtexit
  /\ atexit' = Append(atexit, ExitHandler)
  /\ armed' = TRUE
  /\ Goto(t, "create_client")
  /\ UNCHANGED <<p7, handle, self, local, ghost>>

(* std::atexit() returns non-zero when its table is full.                  *)
AtexitFails(t) ==
  /\ pc[t] = "register"
  /\ Failures \/ Len(atexit) = MaxAtexit
  /\ Throw(t)
  /\ UNCHANGED <<p7, self, local, armed, ghost>>

(* Mutant: the result of sigaction() is not checked.                       *)
SigactionIgnored(t) ==
  /\ pc[t] = "register"
  /\ Failures /\ Len(atexit) < MaxAtexit
  /\ atexit' = Append(atexit, ExitHandler)
  /\ Goto(t, "create_client")
  /\ UNCHANGED <<p7, handle, self, local, armed, ghost>>

(* One of the sigaction() calls fails: ExitHandler is registered by then.  *)
SigactionFails(t) ==
  /\ pc[t] = "register"
  /\ Failures /\ Len(atexit) < MaxAtexit
  /\ atexit' = Append(atexit, ExitHandler)
  /\ Leave(t)
  /\ UNCHANGED <<p7, handle, self, local, armed, ghost>>

CreateClient(t, o) ==
  /\ pc[t] = "create_client"
  /\ Create(o, NULL)
  /\ local' = [local EXCEPT ![t] = o]
  /\ Goto(t, "share_client")
  /\ UNCHANGED <<handle, self, hooks, ghost>>

CreateClientFails(t) ==
  /\ pc[t] = "create_client"
  /\ Failures \/ \A o \in Objs : Live(o)
  /\ Throw(t)
  /\ UNCHANGED <<p7, self, local, armed, ghost>>

(* client_->Share(name)                                                    *)
ShareClient(t) ==
  /\ pc[t] = "share_client"
  /\ shared[ClientKey(t)] = NULL
  /\ shared' = [shared EXCEPT ![ClientKey(t)] = local[t]]
  /\ IF Kind(t) = "client"
     THEN Return(t, local[t]) /\ local' = [local EXCEPT ![t] = NULL]
     ELSE Goto(t, "create") /\ UNCHANGED <<handle, atexit, local>>
  /\ UNCHANGED <<refs, client, self, armed, ghost>>

(* Mutant: the result of the client's Share() is not checked.              *)
ShareClientFailureIgnored(t) ==
  /\ pc[t] = "share_client"
  /\ Failures \/ shared[ClientKey(t)] # NULL
  /\ IF Kind(t) = "client"
     THEN Return(t, local[t]) /\ local' = [local EXCEPT ![t] = NULL]
     ELSE Goto(t, "create") /\ UNCHANGED <<handle, atexit, local>>
  /\ UNCHANGED <<p7, self, armed, ghost>>

(* Share() fails when the name is taken meanwhile, or on its own account.  *)
(* The exception leaves ~Client unexecuted, so the reference is lost.      *)
ShareClientFails(t) ==
  /\ pc[t] = "share_client"
  /\ Failures \/ shared[ClientKey(t)] # NULL
  /\ leaked' = leaked \cup {local[t]}
  /\ local' = [local EXCEPT ![t] = NULL]
  /\ Throw(t)
  /\ UNCHANGED <<p7, self, armed, pinned>>

(* P7_Create_Trace() / P7_Create_Telemetry() on the local client           *)
CreateChannel(t, o) ==
  /\ pc[t] = "create"
  /\ Create(o, local[t])
  /\ self' = [self EXCEPT ![t] = o]
  /\ Goto(t, "share")
  /\ UNCHANGED <<handle, local, hooks, ghost>>

CreateChannelFails(t) ==
  /\ pc[t] = "create"
  /\ Failures \/ \A o \in Objs : Live(o)
  /\ Goto(t, "unwind")
  /\ UNCHANGED <<p7, handle, self, local, hooks, ghost>>

(* trace_->Share(name) / telemetry_->Share(name)                           *)
Share(t) ==
  /\ pc[t] = "share"
  /\ shared[Key(t)] = NULL
  /\ shared' = [shared EXCEPT ![Key(t)] = self[t]]
  /\ Goto(t, IF Kind(t) = "telemetry" THEN "pin" ELSE "close")
  /\ UNCHANGED <<refs, client, handle, self, local, hooks, ghost>>

(* Mutant: the result of Share() is not checked.                           *)
ShareFailureIgnored(t) ==
  /\ pc[t] = "share"
  /\ Failures \/ shared[Key(t)] # NULL
  /\ Goto(t, IF Kind(t) = "telemetry" THEN "pin" ELSE "close")
  /\ UNCHANGED <<p7, handle, self, local, hooks, ghost>>

(* Share() fails: the local Client is destroyed on the way out, the new    *)
(* object is not.                                                          *)
ShareFails(t) ==
  /\ pc[t] = "share"
  /\ Failures \/ shared[Key(t)] # NULL
  /\ leaked' = leaked \cup {self[t]}
  /\ self' = [self EXCEPT ![t] = NULL]
  /\ Goto(t, "unwind")
  /\ UNCHANGED <<p7, handle, local, hooks, pinned>>

(* Mutant: Add_Ref() is commented out, as it is in Log.cpp and Client.cpp.  *)
AddRefCommentedOut(t) ==
  /\ pc[t] = "pin"
  /\ Goto(t, "close")
  /\ UNCHANGED <<p7, handle, self, local, hooks, ghost>>

(* telemetry_->Add_Ref(); the same line of Log.cpp is commented out.       *)
AddRefTelemetry(t) ==
  /\ pc[t] = "pin"
  /\ AddRef(self[t])
  /\ pinned' = pinned \cup {self[t]}
  /\ Goto(t, "close")
  /\ UNCHANGED <<client, shared, handle, self, local, hooks, leaked>>

(* Mutant: the client is released by hand, and again by its destructor.    *)
CloseClientTwice(t) ==
  /\ pc[t] = "close"
  /\ refs' = [refs EXCEPT ![local[t]] = @ - 2]
  /\ shared' = [k \in Keys |->
       IF shared[k] # NULL /\ refs'[shared[k]] = 0 THEN NULL ELSE shared[k]]
  /\ local' = [local EXCEPT ![t] = NULL]
  /\ self' = [self EXCEPT ![t] = NULL]
  /\ Return(t, self[t])
  /\ UNCHANGED <<client, armed, ghost>>

(* The end of the block destroys the local Client; the constructor is done.*)
CloseClient(t) ==
  /\ pc[t] = "close"
  /\ Release(local[t])
  /\ local' = [local EXCEPT ![t] = NULL]
  /\ self' = [self EXCEPT ![t] = NULL]
  /\ Return(t, self[t])
  /\ UNCHANGED <<armed, ghost>>

(* Mutant: a raw IP7_Client pointer instead of the local Client object.    *)
UnwindWithoutRelease(t) ==
  /\ pc[t] = "unwind"
  /\ local' = [local EXCEPT ![t] = NULL]
  /\ Throw(t)
  /\ UNCHANGED <<p7, self, armed, ghost>>

(* Stack unwinding destroys the local Client.                              *)
Unwind(t) ==
  /\ pc[t] = "unwind"
  /\ Release(local[t])
  /\ local' = [local EXCEPT ![t] = NULL]
  /\ Throw(t)
  /\ UNCHANGED <<self, armed, ghost>>

-----------------------------------------------------------------------------
(* Destructors and swap().                                                 *)

(* Mutant: the release can be repeated, the pointer is not given up.       *)
DestroyKeepsPointer(h) ==
  /\ handle[h] # Unbuilt
  /\ IF handle[h] = NULL THEN UNCHANGED p7 ELSE Release(handle[h])
  /\ UNCHANGED <<handle, frame, hooks, ghost>>

Destroy(h) ==
  /\ handle[h] # Unbuilt
  /\ IF handle[h] = NULL THEN UNCHANGED p7 ELSE Release(handle[h])
  /\ handle' = [handle EXCEPT ![h] = Unbuilt]
  /\ UNCHANGED <<frame, hooks, ghost>>

(* Mutant: swap() assigns in one direction only.                           *)
SwapOneWay(g, h) ==
  /\ HandleKind[g] = HandleKind[h] /\ HandleKind[g] # "client"
  /\ handle[g] # Unbuilt /\ handle[h] # Unbuilt
  /\ handle' = [handle EXCEPT ![g] = handle[h]]
  /\ UNCHANGED <<p7, frame, hooks, ghost>>

Swap(g, h) ==
  /\ HandleKind[g] = HandleKind[h] /\ HandleKind[g] # "client"
  /\ handle[g] # Unbuilt /\ handle[h] # Unbuilt
  /\ handle' = [handle EXCEPT ![g] = handle[h], ![h] = handle[g]]
  /\ UNCHANGED <<p7, frame, hooks, ghost>>

-----------------------------------------------------------------------------
ConstructorStep(t) ==
  \/ GetShared(t) \/ GetSharedClient(t)
  \/ RegisterUnixCrashHandlers(t) \/ AtexitFails(t) \/ SigactionFails(t)
  \/ CreateClientFails(t) \/ ShareClient(t) \/ ShareClientFails(t)
  \/ CreateChannelFails(t) \/ Share(t) \/ ShareFails(t)
  \/ AddRefTelemetry(t) \/ CloseClient(t) \/ Unwind(t)
  \/ \E o \in Objs : CreateClient(t, o) \/ CreateChannel(t, o)

(* A program that treats every handle as the single owner of its pointer:  *)
(* it neither copies, moves nor assigns handles (HandleCopies does).       *)
Next ==
  \/ \E t \in Threads : ConstructorStep(t)
  \/ \E t \in Threads, h \in Handles, n \in Names : Construct(t, h, n)
  \/ \E h \in Handles : DefaultConstruct(h)
  \/ \E h \in Handles \ Statics : Destroy(h)
  \/ \E g, h \in Handles : Swap(g, h)

Spec == Init /\ [][Next]_vars

-----------------------------------------------------------------------------
(* Properties.                                                             *)

Count(f, v) == Cardinality({x \in DOMAIN f : f[x] = v})
Bit(b) == IF b THEN 1 ELSE 0

Owners(o) == Count(handle, o) + Count(self, o) + Count(local, o)
             + Count(client, o) + Bit(o \in pinned) + Bit(o \in leaked)

(* Every reference has exactly one owner: a handle, a constructor's member *)
(* or local pointer, a trace or telemetry object holding its client, the   *)
(* deliberate Add_Ref(), or a failed Share(), whose exception loses the    *)
(* object just made (Client.cpp:667, Log.cpp:53, Telemetry.cpp:61) and is  *)
(* the only one that does.  So no path of the constructors, the unwinding  *)
(* or the destructors releases twice, and no other path forgets a          *)
(* Release().                                                              *)
RefAccounting == \A o \in Objs : refs[o] = Owners(o)

(* No handle and no constructor ever holds a pointer to freed memory.      *)
NoDangling ==
  /\ \A h \in Handles : handle[h] \in Objs => Live(handle[h])
  /\ \A t \in Threads : /\ self[t] # NULL => Live(self[t])
                        /\ local[t] # NULL => Live(local[t])
  /\ \A o \in Objs : client[o] # NULL => Live(client[o])
  /\ \A k \in Keys : shared[k] # NULL => Live(shared[k])

(* The pointer of a handle is the object shared under one name, and only   *)
(* that one, so two handles built with one name log to one channel even    *)
(* when their constructors raced; the loser's object is not visible.       *)
SameNameSameObject ==
  \A h \in Handles : handle[h] \in Objs =>
    \E n \in Names :
      /\ shared[<<HandleKind[h], n>>] = handle[h]
      /\ \A k \in Keys : shared[k] = handle[h] => k = <<HandleKind[h], n>>

(* Crash reports need ExitHandler: no P7 object is alive before the signal *)
(* handlers of RegisterUnixCrashHandlers are installed.                    *)
ArmedBeforeLogging == (\E o \in Objs : Live(o)) => armed

(* Telemetry.cpp:63: the extra reference means that a telemetry object,    *)
(* once shared, is not destroyed while the process runs.                   *)
TelemetryStays ==
  [][\A n \in Names : shared[<<"telemetry", n>>] # NULL =>
        shared'[<<"telemetry", n>>] = shared[<<"telemetry", n>>]]_vars

-----------------------------------------------------------------------------
(* The inductive invariant (HandleLifecycleProofs proves it).              *)

(* A frame is filled exactly as far as its constructor has come, and no    *)
(* two constructors build in one slot.                                     *)
FrameInv ==
  \A t \in Threads :
    /\ pc[t] = "idle" <=> target[t] = NULL
    /\ target[t] # NULL => handle[target[t]] = Unbuilt
    /\ \A u \in Threads : target[t] # NULL /\ target[t] = target[u] => t = u
    /\ self[t] # NULL <=> pc[t] \in {"share", "pin", "close"}
    /\ local[t] # NULL <=> pc[t] \in {"share_client", "create", "share", "pin",
                                      "close", "unwind"}
    /\ pc[t] \in {"get", "create", "share", "pin", "close", "unwind"}
         => Kind(t) # "client"
    /\ pc[t] = "pin" => Kind(t) = "telemetry"

(* An object is a client or holds one, and each pointer has its type.      *)
RoleInv ==
  /\ \A o \in Objs : /\ refs[o] = 0 => client[o] = NULL
                     /\ client[o] # NULL => client[client[o]] = NULL
  /\ \A t \in Threads : /\ local[t] # NULL => client[local[t]] = NULL
                        /\ self[t] # NULL => client[self[t]] # NULL
  /\ \A k \in Keys : shared[k] # NULL
                       => (client[shared[k]] = NULL <=> k[1] = "client")

(* Only live objects have a name, and an object has at most one.           *)
NameInv ==
  /\ \A k \in Keys : shared[k] # NULL => Live(shared[k])
  /\ \A k, m \in Keys : shared[k] # NULL /\ shared[k] = shared[m] => k = m

(* What a handle points to is shared under a name of the handle's class.   *)
HandleInv ==
  \A h \in Handles : handle[h] \in Objs =>
    \E n \in Names : shared[<<HandleKind[h], n>>] = handle[h]

(* Until an object is shared it belongs to the constructor that made it.   *)
FreshInv ==
  /\ \A t \in Threads : pc[t] = "share_client" =>
       /\ \A k \in Keys : shared[k] # local[t]
       /\ \A u \in Threads : local[u] = local[t] => u = t
  /\ \A t \in Threads : pc[t] = "share" => \A k \in Keys : shared[k] # self[t]
  /\ \A t \in Threads : pc[t] \in {"pin", "close"} => shared[Key(t)] = self[t]
  /\ \A t, u \in Threads : self[t] # NULL /\ self[u] = self[t] => u = t

(* Each reference of the history variables is counted once.                *)
GhostInv ==
  \A t \in Threads :
    /\ pc[t] = "share_client" => local[t] \notin leaked
    /\ pc[t] = "share" => self[t] \notin leaked
    /\ pc[t] \in {"share", "pin"} => self[t] \notin pinned

HookInv ==
  /\ ArmedBeforeLogging
  /\ \A t \in Threads : pc[t] = "create_client" => armed

(* A shared telemetry object has its extra reference, or is about to.      *)
PinInv ==
  \A k \in Keys : k[1] = "telemetry" /\ shared[k] # NULL =>
    \/ shared[k] \in pinned
    \/ \E t \in Threads : pc[t] = "pin" /\ self[t] = shared[k]

IndInv ==
  /\ TypeOK /\ FrameInv /\ RefAccounting /\ RoleInv /\ NameInv
  /\ HandleInv /\ FreshInv /\ GhostInv /\ HookInv /\ PinInv
=============================================================================
