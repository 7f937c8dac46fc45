-------------------------- MODULE CrashExitProofs --------------------------
(***************************************************************************)
(* Proofs about CrashExit, for any number of tasks, signals and handlers   *)
(* on a stack: signals, exit() and ExitHandler leave the references in     *)
(* order (IndInv of HandleLifecycle), the handles are still those of       *)
(* NamedChannels, exit() uses up its work while the client "main" is kept, *)
(* a report never mixes signals, a lone crash is reported, and one thread  *)
(* alone never finds its name taken when it shares an object.              *)
(***************************************************************************)
EXTENDS CrashExit, HandleRefinementProofs, SequenceTheorems

(* Every thread is in its program; a backtrace is of one signal, if it is  *)
(* one at all; and so is a report.                                         *)
Quiet             == \A t \in Tasks : stage[Top(t)] = "program"
BacktraceOf(b, s) == b \in {s, NULL} \/ (b = Garbage /\ replaced)
Unmixed(r)        == r.info = r.sig /\ BacktraceOf(r.trace, r.sig)

(* Garbage comes from a buffer that was replaced, and without a buffer     *)
(* nothing was dumped.                                                     *)
BufferInv ==
  /\ data.dump = Garbage => replaced
  /\ ~buffer => data.dump \in {NULL, Garbage}

(* ExitHandler's Log has no default constructor behind it, and exit() has  *)
(* a static handle in hand whenever it runs a destructor.                  *)
PlaceInv ==
  \A c \in Threads : /\ handle[c] # NULL
                     /\ stage[c] = "destroy" => running[c] \in Statics

(* What the handler of context c has left in the record when only one      *)
(* thread has left its program.                                            *)
Saved(c) ==
  /\ stage[c] = "save_info" => data.sig = signal[c]
  /\ stage[c] = "save_dump" => data.sig = signal[c] /\ data.info = signal[c]
  /\ stage[c] \in {"exit", "destroy", "read", "construct", "flush", "close"}
       => data.info = data.sig /\ BacktraceOf(data.dump, data.sig)
  /\ stage[c] = "construct" => BacktraceOf(trace[c], data.sig)

RecordInv ==
  /\ BufferInv
  /\ Quiet => data.sig = NULL /\ data.info = NULL /\ data.dump = NULL
  /\ Solo => \A t \in Tasks : Saved(Top(t))
  /\ ReportsAgree

(* Exactly the contexts on a stack, the program's excepted, have a signal. *)
HandlerInv ==
  \A c \in Threads : signal[c] # NULL <=> c[2] \in 1 .. level[c[1]]

AllInProgram == \A t \in Tasks : stage[<<t, 0>>] = "program"
Hooked       == \E i \in DOMAIN atexit : atexit[i] = ExitHandler
Late         == {"exit", "destroy", "read", "construct", "flush", "close"}

(* What CrashReported expects of the handler of context c.                 *)
Due(c)        == IF buffer THEN signal[c] ELSE NULL
Answers(r, c) == /\ r.sig = signal[c] /\ r.info = signal[c]
                 /\ ~replaced => r.trace = Due(c)
Reported(c)   == \E r \in sent : Answers(r, c)
Logged(c)     == \E l \in log : l.to = handle[c] /\ Answers(l.report, c)

(* How far that handler, struck alone, has come towards its report.        *)
Claims(c) ==
  /\ stage[c] \in {"save_sig", "save_info", "save_dump"} => Hooked
  /\ stage[c] \in {"save_info", "save_dump"} => data.sig = signal[c]
  /\ stage[c] = "save_dump" => data.info = signal[c]
  /\ stage[c] \in Late => /\ data.sig = signal[c] /\ data.info = signal[c]
                          /\ ~replaced => data.dump = Due(c)
  /\ stage[c] \in {"exit", "destroy"} => Hooked \/ Reported(c)
  /\ stage[c] = "construct" /\ ~replaced => trace[c] = Due(c)
  /\ stage[c] = "flush" => Logged(c)
  /\ stage[c] = "close" => Reported(c)

LoneInv ==
  /\ Struck = {} /\ AllInProgram /\ handled # {} => Hooked
  /\ \A c \in Threads : Struck = {c} /\ AllInProgram => Claims(c)
  /\ CrashReported

CrashInv ==
  IndInv /\ CrashTypeOK /\ PlaceInv /\ RecordInv /\ HandlerInv /\ LoneInv

-----------------------------------------------------------------------------
(* Contexts.                                                               *)

(* A context is a task and a height on its stack.                          *)
LEMMA Contexts ==
  /\ \A c \in Threads : /\ c[1] \in Tasks /\ c[2] \in 0 .. MaxLevel
                        /\ c = <<c[1], c[2]>>
  /\ \A t \in Tasks, n \in 0 .. MaxLevel : <<t, n>> \in Threads
  /\ \A t \in Tasks : <<t, 0>> \in Threads
  /\ Ends \subseteq Tasks
  /\ \A c \in Threads : c \in Handles /\ c \notin Statics
  /\ \A t \in Tasks : Uses[t] \subseteq Handles \ Threads
  BY CrashAssumption

(* The running context of a task.                                          *)
LEMMA TopIsContext ==
  CrashTypeOK => \A t \in Tasks : Top(t) \in Threads /\ Top(t)[1] = t
  BY Contexts DEF CrashTypeOK, Top

(* The same after a step.                                                  *)
LEMMA TopIsContextNext ==
  CrashTypeOK' => \A t \in Tasks : Top(t)' \in Threads
  BY Contexts DEF CrashTypeOK, Top

(* A context that runs is the top one of its task.                         *)
LEMMA RunsOnTop ==
  ASSUME NEW c \in Threads, Runs(c)
  PROVE  c[1] \in Tasks /\ c = Top(c[1])
  BY Contexts DEF Runs, Top

-----------------------------------------------------------------------------
(* The handles.                                                            *)

(* What a constructor may do to a handle: to build it, with an object.     *)
Built(h) == handle'[h] = handle[h] \/ (handle[h] = Unbuilt /\ handle'[h] \in Objs)

(* A constructor's step does no more to any of them.                       *)
LEMMA ConstructorBuilds ==
  ASSUME IndInv, NEW t \in Threads, ConstructorStep(t)
  PROVE  \A h \in Handles : Built(h)
<1> USE DEF IndInv, Built
<1>1. /\ handle \in [Handles -> Objs \cup {NULL, Unbuilt}]
      /\ shared \in [Keys -> Objs \cup {NULL}]
      /\ self \in [Threads -> Objs \cup {NULL}]
      /\ local \in [Threads -> Objs \cup {NULL}]
  BY DEF TypeOK
<1>2. pc[t] = "close" => self[t] \in Objs
  BY <1>1 DEF FrameInv
<1>3. pc[t] = "share_client" => local[t] \in Objs
  BY <1>1 DEF FrameInv
<1>4. pc[t] # "idle" => Key(t) \in Keys /\ ClientKey(t) \in Keys
  BY KeyType, LifecycleAssumption DEF FrameInv, TypeOK, ClientKey, Key, Kind, Keys, Kinds
<1>5. ASSUME NEW o \in Objs, Return(t, o), pc[t] # "idle"
      PROVE  \A h \in Handles : Built(h)
  <2>1. handle[target[t]] = Unbuilt
    BY <1>5 DEF FrameInv
  <2>2. QED
    BY <1>1, <1>5, <2>1 DEF Return
<1>6. CASE GetShared(t)
  <2>1. pc[t] = "get" /\ (UNCHANGED handle \/ (shared[Key(t)] # NULL /\ Return(t, shared[Key(t)])))
    BY <1>6 DEF GetShared
  <2>2. shared[Key(t)] \in Objs \cup {NULL}
    BY <2>1, <1>1, <1>4
  <2>3. QED
    BY <2>1, <2>2, <1>5
<1>7. CASE GetSharedClient(t)
  <2> DEFINE c == shared[ClientKey(t)]
  <2>1. pc[t] = "get_client" /\ (UNCHANGED handle \/ (c # NULL /\ Return(t, c)))
    BY <1>7 DEF GetSharedClient
  <2>2. c \in Objs \cup {NULL}
    BY <2>1, <1>1, <1>4
  <2>3. QED
    BY <2>1, <2>2, <1>5
<1>8. CASE ShareClient(t)
  BY <1>8, <1>3, <1>5 DEF ShareClient, Throw
<1>9. CASE CloseClient(t)
  BY <1>9, <1>2, <1>5 DEF CloseClient
<1>10. CASE UNCHANGED handle
  BY <1>10
<1>11. QED
  BY <1>6, <1>7, <1>8, <1>9, <1>10
     DEF ConstructorStep, RegisterUnixCrashHandlers, AtexitFails, SigactionFails,
         CreateClientFails, ShareClientFails, CreateChannelFails, Share, ShareFails,
         AddRefTelemetry, Unwind,
         CreateClient, CreateChannel, Throw

(* exit() takes a function off its table: the handles do not notice.       *)
LEMMA PopKeeps ==
  ASSUME IndInv, NEW c, NextExitFunction(c)
  PROVE  IndInv'
<1> USE DEF IndInv
<1>1. /\ atexit \in Seq(Statics \cup {ExitHandler}) /\ atexit # <<>>
      /\ atexit' = SubSeq(atexit, 1, Len(atexit) - 1)
      /\ UNCHANGED <<refs, client, shared, handle, pc, target, name, self,
                     local, armed, pinned, leaked>>
  BY DEF NextExitFunction, TypeOK, p7, frame, ghost
<1>2. atexit' \in Seq(Statics \cup {ExitHandler})
  BY <1>1
<1>3. TypeOK'
  BY <1>1, <1>2 DEF TypeOK
<1>4. FrameInv'
  BY <1>1 DEF FrameInv, Kind
<1>5. RefAccounting'
  BY <1>1 DEF RefAccounting, Owners
<1>6. RoleInv' /\ NameInv' /\ HandleInv'
  BY <1>1 DEF RoleInv, NameInv, HandleInv, Live
<1>7. FreshInv'
  BY <1>1 DEF FreshInv, Key, Kind
<1>8. GhostInv' /\ HookInv' /\ PinInv'
  BY <1>1 DEF GhostInv, HookInv, ArmedBeforeLogging, PinInv, Live
<1>9. QED
  BY <1>3, <1>4, <1>5, <1>6, <1>7, <1>8

(* A call of a constructor, or its look at the crash record.               *)
LEMMA CallKeeps ==
  ASSUME IndInv, NEW c \in Threads, ConstructorCall(c)
  PROVE  IndInv' /\ \A h \in Handles : Built(h)
<1>1. CASE CheckBuffer(c)
  BY <1>1, StutterInv DEF CheckBuffer, vars, Built
<1>2. CASE ConstructorStep(c)
  BY <1>2, NextInv, ConstructorBuilds DEF HandleStep, Next
<1>3. QED
  BY <1>1, <1>2 DEF ConstructorCall

(* A step of a task, a signal or exit() is a step of the handles, takes a  *)
(* function off the table of exit(), or leaves the handles alone.          *)
LEMMA CrashSteps ==
  ASSUME PlaceInv, CrashNext
  PROVE  \/ HandleStep
         \/ \E c \in Threads : NextExitFunction(c)
         \/ UNCHANGED vars
<1> DEFINE Step == HandleStep \/ (\E c \in Threads : NextExitFunction(c))
                     \/ UNCHANGED vars
<1> SUFFICES Step
  OBVIOUS
<1>1. ASSUME NEW c \in Threads, ConstructorCall(c) PROVE Step
  BY <1>1 DEF ConstructorCall, CheckBuffer, HandleStep, Next
<1>2. ASSUME NEW h \in Handles, Destroy(h) PROVE Step
  BY <1>2 DEF HandleStep, Next
<1>3. ASSUME NEW t \in Tasks, ProgramConstructor(t) PROVE Step
  BY <1>1, <1>3, Contexts DEF ProgramConstructor
<1>4. ASSUME NEW t \in Tasks, ProgramCall(t) PROVE Step
  <2>1. <<t, 0>> \in Threads /\ Uses[t] \subseteq Handles
    BY Contexts, CrashAssumption
  <2>2. QED
    BY <1>2, <1>4, <2>1 DEF ProgramCall, HandleStep, Next
<1>5. ASSUME NEW c \in Threads, DestroyStatic(c) PROVE Step
  <2>1. running[c] \in Handles
    BY <1>5, LifecycleAssumption DEF PlaceInv, DestroyStatic, At
  <2>2. QED
    BY <1>2, <1>5, <2>1 DEF DestroyStatic
<1>6. ASSUME NEW c \in Threads, ReadBacktrace(c) PROVE Step
  BY <1>6, Contexts, LifecycleAssumption DEF ReadBacktrace, HandleStep, Next
<1>7. ASSUME NEW c \in Threads, ExitLogConstructor(c) PROVE Step
  BY <1>1, <1>7 DEF ExitLogConstructor
<1>8. ASSUME NEW c \in Threads, CloseLog(c) PROVE Step
  BY <1>2, <1>8, Contexts DEF CloseLog
<1>9. QED
  BY <1>3, <1>4, <1>5, <1>6, <1>7, <1>8
     DEF CrashNext, Exit, Signal, SignalKills, Enter, ExitStep, SaveSig, SaveInfo,
         SaveDump, ProcessEnds, Terminate, LogReport, Flush

(* No step of a signal, of exit() or of ExitHandler breaks the books.      *)
LEMMA HandlesNext ==
  ASSUME IndInv, PlaceInv, CrashNext
  PROVE  IndInv'
BY CrashSteps, NextInv, PopKeeps, StutterInv

(* The program of a task does not touch ExitHandler's Logs.                *)
LEMMA ProgramSpares ==
  ASSUME IndInv, NEW t \in Tasks, ProgramCall(t)
  PROVE  \A c \in Threads : handle'[c] = handle[c]
<1> SUFFICES ASSUME NEW c \in Threads PROVE handle'[c] = handle[c]
  OBVIOUS
<1>1. /\ c \notin Uses[t] /\ Uses[t] \subseteq Handles /\ c \in Handles
      /\ handle \in [Handles -> Objs \cup {NULL, Unbuilt}]
  BY Contexts DEF IndInv, TypeOK
<1>2. ASSUME NEW h \in Uses[t], \/ \E n \in Names : Construct(<<t, 0>>, h, n)
                                \/ DefaultConstruct(h) \/ Destroy(h)
                                \/ \E g \in Uses[t] : Swap(g, h)
      PROVE  handle'[c] = handle[c]
  BY <1>1, <1>2 DEF Construct, DefaultConstruct, Destroy, Swap
<1>3. QED
  BY <1>2 DEF ProgramCall

(* What ExitHandler's Log and the function in hand of exit() are like.     *)
LEMMA PlaceNext ==
  ASSUME IndInv, CrashTypeOK, PlaceInv, CrashNext
  PROVE  PlaceInv'
<1> SUFFICES ASSUME NEW c \in Threads
             PROVE  handle'[c] # NULL
                    /\ (stage'[c] = "destroy" => running'[c] \in Statics)
  BY DEF PlaceInv
<1>1. /\ handle[c] # NULL /\ (stage[c] = "destroy" => running[c] \in Statics)
      /\ c \in Handles /\ handle \in [Handles -> Objs \cup {NULL, Unbuilt}]
      /\ NULL \notin Objs /\ NULL # Unbuilt
      /\ stage \in [Threads -> Stages]
      /\ running \in [Threads -> Statics \cup {ExitHandler, NULL}]
      /\ level \in [Tasks -> 0 .. MaxLevel]
  BY Contexts, LifecycleAssumption DEF PlaceInv, CrashTypeOK, IndInv, TypeOK
<1>2. handle'[c] # NULL
  <2>1. ASSUME NEW d \in Threads, ConstructorCall(d) PROVE handle'[c] # NULL
    BY <1>1, <2>1, CallKeeps DEF Built
  <2>2. ASSUME NEW t \in Tasks, ProgramCall(t) PROVE handle'[c] # NULL
    BY <1>1, <2>2, ProgramSpares
  <2>3. ASSUME NEW h, Destroy(h) PROVE handle'[c] # NULL
    BY <1>1, <2>3 DEF Destroy
  <2>4. CASE UNCHANGED handle
    BY <1>1, <2>4
  <2>5. ASSUME NEW d \in Threads, ExitStep(d) PROVE handle'[c] # NULL
    BY <2>1, <2>3, <2>4, <2>5
       DEF ExitStep, SaveSig, SaveInfo, SaveDump, ProcessEnds, Terminate, Enter,
           LogReport, Flush, NextExitFunction, DestroyStatic, ReadBacktrace,
           ExitLogConstructor, CloseLog, Construct, vars
  <2>6. ASSUME NEW t, NEW s, Exit(t) \/ Signal(t, s) \/ SignalKills(t, s)
        PROVE  UNCHANGED handle
    BY <2>6 DEF Exit, Signal, SignalKills, Enter, vars
  <2>7. ASSUME NEW t \in Tasks, ProgramConstructor(t) PROVE handle'[c] # NULL
    BY <2>1, <2>7, Contexts DEF ProgramConstructor
  <2>8. QED
    BY <2>2, <2>4, <2>5, <2>6, <2>7 DEF CrashNext
<1>3. stage'[c] = "destroy" => running'[c] \in Statics
  <2>1. ASSUME NEW d, NextExitFunction(d)
        PROVE  stage'[c] = "destroy" => running'[c] \in Statics
    <3> DEFINE f == atexit[Len(atexit)]
    <3>1. /\ running' = [running EXCEPT ![d] = f]
          /\ stage' = [stage EXCEPT ![d] = IF f = ExitHandler THEN "read" ELSE "destroy"]
          /\ atexit \in Seq(Statics \cup {ExitHandler}) /\ atexit # <<>>
      BY <2>1 DEF NextExitFunction, Stage, IndInv, TypeOK
    <3>2. f \in Statics \cup {ExitHandler}
      BY <3>1
    <3>3. CASE c = d
      BY <1>1, <3>1, <3>2, <3>3
    <3>4. CASE c # d
      BY <1>1, <3>1, <3>4
    <3>5. QED
      BY <3>3, <3>4
  <2>2. ASSUME NEW d, NEW s, Stage(d, s), s # "destroy", UNCHANGED running
        PROVE  stage'[c] = "destroy" => running'[c] \in Statics
    BY <1>1, <2>2 DEF Stage
  <2>3. ASSUME NEW t \in Tasks, NEW s, NEW held, Enter(t, s, held)
        PROVE  stage'[c] = "destroy" => running'[c] \in Statics
    BY <1>1, <2>3 DEF Enter
  <2>4. CASE UNCHANGED <<stage, running>>
    BY <1>1, <2>4
  <2>5. ASSUME NEW d \in Threads, ConstructorCall(d) PROVE UNCHANGED <<stage, running>>
    BY <2>5 DEF ConstructorCall, CheckBuffer, stack
  <2>6. ASSUME NEW t \in Tasks, ProgramCall(t) PROVE UNCHANGED <<stage, running>>
    BY <2>6 DEF ProgramCall, stack
  <2>7. ASSUME NEW d \in Threads, ExitStep(d)
        PROVE  stage'[c] = "destroy" => running'[c] \in Statics
    BY <2>1, <2>2, <2>3, <2>4, <2>5, <2>7, Contexts
       DEF ExitStep, SaveSig, SaveInfo, SaveDump, ProcessEnds, DestroyStatic,
           ReadBacktrace, ExitLogConstructor, Terminate, LogReport, Flush, CloseLog, stack
  <2>8. ASSUME NEW t \in Tasks, ProgramConstructor(t) PROVE UNCHANGED <<stage, running>>
    BY <2>5, <2>8, Contexts DEF ProgramConstructor
  <2>9. ASSUME NEW t, Exit(t)
        PROVE  stage'[c] = "destroy" => running'[c] \in Statics
    BY <2>2, <2>9 DEF Exit
  <2>10. ASSUME NEW t \in Tasks, NEW s, Signal(t, s) \/ SignalKills(t, s)
        PROVE  stage'[c] = "destroy" => running'[c] \in Statics
    BY <2>3, <2>4, <2>10 DEF Signal, SignalKills, stack
  <2>11. QED
    BY <2>4, <2>6, <2>7, <2>8, <2>9, <2>10 DEF CrashNext
<1>4. QED
  BY <1>2, <1>3

-----------------------------------------------------------------------------
(* Types.                                                                  *)

(* The record may be written in any of its three fields.                   *)
CrashRecord == [sig: Signals \cup {NULL}, info: Signals \cup {NULL},
                dump: Dumps]

(* A field that is assigned leaves the two others alone.                   *)
LEMMA RecordWrites ==
  ASSUME data \in CrashRecord, NEW v \in Dumps
  PROVE  /\ v # Garbage => [data EXCEPT !["sig"] = v] \in CrashRecord
         /\ v # Garbage => [data EXCEPT !["info"] = v] \in CrashRecord
         /\ [data EXCEPT !["dump"] = v] \in CrashRecord
         /\ [data EXCEPT !["sig"] = v].sig = v
         /\ [data EXCEPT !["info"] = v].info = v
         /\ [data EXCEPT !["dump"] = v].dump = v
         /\ [data EXCEPT !["info"] = v].sig = data.sig
         /\ [data EXCEPT !["dump"] = v].sig = data.sig
         /\ [data EXCEPT !["dump"] = v].info = data.info
  BY DEF CrashRecord, Dumps

(* What a look at the record and an allocation may change in it.           *)
LEMMA CallRecord ==
  ASSUME CrashTypeOK, NEW c \in Threads, ConstructorCall(c)
  PROVE  /\ data' \in CrashRecord /\ buffer' \in BOOLEAN /\ replaced' \in BOOLEAN
         /\ data'.sig = data.sig /\ data'.info = data.info
         /\ data'.dump \in {data.dump, Garbage}
         /\ data.dump = NULL => data'.dump = NULL
         /\ BufferInv => BufferInv'
         /\ replaced => replaced'
         /\ data.sig # NULL /\ ~replaced' => buffer' = buffer /\ data' = data
         /\ log' \subseteq log /\ \A l \in log : refs'[l.to] > 0 => l \in log'
         /\ UNCHANGED <<stack, trace, sent, process>>
<1>1. data \in CrashRecord /\ buffer \in BOOLEAN /\ replaced \in BOOLEAN
  BY DEF CrashTypeOK, CrashRecord
<1>2. CASE CheckBuffer(c)
  BY <1>1, <1>2 DEF CheckBuffer, reports, BufferInv
<1>3. CASE Allocate(c) /\ Lose /\ UNCHANGED <<stack, trace, sent, process>>
  <2>1. log' \subseteq log /\ \A l \in log : refs'[l.to] > 0 => l \in log'
    BY <1>3 DEF Lose
  <2>2. CASE seen[c] # "missing"
    BY <1>1, <1>3, <2>1, <2>2 DEF Allocate, BufferInv
  <2>3. CASE seen[c] = "missing"
    <3> DEFINE d == IF data.dump = NULL THEN NULL ELSE Garbage
    <3>1. /\ buffer' \in IF Failures THEN BOOLEAN ELSE {TRUE}
          /\ data' = [data EXCEPT !.dump = d]
          /\ replaced' = (replaced \/ buffer \/ data.sig # NULL)
      BY <1>3, <2>3 DEF Allocate
    <3>2. buffer' \in BOOLEAN /\ replaced' \in BOOLEAN
      BY <3>1, LifecycleAssumption
    <3>3. data' = [data EXCEPT !["dump"] = d] /\ d \in Dumps
      BY <3>1 DEF Dumps
    <3>4. data' \in CrashRecord /\ data'.sig = data.sig /\ data'.info = data.info
          /\ data'.dump = d
      BY <1>1, <3>3, RecordWrites
    <3>5. BufferInv => BufferInv'
      BY <3>1, <3>4 DEF BufferInv
    <3>6. QED
      BY <1>3, <2>1, <3>1, <3>2, <3>4, <3>5
  <2>4. QED
    BY <2>2, <2>3
<1>4. QED
  BY <1>2, <1>3 DEF ConstructorCall

(* So do all the other variables of a call.                                *)
LEMMA CallType ==
  ASSUME CrashTypeOK, NEW c \in Threads, ConstructorCall(c)
  PROVE  CrashTypeOK'
<1>1. /\ data' \in CrashRecord /\ buffer' \in BOOLEAN /\ replaced' \in BOOLEAN
      /\ log' \subseteq log
      /\ UNCHANGED <<level, stage, signal, running, stuck, trace, sent, process>>
  BY CallRecord DEF stack
<1>2. handled' \subseteq Signals
  <2>1. \A p \in Prefixes : p \subseteq Signals
    BY CrashAssumption DEF Prefixes, Signals
  <2>2. \A x \in Installed(c) : x \subseteq Signals
    BY <2>1 DEF Installed, CrashTypeOK
  <2>3. QED
    BY <2>2 DEF ConstructorCall, CheckBuffer, CrashTypeOK
<1>3. seen' \in [Threads -> {"unread", "present", "missing"}]
  BY DEF ConstructorCall, CheckBuffer, CrashTypeOK
<1>4. QED
  BY <1>1, <1>2, <1>3 DEF CrashTypeOK, CrashRecord

(* A signal finds its task holding one of the locks, or none.              *)
LEMMA SignalEnters ==
  ASSUME NEW t, NEW s, Signal(t, s)
  PROVE  \E held \in SUBSET Locks : Enter(t, s, held)
<1>1. \A lock \in LocksAt(Top(t)) : {lock} \in SUBSET Locks
  BY DEF LocksAt, Locks
<1>2. QED
  BY <1>1 DEF Signal

(* A signal puts a handler on the stack.                                   *)
LEMMA EnterType ==
  ASSUME CrashTypeOK, NEW t \in Tasks, NEW s \in Signals, NEW held \in SUBSET Locks,
         Enter(t, s, held)
  PROVE  /\ CrashTypeOK'
         /\ level[t] + 1 \in 0 .. MaxLevel
<1>1. level[t] \in 0 .. MaxLevel /\ level[t] < MaxLevel /\ MaxLevel \in Nat
  BY CrashAssumption DEF CrashTypeOK, Enter
<1>2. level[t] + 1 \in 0 .. MaxLevel
  BY <1>1
<1>3. level' \in [Tasks -> 0 .. MaxLevel]
  BY <1>2 DEF CrashTypeOK, Enter
<1>4. /\ stage' \in [Threads -> Stages]
      /\ signal' \in [Threads -> Signals \cup {NULL}]
      /\ stuck' \subseteq Locks
  BY DEF CrashTypeOK, Enter, Stages
<1>5. QED
  BY <1>2, <1>3, <1>4 DEF CrashTypeOK, Enter, record, reports

(* Moving on to the next stage.                                            *)
LEMMA StageType ==
  ASSUME CrashTypeOK, NEW c, NEW s \in Stages, Stage(c, s)
  PROVE  stage' \in [Threads -> Stages]
  BY DEF CrashTypeOK, Stage

(* Saving a field of the record, without or with its stage.                *)
LEMMA SaveType ==
  ASSUME CrashTypeOK, NEW c \in Threads, NEW field \in {"sig", "info", "dump"},
         Save(c, field)
  PROVE  data' \in CrashRecord
<1>1. /\ data \in CrashRecord
      /\ signal[c] \in Dumps /\ signal[c] # Garbage
  BY CrashAssumption DEF CrashTypeOK, CrashRecord, Dumps
<1>2. QED
  BY <1>1, RecordWrites DEF Save

(* What ExitHandler reports, when there has been a signal.                 *)
LEMMA ReportType ==
  ASSUME CrashTypeOK, IndInv, PlaceInv, NEW c \in Threads, LogReport(c)
  PROVE  log' \subseteq [to: Objs, report: Report]
<1> DEFINE new == [to |-> handle[c],
                   report |-> [sig |-> data.sig, info |-> data.info,
                               trace |-> trace[c]]]
<1>1. handle[c] \in Objs
  BY Contexts DEF LogReport, PlaceInv, IndInv, TypeOK
<1>2. data.sig # NULL => new \in [to: Objs, report: Report]
  BY <1>1 DEF CrashTypeOK, Report
<1>3. QED
  BY <1>2 DEF LogReport, CrashTypeOK

(* Every variable of the crash model keeps its type.                       *)
LEMMA TypeNext ==
  ASSUME IndInv, CrashTypeOK, PlaceInv, CrashNext
  PROVE  CrashTypeOK'
<1>1. ASSUME NEW t \in Tasks, ProgramConstructor(t) PROVE CrashTypeOK'
  BY <1>1, CallType, Contexts DEF ProgramConstructor
<1>2. ASSUME NEW t \in Tasks, ProgramCall(t) PROVE CrashTypeOK'
  <2>1. log' \subseteq log
        /\ UNCHANGED <<level, stage, signal, running, stuck, handled, data, buffer,
                       seen, replaced, trace, sent, process>>
    BY <1>2 DEF ProgramCall, Lose, stack, record
  <2>2. QED
    BY <2>1 DEF CrashTypeOK
<1>3. ASSUME NEW t \in Tasks, Exit(t) PROVE CrashTypeOK'
  <2>1. stage' \in [Threads -> Stages]
    BY <1>3, StageType DEF Exit, Stages
  <2>2. QED
    BY <1>3, <2>1 DEF Exit, CrashTypeOK, record, reports
<1>4. ASSUME NEW t \in Tasks, NEW s \in Signals, Signal(t, s) PROVE CrashTypeOK'
  BY <1>4, SignalEnters, EnterType
<1>5. ASSUME NEW t \in Tasks, NEW s \in Signals, SignalKills(t, s) PROVE CrashTypeOK'
  BY <1>5 DEF SignalKills, CrashTypeOK, stack, record, reports
<1>6. ASSUME NEW c \in Threads, ExitStep(c) PROVE CrashTypeOK'
  <2>1. CASE SaveSig(c)
    <3>1. data' \in CrashRecord /\ stage' \in [Threads -> Stages]
      BY <2>1, SaveType, StageType DEF SaveSig, Stages
    <3>2. QED
      BY <2>1, <3>1 DEF SaveSig, CrashTypeOK, CrashRecord, reports
  <2>2. CASE SaveInfo(c)
    <3>1. data' \in CrashRecord /\ stage' \in [Threads -> Stages]
      BY <2>2, SaveType, StageType DEF SaveInfo, Stages
    <3>2. QED
      BY <2>2, <3>1 DEF SaveInfo, CrashTypeOK, CrashRecord, reports
  <2>3. CASE SaveDump(c)
    <3>1. data' \in CrashRecord /\ stage' \in [Threads -> Stages]
      <4>1. stage' \in [Threads -> Stages]
        BY <2>3, StageType DEF SaveDump, Stages
      <4>2. CASE buffer
        BY <2>3, <4>1, <4>2, SaveType DEF SaveDump
      <4>3. CASE ~buffer
        BY <2>3, <4>1, <4>3 DEF SaveDump, CrashTypeOK, CrashRecord
      <4>4. QED
        BY <4>2, <4>3
    <3>2. QED
      BY <2>3, <3>1 DEF SaveDump, CrashTypeOK, CrashRecord, reports
  <2>4. CASE ProcessEnds(c)
    BY <2>4 DEF ProcessEnds, CrashTypeOK, stack, record, reports
  <2>5. CASE NextExitFunction(c)
    <3> DEFINE f == atexit[Len(atexit)]
    <3>1. atexit \in Seq(Statics \cup {ExitHandler}) /\ atexit # <<>>
      BY <2>5 DEF NextExitFunction, IndInv, TypeOK
    <3>2. f \in Statics \cup {ExitHandler}
      BY <3>1
    <3>3. /\ Stage(c, IF f = ExitHandler THEN "read" ELSE "destroy")
          /\ running' = [running EXCEPT ![c] = f]
          /\ UNCHANGED <<level, signal, stuck, record, reports, process>>
      BY <2>5 DEF NextExitFunction
    <3>4. stage' \in [Threads -> Stages]
      BY <3>3, StageType DEF Stages
    <3>5. running' \in [Threads -> Statics \cup {ExitHandler, NULL}]
      BY <3>2, <3>3 DEF CrashTypeOK
    <3>6. QED
      BY <3>3, <3>4, <3>5 DEF CrashTypeOK, record, reports
  <2>6. CASE DestroyStatic(c) \/ CloseLog(c)
    <3>1. log' \subseteq log /\ stage' \in [Threads -> Stages]
      BY <2>6, StageType DEF DestroyStatic, CloseLog, Lose, Stages
    <3>2. QED
      BY <2>6, <3>1 DEF DestroyStatic, CloseLog, CrashTypeOK, record
  <2>7. CASE ReadBacktrace(c)
    <3>1. stage' \in [Threads -> Stages]
      BY <2>7, StageType DEF ReadBacktrace, Stages
    <3>2. trace' \in [Threads -> Dumps]
      <4>1. Readable \subseteq Dumps
        BY DEF Readable, CrashTypeOK, Dumps
      <4>2. QED
        BY <2>7, <4>1 DEF ReadBacktrace, CrashTypeOK
    <3>3. QED
      BY <2>7, <3>1, <3>2 DEF ReadBacktrace, CrashTypeOK, record
  <2>8. CASE ExitLogConstructor(c)
    BY <2>8, CallType DEF ExitLogConstructor
  <2>9. CASE Terminate(c)
    <3>1. c[1] \in Tasks /\ Abort \in Signals /\ {} \in SUBSET Locks
      BY Contexts, CrashAssumption
    <3>2. CASE Enter(c[1], Abort, {})
      BY <3>1, <3>2, EnterType
    <3>3. CASE process' = "killed" /\ UNCHANGED <<vars, stack, record, reports>>
      BY <3>3 DEF CrashTypeOK, stack, record, reports
    <3>4. QED
      BY <2>9, <3>2, <3>3 DEF Terminate
  <2>10. CASE LogReport(c)
    <3>1. stage' \in [Threads -> Stages]
      BY <2>10, StageType DEF LogReport, Stages
    <3>2. log' \subseteq [to: Objs, report: Report]
      BY <2>10, ReportType
    <3>3. QED
      BY <2>10, <3>1, <3>2 DEF LogReport, CrashTypeOK, record
  <2>11. CASE Flush(c)
    <3>1. stage' \in [Threads -> Stages]
      BY <2>11, StageType DEF Flush, Stages
    <3>2. sent' \subseteq Report
      BY <2>11 DEF Flush, CrashTypeOK
    <3>3. QED
      BY <2>11, <3>1, <3>2 DEF Flush, CrashTypeOK, record
  <2>12. QED
    BY <1>6, <2>1, <2>2, <2>3, <2>4, <2>5, <2>6, <2>7, <2>8, <2>9, <2>10, <2>11
       DEF ExitStep
<1>7. QED
  BY <1>1, <1>2, <1>3, <1>4, <1>5, <1>6, Contexts DEF CrashNext

-----------------------------------------------------------------------------
(* One thread that has left its program.                                   *)

(* Saved() claims something of a context that has left its program only.   *)
LEMMA ProgramSavesNothing ==
  ASSUME NEW c, stage[c] = "program"
  PROVE  Saved(c)
  BY DEF Saved

(* What does not move a context changes the record at most by a new buffer.*)
LEMMA QuietRecord ==
  ASSUME CrashTypeOK, RecordInv,
         UNCHANGED <<level, stage, signal, trace, sent>>, log' \subseteq log,
         data'.sig = data.sig, data'.info = data.info,
         data'.dump \in {data.dump, Garbage}, data.dump = NULL => data'.dump = NULL,
         replaced => replaced', BufferInv'
  PROVE  RecordInv'
<1>2. /\ \A t \in Tasks : Top(t)' = Top(t)
      /\ Quiet' = Quiet /\ Solo' = Solo
  BY DEF Top, Quiet, Solo
<1>3. Quiet' => data'.sig = NULL /\ data'.info = NULL /\ data'.dump = NULL
  BY <1>2 DEF RecordInv
<1>4. ASSUME Solo, NEW t \in Tasks PROVE Saved(Top(t))'
  <2>1. Saved(Top(t)) /\ Top(t)' = Top(t)
    BY <1>2, <1>4 DEF RecordInv
  <2>2. QED
    BY <2>1 DEF Saved, BacktraceOf, BufferInv
<1>5. ReportsAgree'
  BY <1>2 DEF RecordInv, ReportsAgree
<1>6. QED
  BY <1>2, <1>3, <1>4, <1>5 DEF RecordInv

(* When one thread is out after a step of its own, it was so before.       *)
LEMMA SoloBefore ==
  ASSUME CrashTypeOK, NEW c \in Threads, Runs(c), NEW s \in Stages, s # "program",
         Stage(c, s), UNCHANGED level, Solo'
  PROVE  /\ Solo /\ Top(c[1]) = c /\ c[1] \in Tasks /\ stage'[c] = s
         /\ \A t \in Tasks : /\ Top(t)' = Top(t)
                             /\ t # c[1] => stage'[Top(t)] = "program"
                             /\ t # c[1] => stage[Top(t)] = "program"
<1>1. c[1] \in Tasks /\ Top(c[1]) = c
  BY RunsOnTop
<1>2. \A t \in Tasks : Top(t)' = Top(t) /\ Top(t) \in Threads /\ Top(t)[1] = t
  BY TopIsContext DEF Top
<1>3. stage' = [stage EXCEPT ![c] = s] /\ stage \in [Threads -> Stages]
  BY DEF Stage, CrashTypeOK
<1>4. stage'[c] = s
  BY <1>3
<1>5. ASSUME NEW t \in Tasks, t # c[1]
      PROVE  stage'[Top(t)] = "program" /\ stage[Top(t)] = "program"
  <2>1. Top(t) # c
    BY <1>2, <1>5
  <2>2. stage'[Top(t)'] = "program"
    BY <1>1, <1>2, <1>4, <1>5 DEF Solo
  <2>3. QED
    BY <1>2, <1>3, <2>1, <2>2
<1>6. Solo
  BY <1>5 DEF Solo
<1>7. QED
  BY <1>1, <1>2, <1>4, <1>5, <1>6

(* A context that moves on has to care for itself alone.                   *)
LEMMA MovesOn ==
  ASSUME CrashTypeOK, RecordInv, NEW c \in Threads, Runs(c),
         NEW s \in Stages, s # "program", Stage(c, s), UNCHANGED level,
         BufferInv',
         Solo' => Saved(c)' /\ ReportsAgree'
  PROVE  RecordInv'
<1>1. ~Quiet'
  <2>1. c[1] \in Tasks /\ Top(c[1])' = c
    BY RunsOnTop DEF Top
  <2>2. stage'[c] = s
    BY DEF Stage, CrashTypeOK
  <2>3. QED
    BY <2>1, <2>2 DEF Quiet
<1>2. ASSUME Solo', NEW t \in Tasks PROVE Saved(Top(t))'
  <2>1. CASE t = c[1]
    BY <1>2, <2>1, SoloBefore
  <2>2. CASE t # c[1]
    <3>1. stage'[Top(t)'] = "program"
      BY <1>2, <2>2, SoloBefore
    <3>2. QED
      BY <3>1 DEF Saved
  <2>3. QED
    BY <2>1, <2>2
<1>3. ReportsAgree'
  BY DEF ReportsAgree
<1>4. QED
  BY <1>1, <1>2, <1>3 DEF RecordInv

(* A signal adds a context whose handler has saved nothing yet.            *)
LEMMA EnterRecord ==
  ASSUME CrashTypeOK, RecordInv, NEW t \in Tasks, NEW s \in Signals,
         NEW held \in SUBSET Locks, Enter(t, s, held)
  PROVE  RecordInv'
<1>1. level[t] + 1 \in 0 .. MaxLevel /\ level \in [Tasks -> 0 .. MaxLevel]
  BY EnterType DEF CrashTypeOK
<1>2. /\ level' = [level EXCEPT ![t] = @ + 1]
      /\ stage' = [stage EXCEPT ![<<t, level[t] + 1>>] = "save_sig"]
      /\ UNCHANGED <<data, buffer, replaced, trace, log, sent>>
  BY DEF Enter, record, reports
<1>3. <<t, level[t] + 1>> \in Threads /\ stage \in [Threads -> Stages]
  BY <1>1, Contexts DEF CrashTypeOK
<1>4. Top(t)' = <<t, level[t] + 1>> /\ stage'[Top(t)'] = "save_sig"
  BY <1>1, <1>2, <1>3 DEF Top
<1>5. ASSUME NEW u \in Tasks, u # t
      PROVE  Top(u)' = Top(u) /\ stage'[Top(u)'] = stage[Top(u)]
  <2>1. level'[u] = level[u]
    BY <1>1, <1>2, <1>5
  <2>2. Top(u)' = Top(u)
    BY <2>1 DEF Top
  <2>3. Top(u) # <<t, level[t] + 1>> /\ Top(u) \in Threads
    BY <1>5, TopIsContext DEF Top
  <2>4. QED
    BY <1>2, <1>3, <2>2, <2>3
<1>6. ~Quiet'
  BY <1>4 DEF Quiet
<1>7. ASSUME Solo' PROVE Solo /\ \A u \in Tasks : Saved(Top(u))'
  <2>1. \A u \in Tasks : u # t => stage'[Top(u)'] = "program"
    BY <1>4, <1>7 DEF Solo
  <2>2. Solo
    BY <1>5, <2>1 DEF Solo
  <2>3. Saved(Top(t))'
    BY <1>4 DEF Saved
  <2>4. \A u \in Tasks : u # t => Saved(Top(u))'
    BY <2>1 DEF Saved
  <2>5. QED
    BY <2>2, <2>3, <2>4
<1>8. ReportsAgree'
  BY <1>2, <1>7 DEF RecordInv, ReportsAgree
<1>9. QED
  BY <1>2, <1>6, <1>7, <1>8 DEF RecordInv, BufferInv

(* The three assignments of a handler, in their order.                     *)
LEMMA HandlerRecord ==
  ASSUME CrashTypeOK, RecordInv, NEW c \in Threads,
         SaveSig(c) \/ SaveInfo(c) \/ SaveDump(c)
  PROVE  RecordInv'
<1>1. /\ data \in CrashRecord /\ signal[c] \in Signals \cup {NULL}
      /\ buffer \in BOOLEAN /\ signal[c] # Garbage
  BY CrashAssumption DEF CrashTypeOK, CrashRecord
<1>2. \A s : Stage(c, s) => stage'[c] = s
  BY DEF Stage, CrashTypeOK
<1>3. /\ Runs(c) /\ stage[c] # "program"
      /\ UNCHANGED <<level, signal, buffer, replaced, trace, log, sent>>
  BY DEF SaveSig, SaveInfo, SaveDump, At, reports
<1>4. ASSUME Solo', NEW s \in Stages, s # "program", Stage(c, s)
      PROVE  Solo /\ Saved(c) /\ ReportsAgree'
  <2>1. Solo /\ Top(c[1]) = c /\ c[1] \in Tasks
    BY <1>3, <1>4, SoloBefore
  <2>2. QED
    BY <1>3, <2>1 DEF RecordInv, ReportsAgree
<1>5. CASE SaveSig(c)
  <2>1. Stage(c, "save_info") /\ data' = [data EXCEPT !["sig"] = signal[c]]
    BY <1>5 DEF SaveSig, Save
  <2>2. data'.sig = signal[c] /\ data'.dump = data.dump
    BY <1>1, <2>1 DEF CrashRecord
  <2>3. BufferInv'
    BY <1>3, <2>2 DEF RecordInv, BufferInv
  <2>4. Solo' => Saved(c)' /\ ReportsAgree'
    BY <1>2, <1>3, <1>4, <2>1, <2>2 DEF Saved, Stages
  <2>5. QED
    BY <1>3, <2>1, <2>3, <2>4, MovesOn DEF Stages
<1>6. CASE SaveInfo(c)
  <2>1. /\ Stage(c, "save_dump") /\ data' = [data EXCEPT !["info"] = signal[c]]
        /\ stage[c] = "save_info"
    BY <1>6 DEF SaveInfo, Save, At
  <2>2. data'.sig = data.sig /\ data'.info = signal[c] /\ data'.dump = data.dump
    BY <1>1, <2>1 DEF CrashRecord
  <2>3. BufferInv'
    BY <1>3, <2>2 DEF RecordInv, BufferInv
  <2>4. Solo' => Saved(c)' /\ ReportsAgree'
    BY <1>2, <1>3, <1>4, <2>1, <2>2 DEF Saved, Stages
  <2>5. QED
    BY <1>3, <2>1, <2>3, <2>4, MovesOn DEF Stages
<1>7. CASE SaveDump(c)
  <2>1. Stage(c, "exit") /\ stage[c] = "save_dump"
    BY <1>7 DEF SaveDump, At
  <2>2. /\ data'.sig = data.sig /\ data'.info = data.info
        /\ data'.dump = IF buffer THEN signal[c] ELSE data.dump
    <3>1. CASE buffer
      <4>1. data' = [data EXCEPT !["dump"] = signal[c]]
        BY <1>7, <3>1 DEF SaveDump, Save
      <4>2. QED
        BY <1>1, <3>1, <4>1 DEF CrashRecord
    <3>2. CASE ~buffer
      BY <1>7, <3>2 DEF SaveDump
    <3>3. QED
      BY <3>1, <3>2
  <2>3. BufferInv'
    BY <1>1, <1>3, <2>2 DEF RecordInv, BufferInv
  <2>4. ASSUME Solo' PROVE Saved(c)' /\ ReportsAgree'
    <3>1. Saved(c) /\ ReportsAgree'
      BY <1>4, <2>1, <2>4 DEF Stages
    <3>2. data'.info = data'.sig /\ BacktraceOf(data.dump, data.sig)'
      BY <1>3, <2>1, <2>2, <3>1 DEF Saved, RecordInv, BufferInv, BacktraceOf
    <3>3. QED
      BY <1>2, <2>1, <3>1, <3>2 DEF Saved
  <2>5. QED
    BY <1>3, <2>1, <2>3, <2>4, MovesOn DEF Stages
<1>8. QED
  BY <1>5, <1>6, <1>7

(* What exit() and ExitHandler do with a record that is complete.          *)
LEMMA ExitRecord ==
  ASSUME CrashTypeOK, RecordInv, NEW c \in Threads,
         \/ NextExitFunction(c) \/ DestroyStatic(c) \/ ReadBacktrace(c)
         \/ LogReport(c) \/ Flush(c) \/ CloseLog(c)
  PROVE  RecordInv'
<1> USE DEF Late
<1>1. Runs(c) /\ stage[c] \in Late /\ UNCHANGED <<level, signal, data, buffer, replaced>>
  BY DEF NextExitFunction, DestroyStatic, ReadBacktrace, LogReport, Flush, CloseLog,
         At, record
<1>2. PICK s \in Late : Stage(c, s) /\ (s = "construct" => ReadBacktrace(c))
  BY DEF NextExitFunction, DestroyStatic, ReadBacktrace, LogReport, Flush, CloseLog
<1>3. stage'[c] = s /\ s \in Stages /\ s # "program" /\ stage[c] # "program"
  BY <1>1, <1>2 DEF Stage, CrashTypeOK, Stages
<1>4. BufferInv'
  BY <1>1 DEF RecordInv, BufferInv
<1>5. ASSUME Solo' PROVE Saved(c)' /\ ReportsAgree'
  <2>1. Solo /\ Saved(c)
    BY <1>1, <1>2, <1>3, <1>5, SoloBefore DEF RecordInv
  <2>2. data.info = data.sig /\ BacktraceOf(data.dump, data.sig)
    BY <1>1, <2>1 DEF Saved
  <2>3. s = "construct" => BacktraceOf(trace'[c], data.sig)
    <3>1. \A b \in Readable : BacktraceOf(b, data.sig)
      BY <2>1, <2>2 DEF Readable, BacktraceOf, RecordInv, BufferInv
    <3>2. QED
      BY <1>2, <3>1 DEF ReadBacktrace, CrashTypeOK
  <2>4. Saved(c)'
    BY <1>1, <1>3, <2>2, <2>3 DEF Saved, BacktraceOf
  <2>5. \A r \in sent \cup {l.report : l \in log} : Unmixed(r)
    BY <2>1 DEF RecordInv, ReportsAgree, Unmixed, BacktraceOf
  <2>6. \A r \in sent' \cup {l.report : l \in log'} : Unmixed(r)
    <3>1. CASE LogReport(c)
      <4> DEFINE r == [sig |-> data.sig, info |-> data.info, trace |-> trace[c]]
      <4>1. BacktraceOf(trace[c], data.sig)
        BY <2>1, <3>1 DEF Saved, LogReport, At
      <4>2. Unmixed(r)
        BY <2>2, <4>1 DEF Unmixed
      <4>3. log' \subseteq log \cup {[to |-> handle[c], report |-> r]} /\ sent' = sent
        BY <3>1 DEF LogReport
      <4>4. QED
        BY <2>5, <4>2, <4>3
    <3>2. CASE Flush(c)
      BY <2>5, <3>2 DEF Flush
    <3>3. CASE log' \subseteq log /\ sent' = sent
      BY <2>5, <3>3
    <3>4. QED
      BY <3>1, <3>2, <3>3
         DEF NextExitFunction, DestroyStatic, ReadBacktrace, CloseLog, Lose, reports
  <2>7. QED
    BY <1>1, <2>4, <2>6 DEF ReportsAgree, Unmixed, BacktraceOf
<1>6. QED
  BY <1>1, <1>2, <1>3, <1>4, <1>5, MovesOn

(* Nothing that happens spoils the record of the one thread that is out.   *)
LEMMA RecordNext ==
  ASSUME IndInv, CrashTypeOK, RecordInv, CrashNext
  PROVE  RecordInv'
<1>1. ASSUME NEW c \in Threads, ConstructorCall(c) PROVE RecordInv'
  <2>1. BufferInv'
    BY <1>1, CallRecord DEF RecordInv
  <2>2. QED
    BY <1>1, <2>1, CallRecord, QuietRecord DEF stack
<1>2. ASSUME NEW t \in Tasks, ProgramConstructor(t) PROVE RecordInv'
  BY <1>1, <1>2, Contexts DEF ProgramConstructor
<1>3. CASE log' \subseteq log /\ UNCHANGED <<stack, record, trace, sent>>
  <2>1. BufferInv'
    BY <1>3 DEF RecordInv, BufferInv, record
  <2>2. QED
    BY <1>3, <2>1, QuietRecord DEF stack, record
<1>4. ASSUME NEW t \in Tasks, ProgramCall(t) PROVE RecordInv'
  BY <1>3, <1>4 DEF ProgramCall, Lose
<1>5. ASSUME NEW t \in Tasks, Exit(t) PROVE RecordInv'
  <2> DEFINE c == <<t, 0>>
  <2>1. /\ c \in Threads /\ Runs(c) /\ Stage(c, "exit") /\ stage[c] = "program"
        /\ UNCHANGED <<level, signal, data, buffer, replaced, trace, log, sent>>
    BY <1>5, Contexts DEF Exit, At, record, reports
  <2>2. stage'[c] = "exit"
    BY <2>1 DEF Stage, CrashTypeOK
  <2>3. ASSUME Solo' PROVE Saved(c)' /\ ReportsAgree'
    <3>1. /\ Solo /\ Top(c[1]) = c
          /\ \A u \in Tasks : u # c[1] => stage[Top(u)] = "program"
      BY <2>1, <2>3, SoloBefore DEF Stages
    <3>2. Quiet
      BY <2>1, <3>1 DEF Quiet
    <3>3. data.sig = NULL /\ data.info = NULL /\ data.dump = NULL
      BY <3>2 DEF RecordInv
    <3>4. Saved(c)'
      BY <2>1, <2>2, <3>3 DEF Saved, BacktraceOf
    <3>5. QED
      BY <2>1, <3>1, <3>4 DEF RecordInv, ReportsAgree
  <2>4. BufferInv'
    BY <2>1 DEF RecordInv, BufferInv
  <2>5. QED
    BY <2>1, <2>3, <2>4, MovesOn DEF Stages
<1>6. ASSUME NEW t \in Tasks, NEW s \in Signals, Signal(t, s) PROVE RecordInv'
  BY <1>6, SignalEnters, EnterRecord
<1>7. ASSUME NEW t \in Tasks, NEW s \in Signals, SignalKills(t, s) PROVE RecordInv'
  BY <1>3, <1>7 DEF SignalKills, reports
<1>8. ASSUME NEW c \in Threads, ExitStep(c) PROVE RecordInv'
  <2>1. CASE ProcessEnds(c)
    BY <1>3, <2>1 DEF ProcessEnds, reports
  <2>2. CASE ExitLogConstructor(c)
    BY <1>1, <2>2 DEF ExitLogConstructor
  <2>3. CASE Terminate(c)
    <3>1. c[1] \in Tasks /\ Abort \in Signals /\ {} \in SUBSET Locks
      BY Contexts, CrashAssumption
    <3>2. CASE Enter(c[1], Abort, {})
      BY <3>1, <3>2, EnterRecord
    <3>3. CASE UNCHANGED <<vars, stack, record, reports>>
      BY <1>3, <3>3 DEF reports
    <3>4. QED
      BY <2>3, <3>2, <3>3 DEF Terminate
  <2>4. QED
    BY <1>8, <2>1, <2>2, <2>3, HandlerRecord, ExitRecord DEF ExitStep
<1>9. QED
  BY <1>2, <1>4, <1>5, <1>6, <1>7, <1>8, Contexts DEF CrashNext

-----------------------------------------------------------------------------
(* One signal in one thread.                                               *)

(* A handler is where its signal is.                                       *)
LEMMA HandlerNext ==
  ASSUME CrashTypeOK, HandlerInv, CrashNext
  PROVE  HandlerInv'
<1>1. CASE UNCHANGED <<level, signal>>
  BY <1>1 DEF HandlerInv
<1>2. ASSUME NEW t \in Tasks, NEW s \in Signals, NEW held \in SUBSET Locks,
             Enter(t, s, held)
      PROVE  HandlerInv'
  <2> SUFFICES ASSUME NEW c \in Threads
               PROVE  signal'[c] # NULL <=> c[2] \in 1 .. level'[c[1]]
    BY DEF HandlerInv
  <2>1. /\ level[t] + 1 \in 0 .. MaxLevel /\ level \in [Tasks -> 0 .. MaxLevel]
        /\ MaxLevel \in Nat
    BY <1>2, EnterType, CrashAssumption DEF CrashTypeOK
  <2>2. /\ level' = [level EXCEPT ![t] = @ + 1]
        /\ signal' = [signal EXCEPT ![<<t, level[t] + 1>>] = s]
        /\ signal \in [Threads -> Signals \cup {NULL}] /\ s # NULL
    BY <1>2, CrashAssumption DEF Enter, CrashTypeOK
  <2>3. /\ c[1] \in Tasks /\ c[2] \in 0 .. MaxLevel /\ c = <<c[1], c[2]>>
        /\ signal[c] # NULL <=> c[2] \in 1 .. level[c[1]]
    BY Contexts DEF HandlerInv
  <2>4. CASE c[1] # t
    <3>1. c # <<t, level[t] + 1>>
      BY <2>4
    <3>2. signal'[c] = signal[c]
      BY <2>2, <3>1
    <3>3. level'[c[1]] = level[c[1]]
      BY <2>1, <2>2, <2>3, <2>4
    <3>4. QED
      BY <2>3, <3>2, <3>3
  <2>5. CASE c[1] = t /\ c[2] = level[t] + 1
    <3>1. c = <<t, level[t] + 1>>
      BY <2>3, <2>5
    <3>2. signal'[c] = s
      BY <2>2, <3>1
    <3>3. c[2] \in 1 .. level'[c[1]]
      BY <2>1, <2>2, <2>5
    <3>4. QED
      BY <2>2, <3>2, <3>3
  <2>6. CASE c[1] = t /\ c[2] # level[t] + 1
    <3>1. c # <<t, level[t] + 1>>
      BY <2>6
    <3>2. signal'[c] = signal[c]
      BY <2>2, <3>1
    <3>3. level'[c[1]] = level[t] + 1
      BY <2>1, <2>2, <2>6
    <3>4. c[2] \in 1 .. level'[c[1]] <=> c[2] \in 1 .. level[c[1]]
      BY <2>1, <2>3, <2>6, <3>3
    <3>5. QED
      BY <2>3, <3>2, <3>4
  <2>7. QED
    BY <2>4, <2>5, <2>6
<1>3. ASSUME NEW c \in Threads, ConstructorCall(c) PROVE UNCHANGED <<level, signal>>
  BY <1>3 DEF ConstructorCall, CheckBuffer, stack
<1>4. ASSUME NEW t \in Tasks, ProgramConstructor(t) PROVE HandlerInv'
  BY <1>1, <1>3, <1>4, Contexts DEF ProgramConstructor
<1>5. ASSUME NEW t \in Tasks, NEW s \in Signals, Signal(t, s) PROVE HandlerInv'
  BY <1>2, <1>5, SignalEnters
<1>6. ASSUME NEW c \in Threads, Terminate(c) PROVE HandlerInv'
  <2>1. c[1] \in Tasks /\ Abort \in Signals /\ {} \in SUBSET Locks
    BY Contexts, CrashAssumption
  <2>2. QED
    BY <1>1, <1>2, <1>6, <2>1 DEF Terminate, stack
<1>7. ASSUME NEW c \in Threads, ExitStep(c) PROVE HandlerInv'
  BY <1>1, <1>3, <1>6, <1>7
     DEF ExitStep, SaveSig, SaveInfo, SaveDump, ProcessEnds, NextExitFunction,
         DestroyStatic, ReadBacktrace, ExitLogConstructor, LogReport, Flush,
         CloseLog, stack
<1>8. QED
  BY <1>1, <1>4, <1>5, <1>7
     DEF CrashNext, ProgramCall, Exit, SignalKills, stack

(* A context that runs and is not the program is the one that was struck.  *)
LEMMA LoneActor ==
  ASSUME CrashTypeOK, HandlerInv, NEW d \in Threads, Runs(d),
         stage[d] # "program", AllInProgram
  PROVE  d \in Struck
<1>1. d[2] = level[d[1]] /\ d[1] \in Tasks /\ d = <<d[1], d[2]>> /\ d[2] \in Nat
  BY Contexts, CrashAssumption DEF Runs
<1>2. d[2] # 0
  BY <1>1 DEF AllInProgram
<1>3. d[2] \in 1 .. level[d[1]]
  BY <1>1, <1>2
<1>4. QED
  BY <1>3 DEF HandlerInv, Struck

(* After the process has ended nothing happens.                            *)
LEMMA OnlyAlive == CrashNext => process = "alive"
  BY DEF CrashNext, ProgramConstructor, ProgramCall, Exit, Signal, SignalKills, Enter,
         ExitStep, SaveSig, SaveInfo, SaveDump, ProcessEnds, NextExitFunction,
         DestroyStatic, ReadBacktrace, ExitLogConstructor, Terminate, LogReport,
         Flush, CloseLog, At, Runs

(* A constructor adds exit functions at the end, and ExitHandler before it *)
(* installs a handler.                                                     *)
LEMMA CallHooks ==
  ASSUME IndInv, NEW c \in Threads, ConstructorCall(c)
  PROVE  (Hooked => Hooked') /\ (handled' = handled \/ Hooked')
<1>1. atexit \in Seq(Statics \cup {ExitHandler})
  BY DEF IndInv, TypeOK
<1>2. ASSUME NEW f, atexit' = Append(atexit, f)
      PROVE  /\ Hooked => Hooked'
             /\ f = ExitHandler => Hooked'
  <2>1. /\ Len(atexit) \in Nat /\ DOMAIN atexit = 1 .. Len(atexit)
        /\ DOMAIN atexit' = 1 .. Len(atexit) + 1
        /\ atexit'[Len(atexit) + 1] = f
        /\ \A i \in 1 .. Len(atexit) : atexit'[i] = atexit[i]
    BY <1>1, <1>2
  <2>2. f = ExitHandler => Hooked'
    <3>1. Len(atexit) + 1 \in DOMAIN atexit'
      BY <2>1
    <3>2. QED
      BY <2>1, <3>1 DEF Hooked
  <2>3. ASSUME Hooked PROVE Hooked'
    <3>1. PICK i \in 1 .. Len(atexit) : atexit[i] = ExitHandler
      BY <2>1, <2>3 DEF Hooked
    <3>2. i \in DOMAIN atexit' /\ atexit'[i] = ExitHandler
      BY <2>1, <3>1
    <3>3. QED
      BY <3>2 DEF Hooked
  <2>4. QED
    BY <2>2, <2>3
<1>3. CASE CheckBuffer(c)
  BY <1>3 DEF CheckBuffer, vars, Hooked
<1>4. CASE ConstructorStep(c) /\ handled' \in Installed(c)
  <2>1. CASE RegisterUnixCrashHandlers(c) \/ SigactionFails(c)
    BY <1>2, <2>1 DEF RegisterUnixCrashHandlers, SigactionFails
  <2>2. CASE atexit' = atexit
    BY <1>4, <2>2 DEF Installed, Hooked
  <2>3. CASE pc[c] # "register" /\ \E f : atexit' = Append(atexit, f)
    BY <1>2, <1>4, <2>3 DEF Installed
  <2>4. ASSUME NEW o, Return(c, o)
        PROVE  atexit' = atexit \/ \E f : atexit' = Append(atexit, f)
    BY <2>4 DEF Return
  <2>5. QED
    BY <1>4, <2>1, <2>2, <2>3, <2>4
       DEF ConstructorStep, GetShared, GetSharedClient, AtexitFails,
           CreateClientFails, ShareClient, ShareClientFails, CreateChannelFails,
           Share, ShareFails,
           AddRefTelemetry, CloseClient, Unwind, CreateClient, CreateChannel,
           Throw, hooks
<1>5. QED
  BY <1>3, <1>4 DEF ConstructorCall

(* A report that answers a signal goes on doing so.                        *)
LEMMA AnswersStay ==
  ASSUME NEW c, UNCHANGED signal, ~replaced' => ~replaced /\ Due(c)' = Due(c)
  PROVE  \A r : Answers(r, c) => Answers(r, c)'
  BY DEF Answers

(* What other threads do, and the constructor of ExitHandler's Log, leave  *)
(* a lone handler where it is and what it has logged where that is.        *)
LEMMA LoneQuiet ==
  ASSUME CrashTypeOK, LoneInv, NoDangling', process = "alive", process' # "exited",
         UNCHANGED <<level, stage, signal, trace, sent>>,
         \A c \in Threads : handle[c] \in Objs => handle'[c] = handle[c],
         \A l \in log : refs'[l.to] > 0 => l \in log',
         data'.sig = data.sig, data'.info = data.info,
         replaced => replaced',
         data.sig # NULL /\ ~replaced' => buffer' = buffer /\ data' = data,
         Hooked => Hooked', handled' = handled \/ Hooked'
  PROVE  LoneInv'
<1>1. Struck' = Struck /\ AllInProgram' = AllInProgram
  BY DEF Struck, AllInProgram
<1>2. ASSUME NEW c \in Threads, Struck = {c}, AllInProgram
      PROVE  Claims(c)'
  <2>1. Claims(c) /\ signal[c] # NULL
    BY <1>2 DEF LoneInv, Struck
  <2>2. stage[c] \in Late /\ ~replaced'
          => ~replaced /\ buffer' = buffer /\ data' = data /\ Due(c)' = Due(c)
    BY <2>1 DEF Claims, Late, Due
  <2>3. stage[c] \in Late => \A r : Answers(r, c) => Answers(r, c)'
    BY <2>2, AnswersStay
  <2>4. ASSUME stage[c] = "flush"
        PROVE  Logged(c)'
    <3>1. PICK l \in log : l.to = handle[c] /\ Answers(l.report, c)
      BY <2>1, <2>4 DEF Claims, Logged
    <3>2. l.to \in Objs
      BY <3>1 DEF CrashTypeOK
    <3>3. handle'[c] = l.to
      BY <3>1, <3>2
    <3>4. refs'[l.to] > 0
      BY <3>2, <3>3, Contexts DEF NoDangling, Live
    <3>5. QED
      BY <2>3, <2>4, <3>1, <3>3, <3>4 DEF Late, Logged
  <2>5. stage[c] \in Late /\ Reported(c) => Reported(c)'
    BY <2>3 DEF Reported
  <2>6. QED
    BY <2>1, <2>2, <2>4, <2>5 DEF Claims, Late
<1>3. Struck = {} /\ AllInProgram /\ handled' # {} => Hooked'
  BY DEF LoneInv
<1>4. CrashReported'
  BY DEF CrashReported
<1>5. QED
  BY <1>1, <1>2, <1>3, <1>4 DEF LoneInv

(* A handler that moves on has to care for its own claims alone.           *)
LEMMA LoneMoves ==
  ASSUME CrashTypeOK, HandlerInv, NEW d \in Threads, Runs(d),
         stage[d] # "program" \/ d[2] = 0,
         NEW s, s # "program", Stage(d, s), UNCHANGED <<level, signal, process>>,
         Struck = {d} /\ AllInProgram => Claims(d)'
  PROVE  LoneInv'
<1>1. stage' = [stage EXCEPT ![d] = s] /\ stage \in [Threads -> Stages] /\ stage'[d] = s
  BY DEF Stage, CrashTypeOK
<1>2. Struck' = Struck
  BY DEF Struck
<1>3. ASSUME AllInProgram' PROVE AllInProgram /\ d \in Struck
  <2>1. d[2] # 0
    <3>1. d[1] \in Tasks /\ d = <<d[1], d[2]>>
      BY Contexts
    <3>2. QED
      BY <1>1, <1>3, <3>1 DEF AllInProgram
  <2>2. \A t \in Tasks : stage[<<t, 0>>] = stage'[<<t, 0>>]
    BY <1>1, <2>1
  <2>3. AllInProgram
    BY <1>3, <2>2 DEF AllInProgram
  <2>4. QED
    BY <2>1, <2>3, LoneActor
<1>4. ASSUME NEW c \in Threads, Struck = {c}, AllInProgram'
      PROVE  Claims(c)'
  BY <1>3, <1>4
<1>5. CrashReported'
  BY DEF CrashReported, Runs
<1>6. QED
  BY <1>2, <1>3, <1>4, <1>5 DEF LoneInv

(* A signal that strikes a program that has been left alone so far.        *)
LEMMA LoneEnter ==
  ASSUME CrashTypeOK, HandlerInv, LoneInv, NEW t \in Tasks, NEW s \in Signals,
         NEW held \in SUBSET Locks, Enter(t, s, held),
         Struck = {} /\ AllInProgram => Hooked
  PROVE  LoneInv'
<1> DEFINE new == <<t, level[t] + 1>>
<1>1. /\ new \in Threads /\ level[t] \in Nat /\ MaxLevel \in Nat
  BY EnterType, Contexts, CrashAssumption DEF CrashTypeOK
<1>2. /\ stage' = [stage EXCEPT ![new] = "save_sig"]
      /\ signal' = [signal EXCEPT ![new] = s] /\ s # NULL
      /\ UNCHANGED <<atexit, process>> /\ process = "alive"
      /\ stage \in [Threads -> Stages] /\ signal \in [Threads -> Signals \cup {NULL}]
  BY CrashAssumption DEF Enter, CrashTypeOK, vars
<1>3. new \notin Struck
  <2>1. new[1] = t /\ new[2] = level[t] + 1
    OBVIOUS
  <2>2. new[2] \notin 1 .. level[new[1]]
    BY <1>1, <2>1
  <2>3. QED
    BY <1>1, <2>2 DEF HandlerInv, Struck
<1>4. Struck' = Struck \cup {new}
  BY <1>1, <1>2 DEF Struck
<1>5. AllInProgram' => AllInProgram
  <2>1. \A u \in Tasks : <<u, 0>> # new
    BY <1>1
  <2>2. QED
    BY <1>2, <2>1, Contexts DEF AllInProgram
<1>6. ASSUME NEW c \in Threads, Struck' = {c}, AllInProgram' PROVE Claims(c)'
  <2>1. c = new /\ Struck = {}
    BY <1>3, <1>4, <1>6
  <2>2. Hooked'
    BY <1>2, <1>5, <1>6, <2>1 DEF Hooked
  <2>3. stage'[c] = "save_sig"
    BY <1>1, <1>2, <2>1
  <2>4. QED
    BY <2>2, <2>3 DEF Claims, Late
<1>7. CrashReported'
  BY <1>2 DEF CrashReported
<1>8. QED
  BY <1>4, <1>6, <1>7 DEF LoneInv

(* The steps a handler takes, up to exit().                                *)
LEMMA LoneHandler ==
  ASSUME CrashTypeOK, RecordInv, HandlerInv, LoneInv, NEW d \in Threads,
         SaveSig(d) \/ SaveInfo(d) \/ SaveDump(d)
  PROVE  LoneInv'
<1>1. /\ data \in CrashRecord /\ signal[d] \in Signals \cup {NULL}
      /\ buffer \in BOOLEAN /\ stage \in [Threads -> Stages]
  BY DEF CrashTypeOK, CrashRecord
<1>2. /\ Runs(d) /\ stage[d] # "program"
      /\ UNCHANGED <<level, signal, atexit, buffer, replaced, trace, log, sent, process>>
  BY DEF SaveSig, SaveInfo, SaveDump, At, reports, vars
<1>3. Struck = {d} /\ AllInProgram => Claims(d)
  BY <1>2 DEF LoneInv
<1>4. Hooked' = Hooked
  BY <1>2 DEF Hooked
<1>5. CASE SaveSig(d)
  <2>1. /\ Stage(d, "save_info") /\ stage'[d] = "save_info" /\ stage[d] = "save_sig"
        /\ data' = [data EXCEPT !["sig"] = signal[d]]
    BY <1>1, <1>5 DEF SaveSig, Save, Stage, At
  <2>2. data'.sig = signal[d]
    BY <1>1, <2>1 DEF CrashRecord
  <2>3. Claims(d) => Claims(d)'
    BY <1>2, <1>4, <2>1, <2>2 DEF Claims, Late
  <2>4. QED
    BY <1>2, <1>3, <2>1, <2>3, LoneMoves
<1>6. CASE SaveInfo(d)
  <2>1. /\ Stage(d, "save_dump") /\ stage'[d] = "save_dump" /\ stage[d] = "save_info"
        /\ data' = [data EXCEPT !["info"] = signal[d]]
    BY <1>1, <1>6 DEF SaveInfo, Save, Stage, At
  <2>2. data'.info = signal[d] /\ data'.sig = data.sig
    BY <1>1, <2>1 DEF CrashRecord
  <2>3. Claims(d) => Claims(d)'
    BY <1>2, <1>4, <2>1, <2>2 DEF Claims, Late
  <2>4. QED
    BY <1>2, <1>3, <2>1, <2>3, LoneMoves
<1>7. CASE SaveDump(d)
  <2>1. Stage(d, "exit") /\ stage'[d] = "exit" /\ stage[d] = "save_dump"
    BY <1>1, <1>7 DEF SaveDump, Stage, At
  <2>2. /\ data'.sig = data.sig /\ data'.info = data.info
        /\ data'.dump = IF buffer THEN signal[d] ELSE data.dump
    <3>1. CASE buffer
      <4>1. data' = [data EXCEPT !["dump"] = signal[d]]
        BY <1>7, <3>1 DEF SaveDump, Save
      <4>2. QED
        BY <1>1, <3>1, <4>1 DEF CrashRecord
    <3>2. CASE ~buffer
      BY <1>7, <3>2 DEF SaveDump
    <3>3. QED
      BY <3>1, <3>2
  <2>3. ~replaced' => data'.dump = Due(d)'
    BY <1>2, <2>2 DEF Due, RecordInv, BufferInv
  <2>4. Claims(d) => Claims(d)'
    BY <1>2, <1>4, <2>1, <2>2, <2>3 DEF Claims, Late
  <2>5. QED
    BY <1>2, <1>3, <2>1, <2>4, LoneMoves
<1>8. QED
  BY <1>5, <1>6, <1>7

(* exit() finds ExitHandler before it finds its table empty.               *)
LEMMA LonePop ==
  ASSUME IndInv, CrashTypeOK, HandlerInv, LoneInv, NEW d \in Threads,
         NextExitFunction(d)
  PROVE  LoneInv'
<1> DEFINE f == atexit[Len(atexit)]
<1> DEFINE s == IF f = ExitHandler THEN "read" ELSE "destroy"
<1>1. /\ Runs(d) /\ stage[d] = "exit" /\ Stage(d, s)
      /\ atexit \in Seq(Statics \cup {ExitHandler}) /\ atexit # <<>>
      /\ atexit' = SubSeq(atexit, 1, Len(atexit) - 1)
      /\ UNCHANGED <<level, signal, data, buffer, replaced, trace, log, sent, process>>
  BY DEF NextExitFunction, At, record, reports, IndInv, TypeOK
<1>2. stage'[d] = s /\ s # "program" /\ stage[d] # "program"
  BY <1>1 DEF Stage, CrashTypeOK
<1>3. ASSUME Hooked, f # ExitHandler PROVE Hooked'
  <2>1. PICK i \in DOMAIN atexit : atexit[i] = ExitHandler
    BY <1>3 DEF Hooked
  <2>2. /\ Len(atexit) \in Nat /\ Len(atexit) > 0 /\ i \in 1 .. Len(atexit)
        /\ i # Len(atexit)
    BY <1>1, <1>3, <2>1
  <2>3. i \in 1 .. Len(atexit) - 1
    BY <2>2
  <2>4. i \in DOMAIN atexit' /\ atexit'[i] = atexit[i]
    BY <1>1, <2>2, <2>3
  <2>5. QED
    BY <2>1, <2>4 DEF Hooked
<1>4. ASSUME Struck = {d}, AllInProgram PROVE Claims(d)'
  <2>1. Claims(d)
    BY <1>1, <1>4 DEF LoneInv
  <2>2. Due(d)' = Due(d) /\ Reported(d)' = Reported(d)
    BY <1>1 DEF Due, Reported, Answers
  <2>3. QED
    BY <1>1, <1>2, <1>3, <2>1, <2>2 DEF Claims, Late
<1>5. QED
  BY <1>1, <1>2, <1>4, LoneMoves

(* ExitHandler and the destructors, with the record complete.              *)
LEMMA LoneReports ==
  ASSUME CrashTypeOK, RecordInv, HandlerInv, LoneInv, NEW d \in Threads,
         \/ DestroyStatic(d) \/ ReadBacktrace(d)
         \/ LogReport(d) \/ Flush(d) \/ CloseLog(d)
  PROVE  LoneInv'
<1>1. /\ Runs(d) /\ stage[d] # "program" /\ stage[d] \in Late
      /\ UNCHANGED <<level, signal, data, buffer, replaced, atexit, process>>
      /\ stage \in [Threads -> Stages] /\ trace \in [Threads -> Dumps]
  BY DEF DestroyStatic, ReadBacktrace, LogReport, Flush, CloseLog, At, record, vars,
         hooks, Destroy, Construct, CrashTypeOK, Late
<1>2. Hooked' = Hooked /\ Due(d)' = Due(d) /\ \A r : Answers(r, d)' = Answers(r, d)
  BY <1>1 DEF Hooked, Due, Answers
<1>3. ASSUME Struck = {d}, AllInProgram
      PROVE  /\ Claims(d) /\ signal[d] # NULL
             /\ data.sig = signal[d] /\ data.info = signal[d]
             /\ ~replaced => data.dump = Due(d)
  <2>1. Claims(d) /\ signal[d] # NULL
    BY <1>1, <1>3 DEF LoneInv, Struck
  <2>2. QED
    BY <1>1, <2>1 DEF Claims
<1>4. CASE DestroyStatic(d) \/ CloseLog(d)
  <2>1. Stage(d, "exit") /\ stage'[d] = "exit" /\ UNCHANGED sent
        /\ stage[d] \in {"destroy", "close"}
    BY <1>1, <1>4 DEF DestroyStatic, CloseLog, Stage, At
  <2>2. Struck = {d} /\ AllInProgram => Claims(d)'
    BY <1>1, <1>2, <1>3, <2>1 DEF Claims, Late, Reported
  <2>3. QED
    BY <1>1, <2>1, <2>2, LoneMoves
<1>5. CASE ReadBacktrace(d)
  <2>1. Stage(d, "construct") /\ stage'[d] = "construct" /\ trace'[d] \in Readable
    BY <1>1, <1>5 DEF ReadBacktrace, Stage
  <2>2. ASSUME Struck = {d}, AllInProgram PROVE Claims(d)'
    <3>1. ~replaced => trace'[d] = Due(d)
      BY <1>3, <2>1, <2>2 DEF Readable, Due, RecordInv, BufferInv
    <3>2. QED
      BY <1>1, <1>2, <1>3, <2>1, <2>2, <3>1 DEF Claims, Late
  <2>3. QED
    BY <1>1, <2>1, <2>2, LoneMoves
<1>6. CASE LogReport(d)
  <2> DEFINE l == [to |-> handle[d],
                   report |-> [sig |-> data.sig, info |-> data.info,
                               trace |-> trace[d]]]
  <2>1. /\ Stage(d, "flush") /\ stage'[d] = "flush" /\ stage[d] = "construct"
        /\ handle' = handle /\ (data.sig # NULL => l \in log')
    BY <1>1, <1>6 DEF LogReport, Stage, At, vars
  <2>2. ASSUME Struck = {d}, AllInProgram PROVE Claims(d)'
    <3>1. ~replaced => trace[d] = Due(d)
      BY <1>3, <2>1, <2>2 DEF Claims
    <3>2. l \in log' /\ l.to = handle'[d] /\ Answers(l.report, d)
      BY <1>3, <2>1, <2>2, <3>1 DEF Answers
    <3>3. Logged(d)'
      BY <1>2, <3>2 DEF Logged
    <3>4. QED
      BY <1>1, <1>2, <1>3, <2>1, <2>2, <3>3 DEF Claims, Late
  <2>3. QED
    BY <1>1, <2>1, <2>2, LoneMoves
<1>7. CASE Flush(d)
  <2>1. /\ Stage(d, "close") /\ stage'[d] = "close" /\ stage[d] = "flush"
        /\ sent' = sent \cup {l.report : l \in log}
    BY <1>1, <1>7 DEF Flush, Stage, At
  <2>2. ASSUME Struck = {d}, AllInProgram PROVE Claims(d)'
    <3>1. Reported(d)'
      BY <1>2, <1>3, <2>1, <2>2 DEF Claims, Logged, Reported
    <3>2. QED
      BY <1>1, <1>2, <1>3, <2>1, <2>2, <3>1 DEF Claims, Late
  <2>3. QED
    BY <1>1, <2>1, <2>2, LoneMoves
<1>8. QED
  BY <1>4, <1>5, <1>6, <1>7

(* The process ends with the report of a lone handler flushed.             *)
LEMMA LoneEnds ==
  ASSUME IndInv, CrashTypeOK, HandlerInv, LoneInv, NEW d \in Threads, ProcessEnds(d)
  PROVE  LoneInv'
<1>1. /\ Runs(d) /\ stage[d] = "exit" /\ atexit = <<>>
      /\ UNCHANGED <<vars, stack, record, reports>>
  BY DEF ProcessEnds, At
<1>2. ~Hooked
  BY <1>1 DEF Hooked
<1>3. /\ Struck' = Struck /\ AllInProgram' = AllInProgram /\ Hooked' = Hooked
      /\ \A c \in Threads : Claims(c)' = Claims(c) /\ Reported(c)' = Reported(c)
  BY <1>1 DEF Struck, AllInProgram, Hooked, Claims, Due, Answers, Reported, Logged,
              vars, stack, record, reports
<1>4. ASSUME NEW c \in Threads, Struck = {c}, AllInProgram
      PROVE  Reported(c)
  <2>1. c = d
    BY <1>1, <1>4, LoneActor
  <2>2. Claims(c)
    BY <1>4 DEF LoneInv
  <2>3. QED
    BY <1>1, <1>2, <2>1, <2>2 DEF Claims
<1>5. CrashReported'
  <2> SUFFICES ASSUME NEW c \in Struck, Struck = {c}, AllInProgram
               PROVE  Reported(c)'
    BY <1>3 DEF CrashReported, AllInProgram, Reported, Answers, Due
  <2>1. c \in Threads
    BY DEF Struck
  <2>2. QED
    BY <1>3, <1>4, <2>1
<1>6. QED
  BY <1>1, <1>3, <1>5 DEF LoneInv, record

(* A lone handler gets its report through, whatever others do meanwhile.   *)
LEMMA LoneNext ==
  ASSUME CrashInv, CrashNext
  PROVE  LoneInv'
<1> USE DEF CrashInv
<1>1. NoDangling' /\ process = "alive"
  BY HandlesNext, NoDanglingNext, OnlyAlive DEF IndInv
<1>2. ASSUME NEW c \in Threads, ConstructorCall(c) PROVE LoneInv'
  <2>1. \A d \in Threads : handle[d] \in Objs => handle'[d] = handle[d]
    BY <1>2, CallKeeps, Contexts, LifecycleAssumption DEF Built
  <2>2. process' # "exited" /\ UNCHANGED <<level, stage, signal, trace, sent>>
    BY <1>1, <1>2, CallRecord DEF stack
  <2>3. QED
    BY <1>1, <1>2, <2>1, <2>2, CallRecord, CallHooks, LoneQuiet
<1>3. CASE UNCHANGED <<vars, stack, record, reports>> /\ process' # "exited"
  BY <1>1, <1>3, LoneQuiet DEF vars, stack, record, reports, Hooked
<1>4. ASSUME NEW t \in Tasks, ProgramConstructor(t) PROVE LoneInv'
  BY <1>2, <1>4, Contexts DEF ProgramConstructor
<1>5. ASSUME NEW t \in Tasks, ProgramCall(t) PROVE LoneInv'
  <2>1. \A d \in Threads : handle'[d] = handle[d]
    BY <1>5, ProgramSpares
  <2>2. /\ Lose /\ UNCHANGED <<stack, record, trace, sent, process, atexit>>
    BY <1>5 DEF ProgramCall, Construct, DefaultConstruct, Destroy, Swap, hooks
  <2>3. Hooked' = Hooked
    BY <2>2 DEF Hooked
  <2>4. QED
    BY <1>1, <2>1, <2>2, <2>3, LoneQuiet DEF Lose, stack, record
<1>6. ASSUME NEW t \in Tasks, Exit(t) PROVE LoneInv'
  <2> DEFINE c == <<t, 0>>
  <2>1. /\ c \in Threads /\ c[2] = 0 /\ Runs(c) /\ Stage(c, "exit")
        /\ stage[c] = "program" /\ UNCHANGED <<level, signal, process>>
        /\ level[t] = 0
    BY <1>6, Contexts DEF Exit, At, Runs
  <2>2. c \notin Struck
    BY <2>1 DEF HandlerInv, Struck
  <2>3. QED
    BY <2>1, <2>2, LoneMoves
<1>7. ASSUME NEW t \in Tasks, NEW s \in Signals, Signal(t, s) PROVE LoneInv'
  <2>1. Struck = {} /\ AllInProgram => Hooked
    BY <1>7 DEF Signal, LoneInv
  <2>2. QED
    BY <1>7, <2>1, SignalEnters, LoneEnter
<1>8. ASSUME NEW t \in Tasks, NEW s \in Signals, SignalKills(t, s) PROVE LoneInv'
  BY <1>3, <1>8 DEF SignalKills
<1>9. ASSUME NEW c \in Threads, Terminate(c) PROVE LoneInv'
  <2>1. c[1] \in Tasks /\ Abort \in Signals /\ {} \in SUBSET Locks
    BY Contexts, CrashAssumption
  <2>2. ~(Struck = {} /\ AllInProgram)
    BY <1>9, LoneActor DEF Terminate, At
  <2>3. CASE Enter(c[1], Abort, {})
    BY <2>1, <2>2, <2>3, LoneEnter
  <2>4. CASE process' = "killed" /\ UNCHANGED <<vars, stack, record, reports>>
    BY <1>3, <2>4
  <2>5. QED
    BY <1>9, <2>3, <2>4 DEF Terminate
<1>10. ASSUME NEW c \in Threads, ExitStep(c) PROVE LoneInv'
  BY <1>2, <1>9, <1>10, LoneHandler, LonePop, LoneReports, LoneEnds
     DEF ExitStep, ExitLogConstructor
<1>11. QED
  BY <1>4, <1>5, <1>6, <1>7, <1>8, <1>10, Contexts DEF CrashNext

-----------------------------------------------------------------------------
(* One thread: a name found free stays free until it is taken.             *)

OneInv(t) ==
  /\ \A n \in 0 .. MaxLevel : n > level[t] => pc[<<t, n>>] = "idle"
  /\ pc[Top(t)] \in {"register", "create_client", "share_client"}
       => shared[ClientKey(Top(t))] = NULL
  /\ pc[Top(t)] \in {"get_client", "register", "create_client", "share_client",
                     "create", "share"} /\ Kind(Top(t)) # "client"
       => shared[Key(Top(t))] = NULL

(* A step that leaves the frames alone and takes no name.                  *)
LEMMA OneQuiet ==
  ASSUME NEW t, OneInv(t), TypeOK, pc[Top(t)] # "idle" => target[Top(t)] # NULL,
         Top(t) \in Threads,
         UNCHANGED <<level, frame>>,
         \A k \in Keys : shared[k] = NULL => shared'[k] = NULL
  PROVE  OneInv(t)'
<1>1. Top(t)' = Top(t) /\ UNCHANGED <<pc, target, name>>
  BY DEF Top, frame
<1>2. Key(Top(t))' = Key(Top(t)) /\ ClientKey(Top(t))' = ClientKey(Top(t))
      /\ Kind(Top(t))' = Kind(Top(t))
  BY <1>1 DEF Key, ClientKey, Kind
<1>3. pc[Top(t)] # "idle" => Key(Top(t)) \in Keys /\ ClientKey(Top(t)) \in Keys
  BY LifecycleAssumption DEF TypeOK, Key, ClientKey, Kind, Keys, Kinds
<1>4. QED
  BY <1>1, <1>2, <1>3 DEF OneInv

(* A step of the running constructor: the object it made takes its name.   *)
LEMMA OneConstructor ==
  ASSUME NEW t, OneInv(t), IndInv, NEW c \in Threads, c = Top(t),
         ConstructorStep(c), UNCHANGED level
  PROVE  OneInv(t)'
<1> USE DEF IndInv
<1>1. /\ Top(t)' = c /\ c = <<t, level[t]>>
      /\ pc \in [Threads -> PCs] /\ target \in [Threads -> Handles \cup {NULL}]
      /\ shared \in [Keys -> Objs \cup {NULL}]
  BY DEF Top, TypeOK
<1>2. pc[c] # "idle" => Key(c) \in Keys /\ ClientKey(c) \in Keys
  BY LifecycleAssumption DEF FrameInv, TypeOK, Key, ClientKey, Kind, Keys, Kinds
<1>3. ASSUME NEW p, Goto(c, p)
      PROVE  /\ pc'[c] = p /\ Key(c)' = Key(c) /\ ClientKey(c)' = ClientKey(c)
             /\ Kind(c)' = Kind(c)
             /\ \A n \in 0 .. MaxLevel : n > level[t] => pc'[<<t, n>>] = pc[<<t, n>>]
  <2>1. \A n \in 0 .. MaxLevel : n > level[t] => <<t, n>> # c
    BY <1>1
  <2>2. QED
    BY <1>1, <1>3, <2>1 DEF Goto, Key, ClientKey, Kind
<1>4. ASSUME Leave(c)
      PROVE  /\ pc'[c] = "idle"
             /\ \A n \in 0 .. MaxLevel : n > level[t] => pc'[<<t, n>>] = pc[<<t, n>>]
  <2>1. \A n \in 0 .. MaxLevel : n > level[t] => <<t, n>> # c
    BY <1>1
  <2>2. QED
    BY <1>1, <1>4, <2>1 DEF Leave
<1>5. ASSUME Leave(c) PROVE OneInv(t)'
  BY <1>1, <1>4, <1>5 DEF OneInv
<1>6. ASSUME UNCHANGED shared, NEW p \in PCs, Goto(c, p),
             p \in {"get_client", "create"} \cup {"register", "create_client", "share_client"}
               /\ Kind(c) # "client" => shared[Key(c)] = NULL,
             p = "share" => shared[Key(c)] = NULL,
             p \in {"register", "create_client", "share_client"}
               => shared[ClientKey(c)] = NULL
      PROVE  OneInv(t)'
  BY <1>1, <1>3, <1>6 DEF OneInv
<1>7. CASE GetShared(c)
  BY <1>5, <1>6, <1>7 DEF GetShared, Return, PCs, ghost
<1>8. CASE GetSharedClient(c)
  BY <1>1, <1>5, <1>6, <1>8 DEF GetSharedClient, Return, PCs, ghost, OneInv
<1>9. CASE RegisterUnixCrashHandlers(c) \/ \E o \in Objs : CreateClient(c, o)
  BY <1>1, <1>6, <1>9 DEF RegisterUnixCrashHandlers, CreateClient, Create, PCs, p7, ghost, OneInv
<1>10. CASE AtexitFails(c) \/ SigactionFails(c) \/ CreateClientFails(c)
            \/ CloseClient(c) \/ Unwind(c) \/ ShareClientFails(c)
  BY <1>5, <1>10 DEF AtexitFails, SigactionFails, CreateClientFails, CloseClient, Unwind,
     ShareClientFails, Throw, Return, ghost
<1>11. CASE ShareClient(c)
  <2>1. pc[c] = "share_client" /\ shared[ClientKey(c)] = NULL
    BY <1>1, <1>11 DEF ShareClient, OneInv
  <2>2. /\ shared' = [shared EXCEPT ![ClientKey(c)] = local[c]]
        /\ Leave(c) \/ (Kind(c) # "client" /\ Goto(c, "create"))
    BY <1>11, <2>1 DEF ShareClient, Return
  <2>3. ASSUME Kind(c) # "client", Goto(c, "create") PROVE OneInv(t)'
    <3>1. shared[Key(c)] = NULL /\ Key(c) # ClientKey(c)
      BY <1>1, <2>1, <2>3 DEF OneInv, Key, ClientKey
    <3>2. shared'[Key(c)] = NULL
      BY <1>1, <1>2, <2>1, <2>2, <3>1
    <3>3. QED
      BY <1>1, <1>3, <2>2, <2>3, <3>2 DEF OneInv
  <2>4. QED
    BY <1>5, <2>2, <2>3
<1>12. CASE CreateChannelFails(c) \/ \E o \in Objs : CreateChannel(c, o)
  <2>1. pc[c] = "create" /\ UNCHANGED shared /\ Kind(c) # "client"
    BY <1>12 DEF CreateChannelFails, CreateChannel, Create, p7, ghost, FrameInv
  <2>2. shared[Key(c)] = NULL
    BY <1>1, <2>1 DEF OneInv
  <2>3. QED
    BY <1>6, <1>12, <2>1, <2>2 DEF CreateChannelFails, CreateChannel, PCs
<1>13. CASE Share(c)
  <2>1. pc[c] = "share" /\ Kind(c) # "client"
    BY <1>13 DEF Share, FrameInv
  <2>2. shared[Key(c)] = NULL
    BY <1>1, <2>1 DEF OneInv
  <2>3. PICK p \in {"pin", "close"} : Goto(c, p)
    BY <1>13 DEF Share
  <2>4. QED
    BY <1>1, <1>3, <2>3 DEF OneInv
<1>14. CASE AddRefTelemetry(c)
  BY <1>6, <1>14 DEF AddRefTelemetry, PCs
<1>15. CASE ShareFails(c)
  BY <1>6, <1>15 DEF ShareFails, PCs, p7
<1>16. QED
  BY <1>7, <1>8, <1>9, <1>10, <1>11, <1>12, <1>13, <1>14, <1>15 DEF ConstructorStep

(* Entering a constructor: nothing is known of its name yet.               *)
LEMMA OneConstruct ==
  ASSUME NEW t, OneInv(t), TypeOK, NEW c \in Threads, c = Top(t),
         NEW h, NEW n, Construct(c, h, n), UNCHANGED level
  PROVE  OneInv(t)'
<1>1. /\ Top(t)' = c /\ c = <<t, level[t]>>
      /\ pc'[c] = IF HandleKind[h] = "client" THEN "get_client" ELSE "get"
      /\ target'[c] = h
  BY DEF Top, Construct, TypeOK, ghost
<1>2. \A m \in 0 .. MaxLevel : m > level[t] => <<t, m>> # c
  BY <1>1
<1>3. \A m \in 0 .. MaxLevel : m > level[t] => pc'[<<t, m>>] = pc[<<t, m>>]
  BY <1>2 DEF Construct, TypeOK
<1>4. QED
  BY <1>1, <1>3 DEF OneInv, Kind

(* In a process of one thread no constructor finds its name taken.         *)
LEMMA OneNext ==
  ASSUME NEW t, Tasks = {t}, CrashInv, OneInv(t), CrashNext
  PROVE  OneInv(t)'
<1> USE DEF CrashInv
<1>1. /\ TypeOK /\ t \in Tasks /\ Top(t) \in Threads
      /\ pc[Top(t)] # "idle" => target[Top(t)] # NULL
  BY TopIsContext DEF IndInv, FrameInv
<1>2. ASSUME NEW c \in Threads, Runs(c) PROVE c = Top(t)
  BY <1>2, RunsOnTop
<1>3. CASE UNCHANGED <<vars, level>>
  BY <1>1, <1>3, OneQuiet DEF vars, frame
<1>4. ASSUME NEW c \in Threads, Runs(c), ConstructorCall(c) PROVE OneInv(t)'
  <2>1. c = Top(t) /\ UNCHANGED level
    BY <1>2, <1>4, CallRecord DEF stack
  <2>2. CASE UNCHANGED vars
    BY <1>3, <2>1, <2>2
  <2>3. CASE ConstructorStep(c)
    BY <2>1, <2>3, OneConstructor
  <2>4. QED
    BY <1>4, <2>2, <2>3 DEF ConstructorCall, CheckBuffer
<1>5. ASSUME NEW h, Destroy(h), UNCHANGED level PROVE OneInv(t)'
  <2>1. \A k \in Keys : shared[k] = NULL => shared'[k] = NULL
    BY <1>5 DEF Destroy, Release, p7
  <2>2. QED
    BY <1>1, <1>5, <2>1, OneQuiet DEF Destroy, ghost
<1>6. ASSUME NEW c \in Threads, Runs(c), NEW h, NEW n, Construct(c, h, n), UNCHANGED level
      PROVE  OneInv(t)'
  BY <1>1, <1>2, <1>6, OneConstruct
<1>7. ASSUME NEW s, NEW held, Enter(t, s, held) PROVE OneInv(t)'
  <2>1. /\ level \in [Tasks -> 0 .. MaxLevel] /\ MaxLevel \in Nat /\ level[t] < MaxLevel
        /\ level' = [level EXCEPT ![t] = @ + 1] /\ UNCHANGED vars
    BY <1>7, CrashAssumption DEF CrashTypeOK, Enter
  <2>2. level'[t] = level[t] + 1 /\ level[t] \in Nat /\ level[t] + 1 \in 0 .. MaxLevel
    BY <1>1, <2>1
  <2>3. Top(t)' = <<t, level[t] + 1>>
    BY <2>2 DEF Top
  <2>4. pc[<<t, level[t] + 1>>] = "idle"
    BY <2>2 DEF OneInv
  <2>5. QED
    BY <2>1, <2>2, <2>3, <2>4 DEF OneInv, vars
<1>8. CASE ProgramConstructor(t)
  BY <1>4, <1>8, Contexts DEF ProgramConstructor, At
<1>9. CASE ProgramCall(t)
  <2>1. <<t, 0>> \in Threads /\ Runs(<<t, 0>>) /\ UNCHANGED level
    BY <1>1, <1>9, Contexts DEF ProgramCall, At, stack
  <2>2. ASSUME NEW h, NEW n, Construct(<<t, 0>>, h, n) PROVE OneInv(t)'
    BY <1>6, <2>1, <2>2
  <2>3. ASSUME NEW h, DefaultConstruct(h) PROVE OneInv(t)'
    BY <1>1, <2>1, <2>3, OneQuiet DEF DefaultConstruct, p7, ghost
  <2>4. ASSUME NEW g, NEW h, Swap(g, h) PROVE OneInv(t)'
    BY <1>1, <2>1, <2>4, OneQuiet DEF Swap, p7, ghost
  <2>5. QED
    BY <1>5, <1>9, <2>1, <2>2, <2>3, <2>4 DEF ProgramCall
<1>10. CASE Exit(t)
  BY <1>3, <1>10 DEF Exit
<1>11. ASSUME NEW s, Signal(t, s) \/ SignalKills(t, s) PROVE OneInv(t)'
  BY <1>3, <1>7, <1>11 DEF Signal, SignalKills, stack
<1>12. ASSUME NEW c \in Threads, ExitStep(c) PROVE OneInv(t)'
  <2>1. CASE ReadBacktrace(c)
    BY <1>6, <2>1 DEF ReadBacktrace, At
  <2>2. CASE ExitLogConstructor(c)
    BY <1>4, <2>2 DEF ExitLogConstructor, At
  <2>3. CASE Terminate(c)
    BY <1>1, <1>3, <1>7, <2>3, Contexts DEF Terminate, stack
  <2>4. CASE NextExitFunction(c)
    BY <1>1, <2>4, OneQuiet DEF NextExitFunction, p7, ghost
  <2>5. CASE DestroyStatic(c) \/ CloseLog(c)
    BY <1>5, <2>5 DEF DestroyStatic, CloseLog
  <2>6. CASE SaveSig(c) \/ SaveInfo(c) \/ SaveDump(c) \/ ProcessEnds(c) \/ LogReport(c)
             \/ Flush(c)
    BY <1>3, <2>6 DEF SaveSig, SaveInfo, SaveDump, ProcessEnds, LogReport, Flush, stack
  <2>7. QED
    BY <1>12, <2>1, <2>2, <2>3, <2>4, <2>5, <2>6 DEF ExitStep
<1>13. QED
  BY <1>8, <1>9, <1>10, <1>11, <1>12, Contexts DEF CrashNext

-----------------------------------------------------------------------------
(* The theorems.                                                           *)

(* Before the program's first step no context has left it.                 *)
LEMMA CrashInitInv == CrashInit => CrashInv
<1> SUFFICES ASSUME CrashInit PROVE CrashInv
  OBVIOUS
<1>1. IndInv
  BY InitInv DEF CrashInit
<1>2. CrashTypeOK
  <2>1. level \in [Tasks -> 0 .. MaxLevel]
    BY CrashAssumption DEF CrashInit
  <2>2. data \in [sig: Signals \cup {NULL}, info: Signals \cup {NULL}, dump: Dumps]
    BY DEF CrashInit, Dumps
  <2>3. stage \in [Threads -> Stages]
    BY DEF CrashInit, Stages
  <2>4. QED
    BY <2>1, <2>2, <2>3 DEF CrashInit, CrashTypeOK, Dumps
<1>3. PlaceInv
  BY Contexts, LifecycleAssumption DEF PlaceInv, CrashInit, Init
<1>4. RecordInv
  <2>1. \A t \in Tasks : Top(t) = <<t, 0>> /\ stage[Top(t)] = "program"
    BY Contexts DEF CrashInit, Top
  <2>2. QED
    BY <2>1, ProgramSavesNothing, CrashAssumption
       DEF RecordInv, BufferInv, CrashInit, ReportsAgree
<1>5. HandlerInv
  BY Contexts DEF HandlerInv, CrashInit
<1>6. LoneInv
  BY DEF LoneInv, CrashInit, CrashReported, Struck
<1>7. QED
  BY <1>1, <1>2, <1>3, <1>4, <1>5, <1>6 DEF CrashInv

(* A stuttering step preserves the invariant.                              *)
LEMMA CrashStutter == CrashInv /\ UNCHANGED cvars => CrashInv'
<1> SUFFICES ASSUME CrashInv, UNCHANGED cvars PROVE CrashInv'
  OBVIOUS
<1> USE DEF CrashInv, cvars
<1>1. IndInv'
  BY StutterInv
<1>2. CrashTypeOK'
  BY DEF CrashTypeOK
<1>3. PlaceInv'
  BY DEF PlaceInv, vars
<1>4. RecordInv'
  BY QuietRecord DEF RecordInv, BufferInv
<1>5. HandlerInv'
  BY DEF HandlerInv
<1>6. LoneInv'
  BY DEF LoneInv, Claims, Due, Answers, Reported, Logged, Hooked, AllInProgram,
         Struck, CrashReported, vars
<1>7. QED
  BY <1>1, <1>2, <1>3, <1>4, <1>5, <1>6

(* CrashInv is an inductive invariant of every instance.                   *)
THEOREM CrashInvariant == CrashSpec => []CrashInv
<1>1. CrashInv /\ CrashNext => CrashInv'
  BY HandlesNext, TypeNext, PlaceNext, RecordNext, HandlerNext, LoneNext DEF CrashInv
<1>2. QED
  BY <1>1, CrashInitInv, CrashStutter, PTL DEF CrashSpec

(* Every variable of the crash model keeps its type: a report in           *)
(* particular names a signal, and a static handle is what exit() destroys. *)
THEOREM CrashTypeCorrect == CrashSpec => []CrashTypeOK
<1>1. CrashInv => CrashTypeOK
  BY DEF CrashInv
<1>2. QED
  BY <1>1, CrashInvariant, PTL

(* The references stay in order through signals, nested handlers, exit()   *)
(* and ExitHandler, in any number of threads.                              *)
THEOREM CrashRefsAccounted == CrashSpec => []RefAccounting
<1>1. CrashInv => RefAccounting
  BY DEF CrashInv, IndInv
<1>2. QED
  BY <1>1, CrashInvariant, PTL

(* Whatever a signal interrupts, no handle, constructor, channel or name   *)
(* leads to a destroyed object: ExitHandler logs to an object that lives.  *)
THEOREM CrashNeverDangling == CrashSpec => []NoDangling
<1>1. CrashInv => NoDangling
  BY NoDanglingInv DEF CrashInv, IndInv
<1>2. QED
  BY <1>1, CrashInvariant, PTL

(* A step that takes a function off the table, or that leaves the handles  *)
(* alone, shows nothing of them.                                           *)
LEMMA PopShowsNothing ==
  ASSUME (\E c \in Threads : NextExitFunction(c)) \/ UNCHANGED vars
  PROVE  /\ UNCHANGED <<Chan, Present, shared>>
         /\ UNCHANGED pc
         /\ AnchorInv /\ PinnedInv => AnchorInv' /\ PinnedInv'
<1>1. UNCHANGED <<client, shared, handle, pc, local, pinned>>
  BY DEF NextExitFunction, p7, frame, ghost, vars
<1>2. QED
  BY <1>1 DEF Chan, KeyOf, Present, AnchorInv, PinnedInv

(* The invariants of the handles and of the client "main", and the steps   *)
(* of the process as those of the channels.                                *)
LEMMA CrashMaps ==
  ASSUME CrashInv, AnchorInv, PinnedInv, [CrashNext]_cvars
  PROVE  /\ AnchorInv' /\ PinnedInv'
         /\ Channels!Next \/ UNCHANGED <<Chan, Present>>
         /\ \A n \in Names : shared[<<"telemetry", n>>] # NULL =>
              shared'[<<"telemetry", n>>] = shared[<<"telemetry", n>>]
         /\ \A c \in Threads : pc[c] = "get_client" /\ pc'[c] = "register"
              => shared[ClientKey(c)] = NULL
<1>1. CASE UNCHANGED cvars
  BY <1>1, PopShowsNothing DEF cvars
<1>2. CASE CrashNext
  <2>1. IndInv /\ IndInv'
    BY <1>2, HandlesNext DEF CrashInv
  <2>2. CASE HandleStep
    <3>1. AnchorInv' /\ PinnedInv'
      BY <2>1, <2>2, AnchorNext, PinnedNext
    <3>2. \A n \in Names : <<"telemetry", n>> \in Keys
      BY DEF Keys, Kinds
    <3>3. \A n \in Names : shared[<<"telemetry", n>>] # NULL =>
            shared'[<<"telemetry", n>>] = shared[<<"telemetry", n>>]
      BY <2>1, <2>2, <3>2, TelemetryKept
    <3>4. QED
      BY <2>1, <2>2, <3>1, <3>3, StepMaps, NoClientFound
  <2>3. CASE (\E c \in Threads : NextExitFunction(c)) \/ UNCHANGED vars
    BY <2>3, PopShowsNothing
  <2>4. QED
    BY <1>2, <2>2, <2>3, CrashSteps DEF CrashInv
<1>3. QED
  BY <1>1, <1>2

(* Every trace and telemetry holds the client "main", and every            *)
(* constructor that has come so far.                                       *)
LEMMA CrashAnchor == CrashSpec => [](AnchorInv /\ PinnedInv)
<1>1. CrashInit => AnchorInv /\ PinnedInv
  BY DEF CrashInit, Init, AnchorInv, PinnedInv
<1>2. QED
  BY <1>1, CrashMaps, CrashInvariant, PTL DEF CrashSpec

(* The client "main" outlives its channels while exit() destroys handles   *)
(* in some thread, and where a signal stops the constructor of a channel.  *)
THEOREM CrashClientOutlives == CrashSpec => []ClientOutlivesChannels
<1>1. CrashInv /\ AnchorInv => ClientOutlivesChannels
  BY OutlivesState DEF CrashInv
<1>2. QED
  BY <1>1, CrashInvariant, CrashAnchor, PTL

(* With signals, exit() and ExitHandler the handles are still those of     *)
(* NamedChannels: what a signal interrupts never takes a channel from a    *)
(* handle that another context or thread has.                              *)
THEOREM CrashImplements == CrashSpec => ImplementsNames
<1>1. CrashInit => Channels!Init
  BY LifecycleAssumption DEF CrashInit, Init, Channels!Init, Chan, Present
<1>2. CrashInv /\ AnchorInv /\ PinnedInv /\ [CrashNext]_cvars => [Channels!Next]_<<Chan, Present>>
  BY CrashMaps
<1>3. QED
  BY <1>1, <1>2, CrashInvariant, CrashAnchor, PTL
     DEF CrashSpec, ImplementsNames, Channels!Spec, Channels!cvars

(* A shared telemetry object is there until the process ends: exit() does  *)
(* not take it away with the last static handle.                           *)
THEOREM CrashTelemetryStays == CrashSpec => TelemetryStays
<1>1. CrashInv /\ AnchorInv /\ PinnedInv /\ [CrashNext]_cvars =>
        [\A n \in Names : shared[<<"telemetry", n>>] # NULL =>
           shared'[<<"telemetry", n>>] = shared[<<"telemetry", n>>]]_vars
  BY CrashMaps
<1>2. QED
  BY <1>1, CrashInvariant, CrashAnchor, PTL DEF CrashSpec, TelemetryStays

(* Who keeps the client "main", by a handle on it, by a channel made on it *)
(* or by the extra reference of a telemetry, keeps its name too.           *)
LEMMA KeptHasName ==
  ASSUME IndInv, AnchorInv, PinnedInv, Kept
  PROVE  shared[MainKey] # NULL
<1>1. ASSUME NEW o \in Objs, client[o] # NULL PROVE shared[MainKey] # NULL
  BY <1>1 DEF AnchorInv
<1>2. CASE pinned # {}
  BY <1>1, <1>2 DEF PinnedInv, IndInv, TypeOK
<1>3. ASSUME NEW h \in Handles, handle[h] \in Objs, HandleKind[h] # "client"
      PROVE  shared[MainKey] # NULL
  <2>1. PICK n \in Names : shared[<<HandleKind[h], n>>] = handle[h]
    BY <1>3 DEF IndInv, HandleInv
  <2>2. /\ <<HandleKind[h], n>> \in Keys /\ handle[h] # NULL
        /\ <<HandleKind[h], n>>[1] # "client"
    BY <1>3, LifecycleAssumption DEF Keys
  <2>3. client[handle[h]] # NULL
    BY <2>1, <2>2 DEF IndInv, RoleInv
  <2>4. QED
    BY <1>1, <1>3, <2>3
<1>4. CASE \E h \in Handles : handle[h] \in Objs /\ shared[MainKey] = handle[h]
  BY <1>4, LifecycleAssumption
<1>5. QED
  BY <1>2, <1>3, <1>4 DEF Kept, MainKey

(* Where the client "main" is kept, no constructor of a Log registers      *)
(* ExitHandler: not ExitHandler's own, in whichever thread and however     *)
(* deep in handlers, so that exit() is not given itself as more work.      *)
THEOREM CrashClientFound == CrashSpec => KeptClientIsFound
<1>1. CrashInv /\ AnchorInv /\ PinnedInv /\ [CrashNext]_cvars =>
        [\A c \in Threads : Kept /\ pc[c] = "get_client" /\ pc'[c] = "register"
           => Kind(c) = "client"]_cvars
  <2> SUFFICES ASSUME CrashInv, AnchorInv, PinnedInv, [CrashNext]_cvars, Kept,
                      NEW c \in Threads, pc[c] = "get_client", pc'[c] = "register"
               PROVE  Kind(c) = "client"
    OBVIOUS
  <2>1. shared[ClientKey(c)] = NULL
    BY CrashMaps
  <2>2. shared[MainKey] # NULL
    BY KeptHasName DEF CrashInv
  <2>3. QED
    BY <2>1, <2>2 DEF ClientKey, MainKey
<1>2. QED
  BY <1>1, CrashInvariant, CrashAnchor, PTL DEF CrashSpec, KeptClientIsFound

-----------------------------------------------------------------------------
(* The work of exit().                                                     *)

(* ExitHandler constructs its own Log, which is not a static object.       *)
OwnLogInv ==
  \A c \in Threads : stage[c] = "construct" /\ pc[c] # "idle" => target[c] = c

(* What a context has ahead of it, from its stage, call and look at the    *)
(* record.                                                                 *)
Left(s, l, b) ==
  11 * StepsToExit[s] + CallsToMake[l] - Bit(l = "register" /\ b # "unread")

(* The numbers of Ahead.                                                   *)
LEMMA WorkNumbers ==
  /\ \A s \in Stages : StepsToExit[s] \in Nat
  /\ \A l \in PCs : CallsToMake[l] \in 0 .. 10
  /\ \A s \in Stages, l \in PCs : \A b : Left(s, l, b) \in Int
BY DEF Stages, PCs, StepsToExit, CallsToMake, Left, Bit

(* The work ahead shrinks when that of one context does.                   *)
LEMMA OneContextWorks ==
  ASSUME TypeOK, CrashTypeOK, NEW c \in Threads,
         \A d \in Threads \ {c} : /\ stage'[d] = stage[d] /\ pc'[d] = pc[d]
                                  /\ seen'[d] = seen[d],
         Left(stage'[c], pc'[c], seen'[c]) < Left(stage[c], pc[c], seen[c]),
         Left(stage'[c], pc'[c], seen'[c]) \in Int
  PROVE  Fewer(Ahead', Ahead)
<1>1. /\ DOMAIN Ahead = Threads
      /\ \A d \in Threads : /\ Ahead[d] = Left(stage[d], pc[d], seen[d])
                            /\ Ahead'[d] = Left(stage'[d], pc'[d], seen'[d])
  BY DEF Ahead, Left
<1>2. \A d \in Threads : Left(stage[d], pc[d], seen[d]) \in Int
  BY WorkNumbers DEF TypeOK, CrashTypeOK
<1>3. \A d \in Threads : Ahead[d] \in Int /\ Ahead'[d] <= Ahead[d]
  <2>1. ASSUME NEW d \in Threads \ {c} PROVE Ahead'[d] = Ahead[d]
    BY <1>1, <2>1
  <2>2. Ahead'[c] <= Ahead[c]
    BY <1>1, <1>2
  <2>3. QED
    BY <1>1, <1>2, <2>1, <2>2
<1>4. Ahead'[c] # Ahead[c]
  BY <1>1, <1>2
<1>5. QED
  BY <1>1, <1>3, <1>4 DEF Fewer

(* A step from one stage to a later one.                                   *)
LEMMA StageWorks ==
  ASSUME TypeOK, CrashTypeOK, NEW c \in Threads, NEW s \in Stages, Stage(c, s),
         StepsToExit[s] < StepsToExit[stage[c]],
         UNCHANGED <<level, atexit, pc, seen>>
  PROVE  Room' = Room /\ Pending' = Pending /\ Fewer(Ahead', Ahead)
<1>1. Room' = Room /\ Pending' = Pending
  BY DEF Room, Pending
<1>2. /\ stage'[c] = s /\ stage[c] \in Stages /\ pc[c] \in PCs
      /\ \A d \in Threads \ {c} : stage'[d] = stage[d]
  BY DEF Stage, CrashTypeOK, TypeOK
<1>3. Left(s, pc[c], seen[c]) < Left(stage[c], pc[c], seen[c])
      /\ Left(s, pc[c], seen[c]) \in Int
  <2>1. StepsToExit[s] \in Int /\ StepsToExit[stage[c]] \in Int /\ CallsToMake[pc[c]] \in Int
    BY <1>2, WorkNumbers
  <2>2. Bit(pc[c] = "register" /\ seen[c] # "unread") \in Int
    BY DEF Bit
  <2>3. QED
    BY <2>1, <2>2 DEF Left
<1>4. QED
  BY <1>1, <1>2, <1>3, OneContextWorks

(* A step of a constructor takes it on to a later call, or out of it.      *)
LEMMA CallsForward ==
  ASSUME TypeOK, NEW c \in Threads, ConstructorStep(c)
  PROVE  \E l \in PCs :
           /\ pc' = [pc EXCEPT ![c] = l]
           /\ CallsToMake[l] < CallsToMake[pc[c]]
           /\ pc[c] = "register" => CallsToMake[l] < 7
           /\ l = "register" => pc[c] = "get_client"
           /\ target' = target \/ (l = "idle" /\ target' = [target EXCEPT ![c] = NULL])
<1> DEFINE Forward(k, l) ==
             pc[c] = k /\ pc' = [pc EXCEPT ![c] = l]
               /\ (target' = target \/ (l = "idle" /\ target' = [target EXCEPT ![c] = NULL]))
           On == \E l \in PCs :
             /\ pc' = [pc EXCEPT ![c] = l]
             /\ CallsToMake[l] < CallsToMake[pc[c]]
             /\ pc[c] = "register" => CallsToMake[l] < 7
             /\ l = "register" => pc[c] = "get_client"
             /\ target' = target \/ (l = "idle" /\ target' = [target EXCEPT ![c] = NULL])
<1>1. \A k, l \in PCs :
        /\ Forward(k, l)
        /\ CallsToMake[l] < CallsToMake[k]
        /\ k = "register" => CallsToMake[l] < 7
        /\ l = "register" => k = "get_client"
        => On
  OBVIOUS
<1>2. \/ Forward("get", "idle") \/ Forward("get", "get_client")
      \/ Forward("get_client", "register") \/ Forward("get_client", "idle")
      \/ Forward("get_client", "create") \/ Forward("register", "create_client")
      \/ Forward("register", "idle") \/ Forward("create_client", "idle")
      \/ Forward("create_client", "share_client") \/ Forward("share_client", "idle")
      \/ Forward("share_client", "create") \/ Forward("create", "unwind")
      \/ Forward("create", "share") \/ Forward("share", "pin") \/ Forward("share", "close")
      \/ Forward("share", "unwind") \/ Forward("pin", "close")
      \/ Forward("close", "idle") \/ Forward("unwind", "idle")
  <2>1. CASE GetShared(c) \/ GetSharedClient(c) \/ RegisterUnixCrashHandlers(c)
    BY <2>1 DEF GetShared, GetSharedClient, RegisterUnixCrashHandlers, Goto, Return, Leave
  <2>2. CASE AtexitFails(c) \/ SigactionFails(c) \/ CreateClientFails(c) \/ ShareClient(c)
            \/ ShareClientFails(c)
    BY <2>2 DEF AtexitFails, SigactionFails, CreateClientFails, ShareClient,
                ShareClientFails, Throw, Goto, Return, Leave
  <2>3. CASE CreateChannelFails(c) \/ AddRefTelemetry(c) \/ CloseClient(c) \/ Unwind(c)
    BY <2>3 DEF CreateChannelFails, AddRefTelemetry, CloseClient, Unwind, Throw, Goto,
                Return, Leave
  <2>4. CASE Share(c) \/ ShareFails(c)
    BY <2>4 DEF Share, ShareFails, Goto
  <2>5. CASE \E o \in Objs : CreateClient(c, o) \/ CreateChannel(c, o)
    BY <2>5 DEF CreateClient, CreateChannel, Goto
  <2>6. QED
    BY <2>1, <2>2, <2>3, <2>4, <2>5 DEF ConstructorStep
<1> HIDE DEF Forward, On
<1>3. /\ Forward("get", "idle") \/ Forward("get", "get_client") => On
      /\ Forward("get_client", "register") \/ Forward("get_client", "idle")
           \/ Forward("get_client", "create") => On
      /\ Forward("register", "create_client") \/ Forward("register", "idle") => On
  BY <1>1 DEF PCs, CallsToMake
<1>4. /\ Forward("create_client", "idle") \/ Forward("create_client", "share_client") => On
      /\ Forward("share_client", "idle") \/ Forward("share_client", "create") => On
      /\ Forward("create", "unwind") \/ Forward("create", "share") => On
  BY <1>1 DEF PCs, CallsToMake
<1>5. /\ Forward("share", "pin") \/ Forward("share", "close")
           \/ Forward("share", "unwind") => On
      /\ Forward("pin", "close") \/ Forward("close", "idle")
           \/ Forward("unwind", "idle") => On
  BY <1>1 DEF PCs, CallsToMake
<1>6. On
  BY <1>2, <1>3, <1>4, <1>5
<1>7. QED
  BY <1>6 DEF On

(* It registers at most the one function it was about to register.         *)
LEMMA CallsRegister ==
  ASSUME TypeOK, NEW c \in Threads, ConstructorStep(c), target[c] \notin Statics
  PROVE  \/ atexit' = atexit
         \/ pc[c] = "register" /\ pc'[c] # "register" /\ Len(atexit') = Len(atexit) + 1
<1>1. /\ pc \in [Threads -> PCs] /\ atexit \in Seq(Statics \cup {ExitHandler})
  BY DEF TypeOK
<1>2. CASE RegisterUnixCrashHandlers(c) \/ SigactionFails(c)
  <2>1. /\ pc[c] = "register" /\ pc'[c] # "register"
        /\ atexit' = Append(atexit, ExitHandler)
    BY <1>1, <1>2 DEF RegisterUnixCrashHandlers, SigactionFails, Goto, Leave
  <2>2. QED
    BY <1>1, <2>1
<1>3. CASE ~(RegisterUnixCrashHandlers(c) \/ SigactionFails(c))
  <2>1. ASSUME NEW o, Return(c, o) PROVE atexit' = atexit
    BY <2>1 DEF Return
  <2>2. CASE GetShared(c) \/ GetSharedClient(c) \/ ShareClient(c) \/ CloseClient(c)
    BY <2>1, <2>2 DEF GetShared, GetSharedClient, ShareClient, CloseClient, Throw
  <2>3. CASE ~(GetShared(c) \/ GetSharedClient(c) \/ ShareClient(c) \/ CloseClient(c))
    BY <1>3, <2>3
       DEF ConstructorStep, AtexitFails, CreateClientFails, ShareClientFails,
           CreateChannelFails, Share, ShareFails, AddRefTelemetry, Unwind, CreateClient, CreateChannel, Throw, hooks
  <2>4. QED
    BY <2>2, <2>3
<1>4. QED
  BY <1>2, <1>3

(* A constructor of a handle that is not static, which does not go on to   *)
(* register ExitHandler, adds no work to what exit() has to do, and has    *)
(* less to do itself.                                                      *)
LEMMA CallWorks ==
  ASSUME TypeOK, CrashTypeOK, NEW c \in Threads, ConstructorCall(c),
         target[c] \notin Statics,
         ~(pc[c] = "get_client" /\ pc'[c] = "register")
  PROVE  Room' = Room /\ Pending' <= Pending /\ Fewer(Ahead', Ahead)
         /\ Pending \in Int /\ Pending' \in Int
<1> DEFINE R == {d \in Threads : pc[d] = "register"}
<1>1. /\ stage' = stage /\ level' = level
      /\ pc \in [Threads -> PCs] /\ stage \in [Threads -> Stages]
      /\ seen \in [Threads -> {"unread", "present", "missing"}]
      /\ atexit \in Seq(Statics \cup {ExitHandler})
  BY DEF TypeOK, CrashTypeOK, ConstructorCall, CheckBuffer, stack
<1>2. Room' = Room
  BY <1>1 DEF Room
<1>3. IsFiniteSet(R) /\ Cardinality(R) \in Nat
  <2>1. IsFiniteSet(R)
    BY FiniteAssumption, FS_Subset
  <2>2. QED
    BY <2>1, FS_CardinalityType
<1>4. Pending = Len(atexit) + Cardinality(R) /\ Len(atexit) \in Nat
  BY <1>1 DEF Pending
<1>5. StepsToExit[stage[c]] \in Int /\ CallsToMake[pc[c]] \in Int
  BY <1>1, WorkNumbers, SMTT(30)
<1>6. CASE CheckBuffer(c)
  <2>1. /\ pc[c] = "register" /\ seen[c] = "unread" /\ UNCHANGED <<pc, atexit>>
        /\ seen'[c] # "unread" /\ \A d \in Threads \ {c} : seen'[d] = seen[d]
    BY <1>1, <1>6 DEF CheckBuffer, vars
  <2>2. Left(stage'[c], pc'[c], seen'[c]) < Left(stage[c], pc[c], seen[c])
        /\ Left(stage'[c], pc'[c], seen'[c]) \in Int
    BY <1>1, <1>5, <2>1 DEF Left, Bit
  <2>3. Fewer(Ahead', Ahead)
    BY <1>1, <2>1, <2>2, OneContextWorks
  <2>4. Pending' = Pending
    BY <2>1 DEF Pending
  <2> HIDE DEF R
  <2>5. Pending \in Int
    BY <1>3, <1>4
  <2>6. QED
    BY <1>2, <2>3, <2>4, <2>5
<1>7. CASE ConstructorStep(c) /\ (pc[c] = "register" => seen[c] # "unread")
           /\ seen' = [seen EXCEPT ![c] = "unread"]
  <2>1. PICK l \in PCs : /\ pc' = [pc EXCEPT ![c] = l]
                         /\ CallsToMake[l] < CallsToMake[pc[c]]
                         /\ pc[c] = "register" => CallsToMake[l] < 7
                         /\ l = "register" => pc[c] = "get_client"
    BY <1>7, CallsForward
  <2>2. pc'[c] = l /\ seen'[c] = "unread"
        /\ \A d \in Threads \ {c} : pc'[d] = pc[d] /\ seen'[d] = seen[d]
    BY <1>1, <1>7, <2>1
  <2>3. CallsToMake[l] \in Int /\ (pc[c] = "register" => CallsToMake[pc[c]] = 8)
    BY WorkNumbers DEF CallsToMake
  <2>4. Left(stage'[c], pc'[c], seen'[c]) = 11 * StepsToExit[stage[c]] + CallsToMake[l]
    BY <1>1, <1>5, <2>2, <2>3 DEF Left, Bit
  <2>5. Left(stage[c], pc[c], seen[c]) \in Int
        /\ 11 * StepsToExit[stage[c]] + CallsToMake[l] < Left(stage[c], pc[c], seen[c])
    <3>1. CASE pc[c] = "register"
      BY <1>5, <1>7, <2>1, <2>3, <3>1 DEF Left, Bit
    <3>2. CASE pc[c] # "register"
      BY <1>5, <2>1, <2>3, <3>2 DEF Left, Bit
    <3>3. QED
      BY <3>1, <3>2
  <2>6. Fewer(Ahead', Ahead)
    <3>1. Left(stage'[c], pc'[c], seen'[c]) \in Int
      BY <1>5, <2>3, <2>4
    <3>2. QED
      BY <1>1, <2>2, <2>4, <2>5, <3>1, OneContextWorks
  <2>7. l # "register"
    BY <2>1, <2>2
  <2>8. {d \in Threads : pc'[d] = "register"} = R \ {c}
    BY <2>2, <2>7
  <2>9. Pending' = Len(atexit') + Cardinality(R \ {c})
    BY <2>8 DEF Pending
  <2>10. Cardinality(R \ {c}) = IF c \in R THEN Cardinality(R) - 1 ELSE Cardinality(R)
    <3> HIDE DEF R
    <3>1. CASE c \notin R
      <4>1. R \ {c} = R
        BY <3>1
      <4>2. QED
        BY <3>1, <4>1
    <3>2. CASE c \in R
      BY <1>3, <3>2, FS_RemoveElement
    <3>3. QED
      BY <3>1, <3>2
  <2>11. pc[c] = "register" <=> c \in R
    OBVIOUS
  <2> HIDE DEF R
  <2>12. Pending' <= Pending /\ Pending' \in Int /\ Pending \in Int
    <3>1. \/ atexit' = atexit
          \/ pc[c] = "register" /\ Len(atexit') = Len(atexit) + 1
      BY <1>7, CallsRegister
    <3>2. QED
      BY <1>3, <1>4, <2>9, <2>10, <2>11, <3>1
  <2>13. QED
    BY <1>2, <2>6, <2>12
<1>8. QED
  BY <1>6, <1>7 DEF ConstructorCall

(* ExitHandler's constructor keeps to its own Log.                         *)
LEMMA OwnLogNext ==
  ASSUME IndInv, CrashTypeOK, OwnLogInv, CrashNext
  PROVE  OwnLogInv'
<1> SUFFICES ASSUME NEW c \in Threads, stage'[c] = "construct", pc'[c] # "idle"
             PROVE  target'[c] = c
  BY DEF OwnLogInv
<1>1. /\ stage \in [Threads -> Stages] /\ pc \in [Threads -> PCs]
      /\ target \in [Threads -> Handles \cup {NULL}]
      /\ level \in [Tasks -> 0 .. MaxLevel]
      /\ stage[c] = "construct" /\ pc[c] # "idle" => target[c] = c
  BY DEF IndInv, TypeOK, CrashTypeOK, OwnLogInv
<1>2. CASE UNCHANGED <<stage, pc, target>>
  BY <1>1, <1>2
<1>3. ASSUME NEW d \in Threads, ConstructorCall(d) PROVE target'[c] = c
  <2>1. stage' = stage
    BY <1>3 DEF ConstructorCall, CheckBuffer, stack
  <2>2. CASE CheckBuffer(d)
    BY <1>1, <2>1, <2>2 DEF CheckBuffer, vars
  <2>3. CASE ConstructorStep(d)
    <3>1. PICK l \in PCs :
            /\ pc' = [pc EXCEPT ![d] = l] /\ CallsToMake[l] < CallsToMake[pc[d]]
            /\ target' = target \/ (l = "idle" /\ target' = [target EXCEPT ![d] = NULL])
      BY <2>3, CallsForward DEF IndInv
    <3>2. pc[d] # "idle"
      BY <2>3 DEF ConstructorStep, GetShared, GetSharedClient,
         RegisterUnixCrashHandlers, AtexitFails, SigactionFails, CreateClientFails,
         ShareClient, ShareClientFails, CreateChannelFails, Share, ShareFails,
         AddRefTelemetry, CloseClient, Unwind,
         CreateClient, CreateChannel
    <3>3. QED
      BY <1>1, <2>1, <3>1, <3>2
  <2>4. QED
    BY <1>3, <2>2, <2>3 DEF ConstructorCall
<1>4. ASSUME NEW d \in Threads, NEW s, Stage(d, s), s # "construct",
             UNCHANGED <<pc, target>>
      PROVE  target'[c] = c
  BY <1>1, <1>4 DEF Stage
<1>5. ASSUME NEW t \in Tasks, NEW s, NEW held, Enter(t, s, held)
      PROVE  target'[c] = c
  BY <1>1, <1>5 DEF Enter, vars
<1>6. ASSUME NEW d \in Threads, ReadBacktrace(d) PROVE target'[c] = c
  <2>1. Construct(d, d, Main) /\ stage' = [stage EXCEPT ![d] = "construct"]
    BY <1>6 DEF ReadBacktrace, Stage
  <2>2. CASE c = d
    BY <1>1, <2>1, <2>2 DEF Construct
  <2>3. CASE c # d
    BY <1>1, <2>1, <2>3 DEF Construct
  <2>4. QED
    BY <2>2, <2>3
<1>7. ASSUME NEW t \in Tasks, ProgramCall(t) PROVE target'[c] = c
  <2>1. stage' = stage /\ stage[<<t, 0>>] = "program"
    BY <1>7 DEF ProgramCall, stack, At
  <2>2. ASSUME NEW h, NEW n, Construct(<<t, 0>>, h, n) PROVE target'[c] = c
    BY <1>1, <2>1, <2>2 DEF Construct
  <2>3. ASSUME NEW h, NEW g, DefaultConstruct(h) \/ Destroy(h) \/ Swap(g, h)
        PROVE  target'[c] = c
    BY <1>1, <2>1, <2>3 DEF DefaultConstruct, Destroy, Swap, frame
  <2>4. QED
    BY <1>7, <2>2, <2>3 DEF ProgramCall
<1>8. ASSUME NEW d \in Threads, SaveSig(d) \/ SaveInfo(d) \/ SaveDump(d)
      PROVE  target'[c] = c
  BY <1>4, <1>8 DEF SaveSig, SaveInfo, SaveDump, vars
<1>9. ASSUME NEW d \in Threads, LogReport(d) \/ Flush(d)
      PROVE  target'[c] = c
  BY <1>4, <1>9 DEF LogReport, Flush, vars
<1>10. ASSUME NEW d \in Threads, DestroyStatic(d) \/ CloseLog(d) \/ NextExitFunction(d)
       PROVE  target'[c] = c
  <2>1. UNCHANGED <<pc, target>>
    BY <1>10 DEF DestroyStatic, CloseLog, NextExitFunction, Destroy, frame
  <2>2. Stage(d, "exit") \/ Stage(d, "read") \/ Stage(d, "destroy")
    BY <1>10 DEF DestroyStatic, CloseLog, NextExitFunction
  <2>3. QED
    BY <1>4, <2>1, <2>2
<1>11. ASSUME NEW d \in Threads, ProcessEnds(d) \/ Terminate(d) \/ ExitLogConstructor(d)
       PROVE  target'[c] = c
  <2>1. d[1] \in Tasks
    BY Contexts
  <2>2. QED
    BY <1>2, <1>3, <1>5, <1>11, <2>1
       DEF ProcessEnds, Terminate, ExitLogConstructor, vars, stack
<1>12. ASSUME NEW t \in Tasks, ProgramConstructor(t) \/ Exit(t)
       PROVE  target'[c] = c
  <2>1. <<t, 0>> \in Threads
    BY Contexts
  <2>2. QED
    BY <1>3, <1>4, <1>12, <2>1 DEF ProgramConstructor, Exit, vars
<1>13. ASSUME NEW t \in Tasks, NEW s \in Signals, Signal(t, s) \/ SignalKills(t, s)
       PROVE  target'[c] = c
  BY <1>2, <1>5, <1>13 DEF Signal, SignalKills, vars, stack
<1>14. Ends \subseteq Tasks
  BY Contexts
<1>15. QED
  BY <1>6, <1>7, <1>8, <1>9, <1>10, <1>11, <1>12, <1>13, <1>14 DEF CrashNext, ExitStep

(* Without its last function the table of exit() is one shorter.           *)
LEMMA OneLess ==
  ASSUME NEW S, NEW s \in Seq(S), s # <<>>
  PROVE  Len(SubSeq(s, 1, Len(s) - 1)) = Len(s) - 1 /\ Len(s) \in Nat
<1>1. Len(s) \in Nat \ {0}
  BY EmptySeq
<1>2. \A i \in 1 .. Len(s) - 1 : s[i] \in S
  BY <1>1, ElementOfSeq
<1> DEFINE n == Len(s) - 1
           k == Len(SubSeq(s, 1, n))
<1>3. 1 \in Int /\ n \in Int /\ \A i \in 1 .. n : s[i] \in S
  BY <1>1, <1>2
<1> HIDE DEF n
<1>4. k = IF 1 <= n THEN n - 1 + 1 ELSE 0
  BY <1>3, SubSeqProperties
<1>5. n \in Nat
  BY <1>1 DEF n
<1> HIDE DEF k
<1>6. k = n
  BY <1>4, <1>5
<1>7. QED
  BY <1>1, <1>6 DEF k, n

(* What ExitUsesUpWork says of a step.                                     *)
UsesUpWork ==
  \/ process' # "alive"
  \/ Fewer(Room', Room)
  \/ Room' = Room /\ Pending' < Pending
  \/ Room' = Room /\ Pending' = Pending /\ Fewer(Ahead', Ahead)

(* A step of the handler, of exit() or of ExitHandler's constructor leaves *)
(* less to do, or less room.                                               *)
LEMMA ExitStepWorks ==
  ASSUME CrashInv, OwnLogInv, AnchorInv, PinnedInv, CrashNext, Kept,
         NEW c \in Threads, ExitStep(c)
  PROVE  UsesUpWork
<1>1. TypeOK /\ CrashTypeOK
  BY DEF CrashInv, IndInv
<1>2. ASSUME NEW s \in Stages, Stage(c, s), StepsToExit[s] < StepsToExit[stage[c]],
             UNCHANGED <<level, atexit, pc, seen>>
      PROVE  UsesUpWork
  BY <1>1, <1>2, StageWorks DEF UsesUpWork
<1>3. CASE SaveSig(c) \/ SaveInfo(c) \/ SaveDump(c)
  BY <1>2, <1>3 DEF SaveSig, SaveInfo, SaveDump, At, Stages, StepsToExit, vars
<1>4. CASE LogReport(c) \/ Flush(c)
  BY <1>2, <1>4 DEF LogReport, Flush, At, Stages, StepsToExit, vars, record
<1>5. CASE DestroyStatic(c) \/ CloseLog(c)
  BY <1>2, <1>5
     DEF DestroyStatic, CloseLog, Destroy, At, Stages, StepsToExit, frame, hooks, record
<1>6. CASE ProcessEnds(c)
  BY <1>6 DEF ProcessEnds, UsesUpWork
<1>7. CASE NextExitFunction(c)
  <2> DEFINE R == {d \in Threads : pc[d] = "register"}
  <2>1. /\ atexit \in Seq(Statics \cup {ExitHandler}) /\ atexit # <<>>
        /\ atexit' = SubSeq(atexit, 1, Len(atexit) - 1)
        /\ UNCHANGED <<pc, level>>
    BY <1>1, <1>7 DEF NextExitFunction, TypeOK, frame
  <2>2. Len(atexit') = Len(atexit) - 1 /\ Len(atexit) \in Nat
    BY <2>1, OneLess
  <2>3. IsFiniteSet(R)
    BY FiniteAssumption, FS_Subset
  <2>4. Cardinality(R) \in Nat
    BY <2>3, FS_CardinalityType
  <2>5. Pending = Len(atexit) + Cardinality(R) /\ Pending' = Len(atexit') + Cardinality(R)
    BY <2>1 DEF Pending
  <2>6. Room' = Room
    BY <2>1 DEF Room
  <2> HIDE DEF R
  <2>7. Pending' < Pending
    BY <2>2, <2>4, <2>5
  <2>8. QED
    BY <2>6, <2>7 DEF UsesUpWork
<1>8. CASE ReadBacktrace(c)
  <2>1. HandleKind[c] = "trace"
    BY CrashAssumption
  <2>2. /\ stage[c] = "read" /\ pc[c] = "idle"
        /\ stage' = [stage EXCEPT ![c] = "construct"]
        /\ pc' = [pc EXCEPT ![c] = "get"]
        /\ UNCHANGED <<level, atexit, seen>>
    BY <1>8, <2>1 DEF ReadBacktrace, Construct, Idle, At, Stage, hooks, record
  <2>3. /\ stage'[c] = "construct" /\ pc'[c] = "get" /\ seen'[c] = seen[c]
        /\ \A d \in Threads \ {c} : /\ stage'[d] = stage[d] /\ pc'[d] = pc[d]
                                    /\ seen'[d] = seen[d]
    BY <1>1, <2>2 DEF TypeOK, CrashTypeOK
  <2>4. Left("construct", "get", seen[c]) = 43 /\ Left("read", "idle", seen[c]) = 44
    BY DEF Left, StepsToExit, CallsToMake, Bit
  <2>5. Fewer(Ahead', Ahead)
    BY <1>1, <2>2, <2>3, <2>4, OneContextWorks
  <2>6. {d \in Threads : pc'[d] = "register"} = {d \in Threads : pc[d] = "register"}
    BY <2>2, <2>3
  <2>7. Pending' = Pending /\ Room' = Room
    BY <2>2, <2>6 DEF Pending, Room
  <2>8. QED
    BY <2>5, <2>7 DEF UsesUpWork
<1>9. CASE ExitLogConstructor(c)
  <2>1. stage[c] = "construct" /\ ConstructorCall(c)
    BY <1>9 DEF ExitLogConstructor, At
  <2>2. pc[c] # "idle"
    BY <2>1 DEF ConstructorCall, CheckBuffer, ConstructorStep, GetShared,
       GetSharedClient, RegisterUnixCrashHandlers, AtexitFails, SigactionFails,
       CreateClientFails, ShareClient, ShareClientFails, CreateChannelFails, Share,
       ShareFails, AddRefTelemetry,
       CloseClient, Unwind, CreateClient, CreateChannel
  <2>3. target[c] = c /\ c \notin Statics /\ Kind(c) = "trace"
    BY <2>1, <2>2, Contexts, CrashAssumption DEF OwnLogInv, Kind
  <2>4. ~(pc[c] = "get_client" /\ pc'[c] = "register")
    <3>1. shared[MainKey] # NULL
      BY KeptHasName DEF CrashInv
    <3>2. ClientKey(c) = MainKey
      BY <2>3 DEF ClientKey, MainKey
    <3>3. pc[c] = "get_client" /\ pc'[c] = "register" => shared[ClientKey(c)] = NULL
      BY CrashMaps
    <3>4. QED
      BY <3>1, <3>2, <3>3
  <2>5. Room' = Room /\ Pending' <= Pending /\ Fewer(Ahead', Ahead)
        /\ Pending \in Int /\ Pending' \in Int
    BY <1>1, <2>1, <2>3, <2>4, CallWorks
  <2>6. QED
    BY <2>5 DEF UsesUpWork
<1>10. CASE Terminate(c)
  <2>1. CASE Enter(c[1], Abort, {})
    <3>1. /\ c[1] \in Tasks /\ level \in [Tasks -> 0 .. MaxLevel]
          /\ level' = [level EXCEPT ![c[1]] = @ + 1] /\ MaxLevel \in Nat
      BY <1>1, <2>1, Contexts, CrashAssumption DEF CrashTypeOK, Enter
    <3>2. \A t \in Tasks : Room'[t] <= Room[t]
      BY <3>1 DEF Room
    <3>3. Room'[c[1]] # Room[c[1]]
      BY <3>1 DEF Room
    <3>4. DOMAIN Room = Tasks
      BY DEF Room
    <3>5. Room' # Room
      BY <3>3
    <3>6. \A t \in DOMAIN Room : Room'[t] <= Room[t]
      BY <3>2, <3>4
    <3>7. Fewer(Room', Room)
      BY <3>5, <3>6 DEF Fewer
    <3>8. QED
      BY <3>7 DEF UsesUpWork
  <2>2. CASE process' = "killed"
    BY <2>2 DEF UsesUpWork
  <2>3. QED
    BY <1>10, <2>1, <2>2 DEF Terminate
<1>11. QED
  BY <1>3, <1>4, <1>5, <1>6, <1>7, <1>8, <1>9, <1>10 DEF ExitStep

(* While the client "main" is kept, every step of a handler and of exit(), *)
(* in any thread, uses up some of what exit() has to do before it ends.    *)
THEOREM ExitWorks == CrashSpec => ExitUsesUpWork
<1>1. CrashInit => OwnLogInv
  BY DEF CrashInit, Init, OwnLogInv
<1>2. CrashInv /\ OwnLogInv /\ [CrashNext]_cvars => OwnLogInv'
  <2>1. CrashInv /\ OwnLogInv /\ CrashNext => OwnLogInv'
    BY OwnLogNext DEF CrashInv
  <2>2. OwnLogInv /\ UNCHANGED cvars => OwnLogInv'
    BY DEF OwnLogInv, cvars, vars
  <2>3. QED
    BY <2>1, <2>2
<1>3. CrashInv /\ OwnLogInv /\ AnchorInv /\ PinnedInv /\ [CrashNext]_cvars =>
        [Kept /\ (\E c \in Threads : ExitStep(c)) => UsesUpWork]_cvars
  BY ExitStepWorks
<1>4. [Kept /\ (\E c \in Threads : ExitStep(c)) => UsesUpWork]_cvars <=>
      [Kept /\ (\E c \in Threads : ExitStep(c)) =>
       \/ process' # "alive"
       \/ Fewer(Room', Room)
       \/ Room' = Room /\ Pending' < Pending
       \/ Room' = Room /\ Pending' = Pending /\ Fewer(Ahead', Ahead)]_cvars
  BY DEF UsesUpWork
<1>5. QED
  BY <1>1, <1>2, <1>3, <1>4, CrashInvariant, CrashAnchor, PTL
     DEF CrashSpec, ExitUsesUpWork

-----------------------------------------------------------------------------
(* The report of the one thread that left its program is of one signal.    *)
THEOREM ReportsNeverMix == CrashSpec => []ReportsAgree
<1>1. CrashInv => ReportsAgree
  BY DEF CrashInv, RecordInv
<1>2. QED
  BY <1>1, CrashInvariant, PTL

(* The signal that struck alone, in a process nobody had left, has been    *)
(* reported and flushed when the process exits, however many threads go on *)
(* creating and destroying handles beside it.                              *)
THEOREM LoneCrashReported == CrashSpec => []CrashReported
<1>1. CrashInv => CrashReported
  BY DEF CrashInv, LoneInv
<1>2. QED
  BY <1>1, CrashInvariant, PTL

(* With one thread no running constructor finds its name taken when it     *)
(* shares what it made, not even that of ExitHandler, which runs over      *)
(* constructors that a signal stopped half-way, and whatever has failed    *)
(* before, Share() included.                                               *)
THEOREM OneThreadSharesFirst ==
  ASSUME NEW t, Tasks = {t}
  PROVE  CrashSpec => []FreeUntilShared
<1>1. CrashInit => OneInv(t)
  <2> SUFFICES ASSUME CrashInit PROVE OneInv(t)
    OBVIOUS
  <2>1. Top(t) \in Threads /\ \A c \in Threads : pc[c] = "idle"
    BY Contexts DEF CrashInit, Init, Top
  <2>2. QED
    BY <2>1, Contexts DEF OneInv, CrashInit, Init
<1>2. CrashInv /\ OneInv(t) /\ [CrashNext]_cvars => OneInv(t)'
  <2> SUFFICES ASSUME CrashInv, OneInv(t), UNCHANGED cvars PROVE OneInv(t)'
    BY OneNext
  <2>1. QED
    BY DEF OneInv, cvars, vars, Top, Key, ClientKey, Kind
<1>3. CrashInv /\ OneInv(t) => FreeUntilShared
  <2> SUFFICES ASSUME CrashInv, OneInv(t), NEW c \in Threads, Runs(c)
               PROVE  /\ pc[c] = "share_client" => shared[ClientKey(c)] = NULL
                      /\ pc[c] = "share" => shared[Key(c)] = NULL
    BY DEF FreeUntilShared
  <2>1. c = Top(t)
    BY RunsOnTop
  <2>2. pc[c] = "share" => Kind(c) # "client"
    BY DEF CrashInv, IndInv, FrameInv
  <2>3. QED
    BY <2>1, <2>2 DEF OneInv
<1>4. QED
  BY <1>1, <1>2, <1>3, CrashInvariant, PTL DEF CrashSpec
=============================================================================
