----------------------------- MODULE CrashExit -----------------------------
(***************************************************************************)
(* Crash reports: the signal handlers of Client.cpp record the signal and  *)
(* call std::exit(), whose loop runs ExitHandler, which logs the record to *)
(* the trace "main" and flushes.                                           *)
(*                                                                         *)
(* The process has several threads, its Tasks.  A signal may arrive in any *)
(* of them between any two of its steps, in a constructor, in a handler or *)
(* in ExitHandler itself; since no handler returns, what it interrupts is  *)
(* never resumed.  The Threads of HandleLifecycle are the contexts stacked *)
(* on each task: <<t, 0>> is the program, <<t, n + 1>> the handler that    *)
(* interrupted <<t, n>>, and only the top one, level[t], runs.             *)
(*                                                                         *)
(* External: the kernel keeps a signal blocked in a thread while that runs *)
(* its handler, and kills a process that faults on a blocked or unhandled  *)
(* signal.  exit() takes a function off its table, last registered first,  *)
(* before it calls it; it runs those registered meanwhile, and a nested or *)
(* concurrent exit() goes on with what is left.  The allocator and P7 on   *)
(* the one hand, exit() on the other have locks, which a context that a    *)
(* signal interrupts may hold.  Lines for a destroyed trace object are     *)
(* lost.                                                                   *)
(***************************************************************************)
EXTENDS HandleLifecycle

CONSTANTS
  Tasks,       \* the threads of the process
  MaxLevel,    \* handlers there is room for on the stack of a task
  MaxSignals,  \* signals that arrive in all
  Order,       \* the signals in play, in the order of the sigaction() calls
  Faults,      \* those a thread raises itself, as SIGSEGV
  Abort,       \* SIGABRT
  Uses,        \* the handles the program of each task works with
  Ends,        \* the tasks whose program may call exit(), or return from main()
  Garbage      \* the backtrace read from a buffer nothing was dumped to

Signals == {Order[i] : i \in DOMAIN Order}
Locks   == {"heap", "exit"}
Dumps   == Signals \cup {Garbage, NULL}

(* ExitHandler's local Log of context c is the handle c.                   *)
ASSUME CrashAssumption ==
  /\ MaxLevel \in Nat /\ MaxSignals \in Nat
  /\ Threads = Tasks \X (0 .. MaxLevel)
  /\ Threads \subseteq Handles \ Statics
  /\ \A c \in Threads : HandleKind[c] = "trace"
  /\ Uses \in [Tasks -> SUBSET (Handles \ Threads)]
  /\ \A t, u \in Tasks : t # u => Uses[t] \cap Uses[u] = {}
  /\ Ends \subseteq Tasks
  /\ Order \in Seq(Signals)
  /\ Abort \in Signals /\ Faults \subseteq Signals /\ NULL \notin Signals
  /\ Garbage \notin Signals /\ Garbage # NULL

VARIABLES
  level,    \* the context of each task that runs
  stage,    \* how far each context has come
  signal,   \* the argument of each context's handler
  running,  \* the function exit() is running in each context
  handled,  \* the signals whose handler is installed
  data,     \* atexit_data: whose sig, siginfo and backtrace it holds
  buffer,   \* whether atexit_data.backtrace_data has been allocated
  seen,     \* what each registration found there: "unread" until it looks
  stuck,    \* the locks that an interrupted context holds for ever
  trace,    \* ExitHandler's local backtrace in each context
  log,      \* the reports logged and not flushed, with their trace object
  sent,     \* the reports flushed
  process,  \* "alive", "exited" or "killed"
  replaced  \* history: the buffer was assigned a second time or after a crash

stack   == <<level, stage, signal, running, stuck>>
record  == <<handled, data, buffer, seen, replaced>>
reports == <<trace, log, sent>>
cvars   == <<vars, level, stage, signal, running, stuck, handled, data,
             buffer, seen, replaced, trace, log, sent, process>>

Stages == {"unused", "program", "save_sig", "save_info", "save_dump", "exit",
           "destroy", "read", "construct", "flush", "close"}
Report == [sig: Signals, info: Signals \cup {NULL}, trace: Dumps]

CrashTypeOK ==
  /\ level \in [Tasks -> 0 .. MaxLevel]
  /\ stage \in [Threads -> Stages]
  /\ signal \in [Threads -> Signals \cup {NULL}]
  /\ running \in [Threads -> Statics \cup {ExitHandler, NULL}]
  /\ stuck \subseteq Locks
  /\ handled \subseteq Signals
  /\ data \in [sig: Signals \cup {NULL}, info: Signals \cup {NULL},
               dump: Dumps]
  /\ buffer \in BOOLEAN /\ replaced \in BOOLEAN
  /\ seen \in [Threads -> {"unread", "present", "missing"}]
  /\ trace \in [Threads -> Dumps]
  /\ log \subseteq [to: Objs, report: Report]
  /\ sent \subseteq Report
  /\ process \in {"alive", "exited", "killed"}

CrashInit ==
  /\ Init
  /\ level = [t \in Tasks |-> 0]
  /\ stage = [c \in Threads |-> IF c[2] = 0 THEN "program" ELSE "unused"]
  /\ signal = [c \in Threads |-> NULL]
  /\ running = [c \in Threads |-> NULL]
  /\ stuck = {} /\ handled = {}
  /\ data = [sig |-> NULL, info |-> NULL, dump |-> NULL]
  /\ buffer = FALSE /\ replaced = FALSE
  /\ seen = [c \in Threads |-> "unread"]
  /\ trace = [c \in Threads |-> NULL]
  /\ log = {} /\ sent = {}
  /\ process = "alive"

-----------------------------------------------------------------------------
Runs(c)     == process = "alive" /\ c[2] = level[c[1]]
At(c, s)    == Runs(c) /\ stage[c] = s
Stage(c, s) == stage' = [stage EXCEPT ![c] = s]
Free(lock)  == lock \notin stuck

(* A step of the handles; the lines of an object it destroys are lost.     *)
Lose == log' = {l \in log : refs'[l.to] > 0}

Exiting == \E c \in Threads : running[c] # NULL \/ stage[c] = "exit"

(* sigaction() is called for one signal after the other: when one call     *)
(* fails, or a signal stops the constructor, a part of them is installed.  *)
Prefixes == {{Order[i] : i \in 1 .. n} : n \in 0 .. Len(Order) - 1}

Installed(c) ==
  IF pc[c] # "register" \/ atexit' = atexit THEN {handled}
  ELSE IF pc'[c] = "create_client" THEN {Signals}
  ELSE {handled \cup p : p \in Prefixes}

(* if (atexit_data.backtrace_data == nullptr)                              *)
CheckBuffer(c) ==
  /\ pc[c] = "register" /\ seen[c] = "unread"
  /\ seen' = [seen EXCEPT ![c] = IF buffer THEN "present" ELSE "missing"]
  /\ UNCHANGED <<vars, stack, handled, data, buffer, replaced, reports, process>>

(* What the check of backtrace_data decided: a buffer is allocated, or the *)
(* allocation fails.  backtrace_depth stays as it is, so when there was a  *)
(* dump it now stands for whatever the new memory holds.                   *)
Allocate(c) ==
  IF seen[c] # "missing" THEN UNCHANGED <<buffer, data, replaced>>
  ELSE /\ buffer' \in IF Failures THEN BOOLEAN ELSE {TRUE}
       /\ data' = [data EXCEPT !.dump = IF @ = NULL THEN NULL ELSE Garbage]
       /\ replaced' = (replaced \/ buffer \/ data.sig # NULL)

(* libc locks the exit table for std::atexit() and for the destructor that *)
(* a static object registers when its constructor is done.                 *)
Registers(c) ==
  \/ pc[c] = "register"
  \/ target[c] \in Statics /\ handle' # handle

ConstructorCall(c) ==
  /\ Free("heap")
  /\ \/ CheckBuffer(c)
     \/ /\ pc[c] = "register" => seen[c] # "unread"
        /\ ConstructorStep(c)
        /\ Registers(c) => Free("exit")
        /\ Lose
        /\ handled' \in Installed(c)
        /\ Allocate(c)
        /\ seen' = [seen EXCEPT ![c] = "unread"]
        /\ UNCHANGED <<stack, trace, sent, process>>

-----------------------------------------------------------------------------
(* The program of a task, until it calls exit() or a signal takes over.    *)

ProgramConstructor(t) == At(<<t, 0>>, "program") /\ ConstructorCall(<<t, 0>>)

ProgramCall(t) ==
  /\ At(<<t, 0>>, "program") /\ Idle(<<t, 0>>)
  /\ Free("heap")
  /\ \/ \E h \in Uses[t], n \in Names :
          (h \in Statics => ~Exiting) /\ Construct(<<t, 0>>, h, n)
     \/ \E h \in Uses[t] : DefaultConstruct(h)
     \/ \E h \in Uses[t] \ Statics : Destroy(h)
     \/ \E g, h \in Uses[t] : Swap(g, h)
  /\ Lose
  /\ UNCHANGED <<stack, record, trace, sent, process>>

Exit(t) ==
  /\ At(<<t, 0>>, "program") /\ Idle(<<t, 0>>)
  /\ Stage(<<t, 0>>, "exit")
  /\ UNCHANGED <<vars, level, signal, running, stuck, record, reports, process>>

-----------------------------------------------------------------------------
(* Signals and their handlers.                                             *)

Top(t)        == <<t, level[t]>>
Blocked(t, s) == \E n \in 0 .. level[t] : signal[<<t, n>>] = s

(* The locks of which a context may be holding one when it is interrupted: *)
(* that of exit() also inside std::atexit(), and at the end of a           *)
(* constructor that registers a static object.                             *)
LocksAt(c) ==
  CASE stage[c] \in {"save_sig", "save_info", "save_dump"} -> {}
    [] stage[c] = "exit" -> {"exit"}
    [] pc[c] = "register" -> {"heap", "exit"}
    [] target[c] \in Statics /\ pc[c] \in {"get", "get_client", "share_client",
                                           "close"} -> {"heap", "exit"}
    [] OTHER -> {"heap"}

Enter(t, s, held) ==
  /\ process = "alive" /\ level[t] < MaxLevel
  /\ level' = [level EXCEPT ![t] = @ + 1]
  /\ stage' = [stage EXCEPT ![<<t, level[t] + 1>>] = "save_sig"]
  /\ signal' = [signal EXCEPT ![<<t, level[t] + 1>>] = s]
  /\ stuck' = stuck \cup held
  /\ UNCHANGED <<vars, running, record, reports, process>>

Struck == {c \in Threads : signal[c] # NULL}

Signal(t, s) ==
  /\ s \in handled /\ ~Blocked(t, s)
  /\ Cardinality(Struck) < MaxSignals
  /\ \/ Enter(t, s, {})
     \/ \E lock \in LocksAt(Top(t)) : Enter(t, s, {lock})

(* The default action, or a fault inside the handler of the same fault.    *)
SignalKills(t, s) ==
  /\ process = "alive"
  /\ s \notin handled \/ (s \in Faults /\ Blocked(t, s))
  /\ process' = "killed"
  /\ UNCHANGED <<vars, stack, record, reports>>

Save(c, field) == data' = [data EXCEPT ![field] = signal[c]]

SaveSig(c) ==
  /\ At(c, "save_sig")
  /\ Save(c, "sig")
  /\ Stage(c, "save_info")
  /\ UNCHANGED <<vars, level, signal, running, stuck, handled, buffer, seen,
                 replaced, reports, process>>

(* Mutant: the handler does not copy *siginfo.                             *)
SiginfoNotCopied(c) ==
  /\ At(c, "save_info")
  /\ Stage(c, "save_dump")
  /\ UNCHANGED <<vars, level, signal, running, stuck, record, reports, process>>

SaveInfo(c) ==
  /\ At(c, "save_info")
  /\ Save(c, "info")
  /\ Stage(c, "save_dump")
  /\ UNCHANGED <<vars, level, signal, running, stuck, handled, buffer, seen,
                 replaced, reports, process>>

(* Mutant: the backtrace is only taken when there is none yet.             *)
SaveFirstDump(c) ==
  /\ At(c, "save_dump")
  /\ IF buffer /\ data.dump = NULL THEN Save(c, "dump") ELSE UNCHANGED data
  /\ Stage(c, "exit")
  /\ UNCHANGED <<vars, level, signal, running, stuck, handled, buffer, seen,
                 replaced, reports, process>>

(* safe_dump_to(), then std::exit()                                        *)
SaveDump(c) ==
  /\ At(c, "save_dump")
  /\ IF buffer THEN Save(c, "dump") ELSE UNCHANGED data
  /\ Stage(c, "exit")
  /\ UNCHANGED <<vars, level, signal, running, stuck, handled, buffer, seen,
                 replaced, reports, process>>

-----------------------------------------------------------------------------
(* exit() and ExitHandler.                                                 *)

ProcessEnds(c) ==
  /\ At(c, "exit") /\ Free("exit")
  /\ atexit = <<>>
  /\ process' = "exited"
  /\ UNCHANGED <<vars, stack, record, reports>>

NextExitFunction(c) ==
  LET f == atexit[Len(atexit)] IN
  /\ At(c, "exit") /\ Free("exit")
  /\ atexit # <<>>
  /\ atexit' = SubSeq(atexit, 1, Len(atexit) - 1)
  /\ running' = [running EXCEPT ![c] = f]
  /\ Stage(c, IF f = ExitHandler THEN "read" ELSE "destroy")
  /\ UNCHANGED <<p7, handle, frame, armed, ghost, level, signal, stuck, record,
                 reports, process>>

DestroyStatic(c) ==
  /\ At(c, "destroy") /\ Free("heap")
  /\ Destroy(running[c])
  /\ Lose
  /\ Stage(c, "exit")
  /\ UNCHANGED <<level, signal, running, stuck, record, trace, sent, process>>

(* What can be read from the buffer: uninitialised memory may also begin   *)
(* with no frame at all.                                                   *)
Readable ==
  IF ~buffer THEN {NULL}
  ELSE IF data.dump = Garbage THEN {Garbage, NULL} ELSE {data.dump}

(* std::string backtrace = ...; Log log = Log("main");                     *)
ReadBacktrace(c) ==
  /\ At(c, "read") /\ Free("heap")
  /\ \E b \in Readable : trace' = [trace EXCEPT ![c] = b]
  /\ Construct(c, c, Main)
  /\ Stage(c, "construct")
  /\ UNCHANGED <<level, signal, running, stuck, record, log, sent, process>>

ExitLogConstructor(c) == At(c, "construct") /\ ConstructorCall(c)

(* An exception that leaves an exit function ends in std::terminate() and  *)
(* abort(), which unblocks SIGABRT and raises it.  A signal that finds no  *)
(* room on the stack for one more handler kills the process.               *)
Terminate(c) ==
  /\ At(c, "construct")
  /\ Idle(c) /\ handle[c] = Unbuilt
  /\ IF Abort \in handled /\ level[c[1]] < MaxLevel
     THEN Enter(c[1], Abort, {})
     ELSE /\ process' = "killed"
          /\ UNCHANGED <<vars, stack, record, reports>>

(* Mutant: the report is written whether or not there was a signal.        *)
LogAlways(c) ==
  /\ At(c, "construct") /\ Free("heap")
  /\ handle[c] # Unbuilt
  /\ log' = log \cup {[to |-> handle[c],
                       report |-> [sig |-> data.sig, info |-> data.info,
                                   trace |-> trace[c]]]}
  /\ Stage(c, "flush")
  /\ UNCHANGED <<vars, level, signal, running, stuck, record, trace, sent,
                 process>>

(* The switch over atexit_data.sig; no signal, no report.                  *)
LogReport(c) ==
  /\ At(c, "construct") /\ Free("heap")
  /\ handle[c] # Unbuilt
  /\ log' = IF data.sig = NULL THEN log
            ELSE log \cup {[to |-> handle[c],
                            report |-> [sig |-> data.sig, info |-> data.info,
                                        trace |-> trace[c]]]}
  /\ Stage(c, "flush")
  /\ UNCHANGED <<vars, level, signal, running, stuck, record, trace, sent,
                 process>>

(* Mutant: ExitHandler returns without P7_Flush().                          *)
NoFlush(c) ==
  /\ At(c, "flush") /\ Free("heap")
  /\ Stage(c, "close")
  /\ UNCHANGED <<vars, level, signal, running, stuck, record, reports, process>>

Flush(c) ==
  /\ At(c, "flush") /\ Free("heap")
  /\ sent' = sent \cup {l.report : l \in log}
  /\ log' = {}
  /\ Stage(c, "close")
  /\ UNCHANGED <<vars, level, signal, running, stuck, record, trace, process>>

CloseLog(c) ==
  /\ At(c, "close") /\ Free("heap")
  /\ Destroy(c)
  /\ Lose
  /\ Stage(c, "exit")
  /\ UNCHANGED <<level, signal, running, stuck, record, trace, sent, process>>

-----------------------------------------------------------------------------
(* What the thread does by itself once a handler or exit() has taken over. *)
ExitStep(c) ==
  \/ SaveSig(c) \/ SaveInfo(c) \/ SaveDump(c)
  \/ ProcessEnds(c) \/ NextExitFunction(c) \/ DestroyStatic(c)
  \/ ReadBacktrace(c) \/ ExitLogConstructor(c) \/ Terminate(c)
  \/ LogReport(c) \/ Flush(c) \/ CloseLog(c)

CrashNext ==
  \/ \E t \in Tasks : ProgramConstructor(t) \/ ProgramCall(t)
  \/ \E t \in Ends : Exit(t)
  \/ \E t \in Tasks, s \in Signals : Signal(t, s) \/ SignalKills(t, s)
  \/ \E c \in Threads : ExitStep(c)

CrashSpec == CrashInit /\ [][CrashNext]_cvars

(* The scheduler runs a thread that can; the program and signals owe       *)
(* nothing.                                                                *)
FairCrashSpec == CrashSpec /\ WF_cvars(\E c \in Threads : ExitStep(c))

-----------------------------------------------------------------------------
(* Properties.                                                             *)

(* At most one thread has left its program.                                *)
Solo == \A t, u \in Tasks :
          stage[Top(t)] # "program" /\ stage[Top(u)] # "program" => t = u

(* A report never mixes two signals, wherever the second one struck its    *)
(* thread and whatever clients other threads create meanwhile: the         *)
(* handlers fill atexit_data field by field, but none returns, so whoever  *)
(* reads it has filled it completely.  Only a buffer assigned over one     *)
(* already dumped to (two constructors that both found none) makes the     *)
(* backtrace garbage, and never that of another signal.                    *)
ReportsAgree ==
  Solo => \A r \in sent \cup {l.report : l \in log} :
            /\ r.info = r.sig
            /\ r.trace \in {r.sig, NULL} \/ (r.trace = Garbage /\ replaced)

(* Log.cpp:55 "enable log support for crashes": when the only signal       *)
(* arrived and no thread has called exit() before, it has been reported    *)
(* and flushed when the process exits, whatever a second thread did; with  *)
(* its backtrace if there was memory for one and that was left in place.   *)
CrashReported ==
  \A c \in Struck :
    /\ process = "exited"
    /\ Struck = {c} /\ \A t \in Tasks : stage[<<t, 0>>] = "program"
    => \E r \in sent :
         /\ r.sig = signal[c] /\ r.info = signal[c]
         /\ ~replaced => r.trace = IF buffer THEN signal[c] ELSE NULL

(* In one thread no running constructor finds its name taken when it comes *)
(* to share what it made, not even ExitHandler's, which may run over one   *)
(* that a signal stopped between create and share: only a Share() that     *)
(* fails on its own account loses an object there.                         *)
FreeUntilShared ==
  \A c \in Threads : Runs(c) =>
    /\ pc[c] = "share_client" => shared[ClientKey(c)] = NULL
    /\ pc[c] = "share" => shared[Key(c)] = NULL

(* The client "main" is held by a handle exit() will not destroy.          *)
Kept ==
  \/ pinned # {}
  \/ \E h \in Handles \ (Threads \cup Statics) : handle[h] \in Objs /\
       (HandleKind[h] # "client" \/ shared[<<"client", Main>>] = handle[h])

(* While the client "main" is kept, whatever signals arrive, whatever they *)
(* interrupt and whichever threads call exit(), one exit() comes to its    *)
(* end, unless a handler that calls it struck the holder of a lock.        *)
ExitTerminates ==
  (Exiting /\ Kept) ~> (process # "alive" \/ ~Kept \/ stuck # {})

(* Why that is so: whoever kept the client, and whatever became of the     *)
(* constructor that made it, ExitHandler's Log finds it by its name.  It   *)
(* makes no new one, and so does not put ExitHandler on the exit table     *)
(* again while exit() works it off.                                        *)
KeptClientIsFound ==
  [][\A c \in Threads :
       Kept /\ pc[c] = "get_client" /\ pc'[c] = "register"
         => Kind(c) = "client"]_cvars

(* How many steps of its own each context has in front of it until exit()  *)
(* takes the next function off the table.                                  *)
StepsToExit == [program |-> 0, unused |-> 0, exit |-> 0, close |-> 1, destroy |-> 1,
                flush |-> 2, construct |-> 3, read |-> 4,
                save_dump |-> 5, save_info |-> 6, save_sig |-> 7]
CallsToMake == [idle |-> 0, unwind |-> 1, close |-> 1, pin |-> 2, share |-> 3,
                create |-> 4, share_client |-> 5, create_client |-> 6,
                register |-> 8, get_client |-> 9, get |-> 10]
Ahead == [c \in Threads |->
            11 * StepsToExit[stage[c]] + CallsToMake[pc[c]]
              - Bit(pc[c] = "register" /\ seen[c] # "unread")]

(* The functions exit() has to run, those about to be registered included; *)
(* and the handlers that still fit on each stack.                          *)
Pending == Len(atexit) + Cardinality({c \in Threads : pc[c] = "register"})
Room    == [t \in Tasks |-> MaxLevel - level[t]]

Fewer(g, f) == g # f /\ \A x \in DOMAIN f : g[x] <= f[x]

(* So while the client is kept, no step of a handler or of exit() is in    *)
(* vain: it ends the process, or opens one more level of handlers, or      *)
(* there is less for exit() to run, or less to do until it can; never, for *)
(* one, does it make more of the third and less of the fourth.             *)
ExitUsesUpWork ==
  [][Kept /\ (\E c \in Threads : ExitStep(c)) =>
       \/ process' # "alive"
       \/ Fewer(Room', Room)
       \/ Room' = Room /\ Pending' < Pending
       \/ Room' = Room /\ Pending' = Pending /\ Fewer(Ahead', Ahead)]_cvars

(* Log.cpp:55: a reference is to be kept so that the logger "isn't created *)
(* and destroyed constantly".  At exit, too, there comes a time after      *)
(* which no client is created.                                             *)
NotCreatedConstantly ==
  <>[][\A c \in Threads : ~(pc[c] = "create_client" /\ pc'[c] = "share_client"
                             /\ Exiting)]_cvars
=============================================================================
