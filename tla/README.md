# LoggerV2 in TLA+

LoggerV2 is a C++17 front end to the P7 logging library: RAII handles over
P7's reference-counted, named objects, command-line flags that configure the
P7 client, and crash handlers that turn a fatal signal into a logged report.
This directory holds its specifications, the instances TLC checks, and proofs
checked by TLAPS. Paths below are relative to the repository; the library is
`src/LoggerV2` (listed in `PROJECT.json` as `src/src/LoggerV2`).

P7, libc and the kernel are not part of the repository. What the models say of
them is marked "external" in the module that needs it and in the map of
`PROJECT.json`; it is taken from how the code uses them:

* `P7_Get_Shared*()` hands out a reference, `P7_Create_*()` an object with one,
  and `Share()` owns none (the comment at `Log.cpp:55` depends on that);
* a name is shared by one object, and is free again when that object dies;
* a trace or telemetry object holds a reference on its client: the local
  `Client` that created it dies at the end of the same block.

## Inventory

| component | state | operations | interacts with |
|---|---|---|---|
| `Client` (`Client.cpp`, `Client.hpp`) | `client_` | constructor by name, default, copies and assignments, destructor | P7; registers the crash handlers; reads the flags |
| `Log` (`Log.cpp`, `Log.hpp`) | `trace_` | the same, `swap`, logging functions | builds a local `Client("main")` when its name is new |
| `Telemetry` (`Telemetry.cpp`, `Telemetry.hpp`) | `telemetry_` | the same, `Create`, `Find`, `Add` | the same; hands out `TelemetryChannelHandle`s that point back to it |
| `TelemetryChannelHandle` | name, id, pointer to its `Telemetry` | `Add`, `swap` | a `Telemetry` that may be gone, or stand for another channel |
| crash handling (`Client.cpp`) | `atexit_data`, libc's exit table, signal dispositions | `RegisterUnixCrashHandlers`, fifteen signal handlers, `ExitHandler` | `ExitHandler` builds a `Log("main")`, which may build a client, which registers `ExitHandler` |
| flags (`Flags.cpp`, `Flags.hpp`) | one absl flag each | eighteen validators; six kinds of cross-reference to `log_sink`, `log_pool_size`, `log_packet_size` | read by `CreateClientConfig` |
| client configuration (`Client.cpp`) | none | `CreateClientConfig` | the flags; P7 gets the text |
| message wrapping (`Log.hpp`) | none | `RawTrace` | one `Trace_Managed()` per piece |
| threads, modules, verbosity (`Log.hpp`) | none of their own: P7 keeps them with the trace, the program the `ModuleHandle`s | `RegisterThread`, `UnregisterThread`, `RegisterModule`, `SetVerbosity`, `GetVerbosity` | the trace, which all `Log`s of a name share |
| generated overloads (`Log*Funcs.inc`) | none | twelve overloads of each logging function, more with the number of values | C++ overload resolution; hand on to `RawTrace` |
| level maps (`Log.hpp`) | none | `convert` both ways | verbosity and `RawTrace` |
| `SendTrace.inc` | none | included by no source file | not modelled |
| source locations, constant strings, help texts | immutable | none | not modelled; the help text is the documentation the flags are compared with |

What is hard here:

* a constructor is several P7 calls with other threads between them and an
  exception possible after each, while destructors count on the pointer;
* the handles' copy and move members are defaulted, their destructors are not;
* signal handlers share one static record and may interrupt each other, the
  constructors and `ExitHandler`; `exit()` runs what is registered while it runs;
* the handlers run in any thread, next to threads that go on, and call what
  the interrupted code may be in the middle of: the allocator, P7, `exit()`;
* validators look at other flags while those are still being parsed, and a
  client may be created before they are;
* settings belong to an object that goes with the last `Log` of its name, while
  handles of modules and of counters stay with the program;
* which of several dozen generated overloads a call selects is decided by the
  entries of a table.

What makes each part correct: references exactly counted, no dangling pointer,
one object per name (handles); a lone crash reported and flushed, no report that
mixes two signals, an end to `exit()` (crash handling); samples that reach the
counter a handle names, though its channel lost every object meanwhile
(telemetry); settings that last as long as some `Log` of the name does, and
lines filtered by them (traces); parameters that fit the sink and pool of the
client, and are those of the command line (flags); an accepted text exactly when
the grammar has it (format); no character lost (wrapping); every argument handed
on as what it was meant for (overloads). `PROJECT.json` lists every hazard at
its line, with the properties that watch it.

## Modules

    NamedChannels            what handles promise: channels by name
       ^         ^    \-------- TraceSettings      what a trace keeps
       |          \------------ StartUp            clients and the command line
       | implements                |
    HandleRefinement               ClientConfig    the parameters of a client
       |                           |
    HandleLifecycle                Flags           the validators
       |        \
    HandleCopies CrashExit   signals, exit(), ExitHandler

    Texts                    all texts up to a length
      <- LogFormat           --log_format against its grammar
      <- RawTrace            messages to lines
      <- LogCalls            calls (lists of types) to overloads
    TelemetryChannels        counters and channel handles

    HandleLifecycleProofs <- HandleRefinementProofs <- CrashExitProofs
    TextProofs (LogFormat, LogCalls) <- RawTraceProofs
    TraceSettingsProofs, StartUpProofs, TelemetryProofs

`MCHandleLifecycle`, `MCCrashExit`, `MCStartUp`, `MCTraceSettings` and `MCTexts`
give the constants values and symmetry; `TelemetryChannels` needs none.

### HandleLifecycle

Each thread of `Threads` runs at most one constructor; `pc` names the next P7
call it makes. `handle[h]` is the pointer in the C++ object in slot `h`
(`Unbuilt` when there is no object), `self` the pointer of the `Log` or
`Telemetry` under construction, `local` that of the `Client` in scope.

| action | code |
|---|---|
| `Construct` | entry of a constructor by name |
| `GetShared` | `P7_Get_Shared_Trace/Telemetry`, `Log.cpp:39`, `Telemetry.cpp:45` |
| `GetSharedClient` | `P7_Get_Shared`, `Client.cpp:651`, for a `Client` or the local one |
| `RegisterUnixCrashHandlers`, `AtexitFails`, `SigactionFails` | `Client.cpp:460-547` |
| `CreateClient`, `CreateClientFails`, `ShareClient`, `ShareClientFails` | `Client.cpp:659-673` |
| `CreateChannel`, `CreateChannelFails`, `Share`, `ShareFails` | `Log.cpp:41-54`, `Telemetry.cpp:48-62` |
| `AddRefTelemetry` | `Telemetry.cpp:65`; `Log.cpp:57` is a comment |
| `CloseClient`, `Unwind` | `~Client` of the local `Client`, by the end of the block or by an exception |
| `Destroy`, `Swap`, `DefaultConstruct` | destructors, `swap()`, default constructors |

The client is created and shared by two actions, as by two calls; the
registration of the handlers is one, because nothing it does is visible to the
handles of other threads until a client exists; what it does to the crash record
is in `CrashExit`. With `Failures`, every call that reports failures may do so
at any time, `Share()` too, whether its name is taken or not.

`pinned` and `leaked` are history variables: which objects got the deliberate
`Add_Ref()`, and which lost their reference to an exception. They make "every
reference has an owner" statable. A reference that a failed `Share()` loses
(`Client.cpp:667`, `Log.cpp:53`) counts as owned by `leaked` ever after: that no
`Release()` is forgotten holds up to those.

`Next` is a program that neither copies nor assigns handles. `HandleCopies`
adds the defaulted copies and assignments, which count nothing; as a dangling
pointer's use is undefined, that model stops where one exists.

### NamedChannels and HandleRefinement

The abstract specification has no pointers and no counts. A live handle stands
for a named channel; a name is published before or as its first handle is
built; a channel may go only when no handle stands for it, a telemetry channel
never; a trace or telemetry channel is there only while the client "main" is.
`HandleRefinement` maps a pointer to the name its object is shared under. A
constructor that fails maps to `Abandon`, because unwinding its local client may
make "main" disappear.

### CrashExit

The process has several threads, `Tasks`, and contexts are stacked on each:
`<<t, 0>>` is the program, `<<t, n + 1>>` the handler that interrupted
`<<t, n>>`. They are the `Threads` of `HandleLifecycle`, of which only the top
one of a task runs, since no handler ever returns. A handler is four steps
(`sig`, `siginfo`, backtrace, `std::exit`), `exit()` takes functions off the
table one by one, and `ExitHandler` is: read the backtrace, construct
`Log("main")` (all the steps of `HandleLifecycle`), write the report, flush,
destroy the `Log`. A signal may come between any two steps of any thread.

* *Locks.* What a signal interrupts may hold the lock of the allocator or P7
  (`heap`) or of `exit()` for ever: `stuck`. That of `exit()` is also taken by
  `std::atexit()`, and by the registration of a static object's destructor when
  its constructor is done. Whoever needs such a lock then waits, and so the
  program can hang; it does in the model.
* *The record.* `RegisterUnixCrashHandlers` tests the buffer of the backtrace
  and allocates it in two steps, with other threads and handlers between them
  (`seen`, `buffer`, `replaced`). A handler that runs before the buffer is there
  dumps nothing. When a buffer is assigned over one already dumped to,
  `backtrace_depth` still says that there is a backtrace, and `ExitHandler` reads
  it from uninitialised memory: `Garbage`, or nothing if that begins with no
  frame (`Readable`).
* *The handlers.* `handled` is the set of signals whose handler is installed:
  all after a registration, a prefix of the `sigaction()` calls after one that
  failed. A signal between two of those calls leaves what a failed registration
  leaves, because the constructor it interrupts is never resumed; `crash`, the
  run with failures, covers it.
* *`exit()` in several threads.* The table is shared: each call takes the next
  function off it, as glibc does. The process may then end in one thread before
  the other has flushed its report.
* *Exceptions.* One that leaves `ExitHandler` raises SIGABRT, or kills the
  process when there is no room on the stack (`MaxLevel`) for a handler.

A report is abstracted to whose signal, `siginfo` and backtrace it shows.
Reports logged and not flushed die with their trace object. `CrashReported`
claims a report for a lone signal that no other `exit()` competes with, with its
backtrace unless the buffer was replaced. `ReportsAgree` claims unmixed reports
while one thread only has left its program, but for a backtrace of uninitialised
memory where the buffer was replaced; two threads that crash at once do mix
theirs, since they share the record. `FreeUntilShared` says that one thread never
finds a name taken between its look-up and its `Share()`, signals and
`ExitHandler` included, so that it loses an object only when `Share()` fails on
its own account.

### StartUp

`ClientConfig` composed with `NamedChannels`, so that the moment a client is
created shows: before an argument is parsed, by a static `Log` or `Client`, or
after all of them are, by the program. A client that appears takes
`CreateClientConfig` of the flags as they are; one that is found keeps what it
has. `early` remembers the clients created before the parsing was over. While
`main()` parses it builds no handle; a thread started by a static object might,
and would read the flags one by one while they change (see "Not modelled").

### TraceSettings

What a program sets through a `Log` lives with the trace: `settings[k]` maps
threads to names, modules to verbosities and `"verbosity"` to that of the trace
`k`, and starts anew when the trace does. The Logs are those of `NamedChannels`,
of whose other classes only the client remains. `module[v]` is a `ModuleHandle`
the program keeps. `expect` remembers what was set last while there was a `Log`,
`kept` the handles whose trace was never without one; using another handle
follows a pointer into a destroyed trace, and is not a step. P7 may refuse any
call, and may apply a verbosity set for the trace to its modules or not.

### LogCalls

The three `.inc` files generate twelve groups of overloads of `Trace`, `Debug`,
... and of `SendTrace` from tables that say which optional argument each takes.
A text of `Texts` is here the list of the types of a call's arguments.
`Selected` is C++'s choice (external), `RawTraceArguments` what the selected
overload hands on, `Meaning` what was meant. `Intended` are the calls
whose leading arguments are in order and which have at most `LOG_func_max_args`
values, the maximum that `Log.hpp:53` documents. (With the location in front an
overload takes any number.)

### Flags, ClientConfig, LogFormat, RawTrace, TelemetryChannels

`ParseArgument` runs one validator on one argument with the flags as they are
at that moment; rejected arguments leave their flag alone and end the process
once all are parsed. `CreateClientConfig` is the set of parameters that
`Client.cpp:555-646` writes. `InRange` is `FALSE` for the port and the packet
size because `Flags.cpp:332` and `:365` return `false` at the end.

Over every text up to a length, `LogFormat` compares the scan of
`Flags.cpp:451-488` with a grammar that consumes the text from left to right.
`RawTrace` does the same for `Log.hpp:188-209` and a terminal. 

In `TelemetryChannels`, `telemetry[s]` is the P7 channel the `Telemetry` object in
slot `s` stands for, and `origin` remembers the channel a handle was made in.
`refs` counts the references of a channel: two for its first object, since the
constructor adds one, then one for each. At none the channel dies with its
counters. The program makes no copies of a `Telemetry` there: with them, as
`telemetry_copy` shows, the channel is destroyed under its handles, and a rebuilt
one numbers its counters anew.

## Runs

| run | bounds | what it shows |
|---|---|---|
| `lifecycle` | 2 threads, 4 handles (client, 2 logs, telemetry), 2 names, 4 objects, 2 exit entries, failures | type, reference counts, no dangling, one object per name, handlers before objects, "main" outlives its channels, the proofs' invariant, telemetry stays; `HandleLifecycle` implements `NamedChannels` |
| `crash` | 2 threads that both make the client, with a static `Log` and a `Log`; 1 signal (SIGABRT) in either, 3 objects, 2 exit entries, failures | a crash beside another thread: reported, its report not mixed, its backtrace garbage at worst where the buffer is replaced; nothing dangles; "main" outlives its channels, and is found while it is kept; the process implements `NamedChannels` |
| `exit_ends` | 1 thread with a `Log`, 2 names, 2 nested signals (SIGABRT, and SIGSEGV, which may be a fault), `exit()` called by the program too, 3 objects, 2 exit entries, fairness | signals in the program, in a handler, in `exit()` and in `ExitHandler`: reports never mix them, a lone crash is reported, names are free until shared; `exit()` ends if something keeps the client "main" and no lock is stuck, since that client is then found and each step uses up work |
| `texts` | 5 characters, length 7; 2 codes; width 3; `LOG_func_max_args` 1 | validator = grammar, wrapping = terminal, calls mean what they say |
| `flags` | 20 arguments, 3 per command line, a `Client` and a `Log`, before and after | with the sink first and the pool before the window, parameters fit; only early clients differ from the command line |
| `trace` | 2 logs, 2 names, 1 thread id, 1 module, 2 handles of modules, 2 levels set, all 7 logged | settings last, lines follow the verbosity, handles of modules lead to their module |
| `telemetry` | 2 objects, 2 channels, 3 counter names, 2 per channel, 2 handles | samples reach their counter, after a channel's last object is gone, too |

Runs that end in a violation, each a documented statement the code does not
meet (`findings` in `PROJECT.json` quotes both sides):

| run | statement | code |
|---|---|---|
| `telemetry_copy` | telemetry is not created and destroyed constantly (`Telemetry.cpp:63`) | a copy's destructor releases the reference taken for that |
| `exit_recreates` | the same of the trace (`Log.cpp:55`), and so of its client | `ExitHandler` re-creates it, and with it registers itself, without end |
| `sink_order` | `--log_address` only with its sinks (`Flags.cpp:300`) | a later `--log_sink` is not looked at |
| `examples` | examples of the help text work, as `--log_packet_size=1476` (`Client.hpp:134`) | every packet size but the default is rejected |
| `pool_size` | `--log_pool_size` sets the pool (`Client.hpp:100`) | written only if the window is set |

Seen while reading, and too plain or too close to the above for a run:

* `Log.cpp:55` says of a trace what `Telemetry.cpp:63` says of telemetry, over
  an `Add_Ref()` that is commented out: a trace dies with its last handle.
* The bound of `--log_window` (`Client.hpp:140`) is computed from the pool size
  as parsed so far; a smaller `--log_pool_size` may follow.
* `--log_port` rejects every value but the default, like `--log_packet_size`.
* `--log_int_verb=0` is an example (`Client.hpp:83`), but only names are
  accepted; 0 is documented as Info and 1 as Debug (`Client.hpp:77`), and
  `Flags.hpp:65` has them the other way round.
* After `swap()` of two `Telemetry` objects, the channel handles made by one
  reach the counters of the other (`Telemetry.hpp:153`).
* The help text gives "baical" as the default sink and 9009 as the default
  port; `Flags.hpp:46` and `:149` say auto and 9010.
* `--log_trace_verb` is parsed and read by no code, and its example
  `--log_trace_verb=4` is rejected: only names are accepted.
* `Log.hpp:53` calls 5 the default maximum of values in a call; the counter of
  `LogFuncs.inc:30` starts at 1 for an iteration that starts at 0, so that six
  compile. `CallsMeanWhatTheySay` is about calls with up to the maximum, and
  says nothing of those.
* Two constructors that both find no backtrace buffer (`Client.cpp:461`) both
  allocate one; after a dump to the first, `ExitHandler` (`Client.cpp:148`) logs
  a backtrace of what the second happens to hold.
* The handlers call `std::exit()`, and it what they registered, in signal
  context: where the signal interrupted the allocator, P7 or `exit()` itself, the
  process hangs instead of reporting.
* When `Share()` fails, the object just created is never released
  (`Client.cpp:667`, `Log.cpp:53`, `Telemetry.cpp:61`).

**Why these bounds.** Two threads are enough to race for a name, and a third
finds nothing the second did not leave (a name is free, taken or lost). Four
objects are the client, a trace, a telemetry and the loser of a race; runs in
which objects leak until none is left are part of the instance (a call then
fails). In `crash` and `exit_ends` three objects are the client, the trace and
one that is lost. Two names separate "main" from another; in `exit_ends`, a `Log`
of the other name keeps the client while `ExitHandler` creates the trace "main".
Two exit entries make the table overflow.

`crash` and `exit_ends` divide what one instance cannot have. In `crash` the two
threads race for the client and the buffer, so that one of them crashes with its
dump in a buffer that the other replaces, and any call fails; one signal is
enough for that. In `exit_ends` signals nest: one interrupts the program, a
handler of the other signal, `exit()` or `ExitHandler`, and one interrupts that.
That two threads are in `exit()` at the same time is left to the theorems, which
bound neither threads nor signals.

Three arguments are two flags that depend on each other
and one that has them both depend on it, in every order; the proofs cover any
number. Length 7 has two adjacent codes and a delimiter at every distance from
the end, more than two full lines of width 3, and a level, an id, a module, a
location before or after, and the format with the one value that a
`LOG_func_max_args` of 1 allows and more. Two Logs are the last one and the
last but one of a trace; two handles of modules lead to the same or different
traces. The theorems need none of these bounds.

**Deadlock** is checked in `lifecycle`, `telemetry` and `trace`. The other
models really stop: the process ends or hangs on a stuck lock (`crash`,
`exit_*`), the text is complete or the process exits for a rejected argument, or
(in `telemetry_copy`) undefined behaviour is reached.

**Symmetry** (threads, objects, the two logs, the variables of module handles)
is used in runs of safety properties only.

**Fairness.** `FairCrashSpec` assumes that the scheduler runs some thread that
has something to do in a handler or in `exit()`: weak fairness of all their steps
together, the least a scheduler gives. Nothing is assumed of the program, of
signals, or of one thread over another.

## Proofs

Eight modules of proofs, each for every value of the constants that satisfies
the assumptions of the module it extends (`LifecycleAssumption` and
`FiniteAssumption` for the handles, with `RefinementAssumption` and
`CrashAssumption` on top; `FlagsAssumption`; `SettingsAssumption`;
`TelemetryAssumption`; `TextAssumption`, `FormatAssumption`, `CallAssumption`
and `WrapAssumption`; none of them bounds a set or a number, but that a format
code is one delimiter and one letter):

| module | theorem | property |
|---|---|---|
| `HandleLifecycleProofs` | `Invariant` | `IndInv`, the inductive invariant |
| | `TypeCorrect`, `RefsAccounted`, `NeverDangling` | `TypeOK`, `RefAccounting`, `NoDangling` |
| | `OneObjectPerName`, `AlwaysArmed` | `SameNameSameObject`, `ArmedBeforeLogging` |
| | `TelemetryNeverDestroyed` | `TelemetryStays` |
| `HandleRefinementProofs` | `ClientOutlives`, `Implements` | `ClientOutlivesChannels`, `ImplementsNames` |
| `CrashExitProofs` | `CrashTypeCorrect`, `CrashRefsAccounted`, `CrashNeverDangling` | `CrashTypeOK`, `RefAccounting`, `NoDangling` |
| | `CrashClientOutlives`, `CrashTelemetryStays` | `ClientOutlivesChannels`, `TelemetryStays` |
| | `CrashImplements`, `CrashClientFound` | `ImplementsNames`, `KeptClientIsFound` |
| | `ExitWorks` | `ExitUsesUpWork` |
| | `ReportsNeverMix`, `LoneCrashReported` | `ReportsAgree`, `CrashReported` |
| | `OneThreadSharesFirst` | `FreeUntilShared`, for one task |
| `TraceSettingsProofs` | `SettingsAreKept`, `LinesAreFiltered`, `ModulesAreReached` | `SettingsLast`, `LinesFollowVerbosity`, `ModuleReachesTrace` |
| `StartUpProofs` | `SinkFirst`, `PoolFirst`, `LaterClients` | `SinkFirstIsEnough`, `PoolFirstIsEnough`, `FlagsReachLaterClients` |
| `TelemetryProofs` | `SamplesArrive` | `SampleReachesItsCounter` |
| `TextProofs` | `MeetsGrammar`, `CallsMean` | `ValidatorMeetsGrammar`, `CallsMeanWhatTheySay` |
| `RawTraceProofs` | `Wraps` | `WrapsLikeATerminal` |

**Handles.** `RefAccounting` says that a reference count is the sum of six
counts of owners. It is not inductive alone: a `Release()` of a constructor's
local client is only right if the constructor still owns it, an object's last
release is only right if the object is a client or its client is alive, and a
name may only be freed together with its object. `IndInv` adds: `FrameInv`
(which pointers a constructor holds at which step), `RoleInv` (which objects
are clients and which hold one, so that a cascade has length two), `NameInv`
(names lead to live objects, one name each), `HandleInv` (a handle's object is
shared), `FreshInv` (an object not yet shared belongs to one constructor),
`GhostInv` and `PinInv` (when the history variables grow), `HookInv`.

Counts are cardinalities of `{x : f[x] = v}`. `CountUpdate` states how one
changes when one entry of a function does; `CreateCounts`, `AddRefCounts` and
`ReleaseCounts` lift that to the P7 operations, the last one over the cascade
from a channel to its client. One lemma per action then shows that it preserves
`IndInv`, conjunct by conjunct, and `NextInv` combines them. `NoDangling`
follows because an owner makes a count positive (`OwnedIsLive`);
`TelemetryNeverDestroyed` because a shared telemetry object has two owners
(`PinInv`) or one and the constructor about to pin it, so that no single
release is its last (`TelemetryKept`).

**Refinement.** `AnchorInv`: every trace and telemetry object, and every
constructor that has its local client, holds the object shared as "main". It
is inductive because a client keeps its name while it lives (`SharedKept`), and
gives `ClientOutlivesChannels`. The mapping takes a handle to the one name its
object has (`ChanOf`: `HandleInv` says there is one, `NameInv` that there is no
other) and is left alone by every step that leaves the handles and names alone
(`ChanStays`). `StepMaps` then goes through the actions: those before a
constructor's return publish (`Opens`) or stutter, a return opens a handle, a
destructor closes one and lets fade what nobody holds (`Fades`).

**Crashes.** Each step of `CrashNext` is a step of the handles, leaves them
alone, or takes a function off the exit table (`CrashSteps`; the handles' steps
are there those of `Next` and the destructors of static handles, `HandleStep`).
So `IndInv` carries over (`HandlesNext`) and with it `NoDangling`: ExitHandler
logs to a live object whatever the signal interrupted. So do `AnchorInv` and the
refinement (`CrashMaps`). `KeptHasName` adds that whatever keeps the client
"main" keeps it under its name, a pinned telemetry included (`PinnedInv`), so
that ExitHandler's `Log` finds it (`CrashClientFound`). From this follows
`ExitWorks`, the safety half of `ExitTerminates`, with a variant of three parts
in lexicographic order: the handlers there is room for on the stacks (`Room`),
the functions `exit()` has to run with those about to be registered (`Pending`),
and the steps each context has in front of it (`Ahead`, from `StepsToExit` and
`CallsToMake`). A constructor only goes on to later calls (`CallsForward`), and
registers at most the one function it was already counted for (`CallsRegister`,
`CallWorks`); as ExitHandler's constructor builds its own `Log`, which is not
static (`OwnLogInv`), and finds the client, it registers nothing. `RecordInv`
says how far the top handler of the only thread that is out has filled
`atexit_data`, by its stage (`Saved`); no other context can interfere, as those
below it never run again and the other threads write nothing there but a new
buffer, which makes a dump garbage only by replacing the one before
(`BufferInv`). `LoneInv` follows a lone handler to its flushed report
(`Claims`): ExitHandler stays on the exit table until `exit()` takes it off, a
handler is never installed without it (`CallHooks`), the lines it has logged
belong to an object its own `Log` keeps alive whatever the other threads destroy
(`LoneQuiet` uses `NoDangling`), and no other context is struck or moves
(`LoneActor`). `OneInv`: with one task, a name the running constructor has found
free is free until it takes it.

**Trace settings.** `SettingsInv` says that what is expected of a trace is what
the trace has, and that some `Log` stands for it (`ExpectInv`); that a handle
of a module the program may use leads to that module (`KeptInv`); and, of the
channels, `ChannelInv` of `NamedChannels`: what a handle stands for is present.
`convert` is shown to keep levels apart and their order (`ConvertPlace`).

**Flags.** `FlagsInv`: a flag that is not at its default was given
(`GivenInv`), so that with the sink first every later argument was tested
against the final sink (`SinkInv`), and with the pool first every window
against the final pool (`PoolInv`). `ConfigInv` carries this to the parameters
of every client, whenever it was created; `EarlyInv` says that those created
after the parsing have the parameters of the command line.

**Telemetry.** `CounterInv`: in the channel it was made in, the id of a handle
is that of the counter it names, wherever the `Telemetry` object it points to has
gone. It is inductive only if counters are added behind the others and never
lost; for that `PinInv` says that a channel has one reference more than objects,
or none at all (`Recount` follows the number of objects through a step), so that
the last destructor does not destroy it (`DestroyCounts`).

**Texts.** The induction theorems of the library take an operator for a
parameter, which no prover here can instantiate. `LeastNumber` does instead: a
nonempty set of numbers has a least member, and what is claimed of every length
is proved by looking at the least place where it would fail.

* *Grammar.* `Derives` at a position depends on the positions behind it; the
  last position where it differs from "every delimiter from here on begins a
  node" (`NodesFrom`) contradicts `NodesFromStep`. `WellFormed`, the scan, says
  the same of the delimiters (`WellFormedNodes`).
* *Calls.* An overload is viable just when the arguments up to the format are
  the optional ones of its entry, each at its place (`ViableIs`), and those are
  read off a call in one way only (`LeadsUnique`). So a call the functions are not
  meant for has no viable overload (`ViableOrdered`); of those viable for any
  other call, the one for all of its values is selected, and it hands on what was
  meant (`Columns`, `IntendedSelects`).
* *Wrapping.* `FlattenSeq` and the terminal's `screen` are recursive functions;
  each is shown to be the only function that satisfies its equation
  (`FlattensUnique`, `ShownIs`), and then how it grows with one element. The parts
  of a message are determined by the places of its newlines in order (`Nth`,
  `Rank`), those of a longer one by those of the shorter (`RawLetter`,
  `RawNewline`). `WrapInv` is then inductive over the characters of the message:
  the last line on the screen is the last piece of the last part, and the lines
  before it are all the other pieces (`Matches`).

Only model-checked: `ExitTerminates`. Liveness under fairness and `ENABLED` are
out of this prover's reach; of why `exit()` ends, `ExitWorks` proves the part that
is a matter of safety: what it leaves to TLC is that such a step is always taken
while no lock is stuck, and that what the other threads do in between, which
may give `exit()` new work, comes to an end. No module has a `RECURSIVE` operator, and every
invariant, action property and refinement of the passing runs has a theorem.

## Not modelled

* The Windows branch: one call, `P7_Set_Crash_Handler()`.
* A thread that creates a client while `main()` parses: it reads the flags one
  by one while they change, each under absl's lock.
* Two threads that write one field of `atexit_data` at the same instant: each
  assignment is one step, so that fields mix but a field is never torn.
* Use of a destroyed `Telemetry` through a handle, and of a `ModuleHandle` whose
  trace is gone: undefined; the models do not take the step.
* `fmt::format()` and its exceptions, `Trace_Managed()`, and what P7 does with
  a parameter: in particular the unit of the pool size in the window's bound,
  and names or directories with spaces, which the configuration does not quote.
* Cutting a multi-byte character in two: the model's characters are bytes.
* The values of samples and the limits of counters, which are handed on to P7.
* `SendTrace.inc`, which no file includes; source locations and constant
  strings; help texts; tests, build and documentation set-up.

## Plan

Order of work: what the whole library hangs on first, the handles; then the
crash path, which runs on them; then flags, texts and telemetry; then the
settings of traces and the generated overloads; then proofs. All modules above,
their runs and the theorems of the table are done.

Left:

1. `TelemetryChannels` over `HandleLifecycle`, with the steps of a constructor
   in it instead of one action.
2. In `CrashExit`, the program of a task with more than one handle per class in
   the runs with two threads (the theorems already allow it).
3. Theorems about what the runs with a violation leave true: for which programs
   with copies a telemetry stays, and when a pool size does reach the client.
