---------------------------- MODULE TraceSettings ----------------------------
(***************************************************************************)
(* What a program sets through a Log (Log.hpp) and what comes of it: names *)
(* of threads, modules, and the verbosity of the trace and of its modules. *)
(* A Log keeps none of this.  P7 keeps it with the trace, which all Logs   *)
(* of a name share and which goes with the last of them, while the handles *)
(* of modules stay with the program.  The Logs themselves are those of     *)
(* NamedChannels.                                                          *)
(*                                                                         *)
(* External: of the IP7_Trace, what the calls in Log.hpp rely on.  A name  *)
(* stands for one module of a trace, a line passes if its level is at      *)
(* least the verbosity of its module or, without one, of the trace, and    *)
(* any call may fail.  Calls that fail and change nothing are not steps.   *)
(***************************************************************************)
EXTENDS Naturals, Sequences

CONSTANTS Handles, HandleKind, Names, Main, NULL, Unbuilt

CONSTANTS
  ThreadIds,   \* of the program
  ThreadNames,
  ModuleNames,
  Vars,        \* the program's variables of type std::optional<ModuleHandle>
  LevelsUsed   \* the levels the program sets; any level may be logged

VARIABLES
  chan, present,  \* the Logs and the traces: see NamedChannels
  settings,       \* P7: what each trace keeps
  module,         \* the modules that the program has handles of
  expect,         \* history: what was set last while there were Logs
  kept            \* history: handles whose trace was never without a Log

Channels == INSTANCE NamedChannels

vars == <<chan, present, settings, module, expect, kept>>

Logs     == {h \in Handles : HandleKind[h] = "trace"}
Traces   == {"trace"} \X Names
Used(k)  == \E h \in Logs : chan[h] = k
Subjects == {"verbosity"} \cup ThreadIds \cup ModuleNames

-----------------------------------------------------------------------------
Levels == <<"TRACE", "DEBUG", "INFO", "WARNING", "ERROR", "CRITICAL", "COUNT">>

(* eP7Trace_Level counts the levels from 0.                                *)
Number(level) == CHOOSE n \in 0 .. Len(Levels) - 1 : Levels[n + 1] = level

(* Mutant: one case of the switch returns the level of the next.           *)
ConvertOneCaseWrong(level) == Number(IF level = "WARNING" THEN "ERROR" ELSE level)

convert(level) == Number(level)

ConvertBack(number) == Levels[number + 1]

(* A handle leads to a module of a trace by its place there, its name.     *)
ModuleHandle == [name: ModuleNames, trace: Traces, module: ModuleNames]

LevelNames == {Levels[n] : n \in DOMAIN Levels}

ASSUME SettingsAssumption ==
  /\ ThreadIds \cap ModuleNames = {} /\ "verbosity" \notin ThreadIds \cup ModuleNames
  /\ LevelsUsed \subseteq LevelNames
  /\ NULL \notin Nat \cup LevelNames \cup ThreadNames \cup ModuleNames
            \cup Traces \cup ModuleHandle
  /\ Unbuilt \notin Traces

-----------------------------------------------------------------------------
New == [s \in Subjects |-> IF s = "verbosity" THEN 0 ELSE NULL]

Init ==
  /\ Channels!Init
  /\ settings = [k \in Traces |-> New]
  /\ module = [v \in Vars |-> NULL]
  /\ expect = [k \in Traces |-> [s \in Subjects |-> NULL]]
  /\ kept = {}

(* A Log is opened, closed or exchanged: a trace that comes is new.  The   *)
(* other classes keep no settings and are left out, but for the client.    *)
HandleStep ==
  /\ Channels!Next
  /\ present' \subseteq Traces \cup {<<"client", Main>>}
  /\ UNCHANGED module
  /\ settings' = [k \in Traces |->
                    IF k \in present \cap present' THEN settings[k] ELSE New]
  /\ expect' = [k \in Traces |->
                  IF Used(k) /\ Used(k)' THEN expect[k]
                                         ELSE [s \in Subjects |-> NULL]]
  /\ kept' = {v \in kept : Used(module[v].trace)'}

(* A call through a Log that stands for a trace; one default constructed   *)
(* has no trace to call.                                                   *)
Set(k, s, value, meant) ==
  /\ settings' = [settings EXCEPT ![k][s] = value]
  /\ expect' = [expect EXCEPT ![k][s] = meant]

(* The id 0 stands for the thread that calls.                              *)
RegisterThread(h, caller, thread_id, name) ==
  /\ chan[h] \in Traces
  /\ Set(chan[h], IF thread_id = 0 THEN caller ELSE thread_id, name, name)
  /\ UNCHANGED <<chan, present, module, kept>>

UnregisterThread(h, caller, thread_id) ==
  /\ chan[h] \in Traces
  /\ Set(chan[h], IF thread_id = 0 THEN caller ELSE thread_id, NULL, NULL)
  /\ UNCHANGED <<chan, present, module, kept>>

Register(h, v, name) ==
  /\ chan[h] \in Traces
  /\ module' = [module EXCEPT ![v] = [name |-> name, trace |-> chan[h], module |-> name]]
  /\ kept' = kept \cup {v}
  /\ IF settings[chan[h]][name] = NULL
     THEN settings' = [settings EXCEPT ![chan[h]][name] = settings[chan[h]]["verbosity"]]
     ELSE UNCHANGED settings
  /\ UNCHANGED <<chan, present, expect>>

(* Mutant: the result of Register_Module() is not looked at.               *)
RegisterModuleUnchecked(h, v, name) ==
  \/ Register(h, v, name)
  \/ /\ chan[h] \in Traces
     /\ module' = [module EXCEPT ![v] = [name |-> name, trace |-> chan[h], module |-> NULL]]
     /\ kept' = kept \cup {v}
     /\ UNCHANGED <<chan, present, settings, expect>>

(* Its result, which the program keeps in v.                               *)
RegisterModule(h, v, name) ==
  \/ Register(h, v, name)
  \/ /\ chan[h] \in Traces
     /\ module' = [module EXCEPT ![v] = NULL]
     /\ kept' = kept \ {v}
     /\ UNCHANGED <<chan, present, settings, expect>>

(* Without a module, it is for P7 whether the registered ones follow.      *)
SetVerbosity(h, level) ==
  /\ chan[h] \in Traces
  /\ LET k == chan[h] IN
     /\ \E followers \in {{}, {n \in ModuleNames : settings[k][n] # NULL}} :
          settings' = [settings EXCEPT ![k] =
            [s \in Subjects |-> IF s \in {"verbosity"} \cup followers
                                THEN convert(level) ELSE settings[k][s]]]
     /\ expect' = [expect EXCEPT ![k] =
          [s \in Subjects |-> IF s = "verbosity" THEN level
                              ELSE IF s \in ModuleNames THEN NULL ELSE expect[k][s]]]
  /\ UNCHANGED <<chan, present, module, kept>>

(* The handle of a module may be used through any Log of its trace, until  *)
(* the trace goes.                                                         *)
SetModuleVerbosity(h, v, level) ==
  /\ v \in kept /\ module[v].trace = chan[h]
  /\ Set(chan[h], module[v].module, convert(level), level)
  /\ UNCHANGED <<chan, present, module, kept>>

Next ==
  \/ HandleStep
  \/ \E h \in Logs :
       \/ \E t \in ThreadIds, id \in {0} \cup ThreadIds :
            \/ \E name \in ThreadNames : RegisterThread(h, t, id, name)
            \/ UnregisterThread(h, t, id)
       \/ \E v \in Vars, name \in ModuleNames : RegisterModule(h, v, name)
       \/ \E level \in LevelsUsed :
            \/ SetVerbosity(h, level)
            \/ \E v \in Vars : SetModuleVerbosity(h, v, level)

Spec == Init /\ [][Next]_vars

-----------------------------------------------------------------------------
(* GetVerbosity() of a Log of k, for s "verbosity" or the name of a module *)
GetVerbosity(k, s) == ConvertBack(settings[k][s])

(* Trace_Managed() in RawTrace()                                           *)
Passes(k, s, level) == settings[k][s] <= convert(level)

Known(k, s) == Used(k) /\ expect[k][s] # NULL

(* What was set through any Log of a name -- the name of a thread, a       *)
(* verbosity -- is what every Log of that name finds, however the Logs     *)
(* were opened, closed and exchanged since, as long as there was always    *)
(* one of them.                                                            *)
SettingsLast ==
  \A k \in Traces : \A s \in Subjects :
    Known(k, s) =>
      expect[k][s] = IF s \in ThreadIds THEN settings[k][s] ELSE GetVerbosity(k, s)

(* Lines pass from exactly that level on which the program has set last,   *)
(* for the trace or for the module of the line.                            *)
LinesFollowVerbosity ==
  \A k \in Traces : \A s \in {"verbosity"} \cup ModuleNames :
    Known(k, s) =>
      \A i, set \in DOMAIN Levels :
        Levels[set] = expect[k][s] => (Passes(k, s, Levels[i]) <=> set <= i)

(* The handle that a program was given of a module leads to the module of  *)
(* its name, as long as the trace was never without a Log.                 *)
ModuleReachesTrace ==
  \A v \in kept :
    /\ module[v].module = module[v].name
    /\ settings[module[v].trace][module[v].module] # NULL
=============================================================================
