------------------------ MODULE TraceSettingsProofs ------------------------
(* Machine-checked proofs about TraceSettings, for any number of Logs,     *)
(* names, threads and modules.                                             *)
EXTENDS TraceSettings, TLAPS

-----------------------------------------------------------------------------
(* The conversion of levels.                                               *)

(* convert() takes every level to a number from 0 to 6, its place in the   *)
(* enumeration, and back.                                                  *)
LEMMA ConvertLevel ==
  ASSUME NEW level \in LevelNames
  PROVE  /\ convert(level) \in 0 .. 6
         /\ ConvertBack(convert(level)) = level
<1>1. PICK n \in DOMAIN Levels : level = Levels[n]
  BY DEF LevelNames
<1>2. n - 1 \in 0 .. Len(Levels) - 1 /\ Levels[(n - 1) + 1] = level
  BY <1>1 DEF Levels
<1>3. Len(Levels) = 7
  BY DEF Levels
<1>4. Number(level) \in 0 .. 6 /\ Levels[Number(level) + 1] = level
  BY <1>2, <1>3 DEF Number
<1>5. QED
  BY <1>4 DEF convert, ConvertBack

(* No level stands in two places.                                          *)
LEMMA LevelsDistinct ==
  ASSUME NEW i \in DOMAIN Levels, NEW j \in DOMAIN Levels, Levels[i] = Levels[j]
  PROVE  i = j
BY DEF Levels

(* The numbers of the levels count their places from 0.                    *)
LEMMA ConvertPlace ==
  ASSUME NEW i \in DOMAIN Levels
  PROVE  convert(Levels[i]) = i - 1 /\ i \in Nat
<1>1. Levels[i] \in LevelNames /\ DOMAIN Levels = 1 .. 7
  BY DEF LevelNames, Levels
<1>2. convert(Levels[i]) \in 0 .. 6 /\ Levels[convert(Levels[i]) + 1] = Levels[i]
  BY <1>1, ConvertLevel DEF ConvertBack
<1>3. convert(Levels[i]) + 1 \in DOMAIN Levels
  BY <1>1, <1>2
<1>4. convert(Levels[i]) + 1 = i
  BY <1>2, <1>3, LevelsDistinct
<1>5. QED
  BY <1>1, <1>2, <1>4

-----------------------------------------------------------------------------
(* Opening, closing and exchanging handles.                                *)

(* Every step of the handles keeps what NamedChannels promises of them.    *)
LEMMA ChannelStep ==
  ASSUME Channels!ChannelInv, Channels!Next
  PROVE  Channels!ChannelInv'
<1> USE DEF Channels!ChannelInv, Channels!InUse, Channels!Fits
<1>1. ASSUME NEW k \in Channels!Keys, Channels!Publish(k)
      PROVE  Channels!ChannelInv'
  BY <1>1 DEF Channels!Publish
<1>2. ASSUME NEW h \in Handles, NEW k \in Channels!Keys,
             Channels!PublishOpen(h, k) \/ Channels!Open(h, k)
      PROVE  Channels!ChannelInv'
  <2>1. CASE Channels!PublishOpen(h, k)
    BY <1>2, <2>1 DEF Channels!PublishOpen, Channels!Anchored
  <2>2. CASE Channels!Open(h, k)
    BY <1>2, <2>2 DEF Channels!Open, Channels!Anchored
  <2>3. QED
    BY <1>2, <2>1, <2>2
<1>3. ASSUME NEW h \in Handles, Channels!Detached(h)
      PROVE  Channels!ChannelInv'
  BY <1>3 DEF Channels!Detached, Channels!Anchored
<1>4. ASSUME NEW h \in Handles, Channels!Close(h)
      PROVE  Channels!ChannelInv'
  BY <1>4 DEF Channels!Close, Channels!Fade
<1>5. ASSUME NEW g \in Handles, NEW h \in Handles, Channels!Exchange(g, h)
      PROVE  Channels!ChannelInv'
  BY <1>5 DEF Channels!Exchange, Channels!Anchored
<1>6. ASSUME Channels!Abandon
      PROVE  Channels!ChannelInv'
  BY <1>6 DEF Channels!Abandon, Channels!Fade
<1>7. QED
  BY <1>1, <1>2, <1>3, <1>4, <1>5, <1>6 DEF Channels!Next

-----------------------------------------------------------------------------
(* The inductive invariant.                                                *)

SettingsType ==
  /\ settings \in [Traces -> [Subjects -> Nat \cup ThreadNames \cup {NULL}]]
  /\ expect \in [Traces -> [Subjects -> LevelNames \cup ThreadNames \cup {NULL}]]
  /\ module \in [Vars -> ModuleHandle \cup {NULL}]
  /\ kept \subseteq Vars
  /\ \A k \in Traces : settings[k]["verbosity"] \in Nat

(* What is expected of a trace is what it keeps, and some Log has it.      *)
ExpectInv ==
  \A k \in Traces : \A s \in Subjects : expect[k][s] # NULL =>
    /\ Used(k)
    /\ s \in ThreadIds => settings[k][s] = expect[k][s]
    /\ s \notin ThreadIds => expect[k][s] \in LevelNames
                               /\ settings[k][s] = convert(expect[k][s])

KeptInv ==
  \A v \in kept :
    /\ module[v] # NULL
    /\ module[v].module = module[v].name
    /\ Used(module[v].trace)
    /\ settings[module[v].trace][module[v].module] # NULL

SettingsInv == Channels!ChannelInv /\ SettingsType /\ ExpectInv /\ KeptInv

(* The trace of a Log can be found by its name.                            *)
LEMMA UsedIsPresent ==
  ASSUME Channels!ChannelInv, NEW k \in Traces, Used(k)
  PROVE  k \in present
BY SettingsAssumption DEF Used, Logs, Channels!ChannelInv

(* A handle that is kept has a trace and a module.                         *)
LEMMA KeptHandle ==
  ASSUME SettingsInv, NEW v \in kept
  PROVE  /\ module[v] \in ModuleHandle
         /\ module[v].trace \in Traces /\ module[v].module \in ModuleNames \cap Subjects
BY DEF SettingsInv, SettingsType, KeptInv, ModuleHandle, Subjects

(* The invariant holds before the first Log is opened.                     *)
LEMMA Initially ==
  ASSUME Init
  PROVE  SettingsInv
<1>1. Channels!ChannelInv
  BY DEF Init, Channels!Init, Channels!ChannelInv, Channels!Anchored
<1>2. SettingsType
  BY DEF Init, SettingsType, New, Subjects
<1>3. ExpectInv /\ KeptInv
  BY DEF Init, ExpectInv, KeptInv
<1>4. QED
  BY <1>1, <1>2, <1>3 DEF SettingsInv

(* Logs come and go without a trace that remains losing its settings.      *)
LEMMA HandleStepKeeps ==
  ASSUME SettingsInv, HandleStep
  PROVE  SettingsInv'
<1> USE DEF SettingsInv, HandleStep
<1>1. Channels!ChannelInv'
  BY ChannelStep
<1>2. SettingsType'
  BY DEF SettingsType, New, Subjects
<1>3. ASSUME NEW k \in Traces, Used(k), Used(k)'
      PROVE  settings'[k] = settings[k] /\ expect'[k] = expect[k]
  <2>1. k \in present /\ k \in present'
    BY <1>1, <1>3, SettingsAssumption DEF Used, Logs, Channels!ChannelInv
  <2>2. QED
    BY <1>3, <2>1
<1>4. ExpectInv'
  BY <1>3 DEF ExpectInv
<1>5. KeptInv'
  BY <1>3 DEF KeptInv, SettingsType, ModuleHandle
<1>6. QED
  BY <1>1, <1>2, <1>4, <1>5

(* A step that leaves the handles alone leaves them what they were.        *)
LEMMA HandlesStay ==
  ASSUME Channels!ChannelInv, UNCHANGED <<chan, present>>
  PROVE  Channels!ChannelInv' /\ \A k \in Traces : Used(k)' <=> Used(k)
BY DEF Channels!ChannelInv, Channels!Anchored, Channels!Fits, Used

(* A call that sets a name or a level keeps the invariant if what is       *)
(* stored stands for what was meant.                                       *)
LEMMA SetKeeps ==
  ASSUME SettingsInv, NEW k \in Traces, NEW s \in Subjects, NEW value, NEW meant,
         Set(k, s, value, meant), UNCHANGED <<chan, present, module, kept>>,
         Used(k),
         \/ /\ s \in ThreadIds /\ value = meant
            /\ meant \in ThreadNames \cup {NULL}
         \/ /\ s \notin ThreadIds /\ meant \in LevelNames
            /\ value = convert(meant)
  PROVE  SettingsInv'
<1> USE DEF SettingsInv
<1>1. Channels!ChannelInv' /\ \A t \in Traces : Used(t)' <=> Used(t)
  BY HandlesStay
<1>2. s \notin ThreadIds => value \in Nat /\ value # NULL
  BY ConvertLevel, SettingsAssumption
<1>3. SettingsType'
  BY <1>2, SettingsAssumption DEF SettingsType, Set, Subjects
<1>4. ExpectInv'
  BY <1>1 DEF ExpectInv, Set, SettingsType
<1>5. KeptInv'
  BY <1>1, <1>2, SettingsAssumption DEF KeptInv, Set, SettingsType, Subjects, ModuleHandle
<1>6. QED
  BY <1>1, <1>3, <1>4, <1>5

(* A Log through which a call goes uses its trace.                         *)
LEMMA CallerUses ==
  ASSUME NEW h \in Logs, chan[h] \in Traces
  PROVE  Used(chan[h])
BY DEF Used

(* Names of threads are given and taken.                                   *)
LEMMA ThreadStepKeeps ==
  ASSUME SettingsInv, NEW h \in Logs, NEW t \in ThreadIds, NEW id \in {0} \cup ThreadIds,
         \/ \E name \in ThreadNames : RegisterThread(h, t, id, name)
         \/ UnregisterThread(h, t, id)
  PROVE  SettingsInv'
<1> DEFINE thread == IF id = 0 THEN t ELSE id
<1>1. PICK name \in ThreadNames \cup {NULL} :
        /\ chan[h] \in Traces /\ Set(chan[h], thread, name, name)
        /\ UNCHANGED <<chan, present, module, kept>>
  BY DEF RegisterThread, UnregisterThread
<1>2. thread \in Subjects /\ thread \in ThreadIds
  BY DEF Subjects
<1>3. QED
  BY <1>1, <1>2, CallerUses, SetKeeps

(* A module is registered for the first time, again, or not at all.        *)
LEMMA RegisterModuleKeeps ==
  ASSUME SettingsInv, NEW h \in Logs, NEW v \in Vars, NEW name \in ModuleNames,
         RegisterModule(h, v, name)
  PROVE  SettingsInv'
<1> USE DEF SettingsInv
<1>1. /\ Channels!ChannelInv' /\ \A k \in Traces : Used(k)' <=> Used(k)
      /\ chan[h] \in Traces /\ Used(chan[h])
  BY HandlesStay, CallerUses DEF RegisterModule, Register
<1>2. name \in Subjects /\ name \notin ThreadIds
  BY SettingsAssumption DEF Subjects
<1>3. CASE Register(h, v, name)
  <2> USE DEF Register
  <2>1. SettingsType'
    <3>1. [name |-> name, trace |-> chan[h], module |-> name] \in ModuleHandle
      BY <1>1 DEF ModuleHandle
    <3>2. module' \in [Vars -> ModuleHandle \cup {NULL}] /\ kept' \subseteq Vars
      BY <1>3, <3>1 DEF SettingsType
    <3>3. settings[chan[h]]["verbosity"] \in Nat /\ name # "verbosity"
      BY <1>1, SettingsAssumption DEF SettingsType
    <3>4. /\ settings' \in [Traces -> [Subjects -> Nat \cup ThreadNames \cup {NULL}]]
          /\ \A k \in Traces : settings'[k]["verbosity"] \in Nat
      <4>1. CASE settings[chan[h]][name] = NULL
        <5>1. settings' = [settings EXCEPT ![chan[h]][name] = settings[chan[h]]["verbosity"]]
          BY <1>3, <4>1
        <5>2. QED
          BY <1>1, <1>2, <3>3, <5>1 DEF SettingsType, Subjects
      <4>2. CASE settings[chan[h]][name] # NULL
        BY <1>3, <4>2 DEF SettingsType
      <4>3. QED
        BY <4>1, <4>2
    <3>5. QED
      BY <1>3, <3>2, <3>4 DEF SettingsType
  <2>2. settings'[chan[h]][name] # NULL
    BY <1>1, <1>2, <1>3, SettingsAssumption DEF SettingsType
  <2>3. ExpectInv'
    <3>1. ASSUME NEW k \in Traces, NEW s \in Subjects, expect[k][s] # NULL
          PROVE  settings'[k][s] = settings[k][s]
      <4>1. settings[k][s] # NULL
        BY <3>1, ConvertLevel, SettingsAssumption DEF ExpectInv
      <4>2. QED
        BY <1>1, <1>2, <1>3, <4>1 DEF SettingsType
    <3>2. expect' = expect
      BY <1>3
    <3>3. QED
      BY <1>1, <3>1, <3>2 DEF ExpectInv
  <2>4. \A k \in Traces : \A s \in Subjects :
          settings[k][s] # NULL => settings'[k][s] # NULL
    BY <1>1, <1>2, <1>3, <2>2 DEF SettingsType
  <2>5. KeptInv'
    <3>1. module'[v] = [name |-> name, trace |-> chan[h], module |-> name]
      BY <1>3 DEF SettingsType
    <3>2. ASSUME NEW w \in kept, w # v
          PROVE  /\ module'[w] = module[w] /\ module[w].trace \in Traces
                 /\ module[w].module \in Subjects
      BY <1>3, <3>2, KeptHandle DEF SettingsType
    <3>3. module'[v] # NULL
      BY <1>1, <3>1, SettingsAssumption DEF ModuleHandle
    <3>4. QED
      BY <1>1, <1>3, <2>2, <2>4, <3>1, <3>2, <3>3 DEF KeptInv
  <2>6. QED
    BY <1>1, <2>1, <2>3, <2>5
<1>4. CASE /\ module' = [module EXCEPT ![v] = NULL]
           /\ kept' = kept \ {v}
           /\ UNCHANGED <<chan, present, settings, expect>>
  <2>1. SettingsType'
    BY <1>4 DEF SettingsType
  <2>2. ExpectInv'
    BY <1>1, <1>4 DEF ExpectInv
  <2>3. KeptInv'
    BY <1>1, <1>4, KeptHandle DEF KeptInv, SettingsType
  <2>4. QED
    BY <1>1, <2>1, <2>2, <2>3
<1>5. QED
  BY <1>3, <1>4 DEF RegisterModule

(* The verbosity of a trace is set, and its modules follow or do not.      *)
LEMMA SetVerbosityKeeps ==
  ASSUME SettingsInv, NEW h \in Logs, NEW level \in LevelsUsed, SetVerbosity(h, level)
  PROVE  SettingsInv'
<1> USE DEF SettingsInv
<1> DEFINE k == chan[h]
<1>1. /\ Channels!ChannelInv' /\ \A t \in Traces : Used(t)' <=> Used(t)
      /\ k \in Traces /\ Used(k)
  BY HandlesStay, CallerUses DEF SetVerbosity
<1>2. level \in LevelNames /\ level # NULL
      /\ convert(level) \in Nat /\ convert(level) # NULL
  BY SettingsAssumption, ConvertLevel
<1>3. PICK followers \in SUBSET ModuleNames :
        settings' = [settings EXCEPT ![k] =
          [s \in Subjects |-> IF s \in {"verbosity"} \cup followers
                              THEN convert(level) ELSE settings[k][s]]]
  BY DEF SetVerbosity
<1>4. /\ expect' = [expect EXCEPT ![k] =
           [s \in Subjects |-> IF s = "verbosity" THEN level
                               ELSE IF s \in ModuleNames THEN NULL ELSE expect[k][s]]]
      /\ UNCHANGED <<chan, present, module, kept>>
  BY DEF SetVerbosity
<1>5. SettingsType'
  BY <1>1, <1>2, <1>3, <1>4 DEF SettingsType, Subjects
<1>6. ExpectInv'
  BY <1>1, <1>2, <1>3, <1>4, SettingsAssumption DEF ExpectInv, SettingsType, Subjects
<1>7. KeptInv'
  BY <1>1, <1>2, <1>3, <1>4 DEF KeptInv, SettingsType, Subjects, ModuleHandle
<1>8. QED
  BY <1>1, <1>5, <1>6, <1>7

(* The verbosity of a module is set through a handle that is kept.         *)
LEMMA SetModuleVerbosityKeeps ==
  ASSUME SettingsInv, NEW h \in Logs, NEW level \in LevelsUsed, NEW v \in Vars,
         SetModuleVerbosity(h, v, level)
  PROVE  SettingsInv'
<1>1. /\ module[v].module \in ModuleNames /\ chan[h] \in Traces
      /\ Set(chan[h], module[v].module, convert(level), level)
      /\ UNCHANGED <<chan, present, module, kept>>
  BY DEF SetModuleVerbosity, SettingsInv, SettingsType, KeptInv, ModuleHandle
<1>2. module[v].module \in Subjects /\ module[v].module \notin ThreadIds
  BY <1>1, SettingsAssumption DEF Subjects
<1>3. QED
  BY <1>1, <1>2, CallerUses, SetKeeps, SettingsAssumption

(* The invariant holds in every state, however the Logs are used.          *)
THEOREM SettingsInvariant == Spec => []SettingsInv
<1>1. Init => SettingsInv
  BY Initially
<1>2. ASSUME SettingsInv, [Next]_vars
      PROVE  SettingsInv'
  <2>1. CASE UNCHANGED vars
    <3>1. Channels!ChannelInv' /\ \A k \in Traces : Used(k)' <=> Used(k)
      BY <1>2, <2>1, HandlesStay DEF SettingsInv, vars
    <3>2. SettingsType' /\ ExpectInv'
      BY <1>2, <2>1, <3>1 DEF SettingsInv, SettingsType, ExpectInv, vars
    <3>3. KeptInv'
      BY <1>2, <2>1, <3>1, KeptHandle DEF SettingsInv, KeptInv, vars
    <3>4. QED
      BY <3>1, <3>2, <3>3 DEF SettingsInv
  <2>2. CASE Next
    BY <1>2, <2>2, HandleStepKeeps, ThreadStepKeeps, RegisterModuleKeeps,
       SetVerbosityKeeps, SetModuleVerbosityKeeps DEF Next
  <2>3. QED
    BY <1>2, <2>1, <2>2
<1>3. QED
  BY <1>1, <1>2, PTL DEF Spec

-----------------------------------------------------------------------------
(* The properties.                                                         *)

(* What was set through any Log of a name is what every Log of that name   *)
(* finds.                                                                  *)
THEOREM SettingsAreKept == Spec => []SettingsLast
<1>1. ASSUME SettingsInv
      PROVE  SettingsLast
  BY <1>1, ConvertLevel DEF SettingsInv, ExpectInv, SettingsLast, Known, GetVerbosity
<1>2. QED
  BY <1>1, SettingsInvariant, PTL

(* Lines pass from exactly the level on that was set.                      *)
THEOREM LinesAreFiltered == Spec => []LinesFollowVerbosity
<1>1. ASSUME SettingsInv
      PROVE  LinesFollowVerbosity
  <2>1. SUFFICES ASSUME NEW k \in Traces, NEW s \in {"verbosity"} \cup ModuleNames,
                        Known(k, s), NEW i \in DOMAIN Levels, NEW set \in DOMAIN Levels,
                        Levels[set] = expect[k][s]
                 PROVE  Passes(k, s, Levels[i]) <=> set <= i
    BY DEF LinesFollowVerbosity
  <2>2. s \in Subjects /\ s \notin ThreadIds
    BY SettingsAssumption DEF Subjects
  <2>3. settings[k][s] = convert(Levels[set])
    BY <1>1, <2>1, <2>2 DEF SettingsInv, ExpectInv, Known
  <2>4. convert(Levels[set]) = set - 1 /\ convert(Levels[i]) = i - 1
        /\ set \in Nat /\ i \in Nat
    BY ConvertPlace
  <2>5. QED
    BY <2>3, <2>4 DEF Passes
<1>2. QED
  BY <1>1, SettingsInvariant, PTL

(* The handle of a module leads to the module of its name.                 *)
THEOREM ModulesAreReached == Spec => []ModuleReachesTrace
<1>1. ASSUME SettingsInv
      PROVE  ModuleReachesTrace
  BY <1>1 DEF SettingsInv, KeptInv, ModuleReachesTrace
<1>2. QED
  BY <1>1, SettingsInvariant, PTL
=============================================================================
