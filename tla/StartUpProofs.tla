--------------------------- MODULE StartUpProofs ---------------------------
(* Machine-checked proofs about StartUp, for every command line and every  *)
(* use of handles before and after it is parsed.                           *)
EXTENDS StartUp, TLAPS

-----------------------------------------------------------------------------
(* The command line.                                                       *)

Given(f) == \E i \in DOMAIN args : args[i][1] = f

FlagsType ==
  /\ args \in Seq(Args)
  /\ phase \in {"parsing", "running", "exited"}
  /\ DOMAIN value = FlagNames
  /\ value.log_sink \in Sinks
  /\ value.log_packet_size = 512
  /\ value.log_pool_size \in Nat /\ value.log_window \in Nat

(* Only an argument takes a flag from its default.                         *)
GivenInv == \A f \in FlagNames : value[f] # Default[f] => Given(f)

(* With the sink in front, every flag that is set may be used with it.     *)
SinkInv ==
  ~SinkLast => \A f \in FlagNames \ {"log_sink"} :
    value[f] # Default[f] => value.log_sink \in AllowedSinks(f)

(* With the pool in front, the window is within its bounds.                *)
PoolInv ==
  ~PoolLast /\ value.log_window # 0 => value.log_window \in 1 .. WindowMax(value)

FlagsInv == FlagsType /\ GivenInv /\ SinkInv /\ PoolInv

(* The flags that other flags depend on, and their defaults.               *)
LEMMA SomeFlags ==
  /\ {"log_sink", "log_packet_size", "log_pool_size", "log_window"} \subseteq FlagNames
  /\ Default["log_sink"] = "auto" /\ Default["log_packet_size"] = 512
  /\ Default["log_pool_size"] = 4096 /\ Default["log_window"] = 0
BY DEF FlagNames, Default

(* An argument comes after all those before it.                            *)
LEMMA AfterGrows ==
  ASSUME args \in Seq(Args), NEW f, NEW g, NEW a \in Args, args' = Append(args, a)
  PROVE  /\ After(f, g) => After(f, g)'
         /\ a[1] = f /\ Given(g) => After(f, g)'
         /\ Given(g) => Given(g)'
         /\ Given(a[1])'
<1>1. /\ DOMAIN args = 1 .. Len(args) /\ Len(args) \in Nat
      /\ DOMAIN args' = 1 .. Len(args) + 1
      /\ \A i \in DOMAIN args : args'[i] = args[i]
      /\ args'[Len(args) + 1] = a
  OBVIOUS
<1>2. After(f, g) => After(f, g)'
  BY <1>1 DEF After
<1>3. a[1] = f /\ Given(g) => After(f, g)'
  <2>1. SUFFICES ASSUME a[1] = f, NEW i \in DOMAIN args, args[i][1] = g
                 PROVE  After(f, g)'
    BY DEF Given
  <2>2. i \in DOMAIN args' /\ Len(args) + 1 \in DOMAIN args' /\ i < Len(args) + 1
        /\ args'[i][1] = g /\ args'[Len(args) + 1][1] = f
    BY <1>1, <2>1
  <2>3. QED
    BY <2>2 DEF After
<1>4. (Given(g) => Given(g)') /\ Given(a[1])'
  BY <1>1 DEF Given
<1>5. QED
  BY <1>2, <1>3, <1>4

(* The defaults satisfy the invariant of the command line.                 *)
LEMMA FlagsStart ==
  ASSUME FlagsInit
  PROVE  FlagsInv
<1>1. FlagsType
  <2>1. value = Default /\ args = <<>> /\ phase = "parsing"
    BY DEF FlagsInit
  <2>2. QED
    BY <2>1, SomeFlags DEF FlagsType, FlagNames, Sinks
<1>2. GivenInv /\ SinkInv /\ PoolInv
  BY SomeFlags DEF FlagsInit, GivenInv, SinkInv, PoolInv
<1>3. QED
  BY <1>1, <1>2 DEF FlagsInv

(* What an accepted argument meets.                                        *)
LEMMA Accepted ==
  ASSUME FlagsInv, NEW a \in Args, AbslParseFlag(a[1], a[2])
  PROVE  /\ a[1] = "log_sink" => a[2] \in Sinks
         /\ a[1] = "log_packet_size" => a[2] = 512
         /\ a[1] = "log_window" /\ a[2] # 0 => a[2] >= 1 /\ a[2] <= WindowMax(value)
         /\ a[2] # Default[a[1]] => value.log_sink \in AllowedSinks(a[1])
<1>1. a[2] # Default[a[1]] => value.log_sink \in AllowedSinks(a[1])
  BY DEF AbslParseFlag
<1>2. ASSUME a[1] = "log_sink"
      PROVE  a[2] \in Sinks
  BY <1>2, SomeFlags DEF AbslParseFlag, InRange, Sinks
<1>3. ASSUME a[1] = "log_packet_size"
      PROVE  a[2] = 512
  BY <1>3, SomeFlags DEF AbslParseFlag, InRange
<1>4. ASSUME a[1] = "log_window", a[2] # 0
      PROVE  a[2] >= 1 /\ a[2] <= WindowMax(value)
  BY <1>4, SomeFlags DEF AbslParseFlag, InRange, kLogWindowSizeMin
<1>5. QED
  BY <1>1, <1>2, <1>3, <1>4

(* An argument, accepted or rejected, keeps it.                            *)
LEMMA ArgumentKeeps ==
  ASSUME FlagsInv, NEW a \in Args, ParseArgument(a[1], a[2])
  PROVE  FlagsInv'
<1> DEFINE f == a[1]
           x == a[2]
<1> USE DEF FlagsInv
<1>1. args' = Append(args, a) /\ args \in Seq(Args) /\ phase' = phase
  BY FlagsAssumption DEF ParseArgument, FlagsType
<1>2. f \in FlagNames
  BY FlagsAssumption
<1>3. \A g, h : (After(g, h) => After(g, h)') /\ (f = g /\ Given(h) => After(g, h)')
  BY <1>1, AfterGrows
<1>4. (\A g : Given(g) => Given(g)') /\ Given(f)'
  BY <1>1, AfterGrows
<1>5. ~SinkLast' => ~SinkLast /\ (f = "log_sink" =>
        \A g \in FlagNames \ {"log_sink"} : ~Given(g))
  BY <1>3 DEF SinkLast
<1>6. ~PoolLast' => ~PoolLast /\ (f = "log_pool_size" => ~Given("log_window"))
  BY <1>3 DEF PoolLast
<1>7. CASE UNCHANGED value
  <2>1. FlagsType'
    BY <1>1, <1>7 DEF FlagsType
  <2>2. GivenInv' /\ SinkInv' /\ PoolInv'
    BY <1>4, <1>5, <1>6, <1>7 DEF GivenInv, SinkInv, PoolInv, WindowMax
  <2>3. QED
    BY <2>1, <2>2
<1>8. CASE AbslParseFlag(f, x) /\ value' = [value EXCEPT ![f] = x]
  <2>1. value'[f] = x /\ \A g \in FlagNames \ {f} : value'[g] = value[g]
    BY <1>2, <1>8 DEF FlagsType
  <2>2. /\ f = "log_sink" => x \in Sinks
        /\ f = "log_packet_size" => x = 512
        /\ f = "log_window" /\ x # 0 => x >= 1 /\ x <= WindowMax(value)
        /\ x # Default[f] => value.log_sink \in AllowedSinks(f)
    BY <1>8, Accepted
  <2>3. f \in {"log_pool_size", "log_window"} => x \in Nat
    BY FlagsAssumption
  <2>4. FlagsType'
    <3>1. args' \in Seq(Args)
      BY <1>1
    <3>2. DOMAIN value' = FlagNames
      BY <1>8 DEF FlagsType
    <3>3. /\ value'.log_sink \in Sinks /\ value'.log_packet_size = 512
          /\ value'.log_pool_size \in Nat /\ value'.log_window \in Nat
      BY <2>1, <2>2, <2>3, SomeFlags DEF FlagsType
    <3>4. QED
      BY <1>1, <3>1, <3>2, <3>3 DEF FlagsType
  <2>5. GivenInv'
    BY <1>4, <2>1 DEF GivenInv
  <2>6. SinkInv'
    <3>1. CASE f = "log_sink"
      BY <1>5, <2>1, <3>1 DEF SinkInv, GivenInv
    <3>2. CASE f # "log_sink"
      BY <1>5, <2>1, <2>2, <3>2, SomeFlags DEF SinkInv
    <3>3. QED
      BY <3>1, <3>2
  <2>7. PoolInv'
    <3>1. CASE f = "log_pool_size"
      BY <1>6, <2>1, <3>1, SomeFlags DEF PoolInv, GivenInv
    <3>2. CASE f # "log_pool_size"
      <4>1. WindowMax(value') = WindowMax(value)
        BY <2>1, <2>4, <3>2, SomeFlags DEF WindowMax, FlagsType
      <4>2. WindowMax(value) \in Int
        BY DEF WindowMax, FlagsType
      <4>3. CASE f = "log_window"
        BY <2>1, <2>2, <2>3, <4>1, <4>2, <4>3 DEF PoolInv
      <4>4. CASE f # "log_window"
        BY <1>6, <2>1, <4>1, <4>4, SomeFlags DEF PoolInv
      <4>5. QED
        BY <4>3, <4>4
    <3>3. QED
      BY <3>1, <3>2
  <2>8. QED
    BY <2>4, <2>5, <2>6, <2>7
<1>9. QED
  BY <1>7, <1>8 DEF ParseArgument

(* So does every step of parsing.                                          *)
LEMMA FlagsStep ==
  ASSUME FlagsInv, FlagsNext
  PROVE  FlagsInv'
<1>1. CASE EndOfArguments
  <2>1. phase' \in {"parsing", "running", "exited"} /\ UNCHANGED <<value, args>>
    BY <1>1 DEF EndOfArguments
  <2>2. FlagsType'
    BY <2>1 DEF FlagsInv, FlagsType
  <2>3. GivenInv' /\ (SinkLast' <=> SinkLast) /\ (PoolLast' <=> PoolLast)
    BY <2>1 DEF FlagsInv, GivenInv, Given, SinkLast, PoolLast, After
  <2>4. SinkInv' /\ PoolInv'
    BY <2>1, <2>3 DEF FlagsInv, SinkInv, PoolInv, WindowMax
  <2>5. QED
    BY <2>2, <2>3, <2>4 DEF FlagsInv
<1>2. QED
  BY <1>1, ArgumentKeeps DEF FlagsNext

-----------------------------------------------------------------------------
(* The parameters of a client created with the flags as they are.          *)

(* No two flags are passed on under one name.                              *)
LEMMA ForwardedOnce ==
  ASSUME NEW f \in DOMAIN Forwarded, NEW g \in DOMAIN Forwarded,
         Forwarded[f] = Forwarded[g]
  PROVE  f = g
BY DEF Forwarded

(* The sink is passed on by itself, the window under its name.             *)
LEMMA ForwardedFlags ==
  /\ DOMAIN Forwarded \subseteq FlagNames \ {"log_sink"}
  /\ \A f \in DOMAIN Forwarded : Forwarded[f] # "Sink"
  /\ "log_window" \in DOMAIN Forwarded /\ Forwarded["log_window"] = "Window"
BY DEF Forwarded, FlagNames, Default

(* A parameter is the sink, or that of a flag which is written.            *)
LEMMA ParametersOf ==
  ASSUME NEW c \in CreateClientConfig
  PROVE  \/ c = <<"Sink", SinkName[value.log_sink]>>
         \/ \E f \in DOMAIN Forwarded : Written(f) /\ c = <<Forwarded[f], Text(f)>>
BY DEF CreateClientConfig

(* The sink of a new client is the one of the flags.                       *)
LEMMA SinkParameter ==
  Param(CreateClientConfig, "Sink") = SinkName[value.log_sink]
<1>1. <<"Sink", SinkName[value.log_sink]>> \in CreateClientConfig
  BY DEF CreateClientConfig
<1>2. \A q \in CreateClientConfig :
        q[1] = "Sink" => q = <<"Sink", SinkName[value.log_sink]>>
  BY ParametersOf, ForwardedFlags
<1>3. QED
  BY <1>1, <1>2 DEF Param

(* A window is passed on if the flag is set, and as it is set.             *)
LEMMA WindowParameter ==
  ASSUME Has(CreateClientConfig, "Window")
  PROVE  value.log_window # 0 /\ Param(CreateClientConfig, "Window") = value.log_window
<1>1. \A q \in CreateClientConfig : q[1] = "Window" =>
        Written("log_window") /\ q = <<"Window", value.log_window>>
  <2>1. SUFFICES ASSUME NEW q \in CreateClientConfig, q[1] = "Window"
                 PROVE  Written("log_window") /\ q = <<"Window", value.log_window>>
    OBVIOUS
  <2>2. PICK f \in DOMAIN Forwarded : Written(f) /\ q = <<Forwarded[f], Text(f)>>
    BY <2>1, ParametersOf
  <2>3. f = "log_window"
    BY <2>1, <2>2, ForwardedOnce, ForwardedFlags
  <2>4. QED
    BY <2>2, <2>3, ForwardedFlags DEF Text
<1>2. Written("log_window") => value.log_window # 0
  BY SomeFlags DEF Written, IsDefault
<1>3. PICK q \in CreateClientConfig : q[1] = "Window"
  BY DEF Has
<1>4. QED
  BY <1>1, <1>2, <1>3 DEF Param

(* The pool is written when the window is set, which tells nothing of the  *)
(* sink for its own flag; but every sink takes it.                         *)
LEMMA NewFitsSink ==
  ASSUME FlagsInv, ~SinkLast
  PROVE  FitsSink(CreateClientConfig)
<1>1. SUFFICES ASSUME NEW f \in DOMAIN Forwarded, Has(CreateClientConfig, Forwarded[f])
               PROVE  value.log_sink \in AllowedSinks(f)
  BY SinkParameter DEF FitsSink
<1>2. PICK q \in CreateClientConfig : q[1] = Forwarded[f]
  BY <1>1 DEF Has
<1>3. PICK g \in DOMAIN Forwarded : Written(g) /\ q = <<Forwarded[g], Text(g)>>
  BY <1>2, ParametersOf, ForwardedFlags
<1>4. Written(f)
  BY <1>2, <1>3, ForwardedOnce
<1>5. CASE f = "log_pool_size"
  BY <1>5 DEF AllowedSinks, FlagsInv, FlagsType
<1>6. CASE f # "log_pool_size"
  BY <1>4, <1>6, ForwardedFlags DEF Written, IsDefault, FlagsInv, SinkInv
<1>7. QED
  BY <1>5, <1>6

(* The bounds of validator and documentation are one for packets of 512    *)
(* bytes, the only size that is accepted.                                  *)
LEMMA Halved ==
  ASSUME NEW p \in Nat
  PROVE  (p \div 512) \div 2 = p \div (2 * 512)
OBVIOUS

(* A client that is created gets a window within the bounds.               *)
LEMMA NewWindowFits ==
  ASSUME FlagsInv, ~PoolLast
  PROVE  WindowFits(CreateClientConfig)
<1>1. SUFFICES ASSUME Has(CreateClientConfig, "Window")
               PROVE  value.log_window \in 1 .. WindowMax(value)
  <2>1. WindowMax(value) = value.log_pool_size \div (2 * value.log_packet_size)
    BY Halved DEF WindowMax, FlagsInv, FlagsType
  <2>2. QED
    BY <2>1, WindowParameter DEF WindowFits
<1>2. QED
  BY <1>1, WindowParameter DEF FlagsInv, PoolInv

-----------------------------------------------------------------------------
(* The clients.                                                            *)

ConfigInv ==
  \A k \in ClientKeys :
    /\ ~SinkLast => FitsSink(config[k])
    /\ ~PoolLast => WindowFits(config[k])
    /\ Has(config[k], "Window") => Given("log_window")

(* Clients that were there before the flags were parsed are remembered.    *)
EarlyInv ==
  /\ phase = "parsing" => Clients \subseteq early
  /\ phase = "running" => \A k \in Clients \ early : config[k] = CreateClientConfig

StartInv == FlagsInv /\ ConfigInv /\ EarlyInv

(* The parameters of no client fit everything.                             *)
LEMMA NoneFit ==
  FitsSink({}) /\ WindowFits({}) /\ ~Has({}, "Window")
BY DEF FitsSink, WindowFits, Has

(* The invariant holds before any argument and any client.                 *)
LEMMA Initially ==
  ASSUME Init
  PROVE  StartInv
<1>1. FlagsInv
  BY FlagsStart DEF Init
<1>2. ConfigInv
  BY NoneFit DEF Init, ConfigInv
<1>3. EarlyInv
  BY DEF Init, Channels!Init, FlagsInit, EarlyInv, Clients
<1>4. QED
  BY <1>1, <1>2, <1>3 DEF StartInv

(* What parsing does to what it has come after.                            *)
LEMMA ParsingGoesOn ==
  ASSUME FlagsInv, FlagsNext
  PROVE  /\ ~SinkLast' => ~SinkLast
         /\ ~PoolLast' => ~PoolLast
         /\ Given("log_window") => Given("log_window")'
         /\ ~PoolLast' /\ Given("log_window") =>
              value'.log_pool_size = value.log_pool_size
<1>1. CASE EndOfArguments
  BY <1>1 DEF EndOfArguments, SinkLast, PoolLast, After, Given
<1>2. ASSUME NEW a \in Args, ParseArgument(a[1], a[2])
      PROVE  /\ ~SinkLast' => ~SinkLast
             /\ ~PoolLast' => ~PoolLast
             /\ Given("log_window") => Given("log_window")'
             /\ ~PoolLast' /\ Given("log_window") =>
                  value'.log_pool_size = value.log_pool_size
  <2>1. args' = Append(args, a) /\ args \in Seq(Args)
    BY <1>2, FlagsAssumption DEF ParseArgument, FlagsInv, FlagsType
  <2>2. \A g, h : /\ After(g, h) => After(g, h)'
                  /\ a[1] = g /\ Given(h) => After(g, h)'
                  /\ Given(h) => Given(h)'
    BY <2>1, AfterGrows
  <2>3. a[1] # "log_pool_size" => value'.log_pool_size = value.log_pool_size
    BY <1>2, SomeFlags DEF ParseArgument, FlagsInv, FlagsType
  <2>4. QED
    BY <2>2, <2>3 DEF SinkLast, PoolLast
<1>3. QED
  BY <1>1, <1>2 DEF FlagsNext

(* Parsing goes on among the clients that are there.                       *)
LEMMA ParsingKeeps ==
  ASSUME StartInv, FlagsNext, UNCHANGED <<chan, present, config, early>>
  PROVE  StartInv'
<1> USE DEF StartInv
<1>1. FlagsInv'
  BY FlagsStep
<1>2. ConfigInv'
  <2>1. SUFFICES ASSUME NEW k \in ClientKeys
                 PROVE  /\ ~SinkLast' => FitsSink(config'[k])
                        /\ ~PoolLast' => WindowFits(config[k])'
                        /\ Has(config'[k], "Window") => Given("log_window")'
    BY DEF ConfigInv
  <2>2. (~SinkLast' => FitsSink(config'[k]))
        /\ (Has(config'[k], "Window") => Given("log_window")')
    BY ParsingGoesOn DEF ConfigInv
  <2>3. ASSUME ~PoolLast', Has(config[k], "Window")
        PROVE  WindowFits(config[k])'
    <3>1. value'.log_pool_size = value.log_pool_size
          /\ value'.log_packet_size = value.log_packet_size
      BY <1>1, <2>3, ParsingGoesOn DEF ConfigInv, FlagsInv, FlagsType
    <3>2. WindowFits(config[k])
      BY <2>3, ParsingGoesOn DEF ConfigInv
    <3>3. QED
      BY <3>1, <3>2 DEF WindowFits
  <2>4. ~Has(config[k], "Window") => WindowFits(config[k])'
    BY DEF WindowFits
  <2>5. QED
    BY <2>2, <2>3, <2>4
<1>3. EarlyInv'
  <2>1. phase = "parsing" /\ Clients' = Clients
    BY DEF FlagsNext, EndOfArguments, ParseArgument, Clients
  <2>2. QED
    BY <2>1 DEF EarlyInv
<1>4. QED
  BY <1>1, <1>2, <1>3

(* Handles come and go, and clients with them.                             *)
LEMMA HandlesKeep ==
  ASSUME StartInv, HandleStep
  PROVE  StartInv'
<1> USE DEF StartInv
<1>1. UNCHANGED <<value, args, rejected, phase>> /\ phase # "exited"
  BY DEF HandleStep, flagvars
<1>2. \A k \in ClientKeys : config'[k] = Configured(k)
  BY DEF HandleStep
<1>3. (SinkLast' <=> SinkLast) /\ (PoolLast' <=> PoolLast)
      /\ \A f : Given(f)' <=> Given(f)
  BY <1>1 DEF SinkLast, PoolLast, After, Given
<1>4. FlagsInv'
  BY <1>1, <1>3 DEF FlagsInv, FlagsType, GivenInv, SinkInv, PoolInv, WindowMax
<1>5. ConfigInv'
  <2>1. SUFFICES ASSUME NEW k \in ClientKeys
                 PROVE  /\ ~SinkLast => FitsSink(Configured(k))
                        /\ ~PoolLast => WindowFits(Configured(k))
                        /\ Has(Configured(k), "Window") => Given("log_window")
    BY <1>1, <1>2, <1>3 DEF ConfigInv, WindowFits
  <2>2. CASE Configured(k) = {}
    BY <2>2, NoneFit
  <2>3. CASE Configured(k) = config[k]
    BY <2>3 DEF ConfigInv
  <2>4. CASE Configured(k) = CreateClientConfig
    BY <2>4, NewFitsSink, NewWindowFits, WindowParameter, SomeFlags DEF FlagsInv, GivenInv
  <2>5. QED
    BY <2>2, <2>3, <2>4 DEF Configured
<1>6. EarlyInv'
  <2>1. CreateClientConfig' = CreateClientConfig
    BY <1>1 DEF CreateClientConfig, Written, IsDefault, Text
  <2>2. early' = {k \in ClientKeys \cap present' :
                    IF k \in present THEN k \in early ELSE phase = "parsing"}
    BY DEF HandleStep
  <2>3. CASE phase = "parsing"
    BY <1>1, <2>2, <2>3 DEF EarlyInv, Clients
  <2>4. CASE phase = "running"
    BY <1>1, <1>2, <2>1, <2>2, <2>4 DEF EarlyInv, Clients, Configured
  <2>5. QED
    BY <1>1, <2>3, <2>4 DEF FlagsInv, FlagsType
<1>7. QED
  BY <1>4, <1>5, <1>6

(* The invariant holds in every state, before, while and after the command *)
(* line is parsed.                                                         *)
THEOREM StartInvariant == Spec => []StartInv
<1>1. Init => StartInv
  BY Initially
<1>2. ASSUME StartInv, [Next]_startvars
      PROVE  StartInv'
  <2>1. CASE UNCHANGED startvars
    <3>1. UNCHANGED <<value, args, phase, present, config, early>>
      BY <2>1 DEF startvars, flagvars
    <3>2. (SinkLast' <=> SinkLast) /\ (PoolLast' <=> PoolLast)
          /\ (\A f : Given(f)' <=> Given(f)) /\ CreateClientConfig' = CreateClientConfig
      BY <3>1 DEF SinkLast, PoolLast, After, Given, CreateClientConfig, Written,
                  IsDefault, Text
    <3>3. FlagsInv'
      BY <1>2, <3>1, <3>2 DEF StartInv, FlagsInv, FlagsType, GivenInv, SinkInv,
                              PoolInv, WindowMax
    <3>4. ConfigInv' /\ EarlyInv'
      BY <1>2, <3>1, <3>2 DEF StartInv, ConfigInv, EarlyInv, WindowFits, Clients
    <3>5. QED
      BY <3>3, <3>4 DEF StartInv
  <2>2. CASE Next
    BY <1>2, <2>2, ParsingKeeps, HandlesKeep DEF Next
  <2>3. QED
    BY <1>2, <2>1, <2>2
<1>3. QED
  BY <1>1, <1>2, PTL DEF Spec

-----------------------------------------------------------------------------
(* The properties.                                                         *)

(* With the sink first, no client gets a parameter its sink does not take. *)
THEOREM SinkFirst == Spec => []SinkFirstIsEnough
<1>1. ASSUME StartInv
      PROVE  SinkFirstIsEnough
  BY <1>1 DEF StartInv, ConfigInv, SinkFirstIsEnough, Clients
<1>2. QED
  BY <1>1, StartInvariant, PTL

(* With the pool before the window, the window is within its bounds.       *)
THEOREM PoolFirst == Spec => []PoolFirstIsEnough
<1>1. ASSUME StartInv
      PROVE  PoolFirstIsEnough
  BY <1>1 DEF StartInv, ConfigInv, PoolFirstIsEnough, Clients
<1>2. QED
  BY <1>1, StartInvariant, PTL

(* Clients created once the flags are parsed have the parameters of the    *)
(* command line.                                                           *)
THEOREM LaterClients == Spec => []FlagsReachLaterClients
<1>1. ASSUME StartInv
      PROVE  FlagsReachLaterClients
  BY <1>1 DEF StartInv, EarlyInv, FlagsReachLaterClients
<1>2. QED
  BY <1>1, StartInvariant, PTL
=============================================================================
