------------------------------ MODULE StartUp ------------------------------
(***************************************************************************)
(* The command line and the handles together: a client takes its           *)
(* parameters from the flags at the moment it is created (Client.cpp:659)  *)
(* and keeps them, and it is created by whichever handle needs it first -- *)
(* one of static storage duration, before main() has parsed an argument,   *)
(* or a later one.  While main() parses, it builds no handle, and another  *)
(* thread that did would read flags that change under it: not modelled.    *)
(*                                                                         *)
(* The handles are those of NamedChannels, which HandleLifecycle           *)
(* implements.                                                             *)
(***************************************************************************)
EXTENDS ClientConfig

CONSTANTS Handles, HandleKind, Names, Main, NULL, Unbuilt

VARIABLES
  chan, present,  \* those of NamedChannels
  config,         \* the parameters each client was created with
  early           \* history: the clients created before the flags were parsed

startvars == <<flagvars, chan, present, config, early>>

Channels == INSTANCE NamedChannels

ClientKeys == {"client"} \X Names

Init ==
  /\ FlagsInit /\ Channels!Init
  /\ config = [k \in ClientKeys |-> {}]
  /\ early = {}

(* Mutant: the parameters are computed once and kept in a static string.   *)
ConfigComputedOnce(k) ==
  IF k \in present \/ config[k] # {} THEN config[k]
  ELSE IF k \in present' THEN CreateClientConfig ELSE {}

(* The parameters of client k after a step of the handles.                 *)
Configured(k) ==
  IF k \notin present' THEN {}
  ELSE IF k \in present THEN config[k] ELSE CreateClientConfig

HandleStep ==
  /\ phase = "running" \/ (phase = "parsing" /\ args = <<>>)
  /\ Channels!Next
  /\ config' = [k \in ClientKeys |-> Configured(k)]
  /\ early' = {k \in ClientKeys \cap present' :
                 IF k \in present THEN k \in early ELSE phase = "parsing"}
  /\ UNCHANGED flagvars

Next ==
  \/ FlagsNext /\ UNCHANGED <<chan, present, config, early>>
  \/ HandleStep

Spec == Init /\ [][Next]_startvars

-----------------------------------------------------------------------------
(* Properties.                                                             *)

Clients     == ClientKeys \cap present
Has(c, p)   == \E q \in c : q[1] = p
Param(c, p) == (CHOOSE q \in c : q[1] = p)[2]

(* Of the parameters c of a client.                                        *)
FitsSink(c) ==
  \A f \in DOMAIN Forwarded : Has(c, Forwarded[f]) =>
    \E s \in AllowedSinks(f) : Param(c, "Sink") = SinkName[s]

WindowFits(c) ==
  Has(c, "Window") =>
    Param(c, "Window") \in 1 .. value.log_pool_size \div (2 * value.log_packet_size)

(* With --log_sink in front of every other argument, no client gets a      *)
(* parameter that its sink does not take, however many flags follow.       *)
SinkFirstIsEnough == ~SinkLast => \A k \in Clients : FitsSink(config[k])

(* With --log_pool_size in front of --log_window, the window a client gets *)
(* is within the bounds of the pool, whenever it is created.               *)
PoolFirstIsEnough == ~PoolLast => \A k \in Clients : WindowFits(config[k])

(* Only a client that was there before the flags were parsed has other     *)
(* parameters than those of the command line; one that is created anew     *)
(* under the name of such a client has them.                               *)
FlagsReachLaterClients ==
  phase = "running" =>
    \A k \in Clients \ early : config[k] = CreateClientConfig

(* Flags.cpp:301: --log_address and its like "may only be used with" some  *)
(* sinks, whatever the order of the arguments.                             *)
OnlyWithItsSinks == phase = "running" => \A k \in Clients \ early : FitsSink(config[k])

(* A command line made of examples of the help text for the sink "baical", *)
(* in any order and number, is accepted (Client.hpp:57, 108, 123, 128 and  *)
(* 134).                                                                   *)
Examples ==
  {<<"log_sink", "baical">>, <<"log_pool_size", 8192>>,
   <<"log_address", "::1">>, <<"log_port", 9010>>, <<"log_packet_size", 1476>>}

ExamplesAreAccepted ==
  (\A i \in DOMAIN args : args[i] \in Examples) => phase # "exited"

(* Each flag is documented to set a property of the client, as in          *)
(* Client.hpp:100 --log_pool_size that of the buffer pool: a setting that  *)
(* was accepted is among the parameters of a client created later.         *)
SettingsReachClient ==
  \A k \in Clients \ early : \A f \in DOMAIN Forwarded :
    ~IsDefault(f) => <<Forwarded[f], Text(f)>> \in config[k]
=============================================================================
