------------------------------- MODULE Flags -------------------------------
(***************************************************************************)
(* The command-line flags of the logging client and their validators       *)
(* (Flags.cpp, Flags.hpp).  A validator sees the other flags as they are   *)
(* while its own argument is parsed: what it accepts depends on the order  *)
(* of the arguments.                                                       *)
(*                                                                         *)
(* External: absl::ParseCommandLine() parses the arguments from left to    *)
(* right, leaves the flag of a rejected argument alone, and exits with an  *)
(* error once it has seen them all if it rejected any.                     *)
(***************************************************************************)
EXTENDS Integers, Sequences

CONSTANTS
  Args,     \* <<flag, value>>: the arguments a user may type
  MaxArgs,  \* bound on the length of a command line
  Formats   \* the texts the grammar of --log_format admits (LogFormat)

VARIABLES
  value,    \* FLAGS_...: the value of each flag
  args,     \* history: the arguments parsed so far
  rejected, \* the arguments whose validator returned false
  phase     \* "parsing", "running" or "exited"

flagvars == <<value, args, rejected, phase>>

Sinks == {"baical", "binary", "text", "console", "syslog", "auto", "null"}

(* kLogSinkDefault and the other defaults of Flags.hpp.  A name, address,  *)
(* directory, format or rolling rule is a model string, a name its length, *)
(* and log_fsize counts units of 2^20.                                     *)
Default ==
  [log_sink |-> "auto", log_name |-> 0, logging |-> TRUE,
   log_int_verb |-> "off", log_trace_verb |-> "trace", log_pool_size |-> 4096,
   log_help |-> FALSE, log_address |-> "127.0.0.1", log_port |-> 9010,
   log_packet_size |-> 512, log_window |-> 0, log_eto |-> 0,
   log_format |-> "default", log_facility |-> 1, log_dir |-> "",
   log_roll |-> "", log_files |-> 0, log_fsize |-> 0]

FlagNames == DOMAIN Default

ASSUME FlagsAssumption ==
  /\ MaxArgs \in Nat
  /\ \A a \in Args : a = <<a[1], a[2]>> /\ a[1] \in FlagNames
  /\ \A a \in Args : a[1] \in {"log_pool_size", "log_window"} => a[2] \in Nat

kMaxNameLength == 96
kLogPoolSizeMin == 16
kLogWindowSizeMin == 1
kLogFSizeMax == 4096

(* The sinks each flag "may only be used with".                            *)
AllowedSinks(f) ==
  CASE f \in {"log_address", "log_port", "log_window", "log_eto"} ->
         {"baical", "auto"}
    [] f = "log_packet_size" -> {"baical", "auto", "syslog"}
    [] f = "log_format" -> {"text", "console", "syslog", "auto"}
    [] f = "log_facility" -> {"syslog"}
    [] f \in {"log_dir", "log_roll", "log_files", "log_fsize"} ->
         {"binary", "text", "auto"}
    [] OTHER -> Sinks

Levels == {"debug", "info", "warning", "error", "critical"}

(* Mutant: the bound of the transmission window is not halved.             *)
WindowMaxUnhalved(v) == v.log_pool_size \div v.log_packet_size

(* log_pool_size / log_packet_size / 2, of the flags v as they stand.      *)
WindowMax(v) == (v.log_pool_size \div v.log_packet_size) \div 2

(* What else a value other than the default has to meet.  The validators   *)
(* of the port and the packet size return false at the end as well, so the *)
(* range they test only decides the message.                               *)
InRange(f, x) ==
  CASE f = "log_sink" -> x \in Sinks
    [] f = "log_name" -> x <= kMaxNameLength
    [] f = "log_int_verb" -> x \in Levels \cup {"off"}
    [] f = "log_trace_verb" -> x \in Levels \cup {"trace"}
    [] f = "log_pool_size" -> x >= kLogPoolSizeMin
    [] f = "log_help" -> ~x
    [] f \in {"log_port", "log_packet_size"} -> FALSE
    [] f = "log_window" -> x >= kLogWindowSizeMin /\ x <= WindowMax(value)
    [] f = "log_fsize" -> x <= kLogFSizeMax
    [] f = "log_format" -> x \in Formats
    [] OTHER -> TRUE

(* Mutant: --log_sink is not looked at.                                    *)
AcceptsForAnySink(f, x) == x = Default[f] \/ InRange(f, x)

AbslParseFlag(f, x) ==
  \/ x = Default[f]
  \/ value.log_sink \in AllowedSinks(f) /\ InRange(f, x)

-----------------------------------------------------------------------------
FlagsInit ==
  /\ value = Default
  /\ args = <<>>
  /\ rejected = {}
  /\ phase = "parsing"

ParseArgument(f, x) ==
  /\ phase = "parsing" /\ Len(args) < MaxArgs
  /\ args' = Append(args, <<f, x>>)
  /\ IF AbslParseFlag(f, x)
     THEN value' = [value EXCEPT ![f] = x] /\ UNCHANGED rejected
     ELSE rejected' = rejected \cup {<<f, x>>} /\ UNCHANGED value
  /\ UNCHANGED phase

EndOfArguments ==
  /\ phase = "parsing"
  /\ phase' = IF rejected = {} THEN "running" ELSE "exited"
  /\ UNCHANGED <<value, args, rejected>>

FlagsNext ==
  \/ EndOfArguments
  \/ \E a \in Args : ParseArgument(a[1], a[2])

-----------------------------------------------------------------------------
(* Flag f comes after flag g on the command line.                          *)
After(f, g) == \E i, j \in DOMAIN args : i < j /\ args[i][1] = g /\ args[j][1] = f

SinkLast == \E f \in FlagNames \ {"log_sink"} : After("log_sink", f)
PoolLast == After("log_pool_size", "log_window")
=============================================================================
