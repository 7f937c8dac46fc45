---------------------------- MODULE ClientConfig ----------------------------
(***************************************************************************)
(* Client::CreateClientConfig (Client.cpp): the parameters a new client is *)
(* created with, from the flags as the command line has left them.         *)
(***************************************************************************)
EXTENDS Flags

(* The flags that become a parameter of their own, next to the sink.       *)
Forwarded ==
  [log_name |-> "Name", logging |-> "On", log_int_verb |-> "Verb",
   log_pool_size |-> "Pool", log_address |-> "Addr", log_port |-> "Port",
   log_packet_size |-> "PSize", log_window |-> "Window", log_eto |-> "Eto",
   log_format |-> "Format", log_facility |-> "Facility", log_dir |-> "Dir",
   log_roll |-> "Roll", log_files |-> "Files", log_fsize |-> "FSize"]

IsDefault(f) == value[f] = Default[f]

(* A parameter is written when its flag is not the default; that of the    *)
(* pool when the window is not.                                            *)
Written(f) == ~IsDefault(IF f = "log_pool_size" THEN "log_window" ELSE f)

(* static_cast<std::int32_t> of LogInternalVerbosityLevel                  *)
VerbosityCode ==
  [off |-> -1, debug |-> 0, info |-> 1, warning |-> 2, error |-> 3,
   critical |-> 4]

(* std::to_string() writes a bool as 0 or 1.                               *)
Text(f) == CASE f = "log_int_verb" -> VerbosityCode[value[f]]
             [] f = "logging" -> IF value[f] THEN 1 ELSE 0
             [] OTHER -> value[f]

(* The sinks have a parameter name for every enumerator.                   *)
SinkName ==
  [baical |-> "Baical", binary |-> "FileBin", text |-> "FileTxt",
   syslog |-> "Syslog", console |-> "Console", auto |-> "Auto",
   null |-> "Null"]

CreateClientConfig ==
  {<<"Sink", SinkName[value.log_sink]>>} \cup
  {<<Forwarded[f], Text(f)>> : f \in {g \in DOMAIN Forwarded : Written(g)}}
=============================================================================
