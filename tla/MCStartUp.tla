----------------------------- MODULE MCStartUp -----------------------------
(* Command lines over a few arguments of every kind of flag, with a Client *)
(* and a Log of the program.                                               *)
EXTENDS StartUp

CONSTANTS c1, l1, main

MCHandleKind == [h \in Handles |-> IF h = c1 THEN "client" ELSE "trace"]

MCArgs == {<<"log_sink", "text">>, <<"log_sink", "baical">>,
           <<"log_sink", "syslog">>, <<"log_name", 97>>, <<"log_help", TRUE>>,
           <<"logging", FALSE>>,
           <<"log_int_verb", "info">>, <<"log_int_verb", "0">>,
           <<"log_pool_size", 1024>>, <<"log_pool_size", 8192>>,
           <<"log_window", 4>>, <<"log_window", 8>>,
           <<"log_port", 9009>>, <<"log_port", 9010>>, <<"log_packet_size", 1476>>,
           <<"log_address", "::1">>, <<"log_format", "message">>,
           <<"log_facility", 2>>, <<"log_dir", "logs">>, <<"log_fsize", 4097>>}
=============================================================================
