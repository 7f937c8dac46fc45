------------------------------ MODULE MCTexts ------------------------------
(* The functions on texts over one alphabet -- three characters that make  *)
(* two codes, a newline and the delimiter of format nodes --, and calls    *)
(* with arguments of every type.                                           *)
EXTENDS LogFormat, RawTrace, LogCalls

MCAlphabets == {{"m", "s", "t", "nl", "%"},
                {"level", "number", "module", "location", "string"}}
MCCodes     == {<<"m", "s">>, <<"t", "m">>}
=============================================================================
