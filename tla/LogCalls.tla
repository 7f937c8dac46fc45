------------------------------ MODULE LogCalls ------------------------------
(***************************************************************************)
(* The overloads of the logging functions Trace, Debug, ... and SendTrace, *)
(* which three included files generate from tables (LogMetaMetaFuncs.inc,  *)
(* LogMetaFuncs.inc and LogFuncs.inc): which of them a call selects, and   *)
(* what that hands to RawTrace.  A text of Texts is here the list of the   *)
(* types of a call's arguments.                                            *)
(*                                                                         *)
(* External: of the overloads a call fits, C++ selects the one with the    *)
(* fewest arguments left to template parameters, if there is only one; a   *)
(* number converts to the type of an id, a literal to that of the format,  *)
(* and there are no other conversions between the parameters' types.       *)
(***************************************************************************)
EXTENDS Texts, FiniteSets

CONSTANT LOG_func_max_args

ASSUME CallAssumption == LOG_func_max_args \in Nat

(* The columns of the tables: one overload each, but for those of          *)
(* LOG_var_arr, which LogFuncs.inc instantiates for a number of values     *)
(* that its counter runs through from 1, to one more than the maximum.     *)
Instances == ((0 .. 3) \X (1 .. LOG_func_max_args + 1)) \cup ((4 .. 11) \X {0})

HasId(c)       == c \in {2, 3, 5, 6, 10, 11}  \* LOG_id_arr
HasLocation(c) == c \in 4 .. 7                \* LOG_loc_ndef_arr, LOG_template_arr

(* Mutant: LOG_mod_arr says FALSE in column 10.                            *)
HasModuleTypo(c) == c \in {1, 2, 6, 7, 9}

HasModule(c) == c \in {1, 2, 6, 7, 9, 10}     \* LOG_mod_arr

If(test, type) == IF test THEN <<type>> ELSE <<>>

(* The parameters of an instance of SendTrace or of another function that  *)
(* stand in front of the format.                                           *)
Prefix(send, o) ==
  If(send, "level") \o If(HasId(o[1]), "number") \o If(HasModule(o[1]), "module")
    \o If(HasLocation(o[1]), "location")

FormatAt(send, o) == Len(Prefix(send, o)) + 1

(* Behind the format come the values: as many as the instance has, or any  *)
(* number where the location went before; a default one may follow.        *)
Viable(send, o, call) ==
  LET f == FormatAt(send, o) IN
  /\ Len(call) >= f + o[2]
  /\ SubSeq(call, 1, f) = Append(Prefix(send, o), "string")
  /\ \/ HasLocation(o[1]) \/ Len(call) = f + o[2]
     \/ Len(call) = f + o[2] + 1 /\ call[Len(call)] = "location"

Generic(send, o, call) ==
  IF HasLocation(o[1]) THEN Len(call) - FormatAt(send, o) ELSE o[2]

Candidates(send, call) == {o \in Instances : Viable(send, o, call)}

Selected(send, call) ==
  {o \in Candidates(send, call) : \A q \in Candidates(send, call) :
     Generic(send, o, call) <= Generic(send, q, call)}

(* Where the arguments of RawTrace come from: places in the call, 0 for a  *)
(* default, which is id 0, no module and the location of the call.         *)
RawTraceArguments(send, o, call) ==
  LET f      == FormatAt(send, o)
      values == IF HasLocation(o[1]) THEN Len(call) - f ELSE o[2]
      at(has, behind) == IF has THEN f - 1 - behind ELSE 0
  IN  [id       |-> at(HasId(o[1]), Len(If(HasModule(o[1]), 1))
                                      + Len(If(HasLocation(o[1]), 1))),
       module   |-> at(HasModule(o[1]), Len(If(HasLocation(o[1]), 1))),
       location |-> IF HasLocation(o[1]) THEN f - 1
                    ELSE IF Len(call) > f + values THEN Len(call) ELSE 0,
       format   |-> f,
       values   |-> (f + 1) .. (f + values)]

-----------------------------------------------------------------------------
(* The calls the functions are meant for: the level, if it is SendTrace,   *)
(* an id, a module and a location, each optional and in this order, then   *)
(* the format and its values, then the location if it has not come yet.    *)
Order(type) == CASE type = "level" -> 1 [] type = "number" -> 2
                 [] type = "module" -> 3 [] type = "location" -> 4
                 [] OTHER -> 5

Formats(call) == {i \in DOMAIN call : call[i] = "string"}
First(set)    == CHOOSE i \in set : \A j \in set : i <= j

Place(type, call, before) ==
  LET places == {i \in 1 .. before : call[i] = type}
  IN  IF places = {} THEN 0 ELSE First(places)

(* What such a call means, in the terms of RawTraceArguments.              *)
Meaning(call) ==
  LET f        == First(Formats(call))
      leading  == Place("location", call, f)
      trailing == leading = 0 /\ Len(call) > f /\ call[Len(call)] = "location"
  IN  [id |-> Place("number", call, f), module |-> Place("module", call, f),
       location |-> IF trailing THEN Len(call) ELSE leading,
       format |-> f,
       values |-> (f + 1) .. (IF trailing THEN Len(call) - 1 ELSE Len(call))]

InOrder(send, call) ==
  /\ Formats(call) # {}
  /\ \A i, j \in 1 .. First(Formats(call)) :
       i < j => Order(call[i]) < Order(call[j])
  /\ send <=> call[1] = "level"

(* LOG_func_max_args is "maximum size" (Log.hpp:53), which the location in *)
(* front lifts.                                                            *)
Intended(send, call) ==
  /\ InOrder(send, call)
  /\ \/ 0 < Meaning(call).location /\ Meaning(call).location < Meaning(call).format
     \/ Cardinality(Meaning(call).values) <= LOG_func_max_args

(* Whichever optional arguments a call gives and however many values, up   *)
(* to LOG_func_max_args unless the location goes first, exactly one of the *)
(* generated overloads is selected, and it hands every argument on as what *)
(* it was meant for; no call with its leading arguments out of order, or   *)
(* without a format, compiles.                                             *)
CallsMeanWhatTheySay ==
  \A send \in BOOLEAN :
    /\ Intended(send, text) =>
         \E o \in Instances :
           /\ Selected(send, text) = {o}
           /\ RawTraceArguments(send, o, text) = Meaning(text)
    /\ ~InOrder(send, text) => Candidates(send, text) = {}
=============================================================================
