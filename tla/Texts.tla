------------------------------- MODULE Texts -------------------------------
(***************************************************************************)
(* All texts of up to MaxLength characters of one alphabet, one character  *)
(* at a time: the inputs of the functions in LogFormat, RawTrace and, on   *)
(* the types of a call's arguments, LogCalls.                              *)
(***************************************************************************)
EXTENDS Naturals, Sequences

CONSTANTS
  Alphabets,  \* sets of characters
  MaxLength   \* bound on the texts

ASSUME TextAssumption == MaxLength \in Nat

VARIABLE text

Init == text = <<>>

Put(c) == Len(text) < MaxLength /\ text' = Append(text, c)

Next == \E a \in Alphabets : \E c \in a : (\A i \in DOMAIN text : text[i] \in a) /\ Put(c)

Spec == Init /\ [][Next]_text
=============================================================================
