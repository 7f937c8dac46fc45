----------------------------- MODULE LogFormat -----------------------------
(***************************************************************************)
(* The validator of --log_format (AbslParseFlag for LogFormat, Flags.cpp)  *)
(* on texts over a small alphabet, against the grammar it is meant to      *)
(* check: a text is a run of plain characters and of format nodes, each a  *)
(* delimiter and one of the known two-character codes.                     *)
(***************************************************************************)
EXTENDS Texts

CONSTANTS
  Delimiter,  \* '%'
  Codes       \* the known codes: pairs of other characters

ASSUME FormatAssumption ==
  /\ \A code \in Codes : code = <<code[1], code[2]>>
  /\ \A code \in Codes : code[1] # Delimiter /\ code[2] # Delimiter

(* Flags.cpp counts positions from 0: its test is pos + 2 >= length.       *)
Positions(s) == {pos \in 0 .. Len(s) - 1 : s[pos + 1] = Delimiter}

CodeFound(s, pos) ==
  \E code \in Codes : s[pos + 2] = code[1] /\ s[pos + 3] = code[2]

(* Mutant: a node at the very end of the text is taken to be cut short.    *)
WellFormedOffByOne(s) ==
  \A pos \in Positions(s) : ~(pos + 3 >= Len(s)) /\ CodeFound(s, pos)

WellFormed(s) ==
  \A pos \in Positions(s) : ~(pos + 2 >= Len(s)) /\ CodeFound(s, pos)

-----------------------------------------------------------------------------
(* The grammar, on the suffixes of s from position n on.                   *)
Derives(s) ==
  LET suffix[n \in 1 .. Len(s) + 1] ==
        \/ n = Len(s) + 1
        \/ s[n] # Delimiter /\ suffix[n + 1]
        \/ /\ s[n] = Delimiter /\ n + 2 <= Len(s)
           /\ <<s[n + 1], s[n + 2]>> \in Codes
           /\ suffix[n + 3]
  IN  suffix[1]

(* The validator looks at each delimiter by itself and never consumes a    *)
(* node; it still accepts exactly the texts of the grammar, whatever       *)
(* stands at the end of the text or right behind another delimiter.        *)
ValidatorMeetsGrammar == WellFormed(text) <=> Derives(text)
=============================================================================
