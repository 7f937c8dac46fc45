------------------------------ MODULE RawTrace ------------------------------
(***************************************************************************)
(* Log::RawTrace (Log.hpp): a formatted message is split at its newlines,  *)
(* each part into pieces of kLineWrapLength characters, and every piece is *)
(* one call of Trace_Managed().  absl::SkipEmpty drops the empty pieces.   *)
(* Every message over a small alphabet is compared with the lines a        *)
(* terminal of that width would show of it.                                *)
(***************************************************************************)
EXTENDS Texts, FiniteSets, SequencesExt

CONSTANTS
  Newline,         \* '\n'
  kLineWrapLength  \* the width

ASSUME WrapAssumption ==
  /\ \E a \in Alphabets : Newline \in a
  /\ kLineWrapLength \in Nat \ {0}

SkipEmpty(parts) ==
  FlattenSeq([n \in DOMAIN parts |->
                IF parts[n] = <<>> THEN <<>> ELSE <<parts[n]>>])

(* absl::StrSplit(message, '\n', absl::SkipEmpty())                        *)
Parts(m) ==
  LET breaks == {0, Len(m) + 1} \cup {i \in DOMAIN m : m[i] = Newline}
      nth(n) == CHOOSE i \in breaks :
                  Cardinality({j \in breaks : j <= i}) = n
  IN  SkipEmpty([n \in 1 .. Cardinality(breaks) - 1 |->
                   SubSeq(m, nth(n) + 1, nth(n + 1) - 1)])

(* Mutant: the last piece is cut by division and its remainder is lost.    *)
SubpartsTruncated(part) ==
  [n \in 1 .. Len(part) \div kLineWrapLength |->
     SubSeq(part, (n - 1) * kLineWrapLength + 1, n * kLineWrapLength)]

(* absl::StrSplit(part, absl::ByLength(kLineWrapLength), absl::SkipEmpty()) *)
Subparts(part) ==
  LET count == (Len(part) + kLineWrapLength - 1) \div kLineWrapLength
  IN  [n \in 1 .. count |->
         SubSeq(part, (n - 1) * kLineWrapLength + 1,
                IF n = count THEN Len(part) ELSE n * kLineWrapLength)]

(* The lines handed to Trace_Managed(), in order.                          *)
Lines(m) == FlattenSeq([n \in DOMAIN Parts(m) |-> Subparts(Parts(m)[n])])

-----------------------------------------------------------------------------
(* A terminal: a newline ends the line, a full line wraps; a line with no  *)
(* letter in it is not shown.                                              *)
Shown(m) ==
  LET screen[n \in 0 .. Len(m)] ==
        IF n = 0 THEN <<<<>>>>
        ELSE LET done == Front(screen[n - 1])
                 line == Last(screen[n - 1])
             IN  IF m[n] = Newline \/ Len(line) = kLineWrapLength
                 THEN done \o <<line, IF m[n] = Newline THEN <<>> ELSE <<m[n]>>>>
                 ELSE Append(done, Append(line, m[n]))
  IN  SkipEmpty(screen[Len(m)])

(* However long the message and wherever its newlines fall, RawTrace sends *)
(* what a terminal would show: no character is lost, repeated or moved, no *)
(* line is longer than the width and none is broken before it is full.     *)
WrapsLikeATerminal == Lines(text) = Shown(text)
=============================================================================
