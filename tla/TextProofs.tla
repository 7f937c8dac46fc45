----------------------------- MODULE TextProofs -----------------------------
(* Machine-checked proofs about LogFormat and LogCalls, for all texts and  *)
(* calls of any length. Texts builds them one character at a time; the two *)
(* theorems are about every text it reaches.                               *)
EXTENDS LogFormat, LogCalls, Integers, FiniteSetTheorems, WellFoundedInduction,
        TLAPS

(* Every non-empty set of natural numbers has a least one. All that is     *)
(* proved here about functions defined by recursion rests on it: the least *)
(* place where something is wrong is the one to look at.                   *)
LEMMA LeastNumber ==
  ASSUME NEW T, T \subseteq Nat, T # {}
  PROVE  \E m \in T : \A n \in T : m <= n
<1> DEFINE R == {ss \in Nat \X Nat : ss[1] < ss[2]}
<1>1. IsWellFoundedOn(R, Nat)
  BY NatLessThanWellFounded DEF OpToRel
<1> HIDE DEF R
<1>2. \E m \in T : \A n \in T : ~ (<<n, m>> \in R)
  BY <1>1, WFMin
<1>3. \A m, n \in T : ~ (<<n, m>> \in R) => m <= n
  BY DEF R
<1> QED BY <1>2, <1>3

(* A node of the grammar stands behind position n.                         *)
Node(s, n) == n + 2 <= Len(s) /\ <<s[n + 1], s[n + 2]>> \in Codes

(* Every delimiter from position n on begins a node.                       *)
NodesFrom(s, n) == \A pos \in n .. Len(s) : s[pos] = Delimiter => Node(s, pos)

(* What the next character decides, as Derives has it: since no code       *)
(* contains a delimiter, the two characters of a node may be skipped.      *)
LEMMA NodesFromStep ==
  ASSUME NEW C, NEW s \in Seq(C), NEW n \in 1 .. Len(s)
  PROVE  NodesFrom(s, n) <=>
           \/ s[n] # Delimiter /\ NodesFrom(s, n + 1)
           \/ s[n] = Delimiter /\ Node(s, n) /\ NodesFrom(s, n + 3)
<1>0. Len(s) \in Nat
  OBVIOUS
<1>1. CASE s[n] # Delimiter
  BY <1>0, <1>1 DEF NodesFrom
<1>2. CASE s[n] = Delimiter
  <2>1. Node(s, n) => s[n + 1] # Delimiter /\ s[n + 2] # Delimiter
    BY FormatAssumption DEF Node
  <2>2. NodesFrom(s, n) => Node(s, n) /\ NodesFrom(s, n + 3)
    BY <1>0, <1>2 DEF NodesFrom
  <2>3. ASSUME Node(s, n), NodesFrom(s, n + 3)
        PROVE  NodesFrom(s, n)
    <3> SUFFICES ASSUME NEW pos \in n .. Len(s), s[pos] = Delimiter
                 PROVE  Node(s, pos)
      BY DEF NodesFrom
    <3>1. pos = n \/ pos = n + 1 \/ pos = n + 2 \/ pos \in n + 3 .. Len(s)
      BY <1>0
    <3>2. QED
      BY <2>1, <2>3, <3>1 DEF NodesFrom
  <2>4. QED
    BY <1>2, <2>2, <2>3
<1>3. QED
  BY <1>1, <1>2

(* The grammar derives the texts in which every delimiter begins a node.   *)
LEMMA DerivesNodes ==
  ASSUME NEW C, NEW s \in Seq(C)
  PROVE  Derives(s) <=> NodesFrom(s, 1)
<1> DEFINE D == 1 .. Len(s) + 1
           Step(f, n) ==
             \/ n = Len(s) + 1
             \/ s[n] # Delimiter /\ f[n + 1]
             \/ /\ s[n] = Delimiter /\ n + 2 <= Len(s)
                /\ <<s[n + 1], s[n + 2]>> \in Codes
                /\ f[n + 3]
           suffix == CHOOSE f : f = [n \in D |-> Step(f, n)]
<1>1. Derives(s) = suffix[1]
  BY DEF Derives
<1>2. Len(s) \in Nat
  OBVIOUS
<1>3. suffix = [n \in D |-> Step(suffix, n)]
  <2> DEFINE g == [n \in D |-> NodesFrom(s, n)]
  <2>1. ASSUME NEW n \in D
        PROVE  NodesFrom(s, n) <=> Step(g, n)
    <3>1. CASE n = Len(s) + 1
      BY <1>2, <3>1 DEF NodesFrom
    <3>2. CASE n # Len(s) + 1
      <4>1. n \in 1 .. Len(s) /\ n + 1 \in D
        BY <1>2, <3>2
      <4>2. g[n + 1] = NodesFrom(s, n + 1)
        BY <4>1
      <4>3. n + 2 <= Len(s) => n + 3 \in D
        BY <1>2
      <4>4. n + 2 <= Len(s) => g[n + 3] = NodesFrom(s, n + 3)
        BY <4>3
      <4> HIDE DEF g
      <4>5. QED
        BY <3>2, <4>1, <4>2, <4>4, NodesFromStep DEF Node
    <3>3. QED
      BY <3>1, <3>2
  <2>2. ASSUME NEW n \in D
        PROVE  NodesFrom(s, n) = Step(g, n)
    <3>1. NodesFrom(s, n) \in BOOLEAN /\ Step(g, n) \in BOOLEAN
      BY DEF NodesFrom
    <3>2. QED
      BY <2>1, <3>1
  <2>3. g = [n \in D |-> Step(g, n)]
    BY <2>2, Zenon
  <2> HIDE DEF g
  <2>4. QED
    BY <2>3, Zenon DEF suffix
<1> HIDE DEF suffix
<1>4. ASSUME NEW n \in D
      PROVE  suffix[n] = Step(suffix, n)
  BY <1>3, Zenon
<1>5. \A n \in D : suffix[n] <=> NodesFrom(s, n)
  <2> DEFINE Wrong == {k \in Nat : k <= Len(s) /\
                         ~(suffix[Len(s) + 1 - k] <=> NodesFrom(s, Len(s) + 1 - k))}
  <2>1. SUFFICES ASSUME Wrong # {} PROVE FALSE
    <3>1. ASSUME NEW n \in D, Wrong = {}
          PROVE  suffix[n] <=> NodesFrom(s, n)
      <4>1. Len(s) + 1 - n \in Nat /\ Len(s) + 1 - n <= Len(s)
            /\ Len(s) + 1 - (Len(s) + 1 - n) = n
        BY <1>2
      <4>2. QED
        BY <3>1, <4>1
    <3>2. QED
      BY <3>1
  <2>2. PICK m \in Wrong : \A k \in Wrong : m <= k
    BY <2>1, LeastNumber
  <2> DEFINE n == Len(s) + 1 - m
  <2>3. m \in Nat /\ m <= Len(s) /\ n \in D /\ ~(suffix[n] <=> NodesFrom(s, n))
    BY <1>2
  <2>4. ASSUME NEW p \in D, p > n
        PROVE  suffix[p] <=> NodesFrom(s, p)
    <3>1. Len(s) + 1 - p \in Nat /\ Len(s) + 1 - p <= Len(s)
          /\ Len(s) + 1 - (Len(s) + 1 - p) = p /\ ~(m <= Len(s) + 1 - p)
      BY <1>2, <2>3, <2>4
    <3>2. Len(s) + 1 - p \notin Wrong
      BY <2>2, <3>1
    <3>3. QED
      BY <3>1, <3>2
  <2> HIDE DEF n
  <2>5. CASE n = Len(s) + 1
    <3>1. suffix[n]
      BY <1>4, <2>3, <2>5, Zenon
    <3>2. NodesFrom(s, n)
      BY <1>2, <2>5 DEF NodesFrom
    <3>3. QED
      BY <2>3, <3>1, <3>2
  <2>6. CASE n # Len(s) + 1
    <3>1. n \in 1 .. Len(s) /\ n + 1 \in D /\ n + 1 > n
      BY <1>2, <2>3, <2>6
    <3>2. suffix[n + 1] <=> NodesFrom(s, n + 1)
      BY <2>4, <3>1
    <3>3. n + 2 <= Len(s) => (suffix[n + 3] <=> NodesFrom(s, n + 3))
      <4>1. n + 2 <= Len(s) => n + 3 \in D /\ n + 3 > n
        BY <1>2, <3>1
      <4>2. QED
        BY <2>4, <4>1
    <3>4. suffix[n] <=> \/ s[n] # Delimiter /\ suffix[n + 1]
                        \/ s[n] = Delimiter /\ Node(s, n) /\ suffix[n + 3]
      BY <1>4, <2>3, <2>6, Zenon DEF Node
    <3>5. QED
      BY <2>3, <3>1, <3>2, <3>3, <3>4, NodesFromStep, Zenon DEF Node
  <2>7. QED
    BY <2>5, <2>6
<1>6. QED
  BY <1>1, <1>2, <1>5

(* The validator accepts the texts in which every delimiter begins a node. *)
LEMMA WellFormedNodes ==
  ASSUME NEW C, NEW s \in Seq(C)
  PROVE  WellFormed(s) <=> NodesFrom(s, 1)
<1>1. Len(s) \in Nat
  OBVIOUS
<1>2. ASSUME NEW n \in 1 .. Len(s)
      PROVE  Node(s, n) <=> ~((n - 1) + 2 >= Len(s)) /\ CodeFound(s, n - 1)
  <2>1. CASE n + 2 <= Len(s)
    <3>1. (n - 1) + 2 = n + 1 /\ (n - 1) + 3 = n + 2
      OBVIOUS
    <3>2. <<s[n + 1], s[n + 2]>> \in Codes <=> CodeFound(s, n - 1)
      BY <3>1, FormatAssumption DEF CodeFound
    <3>3. QED
      BY <1>1, <2>1, <3>2 DEF Node
  <2>2. CASE ~(n + 2 <= Len(s))
    BY <1>1, <2>2 DEF Node
  <2>3. QED
    BY <2>1, <2>2
<1>3. ASSUME WellFormed(s), NEW n \in 1 .. Len(s), s[n] = Delimiter
      PROVE  Node(s, n)
  <2>1. n - 1 \in Positions(s)
    BY <1>1, <1>3 DEF Positions
  <2>2. QED
    BY <1>2, <1>3, <2>1 DEF WellFormed
<1>4. ASSUME NodesFrom(s, 1), NEW pos \in Positions(s)
      PROVE  ~(pos + 2 >= Len(s)) /\ CodeFound(s, pos)
  <2>1. pos + 1 \in 1 .. Len(s) /\ s[pos + 1] = Delimiter /\ (pos + 1) - 1 = pos
    BY <1>1 DEF Positions
  <2>2. QED
    BY <1>2, <1>4, <2>1 DEF NodesFrom
<1>5. QED
  BY <1>3, <1>4 DEF NodesFrom, WellFormed

(* A text is a sequence of characters of the alphabets.                    *)
IsText == text \in Seq(UNION Alphabets)

(* The text is always one of characters of the alphabets.                  *)
LEMMA TextType == Spec => []IsText
<1>1. Init => IsText
  BY DEF Init, IsText
<1>2. IsText /\ [Next]_text => IsText'
  BY DEF Next, Put, IsText
<1>3. QED
  BY <1>1, <1>2, PTL DEF Spec

(* The validator of --log_format accepts exactly the texts its grammar     *)
(* derives, however long they are and whatever the codes.                  *)
THEOREM MeetsGrammar == Spec => []ValidatorMeetsGrammar
<1>1. IsText => ValidatorMeetsGrammar
  BY DerivesNodes, WellFormedNodes DEF ValidatorMeetsGrammar, IsText
<1>2. QED
  BY <1>1, TextType, PTL

-----------------------------------------------------------------------------
(* The calls of the logging functions: a call is read up to its format,    *)
(* where each optional argument is there or not.                           *)

(* The types of the parameters in front of the values.                     *)
ArgTypes == {"level", "number", "module", "location", "string"}

(* A Boolean as a number.                                                  *)
Bit(b) == IF b THEN 1 ELSE 0

(* The parameters in front of the format, by their number: a level, an id, *)
(* a module and a location are each there (1) or not (0).                  *)
Lead(s, i, m, l) ==
  If(s = 1, "level") \o If(i = 1, "number") \o If(m = 1, "module")
    \o If(l = 1, "location")

(* What they are, place by place.                                          *)
IsLead(p, s, i, m, l) ==
  /\ p \in Seq(ArgTypes)
  /\ Len(p) = s + i + m + l
  /\ s = 1 => p[1] = "level"
  /\ i = 1 => p[s + 1] = "number"
  /\ m = 1 => p[s + i + 1] = "module"
  /\ l = 1 => p[s + i + m + 1] = "location"

(* Each of the parameters that are there stands behind those that go       *)
(* before it.                                                              *)
LEMMA LeadIs ==
  ASSUME NEW s \in 0 .. 1, NEW i \in 0 .. 1, NEW m \in 0 .. 1, NEW l \in 0 .. 1
  PROVE  IsLead(Lead(s, i, m, l), s, i, m, l)
<1> DEFINE p == Lead(s, i, m, l)
<1>1. ASSUME NEW b \in 0 .. 1, NEW type \in ArgTypes
      PROVE  /\ If(b = 1, type) \in Seq(ArgTypes) /\ Len(If(b = 1, type)) = b
             /\ b = 1 => If(b = 1, type)[1] = type
  BY <1>1 DEF If
<1>2. ASSUME NEW q \in Seq(ArgTypes), NEW r \in Seq(ArgTypes), NEW b \in 0 .. 1,
             NEW type, Len(r) = b, b = 1 => r[1] = type
      PROVE  /\ q \o r \in Seq(ArgTypes)
             /\ Len(q \o r) = Len(q) + b
             /\ b = 1 => (q \o r)[Len(q) + 1] = type
             /\ \A n \in 1 .. Len(q) : (q \o r)[n] = q[n]
  BY <1>2
<1>0. {"level", "number", "module", "location"} \subseteq ArgTypes
  BY DEF ArgTypes
<1> DEFINE r1 == If(s = 1, "level")
           r2 == If(i = 1, "number")
           r3 == If(m = 1, "module")
           r4 == If(l = 1, "location")
<1>11. r1 \in Seq(ArgTypes) /\ Len(r1) = s /\ (s = 1 => r1[1] = "level")
  BY <1>0, <1>1
<1>12. r2 \in Seq(ArgTypes) /\ Len(r2) = i /\ (i = 1 => r2[1] = "number")
  BY <1>0, <1>1
<1>13. r3 \in Seq(ArgTypes) /\ Len(r3) = m /\ (m = 1 => r3[1] = "module")
  BY <1>0, <1>1
<1>14. r4 \in Seq(ArgTypes) /\ Len(r4) = l /\ (l = 1 => r4[1] = "location")
  BY <1>0, <1>1
<1>4. p = ((r1 \o r2) \o r3) \o r4
  BY DEF Lead
<1> HIDE DEF r1, r2, r3, r4
<1> DEFINE s2 == r1 \o r2
           s3 == s2 \o r3
<1>5. /\ s2 \in Seq(ArgTypes) /\ Len(s2) = s + i
      /\ i = 1 => s2[s + 1] = "number"
      /\ \A n \in 1 .. s : s2[n] = r1[n]
  BY <1>2, <1>11, <1>12
<1>6. p = s3 \o r4
  BY <1>4
<1> HIDE DEF s2
<1>7. /\ s3 \in Seq(ArgTypes) /\ Len(s3) = s + i + m
      /\ m = 1 => s3[s + i + 1] = "module"
      /\ \A n \in 1 .. s + i : s3[n] = s2[n]
  <2>1. /\ s2 \o r3 \in Seq(ArgTypes) /\ Len(s2 \o r3) = Len(s2) + m
        /\ m = 1 => (s2 \o r3)[Len(s2) + 1] = "module"
        /\ \A n \in 1 .. Len(s2) : (s2 \o r3)[n] = s2[n]
    BY <1>2, <1>13, <1>5
  <2>2. QED
    BY <1>5, <2>1
<1> HIDE DEF s3, p
<1>8. /\ p \in Seq(ArgTypes) /\ Len(p) = s + i + m + l
      /\ l = 1 => p[s + i + m + 1] = "location"
      /\ \A n \in 1 .. s + i + m : p[n] = s3[n]
  <2>1. /\ s3 \o r4 \in Seq(ArgTypes) /\ Len(s3 \o r4) = Len(s3) + l
        /\ l = 1 => (s3 \o r4)[Len(s3) + 1] = "location"
        /\ \A n \in 1 .. Len(s3) : (s3 \o r4)[n] = s3[n]
    BY <1>2, <1>14, <1>7
  <2>2. QED
    BY <1>6, <1>7, <2>1
<1>9. IsLead(p, s, i, m, l)
  BY <1>11, <1>5, <1>7, <1>8 DEF IsLead
<1>10. QED
  BY <1>9 DEF p

(* The parameters of an instance in front of its format.                   *)
LEMMA PrefixIs ==
  ASSUME NEW send \in BOOLEAN, NEW o
  PROVE Prefix(send, o) =
    Lead(Bit(send), Bit(HasId(o[1])), Bit(HasModule(o[1])), Bit(HasLocation(o[1])))
<1>1. ASSUME NEW b \in BOOLEAN
      PROVE  b <=> Bit(b) = 1
  BY DEF Bit
<1>2. ASSUME NEW b \in BOOLEAN, NEW type
      PROVE  If(b, type) = If(Bit(b) = 1, type)
  BY <1>1 DEF If
<1>3. HasId(o[1]) \in BOOLEAN /\ HasModule(o[1]) \in BOOLEAN /\ HasLocation(o[1]) \in BOOLEAN
  BY DEF HasId, HasModule, HasLocation
<1>4. QED
  BY <1>2, <1>3, Zenon DEF Prefix, Lead

(* The arguments of a call up to its format, place by place.               *)
Leads(call, f, s, i, m, l) ==
  /\ f \in 1 .. Len(call)
  /\ f = s + i + m + l + 1
  /\ s = 1 => call[1] = "level"
  /\ i = 1 => call[s + 1] = "number"
  /\ m = 1 => call[s + i + 1] = "module"
  /\ l = 1 => call[s + i + m + 1] = "location"
  /\ call[f] = "string"

(* A call whose first f arguments are of the types of an instance's first  *)
(* f parameters.                                                           *)
LEMMA LeadsIff ==
  ASSUME NEW C, NEW call \in Seq(C), NEW f \in 1 .. Len(call),
         NEW s \in 0 .. 1, NEW i \in 0 .. 1, NEW m \in 0 .. 1, NEW l \in 0 .. 1
  PROVE  Leads(call, f, s, i, m, l)
           <=> /\ f = Len(Lead(s, i, m, l)) + 1
               /\ SubSeq(call, 1, f) = Append(Lead(s, i, m, l), "string")
<1> DEFINE p == Lead(s, i, m, l)
<1>1. /\ p \in Seq(ArgTypes)
      /\ Len(p) = s + i + m + l
      /\ s = 1 => p[1] = "level"
      /\ i = 1 => p[s + 1] = "number"
      /\ m = 1 => p[s + i + 1] = "module"
      /\ l = 1 => p[s + i + m + 1] = "location"
  <2>1. IsLead(p, s, i, m, l)
    BY LeadIs
  <2> HIDE DEF p
  <2>2. QED
    BY <2>1 DEF IsLead
<1> HIDE DEF p
<1> DEFINE a == Append(p, "string")
           b == SubSeq(call, 1, f)
<1>2. /\ a \in Seq(ArgTypes) /\ Len(a) = Len(p) + 1 /\ a[Len(p) + 1] = "string"
      /\ \A n \in 1 .. Len(p) : a[n] = p[n]
  <2>1. "string" \in ArgTypes
    BY DEF ArgTypes
  <2>2. QED
    BY <1>1, <2>1
<1>3. b \in Seq(C) /\ Len(b) = f /\ \A n \in 1 .. f : b[n] = call[n]
  OBVIOUS
<1> HIDE DEF a, b
<1>5. ASSUME f = Len(p) + 1, b = a
      PROVE  Leads(call, f, s, i, m, l)
  <2>1. \A n \in 1 .. Len(p) : call[n] = p[n]
    BY <1>1, <1>2, <1>3, <1>5
  <2>2. call[f] = "string"
    BY <1>1, <1>2, <1>3, <1>5
  <2>3. QED
    BY <1>1, <1>5, <2>1, <2>2 DEF Leads
<1>6. ASSUME Leads(call, f, s, i, m, l)
      PROVE  f = Len(p) + 1 /\ b = a
  <2>1. f = Len(p) + 1
    BY <1>1, <1>6 DEF Leads
  <2>2. ASSUME NEW n \in 1 .. Len(p) PROVE call[n] = p[n]
    <3>1. \/ s = 1 /\ n = 1
          \/ i = 1 /\ n = s + 1
          \/ m = 1 /\ n = s + i + 1
          \/ l = 1 /\ n = s + i + m + 1
      BY <1>1
    <3>2. QED
      BY <1>1, <1>6, <3>1 DEF Leads
  <2>3. \A n \in 1 .. f : b[n] = a[n]
    BY <1>1, <1>2, <1>3, <1>6, <2>1, <2>2 DEF Leads
  <2>4. Len(a) = f /\ Len(b) = f
    BY <1>2, <1>3, <2>1
  <2>5. QED
    BY <1>2, <1>3, <2>1, <2>3, <2>4
<1>7. QED
  BY <1>5, <1>6 DEF a, b, p

(* First chooses the least number of a set.                                *)
LEMMA FirstIs ==
  ASSUME NEW S, S \subseteq Nat, NEW n \in S, \A j \in S : n <= j
  PROVE  First(S) = n
<1>1. \A k \in S : (\A j \in S : k <= j) => k = n
  OBVIOUS
<1>2. QED
  BY <1>1, Zenon DEF First

(* The order of the types of arguments tells those in front of the format  *)
(* apart.                                                                  *)
LEMMA OrderIs ==
  /\ Order("level") = 1 /\ Order("number") = 2 /\ Order("module") = 3
  /\ Order("location") = 4 /\ Order("string") = 5
  /\ \A type : /\ Order(type) \in 1 .. 5
               /\ Order(type) = 1 => type = "level"
               /\ Order(type) = 2 => type = "number"
               /\ Order(type) = 3 => type = "module"
               /\ Order(type) = 4 => type = "location"
<1>1. Order("level") = 1 /\ Order("number") = 2 /\ Order("module") = 3
      /\ Order("location") = 4 /\ Order("string") = 5
  BY DEF Order
<1>2. ASSUME NEW type
      PROVE  /\ Order(type) \in 1 .. 5
             /\ Order(type) = 1 => type = "level"
             /\ Order(type) = 2 => type = "number"
             /\ Order(type) = 3 => type = "module"
             /\ Order(type) = 4 => type = "location"
  BY DEF Order
<1>3. QED
  BY <1>1, <1>2

(* Each of the first f arguments is one of the five.                       *)
LEMMA LeadsEach ==
  ASSUME NEW C, NEW call \in Seq(C), NEW f \in Nat,
         NEW s \in 0 .. 1, NEW i \in 0 .. 1, NEW m \in 0 .. 1, NEW l \in 0 .. 1,
         Leads(call, f, s, i, m, l), NEW n \in 1 .. f
  PROVE  \/ s = 1 /\ n = 1 /\ call[n] = "level"
         \/ i = 1 /\ n = s + 1 /\ call[n] = "number"
         \/ m = 1 /\ n = s + i + 1 /\ call[n] = "module"
         \/ l = 1 /\ n = s + i + m + 1 /\ call[n] = "location"
         \/ n = f /\ call[n] = "string"
BY DEF Leads

(* The place of the only argument of a type, or 0 if there is none.        *)
LEMMA LeadsPlace ==
  ASSUME NEW C, NEW call \in Seq(C), NEW f \in 1 .. Len(call),
         NEW type, NEW b \in 0 .. 1, NEW p \in 1 .. f,
         \A n \in 1 .. f : call[n] = type <=> b = 1 /\ n = p
  PROVE  Place(type, call, f) = IF b = 1 THEN p ELSE 0
<1> DEFINE places == {n \in 1 .. f : call[n] = type}
<1>1. CASE b = 1
  <2>1. places \subseteq Nat /\ p \in places /\ \A n \in places : p <= n
    BY <1>1
  <2> HIDE DEF places
  <2>2. First(places) = p /\ places # {}
    BY <2>1, FirstIs
  <2>3. QED
    BY <1>1, <2>2 DEF Place, places
<1>2. CASE b # 1
  <2>1. places = {}
    BY <1>2
  <2>2. QED
    BY <1>2, <2>1 DEF Place
<1>3. QED
  BY <1>1, <1>2

(* Where the arguments in front of the format stand is what the call       *)
(* means: the format is the first literal and the others come in order.    *)
LEMMA LeadsMeans ==
  ASSUME NEW C, NEW call \in Seq(C), NEW f \in Nat,
         NEW s \in 0 .. 1, NEW i \in 0 .. 1, NEW m \in 0 .. 1, NEW l \in 0 .. 1,
         Leads(call, f, s, i, m, l)
  PROVE  /\ Formats(call) # {} /\ First(Formats(call)) = f
         /\ Place("number", call, f) = IF i = 1 THEN s + 1 ELSE 0
         /\ Place("module", call, f) = IF m = 1 THEN s + i + 1 ELSE 0
         /\ Place("location", call, f) = IF l = 1 THEN s + i + m + 1 ELSE 0
         /\ s = 1 <=> call[1] = "level"
         /\ \A a, b \in 1 .. f : a < b => Order(call[a]) < Order(call[b])
<1>1. /\ f \in 1 .. Len(call) /\ f = s + i + m + l + 1 /\ call[f] = "string"
      /\ s + 1 \in 1 .. f /\ s + i + 1 \in 1 .. f /\ s + i + m + 1 \in 1 .. f
      /\ Len(call) \in Nat /\ DOMAIN call = 1 .. Len(call)
  BY DEF Leads
<1>2. ASSUME NEW n \in 1 .. f
      PROVE  \/ s = 1 /\ n = 1 /\ call[n] = "level"
             \/ i = 1 /\ n = s + 1 /\ call[n] = "number"
             \/ m = 1 /\ n = s + i + 1 /\ call[n] = "module"
             \/ l = 1 /\ n = s + i + m + 1 /\ call[n] = "location"
             \/ n = f /\ call[n] = "string"
  BY LeadsEach, SMTT(30)
<1>3. \A n \in 1 .. f : call[n] = "number" <=> i = 1 /\ n = s + 1
  BY <1>1, <1>2
<1>4. \A n \in 1 .. f : call[n] = "module" <=> m = 1 /\ n = s + i + 1
  BY <1>1, <1>2
<1>5. \A n \in 1 .. f : call[n] = "location" <=> l = 1 /\ n = s + i + m + 1
  BY <1>1, <1>2
<1>6. s = 1 <=> call[1] = "level"
  BY <1>1, <1>2
<1>7. First(Formats(call)) = f /\ Formats(call) # {}
  <2>1. Formats(call) \subseteq Nat /\ f \in Formats(call)
    BY <1>1 DEF Formats
  <2>2. \A n \in Formats(call) : f <= n
    BY <1>1, <1>2 DEF Formats
  <2>3. QED
    BY <2>1, <2>2, FirstIs
<1>8. ASSUME NEW a \in 1 .. f, NEW b \in 1 .. f, a < b
      PROVE  Order(call[a]) < Order(call[b])
  BY <1>1, <1>2, <1>8, OrderIs
<1>9. Place("number", call, f) = IF i = 1 THEN s + 1 ELSE 0
  BY <1>1, <1>3, LeadsPlace
<1>10. Place("module", call, f) = IF m = 1 THEN s + i + 1 ELSE 0
  BY <1>1, <1>4, LeadsPlace
<1>11. Place("location", call, f) = IF l = 1 THEN s + i + m + 1 ELSE 0
  BY <1>1, <1>5, LeadsPlace
<1>12. QED
  BY <1>6, <1>7, <1>8, <1>9, <1>10, <1>11

(* A call tells which of the optional arguments it gives.                  *)
LEMMA LeadsUnique ==
  ASSUME NEW C, NEW call \in Seq(C), NEW f \in Nat, NEW g \in Nat,
         NEW s \in 0 .. 1, NEW i \in 0 .. 1, NEW m \in 0 .. 1, NEW l \in 0 .. 1,
         NEW t \in 0 .. 1, NEW j \in 0 .. 1, NEW n \in 0 .. 1, NEW k \in 0 .. 1,
         Leads(call, f, s, i, m, l), Leads(call, g, t, j, n, k)
  PROVE  f = g /\ s = t /\ i = j /\ m = n /\ l = k
<1>1. f = First(Formats(call)) /\ g = First(Formats(call))
  BY LeadsMeans
<1>2. /\ Place("number", call, f) = IF i = 1 THEN s + 1 ELSE 0
      /\ Place("module", call, f) = IF m = 1 THEN s + i + 1 ELSE 0
      /\ Place("location", call, f) = IF l = 1 THEN s + i + m + 1 ELSE 0
      /\ s = 1 <=> call[1] = "level"
  BY LeadsMeans
<1>3. /\ Place("number", call, g) = IF j = 1 THEN t + 1 ELSE 0
      /\ Place("module", call, g) = IF n = 1 THEN t + j + 1 ELSE 0
      /\ Place("location", call, g) = IF k = 1 THEN t + j + n + 1 ELSE 0
      /\ t = 1 <=> call[1] = "level"
  BY LeadsMeans
<1>4. f = g /\ s = t
  BY <1>1, <1>2, <1>3
<1>5. i = j /\ m = n /\ l = k
  <2>1. i = j
    BY <1>2, <1>3, <1>4
  <2>2. m = n
    BY <1>2, <1>3, <1>4
  <2>3. l = k
    BY <1>2, <1>3, <1>4, SMTT(30)
  <2>4. QED
    BY <2>1, <2>2, <2>3
<1>6. QED
  BY <1>4, <1>5

(* A call whose arguments up to the format come in order gives some of the *)
(* optional ones, each at its place.                                       *)
LEMMA LeadsExist ==
  ASSUME NEW C, NEW call \in Seq(C), Formats(call) # {},
         \A a, b \in 1 .. First(Formats(call)) :
           a < b => Order(call[a]) < Order(call[b])
  PROVE  \E s, i, m, l \in 0 .. 1 : Leads(call, First(Formats(call)), s, i, m, l)
<1> DEFINE f == First(Formats(call))
<1>1. f \in 1 .. Len(call) /\ call[f] = "string" /\ Len(call) \in Nat
  <2>1. Formats(call) \subseteq Nat
    BY DEF Formats
  <2>2. PICK n \in Formats(call) : \A j \in Formats(call) : n <= j
    BY <2>1, LeastNumber
  <2>3. f = n
    BY <2>1, <2>2, FirstIs
  <2>4. QED
    BY <2>3 DEF Formats
<1>2. \A a, b \in 1 .. f : a < b => Order(call[a]) < Order(call[b])
  OBVIOUS
<1> HIDE DEF f
<1>3. ASSUME NEW n \in 1 .. f, n < f
      PROVE  /\ Order(call[n]) \in 1 .. 4
             /\ call[n] = "level" <=> Order(call[n]) = 1
             /\ call[n] = "number" <=> Order(call[n]) = 2
             /\ call[n] = "module" <=> Order(call[n]) = 3
             /\ call[n] = "location" <=> Order(call[n]) = 4
  <2>1. Order(call[n]) < Order(call[f]) /\ Order(call[f]) = 5
    BY <1>1, <1>2, <1>3, OrderIs
  <2>2. QED
    BY <2>1, OrderIs
<1>4. f <= 5
  <2> SUFFICES ASSUME f > 5 PROVE FALSE
    BY <1>1
  <2>1. 1 \in 1 .. f /\ 2 \in 1 .. f /\ 3 \in 1 .. f /\ 4 \in 1 .. f /\ 5 \in 1 .. f
        /\ 5 < f
    BY <1>1
  <2>2. Order(call[1]) < Order(call[2]) /\ Order(call[2]) < Order(call[3])
        /\ Order(call[3]) < Order(call[4]) /\ Order(call[4]) < Order(call[5])
    BY <1>2, <2>1
  <2>3. Order(call[1]) \in 1 .. 4 /\ Order(call[2]) \in 1 .. 4 /\ Order(call[3]) \in 1 .. 4
        /\ Order(call[4]) \in 1 .. 4 /\ Order(call[5]) \in 1 .. 4
    BY <1>1, <1>3, <2>1
  <2>4. QED
    BY <2>2, <2>3
<1> DEFINE Has(k) == IF \E n \in 1 .. f : n < f /\ Order(call[n]) = k THEN 1 ELSE 0
<1>5. Has(1) \in 0 .. 1 /\ Has(2) \in 0 .. 1 /\ Has(3) \in 0 .. 1 /\ Has(4) \in 0 .. 1
  OBVIOUS
<1>6. Leads(call, f, Has(1), Has(2), Has(3), Has(4))
  <2>1. CASE f = 1
    BY <1>1, <2>1 DEF Leads
  <2>2. CASE f = 2
    BY <1>1, <1>2, <1>3, <2>2 DEF Leads
  <2>3. CASE f = 3
    BY <1>1, <1>2, <1>3, <2>3 DEF Leads
  <2>4. CASE f = 4
    BY <1>1, <1>2, <1>3, <2>4 DEF Leads
  <2>5. CASE f = 5
    BY <1>1, <1>2, <1>3, <2>5 DEF Leads
  <2>6. QED
    BY <1>1, <1>4, <2>1, <2>2, <2>3, <2>4, <2>5
<1>7. QED
  BY <1>5, <1>6 DEF f

(* Which of the optional parameters an instance has.                       *)
IdBit(o)       == Bit(HasId(o[1]))
ModuleBit(o)   == Bit(HasModule(o[1]))
LocationBit(o) == Bit(HasLocation(o[1]))

(* The numbers say what the Booleans say.                                  *)
LEMMA Bits ==
  /\ \A b \in BOOLEAN : Bit(b) \in 0 .. 1 /\ (b <=> Bit(b) = 1)
  /\ \A o : /\ IdBit(o) \in 0 .. 1 /\ (HasId(o[1]) <=> IdBit(o) = 1)
            /\ ModuleBit(o) \in 0 .. 1 /\ (HasModule(o[1]) <=> ModuleBit(o) = 1)
            /\ LocationBit(o) \in 0 .. 1 /\ (HasLocation(o[1]) <=> LocationBit(o) = 1)
<1>1. ASSUME NEW b \in BOOLEAN
      PROVE  Bit(b) \in 0 .. 1 /\ (b <=> Bit(b) = 1)
  BY DEF Bit
<1>2. ASSUME NEW o
      PROVE  HasId(o[1]) \in BOOLEAN /\ HasModule(o[1]) \in BOOLEAN
             /\ HasLocation(o[1]) \in BOOLEAN
  BY DEF HasId, HasModule, HasLocation
<1>3. QED
  BY <1>1, <1>2, Zenon DEF IdBit, ModuleBit, LocationBit

(* The columns of the tables: an instance is determined by its optional    *)
(* parameters and its number of values, it has none where the location     *)
(* goes first, and there is one for every choice.                          *)
LEMMA Columns ==
  /\ \A o, q \in Instances :
       /\ IdBit(o) = IdBit(q) /\ ModuleBit(o) = ModuleBit(q)
       /\ LocationBit(o) = LocationBit(q) /\ o[2] = q[2]
       => o = q
  /\ \A o \in Instances : /\ o[2] \in 0 .. LOG_func_max_args + 1
                          /\ LocationBit(o) = 1 => o[2] = 0
  /\ \A i, m \in 0 .. 1, n \in 0 .. LOG_func_max_args + 1 :
       \E o \in Instances :
         IdBit(o) = i /\ ModuleBit(o) = m /\ LocationBit(o) = 0 /\ o[2] = n
  /\ \A i, m \in 0 .. 1 :
       \E o \in Instances : IdBit(o) = i /\ ModuleBit(o) = m /\ LocationBit(o) = 1
<1> DEFINE I(c) == IF c \in {2, 3, 5, 6, 10, 11} THEN 1 ELSE 0
           M(c) == IF c \in {1, 2, 6, 7, 9, 10} THEN 1 ELSE 0
           L(c) == IF c \in 4 .. 7 THEN 1 ELSE 0
<1>1. \A o : IdBit(o) = I(o[1]) /\ ModuleBit(o) = M(o[1]) /\ LocationBit(o) = L(o[1])
  BY DEF IdBit, ModuleBit, LocationBit, Bit, HasId, HasModule, HasLocation
<1>2. ASSUME NEW o \in Instances
      PROVE  /\ o = <<o[1], o[2]>>
             /\ \/ o[1] \in 0 .. 3 /\ o[2] \in 1 .. LOG_func_max_args + 1
                \/ o[1] \in 4 .. 11 /\ o[2] = 0
  BY DEF Instances
<1>3. LOG_func_max_args \in Nat
  BY CallAssumption
<1>4. ASSUME NEW c \in 0 .. 11, NEW d \in 0 .. 11, c \in 0 .. 3 <=> d \in 0 .. 3,
             I(c) = I(d), M(c) = M(d), L(c) = L(d)
      PROVE  c = d
  BY <1>4
<1>5. ASSUME NEW o \in Instances, NEW q \in Instances,
             IdBit(o) = IdBit(q), ModuleBit(o) = ModuleBit(q),
             LocationBit(o) = LocationBit(q), o[2] = q[2]
      PROVE  o = q
  <2>1. o[1] \in 0 .. 11 /\ q[1] \in 0 .. 11 /\ (o[1] \in 0 .. 3 <=> q[1] \in 0 .. 3)
    BY <1>2, <1>3, <1>5
  <2>2. I(o[1]) = I(q[1]) /\ M(o[1]) = M(q[1]) /\ L(o[1]) = L(q[1])
    BY <1>1, <1>5
  <2>3. o[1] = q[1]
    BY <1>4, <2>1, <2>2
  <2>4. QED
    BY <1>2, <1>5, <2>3
<1>6. ASSUME NEW o \in Instances
      PROVE  /\ o[2] \in 0 .. LOG_func_max_args + 1
             /\ LocationBit(o) = 1 => o[2] = 0
  BY <1>1, <1>2, <1>3
<1>7. ASSUME NEW i \in 0 .. 1, NEW m \in 0 .. 1, NEW n \in 0 .. LOG_func_max_args + 1
      PROVE  \E o \in Instances :
               IdBit(o) = i /\ ModuleBit(o) = m /\ LocationBit(o) = 0 /\ o[2] = n
  <2>1. \E c \in 0 .. 3 : I(c) = i /\ M(c) = m /\ L(c) = 0
    <3>1. /\ I(0) = 0 /\ M(0) = 0 /\ L(0) = 0 /\ I(1) = 0 /\ M(1) = 1 /\ L(1) = 0
          /\ I(2) = 1 /\ M(2) = 1 /\ L(2) = 0 /\ I(3) = 1 /\ M(3) = 0 /\ L(3) = 0
      OBVIOUS
    <3> HIDE DEF I, M, L
    <3>2. QED
      BY <3>1
  <2>2. \E c \in 8 .. 11 : I(c) = i /\ M(c) = m /\ L(c) = 0
    <3>1. /\ I(8) = 0 /\ M(8) = 0 /\ L(8) = 0 /\ I(9) = 0 /\ M(9) = 1 /\ L(9) = 0
          /\ I(10) = 1 /\ M(10) = 1 /\ L(10) = 0 /\ I(11) = 1 /\ M(11) = 0 /\ L(11) = 0
      OBVIOUS
    <3> HIDE DEF I, M, L
    <3>2. QED
      BY <3>1
  <2>3. \E c \in 0 .. 11 : <<c, n>> \in Instances /\ I(c) = i /\ M(c) = m /\ L(c) = 0
    <3> HIDE DEF I, M, L
    <3>1. CASE n = 0
      BY <2>2, <3>1 DEF Instances
    <3>2. CASE n # 0
      BY <1>3, <2>1, <3>2 DEF Instances
    <3>3. QED
      BY <3>1, <3>2
  <2>4. PICK c \in 0 .. 11 : <<c, n>> \in Instances /\ I(c) = i /\ M(c) = m /\ L(c) = 0
    BY <2>3
  <2>5. <<c, n>>[1] = c /\ <<c, n>>[2] = n
    OBVIOUS
  <2> HIDE DEF I, M, L
  <2>6. QED
    BY <1>1, <2>4, <2>5
<1>8. ASSUME NEW i \in 0 .. 1, NEW m \in 0 .. 1
      PROVE  \E o \in Instances : IdBit(o) = i /\ ModuleBit(o) = m /\ LocationBit(o) = 1
  <2>1. \E c \in 4 .. 7 : I(c) = i /\ M(c) = m /\ L(c) = 1
    <3>1. /\ I(4) = 0 /\ M(4) = 0 /\ L(4) = 1 /\ I(5) = 1 /\ M(5) = 0 /\ L(5) = 1
          /\ I(6) = 1 /\ M(6) = 1 /\ L(6) = 1 /\ I(7) = 0 /\ M(7) = 1 /\ L(7) = 1
      OBVIOUS
    <3> HIDE DEF I, M, L
    <3>2. QED
      BY <3>1
  <2>2. PICK c \in 4 .. 7 : I(c) = i /\ M(c) = m /\ L(c) = 1
    BY <2>1
  <2>3. <<c, 0>> \in Instances /\ <<c, 0>>[1] = c
    BY DEF Instances
  <2> HIDE DEF I, M, L
  <2>4. QED
    BY <1>1, <2>2, <2>3
<1>9. QED
  BY <1>5, <1>6, <1>7, <1>8

(* An instance fits a call that gives the arguments it has, with a         *)
(* location behind the values or without.                                  *)
LEMMA ViableIs ==
  ASSUME NEW C, NEW call \in Seq(C), NEW send \in BOOLEAN, NEW o \in Instances
  PROVE  LET f == FormatAt(send, o) IN
         /\ f \in Nat /\ f = Bit(send) + IdBit(o) + ModuleBit(o) + LocationBit(o) + 1
         /\ Viable(send, o, call) <=>
              /\ Leads(call, f, Bit(send), IdBit(o), ModuleBit(o), LocationBit(o))
              /\ Len(call) >= f + o[2]
              /\ \/ HasLocation(o[1]) \/ Len(call) = f + o[2]
                 \/ Len(call) = f + o[2] + 1 /\ call[Len(call)] = "location"
<1> DEFINE f == FormatAt(send, o)
           s == Bit(send)
           i == IdBit(o)
           m == ModuleBit(o)
           l == LocationBit(o)
           p == Lead(s, i, m, l)
<1>1. s \in 0 .. 1 /\ i \in 0 .. 1 /\ m \in 0 .. 1 /\ l \in 0 .. 1
  BY Bits
<1>2. Prefix(send, o) = p
  BY PrefixIs DEF IdBit, ModuleBit, LocationBit
<1>3. f = Len(p) + 1
  BY <1>2 DEF FormatAt
<1> HIDE DEF s, i, m, l
<1>4. Len(p) = s + i + m + l
  <2>1. IsLead(p, s, i, m, l)
    BY <1>1, LeadIs
  <2> HIDE DEF p
  <2>2. QED
    BY <2>1 DEF IsLead
<1>5. o[2] \in Nat /\ Len(call) \in Nat
  BY Columns, CallAssumption
<1> HIDE DEF f
<1>6. ASSUME Len(call) >= f + o[2]
      PROVE  SubSeq(call, 1, f) = Append(p, "string") <=> Leads(call, f, s, i, m, l)
  <2>1. f \in 1 .. Len(call)
    BY <1>1, <1>3, <1>4, <1>5, <1>6
  <2>2. Leads(call, f, s, i, m, l)
          <=> f = Len(p) + 1 /\ SubSeq(call, 1, f) = Append(p, "string")
    <3> HIDE DEF p
    <3>1. \A ss, ii, mm, ll \in 0 .. 1 : Leads(call, f, ss, ii, mm, ll)
          <=> f = Len(Lead(ss, ii, mm, ll)) + 1 /\ SubSeq(call, 1, f) = Append(Lead(ss, ii, mm, ll), "string")
      BY <2>1, LeadsIff
    <3>2. QED
      BY <1>1, <3>1, Zenon DEF p
  <2>3. QED
    BY <1>3, <2>2
<1> HIDE DEF p
<1>7. Viable(send, o, call) <=>
        /\ Len(call) >= f + o[2]
        /\ SubSeq(call, 1, f) = Append(p, "string")
        /\ \/ HasLocation(o[1]) \/ Len(call) = f + o[2]
           \/ Len(call) = f + o[2] + 1 /\ call[Len(call)] = "location"
  BY <1>2 DEF Viable, f
<1>8. f \in Nat /\ f = s + i + m + l + 1
  BY <1>1, <1>3, <1>4
<1>9. QED
  BY <1>6, <1>7, <1>8, Zenon DEF f, s, i, m, l

(* A location behind the values.                                           *)
Trailing(call, f, l) == l = 0 /\ Len(call) > f /\ call[Len(call)] = "location"

(* The place of the last value.                                            *)
End(call, f, l) == IF Trailing(call, f, l) THEN Len(call) - 1 ELSE Len(call)

(* What a call means, in terms of the arguments it gives.                  *)
LEMMA MeaningIs ==
  ASSUME NEW C, NEW call \in Seq(C), NEW f \in Nat,
         NEW s \in 0 .. 1, NEW i \in 0 .. 1, NEW m \in 0 .. 1, NEW l \in 0 .. 1,
         Leads(call, f, s, i, m, l)
  PROVE  Meaning(call) =
           [id |-> IF i = 1 THEN s + 1 ELSE 0,
            module |-> IF m = 1 THEN s + i + 1 ELSE 0,
            location |-> IF Trailing(call, f, l) THEN Len(call)
                         ELSE IF l = 1 THEN s + i + m + 1 ELSE 0,
            format |-> f, values |-> (f + 1) .. End(call, f, l)]
<1>1. First(Formats(call)) = f
  BY LeadsMeans
<1>2. Place("number", call, f) = IF i = 1 THEN s + 1 ELSE 0
  BY LeadsMeans
<1>3. Place("module", call, f) = IF m = 1 THEN s + i + 1 ELSE 0
  BY LeadsMeans
<1>4. Place("location", call, f) = IF l = 1 THEN s + i + m + 1 ELSE 0
  BY LeadsMeans
<1>5. Place("location", call, f) = 0 <=> l = 0
  BY <1>4
<1>6. (Place("location", call, f) = 0 /\ Len(call) > f /\ call[Len(call)] = "location")
        <=> Trailing(call, f, l)
  BY <1>5 DEF Trailing
<1>7. QED
  BY <1>1, <1>2, <1>3, <1>4, <1>6, Zenon DEF Meaning, End

(* An instance that fits and takes all the values hands on what the call   *)
(* means.                                                                  *)
LEMMA ArgumentsAre ==
  ASSUME NEW C, NEW call \in Seq(C), NEW send \in BOOLEAN, NEW o \in Instances,
         NEW f \in Nat, f = FormatAt(send, o),
         NEW s \in 0 .. 1, NEW i \in 0 .. 1, NEW m \in 0 .. 1, NEW l \in 0 .. 1,
         i = IdBit(o), m = ModuleBit(o), l = LocationBit(o),
         Leads(call, f, s, i, m, l),
         l = 1 \/ (l = 0 /\ f + o[2] = End(call, f, l))
  PROVE  RawTraceArguments(send, o, call) = Meaning(call)
<1>1. /\ HasId(o[1]) <=> i = 1
      /\ HasModule(o[1]) <=> m = 1
      /\ HasLocation(o[1]) <=> l = 1
  BY Bits
<1>2. Len(If(HasModule(o[1]), 1)) = m /\ Len(If(HasLocation(o[1]), 1)) = l
  BY <1>1 DEF If
<1>3. f = s + i + m + l + 1 /\ Len(call) \in Nat /\ f <= Len(call)
  BY DEF Leads
<1>4. o[2] \in Nat
  BY Columns, CallAssumption
<1> DEFINE values == IF HasLocation(o[1]) THEN Len(call) - FormatAt(send, o) ELSE o[2]
<1>5. f + values = End(call, f, l)
  BY <1>1, <1>3, <1>4, SMTT(30) DEF End, Trailing
<1>6. (IF HasId(o[1]) THEN f - 1 - (m + l) ELSE 0) = IF i = 1 THEN s + 1 ELSE 0
  BY <1>1, <1>3
<1>7. (IF HasModule(o[1]) THEN f - 1 - l ELSE 0) = IF m = 1 THEN s + i + 1 ELSE 0
  BY <1>1, <1>3
<1>8. (IF HasLocation(o[1]) THEN f - 1
       ELSE IF Len(call) > f + values THEN Len(call) ELSE 0)
      = IF Trailing(call, f, l) THEN Len(call) ELSE IF l = 1 THEN s + i + m + 1 ELSE 0
  BY <1>1, <1>3, <1>5 DEF End, Trailing
<1> DEFINE idv == IF HasId(o[1]) THEN f - 1 - (m + l) ELSE 0
           mdv == IF HasModule(o[1]) THEN f - 1 - l ELSE 0
           lcv == IF HasLocation(o[1]) THEN f - 1
                  ELSE IF Len(call) > f + values THEN Len(call) ELSE 0
<1>9. RawTraceArguments(send, o, call) =
        [id |-> idv, module |-> mdv, location |-> lcv, format |-> f,
         values |-> (f + 1) .. (f + values)]
  BY <1>2 DEF RawTraceArguments
<1>10. Meaning(call) =
         [id |-> idv, module |-> mdv, location |-> lcv, format |-> f,
          values |-> (f + 1) .. (f + values)]
  <2>1. Meaning(call) =
           [id |-> IF i = 1 THEN s + 1 ELSE 0,
            module |-> IF m = 1 THEN s + i + 1 ELSE 0,
            location |-> IF Trailing(call, f, l) THEN Len(call)
                         ELSE IF l = 1 THEN s + i + m + 1 ELSE 0,
            format |-> f, values |-> (f + 1) .. End(call, f, l)]
    BY MeaningIs
  <2> HIDE DEF values
  <2>2. QED
    BY <1>5, <1>6, <1>7, <1>8, <2>1, Zenon
<1> HIDE DEF idv, mdv, lcv, values
<1>11. QED
  BY <1>9, <1>10

(* An instance fits only a call with its leading arguments in order.       *)
LEMMA ViableOrdered ==
  ASSUME NEW C, NEW call \in Seq(C), NEW send \in BOOLEAN, NEW o \in Instances,
         Viable(send, o, call)
  PROVE  InOrder(send, call)
<1> DEFINE f == FormatAt(send, o)
           s == Bit(send)
           i == IdBit(o)
           m == ModuleBit(o)
           l == LocationBit(o)
<1>1. s \in 0 .. 1 /\ i \in 0 .. 1 /\ m \in 0 .. 1 /\ l \in 0 .. 1
      /\ (send <=> s = 1)
  BY Bits
<1>2. f \in Nat /\ Leads(call, f, s, i, m, l)
  BY ViableIs
<1> HIDE DEF f, s, i, m, l
<1>3. /\ Formats(call) # {} /\ First(Formats(call)) = f
      /\ s = 1 <=> call[1] = "level"
      /\ \A a, b \in 1 .. f : a < b => Order(call[a]) < Order(call[b])
  BY <1>1, <1>2, LeadsMeans
<1>4. QED
  BY <1>1, <1>3 DEF InOrder

(* Of the instances that fit a call the functions are meant for, the one   *)
(* for all of its values takes the fewest arguments as template            *)
(* parameters, and hands on what the call means.                           *)
LEMMA IntendedSelects ==
  ASSUME NEW C, NEW call \in Seq(C), NEW send \in BOOLEAN, Intended(send, call)
  PROVE  \E o \in Instances :
           /\ Selected(send, call) = {o}
           /\ RawTraceArguments(send, o, call) = Meaning(call)
<1>1. PICK s, i, m, l \in 0 .. 1 : Leads(call, First(Formats(call)), s, i, m, l)
  BY LeadsExist DEF Intended, InOrder
<1> DEFINE f == First(Formats(call))
<1>2. /\ Leads(call, f, s, i, m, l) /\ f \in Nat /\ f = s + i + m + l + 1
      /\ f <= Len(call) /\ Len(call) \in Nat
  BY <1>1 DEF Leads
<1> HIDE DEF f
<1>3. s = Bit(send) /\ Bit(send) \in 0 .. 1
  <2>1. s = 1 <=> call[1] = "level"
    BY <1>2, LeadsMeans
  <2>2. send <=> s = 1
    BY <2>1 DEF Intended, InOrder
  <2>3. QED
    BY <2>2, Bits
<1>4. ASSUME NEW q \in Instances
      PROVE  Viable(send, q, call) <=>
               /\ FormatAt(send, q) = f /\ IdBit(q) = i /\ ModuleBit(q) = m /\ LocationBit(q) = l
               /\ Len(call) >= f + q[2]
               /\ \/ l = 1 \/ Len(call) = f + q[2]
                  \/ Len(call) = f + q[2] + 1 /\ call[Len(call)] = "location"
  <2> DEFINE g == FormatAt(send, q)
  <2>1. /\ g \in Nat /\ g = s + IdBit(q) + ModuleBit(q) + LocationBit(q) + 1
        /\ Viable(send, q, call) <=>
              /\ Leads(call, g, s, IdBit(q), ModuleBit(q), LocationBit(q))
              /\ Len(call) >= g + q[2]
              /\ \/ HasLocation(q[1]) \/ Len(call) = g + q[2]
                 \/ Len(call) = g + q[2] + 1 /\ call[Len(call)] = "location"
    BY <1>3, ViableIs
  <2> HIDE DEF g
  <2>2. /\ IdBit(q) \in 0 .. 1 /\ ModuleBit(q) \in 0 .. 1 /\ LocationBit(q) \in 0 .. 1
        /\ HasLocation(q[1]) <=> LocationBit(q) = 1
    BY Bits
  <2>3. ASSUME Leads(call, g, s, IdBit(q), ModuleBit(q), LocationBit(q))
        PROVE  g = f /\ IdBit(q) = i /\ ModuleBit(q) = m /\ LocationBit(q) = l
    BY <1>2, <2>1, <2>2, <2>3, LeadsUnique
  <2>4. ASSUME Viable(send, q, call)
        PROVE  /\ g = f /\ IdBit(q) = i /\ ModuleBit(q) = m /\ LocationBit(q) = l
               /\ Len(call) >= f + q[2]
               /\ \/ l = 1 \/ Len(call) = f + q[2]
                  \/ Len(call) = f + q[2] + 1 /\ call[Len(call)] = "location"
    <3>1. g = f /\ IdBit(q) = i /\ ModuleBit(q) = m /\ LocationBit(q) = l
      BY <2>1, <2>3, <2>4
    <3>2. QED
      BY <2>1, <2>2, <2>4, <3>1
  <2>5. ASSUME /\ g = f /\ IdBit(q) = i /\ ModuleBit(q) = m /\ LocationBit(q) = l
               /\ Len(call) >= f + q[2]
               /\ \/ l = 1 \/ Len(call) = f + q[2]
                  \/ Len(call) = f + q[2] + 1 /\ call[Len(call)] = "location"
        PROVE  Viable(send, q, call)
    BY <1>2, <2>1, <2>2, <2>5
  <2>6. QED
    BY <2>4, <2>5 DEF g
<1>5. ASSUME NEW q \in Instances
      PROVE  /\ q[2] \in Nat /\ q[2] <= LOG_func_max_args + 1
             /\ LocationBit(q) = 1 => q[2] = 0
             /\ HasLocation(q[1]) <=> LocationBit(q) = 1
  BY Columns, Bits, CallAssumption
<1>6. CASE l = 1
  <2>1. PICK o \in Instances : IdBit(o) = i /\ ModuleBit(o) = m /\ LocationBit(o) = 1
    BY Columns
  <2>2. FormatAt(send, o) = f
    BY <1>2, <1>3, <1>6, <2>1, ViableIs
  <2>3. Viable(send, o, call)
    BY <1>2, <1>4, <1>5, <1>6, <2>1, <2>2
  <2>4. \A q \in Instances : Viable(send, q, call) => q = o
    BY <1>4, <1>5, <1>6, <2>1, Columns
  <2>5. Candidates(send, call) = {o}
    BY <2>3, <2>4 DEF Candidates
  <2>6. Generic(send, o, call) \in Int
    BY <1>2, <1>5, <1>6, <2>1, <2>2 DEF Generic
  <2>7. Selected(send, call) = {o}
    BY <2>5, <2>6 DEF Selected
  <2>8. RawTraceArguments(send, o, call) = Meaning(call)
    BY <1>2, <1>6, <2>1, <2>2, ArgumentsAre
  <2>9. QED
    BY <2>7, <2>8
<1>7. CASE l = 0
  <2> DEFINE n == End(call, f, l) - f
  <2>0. End(call, f, l) \in Nat
    BY <1>2 DEF End, Trailing
  <2>1. /\ n \in Nat
        /\ n = IF Trailing(call, f, l) THEN Len(call) - 1 - f ELSE Len(call) - f
    BY <1>2 DEF End, Trailing
  <2>2. n <= LOG_func_max_args
    <3>1. Meaning(call) =
           [id |-> IF i = 1 THEN s + 1 ELSE 0,
            module |-> IF m = 1 THEN s + i + 1 ELSE 0,
            location |-> IF Trailing(call, f, l) THEN Len(call)
                         ELSE IF l = 1 THEN s + i + m + 1 ELSE 0,
            format |-> f, values |-> (f + 1) .. End(call, f, l)]
      BY <1>2, MeaningIs
    <3>2. /\ Meaning(call).location = IF Trailing(call, f, l) THEN Len(call)
                                      ELSE IF l = 1 THEN s + i + m + 1 ELSE 0
          /\ Meaning(call).format = f
          /\ Meaning(call).values = (f + 1) .. End(call, f, l)
      BY <3>1
    <3>3. ~(0 < Meaning(call).location /\ Meaning(call).location < Meaning(call).format)
      BY <1>2, <1>7, <3>2
    <3>4. Cardinality((f + 1) .. End(call, f, l)) <= LOG_func_max_args
      BY <3>2, <3>3 DEF Intended
    <3> DEFINE a == f + 1
               e == End(call, f, l)
    <3>5. a \in Int /\ e \in Int /\ n = e - a + 1
      BY <1>2, <2>0
    <3> HIDE DEF a, e, n
    <3>6. Cardinality(a .. e) = IF a > e THEN 0 ELSE e - a + 1
      BY <3>5, FS_Interval
    <3>7. Cardinality(a .. e) <= LOG_func_max_args
      BY <3>4 DEF a, e
    <3>8. QED
      BY <3>5, <3>6, <3>7, CallAssumption
  <2>3. f + n = End(call, f, l)
    BY <1>2, <2>0
  <2> HIDE DEF n
  <2>4. PICK o \in Instances :
          IdBit(o) = i /\ ModuleBit(o) = m /\ LocationBit(o) = 0 /\ o[2] = n
    <3>1. n \in 0 .. LOG_func_max_args + 1
      BY <2>1, <2>2, CallAssumption
    <3>2. QED
      BY <3>1, Columns
  <2>5. FormatAt(send, o) = f
    BY <1>2, <1>3, <1>7, <2>4, ViableIs
  <2>6. Viable(send, o, call)
    BY <1>2, <1>4, <1>7, <2>1, <2>4, <2>5, SMTT(30) DEF Trailing
  <2>7. ASSUME NEW q \in Instances, Viable(send, q, call)
        PROVE  n <= q[2] /\ (q[2] = n => q = o)
    <3>1. /\ IdBit(q) = i /\ ModuleBit(q) = m /\ LocationBit(q) = l
          /\ \/ Len(call) = f + q[2]
             \/ Len(call) = f + q[2] + 1 /\ call[Len(call)] = "location"
      BY <1>4, <1>7, <2>7
    <3>2. n <= q[2]
      BY <1>2, <1>5, <1>7, <2>1, <3>1 DEF Trailing
    <3>3. q[2] = n => q = o
      BY <1>7, <2>4, <3>1, Columns
    <3>4. QED
      BY <3>2, <3>3
  <2>8. \A q \in Candidates(send, call) : q \in Instances /\ Generic(send, q, call) = q[2]
    <3>1. ASSUME NEW q \in Candidates(send, call)
          PROVE  q \in Instances /\ Generic(send, q, call) = q[2]
      <4>1. q \in Instances /\ Viable(send, q, call)
        BY DEF Candidates
      <4>2. LocationBit(q) = 0
        BY <1>4, <1>7, <4>1
      <4>3. QED
        BY <1>5, <4>1, <4>2 DEF Generic
    <3>2. QED
      BY <3>1
  <2>9. o \in Candidates(send, call)
    BY <2>6 DEF Candidates
  <2>10. o \in Selected(send, call)
    BY <2>4, <2>7, <2>8, <2>9 DEF Selected, Candidates
  <2>11. ASSUME NEW q \in Selected(send, call)
         PROVE  q = o
    <3>1. q \in Candidates(send, call) /\ Generic(send, q, call) <= Generic(send, o, call)
      BY <2>9 DEF Selected
    <3>2. q \in Instances /\ Viable(send, q, call) /\ q[2] <= n
      BY <2>4, <2>8, <2>9, <3>1 DEF Candidates
    <3>3. q[2] = n
      BY <1>5, <2>1, <2>7, <3>2
    <3>4. QED
      BY <2>7, <3>2, <3>3
  <2>12. RawTraceArguments(send, o, call) = Meaning(call)
    BY <1>2, <1>7, <2>3, <2>4, <2>5, ArgumentsAre
  <2>13. QED
    BY <2>10, <2>11, <2>12
<1>8. QED
  BY <1>6, <1>7

(* Every call the functions are meant for selects exactly one overload,    *)
(* which hands its arguments on as what they were meant for, and no call   *)
(* with its leading arguments out of order compiles: for any value of      *)
(* LOG_func_max_args and any number of arguments.                          *)
THEOREM CallsMean == Spec => []CallsMeanWhatTheySay
<1>1. IsText => CallsMeanWhatTheySay
  <2>1. ASSUME NEW send \in BOOLEAN, IsText, Intended(send, text)
        PROVE  \E o \in Instances :
                 /\ Selected(send, text) = {o}
                 /\ RawTraceArguments(send, o, text) = Meaning(text)
    BY <2>1, IntendedSelects DEF IsText
  <2>2. ASSUME NEW send \in BOOLEAN, IsText, ~InOrder(send, text)
        PROVE  Candidates(send, text) = {}
    BY <2>2, ViableOrdered DEF IsText, Candidates
  <2>3. QED
    BY <2>1, <2>2 DEF CallsMeanWhatTheySay
<1>2. QED
  BY <1>1, TextType, PTL
=============================================================================
