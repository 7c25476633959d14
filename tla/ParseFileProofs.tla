--------------------------- MODULE ParseFileProofs ---------------------------
(***************************************************************************)
(* Theorems about ParseFile, for all texts and options: the loops of       *)
(* parse_file come to an end.                                              *)
(***************************************************************************)
EXTENDS ParseFile, WellFoundedInduction, TLAPS

LEMMA SmallestExists ==
  ASSUME NEW S \in SUBSET Nat, S # {}
  PROVE  \E x \in S : \A y \in S : x =< y
<1>1. PICK x \in S : \A y \in S : ~ (<<y, x>> \in OpToRel(<, Nat))
  BY NatLessThanWellFounded, WFMin
<1>2. ASSUME NEW y \in S PROVE x =< y
  <2>1. ~ (y < x)
    BY <1>1 DEF OpToRel
  <2> QED
    BY <2>1
<1> QED
  BY <1>1, <1>2

(***************************************************************************)
(* What find_first_not_of and find_first_of return: a position that is not *)
(* before the one they start from, or npos.                                *)
(***************************************************************************)
LEMMA FoundFirstNot ==
  ASSUME Len(text) \in Nat, npos \in Nat, Len(text) < npos, NEW from \in Nat \ {0}, NEW S
  PROVE  /\ FirstNotOf(S, from) \in from .. Len(text) \cup {npos}
         /\ ~AtEnd(FirstNotOf(S, from)) => text[FirstNotOf(S, from)] \notin S
         /\ ~AtEnd(from) /\ text[from] \notin S => FirstNotOf(S, from) = from
<1> DEFINE I == {i \in from .. Len(text) : text[i] \notin S}
<1>1. FirstNotOf(S, from) = LET i == IF I # {} THEN Min(I) ELSE 0
                               IN IF i = 0 THEN npos ELSE i
  BY DEF FirstNotOf, SelectInSubSeq
<1>2. ASSUME I # {}
      PROVE  Min(I) \in I /\ \A y \in I : Min(I) =< y
  <2>1. I \in SUBSET Nat
    OBVIOUS
  <2>2. \E x \in I : \A y \in I : x =< y
    BY <1>2, <2>1, SmallestExists
  <2> QED
    BY <2>2 DEF Min
<1>3. CASE I # {}
  <2>1. FirstNotOf(S, from) = Min(I)
    BY <1>1, <1>2, <1>3
  <2>2. ~AtEnd(from) /\ text[from] \notin S => from \in I
    BY DEF AtEnd
  <2> QED
    BY <1>2, <1>3, <2>1, <2>2 DEF AtEnd
<1>4. CASE I = {}
  <2>1. FirstNotOf(S, from) = npos
    BY <1>1, <1>4
  <2>2. ~AtEnd(from) => text[from] \in S
    BY <1>4 DEF AtEnd
  <2> QED
    BY <2>1, <2>2 DEF AtEnd
<1> QED
  BY <1>3, <1>4

LEMMA FoundFirst ==
  ASSUME Len(text) \in Nat, npos \in Nat, Len(text) < npos, NEW from \in Nat \ {0}, NEW S
  PROVE  /\ FirstOf(S, from) \in from .. Len(text) \cup {npos}
         /\ ~AtEnd(FirstOf(S, from)) => text[FirstOf(S, from)] \in S
         /\ ~AtEnd(from) /\ text[from] \in S => FirstOf(S, from) = from
<1> DEFINE I == {i \in from .. Len(text) : text[i] \in S}
<1>1. FirstOf(S, from) = LET i == IF I # {} THEN Min(I) ELSE 0
                            IN IF i = 0 THEN npos ELSE i
  BY DEF FirstOf, SelectInSubSeq
<1>2. ASSUME I # {}
      PROVE  Min(I) \in I /\ \A y \in I : Min(I) =< y
  <2>1. I \in SUBSET Nat
    OBVIOUS
  <2>2. \E x \in I : \A y \in I : x =< y
    BY <1>2, <2>1, SmallestExists
  <2> QED
    BY <2>2 DEF Min
<1>3. CASE I # {}
  <2>1. FirstOf(S, from) = Min(I)
    BY <1>1, <1>2, <1>3
  <2>2. ~AtEnd(from) /\ text[from] \in S => from \in I
    BY DEF AtEnd
  <2> QED
    BY <1>2, <1>3, <2>1, <2>2 DEF AtEnd
<1>4. CASE I = {}
  <2>1. FirstOf(S, from) = npos
    BY <1>1, <1>4
  <2>2. ~AtEnd(from) => text[from] \notin S
    BY <1>4 DEF AtEnd
  <2> QED
    BY <2>1, <2>2 DEF AtEnd
<1> QED
  BY <1>3, <1>4

-----------------------------------------------------------------------------
LEMMA ProgressInit == FileInit => ProgressInv
<1> SUFFICES ASSUME FileInit PROVE ProgressInv
  OBVIOUS
<1>1. Len(text) \in Nat /\ npos \in Nat /\ Len(text) + 2 < npos
  BY DocsAssumption DEF FileInit
<1> QED
  BY <1>1 DEF FileInit, ProgressInv

\* A step of parse_file and the value of Distance before and after it.
Progress == pos' > pos \/ (pos' = pos /\ Distance' < Distance)

LEMMA ProgressNext == ProgressInv /\ FileNext => ProgressInv' /\ Progress
<1> SUFFICES ASSUME ProgressInv, FileNext PROVE ProgressInv' /\ Progress
  OBVIOUS
<1> USE DEF ProgressInv
<1> DEFINE Positions == 1 .. Len(text) + 2 \cup {npos}
<1>a. /\ Len(text) \in Nat /\ npos \in Nat /\ Len(text) + 2 < npos
      /\ pos \in Positions
  OBVIOUS
<1>b. PICK p : p = FirstNotOf(wsnl, pos)
  OBVIOUS
<1>c. /\ p \in pos .. Len(text) \cup {npos}
      /\ ~AtEnd(p) => text[p] \notin wsnl
  BY <1>a, <1>b, FoundFirstNot
<1>1. CASE EndOfText
  <2>1. /\ filepc = "line" /\ filepc' = "done" /\ text' = text
        /\ pos' = IF AtEnd(pos) THEN pos ELSE npos
    BY <1>1 DEF EndOfText
  <2>2. CASE AtEnd(pos)
    <3>1. Distance = 1 /\ Distance' = 0
      BY <2>1, <2>2 DEF Distance
    <3> QED
      BY <1>a, <2>1, <2>2, <3>1 DEF Progress
  <2>3. CASE ~AtEnd(pos)
    BY <1>a, <2>1, <2>3 DEF Progress, AtEnd
  <2> QED
    BY <2>2, <2>3
<1>2. CASE Comment
  <2>1. /\ ~AtEnd(p) /\ text[p] = "#" /\ pos' = FirstOf({"\n"}, p)
        /\ filepc = "line" /\ UNCHANGED <<text, filepc>>
    BY <1>2, <1>b DEF Comment
  <2>2. p \in pos .. Len(text)
    BY <1>a, <1>c, <2>1 DEF AtEnd
  <2>3. /\ pos' \in p .. Len(text) \cup {npos}
        /\ ~AtEnd(pos') => text[pos'] \in {"\n"}
    BY <1>a, <2>1, <2>2, FoundFirst
  <2>4. pos' # p
    BY <2>1, <2>3 DEF AtEnd
  <2>5. pos' > pos /\ pos' \in Positions
    BY <1>a, <2>2, <2>3, <2>4
  <2> QED
    BY <2>1, <2>5 DEF Progress
<1>3. CASE Name
  <2>1. PICK optend : optend = clamp(FirstOf(wsnl \cup {"="}, p))
    OBVIOUS
  <2>2. PICK q : q = FirstNotOf(ws, optend)
    OBVIOUS
  <2>3. /\ filepc = "line" /\ ~AtEnd(p) /\ pos' = q /\ text' = text
        /\ filepc' = IF AtEnd(q) \/ text[q] = "\n" THEN "parse" ELSE "value"
    BY <1>3, <1>b, <2>1, <2>2 DEF Name
  <2>4. p \in pos .. Len(text) /\ p \in Nat \ {0}
    BY <1>a, <1>c, <2>3 DEF AtEnd
  <2>5. PICK f : f = FirstOf(wsnl \cup {"="}, p)
    OBVIOUS
  <2>6. /\ f \in p .. Len(text) \cup {npos}
        /\ ~AtEnd(f) => text[f] \in wsnl \cup {"="}
        /\ text[p] \in wsnl \cup {"="} => f = p
    BY <1>a, <2>3, <2>4, <2>5, FoundFirst
  <2>7. /\ optend \in p .. Len(text) + 1
        /\ ~AtEnd(optend) => text[optend] \in wsnl \cup {"="}
        /\ text[p] \in wsnl \cup {"="} => optend = p
    <3>1. optend = IF f < Len(text) + 1 THEN f ELSE Len(text) + 1
      BY <2>1, <2>5 DEF clamp, End
    <3> QED
      BY <1>a, <2>4, <2>6, <3>1 DEF AtEnd
  <2>8. optend \in Nat \ {0}
    BY <1>a, <2>4, <2>7
  <2>9. /\ q \in optend .. Len(text) \cup {npos}
        /\ ~AtEnd(optend) /\ text[optend] \notin ws => q = optend
    BY <1>a, <2>2, <2>8, FoundFirstNot
  <2>10. pos' \in Positions /\ q >= p
    BY <1>a, <2>3, <2>4, <2>7, <2>9
  <2>11. ProgressInv'
    BY <1>a, <2>3, <2>10 DEF AtEnd
  <2>12. CASE p # pos
    BY <1>a, <2>3, <2>4, <2>10, <2>11, <2>12 DEF Progress
  <2>13. CASE text[p] # "="
    <3>1. optend # p
      BY <1>a, <1>c, <2>3, <2>4, <2>7, <2>13 DEF AtEnd
    <3> QED
      BY <1>a, <2>3, <2>4, <2>7, <2>9, <2>11, <3>1 DEF Progress
  <2>14. CASE p = pos /\ text[p] = "="
    <3>1. q = pos /\ ~AtEnd(pos) /\ text[pos] = "="
      BY <2>3, <2>7, <2>9, <2>14 DEF ws
    <3>2. filepc' = "value"
      BY <2>3, <3>1
    <3>3. Distance = 4 /\ Distance' = 3
      BY <2>3, <3>1, <3>2 DEF Distance
    <3> QED
      BY <2>3, <2>11, <3>1, <3>3 DEF Progress
  <2> QED
    BY <2>12, <2>13, <2>14
<1>4. CASE CarriageReturn \/ Plain \/ Escaped
  <2>1. ~AtEnd(pos) /\ pos' = pos + 1 /\ filepc = "value" /\ UNCHANGED <<text, filepc>>
    BY <1>4 DEF CarriageReturn, Plain, Escaped, InValue
  <2> QED
    BY <1>a, <2>1 DEF AtEnd, Progress
<1>5. CASE Continuation
  <2>1. PICK f : f = FirstNotOf(ws, pos + 1)
    OBVIOUS
  <2>2. /\ ~AtEnd(pos) /\ pos' = clamp(f - 1) + 1
        /\ filepc = "value" /\ UNCHANGED <<text, filepc>>
    BY <1>5, <2>1 DEF Continuation, InValue
  <2>3. pos \in 1 .. Len(text) /\ pos + 1 \in Nat \ {0}
    BY <1>a, <2>2 DEF AtEnd
  <2>4. f \in pos + 1 .. Len(text) \cup {npos}
    BY <1>a, <2>1, <2>3, FoundFirstNot
  <2>5. pos' = (IF f - 1 < Len(text) + 1 THEN f - 1 ELSE Len(text) + 1) + 1
    BY <2>2 DEF clamp, End
  <2>6. pos' > pos /\ pos' \in Positions
    BY <1>a, <2>3, <2>4, <2>5
  <2> QED
    BY <1>a, <2>2, <2>6 DEF Progress
<1>6. CASE EndOfValue
  <2>1. /\ filepc = "value" /\ filepc' = "parse" /\ UNCHANGED <<text, pos>>
        /\ AtEnd(pos) \/ text[pos] = "\n"
    BY <1>6 DEF EndOfValue, InValue
  <2>2. Distance = 3 /\ Distance' = 2
    BY <2>1 DEF Distance
  <2> QED
    BY <1>a, <2>1, <2>2 DEF Progress, AtEnd
<1>7. CASE ParseOption
  <2>1. filepc = "parse" /\ filepc' = "line" /\ UNCHANGED <<text, pos>>
    BY <1>7 DEF ParseOption
  <2>2. Distance = 2 /\ Distance' = 1
    BY <2>1 DEF Distance, AtEnd
  <2> QED
    BY <1>a, <2>1, <2>2 DEF Progress
<1>8. CASE FileError
  <2>1. filepc = "parse" /\ filepc' = "failed" /\ UNCHANGED <<text, pos>>
    BY <1>8 DEF FileError
  <2>2. Distance = 2 /\ Distance' = 0
    BY <2>1 DEF Distance
  <2> QED
    BY <1>a, <2>1, <2>2 DEF Progress
<1> QED
  BY <1>1, <1>2, <1>3, <1>4, <1>5, <1>6, <1>7, <1>8 DEF FileNext

LEMMA ProgressStutters == ProgressInv /\ UNCHANGED fileVars => ProgressInv'
  BY DEF ProgressInv, fileVars, AtEnd

(***************************************************************************)
(* Whatever the text is and whatever the options do with their arguments,  *)
(* each step of parse_file's loops comes nearer to the end of the text.    *)
(***************************************************************************)
THEOREM FileProgresses == FileInit /\ [][FileNext]_fileVars => ParseProgresses
<1>1. FileInit => ProgressInv
  BY ProgressInit
<1>2. ProgressInv /\ [FileNext]_fileVars => ProgressInv'
  BY ProgressNext, ProgressStutters
<1>3. ProgressInv /\ [FileNext]_fileVars
        => [pos' > pos \/ (pos' = pos /\ Distance' < Distance)]_fileVars
  BY ProgressNext DEF Progress
<1> QED
  BY <1>1, <1>2, <1>3, PTL DEF ParseProgresses
=============================================================================
