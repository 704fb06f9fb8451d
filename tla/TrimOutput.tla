----------------------------- MODULE TrimOutput -----------------------------
(***************************************************************************)
(* trim_output: what two outputs must share for judge() to take them for   *)
(* equal. The code is one pass over the characters that removes the blanks *)
(* at both ends of each line while it copies, then the newlines at the end *)
(* of the text. Characters are the newline, blanks (space and tab) and     *)
(* letters.                                                                *)
(***************************************************************************)
EXTENDS Naturals, Sequences, FiniteSets

CONSTANTS
  Letters,    \* the characters that are neither newline nor blank
  NL,         \* '\n'
  Blanks,     \* ' ' and '\t'
  MaxTextLen  \* bound of the model: the longest text compared

ASSUME TrimAssumption ==
  /\ NL \notin Letters \cup Blanks
  /\ Letters \cap Blanks = {}
  /\ MaxTextLen \in Nat
-----------------------------------------------------------------------------
\* The loops of pop_back: s without the characters of C at its end.
WithoutTail(s, C) ==
  LET n == CHOOSE n \in 0..Len(s) : /\ n = 0 \/ s[n] \notin C
                                   /\ \A i \in (n + 1)..Len(s) : s[i] \in C
  IN  SubSeq(s, 1, n)

\* The blanks before a newline are left where they are.
KeepTail(r, c) ==
  IF c = NL THEN [out |-> Append(r.out, NL), fresh |-> TRUE]
  ELSE IF c \in Blanks /\ r.fresh THEN r
  ELSE [out |-> Append(r.out, c), fresh |-> FALSE]

\* One character of the input. A line is fresh until something of it was copied;
\* at its newline, the blanks copied last are dropped.
Copy(r, c) ==
  IF c = NL THEN [out |-> Append(WithoutTail(r.out, Blanks), NL), fresh |-> TRUE]
  ELSE IF c \in Blanks /\ r.fresh THEN r
  ELSE [out |-> Append(r.out, c), fresh |-> FALSE]

\* What the pass has copied of the first i characters, for each i.
Passed(s) ==
  LET pass[i \in 0..Len(s)] ==
        IF i = 0 THEN [out |-> <<>>, fresh |-> TRUE] ELSE Copy(pass[i - 1], s[i])
  IN  pass

Trim(s) == WithoutTail(WithoutTail(Passed(s)[Len(s)].out, Blanks), {NL})
-----------------------------------------------------------------------------
(***************************************************************************)
(* The reference: two texts are the same when each line of one is the line *)
(* of the other, blanks at its ends aside; a line that a text does not     *)
(* have counts as an empty one. Blanks inside a line matter, and so do     *)
(* empty lines before the last one that is not empty.                      *)
(***************************************************************************)
Texts == UNION {[1..n -> Letters \cup Blanks \cup {NL}] : n \in 0..MaxTextLen}

LineOf(s, i) == 1 + Cardinality({j \in 1..(i - 1) : s[j] = NL})

\* The k-th line from its first letter to its last one.
Line(s, k) ==
  LET seen == {i \in DOMAIN s : LineOf(s, i) = k /\ s[i] \in Letters}
      first == CHOOSE i \in seen : \A j \in seen : i <= j
      last  == CHOOSE i \in seen : \A j \in seen : i >= j
  IN  IF seen = {} THEN <<>> ELSE SubSeq(s, first, last)

\* What judge() compares, with its exact words about the lines: two outputs are
\* taken for equal exactly when they have the same lines. The one pass of the code
\* (executor_service.cc:481) and its three loops of trimming amount to that for
\* texts that begin or end with blanks, are blank or empty, or end without newline.
TrimComparesLines ==
  LET trimmed == [t \in Texts |-> Trim(t)]
      lines   == [t \in Texts |-> [k \in 1..(MaxTextLen + 1) |-> Line(t, k)]]
  IN  \A a, b \in Texts : trimmed[a] = trimmed[b] <=> lines[a] = lines[b]
=============================================================================
