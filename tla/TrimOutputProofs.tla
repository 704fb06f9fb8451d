-------------------------- MODULE TrimOutputProofs --------------------------
(***************************************************************************)
(* The proof that trim_output compares texts by their lines, whatever the  *)
(* texts and however long. What it needs to know of the recursive function *)
(* of the pass, and of texts of any length, is shown by the least          *)
(* counterexample: a set of natural numbers that is not empty has a least  *)
(* element.                                                                *)
(***************************************************************************)
EXTENDS JudgeOutput, Integers, FiniteSetTheorems, SequenceTheorems,
        WellFoundedInduction, TLAPS

\* The natural numbers are well-founded, said without an operator as parameter.
LEMMA LeastOf ==
  ASSUME NEW T \in SUBSET Nat, T # {}
  PROVE  \E x \in T : \A y \in T : x <= y
<1>1. PICK x \in T : \A y \in T : ~(<<y, x>> \in OpToRel(<, Nat))
  BY NatLessThanWellFounded, WFMin, Zenon
<1>2. \A y \in T : ~ (y < x)
  BY <1>1 DEF OpToRel
<1> QED
  BY <1>2

\* A set of natural numbers with an upper bound has a greatest element.
LEMMA GreatestOf ==
  ASSUME NEW n \in Nat, NEW T \in SUBSET (0..n), T # {}
  PROVE  \E x \in T : \A y \in T : y <= x
<1> DEFINE U == {n - y : y \in T}
<1>1. U \in SUBSET Nat /\ U # {}
  <2>1. \A y \in T : n - y \in Nat
    OBVIOUS
  <2>2. PICK y \in T : TRUE
    OBVIOUS
  <2>3. n - y \in U
    BY <2>2
  <2> QED
    BY <2>1, <2>3
<1>2. PICK u \in U : \A v \in U : u <= v
  BY <1>1, LeastOf
<1>3. PICK x \in T : u = n - x
  BY <1>2
<1>4. ASSUME NEW y \in T PROVE y <= x
  <2>1. n - x <= n - y
    BY <1>2, <1>3
  <2>2. x \in Int /\ y \in Int
    OBVIOUS
  <2> QED
    BY <2>1, <2>2
<1> QED
  BY <1>4

\* Induction up to a bound: what holds of 0, and of each number below n with its
\* successor, holds of all.
LEMMA UpTo ==
  ASSUME NEW n \in Nat, NEW T \in SUBSET (0..n), 0 \in T,
         \A i \in 0..n : i < n /\ i \in T => i + 1 \in T
  PROVE  T = 0..n
<1> SUFFICES ASSUME (0..n) \ T # {} PROVE FALSE
  OBVIOUS
<1>1. (0..n) \ T \in SUBSET Nat
  OBVIOUS
<1>2. PICK x \in (0..n) \ T : \A y \in (0..n) \ T : x <= y
  BY <1>1, LeastOf
<1>3. x # 0 /\ x \in 0..n /\ x - 1 \in 0..n /\ ~ (x <= x - 1)
  BY <1>2
<1>4. x - 1 \in T
  BY <1>2, <1>3
<1>5. (x - 1) + 1 \in T
  BY <1>3, <1>4
<1> QED
  BY <1>2, <1>3, <1>5
-----------------------------------------------------------------------------
(***************************************************************************)
(* The function of the pass exists.                                        *)
(***************************************************************************)

\* The equation that defines the pass over the first n characters.
Passes(g, s, n) ==
  g = [i \in 0..n |-> IF i = 0 THEN [out |-> <<>>, fresh |-> TRUE]
                      ELSE Copy(g[i - 1], s[i])]

\* From the pass over n characters to the pass over one more.
LEMMA PassExtends ==
  ASSUME NEW s, NEW n \in Nat, NEW g, Passes(g, s, n)
  PROVE  \E h : Passes(h, s, n + 1)
<1> DEFINE h == [i \in 0..(n + 1) |-> IF i <= n THEN g[i] ELSE Copy(g[n], s[i])]
           e(i) == IF i = 0 THEN [out |-> <<>>, fresh |-> TRUE] ELSE Copy(h[i - 1], s[i])
<1>1. ASSUME NEW i \in 0..(n + 1) PROVE h[i] = e(i)
  <2>1. CASE i = 0
    <3>1. h[i] = g[i] /\ i \in 0..n
      BY <2>1
    <3> QED
      BY <2>1, <3>1 DEF Passes
  <2>2. CASE i # 0 /\ i <= n
    <3>1. h[i] = g[i] /\ i \in 0..n /\ i - 1 \in 0..(n + 1) /\ i - 1 <= n
      BY <2>2
    <3>2. h[i - 1] = g[i - 1]
      BY <3>1
    <3>3. g[i] = Copy(g[i - 1], s[i])
      BY <2>2, <3>1 DEF Passes
    <3> QED
      BY <2>2, <3>1, <3>2, <3>3
  <2>3. CASE i = n + 1
    <3>1. h[i] = Copy(g[n], s[i]) /\ i - 1 = n /\ i # 0
      BY <2>3
    <3>2. h[n] = g[n]
      OBVIOUS
    <3> QED
      BY <3>1, <3>2
  <2> QED
    BY <2>1, <2>2, <2>3
<1>2. h = [i \in 0..(n + 1) |-> e(i)]
  BY <1>1
<1>3. Passes(h, s, n + 1)
  BY <1>2 DEF Passes
<1> QED
  BY <1>3

\* What the equation says of each place.
LEMMA PassUnfolds ==
  ASSUME NEW s, NEW n \in Nat, NEW g, Passes(g, s, n)
  PROVE  /\ g[0] = [out |-> <<>>, fresh |-> TRUE]
         /\ \A i \in 1..n : g[i] = Copy(g[i - 1], s[i])
<1>1. ASSUME NEW f,
             f = [i \in 0..n |-> IF i = 0 THEN [out |-> <<>>, fresh |-> TRUE]
                                 ELSE Copy(g[i - 1], s[i])]
      PROVE  /\ f[0] = [out |-> <<>>, fresh |-> TRUE]
             /\ \A i \in 1..n : f[i] = Copy(g[i - 1], s[i])
  BY <1>1
<1> QED
  BY <1>1, Zenon DEF Passes

\* The function that TrimOutput defines by recursion is one: it begins with nothing
\* copied and takes one step of Copy for each character.
LEMMA PassExists ==
  ASSUME NEW s, Len(s) \in Nat
  PROVE  /\ Passed(s)[0] = [out |-> <<>>, fresh |-> TRUE]
         /\ \A i \in 1..Len(s) : Passed(s)[i] = Copy(Passed(s)[i - 1], s[i])
<1> DEFINE n == Len(s)
           T == {m \in 0..n : \E g : Passes(g, s, m)}
<1>1. n \in Nat
  OBVIOUS
<1> HIDE DEF n
<1>2. T \in SUBSET (0..n) /\ 0 \in T
  <2>1. Passes([i \in 0..0 |-> [out |-> <<>>, fresh |-> TRUE]], s, 0)
    BY DEF Passes
  <2> QED
    BY <1>1, <2>1
<1>3. \A i \in 0..n : i < n /\ i \in T => i + 1 \in T
  BY <1>1, PassExtends
<1>4. n \in T
  <2> HIDE DEF T
  <2>1. T = 0..n
    BY <1>1, <1>2, <1>3, UpTo
  <2> QED
    BY <1>1, <2>1
<1>5. PICK g : Passes(g, s, n)
  BY <1>4
<1>6. Passes(Passed(s), s, n)
  BY <1>5 DEF Passes, Passed, n
<1>7. /\ Passed(s)[0] = [out |-> <<>>, fresh |-> TRUE]
      /\ \A i \in 1..n : Passed(s)[i] = Copy(Passed(s)[i - 1], s[i])
  BY <1>1, <1>6, PassUnfolds
<1> QED
  BY <1>7 DEF n
-----------------------------------------------------------------------------
(***************************************************************************)
(* The number of a line.                                                   *)
(***************************************************************************)

Chars == Letters \cup Blanks \cup {NL}

\* Lines are numbered from one, and no faster than the characters.
LEMMA LineOfType ==
  ASSUME NEW s, NEW i \in Nat \ {0}
  PROVE  /\ IsFiniteSet({j \in 1..(i - 1) : s[j] = NL})
         /\ LineOf(s, i) \in Nat /\ 1 <= LineOf(s, i) /\ LineOf(s, i) <= i
<1> DEFINE B == {j \in 1..(i - 1) : s[j] = NL}
<1>1. 1 \in Int /\ i - 1 \in Int
  OBVIOUS
<1>2. IsFiniteSet(1..(i - 1)) /\ Cardinality(1..(i - 1)) = i - 1
  <2>1. /\ IsFiniteSet(1..(i - 1))
        /\ Cardinality(1..(i - 1)) = IF 1 > i - 1 THEN 0 ELSE (i - 1) - 1 + 1
    BY <1>1, FS_Interval
  <2> QED
    BY <2>1
<1>3. B \in SUBSET (1..(i - 1))
  OBVIOUS
<1>4. IsFiniteSet(B) /\ Cardinality(B) <= i - 1
  BY <1>2, <1>3, FS_Subset
<1>5. Cardinality(B) \in Nat
  BY <1>4, FS_CardinalityType
<1> QED
  BY <1>4, <1>5 DEF LineOf

\* Only a newline leads to the next line.
LEMMA LineOfStep ==
  ASSUME NEW s, NEW i \in Nat \ {0}
  PROVE  LineOf(s, i + 1) = IF s[i] = NL THEN LineOf(s, i) + 1 ELSE LineOf(s, i)
<1> DEFINE B == {j \in 1..(i - 1) : s[j] = NL}
           D == {j \in 1..((i + 1) - 1) : s[j] = NL}
<1>1. IsFiniteSet(B) /\ LineOf(s, i) = 1 + Cardinality(B) /\ Cardinality(B) \in Nat
  BY LineOfType, FS_CardinalityType DEF LineOf
<1>2. LineOf(s, i + 1) = 1 + Cardinality(D)
  BY DEF LineOf
<1>3. CASE s[i] = NL
  <2>1. D = B \cup {i} /\ i \notin B
    BY <1>3
  <2>2. Cardinality(D) = Cardinality(B) + 1
    BY <1>1, <2>1, FS_AddElement
  <2> QED
    BY <1>1, <1>2, <1>3, <2>2
<1>4. CASE s[i] # NL
  <2>1. D = B
    BY <1>4
  <2> QED
    BY <1>1, <1>2, <1>4, <2>1
<1> QED
  BY <1>3, <1>4

\* Line numbers grow with the place, and pass each newline.
LEMMA LineOfGrows ==
  ASSUME NEW s, NEW i \in Nat \ {0}, NEW j \in Nat \ {0}, i <= j
  PROVE  /\ LineOf(s, i) <= LineOf(s, j)
         /\ (\E n \in i..(j - 1) : s[n] = NL) => LineOf(s, i) < LineOf(s, j)
<1> DEFINE B == {n \in 1..(i - 1) : s[n] = NL}
           D == {n \in 1..(j - 1) : s[n] = NL}
<1>1. /\ IsFiniteSet(D) /\ LineOf(s, i) = 1 + Cardinality(B)
      /\ LineOf(s, j) = 1 + Cardinality(D)
  BY LineOfType DEF LineOf
<1>2. B \in SUBSET D
  OBVIOUS
<1>3. /\ IsFiniteSet(B) /\ Cardinality(B) <= Cardinality(D)
      /\ Cardinality(D) = Cardinality(B) => D = B
  BY <1>1, <1>2, FS_Subset
<1>4. Cardinality(B) \in Nat /\ Cardinality(D) \in Nat
  BY <1>1, <1>3, FS_CardinalityType
<1>5. ASSUME NEW n \in i..(j - 1), s[n] = NL PROVE D # B
  <2>1. n \in D /\ n \notin B
    BY <1>5
  <2> QED
    BY <2>1
<1> HIDE DEF B, D
<1> QED
  BY <1>1, <1>3, <1>4, <1>5

\* Without a newline between them, two places are in one line.
LEMMA LineOfSame ==
  ASSUME NEW s, NEW i \in Nat \ {0}, NEW j \in Nat \ {0}, i <= j,
         \A n \in i..(j - 1) : s[n] # NL
  PROVE  LineOf(s, i) = LineOf(s, j)
<1>1. {n \in 1..(i - 1) : s[n] = NL} = {n \in 1..(j - 1) : s[n] = NL}
  <2>1. ASSUME NEW n \in 1..(j - 1), s[n] = NL PROVE n \in 1..(i - 1)
    <3>1. ~ (n \in i..(j - 1))
      BY <2>1
    <3> QED
      BY <3>1
  <2> QED
    BY <2>1
<1> QED
  BY <1>1 DEF LineOf

\* The number of a line depends on what stands before.
LEMMA LineOfPrefix ==
  ASSUME NEW s, NEW u, NEW i \in Nat \ {0}, \A n \in 1..(i - 1) : s[n] = u[n]
  PROVE  LineOf(s, i) = LineOf(u, i)
<1>1. {n \in 1..(i - 1) : s[n] = NL} = {n \in 1..(i - 1) : u[n] = NL}
  OBVIOUS
<1> QED
  BY <1>1 DEF LineOf
-----------------------------------------------------------------------------
(***************************************************************************)
(* The text of a line.                                                     *)
(***************************************************************************)

\* Where the k-th line of the first n characters of s has letters.
LettersOf(s, n, k) == {i \in 1..n : LineOf(s, i) = k /\ s[i] \in Letters}

\* The text of a line is what stands between any first and last letter of it.
LEMMA LineBetween ==
  ASSUME NEW s, NEW n \in Nat, DOMAIN s = 1..n, NEW k,
         NEW f \in LettersOf(s, n, k), NEW l \in LettersOf(s, n, k),
         \A i \in LettersOf(s, n, k) : f <= i /\ i <= l
  PROVE  Line(s, k) = SubSeq(s, f, l)
<1> DEFINE seen == {i \in DOMAIN s : LineOf(s, i) = k /\ s[i] \in Letters}
           first == CHOOSE i \in seen : \A j \in seen : i <= j
           last  == CHOOSE i \in seen : \A j \in seen : i >= j
<1>1. seen = LettersOf(s, n, k) /\ seen \in SUBSET Nat
  BY DEF LettersOf
<1>2. Line(s, k) = IF seen = {} THEN <<>> ELSE SubSeq(s, first, last)
  BY Zenon DEF Line
<1> HIDE DEF seen
<1>3. first = f
  <2>1. first \in seen /\ \A j \in seen : first <= j
    BY <1>1
  <2> QED
    BY <1>1, <2>1
<1>4. last = l
  <2>1. last \in seen /\ \A j \in seen : last >= j
    BY <1>1
  <2> QED
    BY <1>1, <2>1
<1> QED
  BY <1>1, <1>2, <1>3, <1>4

\* A line without letters has an empty text.
LEMMA LineEmpty ==
  ASSUME NEW s, NEW n \in Nat, DOMAIN s = 1..n, NEW k, LettersOf(s, n, k) = {}
  PROVE  Line(s, k) = <<>>
<1>1. {i \in DOMAIN s : LineOf(s, i) = k /\ s[i] \in Letters} = {}
  BY DEF LettersOf
<1> QED
  BY <1>1 DEF Line

\* A line with letters has a first and a last one.
LEMMA EndsOfLine ==
  ASSUME NEW s, NEW n \in Nat, NEW k, LettersOf(s, n, k) # {}
  PROVE  \E f, l \in LettersOf(s, n, k) :
           \A i \in LettersOf(s, n, k) : f <= i /\ i <= l
<1>1. LettersOf(s, n, k) \in SUBSET Nat /\ LettersOf(s, n, k) \in SUBSET (0..n)
  BY DEF LettersOf
<1>2. PICK f \in LettersOf(s, n, k) : \A i \in LettersOf(s, n, k) : f <= i
  BY <1>1, LeastOf
<1>3. PICK l \in LettersOf(s, n, k) : \A i \in LettersOf(s, n, k) : i <= l
  BY <1>1, GreatestOf
<1> QED
  BY <1>2, <1>3

\* Texts that agree between two places have the same part there.
LEMMA SubSeqSame ==
  ASSUME NEW s, NEW u, NEW m \in Int, NEW n \in Int, \A i \in m..n : s[i] = u[i]
  PROVE  SubSeq(s, m, n) = SubSeq(u, m, n)
<1> DEFINE S == {s[i] : i \in m..n}
<1>1. /\ SubSeq(s, m, n) \in Seq(S) /\ SubSeq(u, m, n) \in Seq(S)
      /\ Len(SubSeq(s, m, n)) = Len(SubSeq(u, m, n))
      /\ Len(SubSeq(s, m, n)) = IF m <= n THEN n - m + 1 ELSE 0
      /\ \A i \in 1..(n - m + 1) : /\ SubSeq(s, m, n)[i] = s[m + i - 1]
                                  /\ SubSeq(u, m, n)[i] = u[m + i - 1]
  <2>1. \A i \in m..n : s[i] \in S /\ u[i] \in S
    OBVIOUS
  <2> HIDE DEF S
  <2> QED
    BY <2>1, SubSeqProperties
<1>2. ASSUME NEW i \in 1..Len(SubSeq(s, m, n))
      PROVE  SubSeq(s, m, n)[i] = SubSeq(u, m, n)[i]
  <2>1. i \in 1..(n - m + 1) /\ m + i - 1 \in m..n
    BY <1>1
  <2> QED
    BY <1>1, <2>1
<1> HIDE DEF S
<1> QED
  BY <1>1, <1>2, SeqEqual

\* What follows the text of a line, letters aside, does not belong to it.
LEMMA LinesOfPrefix ==
  ASSUME NEW s, NEW n \in Nat, DOMAIN s = 1..n,
         NEW u, NEW m \in Nat, DOMAIN u = 1..m,
         m <= n, \A i \in 1..m : u[i] = s[i], \A i \in (m + 1)..n : s[i] \notin Letters,
         NEW k
  PROVE  LettersOf(u, m, k) = LettersOf(s, n, k) /\ Line(u, k) = Line(s, k)
<1>1. \A i \in 1..(m + 1) : LineOf(u, i) = LineOf(s, i)
  <2>1. ASSUME NEW i \in 1..(m + 1) PROVE LineOf(u, i) = LineOf(s, i)
    <3>1. i \in Nat \ {0} /\ \A j \in 1..(i - 1) : u[j] = s[j]
      OBVIOUS
    <3> QED
      BY <3>1, LineOfPrefix
  <2> QED
    BY <2>1
<1>2. LettersOf(u, m, k) = LettersOf(s, n, k)
  <2>1. \A i \in 1..m : i \in 1..n /\ LineOf(u, i) = LineOf(s, i) /\ u[i] = s[i]
    BY <1>1
  <2>2. \A i \in 1..n : s[i] \in Letters => i \in 1..m
    OBVIOUS
  <2> QED
    BY <2>1, <2>2 DEF LettersOf
<1>3. CASE LettersOf(u, m, k) = {}
  <2>1. LettersOf(s, n, k) = {}
    BY <1>2, <1>3
  <2>2. Line(u, k) = <<>>
    BY <1>3, LineEmpty
  <2>3. Line(s, k) = <<>>
    BY <2>1, LineEmpty
  <2> QED
    BY <1>2, <2>2, <2>3
<1>4. CASE LettersOf(u, m, k) # {}
  <2>1. PICK f \in LettersOf(u, m, k), l \in LettersOf(u, m, k) :
               \A i \in LettersOf(u, m, k) : f <= i /\ i <= l
    BY <1>4, EndsOfLine
  <2>2. Line(u, k) = SubSeq(u, f, l)
    BY <2>1, LineBetween
  <2>3. Line(s, k) = SubSeq(s, f, l)
    BY <1>2, <2>1, LineBetween
  <2>4. SubSeq(u, f, l) = SubSeq(s, f, l)
    <3>1. f \in Int /\ l \in Int /\ \A i \in f..l : u[i] = s[i]
      BY DEF LettersOf
    <3> QED
      BY <3>1, SubSeqSame
  <2> QED
    BY <1>2, <2>2, <2>3, <2>4
<1> QED
  BY <1>2, <1>3, <1>4
-----------------------------------------------------------------------------
(***************************************************************************)
(* The line that is being read at the end of a text, from its first letter *)
(* on.                                                                     *)
(***************************************************************************)

Current(t) == LineOf(t, Len(t) + 1)

Open(t) ==
  LET seen == LettersOf(t, Len(t), Current(t))
  IN  IF seen = {} THEN <<>>
      ELSE SubSeq(t, CHOOSE i \in seen : \A j \in seen : i <= j, Len(t))

\* The open line begins at any first letter of it.
LEMMA OpenFrom ==
  ASSUME NEW t, NEW f \in LettersOf(t, Len(t), Current(t)),
         \A i \in LettersOf(t, Len(t), Current(t)) : f <= i
  PROVE  Open(t) = SubSeq(t, f, Len(t))
<1> DEFINE seen == LettersOf(t, Len(t), Current(t))
           first == CHOOSE i \in seen : \A j \in seen : i <= j
<1>1. Open(t) = SubSeq(t, first, Len(t))
  BY Zenon DEF Open
<1>2. seen \in SUBSET Nat
  BY DEF LettersOf
<1> HIDE DEF seen
<1>3. first = f
  <2>1. f \in seen /\ \A j \in seen : f <= j
    BY DEF seen
  <2>2. first \in seen /\ \A j \in seen : first <= j
    BY <2>1
  <2> HIDE DEF first
  <2>3. first \in Nat /\ f \in Nat /\ first <= f /\ f <= first
    BY <1>2, <2>1, <2>2
  <2> QED
    BY <2>3
<1> QED
  BY <1>1, <1>3

\* A text and the same text with one more character.
LEMMA Appended ==
  ASSUME NEW t \in Seq(Chars), NEW c \in Chars
  PROVE  \E n \in Nat :
           /\ Len(t) = n /\ DOMAIN t = 1..n
           /\ Append(t, c) \in Seq(Chars)
           /\ Len(Append(t, c)) = n + 1 /\ DOMAIN Append(t, c) = 1..(n + 1)
           /\ \A i \in 1..n : Append(t, c)[i] = t[i]
           /\ Append(t, c)[n + 1] = c
           /\ \A i \in 1..(n + 1) : LineOf(Append(t, c), i) = LineOf(t, i)
           /\ Current(t) = LineOf(t, n + 1)
           /\ Current(Append(t, c)) = IF c = NL THEN Current(t) + 1 ELSE Current(t)
           /\ \A i \in 1..(n + 1) : LineOf(t, i) \in Nat /\ LineOf(t, i) <= Current(t)
<1> DEFINE u == Append(t, c)
<1>1. PICK n \in Nat : n = Len(t)
  BY LenProperties
<1>2. DOMAIN t = 1..n
  BY <1>1, LenProperties
<1>3. /\ u \in Seq(Chars) /\ Len(u) = n + 1
      /\ \A i \in 1..n : u[i] = t[i]
      /\ u[n + 1] = c
  BY <1>1, AppendProperties
<1>4. DOMAIN u = 1..(n + 1)
  BY <1>3, LenProperties
<1> HIDE DEF u
<1>5. \A i \in 1..(n + 1) : LineOf(u, i) = LineOf(t, i)
  <2>1. ASSUME NEW i \in 1..(n + 1) PROVE LineOf(u, i) = LineOf(t, i)
    <3>1. i \in Nat \ {0} /\ \A j \in 1..(i - 1) : u[j] = t[j]
      BY <1>3
    <3> QED
      BY <3>1, LineOfPrefix
  <2> QED
    BY <2>1
<1>6. Current(t) = LineOf(t, n + 1)
  BY <1>1 DEF Current
<1>7. Current(u) = IF c = NL THEN Current(t) + 1 ELSE Current(t)
  <2>1. Current(u) = LineOf(u, (n + 1) + 1)
    BY <1>3 DEF Current
  <2>2. LineOf(u, (n + 1) + 1) = IF u[n + 1] = NL THEN LineOf(u, n + 1) + 1
                                 ELSE LineOf(u, n + 1)
    <3>1. n + 1 \in Nat \ {0}
      OBVIOUS
    <3> QED
      BY <3>1, LineOfStep
  <2>3. LineOf(u, n + 1) = LineOf(t, n + 1)
    BY <1>5
  <2> QED
    BY <1>3, <1>6, <2>1, <2>2, <2>3
<1>8. ASSUME NEW i \in 1..(n + 1)
      PROVE  LineOf(t, i) \in Nat /\ LineOf(t, i) <= Current(t)
  <2>1. i \in Nat \ {0} /\ n + 1 \in Nat \ {0} /\ i <= n + 1
    OBVIOUS
  <2> QED
    BY <1>6, <2>1, LineOfType, LineOfGrows
<1> QED
  BY <1>1, <1>2, <1>3, <1>4, <1>5, <1>6, <1>7, <1>8 DEF u

\* A line is open as soon as it has a letter.
LEMMA OpenOrNot ==
  ASSUME NEW t \in Seq(Chars)
  PROVE  /\ Open(t) \in Seq(Chars)
         /\ Open(t) = <<>> <=> LettersOf(t, Len(t), Current(t)) = {}
<1> DEFINE seen == LettersOf(t, Len(t), Current(t))
<1>1. PICK n \in Nat : n = Len(t)
  BY LenProperties
<1>2. \A i \in 1..n : t[i] \in Chars
  BY <1>1, ElementOfSeq
<1>3. CASE seen = {}
  <2>1. Open(t) = <<>>
    BY <1>3 DEF Open
  <2> QED
    BY <1>3, <2>1, EmptySeq
<1>4. CASE seen # {}
  <2>1. PICK f \in seen : \A i \in seen : f <= i
    BY <1>1, <1>4, EndsOfLine
  <2>2. Open(t) = SubSeq(t, f, n)
    BY <1>1, <2>1, OpenFrom
  <2>3. f \in 1..n
    BY <1>1 DEF LettersOf
  <2>4. f \in Int /\ n \in Int /\ \A i \in f..n : t[i] \in Chars
    BY <1>2, <2>3
  <2>5. /\ SubSeq(t, f, n) \in Seq(Chars)
        /\ Len(SubSeq(t, f, n)) = IF f <= n THEN n - f + 1 ELSE 0
    BY <2>4, SubSeqProperties
  <2>6. Len(SubSeq(t, f, n)) # 0
    BY <2>3, <2>5
  <2>7. SubSeq(t, f, n) # <<>>
    BY <2>6, EmptySeq
  <2> QED
    BY <1>4, <2>2, <2>5, <2>7
<1> QED
  BY <1>3, <1>4

\* One more character at the end of a text is one more at the end of its last part.
LEMMA SubSeqGrows ==
  ASSUME NEW t, NEW u, NEW n \in Nat, NEW f \in 1..(n + 1),
         \A i \in 1..n : t[i] \in Chars /\ u[i] = t[i], u[n + 1] \in Chars
  PROVE  SubSeq(u, f, n + 1) = Append(SubSeq(t, f, n), u[n + 1])
<1> DEFINE a == SubSeq(t, f, n)
           b == SubSeq(u, f, n + 1)
           m == n - f + 1
<1>1. f \in Int /\ n \in Int /\ n + 1 \in Int /\ m \in Nat
  OBVIOUS
<1>2. /\ \A i \in f..n : t[i] \in Chars
      /\ \A i \in f..(n + 1) : u[i] \in Chars
  OBVIOUS
<1>3. /\ a \in Seq(Chars) /\ Len(a) = IF f <= n THEN n - f + 1 ELSE 0
      /\ \A i \in 1..(n - f + 1) : a[i] = t[f + i - 1]
  BY <1>1, <1>2, SubSeqProperties
<1>4. /\ b \in Seq(Chars) /\ Len(b) = IF f <= n + 1 THEN (n + 1) - f + 1 ELSE 0
      /\ \A i \in 1..((n + 1) - f + 1) : b[i] = u[f + i - 1]
  BY <1>1, <1>2, SubSeqProperties
<1> HIDE DEF a, b
<1>5. Len(a) = m /\ Len(b) = m + 1
  BY <1>3, <1>4
<1>6. /\ Append(a, u[n + 1]) \in Seq(Chars) /\ Len(Append(a, u[n + 1])) = m + 1
      /\ \A i \in 1..m : Append(a, u[n + 1])[i] = a[i]
      /\ Append(a, u[n + 1])[m + 1] = u[n + 1]
  BY <1>3, <1>5, AppendProperties
<1>7. ASSUME NEW i \in 1..(m + 1) PROVE b[i] = Append(a, u[n + 1])[i]
  <2>1. b[i] = u[f + i - 1]
    BY <1>4
  <2>2. CASE i = m + 1
    <3>1. f + i - 1 = n + 1
      BY <2>2
    <3> QED
      BY <1>6, <2>1, <2>2, <3>1
  <2>3. CASE i \in 1..m
    <3>1. f + i - 1 \in 1..n
      BY <2>3
    <3>2. a[i] = t[f + i - 1]
      BY <1>3, <2>3
    <3> QED
      BY <1>6, <2>1, <2>3, <3>1, <3>2
  <2>4. i = m + 1 \/ i \in 1..m
    OBVIOUS
  <2> QED
    BY <2>2, <2>3, <2>4
<1> HIDE DEF m
<1> QED
  BY <1>4, <1>5, <1>6, <1>7, SeqEqual DEF b, a
-----------------------------------------------------------------------------
(***************************************************************************)
(* What one more character does to the lines of a text.                    *)
(***************************************************************************)

\* A character that is no letter changes the text of no line.
LEMMA AppendOther ==
  ASSUME NEW t \in Seq(Chars), NEW c \in Chars \ Letters, NEW k
  PROVE  Line(Append(t, c), k) = Line(t, k)
<1> DEFINE u == Append(t, c)
<1>1. PICK n \in Nat :
        /\ DOMAIN t = 1..n /\ DOMAIN u = 1..(n + 1)
        /\ \A i \in 1..n : u[i] = t[i]
        /\ u[n + 1] = c
  BY Appended
<1> HIDE DEF u
<1>2. PICK m \in Nat : m = n + 1
  OBVIOUS
<1>3. DOMAIN u = 1..m /\ DOMAIN t = 1..n /\ n <= m
  BY <1>1, <1>2
<1>4. \A i \in 1..n : t[i] = u[i]
  BY <1>1
<1>5. \A i \in (n + 1)..m : u[i] \notin Letters
  BY <1>1, <1>2
<1>6. Line(t, k) = Line(u, k)
  BY ONLY <1>3, <1>4, <1>5, n \in Nat, m \in Nat, LinesOfPrefix
<1> QED
  BY <1>6 DEF u

\* A newline opens the next line.
LEMMA AppendNewline ==
  ASSUME NEW t \in Seq(Chars), NL \in Chars
  PROVE  Open(Append(t, NL)) = <<>> /\ Current(Append(t, NL)) = Current(t) + 1
<1> DEFINE u == Append(t, NL)
<1>1. PICK n \in Nat :
        /\ Len(t) = n /\ u \in Seq(Chars) /\ Len(u) = n + 1
        /\ \A i \in 1..(n + 1) : LineOf(u, i) = LineOf(t, i)
        /\ Current(u) = Current(t) + 1
        /\ \A i \in 1..(n + 1) : LineOf(t, i) \in Nat /\ LineOf(t, i) <= Current(t)
        /\ Current(t) = LineOf(t, n + 1)
  BY Appended
<1> HIDE DEF u
<1>2. LettersOf(u, n + 1, Current(u)) = {}
  <2>1. Current(t) \in Nat
    BY <1>1
  <2>2. \A i \in 1..(n + 1) : LineOf(u, i) # Current(u)
    BY <1>1, <2>1
  <2> QED
    BY <2>2 DEF LettersOf
<1> QED
  BY <1>1, <1>2, OpenOrNot DEF u

\* A blank counts in the open line once that has a letter.
LEMMA AppendBlank ==
  ASSUME NEW t \in Seq(Chars), NEW c \in Blanks
  PROVE  /\ Current(Append(t, c)) = Current(t)
         /\ Open(Append(t, c)) = IF Open(t) = <<>> THEN <<>> ELSE Append(Open(t), c)
<1> DEFINE u == Append(t, c)
<1>1. c \in Chars /\ c \notin Letters /\ c # NL
  BY TrimAssumption DEF Chars
<1>2. PICK n \in Nat :
        /\ Len(t) = n /\ u \in Seq(Chars) /\ Len(u) = n + 1
        /\ DOMAIN t = 1..n /\ DOMAIN u = 1..(n + 1)
        /\ \A i \in 1..n : u[i] = t[i]
        /\ u[n + 1] = c
        /\ Current(u) = Current(t)
  BY <1>1, Appended
<1> HIDE DEF u
<1>3. LettersOf(t, n, Current(t)) = LettersOf(u, n + 1, Current(u))
  <2>1. PICK m \in Nat : m = n + 1
    OBVIOUS
  <2>2. DOMAIN u = 1..m /\ DOMAIN t = 1..n /\ n <= m
    BY <1>2, <2>1
  <2>3. \A i \in 1..n : t[i] = u[i]
    BY <1>2
  <2>4. \A i \in (n + 1)..m : u[i] \notin Letters
    BY <1>1, <1>2, <2>1
  <2>5. LettersOf(t, n, Current(t)) = LettersOf(u, m, Current(t))
    BY ONLY <2>2, <2>3, <2>4, n \in Nat, m \in Nat, LinesOfPrefix
  <2> QED
    BY <1>2, <2>1, <2>5
<1>4. CASE Open(t) = <<>>
  <2>1. Open(u) = <<>>
    BY <1>2, <1>3, <1>4, OpenOrNot
  <2> QED
    BY <1>2, <1>4, <2>1 DEF u
<1>5. CASE Open(t) # <<>>
  <2>1. LettersOf(t, n, Current(t)) # {}
    BY <1>2, <1>5, OpenOrNot
  <2>2. PICK f \in LettersOf(t, n, Current(t)) :
               \A i \in LettersOf(t, n, Current(t)) : f <= i
    BY <2>1, EndsOfLine
  <2>3. Open(t) = SubSeq(t, f, n)
    BY <1>2, <2>2, OpenFrom
  <2>4. Open(u) = SubSeq(u, f, n + 1)
    BY <1>2, <1>3, <2>2, OpenFrom
  <2>5. f \in 1..(n + 1) /\ \A i \in 1..n : t[i] \in Chars
    <3>1. f \in 1..n
      BY DEF LettersOf
    <3>2. \A i \in 1..n : t[i] \in Chars
      BY <1>2, ElementOfSeq
    <3> QED
      BY <3>1, <3>2
  <2>6. SubSeq(u, f, n + 1) = Append(SubSeq(t, f, n), u[n + 1])
    BY <1>1, <1>2, <2>5, SubSeqGrows
  <2> QED
    BY <1>2, <1>5, <2>3, <2>4, <2>6 DEF u
<1> QED
  BY <1>4, <1>5

\* A letter brings the blanks before it into the text of its line.
LEMMA AppendLetter ==
  ASSUME NEW t \in Seq(Chars), NEW c \in Letters
  PROVE  /\ Current(Append(t, c)) = Current(t)
         /\ Open(Append(t, c)) = Append(Open(t), c)
         /\ \A k : Line(Append(t, c), k) =
                     IF k = Current(t) THEN Append(Open(t), c) ELSE Line(t, k)
<1> DEFINE u == Append(t, c)
<1>1. c \in Chars /\ c # NL
  BY TrimAssumption DEF Chars
<1>2. PICK n \in Nat :
        /\ Len(t) = n /\ u \in Seq(Chars) /\ Len(u) = n + 1
        /\ DOMAIN t = 1..n /\ DOMAIN u = 1..(n + 1)
        /\ \A i \in 1..n : u[i] = t[i]
        /\ u[n + 1] = c
        /\ Current(u) = Current(t) /\ Current(t) = LineOf(t, n + 1)
        /\ \A i \in 1..(n + 1) : LineOf(u, i) = LineOf(t, i)
  BY <1>1, Appended
<1>3. \A i \in 1..n : t[i] \in Chars
  BY <1>2, ElementOfSeq
<1> HIDE DEF u
<1>4. LettersOf(u, n + 1, Current(t)) = LettersOf(t, n, Current(t)) \cup {n + 1}
  <2>1. ASSUME NEW i \in 1..n
        PROVE  i \in LettersOf(u, n + 1, Current(t)) <=> i \in LettersOf(t, n, Current(t))
    BY <1>2 DEF LettersOf
  <2>2. n + 1 \in LettersOf(u, n + 1, Current(t))
    BY <1>2 DEF LettersOf
  <2>3. /\ LettersOf(u, n + 1, Current(t)) \subseteq 1..(n + 1)
        /\ LettersOf(t, n, Current(t)) \subseteq 1..n
    BY DEF LettersOf
  <2> QED
    BY <2>1, <2>2, <2>3
\* The last letter of the line is the new one, the first is where it was.
<1>5. \E f \in LettersOf(u, n + 1, Current(t)) :
        /\ \A i \in LettersOf(u, n + 1, Current(t)) : f <= i /\ i <= n + 1
        /\ SubSeq(u, f, n + 1) = Append(Open(t), c)
  <2>1. LettersOf(t, n, Current(t)) \subseteq 1..n
    BY DEF LettersOf
  <2>2. CASE Open(t) = <<>>
    <3>1. LettersOf(u, n + 1, Current(t)) = {n + 1}
      BY <1>2, <1>4, <2>2, OpenOrNot
    <3>2. SubSeq(u, n + 1, n + 1) = Append(SubSeq(t, n + 1, n), u[n + 1])
      <4>1. n + 1 \in 1..(n + 1)
        OBVIOUS
      <4> QED
        BY <1>1, <1>2, <1>3, <4>1, SubSeqGrows
    <3>3. SubSeq(t, n + 1, n) = <<>>
      BY SubSeqEmpty
    <3>4. SubSeq(u, n + 1, n + 1) = Append(Open(t), c)
      BY <1>2, <2>2, <3>2, <3>3
    <3>5. /\ n + 1 \in LettersOf(u, n + 1, Current(t))
          /\ \A i \in LettersOf(u, n + 1, Current(t)) : n + 1 <= i /\ i <= n + 1
      BY <3>1
    <3> QED
      BY <3>4, <3>5
  <2>3. CASE Open(t) # <<>>
    <3>1. LettersOf(t, n, Current(t)) # {}
      BY <1>2, <2>3, OpenOrNot
    <3>2. PICK f \in LettersOf(t, n, Current(t)) :
                 \A i \in LettersOf(t, n, Current(t)) : f <= i
      BY <3>1, EndsOfLine
    <3>3. Open(t) = SubSeq(t, f, n)
      BY <1>2, <3>2, OpenFrom
    <3>4. f \in 1..(n + 1) /\ f \in LettersOf(u, n + 1, Current(t))
      BY <1>4, <2>1
    <3>5. SubSeq(u, f, n + 1) = Append(SubSeq(t, f, n), u[n + 1])
      BY <1>1, <1>2, <1>3, <3>4, SubSeqGrows
    <3>6. \A i \in LettersOf(u, n + 1, Current(t)) : f <= i /\ i <= n + 1
      BY <1>4, <2>1, <3>2
    <3> QED
      BY <1>2, <3>3, <3>4, <3>5, <3>6
  <2> QED
    BY <2>2, <2>3
<1>6. PICK f \in LettersOf(u, n + 1, Current(t)) :
        /\ \A i \in LettersOf(u, n + 1, Current(t)) : f <= i /\ i <= n + 1
        /\ SubSeq(u, f, n + 1) = Append(Open(t), c)
  BY <1>5
<1>7. Open(u) = Append(Open(t), c)
  BY <1>2, <1>6, OpenFrom
<1>8. Line(u, Current(t)) = Append(Open(t), c)
  <2>1. n + 1 \in LettersOf(u, n + 1, Current(t)) /\ n + 1 \in Nat
    BY <1>4
  <2>2. DOMAIN u = 1..(n + 1) /\ n + 1 \in Nat
    BY <1>2
  <2>3. Line(u, Current(t)) = SubSeq(u, f, n + 1)
    BY <1>6, <2>1, <2>2, LineBetween
  <2> QED
    BY <1>6, <2>3
<1>9. ASSUME NEW k, k # Current(t) PROVE Line(u, k) = Line(t, k)
  <2>1. LettersOf(u, n + 1, k) = LettersOf(t, n, k)
    <3>1. ASSUME NEW i \in 1..n
          PROVE  i \in LettersOf(u, n + 1, k) <=> i \in LettersOf(t, n, k)
      BY <1>2 DEF LettersOf
    <3>2. n + 1 \notin LettersOf(u, n + 1, k)
      BY <1>2, <1>9 DEF LettersOf
    <3>3. /\ LettersOf(u, n + 1, k) \subseteq 1..(n + 1)
          /\ LettersOf(t, n, k) \subseteq 1..n
      BY DEF LettersOf
    <3> QED
      BY <3>1, <3>2, <3>3
  <2>2. CASE LettersOf(t, n, k) = {}
    <3>1. Line(t, k) = <<>>
      BY <1>2, <2>2, LineEmpty
    <3>2. Line(u, k) = <<>>
      <4>1. n + 1 \in Nat
        OBVIOUS
      <4> QED
        BY <1>2, <2>1, <2>2, <4>1, LineEmpty
    <3> QED
      BY <3>1, <3>2
  <2>3. CASE LettersOf(t, n, k) # {}
    <3>1. PICK g \in LettersOf(t, n, k), l \in LettersOf(t, n, k) :
                 \A i \in LettersOf(t, n, k) : g <= i /\ i <= l
      BY <2>3, EndsOfLine
    <3>2. Line(t, k) = SubSeq(t, g, l)
      BY <1>2, <3>1, LineBetween
    <3>3. Line(u, k) = SubSeq(u, g, l)
      <4>1. n + 1 \in Nat
        OBVIOUS
      <4> QED
        BY <1>2, <2>1, <3>1, <4>1, LineBetween
    <3>4. g \in Int /\ l \in Int /\ \A i \in g..l : t[i] = u[i]
      <4>1. g \in 1..n /\ l \in 1..n
        BY DEF LettersOf
      <4> QED
        BY <1>2, <4>1
    <3> QED
      BY <3>2, <3>3, <3>4, SubSeqSame
  <2> QED
    BY <2>2, <2>3
<1>10. \A k : Line(u, k) = IF k = Current(t) THEN Append(Open(t), c) ELSE Line(t, k)
  BY <1>8, <1>9
<1> QED
  BY <1>2, <1>7, <1>10 DEF u
-----------------------------------------------------------------------------
(***************************************************************************)
(* Texts with the same lines that also go on in the same way.              *)
(***************************************************************************)

Alike(t, u) ==
  /\ Current(t) = Current(u)
  /\ Open(t) = Open(u)
  /\ \A k : Line(t, k) = Line(u, k)

\* Alike texts remain alike when they go on with the same character.
LEMMA AppendAlike ==
  ASSUME NEW t \in Seq(Chars), NEW u \in Seq(Chars), NEW c \in Chars, Alike(t, u)
  PROVE  Alike(Append(t, c), Append(u, c))
<1>1. CASE c \in Letters
  <2>1. /\ Current(Append(t, c)) = Current(t) /\ Current(Append(u, c)) = Current(u)
        /\ Open(Append(t, c)) = Append(Open(t), c)
        /\ Open(Append(u, c)) = Append(Open(u), c)
    BY <1>1, AppendLetter
  <2>2. ASSUME NEW k PROVE Line(Append(t, c), k) = Line(Append(u, c), k)
    <3>1. /\ Line(Append(t, c), k) = IF k = Current(t) THEN Append(Open(t), c)
                                     ELSE Line(t, k)
          /\ Line(Append(u, c), k) = IF k = Current(u) THEN Append(Open(u), c)
                                     ELSE Line(u, k)
      BY <1>1, AppendLetter
    <3> QED
      BY <3>1 DEF Alike
  <2> QED
    BY <2>1, <2>2 DEF Alike
<1>2. CASE c \in Blanks
  <2>1. c \in Chars \ Letters
    BY <1>2, TrimAssumption
  <2>2. \A k : Line(Append(t, c), k) = Line(t, k) /\ Line(Append(u, c), k) = Line(u, k)
    BY <2>1, AppendOther
  <2> QED
    BY <1>2, <2>2, AppendBlank DEF Alike
<1>3. CASE c = NL
  <2>1. c \in Chars \ Letters
    BY <1>3, TrimAssumption
  <2>2. \A k : Line(Append(t, c), k) = Line(t, k) /\ Line(Append(u, c), k) = Line(u, k)
    BY <2>1, AppendOther
  <2> QED
    BY <1>3, <2>2, AppendNewline DEF Alike
<1> QED
  BY <1>1, <1>2, <1>3 DEF Chars

\* A blank before the first letter of a line does not change it.
LEMMA BlankAlike ==
  ASSUME NEW t \in Seq(Chars), NEW c \in Blanks, Open(t) = <<>>
  PROVE  Alike(Append(t, c), t)
<1>1. c \in Chars \ Letters
  BY TrimAssumption DEF Chars
<1>2. \A k : Line(Append(t, c), k) = Line(t, k)
  BY <1>1, AppendOther
<1> QED
  BY <1>2, AppendBlank DEF Alike
-----------------------------------------------------------------------------
(***************************************************************************)
(* The loops that drop the end of a text.                                  *)
(***************************************************************************)

\* WithoutTail keeps a beginning of the text, up to the last character outside C.
LEMMA TailCut ==
  ASSUME NEW s \in Seq(Chars), NEW C
  PROVE  /\ WithoutTail(s, C) \in Seq(Chars)
         /\ \E n \in Nat, m \in Nat :
              /\ Len(s) = n /\ DOMAIN s = 1..n /\ m <= n
              /\ Len(WithoutTail(s, C)) = m /\ DOMAIN WithoutTail(s, C) = 1..m
              /\ \A i \in 1..m : WithoutTail(s, C)[i] = s[i]
              /\ m = 0 \/ s[m] \notin C
              /\ \A i \in (m + 1)..n : s[i] \in C
<1>1. PICK n \in Nat : n = Len(s)
  BY LenProperties
<1>2. DOMAIN s = 1..n /\ \A i \in 1..n : s[i] \in Chars
  BY <1>1, LenProperties, ElementOfSeq
<1> DEFINE T == {m \in 0..n : \A i \in (m + 1)..n : s[i] \in C}
           cut == CHOOSE m \in 0..n : /\ m = 0 \/ s[m] \notin C
                                      /\ \A i \in (m + 1)..n : s[i] \in C
<1>3. T \in SUBSET Nat /\ n \in T
  OBVIOUS
<1>4. PICK x \in T : \A y \in T : x <= y
  BY <1>3, LeastOf
<1>5. x = 0 \/ s[x] \notin C
  <2> SUFFICES ASSUME x # 0, s[x] \in C PROVE FALSE
    OBVIOUS
  <2>1. x - 1 \in 0..n /\ ~ (x <= x - 1)
    OBVIOUS
  <2>2. ASSUME NEW i \in ((x - 1) + 1)..n PROVE s[i] \in C
    <3>1. i = x \/ i \in (x + 1)..n
      OBVIOUS
    <3> QED
      BY <3>1
  <2>3. x - 1 \in T
    BY <2>1, <2>2
  <2> QED
    BY <1>4, <2>1, <2>3
<1>6. /\ cut \in 0..n
      /\ cut = 0 \/ s[cut] \notin C
      /\ \A i \in (cut + 1)..n : s[i] \in C
  <2>1. x \in 0..n /\ \A i \in (x + 1)..n : s[i] \in C
    OBVIOUS
  <2> QED
    BY <1>5, <2>1
<1>7. WithoutTail(s, C) = SubSeq(s, 1, cut)
  BY <1>1 DEF WithoutTail
<1> HIDE DEF cut, T
<1>8. 1 \in Int /\ cut \in Int /\ \A i \in 1..cut : s[i] \in Chars
  BY <1>2, <1>6
<1>9. /\ SubSeq(s, 1, cut) \in Seq(Chars)
      /\ Len(SubSeq(s, 1, cut)) = IF 1 <= cut THEN cut - 1 + 1 ELSE 0
      /\ \A i \in 1..(cut - 1 + 1) : SubSeq(s, 1, cut)[i] = s[1 + i - 1]
  BY <1>8, SubSeqProperties
<1>10. Len(SubSeq(s, 1, cut)) = cut
  BY <1>6, <1>9
<1>11. \A i \in 1..cut : SubSeq(s, 1, cut)[i] = s[i]
  <2>1. \A i \in 1..cut : i \in 1..(cut - 1 + 1) /\ 1 + i - 1 = i
    BY <1>6
  <2> QED
    BY <1>9, <2>1
<1>12. DOMAIN SubSeq(s, 1, cut) = 1..cut
  BY <1>9, <1>10, LenProperties
<1>13. cut \in Nat /\ cut <= n
  BY <1>6
<1> QED
  BY <1>1, <1>2, <1>6, <1>7, <1>9, <1>10, <1>11, <1>12, <1>13

\* What the loops drop are not letters: they change no line.
LEMMA CutLines ==
  ASSUME NEW s \in Seq(Chars), NEW C, C \cap Letters = {}, NEW k
  PROVE  Line(WithoutTail(s, C), k) = Line(s, k)
<1> DEFINE w == WithoutTail(s, C)
<1>1. PICK n \in Nat, m \in Nat :
        /\ Len(s) = n /\ DOMAIN s = 1..n /\ m <= n /\ DOMAIN w = 1..m
        /\ \A i \in 1..m : w[i] = s[i]
        /\ \A i \in (m + 1)..n : s[i] \in C
  BY TailCut
<1> HIDE DEF w
<1>2. \A i \in (m + 1)..n : s[i] \notin Letters
  BY <1>1
<1>3. Line(w, k) = Line(s, k)
  BY ONLY <1>1, <1>2, n \in Nat, m \in Nat, LinesOfPrefix
<1> QED
  BY <1>3 DEF w

\* Blanks dropped before a newline are not missed.
LEMMA CutAlike ==
  ASSUME NEW s \in Seq(Chars), NL \in Chars
  PROVE  Alike(Append(WithoutTail(s, Blanks), NL), Append(s, NL))
<1> DEFINE w == WithoutTail(s, Blanks)
<1>1. w \in Seq(Chars)
  BY TailCut
<1>2. PICK n \in Nat, m \in Nat :
        /\ Len(s) = n /\ DOMAIN s = 1..n /\ m <= n /\ Len(w) = m
        /\ \A i \in 1..m : w[i] = s[i]
        /\ \A i \in (m + 1)..n : s[i] \in Blanks
  BY TailCut
<1>3. \A k : Line(w, k) = Line(s, k)
  <2>1. Blanks \cap Letters = {}
    BY TrimAssumption
  <2> QED
    BY <2>1, CutLines
<1> HIDE DEF w
<1>4. Current(w) = Current(s)
  <2>1. m + 1 \in Nat \ {0} /\ n + 1 \in Nat \ {0} /\ m + 1 <= n + 1
    BY <1>2
  <2>2. \A i \in (m + 1)..((n + 1) - 1) : s[i] # NL
    BY <1>2, TrimAssumption
  <2>3. LineOf(s, m + 1) = LineOf(s, n + 1)
    BY <2>1, <2>2, LineOfSame
  <2>4. \A i \in 1..((m + 1) - 1) : w[i] = s[i]
    BY <1>2
  <2>5. LineOf(w, m + 1) = LineOf(s, m + 1)
    BY <2>1, <2>4, LineOfPrefix
  <2> QED
    BY <1>2, <2>3, <2>5 DEF Current
<1>5. NL \in Chars \ Letters
  BY TrimAssumption
<1>6. \A k : Line(Append(w, NL), k) = Line(w, k) /\ Line(Append(s, NL), k) = Line(s, k)
  BY <1>1, <1>5, AppendOther
<1> QED
  BY <1>1, <1>3, <1>4, <1>6, AppendNewline DEF Alike, w
-----------------------------------------------------------------------------
(***************************************************************************)
(* Texts that are trimmed: no blank begins or ends a line.                 *)
(***************************************************************************)

Trimmed(t) ==
  \A j \in 1..Len(t) : t[j] \in Blanks => /\ j > 1 /\ t[j - 1] # NL
                                          /\ j < Len(t) => t[j + 1] # NL

\* The last character of a text.
EndsIn(t, C) == t # <<>> /\ t[Len(t)] \in C

\* A text remains trimmed when neither a blank comes first in a line nor a newline after
\* a blank.
LEMMA AppendTrimmed ==
  ASSUME NEW t \in Seq(Chars), NEW c \in Chars, Trimmed(t),
         c \in Blanks => t # <<>> /\ ~ EndsIn(t, {NL}),
         c = NL => ~ EndsIn(t, Blanks)
  PROVE  Trimmed(Append(t, c))
<1> DEFINE u == Append(t, c)
<1>1. PICK n \in Nat :
        /\ Len(t) = n /\ Len(u) = n + 1
        /\ \A i \in 1..n : u[i] = t[i]
        /\ u[n + 1] = c
  BY Appended
<1>2. t # <<>> <=> n # 0
  BY <1>1, EmptySeq
<1> HIDE DEF u
<1>3. ASSUME NEW j \in 1..(n + 1), u[j] \in Blanks
      PROVE  /\ j > 1 /\ u[j - 1] # NL
             /\ j < n + 1 => u[j + 1] # NL
  <2>1. CASE j = n + 1
    <3>1. c \in Blanks /\ n # 0 /\ t[n] # NL
      BY <1>1, <1>2, <1>3, <2>1 DEF EndsIn
    <3>2. n \in 1..n /\ j > 1 /\ j - 1 = n /\ ~ (j < n + 1)
      BY <2>1, <3>1
    <3> QED
      BY <1>1, <3>1, <3>2
  <2>2. CASE j = n
    <3>1. n \in 1..n /\ t[n] \in Blanks /\ n # 0
      BY <1>1, <1>3, <2>2
    <3>2. c # NL
      BY <1>1, <1>2, <3>1 DEF EndsIn
    <3>3. n > 1 /\ t[n - 1] # NL
      BY <1>1, <3>1 DEF Trimmed
    <3>4. n - 1 \in 1..n
      BY <3>3
    <3> QED
      BY <1>1, <2>2, <3>2, <3>3, <3>4
  <2>3. CASE j < n
    <3>1. j \in 1..n /\ j + 1 \in 1..n /\ t[j] \in Blanks
      BY <1>1, <1>3, <2>3
    <3>2. j > 1 /\ t[j - 1] # NL /\ t[j + 1] # NL
      BY <1>1, <2>3, <3>1 DEF Trimmed
    <3>3. j - 1 \in 1..n
      BY <3>1, <3>2
    <3> QED
      BY <1>1, <3>1, <3>2, <3>3
  <2> QED
    BY <2>1, <2>2, <2>3
<1> QED
  BY <1>1, <1>3 DEF Trimmed, u

\* What is cut off the end of a trimmed text leaves it trimmed.
LEMMA CutTrimmed ==
  ASSUME NEW t \in Seq(Chars), NEW C, Trimmed(t)
  PROVE  Trimmed(WithoutTail(t, C)) /\ ~ EndsIn(WithoutTail(t, C), C)
<1> DEFINE w == WithoutTail(t, C)
<1>1. w \in Seq(Chars)
  BY TailCut
<1>2. PICK n \in Nat, m \in Nat :
        /\ Len(t) = n /\ m <= n /\ Len(w) = m
        /\ \A i \in 1..m : w[i] = t[i]
        /\ m = 0 \/ t[m] \notin C
  BY TailCut
<1> HIDE DEF w
<1>3. ~ EndsIn(w, C)
  <2>1. w # <<>> => m # 0
    BY <1>1, <1>2, EmptySeq
  <2>2. m # 0 => m \in 1..m
    OBVIOUS
  <2> QED
    BY <1>2, <2>1, <2>2 DEF EndsIn
<1>4. ASSUME NEW j \in 1..m, w[j] \in Blanks
      PROVE  /\ j > 1 /\ w[j - 1] # NL
             /\ j < m => w[j + 1] # NL
  <2>1. j \in 1..n /\ t[j] \in Blanks
    BY <1>2, <1>4
  <2>2. j > 1 /\ t[j - 1] # NL /\ (j < n => t[j + 1] # NL)
    BY <1>2, <2>1 DEF Trimmed
  <2>3. j - 1 \in 1..m /\ (j < m => j + 1 \in 1..m /\ j < n)
    BY <1>2, <2>2
  <2> QED
    BY <1>2, <2>2, <2>3
<1> QED
  BY <1>2, <1>3, <1>4 DEF Trimmed, w
-----------------------------------------------------------------------------
(***************************************************************************)
(* The pass.                                                               *)
(***************************************************************************)

\* What r, the state of the pass, has to do with the text p that it has read.
Copied(r, p) ==
  /\ r.out \in Seq(Chars) /\ r.fresh \in BOOLEAN
  /\ Alike(r.out, p)
  /\ Trimmed(r.out)
  /\ r.fresh => Open(r.out) = <<>>
  /\ ~r.fresh => r.out # <<>> /\ ~ EndsIn(r.out, {NL})

\* A newline ends the line without the blanks copied last.
LEMMA CopyNewline ==
  ASSUME NEW r, NEW p \in Seq(Chars), Copied(r, p)
  PROVE  Copied([out |-> Append(WithoutTail(r.out, Blanks), NL), fresh |-> TRUE],
                Append(p, NL))
<1> DEFINE w == WithoutTail(r.out, Blanks)
<1>1. NL \in Chars /\ r.out \in Seq(Chars)
  BY DEF Chars, Copied
<1>2. w \in Seq(Chars) /\ Trimmed(w) /\ ~ EndsIn(w, Blanks)
  BY <1>1, TailCut, CutTrimmed DEF Copied
<1>3. Alike(Append(w, NL), Append(r.out, NL))
  BY <1>1, CutAlike
<1>4. Alike(Append(r.out, NL), Append(p, NL))
  BY <1>1, AppendAlike DEF Copied
<1> HIDE DEF w
<1>5. Alike(Append(w, NL), Append(p, NL))
  BY <1>3, <1>4 DEF Alike
<1>6. Append(w, NL) \in Seq(Chars)
  BY <1>1, <1>2, AppendProperties
<1>7. Trimmed(Append(w, NL))
  BY <1>1, <1>2, TrimAssumption, AppendTrimmed
<1>8. Open(Append(w, NL)) = <<>>
  BY <1>1, <1>2, AppendNewline
<1> QED
  BY <1>5, <1>6, <1>7, <1>8 DEF Copied, w

\* A character is copied as it is.
LEMMA CopyCharacter ==
  ASSUME NEW r, NEW p \in Seq(Chars), Copied(r, p), NEW c \in Chars, c # NL,
         c \in Blanks => ~r.fresh
  PROVE  Copied([out |-> Append(r.out, c), fresh |-> FALSE], Append(p, c))
<1> DEFINE u == Append(r.out, c)
<1>1. r.out \in Seq(Chars)
  BY DEF Copied
<1>2. PICK n \in Nat : u \in Seq(Chars) /\ Len(u) = n + 1 /\ u[n + 1] = c
  BY <1>1, Appended
<1>3. Alike(u, Append(p, c))
  BY <1>1, AppendAlike DEF Copied
<1>4. Trimmed(u)
  BY <1>1, AppendTrimmed DEF Copied
<1>5. u # <<>>
  BY <1>1, AppendProperties
<1> HIDE DEF u
<1>6. ~ EndsIn(u, {NL})
  BY <1>2 DEF EndsIn
<1> QED
  BY <1>2, <1>3, <1>4, <1>5, <1>6 DEF Copied, u

\* Each step of the pass keeps what was copied in accordance with what was read.
LEMMA CopyStep ==
  ASSUME NEW r, NEW p \in Seq(Chars), Copied(r, p), NEW c \in Chars
  PROVE  Copied(Copy(r, c), Append(p, c))
<1>1. CASE c = NL
  BY <1>1, CopyNewline DEF Copy
<1>2. CASE c \in Blanks /\ r.fresh
  <2>1. c # NL
    BY <1>2, TrimAssumption
  <2>2. Open(p) = <<>>
    BY <1>2 DEF Copied, Alike
  <2>3. Alike(Append(p, c), p)
    BY <1>2, <2>2, BlankAlike
  <2>4. Alike(r.out, Append(p, c))
    BY <2>3 DEF Copied, Alike
  <2>5. Copy(r, c) = r
    BY <1>2, <2>1 DEF Copy
  <2> QED
    BY <2>4, <2>5 DEF Copied
<1>3. CASE c # NL /\ ~ (c \in Blanks /\ r.fresh)
  <2>1. Copy(r, c) = [out |-> Append(r.out, c), fresh |-> FALSE]
    BY <1>3 DEF Copy
  <2>2. c \in Blanks => ~r.fresh
    BY <1>3
  <2> QED
    BY <1>3, <2>1, <2>2, CopyCharacter
<1> QED
  BY <1>1, <1>2, <1>3

\* At each character, what was copied has the lines of what was read.
LEMMA PassCopies ==
  ASSUME NEW s \in Seq(Chars)
  PROVE  Copied(Passed(s)[Len(s)], s)
<1>1. PICK n \in Nat : n = Len(s)
  BY LenProperties
<1>2. \A i \in 1..n : s[i] \in Chars
  BY <1>1, ElementOfSeq
<1>3. /\ Passed(s)[0] = [out |-> <<>>, fresh |-> TRUE]
      /\ \A i \in 1..n : Passed(s)[i] = Copy(Passed(s)[i - 1], s[i])
  BY <1>1, PassExists
<1> DEFINE p(i) == SubSeq(s, 1, i)
           T == {i \in 0..n : Copied(Passed(s)[i], p(i))}
<1>4. T \in SUBSET (0..n) /\ 0 \in T
  <2>1. p(0) = <<>>
    BY SubSeqEmpty
  <2>2. <<>> \in Seq(Chars) /\ Len(<<>>) = 0
    BY EmptySeq
  <2>3. Trimmed(<<>>)
    BY <2>2 DEF Trimmed
  <2>4. Open(<<>>) = <<>>
    <3>1. LettersOf(<<>>, 0, Current(<<>>)) = {}
      BY DEF LettersOf
    <3> QED
      BY <2>2, <3>1, OpenOrNot
  <2>5. Copied([out |-> <<>>, fresh |-> TRUE], <<>>)
    BY <2>2, <2>3, <2>4 DEF Copied, Alike
  <2>6. Copied(Passed(s)[0], p(0))
    BY <1>3, <2>1, <2>5
  <2>7. 0 \in 0..n
    OBVIOUS
  <2> HIDE DEF p
  <2> QED
    BY <2>6, <2>7
<1>5. ASSUME NEW i \in 0..n, i < n, i \in T PROVE i + 1 \in T
  <2>1. i + 1 \in 1..n /\ (i + 1) - 1 = i
    BY <1>5
  <2>2. p(i) \in Seq(Chars)
    <3>1. 1 \in Int /\ i \in Int /\ \A j \in 1..i : s[j] \in Chars
      BY <1>2, <2>1
    <3> QED
      BY <3>1, SubSeqProperties
  <2>3. p(i + 1) = Append(p(i), s[i + 1])
    <3>1. i \in Nat /\ 1 \in 1..(i + 1) /\ s[i + 1] \in Chars
          /\ \A j \in 1..i : s[j] \in Chars /\ s[j] = s[j]
      BY <1>2, <2>1
    <3> QED
      BY <3>1, SubSeqGrows
  <2>4. Passed(s)[i + 1] = Copy(Passed(s)[i], s[i + 1])
    BY <1>3, <2>1
  <2>5. Copied(Passed(s)[i], p(i)) /\ s[i + 1] \in Chars
    BY <1>2, <1>5, <2>1
  <2> HIDE DEF p
  <2>6. Copied(Passed(s)[i + 1], p(i + 1))
    BY <2>2, <2>3, <2>4, <2>5, CopyStep
  <2> QED
    BY <2>1, <2>6
<1>6. n \in T
  <2> HIDE DEF T
  <2>1. T = 0..n
    BY <1>4, <1>5, UpTo
  <2> QED
    BY <2>1
<1>7. p(n) = s
  BY <1>1, SubSeqFull
<1> QED
  BY <1>1, <1>6, <1>7

\* trim_output keeps every line, blanks at its ends aside.
LEMMA TrimKeepsLines ==
  ASSUME NEW s \in Seq(Chars), NEW k
  PROVE  Line(Trim(s), k) = Line(s, k)
<1> DEFINE o == Passed(s)[Len(s)].out
           w == WithoutTail(o, Blanks)
<1>1. o \in Seq(Chars) /\ Line(o, k) = Line(s, k)
  BY PassCopies DEF Copied, Alike
<1>2. w \in Seq(Chars)
  BY <1>1, TailCut
<1>3. Blanks \cap Letters = {} /\ {NL} \cap Letters = {}
  BY TrimAssumption
<1>4. Line(w, k) = Line(o, k)
  BY <1>1, <1>3, CutLines
<1>5. Line(WithoutTail(w, {NL}), k) = Line(w, k)
  BY <1>2, <1>3, CutLines
<1> QED
  BY <1>1, <1>4, <1>5 DEF Trim

\* What it returns has no blank at an end of a line, and no newline at its own.
LEMMA TrimTrims ==
  ASSUME NEW s \in Seq(Chars)
  PROVE  /\ Trim(s) \in Seq(Chars) /\ Trimmed(Trim(s))
         /\ ~ EndsIn(Trim(s), Blanks \cup {NL})
<1> DEFINE o == Passed(s)[Len(s)].out
           w == WithoutTail(o, Blanks)
           x == WithoutTail(w, {NL})
<1>1. o \in Seq(Chars) /\ Trimmed(o)
  BY PassCopies DEF Copied
<1>2. w \in Seq(Chars) /\ Trimmed(w) /\ ~ EndsIn(w, Blanks)
  BY <1>1, TailCut, CutTrimmed
<1> HIDE DEF w
<1>3. x \in Seq(Chars) /\ Trimmed(x) /\ ~ EndsIn(x, {NL})
  BY <1>2, TailCut, CutTrimmed
<1>4. PICK n \in Nat, m \in Nat :
        /\ Len(w) = n /\ m <= n /\ Len(x) = m
        /\ \A i \in 1..m : x[i] = w[i]
        /\ \A i \in (m + 1)..n : w[i] \in {NL}
  BY <1>2, TailCut
<1> HIDE DEF x
\* A blank at the end would have stood before a newline.
<1>5. ~ EndsIn(x, Blanks)
  <2> SUFFICES ASSUME EndsIn(x, Blanks) PROVE FALSE
    OBVIOUS
  <2>1. m # 0 /\ x[m] \in Blanks
    BY <1>3, <1>4, EmptySeq DEF EndsIn
  <2>2. m \in 1..n /\ w[m] \in Blanks
    BY <1>4, <2>1
  <2>3. CASE m = n
    <3>1. w # <<>>
      BY <1>4, <2>1, <2>3, EmptySeq
    <3> QED
      BY <1>2, <1>4, <2>2, <2>3, <3>1 DEF EndsIn
  <2>4. CASE m < n
    <3>1. m + 1 \in (m + 1)..n
      BY <2>4
    <3>2. w[m + 1] = NL
      BY <1>4, <3>1
    <3> QED
      BY <1>2, <1>4, <2>2, <2>4, <3>2 DEF Trimmed
  <2> QED
    BY <1>4, <2>3, <2>4
<1> QED
  BY <1>3, <1>5 DEF EndsIn, Trim, w, x
-----------------------------------------------------------------------------
(***************************************************************************)
(* Trimmed texts with the same lines are the same text.                    *)
(***************************************************************************)

\* The line of place i of t begins at j.
BeginsAt(t, i, j) ==
  /\ j \in 1..i
  /\ j = 1 \/ t[j - 1] = NL
  /\ \A m \in j..(i - 1) : t[m] # NL

\* Each place has a beginning of its line.
LEMMA LineBegins ==
  ASSUME NEW t, NEW i \in Nat \ {0}
  PROVE  \E j \in 1..i : BeginsAt(t, i, j)
<1> DEFINE T == {j \in 1..i : \A m \in j..(i - 1) : t[m] # NL}
<1>1. T \in SUBSET Nat /\ i \in T
  OBVIOUS
<1>2. PICK j \in T : \A x \in T : j <= x
  BY <1>1, LeastOf
<1>3. j = 1 \/ t[j - 1] = NL
  <2> SUFFICES ASSUME j # 1, t[j - 1] # NL PROVE FALSE
    OBVIOUS
  <2>1. j - 1 \in 1..i /\ ~ (j <= j - 1)
    OBVIOUS
  <2>2. ASSUME NEW m \in (j - 1)..(i - 1) PROVE t[m] # NL
    <3>1. m = j - 1 \/ m \in j..(i - 1)
      OBVIOUS
    <3> QED
      BY <3>1
  <2>3. j - 1 \in T
    BY <2>1, <2>2
  <2> QED
    BY <1>2, <2>1, <2>3
<1> QED
  BY <1>3 DEF BeginsAt

\* A place that is not a newline has the end of its line at it or after it.
LEMMA LineEnds ==
  ASSUME NEW t, NEW n \in Nat, NEW i \in 1..n, t[i] # NL
  PROVE  \E l \in i..n : /\ \A m \in i..l : t[m] # NL
                         /\ l = n \/ t[l + 1] = NL
<1> DEFINE T == {l \in i..n : \A m \in i..l : t[m] # NL}
<1>1. T \in SUBSET (0..n) /\ i \in T
  OBVIOUS
<1>2. PICK l \in T : \A x \in T : x <= l
  BY <1>1, GreatestOf
<1>3. l = n \/ t[l + 1] = NL
  <2> SUFFICES ASSUME l # n, t[l + 1] # NL PROVE FALSE
    OBVIOUS
  <2>1. l + 1 \in i..n /\ ~ (l + 1 <= l)
    OBVIOUS
  <2>2. ASSUME NEW m \in i..(l + 1) PROVE t[m] # NL
    <3>1. m = l + 1 \/ m \in i..l
      OBVIOUS
    <3> QED
      BY <3>1
  <2>3. l + 1 \in T
    BY <2>1, <2>2
  <2> QED
    BY <1>2, <2>1, <2>3
<1> QED
  BY <1>3

\* No letter of the line stands before its beginning.
LEMMA LettersFrom ==
  ASSUME NEW t, NEW n \in Nat, NEW i \in 1..(n + 1), NEW j, BeginsAt(t, i, j),
         NEW x \in LettersOf(t, n, LineOf(t, i))
  PROVE  j <= x
<1> SUFFICES ASSUME x < j PROVE FALSE
  BY DEF LettersOf, BeginsAt
<1>1. x \in 1..n /\ LineOf(t, x) = LineOf(t, i)
  BY DEF LettersOf
<1>2. /\ j \in 1..i /\ j - 1 \in x..(i - 1) /\ t[j - 1] = NL
      /\ x \in Nat \ {0} /\ i \in Nat \ {0} /\ x <= i
  BY <1>1 DEF BeginsAt
<1>3. LineOf(t, x) < LineOf(t, i)
  BY <1>2, LineOfGrows
<1>4. LineOf(t, i) \in Nat
  BY <1>2, LineOfType
<1> QED
  BY <1>1, <1>3, <1>4

\* What trim_output returns.
Canonical(t) ==
  t \in Seq(Chars) /\ Trimmed(t) /\ ~ EndsIn(t, Blanks \cup {NL})

\* In a trimmed text each character of a line is in the text of the line.
LEMMA InLine ==
  ASSUME NEW t, Canonical(t), NEW n \in Nat, n = Len(t), NEW i \in 1..n, t[i] # NL,
         NEW j, BeginsAt(t, i, j)
  PROVE  \E m \in Nat : /\ m >= i - j + 1 /\ Len(Line(t, LineOf(t, i))) = m
                        /\ Line(t, LineOf(t, i))[i - j + 1] = t[i]
<1> DEFINE k == LineOf(t, i)
<1>1. /\ DOMAIN t = 1..n
      /\ \A x \in 1..n : t[x] \in Chars
  BY LenProperties, ElementOfSeq DEF Canonical
<1>2. j \in LettersOf(t, n, k)
  <2>1. /\ j \in 1..n /\ j \in Nat \ {0} /\ i \in Nat \ {0} /\ j <= i
        /\ j = i \/ j \in j..(i - 1)
    BY DEF BeginsAt
  <2>2. t[j] # NL
    BY <2>1 DEF BeginsAt
  <2>3. t[j] \notin Blanks
    BY <2>1 DEF BeginsAt, Canonical, Trimmed
  <2>4. t[j] \in Letters
    BY <1>1, <2>1, <2>2, <2>3 DEF Chars
  <2>5. LineOf(t, j) = LineOf(t, i)
    BY <2>1, LineOfSame DEF BeginsAt
  <2> QED
    BY <2>1, <2>4, <2>5 DEF LettersOf
<1>3. \E x \in LettersOf(t, n, k) : i <= x
  <2>1. PICK l \in i..n : (\A m \in i..l : t[m] # NL) /\ (l = n \/ t[l + 1] = NL)
    BY LineEnds
  <2>2. /\ l \in 1..n /\ l \in Nat \ {0} /\ i \in Nat \ {0} /\ i <= l /\ l \in i..l
        /\ l = n \/ l < n
    OBVIOUS
  <2>3. t[l] \notin Blanks
    <3>1. CASE l = n
      <4>1. t # <<>>
        BY <2>2, EmptySeq
      <4> QED
        BY <3>1, <4>1 DEF Canonical, EndsIn
    <3>2. CASE l < n
      BY <2>1, <2>2, <3>2 DEF Canonical, Trimmed
    <3> QED
      BY <2>2, <3>1, <3>2
  <2>4. t[l] \in Letters
    BY <1>1, <2>1, <2>2, <2>3 DEF Chars
  <2>5. LineOf(t, l) = LineOf(t, i)
    <3>1. \A m \in i..(l - 1) : t[m] # NL
      BY <2>1
    <3> QED
      BY <2>2, <3>1, LineOfSame
  <2> QED
    BY <2>2, <2>4, <2>5 DEF LettersOf
<1>4. \A x \in LettersOf(t, n, k) : j <= x
  <2>1. i \in 1..(n + 1)
    OBVIOUS
  <2> QED
    BY <2>1, LettersFrom
<1>5. PICK f \in LettersOf(t, n, k), l \in LettersOf(t, n, k) :
             \A x \in LettersOf(t, n, k) : f <= x /\ x <= l
  BY <1>2, EndsOfLine
<1>6. f \in 1..n /\ l \in 1..n /\ j \in 1..i
  BY DEF LettersOf, BeginsAt
<1>7. Line(t, k) = SubSeq(t, f, l)
  BY <1>1, <1>5, LineBetween
<1>8. f = j
  <2>1. f <= j /\ j <= f /\ j \in Nat
    BY <1>2, <1>4, <1>5 DEF LettersOf
  <2> QED
    BY <1>6, <2>1
<1>9. i <= l
  <2>1. PICK x \in LettersOf(t, n, k) : i <= x
    BY <1>3
  <2>2. x <= l /\ x \in Nat
    BY <1>5 DEF LettersOf
  <2> QED
    BY <1>6, <2>1, <2>2
<1> HIDE DEF k
<1>10. f \in Int /\ l \in Int /\ \A x \in f..l : t[x] \in Chars
  BY <1>1, <1>6
<1>11. /\ Len(SubSeq(t, f, l)) = IF f <= l THEN l - f + 1 ELSE 0
       /\ \A x \in 1..(l - f + 1) : SubSeq(t, f, l)[x] = t[f + x - 1]
  BY <1>10, SubSeqProperties
<1>12. /\ f <= l /\ l - f + 1 \in Nat /\ l - f + 1 >= i - j + 1
       /\ i - j + 1 \in 1..(l - f + 1) /\ f + (i - j + 1) - 1 = i
  BY <1>6, <1>8, <1>9
<1> QED
  BY <1>7, <1>11, <1>12 DEF k

\* At the end of a line, what stands before is all there is of it.
LEMMA PastLine ==
  ASSUME NEW t, t \in Seq(Chars), NEW n \in Nat, n = Len(t),
         NEW i \in 1..(n + 1), i = n + 1 \/ t[i] = NL, NEW j, BeginsAt(t, i, j)
  PROVE  Len(Line(t, LineOf(t, i))) <= i - j
<1> DEFINE k == LineOf(t, i)
<1>1. /\ DOMAIN t = 1..n
      /\ \A x \in 1..n : t[x] \in Chars
  BY LenProperties, ElementOfSeq
<1>2. i \in Nat \ {0} /\ j \in 1..i
  BY DEF BeginsAt
<1>3. ASSUME NEW x \in LettersOf(t, n, k) PROVE j <= x /\ x < i
  <2>1. j <= x
    BY <1>3, LettersFrom
  <2>2. x \in 1..n /\ LineOf(t, x) = k /\ t[x] \in Letters
    BY DEF LettersOf
  <2>3. x # i
    BY <2>2, TrimAssumption
  <2>4. ~ (i < x)
    <3> SUFFICES ASSUME i < x PROVE FALSE
      OBVIOUS
    <3>1. t[i] = NL /\ i \in i..(x - 1) /\ x \in Nat \ {0} /\ i <= x
      BY <1>2, <2>2
    <3>2. LineOf(t, i) < LineOf(t, x)
      BY <1>2, <3>1, LineOfGrows
    <3>3. LineOf(t, i) \in Nat
      BY <1>2, LineOfType
    <3> QED
      BY <2>2, <3>2, <3>3
  <2> QED
    BY <1>2, <2>1, <2>2, <2>3, <2>4
<1> HIDE DEF k
<1>4. CASE LettersOf(t, n, k) = {}
  <2>1. Line(t, k) = <<>>
    BY <1>1, <1>4, LineEmpty
  <2>2. Len(Line(t, k)) = 0
    BY <2>1, EmptySeq
  <2> QED
    BY <1>2, <2>2 DEF k
<1>5. CASE LettersOf(t, n, k) # {}
  <2>1. PICK f \in LettersOf(t, n, k), l \in LettersOf(t, n, k) :
               \A x \in LettersOf(t, n, k) : f <= x /\ x <= l
    BY <1>5, EndsOfLine
  <2>2. Line(t, k) = SubSeq(t, f, l)
    BY <1>1, <2>1, LineBetween
  <2>3. f \in 1..n /\ l \in 1..n /\ j <= f /\ l < i
    BY <1>3 DEF LettersOf
  <2>4. f \in Int /\ l \in Int /\ \A x \in f..l : t[x] \in Chars
    BY <1>1, <2>3
  <2>5. Len(SubSeq(t, f, l)) = IF f <= l THEN l - f + 1 ELSE 0
    BY <2>4, SubSeqProperties
  <2>6. Len(SubSeq(t, f, l)) <= i - j
    BY <1>2, <2>3, <2>5
  <2> QED
    BY <2>2, <2>6 DEF k
<1> QED
  BY <1>4, <1>5

\* Two texts that differ do so at a first place, where one of them may end.
LEMMA FirstDifference ==
  ASSUME NEW a \in Seq(Chars), NEW b \in Seq(Chars), a # b
  PROVE  \E p \in Nat, q \in Nat : \E i \in 1..(p + 1) :
           /\ p = Len(a) /\ q = Len(b)
           /\ i \in 1..(q + 1)
           /\ \A m \in 1..(i - 1) : a[m] = b[m]
           /\ \/ i \in 1..p /\ i \in 1..q /\ a[i] # b[i]
              \/ i = p + 1 /\ i \in 1..q
              \/ i = q + 1 /\ i \in 1..p
<1>0. PICK p \in Nat, q \in Nat : p = Len(a) /\ q = Len(b)
  BY LenProperties
<1> DEFINE T == {m \in 1..p : m \in 1..q /\ a[m] # b[m]}
           First(i) == /\ \A m \in 1..(i - 1) : a[m] = b[m]
                       /\ \/ i \in 1..p /\ i \in 1..q /\ a[i] # b[i]
                          \/ i = p + 1 /\ i \in 1..q
                          \/ i = q + 1 /\ i \in 1..p
<1> SUFFICES \E i \in 1..(p + 1) : i \in 1..(q + 1) /\ First(i)
  BY <1>0, Zenon
<1>1. CASE T # {}
  <2>1. T \in SUBSET Nat
    OBVIOUS
  <2>2. PICK i \in T : \A m \in T : i <= m
    BY <1>1, <2>1, LeastOf
  <2>3. ASSUME NEW m \in 1..(i - 1) PROVE a[m] = b[m]
    <3>1. m \in 1..p /\ m \in 1..q /\ ~ (i <= m)
      OBVIOUS
    <3> QED
      BY <2>2, <3>1
  <2>4. i \in 1..p /\ i \in 1..q /\ a[i] # b[i] /\ i \in 1..(p + 1) /\ i \in 1..(q + 1)
    OBVIOUS
  <2> QED
    BY <2>3, <2>4
<1>2. CASE T = {}
  <2>1. \A m \in 1..p : m \in 1..q => a[m] = b[m]
    BY <1>2
  <2>2. CASE p = q
    BY <1>0, <2>1, <2>2, SeqEqual
  <2>3. CASE p < q
    <3>1. p + 1 \in 1..(p + 1) /\ p + 1 \in 1..(q + 1) /\ p + 1 \in 1..q
      BY <2>3
    <3>2. \A m \in 1..((p + 1) - 1) : a[m] = b[m]
      BY <2>1, <2>3
    <3> QED
      BY <3>1, <3>2
  <2>4. CASE q < p
    <3>1. q + 1 \in 1..(p + 1) /\ q + 1 \in 1..(q + 1) /\ q + 1 \in 1..p
      BY <2>4
    <3>2. \A m \in 1..((q + 1) - 1) : a[m] = b[m]
      BY <2>1, <2>4
    <3> QED
      BY <3>1, <3>2
  <2> QED
    BY <2>2, <2>3, <2>4
<1> QED
  BY <1>1, <1>2

\* One of the texts has a character of the line where the other has none.
LEMMA LineGoesOn ==
  ASSUME NEW a, Canonical(a), NEW b, Canonical(b),
         NEW p \in Nat, p = Len(a), NEW q \in Nat, q = Len(b),
         NEW i \in 1..(p + 1), i \in 1..q, \A m \in 1..(i - 1) : a[m] = b[m],
         i = p + 1 \/ a[i] = NL, b[i] # NL
  PROVE  \E k \in Nat : 1 <= k /\ k <= p + 1 /\ Line(a, k) # Line(b, k)
<1>1. i \in Nat \ {0} /\ p + 1 \in Nat \ {0} /\ i <= p + 1
  OBVIOUS
<1>2. PICK j \in 1..i : BeginsAt(a, i, j)
  BY <1>1, LineBegins
<1>3. BeginsAt(b, i, j)
  <2>1. j = 1 \/ b[j - 1] = NL
    <3>1. j # 1 => j - 1 \in 1..(i - 1)
      OBVIOUS
    <3> QED
      BY <1>2, <3>1 DEF BeginsAt
  <2>2. \A m \in j..(i - 1) : b[m] # NL
    <3>1. \A m \in j..(i - 1) : m \in 1..(i - 1)
      OBVIOUS
    <3> QED
      BY <1>2, <3>1 DEF BeginsAt
  <2> QED
    BY <2>1, <2>2 DEF BeginsAt
<1>4. LineOf(a, i) = LineOf(b, i)
  BY <1>1, LineOfPrefix
<1>5. Len(Line(a, LineOf(a, i))) <= i - j
  <2>1. a \in Seq(Chars)
    BY DEF Canonical
  <2> QED
    BY <1>2, <2>1, PastLine
<1>6. PICK m \in Nat : m >= i - j + 1 /\ Len(Line(b, LineOf(b, i))) = m
  BY <1>3, InLine
<1>7. LineOf(a, i) \in Nat /\ 1 <= LineOf(a, i) /\ LineOf(a, i) <= p + 1
  <2>1. LineOf(a, i) \in Nat /\ 1 <= LineOf(a, i) /\ LineOf(a, i) <= i
    BY <1>1, LineOfType
  <2> QED
    BY <1>1, <2>1
<1>8. Line(a, LineOf(a, i)) # Line(b, LineOf(a, i))
  <2> SUFFICES ASSUME Line(a, LineOf(a, i)) = Line(b, LineOf(a, i)) PROVE FALSE
    OBVIOUS
  <2>1. m <= i - j
    BY <1>4, <1>5, <1>6
  <2> QED
    BY <1>6, <2>1
<1> QED
  BY <1>7, <1>8

\* One text goes on with another line where the other has ended.
LEMMA TextGoesOn ==
  ASSUME NEW a, Canonical(a), NEW b, Canonical(b),
         NEW p \in Nat, p = Len(a), NEW q \in Nat, q = Len(b),
         p + 1 \in 1..q, \A m \in 1..p : a[m] = b[m], b[p + 1] = NL
  PROVE  \E k \in Nat : 1 <= k /\ k <= q /\ Line(a, k) # Line(b, k)
<1> DEFINE k == LineOf(b, q)
<1>1. /\ DOMAIN a = 1..p /\ DOMAIN b = 1..q
      /\ \A x \in 1..q : b[x] \in Chars
  BY LenProperties, ElementOfSeq DEF Canonical
<1>2. q \in 1..q /\ p + 1 \in Nat \ {0} /\ q \in Nat \ {0} /\ p + 1 <= q
  OBVIOUS
<1>3. b[q] \in Letters
  <2>1. b # <<>>
    BY <1>2, EmptySeq
  <2>2. b[q] \notin Blanks \cup {NL}
    BY <2>1 DEF Canonical, EndsIn
  <2> QED
    BY <1>1, <1>2, <2>2 DEF Chars
<1>4. p + 1 \in (p + 1)..(q - 1)
  <2>1. p + 1 # q
    BY <1>3, TrimAssumption
  <2> QED
    BY <1>2, <2>1
<1>5. LineOf(b, p + 1) < k
  BY <1>2, <1>4, LineOfGrows
<1>6. LineOf(a, p + 1) = LineOf(b, p + 1)
  <2>1. \A m \in 1..((p + 1) - 1) : a[m] = b[m]
    OBVIOUS
  <2> QED
    BY <1>2, <2>1, LineOfPrefix
<1>7. k \in Nat /\ 1 <= k /\ k <= q /\ LineOf(a, p + 1) \in Nat
  BY <1>2, LineOfType
<1> HIDE DEF k
<1>8. LettersOf(a, p, k) = {}
  <2>1. ASSUME NEW x \in 1..p PROVE LineOf(a, x) # k
    <3>1. x \in Nat \ {0} /\ x <= p + 1
      OBVIOUS
    <3>2. LineOf(a, x) <= LineOf(a, p + 1) /\ LineOf(a, x) \in Nat
      BY <1>2, <3>1, LineOfGrows, LineOfType
    <3> QED
      BY <1>5, <1>6, <1>7, <3>2
  <2> QED
    BY <2>1 DEF LettersOf
<1>9. Line(a, k) = <<>>
  BY <1>1, <1>8, LineEmpty
<1>10. q \in LettersOf(b, q, k)
  BY <1>2, <1>3 DEF LettersOf, k
<1>11. PICK f \in LettersOf(b, q, k), l \in LettersOf(b, q, k) :
              \A x \in LettersOf(b, q, k) : f <= x /\ x <= l
  BY <1>10, EndsOfLine
<1>12. f \in 1..q /\ l \in 1..q /\ f <= l
  BY <1>11 DEF LettersOf
<1>13. f \in Int /\ l \in Int /\ \A x \in f..l : b[x] \in Chars
  BY <1>1, <1>12
<1>14. Line(b, k) = SubSeq(b, f, l)
  BY <1>1, <1>11, LineBetween
<1>15. Len(SubSeq(b, f, l)) = IF f <= l THEN l - f + 1 ELSE 0
  BY <1>13, SubSeqProperties
<1>16. Len(Line(b, k)) # 0
  BY <1>12, <1>14, <1>15
<1>17. Line(a, k) # Line(b, k)
  BY <1>9, <1>16, EmptySeq
<1> QED
  BY <1>7, <1>17

\* Two results of trim_output that differ, differ in some line.
LEMMA CanonicalDiffer ==
  ASSUME NEW a, Canonical(a), NEW b, Canonical(b), a # b
  PROVE  \E k \in Nat \ {0} : Line(a, k) # Line(b, k)
<1>1. a \in Seq(Chars) /\ b \in Seq(Chars)
  BY DEF Canonical
<1>2. PICK p \in Nat, q \in Nat : \E i \in 1..(p + 1) :
             /\ p = Len(a) /\ q = Len(b)
             /\ i \in 1..(q + 1)
             /\ \A m \in 1..(i - 1) : a[m] = b[m]
             /\ \/ i \in 1..p /\ i \in 1..q /\ a[i] # b[i]
                \/ i = p + 1 /\ i \in 1..q
                \/ i = q + 1 /\ i \in 1..p
  BY <1>1, FirstDifference
<1>3. PICK i \in 1..(p + 1) :
             /\ i \in 1..(q + 1)
             /\ \A m \in 1..(i - 1) : a[m] = b[m]
             /\ \/ i \in 1..p /\ i \in 1..q /\ a[i] # b[i]
                \/ i = p + 1 /\ i \in 1..q
                \/ i = q + 1 /\ i \in 1..p
  BY <1>2, Zenon
<1>4. \A m \in 1..(i - 1) : b[m] = a[m]
  BY <1>3
<1>5. CASE i \in 1..p /\ i \in 1..q /\ a[i] # b[i]
  <2>1. CASE a[i] = NL
    <3>1. PICK k \in Nat : 1 <= k /\ Line(a, k) # Line(b, k)
      BY <1>2, <1>3, <1>5, <2>1, LineGoesOn
    <3> QED
      BY <3>1
  <2>2. CASE b[i] = NL
    <3>1. PICK k \in Nat : 1 <= k /\ Line(b, k) # Line(a, k)
      BY <1>2, <1>3, <1>4, <1>5, <2>2, LineGoesOn
    <3> QED
      BY <3>1
  <2>3. CASE a[i] # NL /\ b[i] # NL
    <3>1. i \in Nat \ {0}
      OBVIOUS
    <3>2. PICK j \in 1..i : BeginsAt(a, i, j)
      BY <3>1, LineBegins
    <3>3. BeginsAt(b, i, j)
      <4>1. /\ j # 1 => j - 1 \in 1..(i - 1)
            /\ \A m \in j..(i - 1) : m \in 1..(i - 1)
        OBVIOUS
      <4> QED
        BY <1>3, <3>2, <4>1 DEF BeginsAt
    <3>4. Line(a, LineOf(a, i))[i - j + 1] = a[i]
      BY <1>2, <1>5, <2>3, <3>2, InLine
    <3>5. Line(b, LineOf(b, i))[i - j + 1] = b[i]
      BY <1>2, <1>5, <2>3, <3>3, InLine
    <3>6. LineOf(a, i) = LineOf(b, i)
      BY <1>3, <3>1, LineOfPrefix
    <3>7. Line(a, LineOf(a, i)) # Line(b, LineOf(a, i))
      BY <1>5, <3>4, <3>5, <3>6
    <3>8. LineOf(a, i) \in Nat \ {0}
      <4>1. LineOf(a, i) \in Nat /\ 1 <= LineOf(a, i)
        BY <3>1, LineOfType
      <4> QED
        BY <4>1
    <3> QED
      BY <3>7, <3>8
  <2> QED
    BY <2>1, <2>2, <2>3
<1>6. CASE i = p + 1 /\ i \in 1..q
  <2>1. \A m \in 1..p : a[m] = b[m]
    BY <1>3, <1>6
  <2>2. PICK k \in Nat : 1 <= k /\ Line(a, k) # Line(b, k)
    BY <1>2, <1>3, <1>6, <2>1, LineGoesOn, TextGoesOn
  <2> QED
    BY <2>2
<1>7. CASE i = q + 1 /\ i \in 1..p
  <2>1. \A m \in 1..q : b[m] = a[m]
    BY <1>4, <1>7
  <2>2. PICK k \in Nat : 1 <= k /\ Line(b, k) # Line(a, k)
    BY <1>2, <1>3, <1>4, <1>7, <2>1, LineGoesOn, TextGoesOn
  <2> QED
    BY <2>2
<1> QED
  BY <1>3, <1>5, <1>6, <1>7
-----------------------------------------------------------------------------
\* For texts of any length and any characters: trim_output makes two of them equal
\* exactly when each line of one, blanks at its ends aside, is the line of the other.
THEOREM TrimComparesAll ==
  ASSUME NEW s \in Seq(Chars), NEW u \in Seq(Chars)
  PROVE  Trim(s) = Trim(u) <=> \A k \in Nat \ {0} : Line(s, k) = Line(u, k)
<1>1. \A k : Line(Trim(s), k) = Line(s, k) /\ Line(Trim(u), k) = Line(u, k)
  BY TrimKeepsLines
<1>2. Canonical(Trim(s)) /\ Canonical(Trim(u))
  BY TrimTrims DEF Canonical
<1>3. CASE Trim(s) = Trim(u)
  BY <1>1, <1>3
<1>4. CASE Trim(s) # Trim(u)
  <2>1. PICK k \in Nat \ {0} : Line(Trim(s), k) # Line(Trim(u), k)
    BY <1>2, <1>4, CanonicalDiffer
  <2> QED
    BY <1>1, <1>4, <2>1
<1> QED
  BY <1>3, <1>4

\* An output that is trimmed already, such as a stored one, is left as it is.
THEOREM TrimIsIdempotent ==
  ASSUME NEW s \in Seq(Chars)
  PROVE  Trim(Trim(s)) = Trim(s)
<1>1. Trim(s) \in Seq(Chars)
  BY TrimTrims
<1>2. \A k \in Nat \ {0} : Line(Trim(s), k) = Line(s, k)
  BY TrimKeepsLines
<1> QED
  BY <1>1, <1>2, TrimComparesAll

\* A text has at most as many lines with letters as characters.
LEMMA NoSuchLine ==
  ASSUME NEW s \in Seq(Chars), NEW n \in Nat, n = Len(s), NEW k \in Nat, n < k
  PROVE  Line(s, k) = <<>>
<1>1. ASSUME NEW i \in 1..n PROVE LineOf(s, i) # k
  <2>1. i \in Nat \ {0} /\ i <= n
    OBVIOUS
  <2>2. LineOf(s, i) \in Nat /\ LineOf(s, i) <= i
    BY <2>1, LineOfType
  <2> QED
    BY <2>1, <2>2
<1>2. LettersOf(s, n, k) = {}
  BY <1>1 DEF LettersOf
<1>3. DOMAIN s = 1..n
  BY LenProperties
<1> QED
  BY <1>2, <1>3, LineEmpty

\* The same for the texts of the run, with the lines that these can have.
THEOREM TrimIsExact == TrimComparesLines
<1>1. ASSUME NEW a \in Texts
      PROVE  /\ a \in Seq(Chars)
             /\ \A k \in Nat : MaxTextLen + 1 < k => Line(a, k) = <<>>
  <2>1. PICK n \in 0..MaxTextLen : a \in [1..n -> Chars]
    BY DEF Texts, Chars
  <2>2. MaxTextLen \in Nat /\ n \in Nat
    BY TrimAssumption
  <2>3. a \in Seq(Chars) /\ Len(a) = n
    BY <2>1, <2>2
  <2>4. ASSUME NEW k \in Nat, MaxTextLen + 1 < k PROVE Line(a, k) = <<>>
    <3>1. n < k
      BY <2>2, <2>4
    <3> QED
      BY <2>2, <2>3, <3>1, NoSuchLine
  <2> QED
    BY <2>3, <2>4
<1> DEFINE trimmed == [t \in Texts |-> Trim(t)]
           lines   == [t \in Texts |-> [k \in 1..(MaxTextLen + 1) |-> Line(t, k)]]
<1>2. ASSUME NEW a \in Texts, NEW b \in Texts
      PROVE  trimmed[a] = trimmed[b] <=> lines[a] = lines[b]
  <2>1. MaxTextLen \in Nat
    BY TrimAssumption
  <2>2. Trim(a) = Trim(b) <=> \A k \in Nat \ {0} : Line(a, k) = Line(b, k)
    BY <1>1, TrimComparesAll
  <2>3. lines[a] = lines[b] <=> \A k \in 1..(MaxTextLen + 1) : Line(a, k) = Line(b, k)
    <3>1. /\ lines[a] = [k \in 1..(MaxTextLen + 1) |-> Line(a, k)]
          /\ lines[b] = [k \in 1..(MaxTextLen + 1) |-> Line(b, k)]
      OBVIOUS
    <3> HIDE DEF lines
    <3> QED
      BY <3>1
  <2>4. (\A k \in Nat \ {0} : Line(a, k) = Line(b, k))
          <=> \A k \in 1..(MaxTextLen + 1) : Line(a, k) = Line(b, k)
    <3>1. \A k \in 1..(MaxTextLen + 1) : k \in Nat \ {0}
      BY <2>1
    <3>2. ASSUME NEW k \in Nat \ {0}, k \notin 1..(MaxTextLen + 1)
          PROVE  Line(a, k) = Line(b, k)
      <4>1. MaxTextLen + 1 < k
        BY <2>1, <3>2
      <4> QED
        BY <1>1, <4>1
    <3> QED
      BY <3>1, <3>2
  <2>5. trimmed[a] = Trim(a) /\ trimmed[b] = Trim(b)
    OBVIOUS
  <2> QED
    BY <2>2, <2>3, <2>4, <2>5
<1> QED
  BY <1>2 DEF TrimComparesLines

\* In every state of the sandbox in which a run has returned its output, judge() tells
\* outputs apart by their lines and by nothing else, whatever bound on their length.
THEOREM OutputsJudgedByLines == SandboxSpec => []OutputsComparedByLines
<1>1. OutputsComparedByLines
  BY TrimIsExact DEF OutputsComparedByLines
<1> QED
  BY <1>1, PTL
=============================================================================
