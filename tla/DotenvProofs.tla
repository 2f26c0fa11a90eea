------------------------------ MODULE DotenvProofs ------------------------------
(***************************************************************************)
(* Proofs about Dotenv: a file is read as the entries it was written from, *)
(* for every value, every number of entries, every order and every         *)
(* MaxEntries; and whatever a file is, nothing is read that is not in it.  *)
(*                                                                         *)
(* The proofs follow the text.  A value is read token by token: between    *)
(* two tokens of what render_value wrote, the parser is between two tokens *)
(* of the value (ReadEscaped), and the scan for the end of the quote sees  *)
(* none (ScanEscaped).  A text is read line by line: Reaches says where    *)
(* the parser is after some lines, whatever follows, and ReadSoFar where   *)
(* it is after part of a file.                                             *)
(***************************************************************************)
EXTENDS Dotenv, SequenceTheorems, FiniteSetTheorems, WellFoundedInduction, TLAPS

--------------------------------------------------------------------------------
(* Induction.  The library's theorems take an operator as a parameter; these    *)
(* take a set, so that a proof about a fold can cite them.                      *)

\* A non-empty set of naturals has a least element.
LEMMA LeastNatural ==
  ASSUME NEW T \in SUBSET Nat, T # {}
  PROVE  \E m \in T : \A n \in T : m <= n
<1> DEFINE R == OpToRel(<, Nat)
<1>1. IsWellFoundedOn(R, Nat)
  BY NatLessThanWellFounded
<1>2. \A m, n \in Nat : n < m => <<n, m>> \in R
  BY DEF OpToRel
<1> HIDE DEF R
<1>3. PICK m \in T : \A n \in T : ~ (<<n, m>> \in R)
  BY <1>1, WFMin
<1>4. \A n \in T : ~(n < m)
  BY <1>2, <1>3
<1>5. \A n \in T : m <= n
  BY <1>4
<1> QED
  BY <1>5

\* Induction over the naturals, for a set that contains 0 and every successor.
LEMMA Induction ==
  ASSUME NEW T \in SUBSET Nat, 0 \in T, \A n \in T : n + 1 \in T
  PROVE  T = Nat
<1> SUFFICES ASSUME Nat \ T # {} PROVE FALSE
  OBVIOUS
<1>1. PICK m \in Nat \ T : \A n \in Nat \ T : m <= n
  BY LeastNatural
<1>2. m # 0 /\ m - 1 \in Nat
  BY <1>1
<1>3. m - 1 \in T
  BY <1>1, <1>2
<1> QED
  BY <1>1, <1>2, <1>3

\* Induction over sequences, for a set that contains the empty one and is closed under Append.
LEMMA SeqInduction ==
  ASSUME NEW S, NEW T \in SUBSET Seq(S), << >> \in T,
         \A s \in T, c \in S : Append(s, c) \in T
  PROVE  T = Seq(S)
<1> DEFINE N == {n \in Nat : \A s \in Seq(S) : Len(s) = n => s \in T}
<1>1. 0 \in N
  <2>1. \A s \in Seq(S) : Len(s) = 0 => s = << >>
    OBVIOUS
  <2> QED
    BY <2>1
<1>2. ASSUME NEW n \in N PROVE n + 1 \in N
  <2> SUFFICES ASSUME NEW s \in Seq(S), Len(s) = n + 1 PROVE s \in T
    BY <1>2
  <2>1. n \in Nat
    BY <1>2
  <2>2. PICK t : t = [i \in 1..n |-> s[i]]
    OBVIOUS
  <2>3. t \in Seq(S) /\ Len(t) = n /\ s[n + 1] \in S
    BY <2>1, <2>2
  <2>4. t \in T
    BY <2>3, <1>2
  <2>5. s = Append(t, s[n + 1])
    BY <2>1, <2>2, <2>3
  <2> QED
    BY <2>3, <2>4, <2>5
<1> HIDE DEF N
<1>3. N = Nat
  <2>1. N \in SUBSET Nat
    BY DEF N
  <2> QED
    BY <2>1, <1>1, <1>2, Induction
<1>4. ASSUME NEW s \in Seq(S) PROVE s \in T
  <2>1. Len(s) \in N
    BY <1>3
  <2> QED
    BY <2>1 DEF N
<1> QED
  BY <1>4

\* A non-empty set of indices has a maximum, and Max names it.
LEMMA MaxOfIndices ==
  ASSUME NEW n \in Nat, NEW t \in SUBSET (1..n), t # {}
  PROVE  Max(t) \in t /\ \A i \in t : i <= Max(t)
<1> DEFINE above == {m \in Nat : \A i \in t : i <= m}
<1>1. n \in above
  OBVIOUS
<1>2. PICK m \in above : \A j \in above : m <= j
  <2>1. above \in SUBSET Nat /\ above # {}
    BY <1>1
  <2> QED
    BY <2>1, LeastNatural
<1>3. m \in t
  <2> SUFFICES ASSUME m \notin t PROVE FALSE
    OBVIOUS
  <2>1. PICK i \in t : i \in 1..n /\ i <= m
    BY <1>2
  <2>2. m - 1 \in Nat
    BY <2>1, <1>2
  <2>3. \A j \in t : j <= m - 1
    BY <1>2
  <2>4. m - 1 \in above
    BY <2>2, <2>3
  <2> QED
    BY <2>4, <1>2
<1>4. \E x \in t : \A y \in t : x >= y
  BY <1>3, <1>2
<1>5. Max(t) \in t /\ \A y \in t : Max(t) >= y
  BY <1>4 DEF Max
<1> QED
  BY <1>5

\* The indices up to i are those before i, and i itself.
LEMMA LastOfIndices ==
  ASSUME NEW n \in Nat, NEW i \in 1..n
  PROVE  /\ 1..i \in SUBSET (1..n) /\ 1..i # {}
         /\ Max(1..i) = i
         /\ (1..i) \ {i} = 1..(i - 1)
<1>1. 1..i \in SUBSET (1..n) /\ i \in 1..i
  OBVIOUS
<1>2. Max(1..i) \in 1..i /\ i <= Max(1..i)
  BY <1>1, MaxOfIndices
<1>3. Max(1..i) = i
  BY <1>2
<1> QED
  BY <1>1, <1>3

--------------------------------------------------------------------------------
(* The folds of Dotenv, one token at a time.                                    *)

\* g is the graph of a fold over the indices 1..n, which MapThenFoldSet chooses: the step of
\* the largest index is applied last.
FoldOf(States, n, b, F, g) ==
  /\ g \in [SUBSET (1..n) -> States]
  /\ \A t \in SUBSET (1..n) : g[t] = IF t = {} THEN b ELSE F[Max(t)][g[t \ {Max(t)}]]

\* A fold has a graph, whatever its steps.
LEMMA FoldExists ==
  ASSUME NEW States, NEW n \in Nat, NEW b \in States, NEW F \in [1..n -> [States -> States]]
  PROVE  \E g : FoldOf(States, n, b, F, g)
<1> DEFINE Is(m, g) == FoldOf(States, m, b, F, g)
           T == {m \in Nat : m <= n => \E g : Is(m, g)}
<1> USE DEF FoldOf
<1>1. 0 \in T
  <2> DEFINE g == [t \in SUBSET (1..0) |-> b]
  <2>1. 1..0 = {}
    OBVIOUS
  <2>2. Is(0, g)
    BY <2>1
  <2> QED
    BY <2>2
<1>2. ASSUME NEW m \in T PROVE m + 1 \in T
  <2>0. m \in Nat /\ (m <= n => \E g : Is(m, g))
    BY <1>2 DEF T
  <2> HIDE DEF Is
  <2> SUFFICES ASSUME m + 1 <= n PROVE \E g : Is(m + 1, g)
    BY <2>0
  <2>1. PICK g : Is(m, g)
    BY <2>0
  <2> USE DEF Is
  <2> DEFINE h == [t \in SUBSET (1..m + 1) |->
                     IF m + 1 \in t THEN F[m + 1][g[t \ {m + 1}]] ELSE g[t]]
  <2>2. \A t \in SUBSET (1..m + 1) : m + 1 \in t => t \ {m + 1} \in SUBSET (1..m)
    OBVIOUS
  <2>3. \A t \in SUBSET (1..m + 1) : m + 1 \notin t => t \in SUBSET (1..m)
    OBVIOUS
  <2>4. \A t \in SUBSET (1..m + 1) : m + 1 \in t => Max(t) = m + 1
    <3> SUFFICES ASSUME NEW t \in SUBSET (1..m + 1), m + 1 \in t PROVE Max(t) = m + 1
      OBVIOUS
    <3>1. m + 1 \in Nat /\ t # {}
      OBVIOUS
    <3>2. Max(t) \in t /\ m + 1 <= Max(t)
      BY <3>1, MaxOfIndices
    <3>3. Max(t) \in 1..m + 1
      BY <3>2
    <3> QED
      BY <3>2, <3>3
  <2>5. \A t \in SUBSET (1..m + 1) : h[t] \in States
    <3> SUFFICES ASSUME NEW t \in SUBSET (1..m + 1) PROVE h[t] \in States
      OBVIOUS
    <3>1. CASE m + 1 \in t
      <4>1. g[t \ {m + 1}] \in States
        BY <2>1, <2>2, <3>1
      <4>2. m + 1 \in 1..n
        OBVIOUS
      <4> QED
        BY <3>1, <4>1, <4>2
    <3>2. CASE m + 1 \notin t
      BY <3>2, <2>1, <2>3
    <3> QED
      BY <3>1, <3>2
  <2>6. h \in [SUBSET (1..m + 1) -> States]
    BY <2>5
  <2>7. ASSUME NEW t \in SUBSET (1..m + 1)
        PROVE  h[t] = IF t = {} THEN b ELSE F[Max(t)][h[t \ {Max(t)}]]
    <3>1. CASE m + 1 \in t
      <4>1. h[t] = F[m + 1][g[t \ {m + 1}]]
        BY <3>1
      <4>2. t \ {m + 1} \in SUBSET (1..m + 1) /\ m + 1 \notin t \ {m + 1}
        OBVIOUS
      <4>3. h[t \ {m + 1}] = g[t \ {m + 1}]
        BY <4>2
      <4> QED
        BY <4>1, <4>3, <2>4, <3>1
    <3>2. CASE m + 1 \notin t /\ t # {}
      <4>1. Max(t) \in t /\ t \in SUBSET (1..m)
        BY <3>2, <2>3, MaxOfIndices
      <4>2. h[t] = g[t] /\ h[t \ {Max(t)}] = g[t \ {Max(t)}]
        BY <3>2
      <4>3. g[t] = F[Max(t)][g[t \ {Max(t)}]]
        BY <2>1, <4>1, <3>2
      <4> QED
        BY <4>2, <4>3, <3>2
    <3>3. CASE t = {}
      <4>1. h[t] = g[t] /\ t \in SUBSET (1..m)
        BY <3>3
      <4> QED
        BY <4>1, <2>1, <3>3
    <3> QED
      BY <3>1, <3>2, <3>3
  <2>8. Is(m + 1, h)
    BY <2>6, <2>7
  <2> QED
    BY <2>8
<1> HIDE DEF Is
<1>3. T \in SUBSET Nat
  OBVIOUS
<1> HIDE DEF T
<1>4. T = Nat
  BY <1>1, <1>2, <1>3, Induction
<1>5. n \in T
  BY <1>4
<1>6. PICK g : Is(n, g)
  BY <1>5 DEF T
<1> QED
  BY <1>6 DEF Is

\* The tokens that reading a quoted value can produce.
Token(S) == S \cup {"\n", "\r", "\t"}

\* The states of parse_double_quoted.
Reading(S) == [ok : BOOLEAN, escaped : BOOLEAN, closed : BOOLEAN, value : Seq(Token(S))]

\* Reading one more token leaves a state of parse_double_quoted.
LEMMA DoubleQuotedCharType ==
  ASSUME NEW S, NEW st \in Reading(S), NEW c \in Token(S)
  PROVE  DoubleQuotedChar(st, c) \in Reading(S)
<1> PICK T : T = Token(S)
  OBVIOUS
<1> DEFINE R == [ok : BOOLEAN, escaped : BOOLEAN, closed : BOOLEAN, value : Seq(T)]
<1>1. R = Reading(S) /\ st \in R /\ c \in T
  BY DEF Reading
<1>2. st.value \in Seq(T)
  BY <1>1
<1>3. Unescape(c) \in T
  BY DEF Unescape, Token
<1>4. Append(st.value, c) \in Seq(T)
  BY <1>1, <1>2
<1>5. Append(st.value, Unescape(c)) \in Seq(T)
  BY <1>2, <1>3
<1>6. InsideQuotes(st, c) \in R
  BY <1>1, <1>4 DEF InsideQuotes
<1>7. UnescapeChar(st, c) \in R
  BY <1>1, <1>5 DEF UnescapeChar
<1> QED
  BY <1>1, <1>6, <1>7 DEF DoubleQuotedChar

\* The state of parse_double_quoted after s, from b.
Read(b, s) == FoldLeft(DoubleQuotedChar, b, s)

\* Reading s goes through a sequence of states, one for each token.
LEMMA DoubleQuotedRun ==
  ASSUME NEW S, NEW s \in Seq(Token(S)), NEW b \in Reading(S)
  PROVE  \E f : /\ f[0] = b
                /\ \A i \in 1..Len(s) : f[i] = DoubleQuotedChar(f[i - 1], s[i])
                /\ Read(b, s) = f[Len(s)]
<1> PICK n : n = Len(s)
  OBVIOUS
<1> DEFINE Is(g) == g = [t \in SUBSET (1..n) |->
                           IF t = {} THEN b ELSE DoubleQuotedChar(g[t \ {Max(t)}], s[Max(t)])]
<1>1. n \in Nat /\ DOMAIN s = 1..n /\ \A i \in 1..n : s[i] \in Token(S)
  OBVIOUS
<1>2. \E g : Is(g)
  <2> DEFINE F == [i \in 1..n |-> [st \in Reading(S) |-> DoubleQuotedChar(st, s[i])]]
  <2>1. F \in [1..n -> [Reading(S) -> Reading(S)]]
    BY <1>1, DoubleQuotedCharType
  <2> HIDE DEF F
  <2>2. PICK g : FoldOf(Reading(S), n, b, F, g)
    BY <1>1, <2>1, FoldExists
  <2>3. g = [t \in SUBSET (1..n) |-> g[t]]
    BY <2>2 DEF FoldOf
  <2>4. ASSUME NEW t \in SUBSET (1..n)
        PROVE  g[t] = IF t = {} THEN b ELSE DoubleQuotedChar(g[t \ {Max(t)}], s[Max(t)])
    <3>1. CASE t = {}
      BY <2>2, <3>1 DEF FoldOf
    <3>2. CASE t # {}
      <4>1. Max(t) \in 1..n
        BY <1>1, <3>2, MaxOfIndices
      <4>2. g[t \ {Max(t)}] \in Reading(S)
        BY <2>2 DEF FoldOf
      <4>3. g[t] = F[Max(t)][g[t \ {Max(t)}]]
        BY <2>2, <3>2 DEF FoldOf
      <4> QED
        BY <3>2, <4>1, <4>2, <4>3 DEF F
    <3> QED
      BY <3>1, <3>2
  <2> QED
    BY <2>3, <2>4
<1>3. Read(b, s) = (CHOOSE g : Is(g))[1..n]
  BY <1>1 DEF Read, FoldLeft, MapThenFoldSet
<1>4. PICK h : h = CHOOSE g : Is(g)
  OBVIOUS
<1>5. Is(h)
  BY <1>2, <1>4
<1> DEFINE f == [i \in 0..n |-> h[1..i]]
<1>6. 1..0 = {}
  OBVIOUS
<1>7. f[0] = b
  BY <1>1, <1>5, <1>6
<1>8. ASSUME NEW i \in 1..n PROVE f[i] = DoubleQuotedChar(f[i - 1], s[i])
  <2>1. /\ 1..i \in SUBSET (1..n) /\ 1..i # {}
        /\ Max(1..i) = i
        /\ (1..i) \ {i} = 1..(i - 1)
    BY <1>1, LastOfIndices
  <2>2. h[1..i] = DoubleQuotedChar(h[1..(i - 1)], s[i])
    BY <1>5, <2>1
  <2> QED
    BY <1>1, <2>2
<1>9. f[n] = Read(b, s)
  BY <1>1, <1>3, <1>4
<1> HIDE DEF f
<1> QED
  BY <1>7, <1>8, <1>9

\* Reading a longer text is reading its last token after the rest.
LEMMA DoubleQuotedFold ==
  ASSUME NEW S, NEW b \in Reading(S)
  PROVE  /\ Read(b, << >>) = b
         /\ \A s \in Seq(Token(S)), c \in Token(S) :
              Read(b, Append(s, c)) = DoubleQuotedChar(Read(b, s), c)
<1>1. Read(b, << >>) = b
  <2>1. PICK e : e = << >>
    OBVIOUS
  <2>2. e \in Seq(Token(S)) /\ Len(e) = 0
    BY <2>1
  <2>3. PICK f : /\ f[0] = b
                 /\ \A i \in 1..Len(e) : f[i] = DoubleQuotedChar(f[i - 1], e[i])
                 /\ Read(b, e) = f[Len(e)]
    BY <2>2, DoubleQuotedRun
  <2> QED
    BY <2>1, <2>2, <2>3
<1>2. ASSUME NEW s \in Seq(Token(S)), NEW c \in Token(S)
      PROVE  Read(b, Append(s, c)) = DoubleQuotedChar(Read(b, s), c)
  <2>1. PICK n, t : n = Len(s) /\ t = Append(s, c)
    OBVIOUS
  <2>2. /\ n \in Nat /\ t \in Seq(Token(S)) /\ Len(t) = n + 1
        /\ t[n + 1] = c /\ \A i \in 1..n : t[i] = s[i]
    BY <2>1
  <2>3. PICK f : /\ f[0] = b
                 /\ \A i \in 1..n : f[i] = DoubleQuotedChar(f[i - 1], s[i])
                 /\ Read(b, s) = f[n]
    BY <2>1, DoubleQuotedRun
  <2>4. PICK g : /\ g[0] = b
                 /\ \A i \in 1..n + 1 : g[i] = DoubleQuotedChar(g[i - 1], t[i])
                 /\ Read(b, t) = g[n + 1]
    BY <2>2, DoubleQuotedRun
  <2> DEFINE Same == {i \in Nat : i <= n => f[i] = g[i]}
  <2>5. 0 \in Same
    BY <2>3, <2>4
  <2>6. ASSUME NEW i \in Same PROVE i + 1 \in Same
    <3> SUFFICES ASSUME i + 1 <= n PROVE f[i + 1] = g[i + 1]
      BY <2>6
    <3>1. i \in Nat /\ f[i] = g[i]
      BY <2>6, <2>2
    <3>2. i + 1 \in 1..n /\ i + 1 \in 1..n + 1 /\ (i + 1) - 1 = i
      BY <3>1, <2>2
    <3>3. f[i + 1] = DoubleQuotedChar(f[i], s[i + 1]) /\ g[i + 1] = DoubleQuotedChar(g[i], t[i + 1])
      BY <2>3, <2>4, <3>2
    <3> QED
      BY <3>1, <3>2, <3>3, <2>2
  <2> HIDE DEF Same
  <2>7. n \in Same
    <3>1. Same \in SUBSET Nat
      BY DEF Same
    <3> QED
      BY <3>1, <2>2, <2>5, <2>6, Induction
  <2>8. f[n] = g[n]
    BY <2>7, <2>2 DEF Same
  <2>9. n + 1 \in 1..n + 1 /\ (n + 1) - 1 = n
    BY <2>2
  <2>10. g[n + 1] = DoubleQuotedChar(g[n], t[n + 1])
    BY <2>4, <2>9
  <2> QED
    BY <2>1, <2>2, <2>3, <2>4, <2>8, <2>10
<1> QED
  BY <1>1, <1>2

\* The states of quoted_value_is_closed.
Scanning == [quote : {"\""}, escaped : BOOLEAN, closed : BOOLEAN]

\* Scanning one more token leaves a state of quoted_value_is_closed.
LEMMA ClosedCharType ==
  ASSUME NEW st \in Scanning, NEW c
  PROVE  ClosedChar(st, c) \in Scanning
BY DEF Scanning, ClosedChar

\* The state of quoted_value_is_closed after s, from b.
Scan(b, s) == FoldLeft(ClosedChar, b, s)

\* Scanning s goes through a sequence of states, one for each token.
LEMMA ClosedRun ==
  ASSUME NEW S, NEW s \in Seq(S), NEW b \in Scanning
  PROVE  \E f : /\ f[0] = b
                /\ \A i \in 1..Len(s) : f[i] = ClosedChar(f[i - 1], s[i])
                /\ Scan(b, s) = f[Len(s)]
<1> PICK n : n = Len(s)
  OBVIOUS
<1> DEFINE Is(g) == g = [t \in SUBSET (1..n) |->
                           IF t = {} THEN b ELSE ClosedChar(g[t \ {Max(t)}], s[Max(t)])]
<1>1. n \in Nat /\ DOMAIN s = 1..n /\ \A i \in 1..n : s[i] \in S
  OBVIOUS
<1>2. \E g : Is(g)
  <2> DEFINE F == [i \in 1..n |-> [st \in Scanning |-> ClosedChar(st, s[i])]]
  <2>1. F \in [1..n -> [Scanning -> Scanning]]
    BY <1>1, ClosedCharType
  <2> HIDE DEF F
  <2>2. PICK g : FoldOf(Scanning, n, b, F, g)
    BY <1>1, <2>1, FoldExists
  <2>3. g = [t \in SUBSET (1..n) |-> g[t]]
    BY <2>2 DEF FoldOf
  <2>4. ASSUME NEW t \in SUBSET (1..n)
        PROVE  g[t] = IF t = {} THEN b ELSE ClosedChar(g[t \ {Max(t)}], s[Max(t)])
    <3>1. CASE t = {}
      BY <2>2, <3>1 DEF FoldOf
    <3>2. CASE t # {}
      <4>1. Max(t) \in 1..n
        BY <1>1, <3>2, MaxOfIndices
      <4>2. g[t \ {Max(t)}] \in Scanning
        BY <2>2 DEF FoldOf
      <4>3. g[t] = F[Max(t)][g[t \ {Max(t)}]]
        BY <2>2, <3>2 DEF FoldOf
      <4> QED
        BY <3>2, <4>1, <4>2, <4>3 DEF F
    <3> QED
      BY <3>1, <3>2
  <2> QED
    BY <2>3, <2>4
<1>3. Scan(b, s) = (CHOOSE g : Is(g))[1..n]
  BY <1>1 DEF Scan, FoldLeft, MapThenFoldSet
<1>4. PICK h : h = CHOOSE g : Is(g)
  OBVIOUS
<1>5. Is(h)
  BY <1>2, <1>4
<1> DEFINE f == [i \in 0..n |-> h[1..i]]
<1>6. 1..0 = {}
  OBVIOUS
<1>7. f[0] = b
  BY <1>1, <1>5, <1>6
<1>8. ASSUME NEW i \in 1..n PROVE f[i] = ClosedChar(f[i - 1], s[i])
  <2>1. /\ 1..i \in SUBSET (1..n) /\ 1..i # {}
        /\ Max(1..i) = i
        /\ (1..i) \ {i} = 1..(i - 1)
    BY <1>1, LastOfIndices
  <2>2. h[1..i] = ClosedChar(h[1..(i - 1)], s[i])
    BY <1>5, <2>1
  <2> QED
    BY <1>1, <2>2
<1>9. f[n] = Scan(b, s)
  BY <1>1, <1>3, <1>4
<1> HIDE DEF f
<1> QED
  BY <1>7, <1>8, <1>9

\* Scanning a longer text is scanning its last token after the rest.
LEMMA ClosedFold ==
  ASSUME NEW S, NEW b \in Scanning
  PROVE  /\ Scan(b, << >>) = b
         /\ \A s \in Seq(S), c \in S :
              Scan(b, Append(s, c)) = ClosedChar(Scan(b, s), c)
<1>1. Scan(b, << >>) = b
  <2>1. PICK e : e = << >>
    OBVIOUS
  <2>2. e \in Seq(S) /\ Len(e) = 0
    BY <2>1
  <2>3. PICK f : /\ f[0] = b
                 /\ \A i \in 1..Len(e) : f[i] = ClosedChar(f[i - 1], e[i])
                 /\ Scan(b, e) = f[Len(e)]
    BY <2>2, ClosedRun
  <2> QED
    BY <2>1, <2>2, <2>3
<1>2. ASSUME NEW s \in Seq(S), NEW c \in S
      PROVE  Scan(b, Append(s, c)) = ClosedChar(Scan(b, s), c)
  <2>1. PICK n, t : n = Len(s) /\ t = Append(s, c)
    OBVIOUS
  <2>2. /\ n \in Nat /\ t \in Seq(S) /\ Len(t) = n + 1
        /\ t[n + 1] = c /\ \A i \in 1..n : t[i] = s[i]
    BY <2>1
  <2>3. PICK f : /\ f[0] = b
                 /\ \A i \in 1..n : f[i] = ClosedChar(f[i - 1], s[i])
                 /\ Scan(b, s) = f[n]
    BY <2>1, ClosedRun
  <2>4. PICK g : /\ g[0] = b
                 /\ \A i \in 1..n + 1 : g[i] = ClosedChar(g[i - 1], t[i])
                 /\ Scan(b, t) = g[n + 1]
    BY ONLY <2>2, b \in Scanning, ClosedRun
  <2> DEFINE Same == {i \in Nat : i <= n => f[i] = g[i]}
  <2>5. 0 \in Same
    BY <2>3, <2>4
  <2>6. ASSUME NEW i \in Same PROVE i + 1 \in Same
    <3> SUFFICES ASSUME i + 1 <= n PROVE f[i + 1] = g[i + 1]
      BY <2>6
    <3>1. i \in Nat /\ f[i] = g[i]
      BY <2>6, <2>2
    <3>2. i + 1 \in 1..n /\ i + 1 \in 1..n + 1 /\ (i + 1) - 1 = i
      BY <3>1, <2>2
    <3>3. f[i + 1] = ClosedChar(f[i], s[i + 1]) /\ g[i + 1] = ClosedChar(g[i], t[i + 1])
      BY <2>3, <2>4, <3>2
    <3> QED
      BY <3>1, <3>2, <3>3, <2>2
  <2> HIDE DEF Same
  <2>7. n \in Same
    <3>1. Same \in SUBSET Nat
      BY DEF Same
    <3> QED
      BY <3>1, <2>2, <2>5, <2>6, Induction
  <2>8. f[n] = g[n]
    BY <2>7, <2>2 DEF Same
  <2>9. n + 1 \in 1..n + 1 /\ (n + 1) - 1 = n
    BY <2>2
  <2>10. g[n + 1] = ClosedChar(g[n], t[n + 1])
    BY <2>4, <2>9
  <2> QED
    BY <2>1, <2>2, <2>3, <2>4, <2>8, <2>10
<1> QED
  BY <1>1, <1>2

\* The states of a text being split into lines.
Splitting(S) == [lines : Seq(Seq(S)), current : Seq(S)]

\* Dropping a carriage return leaves a line.
LEMMA ChompType == ASSUME NEW S, NEW line \in Seq(S) PROVE Chomp(line) \in Seq(S)
BY DEF Chomp, EndsWith, Front

\* Splitting one more token leaves a state of the splitting.
LEMMA LineCharType ==
  ASSUME NEW S, NEW st \in Splitting(S), NEW c \in S
  PROVE  LineChar(st, c) \in Splitting(S)
<1>1. st.lines \in Seq(Seq(S)) /\ st.current \in Seq(S)
  BY DEF Splitting
<1>2. Chomp(st.current) \in Seq(S)
  BY <1>1, ChompType
<1>3. PICK Lines1 : Lines1 = Seq(S)
  OBVIOUS
<1>4. Append(st.lines, Chomp(st.current)) \in Seq(Lines1)
  BY <1>1, <1>2, <1>3
<1>5. Append(st.current, c) \in Seq(S) /\ << >> \in Seq(S)
  BY <1>1
<1> QED
  BY <1>1, <1>3, <1>4, <1>5 DEF LineChar, Splitting

\* The state of the splitting after s, from b.
Split(b, s) == FoldLeft(LineChar, b, s)

\* Splitting s goes through a sequence of states, one for each token.
LEMMA LineRun ==
  ASSUME NEW S, NEW s \in Seq(S), NEW b \in Splitting(S)
  PROVE  \E f : /\ f[0] = b
                /\ \A i \in 1..Len(s) : f[i] = LineChar(f[i - 1], s[i])
                /\ Split(b, s) = f[Len(s)]
<1> PICK n : n = Len(s)
  OBVIOUS
<1> DEFINE Is(g) == g = [t \in SUBSET (1..n) |->
                           IF t = {} THEN b ELSE LineChar(g[t \ {Max(t)}], s[Max(t)])]
<1>1. n \in Nat /\ DOMAIN s = 1..n /\ \A i \in 1..n : s[i] \in S
  OBVIOUS
<1>2. \E g : Is(g)
  <2> DEFINE F == [i \in 1..n |-> [st \in Splitting(S) |-> LineChar(st, s[i])]]
  <2>1. F \in [1..n -> [Splitting(S) -> Splitting(S)]]
    BY <1>1, LineCharType
  <2> HIDE DEF F
  <2>2. PICK g : FoldOf(Splitting(S), n, b, F, g)
    BY <1>1, <2>1, FoldExists
  <2>3. g = [t \in SUBSET (1..n) |-> g[t]]
    BY <2>2 DEF FoldOf
  <2>4. ASSUME NEW t \in SUBSET (1..n)
        PROVE  g[t] = IF t = {} THEN b ELSE LineChar(g[t \ {Max(t)}], s[Max(t)])
    <3>1. CASE t = {}
      BY <2>2, <3>1 DEF FoldOf
    <3>2. CASE t # {}
      <4>1. Max(t) \in 1..n
        BY <1>1, <3>2, MaxOfIndices
      <4>2. g[t \ {Max(t)}] \in Splitting(S)
        BY <2>2 DEF FoldOf
      <4>3. g[t] = F[Max(t)][g[t \ {Max(t)}]]
        BY <2>2, <3>2 DEF FoldOf
      <4> QED
        BY <3>2, <4>1, <4>2, <4>3 DEF F
    <3> QED
      BY <3>1, <3>2
  <2> QED
    BY <2>3, <2>4
<1>3. Split(b, s) = (CHOOSE g : Is(g))[1..n]
  BY <1>1 DEF Split, FoldLeft, MapThenFoldSet
<1>4. PICK h : h = CHOOSE g : Is(g)
  OBVIOUS
<1>5. Is(h)
  BY <1>2, <1>4
<1> DEFINE f == [i \in 0..n |-> h[1..i]]
<1>6. 1..0 = {}
  OBVIOUS
<1>7. f[0] = b
  BY <1>1, <1>5, <1>6
<1>8. ASSUME NEW i \in 1..n PROVE f[i] = LineChar(f[i - 1], s[i])
  <2>1. /\ 1..i \in SUBSET (1..n) /\ 1..i # {}
        /\ Max(1..i) = i
        /\ (1..i) \ {i} = 1..(i - 1)
    BY <1>1, LastOfIndices
  <2>2. h[1..i] = LineChar(h[1..(i - 1)], s[i])
    BY <1>5, <2>1
  <2> QED
    BY <1>1, <2>2
<1>9. f[n] = Split(b, s)
  BY <1>1, <1>3, <1>4
<1> HIDE DEF f
<1> QED
  BY <1>7, <1>8, <1>9

\* Splitting a longer text is splitting its last token after the rest.
LEMMA LineFold ==
  ASSUME NEW S, NEW b \in Splitting(S)
  PROVE  /\ Split(b, << >>) = b
         /\ \A s \in Seq(S), c \in S :
              Split(b, Append(s, c)) = LineChar(Split(b, s), c)
<1>1. Split(b, << >>) = b
  <2>1. PICK e : e = << >>
    OBVIOUS
  <2>2. e \in Seq(S) /\ Len(e) = 0
    BY <2>1
  <2>3. PICK f : /\ f[0] = b
                 /\ \A i \in 1..Len(e) : f[i] = LineChar(f[i - 1], e[i])
                 /\ Split(b, e) = f[Len(e)]
    BY <2>2, LineRun
  <2> QED
    BY <2>1, <2>2, <2>3
<1>2. ASSUME NEW s \in Seq(S), NEW c \in S
      PROVE  Split(b, Append(s, c)) = LineChar(Split(b, s), c)
  <2>1. PICK n, t : n = Len(s) /\ t = Append(s, c)
    OBVIOUS
  <2>2. /\ n \in Nat /\ t \in Seq(S) /\ Len(t) = n + 1
        /\ t[n + 1] = c /\ \A i \in 1..n : t[i] = s[i]
    BY <2>1
  <2>3. PICK f : /\ f[0] = b
                 /\ \A i \in 1..n : f[i] = LineChar(f[i - 1], s[i])
                 /\ Split(b, s) = f[n]
    BY <2>1, LineRun
  <2>4. PICK g : /\ g[0] = b
                 /\ \A i \in 1..n + 1 : g[i] = LineChar(g[i - 1], t[i])
                 /\ Split(b, t) = g[n + 1]
    BY <2>2, LineRun
  <2> DEFINE Same == {i \in Nat : i <= n => f[i] = g[i]}
  <2>5. 0 \in Same
    BY <2>3, <2>4
  <2>6. ASSUME NEW i \in Same PROVE i + 1 \in Same
    <3> SUFFICES ASSUME i + 1 <= n PROVE f[i + 1] = g[i + 1]
      BY <2>6
    <3>1. i \in Nat /\ f[i] = g[i]
      BY <2>6, <2>2
    <3>2. i + 1 \in 1..n /\ i + 1 \in 1..n + 1 /\ (i + 1) - 1 = i
      BY <3>1, <2>2
    <3>3. f[i + 1] = LineChar(f[i], s[i + 1]) /\ g[i + 1] = LineChar(g[i], t[i + 1])
      BY <2>3, <2>4, <3>2
    <3> QED
      BY <3>1, <3>2, <3>3, <2>2
  <2> HIDE DEF Same
  <2>7. n \in Same
    <3>1. Same \in SUBSET Nat
      BY DEF Same
    <3> QED
      BY <3>1, <2>2, <2>5, <2>6, Induction
  <2>8. f[n] = g[n]
    BY <2>7, <2>2 DEF Same
  <2>9. n + 1 \in 1..n + 1 /\ (n + 1) - 1 = n
    BY <2>2
  <2>10. g[n + 1] = LineChar(g[n], t[n + 1])
    BY <2>4, <2>9
  <2> QED
    BY <2>1, <2>2, <2>3, <2>4, <2>8, <2>10
<1> QED
  BY <1>1, <1>2

--------------------------------------------------------------------------------
(* Concatenations and the run of the parser, one line at a time.                *)

\* g holds the concatenations of the first i of seqs, which FlattenSeq chooses.
FlattenOf(seqs, m, g) ==
  g = [i \in 1..m |-> IF i = 1 THEN seqs[i] ELSE g[i - 1] \o seqs[i]]

\* The concatenations of one more sequence exist.
LEMMA FlattenOfStep ==
  ASSUME NEW seqs, NEW m \in Nat, NEW g, FlattenOf(seqs, m, g)
  PROVE  \E h : FlattenOf(seqs, m + 1, h)
<1> DEFINE h == [i \in 1..m + 1 |-> IF i = 1 THEN seqs[1]
                                    ELSE IF i = m + 1 THEN g[m] \o seqs[m + 1] ELSE g[i]]
<1>1. \A i \in 1..m : g[i] = IF i = 1 THEN seqs[i] ELSE g[i - 1] \o seqs[i]
  BY DEF FlattenOf
<1>2. \A i \in 1..m : h[i] = g[i]
  BY <1>1
<1>3. m # 0 => h[m + 1] = g[m] \o seqs[m + 1]
  <2>1. m # 0 => m + 1 # 1 /\ m + 1 \in 1..m + 1
    OBVIOUS
  <2> QED
    BY <2>1
<1>7. h[1] = seqs[1]
  OBVIOUS
<1>4. h = [i \in 1..m + 1 |-> h[i]]
  OBVIOUS
<1> HIDE DEF h
<1>5. ASSUME NEW i \in 1..m + 1
      PROVE  h[i] = IF i = 1 THEN seqs[i] ELSE h[i - 1] \o seqs[i]
  <2>1. CASE i = 1
    BY <2>1, <1>7
  <2>2. CASE i # 1
    <3>1. i - 1 \in 1..m /\ i \in Int
      BY <2>2
    <3>2. h[i - 1] = g[i - 1]
      BY <3>1, <1>2
    <3>3. CASE i = m + 1
      <4>1. i - 1 = m /\ m # 0
        BY <3>3, <2>2
      <4> QED
        BY <4>1, <3>2, <3>3, <2>2, <1>3
    <3>4. CASE i # m + 1
      <4>1. i \in 1..m
        BY <3>4
      <4>2. g[i] = g[i - 1] \o seqs[i]
        BY <4>1, <2>2, <1>1
      <4> QED
        BY <4>1, <4>2, <3>2, <2>2, <1>2
    <3> QED
      BY <3>3, <3>4
  <2> QED
    BY <2>1, <2>2
<1>6. FlattenOf(seqs, m + 1, h)
  BY <1>4, <1>5 DEF FlattenOf
<1> QED
  BY <1>6

\* FlattenSeq concatenates from the left, one sequence at a time.
LEMMA FlattenRun ==
  ASSUME NEW S, NEW seqs \in Seq(Seq(S)), Len(seqs) # 0
  PROVE  \E f : /\ f[1] = seqs[1]
                /\ \A i \in 2..Len(seqs) : f[i] = f[i - 1] \o seqs[i]
                /\ FlattenSeq(seqs) = f[Len(seqs)]
<1> PICK n : n = Len(seqs)
  OBVIOUS
<1>1. n \in Nat \ {0}
  OBVIOUS
<1> DEFINE T == {m \in Nat : \E g : FlattenOf(seqs, m, g)}
<1>2. 0 \in T
  <2>1. FlattenOf(seqs, 0, [i \in 1..0 |-> seqs[i]])
    BY DEF FlattenOf
  <2> QED
    BY <2>1
<1>3. ASSUME NEW m \in T PROVE m + 1 \in T
  BY <1>3, FlattenOfStep
<1>4. n \in T
  <2>1. T \in SUBSET Nat
    OBVIOUS
  <2> HIDE DEF T
  <2> QED
    BY <2>1, <1>1, <1>2, <1>3, Induction
<1>5. FlattenSeq(seqs) = (CHOOSE g : FlattenOf(seqs, n, g))[n]
  BY <1>1 DEF FlattenSeq, FlattenOf
<1>6. PICK f : f = CHOOSE g : FlattenOf(seqs, n, g)
  OBVIOUS
<1>7. FlattenOf(seqs, n, f)
  BY <1>4, <1>6
<1>8. f[1] = seqs[1]
  BY <1>7, <1>1 DEF FlattenOf
<1>9. ASSUME NEW i \in 2..n PROVE f[i] = f[i - 1] \o seqs[i]
  <2>1. i \in 1..n /\ i # 1
    BY <1>1
  <2> QED
    BY <1>7, <2>1 DEF FlattenOf
<1> QED
  BY <1>5, <1>6, <1>8, <1>9

\* Flattening one sequence more appends it.
LEMMA FlattenFold ==
  ASSUME NEW S
  PROVE  /\ FlattenSeq(<< >>) = << >>
         /\ \A seqs \in Seq(Seq(S)) : FlattenSeq(seqs) \in Seq(S)
         /\ \A seqs \in Seq(Seq(S)), x \in Seq(S) :
              FlattenSeq(Append(seqs, x)) = FlattenSeq(seqs) \o x
<1>1. FlattenSeq(<< >>) = << >>
  BY DEF FlattenSeq
<1>2. ASSUME NEW seqs \in Seq(Seq(S)) PROVE FlattenSeq(seqs) \in Seq(S)
  <2>1. CASE Len(seqs) = 0
    <3>1. seqs = << >> /\ << >> \in Seq(S)
      BY <2>1
    <3> QED
      BY <3>1, <1>1
  <2>2. CASE Len(seqs) # 0
    <3>1. PICK n, Q : n = Len(seqs) /\ Q = Seq(S)
      OBVIOUS
    <3>2. PICK f : /\ f[1] = seqs[1]
                   /\ \A i \in 2..n : f[i] = f[i - 1] \o seqs[i]
                   /\ FlattenSeq(seqs) = f[n]
      BY <2>2, <3>1, FlattenRun
    <3>3. n \in Nat \ {0} /\ \A i \in 1..n : seqs[i] \in Q
      BY <2>2, <3>1
    <3>4. \A y, z \in Q : y \o z \in Q
      BY <3>1
    <3> DEFINE U == {m \in Nat : m + 1 <= n => f[m + 1] \in Q}
    <3>5. 0 \in U
      BY <3>2, <3>3
    <3>6. ASSUME NEW m \in U PROVE m + 1 \in U
      <4> SUFFICES ASSUME m + 1 + 1 <= n PROVE f[m + 1 + 1] \in Q
        BY <3>6
      <4>1. m \in Nat /\ f[m + 1] \in Q
        BY <3>6, <3>3
      <4>2. PICK j : j = m + 1 + 1
        OBVIOUS
      <4>3. j \in 2..n /\ j \in 1..n /\ j - 1 = m + 1
        BY <4>1, <4>2, <3>3
      <4>4. f[j] = f[j - 1] \o seqs[j] /\ seqs[j] \in Q
        BY <4>3, <3>2, <3>3
      <4> QED
        BY <4>1, <4>2, <4>3, <4>4, <3>4
    <3> HIDE DEF U
    <3>7. n - 1 \in U
      <4>1. U \in SUBSET Nat /\ n - 1 \in Nat
        BY <3>3 DEF U
      <4> QED
        BY <4>1, <3>5, <3>6, Induction
    <3>8. f[n] \in Q
      BY <3>3, <3>7 DEF U
    <3> QED
      BY <3>1, <3>2, <3>8
  <2> QED
    BY <2>1, <2>2
<1>3. ASSUME NEW seqs \in Seq(Seq(S)), NEW x \in Seq(S)
      PROVE  FlattenSeq(Append(seqs, x)) = FlattenSeq(seqs) \o x
  <2>1. PICK n, t, Q : n = Len(seqs) /\ t = Append(seqs, x) /\ Q = Seq(S)
    OBVIOUS
  <2>2. /\ n \in Nat /\ t \in Seq(Seq(S)) /\ Len(t) = n + 1 /\ Len(t) # 0
        /\ t[n + 1] = x /\ \A i \in 1..n : t[i] = seqs[i]
    BY <2>1
  <2>3. PICK g : /\ g[1] = t[1]
                 /\ \A i \in 2..n + 1 : g[i] = g[i - 1] \o t[i]
                 /\ FlattenSeq(t) = g[n + 1]
    BY ONLY <2>2, FlattenRun
  <2>4. CASE n = 0
    <3>1. seqs = << >> /\ FlattenSeq(t) = x
      BY <2>1, <2>2, <2>3, <2>4
    <3> QED
      BY <3>1, <1>1, <2>1
  <2>5. CASE n # 0
    <3>1. PICK f : /\ f[1] = seqs[1]
                   /\ \A i \in 2..n : f[i] = f[i - 1] \o seqs[i]
                   /\ FlattenSeq(seqs) = f[n]
      BY <2>1, <2>5, FlattenRun
    <3> DEFINE Same == {i \in Nat : i + 1 <= n => f[i + 1] = g[i + 1]}
    <3>2. 0 \in Same
      BY <2>2, <2>3, <2>5, <3>1
    <3>3. ASSUME NEW i \in Same PROVE i + 1 \in Same
      <4> SUFFICES ASSUME i + 1 + 1 <= n PROVE f[i + 1 + 1] = g[i + 1 + 1]
        BY <3>3
      <4>1. i \in Nat /\ f[i + 1] = g[i + 1]
        BY <3>3, <2>2
      <4>2. PICK j : j = i + 1 + 1
        OBVIOUS
      <4>3. j \in 2..n /\ j \in 2..n + 1 /\ j - 1 = i + 1 /\ t[j] = seqs[j]
        BY <4>1, <4>2, <2>2
      <4>4. f[j] = f[j - 1] \o seqs[j] /\ g[j] = g[j - 1] \o t[j]
        BY <4>3, <3>1, <2>3
      <4> QED
        BY <4>1, <4>2, <4>3, <4>4
    <3> HIDE DEF Same
    <3>4. n - 1 \in Same
      <4>1. Same \in SUBSET Nat /\ n - 1 \in Nat
        BY <2>2, <2>5 DEF Same
      <4> QED
        BY <4>1, <3>2, <3>3, Induction
    <3>5. f[n] = g[n]
      BY <3>4, <2>2 DEF Same
    <3>6. n + 1 \in 2..n + 1 /\ (n + 1) - 1 = n
      BY <2>2, <2>5
    <3>7. g[n + 1] = g[n] \o t[n + 1]
      BY ONLY <2>3, <3>6
    <3> QED
      BY <2>1, <2>2, <2>3, <3>1, <3>5, <3>7
  <2> QED
    BY <2>4, <2>5
<1> QED
  BY <1>1, <1>2, <1>3

\* g holds the states of the parser after each of the first m lines.
ParseOf(lines, m, g) ==
  g = [i \in 0..m |-> IF i = 0 THEN Start ELSE ParseLine(lines, g[i - 1], i)]

\* The states after one line more exist.
LEMMA ParseOfStep ==
  ASSUME NEW lines, NEW m \in Nat, NEW g, ParseOf(lines, m, g)
  PROVE  \E h : ParseOf(lines, m + 1, h)
<1> DEFINE h == [i \in 0..m + 1 |-> IF i = m + 1 THEN ParseLine(lines, g[m], m + 1) ELSE g[i]]
<1>1. \A i \in 0..m : g[i] = IF i = 0 THEN Start ELSE ParseLine(lines, g[i - 1], i)
  BY DEF ParseOf
<1>2. \A i \in 0..m : h[i] = g[i]
  OBVIOUS
<1>3. h[m + 1] = ParseLine(lines, g[m], m + 1)
  OBVIOUS
<1>4. h = [i \in 0..m + 1 |-> h[i]]
  OBVIOUS
<1> HIDE DEF h
<1>5. ASSUME NEW i \in 0..m + 1
      PROVE  h[i] = IF i = 0 THEN Start ELSE ParseLine(lines, h[i - 1], i)
  <2>1. CASE i = m + 1
    <3>1. i # 0 /\ i - 1 = m /\ m \in 0..m
      BY <2>1
    <3> QED
      BY <2>1, <3>1, <1>2, <1>3
  <2>2. CASE i = 0
    <3>1. 0 \in 0..m
      OBVIOUS
    <3> QED
      BY <1>1, <1>2, <2>2, <3>1
  <2>3. CASE i \in 1..m
    <3>1. i # 0 /\ i \in 0..m /\ i - 1 \in 0..m
      BY <2>3
    <3>2. g[i] = ParseLine(lines, g[i - 1], i)
      BY <1>1, <3>1
    <3> QED
      BY <3>1, <3>2, <1>2
  <2> QED
    BY <2>1, <2>2, <2>3
<1>6. ParseOf(lines, m + 1, h)
  BY <1>4, <1>5 DEF ParseOf
<1> QED
  BY <1>6

\* ParseLines is what ParseLine makes of the lines, one after the other.
LEMMA ParseRun ==
  ASSUME NEW lines, Len(lines) \in Nat
  PROVE  \E f : /\ f[0] = Start
                /\ \A i \in 1..Len(lines) : f[i] = ParseLine(lines, f[i - 1], i)
                /\ ParseLines(lines) = Result(f[Len(lines)])
<1> PICK n : n = Len(lines)
  OBVIOUS
<1> DEFINE T == {m \in Nat : \E g : ParseOf(lines, m, g)}
<1>1. 0 \in T
  <2>1. ParseOf(lines, 0, [i \in 0..0 |-> Start])
    BY DEF ParseOf
  <2> QED
    BY <2>1
<1>2. ASSUME NEW m \in T PROVE m + 1 \in T
  BY <1>2, ParseOfStep
<1>3. n \in T
  <2>1. T \in SUBSET Nat
    OBVIOUS
  <2> HIDE DEF T
  <2> QED
    BY <2>1, <1>1, <1>2, Induction
<1>4. ParseLines(lines) = Result((CHOOSE g : ParseOf(lines, n, g))[n])
  BY DEF ParseLines, ParseOf
<1>5. PICK f : f = CHOOSE g : ParseOf(lines, n, g)
  OBVIOUS
<1>6. ParseOf(lines, n, f)
  BY <1>3, <1>5
<1>7. f[0] = Start
  BY <1>6, <1>3 DEF ParseOf
<1>8. ASSUME NEW i \in 1..n PROVE f[i] = ParseLine(lines, f[i - 1], i)
  <2>1. i \in 0..n /\ i # 0
    BY <1>3
  <2> QED
    BY <1>6, <2>1 DEF ParseOf
<1> QED
  BY <1>4, <1>5, <1>7, <1>8

--------------------------------------------------------------------------------
(* Values between quotes.                                                       *)

\* A value between quotes, without the quotes.
Esc(w) == FlattenSeq([i \in DOMAIN w |-> Escape(w[i])])

\* Concatenating one token appends it.
LEMMA ConcatOne ==
  ASSUME NEW T, NEW s \in Seq(T), NEW x \in T
  PROVE  s \o <<x>> = Append(s, x)
OBVIOUS

\* Concatenating two tokens appends both.
LEMMA ConcatTwo ==
  ASSUME NEW T, NEW s \in Seq(T), NEW x \in T, NEW y \in T
  PROVE  s \o <<x, y>> = Append(Append(s, x), y)
OBVIOUS

\* What render_value writes for each token.
LEMMA EscapeCases ==
  ASSUME NEW T, Marks \subseteq T, NEW c \in T
  PROVE  /\ c = "\\" => Escape(c) = <<"\\", "\\">>
         /\ c = "\"" => Escape(c) = <<"\\", "\"">>
         /\ c = "\r" => Escape(c) = <<"\\", "r">>
         /\ c = "\t" => Escape(c) = <<"\\", "t">>
         /\ c \notin {"\\", "\"", "\r", "\t"} => Escape(c) = <<c>>
         /\ Escape(c) \in Seq(T \ {"\r"})
<1>1. /\ c = "\\" => Escape(c) = <<"\\", "\\">>
      /\ c = "\"" => Escape(c) = <<"\\", "\"">>
      /\ c = "\r" => Escape(c) = <<"\\", "r">>
      /\ c = "\t" => Escape(c) = <<"\\", "t">>
      /\ c \notin {"\\", "\"", "\r", "\t"} => Escape(c) = <<c>>
  BY DEF Escape
<1>2. PICK U : U = T \ {"\r"}
  OBVIOUS
<1>3. {"\\", "\"", "r", "t"} \subseteq U /\ (c # "\r" => c \in U)
  BY <1>2 DEF Marks
<1>4. \A x, y \in U : <<x>> \in Seq(U) /\ <<x, y>> \in Seq(U)
  OBVIOUS
<1>5. Escape(c) \in Seq(U)
  BY <1>1, <1>3, <1>4
<1> QED
  BY <1>1, <1>2, <1>5

\* Escaping goes token by token, and never writes a carriage return.
LEMMA EscapeFold ==
  ASSUME NEW T, Marks \subseteq T
  PROVE  /\ Esc(<< >>) = << >>
         /\ \A w \in Seq(T) : Esc(w) \in Seq(T \ {"\r"})
         /\ \A w \in Seq(T), c \in T : Esc(Append(w, c)) = Esc(w) \o Escape(c)
<1> PICK U : U = T \ {"\r"}
  OBVIOUS
<1> DEFINE Map(w) == [i \in DOMAIN w |-> Escape(w[i])]
<1>1. \A c \in T : Escape(c) \in Seq(U)
  BY EscapeCases
<1>2. ASSUME NEW w \in Seq(T) PROVE Map(w) \in Seq(Seq(U))
  <2>1. PICK Q : Q = Seq(U)
    OBVIOUS
  <2>2. \A i \in 1..Len(w) : Escape(w[i]) \in Q
    BY <1>1, <2>1
  <2>3. Map(w) \in Seq(Q)
    BY <2>2
  <2> QED
    BY <2>1, <2>3
<1>3. Map(<< >>) = << >>
  OBVIOUS
<1>4. ASSUME NEW w \in Seq(T), NEW c \in T
      PROVE  Map(Append(w, c)) = Append(Map(w), Escape(c))
  <2>1. PICK n, t : n = Len(w) /\ t = Append(w, c)
    OBVIOUS
  <2>2. /\ n \in Nat /\ DOMAIN w = 1..n /\ DOMAIN t = 1..n + 1
        /\ t[n + 1] = c /\ \A i \in 1..n : t[i] = w[i]
    BY <2>1
  <2>3. PICK m, x : m = Map(w) /\ x = Escape(c)
    OBVIOUS
  <2>4. PICK Q : Q = Seq(U)
    OBVIOUS
  <2>5. m \in Seq(Q) /\ x \in Q /\ Len(m) = n /\ \A i \in 1..n : m[i] = Escape(w[i])
    BY <1>1, <1>2, <2>2, <2>3, <2>4
  <2>6. PICK a, r : a = Append(m, x) /\ r = Map(t)
    OBVIOUS
  <2>7. a \in Seq(Q) /\ Len(a) = n + 1 /\ \A i \in 1..n + 1 : a[i] = Escape(t[i])
    BY <2>2, <2>3, <2>5, <2>6
  <2>8. r \in Seq(Q) /\ Len(r) = n + 1 /\ \A i \in 1..n + 1 : r[i] = Escape(t[i])
    <3>1. t \in Seq(T)
      BY <2>1
    <3>2. r \in Seq(Q)
      BY <1>2, <2>4, <2>6, <3>1
    <3> QED
      BY <3>2, <2>2, <2>6
  <2>9. a = r
    BY <2>7, <2>8
  <2> QED
    BY <2>1, <2>3, <2>6, <2>9
<1> HIDE DEF Map
<1>5. \A w : Esc(w) = FlattenSeq(Map(w))
  BY DEF Esc, Map
<1> QED
  BY <1>1, <1>2, <1>3, <1>4, <1>5, FlattenFold

\* parse_double_quoted has read v and is between two tokens.
Fresh(v) == [ok |-> TRUE, escaped |-> FALSE, closed |-> FALSE, value |-> v]

\* Reading back an escaped value gives the value: parse_double_quoted undoes render_value.
LEMMA ReadEscaped ==
  ASSUME NEW T, Marks \subseteq T, NEW w \in Seq(T)
  PROVE  Read(Fresh(<< >>), Esc(w)) = Fresh(w)
<1>1. Token(T) = T
  BY DEF Token, Marks
<1> PICK b : b = Fresh(<< >>)
  OBVIOUS
<1> DEFINE Good == {v \in Seq(T) : Read(b, Esc(v)) = Fresh(v)}
<1>2. b \in Reading(T)
  BY DEF Fresh, Reading
<1>3. << >> \in Good
  <2>1. Read(b, << >>) = b
    BY <1>2, DoubleQuotedFold
  <2>2. Esc(<< >>) = << >>
    BY EscapeFold
  <2>4. << >> \in Seq(T)
    OBVIOUS
  <2>3. Read(b, Esc(<< >>)) = Fresh(<< >>)
    BY <2>1, <2>2
  <2> QED
    BY <2>3, <2>4
<1>4. ASSUME NEW v \in Good, NEW c \in T PROVE Append(v, c) \in Good
  <2>1. PICK s : s = Esc(v)
    OBVIOUS
  <2>2. /\ v \in Seq(T) /\ s \in Seq(T) /\ Read(b, s) = Fresh(v)
        /\ Esc(Append(v, c)) = s \o Escape(c)
    <3>1. s \in Seq(T \ {"\r"})
      BY <2>1, EscapeFold
    <3>2. s \in Seq(T)
      BY <3>1
    <3> QED
      BY <3>2, <2>1, EscapeFold
  <2>3. ASSUME NEW x \in T PROVE Read(b, Append(s, x)) = DoubleQuotedChar(Fresh(v), x)
    BY <1>1, <1>2, <2>2, DoubleQuotedFold
  <2>4. ASSUME NEW x \in T, NEW y \in T
        PROVE  Read(b, Append(Append(s, x), y))
                 = DoubleQuotedChar(DoubleQuotedChar(Fresh(v), x), y)
    <3>1. PICK s1 : s1 = Append(s, x)
      OBVIOUS
    <3>2. s1 \in Seq(T)
      BY <2>2, <3>1
    <3>3. Read(b, Append(s1, y)) = DoubleQuotedChar(Read(b, s1), y)
      BY <1>1, <1>2, <3>2, DoubleQuotedFold
    <3> QED
      BY <2>3, <3>1, <3>3
  <2>5. {"\\", "\"", "r", "t"} \subseteq T
    BY DEF Marks
  <2>6. Read(b, s \o Escape(c)) = Fresh(Append(v, c))
    <3>1. CASE c \notin {"\\", "\"", "\r", "\t"}
      <4>1. Read(b, s \o Escape(c)) = DoubleQuotedChar(Fresh(v), c)
        BY <3>1, <2>2, <2>3, EscapeCases, ConcatOne
      <4>2. DoubleQuotedChar(Fresh(v), c) = Fresh(Append(v, c))
        BY <3>1 DEF DoubleQuotedChar, InsideQuotes, Fresh
      <4> QED
        BY <4>1, <4>2
    <3>2. CASE c \in {"\\", "\"", "\r", "\t"}
      <4>1. PICK y \in T : /\ Escape(c) = <<"\\", y>> /\ y \in Escapable /\ Unescape(y) = c
        BY <3>2, <2>5, EscapeCases DEF Escapable, Unescape
      <4>2. Read(b, s \o Escape(c)) = DoubleQuotedChar(DoubleQuotedChar(Fresh(v), "\\"), y)
        <5>1. s \in Seq(T) /\ "\\" \in T /\ y \in T
          BY <2>2, <2>5, <4>1
        <5>2. s \o <<"\\", y>> = Append(Append(s, "\\"), y)
          BY <5>1, ConcatTwo
        <5>3. Read(b, Append(Append(s, "\\"), y))
                = DoubleQuotedChar(DoubleQuotedChar(Fresh(v), "\\"), y)
          BY <5>1, <2>4
        <5> QED
          BY <4>1, <5>2, <5>3
      <4>3. DoubleQuotedChar(Fresh(v), "\\") = [Fresh(v) EXCEPT !.escaped = TRUE]
        BY DEF DoubleQuotedChar, InsideQuotes, Fresh
      <4>4. DoubleQuotedChar([Fresh(v) EXCEPT !.escaped = TRUE], y) = Fresh(Append(v, c))
        BY <4>1 DEF DoubleQuotedChar, UnescapeChar, Fresh
      <4> QED
        BY <4>2, <4>3, <4>4
    <3> QED
      BY <3>1, <3>2
  <2>7. Append(v, c) \in Seq(T) /\ Read(b, Esc(Append(v, c))) = Fresh(Append(v, c))
    <3>1. Append(v, c) \in Seq(T)
      BY <2>2
    <3> QED
      BY <2>2, <2>6, <3>1
  <2> QED
    BY <2>7
<1> HIDE DEF Good
<1>5. Good = Seq(T)
  <2>1. Good \in SUBSET Seq(T)
    BY DEF Good
  <2> QED
    BY <2>1, <1>3, <1>4, SeqInduction
<1> QED
  BY <1>5 DEF Good

\* A least element of a set is its Smallest.
LEMMA SmallestIs ==
  ASSUME NEW S \in SUBSET Int, NEW m \in S, \A j \in S : m <= j
  PROVE  Smallest(S) = m
<1>1. \E i \in S : \A j \in S : i <= j
  OBVIOUS
<1>2. Smallest(S) \in S /\ \A j \in S : Smallest(S) <= j
  BY <1>1 DEF Smallest
<1>3. PICK x : x = Smallest(S)
  OBVIOUS
<1>4. x \in Int /\ m \in Int /\ x <= m /\ m <= x
  BY <1>2, <1>3
<1> QED
  BY <1>3, <1>4

\* A greatest element of a set is its Largest.
LEMMA LargestIs ==
  ASSUME NEW S \in SUBSET Int, NEW m \in S, \A j \in S : j <= m
  PROVE  Largest(S) = m
<1>1. \E i \in S : \A j \in S : j <= i
  OBVIOUS
<1>2. Largest(S) \in S /\ \A j \in S : j <= Largest(S)
  BY <1>1 DEF Largest
<1>3. PICK x : x = Largest(S)
  OBVIOUS
<1>4. x \in Int /\ m \in Int /\ x <= m /\ m <= x
  BY <1>2, <1>3
<1> QED
  BY <1>3, <1>4

\* The subsequence from the first to the last element is the sequence.
LEMMA WholeSubSeq ==
  ASSUME NEW T, NEW s \in Seq(T)
  PROVE  SubSeq(s, 1, Len(s)) = s
OBVIOUS

\* Nothing is trimmed off a sequence whose ends stay.
LEMMA TrimWhole ==
  ASSUME NEW T, NEW drop, NEW s \in Seq(T), s # << >>, s[1] \notin drop, s[Len(s)] \notin drop
  PROVE  TrimOf(s, drop) = s
<1> PICK n, kept : n = Len(s) /\ kept = {i \in DOMAIN s : s[i] \notin drop}
  OBVIOUS
<1>1. n \in Nat \ {0} /\ DOMAIN s = 1..n
  OBVIOUS
<1>2. kept \in SUBSET Int /\ 1 \in kept /\ n \in kept /\ \A j \in kept : 1 <= j /\ j <= n
  BY <1>1
<1>3. Smallest(kept) = 1 /\ Largest(kept) = n
  BY <1>2, SmallestIs, LargestIs
<1>4. TrimOf(s, drop) = SubSeq(s, 1, n)
  BY <1>2, <1>3 DEF TrimOf, Between
<1> QED
  BY <1>4, WholeSubSeq

\* trim_start leaves a line that starts with no blank.
LEMMA TrimStartWhole ==
  ASSUME NEW T, NEW s \in Seq(T), s # << >>, s[1] \notin White
  PROVE  TrimStart(s) = s
<1> PICK n, kept : n = Len(s) /\ kept = {i \in DOMAIN s : \E j \in 1..i : s[j] \notin White}
  OBVIOUS
<1>1. n \in Nat \ {0} /\ DOMAIN s = 1..n
  OBVIOUS
<1>2. kept \in SUBSET Int /\ 1 \in kept /\ n \in kept /\ \A j \in kept : 1 <= j /\ j <= n
  <2>1. 1 \in 1..1 /\ 1 \in 1..n /\ n \in 1..n
    BY <1>1
  <2> QED
    BY <1>1, <2>1
<1>3. Smallest(kept) = 1 /\ Largest(kept) = n
  BY <1>2, SmallestIs, LargestIs
<1>4. TrimStart(s) = SubSeq(s, 1, n)
  BY <1>2, <1>3 DEF TrimStart, Between
<1> QED
  BY <1>4, WholeSubSeq

\* A trimmed line starts as the line did, when that was no blank.
LEMMA TrimKeepsFirst ==
  ASSUME NEW T, NEW s \in Seq(T), s # << >>, s[1] \notin White
  PROVE  Trim(s) # << >> /\ Trim(s)[1] = s[1]
<1> PICK n, kept : n = Len(s) /\ kept = {i \in DOMAIN s : s[i] \notin White}
  OBVIOUS
<1>1. n \in Nat \ {0} /\ DOMAIN s = 1..n
  OBVIOUS
<1>2. kept \in SUBSET (1..n) /\ 1 \in kept
  BY <1>1
<1>3. PICK m \in kept : \A j \in kept : j <= m
  BY <1>1, <1>2, MaxOfIndices
<1>4. Smallest(kept) = 1 /\ Largest(kept) = m
  <2>1. kept \in SUBSET Int /\ \A j \in kept : 1 <= j
    BY <1>1, <1>2
  <2> QED
    BY <2>1, <1>2, <1>3, SmallestIs, LargestIs
<1>5. Trim(s) = SubSeq(s, 1, m)
  BY <1>2, <1>4 DEF Trim, TrimOf, Between
<1>6. m \in 1..n
  BY <1>2, <1>3
<1>7. SubSeq(s, 1, m) # << >> /\ SubSeq(s, 1, m)[1] = s[1]
  BY <1>1, <1>6
<1> QED
  BY <1>5, <1>7

\* Trimming nothing gives nothing.
LEMMA TrimEmpty == Trim(<< >>) = << >>
BY DEF Trim, TrimOf, Between

\* quoted_value_is_closed, inside a double quote and after no backslash.
Open == [quote |-> "\"", escaped |-> FALSE, closed |-> FALSE]

\* What is written for one token closes no quote and leaves no backslash pending.
LEMMA ScanStep ==
  ASSUME NEW T, Marks \subseteq T, NEW s \in Seq(T), Scan(Open, s) = Open, NEW c \in T
  PROVE  Scan(Open, s \o Escape(c)) = Open
<1>1. Open \in Scanning
  BY DEF Open, Scanning
<1>2. ASSUME NEW x \in T PROVE Scan(Open, Append(s, x)) = ClosedChar(Open, x)
  BY <1>1, ClosedFold
<1>3. ASSUME NEW x \in T, NEW y \in T
      PROVE  Scan(Open, Append(Append(s, x), y)) = ClosedChar(ClosedChar(Open, x), y)
  <2>1. PICK s1 : s1 = Append(s, x)
    OBVIOUS
  <2>2. s1 \in Seq(T)
    BY <2>1
  <2>3. Scan(Open, Append(s1, y)) = ClosedChar(Scan(Open, s1), y)
    BY <1>1, <2>2, ClosedFold
  <2> QED
    BY <1>2, <2>1, <2>3
<1>4. CASE c \notin {"\\", "\"", "\r", "\t"}
  <2>1. Escape(c) = <<c>> /\ s \o <<c>> = Append(s, c)
    BY <1>4, EscapeCases, ConcatOne
  <2>2. ClosedChar(Open, c) = Open
    BY <1>4 DEF ClosedChar, Open
  <2> QED
    BY <1>2, <2>1, <2>2
<1>5. CASE c \in {"\\", "\"", "\r", "\t"}
  <2>1. {"\\", "\"", "r", "t"} \subseteq T
    BY DEF Marks
  <2>2. PICK y \in T : Escape(c) = <<"\\", y>>
    BY <1>5, <2>1, EscapeCases
  <2>3. s \o <<"\\", y>> = Append(Append(s, "\\"), y)
    <3>1. "\\" \in T /\ y \in T
      BY <2>1, <2>2
    <3> QED
      BY <3>1, ConcatTwo
  <2>4. ClosedChar(Open, "\\") = [Open EXCEPT !.escaped = TRUE]
    BY DEF ClosedChar, Open
  <2>5. ClosedChar([Open EXCEPT !.escaped = TRUE], y) = Open
    BY DEF ClosedChar, Open
  <2>6. PICK b : b = "\\"
    OBVIOUS
  <2>7. b \in T
    BY <2>1, <2>6
  <2>8. Scan(Open, Append(Append(s, b), y)) = ClosedChar(ClosedChar(Open, b), y)
    BY <1>3, <2>7
  <2>9. s \o Escape(c) = Append(Append(s, b), y)
    BY <2>2, <2>3, <2>6
  <2>10. ClosedChar(ClosedChar(Open, b), y) = Open
    BY <2>4, <2>5, <2>6
  <2> QED
    BY <2>8, <2>9, <2>10
<1> QED
  BY <1>4, <1>5

\* Nothing closes no quote.
LEMMA ScanEmpty == Scan(Open, << >>) = Open
<1>1. Open \in Scanning
  BY DEF Open, Scanning
<1> QED
  BY <1>1, ClosedFold

\* A quote closes.
LEMMA ScanQuote ==
  ASSUME NEW T, Marks \subseteq T, NEW s \in Seq(T), Scan(Open, s) = Open
  PROVE  Scan(Open, Append(s, "\"")) = [Open EXCEPT !.closed = TRUE]
<1>1. Open \in Scanning /\ "\"" \in T
  BY DEF Open, Scanning, Marks
<1>2. Scan(Open, Append(s, "\"")) = ClosedChar(Open, "\"")
  <2>1. PICK q : q = "\""
    OBVIOUS
  <2>2. Open \in Scanning /\ q \in T /\ s \in Seq(T)
    BY <1>1, <2>1
  <2>3. Scan(Open, Append(s, q)) = ClosedChar(Scan(Open, s), q)
    BY ONLY <2>2, ClosedFold
  <2> QED
    BY <2>1, <2>3
<1> QED
  BY <1>2 DEF ClosedChar, Open

\* An escaped value and a closing quote are read as the value.
LEMMA ReadQuoted ==
  ASSUME NEW T, Marks \subseteq T, NEW w \in Seq(T)
  PROVE  ParseDoubleQuoted(Append(Esc(w), "\"")) = [ok |-> TRUE, value |-> w]
<1> PICK s, b : s = Esc(w) /\ b = Fresh(<< >>)
  OBVIOUS
<1>1. Token(T) = T /\ "\"" \in T
  BY DEF Token, Marks
<1>2. b \in Reading(T)
  BY DEF Fresh, Reading
<1>3. s \in Seq(T)
  <2>1. s \in Seq(T \ {"\r"})
    BY EscapeFold
  <2> QED
    BY <2>1
<1>4. Read(b, Append(s, "\"")) = DoubleQuotedChar(Read(b, s), "\"")
  <2>1. \A t \in Seq(Token(T)), c \in Token(T) :
          Read(b, Append(t, c)) = DoubleQuotedChar(Read(b, t), c)
    BY <1>2, DoubleQuotedFold
  <2> QED
    BY <2>1, <1>1, <1>3
<1>5. Read(b, s) = Fresh(w)
  BY ReadEscaped
<1>6. DoubleQuotedChar(Fresh(w), "\"") = [Fresh(w) EXCEPT !.closed = TRUE]
  BY DEF DoubleQuotedChar, InsideQuotes, Fresh
<1>7. Closed([Fresh(w) EXCEPT !.closed = TRUE]) = [ok |-> TRUE, value |-> w]
  BY DEF Closed, Fresh
<1>8. ParseDoubleQuoted(Append(s, "\"")) = Closed(Read(b, Append(s, "\"")))
  BY DEF ParseDoubleQuoted, Read, Fresh
<1> QED
  BY <1>4, <1>5, <1>6, <1>7, <1>8

\* A value as render_value writes it between quotes.
Quoted(w) == <<"\"">> \o Append(Esc(w), "\"")

\* A sequence that avoids a token is a sequence.
LEMMA SeqWithout == ASSUME NEW T, NEW x, NEW s \in Seq(T \ {x}) PROVE s \in Seq(T)
OBVIOUS

\* An escaped value is a sequence of tokens.
LEMMA EscapedSeq ==
  ASSUME NEW T, Marks \subseteq T, NEW w \in Seq(T)
  PROVE  Esc(w) \in Seq(T)
<1>1. Esc(w) \in Seq(T \ {"\r"})
  BY EscapeFold
<1> QED
  BY <1>1, SeqWithout

\* A sequence between two quotes: its ends, and what follows the first.
LEMMA Bracketed ==
  ASSUME NEW T, NEW s \in Seq(T), NEW q \in T, NEW r, r = <<q>> \o Append(s, q)
  PROVE  /\ <<q>> \o s \o <<q>> = r
         /\ r \in Seq(T) /\ Len(r) = Len(s) + 2 /\ r # << >> /\ r[1] = q /\ r[Len(r)] = q
         /\ Tail(r) = Append(s, q)
<1> PICK n, a, t : n = Len(s) /\ a = <<q>> /\ t = Append(s, q)
  OBVIOUS
<1>1. /\ n \in Nat /\ a \in Seq(T) /\ Len(a) = 1 /\ a[1] = q
      /\ t \in Seq(T) /\ Len(t) = n + 1 /\ t[n + 1] = q
  OBVIOUS
<1>2. r = a \o t
  OBVIOUS
<1>3. r \in Seq(T) /\ Len(r) = n + 2 /\ r[1] = q /\ \A i \in 1..n + 1 : r[i + 1] = t[i]
  BY <1>1, <1>2
<1>4. r[n + 2] = q
  <2>1. n + 1 \in 1..n + 1 /\ (n + 1) + 1 = n + 2
    BY <1>1
  <2> QED
    BY <1>1, <1>3, <2>1
<1>5. r # << >>
  BY <1>1, <1>3
<1>6. Tail(r) = t
  <2>1. /\ Tail(r) \in Seq(T) /\ Len(Tail(r)) = n + 1
        /\ \A i \in 1..n + 1 : Tail(r)[i] = r[i + 1]
    BY <1>1, <1>3, <1>5
  <2> QED
    BY <1>1, <1>3, <2>1
<1>7. a \o s \o a = r
  <2>1. PICK u : u = a \o s
    OBVIOUS
  <2>2. u \in Seq(T) /\ Len(u) = n + 1 /\ u[1] = q /\ \A i \in 1..n : u[i + 1] = s[i]
    BY <1>1, <2>1
  <2>3. PICK w : w = u \o a
    OBVIOUS
  <2>4. /\ w \in Seq(T) /\ Len(w) = n + 2 /\ w[n + 2] = q
        /\ \A i \in 1..n + 1 : w[i] = u[i]
    BY <1>1, <2>2, <2>3
  <2>5. \A i \in 1..n : t[i] = s[i]
    OBVIOUS
  <2>6. ASSUME NEW i \in 1..n + 2 PROVE w[i] = r[i]
    <3>1. CASE i = 1
      BY <1>1, <1>3, <2>2, <2>4, <3>1
    <3>2. CASE i = n + 2
      BY <1>4, <2>4, <3>2
    <3>3. CASE i \in 2..n + 1
      <4>1. PICK j : j = i - 1
        OBVIOUS
      <4>2. j \in 1..n /\ j \in 1..n + 1 /\ i = j + 1 /\ i \in 1..n + 1
        BY <1>1, <3>3, <4>1
      <4> QED
        BY <4>2, <1>3, <2>2, <2>4, <2>5
    <3> QED
      BY <1>1, <3>1, <3>2, <3>3
  <2>7. w = r
    BY <1>3, <2>4, <2>6
  <2> QED
    BY <2>1, <2>3, <2>7
<1> QED
  BY <1>1, <1>3, <1>4, <1>5, <1>6, <1>7

\* render_value writes a value as it is when all its tokens are safe, between quotes otherwise.
LEMMA RenderValueCases ==
  ASSUME NEW T, Marks \subseteq T, NEW v \in Seq(T)
  PROVE  \/ ToSet(v) \subseteq SafeLetters /\ RenderValue(v) = v
         \/ RenderValue(v) = Quoted(v)
<1>1. PICK s, q : s = Esc(v) /\ q = "\""
  OBVIOUS
<1>2. s \in Seq(T) /\ q \in T
  BY <1>1, EscapedSeq DEF Marks
<1>3. <<q>> \o s \o <<q>> = <<q>> \o Append(s, q)
  BY <1>2, Bracketed
<1>4. <<"\"">> \o Esc(v) \o <<"\"">> = Quoted(v)
  BY <1>1, <1>3 DEF Quoted
<1> QED
  BY <1>4 DEF RenderValue, Esc

\* A token that needs no quotes is no blank, quote, equals sign or hash.
LEMMA SafeTokens == SafeLetters \cap (White \cup Quotes \cup {"=", "#"}) = {}
BY DotenvAssumption DEF SafeLetters, White, Quotes

\* A value between quotes: its ends, and what follows the first.
LEMMA QuotedParts ==
  ASSUME NEW T, Marks \subseteq T, NEW v \in Seq(T)
  PROVE  /\ Quoted(v) \in Seq(T) /\ Quoted(v) # << >>
         /\ Quoted(v)[1] = "\"" /\ Quoted(v)[Len(Quoted(v))] = "\""
         /\ Tail(Quoted(v)) = Append(Esc(v), "\"")
<1>1. PICK s, q, r : s = Esc(v) /\ q = "\"" /\ r = <<q>> \o Append(s, q)
  OBVIOUS
<1>2. s \in Seq(T) /\ q \in T
  BY <1>1, EscapedSeq DEF Marks
<1>3. r = <<q>> \o Append(s, q)
  BY <1>1
<1>4. r \in Seq(T) /\ Len(r) = Len(s) + 2 /\ r # << >> /\ r[1] = q /\ r[Len(r)] = q
  BY ONLY <1>2, <1>3, Bracketed
<1>5. Tail(r) = Append(s, q)
  BY ONLY <1>2, <1>3, Bracketed
<1> QED
  BY <1>1, <1>4, <1>5 DEF Quoted

\* Whatever the value is, parsing what render_value wrote for it gives the value back: quotes,
\* backslashes, line breaks, tabs and blanks survive (dotenv::render_value and
\* parse_double_quoted; docs/architecture.md promises that exports import unchanged).
THEOREM ValuesReadBack ==
  \A S : \A v \in Seq(S) : ParseValue(Trim(RenderValue(v))) = [ok |-> TRUE, value |-> v]
<1> SUFFICES ASSUME NEW S, NEW v \in Seq(S)
             PROVE  ParseValue(Trim(RenderValue(v))) = [ok |-> TRUE, value |-> v]
  OBVIOUS
<1>1. PICK T : T = S \cup Marks
  OBVIOUS
<1>2. Marks \subseteq T /\ v \in Seq(T)
  BY <1>1
<1>3. CASE ToSet(v) \subseteq SafeLetters /\ RenderValue(v) = v
  <2>1. CASE v = << >>
    <3>1. ParseValue(<< >>) = [ok |-> TRUE, value |-> << >>]
      BY DEF ParseValue, StartsWith
    <3> QED
      BY <1>3, <2>1, <3>1, TrimEmpty
  <2>2. CASE v # << >>
    <3>1. 1 \in DOMAIN v /\ Len(v) \in DOMAIN v
      BY <2>2
    <3>2. v[1] \in SafeLetters /\ v[Len(v)] \in SafeLetters
      BY <1>3, <3>1 DEF ToSet
    <3>3. /\ v[1] \notin White /\ v[Len(v)] \notin White
          /\ v[1] # "\"" /\ v[1] # "'"
      BY <3>2, SafeTokens DEF Quotes
    <3>4. Trim(v) = v
      BY <1>2, <2>2, <3>3, TrimWhole DEF Trim
    <3>5. ParseValue(v) = [ok |-> TRUE, value |-> v]
      BY <3>3 DEF ParseValue, StartsWith
    <3> QED
      BY <1>3, <3>4, <3>5
  <2> QED
    BY <2>1, <2>2
<1>4. CASE RenderValue(v) = Quoted(v)
  <2>1. PICK r : r = Quoted(v)
    OBVIOUS
  <2>2. /\ r \in Seq(T) /\ r # << >> /\ r[1] = "\"" /\ r[Len(r)] = "\""
        /\ Tail(r) = Append(Esc(v), "\"")
    BY <1>2, <2>1, QuotedParts
  <2>3. "\"" \notin White
    BY DEF White
  <2>4. Trim(r) = r
    BY <2>2, <2>3, TrimWhole DEF Trim
  <2>5. ParseValue(r) = ParseDoubleQuoted(Tail(r))
    BY <2>2 DEF ParseValue, StartsWith
  <2> QED
    BY <1>2, <1>4, <2>1, <2>2, <2>4, <2>5, ReadQuoted
<1> QED
  BY <1>2, <1>3, <1>4, RenderValueCases

\* The first token of a sequence, as a sequence.
LEMMA OneToken ==
  ASSUME NEW T, NEW s \in Seq(T), Len(s) # 0, NEW k, k = s[1]
  PROVE  SubSeq(s, 1, 1) = <<k>>
<1>1. PICK t, u : t = SubSeq(s, 1, 1) /\ u = <<k>>
  OBVIOUS
<1>2. t \in Seq(T) /\ Len(t) = 1 /\ t[1] = k
  BY <1>1
<1>3. u \in Seq(T) /\ Len(u) = 1 /\ u[1] = k
  BY <1>1
<1>4. t = u
  BY <1>2, <1>3
<1> QED
  BY <1>1, <1>4

\* The tokens of key, equals sign and the rest of the line.
LEMMA AssignmentSeq ==
  ASSUME NEW T, NEW k \in T, NEW e \in T, NEW r \in Seq(T), NEW s, s = <<k, e>> \o r
  PROVE  /\ s \in Seq(T) /\ Len(s) = Len(r) + 2 /\ s # << >> /\ s[1] = k /\ s[2] = e
         /\ \A i \in 1..Len(r) : s[i + 2] = r[i]
         /\ SubSeq(s, 3, Len(s)) = r
<1> PICK n, a : n = Len(r) /\ a = <<k, e>>
  OBVIOUS
<1>1. n \in Nat /\ a \in Seq(T) /\ Len(a) = 2 /\ a[1] = k /\ a[2] = e
  OBVIOUS
<1>2. s = a \o r
  OBVIOUS
<1>3. /\ s \in Seq(T) /\ Len(s) = n + 2 /\ s[1] = k /\ s[2] = e
      /\ \A i \in 1..n : s[i + 2] = r[i]
  BY <1>1, <1>2
<1>4. s # << >>
  BY <1>1, <1>3
<1>6. SubSeq(s, 3, n + 2) = r
  <2>1. PICK t : t = SubSeq(s, 3, n + 2)
    OBVIOUS
  <2>2. t \in Seq(T) /\ Len(t) = n
    BY <1>1, <1>3, <2>1
  <2>3. \A i \in 1..n : t[i] = s[i + 2]
    BY <1>1, <1>3, <2>1
  <2> QED
    BY <1>1, <1>3, <2>1, <2>2, <2>3
<1> QED
  BY <1>1, <1>3, <1>4, <1>6

\* split_once finds the key and the text of the value again.
LEMMA AssignmentRead ==
  ASSUME NEW T, Marks \subseteq T, NEW k \in Keys, k \in T, NEW r \in Seq(T)
  PROVE  Assignment(<<k, "=">> \o r) = [ok |-> TRUE, key |-> k, raw |-> r]
<1>1. PICK e, s : e = "=" /\ s = <<k, e>> \o r
  OBVIOUS
<1>2. e \in T /\ s = <<k, e>> \o r
  BY <1>1 DEF Marks
<1>3. PICK n : n = Len(r) + 2
  OBVIOUS
<1>4. /\ s \in Seq(T) /\ Len(s) = n /\ s[1] = k /\ s[2] = e /\ n \in Nat /\ 2 <= n
      /\ SubSeq(s, 1, 1) = <<k>> /\ SubSeq(s, 3, n) = r
  <2>1. s \in Seq(T) /\ Len(s) = Len(r) + 2
    BY ONLY k \in T, r \in Seq(T), <1>2, AssignmentSeq
  <2>4. s[1] = k
    BY ONLY k \in T, r \in Seq(T), <1>2, AssignmentSeq
  <2>5. s[2] = e
    BY ONLY k \in T, r \in Seq(T), <1>2, AssignmentSeq
  <2>6. r \in Seq(T) => Len(r) \in Nat
    OBVIOUS
  <2>7. Len(s) # 0
    BY <2>1, <2>6
  <2>2. SubSeq(s, 1, 1) = <<k>>
    BY ONLY <2>1, <2>4, <2>7, OneToken
  <2>3. SubSeq(s, 3, Len(s)) = r
    BY ONLY k \in T, r \in Seq(T), <1>2, AssignmentSeq
  <2> QED
    BY <1>3, <2>1, <2>2, <2>3, <2>4, <2>5, <2>6
<1>5. k # e /\ k \notin White /\ e # " "
  BY <1>1, DotenvAssumption
<1>6. StripExport(s) = s
  <2>1. ~ IsPrefix(<<"export", " ">>, s)
    <3>1. PICK x, y, p : x = "export" /\ y = " " /\ p = <<x, y>>
      OBVIOUS
    <3>2. Len(p) = 2 /\ SubSeq(p, 1, 2)[2] = y
      <4>1. p = <<x, y>>
        BY <3>1
      <4>2. Len(p) = 2 /\ p[2] = y
        BY ONLY <4>1
      <4>3. PICK U : U = {x, y}
        OBVIOUS
      <4>4. p \in Seq(U)
        BY ONLY <4>1, <4>3
      <4> QED
        BY ONLY <4>2, <4>4
    <3>3. SubSeq(s, 1, 2)[2] = e
      BY <1>4
    <3> QED
      BY <1>5, <3>1, <3>2, <3>3 DEF IsPrefix
  <2> QED
    BY <2>1 DEF StripExport
<1>7. PICK equals : equals = Positions(s, e)
  OBVIOUS
<1>8. equals # {} /\ Smallest(equals) = 2
  <2>1. equals \in SUBSET (1..n) /\ 2 \in equals /\ 1 \notin equals
    <3>2. s \in Seq(T) /\ Len(s) = n
      BY <1>4
    <3>3. DOMAIN s = 1..n
      BY ONLY <3>2
    <3>1. DOMAIN s = 1..n /\ 1 \in 1..n /\ 2 \in 1..n /\ s[1] # e /\ s[2] = e
      <4>1. n \in Nat /\ 2 <= n
        BY <1>4
      <4>2. 1 \in 1..n /\ 2 \in 1..n
        BY ONLY <4>1
      <4>3. s[1] = k /\ s[2] = e
        BY <1>4
      <4> QED
        BY ONLY <1>5, <3>3, <4>2, <4>3
    <3> QED
      BY <1>7, <3>1 DEF Positions
  <2>2. equals \in SUBSET Int /\ \A j \in equals : 2 <= j
    BY <1>4, <2>1
  <2> QED
    BY <2>1, <2>2, SmallestIs
<1>9. Trim(<<k>>) = <<k>>
  <2>1. PICK u : u = <<k>>
    OBVIOUS
  <2>2. u \in Seq(Keys) /\ u # << >> /\ Len(u) = 1 /\ u[1] = k /\ u[Len(u)] = k
    BY <2>1
  <2>3. TrimOf(u, White) = u
    BY <1>5, <2>2, TrimWhole
  <2> QED
    BY <2>1, <2>3 DEF Trim
<1>10. SplitAt(s, equals) = KeyAndRaw(<<k>>, r)
  <2>1. /\ SubSeq(s, 1, Smallest(equals) - 1) = <<k>>
        /\ SubSeq(s, Smallest(equals) + 1, Len(s)) = r
    <3>1. 2 - 1 = 1 /\ 2 + 1 = 3
      OBVIOUS
    <3> QED
      BY <3>1, <1>4, <1>8
  <2> QED
    BY <2>1, <1>8, <1>9 DEF SplitAt
<1>11. KeyAndRaw(<<k>>, r) = [ok |-> TRUE, key |-> k, raw |-> r]
  BY DEF KeyAndRaw
<1>12. Assignment(s) = SplitAt(s, equals)
  BY <1>1, <1>6, <1>7 DEF Assignment, SplitOnce
<1> QED
  BY <1>1, <1>10, <1>11, <1>12

\* The line that render writes for a variable is read as an assignment of that very value to
\* that very key, even when the value contains equals signs, hashes or quotes.
THEOREM AssignmentsReadBack ==
  \A S : \A v \in Seq(S), k \in Keys :
    ParseAssignment(<<k, "=">> \o RenderValue(v)) = [ok |-> TRUE, key |-> k, value |-> v]
<1> SUFFICES ASSUME NEW S, NEW v \in Seq(S), NEW k \in Keys
             PROVE  ParseAssignment(<<k, "=">> \o RenderValue(v))
                      = [ok |-> TRUE, key |-> k, value |-> v]
  OBVIOUS
<1>1. PICK T : T = S \cup Marks \cup Keys
  OBVIOUS
<1>2. Marks \subseteq T /\ k \in T /\ v \in Seq(T)
  BY <1>1
<1>3. PICK r : r = RenderValue(v)
  OBVIOUS
<1>4. r \in Seq(T)
  BY <1>2, <1>3, RenderValueCases, QuotedParts
<1>5. Assignment(<<k, "=">> \o r) = [ok |-> TRUE, key |-> k, raw |-> r]
  BY <1>2, <1>4, AssignmentRead
<1>6. ParseValue(Trim(r)) = [ok |-> TRUE, value |-> v]
  BY <1>3, ValuesReadBack
<1>7. PICK a : a = [ok |-> TRUE, key |-> k, raw |-> r]
  OBVIOUS
<1>8. Evaluate(a) = Valued(a, ParseValue(Trim(r)))
  BY <1>7 DEF Evaluate
<1>9. Valued(a, [ok |-> TRUE, value |-> v]) = [ok |-> TRUE, key |-> k, value |-> v]
  BY <1>7 DEF Valued
<1> QED
  BY <1>3, <1>5, <1>6, <1>7, <1>8, <1>9 DEF ParseAssignment

--------------------------------------------------------------------------------
(* A text is split into lines.                                                  *)

\* The splitting before the first token.
Begin == [lines |-> << >>, current |-> << >>]

\* text has been split into the lines ls and the unfinished line cur.
SplitInto(text, ls, cur) == Split(Begin, text) = [lines |-> ls, current |-> cur]

\* The empty text has no lines.
LEMMA SplitEmpty == SplitInto(<< >>, << >>, << >>)
<1>1. \A S : Begin \in Splitting(S)
  BY DEF Begin, Splitting
<1>2. Split(Begin, << >>) = Begin
  BY <1>1, LineFold
<1> QED
  BY <1>2 DEF SplitInto, Begin

\* A newline ends a line; another token extends it.
LEMMA SplitChar ==
  ASSUME NEW T, NEW s \in Seq(T), NEW ls, NEW cur, SplitInto(s, ls, cur), NEW c \in T
  PROVE  /\ c = "\n" => SplitInto(Append(s, c), Append(ls, Chomp(cur)), << >>)
         /\ c # "\n" => SplitInto(Append(s, c), ls, Append(cur, c))
<1>1. Begin \in Splitting(T)
  BY DEF Begin, Splitting
<1>2. Split(Begin, Append(s, c)) = LineChar(Split(Begin, s), c)
  <2>1. \A t \in Seq(T), x \in T : Split(Begin, Append(t, x)) = LineChar(Split(Begin, t), x)
    BY <1>1, LineFold
  <2> QED
    BY <2>1
<1>3. Split(Begin, s) = [lines |-> ls, current |-> cur]
  BY DEF SplitInto
<1>4. PICK sp : sp = [lines |-> ls, current |-> cur]
  OBVIOUS
<1>5. c = "\n" => LineChar(sp, c) = [lines |-> Append(ls, Chomp(cur)), current |-> << >>]
  BY <1>4 DEF LineChar
<1>6. c # "\n" => LineChar(sp, c) = [lines |-> ls, current |-> Append(cur, c)]
  BY <1>4 DEF LineChar
<1> QED
  BY <1>2, <1>3, <1>4, <1>5, <1>6 DEF SplitInto

\* Appending to a concatenation appends to its second part.
LEMMA AppendOfConcat ==
  ASSUME NEW T, NEW s \in Seq(T), NEW t \in Seq(T), NEW c \in T
  PROVE  s \o Append(t, c) = Append(s \o t, c)
<1>1. PICK u : u = <<c>>
  OBVIOUS
<1>2. u \in Seq(T) /\ s \o t \in Seq(T)
  BY <1>1, ConcatProperties
<1>3. Append(t, c) = t \o u /\ Append(s \o t, c) = (s \o t) \o u
  BY <1>1, <1>2, AppendIsConcat
<1>4. (s \o t) \o u = s \o (t \o u)
  BY ONLY s \in Seq(T), t \in Seq(T), <1>2, ConcatAssociative
<1> QED
  BY <1>3, <1>4

\* What contains no newline extends the unfinished line.
LEMMA SplitWord ==
  ASSUME NEW T, NEW s \in Seq(T), NEW ls, NEW cur \in Seq(T), SplitInto(s, ls, cur),
         NEW w \in Seq(T \ {"\n"})
  PROVE  SplitInto(s \o w, ls, cur \o w)
<1> PICK U : U = T \ {"\n"}
  OBVIOUS
<1> DEFINE Good == {t \in Seq(U) : SplitInto(s \o t, ls, cur \o t)}
<1>1. << >> \in Good
  <2>1. s \o << >> = s /\ cur \o << >> = cur
    BY ConcatEmptySeq
  <2>2. << >> \in Seq(U)
    OBVIOUS
  <2> QED
    BY <2>1, <2>2
<1>2. ASSUME NEW t \in Good, NEW c \in U PROVE Append(t, c) \in Good
  <2>1. t \in Seq(T) /\ t \in Seq(U) /\ c \in T /\ c # "\n" /\ SplitInto(s \o t, ls, cur \o t)
    <3>1. t \in Seq(U) /\ SplitInto(s \o t, ls, cur \o t)
      OBVIOUS
    <3>2. t \in Seq(T)
      BY <3>1, SeqWithout
    <3> QED
      BY <3>1, <3>2
  <2>2. PICK st, ct : st = s \o t /\ ct = cur \o t
    OBVIOUS
  <2>3. st \in Seq(T)
    BY <2>1, <2>2, ConcatProperties
  <2>4. SplitInto(Append(st, c), ls, Append(ct, c))
    BY <2>1, <2>2, <2>3, SplitChar
  <2>5. s \o Append(t, c) = Append(st, c) /\ cur \o Append(t, c) = Append(ct, c)
    <3>1. t \in Seq(T) /\ c \in T
      BY <2>1
    <3>2. s \o Append(t, c) = Append(s \o t, c)
      BY ONLY s \in Seq(T), <3>1, AppendOfConcat
    <3>3. cur \o Append(t, c) = Append(cur \o t, c)
      BY ONLY cur \in Seq(T), <3>1, AppendOfConcat
    <3> QED
      BY <2>2, <3>2, <3>3
  <2>6. Append(t, c) \in Seq(U)
    BY <2>1
  <2> QED
    BY <2>4, <2>5, <2>6
<1> HIDE DEF Good
<1>3. Good = Seq(U)
  <2>1. Good \in SUBSET Seq(U)
    BY DEF Good
  <2> QED
    BY <2>1, <1>1, <1>2, SeqInduction
<1> QED
  BY <1>3 DEF Good

\* A line without carriage returns is kept as it is.
LEMMA ChompPlain ==
  ASSUME NEW T, NEW cur \in Seq(T \ {"\r"})
  PROVE  Chomp(cur) = cur
<1>1. CASE cur = << >>
  BY <1>1 DEF Chomp, EndsWith
<1>2. CASE cur # << >>
  <2>1. cur[Len(cur)] \in T \ {"\r"}
    BY <1>2
  <2>2. cur[Len(cur)] # "\r"
    BY <2>1
  <2> QED
    BY <2>2 DEF Chomp, EndsWith
<1> QED
  BY <1>1, <1>2

\* A newline makes the unfinished line the last one.
LEMMA SplitNewline ==
  ASSUME NEW T, NEW s \in Seq(T), NEW ls, NEW cur \in Seq(T \ {"\r"}), SplitInto(s, ls, cur),
         "\n" \in T, NEW nl, nl = <<"\n">>
  PROVE  SplitInto(s \o nl, Append(ls, cur), << >>)
<1>1. PICK c : c = "\n"
  OBVIOUS
<1>2. SplitInto(Append(s, c), Append(ls, Chomp(cur)), << >>)
  BY <1>1, SplitChar
<1>3. s \o <<c>> = Append(s, c)
  BY <1>1, ConcatOne
<1>4. Chomp(cur) = cur
  BY ChompPlain
<1> QED
  BY <1>1, <1>2, <1>3, <1>4

\* f holds the states of the parser on the lines L.
Run(L, f) == f[0] = Start /\ \A i \in 1..Len(L) : f[i] = ParseLine(L, f[i - 1], i)

\* Having read the lines ls, the parser is in the state st, whatever lines follow: so a text can
\* be looked at in parts, though a comment line looks ahead.
Reaches(T, ls, st) ==
  \A L \in Seq(Seq(T)) : \A f :
    Run(L, f) /\ Len(ls) <= Len(L) /\ (\A i \in 1..Len(ls) : L[i] = ls[i]) => f[Len(ls)] = st

\* Before the first line the parser is in its initial state.
LEMMA ReachesStart == \A T : Reaches(T, << >>, Start)
BY DEF Reaches, Run

\* One more line takes the parser from st to what ParseLine makes of it.
LEMMA ReachesLine ==
  ASSUME NEW T, NEW ls \in Seq(Seq(T)), NEW x \in Seq(T), NEW st, NEW next,
         Reaches(T, ls, st),
         \A L \in Seq(Seq(T)), i \in Nat : L[i] = x => ParseLine(L, st, i) = next
  PROVE  Reaches(T, Append(ls, x), next)
<1>1. PICK n, Q, a : n = Len(ls) /\ Q = Seq(T) /\ a = Append(ls, x)
  OBVIOUS
<1>2. /\ n \in Nat /\ Len(a) = n + 1 /\ a[n + 1] = x /\ \A i \in 1..n : a[i] = ls[i]
  BY <1>1
<1>3. ASSUME NEW L \in Seq(Q), NEW f, Run(L, f), n + 1 <= Len(L),
             \A i \in 1..n + 1 : L[i] = a[i]
      PROVE  f[n + 1] = next
  <2>1. Len(L) \in Nat /\ n <= Len(L) /\ \A i \in 1..n : L[i] = ls[i]
    BY <1>2, <1>3
  <2>2. f[n] = st
    BY <1>1, <1>3, <2>1 DEF Reaches
  <2>3. n + 1 \in 1..Len(L) /\ n + 1 \in 1..n + 1 /\ n + 1 \in Nat /\ (n + 1) - 1 = n
    BY <1>2, <1>3, <2>1
  <2>4. f[n + 1] = ParseLine(L, f[n], n + 1)
    BY <1>3, <2>3 DEF Run
  <2>5. L[n + 1] = x
    BY <1>2, <1>3, <2>3
  <2> QED
    BY <1>1, <2>2, <2>3, <2>4, <2>5
<1>4. Reaches(T, a, next)
  BY <1>1, <1>2, <1>3 DEF Reaches
<1> QED
  BY <1>1, <1>4

\* The state after all lines gives the result.
LEMMA ReachesEnd ==
  ASSUME NEW T, NEW ls \in Seq(Seq(T)), NEW st, Reaches(T, ls, st)
  PROVE  ParseLines(ls) = Result(st)
<1>1. Len(ls) \in Nat
  OBVIOUS
<1>2. PICK f : /\ f[0] = Start
               /\ \A i \in 1..Len(ls) : f[i] = ParseLine(ls, f[i - 1], i)
               /\ ParseLines(ls) = Result(f[Len(ls)])
  BY <1>1, ParseRun
<1>3. Run(ls, f)
  BY <1>2 DEF Run
<1>4. f[Len(ls)] = st
  BY <1>1, <1>3 DEF Reaches
<1> QED
  BY <1>2, <1>4

--------------------------------------------------------------------------------
(* What one line does to the parser.                                            *)

\* The state of a parser that has met no issue.
State(es, g, b, h, q) ==
  [ok |-> TRUE, entries |-> es, group |-> g, boundary |-> b, quote |-> q, held |-> h,
   stopped |-> FALSE]

\* No quote is open.
Ready(es, g, b, h) == State(es, g, b, h, "")

\* A double quote is open.
Inside(es, g, b, h) == State(es, g, b, h, "\"")

\* No entry has the key k.
Absent(es, k) == \A i \in DOMAIN es : es[i].key # k

\* An entry as the parser records it.
Entry(k, v, g) == [key |-> k, value |-> v, group |-> g]

\* Ready after a heading or an entry.
Within(es, g, h) == Ready(es, g, FALSE, h)

\* Ready after an empty line.
AfterBlank(es, g, h) == Ready(es, g, TRUE, h)

\* Ready with one entry more.
Added(es, g, h, k, v) == Within(Append(es, Entry(k, v, g)), g, h)

\* The assignment of v to k.
Parsed(k, v) == [ok |-> TRUE, key |-> k, value |-> v]

\* The first line of an assignment whose quote has been opened.
Opening(k, s) == <<k, "=">> \o (<<"\"">> \o s)

\* A held line and its continuation.
Joined(h, s) == h \o <<"\n">> \o s

\* s does not close the quote it stands in.
StaysOpen(s) == Scan(Open, s).closed = FALSE

\* s closes the quote it stands in.
IsClosed(s) == Scan(Open, s).closed = TRUE

\* The line leaves no quote open.
Complete(line) == OpenQuote(line) = ""

\* The file holds fewer entries than MAX_ENTRIES.
RoomIn(es) == Len(es) \in Nat /\ Len(es) < MaxEntries

\* The parser after the end of a quote.
Unquoted(st) == [st EXCEPT !.quote = ""]

\* The parser after an empty line.
AtBoundary(st) == [st EXCEPT !.boundary = TRUE]

\* Ending a quote makes the parser ready.
LEMMA ExceptQuote ==
  ASSUME NEW es, NEW g, NEW b, NEW h
  PROVE  Unquoted(Inside(es, g, b, h)) = Ready(es, g, b, h)
<1> DEFINE R(c, p) == [ok : {TRUE}, entries : {es}, group : {g}, boundary : {c}, quote : {p},
                       held : {h}, stopped : {FALSE}]
<1>1. PICK st, q, p : st = State(es, g, b, h, q) /\ q = "\"" /\ p = ""
  OBVIOUS
<1>2. st \in R(b, q)
  BY <1>1 DEF State
<1>3. PICK r : r = [st EXCEPT !.quote = p]
  OBVIOUS
<1>4. r \in R(b, p)
  BY <1>2, <1>3
<1>5. r = State(es, g, b, h, p)
  BY <1>4 DEF State
<1> QED
  BY <1>1, <1>3, <1>5 DEF Unquoted, Inside, Ready

\* An empty line leaves the parser ready.
LEMMA ExceptBoundary ==
  ASSUME NEW es, NEW g, NEW b, NEW h
  PROVE  AtBoundary(Ready(es, g, b, h)) = AfterBlank(es, g, h)
<1> DEFINE R(c, p) == [ok : {TRUE}, entries : {es}, group : {g}, boundary : {c}, quote : {p},
                       held : {h}, stopped : {FALSE}]
<1>1. PICK st, q, c : st = State(es, g, b, h, q) /\ q = "" /\ c = TRUE
  OBVIOUS
<1>2. st \in R(b, q)
  BY <1>1 DEF State
<1>3. PICK r : r = [st EXCEPT !.boundary = c]
  OBVIOUS
<1>4. r \in R(c, q)
  BY <1>2, <1>3
<1>5. r = State(es, g, c, h, q)
  BY <1>4 DEF State
<1> QED
  BY <1>1, <1>3, <1>5 DEF AtBoundary, Ready, AfterBlank

\* A complete assignment of a new key becomes an entry in the current group.
LEMMA EntryAdded ==
  ASSUME NEW es, NEW g, NEW b, NEW h, NEW k, NEW v, Absent(es, k)
  PROVE  AddEntry(Ready(es, g, b, h), Parsed(k, v)) = Added(es, g, h, k, v)
BY DEF AddEntry, State, Ready, Within, Absent, Entry, Parsed, Added

\* A line that starts with a key is an assignment, complete or to be continued.
LEMMA LineStarts ==
  ASSUME NEW T, NEW line \in Seq(T), line # << >>, line[1] \in Keys, NEW L, NEW i, L[i] = line,
         NEW es, NEW g, NEW b, NEW h, RoomIn(es)
  PROVE  ParseLine(L, Ready(es, g, b, h), i) = Hold(Ready(es, g, b, h), line, OpenQuote(line))
<1>1. line[1] \notin White /\ line[1] # "#"
  BY DotenvAssumption
<1>2. TrimStart(line) = line
  BY <1>1, TrimStartWhole
<1>3. PICK t : t = Trim(line)
  OBVIOUS
<1>4. t # << >> /\ ~StartsWith(t, {"#"})
  BY <1>1, <1>3, TrimKeepsFirst DEF StartsWith
<1>5. PICK st : st = Ready(es, g, b, h)
  OBVIOUS
<1>6. ~st.stopped /\ st.quote = "" /\ st.entries = es
  BY <1>5 DEF State, Ready
<1>7. ParseLine(L, st, i) = ParseTrimmed(L, st, i, t)
  BY <1>3, <1>6 DEF ParseLine
<1>8. ParseTrimmed(L, st, i, t) = ParseStart(st, line)
  BY <1>2, <1>4 DEF ParseTrimmed
<1>9. ~(Len(es) >= MaxEntries)
  BY DotenvAssumption DEF RoomIn
<1>10. ParseStart(st, line) = Hold(st, line, OpenQuote(line))
  BY <1>6, <1>9 DEF ParseStart
<1> QED
  BY <1>5, <1>7, <1>8, <1>10

\* An assignment whose quote is not closed is held, one whose quote is closed is complete.
LEMMA QuoteLeft ==
  ASSUME NEW T, Marks \cup Keys \subseteq T, NEW k \in Keys, NEW s \in Seq(T)
  PROVE  /\ StaysOpen(s) => OpenQuote(Opening(k, s)) = "\""
         /\ IsClosed(s) => Complete(Opening(k, s))
<1>1. PICK q, r : q = "\"" /\ r = <<q>> \o s
  OBVIOUS
<1>2. q \in T /\ k \in T
  BY <1>1 DEF Marks
<1>3. r = <<q>> \o s
  BY <1>1
<1>4. r \in Seq(T) /\ Len(r) = Len(s) + 1 /\ r[1] = q
  BY ONLY s \in Seq(T), <1>2, <1>3
<1>5. Tail(r) = s
  <2>1. r # << >>
    BY <1>4
  <2>2. \A i \in 1..Len(s) : r[i + 1] = s[i]
    BY ONLY s \in Seq(T), <1>2, <1>3
  <2>3. PICK t : t = Tail(r)
    OBVIOUS
  <2>4. t \in Seq(T) /\ Len(t) = Len(s) /\ \A i \in 1..Len(s) : t[i] = r[i + 1]
    BY <1>4, <2>1, <2>3, HeadTailProperties
  <2> QED
    BY <2>2, <2>3, <2>4, SeqEqual
<1>6. r # << >>
  BY <1>4
<1>7. TrimStart(r) = r
  <2>1. r[1] \notin White
    BY <1>1, <1>4 DEF White
  <2> QED
    BY <1>4, <1>6, <2>1, TrimStartWhole
<1>8. PICK a : a = [ok |-> TRUE, key |-> k, raw |-> r]
  OBVIOUS
<1>9. Assignment(<<k, "=">> \o r) = a
  BY <1>2, <1>4, <1>8, AssignmentRead
<1>10. OpenQuoteOf(a) = Unclosed(r)
  BY <1>7, <1>8 DEF OpenQuoteOf
<1>11. StartsWith(r, Quotes)
  BY <1>1, <1>4, <1>6 DEF StartsWith, Quotes
<1>12. QuotedValueIsClosed(s, q) = Scan(Open, s).closed
  BY <1>1 DEF QuotedValueIsClosed, Scan, Open
<1>13. StaysOpen(s) => Unclosed(r) = q
  BY <1>4, <1>5, <1>11, <1>12 DEF Unclosed, StaysOpen
<1>14. IsClosed(s) => Unclosed(r) = ""
  BY <1>4, <1>5, <1>11, <1>12 DEF Unclosed, IsClosed
<1> QED
  BY <1>1, <1>9, <1>10, <1>13, <1>14 DEF OpenQuote, Opening, Complete

\* The first line of a value over several lines is held.
LEMMA LineOpens ==
  ASSUME NEW T, Marks \cup Keys \subseteq T, NEW k \in Keys, NEW s \in Seq(T), StaysOpen(s),
         NEW line \in Seq(T), line # << >>, line[1] = k, line = Opening(k, s),
         NEW L, NEW i, L[i] = line, NEW es, NEW g, NEW b, NEW h, RoomIn(es)
  PROVE  ParseLine(L, Ready(es, g, b, h), i) = Inside(es, g, b, line)
<1>1. OpenQuote(line) = "\""
  BY QuoteLeft
<1>2. ParseLine(L, Ready(es, g, b, h), i) = Hold(Ready(es, g, b, h), line, OpenQuote(line))
  <2>1. line[1] \in Keys
    OBVIOUS
  <2> QED
    BY <2>1, LineStarts
<1>3. Hold(Ready(es, g, b, h), line, "\"") = Inside(es, g, b, line)
  BY DEF Hold, State, Ready, Inside
<1> QED
  BY <1>1, <1>2, <1>3

\* A complete assignment of a new key on one line becomes an entry.
LEMMA LineWhole ==
  ASSUME NEW T, NEW k \in Keys, NEW v,
         NEW line \in Seq(T), line # << >>, line[1] = k, Complete(line),
         ParseAssignment(line) = Parsed(k, v),
         NEW L, NEW i, L[i] = line, NEW es, NEW g, NEW b, NEW h, RoomIn(es), Absent(es, k)
  PROVE  ParseLine(L, Ready(es, g, b, h), i) = Added(es, g, h, k, v)
<1>1. ParseLine(L, Ready(es, g, b, h), i) = Hold(Ready(es, g, b, h), line, OpenQuote(line))
  <2>1. line \in Seq(T) /\ line # << >> /\ line[1] \in Keys /\ L[i] = line /\ RoomIn(es)
    OBVIOUS
  <2> QED
    BY ONLY <2>1, LineStarts
<1>2. Hold(Ready(es, g, b, h), line, "") = AddEntry(Ready(es, g, b, h), ParseAssignment(line))
  BY DEF Hold, Finish
<1>3. AddEntry(Ready(es, g, b, h), Parsed(k, v)) = Added(es, g, h, k, v)
  BY ONLY Absent(es, k), EntryAdded
<1>4. OpenQuote(line) = ""
  BY DEF Complete
<1> QED
  BY <1>1, <1>2, <1>3, <1>4

\* Inside a quote, a line continues the value, whatever it looks like.
LEMMA LineContinues ==
  ASSUME NEW s, NEW L, NEW i, L[i] = s, NEW es, NEW g, NEW b, NEW h
  PROVE  ParseLine(L, Inside(es, g, b, h), i) = Continue(Inside(es, g, b, h), s)
<1>1. PICK st : st = Inside(es, g, b, h)
  OBVIOUS
<1>2. ~st.stopped /\ st.quote # ""
  BY <1>1 DEF State, Inside
<1> QED
  BY <1>1, <1>2 DEF ParseLine

\* A line that does not close the quote is joined to the held ones.
LEMMA LineHolds ==
  ASSUME NEW s, StaysOpen(s), NEW L, NEW i, L[i] = s, NEW es, NEW g, NEW b, NEW h
  PROVE  ParseLine(L, Inside(es, g, b, h), i) = Inside(es, g, b, Joined(h, s))
<1>1. QuotedValueIsClosed(s, "\"") = Scan(Open, s).closed
  BY DEF QuotedValueIsClosed, Scan, Open
<1>2. Continue(Inside(es, g, b, h), s) = Inside(es, g, b, Joined(h, s))
  BY <1>1 DEF Continue, State, Inside, Joined, StaysOpen
<1>3. ParseLine(L, Inside(es, g, b, h), i) = Continue(Inside(es, g, b, h), s)
  BY LineContinues
<1> QED
  BY <1>2, <1>3

\* The line that closes the quote completes the assignment.
LEMMA LineEnds ==
  ASSUME NEW s, IsClosed(s), NEW L, NEW i, L[i] = s,
         NEW es, NEW g, NEW b, NEW h, NEW k, NEW v, Absent(es, k),
         ParseAssignment(Joined(h, s)) = Parsed(k, v)
  PROVE  ParseLine(L, Inside(es, g, b, h), i) = Added(es, g, h, k, v)
<1>1. QuotedValueIsClosed(s, "\"") = Scan(Open, s).closed
  BY DEF QuotedValueIsClosed, Scan, Open
<1>2. PICK st : st = Inside(es, g, b, h)
  OBVIOUS
<1>3. st.quote = "\"" /\ st.held = h
  BY <1>2 DEF State, Inside
<1>8. Continue(st, s) = Finish(Unquoted(st), Joined(h, s))
  BY <1>1, <1>3 DEF Continue, Joined, IsClosed, Unquoted
<1>4. Continue(Inside(es, g, b, h), s) = Finish(Ready(es, g, b, h), Joined(h, s))
  BY <1>2, <1>8, ExceptQuote
<1>5. Finish(Ready(es, g, b, h), Joined(h, s)) = AddEntry(Ready(es, g, b, h), Parsed(k, v))
  BY DEF Finish
<1>6. AddEntry(Ready(es, g, b, h), Parsed(k, v)) = Added(es, g, h, k, v)
  BY EntryAdded
<1>7. ParseLine(L, Inside(es, g, b, h), i) = Continue(Inside(es, g, b, h), s)
  BY LineContinues
<1> QED
  BY <1>4, <1>5, <1>6, <1>7

\* An empty line between assignments is skipped.
LEMMA LineBlank ==
  ASSUME NEW L, NEW i, L[i] = << >>, NEW es, NEW g, NEW b, NEW h
  PROVE  ParseLine(L, Ready(es, g, b, h), i) = AfterBlank(es, g, h)
<1>1. AtBoundary(Ready(es, g, b, h)) = AfterBlank(es, g, h)
  BY ExceptBoundary
<1>2. ~Ready(es, g, b, h).stopped /\ Ready(es, g, b, h).quote = ""
  BY DEF State, Ready
<1>3. ParseLine(L, Ready(es, g, b, h), i) = ParseTrimmed(L, Ready(es, g, b, h), i, << >>)
  BY <1>2, TrimEmpty DEF ParseLine
<1>4. ParseTrimmed(L, Ready(es, g, b, h), i, << >>) = AtBoundary(Ready(es, g, b, h))
  BY DEF ParseTrimmed, StartsWith, AtBoundary
<1> QED
  BY <1>1, <1>3, <1>4

\* A heading sets the group.
LEMMA GroupEntered ==
  ASSUME NEW es, NEW g, NEW b, NEW h, NEW name, name # << >>
  PROVE  EnterGroup(Ready(es, g, b, h), name) = Within(es, name, h)
BY DEF EnterGroup, Ready, Within, State

\* The line that render writes for a group.
HeadingLine(name) == <<"#", " ", "[">> \o name \o <<"]">>

\* The tokens of a heading line.
LEMMA HeadingParts ==
  ASSUME NEW T, NEW name \in Seq(T), NEW n, n = Len(name), NEW h \in T, NEW s \in T, NEW o \in T,
         NEW e \in T, NEW line, line = <<h, s, o>> \o name \o <<e>>
  PROVE  /\ line \in Seq(T) /\ Len(line) = n + 4 /\ line[1] = h /\ line[2] = s /\ line[3] = o
         /\ line[n + 4] = e /\ \A i \in 1..n : line[i + 3] = name[i]
<1> PICK a, z : a = <<h, s, o>> /\ z = <<e>>
  OBVIOUS
<1>1. /\ n \in Nat /\ a \in Seq(T) /\ Len(a) = 3 /\ a[1] = h /\ a[2] = s /\ a[3] = o
      /\ z \in Seq(T) /\ Len(z) = 1 /\ z[1] = e
  OBVIOUS
<1>2. PICK x : x = a \o name
  OBVIOUS
<1>3. /\ x \in Seq(T) /\ Len(x) = n + 3 /\ x[1] = h /\ x[2] = s /\ x[3] = o
      /\ \A i \in 1..n : x[i + 3] = name[i]
  BY <1>1, <1>2
<1>4. line = x \o z
  BY <1>2
<1>5. /\ line \in Seq(T) /\ Len(line) = n + 4 /\ line[n + 4] = e
      /\ \A i \in 1..n + 3 : line[i] = x[i]
  BY <1>1, <1>3, <1>4
<1>6. \A i \in 1..n : i + 3 \in 1..n + 3
  BY <1>1
<1>7. 1 \in 1..n + 3 /\ 2 \in 1..n + 3 /\ 3 \in 1..n + 3
  BY <1>1
<1> QED
  BY <1>3, <1>5, <1>6, <1>7

\* What is read of a heading line: the trimmed comment c, with name between brackets.
HeadingRead(line, name, n, h, o, e, c) ==
  /\ Trim(line) = line /\ line # << >> /\ line[1] = h
  /\ Trim(Tail(line)) = c
  /\ Len(c) = n + 2 /\ c # << >> /\ c[1] = o /\ c[n + 2] = e
  /\ SubSeq(c, 2, n + 1) = name

\* The comment of a heading line is the name between brackets.
LEMMA HeadingComment ==
  ASSUME NEW T, NEW name \in Seq(T), NEW n, n = Len(name), NEW h \in T \ White,
         NEW s \in T \cap White, NEW o \in T \ White, NEW e \in T \ White,
         NEW line, line = <<h, s, o>> \o name \o <<e>>
  PROVE  \E c : HeadingRead(line, name, n, h, o, e, c)
<1>1. /\ line \in Seq(T) /\ Len(line) = n + 4 /\ line[1] = h /\ line[2] = s /\ line[3] = o
      /\ line[n + 4] = e /\ \A i \in 1..n : line[i + 3] = name[i]
  BY HeadingParts
<1>2. n \in Nat /\ line # << >>
  BY <1>1
<1>3. Trim(line) = line
  BY <1>1, <1>2, TrimWhole DEF Trim
<1>4. PICK t : t = Tail(line)
  OBVIOUS
<1>5. /\ t \in Seq(T) /\ Len(t) = n + 3 /\ \A i \in 1..n + 3 : t[i] = line[i + 1]
  <2>1. /\ t \in Seq(T) /\ Len(t) = Len(line) - 1
        /\ \A i \in 1..Len(t) : t[i] = line[i + 1]
    BY <1>1, <1>2, <1>4, HeadTailProperties
  <2> QED
    BY <1>1, <1>2, <2>1
<1>6. t[1] = s /\ t[2] = o /\ t[n + 3] = e
  <2>1. /\ 1 \in 1..n + 3 /\ 2 \in 1..n + 3 /\ n + 3 \in 1..n + 3
        /\ (n + 3) + 1 = n + 4 /\ 1 + 1 = 2 /\ 2 + 1 = 3
    BY <1>2
  <2>2. t[1] = line[1 + 1] /\ t[2] = line[2 + 1] /\ t[n + 3] = line[(n + 3) + 1]
    BY <1>5, <2>1
  <2> QED
    BY <1>1, <2>1, <2>2
<1>7. PICK kept : kept = {i \in DOMAIN t : t[i] \notin White}
  OBVIOUS
<1>8. /\ kept \in SUBSET Int /\ 2 \in kept /\ n + 3 \in kept
      /\ \A j \in kept : 2 <= j /\ j <= n + 3
  <2>1. DOMAIN t = 1..n + 3 /\ 2 \in 1..n + 3 /\ n + 3 \in 1..n + 3
    BY <1>2, <1>5
  <2>2. 1 \notin kept
    BY <1>6, <1>7
  <2>3. \A j \in 1..n + 3 : j # 1 => 2 <= j /\ j <= n + 3
    BY <1>2
  <2> QED
    BY <1>6, <1>7, <2>1, <2>2, <2>3
<1>9. Smallest(kept) = 2 /\ Largest(kept) = n + 3
  BY <1>8, SmallestIs, LargestIs
<1>10. PICK c : c = SubSeq(t, 2, n + 3)
  OBVIOUS
<1>11. Trim(t) = c
  BY <1>7, <1>8, <1>9, <1>10 DEF Trim, TrimOf, Between
<1>12. /\ c \in Seq(T) /\ Len(c) = n + 2 /\ \A i \in 1..n + 2 : c[i] = t[i + 1]
  BY <1>2, <1>5, <1>10
<1>13. c # << >> /\ c[1] = o /\ c[n + 2] = e
  <2>1. 1 \in 1..n + 2 /\ n + 2 \in 1..n + 2 /\ (n + 2) + 1 = n + 3
    BY <1>2
  <2> QED
    BY <1>2, <1>6, <1>12, <2>1
<1>14. SubSeq(c, 2, n + 1) = name
  <2>1. PICK x : x = SubSeq(c, 2, n + 1)
    OBVIOUS
  <2>2. x \in Seq(T) /\ Len(x) = n /\ \A i \in 1..n : x[i] = c[i + 1]
    BY <1>2, <1>12, <2>1
  <2>3. ASSUME NEW i \in 1..n PROVE x[i] = name[i]
    <3>1. /\ i + 1 \in 1..n + 2 /\ (i + 1) + 1 \in 1..n + 3 /\ ((i + 1) + 1) + 1 = i + 3
      BY <1>2
    <3>2. c[i + 1] = t[(i + 1) + 1]
      BY <1>12, <3>1
    <3>3. t[(i + 1) + 1] = line[i + 3]
      BY <1>5, <3>1
    <3> QED
      BY <1>1, <2>2, <3>2, <3>3
  <2> QED
    BY <2>1, <2>2, <2>3, SeqEqual
<1> QED
  BY <1>1, <1>2, <1>3, <1>4, <1>11, <1>12, <1>13, <1>14 DEF HeadingRead

\* A heading line sets the group, when normalize_group_name keeps its name.
LEMMA LineHeading ==
  ASSUME NEW T, Marks \subseteq T, NEW name \in Seq(T), name # << >>,
         NormalizeGroupName(name) = name,
         NEW L, NEW i, L[i] = HeadingLine(name), NEW es, NEW g, NEW b, NEW h
  PROVE  ParseLine(L, Ready(es, g, b, h), i) = Within(es, name, h)
<1>1. PICK n, x, s, o, e, line : /\ n = Len(name) /\ x = "#" /\ s = " " /\ o = "[" /\ e = "]"
                                 /\ line = <<x, s, o>> \o name \o <<e>>
  OBVIOUS
<1>2. x \in T \ White /\ s \in T \cap White /\ o \in T \ White /\ e \in T \ White
  BY <1>1 DEF Marks, White
<1>3. n = Len(name) /\ line = <<x, s, o>> \o name \o <<e>>
  BY <1>1
<1>13. PICK c : HeadingRead(line, name, n, x, o, e, c)
  BY ONLY name \in Seq(T), <1>2, <1>3, HeadingComment
<1>4. /\ Trim(line) = line /\ line # << >> /\ line[1] = x
      /\ Trim(Tail(line)) = c
      /\ Len(c) = n + 2 /\ c # << >> /\ c[1] = o /\ c[n + 2] = e
      /\ SubSeq(c, 2, n + 1) = name
  BY <1>13 DEF HeadingRead
<1>5. line = HeadingLine(name)
  BY <1>1 DEF HeadingLine
<1>6. PICK st : st = Ready(es, g, b, h)
  OBVIOUS
<1>7. ~st.stopped /\ st.quote = ""
  BY <1>6 DEF State, Ready
<1>8. ParseLine(L, st, i) = ParseTrimmed(L, st, i, line)
  BY <1>4, <1>5, <1>7 DEF ParseLine
<1>9. line # << >> /\ StartsWith(line, {"#"})
  BY <1>1, <1>4 DEF StartsWith
<1>10. ParseTrimmed(L, st, i, line) = ParseComment(L, st, i, c)
  BY <1>4, <1>9 DEF ParseTrimmed
<1>11. GroupHeading(c) = name
  <2>1. n \in Nat
    BY <1>3
  <2>2. StartsWith(c, {"["}) /\ EndsWith(c, {"]"}) /\ Len(c) > 1
    <3>1. StartsWith(c, {"["})
      BY <1>1, <1>4 DEF StartsWith
    <3>2. EndsWith(c, {"]"})
      BY <1>1, <1>4 DEF EndsWith
    <3>3. Len(c) > 1
      BY <1>4, <2>1
    <3> QED
      BY <3>1, <3>2, <3>3
  <2>3. SubSeq(c, 2, Len(c) - 1) = name
    <3>1. (n + 2) - 1 = n + 1
      BY <2>1
    <3> QED
      BY <1>4, <3>1
  <2> QED
    BY <2>2, <2>3 DEF GroupHeading
<1>12. ParseComment(L, st, i, c) = EnterGroup(st, name)
  BY <1>11 DEF ParseComment, Comment
<1>14. EnterGroup(Ready(es, g, b, h), name) = Within(es, name, h)
  BY GroupEntered
<1> QED
  BY <1>6, <1>8, <1>10, <1>12, <1>14

--------------------------------------------------------------------------------
(* The lines of a value.                                                        *)

\* A concatenation starts as its first part does.
LEMMA ConcatStart ==
  ASSUME NEW T, NEW a \in Seq(T), a # << >>, NEW x \in Seq(T), NEW ax, ax = a \o x
  PROVE  ax \in Seq(T) /\ ax # << >> /\ ax[1] = a[1]
<1>1. Len(a) \in Nat \ {0} /\ Len(x) \in Nat
  OBVIOUS
<1>2. /\ ax \in Seq(T) /\ Len(ax) = Len(a) + Len(x)
      /\ \A i \in 1..Len(a) + Len(x) : ax[i] = IF i <= Len(a) THEN a[i] ELSE x[i - Len(a)]
  BY ConcatProperties
<1>3. 1 \in 1..Len(a) + Len(x) /\ 1 <= Len(a) /\ Len(ax) # 0
  BY <1>1, <1>2
<1> QED
  BY <1>2, <1>3

\* The first line of an assignment starts with the key.
LEMMA OpeningParts ==
  ASSUME NEW T, {"=", "\""} \subseteq T, NEW k \in T, NEW s \in Seq(T)
  PROVE  Opening(k, s) \in Seq(T) /\ Opening(k, s) # << >> /\ Opening(k, s)[1] = k
<1>1. PICK a, z : a = <<k, "=">> /\ z = <<"\"">>
  OBVIOUS
<1>2. a \in Seq(T) /\ z \in Seq(T) /\ Len(a) = 2 /\ a[1] = k
  <2>1. PICK e, q : e = "=" /\ q = "\""
    OBVIOUS
  <2>2. e \in T /\ q \in T /\ a = <<k, e>> /\ z = <<q>>
    BY <1>1, <2>1
  <2> QED
    BY ONLY k \in T, <2>2
<1>3. PICK x : x = z \o s
  OBVIOUS
<1>4. x \in Seq(T)
  BY <1>2, <1>3, ConcatProperties
<1>5. Opening(k, s) = a \o x
  BY <1>1, <1>3 DEF Opening
<1>9. PICK ax : ax = a \o x
  OBVIOUS
<1>6. a # << >>
  <2>1. Len(a) = 2
    BY <1>2
  <2>2. Len(<< >>) = 0
    OBVIOUS
  <2> QED
    BY ONLY <2>1, <2>2
<1>7. ax \in Seq(T) /\ ax # << >> /\ ax[1] = a[1]
  BY ONLY <1>2, <1>4, <1>6, <1>9, ConcatStart
<1> QED
  BY <1>2, <1>5, <1>7, <1>9

\* What is written for a token other than a newline contains no newline.
LEMMA EscapedOneLine ==
  ASSUME NEW T, Marks \subseteq T, NEW c \in T, c # "\n"
  PROVE  Escape(c) \in Seq(T \ {"\n"})
<1>1. PICK U : U = T \ {"\n"}
  OBVIOUS
<1>2. {"\\", "\"", "r", "t"} \subseteq U /\ c \in U
  BY <1>1 DEF Marks
<1>3. \A x, y \in U : <<x>> \in Seq(U) /\ <<x, y>> \in Seq(U)
  OBVIOUS
<1>4. Escape(c) \in Seq(U)
  BY <1>2, <1>3, EscapeCases
<1> QED
  BY <1>1, <1>4

\* The value p of k is being written: on the first line still, or on a later one.
Progress(T, es, g, b, h, k, p, ls, cur) ==
  \/ cur = Opening(k, Esc(p)) /\ Reaches(T, ls, Ready(es, g, b, h))
  \/ \E held \in Seq(T) : /\ Reaches(T, ls, Inside(es, g, b, held))
                          /\ Scan(Open, cur) = Open
                          /\ Joined(held, cur) = Opening(k, Esc(p))

\* The text base and the beginning of the assignment of a value to k, of which p is written, has
\* been split and read up to the unfinished line.
Writing(T, base, es, g, b, h, k, p) ==
  \E ls \in Seq(Seq(T)), cur \in Seq(T \ {"\r"}) :
    SplitInto(base \o Opening(k, Esc(p)), ls, cur) /\ Progress(T, es, g, b, h, k, p, ls, cur)

\* An escaped value closes no quote.
LEMMA ScanEscaped ==
  ASSUME NEW T, Marks \subseteq T, NEW w \in Seq(T)
  PROVE  Scan(Open, Esc(w)) = Open
<1> DEFINE Good == {v \in Seq(T) : Scan(Open, Esc(v)) = Open}
<1>1. << >> \in Good
  <2>1. Esc(<< >>) = << >>
    BY EscapeFold
  <2>2. << >> \in Seq(T)
    OBVIOUS
  <2> QED
    BY <2>1, <2>2, ScanEmpty
<1>2. ASSUME NEW v \in Good, NEW c \in T PROVE Append(v, c) \in Good
  <2>1. PICK s : s = Esc(v)
    OBVIOUS
  <2>2. v \in Seq(T) /\ Scan(Open, s) = Open
    BY <2>1
  <2>3. s \in Seq(T)
    BY <2>1, <2>2, EscapedSeq
  <2>4. Scan(Open, s \o Escape(c)) = Open
    BY <2>2, <2>3, ScanStep
  <2>5. Esc(Append(v, c)) = s \o Escape(c)
    BY <2>1, <2>2, EscapeFold
  <2>6. Append(v, c) \in Seq(T)
    BY <2>2
  <2> QED
    BY <2>4, <2>5, <2>6
<1> HIDE DEF Good
<1>3. Good = Seq(T)
  <2>1. Good \in SUBSET Seq(T)
    BY DEF Good
  <2> QED
    BY <2>1, <1>1, <1>2, SeqInduction
<1> QED
  BY <1>3 DEF Good

\* The assignment starts on a line of its own.
LEMMA WritingStarts ==
  ASSUME NEW T, Marks \cup Keys \subseteq T, NEW base \in Seq(T), NEW ls \in Seq(Seq(T)),
         SplitInto(base, ls, << >>), NEW k \in Keys, NEW es, NEW g, NEW b, NEW h,
         Reaches(T, ls, Ready(es, g, b, h))
  PROVE  Writing(T, base, es, g, b, h, k, << >>)
<1>1. k # "\n" /\ k # "\r"
  BY DotenvAssumption DEF White
<1>2. PICK U, V : U = T \ {"\r"} /\ V = T \ {"\n"}
  OBVIOUS
<1>3. k \in U /\ k \in V /\ {"=", "\""} \subseteq U /\ {"=", "\""} \subseteq V
  BY <1>1, <1>2 DEF Marks
<1>4. PICK o : o = Opening(k, << >>)
  OBVIOUS
<1>5. o \in Seq(U) /\ o \in Seq(V)
  <2>1. << >> \in Seq(U) /\ << >> \in Seq(V)
    OBVIOUS
  <2> QED
    BY <1>3, <1>4, <2>1, OpeningParts
<1>6. SplitInto(base \o o, ls, << >> \o o)
  <2>1. << >> \in Seq(T)
    OBVIOUS
  <2> QED
    BY <1>2, <1>5, <2>1, SplitWord
<1>7. << >> \o o = o
  BY <1>5, ConcatEmptySeq
<1>8. Esc(<< >>) = << >>
  <2>1. Marks \subseteq T
    OBVIOUS
  <2> QED
    BY <2>1, EscapeFold
<1>9. Progress(T, es, g, b, h, k, << >>, ls, o)
  BY <1>4, <1>8 DEF Progress
<1> QED
  BY <1>2, <1>4, <1>5, <1>6, <1>7, <1>8, <1>9 DEF Writing

\* Concatenation is associative.
LEMMA ConcatConcat ==
  ASSUME NEW T, NEW x \in Seq(T), NEW y \in Seq(T), NEW z \in Seq(T)
  PROVE  (x \o y) \o z = x \o (y \o z)
BY ConcatAssociative

\* Concatenation, as an operator of one name.
Then(a, b) == a \o b

\* The first line of an assignment grows with its value.
LEMMA OpeningGrows ==
  ASSUME NEW T, Marks \subseteq T, NEW k \in T, NEW s \in Seq(T), NEW w \in Seq(T)
  PROVE  Then(Opening(k, s), w) = Opening(k, Then(s, w))
<1>1. PICK a, z, x : a = <<k, "=">> /\ z = <<"\"">> /\ x = z \o s
  OBVIOUS
<1>2. a \in Seq(T) /\ z \in Seq(T)
  <2>1. PICK e, q : e = "=" /\ q = "\""
    OBVIOUS
  <2>2. e \in T /\ q \in T
    BY <2>1 DEF Marks
  <2>3. a = <<k, e>> /\ z = <<q>>
    BY <1>1, <2>1
  <2> QED
    BY ONLY k \in T, <2>2, <2>3
<1>3. x \in Seq(T)
  <2>1. z \o s \in Seq(T)
    BY <1>2, ConcatProperties
  <2> QED
    BY <1>1, <2>1
<1>4. Opening(k, s) = a \o x
  BY <1>1 DEF Opening
<1>5. (a \o x) \o w = a \o (x \o w)
  <2>1. a \in Seq(T) /\ x \in Seq(T) /\ w \in Seq(T)
    BY <1>2, <1>3
  <2> QED
    BY ONLY <2>1, ConcatConcat
<1>6. (z \o s) \o w = z \o (s \o w)
  <2>1. z \in Seq(T) /\ s \in Seq(T) /\ w \in Seq(T)
    BY <1>2
  <2> QED
    BY ONLY <2>1, ConcatConcat
<1>7. Opening(k, s \o w) = a \o (z \o (s \o w))
  BY <1>1 DEF Opening
<1>8. Opening(k, s) \o w = Opening(k, s \o w)
  BY <1>1, <1>4, <1>5, <1>6, <1>7
<1> QED
  BY <1>8 DEF Then

\* The first line of an assignment is a sequence of tokens.
LEMMA OpeningIsSeq ==
  ASSUME NEW T, Marks \subseteq T, NEW k \in T, NEW s \in Seq(T)
  PROVE  Opening(k, s) \in Seq(T)
<1>1. {"=", "\""} \subseteq T
  BY DEF Marks
<1> QED
  BY <1>1, OpeningParts

\* A joined line grows with its last part.
LEMMA JoinedGrows ==
  ASSUME NEW T, Marks \subseteq T, NEW h \in Seq(T), NEW s \in Seq(T), NEW w \in Seq(T)
  PROVE  Then(Joined(h, s), w) = Joined(h, Then(s, w))
<1>1. PICK z, x : z = <<"\n">> /\ x = h \o z
  OBVIOUS
<1>2. z \in Seq(T)
  <2>1. PICK e : e = "\n"
    OBVIOUS
  <2>2. e \in T
    BY <2>1 DEF Marks
  <2>3. z = <<e>>
    BY <1>1, <2>1
  <2> QED
    BY ONLY <2>2, <2>3
<1>3. x \in Seq(T)
  <2>1. h \o z \in Seq(T)
    BY <1>2, ConcatProperties
  <2> QED
    BY <1>1, <2>1
<1>4. \A t : Joined(h, t) = x \o t
  BY <1>1 DEF Joined
<1>5. (x \o s) \o w = x \o (s \o w)
  <2>1. x \in Seq(T) /\ s \in Seq(T) /\ w \in Seq(T)
    BY <1>3
  <2> QED
    BY ONLY <2>1, ConcatConcat
<1> QED
  BY <1>4, <1>5 DEF Then

\* Joining an empty line adds a newline.
LEMMA JoinedNothing ==
  ASSUME NEW T, Marks \subseteq T, NEW h \in Seq(T), NEW nl, nl = <<"\n">>
  PROVE  Joined(h, << >>) = Then(h, nl)
<1>1. nl \in Seq(T)
  <2>1. PICK e : e = "\n"
    OBVIOUS
  <2>2. e \in T
    BY <2>1 DEF Marks
  <2>3. nl = <<e>>
    BY <2>1
  <2> QED
    BY ONLY <2>2, <2>3
<1>2. PICK x : x = h \o nl
  OBVIOUS
<1>3. x \in Seq(T)
  <2>1. h \o nl \in Seq(T)
    BY <1>1, ConcatProperties
  <2> QED
    BY <1>2, <2>1
<1>4. x \o << >> = x
  BY <1>3, ConcatEmptySeq
<1>5. Joined(h, << >>) = x \o << >>
  BY <1>2 DEF Joined
<1> QED
  BY <1>2, <1>4, <1>5 DEF Then

\* Writing a token of the value other than a newline extends the unfinished line.
LEMMA WritingWord ==
  ASSUME NEW T, Marks \cup Keys \subseteq T, NEW base \in Seq(T), NEW es, NEW g, NEW b, NEW h,
         NEW k \in Keys, NEW p \in Seq(T), Writing(T, base, es, g, b, h, k, p),
         NEW c \in T, c # "\n"
  PROVE  Writing(T, base, es, g, b, h, k, Append(p, c))
<1> PICK U, V, w, s, s1 : /\ U = T \ {"\r"} /\ V = T \ {"\n"} /\ w = Escape(c)
                          /\ s = Esc(p) /\ s1 = Esc(Append(p, c))
  OBVIOUS
<1>1. Marks \subseteq T /\ {"=", "\"", "\n"} \subseteq T /\ k \in T
  BY DEF Marks
<1>2. w \in Seq(U) /\ w \in Seq(V) /\ w \in Seq(T)
  <2>1. w \in Seq(U) /\ w \in Seq(V)
    BY <1>1, EscapeCases, EscapedOneLine
  <2> QED
    BY <2>1, SeqWithout
<1>3. s \in Seq(T) /\ s1 = s \o w
  BY <1>1, EscapedSeq, EscapeFold
<1>4. PICK o : o = Opening(k, s)
  OBVIOUS
<1>5. o \in Seq(T) /\ o \o w = Opening(k, s1)
  <2>1. Marks \subseteq T /\ k \in T /\ s \in Seq(T) /\ w \in Seq(T)
    BY <1>1, <1>2, <1>3
  <2>2. Then(Opening(k, s), w) = Opening(k, Then(s, w))
    BY ONLY <2>1, OpeningGrows
  <2>3. Opening(k, s) \in Seq(T)
    BY ONLY <2>1, OpeningIsSeq
  <2> QED
    BY <1>3, <1>4, <2>2, <2>3 DEF Then
<1>6. PICK ls, cur : /\ ls \in Seq(Seq(T)) /\ cur \in Seq(U)
                     /\ SplitInto(base \o o, ls, cur) /\ Progress(T, es, g, b, h, k, p, ls, cur)
  BY <1>4 DEF Writing
<1>7. cur \in Seq(T) /\ cur \o w \in Seq(U) /\ base \o o \in Seq(T)
  BY <1>2, <1>5, <1>6, SeqWithout, ConcatProperties
<1>8. SplitInto(base \o Opening(k, s1), ls, cur \o w)
  <2>1. SplitInto((base \o o) \o w, ls, cur \o w)
    BY <1>2, <1>6, <1>7, SplitWord
  <2>2. (base \o o) \o w = base \o (o \o w)
    <3>1. base \in Seq(T) /\ o \in Seq(T) /\ w \in Seq(T)
      BY <1>2, <1>5
    <3> QED
      BY ONLY <3>1, ConcatConcat
  <2> QED
    BY <1>5, <2>1, <2>2
<1>9. Progress(T, es, g, b, h, k, Append(p, c), ls, cur \o w)
  <2>1. CASE cur = o /\ Reaches(T, ls, Ready(es, g, b, h))
    BY <1>5, <2>1 DEF Progress
  <2>2. CASE \E held \in Seq(T) : /\ Reaches(T, ls, Inside(es, g, b, held))
                                  /\ Scan(Open, cur) = Open
                                  /\ Joined(held, cur) = o
    <3>1. PICK held \in Seq(T) : /\ Reaches(T, ls, Inside(es, g, b, held))
                                 /\ Scan(Open, cur) = Open
                                 /\ Joined(held, cur) = o
      BY <2>2
    <3>2. Scan(Open, cur \o w) = Open
      BY <1>1, <1>7, <3>1, ScanStep
    <3>3. Joined(held, cur) \o w = Joined(held, cur \o w)
      <4>1. Marks \subseteq T /\ held \in Seq(T) /\ cur \in Seq(T) /\ w \in Seq(T)
        BY <1>1, <1>2, <1>7, <3>1
      <4>2. Then(Joined(held, cur), w) = Joined(held, Then(cur, w))
        BY ONLY <4>1, JoinedGrows
      <4> QED
        BY <4>2 DEF Then
    <3>4. Joined(held, cur \o w) = Opening(k, s1)
      BY <1>5, <3>1, <3>3
    <3> QED
      BY <3>1, <3>2, <3>4 DEF Progress
  <2> QED
    BY <1>4, <1>6, <2>1, <2>2 DEF Progress
<1> QED
  BY <1>6, <1>7, <1>8, <1>9 DEF Writing

\* After the first line of a value over several lines the parser is inside the quote.
LEMMA ReachesOpened ==
  ASSUME NEW T, Marks \cup Keys \subseteq T, NEW ls \in Seq(Seq(T)), NEW es, NEW g, NEW b, NEW h,
         RoomIn(es), Reaches(T, ls, Ready(es, g, b, h)),
         NEW k \in Keys, NEW s \in Seq(T), StaysOpen(s), NEW line, line = Opening(k, s)
  PROVE  Reaches(T, Append(ls, line), Inside(es, g, b, line))
<1>1. {"=", "\""} \subseteq T /\ k \in T
  BY DEF Marks
<1>2. line \in Seq(T) /\ line # << >> /\ line[1] = k
  BY <1>1, OpeningParts
<1>3. ASSUME NEW L, NEW i, L[i] = line
      PROVE  ParseLine(L, Ready(es, g, b, h), i) = Inside(es, g, b, line)
  <2>1. /\ k \in Keys /\ s \in Seq(T) /\ StaysOpen(s) /\ line \in Seq(T) /\ line # << >>
        /\ line[1] = k /\ line = Opening(k, s) /\ L[i] = line /\ RoomIn(es)
    BY <1>2, <1>3
  <2>2. Marks \cup Keys \subseteq T
    OBVIOUS
  <2> QED
    BY ONLY <2>1, <2>2, LineOpens
<1> QED
  BY <1>2, <1>3, ReachesLine

\* After a further line the parser is inside the quote still.
LEMMA ReachesHeld ==
  ASSUME NEW T, NEW ls \in Seq(Seq(T)), NEW es, NEW g, NEW b, NEW h,
         Reaches(T, ls, Inside(es, g, b, h)), NEW s \in Seq(T), StaysOpen(s)
  PROVE  Reaches(T, Append(ls, s), Inside(es, g, b, Joined(h, s)))
<1>1. ASSUME NEW L \in Seq(Seq(T)), NEW i \in Nat, L[i] = s
      PROVE  ParseLine(L, Inside(es, g, b, h), i) = Inside(es, g, b, Joined(h, s))
  BY <1>1, LineHolds
<1> QED
  BY <1>1, ReachesLine

\* After the last line of a value the parser has the entry.
LEMMA ReachesEnded ==
  ASSUME NEW T, NEW ls \in Seq(Seq(T)), NEW es, NEW g, NEW b, NEW h,
         Reaches(T, ls, Inside(es, g, b, h)), NEW s \in Seq(T), IsClosed(s),
         NEW k \in Keys, NEW v, Absent(es, k), ParseAssignment(Joined(h, s)) = Parsed(k, v)
  PROVE  Reaches(T, Append(ls, s), Added(es, g, h, k, v))
<1>1. ASSUME NEW L \in Seq(Seq(T)), NEW i \in Nat, L[i] = s
      PROVE  ParseLine(L, Inside(es, g, b, h), i) = Added(es, g, h, k, v)
  BY <1>1, LineEnds
<1> QED
  BY <1>1, ReachesLine

\* After an assignment on one line the parser has the entry.
LEMMA ReachesWhole ==
  ASSUME NEW T, NEW ls \in Seq(Seq(T)), NEW es, NEW g, NEW b, NEW h, RoomIn(es),
         Reaches(T, ls, Ready(es, g, b, h)), NEW k \in Keys, NEW v, Absent(es, k),
         NEW line \in Seq(T), line # << >>, line[1] = k, Complete(line),
         ParseAssignment(line) = Parsed(k, v)
  PROVE  Reaches(T, Append(ls, line), Added(es, g, h, k, v))
<1>1. ASSUME NEW L, NEW i, L[i] = line
      PROVE  ParseLine(L, Ready(es, g, b, h), i) = Added(es, g, h, k, v)
  <2>1. /\ k \in Keys /\ line \in Seq(T) /\ line # << >> /\ line[1] = k /\ Complete(line)
        /\ ParseAssignment(line) = Parsed(k, v) /\ L[i] = line /\ RoomIn(es) /\ Absent(es, k)
    BY <1>1
  <2> QED
    BY <2>1, LineWhole
<1> QED
  BY <1>1, ReachesLine

\* Writing a newline of the value ends a line, which the parser holds.
LEMMA WritingNewline ==
  ASSUME NEW T, Marks \cup Keys \subseteq T, NEW base \in Seq(T), NEW es, NEW g, NEW b, NEW h,
         RoomIn(es), NEW k \in Keys, NEW p \in Seq(T), Writing(T, base, es, g, b, h, k, p)
  PROVE  Writing(T, base, es, g, b, h, k, Append(p, "\n"))
<1> PICK U, c, w, s, s1 : /\ U = T \ {"\r"} /\ c = "\n" /\ w = <<c>>
                          /\ s = Esc(p) /\ s1 = Esc(Append(p, c))
  OBVIOUS
<1>1. Marks \subseteq T /\ {"=", "\"", "\n"} \subseteq T /\ k \in T /\ c \in T
  BY DEF Marks
<1>2. w \in Seq(T)
  <2>1. c \in T /\ w = <<c>>
    BY <1>1
  <2> QED
    BY ONLY <2>1
<1>3. s \in Seq(T) /\ s1 = s \o w
  <2>1. Escape(c) = w
    BY <1>1, EscapeCases
  <2> QED
    BY <1>1, <2>1, EscapedSeq, EscapeFold
<1>4. PICK o : o = Opening(k, s)
  OBVIOUS
<1>5. o \in Seq(T) /\ o \o w = Opening(k, s1)
  <2>1. Marks \subseteq T /\ k \in T /\ s \in Seq(T) /\ w \in Seq(T)
    BY <1>1, <1>2, <1>3
  <2>2. Then(Opening(k, s), w) = Opening(k, Then(s, w))
    BY ONLY <2>1, OpeningGrows
  <2>3. Opening(k, s) \in Seq(T)
    BY ONLY <2>1, OpeningIsSeq
  <2> QED
    BY <1>3, <1>4, <2>2, <2>3 DEF Then
<1>6. PICK ls, cur : /\ ls \in Seq(Seq(T)) /\ cur \in Seq(U)
                     /\ SplitInto(base \o o, ls, cur) /\ Progress(T, es, g, b, h, k, p, ls, cur)
  BY <1>4 DEF Writing
<1>7. cur \in Seq(T) /\ base \o o \in Seq(T)
  BY <1>5, <1>6, SeqWithout, ConcatProperties
<1>8. SplitInto(base \o Opening(k, s1), Append(ls, cur), << >>)
  <2>1. w = <<"\n">> /\ "\n" \in T
    BY <1>1
  <2>2. SplitInto((base \o o) \o w, Append(ls, cur), << >>)
    BY <1>6, <1>7, <2>1, SplitNewline
  <2>3. (base \o o) \o w = base \o (o \o w)
    <3>1. base \in Seq(T) /\ o \in Seq(T) /\ w \in Seq(T)
      BY <1>2, <1>5
    <3> QED
      BY ONLY <3>1, ConcatConcat
  <2> QED
    BY <1>5, <2>2, <2>3
<1>9. \E held \in Seq(T) : /\ Reaches(T, Append(ls, cur), Inside(es, g, b, held))
                           /\ Joined(held, << >>) = Opening(k, s1)
  <2>1. CASE cur = o /\ Reaches(T, ls, Ready(es, g, b, h))
    <3>1. StaysOpen(s)
      <4>1. s = Esc(p) /\ Scan(Open, Esc(p)) = Open
        BY <1>1, ScanEscaped
      <4>2. Open.closed = FALSE
        BY DEF Open
      <4> QED
        BY <4>1, <4>2 DEF StaysOpen
    <3>2. Reaches(T, Append(ls, o), Inside(es, g, b, o))
      BY <1>3, <1>4, <1>6, <2>1, <3>1, ReachesOpened
    <3>3. Joined(o, << >>) = o \o w
      <4>1. Marks \subseteq T /\ o \in Seq(T) /\ w = <<"\n">>
        BY <1>1, <1>5
      <4>2. Joined(o, << >>) = Then(o, w)
        BY ONLY <4>1, JoinedNothing
      <4> QED
        BY <4>2 DEF Then
    <3> QED
      BY <1>5, <2>1, <3>2, <3>3
  <2>2. CASE \E held \in Seq(T) : /\ Reaches(T, ls, Inside(es, g, b, held))
                                  /\ Scan(Open, cur) = Open
                                  /\ Joined(held, cur) = o
    <3>1. PICK held \in Seq(T) : /\ Reaches(T, ls, Inside(es, g, b, held))
                                 /\ Scan(Open, cur) = Open
                                 /\ Joined(held, cur) = o
      BY <2>2
    <3>2. StaysOpen(cur)
      <4>1. Open.closed = FALSE
        BY DEF Open
      <4> QED
        BY <3>1, <4>1 DEF StaysOpen
    <3>3. Reaches(T, Append(ls, cur), Inside(es, g, b, o))
      BY <1>6, <1>7, <3>1, <3>2, ReachesHeld
    <3>4. Joined(o, << >>) = o \o w
      <4>1. Marks \subseteq T /\ o \in Seq(T) /\ w = <<"\n">>
        BY <1>1, <1>5
      <4>2. Joined(o, << >>) = Then(o, w)
        BY ONLY <4>1, JoinedNothing
      <4> QED
        BY <4>2 DEF Then
    <3> QED
      BY <1>5, <3>3, <3>4
  <2> QED
    BY <1>4, <1>6, <2>1, <2>2 DEF Progress
<1>10. Progress(T, es, g, b, h, k, Append(p, c), Append(ls, cur), << >>)
  BY <1>9, ScanEmpty DEF Progress
<1>11. Append(ls, cur) \in Seq(Seq(T)) /\ << >> \in Seq(U)
  <2>1. PICK Q : Q = Seq(T)
    OBVIOUS
  <2>2. Append(ls, cur) \in Seq(Q)
    BY <1>6, <1>7, <2>1
  <2> QED
    BY <2>1, <2>2
<1>12. Writing(T, base, es, g, b, h, k, Append(p, c))
  BY <1>8, <1>10, <1>11 DEF Writing
<1> QED
  BY <1>12

--------------------------------------------------------------------------------
(* Entries and groups of a text.                                                *)

\* A value of any length, with any line breaks, is split and held up to its closing quote.
LEMMA ValueWritten ==
  ASSUME NEW T, Marks \cup Keys \subseteq T, NEW base \in Seq(T), NEW ls \in Seq(Seq(T)),
         SplitInto(base, ls, << >>), NEW k \in Keys, NEW es, NEW g, NEW b, NEW h, RoomIn(es),
         Reaches(T, ls, Ready(es, g, b, h)), NEW v \in Seq(T)
  PROVE  Writing(T, base, es, g, b, h, k, v)
<1> DEFINE Good == {p \in Seq(T) : Writing(T, base, es, g, b, h, k, p)}
<1>1. << >> \in Good
  <2>1. Writing(T, base, es, g, b, h, k, << >>)
    BY WritingStarts
  <2>2. << >> \in Seq(T)
    OBVIOUS
  <2> QED
    BY <2>1, <2>2
<1>2. ASSUME NEW p \in Good, NEW c \in T PROVE Append(p, c) \in Good
  <2>1. p \in Seq(T) /\ Writing(T, base, es, g, b, h, k, p)
    OBVIOUS
  <2>2. CASE c = "\n"
    <3>1. Writing(T, base, es, g, b, h, k, Append(p, "\n"))
      BY <2>1, WritingNewline
    <3> QED
      BY <2>1, <2>2, <3>1
  <2>3. CASE c # "\n"
    <3>1. Writing(T, base, es, g, b, h, k, Append(p, c))
      BY <2>1, <2>3, WritingWord
    <3> QED
      BY <2>1, <3>1
  <2> QED
    BY <2>2, <2>3
<1> HIDE DEF Good
<1>3. Good = Seq(T)
  <2>1. Good \in SUBSET Seq(T)
    BY DEF Good
  <2> QED
    BY <2>1, <1>1, <1>2, SeqInduction
<1> QED
  BY <1>3 DEF Good

\* The text ends with a line, and has been read as the entries es, the last heading being g.
ReadSoFar(T, text, es, g) ==
  \E ls, b, h : /\ ls \in Seq(Seq(T)) /\ SplitInto(text, ls, << >>)
                /\ Reaches(T, ls, Ready(es, g, b, h))

\* A newline is a text.
LEMMA NewlineSeq ==
  ASSUME NEW T, Marks \subseteq T, NEW nl, nl = <<"\n">>
  PROVE  nl \in Seq(T)
<1>1. PICK e : e = "\n"
  OBVIOUS
<1>2. e \in T
  BY <1>1 DEF Marks
<1>3. nl = <<e>>
  BY <1>1
<1> QED
  BY ONLY <1>2, <1>3

\* A whole line has been split off, and the parser is ready after it.
LEMMA LineRead ==
  ASSUME NEW T, Marks \subseteq T, NEW text \in Seq(T), NEW ls, ls \in Seq(Seq(T)),
         NEW cur, cur \in Seq(T \ {"\r"}), SplitInto(text, ls, cur), NEW nl, nl = <<"\n">>,
         NEW es, NEW g, NEW b, NEW h, Reaches(T, Append(ls, cur), Ready(es, g, b, h))
  PROVE  ReadSoFar(T, text \o nl, es, g)
<1>1. "\n" \in T
  BY DEF Marks
<1>2. SplitInto(text \o nl, Append(ls, cur), << >>)
  BY <1>1, SplitNewline
<1>3. Append(ls, cur) \in Seq(Seq(T))
  <2>1. PICK Q : Q = Seq(T)
    OBVIOUS
  <2>2. cur \in Q /\ ls \in Seq(Q)
    BY <2>1, SeqWithout
  <2>3. Append(ls, cur) \in Seq(Q)
    BY <2>2
  <2> QED
    BY <2>1, <2>3
<1> QED
  BY <1>2, <1>3 DEF ReadSoFar

\* The quote that ends a value.
ClosingQuote == <<"\"">>

\* A quote closes what was open.
LEMMA QuoteEnds ==
  ASSUME NEW T, Marks \subseteq T, NEW s \in Seq(T), Scan(Open, s) = Open,
         NEW w, w = ClosingQuote
  PROVE  IsClosed(s \o w)
<1>1. PICK q : q = "\""
  OBVIOUS
<1>2. q \in T /\ w = <<q>>
  BY <1>1 DEF Marks, ClosingQuote
<1>3. s \o w = Append(s, q)
  BY ONLY s \in Seq(T), <1>2, ConcatOne
<1>4. Scan(Open, Append(s, "\"")) = [Open EXCEPT !.closed = TRUE]
  BY ScanQuote
<1>5. PICK o : o = [Open EXCEPT !.closed = TRUE]
  OBVIOUS
<1>6. o.closed = TRUE
  BY <1>5 DEF Open
<1> QED
  BY <1>1, <1>3, <1>4, <1>5, <1>6 DEF IsClosed

\* The assignment that render writes for an entry.
AssignmentLine(k, v) == <<k, "=">> \o RenderValue(v)

\* The line k=<value> for a value that is written between quotes.
LEMMA QuotedLine ==
  ASSUME NEW T, Marks \cup Keys \subseteq T, NEW k \in Keys, NEW v \in Seq(T),
         RenderValue(v) = Quoted(v), NEW w, w = ClosingQuote, NEW line, line = AssignmentLine(k, v)
  PROVE  /\ w \in Seq(T) /\ Then(Opening(k, Esc(v)), w) = line
         /\ line \in Seq(T) /\ line # << >> /\ line[1] = k /\ Complete(line)
<1>1. PICK q, s : q = "\"" /\ s = Esc(v)
  OBVIOUS
<1>2. Marks \subseteq T /\ k \in T /\ q \in T /\ w = <<q>>
  BY <1>1 DEF Marks, ClosingQuote
<1>3. s \in Seq(T) /\ Scan(Open, s) = Open
  BY <1>1, <1>2, EscapedSeq, ScanEscaped
<1>4. w \in Seq(T)
  BY ONLY <1>2
<1>5. s \o w = Append(s, q)
  BY ONLY <1>2, <1>3, ConcatOne
<1>6. PICK t : t = s \o w
  OBVIOUS
<1>7. t \in Seq(T)
  BY <1>3, <1>4, <1>6, ConcatProperties
<1>8. line = Opening(k, t)
  BY <1>1, <1>5, <1>6 DEF Quoted, Opening, AssignmentLine
<1>9. Then(Opening(k, s), w) = Opening(k, Then(s, w))
  <2>1. Marks \subseteq T /\ k \in T /\ s \in Seq(T) /\ w \in Seq(T)
    BY <1>2, <1>3, <1>4
  <2> QED
    BY ONLY <2>1, OpeningGrows
<1>10. IsClosed(t)
  BY <1>2, <1>3, <1>6, QuoteEnds
<1>11. Complete(Opening(k, t))
  BY <1>7, <1>10, QuoteLeft
<1>12. Opening(k, t) \in Seq(T) /\ Opening(k, t) # << >> /\ Opening(k, t)[1] = k
  <2>1. {"=", "\""} \subseteq T
    BY DEF Marks
  <2> QED
    BY <2>1, <1>2, <1>7, OpeningParts
<1> QED
  BY <1>1, <1>4, <1>6, <1>8, <1>9, <1>11, <1>12 DEF Then

\* The entry k=<value> is read from the text base \o k=<value>\n.
LEMMA QuotedEntry ==
  ASSUME NEW T, Marks \cup Keys \subseteq T, NEW base \in Seq(T), NEW es, NEW g, NEW nl,
         nl = <<"\n">>, ReadSoFar(T, base, es, g), RoomIn(es), NEW k \in Keys, Absent(es, k),
         NEW v \in Seq(T), RenderValue(v) = Quoted(v), NEW line, line = AssignmentLine(k, v)
  PROVE  ReadSoFar(T, (base \o line) \o nl, Append(es, Entry(k, v, g)), g)
<1>1. PICK w : w = ClosingQuote
  OBVIOUS
<1>2. PICK o, U : o = Opening(k, Esc(v)) /\ U = T \ {"\r"}
  OBVIOUS
<1>3. PICK ls0, b, h : /\ ls0 \in Seq(Seq(T)) /\ SplitInto(base, ls0, << >>)
                       /\ Reaches(T, ls0, Ready(es, g, b, h))
  BY DEF ReadSoFar
<1>4. Writing(T, base, es, g, b, h, k, v)
  BY <1>3, ValueWritten
<1>5. PICK ls, cur : /\ ls \in Seq(Seq(T)) /\ cur \in Seq(U)
                     /\ SplitInto(base \o o, ls, cur) /\ Progress(T, es, g, b, h, k, v, ls, cur)
  BY <1>2, <1>4 DEF Writing
<1>6. /\ w \in Seq(T) /\ o \o w = line
      /\ line \in Seq(T) /\ line # << >> /\ line[1] = k /\ Complete(line)
  <2>1. /\ Marks \cup Keys \subseteq T /\ k \in Keys /\ v \in Seq(T) /\ RenderValue(v) = Quoted(v)
        /\ w = ClosingQuote /\ line = AssignmentLine(k, v)
    BY <1>1
  <2>2. w \in Seq(T) /\ line \in Seq(T) /\ line # << >> /\ line[1] = k /\ Complete(line)
    BY ONLY <2>1, QuotedLine
  <2>3. Then(Opening(k, Esc(v)), w) = line
    BY ONLY <2>1, QuotedLine
  <2> QED
    BY <1>2, <2>2, <2>3 DEF Then
<1>7. Marks \subseteq T /\ o \in Seq(T)
  <2>1. Marks \subseteq T /\ k \in T /\ Esc(v) \in Seq(T)
    BY EscapedSeq
  <2>2. Opening(k, Esc(v)) \in Seq(T)
    BY ONLY <2>1, OpeningIsSeq
  <2> QED
    BY <1>2, <2>1, <2>2
<1>8. w \in Seq(U) /\ w \in Seq(T \ {"\n"})
  <2>1. PICK q : q = "\""
    OBVIOUS
  <2>2. q \in U /\ q \in T \ {"\n"} /\ w = <<q>>
    BY <1>1, <1>2, <2>1 DEF Marks, ClosingQuote
  <2> QED
    BY ONLY <2>2
<1>9. PICK last : last = cur \o w
  OBVIOUS
<1>10. last \in Seq(U) /\ cur \in Seq(T) /\ base \o o \in Seq(T)
  <2>1. last \in Seq(U)
    BY <1>5, <1>8, <1>9, ConcatProperties
  <2>2. cur \in Seq(T)
    BY <1>2, <1>5, SeqWithout
  <2>3. base \o o \in Seq(T)
    BY <1>7, ConcatProperties
  <2> QED
    BY <2>1, <2>2, <2>3
<1>11. SplitInto(base \o line, ls, last)
  <2>1. SplitInto((base \o o) \o w, ls, cur \o w)
    BY <1>5, <1>8, <1>10, SplitWord
  <2>2. (base \o o) \o w = base \o (o \o w)
    <3>1. base \in Seq(T) /\ o \in Seq(T) /\ w \in Seq(T)
      BY <1>6, <1>7
    <3> QED
      BY ONLY <3>1, ConcatConcat
  <2> QED
    BY <1>6, <1>9, <2>1, <2>2
<1>12. ParseAssignment(line) = Parsed(k, v)
  BY AssignmentsReadBack DEF Parsed, AssignmentLine
<1>13. \E x : Reaches(T, Append(ls, last), Added(es, g, x, k, v))
  <2>1. CASE cur = o /\ Reaches(T, ls, Ready(es, g, b, h))
    <3>1. last = line
      BY <1>6, <1>9, <2>1
    <3>2. Reaches(T, Append(ls, line), Added(es, g, h, k, v))
      <4>1. /\ ls \in Seq(Seq(T)) /\ RoomIn(es) /\ Reaches(T, ls, Ready(es, g, b, h))
            /\ k \in Keys /\ Absent(es, k) /\ line \in Seq(T) /\ line # << >> /\ line[1] = k
            /\ Complete(line) /\ ParseAssignment(line) = Parsed(k, v)
        BY <1>5, <1>6, <1>12, <2>1
      <4> QED
        BY ONLY <4>1, ReachesWhole
    <3> QED
      BY <3>1, <3>2
  <2>2. CASE \E held \in Seq(T) : /\ Reaches(T, ls, Inside(es, g, b, held))
                                  /\ Scan(Open, cur) = Open
                                  /\ Joined(held, cur) = o
    <3>1. PICK held : /\ held \in Seq(T) /\ Reaches(T, ls, Inside(es, g, b, held))
                      /\ Scan(Open, cur) = Open /\ Joined(held, cur) = o
      BY <2>2
    <3>2. IsClosed(last)
      BY <1>1, <1>7, <1>9, <1>10, <3>1, QuoteEnds
    <3>3. Joined(held, last) = line
      <4>1. Marks \subseteq T /\ held \in Seq(T) /\ cur \in Seq(T) /\ w \in Seq(T)
        BY <1>6, <1>7, <1>10, <3>1
      <4>2. Then(Joined(held, cur), w) = Joined(held, Then(cur, w))
        BY ONLY <4>1, JoinedGrows
      <4> QED
        BY <1>6, <1>9, <3>1, <4>2 DEF Then
    <3>4. last \in Seq(T)
      BY <1>2, <1>10, SeqWithout
    <3>5. ParseAssignment(Joined(held, last)) = Parsed(k, v)
      BY <1>12, <3>3
    <3> QED
      <4>1. /\ ls \in Seq(Seq(T)) /\ Reaches(T, ls, Inside(es, g, b, held)) /\ last \in Seq(T)
            /\ k \in Keys /\ IsClosed(last) /\ Absent(es, k)
            /\ ParseAssignment(Joined(held, last)) = Parsed(k, v)
        BY <1>5, <3>1, <3>2, <3>4, <3>5
      <4>2. Reaches(T, Append(ls, last), Added(es, g, held, k, v))
        BY ONLY <4>1, ReachesEnded
      <4> QED
        BY <4>2
  <2> QED
    BY <1>2, <1>5, <2>1, <2>2 DEF Progress
<1>14. PICK x : Reaches(T, Append(ls, last), Ready(Append(es, Entry(k, v, g)), g, FALSE, x))
  BY <1>13 DEF Added, Within
<1>15. base \o line \in Seq(T)
  BY <1>6, ConcatProperties
<1> QED
  BY <1>2, <1>5, <1>7, <1>10, <1>11, <1>14, <1>15, LineRead

\* The line k=<value> for a value that is written as it is.
LEMMA PlainLine ==
  ASSUME NEW T, Marks \cup Keys \subseteq T, NEW k \in Keys, NEW v \in Seq(T),
         ToSet(v) \subseteq SafeLetters, NEW line, line = <<k, "=">> \o v
  PROVE  line \in Seq(T \ {"\n"}) /\ line \in Seq(T \ {"\r"}) /\ Complete(line)
<1>1. PICK U : U = (T \ {"\n"}) \ {"\r"}
  OBVIOUS
<1>2. v \in Seq(U)
  <2>1. \A i \in 1..Len(v) : v[i] \in SafeLetters
    BY DEF ToSet
  <2>2. SafeLetters \cap {"\n", "\r"} = {}
    BY SafeTokens DEF White
  <2>3. \A i \in 1..Len(v) : v[i] \in U
    BY <1>1, <2>1, <2>2
  <2> QED
    BY <2>3
<1>3. PICK e, a : e = "=" /\ a = <<k, e>>
  OBVIOUS
<1>4. a \in Seq(U)
  <2>1. k \in U /\ e \in U /\ a = <<k, e>>
    BY <1>1, <1>3, DotenvAssumption DEF Marks, White
  <2> QED
    BY ONLY <2>1
<1>5. line \in Seq(U)
  <2>1. line = a \o v
    BY <1>3
  <2> QED
    BY ONLY <1>2, <1>4, <2>1, ConcatProperties
<1>6. line \in Seq(T \ {"\n"}) /\ line \in Seq(T \ {"\r"})
  <2>1. \A s \in Seq(U) : s \in Seq(T \ {"\n"}) /\ s \in Seq(T \ {"\r"})
    BY <1>1
  <2> QED
    BY <1>5, <2>1
<1>7. Unclosed(TrimStart(v)) = ""
  <2>1. CASE v = << >>
    <3>1. TrimStart(<< >>) = << >>
      BY DEF TrimStart, Between
    <3> QED
      BY <2>1, <3>1 DEF Unclosed, StartsWith
  <2>2. CASE v # << >>
    <3>1. v[1] \in SafeLetters
      <4>1. 1 \in 1..Len(v)
        BY <2>2
      <4> QED
        BY <4>1 DEF ToSet
    <3>2. v[1] \notin White /\ v[1] \notin Quotes
      BY <3>1, SafeTokens
    <3>3. TrimStart(v) = v
      BY <2>2, <3>2, TrimStartWhole
    <3> QED
      BY <3>2, <3>3 DEF Unclosed, StartsWith
  <2> QED
    BY <2>1, <2>2
<1>8. Marks \subseteq T /\ k \in T
  OBVIOUS
<1>9. PICK r : r = [ok |-> TRUE, key |-> k, raw |-> v]
  OBVIOUS
<1>10. Assignment(line) = r
  BY <1>8, <1>9, AssignmentRead
<1>11. OpenQuoteOf(r) = ""
  BY <1>7, <1>9 DEF OpenQuoteOf
<1> QED
  BY <1>6, <1>10, <1>11 DEF Complete, OpenQuote

\* The assignment of a safe value, on a line of its own, adds its entry.
LEMMA PlainEntry ==
  ASSUME NEW T, Marks \cup Keys \subseteq T, NEW base \in Seq(T), NEW es, NEW g, NEW nl,
         nl = <<"\n">>, ReadSoFar(T, base, es, g), RoomIn(es), NEW k \in Keys, Absent(es, k),
         NEW v \in Seq(T), ToSet(v) \subseteq SafeLetters, RenderValue(v) = v,
         NEW line, line = AssignmentLine(k, v)
  PROVE  line \in Seq(T) /\ ReadSoFar(T, (base \o line) \o nl, Append(es, Entry(k, v, g)), g)
<1>1. PICK ls, b, h : /\ ls \in Seq(Seq(T)) /\ SplitInto(base, ls, << >>)
                      /\ Reaches(T, ls, Ready(es, g, b, h))
  BY DEF ReadSoFar
<1>2. line = <<k, "=">> \o v
  BY DEF AssignmentLine
<1>3. line \in Seq(T \ {"\n"}) /\ line \in Seq(T \ {"\r"}) /\ Complete(line)
  BY <1>2, PlainLine
<1>4. line \in Seq(T) /\ line # << >> /\ line[1] = k
  <2>1. PICK e : e = "="
    OBVIOUS
  <2>2. k \in T /\ e \in T /\ v \in Seq(T) /\ line = <<k, e>> \o v
    BY <1>2, <2>1 DEF Marks
  <2> QED
    BY ONLY <2>2, AssignmentSeq
<1>5. SplitInto(base \o line, ls, line)
  <2>1. << >> \in Seq(T)
    OBVIOUS
  <2>2. SplitInto(base \o line, ls, << >> \o line)
    BY <1>1, <1>3, <2>1, SplitWord
  <2>3. << >> \o line = line
    BY <1>4, ConcatEmptySeq
  <2> QED
    BY <2>2, <2>3
<1>6. Reaches(T, Append(ls, line), Added(es, g, h, k, v))
  <2>1. ParseAssignment(line) = Parsed(k, v)
    BY AssignmentsReadBack DEF Parsed, AssignmentLine
  <2>2. /\ ls \in Seq(Seq(T)) /\ RoomIn(es) /\ Reaches(T, ls, Ready(es, g, b, h))
        /\ k \in Keys /\ Absent(es, k) /\ line \in Seq(T) /\ line # << >> /\ line[1] = k
        /\ Complete(line) /\ ParseAssignment(line) = Parsed(k, v)
    BY <1>1, <1>3, <1>4, <2>1
  <2> QED
    BY ONLY <2>2, ReachesWhole
<1>7. Reaches(T, Append(ls, line), Ready(Append(es, Entry(k, v, g)), g, FALSE, h))
  BY <1>6 DEF Added, Within
<1>8. base \o line \in Seq(T)
  BY <1>4, ConcatProperties
<1>9. Marks \subseteq T
  OBVIOUS
<1> QED
  BY <1>1, <1>3, <1>4, <1>5, <1>7, <1>8, <1>9, LineRead

\* An assignment line adds its entry to what has been read.
LEMMA EntryRead ==
  ASSUME NEW T, Marks \cup Keys \subseteq T, NEW base \in Seq(T), NEW es, NEW g, NEW nl,
         nl = <<"\n">>, ReadSoFar(T, base, es, g), RoomIn(es), NEW k \in Keys, Absent(es, k),
         NEW v \in Seq(T), NEW line, line = AssignmentLine(k, v)
  PROVE  line \in Seq(T) /\ ReadSoFar(T, (base \o line) \o nl, Append(es, Entry(k, v, g)), g)
<1>1. CASE RenderValue(v) = Quoted(v)
  <2>1. ReadSoFar(T, (base \o line) \o nl, Append(es, Entry(k, v, g)), g)
    BY <1>1, QuotedEntry
  <2>2. line \in Seq(T)
    <3>1. PICK w : w = ClosingQuote
      OBVIOUS
    <3> QED
      BY <1>1, <3>1, QuotedLine
  <2> QED
    BY <2>1, <2>2
<1>2. CASE ToSet(v) \subseteq SafeLetters /\ RenderValue(v) = v
  BY <1>2, PlainEntry
<1>3. Marks \subseteq T
  OBVIOUS
<1> QED
  BY <1>1, <1>2, <1>3, RenderValueCases

\* An empty line changes neither the entries nor the group.
LEMMA BlankRead ==
  ASSUME NEW T, Marks \subseteq T, NEW base \in Seq(T), NEW es, NEW g, NEW nl, nl = <<"\n">>,
         ReadSoFar(T, base, es, g)
  PROVE  ReadSoFar(T, base \o nl, es, g)
<1>1. PICK ls, b, h : /\ ls \in Seq(Seq(T)) /\ SplitInto(base, ls, << >>)
                      /\ Reaches(T, ls, Ready(es, g, b, h))
  BY DEF ReadSoFar
<1>2. PICK e : e = << >>
  OBVIOUS
<1>3. e \in Seq(T) /\ e \in Seq(T \ {"\r"})
  BY <1>2
<1>4. ASSUME NEW L, NEW i, L[i] = e
      PROVE  ParseLine(L, Ready(es, g, b, h), i) = AfterBlank(es, g, h)
  BY <1>2, <1>4, LineBlank
<1>5. Reaches(T, Append(ls, e), AfterBlank(es, g, h))
  BY <1>1, <1>3, <1>4, ReachesLine
<1>6. Reaches(T, Append(ls, e), Ready(es, g, TRUE, h))
  BY <1>5 DEF AfterBlank
<1> QED
  BY <1>1, <1>2, <1>3, <1>6, LineRead

\* A heading line ends in a bracket, and is one line when the name is.
LEMMA HeadingTokens ==
  ASSUME NEW T, Marks \subseteq T, NEW name \in Seq(T), NEW line, line = HeadingLine(name)
  PROVE  /\ line \in Seq(T) /\ line # << >> /\ line[Len(line)] = "]"
         /\ name \in Seq(T \ {"\n"}) => line \in Seq(T \ {"\n"})
<1>1. PICK x, s, o, e : x = "#" /\ s = " " /\ o = "[" /\ e = "]"
  OBVIOUS
<1>2. PICK U : U = T \ {"\n"}
  OBVIOUS
<1>3. line = <<x, s, o>> \o name \o <<e>>
  BY <1>1 DEF HeadingLine
<1>4. x \in U /\ s \in U /\ o \in U /\ e \in U /\ x \in T /\ s \in T /\ o \in T /\ e \in T
  BY <1>1, <1>2 DEF Marks
<1>5. PICK n : n = Len(name)
  OBVIOUS
<1>6. line \in Seq(T) /\ Len(line) = n + 4 /\ line[n + 4] = e
  BY ONLY name \in Seq(T), <1>3, <1>4, <1>5, HeadingParts
<1>7. name \in Seq(U) => line \in Seq(U)
  BY ONLY <1>3, <1>4, <1>5, HeadingParts
<1>8. n \in Nat
  BY <1>5
<1>9. line # << >>
  BY <1>6, <1>8
<1> QED
  BY <1>1, <1>2, <1>6, <1>7, <1>9

\* A heading starts a group.
LEMMA GroupRead ==
  ASSUME NEW T, Marks \subseteq T, NEW base \in Seq(T), NEW es, NEW g, NEW nl, nl = <<"\n">>,
         ReadSoFar(T, base, es, g), NEW name, name \in Seq(T \ {"\n"}), name # << >>,
         NormalizeGroupName(name) = name, NEW line, line = HeadingLine(name)
  PROVE  line \in Seq(T) /\ ReadSoFar(T, (base \o line) \o nl, es, name)
<1>1. PICK ls, b, h : /\ ls \in Seq(Seq(T)) /\ SplitInto(base, ls, << >>)
                      /\ Reaches(T, ls, Ready(es, g, b, h))
  BY DEF ReadSoFar
<1>2. name \in Seq(T)
  BY SeqWithout
<1>3. /\ line \in Seq(T) /\ line # << >> /\ line[Len(line)] = "]" /\ line \in Seq(T \ {"\n"})
  BY <1>2, HeadingTokens
<1>4. SplitInto(base \o line, ls, line)
  <2>1. << >> \in Seq(T)
    OBVIOUS
  <2>2. SplitInto(base \o line, ls, << >> \o line)
    BY <1>1, <1>3, <2>1, SplitWord
  <2>3. << >> \o line = line
    BY <1>3, ConcatEmptySeq
  <2> QED
    BY <2>2, <2>3
<1>5. base \o line \in Seq(T)
  BY <1>3, ConcatProperties
<1>6. SplitInto((base \o line) \o nl, Append(ls, line), << >>)
  <2>1. PICK c : c = "\n"
    OBVIOUS
  <2>2. c \in T /\ nl = <<c>>
    BY <2>1 DEF Marks
  <2>3. SplitInto(Append(base \o line, c), Append(ls, Chomp(line)), << >>)
    BY <1>4, <1>5, <2>1, <2>2, SplitChar
  <2>4. (base \o line) \o nl = Append(base \o line, c)
    BY ONLY <1>5, <2>2, ConcatOne
  <2>5. Chomp(line) = line
    BY <1>3 DEF Chomp, EndsWith
  <2> QED
    BY <2>3, <2>4, <2>5
<1>7. ASSUME NEW L, NEW i, L[i] = line
      PROVE  ParseLine(L, Ready(es, g, b, h), i) = Within(es, name, h)
  BY <1>2, <1>7, LineHeading
<1>8. Reaches(T, Append(ls, line), Within(es, name, h))
  BY <1>1, <1>3, <1>7, ReachesLine
<1>9. Reaches(T, Append(ls, line), Ready(es, name, FALSE, h))
  BY <1>8 DEF Within
<1>10. Append(ls, line) \in Seq(Seq(T))
  <2>1. PICK Q : Q = Seq(T)
    OBVIOUS
  <2>2. Append(ls, line) \in Seq(Q)
    BY <1>1, <1>3, <2>1
  <2> QED
    BY <2>1, <2>2
<1> QED
  BY <1>3, <1>6, <1>9, <1>10 DEF ReadSoFar

--------------------------------------------------------------------------------
(* The text of an entry.                                                        *)

\* The end of a line.
Newline == <<"\n">>

\* What precedes the heading of the entry at position i.
Blank(i) == IF i = 1 THEN << >> ELSE Newline

\* The concatenation of two texts is a text.
LEMMA ConcatSeq ==
  ASSUME NEW T, NEW x \in Seq(T), NEW y \in Seq(T) PROVE x \o y \in Seq(T)
BY ConcatProperties

\* The concatenation of two texts is a text.
LEMMA ThenSeq ==
  ASSUME NEW T, NEW x \in Seq(T), NEW y \in Seq(T) PROVE Then(x, y) \in Seq(T)
BY ConcatProperties DEF Then

\* Concatenation is associative.
LEMMA ThenThen ==
  ASSUME NEW T, NEW x \in Seq(T), NEW y \in Seq(T), NEW z \in Seq(T)
  PROVE  Then(Then(x, y), z) = Then(x, Then(y, z))
BY ConcatConcat DEF Then

\* Five texts in a row, grouped as a heading is built and as it is read.
LEMMA ThenFive ==
  ASSUME NEW T, NEW x \in Seq(T), NEW a \in Seq(T), NEW n \in Seq(T), NEW c \in Seq(T),
         NEW d \in Seq(T)
  PROVE  Then(Then(Then(x, a), n), Then(c, d)) = Then(Then(x, Then(Then(a, n), c)), d)
<1>1. /\ Then(a, n) \in Seq(T) /\ Then(x, Then(a, n)) \in Seq(T)
  BY ThenSeq
<1>2. Then(Then(x, a), n) = Then(x, Then(a, n))
  BY ThenThen
<1>3. PICK an, xan : an = Then(a, n) /\ xan = Then(x, an)
  OBVIOUS
<1>4. Then(Then(xan, c), d) = Then(xan, Then(c, d))
  BY <1>1, <1>3, ThenThen
<1>5. Then(Then(x, an), c) = Then(x, Then(an, c))
  BY <1>1, <1>3, ThenThen
<1> QED
  BY <1>2, <1>3, <1>4, <1>5

\* What precedes the name in a heading.
HeadingStart == <<"#", " ", "[">>

\* What follows the name in a heading.
HeadingEnd == <<"]">>

\* The parts of a heading are texts.
LEMMA HeadingMarks ==
  ASSUME NEW T, Marks \subseteq T
  PROVE  /\ HeadingStart \in Seq(T) /\ HeadingEnd \in Seq(T) /\ Newline \in Seq(T)
         /\ Then(HeadingEnd, Newline) = <<"]", "\n">>
<1>1. PICK h, s, o, e, w : h = "#" /\ s = " " /\ o = "[" /\ e = "]" /\ w = "\n"
  OBVIOUS
<1>2. h \in T /\ s \in T /\ o \in T /\ e \in T /\ w \in T
  BY <1>1 DEF Marks
<1>3. PICK a, c, d, cd : a = <<h, s, o>> /\ c = <<e>> /\ d = <<w>> /\ cd = <<e, w>>
  OBVIOUS
<1>4. a \in Seq(T) /\ c \in Seq(T) /\ d \in Seq(T)
  BY ONLY <1>2, <1>3
<1>5. c \o d = cd
  <2>1. c \o <<w>> = Append(c, w)
    BY ONLY <1>2, <1>4, ConcatOne
  <2>2. PICK x : x = Append(c, w)
    OBVIOUS
  <2>3. x \in Seq(T) /\ Len(x) = 2 /\ x[1] = e /\ x[2] = w
    BY ONLY <1>2, <1>3, <1>4, <2>2
  <2>4. cd \in Seq(T) /\ Len(cd) = 2 /\ cd[1] = e /\ cd[2] = w
    BY ONLY <1>2, <1>3
  <2>5. x = cd
    BY ONLY <2>3, <2>4
  <2> QED
    BY <1>3, <2>1, <2>2, <2>5
<1>6. HeadingStart = a /\ HeadingEnd = c /\ Newline = d
  BY <1>1, <1>3 DEF HeadingStart, HeadingEnd, Newline
<1>7. Then(c, d) = cd
  BY <1>5 DEF Then
<1>8. cd = <<"]", "\n">>
  BY <1>1, <1>3
<1> QED
  BY <1>4, <1>6, <1>7, <1>8

\* What precedes a heading is a text.
LEMMA BlankSeq ==
  ASSUME NEW T, Marks \subseteq T, NEW i
  PROVE  Blank(i) \in Seq(T)
<1>1. << >> \in Seq(T)
  OBVIOUS
<1>2. Newline \in Seq(T)
  BY HeadingMarks
<1> QED
  BY <1>1, <1>2 DEF Blank

\* A heading is a blank line, but not at the start, and the line of the group.
LEMMA HeadingText ==
  ASSUME NEW T, Marks \subseteq T, NEW es, NEW i, NEW name, name \in Seq(T),
         es[i].group = name, name # GroupBefore(es, i)
  PROVE  Heading(es, i) = Then(Then(Blank(i), HeadingLine(name)), Newline)
<1>1. PICK x, a, c, d : x = Blank(i) /\ a = HeadingStart /\ c = HeadingEnd /\ d = Newline
  OBVIOUS
<1>2. x \in Seq(T) /\ a \in Seq(T) /\ c \in Seq(T) /\ d \in Seq(T)
  BY <1>1, HeadingMarks, BlankSeq
<1>3. Heading(es, i) = ((Blank(i) \o <<"#", " ", "[">>) \o name) \o <<"]", "\n">>
  BY DEF Heading, Blank, Newline
<1>4. Then(c, d) = <<"]", "\n">>
  BY <1>1, HeadingMarks
<1>5. Heading(es, i) = Then(Then(Then(x, a), name), Then(c, d))
  BY <1>1, <1>3, <1>4 DEF Then, HeadingStart
<1>6. Then(Then(Then(x, a), name), Then(c, d)) = Then(Then(x, Then(Then(a, name), c)), d)
  <2>1. x \in Seq(T) /\ a \in Seq(T) /\ name \in Seq(T) /\ c \in Seq(T) /\ d \in Seq(T)
    BY <1>2
  <2> QED
    BY ONLY <2>1, ThenFive
<1>7. HeadingLine(name) = Then(Then(a, name), c)
  BY <1>1 DEF HeadingLine, Then, HeadingStart, HeadingEnd
<1> QED
  BY <1>1, <1>5, <1>6, <1>7

\* What writing an entry appends to the text.
LEMMA EntryText ==
  ASSUME NEW T, NEW base \in Seq(T), NEW H \in Seq(T), NEW a \in Seq(T), NEW r \in Seq(T),
         NEW nl \in Seq(T)
  PROVE  Then(base, Then(Then(Then(H, a), r), nl)) = Then(Then(Then(base, H), Then(a, r)), nl)
<1>1. PICK ar, Har : ar = Then(a, r) /\ Har = Then(H, ar)
  OBVIOUS
<1>2. ar \in Seq(T) /\ Har \in Seq(T)
  BY <1>1, ThenSeq
<1>3. Then(Then(H, a), r) = Har
  BY <1>1, ThenThen
<1>4. Then(Then(base, Har), nl) = Then(base, Then(Har, nl))
  BY <1>2, ThenThen
<1>5. Then(Then(base, H), ar) = Then(base, Then(H, ar))
  BY <1>2, ThenThen
<1> QED
  BY <1>1, <1>3, <1>4, <1>5

--------------------------------------------------------------------------------
(* Files.                                                                       *)

\* Entries that an export can hold: at least one and at most MAX_ENTRIES, every key once,
\* and groups that a heading preserves.
Listed(T, es) ==
  /\ es \in Seq([key : Keys, value : Seq(T), group : Kept(T)])
  /\ Len(es) \in 1..MaxEntries
  /\ \A i, j \in 1..Len(es) : es[i].key = es[j].key => i = j

\* Entries in the order in which a file holds them: the ungrouped ones first.
Writable(T, es) ==
  /\ es \in Seq([key : Keys, value : Seq(T), group : Seq(T \ {"\n"})])
  /\ Len(es) \in 1..MaxEntries
  /\ \A i, j \in 1..Len(es) : es[i].key = es[j].key => i = j
  /\ \A i \in 1..Len(es) : NormalizeGroupName(es[i].group) = es[i].group
  /\ \A i \in 2..Len(es) : es[i].group = << >> => es[i - 1].group = << >>

\* The heading of an entry leaves the parser in the group of the entry.
LEMMA HeadingsRead ==
  ASSUME NEW T, Marks \subseteq T, NEW base \in Seq(T), NEW es, NEW i, NEW read,
         i = 1 => base = << >>, NEW name, name = es[i].group, name \in Seq(T \ {"\n"}),
         NormalizeGroupName(name) = name, name # << >> \/ name = GroupBefore(es, i),
         ReadSoFar(T, base, read, GroupBefore(es, i)), NEW H, H = Heading(es, i)
  PROVE  H \in Seq(T) /\ base \o H \in Seq(T) /\ ReadSoFar(T, base \o H, read, name)
<1>1. CASE name = GroupBefore(es, i)
  <2>1. H = << >>
    BY <1>1 DEF Heading
  <2>2. base \o H = base /\ H \in Seq(T)
    BY <2>1, ConcatEmptySeq
  <2> QED
    BY <1>1, <2>2
<1>2. CASE name # GroupBefore(es, i)
  <2>1. PICK line, nl, x : line = HeadingLine(name) /\ nl = Newline /\ x = Blank(i)
    OBVIOUS
  <2>2. name \in Seq(T) /\ nl = <<"\n">>
    BY <2>1, SeqWithout DEF Newline
  <2>3. nl \in Seq(T)
    BY <2>2, NewlineSeq
  <2>4. PICK b : b = base \o x
    OBVIOUS
  <2>5. b \in Seq(T) /\ x \in Seq(T) /\ ReadSoFar(T, b, read, GroupBefore(es, i))
    <3>1. CASE i = 1
      <4>1. x = << >> /\ b = base
        BY <2>1, <2>4, <3>1, ConcatEmptySeq DEF Blank
      <4> QED
        BY <4>1
    <3>2. CASE i # 1
      <4>1. x = nl
        BY <2>1, <3>2 DEF Blank
      <4>2. base \o nl \in Seq(T)
        BY <2>3, ConcatSeq
      <4>3. ReadSoFar(T, base \o nl, read, GroupBefore(es, i))
        BY <2>2, BlankRead
      <4> QED
        BY <2>3, <2>4, <4>1, <4>2, <4>3
    <3> QED
      BY <3>1, <3>2
  <2>6. line \in Seq(T) /\ ReadSoFar(T, (b \o line) \o nl, read, name)
    BY <1>2, <2>1, <2>2, <2>5, GroupRead
  <2>7. H = Then(Then(x, line), nl)
    BY <1>2, <2>1, <2>2, HeadingText
  <2>8. PICK xl : xl = Then(x, line)
    OBVIOUS
  <2>9. xl \in Seq(T)
    BY <2>5, <2>6, <2>8, ThenSeq
  <2>10. Then(xl, nl) \in Seq(T)
    BY <2>3, <2>9, ThenSeq
  <2>11. (b \o line) \o nl = base \o H
    <3>1. base \in Seq(T) /\ x \in Seq(T) /\ line \in Seq(T) /\ nl \in Seq(T) /\ xl \in Seq(T)
      BY <2>3, <2>5, <2>6, <2>9
    <3>2. Then(Then(base, x), line) = Then(base, Then(x, line))
      BY ONLY <3>1, ThenThen
    <3>3. Then(Then(base, xl), nl) = Then(base, Then(xl, nl))
      BY ONLY <3>1, ThenThen
    <3>4. Then(Then(Then(base, x), line), nl) = Then(base, H)
      BY <2>7, <2>8, <3>2, <3>3
    <3> QED
      BY <2>4, <3>4 DEF Then
  <2>12. base \o H \in Seq(T)
    BY <2>7, <2>8, <2>10, ConcatSeq
  <2> QED
    BY <2>6, <2>7, <2>8, <2>10, <2>11, <2>12
<1> QED
  BY <1>1, <1>2

\* What render writes for an entry is a text.
LEMMA RenderEntrySeq ==
  ASSUME NEW T, Marks \cup Keys \subseteq T, NEW es, NEW i, NEW k, k \in Keys, k = es[i].key,
         NEW v, v \in Seq(T), v = es[i].value,
         NEW name, name \in Seq(T), name = es[i].group
  PROVE  RenderEntry(es, i) \in Seq(T)
<1>1. PICK H, a, r, nl : /\ H = Heading(es, i) /\ a = <<k, "=">> /\ r = RenderValue(v)
                         /\ nl = Newline
  OBVIOUS
<1>2. Marks \subseteq T /\ k \in T
  OBVIOUS
<1>3. nl \in Seq(T)
  BY <1>1, <1>2, HeadingMarks
<1>4. r \in Seq(T)
  BY <1>1, <1>2, RenderValueCases, QuotedParts
<1>5. a \in Seq(T)
  <2>1. PICK e : e = "="
    OBVIOUS
  <2>2. e \in T /\ k \in T /\ a = <<k, e>>
    BY <1>1, <1>2, <2>1 DEF Marks
  <2> QED
    BY ONLY <2>2
<1>6. H \in Seq(T)
  <2>1. CASE name = GroupBefore(es, i)
    <3>1. H = << >>
      BY <1>1, <2>1 DEF Heading
    <3> QED
      BY <3>1
  <2>2. CASE name # GroupBefore(es, i)
    <3>1. PICK line, x, xl : line = HeadingLine(name) /\ x = Blank(i) /\ xl = Then(x, line)
      OBVIOUS
    <3>2. line \in Seq(T) /\ x \in Seq(T)
      BY <1>2, <3>1, HeadingTokens, BlankSeq
    <3>3. xl \in Seq(T)
      BY <3>1, <3>2, ThenSeq
    <3>4. Then(xl, nl) \in Seq(T)
      BY <1>3, <3>3, ThenSeq
    <3>5. Heading(es, i) = Then(Then(Blank(i), HeadingLine(name)), Newline)
      BY <1>2, <2>2, HeadingText
    <3> QED
      BY <1>1, <3>1, <3>4, <3>5
  <2> QED
    BY <2>1, <2>2
<1>7. PICK Ha, Har : Ha = Then(H, a) /\ Har = Then(Ha, r)
  OBVIOUS
<1>8. Ha \in Seq(T)
  BY <1>5, <1>6, <1>7, ThenSeq
<1>9. Har \in Seq(T)
  BY <1>4, <1>7, <1>8, ThenSeq
<1>10. Then(Har, nl) \in Seq(T)
  BY <1>3, <1>9, ThenSeq
<1>11. RenderEntry(es, i) = Then(Har, nl)
  BY <1>1, <1>7 DEF RenderEntry, Then, Newline
<1> QED
  BY <1>10, <1>11

\* The part of a file the entry at position i is written as is read as that entry.
LEMMA RenderedEntryRead ==
  ASSUME NEW T, Marks \cup Keys \subseteq T, NEW base \in Seq(T), NEW es, Writable(T, es),
         NEW i, i \in 1..Len(es), i = 1 => base = << >>, NEW read, read = SubSeq(es, 1, i - 1),
         ReadSoFar(T, base, read, GroupBefore(es, i))
  PROVE  ReadSoFar(T, base \o RenderEntry(es, i), SubSeq(es, 1, i), es[i].group)
<1>1. PICK E, k, v, name, n : /\ E = [key : Keys, value : Seq(T), group : Seq(T \ {"\n"})]
                              /\ k = es[i].key /\ v = es[i].value /\ name = es[i].group
                              /\ n = Len(es)
  OBVIOUS
<1>2. es \in Seq(E) /\ n \in Nat /\ n <= MaxEntries /\ MaxEntries \in Nat
  BY <1>1, DotenvAssumption DEF Writable
<1>3. i \in 1..n /\ i \in Nat /\ i - 1 \in Nat /\ i <= n
  BY <1>1, <1>2
<1>4. es[i] \in E
  <2>1. es \in Seq(E) /\ n = Len(es) /\ i \in 1..n
    BY <1>1, <1>2, <1>3
  <2> QED
    BY ONLY <2>1
<1>5. k \in Keys /\ v \in Seq(T) /\ name \in Seq(T \ {"\n"}) /\ es[i] = Entry(k, v, name)
  BY <1>1, <1>4 DEF Entry
<1>6. read \in Seq(E) /\ Len(read) = i - 1 /\ \A j \in 1..i - 1 : read[j] = es[j]
  BY <1>2, <1>3
<1>7. RoomIn(read)
  BY <1>2, <1>3, <1>6 DEF RoomIn
<1>8. Absent(read, k)
  <2>1. ASSUME NEW j \in DOMAIN read PROVE read[j].key # k
    <3>1. j \in 1..i - 1
      BY <1>6
    <3>2. j \in 1..n /\ j # i /\ read[j] = es[j]
      BY <1>2, <1>3, <1>6, <3>1
    <3>3. es[j].key # es[i].key
      BY <1>1, <1>3, <3>2 DEF Writable
    <3> QED
      BY <1>1, <3>2, <3>3
  <2> QED
    BY <2>1 DEF Absent
<1>9. Append(read, Entry(k, v, name)) = SubSeq(es, 1, i)
  <2>1. PICK a, s, x : a = Append(read, x) /\ s = SubSeq(es, 1, i) /\ x = es[i]
    OBVIOUS
  <2>2. a \in Seq(E) /\ Len(a) = i /\ a[i] = x /\ \A j \in 1..i - 1 : a[j] = es[j]
    BY <1>3, <1>4, <1>6, <2>1
  <2>3. s \in Seq(E) /\ Len(s) = i /\ \A j \in 1..i : s[j] = es[j]
    BY <1>2, <1>3, <2>1
  <2>4. \A j \in 1..i : a[j] = s[j]
    BY <1>3, <2>1, <2>2, <2>3
  <2>5. a = s
    BY <2>2, <2>3, <2>4, SeqEqual
  <2> QED
    BY <1>5, <2>1, <2>5
<1>10. NormalizeGroupName(name) = name
  BY <1>1, <1>3 DEF Writable
<1>11. name # << >> \/ name = GroupBefore(es, i)
  <2>1. CASE i = 1
    BY <2>1 DEF GroupBefore
  <2>2. CASE i # 1
    <3>1. i \in 2..n
      BY <1>3, <2>2
    <3> QED
      BY <1>1, <2>2, <3>1 DEF GroupBefore, Writable
  <2> QED
    BY <2>1, <2>2
<1>12. PICK H, bH, nl, r, line, a : /\ H = Heading(es, i) /\ bH = base \o H /\ nl = Newline
                                    /\ r = RenderValue(v) /\ line = AssignmentLine(k, v)
                                    /\ a = <<k, "=">>
  OBVIOUS
<1>13. Marks \subseteq T /\ k \in T
  BY <1>5
<1>14. H \in Seq(T) /\ bH \in Seq(T) /\ ReadSoFar(T, bH, read, name)
  <2>1. /\ base \in Seq(T) /\ Marks \subseteq T /\ (i = 1 => base = << >>) /\ name = es[i].group
        /\ name \in Seq(T \ {"\n"}) /\ NormalizeGroupName(name) = name
        /\ (name # << >> \/ name = GroupBefore(es, i))
        /\ ReadSoFar(T, base, read, GroupBefore(es, i)) /\ H = Heading(es, i)
    BY <1>1, <1>5, <1>10, <1>11, <1>12, <1>13
  <2>2. H \in Seq(T)
    BY ONLY <2>1, HeadingsRead
  <2>3. base \o H \in Seq(T)
    BY ONLY <2>1, HeadingsRead
  <2>4. ReadSoFar(T, base \o H, read, name)
    BY ONLY <2>1, HeadingsRead
  <2> QED
    BY <1>12, <2>2, <2>3, <2>4
<1>15. nl = <<"\n">> /\ nl \in Seq(T)
  BY <1>12, <1>13, HeadingMarks DEF Newline
<1>16. line \in Seq(T) /\ ReadSoFar(T, (bH \o line) \o nl, Append(read, Entry(k, v, name)), name)
  BY <1>5, <1>7, <1>8, <1>12, <1>14, <1>15, EntryRead
<1>17. a \in Seq(T) /\ r \in Seq(T) /\ line = Then(a, r)
  <2>1. r \in Seq(T)
    BY <1>5, <1>12, <1>13, RenderValueCases, QuotedParts
  <2>2. PICK e : e = "="
    OBVIOUS
  <2>3. e \in T /\ k \in T /\ a = <<k, e>>
    BY <1>12, <1>13, <2>2 DEF Marks
  <2>4. a \in Seq(T)
    BY ONLY <2>3
  <2> QED
    BY <1>12, <2>1, <2>4 DEF AssignmentLine, Then
<1>18. PICK R : R = Then(Then(Then(H, a), r), nl)
  OBVIOUS
<1>19. RenderEntry(es, i) = R
  BY <1>1, <1>12, <1>18 DEF RenderEntry, Then, Newline
<1>20. Then(base, R) = Then(Then(Then(base, H), Then(a, r)), nl)
  <2>1. base \in Seq(T) /\ H \in Seq(T) /\ a \in Seq(T) /\ r \in Seq(T) /\ nl \in Seq(T)
    BY <1>14, <1>15, <1>17
  <2>2. Then(base, Then(Then(Then(H, a), r), nl)) = Then(Then(Then(base, H), Then(a, r)), nl)
    BY ONLY <2>1, EntryText
  <2> QED
    BY <1>18, <2>2
<1>21. base \o R = (bH \o line) \o nl
  BY <1>12, <1>17, <1>20 DEF Then
<1> QED
  BY <1>1, <1>9, <1>16, <1>19, <1>21

\* A file is read as the entries it was written from, for any number of entries and any
\* values: the line breaks of a value do not end its assignment, a value that looks like a
\* comment or a heading is not taken for one, and every entry keeps its group
\* (dotenv::render and dotenv::parse).
THEOREM FilesReadBack ==
  \A S, es : Writable(S, es) => Parse(RenderEntries(es)) = [ok |-> TRUE, entries |-> es]
<1> SUFFICES ASSUME NEW S, NEW es, Writable(S, es)
             PROVE  Parse(RenderEntries(es)) = [ok |-> TRUE, entries |-> es]
  OBVIOUS
<1>1. PICK T, n, seqs : /\ T = S \cup Marks \cup Keys /\ n = Len(es)
                        /\ seqs = [i \in DOMAIN es |-> RenderEntry(es, i)]
  OBVIOUS
<1>2. Marks \cup Keys \subseteq T /\ S \subseteq T
  BY <1>1
<1>3. Writable(T, es)
  <2>1. \A s : s \in Seq(S) => s \in Seq(T)
    BY <1>2
  <2>2. \A s : s \in Seq(S \ {"\n"}) => s \in Seq(T \ {"\n"})
    BY <1>2
  <2>3. PICK E, F : /\ E = [key : Keys, value : Seq(S), group : Seq(S \ {"\n"})]
                    /\ F = [key : Keys, value : Seq(T), group : Seq(T \ {"\n"})]
    OBVIOUS
  <2>4. E \subseteq F
    BY <2>1, <2>2, <2>3
  <2>5. es \in Seq(E)
    BY <2>3 DEF Writable
  <2>6. es \in Seq(F)
    BY <2>4, <2>5
  <2> QED
    BY <2>3, <2>6 DEF Writable
<1>4. /\ es \in Seq([key : Keys, value : Seq(T), group : Seq(T \ {"\n"})])
      /\ n \in Nat \ {0} /\ DOMAIN es = 1..n
  BY <1>1, <1>3, DotenvAssumption DEF Writable
<1>5. ReadSoFar(T, << >>, << >>, << >>)
  <2>1. PICK ls : ls = << >>
    OBVIOUS
  <2>2. ls \in Seq(Seq(T))
    BY <2>1
  <2>3. Start = Ready(<< >>, << >>, TRUE, << >>)
    BY DEF Start, Ready, State
  <2> QED
    BY <2>1, <2>2, <2>3, SplitEmpty, ReachesStart DEF ReadSoFar
<1>6. /\ seqs \in Seq(Seq(T)) /\ Len(seqs) = n
      /\ \A i \in 1..n : seqs[i] = RenderEntry(es, i)
  <2>1. ASSUME NEW i \in 1..n PROVE RenderEntry(es, i) \in Seq(T)
    <3>1. PICK k, v, name : k = es[i].key /\ v = es[i].value /\ name = es[i].group
      OBVIOUS
    <3>2. PICK E : E = [key : Keys, value : Seq(T), group : Seq(T \ {"\n"})]
      OBVIOUS
    <3>3. es \in Seq(E) /\ n = Len(es) /\ i \in 1..n
      BY <1>1, <1>4, <3>2
    <3>4. es[i] \in E
      BY ONLY <3>3
    <3>5. k \in Keys /\ v \in Seq(T) /\ name \in Seq(T \ {"\n"})
      BY <3>1, <3>2, <3>4
    <3>6. name \in Seq(T)
      BY <3>5, SeqWithout
    <3> QED
      BY <1>2, <3>1, <3>5, <3>6, RenderEntrySeq
  <2>2. PICK Q : Q = Seq(T)
    OBVIOUS
  <2>3. seqs \in [1..n -> Q]
    BY <1>1, <1>4, <2>1, <2>2
  <2>4. seqs \in Seq(Q) /\ Len(seqs) = n
    BY <1>4, <2>3
  <2> QED
    BY <1>1, <1>4, <2>2, <2>4
<1>7. PICK f : /\ f[1] = seqs[1]
               /\ \A i \in 2..n : f[i] = f[i - 1] \o seqs[i]
               /\ FlattenSeq(seqs) = f[n]
  <2>1. Len(seqs) # 0
    BY <1>4, <1>6
  <2> QED
    BY <1>6, <2>1, FlattenRun
<1> DEFINE P(i) == f[i] \in Seq(T) /\ ReadSoFar(T, f[i], SubSeq(es, 1, i), es[i].group)
<1>8. P(1)
  <2>1. 1 \in 1..n /\ 1 \in Nat
    BY <1>4
  <2>2. PICK i, base, read : i = 1 /\ base = << >> /\ read = SubSeq(es, 1, i - 1)
    OBVIOUS
  <2>3. read = << >>
    BY <1>4, <2>1, <2>2
  <2>8. base \in Seq(T)
    BY <2>2
  <2>9. GroupBefore(es, i) = << >>
    BY <2>2 DEF GroupBefore
  <2>4. ReadSoFar(T, base, read, GroupBefore(es, i))
    BY <1>5, <2>2, <2>3, <2>9
  <2>5. ReadSoFar(T, base \o RenderEntry(es, i), SubSeq(es, 1, i), es[i].group)
    BY <1>1, <1>2, <1>3, <2>1, <2>2, <2>4, <2>8, RenderedEntryRead
  <2>6. f[1] \in Seq(T) /\ f[1] = RenderEntry(es, 1)
    BY <1>6, <1>7, <2>1
  <2>7. base \o RenderEntry(es, i) = f[1]
    BY <2>2, <2>6, ConcatEmptySeq
  <2> QED
    BY <2>2, <2>5, <2>6, <2>7
<1>9. ASSUME NEW j \in 1..n, P(j), j + 1 \in 1..n PROVE P(j + 1)
  <2>1. PICK i, base, read : i = j + 1 /\ base = f[j] /\ read = SubSeq(es, 1, i - 1)
    OBVIOUS
  <2>2. i \in 2..n /\ i \in 1..n /\ i # 1 /\ i - 1 = j
    BY <1>4, <1>9, <2>1
  <2>3. base \in Seq(T) /\ ReadSoFar(T, base, read, GroupBefore(es, i))
    BY <1>9, <2>1, <2>2 DEF GroupBefore
  <2>4. ReadSoFar(T, base \o RenderEntry(es, i), SubSeq(es, 1, i), es[i].group)
    BY <1>1, <1>2, <1>3, <2>1, <2>2, <2>3, RenderedEntryRead
  <2>5. f[i] = base \o RenderEntry(es, i) /\ RenderEntry(es, i) \in Seq(T)
    <3>1. f[i] = f[i - 1] \o seqs[i] /\ seqs[i] = RenderEntry(es, i)
      BY <1>6, <1>7, <2>2
    <3>2. f[i - 1] = base
      BY <2>1, <2>2
    <3>3. PICK Q : Q = Seq(T)
      OBVIOUS
    <3>4. seqs \in Seq(Q) /\ Len(seqs) = n /\ i \in 1..n
      BY <1>6, <2>2, <3>3
    <3>5. seqs[i] \in Q
      BY ONLY <3>4
    <3> QED
      BY <3>1, <3>2, <3>3, <3>5
  <2>6. f[i] \in Seq(T)
    BY <2>3, <2>5, ConcatSeq
  <2> QED
    BY <2>1, <2>4, <2>5, <2>6
<1>10. P(n)
  <2> DEFINE Good == {j \in Nat : j + 1 \in 1..n => P(j + 1)}
  <2>1. 0 \in Good
    BY <1>8
  <2>2. ASSUME NEW j \in Good PROVE j + 1 \in Good
    <3>1. j \in Nat /\ (j + 1 \in 1..n => P(j + 1))
      OBVIOUS
    <3>2. (j + 1) + 1 \in 1..n => P((j + 1) + 1)
      BY <1>4, <1>9, <3>1
    <3> QED
      BY <3>1, <3>2
  <2> HIDE DEF Good, P
  <2>3. Good = Nat
    <3>1. Good \in SUBSET Nat
      BY DEF Good
    <3> QED
      BY <2>1, <2>2, <3>1, Induction
  <2>4. n - 1 \in Nat /\ (n - 1) + 1 = n /\ n \in 1..n
    BY <1>4
  <2> QED
    BY <2>3, <2>4 DEF Good
<1>11. PICK text, g : text = RenderEntries(es) /\ g = es[n].group
  OBVIOUS
<1>12. ReadSoFar(T, text, es, g)
  <2>1. SubSeq(es, 1, n) = es
    BY <1>1, <1>4
  <2>2. text = f[n]
    BY <1>1, <1>7, <1>11 DEF RenderEntries
  <2> QED
    BY <1>10, <1>11, <2>1, <2>2
<1>13. PICK ls, b, h : /\ ls \in Seq(Seq(T)) /\ SplitInto(text, ls, << >>)
                       /\ Reaches(T, ls, Ready(es, g, b, h))
  BY <1>12 DEF ReadSoFar
<1>14. Lines(text) = ls
  <2>1. PICK end : end = [lines |-> ls, current |-> << >>]
    OBVIOUS
  <2>2. Lines(text) = LastLine(end)
    BY <1>13, <2>1 DEF Lines, SplitInto, Split, Begin
  <2>3. LastLine(end) = ls
    BY <2>1 DEF LastLine
  <2> QED
    BY <2>2, <2>3
<1>15. ParseLines(ls) = Result(Ready(es, g, b, h))
  BY <1>13, ReachesEnd
<1>16. Result(Ready(es, g, b, h)) = [ok |-> TRUE, entries |-> es]
  <2>1. es # << >>
    BY <1>1, <1>4
  <2> QED
    BY <2>1 DEF Result, Ready, State
<1> QED
  BY <1>11, <1>14, <1>15, <1>16 DEF Parse

--------------------------------------------------------------------------------
(* The order of a file.                                                         *)

\* The first entry of a group is an entry of it.
LEMMA FirstOfGroup ==
  ASSUME NEW es, NEW n \in Nat, DOMAIN es = 1..n, NEW i \in 1..n
  PROVE  FirstOf(es, es[i].group) \in 1..n
<1>1. PICK S : S = {j \in DOMAIN es : es[j].group = es[i].group}
  OBVIOUS
<1>2. S \in SUBSET Nat /\ i \in S
  BY <1>1
<1>3. \E m \in S : \A j \in S : m <= j
  BY <1>2, LeastNatural
<1>4. Smallest(S) \in S
  BY <1>3 DEF Smallest
<1> QED
  BY <1>1, <1>4 DEF FirstOf

\* Ranks are naturals, and ungrouped entries have the lowest.
LEMMA RankIs ==
  ASSUME NEW es, NEW n \in Nat, DOMAIN es = 1..n, NEW i \in 1..n
  PROVE  GroupRank(es, i) \in Nat /\ (GroupRank(es, i) = 0 <=> es[i].group = << >>)
<1>1. FirstOf(es, es[i].group) \in 1..n
  BY FirstOfGroup
<1> QED
  BY <1>1 DEF GroupRank

\* The order is total: of two entries one precedes the other, and never both.
LEMMA PrecedesTotal ==
  ASSUME NEW es, NEW n \in Nat, DOMAIN es = 1..n, NEW i \in 1..n, NEW j \in 1..n
  PROVE  /\ i = j \/ Precedes(es, i, j) \/ Precedes(es, j, i)
         /\ ~(Precedes(es, i, j) /\ Precedes(es, j, i))
         /\ \A k \in 1..n : Precedes(es, i, j) /\ Precedes(es, j, k) => Precedes(es, i, k)
<1>1. \A k \in 1..n : GroupRank(es, k) \in Nat
  BY RankIs
<1> QED
  BY <1>1 DEF Precedes

\* The entries that precede one.
Before(es, i) == {j \in DOMAIN es : Precedes(es, j, i)}

\* An entry that precedes another has fewer before it.
LEMMA BeforeGrows ==
  ASSUME NEW es, NEW n \in Nat, DOMAIN es = 1..n, NEW i \in 1..n, NEW j \in 1..n,
         Precedes(es, i, j)
  PROVE  Place(es, i) < Place(es, j)
<1>1. PICK A, B : A = Before(es, i) /\ B = Before(es, j)
  OBVIOUS
<1>2. A \in SUBSET B /\ i \in B /\ i \notin A
  BY <1>1, PrecedesTotal DEF Before
<1>3. IsFiniteSet(1..n) /\ B \in SUBSET (1..n)
  BY <1>1, FS_Interval DEF Before
<1>4. IsFiniteSet(B) /\ IsFiniteSet(A)
  BY <1>2, <1>3, FS_Subset
<1>5. Cardinality(A) \in Nat /\ Cardinality(B) \in Nat
  BY <1>4, FS_CardinalityType
<1>6. Cardinality(A) <= Cardinality(B) /\ Cardinality(A) # Cardinality(B)
  BY <1>2, <1>4, FS_Subset
<1>7. Place(es, i) = Cardinality(A) + 1 /\ Place(es, j) = Cardinality(B) + 1
  BY <1>1 DEF Place, Before
<1> QED
  BY <1>5, <1>6, <1>7

\* Places are positions.
LEMMA PlaceIs ==
  ASSUME NEW es, NEW n \in Nat, DOMAIN es = 1..n, NEW i \in 1..n
  PROVE  Place(es, i) \in 1..n
<1>1. PICK A : A = Before(es, i)
  OBVIOUS
<1>2. A \in SUBSET (1..n) /\ i \notin A
  BY <1>1, PrecedesTotal DEF Before
<1>3. IsFiniteSet(1..n) /\ Cardinality(1..n) = n
  BY FS_Interval
<1>4. IsFiniteSet(A) /\ Cardinality(A) <= n /\ Cardinality(A) # n
  <2>1. PICK S : S = 1..n
    OBVIOUS
  <2>2. IsFiniteSet(S) /\ A \in SUBSET S /\ Cardinality(S) = n /\ A # S
    BY <1>2, <1>3, <2>1
  <2>3. /\ IsFiniteSet(A) /\ Cardinality(A) <= Cardinality(S)
        /\ Cardinality(S) = Cardinality(A) => S = A
    BY <2>2, FS_Subset
  <2> QED
    BY <2>2, <2>3
<1>5. Cardinality(A) \in Nat
  BY <1>4, FS_CardinalityType
<1>6. Place(es, i) = Cardinality(A) + 1
  BY <1>1 DEF Place, Before
<1> QED
  BY <1>4, <1>5, <1>6

\* A permutation of the positions of n entries that sorts them.
Sorts(es, n, order) ==
  /\ order \in [1..n -> 1..n]
  /\ \A i \in 1..n : \E p \in 1..n : order[p] = i
  /\ \A p, q \in 1..n : order[p] = order[q] => p = q
  /\ \A p \in 2..n : Precedes(es, order[p - 1], order[p])

\* The order of a file is one.
LEMMA OrderIs ==
  ASSUME NEW es, NEW n \in Nat, DOMAIN es = 1..n, NEW order, order = RenderOrder(es)
  PROVE  Sorts(es, n, order)
<1>1. PICK f : f = [i \in 1..n |-> Place(es, i)]
  OBVIOUS
<1>2. f \in [1..n -> 1..n]
  BY <1>1, PlaceIs
<1>3. ASSUME NEW i \in 1..n, NEW j \in 1..n, f[i] = f[j] PROVE i = j
  <2>1. Place(es, i) = Place(es, j) /\ Place(es, i) \in Int
    BY <1>1, <1>2, <1>3
  <2>2. ~Precedes(es, i, j) /\ ~Precedes(es, j, i)
    BY <2>1, BeforeGrows
  <2> QED
    BY <2>2, PrecedesTotal
<1>4. f \in Injection(1..n, 1..n)
  BY <1>2, <1>3 DEF Injection, IsInjective
<1>5. f \in Surjection(1..n, 1..n)
  <2>1. IsFiniteSet(1..n)
    BY FS_Interval
  <2> QED
    BY <1>4, <2>1, FS_Injection
<1>6. \A p \in 1..n : \E i \in 1..n : f[i] = p
  BY <1>5 DEF Surjection
<1>7. \A p \in 1..n : order[p] = CHOOSE i \in 1..n : Place(es, i) = p
  BY DEF RenderOrder
<1>8. \A p \in 1..n : order[p] \in 1..n /\ f[order[p]] = p
  <2> TAKE p \in 1..n
  <2>1. \E i \in 1..n : Place(es, i) = p
    BY <1>1, <1>6
  <2>2. order[p] \in 1..n /\ Place(es, order[p]) = p
    BY <1>7, <2>1
  <2> QED
    BY <1>1, <2>2
<1>9. order \in [1..n -> 1..n]
  <2>1. order = [p \in 1..n |-> CHOOSE i \in 1..n : Place(es, i) = p]
    BY DEF RenderOrder
  <2> QED
    BY <1>8, <2>1
<1>10. \A i \in 1..n : \E p \in 1..n : order[p] = i
  <2> TAKE i \in 1..n
  <2>1. f[i] \in 1..n
    BY <1>2
  <2>2. order[f[i]] \in 1..n /\ f[order[f[i]]] = f[i]
    BY <1>8, <2>1
  <2>3. order[f[i]] = i
    BY <1>3, <2>2
  <2> QED
    BY <2>1, <2>3
<1>11. \A p, q \in 1..n : order[p] = order[q] => p = q
  BY <1>8
<1>12. ASSUME NEW p \in 2..n PROVE Precedes(es, order[p - 1], order[p])
  <2>1. PICK a, b : a = order[p - 1] /\ b = order[p]
    OBVIOUS
  <2>2. a \in 1..n /\ b \in 1..n /\ f[a] = p - 1 /\ f[b] = p
    BY <1>8, <2>1
  <2>3. Place(es, a) = p - 1 /\ Place(es, b) = p
    BY <1>1, <2>2
  <2>4. a # b /\ ~Precedes(es, b, a)
    BY <2>2, <2>3, BeforeGrows
  <2> QED
    BY <2>1, <2>2, <2>4, PrecedesTotal
<1> QED
  BY <1>9, <1>10, <1>11, <1>12 DEF Sorts

\* What is written in this order can be read: the ungrouped entries come first.
LEMMA OrderedWritable ==
  ASSUME NEW T, NEW es, Listed(T, es)
  PROVE  Writable(T, Ordered(es)) /\ ToSet(Ordered(es)) = ToSet(es)
<1>1. PICK E, n, order, out : /\ E = [key : Keys, value : Seq(T), group : Kept(T)]
                              /\ n = Len(es) /\ order = RenderOrder(es) /\ out = Ordered(es)
  OBVIOUS
<1>2. es \in Seq(E) /\ n \in Nat /\ n \in 1..MaxEntries /\ DOMAIN es = 1..n
  BY <1>1, DotenvAssumption DEF Listed
<1>3. es \in [1..n -> E]
  <2>1. es \in Seq(E) /\ n = Len(es)
    BY <1>1, <1>2
  <2> QED
    BY ONLY <2>1
<1>4. /\ order \in [1..n -> 1..n]
      /\ \A i \in 1..n : \E p \in 1..n : order[p] = i
      /\ \A p, q \in 1..n : order[p] = order[q] => p = q
      /\ \A p \in 2..n : Precedes(es, order[p - 1], order[p])
  <2>1. n \in Nat /\ DOMAIN es = 1..n /\ order = RenderOrder(es)
    BY <1>1, <1>2
  <2>2. Sorts(es, n, order)
    BY <2>1, OrderIs
  <2> QED
    BY <2>2 DEF Sorts
<1>5. out = [p \in 1..n |-> es[order[p]]]
  BY <1>1, <1>4 DEF Ordered
<1>6. out \in [1..n -> E]
  BY <1>3, <1>4, <1>5
<1>7. out \in Seq(E) /\ Len(out) = n
  BY <1>2, <1>6
<1>8. \A g \in Kept(T) : g \in Seq(T \ {"\n"}) /\ NormalizeGroupName(g) = g
  BY DEF Kept
<1>9. out \in Seq([key : Keys, value : Seq(T), group : Seq(T \ {"\n"})])
  <2>1. PICK F : F = [key : Keys, value : Seq(T), group : Seq(T \ {"\n"})]
    OBVIOUS
  <2>2. E \subseteq F
    BY <1>1, <1>8, <2>1
  <2>3. out \in Seq(F)
    BY <1>7, <2>2
  <2> QED
    BY <2>1, <2>3
<1>10. \A i, j \in 1..n : out[i].key = out[j].key => i = j
  <2> TAKE i, j \in 1..n
  <2>1. order[i] \in 1..n /\ order[j] \in 1..n
    BY <1>4
  <2>2. es[order[i]].key = es[order[j]].key => order[i] = order[j]
    BY <1>1, <2>1 DEF Listed
  <2> QED
    BY <1>4, <1>5, <2>2
<1>11. \A i \in 1..n : NormalizeGroupName(out[i].group) = out[i].group
  <2> TAKE i \in 1..n
  <2>1. out[i] \in E
    BY <1>6
  <2> QED
    BY <1>1, <1>8, <2>1
<1>12. ASSUME NEW p \in 2..n, out[p].group = << >> PROVE out[p - 1].group = << >>
  <2>1. PICK a, b : a = order[p - 1] /\ b = order[p]
    OBVIOUS
  <2>2. p \in 1..n /\ p - 1 \in 1..n
    BY <1>2
  <2>3. a \in 1..n /\ b \in 1..n
    BY <1>4, <2>1, <2>2
  <2>4. out[p] = es[b] /\ out[p - 1] = es[a]
    BY <1>5, <2>1, <2>2
  <2>5. Precedes(es, a, b)
    BY <1>4, <2>1
  <2>6. GroupRank(es, b) = 0
    BY <1>2, <1>12, <2>3, <2>4, RankIs
  <2>7. GroupRank(es, a) \in Nat /\ (GroupRank(es, a) = 0 <=> es[a].group = << >>)
    BY <1>2, <2>3, RankIs
  <2> QED
    BY <2>4, <2>5, <2>6, <2>7 DEF Precedes
<1>13. ToSet(out) = ToSet(es)
  <2>1. DOMAIN out = 1..n
    BY <1>6
  <2>2. ToSet(out) = {out[i] : i \in 1..n} /\ ToSet(es) = {es[i] : i \in 1..n}
    BY <1>2, <2>1 DEF ToSet
  <2> QED
    BY <1>4, <1>5, <2>2
<1> QED
  BY <1>1, <1>2, <1>7, <1>9, <1>10, <1>11, <1>12, <1>13 DEF Writable

\* An export is read as the entries it was made from, in the order of the file, whatever
\* their values, groups and positions are (dotenv::render and dotenv::parse).
THEOREM ExportsReadBack ==
  \A S, es : Listed(S, es) =>
    /\ Parse(Render(es)) = [ok |-> TRUE, entries |-> Ordered(es)]
    /\ ToSet(Ordered(es)) = ToSet(es)
<1> SUFFICES ASSUME NEW S, NEW es, Listed(S, es)
             PROVE  /\ Parse(Render(es)) = [ok |-> TRUE, entries |-> Ordered(es)]
                    /\ ToSet(Ordered(es)) = ToSet(es)
  OBVIOUS
<1>1. Writable(S, Ordered(es)) /\ ToSet(Ordered(es)) = ToSet(es)
  BY OrderedWritable
<1> QED
  BY <1>1, FilesReadBack DEF Render

--------------------------------------------------------------------------------
(* What a file can contain, whatever it is: nothing but its own tokens.         *)

\* A part of a sequence has its tokens.
LEMMA SubSeqSeq ==
  ASSUME NEW T, NEW s \in Seq(T), NEW m \in Nat \ {0}, NEW n \in Int, n <= Len(s)
  PROVE  SubSeq(s, m, n) \in Seq(T)
<1>1. CASE n < m
  <2>1. SubSeq(s, m, n) = << >>
    BY <1>1
  <2> QED
    BY <2>1
<1>2. CASE m <= n
  BY <1>2
<1> QED
  BY <1>1, <1>2

\* Cutting a sequence at its ends leaves its tokens.
LEMMA BetweenSeq ==
  ASSUME NEW T, NEW s \in Seq(T), NEW kept \in SUBSET DOMAIN s
  PROVE  Between(s, kept) \in Seq(T)
<1>1. CASE kept = {}
  BY <1>1 DEF Between
<1>2. CASE kept # {}
  <2>1. PICK n : n = Len(s)
    OBVIOUS
  <2>2. n \in Nat /\ kept \in SUBSET (1..n) /\ kept \in SUBSET Nat
    BY <2>1
  <2>3. \E i \in kept : \A j \in kept : i <= j
    BY <1>2, <2>2, LeastNatural
  <2>4. Smallest(kept) \in kept
    BY <2>3 DEF Smallest
  <2>5. \E i \in kept : \A j \in kept : j <= i
    BY <1>2, <2>2, MaxOfIndices
  <2>6. Largest(kept) \in kept
    BY <2>5 DEF Largest
  <2>7. PICK a, b : a = Smallest(kept) /\ b = Largest(kept)
    OBVIOUS
  <2>8. a \in Nat \ {0} /\ b \in Int /\ b <= Len(s)
    BY <2>1, <2>2, <2>4, <2>6, <2>7
  <2>9. SubSeq(s, a, b) \in Seq(T)
    BY ONLY <2>8, s \in Seq(T), SubSeqSeq
  <2> QED
    BY <1>2, <2>7, <2>9 DEF Between
<1> QED
  BY <1>1, <1>2

\* Trimming leaves tokens of the sequence.
LEMMA TrimSeq ==
  ASSUME NEW T, NEW s \in Seq(T)
  PROVE  /\ \A drop : TrimOf(s, drop) \in Seq(T)
         /\ Trim(s) \in Seq(T) /\ TrimStart(s) \in Seq(T)
<1>1. ASSUME NEW drop PROVE TrimOf(s, drop) \in Seq(T)
  <2>1. {i \in DOMAIN s : s[i] \notin drop} \in SUBSET DOMAIN s
    OBVIOUS
  <2> QED
    BY <2>1, BetweenSeq DEF TrimOf
<1>2. TrimStart(s) \in Seq(T)
  <2>1. {i \in DOMAIN s : \E j \in 1..i : s[j] \notin White} \in SUBSET DOMAIN s
    OBVIOUS
  <2> QED
    BY <2>1, BetweenSeq DEF TrimStart
<1> QED
  BY <1>1, <1>2 DEF Trim

\* normalize_group_name adds nothing.
LEMMA NormalizeSeq ==
  ASSUME NEW T, NEW s \in Seq(T)
  PROVE  NormalizeGroupName(s) \in Seq(T)
<1>1. PICK a, b : a = Trim(s) /\ b = TrimOf(a, Decoration)
  OBVIOUS
<1>2. a \in Seq(T)
  BY <1>1, TrimSeq
<1>3. b \in Seq(T)
  BY <1>1, <1>2, TrimSeq
<1>4. Trim(b) \in Seq(T)
  BY <1>3, TrimSeq
<1> QED
  BY <1>1, <1>4 DEF NormalizeGroupName

\* The tokens of a text, when they include what escapes stand for.
Closes(T) == {"\n", "\r", "\t"} \subseteq T

\* What is read between double quotes.
LEMMA DoubleQuotedSeq ==
  ASSUME NEW T, Closes(T), NEW s \in Seq(T), ParseDoubleQuoted(s).ok
  PROVE  ParseDoubleQuoted(s).value \in Seq(T)
<1>1. PICK b : b = [ok |-> TRUE, escaped |-> FALSE, closed |-> FALSE, value |-> << >>]
  OBVIOUS
<1>2. Token(T) = T
  BY DEF Token, Closes
<1>3. b \in Reading(T)
  <2>1. PICK e : e = << >>
    OBVIOUS
  <2>2. e \in Seq(Token(T))
    BY <2>1
  <2> QED
    BY <1>1, <2>1, <2>2 DEF Reading
<1> DEFINE Good == {t \in Seq(T) : Read(b, t) \in Reading(T)}
<1>4. << >> \in Good
  BY <1>3, DoubleQuotedFold
<1>5. ASSUME NEW t \in Good, NEW c \in T PROVE Append(t, c) \in Good
  <2>1. t \in Seq(T) /\ Read(b, t) \in Reading(T)
    OBVIOUS
  <2>2. t \in Seq(Token(T)) /\ c \in Token(T)
    BY <1>2, <2>1
  <2>3. Read(b, Append(t, c)) = DoubleQuotedChar(Read(b, t), c)
    BY <1>3, <2>2, DoubleQuotedFold
  <2>4. Read(b, Append(t, c)) \in Reading(T)
    BY <2>1, <2>2, <2>3, DoubleQuotedCharType
  <2>5. Append(t, c) \in Seq(T)
    BY <2>1
  <2> QED
    BY <2>4, <2>5
<1>6. Good \in SUBSET Seq(T)
  OBVIOUS
<1> HIDE DEF Good
<1>7. Good = Seq(T)
  BY <1>4, <1>5, <1>6, SeqInduction
<1>8. Read(b, s) \in Reading(T)
  BY <1>7 DEF Good
<1>9. PICK e : e = Read(b, s)
  OBVIOUS
<1>10. ParseDoubleQuoted(s) = Closed(e)
  BY <1>1, <1>9 DEF ParseDoubleQuoted, Read
<1>11. e.value \in Seq(T)
  BY <1>2, <1>8, <1>9 DEF Reading
<1>12. Closed(e).ok => Closed(e).value = e.value
  BY DEF Closed, Failed
<1> QED
  BY <1>10, <1>11, <1>12

\* What is read between single quotes.
LEMMA SingleQuotedSeq ==
  ASSUME NEW T, NEW s \in Seq(T), ParseSingleQuoted(s).ok
  PROVE  ParseSingleQuoted(s).value \in Seq(T)
<1>1. PICK q, n : q = Positions(s, "'") /\ n = Len(s)
  OBVIOUS
<1>2. n \in Nat /\ q \in SUBSET (1..n) /\ q \in SUBSET Nat
  BY <1>1 DEF Positions
<1>3. q # {} /\ ParseSingleQuoted(s).value = SubSeq(s, 1, Smallest(q) - 1)
  BY <1>1 DEF ParseSingleQuoted, UpToQuote, Failed
<1>4. \E i \in q : \A j \in q : i <= j
  BY <1>2, <1>3, LeastNatural
<1>5. PICK m : m = Smallest(q)
  OBVIOUS
<1>6. m \in q
  BY <1>4, <1>5 DEF Smallest
<1>7. m - 1 \in Int /\ m - 1 <= Len(s)
  BY <1>1, <1>2, <1>6
<1>8. SubSeq(s, 1, m - 1) \in Seq(T)
  BY <1>7, SubSeqSeq
<1> QED
  BY <1>3, <1>5, <1>8

\* What parse_value reads.
LEMMA ValueSeq ==
  ASSUME NEW T, Closes(T), NEW s \in Seq(T), ParseValue(s).ok
  PROVE  ParseValue(s).value \in Seq(T)
<1>1. CASE StartsWith(s, {"\""})
  <2>1. Tail(s) \in Seq(T)
    <3>1. s \in Seq(T) /\ s # << >>
      BY <1>1 DEF StartsWith
    <3> QED
      BY ONLY <3>1
  <2>2. s[1] = "\""
    BY <1>1 DEF StartsWith
  <2>3. ~StartsWith(s, {"'"})
    BY <2>2 DEF StartsWith
  <2>4. ParseValue(s) = ParseDoubleQuoted(Tail(s))
    BY <1>1, <2>3 DEF ParseValue
  <2> QED
    BY <2>1, <2>4, DoubleQuotedSeq
<1>2. CASE StartsWith(s, {"'"})
  <2>1. Tail(s) \in Seq(T)
    <3>1. s \in Seq(T) /\ s # << >>
      BY <1>2 DEF StartsWith
    <3> QED
      BY ONLY <3>1
  <2>2. s[1] = "'"
    BY <1>2 DEF StartsWith
  <2>3. ~StartsWith(s, {"\""})
    BY <2>2 DEF StartsWith
  <2>4. ParseValue(s) = ParseSingleQuoted(Tail(s))
    BY <1>2, <2>3 DEF ParseValue
  <2> QED
    BY <2>1, <2>4, SingleQuotedSeq
<1>3. CASE ~StartsWith(s, {"\""}) /\ ~StartsWith(s, {"'"})
  <2>1. ParseValue(s) = [ok |-> TRUE, value |-> s]
    BY <1>3 DEF ParseValue
  <2> QED
    BY <2>1
<1> QED
  BY <1>1, <1>2, <1>3

\* An assignment has a valid key, and its text is part of the line.
LEMMA AssignmentParts ==
  ASSUME NEW T, NEW s \in Seq(T), Assignment(s).ok
  PROVE  Assignment(s).key \in Keys /\ Assignment(s).raw \in Seq(T)
<1>1. PICK t : t = StripExport(s)
  OBVIOUS
<1>2. t \in Seq(T)
  <2>1. Len(s) \in Int /\ 3 \in Nat \ {0} /\ Len(s) <= Len(s)
    OBVIOUS
  <2>2. SubSeq(s, 3, Len(s)) \in Seq(T)
    BY <2>1, SubSeqSeq
  <2> QED
    BY <1>1, <2>2 DEF StripExport
<1>3. PICK q, n : q = Positions(t, "=") /\ n = Len(t)
  OBVIOUS
<1>4. n \in Nat /\ q \in SUBSET (1..n) /\ q \in SUBSET Nat
  BY <1>2, <1>3 DEF Positions
<1>5. PICK key, raw, m : /\ key = Trim(SubSeq(t, 1, Smallest(q) - 1))
                         /\ raw = SubSeq(t, Smallest(q) + 1, Len(t)) /\ m = Smallest(q)
  OBVIOUS
<1>6. Assignment(s) = SplitAt(t, q)
  BY <1>1, <1>3 DEF Assignment, SplitOnce
<1>7. q # {}
  BY <1>6 DEF SplitAt, Failed
<1>8. Assignment(s) = KeyAndRaw(key, raw)
  BY <1>5, <1>6, <1>7 DEF SplitAt
<1>9. Assignment(s) = [ok |-> TRUE, key |-> key[1], raw |-> raw] /\ key[1] \in Keys
  BY <1>8 DEF KeyAndRaw, Failed
<1>10. \E i \in q : \A j \in q : i <= j
  BY <1>4, <1>7, LeastNatural
<1>11. m \in q
  BY <1>5, <1>10 DEF Smallest
<1>12. m + 1 \in Nat \ {0} /\ n \in Int /\ n <= Len(t)
  BY <1>3, <1>4, <1>11
<1>13. SubSeq(t, m + 1, n) \in Seq(T)
  BY <1>2, <1>12, SubSeqSeq
<1> QED
  BY <1>3, <1>5, <1>9, <1>13

\* What parse_assignment accepts: a valid key, and a value of the line's tokens.
LEMMA ParsedAssignment ==
  ASSUME NEW T, Closes(T), NEW s \in Seq(T), ParseAssignment(s).ok
  PROVE  ParseAssignment(s).key \in Keys /\ ParseAssignment(s).value \in Seq(T)
<1>1. PICK a : a = Assignment(s)
  OBVIOUS
<1>2. PICK v : v = ParseValue(Trim(a.raw))
  OBVIOUS
<1>3. a.ok /\ ParseAssignment(s) = Valued(a, v)
  BY <1>1, <1>2 DEF ParseAssignment, Evaluate, Failed
<1>4. v.ok /\ ParseAssignment(s) = [ok |-> TRUE, key |-> a.key, value |-> v.value]
  BY <1>3 DEF Valued, Failed
<1>5. a.key \in Keys /\ a.raw \in Seq(T)
  BY <1>1, <1>3, AssignmentParts
<1>6. Trim(a.raw) \in Seq(T)
  BY <1>5, TrimSeq
<1>7. v.value \in Seq(T)
  BY <1>2, <1>4, <1>6, ValueSeq
<1> QED
  BY <1>4, <1>5, <1>7

\* Entries of the tokens T, and the states of the parser.
EntriesOf(T) == [key : Keys, value : Seq(T), group : Seq(T)]
Parsing(T) == [ok : BOOLEAN, entries : Seq(EntriesOf(T)), group : Seq(T), boundary : BOOLEAN,
               quote : T \cup {""}, held : Seq(T), stopped : BOOLEAN]

\* An issue, a blank line and the end of a quote leave a state of the parser.
LEMMA FlagsParse ==
  ASSUME NEW T, NEW st \in Parsing(T)
  PROVE  /\ [st EXCEPT !.ok = FALSE] \in Parsing(T)
         /\ [st EXCEPT !.ok = FALSE, !.stopped = TRUE] \in Parsing(T)
         /\ [st EXCEPT !.boundary = TRUE] \in Parsing(T)
         /\ [st EXCEPT !.quote = ""] \in Parsing(T)
<1>1. PICK E, S, Q : E = Seq(EntriesOf(T)) /\ S = Seq(T) /\ Q = T \cup {""}
  OBVIOUS
<1>2. "" \in Q
  BY <1>1
<1>3. Parsing(T) = [ok : BOOLEAN, entries : E, group : S, boundary : BOOLEAN,
                    quote : Q, held : S, stopped : BOOLEAN]
  BY <1>1 DEF Parsing
<1>4. st \in [ok : BOOLEAN, entries : E, group : S, boundary : BOOLEAN,
              quote : Q, held : S, stopped : BOOLEAN]
  BY <1>3
<1> QED
  BY ONLY <1>2, <1>3, <1>4

\* So do other entries,
LEMMA EntriesParse ==
  ASSUME NEW T, NEW st \in Parsing(T), NEW es \in Seq(EntriesOf(T))
  PROVE  [st EXCEPT !.entries = es, !.boundary = FALSE] \in Parsing(T)
<1>1. PICK E, S, Q : E = Seq(EntriesOf(T)) /\ S = Seq(T) /\ Q = T \cup {""}
  OBVIOUS
<1>2. es \in E
  BY <1>1
<1>3. Parsing(T) = [ok : BOOLEAN, entries : E, group : S, boundary : BOOLEAN,
                    quote : Q, held : S, stopped : BOOLEAN]
  BY <1>1 DEF Parsing
<1>4. st \in [ok : BOOLEAN, entries : E, group : S, boundary : BOOLEAN,
              quote : Q, held : S, stopped : BOOLEAN]
  BY <1>3
<1> QED
  BY ONLY <1>2, <1>3, <1>4

\* another group,
LEMMA GroupParses ==
  ASSUME NEW T, NEW st \in Parsing(T), NEW s \in Seq(T)
  PROVE  [st EXCEPT !.group = s, !.boundary = FALSE] \in Parsing(T)
<1>1. PICK E, S, Q : E = Seq(EntriesOf(T)) /\ S = Seq(T) /\ Q = T \cup {""}
  OBVIOUS
<1>2. s \in S
  BY <1>1
<1>3. Parsing(T) = [ok : BOOLEAN, entries : E, group : S, boundary : BOOLEAN,
                    quote : Q, held : S, stopped : BOOLEAN]
  BY <1>1 DEF Parsing
<1>4. st \in [ok : BOOLEAN, entries : E, group : S, boundary : BOOLEAN,
              quote : Q, held : S, stopped : BOOLEAN]
  BY <1>3
<1> QED
  BY ONLY <1>2, <1>3, <1>4

\* more of a quoted value,
LEMMA HeldParses ==
  ASSUME NEW T, NEW st \in Parsing(T), NEW s \in Seq(T)
  PROVE  [st EXCEPT !.held = s] \in Parsing(T)
<1>1. PICK E, S, Q : E = Seq(EntriesOf(T)) /\ S = Seq(T) /\ Q = T \cup {""}
  OBVIOUS
<1>2. s \in S
  BY <1>1
<1>3. Parsing(T) = [ok : BOOLEAN, entries : E, group : S, boundary : BOOLEAN,
                    quote : Q, held : S, stopped : BOOLEAN]
  BY <1>1 DEF Parsing
<1>4. st \in [ok : BOOLEAN, entries : E, group : S, boundary : BOOLEAN,
              quote : Q, held : S, stopped : BOOLEAN]
  BY <1>3
<1> QED
  BY ONLY <1>2, <1>3, <1>4

\* and a quote that opens.
LEMMA OpenParses ==
  ASSUME NEW T, NEW st \in Parsing(T), NEW s \in Seq(T), NEW q \in T
  PROVE  [st EXCEPT !.quote = q, !.held = s] \in Parsing(T)
<1>1. PICK E, S, Q : E = Seq(EntriesOf(T)) /\ S = Seq(T) /\ Q = T \cup {""}
  OBVIOUS
<1>2. s \in S /\ q \in Q
  BY <1>1
<1>3. Parsing(T) = [ok : BOOLEAN, entries : E, group : S, boundary : BOOLEAN,
                    quote : Q, held : S, stopped : BOOLEAN]
  BY <1>1 DEF Parsing
<1>4. st \in [ok : BOOLEAN, entries : E, group : S, boundary : BOOLEAN,
              quote : Q, held : S, stopped : BOOLEAN]
  BY <1>3
<1> QED
  BY ONLY <1>2, <1>3, <1>4

\* An accepted assignment adds an entry of the line's tokens, in the group of the parser.
LEMMA FinishParses ==
  ASSUME NEW T, Closes(T), NEW st \in Parsing(T), NEW line \in Seq(T)
  PROVE  Finish(st, line) \in Parsing(T)
<1>1. PICK a : a = ParseAssignment(line)
  OBVIOUS
<1>2. Finish(st, line) = AddEntry(st, a)
  BY <1>1 DEF Finish
<1>3. st.group \in Seq(T) /\ st.entries \in Seq(EntriesOf(T))
  BY DEF Parsing
<1>4. CASE a.ok /\ \A i \in DOMAIN st.entries : st.entries[i].key # a.key
  <2>1. PICK e, es : e = [key |-> a.key, value |-> a.value, group |-> st.group]
                     /\ es = Append(st.entries, e)
    OBVIOUS
  <2>2. a.key \in Keys /\ a.value \in Seq(T)
    BY <1>1, <1>4, ParsedAssignment
  <2>3. e \in EntriesOf(T)
    BY <1>3, <2>1, <2>2 DEF EntriesOf
  <2>4. es \in Seq(EntriesOf(T))
    BY <1>3, <2>1, <2>3
  <2>5. AddEntry(st, a) = [st EXCEPT !.entries = es, !.boundary = FALSE]
    BY <1>4, <2>1 DEF AddEntry, Parsing
  <2>6. [st EXCEPT !.entries = es, !.boundary = FALSE] \in Parsing(T)
    BY <2>4, EntriesParse
  <2> QED
    BY <1>2, <2>5, <2>6
<1>5. CASE ~(a.ok /\ \A i \in DOMAIN st.entries : st.entries[i].key # a.key)
  <2>1. AddEntry(st, a) = [st EXCEPT !.ok = FALSE]
    BY <1>5 DEF AddEntry
  <2> QED
    BY <1>2, <2>1, FlagsParse
<1> QED
  BY <1>4, <1>5

\* A comment may name a group, in its own tokens.
LEMMA CommentParses ==
  ASSUME NEW T, NEW lines, NEW st \in Parsing(T), NEW index, NEW comment \in Seq(T)
  PROVE  ParseComment(lines, st, index, comment) \in Parsing(T)
<1>1. PICK none : none = << >>
  OBVIOUS
<1>2. none \in Seq(T)
  BY <1>1
<1>3. GroupHeading(comment) \in Seq(T)
  <2>1. CASE Len(comment) > 1
    <3>1. Len(comment) - 1 \in Int /\ 2 \in Nat \ {0} /\ Len(comment) - 1 <= Len(comment)
      OBVIOUS
    <3>2. SubSeq(comment, 2, Len(comment) - 1) \in Seq(T)
      BY <3>1, SubSeqSeq
    <3>3. NormalizeGroupName(SubSeq(comment, 2, Len(comment) - 1)) \in Seq(T)
      BY <3>2, NormalizeSeq
    <3> QED
      BY <1>1, <1>2, <3>3 DEF GroupHeading
  <2>2. CASE ~(Len(comment) > 1)
    BY <1>1, <1>2, <2>2 DEF GroupHeading
  <2> QED
    BY <2>1, <2>2
<1>4. PlainGroup(lines, index, comment) \in Seq(T)
  <2>1. NormalizeGroupName(comment) \in Seq(T)
    BY NormalizeSeq
  <2> QED
    BY <1>1, <1>2, <2>1 DEF PlainGroup, Headline
<1>5. PICK h, g : /\ h = GroupHeading(comment)
                  /\ g = IF h = << >> /\ st.boundary THEN PlainGroup(lines, index, comment)
                         ELSE h
  OBVIOUS
<1>6. g \in Seq(T)
  BY <1>3, <1>4, <1>5
<1>7. ParseComment(lines, st, index, comment) = EnterGroup(st, g)
  BY <1>5 DEF ParseComment, Comment
<1>8. [st EXCEPT !.group = g, !.boundary = FALSE] \in Parsing(T)
  BY <1>6, GroupParses
<1> QED
  BY <1>7, <1>8 DEF EnterGroup

\* An assignment starts.
LEMMA StartParses ==
  ASSUME NEW T, Closes(T), NEW st \in Parsing(T), NEW s \in Seq(T)
  PROVE  ParseStart(st, s) \in Parsing(T)
<1>1. CASE Len(st.entries) >= MaxEntries
  <2>1. ParseStart(st, s) = [st EXCEPT !.ok = FALSE, !.stopped = TRUE]
    BY <1>1 DEF ParseStart
  <2> QED
    BY <2>1, FlagsParse
<1>2. CASE ~(Len(st.entries) >= MaxEntries) /\ OpenQuote(s) = ""
  <2>1. ParseStart(st, s) = Finish(st, s)
    BY <1>2 DEF ParseStart, Hold
  <2> QED
    BY <2>1, FinishParses
<1>3. CASE ~(Len(st.entries) >= MaxEntries) /\ OpenQuote(s) # ""
  <2>1. PICK q, a, raw : q = OpenQuote(s) /\ a = Assignment(s) /\ raw = TrimStart(a.raw)
    OBVIOUS
  <2>2. q = OpenQuoteOf(a)
    BY <2>1 DEF OpenQuote
  <2>3. a.ok /\ q = Unclosed(raw)
    BY <1>3, <2>1, <2>2 DEF OpenQuoteOf
  <2>4. raw \in Seq(T)
    BY <2>1, <2>3, AssignmentParts, TrimSeq
  <2>5. StartsWith(raw, Quotes) /\ q = raw[1]
    BY <1>3, <2>1, <2>3 DEF Unclosed
  <2>6. raw # << >>
    BY <2>5 DEF StartsWith
  <2>7. q \in T
    BY <2>4, <2>5, <2>6
  <2>8. ParseStart(st, s) = [st EXCEPT !.quote = q, !.held = s]
    BY <1>3, <2>1 DEF ParseStart, Hold
  <2>9. [st EXCEPT !.quote = q, !.held = s] \in Parsing(T)
    BY <2>7, OpenParses
  <2> QED
    BY <2>8, <2>9
<1> QED
  BY <1>1, <1>2, <1>3

\* A line that continues a quoted value is part of it.
LEMMA ContinueParses ==
  ASSUME NEW T, Closes(T), NEW st \in Parsing(T), NEW line \in Seq(T)
  PROVE  Continue(st, line) \in Parsing(T)
<1>1. PICK held, nl, long : held = st.held /\ nl = <<"\n">> /\ long = (held \o nl) \o line
  OBVIOUS
<1>2. st.entries \in Seq(EntriesOf(T)) /\ held \in Seq(T)
  BY <1>1 DEF Parsing
<1>3. nl \in Seq(T)
  <2>1. PICK c : c = "\n"
    OBVIOUS
  <2>2. c \in T /\ nl = <<c>>
    BY <1>1, <2>1 DEF Closes
  <2> QED
    BY ONLY <2>2
<1>4. long \in Seq(T)
  <2>1. held \in Seq(T) /\ nl \in Seq(T) /\ line \in Seq(T) /\ long = (held \o nl) \o line
    BY <1>1, <1>2, <1>3
  <2> QED
    BY ONLY <2>1
<1>5. CASE QuotedValueIsClosed(line, st.quote)
  <2>1. PICK open : open = [st EXCEPT !.quote = ""]
    OBVIOUS
  <2>2. open \in Parsing(T)
    BY <2>1, FlagsParse
  <2>3. Continue(st, line) = Finish(open, long)
    BY <1>1, <1>5, <2>1 DEF Continue
  <2> QED
    BY <1>4, <2>2, <2>3, FinishParses
<1>6. CASE ~QuotedValueIsClosed(line, st.quote)
  <2>1. Continue(st, line) = [st EXCEPT !.held = long]
    BY <1>1, <1>6 DEF Continue, Parsing
  <2> QED
    BY <1>4, <2>1, HeldParses
<1> QED
  BY <1>5, <1>6

\* Every line leaves the parser in such a state.
LEMMA LineParses ==
  ASSUME NEW T, Closes(T), NEW st \in Parsing(T), NEW lines, NEW index,
         lines[index] \in Seq(T)
  PROVE  ParseLine(lines, st, index) \in Parsing(T)
<1>1. PICK line, trimmed : line = lines[index] /\ trimmed = Trim(line)
  OBVIOUS
<1>2. line \in Seq(T) /\ trimmed \in Seq(T) /\ TrimStart(line) \in Seq(T)
  BY <1>1, TrimSeq
<1>3. CASE st.stopped
  BY <1>3 DEF ParseLine
<1>4. CASE ~st.stopped /\ st.quote # ""
  <2>1. ParseLine(lines, st, index) = Continue(st, line)
    BY <1>1, <1>4 DEF ParseLine
  <2> QED
    BY <1>2, <2>1, ContinueParses
<1>5. CASE ~st.stopped /\ st.quote = ""
  <2>1. ParseLine(lines, st, index) = ParseTrimmed(lines, st, index, trimmed)
    BY <1>1, <1>5 DEF ParseLine
  <2>2. CASE trimmed = << >>
    <3>1. ~StartsWith(trimmed, {"#"})
      BY <2>2 DEF StartsWith
    <3>2. ParseTrimmed(lines, st, index, trimmed) = [st EXCEPT !.boundary = TRUE]
      BY <2>2, <3>1 DEF ParseTrimmed
    <3> QED
      BY <2>1, <3>2, FlagsParse
  <2>3. CASE trimmed # << >> /\ StartsWith(trimmed, {"#"})
    <3>1. PICK rest, comment : rest = Tail(trimmed) /\ comment = Trim(rest)
      OBVIOUS
    <3>2. rest \in Seq(T)
      BY ONLY <1>2, <2>3, <3>1
    <3>3. comment \in Seq(T)
      BY <3>1, <3>2, TrimSeq
    <3>4. ParseTrimmed(lines, st, index, trimmed) = ParseComment(lines, st, index, comment)
      BY <2>3, <3>1 DEF ParseTrimmed
    <3> QED
      BY <2>1, <3>3, <3>4, CommentParses
  <2>4. CASE trimmed # << >> /\ ~StartsWith(trimmed, {"#"})
    <3>1. ParseTrimmed(lines, st, index, trimmed) = ParseStart(st, TrimStart(line))
      BY <1>1, <2>4 DEF ParseTrimmed
    <3> QED
      BY <1>2, <2>1, <3>1, StartParses
  <2> QED
    BY <2>2, <2>3, <2>4
<1> QED
  BY <1>3, <1>4, <1>5

\* The lines of a text have its tokens.
LEMMA LinesSeq ==
  ASSUME NEW T, NEW text \in Seq(T)
  PROVE  Lines(text) \in Seq(Seq(T))
<1>1. PICK S : S = Seq(T)
  OBVIOUS
<1>2. Begin \in Splitting(T)
  <2>1. PICK e : e = << >>
    OBVIOUS
  <2>2. e \in Seq(T) /\ e \in Seq(S)
    BY <2>1
  <2> QED
    BY <1>1, <2>1, <2>2 DEF Begin, Splitting
<1> DEFINE Good == {s \in Seq(T) : Split(Begin, s) \in Splitting(T)}
<1>3. << >> \in Good
  BY <1>2, LineFold
<1>4. ASSUME NEW s \in Good, NEW c \in T PROVE Append(s, c) \in Good
  <2>1. s \in Seq(T) /\ Split(Begin, s) \in Splitting(T)
    OBVIOUS
  <2>2. Split(Begin, Append(s, c)) = LineChar(Split(Begin, s), c)
    BY <1>2, <2>1, LineFold
  <2>3. Split(Begin, Append(s, c)) \in Splitting(T)
    BY <2>1, <2>2, LineCharType
  <2>4. Append(s, c) \in Seq(T)
    BY <2>1
  <2> QED
    BY <2>3, <2>4
<1>5. Good \in SUBSET Seq(T)
  OBVIOUS
<1> HIDE DEF Good
<1>6. Good = Seq(T)
  BY <1>3, <1>4, <1>5, SeqInduction
<1>7. PICK end : end = Split(Begin, text)
  OBVIOUS
<1>8. end.lines \in Seq(S) /\ end.current \in S
  BY <1>1, <1>6, <1>7 DEF Good, Splitting
<1>9. Append(end.lines, end.current) \in Seq(S)
  BY ONLY <1>8
<1>10. Lines(text) = LastLine(end)
  BY <1>7 DEF Lines, Split, Begin
<1> QED
  BY <1>1, <1>8, <1>9, <1>10 DEF LastLine

\* Whatever is in a file, an entry that is read has a valid key, and its value and group are
\* made of the file's tokens and of what escapes stand for (dotenv::parse).
LEMMA EntriesParsed ==
  ASSUME NEW T, Closes(T), NEW text \in Seq(T)
  PROVE  Parse(text).entries \in Seq(EntriesOf(T))
<1>1. PICK L, S, n : L = Lines(text) /\ S = Seq(T) /\ n = Len(L)
  OBVIOUS
<1>2. L \in Seq(S)
  BY <1>1, LinesSeq
<1>3. n \in Nat /\ \A i \in 1..n : L[i] \in S
  <2>1. L \in Seq(S) /\ n = Len(L)
    BY <1>1, <1>2
  <2> QED
    BY ONLY <2>1
<1>4. PICK f : /\ f[0] = Start
               /\ \A i \in 1..n : f[i] = ParseLine(L, f[i - 1], i)
               /\ ParseLines(L) = Result(f[n])
  BY <1>1, <1>3, ParseRun
<1> DEFINE Good == {i \in Nat : i <= n => f[i] \in Parsing(T)}
<1>5. 0 \in Good
  <2>1. PICK e, E : e = << >> /\ E = EntriesOf(T)
    OBVIOUS
  <2>2. e \in Seq(E) /\ e \in Seq(T)
    BY <2>1
  <2>3. Start \in Parsing(T)
    BY <2>1, <2>2 DEF Start, Parsing
  <2> QED
    BY <1>4, <2>3
<1>6. ASSUME NEW i \in Good PROVE i + 1 \in Good
  <2>1. i \in Nat /\ (i <= n => f[i] \in Parsing(T))
    OBVIOUS
  <2>2. CASE i + 1 <= n
    <3>1. i + 1 \in 1..n /\ (i + 1) - 1 = i /\ i <= n
      BY <1>3, <2>1, <2>2
    <3>2. f[i + 1] = ParseLine(L, f[i], i + 1)
      BY <1>4, <3>1
    <3>3. L[i + 1] \in Seq(T)
      BY <1>1, <1>3, <3>1
    <3>4. f[i + 1] \in Parsing(T)
      BY <2>1, <3>1, <3>2, <3>3, LineParses
    <3> QED
      BY <2>1, <3>4
  <2> QED
    BY <2>1, <2>2
<1>7. Good \in SUBSET Nat
  OBVIOUS
<1> HIDE DEF Good
<1>8. Good = Nat
  BY <1>5, <1>6, <1>7, Induction
<1>9. f[n] \in Parsing(T)
  BY <1>3, <1>8 DEF Good
<1>10. Parse(text).entries = f[n].entries
  <2>1. PICK end : end = f[n]
    OBVIOUS
  <2>2. Parse(text) = Result(end)
    BY <1>1, <1>4, <2>1 DEF Parse
  <2>3. Result(end).entries = end.entries
    BY DEF Result
  <2> QED
    BY <2>1, <2>2, <2>3
<1> QED
  BY <1>9, <1>10 DEF Parsing

--------------------------------------------------------------------------------
(* What an export contains.                                                     *)

\* An export consists of the tokens of its entries and of the format.
LEMMA RenderSeq ==
  ASSUME NEW T, Marks \cup Keys \subseteq T, NEW es, es \in Seq(EntriesOf(T))
  PROVE  Render(es) \in Seq(T)
<1>1. PICK E, n, order, out : /\ E = EntriesOf(T) /\ n = Len(es)
                              /\ order = RenderOrder(es) /\ out = Ordered(es)
  OBVIOUS
<1>2. es \in Seq(E) /\ n = Len(es)
  BY <1>1
<1>3. n \in Nat /\ DOMAIN es = 1..n /\ \A i \in 1..n : es[i] \in E
  BY ONLY <1>2
<1>4. order \in [1..n -> 1..n]
  <2>1. Sorts(es, n, order)
    BY <1>1, <1>3, OrderIs
  <2> QED
    BY <2>1 DEF Sorts
<1>5. out = [p \in 1..n |-> es[order[p]]]
  BY <1>1, <1>4 DEF Ordered
<1>6. ASSUME NEW p \in 1..n PROVE RenderEntry(out, p) \in Seq(T)
  <2>1. PICK entry : entry = out[p]
    OBVIOUS
  <2>2. order[p] \in 1..n
    BY <1>4
  <2>3. entry \in E
    BY <1>3, <1>5, <2>1, <2>2
  <2>4. PICK k, v, name : k = entry.key /\ v = entry.value /\ name = entry.group
    OBVIOUS
  <2>5. k \in Keys /\ v \in Seq(T) /\ name \in Seq(T)
    BY <1>1, <2>3, <2>4 DEF EntriesOf
  <2>6. k = out[p].key /\ v = out[p].value /\ name = out[p].group
    BY <2>1, <2>4
  <2> QED
    BY <2>5, <2>6, RenderEntrySeq
<1>7. PICK Q, seqs : Q = Seq(T) /\ seqs = [i \in 1..n |-> RenderEntry(out, i)]
  OBVIOUS
<1>8. seqs \in [1..n -> Q]
  BY <1>6, <1>7
<1>9. seqs \in Seq(Q)
  BY ONLY <1>3, <1>8
<1>10. FlattenSeq(seqs) \in Seq(T)
  BY <1>7, <1>9, FlattenFold
<1>11. DOMAIN out = 1..n
  BY <1>5
<1>12. Render(es) = FlattenSeq(seqs)
  BY <1>1, <1>7, <1>11 DEF Render, RenderEntries
<1> QED
  BY <1>10, <1>12

\* An environment without variables exports nothing, which is no file.
LEMMA NothingRefused == ~Parse(Render(<< >>)).ok
<1>1. PICK none, text, n : none = << >> /\ text = Render(none) /\ n = 0
  OBVIOUS
<1>2. DOMAIN none = 1..n /\ n \in Nat /\ Len(none) = n
  BY <1>1
<1>3. DOMAIN Ordered(none) = {}
  <2>1. PICK order : order = RenderOrder(none)
    OBVIOUS
  <2>2. order \in [1..n -> 1..n]
    <3>1. Sorts(none, n, order)
      BY <1>2, <2>1, OrderIs
    <3> QED
      BY <3>1 DEF Sorts
  <2>3. 1..n = {}
    BY <1>1
  <2> QED
    BY <2>1, <2>2, <2>3 DEF Ordered
<1>4. text = << >>
  <2>1. PICK seqs : seqs = [i \in DOMAIN Ordered(none) |-> RenderEntry(Ordered(none), i)]
    OBVIOUS
  <2>2. seqs = << >>
    BY <1>3, <2>1
  <2>3. text = FlattenSeq(<< >>)
    BY <1>1, <2>1, <2>2 DEF Render, RenderEntries
  <2> QED
    BY <2>3, FlattenFold
<1>5. Lines(text) = << >>
  <2>1. PICK end, ls : end = [lines |-> << >>, current |-> << >>] /\ ls = Lines(text)
    OBVIOUS
  <2>2. ls = LastLine(end)
    BY <1>4, <2>1, SplitEmpty DEF Lines, SplitInto, Split, Begin
  <2> QED
    BY <2>1, <2>2 DEF LastLine
<1>6. PICK L : L = << >>
  OBVIOUS
<1>7. Len(L) \in Nat /\ Len(L) = 0
  BY <1>6
<1>8. ParseLines(L) = Result(Start)
  BY <1>7, ParseRun
<1>9. Result(Start).ok = FALSE
  BY DEF Result, Start
<1> QED
  BY <1>1, <1>5, <1>6, <1>8, <1>9 DEF Parse

================================================================================
