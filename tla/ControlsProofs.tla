--------------------------- MODULE ControlsProofs ---------------------------
(***************************************************************************)
(* What TLAPS proves about the input: that the decoder of the stock VIA    *)
(* mode loses, doubles and reorders no byte and takes the longest control  *)
(* at every position, for any table of bindings and however the bytes are  *)
(* split over reads.                                                       *)
(*                                                                         *)
(* The decoder is a loop, written as a recursive function on its states.   *)
(* First, that such a function is what its equation says; then what a      *)
(* token spells, what one pass of the loop decides, and what all of them   *)
(* do; at last the line, where a decision must survive the bytes to come.  *)
(***************************************************************************)
EXTENDS Controls, TLAPS, SequenceTheorems, FiniteSetTheorems, WellFoundedInduction

-----------------------------------------------------------------------------
(***************************************************************************)
(* Numbers.                                                                *)
(***************************************************************************)
LEMMA LeastNumber ==
  ASSUME NEW T \in SUBSET Nat, T # {}
  PROVE  \E m \in T : \A n \in T : m <= n
<1> DEFINE Upto == {1 .. n : n \in T}
<1>1. IsWellFoundedOn(StrictSubsetOrdering(Nat), FiniteSubsetsOf(Nat))
  BY FS_StrictSubsetOrderingWellFounded
<1>2. Upto \subseteq FiniteSubsetsOf(Nat) /\ Upto # {}
  <2>1. \A n \in T : 1 .. n \in FiniteSubsetsOf(Nat)
    BY FS_Interval DEF FiniteSubsetsOf
  <2> QED
    BY <2>1
<1>3. PICK x \in Upto : \A y \in Upto : ~(<<y, x>> \in StrictSubsetOrdering(Nat))
  <2> HIDE DEF Upto
  <2> QED
    BY <1>1, <1>2, WFMin
<1>4. PICK m \in T : x = 1 .. m
  OBVIOUS
<1>5. ASSUME NEW n \in T, n < m
      PROVE  FALSE
  <2>1. 1 .. n \subseteq 1 .. m /\ m \in 1 .. m /\ m \notin 1 .. n
    BY <1>5
  <2>2. <<1 .. n, x>> \in StrictSubsetOrdering(Nat)
    BY <1>4, <2>1 DEF StrictSubsetOrdering
  <2> QED
    BY <1>3, <2>2
<1> QED
  BY <1>5

LEMMA ByCounting ==
  ASSUME NEW T \in SUBSET Nat, 0 \in T, \A n \in T : n + 1 \in T
  PROVE  T = Nat
<1> DEFINE Rest == Nat \ T
<1>1. ASSUME Rest # {}
      PROVE  FALSE
  <2>1. PICK m \in Rest : \A n \in Rest : m <= n
    <3> HIDE DEF Rest
    <3>1. Rest \in SUBSET Nat  BY DEF Rest
    <3> QED BY <1>1, <3>1, LeastNumber
  <2>2. m \in Nat /\ m # 0
    OBVIOUS
  <2>3. m - 1 \in T /\ (m - 1) + 1 = m
    BY <2>1, <2>2
  <2> QED
    BY <2>3
<1> QED
  BY <1>1

-----------------------------------------------------------------------------
(***************************************************************************)
(* Loops.  A loop stops in the states of stop, and goes to next from any   *)
(* other; size falls with every pass.  Then there is a function that gives *)
(* each state the one the loop ends in: put together from functions that   *)
(* do so for the states of less than some size, which agree.               *)
(***************************************************************************)
Runs(f, S, stop, next) ==
  \A x \in S : f[x] = IF x \in stop THEN x ELSE f[next[x]]

Under(S, size, n) == {x \in S : size[x] < n}

LEMMA RunsAgree ==
  ASSUME NEW S, NEW stop \in SUBSET S, NEW next \in [S -> S], NEW size \in [S -> Nat],
         \A x \in S \ stop : size[next[x]] < size[x],
         NEW m \in Nat, NEW n \in Nat, m <= n, NEW f, NEW g,
         Runs(f, Under(S, size, m), stop, next), Runs(g, Under(S, size, n), stop, next)
  PROVE  \A x \in Under(S, size, m) : f[x] = g[x]
<1> DEFINE T == {k \in Nat : \A x \in S : size[x] < k /\ size[x] < m => f[x] = g[x]}
<1>1. 0 \in T
  OBVIOUS
<1>2. ASSUME NEW k \in T
      PROVE  k + 1 \in T
  <2>1. k \in Nat /\ \A x \in S : size[x] < k /\ size[x] < m => f[x] = g[x]
    OBVIOUS
  <2>2. ASSUME NEW x \in S, size[x] < k + 1, size[x] < m
        PROVE  f[x] = g[x]
    <3>1. size[x] \in Nat /\ x \in Under(S, size, m) /\ x \in Under(S, size, n)
      BY <2>2 DEF Under
    <3>2. /\ f[x] = IF x \in stop THEN x ELSE f[next[x]]
          /\ g[x] = IF x \in stop THEN x ELSE g[next[x]]
      BY <3>1 DEF Runs
    <3>3. ASSUME x \notin stop PROVE f[next[x]] = g[next[x]]
      <4>1. next[x] \in S /\ size[next[x]] \in Nat /\ size[next[x]] < size[x]
        BY <3>3
      <4>2. size[next[x]] < k /\ size[next[x]] < m
        BY <2>1, <2>2, <3>1, <4>1
      <4> QED
        BY <2>1, <4>1, <4>2
    <3> QED
      BY <3>2, <3>3
  <2> QED
    BY <2>1, <2>2
<1>3. T = Nat
  <2> HIDE DEF T
  <2>1. T \in SUBSET Nat  BY DEF T
  <2> QED BY <1>1, <1>2, <2>1, ByCounting
<1>4. m \in T
  BY <1>3
<1> QED
  BY <1>4 DEF Under

LEMMA RunsUnder ==
  ASSUME NEW S, NEW stop \in SUBSET S, NEW next \in [S -> S], NEW size \in [S -> Nat],
         \A x \in S \ stop : size[next[x]] < size[x], NEW n \in Nat
  PROVE  \E f : Runs(f, Under(S, size, n), stop, next)
<1> DEFINE T == {m \in Nat : \E f : Runs(f, Under(S, size, m), stop, next)}
<1>1. 0 \in T
  <2>1. Under(S, size, 0) = {}
    BY DEF Under
  <2> QED
    BY <2>1 DEF Runs
<1>2. ASSUME NEW m \in T
      PROVE  m + 1 \in T
  <2>1. m \in Nat
    OBVIOUS
  <2>2. PICK f : Runs(f, Under(S, size, m), stop, next)
    OBVIOUS
  <2> DEFINE more == Under(S, size, m + 1)
             less == Under(S, size, m)
             g == [x \in more |-> IF x \in less THEN f[x]
                                  ELSE IF x \in stop THEN x ELSE f[next[x]]]
  <2>3. ASSUME NEW x \in more
        PROVE  /\ x \in S /\ (x \notin stop => next[x] \in less /\ next[x] \in more)
               /\ less \subseteq more
    BY <2>1, <2>3 DEF Under
  <2>4. /\ \A x \in more : g[x] = IF x \in less THEN f[x]
                                  ELSE IF x \in stop THEN x ELSE f[next[x]]
        /\ \A x \in less : f[x] = IF x \in stop THEN x ELSE f[next[x]]
    BY <2>2 DEF Runs
  <2> HIDE DEF g, more, less
  <2>5. Runs(g, more, stop, next)
    BY <2>3, <2>4 DEF Runs
  <2> QED
    BY <2>1, <2>5 DEF more
<1>3. T = Nat
  <2> HIDE DEF T
  <2>1. T \in SUBSET Nat  BY DEF T
  <2> QED BY <1>1, <1>2, <2>1, ByCounting
<1> QED
  BY <1>3

\* f gives each state the one the loop ends in: the equation of a loop.
Ends(f, S, stop, next) == f = [x \in S |-> IF x \in stop THEN x ELSE f[next[x]]]

LEMMA LoopsEnd ==
  ASSUME NEW S, NEW stop \in SUBSET S, NEW next \in [S -> S], NEW size \in [S -> Nat],
         \A x \in S \ stop : size[next[x]] < size[x]
  PROVE  \E f : Ends(f, S, stop, next)
<1> DEFINE made(n) == CHOOSE f : Runs(f, Under(S, size, n), stop, next)
<1>1. \A n \in Nat : Runs(made(n), Under(S, size, n), stop, next)
  BY RunsUnder
<1> HIDE DEF made
<1> DEFINE f == [x \in S |-> made(size[x] + 1)[x]]
<1>2. \A x \in S : f[x] = made(size[x] + 1)[x]
  OBVIOUS
<1>3. f = [x \in S |-> f[x]]
  OBVIOUS
<1> HIDE DEF f
<1>4. ASSUME NEW x \in S
      PROVE  f[x] = IF x \in stop THEN x ELSE f[next[x]]
  <2>1. size[x] \in Nat /\ size[x] + 1 \in Nat /\ x \in Under(S, size, size[x] + 1)
    BY DEF Under
  <2>2. f[x] = IF x \in stop THEN x ELSE made(size[x] + 1)[next[x]]
    BY <1>1, <1>2, <2>1 DEF Runs
  <2>3. ASSUME x \notin stop
        PROVE  made(size[x] + 1)[next[x]] = f[next[x]]
    <3> DEFINE y == next[x]
    <3>1. y \in S /\ size[y] \in Nat /\ size[y] + 1 \in Nat /\ size[y] + 1 <= size[x] + 1
      BY <2>1, <2>3
    <3>2. y \in Under(S, size, size[y] + 1)
      BY <3>1 DEF Under
    <3> HIDE DEF y
    <3>3. made(size[y] + 1)[y] = made(size[x] + 1)[y]
      BY <1>1, <2>1, <3>1, <3>2, RunsAgree
    <3>4. f[y] = made(size[y] + 1)[y]
      BY <1>2, <3>1
    <3> QED
      BY <3>3, <3>4 DEF y
  <2> QED
    BY <2>2, <2>3
<1>5. f = [x \in S |-> IF x \in stop THEN x ELSE f[next[x]]]
  BY <1>3, <1>4
<1> QED
  BY <1>5 DEF Ends

-----------------------------------------------------------------------------
(***************************************************************************)
(* What tokens spell.                                                      *)
(***************************************************************************)
\* f joins the first n of the sequences s.
Joining(f, s, n) ==
  f = [i \in 1 .. n |-> IF i = 1 THEN s[i] ELSE f[i - 1] \o s[i]]

LEMMA JoiningSteps ==
  ASSUME NEW s, NEW n \in Nat, NEW f, Joining(f, s, n)
  PROVE  \A i \in 1 .. n : f[i] = IF i = 1 THEN s[i] ELSE f[i - 1] \o s[i]
BY DEF Joining

LEMMA JoinedSoFar ==
  ASSUME NEW s, NEW n \in Nat
  PROVE  \E f : Joining(f, s, n)
<1> DEFINE T == {m \in Nat : \E f : Joining(f, s, m)}
<1>1. 0 \in T
  <2> DEFINE f == [i \in 1 .. 0 |-> <<>>]
  <2>1. f = [i \in 1 .. 0 |-> IF i = 1 THEN s[i] ELSE f[i - 1] \o s[i]]
    OBVIOUS
  <2> HIDE DEF f
  <2> QED
    BY <2>1 DEF Joining
<1>2. ASSUME NEW m \in T
      PROVE  m + 1 \in T
  <2>1. m \in Nat
    OBVIOUS
  <2>2. PICK f : Joining(f, s, m)
    OBVIOUS
  <2> DEFINE last == IF m = 0 THEN s[1] ELSE f[m] \o s[m + 1]
             g == [i \in 1 .. m + 1 |-> IF i <= m THEN f[i] ELSE last]
  <2>3. /\ \A i \in 1 .. m : g[i] = f[i]
        /\ g[m + 1] = last
        /\ g = [i \in 1 .. m + 1 |-> g[i]]
    <3> HIDE DEF last
    <3> QED
      BY <2>1
  <2>4. last = IF m = 0 THEN s[1] ELSE f[m] \o s[m + 1]
    OBVIOUS
  <2> HIDE DEF g, last
  <2>5. ASSUME NEW i \in 1 .. m + 1
        PROVE  g[i] = IF i = 1 THEN s[i] ELSE g[i - 1] \o s[i]
    <3>1. CASE i \in 1 .. m
      <4>1. i # 1 => i - 1 \in 1 .. m
        BY <2>1, <3>1
      <4>2. f[i] = IF i = 1 THEN s[i] ELSE f[i - 1] \o s[i]
        BY <2>1, <2>2, <3>1, JoiningSteps
      <4> QED
        BY <2>3, <3>1, <4>1, <4>2
    <3>2. CASE i = m + 1
      <4>1. CASE m = 0
        <5>1. i = 1  BY <3>2, <4>1
        <5> QED BY <2>3, <2>4, <3>2, <4>1, <5>1
      <4>2. CASE m # 0
        <5>1. i # 1 /\ i - 1 = m /\ m \in 1 .. m
          BY <2>1, <3>2, <4>2
        <5> QED BY <2>3, <2>4, <3>2, <4>2, <5>1
      <4> QED
        BY <4>1, <4>2
    <3> QED
      BY <2>1, <3>1, <3>2
  <2>6. Joining(g, s, m + 1)
    BY <2>3, <2>5 DEF Joining
  <2> QED
    BY <2>1, <2>6
<1>3. T = Nat
  <2> HIDE DEF T
  <2>1. T \in SUBSET Nat  BY DEF T
  <2> QED BY <1>1, <1>2, <2>1, ByCounting
<1> QED
  BY <1>3

Alike(s, t, n) == \A i \in 1 .. n : s[i] = t[i]

LEMMA JoinedAlike ==
  ASSUME NEW s, NEW t, NEW n \in Nat, NEW f, NEW g,
         Joining(f, s, n), Joining(g, t, n + 1), Alike(s, t, n)
  PROVE  Alike(f, g, n)
<1> DEFINE T == {k \in Nat : k \in 1 .. n => f[k] = g[k]}
<1>1. 0 \in T
  OBVIOUS
<1>2. ASSUME NEW k \in T
      PROVE  k + 1 \in T
  <2>1. k \in Nat /\ (k \in 1 .. n => f[k] = g[k])
    OBVIOUS
  <2>2. ASSUME k + 1 \in 1 .. n
        PROVE  f[k + 1] = g[k + 1]
    <3>1. n + 1 \in Nat /\ k + 1 \in 1 .. n + 1 /\ (k + 1 # 1 => (k + 1) - 1 = k /\ k \in 1 .. n)
      BY <2>1, <2>2
    <3>2. /\ f[k + 1] = IF k + 1 = 1 THEN s[k + 1] ELSE f[(k + 1) - 1] \o s[k + 1]
          /\ g[k + 1] = IF k + 1 = 1 THEN t[k + 1] ELSE g[(k + 1) - 1] \o t[k + 1]
      BY <2>2, <3>1, JoiningSteps
    <3>3. s[k + 1] = t[k + 1]
      BY <2>2 DEF Alike
    <3>4. CASE k + 1 = 1
      BY <3>2, <3>3, <3>4
    <3>5. CASE k + 1 # 1
      <4>1. f[(k + 1) - 1] = g[(k + 1) - 1]
        BY <2>1, <3>1, <3>5
      <4> QED
        BY <3>2, <3>3, <3>5, <4>1
    <3> QED
      BY <3>4, <3>5
  <2> QED
    BY <2>1, <2>2
<1>3. T = Nat
  <2> HIDE DEF T
  <2>1. T \in SUBSET Nat  BY DEF T
  <2> QED BY <1>1, <1>2, <2>1, ByCounting
<1> QED
  BY <1>3 DEF Alike

\* FlattenSeq of one sequence more.
LEMMA FlattenAppend ==
  ASSUME NEW A, NEW s \in Seq(Seq(A)), NEW x \in Seq(A)
  PROVE  FlattenSeq(Append(s, x)) = FlattenSeq(s) \o x
<1> DEFINE n == Len(s)
           t == Append(s, x)
<1>1. /\ n \in Nat /\ Len(t) = n + 1 /\ t[n + 1] = x
      /\ \A i \in 1 .. n : t[i] = s[i]
  BY AppendProperties, LenProperties
<1> DEFINE f == CHOOSE h : Joining(h, s, n)
           g == CHOOSE h : Joining(h, t, n + 1)
<1>2. Joining(f, s, n) /\ Joining(g, t, n + 1)
  <2> HIDE DEF n, t
  <2>1. n + 1 \in Nat  BY <1>1
  <2> QED BY <1>1, <2>1, JoinedSoFar
<1>3. FlattenSeq(t) = g[n + 1]
  <2>1. Len(t) # 0  BY <1>1
  <2> QED BY <1>1, <2>1 DEF FlattenSeq, Joining
<1>4. FlattenSeq(s) = IF n = 0 THEN s ELSE f[n]
  BY DEF FlattenSeq, Joining
<1> HIDE DEF f, g, t
<1>5. g[n + 1] = IF n + 1 = 1 THEN t[n + 1] ELSE g[(n + 1) - 1] \o t[n + 1]
  <2> HIDE DEF n
  <2>1. n + 1 \in Nat /\ n + 1 \in 1 .. n + 1  BY <1>1
  <2> QED BY <1>2, <2>1, JoiningSteps
<1>6. CASE n = 0
  <2>1. s = <<>>
    BY <1>6, EmptySeq
  <2>2. <<>> \o x = x
    BY ConcatEmptySeq
  <2>3. n + 1 = 1
    BY <1>6
  <2> QED
    BY <1>1, <1>3, <1>4, <1>5, <1>6, <2>1, <2>2, <2>3 DEF t
<1>7. CASE n # 0
  <2> HIDE DEF n
  <2>1. n \in 1 .. n /\ n + 1 # 1 /\ (n + 1) - 1 = n /\ n <= n + 1 /\ n + 1 \in Nat
    BY <1>1, <1>7
  <2>2. f[n] = g[n]
    <3>1. Alike(s, t, n)
      BY <1>1 DEF Alike
    <3>2. Alike(f, g, n)
      BY <1>1, <1>2, <3>1, JoinedAlike
    <3> QED
      BY <2>1, <3>2 DEF Alike
  <2> QED
    BY <1>1, <1>3, <1>4, <1>5, <1>7, <2>1, <2>2 DEF t
<1> QED
  BY <1>6, <1>7

Text == Seq(STRING)

Associative(s, t, u) == (s \o t) \o u = s \o (t \o u)

LEMMA JoinAssociates ==
  ASSUME NEW s \in Text, NEW t \in Text, NEW u \in Text
  PROVE  Associative(s, t, u)
BY ConcatAssociative DEF Text, Associative

Word(token) == IF token.kind = "control" THEN Bindings[token.what] ELSE <<token.what>>

Words(tokens) == [i \in DOMAIN tokens |-> Word(tokens[i])]

LEMMA OneWord ==
  ASSUME NEW x \in STRING
  PROVE  <<x>> \in Text /\ Len(<<x>>) = 1
<1>1. <<>> \in Seq(STRING) /\ Len(<<>>) = 0 /\ Append(<<>>, x) = <<x>>
  BY EmptySeq
<1> QED
  BY <1>1, AppendProperties DEF Text

LEMMA WordType ==
  ASSUME NEW token \in Tokens
  PROVE  Word(token) \in Text /\ Word(token) # <<>> /\ Len(Word(token)) \in Nat \ {0}
<1>1. CASE token \in [kind : {"control"}, what : Bound]
  <2>1. Word(token) = Bindings[token.what] /\ token.what \in DOMAIN Bindings
    BY <1>1 DEF Word, Bound
  <2>2. Word(token) \in Text /\ Word(token) # <<>>
    BY <2>1, BindingsAssumption DEF Text
  <2> QED
    BY <2>2, EmptySeq DEF Text
<1>2. CASE token \in [kind : {"text"}, what : STRING]
  <2>1. Word(token) = <<token.what>> /\ token.what \in STRING
    BY <1>2 DEF Word
  <2>2. Word(token) \in Text /\ Len(Word(token)) = 1
    BY <2>1, OneWord
  <2> QED
    BY <2>2, EmptySeq DEF Text
<1> QED
  BY <1>1, <1>2 DEF Tokens

LEMMA WordsType ==
  ASSUME NEW tokens \in Seq(Tokens)
  PROVE  /\ Words(tokens) \in Seq(Text) /\ Len(Words(tokens)) = Len(tokens)
         /\ \A i \in 1 .. Len(tokens) : Words(tokens)[i] = Word(tokens[i])
<1> DEFINE n == Len(tokens)
<1>1. n \in Nat /\ DOMAIN tokens = 1 .. n /\ \A i \in 1 .. n : tokens[i] \in Tokens
  BY LenProperties
<1>2. Words(tokens) \in [1 .. n -> Text]
  <2> HIDE DEF n
  <2>1. \A i \in 1 .. n : Word(tokens[i]) \in Text
    BY <1>1, WordType
  <2> QED
    BY <1>1, <2>1 DEF Words
<1>3. Words(tokens) \in Seq(Text)
  <2> HIDE DEF n
  <2> QED BY <1>1, <1>2, SeqDef
<1> QED
  BY <1>1, <1>2, <1>3, LenProperties DEF Words

LEMMA SpellingIs ==
  ASSUME NEW tokens
  PROVE  Spelling(tokens) = FlattenSeq(Words(tokens))
BY DEF Spelling, Words, Word

LEMMA SpellsNothing == Spelling(<<>>) = <<>>
<1>1. Words(<<>>) = <<>>
  BY DEF Words
<1> QED
  BY <1>1, SpellingIs DEF FlattenSeq

LEMMA SpellingAppend ==
  ASSUME NEW tokens \in Seq(Tokens), NEW token \in Tokens
  PROVE  Spelling(Append(tokens, token)) = Spelling(tokens) \o Word(token)
<1>1. Words(Append(tokens, token)) = Append(Words(tokens), Word(token))
  <2> DEFINE n == Len(tokens)
             longer == Append(tokens, token)
  <2>1. /\ longer \in Seq(Tokens) /\ Len(longer) = n + 1 /\ n \in Nat
        /\ \A i \in 1 .. n : longer[i] = tokens[i]
        /\ longer[n + 1] = token
    BY AppendProperties, LenProperties
  <2>2. /\ Words(longer) \in Seq(Text) /\ Len(Words(longer)) = n + 1
        /\ \A i \in 1 .. n + 1 : Words(longer)[i] = Word(longer[i])
    <3> HIDE DEF longer
    <3> QED BY <2>1, WordsType
  <2>3. /\ Words(tokens) \in Seq(Text) /\ Len(Words(tokens)) = n
        /\ \A i \in 1 .. n : Words(tokens)[i] = Word(tokens[i])
    BY WordsType
  <2> DEFINE other == Append(Words(tokens), Word(token))
  <2>4. /\ other \in Seq(Text) /\ Len(other) = n + 1
        /\ \A i \in 1 .. n : other[i] = Words(tokens)[i]
        /\ other[n + 1] = Word(token)
    <3>1. Word(token) \in Text  BY WordType
    <3> QED BY <2>3, <3>1, AppendProperties
  <2> HIDE DEF n, longer, other
  <2>5. \A i \in 1 .. n + 1 : Words(longer)[i] = other[i]
    <3> TAKE i \in 1 .. n + 1
    <3>1. CASE i \in 1 .. n
      BY <2>1, <2>2, <2>3, <2>4, <3>1
    <3>2. CASE i = n + 1
      BY <2>1, <2>2, <2>4, <3>2
    <3> QED
      BY <2>1, <3>1, <3>2
  <2>6. Words(longer) = other
    BY <2>2, <2>4, <2>5, SeqEqual
  <2> QED
    BY <2>6 DEF longer, other
<1>2. Words(tokens) \in Seq(Text) /\ Word(token) \in Text
  BY WordsType, WordType
<1> QED
  BY <1>1, <1>2, SpellingIs, FlattenAppend DEF Text

LEMMA SpellingType ==
  ASSUME NEW tokens \in Seq(Tokens)
  PROVE  Spelling(tokens) \in Text
<1> DEFINE T == {n \in Nat : \A ts \in Seq(Tokens) : Len(ts) = n => Spelling(ts) \in Text}
<1>1. 0 \in T
  <2>1. \A ts \in Seq(Tokens) : Len(ts) = 0 => ts = <<>>
    BY EmptySeq
  <2>2. <<>> \in Text
    BY EmptySeq DEF Text
  <2> QED
    BY <2>1, <2>2, SpellsNothing
<1>2. ASSUME NEW n \in T
      PROVE  n + 1 \in T
  <2>1. n \in Nat /\ \A ts \in Seq(Tokens) : Len(ts) = n => Spelling(ts) \in Text
    OBVIOUS
  <2>2. ASSUME NEW ts \in Seq(Tokens), Len(ts) = n + 1
        PROVE  Spelling(ts) \in Text
    <3>1. PICK front \in Seq(Tokens), token \in Tokens : ts = Append(front, token)
      <4>1. ts # <<>>  BY <2>1, <2>2, EmptySeq
      <4> QED BY <4>1, SequenceEmptyOrAppend
    <3>2. Len(front) = n
      BY <2>1, <2>2, <3>1, AppendProperties, LenProperties
    <3>3. Spelling(front) \in Text /\ Word(token) \in Text
      BY <2>1, <3>2, WordType
    <3> QED
      BY <3>1, <3>3, SpellingAppend, ConcatProperties DEF Text
  <2> QED
    BY <2>1, <2>2
<1>3. T = Nat
  <2> HIDE DEF T
  <2>1. T \in SUBSET Nat  BY DEF T
  <2> QED BY <1>1, <1>2, <2>1, ByCounting
<1>4. Len(tokens) \in T
  <2> HIDE DEF T
  <2> QED BY <1>3, LenProperties
<1> QED
  BY <1>4

LEMMA SpellingConcat ==
  ASSUME NEW some \in Seq(Tokens), NEW tokens \in Seq(Tokens)
  PROVE  Spelling(some \o tokens) = Spelling(some) \o Spelling(tokens)
<1> DEFINE T == {n \in Nat : \A ts \in Seq(Tokens) :
                   Len(ts) = n => Spelling(some \o ts) = Spelling(some) \o Spelling(ts)}
<1>1. 0 \in T
  <2>1. \A ts \in Seq(Tokens) : Len(ts) = 0 => ts = <<>>
    BY EmptySeq
  <2>2. some \o <<>> = some /\ Spelling(some) \o <<>> = Spelling(some)
    BY ConcatEmptySeq, SpellingType DEF Text
  <2> QED
    BY <2>1, <2>2, SpellsNothing
<1>2. ASSUME NEW n \in T
      PROVE  n + 1 \in T
  <2>1. n \in Nat /\ \A ts \in Seq(Tokens) :
                       Len(ts) = n => Spelling(some \o ts) = Spelling(some) \o Spelling(ts)
    OBVIOUS
  <2>2. ASSUME NEW ts \in Seq(Tokens), Len(ts) = n + 1
        PROVE  Spelling(some \o ts) = Spelling(some) \o Spelling(ts)
    <3>1. PICK front \in Seq(Tokens), token \in Tokens : ts = Append(front, token)
      <4>1. ts # <<>>  BY <2>1, <2>2, EmptySeq
      <4> QED BY <4>1, SequenceEmptyOrAppend
    <3>2. Len(front) = n
      BY <2>1, <2>2, <3>1, AppendProperties, LenProperties
    <3>3. some \o ts = Append(some \o front, token)
      <4>1. <<token>> \in Seq(Tokens) /\ some \o front \in Seq(Tokens)
        BY ConcatProperties
      <4>2. ts = front \o <<token>>
        BY <3>1, AppendIsConcat
      <4>3. some \o (front \o <<token>>) = (some \o front) \o <<token>>
        BY <4>1, ConcatAssociative
      <4>4. (some \o front) \o <<token>> = Append(some \o front, token)
        BY <4>1, AppendIsConcat
      <4> QED
        BY <4>2, <4>3, <4>4
    <3>4. Spelling(some \o ts) = Spelling(some \o front) \o Word(token)
      <4>1. some \o front \in Seq(Tokens)
        BY ConcatProperties
      <4> QED
        BY <3>3, <4>1, SpellingAppend
    <3>5. Spelling(some \o front) = Spelling(some) \o Spelling(front)
      BY <2>1, <3>2
    <3>6. Spelling(ts) = Spelling(front) \o Word(token)
      BY <3>1, SpellingAppend
    <3>7. (Spelling(some) \o Spelling(front)) \o Word(token) =
            Spelling(some) \o (Spelling(front) \o Word(token))
      <4>1. Spelling(some) \in Text /\ Spelling(front) \in Text /\ Word(token) \in Text
        BY SpellingType, WordType
      <4>2. Associative(Spelling(some), Spelling(front), Word(token))
        BY <4>1, JoinAssociates
      <4> QED
        BY <4>2 DEF Associative
    <3> QED
      BY <3>4, <3>5, <3>6, <3>7
  <2> QED
    BY <2>1, <2>2
<1>3. T = Nat
  <2> HIDE DEF T
  <2>1. T \in SUBSET Nat  BY DEF T
  <2> QED BY <1>1, <1>2, <2>1, ByCounting
<1>4. Len(tokens) \in T
  <2> HIDE DEF T
  <2> QED BY <1>3, LenProperties
<1> QED
  BY <1>4

LEMMA SpellingOne ==
  ASSUME NEW token \in Tokens
  PROVE  <<token>> \in Seq(Tokens) /\ Spelling(<<token>>) = Word(token)
<1>1. <<>> \in Seq(Tokens) /\ Append(<<>>, token) = <<token>>
  BY EmptySeq
<1>2. <<>> \o Word(token) = Word(token)
  BY WordType, ConcatEmptySeq DEF Text
<1>3. Append(<<>>, token) \in Seq(Tokens)
  BY <1>1, AppendProperties
<1>4. Spelling(Append(<<>>, token)) = Spelling(<<>>) \o Word(token)
  BY <1>1, SpellingAppend
<1> QED
  BY <1>1, <1>2, <1>3, <1>4, SpellsNothing

\* t is s and one byte more.
Follows(t, s, x) ==
  /\ Len(t) = Len(s) + 1 /\ t[Len(s) + 1] = x
  /\ \A i \in 1 .. Len(s) : t[i] = s[i]

LEMMA Appended ==
  ASSUME NEW A, NEW s \in Seq(A), NEW x \in A
  PROVE  Follows(Append(s, x), s, x)
BY AppendProperties DEF Follows

\* Of n + 1 bytes in all.
Extends(t, s, x, n) ==
  /\ Len(s) = n /\ DOMAIN s = 1 .. n /\ DOMAIN t = 1 .. n + 1
  /\ t[n + 1] = x /\ \A i \in 1 .. n : t[i] = s[i]

LEMMA OneMore ==
  ASSUME NEW t \in Text, NEW s \in Text, NEW x \in STRING, NEW n \in Nat,
         t = Append(s, x), Len(t) = n + 1
  PROVE  Extends(t, s, x, n)
<1>1. s \in Seq(STRING) /\ t \in Seq(STRING)
  BY DEF Text
<1>2. Len(s) \in Nat /\ DOMAIN s = 1 .. Len(s) /\ DOMAIN t = 1 .. Len(t)
  BY <1>1, LenProperties
<1>3. Follows(t, s, x)
  BY <1>1, Appended
<1>4. Len(s) = n
  <2> DEFINE k == Len(s)
             l == Len(t)
  <2>1. k \in Nat /\ l = k + 1 /\ l = n + 1
    BY <1>2, <1>3 DEF Follows
  <2> HIDE DEF k, l
  <2>2. k = n
    BY <2>1
  <2> QED
    BY <2>2 DEF k
<1> QED
  BY <1>2, <1>3, <1>4 DEF Follows, Extends

\* Bytes passed through as they are.
LEMMA SpellingText ==
  ASSUME NEW text \in Text
  PROVE  LET passed == [i \in DOMAIN text |-> TextToken(text[i])]
         IN passed \in Seq(Tokens) /\ Spelling(passed) = text
<1> DEFINE Passed(p) == [i \in DOMAIN p |-> TextToken(p[i])]
           T == {n \in Nat : \A p \in Text :
                   Len(p) = n => Passed(p) \in Seq(Tokens) /\ Spelling(Passed(p)) = p}
<1>1. 0 \in T
  <2>1. \A p \in Text : Len(p) = 0 => p = <<>>
    BY EmptySeq DEF Text
  <2>2. Passed(<<>>) = <<>> /\ <<>> \in Seq(Tokens)
    BY EmptySeq
  <2> HIDE DEF Passed
  <2> QED
    BY <2>1, <2>2, SpellsNothing
<1>2. ASSUME NEW n \in T
      PROVE  n + 1 \in T
  <2>1. n \in Nat /\ \A p \in Text :
          Len(p) = n => Passed(p) \in Seq(Tokens) /\ Spelling(Passed(p)) = p
    <3> HIDE DEF Passed
    <3> QED OBVIOUS
  <2>2. ASSUME NEW p \in Text, Len(p) = n + 1
        PROVE  Passed(p) \in Seq(Tokens) /\ Spelling(Passed(p)) = p
    <3>1. PICK front \in Text, byte \in STRING : p = Append(front, byte)
      <4>1. p # <<>>  BY <2>1, <2>2, EmptySeq DEF Text
      <4> QED BY <4>1, SequenceEmptyOrAppend DEF Text
    <3>2. /\ Len(front) = n /\ DOMAIN front = 1 .. n /\ DOMAIN p = 1 .. n + 1
          /\ p[n + 1] = byte /\ \A i \in 1 .. n : p[i] = front[i]
      <4> HIDE DEF Passed, T
      <4>1. n \in Nat
        BY <2>1
      <4>2. Extends(p, front, byte, n)
        BY <2>2, <3>1, <4>1, OneMore, Zenon
      <4> QED
        BY <4>2 DEF Extends
    <3>3. Passed(front) \in Seq(Tokens) /\ Spelling(Passed(front)) = front
      <4> HIDE DEF Passed
      <4> QED BY <2>1, <3>2
    <3>4. Len(Passed(front)) = n
      BY <2>1, <3>2, <3>3, LenProperties
    <3>5. TextToken(byte) \in Tokens /\ Word(TextToken(byte)) = <<byte>>
      BY DEF TextToken, Tokens, Word
    <3> DEFINE longer == Append(Passed(front), TextToken(byte))
    <3>6. /\ longer \in Seq(Tokens) /\ Len(longer) = n + 1
          /\ \A i \in 1 .. n : longer[i] = TextToken(front[i])
          /\ longer[n + 1] = TextToken(byte)
      <4>1. \A i \in 1 .. n : Passed(front)[i] = TextToken(front[i])
        BY <3>2
      <4> HIDE DEF Passed
      <4> QED BY <3>3, <3>4, <3>5, <4>1, AppendProperties
    <3>7. Passed(p) = longer
      <4>1. DOMAIN longer = 1 .. n + 1 /\ longer = [i \in 1 .. n + 1 |-> longer[i]]
        <5> HIDE DEF longer
        <5> QED BY <3>6, LenProperties
      <4>2. \A i \in 1 .. n + 1 : longer[i] = TextToken(p[i])
        <5> HIDE DEF longer
        <5> TAKE i \in 1 .. n + 1
        <5>1. i \in 1 .. n \/ i = n + 1  BY <2>1
        <5> QED BY <3>2, <3>6, <5>1
      <4> HIDE DEF longer
      <4> QED BY <3>2, <4>1, <4>2
    <3>8. Spelling(longer) = front \o <<byte>>
      <4> HIDE DEF Passed
      <4> QED BY <3>3, <3>5, SpellingAppend
    <3>9. front \o <<byte>> = p
      BY <3>1, AppendIsConcat DEF Text
    <3> HIDE DEF longer, Passed
    <3> QED
      BY <3>6, <3>7, <3>8, <3>9
  <2> HIDE DEF Passed
  <2> QED
    BY <2>1, <2>2
<1>3. T = Nat
  <2> HIDE DEF T
  <2>1. T \in SUBSET Nat  BY DEF T
  <2> QED BY <1>1, <1>2, <2>1, ByCounting
<1>4. Len(text) \in T
  <2> HIDE DEF T
  <2> QED BY <1>3, LenProperties DEF Text
<1> QED
  BY <1>4

-----------------------------------------------------------------------------
(***************************************************************************)
(* Prefixes of texts.                                                      *)
(***************************************************************************)
Rest(s, t) == SubSeq(t, Len(s) + 1, Len(t))

LEMMA TextLength ==
  ASSUME NEW s \in Text
  PROVE  Len(s) \in Nat /\ DOMAIN s = 1 .. Len(s) /\ \A i \in 1 .. Len(s) : s[i] \in STRING
BY LenProperties DEF Text

LEMMA TextJoin ==
  ASSUME NEW s \in Text, NEW t \in Text
  PROVE  /\ s \o t \in Text /\ Len(s \o t) = Len(s) + Len(t)
         /\ \A i \in 1 .. Len(s) : (s \o t)[i] = s[i]
         /\ \A i \in 1 .. Len(t) : (s \o t)[Len(s) + i] = t[i]
<1>1. /\ s \o t \in Text /\ Len(s \o t) = Len(s) + Len(t)
      /\ \A i \in 1 .. Len(s) + Len(t) :
            (s \o t)[i] = IF i <= Len(s) THEN s[i] ELSE t[i - Len(s)]
  BY ConcatProperties DEF Text
<1> DEFINE m == Len(s)
           n == Len(t)
           u == s \o t
<1>2. m \in Nat /\ n \in Nat /\ \A i \in 1 .. m + n : u[i] = IF i <= m THEN s[i] ELSE t[i - m]
  BY <1>1, TextLength
<1> HIDE DEF m, n, u
<1>3. \A i \in 1 .. m : u[i] = s[i]
  BY <1>2
<1>4. \A i \in 1 .. n : u[m + i] = t[i]
  <2> TAKE i \in 1 .. n
  <2>1. m + i \in 1 .. m + n /\ ~(m + i <= m) /\ (m + i) - m = i
    BY <1>2
  <2> QED
    BY <1>2, <2>1
<1> QED
  BY <1>1, <1>3, <1>4 DEF m, n, u

LEMMA TextPart ==
  ASSUME NEW t \in Text, NEW n \in Nat, n <= Len(t)
  PROVE  /\ SubSeq(t, 1, n) \in Text /\ Len(SubSeq(t, 1, n)) = n
         /\ \A i \in 1 .. n : SubSeq(t, 1, n)[i] = t[i]
         /\ SubSeq(t, n + 1, Len(t)) \in Text /\ Len(SubSeq(t, n + 1, Len(t))) = Len(t) - n
         /\ \A i \in 1 .. Len(t) - n : SubSeq(t, n + 1, Len(t))[i] = t[n + i]
<1> DEFINE l == Len(t)
<1>1. l \in Nat /\ \A i \in 1 .. l : t[i] \in STRING
  BY TextLength
<1>2. n <= l
  OBVIOUS
<1> HIDE DEF l
<1>3. /\ 1 \in Int /\ n \in Int /\ l \in Int /\ n + 1 \in Int
      /\ \A i \in 1 .. n : t[i] \in STRING
      /\ \A i \in n + 1 .. l : t[i] \in STRING
  BY <1>1, <1>2
<1>4. /\ SubSeq(t, 1, n) \in Text
      /\ Len(SubSeq(t, 1, n)) = IF 1 <= n THEN n - 1 + 1 ELSE 0
      /\ \A i \in 1 .. n - 1 + 1 : SubSeq(t, 1, n)[i] = t[1 + i - 1]
  BY <1>3, SubSeqProperties DEF Text
<1>5. /\ SubSeq(t, n + 1, l) \in Text
      /\ Len(SubSeq(t, n + 1, l)) = IF n + 1 <= l THEN l - (n + 1) + 1 ELSE 0
      /\ \A i \in 1 .. l - (n + 1) + 1 : SubSeq(t, n + 1, l)[i] = t[(n + 1) + i - 1]
  BY <1>3, SubSeqProperties DEF Text
<1>6. Len(SubSeq(t, 1, n)) = n /\ \A i \in 1 .. n : SubSeq(t, 1, n)[i] = t[i]
  <2>1. n - 1 + 1 = n /\ (~(1 <= n) => n = 0) /\ \A i \in 1 .. n : 1 + i - 1 = i
    BY <1>1
  <2> QED
    BY <1>4, <2>1
<1>7. /\ Len(SubSeq(t, n + 1, l)) = l - n
      /\ \A i \in 1 .. l - n : SubSeq(t, n + 1, l)[i] = t[n + i]
  <2>1. /\ l - (n + 1) + 1 = l - n /\ (~(n + 1 <= l) => l - n = 0)
        /\ \A i \in 1 .. l - n : (n + 1) + i - 1 = n + i
    BY <1>1, <1>2
  <2> QED
    BY <1>5, <2>1
<1> QED
  BY <1>4, <1>5, <1>6, <1>7 DEF l

LEMMA TextsEqual ==
  ASSUME NEW s \in Text, NEW t \in Text, Len(s) = Len(t),
         \A i \in 1 .. Len(s) : s[i] = t[i]
  PROVE  s = t
BY SeqEqual DEF Text

LEMMA PrefixIs ==
  ASSUME NEW s \in Text, NEW t \in Text
  PROVE  IsPrefix(s, t) <=> Len(s) <= Len(t) /\ \A i \in 1 .. Len(s) : s[i] = t[i]
<1>1. Len(s) \in Nat /\ Len(t) \in Nat
  BY TextLength
<1>2. ASSUME Len(s) <= Len(t)
      PROVE  SubSeq(s, 1, Len(s)) = SubSeq(t, 1, Len(s)) <=> \A i \in 1 .. Len(s) : s[i] = t[i]
  <2>1. SubSeq(s, 1, Len(s)) = s
    BY SubSeqFull DEF Text
  <2> DEFINE u == SubSeq(t, 1, Len(s))
  <2>2. u \in Text /\ Len(u) = Len(s) /\ \A i \in 1 .. Len(s) : u[i] = t[i]
    BY <1>1, <1>2, TextPart
  <2> HIDE DEF u
  <2>3. s = u <=> \A i \in 1 .. Len(s) : s[i] = t[i]
    <3>1. ASSUME \A i \in 1 .. Len(s) : s[i] = t[i]
          PROVE  s = u
      <4>1. Len(s) = Len(u) /\ \A i \in 1 .. Len(s) : s[i] = u[i]
        BY <2>2, <3>1
      <4> QED
        BY <2>2, <4>1, TextsEqual
    <3> QED
      BY <2>2, <3>1
  <2> QED
    BY <2>1, <2>3 DEF u
<1> QED
  BY <1>2 DEF IsPrefix

LEMMA PrefixJoins ==
  ASSUME NEW s \in Text, NEW t \in Text, IsPrefix(s, t)
  PROVE  /\ Rest(s, t) \in Text /\ t = s \o Rest(s, t)
         /\ Len(Rest(s, t)) = Len(t) - Len(s) /\ Len(s) <= Len(t)
<1> DEFINE m == Len(s)
           n == Len(t)
           r == Rest(s, t)
           u == s \o r
<1>1. m \in Nat /\ n \in Nat
  BY TextLength
<1>2. m <= n /\ \A i \in 1 .. m : s[i] = t[i]
  BY PrefixIs
<1>3. r \in Text /\ Len(r) = n - m /\ \A i \in 1 .. n - m : r[i] = t[m + i]
  BY <1>1, <1>2, TextPart DEF Rest
<1>4. /\ u \in Text /\ Len(u) = m + Len(r)
      /\ \A i \in 1 .. m : u[i] = s[i]
      /\ \A i \in 1 .. Len(r) : u[m + i] = r[i]
  <2> HIDE DEF r
  <2> QED BY <1>3, TextJoin
<1>5. t = u
  <2>1. Len(t) = Len(u) /\ Len(t) = n
    <3>1. Len(u) = m + (n - m)  BY <1>3, <1>4
    <3> HIDE DEF u
    <3>2. Len(t) = n  OBVIOUS
    <3> HIDE DEF m, n
    <3>3. m + (n - m) = n  BY <1>1
    <3> QED BY <3>1, <3>2, <3>3
  <2>2. \A i \in 1 .. n : t[i] = u[i]
    <3> HIDE DEF m, n, r, u
    <3> TAKE i \in 1 .. n
    <3>1. CASE i <= m
      <4>1. i \in 1 .. m  BY <1>1, <3>1
      <4> QED BY <1>2, <1>4, <4>1
    <3>2. CASE ~(i <= m)
      <4>1. i - m \in 1 .. n - m /\ m + (i - m) = i
        BY <1>1, <3>2
      <4>2. u[m + (i - m)] = r[i - m] /\ r[i - m] = t[m + (i - m)]
        BY <1>3, <1>4, <4>1
      <4> QED
        BY <4>1, <4>2
    <3> QED
      BY <3>1, <3>2
  <2> HIDE DEF u
  <2> QED
    BY <1>4, <2>1, <2>2, TextsEqual
<1> QED
  BY <1>2, <1>3, <1>5

LEMMA PrefixOfJoin ==
  ASSUME NEW s \in Text, NEW t \in Text
  PROVE  IsPrefix(s, s \o t) /\ Rest(s, s \o t) = t
<1> DEFINE u == s \o t
           m == Len(s)
           r == Rest(s, u)
<1>1. /\ u \in Text /\ Len(u) = m + Len(t) /\ m \in Nat /\ Len(t) \in Nat
      /\ \A i \in 1 .. m : u[i] = s[i]
      /\ \A i \in 1 .. Len(t) : u[m + i] = t[i]
  BY TextJoin, TextLength
<1>2. IsPrefix(s, u)
  <2>1. Len(s) <= Len(u) /\ \A i \in 1 .. Len(s) : s[i] = u[i]
    <3> HIDE DEF u
    <3>1. \A i \in 1 .. Len(s) : s[i] = u[i]
      BY <1>1
    <3>2. m <= m + Len(t)
      <4> HIDE DEF m
      <4> QED BY <1>1
    <3> QED
      BY <1>1, <3>1, <3>2
  <2> HIDE DEF u
  <2> QED
    BY <1>1, <2>1, PrefixIs
<1>3. /\ r \in Text /\ Len(r) = Len(u) - m
      /\ \A i \in 1 .. Len(u) - m : r[i] = u[m + i]
  <2> HIDE DEF u
  <2>1. m <= Len(u)
    BY <1>1, <1>2, PrefixJoins
  <2> QED
    BY <1>1, <2>1, TextPart DEF Rest
<1>4. r = t
  <2> HIDE DEF r, u
  <2>1. Len(u) - m = Len(t)
    <3> DEFINE l == Len(u)
               k == Len(t)
    <3>1. l = m + k /\ m \in Nat /\ k \in Nat  BY <1>1
    <3> HIDE DEF l, k, m
    <3>2. l - m = k  BY <3>1
    <3> QED BY <3>2 DEF l, k
  <2>2. Len(r) = Len(t) /\ \A i \in 1 .. Len(r) : r[i] = t[i]
    BY <1>1, <1>3, <2>1
  <2> QED
    BY <1>3, <2>2, TextsEqual
<1> QED
  BY <1>2, <1>4

LEMMA JoinNothing ==
  ASSUME NEW s \in Text
  PROVE  /\ s \o <<>> = s /\ <<>> \o s = s /\ <<>> \in Text
         /\ (Len(s) = 0 <=> s = <<>>)
BY ConcatEmptySeq, EmptySeq DEF Text

LEMMA PrefixGrows ==
  ASSUME NEW s \in Text, NEW t \in Text, NEW u \in Text, IsPrefix(s, t)
  PROVE  IsPrefix(s, t \o u)
<1>1. PICK r \in Text : t = s \o r
  BY PrefixJoins
<1>2. Associative(s, r, u)
  BY JoinAssociates
<1>3. r \o u \in Text
  BY TextJoin
<1>4. IsPrefix(s, s \o (r \o u))
  BY <1>3, PrefixOfJoin
<1> QED
  BY <1>1, <1>2, <1>4 DEF Associative

\* Of two beginnings of one text the shorter is a beginning of the longer.
LEMMA PrefixesNest ==
  ASSUME NEW s \in Text, NEW t \in Text, NEW u \in Text,
         IsPrefix(s, u), IsPrefix(t, u), Len(s) <= Len(t)
  PROVE  IsPrefix(s, t)
<1>1. /\ \A i \in 1 .. Len(s) : s[i] = u[i]
      /\ \A i \in 1 .. Len(t) : t[i] = u[i]
      /\ Len(s) \in Nat /\ Len(t) \in Nat
  BY PrefixIs, TextLength
<1>2. \A i \in 1 .. Len(s) : s[i] = t[i]
  <2> DEFINE m == Len(s)
             n == Len(t)
  <2>1. m <= n
    OBVIOUS
  <2> HIDE DEF m, n
  <2>2. \A i \in 1 .. m : i \in 1 .. n
    BY <1>1, <2>1 DEF m, n
  <2> QED
    BY <1>1, <2>2 DEF m, n
<1> QED
  BY <1>2, PrefixIs

LEMMA PrefixOfEqual ==
  ASSUME NEW s \in Text, NEW t \in Text, IsPrefix(s, t), Len(s) = Len(t)
  PROVE  s = t
BY PrefixIs, TextsEqual

-----------------------------------------------------------------------------
(***************************************************************************)
(* What one pass of the loop decides.                                      *)
(***************************************************************************)
LEMMA BindingIs ==
  ASSUME NEW c \in Bound
  PROVE  Bindings[c] \in Text /\ Len(Bindings[c]) \in Nat \ {0}
<1>1. Bindings[c] \in Seq(STRING) /\ Bindings[c] # <<>>
  BY BindingsAssumption DEF Bound
<1> QED
  BY <1>1, EmptySeq DEF Text

\* No control is longer than what is pending, or equal to it: what follows
\* does not matter any more.
LEMMA DecidedForGood ==
  ASSUME NEW p \in Text, NEW q \in Text, Longer(p) = {}
  PROVE  ExactPrefixes(p \o q) = ExactPrefixes(p) /\ Longer(p \o q) = {}
<1>1. p \o q \in Text /\ Len(p \o q) = Len(p) + Len(q) /\ Len(p) \in Nat /\ Len(q) \in Nat
  BY TextJoin, TextLength
<1>2. IsPrefix(p, p \o q)
  BY PrefixOfJoin
<1>3. ASSUME NEW c \in Bound, IsPrefix(p, Bindings[c])
      PROVE  Bindings[c] = p
  BY <1>3 DEF Longer, Candidates
<1>4. ASSUME NEW c \in Bound
      PROVE  IsPrefix(Bindings[c], p \o q) <=> IsPrefix(Bindings[c], p)
  <2>1. Bindings[c] \in Text /\ Len(Bindings[c]) \in Nat
    BY BindingIs
  <2>2. ASSUME IsPrefix(Bindings[c], p)
        PROVE  IsPrefix(Bindings[c], p \o q)
    BY <2>1, <2>2, PrefixGrows
  <2>3. ASSUME IsPrefix(Bindings[c], p \o q)
        PROVE  IsPrefix(Bindings[c], p)
    <3>1. CASE Len(Bindings[c]) <= Len(p)
      BY <1>1, <1>2, <2>1, <2>3, <3>1, PrefixesNest
    <3>2. CASE Len(p) <= Len(Bindings[c])
      <4>1. IsPrefix(p, Bindings[c])
        BY <1>1, <1>2, <2>1, <2>3, <3>2, PrefixesNest
      <4>2. Bindings[c] = p
        BY <1>3, <4>1
      <4>3. IsPrefix(p, p)
        <5>1. p \o <<>> = p /\ <<>> \in Text  BY JoinNothing
        <5>2. IsPrefix(p, p \o <<>>)  BY <5>1, PrefixOfJoin
        <5> QED BY <5>1, <5>2
      <4> QED
        BY <4>2, <4>3
    <3> QED
      BY <1>1, <2>1, <3>1, <3>2
  <2> QED
    BY <2>2, <2>3
<1>5. ExactPrefixes(p \o q) = ExactPrefixes(p)
  BY <1>4 DEF ExactPrefixes
<1>6. ASSUME NEW c \in Bound, IsPrefix(p \o q, Bindings[c])
      PROVE  Bindings[c] = p \o q
  <2>1. Bindings[c] \in Text /\ Len(Bindings[c]) \in Nat
    BY BindingIs
  <2>2. Len(p \o q) <= Len(Bindings[c])
    BY <1>1, <1>6, <2>1, PrefixIs
  <2>3. IsPrefix(p, Bindings[c])
    <3>1. PICK r \in Text : Bindings[c] = (p \o q) \o r
      BY <1>1, <1>6, <2>1, PrefixJoins
    <3>2. Associative(p, q, r)
      BY JoinAssociates
    <3>3. q \o r \in Text
      BY TextJoin
    <3>4. IsPrefix(p, p \o (q \o r))
      BY <3>3, PrefixOfJoin
    <3> QED
      BY <3>1, <3>2, <3>4 DEF Associative
  <2>4. Bindings[c] = p
    BY <1>3, <2>3
  <2>5. Len(Bindings[c]) = Len(p)
    BY <2>4
  <2>6. Len(q) = 0
    <3> DEFINE l == Len(p \o q)
               b == Len(Bindings[c])
               m == Len(p)
               n == Len(q)
    <3>1. l = m + n /\ m \in Nat /\ n \in Nat /\ l <= b /\ b = m
      BY <1>1, <2>2, <2>5
    <3> HIDE DEF l, b, m, n
    <3>2. n = 0  BY <3>1
    <3> QED BY <3>2 DEF n
  <2>7. q = <<>> /\ p \o <<>> = p
    BY <2>6, JoinNothing
  <2> QED
    BY <2>4, <2>7
<1>7. Longer(p \o q) = {}
  BY <1>6 DEF Longer, Candidates
<1> QED
  BY <1>5, <1>7

\* One control is as long as any that the bytes begin with.
LEMMA LongestIsThere ==
  ASSUME NEW p \in Text, ExactPrefixes(p) # {}
  PROVE  /\ LongestExactPrefix(p) \in ExactPrefixes(p)
         /\ \A d \in ExactPrefixes(p) : Len(Bindings[d]) <= Len(Bindings[LongestExactPrefix(p)])
<1> DEFINE short == {Len(p) - Len(Bindings[d]) : d \in ExactPrefixes(p)}
<1>1. ASSUME NEW d \in ExactPrefixes(p)
      PROVE  /\ d \in Bound /\ Len(Bindings[d]) \in Nat /\ Len(p) \in Nat
             /\ Len(p) - Len(Bindings[d]) \in Nat
  <2>1. d \in Bound /\ IsPrefix(Bindings[d], p)
    BY DEF ExactPrefixes
  <2>2. Bindings[d] \in Text /\ Len(Bindings[d]) \in Nat /\ Len(p) \in Nat
    BY <2>1, BindingIs, TextLength
  <2>3. Len(Bindings[d]) <= Len(p)
    BY <2>1, <2>2, PrefixIs
  <2> QED
    BY <2>1, <2>2, <2>3
<1>2. PICK m \in short : \A n \in short : m <= n
  <2>1. short \in SUBSET Nat /\ short # {}
    BY <1>1
  <2> HIDE DEF short
  <2> QED
    BY <2>1, LeastNumber
<1>3. PICK c \in ExactPrefixes(p) : m = Len(p) - Len(Bindings[c])
  OBVIOUS
<1>4. ASSUME NEW d \in ExactPrefixes(p)
      PROVE  Len(Bindings[d]) <= Len(Bindings[c])
  <2>1. m <= Len(p) - Len(Bindings[d])
    BY <1>2
  <2> QED
    BY <1>1, <1>3, <2>1
<1> QED
  BY <1>4 DEF LongestExactPrefix

\* What the bytes ahead make of the token here.
Right(token, ahead) ==
  IF token.kind = "text" THEN ExactPrefixes(ahead) = {}
  ELSE \A c \in ExactPrefixes(ahead) : Len(Bindings[c]) <= Len(Bindings[token.what])

LEMMA ControlTokenIs ==
  ASSUME NEW c \in Bound
  PROVE  /\ ControlToken(c) \in Tokens /\ Word(ControlToken(c)) = Bindings[c]
         /\ ControlToken(c).kind # "text" /\ ControlToken(c).what = c
BY DEF ControlToken, Tokens, Word

LEMMA TextTokenIs ==
  ASSUME NEW byte \in STRING
  PROVE  /\ TextToken(byte) \in Tokens /\ Word(TextToken(byte)) = <<byte>>
         /\ TextToken(byte).kind = "text"
BY DEF TextToken, Tokens, Word

LEMMA FirstControl ==
  ASSUME NEW p \in Text, NEW force \in BOOLEAN, ExactPrefixes(p) # {}
  PROVE  \E token \in Tokens : /\ Decided(p, force) = <<token>>
                               /\ IsPrefix(Word(token), p) /\ Right(token, p)
<1> DEFINE c == LongestExactPrefix(p)
<1>1. c \in ExactPrefixes(p) /\ \A d \in ExactPrefixes(p) : Len(Bindings[d]) <= Len(Bindings[c])
  BY LongestIsThere
<1>2. c \in Bound /\ IsPrefix(Bindings[c], p)
  BY <1>1 DEF ExactPrefixes
<1>3. Decided(p, force) = <<ControlToken(c)>>
  BY DEF Decided
<1> HIDE DEF c
<1>4. /\ ControlToken(c) \in Tokens /\ Word(ControlToken(c)) = Bindings[c]
      /\ ControlToken(c).kind # "text" /\ ControlToken(c).what = c
  BY <1>2, ControlTokenIs
<1>5. Right(ControlToken(c), p)
  BY <1>1, <1>4 DEF Right
<1> QED
  BY <1>2, <1>3, <1>4, <1>5

LEMMA FirstByte ==
  ASSUME NEW p \in Text, p # <<>>, ExactPrefixes(p) = {}
  PROVE  \E token \in Tokens : /\ Decided(p, FALSE) = <<token>>
                               /\ IsPrefix(Word(token), p) /\ Right(token, p)
<1> DEFINE byte == Head(p)
<1>1. byte \in STRING /\ byte = p[1] /\ Len(p) \in Nat /\ 1 <= Len(p)
  BY HeadTailProperties, EmptySeq DEF Text
<1>2. Decided(p, FALSE) = <<TextToken(byte)>>
  BY DEF Decided
<1> HIDE DEF byte
<1>3. /\ TextToken(byte) \in Tokens /\ Word(TextToken(byte)) = <<byte>>
      /\ TextToken(byte).kind = "text"
  BY <1>1, TextTokenIs
<1>4. IsPrefix(<<byte>>, p)
  <2>1. <<byte>> \in Text /\ Len(<<byte>>) = 1
    BY <1>1, OneWord
  <2>2. \A i \in 1 .. 1 : <<byte>>[i] = p[i]
    BY <1>1
  <2> QED
    BY <1>1, <2>1, <2>2, PrefixIs
<1>5. Right(TextToken(byte), p)
  BY <1>3 DEF Right
<1> QED
  BY <1>2, <1>3, <1>4, <1>5

\* The bytes decided first begin what is pending, and are not none.
LEMMA DecidedBegins ==
  ASSUME NEW p \in Text, p # <<>>, NEW force \in BOOLEAN
  PROVE  /\ Decided(p, force) \in Seq(Tokens)
         /\ Spelling(Decided(p, force)) \in Text /\ Spelling(Decided(p, force)) # <<>>
         /\ IsPrefix(Spelling(Decided(p, force)), p)
<1>1. ASSUME NEW token \in Tokens, Decided(p, force) = <<token>>, IsPrefix(Word(token), p)
      PROVE  /\ Decided(p, force) \in Seq(Tokens)
             /\ Spelling(Decided(p, force)) \in Text /\ Spelling(Decided(p, force)) # <<>>
             /\ IsPrefix(Spelling(Decided(p, force)), p)
  BY <1>1, SpellingOne, WordType
<1>2. CASE ExactPrefixes(p) # {}
  BY <1>1, <1>2, FirstControl
<1>3. CASE ExactPrefixes(p) = {} /\ force
  <2> DEFINE passed == [i \in DOMAIN p |-> TextToken(p[i])]
  <2>1. Decided(p, force) = passed
    BY <1>3 DEF Decided
  <2>2. passed \in Seq(Tokens) /\ Spelling(passed) = p
    BY SpellingText
  <2>3. IsPrefix(p, p)
    <3>1. p \o <<>> = p /\ <<>> \in Text  BY JoinNothing
    <3>2. IsPrefix(p, p \o <<>>)  BY <3>1, PrefixOfJoin
    <3> QED BY <3>1, <3>2
  <2> HIDE DEF passed
  <2> QED
    BY <2>1, <2>2, <2>3
<1>4. CASE ExactPrefixes(p) = {} /\ ~force
  <2>1. force = FALSE
    BY <1>4
  <2> QED
    BY <1>1, <1>4, <2>1, FirstByte
<1> QED
  BY <1>2, <1>3, <1>4

-----------------------------------------------------------------------------
(***************************************************************************)
(* The loop.                                                               *)
(***************************************************************************)
LEMMA DecoderParts ==
  ASSUME NEW d \in DecoderStates
  PROVE  /\ d.pending \in Text /\ d.age \in Nat /\ d.tokens \in Seq(Tokens)
         /\ Len(d.pending) \in Nat
BY TextLength DEF DecoderStates, Text

\* A pass takes some of what is pending.
LEMMA TakeIs ==
  ASSUME NEW d \in DecoderStates, NEW force \in BOOLEAN, ~Undecided(d.pending, force)
  PROVE  LET taken == Decided(d.pending, force)
             e     == Take(d, taken)
         IN /\ e \in DecoderStates /\ e.tokens = d.tokens \o taken /\ taken \in Seq(Tokens)
            /\ Spelling(taken) \in Text /\ d.pending = Spelling(taken) \o e.pending
            /\ Len(e.pending) < Len(d.pending)
<1> DEFINE p == d.pending
           taken == Decided(p, force)
           w == Spelling(taken)
           rest == Rest(w, p)
           e == Take(d, taken)
<1>1. p \in Text /\ d.tokens \in Seq(Tokens) /\ p # <<>> /\ Len(p) \in Nat
  BY DecoderParts DEF Undecided
<1>2. taken \in Seq(Tokens) /\ w \in Text /\ w # <<>> /\ IsPrefix(w, p)
  <2> HIDE DEF p
  <2> QED BY <1>1, DecidedBegins
<1>3. e = [pending |-> rest, age |-> 0, tokens |-> d.tokens \o taken]
  BY DEF Take, Rest
<1> HIDE DEF e, taken, w, rest, p
<1>4. rest \in Text /\ p = w \o rest /\ Len(rest) = Len(p) - Len(w)
  BY <1>1, <1>2, PrefixJoins DEF rest
<1>5. Len(w) \in Nat /\ Len(w) # 0
  BY <1>2, TextLength, JoinNothing
<1>6. Len(rest) < Len(p)
  <2> DEFINE a == Len(rest)
             b == Len(p)
             c == Len(w)
  <2>1. a = b - c /\ b \in Nat /\ c \in Nat /\ c # 0
    BY <1>1, <1>4, <1>5
  <2> HIDE DEF a, b, c
  <2>2. a < b
    BY <2>1
  <2> QED
    BY <2>2 DEF a, b
<1>7. d.tokens \o taken \in Seq(Tokens)
  BY <1>1, <1>2, ConcatProperties
<1>8. e \in DecoderStates
  BY <1>3, <1>4, <1>7 DEF DecoderStates, Text
<1>9. e.pending = rest /\ e.tokens = d.tokens \o taken
  BY <1>3
<1> QED
  BY <1>2, <1>4, <1>6, <1>8, <1>9 DEF e, taken, w, p

\* The loop stops, or goes on after one pass.
LEMMA ProcessUnfolds ==
  ASSUME NEW force \in BOOLEAN
  PROVE  \A d \in DecoderStates :
           Process(d, force) = IF Undecided(d.pending, force) THEN d
                               ELSE Process(Take(d, Decided(d.pending, force)), force)
<1> DEFINE After(d) == Take(d, Decided(d.pending, force))
           S == DecoderStates
           stop == {d \in S : Undecided(d.pending, force)}
           next == [d \in S |-> IF d \in stop THEN d ELSE After(d)]
           size == [d \in S |-> Len(d.pending)]
           Solves(f) == f = [d \in S |-> IF Undecided(d.pending, force) THEN d ELSE f[After(d)]]
<1>1. ASSUME NEW d \in S, d \notin stop
      PROVE  /\ After(d) \in S /\ next[d] = After(d) /\ size[After(d)] < size[d]
             /\ size[next[d]] < size[d]
  <2>1. After(d) \in S /\ Len(After(d).pending) < Len(d.pending)
    BY <1>1, TakeIs
  <2> HIDE DEF After, stop, S
  <2> QED
    BY <1>1, <2>1
<1>2. next \in [S -> S]
  <2>1. \A d \in S : d \notin stop => After(d) \in S
    BY <1>1
  <2> HIDE DEF After, stop, S
  <2> QED
    BY <2>1
<1>3. size \in [S -> Nat]
  BY DecoderParts
<1>4. \E f : Solves(f)
  <2>1. stop \in SUBSET S
    OBVIOUS
  <2>2. \A d \in S \ stop : size[next[d]] < size[d]
    BY <1>1
  <2>3. PICK f : Ends(f, S, stop, next)
    <3> HIDE DEF S, stop, next, size
    <3> QED
      BY <1>2, <1>3, <2>1, <2>2, LoopsEnd
  <2>4. \A d \in S : IF d \in stop THEN TRUE ELSE next[d] = After(d)
    BY <1>1
  <2>5. \A d \in S : d \in stop <=> Undecided(d.pending, force)
    OBVIOUS
  <2> HIDE DEF S, stop, next, After
  <2>6. f = [d \in S |-> IF Undecided(d.pending, force) THEN d ELSE f[After(d)]]
    BY <2>3, <2>4, <2>5 DEF Ends
  <2> QED
    BY <2>6
<1> DEFINE process == CHOOSE f : Solves(f)
<1>5. Solves(process)
  <2> HIDE DEF Solves
  <2> QED BY <1>4
<1>6. \A d : Process(d, force) = process[d]
  BY DEF Process
<1> HIDE DEF process
<1>7. \A d \in S : process[d] = IF Undecided(d.pending, force) THEN d ELSE process[After(d)]
  <2> HIDE DEF S, After
  <2> QED BY <1>5
<1> QED
  BY <1>6, <1>7

-----------------------------------------------------------------------------
(***************************************************************************)
(* Decisions that bytes to come cannot change: from each token after the   *)
(* k-th on, no control is longer than the bytes that were known.           *)
(***************************************************************************)
Ahead(tokens, rest, i) == Spelling(SubSeq(tokens, i, Len(tokens))) \o rest

Settled(token, ahead) == Longer(ahead) = {} /\ Right(token, ahead)

Firm(tokens, k, rest) ==
  \A i \in 1 .. Len(tokens) : i > k => Settled(tokens[i], Ahead(tokens, rest, i))

LEMMA TokensPart ==
  ASSUME NEW tokens \in Seq(Tokens), NEW i \in 1 .. Len(tokens)
  PROVE  /\ SubSeq(tokens, i, Len(tokens)) \in Seq(Tokens)
         /\ Spelling(SubSeq(tokens, i, Len(tokens))) \in Text
<1> DEFINE n == Len(tokens)
<1>1. n \in Nat /\ \A j \in 1 .. n : tokens[j] \in Tokens
  BY LenProperties
<1>2. i \in 1 .. n
  OBVIOUS
<1> HIDE DEF n
<1>3. i \in Int /\ n \in Int /\ \A j \in i .. n : tokens[j] \in Tokens
  BY <1>1, <1>2
<1>4. SubSeq(tokens, i, n) \in Seq(Tokens)
  BY <1>3, SubSeqProperties
<1> QED
  BY <1>4, SpellingType DEF n

LEMMA SettledStays ==
  ASSUME NEW token, NEW p \in Text, NEW q \in Text, Settled(token, p)
  PROVE  Settled(token, p \o q)
<1>1. ExactPrefixes(p \o q) = ExactPrefixes(p) /\ Longer(p \o q) = {}
  BY DecidedForGood DEF Settled
<1> QED
  BY <1>1 DEF Settled, Right

LEMMA FirmGrows ==
  ASSUME NEW tokens \in Seq(Tokens), NEW k \in Nat, NEW rest \in Text, NEW q \in Text,
         Firm(tokens, k, rest)
  PROVE  Firm(tokens, k, rest \o q)
<1> SUFFICES ASSUME NEW i \in 1 .. Len(tokens), i > k
             PROVE  Settled(tokens[i], Ahead(tokens, rest \o q, i))
  BY DEF Firm
<1> DEFINE w == Spelling(SubSeq(tokens, i, Len(tokens)))
<1>1. w \in Text
  BY TokensPart
<1>2. Settled(tokens[i], w \o rest)
  BY DEF Firm, Ahead
<1> HIDE DEF w
<1>3. w \o rest \in Text
  BY <1>1, TextJoin
<1>4. Settled(tokens[i], (w \o rest) \o q)
  BY <1>2, <1>3, SettledStays
<1>5. Associative(w, rest, q)
  BY <1>1, JoinAssociates
<1> QED
  BY <1>4, <1>5 DEF Ahead, Associative, w

\* A token more, spelled by the first bytes of what was the rest.
LEMMA AheadOfMore ==
  ASSUME NEW tokens \in Seq(Tokens), NEW token \in Tokens, NEW rest \in Text,
         NEW i \in 1 .. Len(tokens)
  PROVE  Ahead(Append(tokens, token), rest, i) = Ahead(tokens, Word(token) \o rest, i)
<1> DEFINE n == Len(tokens)
           more == Append(tokens, token)
           part == SubSeq(tokens, i, n)
           w == Spelling(part)
<1>1. /\ n \in Nat /\ i \in 1 .. n /\ more \in Seq(Tokens) /\ Len(more) = n + 1
      /\ \A j \in 1 .. n : more[j] = tokens[j] /\ more[j] \in Tokens
      /\ more[n + 1] = token
  BY LenProperties, AppendProperties
<1>2. part \in Seq(Tokens) /\ w \in Text
  BY TokensPart
<1>3. SubSeq(more, i, n + 1) = Append(part, token)
  <2> HIDE DEF more, n, part
  <2>1. i \in 1 .. Len(more) /\ n + 1 \in i .. Len(more)
    BY <1>1
  <2>2. SubSeq(more, i, n + 1) = SubSeq(more, i, (n + 1) - 1) \o <<more[n + 1]>>
    BY <1>1, <2>1, SubSeqRecursiveSecond
  <2>3. (n + 1) - 1 = n
    BY <1>1
  <2>4. SubSeq(more, i, n) = part
    <3> DEFINE other == SubSeq(more, i, n)
    <3>1. i \in Int /\ n \in Int /\ i <= n
      BY <1>1
    <3>2. /\ \A j \in i .. n : more[j] \in Tokens /\ tokens[j] \in Tokens
          /\ \A j \in 1 .. n - i + 1 : i + j - 1 \in 1 .. n
      BY <1>1
    <3>3. /\ other \in Seq(Tokens) /\ Len(other) = n - i + 1
          /\ \A j \in 1 .. n - i + 1 : other[j] = more[i + j - 1]
      BY <3>1, <3>2, SubSeqProperties
    <3>4. /\ Len(part) = n - i + 1
          /\ \A j \in 1 .. n - i + 1 : part[j] = tokens[i + j - 1]
      BY <3>1, <3>2, SubSeqProperties DEF part
    <3> HIDE DEF other
    <3>5. Len(other) = Len(part) /\ \A j \in 1 .. Len(other) : other[j] = part[j]
      BY <1>1, <3>2, <3>3, <3>4
    <3>6. other = part
      BY <1>2, <3>3, <3>5, SeqEqual
    <3> QED
      BY <3>6 DEF other
  <2>5. part \o <<token>> = Append(part, token)
    BY <1>2, AppendIsConcat
  <2> QED
    BY <1>1, <2>2, <2>3, <2>4, <2>5
<1>4. Spelling(Append(part, token)) = w \o Word(token)
  <2> HIDE DEF part
  <2> QED BY <1>2, SpellingAppend
<1>5. (w \o Word(token)) \o rest = w \o (Word(token) \o rest)
  <2> HIDE DEF w
  <2>1. Word(token) \in Text
    BY WordType
  <2>2. Associative(w, Word(token), rest)
    BY <1>2, <2>1, JoinAssociates
  <2> QED
    BY <2>2 DEF Associative
<1>6. Ahead(more, rest, i) = Spelling(SubSeq(more, i, n + 1)) \o rest
  <2> HIDE DEF more, n
  <2> QED BY <1>1 DEF Ahead
<1>7. Ahead(tokens, Word(token) \o rest, i) = w \o (Word(token) \o rest)
  BY DEF Ahead
<1> HIDE DEF more, n, part, w
<1>8. Ahead(more, rest, i) = (w \o Word(token)) \o rest
  BY <1>3, <1>4, <1>6
<1> QED
  BY <1>5, <1>7, <1>8 DEF more

LEMMA AheadOfLast ==
  ASSUME NEW tokens \in Seq(Tokens), NEW token \in Tokens, NEW rest \in Text
  PROVE  Ahead(Append(tokens, token), rest, Len(tokens) + 1) = Word(token) \o rest
<1> DEFINE n == Len(tokens) + 1
           more == Append(tokens, token)
<1>1. more \in Seq(Tokens) /\ Len(more) = n /\ more[n] = token /\ n \in Nat /\ 1 <= n
  BY AppendProperties, LenProperties
<1> HIDE DEF more, n
<1>2. SubSeq(more, n, n) = <<token>>
  <2>1. n \in 1 .. Len(more) /\ n \in n .. Len(more) /\ n \in Int /\ n + 1 \in Int /\ n < n + 1
    BY <1>1
  <2>2. SubSeq(more, n, n) = <<more[n]>> \o SubSeq(more, n + 1, n)
    BY <1>1, <2>1, SubSeqRecursiveFirst
  <2>3. SubSeq(more, n + 1, n) = <<>>
    BY <2>1, SubSeqEmpty
  <2>4. <<token>> \o <<>> = <<token>>
    BY SpellingOne, ConcatEmptySeq
  <2> QED
    BY <1>1, <2>2, <2>3, <2>4
<1>3. Spelling(<<token>>) = Word(token)
  BY SpellingOne
<1> QED
  BY <1>1, <1>2, <1>3 DEF Ahead, more, n

LEMMA FirmTakes ==
  ASSUME NEW tokens \in Seq(Tokens), NEW k \in Nat, NEW token \in Tokens, NEW rest \in Text,
         Firm(tokens, k, Word(token) \o rest), Settled(token, Word(token) \o rest)
  PROVE  Firm(Append(tokens, token), k, rest)
<1> DEFINE n == Len(tokens)
           more == Append(tokens, token)
           p == Word(token) \o rest
<1>1. /\ n \in Nat /\ Len(more) = n + 1 /\ more[n + 1] = token
      /\ \A i \in 1 .. n : more[i] = tokens[i]
  BY LenProperties, AppendProperties
<1>2. /\ \A i \in 1 .. n : Ahead(more, rest, i) = Ahead(tokens, p, i)
      /\ Ahead(more, rest, n + 1) = p
  BY AheadOfMore, AheadOfLast
<1>3. /\ \A i \in 1 .. n : i > k => Settled(tokens[i], Ahead(tokens, p, i))
      /\ Settled(token, p)
  BY DEF Firm
<1> HIDE DEF n, more, p
<1>4. ASSUME NEW i \in 1 .. Len(more), i > k
      PROVE  Settled(more[i], Ahead(more, rest, i))
  <2>1. CASE i \in 1 .. n
    BY <1>1, <1>2, <1>3, <1>4, <2>1
  <2>2. CASE i = n + 1
    BY <1>1, <1>2, <1>3, <2>2
  <2> QED
    BY <1>1, <2>1, <2>2
<1> QED
  BY <1>4 DEF Firm, more

-----------------------------------------------------------------------------
(***************************************************************************)
(* What the loop does to a decoder: it keeps every byte in its place, and  *)
(* behind any tokens whose decisions are firm it puts firm ones.           *)
(***************************************************************************)
Bytes(d) == Spelling(d.tokens) \o d.pending

Keeps(d, e) ==
  \A b \in Seq(Tokens), k \in Nat :
    Firm(b \o d.tokens, k, d.pending) => Firm(b \o e.tokens, k, e.pending)

Pass(d, e, force) ==
  /\ e \in DecoderStates /\ Bytes(e) = Bytes(d)
  /\ force = FALSE => Keeps(d, e)

Outcome(d, e, force) == Pass(d, e, force) /\ Undecided(e.pending, force)

LEMMA PassesCompose ==
  ASSUME NEW d, NEW e, NEW g, NEW force, Pass(d, e, force), Pass(e, g, force)
  PROVE  Pass(d, g, force)
BY DEF Pass, Keeps

LEMMA OnePass ==
  ASSUME NEW d \in DecoderStates, NEW force \in BOOLEAN, ~Undecided(d.pending, force)
  PROVE  Pass(d, Take(d, Decided(d.pending, force)), force)
<1> DEFINE p == d.pending
           taken == Decided(p, force)
           e == Take(d, taken)
           rest == e.pending
           old == d.tokens
<1>1. /\ e \in DecoderStates /\ e.tokens = old \o taken /\ taken \in Seq(Tokens)
      /\ Spelling(taken) \in Text /\ p = Spelling(taken) \o rest
  BY TakeIs
<1>2. p \in Text /\ old \in Seq(Tokens) /\ p # <<>> /\ (force = FALSE => Longer(p) = {})
  BY DecoderParts DEF Undecided
<1>3. rest \in Text
  <2> HIDE DEF e
  <2> QED BY <1>1, DecoderParts
<1> HIDE DEF rest, e, old, p
<1>4. Bytes(e) = Bytes(d)
  <2>1. Spelling(old \o taken) = Spelling(old) \o Spelling(taken) /\ Spelling(old) \in Text
    BY <1>1, <1>2, SpellingConcat, SpellingType
  <2>2. Associative(Spelling(old), Spelling(taken), rest)
    BY <1>1, <1>3, <2>1, JoinAssociates
  <2>3. Bytes(e) = Spelling(old \o taken) \o rest /\ Bytes(d) = Spelling(old) \o p
    BY <1>1 DEF Bytes, rest, old, p
  <2> HIDE DEF taken
  <2> QED
    BY <1>1, <2>1, <2>2, <2>3 DEF Associative
<1>5. ASSUME force = FALSE
      PROVE  Keeps(d, e)
  <2>1. PICK token \in Tokens : /\ taken = <<token>>
                                /\ IsPrefix(Word(token), p) /\ Right(token, p)
    <3>1. CASE ExactPrefixes(p) # {}
      BY <1>2, <3>1, FirstControl
    <3>2. CASE ExactPrefixes(p) = {}
      BY <1>2, <1>5, <3>2, FirstByte
    <3> QED
      BY <3>1, <3>2
  <2>2. p = Word(token) \o rest /\ Settled(token, p)
    <3>1. Spelling(taken) = Word(token)
      BY <2>1, SpellingOne
    <3> HIDE DEF taken
    <3> QED
      BY <1>1, <1>2, <1>5, <2>1, <3>1 DEF Settled
  <2> HIDE DEF taken
  <2>3. ASSUME NEW b \in Seq(Tokens), NEW k \in Nat, Firm(b \o old, k, p)
        PROVE  Firm(b \o (old \o taken), k, rest)
    <3>1. b \o old \in Seq(Tokens)
      BY <1>2, ConcatProperties
    <3>2. Firm(Append(b \o old, token), k, rest)
      BY <1>3, <2>2, <2>3, <3>1, FirmTakes
    <3>3. b \o (old \o taken) = (b \o old) \o taken
      <4>1. b \in Seq(Tokens) /\ old \in Seq(Tokens) /\ taken \in Seq(Tokens)
        BY <1>1, <1>2
      <4> QED
        BY <4>1, ConcatAssociative
    <3>4. (b \o old) \o <<token>> = Append(b \o old, token)
      BY <3>1, AppendIsConcat
    <3> QED
      BY <2>1, <3>2, <3>3, <3>4
  <2> QED
    BY <1>1, <2>3 DEF Keeps, rest, old, p
<1> QED
  BY <1>1, <1>4, <1>5 DEF Pass, e, p

LEMMA NoPass ==
  ASSUME NEW d \in DecoderStates, NEW force
  PROVE  Pass(d, d, force)
BY DEF Pass, Keeps

LEMMA ProcessWorks ==
  ASSUME NEW d \in DecoderStates, NEW force \in BOOLEAN
  PROVE  Outcome(d, Process(d, force), force)
<1> DEFINE T == {n \in Nat : \A e \in DecoderStates :
                   Len(e.pending) <= n => Outcome(e, Process(e, force), force)}
<1>1. ASSUME NEW e \in DecoderStates, Undecided(e.pending, force)
      PROVE  Outcome(e, Process(e, force), force)
  <2>1. Process(e, force) = e
    BY <1>1, ProcessUnfolds
  <2> QED
    BY <1>1, <2>1, NoPass DEF Outcome
<1>2. 0 \in T
  <2>1. ASSUME NEW e \in DecoderStates, Len(e.pending) <= 0
        PROVE  Outcome(e, Process(e, force), force)
    <3>1. Len(e.pending) = 0 /\ e.pending \in Text
      BY <2>1, DecoderParts
    <3>2. e.pending = <<>>
      BY <3>1, JoinNothing
    <3> QED
      BY <1>1, <3>2 DEF Undecided
  <2> QED
    BY <2>1
<1>3. ASSUME NEW n \in T
      PROVE  n + 1 \in T
  <2>1. n \in Nat /\ \A e \in DecoderStates :
          Len(e.pending) <= n => Outcome(e, Process(e, force), force)
    OBVIOUS
  <2>2. ASSUME NEW e \in DecoderStates, Len(e.pending) <= n + 1
        PROVE  Outcome(e, Process(e, force), force)
    <3>1. CASE ~Undecided(e.pending, force)
      <4> DEFINE g == Take(e, Decided(e.pending, force))
      <4>1. g \in DecoderStates /\ Len(g.pending) < Len(e.pending)
        BY <3>1, TakeIs
      <4>2. Pass(e, g, force)
        BY <3>1, OnePass
      <4>3. Process(e, force) = Process(g, force)
        BY <3>1, ProcessUnfolds
      <4> HIDE DEF g
      <4>4. Len(g.pending) <= n
        BY <2>1, <2>2, <4>1, DecoderParts
      <4>5. Outcome(g, Process(g, force), force)
        BY <2>1, <4>1, <4>4
      <4> QED
        BY <4>2, <4>3, <4>5, PassesCompose DEF Outcome
    <3> QED
      BY <1>1, <3>1
  <2> QED
    BY <2>1, <2>2
<1>4. T = Nat
  <2> HIDE DEF T
  <2>1. T \in SUBSET Nat  BY DEF T
  <2> QED BY <1>2, <1>3, <2>1, ByCounting
<1>5. Len(d.pending) \in T
  <2> HIDE DEF T
  <2> QED BY <1>4, DecoderParts
<1>6. Len(d.pending) <= Len(d.pending)
  BY DecoderParts
<1> QED
  BY <1>5, <1>6

-----------------------------------------------------------------------------
(***************************************************************************)
(* The decoder on the line.                                                *)
(***************************************************************************)
LEMMA FlushWorks ==
  ASSUME NEW d \in DecoderStates, d.tokens = <<>>
  PROVE  /\ Flush(d) \in DecoderStates /\ Flush(d).pending = <<>>
         /\ Spelling(Flush(d).tokens) = d.pending
<1> DEFINE e == Flush(d)
<1>1. Outcome(d, e, TRUE)
  BY ProcessWorks DEF Flush
<1> HIDE DEF e
<1>2. e \in DecoderStates /\ Bytes(e) = Bytes(d) /\ e.pending = <<>>
  BY <1>1 DEF Outcome, Pass, Undecided
<1>3. e.tokens \in Seq(Tokens) /\ d.pending \in Text
  BY <1>2, DecoderParts
<1>4. Bytes(e) = Spelling(e.tokens)
  BY <1>2, <1>3, SpellingType, JoinNothing DEF Bytes
<1>5. Bytes(d) = d.pending
  BY <1>3, SpellsNothing, JoinNothing DEF Bytes
<1> QED
  BY <1>2, <1>4, <1>5 DEF e

\* Where the decisions begin that the bytes read since are held to.
TornAt(b, k, d) == IF Overdue(d) THEN Len(b \o Flush(d).tokens) ELSE k

LEMMA PushWorks ==
  ASSUME NEW d \in DecoderStates, d.tokens = <<>>, NEW chunk \in Text,
         NEW b \in Seq(Tokens), NEW k \in Nat, Firm(b, k, d.pending)
  PROVE  LET e == Push(d, chunk)
         IN /\ e \in DecoderStates /\ Undecided(e.pending, FALSE) /\ TornAt(b, k, d) \in Nat
            /\ Spelling(b \o e.tokens) \o e.pending = (Spelling(b) \o d.pending) \o chunk
            /\ Firm(b \o e.tokens, TornAt(b, k, d), e.pending)
<1> DEFINE f == FlushExpired(d)
           g == [f EXCEPT !.pending = @ \o chunk]
           e == Process(g, FALSE)
           m == TornAt(b, k, d)
<1>1. Push(d, chunk) = e
  BY DEF Push
<1>2. d.pending \in Text /\ Bytes(d) = d.pending
  <2>1. d.pending \in Text  BY DecoderParts
  <2> QED BY <2>1, SpellsNothing, JoinNothing DEF Bytes
<1>3. f \in DecoderStates /\ Bytes(f) = d.pending
  <2>1. CASE Overdue(d)
    <3>1. f = Flush(d)
      BY <2>1 DEF FlushExpired
    <3>2. Outcome(d, Flush(d), TRUE)
      BY ProcessWorks DEF Flush
    <3> QED
      BY <1>2, <3>1, <3>2 DEF Outcome, Pass
  <2>2. CASE ~Overdue(d)
    BY <1>2, <2>2 DEF FlushExpired
  <2> QED
    BY <2>1, <2>2
<1>4. /\ f.pending \in Text /\ f.tokens \in Seq(Tokens)
      /\ g.pending = f.pending \o chunk /\ g.tokens = f.tokens /\ g \in DecoderStates
  <2> HIDE DEF f
  <2>1. f.pending \in Text /\ f.tokens \in Seq(Tokens)
    BY <1>3, DecoderParts
  <2>2. f.pending \o chunk \in Text
    BY <2>1, TextJoin
  <2> QED
    BY <1>3, <2>1, <2>2 DEF DecoderStates, Text
<1>5. Outcome(g, e, FALSE)
  <2> HIDE DEF g
  <2> QED BY <1>4, ProcessWorks
<1>6. m \in Nat /\ Firm(b \o g.tokens, m, g.pending)
  <2>1. CASE Overdue(d)
    <3>1. f = Flush(d) /\ m = Len(b \o Flush(d).tokens)
      BY <2>1 DEF FlushExpired, TornAt
    <3> HIDE DEF f, g, m
    <3>2. b \o g.tokens \in Seq(Tokens) /\ m = Len(b \o g.tokens)
      BY <1>4, <3>1, ConcatProperties
    <3>3. m \in Nat
      BY <3>2, LenProperties
    <3>4. Firm(b \o g.tokens, m, g.pending)
      BY <3>2, <3>3 DEF Firm
    <3> QED
      BY <3>3, <3>4
  <2>2. CASE ~Overdue(d)
    <3>1. f = d /\ m = k
      BY <2>2 DEF FlushExpired, TornAt
    <3> HIDE DEF f, g, m
    <3>2. b \o g.tokens = b
      BY <1>4, <3>1, ConcatEmptySeq
    <3>3. Firm(b, k, d.pending \o chunk)
      BY <1>2, FirmGrows
    <3> QED
      BY <1>4, <3>1, <3>2, <3>3
  <2> QED
    BY <2>1, <2>2
<1> HIDE DEF f, g, e, m
<1>7. e \in DecoderStates /\ Undecided(e.pending, FALSE) /\ Bytes(e) = Bytes(g) /\ Keeps(g, e)
  BY <1>5 DEF Outcome, Pass
<1>8. Firm(b \o e.tokens, m, e.pending)
  BY <1>6, <1>7 DEF Keeps
<1>9. Spelling(b \o e.tokens) \o e.pending = (Spelling(b) \o d.pending) \o chunk
  <2> DEFINE q == d.pending
             rest == e.pending
             w == Spelling(b)
             new == Spelling(e.tokens)
             flushed == Spelling(f.tokens)
             held == f.pending
  <2>1. e.tokens \in Seq(Tokens) /\ rest \in Text /\ q \in Text /\ held \in Text
    BY <1>2, <1>4, <1>7, DecoderParts
  <2>2. /\ Spelling(b \o e.tokens) = w \o new
        /\ w \in Text /\ new \in Text /\ flushed \in Text
    BY <1>4, <2>1, SpellingConcat, SpellingType
  <2>3. /\ new \o rest = flushed \o (held \o chunk)
        /\ flushed \o held = q
    BY <1>3, <1>4, <1>7 DEF Bytes
  <2> HIDE DEF q, rest, w, new, flushed, held
  <2>4. Associative(w, new, rest)
    BY <2>1, <2>2, JoinAssociates
  <2>5. Associative(flushed, held, chunk)
    BY <2>1, <2>2, JoinAssociates
  <2>6. Associative(w, q, chunk)
    BY <2>1, <2>2, JoinAssociates
  <2>7. (w \o new) \o rest = (w \o q) \o chunk
    BY <2>3, <2>4, <2>5, <2>6 DEF Associative
  <2> QED
    BY <2>2, <2>7 DEF q, rest, w
<1> QED
  BY <1>1, <1>6, <1>7, <1>8, <1>9 DEF m

\* The reference's decoding, of firm decisions.
LEMMA FirmIsRight ==
  ASSUME NEW tokens \in Seq(Tokens), NEW k \in Nat, NEW rest \in Text,
         Firm(tokens, k, rest), Undecided(rest, FALSE)
  PROVE  RightDecoding(SubSeq(tokens, k + 1, Len(tokens)), rest)
<1> DEFINE n == Len(tokens)
           part == SubSeq(tokens, k + 1, n)
<1>1. rest = <<>> \/ \E c \in Bound : IsPrefix(rest, Bindings[c]) /\ rest # Bindings[c]
  BY DEF Undecided, Longer, Candidates
<1>2. n \in Nat /\ \A i \in 1 .. n : tokens[i] \in Tokens
  BY LenProperties
<1>3. \A i \in 1 .. n : i > k => Settled(tokens[i], Ahead(tokens, rest, i))
  BY DEF Firm
<1> HIDE DEF n
<1>4. k + 1 \in Int /\ n \in Int /\ \A i \in k + 1 .. n : tokens[i] \in Tokens
  BY <1>2
<1>5. /\ part \in Seq(Tokens)
      /\ Len(part) = IF k + 1 <= n THEN n - (k + 1) + 1 ELSE 0
      /\ \A i \in 1 .. n - (k + 1) + 1 : part[i] = tokens[(k + 1) + i - 1]
  BY <1>4, SubSeqProperties
<1>6. DOMAIN part = 1 .. Len(part)
  <2> HIDE DEF part
  <2> QED BY <1>5, LenProperties
<1> HIDE DEF part
<1>7. ASSUME NEW i \in DOMAIN part
      PROVE  RightAt(part, rest, i)
  <2> DEFINE l == Len(part)
  <2>1. /\ k + 1 <= n /\ l = n - k /\ i \in 1 .. n - k /\ k + i \in 1 .. n /\ k + i > k
        /\ n - (k + 1) + 1 = n - k /\ (k + 1) + i - 1 = k + i
    <3>1. i \in 1 .. l /\ l = IF k + 1 <= n THEN n - (k + 1) + 1 ELSE 0
      BY <1>5, <1>6, <1>7
    <3> HIDE DEF l
    <3> QED
      BY <1>2, <3>1
  <2>2. part[i] = tokens[k + i]
    BY <1>5, <2>1
  <2>3. SubSeq(part, i, l) = SubSeq(tokens, k + i, n)
    <3> DEFINE here == SubSeq(part, i, l)
               there == SubSeq(tokens, k + i, n)
    <3>1. \A j \in 1 .. n - k : part[j] = tokens[k + j] /\ part[j] \in Tokens
      <4> TAKE j \in 1 .. n - k
      <4>1. (k + 1) + j - 1 = k + j /\ j \in 1 .. n - (k + 1) + 1 /\ k + j \in 1 .. n
        BY <1>2, <2>1
      <4> QED
        BY <1>2, <1>5, <4>1
    <3>2. i \in Int /\ k + i \in Int /\ n - k \in Int /\ i <= n - k /\ k + i <= n
      BY <1>2, <2>1
    <3>3. \A j \in i .. n - k : part[j] \in Tokens
      BY <3>1, <3>2, <2>1
    <3>4. \A j \in k + i .. n : tokens[j] \in Tokens
      BY <1>2, <2>1
    <3>5. /\ SubSeq(part, i, n - k) \in Seq(Tokens)
          /\ Len(SubSeq(part, i, n - k)) = IF i <= n - k THEN (n - k) - i + 1 ELSE 0
          /\ \A j \in 1 .. (n - k) - i + 1 : SubSeq(part, i, n - k)[j] = part[i + j - 1]
      BY <3>2, <3>3, SubSeqProperties
    <3>6. /\ there \in Seq(Tokens)
          /\ Len(there) = IF k + i <= n THEN n - (k + i) + 1 ELSE 0
          /\ \A j \in 1 .. n - (k + i) + 1 : there[j] = tokens[(k + i) + j - 1]
      <4> DEFINE first == k + i
      <4>1. first \in Int /\ n \in Int /\ \A j \in first .. n : tokens[j] \in Tokens
        BY <1>2, <3>2, <3>4
      <4> HIDE DEF first
      <4>2. /\ SubSeq(tokens, first, n) \in Seq(Tokens)
            /\ Len(SubSeq(tokens, first, n)) = IF first <= n THEN n - first + 1 ELSE 0
            /\ \A j \in 1 .. n - first + 1 : SubSeq(tokens, first, n)[j] = tokens[first + j - 1]
        BY <4>1, SubSeqProperties
      <4> QED
        BY <4>2 DEF first
    <3>7. here = SubSeq(part, i, n - k)
      BY <2>1
    <3> HIDE DEF here, there, l
    <3>8. n - (k + i) + 1 = (n - k) - i + 1
      BY <1>2, <2>1
    <3>9. Len(here) = Len(there) /\ Len(here) = (n - k) - i + 1
      BY <3>2, <3>5, <3>6, <3>7, <3>8
    <3>10. \A j \in 1 .. Len(here) : here[j] = there[j]
      <4> TAKE j \in 1 .. Len(here)
      <4>1. here[j] = part[i + j - 1] /\ there[j] = tokens[(k + i) + j - 1]
        BY <3>5, <3>6, <3>7, <3>8, <3>9
      <4>2. i + j - 1 \in 1 .. n - k /\ (k + i) + j - 1 = k + (i + j - 1)
        BY <1>2, <2>1, <3>9
      <4>3. part[i + j - 1] = tokens[k + (i + j - 1)]
        BY <3>1, <4>2
      <4> QED
        BY <4>1, <4>2, <4>3
    <3>11. here = there
      BY <3>5, <3>6, <3>7, <3>9, <3>10, SeqEqual
    <3> QED
      BY <3>11 DEF here, there
  <2>4. Right(tokens[k + i], Ahead(tokens, rest, k + i))
    BY <1>3, <2>1 DEF Settled
  <2>5. Ahead(tokens, rest, k + i) = Spelling(SubSeq(part, i, l)) \o rest
    BY <2>3 DEF Ahead, n
  <2> QED
    BY <2>2, <2>4, <2>5 DEF RightAt, Right, ExactPrefixes
<1> QED
  BY <1>1, <1>7 DEF RightDecoding, part, n

-----------------------------------------------------------------------------
(***************************************************************************)
(* The inductive invariant.  Beyond DecodedInOrder it says what the        *)
(* decisions have that cannot be seen in one state: they are firm, so that *)
(* no byte still on the line can make a longer control of them.            *)
(***************************************************************************)
Heard == [bytes : Text, tokens : Seq(Tokens), torn : Nat]

LineTypeOK ==
  /\ line \in Text /\ holding \in Bound \cup {None}
  /\ decoder \in DecoderStates /\ decoder.tokens = <<>>
  /\ heard \in Heard

NothingLost == heard.bytes = Spelling(heard.tokens) \o decoder.pending

Decisions ==
  /\ Firm(heard.tokens, heard.torn, decoder.pending)
  /\ Undecided(decoder.pending, FALSE)

LineInv == LineTypeOK /\ NothingLost /\ Decisions

LEMMA LineParts ==
  ASSUME LineTypeOK
  PROVE  /\ decoder.pending \in Text /\ Spelling(decoder.tokens) = <<>>
         /\ heard.bytes \in Text /\ heard.tokens \in Seq(Tokens) /\ heard.torn \in Nat
         /\ Spelling(heard.tokens) \in Text
BY DecoderParts, SpellsNothing, SpellingType DEF LineTypeOK, Heard

LEMMA NothingIsFirm ==
  ASSUME NEW rest
  PROVE  Firm(<<>>, 0, rest)
BY DEF Firm

LEMMA InitLine ==
  ASSUME Init
  PROVE  LineInv
<1>1. /\ line = <<>> /\ holding = None /\ decoder = [pending |-> <<>>, age |-> 0, tokens |-> <<>>]
      /\ heard = [bytes |-> <<>>, tokens |-> <<>>, torn |-> 0]
  BY DEF Init, EmptyDecoder, NothingHeard
<1>2. <<>> \in Text /\ <<>> \in Seq(Tokens)
  BY EmptySeq DEF Text
<1>3. LineTypeOK
  BY <1>1, <1>2 DEF LineTypeOK, Heard, DecoderStates, Text
<1>4. NothingLost
  BY <1>1, <1>2, SpellsNothing, JoinNothing DEF NothingLost
<1>5. Decisions
  BY <1>1, NothingIsFirm DEF Decisions, Undecided
<1> QED
  BY <1>3, <1>4, <1>5 DEF LineInv

\* What the decoder and the ghost hold, the other variables do not matter to.
LEMMA UntouchedLine ==
  ASSUME LineInv, line' \in Text, holding' \in Bound \cup {None}, UNCHANGED <<decoder, heard>>
  PROVE  LineInv'
BY DEF LineInv, LineTypeOK, NothingLost, Decisions

LEMMA Delivered ==
  ASSUME NEW d \in DecoderStates, Deliver(d)
  PROVE  /\ decoder' \in DecoderStates /\ decoder'.tokens = <<>>
         /\ decoder'.pending = d.pending
<1>1. decoder' = [d EXCEPT !.tokens = <<>>]
  BY DEF Deliver
<1>2. <<>> \in Seq(Tokens)
  BY EmptySeq
<1> QED
  BY <1>1, <1>2 DEF DecoderStates

LEMMA ReadKeeps ==
  ASSUME LineInv, NEW n \in DOMAIN line, Read(n)
  PROVE  LineInv'
<1> DEFINE chunk == SubSeq(line, 1, n)
           d == Push(decoder, chunk)
           b == heard.tokens
           torn == TornAt(b, heard.torn, decoder)
<1>1. /\ line' = SubSeq(line, n + 1, Len(line)) /\ Deliver(d) /\ holding' = holding
      /\ heard' = [bytes  |-> heard.bytes \o chunk, tokens |-> b \o d.tokens, torn |-> torn]
  BY DEF Read, TornAt, handVars
<1>2. /\ line \in Text /\ decoder \in DecoderStates /\ decoder.tokens = <<>>
      /\ holding \in Bound \cup {None}
      /\ NothingLost /\ Firm(b, heard.torn, decoder.pending)
  BY DEF LineInv, LineTypeOK, Decisions
<1>3. /\ heard.bytes \in Text /\ b \in Seq(Tokens) /\ heard.torn \in Nat
  BY LineParts DEF LineInv
<1>4. chunk \in Text /\ line' \in Text
  <2>1. n \in Nat /\ n <= Len(line)
    BY <1>2, TextLength
  <2> QED
    BY <1>1, <1>2, <2>1, TextPart
<1> HIDE DEF chunk, b, torn
<1>5. /\ d \in DecoderStates /\ Undecided(d.pending, FALSE) /\ torn \in Nat
      /\ Spelling(b \o d.tokens) \o d.pending = (Spelling(b) \o decoder.pending) \o chunk
      /\ Firm(b \o d.tokens, torn, d.pending)
  BY <1>2, <1>3, <1>4, PushWorks DEF torn
<1> HIDE DEF d
<1>6. decoder' \in DecoderStates /\ decoder'.tokens = <<>> /\ decoder'.pending = d.pending
  BY <1>1, <1>5, Delivered
<1>7. b \o d.tokens \in Seq(Tokens) /\ heard.bytes \o chunk \in Text
  BY <1>3, <1>4, <1>5, DecoderParts, ConcatProperties, TextJoin
<1>8. LineTypeOK'
  BY <1>1, <1>2, <1>4, <1>5, <1>6, <1>7 DEF LineTypeOK, Heard
<1>9. NothingLost'
  <2>1. heard'.bytes = heard.bytes \o chunk /\ heard'.tokens = b \o d.tokens
    BY <1>1
  <2>2. heard.bytes = Spelling(b) \o decoder.pending
    BY <1>2 DEF NothingLost, b
  <2> QED
    BY <1>5, <1>6, <2>1, <2>2 DEF NothingLost
<1>10. Decisions'
  <2>1. heard'.tokens = b \o d.tokens /\ heard'.torn = torn
    BY <1>1
  <2> QED
    BY <1>5, <1>6, <2>1 DEF Decisions
<1> QED
  BY <1>8, <1>9, <1>10 DEF LineInv

LEMMA TimerFiresKeeps ==
  ASSUME LineInv, TimerFires
  PROVE  LineInv'
<1> DEFINE d == FlushExpired(decoder)
           b == heard.tokens
           torn == IF d.tokens = <<>> THEN heard.torn ELSE Len(b \o d.tokens)
<1>1. /\ line' = line /\ Deliver(d) /\ holding' = holding
      /\ heard' = [heard EXCEPT !.tokens = b \o d.tokens, !.torn = torn]
  BY DEF TimerFires, handVars
<1>2. /\ line \in Text /\ decoder \in DecoderStates /\ decoder.tokens = <<>>
      /\ holding \in Bound \cup {None} /\ heard \in Heard
      /\ NothingLost /\ Firm(b, heard.torn, decoder.pending)
      /\ Undecided(decoder.pending, FALSE)
  BY DEF LineInv, LineTypeOK, Decisions
<1>3. /\ heard.bytes \in Text /\ b \in Seq(Tokens) /\ heard.torn \in Nat
      /\ Spelling(b) \in Text /\ decoder.pending \in Text
  BY LineParts DEF LineInv
<1> HIDE DEF b
<1>4. /\ d \in DecoderStates /\ Undecided(d.pending, FALSE) /\ torn \in Nat
      /\ b \o d.tokens \in Seq(Tokens)
      /\ Spelling(b \o d.tokens) \o d.pending = Spelling(b) \o decoder.pending
      /\ Firm(b \o d.tokens, torn, d.pending)
  <2>1. CASE Overdue(decoder)
    <3> DEFINE f == Flush(decoder)
    <3>1. d = f /\ decoder.pending # <<>>
      BY <2>1 DEF FlushExpired, Overdue
    <3>2. f \in DecoderStates /\ f.pending = <<>> /\ Spelling(f.tokens) = decoder.pending
      BY <1>2, FlushWorks
    <3> HIDE DEF f, d
    <3>3. f.tokens \in Seq(Tokens) /\ f.tokens # <<>>
      BY <3>1, <3>2, DecoderParts, SpellsNothing
    <3>4. torn = Len(b \o f.tokens) /\ b \o f.tokens \in Seq(Tokens)
      BY <1>3, <3>1, <3>3, ConcatProperties
    <3> HIDE DEF torn
    <3>5. torn \in Nat
      BY <3>4, LenProperties
    <3>6. Firm(b \o f.tokens, torn, f.pending)
      BY <3>4, <3>5 DEF Firm
    <3>7. Spelling(b \o f.tokens) = Spelling(b) \o decoder.pending
      BY <1>3, <3>2, <3>3, SpellingConcat
    <3>8. Spelling(b \o f.tokens) \o <<>> = Spelling(b \o f.tokens)
      BY <3>4, SpellingType, JoinNothing
    <3> QED
      BY <3>1, <3>2, <3>4, <3>5, <3>6, <3>7, <3>8 DEF Undecided
  <2>2. CASE ~Overdue(decoder)
    <3>1. d = decoder /\ d.tokens = <<>>
      BY <1>2, <2>2 DEF FlushExpired
    <3>2. torn = heard.torn
      BY <3>1
    <3> HIDE DEF d, torn
    <3>3. b \o d.tokens = b
      BY <1>3, <3>1, ConcatEmptySeq
    <3> QED
      BY <1>2, <1>3, <3>1, <3>2, <3>3
  <2> QED
    BY <2>1, <2>2
<1> HIDE DEF d, torn
<1>5. decoder' \in DecoderStates /\ decoder'.tokens = <<>> /\ decoder'.pending = d.pending
  BY <1>1, <1>4, Delivered
<1>6. /\ heard' \in Heard /\ heard'.tokens = b \o d.tokens /\ heard'.torn = torn
      /\ heard'.bytes = heard.bytes
  BY <1>1, <1>2, <1>4 DEF Heard
<1>7. LineTypeOK'
  BY <1>1, <1>2, <1>5, <1>6 DEF LineTypeOK
<1>8. NothingLost'
  <2>1. heard.bytes = Spelling(b) \o decoder.pending
    BY <1>2 DEF NothingLost, b
  <2> QED
    BY <1>4, <1>5, <1>6, <2>1 DEF NothingLost
<1>9. Decisions'
  BY <1>4, <1>5, <1>6 DEF Decisions
<1> QED
  BY <1>7, <1>8, <1>9 DEF LineInv

LEMMA TickKeeps ==
  ASSUME LineInv, Tick
  PROVE  LineInv'
<1> DEFINE age == IF decoder.pending = <<>> THEN 0 ELSE Older(decoder.age, Patience)
<1>1. /\ line' = line /\ holding' = holding
      /\ decoder' = [decoder EXCEPT !.age = age]
      /\ heard' = IF line \o decoder.pending = <<>> THEN NothingHeard ELSE heard
  BY DEF Tick
<1>2. /\ line \in Text /\ decoder \in DecoderStates /\ decoder.tokens = <<>>
      /\ holding \in Bound \cup {None} /\ heard \in Heard
      /\ NothingLost /\ Firm(heard.tokens, heard.torn, decoder.pending)
      /\ Undecided(decoder.pending, FALSE)
  BY DEF LineInv, LineTypeOK, Decisions
<1>3. age \in Nat
  BY <1>2, DecoderParts, PatienceAssumption DEF Older
<1> HIDE DEF age
<1>4. decoder' \in DecoderStates /\ decoder'.tokens = <<>> /\ decoder'.pending = decoder.pending
  BY <1>1, <1>2, <1>3 DEF DecoderStates
<1>5. CASE line \o decoder.pending = <<>>
  <2>1. decoder.pending \in Text
    BY LineParts DEF LineInv
  <2>2. decoder.pending = <<>>
    BY <1>2, <1>5, <2>1, ConcatEqualIffEmpty DEF Text
  <2>3. heard' = [bytes |-> <<>>, tokens |-> <<>>, torn |-> 0]
    BY <1>1, <1>5 DEF NothingHeard
  <2>4. <<>> \in Text /\ <<>> \in Seq(Tokens) /\ <<>> \o <<>> = <<>>
    BY EmptySeq, JoinNothing DEF Text
  <2>5. LineTypeOK'
    <3>1. [bytes |-> <<>>, tokens |-> <<>>, torn |-> 0] \in Heard
      BY <2>4 DEF Heard
    <3>2. heard' \in Heard /\ line' \in Text /\ holding' \in Bound \cup {None}
      BY <1>1, <1>2, <2>3, <3>1
    <3> QED
      BY <1>4, <3>2 DEF LineTypeOK
  <2>6. NothingLost'
    BY <1>4, <2>2, <2>3, <2>4, SpellsNothing DEF NothingLost
  <2>7. Decisions'
    BY <1>4, <2>2, <2>3, NothingIsFirm DEF Decisions, Undecided
  <2> QED
    BY <2>5, <2>6, <2>7 DEF LineInv
<1>6. CASE line \o decoder.pending # <<>>
  <2>1. heard' = heard
    BY <1>1, <1>6
  <2> QED
    BY <1>1, <1>2, <1>4, <2>1 DEF LineInv, LineTypeOK, NothingLost, Decisions
<1> QED
  BY <1>5, <1>6

\* What a hand adds to the line is text.
LEMMA HandKeeps ==
  ASSUME LineInv, Hand
  PROVE  LineInv'
<1>1. line \in Text /\ holding \in Bound \cup {None}
  BY DEF LineInv, LineTypeOK
<1>2. ASSUME NEW c \in Bound, Strike(c)
      PROVE  LineInv'
  <2>1. line' = line \o Bindings[c] /\ holding' = c /\ UNCHANGED <<decoder, heard>>
    BY <1>2 DEF Strike
  <2>2. line' \in Text
    BY <1>1, <2>1, BindingIs, TextJoin
  <2> QED
    BY <2>1, <2>2, UntouchedLine
<1>3. CASE AutoRepeat
  <2>1. line' = Bindings[holding] /\ holding \in Bound /\ UNCHANGED <<holding, decoder, heard>>
    BY <1>1, <1>3 DEF AutoRepeat
  <2>2. line' \in Text
    BY <2>1, BindingIs
  <2> QED
    BY <1>1, <2>1, <2>2, UntouchedLine
<1>4. CASE LetGo
  <2>1. line' = line /\ holding' = None /\ UNCHANGED <<decoder, heard>>
    BY <1>4 DEF LetGo, terminalVars
  <2> QED
    BY <1>1, <2>1, UntouchedLine
<1>5. ASSUME NEW byte \in Typed, TypeText(byte)
      PROVE  LineInv'
  <2>1. line' = Append(line, byte) /\ UNCHANGED <<holding, decoder, heard>>
    BY <1>5 DEF TypeText, handVars
  <2>2. line' \in Text
    BY <1>1, <2>1, ControlsAssumption, AppendProperties DEF Text
  <2> QED
    BY <1>1, <2>1, <2>2, UntouchedLine
<1>6. ASSUME UNCHANGED <<terminalVars, handVars>>
      PROVE  LineInv'
  BY <1>1, <1>6, UntouchedLine DEF terminalVars, handVars
<1>7. ASSUME NEW b \in Buttons, PressButton(b) \/ ReleaseButton(b)
      PROVE  LineInv'
  BY <1>6, <1>7 DEF PressButton, ReleaseButton
<1>8. ASSUME NEW s \in Sticks, NEW x \in Tilts, NEW y \in Tilts, TiltStick(s, x, y)
      PROVE  LineInv'
  BY <1>6, <1>8 DEF TiltStick
<1> QED
  BY <1>2, <1>3, <1>4, <1>5, <1>7, <1>8 DEF Hand

LEMMA TerminalKeeps ==
  ASSUME LineInv, Terminal
  PROVE  LineInv'
<1>1. ASSUME NEW i \in DOMAIN posts, PostArrives(i) \/ PostFails(i)
      PROVE  LineInv'
  <2>1. UNCHANGED <<line, holding, decoder, heard>>
    BY <1>1 DEF PostArrives, PostFails, handVars
  <2> QED
    BY <2>1, UntouchedLine DEF LineInv, LineTypeOK
<1> QED
  BY <1>1, ReadKeeps, TimerFiresKeeps DEF Terminal

LEMMA PadKeeps ==
  ASSUME LineInv, Pad
  PROVE  LineInv'
<1>1. UNCHANGED <<terminalVars, handVars>>
  BY DEF Pad, Report, Plug, Unplug, DeviceGone, Poll
<1>2. UNCHANGED <<line, holding, decoder, heard>>
  BY <1>1 DEF terminalVars, handVars
<1> QED
  BY <1>2, UntouchedLine DEF LineInv, LineTypeOK

\* The decisions made on the line are firm, whatever is typed and however it
\* is read.
THEOREM LineIsDecoded == Spec => []LineInv
<1>1. Init => LineInv
  BY InitLine
<1>2. LineInv /\ [Next]_vars => LineInv'
  <2>1. ASSUME LineInv, UNCHANGED vars
        PROVE  LineInv'
    <3>1. UNCHANGED <<line, holding, decoder, heard>>
      BY <2>1 DEF vars, terminalVars, handVars
    <3> QED
      BY <2>1, <3>1, UntouchedLine DEF LineInv, LineTypeOK
  <2> QED
    BY <2>1, HandKeeps, TerminalKeeps, PadKeeps, TickKeeps DEF Next
<1> QED
  BY <1>1, <1>2, PTL DEF Spec

\* Every byte read is passed on exactly once and in order, and the tokens are
\* those a reader of the whole text would choose: for every table of bindings,
\* every text and every way to split it into reads.
THEOREM ControlsAreDecodedInOrder == Spec => []DecodedInOrder
<1>1. LineInv => DecodedInOrder
  <2> SUFFICES ASSUME LineInv
               PROVE  DecodedInOrder
    OBVIOUS
  <2>1. heard.tokens \in Seq(Tokens) /\ heard.torn \in Nat /\ decoder.pending \in Text
    BY LineParts DEF LineInv
  <2>2. Firm(heard.tokens, heard.torn, decoder.pending) /\ Undecided(decoder.pending, FALSE)
    BY DEF LineInv, Decisions
  <2>3. RightDecoding(SubSeq(heard.tokens, heard.torn + 1, Len(heard.tokens)), decoder.pending)
    BY <2>1, <2>2, FirmIsRight
  <2> QED
    BY <2>3 DEF LineInv, NothingLost, DecodedInOrder
<1> QED
  BY <1>1, LineIsDecoded, PTL
=============================================================================
