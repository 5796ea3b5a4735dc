---------------------------- MODULE StreamProofs ----------------------------
(***************************************************************************)
(* The repair of leaked reasoning markers (ThinkFix), for texts and        *)
(* responses of any length and deltas of any size.                         *)
(*                                                                         *)
(* The scanner's loop takes a measure down, so that it ends within the     *)
(* turns Feed gives it, and reaches a state that depends on where it is    *)
(* and not on how it got there.  Hence text that is cut anywhere is        *)
(* classified as if it were not (FeedSplits).  Rewriting a response keeps  *)
(* every ordinary piece (RewriteWords).  A stream in progress is in one of *)
(* three shapes that the invariant ThinkInv tells apart: copied before the *)
(* first marker, at rest between blocks, or with the last block live; in   *)
(* each the client has what the response so far, rewritten as a whole,     *)
(* would have given it, empty blocks aside.                                *)
(***************************************************************************)
EXTENDS ThinkFix, FiniteSetTheorems, SequenceTheorems, TLAPS

-----------------------------------------------------------------------------
(* Loops: rounds that take a measure down, and where they end.             *)

\* Induction, as a fact about sets of numbers.
LEMMA InductiveSet ==
  ASSUME NEW S, 0 \in S, \A k \in Nat : k \in S => k + 1 \in S
  PROVE  Nat \subseteq S
  <1> DEFINE Bad == Nat \ S
  <1> SUFFICES ASSUME Bad # {} PROVE FALSE
    OBVIOUS
  <1>1. Bad \in SUBSET Nat
    OBVIOUS
  <1> HIDE DEF Bad
  <1>2. PICK n \in Bad : \A m \in Bad : ~(<<m, n>> \in OpToRel(<, Nat))
    BY <1>1, NatLessThanWellFounded, WFMin
  <1>3. n \in Nat /\ n \notin S
    BY DEF Bad
  <1>4. n - 1 \in Nat /\ (n - 1) + 1 = n /\ n - 1 < n
    BY <1>3
  <1>5. n - 1 \notin Bad
    BY <1>2, <1>3, <1>4 DEF OpToRel
  <1>6. n - 1 \in S
    BY <1>4, <1>5 DEF Bad
  <1>7. QED
    BY <1>3, <1>4, <1>6

\* A loop that starts with a value and replaces it again and again has a value
\* after every number of rounds: such recursive functions are defined.
LEMMA Iteration ==
  ASSUME NEW X, NEW x \in X, NEW g \in [X -> X]
  PROVE  \E f \in [Nat -> X] : f[0] = x /\ \A i \in Nat : f[i + 1] = g[f[i]]
  <1> DEFINE Upto(n, h) == /\ h \in [0 .. n -> X] /\ h[0] = x
                           /\ \A k \in 0 .. (n - 1) : h[k + 1] = g[h[k]]
             H(n) == CHOOSE h : Upto(n, h)
  <1>1. ASSUME NEW n \in Nat PROVE \E h : Upto(n, h)
    <2> DEFINE S == {m \in Nat : \E h : Upto(m, h)}
    <2>1. 0 \in S
      <3>1. Upto(0, [k \in 0 .. 0 |-> x])
        OBVIOUS
      <3>2. QED
        BY <3>1
    <2>2. ASSUME NEW m \in Nat, m \in S PROVE m + 1 \in S
      <3>1. PICK h : Upto(m, h)
        BY <2>2
      <3> DEFINE e == [k \in 0 .. (m + 1) |-> IF k = m + 1 THEN g[h[m]] ELSE h[k]]
      <3>2. m \in 0 .. m /\ h[m] \in X /\ g[h[m]] \in X
        BY <3>1
      <3>3. \A k \in 0 .. (m + 1) : k # m + 1 => k \in 0 .. m
        OBVIOUS
      <3>4. ASSUME NEW k \in 0 .. m PROVE e[k] = h[k] /\ h[k] \in X
        <4>1. k # m + 1 /\ k \in 0 .. (m + 1)
          OBVIOUS
        <4>2. QED
          BY <3>1, <4>1
      <3>5. e[m + 1] = g[h[m]]
        OBVIOUS
      <3>6. e \in [0 .. (m + 1) -> X]
        BY <3>1, <3>2, <3>3
      <3> HIDE DEF e
      <3>7. e[0] = x
        BY <3>1, <3>4
      <3>8. ASSUME NEW k \in 0 .. m PROVE e[k + 1] = g[e[k]]
        <4>1. CASE k = m
          BY <3>4, <3>5, <4>1
        <4>2. CASE k # m
          <5>1. k \in 0 .. (m - 1) /\ k + 1 \in 0 .. m
            BY <4>2
          <5>2. QED
            BY <3>1, <3>4, <5>1
        <4>3. QED
          BY <4>1, <4>2
      <3>9. Upto(m + 1, e)
        <4>1. (m + 1) - 1 = m
          OBVIOUS
        <4>2. QED
          BY <3>6, <3>7, <3>8, <4>1
      <3> HIDE DEF Upto
      <3>10. QED
        BY <3>9
    <2> HIDE DEF S
    <2>3. n \in S
      BY <2>1, <2>2, InductiveSet
    <2>4. QED
      BY <2>3 DEF S
  <1>2. ASSUME NEW m \in Nat, NEW h, NEW e, Upto(m, h), Upto(m + 1, e)
        PROVE  h[m] = e[m]
    <2> DEFINE S == {k \in Nat : k <= m => h[k] = e[k]}
    <2>1. 0 \in S
      BY <1>2
    <2>2. ASSUME NEW k \in Nat, k \in S PROVE k + 1 \in S
      <3> SUFFICES ASSUME k + 1 <= m PROVE h[k + 1] = e[k + 1]
        OBVIOUS
      <3>1. k <= m /\ k \in 0 .. (m - 1) /\ k \in 0 .. ((m + 1) - 1)
        OBVIOUS
      <3>2. h[k] = e[k]
        BY <2>2, <3>1
      <3>3. h[k + 1] = g[h[k]] /\ e[k + 1] = g[e[k]]
        BY <1>2, <3>1
      <3>4. QED
        BY <3>2, <3>3
    <2> HIDE DEF S
    <2>3. m \in S
      BY <2>1, <2>2, InductiveSet
    <2>4. QED
      BY <2>3 DEF S
  <1>3. ASSUME NEW n \in Nat PROVE Upto(n, H(n))
    <2> HIDE DEF Upto
    <2>1. QED
      BY <1>1
  <1> DEFINE f == [n \in Nat |-> H(n)[n]]
  <1> HIDE DEF H
  <1>4. ASSUME NEW n \in Nat PROVE f[n] \in X /\ f[0] = x /\ f[n + 1] = g[f[n]]
    <2>1. n + 1 \in Nat /\ 0 \in Nat /\ n \in 0 .. n /\ n \in 0 .. ((n + 1) - 1)
      OBVIOUS
    <2> HIDE DEF Upto
    <2>2. Upto(0, H(0)) /\ Upto(n, H(n)) /\ Upto(n + 1, H(n + 1))
      BY <1>3, <2>1
    <2>3. H(n)[n] = H(n + 1)[n]
      BY <1>2, <2>2
    <2>4. f[n] = H(n)[n] /\ f[n + 1] = H(n + 1)[n + 1] /\ f[0] = H(0)[0]
      BY <2>1
    <2>5. H(n)[n] \in X /\ H(0)[0] = x /\ H(n + 1)[n + 1] = g[H(n + 1)[n]]
      BY <2>1, <2>2 DEF Upto
    <2>6. QED
      BY <2>3, <2>4, <2>5
  <1> HIDE DEF f
  <1>5. f \in [Nat -> X]
    BY <1>4 DEF f
  <1>6. QED
    BY <1>4, <1>5


\* What is true of a value when it is true of the next, and at the end of the
\* loop, is true of every value: every turn takes the measure down.
LEMMA LoopInduction ==
  ASSUME NEW X, NEW g \in [X -> X], NEW mu \in [X -> Nat], NEW S,
         \A x \in X : g[x] # x => mu[g[x]] < mu[x],
         \A x \in X : g[x] = x => x \in S,
         \A x \in X : g[x] # x /\ g[x] \in S => x \in S
  PROVE  X \subseteq S
  <1> DEFINE D == {n \in Nat : \A x \in X : mu[x] < n => x \in S}
  <1>1. 0 \in D
    <2>1. \A x \in X : mu[x] \in Nat
      OBVIOUS
    <2>2. QED
      BY <2>1
  <1>2. ASSUME NEW n \in Nat, n \in D PROVE n + 1 \in D
    <2> SUFFICES ASSUME NEW x \in X, mu[x] < n + 1 PROVE x \in S
      OBVIOUS
    <2>1. CASE g[x] = x
      BY <2>1
    <2>2. CASE g[x] # x
      <3>1. g[x] \in X /\ mu[x] \in Nat /\ mu[g[x]] \in Nat /\ mu[g[x]] < mu[x]
        BY <2>2
      <3>2. mu[g[x]] < n
        BY <3>1
      <3>3. g[x] \in S
        BY <1>2, <3>1, <3>2
      <3>4. QED
        BY <2>2, <3>3
    <2>3. QED
      BY <2>1, <2>2
  <1> HIDE DEF D
  <1>3. Nat \subseteq D
    BY <1>1, <1>2, InductiveSet
  <1>4. ASSUME NEW x \in X PROVE x \in S
    <2>1. mu[x] \in Nat /\ mu[x] + 1 \in Nat /\ mu[x] < mu[x] + 1
      OBVIOUS
    <2>2. mu[x] + 1 \in D
      BY <1>3, <2>1
    <2>3. QED
      BY <2>1, <2>2 DEF D
  <1>5. QED
    BY <1>4

\* The rounds of a loop.
Rounds(X, g, x, f) == f \in [Nat -> X] /\ f[0] = x /\ \A i \in Nat : f[i + 1] = g[f[i]]

\* Where a loop ends.
LoopEnd(X, g, x) ==
  CHOOSE y : \E f : Rounds(X, g, x, f) /\ \E n \in Nat : y = f[n] /\ g[y] = y

LEMMA RoundsExist ==
  ASSUME NEW X, NEW g \in [X -> X], NEW x \in X
  PROVE  \E f : Rounds(X, g, x, f)
  <1>1. \E f \in [Nat -> X] : f[0] = x /\ \A i \in Nat : f[i + 1] = g[f[i]]
    BY Iteration
  <1>2. QED
    BY <1>1 DEF Rounds

\* The rounds that follow the first are the rounds of the next value.
LEMMA LaterRounds ==
  ASSUME NEW X, NEW g \in [X -> X], NEW x \in X, NEW f, Rounds(X, g, x, f)
  PROVE  Rounds(X, g, g[x], [i \in Nat |-> f[i + 1]])
  <1> DEFINE e == [i \in Nat |-> f[i + 1]]
  <1>1. f \in [Nat -> X] /\ f[0] = x /\ \A i \in Nat : f[i + 1] = g[f[i]]
    BY DEF Rounds
  <1>2. e \in [Nat -> X]
    BY <1>1
  <1>3. e[0] = g[x]
    <2>1. 0 \in Nat /\ f[0 + 1] = g[f[0]]
      BY <1>1
    <2>2. QED
      BY <1>1, <2>1
  <1>4. ASSUME NEW i \in Nat PROVE e[i + 1] = g[e[i]]
    <2>1. i + 1 \in Nat /\ e[i] = f[i + 1] /\ e[i + 1] = f[(i + 1) + 1]
      OBVIOUS
    <2>2. QED
      BY <1>1, <2>1
  <1>5. QED
    BY <1>2, <1>3, <1>4 DEF Rounds

\* There is one sequence of rounds.
LEMMA RoundsUnique ==
  ASSUME NEW X, NEW g, NEW x, NEW f, NEW h, Rounds(X, g, x, f), Rounds(X, g, x, h),
         NEW n \in Nat
  PROVE  f[n] = h[n]
  <1> DEFINE S == {k \in Nat : f[k] = h[k]}
  <1>1. 0 \in S
    BY DEF Rounds
  <1>2. ASSUME NEW k \in Nat, k \in S PROVE k + 1 \in S
    BY <1>2 DEF Rounds
  <1> HIDE DEF S
  <1>3. n \in S
    BY <1>1, <1>2, InductiveSet
  <1>4. QED
    BY <1>3 DEF S

\* A loop that is at rest stays there.
LEMMA RoundsRest ==
  ASSUME NEW X, NEW g, NEW x, NEW f, Rounds(X, g, x, f),
         NEW n \in Nat, g[f[n]] = f[n], NEW m \in Nat, n <= m
  PROVE  f[m] = f[n]
  <1> DEFINE S == {k \in Nat : f[n + k] = f[n]}
  <1>1. 0 \in S
    <2>1. n + 0 = n
      OBVIOUS
    <2>2. QED
      BY <2>1
  <1>2. ASSUME NEW k \in Nat, k \in S PROVE k + 1 \in S
    <2>1. n + k \in Nat /\ n + (k + 1) = (n + k) + 1
      OBVIOUS
    <2>2. QED
      BY <1>2, <2>1 DEF Rounds
  <1> HIDE DEF S
  <1>3. m - n \in Nat /\ n + (m - n) = m
    OBVIOUS
  <1>4. m - n \in S
    BY <1>1, <1>2, <1>3, InductiveSet
  <1>5. QED
    BY <1>3, <1>4 DEF S

\* After as many rounds as the measure says the loop is at rest.
LEMMA RoundsEnd ==
  ASSUME NEW X, NEW g \in [X -> X], NEW mu \in [X -> Nat], NEW x \in X, NEW f,
         Rounds(X, g, x, f), \A y \in X : g[y] # y => mu[g[y]] < mu[y],
         NEW n \in Nat, mu[x] <= n
  PROVE  g[f[n]] = f[n]
  <1> DEFINE S == {y \in X : \A h : Rounds(X, g, y, h) => g[h[mu[y]]] = h[mu[y]]}
  <1>1. ASSUME NEW y \in X, g[y] = y PROVE y \in S
    <2> SUFFICES ASSUME NEW h, Rounds(X, g, y, h) PROVE g[h[mu[y]]] = h[mu[y]]
      OBVIOUS
    <2>1. 0 \in Nat /\ mu[y] \in Nat /\ 0 <= mu[y] /\ g[h[0]] = h[0] /\ h[0] = y
      BY <1>1 DEF Rounds
    <2>2. h[mu[y]] = h[0]
      BY <2>1, RoundsRest
    <2>3. QED
      BY <2>1, <2>2
  <1>2. ASSUME NEW y \in X, g[y] # y, g[y] \in S PROVE y \in S
    <2> SUFFICES ASSUME NEW h, Rounds(X, g, y, h) PROVE g[h[mu[y]]] = h[mu[y]]
      OBVIOUS
    <2> DEFINE e == [i \in Nat |-> h[i + 1]]
    <2>1. Rounds(X, g, g[y], e)
      BY LaterRounds
    <2>2. mu[y] \in Nat /\ mu[g[y]] \in Nat /\ mu[g[y]] < mu[y]
      BY <1>2
    <2>3. g[e[mu[g[y]]]] = e[mu[g[y]]]
      BY <1>2, <2>1
    <2>4. e[mu[g[y]]] = h[mu[g[y]] + 1]
      BY <2>2
    <2>5. mu[g[y]] + 1 \in Nat /\ mu[g[y]] + 1 <= mu[y]
      BY <2>2
    <2>6. h[mu[y]] = h[mu[g[y]] + 1]
      BY <2>2, <2>3, <2>4, <2>5, RoundsRest
    <2>7. QED
      BY <2>3, <2>4, <2>6
  <1> HIDE DEF S
  <1>3. x \in S
    BY <1>1, <1>2, LoopInduction
  <1>4. g[f[mu[x]]] = f[mu[x]] /\ mu[x] \in Nat
    BY <1>3 DEF S
  <1>5. f[n] = f[mu[x]]
    BY <1>4, RoundsRest
  <1>6. QED
    BY <1>4, <1>5

\* What the loop leaves after enough rounds is its end, which is the end of
\* the loop from the next value too.
LEMMA LoopEnds ==
  ASSUME NEW X, NEW g \in [X -> X], NEW mu \in [X -> Nat], NEW x \in X,
         \A y \in X : g[y] # y => mu[g[y]] < mu[y]
  PROVE  /\ LoopEnd(X, g, x) \in X /\ g[LoopEnd(X, g, x)] = LoopEnd(X, g, x)
         /\ LoopEnd(X, g, x) = LoopEnd(X, g, g[x])
         /\ g[x] = x => LoopEnd(X, g, x) = x
         /\ \A f : \A n \in Nat :
              Rounds(X, g, x, f) /\ mu[x] <= n => f[n] = LoopEnd(X, g, x)
  <1> DEFINE Ends(z, y) == \E f : Rounds(X, g, z, f) /\ \E n \in Nat : y = f[n] /\ g[y] = y
  <1>1. ASSUME NEW z \in X PROVE \E y : Ends(z, y)
    <2>1. PICK f : Rounds(X, g, z, f)
      BY RoundsExist
    <2>2. Rounds(X, g, z, f) /\ mu[z] \in Nat /\ mu[z] <= mu[z]
      BY <2>1
    <2>3. g[f[mu[z]]] = f[mu[z]]
      BY <2>2, RoundsEnd
    <2>4. QED
      BY <2>2, <2>3
  <1>2. ASSUME NEW z \in X, NEW y, NEW w, Ends(z, y), Ends(z, w) PROVE y = w
    <2>a. PICK f : Rounds(X, g, z, f) /\ \E n \in Nat : y = f[n] /\ g[y] = y
      BY <1>2
    <2>1. PICK n \in Nat : Rounds(X, g, z, f) /\ y = f[n] /\ g[y] = y
      BY <2>a
    <2>b. PICK h : Rounds(X, g, z, h) /\ \E m \in Nat : w = h[m] /\ g[w] = w
      BY <1>2
    <2>2. PICK m \in Nat : Rounds(X, g, z, h) /\ w = h[m] /\ g[w] = w
      BY <2>b
    <2>3. w = f[m]
      BY <2>1, <2>2, RoundsUnique
    <2>4. CASE n <= m
      BY <2>1, <2>3, <2>4, RoundsRest
    <2>5. CASE ~(n <= m)
      <3>1. m <= n
        BY <2>5
      <3>2. QED
        BY <2>1, <2>2, <2>3, <3>1, RoundsRest
    <2>6. QED
      BY <2>4, <2>5
  <1>3. ASSUME NEW z \in X PROVE Ends(z, LoopEnd(X, g, z))
    <2>1. LoopEnd(X, g, z) = CHOOSE y : Ends(z, y)
      BY DEF LoopEnd
    <2> HIDE DEF Ends
    <2>2. QED
      BY <1>1, <2>1
  <1>4. ASSUME NEW y, Ends(g[x], y) PROVE Ends(x, y)
    <2>a. PICK f : Rounds(X, g, g[x], f) /\ \E n \in Nat : y = f[n] /\ g[y] = y
      BY <1>4
    <2>1. PICK n \in Nat : Rounds(X, g, g[x], f) /\ y = f[n] /\ g[y] = y
      BY <2>a
    <2>2. PICK h : Rounds(X, g, x, h)
      BY RoundsExist
    <2>3. Rounds(X, g, x, h)
      BY <2>2
    <2> DEFINE e == [i \in Nat |-> h[i + 1]]
    <2>4. Rounds(X, g, g[x], e)
      BY <2>3, LaterRounds
    <2>5. e[n] = y
      BY <2>1, <2>4, RoundsUnique
    <2>6. n + 1 \in Nat /\ h[n + 1] = y
      BY <2>5
    <2>7. QED
      BY <2>1, <2>3, <2>6
  <1>5. g[x] \in X
    OBVIOUS
  <1>6. LoopEnd(X, g, x) \in X /\ g[LoopEnd(X, g, x)] = LoopEnd(X, g, x)
    <2>a. PICK f : Rounds(X, g, x, f) /\ \E n \in Nat : LoopEnd(X, g, x) = f[n] /\ g[LoopEnd(X, g, x)] = LoopEnd(X, g, x)
      BY <1>3
    <2>1. PICK n \in Nat : Rounds(X, g, x, f) /\ LoopEnd(X, g, x) = f[n] /\ g[LoopEnd(X, g, x)] = LoopEnd(X, g, x)
      BY <2>a
    <2>2. QED
      BY <2>1 DEF Rounds
  <1>7. LoopEnd(X, g, x) = LoopEnd(X, g, g[x])
    <2> HIDE DEF Ends
    <2>1. QED
      BY <1>2, <1>3, <1>4, <1>5
  <1>8. ASSUME NEW f, NEW n \in Nat, Rounds(X, g, x, f), mu[x] <= n
        PROVE  f[n] = LoopEnd(X, g, x)
    <2>1. g[f[n]] = f[n]
      BY <1>8, RoundsEnd
    <2>2. Ends(x, f[n])
      BY <1>8, <2>1
    <2> HIDE DEF Ends
    <2>3. QED
      BY <1>2, <1>3, <2>2
  <1>9. ASSUME g[x] = x PROVE LoopEnd(X, g, x) = x
    <2>1. PICK h : Rounds(X, g, x, h)
      BY RoundsExist
    <2>2. Rounds(X, g, x, h) /\ 0 \in Nat /\ x = h[0]
      BY <2>1 DEF Rounds
    <2>3. Ends(x, x)
      BY <1>9, <2>2
    <2> HIDE DEF Ends
    <2>4. QED
      BY <1>2, <1>3, <2>3
  <1>10. QED
    BY <1>6, <1>7, <1>8, <1>9

-----------------------------------------------------------------------------
(* Loops over a sequence.                                                  *)

\* What is true of the empty sequence, and of a longer one when it is true of
\* the one without its last element, is true of every sequence.
LEMMA InductiveSequences ==
  ASSUME NEW E, NEW S, <<>> \in S, \A s \in Seq(E) : \A e \in E : s \in S => Append(s, e) \in S
  PROVE  Seq(E) \subseteq S
  <1> DEFINE D == {n \in Nat : \A s \in Seq(E) : Len(s) = n => s \in S}
  <1>1. 0 \in D
    <2>1. ASSUME NEW s \in Seq(E), Len(s) = 0 PROVE s = <<>>
      BY <2>1, EmptySeq
    <2>2. QED
      BY <2>1
  <1>2. ASSUME NEW n \in Nat, n \in D PROVE n + 1 \in D
    <2> SUFFICES ASSUME NEW s \in Seq(E), Len(s) = n + 1 PROVE s \in S
      OBVIOUS
    <2>1. s # <<>>
      BY EmptySeq
    <2>2. PICK r \in Seq(E), e \in E : s = Append(r, e)
      BY <2>1, SequenceEmptyOrAppend
    <2>3. Len(r) \in Nat /\ Len(s) = Len(r) + 1
      BY <2>2, AppendProperties
    <2>4. Len(r) = n
      BY <2>3
    <2>5. r \in S
      BY <1>2, <2>4
    <2>6. QED
      BY <2>2, <2>5
  <1> HIDE DEF D
  <1>3. Nat \subseteq D
    BY <1>1, <1>2, InductiveSet
  <1>4. ASSUME NEW s \in Seq(E) PROVE s \in S
    <2>1. Len(s) \in D
      BY <1>3, LenProperties
    <2>2. QED
      BY <2>1 DEF D
  <1>5. QED
    BY <1>4

\* The values that a loop over a sequence goes through.
Folds(X, g, x, s, h) ==
  h \in [0 .. Len(s) -> X] /\ h[0] = x /\ \A k \in 1 .. Len(s) : h[k] = g[s[k]][h[k - 1]]

FoldEnd(X, g, x, s) == (CHOOSE h : Folds(X, g, x, s, h))[Len(s)]

\* The values depend on the elements that came before them.
LEMMA FoldsAgree ==
  ASSUME NEW E, NEW X, NEW g, NEW x, NEW s \in Seq(E), NEW t \in Seq(E), NEW h, NEW e,
         Folds(X, g, x, s, h), Folds(X, g, x, t, e), Len(s) <= Len(t),
         \A i \in 1 .. Len(s) : s[i] = t[i]
  PROVE  \A k \in 0 .. Len(s) : h[k] = e[k]
  <1> DEFINE S == {k \in Nat : k <= Len(s) => h[k] = e[k]}
  <1>0. Len(s) \in Nat /\ Len(t) \in Nat
    BY LenProperties
  <1>1. 0 \in S
    BY DEF Folds
  <1>2. ASSUME NEW k \in Nat, k \in S PROVE k + 1 \in S
    <2> SUFFICES ASSUME k + 1 <= Len(s) PROVE h[k + 1] = e[k + 1]
      OBVIOUS
    <2>1. k + 1 \in 1 .. Len(s) /\ k + 1 \in 1 .. Len(t) /\ (k + 1) - 1 = k /\ k <= Len(s)
      BY <1>0
    <2>2. h[k] = e[k]
      BY <1>2, <2>1
    <2>3. h[k + 1] = g[s[k + 1]][h[(k + 1) - 1]] /\ e[k + 1] = g[t[k + 1]][e[(k + 1) - 1]]
      BY <2>1 DEF Folds
    <2>4. s[k + 1] = t[k + 1]
      BY <2>1
    <2>5. QED
      BY <2>1, <2>2, <2>3, <2>4
  <1> HIDE DEF S
  <1>3. ASSUME NEW k \in 0 .. Len(s) PROVE h[k] = e[k]
    <2>1. k \in Nat /\ k <= Len(s)
      BY <1>0
    <2>2. k \in S
      BY <1>1, <1>2, <2>1, InductiveSet
    <2>3. QED
      BY <2>1, <2>2 DEF S
  <1>4. QED
    BY <1>3

Longer(g, s, a, h) ==
  [k \in 0 .. (Len(s) + 1) |-> IF k = Len(s) + 1 THEN g[a][h[Len(s)]] ELSE h[k]]

\* A loop over a sequence has its values, and one more for one more element.
LEMMA FoldsExtend ==
  ASSUME NEW E, NEW X, NEW g \in [E -> [X -> X]], NEW x \in X, NEW s \in Seq(E), NEW a \in E,
         NEW h, Folds(X, g, x, s, h)
  PROVE  /\ Folds(X, g, x, Append(s, a), Longer(g, s, a, h))
         /\ Longer(g, s, a, h)[Len(s) + 1] = g[a][h[Len(s)]]
  <1> DEFINE n == Len(s)
             t == Append(s, a)
             e == [k \in 0 .. (n + 1) |-> IF k = n + 1 THEN g[a][h[n]] ELSE h[k]]
  <1>1. n \in Nat
    BY LenProperties
  <1>2. t \in Seq(E) /\ Len(t) = n + 1 /\ t[n + 1] = a /\ \A i \in 1 .. n : t[i] = s[i]
    BY AppendProperties
  <1>3. /\ h \in [0 .. n -> X] /\ h[0] = x
        /\ \A k \in 1 .. n : h[k] = g[s[k]][h[k - 1]]
    BY DEF Folds
  <1> HIDE DEF n, t
  <1>4. n \in 0 .. n /\ h[n] \in X /\ g[a][h[n]] \in X
    BY <1>1, <1>3
  <1>5. ASSUME NEW k \in 0 .. n PROVE e[k] = h[k] /\ h[k] \in X
    <2>1. k # n + 1 /\ k \in 0 .. (n + 1)
      BY <1>1
    <2>2. QED
      BY <1>3, <2>1
  <1>6. e[n + 1] = g[a][h[n]]
    BY <1>1
  <1>7. e \in [0 .. (n + 1) -> X]
    <2>1. \A k \in 0 .. (n + 1) : k # n + 1 => k \in 0 .. n
      BY <1>1
    <2>2. QED
      BY <1>3, <1>4, <2>1
  <1> HIDE DEF e
  <1>8. e[0] = x
    BY <1>1, <1>3, <1>5
  <1>9. ASSUME NEW k \in 1 .. (n + 1) PROVE e[k] = g[t[k]][e[k - 1]]
    <2>1. CASE k = n + 1
      <3>1. k - 1 = n /\ n \in 0 .. n
        BY <1>1, <2>1
      <3>2. e[k - 1] = h[n] /\ t[k] = a
        BY <1>2, <1>5, <2>1, <3>1
      <3>3. QED
        BY <1>6, <2>1, <3>2
    <2>2. CASE k # n + 1
      <3>1. k \in 1 .. n /\ k \in 0 .. n /\ k - 1 \in 0 .. n
        BY <1>1, <2>2
      <3>2. e[k] = h[k] /\ e[k - 1] = h[k - 1] /\ t[k] = s[k]
        BY <1>2, <1>5, <3>1
      <3>3. QED
        BY <1>3, <3>1, <3>2
    <2>3. QED
      BY <2>1, <2>2
  <1>10. Folds(X, g, x, t, e)
    BY <1>2, <1>7, <1>8, <1>9 DEF Folds
  <1>11. QED
    <2>1. e = Longer(g, s, a, h)
      BY DEF e, n, Longer
    <2>2. QED
      BY <1>6, <1>10, <2>1 DEF n, t

LEMMA FoldsEmpty ==
  ASSUME NEW X, NEW g, NEW x \in X
  PROVE  Folds(X, g, x, <<>>, [k \in 0 .. 0 |-> x])
  <1>1. Len(<<>>) = 0
    BY EmptySeq
  <1>2. 1 .. 0 = {}
    OBVIOUS
  <1>3. QED
    BY <1>1, <1>2 DEF Folds

LEMMA FoldsExist ==
  ASSUME NEW E, NEW X, NEW g \in [E -> [X -> X]], NEW x \in X, NEW s \in Seq(E)
  PROVE  \E h : Folds(X, g, x, s, h)
  <1>1. ASSUME NEW r \in Seq(E), NEW a \in E, NEW h, Folds(X, g, x, r, h)
        PROVE  \E e : Folds(X, g, x, Append(r, a), e)
    <2>1. Folds(X, g, x, Append(r, a), Longer(g, r, a, h))
      BY <1>1, FoldsExtend
    <2>2. QED
      BY <2>1
  <1> DEFINE S == {r \in Seq(E) : \E h : Folds(X, g, x, r, h)}
  <1>2. <<>> \in S
    BY FoldsEmpty, EmptySeq
  <1>3. ASSUME NEW r \in Seq(E), NEW a \in E, r \in S PROVE Append(r, a) \in S
    <2>1. PICK h : Folds(X, g, x, r, h)
      BY <1>3
    <2>2. \E e : Folds(X, g, x, Append(r, a), e)
      BY <1>1, <2>1
    <2>3. Append(r, a) \in Seq(E)
      BY AppendProperties
    <2>4. QED
      BY <2>2, <2>3
  <1> HIDE DEF S
  <1>4. s \in S
    BY <1>2, <1>3, InductiveSequences
  <1>5. QED
    BY <1>4 DEF S

\* Where a loop over a sequence ends, and how one more element changes it.
LEMMA FoldEndOf ==
  ASSUME NEW E, NEW X, NEW g \in [E -> [X -> X]], NEW x \in X, NEW s \in Seq(E),
         NEW h, Folds(X, g, x, s, h)
  PROVE  h[Len(s)] = FoldEnd(X, g, x, s)
  <1> DEFINE e == CHOOSE f : Folds(X, g, x, s, f)
  <1>1. Len(s) \in Nat /\ Len(s) \in 0 .. Len(s) /\ Len(s) <= Len(s)
    BY LenProperties
  <1>2. \A i \in 1 .. Len(s) : s[i] = s[i]
    OBVIOUS
  <1>3. Folds(X, g, x, s, e) /\ FoldEnd(X, g, x, s) = e[Len(s)]
    BY DEF FoldEnd
  <1> HIDE DEF e
  <1>4. \A k \in 0 .. Len(s) : h[k] = e[k]
    BY <1>1, <1>2, <1>3, FoldsAgree
  <1>5. QED
    BY <1>1, <1>3, <1>4

LEMMA FoldEndIn ==
  ASSUME NEW E, NEW X, NEW g \in [E -> [X -> X]], NEW x \in X, NEW s \in Seq(E)
  PROVE  FoldEnd(X, g, x, s) \in X
  <1>1. PICK h : Folds(X, g, x, s, h)
    BY FoldsExist
  <1>2. h[Len(s)] = FoldEnd(X, g, x, s)
    BY <1>1, FoldEndOf
  <1>3. Len(s) \in 0 .. Len(s)
    BY LenProperties
  <1>4. QED
    BY <1>1, <1>2, <1>3 DEF Folds

LEMMA FoldEndEmpty ==
  ASSUME NEW E, NEW X, NEW g \in [E -> [X -> X]], NEW x \in X
  PROVE  FoldEnd(X, g, x, <<>>) = x
  <1>0. \A r \in Seq(E) : \A f : Folds(X, g, x, r, f) => f[Len(r)] = FoldEnd(X, g, x, r)
    BY FoldEndOf
  <1> DEFINE h == [k \in 0 .. 0 |-> x]
             s == <<>>
  <1>1. s \in Seq(E) /\ Len(s) = 0 /\ h[0] = x
    BY EmptySeq
  <1>2. Folds(X, g, x, s, h)
    BY FoldsEmpty
  <1> HIDE DEF h, s
  <1>3. h[Len(s)] = FoldEnd(X, g, x, s)
    BY <1>0, <1>1, <1>2
  <1>4. QED
    BY <1>1, <1>3 DEF s

LEMMA FoldEndAppend ==
  ASSUME NEW E, NEW X, NEW g \in [E -> [X -> X]], NEW x \in X, NEW s \in Seq(E), NEW a \in E
  PROVE  FoldEnd(X, g, x, Append(s, a)) = g[a][FoldEnd(X, g, x, s)]
  <1>1. PICK h : Folds(X, g, x, s, h)
    BY FoldsExist
  <1>2. h[Len(s)] = FoldEnd(X, g, x, s)
    BY <1>1, FoldEndOf
  <1> DEFINE t == Append(s, a)
             e == Longer(g, s, a, h)
  <1>3. Folds(X, g, x, t, e)
    BY <1>1, FoldsExtend
  <1>a. e[Len(s) + 1] = g[a][h[Len(s)]]
    <2>1. Len(s) \in Nat
      BY LenProperties
    <2>2. QED
      BY <2>1 DEF Longer
  <1>4. t \in Seq(E) /\ Len(t) = Len(s) + 1
    BY AppendProperties
  <1> HIDE DEF t, e
  <1>5. e[Len(t)] = FoldEnd(X, g, x, t)
    BY <1>3, <1>4, FoldEndOf
  <1>6. FoldEnd(X, g, x, t) = g[a][FoldEnd(X, g, x, s)]
    <2>1. e[Len(t)] = e[Len(s) + 1]
      BY <1>4
    <2>2. e[Len(t)] = g[a][h[Len(s)]]
      BY <1>a, <2>1, Zenon
    <2>3. QED
      BY <1>2, <1>5, <2>2, Zenon
  <1>7. QED
    BY <1>6 DEF t

-----------------------------------------------------------------------------
(* Parts of a text.                                                        *)

\* The rest of a text after its first pieces.
LEMMA DropFacts ==
  ASSUME NEW S, NEW d \in Seq(S), NEW n \in 0 .. Len(d)
  PROVE  /\ Drop(d, n) \in Seq(S) /\ Len(Drop(d, n)) = Len(d) - n
         /\ \A i \in 1 .. (Len(d) - n) : Drop(d, n)[i] = d[n + i]
  <1> DEFINE l == Len(d)
  <1>1. l \in Nat /\ n \in Nat /\ n + 1 \in Int /\ l \in Int
    OBVIOUS
  <1>2. \A i \in (n + 1) .. l : d[i] \in S
    OBVIOUS
  <1>3. Drop(d, n) = SubSeq(d, n + 1, l)
    BY DEF Drop
  <1> HIDE DEF l
  <1>4. /\ SubSeq(d, n + 1, l) \in Seq(S)
        /\ Len(SubSeq(d, n + 1, l)) = (IF n + 1 <= l THEN l - (n + 1) + 1 ELSE 0)
        /\ \A i \in 1 .. (l - (n + 1) + 1) : SubSeq(d, n + 1, l)[i] = d[(n + 1) + i - 1]
    BY <1>1, <1>2, SubSeqProperties
  <1>5. n <= l
    BY DEF l
  <1>6. Len(Drop(d, n)) = l - n /\ l - (n + 1) + 1 = l - n
    BY <1>1, <1>3, <1>4, <1>5
  <1>7. ASSUME NEW i \in 1 .. (l - n) PROVE Drop(d, n)[i] = d[n + i]
    <2>1. i \in 1 .. (l - (n + 1) + 1) /\ (n + 1) + i - 1 = n + i
      BY <1>1, <1>6
    <2>2. QED
      BY <1>3, <1>4, <2>1
  <1>8. QED
    BY <1>3, <1>4, <1>6, <1>7 DEF l

\* More text comes after the rest.
LEMMA DropJoin ==
  ASSUME NEW S, NEW d \in Seq(S), NEW b \in Seq(S), NEW n \in 0 .. Len(d)
  PROVE  Drop(d \o b, n) = Drop(d, n) \o b
  <1> DEFINE c == d \o b
             p == Drop(c, n)
             q == Drop(d, n)
             e == q \o b
  <1>1. /\ c \in Seq(S) /\ Len(c) = Len(d) + Len(b)
        /\ \A i \in 1 .. (Len(d) + Len(b)) : c[i] = IF i <= Len(d) THEN d[i] ELSE b[i - Len(d)]
    BY ConcatProperties
  <1>2. Len(d) \in Nat /\ Len(b) \in Nat /\ n \in Nat /\ n <= Len(d) /\ n \in 0 .. Len(c)
    BY <1>1
  <1>3. /\ p \in Seq(S) /\ Len(p) = Len(c) - n
        /\ \A i \in 1 .. (Len(c) - n) : p[i] = c[n + i]
    <2> HIDE DEF c
    <2>1. QED
      BY <1>1, <1>2, DropFacts
  <1>4. /\ q \in Seq(S) /\ Len(q) = Len(d) - n
        /\ \A i \in 1 .. (Len(d) - n) : q[i] = d[n + i]
    BY DropFacts
  <1>5. /\ e \in Seq(S) /\ Len(e) = Len(q) + Len(b)
        /\ \A i \in 1 .. (Len(q) + Len(b)) : e[i] = IF i <= Len(q) THEN q[i] ELSE b[i - Len(q)]
    <2> HIDE DEF q
    <2>1. QED
      BY <1>4, ConcatProperties
  <1> HIDE DEF c, p, q, e
  <1>6. Len(p) = Len(e)
    BY <1>1, <1>2, <1>3, <1>4, <1>5
  <1>7. ASSUME NEW i \in 1 .. Len(p) PROVE p[i] = e[i]
    <2>1. i \in 1 .. (Len(c) - n) /\ n + i \in 1 .. (Len(d) + Len(b)) /\ i \in 1 .. (Len(q) + Len(b))
      BY <1>1, <1>2, <1>3, <1>4
    <2>2. p[i] = IF n + i <= Len(d) THEN d[n + i] ELSE b[(n + i) - Len(d)]
      BY <1>1, <1>3, <2>1
    <2>3. e[i] = IF i <= Len(q) THEN q[i] ELSE b[i - Len(q)]
      BY <1>5, <2>1
    <2>4. CASE n + i <= Len(d)
      <3>1. i \in 1 .. (Len(d) - n) /\ i <= Len(q)
        BY <1>2, <1>4, <2>4
      <3>2. QED
        BY <1>4, <2>2, <2>3, <2>4, <3>1
    <2>5. CASE ~(n + i <= Len(d))
      <3>1. ~(i <= Len(q)) /\ i - Len(q) = (n + i) - Len(d)
        BY <1>2, <1>4, <2>5
      <3>2. QED
        BY <2>2, <2>3, <2>5, <3>1
    <2>6. QED
      BY <2>4, <2>5
  <1>8. p = e
    BY <1>3, <1>5, <1>6, <1>7, SeqEqual
  <1>9. QED
    BY <1>8 DEF p, e, c, q


\* The first pieces of a text.
LEMMA TakeFacts ==
  ASSUME NEW S, NEW d \in Seq(S), NEW n \in 0 .. Len(d)
  PROVE  /\ SubSeq(d, 1, n) \in Seq(S) /\ Len(SubSeq(d, 1, n)) = n
         /\ \A i \in 1 .. n : SubSeq(d, 1, n)[i] = d[i]
  <1>1. Len(d) \in Nat /\ n \in Int /\ 1 \in Int /\ \A i \in 1 .. n : d[i] \in S
    BY LenProperties
  <1>2. /\ SubSeq(d, 1, n) \in Seq(S)
        /\ Len(SubSeq(d, 1, n)) = (IF 1 <= n THEN n - 1 + 1 ELSE 0)
        /\ \A i \in 1 .. (n - 1 + 1) : SubSeq(d, 1, n)[i] = d[1 + i - 1]
    BY <1>1, SubSeqProperties
  <1>3. n \in Nat /\ (n - 1) + 1 = n /\ \A i \in 1 .. n : 1 + i - 1 = i
    BY <1>1
  <1>4. Len(SubSeq(d, 1, n)) = n
    BY <1>2, <1>3
  <1>5. ASSUME NEW i \in 1 .. n PROVE SubSeq(d, 1, n)[i] = d[i]
    <2>1. i \in 1 .. (n - 1 + 1) /\ 1 + i - 1 = i
      BY <1>3
    <2>2. QED
      BY <1>2, <2>1
  <1>6. QED
    BY <1>2, <1>4, <1>5

LEMMA TakeJoin ==
  ASSUME NEW S, NEW d \in Seq(S), NEW b \in Seq(S), NEW n \in 0 .. Len(d)
  PROVE  SubSeq(d \o b, 1, n) = SubSeq(d, 1, n)
  <1> DEFINE c == d \o b
             p == SubSeq(c, 1, n)
             q == SubSeq(d, 1, n)
  <1>1. /\ c \in Seq(S) /\ Len(c) = Len(d) + Len(b)
        /\ \A i \in 1 .. (Len(d) + Len(b)) : c[i] = IF i <= Len(d) THEN d[i] ELSE b[i - Len(d)]
    BY ConcatProperties
  <1>2. Len(d) \in Nat /\ Len(b) \in Nat /\ n \in Nat /\ n <= Len(d) /\ n \in 0 .. Len(c)
    BY <1>1, LenProperties
  <1>3. q \in Seq(S) /\ Len(q) = n /\ \A i \in 1 .. n : q[i] = d[i]
    BY TakeFacts
  <1> HIDE DEF c
  <1>4. p \in Seq(S) /\ Len(p) = n /\ \A i \in 1 .. n : p[i] = c[i]
    BY <1>1, <1>2, TakeFacts
  <1> HIDE DEF p, q
  <1>5. ASSUME NEW i \in 1 .. n PROVE p[i] = q[i]
    <2>1. i \in 1 .. (Len(d) + Len(b)) /\ i <= Len(d)
      BY <1>2
    <2>2. QED
      BY <1>1, <1>3, <1>4, <2>1
  <1>6. p = q
    BY <1>3, <1>4, <1>5, SeqEqual
  <1>7. QED
    BY <1>6 DEF p, q, c

\* A text is its first pieces and the rest.
LEMMA TakeDrop ==
  ASSUME NEW S, NEW d \in Seq(S), NEW n \in 0 .. Len(d)
  PROVE  SubSeq(d, 1, n) \o Drop(d, n) = d
  <1> DEFINE p == SubSeq(d, 1, n)
             q == Drop(d, n)
             c == p \o q
  <1>1. p \in Seq(S) /\ Len(p) = n /\ \A i \in 1 .. n : p[i] = d[i]
    BY TakeFacts
  <1>2. q \in Seq(S) /\ Len(q) = Len(d) - n /\ \A i \in 1 .. (Len(d) - n) : q[i] = d[n + i]
    BY DropFacts
  <1> HIDE DEF p, q
  <1>3. /\ c \in Seq(S) /\ Len(c) = Len(p) + Len(q)
        /\ \A i \in 1 .. (Len(p) + Len(q)) : c[i] = IF i <= Len(p) THEN p[i] ELSE q[i - Len(p)]
    BY <1>1, <1>2, ConcatProperties
  <1> HIDE DEF c
  <1>4. Len(d) \in Nat /\ n \in Nat /\ n <= Len(d)
    BY LenProperties
  <1>5. Len(c) = Len(d) /\ Len(p) + Len(q) = Len(d)
    BY <1>1, <1>2, <1>3, <1>4
  <1>6. ASSUME NEW i \in 1 .. Len(d) PROVE c[i] = d[i]
    <2>1. CASE i <= n
      <3>1. i \in 1 .. n
        BY <1>4, <2>1
      <3>2. QED
        BY <1>1, <1>3, <1>5, <2>1, <3>1
    <2>2. CASE ~(i <= n)
      <3>1. i - n \in 1 .. (Len(d) - n) /\ n + (i - n) = i
        BY <1>4, <2>2
      <3>2. QED
        BY <1>1, <1>2, <1>3, <1>5, <2>2, <3>1
    <2>3. QED
      BY <2>1, <2>2
  <1>7. c = d
    BY <1>3, <1>5, <1>6, SeqEqual
  <1>8. QED
    BY <1>7 DEF c, p, q

\* A text begins with another when its first pieces are the other's.
LEMMA PrefixPieces ==
  ASSUME NEW S, NEW m \in Seq(S), NEW d \in Seq(S)
  PROVE  IsPrefix(m, d) <=> Len(m) <= Len(d) /\ \A i \in 1 .. Len(m) : m[i] = d[i]
  <1> DEFINE n == Len(m)
             q == SubSeq(d, 1, n)
  <1>1. n \in Nat /\ Len(d) \in Nat
    BY LenProperties
  <1>2. IsPrefix(m, d) <=> n <= Len(d) /\ m = q
    <2>1. SubSeq(m, 1, n) = m
      BY SubSeqFull
    <2>2. QED
      BY <2>1 DEF IsPrefix
  <1>3. ASSUME n <= Len(d) PROVE q \in Seq(S) /\ Len(q) = n /\ \A i \in 1 .. n : q[i] = d[i]
    <2>1. n \in 0 .. Len(d)
      BY <1>1, <1>3
    <2>2. QED
      BY <2>1, TakeFacts
  <1>4. ASSUME n <= Len(d), \A i \in 1 .. n : m[i] = d[i] PROVE m = q
    <2> HIDE DEF q
    <2>1. q \in Seq(S) /\ Len(q) = Len(m) /\ \A i \in 1 .. Len(m) : m[i] = q[i]
      BY <1>3, <1>4
    <2>2. QED
      BY <2>1, SeqEqual
  <1> HIDE DEF q
  <1>5. QED
    BY <1>2, <1>3, <1>4

-----------------------------------------------------------------------------
(* Tokens.                                                                 *)

Alphabet == {"Lead", "Open", "Close", "Sep", "Gt", "Word"}

Text == Seq(Alphabet)

LEMMA TextPrefix ==
  ASSUME NEW m \in Seq(Alphabet), NEW d \in Seq(Alphabet)
  PROVE  IsPrefix(m, d) <=> Len(m) <= Len(d) /\ \A i \in 1 .. Len(m) : m[i] = d[i]
  BY PrefixPieces

\* A text that begins with a token of two pieces.
LEMMA PairPrefix ==
  ASSUME NEW d \in Text, NEW x \in Alphabet
  PROVE  IsPrefix(<<"Lead", x>>, d) <=> Len(d) >= 2 /\ d[1] = "Lead" /\ d[2] = x
  <1> DEFINE m == <<"Lead", x>>
  <1>1. "Lead" \in Alphabet
    BY DEF Alphabet
  <1>2. m \in Seq(Alphabet) /\ Len(m) = 2 /\ m[1] = "Lead" /\ m[2] = x
    BY <1>1
  <1>3. Len(d) \in Nat /\ d \in Seq(Alphabet)
    BY LenProperties DEF Text
  <1> HIDE DEF m
  <1>4. IsPrefix(m, d) <=> Len(m) <= Len(d) /\ \A i \in 1 .. Len(m) : m[i] = d[i]
    <2>1. m \in Seq(Alphabet)
      BY <1>2
    <2>2. d \in Seq(Alphabet)
      BY <1>3
    <2>3. QED
      BY <2>1, <2>2, TextPrefix
  <1>5. \A i \in 1 .. 2 : i = 1 \/ i = 2
    OBVIOUS
  <1>6. (\A i \in 1 .. 2 : m[i] = d[i]) <=> d[1] = "Lead" /\ d[2] = x
    BY <1>2, <1>5
  <1>7. IsPrefix(m, d) <=> Len(d) >= 2 /\ d[1] = "Lead" /\ d[2] = x
    BY <1>2, <1>3, <1>4, <1>6
  <1>8. QED
    BY <1>7 DEF m

\* A text that begins with the full separator.
LEMMA FullPrefix ==
  ASSUME NEW d \in Text
  PROVE  IsPrefix(sepFullToken, d) <=> Len(d) >= 3 /\ d[1] = "Lead" /\ d[2] = "Sep" /\ d[3] = "Gt"
  <1> DEFINE m == sepFullToken
  <1>1. "Lead" \in Alphabet /\ "Sep" \in Alphabet /\ "Gt" \in Alphabet
    BY DEF Alphabet
  <1>2. m \in Seq(Alphabet) /\ Len(m) = 3 /\ m[1] = "Lead" /\ m[2] = "Sep" /\ m[3] = "Gt"
    <2>1. m = <<"Lead", "Sep", "Gt">>
      BY DEF sepFullToken
    <2> HIDE DEF m
    <2>2. QED
      BY <1>1, <2>1
  <1>3. Len(d) \in Nat /\ d \in Seq(Alphabet)
    BY LenProperties DEF Text
  <1> HIDE DEF m
  <1>4. IsPrefix(m, d) <=> Len(m) <= Len(d) /\ \A i \in 1 .. Len(m) : m[i] = d[i]
    <2>1. m \in Seq(Alphabet) /\ d \in Seq(Alphabet)
      BY <1>2, <1>3
    <2>2. QED
      BY <2>1, PrefixPieces
  <1>5. \A i \in 1 .. 3 : i = 1 \/ i = 2 \/ i = 3
    OBVIOUS
  <1>6. (\A i \in 1 .. 3 : m[i] = d[i]) <=> d[1] = "Lead" /\ d[2] = "Sep" /\ d[3] = "Gt"
    BY <1>2, <1>5
  <1>7. IsPrefix(m, d) <=> Len(d) >= 3 /\ d[1] = "Lead" /\ d[2] = "Sep" /\ d[3] = "Gt"
    BY <1>2, <1>3, <1>4, <1>6
  <1>8. QED
    BY <1>7 DEF m

StartsSep(d) == Len(d) >= 2 /\ d[1] = "Lead" /\ d[2] = "Sep"

SepLen(d) == IF Len(d) >= 3 /\ d[3] = "Gt" THEN 3 ELSE 2

\* One separator is removed from the text that begins with one.
LEMMA StripOneIs ==
  ASSUME NEW d \in Text
  PROVE  /\ StartsSep(d) => SepLen(d) \in 0 .. Len(d) /\ StripOne(d) = Drop(d, SepLen(d))
         /\ ~StartsSep(d) => StripOne(d) = d
  <1>1. Len(d) \in Nat /\ "Sep" \in Alphabet
    BY LenProperties DEF Text, Alphabet
  <1>2. IsPrefix(sepBareToken, d) <=> StartsSep(d)
    BY <1>1, PairPrefix DEF sepBareToken, StartsSep
  <1>3. IsPrefix(sepFullToken, d) <=> StartsSep(d) /\ SepLen(d) = 3
    BY <1>1, FullPrefix DEF StartsSep, SepLen
  <1>4. Len(sepFullToken) = 3 /\ Len(sepBareToken) = 2
    BY DEF sepFullToken, sepBareToken
  <1>5. SepLen(d) = 3 \/ SepLen(d) = 2
    BY DEF SepLen
  <1>6. StartsSep(d) => SepLen(d) \in 0 .. Len(d)
    BY <1>1 DEF StartsSep, SepLen
  <1>7. QED
    BY <1>2, <1>3, <1>4, <1>5, <1>6 DEF StripOne

\* What could still become a separator.
LEMMA UndecidedPieces ==
  ASSUME NEW r \in Text
  PROVE  Undecided(r) <=> /\ Len(r) <= 2 /\ (Len(r) >= 1 => r[1] = "Lead")
                          /\ (Len(r) = 2 => r[2] = "Sep")
  <1> DEFINE m == sepBareToken
  <1>1. "Lead" \in Alphabet /\ "Sep" \in Alphabet
    BY DEF Alphabet
  <1>2. m \in Seq(Alphabet) /\ Len(m) = 2 /\ m[1] = "Lead" /\ m[2] = "Sep"
    BY <1>1 DEF sepBareToken
  <1>3. Len(r) \in Nat /\ r \in Seq(Alphabet)
    BY LenProperties DEF Text
  <1>4. Undecided(r) <=> Len(r) <= 2 /\ \A i \in 1 .. Len(r) : r[i] = m[i]
    <2> HIDE DEF m
    <2>1. IsPrefix(r, m) <=> Len(r) <= Len(m) /\ \A i \in 1 .. Len(r) : r[i] = m[i]
      <3>1. m \in Seq(Alphabet) /\ r \in Seq(Alphabet)
        BY <1>2, <1>3
      <3>2. QED
        BY <3>1, PrefixPieces
    <2>2. QED
      BY <1>2, <2>1 DEF Undecided, m
  <1> HIDE DEF m
  <1>5. ASSUME Len(r) <= 2, Len(r) >= 1 => r[1] = "Lead", Len(r) = 2 => r[2] = "Sep",
               NEW i \in 1 .. Len(r)
        PROVE  r[i] = m[i]
    <2>0. Len(r) \in Nat /\ Len(r) <= 2
      BY <1>3, <1>5
    <2>a. \A n \in Nat : \A k \in 1 .. n : n <= 2 => k = 1 \/ (k = 2 /\ n = 2)
      OBVIOUS
    <2>1. i = 1 \/ (i = 2 /\ Len(r) = 2)
      BY <2>0, <2>a
    <2>2. QED
      BY <1>2, <1>3, <1>5, <2>1
  <1>6. ASSUME Len(r) <= 2, \A i \in 1 .. Len(r) : r[i] = m[i]
        PROVE  (Len(r) >= 1 => r[1] = "Lead") /\ (Len(r) = 2 => r[2] = "Sep")
    <2>1. Len(r) >= 1 => 1 \in 1 .. Len(r)
      BY <1>3
    <2>2. Len(r) = 2 => 2 \in 1 .. Len(r)
      BY <1>3
    <2>3. QED
      BY <1>2, <1>6, <2>1, <2>2
  <1>7. QED
    <2> HIDE DEF m
    <2>1. QED
      BY <1>4, <1>5, <1>6

EndsLead(d) == d # <<>> /\ d[Len(d)] = "Lead"

\* Of a text without the marker only a last Lead can begin one.
LEMMA OverlapIs ==
  ASSUME NEW d \in Text, NEW x \in Alphabet
  PROVE  markerPrefixOverlap(d, <<"Lead", x>>) = IF EndsLead(d) THEN 1 ELSE 0
  <1> DEFINE m == <<"Lead", x>>
             Fits(k) == k <= Len(d) /\ Drop(d, Len(d) - k) = SubSeq(m, 1, k)
             Best(k) == Fits(k) /\ \A j \in k + 1 .. Len(m) - 1 :
                          j > Len(d) \/ Drop(d, Len(d) - j) # SubSeq(m, 1, j)
  <1>1. "Lead" \in Alphabet
    BY DEF Alphabet
  <1>2. m \in Seq(Alphabet) /\ Len(m) = 2 /\ m[1] = "Lead"
    BY <1>1
  <1>3. Len(d) \in Nat /\ d \in Seq(Alphabet) /\ (d = <<>> <=> Len(d) = 0)
    BY LenProperties, EmptySeq DEF Text
  <1>4. markerPrefixOverlap(d, m) = CHOOSE k \in 0 .. Len(m) - 1 : Best(k)
    BY DEF markerPrefixOverlap
  <1> HIDE DEF m
  <1>5. Fits(0)
    <2>1. Len(d) - 0 = Len(d) /\ Len(d) \in 0 .. Len(d) /\ 0 \in 0 .. Len(m)
      BY <1>2, <1>3
    <2>2. Drop(d, Len(d)) \in Seq(Alphabet) /\ Len(Drop(d, Len(d))) = 0
      BY <1>3, <2>1, DropFacts
    <2>3. SubSeq(m, 1, 0) \in Seq(Alphabet) /\ Len(SubSeq(m, 1, 0)) = 0
      BY <1>2, <2>1, TakeFacts
    <2>4. Drop(d, Len(d)) = <<>> /\ SubSeq(m, 1, 0) = <<>>
      BY <2>2, <2>3, EmptySeq
    <2>5. QED
      BY <1>3, <2>1, <2>4
  <1>6. Fits(1) <=> EndsLead(d)
    <2>1. CASE d = <<>>
      BY <1>3, <2>1 DEF EndsLead
    <2>2. CASE d # <<>>
      <3> DEFINE n == Len(d) - 1
                 p == Drop(d, n)
                 q == SubSeq(m, 1, 1)
      <3>1. n \in 0 .. Len(d) /\ Len(d) - n = 1 /\ n + 1 = Len(d) /\ 1 \in 0 .. Len(m) /\ 1 <= Len(d)
        BY <1>2, <1>3, <2>2
      <3>2. 1 \in 1 .. 1
        OBVIOUS
      <3> HIDE DEF n
      <3>3. p \in Seq(Alphabet) /\ Len(p) = 1 /\ p[1] = d[Len(d)]
        <4>1. /\ p \in Seq(Alphabet) /\ Len(p) = Len(d) - n
              /\ \A i \in 1 .. (Len(d) - n) : p[i] = d[n + i]
          BY <1>3, <3>1, DropFacts
        <4>2. QED
          BY <3>1, <3>2, <4>1
      <3>4. q \in Seq(Alphabet) /\ Len(q) = 1 /\ q[1] = "Lead"
        <4>1. q \in Seq(Alphabet) /\ Len(q) = 1 /\ \A i \in 1 .. 1 : q[i] = m[i]
          BY <1>2, <3>1, TakeFacts
        <4>2. QED
          BY <1>2, <3>2, <4>1
      <3> HIDE DEF p, q
      <3>5. p = q <=> p[1] = q[1]
        <4>1. ASSUME p[1] = q[1] PROVE p = q
          <5>1. \A i \in 1 .. 1 : i = 1
            OBVIOUS
          <5>2. Len(p) = Len(q) /\ \A i \in 1 .. Len(p) : p[i] = q[i]
            BY <3>3, <3>4, <4>1, <5>1
          <5>3. QED
            BY <3>3, <3>4, <5>2, SeqEqual
        <4>2. QED
          BY <4>1
      <3>6. Fits(1) <=> p = q
        BY <3>1 DEF p, q, n
      <3>7. QED
        BY <2>2, <3>3, <3>4, <3>5, <3>6 DEF EndsLead
    <2>3. QED
      BY <2>1, <2>2
  <1>7. Best(1) <=> Fits(1)
    <2>1. 1 + 1 .. Len(m) - 1 = {}
      BY <1>2
    <2>2. QED
      BY <2>1
  <1>8. Best(0) <=> ~Fits(1)
    <2>1. 0 + 1 .. Len(m) - 1 = {1} /\ 1 \in Int
      BY <1>2
    <2>2. 1 > Len(d) <=> ~(1 <= Len(d))
      BY <1>3
    <2> HIDE DEF m
    <2>3. QED
      BY <1>5, <2>1, <2>2
  <1>9. 0 .. Len(m) - 1 = {0, 1}
    BY <1>2
  <1> HIDE DEF Best, Fits
  <1>10. markerPrefixOverlap(d, m) \in {0, 1} /\ Best(markerPrefixOverlap(d, m))
    BY <1>4, <1>7, <1>8, <1>9
  <1>11. QED
    BY <1>6, <1>7, <1>8, <1>10 DEF m

\* A token of two pieces is at this place of the text.
Hit(d, x, i) == i \in 1 .. (Len(d) - 1) /\ d[i] = "Lead" /\ d[i + 1] = x

\* The marker is found at its first place.
LEMMA IndexIs ==
  ASSUME NEW d \in Text, NEW x \in Alphabet
  PROVE  /\ Index(d, <<"Lead", x>>) = 0 => \A i \in Nat : ~Hit(d, x, i)
         /\ Index(d, <<"Lead", x>>) # 0 =>
              /\ Hit(d, x, Index(d, <<"Lead", x>>))
              /\ \A i \in Nat : Hit(d, x, i) => Index(d, <<"Lead", x>>) <= i
  <1> DEFINE m == <<"Lead", x>>
             at == {i \in 1 .. Len(d) : IsPrefix(m, Drop(d, i - 1))}
             n == Index(d, m)
  <1>1. Len(d) \in Nat /\ d \in Seq(Alphabet)
    BY LenProperties DEF Text
  <1>2. ASSUME NEW i \in 1 .. Len(d) PROVE IsPrefix(m, Drop(d, i - 1)) <=> Hit(d, x, i)
    <2> DEFINE e == Drop(d, i - 1)
    <2>1. i - 1 \in 0 .. Len(d) /\ i \in Nat /\ i <= Len(d)
      BY <1>1
    <2>2. /\ e \in Seq(Alphabet) /\ Len(e) = Len(d) - (i - 1)
          /\ \A k \in 1 .. (Len(d) - (i - 1)) : e[k] = d[(i - 1) + k]
      BY <1>1, <2>1, DropFacts
    <2> HIDE DEF e
    <2>3. IsPrefix(m, e) <=> Len(e) >= 2 /\ e[1] = "Lead" /\ e[2] = x
      BY <2>2, PairPrefix DEF Text
    <2>4. Len(e) >= 2 <=> i \in 1 .. (Len(d) - 1)
      BY <1>1, <2>1, <2>2
    <2>5. ASSUME Len(e) >= 2 PROVE e[1] = d[i] /\ e[2] = d[i + 1]
      <3>1. 1 \in 1 .. (Len(d) - (i - 1)) /\ 2 \in 1 .. (Len(d) - (i - 1))
        BY <1>1, <2>1, <2>2, <2>5
      <3>2. (i - 1) + 1 = i /\ (i - 1) + 2 = i + 1
        BY <2>1
      <3>3. QED
        BY <2>2, <3>1, <3>2
    <2>6. QED
      BY <2>3, <2>4, <2>5 DEF Hit, e
  <1>3. ASSUME NEW i \in Nat PROVE i \in at <=> Hit(d, x, i)
    <2>1. Hit(d, x, i) => i \in 1 .. Len(d)
      BY <1>1 DEF Hit
    <2> HIDE DEF m
    <2>2. QED
      BY <1>2, <2>1
  <1>4. n = IF at = {} THEN 0 ELSE CHOOSE i \in at : \A j \in at : i <= j
    BY DEF Index
  <1>5. at \subseteq Nat /\ 0 \notin at
    BY <1>1
  <1> HIDE DEF at
  <1>6. ASSUME at # {} PROVE \E i \in at : \A j \in at : i <= j
    <2>1. PICK i \in at : \A j \in at : ~(<<j, i>> \in OpToRel(<, Nat))
      BY <1>5, <1>6, NatLessThanWellFounded, WFMin
    <2>2. ASSUME NEW j \in at PROVE i <= j
      <3>1. ~(j < i)
        BY <1>5, <2>1 DEF OpToRel
      <3>2. QED
        BY <1>5, <3>1
    <2>3. QED
      BY <2>2
  <1>7. CASE at = {}
    <2>1. n = 0
      BY <1>4, <1>7
    <2>2. QED
      BY <1>3, <1>7, <2>1 DEF n, m
  <1>8. CASE at # {}
    <2>1. n \in at /\ \A j \in at : n <= j
      BY <1>4, <1>6, <1>8
    <2> HIDE DEF n
    <2>2. n \in Nat /\ n # 0 /\ Hit(d, x, n)
      BY <1>3, <1>5, <2>1
    <2>3. \A i \in Nat : Hit(d, x, i) => n <= i
      BY <1>3, <2>1
    <2>4. QED
      BY <2>2, <2>3 DEF n, m
  <1>9. QED
    BY <1>7, <1>8

StripTurn == [d \in Text |-> StripOne(d)]

TextLen == [d \in Text |-> Len(d)]

\* A separator that is removed leaves a shorter text.
LEMMA StripTurnFacts ==
  /\ StripTurn \in [Text -> Text] /\ TextLen \in [Text -> Nat]
  /\ \A d \in Text : /\ StripTurn[d] = StripOne(d)
                     /\ StripTurn[d] # d <=> StartsSep(d)
                     /\ StripTurn[d] # d => TextLen[StripTurn[d]] < TextLen[d]
  <1>1. ASSUME NEW d \in Text
        PROVE  /\ StripOne(d) \in Text /\ Len(d) \in Nat
               /\ ~StartsSep(d) => StripOne(d) = d
               /\ StartsSep(d) => Len(StripOne(d)) < Len(d)
    <2>1. d \in Seq(Alphabet) /\ Len(d) \in Nat
      BY LenProperties DEF Text
    <2>2. CASE StartsSep(d)
      <3>1. SepLen(d) \in 0 .. Len(d) /\ StripOne(d) = Drop(d, SepLen(d))
        BY <2>2, StripOneIs
      <3>2. Drop(d, SepLen(d)) \in Seq(Alphabet) /\ Len(Drop(d, SepLen(d))) = Len(d) - SepLen(d)
        BY <2>1, <3>1, DropFacts
      <3>3. SepLen(d) = 2 \/ SepLen(d) = 3
        BY DEF SepLen
      <3>4. Len(d) - SepLen(d) < Len(d)
        BY <2>1, <3>3
      <3>5. QED
        BY <2>1, <2>2, <3>1, <3>2, <3>4 DEF Text
    <2>3. CASE ~StartsSep(d)
      BY <2>1, <2>3, StripOneIs
    <2>4. QED
      BY <2>2, <2>3
  <1>2. StripTurn \in [Text -> Text] /\ TextLen \in [Text -> Nat]
    BY <1>1 DEF StripTurn, TextLen
  <1>3. ASSUME NEW d \in Text
        PROVE  /\ StripTurn[d] = StripOne(d)
               /\ StripTurn[d] # d <=> StartsSep(d)
               /\ StripTurn[d] # d => TextLen[StripTurn[d]] < TextLen[d]
    <2>1. StripTurn[d] = StripOne(d) /\ TextLen[d] = Len(d)
      BY DEF StripTurn, TextLen
    <2>2. TextLen[StripTurn[d]] = Len(StripOne(d))
      BY <1>1, <2>1 DEF TextLen
    <2>3. StartsSep(d) => StripOne(d) # d
      <3>1. Len(d) \in Nat
        BY <1>1
      <3>2. ~(Len(d) < Len(d))
        BY <3>1
      <3>3. QED
        BY <1>1, <3>2
    <2>4. QED
      BY <1>1, <2>1, <2>2, <2>3
  <1>4. QED
    BY <1>2, <1>3

\* The separators are removed one after the other.
LEMMA StripIsLoop ==
  ASSUME NEW d \in Text
  PROVE  stripLeadingSeps(d) = LoopEnd(Text, StripTurn, d)
  <1> DEFINE n == CHOOSE f : f = [k \in Nat |-> IF k = 0 THEN d ELSE StripOne(f[k - 1])]
  <1>1. PICK f : Rounds(Text, StripTurn, d, f)
    BY StripTurnFacts, RoundsExist
  <1>2. f \in [Nat -> Text] /\ f[0] = d /\ \A i \in Nat : f[i + 1] = StripTurn[f[i]]
    BY <1>1 DEF Rounds
  <1>3. f = [k \in Nat |-> IF k = 0 THEN d ELSE StripOne(f[k - 1])]
    <2>1. ASSUME NEW k \in Nat PROVE f[k] = IF k = 0 THEN d ELSE StripOne(f[k - 1])
      <3>1. CASE k # 0
        <4>1. k - 1 \in Nat /\ (k - 1) + 1 = k
          BY <3>1
        <4>2. f[k] = StripTurn[f[k - 1]] /\ f[k - 1] \in Text
          BY <1>2, <4>1
        <4>3. QED
          BY <3>1, <4>2, StripTurnFacts
      <3>2. QED
        BY <1>2, <3>1
    <2>2. QED
      BY <1>2, <2>1
  <1>4. n = [k \in Nat |-> IF k = 0 THEN d ELSE StripOne(n[k - 1])]
    BY <1>3
  <1>5. stripLeadingSeps(d) = n[Len(d)]
    BY DEF stripLeadingSeps
  <1> HIDE DEF n
  <1>6. n[0] = d
    BY <1>4
  <1>7. ASSUME NEW k \in Nat PROVE n[k + 1] = StripOne(n[k])
    <2>1. k + 1 \in Nat /\ k + 1 # 0 /\ (k + 1) - 1 = k
      OBVIOUS
    <2>2. QED
      BY <1>4, <2>1
  <1>8. ASSUME NEW k \in Nat PROVE n[k] \in Text /\ n[k] = f[k]
    <2> DEFINE S == {i \in Nat : n[i] \in Text /\ n[i] = f[i]}
    <2>1. 0 \in S
      BY <1>2, <1>6
    <2>2. ASSUME NEW i \in Nat, i \in S PROVE i + 1 \in S
      BY <1>2, <1>7, <2>2, StripTurnFacts
    <2> HIDE DEF S
    <2>3. k \in S
      BY <2>1, <2>2, InductiveSet
    <2>4. QED
      BY <2>3 DEF S
  <1>9. Len(d) \in Nat /\ TextLen[d] = Len(d) /\ TextLen[d] <= Len(d)
    BY LenProperties DEF Text, TextLen
  <1>10. f[Len(d)] = LoopEnd(Text, StripTurn, d)
    BY <1>1, <1>9, StripTurnFacts, LoopEnds
  <1>11. QED
    BY <1>5, <1>8, <1>9, <1>10

\* What is left begins with no separator; a text that does not is left as it is.
LEMMA StripFacts ==
  ASSUME NEW d \in Text
  PROVE  /\ stripLeadingSeps(d) \in Text /\ ~StartsSep(stripLeadingSeps(d))
         /\ ~StartsSep(d) => stripLeadingSeps(d) = d
         /\ stripLeadingSeps(d) = stripLeadingSeps(StripOne(d)) /\ StripOne(d) \in Text
  <1>1. StripTurn[d] = StripOne(d) /\ StripOne(d) \in Text
    BY StripTurnFacts
  <1>2. /\ LoopEnd(Text, StripTurn, d) \in Text
        /\ StripTurn[LoopEnd(Text, StripTurn, d)] = LoopEnd(Text, StripTurn, d)
        /\ LoopEnd(Text, StripTurn, d) = LoopEnd(Text, StripTurn, StripTurn[d])
        /\ StripTurn[d] = d => LoopEnd(Text, StripTurn, d) = d
    BY StripTurnFacts, LoopEnds
  <1>3. ~StartsSep(LoopEnd(Text, StripTurn, d))
    BY <1>2, StripTurnFacts
  <1>4. ~StartsSep(d) => StripTurn[d] = d
    BY StripTurnFacts
  <1>5. QED
    BY <1>1, <1>2, <1>3, <1>4, StripIsLoop

\* Texts, by their leading separators.
LEMMA StripInduction ==
  ASSUME NEW S, \A d \in Text : ~StartsSep(d) => d \in S,
         \A d \in Text : StartsSep(d) /\ StripOne(d) \in S => d \in S
  PROVE  Text \subseteq S
  <1>1. \A d \in Text : StripTurn[d] = d => d \in S
    BY StripTurnFacts
  <1>2. \A d \in Text : StripTurn[d] # d /\ StripTurn[d] \in S => d \in S
    BY StripTurnFacts
  <1>3. QED
    BY <1>1, <1>2, StripTurnFacts, LoopInduction

\* The first pieces of a text do not change when more comes.
LEMMA JoinFacts ==
  ASSUME NEW d \in Text, NEW b \in Text
  PROVE  /\ d \o b \in Text /\ Len(d \o b) = Len(d) + Len(b) /\ Len(d) \in Nat /\ Len(b) \in Nat
         /\ \A i \in 1 .. Len(d) : (d \o b)[i] = d[i]
         /\ \A i \in (Len(d) + 1) .. (Len(d) + Len(b)) : (d \o b)[i] = b[i - Len(d)]
  <1> DEFINE c == d \o b
  <1>1. d \in Seq(Alphabet) /\ b \in Seq(Alphabet) /\ Len(d) \in Nat /\ Len(b) \in Nat
    BY LenProperties DEF Text
  <1>2. /\ c \in Seq(Alphabet) /\ Len(c) = Len(d) + Len(b)
        /\ \A i \in 1 .. (Len(d) + Len(b)) : c[i] = IF i <= Len(d) THEN d[i] ELSE b[i - Len(d)]
    BY <1>1, ConcatProperties
  <1> HIDE DEF c
  <1>3. ASSUME NEW i \in 1 .. Len(d) PROVE c[i] = d[i]
    <2>1. i \in 1 .. (Len(d) + Len(b)) /\ i <= Len(d)
      BY <1>1
    <2>2. QED
      BY <1>2, <2>1
  <1>4. ASSUME NEW i \in (Len(d) + 1) .. (Len(d) + Len(b)) PROVE c[i] = b[i - Len(d)]
    <2>1. i \in 1 .. (Len(d) + Len(b)) /\ ~(i <= Len(d))
      BY <1>1
    <2>2. QED
      BY <1>2, <2>1
  <1>5. QED
    BY <1>1, <1>2, <1>3, <1>4 DEF Text, c

\* Once it is decided that no separator is left, more text changes nothing.
LEMMA StripSplits ==
  ASSUME NEW d \in Text, NEW b \in Text, ~Undecided(stripLeadingSeps(d))
  PROVE  /\ stripLeadingSeps(d \o b) = stripLeadingSeps(d) \o b
         /\ ~Undecided(stripLeadingSeps(d) \o b)
  <1> DEFINE R(e) == stripLeadingSeps(e)
             S == {e \in Text : ~Undecided(R(e)) => R(e \o b) = R(e) \o b}
  <1>1. ASSUME NEW e \in Text, ~StartsSep(e) PROVE e \in S
    <2> SUFFICES ASSUME ~Undecided(R(e)) PROVE R(e \o b) = R(e) \o b
      OBVIOUS
    <2>1. R(e) = e
      BY <1>1, StripFacts
    <2> DEFINE c == e \o b
    <2>2. c \in Text /\ Len(c) = Len(e) + Len(b) /\ Len(e) \in Nat /\ \A i \in 1 .. Len(e) : c[i] = e[i]
      BY JoinFacts
    <2> HIDE DEF c
    <2>3. ~(/\ Len(e) <= 2 /\ (Len(e) >= 1 => e[1] = "Lead")
            /\ (Len(e) = 2 => e[2] = "Sep"))
      BY <2>1, UndecidedPieces
    <2>4. ~StartsSep(c)
      <3>1. CASE Len(e) >= 2
        <4>1. 1 \in 1 .. Len(e) /\ 2 \in 1 .. Len(e)
          BY <2>2, <3>1
        <4>2. c[1] = e[1] /\ c[2] = e[2]
          BY <2>2, <4>1
        <4>3. QED
          BY <1>1, <3>1, <4>2 DEF StartsSep
      <3>2. CASE Len(e) = 1
        <4>1. 1 \in 1 .. Len(e) /\ Len(e) <= 2 /\ Len(e) # 2
          BY <3>2
        <4>2. c[1] = e[1] /\ e[1] # "Lead"
          BY <2>2, <2>3, <4>1
        <4>3. QED
          BY <4>2 DEF StartsSep
      <3>3. CASE Len(e) = 0
        <4>1. Len(e) <= 2 /\ ~(Len(e) >= 1) /\ Len(e) # 2
          BY <3>3
        <4>2. QED
          BY <2>3, <4>1
      <3>4. Len(e) = 0 \/ Len(e) = 1 \/ Len(e) >= 2
        <4>1. \A k \in Nat : k = 0 \/ k = 1 \/ k >= 2
          OBVIOUS
        <4>2. QED
          BY <2>2, <4>1
      <3>5. QED
        BY <3>1, <3>2, <3>3, <3>4
    <2>5. R(c) = c
      BY <2>2, <2>4, StripFacts
    <2>6. QED
      BY <2>1, <2>5 DEF c
  <1>2. ASSUME NEW e \in Text, StartsSep(e), StripOne(e) \in S PROVE e \in S
    <2> SUFFICES ASSUME ~Undecided(R(e)) PROVE R(e \o b) = R(e) \o b
      OBVIOUS
    <2> DEFINE c == e \o b
               q == StripOne(e)
    <2>1. /\ c \in Text /\ Len(c) = Len(e) + Len(b) /\ Len(e) \in Nat /\ Len(b) \in Nat
          /\ \A i \in 1 .. Len(e) : c[i] = e[i]
      BY JoinFacts
    <2>2. R(e) = R(q) /\ q \in Text
      BY StripFacts
    <2>3. SepLen(e) \in 0 .. Len(e) /\ q = Drop(e, SepLen(e)) /\ (SepLen(e) = 2 \/ SepLen(e) = 3)
      BY <1>2, StripOneIs DEF SepLen
    <2>4. Len(q) = Len(e) - SepLen(e)
      <3>1. e \in Seq(Alphabet)
        BY DEF Text
      <3> HIDE DEF q
      <3>2. QED
        BY <2>3, <3>1, DropFacts
    <2>5. Len(e) >= 3
      <3> SUFFICES ASSUME Len(e) < 3 PROVE FALSE
        BY <2>1
      <3> HIDE DEF q
      <3>1. Len(q) = 0
        BY <1>2, <2>1, <2>3, <2>4 DEF StartsSep
      <3>2. ~StartsSep(q)
        BY <3>1 DEF StartsSep
      <3>3. R(q) = q
        BY <2>2, <3>2, StripFacts
      <3>4. Len(q) <= 2 /\ ~(Len(q) >= 1) /\ Len(q) # 2
        BY <3>1
      <3>5. Undecided(q)
        BY <2>2, <3>4, UndecidedPieces
      <3>6. QED
        BY <2>2, <3>3, <3>5
    <2> HIDE DEF c, q
    <2>6. c[1] = e[1] /\ c[2] = e[2] /\ c[3] = e[3] /\ Len(c) >= 3
      <3>1. 1 \in 1 .. Len(e) /\ 2 \in 1 .. Len(e) /\ 3 \in 1 .. Len(e)
        BY <2>1, <2>5
      <3>2. QED
        BY <2>1, <2>5, <3>1
    <2>7. StartsSep(c) /\ SepLen(c) = SepLen(e)
      <3>1. Len(c) >= 2
        BY <2>1, <2>6
      <3>2. QED
        BY <1>2, <2>5, <2>6, <3>1 DEF StartsSep, SepLen
    <2>8. StripOne(c) = Drop(c, SepLen(e))
      BY <2>1, <2>7, StripOneIs
    <2>9. Drop(c, SepLen(e)) = q \o b
      <3>1. e \in Seq(Alphabet) /\ b \in Seq(Alphabet)
        BY DEF Text
      <3>2. QED
        BY <2>3, <3>1, DropJoin DEF c
    <2>10. R(c) = R(q \o b)
      BY <2>1, <2>8, <2>9, StripFacts
    <2>11. R(q \o b) = R(q) \o b
      BY <1>2, <2>2 DEF q
    <2>12. QED
      BY <2>2, <2>10, <2>11 DEF c
  <1> HIDE DEF S
  <1>3. d \in S
    BY <1>1, <1>2, StripInduction
  <1>4. R(d \o b) = R(d) \o b
    BY <1>3 DEF S
  <1>5. ~Undecided(R(d) \o b)
    <2> DEFINE r == R(d)
               c == r \o b
    <2>1. r \in Text
      BY StripFacts
    <2> HIDE DEF r
    <2>2. /\ c \in Text /\ Len(c) = Len(r) + Len(b) /\ Len(r) \in Nat /\ Len(b) \in Nat
          /\ \A i \in 1 .. Len(r) : c[i] = r[i]
      BY <2>1, JoinFacts
    <2> HIDE DEF c
    <2>3. ~(Len(r) <= 2 /\ (Len(r) >= 1 => r[1] = "Lead") /\ (Len(r) = 2 => r[2] = "Sep"))
      BY <2>1, UndecidedPieces DEF r
    <2> SUFFICES ASSUME Undecided(c) PROVE FALSE
      BY DEF c, r
    <2>4. Len(c) <= 2 /\ (Len(c) >= 1 => c[1] = "Lead") /\ (Len(c) = 2 => c[2] = "Sep")
      BY <2>2, UndecidedPieces
    <2>5. Len(r) <= 2 /\ Len(r) <= Len(c)
      BY <2>2, <2>4
    <2>6. Len(r) >= 1 => 1 \in 1 .. Len(r) /\ Len(c) >= 1
      BY <2>2
    <2>7. Len(r) = 2 => 2 \in 1 .. Len(r) /\ Len(c) = 2
      BY <2>2, <2>4
    <2>8. QED
      BY <2>2, <2>3, <2>4, <2>5, <2>6, <2>7
  <1>6. QED
    BY <1>4, <1>5

LEMMA ScanIs ==
  ASSUME NEW t, NEW at, at = Index(t.data, marker(t.sc)), at \in Nat
  PROVE  /\ t.data = <<>> => Scan(t) = t
         /\ t.data # <<>> /\ t.sc.atStart /\ Undecided(stripLeadingSeps(t.data)) =>
              Scan(t) = [sc |-> [t.sc EXCEPT !.pending = t.data], data |-> <<>>, segs |-> t.segs]
         /\ t.data # <<>> /\ t.sc.atStart /\ ~Undecided(stripLeadingSeps(t.data)) =>
              Scan(t) = [sc |-> [t.sc EXCEPT !.atStart = FALSE],
                         data |-> stripLeadingSeps(t.data), segs |-> t.segs]
         /\ t.data # <<>> /\ ~t.sc.atStart /\ at = 0 =>
              \A keep : keep = markerPrefixOverlap(t.data, marker(t.sc)) =>
              Scan(t) = [sc |-> [t.sc EXCEPT !.pending = Drop(t.data, Len(t.data) - keep)],
                         data |-> <<>>,
                         segs |-> t.segs \o Classified(t.sc, SubSeq(t.data, 1, Len(t.data) - keep))]
         /\ t.data # <<>> /\ ~t.sc.atStart /\ at # 0 =>
              Scan(t) = [sc |-> [inThink |-> ~t.sc.inThink, pending |-> t.sc.pending,
                                 flipped |-> TRUE, atStart |-> TRUE],
                         data |-> AfterMarker(t.data, at, marker(t.sc)),
                         segs |-> t.segs \o Classified(t.sc, SubSeq(t.data, 1, at - 1))]
  <1>1. (at > 0) <=> at # 0
    OBVIOUS
  <1>2. CASE t.data = <<>>
    BY <1>2 DEF Scan
  <1>3. CASE t.data # <<>> /\ t.sc.atStart /\ Undecided(stripLeadingSeps(t.data))
    BY <1>3 DEF Scan
  <1>4. CASE t.data # <<>> /\ t.sc.atStart /\ ~Undecided(stripLeadingSeps(t.data))
    BY <1>4 DEF Scan
  <1>5. CASE t.data # <<>> /\ ~t.sc.atStart /\ at = 0
    BY <1>1, <1>5 DEF Scan
  <1>6. CASE t.data # <<>> /\ ~t.sc.atStart /\ at # 0
    BY <1>1, <1>6 DEF Scan
  <1>7. QED
    BY <1>2, <1>3, <1>4, <1>5, <1>6

\* A state of the loop, by its parts.
Turn(i, f, s, p, d, g) ==
  [sc |-> [inThink |-> i, pending |-> p, flipped |-> f, atStart |-> s], data |-> d, segs |-> g]

MarkPiece(i) == IF i THEN "Close" ELSE "Open"

Cl(i, d) == [k \in DOMAIN d |-> <<Kind(i), d[k]>>]

Keep(d) == IF EndsLead(d) THEN 1 ELSE 0

LEMMA MarkFacts ==
  ASSUME NEW i, NEW p, NEW f, NEW s, NEW d, NEW g
  PROVE  /\ MarkPiece(i) \in Alphabet
         /\ marker(Turn(i, f, s, p, d, g).sc) = <<"Lead", MarkPiece(i)>>
         /\ Len(<<"Lead", MarkPiece(i)>>) = 2
         /\ \A e : Classified(Turn(i, f, s, p, d, g).sc, e) = Cl(i, e)
  <1>1. MarkPiece(i) \in Alphabet
    BY DEF MarkPiece, Alphabet
  <1>2. Turn(i, f, s, p, d, g).sc.inThink = i
    BY DEF Turn
  <1>3. marker(Turn(i, f, s, p, d, g).sc) = <<"Lead", MarkPiece(i)>>
    <2>1. CASE i
      BY <1>2, <2>1 DEF marker, MarkPiece, thinkCloseMarker
    <2>2. CASE ~i
      BY <1>2, <2>2 DEF marker, MarkPiece, thinkOpenMarker
    <2>3. QED
      BY <2>1, <2>2
  <1>4. \A e : Classified(Turn(i, f, s, p, d, g).sc, e) = Cl(i, e)
    BY <1>2 DEF Classified, Cl
  <1>5. Len(<<"Lead", MarkPiece(i)>>) = 2
    <2> DEFINE x == MarkPiece(i)
    <2> HIDE DEF x
    <2>1. Len(<<"Lead", x>>) = 2
      OBVIOUS
    <2>2. QED
      BY <2>1 DEF x
  <1>6. QED
    BY <1>1, <1>3, <1>4, <1>5

\* What is held back of data without a marker, and what is emitted.
HeldPart(d) == Drop(d, Len(d) - Keep(d))

SentPart(d) == SubSeq(d, 1, Len(d) - Keep(d))

\* What comes before a marker at a place, and after it.
Before(d, at) == SubSeq(d, 1, at - 1)

After(d, at) == Drop(d, at + 1)

NoHit(d, x) == \A k \in Nat : ~Hit(d, x, k)

FirstHit(d, x, at) == Hit(d, x, at) /\ \A k \in Nat : Hit(d, x, k) => at <= k

\* What a turn of the loop looks at: the state, and the place of the marker.
Reading(i, f, s, p, d, g, t, n) ==
  /\ t = Turn(i, f, s, p, d, g) /\ n = Index(t.data, marker(t.sc))
  /\ t.data = d /\ t.segs = g /\ t.sc.atStart = s /\ t.sc.inThink = i
  /\ t.sc = [inThink |-> i, pending |-> p, flipped |-> f, atStart |-> s]
  /\ t.sc.pending = p
  /\ \A e : Classified(t.sc, e) = Cl(i, e)
  /\ Len(marker(t.sc)) = 2 /\ markerPrefixOverlap(d, marker(t.sc)) = Keep(d)
  /\ n \in Nat
  /\ n = 0 => NoHit(d, MarkPiece(i))
  /\ n # 0 => FirstHit(d, MarkPiece(i), n)

LEMMA ScanReads ==
  ASSUME NEW i, NEW f, NEW s, NEW p, NEW d \in Text, NEW g
  PROVE  \E t, n : Reading(i, f, s, p, d, g, t, n)
  <1> DEFINE t == Turn(i, f, s, p, d, g)
             n == Index(t.data, marker(t.sc))
             x == MarkPiece(i)
             m == <<"Lead", x>>
  <1>0. t = Turn(i, f, s, p, d, g) /\ n = Index(t.data, marker(t.sc))
    OBVIOUS
  <1>1. /\ t.data = d /\ t.segs = g /\ t.sc.atStart = s /\ t.sc.inThink = i
        /\ t.sc = [inThink |-> i, pending |-> p, flipped |-> f, atStart |-> s]
        /\ t.sc.pending = p
    BY DEF Turn
  <1>2. x \in Alphabet /\ marker(t.sc) = m /\ Len(m) = 2 /\ \A e : Classified(t.sc, e) = Cl(i, e)
    BY MarkFacts
  <1> HIDE DEF x, t, n
  <1>3. n = Index(d, m)
    BY <1>0, <1>1, <1>2
  <1>4. /\ n = 0 => \A k \in Nat : ~Hit(d, x, k)
        /\ n # 0 => Hit(d, x, n) /\ \A k \in Nat : Hit(d, x, k) => n <= k
    BY <1>2, <1>3, IndexIs
  <1>5. markerPrefixOverlap(d, m) = Keep(d)
    BY <1>2, OverlapIs DEF Keep
  <1>6. n \in Nat
    <2>1. \A k : Hit(d, x, k) => k \in Nat
      BY DEF Hit
    <2>2. QED
      BY <1>4, <2>1
  <1> HIDE DEF m
  <1>7. (n = 0 => NoHit(d, x)) /\ (n # 0 => FirstHit(d, x, n))
    BY <1>4 DEF NoHit, FirstHit
  <1>8. QED
    <2>1. Reading(i, f, s, p, d, g, t, n)
      BY <1>0, <1>1, <1>2, <1>5, <1>6, <1>7 DEF Reading, x
    <2>2. QED
      BY <2>1

\* Boolean parts of a state, for the provers.
Yes(b) == b = TRUE

No(b) == b = FALSE

Opposite(b, c) == c = ~b

LEMMA HeldBack ==
  ASSUME NEW i, NEW f, NEW s, NEW p, NEW v
  PROVE  [[inThink |-> i, pending |-> p, flipped |-> f, atStart |-> s] EXCEPT !.pending = v] =
           [inThink |-> i, pending |-> v, flipped |-> f, atStart |-> s]
  OBVIOUS

\* The five cases of a turn: there is no data left,
LEMMA ScanEmpty ==
  ASSUME NEW i, NEW f, NEW s, NEW p, NEW d \in Text, NEW g, d = <<>>
  PROVE  Scan(Turn(i, f, s, p, d, g)) = Turn(i, f, s, p, d, g)
  <1>0. PICK t, n : Reading(i, f, s, p, d, g, t, n)
    BY ScanReads
  <1>1. t = Turn(i, f, s, p, d, g) /\ n = Index(t.data, marker(t.sc))
    BY <1>0 DEF Reading
  <1>2. t.data = d /\ n \in Nat
    BY <1>0 DEF Reading
  <1>3. Scan(t) = t
    BY <1>1, <1>2, ScanIs
  <1>4. QED
    BY <1>1, <1>3

\* the start of a section is held back,
LEMMA ScanHeld ==
  ASSUME NEW i, NEW f, NEW s, NEW p, NEW d \in Text, NEW g,
         Yes(s), d # <<>>, Undecided(stripLeadingSeps(d))
  PROVE  Scan(Turn(i, f, s, p, d, g)) = Turn(i, f, s, d, <<>>, g)
  <1>0. PICK t, n : Reading(i, f, s, p, d, g, t, n)
    BY ScanReads
  <1>1. t = Turn(i, f, s, p, d, g) /\ n = Index(t.data, marker(t.sc))
    BY <1>0 DEF Reading
  <1>2. /\ t.data = d /\ t.segs = g /\ t.sc.atStart = s /\ n \in Nat
        /\ t.sc = [inThink |-> i, pending |-> p, flipped |-> f, atStart |-> s]
    BY <1>0 DEF Reading
  <1>3. s => Scan(t) = [sc |-> [t.sc EXCEPT !.pending = t.data], data |-> <<>>, segs |-> t.segs]
    BY <1>1, <1>2, ScanIs
  <1>a. Scan(t) = [sc |-> [t.sc EXCEPT !.pending = t.data], data |-> <<>>, segs |-> t.segs]
    BY <1>3 DEF Yes
  <1>4. [t.sc EXCEPT !.pending = d] = [inThink |-> i, pending |-> d, flipped |-> f, atStart |-> s]
    <2>1. [[inThink |-> i, pending |-> p, flipped |-> f, atStart |-> s] EXCEPT !.pending = d] =
            [inThink |-> i, pending |-> d, flipped |-> f, atStart |-> s]
      BY HeldBack
    <2>2. t.sc = [inThink |-> i, pending |-> p, flipped |-> f, atStart |-> s]
      BY <1>2
    <2>3. QED
      BY <2>1, <2>2, Zenon
  <1>5. QED
    BY <1>1, <1>2, <1>a, <1>4 DEF Turn

\* it begins with text,
LEMMA ScanDecided ==
  ASSUME NEW i, NEW f, NEW s, NEW p, NEW d \in Text, NEW g,
         Yes(s), d # <<>>, ~Undecided(stripLeadingSeps(d)), NEW w, No(w)
  PROVE  Scan(Turn(i, f, s, p, d, g)) = Turn(i, f, w, p, stripLeadingSeps(d), g)
  <1>0. PICK t, n : Reading(i, f, s, p, d, g, t, n)
    BY ScanReads
  <1>1. t = Turn(i, f, s, p, d, g) /\ n = Index(t.data, marker(t.sc))
    BY <1>0 DEF Reading
  <1>2. /\ t.data = d /\ t.segs = g /\ t.sc.atStart = s /\ n \in Nat
        /\ t.sc = [inThink |-> i, pending |-> p, flipped |-> f, atStart |-> s]
    BY <1>0 DEF Reading
  <1>3. s => Scan(t) = [sc |-> [t.sc EXCEPT !.atStart = FALSE],
                        data |-> stripLeadingSeps(t.data), segs |-> t.segs]
    BY <1>1, <1>2, ScanIs
  <1>a. Scan(t) = [sc |-> [t.sc EXCEPT !.atStart = w],
                   data |-> stripLeadingSeps(t.data), segs |-> t.segs]
    BY <1>3 DEF Yes, No
  <1>4. [t.sc EXCEPT !.atStart = w] = [inThink |-> i, pending |-> p, flipped |-> f, atStart |-> w]
    <2>1. [[inThink |-> i, pending |-> p, flipped |-> f, atStart |-> s] EXCEPT !.atStart = w] =
            [inThink |-> i, pending |-> p, flipped |-> f, atStart |-> w]
      OBVIOUS
    <2>2. QED
      BY <1>2, <2>1, Zenon
  <1>5. QED
    BY <1>1, <1>2, <1>a, <1>4 DEF Turn

\* the data has no marker,
LEMMA ScanPlain ==
  ASSUME NEW i, NEW f, NEW s, NEW p, NEW d \in Text, NEW g,
         No(s), d # <<>>, NoHit(d, MarkPiece(i))
  PROVE  Scan(Turn(i, f, s, p, d, g)) = Turn(i, f, s, HeldPart(d), <<>>, g \o Cl(i, SentPart(d)))
  <1> DEFINE keep == Keep(d)
             u == SentPart(d)
             v == HeldPart(d)
  <1>0. PICK t, n : Reading(i, f, s, p, d, g, t, n)
    BY ScanReads
  <1>1. t = Turn(i, f, s, p, d, g) /\ n = Index(t.data, marker(t.sc))
    BY <1>0 DEF Reading
  <1>2. /\ t.data = d /\ t.segs = g /\ t.sc.atStart = s /\ n \in Nat
        /\ t.sc = [inThink |-> i, pending |-> p, flipped |-> f, atStart |-> s]
        /\ \A e : Classified(t.sc, e) = Cl(i, e)
        /\ markerPrefixOverlap(d, marker(t.sc)) = Keep(d)
        /\ n # 0 => FirstHit(d, MarkPiece(i), n)
    BY <1>0 DEF Reading
  <1>3. n = 0
    BY <1>2 DEF NoHit, FirstHit
  <1> HIDE DEF keep
  <1>4. keep = markerPrefixOverlap(t.data, marker(t.sc))
    BY <1>2 DEF keep
  <1>5. Scan(t) = [sc |-> [t.sc EXCEPT !.pending = Drop(t.data, Len(t.data) - keep)],
                   data |-> <<>>,
                   segs |-> t.segs \o Classified(t.sc, SubSeq(t.data, 1, Len(t.data) - keep))]
    <2>1. t.data # <<>> /\ ~t.sc.atStart
      BY <1>2 DEF No
    <2>2. QED
      BY <1>1, <1>2, <1>3, <1>4, <2>1, ScanIs
  <1>6. Scan(t) = [sc |-> [t.sc EXCEPT !.pending = v], data |-> <<>>, segs |-> g \o Cl(i, u)]
    BY <1>2, <1>5 DEF keep, HeldPart, SentPart
  <1> HIDE DEF u, v
  <1>7. [t.sc EXCEPT !.pending = v] = [inThink |-> i, pending |-> v, flipped |-> f, atStart |-> s]
    BY <1>2
  <1>8. QED
    BY <1>1, <1>6, <1>7 DEF Turn, u, v

\* or it has one.
LEMMA ScanMarker ==
  ASSUME NEW i, NEW f, NEW s, NEW p, NEW d \in Text, NEW g,
         No(s), d # <<>>, NEW at \in Nat, FirstHit(d, MarkPiece(i), at),
         NEW j, Opposite(i, j), NEW y, Yes(y)
  PROVE  Scan(Turn(i, f, s, p, d, g)) = Turn(j, y, y, p, After(d, at), g \o Cl(i, Before(d, at)))
  <1>0. PICK t, n : Reading(i, f, s, p, d, g, t, n)
    BY ScanReads
  <1>1. t = Turn(i, f, s, p, d, g) /\ n = Index(t.data, marker(t.sc))
    BY <1>0 DEF Reading
  <1>2. /\ t.data = d /\ t.segs = g /\ t.sc.atStart = s /\ n \in Nat
        /\ t.sc.inThink = i /\ t.sc.pending = p
        /\ \A e : Classified(t.sc, e) = Cl(i, e)
        /\ Len(marker(t.sc)) = 2
        /\ n = 0 => NoHit(d, MarkPiece(i))
        /\ n # 0 => FirstHit(d, MarkPiece(i), n)
    BY <1>0 DEF Reading
  <1>3. n # 0
    BY <1>2 DEF NoHit, FirstHit
  <1>4. n = at
    <2>1. n <= at /\ at <= n
      BY <1>2, <1>3 DEF FirstHit
    <2>2. QED
      BY <1>2, <2>1
  <1>5. Scan(t) = [sc |-> [inThink |-> ~t.sc.inThink, pending |-> t.sc.pending,
                           flipped |-> TRUE, atStart |-> TRUE],
                   data |-> AfterMarker(t.data, n, marker(t.sc)),
                   segs |-> t.segs \o Classified(t.sc, SubSeq(t.data, 1, n - 1))]
    <2>1. t.data # <<>> /\ ~t.sc.atStart /\ n # 0 /\ n \in Nat
      BY <1>2, <1>3 DEF No
    <2>2. n = Index(t.data, marker(t.sc))
      BY <1>1
    <2>3. QED
      BY <2>1, <2>2, ScanIs
  <1>6. AfterMarker(t.data, n, marker(t.sc)) = After(d, at)
    <2>1. at - 1 + 2 = at + 1
      OBVIOUS
    <2>2. QED
      BY <1>2, <1>4, <2>1 DEF AfterMarker, After
  <1>7. t.segs \o Classified(t.sc, SubSeq(t.data, 1, n - 1)) = g \o Cl(i, Before(d, at))
    BY <1>2, <1>4 DEF Before
  <1>8. QED
    BY <1>1, <1>2, <1>5, <1>6, <1>7 DEF Turn, Yes, Opposite

Segs == Seq({"text", "thinking"} \X Alphabet)

Scanners == [inThink : BOOLEAN, pending : Text, flipped : BOOLEAN, atStart : BOOLEAN]

\* While there is data to scan nothing is held back.
Turns == {t \in [sc : Scanners, data : Text, segs : Segs] : t.data # <<>> => t.sc.pending = <<>>}

Parts(i, f, s, p, d, g) ==
  /\ i \in BOOLEAN /\ f \in BOOLEAN /\ s \in BOOLEAN /\ p \in Text /\ d \in Text /\ g \in Segs
  /\ d # <<>> => p = <<>>

LEMMA TurnForm ==
  ASSUME NEW t \in Turns
  PROVE  \E i, f, s, p, d, g : Parts(i, f, s, p, d, g) /\ t = Turn(i, f, s, p, d, g)
  <1>1. t = Turn(t.sc.inThink, t.sc.flipped, t.sc.atStart, t.sc.pending, t.data, t.segs)
    BY DEF Turns, Turn, Scanners
  <1>2. Parts(t.sc.inThink, t.sc.flipped, t.sc.atStart, t.sc.pending, t.data, t.segs)
    BY DEF Turns, Scanners, Parts
  <1>3. QED
    BY <1>1, <1>2

LEMMA TurnIn ==
  ASSUME NEW i, NEW f, NEW s, NEW p, NEW d, NEW g, Parts(i, f, s, p, d, g)
  PROVE  Turn(i, f, s, p, d, g) \in Turns
  BY DEF Turn, Turns, Scanners, Parts

LEMMA TurnParts ==
  ASSUME NEW i, NEW f, NEW s, NEW p, NEW d, NEW g
  PROVE  /\ Turn(i, f, s, p, d, g).data = d /\ Turn(i, f, s, p, d, g).segs = g
         /\ Turn(i, f, s, p, d, g).sc.atStart = s /\ Turn(i, f, s, p, d, g).sc.inThink = i
         /\ Turn(i, f, s, p, d, g).sc.pending = p /\ Turn(i, f, s, p, d, g).sc.flipped = f
  BY DEF Turn

\* The segments of a text.
LEMMA ClFacts ==
  ASSUME NEW i \in BOOLEAN, NEW d \in Text
  PROVE  /\ Cl(i, d) \in Segs /\ Len(Cl(i, d)) = Len(d)
         /\ \A k \in 1 .. Len(d) : Cl(i, d)[k] = <<Kind(i), d[k]>>
  <1>1. d \in Seq(Alphabet) /\ Len(d) \in Nat /\ DOMAIN d = 1 .. Len(d)
    BY LenProperties DEF Text
  <1>2. Kind(i) \in {"text", "thinking"}
    BY DEF Kind
  <1>3. \A k \in 1 .. Len(d) : d[k] \in Alphabet
    BY <1>1, ElementOfSeq
  <1> DEFINE n == Len(d)
             K == Kind(i)
  <1>4. Cl(i, d) = [k \in 1 .. n |-> <<K, d[k]>>]
    BY <1>1 DEF Cl
  <1> HIDE DEF n, K
  <1>5. \A k \in 1 .. n : <<K, d[k]>> \in {"text", "thinking"} \X Alphabet
    BY <1>2, <1>3 DEF n, K
  <1>6. /\ [k \in 1 .. n |-> <<K, d[k]>>] \in Seq({"text", "thinking"} \X Alphabet)
        /\ Len([k \in 1 .. n |-> <<K, d[k]>>]) = n
    BY <1>1, <1>5 DEF n
  <1>7. QED
    BY <1>4, <1>6 DEF Segs, n, K

\* The loop has five cases.
LEMMA ScanCases ==
  ASSUME NEW i, NEW s \in BOOLEAN, NEW d \in Text
  PROVE  \/ d = <<>>
         \/ Yes(s) /\ Undecided(stripLeadingSeps(d))
         \/ Yes(s) /\ ~Undecided(stripLeadingSeps(d))
         \/ No(s) /\ NoHit(d, MarkPiece(i))
         \/ No(s) /\ \E at \in Nat : FirstHit(d, MarkPiece(i), at)
  <1> DEFINE x == MarkPiece(i)
             n == Index(d, <<"Lead", x>>)
  <1>1. x \in Alphabet
    BY DEF MarkPiece, Alphabet
  <1> HIDE DEF x
  <1>2. /\ n = 0 => \A k \in Nat : ~Hit(d, x, k)
        /\ n # 0 => Hit(d, x, n) /\ \A k \in Nat : Hit(d, x, k) => n <= k
    BY <1>1, IndexIs
  <1> HIDE DEF n
  <1>3. NoHit(d, x) \/ \E at \in Nat : FirstHit(d, x, at)
    <2>1. CASE n = 0
      BY <1>2, <2>1 DEF NoHit
    <2>2. CASE n # 0
      <3>1. n \in Nat
        BY <1>2, <2>2 DEF Hit
      <3>2. FirstHit(d, x, n)
        BY <1>2, <2>2 DEF FirstHit
      <3>3. QED
        BY <3>1, <3>2
    <2>3. QED
      BY <2>1, <2>2
  <1>4. QED
    <2>1. Yes(s) \/ No(s)
      BY DEF Yes, No
    <2>2. QED
      BY <1>3, <2>1 DEF x

\* What the scanner does with a place where a marker is.
LEMMA HitParts ==
  ASSUME NEW d \in Text, NEW x, NEW at \in Nat, Hit(d, x, at)
  PROVE  /\ at >= 1 /\ at + 1 <= Len(d) /\ at - 1 \in 0 .. Len(d) /\ at + 1 \in 0 .. Len(d)
         /\ After(d, at) \in Text /\ Len(After(d, at)) = Len(d) - (at + 1)
         /\ Before(d, at) \in Text /\ Len(Before(d, at)) = at - 1
  <1>1. Len(d) \in Nat /\ d \in Seq(Alphabet)
    BY LenProperties DEF Text
  <1>2. at >= 1 /\ at + 1 <= Len(d) /\ at - 1 \in 0 .. Len(d) /\ at + 1 \in 0 .. Len(d)
    BY <1>1 DEF Hit
  <1>3. Drop(d, at + 1) \in Seq(Alphabet) /\ Len(Drop(d, at + 1)) = Len(d) - (at + 1)
    BY <1>1, <1>2, DropFacts
  <1>4. SubSeq(d, 1, at - 1) \in Seq(Alphabet) /\ Len(SubSeq(d, 1, at - 1)) = at - 1
    BY <1>1, <1>2, TakeFacts
  <1>5. QED
    BY <1>2, <1>3, <1>4 DEF Text, After, Before

LEMMA KeepParts ==
  ASSUME NEW d \in Text
  PROVE  /\ Keep(d) \in {0, 1} /\ Len(d) - Keep(d) \in 0 .. Len(d)
         /\ HeldPart(d) \in Text /\ Len(HeldPart(d)) = Keep(d)
         /\ SentPart(d) \in Text /\ Len(SentPart(d)) = Len(d) - Keep(d)
  <1> DEFINE n == Len(d) - Keep(d)
  <1>1. Len(d) \in Nat /\ d \in Seq(Alphabet) /\ (d = <<>> <=> Len(d) = 0)
    BY LenProperties, EmptySeq DEF Text
  <1>2. Keep(d) \in {0, 1} /\ (Keep(d) = 1 => d # <<>>)
    BY DEF Keep, EndsLead
  <1>3. n \in 0 .. Len(d) /\ Len(d) - n = Keep(d)
    BY <1>1, <1>2
  <1> HIDE DEF n
  <1>4. Drop(d, n) \in Seq(Alphabet) /\ Len(Drop(d, n)) = Len(d) - n
    BY <1>1, <1>3, DropFacts
  <1>5. SubSeq(d, 1, n) \in Seq(Alphabet) /\ Len(SubSeq(d, 1, n)) = n
    BY <1>1, <1>3, TakeFacts
  <1>6. QED
    BY <1>2, <1>3, <1>4, <1>5 DEF Text, n, HeldPart, SentPart

LEMMA JoinSegs ==
  ASSUME NEW g \in Segs, NEW e \in Segs
  PROVE  g \o e \in Segs
  BY ConcatProperties DEF Segs

LEMMA StripShorter ==
  ASSUME NEW d \in Text
  PROVE  Len(stripLeadingSeps(d)) <= Len(d)
  <1> DEFINE S == {e \in Text : Len(stripLeadingSeps(e)) <= Len(e)}
  <1>1. ASSUME NEW e \in Text, ~StartsSep(e) PROVE e \in S
    <2>1. stripLeadingSeps(e) = e /\ Len(e) \in Nat
      BY <1>1, StripFacts, LenProperties DEF Text
    <2>2. QED
      BY <2>1
  <1>2. ASSUME NEW e \in Text, StartsSep(e), StripOne(e) \in S PROVE e \in S
    <2>1. stripLeadingSeps(e) = stripLeadingSeps(StripOne(e)) /\ StripOne(e) \in Text
      BY StripFacts
    <2>2. Len(StripOne(e)) < Len(e)
      BY <1>2, <2>1, StripTurnFacts DEF TextLen
    <2>3. Len(e) \in Nat /\ Len(StripOne(e)) \in Nat /\ Len(stripLeadingSeps(e)) \in Nat
      BY <2>1, StripFacts, LenProperties DEF Text
    <2>4. Len(stripLeadingSeps(e)) <= Len(StripOne(e))
      BY <1>2, <2>1
    <2> HIDE DEF S
    <2>5. Len(stripLeadingSeps(e)) <= Len(e)
      BY <2>2, <2>3, <2>4
    <2>6. QED
      BY <2>5 DEF S
  <1> HIDE DEF S
  <1>3. d \in S
    BY <1>1, <1>2, StripInduction
  <1>4. QED
    BY <1>3 DEF S

ScanLoop == [t \in Turns |-> Scan(t)]

\* A bound of the turns that are left.
TurnsLeft == [t \in Turns |-> 2 * Len(t.data) + (IF t.sc.atStart THEN 1 ELSE 0)]

LEMMA LeftIs ==
  ASSUME NEW i, NEW f, NEW s, NEW p, NEW d, NEW g, Parts(i, f, s, p, d, g)
  PROVE  TurnsLeft[Turn(i, f, s, p, d, g)] = 2 * Len(d) + (IF s THEN 1 ELSE 0)
  <1> DEFINE t == Turn(i, f, s, p, d, g)
  <1>1. t \in Turns /\ t.data = d /\ t.sc.atStart = s
    BY TurnIn, TurnParts
  <1> HIDE DEF t
  <1>2. TurnsLeft[t] = 2 * Len(d) + (IF s THEN 1 ELSE 0)
    BY <1>1 DEF TurnsLeft
  <1>3. QED
    BY <1>2 DEF t

LEMMA EmptyText ==
  /\ <<>> \in Text /\ Len(<<>>) = 0
  /\ \A d \in Text : Len(d) \in Nat /\ (d = <<>> <=> Len(d) = 0)
  BY EmptySeq, LenProperties DEF Text

\* What a turn makes of its state.
TurnTo(i, f, s, p, d, g, u) ==
  \E j, e, r, q, c, h : /\ u = Turn(j, e, r, q, c, h) /\ Parts(j, e, r, q, c, h)
                        /\ 2 * Len(c) + (IF r THEN 1 ELSE 0) < 2 * Len(d) + (IF s THEN 1 ELSE 0)

\* A turn leaves a state of the loop, and fewer turns.
LEMMA ScanTakes ==
  ASSUME NEW i, NEW f, NEW s, NEW p, NEW d, NEW g, Parts(i, f, s, p, d, g), d # <<>>
  PROVE  TurnTo(i, f, s, p, d, g, Scan(Turn(i, f, s, p, d, g)))
  <1> DEFINE t == Turn(i, f, s, p, d, g)
             y == TRUE
             w == FALSE
             j == ~i
  <1>a. y \in BOOLEAN /\ w \in BOOLEAN /\ j \in BOOLEAN /\ No(w) /\ Yes(y) /\ Opposite(i, j)
    BY DEF Yes, No, Opposite
  <1> HIDE DEF y, w, j
  <1>b. /\ i \in BOOLEAN /\ f \in BOOLEAN /\ s \in BOOLEAN /\ p \in Text /\ d \in Text /\ g \in Segs
        /\ p = <<>>
    BY DEF Parts
  <1>c. Len(d) \in Nat /\ Len(d) # 0 /\ <<>> \in Text /\ Len(<<>>) = 0
    BY <1>b, EmptyText
  <1>1. CASE Yes(s) /\ Undecided(stripLeadingSeps(d))
    <2>1. Scan(t) = Turn(i, f, s, d, <<>>, g)
      BY <1>b, <1>1, ScanHeld
    <2>2. Parts(i, f, s, d, <<>>, g)
      BY <1>b, <1>c DEF Parts
    <2>3. 2 * Len(<<>>) + (IF s THEN 1 ELSE 0) < 2 * Len(d) + (IF s THEN 1 ELSE 0)
      BY <1>c, <1>1 DEF Yes
    <2>4. QED
      BY <2>1, <2>2, <2>3 DEF TurnTo
  <1>2. CASE Yes(s) /\ ~Undecided(stripLeadingSeps(d))
    <2> DEFINE r == stripLeadingSeps(d)
    <2>1. Scan(t) = Turn(i, f, w, p, r, g)
      BY <1>a, <1>b, <1>2, ScanDecided
    <2>2. r \in Text /\ Len(r) <= Len(d) /\ Len(r) \in Nat
      BY <1>b, StripFacts, StripShorter, EmptyText
    <2> HIDE DEF r
    <2>3. Parts(i, f, w, p, r, g)
      BY <1>a, <1>b, <2>2 DEF Parts
    <2>4. 2 * Len(r) + (IF w THEN 1 ELSE 0) < 2 * Len(d) + (IF s THEN 1 ELSE 0)
      BY <1>a, <1>c, <1>2, <2>2 DEF Yes, No
    <2>5. QED
      BY <2>1, <2>3, <2>4 DEF TurnTo
  <1>3. CASE No(s) /\ NoHit(d, MarkPiece(i))
    <2> DEFINE v == HeldPart(d)
               u == SentPart(d)
               h == g \o Cl(i, u)
    <2>1. Scan(t) = Turn(i, f, s, v, <<>>, h)
      BY <1>b, <1>3, ScanPlain
    <2>2. u \in Text /\ v \in Text
      BY <1>b, KeepParts
    <2> HIDE DEF u, v
    <2>3. h \in Segs
      BY <1>b, <2>2, ClFacts, JoinSegs
    <2> HIDE DEF h
    <2>4. Parts(i, f, s, v, <<>>, h)
      BY <1>b, <1>c, <2>2, <2>3 DEF Parts
    <2>5. 2 * Len(<<>>) + (IF s THEN 1 ELSE 0) < 2 * Len(d) + (IF s THEN 1 ELSE 0)
      BY <1>c, <1>3 DEF No
    <2>6. QED
      BY <2>1, <2>4, <2>5 DEF TurnTo
  <1>4. CASE No(s) /\ \E at \in Nat : FirstHit(d, MarkPiece(i), at)
    <2>1. PICK at \in Nat : FirstHit(d, MarkPiece(i), at)
      BY <1>4
    <2> DEFINE v == After(d, at)
               u == Before(d, at)
               h == g \o Cl(i, u)
    <2>2. Scan(t) = Turn(j, y, y, p, v, h)
      <3>1. d \in Text /\ No(s) /\ Opposite(i, j) /\ Yes(y)
        BY <1>a, <1>b, <1>4
      <3>2. QED
        BY <2>1, <3>1, ScanMarker
    <2>3. u \in Text /\ v \in Text /\ Len(v) = Len(d) - (at + 1) /\ at >= 1
      BY <1>b, <2>1, HitParts DEF FirstHit
    <2> HIDE DEF u, v
    <2>4. h \in Segs /\ Len(v) \in Nat
      BY <1>b, <2>3, ClFacts, JoinSegs, EmptyText
    <2> HIDE DEF h
    <2>5. Parts(j, y, y, p, v, h)
      BY <1>a, <1>b, <2>3, <2>4 DEF Parts
    <2>6. 2 * Len(v) + (IF y THEN 1 ELSE 0) < 2 * Len(d) + (IF s THEN 1 ELSE 0)
      <3>1. 2 * Len(v) + 1 < 2 * Len(d) + 0
        BY <1>c, <2>3, <2>4
      <3>2. QED
        BY <1>a, <1>4, <3>1 DEF Yes, No
    <2>7. QED
      BY <2>2, <2>5, <2>6 DEF TurnTo
  <1>5. QED
    BY <1>b, <1>1, <1>2, <1>3, <1>4, ScanCases

LEMMA ScanLoopFacts ==
  /\ ScanLoop \in [Turns -> Turns] /\ TurnsLeft \in [Turns -> Nat]
  /\ \A t \in Turns : /\ ScanLoop[t] = Scan(t) /\ Scan(t) \in Turns
                      /\ ScanLoop[t] # t <=> t.data # <<>>
                      /\ ScanLoop[t] # t => TurnsLeft[ScanLoop[t]] < TurnsLeft[t]
  <1>1. ASSUME NEW t \in Turns
        PROVE  /\ Scan(t) \in Turns /\ TurnsLeft[t] \in Nat
               /\ t.data = <<>> => Scan(t) = t
               /\ t.data # <<>> => TurnsLeft[Scan(t)] < TurnsLeft[t]
    <2>1. PICK i, f, s, p, d, g : Parts(i, f, s, p, d, g) /\ t = Turn(i, f, s, p, d, g)
      BY TurnForm
    <2>2. t.data = d /\ d \in Text /\ i \in BOOLEAN /\ f \in BOOLEAN /\ s \in BOOLEAN
      BY <2>1, TurnParts DEF Parts
    <2>3. CASE d # <<>>
      <3>1. TurnTo(i, f, s, p, d, g, Scan(t))
        BY <2>1, <2>3, ScanTakes
      <3>2. PICK j, e, r, q, c, h :
              /\ Scan(t) = Turn(j, e, r, q, c, h) /\ Parts(j, e, r, q, c, h)
              /\ 2 * Len(c) + (IF r THEN 1 ELSE 0) < 2 * Len(d) + (IF s THEN 1 ELSE 0)
        BY <3>1 DEF TurnTo
      <3>3. Scan(t) \in Turns
        BY <3>2, TurnIn
      <3>4. TurnsLeft[Scan(t)] = 2 * Len(c) + (IF r THEN 1 ELSE 0)
        BY <3>2, LeftIs
      <3>5. TurnsLeft[t] = 2 * Len(d) + (IF s THEN 1 ELSE 0)
        BY <2>1, LeftIs
      <3>6. Len(d) \in Nat
        BY <2>2, EmptyText
      <3>7. QED
        BY <2>2, <2>3, <3>2, <3>3, <3>4, <3>5, <3>6
    <2>4. CASE d = <<>>
      <3>1. Scan(t) = t
        BY <2>1, <2>2, <2>4, ScanEmpty
      <3>2. TurnsLeft[t] = 2 * Len(d) + (IF s THEN 1 ELSE 0) /\ Len(d) \in Nat
        BY <2>1, <2>2, LeftIs, EmptyText
      <3>3. QED
        BY <2>2, <2>4, <3>1, <3>2
    <2>5. QED
      BY <2>3, <2>4
  <1>2. TurnsLeft \in [Turns -> Nat] /\ ScanLoop \in [Turns -> Turns]
    BY <1>1 DEF TurnsLeft, ScanLoop
  <1>3. ASSUME NEW t \in Turns
        PROVE  /\ ScanLoop[t] = Scan(t)
               /\ ScanLoop[t] # t <=> t.data # <<>>
               /\ ScanLoop[t] # t => TurnsLeft[ScanLoop[t]] < TurnsLeft[t]
    <2>1. ScanLoop[t] = Scan(t)
      BY DEF ScanLoop
    <2>2. TurnsLeft[t] \in Nat /\ ~(TurnsLeft[t] < TurnsLeft[t])
      BY <1>1
    <2>3. QED
      BY <1>1, <2>1, <2>2
  <1>4. QED
    BY <1>1, <1>2, <1>3

Final(t) == LoopEnd(Turns, ScanLoop, t)

\* Where the loop ends there is no data left.
LEMMA FinalFacts ==
  ASSUME NEW t \in Turns
  PROVE  /\ Final(t) \in Turns /\ Final(t).data = <<>>
         /\ t.data = <<>> => Final(t) = t
         /\ Scan(t) \in Turns /\ Final(t) = Final(Scan(t))
  <1>1. /\ Final(t) \in Turns /\ ScanLoop[Final(t)] = Final(t)
        /\ Final(t) = Final(ScanLoop[t])
        /\ ScanLoop[t] = t => Final(t) = t
    BY ScanLoopFacts, LoopEnds DEF Final
  <1>2. QED
    BY <1>1, ScanLoopFacts

\* States of the loop, by the turns that follow.
LEMMA ScanInduction ==
  ASSUME NEW S, \A t \in Turns : t.data = <<>> => t \in S,
         \A t \in Turns : t.data # <<>> /\ Scan(t) \in S => t \in S
  PROVE  Turns \subseteq S
  <1>1. \A t \in Turns : ScanLoop[t] = t => t \in S
    BY ScanLoopFacts
  <1>2. \A t \in Turns : ScanLoop[t] # t /\ ScanLoop[t] \in S => t \in S
    BY ScanLoopFacts
  <1>3. /\ ScanLoop \in [Turns -> Turns] /\ TurnsLeft \in [Turns -> Nat]
        /\ \A t \in Turns : ScanLoop[t] # t => TurnsLeft[ScanLoop[t]] < TurnsLeft[t]
    BY ScanLoopFacts
  <1>4. QED
    BY <1>1, <1>2, <1>3, LoopInduction

\* What is fed to the scanner is scanned to the end.
LEMMA FeedIsFinal ==
  ASSUME NEW sc \in Scanners, NEW chunk \in Text
  PROVE  /\ Feed(sc, chunk) = Final(Joined(sc, chunk)) /\ Joined(sc, chunk) \in Turns
         /\ Joined(sc, chunk) = Turn(sc.inThink, sc.flipped, sc.atStart, <<>>, sc.pending \o chunk, <<>>)
  <1> DEFINE t == Joined(sc, chunk)
             n == CHOOSE f : f = [k \in Nat |-> IF k = 0 THEN t ELSE Scan(f[k - 1])]
  <1>1. /\ sc.inThink \in BOOLEAN /\ sc.flipped \in BOOLEAN /\ sc.atStart \in BOOLEAN
        /\ sc.pending \in Text
    BY DEF Scanners
  <1>2. sc.pending \o chunk \in Text /\ <<>> \in Text /\ <<>> \in Segs
    BY <1>1, JoinFacts, EmptySeq DEF Text, Segs
  <1>3. t = Turn(sc.inThink, sc.flipped, sc.atStart, <<>>, sc.pending \o chunk, <<>>)
    <2>1. [sc EXCEPT !.pending = <<>>] =
            [inThink |-> sc.inThink, pending |-> <<>>, flipped |-> sc.flipped, atStart |-> sc.atStart]
      BY DEF Scanners
    <2>2. QED
      BY <2>1 DEF Joined, Turn
  <1>4. t \in Turns
    <2>1. Parts(sc.inThink, sc.flipped, sc.atStart, <<>>, sc.pending \o chunk, <<>>)
      BY <1>1, <1>2 DEF Parts
    <2>2. QED
      BY <1>3, <2>1, TurnIn
  <1>5. Feed(sc, chunk) = n[2 * Len(t.data) + 1]
    BY DEF Feed
  <1> HIDE DEF t
  <1>6. PICK f : Rounds(Turns, ScanLoop, t, f)
    BY <1>4, ScanLoopFacts, RoundsExist
  <1>7. f \in [Nat -> Turns] /\ f[0] = t /\ \A k \in Nat : f[k + 1] = ScanLoop[f[k]]
    BY <1>6 DEF Rounds
  <1>8. f = [k \in Nat |-> IF k = 0 THEN t ELSE Scan(f[k - 1])]
    <2>1. ASSUME NEW k \in Nat PROVE f[k] = IF k = 0 THEN t ELSE Scan(f[k - 1])
      <3>1. CASE k # 0
        <4>1. k - 1 \in Nat /\ (k - 1) + 1 = k
          BY <3>1
        <4>2. f[k] = ScanLoop[f[k - 1]] /\ f[k - 1] \in Turns
          BY <1>7, <4>1
        <4>3. QED
          BY <3>1, <4>2, ScanLoopFacts
      <3>2. QED
        BY <1>7, <3>1
    <2>2. QED
      BY <1>7, <2>1
  <1>9. n = [k \in Nat |-> IF k = 0 THEN t ELSE Scan(n[k - 1])]
    BY <1>8
  <1> HIDE DEF n
  <1>10. n[0] = t
    BY <1>9
  <1>11. ASSUME NEW k \in Nat PROVE n[k + 1] = Scan(n[k])
    <2>1. k + 1 \in Nat /\ k + 1 # 0 /\ (k + 1) - 1 = k
      OBVIOUS
    <2>2. QED
      BY <1>9, <2>1
  <1>12. ASSUME NEW k \in Nat PROVE n[k] = f[k]
    <2> DEFINE S == {j \in Nat : n[j] = f[j]}
    <2>1. 0 \in S
      BY <1>7, <1>10
    <2>2. ASSUME NEW j \in Nat, j \in S PROVE j + 1 \in S
      <3>1. f[j] \in Turns /\ f[j + 1] = ScanLoop[f[j]] /\ n[j + 1] = Scan(n[j]) /\ n[j] = f[j]
        BY <1>7, <1>11, <2>2
      <3>2. QED
        BY <3>1, ScanLoopFacts
    <2> HIDE DEF S
    <2>3. k \in S
      BY <2>1, <2>2, InductiveSet
    <2>4. QED
      BY <2>3 DEF S
  <1>13. 2 * Len(t.data) + 1 \in Nat /\ TurnsLeft[t] <= 2 * Len(t.data) + 1
    <2>1. t.data \in Text /\ Len(t.data) \in Nat
      BY <1>4, EmptyText DEF Turns
    <2>2. TurnsLeft[t] = 2 * Len(t.data) + (IF t.sc.atStart THEN 1 ELSE 0)
      BY <1>4 DEF TurnsLeft
    <2>3. QED
      BY <2>1, <2>2
  <1>14. f[2 * Len(t.data) + 1] = Final(t)
    <2> DEFINE m == 2 * Len(t.data) + 1
    <2> HIDE DEF m
    <2>1. m \in Nat /\ TurnsLeft[t] <= m
      BY <1>13 DEF m
    <2>2. f[m] = Final(t)
      BY <1>4, <1>6, <2>1, ScanLoopFacts, LoopEnds DEF Final
    <2>3. QED
      BY <2>2 DEF m
  <1>15. QED
    BY <1>3, <1>4, <1>5, <1>12, <1>13, <1>14 DEF t

\* The segments of what went before are put in front.
Pre(q, t) ==
  Turn(t.sc.inThink, t.sc.flipped, t.sc.atStart, t.sc.pending, t.data, q \o t.segs)

LEMMA PreIs ==
  ASSUME NEW i, NEW f, NEW s, NEW p, NEW d, NEW g, NEW q
  PROVE  Pre(q, Turn(i, f, s, p, d, g)) = Turn(i, f, s, p, d, q \o g)
  <1>1. /\ Turn(i, f, s, p, d, g).data = d /\ Turn(i, f, s, p, d, g).segs = g
        /\ Turn(i, f, s, p, d, g).sc.atStart = s /\ Turn(i, f, s, p, d, g).sc.inThink = i
        /\ Turn(i, f, s, p, d, g).sc.pending = p /\ Turn(i, f, s, p, d, g).sc.flipped = f
    BY TurnParts
  <1>2. QED
    BY <1>1, Zenon DEF Pre

LEMMA SegsAssociative ==
  ASSUME NEW q \in Segs, NEW g \in Segs, NEW h \in Segs
  PROVE  (q \o g) \o h = q \o (g \o h)
  BY ConcatAssociative DEF Segs

\* A turn does not look at the segments before it.
LEMMA ScanPre ==
  ASSUME NEW i, NEW f, NEW s, NEW p, NEW d, NEW g, Parts(i, f, s, p, d, g), d # <<>>, NEW q \in Segs
  PROVE  Scan(Turn(i, f, s, p, d, q \o g)) = Pre(q, Scan(Turn(i, f, s, p, d, g)))
  <1> DEFINE y == TRUE
             w == FALSE
             j == ~i
             k == q \o g
  <1>a. No(w) /\ Yes(y) /\ Opposite(i, j)
    BY DEF Yes, No, Opposite
  <1> HIDE DEF y, w, j, k
  <1>b. i \in BOOLEAN /\ s \in BOOLEAN /\ d \in Text /\ g \in Segs
    BY DEF Parts
  <1>1. CASE Yes(s) /\ Undecided(stripLeadingSeps(d))
    <2>1. /\ Scan(Turn(i, f, s, p, d, g)) = Turn(i, f, s, d, <<>>, g)
          /\ Scan(Turn(i, f, s, p, d, k)) = Turn(i, f, s, d, <<>>, k)
      BY <1>b, <1>1, ScanHeld
    <2>2. QED
      BY <2>1, PreIs DEF k
  <1>2. CASE Yes(s) /\ ~Undecided(stripLeadingSeps(d))
    <2>1. /\ Scan(Turn(i, f, s, p, d, g)) = Turn(i, f, w, p, stripLeadingSeps(d), g)
          /\ Scan(Turn(i, f, s, p, d, k)) = Turn(i, f, w, p, stripLeadingSeps(d), k)
      BY <1>a, <1>b, <1>2, ScanDecided
    <2>2. QED
      BY <2>1, PreIs DEF k
  <1>3. CASE No(s) /\ NoHit(d, MarkPiece(i))
    <2> DEFINE c == Cl(i, SentPart(d))
    <2>1. /\ Scan(Turn(i, f, s, p, d, g)) = Turn(i, f, s, HeldPart(d), <<>>, g \o c)
          /\ Scan(Turn(i, f, s, p, d, k)) = Turn(i, f, s, HeldPart(d), <<>>, k \o c)
      BY <1>b, <1>3, ScanPlain
    <2>2. c \in Segs
      BY <1>b, KeepParts, ClFacts
    <2> HIDE DEF c
    <2>3. k \o c = q \o (g \o c)
      BY <1>b, <2>2, SegsAssociative DEF k
    <2>4. QED
      BY <2>1, <2>3, PreIs DEF k
  <1>4. CASE No(s) /\ \E at \in Nat : FirstHit(d, MarkPiece(i), at)
    <2>1. PICK at \in Nat : FirstHit(d, MarkPiece(i), at)
      BY <1>4
    <2> DEFINE c == Cl(i, Before(d, at))
    <2>a. No(s)
      BY <1>4
    <2>2. Scan(Turn(i, f, s, p, d, g)) = Turn(j, y, y, p, After(d, at), g \o c)
      BY <1>a, <1>b, <2>a, <2>1, ScanMarker
    <2>3. Scan(Turn(i, f, s, p, d, k)) = Turn(j, y, y, p, After(d, at), k \o c)
      BY <1>a, <1>b, <2>a, <2>1, ScanMarker
    <2>4. c \in Segs
      <3>1. Before(d, at) \in Text
        BY <1>b, <2>1, HitParts DEF FirstHit
      <3>2. QED
        BY <1>b, <3>1, ClFacts
    <2> HIDE DEF c
    <2>5. k \o c = q \o (g \o c)
      BY <1>b, <2>4, SegsAssociative DEF k
    <2>6. QED
      BY <2>2, <2>3, <2>5, PreIs DEF k
  <1>5. QED
    BY <1>b, <1>1, <1>2, <1>3, <1>4, ScanCases

LEMMA PreIn ==
  ASSUME NEW t \in Turns, NEW q \in Segs
  PROVE  Pre(q, t) \in Turns /\ Pre(q, t).data = t.data
  <1>1. PICK i, f, s, p, d, g : Parts(i, f, s, p, d, g) /\ t = Turn(i, f, s, p, d, g)
    BY TurnForm
  <1> DEFINE h == q \o g
  <1>2. h \in Segs
    BY <1>1, JoinSegs DEF Parts
  <1> HIDE DEF h
  <1>3. Parts(i, f, s, p, d, h)
    BY <1>1, <1>2 DEF Parts
  <1>4. Turn(i, f, s, p, d, h) \in Turns /\ Turn(i, f, s, p, d, h).data = d /\ t.data = d
    BY <1>1, <1>3, TurnIn, TurnParts
  <1>5. Pre(q, t) = Turn(i, f, s, p, d, h)
    BY <1>1, PreIs DEF h
  <1>6. QED
    BY <1>4, <1>5

\* Nor does the loop.
LEMMA FinalPre ==
  ASSUME NEW t \in Turns, NEW q \in Segs
  PROVE  Final(Pre(q, t)) = Pre(q, Final(t))
  <1> DEFINE S == {u \in Turns : Final(Pre(q, u)) = Pre(q, Final(u))}
  <1>1. ASSUME NEW u \in Turns, u.data = <<>> PROVE u \in S
    <2>1. Final(u) = u
      BY <1>1, FinalFacts
    <2>2. Pre(q, u) \in Turns /\ Pre(q, u).data = <<>>
      BY <1>1, PreIn
    <2>3. Final(Pre(q, u)) = Pre(q, u)
      BY <2>2, FinalFacts
    <2>4. QED
      BY <2>1, <2>3
  <1>2. ASSUME NEW u \in Turns, u.data # <<>>, Scan(u) \in S PROVE u \in S
    <2>1. PICK i, f, s, p, d, g : Parts(i, f, s, p, d, g) /\ u = Turn(i, f, s, p, d, g)
      BY TurnForm
    <2>2. u.data = d
      BY <2>1, TurnParts
    <2>3. Scan(Turn(i, f, s, p, d, q \o g)) = Pre(q, Scan(u))
      BY <1>2, <2>1, <2>2, ScanPre
    <2>4. Pre(q, u) = Turn(i, f, s, p, d, q \o g)
      BY <2>1, PreIs
    <2>5. Pre(q, u) \in Turns
      BY PreIn
    <2>6. Final(Pre(q, u)) = Final(Scan(Pre(q, u)))
      BY <2>5, FinalFacts
    <2>7. Final(u) = Final(Scan(u))
      BY FinalFacts
    <2>8. Final(Pre(q, Scan(u))) = Pre(q, Final(Scan(u)))
      BY <1>2
    <2>9. QED
      BY <2>3, <2>4, <2>6, <2>7, <2>8
  <1> HIDE DEF S
  <1>3. t \in S
    BY <1>1, <1>2, ScanInduction
  <1>4. QED
    BY <1>3 DEF S

-----------------------------------------------------------------------------
(* Text that goes on.                                                      *)

LEMMA PastArith ==
  ASSUME NEW k \in Nat, NEW l \in Nat, NEW n \in 0 .. l
  PROVE  n \in Nat /\ k + n \in 0 .. (k + l) /\ (k + l) - (k + n) = l - n
  OBVIOUS

\* Of a text after another: what comes after the first and some pieces more.
LEMMA DropPast ==
  ASSUME NEW d \in Text, NEW b \in Text, NEW n \in 0 .. Len(b), NEW m \in Nat, m = Len(d) + n
  PROVE  Drop(d \o b, m) = Drop(b, n)
  <1> DEFINE c == d \o b
             p == Drop(c, m)
             q == Drop(b, n)
  <1>1. /\ c \in Text /\ Len(c) = Len(d) + Len(b) /\ Len(d) \in Nat /\ Len(b) \in Nat
        /\ \A i \in (Len(d) + 1) .. (Len(d) + Len(b)) : c[i] = b[i - Len(d)]
    BY JoinFacts, Zenon
  <1> HIDE DEF c
  <1>2. m \in 0 .. Len(c) /\ Len(c) - m = Len(b) - n /\ n \in Nat
    <2>1. Len(c) = Len(d) + Len(b) /\ Len(d) \in Nat /\ Len(b) \in Nat
      BY <1>1, Zenon
    <2>2. QED
      BY <2>1, PastArith
  <1>3. /\ p \in Seq(Alphabet) /\ Len(p) = Len(c) - m
        /\ \A i \in 1 .. (Len(c) - m) : p[i] = c[m + i]
    BY <1>1, <1>2, DropFacts DEF Text
  <1>4. /\ q \in Seq(Alphabet) /\ Len(q) = Len(b) - n
        /\ \A i \in 1 .. (Len(b) - n) : q[i] = b[n + i]
    BY DropFacts DEF Text
  <1> HIDE DEF p, q
  <1>5. ASSUME NEW i \in 1 .. Len(p) PROVE p[i] = q[i]
    <2>1. /\ i \in 1 .. (Len(c) - m) /\ i \in 1 .. (Len(b) - n)
          /\ m + i \in (Len(d) + 1) .. (Len(d) + Len(b)) /\ (m + i) - Len(d) = n + i
      BY <1>1, <1>2, <1>3
    <2>2. QED
      BY <1>1, <1>3, <1>4, <2>1
  <1>6. p = q
    BY <1>2, <1>3, <1>4, <1>5, SeqEqual
  <1>7. QED
    BY <1>6 DEF p, q, c

\* And what comes before.
LEMMA TakePast ==
  ASSUME NEW d \in Text, NEW b \in Text, NEW n \in 0 .. Len(b), NEW m \in Nat, m = Len(d) + n
  PROVE  SubSeq(d \o b, 1, m) = d \o SubSeq(b, 1, n)
  <1> DEFINE c == d \o b
             p == SubSeq(c, 1, m)
             r == SubSeq(b, 1, n)
             q == d \o r
  <1>1. /\ c \in Text /\ Len(c) = Len(d) + Len(b) /\ Len(d) \in Nat /\ Len(b) \in Nat
        /\ \A i \in 1 .. Len(d) : c[i] = d[i]
        /\ \A i \in (Len(d) + 1) .. (Len(d) + Len(b)) : c[i] = b[i - Len(d)]
    BY JoinFacts
  <1> HIDE DEF c
  <1>2. m \in 0 .. Len(c) /\ n \in Nat /\ n <= Len(b)
    BY <1>1
  <1>3. p \in Seq(Alphabet) /\ Len(p) = m /\ \A i \in 1 .. m : p[i] = c[i]
    BY <1>1, <1>2, TakeFacts DEF Text
  <1>4. r \in Text /\ Len(r) = n /\ \A i \in 1 .. n : r[i] = b[i]
    BY TakeFacts DEF Text
  <1> HIDE DEF r, p
  <1>5. /\ q \in Text /\ Len(q) = Len(d) + Len(r)
        /\ \A i \in 1 .. Len(d) : q[i] = d[i]
        /\ \A i \in (Len(d) + 1) .. (Len(d) + Len(r)) : q[i] = r[i - Len(d)]
    BY <1>4, JoinFacts
  <1> HIDE DEF q
  <1>6. ASSUME NEW i \in 1 .. Len(p) PROVE p[i] = q[i]
    <2>1. CASE i <= Len(d)
      <3>1. i \in 1 .. m /\ i \in 1 .. Len(d)
        BY <1>1, <1>3, <2>1
      <3>2. QED
        BY <1>1, <1>3, <1>5, <3>1
    <2>2. CASE ~(i <= Len(d))
      <3>1. /\ i \in 1 .. m /\ i \in (Len(d) + 1) .. (Len(d) + Len(b))
            /\ i \in (Len(d) + 1) .. (Len(d) + Len(r)) /\ i - Len(d) \in 1 .. n
        BY <1>1, <1>2, <1>3, <1>4, <2>2
      <3>2. QED
        BY <1>1, <1>3, <1>4, <1>5, <3>1
    <2>3. QED
      BY <2>1, <2>2
  <1>7. Len(p) = Len(q)
    BY <1>3, <1>4, <1>5
  <1>8. p = q
    BY <1>3, <1>5, <1>6, <1>7, SeqEqual DEF Text
  <1>9. QED
    BY <1>8 DEF p, q, c, r

\* A marker that is in the text stays where it is when more comes, and is
\* the first one still.
LEMMA HitStays ==
  ASSUME NEW d \in Text, NEW b \in Text, NEW x, NEW at \in Nat, FirstHit(d, x, at)
  PROVE  FirstHit(d \o b, x, at)
  <1> DEFINE c == d \o b
  <1>1. /\ c \in Text /\ Len(c) = Len(d) + Len(b) /\ Len(d) \in Nat /\ Len(b) \in Nat
        /\ \A i \in 1 .. Len(d) : c[i] = d[i]
    BY JoinFacts
  <1> HIDE DEF c
  <1>2. at \in 1 .. (Len(d) - 1) /\ d[at] = "Lead" /\ d[at + 1] = x
    BY DEF FirstHit, Hit
  <1>3. Hit(c, x, at)
    <2>1. at \in 1 .. Len(d) /\ at + 1 \in 1 .. Len(d) /\ at \in 1 .. (Len(c) - 1)
      BY <1>1, <1>2
    <2>2. QED
      BY <1>1, <1>2, <2>1 DEF Hit
  <1>4. ASSUME NEW k \in Nat, Hit(c, x, k) PROVE at <= k
    <2>1. SUFFICES ASSUME k < at PROVE FALSE
      OBVIOUS
    <2>2. k \in 1 .. (Len(c) - 1) /\ c[k] = "Lead" /\ c[k + 1] = x
      BY <1>4 DEF Hit
    <2>3. k \in 1 .. Len(d) /\ k + 1 \in 1 .. Len(d) /\ k \in 1 .. (Len(d) - 1)
      BY <1>1, <1>2, <2>1, <2>2
    <2>4. Hit(d, x, k)
      BY <1>1, <2>2, <2>3 DEF Hit
    <2>5. at <= k
      BY <2>4 DEF FirstHit
    <2>6. QED
      BY <2>1, <2>5
  <1>5. QED
    BY <1>3, <1>4 DEF FirstHit, c

\* The join of two texts has no marker that begins in the first.
Separate(d, b, x) ==
  NoHit(d, x) /\ (EndsLead(d) /\ b # <<>> => b[1] # x)

LEMMA HitShifts ==
  ASSUME NEW d \in Text, NEW b \in Text, NEW x, Separate(d, b, x), NEW k \in Nat
  PROVE  Hit(d \o b, x, k) <=> k > Len(d) /\ Hit(b, x, k - Len(d))
  <1> DEFINE c == d \o b
  <1>1. /\ c \in Text /\ Len(c) = Len(d) + Len(b) /\ Len(d) \in Nat /\ Len(b) \in Nat
        /\ \A i \in 1 .. Len(d) : c[i] = d[i]
        /\ \A i \in (Len(d) + 1) .. (Len(d) + Len(b)) : c[i] = b[i - Len(d)]
    BY JoinFacts
  <1> HIDE DEF c
  <1>2. CASE k < Len(d)
    <2>1. ~Hit(d, x, k)
      BY DEF Separate, NoHit
    <2>2. SUFFICES ASSUME Hit(c, x, k) PROVE FALSE
      BY <1>1, <1>2 DEF c
    <2>3. k \in 1 .. (Len(c) - 1) /\ c[k] = "Lead" /\ c[k + 1] = x
      BY <2>2 DEF Hit
    <2>4. k \in 1 .. Len(d) /\ k + 1 \in 1 .. Len(d) /\ k \in 1 .. (Len(d) - 1)
      BY <1>1, <1>2, <2>3
    <2>5. QED
      BY <1>1, <2>1, <2>3, <2>4 DEF Hit
  <1>3. CASE k = Len(d)
    <2>2. SUFFICES ASSUME Hit(c, x, k) PROVE FALSE
      BY <1>1, <1>3 DEF c
    <2>3. k \in 1 .. (Len(c) - 1) /\ c[k] = "Lead" /\ c[k + 1] = x
      BY <2>2 DEF Hit
    <2>4. /\ k \in 1 .. Len(d) /\ k + 1 \in (Len(d) + 1) .. (Len(d) + Len(b))
          /\ (k + 1) - Len(d) = 1 /\ Len(d) # 0 /\ Len(b) # 0
      BY <1>1, <1>3, <2>3
    <2>5. d[Len(d)] = "Lead" /\ b[1] = x
      BY <1>1, <1>3, <2>3, <2>4
    <2>6. d # <<>> /\ b # <<>>
      BY <2>4, EmptyText
    <2>7. QED
      BY <2>5, <2>6 DEF Separate, EndsLead
  <1>4. CASE k > Len(d)
    <2>1. k \in 1 .. (Len(c) - 1) <=> k - Len(d) \in 1 .. (Len(b) - 1)
      BY <1>1, <1>4
    <2>2. ASSUME k \in 1 .. (Len(c) - 1)
          PROVE  c[k] = b[k - Len(d)] /\ c[k + 1] = b[(k - Len(d)) + 1]
      <3>1. /\ k \in (Len(d) + 1) .. (Len(d) + Len(b)) /\ k + 1 \in (Len(d) + 1) .. (Len(d) + Len(b))
            /\ (k + 1) - Len(d) = (k - Len(d)) + 1
        BY <1>1, <1>4, <2>2
      <3>2. QED
        BY <1>1, <3>1
    <2>3. Hit(c, x, k) <=> Hit(b, x, k - Len(d))
      BY <2>1, <2>2 DEF Hit
    <2>4. QED
      BY <1>4, <2>3 DEF c
  <1>5. QED
    BY <1>1, <1>2, <1>3, <1>4

LEMMA NoHitShifts ==
  ASSUME NEW d \in Text, NEW b \in Text, NEW x, Separate(d, b, x), NoHit(b, x)
  PROVE  NoHit(d \o b, x)
  <1>1. ASSUME NEW k \in Nat, Hit(d \o b, x, k) PROVE FALSE
    <2>1. k > Len(d) /\ Hit(b, x, k - Len(d))
      BY <1>1, HitShifts
    <2>2. k - Len(d) \in Nat
      BY <2>1, EmptyText
    <2>3. QED
      BY <2>1, <2>2 DEF NoHit
  <1>2. QED
    BY <1>1 DEF NoHit

LEMMA FirstHitShifts ==
  ASSUME NEW d \in Text, NEW b \in Text, NEW x, Separate(d, b, x),
         NEW at \in Nat, FirstHit(b, x, at)
  PROVE  FirstHit(d \o b, x, Len(d) + at)
  <1>1. Len(d) \in Nat /\ at >= 1
    BY EmptyText DEF FirstHit, Hit
  <1>2. Hit(d \o b, x, Len(d) + at)
    <2> DEFINE k == Len(d) + at
    <2>1. k \in Nat /\ k > Len(d) /\ k - Len(d) = at
      BY <1>1
    <2>2. Hit(b, x, k - Len(d))
      BY <2>1 DEF FirstHit
    <2> HIDE DEF k
    <2>3. Hit(d \o b, x, k)
      BY <2>1, <2>2, HitShifts
    <2>4. QED
      BY <2>3 DEF k
  <1>3. ASSUME NEW k \in Nat, Hit(d \o b, x, k) PROVE Len(d) + at <= k
    <2>1. k > Len(d) /\ Hit(b, x, k - Len(d))
      BY <1>3, HitShifts
    <2>2. k - Len(d) \in Nat
      BY <1>1, <2>1
    <2>3. at <= k - Len(d)
      BY <2>1, <2>2 DEF FirstHit
    <2>4. QED
      BY <1>1, <2>3
  <1>4. QED
    BY <1>2, <1>3 DEF FirstHit

LEMMA TextAssociative ==
  ASSUME NEW a \in Text, NEW b \in Text, NEW c \in Text
  PROVE  (a \o b) \o c = a \o (b \o c)
  BY ConcatAssociative DEF Text

LEMMA TextEmpty ==
  ASSUME NEW a \in Text
  PROVE  a \o <<>> = a /\ <<>> \o a = a
  BY ConcatEmptySeq DEF Text

LEMMA ClEmpty ==
  ASSUME NEW i
  PROVE  Cl(i, <<>>) = <<>>
  BY DEF Cl

LEMMA SegsEmpty ==
  ASSUME NEW g \in Segs
  PROVE  g \o <<>> = g /\ <<>> \o g = g /\ <<>> \in Segs
  BY ConcatEmptySeq, EmptySeq DEF Segs

\* The segments of a text are those of its parts.
LEMMA ClJoin ==
  ASSUME NEW i \in BOOLEAN, NEW a \in Text, NEW b \in Text
  PROVE  Cl(i, a \o b) = Cl(i, a) \o Cl(i, b)
  <1> DEFINE c == a \o b
             T == {"text", "thinking"} \X Alphabet
             u == Cl(i, a)
             v == Cl(i, b)
             p == Cl(i, c)
             q == u \o v
  <1>1. /\ c \in Text /\ Len(c) = Len(a) + Len(b) /\ Len(a) \in Nat /\ Len(b) \in Nat
        /\ \A k \in 1 .. Len(a) : c[k] = a[k]
        /\ \A k \in (Len(a) + 1) .. (Len(a) + Len(b)) : c[k] = b[k - Len(a)]
    BY JoinFacts
  <1> HIDE DEF c
  <1>2. /\ u \in Seq(T) /\ Len(u) = Len(a) /\ \A k \in 1 .. Len(a) : u[k] = <<Kind(i), a[k]>>
        /\ v \in Seq(T) /\ Len(v) = Len(b) /\ \A k \in 1 .. Len(b) : v[k] = <<Kind(i), b[k]>>
        /\ p \in Seq(T) /\ Len(p) = Len(c) /\ \A k \in 1 .. Len(c) : p[k] = <<Kind(i), c[k]>>
    BY <1>1, ClFacts DEF Segs
  <1> HIDE DEF u, v, p, T
  <1>a. u \in Seq(T) /\ v \in Seq(T)
    BY <1>2
  <1>3. /\ q \in Seq(T) /\ Len(q) = Len(u) + Len(v)
        /\ \A k \in 1 .. (Len(u) + Len(v)) : q[k] = IF k <= Len(u) THEN u[k] ELSE v[k - Len(u)]
    BY <1>a, ConcatProperties
  <1> HIDE DEF q
  <1>4. ASSUME NEW k \in 1 .. Len(p) PROVE p[k] = q[k]
    <2>1. CASE k <= Len(a)
      <3>1. k \in 1 .. Len(c) /\ k \in 1 .. Len(a) /\ k \in 1 .. (Len(u) + Len(v)) /\ k <= Len(u)
        BY <1>1, <1>2, <2>1
      <3>2. QED
        BY <1>1, <1>2, <1>3, <3>1
    <2>2. CASE ~(k <= Len(a))
      <3>1. /\ k \in 1 .. Len(c) /\ k \in (Len(a) + 1) .. (Len(a) + Len(b))
            /\ k \in 1 .. (Len(u) + Len(v)) /\ ~(k <= Len(u))
            /\ k - Len(u) = k - Len(a) /\ k - Len(a) \in 1 .. Len(b)
        BY <1>1, <1>2, <2>2
      <3>2. QED
        BY <1>1, <1>2, <1>3, <3>1
    <2>3. QED
      BY <2>1, <2>2
  <1>5. Len(p) = Len(q)
    BY <1>1, <1>2, <1>3
  <1>6. p = q
    BY <1>2, <1>3, <1>4, <1>5, SeqEqual
  <1>7. QED
    BY <1>6 DEF p, q, u, v, c

\* What is held back depends on the last piece only.
LEMMA KeepJoin ==
  ASSUME NEW d \in Text, NEW b \in Text, b # <<>>
  PROVE  HeldPart(d \o b) = HeldPart(b) /\ SentPart(d \o b) = d \o SentPart(b)
  <1> DEFINE c == d \o b
             n == Len(b) - Keep(b)
             m == Len(c) - Keep(c)
  <1>1. /\ c \in Text /\ Len(c) = Len(d) + Len(b) /\ Len(d) \in Nat /\ Len(b) \in Nat
        /\ \A k \in (Len(d) + 1) .. (Len(d) + Len(b)) : c[k] = b[k - Len(d)]
    BY JoinFacts
  <1> HIDE DEF c
  <1>2. Len(b) # 0 /\ Len(c) # 0 /\ c # <<>>
    BY <1>1, EmptyText
  <1>3. c[Len(c)] = b[Len(b)]
    <2>1. Len(c) \in (Len(d) + 1) .. (Len(d) + Len(b)) /\ Len(c) - Len(d) = Len(b)
      BY <1>1, <1>2
    <2>2. QED
      BY <1>1, <2>1
  <1>4. Keep(c) = Keep(b) /\ Keep(b) \in {0, 1} /\ n \in 0 .. Len(b)
    <2>1. EndsLead(c) <=> EndsLead(b)
      BY <1>2, <1>3 DEF EndsLead
    <2>2. Keep(c) = Keep(b)
      BY <2>1 DEF Keep
    <2>3. Keep(b) \in {0, 1} /\ n \in 0 .. Len(b)
      BY KeepParts
    <2>4. QED
      BY <2>2, <2>3
  <1>5. m = Len(d) + n /\ m \in Nat
    <2>1. Len(c) = Len(d) + Len(b) /\ Len(d) \in Nat /\ Len(b) \in Nat
      BY <1>1
    <2>2. Keep(c) = Keep(b) /\ Keep(b) \in {0, 1}
      BY <1>4
    <2>3. n \in 0 .. Len(b)
      BY <1>4
    <2>4. m = Len(d) + n
      BY <2>1, <2>2
    <2>5. QED
      BY <2>1, <2>3, <2>4
  <1> HIDE DEF n, m
  <1>6. Drop(d \o b, m) = Drop(b, n) /\ SubSeq(d \o b, 1, m) = d \o SubSeq(b, 1, n)
    BY <1>4, <1>5, DropPast, TakePast
  <1>7. QED
    BY <1>6 DEF HeldPart, SentPart, n, m, c

LEMMA HitJoin ==
  ASSUME NEW d \in Text, NEW b \in Text, NEW x, NEW at \in Nat, Hit(b, x, at)
  PROVE  /\ After(d \o b, Len(d) + at) = After(b, at)
         /\ Before(d \o b, Len(d) + at) = d \o Before(b, at)
  <1>1. at + 1 \in 0 .. Len(b) /\ at - 1 \in 0 .. Len(b) /\ Len(d) \in Nat
    BY HitParts, EmptyText
  <1>2. /\ (Len(d) + at) + 1 \in Nat /\ (Len(d) + at) + 1 = Len(d) + (at + 1)
        /\ (Len(d) + at) - 1 \in Nat /\ (Len(d) + at) - 1 = Len(d) + (at - 1)
    BY <1>1
  <1>3. Drop(d \o b, (Len(d) + at) + 1) = Drop(b, at + 1)
    BY <1>1, <1>2, DropPast
  <1>4. SubSeq(d \o b, 1, (Len(d) + at) - 1) = d \o SubSeq(b, 1, at - 1)
    BY <1>1, <1>2, TakePast
  <1>5. QED
    BY <1>3, <1>4 DEF After, Before

\* Text without a marker can be emitted before more is scanned.
LEMMA PlainFront ==
  ASSUME NEW i, NEW f, NEW s, NEW d \in Text, NEW b \in Text, NEW g,
         Parts(i, f, s, <<>>, b, g), No(s), Separate(d, b, MarkPiece(i))
  PROVE  b # <<>> => Final(Turn(i, f, s, <<>>, d \o b, g)) =
                     Final(Turn(i, f, s, <<>>, b, g \o Cl(i, d)))
  <1> SUFFICES ASSUME b # <<>> PROVE Final(Turn(i, f, s, <<>>, d \o b, g)) =
                     Final(Turn(i, f, s, <<>>, b, g \o Cl(i, d)))
    OBVIOUS
  <1> DEFINE c == d \o b
             u == Cl(i, d)
             h == g \o u
             x == MarkPiece(i)
             y == TRUE
             j == ~i
  <1>a. y \in BOOLEAN /\ j \in BOOLEAN /\ Yes(y) /\ Opposite(i, j)
    BY DEF Yes, Opposite, Parts
  <1> HIDE DEF y, j
  <1>b. i \in BOOLEAN /\ f \in BOOLEAN /\ s \in BOOLEAN /\ g \in Segs /\ <<>> \in Text
    BY DEF Parts
  <1>c. c \in Text /\ c # <<>>
    <2>1. c \in Text /\ Len(c) = Len(d) + Len(b) /\ Len(d) \in Nat /\ Len(b) \in Nat
      BY JoinFacts
    <2>2. Len(b) # 0
      BY EmptyText
    <2>3. QED
      BY <2>1, <2>2, EmptyText
  <1>d. u \in Segs /\ h \in Segs
    BY <1>b, ClFacts, JoinSegs
  <1> HIDE DEF u, h
  <1>e. Turn(i, f, s, <<>>, c, g) \in Turns /\ Turn(i, f, s, <<>>, b, h) \in Turns
    <2> HIDE DEF c
    <2>1. Parts(i, f, s, <<>>, c, g) /\ Parts(i, f, s, <<>>, b, h)
      BY <1>b, <1>c, <1>d DEF Parts
    <2>2. QED
      BY <2>1, TurnIn
  <1>f. /\ Final(Turn(i, f, s, <<>>, c, g)) = Final(Scan(Turn(i, f, s, <<>>, c, g)))
        /\ Final(Turn(i, f, s, <<>>, b, h)) = Final(Scan(Turn(i, f, s, <<>>, b, h)))
    BY <1>e, FinalFacts
  <1>1. CASE NoHit(b, x)
    <2>1. NoHit(c, x)
      BY <1>1, NoHitShifts
    <2> DEFINE v == SentPart(b)
               k == HeldPart(b)
    <2>2. HeldPart(c) = k /\ SentPart(c) = d \o v
      BY KeepJoin
    <2>3. v \in Text
      BY KeepParts
    <2> HIDE DEF c, v, k
    <2>4. Scan(Turn(i, f, s, <<>>, c, g)) = Turn(i, f, s, k, <<>>, g \o Cl(i, d \o v))
      <3>1. Scan(Turn(i, f, s, <<>>, c, g)) = Turn(i, f, s, HeldPart(c), <<>>, g \o Cl(i, SentPart(c)))
        BY <1>c, <2>1, ScanPlain
      <3>2. QED
        BY <2>2, <3>1
    <2>5. Scan(Turn(i, f, s, <<>>, b, h)) = Turn(i, f, s, k, <<>>, h \o Cl(i, v))
      <3>1. Scan(Turn(i, f, s, <<>>, b, h)) = Turn(i, f, s, HeldPart(b), <<>>, h \o Cl(i, SentPart(b)))
        BY <1>1, ScanPlain
      <3>2. QED
        BY <3>1 DEF v, k
    <2>6. Cl(i, d \o v) = u \o Cl(i, v)
      BY <1>b, <2>3, ClJoin DEF u
    <2>7. Cl(i, v) \in Segs
      BY <1>b, <2>3, ClFacts
    <2>8. g \o (u \o Cl(i, v)) = h \o Cl(i, v)
      BY <1>b, <1>d, <2>7, SegsAssociative DEF h
    <2>9. Scan(Turn(i, f, s, <<>>, c, g)) = Scan(Turn(i, f, s, <<>>, b, h))
      BY <2>4, <2>5, <2>6, <2>8
    <2>10. Final(Turn(i, f, s, <<>>, c, g)) = Final(Turn(i, f, s, <<>>, b, h))
      BY <1>f, <2>9
    <2>11. QED
      BY <2>10 DEF c, h, u
  <1>2. CASE \E at \in Nat : FirstHit(b, x, at)
    <2>1. PICK at \in Nat : FirstHit(b, x, at)
      BY <1>2
    <2> DEFINE v == Before(b, at)
               k == After(b, at)
               n == Len(d) + at
    <2>2. FirstHit(c, x, n)
      BY <2>1, FirstHitShifts
    <2>3. After(c, n) = k /\ Before(c, n) = d \o v
      BY <2>1, HitJoin DEF FirstHit
    <2>4. v \in Text /\ n \in Nat
      BY <2>1, HitParts, EmptyText DEF FirstHit
    <2> HIDE DEF c, v, k, n
    <2>5. Scan(Turn(i, f, s, <<>>, c, g)) = Turn(j, y, y, <<>>, k, g \o Cl(i, d \o v))
      <3>1. Scan(Turn(i, f, s, <<>>, c, g)) = Turn(j, y, y, <<>>, After(c, n), g \o Cl(i, Before(c, n)))
        BY <1>a, <1>c, <2>2, <2>4, ScanMarker
      <3>2. QED
        BY <2>3, <3>1
    <2>6. Scan(Turn(i, f, s, <<>>, b, h)) = Turn(j, y, y, <<>>, k, h \o Cl(i, v))
      <3>1. Scan(Turn(i, f, s, <<>>, b, h)) = Turn(j, y, y, <<>>, After(b, at), h \o Cl(i, Before(b, at)))
        BY <1>a, <2>1, ScanMarker
      <3>2. QED
        BY <3>1 DEF v, k
    <2>7. Cl(i, d \o v) = u \o Cl(i, v)
      BY <1>b, <2>4, ClJoin DEF u
    <2>8. Cl(i, v) \in Segs
      BY <1>b, <2>4, ClFacts
    <2>9. g \o (u \o Cl(i, v)) = h \o Cl(i, v)
      BY <1>b, <1>d, <2>8, SegsAssociative DEF h
    <2>10. Scan(Turn(i, f, s, <<>>, c, g)) = Scan(Turn(i, f, s, <<>>, b, h))
      BY <2>5, <2>6, <2>7, <2>9
    <2>11. Final(Turn(i, f, s, <<>>, c, g)) = Final(Turn(i, f, s, <<>>, b, h))
      BY <1>f, <2>10
    <2>12. QED
      BY <2>11 DEF c, h, u
  <1>3. NoHit(b, x) \/ \E at \in Nat : FirstHit(b, x, at)
    <2> DEFINE n == Index(b, <<"Lead", x>>)
    <2>1. x \in Alphabet
      BY MarkFacts
    <2> HIDE DEF x
    <2>2. /\ n = 0 => \A k \in Nat : ~Hit(b, x, k)
          /\ n # 0 => Hit(b, x, n) /\ \A k \in Nat : Hit(b, x, k) => n <= k
      BY <2>1, IndexIs
    <2> HIDE DEF n
    <2>3. \A k : Hit(b, x, k) => k \in Nat
      BY DEF Hit
    <2>4. QED
      BY <2>2, <2>3 DEF NoHit, FirstHit
  <1>4. QED
    BY <1>1, <1>2, <1>3

-----------------------------------------------------------------------------
(* The scanner's loop over text that goes on.                              *)

\* More text comes to a state of the loop: it is scanned after what is held
\* back and what is not yet scanned.
Cont(t, b) ==
  Turn(t.sc.inThink, t.sc.flipped, t.sc.atStart, <<>>, (t.sc.pending \o t.data) \o b, t.segs)

LEMMA ContIs ==
  ASSUME NEW i, NEW f, NEW s, NEW p, NEW d, NEW g, NEW b
  PROVE  Cont(Turn(i, f, s, p, d, g), b) = Turn(i, f, s, <<>>, (p \o d) \o b, g)
  <1>1. /\ Turn(i, f, s, p, d, g).data = d /\ Turn(i, f, s, p, d, g).segs = g
        /\ Turn(i, f, s, p, d, g).sc.atStart = s /\ Turn(i, f, s, p, d, g).sc.inThink = i
        /\ Turn(i, f, s, p, d, g).sc.pending = p /\ Turn(i, f, s, p, d, g).sc.flipped = f
    BY TurnParts
  <1>2. QED
    BY <1>1 DEF Cont

\* With all of it still to be scanned, or all of it held back.
LEMMA ContOne ==
  ASSUME NEW i, NEW f, NEW s, NEW d \in Text, NEW g, NEW b
  PROVE  /\ Cont(Turn(i, f, s, <<>>, d, g), b) = Turn(i, f, s, <<>>, d \o b, g)
         /\ Cont(Turn(i, f, s, d, <<>>, g), b) = Turn(i, f, s, <<>>, d \o b, g)
  <1>1. d \o <<>> = d /\ <<>> \o d = d
    BY TextEmpty
  <1> DEFINE n == <<>>
  <1> HIDE DEF n
  <1>2. Cont(Turn(i, f, s, n, d, g), b) = Turn(i, f, s, <<>>, (n \o d) \o b, g)
    BY ContIs
  <1>3. Cont(Turn(i, f, s, d, n, g), b) = Turn(i, f, s, <<>>, (d \o n) \o b, g)
    BY ContIs
  <1>4. QED
    BY <1>1, <1>2, <1>3 DEF n

LEMMA MarkIsNoLead ==
  ASSUME NEW i
  PROVE  MarkPiece(i) # "Lead"
  BY DEF MarkPiece

\* Data without a marker can be sent before more comes, but for a last Lead.
LEMMA SentSeparates ==
  ASSUME NEW i, NEW d \in Text, NEW b \in Text, NoHit(d, MarkPiece(i))
  PROVE  /\ Separate(SentPart(d), HeldPart(d) \o b, MarkPiece(i))
         /\ d \o b = SentPart(d) \o (HeldPart(d) \o b)
         /\ HeldPart(d) \o b \in Text
         /\ HeldPart(d) \o b = <<>> => SentPart(d) = d /\ b = <<>>
  <1> DEFINE x == MarkPiece(i)
             n == Len(d) - Keep(d)
             u == SentPart(d)
             v == HeldPart(d)
             c == v \o b
  <1>0. x # "Lead"
    BY MarkIsNoLead
  <1> HIDE DEF x
  <1>1. /\ n \in 0 .. Len(d) /\ u \in Text /\ v \in Text /\ Len(v) = Keep(d) /\ Keep(d) \in {0, 1}
        /\ Len(u) = n /\ Len(d) \in Nat
    BY KeepParts, EmptyText
  <1>2. u = SubSeq(d, 1, n) /\ v = Drop(d, n)
    BY DEF SentPart, HeldPart
  <1> HIDE DEF n, u, v
  <1>3. /\ u \o v = d
        /\ \A k \in 1 .. n : u[k] = d[k]
        /\ \A k \in 1 .. (Len(d) - n) : v[k] = d[n + k]
    <2>1. d \in Seq(Alphabet)
      BY DEF Text
    <2>2. u \o v = d
      BY <1>1, <1>2, <2>1, TakeDrop
    <2>3. \A k \in 1 .. n : u[k] = d[k]
      BY <1>1, <1>2, <2>1, TakeFacts
    <2>4. \A k \in 1 .. (Len(d) - n) : v[k] = d[n + k]
      BY <1>1, <1>2, <2>1, DropFacts
    <2>5. QED
      BY <2>2, <2>3, <2>4
  <1>4. d \o b = u \o c
    BY <1>1, <1>3, TextAssociative
  <1>5. /\ c \in Text /\ Len(c) = Len(v) + Len(b) /\ Len(b) \in Nat
        /\ \A k \in 1 .. Len(v) : c[k] = v[k]
    BY <1>1, JoinFacts
  <1> HIDE DEF c
  <1>6. NoHit(u, x)
    <2>1. ASSUME NEW k \in Nat, Hit(u, x, k) PROVE FALSE
      <3>1. k \in 1 .. (n - 1) /\ u[k] = "Lead" /\ u[k + 1] = x
        BY <1>1, <2>1 DEF Hit
      <3>2. k \in 1 .. n /\ k + 1 \in 1 .. n /\ k \in 1 .. (Len(d) - 1)
        BY <1>1, <3>1
      <3>3. Hit(d, x, k)
        BY <1>3, <3>1, <3>2 DEF Hit
      <3>4. QED
        BY <3>3 DEF NoHit, x
    <2>2. QED
      BY <2>1 DEF NoHit
  <1>7. CASE EndsLead(d)
    <2>1. Keep(d) = 1 /\ d[Len(d)] = "Lead" /\ n + 1 = Len(d)
      BY <1>1, <1>7 DEF Keep, EndsLead, n
    <2>2. 1 \in 1 .. (Len(d) - n) /\ 1 \in 1 .. Len(v) /\ Len(c) # 0
      BY <1>1, <1>5, <2>1
    <2>3. c[1] = "Lead" /\ c # <<>>
      BY <1>3, <1>5, <2>1, <2>2, EmptyText
    <2>4. Separate(u, c, x)
      BY <1>0, <1>6, <2>3 DEF Separate
    <2>5. QED
      BY <1>4, <1>5, <2>3, <2>4 DEF u, v, c, x
  <1>8. CASE ~EndsLead(d)
    <2>1. Keep(d) = 0 /\ n = Len(d)
      BY <1>1, <1>8 DEF Keep, n
    <2>2. v = <<>> /\ u = d
      <3>1. v = <<>>
        BY <1>1, <2>1, EmptyText
      <3>2. u \o <<>> = u
        BY <1>1, TextEmpty
      <3>3. QED
        BY <1>3, <3>1, <3>2
    <2>3. c = b
      BY <2>2, TextEmpty DEF c
    <2>4. Separate(u, c, x)
      BY <1>6, <1>8, <2>2 DEF Separate
    <2>5. QED
      BY <1>4, <1>5, <2>2, <2>3, <2>4 DEF u, v, c, x
  <1>9. QED
    BY <1>7, <1>8

\* More text may come before a turn of the loop or after it.
LEMMA ScanCont ==
  ASSUME NEW i, NEW f, NEW s, NEW d, NEW g, Parts(i, f, s, <<>>, d, g), d # <<>>, NEW b \in Text
  PROVE  Final(Cont(Turn(i, f, s, <<>>, d, g), b)) = Final(Cont(Scan(Turn(i, f, s, <<>>, d, g)), b))
  <1> DEFINE y == TRUE
             w == FALSE
             j == ~i
             c == d \o b
             t == Turn(i, f, s, <<>>, d, g)
             r == Turn(i, f, s, <<>>, c, g)
  <1>a. No(w) /\ Yes(y) /\ Opposite(i, j)
    BY DEF Yes, No, Opposite
  <1> HIDE DEF y, w, j
  <1>b. i \in BOOLEAN /\ f \in BOOLEAN /\ s \in BOOLEAN /\ d \in Text /\ g \in Segs /\ <<>> \in Text
    BY EmptyText DEF Parts
  <1>c. c \in Text /\ c # <<>>
    <2>1. c \in Text /\ Len(c) = Len(d) + Len(b) /\ Len(d) \in Nat /\ Len(b) \in Nat
      BY <1>b, JoinFacts
    <2>2. Len(d) # 0
      BY <1>b, EmptyText
    <2>3. QED
      BY <2>1, <2>2, EmptyText
  <1>d. Cont(t, b) = r
    BY <1>b, ContOne
  <1>e. r \in Turns /\ Final(r) = Final(Scan(r))
    <2> HIDE DEF c
    <2>1. Parts(i, f, s, <<>>, c, g)
      BY <1>b, <1>c DEF Parts
    <2>2. r \in Turns
      BY <2>1, TurnIn
    <2>3. QED
      BY <2>2, FinalFacts
  <1> HIDE DEF t, r
  <1>1. CASE Yes(s) /\ Undecided(stripLeadingSeps(d))
    <2>1. Scan(t) = Turn(i, f, s, d, <<>>, g)
      BY <1>b, <1>1, ScanHeld DEF t
    <2>2. Cont(Scan(t), b) = r
      BY <1>b, <2>1, ContOne DEF r
    <2>3. QED
      BY <1>d, <2>2 DEF t
  <1>2. CASE Yes(s) /\ ~Undecided(stripLeadingSeps(d))
    <2> DEFINE e == stripLeadingSeps(d)
    <2>1. Scan(t) = Turn(i, f, w, <<>>, e, g)
      <3>1. ~Undecided(stripLeadingSeps(d)) /\ Yes(s) /\ No(w) /\ d \in Text
        BY <1>a, <1>b, <1>2
      <3>2. QED
        BY <3>1, ScanDecided DEF t
    <2>2. stripLeadingSeps(c) = e \o b /\ ~Undecided(stripLeadingSeps(c)) /\ e \in Text
      <3>1. stripLeadingSeps(c) = e \o b /\ ~Undecided(e \o b)
        BY <1>b, <1>2, StripSplits
      <3>2. QED
        BY <1>b, <3>1, StripFacts
    <2> HIDE DEF c, e
    <2>3. Scan(r) = Turn(i, f, w, <<>>, stripLeadingSeps(c), g)
      <3>1. ~Undecided(stripLeadingSeps(c)) /\ Yes(s) /\ No(w) /\ c \in Text /\ c # <<>>
        BY <1>a, <1>c, <1>2, <2>2
      <3>2. QED
        BY <3>1, ScanDecided DEF r
    <2>4. Cont(Scan(t), b) = Turn(i, f, w, <<>>, e \o b, g)
      BY <2>1, <2>2, ContOne
    <2>5. Final(Cont(t, b)) = Final(Cont(Scan(t), b))
      BY <1>d, <1>e, <2>2, <2>3, <2>4
    <2>6. QED
      BY <2>5 DEF t
  <1>3. CASE No(s) /\ NoHit(d, MarkPiece(i))
    <2> DEFINE u == SentPart(d)
               v == HeldPart(d)
               k == g \o Cl(i, u)
               e == v \o b
    <2>1. Scan(t) = Turn(i, f, s, v, <<>>, k)
      BY <1>b, <1>3, ScanPlain DEF t
    <2>2. u \in Text /\ v \in Text
      BY <1>b, KeepParts
    <2>3. /\ Separate(u, e, MarkPiece(i)) /\ c = u \o e /\ e \in Text
          /\ e = <<>> => u = d /\ b = <<>>
      <3>1. NoHit(d, MarkPiece(i)) /\ d \in Text
        BY <1>b, <1>3
      <3>2. QED
        BY <3>1, SentSeparates
    <2> HIDE DEF u, v, e
    <2>4. k \in Segs
      BY <1>b, <2>2, ClFacts, JoinSegs
    <2>5. Cont(Scan(t), b) = Turn(i, f, s, <<>>, e, k)
      <3> HIDE DEF k
      <3>1. QED
        BY <2>1, <2>2, ContOne DEF e
    <2>6. CASE e # <<>>
      <3>1. Parts(i, f, s, <<>>, e, g)
        BY <1>b, <2>3 DEF Parts
      <3>2. Final(Turn(i, f, s, <<>>, u \o e, g)) = Final(Turn(i, f, s, <<>>, e, k))
        BY <1>3, <2>2, <2>3, <2>6, <3>1, PlainFront
      <3>3. Final(Cont(t, b)) = Final(Cont(Scan(t), b))
        BY <1>d, <2>3, <2>5, <3>2 DEF r
      <3>4. QED
        BY <3>3 DEF t
    <2>7. CASE e = <<>>
      <3>1. u = d /\ b = <<>> /\ c = d
        BY <1>b, <2>3, <2>7, TextEmpty
      <3>2. v = <<>>
        <4>1. v \o <<>> = v
          BY <2>2, TextEmpty
        <4>2. QED
          BY <2>7, <3>1, <4>1 DEF e
      <3>3. Cont(Scan(t), b) = Scan(t)
        BY <2>1, <2>5, <2>7, <3>2
      <3>4. r = t
        BY <3>1 DEF r, t
      <3>5. Final(Cont(t, b)) = Final(Cont(Scan(t), b))
        BY <1>d, <1>e, <3>3, <3>4
      <3>6. QED
        BY <3>5 DEF t
    <2>8. QED
      BY <2>6, <2>7
  <1>4. CASE No(s) /\ \E at \in Nat : FirstHit(d, MarkPiece(i), at)
    <2>1. PICK at \in Nat : FirstHit(d, MarkPiece(i), at)
      BY <1>4
    <2> DEFINE u == Before(d, at)
               v == After(d, at)
               k == g \o Cl(i, u)
    <2>2. Scan(t) = Turn(j, y, y, <<>>, v, k)
      BY <1>a, <1>b, <1>4, <2>1, ScanMarker DEF t
    <2>3. /\ u \in Text /\ v \in Text /\ at + 1 \in 0 .. Len(d) /\ at - 1 \in 0 .. Len(d)
      BY <1>b, <2>1, HitParts DEF FirstHit
    <2>4. FirstHit(c, MarkPiece(i), at)
      BY <1>b, <2>1, HitStays
    <2>5. After(c, at) = v \o b /\ Before(c, at) = u
      BY <1>b, <2>3, DropJoin, TakeJoin DEF After, Before, Text
    <2> HIDE DEF u, v, k, c
    <2>6. Scan(r) = Turn(j, y, y, <<>>, After(c, at), g \o Cl(i, Before(c, at)))
      BY <1>a, <1>c, <1>4, <2>4, ScanMarker DEF r
    <2>7. Scan(r) = Turn(j, y, y, <<>>, v \o b, k)
      BY <2>5, <2>6 DEF k
    <2>8. Cont(Scan(t), b) = Turn(j, y, y, <<>>, v \o b, k)
      BY <2>2, <2>3, ContOne
    <2>9. Final(Cont(t, b)) = Final(Cont(Scan(t), b))
      BY <1>d, <1>e, <2>7, <2>8
    <2>10. QED
      BY <2>9 DEF t
  <1>5. QED
    BY <1>b, <1>1, <1>2, <1>3, <1>4, ScanCases

\* It may come before the loop or after it.
LEMMA FinalCont ==
  ASSUME NEW t \in Turns, NEW b \in Text
  PROVE  Final(Cont(t, b)) = Final(Cont(Final(t), b))
  <1> DEFINE S == {u \in Turns : Final(Cont(u, b)) = Final(Cont(Final(u), b))}
  <1>1. ASSUME NEW u \in Turns, u.data = <<>> PROVE u \in S
    <2>1. Final(u) = u
      BY <1>1, FinalFacts
    <2>2. QED
      BY <2>1
  <1>2. ASSUME NEW u \in Turns, u.data # <<>>, Scan(u) \in S PROVE u \in S
    <2>1. PICK i, f, s, p, d, g : Parts(i, f, s, p, d, g) /\ u = Turn(i, f, s, p, d, g)
      BY TurnForm
    <2>2. u.data = d
      BY <2>1, TurnParts
    <2>3. p = <<>>
      BY <1>2, <2>1, <2>2 DEF Parts
    <2>4. Parts(i, f, s, <<>>, d, g) /\ u = Turn(i, f, s, <<>>, d, g)
      BY <2>1, <2>3
    <2>5. Final(Cont(u, b)) = Final(Cont(Scan(u), b))
      BY <1>2, <2>2, <2>4, ScanCont
    <2>6. Final(u) = Final(Scan(u))
      BY FinalFacts
    <2>7. Final(Cont(Scan(u), b)) = Final(Cont(Final(Scan(u)), b))
      BY <1>2
    <2>8. QED
      BY <2>5, <2>6, <2>7
  <1> HIDE DEF S
  <1>3. t \in S
    BY <1>1, <1>2, ScanInduction
  <1>4. QED
    BY <1>3 DEF S

-----------------------------------------------------------------------------
(* The scanner and text that is cut.                                       *)

LEMMA TurnTypes ==
  ASSUME NEW t \in Turns
  PROVE  /\ t.sc \in Scanners /\ t.segs \in Segs /\ t.data \in Text
         /\ t.sc.inThink \in BOOLEAN /\ t.sc.flipped \in BOOLEAN /\ t.sc.atStart \in BOOLEAN
         /\ t.sc.pending \in Text
  BY DEF Turns, Scanners

LEMMA FeedFacts ==
  ASSUME NEW sc \in Scanners, NEW chunk \in Text
  PROVE  /\ Feed(sc, chunk) \in Turns /\ Feed(sc, chunk).data = <<>>
         /\ Feed(sc, chunk).sc \in Scanners /\ Feed(sc, chunk).segs \in Segs
  BY FeedIsFinal, FinalFacts, TurnTypes

LEMMA ScannerParts ==
  ASSUME NEW sc \in Scanners
  PROVE  /\ sc.inThink \in BOOLEAN /\ sc.flipped \in BOOLEAN /\ sc.atStart \in BOOLEAN
         /\ sc.pending \in Text
         /\ sc = [inThink |-> sc.inThink, pending |-> sc.pending,
                  flipped |-> sc.flipped, atStart |-> sc.atStart]
  BY DEF Scanners

\* A text that is cut anywhere is classified as if it were not: feeding a
\* scanner two chunks (Scanner.Feed) leaves it as feeding it both at once does,
\* and yields the same classified pieces, whatever it held back in between.
THEOREM FeedSplits ==
  ASSUME NEW sc \in Scanners, NEW a \in Text, NEW b \in Text
  PROVE  /\ Feed(sc, a \o b).sc = Feed(Feed(sc, a).sc, b).sc
         /\ Feed(sc, a \o b).segs = Feed(sc, a).segs \o Feed(Feed(sc, a).sc, b).segs
  <1> DEFINE i == sc.inThink
             f == sc.flipped
             s == sc.atStart
             p == sc.pending
             u == Feed(sc, a)
             v == Feed(u.sc, b)
  <1>1. p \in Text /\ p \o a \in Text /\ a \o b \in Text /\ (p \o a) \o b = p \o (a \o b)
    <2>1. p \in Text
      BY ScannerParts
    <2>2. p \o a \in Text /\ a \o b \in Text
      BY <2>1, JoinFacts
    <2>3. (p \o a) \o b = p \o (a \o b)
      BY <2>1, TextAssociative
    <2>4. QED
      BY <2>1, <2>2, <2>3
  <1>2. /\ u = Final(Joined(sc, a)) /\ Joined(sc, a) \in Turns
        /\ Joined(sc, a) = Turn(i, f, s, <<>>, p \o a, <<>>)
    BY FeedIsFinal
  <1>3. /\ Feed(sc, a \o b) = Final(Joined(sc, a \o b))
        /\ Joined(sc, a \o b) = Turn(i, f, s, <<>>, p \o (a \o b), <<>>)
    BY <1>1, FeedIsFinal
  <1>4. u \in Turns /\ u.data = <<>> /\ u.sc \in Scanners /\ u.segs \in Segs
    BY FeedFacts
  <1> HIDE DEF u, i, f, s, p
  <1>5. /\ v = Final(Joined(u.sc, b)) /\ Joined(u.sc, b) \in Turns
        /\ Joined(u.sc, b) = Turn(u.sc.inThink, u.sc.flipped, u.sc.atStart, <<>>, u.sc.pending \o b, <<>>)
    BY <1>4, FeedIsFinal
  <1>6. Cont(Joined(sc, a), b) = Joined(sc, a \o b)
    <2> DEFINE d == p \o a
               n == <<>>
    <2> HIDE DEF d, n
    <2>a. d \in Text
      BY <1>1 DEF d
    <2>b. Cont(Turn(i, f, s, <<>>, d, n), b) = Turn(i, f, s, <<>>, d \o b, n)
      BY <2>a, ContOne
    <2>1. Cont(Turn(i, f, s, <<>>, p \o a, <<>>), b) = Turn(i, f, s, <<>>, (p \o a) \o b, <<>>)
      BY <2>b DEF d, n
    <2>2. QED
      BY <1>1, <1>2, <1>3, <2>1
  <1>7. Feed(sc, a \o b) = Final(Cont(u, b))
    BY <1>2, <1>3, <1>6, FinalCont
  <1>8. Cont(u, b) = Pre(u.segs, Joined(u.sc, b))
    <2>1. u.sc.pending \in Text
      BY <1>4, ScannerParts
    <2>2. (u.sc.pending \o u.data) \o b = u.sc.pending \o b
      BY <1>4, <2>1, TextEmpty
    <2>3. u.segs \o <<>> = u.segs
      BY <1>4, SegsEmpty
    <2>4. Pre(u.segs, Joined(u.sc, b)) =
            Turn(u.sc.inThink, u.sc.flipped, u.sc.atStart, <<>>, u.sc.pending \o b, u.segs \o <<>>)
      <3> DEFINE n == <<>>
                 q == u.segs
      <3> HIDE DEF n, q
      <3>1. Pre(q, Turn(u.sc.inThink, u.sc.flipped, u.sc.atStart, n, u.sc.pending \o b, n)) =
              Turn(u.sc.inThink, u.sc.flipped, u.sc.atStart, n, u.sc.pending \o b, q \o n)
        BY PreIs
      <3>2. QED
        BY <1>5, <3>1 DEF n, q
    <2>5. QED
      BY <2>2, <2>3, <2>4 DEF Cont
  <1>9. Feed(sc, a \o b) = Pre(u.segs, v)
    BY <1>4, <1>5, <1>7, <1>8, FinalPre
  <1>10. v \in Turns /\ v.sc \in Scanners
    BY <1>4, FeedFacts
  <1> HIDE DEF v
  <1>11. Pre(u.segs, v).sc = v.sc /\ Pre(u.segs, v).segs = u.segs \o v.segs
    <2>1. v.sc = [inThink |-> v.sc.inThink, pending |-> v.sc.pending,
                  flipped |-> v.sc.flipped, atStart |-> v.sc.atStart]
      BY <1>10, ScannerParts
    <2>2. QED
      BY <2>1 DEF Pre, Turn
  <1>12. QED
    BY <1>9, <1>11 DEF u, v

\* Nothing is said of nothing.
LEMMA FeedEmpty ==
  ASSUME NEW sc \in Scanners, sc.pending = <<>>
  PROVE  Feed(sc, <<>>).sc = sc /\ Feed(sc, <<>>).segs = <<>>
  <1>1. <<>> \in Text /\ <<>> \o <<>> = <<>>
    BY EmptyText, TextEmpty
  <1>2. /\ Feed(sc, <<>>) = Final(Joined(sc, <<>>)) /\ Joined(sc, <<>>) \in Turns
        /\ Joined(sc, <<>>) = Turn(sc.inThink, sc.flipped, sc.atStart, <<>>, sc.pending \o <<>>, <<>>)
    BY <1>1, FeedIsFinal
  <1>3. Joined(sc, <<>>) = Turn(sc.inThink, sc.flipped, sc.atStart, <<>>, <<>>, <<>>)
    BY <1>1, <1>2
  <1>4. Feed(sc, <<>>) = Turn(sc.inThink, sc.flipped, sc.atStart, <<>>, <<>>, <<>>)
    <2>1. Joined(sc, <<>>).data = <<>>
      BY <1>3, TurnParts
    <2>2. QED
      BY <1>2, <1>3, <2>1, FinalFacts
  <1>5. sc = [inThink |-> sc.inThink, pending |-> <<>>, flipped |-> sc.flipped, atStart |-> sc.atStart]
    BY ScannerParts
  <1>6. QED
    BY <1>4, <1>5 DEF Turn

\* What a turn keeps of the section it is in: it is left only by a marker,
\* and until then all text is of its kind.
OneSection(t, u) ==
  /\ Yes(t.sc.flipped) => Yes(u.sc.flipped)
  /\ No(u.sc.flipped) =>
       /\ u.sc.inThink = t.sc.inThink
       /\ \E e \in Text : u.segs = t.segs \o Cl(t.sc.inThink, e)

LEMMA ScanSection ==
  ASSUME NEW i, NEW f, NEW s, NEW d, NEW g, Parts(i, f, s, <<>>, d, g), d # <<>>
  PROVE  OneSection(Turn(i, f, s, <<>>, d, g), Scan(Turn(i, f, s, <<>>, d, g)))
  <1> DEFINE y == TRUE
             w == FALSE
             j == ~i
             t == Turn(i, f, s, <<>>, d, g)
  <1>a. No(w) /\ Yes(y) /\ ~No(y) /\ Opposite(i, j)
    BY DEF Yes, No, Opposite
  <1> HIDE DEF y, w, j
  <1>b. i \in BOOLEAN /\ f \in BOOLEAN /\ s \in BOOLEAN /\ d \in Text /\ g \in Segs /\ <<>> \in Text
    BY EmptyText DEF Parts
  <1>c. t.sc.flipped = f /\ t.sc.inThink = i /\ t.segs = g
    BY TurnParts
  <1>d. g = g \o Cl(i, <<>>)
    BY <1>b, ClEmpty, SegsEmpty
  <1> HIDE DEF t
  <1>1. CASE Yes(s) /\ Undecided(stripLeadingSeps(d))
    <2>1. Scan(t) = Turn(i, f, s, d, <<>>, g)
      BY <1>b, <1>1, ScanHeld DEF t
    <2>2. Scan(t).sc.flipped = f /\ Scan(t).sc.inThink = i /\ Scan(t).segs = g
      BY <2>1, TurnParts
    <2>3. OneSection(t, Scan(t))
      BY <1>b, <1>c, <1>d, <2>2 DEF OneSection
    <2>4. QED
      BY <2>3 DEF t
  <1>2. CASE Yes(s) /\ ~Undecided(stripLeadingSeps(d))
    <2>0. Yes(s) /\ ~Undecided(stripLeadingSeps(d)) /\ d \in Text /\ No(w)
      BY <1>a, <1>b, <1>2
    <2>1. Scan(t) = Turn(i, f, w, <<>>, stripLeadingSeps(d), g)
      BY <2>0, ScanDecided DEF t
    <2>2. Scan(t).sc.flipped = f /\ Scan(t).sc.inThink = i /\ Scan(t).segs = g
      BY <2>1, TurnParts
    <2>3. OneSection(t, Scan(t))
      BY <1>b, <1>c, <1>d, <2>2 DEF OneSection
    <2>4. QED
      BY <2>3 DEF t
  <1>3. CASE No(s) /\ NoHit(d, MarkPiece(i))
    <2>1. Scan(t) = Turn(i, f, s, HeldPart(d), <<>>, g \o Cl(i, SentPart(d)))
      BY <1>b, <1>3, ScanPlain DEF t
    <2>2. /\ Scan(t).sc.flipped = f /\ Scan(t).sc.inThink = i
          /\ Scan(t).segs = g \o Cl(i, SentPart(d))
      <3> DEFINE h == g \o Cl(i, SentPart(d))
                 v == HeldPart(d)
                 n == <<>>
      <3> HIDE DEF h, v, n
      <3>1. Scan(t) = Turn(i, f, s, v, n, h)
        BY <2>1 DEF h, v, n
      <3>2. Scan(t).sc.flipped = f /\ Scan(t).sc.inThink = i /\ Scan(t).segs = h
        BY <3>1, TurnParts
      <3>3. QED
        BY <3>2 DEF h
    <2>a. SentPart(d) \in Text
      BY <1>b, KeepParts
    <2>3. OneSection(t, Scan(t))
      BY <1>c, <2>2, <2>a DEF OneSection
    <2>4. QED
      BY <2>3 DEF t
  <1>4. CASE No(s) /\ \E at \in Nat : FirstHit(d, MarkPiece(i), at)
    <2>1. PICK at \in Nat : FirstHit(d, MarkPiece(i), at)
      BY <1>4
    <2>2. Scan(t) = Turn(j, y, y, <<>>, After(d, at), g \o Cl(i, Before(d, at)))
      BY <1>a, <1>b, <1>4, <2>1, ScanMarker DEF t
    <2>3. Scan(t).sc.flipped = y
      BY <2>2, TurnParts
    <2>4. OneSection(t, Scan(t))
      BY <1>a, <2>3 DEF OneSection
    <2>5. QED
      BY <2>4 DEF t
  <1>5. QED
    BY <1>b, <1>1, <1>2, <1>3, <1>4, ScanCases

LEMMA FinalSection ==
  ASSUME NEW t \in Turns
  PROVE  OneSection(t, Final(t))
  <1> DEFINE S == {u \in Turns : OneSection(u, Final(u))}
  <1>1. ASSUME NEW u \in Turns, u.data = <<>> PROVE u \in S
    <2>1. Final(u) = u
      BY <1>1, FinalFacts
    <2>2. u.segs = u.segs \o Cl(u.sc.inThink, <<>>)
      BY TurnTypes, ClEmpty, SegsEmpty
    <2>3. QED
      BY <2>1, <2>2, EmptyText DEF OneSection
  <1>2. ASSUME NEW u \in Turns, u.data # <<>>, Scan(u) \in S PROVE u \in S
    <2> DEFINE v == Scan(u)
               z == Final(u)
    <2>1. PICK i, f, s, p, d, g : Parts(i, f, s, p, d, g) /\ u = Turn(i, f, s, p, d, g)
      BY TurnForm
    <2>2. u.data = d
      BY <2>1, TurnParts
    <2>3. p = <<>>
      BY <1>2, <2>1, <2>2 DEF Parts
    <2>4. Parts(i, f, s, <<>>, d, g) /\ u = Turn(i, f, s, <<>>, d, g)
      BY <2>1, <2>3
    <2>5. OneSection(u, v)
      BY <1>2, <2>2, <2>4, ScanSection
    <2>6. z = Final(v) /\ v \in Turns /\ z \in Turns
      BY FinalFacts
    <2>7. OneSection(v, z)
      BY <1>2, <2>6
    <2> HIDE DEF v, z
    <2>8. /\ v.sc.flipped \in BOOLEAN /\ u.segs \in Segs /\ u.sc.inThink \in BOOLEAN
      BY <2>6, TurnTypes
    <2>9. Yes(u.sc.flipped) => Yes(z.sc.flipped)
      BY <2>5, <2>7 DEF OneSection
    <2>10. ASSUME No(z.sc.flipped)
           PROVE  /\ z.sc.inThink = u.sc.inThink
                  /\ \E e \in Text : z.segs = u.segs \o Cl(u.sc.inThink, e)
      <3>1. No(v.sc.flipped)
        BY <2>7, <2>8, <2>10 DEF OneSection, Yes, No
      <3>2. PICK a \in Text : v.segs = u.segs \o Cl(u.sc.inThink, a)
        BY <2>5, <3>1 DEF OneSection
      <3>3. v.sc.inThink = u.sc.inThink /\ z.sc.inThink = v.sc.inThink
        BY <2>5, <2>7, <2>10, <3>1 DEF OneSection
      <3>4. PICK b \in Text : z.segs = v.segs \o Cl(v.sc.inThink, b)
        BY <2>7, <2>10 DEF OneSection
      <3> DEFINE h == u.sc.inThink
      <3>5. Cl(h, a) \in Segs /\ Cl(h, b) \in Segs /\ Cl(h, a \o b) = Cl(h, a) \o Cl(h, b)
        BY <2>8, ClFacts, ClJoin
      <3>6. z.segs = (u.segs \o Cl(h, a)) \o Cl(h, b)
        BY <3>2, <3>3, <3>4
      <3>7. z.segs = u.segs \o Cl(h, a \o b)
        <4>1. (u.segs \o Cl(h, a)) \o Cl(h, b) = u.segs \o (Cl(h, a) \o Cl(h, b))
          BY <2>8, <3>5, SegsAssociative
        <4>2. QED
          BY <3>5, <3>6, <4>1
      <3>8. a \o b \in Text
        BY JoinFacts
      <3>9. QED
        BY <3>3, <3>7, <3>8
    <2>11. QED
      BY <2>9, <2>10 DEF OneSection, z
  <1> HIDE DEF S
  <1>3. t \in S
    BY <1>1, <1>2, ScanInduction
  <1>4. QED
    BY <1>3 DEF S

\* The same of what is fed to the scanner.
LEMMA FeedSection ==
  ASSUME NEW sc \in Scanners, NEW chunk \in Text
  PROVE  /\ Yes(sc.flipped) => Yes(Feed(sc, chunk).sc.flipped)
         /\ No(Feed(sc, chunk).sc.flipped) =>
              /\ Feed(sc, chunk).sc.inThink = sc.inThink
              /\ \E e \in Text : Feed(sc, chunk).segs = Cl(sc.inThink, e)
  <1> DEFINE u == Feed(sc, chunk)
             t == Joined(sc, chunk)
  <1>1. /\ u = Final(t) /\ t \in Turns
        /\ t = Turn(sc.inThink, sc.flipped, sc.atStart, <<>>, sc.pending \o chunk, <<>>)
    BY FeedIsFinal
  <1>2. t.sc.flipped = sc.flipped /\ t.sc.inThink = sc.inThink /\ t.segs = <<>>
    BY <1>1, TurnParts
  <1> HIDE DEF t, u
  <1>3. OneSection(t, u)
    BY <1>1, FinalSection
  <1>4. \A e \in Text : <<>> \o Cl(sc.inThink, e) = Cl(sc.inThink, e)
    BY ScannerParts, ClFacts, SegsEmpty
  <1>5. QED
    BY <1>2, <1>3, <1>4 DEF OneSection, u

-----------------------------------------------------------------------------
(* Ordinary text.                                                          *)

IsWord(x) == IF x = "Word" THEN 1 ELSE 0

\* A text has the words of its parts.
LEMMA WordsAppend ==
  ASSUME NEW d \in Text, NEW x \in Alphabet
  PROVE  /\ WordsOf(d) \in Nat /\ WordsOf(Append(d, x)) = WordsOf(d) + IsWord(x)
         /\ WordsOf(<<>>) = 0
  <1> DEFINE e == Append(d, x)
             n == Len(d)
             A == {i \in DOMAIN d : d[i] = "Word"}
             B == {i \in DOMAIN e : e[i] = "Word"}
  <1>1. n \in Nat /\ DOMAIN d = 1 .. n
    BY LenProperties DEF Text
  <1>2. /\ e \in Seq(Alphabet) /\ Len(e) = n + 1 /\ e[n + 1] = x
        /\ \A i \in 1 .. n : e[i] = d[i]
    BY AppendProperties DEF Text
  <1>3. DOMAIN e = 1 .. (n + 1)
    <2> HIDE DEF e, n
    <2>1. QED
      BY <1>2, LenProperties
  <1>4. WordsOf(d) = Cardinality(A) /\ WordsOf(e) = Cardinality(B)
    BY DEF WordsOf
  <1> HIDE DEF e, n
  <1>5. IsFiniteSet(A) /\ Cardinality(A) \in Nat
    <2>1. IsFiniteSet(1 .. n)
      BY <1>1, FS_Interval
    <2>2. A \in SUBSET (1 .. n)
      BY <1>1
    <2>3. QED
      BY <2>1, <2>2, FS_Subset, FS_CardinalityType
  <1>6. n + 1 \notin A /\ 1 .. (n + 1) = (1 .. n) \cup {n + 1}
    BY <1>1
  <1>w. WordsOf(<<>>) = 0
    BY FS_EmptySet DEF WordsOf
  <1>7. CASE x = "Word"
    <2>1. B = A \cup {n + 1}
      BY <1>1, <1>2, <1>3, <1>6, <1>7
    <2>2. Cardinality(B) = Cardinality(A) + 1
      BY <1>5, <1>6, <2>1, FS_AddElement
    <2>3. WordsOf(e) = WordsOf(d) + 1 /\ WordsOf(d) \in Nat
      BY <1>4, <1>5, <2>2
    <2>4. QED
      BY <1>w, <1>7, <2>3 DEF IsWord, e
  <1>8. CASE x # "Word"
    <2>1. B = A
      BY <1>1, <1>2, <1>3, <1>6, <1>8
    <2>2. WordsOf(e) = WordsOf(d) + 0 /\ WordsOf(d) \in Nat
      BY <1>4, <1>5, <2>1
    <2>3. QED
      BY <1>w, <1>8, <2>2 DEF IsWord, e
  <1>9. QED
    BY <1>7, <1>8

LEMMA AppendJoin ==
  ASSUME NEW S, NEW a \in Seq(S), NEW b \in Seq(S), NEW x \in S
  PROVE  Append(a \o b, x) = a \o Append(b, x)
  <1>1. <<x>> \in Seq(S) /\ a \o b \in Seq(S)
    BY ConcatProperties
  <1>2. Append(a \o b, x) = (a \o b) \o <<x>> /\ Append(b, x) = b \o <<x>>
    BY <1>1, AppendIsConcat
  <1>3. (a \o b) \o <<x>> = a \o (b \o <<x>>)
    BY <1>1, ConcatAssociative
  <1>4. QED
    BY <1>2, <1>3

LEMMA WordsJoin ==
  ASSUME NEW a \in Text, NEW b \in Text
  PROVE  WordsOf(a \o b) = WordsOf(a) + WordsOf(b) /\ WordsOf(a) \in Nat /\ WordsOf(b) \in Nat
  <1> DEFINE S == {d \in Text : WordsOf(a \o d) = WordsOf(a) + WordsOf(d)}
  <1>0. ASSUME NEW d \in Text PROVE WordsOf(d) \in Nat
    <2>1. "Word" \in Alphabet
      BY DEF Alphabet
    <2>2. QED
      BY <2>1, WordsAppend
  <1>1. <<>> \in S
    <2>1. WordsOf(<<>>) = 0
      BY FS_EmptySet DEF WordsOf
    <2>2. QED
      BY <1>0, <2>1, TextEmpty, EmptyText
  <1>2. ASSUME NEW d \in Text, NEW x \in Alphabet, d \in S PROVE Append(d, x) \in S
    <2> DEFINE e == Append(d, x)
               c == a \o d
    <2>1. e \in Text /\ a \o e = Append(c, x) /\ c \in Text
      BY AppendProperties, AppendJoin, JoinFacts DEF Text
    <2>2. WordsOf(Append(c, x)) = WordsOf(c) + IsWord(x)
      BY <2>1, WordsAppend
    <2>3. WordsOf(e) = WordsOf(d) + IsWord(x)
      BY WordsAppend
    <2>4. WordsOf(c) = WordsOf(a) + WordsOf(d)
      BY <1>2
    <2>5. WordsOf(a) \in Nat /\ WordsOf(d) \in Nat /\ IsWord(x) \in Nat
      BY <1>0 DEF IsWord
    <2> HIDE DEF e, c
    <2>6. WordsOf(a \o e) = WordsOf(a) + WordsOf(e)
      BY <2>1, <2>2, <2>3, <2>4, <2>5
    <2>7. QED
      BY <2>1, <2>6 DEF e
  <1> HIDE DEF S
  <1>3. Text \subseteq S
    BY <1>1, <1>2, InductiveSequences DEF Text
  <1>4. WordsOf(a \o b) = WordsOf(a) + WordsOf(b)
    BY <1>3 DEF S
  <1>5. QED
    BY <1>0, <1>4

LEMMA NoWords ==
  ASSUME NEW d \in Text, \A i \in 1 .. Len(d) : d[i] # "Word"
  PROVE  WordsOf(d) = 0
  <1>1. DOMAIN d = 1 .. Len(d)
    BY LenProperties DEF Text
  <1>2. {i \in DOMAIN d : d[i] = "Word"} = {}
    BY <1>1
  <1>3. QED
    BY <1>2, FS_EmptySet DEF WordsOf

LEMMA WordsParts ==
  ASSUME NEW d \in Text, NEW n \in 0 .. Len(d)
  PROVE  /\ WordsOf(d) = WordsOf(SubSeq(d, 1, n)) + WordsOf(Drop(d, n))
         /\ WordsOf(SubSeq(d, 1, n)) \in Nat /\ WordsOf(Drop(d, n)) \in Nat
         /\ (\A i \in 1 .. n : d[i] # "Word") => WordsOf(SubSeq(d, 1, n)) = 0
  <1> DEFINE a == SubSeq(d, 1, n)
             b == Drop(d, n)
  <1>1. a \in Text /\ Len(a) = n /\ \A i \in 1 .. n : a[i] = d[i]
    BY TakeFacts DEF Text
  <1>2. b \in Text
    BY DropFacts DEF Text
  <1>3. a \o b = d
    BY TakeDrop DEF Text
  <1> HIDE DEF a, b
  <1>4. WordsOf(d) = WordsOf(a) + WordsOf(b) /\ WordsOf(a) \in Nat /\ WordsOf(b) \in Nat
    BY <1>1, <1>2, <1>3, WordsJoin
  <1>5. (\A i \in 1 .. n : d[i] # "Word") => WordsOf(a) = 0
    BY <1>1, NoWords
  <1>6. QED
    BY <1>4, <1>5 DEF a, b

\* A separator has no words.
LEMMA StripWords ==
  ASSUME NEW d \in Text
  PROVE  WordsOf(stripLeadingSeps(d)) = WordsOf(d)
  <1> DEFINE S == {e \in Text : WordsOf(stripLeadingSeps(e)) = WordsOf(e)}
  <1>1. ASSUME NEW e \in Text, ~StartsSep(e) PROVE e \in S
    BY <1>1, StripFacts
  <1>2. ASSUME NEW e \in Text, StartsSep(e), StripOne(e) \in S PROVE e \in S
    <2> DEFINE n == SepLen(e)
    <2>1. n \in 0 .. Len(e) /\ StripOne(e) = Drop(e, n)
      BY <1>2, StripOneIs
    <2>2. \A i \in 1 .. n : e[i] # "Word"
      <3>1. e[1] = "Lead" /\ e[2] = "Sep"
        BY <1>2 DEF StartsSep
      <3>2. n = 2 \/ (n = 3 /\ e[3] = "Gt")
        BY DEF SepLen
      <3>3. \A i \in 1 .. 3 : i = 1 \/ i = 2 \/ i = 3
        OBVIOUS
      <3>4. \A i \in 1 .. 2 : i = 1 \/ i = 2
        OBVIOUS
      <3>5. "Lead" # "Word" /\ "Sep" # "Word" /\ "Gt" # "Word"
        OBVIOUS
      <3> HIDE DEF n
      <3>6. QED
        BY <3>1, <3>2, <3>3, <3>4, <3>5
    <2> HIDE DEF n
    <2>3. /\ WordsOf(e) = WordsOf(SubSeq(e, 1, n)) + WordsOf(Drop(e, n))
          /\ WordsOf(SubSeq(e, 1, n)) = 0 /\ WordsOf(Drop(e, n)) \in Nat
      BY <2>1, <2>2, WordsParts
    <2>4. WordsOf(e) = WordsOf(StripOne(e))
      BY <2>1, <2>3
    <2>5. stripLeadingSeps(e) = stripLeadingSeps(StripOne(e))
      BY StripFacts
    <2>6. QED
      BY <1>2, <2>4, <2>5
  <1> HIDE DEF S
  <1>3. d \in S
    BY <1>1, <1>2, StripInduction
  <1>4. QED
    BY <1>3 DEF S

\* Nor has what may begin one.
LEMMA UndecidedWords ==
  ASSUME NEW d \in Text, Undecided(stripLeadingSeps(d))
  PROVE  WordsOf(d) = 0
  <1> DEFINE r == stripLeadingSeps(d)
  <1>1. r \in Text /\ WordsOf(r) = WordsOf(d)
    BY StripFacts, StripWords
  <1>2. Undecided(r)
    OBVIOUS
  <1> HIDE DEF r
  <1>3. Len(r) <= 2 /\ (Len(r) >= 1 => r[1] = "Lead") /\ (Len(r) = 2 => r[2] = "Sep") /\ Len(r) \in Nat
    BY <1>1, <1>2, UndecidedPieces, EmptyText
  <1>4. ASSUME NEW i \in 1 .. Len(r) PROVE r[i] # "Word"
    <2>0. \A n \in Nat : n <= 2 => \A k \in 1 .. n : (k = 1 /\ n >= 1) \/ (k = 2 /\ n = 2)
      OBVIOUS
    <2>1. (i = 1 /\ Len(r) >= 1) \/ (i = 2 /\ Len(r) = 2)
      BY <1>3, <2>0
    <2>2. "Lead" # "Word" /\ "Sep" # "Word"
      OBVIOUS
    <2>3. CASE i = 1 /\ Len(r) >= 1
      BY <1>3, <2>2, <2>3
    <2>4. CASE i = 2 /\ Len(r) = 2
      BY <1>3, <2>2, <2>4
    <2>5. QED
      BY <2>1, <2>3, <2>4
  <1>5. QED
    BY <1>1, <1>4, NoWords

\* Of data without a marker no word is held back,
LEMMA PlainWords ==
  ASSUME NEW d \in Text
  PROVE  WordsOf(SentPart(d)) = WordsOf(d) /\ WordsOf(HeldPart(d)) = 0
  <1> DEFINE n == Len(d) - Keep(d)
             v == HeldPart(d)
  <1>1. n \in 0 .. Len(d) /\ Keep(d) \in {0, 1} /\ v \in Text /\ Len(v) = Keep(d) /\ Len(d) \in Nat
    BY KeepParts, EmptyText
  <1>2. v = Drop(d, n) /\ SentPart(d) = SubSeq(d, 1, n)
    BY DEF HeldPart, SentPart
  <1>3. ASSUME NEW i \in 1 .. Len(v) PROVE v[i] # "Word"
    <2>1. i = 1 /\ Keep(d) = 1
      BY <1>1
    <2>2. d[Len(d)] = "Lead" /\ n + 1 = Len(d)
      BY <1>1, <2>1 DEF Keep, EndsLead
    <2> HIDE DEF n, v
    <2>3. \A k \in 1 .. (Len(d) - n) : Drop(d, n)[k] = d[n + k]
      BY <1>1, DropFacts DEF Text
    <2>4. 1 \in 1 .. (Len(d) - n)
      BY <1>1, <2>2
    <2>5. v[1] = "Lead"
      BY <1>2, <2>2, <2>3, <2>4
    <2>6. QED
      BY <2>1, <2>5
  <1> HIDE DEF n, v
  <1>4. WordsOf(v) = 0
    BY <1>1, <1>3, NoWords
  <1>5. WordsOf(d) = WordsOf(SubSeq(d, 1, n)) + WordsOf(Drop(d, n)) /\ WordsOf(SubSeq(d, 1, n)) \in Nat
    BY <1>1, WordsParts
  <1>6. QED
    BY <1>2, <1>4, <1>5 DEF v

\* and a marker has none.
LEMMA MarkerWords ==
  ASSUME NEW i, NEW d \in Text, NEW at \in Nat, Hit(d, MarkPiece(i), at)
  PROVE  /\ WordsOf(d) = WordsOf(Before(d, at)) + WordsOf(After(d, at))
         /\ WordsOf(Before(d, at)) \in Nat /\ WordsOf(After(d, at)) \in Nat
  <1> DEFINE m == Drop(d, at - 1)
  <1>0. MarkPiece(i) # "Word"
    BY DEF MarkPiece
  <1>1. /\ at >= 1 /\ at + 1 <= Len(d) /\ at - 1 \in 0 .. Len(d) /\ at + 1 \in 0 .. Len(d)
        /\ Len(d) \in Nat
    BY HitParts, EmptyText
  <1>2. d[at] = "Lead" /\ d[at + 1] = MarkPiece(i)
    BY DEF Hit
  <1>3. /\ m \in Text /\ Len(m) = Len(d) - (at - 1)
        /\ \A k \in 1 .. (Len(d) - (at - 1)) : m[k] = d[(at - 1) + k]
    BY <1>1, DropFacts DEF Text
  <1>4. WordsOf(d) = WordsOf(SubSeq(d, 1, at - 1)) + WordsOf(m) /\ WordsOf(SubSeq(d, 1, at - 1)) \in Nat
    BY <1>1, WordsParts
  <1> HIDE DEF m
  <1>5. 2 \in 0 .. Len(m)
    BY <1>1, <1>3
  <1>6. \A k \in 1 .. 2 : m[k] # "Word"
    <2>1. /\ 1 \in 1 .. (Len(d) - (at - 1)) /\ 2 \in 1 .. (Len(d) - (at - 1))
          /\ (at - 1) + 1 = at /\ (at - 1) + 2 = at + 1
      BY <1>1
    <2>2. m[1] = "Lead" /\ m[2] = MarkPiece(i)
      BY <1>2, <1>3, <2>1
    <2>3. \A k \in 1 .. 2 : k = 1 \/ k = 2
      OBVIOUS
    <2>4. QED
      BY <1>0, <2>2, <2>3
  <1>7. WordsOf(m) = 0 + WordsOf(Drop(m, 2)) /\ WordsOf(Drop(m, 2)) \in Nat
    BY <1>3, <1>5, <1>6, WordsParts
  <1>8. Drop(m, 2) = After(d, at)
    <2> DEFINE a == Before(d, at)
    <2>1. a \o m = d /\ a \in Text /\ Len(a) = at - 1
      <3>1. d \in Seq(Alphabet)
        BY DEF Text
      <3>2. SubSeq(d, 1, at - 1) \o Drop(d, at - 1) = d
        BY <1>1, <3>1, TakeDrop
      <3>3. QED
        BY <3>2, HitParts DEF Before, m
    <2> HIDE DEF a
    <2>2. at + 1 \in Nat /\ at + 1 = Len(a) + 2
      BY <2>1
    <2>3. Drop(a \o m, at + 1) = Drop(m, 2)
      BY <1>3, <1>5, <2>1, <2>2, DropPast
    <2>4. QED
      BY <2>1, <2>3 DEF After
  <1>9. QED
    BY <1>4, <1>7, <1>8 DEF Before

Seg == {"text", "thinking"} \X Alphabet

LEMMA SegIs ==
  Segs = Seq(Seg) /\ \A e \in Seg : e[1] \in {"text", "thinking"} /\ e[2] \in Alphabet
  BY DEF Segs, Seg

\* The text of segments.
LEMMA PiecesFacts ==
  ASSUME NEW g \in Segs
  PROVE  /\ PiecesOf(g) \in Text /\ Len(PiecesOf(g)) = Len(g) /\ Len(g) \in Nat
         /\ \A k \in 1 .. Len(g) : PiecesOf(g)[k] = g[k][2]
  <1>1. g \in Seq(Seg) /\ Len(g) \in Nat /\ DOMAIN g = 1 .. Len(g)
    BY SegIs, LenProperties
  <1>2. \A k \in 1 .. Len(g) : g[k][2] \in Alphabet
    BY <1>1, SegIs, ElementOfSeq
  <1> DEFINE n == Len(g)
  <1>3. PiecesOf(g) = [k \in 1 .. n |-> g[k][2]]
    BY <1>1 DEF PiecesOf
  <1> HIDE DEF n
  <1>4. [k \in 1 .. n |-> g[k][2]] \in Seq(Alphabet) /\ Len([k \in 1 .. n |-> g[k][2]]) = n
    BY <1>1, <1>2 DEF n
  <1>5. \A k \in 1 .. n : [j \in 1 .. n |-> g[j][2]][k] = g[k][2]
    OBVIOUS
  <1>6. QED
    BY <1>1, <1>3, <1>4, <1>5 DEF n, Text

LEMMA PiecesJoin ==
  ASSUME NEW g \in Segs, NEW h \in Segs
  PROVE  PiecesOf(g \o h) = PiecesOf(g) \o PiecesOf(h)
  <1> DEFINE a == PiecesOf(g)
             b == PiecesOf(h)
             c == g \o h
             p == PiecesOf(c)
             q == a \o b
  <1>1. /\ a \in Text /\ Len(a) = Len(g) /\ Len(g) \in Nat /\ \A k \in 1 .. Len(g) : a[k] = g[k][2]
        /\ b \in Text /\ Len(b) = Len(h) /\ Len(h) \in Nat /\ \A k \in 1 .. Len(h) : b[k] = h[k][2]
    BY PiecesFacts
  <1>2. /\ c \in Segs /\ Len(c) = Len(g) + Len(h)
        /\ \A k \in 1 .. (Len(g) + Len(h)) : c[k] = IF k <= Len(g) THEN g[k] ELSE h[k - Len(g)]
    BY SegIs, ConcatProperties
  <1> HIDE DEF a, b, c
  <1>3. p \in Text /\ Len(p) = Len(c) /\ \A k \in 1 .. Len(c) : p[k] = c[k][2]
    BY <1>2, PiecesFacts
  <1>4. /\ q \in Text /\ Len(q) = Len(a) + Len(b)
        /\ \A k \in 1 .. Len(a) : q[k] = a[k]
        /\ \A k \in (Len(a) + 1) .. (Len(a) + Len(b)) : q[k] = b[k - Len(a)]
    BY <1>1, JoinFacts
  <1> HIDE DEF p, q
  <1>5. ASSUME NEW k \in 1 .. Len(p) PROVE p[k] = q[k]
    <2>1. CASE k <= Len(g)
      <3>1. k \in 1 .. Len(c) /\ k \in 1 .. Len(a) /\ k \in 1 .. Len(g) /\ k \in 1 .. (Len(g) + Len(h))
        BY <1>1, <1>2, <1>3, <2>1
      <3>2. QED
        BY <1>1, <1>2, <1>3, <1>4, <2>1, <3>1
    <2>2. CASE ~(k <= Len(g))
      <3>1. /\ k \in 1 .. Len(c) /\ k \in (Len(a) + 1) .. (Len(a) + Len(b))
            /\ k \in 1 .. (Len(g) + Len(h)) /\ k - Len(a) = k - Len(g) /\ k - Len(g) \in 1 .. Len(h)
        BY <1>1, <1>2, <1>3, <2>2
      <3>2. p[k] = h[k - Len(g)][2]
        BY <1>2, <1>3, <2>2, <3>1
      <3>3. q[k] = b[k - Len(g)]
        BY <1>4, <3>1
      <3>4. QED
        BY <1>1, <3>1, <3>2, <3>3
    <2>3. QED
      BY <2>1, <2>2
  <1>6. Len(p) = Len(q)
    BY <1>1, <1>2, <1>3, <1>4
  <1>7. p = q
    BY <1>3, <1>4, <1>5, <1>6, SeqEqual DEF Text
  <1>8. QED
    BY <1>7 DEF p, q, a, b, c

LEMMA PiecesCl ==
  ASSUME NEW i \in BOOLEAN, NEW d \in Text
  PROVE  PiecesOf(Cl(i, d)) = d
  <1> DEFINE g == Cl(i, d)
             p == PiecesOf(g)
  <1>1. g \in Segs /\ Len(g) = Len(d) /\ \A k \in 1 .. Len(d) : g[k] = <<Kind(i), d[k]>>
    BY ClFacts
  <1> HIDE DEF g
  <1>2. p \in Text /\ Len(p) = Len(d) /\ \A k \in 1 .. Len(d) : p[k] = g[k][2]
    BY <1>1, PiecesFacts
  <1> HIDE DEF p
  <1>3. ASSUME NEW k \in 1 .. Len(p) PROVE p[k] = d[k]
    <2>1. k \in 1 .. Len(d)
      BY <1>2
    <2>2. g[k] = <<Kind(i), d[k]>> /\ p[k] = g[k][2]
      BY <1>1, <1>2, <2>1
    <2>3. QED
      BY <2>2
  <1>4. p = d
    BY <1>2, <1>3, SeqEqual DEF Text
  <1>5. QED
    BY <1>4 DEF p, g

\* The words of segments.
SegWords(g) == WordsOf(PiecesOf(g))

LEMMA SegWordsJoin ==
  ASSUME NEW i \in BOOLEAN, NEW g \in Segs, NEW d \in Text
  PROVE  SegWords(g \o Cl(i, d)) = SegWords(g) + WordsOf(d) /\ SegWords(g) \in Nat
  <1>1. Cl(i, d) \in Segs /\ PiecesOf(Cl(i, d)) = d /\ PiecesOf(g) \in Text
    BY ClFacts, PiecesCl, PiecesFacts
  <1>2. PiecesOf(g \o Cl(i, d)) = PiecesOf(g) \o d
    BY <1>1, PiecesJoin
  <1>3. QED
    BY <1>1, <1>2, WordsJoin DEF SegWords

LEMMA WordsNat ==
  ASSUME NEW d \in Text
  PROVE  WordsOf(d) \in Nat /\ WordsOf(<<>>) = 0
  BY WordsJoin, FS_EmptySet, WordsAppend DEF Alphabet

\* A turn drops no word and holds none back.
WordsKept(t, u) ==
  /\ WordsOf(u.sc.pending) = 0
  /\ SegWords(u.segs) + WordsOf(u.data) = SegWords(t.segs) + WordsOf(t.data)

LEMMA KeptBy ==
  ASSUME NEW i, NEW f, NEW s, NEW p, NEW d, NEW g, NEW u, u = Turn(i, f, s, p, d, g), NEW t,
         WordsOf(p) = 0, SegWords(g) + WordsOf(d) = SegWords(t.segs) + WordsOf(t.data)
  PROVE  WordsKept(t, u)
  BY TurnParts DEF WordsKept

LEMMA ScanWords ==
  ASSUME NEW i, NEW f, NEW s, NEW d, NEW g, Parts(i, f, s, <<>>, d, g), d # <<>>
  PROVE  WordsKept(Turn(i, f, s, <<>>, d, g), Scan(Turn(i, f, s, <<>>, d, g)))
  <1> DEFINE y == TRUE
             w == FALSE
             j == ~i
             t == Turn(i, f, s, <<>>, d, g)
             e == <<>>
  <1>a. No(w) /\ Yes(y) /\ Opposite(i, j)
    BY DEF Yes, No, Opposite
  <1> HIDE DEF y, w, j
  <1>b. i \in BOOLEAN /\ f \in BOOLEAN /\ s \in BOOLEAN /\ d \in Text /\ g \in Segs /\ e \in Text
    BY EmptyText DEF Parts
  <1>c. t.data = d /\ t.segs = g
    BY TurnParts
  <1>d. SegWords(g) \in Nat /\ WordsOf(d) \in Nat /\ WordsOf(e) = 0
    BY <1>b, SegWordsJoin, WordsNat
  <1> HIDE DEF t
  <1>1. CASE Yes(s) /\ Undecided(stripLeadingSeps(d))
    <2>0. Yes(s) /\ Undecided(stripLeadingSeps(d)) /\ d \in Text
      BY <1>b, <1>1
    <2>1. Scan(t) = Turn(i, f, s, d, e, g)
      BY <2>0, ScanHeld DEF t
    <2> HIDE DEF e
    <2>2. WordsOf(d) = 0
      BY <2>0, UndecidedWords
    <2>3. SegWords(g) + WordsOf(e) = SegWords(t.segs) + WordsOf(t.data)
      BY <1>c, <1>d, <2>2
    <2>4. QED
      BY <2>1, <2>2, <2>3, KeptBy DEF t
  <1>2. CASE Yes(s) /\ ~Undecided(stripLeadingSeps(d))
    <2> DEFINE r == stripLeadingSeps(d)
    <2>0. Yes(s) /\ ~Undecided(r) /\ d \in Text /\ No(w)
      BY <1>a, <1>b, <1>2
    <2>1. Scan(t) = Turn(i, f, w, e, r, g)
      BY <2>0, ScanDecided DEF t
    <2>2. WordsOf(r) = WordsOf(d)
      BY <2>0, StripWords
    <2> HIDE DEF e, r
    <2>3. SegWords(g) + WordsOf(r) = SegWords(t.segs) + WordsOf(t.data)
      BY <1>c, <1>d, <2>2
    <2>4. QED
      BY <1>d, <2>1, <2>3, KeptBy DEF t
  <1>3. CASE No(s) /\ NoHit(d, MarkPiece(i))
    <2> DEFINE u == SentPart(d)
               v == HeldPart(d)
               h == g \o Cl(i, u)
    <2>0. No(s) /\ NoHit(d, MarkPiece(i)) /\ d \in Text
      BY <1>b, <1>3
    <2>1. Scan(t) = Turn(i, f, s, v, e, h)
      BY <2>0, ScanPlain DEF t
    <2>2. WordsOf(v) = 0 /\ WordsOf(u) = WordsOf(d) /\ u \in Text
      BY <2>0, PlainWords, KeepParts
    <2> HIDE DEF e, u, v
    <2>3. SegWords(h) = SegWords(g) + WordsOf(u)
      BY <1>b, <2>2, SegWordsJoin
    <2> HIDE DEF h
    <2>4. SegWords(h) + WordsOf(e) = SegWords(t.segs) + WordsOf(t.data)
      BY <1>c, <1>d, <2>2, <2>3
    <2>5. QED
      BY <2>1, <2>2, <2>4, KeptBy DEF t
  <1>4. CASE No(s) /\ \E at \in Nat : FirstHit(d, MarkPiece(i), at)
    <2>1. PICK at \in Nat : FirstHit(d, MarkPiece(i), at)
      BY <1>4
    <2> DEFINE u == Before(d, at)
               v == After(d, at)
               h == g \o Cl(i, u)
    <2>2. Scan(t) = Turn(j, y, y, e, v, h)
      BY <1>a, <1>b, <1>4, <2>1, ScanMarker DEF t
    <2>3. Hit(d, MarkPiece(i), at)
      BY <2>1 DEF FirstHit
    <2>4. u \in Text
      BY <1>b, <2>3, HitParts
    <2>5. WordsOf(d) = WordsOf(u) + WordsOf(v) /\ WordsOf(u) \in Nat /\ WordsOf(v) \in Nat
      BY <1>b, <2>3, MarkerWords
    <2> HIDE DEF e, u, v
    <2>6. SegWords(h) = SegWords(g) + WordsOf(u)
      BY <1>b, <2>4, SegWordsJoin
    <2> HIDE DEF h
    <2>7. SegWords(h) + WordsOf(v) = SegWords(t.segs) + WordsOf(t.data)
      BY <1>c, <1>d, <2>5, <2>6
    <2>8. QED
      BY <1>d, <2>2, <2>7, KeptBy DEF t
  <1>5. QED
    BY <1>b, <1>1, <1>2, <1>3, <1>4, ScanCases

\* Nor does the loop.
LEMMA FinalWords ==
  ASSUME NEW t \in Turns, WordsOf(t.sc.pending) = 0
  PROVE  WordsKept(t, Final(t))
  <1> DEFINE S == {u \in Turns : WordsOf(u.sc.pending) = 0 => WordsKept(u, Final(u))}
  <1>1. ASSUME NEW u \in Turns, u.data = <<>> PROVE u \in S
    <2>1. Final(u) = u
      BY <1>1, FinalFacts
    <2>2. QED
      BY <2>1 DEF WordsKept
  <1>2. ASSUME NEW u \in Turns, u.data # <<>>, Scan(u) \in S PROVE u \in S
    <2>1. PICK i, f, s, p, d, g : Parts(i, f, s, p, d, g) /\ u = Turn(i, f, s, p, d, g)
      BY TurnForm
    <2>2. u.data = d
      BY <2>1, TurnParts
    <2>3. p = <<>>
      BY <1>2, <2>1, <2>2 DEF Parts
    <2>4. Parts(i, f, s, <<>>, d, g) /\ u = Turn(i, f, s, <<>>, d, g)
      BY <2>1, <2>3
    <2>5. WordsKept(u, Scan(u))
      BY <1>2, <2>2, <2>4, ScanWords
    <2>6. Final(u) = Final(Scan(u))
      BY FinalFacts
    <2>7. WordsKept(Scan(u), Final(u))
      BY <1>2, <2>5, <2>6 DEF WordsKept
    <2>8. WordsKept(u, Final(u))
      BY <2>5, <2>7 DEF WordsKept
    <2>9. QED
      BY <2>8
  <1> HIDE DEF S
  <1>3. t \in S
    BY <1>1, <1>2, ScanInduction
  <1>4. QED
    BY <1>3 DEF S

LEMMA FeedWords ==
  ASSUME NEW sc \in Scanners, NEW chunk \in Text, WordsOf(sc.pending) = 0
  PROVE  /\ WordsOf(Feed(sc, chunk).sc.pending) = 0
         /\ SegWords(Feed(sc, chunk).segs) = WordsOf(chunk)
  <1> DEFINE u == Feed(sc, chunk)
             t == Joined(sc, chunk)
             p == sc.pending
             e == <<>>
  <1>1. /\ u = Final(t) /\ t \in Turns
        /\ t = Turn(sc.inThink, sc.flipped, sc.atStart, e, p \o chunk, e)
    BY FeedIsFinal
  <1>2. t.sc.pending = e /\ t.segs = e /\ t.data = p \o chunk
    <2> HIDE DEF e, p, t
    <2> DEFINE d == p \o chunk
    <2> HIDE DEF d
    <2>1. t = Turn(sc.inThink, sc.flipped, sc.atStart, e, d, e)
      BY <1>1 DEF d
    <2>2. t.sc.pending = e /\ t.segs = e /\ t.data = d
      BY <2>1, TurnParts
    <2>3. QED
      BY <2>2 DEF d
  <1>3. p \in Text /\ WordsOf(e) = 0 /\ u.segs \in Segs /\ u.data = <<>>
    BY ScannerParts, WordsNat, FeedFacts
  <1>4. WordsOf(p \o chunk) = WordsOf(chunk) /\ WordsOf(chunk) \in Nat
    BY <1>3, WordsJoin
  <1>5. SegWords(e) = 0
    <2>1. PiecesOf(<<>>) = <<>>
      BY DEF PiecesOf
    <2>2. QED
      BY <1>3, <2>1 DEF SegWords
  <1>6. SegWords(u.segs) \in Nat
    BY <1>3, PiecesFacts, WordsNat DEF SegWords
  <1> HIDE DEF u, t, p, e
  <1>7. WordsKept(t, u)
    BY <1>1, <1>2, <1>3, FinalWords
  <1>8. WordsOf(u.sc.pending) = 0 /\ SegWords(u.segs) = WordsOf(chunk)
    BY <1>2, <1>3, <1>4, <1>5, <1>6, <1>7 DEF WordsKept, e
  <1>9. QED
    BY <1>8 DEF u

-----------------------------------------------------------------------------
(* Blocks.                                                                 *)

Kinds == {"text", "thinking", "tool"}

Block == [kind : Kinds, text : Text]

Blocks == Seq(Block)

\* A block, by its parts.
Blk(k, d) == [kind |-> k, text |-> d]

LEMMA BlockParts ==
  ASSUME NEW b \in Block
  PROVE  b.kind \in Kinds /\ b.text \in Text /\ b = Blk(b.kind, b.text)
  BY DEF Block, Blk

LEMMA BlkIn ==
  ASSUME NEW k \in Kinds, NEW d \in Text
  PROVE  Blk(k, d) \in Block /\ Blk(k, d).kind = k /\ Blk(k, d).text = d
  BY DEF Block, Blk

LEMMA LastBlock ==
  ASSUME NEW B \in Blocks, B # <<>>
  PROVE  \E r \in Blocks, b \in Block : B = Append(r, b)
  BY SequenceEmptyOrAppend DEF Blocks

LEMMA AppendBlock ==
  ASSUME NEW B \in Blocks, NEW b \in Block
  PROVE  /\ Append(B, b) \in Blocks /\ Append(B, b) # <<>>
         /\ Len(Append(B, b)) = Len(B) + 1 /\ Len(B) \in Nat
         /\ Append(B, b)[Len(B) + 1] = b
         /\ \A i \in 1 .. Len(B) : Append(B, b)[i] = B[i]
  BY AppendProperties, LenProperties DEF Blocks

\* The last block gets more text.
LEMMA ExtendLast ==
  ASSUME NEW B \in Blocks, NEW b \in Block, NEW d \in Text
  PROVE  /\ Extend(Append(B, b), d) = Append(B, Blk(b.kind, b.text \o d))
         /\ Blk(b.kind, b.text \o d) \in Block
  <1> DEFINE c == Blk(b.kind, b.text \o d)
             A == Append(B, b)
             p == [A EXCEPT ![Len(A)] = c]
             q == Append(B, c)
             n == Len(B)
  <1>1. c \in Block
    <2>1. b.kind \in Kinds /\ b.text \in Text
      BY BlockParts
    <2>2. b.text \o d \in Text
      BY <2>1, JoinFacts
    <2>3. QED
      BY <2>1, <2>2, BlkIn
  <1>2. /\ A \in Seq(Block) /\ Len(A) = n + 1 /\ n \in Nat /\ A[n + 1] = b
        /\ \A i \in 1 .. n : A[i] = B[i]
    BY AppendBlock DEF Blocks
  <1>3. Extend(A, d) = p
    <2>1. A[Len(A)] = b
      BY <1>2
    <2>2. QED
      BY <2>1 DEF Extend, Blk
  <1> HIDE DEF c, A, n
  <1>4. /\ q \in Seq(Block) /\ Len(q) = n + 1 /\ q[n + 1] = c
        /\ \A i \in 1 .. n : q[i] = B[i]
    BY <1>1, AppendBlock DEF Blocks, n
  <1>5. DOMAIN A = 1 .. (n + 1)
    BY <1>2, LenProperties
  <1>6. p = [i \in 1 .. (n + 1) |-> IF i = n + 1 THEN c ELSE A[i]]
    BY <1>2, <1>5
  <1>7. p \in Seq(Block) /\ Len(p) = n + 1
    <2>1. \A i \in 1 .. (n + 1) : (IF i = n + 1 THEN c ELSE A[i]) \in Block
      BY <1>1, <1>2, ElementOfSeq
    <2>2. n + 1 \in Nat
      BY <1>2
    <2> DEFINE m == n + 1
    <2> HIDE DEF m
    <2>3. /\ [i \in 1 .. m |-> IF i = m THEN c ELSE A[i]] \in Seq(Block)
          /\ Len([i \in 1 .. m |-> IF i = m THEN c ELSE A[i]]) = m
      BY <2>1, <2>2 DEF m
    <2>4. QED
      BY <1>6, <2>3 DEF m
  <1> HIDE DEF q
  <1>8. ASSUME NEW i \in 1 .. Len(p) PROVE p[i] = q[i]
    <2>1. i \in 1 .. (n + 1)
      BY <1>7
    <2>2. p[i] = IF i = n + 1 THEN c ELSE A[i]
      BY <1>6, <2>1
    <2>3. i = n + 1 \/ i \in 1 .. n
      BY <1>2, <2>1
    <2>4. n + 1 \notin 1 .. n
      BY <1>2
    <2>5. QED
      BY <1>2, <1>4, <2>2, <2>3, <2>4
  <1>9. p = q
    <2> HIDE DEF p
    <2>1. QED
      BY <1>4, <1>7, <1>8, SeqEqual
  <1>10. QED
    BY <1>1, <1>3, <1>9 DEF A, c, q

\* A segment opens a block or adds to the last one.
LEMMA MergeIs ==
  ASSUME NEW B \in Blocks, NEW g \in Seg
  PROVE  /\ mergeSegment(B, g) \in Blocks
         /\ B = <<>> => mergeSegment(B, g) = Append(B, Blk(g[1], <<g[2]>>))
         /\ \A r \in Blocks : \A b \in Block : B = Append(r, b) =>
              mergeSegment(B, g) = IF b.kind = g[1] THEN Append(r, Blk(b.kind, b.text \o <<g[2]>>))
                                   ELSE Append(B, Blk(g[1], <<g[2]>>))
  <1> DEFINE d == <<g[2]>>
             c == Blk(g[1], d)
  <1>1. g[1] \in Kinds /\ g[2] \in Alphabet
    BY SegIs DEF Kinds
  <1>2. d \in Text
    BY <1>1 DEF Text
  <1>3. c \in Block /\ Append(B, c) \in Blocks
    BY <1>1, <1>2, BlkIn, AppendBlock
  <1>4. mergeSegment(B, g) = IF B # <<>> /\ B[Len(B)].kind = g[1] THEN Extend(B, d) ELSE Append(B, c)
    BY DEF mergeSegment, Blk
  <1> HIDE DEF c, d
  <1>5. ASSUME NEW r \in Blocks, NEW b \in Block, B = Append(r, b)
        PROVE  /\ mergeSegment(B, g) = IF b.kind = g[1] THEN Append(r, Blk(b.kind, b.text \o d))
                                       ELSE Append(B, c)
               /\ mergeSegment(B, g) \in Blocks
    <2>1. B # <<>> /\ B[Len(B)] = b
      <3>1. Append(r, b) # <<>> /\ Len(Append(r, b)) = Len(r) + 1 /\ Append(r, b)[Len(r) + 1] = b
        BY AppendBlock
      <3>2. QED
        BY <1>5, <3>1
    <2>2. Extend(B, d) = Append(r, Blk(b.kind, b.text \o d)) /\ Blk(b.kind, b.text \o d) \in Block
      BY <1>2, <1>5, ExtendLast
    <2>3. Append(r, Blk(b.kind, b.text \o d)) \in Blocks
      BY <2>2, AppendBlock
    <2>4. QED
      BY <1>3, <1>4, <2>1, <2>2, <2>3
  <1>6. B = <<>> => mergeSegment(B, g) = Append(B, c)
    BY <1>4
  <1>7. mergeSegment(B, g) \in Blocks
    BY <1>3, <1>5, <1>6, LastBlock
  <1>8. QED
    BY <1>5, <1>6, <1>7 DEF c, d

-----------------------------------------------------------------------------
(* The loops over blocks and segments.                                     *)

\* The loops of the model over a sequence, each as a fold.
MergeLoop == [g \in Seg |-> [B \in Blocks |-> mergeSegment(B, g)]]

LEMMA MergeStep ==
  /\ MergeLoop \in [Seg -> [Blocks -> Blocks]] /\ <<>> \in Blocks
  /\ \A g \in Seg : \A B \in Blocks : MergeLoop[g][B] = mergeSegment(B, g)
  BY MergeIs, EmptySeq DEF MergeLoop, Blocks

LEMMA MergeFold ==
  ASSUME NEW s \in Seq(Seg)
  PROVE  mergeSegments(s) = FoldEnd(Blocks, MergeLoop, <<>>, s)
  <1> DEFINE n == CHOOSE f : f = [k \in 0 .. Len(s) |-> IF k = 0 THEN <<>> ELSE mergeSegment(f[k - 1], s[k])]
  <1>0. MergeLoop \in [Seg -> [Blocks -> Blocks]] /\ <<>> \in Blocks /\ Len(s) \in Nat
    BY MergeStep, LenProperties
  <1>1. PICK h : Folds(Blocks, MergeLoop, <<>>, s, h)
    BY <1>0, FoldsExist
  <1>2. /\ h \in [0 .. Len(s) -> Blocks] /\ h[0] = <<>>
        /\ \A k \in 1 .. Len(s) : h[k] = MergeLoop[s[k]][h[k - 1]]
    BY <1>1 DEF Folds
  <1>3. ASSUME NEW k \in 1 .. Len(s) PROVE h[k] = mergeSegment(h[k - 1], s[k])
    <2>1. k - 1 \in 0 .. Len(s) /\ s[k] \in Seg
      BY <1>0, ElementOfSeq
    <2>2. h[k - 1] \in Blocks
      BY <1>2, <2>1
    <2>3. MergeLoop[s[k]][h[k - 1]] = mergeSegment(h[k - 1], s[k])
      BY <2>1, <2>2, MergeStep
    <2>4. QED
      BY <1>2, <2>3
  <1>4. h = [k \in 0 .. Len(s) |-> IF k = 0 THEN <<>> ELSE mergeSegment(h[k - 1], s[k])]
    <2>1. ASSUME NEW k \in 0 .. Len(s) PROVE h[k] = IF k = 0 THEN <<>> ELSE mergeSegment(h[k - 1], s[k])
      <3>1. k = 0 \/ k \in 1 .. Len(s)
        BY <1>0
      <3>2. QED
        BY <1>2, <1>3, <3>1
    <2>2. QED
      BY <1>2, <2>1
  <1>5. n = [k \in 0 .. Len(s) |-> IF k = 0 THEN <<>> ELSE mergeSegment(n[k - 1], s[k])]
    BY <1>4
  <1>6. mergeSegments(s) = n[Len(s)]
    BY DEF mergeSegments
  <1> HIDE DEF n
  <1>7. n[0] = <<>>
    BY <1>0, <1>5
  <1>8. ASSUME NEW k \in 1 .. Len(s) PROVE n[k] = mergeSegment(n[k - 1], s[k])
    <2>1. k \in 0 .. Len(s) /\ k # 0
      BY <1>0
    <2>2. QED
      BY <1>5, <2>1
  <1>9. ASSUME NEW k \in Nat PROVE k <= Len(s) => n[k] = h[k]
    <2> DEFINE S == {i \in Nat : i <= Len(s) => n[i] = h[i]}
    <2>1. 0 \in S
      BY <1>2, <1>7
    <2>2. ASSUME NEW i \in Nat, i \in S PROVE i + 1 \in S
      <3>1. CASE i + 1 <= Len(s)
        <4>1. i + 1 \in 1 .. Len(s) /\ (i + 1) - 1 = i /\ i <= Len(s)
          BY <1>0, <3>1
        <4>2. n[i] = h[i]
          BY <2>2, <4>1
        <4>3. n[i + 1] = mergeSegment(n[i], s[i + 1]) /\ h[i + 1] = mergeSegment(h[i], s[i + 1])
          BY <1>3, <1>8, <4>1
        <4>4. QED
          BY <4>2, <4>3
      <3>2. CASE ~(i + 1 <= Len(s))
        BY <3>2
      <3>3. QED
        BY <3>1, <3>2
    <2> HIDE DEF S
    <2>3. k \in S
      BY <2>1, <2>2, InductiveSet
    <2>4. QED
      BY <2>3 DEF S
  <1>10. h[Len(s)] = FoldEnd(Blocks, MergeLoop, <<>>, s)
    BY <1>0, <1>1, FoldEndOf
  <1>11. n[Len(s)] = h[Len(s)]
    <2>1. Len(s) <= Len(s)
      BY <1>0
    <2>2. QED
      BY <1>0, <1>9, <2>1
  <1>12. QED
    BY <1>6, <1>10, <1>11

\* The blocks of segments.
LEMMA MergeFacts ==
  ASSUME NEW s \in Seq(Seg)
  PROVE  /\ mergeSegments(s) \in Blocks /\ mergeSegments(<<>>) = <<>>
         /\ \A a \in Seg : mergeSegments(Append(s, a)) = mergeSegment(mergeSegments(s), a)
  <1>0. MergeLoop \in [Seg -> [Blocks -> Blocks]] /\ <<>> \in Blocks /\ <<>> \in Seq(Seg)
    BY MergeStep, EmptySeq
  <1>1. mergeSegments(s) = FoldEnd(Blocks, MergeLoop, <<>>, s)
    BY MergeFold
  <1>2. mergeSegments(<<>>) = FoldEnd(Blocks, MergeLoop, <<>>, <<>>)
    BY <1>0, MergeFold
  <1>3. FoldEnd(Blocks, MergeLoop, <<>>, s) \in Blocks /\ FoldEnd(Blocks, MergeLoop, <<>>, <<>>) = <<>>
    BY <1>0, FoldEndIn, FoldEndEmpty
  <1>4. ASSUME NEW a \in Seg PROVE mergeSegments(Append(s, a)) = mergeSegment(mergeSegments(s), a)
    <2>1. Append(s, a) \in Seq(Seg)
      BY AppendProperties
    <2>2. mergeSegments(Append(s, a)) = FoldEnd(Blocks, MergeLoop, <<>>, Append(s, a))
      BY <2>1, MergeFold
    <2>3. FoldEnd(Blocks, MergeLoop, <<>>, Append(s, a)) = MergeLoop[a][FoldEnd(Blocks, MergeLoop, <<>>, s)]
      <3> DEFINE X == Blocks
                 z == <<>>
      <3> HIDE DEF X, z
      <3>1. MergeLoop \in [Seg -> [X -> X]] /\ z \in X
        BY <1>0 DEF X, z
      <3>2. FoldEnd(X, MergeLoop, z, Append(s, a)) = MergeLoop[a][FoldEnd(X, MergeLoop, z, s)]
        BY <3>1, FoldEndAppend
      <3>3. QED
        BY <3>2 DEF X, z
    <2>4. MergeLoop[a][mergeSegments(s)] = mergeSegment(mergeSegments(s), a)
      BY <1>1, <1>3, MergeStep
    <2>5. QED
      BY <1>1, <2>2, <2>3, <2>4
  <1>5. QED
    BY <1>1, <1>2, <1>3, <1>4

KeepOne(B, b) == B \o (IF b.text = <<>> THEN <<>> ELSE <<b>>)

KeepLoop == [b \in Block |-> [B \in Blocks |-> KeepOne(B, b)]]

LEMMA KeepStep ==
  /\ KeepLoop \in [Block -> [Blocks -> Blocks]] /\ <<>> \in Blocks
  /\ \A b \in Block : \A B \in Blocks : KeepLoop[b][B] = KeepOne(B, b)
  <1>1. <<>> \in Blocks
    BY EmptySeq DEF Blocks
  <1>2. ASSUME NEW b \in Block, NEW B \in Blocks PROVE KeepOne(B, b) \in Blocks
    <2>1. <<b>> \in Seq(Block)
      OBVIOUS
    <2>2. (IF b.text = <<>> THEN <<>> ELSE <<b>>) \in Seq(Block)
      BY <1>1, <2>1 DEF Blocks
    <2>3. QED
      BY <2>2, ConcatProperties DEF KeepOne, Blocks
  <1>3. QED
    BY <1>1, <1>2 DEF KeepLoop

LEMMA KeepFold ==
  ASSUME NEW s \in Seq(Block)
  PROVE  NonEmpty(s) = FoldEnd(Blocks, KeepLoop, <<>>, s)
  <1> DEFINE n == CHOOSE f : f = [k \in 0 .. Len(s) |-> IF k = 0 THEN <<>> ELSE KeepOne(f[k - 1], s[k])]
  <1>0. KeepLoop \in [Block -> [Blocks -> Blocks]] /\ <<>> \in Blocks /\ Len(s) \in Nat
    BY KeepStep, LenProperties
  <1>1. PICK h : Folds(Blocks, KeepLoop, <<>>, s, h)
    BY <1>0, FoldsExist
  <1>2. /\ h \in [0 .. Len(s) -> Blocks] /\ h[0] = <<>>
        /\ \A k \in 1 .. Len(s) : h[k] = KeepLoop[s[k]][h[k - 1]]
    BY <1>1 DEF Folds
  <1>3. ASSUME NEW k \in 1 .. Len(s) PROVE h[k] = KeepOne(h[k - 1], s[k])
    <2>1. k - 1 \in 0 .. Len(s) /\ s[k] \in Block
      BY <1>0, ElementOfSeq
    <2>2. h[k - 1] \in Blocks
      BY <1>2, <2>1
    <2>3. KeepLoop[s[k]][h[k - 1]] = KeepOne(h[k - 1], s[k])
      BY <2>1, <2>2, KeepStep
    <2>4. QED
      BY <1>2, <2>3
  <1>4. h = [k \in 0 .. Len(s) |-> IF k = 0 THEN <<>> ELSE KeepOne(h[k - 1], s[k])]
    <2>1. ASSUME NEW k \in 0 .. Len(s) PROVE h[k] = IF k = 0 THEN <<>> ELSE KeepOne(h[k - 1], s[k])
      <3>1. k = 0 \/ k \in 1 .. Len(s)
        BY <1>0
      <3>2. QED
        BY <1>2, <1>3, <3>1
    <2>2. QED
      BY <1>2, <2>1
  <1>5. n = [k \in 0 .. Len(s) |-> IF k = 0 THEN <<>> ELSE KeepOne(n[k - 1], s[k])]
    BY <1>4
  <1>6. NonEmpty(s) = n[Len(s)]
    BY DEF NonEmpty, KeepOne
  <1> HIDE DEF n
  <1>7. n[0] = <<>>
    BY <1>0, <1>5
  <1>8. ASSUME NEW k \in 1 .. Len(s) PROVE n[k] = KeepOne(n[k - 1], s[k])
    <2>1. k \in 0 .. Len(s) /\ k # 0
      BY <1>0
    <2>2. QED
      BY <1>5, <2>1
  <1>9. ASSUME NEW k \in Nat PROVE k <= Len(s) => n[k] = h[k]
    <2> DEFINE S == {i \in Nat : i <= Len(s) => n[i] = h[i]}
    <2>1. 0 \in S
      BY <1>2, <1>7
    <2>2. ASSUME NEW i \in Nat, i \in S PROVE i + 1 \in S
      <3>1. CASE i + 1 <= Len(s)
        <4>1. i + 1 \in 1 .. Len(s) /\ (i + 1) - 1 = i /\ i <= Len(s)
          BY <1>0, <3>1
        <4>2. n[i] = h[i]
          BY <2>2, <4>1
        <4>3. n[i + 1] = KeepOne(n[i], s[i + 1]) /\ h[i + 1] = KeepOne(h[i], s[i + 1])
          BY <1>3, <1>8, <4>1
        <4>4. QED
          BY <4>2, <4>3
      <3>2. CASE ~(i + 1 <= Len(s))
        BY <3>2
      <3>3. QED
        BY <3>1, <3>2
    <2> HIDE DEF S
    <2>3. k \in S
      BY <2>1, <2>2, InductiveSet
    <2>4. QED
      BY <2>3 DEF S
  <1>10. h[Len(s)] = FoldEnd(Blocks, KeepLoop, <<>>, s)
    BY <1>0, <1>1, FoldEndOf
  <1>11. n[Len(s)] = h[Len(s)]
    <2>1. Len(s) <= Len(s)
      BY <1>0
    <2>2. QED
      BY <1>0, <1>9, <2>1
  <1>12. QED
    BY <1>6, <1>10, <1>11

\* The blocks that are not empty.
LEMMA KeepFacts ==
  ASSUME NEW s \in Seq(Block)
  PROVE  /\ NonEmpty(s) \in Blocks /\ NonEmpty(<<>>) = <<>>
         /\ \A a \in Block : NonEmpty(Append(s, a)) = KeepOne(NonEmpty(s), a)
  <1>0. KeepLoop \in [Block -> [Blocks -> Blocks]] /\ <<>> \in Blocks /\ <<>> \in Seq(Block)
    BY KeepStep, EmptySeq
  <1>1. NonEmpty(s) = FoldEnd(Blocks, KeepLoop, <<>>, s)
    BY KeepFold
  <1>2. NonEmpty(<<>>) = FoldEnd(Blocks, KeepLoop, <<>>, <<>>)
    BY <1>0, KeepFold
  <1>3. FoldEnd(Blocks, KeepLoop, <<>>, s) \in Blocks /\ FoldEnd(Blocks, KeepLoop, <<>>, <<>>) = <<>>
    BY <1>0, FoldEndIn, FoldEndEmpty
  <1>4. ASSUME NEW a \in Block PROVE NonEmpty(Append(s, a)) = KeepOne(NonEmpty(s), a)
    <2>1. Append(s, a) \in Seq(Block)
      BY AppendProperties
    <2>2. NonEmpty(Append(s, a)) = FoldEnd(Blocks, KeepLoop, <<>>, Append(s, a))
      BY <2>1, KeepFold
    <2>3. FoldEnd(Blocks, KeepLoop, <<>>, Append(s, a)) = KeepLoop[a][FoldEnd(Blocks, KeepLoop, <<>>, s)]
      <3> DEFINE X == Blocks
                 z == <<>>
      <3> HIDE DEF X, z
      <3>1. KeepLoop \in [Block -> [X -> X]] /\ z \in X
        BY <1>0 DEF X, z
      <3>2. FoldEnd(X, KeepLoop, z, Append(s, a)) = KeepLoop[a][FoldEnd(X, KeepLoop, z, s)]
        BY <3>1, FoldEndAppend
      <3>3. QED
        BY <3>2 DEF X, z
    <2>4. KeepLoop[a][NonEmpty(s)] = KeepOne(NonEmpty(s), a)
      BY <1>1, <1>3, KeepStep
    <2>5. QED
      BY <1>1, <2>2, <2>3, <2>4
  <1>5. QED
    BY <1>1, <1>2, <1>3, <1>4

CountOne(n, b) == n + WordsOf(b.text)

CountLoop == [b \in Block |-> [n \in Nat |-> CountOne(n, b)]]

LEMMA CountStep ==
  /\ CountLoop \in [Block -> [Nat -> Nat]] /\ 0 \in Nat
  /\ \A b \in Block : \A n \in Nat : CountLoop[b][n] = CountOne(n, b)
  <1>1. ASSUME NEW b \in Block, NEW n \in Nat PROVE CountOne(n, b) \in Nat
    <2>1. WordsOf(b.text) \in Nat
      BY BlockParts, WordsNat
    <2>2. QED
      BY <2>1 DEF CountOne
  <1>2. QED
    BY <1>1 DEF CountLoop

LEMMA CountFold ==
  ASSUME NEW s \in Seq(Block)
  PROVE  Words(s) = FoldEnd(Nat, CountLoop, 0, s)
  <1> DEFINE n == CHOOSE f : f = [k \in 0 .. Len(s) |-> IF k = 0 THEN 0 ELSE CountOne(f[k - 1], s[k])]
  <1>0. CountLoop \in [Block -> [Nat -> Nat]] /\ 0 \in Nat /\ Len(s) \in Nat
    BY CountStep, LenProperties
  <1>1. PICK h : Folds(Nat, CountLoop, 0, s, h)
    BY <1>0, FoldsExist
  <1>2. /\ h \in [0 .. Len(s) -> Nat] /\ h[0] = 0
        /\ \A k \in 1 .. Len(s) : h[k] = CountLoop[s[k]][h[k - 1]]
    BY <1>1 DEF Folds
  <1>3. ASSUME NEW k \in 1 .. Len(s) PROVE h[k] = CountOne(h[k - 1], s[k])
    <2>1. k - 1 \in 0 .. Len(s) /\ s[k] \in Block
      BY <1>0, ElementOfSeq
    <2>2. h[k - 1] \in Nat
      BY <1>2, <2>1
    <2>3. CountLoop[s[k]][h[k - 1]] = CountOne(h[k - 1], s[k])
      BY <2>1, <2>2, CountStep
    <2>4. QED
      BY <1>2, <2>3
  <1>4. h = [k \in 0 .. Len(s) |-> IF k = 0 THEN 0 ELSE CountOne(h[k - 1], s[k])]
    <2>1. ASSUME NEW k \in 0 .. Len(s) PROVE h[k] = IF k = 0 THEN 0 ELSE CountOne(h[k - 1], s[k])
      <3>1. k = 0 \/ k \in 1 .. Len(s)
        BY <1>0
      <3>2. QED
        BY <1>2, <1>3, <3>1
    <2>2. QED
      BY <1>2, <2>1
  <1>5. n = [k \in 0 .. Len(s) |-> IF k = 0 THEN 0 ELSE CountOne(n[k - 1], s[k])]
    BY <1>4
  <1>6. Words(s) = n[Len(s)]
    BY DEF Words, CountOne
  <1> HIDE DEF n
  <1>7. n[0] = 0
    BY <1>0, <1>5
  <1>8. ASSUME NEW k \in 1 .. Len(s) PROVE n[k] = CountOne(n[k - 1], s[k])
    <2>1. k \in 0 .. Len(s) /\ k # 0
      BY <1>0
    <2>2. QED
      BY <1>5, <2>1
  <1>9. ASSUME NEW k \in Nat PROVE k <= Len(s) => n[k] = h[k]
    <2> DEFINE S == {i \in Nat : i <= Len(s) => n[i] = h[i]}
    <2>1. 0 \in S
      BY <1>2, <1>7
    <2>2. ASSUME NEW i \in Nat, i \in S PROVE i + 1 \in S
      <3>1. CASE i + 1 <= Len(s)
        <4>1. i + 1 \in 1 .. Len(s) /\ (i + 1) - 1 = i /\ i <= Len(s)
          BY <1>0, <3>1
        <4>2. n[i] = h[i]
          BY <2>2, <4>1
        <4>3. n[i + 1] = CountOne(n[i], s[i + 1]) /\ h[i + 1] = CountOne(h[i], s[i + 1])
          BY <1>3, <1>8, <4>1
        <4>4. QED
          BY <4>2, <4>3
      <3>2. CASE ~(i + 1 <= Len(s))
        BY <3>2
      <3>3. QED
        BY <3>1, <3>2
    <2> HIDE DEF S
    <2>3. k \in S
      BY <2>1, <2>2, InductiveSet
    <2>4. QED
      BY <2>3 DEF S
  <1>10. h[Len(s)] = FoldEnd(Nat, CountLoop, 0, s)
    BY <1>0, <1>1, FoldEndOf
  <1>11. n[Len(s)] = h[Len(s)]
    <2>1. Len(s) <= Len(s)
      BY <1>0
    <2>2. QED
      BY <1>0, <1>9, <2>1
  <1>12. QED
    BY <1>6, <1>10, <1>11

\* The words of blocks.
LEMMA CountFacts ==
  ASSUME NEW s \in Seq(Block)
  PROVE  /\ Words(s) \in Nat /\ Words(<<>>) = 0
         /\ \A a \in Block : Words(Append(s, a)) = CountOne(Words(s), a)
  <1>0. CountLoop \in [Block -> [Nat -> Nat]] /\ 0 \in Nat /\ <<>> \in Seq(Block)
    BY CountStep, EmptySeq
  <1>1. Words(s) = FoldEnd(Nat, CountLoop, 0, s)
    BY CountFold
  <1>2. Words(<<>>) = FoldEnd(Nat, CountLoop, 0, <<>>)
    BY <1>0, CountFold
  <1>3. FoldEnd(Nat, CountLoop, 0, s) \in Nat /\ FoldEnd(Nat, CountLoop, 0, <<>>) = 0
    BY <1>0, FoldEndIn, FoldEndEmpty
  <1>4. ASSUME NEW a \in Block PROVE Words(Append(s, a)) = CountOne(Words(s), a)
    <2>1. Append(s, a) \in Seq(Block)
      BY AppendProperties
    <2>2. Words(Append(s, a)) = FoldEnd(Nat, CountLoop, 0, Append(s, a))
      BY <2>1, CountFold
    <2>3. FoldEnd(Nat, CountLoop, 0, Append(s, a)) = CountLoop[a][FoldEnd(Nat, CountLoop, 0, s)]
      <3> DEFINE X == Nat
                 z == 0
      <3> HIDE DEF X, z
      <3>1. CountLoop \in [Block -> [X -> X]] /\ z \in X
        BY <1>0 DEF X, z
      <3>2. FoldEnd(X, CountLoop, z, Append(s, a)) = CountLoop[a][FoldEnd(X, CountLoop, z, s)]
        BY <3>1, FoldEndAppend
      <3>3. QED
        BY <3>2 DEF X, z
    <2>4. CountLoop[a][Words(s)] = CountOne(Words(s), a)
      BY <1>1, <1>3, CountStep
    <2>5. QED
      BY <1>1, <2>2, <2>3, <2>4
  <1>5. QED
    BY <1>1, <1>2, <1>3, <1>4

\* Blocks that say the same.
Same(B, O) == NonEmpty(B) = NonEmpty(O) /\ Words(B) = Words(O)

LEMMA AppendFacts ==
  ASSUME NEW B \in Blocks, NEW b \in Block
  PROVE  /\ NonEmpty(Append(B, b)) = KeepOne(NonEmpty(B), b)
         /\ Words(Append(B, b)) = Words(B) + WordsOf(b.text)
         /\ Words(B) \in Nat /\ NonEmpty(B) \in Blocks /\ WordsOf(b.text) \in Nat
  <1>1. B \in Seq(Block)
    BY DEF Blocks
  <1>2. NonEmpty(Append(B, b)) = KeepOne(NonEmpty(B), b) /\ NonEmpty(B) \in Blocks
    BY <1>1, KeepFacts
  <1>3. Words(Append(B, b)) = CountOne(Words(B), b) /\ Words(B) \in Nat
    BY <1>1, CountFacts
  <1>4. WordsOf(b.text) \in Nat
    BY BlockParts, WordsNat
  <1>5. QED
    BY <1>2, <1>3, <1>4 DEF CountOne

LEMMA SameAppend ==
  ASSUME NEW B \in Blocks, NEW O \in Blocks, NEW b \in Block, Same(B, O)
  PROVE  Same(Append(B, b), Append(O, b))
  BY AppendFacts DEF Same

LEMMA SameEmpty ==
  ASSUME NEW B \in Blocks, NEW O \in Blocks, NEW b \in Block, b.text = <<>>, Same(B, O)
  PROVE  Same(Append(B, b), O)
  <1>1. WordsOf(b.text) = 0
    BY EmptyText, WordsNat
  <1>2. Words(Append(B, b)) = Words(B)
    BY <1>1, AppendFacts
  <1>3. KeepOne(NonEmpty(B), b) = NonEmpty(B)
    <2>1. NonEmpty(B) \in Seq(Block)
      BY AppendFacts DEF Blocks
    <2>2. NonEmpty(B) \o <<>> = NonEmpty(B)
      BY <2>1, ConcatEmptySeq
    <2>3. QED
      BY <2>2 DEF KeepOne
  <1>4. QED
    BY <1>2, <1>3, AppendFacts DEF Same

LEMMA BlocksAppend ==
  ASSUME NEW A \in Blocks, NEW B \in Blocks, NEW b \in Block
  PROVE  Append(A \o B, b) = A \o Append(B, b) /\ A \o B \in Blocks
  <1>1. A \in Seq(Block) /\ B \in Seq(Block)
    BY DEF Blocks
  <1>2. A \o B \in Seq(Block)
    BY <1>1, ConcatProperties
  <1>3. Append(A \o B, b) = A \o Append(B, b)
    <2>1. <<b>> \in Seq(Block)
      OBVIOUS
    <2>2. Append(A \o B, b) = (A \o B) \o <<b>> /\ Append(B, b) = B \o <<b>>
      BY <1>1, <1>2, AppendIsConcat
    <2>3. (A \o B) \o <<b>> = A \o (B \o <<b>>)
      BY <1>1, <2>1, ConcatAssociative
    <2>4. QED
      BY <2>2, <2>3
  <1>4. QED
    BY <1>2, <1>3 DEF Blocks

LEMMA SegText ==
  ASSUME NEW g \in Seg
  PROVE  /\ <<g[2]>> \in Text /\ <<g[2]>> # <<>> /\ g[1] \in Kinds
         /\ Blk(g[1], <<g[2]>>) \in Block
  <1>1. g[1] \in Kinds /\ g[2] \in Alphabet
    BY SegIs DEF Kinds
  <1>2. <<g[2]>> \in Text /\ <<g[2]>> # <<>>
    BY <1>1 DEF Text
  <1>3. QED
    BY <1>1, <1>2, BlkIn

\* What a segment adds to blocks that come after others.
LEMMA MergeFirst ==
  ASSUME NEW A \in Blocks, NEW g \in Seg
  PROVE  A \o mergeSegment(<<>>, g) = Append(A, Blk(g[1], <<g[2]>>))
  <1> DEFINE c == Blk(g[1], <<g[2]>>)
             e == <<>>
  <1>1. e \in Blocks /\ c \in Block /\ A \o e = A
    BY SegText, MergeStep, ConcatEmptySeq DEF Blocks
  <1>2. mergeSegment(e, g) = Append(e, c)
    BY <1>1, MergeIs
  <1> HIDE DEF c, e
  <1>3. Append(A \o e, c) = A \o Append(e, c)
    BY <1>1, BlocksAppend
  <1>4. QED
    BY <1>1, <1>2, <1>3 DEF c, e

LEMMA MergeNext ==
  ASSUME NEW A \in Blocks, NEW r \in Blocks, NEW b \in Block, NEW g \in Seg
  PROVE  /\ A \o Append(r, b) = Append(A \o r, b)
         /\ A \o mergeSegment(Append(r, b), g) =
              IF b.kind = g[1] THEN Append(A \o r, Blk(b.kind, b.text \o <<g[2]>>))
              ELSE Append(A \o Append(r, b), Blk(g[1], <<g[2]>>))
  <1> DEFINE d == <<g[2]>>
             c == Blk(g[1], d)
             B == Append(r, b)
             x == Blk(b.kind, b.text \o d)
  <1>1. c \in Block /\ d \in Text /\ B \in Blocks
    BY SegText, AppendBlock
  <1>2. x \in Block
    BY <1>1, ExtendLast
  <1>3. mergeSegment(B, g) = IF b.kind = g[1] THEN Append(r, x) ELSE Append(B, c)
    BY <1>1, MergeIs
  <1> HIDE DEF c, d, x, B
  <1>4. A \o Append(r, x) = Append(A \o r, x) /\ A \o Append(B, c) = Append(A \o B, c)
    BY <1>1, <1>2, BlocksAppend
  <1>5. A \o Append(r, b) = Append(A \o r, b)
    BY BlocksAppend
  <1>6. A \o mergeSegment(B, g) = IF b.kind = g[1] THEN Append(A \o r, x) ELSE Append(A \o B, c)
    BY <1>3, <1>4
  <1>7. QED
    BY <1>5, <1>6 DEF c, d, x, B

LEMMA SegWordsAppend ==
  ASSUME NEW s \in Segs, NEW g \in Seg
  PROVE  /\ SegWords(Append(s, g)) = SegWords(s) + WordsOf(<<g[2]>>)
         /\ SegWords(s) \in Nat /\ WordsOf(<<g[2]>>) \in Nat
  <1>1. <<g>> \in Segs /\ Append(s, g) = s \o <<g>>
    <2>1. s \in Seq(Seg)
      BY SegIs
    <2>2. <<g>> \in Seq(Seg)
      OBVIOUS
    <2>3. QED
      BY <2>1, <2>2, AppendIsConcat, SegIs
  <1>2. PiecesOf(<<g>>) = <<g[2]>>
    <2> DEFINE h == <<g>>
    <2>1. Len(h) = 1 /\ h[1] = g
      OBVIOUS
    <2>2. h \in Segs
      BY <1>1
    <2> HIDE DEF h
    <2>3. PiecesOf(h) \in Text /\ Len(PiecesOf(h)) = 1 /\ \A k \in 1 .. 1 : PiecesOf(h)[k] = h[k][2]
      BY <2>1, <2>2, PiecesFacts
    <2>4. PiecesOf(h)[1] = g[2]
      BY <2>1, <2>3
    <2>5. PiecesOf(h) = <<g[2]>>
      <3> DEFINE p == PiecesOf(h)
                 x == g[2]
                 q == <<x>>
      <3>1. x \in Alphabet
        BY SegIs
      <3>2. p \in Seq(Alphabet) /\ Len(p) = 1 /\ p[1] = x
        BY <2>3, <2>4 DEF Text
      <3> HIDE DEF p, x
      <3>3. q \in Seq(Alphabet) /\ Len(q) = 1 /\ q[1] = x
        BY <3>1
      <3> HIDE DEF q
      <3>4. \A k \in 1 .. Len(p) : p[k] = q[k]
        BY <3>2, <3>3
      <3>5. p = q
        BY <3>2, <3>3, <3>4, SeqEqual
      <3>6. QED
        BY <3>5 DEF p, q, x
    <2>6. QED
      BY <2>5 DEF h
  <1>3. PiecesOf(Append(s, g)) = PiecesOf(s) \o <<g[2]>>
    BY <1>1, <1>2, PiecesJoin
  <1>4. PiecesOf(s) \in Text /\ <<g[2]>> \in Text
    BY PiecesFacts, SegText
  <1>5. QED
    BY <1>3, <1>4, WordsJoin DEF SegWords

\* Blocks have the words of the segments they are made of.
LEMMA MergeWords ==
  ASSUME NEW A \in Blocks, NEW s \in Segs
  PROVE  Words(A \o mergeSegments(s)) = Words(A) + SegWords(s)
  <1> DEFINE S == {h \in Segs : Words(A \o mergeSegments(h)) = Words(A) + SegWords(h)}
  <1>1. <<>> \in S
    <2>1. <<>> \in Segs /\ mergeSegments(<<>>) = <<>>
      BY SegIs, EmptySeq, MergeFacts
    <2>2. A \o <<>> = A
      BY ConcatEmptySeq DEF Blocks
    <2>3. SegWords(<<>>) = 0
      <3>1. PiecesOf(<<>>) = <<>>
        BY DEF PiecesOf
      <3>2. QED
        BY <3>1, EmptyText, WordsNat DEF SegWords
    <2>4. Words(A) \in Nat
      BY CountFacts DEF Blocks
    <2>5. Words(A \o mergeSegments(<<>>)) = Words(A)
      BY <2>1, <2>2
    <2>6. Words(A) = Words(A) + SegWords(<<>>)
      BY <2>3, <2>4
    <2>7. QED
      BY <2>1, <2>5, <2>6
  <1>2. ASSUME NEW h \in Seq(Seg), NEW g \in Seg, h \in S PROVE Append(h, g) \in S
    <2> DEFINE M == mergeSegments(h)
               d == <<g[2]>>
               N == mergeSegment(M, g)
    <2>0. h \in Segs
      BY SegIs
    <2>1. M \in Blocks /\ mergeSegments(Append(h, g)) = N
      <3>1. M \in Blocks /\ \A a \in Seg : mergeSegments(Append(h, a)) = mergeSegment(M, a)
        BY MergeFacts
      <3>2. QED
        BY <3>1
    <2>2. Append(h, g) \in Segs
      BY AppendProperties, SegIs
    <2>3. SegWords(Append(h, g)) = SegWords(h) + WordsOf(d) /\ SegWords(h) \in Nat /\ WordsOf(d) \in Nat
      BY <2>0, SegWordsAppend
    <2>4. d \in Text /\ g[1] \in Kinds /\ Blk(g[1], d) \in Block /\ Blk(g[1], d).text = d
      BY SegText, BlkIn
    <2>5. A \o M \in Blocks /\ Words(A) \in Nat
      BY <2>1, ConcatProperties, CountFacts DEF Blocks
    <2>6. Words(A \o M) = Words(A) + SegWords(h)
      BY <1>2
    <2>7. Words(A \o N) = Words(A \o M) + WordsOf(d)
      <3>1. CASE M = <<>>
        <4>1. A \o N = Append(A, Blk(g[1], d)) /\ A \o M = A
          BY <3>1, MergeFirst, ConcatEmptySeq DEF Blocks
        <4>2. QED
          BY <2>4, <4>1, AppendFacts
      <3>2. CASE M # <<>>
        <4>1. PICK r \in Blocks, b \in Block : M = Append(r, b)
          BY <2>1, <3>2, LastBlock
        <4> DEFINE x == Blk(b.kind, b.text \o d)
        <4>2. /\ A \o M = Append(A \o r, b)
              /\ A \o N = IF b.kind = g[1] THEN Append(A \o r, x) ELSE Append(A \o M, Blk(g[1], d))
          <5>1. A \o Append(r, b) = Append(A \o r, b)
            BY MergeNext
          <5>2. A \o mergeSegment(Append(r, b), g) =
                  IF b.kind = g[1] THEN Append(A \o r, x) ELSE Append(A \o Append(r, b), Blk(g[1], d))
            BY MergeNext
          <5>3. QED
            BY <4>1, <5>1, <5>2
        <4>3. b.kind \in Kinds /\ b.text \in Text
          BY BlockParts
        <4>4. b.text \o d \in Text
          BY <2>4, <4>3, JoinFacts
        <4>5. x \in Block /\ x.text = b.text \o d
          BY <4>3, <4>4, BlkIn
        <4>6. WordsOf(x.text) = WordsOf(b.text) + WordsOf(d) /\ WordsOf(b.text) \in Nat
          BY <2>4, <4>3, <4>5, WordsJoin
        <4>7. A \o r \in Blocks
          BY BlocksAppend
        <4> HIDE DEF x, N, M, d
        <4>8. CASE b.kind = g[1]
          <5>1. Words(A \o N) = Words(A \o r) + WordsOf(x.text)
            BY <4>2, <4>5, <4>7, <4>8, AppendFacts
          <5>2. Words(A \o M) = Words(A \o r) + WordsOf(b.text) /\ Words(A \o r) \in Nat
            BY <4>2, <4>7, AppendFacts
          <5>3. QED
            BY <2>3, <4>6, <5>1, <5>2
        <4>9. CASE b.kind # g[1]
          BY <2>4, <2>5, <4>2, <4>9, AppendFacts
        <4>10. QED
          BY <4>8, <4>9
      <3>3. QED
        BY <3>1, <3>2
    <2> HIDE DEF M, N, d
    <2>8. Words(A \o N) = Words(A) + SegWords(Append(h, g))
      BY <2>3, <2>5, <2>6, <2>7
    <2>9. QED
      BY <2>1, <2>2, <2>8
  <1> HIDE DEF S
  <1>3. Segs \subseteq S
    BY <1>1, <1>2, InductiveSequences, SegIs
  <1>4. QED
    BY <1>3 DEF S

-----------------------------------------------------------------------------
(* The rewritten response.                                                 *)

\* A response that is rewritten, by its parts.
Rw(s, o) == [sc |-> s, out |-> o]

Rewrites == [sc : Scanners, out : Blocks]

Fed(s, b) == Feed(Seed(s.sc, b.kind), b.text)

LEMMA RwIn ==
  ASSUME NEW s \in Scanners, NEW o \in Blocks
  PROVE  Rw(s, o) \in Rewrites
  BY DEF Rw, Rewrites

LEMMA RwParts ==
  ASSUME NEW s, NEW o
  PROVE  Rw(s, o).sc = s /\ Rw(s, o).out = o
  BY DEF Rw

\* A new block begins a section of its kind.
LEMMA SeedFacts ==
  ASSUME NEW sc \in Scanners, NEW k
  PROVE  /\ Seed(sc, k) \in Scanners /\ Seed(sc, k).pending = <<>> /\ Seed(sc, k).flipped = sc.flipped
         /\ k \in {"text", "thinking"} => Kind(Seed(sc, k).inThink) = k
  <1> DEFINE i == (k = "thinking")
             y == TRUE
  <1>1. i \in BOOLEAN /\ y \in BOOLEAN
    OBVIOUS
  <1>2. k \in {"text", "thinking"} => Kind(i) = k
    BY DEF Kind
  <1>3. Seed(sc, k) = [inThink |-> i, pending |-> <<>>, flipped |-> sc.flipped, atStart |-> y]
    BY DEF Seed
  <1> HIDE DEF i, y
  <1>4. sc.flipped \in BOOLEAN /\ <<>> \in Text
    BY ScannerParts, EmptyText
  <1>5. Seed(sc, k) \in Scanners
    BY <1>1, <1>3, <1>4 DEF Scanners
  <1>6. Seed(sc, k).pending = <<>> /\ Seed(sc, k).flipped = sc.flipped /\ Seed(sc, k).inThink = i
    BY <1>3
  <1>7. QED
    BY <1>2, <1>5, <1>6

LEMMA FedFacts ==
  ASSUME NEW s \in Rewrites, NEW b \in Block
  PROVE  /\ s.sc \in Scanners /\ s.out \in Blocks /\ b.text \in Text /\ b.kind \in Kinds
         /\ Seed(s.sc, b.kind) \in Scanners
         /\ Fed(s, b).sc \in Scanners /\ Fed(s, b).segs \in Segs
         /\ Fed(s, b).sc.flipped \in BOOLEAN
  <1>1. s.sc \in Scanners /\ s.out \in Blocks
    BY DEF Rewrites
  <1>2. b.text \in Text /\ b.kind \in Kinds
    BY BlockParts
  <1>3. Seed(s.sc, b.kind) \in Scanners
    BY <1>1, SeedFacts
  <1>4. Fed(s, b).sc \in Scanners /\ Fed(s, b).segs \in Segs
    BY <1>2, <1>3, FeedFacts DEF Fed
  <1>5. QED
    BY <1>1, <1>2, <1>3, <1>4, ScannerParts

\* A block is kept, repaired in place, or split.
LEMMA RewriteOther ==
  ASSUME NEW s \in Rewrites, NEW b \in Block, ~Scannable(b.kind)
  PROVE  RewriteBlock(s, b) = Rw(s.sc, Append(s.out, b))
  <1>1. RewriteBlock(s, b) = [s EXCEPT !.out = Append(@, b)]
    BY DEF RewriteBlock
  <1>2. QED
    BY <1>1 DEF Rw, Rewrites

LEMMA RewritePlain ==
  ASSUME NEW s \in Rewrites, NEW b \in Block, Scannable(b.kind), No(Fed(s, b).sc.flipped)
  PROVE  RewriteBlock(s, b) = Rw(Fed(s, b).sc, Append(s.out, Blk(b.kind, PiecesOf(Fed(s, b).segs))))
  <1>1. ~Fed(s, b).sc.flipped
    BY DEF No
  <1>2. RewriteBlock(s, b) =
          [sc |-> Fed(s, b).sc,
           out |-> Append(s.out, [kind |-> b.kind, text |-> PiecesOf(Fed(s, b).segs)])]
    BY <1>1 DEF RewriteBlock, Fed
  <1>3. QED
    BY <1>2 DEF Rw, Blk

LEMMA RewriteSplit ==
  ASSUME NEW s \in Rewrites, NEW b \in Block, Scannable(b.kind), Yes(Fed(s, b).sc.flipped)
  PROVE  RewriteBlock(s, b) = Rw(Fed(s, b).sc, s.out \o mergeSegments(Fed(s, b).segs))
  <1>1. Fed(s, b).sc.flipped
    BY DEF Yes
  <1>2. RewriteBlock(s, b) = [sc |-> Fed(s, b).sc, out |-> s.out \o mergeSegments(Fed(s, b).segs)]
    BY <1>1 DEF RewriteBlock, Fed
  <1>3. QED
    BY <1>2 DEF Rw

LEMMA MergeIn ==
  ASSUME NEW g \in Segs
  PROVE  mergeSegments(g) \in Blocks
  BY MergeFacts, SegIs

LEMMA RewriteIn ==
  ASSUME NEW s \in Rewrites, NEW b \in Block
  PROVE  RewriteBlock(s, b) \in Rewrites
  <1>1. /\ s.sc \in Scanners /\ s.out \in Blocks /\ b.text \in Text /\ b.kind \in Kinds
        /\ Fed(s, b).sc \in Scanners /\ Fed(s, b).segs \in Segs
        /\ Fed(s, b).sc.flipped \in BOOLEAN
    BY FedFacts
  <1>2. CASE ~Scannable(b.kind)
    BY <1>1, <1>2, RewriteOther, AppendBlock, RwIn
  <1>3. CASE Scannable(b.kind) /\ No(Fed(s, b).sc.flipped)
    <2>1. PiecesOf(Fed(s, b).segs) \in Text
      BY <1>1, PiecesFacts
    <2>2. Blk(b.kind, PiecesOf(Fed(s, b).segs)) \in Block
      BY <1>1, <2>1, BlkIn
    <2>3. QED
      BY <1>1, <1>3, <2>2, RewritePlain, AppendBlock, RwIn
  <1>4. CASE Scannable(b.kind) /\ Yes(Fed(s, b).sc.flipped)
    <2>1. mergeSegments(Fed(s, b).segs) \in Blocks
      BY <1>1, MergeIn
    <2>2. s.out \o mergeSegments(Fed(s, b).segs) \in Blocks
      BY <1>1, <2>1, ConcatProperties DEF Blocks
    <2>3. QED
      BY <1>1, <1>4, <2>2, RewriteSplit, RwIn
  <1>5. QED
    BY <1>1, <1>2, <1>3, <1>4 DEF Yes, No

Unwritten == [sc |-> NewScanner, out |-> <<>>]

LEMMA NewScannerIn ==
  /\ NewScanner \in Scanners /\ No(NewScanner.flipped) /\ NewScanner.pending = <<>>
  <1>1. <<>> \in Text
    BY EmptyText
  <1>2. QED
    BY <1>1 DEF NewScanner, Scanners, No

RewriteLoop == [b \in Block |-> [s \in Rewrites |-> RewriteBlock(s, b)]]

LEMMA RewriteStep ==
  /\ RewriteLoop \in [Block -> [Rewrites -> Rewrites]] /\ Unwritten \in Rewrites
  /\ \A b \in Block : \A s \in Rewrites : RewriteLoop[b][s] = RewriteBlock(s, b)
  <1>1. Unwritten \in Rewrites
    BY NewScannerIn, MergeStep DEF Unwritten, Rewrites
  <1>2. QED
    BY <1>1, RewriteIn DEF RewriteLoop

LEMMA RewriteFold ==
  ASSUME NEW s \in Seq(Block)
  PROVE  Rewritten(s) = FoldEnd(Rewrites, RewriteLoop, Unwritten, s)
  <1> DEFINE n == CHOOSE f : f = [k \in 0 .. Len(s) |-> IF k = 0 THEN Unwritten ELSE RewriteBlock(f[k - 1], s[k])]
  <1>0. RewriteLoop \in [Block -> [Rewrites -> Rewrites]] /\ Unwritten \in Rewrites /\ Len(s) \in Nat
    BY RewriteStep, LenProperties
  <1>1. PICK h : Folds(Rewrites, RewriteLoop, Unwritten, s, h)
    BY <1>0, FoldsExist
  <1>2. /\ h \in [0 .. Len(s) -> Rewrites] /\ h[0] = Unwritten
        /\ \A k \in 1 .. Len(s) : h[k] = RewriteLoop[s[k]][h[k - 1]]
    BY <1>1 DEF Folds
  <1>3. ASSUME NEW k \in 1 .. Len(s) PROVE h[k] = RewriteBlock(h[k - 1], s[k])
    <2>1. k - 1 \in 0 .. Len(s) /\ s[k] \in Block
      BY <1>0, ElementOfSeq
    <2>2. h[k - 1] \in Rewrites
      BY <1>2, <2>1
    <2>3. RewriteLoop[s[k]][h[k - 1]] = RewriteBlock(h[k - 1], s[k])
      BY <2>1, <2>2, RewriteStep
    <2>4. QED
      BY <1>2, <2>3
  <1>4. h = [k \in 0 .. Len(s) |-> IF k = 0 THEN Unwritten ELSE RewriteBlock(h[k - 1], s[k])]
    <2>1. ASSUME NEW k \in 0 .. Len(s) PROVE h[k] = IF k = 0 THEN Unwritten ELSE RewriteBlock(h[k - 1], s[k])
      <3>1. k = 0 \/ k \in 1 .. Len(s)
        BY <1>0
      <3>2. QED
        BY <1>2, <1>3, <3>1
    <2>2. QED
      BY <1>2, <2>1
  <1>5. n = [k \in 0 .. Len(s) |-> IF k = 0 THEN Unwritten ELSE RewriteBlock(n[k - 1], s[k])]
    BY <1>4
  <1>6. Rewritten(s) = n[Len(s)]
    BY DEF Rewritten, Unwritten
  <1> HIDE DEF n
  <1>7. n[0] = Unwritten
    BY <1>0, <1>5
  <1>8. ASSUME NEW k \in 1 .. Len(s) PROVE n[k] = RewriteBlock(n[k - 1], s[k])
    <2>1. k \in 0 .. Len(s) /\ k # 0
      BY <1>0
    <2>2. QED
      BY <1>5, <2>1
  <1>9. ASSUME NEW k \in Nat PROVE k <= Len(s) => n[k] = h[k]
    <2> DEFINE S == {i \in Nat : i <= Len(s) => n[i] = h[i]}
    <2>1. 0 \in S
      BY <1>2, <1>7
    <2>2. ASSUME NEW i \in Nat, i \in S PROVE i + 1 \in S
      <3>1. CASE i + 1 <= Len(s)
        <4>1. i + 1 \in 1 .. Len(s) /\ (i + 1) - 1 = i /\ i <= Len(s)
          BY <1>0, <3>1
        <4>2. n[i] = h[i]
          BY <2>2, <4>1
        <4>3. n[i + 1] = RewriteBlock(n[i], s[i + 1]) /\ h[i + 1] = RewriteBlock(h[i], s[i + 1])
          BY <1>3, <1>8, <4>1
        <4>4. QED
          BY <4>2, <4>3
      <3>2. CASE ~(i + 1 <= Len(s))
        BY <3>2
      <3>3. QED
        BY <3>1, <3>2
    <2> HIDE DEF S
    <2>3. k \in S
      BY <2>1, <2>2, InductiveSet
    <2>4. QED
      BY <2>3 DEF S
  <1>10. h[Len(s)] = FoldEnd(Rewrites, RewriteLoop, Unwritten, s)
    BY <1>0, <1>1, FoldEndOf
  <1>11. n[Len(s)] = h[Len(s)]
    <2>1. Len(s) <= Len(s)
      BY <1>0
    <2>2. QED
      BY <1>0, <1>9, <2>1
  <1>12. QED
    BY <1>6, <1>10, <1>11

\* The blocks of a response, one after the other.
LEMMA RewriteFacts ==
  ASSUME NEW s \in Seq(Block)
  PROVE  /\ Rewritten(s) \in Rewrites /\ Rewritten(<<>>) = Unwritten
         /\ \A a \in Block : Rewritten(Append(s, a)) = RewriteBlock(Rewritten(s), a)
  <1>0. RewriteLoop \in [Block -> [Rewrites -> Rewrites]] /\ Unwritten \in Rewrites /\ <<>> \in Seq(Block)
    BY RewriteStep, EmptySeq
  <1>1. Rewritten(s) = FoldEnd(Rewrites, RewriteLoop, Unwritten, s)
    BY RewriteFold
  <1>2. Rewritten(<<>>) = FoldEnd(Rewrites, RewriteLoop, Unwritten, <<>>)
    BY <1>0, RewriteFold
  <1>3. FoldEnd(Rewrites, RewriteLoop, Unwritten, s) \in Rewrites /\ FoldEnd(Rewrites, RewriteLoop, Unwritten, <<>>) = Unwritten
    BY <1>0, FoldEndIn, FoldEndEmpty
  <1>4. ASSUME NEW a \in Block PROVE Rewritten(Append(s, a)) = RewriteBlock(Rewritten(s), a)
    <2>1. Append(s, a) \in Seq(Block)
      BY AppendProperties
    <2>2. Rewritten(Append(s, a)) = FoldEnd(Rewrites, RewriteLoop, Unwritten, Append(s, a))
      BY <2>1, RewriteFold
    <2>3. FoldEnd(Rewrites, RewriteLoop, Unwritten, Append(s, a)) = RewriteLoop[a][FoldEnd(Rewrites, RewriteLoop, Unwritten, s)]
      <3> DEFINE X == Rewrites
                 z == Unwritten
      <3> HIDE DEF X, z
      <3>1. RewriteLoop \in [Block -> [X -> X]] /\ z \in X
        BY <1>0 DEF X, z
      <3>2. FoldEnd(X, RewriteLoop, z, Append(s, a)) = RewriteLoop[a][FoldEnd(X, RewriteLoop, z, s)]
        BY <3>1, FoldEndAppend
      <3>3. QED
        BY <3>2 DEF X, z
    <2>4. RewriteLoop[a][Rewritten(s)] = RewriteBlock(Rewritten(s), a)
      BY <1>1, <1>3, RewriteStep
    <2>5. QED
      BY <1>1, <2>2, <2>3, <2>4
  <1>5. QED
    BY <1>1, <1>2, <1>3, <1>4

\* The rewritten response has the words of the response.
LEMMA RewriteWords ==
  ASSUME NEW c \in Blocks
  PROVE  Words(Rewritten(c).out) = Words(c) /\ WordsOf(Rewritten(c).sc.pending) = 0
  <1> DEFINE S == {e \in Blocks : /\ Words(Rewritten(e).out) = Words(e)
                                  /\ WordsOf(Rewritten(e).sc.pending) = 0}
  <1>1. <<>> \in S
    <2>1. <<>> \in Seq(Block)
      BY EmptySeq
    <2>2. Rewritten(<<>>) = Unwritten /\ <<>> \in Blocks
      BY <2>1, RewriteFacts DEF Blocks
    <2>3. Unwritten.out = <<>> /\ Unwritten.sc = NewScanner
      BY DEF Unwritten
    <2>4. WordsOf(NewScanner.pending) = 0
      BY NewScannerIn, EmptyText, WordsNat
    <2>5. QED
      BY <2>2, <2>3, <2>4
  <1>2. ASSUME NEW e \in Seq(Block), NEW b \in Block, e \in S PROVE Append(e, b) \in S
    <2> DEFINE s == Rewritten(e)
               t == Rewritten(Append(e, b))
               u == Fed(s, b)
    <2>1. s \in Rewrites /\ t = RewriteBlock(s, b)
      BY RewriteFacts
    <2>2. e \in Blocks /\ Append(e, b) \in Blocks
      BY AppendBlock DEF Blocks
    <2>3. /\ Words(s.out) = Words(e) /\ WordsOf(s.sc.pending) = 0
      BY <1>2
    <2> HIDE DEF s, t
    <2>4. Words(Append(e, b)) = Words(e) + WordsOf(b.text) /\ Words(e) \in Nat /\ WordsOf(b.text) \in Nat
      BY <2>2, AppendFacts
    <2>5. /\ s.sc \in Scanners /\ s.out \in Blocks /\ b.text \in Text /\ b.kind \in Kinds
          /\ Seed(s.sc, b.kind) \in Scanners
          /\ u.sc \in Scanners /\ u.segs \in Segs /\ u.sc.flipped \in BOOLEAN
      BY <2>1, FedFacts
    <2>6. WordsOf(u.sc.pending) = 0 /\ SegWords(u.segs) = WordsOf(b.text)
      <3>1. Seed(s.sc, b.kind).pending = <<>>
        BY <2>5, SeedFacts
      <3>2. WordsOf(Seed(s.sc, b.kind).pending) = 0
        BY <3>1, EmptyText, WordsNat
      <3>3. QED
        BY <2>5, <3>2, FeedWords DEF Fed
    <2> HIDE DEF u
    <2>7. Words(t.out) = Words(s.out) + WordsOf(b.text) /\ WordsOf(t.sc.pending) = 0
      <3>1. CASE ~Scannable(b.kind)
        <4>1. t.out = Append(s.out, b) /\ t.sc = s.sc
          <5>1. t = Rw(s.sc, Append(s.out, b))
            BY <2>1, <3>1, RewriteOther
          <5>2. QED
            BY <5>1, RwParts
        <4>2. QED
          BY <2>3, <2>5, <4>1, AppendFacts
      <3>2. CASE Scannable(b.kind) /\ No(u.sc.flipped)
        <4> DEFINE d == PiecesOf(u.segs)
                   x == Blk(b.kind, d)
        <4>1. t = Rw(u.sc, Append(s.out, x))
          BY <2>1, <3>2, RewritePlain DEF u
        <4>2. d \in Text /\ WordsOf(d) = WordsOf(b.text)
          <5>1. d \in Text
            BY <2>5, PiecesFacts
          <5>2. SegWords(u.segs) = WordsOf(d)
            BY DEF SegWords
          <5>3. QED
            BY <2>6, <5>1, <5>2
        <4> HIDE DEF d
        <4>3. x \in Block /\ x.text = d
          BY <2>5, <4>2, BlkIn
        <4> HIDE DEF x
        <4>4. t.out = Append(s.out, x) /\ t.sc = u.sc
          BY <4>1, RwParts
        <4>5. QED
          BY <2>5, <2>6, <4>2, <4>3, <4>4, AppendFacts
      <3>3. CASE Scannable(b.kind) /\ Yes(u.sc.flipped)
        <4>1. t = Rw(u.sc, s.out \o mergeSegments(u.segs))
          BY <2>1, <3>3, RewriteSplit DEF u
        <4>2. t.out = s.out \o mergeSegments(u.segs) /\ t.sc = u.sc
          BY <4>1, RwParts
        <4>3. Words(t.out) = Words(s.out) + SegWords(u.segs)
          BY <2>5, <4>2, MergeWords
        <4>4. QED
          BY <2>6, <4>2, <4>3
      <3>4. QED
        BY <2>5, <3>1, <3>2, <3>3 DEF Yes, No
    <2>8. Words(t.out) = Words(Append(e, b))
      BY <2>3, <2>4, <2>7
    <2>9. QED
      BY <2>2, <2>7, <2>8 DEF t
  <1> HIDE DEF S
  <1>3. Blocks \subseteq S
    BY <1>1, <1>2, InductiveSequences DEF Blocks
  <1>4. QED
    BY <1>3 DEF S

-----------------------------------------------------------------------------
(* The rewriter and the client.                                            *)

Raws == Kinds \cup {""}

BlockRec == [up : Int, kind : Kinds, synth : Int, started : BOOLEAN, other : BOOLEAN]

\* A rewriter that has begun, and a client with no block or its last one open.
Writing(k, n, c, b) == [rewriting |-> TRUE, rawKind |-> k, nextSynth |-> n, cur |-> c, block |-> b]

Shut(B) == [blocks |-> B, open |-> FALSE, ok |-> TRUE]

Opened(B) == [blocks |-> B, open |-> TRUE, ok |-> TRUE]

\* The rewriter has begun and no block is open downstream,
Idle(k, b, B) == [rw |-> Writing(k, Len(B), NoBlock, b), cl |-> Shut(B)]

\* or the last one is.
Live(k, b, r, x) ==
  [rw |-> Writing(k, Len(r) + 1, [idx |-> Len(r), kind |-> x.kind, up |-> b.up], b),
   cl |-> Opened(Append(r, x))]

LEMMA WritingParts ==
  ASSUME NEW k, NEW n, NEW c, NEW b
  PROVE  /\ Writing(k, n, c, b).rawKind = k /\ Writing(k, n, c, b).nextSynth = n
         /\ Writing(k, n, c, b).cur = c /\ Writing(k, n, c, b).block = b
         /\ Writing(k, n, c, b).rewriting
         /\ \A d : [Writing(k, n, c, b) EXCEPT !.cur = d] = Writing(k, n, d, b)
         /\ \A d : [Writing(k, n, c, b) EXCEPT !.block = d] = Writing(k, n, c, d)
         /\ \A m : [Writing(k, n, c, b) EXCEPT !.nextSynth = m] = Writing(k, m, c, b)
         /\ \A m, d, e : [rewriting |-> Writing(k, n, c, b).rewriting,
                          rawKind |-> Writing(k, n, c, b).rawKind,
                          nextSynth |-> m, cur |-> d, block |-> e] = Writing(k, m, d, e)
  <1> DEFINE y == TRUE
             w == [rewriting |-> y, rawKind |-> k, nextSynth |-> n, cur |-> c, block |-> b]
  <1>1. Writing(k, n, c, b) = w
    BY DEF Writing
  <1>2. w.rewriting
    OBVIOUS
  <1>3. \A m, d, e : Writing(k, m, d, e) = [rewriting |-> y, rawKind |-> k, nextSynth |-> m, cur |-> d, block |-> e]
    BY DEF Writing
  <1> HIDE DEF y
  <1>4. w.rawKind = k /\ w.nextSynth = n /\ w.cur = c /\ w.block = b /\ w.rewriting = y
    OBVIOUS
  <1>5. \A d : [w EXCEPT !.cur = d] = Writing(k, n, d, b)
    BY <1>3
  <1>6. \A d : [w EXCEPT !.block = d] = Writing(k, n, c, d)
    BY <1>3
  <1>7. \A m : [w EXCEPT !.nextSynth = m] = Writing(k, m, c, b)
    BY <1>3
  <1>8. \A m, d, e : [rewriting |-> w.rewriting, rawKind |-> w.rawKind, nextSynth |-> m, cur |-> d, block |-> e]
                       = Writing(k, m, d, e)
    BY <1>3, <1>4
  <1> HIDE DEF w
  <1>9. QED
    BY <1>1, <1>2, <1>4, <1>5, <1>6, <1>7, <1>8

LEMMA ClientParts ==
  ASSUME NEW B
  PROVE  /\ Shut(B).blocks = B /\ ~Shut(B).open /\ Shut(B).ok
         /\ Opened(B).blocks = B /\ Opened(B).open /\ Opened(B).ok
  BY DEF Shut, Opened

Started(b, n) == [b EXCEPT !.synth = n, !.started = TRUE]

LEMMA StartedIn ==
  ASSUME NEW b \in BlockRec, NEW n \in Nat
  PROVE  Started(b, n) \in BlockRec /\ Started(b, n).up = b.up
  <1> DEFINE y == TRUE
  <1>1. y \in BOOLEAN
    OBVIOUS
  <1>2. Started(b, n) = [b EXCEPT !.synth = n, !.started = y]
    BY DEF Started
  <1> HIDE DEF y
  <1>3. n \in Int
    OBVIOUS
  <1>4. [b EXCEPT !.synth = n, !.started = y] \in BlockRec
    BY <1>1, <1>3 DEF BlockRec
  <1>5. [b EXCEPT !.synth = n, !.started = y].up = b.up
    BY DEF BlockRec
  <1>6. QED
    BY <1>2, <1>4, <1>5

LEMMA CurIsBlock ==
  ASSUME NEW i, NEW k, NEW u
  PROVE  [idx |-> i, kind |-> k, up |-> u] # NoBlock
  <1>1. "idx" \in DOMAIN [idx |-> i, kind |-> k, up |-> u]
    OBVIOUS
  <1>2. "idx" \notin DOMAIN NoBlock
    BY DEF NoBlock
  <1>3. QED
    BY <1>1, <1>2

LEMMA IdleParts ==
  ASSUME NEW k, NEW b, NEW B
  PROVE  /\ Idle(k, b, B).rw = Writing(k, Len(B), NoBlock, b) /\ Idle(k, b, B).rw.rewriting
         /\ Idle(k, b, B).rw.rawKind = k
         /\ Idle(k, b, B).rw.nextSynth = Len(B) /\ Idle(k, b, B).rw.cur = NoBlock
         /\ Idle(k, b, B).rw.block = b
         /\ Idle(k, b, B).cl = Shut(B)
  <1>1. Idle(k, b, B).rw = Writing(k, Len(B), NoBlock, b) /\ Idle(k, b, B).cl = Shut(B)
    BY DEF Idle
  <1>2. QED
    BY <1>1, WritingParts

LEMMA LiveParts ==
  ASSUME NEW k, NEW b, NEW r, NEW x
  PROVE  /\ Live(k, b, r, x).rw = Writing(k, Len(r) + 1, [idx |-> Len(r), kind |-> x.kind, up |-> b.up], b)
         /\ Live(k, b, r, x).rw.rewriting /\ Live(k, b, r, x).rw.rawKind = k
         /\ Live(k, b, r, x).rw.nextSynth = Len(r) + 1
         /\ Live(k, b, r, x).rw.cur.idx = Len(r) /\ Live(k, b, r, x).rw.cur.kind = x.kind
         /\ Live(k, b, r, x).rw.cur.up = b.up
         /\ Live(k, b, r, x).rw.cur # NoBlock
         /\ Live(k, b, r, x).rw.block = b
         /\ Live(k, b, r, x).cl = Opened(Append(r, x))
  <1> DEFINE c == [idx |-> Len(r), kind |-> x.kind, up |-> b.up]
             n == Len(r) + 1
             s == Live(k, b, r, x)
  <1>1. s.rw = Writing(k, n, c, b) /\ s.cl = Opened(Append(r, x))
    BY DEF Live
  <1>2. c.idx = Len(r) /\ c.kind = x.kind /\ c.up = b.up /\ c # NoBlock
    BY CurIsBlock
  <1> HIDE DEF c, n, s
  <1>3. s.rw.rewriting /\ s.rw.rawKind = k /\ s.rw.nextSynth = n /\ s.rw.cur = c /\ s.rw.block = b
    BY <1>1, WritingParts
  <1>4. QED
    BY <1>1, <1>2, <1>3 DEF c, n, s

LEMMA LiveCur ==
  ASSUME NEW k, NEW b, NEW r, NEW x
  PROVE  /\ Live(k, b, r, x).rw.cur.kind = x.kind /\ Live(k, b, r, x).rw.cur.up = b.up
         /\ Live(k, b, r, x).rw.cur # NoBlock /\ Live(k, b, r, x).rw.block = b
  <1> DEFINE c == [idx |-> Len(r), kind |-> x.kind, up |-> b.up]
             n == Len(r) + 1
             s == Live(k, b, r, x)
  <1>1. s.rw = Writing(k, n, c, b)
    BY DEF Live
  <1>2. c.kind = x.kind /\ c.up = b.up /\ c # NoBlock
    BY CurIsBlock
  <1> HIDE DEF c, n, s
  <1>3. s.rw.cur = c /\ s.rw.block = b
    BY <1>1, WritingParts
  <1>4. QED
    BY <1>2, <1>3 DEF s

LEMMA LiveOpen ==
  ASSUME NEW k, NEW b, NEW r, NEW x
  PROVE  Live(k, b, r, x).rw.rewriting /\ Live(k, b, r, x).cl = Opened(Append(r, x))
  <1> DEFINE c == [idx |-> Len(r), kind |-> x.kind, up |-> b.up]
             n == Len(r) + 1
             s == Live(k, b, r, x)
  <1>1. s.rw = Writing(k, n, c, b) /\ s.cl = Opened(Append(r, x))
    BY DEF Live
  <1> HIDE DEF c, n, s
  <1>2. s.rw.rewriting
    BY <1>1, WritingParts
  <1>3. QED
    BY <1>1, <1>2 DEF s

\* A block is started when none is open, with the next index.
LEMMA StartIs ==
  ASSUME NEW B, NEW k
  PROVE  OnStart(Shut(B), Len(B), k) = Opened(Append(B, Blk(k, <<>>)))
  BY DEF OnStart, Blk, Shut, Opened

\* The open block is stopped,
LEMMA StopIs ==
  ASSUME NEW r \in Blocks, NEW x \in Block
  PROVE  OnStop(Opened(Append(r, x)), Len(r)) = Shut(Append(r, x))
  <1>1. Len(r) = Len(Append(r, x)) - 1
    BY AppendBlock
  <1>2. QED
    BY <1>1 DEF OnStop, Current, Opened, Shut

\* or gets more text of its kind.
LEMMA DeltaIs ==
  ASSUME NEW r \in Blocks, NEW x \in Block, NEW d \in Text
  PROVE  OnDelta(Opened(Append(r, x)), Len(r), x.kind, d) = Opened(Append(r, Blk(x.kind, x.text \o d)))
  <1> DEFINE B == Append(r, x)
             c == [blocks |-> B, open |-> TRUE, ok |-> TRUE]
  <1>1. Len(r) = Len(B) - 1 /\ B[Len(r) + 1] = x
    BY AppendBlock
  <1>2. Extend(B, d) = Append(r, Blk(x.kind, x.text \o d))
    BY ExtendLast
  <1> HIDE DEF B
  <1>3. c.blocks = B /\ c.open = TRUE /\ c.ok = TRUE
    OBVIOUS
  <1>4. Current(c, Len(r))
    BY <1>1 DEF Current
  <1>5. c.blocks[Len(r) + 1].kind = x.kind
    BY <1>1
  <1>6. OnDelta(c, Len(r), x.kind, d) =
          [blocks |-> Extend(c.blocks, d), open |-> c.open, ok |-> c.ok /\ c.blocks[Len(r) + 1].kind = x.kind]
    BY <1>4 DEF OnDelta
  <1>7. (c.ok /\ c.blocks[Len(r) + 1].kind = x.kind) = TRUE
    BY <1>3, <1>5
  <1>8. OnDelta(c, Len(r), x.kind, d) = [blocks |-> Extend(B, d), open |-> TRUE, ok |-> TRUE]
    BY <1>3, <1>6, <1>7
  <1>9. QED
    BY <1>2, <1>8 DEF B, Opened

\* The open block is closed.
LEMMA CloseLive ==
  ASSUME NEW k, NEW b, NEW r \in Blocks, NEW x \in Block
  PROVE  closeCur(Live(k, b, r, x)) = Idle(k, b, Append(r, x))
  <1> DEFINE s == Live(k, b, r, x)
             c == [idx |-> Len(r), kind |-> x.kind, up |-> b.up]
             n == Len(r) + 1
             B == Append(r, x)
  <1>1. s.rw = Writing(k, n, c, b) /\ s.cl = Opened(B) /\ s.rw.cur.idx = Len(r)
    BY LiveParts
  <1>2. OnStop(Opened(B), Len(r)) = Shut(B)
    BY StopIs
  <1>3. closeCur(s) = [rw |-> [s.rw EXCEPT !.cur = NoBlock], cl |-> OnStop(s.cl, s.rw.cur.idx)]
    BY DEF closeCur
  <1>4. Len(B) = n
    BY AppendBlock
  <1> HIDE DEF s, c, B, n
  <1>5. [s.rw EXCEPT !.cur = NoBlock] = Writing(k, Len(B), NoBlock, b)
    BY <1>1, <1>4, WritingParts
  <1>6. closeCur(s) = [rw |-> Writing(k, Len(B), NoBlock, b), cl |-> Shut(B)]
    BY <1>1, <1>2, <1>3, <1>5
  <1>7. QED
    BY <1>6 DEF Idle, s, B

\* A new one is opened.
LEMMA OpenIdle ==
  ASSUME NEW k, NEW b \in BlockRec, NEW B \in Blocks, NEW q \in Kinds
  PROVE  ensureOpen(Idle(k, b, B), q) = Live(k, Started(b, Len(B)), B, Blk(q, <<>>))
  <1> DEFINE s == Idle(k, b, B)
             x == Blk(q, <<>>)
             e == Started(b, Len(B))
             n == Len(B)
             w == s.rw
  <1>1. w = Writing(k, n, NoBlock, b) /\ w.rawKind = k /\ w.nextSynth = n /\ w.cur = NoBlock /\ w.block = b
    BY IdleParts
  <1>2. OnStart(s.cl, n, q) = Opened(Append(B, x))
    BY IdleParts, StartIs
  <1>3. e.up = b.up /\ x.kind = q
    <2>1. Len(B) \in Nat /\ <<>> \in Text
      BY LenProperties, EmptyText DEF Blocks
    <2>2. e.up = b.up
      BY <2>1, StartedIn
    <2>3. QED
      BY <2>1, <2>2, BlkIn
  <1>4. ensureOpen(s, q) =
          [rw |-> [rewriting |-> w.rewriting, rawKind |-> w.rawKind, nextSynth |-> allocIdx(s),
                   cur |-> [idx |-> w.nextSynth, kind |-> q, up |-> w.block.up],
                   block |-> [w.block EXCEPT !.synth = w.nextSynth, !.started = TRUE]],
           cl |-> OnStart(s.cl, w.nextSynth, q)]
    <2> HIDE DEF s
    <2>1. QED
      BY <1>1 DEF ensureOpen
  <1>5. allocIdx(s) = n + 1
    BY <1>1 DEF allocIdx
  <1>6. [w.block EXCEPT !.synth = w.nextSynth, !.started = TRUE] = e
    BY <1>1 DEF Started
  <1> HIDE DEF s, x, e, n, w
  <1> DEFINE c == [idx |-> n, kind |-> x.kind, up |-> e.up]
  <1>7. [idx |-> w.nextSynth, kind |-> q, up |-> w.block.up] = c
    BY <1>1, <1>3
  <1> HIDE DEF c
  <1>8. [rewriting |-> w.rewriting, rawKind |-> w.rawKind, nextSynth |-> n + 1, cur |-> c, block |-> e] =
          Writing(k, n + 1, c, e)
    BY <1>1, WritingParts
  <1>9. ensureOpen(s, q) = [rw |-> Writing(k, n + 1, c, e), cl |-> Opened(Append(B, x))]
    BY <1>1, <1>2, <1>4, <1>5, <1>6, <1>7, <1>8
  <1>10. QED
    BY <1>9 DEF Live, s, c, n, x, e

LEMMA OpenSame ==
  ASSUME NEW k, NEW b, NEW r, NEW x
  PROVE  ensureOpen(Live(k, b, r, x), x.kind) = Live(k, b, r, x)
  <1> DEFINE s == Live(k, b, r, x)
  <1>1. s.rw.cur.kind = x.kind /\ s.rw.cur.up = b.up /\ s.rw.cur # NoBlock /\ s.rw.block = b
    BY LiveCur
  <1> HIDE DEF s
  <1>2. QED
    BY <1>1 DEF ensureOpen, s

LEMMA OpenOther ==
  ASSUME NEW k, NEW b \in BlockRec, NEW r \in Blocks, NEW x \in Block, NEW q \in Kinds, q # x.kind
  PROVE  ensureOpen(Live(k, b, r, x), q) = Live(k, Started(b, Len(r) + 1), Append(r, x), Blk(q, <<>>))
  <1> DEFINE s == Live(k, b, r, x)
             B == Append(r, x)
             t == Idle(k, b, B)
  <1>1. s.rw.cur.kind = x.kind /\ s.rw.cur # NoBlock
    BY LiveCur
  <1>2. closeCur(s) = t
    BY CloseLive
  <1>3. B \in Blocks /\ Len(B) = Len(r) + 1
    BY AppendBlock
  <1> HIDE DEF B
  <1>4. ensureOpen(t, q) = Live(k, Started(b, Len(B)), B, Blk(q, <<>>)) /\ t.rw.cur = NoBlock
    BY <1>3, OpenIdle, IdleParts
  <1> HIDE DEF s, t
  <1>5. s.rw.cur.kind # q
    BY <1>1
  <1>6. ensureOpen(s, q) = ensureOpen(t, q)
    BY <1>1, <1>2, <1>4, <1>5 DEF ensureOpen
  <1>7. QED
    BY <1>3, <1>4, <1>6 DEF s, B

\* The open block gets a segment of its kind.
LEMMA SayLive ==
  ASSUME NEW k, NEW b, NEW r \in Blocks, NEW x \in Block, NEW d \in Text
  PROVE  [rw |-> Live(k, b, r, x).rw,
          cl |-> OnDelta(Live(k, b, r, x).cl, Live(k, b, r, x).rw.cur.idx, x.kind, d)] =
           Live(k, b, r, Blk(x.kind, x.text \o d))
  <1> DEFINE s == Live(k, b, r, x)
             z == Blk(x.kind, x.text \o d)
             c == [idx |-> Len(r), kind |-> x.kind, up |-> b.up]
  <1>1. s.rw = Writing(k, Len(r) + 1, c, b) /\ s.cl = Opened(Append(r, x)) /\ s.rw.cur.idx = Len(r)
    BY LiveParts
  <1>2. OnDelta(Opened(Append(r, x)), Len(r), x.kind, d) = Opened(Append(r, z))
    BY DeltaIs
  <1>3. z.kind = x.kind
    BY DEF Blk
  <1>4. Live(k, b, r, z) = [rw |-> Writing(k, Len(r) + 1, c, b), cl |-> Opened(Append(r, z))]
    <2> HIDE DEF z
    <2>1. QED
      BY <1>3 DEF Live
  <1> HIDE DEF s, z, c
  <1>5. [rw |-> s.rw, cl |-> OnDelta(s.cl, s.rw.cur.idx, x.kind, d)] = Live(k, b, r, z)
    BY <1>1, <1>2, <1>4
  <1>6. QED
    BY <1>5 DEF s, z

LEMMA EmptyPlus ==
  ASSUME NEW q \in Kinds, NEW d \in Text
  PROVE  Blk(Blk(q, <<>>).kind, Blk(q, <<>>).text \o d) = Blk(q, d) /\ Blk(q, <<>>) \in Block
  <1>1. <<>> \in Text
    BY EmptyText
  <1>2. Blk(q, <<>>) \in Block /\ Blk(q, <<>>).kind = q /\ Blk(q, <<>>).text = <<>>
    BY <1>1, BlkIn
  <1>3. <<>> \o d = d
    BY TextEmpty
  <1>4. QED
    BY <1>2, <1>3

\* A segment opens a block or adds to the one that is open.
LEMMA EmitIdle ==
  ASSUME NEW k, NEW b \in BlockRec, NEW B \in Blocks, NEW g \in Seg
  PROVE  emitSegment(Idle(k, b, B), g) = Live(k, Started(b, Len(B)), B, Blk(g[1], <<g[2]>>))
  <1> DEFINE q == g[1]
             d == <<g[2]>>
             x == Blk(q, <<>>)
             e == Started(b, Len(B))
             o == ensureOpen(Idle(k, b, B), q)
  <1>1. q \in Kinds /\ d \in Text
    BY SegText
  <1>2. emitSegment(Idle(k, b, B), g) = [rw |-> o.rw, cl |-> OnDelta(o.cl, o.rw.cur.idx, q, d)]
    BY DEF emitSegment
  <1> HIDE DEF q, d
  <1>3. x \in Block /\ x.kind = q /\ Blk(x.kind, x.text \o d) = Blk(q, d)
    BY <1>1, EmptyPlus DEF Blk
  <1>4. o = Live(k, e, B, x)
    BY <1>1, OpenIdle
  <1> HIDE DEF o, x, e
  <1>5. [rw |-> o.rw, cl |-> OnDelta(o.cl, o.rw.cur.idx, x.kind, d)] = Live(k, e, B, Blk(x.kind, x.text \o d))
    BY <1>1, <1>3, <1>4, SayLive
  <1>6. QED
    BY <1>2, <1>3, <1>5 DEF e, q, d

LEMMA EmitSame ==
  ASSUME NEW k, NEW b, NEW r \in Blocks, NEW x \in Block, NEW g \in Seg, g[1] = x.kind
  PROVE  emitSegment(Live(k, b, r, x), g) = Live(k, b, r, Blk(x.kind, x.text \o <<g[2]>>))
  <1> DEFINE d == <<g[2]>>
             o == ensureOpen(Live(k, b, r, x), g[1])
  <1>1. d \in Text
    BY SegText
  <1>2. emitSegment(Live(k, b, r, x), g) = [rw |-> o.rw, cl |-> OnDelta(o.cl, o.rw.cur.idx, g[1], d)]
    BY DEF emitSegment
  <1> HIDE DEF d
  <1>3. o = Live(k, b, r, x)
    BY OpenSame
  <1> HIDE DEF o
  <1>4. [rw |-> o.rw, cl |-> OnDelta(o.cl, o.rw.cur.idx, x.kind, d)] = Live(k, b, r, Blk(x.kind, x.text \o d))
    BY <1>1, <1>3, SayLive
  <1>5. QED
    BY <1>2, <1>4 DEF d

LEMMA EmitOther ==
  ASSUME NEW k, NEW b \in BlockRec, NEW r \in Blocks, NEW x \in Block, NEW g \in Seg, g[1] # x.kind
  PROVE  emitSegment(Live(k, b, r, x), g) =
           Live(k, Started(b, Len(r) + 1), Append(r, x), Blk(g[1], <<g[2]>>))
  <1> DEFINE q == g[1]
             d == <<g[2]>>
             y == Blk(q, <<>>)
             e == Started(b, Len(r) + 1)
             o == ensureOpen(Live(k, b, r, x), q)
             B == Append(r, x)
  <1>1. q \in Kinds /\ d \in Text /\ B \in Blocks
    BY SegText, AppendBlock
  <1>2. emitSegment(Live(k, b, r, x), g) = [rw |-> o.rw, cl |-> OnDelta(o.cl, o.rw.cur.idx, q, d)]
    BY DEF emitSegment
  <1>a. q # x.kind
    OBVIOUS
  <1> HIDE DEF q, d
  <1>3. y \in Block /\ y.kind = q /\ Blk(y.kind, y.text \o d) = Blk(q, d)
    BY <1>1, EmptyPlus DEF Blk
  <1>4. o = Live(k, e, B, y)
    BY <1>1, <1>a, OpenOther
  <1> HIDE DEF o, y, e, B
  <1>5. [rw |-> o.rw, cl |-> OnDelta(o.cl, o.rw.cur.idx, y.kind, d)] = Live(k, e, B, Blk(y.kind, y.text \o d))
    BY <1>1, <1>3, <1>4, SayLive
  <1>6. QED
    BY <1>2, <1>3, <1>5 DEF e, q, d, B

-----------------------------------------------------------------------------
(* The segments of a block.                                                *)

\* What the rewriter and the client are once a marker was seen in a block.
Flows ==
  {Idle(k, b, B) : k \in Raws, b \in BlockRec, B \in Blocks} \cup
  {Live(k, b, r, x) : k \in Raws, b \in BlockRec, r \in Blocks, x \in Block}

LEMMA FlowCases ==
  ASSUME NEW s \in Flows
  PROVE  \/ \E k \in Raws, b \in BlockRec, B \in Blocks : s = Idle(k, b, B)
         \/ \E k \in Raws, b \in BlockRec, r \in Blocks, x \in Block : s = Live(k, b, r, x)
  BY DEF Flows

LEMMA IdleIn ==
  ASSUME NEW k \in Raws, NEW b \in BlockRec, NEW B \in Blocks
  PROVE  Idle(k, b, B) \in Flows
  BY DEF Flows

LEMMA LiveIn ==
  ASSUME NEW k \in Raws, NEW b \in BlockRec, NEW r \in Blocks, NEW x \in Block
  PROVE  Live(k, b, r, x) \in Flows
  BY DEF Flows

LEMMA FlowIs ==
  ASSUME NEW s \in Flows
  PROVE  s = [rw |-> s.rw, cl |-> s.cl]
  <1>1. ASSUME NEW k, NEW b, NEW B PROVE Idle(k, b, B) = [rw |-> Idle(k, b, B).rw, cl |-> Idle(k, b, B).cl]
    BY DEF Idle
  <1>2. ASSUME NEW k, NEW b, NEW r, NEW x
        PROVE  Live(k, b, r, x) = [rw |-> Live(k, b, r, x).rw, cl |-> Live(k, b, r, x).cl]
    BY DEF Live
  <1>3. QED
    BY <1>1, <1>2, FlowCases

LEMMA LenOf ==
  ASSUME NEW B \in Blocks
  PROVE  Len(B) \in Nat /\ Len(B) + 1 \in Nat
  <1>1. Len(B) \in Nat
    BY LenProperties DEF Blocks
  <1>2. QED
    BY <1>1

LEMMA EmitIn ==
  ASSUME NEW s \in Flows, NEW g \in Seg
  PROVE  emitSegment(s, g) \in Flows
  <1> DEFINE d == <<g[2]>>
             c == Blk(g[1], d)
  <1>1. c \in Block /\ d \in Text
    BY SegText
  <1>2. ASSUME NEW k \in Raws, NEW b \in BlockRec, NEW B \in Blocks, s = Idle(k, b, B)
        PROVE  emitSegment(s, g) \in Flows
    <2> DEFINE e == Started(b, Len(B))
    <2>1. e \in BlockRec
      BY LenOf, StartedIn
    <2>2. emitSegment(s, g) = Live(k, e, B, c)
      BY <1>2, EmitIdle
    <2> HIDE DEF e, c
    <2>3. QED
      BY <1>1, <2>1, <2>2, LiveIn
  <1>3. ASSUME NEW k \in Raws, NEW b \in BlockRec, NEW r \in Blocks, NEW x \in Block, s = Live(k, b, r, x)
        PROVE  emitSegment(s, g) \in Flows
    <2>1. CASE g[1] = x.kind
      <3> DEFINE z == Blk(x.kind, x.text \o d)
      <3>1. z \in Block
        BY <1>1, ExtendLast
      <3>2. emitSegment(s, g) = Live(k, b, r, z)
        BY <1>3, <2>1, EmitSame
      <3> HIDE DEF z
      <3>3. QED
        BY <3>1, <3>2, LiveIn
    <2>2. CASE g[1] # x.kind
      <3> DEFINE e == Started(b, Len(r) + 1)
                 B == Append(r, x)
      <3>1. e \in BlockRec /\ B \in Blocks
        BY LenOf, StartedIn, AppendBlock
      <3>2. emitSegment(s, g) = Live(k, e, B, c)
        BY <1>3, <2>2, EmitOther
      <3> HIDE DEF e, c, B
      <3>3. QED
        BY <1>1, <3>1, <3>2, LiveIn
    <2>3. QED
      BY <2>1, <2>2
  <1> HIDE DEF c, d
  <1>4. QED
    BY <1>2, <1>3, FlowCases

EmitLoop == [g \in Seg |-> [s \in Flows |-> emitSegment(s, g)]]

LEMMA EmitStep ==
  ASSUME NEW o \in Flows
  PROVE  /\ EmitLoop \in [Seg -> [Flows -> Flows]] /\ o \in Flows
         /\ \A g \in Seg : \A s \in Flows : EmitLoop[g][s] = emitSegment(s, g)
  BY EmitIn DEF EmitLoop

LEMMA EmitFold ==
  ASSUME NEW o \in Flows, NEW s \in Seq(Seg)
  PROVE  emitSegments(o, s) = FoldEnd(Flows, EmitLoop, o, s)
  <1> DEFINE n == CHOOSE f : f = [k \in 0 .. Len(s) |-> IF k = 0 THEN o ELSE emitSegment(f[k - 1], s[k])]
  <1>0. EmitLoop \in [Seg -> [Flows -> Flows]] /\ o \in Flows /\ Len(s) \in Nat
    BY EmitStep, LenProperties
  <1>1. PICK h : Folds(Flows, EmitLoop, o, s, h)
    BY <1>0, FoldsExist
  <1>2. /\ h \in [0 .. Len(s) -> Flows] /\ h[0] = o
        /\ \A k \in 1 .. Len(s) : h[k] = EmitLoop[s[k]][h[k - 1]]
    BY <1>1 DEF Folds
  <1>3. ASSUME NEW k \in 1 .. Len(s) PROVE h[k] = emitSegment(h[k - 1], s[k])
    <2>1. k - 1 \in 0 .. Len(s) /\ s[k] \in Seg
      BY <1>0, ElementOfSeq
    <2>2. h[k - 1] \in Flows
      BY <1>2, <2>1
    <2>3. EmitLoop[s[k]][h[k - 1]] = emitSegment(h[k - 1], s[k])
      BY <2>1, <2>2, EmitStep
    <2>4. QED
      BY <1>2, <2>3
  <1>4. h = [k \in 0 .. Len(s) |-> IF k = 0 THEN o ELSE emitSegment(h[k - 1], s[k])]
    <2>1. ASSUME NEW k \in 0 .. Len(s) PROVE h[k] = IF k = 0 THEN o ELSE emitSegment(h[k - 1], s[k])
      <3>1. k = 0 \/ k \in 1 .. Len(s)
        BY <1>0
      <3>2. QED
        BY <1>2, <1>3, <3>1
    <2>2. QED
      BY <1>2, <2>1
  <1>5. n = [k \in 0 .. Len(s) |-> IF k = 0 THEN o ELSE emitSegment(n[k - 1], s[k])]
    BY <1>4
  <1>6. emitSegments(o, s) = n[Len(s)]
    BY DEF emitSegments
  <1> HIDE DEF n
  <1>7. n[0] = o
    BY <1>0, <1>5
  <1>8. ASSUME NEW k \in 1 .. Len(s) PROVE n[k] = emitSegment(n[k - 1], s[k])
    <2>1. k \in 0 .. Len(s) /\ k # 0
      BY <1>0
    <2>2. QED
      BY <1>5, <2>1
  <1>9. ASSUME NEW k \in Nat PROVE k <= Len(s) => n[k] = h[k]
    <2> DEFINE S == {i \in Nat : i <= Len(s) => n[i] = h[i]}
    <2>1. 0 \in S
      BY <1>2, <1>7
    <2>2. ASSUME NEW i \in Nat, i \in S PROVE i + 1 \in S
      <3>1. CASE i + 1 <= Len(s)
        <4>1. i + 1 \in 1 .. Len(s) /\ (i + 1) - 1 = i /\ i <= Len(s)
          BY <1>0, <3>1
        <4>2. n[i] = h[i]
          BY <2>2, <4>1
        <4>3. n[i + 1] = emitSegment(n[i], s[i + 1]) /\ h[i + 1] = emitSegment(h[i], s[i + 1])
          BY <1>3, <1>8, <4>1
        <4>4. QED
          BY <4>2, <4>3
      <3>2. CASE ~(i + 1 <= Len(s))
        BY <3>2
      <3>3. QED
        BY <3>1, <3>2
    <2> HIDE DEF S
    <2>3. k \in S
      BY <2>1, <2>2, InductiveSet
    <2>4. QED
      BY <2>3 DEF S
  <1>10. h[Len(s)] = FoldEnd(Flows, EmitLoop, o, s)
    BY <1>0, <1>1, FoldEndOf
  <1>11. n[Len(s)] = h[Len(s)]
    <2>1. Len(s) <= Len(s)
      BY <1>0
    <2>2. QED
      BY <1>0, <1>9, <2>1
  <1>12. QED
    BY <1>6, <1>10, <1>11

\* The segments, one after the other.
LEMMA EmitFacts ==
  ASSUME NEW o \in Flows, NEW s \in Seq(Seg)
  PROVE  /\ emitSegments(o, s) \in Flows /\ emitSegments(o, <<>>) = o
         /\ \A a \in Seg : emitSegments(o, Append(s, a)) = emitSegment(emitSegments(o, s), a)
  <1>0. EmitLoop \in [Seg -> [Flows -> Flows]] /\ o \in Flows /\ <<>> \in Seq(Seg)
    BY EmitStep, EmptySeq
  <1>1. emitSegments(o, s) = FoldEnd(Flows, EmitLoop, o, s)
    BY EmitFold
  <1>2. emitSegments(o, <<>>) = FoldEnd(Flows, EmitLoop, o, <<>>)
    BY <1>0, EmitFold
  <1>3. FoldEnd(Flows, EmitLoop, o, s) \in Flows /\ FoldEnd(Flows, EmitLoop, o, <<>>) = o
    BY <1>0, FoldEndIn, FoldEndEmpty
  <1>4. ASSUME NEW a \in Seg PROVE emitSegments(o, Append(s, a)) = emitSegment(emitSegments(o, s), a)
    <2>1. Append(s, a) \in Seq(Seg)
      BY AppendProperties
    <2>2. emitSegments(o, Append(s, a)) = FoldEnd(Flows, EmitLoop, o, Append(s, a))
      BY <2>1, EmitFold
    <2>3. FoldEnd(Flows, EmitLoop, o, Append(s, a)) = EmitLoop[a][FoldEnd(Flows, EmitLoop, o, s)]
      <3> DEFINE X == Flows
                 z == o
      <3> HIDE DEF X, z
      <3>1. EmitLoop \in [Seg -> [X -> X]] /\ z \in X
        BY <1>0 DEF X, z
      <3>2. FoldEnd(X, EmitLoop, z, Append(s, a)) = EmitLoop[a][FoldEnd(X, EmitLoop, z, s)]
        BY <3>1, FoldEndAppend
      <3>3. QED
        BY <3>2 DEF X, z
    <2>4. EmitLoop[a][emitSegments(o, s)] = emitSegment(emitSegments(o, s), a)
      BY <1>1, <1>3, EmitStep
    <2>5. QED
      BY <1>1, <2>2, <2>3, <2>4
  <1>5. QED
    BY <1>1, <1>2, <1>3, <1>4

LEMMA SameItself ==
  ASSUME NEW B
  PROVE  Same(B, B)
  BY DEF Same

\* The block being rewritten has said nothing yet after A,
Quiet(s, A) ==
  \/ \E k \in Raws, b \in BlockRec, B \in Blocks : s = Idle(k, b, B) /\ Same(B, A)
  \/ \E k \in Raws, b \in BlockRec, r \in Blocks, x \in Block :
       s = Live(k, b, r, x) /\ x.text = <<>> /\ Same(r, A)

\* or what was said is O, whose last block is the open one.
Talks(s, O) ==
  \E k \in Raws, b \in BlockRec, r \in Blocks, x \in Block, P \in Blocks :
    s = Live(k, b, r, x) /\ O = Append(P, x) /\ Same(r, P)

LEMMA TalksBy ==
  ASSUME NEW k \in Raws, NEW b \in BlockRec, NEW r \in Blocks, NEW x \in Block, NEW P \in Blocks,
         NEW s, NEW O, s = Live(k, b, r, x), O = Append(P, x), Same(r, P)
  PROVE  Talks(s, O)
  BY DEF Talks

LEMMA EmitQuiet ==
  ASSUME NEW s, NEW A \in Blocks, NEW g \in Seg, Quiet(s, A)
  PROVE  Talks(emitSegment(s, g), A \o mergeSegment(<<>>, g))
  <1> DEFINE d == <<g[2]>>
             c == Blk(g[1], d)
             t == emitSegment(s, g)
             O == A \o mergeSegment(<<>>, g)
  <1>1. c \in Block /\ d \in Text /\ g[1] \in Kinds
    BY SegText
  <1>2. O = Append(A, c)
    BY MergeFirst
  <1>3. ASSUME NEW k \in Raws, NEW b \in BlockRec, NEW B \in Blocks, s = Idle(k, b, B), Same(B, A)
        PROVE  Talks(t, O)
    <2> DEFINE e == Started(b, Len(B))
    <2>1. e \in BlockRec
      BY LenOf, StartedIn
    <2>2. t = Live(k, e, B, c)
      BY <1>3, EmitIdle
    <2> HIDE DEF e, c, t, O
    <2>3. QED
      BY <1>1, <1>2, <1>3, <2>1, <2>2, TalksBy
  <1>4. ASSUME NEW k \in Raws, NEW b \in BlockRec, NEW r \in Blocks, NEW x \in Block, s = Live(k, b, r, x),
               x.text = <<>>, Same(r, A)
        PROVE  Talks(t, O)
    <2>1. CASE g[1] = x.kind
      <3>1. <<>> \o d = d
        BY <1>1, TextEmpty
      <3>2. t = Live(k, b, r, Blk(x.kind, x.text \o d))
        BY <1>4, <2>1, EmitSame
      <3> HIDE DEF d
      <3>3. t = Live(k, b, r, c)
        BY <1>4, <2>1, <3>1, <3>2
      <3> HIDE DEF c, t, O
      <3>4. QED
        BY <1>1, <1>2, <1>4, <3>3, TalksBy
    <2>2. CASE g[1] # x.kind
      <3> DEFINE e == Started(b, Len(r) + 1)
                 B == Append(r, x)
      <3>1. e \in BlockRec /\ B \in Blocks
        BY LenOf, StartedIn, AppendBlock
      <3>2. t = Live(k, e, B, c)
        BY <1>4, <2>2, EmitOther
      <3>3. Same(B, A)
        BY <1>4, SameEmpty
      <3> HIDE DEF e, c, B, t, O
      <3>4. QED
        BY <1>1, <1>2, <3>1, <3>2, <3>3, TalksBy
    <2>3. QED
      BY <2>1, <2>2
  <1> HIDE DEF c, d, t, O
  <1>5. Talks(t, O)
    BY <1>3, <1>4 DEF Quiet
  <1>6. QED
    BY <1>5 DEF t, O

LEMMA AppendsEqual ==
  ASSUME NEW P \in Blocks, NEW Q \in Blocks, NEW x \in Block, NEW y \in Block
  PROVE  Append(P, x) = Append(Q, y) => P = Q /\ x = y
  <1>1. P \in Seq(Block) /\ Q \in Seq(Block)
    BY DEF Blocks
  <1>2. QED
    BY <1>1, AppendInjective

LEMMA EmitTalks ==
  ASSUME NEW s, NEW A \in Blocks, NEW M \in Blocks, M # <<>>, NEW g \in Seg, Talks(s, A \o M)
  PROVE  Talks(emitSegment(s, g), A \o mergeSegment(M, g))
  <1> DEFINE d == <<g[2]>>
             c == Blk(g[1], d)
             t == emitSegment(s, g)
             O == A \o mergeSegment(M, g)
  <1>1. c \in Block /\ d \in Text /\ g[1] \in Kinds
    BY SegText
  <1>2. PICK q \in Blocks, y \in Block : M = Append(q, y)
    BY LastBlock
  <1>3. PICK k \in Raws, b \in BlockRec, r \in Blocks, x \in Block, P \in Blocks :
          s = Live(k, b, r, x) /\ A \o M = Append(P, x) /\ Same(r, P)
    BY DEF Talks
  <1>4. A \o M = Append(A \o q, y)
    BY <1>2, MergeNext
  <1>5. O = IF y.kind = g[1] THEN Append(A \o q, Blk(y.kind, y.text \o d)) ELSE Append(A \o M, c)
    BY <1>2, MergeNext, SMTT(20)
  <1>6. P = A \o q /\ x = y
    <2> DEFINE Q == A \o q
    <2>1. Q \in Blocks
      BY BlocksAppend
    <2>2. Append(P, x) = Append(Q, y)
      BY <1>3, <1>4
    <2> HIDE DEF Q
    <2>3. Append(P, x) = Append(Q, y) => P = Q /\ x = y
      BY <2>1, AppendsEqual
    <2>4. P = Q /\ x = y
      BY <2>2, <2>3
    <2>5. QED
      BY <2>4 DEF Q
  <1>7. CASE g[1] = x.kind
    <2> DEFINE z == Blk(x.kind, x.text \o d)
    <2>1. t = Live(k, b, r, z)
      BY <1>3, <1>7, EmitSame
    <2>2. O = Append(P, z)
      BY <1>5, <1>6, <1>7
    <2>3. z \in Block
      BY <1>1, ExtendLast
    <2> HIDE DEF z, t, O
    <2>4. Talks(t, O)
      BY <1>3, <2>1, <2>2, <2>3, TalksBy
    <2>5. QED
      BY <2>4 DEF t, O
  <1>8. CASE g[1] # x.kind
    <2> DEFINE e == Started(b, Len(r) + 1)
               B == Append(r, x)
               S == Append(P, x)
    <2>1. e \in BlockRec /\ B \in Blocks /\ S \in Blocks
      BY LenOf, StartedIn, AppendBlock
    <2>2. t = Live(k, e, B, c)
      BY <1>3, <1>8, EmitOther
    <2>3. O = Append(S, c)
      BY <1>3, <1>5, <1>6, <1>8
    <2>4. Same(B, S)
      BY <1>3, SameAppend
    <2> HIDE DEF e, B, S, c, t, O
    <2>5. Talks(t, O)
      BY <1>1, <2>1, <2>2, <2>3, <2>4, TalksBy
    <2>6. QED
      BY <2>5 DEF t, O
  <1>9. QED
    BY <1>7, <1>8

\* The block has been rewritten to the segments h after the blocks A.
InBlock(s, A, h) ==
  /\ h = <<>> => Quiet(s, A)
  /\ h # <<>> => Talks(s, A \o mergeSegments(h))

LEMMA InFlow ==
  ASSUME NEW s, NEW A, NEW h, InBlock(s, A, h)
  PROVE  s \in Flows
  <1>1. Quiet(s, A) => s \in Flows
    BY IdleIn, LiveIn DEF Quiet
  <1>2. ASSUME NEW O, Talks(s, O) PROVE s \in Flows
    BY <1>2, LiveIn DEF Talks
  <1>3. QED
    BY <1>1, <1>2 DEF InBlock

LEMMA SegsAppend ==
  ASSUME NEW h \in Segs, NEW g \in Seg
  PROVE  /\ mergeSegments(Append(h, g)) = mergeSegment(mergeSegments(h), g)
         /\ mergeSegments(h) \in Blocks /\ Append(h, g) \in Segs /\ Append(h, g) # <<>>
         /\ mergeSegments(Append(h, g)) # <<>>
  <1> DEFINE M == mergeSegments(h)
             c == Blk(g[1], <<g[2]>>)
  <1>1. h \in Seq(Seg)
    BY SegIs
  <1>2. M \in Blocks /\ \A a \in Seg : mergeSegments(Append(h, a)) = mergeSegment(M, a)
    BY <1>1, MergeFacts
  <1>3. Append(h, g) \in Segs /\ Append(h, g) # <<>>
    BY <1>1, AppendProperties, SegIs
  <1>4. mergeSegment(M, g) # <<>>
    <2>1. c \in Block /\ <<g[2]>> \in Text
      BY SegText
    <2>2. Append(M, c) # <<>>
      BY <1>2, <2>1, AppendBlock
    <2>3. CASE M = <<>>
      <3>1. mergeSegment(M, g) = Append(M, c)
        BY <1>2, <2>3, MergeIs
      <3>2. QED
        BY <2>2, <3>1
    <2>4. CASE M # <<>>
      <3>1. PICK r \in Blocks, b \in Block : M = Append(r, b)
        BY <1>2, <2>4, LastBlock
      <3> DEFINE z == Blk(b.kind, b.text \o <<g[2]>>)
      <3>2. mergeSegment(M, g) = IF b.kind = g[1] THEN Append(r, z) ELSE Append(M, c)
        BY <1>2, <3>1, MergeIs
      <3>3. z \in Block
        BY <2>1, ExtendLast
      <3> HIDE DEF z
      <3>4. Append(r, z) # <<>>
        BY <3>3, AppendBlock
      <3>5. QED
        BY <2>2, <3>2, <3>4
    <2>5. QED
      BY <2>3, <2>4
  <1> HIDE DEF M
  <1>5. QED
    BY <1>2, <1>3, <1>4 DEF M

LEMMA MergeSome ==
  ASSUME NEW h \in Segs, h # <<>>
  PROVE  mergeSegments(h) # <<>>
  <1>1. PICK q \in Seq(Seg), g \in Seg : h = Append(q, g)
    BY SequenceEmptyOrAppend, SegIs
  <1>2. q \in Segs
    BY SegIs
  <1>3. QED
    BY <1>1, <1>2, SegsAppend

LEMMA SegsJoin ==
  ASSUME NEW h \in Seq(Seg), NEW e \in Seq(Seg), NEW a \in Seg
  PROVE  Append(h \o e, a) = h \o Append(e, a)
  <1>1. <<a>> \in Seq(Seg) /\ h \o e \in Seq(Seg)
    BY ConcatProperties
  <1>2. Append(h \o e, a) = (h \o e) \o <<a>> /\ Append(e, a) = e \o <<a>>
    BY <1>1, AppendIsConcat
  <1>3. (h \o e) \o <<a>> = h \o (e \o <<a>>)
    BY <1>1, ConcatAssociative
  <1>4. QED
    BY <1>2, <1>3

\* One more segment,
LEMMA InBlockAppend ==
  ASSUME NEW s, NEW A \in Blocks, NEW h \in Segs, NEW g \in Seg, InBlock(s, A, h)
  PROVE  InBlock(emitSegment(s, g), A, Append(h, g))
  <1> DEFINE M == mergeSegments(h)
             n == Append(h, g)
  <1>1. mergeSegments(n) = mergeSegment(M, g) /\ M \in Blocks /\ n # <<>>
    BY SegsAppend
  <1>2. CASE h = <<>>
    <2>1. Quiet(s, A)
      BY <1>2 DEF InBlock
    <2>2. M = <<>>
      BY <1>2, MergeFacts, SegIs
    <2>3. Talks(emitSegment(s, g), A \o mergeSegment(<<>>, g))
      BY <2>1, EmitQuiet
    <2>4. QED
      BY <1>1, <2>2, <2>3 DEF InBlock
  <1>3. CASE h # <<>>
    <2>1. Talks(s, A \o M) /\ M # <<>>
      BY <1>3, MergeSome DEF InBlock
    <2> HIDE DEF M
    <2>2. Talks(emitSegment(s, g), A \o mergeSegment(M, g))
      BY <1>1, <2>1, EmitTalks
    <2>3. QED
      BY <1>1, <2>2 DEF InBlock
  <1>4. QED
    BY <1>2, <1>3

\* and all that the scanner gave for a delta.
LEMMA InBlockAll ==
  ASSUME NEW s, NEW A \in Blocks, NEW h \in Segs, NEW g \in Segs, InBlock(s, A, h)
  PROVE  InBlock(emitSegments(s, g), A, h \o g)
  <1> DEFINE S == {e \in Segs : InBlock(emitSegments(s, e), A, h \o e)}
  <1>0. s \in Flows
    BY InFlow
  <1>1. <<>> \in S
    <2>1. <<>> \in Segs /\ h \o <<>> = h
      BY SegsEmpty
    <2>2. emitSegments(s, <<>>) = s
      BY <1>0, <2>1, EmitFacts, SegIs
    <2>3. QED
      BY <2>1, <2>2
  <1>2. ASSUME NEW e \in Seq(Seg), NEW a \in Seg, e \in S PROVE Append(e, a) \in S
    <2> DEFINE t == emitSegments(s, e)
               n == h \o e
    <2>1. InBlock(t, A, n) /\ e \in Segs
      BY <1>2
    <2>2. n \in Segs /\ Append(n, a) = h \o Append(e, a)
      <3>1. h \in Seq(Seg)
        BY SegIs
      <3>2. n \in Seq(Seg)
        BY <3>1, ConcatProperties
      <3>3. Append(n, a) = h \o Append(e, a)
        BY <1>2, <3>1, SegsJoin
      <3>4. QED
        BY <3>2, <3>3, SegIs
    <2>3. emitSegments(s, Append(e, a)) = emitSegment(t, a)
      BY <1>0, EmitFacts
    <2>4. Append(e, a) \in Segs
      BY <2>1, SegsAppend
    <2> HIDE DEF t, n
    <2>5. InBlock(emitSegment(t, a), A, Append(n, a))
      BY <2>1, <2>2, InBlockAppend
    <2>6. QED
      BY <2>2, <2>3, <2>4, <2>5
  <1> HIDE DEF S
  <1>3. Segs \subseteq S
    BY <1>1, <1>2, InductiveSequences, SegIs
  <1>4. QED
    BY <1>3 DEF S

\* The client then has what the segments say, and every block but the last closed.
LEMMA InBlockSame ==
  ASSUME NEW s, NEW A \in Blocks, NEW h \in Segs, InBlock(s, A, h)
  PROVE  s.cl.ok /\ s.rw.rewriting /\ Same(s.cl.blocks, A \o mergeSegments(h))
  <1> DEFINE M == mergeSegments(h)
  <1>0. A \o <<>> = A
    BY ConcatEmptySeq DEF Blocks
  <1>1. ASSUME NEW k, NEW b, NEW B, s = Idle(k, b, B)
        PROVE  s.cl.ok /\ s.rw.rewriting /\ s.cl.blocks = B
    <2>1. s.cl = Shut(B) /\ s.rw.rewriting
      BY <1>1, IdleParts
    <2>2. QED
      BY <2>1, ClientParts
  <1>2. ASSUME NEW k, NEW b, NEW r, NEW x, s = Live(k, b, r, x)
        PROVE  s.cl.ok /\ s.rw.rewriting /\ s.cl.blocks = Append(r, x)
    <2>1. s.cl = Opened(Append(r, x)) /\ s.rw.rewriting
      BY <1>2, LiveOpen
    <2>2. QED
      BY <2>1, ClientParts
  <1>3. CASE h = <<>>
    <2>1. M = <<>>
      BY <1>3, MergeFacts, SegIs
    <2>2. Quiet(s, A)
      BY <1>3 DEF InBlock
    <2>3. ASSUME NEW k \in Raws, NEW b \in BlockRec, NEW B \in Blocks, s = Idle(k, b, B), Same(B, A)
          PROVE  s.cl.ok /\ s.rw.rewriting /\ Same(s.cl.blocks, A)
      BY <1>1, <2>3
    <2>4. ASSUME NEW k \in Raws, NEW b \in BlockRec, NEW r \in Blocks, NEW x \in Block,
                 s = Live(k, b, r, x), x.text = <<>>, Same(r, A)
          PROVE  s.cl.ok /\ s.rw.rewriting /\ Same(s.cl.blocks, A)
      <3>1. Same(Append(r, x), A)
        BY <2>4, SameEmpty
      <3>2. QED
        BY <1>2, <2>4, <3>1
    <2>5. s.cl.ok /\ s.rw.rewriting /\ Same(s.cl.blocks, A)
      BY <2>2, <2>3, <2>4 DEF Quiet
    <2>6. QED
      BY <1>0, <2>1, <2>5
  <1>4. CASE h # <<>>
    <2>1. PICK k \in Raws, b \in BlockRec, r \in Blocks, x \in Block, P \in Blocks :
            s = Live(k, b, r, x) /\ A \o M = Append(P, x) /\ Same(r, P)
      BY <1>4 DEF InBlock, Talks
    <2>2. Same(Append(r, x), Append(P, x))
      BY <2>1, SameAppend
    <2>3. s.cl.ok /\ s.rw.rewriting /\ s.cl.blocks = Append(r, x)
      BY <1>2, <2>1
    <2>4. QED
      BY <2>1, <2>2, <2>3
  <1>5. QED
    BY <1>3, <1>4

-----------------------------------------------------------------------------
(* How a response grows.                                                   *)

LEMMA RewrittenIn ==
  ASSUME NEW c \in Blocks
  PROVE  /\ Rewritten(c) \in Rewrites /\ Rewritten(c).sc \in Scanners /\ Rewritten(c).out \in Blocks
         /\ Rewritten(c).sc.flipped \in BOOLEAN
  <1> DEFINE s == Rewritten(c)
  <1>1. s \in Rewrites
    BY RewriteFacts DEF Blocks
  <1> HIDE DEF s
  <1>2. s.sc \in Scanners /\ s.out \in Blocks
    BY <1>1 DEF Rewrites
  <1>3. s.sc.flipped \in BOOLEAN
    BY <1>2, ScannerParts
  <1>4. QED
    BY <1>1, <1>2, <1>3 DEF s

\* What the last block makes of a response.
LEMMA RewriteLast ==
  ASSUME NEW c \in Blocks, NEW b \in Block
  PROVE  /\ ~Scannable(b.kind) =>
              /\ Rewritten(Append(c, b)).sc = Rewritten(c).sc
              /\ Rewritten(Append(c, b)).out = Append(Rewritten(c).out, b)
         /\ Scannable(b.kind) => Rewritten(Append(c, b)).sc = Fed(Rewritten(c), b).sc
         /\ Scannable(b.kind) /\ No(Fed(Rewritten(c), b).sc.flipped) =>
              Rewritten(Append(c, b)).out =
                Append(Rewritten(c).out, Blk(b.kind, PiecesOf(Fed(Rewritten(c), b).segs)))
         /\ Scannable(b.kind) /\ Yes(Fed(Rewritten(c), b).sc.flipped) =>
              Rewritten(Append(c, b)).out = Rewritten(c).out \o mergeSegments(Fed(Rewritten(c), b).segs)
  <1> DEFINE s == Rewritten(c)
             t == Rewritten(Append(c, b))
             u == Fed(s, b)
  <1>1. s \in Rewrites /\ t = RewriteBlock(s, b)
    BY RewriteFacts DEF Blocks
  <1>2. u.sc.flipped \in BOOLEAN
    BY <1>1, FedFacts
  <1> HIDE DEF s, t
  <1>3. ~Scannable(b.kind) => t = Rw(s.sc, Append(s.out, b))
    BY <1>1, RewriteOther
  <1>4. Scannable(b.kind) /\ No(u.sc.flipped) => t = Rw(u.sc, Append(s.out, Blk(b.kind, PiecesOf(u.segs))))
    BY <1>1, RewritePlain
  <1>5. Scannable(b.kind) /\ Yes(u.sc.flipped) => t = Rw(u.sc, s.out \o mergeSegments(u.segs))
    BY <1>1, RewriteSplit
  <1> HIDE DEF u
  <1>6. No(u.sc.flipped) \/ Yes(u.sc.flipped)
    BY <1>2 DEF Yes, No
  <1>7. ~Scannable(b.kind) => t.sc = s.sc /\ t.out = Append(s.out, b)
    BY <1>3 DEF Rw
  <1>8. Scannable(b.kind) /\ No(u.sc.flipped) =>
          t.sc = u.sc /\ t.out = Append(s.out, Blk(b.kind, PiecesOf(u.segs)))
    BY <1>4 DEF Rw
  <1>9. Scannable(b.kind) /\ Yes(u.sc.flipped) => t.sc = u.sc /\ t.out = s.out \o mergeSegments(u.segs)
    <2> DEFINE O == s.out \o mergeSegments(u.segs)
    <2>1. Scannable(b.kind) /\ Yes(u.sc.flipped) => t = Rw(u.sc, O)
      BY <1>5
    <2> HIDE DEF O
    <2>2. Scannable(b.kind) /\ Yes(u.sc.flipped) => t.sc = u.sc /\ t.out = O
      BY <2>1 DEF Rw
    <2>3. QED
      BY <2>2 DEF O
  <1>10. QED
    BY <1>6, <1>7, <1>8, <1>9 DEF s, t, u

\* A response that has been repaired stays so.
LEMMA FlipStays ==
  ASSUME NEW c \in Blocks, NEW b \in Block
  PROVE  No(Rewritten(Append(c, b)).sc.flipped) => No(Rewritten(c).sc.flipped)
  <1> DEFINE s == Rewritten(c)
             t == Rewritten(Append(c, b))
             u == Fed(s, b)
             z == Seed(s.sc, b.kind)
  <1>1. s \in Rewrites /\ s.sc \in Scanners /\ s.sc.flipped \in BOOLEAN
    BY RewrittenIn
  <1>2. z \in Scanners /\ z.flipped = s.sc.flipped
    BY <1>1, SeedFacts
  <1>3. b.text \in Text
    BY BlockParts
  <1>4. ~Scannable(b.kind) => t.sc = s.sc
    BY RewriteLast
  <1>5. Scannable(b.kind) => t.sc = u.sc
    BY RewriteLast
  <1>6. u = Feed(z, b.text)
    BY DEF Fed
  <1> HIDE DEF s, t, u, z
  <1>7. Yes(z.flipped) => Yes(u.sc.flipped)
    BY <1>2, <1>3, <1>6, FeedSection
  <1>8. No(t.sc.flipped) => No(s.sc.flipped)
    BY <1>1, <1>2, <1>4, <1>5, <1>7 DEF Yes, No
  <1>9. QED
    BY <1>8 DEF s, t

\* Until then it has the blocks that were sent.
LEMMA PlainLength ==
  ASSUME NEW c \in Blocks
  PROVE  No(Rewritten(c).sc.flipped) => Len(Rewritten(c).out) = Len(c)
  <1> DEFINE S == {e \in Blocks : No(Rewritten(e).sc.flipped) => Len(Rewritten(e).out) = Len(e)}
  <1>1. <<>> \in S
    <2>1. <<>> \in Seq(Block)
      BY EmptySeq
    <2>2. Rewritten(<<>>) = Unwritten /\ <<>> \in Blocks
      BY <2>1, RewriteFacts DEF Blocks
    <2>3. Unwritten.out = <<>>
      BY DEF Unwritten
    <2>4. QED
      BY <2>2, <2>3
  <1>2. ASSUME NEW e \in Seq(Block), NEW b \in Block, e \in S PROVE Append(e, b) \in S
    <2> DEFINE s == Rewritten(e)
               t == Rewritten(Append(e, b))
               u == Fed(s, b)
               x == Blk(b.kind, PiecesOf(u.segs))
    <2>1. e \in Blocks /\ Append(e, b) \in Blocks /\ Len(Append(e, b)) = Len(e) + 1
      BY AppendBlock DEF Blocks
    <2>2. SUFFICES ASSUME No(t.sc.flipped) PROVE Len(t.out) = Len(e) + 1
      BY <2>1
    <2>3. No(s.sc.flipped)
      BY <2>1, <2>2, FlipStays
    <2>4. Len(s.out) = Len(e) /\ s.out \in Blocks /\ s \in Rewrites
      BY <1>2, <2>1, <2>3, RewrittenIn
    <2>5. CASE ~Scannable(b.kind)
      <3>1. t.out = Append(s.out, b)
        BY <2>1, <2>5, RewriteLast
      <3> HIDE DEF s, t
      <3>2. Len(Append(s.out, b)) = Len(s.out) + 1
        BY <2>4, AppendBlock
      <3>3. QED
        BY <2>4, <3>1, <3>2
    <2>6. CASE Scannable(b.kind)
      <3>1. t.sc = u.sc
        BY <2>1, <2>6, RewriteLast
      <3>2. t.out = Append(s.out, x)
        BY <2>1, <2>2, <2>6, <3>1, RewriteLast
      <3>3. u.segs \in Segs /\ b.kind \in Kinds
        BY <2>4, FedFacts
      <3>4. PiecesOf(u.segs) \in Text
        BY <3>3, PiecesFacts
      <3>5. x \in Block
        BY <3>3, <3>4, BlkIn
      <3> HIDE DEF s, t, x
      <3>6. Len(Append(s.out, x)) = Len(s.out) + 1
        BY <2>4, <3>5, AppendBlock
      <3>7. QED
        BY <2>4, <3>2, <3>6
    <2>7. QED
      BY <2>5, <2>6
  <1> HIDE DEF S
  <1>3. Blocks \subseteq S
    BY <1>1, <1>2, InductiveSequences DEF Blocks
  <1>4. QED
    BY <1>3 DEF S

\* A block that begins says nothing.
LEMMA StartFed ==
  ASSUME NEW s \in Rewrites, NEW k \in Kinds
  PROVE  Fed(s, Blk(k, <<>>)).sc = Seed(s.sc, k) /\ Fed(s, Blk(k, <<>>)).segs = <<>>
  <1> DEFINE z == Seed(s.sc, k)
             n == <<>>
             b == Blk(k, n)
  <1>1. n \in Text
    BY EmptyText
  <1>2. b.kind = k /\ b.text = n
    BY <1>1, BlkIn
  <1>3. s.sc \in Scanners
    BY DEF Rewrites
  <1>4. z \in Scanners /\ z.pending = <<>>
    BY <1>3, SeedFacts
  <1>5. Fed(s, b) = Feed(z, n)
    BY <1>2 DEF Fed
  <1> HIDE DEF z
  <1>6. Feed(z, <<>>).sc = z /\ Feed(z, <<>>).segs = <<>>
    BY <1>4, FeedEmpty
  <1>7. QED
    BY <1>5, <1>6 DEF z

LEMMA RewriteStart ==
  ASSUME NEW c \in Blocks, NEW k \in Kinds
  PROVE  /\ Rewritten(Append(c, Blk(k, <<>>))).sc =
              IF Scannable(k) THEN Seed(Rewritten(c).sc, k) ELSE Rewritten(c).sc
         /\ Rewritten(Append(c, Blk(k, <<>>))).sc.flipped = Rewritten(c).sc.flipped
         /\ ~Scannable(k) \/ No(Rewritten(c).sc.flipped) =>
              Rewritten(Append(c, Blk(k, <<>>))).out = Append(Rewritten(c).out, Blk(k, <<>>))
         /\ Scannable(k) /\ Yes(Rewritten(c).sc.flipped) =>
              Rewritten(Append(c, Blk(k, <<>>))).out = Rewritten(c).out
  <1> DEFINE s == Rewritten(c)
             b == Blk(k, <<>>)
             t == Rewritten(Append(c, b))
             u == Fed(s, b)
             z == Seed(s.sc, k)
  <1>1. b \in Block /\ b.kind = k
    BY EmptyText, BlkIn
  <1>2. s \in Rewrites /\ s.sc \in Scanners /\ s.out \in Blocks
    BY RewrittenIn
  <1>3. u.sc = z /\ u.segs = <<>>
    BY <1>2, StartFed
  <1>4. z.flipped = s.sc.flipped
    BY <1>2, SeedFacts
  <1>5. PiecesOf(u.segs) = <<>>
    BY <1>3 DEF PiecesOf
  <1>6. s.out \o mergeSegments(u.segs) = s.out
    <2>1. mergeSegments(<<>>) = <<>>
      BY MergeFacts, EmptySeq
    <2>2. s.out \o <<>> = s.out
      BY <1>2, ConcatEmptySeq DEF Blocks
    <2>3. QED
      BY <1>3, <2>1, <2>2
  <1>7. Blk(k, PiecesOf(u.segs)) = b
    BY <1>5
  <1> HIDE DEF b
  <1>8. ~Scannable(k) => t.sc = s.sc /\ t.out = Append(s.out, b)
    BY <1>1, RewriteLast
  <1>9. Scannable(k) => t.sc = u.sc
    BY <1>1, RewriteLast
  <1>10. Scannable(k) /\ No(u.sc.flipped) => t.out = Append(s.out, Blk(k, PiecesOf(u.segs)))
    BY <1>1, RewriteLast
  <1>11. Scannable(k) /\ Yes(u.sc.flipped) => t.out = s.out \o mergeSegments(u.segs)
    BY <1>1, RewriteLast
  <1> HIDE DEF s, t, u, z
  <1>12. t.sc = IF Scannable(k) THEN z ELSE s.sc
    BY <1>3, <1>8, <1>9
  <1>13. t.sc.flipped = s.sc.flipped
    BY <1>4, <1>12
  <1>14. ~Scannable(k) \/ No(s.sc.flipped) => t.out = Append(s.out, b)
    BY <1>3, <1>4, <1>7, <1>8, <1>10
  <1>15. Scannable(k) /\ Yes(s.sc.flipped) => t.out = s.out
    BY <1>3, <1>4, <1>6, <1>11
  <1>16. QED
    BY <1>12, <1>13, <1>14, <1>15 DEF s, t, b, z

\* A block that goes on says more.
LEMMA GrowFed ==
  ASSUME NEW s \in Rewrites, NEW b \in Block, NEW d \in Text
  PROVE  /\ Fed(s, Blk(b.kind, b.text \o d)).sc = Feed(Fed(s, b).sc, d).sc
         /\ Fed(s, Blk(b.kind, b.text \o d)).segs = Fed(s, b).segs \o Feed(Fed(s, b).sc, d).segs
  <1> DEFINE z == Seed(s.sc, b.kind)
             e == b.text
             k == b.kind
             n == e \o d
             x == Blk(k, n)
             u == Feed(z, e)
  <1>1. e \in Text /\ k \in Kinds
    BY BlockParts
  <1>2. n \in Text
    BY <1>1, JoinFacts
  <1>3. x.kind = k /\ x.text = n
    BY <1>1, <1>2, BlkIn
  <1>4. z \in Scanners
    BY FedFacts
  <1>5. Fed(s, x) = Feed(z, n) /\ Fed(s, b) = u
    BY <1>3 DEF Fed
  <1> HIDE DEF z, e
  <1>6. Feed(z, e \o d).sc = Feed(Feed(z, e).sc, d).sc
    BY <1>1, <1>4, FeedSplits
  <1>7. Feed(z, e \o d).segs = Feed(z, e).segs \o Feed(Feed(z, e).sc, d).segs
    BY <1>1, <1>4, FeedSplits
  <1>8. QED
    BY <1>5, <1>6, <1>7 DEF e

\* Until the first marker all text of a block is of its kind.
LEMMA PlainSegs ==
  ASSUME NEW s \in Rewrites, NEW b \in Block, Scannable(b.kind), No(Fed(s, b).sc.flipped)
  PROVE  \E i \in BOOLEAN, e \in Text : Fed(s, b).segs = Cl(i, e) /\ Kind(i) = b.kind
  <1> DEFINE z == Seed(s.sc, b.kind)
             i == z.inThink
             u == Fed(s, b)
  <1>1. s.sc \in Scanners /\ b.text \in Text /\ z \in Scanners
    BY FedFacts
  <1>2. Kind(i) = b.kind
    BY <1>1, SeedFacts DEF Scannable
  <1>3. u = Feed(z, b.text)
    BY DEF Fed
  <1> HIDE DEF z
  <1>4. i \in BOOLEAN
    BY <1>1, ScannerParts
  <1>5. No(Feed(z, b.text).sc.flipped)
    BY <1>3
  <1>6. \E e \in Text : Feed(z, b.text).segs = Cl(z.inThink, e)
    BY <1>1, <1>5, FeedSection
  <1>7. QED
    BY <1>2, <1>3, <1>4, <1>6

LEMMA ClAppend ==
  ASSUME NEW i \in BOOLEAN, NEW d \in Text, NEW x \in Alphabet
  PROVE  /\ Cl(i, Append(d, x)) = Append(Cl(i, d), <<Kind(i), x>>)
         /\ Cl(i, d) \in Seq(Seg) /\ <<Kind(i), x>> \in Seg
  <1> DEFINE g == <<Kind(i), x>>
             u == Cl(i, d)
             e == <<x>>
  <1>1. u \in Segs /\ u \in Seq(Seg)
    BY ClFacts, SegIs
  <1>2. g \in Seg
    <2>1. Kind(i) \in {"text", "thinking"}
      BY DEF Kind
    <2>2. QED
      BY <2>1 DEF Seg
  <1>3. Append(d, x) = d \o e /\ e \in Text
    <2>1. d \in Seq(Alphabet)
      BY DEF Text
    <2>2. <<x>> \in Seq(Alphabet)
      OBVIOUS
    <2>3. QED
      BY <2>1, <2>2, AppendIsConcat DEF Text
  <1>4. Cl(i, e) = <<g>>
    BY DEF Cl
  <1>5. Cl(i, d \o e) = u \o Cl(i, e)
    BY <1>3, ClJoin
  <1> HIDE DEF g, u, e
  <1>6. Append(u, g) = u \o <<g>>
    BY <1>1, <1>2, AppendIsConcat
  <1>7. QED
    BY <1>1, <1>2, <1>3, <1>4, <1>5, <1>6 DEF g, u

LEMMA MergeCl ==
  ASSUME NEW i \in BOOLEAN, NEW d \in Text, d # <<>>
  PROVE  mergeSegments(Cl(i, d)) = Append(<<>>, Blk(Kind(i), d))
  <1> DEFINE S == {e \in Text : e # <<>> => mergeSegments(Cl(i, e)) = Append(<<>>, Blk(Kind(i), e))}
             N == <<>>
  <1>0. N \in Blocks /\ mergeSegments(<<>>) = N /\ Kind(i) \in Kinds
    BY MergeFacts, EmptySeq DEF Blocks, Kind, Kinds
  <1>1. <<>> \in S
    BY EmptyText
  <1>2. ASSUME NEW e \in Seq(Alphabet), NEW x \in Alphabet, e \in S PROVE Append(e, x) \in S
    <2> DEFINE g == <<Kind(i), x>>
               h == Cl(i, e)
               n == Append(e, x)
               w == <<x>>
    <2>1. e \in Text /\ n \in Text /\ w \in Text /\ n = e \o w
      <3>1. <<x>> \in Seq(Alphabet)
        OBVIOUS
      <3>2. QED
        BY <3>1, AppendProperties, AppendIsConcat DEF Text
    <2>2. Cl(i, n) = Append(h, g) /\ h \in Seq(Seg) /\ g \in Seg
      BY <2>1, ClAppend
    <2>3. mergeSegments(Append(h, g)) = mergeSegment(mergeSegments(h), g)
      BY <2>2, MergeFacts
    <2>4. g[1] = Kind(i) /\ <<g[2]>> = w
      OBVIOUS
    <2>5. CASE e = <<>>
      <3>1. mergeSegments(h) = N
        BY <1>0, <2>5, ClEmpty
      <3>2. n = w
        BY <2>1, <2>5, TextEmpty
      <3> HIDE DEF N
      <3>3. N = <<>>
        BY DEF N
      <3>4. mergeSegment(N, g) = Append(N, Blk(g[1], <<g[2]>>))
        BY <1>0, <2>2, <3>3, MergeIs
      <3>5. mergeSegment(N, g) = Append(N, Blk(Kind(i), w))
        <4> HIDE DEF g, w
        <4>1. QED
          BY <2>4, <3>4
      <3>6. mergeSegments(Cl(i, n)) = Append(N, Blk(Kind(i), n))
        <4> HIDE DEF g, w, n, h
        <4>1. QED
          BY <2>2, <2>3, <3>1, <3>2, <3>5
      <3>7. QED
        BY <2>1, <3>6 DEF N
    <2>6. CASE e # <<>>
      <3> DEFINE b == Blk(Kind(i), e)
      <3>1. mergeSegments(h) = Append(N, b)
        BY <1>2, <2>6
      <3>2. b \in Block /\ b.kind = Kind(i) /\ b.text = e
        BY <1>0, <2>1, BlkIn
      <3>3. Append(N, b) \in Blocks
        BY <1>0, <3>2, AppendBlock
      <3> DEFINE B == Append(N, b)
                 z == Blk(b.kind, b.text \o <<g[2]>>)
      <3> HIDE DEF b
      <3>4. mergeSegment(B, g) = IF b.kind = g[1] THEN Append(N, z) ELSE Append(B, Blk(g[1], <<g[2]>>))
        <4> HIDE DEF N, g
        <4>1. B \in Blocks
          BY <3>3
        <4>2. QED
          BY <1>0, <2>2, <3>2, <4>1, MergeIs
      <3>5. z = Blk(Kind(i), n)
        BY <2>1, <2>4, <3>2
      <3> HIDE DEF N, z
      <3>6. mergeSegment(B, g) = Append(N, z)
        BY <2>4, <3>2, <3>4
      <3>7. mergeSegments(Cl(i, n)) = Append(N, Blk(Kind(i), n))
        <4> HIDE DEF g, w, n, h
        <4>1. QED
          BY <2>2, <2>3, <3>1, <3>5, <3>6
      <3>8. QED
        BY <2>1, <3>7 DEF N
    <2>7. QED
      BY <2>5, <2>6
  <1> HIDE DEF S
  <1>3. Seq(Alphabet) \subseteq S
    BY <1>1, <1>2, InductiveSequences
  <1>4. QED
    BY <1>3 DEF S, Text

-----------------------------------------------------------------------------
(* The inductive invariant.                                                *)

\* The rewriter before the first marker.
Copying(k) == [rewriting |-> FALSE, rawKind |-> k, nextSynth |-> 0, cur |-> NoBlock, block |-> NoBlock]

\* Before the first marker the client has what the rewritten response has.
Copies(c, o, rw, cl) ==
  \E k \in Raws :
    /\ rw = Copying(k)
    /\ o => cl = Opened(Rewritten(c).out)
    /\ ~o => cl = Shut(Rewritten(c).out)
    /\ o => c # <<>> /\ (Scannable(c[Len(c)].kind) => k = c[Len(c)].kind)

\* After it nothing is open and the client has the same,
Rests(s, O) == \E k \in Raws, B \in Blocks : \E b : s = Idle(k, b, B) /\ Same(B, O)

\* or the last block is being rewritten, or passed on.
RepairsLast(p, b, s) ==
  /\ Scannable(b.kind) => InBlock(s, Rewritten(p).out, Fed(Rewritten(p), b).segs)
  /\ ~Scannable(b.kind) =>
       \E k \in Raws, e \in BlockRec, r \in Blocks :
         s = Live(k, e, r, b) /\ e.synth = Len(r) /\ Same(r, Rewritten(p).out)

Repairs(c, o, e, s) ==
  /\ ~o \/ e => Rests(s, Rewritten(c).out)
  /\ o /\ ~e => \E p \in Blocks, b \in Block : c = Append(p, b) /\ RepairsLast(p, b, s)

ThinkInv ==
  /\ sent \in Blocks /\ upOpen \in BOOLEAN /\ ended \in BOOLEAN
  /\ upOpen => sent # <<>>
  /\ ~ended => scanner = Rewritten(sent).sc
  /\ No(Rewritten(sent).sc.flipped) => Copies(sent, upOpen, rewriter, client)
  /\ Yes(Rewritten(sent).sc.flipped) => Repairs(sent, upOpen, ended, State)

LEMMA CopyingParts ==
  ASSUME NEW k
  PROVE  /\ ~Copying(k).rewriting /\ Copying(k).rawKind = k /\ Copying(k).cur = NoBlock
         /\ \A m : [Copying(k) EXCEPT !.rawKind = m] = Copying(m)
  <1> DEFINE w == FALSE
             f == [rewriting |-> w, rawKind |-> k, nextSynth |-> 0, cur |-> NoBlock, block |-> NoBlock]
  <1>1. Copying(k) = f
    BY DEF Copying
  <1>2. ~f.rewriting
    OBVIOUS
  <1>3. \A m : Copying(m) = [rewriting |-> w, rawKind |-> m, nextSynth |-> 0, cur |-> NoBlock, block |-> NoBlock]
    BY DEF Copying
  <1> HIDE DEF w
  <1>4. f.rawKind = k /\ f.cur = NoBlock
    OBVIOUS
  <1>5. \A m : [f EXCEPT !.rawKind = m] = Copying(m)
    BY <1>3
  <1> HIDE DEF f
  <1>6. QED
    BY <1>1, <1>2, <1>4, <1>5

LEMMA ThinkStarts ==
  ThinkInit => ThinkInv
  <1> SUFFICES ASSUME ThinkInit PROVE ThinkInv
    OBVIOUS
  <1> DEFINE n == <<>>
             k == ""
  <1>1. sent = n /\ ~upOpen /\ ~ended /\ upOpen \in BOOLEAN /\ ended \in BOOLEAN
    BY DEF ThinkInit
  <1>2. scanner = NewScanner /\ rewriter = Copying(k) /\ client = Shut(n)
    BY DEF ThinkInit, NewRewriter, NewClient, Copying, Shut
  <1>3. n \in Blocks /\ n \in Seq(Block)
    BY EmptySeq DEF Blocks
  <1>4. Rewritten(n) = Unwritten
    BY <1>3, RewriteFacts
  <1>5. Unwritten.sc = NewScanner /\ Unwritten.out = n
    BY DEF Unwritten
  <1>6. No(NewScanner.flipped) /\ ~Yes(NewScanner.flipped)
    BY NewScannerIn DEF Yes, No
  <1>7. k \in Raws
    BY DEF Raws
  <1> HIDE DEF n, k
  <1>8. Copies(sent, upOpen, rewriter, client)
    BY <1>1, <1>2, <1>4, <1>5, <1>7 DEF Copies
  <1>9. QED
    BY <1>1, <1>2, <1>3, <1>4, <1>5, <1>6, <1>8 DEF ThinkInv

Deferred(u, k) == [up |-> u, kind |-> k, synth |-> NotStarted, started |-> FALSE, other |-> FALSE]

ToolRec(u, k, n) == [up |-> u, kind |-> k, synth |-> n, started |-> TRUE, other |-> TRUE]

LEMMA RecsIn ==
  ASSUME NEW u \in Int, NEW k \in Kinds, NEW n \in Nat
  PROVE  /\ Deferred(u, k) \in BlockRec /\ Deferred(u, k).synth = NotStarted
         /\ ToolRec(u, k, n) \in BlockRec /\ ToolRec(u, k, n).synth = n /\ ToolRec(u, k, n).up = u
  <1> DEFINE y == TRUE
             w == FALSE
  <1>1. y \in BOOLEAN /\ w \in BOOLEAN
    OBVIOUS
  <1>2. Deferred(u, k) = [up |-> u, kind |-> k, synth |-> NotStarted, started |-> w, other |-> w]
    BY DEF Deferred
  <1>3. ToolRec(u, k, n) = [up |-> u, kind |-> k, synth |-> n, started |-> y, other |-> y]
    BY DEF ToolRec
  <1> HIDE DEF y, w
  <1>4. n \in Int /\ NotStarted \in Int
    BY DEF NotStarted
  <1>5. QED
    BY <1>1, <1>2, <1>3, <1>4 DEF BlockRec

\* What the start of a block does when none is open downstream.
LEMMA StartStep ==
  ASSUME NEW kind, onBlockStart(kind), rewriter.cur = NoBlock
  PROVE  /\ ~rewriter.rewriting =>
              /\ rewriter' = [rewriter EXCEPT !.rawKind = IF Scannable(kind) THEN kind ELSE ""]
              /\ client' = OnStart(client, Len(sent), kind)
         /\ rewriter.rewriting /\ Scannable(kind) =>
              rewriter' = [rewriter EXCEPT !.block = Deferred(Len(sent), kind)] /\ client' = client
         /\ rewriter.rewriting /\ ~Scannable(kind) =>
              /\ rewriter' = Writing(rewriter.rawKind, rewriter.nextSynth + 1,
                                     [idx |-> rewriter.nextSynth, kind |-> kind, up |-> Len(sent)],
                                     ToolRec(Len(sent), kind, rewriter.nextSynth))
              /\ client' = OnStart(client, rewriter.nextSynth, kind)
  <1>1. State.rw = rewriter /\ State.cl = client
    BY DEF State
  <1>2. ~rewriter.rewriting =>
          /\ rewriter' = [rewriter EXCEPT !.rawKind = IF Scannable(kind) THEN kind ELSE ""]
          /\ client' = OnStart(client, Len(sent), kind)
    BY DEF onBlockStart
  <1>3. rewriter.rewriting /\ Scannable(kind) =>
          Become([rw |-> [State.rw EXCEPT !.block = Deferred(Len(sent), kind)], cl |-> State.cl])
    BY DEF onBlockStart, Deferred
  <1>4. rewriter.rewriting /\ ~Scannable(kind) =>
          Become([rw |-> [rewriting |-> TRUE, rawKind |-> rewriter.rawKind, nextSynth |-> allocIdx(State),
                          cur |-> [idx |-> State.rw.nextSynth, kind |-> kind, up |-> Len(sent)],
                          block |-> ToolRec(Len(sent), kind, State.rw.nextSynth)],
                  cl |-> OnStart(State.cl, State.rw.nextSynth, kind)])
    BY DEF onBlockStart, ToolRec
  <1>5. rewriter.rewriting /\ Scannable(kind) =>
          rewriter' = [rewriter EXCEPT !.block = Deferred(Len(sent), kind)] /\ client' = client
    BY <1>1, <1>3 DEF Become
  <1>6. allocIdx(State) = rewriter.nextSynth + 1
    BY <1>1 DEF allocIdx
  <1>7. rewriter.rewriting /\ ~Scannable(kind) =>
          /\ rewriter' = Writing(rewriter.rawKind, rewriter.nextSynth + 1,
                                 [idx |-> rewriter.nextSynth, kind |-> kind, up |-> Len(sent)],
                                 ToolRec(Len(sent), kind, rewriter.nextSynth))
          /\ client' = OnStart(client, rewriter.nextSynth, kind)
    BY <1>1, <1>4, <1>6 DEF Become, Writing
  <1>8. QED
    BY <1>2, <1>5, <1>7

LEMMA StateOf ==
  ASSUME NEW s, State = s
  PROVE  rewriter = s.rw /\ client = s.cl
  BY DEF State

LEMMA LastOf ==
  ASSUME NEW p \in Blocks, NEW b \in Block, NEW c, c = Append(p, b)
  PROVE  c \in Blocks /\ c # <<>> /\ c[Len(c)] = b /\ Len(c) = Len(p) + 1 /\ Len(p) \in Nat /\ Len(c) - 1 = Len(p)
  <1>1. c \in Blocks /\ c # <<>> /\ Len(c) = Len(p) + 1 /\ Len(p) \in Nat /\ c[Len(p) + 1] = b
    BY AppendBlock
  <1>2. QED
    BY <1>1

LEMMA StartKeeps ==
  ASSUME ThinkInv, NEW kind \in Kinds, onBlockStart(kind)
  PROVE  ThinkInv'
  <1> DEFINE c == sent
             x == Blk(kind, <<>>)
             n == Append(c, x)
             R == Rewritten(c)
             N == Rewritten(n)
  <1>1. /\ c \in Blocks /\ ~upOpen /\ ~ended /\ scanner = R.sc
        /\ No(R.sc.flipped) => Copies(c, upOpen, rewriter, client)
        /\ Yes(R.sc.flipped) => Repairs(c, upOpen, ended, State)
    BY DEF ThinkInv, onBlockStart
  <1>2. x \in Block /\ x.kind = kind /\ x.text = <<>>
    BY EmptyText, BlkIn
  <1>3. n \in Blocks /\ n # <<>> /\ n[Len(n)] = x
    BY <1>1, <1>2, LastOf
  <1>4. sent' = n /\ upOpen' = TRUE /\ ended' = ended
    BY DEF onBlockStart, Blk
  <1>5. scanner' = IF Scannable(kind) THEN Seed(scanner, kind) ELSE scanner
    BY DEF onBlockStart
  <1>6. N.sc = (IF Scannable(kind) THEN Seed(R.sc, kind) ELSE R.sc)
    BY <1>1, RewriteStart
  <1>7. N.sc.flipped = R.sc.flipped
    BY <1>1, RewriteStart
  <1>8. R \in Rewrites /\ R.out \in Blocks /\ R.sc.flipped \in BOOLEAN
    BY <1>1, RewrittenIn
  <1>9. Len(c) \in Nat /\ Len(c) \in Int
    <2>1. Len(c) \in Nat
      BY <1>1, LenOf
    <2>2. QED
      BY <2>1
  <1>10. CASE No(R.sc.flipped)
    <2>1. PICK k \in Raws : rewriter = Copying(k) /\ client = Shut(R.out)
      BY <1>1, <1>10 DEF Copies
    <2>2. ~rewriter.rewriting /\ rewriter.cur = NoBlock
      BY <2>1, CopyingParts
    <2> DEFINE m == IF Scannable(kind) THEN kind ELSE ""
    <2>3. m \in Raws /\ (Scannable(kind) => m = kind)
      BY DEF Raws
    <2>4. rewriter' = [rewriter EXCEPT !.rawKind = m] /\ client' = OnStart(client, Len(c), kind)
      BY <2>2, StartStep
    <2> HIDE DEF m
    <2>5. rewriter' = Copying(m)
      BY <2>1, <2>4, CopyingParts
    <2>6. Len(R.out) = Len(c)
      BY <1>1, <1>10, PlainLength
    <2>7. client' = Opened(Append(R.out, x))
      <3> DEFINE O == R.out
      <3> HIDE DEF O
      <3>1. OnStart(Shut(O), Len(O), kind) = Opened(Append(O, Blk(kind, <<>>)))
        BY StartIs
      <3>2. client' = OnStart(Shut(O), Len(O), kind)
        BY <2>1, <2>4, <2>6 DEF O
      <3>3. QED
        BY <3>1, <3>2 DEF O
    <2>8. N.out = Append(R.out, x)
      BY <1>1, <1>10, RewriteStart
    <2> HIDE DEF N, n, R, x
    <2>9. Copies(n, upOpen', rewriter', client')
      BY <1>2, <1>3, <1>4, <2>3, <2>5, <2>7, <2>8 DEF Copies, N
    <2>10. No(N.sc.flipped) /\ ~Yes(N.sc.flipped)
      BY <1>7, <1>10 DEF Yes, No
    <2>11. scanner' = N.sc
      BY <1>1, <1>5, <1>6
    <2>12. QED
      BY <1>1, <1>3, <1>4, <2>9, <2>10, <2>11 DEF ThinkInv, N
  <1>11. CASE Yes(R.sc.flipped)
    <2>1. Rests(State, R.out)
      BY <1>1, <1>11 DEF Repairs
    <2>2. PICK k \in Raws, B \in Blocks : \E b : State = Idle(k, b, B) /\ Same(B, R.out)
      BY <2>1 DEF Rests
    <2>3. PICK b : State = Idle(k, b, B) /\ Same(B, R.out)
      BY <2>2
    <2>4. rewriter = Writing(k, Len(B), NoBlock, b) /\ client = Shut(B)
      BY <2>3, StateOf, IdleParts
    <2>5. rewriter.rewriting /\ rewriter.cur = NoBlock /\ rewriter.rawKind = k /\ rewriter.nextSynth = Len(B)
      BY <2>4, WritingParts
    <2>6. Len(B) \in Nat
      BY LenOf
    <2>7. scanner' = N.sc
      BY <1>1, <1>5, <1>6
    <2>8. Yes(N.sc.flipped) /\ ~No(N.sc.flipped)
      BY <1>7, <1>11 DEF Yes, No
    <2>9. RepairsLast(c, x, State')
      <3>1. CASE Scannable(kind)
        <4> DEFINE e == Deferred(Len(c), kind)
        <4>1. rewriter' = [rewriter EXCEPT !.block = e] /\ client' = client
          BY <2>5, <3>1, StartStep
        <4>2. e \in BlockRec
          BY <1>9, RecsIn, <2>6
        <4> HIDE DEF e
        <4>3. rewriter' = Writing(k, Len(B), NoBlock, e)
          BY <2>4, <4>1, WritingParts
        <4>4. State' = [rw |-> rewriter', cl |-> client']
          BY DEF State
        <4>5. State' = Idle(k, e, B)
          BY <2>4, <4>1, <4>3, <4>4 DEF Idle
        <4>6. Quiet(State', R.out)
          BY <2>3, <4>2, <4>5 DEF Quiet
        <4>7. Fed(R, x).segs = <<>>
          BY <1>8, StartFed
        <4> HIDE DEF x, R
        <4>8. InBlock(State', R.out, Fed(R, x).segs)
          BY <4>6, <4>7 DEF InBlock
        <4>9. QED
          BY <1>2, <3>1, <4>8 DEF RepairsLast, R
      <3>2. CASE ~Scannable(kind)
        <4> DEFINE e == ToolRec(Len(c), kind, Len(B))
                   d == [idx |-> Len(B), kind |-> kind, up |-> Len(c)]
        <4>1. rewriter' = Writing(k, Len(B) + 1, d, e) /\ client' = OnStart(client, Len(B), kind)
          BY <2>5, <3>2, StartStep
        <4>2. e \in BlockRec /\ e.synth = Len(B) /\ e.up = Len(c)
          BY <1>9, RecsIn, <2>6
        <4>3. client' = Opened(Append(B, x))
          BY <2>4, <4>1, StartIs
        <4> HIDE DEF e
        <4>4. d = [idx |-> Len(B), kind |-> x.kind, up |-> e.up]
          BY <1>2, <4>2
        <4> HIDE DEF d, x
        <4>5. State' = [rw |-> rewriter', cl |-> client']
          BY DEF State
        <4>6. State' = Live(k, e, B, x)
          BY <4>1, <4>3, <4>4, <4>5 DEF Live
        <4>7. QED
          BY <1>2, <2>3, <3>2, <4>2, <4>6 DEF RepairsLast
      <3>3. QED
        BY <3>1, <3>2
    <2> HIDE DEF N, n, R, x
    <2>10. n = Append(c, x)
      BY DEF n
    <2>11. Repairs(n, upOpen', ended', State')
      BY <1>1, <1>2, <1>4, <2>9, <2>10 DEF Repairs
    <2>12. QED
      BY <1>1, <1>3, <1>4, <2>7, <2>8, <2>11 DEF ThinkInv, N
  <1>12. QED
    BY <1>8, <1>10, <1>11 DEF Yes, No

TakenRec(u, k) == [up |-> u, kind |-> k, synth |-> u, started |-> TRUE, other |-> FALSE]

Taken(u, k, cl) ==
  [rw |-> Writing(k, u + 1, [idx |-> u, kind |-> k, up |-> u], TakenRec(u, k)), cl |-> cl]

\* What a delta does, case by case.
LEMMA DeltaStep ==
  ASSUME NEW chunk, onBlockDelta(chunk), NEW u, u = Len(sent) - 1
  PROVE  LET kind == sent[Len(sent)].kind
             fed == Feed(scanner, chunk)
         IN  /\ ~Scannable(kind) =>
                  /\ client' = OnDelta(client, IF rewriter.rewriting THEN rewriter.block.synth ELSE u, kind, chunk)
                  /\ scanner' = scanner /\ rewriter' = rewriter
             /\ Scannable(kind) => scanner' = fed.sc
             /\ Scannable(kind) /\ ~rewriter.rewriting /\ ~fed.sc.flipped =>
                  /\ client' = IF fed.segs = <<>> THEN client ELSE OnDelta(client, u, kind, PiecesOf(fed.segs))
                  /\ rewriter' = rewriter
             /\ Scannable(kind) /\ ~rewriter.rewriting /\ fed.sc.flipped =>
                  Become(emitSegments(Taken(u, rewriter.rawKind, client), fed.segs))
             /\ Scannable(kind) /\ rewriter.rewriting => Become(emitSegments(State, fed.segs))
  <1> DEFINE kind == sent[Len(sent)].kind
             fed == Feed(scanner, chunk)
             raw == rewriter.rawKind
             taken == [rw |-> [rewriting |-> TRUE, rawKind |-> raw, nextSynth |-> UpIndex + 1,
                               cur |-> [idx |-> UpIndex, kind |-> raw, up |-> UpIndex],
                               block |-> [up |-> UpIndex, kind |-> raw, synth |-> UpIndex,
                                          started |-> TRUE, other |-> FALSE]],
                       cl |-> client]
  <1>0. UpIndex = u
    BY DEF UpIndex
  <1>1. taken = Taken(UpIndex, raw, client)
    BY DEF Taken, TakenRec, Writing
  <1>2. (CASE ~Scannable(kind)
        ->  /\ client' = OnDelta(client, IF rewriter.rewriting THEN rewriter.block.synth ELSE UpIndex, kind, chunk)
            /\ UNCHANGED <<scanner, rewriter>>
        [] Scannable(kind) /\ ~rewriter.rewriting /\ ~fed.sc.flipped ->
            /\ scanner' = fed.sc
            /\ client' = IF fed.segs = <<>> THEN client ELSE OnDelta(client, UpIndex, kind, PiecesOf(fed.segs))
            /\ UNCHANGED rewriter
        [] Scannable(kind) /\ ~rewriter.rewriting /\ fed.sc.flipped ->
            scanner' = fed.sc /\ Become(emitSegments(taken, fed.segs))
        [] Scannable(kind) /\ rewriter.rewriting ->
            scanner' = fed.sc /\ Become(emitSegments(State, fed.segs)))
    BY DEF onBlockDelta
  <1> HIDE DEF kind, fed, raw, taken
  <1>3. ~Scannable(kind) =>
          /\ client' = OnDelta(client, IF rewriter.rewriting THEN rewriter.block.synth ELSE UpIndex, kind, chunk)
          /\ scanner' = scanner /\ rewriter' = rewriter
    BY <1>2
  <1>4. Scannable(kind) /\ ~rewriter.rewriting /\ ~fed.sc.flipped =>
          /\ scanner' = fed.sc
          /\ client' = IF fed.segs = <<>> THEN client ELSE OnDelta(client, UpIndex, kind, PiecesOf(fed.segs))
          /\ rewriter' = rewriter
    BY <1>2
  <1>5. Scannable(kind) /\ ~rewriter.rewriting /\ fed.sc.flipped =>
          scanner' = fed.sc /\ Become(emitSegments(taken, fed.segs))
    BY <1>2
  <1>6. Scannable(kind) /\ rewriter.rewriting => scanner' = fed.sc /\ Become(emitSegments(State, fed.segs))
    BY <1>2
  <1>7. QED
    BY <1>0, <1>1, <1>3, <1>4, <1>5, <1>6 DEF kind, fed, raw

LEMMA TakenIn ==
  ASSUME NEW u \in Nat, NEW k \in Kinds
  PROVE  TakenRec(u, k) \in BlockRec /\ TakenRec(u, k).up = u
  <1> DEFINE y == TRUE
             w == FALSE
  <1>1. y \in BOOLEAN /\ w \in BOOLEAN
    OBVIOUS
  <1>2. TakenRec(u, k) = [up |-> u, kind |-> k, synth |-> u, started |-> y, other |-> w]
    BY DEF TakenRec
  <1> HIDE DEF y, w
  <1>3. u \in Int
    OBVIOUS
  <1>4. QED
    BY <1>1, <1>2, <1>3 DEF BlockRec

\* The block that is flowing when the first marker comes is taken over.
LEMMA TakeOver ==
  ASSUME NEW O \in Blocks, NEW x \in Block, Scannable(x.kind), NEW i \in BOOLEAN, Kind(i) = x.kind,
         NEW h \in Segs, h = Cl(i, x.text)
  PROVE  InBlock(Taken(Len(O), x.kind, Opened(Append(O, x))), O, h)
  <1> DEFINE u == Len(O)
             k == x.kind
             e == TakenRec(u, k)
             s == Taken(u, k, Opened(Append(O, x)))
  <1>1. u \in Nat /\ k \in Kinds /\ k \in Raws /\ x.text \in Text /\ x = Blk(k, x.text)
    BY LenOf, BlockParts DEF Raws
  <1>2. e \in BlockRec /\ e.up = u
    BY <1>1, TakenIn
  <1>3. s = [rw |-> Writing(k, u + 1, [idx |-> u, kind |-> k, up |-> u], e), cl |-> Opened(Append(O, x))]
    BY DEF Taken
  <1> HIDE DEF e, s
  <1>4. s = Live(k, e, O, x)
    BY <1>2, <1>3 DEF Live
  <1>5. Same(O, O)
    BY SameItself
  <1> HIDE DEF k
  <1>6. CASE h = <<>>
    <2>1. x.text = <<>>
      <3>1. Len(h) = Len(x.text)
        BY <1>1, ClFacts
      <3>2. Len(x.text) = 0 /\ x.text \in Seq(Alphabet)
        BY <1>1, <1>6, <3>1 DEF Text
      <3>3. QED
        BY <3>2, EmptySeq
    <2>2. Quiet(s, O)
      BY <1>1, <1>2, <1>4, <1>5, <2>1 DEF Quiet
    <2>3. QED
      BY <1>6, <2>2 DEF InBlock, s, k
  <1>7. CASE h # <<>>
    <2>1. x.text # <<>>
      BY <1>7, ClEmpty
    <2> DEFINE E == <<>>
    <2>2. mergeSegments(h) = Append(E, x)
      <3>1. mergeSegments(Cl(i, x.text)) = Append(<<>>, Blk(Kind(i), x.text))
        BY <1>1, <2>1, MergeCl
      <3>2. Blk(Kind(i), x.text) = x
        BY <1>1 DEF k
      <3>3. QED
        BY <3>1, <3>2
    <2>3. E \in Blocks /\ O \o E = O
      BY MergeStep, ConcatEmptySeq DEF Blocks
    <2> HIDE DEF E
    <2>4. O \o Append(E, x) = Append(O, x)
      BY <2>3, BlocksAppend
    <2>5. Talks(s, O \o mergeSegments(h))
      <3> DEFINE M == O \o mergeSegments(h)
      <3>1. M = Append(O, x)
        BY <2>2, <2>4
      <3> HIDE DEF M
      <3>2. Talks(s, M)
        BY <1>1, <1>2, <1>4, <1>5, <3>1, TalksBy
      <3>3. QED
        BY <3>2 DEF M
    <2>6. QED
      BY <1>7, <2>5 DEF InBlock, s, k
  <1>8. QED
    BY <1>6, <1>7

LEMMA BecomeFlow ==
  ASSUME NEW s \in Flows, Become(s)
  PROVE  State' = s
  <1>1. rewriter' = s.rw /\ client' = s.cl
    BY DEF Become
  <1>2. State' = [rw |-> rewriter', cl |-> client']
    BY DEF State
  <1>3. QED
    BY <1>1, <1>2, FlowIs

\* A delta of a block that is passed on.
LEMMA DeltaOther ==
  ASSUME ThinkInv, NEW chunk \in Text, onBlockDelta(chunk), NEW p \in Blocks, NEW b \in Block,
         sent = Append(p, b), ~Scannable(b.kind)
  PROVE  ThinkInv'
  <1> DEFINE x == Blk(b.kind, b.text \o chunk)
             n == Append(p, x)
             P == Rewritten(p)
             R == Rewritten(sent)
             N == Rewritten(n)
             O == P.out
  <1>1. upOpen /\ ~ended /\ sent \in Blocks /\ scanner = R.sc
    BY DEF ThinkInv, onBlockDelta
  <1>2. /\ No(R.sc.flipped) => Copies(sent, upOpen, rewriter, client)
        /\ Yes(R.sc.flipped) => Repairs(sent, upOpen, ended, State)
    BY DEF ThinkInv
  <1>3. sent' = Extend(sent, chunk) /\ upOpen' = upOpen /\ ended' = ended
    BY DEF onBlockDelta
  <1>4. sent' = n /\ x \in Block
    BY <1>3, ExtendLast
  <1>5. x.kind = b.kind /\ ~Scannable(x.kind)
    BY DEF Blk
  <1>6. sent[Len(sent)] = b /\ Len(sent) - 1 = Len(p) /\ Len(p) \in Nat
    BY LastOf
  <1>7. R.sc = P.sc /\ R.out = Append(O, b)
    BY RewriteLast
  <1>8. P \in Rewrites /\ O \in Blocks /\ P.sc.flipped \in BOOLEAN
    BY RewrittenIn
  <1> HIDE DEF x
  <1>9. N.sc = P.sc /\ N.out = Append(O, x)
    BY <1>4, <1>5, RewriteLast
  <1>10. n \in Blocks /\ n # <<>> /\ n[Len(n)] = x
    BY <1>4, LastOf
  <1>11. /\ client' = OnDelta(client, IF rewriter.rewriting THEN rewriter.block.synth ELSE Len(p), b.kind, chunk)
         /\ scanner' = scanner /\ rewriter' = rewriter
    BY <1>6, DeltaStep
  <1> HIDE DEF n, P, R, N, O
  <1>12. CASE No(P.sc.flipped)
    <2>1. PICK k \in Raws : rewriter = Copying(k) /\ client = Opened(Append(O, b))
      BY <1>1, <1>2, <1>7, <1>12 DEF Copies, R
    <2>2. ~rewriter.rewriting
      BY <2>1, CopyingParts
    <2>3. Len(O) = Len(p)
      BY <1>12, PlainLength DEF P, O
    <2>4. client' = OnDelta(Opened(Append(O, b)), Len(O), b.kind, chunk)
      BY <1>11, <2>1, <2>2, <2>3
    <2>5. client' = Opened(Append(O, x))
      BY <1>8, <2>4, DeltaIs DEF x
    <2>6. Copies(n, upOpen', rewriter', client')
      BY <1>1, <1>3, <1>5, <1>9, <1>10, <1>11, <2>1, <2>5 DEF Copies, N
    <2>7. No(N.sc.flipped) /\ ~Yes(N.sc.flipped)
      BY <1>9, <1>12 DEF Yes, No
    <2>8. QED
      BY <1>1, <1>3, <1>4, <1>7, <1>9, <1>10, <1>11, <2>6, <2>7 DEF ThinkInv, N
  <1>13. CASE Yes(P.sc.flipped)
    <2>1. PICK q \in Blocks, a \in Block : sent = Append(q, a) /\ RepairsLast(q, a, State)
      BY <1>1, <1>2, <1>7, <1>13 DEF Repairs
    <2>2. q = p /\ a = b
      <3>1. Append(q, a) = Append(p, b) => q = p /\ a = b
        BY AppendsEqual
      <3>2. QED
        BY <2>1, <3>1
    <2>3. PICK k \in Raws, e \in BlockRec, r \in Blocks :
            State = Live(k, e, r, b) /\ e.synth = Len(r) /\ Same(r, O)
      BY <2>1, <2>2 DEF RepairsLast, O, P
    <2>4. rewriter = Live(k, e, r, b).rw /\ client = Live(k, e, r, b).cl
      BY <2>3, StateOf
    <2>5. rewriter.rewriting /\ client = Opened(Append(r, b))
      BY <2>4, LiveOpen
    <2>6. rewriter.block = e
      BY <2>4, LiveCur
    <2>7. client' = OnDelta(Opened(Append(r, b)), Len(r), b.kind, chunk)
      BY <1>11, <2>3, <2>5, <2>6
    <2>8. client' = Opened(Append(r, x))
      BY <2>7, DeltaIs DEF x
    <2>9. Live(k, e, r, b).rw = Live(k, e, r, x).rw
      BY <1>5 DEF Live
    <2>10. Live(k, e, r, x).cl = Opened(Append(r, x))
      BY LiveOpen
    <2>11. State' = [rw |-> rewriter', cl |-> client']
      BY DEF State
    <2>12. Live(k, e, r, x) \in Flows
      BY <1>4, LiveIn
    <2> DEFINE s == Live(k, e, r, x)
    <2> HIDE DEF s
    <2>13. State' = s
      <3>1. s = [rw |-> s.rw, cl |-> s.cl]
        BY <2>12, FlowIs DEF s
      <3>2. rewriter' = s.rw /\ client' = s.cl
        BY <1>11, <2>4, <2>8, <2>9, <2>10 DEF s
      <3>3. QED
        BY <2>11, <3>1, <3>2
    <2>14. RepairsLast(p, x, State')
      BY <1>5, <2>3, <2>13 DEF RepairsLast, s, O, P
    <2>15. Repairs(n, upOpen', ended', State')
      BY <1>1, <1>3, <1>4, <2>14 DEF Repairs, n
    <2>16. Yes(N.sc.flipped) /\ ~No(N.sc.flipped)
      BY <1>9, <1>13 DEF Yes, No
    <2>17. QED
      BY <1>1, <1>3, <1>4, <1>7, <1>9, <1>10, <1>11, <2>15, <2>16 DEF ThinkInv, N
  <1>14. QED
    BY <1>8, <1>12, <1>13 DEF Yes, No

\* A delta that the scanner classifies.
LEMMA DeltaText ==
  ASSUME ThinkInv, NEW chunk \in Text, onBlockDelta(chunk), NEW p \in Blocks, NEW b \in Block,
         sent = Append(p, b), Scannable(b.kind)
  PROVE  ThinkInv'
  <1> DEFINE x == Blk(b.kind, b.text \o chunk)
             n == Append(p, x)
             P == Rewritten(p)
             R == Rewritten(sent)
             N == Rewritten(n)
             O == P.out
             v == Fed(P, b)
             w == Feed(v.sc, chunk)
             h == v.segs
             g == w.segs
  <1>1. upOpen /\ ~ended /\ sent \in Blocks /\ scanner = R.sc
    BY DEF ThinkInv, onBlockDelta
  <1>2. /\ No(R.sc.flipped) => Copies(sent, upOpen, rewriter, client)
        /\ Yes(R.sc.flipped) => Repairs(sent, upOpen, ended, State)
    BY DEF ThinkInv
  <1>3. sent' = Extend(sent, chunk) /\ upOpen' = upOpen /\ ended' = ended
    BY DEF onBlockDelta
  <1>4. sent' = n /\ x \in Block
    BY <1>3, ExtendLast
  <1>5. x.kind = b.kind /\ Scannable(x.kind)
    BY DEF Blk
  <1>6. sent[Len(sent)] = b /\ Len(sent) - 1 = Len(p) /\ Len(p) \in Nat
    BY LastOf
  <1>7. P \in Rewrites /\ O \in Blocks
    BY RewrittenIn
  <1>8. v.sc \in Scanners /\ h \in Segs /\ v.sc.flipped \in BOOLEAN /\ b.kind \in Kinds
    BY <1>7, FedFacts
  <1>9. w.sc \in Scanners /\ g \in Segs
    BY <1>8, FeedFacts
  <1>10. w.sc.flipped \in BOOLEAN
    BY <1>9, ScannerParts
  <1>11. R.sc = v.sc
    BY RewriteLast
  <1>12. Fed(P, x).sc = w.sc /\ Fed(P, x).segs = h \o g
    BY <1>7, GrowFed
  <1>13. No(v.sc.flipped) => R.out = Append(O, Blk(b.kind, PiecesOf(h)))
    BY RewriteLast
  <1> HIDE DEF x
  <1>14. N.sc = w.sc
    BY <1>4, <1>5, <1>12, RewriteLast
  <1>15. No(w.sc.flipped) => N.out = Append(O, Blk(b.kind, PiecesOf(h \o g)))
    BY <1>4, <1>5, <1>12, RewriteLast
  <1>16. n \in Blocks /\ n # <<>> /\ n[Len(n)] = x
    BY <1>4, LastOf
  <1>17. Feed(scanner, chunk) = w
    BY <1>1, <1>11
  <1>18. /\ scanner' = w.sc
         /\ ~rewriter.rewriting /\ ~w.sc.flipped =>
              /\ client' = IF g = <<>> THEN client ELSE OnDelta(client, Len(p), b.kind, PiecesOf(g))
              /\ rewriter' = rewriter
         /\ ~rewriter.rewriting /\ w.sc.flipped => Become(emitSegments(Taken(Len(p), rewriter.rawKind, client), g))
         /\ rewriter.rewriting => Become(emitSegments(State, g))
    <2> HIDE DEF w, v
    <2>1. QED
      BY <1>6, <1>17, DeltaStep
  <1>19. Yes(v.sc.flipped) => Yes(w.sc.flipped)
    BY <1>8, FeedSection
  <1> HIDE DEF n, P, R, N, O, v, w, h, g
  <1>20. ASSUME NEW s, InBlock(s, O, h), Become(emitSegments(s, g)), Yes(w.sc.flipped)
         PROVE  ThinkInv'
    <2> DEFINE t == emitSegments(s, g)
    <2>1. InBlock(t, O, h \o g)
      BY <1>7, <1>8, <1>9, <1>20, InBlockAll
    <2>2. t \in Flows /\ Become(t)
      BY <1>20, <2>1, InFlow
    <2> HIDE DEF t
    <2>3. State' = t
      BY <2>2, BecomeFlow
    <2>4. RepairsLast(p, x, State')
      BY <1>5, <1>12, <2>1, <2>3 DEF RepairsLast, O, P
    <2>5. Repairs(n, upOpen', ended', State')
      BY <1>1, <1>3, <1>4, <2>4 DEF Repairs, n
    <2>6. Yes(N.sc.flipped) /\ ~No(N.sc.flipped)
      BY <1>14, <1>20 DEF Yes, No
    <2>7. QED
      BY <1>1, <1>3, <1>4, <1>14, <1>16, <1>18, <2>5, <2>6 DEF ThinkInv, N
  <1>21. CASE No(v.sc.flipped)
    <2> DEFINE d == PiecesOf(h)
               y == Blk(b.kind, d)
    <2>1. d \in Text
      BY <1>8, PiecesFacts
    <2>2. y \in Block /\ y.kind = b.kind /\ y.text = d
      BY <1>8, <2>1, BlkIn
    <2>3. PICK k \in Raws : rewriter = Copying(k) /\ client = Opened(Append(O, y)) /\ k = b.kind
      BY <1>1, <1>2, <1>6, <1>11, <1>13, <1>21 DEF Copies, R
    <2>4. ~rewriter.rewriting /\ rewriter.rawKind = b.kind
      BY <2>3, CopyingParts
    <2>5. Len(O) = Len(p)
      <3>1. No(R.sc.flipped)
        BY <1>11, <1>21
      <3>2. No(P.sc.flipped)
        BY <3>1, FlipStays DEF R, P
      <3>3. QED
        BY <3>2, PlainLength DEF P, O
    <2> HIDE DEF d, y
    <2>6. CASE No(w.sc.flipped)
      <3>1. ~w.sc.flipped
        BY <2>6 DEF No
      <3>2. PiecesOf(h \o g) = d \o PiecesOf(g) /\ PiecesOf(g) \in Text
        BY <1>8, <1>9, PiecesJoin, PiecesFacts DEF d
      <3>3. client' = Opened(N.out) /\ rewriter' = rewriter
        <4> DEFINE z == Blk(b.kind, PiecesOf(h \o g))
        <4>1. N.out = Append(O, z) /\ rewriter' = rewriter
          BY <1>15, <1>18, <2>4, <2>6, <3>1
        <4>2. CASE g = <<>>
          <5>1. h \o g = h
            BY <1>8, <4>2, SegsEmpty
          <5>2. z = y
            BY <5>1 DEF d, y
          <5>3. client' = client
            BY <1>18, <2>4, <3>1, <4>2
          <5> HIDE DEF z
          <5>4. QED
            BY <2>3, <4>1, <5>2, <5>3
        <4>3. CASE g # <<>>
          <5> DEFINE a == PiecesOf(g)
          <5>1. client' = OnDelta(client, Len(p), b.kind, a)
            BY <1>18, <2>4, <3>1, <4>3
          <5>2. client' = OnDelta(Opened(Append(O, y)), Len(O), y.kind, a)
            BY <2>2, <2>3, <2>5, <5>1
          <5>3. a \in Text
            BY <3>2
          <5>4. z = Blk(y.kind, y.text \o a)
            BY <2>2, <3>2
          <5> HIDE DEF a, z
          <5>5. client' = Opened(Append(O, Blk(y.kind, y.text \o a)))
            BY <1>7, <2>2, <5>2, <5>3, DeltaIs
          <5>6. QED
            BY <4>1, <5>4, <5>5
        <4>4. QED
          BY <4>2, <4>3
      <3>4. Copies(n, upOpen', rewriter', client')
        BY <1>1, <1>3, <1>5, <1>16, <2>3, <3>3 DEF Copies, N
      <3>5. No(N.sc.flipped) /\ ~Yes(N.sc.flipped)
        BY <1>14, <2>6 DEF Yes, No
      <3>6. QED
        BY <1>1, <1>3, <1>4, <1>14, <1>16, <1>18, <3>4, <3>5 DEF ThinkInv, N
    <2>7. CASE Yes(w.sc.flipped)
      <3>1. w.sc.flipped
        BY <2>7 DEF Yes
      <3> DEFINE s == Taken(Len(p), rewriter.rawKind, client)
                 T == Taken(Len(O), y.kind, Opened(Append(O, y)))
      <3>2. Become(emitSegments(s, g))
        BY <1>18, <2>4, <3>1
      <3>3. s = T
        BY <2>2, <2>3, <2>4, <2>5
      <3>4. PICK i \in BOOLEAN, e \in Text : h = Cl(i, e) /\ Kind(i) = b.kind
        BY <1>7, <1>21, PlainSegs DEF v, h
      <3>5. d = e
        BY <3>4, PiecesCl DEF d
      <3>6. h = Cl(i, y.text) /\ Kind(i) = y.kind /\ Scannable(y.kind)
        BY <2>2, <3>4, <3>5
      <3>7. InBlock(T, O, h)
        BY <1>7, <1>8, <2>2, <3>6, TakeOver
      <3> HIDE DEF s, T
      <3>8. QED
        BY <1>20, <2>7, <3>2, <3>3, <3>7
    <2>8. QED
      BY <1>10, <2>6, <2>7 DEF Yes, No
  <1>22. CASE Yes(v.sc.flipped)
    <2>1. PICK q \in Blocks, a \in Block : sent = Append(q, a) /\ RepairsLast(q, a, State)
      BY <1>1, <1>2, <1>11, <1>22 DEF Repairs
    <2>2. q = p /\ a = b
      <3>1. Append(q, a) = Append(p, b) => q = p /\ a = b
        BY AppendsEqual
      <3>2. QED
        BY <2>1, <3>1
    <2>3. InBlock(State, O, h)
      BY <2>1, <2>2 DEF RepairsLast, O, P, h, v
    <2>4. State.rw.rewriting
      BY <1>7, <1>8, <2>3, InBlockSame
    <2>5. rewriter.rewriting
      BY <2>4 DEF State
    <2>6. Become(emitSegments(State, g))
      BY <1>18, <2>5
    <2>7. QED
      BY <1>19, <1>20, <1>22, <2>3, <2>6
  <1>23. QED
    BY <1>8, <1>21, <1>22 DEF Yes, No

LEMMA DeltaKeeps ==
  ASSUME ThinkInv, NEW chunk \in Text, onBlockDelta(chunk)
  PROVE  ThinkInv'
  <1>1. sent \in Blocks /\ sent # <<>>
    BY DEF ThinkInv, onBlockDelta
  <1>2. PICK p \in Blocks, b \in Block : sent = Append(p, b)
    BY <1>1, LastBlock
  <1>3. QED
    BY <1>2, DeltaOther, DeltaText

\* The open block is closed, whatever block is the current one.
LEMMA CloseAny ==
  ASSUME NEW k, NEW b, NEW c, NEW r \in Blocks, NEW x \in Block, c.idx = Len(r)
  PROVE  closeCur([rw |-> Writing(k, Len(r) + 1, c, b), cl |-> Opened(Append(r, x))]) = Idle(k, b, Append(r, x))
  <1> DEFINE B == Append(r, x)
             n == Len(r) + 1
             w == Writing(k, n, c, b)
             s == [rw |-> w, cl |-> Opened(B)]
  <1>1. s.rw = w /\ s.cl = Opened(B)
    OBVIOUS
  <1>2. OnStop(Opened(B), Len(r)) = Shut(B)
    BY StopIs
  <1>3. closeCur(s) = [rw |-> [s.rw EXCEPT !.cur = NoBlock], cl |-> OnStop(s.cl, s.rw.cur.idx)]
    BY DEF closeCur
  <1>4. Len(B) = n
    BY AppendBlock
  <1>5. w.cur = c /\ [w EXCEPT !.cur = NoBlock] = Writing(k, n, NoBlock, b)
    <2> HIDE DEF n
    <2>1. QED
      BY WritingParts
  <1> HIDE DEF s, B, n, w
  <1>6. closeCur(s) = [rw |-> Writing(k, Len(B), NoBlock, b), cl |-> Shut(B)]
    BY <1>1, <1>2, <1>3, <1>4, <1>5
  <1>7. QED
    BY <1>6 DEF Idle, s, B, w, n

LEMMA BecomeIdle ==
  ASSUME NEW k, NEW b, NEW B, Become(Idle(k, b, B))
  PROVE  State' = Idle(k, b, B)
  <1> DEFINE s == Idle(k, b, B)
  <1>1. rewriter' = s.rw /\ client' = s.cl
    BY DEF Become
  <1>2. State' = [rw |-> rewriter', cl |-> client']
    BY DEF State
  <1>3. s = [rw |-> s.rw, cl |-> s.cl]
    BY DEF Idle
  <1> HIDE DEF s
  <1>4. QED
    BY <1>1, <1>2, <1>3 DEF s

\* What the end of a block does, case by case.
LEMMA StopStep ==
  ASSUME onBlockStop
  PROVE  LET s == [rw |-> [rewriter EXCEPT !.block = NoBlock], cl |-> client]
             idx == rewriter.nextSynth
         IN  /\ ~rewriter.rewriting => client' = OnStop(client, Len(sent) - 1) /\ rewriter' = rewriter
             /\ rewriter.rewriting /\ rewriter.cur # NoBlock => Become(closeCur(s))
             /\ rewriter.rewriting /\ rewriter.cur = NoBlock /\ ~rewriter.block.started =>
                  Become([rw |-> [s.rw EXCEPT !.nextSynth = allocIdx(s)],
                          cl |-> OnStop(OnStart(client, idx, rewriter.block.kind), idx)])
             /\ rewriter.rewriting /\ rewriter.cur = NoBlock /\ rewriter.block.started => Become(s)
  <1> DEFINE s == [rw |-> [rewriter EXCEPT !.block = NoBlock], cl |-> client]
             idx == rewriter.nextSynth
  <1>1. (CASE ~rewriter.rewriting -> client' = OnStop(client, UpIndex) /\ UNCHANGED rewriter
           [] rewriter.rewriting /\ rewriter.cur # NoBlock -> Become(closeCur(s))
           [] rewriter.rewriting /\ rewriter.cur = NoBlock /\ ~rewriter.block.started ->
                Become([rw |-> [s.rw EXCEPT !.nextSynth = allocIdx(s)],
                        cl |-> OnStop(OnStart(client, idx, rewriter.block.kind), idx)])
           [] rewriter.rewriting /\ rewriter.cur = NoBlock /\ rewriter.block.started -> Become(s))
    BY DEF onBlockStop
  <1> HIDE DEF s, idx
  <1>2. ~rewriter.rewriting => client' = OnStop(client, UpIndex) /\ rewriter' = rewriter
    BY <1>1
  <1>3. rewriter.rewriting /\ rewriter.cur # NoBlock => Become(closeCur(s))
    BY <1>1
  <1>4. rewriter.rewriting /\ rewriter.cur = NoBlock /\ ~rewriter.block.started =>
          Become([rw |-> [s.rw EXCEPT !.nextSynth = allocIdx(s)],
                  cl |-> OnStop(OnStart(client, idx, rewriter.block.kind), idx)])
    BY <1>1
  <1>5. rewriter.rewriting /\ rewriter.cur = NoBlock /\ rewriter.block.started => Become(s)
    BY <1>1
  <1>6. QED
    BY <1>2, <1>3, <1>4, <1>5 DEF s, idx, UpIndex

LEMMA StopLive ==
  ASSUME onBlockStop, NEW k, NEW e, NEW r \in Blocks, NEW x \in Block, State = Live(k, e, r, x)
  PROVE  State' = Idle(k, NoBlock, Append(r, x))
  <1> DEFINE c == [idx |-> Len(r), kind |-> x.kind, up |-> e.up]
             n == Len(r) + 1
             w == [rewriter EXCEPT !.block = NoBlock]
             s == [rw |-> w, cl |-> client]
  <1>1. Live(k, e, r, x).rw = Writing(k, n, c, e)
    BY DEF Live
  <1>2. rewriter = Live(k, e, r, x).rw /\ client = Live(k, e, r, x).cl
    BY StateOf
  <1>3. rewriter.rewriting /\ client = Opened(Append(r, x))
    BY <1>2, LiveOpen
  <1>4. rewriter.cur # NoBlock
    BY <1>2, LiveCur
  <1>5. Become(closeCur(s))
    BY <1>3, <1>4, StopStep
  <1>6. c.idx = Len(r)
    OBVIOUS
  <1> HIDE DEF c
  <1>7. w = Writing(k, n, c, NoBlock)
    <2> HIDE DEF n
    <2>1. QED
      BY <1>1, <1>2, WritingParts
  <1> HIDE DEF w
  <1>8. closeCur([rw |-> Writing(k, Len(r) + 1, c, NoBlock), cl |-> Opened(Append(r, x))]) =
          Idle(k, NoBlock, Append(r, x))
    BY <1>6, CloseAny
  <1>9. closeCur(s) = Idle(k, NoBlock, Append(r, x))
    BY <1>3, <1>7, <1>8
  <1>10. QED
    BY <1>5, <1>9, BecomeIdle

LEMMA StopIdle ==
  ASSUME onBlockStop, NEW k, NEW e \in BlockRec, NEW B \in Blocks, State = Idle(k, e, B)
  PROVE  \/ State' = Idle(k, NoBlock, B)
         \/ State' = Idle(k, NoBlock, Append(B, Blk(e.kind, <<>>)))
  <1> DEFINE n == Len(B)
             w == [rewriter EXCEPT !.block = NoBlock]
             s == [rw |-> w, cl |-> client]
             z == Blk(e.kind, <<>>)
             A == Append(B, z)
  <1>1. rewriter = Writing(k, n, NoBlock, e) /\ client = Shut(B)
    BY StateOf, IdleParts
  <1>2. rewriter.rewriting /\ rewriter.cur = NoBlock /\ rewriter.block = e /\ rewriter.nextSynth = n
    BY <1>1, WritingParts
  <1>3. w = Writing(k, n, NoBlock, NoBlock)
    BY <1>1, WritingParts
  <1>4. s.rw = w /\ s.cl = client
    OBVIOUS
  <1>5. w.nextSynth = n
    BY <1>3, WritingParts
  <1>6. allocIdx(s) = n + 1
    BY <1>4, <1>5 DEF allocIdx
  <1>7. z \in Block
    <2>1. e.kind \in Kinds
      BY DEF BlockRec
    <2>2. QED
      BY <2>1, EmptyText, BlkIn
  <1>8. Len(A) = n + 1
    BY <1>7, AppendBlock
  <1>9. CASE e.started
    <2>1. Become(s)
      BY <1>2, <1>9, StopStep
    <2>2. s = Idle(k, NoBlock, B)
      BY <1>1, <1>3 DEF Idle
    <2>3. QED
      BY <2>1, <2>2, BecomeIdle
  <1>10. CASE ~e.started
    <2>1. Become([rw |-> [s.rw EXCEPT !.nextSynth = allocIdx(s)], cl |-> OnStop(OnStart(client, n, e.kind), n)])
      BY <1>2, <1>10, StopStep
    <2>2. OnStart(client, n, e.kind) = Opened(A)
      BY <1>1, StartIs
    <2>3. OnStop(Opened(A), n) = Shut(A)
      BY <1>7, StopIs
    <2> HIDE DEF w, s, z, n, A
    <2>4. [s.rw EXCEPT !.nextSynth = n + 1] = Writing(k, n + 1, NoBlock, NoBlock)
      BY <1>3, <1>4, WritingParts
    <2>5. Become([rw |-> Writing(k, n + 1, NoBlock, NoBlock), cl |-> Shut(A)])
      BY <1>6, <2>1, <2>2, <2>3, <2>4
    <2>6. Idle(k, NoBlock, A) = [rw |-> Writing(k, n + 1, NoBlock, NoBlock), cl |-> Shut(A)]
      BY <1>8 DEF Idle
    <2>7. Become(Idle(k, NoBlock, A))
      BY <2>5, <2>6
    <2>8. State' = Idle(k, NoBlock, A)
      BY <2>7, BecomeIdle
    <2>9. QED
      BY <2>8 DEF A, z
  <1>11. QED
    BY <1>9, <1>10

LEMMA RestsBy ==
  ASSUME NEW k \in Raws, NEW B \in Blocks, NEW b, NEW s, NEW O, s = Idle(k, b, B), Same(B, O)
  PROVE  Rests(s, O)
  BY DEF Rests

LEMMA StopKeeps ==
  ASSUME ThinkInv, onBlockStop
  PROVE  ThinkInv'
  <1> DEFINE R == Rewritten(sent)
  <1>1. upOpen /\ ~ended /\ sent \in Blocks /\ sent # <<>> /\ scanner = R.sc
    BY DEF ThinkInv, onBlockStop
  <1>2. /\ No(R.sc.flipped) => Copies(sent, upOpen, rewriter, client)
        /\ Yes(R.sc.flipped) => Repairs(sent, upOpen, ended, State)
    BY DEF ThinkInv
  <1>3. sent' = sent /\ upOpen' = FALSE /\ ended' = ended /\ scanner' = scanner
    BY DEF onBlockStop
  <1>4. R \in Rewrites /\ R.out \in Blocks /\ R.sc.flipped \in BOOLEAN
    BY <1>1, RewrittenIn
  <1>5. PICK p \in Blocks, b \in Block : sent = Append(p, b)
    BY <1>1, LastBlock
  <1>6. Len(sent) = Len(p) + 1 /\ Len(sent) - 1 = Len(p) /\ Len(p) \in Nat
    BY <1>5, LastOf
  <1>7. CASE No(R.sc.flipped)
    <2>1. PICK k \in Raws : rewriter = Copying(k) /\ client = Opened(R.out)
      BY <1>1, <1>2, <1>7 DEF Copies
    <2>2. ~rewriter.rewriting
      BY <2>1, CopyingParts
    <2>3. Len(R.out) = Len(p) + 1
      BY <1>1, <1>6, <1>7, PlainLength
    <2> DEFINE O == R.out
    <2>4. O # <<>>
      <3>1. Len(O) # 0
        BY <1>6, <2>3
      <3>2. QED
        BY <3>1
    <2>5. PICK r \in Blocks, x \in Block : O = Append(r, x)
      BY <1>4, <2>4, LastBlock
    <2>6. Len(r) = Len(p)
      <3>1. Len(O) = Len(r) + 1 /\ Len(r) \in Nat
        BY <2>5, LastOf
      <3>2. QED
        BY <1>6, <2>3, <3>1
    <2>7. client' = OnStop(client, Len(sent) - 1) /\ rewriter' = rewriter
      BY <2>2, StopStep
    <2>8. client' = OnStop(Opened(Append(r, x)), Len(r))
      BY <1>6, <2>1, <2>5, <2>6, <2>7
    <2>9. client' = Shut(O)
      BY <2>5, <2>8, StopIs
    <2>10. Copies(sent, FALSE, rewriter', client')
      BY <2>1, <2>7, <2>9 DEF Copies
    <2>11. ~Yes(R.sc.flipped)
      BY <1>7 DEF Yes, No
    <2> HIDE DEF R, O
    <2>12. QED
      BY <1>1, <1>3, <1>7, <2>10, <2>11 DEF ThinkInv, R
  <1>8. CASE Yes(R.sc.flipped)
    <2> DEFINE P == Rewritten(p)
               O == P.out
               h == Fed(P, b).segs
    <2>1. RepairsLast(p, b, State)
      <3>1. PICK q \in Blocks, a \in Block : sent = Append(q, a) /\ RepairsLast(q, a, State)
        BY <1>1, <1>2, <1>8 DEF Repairs
      <3>2. Append(q, a) = Append(p, b) => q = p /\ a = b
        BY AppendsEqual
      <3>3. QED
        BY <1>5, <3>1, <3>2
    <2>2. P \in Rewrites /\ O \in Blocks
      BY RewrittenIn
    <2>3. Rests(State', R.out)
      <3>1. CASE Scannable(b.kind)
        <4>1. InBlock(State, O, h)
          BY <2>1, <3>1 DEF RepairsLast
        <4>2. h \in Segs
          BY <2>2, FedFacts
        <4>3. R.out = O \o mergeSegments(h)
          <5>1. R.sc = Fed(P, b).sc
            BY <1>5, <3>1, RewriteLast
          <5>2. QED
            BY <1>5, <1>8, <3>1, <5>1, RewriteLast
        <4> HIDE DEF O, h
        <4>4. State \in Flows
          BY <4>1, InFlow
        <4>5. Same(State.cl.blocks, R.out)
          BY <2>2, <4>1, <4>2, <4>3, InBlockSame
        <4>6. ASSUME NEW k \in Raws, NEW e \in BlockRec, NEW B \in Blocks, State = Idle(k, e, B)
              PROVE  Rests(State', R.out)
          <5> DEFINE z == Blk(e.kind, <<>>)
                     A == Append(B, z)
          <5>1. State.cl.blocks = B
            <6>1. State.cl = Shut(B)
              BY <4>6, IdleParts
            <6>2. QED
              BY <6>1, ClientParts
          <5>2. Same(B, R.out)
            BY <4>5, <5>1
          <5>3. z \in Block /\ z.text = <<>>
            <6>1. e.kind \in Kinds
              BY DEF BlockRec
            <6>2. QED
              BY <6>1, EmptyText, BlkIn
          <5>4. State' = Idle(k, NoBlock, B) \/ State' = Idle(k, NoBlock, A)
            BY <4>6, StopIdle
          <5> HIDE DEF z
          <5>5. A \in Blocks
            BY <5>3, AppendBlock
          <5>6. Same(A, R.out)
            BY <1>4, <5>2, <5>3, SameEmpty
          <5> HIDE DEF A, R
          <5>7. QED
            BY <5>2, <5>4, <5>5, <5>6, RestsBy
        <4>7. ASSUME NEW k \in Raws, NEW e \in BlockRec, NEW r \in Blocks, NEW x \in Block, State = Live(k, e, r, x)
              PROVE  Rests(State', R.out)
          <5> DEFINE A == Append(r, x)
          <5>1. State.cl.blocks = A
            <6>1. State.cl = Opened(A)
              BY <4>7, LiveOpen
            <6>2. QED
              BY <6>1, ClientParts
          <5>2. Same(A, R.out)
            BY <4>5, <5>1
          <5>3. A \in Blocks
            BY AppendBlock
          <5>4. State' = Idle(k, NoBlock, A)
            BY <4>7, StopLive
          <5> HIDE DEF A, R
          <5>5. QED
            BY <5>2, <5>3, <5>4, RestsBy
        <4>8. QED
          BY <4>4, <4>6, <4>7, FlowCases
      <3>2. CASE ~Scannable(b.kind)
        <4>1. PICK k \in Raws, e \in BlockRec, r \in Blocks : State = Live(k, e, r, b) /\ Same(r, O)
          BY <2>1, <3>2 DEF RepairsLast
        <4> DEFINE A == Append(r, b)
        <4>2. R.out = Append(O, b)
          BY <1>5, <3>2, RewriteLast
        <4>3. Same(A, R.out)
          BY <2>2, <4>1, <4>2, SameAppend
        <4>4. A \in Blocks
          BY AppendBlock
        <4>5. State' = Idle(k, NoBlock, A)
          BY <4>1, StopLive
        <4> HIDE DEF A, R
        <4>6. QED
          BY <4>3, <4>4, <4>5, RestsBy
      <3>3. QED
        BY <3>1, <3>2
    <2>4. Repairs(sent, FALSE, ended', State')
      BY <2>3 DEF Repairs
    <2>5. ~No(R.sc.flipped)
      BY <1>8 DEF Yes, No
    <2> HIDE DEF R
    <2>6. QED
      BY <1>1, <1>3, <1>8, <2>4, <2>5 DEF ThinkInv, R
  <1>9. QED
    BY <1>4, <1>7, <1>8 DEF Yes, No

LEMMA FinishKeeps ==
  ASSUME ThinkInv, finish
  PROVE  ThinkInv'
  <1> DEFINE R == Rewritten(sent)
  <1>1. /\ ~ended /\ sent \in Blocks /\ upOpen \in BOOLEAN /\ (upOpen => sent # <<>>)
        /\ No(R.sc.flipped) => Copies(sent, upOpen, rewriter, client)
        /\ Yes(R.sc.flipped) => Repairs(sent, upOpen, ended, State)
    BY DEF ThinkInv, finish
  <1>2. sent' = sent /\ upOpen' = upOpen /\ ended' = TRUE
    BY DEF finish
  <1>3. /\ rewriter.cur # NoBlock => Become(closeCur(State))
        /\ rewriter.cur = NoBlock => Become(State)
    BY DEF finish
  <1>4. R.out \in Blocks /\ R.sc.flipped \in BOOLEAN
    BY <1>1, RewrittenIn
  <1>5. CASE No(R.sc.flipped)
    <2>1. PICK k \in Raws : rewriter = Copying(k)
      BY <1>1, <1>5 DEF Copies
    <2>2. rewriter.cur = NoBlock
      BY <2>1, CopyingParts
    <2>3. rewriter' = rewriter /\ client' = client
      BY <1>3, <2>2 DEF Become, State
    <2>4. Copies(sent, upOpen, rewriter', client')
      BY <1>1, <1>5, <2>3
    <2>5. ~Yes(R.sc.flipped)
      BY <1>5 DEF Yes, No
    <2> HIDE DEF R
    <2>6. QED
      BY <1>1, <1>2, <1>5, <2>4, <2>5 DEF ThinkInv, R
  <1>6. CASE Yes(R.sc.flipped)
    <2>1. ASSUME NEW k \in Raws, NEW e, NEW B \in Blocks, State = Idle(k, e, B), Same(B, R.out)
          PROVE  Rests(State', R.out)
      <3>1. rewriter.cur = NoBlock
        <4>1. rewriter = Writing(k, Len(B), NoBlock, e)
          BY <2>1, StateOf, IdleParts
        <4>2. QED
          BY <4>1, WritingParts
      <3>2. State' = Idle(k, e, B)
        BY <1>3, <2>1, <3>1, BecomeIdle
      <3>3. QED
        BY <2>1, <3>2, RestsBy
    <2>2. ASSUME NEW k \in Raws, NEW e, NEW r \in Blocks, NEW x \in Block, State = Live(k, e, r, x),
                 Same(Append(r, x), R.out)
          PROVE  Rests(State', R.out)
      <3> DEFINE A == Append(r, x)
      <3>1. rewriter.cur # NoBlock
        <4>1. rewriter = Live(k, e, r, x).rw
          BY <2>2, StateOf
        <4>2. QED
          BY <4>1, LiveCur
      <3>2. closeCur(State) = Idle(k, e, A) /\ A \in Blocks
        BY <2>2, CloseLive, AppendBlock
      <3>3. Same(A, R.out)
        BY <2>2
      <3> HIDE DEF A, R
      <3>4. State' = Idle(k, e, A)
        BY <1>3, <3>1, <3>2, BecomeIdle
      <3>5. QED
        BY <3>2, <3>3, <3>4, RestsBy
    <2>3. Rests(State', R.out)
      <3>1. CASE ~upOpen
        <4>1. Rests(State, R.out)
          BY <1>1, <1>6, <3>1 DEF Repairs
        <4>2. PICK k \in Raws, B \in Blocks : \E e : State = Idle(k, e, B) /\ Same(B, R.out)
          BY <4>1 DEF Rests
        <4>3. QED
          BY <2>1, <4>2
      <3>2. CASE upOpen
        <4>1. PICK p \in Blocks, b \in Block : sent = Append(p, b) /\ RepairsLast(p, b, State)
          BY <1>1, <1>6, <3>2 DEF Repairs
        <4> DEFINE P == Rewritten(p)
                   O == P.out
                   h == Fed(P, b).segs
        <4>2. P \in Rewrites /\ O \in Blocks
          BY RewrittenIn
        <4>3. CASE Scannable(b.kind)
          <5>1. InBlock(State, O, h)
            BY <4>1, <4>3 DEF RepairsLast
          <5>2. h \in Segs
            BY <4>2, FedFacts
          <5>3. R.out = O \o mergeSegments(h)
            <6>1. R.sc = Fed(P, b).sc
              BY <4>1, <4>3, RewriteLast
            <6>2. QED
              BY <1>6, <4>1, <4>3, <6>1, RewriteLast
          <5> HIDE DEF O, h, R
          <5>4. State \in Flows
            BY <5>1, InFlow
          <5>5. Same(State.cl.blocks, R.out)
            BY <4>2, <5>1, <5>2, <5>3, InBlockSame
          <5>6. ASSUME NEW k \in Raws, NEW e \in BlockRec, NEW B \in Blocks, State = Idle(k, e, B)
                PROVE  Rests(State', R.out)
            <6>1. State.cl = Shut(B)
              BY <5>6, IdleParts
            <6>2. State.cl.blocks = B
              BY <6>1, ClientParts
            <6>3. QED
              BY <2>1, <5>5, <5>6, <6>2
          <5>7. ASSUME NEW k \in Raws, NEW e \in BlockRec, NEW r \in Blocks, NEW x \in Block,
                       State = Live(k, e, r, x)
                PROVE  Rests(State', R.out)
            <6>1. State.cl = Opened(Append(r, x))
              BY <5>7, LiveOpen
            <6>2. State.cl.blocks = Append(r, x)
              BY <6>1, ClientParts
            <6>3. QED
              BY <2>2, <5>5, <5>7, <6>2
          <5>8. QED
            BY <5>4, <5>6, <5>7, FlowCases
        <4>4. CASE ~Scannable(b.kind)
          <5>1. PICK k \in Raws, e \in BlockRec, r \in Blocks : State = Live(k, e, r, b) /\ Same(r, O)
            BY <4>1, <4>4 DEF RepairsLast
          <5>2. R.out = Append(O, b)
            BY <4>1, <4>4, RewriteLast
          <5>3. Same(Append(r, b), R.out)
            BY <4>2, <5>1, <5>2, SameAppend
          <5>4. QED
            BY <2>2, <5>1, <5>3
        <4>5. QED
          BY <4>3, <4>4
      <3>3. QED
        BY <3>1, <3>2
    <2>4. Repairs(sent, upOpen, TRUE, State')
      BY <2>3 DEF Repairs
    <2>5. ~No(R.sc.flipped)
      BY <1>6 DEF Yes, No
    <2> HIDE DEF R
    <2>6. QED
      BY <1>1, <1>2, <1>6, <2>4, <2>5 DEF ThinkInv, R
  <1>7. QED
    BY <1>4, <1>5, <1>6 DEF Yes, No

LEMMA DeltasText ==
  ASSUME NEW chunk \in Deltas
  PROVE  chunk \in Text
  <1>1. PICK n \in 1 .. MaxDelta : chunk \in [1 .. n -> Pieces]
    BY DEF Deltas
  <1>2. MaxDelta \in Nat /\ Pieces \subseteq Alphabet
    BY ThinkAssumption DEF Alphabet
  <1>3. n \in Nat /\ chunk \in [1 .. n -> Alphabet]
    BY <1>1, <1>2
  <1>4. chunk \in Seq(Alphabet)
    BY <1>3
  <1>5. QED
    BY <1>4 DEF Text

-----------------------------------------------------------------------------
(* Signatures and citations: the downstream index of the block they are in. *)

\* The index is that of the open block, or the block has not started.
Placed(s) ==
  \/ \E k \in Raws, b \in BlockRec, B \in Blocks : s = Idle(k, b, B) /\ b.synth = NotStarted
  \/ \E k \in Raws, b \in BlockRec, r \in Blocks, x \in Block : s = Live(k, b, r, x) /\ b.synth = Len(r)

StrayInv ==
  /\ stray \subseteq {NotStarted}
  /\ upOpen /\ ~ended /\ rewriter.rewriting => Placed(State)

LEMMA PlacedIdle ==
  ASSUME NEW k \in Raws, NEW b \in BlockRec, NEW B \in Blocks, NEW s, s = Idle(k, b, B), b.synth = NotStarted
  PROVE  Placed(s)
  BY DEF Placed

LEMMA PlacedLive ==
  ASSUME NEW k \in Raws, NEW b \in BlockRec, NEW r \in Blocks, NEW x \in Block, NEW s, s = Live(k, b, r, x),
         b.synth = Len(r)
  PROVE  Placed(s)
  BY DEF Placed

LEMMA PlacedFlow ==
  ASSUME NEW s, Placed(s)
  PROVE  s \in Flows
  BY IdleIn, LiveIn DEF Placed

LEMMA StartedAt ==
  ASSUME NEW b \in BlockRec, NEW n \in Nat
  PROVE  Started(b, n).synth = n
  <1> DEFINE y == TRUE
  <1>1. Started(b, n) = [b EXCEPT !.synth = n, !.started = y]
    BY DEF Started
  <1> HIDE DEF y
  <1>2. [b EXCEPT !.synth = n, !.started = y].synth = n
    BY DEF BlockRec
  <1>3. QED
    BY <1>1, <1>2

\* One more segment,
LEMMA PlacedEmit ==
  ASSUME NEW s, Placed(s), NEW g \in Seg
  PROVE  Placed(emitSegment(s, g))
  <1> DEFINE d == <<g[2]>>
             c == Blk(g[1], d)
  <1>1. c \in Block /\ d \in Text
    BY SegText
  <1>2. ASSUME NEW k \in Raws, NEW b \in BlockRec, NEW B \in Blocks, s = Idle(k, b, B)
        PROVE  Placed(emitSegment(s, g))
    <2> DEFINE e == Started(b, Len(B))
    <2>1. e \in BlockRec /\ e.synth = Len(B)
      BY LenOf, StartedIn, StartedAt
    <2>2. emitSegment(s, g) = Live(k, e, B, c)
      BY <1>2, EmitIdle
    <2> HIDE DEF e, c
    <2>3. QED
      BY <1>1, <2>1, <2>2, PlacedLive
  <1>3. ASSUME NEW k \in Raws, NEW b \in BlockRec, NEW r \in Blocks, NEW x \in Block, s = Live(k, b, r, x),
               b.synth = Len(r)
        PROVE  Placed(emitSegment(s, g))
    <2>1. CASE g[1] = x.kind
      <3> DEFINE z == Blk(x.kind, x.text \o d)
      <3>1. z \in Block
        BY <1>1, ExtendLast
      <3>2. emitSegment(s, g) = Live(k, b, r, z)
        BY <1>3, <2>1, EmitSame
      <3> HIDE DEF z
      <3>3. QED
        BY <1>3, <3>1, <3>2, PlacedLive
    <2>2. CASE g[1] # x.kind
      <3> DEFINE e == Started(b, Len(r) + 1)
                 B == Append(r, x)
      <3>1. e \in BlockRec /\ B \in Blocks
        BY LenOf, StartedIn, AppendBlock
      <3>2. e.synth = Len(r) + 1 /\ Len(B) = Len(r) + 1
        BY LenOf, StartedAt, AppendBlock
      <3>3. emitSegment(s, g) = Live(k, e, B, c)
        BY <1>3, <2>2, EmitOther
      <3> HIDE DEF e, c, B
      <3>4. e.synth = Len(B)
        BY <3>2
      <3>5. QED
        BY <1>1, <3>1, <3>3, <3>4, PlacedLive
    <2>3. QED
      BY <2>1, <2>2
  <1> HIDE DEF c, d
  <1>4. QED
    BY <1>2, <1>3 DEF Placed

\* and all of them.
LEMMA PlacedAll ==
  ASSUME NEW s, Placed(s), NEW g \in Segs
  PROVE  Placed(emitSegments(s, g))
  <1> DEFINE S == {e \in Segs : Placed(emitSegments(s, e))}
  <1>0. s \in Flows
    BY PlacedFlow
  <1>1. <<>> \in S
    <2>1. <<>> \in Segs
      BY SegsEmpty
    <2>2. emitSegments(s, <<>>) = s
      BY <1>0, <2>1, EmitFacts, SegIs
    <2>3. QED
      BY <2>1, <2>2
  <1>2. ASSUME NEW e \in Seq(Seg), NEW a \in Seg, e \in S PROVE Append(e, a) \in S
    <2> DEFINE t == emitSegments(s, e)
    <2>1. Placed(t) /\ e \in Segs
      BY <1>2
    <2>2. emitSegments(s, Append(e, a)) = emitSegment(t, a)
      BY <1>0, EmitFacts
    <2>3. Append(e, a) \in Segs
      BY <2>1, SegsAppend
    <2> HIDE DEF t
    <2>4. Placed(emitSegment(t, a))
      BY <2>1, PlacedEmit
    <2>5. QED
      BY <2>2, <2>3, <2>4
  <1> HIDE DEF S
  <1>3. Segs \subseteq S
    BY <1>1, <1>2, InductiveSequences, SegIs
  <1>4. QED
    BY <1>3 DEF S

\* Before the first marker the client has the blocks that were sent, the last
\* of them of its kind,
LEMMA CopiesLast ==
  ASSUME ThinkInv, upOpen, ~ended, ~rewriter.rewriting, NEW p \in Blocks, NEW b \in Block,
         sent = Append(p, b), Scannable(b.kind)
  PROVE  \E O \in Blocks, y \in Block :
           /\ client = Opened(Append(O, y)) /\ Len(O) = Len(p)
           /\ rewriter.rawKind = b.kind /\ y.kind = b.kind
  <1> DEFINE P == Rewritten(p)
             R == Rewritten(sent)
             O == P.out
             v == Fed(P, b)
             h == v.segs
             y == Blk(b.kind, PiecesOf(h))
  <1>1. sent \in Blocks /\ sent[Len(sent)] = b
    BY LastOf DEF ThinkInv
  <1>2. R.sc.flipped \in BOOLEAN
    BY <1>1, RewrittenIn
  <1>3. No(R.sc.flipped) => Copies(sent, upOpen, rewriter, client)
    BY DEF ThinkInv
  <1>4. Yes(R.sc.flipped) => Repairs(sent, upOpen, ended, State)
    BY DEF ThinkInv
  <1>5. P \in Rewrites /\ O \in Blocks
    BY RewrittenIn
  <1>6. h \in Segs /\ b.kind \in Kinds
    BY <1>5, FedFacts
  <1>7. y \in Block /\ y.kind = b.kind
    BY <1>6, PiecesFacts, BlkIn
  <1>8. R.sc = v.sc
    BY RewriteLast
  <1>9. No(v.sc.flipped) => R.out = Append(O, y)
    BY RewriteLast
  <1>10. No(R.sc.flipped) => No(P.sc.flipped)
    BY FlipStays
  <1>11. No(P.sc.flipped) => Len(O) = Len(p)
    BY PlainLength
  <1> HIDE DEF P, R, O, v, h, y
  <1>12. ~Yes(R.sc.flipped)
    <2> SUFFICES ASSUME Yes(R.sc.flipped) PROVE FALSE
      OBVIOUS
    <2>1. PICK q \in Blocks, a \in Block : sent = Append(q, a) /\ RepairsLast(q, a, State)
      BY <1>4 DEF Repairs
    <2>2. a = b
      BY <1>1, <2>1, LastOf
    <2>3. InBlock(State, Rewritten(q).out, Fed(Rewritten(q), a).segs)
      BY <2>1, <2>2 DEF RepairsLast
    <2>4. State \in Flows
      BY <2>3, InFlow
    <2>5. State.rw.rewriting
      BY <2>4, FlowCases, IdleParts, LiveOpen
    <2>6. QED
      BY <2>5 DEF State
  <1>13. No(R.sc.flipped)
    BY <1>2, <1>12 DEF Yes, No
  <1>14. PICK k \in Raws : rewriter = Copying(k) /\ client = Opened(R.out) /\ k = b.kind
    BY <1>1, <1>3, <1>13 DEF Copies, R
  <1>15. rewriter.rawKind = b.kind
    BY <1>14, CopyingParts
  <1>16. client = Opened(Append(O, y))
    BY <1>8, <1>9, <1>13, <1>14
  <1>17. QED
    BY <1>5, <1>7, <1>10, <1>11, <1>13, <1>15, <1>16

\* so that the first marker leaves it at its index.
LEMMA TakenPlaced ==
  ASSUME NEW O \in Blocks, NEW y \in Block
  PROVE  Placed(Taken(Len(O), y.kind, Opened(Append(O, y))))
  <1> DEFINE u == Len(O)
             k == y.kind
             e == TakenRec(u, k)
             s == Taken(u, k, Opened(Append(O, y)))
  <1>1. u \in Nat /\ k \in Kinds /\ k \in Raws
    BY LenOf, BlockParts DEF Raws
  <1>2. e \in BlockRec /\ e.up = u
    BY <1>1, TakenIn
  <1>3. e.synth = u
    BY DEF TakenRec
  <1>4. s = [rw |-> Writing(k, u + 1, [idx |-> u, kind |-> k, up |-> u], e), cl |-> Opened(Append(O, y))]
    BY DEF Taken
  <1> HIDE DEF e, s
  <1>5. s = Live(k, e, O, y)
    BY <1>2, <1>4 DEF Live
  <1>6. Placed(s)
    BY <1>1, <1>2, <1>3, <1>5, PlacedLive
  <1>7. QED
    BY <1>6 DEF s

\* A block that is passed on is at its index.
LEMMA PassedPlaced ==
  ASSUME NEW p, NEW b \in Block, NEW s, RepairsLast(p, b, s), ~Scannable(b.kind)
  PROVE  Placed(s)
  <1>1. PICK k \in Raws, e \in BlockRec, r \in Blocks : s = Live(k, e, r, b) /\ e.synth = Len(r)
    BY DEF RepairsLast
  <1>2. QED
    BY <1>1, PlacedLive

LEMMA PassedNow ==
  ASSUME NEW c, NEW o, NEW e, NEW rw, NEW cl, NEW s, s = [rw |-> rw, cl |-> cl], NEW p \in Blocks, NEW b \in Block,
         c = Append(p, b), ~Scannable(b.kind), o, ~e, NEW f \in BOOLEAN, rw.rewriting,
         No(f) => Copies(c, o, rw, cl), Yes(f) => Repairs(c, o, e, s)
  PROVE  Placed(s)
  <1>1. ~No(f)
    <2> SUFFICES ASSUME No(f) PROVE FALSE
      OBVIOUS
    <2>1. PICK k \in Raws : rw = Copying(k)
      BY DEF Copies
    <2>2. QED
      BY <2>1, CopyingParts
  <1>2. Yes(f)
    BY <1>1 DEF Yes, No
  <1>3. PICK q \in Blocks, a \in Block : c = Append(q, a) /\ RepairsLast(q, a, s)
    BY <1>2 DEF Repairs
  <1>4. c[Len(c)] = a
    BY <1>3, LastOf
  <1>5. c[Len(c)] = b
    BY LastOf
  <1>6. QED
    BY <1>3, <1>4, <1>5, PassedPlaced

LEMMA PassedAfter ==
  ASSUME ThinkInv', upOpen', ~ended', rewriter'.rewriting, NEW p \in Blocks, NEW b \in Block,
         sent' = Append(p, b), ~Scannable(b.kind)
  PROVE  Placed(State')
  <1> DEFINE c == sent'
             f == Rewritten(c).sc.flipped
             s == State'
  <1>1. s = [rw |-> rewriter', cl |-> client']
    BY DEF State
  <1>2. c \in Blocks
    BY DEF ThinkInv
  <1>3. f \in BOOLEAN
    BY <1>2, RewrittenIn
  <1>4. No(f) => Copies(c, upOpen', rewriter', client')
    BY DEF ThinkInv
  <1>5. Yes(f) => Repairs(c, upOpen', ended', s)
    BY DEF ThinkInv
  <1>6. c = Append(p, b)
    OBVIOUS
  <1> DEFINE o == upOpen'
             e == ended'
             rw == rewriter'
             cl == client'
  <1>7. o /\ ~e /\ rw.rewriting /\ s = [rw |-> rw, cl |-> cl]
    BY <1>1
  <1>8. (No(f) => Copies(c, o, rw, cl)) /\ (Yes(f) => Repairs(c, o, e, s))
    BY <1>4, <1>5
  <1> HIDE DEF c, f, s, o, e, rw, cl
  <1>9. Placed(s)
    BY <1>3, <1>6, <1>7, <1>8, PassedNow
  <1>10. QED
    BY <1>9 DEF s

\* A new block has not started, or is the open one.
LEMMA StartPlaces ==
  ASSUME ThinkInv, ThinkInv', NEW kind \in Kinds, onBlockStart(kind), rewriter'.rewriting
  PROVE  Placed(State')
  <1> DEFINE c == sent
             x == Blk(kind, <<>>)
             R == Rewritten(c)
  <1>1. c \in Blocks /\ ~upOpen /\ ~ended
    BY DEF ThinkInv, onBlockStart
  <1>2. x \in Block /\ x.kind = kind
    BY EmptyText, BlkIn
  <1>3. sent' = Append(c, x) /\ upOpen' /\ ~ended'
    BY <1>1 DEF onBlockStart, Blk
  <1>4. R.sc.flipped \in BOOLEAN
    BY <1>1, RewrittenIn
  <1>5. CASE ~Scannable(kind)
    <2> HIDE DEF x
    <2>1. QED
      BY <1>1, <1>2, <1>3, <1>5, PassedAfter
  <1>6. CASE Scannable(kind)
    <2>1. Yes(R.sc.flipped) => Rests(State, R.out)
      BY <1>1 DEF ThinkInv, Repairs
    <2>2. No(R.sc.flipped) => \E k \in Raws : rewriter = Copying(k)
      BY DEF ThinkInv, Copies
    <2>3. CASE No(R.sc.flipped)
      <3>1. PICK k \in Raws : rewriter = Copying(k)
        BY <2>2, <2>3
      <3>2. ~rewriter.rewriting /\ rewriter.cur = NoBlock
        BY <3>1, CopyingParts
      <3> DEFINE m == IF Scannable(kind) THEN kind ELSE ""
      <3>3. rewriter' = [rewriter EXCEPT !.rawKind = m]
        BY <3>2, StartStep
      <3> HIDE DEF m
      <3>4. rewriter' = Copying(m)
        BY <3>1, <3>3, CopyingParts
      <3>5. ~rewriter'.rewriting
        BY <3>4, CopyingParts
      <3>6. QED
        BY <3>5
    <2>4. CASE Yes(R.sc.flipped)
      <3>1. PICK k \in Raws, B \in Blocks : \E b : State = Idle(k, b, B)
        BY <2>1, <2>4 DEF Rests
      <3>2. PICK b : State = Idle(k, b, B)
        BY <3>1
      <3>3. rewriter = Writing(k, Len(B), NoBlock, b) /\ client = Shut(B)
        BY <3>2, StateOf, IdleParts
      <3>4. rewriter.rewriting /\ rewriter.cur = NoBlock
        BY <3>3, WritingParts
      <3> DEFINE e == Deferred(Len(c), kind)
      <3>5. rewriter' = [rewriter EXCEPT !.block = e] /\ client' = client
        BY <1>6, <3>4, StartStep
      <3>6. e \in BlockRec /\ e.synth = NotStarted
        <4>1. Len(c) \in Nat /\ Len(B) \in Nat
          BY <1>1, LenOf
        <4>2. Len(c) \in Int
          BY <4>1
        <4>3. QED
          BY <4>1, <4>2, RecsIn
      <3> HIDE DEF e
      <3>7. rewriter' = Writing(k, Len(B), NoBlock, e)
        BY <3>3, <3>5, WritingParts
      <3>8. State' = [rw |-> rewriter', cl |-> client']
        BY DEF State
      <3>9. State' = Idle(k, e, B)
        BY <3>3, <3>5, <3>7, <3>8 DEF Idle
      <3>10. QED
        BY <3>6, <3>9, PlacedIdle
    <2>5. QED
      BY <1>4, <2>3, <2>4 DEF Yes, No
  <1>7. QED
    BY <1>5, <1>6

\* A delta leaves its block at its index.
LEMMA DeltaPlaces ==
  ASSUME ThinkInv, ThinkInv', StrayInv, NEW chunk \in Text, onBlockDelta(chunk), rewriter'.rewriting
  PROVE  Placed(State')
  <1>1. sent \in Blocks /\ sent # <<>> /\ upOpen /\ ~ended
    BY DEF ThinkInv, onBlockDelta
  <1>2. PICK p \in Blocks, b \in Block : sent = Append(p, b)
    BY <1>1, LastBlock
  <1>3. sent[Len(sent)] = b /\ Len(sent) - 1 = Len(p) /\ Len(p) \in Nat
    BY <1>2, LastOf
  <1>4. upOpen' /\ ~ended' /\ sent' = Extend(sent, chunk)
    BY <1>1 DEF onBlockDelta
  <1>5. CASE ~Scannable(b.kind)
    <2> DEFINE x == Blk(b.kind, b.text \o chunk)
    <2>1. sent' = Append(p, x) /\ x \in Block
      BY <1>2, <1>4, ExtendLast
    <2>2. x.kind = b.kind
      BY DEF Blk
    <2> HIDE DEF x
    <2>3. QED
      BY <1>4, <1>5, <2>1, <2>2, PassedAfter
  <1>6. CASE Scannable(b.kind)
    <2> DEFINE w == Feed(scanner, chunk)
               g == w.segs
    <2>1. scanner \in Scanners
      BY <1>1, RewrittenIn DEF ThinkInv
    <2>2. g \in Segs
      BY <2>1, FeedFacts
    <2>3. /\ ~rewriter.rewriting /\ ~w.sc.flipped => rewriter' = rewriter
          /\ ~rewriter.rewriting /\ w.sc.flipped =>
               Become(emitSegments(Taken(Len(p), rewriter.rawKind, client), g))
          /\ rewriter.rewriting => Become(emitSegments(State, g))
      BY <1>3, <1>6, DeltaStep
    <2> HIDE DEF w, g
    <2>4. ASSUME NEW s, Placed(s), Become(emitSegments(s, g)) PROVE Placed(State')
      <3> DEFINE t == emitSegments(s, g)
      <3>1. Placed(t)
        BY <2>2, <2>4, PlacedAll
      <3>2. Become(t)
        BY <2>4
      <3> HIDE DEF t
      <3>3. State' = t
        BY <3>1, <3>2, PlacedFlow, BecomeFlow
      <3>4. QED
        BY <3>1, <3>3
    <2>5. CASE rewriter.rewriting
      <3>1. Placed(State)
        BY <1>1, <2>5 DEF StrayInv
      <3>2. QED
        BY <2>3, <2>4, <2>5, <3>1
    <2>6. CASE ~rewriter.rewriting
      <3>1. PICK O \in Blocks, y \in Block :
              /\ client = Opened(Append(O, y)) /\ Len(O) = Len(p)
              /\ rewriter.rawKind = b.kind /\ y.kind = b.kind
        BY <1>1, <1>2, <1>6, <2>6, CopiesLast
      <3>2. w.sc.flipped
        BY <2>3, <2>6
      <3> DEFINE s == Taken(Len(p), rewriter.rawKind, client)
      <3>3. s = Taken(Len(O), y.kind, Opened(Append(O, y)))
        BY <3>1
      <3>4. Placed(s)
        BY <3>3, TakenPlaced
      <3>5. Become(emitSegments(s, g))
        BY <2>3, <2>6, <3>2
      <3> HIDE DEF s
      <3>6. QED
        BY <2>4, <3>4, <3>5
    <2>7. QED
      BY <2>5, <2>6
  <1>7. QED
    BY <1>5, <1>6

\* A delta at the index of a client's last block goes to the open block.
LEMMA CurrentLast ==
  ASSUME NEW r \in Blocks, NEW x \in Block, NEW c, c = Opened(Append(r, x)), NEW i, i = Len(r)
  PROVE  Current(c, i)
  <1> DEFINE B == Append(r, x)
  <1>1. Len(r) = Len(B) - 1
    BY AppendBlock
  <1>2. c.blocks = B /\ c.open
    BY ClientParts
  <1> HIDE DEF B
  <1>3. QED
    BY <1>1, <1>2 DEF Current

LEMMA SignaturePlaced ==
  ASSUME ThinkInv, StrayInv, onSignatureDelta
  PROVE  stray' \subseteq {NotStarted}
  <1> DEFINE i == IF rewriter.rewriting THEN rewriter.block.synth ELSE UpIndex
  <1>1. /\ upOpen /\ ~ended /\ Scannable(sent[Len(sent)].kind)
        /\ stray' = IF Current(client, i) THEN stray ELSE stray \cup {i}
    BY DEF onSignatureDelta
  <1>2. sent \in Blocks /\ sent # <<>>
    BY <1>1 DEF ThinkInv
  <1>3. PICK p \in Blocks, b \in Block : sent = Append(p, b)
    BY <1>2, LastBlock
  <1>4. sent[Len(sent)] = b /\ Len(sent) - 1 = Len(p)
    BY <1>3, LastOf
  <1>5. Current(client, i) \/ i = NotStarted
    <2>1. CASE ~rewriter.rewriting
      <3>1. PICK O \in Blocks, y \in Block : client = Opened(Append(O, y)) /\ Len(O) = Len(p)
        BY <1>1, <1>3, <1>4, <2>1, CopiesLast
      <3>2. i = Len(O)
        BY <1>4, <2>1, <3>1 DEF UpIndex
      <3> HIDE DEF i
      <3>3. QED
        BY <3>1, <3>2, CurrentLast
    <2>2. CASE rewriter.rewriting
      <3>1. i = rewriter.block.synth
        BY <2>2
      <3> HIDE DEF i
      <3>2. Placed(State)
        BY <1>1, <2>2 DEF StrayInv
      <3>3. ASSUME NEW k \in Raws, NEW e \in BlockRec, NEW B \in Blocks, State = Idle(k, e, B), e.synth = NotStarted
            PROVE  i = NotStarted
        <4>1. rewriter = Idle(k, e, B).rw
          BY <3>3, StateOf
        <4>2. rewriter.block = e
          BY <4>1, IdleParts
        <4>3. QED
          BY <3>1, <3>3, <4>2
      <3>4. ASSUME NEW k \in Raws, NEW e \in BlockRec, NEW r \in Blocks, NEW x \in Block,
                   State = Live(k, e, r, x), e.synth = Len(r)
            PROVE  Current(client, i)
        <4>1. rewriter = Live(k, e, r, x).rw /\ client = Live(k, e, r, x).cl
          BY <3>4, StateOf
        <4>2. rewriter.block = e
          BY <4>1, LiveCur
        <4>3. client = Opened(Append(r, x))
          BY <4>1, LiveOpen
        <4>4. i = Len(r)
          BY <3>1, <3>4, <4>2
        <4>5. QED
          BY <4>3, <4>4, CurrentLast
      <3>5. QED
        BY <3>2, <3>3, <3>4 DEF Placed
    <2>3. QED
      BY <2>1, <2>2
  <1> HIDE DEF i
  <1>6. QED
    BY <1>1, <1>5 DEF StrayInv

-----------------------------------------------------------------------------
LEMMA ThinkInvHolds ==
  ThinkSpec => []ThinkInv
  <1>1. ThinkInit => ThinkInv
    BY ThinkStarts
  <1>2. ThinkInv /\ [ThinkNext]_thinkVars => ThinkInv'
    <2> SUFFICES ASSUME ThinkInv, [ThinkNext]_thinkVars PROVE ThinkInv'
      OBVIOUS
    <2>1. ASSUME NEW kind \in {"text", "thinking", "tool"}, onBlockStart(kind) PROVE ThinkInv'
      <3>1. kind \in Kinds
        BY DEF Kinds
      <3>2. QED
        BY <2>1, <3>1, StartKeeps
    <2>2. ASSUME NEW chunk \in Deltas, onBlockDelta(chunk) PROVE ThinkInv'
      <3>1. chunk \in Text
        BY DeltasText
      <3>2. QED
        BY <2>2, <3>1, DeltaKeeps
    <2>3. CASE onBlockStop
      BY <2>3, StopKeeps
    <2>4. CASE finish
      BY <2>4, FinishKeeps
    <2>5. CASE UNCHANGED thinkVars
      BY <2>5 DEF thinkVars, ThinkInv, State
    <2>6. CASE onSignatureDelta \/ readFails
      <3>1. UNCHANGED <<sent, upOpen, ended, scanner, rewriter, client>>
        BY <2>6 DEF onSignatureDelta, readFails
      <3>2. QED
        BY <3>1 DEF ThinkInv, State
    <2>7. QED
      BY <2>1, <2>2, <2>3, <2>4, <2>5, <2>6 DEF ThinkNext
  <1>3. QED
    BY <1>1, <1>2, PTL DEF ThinkSpec

\* The step is a block's start, delta or stop, the end, a signature or a read error.
LEMMA StrayKeeps ==
  ASSUME ThinkInv, ThinkInv', StrayInv, [ThinkNext]_thinkVars
  PROVE  StrayInv'
  <1>1. stray \subseteq {NotStarted}
    BY DEF StrayInv
  <1>2. ASSUME NEW kind \in {"text", "thinking", "tool"}, onBlockStart(kind), stray' = stray PROVE StrayInv'
    <2>1. kind \in Kinds
      BY DEF Kinds
    <2>2. rewriter'.rewriting => Placed(State')
      BY <1>2, <2>1, StartPlaces
    <2>3. QED
      BY <1>1, <1>2, <2>2 DEF StrayInv
  <1>3. ASSUME NEW chunk \in Deltas, onBlockDelta(chunk), stray' = stray PROVE StrayInv'
    <2>1. chunk \in Text
      BY DeltasText
    <2>2. rewriter'.rewriting => Placed(State')
      BY <1>3, <2>1, DeltaPlaces
    <2>3. QED
      BY <1>1, <1>3, <2>2 DEF StrayInv
  <1>4. ASSUME onBlockStop, stray' = stray PROVE StrayInv'
    <2>1. ~upOpen'
      BY <1>4 DEF onBlockStop
    <2>2. QED
      BY <1>1, <1>4, <2>1 DEF StrayInv
  <1>5. ASSUME finish, stray' = stray PROVE StrayInv'
    <2>1. ended'
      BY <1>5 DEF finish
    <2>2. QED
      BY <1>1, <1>5, <2>1 DEF StrayInv
  <1>6. ASSUME onSignatureDelta PROVE StrayInv'
    <2>1. stray' \subseteq {NotStarted}
      BY <1>6, SignaturePlaced
    <2>2. UNCHANGED <<upOpen, ended, rewriter, client>>
      BY <1>6 DEF onSignatureDelta
    <2>3. QED
      BY <2>1, <2>2 DEF StrayInv, State
  <1>7. ASSUME readFails \/ UNCHANGED thinkVars PROVE StrayInv'
    <2>1. UNCHANGED <<upOpen, ended, rewriter, client, stray>>
      BY <1>7 DEF readFails, thinkVars
    <2>2. QED
      BY <2>1 DEF StrayInv, State
  <1>8. QED
    BY <1>2, <1>3, <1>4, <1>5, <1>6, <1>7 DEF ThinkNext

LEMMA StrayInvHolds ==
  ThinkSpec => []StrayInv
  <1>1. ThinkInit => StrayInv
    BY DEF ThinkInit, StrayInv
  <1>2. ThinkInv /\ ThinkInv' /\ StrayInv /\ [ThinkNext]_thinkVars => StrayInv'
    BY StrayKeeps
  <1>3. QED
    BY <1>1, <1>2, ThinkInvHolds, PTL DEF ThinkSpec

\* The client has the blocks of the rewritten response, in good form.
LEMMA InvRepaired ==
  ASSUME ThinkInv, StrayInv
  PROVE  StreamRepaired
  <1> DEFINE R == Rewritten(sent)
  <1>1. sent \in Blocks /\ upOpen \in BOOLEAN /\ ended \in BOOLEAN
    BY DEF ThinkInv
  <1>2. R \in Rewrites /\ R.out \in Blocks /\ R.sc.flipped \in BOOLEAN
    BY <1>1, RewrittenIn
  <1>3. client.ok /\ Same(client.blocks, R.out) /\ (ended /\ rewriter.rewriting => ~client.open)
    <2>1. CASE No(R.sc.flipped)
      <3>1. PICK k \in Raws : /\ rewriter = Copying(k)
                              /\ client = Opened(R.out) \/ client = Shut(R.out)
        BY <1>1, <2>1 DEF ThinkInv, Copies
      <3>2. ~rewriter.rewriting
        BY <3>1, CopyingParts
      <3>3. client.ok /\ client.blocks = R.out
        BY <3>1, ClientParts
      <3>4. QED
        BY <3>2, <3>3, SameItself
    <2>2. CASE Yes(R.sc.flipped)
      <3>1. Repairs(sent, upOpen, ended, State)
        BY <2>2 DEF ThinkInv
      <3>2. CASE ~upOpen \/ ended
        <4>1. PICK k \in Raws, B \in Blocks : \E b : State = Idle(k, b, B) /\ Same(B, R.out)
          BY <3>1, <3>2 DEF Repairs, Rests
        <4>2. PICK b : State = Idle(k, b, B) /\ Same(B, R.out)
          BY <4>1
        <4>3. client = Shut(B)
          BY <4>2, StateOf, IdleParts
        <4>4. client.ok /\ ~client.open /\ client.blocks = B
          BY <4>3, ClientParts
        <4>5. QED
          BY <4>2, <4>4
      <3>3. CASE upOpen /\ ~ended
        <4>1. PICK p \in Blocks, b \in Block : sent = Append(p, b) /\ RepairsLast(p, b, State)
          BY <3>1, <3>3 DEF Repairs
        <4> DEFINE P == Rewritten(p)
                   O == P.out
                   h == Fed(P, b).segs
        <4>2. P \in Rewrites /\ O \in Blocks
          BY RewrittenIn
        <4>3. CASE Scannable(b.kind)
          <5>1. InBlock(State, O, h)
            BY <4>1, <4>3 DEF RepairsLast
          <5>2. h \in Segs
            BY <4>2, FedFacts
          <5>3. R.out = O \o mergeSegments(h)
            <6>1. R.sc = Fed(P, b).sc
              BY <4>1, <4>3, RewriteLast
            <6>2. QED
              BY <2>2, <4>1, <4>3, <6>1, RewriteLast
          <5> HIDE DEF O, h, R
          <5>4. State.cl.ok /\ Same(State.cl.blocks, R.out)
            BY <4>2, <5>1, <5>2, <5>3, InBlockSame
          <5>5. State.cl = client
            BY DEF State
          <5>6. QED
            BY <3>3, <5>4, <5>5
        <4>4. CASE ~Scannable(b.kind)
          <5>1. PICK k \in Raws, e \in BlockRec, r \in Blocks : State = Live(k, e, r, b) /\ Same(r, O)
            BY <4>1, <4>4 DEF RepairsLast
          <5>2. R.out = Append(O, b)
            BY <4>1, <4>4, RewriteLast
          <5>3. Same(Append(r, b), R.out)
            BY <4>2, <5>1, <5>2, SameAppend
          <5>4. client = Live(k, e, r, b).cl
            BY <5>1, StateOf
          <5>5. client = Opened(Append(r, b))
            BY <5>4, LiveOpen
          <5>6. client.ok /\ client.blocks = Append(r, b)
            BY <5>5, ClientParts
          <5>7. QED
            BY <3>3, <5>3, <5>6
        <4>5. QED
          BY <4>3, <4>4
      <3>4. QED
        BY <1>1, <3>2, <3>3
    <2>3. QED
      BY <1>2, <2>1, <2>2 DEF Yes, No
  <1>4. Words(R.out) = Words(sent)
    BY <1>1, RewriteWords
  <1>5. WellFormedDownstream
    BY <1>3 DEF WellFormedDownstream, StrayInv
  <1>6. StreamAgreesWithMessage
    BY <1>3 DEF StreamAgreesWithMessage, RewriteAnthropicMessage, Same
  <1>7. OrdinaryTextDelivered
    BY <1>3, <1>4 DEF OrdinaryTextDelivered, Same
  <1>8. QED
    BY <1>5, <1>6, <1>7 DEF StreamRepaired

\* A repaired stream is well formed, says what the whole response would have
\* said and holds ordinary text back at no moment, wherever the markers fall and
\* however the backend cuts its text into deltas; a signature or citation goes to
\* the open block or, after the first marker, carries the index -1 of a block that
\* has not started (AnthropicSSERewriter, RewriteAnthropicMessage).
THEOREM StreamsStayRepaired ==
  ThinkSpec => []StreamRepaired
  <1>1. ThinkInv /\ StrayInv => StreamRepaired
    BY InvRepaired
  <1>2. QED
    BY <1>1, ThinkInvHolds, StrayInvHolds, PTL
=============================================================================
