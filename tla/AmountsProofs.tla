---------------------------- MODULE AmountsProofs ----------------------------
(***************************************************************************)
(* Amounts: what the sums of module Totals satisfy, the facts every proof  *)
(* about a balance, a reservation or a ledger rests on; and the price      *)
(* arithmetic, which is right at every integer width: the checked          *)
(* operations are exact or report an overflow, a charge never exceeds the  *)
(* worst case of its quote, and a fee splits its charge.                   *)
(***************************************************************************)
EXTENDS Totals, Pricing, FiniteSetTheorems, FunctionTheorems, WellFoundedInduction, TLAPS

-----------------------------------------------------------------------------
(* Totals.                                                                 *)

\* One row holds exactly its amount of units.
LEMMA UnitsOfOne ==
  ASSUME NEW r, NEW n \in Nat
  PROVE  /\ IsFiniteSet({r} \X (1 .. n))
         /\ Cardinality({r} \X (1 .. n)) = n
  <1>1. IsFiniteSet({r}) /\ Cardinality({r}) = 1
    BY FS_Singleton
  <1>2. IsFiniteSet(1 .. n) /\ Cardinality(1 .. n) = n
    BY FS_Interval
  <1>3. /\ IsFiniteSet({r} \X (1 .. n))
        /\ Cardinality({r} \X (1 .. n)) = Cardinality({r}) * Cardinality(1 .. n)
    BY <1>1, <1>2, FS_Product
  <1>4. QED
    BY <1>1, <1>2, <1>3

\* Finitely many rows hold finitely many units, and their total is a natural
\* number.
LEMMA TotalType ==
  ASSUME NEW S, IsFiniteSet(S), NEW w, \A r \in S : w[r] \in Nat
  PROVE  /\ IsFiniteSet(Units(w, S))
         /\ Total(w, S) \in Nat
  <1> DEFINE F == [r \in S |-> {r} \X (1 .. w[r])]
             Image == {{r} \X (1 .. w[r]) : r \in S}
  <1>1. F \in Surjection(S, Image)
    BY DEF Surjection
  <1>2. IsFiniteSet(Image)
    BY <1>1, FS_Surjection
  <1>3. ASSUME NEW T \in Image
        PROVE  IsFiniteSet(T)
    <2>1. PICK r \in S : T = {r} \X (1 .. w[r])
      OBVIOUS
    <2>2. w[r] \in Nat
      OBVIOUS
    <2>3. QED
      BY <2>1, <2>2, UnitsOfOne
  <1>4. IsFiniteSet(UNION Image)
    BY <1>2, <1>3, FS_UNION
  <1>5. QED
    BY <1>4, FS_CardinalityType DEF Units, Total

\* No rows, no units.
LEMMA TotalEmpty ==
  ASSUME NEW w
  PROVE  Total(w, {}) = 0
  <1>1. Units(w, {}) = {}
    BY DEF Units
  <1>2. QED
    BY <1>1, FS_EmptySet DEF Total

\* The total of two disjoint sets of rows is the sum of their totals.
LEMMA TotalUnion ==
  ASSUME NEW S, NEW T, IsFiniteSet(S), IsFiniteSet(T), S \cap T = {},
         NEW w, \A r \in S \cup T : w[r] \in Nat
  PROVE  Total(w, S \cup T) = Total(w, S) + Total(w, T)
  <1>1. IsFiniteSet(Units(w, S)) /\ IsFiniteSet(Units(w, T))
    BY TotalType
  <1>2. Units(w, S \cup T) = Units(w, S) \cup Units(w, T)
    BY DEF Units
  <1>3. Units(w, S) \cap Units(w, T) = {}
    BY DEF Units
  <1>4. Cardinality(Units(w, S) \cup Units(w, T))
          = Cardinality(Units(w, S)) + Cardinality(Units(w, T)) - Cardinality({})
    BY <1>1, <1>3, FS_Union
  <1>5. Cardinality(Units(w, S)) \in Nat /\ Cardinality(Units(w, T)) \in Nat
    BY <1>1, FS_CardinalityType
  <1>6. Cardinality({}) = 0
    BY FS_EmptySet
  <1>7. Cardinality(Units(w, S) \cup Units(w, T))
          = Cardinality(Units(w, S)) + Cardinality(Units(w, T))
    BY <1>4, <1>5, <1>6
  <1>8. QED
    BY <1>2, <1>7 DEF Total

\* The total of one row is its amount.
LEMMA TotalSingleton ==
  ASSUME NEW r, NEW w, w[r] \in Nat
  PROVE  Total(w, {r}) = w[r]
  <1>1. Units(w, {r}) = {r} \X (1 .. w[r])
    BY DEF Units
  <1>2. QED
    BY <1>1, UnitsOfOne DEF Total

\* A new row adds its amount to the total.
LEMMA TotalAdd ==
  ASSUME NEW S, IsFiniteSet(S), NEW r, r \notin S,
         NEW w, \A x \in S \cup {r} : w[x] \in Nat
  PROVE  Total(w, S \cup {r}) = Total(w, S) + w[r]
  <1>1. IsFiniteSet({r}) /\ S \cap {r} = {}
    BY FS_Singleton
  <1>2. Total(w, S \cup {r}) = Total(w, S) + Total(w, {r})
    BY <1>1, TotalUnion
  <1>3. QED
    BY <1>2, TotalSingleton

\* Removing rows takes their total away.
LEMMA TotalRemove ==
  ASSUME NEW S, IsFiniteSet(S), NEW T \in SUBSET S,
         NEW w, \A x \in S : w[x] \in Nat
  PROVE  /\ Total(w, S \ T) = Total(w, S) - Total(w, T)
         /\ Total(w, T) <= Total(w, S)
  <1>1. IsFiniteSet(T) /\ IsFiniteSet(S \ T)
    BY FS_Subset
  <1>2. (S \ T) \cap T = {} /\ (S \ T) \cup T = S
    OBVIOUS
  <1>3. Total(w, S) = Total(w, S \ T) + Total(w, T)
    BY <1>1, <1>2, TotalUnion
  <1>4. Total(w, S \ T) \in Nat /\ Total(w, T) \in Nat
    BY <1>1, TotalType
  <1>5. QED
    BY <1>3, <1>4

\* A row's amount is at most the total of the rows it belongs to.
LEMMA TotalAtLeast ==
  ASSUME NEW S, IsFiniteSet(S), NEW r \in S,
         NEW w, \A x \in S : w[x] \in Nat
  PROVE  w[r] <= Total(w, S)
  <1>1. {r} \in SUBSET S
    OBVIOUS
  <1>2. Total(w, {r}) <= Total(w, S)
    BY <1>1, TotalRemove
  <1>3. QED
    BY <1>2, TotalSingleton

\* The total depends only on the amounts of the rows it sums.
LEMMA TotalSame ==
  ASSUME NEW S, NEW v, NEW w, \A r \in S : v[r] = w[r]
  PROVE  Total(v, S) = Total(w, S)
  <1>1. Units(v, S) = Units(w, S)
    BY DEF Units
  <1>2. QED
    BY <1>1 DEF Total

\* Rows that each have a row of their own elsewhere, with the same amount, sum
\* to no more than those.
LEMMA TotalInject ==
  ASSUME NEW S, NEW T, IsFiniteSet(T), NEW f \in [S -> T],
         \A r, q \in S : f[r] = f[q] => r = q,
         NEW v, NEW w, \A x \in T : w[x] \in Nat, \A r \in S : v[r] = w[f[r]]
  PROVE  Total(v, S) <= Total(w, T)
  <1> DEFINE g == [u \in Units(v, S) |-> <<f[u[1]], u[2]>>]
  <1>1. \A u \in Units(v, S) : u = <<u[1], u[2]>> /\ u[1] \in S /\ u[2] \in 1 .. v[u[1]]
    BY DEF Units
  <1>2. ASSUME NEW u \in Units(v, S) PROVE g[u] \in Units(w, T)
    <2>1. f[u[1]] \in T /\ u[2] \in 1 .. w[f[u[1]]]
      BY <1>1
    <2>2. <<f[u[1]], u[2]>> \in {f[u[1]]} \X (1 .. w[f[u[1]]])
      BY <2>1
    <2>3. QED
      BY <2>1, <2>2 DEF Units
  <1>3. ASSUME NEW u \in Units(v, S), NEW y \in Units(v, S), g[u] = g[y] PROVE u = y
    <2>1. f[u[1]] = f[y[1]] /\ u[2] = y[2]
      BY <1>3
    <2>2. u[1] = y[1]
      BY <1>1, <2>1
    <2>3. QED
      BY <1>1, <2>1, <2>2
  <1>4. g \in Injection(Units(v, S), Units(w, T))
    BY <1>2, <1>3 DEF Injection, IsInjective
  <1>5. IsFiniteSet(Units(w, T))
    BY TotalType
  <1>6. QED
    BY <1>4, <1>5, FS_Injection DEF Total

\* Things sorted into rows, each into one, are as many as the rows' amounts say
\* when each row's amount counts its own things.
LEMMA TotalPartition ==
  ASSUME NEW X, IsFiniteSet(X), NEW D, NEW f \in [X -> D],
         NEW w, \A d \in D : w[d] = Cardinality({x \in X : f[x] = d})
  PROVE  Total(w, D) = Cardinality(X)
  <1> DEFINE F(d) == {x \in X : f[x] = d}
             B(d) == CHOOSE h : h \in Bijection(1 .. w[d], F(d))
             G == [u \in Units(w, D) |-> B(u[1])[u[2]]]
  <1>1. ASSUME NEW d \in D PROVE B(d) \in Bijection(1 .. w[d], F(d))
    <2>1. IsFiniteSet(F(d)) /\ w[d] = Cardinality(F(d))
      BY FS_Subset
    <2> HIDE DEF F
    <2>2. ExistsBijection(1 .. w[d], F(d))
      BY <2>1, FS_CardinalityType
    <2>3. QED
      BY <2>2 DEF ExistsBijection
  <1>2. ASSUME NEW d \in D
        PROVE  /\ \A k \in 1 .. w[d] : B(d)[k] \in X /\ f[B(d)[k]] = d
               /\ \A j, k \in 1 .. w[d] : B(d)[j] = B(d)[k] => j = k
               /\ \A x \in X : f[x] = d => \E k \in 1 .. w[d] : B(d)[k] = x
    <2> DEFINE h == B(d)
    <2>1. h \in Bijection(1 .. w[d], F(d))
      BY <1>1
    <2> HIDE DEF h
    <2>2. /\ \A k \in 1 .. w[d] : h[k] \in X /\ f[h[k]] = d
          /\ \A j, k \in 1 .. w[d] : h[j] = h[k] => j = k
          /\ \A x \in X : f[x] = d => \E k \in 1 .. w[d] : h[k] = x
      BY <2>1 DEF Bijection, Injection, Surjection, IsInjective
    <2>3. QED
      BY <2>2 DEF h
  <1>3. \A u \in Units(w, D) : u = <<u[1], u[2]>> /\ u[1] \in D /\ u[2] \in 1 .. w[u[1]]
    BY DEF Units
  <1> HIDE DEF B, F
  <1>4. G \in [Units(w, D) -> X]
    BY <1>2, <1>3
  <1>5. ASSUME NEW u \in Units(w, D), NEW v \in Units(w, D), G[u] = G[v] PROVE u = v
    <2>1. f[G[u]] = u[1] /\ f[G[v]] = v[1]
      BY <1>2, <1>3
    <2>2. u[1] = v[1]
      BY <1>5, <2>1
    <2>3. B(u[1])[u[2]] = B(u[1])[v[2]] /\ v[2] \in 1 .. w[u[1]]
      BY <1>3, <1>5, <2>2
    <2>4. u[2] = v[2]
      BY <1>2, <1>3, <2>3
    <2>5. QED
      BY <1>3, <2>2, <2>4
  <1>6. ASSUME NEW x \in X PROVE \E u \in Units(w, D) : G[u] = x
    <2> DEFINE d == f[x]
    <2>1. d \in D
      OBVIOUS
    <2>2. PICK k \in 1 .. w[d] : B(d)[k] = x
      BY <1>2, <2>1
    <2>3. <<d, k>> \in Units(w, D)
      <3>1. <<d, k>> \in {d} \X (1 .. w[d])
        BY <2>2
      <3>2. QED
        BY <2>1, <3>1 DEF Units
    <2>4. G[<<d, k>>] = x
      BY <2>2, <2>3
    <2>5. QED
      BY <2>3, <2>4
  <1>7. G \in Injection(Units(w, D), X) /\ G \in Surjection(Units(w, D), X)
    BY <1>4, <1>5, <1>6 DEF Injection, Surjection, IsInjective
  <1>8. QED
    BY <1>7, FS_Injection DEF Total

-----------------------------------------------------------------------------
(* Machine arithmetic.                                                     *)

\* A value in range does not wrap around.
LEMMA WrapInRange ==
  ASSUME NEW x \in Int64
  PROVE  Wrap(x) = x
  <1>1. MaxInt \in Nat
    BY PricingAssumption
  <1>2. x + MaxInt + 1 \in 0 .. 2 * MaxInt + 1
    BY <1>1 DEF Int64
  <1>3. (x + MaxInt + 1) % (2 * (MaxInt + 1)) = x + MaxInt + 1
    BY <1>1, <1>2
  <1>4. QED
    BY <1>1, <1>3 DEF Wrap, Int64

\* Every wrapped value is a machine integer.
LEMMA WrapType ==
  ASSUME NEW x \in Int
  PROVE  Wrap(x) \in Int64
  <1>1. MaxInt \in Nat /\ 2 * (MaxInt + 1) > 0
    BY PricingAssumption
  <1>2. (x + MaxInt + 1) % (2 * (MaxInt + 1)) \in 0 .. 2 * MaxInt + 1
    BY <1>1
  <1>3. QED
    BY <1>1, <1>2 DEF Wrap, Int64

\* A sum of two non-negative machine integers wraps around at most once.
LEMMA WrapSum ==
  ASSUME NEW x \in Amount, NEW y \in Amount, x + y > MaxInt
  PROVE  Wrap(x + y) = x + y - 2 * (MaxInt + 1)
  <1>1. MaxInt \in Nat
    BY PricingAssumption
  <1> DEFINE m == 2 * (MaxInt + 1)
             s == x + y + MaxInt + 1
  <1>2. /\ m \in Nat \ {0}
        /\ s \in Int
        /\ s - m \in 0 .. m - 1
    BY <1>1 DEF Amount
  <1>3. (s - m) % m = s - m
    BY <1>2
  <1>4. s % m = (s - m) % m
    BY <1>2
  <1>5. QED
    BY <1>1, <1>2, <1>3, <1>4 DEF Wrap, Amount

\* checkedAdd detects every overflow.
LEMMA CheckedAddExact ==
  ASSUME NEW x \in Amount, NEW y \in Amount
  PROVE  CheckedAdd(x, y) = IF x + y <= MaxInt THEN x + y ELSE ErrOverflow
  <1>1. MaxInt \in Nat
    BY PricingAssumption
  <1>2. CASE x + y <= MaxInt
    <2>1. x + y \in Int64
      BY <1>1, <1>2 DEF Amount, Int64
    <2>2. Wrap(x + y) = x + y
      BY <2>1, WrapInRange
    <2>3. QED
      BY <1>1, <1>2, <2>2 DEF CheckedAdd, Amount
  <1>3. CASE x + y > MaxInt
    <2>1. Wrap(x + y) = x + y - 2 * (MaxInt + 1)
      BY <1>3, WrapSum
    <2>2. Wrap(x + y) < x
      BY <1>1, <2>1 DEF Amount
    <2>3. QED
      BY <1>1, <1>3, <2>2 DEF CheckedAdd, Amount
  <1>4. QED
    BY <1>1, <1>2, <1>3 DEF Amount

\* What integer division by a positive number returns.
LEMMA DivBounds ==
  ASSUME NEW n \in Nat, NEW d \in Nat \ {0}
  PROVE  /\ n \div d \in Nat
         /\ d * (n \div d) <= n
         /\ n < d * (n \div d) + d
  OBVIOUS

\* A product of non-negative numbers is non-negative and grows with either.
LEMMA ProductMonotone ==
  ASSUME NEW x \in Nat, NEW y \in Nat, NEW v \in Nat, NEW w \in Nat,
         x <= v, y <= w
  PROVE  /\ x * y \in Nat
         /\ x * y <= v * w
  <1>1. x * y \in Nat /\ v * y \in Nat /\ v * w \in Nat
    OBVIOUS
  <1>2. x * y <= v * y
    OBVIOUS
  <1>3. v * y <= v * w
    OBVIOUS
  <1>4. QED
    BY <1>1, <1>2, <1>3

\* A positive factor of a product is at most the product.
LEMMA FactorBound ==
  ASSUME NEW x \in Nat \ {0}, NEW y \in Nat
  PROVE  y <= x * y
  OBVIOUS

\* checkedMul detects every overflow: dividing the wrapped product back gives
\* the other operand only when nothing was lost.
THEOREM CheckedMulExact ==
  ASSUME NEW x \in Amount, NEW y \in Amount
  PROVE  CheckedMul(x, y) = IF x * y <= MaxInt THEN x * y ELSE ErrOverflow
  <1>1. MaxInt \in Nat /\ x \in Nat /\ y \in Nat
    BY PricingAssumption DEF Amount
  <1>2. x * y \in Nat
    BY <1>1
  <1>3. CASE x = 0 \/ y = 0
    <2>1. x * y = 0
      BY <1>1, <1>3
    <2>2. QED
      BY <1>1, <1>3, <2>1 DEF CheckedMul
  <1>4. CASE x > 0 /\ y > 0
    <2> DEFINE r == Wrap(x * y)
    <2>1. r \in Int64
      BY <1>2, WrapType
    <2>2. CASE x * y <= MaxInt
      <3>1. x * y \in Int64
        BY <1>1, <1>2, <2>2 DEF Int64
      <3>2. r = x * y
        BY <3>1, WrapInRange
      <3>3. (x * y) \div x = y
        BY <1>1, <1>2, <1>4
      <3>4. Quotient(r, x) = y
        BY <1>2, <3>2, <3>3 DEF Quotient
      <3>5. QED
        BY <1>1, <1>4, <2>2, <3>2, <3>4 DEF CheckedMul
    <2>3. CASE x * y > MaxInt
      <3>1. Quotient(r, x) # y
        <4>1. CASE r >= 0
          <5>1. r \in Nat /\ r <= MaxInt
            BY <1>1, <2>1, <4>1 DEF Int64
          <5>2. x * (r \div x) <= r
            BY <1>1, <1>4, <5>1, DivBounds
          <5>3. r \div x = y => x * y <= r
            BY <5>2
          <5>4. r \div x # y
            BY <1>1, <1>2, <2>3, <5>1, <5>3
          <5>5. QED
            BY <4>1, <5>1, <5>4 DEF Quotient
        <4>2. CASE r < 0
          <5>1. -r \in Nat
            BY <1>1, <2>1, <4>2 DEF Int64
          <5>2. (-r) \div x \in Nat
            BY <1>1, <1>4, <5>1, DivBounds
          <5>3. -((-r) \div x) # y
            BY <1>1, <1>4, <5>2
          <5>4. QED
            BY <4>2, <2>1, <5>3 DEF Quotient, Int64
        <4>3. QED
          BY <1>1, <2>1, <4>1, <4>2 DEF Int64
      <3>2. QED
        BY <1>1, <1>2, <1>4, <2>3, <3>1 DEF CheckedMul
    <2>4. QED
      BY <1>1, <1>2, <2>2, <2>3
  <1>5. QED
    BY <1>1, <1>3, <1>4

-----------------------------------------------------------------------------
(* Charges and reservations.                                               *)

Checked == Amount \cup {ErrOverflow}      \* what a checked operation returns

\* checkedMul returns the product or the error.
LEMMA CheckedMulType ==
  ASSUME NEW x \in Amount, NEW y \in Amount
  PROVE  /\ CheckedMul(x, y) \in Checked
         /\ CheckedMul(x, y) # ErrOverflow => CheckedMul(x, y) = x * y
         /\ x * y <= MaxInt => CheckedMul(x, y) = x * y
  <1>1. MaxInt \in Nat /\ x \in Nat /\ y \in Nat
    BY PricingAssumption DEF Amount
  <1>2. x * y \in Nat
    BY <1>1
  <1>3. x * y <= MaxInt => x * y \in Amount
    BY <1>1, <1>2 DEF Amount
  <1>4. QED
    BY <1>1, <1>2, <1>3, CheckedMulExact DEF Checked

\* checkedAdd of two results returns their sum or the error; an error of an
\* operand is an error of the sum.
LEMMA CheckedAddType ==
  ASSUME NEW x \in Checked, NEW y \in Checked
  PROVE  /\ CheckedAdd(x, y) \in Checked
         /\ CheckedAdd(x, y) # ErrOverflow =>
              x \in Amount /\ y \in Amount /\ CheckedAdd(x, y) = x + y
         /\ x \in Amount /\ y \in Amount /\ x + y <= MaxInt => CheckedAdd(x, y) = x + y
  <1>1. MaxInt \in Nat
    BY PricingAssumption
  <1>2. CASE x \in Amount /\ y \in Amount
    <2>1. x + y <= MaxInt => x + y \in Amount
      BY <1>1, <1>2 DEF Amount
    <2>2. QED
      BY <1>1, <1>2, <2>1, CheckedAddExact DEF Checked, Amount
  <1>3. CASE x = ErrOverflow \/ y = ErrOverflow
    <2>1. CheckedAdd(x, y) = ErrOverflow
      BY <1>3 DEF CheckedAdd, ErrOverflow
    <2>2. ErrOverflow \notin Amount
      BY <1>1 DEF Amount, ErrOverflow
    <2>3. QED
      BY <1>3, <2>1, <2>2 DEF Checked
  <1>4. QED
    BY <1>2, <1>3 DEF Checked

\* The charge of a sum of products is the sum in millions, rounded up; a
\* smaller sum is charged no more, and its charge does not overflow when the
\* larger one's does not.
LEMMA ChargeForExact ==
  ASSUME NEW s \in Checked
  PROVE  /\ ChargeFor(s) \in Checked
         /\ ChargeFor(s) # ErrOverflow =>
              /\ s \in Amount
              /\ s + (Million - 1) <= MaxInt \/ s = 0
              /\ s <= Million * ChargeFor(s)
              /\ Million * ChargeFor(s) < s + Million
         /\ s \in Amount /\ (s + (Million - 1) <= MaxInt \/ s = 0) =>
              ChargeFor(s) # ErrOverflow
  <1>1. MaxInt \in Nat /\ Million \in Nat \ {0} /\ Million <= MaxInt
    BY PricingAssumption
  <1>2. Million - 1 \in Amount /\ ErrOverflow \notin Amount /\ 0 \in Amount
    BY <1>1 DEF Amount, ErrOverflow
  <1>3. CASE s = 0
    <2>1. ChargeFor(s) = 0
      BY <1>3 DEF ChargeFor
    <2>2. QED
      BY <1>1, <1>2, <1>3, <2>1 DEF Checked
  <1>4. CASE s = ErrOverflow
    <2>1. ChargeFor(s) = ErrOverflow
      BY <1>4 DEF ChargeFor, CeilDiv, ErrOverflow
    <2>2. QED
      BY <1>2, <1>4, <2>1 DEF Checked
  <1>5. CASE s \in Amount /\ s # 0 /\ s + (Million - 1) > MaxInt
    <2>1. CheckedAdd(s, Million - 1) = ErrOverflow
      BY <1>1, <1>2, <1>5, CheckedAddExact DEF Amount
    <2>2. ChargeFor(s) = ErrOverflow
      BY <1>5, <2>1 DEF ChargeFor, CeilDiv, ErrOverflow
    <2>3. QED
      BY <1>1, <1>5, <2>2 DEF Checked, Amount
  <1>6. CASE s \in Amount /\ s # 0 /\ s + (Million - 1) <= MaxInt
    <2> DEFINE n == s + (Million - 1)
               c == n \div Million
    <2>1. CheckedAdd(s, Million - 1) = n
      BY <1>1, <1>2, <1>6, CheckedAddExact DEF Amount
    <2>2. n \in Nat /\ s \in Nat /\ s > 0
      BY <1>1, <1>6 DEF Amount
    <2>3. ChargeFor(s) = c
      BY <1>6, <2>1, <2>2 DEF ChargeFor, CeilDiv
    <2>4. c \in Nat /\ Million * c <= n /\ n < Million * c + Million
      BY <1>1, <2>2, DivBounds
    <2>5. s <= Million * c /\ Million * c < s + Million
      BY <1>1, <2>2, <2>4
    <2>6. c <= Million * c
      BY <1>1, <2>4, FactorBound
    <2>7. c \in Amount
      BY <1>1, <1>6, <2>2, <2>4, <2>6 DEF Amount
    <2>8. QED
      BY <1>2, <1>6, <2>3, <2>5, <2>7 DEF Checked
  <1>7. QED
    BY <1>1, <1>3, <1>4, <1>5, <1>6 DEF Checked, Amount

\* Rounding up is monotone.
LEMMA CeilMonotone ==
  ASSUME NEW d \in Nat \ {0}, NEW s \in Nat, NEW t \in Nat, NEW x \in Nat, NEW y \in Nat,
         s <= t, d * x < s + d, t <= d * y
  PROVE  x <= y
  <1>1. d * x < d * y + d
    OBVIOUS
  <1>2. d * y + d = d * (y + 1)
    OBVIOUS
  <1>3. x >= y + 1 => d * x >= d * (y + 1)
    OBVIOUS
  <1>4. QED
    BY <1>1, <1>2, <1>3

LEMMA ChargeMonotone ==
  ASSUME NEW s \in Amount, NEW t \in Amount, s <= t, ChargeFor(t) # ErrOverflow
  PROVE  ChargeFor(s) \in 0 .. ChargeFor(t)
  <1>1. MaxInt \in Nat /\ Million \in Nat \ {0} /\ s \in Nat /\ t \in Nat
    BY PricingAssumption DEF Amount
  <1>2. s \in Checked /\ t \in Checked
    BY DEF Checked
  <1>3. /\ ChargeFor(t) \in Amount
        /\ t + (Million - 1) <= MaxInt \/ t = 0
        /\ t <= Million * ChargeFor(t)
    BY <1>2, ChargeForExact DEF Checked
  <1>4. s + (Million - 1) <= MaxInt \/ s = 0
    BY <1>1, <1>3
  <1>5. ChargeFor(s) # ErrOverflow
    BY <1>2, <1>4, ChargeForExact
  <1>6. /\ ChargeFor(s) \in Amount
        /\ Million * ChargeFor(s) < s + Million
    BY <1>2, <1>5, ChargeForExact DEF Checked
  <1>7. ChargeFor(s) \in Nat /\ ChargeFor(t) \in Nat
    BY <1>3, <1>6 DEF Amount
  <1>8. ChargeFor(s) <= ChargeFor(t)
    BY <1>1, <1>3, <1>6, <1>7, CeilMonotone
  <1>9. QED
    BY <1>7, <1>8

\* The exact sum of products that a usage costs at a quote.
Products(u, q) == q.input * u.input + q.cached * u.cached + q.output * u.output

\* Cost is the charge of the exact sum of products whenever that fits.
LEMMA CostExact ==
  ASSUME NEW u, u.input \in Amount, u.cached \in Amount, u.output \in Amount,
         NEW q, q.input \in Amount, q.cached \in Amount, q.output \in Amount
  PROVE  /\ Products(u, q) \in Nat
         /\ Cost(u, q) \in Checked
         /\ Cost(u, q) # ErrOverflow =>
              Products(u, q) \in Amount /\ Cost(u, q) = ChargeFor(Products(u, q))
         /\ Products(u, q) <= MaxInt => Cost(u, q) = ChargeFor(Products(u, q))
  <1> DEFINE i == q.input * u.input
             c == q.cached * u.cached
             o == q.output * u.output
             mi == CheckedMul(q.input, u.input)
             mc == CheckedMul(q.cached, u.cached)
             mo == CheckedMul(q.output, u.output)
             sum == CheckedAdd(CheckedAdd(mi, mc), mo)
  <1>1. MaxInt \in Nat
    BY PricingAssumption
  <1>2. i \in Nat /\ c \in Nat /\ o \in Nat
    BY DEF Amount
  <1>3. Products(u, q) = i + c + o
    BY DEF Products
  <1>4. /\ mi \in Checked /\ mc \in Checked /\ mo \in Checked
        /\ mi # ErrOverflow => mi = i
        /\ mc # ErrOverflow => mc = c
        /\ mo # ErrOverflow => mo = o
        /\ i <= MaxInt => mi = i
        /\ c <= MaxInt => mc = c
        /\ o <= MaxInt => mo = o
    BY CheckedMulType
  <1>5. ErrOverflow \notin Amount
    BY <1>1 DEF ErrOverflow, Amount
  <1>6. Cost(u, q) = ChargeFor(sum)
    BY DEF Cost
  <1>7. CheckedAdd(mi, mc) \in Checked
    BY <1>4, CheckedAddType
  <1>8. sum \in Checked
    BY <1>4, <1>7, CheckedAddType
  <1>9. Cost(u, q) \in Checked
    BY <1>6, <1>8, ChargeForExact
  <1>10. ASSUME Cost(u, q) # ErrOverflow
         PROVE  Products(u, q) \in Amount /\ Cost(u, q) = ChargeFor(Products(u, q))
    <2>1. sum \in Amount
      BY <1>6, <1>8, <1>10, ChargeForExact
    <2>2. CheckedAdd(mi, mc) \in Amount /\ mo \in Amount /\ sum = CheckedAdd(mi, mc) + mo
      BY <1>4, <1>5, <1>7, <2>1, CheckedAddType
    <2>3. mi \in Amount /\ mc \in Amount /\ CheckedAdd(mi, mc) = mi + mc
      BY <1>4, <1>5, <2>2, CheckedAddType
    <2>4. mi = i /\ mc = c /\ mo = o
      BY <1>4, <1>5, <2>2, <2>3
    <2>5. sum = Products(u, q)
      BY <1>2, <1>3, <2>2, <2>3, <2>4
    <2>6. QED
      BY <1>6, <2>1, <2>5
  <1>11. ASSUME Products(u, q) <= MaxInt
         PROVE  Cost(u, q) = ChargeFor(Products(u, q))
    <2>1. i <= MaxInt /\ c <= MaxInt /\ o <= MaxInt /\ i + c <= MaxInt /\ i + c + o <= MaxInt
      BY <1>1, <1>2, <1>3, <1>11
    <2>2. mi = i /\ mc = c /\ mo = o
      BY <1>4, <2>1
    <2>3. i \in Amount /\ c \in Amount /\ o \in Amount /\ i + c \in Amount
      BY <1>1, <1>2, <2>1 DEF Amount
    <2>4. CheckedAdd(i, c) = i + c
      BY <2>1, <2>3, CheckedAddExact
    <2>5. CheckedAdd(i + c, o) = i + c + o
      BY <2>1, <2>3, CheckedAddExact
    <2>6. QED
      BY <1>3, <1>6, <2>2, <2>4, <2>5
  <1>12. QED
    BY <1>2, <1>3, <1>9, <1>10, <1>11

\* WorstCaseCost is the charge of the dearer input rate on the whole budget.
LEMMA WorstCaseExact ==
  ASSUME NEW q, q.input \in Amount, q.cached \in Amount, q.output \in Amount,
         NEW x \in Amount, NEW y \in Amount
  PROVE  /\ WorstCaseCost(q, x, y) \in Checked
         /\ WorstCaseCost(q, x, y) # ErrOverflow =>
              /\ WorstInputRate(q) * x + q.output * y \in Amount
              /\ WorstCaseCost(q, x, y) = ChargeFor(WorstInputRate(q) * x + q.output * y)
  <1> DEFINE w == WorstInputRate(q)
             mi == CheckedMul(w, x)
             mo == CheckedMul(q.output, y)
             sum == CheckedAdd(mi, mo)
  <1>1. MaxInt \in Nat /\ ErrOverflow \notin Amount
    BY PricingAssumption DEF ErrOverflow, Amount
  <1>2. w \in Amount
    BY DEF WorstInputRate
  <1> HIDE DEF w
  <1>3. /\ mi \in Checked /\ mo \in Checked
        /\ mi # ErrOverflow => mi = w * x
        /\ mo # ErrOverflow => mo = q.output * y
    BY <1>2, CheckedMulType
  <1>4. /\ sum \in Checked
        /\ sum # ErrOverflow => mi \in Amount /\ mo \in Amount /\ sum = mi + mo
    BY <1>3, CheckedAddType
  <1>5. WorstCaseCost(q, x, y) = ChargeFor(sum)
    BY DEF WorstCaseCost, w
  <1>6. /\ ChargeFor(sum) \in Checked
        /\ ChargeFor(sum) # ErrOverflow => sum \in Amount
    BY <1>4, ChargeForExact
  <1>7. sum \in Amount => sum = w * x + q.output * y
    BY <1>1, <1>3, <1>4
  <1>8. QED
    BY <1>5, <1>6, <1>7 DEF w

\* A usage within the ceilings costs at most the worst case of its quote.
LEMMA UsageWithinWorstCase ==
  ASSUME NEW u, u.input \in Amount, u.cached \in Amount, u.output \in Amount,
         NEW q, q.input \in Amount, q.cached \in Amount, q.output \in Amount,
         NEW x \in Amount, NEW y \in Amount,
         u.input + u.cached <= x, u.output <= y,
         WorstCaseCost(q, x, y) # ErrOverflow
  PROVE  Cost(u, q) \in 0 .. WorstCaseCost(q, x, y)
  <1> DEFINE w == WorstInputRate(q)
             worst == w * x + q.output * y
  <1>1. MaxInt \in Nat
    BY PricingAssumption
  <1>2. w \in Nat /\ q.input <= w /\ q.cached <= w
    BY DEF WorstInputRate, Amount
  <1>3. /\ u.input \in Nat /\ u.cached \in Nat /\ u.output \in Nat
        /\ q.input \in Nat /\ q.cached \in Nat /\ q.output \in Nat
        /\ x \in Nat /\ y \in Nat
    BY DEF Amount
  <1>4. worst \in Amount /\ WorstCaseCost(q, x, y) = ChargeFor(worst)
    BY WorstCaseExact
  <1> HIDE DEF w
  <1>5. q.input * u.input <= w * u.input /\ q.input * u.input \in Nat /\ w * u.input \in Nat
    BY <1>2, <1>3, ProductMonotone
  <1>6. q.cached * u.cached <= w * u.cached /\ q.cached * u.cached \in Nat /\ w * u.cached \in Nat
    BY <1>2, <1>3, ProductMonotone
  <1>7. w * u.input + w * u.cached = w * (u.input + u.cached)
    BY <1>2, <1>3
  <1>8. u.input + u.cached \in Nat
    BY <1>3
  <1>9. w * (u.input + u.cached) <= w * x /\ w * x \in Nat
    BY <1>2, <1>3, <1>8, ProductMonotone
  <1>10. q.output * u.output <= q.output * y /\ q.output * u.output \in Nat /\ q.output * y \in Nat
    BY <1>3, ProductMonotone
  <1>11. Products(u, q) \in Nat /\ Products(u, q) <= worst
    BY <1>5, <1>6, <1>7, <1>9, <1>10 DEF Products
  <1>12. Products(u, q) \in Amount
    BY <1>1, <1>4, <1>11 DEF Amount
  <1>13. Cost(u, q) = ChargeFor(Products(u, q))
    BY <1>12, CostExact DEF Amount
  <1>14. QED
    BY <1>4, <1>11, <1>12, <1>13, ChargeMonotone

\* A non-empty set of naturals with an upper bound has a largest element.
LEMMA MaxExists ==
  ASSUME NEW n \in Nat, NEW S \in SUBSET (0 .. n), S # {}
  PROVE  /\ Max(S) \in S
         /\ \A y \in S : y <= Max(S)
  <1> DEFINE T == {n - x : x \in S}
             R == OpToRel(<, Nat)
  <1>0. \A x \in S : x \in Nat /\ n - x \in Nat
    OBVIOUS
  <1>1. T \subseteq Nat /\ T # {}
    BY <1>0
  <1>2. IsWellFoundedOn(R, Nat)
    BY NatLessThanWellFounded
  <1> HIDE DEF R
  <1>3. PICK t \in T : \A y \in T : ~(<<y, t>> \in R)
    BY <1>1, <1>2, WFMin
  <1> USE DEF R
  <1>4. \A y \in T : ~(y < t)
    <2>1. ASSUME NEW y \in T, y < t
          PROVE  <<y, t>> \in R
      <3>1. y \in Nat /\ t \in Nat
        BY <1>1
      <3>2. QED
        BY <2>1, <3>1 DEF OpToRel
    <2>2. QED
      BY <1>3, <2>1
  <1>5. PICK x \in S : t = n - x
    OBVIOUS
  <1>6. \A y \in S : x >= y
    <2>1. SUFFICES ASSUME NEW y \in S
                   PROVE  x >= y
      OBVIOUS
    <2>2. ~(n - y < n - x)
      BY <1>4, <1>5
    <2>3. QED
      BY <1>0, <2>2
  <1>7. \E z \in S : \A y \in S : z >= y
    BY <1>6
  <1>8. Max(S) \in S /\ \A y \in S : Max(S) >= y
    BY <1>7 DEF Max
  <1>9. QED
    BY <1>8

\* ReserveAmount is the dearest worst case of the snapshot, or the error if
\* one of them overflows.
LEMMA ReserveAmountExact ==
  ASSUME NEW qs, \A q \in qs : q.input \in Amount /\ q.cached \in Amount /\ q.output \in Amount,
         NEW x \in Amount, NEW y \in Amount
  PROVE  /\ ReserveAmount(qs, x, y) \in Checked
         /\ ReserveAmount(qs, x, y) # ErrOverflow =>
              \A q \in qs : /\ WorstCaseCost(q, x, y) # ErrOverflow
                            /\ WorstCaseCost(q, x, y) <= ReserveAmount(qs, x, y)
  <1> DEFINE costs == {WorstCaseCost(q, x, y) : q \in qs}
  <1>1. MaxInt \in Nat /\ 0 \in Amount
    BY PricingAssumption DEF Amount
  <1>2. costs \subseteq Checked
    BY WorstCaseExact
  <1>3. CASE ErrOverflow \in costs
    BY <1>3 DEF ReserveAmount, Checked
  <1>4. CASE ErrOverflow \notin costs
    <2> DEFINE S == costs \cup {0}
    <2>1. S \in SUBSET (0 .. MaxInt) /\ S # {}
      BY <1>1, <1>2, <1>4 DEF Checked, Amount
    <2>2. ReserveAmount(qs, x, y) = Max(S)
      BY <1>4 DEF ReserveAmount
    <2> HIDE DEF S
    <2>3. Max(S) \in S /\ \A c \in S : c <= Max(S)
      BY <1>1, <2>1, MaxExists
    <2>4. Max(S) \in Checked
      BY <2>1, <2>3 DEF Checked, Amount
    <2>5. QED
      BY <1>4, <2>2, <2>3, <2>4 DEF S
  <1>5. QED
    BY <1>3, <1>4

\* Whenever Fee does not report an overflow, its shares are non-negative and
\* add up to the charge; it cannot overflow when the charge times the
\* denominator fits.
LEMMA FeeExact ==
  ASSUME NEW c \in Amount, NEW f \in Int
  PROVE  /\ Fee(c, f).seller >= 0 =>
              /\ Fee(c, f).fee \in Nat
              /\ Fee(c, f).seller \in Nat
              /\ Fee(c, f).fee + Fee(c, f).seller = c
         /\ c * BasisPoints <= MaxInt => Fee(c, f).seller >= 0
  <1> DEFINE b == ClampBps(f)
             num == CheckedMul(c, b)
             fee == num \div BasisPoints
  <1>1. c \in Nat /\ BasisPoints \in Nat \ {0} /\ MaxInt \in Nat /\ BasisPoints <= MaxInt
    BY PricingAssumption DEF Amount
  <1>2. b \in Nat /\ b <= BasisPoints
    BY <1>1 DEF ClampBps
  <1>3. CASE b = 0 \/ c = 0
    BY <1>1, <1>3 DEF Fee
  <1>4. CASE b # 0 /\ c # 0
    <2> HIDE DEF b
    <2>1. c * b \in Nat /\ c * b <= c * BasisPoints
      BY <1>1, <1>2, ProductMonotone
    <2>2. b \in Amount /\ c * BasisPoints \in Nat
      BY <1>1, <1>2 DEF Amount
    <2>3. CASE c * b > MaxInt
      <3>1. num = ErrOverflow
        BY <1>1, <2>1, <2>2, <2>3, CheckedMulExact
      <3>2. Fee(c, f).seller = ErrOverflow
        BY <1>1, <1>4, <3>1 DEF Fee, b, ErrOverflow
      <3>3. ~(c * BasisPoints <= MaxInt)
        BY <1>1, <2>1, <2>2, <2>3
      <3>4. QED
        BY <3>2, <3>3 DEF ErrOverflow
    <2>4. CASE c * b <= MaxInt
      <3>1. num = c * b
        BY <1>1, <2>1, <2>2, <2>4, CheckedMulExact
      <3>2. fee \in Nat /\ BasisPoints * fee <= c * b
        BY <1>1, <2>1, <3>1, DivBounds
      <3>3. BasisPoints * fee <= BasisPoints * c
        BY <1>1, <2>1, <2>2, <3>2
      <3>4. fee <= c
        <4> HIDE DEF fee
        <4>1. fee > c => BasisPoints * fee > BasisPoints * c
          BY <1>1, <3>2
        <4>2. QED
          BY <1>1, <3>2, <3>3, <4>1
      <3>5. CheckedSub(c, fee) = c - fee
        BY <1>1, <3>2, <3>4 DEF CheckedSub
      <3>6. Fee(c, f) = [fee |-> fee, seller |-> c - fee]
        BY <1>1, <1>4, <2>1, <3>1, <3>5 DEF Fee, b
      <3>7. QED
        BY <1>1, <3>2, <3>4, <3>6
    <2>5. QED
      BY <1>1, <2>1, <2>3, <2>4
  <1>5. QED
    BY <1>3, <1>4

\* The seller's share is an integer, negative when the split overflows.
LEMMA FeeSellerType ==
  ASSUME NEW c \in Amount, NEW f \in Int
  PROVE  Fee(c, f).seller \in Int
  <1> DEFINE b == ClampBps(f)
             num == CheckedMul(c, b)
             fee == num \div BasisPoints
  <1>1. c \in Int /\ BasisPoints \in Nat \ {0} /\ BasisPoints <= MaxInt /\ MaxInt \in Nat
    BY PricingAssumption DEF Amount
  <1>2. b \in Amount
    BY <1>1 DEF ClampBps, Amount
  <1>3. num \in Int
    BY <1>2, CheckedMulType DEF Checked, Amount, ErrOverflow
  <1>4. fee \in Int
    BY <1>1, <1>3
  <1>5. CheckedSub(c, fee) \in Int
    BY <1>1, <1>4 DEF CheckedSub, ErrOverflow
  <1>6. QED
    BY <1>1, <1>5 DEF Fee, ErrOverflow
==============================================================================
