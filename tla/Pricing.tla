------------------------------- MODULE Pricing -------------------------------
(***************************************************************************)
(* The integer price arithmetic of internal/billing: checked int64         *)
(* operations, the charge for a usage record, the routing fee, the         *)
(* worst-case reservation over a quote snapshot, and the buyer's caps.     *)
(*                                                                         *)
(* A Go function that returns (value, error) is an operator whose value is *)
(* ErrOverflow when the error is set.  ErrOverflow is negative, and every  *)
(* checked operation of the code refuses a negative operand, so an error   *)
(* inside an expression is the error of the whole expression, as the early *)
(* returns make it.                                                        *)
(***************************************************************************)
EXTENDS Integers, FiniteSetsExt

CONSTANTS Million,        \* tokens per quoted rate: 1_000_000 in the code
          BasisPoints,    \* denominator of the routing fee: 10_000 in the code
          MaxInt          \* largest machine integer: 2^63 - 1 in the code

ASSUME PricingAssumption ==
  /\ Million \in Nat \ {0}
  /\ BasisPoints \in Nat \ {0}
  /\ MaxInt \in Nat \ {0}
  /\ Million <= MaxInt
  /\ BasisPoints <= MaxInt

Int64 == (-MaxInt - 1) .. MaxInt
Amount == 0 .. MaxInt               \* a non-negative int64: tokens, rates, base units

ErrOverflow == -1

-----------------------------------------------------------------------------
(* Machine arithmetic: + and * wrap around, / truncates towards zero.      *)

Wrap(x) == ((x + MaxInt + 1) % (2 * (MaxInt + 1))) - (MaxInt + 1)

Quotient(a, b) == IF a >= 0 THEN a \div b ELSE -((-a) \div b)

\* Mutant: overflow is detected by the sign of the wrapped product only.
CheckedMul_SignOnly(a, b) ==
  LET r == Wrap(a * b) IN
  IF a < 0 \/ b < 0 \/ r < 0 THEN ErrOverflow ELSE r

CheckedMul(a, b) ==
  LET r == Wrap(a * b) IN
  IF a < 0 \/ b < 0 THEN ErrOverflow
  ELSE IF a = 0 \/ b = 0 THEN 0
  ELSE IF Quotient(r, a) # b THEN ErrOverflow ELSE r

CheckedAdd(a, b) ==
  LET r == Wrap(a + b) IN
  IF a < 0 \/ b < 0 \/ r < a THEN ErrOverflow ELSE r

CheckedSub(a, b) ==
  IF a < 0 \/ b < 0 \/ a < b THEN ErrOverflow ELSE a - b

\* den is always the positive constant Million, so the code's rejection of a
\* non-positive divisor cannot happen.
CeilDiv(num, den) ==
  LET rounded == CheckedAdd(num, den - 1) IN
  IF num < 0 \/ rounded < 0 THEN ErrOverflow ELSE rounded \div den

-----------------------------------------------------------------------------
(* Charges.  A usage record has regular input, cached input and output     *)
(* tokens; a quote has one rate for each.                                  *)

Rates == [input : Amount, cached : Amount, output : Amount]
Usage == [input : Amount, cached : Amount, output : Amount]

\* The charge for summed rate * token products.
ChargeFor(sum) == IF sum = 0 THEN 0 ELSE CeilDiv(sum, Million)

Cost(u, q) ==
  ChargeFor(CheckedAdd(CheckedAdd(CheckedMul(q.input, u.input),
                                  CheckedMul(q.cached, u.cached)),
                       CheckedMul(q.output, u.output)))

\* Mutant: the whole input budget is priced at the regular rate.
WorstInputRate_RegularOnly(q) == q.input

\* The dearer of the two input rates, spent on the whole input budget.
WorstInputRate(q) == IF q.cached > q.input THEN q.cached ELSE q.input

WorstCaseCost(q, inputCeil, outputCeil) ==
  ChargeFor(CheckedAdd(CheckedMul(WorstInputRate(q), inputCeil),
                       CheckedMul(q.output, outputCeil)))

ReserveAmount(quotes, inputCeil, outputCeil) ==
  LET costs == {WorstCaseCost(q, inputCeil, outputCeil) : q \in quotes} IN
  IF ErrOverflow \in costs THEN ErrOverflow ELSE Max(costs \cup {0})

ClampBps(feeBps) ==
  IF feeBps < 0 THEN 0 ELSE IF feeBps > BasisPoints THEN BasisPoints ELSE feeBps

\* Fee returns both shares; the seller's one is negative when the split
\* overflows, and settlement then rolls back.
Fee(cost, feeBps) ==
  LET bps == ClampBps(feeBps)
      num == CheckedMul(cost, bps)
      fee == num \div BasisPoints IN
  IF cost < 0 THEN [fee |-> 0, seller |-> ErrOverflow]
  ELSE IF bps = 0 \/ cost = 0 THEN [fee |-> 0, seller |-> cost]
  ELSE IF num < 0 THEN [fee |-> 0, seller |-> ErrOverflow]
  ELSE [fee |-> fee, seller |-> CheckedSub(cost, fee)]

-----------------------------------------------------------------------------
(* Caps.  NoCap is a nil pointer: that dimension is unlimited.             *)

NoCap == -1
Tiers == {"input", "cached", "output"}
Caps == [Tiers -> Amount \cup {NoCap}]

\* Mutant: the request's cap replaces the account's instead of tightening it.
TighterCap_RequestWins(account, request) ==
  IF request = NoCap THEN account ELSE request

TighterCap(account, request) ==
  IF account = NoCap THEN request
  ELSE IF request = NoCap THEN account
  ELSE IF request < account THEN request ELSE account

\* A tier of the model's cap sheet overrides the account's flat cap.
Effective(flat, sheet) ==
  [t \in Tiers |-> IF sheet[t] = NoCap THEN flat[t] ELSE sheet[t]]

MergeCaps(account, request) ==
  [t \in Tiers |-> TighterCap(account[t], request[t])]

Affordable(q, caps) == \A t \in Tiers : caps[t] = NoCap \/ q[t] <= caps[t]
=============================================================================
