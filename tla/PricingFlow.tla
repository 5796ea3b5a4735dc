----------------------------- MODULE PricingFlow -----------------------------
(***************************************************************************)
(* The life of one metered request's price, over module Pricing: the gate  *)
(* freezes a snapshot of quotes and reserves for its worst case            *)
(* (billinggate.serve, store.ReserveBilling); later the response names the *)
(* peer that served and the tokens it used, and settlement charges them at *)
(* the frozen quote and splits the charge (store.SettleBilling).           *)
(***************************************************************************)
EXTENDS Pricing

CONSTANTS RateChoices,     \* the rates a seller may quote
          TokenChoices,    \* the token counts a request may be bounded by or use
          CapChoices,      \* the caps a buyer may set in each layer
          FeeChoices,      \* the configured routing fees, in basis points
          MaxQuotes        \* peers in a snapshot: 128 in the code

ASSUME PricingFlowAssumption ==
  /\ RateChoices \subseteq Amount
  /\ TokenChoices \subseteq Amount
  /\ CapChoices \subseteq Caps
  /\ FeeChoices \subseteq Int
  /\ MaxQuotes \in Nat

VARIABLES limits,     \* the buyer's caps: flat, for the model, of the request
          quotes,     \* the snapshot so far
          ceil,       \* [input, output] token ceilings
          reserve,    \* what was reserved, or ErrOverflow
          used,       \* usage the response reported
          bps,        \* the settler's routing fee
          stage       \* "quoting", "reserved", "refused" or "served"

flowVars == <<limits, quotes, ceil, reserve, used, bps, stage>>

QuoteChoices == [input : RateChoices, cached : RateChoices, output : RateChoices]
NoTokens == [input |-> 0, cached |-> 0, output |-> 0]

Limits == [flat : CapChoices, sheet : CapChoices, asked : CapChoices]

FlowInit ==
  /\ limits \in Limits
  /\ quotes = {}
  /\ ceil = [input |-> 0, output |-> 0]
  /\ reserve = 0
  /\ used = NoTokens
  /\ bps = 0
  /\ stage = "quoting"

\* resolveCaps: the account's caps for the model, tightened by the request's.
AccountLimit == Effective(limits.flat, limits.sheet)
ResolveCaps == MergeCaps(AccountLimit, limits.asked)

\* resolveQuotes adds one eligible peer's live ask to the snapshot.
AddQuote(q) ==
  /\ stage = "quoting"
  /\ Affordable(q, ResolveCaps)
  /\ Cardinality(quotes) < MaxQuotes
  /\ quotes' = quotes \cup {q}
  /\ UNCHANGED <<limits, ceil, reserve, used, bps, stage>>

\* ReserveBilling prices the snapshot; an overflow refuses the request.
Reserve(inputCeil, outputCeil) ==
  /\ stage = "quoting"
  /\ quotes # {}
  /\ ceil' = [input |-> inputCeil, output |-> outputCeil]
  /\ reserve' = ReserveAmount(quotes, inputCeil, outputCeil)
  /\ stage' = IF reserve' = ErrOverflow THEN "refused" ELSE "reserved"
  /\ UNCHANGED <<limits, quotes, used, bps>>

\* The response reports usage within the ceilings the reservation assumed.
Serve(u, feeBps) ==
  /\ stage = "reserved"
  /\ u.input + u.cached <= ceil.input
  /\ u.output <= ceil.output
  /\ used' = u
  /\ bps' = feeBps
  /\ stage' = "served"
  /\ UNCHANGED <<limits, quotes, ceil, reserve>>

FlowNext ==
  \/ \E q \in QuoteChoices : AddQuote(q)
  \/ \E i, o \in TokenChoices : Reserve(i, o)
  \/ \E i, c, o \in TokenChoices, f \in FeeChoices :
       Serve([input |-> i, cached |-> c, output |-> o], f)

FlowSpec == FlowInit /\ [][FlowNext]_flowVars

-----------------------------------------------------------------------------
(* The types of the flow's state.                                          *)
FlowTypeOK ==
  /\ limits \in Limits
  /\ quotes \in SUBSET QuoteChoices
  /\ IsFiniteSet(quotes)
  /\ ceil \in [input : Amount, output : Amount]
  /\ reserve \in Amount \cup {ErrOverflow}
  /\ used \in Usage
  /\ bps \in Int
  /\ stage \in {"quoting", "reserved", "refused", "served"}

(* ReserveAmount: "Reserving this amount guarantees no in-flight request   *)
(* can overdraft, regardless of which peer serves it or how the input is   *)
(* split between regular and cached."  Whichever quote of the snapshot     *)
(* serves, a usage within the ceilings is charged without overflow and     *)
(* never more than was reserved.                                           *)
ChargeWithinReserve ==
  stage = "served" => \A q \in quotes : Cost(used, q) \in 0 .. reserve

(* SettleBilling credits the seller and the treasury exactly what it       *)
(* debits the buyer: for a charge small enough to be split without         *)
(* overflow, the two shares of Fee are non-negative and add up to the      *)
(* charge, whatever fee is configured.                                     *)
FeeSplitsCharge ==
  stage = "served" =>
    \A q \in quotes :
      LET cost  == Cost(used, q)
          split == Fee(cost, bps) IN
      cost * BasisPoints <= MaxInt =>
        /\ split.fee >= 0
        /\ split.seller >= 0
        /\ split.fee + split.seller = cost

(* A charge is never rounded down: settled base units times Million cover  *)
(* every rate * token product ("a partial unit is always paid and never    *)
(* lost", billing.Cost), and by less than one unit.                        *)
ChargeRoundsUp ==
  stage = "served" =>
    \A q \in quotes :
      LET exact == q.input * used.input + q.cached * used.cached + q.output * used.output
          paid  == Cost(used, q) * Million IN
      exact <= paid /\ paid < exact + Million

(* "Each supplied (non-nil) request dimension tightens the corresponding   *)
(* account default": a buyer who has capped every tier, for the account,   *)
(* for the model or for the request, is never charged more than the usage  *)
(* costs at those caps, whatever the other layers allow.                   *)
ChargeWithinCaps ==
  stage = "served" =>
    \A q \in quotes, layer \in {AccountLimit, limits.asked} :
      (\A t \in Tiers : layer[t] # NoCap) =>
        Cost(used, q) * Million
          < layer["input"] * used.input + layer["cached"] * used.cached
              + layer["output"] * used.output + Million

\* billing.Cost and billing.Fee are exact at every width of integers: a charge
\* is the price rounded up, and one that can be split without overflow is split
\* into fee and seller's share without losing or making a unit.
ChargeExact == ChargeRoundsUp /\ FeeSplitsCharge
=============================================================================
