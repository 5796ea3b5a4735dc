--------------------------- MODULE AccountsProofs ---------------------------
(***************************************************************************)
(* What an account is charged and given.  Whatever is quoted, reserved and *)
(* served, the reservation covers the charge, the charge is rounded up,    *)
(* and its shares add up to it; a revoked API key stops; the faucet pays   *)
(* an account once.  And deposits: each is credited once and none is lost, *)
(* for any number of replicas, wallets and signatures, any page size, and  *)
(* whatever nodes lag and calls fail.                                      *)
(***************************************************************************)
EXTENDS PricingFlow, ApiKeys, Faucet, Deposits, AmountsProofs, SequenceTheorems

-----------------------------------------------------------------------------
(* Prices.                                                                 *)

\* What holds at every step: the snapshot is affordable, the reservation is
\* the one the frozen snapshot and ceilings give, and the usage stays within
\* them.
FlowInv ==
  /\ FlowTypeOK
  /\ \A q \in quotes : Affordable(q, ResolveCaps)
  /\ stage \in {"reserved", "served"} =>
       /\ reserve = ReserveAmount(quotes, ceil.input, ceil.output)
       /\ reserve # ErrOverflow
  /\ stage = "served" =>
       /\ used.input + used.cached <= ceil.input
       /\ used.output <= ceil.output

LEMMA QuotesTyped ==
  ASSUME FlowTypeOK
  PROVE  \A q \in quotes : q.input \in Amount /\ q.cached \in Amount /\ q.output \in Amount
  BY PricingFlowAssumption DEF FlowTypeOK, QuoteChoices

LEMMA FlowInvInit == FlowInit => FlowInv
  <1> SUFFICES ASSUME FlowInit PROVE FlowInv
    OBVIOUS
  <1>1. 0 \in Amount
    BY PricingAssumption DEF Amount
  <1>2. IsFiniteSet(quotes)
    BY FS_EmptySet DEF FlowInit
  <1>3. QED
    BY <1>1, <1>2 DEF FlowInit, FlowInv, FlowTypeOK, NoTokens, Usage

LEMMA FlowInvStep == FlowInv /\ [FlowNext]_flowVars => FlowInv'
  <1> SUFFICES ASSUME FlowInv, [FlowNext]_flowVars PROVE FlowInv'
    OBVIOUS
  <1> USE DEF FlowInv
  <1>1. ASSUME NEW q \in QuoteChoices, AddQuote(q)
        PROVE  FlowInv'
    <2>1. IsFiniteSet(quotes \cup {q})
      BY FS_AddElement DEF FlowTypeOK
    <2>2. QED
      BY <1>1, <2>1 DEF AddQuote, FlowTypeOK, ResolveCaps, AccountLimit
  <1>2. ASSUME NEW i \in TokenChoices, NEW o \in TokenChoices, Reserve(i, o)
        PROVE  FlowInv'
    <2>1. i \in Amount /\ o \in Amount
      BY PricingFlowAssumption
    <2>2. ReserveAmount(quotes, i, o) \in Checked
      BY <2>1, QuotesTyped, ReserveAmountExact
    <2>3. FlowTypeOK'
      BY <1>2, <2>1, <2>2 DEF Reserve, FlowTypeOK, Checked
    <2>4. QED
      BY <1>2, <2>3 DEF Reserve, ResolveCaps, AccountLimit
  <1>3. ASSUME NEW i \in TokenChoices, NEW c \in TokenChoices, NEW o \in TokenChoices,
               NEW f \in FeeChoices, Serve([input |-> i, cached |-> c, output |-> o], f)
        PROVE  FlowInv'
    <2>1. [input |-> i, cached |-> c, output |-> o] \in Usage /\ f \in Int
      BY PricingFlowAssumption DEF Usage
    <2>2. FlowTypeOK'
      BY <1>3, <2>1 DEF Serve, FlowTypeOK
    <2>3. QED
      BY <1>3, <2>2 DEF Serve, ResolveCaps, AccountLimit
  <1>4. CASE UNCHANGED flowVars
    BY <1>4 DEF flowVars, FlowTypeOK, ResolveCaps, AccountLimit
  <1>5. QED
    BY <1>1, <1>2, <1>3, <1>4 DEF FlowNext

\* The promise of billing.ReserveAmount: whichever peer of the snapshot
\* serves, and however the input splits into regular and cached tokens, a
\* usage within the ceilings is charged without overflow and never more than
\* was reserved, at every integer width and for every snapshot.
THEOREM ReserveCoversCharge == FlowSpec => []ChargeWithinReserve
  <1>1. FlowInv => ChargeWithinReserve
    <2> SUFFICES ASSUME FlowInv, stage = "served", NEW q \in quotes
                 PROVE  Cost(used, q) \in 0 .. reserve
      BY DEF ChargeWithinReserve
    <2>1. /\ ceil.input \in Amount /\ ceil.output \in Amount
          /\ used.input \in Amount /\ used.cached \in Amount /\ used.output \in Amount
          /\ reserve \in Checked
      BY DEF FlowInv, FlowTypeOK, Usage, Checked
    <2>2. q.input \in Amount /\ q.cached \in Amount /\ q.output \in Amount
      BY QuotesTyped DEF FlowInv
    <2>3. /\ WorstCaseCost(q, ceil.input, ceil.output) # ErrOverflow
          /\ WorstCaseCost(q, ceil.input, ceil.output) <= reserve
      BY <2>1, QuotesTyped, ReserveAmountExact DEF FlowInv
    <2>4. Cost(used, q) \in 0 .. WorstCaseCost(q, ceil.input, ceil.output)
      BY <2>1, <2>2, <2>3, UsageWithinWorstCase DEF FlowInv
    <2>5. WorstCaseCost(q, ceil.input, ceil.output) \in Int /\ reserve \in Int
      BY <2>1, <2>2, WorstCaseExact DEF Checked, Amount, ErrOverflow
    <2>6. QED
      BY <2>3, <2>4, <2>5
  <1>2. QED
    BY <1>1, FlowInvInit, FlowInvStep, PTL DEF FlowSpec

\* What a served request is charged at any quote of its snapshot.
LEMMA ServedCost ==
  ASSUME FlowInv, ChargeWithinReserve, stage = "served", NEW q \in quotes
  PROVE  /\ Cost(used, q) \in Amount
         /\ Products(used, q) \in Amount
         /\ Cost(used, q) = ChargeFor(Products(used, q))
  <1>1. /\ used.input \in Amount /\ used.cached \in Amount /\ used.output \in Amount
        /\ q.input \in Amount /\ q.cached \in Amount /\ q.output \in Amount
    BY QuotesTyped DEF FlowInv, FlowTypeOK, Usage
  <1>2. Cost(used, q) # ErrOverflow
    BY DEF ChargeWithinReserve, ErrOverflow
  <1>3. QED
    BY <1>1, <1>2, CostExact DEF Checked

\* billing.Cost rounds the combined sum up, by less than one base unit.
THEOREM ChargesRoundUp == FlowSpec => []ChargeRoundsUp
  <1>1. FlowInv /\ ChargeWithinReserve => ChargeRoundsUp
    <2> SUFFICES ASSUME FlowInv, ChargeWithinReserve, stage = "served", NEW q \in quotes
                 PROVE  /\ Products(used, q) <= Cost(used, q) * Million
                        /\ Cost(used, q) * Million < Products(used, q) + Million
      BY DEF ChargeRoundsUp, Products
    <2> DEFINE p == Products(used, q)
               c == Cost(used, q)
    <2>1. c \in Amount /\ p \in Amount /\ c = ChargeFor(p)
      BY ServedCost
    <2>2. c # ErrOverflow /\ p \in Checked
      BY <2>1, PricingAssumption DEF Amount, ErrOverflow, Checked
    <2>3. p <= Million * c /\ Million * c < p + Million
      BY <2>1, <2>2, ChargeForExact
    <2>4. Million * c = c * Million
      BY <2>1, PricingAssumption DEF Amount
    <2>5. QED
      BY <2>3, <2>4
  <1>2. QED
    BY <1>1, FlowInvInit, FlowInvStep, ReserveCoversCharge, PTL DEF FlowSpec

\* The seller's and the treasury's shares add up to the buyer's charge.
THEOREM FeesSplitCharges == FlowSpec => []FeeSplitsCharge
  <1>1. FlowInv /\ ChargeWithinReserve => FeeSplitsCharge
    <2> SUFFICES ASSUME FlowInv, ChargeWithinReserve, stage = "served", NEW q \in quotes,
                        Cost(used, q) * BasisPoints <= MaxInt
                 PROVE  /\ Fee(Cost(used, q), bps).fee >= 0
                        /\ Fee(Cost(used, q), bps).seller >= 0
                        /\ Fee(Cost(used, q), bps).fee + Fee(Cost(used, q), bps).seller
                             = Cost(used, q)
      BY DEF FeeSplitsCharge
    <2>1. Cost(used, q) \in Amount /\ bps \in Int
      BY ServedCost DEF FlowInv, FlowTypeOK
    <2>2. QED
      BY <2>1, FeeExact
  <1>2. QED
    BY <1>1, FlowInvInit, FlowInvStep, ReserveCoversCharge, PTL DEF FlowSpec

\* billing.Cost and billing.Fee are exact: a charge is the price rounded up,
\* and its shares add up to it.
THEOREM ChargesExact == FlowSpec => []ChargeExact
  <1>1. ChargeRoundsUp /\ FeeSplitsCharge => ChargeExact
    BY DEF ChargeExact
  <1>2. QED
    BY <1>1, ChargesRoundUp, FeesSplitCharges, PTL

\* A rate within the merged caps is within both of the layers merged.
LEMMA MergeTightens ==
  ASSUME NEW q \in Rates, NEW own \in Caps, NEW asked \in Caps,
         Affordable(q, MergeCaps(own, asked))
  PROVE  Affordable(q, own) /\ Affordable(q, asked)
  <1> SUFFICES ASSUME NEW t \in Tiers
               PROVE  /\ own[t] = NoCap \/ q[t] <= own[t]
                      /\ asked[t] = NoCap \/ q[t] <= asked[t]
    BY DEF Affordable
  <1>1. /\ q[t] \in Int
        /\ own[t] \in Amount \cup {NoCap} /\ asked[t] \in Amount \cup {NoCap}
    BY DEF Rates, Tiers, Caps, Amount
  <1>2. TighterCap(own[t], asked[t]) = NoCap \/ q[t] <= TighterCap(own[t], asked[t])
    BY DEF Affordable, MergeCaps
  <1>3. QED
    BY <1>1, <1>2, PricingAssumption DEF TighterCap, NoCap, Amount

\* The account's caps for the model are caps.
LEMMA LimitsTyped ==
  ASSUME FlowTypeOK
  PROVE  AccountLimit \in Caps /\ limits.asked \in Caps
  BY PricingFlowAssumption DEF FlowTypeOK, Limits, Caps, AccountLimit, Effective

\* Usage at an affordable quote costs no more than at the caps.
LEMMA AffordableProducts ==
  ASSUME NEW q \in Rates, NEW caps \in Caps, NEW u \in Usage,
         Affordable(q, caps), \A t \in Tiers : caps[t] # NoCap
  PROVE  Products(u, q) <= caps["input"] * u.input + caps["cached"] * u.cached
                             + caps["output"] * u.output
  <1>1. /\ q.input <= caps["input"] /\ q.cached <= caps["cached"] /\ q.output <= caps["output"]
        /\ q.input \in Nat /\ q.cached \in Nat /\ q.output \in Nat
        /\ caps["input"] \in Nat /\ caps["cached"] \in Nat /\ caps["output"] \in Nat
        /\ u.input \in Nat /\ u.cached \in Nat /\ u.output \in Nat
    BY DEF Affordable, Tiers, Rates, Caps, Usage, Amount
  <1>2. /\ q.input * u.input <= caps["input"] * u.input
        /\ q.cached * u.cached <= caps["cached"] * u.cached
        /\ q.output * u.output <= caps["output"] * u.output
    BY <1>1, ProductMonotone
  <1>3. /\ q.input * u.input \in Nat /\ q.cached * u.cached \in Nat /\ q.output * u.output \in Nat
        /\ caps["input"] * u.input \in Nat /\ caps["cached"] * u.cached \in Nat
        /\ caps["output"] * u.output \in Nat
    BY <1>1, ProductMonotone
  <1>4. QED
    BY <1>2, <1>3 DEF Products

\* Caps are kept from the snapshot to the charge: a buyer who caps every tier
\* in one layer pays at most what the usage costs at those caps.
THEOREM ChargesWithinCaps == FlowSpec => []ChargeWithinCaps
  <1>1. FlowInv /\ ChargeWithinReserve /\ ChargeRoundsUp => ChargeWithinCaps
    <2> SUFFICES ASSUME FlowInv, ChargeWithinReserve, ChargeRoundsUp, stage = "served",
                        NEW q \in quotes, NEW layer \in {AccountLimit, limits.asked},
                        \A t \in Tiers : layer[t] # NoCap
                 PROVE  Cost(used, q) * Million
                          < layer["input"] * used.input + layer["cached"] * used.cached
                              + layer["output"] * used.output + Million
      BY DEF ChargeWithinCaps
    <2> DEFINE bound == layer["input"] * used.input + layer["cached"] * used.cached
                          + layer["output"] * used.output
    <2>1. q \in Rates /\ used \in Usage /\ layer \in Caps
      BY LimitsTyped, PricingFlowAssumption DEF FlowInv, FlowTypeOK, QuoteChoices, Rates
    <2>2. Affordable(q, layer)
      BY <2>1, LimitsTyped, MergeTightens DEF FlowInv, ResolveCaps
    <2>3. Products(used, q) <= bound
      BY <2>1, <2>2, AffordableProducts
    <2>4. Cost(used, q) * Million < Products(used, q) + Million
      BY DEF ChargeRoundsUp, Products
    <2>5. Cost(used, q) \in Int /\ Products(used, q) \in Int /\ Million \in Int
      BY ServedCost, PricingAssumption DEF Amount
    <2>6. Cost(used, q) * Million \in Int
      BY <2>5
    <2>7. bound \in Int
      BY <2>1 DEF Caps, Usage, Tiers, Amount, NoCap
    <2>8. QED
      BY <2>3, <2>4, <2>5, <2>6, <2>7
  <1>2. QED
    BY <1>1, FlowInvInit, FlowInvStep, ReserveCoversCharge, ChargesRoundUp, PTL DEF FlowSpec

-----------------------------------------------------------------------------
(* API keys.                                                               *)

\* A positive verdict that is cached was read from an active row: it ends a
\* TTL after today, or after the end of a lookup that saw the row active.
VerdictSound(r, k) ==
  Positive(r, k) =>
    /\ key[k].state # "none"
    /\ key[k].state = "active" => keyCache[r][k].until <= clock + PosTTL
    /\ key[k].state = "revoked" =>
         keyCache[r][k].until <= key[k].revokedAt + MaxLookup + PosTTL

\* A lookup that has queried the store is MaxLookup old at most; what it read
\* is older than a revocation it did not see.
LookupSound(m) ==
  /\ m.when <= clock /\ clock <= m.when + MaxLookup
  /\ m.verdict.valid => /\ key[m.key].state # "none"
                        /\ key[m.key].state = "revoked" => m.when <= key[m.key].revokedAt

\* Nothing can bring back a verdict that was purged without a lookup in flight.
PurgeSound(r, k) ==
  /\ <<r, k>> \in purging \cup purged => key[k].state = "revoked"
  /\ <<r, k>> \in purged => ~Positive(r, k) /\ ~InFlight(r, k)

KeysInv ==
  /\ KeyTypeOK
  /\ \A r \in KeyReplicas, k \in Keys : VerdictSound(r, k) /\ PurgeSound(r, k)
  /\ \A l \in Lookups : lookup[l].at = "read" => LookupSound(lookup[l])

LEMMA KeysStart == KeyInit => KeysInv
  <1> SUFFICES ASSUME KeyInit PROVE KeysInv
    OBVIOUS
  <1>1. KeyTypeOK
    BY ApiKeysAssumption
    DEF KeyInit, KeyTypeOK, Absent, Refused, Verdict, Owners, IdleLookup
  <1>2. \A r \in KeyReplicas, k \in Keys : ~Positive(r, k)
    BY DEF KeyInit, Positive, Absent, Refused
  <1>3. \A r \in KeyReplicas, k \in Keys : VerdictSound(r, k) /\ PurgeSound(r, k)
    BY <1>2 DEF KeyInit, VerdictSound, PurgeSound
  <1>4. \A l \in Lookups : lookup[l].at # "read"
    BY DEF KeyInit, IdleLookup
  <1>5. QED
    BY <1>1, <1>3, <1>4 DEF KeysInv

\* A request that has queried the store.
LEMMA ReadLookup ==
  ASSUME KeyTypeOK, NEW l \in Lookups, lookup[l].at \in {"missed", "read"}
  PROVE  /\ lookup[l].replica \in KeyReplicas /\ lookup[l].key \in Keys
         /\ lookup[l].at = "read" => lookup[l].verdict \in Verdict /\ lookup[l].when \in 0 .. MaxClock
  BY DEF KeyTypeOK, IdleLookup

\* Rows stay and no verdict is added: time may pass, entries may go.
LEMMA VerdictsFade ==
  ASSUME KeysInv, KeyTypeOK', clock <= clock', UNCHANGED key,
         \A r \in KeyReplicas, k \in Keys : Positive(r, k)' => keyCache'[r][k] = keyCache[r][k],
         \A r \in KeyReplicas, k \in Keys :
           InFlight(r, k)' /\ key[k].state = "revoked" => InFlight(r, k),
         purging' \subseteq purging,
         \A r \in KeyReplicas, k \in Keys :
           <<r, k>> \in purged' => \/ <<r, k>> \in purged
                                   \/ key[k].state = "revoked" /\ ~Positive(r, k)' /\ ~InFlight(r, k)',
         \A l \in Lookups : lookup'[l].at = "read" => LookupSound(lookup[l])'
  PROVE  KeysInv'
  <1>1. ASSUME NEW r \in KeyReplicas, NEW k \in Keys PROVE VerdictSound(r, k)'
    <2> SUFFICES ASSUME Positive(r, k)' PROVE VerdictSound(r, k)'
      BY DEF VerdictSound
    <2>1. keyCache'[r][k] = keyCache[r][k] /\ Positive(r, k)
      BY DEF Positive
    <2>2. clock \in Int /\ clock' \in Int /\ keyCache[r][k].until \in Int /\ PosTTL \in Nat
      BY ApiKeysAssumption DEF KeysInv, KeyTypeOK
    <2>3. VerdictSound(r, k)
      BY DEF KeysInv
    <2>4. QED
      BY <2>1, <2>2, <2>3 DEF VerdictSound
  <1>2. ASSUME NEW r \in KeyReplicas, NEW k \in Keys PROVE PurgeSound(r, k)'
    <2>1. PurgeSound(r, k)
      BY DEF KeysInv
    <2>2. Positive(r, k)' => Positive(r, k)
      BY DEF Positive
    <2>3. QED
      BY <2>1, <2>2 DEF PurgeSound
  <1>3. QED
    BY <1>1, <1>2 DEF KeysInv

\* A verdict is written.  What is positive was read at most MaxLookup ago, and
\* before a revocation.
LEMMA SetKeeps ==
  ASSUME KeysInv, NEW l \in Lookups, LookupSet(l)
  PROVE  KeysInv'
  <1> DEFINE r == lookup[l].replica
             k == lookup[l].key
             v == lookup[l].verdict
             w == lookup[l].when
             e == [until |-> clock + (IF v.valid THEN PosTTL ELSE NegTTL), verdict |-> v]
  <1>0. KeyTypeOK /\ lookup[l].at = "read"
    BY DEF KeysInv, LookupSet
  <1>1. r \in KeyReplicas /\ k \in Keys /\ v \in Verdict /\ w \in Nat /\ clock \in Nat
    BY <1>0, ReadLookup, ApiKeysAssumption DEF KeyTypeOK
  <1>2. /\ keyCache' = [keyCache EXCEPT ![r][k] = e] /\ lookup' = [lookup EXCEPT ![l] = IdleLookup]
        /\ UNCHANGED <<clock, key, creating, purging, purged>>
    BY DEF LookupSet, Set
  <1>3. e \in [until : Int, verdict : Verdict]
    BY <1>1, ApiKeysAssumption
  <1>4. KeyTypeOK'
    BY <1>0, <1>1, <1>2, <1>3 DEF KeyTypeOK
  <1>5. keyCache'[r][k] = e /\
        \A q \in KeyReplicas, x \in Keys : <<q, x>> # <<r, k>> => keyCache'[q][x] = keyCache[q][x]
    BY <1>0, <1>1, <1>2 DEF KeyTypeOK
  <1>6. \A j \in Lookups : lookup'[j].at = "read" => lookup'[j] = lookup[j]
    BY <1>0, <1>2 DEF IdleLookup, KeyTypeOK
  <1>7. \A q \in KeyReplicas, x \in Keys : InFlight(q, x)' => InFlight(q, x)
    BY <1>6 DEF InFlight
  <1>8. v.valid => InFlight(r, k)
    BY <1>0 DEF InFlight
  <1>9. ASSUME NEW q \in KeyReplicas, NEW x \in Keys PROVE VerdictSound(q, x)'
    <2>1. CASE <<q, x>> # <<r, k>>
      BY <1>2, <1>5, <2>1 DEF KeysInv, VerdictSound, Positive
    <2>2. CASE <<q, x>> = <<r, k>>
      <3> SUFFICES ASSUME v.valid PROVE VerdictSound(q, x)'
        BY <1>5, <2>2 DEF VerdictSound, Positive
      <3>1. /\ w <= clock /\ clock <= w + MaxLookup /\ key[k].state # "none"
            /\ key[k].state = "revoked" => w <= key[k].revokedAt
        BY <1>0 DEF KeysInv, LookupSound
      <3>2. keyCache'[q][x].until = clock + PosTTL
        BY <1>5, <2>2
      <3>3. key[k].revokedAt \in Nat
        BY <1>0, <1>1, ApiKeysAssumption DEF KeyTypeOK
      <3>4. QED
        BY <1>1, <1>2, <2>2, <3>1, <3>2, <3>3, ApiKeysAssumption DEF VerdictSound
    <2>3. QED
      BY <2>1, <2>2
  <1>10. ASSUME NEW q \in KeyReplicas, NEW x \in Keys PROVE PurgeSound(q, x)'
    <2>1. PurgeSound(q, x)
      BY DEF KeysInv
    <2>2. <<q, x>> \in purged => ~Positive(q, x)'
      <3>1. CASE <<q, x>> # <<r, k>>
        BY <1>5, <2>1, <3>1 DEF PurgeSound, Positive
      <3>2. CASE <<q, x>> = <<r, k>>
        BY <1>5, <1>8, <2>1, <3>2 DEF PurgeSound, Positive
      <3>3. QED
        BY <3>1, <3>2
    <2>3. QED
      BY <1>2, <1>7, <2>1, <2>2 DEF PurgeSound
  <1>11. ASSUME NEW j \in Lookups, lookup'[j].at = "read" PROVE LookupSound(lookup[j])'
    BY <1>2, <1>6, <1>11 DEF KeysInv, LookupSound
  <1>12. QED
    BY <1>4, <1>9, <1>10, <1>11 DEF KeysInv

\* A row is inserted, for which there can be no verdict yet.
LEMMA InsertKeeps ==
  ASSUME KeysInv, KeyTypeOK', NEW k \in Keys, NEW o \in Owners, InsertKey(k, o),
         UNCHANGED <<clock, keyCache, lookup, purging, purged>>
  PROVE  KeysInv'
  <1>1. KeyTypeOK /\ key[k].state = "none"
    BY DEF KeysInv, InsertKey
  <1>2. \A x \in Keys : x # k => key'[x] = key[x]
    BY <1>1 DEF InsertKey, KeyTypeOK
  <1>3. ASSUME NEW r \in KeyReplicas, NEW x \in Keys PROVE VerdictSound(r, x)' /\ PurgeSound(r, x)'
    <2>1. VerdictSound(r, x) /\ PurgeSound(r, x)
      BY DEF KeysInv
    <2>2. CASE x # k
      BY <1>2, <2>1, <2>2 DEF VerdictSound, PurgeSound, Positive, InFlight
    <2>3. CASE x = k
      <3>1. ~Positive(r, x) /\ <<r, x>> \notin purging \cup purged
        BY <1>1, <2>1, <2>3 DEF VerdictSound, PurgeSound
      <3>2. QED
        BY <3>1 DEF VerdictSound, PurgeSound, Positive
    <2>4. QED
      BY <2>2, <2>3
  <1>4. ASSUME NEW l \in Lookups, lookup[l].at = "read" PROVE LookupSound(lookup[l])'
    <2>1. LookupSound(lookup[l]) /\ lookup[l].key \in Keys
      BY <1>1, <1>4, ReadLookup DEF KeysInv
    <2>2. lookup[l].verdict.valid => lookup[l].key # k
      BY <1>1, <2>1 DEF LookupSound
    <2>3. QED
      BY <1>2, <2>1, <2>2 DEF LookupSound
  <1>5. QED
    BY <1>3, <1>4 DEF KeysInv

\* A row is revoked: what is cached ends a TTL from now at most, and what was
\* read was read before now.
LEMMA RevokeKeeps ==
  ASSUME KeysInv, KeyTypeOK', NEW k \in Keys, RevokeKey(k), UNCHANGED <<clock, keyCache, lookup, purged>>,
         \A r \in KeyReplicas, x \in Keys : <<r, x>> \in purging' => <<r, x>> \in purging \/ x = k
  PROVE  KeysInv'
  <1>1. KeyTypeOK /\ key[k].state = "active" /\ clock \in Nat
    BY ApiKeysAssumption DEF KeysInv, RevokeKey, KeyTypeOK
  <1>2. /\ key'[k].state = "revoked" /\ key'[k].revokedAt = clock
        /\ \A x \in Keys : x # k => key'[x] = key[x]
    BY <1>1 DEF RevokeKey, KeyTypeOK
  <1>3. ASSUME NEW r \in KeyReplicas, NEW x \in Keys PROVE VerdictSound(r, x)' /\ PurgeSound(r, x)'
    <2>1. VerdictSound(r, x) /\ PurgeSound(r, x)
      BY DEF KeysInv
    <2>2. CASE x # k
      BY <1>2, <2>1, <2>2 DEF VerdictSound, PurgeSound, Positive, InFlight
    <2>3. CASE x = k
      <3>1. keyCache[r][x].until \in Int
        BY <1>1 DEF KeyTypeOK
      <3>2. VerdictSound(r, x)'
        BY <1>1, <1>2, <2>1, <2>3, <3>1, ApiKeysAssumption DEF VerdictSound, Positive
      <3>3. <<r, x>> \notin purged
        BY <1>1, <2>1, <2>3 DEF PurgeSound
      <3>4. PurgeSound(r, x)'
        BY <1>2, <2>3, <3>3 DEF PurgeSound
      <3>5. QED
        BY <3>2, <3>4
    <2>4. QED
      BY <2>2, <2>3
  <1>4. ASSUME NEW l \in Lookups, lookup[l].at = "read" PROVE LookupSound(lookup[l])'
    <2>1. LookupSound(lookup[l]) /\ lookup[l].key \in Keys
      BY <1>1, <1>4, ReadLookup DEF KeysInv
    <2>2. QED
      BY <1>2, <2>1 DEF LookupSound
  <1>5. QED
    BY <1>3, <1>4 DEF KeysInv

LEMMA KeysStep == KeysInv /\ [KeyNext]_keyVars => KeysInv'
  <1> SUFFICES ASSUME KeysInv, [KeyNext]_keyVars PROVE KeysInv'
    OBVIOUS
  <1>0. KeyTypeOK /\ clock \in Nat
    BY ApiKeysAssumption DEF KeysInv, KeyTypeOK
  <1>1. Absent \in [until : Int, verdict : Verdict] /\ ~Absent.verdict.valid
    BY DEF Absent, Refused, Verdict, Owners
  <1>2. ASSUME UNCHANGED <<clock, key, keyCache, lookup, purging, purged>>, creating' \in [Creators -> Owners]
        PROVE  KeysInv'
    <2>1. KeyTypeOK'
      BY <1>0, <1>2 DEF KeyTypeOK
    <2>2. QED
      BY <1>0, <1>2, <2>1, VerdictsFade DEF InFlight, Positive, KeysInv, LookupSound
  <1>3. CASE UNCHANGED keyVars
    BY <1>0, <1>2, <1>3 DEF keyVars, KeyTypeOK
  <1>4. CASE KeyTick
    <2>1. KeyTypeOK'
      BY <1>0, <1>4, ApiKeysAssumption DEF KeyTick, KeyTypeOK
    <2>2. clock' = clock + 1 /\ UNCHANGED <<key, keyCache, lookup, purging, purged>>
      BY <1>4 DEF KeyTick
    <2>3. ASSUME NEW l \in Lookups, lookup[l].at = "read" PROVE LookupSound(lookup[l])'
      <3>1. lookup[l].when \in Nat /\ LookupSound(lookup[l]) /\ clock < lookup[l].when + MaxLookup
        BY <1>0, <1>4, <2>3, ReadLookup, ApiKeysAssumption DEF KeysInv, KeyTick
      <3>2. QED
        BY <1>0, <2>2, <3>1, ApiKeysAssumption DEF LookupSound
    <2>4. QED
      BY <1>0, <2>1, <2>2, <2>3, VerdictsFade DEF InFlight, Positive
  <1>5. ASSUME NEW r \in KeyReplicas, DeleteExpired(r) PROVE KeysInv'
    <2>1. KeyTypeOK'
      BY <1>0, <1>1, <1>5 DEF DeleteExpired, KeyTypeOK
    <2>2. \A q \in KeyReplicas, k \in Keys : Positive(q, k)' => keyCache'[q][k] = keyCache[q][k]
      BY <1>0, <1>1, <1>5 DEF DeleteExpired, KeyTypeOK, Positive
    <2>3. QED
      BY <1>0, <1>5, <2>1, <2>2, VerdictsFade DEF DeleteExpired, InFlight, KeysInv, LookupSound
  <1>6. ASSUME NEW r \in KeyReplicas, NEW k \in Keys, LookupHit(r, k) PROVE KeysInv'
    BY <1>0, <1>2, <1>6 DEF LookupHit, Hit, KeyTypeOK
  <1>7. ASSUME NEW r \in KeyReplicas, NEW k \in Keys, NEW l \in Lookups, LookupMiss(l, r, k) PROVE KeysInv'
    <2>1. /\ keyCache' = [keyCache EXCEPT ![r][k] = Absent] /\ UNCHANGED <<clock, key, creating, purging, purged>>
          /\ lookup' = [lookup EXCEPT ![l] = [at |-> "missed", replica |-> r, key |-> k]]
      BY <1>7 DEF LookupMiss, Miss
    <2>2. KeyTypeOK'
      BY <1>0, <1>1, <2>1 DEF KeyTypeOK
    <2>3. \A q \in KeyReplicas, x \in Keys : Positive(q, x)' => keyCache'[q][x] = keyCache[q][x]
      BY <1>0, <1>1, <2>1 DEF KeyTypeOK, Positive
    <2>4. \A j \in Lookups : lookup'[j].at = "read" => lookup'[j] = lookup[j]
      BY <1>0, <2>1 DEF KeyTypeOK
    <2>5. QED
      BY <1>0, <2>1, <2>2, <2>3, <2>4, VerdictsFade DEF InFlight, KeysInv, LookupSound
  <1>8. ASSUME NEW l \in Lookups, LookupRead(l) PROVE KeysInv'
    <2> DEFINE k == lookup[l].key
               m == [at |-> "read", replica |-> lookup[l].replica, key |-> k,
                     verdict |-> Validate(k), when |-> clock]
    <2>1. lookup' = [lookup EXCEPT ![l] = m] /\ UNCHANGED <<clock, key, keyCache, creating, purging, purged>>
      BY <1>8 DEF LookupRead
    <2>2. lookup[l].replica \in KeyReplicas /\ k \in Keys
      BY <1>0, <1>8, ReadLookup DEF LookupRead
    <2>3. Validate(k) \in Verdict /\ (Validate(k).valid => key[k].state = "active")
      BY <1>0, <2>2 DEF Validate, Refused, Verdict, Owners, KeyTypeOK
    <2>4. KeyTypeOK'
      BY <1>0, <2>1, <2>2, <2>3 DEF KeyTypeOK
    <2>5. lookup'[l] = m /\ \A j \in Lookups : j # l => lookup'[j] = lookup[j]
      BY <1>0, <2>1 DEF KeyTypeOK
    <2>6. ASSUME NEW q \in KeyReplicas, NEW x \in Keys, InFlight(q, x)', key[x].state = "revoked"
          PROVE  InFlight(q, x)
      BY <2>3, <2>5, <2>6 DEF InFlight
    <2>7. ASSUME NEW j \in Lookups, lookup'[j].at = "read" PROVE LookupSound(lookup[j])'
      <3>1. CASE j = l
        BY <1>0, <2>1, <2>3, <2>5, <3>1, ApiKeysAssumption DEF LookupSound
      <3>2. CASE j # l
        BY <2>1, <2>5, <2>7, <3>2 DEF KeysInv, LookupSound
      <3>3. QED
        BY <3>1, <3>2
    <2>8. QED
      BY <1>0, <2>1, <2>4, <2>6, <2>7, VerdictsFade DEF Positive
  <1>9. ASSUME NEW l \in Lookups, LookupFails(l) PROVE KeysInv'
    <2>1. lookup' = [lookup EXCEPT ![l] = IdleLookup] /\ UNCHANGED <<clock, key, keyCache, creating, purging, purged>>
      BY <1>9 DEF LookupFails
    <2>2. KeyTypeOK'
      BY <1>0, <2>1 DEF KeyTypeOK
    <2>3. \A j \in Lookups : lookup'[j].at = "read" => lookup'[j] = lookup[j]
      BY <1>0, <2>1 DEF KeyTypeOK, IdleLookup
    <2>4. QED
      BY <1>0, <2>1, <2>2, <2>3, VerdictsFade DEF Positive, InFlight, KeysInv, LookupSound
  <1>10. ASSUME NEW c \in Creators, NEW u \in Users, CreateCount(c, u) PROVE KeysInv'
    BY <1>0, <1>2, <1>10 DEF CreateCount, KeyTypeOK, Owners
  <1>11. ASSUME NEW c \in Creators, CreateFails(c) PROVE KeysInv'
    BY <1>0, <1>2, <1>11 DEF CreateFails, KeyTypeOK, Owners
  <1>12. ASSUME NEW k \in Keys, NEW o \in Owners, InsertKey(k, o) PROVE
           key' \in [Keys -> [state : {"none", "active", "revoked"}, owner : Owners, revokedAt : 0 .. MaxClock]]
    BY <1>0, <1>12 DEF InsertKey, KeyTypeOK
  <1>13. ASSUME NEW c \in Creators, NEW k \in Keys, CreateInsert(c, k) PROVE KeysInv'
    <2>1. creating[c] \in Owners /\ InsertKey(k, creating[c])
      BY <1>0, <1>13 DEF CreateInsert, KeyTypeOK
    <2>2. KeyTypeOK'
      BY <1>0, <1>12, <1>13, <2>1 DEF CreateInsert, KeyTypeOK, Owners
    <2>3. QED
      BY <1>13, <2>1, <2>2, InsertKeeps DEF CreateInsert
  <1>14. ASSUME NEW k \in Keys, CmdAdd(k) PROVE KeysInv'
    <2>1. NoOwner \in Owners /\ InsertKey(k, NoOwner)
      BY <1>14 DEF CmdAdd, Owners
    <2>2. KeyTypeOK'
      BY <1>0, <1>12, <1>14, <2>1 DEF CmdAdd, KeyTypeOK
    <2>3. QED
      BY <1>14, <2>1, <2>2, InsertKeeps DEF CmdAdd
  <1>15. ASSUME NEW k \in Keys, RevokeKey(k) PROVE
           key' \in [Keys -> [state : {"none", "active", "revoked"}, owner : Owners, revokedAt : 0 .. MaxClock]]
    BY <1>0, <1>15 DEF RevokeKey, KeyTypeOK
  <1>16. ASSUME NEW r \in KeyReplicas, NEW k \in Keys, RevokeByIDForUser(r, k) PROVE KeysInv'
    <2>1. KeyTypeOK'
      BY <1>0, <1>15, <1>16 DEF RevokeByIDForUser, KeyTypeOK
    <2>2. QED
      BY <1>16, <2>1, RevokeKeeps DEF RevokeByIDForUser
  <1>17. ASSUME NEW k \in Keys, CmdRevoke(k) PROVE KeysInv'
    <2>1. KeyTypeOK'
      BY <1>0, <1>15, <1>17 DEF CmdRevoke, KeyTypeOK
    <2>2. QED
      BY <1>17, <2>1, RevokeKeeps DEF CmdRevoke
  <1>18. ASSUME NEW r \in KeyReplicas, NEW k \in Keys, RevokePurge(r, k) PROVE KeysInv'
    <2>1. /\ keyCache' = [keyCache EXCEPT ![r][k] = Absent] /\ UNCHANGED <<clock, key, lookup, creating>>
          /\ purging' = purging \ {<<r, k>>} /\ <<r, k>> \in purging
          /\ purged' = IF InFlight(r, k) THEN purged ELSE purged \cup {<<r, k>>}
      BY <1>18 DEF RevokePurge, Purge
    <2>2. KeyTypeOK'
      BY <1>0, <1>1, <2>1 DEF KeyTypeOK
    <2>3. \A q \in KeyReplicas, x \in Keys : Positive(q, x)' => keyCache'[q][x] = keyCache[q][x]
      BY <1>0, <1>1, <2>1 DEF KeyTypeOK, Positive
    <2>4. ~Positive(r, k)' /\ key[k].state = "revoked"
      BY <1>0, <1>1, <2>1 DEF KeyTypeOK, Positive, KeysInv, PurgeSound
    <2>5. \A q \in KeyReplicas, x \in Keys : InFlight(q, x)' <=> InFlight(q, x)
      BY <2>1 DEF InFlight
    <2>6. QED
      BY <1>0, <2>1, <2>2, <2>3, <2>4, <2>5, VerdictsFade DEF KeysInv, LookupSound
  <1>19. QED
    BY <1>3, <1>4, <1>5, <1>6, <1>7, <1>8, <1>9, <1>10, <1>11, <1>13, <1>14, <1>16, <1>17, <1>18,
       SetKeeps DEF KeyNext

\* However many replicas, keys and requests: a revoked key is accepted for no
\* longer than a lookup and the lifetime of a cached verdict after its
\* revocation, and at once no more on the replica that purged it, unless a
\* lookup there had read the row before.  Hits of the cache do not renew an
\* entry, and a query after the revocation sees it.
THEOREM RevokedKeysStopEverywhere == KeySpec => []RevokedKeysStop
  <1>1. KeysInv => RevokedKeysStop
    <2> SUFFICES ASSUME KeysInv PROVE RevokedKeysStop
      OBVIOUS
    <2>1. RevocationPropagates
      BY DEF KeysInv, VerdictSound, RevocationPropagates
    <2>2. ASSUME NEW r \in KeyReplicas, NEW k \in Keys, <<r, k>> \in purged PROVE ~Admits(r, k)
      BY <2>2 DEF KeysInv, PurgeSound, Positive, Admits, Answer
    <2>3. QED
      BY <2>1, <2>2 DEF PurgeIsFinal, RevokedKeysStop
  <1>2. QED
    BY <1>1, KeysStart, KeysStep, PTL DEF KeySpec

-----------------------------------------------------------------------------
(* The faucet.                                                             *)

\* A reservation outlives a send and what its handler does after it, and a
\* send and the life of a blockhash.
ReservationsOutlive ==
  /\ SendTimeout + StoreTimeout <= PendingTTL
  /\ SendTimeout + BlockhashLife <= PendingTTL

Working(h) == handler[h].at \in {"sending", "clear", "complete"}

\* A handler that works on an attempt is the only one, and in time.
HandlerSound(h) ==
  LET n == handler[h].attempt
      a == handler[h].for IN
  /\ handler[h].at = "checked" => a \in Claimants
  /\ ~Working(h) => n = 0
  /\ Working(h) =>
       /\ n \in Attempts /\ a \in Claimants
       /\ attempt[n].account = a /\ attempt[n].end = "open"
       /\ handler[h].since <= time
       /\ handler[h].at = "sending" =>
            handler[h].since = claim[a].claimedAt /\ time <= handler[h].since + SendTimeout
       /\ handler[h].at # "sending" =>
            /\ handler[h].since <= claim[a].claimedAt + SendTimeout
            /\ time <= handler[h].since + StoreTimeout
       /\ \A j \in Handlers : handler[j].attempt = n => j = h

\* The row of an account stands for its open attempt, or for the one that was
\* completed; an attempt that failed has submitted nothing.
AttemptSound(n) ==
  LET a == attempt[n].account IN
  /\ a = NoClaimant => attempt[n].end = "open" /\ transfer[n].state = "none"
  /\ a # NoClaimant =>
       /\ attempt[n].end = "open" =>
            /\ claim[a].state = "pending" /\ claim[a].by = n
            /\ \E h \in Handlers : Working(h) /\ handler[h].attempt = n
       /\ attempt[n].end = "completed" => claim[a].state = "completed" /\ claim[a].by = n
       /\ attempt[n].end = "failed" => transfer[n].state \in {"none", "built"}

\* A pending row is as old as the attempt it stands for.
ClaimSound(a) ==
  claim[a].state = "pending" =>
    LET n == claim[a].by IN
    /\ n \in Attempts /\ attempt[n].account = a
    /\ transfer[n].state # "none" => transfer[n].blockhash <= claim[a].claimedAt + SendTimeout

FaucetInv ==
  /\ FaucetTypeOK
  /\ \A h \in Handlers : HandlerSound(h)
  /\ \A n \in Attempts : AttemptSound(n)
  /\ \A a \in Claimants : ClaimSound(a)

LEMMA FaucetStarts == FaucetInit => FaucetInv
  <1> SUFFICES ASSUME FaucetInit PROVE FaucetInv
    OBVIOUS
  <1>1. FaucetTypeOK
    BY FaucetAssumption DEF FaucetInit, FaucetTypeOK, NoClaim, Idle
  <1>2. ASSUME NEW h \in Handlers PROVE HandlerSound(h)
    BY DEF FaucetInit, HandlerSound, Working, Idle
  <1>3. ASSUME NEW n \in Attempts PROVE AttemptSound(n)
    BY DEF FaucetInit, AttemptSound
  <1>4. ASSUME NEW a \in Claimants PROVE ClaimSound(a)
    BY DEF FaucetInit, ClaimSound, NoClaim
  <1>5. QED
    BY <1>1, <1>2, <1>3, <1>4 DEF FaucetInv

\* The handler that works on an attempt works on the row of its account.
LEMMA WorkingOnRow ==
  ASSUME FaucetInv, NEW h \in Handlers, Working(h)
  PROVE  /\ handler[h].attempt \in Attempts /\ handler[h].for \in Claimants
         /\ attempt[handler[h].attempt].account = handler[h].for
         /\ attempt[handler[h].attempt].end = "open"
         /\ claim[handler[h].for].state = "pending" /\ claim[handler[h].for].by = handler[h].attempt
         /\ \A j \in Handlers : handler[j].attempt = handler[h].attempt => j = h
         /\ handler[h].for # NoClaimant
  BY FaucetAssumption DEF FaucetInv, HandlerSound, AttemptSound

LEMMA FaucetNumbers ==
  ASSUME FaucetInv
  PROVE  /\ time \in Nat /\ \A h \in Handlers : handler[h].since \in Nat
         /\ \A a \in Claimants : claim[a].claimedAt \in Nat
         /\ \A n \in Attempts : transfer[n].blockhash \in Nat
         /\ PendingTTL \in Nat /\ SendTimeout \in Nat /\ BlockhashLife \in Nat /\ StoreTimeout \in Nat
  BY FaucetAssumption DEF FaucetInv, FaucetTypeOK

\* When a row may be taken over, its attempt can do nothing any more.
LEMMA StaleIsOver ==
  ASSUME FaucetInv, ReservationsOutlive, NEW a \in Claimants, claim[a].state = "pending", Stale(a)
  PROVE  ~CanLand(claim[a].by) /\ \A h \in Handlers : handler[h].attempt # claim[a].by
  <1> DEFINE n == claim[a].by
  <1>1. claim[a].claimedAt + PendingTTL < time
    BY DEF Stale
  <1>2. n \in Attempts /\ attempt[n].account = a
          /\ (transfer[n].state # "none" => transfer[n].blockhash <= claim[a].claimedAt + SendTimeout)
    BY DEF FaucetInv, ClaimSound
  <1>3. ~CanLand(n)
    BY <1>1, <1>2, FaucetNumbers DEF CanLand, ReservationsOutlive
  <1>4. ASSUME NEW h \in Handlers, handler[h].attempt = n PROVE FALSE
    <2>1. n # 0
      BY <1>2, FaucetAssumption DEF Attempts
    <2>2. HandlerSound(h) /\ Working(h)
      BY <1>4, <2>1 DEF FaucetInv, HandlerSound
    <2>3. handler[h].for = a
      BY <1>2, <1>4, <2>2, WorkingOnRow
    <2>4. CASE handler[h].at = "sending"
      BY <1>1, <2>2, <2>3, <2>4, FaucetNumbers DEF HandlerSound, ReservationsOutlive
    <2>5. CASE handler[h].at # "sending"
      BY <1>1, <2>2, <2>3, <2>5, FaucetNumbers DEF HandlerSound, ReservationsOutlive
    <2>6. QED
      BY <2>4, <2>5
  <1>5. QED
    BY <1>3, <1>4

\* A handler without an attempt moves.
LEMMA BystanderMoves ==
  ASSUME FaucetInv, NEW h \in Handlers, ~Working(h), NEW x, handler' = [handler EXCEPT ![h] = x],
         x \in [at : {"idle", "checked"}, for : Claimants \cup {NoClaimant}, attempt : {0}, since : {0}],
         x.at = "checked" => x.for \in Claimants,
         UNCHANGED <<time, claim, attempt, transfer, fund>>
  PROVE  FaucetInv'
  <1>1. FaucetTypeOK'
    BY FaucetAssumption DEF FaucetInv, FaucetTypeOK
  <1>2. handler'[h] = x /\ \A j \in Handlers : j # h => handler'[j] = handler[j]
    BY DEF FaucetInv, FaucetTypeOK
  <1>3. ASSUME NEW j \in Handlers PROVE HandlerSound(j)'
    <2>1. CASE j = h
      BY <1>2, <2>1 DEF HandlerSound, Working
    <2>2. CASE j # h
      <3>1. HandlerSound(j) /\ (Working(j) => handler[j].attempt # 0)
        BY FaucetAssumption DEF FaucetInv, HandlerSound, Attempts
      <3>2. \A i \in Handlers : Working(j) /\ handler'[i].attempt = handler[j].attempt => i = j
        BY <1>2, <3>1 DEF HandlerSound
      <3>3. QED
        BY <1>2, <2>2, <3>1, <3>2 DEF HandlerSound, Working
    <2>3. QED
      BY <2>1, <2>2
  <1>4. ASSUME NEW n \in Attempts PROVE AttemptSound(n)'
    BY <1>2 DEF FaucetInv, AttemptSound, Working
  <1>5. ASSUME NEW a \in Claimants PROVE ClaimSound(a)'
    BY DEF FaucetInv, ClaimSound
  <1>6. QED
    BY <1>1, <1>3, <1>4, <1>5 DEF FaucetInv

\* A reservation: the attempts of the account have ended, and the new one is
\* the only open one.
LEMMA ReserveKeeps ==
  ASSUME FaucetInv, ReservationsOutlive, NEW h \in Handlers, NEW n \in Attempts, ClaimFaucet(h, n)
  PROVE  FaucetInv'
  <1> DEFINE a == handler[h].for
             c == [state |-> "pending", by |-> n, claimedAt |-> time]
             x == [at |-> "sending", for |-> a, attempt |-> n, since |-> time]
  <1>1. /\ a \in Claimants /\ a # NoClaimant /\ attempt[n].account = NoClaimant
        /\ attempt[n].end = "open" /\ transfer[n].state = "none" /\ n # 0
    BY FaucetAssumption DEF ClaimFaucet, FaucetInv, HandlerSound, AttemptSound, Attempts
  <1>2. /\ claim' = [claim EXCEPT ![a] = c] /\ attempt' = [attempt EXCEPT ![n].account = a]
        /\ handler' = [handler EXCEPT ![h] = x] /\ UNCHANGED <<time, transfer, fund>>
    BY DEF ClaimFaucet
  <1>3. FaucetTypeOK'
    <2>1. FaucetTypeOK /\ time \in 0 .. MaxTime /\ n \in 0 .. MaxAttempts
      BY FaucetAssumption DEF FaucetInv, FaucetTypeOK, Attempts
    <2>2. c \in [state : {"none", "pending", "completed"}, by : 0 .. MaxAttempts, claimedAt : 0 .. MaxTime]
      BY <2>1
    <2>3. x \in [at : {"idle", "checked", "sending", "clear", "complete"},
                 for : Claimants \cup {NoClaimant}, attempt : 0 .. MaxAttempts, since : 0 .. MaxTime]
      BY <1>1, <2>1
    <2> HIDE DEF a, c, x
    <2>4. QED
      BY <1>1, <1>2, <2>1, <2>2, <2>3 DEF FaucetTypeOK
  <1>4. /\ claim'[a] = c /\ \A b \in Claimants : b # a => claim'[b] = claim[b]
        /\ handler'[h] = x /\ \A j \in Handlers : j # h => handler'[j] = handler[j]
        /\ attempt'[n].account = a /\ attempt'[n].end = "open"
        /\ \A m \in Attempts : m # n => attempt'[m] = attempt[m]
    BY <1>1, <1>2 DEF FaucetInv, FaucetTypeOK
  <1>5. ASSUME NEW m \in Attempts, attempt[m].account = a PROVE attempt[m].end \notin {"open", "completed"}
    <2>1. claim[a].state = "none" \/ (claim[a].state = "pending" /\ Stale(a))
      BY DEF ClaimFaucet, Claimable
    <2>2. AttemptSound(m) /\ attempt[m].account # NoClaimant
      BY <1>1, <1>5 DEF FaucetInv
    <2>3. claim[a].state = "pending" /\ Stale(a) => \A j \in Handlers : handler[j].attempt # claim[a].by
      BY <1>1, StaleIsOver
    <2>4. QED
      BY <1>5, <2>1, <2>2, <2>3 DEF AttemptSound
  <1>6. ASSUME NEW j \in Handlers, Working(j)
        PROVE  j # h /\ handler[j].for # a /\ handler[j].attempt # n
    BY <1>1, <1>5, <1>6, WorkingOnRow DEF ClaimFaucet, Working
  <1>7. ASSUME NEW j \in Handlers PROVE HandlerSound(j)'
    <2>1. HandlerSound(j)
      BY DEF FaucetInv
    <2>2. CASE j = h
      <3>1. \A i \in Handlers : handler'[i].attempt = n => i = h
        BY <1>1, <1>4, <1>6 DEF FaucetInv, HandlerSound
      <3>2. time <= time + SendTimeout /\ time <= time
        BY FaucetNumbers
      <3>3. QED
        BY <1>1, <1>2, <1>4, <2>2, <3>1, <3>2 DEF HandlerSound, Working
    <2>3. CASE j # h /\ ~Working(j)
      BY <1>4, <2>1, <2>3 DEF HandlerSound, Working
    <2>4. CASE j # h /\ Working(j)
      <3>1. handler[j].attempt \in Attempts /\ handler[j].for \in Claimants
        BY <2>4, WorkingOnRow
      <3>2. /\ claim'[handler[j].for] = claim[handler[j].for]
            /\ attempt'[handler[j].attempt] = attempt[handler[j].attempt] /\ handler'[j] = handler[j]
        BY <1>4, <1>6, <2>4, <3>1
      <3>3. \A i \in Handlers : handler'[i].attempt = handler[j].attempt => i = j
        BY <1>4, <1>6, <2>4, WorkingOnRow
      <3>4. QED
        BY <1>2, <2>1, <2>4, <3>1, <3>2, <3>3 DEF HandlerSound, Working
    <2>5. QED
      BY <2>2, <2>3, <2>4
  <1>8. ASSUME NEW m \in Attempts PROVE AttemptSound(m)'
    <2>1. CASE m = n
      BY <1>1, <1>4, <2>1 DEF AttemptSound, Working
    <2>2. CASE m # n
      <3>1. AttemptSound(m) /\ attempt'[m] = attempt[m] /\ transfer' = transfer
        BY <1>2, <1>4, <2>2 DEF FaucetInv
      <3>2. CASE attempt[m].account = a
        BY <1>1, <1>5, <3>1, <3>2 DEF AttemptSound
      <3>3. CASE attempt[m].account = NoClaimant
        BY <3>1, <3>3 DEF AttemptSound
      <3>4. CASE attempt[m].account \in Claimants \ {a}
        <4>1. claim'[attempt[m].account] = claim[attempt[m].account]
          BY <1>4, <3>4
        <4>2. ASSUME NEW j \in Handlers, Working(j) PROVE Working(j)' /\ handler'[j] = handler[j]
          BY <1>4, <1>6, <4>2 DEF Working
        <4>3. QED
          BY <3>1, <4>1, <4>2 DEF AttemptSound
      <3>5. QED
        BY <3>2, <3>3, <3>4 DEF FaucetInv, FaucetTypeOK
    <2>3. QED
      BY <2>1, <2>2
  <1>9. ASSUME NEW b \in Claimants PROVE ClaimSound(b)'
    <2>1. CASE b = a
      BY <1>1, <1>2, <1>4, <2>1 DEF ClaimSound
    <2>2. CASE b # a
      <3>1. ClaimSound(b) /\ claim'[b] = claim[b] /\ b # NoClaimant
        BY <1>4, <2>2, FaucetAssumption DEF FaucetInv
      <3>2. claim[b].state = "pending" => claim[b].by # n
        BY <1>1, <3>1 DEF ClaimSound
      <3>3. QED
        BY <1>2, <1>4, <3>1, <3>2 DEF ClaimSound
    <2>3. QED
      BY <2>1, <2>2
  <1>10. QED
    BY <1>3, <1>7, <1>8, <1>9 DEF FaucetInv

\* A handler builds or submits its transfer, and goes on.
LEMMA SendKeeps ==
  ASSUME FaucetInv, NEW h \in Handlers, handler[h].at = "sending",
         NEW x \in [state : {"none", "built", "sent", "landed"}, blockhash : 0 .. MaxTime],
         transfer' = [transfer EXCEPT ![handler[h].attempt] = x],
         x.state # "none" => x.blockhash <= claim[handler[h].for].claimedAt + SendTimeout,
         \/ UNCHANGED handler
         \/ Turn(h, "clear")
         \/ Turn(h, "complete"),
         UNCHANGED <<time, claim, attempt, fund>>
  PROVE  FaucetInv'
  <1> DEFINE n == handler[h].attempt
             a == handler[h].for
  <1>1. Working(h) /\ n \in Attempts /\ a \in Claimants /\ a # NoClaimant /\ attempt[n].account = a
          /\ attempt[n].end = "open" /\ claim[a].by = n /\ claim[a].state = "pending"
          /\ \A j \in Handlers : handler[j].attempt = n => j = h
    BY WorkingOnRow DEF Working
  <1>2. /\ handler'[h].attempt = n /\ handler'[h].for = a /\ Working(h)'
        /\ \/ handler'[h] = handler[h]
           \/ handler'[h].at # "sending" /\ handler'[h].since = time
        /\ \A j \in Handlers : j # h => handler'[j] = handler[j]
    BY <1>1 DEF Turn, Working, FaucetInv, FaucetTypeOK
  <1>3. handler' \in [Handlers -> [at : {"idle", "checked", "sending", "clear", "complete"},
                                   for : Claimants \cup {NoClaimant},
                                   attempt : 0 .. MaxAttempts, since : 0 .. MaxTime]]
    BY DEF Turn, FaucetInv, FaucetTypeOK
  <1>4. FaucetTypeOK'
    BY <1>3 DEF FaucetInv, FaucetTypeOK
  <1>5. transfer'[n] = x /\ \A m \in Attempts : m # n => transfer'[m] = transfer[m]
    BY <1>1 DEF FaucetInv, FaucetTypeOK
  <1>6. ASSUME NEW j \in Handlers PROVE HandlerSound(j)'
    <2>1. HandlerSound(j) /\ HandlerSound(h)
      BY DEF FaucetInv
    <2>2. \A i \in Handlers : handler'[i].attempt = handler[i].attempt
      BY <1>2
    <2>3. CASE j = h /\ handler'[h] = handler[h]
      BY <1>2, <2>1, <2>2, <2>3 DEF HandlerSound, Working
    <2>4. CASE j = h /\ handler'[h].at # "sending" /\ handler'[h].since = time
      <3>1. handler[h].since = claim[a].claimedAt /\ time <= handler[h].since + SendTimeout
        BY <1>1, <2>1 DEF HandlerSound
      <3>2. time <= claim[a].claimedAt + SendTimeout /\ time <= time + StoreTimeout /\ time <= time
        BY <1>1, <3>1, FaucetNumbers
      <3>3. QED
        BY <1>1, <1>2, <2>2, <2>4, <3>2 DEF HandlerSound, Working
    <2>5. CASE j # h
      BY <1>2, <2>1, <2>2, <2>5 DEF HandlerSound, Working
    <2>6. QED
      BY <1>2, <2>3, <2>4, <2>5
  <1>7. ASSUME NEW m \in Attempts PROVE AttemptSound(m)'
    <2>1. AttemptSound(m)
      BY DEF FaucetInv
    <2>2. \A j \in Handlers : Working(j) => Working(j)' /\ handler'[j].attempt = handler[j].attempt
      BY <1>2 DEF Working
    <2>3. CASE m = n
      BY <1>1, <1>2, <2>3 DEF AttemptSound
    <2>4. CASE m # n
      BY <1>5, <2>1, <2>2, <2>4 DEF AttemptSound
    <2>5. QED
      BY <2>3, <2>4
  <1>8. ASSUME NEW b \in Claimants PROVE ClaimSound(b)'
    <2>1. ClaimSound(b)
      BY DEF FaucetInv
    <2>2. CASE b = a
      BY <1>1, <1>5, <2>2 DEF ClaimSound
    <2>3. CASE b # a
      BY <1>1, <1>5, <2>1, <2>3 DEF ClaimSound
    <2>4. QED
      BY <2>2, <2>3
  <1>9. QED
    BY <1>4, <1>6, <1>7, <1>8 DEF FaucetInv

\* A handler ends, with a row that is completed, cleared or left as it is.
LEMMA EndKeeps ==
  ASSUME FaucetInv, NEW h \in Handlers, Working(h),
         NEW e \in {"completed", "doubtful", "failed"}, NEW c,
         attempt' = [attempt EXCEPT ![handler[h].attempt].end = e],
         e = "failed" => transfer[handler[h].attempt].state \in {"none", "built"},
         claim' = [claim EXCEPT ![handler[h].for] = c],
         c \in [state : {"none", "pending", "completed"}, by : 0 .. MaxAttempts, claimedAt : 0 .. MaxTime],
         c = claim[handler[h].for] \/ c.state # "pending",
         e = "completed" => c.state = "completed" /\ c.by = handler[h].attempt,
         handler' = [handler EXCEPT ![h] = Idle], UNCHANGED <<time, transfer, fund>>
  PROVE  FaucetInv'
  <1> DEFINE n == handler[h].attempt
             a == handler[h].for
  <1>1. n \in Attempts /\ a \in Claimants /\ a # NoClaimant /\ attempt[n].account = a
          /\ attempt[n].end = "open" /\ claim[a].by = n /\ claim[a].state = "pending"
          /\ \A j \in Handlers : handler[j].attempt = n => j = h
    BY WorkingOnRow
  <1>2. Idle \in [at : {"idle"}, for : {NoClaimant}, attempt : {0}, since : {0}]
    BY DEF Idle
  <1>3. FaucetTypeOK'
    BY <1>1, <1>2, FaucetAssumption DEF FaucetInv, FaucetTypeOK
  <1>4. /\ claim'[a] = c /\ \A b \in Claimants : b # a => claim'[b] = claim[b]
        /\ handler'[h] = Idle /\ \A j \in Handlers : j # h => handler'[j] = handler[j]
        /\ attempt'[n].account = a /\ attempt'[n].end = e
        /\ \A m \in Attempts : m # n => attempt'[m] = attempt[m]
    BY <1>1 DEF FaucetInv, FaucetTypeOK
  <1>5. ASSUME NEW j \in Handlers, Working(j), j # h
        PROVE  /\ handler[j].attempt # n /\ handler[j].for # a
               /\ handler[j].attempt \in Attempts /\ handler[j].for \in Claimants
    BY <1>1, <1>5, WorkingOnRow
  <1>6. ASSUME NEW j \in Handlers PROVE HandlerSound(j)'
    <2>1. HandlerSound(j)
      BY DEF FaucetInv
    <2>2. CASE j = h
      BY <1>2, <1>4, <2>2 DEF HandlerSound, Working
    <2>3. CASE j # h /\ ~Working(j)
      BY <1>4, <2>1, <2>3 DEF HandlerSound, Working
    <2>4. CASE j # h /\ Working(j)
      <3>1. /\ claim'[handler[j].for] = claim[handler[j].for]
            /\ attempt'[handler[j].attempt] = attempt[handler[j].attempt] /\ handler'[j] = handler[j]
        BY <1>4, <1>5, <2>4
      <3>2. handler[j].attempt # 0
        BY <1>5, <2>4, FaucetAssumption DEF Attempts
      <3>3. \A i \in Handlers : handler'[i].attempt = handler[j].attempt => i = j
        BY <1>2, <1>4, <2>4, <3>2, WorkingOnRow
      <3>4. QED
        BY <2>1, <2>4, <3>1, <3>3 DEF HandlerSound, Working
    <2>5. QED
      BY <2>2, <2>3, <2>4
  <1>7. ASSUME NEW m \in Attempts PROVE AttemptSound(m)'
    <2>1. CASE m = n
      BY <1>1, <1>4, <2>1 DEF AttemptSound
    <2>2. CASE m # n
      <3>1. AttemptSound(m) /\ attempt'[m] = attempt[m] /\ transfer' = transfer
        BY <1>4, <2>2 DEF FaucetInv
      <3>2. attempt[m].account = a => attempt[m].end \notin {"open", "completed"}
        BY <1>1, <2>2, <3>1 DEF AttemptSound
      <3>3. attempt[m].account \in Claimants \ {a} => claim'[attempt[m].account] = claim[attempt[m].account]
        BY <1>4
      <3>4. \A j \in Handlers : Working(j) /\ handler[j].attempt = m =>
               Working(j)' /\ handler'[j].attempt = m
        BY <1>1, <1>4, <2>2 DEF Working
      <3>5. attempt[m].account \in Claimants \cup {NoClaimant}
        BY DEF FaucetInv, FaucetTypeOK
      <3>6. CASE attempt[m].account = a
        BY <1>1, <3>1, <3>2, <3>6 DEF AttemptSound
      <3>7. CASE attempt[m].account = NoClaimant
        BY <3>1, <3>7 DEF AttemptSound
      <3>8. CASE attempt[m].account \in Claimants \ {a}
        BY <3>1, <3>3, <3>4, <3>8 DEF AttemptSound
      <3>9. QED
        BY <3>5, <3>6, <3>7, <3>8
    <2>3. QED
      BY <2>1, <2>2
  <1>8. ASSUME NEW b \in Claimants PROVE ClaimSound(b)'
    <2>1. ClaimSound(b) /\ \A m \in Attempts : attempt'[m].account = attempt[m].account
      BY <1>1, <1>4 DEF FaucetInv
    <2>2. CASE b = a
      BY <1>1, <1>4, <2>1, <2>2 DEF ClaimSound
    <2>3. CASE b # a
      BY <1>4, <2>1, <2>3 DEF ClaimSound
    <2>4. QED
      BY <2>2, <2>3
  <1>9. QED
    BY <1>3, <1>6, <1>7, <1>8 DEF FaucetInv

\* How Unrecorded ends an attempt.
LEMMA UnrecordedEnds ==
  ASSUME NEW n, Unrecorded(n)
  PROVE  \E e \in {"completed", "doubtful", "failed"} :
           /\ attempt' = [attempt EXCEPT ![n].end = e] /\ e # "completed"
           /\ e = "failed" => transfer[n].state \in {"none", "built"}
  BY DEF Unrecorded

LEMMA FaucetStep ==
  ASSUME ReservationsOutlive
  PROVE  FaucetInv /\ [FaucetNext]_faucetVars => FaucetInv'
  <1> SUFFICES ASSUME FaucetInv, [FaucetNext]_faucetVars PROVE FaucetInv'
    OBVIOUS
  <1>0. FaucetTypeOK
    BY DEF FaucetInv
  <1>1. CASE UNCHANGED faucetVars
    BY <1>1 DEF faucetVars, FaucetInv, FaucetTypeOK, HandlerSound, AttemptSound, ClaimSound, Working
  <1>2. CASE FaucetTick
    <2>1. /\ time' = time + 1 /\ UNCHANGED <<claim, attempt, transfer, handler, fund>> /\ time < MaxTime
          /\ \A h \in Handlers :
               /\ handler[h].at = "sending" => time < handler[h].since + SendTimeout
               /\ handler[h].at \in {"clear", "complete"} => time < handler[h].since + StoreTimeout
      BY <1>2 DEF FaucetTick
    <2>2. FaucetTypeOK'
      BY <1>0, <2>1, FaucetAssumption DEF FaucetTypeOK
    <2>3. ASSUME NEW h \in Handlers PROVE HandlerSound(h)'
      <3>1. HandlerSound(h)
        BY DEF FaucetInv
      <3>2. CASE ~Working(h)
        BY <2>1, <3>1, <3>2 DEF HandlerSound, Working
      <3>3. CASE Working(h)
        <4>1. handler[h].since <= time => handler[h].since <= time'
          BY <2>1, FaucetNumbers
        <4>2. handler[h].at = "sending" => time' <= handler[h].since + SendTimeout
          BY <2>1, FaucetNumbers
        <4>3. handler[h].at # "sending" => time' <= handler[h].since + StoreTimeout
          BY <2>1, <3>3, FaucetNumbers DEF Working
        <4>4. QED
          BY <2>1, <3>1, <3>3, <4>1, <4>2, <4>3 DEF HandlerSound, Working
      <3>4. QED
        BY <3>2, <3>3
    <2>4. (\A n \in Attempts : AttemptSound(n)') /\ \A a \in Claimants : ClaimSound(a)'
      BY <2>1 DEF FaucetInv, AttemptSound, ClaimSound, Working
    <2>5. QED
      BY <2>2, <2>3, <2>4 DEF FaucetInv
  <1>3. ASSUME NEW n \in Attempts, Land(n) PROVE FaucetInv'
    <2>1. /\ transfer[n].state = "sent" /\ fund > 0 /\ fund' = fund - 1
          /\ transfer' = [transfer EXCEPT ![n].state = "landed"]
          /\ UNCHANGED <<time, claim, attempt, handler>>
      BY <1>3 DEF Land, CanLand
    <2>2. FaucetTypeOK'
      BY <1>0, <2>1, FaucetAssumption DEF FaucetTypeOK
    <2>3. /\ transfer'[n].state = "landed" /\ transfer'[n].blockhash = transfer[n].blockhash
          /\ \A m \in Attempts : m # n => transfer'[m] = transfer[m]
      BY <1>0, <2>1 DEF FaucetTypeOK
    <2>4. \A h \in Handlers : HandlerSound(h)'
      BY <2>1 DEF FaucetInv, HandlerSound, Working
    <2>5. ASSUME NEW m \in Attempts PROVE AttemptSound(m)'
      <3>1. AttemptSound(m)
        BY DEF FaucetInv
      <3>2. CASE m = n
        BY <2>1, <3>1, <3>2 DEF AttemptSound, Working
      <3>3. CASE m # n
        BY <2>1, <2>3, <3>1, <3>3 DEF AttemptSound, Working
      <3>4. QED
        BY <3>2, <3>3
    <2>6. ASSUME NEW a \in Claimants PROVE ClaimSound(a)'
      <3>1. ClaimSound(a)
        BY DEF FaucetInv
      <3>2. CASE claim[a].by = n
        BY <2>1, <2>3, <3>1, <3>2 DEF ClaimSound
      <3>3. CASE claim[a].by # n
        BY <2>1, <2>3, <3>1, <3>3 DEF ClaimSound
      <3>4. QED
        BY <3>2, <3>3
    <2>7. QED
      BY <2>2, <2>4, <2>5, <2>6 DEF FaucetInv
  <1>4. ASSUME NEW h \in Handlers, NEW a \in Claimants, CheckClaim(h, a) PROVE FaucetInv'
    <2>1. ~Working(h)
      BY <1>4 DEF CheckClaim, Working
    <2>2. [Idle EXCEPT !.at = "checked", !.for = a]
            \in [at : {"idle", "checked"}, for : Claimants \cup {NoClaimant}, attempt : {0}, since : {0}]
      BY DEF Idle
    <2>3. [Idle EXCEPT !.at = "checked", !.for = a].for = a
      BY DEF Idle
    <2>4. QED
      BY <1>4, <2>1, <2>2, <2>3, BystanderMoves DEF CheckClaim
  <1>5. ASSUME NEW h \in Handlers, ClaimRefused(h) PROVE FaucetInv'
    <2>1. ~Working(h)
      BY <1>5 DEF ClaimRefused, Working
    <2>2. /\ Idle \in [at : {"idle", "checked"}, for : Claimants \cup {NoClaimant}, attempt : {0}, since : {0}]
          /\ Idle.at # "checked"
      BY DEF Idle
    <2>3. QED
      BY <1>5, <2>1, <2>2, BystanderMoves DEF ClaimRefused
  <1>6. ASSUME NEW h \in Handlers, handler[h].at = "sending"
        PROVE  /\ Working(h) /\ handler[h].attempt \in Attempts /\ time \in 0 .. MaxTime
               /\ time <= claim[handler[h].for].claimedAt + SendTimeout
               /\ transfer[handler[h].attempt] \in
                    [state : {"none", "built", "sent", "landed"}, blockhash : 0 .. MaxTime]
               /\ transfer[handler[h].attempt].state # "none" =>
                    transfer[handler[h].attempt].blockhash <= claim[handler[h].for].claimedAt + SendTimeout
    <2>1. Working(h)
      BY <1>6 DEF Working
    <2>2. /\ handler[h].attempt \in Attempts /\ handler[h].for \in Claimants
          /\ claim[handler[h].for].by = handler[h].attempt /\ claim[handler[h].for].state = "pending"
      BY <2>1, WorkingOnRow
    <2>3. HandlerSound(h) /\ ClaimSound(handler[h].for)
      BY <2>2 DEF FaucetInv
    <2>4. QED
      BY <1>0, <1>6, <2>1, <2>2, <2>3 DEF HandlerSound, ClaimSound, FaucetTypeOK
  <1>7. ASSUME NEW h \in Handlers, LatestBlockhash(h) PROVE FaucetInv'
    <2>1. handler[h].at = "sending" /\ UNCHANGED <<time, claim, attempt, handler, fund>>
            /\ transfer' = [transfer EXCEPT ![handler[h].attempt] = [state |-> "built", blockhash |-> time]]
      BY <1>7 DEF LatestBlockhash
    <2>2. QED
      BY <1>6, <2>1, SendKeeps
  <1>8. ASSUME NEW h \in Handlers, handler[h].at = "sending", Turn(h, "clear") \/ Turn(h, "complete"),
               \/ UNCHANGED transfer
               \/ /\ transfer[handler[h].attempt].state = "built"
                  /\ transfer' = [transfer EXCEPT ![handler[h].attempt].state = "sent"],
               UNCHANGED <<time, claim, attempt, fund>>
        PROVE  FaucetInv'
    <2> DEFINE t == transfer[handler[h].attempt]
    <2>1. CASE UNCHANGED transfer
      <3>1. transfer' = [transfer EXCEPT ![handler[h].attempt] = t]
        BY <1>0, <1>6, <1>8, <2>1 DEF FaucetTypeOK
      <3>2. QED
        BY <1>6, <1>8, <3>1, SendKeeps
    <2>2. CASE /\ t.state = "built"
               /\ transfer' = [transfer EXCEPT ![handler[h].attempt].state = "sent"]
      <3>1. transfer' = [transfer EXCEPT ![handler[h].attempt] = [t EXCEPT !.state = "sent"]]
        BY <2>2
      <3>2. /\ [t EXCEPT !.state = "sent"] \in
                  [state : {"none", "built", "sent", "landed"}, blockhash : 0 .. MaxTime]
            /\ [t EXCEPT !.state = "sent"].blockhash = t.blockhash
        BY <1>6, <1>8
      <3>3. t.blockhash <= claim[handler[h].for].claimedAt + SendTimeout
        BY <1>6, <1>8, <2>2
      <3>4. QED
        BY <1>8, <3>1, <3>2, <3>3, SendKeeps
    <2>3. QED
      BY <1>8, <2>1, <2>2
  <1>9. ASSUME NEW h \in Handlers, SendTransaction(h) \/ SendFails(h) PROVE FaucetInv'
    BY <1>8, <1>9 DEF SendTransaction, SendFails
  <1>10. ASSUME NEW h \in Handlers, Working(h)
         PROVE  claim[handler[h].for] \in [state : {"none", "pending", "completed"},
                                           by : 0 .. MaxAttempts, claimedAt : 0 .. MaxTime]
    BY <1>0, <1>10, WorkingOnRow DEF FaucetTypeOK
  <1>11. ASSUME NEW h \in Handlers, ClearFaucetClaim(h) PROVE FaucetInv'
    <2>1. Working(h) /\ Unrecorded(handler[h].attempt) /\ handler' = [handler EXCEPT ![h] = Idle]
            /\ UNCHANGED <<time, transfer, fund>>
      BY <1>11 DEF ClearFaucetClaim, Working
    <2>2. claim' = [claim EXCEPT ![handler[h].for] = NoClaim]
      BY <1>11, <2>1, WorkingOnRow DEF ClearFaucetClaim
    <2>3. NoClaim \in [state : {"none", "pending", "completed"}, by : 0 .. MaxAttempts, claimedAt : 0 .. MaxTime]
            /\ NoClaim.state # "pending"
      BY FaucetAssumption DEF NoClaim
    <2>4. PICK e \in {"completed", "doubtful", "failed"} :
            /\ attempt' = [attempt EXCEPT ![handler[h].attempt].end = e] /\ e # "completed"
            /\ e = "failed" => transfer[handler[h].attempt].state \in {"none", "built"}
      BY <2>1, UnrecordedEnds
    <2>5. QED
      BY <2>1, <2>2, <2>3, <2>4, EndKeeps
  <1>12. ASSUME NEW h \in Handlers, CompleteFaucetClaim(h) PROVE FaucetInv'
    <2> DEFINE a == handler[h].for
               n == handler[h].attempt
               c == [claim[a] EXCEPT !.state = "completed", !.by = n]
    <2>1. Working(h) /\ Completable(a) /\ n \in Attempts
      BY <1>12, WorkingOnRow DEF CompleteFaucetClaim, Working, Completable
    <2>2. /\ claim' = [claim EXCEPT ![a].state = "completed", ![a].by = n]
          /\ attempt' = [attempt EXCEPT ![n].end = "completed"]
          /\ handler' = [handler EXCEPT ![h] = Idle] /\ UNCHANGED <<time, transfer, fund>>
      BY <1>12, <2>1 DEF CompleteFaucetClaim
    <2>3. claim' = [claim EXCEPT ![a] = c]
      BY <1>0, <2>1, <2>2, WorkingOnRow DEF FaucetTypeOK
    <2>4. c \in [state : {"none", "pending", "completed"}, by : 0 .. MaxAttempts, claimedAt : 0 .. MaxTime]
            /\ c.state = "completed" /\ c.by = n
      <3>1. n \in 0 .. MaxAttempts
        BY <2>1, FaucetAssumption DEF Attempts
      <3>2. claim[a] \in [state : {"none", "pending", "completed"}, by : 0 .. MaxAttempts, claimedAt : 0 .. MaxTime]
        BY <1>10, <2>1
      <3> HIDE DEF n, a
      <3>3. QED
        BY <3>1, <3>2
    <2>5. QED
      BY <2>1, <2>2, <2>3, <2>4, EndKeeps
  <1>13. ASSUME NEW h \in Handlers, ClaimAborts(h) PROVE FaucetInv'
    <2>1. Working(h) /\ Unrecorded(handler[h].attempt) /\ handler' = [handler EXCEPT ![h] = Idle]
            /\ UNCHANGED <<time, claim, transfer, fund>>
      BY <1>13 DEF ClaimAborts, Working
    <2>2. claim' = [claim EXCEPT ![handler[h].for] = claim[handler[h].for]]
      BY <1>0, <2>1, WorkingOnRow DEF FaucetTypeOK
    <2>3. PICK e \in {"completed", "doubtful", "failed"} :
            /\ attempt' = [attempt EXCEPT ![handler[h].attempt].end = e] /\ e # "completed"
            /\ e = "failed" => transfer[handler[h].attempt].state \in {"none", "built"}
      BY <2>1, UnrecordedEnds
    <2>4. QED
      BY <1>10, <2>1, <2>2, <2>3, EndKeeps
  <1>14. QED
    BY <1>1, <1>2, <1>3, <1>4, <1>5, <1>7, <1>9, <1>11, <1>12, <1>13, ReserveKeeps DEF FaucetNext

\* For any number of accounts, claims, replicas and crashes: when a reservation
\* outlives a send, what its handler does after it and the blockhash, the
\* faucet pays an account once, not counting attempts that ended in doubt, and
\* a row is taken over only when its attempt can no longer pay.
THEOREM FaucetPaysAccountsOnce ==
  ASSUME ReservationsOutlive
  PROVE  FaucetSpec => []FaucetPaysOnce
  <1>1. FaucetInv => FaucetPaysOnce
    <2> SUFFICES ASSUME FaucetInv PROVE FaucetPaysOnce
      OBVIOUS
    <2>1. ASSUME NEW a \in Claimants
          PROVE  Cardinality({n \in Attempts : /\ attempt[n].account = a
                                               /\ transfer[n].state = "landed"
                                               /\ attempt[n].end # "doubtful"}) <= 1
      <3> DEFINE P == {n \in Attempts : /\ attempt[n].account = a
                                        /\ transfer[n].state = "landed"
                                        /\ attempt[n].end # "doubtful"}
      <3>1. ASSUME NEW n \in P PROVE n = claim[a].by
        <4>1. AttemptSound(n) /\ attempt[n].account = a /\ a # NoClaimant
          BY FaucetAssumption DEF FaucetInv
        <4>2. attempt[n].end \in {"open", "completed", "failed"}
          BY DEF FaucetInv, FaucetTypeOK
        <4>3. QED
          BY <4>1, <4>2 DEF AttemptSound
      <3>2. P \in SUBSET {claim[a].by}
        BY <3>1
      <3>3. IsFiniteSet({claim[a].by}) /\ Cardinality({claim[a].by}) = 1
        BY FS_Singleton
      <3>4. QED
        BY <3>2, <3>3, FS_Subset
    <2>2. PaidOnce
      BY <2>1 DEF PaidOnce
    <2>3. TakeoverIsLate
      BY StaleIsOver DEF TakeoverIsLate
    <2>4. QED
      BY <2>2, <2>3 DEF FaucetPaysOnce
  <1>2. QED
    BY <1>1, FaucetStarts, FaucetStep, PTL DEF FaucetSpec

-----------------------------------------------------------------------------
(* Deposits: the inductive invariant.                                      *)

\* The transfer of x in signature i is persisted and, if its wallet is linked,
\* credited, about to be credited by a link handler, or given up by one.
Handled(i, x) ==
  /\ event[<<i, x>>] # "none"
  /\ event[<<i, x>>] = "unassigned" /\ link[x] # Nobody
       => <<link[x], x>> \in linking \/ x \in abandoned

\* An event has an account exactly when it is assigned.
EventsSound == \A e \in Events : event[e] = "assigned" <=> assignee[e] # Nobody

\* The places of a pass with a signature in hand, and with its transaction.
InHand == {"fetch", "insert", "lookup", "apply", "done"}
Fetched == {"insert", "lookup", "apply", "done"}

\* A pass works through a run of consecutive signatures that starts right
\* after the cursor it believes in, until it fails on one; of the transaction
\* in hand, the transfers no longer to do are handled.
PassSound(w) ==
  /\ at[w] \in InHand => pending[w] # {}
  /\ \A i, k \in pending[w] : \A j \in i .. k : j \in pending[w]
  /\ at[w] \in InHand /\ ~blocked[w] /\ base[w] # 0 => Oldest(w) <= base[w] + 1
  /\ at[w] \in Fetched => \A x \in chain[Oldest(w)] \ todo[w] : Handled(Oldest(w), x)
  /\ at[w] \in {"lookup", "apply"} => from[w] \in todo[w] /\ event[Current(w)] # "none"
  /\ at[w] = "apply" => account[w] \in Accounts
  /\ at[w] = "done" => todo[w] = {}

PassesSound == \A w \in Watchers : PassSound(w)

\* What the cursor has passed is handled.
CursorSound ==
  /\ cursor = 0 => start = 0
  /\ \A i \in 1 .. cursor : Followed(i) => \A x \in chain[i] : Handled(i, x)

DepositsInv ==
  /\ TypeOK
  /\ EventsSound
  /\ PassesSound
  /\ CursorSound

-----------------------------------------------------------------------------
(* The signature in hand.                                                  *)

LEMMA MinInSet ==
  ASSUME NEW S \in SUBSET Nat, S # {}
  PROVE  Min(S) \in S /\ \A y \in S : Min(S) <= y
  <1>1. PICK n \in S : \A m \in S : ~(<<m, n>> \in OpToRel(<, Nat))
    BY NatLessThanWellFounded, WFMin
  <1>2. ASSUME NEW m \in S PROVE n <= m
    <2>1. m \in Nat /\ n \in Nat
      OBVIOUS
    <2>2. ~(m < n)
      BY <1>1, <2>1 DEF OpToRel
    <2>3. QED
      BY <2>1, <2>2
  <1>3. QED
    BY <1>2 DEF Min

LEMMA OldestIn ==
  ASSUME TypeOK, NEW w \in Watchers, pending[w] # {}
  PROVE  /\ Oldest(w) \in pending[w] /\ \A i \in pending[w] : Oldest(w) <= i
         /\ Oldest(w) \in 1 .. Len(chain) /\ Oldest(w) \in Signatures
         /\ chain[Oldest(w)] \subseteq Wallets
  <1>1. pending[w] \subseteq 1 .. Len(chain) /\ Len(chain) \in Nat /\ Len(chain) <= MaxChain
    BY DEF TypeOK
  <1>2. pending[w] \in SUBSET Nat
    BY <1>1
  <1>3. Oldest(w) \in pending[w] /\ \A i \in pending[w] : Oldest(w) <= i
    BY <1>2, MinInSet DEF Oldest
  <1>4. Oldest(w) \in 1 .. Len(chain) /\ Oldest(w) \in Signatures
    BY <1>1, <1>3, DepositsAssumption DEF Signatures
  <1>5. QED
    BY <1>3, <1>4 DEF TypeOK

\* The event in hand.
LEMMA CurrentIn ==
  ASSUME DepositsInv, NEW w \in Watchers, at[w] \in {"lookup", "apply"}
  PROVE  /\ Current(w) \in Events /\ from[w] \in Wallets /\ pending[w] # {}
         /\ Current(w) = <<Oldest(w), from[w]>>
  <1>1. pending[w] # {} /\ from[w] \in todo[w]
    BY DEF DepositsInv, PassesSound, PassSound, InHand
  <1>2. from[w] \in Wallets
    BY <1>1 DEF DepositsInv, TypeOK
  <1>3. Oldest(w) \in Signatures
    BY <1>1, OldestIn DEF DepositsInv
  <1>4. QED
    BY <1>1, <1>2, <1>3 DEF Current, Events

-----------------------------------------------------------------------------
(* Types.                                                                  *)

PassTypes ==
  /\ at \in [Watchers -> Places]
  /\ base \in [Watchers -> 0 .. Len(chain)]
  /\ pending \in [Watchers -> SUBSET (1 .. Len(chain))]
  /\ blocked \in [Watchers -> BOOLEAN]
  /\ todo \in [Watchers -> SUBSET Wallets]
  /\ from \in [Watchers -> Wallets \cup {NoWallet}]
  /\ account \in [Watchers -> Accounts \cup {Nobody}]

StoreTypes ==
  /\ event \in [Events -> {"none", "unassigned", "assigned"}]
  /\ assignee \in [Events -> Accounts \cup {Nobody}]
  /\ credit \in [Accounts -> Nat]
  /\ cursor \in 0 .. Len(chain)
  /\ link \in [Wallets -> Accounts \cup {Nobody}]
  /\ linking \subseteq Accounts \X Wallets
  /\ abandoned \subseteq Wallets
  /\ start \in 0 .. Len(chain)

LEMMA TypeParts ==
  TypeOK <=> /\ chain \in Seq(SUBSET Wallets) /\ Len(chain) <= MaxChain
             /\ StoreTypes /\ PassTypes
  BY DEF TypeOK, StoreTypes, PassTypes

LEMMA EndPassType ==
  ASSUME TypeOK, NEW w \in Watchers, EndPass(w), UNCHANGED chain
  PROVE  PassTypes'
  <1>1. Len(chain) \in Nat
    BY DEF TypeOK
  <1>2. QED
    BY <1>1 DEF TypeOK, EndPass, Go, ClearTransaction, PassTypes, Places

LEMMA NextSignatureType ==
  ASSUME TypeOK, NEW w \in Watchers, NEW b \in 0 .. Len(chain), NEW f \in BOOLEAN,
         NextSignature(w, b, f), UNCHANGED chain
  PROVE  PassTypes'
  <1>1. CASE pending[w] \ {Oldest(w)} = {}
    BY <1>1, EndPassType DEF NextSignature
  <1>2. CASE pending[w] \ {Oldest(w)} # {}
    <2> DEFINE rest == pending[w] \ {Oldest(w)}
    <2>1. /\ at' = [at EXCEPT ![w] = "fetch"] /\ base' = [base EXCEPT ![w] = b]
          /\ pending' = [pending EXCEPT ![w] = rest] /\ blocked' = [blocked EXCEPT ![w] = f]
          /\ ClearTransaction(w)
      BY <1>2 DEF NextSignature, Go
    <2>2. rest \in SUBSET (1 .. Len(chain))
      BY DEF TypeOK
    <2> HIDE DEF rest
    <2>3. QED
      BY <2>1, <2>2 DEF TypeOK, ClearTransaction, PassTypes, Places
  <1>3. QED
    BY <1>1, <1>2

LEMMA NextTransferType ==
  ASSUME TypeOK, NEW w \in Watchers, NextTransfer(w), UNCHANGED <<chain, base, pending, blocked>>
  PROVE  PassTypes'
  BY DEF TypeOK, NextTransfer, Go, PassTypes, Places

LEMMA EventsFinite == IsFiniteSet(Events)
  <1>1. IsFiniteSet(Signatures)
    BY FS_Interval, DepositsAssumption DEF Signatures
  <1>2. QED
    BY <1>1, FS_Product, DepositsAssumption DEF Events

LEMMA CreditType ==
  ASSUME TypeOK, NEW es \in SUBSET Events, NEW a \in Accounts, CreditDeposits(es, a)
  PROVE  /\ event' \in [Events -> {"none", "unassigned", "assigned"}]
         /\ assignee' \in [Events -> Accounts \cup {Nobody}]
         /\ credit' \in [Accounts -> Nat]
         /\ Cardinality(es) \in Nat
  <1>1. Cardinality(es) \in Nat
    BY EventsFinite, FS_Subset, FS_CardinalityType
  <1>2. credit' \in [Accounts -> Nat]
    BY <1>1 DEF CreditDeposits, TypeOK
  <1>3. QED
    BY <1>1, <1>2 DEF CreditDeposits, TypeOK

LEMMA TypeStep ==
  ASSUME DepositsInv, [Next]_vars
  PROVE  TypeOK'
  <1>0. TypeOK /\ Len(chain) \in Nat
    BY DEF DepositsInv, TypeOK
  <1>1. ASSUME UNCHANGED <<chain, storeVars, linkVars, start>>, PassTypes' PROVE TypeOK'
    BY <1>0, <1>1 DEF TypeOK, PassTypes, storeVars, linkVars
  <1>2. ASSUME UNCHANGED <<chain, passVars>>, StoreTypes' PROVE TypeOK'
    BY <1>0, <1>2 DEF TypeOK, StoreTypes, passVars
  <1>3. ASSUME NEW senders \in SUBSET Wallets, Transfer(senders) PROVE TypeOK'
    <2>1. /\ chain' \in Seq(SUBSET Wallets) /\ Len(chain') = Len(chain) + 1
          /\ Len(chain) + 1 <= MaxChain
      BY <1>0, <1>3, DepositsAssumption DEF Transfer, TypeOK
    <2>2. 0 .. Len(chain) \subseteq 0 .. Len(chain') /\ 1 .. Len(chain) \subseteq 1 .. Len(chain')
      BY <1>0, <2>1
    <2>3. UNCHANGED <<storeVars, linkVars, passVars, start>>
      BY <1>3 DEF Transfer
    <2>4. PassTypes'
      BY <1>0, <2>2, <2>3 DEF TypeOK, PassTypes, passVars
    <2>5. StoreTypes'
      BY <1>0, <2>2, <2>3 DEF TypeOK, StoreTypes, storeVars, linkVars
    <2>6. QED
      BY <2>1, <2>4, <2>5 DEF TypeOK, PassTypes, StoreTypes
  <1>4. ASSUME NEW w \in Watchers, DepositCursor(w) PROVE TypeOK'
    BY <1>0, <1>4 DEF DepositCursor, Go, TypeOK, Places, storeVars, linkVars
  <1>5. ASSUME NEW w \in Watchers, GetSignaturesForAddress(w) PROVE TypeOK'
    <2>1. PICK n \in 0 .. Len(chain) :
            \/ EndPass(w)
            \/ /\ Go(w, "fetch")
               /\ pending' = [pending EXCEPT ![w] = Candidates(base[w], n)]
               /\ UNCHANGED <<base, blocked, todo, from, account>>
      BY <1>5 DEF GetSignaturesForAddress
    <2>2. UNCHANGED <<chain, storeVars, linkVars, start>>
      BY <1>5 DEF GetSignaturesForAddress
    <2>3. Candidates(base[w], n) \subseteq 1 .. Len(chain)
      BY <1>0 DEF Candidates
    <2>4. CASE EndPass(w)
      BY <1>0, <1>1, <2>2, <2>4, EndPassType
    <2> DEFINE span == Candidates(base[w], n)
    <2> HIDE DEF span
    <2>5. CASE /\ Go(w, "fetch") /\ pending' = [pending EXCEPT ![w] = span]
               /\ UNCHANGED <<base, blocked, todo, from, account>>
      <3>1. span \subseteq 1 .. Len(chain)
        BY <2>3 DEF span
      <3>2. PassTypes'
        BY <1>0, <2>2, <2>5, <3>1 DEF TypeOK, PassTypes, Go, Places
      <3>3. QED
        BY <1>1, <2>2, <3>2
    <2>6. QED
      BY <2>1, <2>4, <2>5 DEF span
  <1>6. ASSUME NEW w \in Watchers, GetTransaction(w) PROVE TypeOK'
    <2>1. pending[w] # {}
      BY <1>6 DEF GetTransaction, DepositsInv, PassesSound, PassSound, InHand
    <2>2. chain[Oldest(w)] \subseteq Wallets
      BY <1>0, <2>1, OldestIn
    <2>3. PassTypes'
      BY <1>0, <1>6, <2>2 DEF GetTransaction, Go, TypeOK, PassTypes, Places
    <2>4. QED
      BY <1>1, <1>6, <2>3 DEF GetTransaction
  <1>7. ASSUME NEW w \in Watchers, NEW x \in Wallets, InsertDepositEvent(w, x) PROVE TypeOK'
    BY <1>0, <1>7 DEF InsertDepositEvent, Go, TypeOK, Places, linkVars
  <1>8. ASSUME NEW w \in Watchers, AccountForWallet(w) PROVE TypeOK'
    <2>1. from[w] \in Wallets
      BY <1>8, CurrentIn DEF AccountForWallet
    <2>2. UNCHANGED <<chain, base, pending, blocked>>
      BY <1>8 DEF AccountForWallet
    <2>3. PassTypes'
      BY <1>0, <1>8, <2>1, <2>2, NextTransferType
      DEF AccountForWallet, Go, TypeOK, PassTypes, Places
    <2>4. QED
      BY <1>1, <1>8, <2>3 DEF AccountForWallet
  <1>9. ASSUME NEW w \in Watchers, ApplyDeposit(w) PROVE TypeOK'
    <2>1. account[w] \in Accounts /\ Current(w) \in Events
      BY <1>9, CurrentIn DEF ApplyDeposit, DepositsInv, PassesSound, PassSound
    <2>2. UNCHANGED <<chain, cursor, link, linkVars, start>>
      BY <1>9 DEF ApplyDeposit
    <2>3. StoreTypes'
      <3>1. CASE Creditable(Current(w))
        <4>1. CreditDeposits({Current(w)}, account[w]) /\ {Current(w)} \in SUBSET Events
          BY <1>9, <2>1, <3>1 DEF ApplyDeposit
        <4>2. QED
          BY <1>0, <2>1, <2>2, <4>1, CreditType DEF TypeOK, StoreTypes, linkVars
      <3>2. CASE ~Creditable(Current(w))
        BY <1>0, <1>9, <2>2, <3>2 DEF ApplyDeposit, TypeOK, StoreTypes, linkVars
      <3>3. QED
        BY <3>1, <3>2
    <2>4. base[w] \in 0 .. Len(chain)
      BY <1>0 DEF TypeOK
    <2>5. PassTypes'
      BY <1>0, <1>9, <2>2, <2>4, NextTransferType, NextSignatureType DEF ApplyDeposit
    <2>6. QED
      BY <1>0, <2>2, <2>3, <2>5 DEF TypeOK, StoreTypes, PassTypes
  <1>10. ASSUME NEW w \in Watchers, AdvanceDepositCursor(w) PROVE TypeOK'
    <2>1. pending[w] # {}
      BY <1>10 DEF AdvanceDepositCursor, DepositsInv, PassesSound, PassSound, InHand
    <2>2. Oldest(w) \in 0 .. Len(chain) /\ base[w] \in 0 .. Len(chain) /\ cursor \in 0 .. Len(chain)
      BY <1>0, <2>1, OldestIn DEF TypeOK
    <2>3. UNCHANGED <<chain, event, assignee, credit, link, linkVars>>
      BY <1>10 DEF AdvanceDepositCursor
    <2>4. PassTypes'
      BY <1>0, <1>10, <2>2, <2>3, NextSignatureType, EndPassType DEF AdvanceDepositCursor
    <2>5. cursor' \in {cursor, Oldest(w)} /\ start' \in {start, cursor'}
      BY <1>10 DEF AdvanceDepositCursor
    <2>6. StoreTypes'
      BY <1>0, <2>2, <2>3, <2>5 DEF TypeOK, StoreTypes, linkVars
    <2>7. QED
      BY <1>0, <2>3, <2>4, <2>6 DEF TypeOK, StoreTypes, PassTypes
  <1>11. ASSUME NEW w \in Watchers, SignatureFails(w) \/ PassFails(w) PROVE TypeOK'
    <2>1. base[w] \in 0 .. Len(chain)
      BY <1>0 DEF TypeOK
    <2>2. QED
      BY <1>0, <1>1, <1>11, <2>1, NextSignatureType, EndPassType DEF SignatureFails, PassFails
  <1>12. ASSUME NEW a \in Accounts, NEW x \in Wallets, LinkWallet(a, x) \/ AbandonReconcile(a, x)
         PROVE  TypeOK'
    BY <1>0, <1>12 DEF LinkWallet, AbandonReconcile, TypeOK, passVars, storeVars
  <1>13. ASSUME NEW a \in Accounts, NEW x \in Wallets, ReconcileDepositsForWallet(a, x)
         PROVE  TypeOK'
    <2>1. CreditDeposits({e \in Events : Reconcilable(e, x)}, a)
      BY <1>13 DEF ReconcileDepositsForWallet
    <2>2. {e \in Events : Reconcilable(e, x)} \in SUBSET Events
      OBVIOUS
    <2>3. /\ event' \in [Events -> {"none", "unassigned", "assigned"}]
          /\ assignee' \in [Events -> Accounts \cup {Nobody}] /\ credit' \in [Accounts -> Nat]
      BY <1>0, <2>1, <2>2, CreditType
    <2>4. QED
      BY <1>0, <1>13, <2>3 DEF ReconcileDepositsForWallet, TypeOK, passVars
  <1>14. ASSUME NEW x \in Wallets, DeleteWallet(x) PROVE TypeOK'
    BY <1>0, <1>14 DEF DeleteWallet, TypeOK, linkVars, passVars
  <1>15. CASE UNCHANGED vars
    BY <1>0, <1>15 DEF vars, storeVars, linkVars, passVars, TypeOK
  <1>16. QED
    BY <1>3, <1>4, <1>5, <1>6, <1>7, <1>8, <1>9, <1>10, <1>11, <1>12, <1>13, <1>14, <1>15
    DEF Next, WatcherStep

-----------------------------------------------------------------------------
(* Events.                                                                 *)

LEMMA EventsStep ==
  ASSUME DepositsInv, [Next]_vars
  PROVE  EventsSound'
  <1>0. TypeOK /\ EventsSound
    BY DEF DepositsInv
  <1>1. ASSUME UNCHANGED <<event, assignee>> PROVE EventsSound'
    BY <1>0, <1>1 DEF EventsSound
  <1>2. ASSUME NEW es \in SUBSET Events, NEW a \in Accounts, CreditDeposits(es, a)
        PROVE  EventsSound'
    BY <1>0, <1>2, DepositsAssumption DEF EventsSound, CreditDeposits
  <1>3. ASSUME NEW w \in Watchers, NEW x \in Wallets, InsertDepositEvent(w, x) PROVE EventsSound'
    BY <1>0, <1>3 DEF InsertDepositEvent, EventsSound, TypeOK
  <1>4. ASSUME NEW w \in Watchers, ApplyDeposit(w) PROVE EventsSound'
    <2>1. account[w] \in Accounts /\ {Current(w)} \in SUBSET Events
      BY <1>4, CurrentIn DEF ApplyDeposit, DepositsInv, PassesSound, PassSound
    <2>2. QED
      BY <1>1, <1>2, <1>4, <2>1 DEF ApplyDeposit
  <1>5. ASSUME NEW a \in Accounts, NEW x \in Wallets, ReconcileDepositsForWallet(a, x)
        PROVE  EventsSound'
    BY <1>2, <1>5 DEF ReconcileDepositsForWallet
  <1>6. ASSUME NEW w \in Watchers,
               \/ DepositCursor(w) \/ GetSignaturesForAddress(w) \/ GetTransaction(w)
               \/ AccountForWallet(w) \/ AdvanceDepositCursor(w) \/ SignatureFails(w) \/ PassFails(w)
        PROVE  EventsSound'
    BY <1>1, <1>6 DEF DepositCursor, GetSignaturesForAddress, GetTransaction, AccountForWallet,
                      AdvanceDepositCursor, SignatureFails, PassFails, storeVars
  <1>7. ASSUME NEW x \in Wallets,
               \/ \E a \in Accounts : LinkWallet(a, x) \/ AbandonReconcile(a, x)
               \/ DeleteWallet(x)
        PROVE  EventsSound'
    BY <1>1, <1>7 DEF LinkWallet, AbandonReconcile, DeleteWallet, storeVars
  <1>8. ASSUME (\E senders \in SUBSET Wallets : Transfer(senders)) \/ UNCHANGED vars
        PROVE  EventsSound'
    BY <1>1, <1>8 DEF Transfer, vars, storeVars
  <1>9. QED
    BY <1>3, <1>4, <1>5, <1>6, <1>7, <1>8 DEF Next, WatcherStep

\* Nothing persisted is lost, and what was handled stays handled: a handler
\* that stops working for a wallet has credited its events or given up.
Growth ==
  /\ \A i \in 1 .. Len(chain) : chain'[i] = chain[i]
  /\ \A i \in 1 .. Len(chain), x \in Wallets :
       /\ event[<<i, x>>] # "none" => event'[<<i, x>>] # "none"
       /\ Handled(i, x) => Handled(i, x)'

LEMMA EventOf ==
  ASSUME TypeOK, NEW i \in 1 .. Len(chain), NEW x \in Wallets
  PROVE  <<i, x>> \in Events
  BY DepositsAssumption DEF TypeOK, Events, Signatures

LEMMA GrowthStep ==
  ASSUME DepositsInv, [Next]_vars
  PROVE  Growth
  <1>0. TypeOK
    BY DEF DepositsInv
  <1>1. ASSUME UNCHANGED <<chain, event, link, linking, abandoned>> PROVE Growth
    BY <1>1 DEF Growth, Handled
  <1>2. ASSUME UNCHANGED <<chain, link, linking, abandoned>>,
               NEW es \in SUBSET Events, NEW s \in {"unassigned", "assigned"},
               \A e \in es : s = "unassigned" => event[e] = "none",
               \A e \in Events : event'[e] = IF e \in es THEN s ELSE event[e]
        PROVE  Growth
    <2>1. ASSUME NEW i \in 1 .. Len(chain), NEW x \in Wallets
          PROVE  /\ event[<<i, x>>] # "none" => event'[<<i, x>>] # "none"
                 /\ Handled(i, x) => Handled(i, x)'
      <3>1. <<i, x>> \in Events
        BY <1>0, EventOf
      <3>2. QED
        BY <1>2, <3>1 DEF Handled
    <2>2. QED
      BY <1>2, <2>1 DEF Growth
  <1>3. ASSUME NEW senders \in SUBSET Wallets, Transfer(senders) PROVE Growth
    <2>1. UNCHANGED <<event, link, linking, abandoned>>
      BY <1>3 DEF Transfer, storeVars, linkVars
    <2>2. \A i \in 1 .. Len(chain) : chain'[i] = chain[i]
      BY <1>0, <1>3 DEF Transfer, TypeOK
    <2>3. QED
      BY <2>1, <2>2 DEF Growth, Handled
  <1>4. ASSUME NEW w \in Watchers, NEW x \in Wallets, InsertDepositEvent(w, x) PROVE Growth
    <2> DEFINE es == {e \in Events : e = <<Oldest(w), x>> /\ event[e] = "none"}
    <2>1. \A e \in Events : event'[e] = IF e \in es THEN "unassigned" ELSE event[e]
      BY <1>0, <1>4 DEF InsertDepositEvent, TypeOK
    <2>2. UNCHANGED <<chain, link, linking, abandoned>>
      BY <1>4 DEF InsertDepositEvent, linkVars
    <2>3. es \in SUBSET Events /\ \A e \in es : event[e] = "none"
      OBVIOUS
    <2> HIDE DEF es
    <2>4. QED
      BY <1>2, <2>1, <2>2, <2>3
  <1>5. ASSUME NEW w \in Watchers, ApplyDeposit(w) PROVE Growth
    <2>1. UNCHANGED <<chain, link, linking, abandoned>> /\ {Current(w)} \in SUBSET Events
      BY <1>5, CurrentIn DEF ApplyDeposit, linkVars
    <2>2. \/ UNCHANGED event
          \/ event' = [e \in Events |-> IF e \in {Current(w)} THEN "assigned" ELSE event[e]]
      BY <1>5 DEF ApplyDeposit, CreditDeposits
    <2>3. QED
      BY <1>1, <1>2, <2>1, <2>2
  <1>6. ASSUME NEW a \in Accounts, NEW y \in Wallets, ReconcileDepositsForWallet(a, y) PROVE Growth
    <2>1. /\ UNCHANGED <<chain, link>> /\ linking' = linking \ {<<a, y>>}
          /\ abandoned' = abandoned \ {y}
          /\ \A e \in Events : event'[e] = IF e[2] = y /\ event[e] = "unassigned" THEN "assigned"
                                           ELSE event[e]
      BY <1>6 DEF ReconcileDepositsForWallet, CreditDeposits, Reconcilable
    <2>2. ASSUME NEW i \in 1 .. Len(chain), NEW x \in Wallets
          PROVE  /\ event[<<i, x>>] # "none" => event'[<<i, x>>] # "none"
                 /\ Handled(i, x) => Handled(i, x)'
      <3>1. /\ <<i, x>> \in Events
            /\ event'[<<i, x>>] = IF x = y /\ event[<<i, x>>] = "unassigned" THEN "assigned"
                                  ELSE event[<<i, x>>]
        BY <1>0, <2>1, EventOf
      <3>2. QED
        BY <2>1, <3>1 DEF Handled
    <2>3. QED
      BY <2>1, <2>2 DEF Growth
  <1>7. ASSUME NEW a \in Accounts, NEW y \in Wallets, AbandonReconcile(a, y) PROVE Growth
    BY <1>7 DEF AbandonReconcile, storeVars, Growth, Handled
  <1>8. ASSUME NEW a \in Accounts, NEW y \in Wallets, LinkWallet(a, y) PROVE Growth
    BY <1>0, <1>8 DEF LinkWallet, Growth, Handled, TypeOK
  <1>9. ASSUME NEW y \in Wallets, DeleteWallet(y) PROVE Growth
    BY <1>0, <1>9 DEF DeleteWallet, linkVars, Growth, Handled, TypeOK
  <1>10. ASSUME NEW w \in Watchers,
                \/ DepositCursor(w) \/ GetSignaturesForAddress(w) \/ GetTransaction(w)
                \/ AccountForWallet(w) \/ AdvanceDepositCursor(w) \/ SignatureFails(w) \/ PassFails(w)
         PROVE  Growth
    BY <1>1, <1>10 DEF DepositCursor, GetSignaturesForAddress, GetTransaction, AccountForWallet,
                       AdvanceDepositCursor, SignatureFails, PassFails, storeVars, linkVars
  <1>11. CASE UNCHANGED vars
    BY <1>1, <1>11 DEF vars, storeVars, linkVars
  <1>12. QED
    BY <1>3, <1>4, <1>5, <1>6, <1>7, <1>8, <1>9, <1>10, <1>11 DEF Next, WatcherStep

-----------------------------------------------------------------------------
(* Passes.                                                                 *)

\* Worker v has not moved.
Same(v) ==
  /\ at'[v] = at[v] /\ base'[v] = base[v] /\ pending'[v] = pending[v]
  /\ blocked'[v] = blocked[v] /\ todo'[v] = todo[v] /\ from'[v] = from[v]
  /\ account'[v] = account[v]

LEMMA PassKeeps ==
  ASSUME DepositsInv, Growth, NEW v \in Watchers, Same(v)
  PROVE  PassSound(v)'
  <1>0. TypeOK /\ PassSound(v)
    BY DEF DepositsInv, PassesSound
  <1>1. Oldest(v)' = Oldest(v) /\ Current(v)' = Current(v)
    BY DEF Same, Oldest, Current
  <1>2. CASE at[v] \notin InHand
    BY <1>0, <1>2 DEF PassSound, Same, InHand, Fetched
  <1>3. CASE at[v] \in InHand
    <2>1. pending[v] # {}
      BY <1>0, <1>3 DEF PassSound
    <2>2. Oldest(v) \in 1 .. Len(chain) /\ chain[Oldest(v)] \subseteq Wallets
      BY <1>0, <2>1, OldestIn
    <2>3. chain'[Oldest(v)] = chain[Oldest(v)]
      BY <2>2 DEF Growth
    <2>4. at[v] \in Fetched => \A x \in chain[Oldest(v)] \ todo[v] : Handled(Oldest(v), x)'
      BY <1>0, <1>1, <2>2 DEF PassSound, Growth
    <2>5. at[v] \in {"lookup", "apply"} => from[v] \in todo[v] /\ event'[Current(v)] # "none"
      <3>1. from[v] \in todo[v] => from[v] \in Wallets
        BY <1>0 DEF TypeOK
      <3>2. QED
        BY <1>0, <2>2, <3>1 DEF PassSound, Growth, Current
    <2>6. QED
      BY <1>0, <1>1, <2>1, <2>3, <2>4, <2>5 DEF PassSound, Same
  <1>4. QED
    BY <1>2, <1>3

LEMMA OneMoves ==
  ASSUME DepositsInv, Growth, NEW w \in Watchers, PassSound(w)',
         \A v \in Watchers : v # w => Same(v)
  PROVE  PassesSound'
  BY PassKeeps DEF PassesSound

LEMMA EndPassSound ==
  ASSUME TypeOK, NEW w \in Watchers, EndPass(w)
  PROVE  PassSound(w)' /\ \A v \in Watchers : v # w => Same(v)
  <1>1. at'[w] = "idle" /\ pending'[w] = {}
    BY DEF EndPass, Go, TypeOK
  <1>2. PassSound(w)'
    BY <1>1 DEF PassSound, InHand, Fetched
  <1>3. QED
    BY <1>2 DEF EndPass, Go, ClearTransaction, TypeOK, Same

\* The next signature of an unblocked pass is the one after its new cursor.
LEMMA NextSignatureSound ==
  ASSUME DepositsInv, NEW w \in Watchers, pending[w] # {}, NEW b, NEW f,
         NextSignature(w, b, f), f = TRUE \/ b = Oldest(w)
  PROVE  PassSound(w)' /\ \A v \in Watchers : v # w => Same(v)
  <1>0. TypeOK /\ PassSound(w)
    BY DEF DepositsInv, PassesSound
  <1> DEFINE rest == pending[w] \ {Oldest(w)}
  <1>1. CASE rest = {}
    BY <1>0, <1>1, EndPassSound DEF NextSignature
  <1>2. CASE rest # {}
    <2>1. /\ at' = [at EXCEPT ![w] = "fetch"] /\ base' = [base EXCEPT ![w] = b]
          /\ pending' = [pending EXCEPT ![w] = rest] /\ blocked' = [blocked EXCEPT ![w] = f]
          /\ ClearTransaction(w)
      BY <1>2 DEF NextSignature, Go
    <2>2. /\ Oldest(w) \in pending[w] /\ \A i \in pending[w] : Oldest(w) <= i
          /\ pending[w] \subseteq Nat
      BY <1>0, OldestIn DEF TypeOK
    <2>3. \A i, k \in rest : \A j \in i .. k : j \in rest
      <3>1. \A i, k \in pending[w] : \A j \in i .. k : j \in pending[w]
        BY <1>0 DEF PassSound
      <3>2. QED
        BY <2>2, <3>1
    <2>4. Oldest(w) + 1 \in rest
      <3>1. PICK k \in rest : TRUE
        BY <1>2
      <3>2. k \in pending[w] /\ k \in Nat /\ Oldest(w) \in Nat /\ Oldest(w) <= k /\ k # Oldest(w)
        BY <2>2, <3>1
      <3>3. Oldest(w) + 1 \in Oldest(w) .. k
        BY <3>2
      <3>4. Oldest(w) + 1 \in pending[w]
        BY <1>0, <2>2, <3>2, <3>3 DEF PassSound
      <3>5. QED
        BY <2>2, <3>4
    <2>5. rest \in SUBSET Nat
      BY <2>2
    <2> HIDE DEF rest
    <2>6. Min(rest) <= Oldest(w) + 1
      BY <1>2, <2>4, <2>5, MinInSet
    <2>7. at'[w] = "fetch" /\ base'[w] = b /\ pending'[w] = rest /\ blocked'[w] = f
      BY <1>0, <2>1 DEF TypeOK
    <2>8. PassSound(w)'
      BY <1>2, <2>3, <2>6, <2>7 DEF PassSound, InHand, Fetched, Oldest
    <2>9. \A v \in Watchers : v # w => Same(v)
      BY <1>0, <2>1 DEF TypeOK, ClearTransaction, Same
    <2>10. QED
      BY <2>8, <2>9
  <1>3. QED
    BY <1>1, <1>2

\* A handled transfer leaves the list of those to do.
LEMMA NextTransferSound ==
  ASSUME DepositsInv, Growth, NEW w \in Watchers, at[w] \in {"lookup", "apply"}, NextTransfer(w),
         UNCHANGED <<base, pending, blocked>>, NEW y, y = from[w], Handled(Oldest(w), y)'
  PROVE  PassSound(w)' /\ \A v \in Watchers : v # w => Same(v)
  <1>0. TypeOK /\ PassSound(w) /\ pending[w] # {}
    BY CurrentIn DEF DepositsInv, PassesSound
  <1> DEFINE rest == todo[w] \ {from[w]}
  <1>1. /\ todo'[w] = rest /\ at'[w] = IF rest = {} THEN "done" ELSE "insert"
        /\ \A v \in Watchers : v # w => Same(v)
    BY <1>0 DEF NextTransfer, Go, TypeOK, Same
  <1>2. Oldest(w)' = Oldest(w) /\ Oldest(w) \in 1 .. Len(chain) /\ chain[Oldest(w)] \subseteq Wallets
    BY <1>0, OldestIn DEF Oldest
  <1>3. chain'[Oldest(w)] = chain[Oldest(w)]
    BY <1>2 DEF Growth
  <1>4. ASSUME NEW x \in chain[Oldest(w)] \ rest PROVE Handled(Oldest(w), x)'
    <2>1. CASE x \in todo[w]
      <3>1. x = y
        BY <1>4, <2>1
      <3>2. QED
        BY <3>1
    <2>2. CASE x \notin todo[w]
      BY <1>0, <1>2, <1>4, <2>2 DEF PassSound, Fetched, Growth
    <2>3. QED
      BY <2>1, <2>2
  <1>5. QED
    BY <1>0, <1>1, <1>2, <1>3, <1>4 DEF PassSound, InHand, Fetched

\* A page that reaches back to the cursor, or the whole history.
LEMMA CandidatesSound ==
  ASSUME NEW c \in Nat, NEW n \in Nat, NEW S, S = Candidates(c, n), S # {}
  PROVE  /\ S \in SUBSET Nat
         /\ \A i, k \in S : \A j \in i .. k : j \in S
         /\ c # 0 => Min(S) <= c + 1
  <1>1. S \in SUBSET Nat /\ \A i, k \in S : \A j \in i .. k : j \in S
    BY DepositsAssumption DEF Candidates
  <1>2. ASSUME c # 0 PROVE Min(S) <= c + 1
    <2>1. CASE c <= n
      <3>1. S = {i \in 1 .. n : i > c}
        BY <1>2, <2>1 DEF Candidates
      <3>2. c + 1 \in S
        BY <3>1
      <3>3. QED
        BY <1>1, <3>2, MinInSet
    <2>2. CASE ~(c <= n)
      <3>1. S = 1 .. n
        BY <1>2, <2>2 DEF Candidates
      <3>2. 1 \in S
        BY <3>1
      <3>3. Min(S) <= 1 /\ Min(S) \in Nat
        BY <1>1, <3>2, MinInSet
      <3>4. QED
        BY <3>3
    <2>3. QED
      BY <2>1, <2>2
  <1>3. QED
    BY <1>1, <1>2

LEMMA PassesStep ==
  ASSUME DepositsInv, [Next]_vars
  PROVE  PassesSound'
  <1>0. TypeOK /\ Growth /\ \A w \in Watchers : PassSound(w)
    BY GrowthStep DEF DepositsInv, PassesSound
  <1>1. ASSUME UNCHANGED passVars PROVE PassesSound'
    <2>1. \A v \in Watchers : Same(v)
      BY <1>1 DEF passVars, Same
    <2>2. QED
      BY <1>0, <2>1, PassKeeps DEF PassesSound
  <1>2. ASSUME NEW w \in Watchers, DepositCursor(w) PROVE PassesSound'
    <2>1. /\ at'[w] = "page" /\ UNCHANGED <<pending, todo, from, account, blocked>>
          /\ \A v \in Watchers : v # w => Same(v)
      BY <1>0, <1>2 DEF DepositCursor, Go, TypeOK, Same
    <2>2. PassSound(w)'
      BY <1>0, <2>1 DEF PassSound, InHand, Fetched
    <2>3. QED
      BY <1>0, <2>1, <2>2, OneMoves
  <1>3. ASSUME NEW w \in Watchers, GetSignaturesForAddress(w) PROVE PassesSound'
    <2>1. PICK n \in 0 .. Len(chain) :
            LET span == Candidates(base[w], n) IN
            IF span = {} THEN EndPass(w)
            ELSE /\ Go(w, "fetch")
                 /\ pending' = [pending EXCEPT ![w] = span]
                 /\ UNCHANGED <<base, blocked, todo, from, account>>
      BY <1>3 DEF GetSignaturesForAddress
    <2> DEFINE S == Candidates(base[w], n)
    <2>2. CASE S = {}
      BY <1>0, <2>1, <2>2, EndPassSound, OneMoves
    <2>3. CASE S # {}
      <3>1. base[w] \in Nat /\ n \in Nat
        BY <1>0 DEF TypeOK
      <3>2. /\ \A i, k \in S : \A j \in i .. k : j \in S
            /\ base[w] # 0 => Min(S) <= base[w] + 1
        BY <2>3, <3>1, CandidatesSound
      <3>3. /\ Go(w, "fetch") /\ pending' = [pending EXCEPT ![w] = S]
            /\ UNCHANGED <<base, blocked, todo, from, account>>
        BY <2>1, <2>3
      <3> HIDE DEF S
      <3>4. at'[w] = "fetch" /\ pending'[w] = S /\ \A v \in Watchers : v # w => Same(v)
        BY <1>0, <3>3 DEF Go, TypeOK, Same
      <3>5. PassSound(w)'
        BY <2>3, <3>2, <3>3, <3>4 DEF PassSound, InHand, Fetched, Oldest
      <3>6. QED
        BY <1>0, <3>4, <3>5, OneMoves
    <2>4. QED
      BY <2>2, <2>3
  <1>4. ASSUME NEW w \in Watchers, GetTransaction(w) PROVE PassesSound'
    <2> DEFINE senders == chain[Oldest(w)]
    <2>1. /\ at[w] = "fetch" /\ at'[w] = IF senders = {} THEN "done" ELSE "insert"
          /\ todo'[w] = senders /\ UNCHANGED <<chain, base, pending, blocked>>
          /\ \A v \in Watchers : v # w => Same(v)
      BY <1>0, <1>4 DEF GetTransaction, Go, TypeOK, Same
    <2>2. Oldest(w)' = Oldest(w)
      BY <2>1 DEF Oldest
    <2>3. PassSound(w)'
      BY <1>0, <2>1, <2>2 DEF PassSound, InHand, Fetched
    <2>4. QED
      BY <1>0, <2>1, <2>3, OneMoves
  <1>5. ASSUME NEW w \in Watchers, NEW x \in Wallets, InsertDepositEvent(w, x) PROVE PassesSound'
    <2>1. /\ at[w] = "insert" /\ at'[w] = "lookup" /\ from'[w] = x /\ x \in todo[w]
          /\ UNCHANGED <<chain, base, pending, blocked, todo, account, link, linking, abandoned>>
          /\ \A v \in Watchers : v # w => Same(v)
      BY <1>0, <1>5 DEF InsertDepositEvent, Go, TypeOK, Same, linkVars
    <2>2. pending[w] # {}
      BY <1>0, <2>1 DEF PassSound, InHand
    <2>3. Oldest(w)' = Oldest(w) /\ Oldest(w) \in 1 .. Len(chain) /\ chain[Oldest(w)] \subseteq Wallets
      BY <1>0, <2>1, <2>2, OldestIn DEF Oldest
    <2>4. <<Oldest(w), x>> \in Events
      BY <1>0, <2>3, EventOf
    <2>5. event'[<<Oldest(w), x>>] # "none"
      BY <1>0, <1>5, <2>4 DEF InsertDepositEvent, TypeOK
    <2>6. \A y \in chain[Oldest(w)] \ todo[w] : Handled(Oldest(w), y)'
      BY <1>0, <2>1, <2>3 DEF PassSound, Fetched, Growth
    <2>7. PassSound(w)'
      BY <1>0, <2>1, <2>2, <2>3, <2>5, <2>6 DEF PassSound, InHand, Fetched, Current
    <2>8. QED
      BY <1>0, <2>1, <2>7, OneMoves
  <1>6. ASSUME NEW w \in Watchers, AccountForWallet(w) PROVE PassesSound'
    <2>1. /\ at[w] = "lookup" /\ UNCHANGED <<base, pending, blocked>>
          /\ UNCHANGED <<chain, event, link, linking, abandoned>>
      BY <1>6 DEF AccountForWallet, storeVars, linkVars
    <2>2. from[w] \in todo[w] /\ event[Current(w)] # "none" /\ from[w] \in Wallets
      BY <1>0, <2>1, CurrentIn DEF PassSound
    <2>3. CASE link[from[w]] = Nobody
      <3>1. NextTransfer(w)
        BY <1>6, <2>3 DEF AccountForWallet
      <3>2. PICK y : y = from[w]
        OBVIOUS
      <3>3. Handled(Oldest(w), y)'
        BY <2>1, <2>2, <2>3, <3>2 DEF Handled, Current, Oldest
      <3>4. PassSound(w)' /\ \A v \in Watchers : v # w => Same(v)
        BY <1>0, <2>1, <3>1, <3>2, <3>3, NextTransferSound
      <3>5. QED
        BY <1>0, <3>4, OneMoves
    <2>4. CASE link[from[w]] # Nobody
      <3>1. /\ account' = [account EXCEPT ![w] = link[from[w]]] /\ Go(w, "apply")
            /\ UNCHANGED <<todo, from>>
        BY <1>6, <2>4 DEF AccountForWallet
      <3>2. link[from[w]] \in Accounts
        BY <1>0, <2>2, <2>4 DEF TypeOK
      <3>3. /\ at'[w] = "apply" /\ account'[w] \in Accounts
            /\ \A v \in Watchers : v # w => Same(v)
        BY <1>0, <2>1, <3>1, <3>2 DEF Go, TypeOK, Same
      <3>4. PassSound(w)'
        BY <1>0, <2>1, <2>2, <3>1, <3>3 DEF PassSound, InHand, Fetched, Handled, Oldest, Current
      <3>5. QED
        BY <1>0, <3>3, <3>4, OneMoves
    <2>5. QED
      BY <2>3, <2>4
  <1>7. ASSUME NEW w \in Watchers, ApplyDeposit(w) PROVE PassesSound'
    <2>1. at[w] = "apply" /\ account[w] \in Accounts /\ UNCHANGED link
      BY <1>0, <1>7 DEF ApplyDeposit, PassSound
    <2>2. Current(w) \in Events /\ pending[w] # {} /\ Current(w) = <<Oldest(w), from[w]>>
      BY <2>1, CurrentIn
    <2>3. CASE Creditable(Current(w)) \/ assignee[Current(w)] = account[w]
      <3>1. NextTransfer(w) /\ UNCHANGED <<base, pending, blocked>>
        BY <1>7, <2>3 DEF ApplyDeposit
      <3>2. event'[Current(w)] = "assigned"
        <4>1. CASE Creditable(Current(w))
          BY <1>7, <2>2, <4>1 DEF ApplyDeposit, CreditDeposits
        <4>2. CASE ~Creditable(Current(w))
          <5>1. UNCHANGED event /\ assignee[Current(w)] # Nobody
            BY <1>7, <2>1, <2>3, <4>2, DepositsAssumption DEF ApplyDeposit
          <5>2. QED
            BY <2>2, <5>1 DEF DepositsInv, EventsSound
        <4>3. QED
          BY <4>1, <4>2
      <3>3. PICK y : y = from[w]
        OBVIOUS
      <3>4. Oldest(w)' = Oldest(w)
        BY <3>1 DEF Oldest
      <3>5. Handled(Oldest(w), y)'
        BY <2>2, <3>2, <3>3, <3>4 DEF Handled
      <3>6. PassSound(w)' /\ \A v \in Watchers : v # w => Same(v)
        BY <1>0, <2>1, <3>1, <3>3, <3>5, NextTransferSound
      <3>7. QED
        BY <1>0, <3>6, OneMoves
    <2>4. CASE ~(Creditable(Current(w)) \/ assignee[Current(w)] = account[w])
      <3>1. NextSignature(w, base[w], TRUE)
        BY <1>7, <2>4 DEF ApplyDeposit
      <3>2. QED
        BY <1>0, <2>2, <3>1, NextSignatureSound, OneMoves
    <2>5. QED
      BY <2>3, <2>4
  <1>8. ASSUME NEW w \in Watchers, AdvanceDepositCursor(w) PROVE PassesSound'
    <2>1. pending[w] # {}
      BY <1>0, <1>8 DEF AdvanceDepositCursor, PassSound, InHand
    <2>2. NextSignature(w, base[w], TRUE) \/ NextSignature(w, Oldest(w), FALSE) \/ EndPass(w)
      BY <1>8 DEF AdvanceDepositCursor
    <2>3. QED
      BY <1>0, <2>1, <2>2, NextSignatureSound, EndPassSound, OneMoves
  <1>9. ASSUME NEW w \in Watchers, SignatureFails(w) PROVE PassesSound'
    <2>1. pending[w] # {} /\ NextSignature(w, base[w], TRUE)
      BY <1>0, <1>9 DEF SignatureFails, PassSound, InHand
    <2>2. QED
      BY <1>0, <2>1, NextSignatureSound, OneMoves
  <1>10. ASSUME NEW w \in Watchers, PassFails(w) PROVE PassesSound'
    BY <1>0, <1>10, EndPassSound, OneMoves DEF PassFails
  <1>11. ASSUME NEW x \in Wallets,
                \/ DeleteWallet(x)
                \/ \E a \in Accounts : \/ LinkWallet(a, x) \/ AbandonReconcile(a, x)
                                       \/ ReconcileDepositsForWallet(a, x)
         PROVE  PassesSound'
    BY <1>1, <1>11 DEF LinkWallet, AbandonReconcile, ReconcileDepositsForWallet, DeleteWallet
  <1>12. ASSUME (\E senders \in SUBSET Wallets : Transfer(senders)) \/ UNCHANGED vars
         PROVE  PassesSound'
    BY <1>1, <1>12 DEF Transfer, vars
  <1>13. QED
    BY <1>2, <1>3, <1>4, <1>5, <1>6, <1>7, <1>8, <1>9, <1>10, <1>11, <1>12 DEF Next, WatcherStep

-----------------------------------------------------------------------------
(* The cursor.                                                             *)

LEMMA CursorKeeps ==
  ASSUME DepositsInv, Growth, UNCHANGED <<cursor, start>>
  PROVE  CursorSound'
  <1>1. \A i \in 1 .. cursor : i \in 1 .. Len(chain) /\ chain[i] \subseteq Wallets
    BY DEF DepositsInv, TypeOK
  <1>2. \A i \in 1 .. cursor : Followed(i)' => Followed(i)
    BY DEF Followed
  <1>3. \A i \in 1 .. cursor : Followed(i) => \A x \in chain[i] : Handled(i, x)'
    BY <1>1 DEF DepositsInv, CursorSound, Growth
  <1>4. QED
    BY <1>1, <1>2, <1>3 DEF DepositsInv, CursorSound, Growth

\* The compare-and-set moves the cursor over the signature in hand only, or
\* back.
LEMMA AdvanceSound ==
  ASSUME DepositsInv, NEW w \in Watchers, AdvanceDepositCursor(w)
  PROVE  CursorSound'
  <1>0. TypeOK /\ PassSound(w) /\ CursorSound
    BY DEF DepositsInv, PassesSound
  <1>1. /\ at[w] = "done" /\ UNCHANGED <<chain, event, link, linking, abandoned>>
        /\ start' = IF start = 0 THEN cursor' ELSE start
    BY DEF AdvanceDepositCursor, linkVars
  <1>2. cursor \in Nat /\ start \in Nat /\ base[w] \in Nat
    BY <1>0 DEF TypeOK
  <1>3. pending[w] # {} /\ todo[w] = {} /\ \A x \in chain[Oldest(w)] : Handled(Oldest(w), x)
    BY <1>0, <1>1 DEF PassSound, InHand, Fetched
  <1>4. Oldest(w) \in Nat \ {0}
    BY <1>0, <1>3, OldestIn
  <1>5. \A i, x : Handled(i, x)' <=> Handled(i, x)
    BY <1>1 DEF Handled
  <1>6. CASE cursor' = cursor
    <2>1. \A i \in 1 .. cursor : Followed(i)' => Followed(i)
      BY <1>1, <1>2, <1>6 DEF Followed
    <2>2. cursor = 0 => start' = 0
      BY <1>0, <1>1, <1>6 DEF CursorSound
    <2>3. QED
      BY <1>0, <1>1, <1>5, <1>6, <2>1, <2>2 DEF CursorSound
  <1>7. CASE cursor' # cursor
    <2>1. cursor' = Oldest(w) /\ cursor = base[w] /\ ~blocked[w]
      BY <1>7 DEF AdvanceDepositCursor, HeldBack
    <2>2. ASSUME NEW i \in 1 .. Oldest(w), Followed(i)' PROVE \A x \in chain[i] : Handled(i, x)
      <3>1. start # 0 /\ start' = start /\ Followed(i)
        BY <1>1, <1>2, <1>4, <2>1, <2>2 DEF Followed
      <3>2. cursor # 0
        BY <1>0, <3>1 DEF CursorSound
      <3>3. Oldest(w) <= cursor + 1
        BY <1>0, <1>1, <2>1, <3>2 DEF PassSound, InHand
      <3>4. CASE i <= cursor
        BY <1>0, <1>2, <3>1, <3>4 DEF CursorSound
      <3>5. CASE ~(i <= cursor)
        <4>1. i = Oldest(w)
          BY <1>2, <1>4, <3>3, <3>5
        <4>2. QED
          BY <1>3, <4>1
      <3>6. QED
        BY <3>4, <3>5
    <2>3. QED
      BY <1>1, <1>4, <1>5, <2>1, <2>2 DEF CursorSound
  <1>8. QED
    BY <1>6, <1>7

LEMMA CursorStep ==
  ASSUME DepositsInv, [Next]_vars
  PROVE  CursorSound'
  <1>1. ASSUME UNCHANGED <<cursor, start>> PROVE CursorSound'
    BY <1>1, GrowthStep, CursorKeeps
  <1>2. ASSUME NEW w \in Watchers,
               \/ DepositCursor(w) \/ GetSignaturesForAddress(w) \/ GetTransaction(w)
               \/ (\E x \in Wallets : InsertDepositEvent(w, x)) \/ AccountForWallet(w)
               \/ ApplyDeposit(w) \/ SignatureFails(w) \/ PassFails(w)
        PROVE  UNCHANGED <<cursor, start>>
    BY <1>2 DEF DepositCursor, GetSignaturesForAddress, GetTransaction, InsertDepositEvent,
                AccountForWallet, ApplyDeposit, SignatureFails, PassFails, storeVars
  <1>3. ASSUME NEW x \in Wallets,
               \/ DeleteWallet(x)
               \/ \E a \in Accounts : \/ LinkWallet(a, x) \/ AbandonReconcile(a, x)
                                      \/ ReconcileDepositsForWallet(a, x)
        PROVE  UNCHANGED <<cursor, start>>
    BY <1>3 DEF LinkWallet, AbandonReconcile, ReconcileDepositsForWallet, DeleteWallet, storeVars
  <1>4. ASSUME (\E senders \in SUBSET Wallets : Transfer(senders)) \/ UNCHANGED vars
        PROVE  UNCHANGED <<cursor, start>>
    BY <1>4 DEF Transfer, vars, storeVars
  <1>5. QED
    BY <1>1, <1>2, <1>3, <1>4, AdvanceSound DEF Next, WatcherStep

LEMMA DepositsInvInit == Init => DepositsInv
  <1> SUFFICES ASSUME Init PROVE DepositsInv
    OBVIOUS
  <1>1. chain \in Seq(SUBSET Wallets) /\ Len(chain) = 1
    BY DEF Init
  <1>2. TypeOK
    BY <1>1, DepositsAssumption DEF Init, TypeOK, Places
  <1>3. EventsSound /\ PassesSound /\ CursorSound
    BY DEF Init, EventsSound, PassesSound, PassSound, InHand, Fetched, CursorSound
  <1>4. QED
    BY <1>2, <1>3 DEF DepositsInv

LEMMA DepositsInvStep == DepositsInv /\ [Next]_vars => DepositsInv'
  BY TypeStep, EventsStep, PassesStep, CursorStep DEF DepositsInv

LEMMA DepositsInvHolds == Spec => []DepositsInv
  BY DepositsInvInit, DepositsInvStep, PTL DEF Spec

-----------------------------------------------------------------------------
(* Theorems.                                                               *)

(* The tables, the passes and the cursor keep their types: a pass always    *)
(* works on signatures the chain has.                                       *)
THEOREM DepositsTyped == Spec => []TypeOK
  <1>1. DepositsInv => TypeOK
    BY DEF DepositsInv
  <1>2. QED
    BY <1>1, DepositsInvHolds, PTL

(* However many replicas pass over the same signatures, lag, fail and       *)
(* crash, and however links come and go: once there is a cursor it passes   *)
(* over nothing that is not persisted, and an event of a linked wallet that *)
(* it has passed waits for a link handler, or one has given up on it.       *)
THEOREM NoDepositLost == Spec => []NoneLost
  <1>1. DepositsInv => NoneLost
    BY DEF DepositsInv, CursorSound, NoneLost, NeverSkipped, NoneStranded, Handled
  <1>2. QED
    BY <1>1, DepositsInvHolds, PTL

\* The events assigned to account a.
Assigned(a) == {e \in Events : assignee[e] = a}

LEMMA CreditCounts ==
  ASSUME DepositsInv, NEW es \in SUBSET Events, \A e \in es : event[e] = "unassigned",
         NEW a \in Accounts, CreditDeposits(es, a),
         NEW b \in Accounts, credit[b] = Cardinality(Assigned(b))
  PROVE  credit'[b] = Cardinality(Assigned(b)')
  <1>1. TypeOK /\ \A e \in es : assignee[e] = Nobody
    BY DEF DepositsInv, EventsSound
  <1>2. IsFiniteSet(es) /\ IsFiniteSet(Assigned(b)) /\ Cardinality(es) \in Nat
    BY EventsFinite, FS_Subset, FS_CardinalityType DEF Assigned
  <1>3. CASE b = a
    <2>1. Assigned(b)' = Assigned(b) \cup es
      BY <1>1, <1>3 DEF CreditDeposits, Assigned
    <2>2. Assigned(b) \cap es = {}
      BY <1>1, DepositsAssumption DEF Assigned
    <2>3. Cardinality(Assigned(b) \cup es)
            = Cardinality(Assigned(b)) + Cardinality(es) - Cardinality({})
      BY <1>2, <2>2, FS_Union
    <2>4. Cardinality({}) = 0 /\ Cardinality(Assigned(b)) \in Nat
      BY <1>2, FS_EmptySet, FS_CardinalityType
    <2>5. credit'[b] = credit[b] + Cardinality(es)
      BY <1>1, <1>3 DEF CreditDeposits, TypeOK
    <2>6. QED
      BY <1>2, <2>1, <2>3, <2>4, <2>5
  <1>4. CASE b # a
    <2>1. Assigned(b)' = Assigned(b)
      BY <1>1, <1>4, DepositsAssumption DEF CreditDeposits, Assigned, TypeOK
    <2>2. QED
      BY <1>1, <1>4, <2>1 DEF CreditDeposits, TypeOK
  <1>5. QED
    BY <1>3, <1>4

LEMMA CreditStep ==
  ASSUME DepositsInv, [Next]_vars, NEW b \in Accounts, credit[b] = Cardinality(Assigned(b))
  PROVE  credit'[b] = Cardinality(Assigned(b)')
  <1>1. ASSUME UNCHANGED <<assignee, credit>> PROVE credit'[b] = Cardinality(Assigned(b)')
    BY <1>1 DEF Assigned
  <1>2. ASSUME NEW w \in Watchers, ApplyDeposit(w) PROVE credit'[b] = Cardinality(Assigned(b)')
    <2>1. account[w] \in Accounts /\ {Current(w)} \in SUBSET Events
      BY <1>2, CurrentIn DEF ApplyDeposit, DepositsInv, PassesSound, PassSound
    <2>2. CASE Creditable(Current(w))
      <3>1. \A e \in {Current(w)} : event[e] = "unassigned"
        BY <2>2 DEF Creditable
      <3>2. CreditDeposits({Current(w)}, account[w])
        BY <1>2, <2>2 DEF ApplyDeposit
      <3>3. QED
        BY <2>1, <3>1, <3>2, CreditCounts
    <2>3. CASE ~Creditable(Current(w))
      BY <1>1, <1>2, <2>3 DEF ApplyDeposit
    <2>4. QED
      BY <2>2, <2>3
  <1>3. ASSUME NEW a \in Accounts, NEW x \in Wallets, ReconcileDepositsForWallet(a, x)
        PROVE  credit'[b] = Cardinality(Assigned(b)')
    <2> DEFINE es == {e \in Events : Reconcilable(e, x)}
    <2>1. es \in SUBSET Events /\ \A e \in es : event[e] = "unassigned"
      BY DEF Reconcilable
    <2>2. CreditDeposits(es, a)
      BY <1>3 DEF ReconcileDepositsForWallet
    <2> HIDE DEF es
    <2>3. QED
      BY <2>1, <2>2, CreditCounts
  <1>4. ASSUME NEW w \in Watchers,
               \/ DepositCursor(w) \/ GetSignaturesForAddress(w) \/ GetTransaction(w)
               \/ (\E x \in Wallets : InsertDepositEvent(w, x)) \/ AccountForWallet(w)
               \/ AdvanceDepositCursor(w) \/ SignatureFails(w) \/ PassFails(w)
        PROVE  UNCHANGED <<assignee, credit>>
    BY <1>4 DEF DepositCursor, GetSignaturesForAddress, GetTransaction, InsertDepositEvent,
                AccountForWallet, AdvanceDepositCursor, SignatureFails, PassFails, storeVars
  <1>5. ASSUME NEW x \in Wallets,
               DeleteWallet(x) \/ \E a \in Accounts : LinkWallet(a, x) \/ AbandonReconcile(a, x)
        PROVE  UNCHANGED <<assignee, credit>>
    BY <1>5 DEF LinkWallet, AbandonReconcile, DeleteWallet, storeVars
  <1>6. ASSUME (\E senders \in SUBSET Wallets : Transfer(senders)) \/ UNCHANGED vars
        PROVE  UNCHANGED <<assignee, credit>>
    BY <1>6 DEF Transfer, vars, storeVars
  <1>7. QED
    BY <1>1, <1>2, <1>3, <1>4, <1>5, <1>6 DEF Next, WatcherStep

(* No deposit is counted twice or lost on the way: the credit an account    *)
(* got from deposits is the number of the units assigned to it, whatever    *)
(* watchers and link handlers race to credit the same event.                *)
THEOREM DepositsCreditedOnce == Spec => []CreditedOnce
  <1>1. Init => CreditedOnce
    <2> SUFFICES ASSUME Init, NEW a \in Accounts
                 PROVE  credit[a] = Cardinality({e \in Events : assignee[e] = a})
      BY DEF CreditedOnce
    <2>1. {e \in Events : assignee[e] = a} = {} /\ credit[a] = 0
      BY DepositsAssumption DEF Init
    <2>2. QED
      BY <2>1, FS_EmptySet
  <1>2. ASSUME DepositsInv, CreditedOnce, [Next]_vars PROVE CreditedOnce'
    <2>1. \A a \in Accounts : credit'[a] = Cardinality(Assigned(a)')
      BY <1>2, CreditStep DEF CreditedOnce, Assigned
    <2>2. QED
      BY <2>1 DEF CreditedOnce, Assigned
  <1>3. QED
    BY <1>1, <1>2, DepositsInvHolds, PTL DEF Spec

=============================================================================
