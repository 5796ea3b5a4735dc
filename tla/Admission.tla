----------------------------- MODULE Admission -----------------------------
(***************************************************************************)
(* The way of a request through the billing gate (billinggate.serve): the  *)
(* inspection that bounds it and clamps its body (gate.Inspect), the       *)
(* buyer's caps, the quotes of the market and the reservation.             *)
(*                                                                         *)
(* A body is an object with distinct keys of which the gate knows four.    *)
(* A value is an integer or something else; null counts as 0, as it does   *)
(* for the decoder.  The order of the keys is abstracted to the set that   *)
(* decodeShape gets to read: what lies behind the first InspectCap bytes,  *)
(* or behind a nested value of a known key, is not read.                   *)
(***************************************************************************)
EXTENDS Integers, FiniteSets, FiniteSetsExt

CONSTANTS Absent, Other,        \* no such key, no ask; a value that is not an integer
          InspectCap, MaxBody,  \* sizes: 1 MiB and 64 MiB in the code
          Sizes,                \* the sizes of the bodies that arrive
          Bounds,               \* the integers of the bodies that arrive
          OutputMaxes,          \* BILLING_OUTPUT_TOKEN_MAX, 0 for none
          Providers,            \* peers of the mesh
          AskRates,             \* the rates they ask
          MaxAllowedPeers,      \* 128 in the code
          MaxPrice              \* the buyer's cap, in this model one for all tiers

ASSUME AdmissionAssumption ==
  /\ InspectCap \in Nat /\ MaxBody \in Nat /\ InspectCap < MaxBody
  /\ Sizes \subseteq Nat /\ Bounds \subseteq Int /\ OutputMaxes \subseteq Nat
  /\ AskRates \subseteq Nat /\ MaxPrice \in Nat /\ MaxAllowedPeers \in Nat \ {0}
  /\ Absent \notin Int /\ Other \notin Int /\ IsFiniteSet(Providers)

\* maxFieldKeys
MaxFieldKeys == {"max_tokens", "max_completion_tokens", "max_output_tokens"}

IsInt(v) == v \notin {Absent, Other}

Bodies == [MaxFieldKeys -> Bounds \cup {Absent, Other}]

\* generativeRoutes; the requests that arrive use two of them, which differ in
\* the field that bounds the output, a metered one and one that is not metered.
Generative(route) == route \in {"chat/completions", "completions", "messages", "responses"}
GateRoutes == {"chat/completions", "responses", "embeddings", "models"}

\* classifyRoute: the routes that are metered at all.
ClassifyRoute(route) == Generative(route) \/ route = "embeddings"
-----------------------------------------------------------------------------
(* gate.Inspect                                                            *)

\* How far decodeShape may get in a request: to the end, unless the body is
\* longer than the prefix or a nested value ends the loop early.  Which keys it
\* has read then, whether the model is one, and which number the prefix cuts.
PrefixesRead(r) ==
  LET present == {k \in MaxFieldKeys : r.body[k] # Absent}
      partial == r.size > InspectCap \/ \E k \in present : r.body[k] = Other
      split   == {k \in present : r.size > InspectCap /\ IsInt(r.body[k]) /\ r.body[k] >= 10} IN
  {x \in [model : BOOLEAN, keys : SUBSET present, cut : SUBSET split] :
     /\ x.cut \subseteq x.keys /\ Cardinality(x.cut) <= 1
     /\ partial \/ (x.model /\ x.keys = present)}

\* What it has read: a number that is cut in two is read as its first digits.
DecodeShape(r) ==
  {[model  |-> x.model,
    stated |-> [k \in x.keys |-> IF k \in x.cut THEN r.body[k] \div 10 ELSE r.body[k]]] :
     x \in PrefixesRead(r)}

\* readIntPtr: only a positive integer counts.
ReadIntPtr(stated) == {stated[k] : k \in {k \in DOMAIN stated : IsInt(stated[k]) /\ stated[k] > 0}}

\* resolveOutputCeiling: the smallest bound that was stated; 0 is unknown.
ResolveOutputCeiling(route, stated, outputMax) ==
  LET candidates == stated \cup ({outputMax} \ {0}) IN
  IF ~Generative(route) \/ candidates = {} THEN 0 ELSE Min(candidates)

\* Can the gate bound the input?  A body of unknown length that fills MaxBody
\* might go on.
InputBounded(r) == IF r.chunked THEN r.size < MaxBody ELSE r.size <= MaxBody

\* maxFieldForRoute
MaxFieldForRoute(route) == IF route = "responses" THEN "max_output_tokens" ELSE "max_tokens"

HasPositiveBound_Present(body) == \E k \in MaxFieldKeys : IsInt(body[k])
HasPositiveBound(body) == \E k \in MaxFieldKeys : IsInt(body[k]) /\ body[k] > 0

\* rewriteOutputCeiling; the whole body is parsed here, read before or not.
RewriteOutputCeiling(body, route, ceiling) ==
  LET clamped == [k \in MaxFieldKeys |-> IF IsInt(body[k]) /\ body[k] > ceiling
                                           THEN ceiling ELSE body[k]] IN
  IF HasPositiveBound(body) THEN clamped
                            ELSE [clamped EXCEPT ![MaxFieldForRoute(route)] = ceiling]

\* inspectBody: the plan, and the body that will be forwarded.  A body that is
\* not JSON is left alone.
InspectBody(r, read, outputMax) ==
  LET ceiling   == ResolveOutputCeiling(r.route, ReadIntPtr(read.stated), outputMax)
      supported == /\ ClassifyRoute(r.route)
                   /\ InputBounded(r)
                   /\ Generative(r.route) => ceiling # 0 IN
  [route     |-> r.route,
   supported |-> supported,
   model     |-> read.model,
   output    |-> ceiling,
   json      |-> r.json,
   bounded   |-> InputBounded(r),
   forwards  |-> IF supported /\ Generative(r.route) /\ r.json
                   THEN RewriteOutputCeiling(r.body, r.route, ceiling)
                   ELSE r.body]
-----------------------------------------------------------------------------
(* billinggate.serve                                                       *)

VARIABLES mode,       \* "observe" or "enforce"
          outputCap,  \* the operator's bound on output tokens
          pricedOnly, \* BILLING_REQUIRE_PRICED_PEER
          gateStep,   \* where the request is
          plan,       \* what the inspection made of it
          offers,     \* the quotes: peer -> rate
          stamped        \* it was reserved and its id stamped on the request

gateVars == <<mode, outputCap, pricedOnly, gateStep, plan, offers, stamped>>
gateConfig == <<mode, outputCap, pricedOnly>>

NoPlan == [route |-> "none"]
NoOffers == [p \in {} |-> 0]

GateInit ==
  /\ mode \in {"observe", "enforce"} /\ outputCap \in OutputMaxes /\ pricedOnly \in BOOLEAN
  /\ gateStep = "idle" /\ plan = NoPlan /\ offers = NoOffers /\ stamped = FALSE

Arriving == [route : GateRoutes, body : Bodies, size : Sizes, chunked : BOOLEAN, json : BOOLEAN]

\* A request arrives and is inspected.
Inspect ==
  /\ gateStep = "idle"
  /\ \E r \in Arriving : \E read \in DecodeShape(r) : plan' = InspectBody(r, read, outputCap)
  /\ gateStep' = "inspected"
  /\ UNCHANGED <<gateConfig, offers, stamped>>

Forward == gateStep' = "forwarded"
Reject  == gateStep' = "rejected"

\* Enforcing rejects what it cannot price; observing forwards it.
Shuts_UnlessEmpty(outcome) == mode = "enforce" /\ outcome # "no_provider"
Shuts(outcome) == mode = "enforce"

\* The plan is not supported: only a generative request is rejected.
Unsupported ==
  /\ gateStep = "inspected" /\ ~plan.supported
  /\ IF mode = "enforce" /\ Generative(plan.route) THEN Reject ELSE Forward
  /\ UNCHANGED <<gateConfig, plan, offers, stamped>>

\* parseRequestCaps refuses a malformed cap in every mode.
ParseRequestCaps(wellFormed) ==
  /\ gateStep = "inspected" /\ plan.supported
  /\ IF wellFormed THEN gateStep' = "capped" ELSE Reject
  /\ UNCHANGED <<gateConfig, plan, offers, stamped>>

\* resolveCaps: there is no account, or the store fails.
ResolveCaps(hasAccount, readable) ==
  /\ gateStep = "capped"
  /\ IF hasAccount /\ readable THEN gateStep' = "quoting"
     ELSE IF Shuts("billing_account_required") THEN Reject ELSE Forward
  /\ UNCHANGED <<gateConfig, plan, offers, stamped>>

Market == [Providers -> [eligible : BOOLEAN, ask : AskRates \cup {Absent}]]
RateAsked(m, p) == IF m[p].ask = Absent THEN 0 ELSE m[p].ask

\* resolveQuotes: the providers that advertise the model and can be paid; one
\* without an ask is free, unless priced providers are required and there is one.
Quoted(m) ==
  {p \in Providers : /\ plan.model /\ m[p].eligible
                     /\ ~(pricedOnly /\ m[p].ask = Absent
                            /\ \E q \in Providers : m[q].ask # Absent)}
QuotesAffordable(m) == {p \in Quoted(m) : RateAsked(m, p) <= MaxPrice}

Outcome(m) ==
  IF QuotesAffordable(m) # {} THEN "quoted"
  ELSE IF Quoted(m) # {} THEN "price_above_max" ELSE "no_provider"

\* sortQuotes and the cut: the cheapest MaxAllowedPeers of them are allowed.
Cheapest(m) ==
  LET all == QuotesAffordable(m) IN
  {s \in SUBSET all : /\ Cardinality(s) = Min({Cardinality(all), MaxAllowedPeers})
                      /\ \A p \in s, q \in all \ s : RateAsked(m, p) <= RateAsked(m, q)}

ResolveQuotes(m) ==
  /\ gateStep = "quoting"
  /\ \E allowed \in Cheapest(m) : offers' = [p \in allowed |-> RateAsked(m, p)]
  /\ IF Outcome(m) # "quoted"
       THEN IF Shuts(Outcome(m)) THEN Reject ELSE Forward
       ELSE IF mode = "enforce" THEN gateStep' = "reserving" ELSE Forward
  /\ UNCHANGED <<gateConfig, plan, stamped>>

\* The snapshot or the asks cannot be read.
QuotesUnavailable ==
  /\ gateStep = "quoting"
  /\ IF Shuts("billing_unavailable") THEN Reject ELSE Forward
  /\ UNCHANGED <<gateConfig, plan, offers, stamped>>

\* reserve: the store reserves, or refuses and the request is rejected.
ReserveForRequest(ok) ==
  /\ gateStep = "reserving"
  /\ stamped' = ok
  /\ IF ok THEN Forward ELSE Reject
  /\ UNCHANGED <<gateConfig, plan, offers>>

\* The request is over; the next one may come.
Finished ==
  /\ gateStep \in {"forwarded", "rejected"}
  /\ gateStep' = "idle" /\ plan' = NoPlan /\ offers' = NoOffers /\ stamped' = FALSE
  /\ UNCHANGED gateConfig

GateNext ==
  \/ Inspect
  \/ Unsupported
  \/ \E ok \in BOOLEAN : ParseRequestCaps(ok)
  \/ \E a, ok \in BOOLEAN : ResolveCaps(a, ok)
  \/ \E m \in Market : ResolveQuotes(m)
  \/ QuotesUnavailable
  \/ \E ok \in BOOLEAN : ReserveForRequest(ok)
  \/ Finished

GateSpec == GateInit /\ [][GateNext]_gateVars
-----------------------------------------------------------------------------
(* inspectBody clamps a body "so the upstream cannot generate past the      *)
(* reservation", although it read only a prefix when it fixed the ceiling:  *)
(* in the body that is forwarded under a reservation no integer bound       *)
(* exceeds the reserved ceiling, and there is a positive one.  (A value     *)
(* that is not an integer is left as it is, and so is a body that is not    *)
(* JSON.)                                                                   *)
OutputBounded ==
  (stamped /\ Generative(plan.route) /\ plan.json) =>
    /\ \E k \in MaxFieldKeys : IsInt(plan.forwards[k]) /\ plan.forwards[k] > 0
    /\ \A k \in MaxFieldKeys : IsInt(plan.forwards[k]) => plan.forwards[k] <= plan.output

(* serve "never silently serves a paid request free": under enforcement a   *)
(* metered request reaches the upstream only with a reservation, for a      *)
(* model that was read from the body and with peers within the buyer's      *)
(* price.  (The exception is the code's: an input-only request whose size   *)
(* cannot be bounded is forwarded as if its route were not metered.)        *)
NeverServedFree ==
  (mode = "enforce" /\ gateStep = "forwarded" /\ ClassifyRoute(plan.route)
     /\ (Generative(plan.route) \/ plan.bounded)) =>
    /\ stamped /\ plan.supported /\ plan.model
    /\ DOMAIN offers # {} /\ \A p \in DOMAIN offers : offers[p] <= MaxPrice
=============================================================================
