--------------------------- MODULE RequestsProofs ---------------------------
(***************************************************************************)
(* What surrounds a request, for every size of the caches, the market and  *)
(* the queues: the billing gate never forwards a metered request without a *)
(* reservation and clamps what it reserved for (Admission); the views of   *)
(* the mesh let go of a hidden service in time and GPU refreshes do not    *)
(* overlap (Snapshots); prices nobody stands behind leave the market       *)
(* (Asks); samples are accounted for (Sinks); a delegated charge is        *)
(* claimed for one batch, and allowances add up (Delegations).             *)
(***************************************************************************)
EXTENDS Admission, Snapshots, Asks, Sinks, Delegations, AmountsProofs, SequenceTheorems

-----------------------------------------------------------------------------
(* gate.Inspect                                                            *)

LEMMA MinOfNaturals ==
  ASSUME NEW S \in SUBSET Nat, S # {}
  PROVE  Min(S) \in S
  <1>1. PICK n \in S : \A m \in S : ~(<<m, n>> \in OpToRel(<, Nat))
    BY NatLessThanWellFounded, WFMin
  <1>2. ASSUME NEW m \in S PROVE n <= m
    <2>1. m \in Nat /\ n \in Nat
      OBVIOUS
    <2>2. ~(m < n)
      BY <1>1, <2>1 DEF OpToRel
    <2>3. QED
      BY <2>1, <2>2
  <1>3. QED
    BY <1>2 DEF Min

\* A ceiling is 0, for unknown, or positive, whatever part of the body was read.
LEMMA CeilingsAreNatural ==
  ASSUME NEW route, NEW stated, NEW outputMax \in Nat, stated \subseteq Nat \ {0}
  PROVE  ResolveOutputCeiling(route, stated, outputMax) \in Nat
  <1> DEFINE candidates == stated \cup ({outputMax} \ {0})
  <1>1. candidates \in SUBSET Nat
    OBVIOUS
  <1>2. candidates # {} => Min(candidates) \in Nat
    BY <1>1, MinOfNaturals
  <1> HIDE DEF candidates
  <1>3. ResolveOutputCeiling(route, stated, outputMax)
          = IF ~Generative(route) \/ candidates = {} THEN 0 ELSE Min(candidates)
    BY DEF ResolveOutputCeiling, candidates
  <1>4. QED
    BY <1>2, <1>3

\* decodeShape yields values of the body, or the first digits of one.
LEMMA ReadsAreValues ==
  ASSUME NEW r \in Arriving, NEW read \in DecodeShape(r)
  PROVE  ReadIntPtr(read.stated) \subseteq Nat \ {0}
  <1>1. \A k \in MaxFieldKeys : IsInt(r.body[k]) => r.body[k] \in Int
    BY AdmissionAssumption DEF Arriving, Bodies, IsInt
  <1>2. PICK x \in PrefixesRead(r) :
          read.stated = [k \in x.keys |-> IF k \in x.cut THEN r.body[k] \div 10 ELSE r.body[k]]
    BY DEF DecodeShape
  <1>3. x.keys \subseteq MaxFieldKeys /\ \A k \in x.cut : IsInt(r.body[k]) /\ k \in MaxFieldKeys
    BY DEF PrefixesRead
  <1>4. ASSUME NEW k \in x.keys, IsInt(read.stated[k]), read.stated[k] > 0
        PROVE  read.stated[k] \in Nat \ {0}
    <2>1. read.stated[k] = IF k \in x.cut THEN r.body[k] \div 10 ELSE r.body[k]
      BY <1>2
    <2>2. CASE k \in x.cut
      <3>1. r.body[k] \in Int
        BY <2>2, <1>1, <1>3
      <3>2. r.body[k] \div 10 \in Int
        BY <3>1
      <3>3. QED
        BY <2>1, <2>2, <3>2, <1>4
    <2>3. CASE k \notin x.cut
      BY <2>1, <2>3, <1>1, <1>3, <1>4
    <2>4. QED
      BY <2>2, <2>3
  <1>5. DOMAIN read.stated = x.keys
    BY <1>2
  <1>6. QED
    BY <1>4, <1>5 DEF ReadIntPtr

\* A body whose integer bounds are all within a ceiling and one is positive.
Within(body, ceiling) ==
  /\ \E k \in MaxFieldKeys : IsInt(body[k]) /\ body[k] > 0
  /\ \A k \in MaxFieldKeys : IsInt(body[k]) => body[k] <= ceiling

\* rewriteOutputCeiling gives such a body, from any body and positive ceiling.
LEMMA RewriteClamps ==
  ASSUME NEW body \in Bodies, NEW route, NEW ceiling \in Nat \ {0}
  PROVE  Within(RewriteOutputCeiling(body, route, ceiling), ceiling)
  <1> DEFINE clamped == [k \in MaxFieldKeys |-> IF IsInt(body[k]) /\ body[k] > ceiling
                                                  THEN ceiling ELSE body[k]]
             field == MaxFieldForRoute(route)
  <1>1. \A k \in MaxFieldKeys : IsInt(body[k]) => body[k] \in Int
    BY AdmissionAssumption DEF Bodies, IsInt
  <1>2. IsInt(ceiling) /\ ceiling > 0 /\ ceiling <= ceiling
    BY AdmissionAssumption DEF IsInt
  <1>3. \A k \in MaxFieldKeys : IsInt(clamped[k]) => clamped[k] <= ceiling
    BY <1>1
  <1>4. CASE HasPositiveBound(body)
    <2>1. PICK k \in MaxFieldKeys : IsInt(body[k]) /\ body[k] > 0
      BY <1>4 DEF HasPositiveBound
    <2>2. IsInt(clamped[k]) /\ clamped[k] > 0
      BY <2>1, <1>2
    <2>3. RewriteOutputCeiling(body, route, ceiling) = clamped
      BY <1>4 DEF RewriteOutputCeiling
    <2>4. QED
      BY <2>2, <2>3, <1>3 DEF Within
  <1>5. CASE ~HasPositiveBound(body)
    <2>1. field \in MaxFieldKeys
      BY DEF MaxFieldForRoute, MaxFieldKeys
    <2>2. RewriteOutputCeiling(body, route, ceiling) = [clamped EXCEPT ![field] = ceiling]
      BY <1>5 DEF RewriteOutputCeiling
    <2> DEFINE new == [clamped EXCEPT ![field] = ceiling]
    <2>3. new[field] = ceiling /\ \A k \in MaxFieldKeys : k # field => new[k] = clamped[k]
      BY <2>1
    <2> HIDE DEF new, clamped, field
    <2>4. Within(new, ceiling)
      BY <2>1, <2>3, <1>2, <1>3 DEF Within
    <2>5. QED
      BY <2>2, <2>4 DEF new
  <1>6. QED
    BY <1>4, <1>5

-----------------------------------------------------------------------------
(* billinggate.serve                                                       *)

\* What Inspect leaves: a supported plan is bounded, and its body clamped.
PlanSound(p) ==
  /\ p.supported <=> /\ ClassifyRoute(p.route) /\ p.bounded
                     /\ Generative(p.route) => p.output # 0
  /\ (p.supported /\ Generative(p.route) /\ p.json) => Within(p.forwards, p.output)

\* The quotes that are reserved against.
OffersSound == DOMAIN offers # {} /\ \A p \in DOMAIN offers : offers[p] <= MaxPrice

\* What each step of serve knows of the request.
GateInv ==
  /\ outputCap \in Nat /\ stamped \in BOOLEAN
  /\ gateStep # "idle" => PlanSound(plan)
  /\ gateStep \in {"capped", "quoting", "reserving"} => plan.supported
  /\ gateStep = "reserving" => plan.model /\ OffersSound
  /\ stamped => gateStep = "forwarded" /\ plan.supported
  /\ NeverServedFree

LEMMA InspectedSound ==
  ASSUME NEW r \in Arriving, NEW read \in DecodeShape(r), NEW outputMax \in Nat
  PROVE  PlanSound(InspectBody(r, read, outputMax))
  <1> DEFINE ceiling == ResolveOutputCeiling(r.route, ReadIntPtr(read.stated), outputMax)
             p == InspectBody(r, read, outputMax)
             ok == /\ ClassifyRoute(r.route) /\ InputBounded(r)
                   /\ Generative(r.route) => ceiling # 0
  <1>1. ceiling \in Nat
    BY ReadsAreValues, CeilingsAreNatural
  <1> HIDE DEF ceiling
  <1>2. /\ p.route = r.route /\ p.supported = ok /\ p.output = ceiling
        /\ p.bounded = InputBounded(r) /\ p.json = r.json
        /\ p.forwards = IF ok /\ Generative(r.route) /\ r.json
                          THEN RewriteOutputCeiling(r.body, r.route, ceiling) ELSE r.body
    BY DEF InspectBody, ceiling
  <1>3. r.body \in Bodies
    BY DEF Arriving
  <1> HIDE DEF p
  <1>4. p.supported <=> /\ ClassifyRoute(p.route) /\ p.bounded
                        /\ Generative(p.route) => p.output # 0
    BY <1>2
  <1>5. ASSUME p.supported, Generative(p.route), p.json
        PROVE  Within(p.forwards, p.output)
    <2>1. ceiling \in Nat \ {0}
      BY <1>1, <1>2, <1>5
    <2>2. p.forwards = RewriteOutputCeiling(r.body, r.route, ceiling)
      BY <1>2, <1>5
    <2>3. QED
      BY <2>1, <2>2, <1>2, <1>3, RewriteClamps
  <1>6. QED
    BY <1>4, <1>5 DEF PlanSound, p

\* A non-empty set of affordable quotes is not cut to nothing.
LEMMA SomeQuoteAllowed ==
  ASSUME NEW m \in Market, NEW allowed \in Cheapest(m), QuotesAffordable(m) # {}
  PROVE  allowed # {} /\ plan.model /\ \A p \in allowed : RateAsked(m, p) <= MaxPrice
  <1> DEFINE all == QuotesAffordable(m)
             sizes == {Cardinality(all), MaxAllowedPeers}
  <1>1. IsFiniteSet(all)
    BY AdmissionAssumption, FS_Subset DEF QuotesAffordable, Quoted
  <1>2. Cardinality(all) \in Nat \ {0}
    BY <1>1, FS_CardinalityType, FS_EmptySet
  <1>3. Min(sizes) \in Nat \ {0}
    <2>1. sizes \in SUBSET Nat /\ sizes # {} /\ 0 \notin sizes
      BY <1>2, AdmissionAssumption
    <2>2. Min(sizes) \in sizes
      BY <2>1, MinOfNaturals
    <2>3. QED
      BY <2>1, <2>2
  <1>4. Cardinality(allowed) = Min(sizes) /\ allowed \subseteq all
    BY DEF Cheapest
  <1>5. allowed # {}
    BY <1>3, <1>4, FS_EmptySet
  <1>6. QED
    BY <1>4, <1>5 DEF QuotesAffordable, Quoted

LEMMA GateStarts == GateInit => GateInv
  BY AdmissionAssumption DEF GateInit, GateInv, NeverServedFree

LEMMA GateSteps ==
  ASSUME GateInv, [GateNext]_gateVars
  PROVE  GateInv'
  <1> USE DEF GateInv
  <1>1. CASE Inspect
    <2>1. PICK r \in Arriving : \E read \in DecodeShape(r) : plan' = InspectBody(r, read, outputCap)
      BY <1>1 DEF Inspect
    <2>2. PICK read \in DecodeShape(r) : plan' = InspectBody(r, read, outputCap)
      BY <2>1
    <2>3. PlanSound(plan')
      BY <2>2, InspectedSound
    <2>4. gateStep = "idle" /\ gateStep' = "inspected" /\ outputCap' = outputCap /\ stamped' = stamped
      BY <1>1 DEF Inspect, gateConfig
    <2>5. QED
      BY <2>3, <2>4 DEF NeverServedFree
  <1>2. CASE Unsupported
    BY <1>2 DEF Unsupported, Forward, Reject, gateConfig, NeverServedFree, PlanSound, ClassifyRoute
  <1>3. CASE \E ok \in BOOLEAN : ParseRequestCaps(ok)
    BY <1>3 DEF ParseRequestCaps, Reject, gateConfig, NeverServedFree
  <1>4. CASE \E a, ok \in BOOLEAN : ResolveCaps(a, ok)
    BY <1>4 DEF ResolveCaps, Shuts, Forward, Reject, gateConfig, NeverServedFree
  <1>5. ASSUME NEW m \in Market, ResolveQuotes(m)
        PROVE  GateInv'
    <2>1. PICK allowed \in Cheapest(m) : offers' = [p \in allowed |-> RateAsked(m, p)]
      BY <1>5 DEF ResolveQuotes
    <2>2. CASE QuotesAffordable(m) # {}
      <3>1. Outcome(m) = "quoted"
        BY <2>2 DEF Outcome
      <3>2. plan.model /\ DOMAIN offers' # {} /\ \A p \in DOMAIN offers' : offers'[p] <= MaxPrice
        BY <2>1, <2>2, SomeQuoteAllowed
      <3>3. QED
        BY <1>5, <3>1, <3>2
        DEF ResolveQuotes, Forward, gateConfig, NeverServedFree, OffersSound
    <2>3. CASE QuotesAffordable(m) = {}
      <3>1. Outcome(m) # "quoted"
        BY <2>3 DEF Outcome
      <3>2. QED
        BY <1>5, <3>1 DEF ResolveQuotes, Shuts, Forward, Reject, gateConfig, NeverServedFree
    <2>4. QED
      BY <2>2, <2>3
  <1>6. CASE QuotesUnavailable
    BY <1>6 DEF QuotesUnavailable, Shuts, Forward, Reject, gateConfig, NeverServedFree
  <1>7. CASE \E ok \in BOOLEAN : ReserveForRequest(ok)
    BY <1>7 DEF ReserveForRequest, Forward, Reject, gateConfig, NeverServedFree, OffersSound
  <1>8. CASE Finished
    BY <1>8 DEF Finished, gateConfig, NeverServedFree
  <1>9. CASE UNCHANGED gateVars
    BY <1>9 DEF gateVars, NeverServedFree, OffersSound
  <1>10. QED
    BY <1>1, <1>2, <1>3, <1>4, <1>5, <1>6, <1>7, <1>8, <1>9 DEF GateNext

LEMMA GateHolds == GateSpec => []GateInv
  BY GateStarts, GateSteps, PTL DEF GateSpec

(* serve, Inspect to reserve: under enforcement no metered request reaches  *)
(* the upstream without a reservation, whatever the market quotes, whatever *)
(* fails on the way and however much of the body was read.                  *)
THEOREM MeteredIsReserved == GateSpec => []NeverServedFree
  <1>1. GateInv => NeverServedFree
    BY DEF GateInv
  <1>2. QED
    BY <1>1, GateHolds, PTL

(* inspectBody with rewriteOutputCeiling: the body forwarded under a        *)
(* reservation has a positive output bound and none above what was          *)
(* reserved, for every prefix and every operator's bound.                   *)
THEOREM ReservedIsClamped == GateSpec => []OutputBounded
  <1>1. GateInv => OutputBounded
    BY DEF GateInv, OutputBounded, PlanSound, Within
  <1>2. QED
    BY <1>1, GateHolds, PTL

-----------------------------------------------------------------------------
(* perf.Resolver                                                           *)

\* There is at most one refresh, as old as the last attempt.
GpuInv ==
  /\ gpuAge \in Nat /\ attemptAge \in Nat
  /\ \A c, d \in DOMAIN refreshing : c = d
  /\ \A c \in DOMAIN refreshing : refreshing[c] = attemptAge /\ attemptAge <= GpuTimeout

LEMMA GpuHolds == GpuSpec => []GpuInv
  <1> USE SnapshotsAssumption
  <1>1. GpuInit => GpuInv
    BY DEF GpuInit, GpuInv, GpuHorizon
  <1>2. ASSUME GpuInv, [GpuNext]_gpuVars PROVE GpuInv'
    <2>1. ASSUME NEW c \in Callers, Resolve(c) PROVE GpuInv'
      <3>1. DOMAIN refreshing = {}
        BY <1>2, <2>1 DEF GpuInv, Resolve, Due
      <3>2. QED
        BY <1>2, <2>1, <3>1 DEF GpuInv, Resolve
    <2>2. ASSUME NEW c \in Callers, NEW ok \in BOOLEAN, Refresh(c, ok) PROVE GpuInv'
      BY <1>2, <2>2 DEF GpuInv, Refresh
    <2>3. CASE GpuTick
      <3>1. \A c \in DOMAIN refreshing : attemptAge < GpuTimeout /\ GpuOlder(attemptAge) = attemptAge + 1
        BY <1>2, <2>3 DEF GpuInv, GpuTick, GpuOlder, GpuHorizon
      <3>2. GpuOlder(gpuAge) \in Nat /\ GpuOlder(attemptAge) \in Nat
        BY <1>2 DEF GpuInv, GpuOlder
      <3>3. QED
        BY <1>2, <2>3, <3>1, <3>2 DEF GpuInv, GpuTick
    <2>4. CASE UNCHANGED gpuVars
      BY <1>2, <2>4 DEF GpuInv, gpuVars
    <2>5. QED
      BY <1>2, <2>1, <2>2, <2>3, <2>4 DEF GpuNext
  <1>3. QED
    BY <1>1, <1>2, PTL DEF GpuSpec

(* Resolve: with a refresh that ends within RetryFloor, refreshes of the    *)
(* inventory never overlap, for any callers and any TTL.                    *)
THEOREM OneRefreshAtATime == GpuSpec => []RefreshesNeverOverlap
  <1>1. ASSUME GpuInv PROVE RefreshesNeverOverlap
    <2>1. CASE DOMAIN refreshing = {}
      BY <2>1, FS_EmptySet DEF RefreshesNeverOverlap
    <2>2. CASE DOMAIN refreshing # {}
      <3>1. PICK c : DOMAIN refreshing = {c}
        BY <1>1, <2>2 DEF GpuInv
      <3>2. Cardinality({c}) = 1
        BY FS_Singleton
      <3>3. QED
        BY <3>1, <3>2 DEF RefreshesNeverOverlap
    <2>3. QED
      BY <2>1, <2>2
  <1>2. QED
    BY <1>1, GpuHolds, PTL

-----------------------------------------------------------------------------
(* peers.Service.Snapshot and catalog.Handler.view                         *)

\* The service was hidden no longer than n ticks ago, if it is hidden.
SeenWithin(n) == gone <= n /\ closed <= n

\* The ages of what is hidden start when it is hidden.
WorldSound ==
  /\ listed \in BOOLEAN
  /\ gone \in 0 .. Horizon /\ closed \in 0 .. Horizon
  /\ listed => gone = 0
  /\ Exposed(row) => closed = 0

\* What a cache shows was visible when it was fetched.
CachesSound ==
  /\ snap \in [shows : BOOLEAN, age : 0 .. Horizon]
  /\ view \in [shows : BOOLEAN, age : 0 .. Horizon]
  /\ snap.shows => SeenWithin(FetchTime + snap.age)
  /\ view.shows => SeenWithin(FetchTime + (SnapTTL - 1) + view.age)

\* So was what a request has read so far; an answer is as old as its caches.
Vias == {"gate", "catalog"}
CallerSound(x) ==
  \/ x = Idle
  \/ x \in [step : {"snapshot"}, via : Vias]
  \/ /\ x \in [step : {"table"}, via : Vias, lists : BOOLEAN, age : 0 .. FetchTime]
     /\ x.lists => gone <= x.age
  \/ /\ x \in [step : {"policy"}, via : Vias, shows : BOOLEAN, age : 0 .. FetchTime]
     /\ x.shows => SeenWithin(x.age)
  \/ /\ x \in [step : {"answered"}, via : Vias, shows : BOOLEAN]
     /\ x.shows => SeenWithin(Staleness(x.via))

SnapInv ==
  /\ WorldSound
  /\ CachesSound
  /\ DOMAIN caller = Callers /\ \A c \in Callers : CallerSound(caller[c])

LEMMA AgeingBounds ==
  ASSUME NEW n \in 0 .. Horizon
  PROVE  /\ Aged(n) \in 0 .. Horizon /\ Aged(n) <= n + 1
         /\ Aged(n) = n + 1 \/ (n = Horizon /\ Aged(n) = Horizon)
  BY SnapshotsAssumption DEF Aged, Horizon

LEMMA ConstantsNatural ==
  /\ Horizon \in Nat /\ FetchTime \in Nat /\ SnapTTL \in Nat \ {0} /\ ViewTTL \in Nat \ {0}
  /\ Horizon = SnapTTL + ViewTTL + FetchTime
  /\ Staleness("gate") = FetchTime + (SnapTTL - 1)
  /\ Staleness("catalog") = FetchTime + (SnapTTL - 1) + (ViewTTL - 1)
  BY SnapshotsAssumption DEF Horizon, Staleness

\* What holds of a request holds still when nothing was hidden any longer ago.
LEMMA SoundStays ==
  ASSUME WorldSound, NEW x, CallerSound(x),
         gone' \in 0 .. Horizon, closed' \in 0 .. Horizon, gone' <= gone, closed' <= closed
  PROVE  CallerSound(x)'
  <1> USE ConstantsNatural
  <1>1. gone \in Nat /\ closed \in Nat /\ gone' \in Nat /\ closed' \in Nat
    BY DEF WorldSound
  <1>2. ASSUME NEW n \in Int, SeenWithin(n) PROVE gone' <= n /\ closed' <= n
    BY <1>1, <1>2 DEF SeenWithin
  <1>3. CASE x \in [step : {"table"}, via : Vias, lists : BOOLEAN, age : 0 .. FetchTime]
             /\ (x.lists => gone <= x.age)
    BY <1>1, <1>3 DEF CallerSound
  <1>4. CASE x \in [step : {"policy"}, via : Vias, shows : BOOLEAN, age : 0 .. FetchTime]
             /\ (x.shows => SeenWithin(x.age))
    BY <1>2, <1>4 DEF CallerSound, SeenWithin
  <1>5. CASE x \in [step : {"answered"}, via : Vias, shows : BOOLEAN]
             /\ (x.shows => SeenWithin(Staleness(x.via)))
    <2>1. Staleness(x.via) \in Int
      BY <1>5 DEF Vias
    <2>2. QED
      BY <1>2, <1>5, <2>1 DEF CallerSound, SeenWithin
  <1>6. QED
    BY <1>3, <1>4, <1>5 DEF CallerSound

\* A step that only moves one request on, to a sound state.
LEMMA CallersSound ==
  ASSUME SnapInv, NEW c \in Callers, NEW x, Goes(c, x), CallerSound(x), UNCHANGED worldVars
  PROVE  /\ WorldSound'
         /\ DOMAIN caller' = Callers /\ \A d \in Callers : CallerSound(caller[d])'
  <1>1. UNCHANGED <<listed, row, gone, closed>>
    BY DEF worldVars
  <1>2. WorldSound'
    BY <1>1 DEF SnapInv, WorldSound
  <1>3. DOMAIN caller' = Callers
    BY DEF Goes, SnapInv
  <1>4. ASSUME NEW d \in Callers PROVE CallerSound(caller[d])'
    <2>1. CallerSound(caller'[d])
      BY DEF Goes, SnapInv
    <2>2. QED
      BY <1>1, <2>1 DEF CallerSound, SeenWithin
  <1>5. QED
    BY <1>2, <1>3, <1>4

\* An answer, stored by the catalogue: it is within a fetch and SnapTTL.
LEMMA DeliverySound ==
  ASSUME SnapInv, NEW c \in Callers, NEW shows \in BOOLEAN, Delivers(c, shows),
         caller[c].via \in Vias, shows => SeenWithin(FetchTime + (SnapTTL - 1)),
         UNCHANGED worldVars
  PROVE  /\ WorldSound'
         /\ DOMAIN caller' = Callers /\ \A d \in Callers : CallerSound(caller[d])'
         /\ view' \in [shows : BOOLEAN, age : 0 .. Horizon]
         /\ view'.shows => SeenWithin(FetchTime + (SnapTTL - 1) + view'.age)
  <1> USE ConstantsNatural
  <1> DEFINE x == [step |-> "answered", via |-> caller[c].via, shows |-> shows]
  <1>1. gone \in Nat /\ closed \in Nat
    BY DEF SnapInv, WorldSound
  <1>2. shows => SeenWithin(Staleness(caller[c].via))
    BY <1>1 DEF SeenWithin, Vias
  <1>3. CallerSound(x)
    BY <1>2 DEF CallerSound
  <1>4. Goes(c, x)
    BY DEF Delivers
  <1>5. WorldSound' /\ DOMAIN caller' = Callers /\ \A d \in Callers : CallerSound(caller[d])'
    BY <1>3, <1>4, CallersSound
  <1>6. CASE caller[c].via = "catalog"
    <2>1. view' = [shows |-> shows, age |-> 0]
      BY <1>6 DEF Delivers
    <2>2. QED
      BY <1>1, <1>5, <2>1 DEF SeenWithin
  <1>7. CASE caller[c].via # "catalog"
    <2>1. view' = view
      BY <1>7 DEF Delivers
    <2>2. QED
      BY <1>5, <2>1 DEF SnapInv, CachesSound
  <1>8. QED
    BY <1>6, <1>7

LEMMA SnapStarts == SnapInit => SnapInv
  BY ConstantsNatural
  DEF SnapInit, SnapInv, WorldSound, CachesSound, CallerSound, NoView, Exposed

LEMMA SnapSteps ==
  ASSUME SnapInv, [SnapNext]_snapVars
  PROVE  SnapInv'
  <1> USE ConstantsNatural
  <1>0. gone \in Nat /\ closed \in Nat /\ snap.age \in Nat /\ view.age \in Nat
    BY DEF SnapInv, WorldSound, CachesSound
  <1>1. ASSUME NEW l \in BOOLEAN, NEW r \in InstanceRows, MeshChanges(l, r) PROVE SnapInv'
    <2>1. gone' \in 0 .. Horizon /\ closed' \in 0 .. Horizon /\ gone' <= gone /\ closed' <= closed
      BY <1>1, <1>0 DEF MeshChanges, SnapInv, WorldSound
    <2>2. WorldSound'
      BY <1>1, <2>1 DEF MeshChanges, SnapInv, WorldSound
    <2>3. CachesSound'
      BY <1>0, <1>1, <2>1 DEF MeshChanges, SnapInv, CachesSound, SeenWithin
    <2>4. ASSUME NEW c \in Callers PROVE CallerSound(caller[c])'
      <3>1. CallerSound(caller[c]) /\ caller' = caller
        BY <1>1 DEF SnapInv, MeshChanges
      <3> DEFINE x == caller[c]
      <3>2. CallerSound(caller[c])'
        BY <2>1, <3>1, SoundStays DEF SnapInv
      <3>3. QED
        BY <3>1, <3>2
    <2>5. DOMAIN caller' = Callers
      BY <1>1 DEF MeshChanges, SnapInv
    <2>6. QED
      BY <2>2, <2>3, <2>4, <2>5 DEF SnapInv
  <1>2. ASSUME NEW c \in Callers, NEW via \in Vias, Begin(c, via) PROVE SnapInv'
    <2>1. CachesSound' /\ UNCHANGED worldVars
      BY <1>2 DEF Begin, SnapInv, CachesSound, SeenWithin, worldVars
    <2>2. CASE via = "catalog" /\ FreshView(view.age)
      <3> DEFINE x == [step |-> "answered", via |-> via, shows |-> view.shows]
      <3>1. view.shows \in BOOLEAN /\ (view.shows => SeenWithin(Staleness(via)))
        BY <1>0, <2>2 DEF SnapInv, CachesSound, SeenWithin, FreshView
      <3>2. CallerSound(x)
        BY <3>1 DEF CallerSound
      <3>3. Goes(c, x)
        BY <1>2, <2>2 DEF Begin
      <3>4. QED
        BY <2>1, <3>2, <3>3, CallersSound DEF SnapInv
    <2>3. CASE ~(via = "catalog" /\ FreshView(view.age))
      <3> DEFINE x == [step |-> "snapshot", via |-> via]
      <3>1. CallerSound(x)
        BY DEF CallerSound
      <3>2. Goes(c, x)
        BY <1>2, <2>3 DEF Begin
      <3>3. QED
        BY <2>1, <3>1, <3>2, CallersSound DEF SnapInv
    <2>4. QED
      BY <2>2, <2>3
  <1>3. ASSUME NEW c \in Callers, SnapshotHit(c) PROVE SnapInv'
    <2>1. caller[c].via \in Vias
      BY <1>3 DEF SnapshotHit, SnapInv, CallerSound, Idle
    <2>2. snap.shows \in BOOLEAN /\ (snap.shows => SeenWithin(FetchTime + (SnapTTL - 1)))
      BY <1>0, <1>3 DEF SnapshotHit, FreshSnap, SnapInv, CachesSound, SeenWithin
    <2>3. /\ WorldSound'
          /\ DOMAIN caller' = Callers /\ \A d \in Callers : CallerSound(caller[d])'
          /\ view' \in [shows : BOOLEAN, age : 0 .. Horizon]
          /\ view'.shows => SeenWithin(FetchTime + (SnapTTL - 1) + view'.age)
      BY <1>3, <2>1, <2>2, DeliverySound DEF SnapshotHit, worldVars
    <2>4. CachesSound'
      BY <1>3, <2>3 DEF SnapshotHit, SnapInv, CachesSound, SeenWithin, worldVars
    <2>5. QED
      BY <2>3, <2>4 DEF SnapInv
  <1>4. ASSUME NEW c \in Callers, FetchTable(c) PROVE SnapInv'
    <2> DEFINE x == [step |-> "table", via |-> caller[c].via, lists |-> listed, age |-> 0]
    <2>1. CachesSound' /\ UNCHANGED worldVars /\ Goes(c, x)
      BY <1>4 DEF FetchTable, SnapInv, CachesSound, SeenWithin, worldVars
    <2>2. caller[c].via \in Vias
      BY <1>4 DEF FetchTable, SnapInv, CallerSound, Idle
    <2>3. CallerSound(x)
      BY <2>2 DEF CallerSound, SnapInv, WorldSound
    <2>4. QED
      BY <2>1, <2>3, CallersSound DEF SnapInv
  <1>5. ASSUME NEW c \in Callers, ListManaged(c) PROVE SnapInv'
    <2> DEFINE x == [step |-> "policy", via |-> caller[c].via,
                     shows |-> caller[c].lists /\ Exposed(row), age |-> caller[c].age]
    <2>1. CachesSound' /\ UNCHANGED worldVars /\ Goes(c, x)
      BY <1>5 DEF ListManaged, SnapInv, CachesSound, SeenWithin, worldVars
    <2>2. /\ caller[c] \in [step : {"table"}, via : Vias, lists : BOOLEAN, age : 0 .. FetchTime]
          /\ caller[c].lists => gone <= caller[c].age
      BY <1>5 DEF ListManaged, SnapInv, CallerSound, Idle
    <2>3. CallerSound(x)
      <3> DEFINE shows == caller[c].lists /\ Exposed(row)
      <3>1. shows \in BOOLEAN /\ (shows => SeenWithin(caller[c].age))
        BY <1>0, <2>2 DEF SnapInv, WorldSound, SeenWithin
      <3> HIDE DEF shows
      <3>2. [step |-> "policy", via |-> caller[c].via, shows |-> shows, age |-> caller[c].age]
              \in [step : {"policy"}, via : Vias, shows : BOOLEAN, age : 0 .. FetchTime]
        BY <2>2, <3>1
      <3>3. CallerSound([step |-> "policy", via |-> caller[c].via, shows |-> shows, age |-> caller[c].age])
        BY <3>1, <3>2 DEF CallerSound
      <3>4. QED
        BY <3>3 DEF shows
    <2>4. QED
      BY <2>1, <2>3, CallersSound DEF SnapInv
  <1>6. ASSUME NEW c \in Callers, StoreSnapshot(c) PROVE SnapInv'
    <2>1. /\ caller[c] \in [step : {"policy"}, via : Vias, shows : BOOLEAN, age : 0 .. FetchTime]
          /\ caller[c].shows => SeenWithin(caller[c].age)
      BY <1>6 DEF StoreSnapshot, SnapInv, CallerSound, Idle
    <2>2. caller[c].shows => SeenWithin(FetchTime) /\ SeenWithin(FetchTime + (SnapTTL - 1))
      BY <1>0, <2>1 DEF SeenWithin
    <2>3. /\ WorldSound'
          /\ DOMAIN caller' = Callers /\ \A d \in Callers : CallerSound(caller[d])'
          /\ view' \in [shows : BOOLEAN, age : 0 .. Horizon]
          /\ view'.shows => SeenWithin(FetchTime + (SnapTTL - 1) + view'.age)
      BY <1>6, <2>1, <2>2, DeliverySound DEF StoreSnapshot
    <2>4. snap' = [shows |-> caller[c].shows, age |-> 0] /\ gone' = gone /\ closed' = closed
      BY <1>6 DEF StoreSnapshot, worldVars
    <2>5. CachesSound'
      BY <2>1, <2>2, <2>3, <2>4, <1>0 DEF CachesSound, SeenWithin
    <2>6. QED
      BY <2>3, <2>5 DEF SnapInv
  <1>7. ASSUME NEW c \in Callers, FetchFails(c) \/ Return(c) PROVE SnapInv'
    <2>1. CachesSound' /\ UNCHANGED worldVars /\ Goes(c, Idle)
      BY <1>7 DEF FetchFails, Return, SnapInv, CachesSound, SeenWithin, worldVars
    <2>2. CallerSound(Idle)
      BY DEF CallerSound
    <2>3. QED
      BY <2>1, <2>2, CallersSound DEF SnapInv
  <1>8. CASE SnapTick
    <2>1. /\ listed' \in BOOLEAN
          /\ gone' \in 0 .. Horizon /\ closed' \in 0 .. Horizon
          /\ gone' <= gone + 1 /\ closed' <= closed + 1
          /\ listed' => gone' = 0
          /\ Exposed(row') => closed' = 0
      BY <1>0, <1>8, AgeingBounds DEF SnapTick, SnapInv, WorldSound
    <2>2. WorldSound'
      BY <2>1 DEF WorldSound
    <2>3. /\ snap' = [shows |-> snap.shows, age |-> Aged(snap.age)]
          /\ view' = [shows |-> view.shows, age |-> Aged(view.age)]
          /\ snap.age \in 0 .. Horizon /\ view.age \in 0 .. Horizon
          /\ snap.shows \in BOOLEAN /\ view.shows \in BOOLEAN
      BY <1>8 DEF SnapTick, SnapInv, CachesSound
    <2>4. CachesSound'
      <3>1. Aged(snap.age) \in 0 .. Horizon /\ Aged(view.age) \in 0 .. Horizon
        BY <2>3, AgeingBounds
      <3>2. snap.shows => /\ gone' <= FetchTime + Aged(snap.age)
                          /\ closed' <= FetchTime + Aged(snap.age)
        BY <1>0, <2>1, <2>3, AgeingBounds DEF SnapInv, CachesSound, SeenWithin
      <3>3. view.shows => /\ gone' <= FetchTime + (SnapTTL - 1) + Aged(view.age)
                          /\ closed' <= FetchTime + (SnapTTL - 1) + Aged(view.age)
        BY <1>0, <2>1, <2>3, AgeingBounds DEF SnapInv, CachesSound, SeenWithin
      <3>4. QED
        BY <2>3, <3>1, <3>2, <3>3 DEF CachesSound, SeenWithin
    <2>5. ASSUME NEW c \in Callers PROVE CallerSound(caller[c])'
      <3> DEFINE x == caller[c]
      <3>1. caller'[c] = IF Fetching(c) THEN [x EXCEPT !.age = @ + 1] ELSE x
        BY <1>8 DEF SnapTick
      <3>2. x.step \notin {"answered", "snapshot"} /\ (Fetching(c) => x.age < FetchTime)
        BY <1>8 DEF SnapTick
      <3>3. CallerSound(x)
        BY DEF SnapInv
      <3>4. CASE x = Idle
        <4>1. caller'[c] = Idle
          BY <3>1, <3>4 DEF Fetching, Idle
        <4>2. QED
          BY <4>1 DEF CallerSound
      <3>5. CASE /\ x \in [step : {"table"}, via : Vias, lists : BOOLEAN, age : 0 .. FetchTime]
                 /\ x.lists => gone <= x.age
        <4>1. Fetching(c)
          BY <3>5 DEF Fetching
        <4>2. caller'[c] = [step |-> "table", via |-> x.via, lists |-> x.lists, age |-> x.age + 1]
          BY <3>1, <3>5, <4>1
        <4>3. x.age + 1 \in 0 .. FetchTime /\ (x.lists => gone' <= x.age + 1)
          BY <3>2, <3>5, <4>1, <2>1, <1>0
        <4>4. QED
          BY <3>5, <4>2, <4>3 DEF CallerSound
      <3>6. CASE /\ x \in [step : {"policy"}, via : Vias, shows : BOOLEAN, age : 0 .. FetchTime]
                 /\ x.shows => SeenWithin(x.age)
        <4>1. Fetching(c)
          BY <3>6 DEF Fetching
        <4>2. caller'[c] = [step |-> "policy", via |-> x.via, shows |-> x.shows, age |-> x.age + 1]
          BY <3>1, <3>6, <4>1
        <4>3. x.age + 1 \in 0 .. FetchTime
              /\ (x.shows => gone' <= x.age + 1 /\ closed' <= x.age + 1)
          BY <3>2, <3>6, <4>1, <2>1, <1>0 DEF SeenWithin
        <4>4. QED
          BY <3>6, <4>2, <4>3 DEF CallerSound, SeenWithin
      <3>7. QED
        BY <3>2, <3>3, <3>4, <3>5, <3>6 DEF CallerSound
    <2>6. DOMAIN caller' = Callers
      BY <1>8 DEF SnapTick
    <2>7. QED
      BY <2>2, <2>4, <2>5, <2>6 DEF SnapInv
  <1>9. CASE UNCHANGED snapVars
    BY <1>9 DEF snapVars, SnapInv, WorldSound, CachesSound, CallerSound, SeenWithin
  <1>10. QED
    BY <1>1, <1>2, <1>3, <1>4, <1>5, <1>6, <1>7, <1>8, <1>9 DEF SnapNext, Vias

(* Snapshot and view: for every number of requests, every TTL and every     *)
(* length of a fetch, no answer shows a service that has been delisted or   *)
(* trusted for longer than a fetch and the TTLs the answer passed, however  *)
(* the fetches overlap and whichever is stored last.                        *)
THEOREM CachesLetGo == SnapSpec => []HiddenServicesLeave
  <1>1. SnapInv => HiddenServicesLeave
    BY DEF SnapInv, HiddenServicesLeave, CallerSound, SeenWithin, Idle
  <1>2. QED
    BY <1>1, SnapStarts, SnapSteps, PTL DEF SnapSpec

-----------------------------------------------------------------------------
(* The market of the asks: peer_asks, peer_ask_config and their writers.   *)

Steps == {"idle", "config", "instance", "mesh", "replace"}
Tasks == [step : Steps, sheet : Sheets, owner : Owners \cup {NoOwner}, wallet : Owners \cup {NoOwner}]

\* A sheet that a writer took from the console, or looked up, prices no route
\* twice; a writer that is about to replace the rows has seen the owner's wallet.
TaskSound(w, t) ==
  /\ w # "node" \/ t.step = "replace" => validateAsks(t.sheet)
  /\ t.step = "replace" => t.wallet = t.owner

TablesSound ==
  /\ askConfig \in Sheets /\ validateAsks(askConfig)
  /\ market \in [sheet : Sheets, revision : Nat, left : 0 .. AskTTL]
  /\ validateAsks(market.sheet)
  /\ instOwner \in Owners \cup {NoOwner}
  /\ mesh \in [wallet : Owners, serves : SUBSET Routes]
  /\ task \in [Publishers -> Tasks]
  /\ \A w \in Publishers : TaskSound(w, task[w])

\* The histories run from the moment when nobody carried the sheet any more.
HistoriesSound ==
  /\ withdrawn \in [Priced -> 0 .. AskTTL] /\ orphaned \in 0 .. AskTTL
  /\ \A s \in Priced : Carried(s) => withdrawn[s] = 0
  /\ Vouched => orphaned = 0

AsksInv == TablesSound /\ HistoriesSound /\ StalePricesExpire

LEMMA EmptySheetValid == {} \in Sheets /\ validateAsks({})
  BY DEF Sheets, validateAsks

LEMMA IdleSound == IdleTask \in Tasks /\ \A w : TaskSound(w, IdleTask)
  BY EmptySheetValid DEF IdleTask, Tasks, Steps, TaskSound

LEMMA AsksStart == AskInit => AsksInv
  <1> SUFFICES ASSUME AskInit PROVE AsksInv
    OBVIOUS
  <1>1. TablesSound
    BY EmptySheetValid, IdleSound, AsksAssumption DEF AskInit, TablesSound
  <1>2. ASSUME NEW s \in Priced PROVE ~Carried(s)
    BY DEF AskInit, Carried, Busy, IdleTask, Priced
  <1>3. ~Vouched
    BY DEF AskInit, Vouched, BillableProvider, Busy, IdleTask
  <1>4. HistoriesSound
    BY <1>2, <1>3, AsksAssumption DEF AskInit, HistoriesSound
  <1>5. LiveAsks = {}
    BY DEF AskInit, LiveAsks
  <1>6. QED
    BY <1>1, <1>4, <1>5 DEF AsksInv, StalePricesExpire, WithdrawnPricesExpire, OrphanedPricesExpire

\* A writer that goes on to a sound task leaves all tasks sound.
LEMMA TasksStay ==
  ASSUME TablesSound, NEW w \in Publishers, NEW t \in Tasks, TaskSound(w, t), Goto(w, t)
  PROVE  task' \in [Publishers -> Tasks] /\ \A x \in Publishers : TaskSound(x, task'[x])
  BY DEF TablesSound, Goto

\* The rows are replaced with a valid sheet, or emptied.
LEMMA ReplacedSound ==
  ASSUME TablesSound, NEW sheet \in Sheets, validateAsks(sheet), ReplaceAsks(sheet)
  PROVE  /\ market' \in [sheet : Sheets, revision : Nat, left : 0 .. AskTTL]
         /\ validateAsks(market'.sheet)
  <1>1. CASE sheet = {} /\ market' = [sheet |-> {}, revision |-> 0, left |-> 0]
    BY <1>1, AsksAssumption
  <1>2. CASE market' = [sheet |-> sheet, revision |-> market.revision + 1, left |-> AskTTL]
    <2>1. market.revision + 1 \in Nat /\ AskTTL \in 0 .. AskTTL
      BY AsksAssumption DEF TablesSound
    <2>2. QED
      BY <1>2, <2>1
  <1>3. QED
    BY <1>1, <1>2 DEF ReplaceAsks, Replacement, NextRevision

LEMMA TablesStay ==
  ASSUME TablesSound, TableStep
  PROVE  TablesSound'
  <1>0. Publishers = {"node", "console", "refresher"}
    BY DEF Publishers
  <1>1. ASSUME NEW sheet \in Sheets, Handler(sheet) PROVE TablesSound'
    <2> DEFINE t == [IdleTask EXCEPT !.step = "instance", !.sheet = sheet]
    <2>1. t \in Tasks /\ TaskSound("node", t)
      BY IdleSound DEF Tasks, Steps, TaskSound, IdleTask
    <2>2. QED
      BY <1>0, <1>1, <2>1, TasksStay DEF Handler, TablesSound
  <1>2. ASSUME NEW a \in Owners, NEW sheet \in Sheets, handleAsksConfigPut(a, sheet)
        PROVE  TablesSound'
    <2> DEFINE t == [IdleTask EXCEPT !.step = "config", !.sheet = sheet, !.owner = a]
    <2>1. t \in Tasks /\ TaskSound("console", t)
      BY <1>2 DEF handleAsksConfigPut, validateAskConfig, Tasks, Steps, TaskSound, IdleTask
    <2>2. QED
      BY <1>0, <1>2, <2>1, TasksStay DEF handleAsksConfigPut, TablesSound
  <1>3. ASSUME NEW a \in Owners, handleAsksConfigDelete(a) PROVE TablesSound'
    <2> DEFINE t == [IdleTask EXCEPT !.step = "config", !.owner = a]
    <2>1. t \in Tasks /\ TaskSound("console", t)
      BY EmptySheetValid DEF Tasks, Steps, TaskSound, IdleTask
    <2>2. QED
      BY <1>0, <1>3, <2>1, TasksStay DEF handleAsksConfigDelete, TablesSound
  <1>4. CASE ReplaceAskConfig
    <2>1. task["console"] \in Tasks /\ TaskSound("console", task["console"])
      BY <1>0 DEF TablesSound
    <2> DEFINE old == task["console"]
               t == IF old.sheet = {} THEN IdleTask ELSE [old EXCEPT !.step = "instance"]
    <2>2. t \in Tasks /\ TaskSound("console", t)
      BY <2>1, IdleSound DEF Tasks, Steps, TaskSound
    <2>3. askConfig' \in Sheets /\ validateAsks(askConfig')
      BY <1>4, <2>1 DEF ReplaceAskConfig, Tasks, TaskSound
    <2>4. QED
      BY <1>0, <1>4, <2>2, <2>3, TasksStay DEF ReplaceAskConfig, TablesSound
  <1>5. CASE refreshOnce
    <2> DEFINE t == [IdleTask EXCEPT !.step = "instance", !.sheet = askConfig]
    <2>1. t \in Tasks /\ TaskSound("refresher", t)
      BY DEF Tasks, Steps, TaskSound, IdleTask, TablesSound
    <2>2. QED
      BY <1>0, <1>5, <2>1, TasksStay DEF refreshOnce, AllAskConfigs, TablesSound
  <1>6. ASSUME NEW w \in Publishers, GetInstanceByPeerID(w) PROVE TablesSound'
    <2> DEFINE t == [task[w] EXCEPT !.step = "mesh", !.owner = instOwner]
    <2>1. t \in Tasks /\ TaskSound(w, t)
      BY <1>6 DEF Tasks, Steps, TaskSound, TablesSound
    <2>2. QED
      BY <1>6, <2>1, TasksStay DEF GetInstanceByPeerID, TablesSound
  <1>7. ASSUME NEW w \in Publishers, LookupPeer(w) PROVE TablesSound'
    <2> DEFINE t == [task[w] EXCEPT !.step = "replace", !.wallet = mesh.wallet]
    <2>1. t \in Tasks /\ TaskSound(w, t)
      <3>1. task[w] \in Tasks /\ TaskSound(w, task[w]) /\ mesh.wallet \in Owners
        BY DEF TablesSound
      <3>2. validateAsks(task[w].sheet) /\ mesh.wallet = task[w].owner
        BY <1>7, <3>1 DEF LookupPeer, OwnerObserved, ValidateAsksAgainstAdvertisement, TaskSound
      <3>3. /\ t.step = "replace" /\ t.sheet = task[w].sheet
            /\ t.owner = task[w].owner /\ t.wallet = mesh.wallet /\ t \in Tasks
        BY <3>1 DEF Tasks, Steps
      <3>4. QED
        BY <3>2, <3>3 DEF TaskSound
    <2>2. QED
      BY <1>7, <2>1, TasksStay DEF LookupPeer, TablesSound
  <1>8. ASSUME NEW w \in Publishers, Publish(w) PROVE TablesSound'
    <2>1. task[w].sheet \in Sheets /\ validateAsks(task[w].sheet)
      BY <1>8 DEF Publish, Busy, TablesSound, TaskSound, Tasks
    <2>2. /\ market' \in [sheet : Sheets, revision : Nat, left : 0 .. AskTTL]
          /\ validateAsks(market'.sheet)
      BY <1>8, <2>1, ReplacedSound DEF Publish
    <2>3. QED
      BY <1>8, <2>2, IdleSound, TasksStay DEF Publish, TablesSound
  <1>9. ASSUME NEW w \in Publishers, GiveUp(w) PROVE TablesSound'
    BY <1>9, IdleSound, TasksStay DEF GiveUp, TablesSound
  <1>10. CASE DeleteInstance \/ ClaimInstance \/ PeerChanges
    BY <1>10 DEF DeleteInstance, ClaimInstance, PeerChanges, TablesSound
  <1>11. QED
    BY <1>1, <1>2, <1>3, <1>4, <1>5, <1>6, <1>7, <1>8, <1>9, <1>10 DEF TableStep

\* Only a publication changes the rows: of a sheet that its writer carried,
\* after it had found the owner's wallet.
LEMMA RowsChangeByPublication ==
  ASSUME TablesSound, TableStep, market' # market, market'.sheet # {}
  PROVE  /\ market'.left = AskTTL /\ Carried(market'.sheet) /\ Vouched
         /\ market'.sheet \in Priced
  <1>1. PICK w \in Publishers : Publish(w)
    BY DEF TableStep, Handler, handleAsksConfigPut, handleAsksConfigDelete, ReplaceAskConfig,
           refreshOnce, GetInstanceByPeerID, LookupPeer, GiveUp, DeleteInstance, ClaimInstance,
           PeerChanges
  <1>2. task[w].sheet \in Sheets /\ validateAsks(task[w].sheet) /\ task[w].wallet = task[w].owner
    BY <1>1 DEF Publish, Busy, TablesSound, TaskSound, Tasks
  <1>3. market'.sheet = task[w].sheet /\ market'.left = AskTTL
    BY <1>1 DEF Publish, ReplaceAsks, Replacement
  <1>4. task[w].step = "replace"
    BY <1>1 DEF Publish, Busy
  <1>5. Vouched
    BY <1>2, <1>4 DEF Vouched, Busy
  <1>6. market'.sheet \in Priced
    BY <1>2, <1>3 DEF Priced
  <1>7. Carried(market'.sheet)
    BY <1>3, <1>4 DEF Carried, Busy
  <1>8. QED
    BY <1>3, <1>5, <1>6, <1>7, Zenon

LEMMA LiveSheetPriced ==
  ASSUME TablesSound, LiveAsks # {}
  PROVE  market.sheet \in Priced /\ market.sheet # {} /\ market.left > 0 /\ market.left \in 1 .. AskTTL
  BY AsksAssumption DEF TablesSound, LiveAsks, Priced

LEMMA AsksSteps ==
  ASSUME AsksInv, [AskNext]_askVars
  PROVE  AsksInv'
  <1> USE AsksAssumption DEF AsksInv
  <1>1. CASE AskStep
    <2>1. TablesSound'
      BY <1>1, TablesStay DEF AskStep
    <2>2. /\ withdrawn' = [s \in Priced |-> IF Carried(s)' THEN 0 ELSE withdrawn[s]]
          /\ orphaned' = IF Vouched' THEN 0 ELSE orphaned
          /\ TableStep
      BY <1>1 DEF AskStep
    <2>3. HistoriesSound'
      BY <2>2 DEF HistoriesSound
    <2>4. ASSUME LiveAsks' # {}
          PROVE  /\ market'.left + withdrawn'[market'.sheet] <= AskTTL
                 /\ market'.left + orphaned' <= AskTTL
      <3>1. market'.sheet \in Priced /\ market'.sheet # {} /\ market'.left \in 1 .. AskTTL
        BY <2>1, <2>4 DEF TablesSound, LiveAsks, Priced
      <3>2. withdrawn'[market'.sheet] \in {0, withdrawn[market'.sheet]} /\ orphaned' \in {0, orphaned}
        BY <2>2, <3>1
      <3>3. withdrawn[market'.sheet] \in 0 .. AskTTL /\ orphaned \in 0 .. AskTTL
        BY <3>1 DEF HistoriesSound
      <3>4. CASE market' = market
        <4>1. LiveAsks # {}
          BY <2>4, <3>4 DEF LiveAsks
        <4>2. /\ market.left + withdrawn[market.sheet] <= AskTTL
              /\ market.left + orphaned <= AskTTL
          BY <4>1 DEF StalePricesExpire, WithdrawnPricesExpire, OrphanedPricesExpire
        <4>3. QED
          BY <3>1, <3>2, <3>3, <3>4, <4>2
      <3>5. CASE market' # market
        <4>1. market'.left = AskTTL /\ Carried(market'.sheet) /\ Vouched
          BY <2>2, <3>1, <3>5, RowsChangeByPublication
        <4>2. withdrawn[market'.sheet] = 0 /\ orphaned = 0
          BY <3>1, <4>1 DEF HistoriesSound
        <4>3. withdrawn'[market'.sheet] = 0 /\ orphaned' = 0
          BY <3>2, <4>2
        <4>4. AskTTL \in Nat
          OBVIOUS
        <4>5. AskTTL + 0 <= AskTTL
          BY <4>4
        <4>6. QED
          BY <4>1, <4>3, <4>5
      <3>6. QED
        BY <3>4, <3>5
    <2>5. QED
      BY <2>1, <2>3, <2>4 DEF StalePricesExpire, WithdrawnPricesExpire, OrphanedPricesExpire
  <1>2. CASE AskTick
    <2>1. /\ market' = [market EXCEPT !.left = @ - 1] /\ market.left > 0
          /\ withdrawn' = [s \in Priced |-> IF Carried(s) THEN 0 ELSE Older(withdrawn[s])]
          /\ orphaned' = IF Vouched THEN 0 ELSE Older(orphaned)
          /\ UNCHANGED <<askConfig, instOwner, mesh, task>>
      BY <1>2 DEF AskTick
    <2>2. /\ market'.sheet = market.sheet /\ market'.left = market.left - 1
          /\ market.left \in 1 .. AskTTL
          /\ market' \in [sheet : Sheets, revision : Nat, left : 0 .. AskTTL]
      BY <2>1 DEF TablesSound
    <2>3. TablesSound'
      BY <2>1, <2>2 DEF TablesSound
    <2>4. (Vouched' <=> Vouched) /\ \A s : Carried(s)' <=> Carried(s)
      BY <2>1 DEF Vouched, Carried, Busy
    <2>5. ASSUME NEW n \in 0 .. AskTTL PROVE Older(n) \in 0 .. AskTTL /\ Older(n) <= n + 1
      BY DEF Older
    <2>6. HistoriesSound'
      <3>1. ASSUME NEW s \in Priced
            PROVE  withdrawn'[s] \in 0 .. AskTTL /\ (Carried(s)' => withdrawn'[s] = 0)
        <4>1. withdrawn[s] \in 0 .. AskTTL
          BY DEF HistoriesSound
        <4>2. QED
          BY <4>1, <2>1, <2>4, <2>5
      <3>2. orphaned' \in 0 .. AskTTL /\ (Vouched' => orphaned' = 0)
        BY <2>1, <2>4, <2>5 DEF HistoriesSound
      <3>3. withdrawn' \in [Priced -> 0 .. AskTTL]
        BY <2>1, <3>1
      <3>4. QED
        BY <3>1, <3>2, <3>3 DEF HistoriesSound
    <2>7. ASSUME LiveAsks' # {}
          PROVE  /\ market'.left + withdrawn'[market'.sheet] <= AskTTL
                 /\ market'.left + orphaned' <= AskTTL
      <3>1. LiveAsks # {}
        BY <2>1, <2>2, <2>7 DEF LiveAsks
      <3>2. market.sheet \in Priced
        BY <3>1, LiveSheetPriced
      <3>3. /\ market.left + withdrawn[market.sheet] <= AskTTL
            /\ market.left + orphaned <= AskTTL
        BY <3>1 DEF StalePricesExpire, WithdrawnPricesExpire, OrphanedPricesExpire
      <3>4. withdrawn[market.sheet] \in 0 .. AskTTL /\ orphaned \in 0 .. AskTTL
        BY <3>2 DEF HistoriesSound
      <3>5. /\ withdrawn'[market.sheet] \in 0 .. withdrawn[market.sheet] + 1
            /\ orphaned' \in 0 .. orphaned + 1
        BY <2>1, <2>5, <3>2, <3>4
      <3>6. QED
        BY <2>2, <3>3, <3>4, <3>5
    <2>8. QED
      BY <2>3, <2>6, <2>7 DEF StalePricesExpire, WithdrawnPricesExpire, OrphanedPricesExpire
  <1>3. CASE UNCHANGED askVars
    BY <1>3 DEF askVars, tableVars, TablesSound, HistoriesSound, Carried, Vouched, Busy,
       StalePricesExpire, WithdrawnPricesExpire, OrphanedPricesExpire, LiveAsks
  <1>4. QED
    BY <1>1, <1>2, <1>3 DEF AskNext

(* ReplaceAsks and its three writers: for every TTL, every set of routes    *)
(* and prices and every interleaving of owner changes, deletions and        *)
(* refreshes, prices that nobody stands behind any more leave the market    *)
(* within the TTL.                                                          *)
THEOREM MarketForgets == AskSpec => []StalePricesExpire
  <1>1. AsksInv => StalePricesExpire
    BY DEF AsksInv
  <1>2. QED
    BY <1>1, AsksStart, AsksSteps, PTL DEF AskSpec

-----------------------------------------------------------------------------
(* Sequences of samples.                                                   *)

\* Every element is a repetition or larger than all before it.
Grows(s) ==
  \A j \in 1 .. Len(s) : \/ \E k \in 1 .. j - 1 : s[k] = s[j]
                         \/ \A k \in 1 .. j - 1 : s[k] < s[j]

NoRepeats(s) == \A i, j \in 1 .. Len(s) : i < j => s[i] # s[j]

LEMMA Concatenation ==
  \A a, b \in Seq(Nat) :
    /\ a \o b \in Seq(Nat) /\ Len(a \o b) = Len(a) + Len(b)
    /\ \A i \in 1 .. Len(a) + Len(b) : (a \o b)[i] = IF i <= Len(a) THEN a[i] ELSE b[i - Len(a)]
  BY ConcatProperties

LEMMA Associativity == \A a, b, c \in Seq(Nat) : (a \o b) \o c = a \o (b \o c)
  BY ConcatAssociative

LEMMA AppendConcatenates == \A a \in Seq(Nat), n \in Nat : Append(a, n) = a \o <<n>> /\ <<n>> \in Seq(Nat)
  BY AppendIsConcat

LEMMA RangeOfConcat ==
  ASSUME NEW a \in Seq(Nat), NEW b \in Seq(Nat)
  PROVE  ToSet(a \o b) = ToSet(a) \cup ToSet(b)
  <1>1. /\ a \o b \in Seq(Nat) /\ Len(a \o b) = Len(a) + Len(b)
        /\ \A i \in 1 .. Len(a) + Len(b) : (a \o b)[i] = IF i <= Len(a) THEN a[i] ELSE b[i - Len(a)]
    BY Concatenation
  <1>2. Len(a) \in Nat /\ Len(b) \in Nat /\ DOMAIN a = 1 .. Len(a) /\ DOMAIN b = 1 .. Len(b)
        /\ DOMAIN (a \o b) = 1 .. Len(a) + Len(b)
    BY <1>1, LenProperties
  <1>3. ASSUME NEW x \in ToSet(a) PROVE x \in ToSet(a \o b)
    BY <1>1, <1>2, <1>3 DEF ToSet
  <1>4. ASSUME NEW x \in ToSet(b) PROVE x \in ToSet(a \o b)
    <2>1. PICK i \in 1 .. Len(b) : x = b[i]
      BY <1>2, <1>4 DEF ToSet
    <2>2. i + Len(a) \in 1 .. Len(a) + Len(b) /\ (a \o b)[i + Len(a)] = b[i]
      BY <1>1, <1>2, <2>1
    <2>3. QED
      BY <1>2, <2>1, <2>2 DEF ToSet
  <1>5. ASSUME NEW x \in ToSet(a \o b) PROVE x \in ToSet(a) \cup ToSet(b)
    <2>1. PICK i \in 1 .. Len(a) + Len(b) : x = (a \o b)[i]
      BY <1>2, <1>5 DEF ToSet
    <2>2. CASE i <= Len(a)
      BY <1>1, <1>2, <2>1, <2>2 DEF ToSet
    <2>3. CASE i > Len(a)
      <3>1. i - Len(a) \in 1 .. Len(b) /\ x = b[i - Len(a)]
        BY <1>1, <1>2, <2>1, <2>3
      <3>2. QED
        BY <1>2, <3>1 DEF ToSet
    <2>4. QED
      BY <1>2, <2>1, <2>2, <2>3
  <1>6. QED
    BY <1>3, <1>4, <1>5

\* A larger element is appended.
LEMMA GrowsByAppend ==
  ASSUME NEW s \in Seq(Nat), NEW n \in Nat, \A x \in ToSet(s) : x < n
  PROVE  /\ Append(s, n) \in Seq(Nat)
         /\ ToSet(Append(s, n)) = ToSet(s) \cup {n}
         /\ Grows(s) => Grows(Append(s, n))
         /\ NoRepeats(s) => NoRepeats(Append(s, n))
  <1> DEFINE t == Append(s, n)
  <1>1. /\ t \in Seq(Nat) /\ Len(t) = Len(s) + 1 /\ Len(s) \in Nat
        /\ DOMAIN s = 1 .. Len(s) /\ DOMAIN t = 1 .. Len(s) + 1
        /\ t[Len(s) + 1] = n /\ \A i \in 1 .. Len(s) : t[i] = s[i]
    OBVIOUS
  <1>2. \A i \in 1 .. Len(s) : s[i] \in Nat /\ s[i] < n
    BY <1>1 DEF ToSet
  <1> HIDE DEF t
  <1>3. ToSet(t) = ToSet(s) \cup {n}
    <2>1. ASSUME NEW x \in ToSet(s) \cup {n} PROVE x \in ToSet(t)
      <3>1. CASE x = n
        <4>1. Len(s) + 1 \in DOMAIN t
          BY <1>1
        <4>2. QED
          BY <1>1, <3>1, <4>1 DEF ToSet
      <3>2. CASE x \in ToSet(s)
        BY <1>1, <3>2 DEF ToSet
      <3>3. QED
        BY <2>1, <3>1, <3>2
    <2>2. ASSUME NEW x \in ToSet(t) PROVE x \in ToSet(s) \cup {n}
      <3>1. PICK i \in 1 .. Len(s) + 1 : x = t[i]
        BY <1>1, <2>2 DEF ToSet
      <3>2. i \in 1 .. Len(s) \/ i = Len(s) + 1
        BY <1>1
      <3>3. QED
        BY <1>1, <3>1, <3>2 DEF ToSet
    <2>3. QED
      BY <2>1, <2>2
  <1>4. ASSUME Grows(s) PROVE Grows(t)
    <2>1. ASSUME NEW j \in 1 .. Len(s) + 1
          PROVE  \/ \E k \in 1 .. j - 1 : t[k] = t[j]
                 \/ \A k \in 1 .. j - 1 : t[k] < t[j]
      <3>1. CASE j = Len(s) + 1
        BY <1>1, <1>2, <3>1
      <3>2. CASE j \in 1 .. Len(s)
        <4>1. t[j] = s[j] /\ \A k \in 1 .. j - 1 : t[k] = s[k]
          BY <1>1, <3>2
        <4>2. QED
          BY <1>4, <3>2, <4>1 DEF Grows
      <3>3. j = Len(s) + 1 \/ j \in 1 .. Len(s)
        BY <1>1
      <3>4. QED
        BY <3>1, <3>2, <3>3
    <2>2. QED
      BY <1>1, <2>1 DEF Grows
  <1>5. ASSUME NoRepeats(s) PROVE NoRepeats(t)
    <2>1. ASSUME NEW i \in 1 .. Len(s) + 1, NEW j \in 1 .. Len(s) + 1, i < j
          PROVE  t[i] # t[j]
      <3>1. i \in 1 .. Len(s)
        BY <1>1, <2>1
      <3>2. CASE j = Len(s) + 1
        BY <1>1, <1>2, <3>1, <3>2
      <3>3. CASE j \in 1 .. Len(s)
        BY <1>1, <1>5, <2>1, <3>1, <3>3 DEF NoRepeats
      <3>4. QED
        BY <1>1, <3>2, <3>3
    <2>2. QED
      BY <1>1, <2>1 DEF NoRepeats
  <1>6. QED
    BY <1>1, <1>3, <1>4, <1>5 DEF t

\* The n elements up to place m are repeated after it.
LEMMA GrowsByIndex ==
  ASSUME NEW s, NEW t, NEW m \in Nat, NEW n \in Nat, NEW l \in Nat, n <= m,
         Len(s) = m + l, Len(t) = m + n + l,
         \A i \in 1 .. m : t[i] = s[i],
         \A i \in m + 1 .. m + n + l : t[i] = s[i - n],
         Grows(s)
  PROVE  Grows(t)
  <1>1. ASSUME NEW j \in 1 .. m + l
        PROVE  \/ \E k \in 1 .. j - 1 : s[k] = s[j]
               \/ \A k \in 1 .. j - 1 : s[k] < s[j]
    BY DEF Grows
  <1>2. ASSUME NEW j \in 1 .. m + n + l
        PROVE  \/ \E k \in 1 .. j - 1 : t[k] = t[j]
               \/ \A k \in 1 .. j - 1 : t[k] < t[j]
    <2>1. CASE j <= m
      <3>1. j \in 1 .. m + l /\ t[j] = s[j] /\ \A k \in 1 .. j - 1 : t[k] = s[k]
        BY <2>1
      <3>2. QED
        BY <1>1, <3>1
    <2>2. CASE j > m /\ j <= m + n
      <3>1. j \in m + 1 .. m + n + l /\ j - n \in 1 .. m /\ j - n \in 1 .. j - 1
        BY <2>2
      <3>2. t[j - n] = s[j - n] /\ t[j] = s[j - n]
        BY <3>1
      <3>3. QED
        BY <3>1, <3>2
    <2>3. CASE j > m + n
      <3>1. PICK i \in 1 .. m + l : i = j - n /\ i > m /\ t[j] = s[i]
        BY <2>3
      <3>2. ASSUME NEW k \in 1 .. i - 1, s[k] = s[i] PROVE \E x \in 1 .. j - 1 : t[x] = t[j]
        <4>1. CASE k <= m
          <5>1. k \in 1 .. m /\ k \in 1 .. j - 1
            BY <3>1, <4>1
          <5>2. QED
            BY <3>1, <3>2, <5>1
        <4>2. CASE k > m
          <5>1. k + n \in m + 1 .. m + n + l /\ k + n \in 1 .. j - 1 /\ (k + n) - n = k
            BY <3>1, <4>2
          <5>2. t[k + n] = s[k]
            BY <5>1
          <5>3. QED
            BY <3>1, <3>2, <5>1, <5>2
        <4>3. QED
          BY <4>1, <4>2
      <3>3. ASSUME \A k \in 1 .. i - 1 : s[k] < s[i], NEW x \in 1 .. j - 1 PROVE t[x] < t[j]
        <4>1. CASE x <= m
          <5>1. x \in 1 .. i - 1 /\ x \in 1 .. m
            BY <3>1, <4>1
          <5>2. t[x] = s[x] /\ s[x] < s[i]
            BY <3>3, <5>1
          <5>3. QED
            BY <3>1, <5>2
        <4>2. CASE x > m
          <5>1. x \in m + 1 .. m + n + l /\ x - n \in 1 .. i - 1
            BY <3>1, <4>2
          <5>2. t[x] = s[x - n] /\ s[x - n] < s[i]
            BY <3>3, <5>1
          <5>3. QED
            BY <3>1, <5>2
        <4>3. QED
          BY <4>1, <4>2
      <3>4. QED
        BY <1>1, <3>1, <3>2, <3>3
    <2>4. QED
      BY <2>1, <2>2, <2>3
  <1>3. QED
    BY <1>2 DEF Grows

\* A batch is stored once more.
LEMMA GrowsByRepetition ==
  ASSUME NEW a \in Seq(Nat), NEW b \in Seq(Nat), NEW c \in Seq(Nat), Grows((a \o b) \o c)
  PROVE  Grows(((a \o b) \o b) \o c)
  <1> DEFINE ab == a \o b
             abb == ab \o b
             s == ab \o c
             t == abb \o c
             n == Len(b)
             m == Len(a) + n
             l == Len(c)
  <1>1. Len(a) \in Nat /\ n \in Nat /\ l \in Nat /\ m \in Nat /\ n <= m
    BY LenProperties
  <1>2. /\ ab \in Seq(Nat) /\ Len(ab) = m
        /\ \A i \in 1 .. m : ab[i] = IF i <= Len(a) THEN a[i] ELSE b[i - Len(a)]
    BY Concatenation
  <1> HIDE DEF ab
  <1>3. /\ abb \in Seq(Nat) /\ Len(abb) = m + n
        /\ \A i \in 1 .. m + n : abb[i] = IF i <= m THEN ab[i] ELSE b[i - m]
    BY <1>2, Concatenation
  <1> HIDE DEF abb
  <1>4. Len(s) = m + l /\ \A i \in 1 .. m + l : s[i] = IF i <= m THEN ab[i] ELSE c[i - m]
    <2>1. /\ Len(s) = Len(ab) + Len(c)
          /\ \A i \in 1 .. Len(ab) + Len(c) : s[i] = IF i <= Len(ab) THEN ab[i] ELSE c[i - Len(ab)]
      BY <1>2, Concatenation, Zenon
    <2> HIDE DEF s, m
    <2>2. QED
      BY <1>2, <2>1
  <1>5. Len(t) = m + n + l /\ \A i \in 1 .. m + n + l : t[i] = IF i <= m + n THEN abb[i] ELSE c[i - (m + n)]
    <2>1. /\ Len(t) = Len(abb) + Len(c)
          /\ \A i \in 1 .. Len(abb) + Len(c) : t[i] = IF i <= Len(abb) THEN abb[i] ELSE c[i - Len(abb)]
      BY <1>3, Concatenation, Zenon
    <2> HIDE DEF t, m, n
    <2>2. QED
      BY <1>3, <2>1
  <1> HIDE DEF s, t, l
  <1>6. ASSUME NEW i \in 1 .. m PROVE t[i] = s[i]
    <2>1. i \in 1 .. m + n /\ i \in 1 .. m + l /\ i \in 1 .. m + n + l /\ i <= m + n /\ i <= m
      BY <1>1
    <2>2. QED
      BY <1>3, <1>4, <1>5, <2>1
  <1>7. ASSUME NEW i \in m + 1 .. m + n + l PROVE t[i] = s[i - n]
    <2>1. i \in 1 .. m + n + l /\ i - n \in 1 .. m + l /\ ~(i <= m)
      BY <1>1
    <2>2. CASE i <= m + n
      <3>1. i \in 1 .. m + n /\ i - n \in 1 .. m /\ i - n <= m /\ ~(i - n <= Len(a))
            /\ i - n - Len(a) = i - m
        BY <1>1, <2>1, <2>2
      <3>2. t[i] = b[i - m]
        BY <1>3, <1>5, <2>1, <2>2, <3>1
      <3>3. s[i - n] = ab[i - n] /\ ab[i - n] = b[i - n - Len(a)]
        BY <1>2, <1>4, <2>1, <3>1
      <3>4. QED
        BY <3>1, <3>2, <3>3
    <2>3. CASE ~(i <= m + n)
      <3>1. ~(i - n <= m) /\ i - (m + n) = i - n - m
        BY <1>1, <2>1, <2>3
      <3>2. QED
        BY <1>4, <1>5, <2>1, <2>3, <3>1
    <2>4. QED
      BY <2>2, <2>3
  <1>8. Grows(s)
    BY DEF s, ab
  <1>9. Grows(t)
    <2> HIDE DEF m, n
    <2>1. QED
      BY <1>1, <1>4, <1>5, <1>6, <1>7, <1>8, GrowsByIndex
  <1>10. QED
    BY <1>9 DEF t, abb, ab

\* Without repetition a sequence is as long as its range.
LEMMA LengthIsCardinality ==
  ASSUME NEW s \in Seq(Nat), NoRepeats(s)
  PROVE  Len(s) = Cardinality(ToSet(s))
  <1>1. Len(s) \in Nat /\ DOMAIN s = 1 .. Len(s)
    BY LenProperties
  <1>2. s \in [1 .. Len(s) -> ToSet(s)]
    BY <1>1 DEF ToSet
  <1>3. \A i, j \in 1 .. Len(s) : s[i] = s[j] => i = j
    BY <1>1 DEF NoRepeats
  <1>4. \A x \in ToSet(s) : \E i \in 1 .. Len(s) : s[i] = x
    BY <1>1 DEF ToSet
  <1>5. ExistsBijection(1 .. Len(s), ToSet(s))
    <2>1. s \in Injection(1 .. Len(s), ToSet(s))
      BY <1>1, <1>2, <1>3 DEF Injection, IsInjective
    <2>2. s \in Surjection(1 .. Len(s), ToSet(s))
      BY <1>2, <1>4 DEF Surjection
    <2>3. QED
      BY <2>1, <2>2 DEF ExistsBijection, Bijection
  <1>6. QED
    BY <1>1, <1>5, FS_CountingElements

-----------------------------------------------------------------------------
(* The perf sinks.                                                         *)

\* What is stored, kept and queued, in this order.
Held == (rows \o pending) \o queue

SinkTyped ==
  /\ rows \in Seq(Nat) /\ pending \in Seq(Nat) /\ queue \in Seq(Nat)
  /\ seen \in Nat /\ sink \in {"clickhouse", "tinybird"}
  /\ repeated \in BOOLEAN /\ kept \in BOOLEAN

\* Every sample is held or was dropped; the held ones are in their order.
HeldSound ==
  /\ 1 .. seen = ToSet(Held) \cup dropped
  /\ dropped \cap ToSet(Held) = {}
  /\ Grows(Held)
  /\ ~repeated => NoRepeats(Held)

\* After a complete drain, only what came since is queued.
DrainSound ==
  /\ missed \subseteq 1 .. seen
  /\ (sinkStep \in {"last", "stopped"} /\ (sink = "tinybird" \/ ~kept)) => ToSet(queue) \subseteq missed

SinkInv == SinkTyped /\ HeldSound /\ DrainSound

LEMMA HeldIsSequence ==
  ASSUME SinkTyped
  PROVE  Held \in Seq(Nat) /\ rows \o pending \in Seq(Nat)
  BY Concatenation DEF SinkTyped, Held

LEMMA SinkStarts == SinkInit => SinkInv
  <1> SUFFICES ASSUME SinkInit PROVE SinkInv
    OBVIOUS
  <1>1. SinkTyped
    <2>1. <<>> \in Seq(Nat)
      BY EmptySeq
    <2>2. QED
      BY <2>1 DEF SinkInit, SinkTyped
  <1>2. Held = <<>>
    BY DEF SinkInit, Held
  <1>3. Len(<<>>) = 0 /\ ToSet(<<>>) = {}
    BY DEF ToSet
  <1>4. 1 .. seen = {} /\ dropped = {}
    BY DEF SinkInit
  <1>5. HeldSound
    <2>1. Grows(<<>>) /\ NoRepeats(<<>>)
      BY <1>3 DEF Grows, NoRepeats
    <2>2. QED
      BY <1>2, <1>3, <1>4, <2>1 DEF HeldSound
  <1>6. DrainSound
    BY DEF SinkInit, DrainSound
  <1>7. QED
    BY <1>1, <1>5, <1>6 DEF SinkInv

\* The queue is its first part and the rest.
LEMMA QueueSplits ==
  ASSUME SinkTyped
  PROVE  /\ FirstOf(BatchSize) \in Seq(Nat) /\ AfterFirst(BatchSize) \in Seq(Nat)
         /\ FirstOf(BatchSize) \o AfterFirst(BatchSize) = queue
         /\ FirstOf(BatchSize) = <<>> => AfterFirst(BatchSize) = <<>>
  <1> DEFINE n == LeastOf(BatchSize, Len(queue))
  <1>1. Len(queue) \in Nat /\ queue \in Seq(Nat) /\ \A i \in 1 .. Len(queue) : queue[i] \in Nat
    BY DEF SinkTyped
  <1>2. n \in 0 .. Len(queue) /\ (n = 0 => Len(queue) = 0)
    BY <1>1, SinksAssumption DEF LeastOf
  <1> HIDE DEF n
  <1>3. FirstOf(BatchSize) = SubSeq(queue, 1, n) /\ AfterFirst(BatchSize) = SubSeq(queue, n + 1, Len(queue))
    BY DEF FirstOf, AfterFirst, n
  <1>4. SubSeq(queue, 1, n) \in Seq(Nat) /\ Len(SubSeq(queue, 1, n)) = n
    BY <1>1, <1>2, SubSeqProperties
  <1>5. SubSeq(queue, n + 1, Len(queue)) \in Seq(Nat)
    BY <1>1, <1>2, SubSeqProperties
  <1>6. SubSeq(queue, 1, n) \o SubSeq(queue, n + 1, Len(queue)) = SubSeq(queue, 1, Len(queue))
    <2>1. /\ 1 \in 1 .. Len(queue) + 1 /\ n \in 1 - 1 .. Len(queue)
          /\ Len(queue) \in n .. Len(queue)
      BY <1>1, <1>2
    <2>2. QED
      BY <1>1, <2>1, ConcatAdjacentSubSeq, Zenon
  <1>7. SubSeq(queue, 1, Len(queue)) = queue
    BY <1>1, SubSeqFull
  <1>8. ASSUME SubSeq(queue, 1, n) = <<>> PROVE SubSeq(queue, n + 1, Len(queue)) = <<>>
    <2>1. n = 0 /\ Len(queue) = 0
      BY <1>2, <1>4, <1>8
    <2>2. QED
      BY <2>1, SubSeqEmpty
  <1>9. QED
    BY <1>3, <1>4, <1>5, <1>6, <1>7, <1>8

\* A drain moves rows from the queue to the batch and loses none.
LEMMA DrainRegroups ==
  ASSUME SinkTyped
  PROVE  (rows \o (pending \o FirstOf(BatchSize))) \o AfterFirst(BatchSize) = Held
  <1>1. rows \in Seq(Nat) /\ pending \in Seq(Nat)
    BY DEF SinkTyped
  <1>2. PICK f \in Seq(Nat), q \in Seq(Nat) :
          f = FirstOf(BatchSize) /\ q = AfterFirst(BatchSize) /\ f \o q = queue
    BY QueueSplits
  <1>3. (rows \o pending) \o f = rows \o (pending \o f)
    BY <1>1, Associativity
  <1>4. PICK m \in Seq(Nat) : m = rows \o pending
    BY <1>1, Concatenation
  <1>5. (m \o f) \o q = m \o (f \o q)
    BY Associativity
  <1>6. QED
    BY <1>2, <1>3, <1>4, <1>5 DEF Held

\* A step that moves samples along leaves the held ones as they are.
LEMMA HeldStays ==
  ASSUME HeldSound, Held' = Held, UNCHANGED <<seen, dropped>>, repeated => repeated'
  PROVE  HeldSound'
  BY DEF HeldSound

LEMMA SinkSteps ==
  ASSUME SinkInv, [SinkNext]_sinkVars
  PROVE  SinkInv'
  <1> USE DEF SinkInv
  <1>0. /\ rows \in Seq(Nat) /\ pending \in Seq(Nat) /\ queue \in Seq(Nat) /\ seen \in Nat
        /\ Held \in Seq(Nat) /\ rows \o pending \in Seq(Nat)
    BY HeldIsSequence DEF SinkTyped
  <1>1. CASE Observe
    <2>1. seen' = seen + 1 /\ UNCHANGED <<sink, sinkStep, stopping, pending, rows, repeated, kept>>
      BY <1>1 DEF Observe, runVars
    <2>2. missed' = missed \cup (IF sinkStep \in {"last", "stopped"} THEN {seen + 1} ELSE {})
      BY <1>1 DEF Observe
    <2>3. 1 .. seen' = (1 .. seen) \cup {seen + 1} /\ seen + 1 \notin 1 .. seen
      BY <1>0, <2>1
    <2>4. \A x \in ToSet(Held) : x < seen + 1
      BY <1>0 DEF HeldSound
    <2>5. CASE Len(queue) < QueueSize
      <3>1. queue' = Append(queue, seen + 1) /\ dropped' = dropped
        BY <1>1, <2>5 DEF Observe
      <3>2. \A x \in ToSet(queue) : x < seen + 1
        <4>1. ToSet(Held) = ToSet(rows \o pending) \cup ToSet(queue)
          BY <1>0, RangeOfConcat DEF Held
        <4>2. QED
          BY <2>4, <4>1
      <3>3. /\ queue' \in Seq(Nat) /\ ToSet(queue') = ToSet(queue) \cup {seen + 1}
        <4>1. seen + 1 \in Nat
          BY <1>0
        <4>2. QED
          BY <1>0, <3>1, <3>2, <4>1, GrowsByAppend, Zenon
      <3>4. Held' = Append(Held, seen + 1)
        <4>1. Held' = (rows \o pending) \o Append(queue, seen + 1)
          BY <2>1, <3>1 DEF Held
        <4>2. Append(queue, seen + 1) = queue \o <<seen + 1>> /\ <<seen + 1>> \in Seq(Nat)
          <5>1. seen + 1 \in Nat
            BY <1>0
          <5>2. QED
            BY <1>0, <5>1, AppendConcatenates, Zenon
        <4>3. (rows \o pending) \o (queue \o <<seen + 1>>) = Held \o <<seen + 1>>
          BY <1>0, <4>2, Associativity DEF Held
        <4>4. Append(Held, seen + 1) = Held \o <<seen + 1>>
          BY <1>0, AppendConcatenates
        <4>5. QED
          BY <4>1, <4>2, <4>3, <4>4
      <3>5. /\ ToSet(Held') = ToSet(Held) \cup {seen + 1}
            /\ Grows(Held) => Grows(Held')
            /\ NoRepeats(Held) => NoRepeats(Held')
        BY <1>0, <2>4, <3>4, GrowsByAppend
      <3>6. HeldSound'
        BY <2>1, <2>3, <3>1, <3>5 DEF HeldSound
      <3>7. SinkTyped'
        BY <1>0, <2>1, <3>3 DEF SinkTyped
      <3>8. DrainSound'
        BY <2>1, <2>2, <2>3, <3>3 DEF DrainSound
      <3>9. QED
        BY <3>6, <3>7, <3>8
    <2>6. CASE ~(Len(queue) < QueueSize)
      <3>1. queue' = queue /\ dropped' = dropped \cup {seen + 1}
        BY <1>1, <2>6 DEF Observe
      <3>2. Held' = Held
        BY <2>1, <3>1 DEF Held
      <3>3. HeldSound'
        BY <2>1, <2>3, <3>1, <3>2 DEF HeldSound
      <3>4. SinkTyped'
        BY <1>0, <2>1, <3>1 DEF SinkTyped
      <3>5. DrainSound'
        BY <2>1, <2>2, <2>3, <3>1 DEF DrainSound
      <3>6. QED
        BY <3>3, <3>4, <3>5
    <2>7. QED
      BY <2>5, <2>6
  <1>2. CASE Flush
    <2>1. UNCHANGED <<sink, stopping, rows, seen, dropped, repeated, kept, missed>> /\ sinkStep' = "inserting"
      BY <1>2 DEF Flush
    <2>2. CASE pending = <<>>
      <3> DEFINE f == FirstOf(BatchSize)
                 q == AfterFirst(BatchSize)
      <3>1. pending' = f /\ queue' = q
        BY <1>2, <2>2 DEF Flush
      <3>2. f \in Seq(Nat) /\ q \in Seq(Nat) /\ f \o q = queue
        BY QueueSplits
      <3> HIDE DEF f, q
      <3>3. Held' = rows \o (f \o q)
        <4>1. Held' = (rows \o f) \o q
          BY <2>1, <3>1 DEF Held
        <4>2. (rows \o f) \o q = rows \o (f \o q)
          <5>1. rows \in Seq(Nat) /\ f \in Seq(Nat) /\ q \in Seq(Nat)
            BY <1>0, <3>2
          <5>2. QED
            BY <5>1, Associativity, Zenon
        <4>3. QED
          BY <4>1, <4>2
      <3>4. Held = rows \o queue
        BY <1>0, <2>2, ConcatEmptySeq DEF Held
      <3>5. Held' = Held
        BY <3>2, <3>3, <3>4
      <3>6. SinkTyped' /\ DrainSound'
        BY <2>1, <3>1, <3>2 DEF SinkTyped, DrainSound
      <3>7. QED
        BY <2>1, <3>5, <3>6, HeldStays
    <2>3. CASE pending # <<>>
      <3>1. pending' = pending /\ queue' = queue
        BY <1>2, <2>3 DEF Flush
      <3>2. Held' = Held
        BY <2>1, <3>1 DEF Held
      <3>3. SinkTyped' /\ DrainSound'
        BY <2>1, <3>1 DEF SinkTyped, DrainSound
      <3>4. QED
        BY <2>1, <3>2, <3>3, HeldStays
    <2>4. QED
      BY <2>2, <2>3
  <1>3. ASSUME rows' = rows \o pending, pending' = <<>>, UNCHANGED <<queue, seen, dropped, repeated>>
        PROVE  Held' = Held /\ HeldSound'
    <2>1. Held' = (rows \o pending) \o queue
      BY <1>0, <1>3, ConcatEmptySeq DEF Held
    <2>2. Held' = Held
      BY <2>1 DEF Held
    <2>3. QED
      BY <1>3, <2>2, HeldStays
  <1>4. CASE Insert
    <2>1. /\ rows' = rows \o pending /\ pending' = <<>> /\ sinkStep' = "waiting"
          /\ UNCHANGED <<sink, stopping, queue, seen, dropped, repeated, kept, missed>>
      BY <1>4 DEF Insert
    <2>2. SinkTyped' /\ DrainSound'
      BY <1>0, <2>1 DEF SinkTyped, DrainSound
    <2>3. QED
      BY <1>3, <2>1, <2>2
  <1>5. ASSUME NEW stored \in BOOLEAN, InsertFails(stored) PROVE SinkInv'
    <2>1. /\ rows' = IF stored THEN rows \o pending ELSE rows
          /\ repeated' = (repeated \/ stored) /\ pending' = pending /\ sinkStep' = "waiting"
          /\ UNCHANGED <<sink, stopping, queue, seen, dropped, kept, missed>>
      BY <1>5 DEF InsertFails, Retained
    <2>2. SinkTyped' /\ DrainSound'
      BY <1>0, <2>1 DEF SinkTyped, DrainSound
    <2>3. CASE stored
      <3>1. Held' = ((rows \o pending) \o pending) \o queue /\ repeated' = TRUE
        BY <2>1, <2>3 DEF Held
      <3>2. Grows(Held')
        BY <1>0, <3>1, GrowsByRepetition DEF HeldSound, Held
      <3>3. ToSet(Held') = ToSet(Held)
        <4>1. (rows \o pending) \o pending \in Seq(Nat)
          BY <1>0, Concatenation
        <4>2. ToSet(Held') = (ToSet(rows \o pending) \cup ToSet(pending)) \cup ToSet(queue)
          BY <1>0, <3>1, <4>1, RangeOfConcat
        <4>3. ToSet(Held) = ToSet(rows \o pending) \cup ToSet(queue)
          BY <1>0, RangeOfConcat DEF Held
        <4>4. ToSet(rows \o pending) = ToSet(rows) \cup ToSet(pending)
          BY <1>0, RangeOfConcat
        <4>5. QED
          BY <4>2, <4>3, <4>4
      <3>4. HeldSound'
        BY <2>1, <3>1, <3>2, <3>3 DEF HeldSound
      <3>5. QED
        BY <2>2, <3>4
    <2>4. CASE ~stored
      <3>1. Held' = Held
        BY <2>1, <2>4 DEF Held
      <3>2. QED
        BY <2>1, <2>2, <3>1, HeldStays
    <2>5. QED
      BY <2>3, <2>4
  <1>6. CASE Stop
    <2>1. UNCHANGED <<sink, sinkStep, queue, pending, rows, seen, dropped, repeated, kept, missed>>
      BY <1>6 DEF Stop
    <2>2. Held' = Held
      BY <2>1 DEF Held
    <2>3. SinkTyped' /\ DrainSound'
      BY <2>1 DEF SinkTyped, DrainSound
    <2>4. QED
      BY <2>1, <2>2, <2>3, HeldStays
  <1>7. CASE ContextDone
    <2>1. /\ kept' = (pending # <<>>) /\ sinkStep' = IF Drains THEN "draining" ELSE "last"
          /\ UNCHANGED <<sink, stopping, queue, pending, rows, seen, dropped, repeated, missed>>
      BY <1>7 DEF ContextDone
    <2>2. Held' = Held
      BY <2>1 DEF Held
    <2>3. SinkTyped'
      BY <2>1 DEF SinkTyped
    <2>4. DrainSound'
      BY <2>1 DEF DrainSound, Drains
    <2>5. QED
      BY <2>1, <2>2, <2>3, <2>4, HeldStays
  <1>8. CASE Drain
    <2>1. /\ pending' = pending \o FirstOf(BatchSize) /\ queue' = AfterFirst(BatchSize)
          /\ sinkStep' = IF FirstOf(BatchSize) # <<>> THEN "draining" ELSE "last"
          /\ UNCHANGED <<sink, stopping, rows, seen, dropped, repeated, kept, missed>>
      BY <1>8 DEF Drain, DrainMore
    <2>2. /\ FirstOf(BatchSize) \in Seq(Nat) /\ AfterFirst(BatchSize) \in Seq(Nat)
          /\ FirstOf(BatchSize) \o AfterFirst(BatchSize) = queue
          /\ FirstOf(BatchSize) = <<>> => AfterFirst(BatchSize) = <<>>
      BY QueueSplits
    <2>3. Held' = (rows \o (pending \o FirstOf(BatchSize))) \o AfterFirst(BatchSize)
      BY <2>1 DEF Held
    <2>4. Held' = Held
      BY <2>3, DrainRegroups
    <2>5. SinkTyped'
      <3>1. pending' \in Seq(Nat)
        BY <1>0, <2>1, <2>2, Concatenation
      <3>2. QED
        BY <2>1, <2>2, <3>1 DEF SinkTyped
    <2>6. DrainSound'
      <3>1. ToSet(<<>>) = {}
        BY DEF ToSet
      <3>2. sinkStep' \in {"last", "stopped"} => ToSet(queue') = {}
        BY <2>1, <2>2, <3>1
      <3>3. QED
        BY <2>1, <3>2 DEF DrainSound
    <2>7. QED
      BY <2>1, <2>4, <2>5, <2>6, HeldStays
  <1>9. ASSUME NEW stored \in BOOLEAN, LastInsert(stored) PROVE SinkInv'
    <2>1. /\ sinkStep = "last" /\ sinkStep' = "stopped"
          /\ UNCHANGED <<sink, stopping, queue, seen, dropped, repeated, kept, missed>>
      BY <1>9 DEF LastInsert
    <2>2. /\ rows' = IF stored THEN rows \o pending ELSE rows
          /\ pending' = IF stored THEN <<>> ELSE pending
      BY <1>9 DEF LastInsert
    <2>3. SinkTyped' /\ DrainSound'
      BY <1>0, <2>1, <2>2 DEF SinkTyped, DrainSound
    <2>4. CASE stored
      BY <1>3, <2>1, <2>2, <2>3, <2>4
    <2>5. CASE ~stored
      <3>1. Held' = Held
        BY <2>1, <2>2, <2>5 DEF Held
      <3>2. QED
        BY <2>1, <2>3, <3>1, HeldStays
    <2>6. QED
      BY <2>4, <2>5
  <1>10. CASE UNCHANGED sinkVars
    <2>1. UNCHANGED <<sink, sinkStep, queue, pending, rows, seen, dropped, repeated, kept, missed>>
      BY <1>10 DEF sinkVars
    <2>2. Held' = Held
      BY <2>1 DEF Held
    <2>3. SinkTyped' /\ DrainSound'
      BY <2>1 DEF SinkTyped, DrainSound
    <2>4. QED
      BY <2>1, <2>2, <2>3, HeldStays
  <1>11. QED
    BY <1>1, <1>2, <1>4, <1>5, <1>6, <1>7, <1>8, <1>9, <1>10 DEF SinkNext

LEMMA HeldAccounts == SinkInv => SamplesKept
  <1> SUFFICES ASSUME SinkInv PROVE SamplesKept
    OBVIOUS
  <1>1. Held \in Seq(Nat) /\ DOMAIN Held = 1 .. Len(Held) /\ Len(Held) \in Nat
    BY HeldIsSequence, LenProperties DEF SinkInv
  <1>2. ASSUME NEW i \in DOMAIN Held, NEW j \in DOMAIN Held,
               IsFirst(Held, i), IsFirst(Held, j), i < j
        PROVE  Held[i] < Held[j]
    <2>1. i \in 1 .. j - 1
      BY <1>1, <1>2
    <2>2. ~ \E k \in 1 .. j - 1 : Held[k] = Held[j]
      BY <1>2 DEF IsFirst
    <2>3. QED
      BY <1>1, <2>1, <2>2 DEF SinkInv, HeldSound, Grows
  <1>3. ~repeated => Len(Held) = Cardinality(ToSet(Held))
    BY <1>1, LengthIsCardinality DEF SinkInv, HeldSound
  <1>4. /\ 1 .. seen = ToSet(Held) \cup dropped
        /\ dropped \cap ToSet(Held) = {}
    BY DEF SinkInv, HeldSound
  <1>5. QED
    BY <1>2, <1>3, <1>4 DEF SamplesKept, Held

LEMMA DrainFlushes == SinkInv => FlushedAtStop
  <1> SUFFICES ASSUME SinkInv, sinkStep = "stopped", pending = <<>>, sink = "tinybird" \/ ~kept
               PROVE  1 .. seen = ToSet(rows) \cup dropped \cup missed
    BY DEF FlushedAtStop
  <1>1. rows \in Seq(Nat) /\ queue \in Seq(Nat)
    BY DEF SinkInv, SinkTyped
  <1>2. Held = rows \o queue
    BY <1>1, ConcatEmptySeq DEF Held
  <1>3. ToSet(Held) = ToSet(rows) \cup ToSet(queue)
    BY <1>1, <1>2, RangeOfConcat
  <1>4. QED
    BY <1>3 DEF SinkInv, HeldSound, DrainSound

(* Observe, flush, insert and the stop of Run, of both sinks: for every     *)
(* queue, batch and number of samples, whatever inserts fail, are repeated  *)
(* or are cut off by the stop, each sample is stored, kept, queued or was   *)
(* dropped by a full queue, in order, and a last insert that succeeds after *)
(* a drain leaves none behind.                                              *)
THEOREM SamplesAreAccounted == SinkSpec => []SamplesAccounted
  <1>1. SinkInv => SamplesAccounted
    BY HeldAccounts, DrainFlushes DEF SamplesAccounted
  <1>2. QED
    BY <1>1, SinkStarts, SinkSteps, PTL DEF SinkSpec

-----------------------------------------------------------------------------
(* The settlement of delegated charges: claims and batches.                *)

LEMMA MaxOfBounded ==
  ASSUME NEW N \in Nat, NEW S \in SUBSET (1 .. N), S # {}
  PROVE  Max(S) \in S /\ \A y \in S : y <= Max(S)
  <1> DEFINE T == {N - x : x \in S}
  <1>1. T \in SUBSET Nat /\ T # {}
    <2>1. \A x \in S : N - x \in Nat
      OBVIOUS
    <2>2. PICK x \in S : TRUE
      OBVIOUS
    <2>3. N - x \in T
      OBVIOUS
    <2>4. QED
      BY <2>1, <2>3
  <1>2. PICK n \in T : \A m \in T : ~(<<m, n>> \in OpToRel(<, Nat))
    BY <1>1, NatLessThanWellFounded, WFMin
  <1>3. ASSUME NEW m \in T PROVE n <= m
    <2>1. m \in Nat /\ n \in Nat
      BY <1>1
    <2>2. ~(m < n)
      BY <1>2, <2>1 DEF OpToRel
    <2>3. QED
      BY <2>1, <2>2
  <1>4. PICK x \in S : n = N - x
    BY <1>2
  <1>5. ASSUME NEW y \in S PROVE x >= y
    <2>1. N - y \in T
      OBVIOUS
    <2>2. N - x <= N - y
      BY <1>3, <1>4, <2>1
    <2>3. x \in Int /\ y \in Int
      OBVIOUS
    <2>4. QED
      BY <2>2, <2>3
  <1>6. Max(S) \in S /\ \A y \in S : Max(S) >= y
    BY <1>5 DEF Max
  <1>7. QED
    BY <1>6

LegRows == [state : {"drawn", "committed"}, buyer : Buyers, seller : Sellers]

\* A claim that is read and not written yet: legs past the cursor it read.
ClaimSound(x) ==
  /\ x.legs \subseteq Legs /\ x.legs # {} /\ x.from \in Nat
  /\ \A i \in x.legs : i > x.from /\ leg[i].state = "committed"

WorkSound ==
  /\ DOMAIN work = Workers
  /\ \A w \in Workers : work[w].at = "claim" => ClaimSound(work[w])

\* Batches carry legs that the cursor has passed, and each leg once.
BatchesSound ==
  /\ \A r \in DOMAIN batch : "legs" \in DOMAIN batch[r]
  /\ ~overlapped => \A r \in DOMAIN batch : batch[r].legs \subseteq 1 .. cursor

ClaimsInv ==
  /\ leg \in [Legs -> LegRows \cup {NoLeg}]
  /\ cursor \in Nat
  /\ WorkSound
  /\ BatchesSound
  /\ LegPaidOnce

LEMMA ClaimsStart == Init => ClaimsInv
  BY DEF Init, ClaimsInv, WorkSound, BatchesSound, LegPaidOnce, Resting

\* No step but a claim's touches what the batches carry.
BatchesKept ==
  /\ DOMAIN batch' = DOMAIN batch
  /\ \A r \in DOMAIN batch : batch'[r].legs = batch[r].legs /\ "legs" \in DOMAIN batch'[r]

LEMMA BatchesUntouched ==
  ASSUME ClaimsInv, UNCHANGED <<leg, cursor, overlapped>>, BatchesKept, WorkSound'
  PROVE  ClaimsInv'
  BY DEF ClaimsInv, BatchesSound, LegPaidOnce, BatchesKept

LEMMA WorkerGoesOn ==
  ASSUME WorkSound, UNCHANGED leg, NEW w \in Workers, NEW x, x.at # "claim",
         work' = [work EXCEPT ![w] = x]
  PROVE  WorkSound'
  BY DEF WorkSound, ClaimSound

LEMMA WorkUntouched ==
  ASSUME WorkSound, UNCHANGED <<leg, work>>
  PROVE  WorkSound'
  BY DEF WorkSound, ClaimSound

\* The batches of a claim: of one buyer, for a destination, of its own legs.
PlannedFor(is, b, r) ==
  /\ r.buyer = b
  /\ BatchesFor(is, b)[r].legs
       = IF r.dest = Treasury THEN LegsOf(is, b) ELSE {i \in LegsOf(is, b) : leg[i].seller = r.dest}
  /\ "legs" \in DOMAIN BatchesFor(is, b)[r]
  /\ r = IF r.dest = Treasury THEN Ref(b, Treasury, LegsOf(is, b))
         ELSE Ref(b, r.dest, {i \in LegsOf(is, b) : leg[i].seller = r.dest})

LEMMA PlannedBatch ==
  ASSUME NEW is \in SUBSET Legs, NEW b, NEW r \in DOMAIN BatchesFor(is, b),
         \A i \in is : leg[i].seller \in Sellers
  PROVE  PlannedFor(is, b, r)
  <1> DEFINE mine == LegsOf(is, b)
             to(s) == {i \in mine : leg[i].seller = s}
             earned == {Ref(b, s, to(s)) : s \in {leg[i].seller : i \in mine}}
             fees == IF settleFees THEN {Ref(b, Treasury, mine)} ELSE {}
             batchRow(x) == IF x.dest = Treasury THEN NewBatch(LastSource(is), mine, FeeRaw)
                            ELSE NewBatch(b, to(x.dest), EarnRaw)
  <1>1. BatchesFor(is, b) = [x \in earned \cup fees |-> batchRow(x)]
    BY DEF BatchesFor
  <1>2. r \in earned \cup fees /\ BatchesFor(is, b)[r] = batchRow(r)
    BY <1>1
  <1>3. \A src, ls, raw : NewBatch(src, ls, raw).legs = ls /\ "legs" \in DOMAIN NewBatch(src, ls, raw)
    BY DEF NewBatch
  <1>4. \A d, ls : Ref(b, d, ls).buyer = b /\ Ref(b, d, ls).dest = d
    BY DEF Ref
  <1>5. mine \subseteq is
    BY DEF LegsOf
  <1>6. CASE r \in fees
    <2>1. r = Ref(b, Treasury, mine)
      BY <1>6
    <2>2. r.buyer = b /\ r.dest = Treasury
      BY <1>4, <2>1
    <2>3. QED
      BY <1>2, <1>3, <2>1, <2>2 DEF PlannedFor
  <1>7. CASE r \in earned
    <2>1. PICK i \in mine : r = Ref(b, leg[i].seller, to(leg[i].seller))
      BY <1>7
    <2>2. r.buyer = b /\ r.dest = leg[i].seller /\ r.dest # Treasury
      BY <1>4, <1>5, <2>1, DelegationsAssumption
    <2>3. QED
      BY <1>2, <1>3, <2>1, <2>2 DEF PlannedFor
  <1>8. QED
    BY <1>2, <1>6, <1>7

LEMMA ClaimCommitSound ==
  ASSUME ClaimsInv, NEW w \in Workers, ClaimCommit(w)
  PROVE  ClaimsInv'
  <1> DEFINE is == work[w].legs
             total(b) == (IF settleFees THEN ChargeRaw ELSE EarnRaw) * Cardinality(LegsOf(is, b))
             served == {b \in BuyersOf(is) : /\ Payable(is, b)
                                             /\ ~revoked[b] /\ allowance[b] >= total(b)}
             planned == UNION {DOMAIN BatchesFor(is, b) : b \in served}
  <1>1. /\ batch' = [r \in DOMAIN batch \cup planned |->
                       IF r \in DOMAIN batch THEN batch[r] ELSE BatchesFor(is, r.buyer)[r]]
        /\ cursor' = NewCursor(is) /\ leg' = leg
        /\ overlapped' = (overlapped \/ cursor # work[w].from)
        /\ work' = [work EXCEPT ![w] = Resting] /\ work[w].at = "claim"
    BY DEF ClaimCommit
  <1>2. ClaimSound(work[w])
    BY <1>1 DEF ClaimsInv, WorkSound
  <1>3. is \in SUBSET Legs /\ is # {} /\ \A i \in is : leg[i].seller \in Sellers
    <2>1. \A i \in is : leg[i].state = "committed" /\ i \in Legs
      BY <1>2 DEF ClaimSound
    <2>2. \A i \in is : leg[i] \in LegRows
      BY <2>1 DEF ClaimsInv, NoLeg
    <2>3. QED
      BY <1>2, <2>2 DEF ClaimSound, LegRows
  <1> HIDE DEF is, served
  <1>4. cursor' \in Nat /\ \A i \in is : i <= cursor' /\ i \in 1 .. cursor'
    <2>1. Max(is) \in is /\ \A i \in is : i <= Max(is)
      BY <1>3, MaxOfBounded, DelegationsAssumption DEF Legs
    <2>2. \A i \in is : i \in Nat \ {0}
      BY <1>3, DelegationsAssumption DEF Legs
    <2>3. cursor' = Max(is)
      BY <1>1 DEF NewCursor
    <2>4. cursor' \in Nat
      BY <2>1, <2>2, <2>3
    <2>5. ASSUME NEW i \in is PROVE i <= cursor' /\ i \in 1 .. cursor'
      BY <2>1, <2>2, <2>3, <2>4
    <2>6. QED
      BY <2>4, <2>5
  <1>5. ASSUME NEW r \in planned
        PROVE  PlannedFor(is, r.buyer, r)
    <2>1. PICK b \in served : r \in DOMAIN BatchesFor(is, b)
      OBVIOUS
    <2>2. PlannedFor(is, b, r)
      BY <1>3, <2>1, PlannedBatch
    <2>3. r.buyer = b
      BY <2>2 DEF PlannedFor
    <2>4. QED
      BY <2>2, <2>3
  <1> HIDE DEF planned
  <1>6. ASSUME NEW r \in planned
        PROVE  /\ BatchesFor(is, r.buyer)[r].legs \subseteq is
               /\ \A i \in BatchesFor(is, r.buyer)[r].legs : leg[i].buyer = r.buyer
               /\ r.dest # Treasury => \A i \in BatchesFor(is, r.buyer)[r].legs : leg[i].seller = r.dest
    BY <1>5 DEF LegsOf, PlannedFor
  <1>7. DOMAIN batch' = DOMAIN batch \cup planned
    BY <1>1
  <1>8. \A r \in DOMAIN batch : batch'[r] = batch[r]
    BY <1>1
  <1>9. \A r \in planned : r \notin DOMAIN batch => batch'[r] = BatchesFor(is, r.buyer)[r]
    BY <1>1
  <1>10. WorkSound'
    <2>1. Resting.at # "claim"
      BY DEF Resting
    <2>2. QED
      BY <1>1, <2>1, WorkerGoesOn DEF ClaimsInv
  <1>11. \A r \in DOMAIN batch' : "legs" \in DOMAIN batch'[r]
    BY <1>5, <1>7, <1>8, <1>9 DEF ClaimsInv, BatchesSound, PlannedFor
  <1>12. ASSUME ~overlapped'
         PROVE  /\ \A r \in DOMAIN batch' : batch'[r].legs \subseteq 1 .. cursor'
                /\ \A q, r \in DOMAIN batch' :
                     q # r /\ ((q.dest = Treasury) <=> (r.dest = Treasury))
                       => batch'[q].legs \cap batch'[r].legs = {}
    <2>1. ~overlapped /\ cursor = work[w].from
      BY <1>1, <1>12
    <2>2. \A i \in is : i > cursor /\ i \in Nat
      BY <1>2, <1>3, <2>1 DEF ClaimSound, is, Legs
    <2>3. cursor \in Nat /\ cursor <= cursor'
      BY <1>3, <1>4, <2>2 DEF ClaimsInv
    <2>4. \A r \in DOMAIN batch : batch'[r].legs \subseteq 1 .. cursor
      BY <1>8, <2>1 DEF ClaimsInv, BatchesSound
    <2>5. \A r \in DOMAIN batch' : r \notin DOMAIN batch =>
             r \in planned /\ batch'[r].legs \subseteq is /\ batch'[r] = BatchesFor(is, r.buyer)[r]
      BY <1>6, <1>7, <1>9
    <2>6. ASSUME NEW r \in DOMAIN batch' PROVE batch'[r].legs \subseteq 1 .. cursor'
      <3>1. CASE r \in DOMAIN batch
        BY <1>4, <2>3, <2>4, <3>1
      <3>2. CASE r \notin DOMAIN batch
        BY <1>4, <2>5, <3>2
      <3>3. QED
        BY <3>1, <3>2
    <2>7. ASSUME NEW q \in DOMAIN batch', NEW r \in DOMAIN batch', q # r,
                 (q.dest = Treasury) <=> (r.dest = Treasury)
          PROVE  batch'[q].legs \cap batch'[r].legs = {}
      <3>1. CASE q \in DOMAIN batch /\ r \in DOMAIN batch
        BY <1>8, <2>1, <2>7, <3>1 DEF ClaimsInv, LegPaidOnce
      <3>2. ASSUME NEW x \in DOMAIN batch, NEW y \in DOMAIN batch', y \notin DOMAIN batch
            PROVE  batch'[x].legs \cap batch'[y].legs = {}
        <4>1. batch'[x].legs \subseteq 1 .. cursor /\ batch'[y].legs \subseteq is
          BY <2>4, <2>5, <3>2
        <4>2. ASSUME NEW i \in 1 .. cursor, i \in is PROVE FALSE
          BY <2>2, <2>3, <4>2
        <4>3. QED
          BY <4>1, <4>2
      <3>3. CASE q \notin DOMAIN batch /\ r \notin DOMAIN batch
        <4>1. /\ q \in planned /\ r \in planned
              /\ batch'[q] = BatchesFor(is, q.buyer)[q] /\ batch'[r] = BatchesFor(is, r.buyer)[r]
          BY <2>5, <2>7, <3>3
        <4>2. CASE q.buyer # r.buyer
          BY <1>6, <4>1, <4>2
        <4>3. CASE q.buyer = r.buyer /\ q.dest = Treasury
          BY <1>5, <2>7, <4>1, <4>3 DEF PlannedFor
        <4>4. CASE q.buyer = r.buyer /\ q.dest # Treasury
          <5>1. r.dest # Treasury
            BY <2>7, <4>4
          <5>2. q.dest # r.dest
            <6>1. /\ q = Ref(q.buyer, q.dest, {i \in LegsOf(is, q.buyer) : leg[i].seller = q.dest})
                  /\ r = Ref(r.buyer, r.dest, {i \in LegsOf(is, r.buyer) : leg[i].seller = r.dest})
              BY <1>5, <4>1, <4>4, <5>1 DEF PlannedFor
            <6>2. QED
              BY <2>7, <4>4, <6>1, Zenon
          <5>3. QED
            BY <1>6, <4>1, <4>4, <5>1, <5>2
        <4>5. QED
          BY <4>2, <4>3, <4>4
      <3>4. QED
        BY <2>7, <3>1, <3>2, <3>3
    <2>8. QED
      BY <2>6, <2>7
  <1>13. BatchesSound' /\ LegPaidOnce'
    BY <1>11, <1>12 DEF BatchesSound, LegPaidOnce
  <1>14. leg' \in [Legs -> LegRows \cup {NoLeg}]
    BY <1>1 DEF ClaimsInv
  <1>15. QED
    BY <1>4, <1>10, <1>13, <1>14 DEF ClaimsInv

LEMMA ClaimsStep ==
  ASSUME ClaimsInv, [Next]_vars
  PROVE  ClaimsInv'
  <1>0. WorkSound /\ \A r \in DOMAIN batch : "legs" \in DOMAIN batch[r]
    BY DEF ClaimsInv, BatchesSound
  <1>1. ASSUME UNCHANGED <<leg, cursor, batch, work, overlapped>> PROVE ClaimsInv'
    BY <1>0, <1>1, WorkUntouched, BatchesUntouched DEF BatchesKept
  <1>2. CASE \E b \in Buyers : Approve(b) \/ RevokeOnChain(b) \/ CloseAccount(b) \/ ReopenAccount(b)
    BY <1>1, <1>2
    DEF Approve, RevokeOnChain, CloseAccount, ReopenAccount, SetAccount, claimVars, ghostVars, bookVars
  <1>3. CASE \E p \in Pollers : (\E b \in Buyers : ObserveWallet(p, b)) \/ Poll(p) \/ PollFails(p)
    BY <1>1, <1>3
    DEF ObserveWallet, Poll, CheckRegistry, Upsert, UpsertAllowance, SelectMissing, InsertAllowance,
        RefuseNegative, MirrorDelta, PollFails, claimVars, ghostVars, bookVars
  <1>4. ASSUME NEW i \in Legs, NEW b \in Buyers, NEW s \in Sellers, Charge(i, b, s) PROVE ClaimsInv'
    <2>1. /\ leg[i] = NoLeg /\ leg' = [leg EXCEPT ![i] = [state |-> "drawn", buyer |-> b, seller |-> s]]
          /\ UNCHANGED <<cursor, batch, work, overlapped>>
      BY <1>4 DEF Charge, ghostVars, bookVars
    <2>2. leg' \in [Legs -> LegRows \cup {NoLeg}]
      BY <2>1 DEF ClaimsInv, LegRows
    <2>3. \A k \in Legs : leg[k].state = "committed" => leg'[k].state = "committed"
      BY <2>1 DEF ClaimsInv, NoLeg
    <2>4. WorkSound'
      BY <1>0, <2>1, <2>3 DEF WorkSound, ClaimSound
    <2>5. QED
      BY <2>1, <2>2, <2>4 DEF ClaimsInv, BatchesSound, LegPaidOnce
  <1>5. ASSUME NEW i \in Legs, CommitLegs(i) PROVE ClaimsInv'
    <2>1. /\ leg[i].state = "drawn" /\ leg' = [leg EXCEPT ![i].state = "committed"]
          /\ UNCHANGED <<cursor, batch, work, overlapped>>
      BY <1>5 DEF CommitLegs, ghostVars, bookVars
    <2>2. leg[i] \in LegRows
      BY <2>1 DEF ClaimsInv, NoLeg
    <2>3. leg'[i] = [state |-> "committed", buyer |-> leg[i].buyer, seller |-> leg[i].seller]
      BY <2>1, <2>2 DEF ClaimsInv, LegRows
    <2>4. leg' \in [Legs -> LegRows \cup {NoLeg}]
      BY <2>1, <2>2, <2>3 DEF ClaimsInv, LegRows
    <2>5. \A k \in Legs : leg[k].state = "committed" => leg'[k].state = "committed"
      BY <2>1, <2>3 DEF ClaimsInv
    <2>6. WorkSound'
      BY <1>0, <2>1, <2>5 DEF WorkSound, ClaimSound
    <2>7. QED
      BY <2>1, <2>4, <2>6 DEF ClaimsInv, BatchesSound, LegPaidOnce
  <1>6. ASSUME NEW w \in Workers, ClaimRead(w) PROVE ClaimsInv'
    <2> DEFINE x == [at |-> "claim", legs |-> Window, from |-> cursor]
    <2>1. /\ Window # {} /\ work' = [work EXCEPT ![w] = x]
          /\ UNCHANGED <<leg, cursor, batch, overlapped>>
      BY <1>6 DEF ClaimRead, claimVars, ghostVars, bookVars
    <2>2. \A i \in Window : i \in Legs /\ i > cursor /\ leg[i].state = "committed"
      BY DEF Window
    <2>3. x.legs = Window /\ x.from = cursor
      OBVIOUS
    <2> HIDE DEF x
    <2>4. ClaimSound(x)
      BY <2>1, <2>2, <2>3 DEF ClaimsInv, ClaimSound
    <2>5. WorkSound'
      BY <1>0, <2>1, <2>4 DEF WorkSound, ClaimSound
    <2>6. QED
      BY <1>0, <2>1, <2>5, BatchesUntouched DEF BatchesKept
  <1>7. ASSUME NEW w \in Workers, NEW x, x.at # "claim", work' = [work EXCEPT ![w] = x],
               UNCHANGED <<leg, cursor, overlapped>>, BatchesKept
        PROVE  ClaimsInv'
    BY <1>0, <1>7, WorkerGoesOn, BatchesUntouched
  <1>8. Resting.at # "claim" /\ \A r : /\ [at |-> "sent", ref |-> r].at # "claim"
                                       /\ [at |-> "dead", ref |-> r].at # "claim"
                                       /\ [at |-> "final", ref |-> r].at # "claim"
    BY DEF Resting
  <1>9. batch' = batch => BatchesKept
    BY <1>0 DEF BatchesKept
  <1>10. ASSUME NEW r, NEW v,
                \/ batch' = [batch EXCEPT ![r].state = v]
                \/ batch' = [batch EXCEPT ![r].tx = v]
                \/ batch' = [batch EXCEPT ![r].expired = v]
         PROVE  BatchesKept
    BY <1>0, <1>10 DEF BatchesKept
  <1>11. ASSUME NEW w \in Workers, WorkFails(w) PROVE ClaimsInv'
    BY <1>7, <1>8, <1>9, <1>11 DEF WorkFails, Done, claimVars, ghostVars, bookVars
  <1>12. ASSUME NEW w \in Workers,
                MarkSettlementBroadcast(w) \/ FinalizeSettlement(w) \/ RestoreSettlement(w)
         PROVE  ClaimsInv'
    <2>1. /\ work' = [work EXCEPT ![w] = Resting]
          /\ UNCHANGED <<leg, cursor, overlapped>>
      BY <1>12 DEF MarkSettlementBroadcast, FinalizeSettlement, RestoreSettlement, Done, ghostVars, bookVars
    <2>2. batch' = batch \/ \E r, v : batch' = [batch EXCEPT ![r].state = v]
      BY <1>12 DEF MarkSettlementBroadcast, FinalizeSettlement, RestoreSettlement
    <2>3. BatchesKept
      BY <1>9, <1>10, <2>2
    <2>4. QED
      BY <1>7, <1>8, <2>1, <2>3
  <1>13. ASSUME NEW w \in Workers, NEW r \in DOMAIN batch, SendTransaction(w, r) PROVE ClaimsInv'
    <2>1. UNCHANGED <<leg, cursor, overlapped>>
          /\ (batch' = batch \/ batch' = [batch EXCEPT ![r].tx = "network"])
      BY <1>13 DEF SendTransaction, ghostVars, bookVars
    <2>2. BatchesKept
      BY <1>9, <1>10, <2>1
    <2>3. CASE work' = work
      BY <1>0, <2>1, <2>2, <2>3, WorkUntouched, BatchesUntouched
    <2>4. CASE Learn(w, r, "sent")
      BY <1>7, <1>8, <2>1, <2>2, <2>4 DEF Learn
    <2>5. QED
      BY <1>13, <2>3, <2>4 DEF SendTransaction
  <1>14. ASSUME NEW w \in Workers, NEW r \in DOMAIN batch, SendExpired(w, r) \/ SignatureStatus(w, r)
         PROVE  ClaimsInv'
    <2>1. UNCHANGED <<leg, cursor, batch, overlapped>> /\ (Learn(w, r, "dead") \/ Learn(w, r, "final"))
      BY <1>14 DEF SendExpired, SignatureStatus, claimVars, ghostVars, bookVars
    <2>2. QED
      BY <1>7, <1>8, <1>9, <2>1 DEF Learn
  <1>15. ASSUME NEW r \in DOMAIN batch, MarkSettlementSigned(r) \/ Execute(r) \/ ExpireBlockhash(r)
         PROVE  ClaimsInv'
    <2>1. UNCHANGED <<leg, cursor, work, overlapped>>
      BY <1>15 DEF MarkSettlementSigned, Execute, ExpireBlockhash, ghostVars, bookVars
    <2>2. BatchesKept
      <3>1. CASE MarkSettlementSigned(r)
        BY <1>10, <3>1 DEF MarkSettlementSigned
      <3>2. CASE Execute(r)
        BY <1>10, <3>2 DEF Execute
      <3>3. CASE ExpireBlockhash(r)
        BY <1>10, <3>3 DEF ExpireBlockhash
      <3>4. QED
        BY <1>15, <3>1, <3>2, <3>3
    <2>3. QED
      BY <1>0, <2>1, <2>2, WorkUntouched, BatchesUntouched
  <1>16. CASE NextSlot
    BY <1>1, <1>16 DEF NextSlot, claimVars, ghostVars, bookVars
  <1>17. CASE UNCHANGED vars
    BY <1>1, <1>17 DEF vars, claimVars, ghostVars, bookVars
  <1>18. ASSUME NEW w \in Workers, ClaimCommit(w) PROVE ClaimsInv'
    BY <1>18, ClaimCommitSound
  <1>19. QED
    BY <1>2, <1>3, <1>4, <1>5, <1>6, <1>11, <1>12, <1>13, <1>14, <1>15, <1>16, <1>17, <1>18 DEF Next

(* ClaimDelegationSettlements: for any buyers, sellers, workers and limit   *)
(* of a claim, no two batches of the same kind of destination carry the     *)
(* same leg, as long as no claim commits over a cursor that another claim   *)
(* has moved since it was read; restores, crashes and retries included.     *)
THEOREM LegsPaidOnce == Spec => []LegPaidOnce
  <1>1. ClaimsInv => LegPaidOnce
    BY DEF ClaimsInv
  <1>2. QED
    BY <1>1, ClaimsStart, ClaimsStep, PTL DEF Spec

-----------------------------------------------------------------------------
(* The registry of the allowances as a ledger.                             *)

Counted == OpenStates \cup {"finalized"}
Taken(b) == Total(BatchAmount, BatchesOf(b, Counted))

\* What a poller holds between its read and its write.
PollSound(x) ==
  x.at \in {"check", "upsert", "insert"} =>
    x.buyer \in Buyers /\ x.amount \in Int /\ (x.at = "insert" => x.amount \in Nat)

RegistryAccounted == ~overlapped /\ ~replayed /\ ~unlocked => RegistryBalanced

RegistryTyped ==
  /\ allowance \in [Buyers -> Nat] /\ mirrored \in [Buyers -> Int] /\ forfeited \in [Buyers -> Nat]
  /\ account \in [Buyers -> [exists : BOOLEAN, delegated : Nat]]
  /\ DOMAIN poll = Pollers
  /\ \A p \in Pollers : PollSound(poll[p])

\* The rows of the batches, and the refs that workers hold.
RowSound(r) ==
  /\ r.buyer \in Buyers /\ batch[r].amount \in Nat
  /\ "amount" \in DOMAIN batch[r] /\ "state" \in DOMAIN batch[r]

RowsSound ==
  /\ IsFiniteSet(DOMAIN batch)
  /\ \A r \in DOMAIN batch : RowSound(r)
  /\ \A w \in Workers : work[w].at \in {"sent", "final", "dead"} => work[w].ref \in DOMAIN batch

\* A batch carries the leg after which it is named, so a claim of later legs
\* inserts batches of new names.
NamedByLeg == ~overlapped => \A r \in DOMAIN batch : r.min \in batch[r].legs

RegistryInv == ClaimsInv /\ RegistryTyped /\ RowsSound /\ NamedByLeg /\ RegistryAccounted

LEMMA RegistryStarts == Init => RegistryInv
  <1> SUFFICES ASSUME Init PROVE RegistryInv
    OBVIOUS
  <1>1. DOMAIN batch = {}
    BY DEF Init
  <1>2. RegistryTyped /\ RowsSound /\ NamedByLeg
    BY <1>1, FS_EmptySet DEF Init, RegistryTyped, PollSound, RowsSound, NamedByLeg, Resting
  <1>3. ASSUME NEW b \in Buyers PROVE Taken(b) = 0
    <2>1. BatchesOf(b, Counted) = {}
      BY <1>1 DEF BatchesOf
    <2>2. QED
      BY <2>1, TotalEmpty DEF Taken
  <1>4. \A b \in Buyers : allowance[b] = 0 /\ forfeited[b] = 0 /\ mirrored[b] = 0
    BY DEF Init
  <1>5. \A b \in Buyers : allowance[b] + Taken(b) + forfeited[b] = mirrored[b]
    BY <1>3, <1>4
  <1>6. RegistryAccounted
    BY <1>5 DEF RegistryAccounted, RegistryBalanced, Taken, Counted
  <1>7. QED
    BY <1>2, <1>6, ClaimsStart DEF RegistryInv

\* What the batches of a buyer hold.
LEMMA TakenType ==
  ASSUME RowsSound, NEW b
  PROVE  /\ IsFiniteSet(BatchesOf(b, Counted)) /\ Taken(b) \in Nat
         /\ \A r \in BatchesOf(b, Counted) : BatchAmount[r] \in Nat
  <1>1. BatchesOf(b, Counted) \subseteq DOMAIN batch
    BY DEF BatchesOf
  <1>2. IsFiniteSet(BatchesOf(b, Counted))
    BY <1>1, FS_Subset DEF RowsSound
  <1>3. \A r \in BatchesOf(b, Counted) : BatchAmount[r] \in Nat
    BY <1>1 DEF RowsSound, RowSound, BatchAmount
  <1>4. QED
    BY <1>2, <1>3, TotalType DEF Taken

\* A step that leaves the amounts and does not end a batch leaves the totals.
BatchesCount ==
  /\ DOMAIN batch' = DOMAIN batch
  /\ \A r \in DOMAIN batch :
       /\ batch'[r].amount = batch[r].amount /\ batch'[r].legs = batch[r].legs
       /\ "amount" \in DOMAIN batch'[r] /\ "state" \in DOMAIN batch'[r]
       /\ batch'[r].state \in Counted <=> batch[r].state \in Counted

LEMMA TakenStays ==
  ASSUME BatchesCount, NEW b
  PROVE  Taken(b)' = Taken(b)
  <1>1. BatchesOf(b, Counted)' = BatchesOf(b, Counted) /\ BatchesOf(b, Counted) \subseteq DOMAIN batch
    BY DEF BatchesOf, BatchesCount, Counted, OpenStates
  <1>2. \A r \in BatchesOf(b, Counted) : BatchAmount'[r] = BatchAmount[r]
    BY <1>1 DEF BatchAmount, BatchesCount
  <1>3. Total(BatchAmount', BatchesOf(b, Counted)) = Total(BatchAmount, BatchesOf(b, Counted))
    BY <1>2, TotalSame
  <1>4. QED
    BY <1>1, <1>3 DEF Taken

\* The workers' refs stay refs when a worker rests or takes one that exists.
LEMMA RowsStay ==
  ASSUME RowsSound, WorkSound, BatchesCount,
         \/ work' = work
         \/ \E w \in Workers : \E x :
              /\ work' = [work EXCEPT ![w] = x]
              /\ x.at \in {"sent", "final", "dead"} => x.ref \in DOMAIN batch
  PROVE  RowsSound'
  <1>1. \A r \in DOMAIN batch' : RowSound(r)'
    BY DEF RowsSound, RowSound, BatchesCount
  <1>2. \A w \in Workers : work'[w].at \in {"sent", "final", "dead"} => work'[w].ref \in DOMAIN batch'
    BY DEF RowsSound, WorkSound, BatchesCount
  <1>3. QED
    BY <1>1, <1>2 DEF RowsSound, BatchesCount

\* A step that moves no amount keeps the registry in balance.
LEMMA RegistryKept ==
  ASSUME RegistryInv, ClaimsInv', RegistryTyped', RowsSound', BatchesCount,
         UNCHANGED <<allowance, mirrored, forfeited, overlapped, replayed, unlocked>>
  PROVE  RegistryInv'
  <1>1. NamedByLeg'
    BY DEF RegistryInv, NamedByLeg, BatchesCount
  <1>2. RegistryAccounted'
    BY TakenStays DEF RegistryInv, RegistryAccounted, RegistryBalanced, Taken, Counted, OpenStates
  <1>3. QED
    BY <1>1, <1>2 DEF RegistryInv

\* MirrorDelta: what the registry takes over is what the ledger mirrors, unless
\* the amount it was compared with is stale.
LEMMA MirrorKeeps ==
  ASSUME RegistryInv, ClaimsInv', NEW p \in Pollers, NEW prev \in Nat, MirrorDelta(p, prev),
         poll[p].buyer \in Buyers, poll[p].amount \in Nat
  PROVE  RegistryInv'
  <1> DEFINE b == poll[p].buyer
             n == poll[p].amount
             delta == n - prev
             ref == <<b, poll[p].slot, IF delta < 0 THEN "revoke" ELSE "grant">>
  <1>1. /\ allowance' = [allowance EXCEPT ![b] = n]
        /\ IF delta # 0 /\ ref \notin observed
             THEN mirrored' = [mirrored EXCEPT ![b] = @ + delta] ELSE mirrored' = mirrored
        /\ replayed' = (replayed \/ (delta # 0 /\ ref \in observed))
        /\ unlocked' = (unlocked \/ prev # allowance[b])
        /\ poll' = [poll EXCEPT ![p] = Resting]
        /\ UNCHANGED <<account, batch, work, overlapped, forfeited>>
    BY DEF MirrorDelta, chainVars, claimVars
  <1>2. b \in Buyers /\ n \in Nat /\ allowance[b] \in Nat /\ delta \in Int /\ mirrored[b] \in Int
    BY DEF RegistryInv, RegistryTyped
  <1> HIDE DEF b, n, delta, ref
  <1>3. RegistryTyped'
    <2>1. allowance' \in [Buyers -> Nat] /\ mirrored' \in [Buyers -> Int]
      BY <1>1, <1>2 DEF RegistryInv, RegistryTyped
    <2>2. DOMAIN poll' = Pollers /\ \A q \in Pollers : PollSound(poll'[q])
      BY <1>1 DEF RegistryInv, RegistryTyped, PollSound, Resting
    <2>3. QED
      BY <1>1, <2>1, <2>2 DEF RegistryInv, RegistryTyped
  <1>4. RowsSound' /\ NamedByLeg' /\ \A a : Taken(a)' = Taken(a)
    BY <1>1 DEF RegistryInv, RowsSound, RowSound, NamedByLeg, Taken, BatchesOf, BatchAmount
  <1>5. ASSUME ~overlapped', ~replayed', ~unlocked', NEW a \in Buyers
        PROVE  allowance'[a] + Taken(a)' + forfeited'[a] = mirrored'[a]
    <2>1. ~overlapped /\ ~replayed /\ ~unlocked /\ prev = allowance[b] /\ ~(delta # 0 /\ ref \in observed)
      BY <1>1, <1>5
    <2>2. allowance[a] + Taken(a) + forfeited[a] = mirrored[a]
      BY <2>1 DEF RegistryInv, RegistryAccounted, RegistryBalanced, Taken, Counted
    <2>3. Taken(a) \in Nat /\ forfeited[a] \in Nat /\ allowance[a] \in Nat /\ mirrored[a] \in Int
      BY TakenType DEF RegistryInv, RegistryTyped
    <2>4. CASE a # b
      <3>1. allowance'[a] = allowance[a] /\ mirrored'[a] = mirrored[a]
        BY <1>1, <2>4 DEF RegistryInv, RegistryTyped
      <3>2. QED
        BY <1>1, <1>4, <2>2, <3>1
    <2>5. CASE a = b
      <3>1. allowance'[a] = n /\ mirrored'[a] = mirrored[a] + delta
        BY <1>1, <1>2, <2>1, <2>5 DEF RegistryInv, RegistryTyped
      <3>2. delta = n - allowance[a]
        BY <2>1, <2>5 DEF delta
      <3>3. QED
        BY <1>1, <1>2, <1>4, <2>2, <2>3, <3>1, <3>2
    <2>6. QED
      BY <2>4, <2>5
  <1>6. RegistryAccounted'
    BY <1>5 DEF RegistryAccounted, RegistryBalanced, Taken, Counted, OpenStates
  <1>7. QED
    BY <1>3, <1>4, <1>6 DEF RegistryInv

\* RestoreSettlement: a batch gives back what it took, or forfeits it.
LEMMA RestoreKeeps ==
  ASSUME RegistryInv, ClaimsInv', NEW w \in Workers, RestoreSettlement(w), Restorable(work[w].ref)
  PROVE  RegistryInv'
  <1> DEFINE r == work[w].ref
             n == batch[r].amount
             b == r.buyer
  <1>1. /\ work[w].at = "dead" /\ batch[r].state \in OpenStates
        /\ batch' = [batch EXCEPT ![r].state = "restored"]
        /\ allowance' = [allowance EXCEPT ![b] = IF revoked[b] THEN @ ELSE @ + n]
        /\ forfeited' = [forfeited EXCEPT ![b] = IF revoked[b] THEN @ + n ELSE @]
        /\ work' = [work EXCEPT ![w] = Resting]
        /\ UNCHANGED <<account, mirrored, poll, overlapped, replayed, unlocked>>
    BY DEF RestoreSettlement, Restorable, Done, chainVars, bookVars
  <1>2. r \in DOMAIN batch /\ b \in Buyers /\ n \in Nat
    BY <1>1 DEF RegistryInv, RowsSound, RowSound
  <1> HIDE DEF r, n, b
  <1>3. /\ DOMAIN batch' = DOMAIN batch
        /\ \A x \in DOMAIN batch :
             /\ batch'[x].amount = batch[x].amount /\ batch'[x].legs = batch[x].legs
             /\ "amount" \in DOMAIN batch'[x] /\ "state" \in DOMAIN batch'[x]
             /\ batch'[x].state = IF x = r THEN "restored" ELSE batch[x].state
    BY <1>1, <1>2 DEF RegistryInv, ClaimsInv, BatchesSound, RowsSound, RowSound
  <1>4. RegistryTyped'
    BY <1>1, <1>2 DEF RegistryInv, RegistryTyped
  <1>5. RowsSound'
    <2>1. \A x \in DOMAIN batch' : RowSound(x)'
      BY <1>3 DEF RegistryInv, RowsSound, RowSound
    <2>2. \A v \in Workers : work'[v].at \in {"sent", "final", "dead"} => work'[v].ref \in DOMAIN batch'
      BY <1>1, <1>3 DEF RegistryInv, RowsSound, ClaimsInv, WorkSound, Resting
    <2>3. QED
      BY <1>3, <2>1, <2>2 DEF RegistryInv, RowsSound
  <1>6. NamedByLeg'
    BY <1>1, <1>3 DEF RegistryInv, NamedByLeg
  <1>7. ASSUME NEW a \in Buyers PROVE Taken(a)' = IF a = b THEN Taken(a) - n ELSE Taken(a)
    <2> DEFINE S == BatchesOf(a, Counted)
    <2>1. /\ S \subseteq DOMAIN batch /\ IsFiniteSet(S)
          /\ \A x \in S : BatchAmount[x] \in Nat /\ BatchAmount'[x] = BatchAmount[x]
      BY <1>3, TakenType DEF RegistryInv, BatchesOf, BatchAmount
    <2>2. CASE a # b
      <3>1. BatchesOf(a, Counted)' = S
        BY <1>3, <2>2 DEF BatchesOf, Counted, OpenStates, b
      <3> HIDE DEF S
      <3>2. Total(BatchAmount', S) = Total(BatchAmount, S)
        BY <2>1, TotalSame
      <3>3. QED
        BY <2>2, <3>1, <3>2 DEF Taken, S
    <2>3. CASE a = b
      <3>1. BatchesOf(a, Counted)' = S \ {r} /\ r \in S
        BY <1>1, <1>2, <1>3, <2>3 DEF BatchesOf, Counted, OpenStates, b
      <3>2. BatchAmount[r] = n
        BY <1>2 DEF BatchAmount, n
      <3> HIDE DEF S
      <3>3. Total(BatchAmount', S \ {r}) = Total(BatchAmount, S \ {r})
        BY <2>1, TotalSame
      <3>4. {r} \in SUBSET S
        BY <3>1
      <3>5. Total(BatchAmount, S \ {r}) = Total(BatchAmount, S) - Total(BatchAmount, {r})
        BY <2>1, <3>4, TotalRemove
      <3>6. Total(BatchAmount, {r}) = n
        BY <1>2, <3>2, TotalSingleton
      <3>7. QED
        BY <2>3, <3>1, <3>3, <3>5, <3>6 DEF Taken, S
    <2>4. QED
      BY <2>2, <2>3
  <1>8. ASSUME ~overlapped', ~replayed', ~unlocked', NEW a \in Buyers
        PROVE  allowance'[a] + Taken(a)' + forfeited'[a] = mirrored'[a]
    <2>1. allowance[a] + Taken(a) + forfeited[a] = mirrored[a]
      BY <1>1, <1>8 DEF RegistryInv, RegistryAccounted, RegistryBalanced, Taken, Counted
    <2>2. Taken(a) \in Nat /\ forfeited[a] \in Nat /\ allowance[a] \in Nat /\ mirrored[a] \in Int
      BY TakenType DEF RegistryInv, RegistryTyped
    <2>3. /\ a = b => allowance'[a] + forfeited'[a] = allowance[a] + forfeited[a] + n
          /\ a # b => allowance'[a] + forfeited'[a] = allowance[a] + forfeited[a]
          /\ allowance'[a] \in Nat /\ forfeited'[a] \in Nat
      <3>1. DOMAIN allowance = Buyers /\ DOMAIN forfeited = Buyers
        BY DEF RegistryInv, RegistryTyped
      <3>2. CASE a # b
        BY <1>1, <2>2, <3>1, <3>2
      <3>3. CASE a = b
        BY <1>1, <1>2, <2>2, <3>1, <3>3
      <3>4. QED
        BY <3>2, <3>3
    <2>4. QED
      BY <1>1, <1>2, <1>7, <2>1, <2>2, <2>3
  <1>9. RegistryAccounted'
    BY <1>8 DEF RegistryAccounted, RegistryBalanced, Taken, Counted, OpenStates
  <1>10. QED
    BY <1>4, <1>5, <1>6, <1>9 DEF RegistryInv

\* The batches of a claim hold what is deducted from the buyer's allowance.
LEMMA PlannedTotal ==
  ASSUME NEW is \in SUBSET Legs, \A i \in is : leg[i].seller \in Sellers, NEW b
  PROVE  LET P == BatchesFor(is, b)
         IN /\ IsFiniteSet(DOMAIN P)
            /\ \A r \in DOMAIN P : /\ P[r].amount \in Nat /\ P[r].state = "pending"
                                   /\ "amount" \in DOMAIN P[r] /\ "state" \in DOMAIN P[r]
            /\ Total([r \in DOMAIN P |-> P[r].amount], DOMAIN P)
                 = (IF settleFees THEN ChargeRaw ELSE EarnRaw) * Cardinality(LegsOf(is, b))
  <1> DEFINE mine == LegsOf(is, b)
             to(s) == {i \in mine : leg[i].seller = s}
             earned == {Ref(b, s, to(s)) : s \in {leg[i].seller : i \in mine}}
             fees == IF settleFees THEN {Ref(b, Treasury, mine)} ELSE {}
             batchRow(x) == IF x.dest = Treasury THEN NewBatch(LastSource(is), mine, FeeRaw)
                            ELSE NewBatch(b, to(x.dest), EarnRaw)
             P == BatchesFor(is, b)
             w == [r \in DOMAIN P |-> P[r].amount]
             X == mine \X (1 .. EarnRaw)
             f == [x \in X |-> Ref(b, leg[x[1]].seller, to(leg[x[1]].seller))]
  <1>1. P = [x \in earned \cup fees |-> batchRow(x)]
    BY DEF BatchesFor
  <1>2. \A src, ls, raw : /\ NewBatch(src, ls, raw).amount = raw * Cardinality(ls)
                          /\ NewBatch(src, ls, raw).state = "pending"
                          /\ "amount" \in DOMAIN NewBatch(src, ls, raw)
                          /\ "state" \in DOMAIN NewBatch(src, ls, raw)
    BY DEF NewBatch
  <1>3. \A d, ls : Ref(b, d, ls).buyer = b /\ Ref(b, d, ls).dest = d
    BY DEF Ref
  <1>4. mine \in SUBSET is /\ IsFiniteSet(mine)
    <2>1. IsFiniteSet(Legs)
      BY DelegationsAssumption, FS_Interval DEF Legs
    <2>2. mine \in SUBSET is /\ mine \in SUBSET Legs
      BY DEF LegsOf
    <2>3. QED
      BY <2>1, <2>2, FS_Subset
  <1>5. EarnRaw \in Nat /\ FeeRaw \in Nat /\ Treasury \notin Sellers
    BY DelegationsAssumption
  <1>6. ASSUME NEW s PROVE to(s) \in SUBSET mine /\ IsFiniteSet(to(s)) /\ Cardinality(to(s)) \in Nat
    BY <1>4, FS_Subset, FS_CardinalityType
  <1>7. Cardinality(mine) \in Nat
    BY <1>4, FS_CardinalityType
  <1>8. DOMAIN P = earned \cup fees /\ \A r \in DOMAIN P : P[r] = batchRow(r)
    BY <1>1
  <1>9. \A r \in DOMAIN P : /\ P[r].state = "pending"
                            /\ "amount" \in DOMAIN P[r] /\ "state" \in DOMAIN P[r]
                            /\ P[r].amount = IF r.dest = Treasury THEN FeeRaw * Cardinality(mine)
                                             ELSE EarnRaw * Cardinality(to(r.dest))
    <2> SUFFICES ASSUME NEW r \in DOMAIN P
                 PROVE  /\ P[r].state = "pending"
                        /\ "amount" \in DOMAIN P[r] /\ "state" \in DOMAIN P[r]
                        /\ P[r].amount = IF r.dest = Treasury THEN FeeRaw * Cardinality(mine)
                                         ELSE EarnRaw * Cardinality(to(r.dest))
      OBVIOUS
    <2>1. P[r] = batchRow(r)
      BY <1>8
    <2> HIDE DEF P, to, mine
    <2>2. CASE r.dest = Treasury
      <3>1. P[r] = NewBatch(LastSource(is), mine, FeeRaw)
        BY <2>1, <2>2
      <3>2. QED
        BY <1>2, <2>2, <3>1
    <2>3. CASE r.dest # Treasury
      <3>1. P[r] = NewBatch(b, to(r.dest), EarnRaw)
        BY <2>1, <2>3
      <3>2. QED
        BY <1>2, <2>3, <3>1
    <2>4. QED
      BY <2>2, <2>3
  <1> HIDE DEF mine, P
  <1>10. ASSUME NEW r \in DOMAIN P PROVE P[r].amount \in Nat
    <2>1. Cardinality(to(r.dest)) \in Nat
      BY <1>6
    <2> HIDE DEF to
    <2>2. FeeRaw * Cardinality(mine) \in Nat /\ EarnRaw * Cardinality(to(r.dest)) \in Nat
      BY <1>5, <1>7, <2>1
    <2>3. QED
      BY <1>9, <2>2
  <1>11. /\ \A i \in mine : Ref(b, leg[i].seller, to(leg[i].seller)) \in earned
         /\ \A r \in earned : \E i \in mine : r = Ref(b, leg[i].seller, to(leg[i].seller))
    OBVIOUS
  <1>12. ASSUME NEW r \in earned PROVE r.dest \in Sellers /\ r = Ref(b, r.dest, to(r.dest))
    <2>1. PICK i \in mine : r = Ref(b, leg[i].seller, to(leg[i].seller))
      BY <1>11
    <2>2. r.dest = leg[i].seller /\ leg[i].seller \in Sellers
      BY <1>3, <1>4, <2>1
    <2>3. QED
      BY <2>1, <2>2
  <1>13. IsFiniteSet(earned)
    <2> DEFINE g == [i \in mine |-> Ref(b, leg[i].seller, to(leg[i].seller))]
    <2>1. g \in Surjection(mine, earned)
      BY <1>11 DEF Surjection
    <2>2. QED
      BY <1>4, <2>1, FS_Surjection
  <1>14. IsFiniteSet(fees)
    BY FS_EmptySet, FS_Singleton
  <1>15. earned \cap fees = {}
    BY <1>3, <1>5, <1>12
  <1>16. IsFiniteSet(X) /\ Cardinality(X) = EarnRaw * Cardinality(mine)
    <2>1. IsFiniteSet(1 .. EarnRaw) /\ Cardinality(1 .. EarnRaw) = EarnRaw
      BY <1>5, FS_Interval
    <2>2. IsFiniteSet(X) /\ Cardinality(X) = Cardinality(mine) * EarnRaw
      BY <1>4, <2>1, FS_Product
    <2>3. QED
      BY <1>5, <1>7, <2>2
  <1>17. f \in [X -> earned]
    BY <1>11
  <1>18. ASSUME NEW r \in earned PROVE w[r] = Cardinality({x \in X : f[x] = r})
    <2> DEFINE s == r.dest
    <2>1. r.dest # Treasury /\ r = Ref(b, s, to(s)) /\ r \in DOMAIN P
      BY <1>5, <1>8, <1>12
    <2>2. w[r] = EarnRaw * Cardinality(to(s))
      BY <1>9, <2>1
    <2>3. \A i \in mine : Ref(b, leg[i].seller, to(leg[i].seller)) = r <=> leg[i].seller = s
      BY <1>3, <2>1
    <2> DEFINE Y == {x \in X : f[x] = r}
    <2>4. Y = to(s) \X (1 .. EarnRaw)
      BY <2>3
    <2>5. IsFiniteSet(1 .. EarnRaw) /\ Cardinality(1 .. EarnRaw) = EarnRaw
      BY <1>5, FS_Interval
    <2>6. IsFiniteSet(to(s)) /\ Cardinality(to(s)) \in Nat
      BY <1>6
    <2> HIDE DEF to, s, w, f, X, Y
    <2>7. Cardinality(to(s) \X (1 .. EarnRaw)) = Cardinality(to(s)) * EarnRaw
      BY <2>5, <2>6, FS_Product
    <2>8. w[r] = Cardinality(Y)
      BY <1>5, <2>2, <2>4, <2>6, <2>7
    <2>9. QED
      BY <2>8 DEF Y
  <1> HIDE DEF f, X
  <1>19. Total(w, earned) = EarnRaw * Cardinality(mine)
    <2> HIDE DEF earned, w
    <2>1. Total(w, earned) = Cardinality(X)
      BY <1>16, <1>17, <1>18, TotalPartition
    <2>2. QED
      BY <1>16, <2>1
  <1>20. Total(w, fees) = IF settleFees THEN FeeRaw * Cardinality(mine) ELSE 0
    <2>1. CASE settleFees
      <3> DEFINE r == Ref(b, Treasury, mine)
      <3>1. fees = {r} /\ r \in DOMAIN P /\ r.dest = Treasury
        BY <1>3, <1>8, <2>1
      <3> HIDE DEF r
      <3>2. w[r] = FeeRaw * Cardinality(mine) /\ w[r] \in Nat
        BY <1>9, <1>10, <3>1
      <3>3. Total(w, {r}) = w[r]
        BY <3>2, TotalSingleton
      <3>4. QED
        BY <2>1, <3>1, <3>2, <3>3
    <2>2. CASE ~settleFees
      BY <2>2, TotalEmpty
    <2>3. QED
      BY <2>1, <2>2
  <1>21. Total(w, DOMAIN P) = Total(w, earned) + Total(w, fees)
    <2>1. \A r \in earned \cup fees : w[r] \in Nat
      BY <1>8, <1>10
    <2> HIDE DEF w, earned, fees
    <2>2. Total(w, earned \cup fees) = Total(w, earned) + Total(w, fees)
      BY <1>13, <1>14, <1>15, <2>1, TotalUnion
    <2>3. QED
      BY <1>8, <2>2
  <1>22. IsFiniteSet(DOMAIN P)
    <2> HIDE DEF earned, fees
    <2>1. IsFiniteSet(earned \cup fees)
      BY <1>13, <1>14, FS_Union
    <2>2. QED
      BY <1>8, <2>1
  <1>23. Total(w, DOMAIN P) = (IF settleFees THEN ChargeRaw ELSE EarnRaw) * Cardinality(mine)
    <2> DEFINE m == Cardinality(mine)
    <2> HIDE DEF m
    <2>1. m \in Nat /\ (EarnRaw + FeeRaw) * m = EarnRaw * m + FeeRaw * m /\ EarnRaw * m \in Nat
      BY <1>5, <1>7 DEF m
    <2>2. Total(w, earned) = EarnRaw * m /\ Total(w, fees) = IF settleFees THEN FeeRaw * m ELSE 0
      BY <1>19, <1>20 DEF m
    <2> HIDE DEF w, earned, fees
    <2>3. Total(w, DOMAIN P) = (IF settleFees THEN ChargeRaw ELSE EarnRaw) * m
      BY <1>21, <2>1, <2>2 DEF ChargeRaw
    <2>4. QED
      BY <2>3 DEF m
  <1>24. QED
    BY <1>9, <1>10, <1>22, <1>23 DEF P, mine

\* A batch of a claim is named after a leg that it carries.
LEMMA PlannedNamed ==
  ASSUME NEW is \in SUBSET Legs, \A i \in is : leg[i].seller \in Sellers, NEW b \in BuyersOf(is),
         NEW r \in DOMAIN BatchesFor(is, b)
  PROVE  r.min \in BatchesFor(is, b)[r].legs /\ BatchesFor(is, b)[r].legs \subseteq is
  <1> DEFINE ls == BatchesFor(is, b)[r].legs
             mine == LegsOf(is, b)
  <1>1. PlannedFor(is, b, r)
    BY PlannedBatch
  <1>2. /\ ls = IF r.dest = Treasury THEN mine ELSE {i \in mine : leg[i].seller = r.dest}
        /\ r = Ref(b, r.dest, ls)
    BY <1>1 DEF PlannedFor
  <1>3. mine # {} /\ mine \subseteq is
    BY DEF BuyersOf, LegsOf
  <1>4. r.dest = Treasury \/ \E i \in mine : r.dest = leg[i].seller
    <2> DEFINE to(s) == {i \in mine : leg[i].seller = s}
               earned == {Ref(b, s, to(s)) : s \in {leg[i].seller : i \in mine}}
               fees == IF settleFees THEN {Ref(b, Treasury, mine)} ELSE {}
    <2>1. r \in earned \cup fees
      BY DEF BatchesFor
    <2>2. \A d, l : Ref(b, d, l).dest = d
      BY DEF Ref
    <2>3. CASE r \in earned
      <3>1. PICK i \in mine : r = Ref(b, leg[i].seller, to(leg[i].seller))
        BY <2>3
      <3>2. QED
        BY <2>2, <3>1
    <2>4. CASE r \in fees
      <3>1. r = Ref(b, Treasury, mine)
        BY <2>4
      <3>2. QED
        BY <2>2, <3>1
    <2>5. QED
      BY <2>1, <2>3, <2>4
  <1>5. ls # {} /\ ls \subseteq is
    BY <1>2, <1>3, <1>4
  <1>6. is \subseteq Nat
    BY DelegationsAssumption DEF Legs
  <1> HIDE DEF ls
  <1>7. r.min = Min(ls)
    BY <1>2 DEF Ref
  <1>8. Min(ls) \in ls
    BY <1>5, <1>6, MinOfNaturals
  <1>9. QED
    BY <1>5, <1>7, <1>8 DEF ls

\* ClaimDelegationSettlements: what is deducted is what the new batches hold.
LEMMA ClaimKeeps ==
  ASSUME RegistryInv, ClaimsInv', NEW w \in Workers, ClaimCommit(w)
  PROVE  RegistryInv'
  <1> DEFINE is == work[w].legs
             P(b) == BatchesFor(is, b)
             total(b) == (IF settleFees THEN ChargeRaw ELSE EarnRaw) * Cardinality(LegsOf(is, b))
             served == {b \in BuyersOf(is) : /\ Payable(is, b)
                                             /\ ~revoked[b] /\ allowance[b] >= total(b)}
             planned == UNION {DOMAIN P(b) : b \in served}
  <1>1. /\ work[w].at = "claim"
        /\ allowance' = [b \in Buyers |-> allowance[b] - (IF b \in served THEN total(b) ELSE 0)]
        /\ batch' = [r \in DOMAIN batch \cup planned |->
                       IF r \in DOMAIN batch THEN batch[r] ELSE P(r.buyer)[r]]
        /\ overlapped' = (overlapped \/ cursor # work[w].from)
        /\ work' = [work EXCEPT ![w] = Resting]
        /\ UNCHANGED <<account, mirrored, forfeited, poll, replayed, unlocked>>
    BY DEF ClaimCommit, chainVars, bookVars
  <1>2. ClaimSound(work[w])
    BY <1>1 DEF RegistryInv, ClaimsInv, WorkSound
  <1>3. /\ is \in SUBSET Legs
        /\ \A i \in is : leg[i].seller \in Sellers /\ leg[i].buyer \in Buyers
    <2>1. \A i \in is : leg[i].state = "committed" /\ i \in Legs
      BY <1>2 DEF ClaimSound
    <2>2. \A i \in is : leg[i] \in LegRows
      BY <2>1 DEF RegistryInv, ClaimsInv, NoLeg
    <2>3. QED
      BY <1>2, <2>2 DEF ClaimSound, LegRows
  <1>4. \A b \in served : b \in Buyers /\ b \in BuyersOf(is) /\ allowance[b] >= total(b)
    BY <1>3 DEF BuyersOf
  <1> HIDE DEF is
  <1>5. ASSUME NEW b
        PROVE  /\ IsFiniteSet(DOMAIN P(b))
               /\ \A r \in DOMAIN P(b) : /\ P(b)[r].amount \in Nat /\ P(b)[r].state = "pending"
                                         /\ "amount" \in DOMAIN P(b)[r] /\ "state" \in DOMAIN P(b)[r]
               /\ Total([r \in DOMAIN P(b) |-> P(b)[r].amount], DOMAIN P(b)) = total(b)
    BY <1>3, PlannedTotal
  <1>6. ASSUME NEW b, NEW r \in DOMAIN P(b)
        PROVE  r.buyer = b
    BY <1>3, PlannedBatch DEF PlannedFor
  <1>7. ASSUME NEW b \in served, NEW r \in DOMAIN P(b)
        PROVE  r.min \in P(b)[r].legs /\ P(b)[r].legs \subseteq is
    BY <1>3, <1>4, PlannedNamed
  <1>8. ASSUME NEW b \in served PROVE total(b) \in Nat
    <2>1. /\ IsFiniteSet(DOMAIN P(b))
          /\ \A r \in DOMAIN P(b) : [x \in DOMAIN P(b) |-> P(b)[x].amount][r] \in Nat
      BY <1>5
    <2>2. Total([r \in DOMAIN P(b) |-> P(b)[r].amount], DOMAIN P(b)) \in Nat
      BY <2>1, TotalType
    <2>3. QED
      BY <1>5, <2>2
  <1> HIDE DEF P, total, served
  <1>9. IsFiniteSet(planned)
    <2> DEFINE All == {DOMAIN P(b) : b \in served}
    <2>1. IsFiniteSet(served)
      <3>1. IsFiniteSet(is)
        <4>1. IsFiniteSet(Legs)
          BY DelegationsAssumption, FS_Interval DEF Legs
        <4>2. QED
          BY <1>3, <4>1, FS_Subset
      <3> DEFINE g == [i \in is |-> leg[i].buyer]
      <3>2. g \in Surjection(is, BuyersOf(is))
        BY DEF Surjection, BuyersOf
      <3>3. IsFiniteSet(BuyersOf(is))
        BY <3>1, <3>2, FS_Surjection
      <3>4. served \in SUBSET BuyersOf(is)
        BY <1>4
      <3>5. QED
        BY <3>3, <3>4, FS_Subset
    <2> DEFINE h == [b \in served |-> DOMAIN P(b)]
    <2>2. h \in Surjection(served, All)
      BY DEF Surjection
    <2>3. IsFiniteSet(All)
      BY <2>1, <2>2, FS_Surjection
    <2>4. \A T \in All : IsFiniteSet(T)
      BY <1>5
    <2> HIDE DEF All
    <2>5. IsFiniteSet(UNION All)
      BY <2>3, <2>4, FS_UNION
    <2>6. QED
      BY <2>5 DEF All
  <1>10. \A r \in planned : r.buyer \in served /\ r \in DOMAIN P(r.buyer)
    BY <1>6
  <1>11. \A b \in served : DOMAIN P(b) \subseteq planned
    OBVIOUS
  <1> HIDE DEF planned
  <1>12. /\ DOMAIN batch' = DOMAIN batch \cup planned
         /\ \A r \in DOMAIN batch : batch'[r] = batch[r]
         /\ \A r \in planned : r \notin DOMAIN batch => batch'[r] = P(r.buyer)[r]
    BY <1>1
  <1>13. RegistryTyped'
    <2>1. allowance' \in [Buyers -> Nat]
      <3> SUFFICES ASSUME NEW b \in Buyers
                   PROVE  allowance[b] - (IF b \in served THEN total(b) ELSE 0) \in Nat
        BY <1>1
      <3>1. allowance[b] \in Nat
        BY DEF RegistryInv, RegistryTyped
      <3>2. QED
        BY <1>4, <1>8, <3>1
    <2>2. QED
      BY <1>1, <2>1 DEF RegistryInv, RegistryTyped
  <1>14. RowsSound'
    <2>1. IsFiniteSet(DOMAIN batch \cup planned)
      BY <1>9, FS_Union DEF RegistryInv, RowsSound
    <2>2. ASSUME NEW r \in DOMAIN batch' PROVE RowSound(r)'
      <3>1. CASE r \in DOMAIN batch
        BY <1>12, <3>1 DEF RegistryInv, RowsSound, RowSound
      <3>2. CASE r \notin DOMAIN batch
        <4>1. r \in planned /\ batch'[r] = P(r.buyer)[r]
          BY <1>12, <2>2, <3>2
        <4>2. r.buyer \in Buyers /\ r \in DOMAIN P(r.buyer)
          BY <1>4, <1>10, <4>1
        <4>3. QED
          BY <1>5, <4>1, <4>2 DEF RowSound
      <3>3. QED
        BY <3>1, <3>2
    <2>3. \A v \in Workers : work'[v].at \in {"sent", "final", "dead"} => work'[v].ref \in DOMAIN batch
      BY <1>1 DEF RegistryInv, RowsSound, ClaimsInv, WorkSound, Resting
    <2>4. QED
      BY <1>12, <2>1, <2>2, <2>3 DEF RowsSound
  <1>15. ASSUME ~overlapped' PROVE planned \cap DOMAIN batch = {}
    <2> SUFFICES ASSUME NEW r \in planned, r \in DOMAIN batch PROVE FALSE
      OBVIOUS
    <2>1. ~overlapped /\ cursor = work[w].from /\ cursor \in Nat
      BY <1>1, <1>15 DEF RegistryInv, ClaimsInv
    <2>2. r.min \in 1 .. cursor
      BY <2>1 DEF RegistryInv, NamedByLeg, ClaimsInv, BatchesSound
    <2>3. r.min \in is
      BY <1>7, <1>10
    <2>4. r.min > cursor
      BY <1>2, <2>1, <2>3 DEF ClaimSound, is
    <2>5. QED
      BY <2>1, <2>2, <2>4
  <1>16. NamedByLeg'
    <2> SUFFICES ASSUME ~overlapped', NEW r \in DOMAIN batch' PROVE r.min \in batch'[r].legs
      BY DEF NamedByLeg
    <2>1. CASE r \in DOMAIN batch
      BY <1>1, <1>12, <2>1 DEF RegistryInv, NamedByLeg
    <2>2. CASE r \notin DOMAIN batch
      BY <1>7, <1>10, <1>12, <2>2
    <2>3. QED
      BY <2>1, <2>2
  <1>17. ASSUME ~overlapped', NEW b \in Buyers
         PROVE  Taken(b)' = Taken(b) + (IF b \in served THEN total(b) ELSE 0)
    <2> DEFINE S == BatchesOf(b, Counted)
               T == IF b \in served THEN DOMAIN P(b) ELSE {}
    <2>1. planned \cap DOMAIN batch = {}
      BY <1>15, <1>17
    <2>2. S \subseteq DOMAIN batch /\ IsFiniteSet(S)
      BY TakenType DEF RegistryInv, BatchesOf
    <2>3. T \subseteq planned /\ IsFiniteSet(T) /\ S \cap T = {}
      BY <1>5, <1>11, <2>1, <2>2, FS_EmptySet
    <2>4. ASSUME NEW r \in T
          PROVE  b \in served /\ r.buyer = b /\ batch'[r] = P(b)[r] /\ batch'[r].state = "pending"
      <3>1. b \in served /\ r \in DOMAIN P(b)
        OBVIOUS
      <3>2. r.buyer = b
        BY <1>6, <3>1
      <3>3. batch'[r] = P(r.buyer)[r]
        BY <1>12, <2>1, <2>3
      <3>4. P(b)[r].state = "pending"
        BY <1>5, <3>1
      <3>5. QED
        BY <3>1, <3>2, <3>3, <3>4
    <2>5. BatchesOf(b, Counted)' = S \cup T
      <3>1. ASSUME NEW r \in DOMAIN batch'
            PROVE  r.buyer = b /\ batch'[r].state \in Counted <=> r \in S \cup T
        <4>1. CASE r \in DOMAIN batch
          BY <1>12, <2>1, <2>3, <4>1 DEF BatchesOf
        <4>2. CASE r \notin DOMAIN batch
          <5>1. r \in planned /\ r.buyer \in served /\ r \in DOMAIN P(r.buyer)
            BY <1>10, <1>12, <3>1, <4>2
          <5>2. r \notin S
            BY <2>2, <4>2
          <5>3. CASE r.buyer = b
            BY <2>4, <5>1, <5>3 DEF Counted, OpenStates
          <5>4. CASE r.buyer # b
            BY <2>4, <5>2, <5>4
          <5>5. QED
            BY <5>3, <5>4
        <4>3. QED
          BY <4>1, <4>2
      <3>2. S \cup T \subseteq DOMAIN batch'
        BY <1>12, <2>2, <2>3
      <3>3. BatchesOf(b, Counted)' = {r \in DOMAIN batch' : r.buyer = b /\ batch'[r].state \in Counted}
        BY DEF BatchesOf, Counted, OpenStates
      <3> HIDE DEF S, T
      <3>4. QED
        BY <3>1, <3>2, <3>3
    <2>6. \A r \in S : BatchAmount[r] \in Nat /\ BatchAmount'[r] = BatchAmount[r]
      BY <1>12, <2>2, TakenType DEF RegistryInv, BatchAmount
    <2>7. \A r \in T : BatchAmount'[r] = P(b)[r].amount /\ P(b)[r].amount \in Nat
      BY <1>5, <1>12, <2>3, <2>4 DEF BatchAmount
    <2>8. Total(BatchAmount', T) = IF b \in served THEN total(b) ELSE 0
      <3>1. CASE b \in served
        <4> DEFINE v == [r \in DOMAIN P(b) |-> P(b)[r].amount]
        <4>1. T = DOMAIN P(b) /\ Total(v, DOMAIN P(b)) = total(b)
          BY <1>5, <3>1
        <4>2. \A r \in T : BatchAmount'[r] = v[r]
          BY <2>7, <4>1
        <4> HIDE DEF T, v
        <4>3. Total(BatchAmount', T) = Total(v, T)
          BY <4>2, TotalSame
        <4>4. QED
          BY <3>1, <4>1, <4>3
      <3>2. CASE b \notin served
        BY <3>2, TotalEmpty
      <3>3. QED
        BY <3>1, <3>2
    <2> HIDE DEF S, T
    <2>9. Total(BatchAmount', S) = Total(BatchAmount, S)
      BY <2>6, TotalSame
    <2>10. Total(BatchAmount', S \cup T) = Total(BatchAmount', S) + Total(BatchAmount', T)
      <3>1. \A r \in S \cup T : BatchAmount'[r] \in Nat
        BY <2>6, <2>7
      <3>2. QED
        BY <2>2, <2>3, <3>1, TotalUnion
    <2>11. Taken(b)' = Total(BatchAmount', S \cup T) /\ Taken(b) = Total(BatchAmount, S)
      BY <2>5 DEF Taken, S
    <2>12. QED
      BY <2>8, <2>9, <2>10, <2>11
  <1>18. ASSUME ~overlapped', ~replayed', ~unlocked', NEW b \in Buyers
         PROVE  allowance'[b] + Taken(b)' + forfeited'[b] = mirrored'[b]
    <2>1. allowance[b] + Taken(b) + forfeited[b] = mirrored[b]
      BY <1>1, <1>18 DEF RegistryInv, RegistryAccounted, RegistryBalanced, Taken, Counted
    <2>2. Taken(b) \in Nat /\ forfeited[b] \in Nat /\ allowance[b] \in Nat /\ mirrored[b] \in Int
      BY TakenType DEF RegistryInv, RegistryTyped
    <2>3. allowance'[b] = allowance[b] - (IF b \in served THEN total(b) ELSE 0)
      BY <1>1
    <2>4. (IF b \in served THEN total(b) ELSE 0) \in Nat
      BY <1>8
    <2>5. Taken(b)' = Taken(b) + (IF b \in served THEN total(b) ELSE 0)
      BY <1>17, <1>18
    <2>6. forfeited' = forfeited /\ mirrored' = mirrored
      BY <1>1
    <2>7. QED
      BY <2>1, <2>2, <2>3, <2>4, <2>5, <2>6
  <1>19. RegistryAccounted'
    BY <1>18 DEF RegistryAccounted, RegistryBalanced, Taken, Counted, OpenStates
  <1>20. QED
    BY <1>13, <1>14, <1>16, <1>19 DEF RegistryInv

LEMMA RegistryStep ==
  ASSUME RegistryInv, [Next]_vars
  PROVE  RegistryInv'
  <1>0. /\ ClaimsInv /\ ClaimsInv' /\ RowsSound /\ WorkSound /\ RegistryTyped
        /\ \A r \in DOMAIN batch :
             "legs" \in DOMAIN batch[r] /\ "amount" \in DOMAIN batch[r] /\ "state" \in DOMAIN batch[r]
    BY ClaimsStep DEF RegistryInv, ClaimsInv, BatchesSound, RowsSound, RowSound
  <1> DEFINE still == UNCHANGED <<allowance, mirrored, forfeited, overlapped, replayed, unlocked>>
  <1>1. batch' = batch => BatchesCount
    BY <1>0 DEF BatchesCount
  <1>2. ASSUME BatchesCount, UNCHANGED <<account, poll>>, still,
               \/ work' = work
               \/ \E w \in Workers : \E x :
                    /\ work' = [work EXCEPT ![w] = x]
                    /\ x.at \in {"sent", "final", "dead"} => x.ref \in DOMAIN batch
        PROVE  RegistryInv'
    <2>1. RowsSound'
      BY <1>0, <1>2, RowsStay
    <2>2. RegistryTyped'
      BY <1>0, <1>2 DEF RegistryTyped
    <2>3. QED
      BY <1>0, <1>2, <2>1, <2>2, RegistryKept
  <1>3. ASSUME UNCHANGED <<batch, work>>, still, RegistryTyped' PROVE RegistryInv'
    <2>1. BatchesCount
      BY <1>1, <1>3
    <2>2. RowsSound'
      BY <1>0, <1>3, <2>1, RowsStay
    <2>3. QED
      BY <1>0, <1>3, <2>1, <2>2, RegistryKept
  <1>4. ASSUME NEW r \in DOMAIN batch, NEW v, batch[r].state \in Counted, v \in Counted,
               batch' = [batch EXCEPT ![r].state = v]
        PROVE  BatchesCount
    BY <1>0, <1>4 DEF BatchesCount
  <1>5. ASSUME NEW r \in DOMAIN batch, NEW v,
               batch' = [batch EXCEPT ![r].tx = v] \/ batch' = [batch EXCEPT ![r].expired = v]
        PROVE  BatchesCount
    BY <1>0, <1>5 DEF BatchesCount
  <1>6. ASSUME NEW b \in Buyers, NEW e \in BOOLEAN, NEW m \in Nat, SetAccount(b, e, m)
        PROVE  RegistryInv'
    <2>1. /\ account' = [account EXCEPT ![b] = [exists |-> e, delegated |-> m]]
          /\ UNCHANGED <<batch, work, poll>> /\ still
      BY <1>6 DEF SetAccount, registryVars, claimVars, ghostVars, bookVars
    <2>2. RegistryTyped'
      BY <1>0, <2>1 DEF RegistryTyped
    <2>3. QED
      BY <1>3, <2>1, <2>2
  <1>7. CASE \E b \in Buyers : Approve(b) \/ RevokeOnChain(b) \/ CloseAccount(b) \/ ReopenAccount(b)
    <2>1. Approvals \subseteq Nat
      BY DelegationsAssumption
    <2>2. QED
      BY <1>6, <1>7, <2>1 DEF Approve, RevokeOnChain, CloseAccount, ReopenAccount
  <1>8. ASSUME NEW p \in Pollers, NEW x, poll' = [poll EXCEPT ![p] = x],
               PollSound(x),
               UNCHANGED <<account, batch, work>>, still
        PROVE  RegistryInv'
    <2>1. RegistryTyped'
      BY <1>0, <1>8 DEF RegistryTyped
    <2>2. QED
      BY <1>3, <1>8, <2>1
  <1>9. PollSound(Resting) /\ Resting.at \notin {"sent", "final", "dead"}
    BY DEF Resting, PollSound
  <1>10. ASSUME NEW p \in Pollers, NEW b \in Buyers, ObserveWallet(p, b) PROVE RegistryInv'
    <2> DEFINE x == [at |-> IF TokenDelegation(b).amount > 0 THEN "upsert" ELSE "check",
                     buyer |-> b, slot |-> TokenDelegation(b).slot,
                     amount |-> ToInt64(TokenDelegation(b).amount)]
    <2>1. poll' = [poll EXCEPT ![p] = x] /\ UNCHANGED <<account, batch, work>> /\ still
      BY <1>10 DEF ObserveWallet, chainVars, registryVars, claimVars, ghostVars, bookVars
    <2>2. TokenDelegation(b).amount \in Nat
      BY <1>0 DEF TokenDelegation, RegistryTyped
    <2>3. ToInt64(TokenDelegation(b).amount) \in Int
      BY <2>2, DelegationsAssumption DEF ToInt64
    <2>4. x.buyer = b /\ x.amount \in Int /\ x.at # "insert"
      BY <2>3
    <2>5. PollSound(x)
      BY <2>4 DEF PollSound
    <2> HIDE DEF x
    <2>6. QED
      BY <1>8, <2>1, <2>5
  <1>11. ASSUME NEW p \in Pollers, NEW at \in {"upsert", "insert"}, poll[p].at \in {"check", "upsert"},
                at = "insert" => poll[p].amount \in Nat, poll' = [poll EXCEPT ![p].at = at],
                UNCHANGED <<account, batch, work>>, still
         PROVE  RegistryInv'
    <2> DEFINE x == [poll[p] EXCEPT !.at = at]
    <2>1. PollSound(poll[p])
      BY <1>0 DEF RegistryTyped
    <2>2. PollSound(x)
      BY <1>11, <2>1 DEF PollSound
    <2>3. poll' = [poll EXCEPT ![p] = x]
      BY <1>11
    <2> HIDE DEF x
    <2>4. QED
      BY <1>8, <1>11, <2>2, <2>3
  <1>12. ASSUME NEW p \in Pollers, PollFails(p) PROVE RegistryInv'
    <2>1. poll' = [poll EXCEPT ![p] = Resting] /\ UNCHANGED <<account, batch, work>> /\ still
      BY <1>12 DEF PollFails, chainVars, registryVars, claimVars, ghostVars, bookVars
    <2>2. QED
      BY <1>8, <1>9, <2>1
  <1>13. ASSUME NEW p \in Pollers, Poll(p) PROVE RegistryInv'
    <2>0. PollSound(poll[p])
      BY <1>0 DEF RegistryTyped
    <2>1. CASE CheckRegistry(p)
      <3>1. /\ poll[p].at = "check" /\ UNCHANGED <<account, batch, work>> /\ still
            /\ poll' = [poll EXCEPT ![p].at = "upsert"] \/ poll' = [poll EXCEPT ![p] = Resting]
        BY <2>1 DEF CheckRegistry, chainVars, registryVars, claimVars, ghostVars, bookVars
      <3>2. CASE poll' = [poll EXCEPT ![p] = Resting]
        BY <1>8, <1>9, <3>1, <3>2
      <3>3. CASE poll' = [poll EXCEPT ![p].at = "upsert"]
        BY <1>11, <3>1, <3>3
      <3>4. QED
        BY <3>1, <3>2, <3>3
    <2>2. CASE UpsertAllowance(p)
      <3>1. /\ poll[p].at = "upsert" /\ poll[p].amount >= 0
            /\ MirrorDelta(p, allowance[poll[p].buyer])
        BY <2>2 DEF UpsertAllowance
      <3>2. poll[p].buyer \in Buyers /\ poll[p].amount \in Nat
        BY <2>0, <3>1 DEF PollSound
      <3>3. allowance[poll[p].buyer] \in Nat
        BY <1>0, <3>2 DEF RegistryTyped
      <3>4. QED
        BY <1>0, <3>1, <3>2, <3>3, MirrorKeeps
    <2>3. CASE SelectMissing(p)
      <3>1. /\ poll[p].at = "upsert" /\ poll[p].amount >= 0
            /\ poll' = [poll EXCEPT ![p].at = "insert"]
            /\ UNCHANGED <<account, batch, work>> /\ still
        BY <2>3 DEF SelectMissing, chainVars, registryVars, claimVars, ghostVars, bookVars
      <3>2. poll[p].amount \in Nat
        BY <2>0, <3>1 DEF PollSound
      <3>3. QED
        BY <1>11, <3>1, <3>2
    <2>4. CASE RefuseNegative(p)
      <3>1. poll' = [poll EXCEPT ![p] = Resting] /\ UNCHANGED <<account, batch, work>> /\ still
        BY <2>4 DEF RefuseNegative, chainVars, registryVars, claimVars, ghostVars, bookVars
      <3>2. QED
        BY <1>8, <1>9, <3>1
    <2>5. CASE InsertAllowance(p)
      <3>1. poll[p].at = "insert" /\ MirrorDelta(p, 0)
        BY <2>5 DEF InsertAllowance
      <3>2. poll[p].buyer \in Buyers /\ poll[p].amount \in Nat
        BY <2>0, <3>1 DEF PollSound
      <3>3. QED
        BY <1>0, <3>1, <3>2, MirrorKeeps
    <2>6. QED
      BY <1>13, <2>1, <2>2, <2>3, <2>4, <2>5 DEF Poll, Upsert
  <1>14. CASE \E i \in Legs : (\E b \in Buyers, s \in Sellers : Charge(i, b, s)) \/ CommitLegs(i)
    <2>1. UNCHANGED <<account, poll, batch, work>> /\ still
      BY <1>14 DEF Charge, CommitLegs, chainVars, registryVars, ghostVars, bookVars
    <2>2. QED
      BY <1>1, <1>2, <2>1
  <1>15. ASSUME NEW w \in Workers, ClaimRead(w) PROVE RegistryInv'
    <2> DEFINE x == [at |-> "claim", legs |-> Window, from |-> cursor]
    <2>1. work' = [work EXCEPT ![w] = x] /\ UNCHANGED <<account, poll, batch>> /\ still
      BY <1>15 DEF ClaimRead, chainVars, registryVars, claimVars, ghostVars, bookVars
    <2>2. x.at = "claim"
      OBVIOUS
    <2> HIDE DEF x
    <2>3. x.at \in {"sent", "final", "dead"} => x.ref \in DOMAIN batch
      BY <2>2
    <2>4. QED
      BY <1>1, <1>2, <2>1, <2>3
  <1>16. ASSUME NEW w \in Workers, WorkFails(w) PROVE RegistryInv'
    <2>1. work' = [work EXCEPT ![w] = Resting] /\ UNCHANGED <<account, poll, batch>> /\ still
      BY <1>16 DEF WorkFails, Done, chainVars, registryVars, claimVars, ghostVars, bookVars
    <2>2. QED
      BY <1>1, <1>2, <1>9, <2>1
  <1>17. ASSUME NEW w \in Workers, MarkSettlementBroadcast(w) \/ FinalizeSettlement(w)
         PROVE  RegistryInv'
    <2> DEFINE r == work[w].ref
    <2>1. /\ work' = [work EXCEPT ![w] = Resting] /\ UNCHANGED <<account, poll>> /\ still
          /\ work[w].at \in {"sent", "final"}
      BY <1>17 DEF MarkSettlementBroadcast, FinalizeSettlement, Done, chainVars, registryVars, ghostVars, bookVars
    <2>2. r \in DOMAIN batch
      BY <1>0, <2>1 DEF RowsSound
    <2>3. \/ batch' = batch
          \/ batch[r].state = "signed" /\ batch' = [batch EXCEPT ![r].state = "broadcast"]
          \/ batch[r].state = "broadcast" /\ batch' = [batch EXCEPT ![r].state = "finalized"]
      BY <1>17 DEF MarkSettlementBroadcast, FinalizeSettlement
    <2>4. {"signed", "broadcast", "finalized"} \subseteq Counted
      BY DEF Counted, OpenStates
    <2> HIDE DEF r
    <2>5. BatchesCount
      BY <1>1, <1>4, <2>2, <2>3, <2>4
    <2>6. QED
      BY <1>2, <1>9, <2>1, <2>5
  <1>18. ASSUME NEW w \in Workers, RestoreSettlement(w) PROVE RegistryInv'
    <2>1. CASE Restorable(work[w].ref)
      BY <1>0, <1>18, <2>1, RestoreKeeps
    <2>2. CASE ~Restorable(work[w].ref)
      <3>1. work' = [work EXCEPT ![w] = Resting] /\ UNCHANGED <<account, poll, batch>> /\ still
        BY <1>18, <2>2 DEF RestoreSettlement, Done, chainVars, bookVars
      <3>2. QED
        BY <1>1, <1>2, <1>9, <3>1
    <2>3. QED
      BY <2>1, <2>2
  <1>19. ASSUME NEW w \in Workers, NEW r \in DOMAIN batch, NEW what, Learn(w, r, what)
         PROVE  \E v \in Workers : \E x : /\ work' = [work EXCEPT ![v] = x]
                                          /\ x.at \in {"sent", "final", "dead"} => x.ref \in DOMAIN batch
    <2> DEFINE x == [at |-> what, ref |-> r]
    <2>1. work' = [work EXCEPT ![w] = x] /\ x.ref = r
      BY <1>19 DEF Learn
    <2> HIDE DEF x
    <2>2. QED
      BY <2>1
  <1>20. ASSUME NEW w \in Workers, NEW r \in DOMAIN batch, SendTransaction(w, r) PROVE RegistryInv'
    <2>1. /\ UNCHANGED <<account, poll>> /\ still
          /\ batch' = batch \/ batch' = [batch EXCEPT ![r].tx = "network"]
          /\ Learn(w, r, "sent") \/ work' = work
      BY <1>20 DEF SendTransaction, chainVars, registryVars, ghostVars, bookVars
    <2>2. BatchesCount
      BY <1>1, <1>5, <2>1
    <2>3. QED
      BY <1>2, <1>19, <2>1, <2>2
  <1>21. ASSUME NEW w \in Workers, NEW r \in DOMAIN batch, SendExpired(w, r) \/ SignatureStatus(w, r)
         PROVE  RegistryInv'
    <2>1. /\ UNCHANGED <<account, poll, batch>> /\ still
          /\ Learn(w, r, "dead") \/ Learn(w, r, "final")
      BY <1>21 DEF SendExpired, SignatureStatus, chainVars, registryVars, claimVars, ghostVars, bookVars
    <2>2. QED
      BY <1>1, <1>2, <1>19, <2>1
  <1>22. ASSUME NEW r \in DOMAIN batch, MarkSettlementSigned(r) \/ ExpireBlockhash(r)
         PROVE  RegistryInv'
    <2>1. UNCHANGED <<account, poll, work>> /\ still
      BY <1>22 DEF MarkSettlementSigned, ExpireBlockhash, chainVars, registryVars, ghostVars, bookVars
    <2>2. \/ batch[r].state = "pending" /\ batch' = [batch EXCEPT ![r].state = "signed"]
          \/ batch' = [batch EXCEPT ![r].expired = TRUE]
      BY <1>22 DEF MarkSettlementSigned, ExpireBlockhash
    <2>3. {"pending", "signed"} \subseteq Counted
      BY DEF Counted, OpenStates
    <2>4. BatchesCount
      BY <1>4, <1>5, <2>2, <2>3
    <2>5. QED
      BY <1>2, <2>1, <2>4
  <1>23. ASSUME NEW r \in DOMAIN batch, Execute(r) PROVE RegistryInv'
    <2> DEFINE b == batch[r].source
               m == batch[r].amount
    <2>1. /\ UNCHANGED <<poll, work>> /\ still
          /\ \E v : batch' = [batch EXCEPT ![r].tx = v]
          /\ \/ account' = account
             \/ account[b].delegated >= m /\ account' = [account EXCEPT ![b].delegated = @ - m]
      BY <1>23 DEF Execute, registryVars, ghostVars, bookVars
    <2>2. m \in Nat
      BY <1>0 DEF RowsSound, RowSound
    <2> HIDE DEF b, m
    <2>3. account' \in [Buyers -> [exists : BOOLEAN, delegated : Nat]]
      <3>1. account \in [Buyers -> [exists : BOOLEAN, delegated : Nat]]
        BY <1>0 DEF RegistryTyped
      <3>2. CASE account' = account
        BY <3>1, <3>2
      <3>3. CASE account[b].delegated >= m /\ account' = [account EXCEPT ![b].delegated = @ - m]
        <4>1. CASE b \in Buyers
          <5>1. account[b].delegated \in Nat /\ account[b].delegated - m \in Nat
            BY <2>2, <3>1, <3>3, <4>1
          <5>2. QED
            BY <3>1, <3>3, <5>1
        <4>2. CASE b \notin Buyers
          BY <3>1, <3>3, <4>2
        <4>3. QED
          BY <4>1, <4>2
      <3>4. QED
        BY <2>1, <3>2, <3>3
    <2>4. BatchesCount
      BY <1>5, <2>1
    <2>5. RowsSound'
      BY <1>0, <2>1, <2>4, RowsStay
    <2>6. RegistryTyped'
      BY <1>0, <2>1, <2>3 DEF RegistryTyped
    <2>7. QED
      BY <1>0, <2>1, <2>4, <2>5, <2>6, RegistryKept
  <1>24. ASSUME NextSlot \/ UNCHANGED vars PROVE RegistryInv'
    <2>1. UNCHANGED <<account, poll, batch, work>> /\ still
      BY <1>24 DEF NextSlot, vars, chainVars, registryVars, claimVars, ghostVars, bookVars
    <2>2. QED
      BY <1>1, <1>2, <2>1
  <1>25. ASSUME NEW w \in Workers, ClaimCommit(w) PROVE RegistryInv'
    BY <1>0, <1>25, ClaimKeeps
  <1> HIDE DEF still
  <1>26. QED
    BY <1>7, <1>10, <1>12, <1>13, <1>14, <1>15, <1>16, <1>17, <1>18, <1>20, <1>21, <1>22,
       <1>23, <1>24, <1>25
    DEF Next

-----------------------------------------------------------------------------
(* The credit follows the ledger.                                          *)

LEMMA MaxOfTwo ==
  ASSUME NEW x \in Int, NEW y \in Int
  PROVE  Max({x, y}) = IF x >= y THEN x ELSE y
  <1> DEFINE m == IF x >= y THEN x ELSE y
  <1>1. m \in {x, y} /\ \A z \in {x, y} : m >= z
    OBVIOUS
  <1>2. Max({x, y}) \in {x, y} /\ \A z \in {x, y} : Max({x, y}) >= z
    BY <1>1 DEF Max
  <1>3. QED
    BY <1>2

CreditTyped ==
  /\ credit \in [Buyers -> Int] /\ reserved \in [Buyers -> Int] /\ shortfall \in [Buyers -> Int]
CreditInv == RegistryInv /\ CreditTyped /\ (~wrapped => CreditFollows)

LEMMA ChargesFinite ==
  ASSUME NEW b
  PROVE  IsFiniteSet(ChargesOf(b)) /\ Cardinality(ChargesOf(b)) \in Nat
  <1>1. IsFiniteSet(Legs) /\ ChargesOf(b) \subseteq Legs
    BY DelegationsAssumption, FS_Interval DEF Legs, ChargesOf
  <1>2. QED
    BY <1>1, FS_Subset, FS_CardinalityType

LEMMA CreditStarts == Init => CreditInv
  <1> SUFFICES ASSUME Init PROVE CreditInv
    OBVIOUS
  <1>1. CreditTyped
    BY DEF Init, CreditTyped
  <1>2. ASSUME NEW b \in Buyers
        PROVE  credit[b] + ChargeRaw * Cardinality(ChargesOf(b)) = mirrored[b] + shortfall[b]
    <2>1. ChargesOf(b) = {}
      BY DEF Init, ChargesOf, NoLeg
    <2>2. Cardinality(ChargesOf(b)) = 0
      BY <2>1, FS_EmptySet
    <2>3. credit[b] = 0 /\ mirrored[b] = 0 /\ shortfall[b] = 0
      BY DEF Init
    <2>4. ChargeRaw \in Nat
      BY DelegationsAssumption DEF ChargeRaw
    <2>5. QED
      BY <2>2, <2>3, <2>4
  <1>3. QED
    BY <1>1, <1>2, RegistryStarts DEF CreditInv, CreditFollows

\* MirrorDelta: the credit takes what the ledger takes; what the reservations
\* keep is the shortfall.
LEMMA MirrorFollows ==
  ASSUME CreditInv, NEW p \in Pollers, NEW prev \in Nat, MirrorDelta(p, prev),
         poll[p].buyer \in Buyers, poll[p].amount \in Nat
  PROVE  CreditTyped' /\ (~wrapped' => CreditFollows')
  <1> DEFINE b == poll[p].buyer
             delta == poll[p].amount - prev
             ref == <<b, poll[p].slot, IF delta < 0 THEN "revoke" ELSE "grant">>
             new == ToInt64(credit[b] + delta)
             taken == Max({reserved[b], new})
             short == Max({0, reserved[b] - new})
  <1>1. CASE delta # 0 /\ ref \notin observed
    <2>1. /\ mirrored' = [mirrored EXCEPT ![b] = @ + delta]
          /\ credit' = [credit EXCEPT ![b] = taken]
          /\ shortfall' = [shortfall EXCEPT ![b] = @ + short]
          /\ wrapped' = (wrapped \/ credit[b] + delta > MaxRaw)
          /\ UNCHANGED <<reserved, leg>>
      BY <1>1 DEF MirrorDelta, claimVars
    <2>2. /\ b \in Buyers /\ delta \in Int /\ credit[b] \in Int /\ reserved[b] \in Int
          /\ shortfall[b] \in Int /\ mirrored[b] \in Int /\ MaxRaw \in Nat
      BY DelegationsAssumption DEF CreditInv, CreditTyped, RegistryInv, RegistryTyped
    <2>3. new \in Int
      BY <2>2 DEF ToInt64
    <2> HIDE DEF new, b, delta
    <2>4. /\ taken = IF reserved[b] >= new THEN reserved[b] ELSE new
          /\ short = IF 0 >= reserved[b] - new THEN 0 ELSE reserved[b] - new
      BY <2>2, <2>3, MaxOfTwo
    <2> HIDE DEF taken, short
    <2>5. taken \in Int /\ short \in Int /\ taken = new + short
      BY <2>2, <2>3, <2>4
    <2>6. CreditTyped'
      BY <2>1, <2>2, <2>5 DEF CreditInv, CreditTyped
    <2>7. ASSUME ~wrapped', NEW a \in Buyers
          PROVE  credit'[a] + ChargeRaw * Cardinality(ChargesOf(a)') = mirrored'[a] + shortfall'[a]
      <3>1. ~wrapped /\ ~(credit[b] + delta > MaxRaw)
        BY <2>1, <2>7
      <3>2. new = credit[b] + delta
        BY <2>2, <3>1 DEF ToInt64, new
      <3>3. credit[a] + ChargeRaw * Cardinality(ChargesOf(a)) = mirrored[a] + shortfall[a]
        BY <3>1 DEF CreditInv, CreditFollows
      <3>4. ChargesOf(a)' = ChargesOf(a)
        BY <2>1 DEF ChargesOf
      <3>5. CASE a # b
        <4>1. credit'[a] = credit[a] /\ mirrored'[a] = mirrored[a] /\ shortfall'[a] = shortfall[a]
          BY <2>1, <3>5 DEF CreditInv, CreditTyped, RegistryInv, RegistryTyped
        <4>2. QED
          BY <3>3, <3>4, <4>1
      <3>6. CASE a = b
        <4>1. credit'[a] = taken /\ mirrored'[a] = mirrored[b] + delta /\ shortfall'[a] = shortfall[b] + short
          BY <2>1, <2>2, <3>6 DEF CreditInv, CreditTyped, RegistryInv, RegistryTyped
        <4> DEFINE paid == ChargeRaw * Cardinality(ChargesOf(a))
        <4>2. paid \in Int
          BY ChargesFinite, DelegationsAssumption DEF ChargeRaw
        <4>3. credit[b] + paid = mirrored[b] + shortfall[b]
          BY <3>3, <3>6
        <4> HIDE DEF paid
        <4>4. taken + paid = (mirrored[b] + delta) + (shortfall[b] + short)
          <5>1. \A c, d, m, f, x, z, t \in Int :
                  c + z = m + f /\ t = (c + d) + x => t + z = (m + d) + (f + x)
            OBVIOUS
          <5>2. taken = (credit[b] + delta) + short
            BY <2>5, <3>2
          <5>3. QED
            BY <2>2, <2>5, <4>2, <4>3, <5>1, <5>2
        <4>5. QED
          BY <3>4, <4>1, <4>4 DEF paid
      <3>7. QED
        BY <3>5, <3>6
    <2>8. QED
      BY <2>6, <2>7 DEF CreditFollows
  <1>2. CASE ~(delta # 0 /\ ref \notin observed)
    <2>1. UNCHANGED <<mirrored, credit, shortfall, wrapped, reserved, leg>>
      BY <1>2 DEF MirrorDelta, claimVars
    <2>2. QED
      BY <2>1 DEF CreditInv, CreditTyped, CreditFollows, ChargesOf
  <1>3. QED
    BY <1>1, <1>2

\* The settlement of a charge takes from the credit what it adds to the charges.
LEMMA CommitFollows ==
  ASSUME CreditInv, NEW i \in Legs, CommitLegs(i)
  PROVE  CreditTyped' /\ (~wrapped' => CreditFollows')
  <1> DEFINE b == leg[i].buyer
  <1>1. /\ leg[i].state = "drawn" /\ leg' = [leg EXCEPT ![i].state = "committed"]
        /\ credit' = [credit EXCEPT ![b] = @ - ChargeRaw]
        /\ reserved' = [reserved EXCEPT ![b] = @ - ChargeRaw]
        /\ UNCHANGED <<mirrored, shortfall, wrapped>>
    BY DEF CommitLegs, registryVars, ghostVars, bookVars
  <1>2. leg \in [Legs -> LegRows \cup {NoLeg}]
    BY DEF CreditInv, RegistryInv, ClaimsInv
  <1>3. leg[i] \in LegRows
    BY <1>1, <1>2 DEF NoLeg
  <1>4. b \in Buyers /\ ChargeRaw \in Nat
    BY <1>3, DelegationsAssumption DEF LegRows, ChargeRaw
  <1>5. CreditTyped'
    BY <1>1, <1>4 DEF CreditInv, CreditTyped
  <1>6. \A k \in Legs : /\ k # i => leg'[k] = leg[k]
                        /\ leg'[i].state = "committed" /\ leg'[i].buyer = b
    BY <1>1, <1>2, <1>3 DEF LegRows
  <1> HIDE DEF b
  <1>7. ASSUME ~wrapped', NEW a \in Buyers
        PROVE  credit'[a] + ChargeRaw * Cardinality(ChargesOf(a)') = mirrored'[a] + shortfall'[a]
    <2>1. credit[a] + ChargeRaw * Cardinality(ChargesOf(a)) = mirrored[a] + shortfall[a]
      BY <1>1, <1>7 DEF CreditInv, CreditFollows
    <2>2. i \notin ChargesOf(a)
      BY <1>1 DEF ChargesOf
    <2>3. CASE a # b
      <3>1. ChargesOf(a)' = ChargesOf(a)
        BY <1>6, <2>2, <2>3 DEF ChargesOf
      <3>2. credit'[a] = credit[a]
        BY <1>1, <2>3 DEF CreditInv, CreditTyped
      <3>3. QED
        BY <1>1, <2>1, <3>1, <3>2
    <2>4. CASE a = b
      <3>1. ChargesOf(a)' = ChargesOf(a) \cup {i}
        BY <1>6, <2>4 DEF ChargesOf
      <3> DEFINE n == Cardinality(ChargesOf(a))
      <3>2. n \in Nat /\ Cardinality(ChargesOf(a)') = n + 1
        BY <2>2, <3>1, ChargesFinite, FS_AddElement
      <3>3. credit'[a] = credit[a] - ChargeRaw /\ credit[a] \in Int
        BY <1>1, <2>4 DEF CreditInv, CreditTyped
      <3> HIDE DEF n
      <3>4. ChargeRaw * (n + 1) = ChargeRaw * n + ChargeRaw /\ ChargeRaw * n \in Int
        BY <1>4, <3>2
      <3>5. credit[a] + ChargeRaw * n = mirrored[a] + shortfall[a]
        BY <2>1 DEF n
      <3>6. (credit[a] - ChargeRaw) + ChargeRaw * (n + 1) = mirrored[a] + shortfall[a]
        BY <1>4, <3>3, <3>4, <3>5
      <3>7. QED
        BY <1>1, <3>2, <3>3, <3>6
    <2>5. QED
      BY <2>3, <2>4
  <1>8. QED
    BY <1>5, <1>7 DEF CreditFollows

LEMMA CreditStep ==
  ASSUME CreditInv, [Next]_vars
  PROVE  CreditInv'
  <1>0. RegistryInv /\ RegistryInv' /\ leg \in [Legs -> LegRows \cup {NoLeg}]
    BY RegistryStep DEF CreditInv, RegistryInv, ClaimsInv
  <1> DEFINE Follows == CreditTyped' /\ (~wrapped' => CreditFollows')
  <1>1. ASSUME UNCHANGED <<credit, reserved, mirrored, shortfall, wrapped, leg>> PROVE Follows
    BY <1>1 DEF CreditInv, CreditTyped, CreditFollows, ChargesOf
  <1>2. ASSUME NEW b \in Buyers, Approve(b) \/ RevokeOnChain(b) \/ CloseAccount(b) \/ ReopenAccount(b)
        PROVE  Follows
    BY <1>1, <1>2 DEF Approve, RevokeOnChain, CloseAccount, ReopenAccount, SetAccount, registryVars,
                      creditVars, claimVars, ghostVars, bookVars
  <1>3. ASSUME NEW p \in Pollers, Poll(p) PROVE Follows
    <2>1. PollSound(poll[p])
      BY <1>0 DEF RegistryInv, RegistryTyped
    <2>2. CASE UpsertAllowance(p)
      <3>1. /\ poll[p].at = "upsert" /\ poll[p].amount >= 0
            /\ MirrorDelta(p, allowance[poll[p].buyer])
        BY <2>2 DEF UpsertAllowance
      <3>2. poll[p].buyer \in Buyers /\ poll[p].amount \in Nat
        BY <2>1, <3>1 DEF PollSound
      <3>3. allowance[poll[p].buyer] \in Nat
        BY <1>0, <3>2 DEF RegistryInv, RegistryTyped
      <3>4. QED
        BY <3>1, <3>2, <3>3, MirrorFollows
    <2>3. CASE InsertAllowance(p)
      <3>1. poll[p].at = "insert" /\ MirrorDelta(p, 0)
        BY <2>3 DEF InsertAllowance
      <3>2. poll[p].buyer \in Buyers /\ poll[p].amount \in Nat
        BY <2>1, <3>1 DEF PollSound
      <3>3. QED
        BY <3>1, <3>2, MirrorFollows
    <2>4. CASE CheckRegistry(p) \/ SelectMissing(p) \/ RefuseNegative(p)
      BY <1>1, <2>4 DEF CheckRegistry, SelectMissing, RefuseNegative, registryVars, creditVars,
                        claimVars, ghostVars, bookVars
    <2>5. QED
      BY <1>3, <2>2, <2>3, <2>4 DEF Poll, Upsert
  <1>4. ASSUME NEW p \in Pollers, (\E b \in Buyers : ObserveWallet(p, b)) \/ PollFails(p)
        PROVE  Follows
    BY <1>1, <1>4 DEF ObserveWallet, PollFails, registryVars, creditVars, claimVars, ghostVars, bookVars
  <1>5. ASSUME NEW i \in Legs, NEW b \in Buyers, NEW s \in Sellers, Charge(i, b, s) PROVE Follows
    <2>1. /\ leg[i] = NoLeg /\ leg' = [leg EXCEPT ![i] = [state |-> "drawn", buyer |-> b, seller |-> s]]
          /\ reserved' = [reserved EXCEPT ![b] = @ + ChargeRaw]
          /\ UNCHANGED <<credit, mirrored, shortfall, wrapped>>
      BY <1>5 DEF Charge, registryVars, ghostVars, bookVars
    <2>2. \A a : ChargesOf(a)' = ChargesOf(a)
      BY <1>0, <2>1 DEF ChargesOf, NoLeg
    <2>3. CreditTyped'
      BY <2>1, DelegationsAssumption DEF CreditInv, CreditTyped, ChargeRaw
    <2>4. QED
      BY <2>1, <2>2, <2>3 DEF CreditInv, CreditFollows
  <1>6. ASSUME NEW i \in Legs, CommitLegs(i) PROVE Follows
    BY <1>6, CommitFollows
  <1>7. ASSUME NEW w \in Workers,
               \/ ClaimRead(w) \/ ClaimCommit(w) \/ WorkFails(w)
               \/ MarkSettlementBroadcast(w) \/ FinalizeSettlement(w) \/ RestoreSettlement(w)
        PROVE  Follows
    BY <1>1, <1>7 DEF ClaimRead, ClaimCommit, WorkFails, MarkSettlementBroadcast, FinalizeSettlement,
                      RestoreSettlement, registryVars, creditVars, claimVars, ghostVars, bookVars
  <1>8. ASSUME NEW w \in Workers, NEW r \in DOMAIN batch,
               SendTransaction(w, r) \/ SendExpired(w, r) \/ SignatureStatus(w, r)
        PROVE  Follows
    BY <1>1, <1>8 DEF SendTransaction, SendExpired, SignatureStatus, registryVars, creditVars,
                      claimVars, ghostVars, bookVars
  <1>9. ASSUME NEW r \in DOMAIN batch, MarkSettlementSigned(r) \/ Execute(r) \/ ExpireBlockhash(r)
        PROVE  Follows
    BY <1>1, <1>9 DEF MarkSettlementSigned, Execute, ExpireBlockhash, registryVars, creditVars,
                      ghostVars, bookVars
  <1>10. ASSUME NextSlot \/ UNCHANGED vars PROVE Follows
    BY <1>1, <1>10 DEF NextSlot, vars, registryVars, creditVars, claimVars, ghostVars, bookVars
  <1> HIDE DEF Follows
  <1>11. Follows
    BY <1>2, <1>3, <1>4, <1>5, <1>6, <1>7, <1>8, <1>9, <1>10 DEF Next
  <1>12. QED
    BY <1>0, <1>11 DEF CreditInv, Follows

(* UpsertAllowance, ClaimDelegationSettlements and RestoreSettlement: for   *)
(* any buyers, sellers, workers, pollers, amounts and limits, and through   *)
(* crashes, rolled-back claims, retries and writes of several replicas,     *)
(* (1) what the poller has mirrored into the ledger is the allowance left,  *)
(* plus what open and finalized batches hold, plus what was forfeited, as   *)
(* long as no claim commits over a moved cursor, no observation is refused  *)
(* as a replay, and none that found no row to lock is booked after another  *)
(* replica has written the row; and (2) the credit left plus the charges    *)
(* paid is what was mirrored plus the reported shortfalls, in all these     *)
(* cases too, unless a credit exceeds int64.                                *)
THEOREM AllowancesAccounted == Spec => []AllowanceAccounted
  <1>1. CreditInv => AllowanceAccounted
    BY DEF CreditInv, RegistryInv, RegistryAccounted, AllowanceAccounted
  <1>2. QED
    BY <1>1, CreditStarts, CreditStep, PTL DEF Spec
=============================================================================
