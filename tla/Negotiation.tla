----------------------------- MODULE Negotiation -----------------------------
(***************************************************************************)
(* The pure part of a quote: wrasse/engine.py turns what each side recalls *)
(* into its proposals and limits, and wrasse/negotiation.py settles the    *)
(* four terms or names the one that fails.  The numbers are those of       *)
(* wrasse/constants.py.                                                    *)
(*                                                                         *)
(* Decimals are integers over a power of ten: a reading's severity times   *)
(* its confidence in tenths, weights and multipliers in hundredths, a      *)
(* cashflow sensitivity in hundredths, and a risk in ten-thousandths,      *)
(* which is exact for those inputs.                                        *)
(***************************************************************************)
EXTENDS Integers, FiniteSets, FiniteSetsExt

CONSTANTS
  Receipts,  \* event ids, numbered in their canonical order
  TypeOf     \* the event_type of each

TIMEOUT == "timeout_claimed_without_delivery"
RELEASED == "delivered_and_released_by_buyer"
CLAIMED == "delivered_and_claimed_after_delay"
EventTypes == {TIMEOUT, RELEASED, CLAIMED}

ASSUME ReceiptsAssumption == IsFiniteSet(Receipts) /\ Receipts = 1..Cardinality(Receipts)
ASSUME TypeOfAssumption == TypeOf \in [Receipts -> EventTypes]

SUBJECTS_OF ==
  [type \in EventTypes |-> CASE type = TIMEOUT -> {"provider"}
                             [] type = RELEASED -> {"buyer", "provider"}
                             [] type = CLAIMED -> {"buyer"}]
VALENCE_OF ==   \* negative conduct adds risk
  [type \in EventTypes |-> IF type = RELEASED THEN -1 ELSE 1]

BPS_DENOMINATOR == 10000
MAX_PROVIDER_BOND_BPS == 10000
MAX_DURATION == 30 * 24 * 60 * 60
MAX_BOND_BPS == 5000
MIN_SERVICE_WINDOW_SECONDS == 300
MIN_PAYOUT_DELAY_SECONDS == 60
MIN_SETTLED_PRICE_WEI == 1
RISK_CEILING == 10000

PROFILES ==
  [urgent |->
     [context |-> "deadline_sensitive", risk_weight |-> 140, bond_sensitivity_bps |-> 3000,
      window_buffer_seconds |-> -1800, price_ceiling_premium_bps |-> 2000,
      payout_delay_floor_bps |-> 5000],
   budget |->
     [context |-> "cost_sensitive", risk_weight |-> 85, bond_sensitivity_bps |-> 1000,
      window_buffer_seconds |-> 3600, price_ceiling_premium_bps |-> 500,
      payout_delay_floor_bps |-> 6500],
   sensitive |->
     [context |-> "quality_sensitive", risk_weight |-> 120, bond_sensitivity_bps |-> 2500,
      window_buffer_seconds |-> 1800, price_ceiling_premium_bps |-> 1500,
      payout_delay_floor_bps |-> 8000]]

\* The committed persona of the repository, personas/provider-a.json.
Persona ==
  [cashflow_sensitivity |-> 70, price_sensitivity_bps |-> 2500,
   delay_sensitivity_seconds |-> 1800]

\* A dimension definition: what one kind of outcome means, and how much.
Reading == [id : STRING, source_event_type : EventTypes, magnitude : 0..10,
             applies_when : SUBSET {"deadline_sensitive", "cost_sensitive", "quality_sensitive"}]

-----------------------------------------------------------------------------
Clamp(low, high, x) == IF x < low THEN low ELSE IF x > high THEN high ELSE x

\* Faulty variant: nothing keeps a bond rate below the whole price.
clamp_bond_bps_Unbounded(x) == IF x < 0 THEN 0 ELSE x

clamp_bond_bps(x) == Clamp(0, MAX_PROVIDER_BOND_BPS, x)
clamp_duration(x) == Clamp(1, MAX_DURATION, x)

\* ROUND_HALF_UP: halves go away from zero.
_round_decimal(x, scale) ==
  IF x >= 0 THEN (2 * x + scale) \div (2 * scale) ELSE -((scale - 2 * x) \div (2 * scale))

\* A sensitivity spent at a risk.
Spent(risk, sensitivity) == _round_decimal(risk * sensitivity, RISK_CEILING)

\* Faulty variant: a side prices its own conduct too.
Contribution_BothSides(e, readings, about, rate) ==
  SumFunction([d \in {d \in readings : d.source_event_type = TypeOf[e]} |->
                 VALENCE_OF[d.source_event_type] * d.magnitude * rate[d]])

\* What one receipt adds to the risk of the side that prices `about`; rate[d] is the product
\* of a reading's relevance and its weight, in thousandths.
Contribution(e, readings, about, rate) ==
  IF about \notin SUBJECTS_OF[TypeOf[e]] THEN 0
  ELSE SumFunction([d \in {d \in readings : d.source_event_type = TypeOf[e]} |->
                      VALENCE_OF[d.source_event_type] * d.magnitude * rate[d]])

_score(events, readings, about, rate) ==
  Clamp(0, RISK_CEILING,
        SumFunction([e \in events |-> Contribution(e, readings, about, rate)]))

used(events, readings, about, rate) ==
  {e \in events : Contribution(e, readings, about, rate) # 0}

\* The buyer's weight is its profile's, times a relevance of 1.5 where a reading applies to one of
\* its priorities and 0.5 where not; the provider weighs everything alike.
BuyerRate(readings, profile) ==
  [d \in readings |->
     profile.risk_weight * (IF profile.context \in d.applies_when THEN 15 ELSE 5)]
ProviderRate(readings) == [d \in readings |-> 1000]

BuyerRisk(events, readings, profile) ==
  _score(events, readings, "provider", BuyerRate(readings, profile))
ProviderRisk(events, readings) == _score(events, readings, "buyer", ProviderRate(readings))

\* The numbers of the buyer that its memory moves.
BuyerCommitted(events, readings, profile, base) ==
  LET risk == BuyerRisk(events, readings, profile)
      shortest == IF base.service_window < MIN_SERVICE_WINDOW_SECONDS
                  THEN base.service_window ELSE MIN_SERVICE_WINDOW_SECONDS
  IN [provider_bond_bps |->
        clamp_bond_bps(base.provider_bond_bps + Spent(risk, profile.bond_sensitivity_bps)),
      service_window |->
        Clamp(shortest, MAX_DURATION,
              base.service_window + Spent(risk, profile.window_buffer_seconds))]

\* Faulty variant: the payout is put off at a risk, where it should be brought forward.
ProviderCommitted_SlowerPay(events, readings, base) ==
  LET risk == ProviderRisk(events, readings)
      cashflow(sensitivity) == (sensitivity * Persona.cashflow_sensitivity) \div 100
  IN [price_bps |-> BPS_DENOMINATOR + Spent(risk, Persona.price_sensitivity_bps),
      payout_delay |->
        clamp_duration(base.payout_delay + Spent(risk, cashflow(Persona.delay_sensitivity_seconds))),
      max_bond_bps |-> clamp_bond_bps(MAX_BOND_BPS - Spent(risk, cashflow(MAX_BOND_BPS))),
      price_floor_bps |->
        BPS_DENOMINATOR
          + _round_decimal(risk * Persona.price_sensitivity_bps * 3, RISK_CEILING * 4)]

\* And those of the provider, which concedes three quarters of the way back on price.
ProviderCommitted(events, readings, base) ==
  LET risk == ProviderRisk(events, readings)
      shortest == IF base.payout_delay < MIN_PAYOUT_DELAY_SECONDS
                  THEN base.payout_delay ELSE MIN_PAYOUT_DELAY_SECONDS
      cashflow(sensitivity) == (sensitivity * Persona.cashflow_sensitivity) \div 100
  IN [price_bps |-> BPS_DENOMINATOR + Spent(risk, Persona.price_sensitivity_bps),
      payout_delay |->
        Clamp(shortest, MAX_DURATION,
              base.payout_delay - Spent(risk, cashflow(Persona.delay_sensitivity_seconds))),
      max_bond_bps |-> clamp_bond_bps(MAX_BOND_BPS - Spent(risk, cashflow(MAX_BOND_BPS))),
      price_floor_bps |->
        BPS_DENOMINATOR
          + _round_decimal(risk * Persona.price_sensitivity_bps * 3, RISK_CEILING * 4)]

\* One pass of the search for the receipts that moved a number: each is dropped, in order, if
\* the committed numbers stay what they are.
Pass(keep, committed, target) ==
  LET after[n \in Nat] ==   \* what is kept once the receipts up to n have been tried
        IF n = 0 THEN keep
        ELSE LET kept == after[n - 1] IN
             IF n \in kept /\ committed[kept \ {n}] = target THEN kept \ {n} ELSE kept
  IN after[Cardinality(Receipts)]

\* Faulty variant: what is dropped late never makes an earlier receipt redundant.
_minimal_causal_set_OnePass(events, candidates, committed) ==
  Pass(candidates, committed, committed[events])

\* Passes are repeated until a whole pass drops nothing.
_minimal_causal_set(events, candidates, committed) ==
  LET target == committed[events]
      fixed[keep \in SUBSET Receipts] ==
        LET next == Pass(keep, committed, target) IN IF next = keep THEN keep ELSE fixed[next]
  IN fixed[candidates]

BuyerUsed(events, readings, profile, base) ==
  _minimal_causal_set(events,
    used(events, readings, "provider", BuyerRate(readings, profile)),
    [subset \in SUBSET events |-> BuyerCommitted(subset, readings, profile, base)])
ProviderUsed(events, readings, base) ==
  _minimal_causal_set(events,
    used(events, readings, "buyer", ProviderRate(readings)),
    [subset \in SUBSET events |-> ProviderCommitted(subset, readings, base)])

-----------------------------------------------------------------------------
\* Positions.  The limits that do not move with memory are the buyer's two and the provider's
\* shortest window.
TERMS == <<"provider_bond_bps", "service_window", "price_bps", "payout_delay">>
Terms == {TERMS[i] : i \in DOMAIN TERMS}
Ceilings == {"provider_bond_bps", "price_bps"}   \* the other two are floors

proposals(buyer, provider) ==
  [provider_bond_bps |-> buyer.provider_bond_bps, service_window |-> buyer.service_window,
   price_bps |-> provider.price_bps, payout_delay |-> provider.payout_delay]

limits(profile, provider, base) ==
  [provider_bond_bps |-> provider.max_bond_bps,
   service_window |->
     clamp_duration(IF base.service_window < MIN_SERVICE_WINDOW_SECONDS
                    THEN base.service_window ELSE MIN_SERVICE_WINDOW_SECONDS),
   price_bps |-> BPS_DENOMINATOR + profile.price_ceiling_premium_bps,
   payout_delay |->
     clamp_duration((base.payout_delay * profile.payout_delay_floor_bps) \div BPS_DENOMINATOR)]

\* A proposer concedes as far as the baseline, widened to take in its own proposal; on price the
\* walk-away is published, the provider's floor.
Derived == Terms \ {"price_bps"}

\* Faulty variant: the walk-away is the baseline even where the proposal lies beyond it.
derived_walkaway_NotWidened(term, base, proposal) == base[term]

derived_walkaway(term, base, proposal) ==
  IF term \in Ceilings
  THEN (IF base[term] < proposal THEN base[term] ELSE proposal)
  ELSE (IF base[term] > proposal THEN base[term] ELSE proposal)

walkaways_for(base, proposal, published) ==
  [t \in Terms |-> IF t \in Derived THEN derived_walkaway(t, base, proposal[t]) ELSE published]

Meets(term, value, limit) == IF term \in Ceilings THEN value <= limit ELSE value >= limit

\* _settle_one: the proposal if it meets the limit, else the limit if it is no further than
\* the walk-away; a term with no overlap settles nowhere.
Overlaps(term, p) == Meets(term, p.proposal, p.limit) \/ Meets(term, p.walkaway, p.limit)
_settle_one(term, p) == IF Meets(term, p.proposal, p.limit) THEN p.proposal ELSE p.limit

\* How far apart the sides are on a term.
Gap(p) == IF p.limit < p.walkaway THEN p.walkaway - p.limit ELSE p.limit - p.walkaway

\* Only the provider's bond limit moves with memory: a move to it is a concession, one to any
\* other limit follows a rule.
LIMIT_KINDS == [t \in Terms |-> IF t = "provider_bond_bps" THEN "concession" ELSE "rule"]

\* Terms are settled in their order, so a refusal names the first that has no overlap.
settle(positions) ==
  LET failed == {i \in DOMAIN TERMS : ~Overlaps(TERMS[i], positions[TERMS[i]])}
      first == TERMS[Min(failed)]
      terms == [t \in Terms |-> _settle_one(t, positions[t])]
      moved == {t \in Terms : terms[t] # positions[t].proposal}
  IN IF failed = {}
     THEN [agreed |-> TRUE, terms |-> terms,
           moves |-> {[term |-> t, from |-> positions[t].proposal, to |-> terms[t],
                       kind |-> LIMIT_KINDS[t]] : t \in moved}]
     ELSE [agreed |-> FALSE, failed_on |-> first, gap |-> Gap(positions[first])]

price_wei(base_price_wei, bps) ==
  Max({MIN_SETTLED_PRICE_WEI, (base_price_wei * bps) \div BPS_DENOMINATOR})

\* Faulty variant: whether the bond rounds to nothing is not looked at.
bond_is_collectible_Always(price, bond_bps) == TRUE

bond_is_collectible(price, bond_bps) == bond_bps = 0 \/ price * bond_bps >= BPS_DENOMINATOR

=============================================================================
