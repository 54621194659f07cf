--------------------------- MODULE SimulationProofs ---------------------------
(***************************************************************************)
(* The settlement for any history of outcomes, any ontologies and any      *)
(* baseline: whatever is agreed can be created, nobody is overruled, the   *)
(* writer's document is the reader's, and no side gains by a worse record. *)
(* The invariant is that what is shown belongs to the history; the work is *)
(* in the operators, of which NegotiationProofs has the numbers and the    *)
(* receipts, and this module the positions, the settlement and the         *)
(* document.                                                               *)
(***************************************************************************)
EXTENDS Simulation, NegotiationProofs

-----------------------------------------------------------------------------
\* The settlement of any positions.

\* The four terms, by name and by place.
LEMMA TheTerms ==
  /\ Terms = {"provider_bond_bps", "service_window", "price_bps", "payout_delay"}
  /\ DOMAIN TERMS = 1 .. 4
  /\ \A i \in 1 .. 4 : TERMS[i] \in Terms
  /\ \A t \in Terms : \E i \in 1 .. 4 : TERMS[i] = t
  /\ Derived = {"provider_bond_bps", "service_window", "payout_delay"}
<1>1. DOMAIN TERMS = 1 .. 4
  BY DEF TERMS
<1>2. /\ TERMS[1] = "provider_bond_bps" /\ TERMS[2] = "service_window"
      /\ TERMS[3] = "price_bps" /\ TERMS[4] = "payout_delay"
  BY DEF TERMS
<1>3. 1 .. 4 = {1, 2, 3, 4}
  OBVIOUS
<1>4. Terms = {TERMS[1], TERMS[2], TERMS[3], TERMS[4]}
  BY <1>1, <1>3 DEF Terms
<1>5. QED
  BY <1>1, <1>2, <1>3, <1>4 DEF Derived

\* It is agreed when the sides overlap on every term, at the term's own number; and a refusal
\* names a term on which they do not.
LEMMA Settlement ==
  ASSUME NEW p
  PROVE  LET s == settle(p) IN
         /\ s.agreed \in BOOLEAN
         /\ s.agreed <=> \A t \in Terms : Overlaps(t, p[t])
         /\ s.agreed => /\ s.terms = [t \in Terms |-> _settle_one(t, p[t])]
                        /\ \A move \in s.moves : \E t \in Terms :
                             /\ move = [term |-> t, from |-> p[t].proposal, to |-> s.terms[t],
                                        kind |-> LIMIT_KINDS[t]]
                             /\ s.terms[t] # p[t].proposal
         /\ ~s.agreed => \E t \in Terms :
              ~Overlaps(t, p[t]) /\ s.failed_on = t /\ s.gap = Gap(p[t])
<1> DEFINE s == settle(p)
           failed == {i \in DOMAIN TERMS : ~Overlaps(TERMS[i], p[TERMS[i]])}
           first == TERMS[Min(failed)]
           terms == [t \in Terms |-> _settle_one(t, p[t])]
           moves == {[term |-> t, from |-> p[t].proposal, to |-> terms[t],
                      kind |-> LIMIT_KINDS[t]] : t \in {t \in Terms : terms[t] # p[t].proposal}}
<1>1. s = IF failed = {} THEN [agreed |-> TRUE, terms |-> terms, moves |-> moves]
          ELSE [agreed |-> FALSE, failed_on |-> first, gap |-> Gap(p[first])]
  BY DEF settle
<1>2. failed = {} <=> \A t \in Terms : Overlaps(t, p[t])
  BY TheTerms
<1>3. failed # {} => first \in Terms /\ ~Overlaps(first, p[first])
  <2> SUFFICES ASSUME failed # {}
               PROVE  Min(failed) \in failed
    BY TheTerms
  <2>1. failed \in SUBSET Nat
    BY TheTerms
  <2> HIDE DEF failed
  <2>2. \E x \in failed : \A y \in failed : x <= y
    BY <2>1, LeastNatural
  <2>3. QED
    BY <2>2 DEF Min
<1>4. \A move \in moves : \E t \in Terms :
        /\ move = [term |-> t, from |-> p[t].proposal, to |-> terms[t], kind |-> LIMIT_KINDS[t]]
        /\ terms[t] # p[t].proposal
  OBVIOUS
<1> HIDE DEF s, failed, first, terms, moves
<1>5. CASE failed = {}
  <2>1. s.agreed = TRUE /\ s.terms = terms /\ s.moves = moves
    BY <1>1, <1>5
  <2>2. \A move \in s.moves : \E t \in Terms :
          /\ move = [term |-> t, from |-> p[t].proposal, to |-> s.terms[t],
                     kind |-> LIMIT_KINDS[t]]
          /\ s.terms[t] # p[t].proposal
    BY <1>4, <2>1
  <2>3. s.agreed = TRUE /\ \A t \in Terms : Overlaps(t, p[t])
    BY <1>2, <1>5, <2>1
  <2>4. s.terms = [t \in Terms |-> _settle_one(t, p[t])]
    BY <2>1 DEF terms
  <2>5. QED
    BY <2>2, <2>3, <2>4 DEF s
<1>6. CASE failed # {}
  <2>1. s.agreed = FALSE /\ s.failed_on = first /\ s.gap = Gap(p[first])
    BY <1>1, <1>6
  <2>2. QED
    BY <1>2, <1>3, <1>6, <2>1 DEF s
<1>7. QED
  BY <1>5, <1>6

-----------------------------------------------------------------------------
\* The positions of one profile.

Table(events, ontologies, b, name) ==
  _positions_for(BilateralQuote(events, ontologies, b), name, b)

AtRisk(side, events, ontologies, b, name) ==
  IF side = "buyer"
  THEN BuyerNumbers(BuyerRisk(events, ontologies.buyer, PROFILES[name]), PROFILES[name], b)
  ELSE ProviderNumbers(ProviderRisk(events, ontologies.provider), b)

\* Which number each one comes from.
Positions(p, buyer, provider, b, name) ==
  /\ p = [t \in Terms |-> [proposal |-> p[t].proposal, limit |-> p[t].limit,
                           walkaway |-> p[t].walkaway]]
  /\ p.provider_bond_bps.proposal = buyer.provider_bond_bps
  /\ p.provider_bond_bps.limit = provider.max_bond_bps
  /\ p.provider_bond_bps.walkaway =
       IF b.provider_bond_bps < buyer.provider_bond_bps
       THEN b.provider_bond_bps ELSE buyer.provider_bond_bps
  /\ p.service_window.proposal = buyer.service_window
  /\ p.service_window.limit =
       clamp_duration(IF b.service_window < MIN_SERVICE_WINDOW_SECONDS
                      THEN b.service_window ELSE MIN_SERVICE_WINDOW_SECONDS)
  /\ p.service_window.walkaway =
       IF b.service_window > buyer.service_window THEN b.service_window ELSE buyer.service_window
  /\ p.price_bps.proposal = provider.price_bps
  /\ p.price_bps.limit = BPS_DENOMINATOR + PROFILES[name].price_ceiling_premium_bps
  /\ p.price_bps.walkaway = provider.price_floor_bps
  /\ p.payout_delay.proposal = provider.payout_delay
  /\ p.payout_delay.limit =
       clamp_duration((b.payout_delay * PROFILES[name].payout_delay_floor_bps)
                        \div BPS_DENOMINATOR)
  /\ p.payout_delay.walkaway =
       IF b.payout_delay > provider.payout_delay THEN b.payout_delay ELSE provider.payout_delay

\* The positions that the writer settles are the committed numbers of the two sides.
LEMMA TablePositions ==
  ASSUME NEW events, NEW ontologies, NEW b, NEW name \in DOMAIN PROFILES
  PROVE  Positions(Table(events, ontologies, b, name),
                   AtRisk("buyer", events, ontologies, b, name),
                   AtRisk("provider", events, ontologies, b, name), b, name)
<1> DEFINE buyer == AtRisk("buyer", events, ontologies, b, name)
           provider == AtRisk("provider", events, ontologies, b, name)
           proposal == proposals(buyer, provider)
           limit == limits(PROFILES[name], provider, b)
           walkaway == walkaways_for(b, proposal, provider.price_floor_bps)
           p == [t \in Terms |-> [proposal |-> proposal[t], limit |-> limit[t],
                                  walkaway |-> walkaway[t]]]
<1>1. Table(events, ontologies, b, name) = p
  <2> DEFINE quote_ == BilateralQuote(events, ontologies, b)
  <2>1. /\ BuyerCommitted(events, ontologies.buyer, PROFILES[name], b) = buyer
        /\ ProviderCommitted(events, ontologies.provider, b) = provider
    BY CommittedAtRisk DEF AtRisk
  <2> HIDE DEF buyer, provider
  <2>2. /\ quote_.buyer_terms[name].committed = buyer
        /\ quote_.provider_terms.committed = provider
    BY <2>1 DEF BilateralQuote
  <2> HIDE DEF quote_
  <2>3. _positions_for(quote_, name, b) = p
    BY <2>2 DEF _positions_for
  <2>4. QED
    BY <2>3 DEF Table, quote_
<1> HIDE DEF buyer, provider
<1>2. /\ proposal.provider_bond_bps = buyer.provider_bond_bps
      /\ proposal.service_window = buyer.service_window
      /\ proposal.price_bps = provider.price_bps
      /\ proposal.payout_delay = provider.payout_delay
  BY DEF proposals
<1>3. /\ limit.provider_bond_bps = provider.max_bond_bps
      /\ limit.service_window =
           clamp_duration(IF b.service_window < MIN_SERVICE_WINDOW_SECONDS
                          THEN b.service_window ELSE MIN_SERVICE_WINDOW_SECONDS)
      /\ limit.price_bps = BPS_DENOMINATOR + PROFILES[name].price_ceiling_premium_bps
      /\ limit.payout_delay =
           clamp_duration((b.payout_delay * PROFILES[name].payout_delay_floor_bps)
                            \div BPS_DENOMINATOR)
  BY DEF limits
<1> HIDE DEF proposal, limit
<1>4. /\ walkaway.provider_bond_bps = derived_walkaway("provider_bond_bps", b, buyer.provider_bond_bps)
      /\ walkaway.service_window = derived_walkaway("service_window", b, buyer.service_window)
      /\ walkaway.price_bps = provider.price_floor_bps
      /\ walkaway.payout_delay = derived_walkaway("payout_delay", b, provider.payout_delay)
  BY <1>2, TheTerms DEF walkaways_for
<1> HIDE DEF walkaway
<1>5. /\ derived_walkaway("provider_bond_bps", b, buyer.provider_bond_bps) =
           IF b.provider_bond_bps < buyer.provider_bond_bps
           THEN b.provider_bond_bps ELSE buyer.provider_bond_bps
      /\ derived_walkaway("service_window", b, buyer.service_window) =
           IF b.service_window > buyer.service_window
           THEN b.service_window ELSE buyer.service_window
      /\ derived_walkaway("payout_delay", b, provider.payout_delay) =
           IF b.payout_delay > provider.payout_delay
           THEN b.payout_delay ELSE provider.payout_delay
  BY DEF derived_walkaway, Ceilings
<1>6. /\ \A t \in Terms : /\ p[t].proposal = proposal[t] /\ p[t].limit = limit[t]
                          /\ p[t].walkaway = walkaway[t]
      /\ p = [t \in Terms |-> [proposal |-> p[t].proposal, limit |-> p[t].limit,
                               walkaway |-> p[t].walkaway]]
  OBVIOUS
<1> HIDE DEF p
<1>7. /\ p.provider_bond_bps.proposal = proposal.provider_bond_bps
      /\ p.provider_bond_bps.limit = limit.provider_bond_bps
      /\ p.provider_bond_bps.walkaway = walkaway.provider_bond_bps
      /\ p.service_window.proposal = proposal.service_window
      /\ p.service_window.limit = limit.service_window
      /\ p.service_window.walkaway = walkaway.service_window
      /\ p.price_bps.proposal = proposal.price_bps
      /\ p.price_bps.limit = limit.price_bps
      /\ p.price_bps.walkaway = walkaway.price_bps
      /\ p.payout_delay.proposal = proposal.payout_delay
      /\ p.payout_delay.limit = limit.payout_delay
      /\ p.payout_delay.walkaway = walkaway.payout_delay
  BY <1>6, TheTerms
<1>8. Positions(p, buyer, provider, b, name)
  BY <1>2, <1>3, <1>4, <1>5, <1>6, <1>7 DEF Positions
<1>9. QED
  BY <1>1, <1>8 DEF buyer, provider

\* Every number a column shows is one the contract and the reader take; the buyer's bond is at
\* least the baseline's and the provider's delay at most the baseline's, so that on those terms
\* the walk-away is the baseline, and on the durations it is beyond every limit.
Sensible(p, b) ==
  /\ p.provider_bond_bps.proposal \in b.provider_bond_bps .. MAX_PROVIDER_BOND_BPS
  /\ p.provider_bond_bps.limit \in 0 .. MAX_BOND_BPS
  /\ p.provider_bond_bps.walkaway = b.provider_bond_bps
  /\ p.service_window.proposal \in 1 .. MAX_DURATION
  /\ p.service_window.limit \in 1 .. MAX_DURATION
  /\ p.service_window.walkaway \in 1 .. MAX_DURATION
  /\ p.service_window.walkaway >= p.service_window.proposal
  /\ p.service_window.walkaway >= p.service_window.limit
  /\ p.price_bps.proposal \in Nat
  /\ p.price_bps.limit \in Nat \ {0}
  /\ p.price_bps.walkaway \in 1 .. p.price_bps.proposal
  /\ p.payout_delay.proposal \in 1 .. b.payout_delay
  /\ p.payout_delay.limit \in 1 .. b.payout_delay
  /\ p.payout_delay.walkaway = b.payout_delay

LEMMA SameRisk == \A risk \in 0 .. RISK_CEILING : risk <= risk
BY DEF RISK_CEILING

LEMMA PostedBond ==
  \A bond \in 0 .. MAX_PROVIDER_BOND_BPS :
    \A posted \in bond .. MAX_PROVIDER_BOND_BPS : bond < posted \/ bond = posted
BY DEF MAX_PROVIDER_BOND_BPS

\* That is so at any risks, for any baseline that is let through.
LEMMA SensibleTable ==
  ASSUME NEW events \in SUBSET Receipts, NEW ontologies,
         Ontology(ontologies.buyer), Ontology(ontologies.provider),
         NEW b, Sound(b), NEW name \in DOMAIN PROFILES
  PROVE  Sensible(Table(events, ontologies, b, name), b)
<1> DEFINE p == Table(events, ontologies, b, name)
           buyer == AtRisk("buyer", events, ontologies, b, name)
           provider == AtRisk("provider", events, ontologies, b, name)
           premium == PROFILES[name].price_ceiling_premium_bps
           share == PROFILES[name].payout_delay_floor_bps
           delay == b.payout_delay
           window == b.service_window
           least == (delay * share) \div BPS_DENOMINATOR
<1>1. Positions(p, buyer, provider, b, name)
  BY TablePositions
<1>2. /\ buyer.provider_bond_bps \in b.provider_bond_bps .. MAX_PROVIDER_BOND_BPS
      /\ buyer.service_window \in 1 .. MAX_DURATION
  <2> DEFINE a == BuyerRisk(events, ontologies.buyer, PROFILES[name])
  <2>1. a \in 0 .. RISK_CEILING
    BY RisksInScale
  <2>2. buyer = BuyerNumbers(a, PROFILES[name], b)
    BY DEF AtRisk
  <2> HIDE DEF a, buyer
  <2>3. a <= a
    BY <2>1, SameRisk
  <2>4. QED
    BY <2>1, <2>2, <2>3, BuyerNumbersGrow
<1>3. /\ provider.price_bps \in Nat /\ provider.price_floor_bps \in BPS_DENOMINATOR .. provider.price_bps
      /\ provider.payout_delay \in 1 .. delay
      /\ provider.max_bond_bps \in 0 .. MAX_BOND_BPS
  <2> DEFINE g == ProviderRisk(events, ontologies.provider)
  <2>1. g \in 0 .. RISK_CEILING
    BY RisksInScale
  <2>2. provider = ProviderNumbers(g, b)
    BY DEF AtRisk
  <2> HIDE DEF g, provider
  <2>3. g <= g
    BY <2>1, SameRisk
  <2>4. QED
    BY <2>1, <2>2, <2>3, ProviderNumbersGrow
<1> HIDE DEF p, buyer, provider
<1>4. /\ MAX_DURATION \in Nat /\ MAX_DURATION >= 300
      /\ b.provider_bond_bps \in 0 .. MAX_PROVIDER_BOND_BPS
      /\ window \in 1 .. MAX_DURATION /\ delay \in 1 .. MAX_DURATION
  BY LongestDuration, SoundNumbers
<1>5. premium \in Nat /\ share \in 0 .. BPS_DENOMINATOR
  BY ProfilesSensible
<1> HIDE DEF premium, share, delay, window
<1>6. least \in 0 .. delay
  <2>1. delay \in Nat /\ share \in Nat /\ share <= 10000
    BY <1>4, <1>5 DEF BPS_DENOMINATOR
  <2>2. share * delay \in Nat /\ share * delay <= 10000 * delay
    BY <2>1, ProductGrows
  <2>3. delay * share = share * delay
    BY <2>1
  <2>4. QED
    BY <2>1, <2>2, <2>3 DEF BPS_DENOMINATOR
<1> HIDE DEF least
<1>7. clamp_duration(least) \in 1 .. delay
  BY <1>4, <1>6 DEF clamp_duration, Clamp
<1> DEFINE shortest == IF window < MIN_SERVICE_WINDOW_SECONDS
                       THEN window ELSE MIN_SERVICE_WINDOW_SECONDS
<1>8. clamp_duration(shortest) \in 1 .. window
  BY <1>4 DEF clamp_duration, Clamp, MIN_SERVICE_WINDOW_SECONDS
<1>9. /\ p.provider_bond_bps.proposal = buyer.provider_bond_bps
      /\ p.provider_bond_bps.limit = provider.max_bond_bps
      /\ p.provider_bond_bps.walkaway =
           IF b.provider_bond_bps < buyer.provider_bond_bps
           THEN b.provider_bond_bps ELSE buyer.provider_bond_bps
      /\ p.service_window.proposal = buyer.service_window
      /\ p.service_window.limit = clamp_duration(shortest)
      /\ p.service_window.walkaway =
           IF window > buyer.service_window THEN window ELSE buyer.service_window
      /\ p.price_bps.proposal = provider.price_bps
      /\ p.price_bps.limit = BPS_DENOMINATOR + premium
      /\ p.price_bps.walkaway = provider.price_floor_bps
      /\ p.payout_delay.proposal = provider.payout_delay
      /\ p.payout_delay.limit = clamp_duration(least)
      /\ p.payout_delay.walkaway =
           IF delay > provider.payout_delay THEN delay ELSE provider.payout_delay
  BY <1>1 DEF Positions, window, delay, premium, share, least
<1> HIDE DEF shortest
<1>10. /\ p.provider_bond_bps.proposal \in b.provider_bond_bps .. MAX_PROVIDER_BOND_BPS
       /\ p.provider_bond_bps.limit \in 0 .. MAX_BOND_BPS
       /\ p.provider_bond_bps.walkaway = b.provider_bond_bps
  <2> DEFINE bond == b.provider_bond_bps
             posted == buyer.provider_bond_bps
  <2>1. bond \in 0 .. MAX_PROVIDER_BOND_BPS
    BY <1>4
  <2>2. posted \in bond .. MAX_PROVIDER_BOND_BPS
    BY <1>2
  <2>3. p.provider_bond_bps.walkaway = IF bond < posted THEN bond ELSE posted
    BY <1>9
  <2> HIDE DEF bond, posted
  <2>4. bond < posted \/ bond = posted
    BY <2>1, <2>2, PostedBond
  <2>5. p.provider_bond_bps.walkaway = bond
    BY <2>3, <2>4
  <2>6. QED
    BY <1>2, <1>3, <1>9, <2>5 DEF bond
<1>11. /\ p.service_window.proposal \in 1 .. MAX_DURATION
       /\ p.service_window.limit \in 1 .. MAX_DURATION
       /\ p.service_window.walkaway \in 1 .. MAX_DURATION
       /\ p.service_window.walkaway >= p.service_window.proposal
       /\ p.service_window.walkaway >= p.service_window.limit
  BY <1>2, <1>4, <1>8, <1>9
<1>12. /\ p.price_bps.proposal \in Nat
       /\ p.price_bps.limit \in Nat \ {0}
       /\ p.price_bps.walkaway \in 1 .. p.price_bps.proposal
  BY <1>3, <1>5, <1>9 DEF BPS_DENOMINATOR
<1>13. /\ p.payout_delay.proposal \in 1 .. delay
       /\ p.payout_delay.limit \in 1 .. delay
       /\ p.payout_delay.walkaway = delay
  BY <1>3, <1>4, <1>7, <1>9
<1>14. QED
  BY <1>10, <1>11, <1>12, <1>13 DEF Sensible, p, delay

-----------------------------------------------------------------------------
\* The document.

\* What a column shows, of the positions p and the receipts the two sides commit to.
Written(column, b, p, causes) ==
  /\ column.baseline = b
  /\ column.used = causes
  /\ column.settlement = as_dict(settle(p))
  /\ column.proposals = [t \in Terms |-> p[t].proposal]
  /\ column.limits = [t \in Terms |-> p[t].limit]
  /\ column.walkaways = [t \in Terms |-> p[t].walkaway]
  /\ settle(p).agreed = ("terms" \in DOMAIN column)
  /\ settle(p).agreed =>
       /\ DOMAIN column = Parts \cup {"baseline"}
       /\ column.terms = Priced(b, settle(p).terms)
       /\ column.policy_preimage =
            [terms |-> column.terms,
             evidence |-> [side \in {"buyer", "provider"} |-> evidence_hash(causes[side])]]
       /\ column.policy_hash = policy_hash(column.policy_preimage)

Causes(events, ontologies, b, name) ==
  [buyer |-> BuyerUsed(events, ontologies.buyer, PROFILES[name], b),
   provider |-> ProviderUsed(events, ontologies.provider, b)]

\* The column of every profile is written so.
LEMMA WrittenColumn ==
  ASSUME NEW events, NEW ontologies, NEW b, NEW name \in DOMAIN PROFILES
  PROVE  Written(_document_halves(BilateralQuote(events, ontologies, b), b).profiles[name], b,
                 Table(events, ontologies, b, name), Causes(events, ontologies, b, name))
<1> DEFINE q == BilateralQuote(events, ontologies, b)
           p == Table(events, ontologies, b, name)
           s == settle(p)
           causes == [buyer |-> q.buyer_terms[name].used, provider |-> q.provider_terms.used]
           preimage == [terms |-> Priced(b, s.terms),
                        evidence |-> [side \in DOMAIN causes |-> evidence_hash(causes[side])]]
           account == [baseline |-> b, used |-> causes, settlement |-> as_dict(s),
                       proposals |-> [t \in Terms |-> p[t].proposal],
                       limits |-> [t \in Terms |-> p[t].limit],
                       walkaways |-> [t \in Terms |-> p[t].walkaway]]
           signing == [terms |-> preimage.terms, policy_preimage |-> preimage,
                       policy_hash |-> policy_hash(preimage)]
           column == IF s.agreed
                     THEN [part \in DOMAIN account \cup DOMAIN signing |->
                             IF part \in DOMAIN signing THEN signing[part] ELSE account[part]]
                     ELSE account
<1>1. _document_halves(q, b).profiles[name] = column
  BY DEF _document_halves, Table
<1>2. causes = Causes(events, ontologies, b, name)
  BY DEF BilateralQuote, Causes
<1>3. DOMAIN causes = {"buyer", "provider"}
  OBVIOUS
<1> HIDE DEF q, p, causes
<1>4. s.agreed \in BOOLEAN
  BY Settlement
<1> HIDE DEF s
<1>5. preimage = [terms |-> preimage.terms,
                  evidence |-> [side \in {"buyer", "provider"} |-> evidence_hash(causes[side])]]
  BY <1>3
<1>6. preimage.terms = Priced(b, s.terms)
  OBVIOUS
<1> HIDE DEF preimage
<1>7. /\ DOMAIN account = {"baseline", "used", "settlement", "proposals", "limits", "walkaways"}
      /\ account.baseline = b /\ account.used = causes /\ account.settlement = as_dict(s)
      /\ account.proposals = [t \in Terms |-> p[t].proposal]
      /\ account.limits = [t \in Terms |-> p[t].limit]
      /\ account.walkaways = [t \in Terms |-> p[t].walkaway]
  OBVIOUS
<1>8. /\ DOMAIN signing = {"terms", "policy_preimage", "policy_hash"}
      /\ signing.terms = preimage.terms /\ signing.policy_preimage = preimage
      /\ signing.policy_hash = policy_hash(preimage)
  OBVIOUS
<1> HIDE DEF account, signing
<1>9. Written(column, b, p, causes)
  <2>1. CASE s.agreed
    <3> DEFINE both == [part \in DOMAIN account \cup DOMAIN signing |->
                          IF part \in DOMAIN signing THEN signing[part] ELSE account[part]]
    <3>1. column = both
      BY <2>1
    <3>2. /\ both.baseline = account.baseline /\ both.used = account.used
          /\ both.settlement = account.settlement /\ both.proposals = account.proposals
          /\ both.limits = account.limits /\ both.walkaways = account.walkaways
          /\ both.terms = signing.terms /\ both.policy_preimage = signing.policy_preimage
          /\ both.policy_hash = signing.policy_hash
      BY <1>7, <1>8
    <3>3. DOMAIN both = Parts \cup {"baseline"}
      <4>1. DOMAIN both = DOMAIN account \cup DOMAIN signing
        OBVIOUS
      <4> HIDE DEF both
      <4>2. QED
        BY <1>7, <1>8, <4>1 DEF Parts
    <3>4. "terms" \in DOMAIN both
      BY <3>3 DEF Parts
    <3> HIDE DEF both
    <3>5. Written(both, b, p, causes)
      BY <1>4, <1>5, <1>6, <1>7, <1>8, <2>1, <3>2, <3>3, <3>4 DEF Written, s
    <3>6. QED
      BY <3>1, <3>5
  <2>2. CASE ~s.agreed
    <3>1. column = account
      BY <2>2
    <3>2. "terms" \notin DOMAIN account
      BY <1>7
    <3>3. Written(account, b, p, causes)
      BY <1>4, <1>7, <2>2, <3>2 DEF Written, s
    <3>4. QED
      BY <3>1, <3>3
  <2>3. QED
    BY <2>1, <2>2
<1>10. QED
  BY <1>1, <1>2, <1>9 DEF p, q

\* The numbers shown are the positions that were settled.
LEMMA ShownPositions ==
  ASSUME NEW column, NEW b, NEW p, NEW causes, Written(column, b, p, causes),
         p = [t \in Terms |-> [proposal |-> p[t].proposal, limit |-> p[t].limit,
                               walkaway |-> p[t].walkaway]]
  PROVE  build_positions(column) = p
<1>1. \A t \in Terms : /\ column.proposals[t] = p[t].proposal /\ column.limits[t] = p[t].limit
                       /\ column.walkaways[t] = p[t].walkaway
  BY DEF Written
<1>2. build_positions(column) =
        [t \in Terms |-> [proposal |-> p[t].proposal, limit |-> p[t].limit,
                          walkaway |-> p[t].walkaway]]
  BY <1>1 DEF build_positions
<1>3. QED
  BY <1>2

\* The account of a settlement says what the settlement says.
LEMMA Verdicts ==
  ASSUME NEW p
  PROVE  /\ as_dict(settle(p)).agreed = settle(p).agreed
         /\ settle(p).agreed => as_dict(settle(p)).moves = settle(p).moves
         /\ ~settle(p).agreed => /\ as_dict(settle(p)).failed_on = settle(p).failed_on
                                 /\ as_dict(settle(p)).gap = settle(p).gap
<1> DEFINE s == settle(p)
<1>1. s.agreed \in BOOLEAN
  BY Settlement
<1> HIDE DEF s
<1>2. CASE s.agreed
  BY <1>1, <1>2 DEF as_dict, s
<1>3. CASE ~s.agreed
  BY <1>1, <1>3 DEF as_dict, s
<1>4. QED
  BY <1>2, <1>3

-----------------------------------------------------------------------------
\* What is settled.

\* Only the bond and the price can be refused: on a duration the baseline is always acceptable.
LEMMA SettledTerms ==
  ASSUME NEW p, NEW b, Sound(b), Sensible(p, b)
  PROVE  LET deal == settle(p).terms IN
         /\ settle(p).agreed <=> /\ b.provider_bond_bps <= p.provider_bond_bps.limit
                                 /\ p.price_bps.walkaway <= p.price_bps.limit
         /\ settle(p).agreed =>
              /\ deal.provider_bond_bps =
                   IF p.provider_bond_bps.proposal <= p.provider_bond_bps.limit
                   THEN p.provider_bond_bps.proposal ELSE p.provider_bond_bps.limit
              /\ deal.service_window =
                   IF p.service_window.proposal >= p.service_window.limit
                   THEN p.service_window.proposal ELSE p.service_window.limit
              /\ deal.price_bps =
                   IF p.price_bps.proposal <= p.price_bps.limit
                   THEN p.price_bps.proposal ELSE p.price_bps.limit
              /\ deal.payout_delay =
                   IF p.payout_delay.proposal >= p.payout_delay.limit
                   THEN p.payout_delay.proposal ELSE p.payout_delay.limit
<1>1. /\ settle(p).agreed <=> \A t \in Terms : Overlaps(t, p[t])
      /\ settle(p).agreed => settle(p).terms = [t \in Terms |-> _settle_one(t, p[t])]
  BY Settlement
<1>2. Overlaps("service_window", p.service_window)
  BY DEF Overlaps, Meets, Ceilings, Sensible
<1>3. Overlaps("payout_delay", p.payout_delay)
  <2>1. /\ p.payout_delay.limit \in 1 .. b.payout_delay /\ b.payout_delay \in Nat
        /\ p.payout_delay.walkaway = b.payout_delay
    BY LongestDuration, SoundNumbers DEF Sensible
  <2>2. p.payout_delay.walkaway >= p.payout_delay.limit
    BY <2>1
  <2>3. QED
    BY <2>2 DEF Overlaps, Meets, Ceilings
<1>4. Overlaps("price_bps", p.price_bps) <=> p.price_bps.walkaway <= p.price_bps.limit
  <2>1. /\ p.price_bps.proposal \in Nat /\ p.price_bps.limit \in Nat
        /\ p.price_bps.walkaway \in 1 .. p.price_bps.proposal
    BY DEF Sensible
  <2>2. p.price_bps.proposal <= p.price_bps.limit => p.price_bps.walkaway <= p.price_bps.limit
    BY <2>1
  <2>3. QED
    BY <2>2 DEF Overlaps, Meets, Ceilings
<1>5. Overlaps("provider_bond_bps", p.provider_bond_bps) <=>
        b.provider_bond_bps <= p.provider_bond_bps.limit
  <2>1. /\ p.provider_bond_bps.proposal \in b.provider_bond_bps .. MAX_PROVIDER_BOND_BPS
        /\ p.provider_bond_bps.limit \in 0 .. MAX_BOND_BPS
        /\ p.provider_bond_bps.walkaway = b.provider_bond_bps
    BY DEF Sensible
  <2>2. b.provider_bond_bps \in 0 .. MAX_PROVIDER_BOND_BPS
    BY SoundNumbers
  <2>3. p.provider_bond_bps.proposal <= p.provider_bond_bps.limit =>
          b.provider_bond_bps <= p.provider_bond_bps.limit
    <3> DEFINE proposal == p.provider_bond_bps.proposal
               limit == p.provider_bond_bps.limit
               bond == b.provider_bond_bps
    <3>1. proposal \in bond .. MAX_PROVIDER_BOND_BPS /\ limit \in 0 .. MAX_BOND_BPS
      BY <2>1
    <3>2. bond \in 0 .. MAX_PROVIDER_BOND_BPS
      BY <2>2
    <3> HIDE DEF proposal, limit, bond
    <3>3. proposal <= limit => bond <= limit
      BY <3>1, <3>2 DEF MAX_PROVIDER_BOND_BPS, MAX_BOND_BPS
    <3>4. QED
      BY <3>3 DEF proposal, limit, bond
  <2>4. QED
    BY <2>1, <2>3 DEF Overlaps, Meets, Ceilings
<1>6. settle(p).agreed <=> /\ b.provider_bond_bps <= p.provider_bond_bps.limit
                           /\ p.price_bps.walkaway <= p.price_bps.limit
  BY <1>1, <1>2, <1>3, <1>4, <1>5, TheTerms
<1>7. ASSUME settle(p).agreed
      PROVE  /\ settle(p).terms.provider_bond_bps = _settle_one("provider_bond_bps", p.provider_bond_bps)
             /\ settle(p).terms.service_window = _settle_one("service_window", p.service_window)
             /\ settle(p).terms.price_bps = _settle_one("price_bps", p.price_bps)
             /\ settle(p).terms.payout_delay = _settle_one("payout_delay", p.payout_delay)
  BY <1>1, <1>7, TheTerms
<1>8. QED
  BY <1>6, <1>7 DEF _settle_one, Meets, Ceilings

\* A baseline that is let through.
LEMMA AllowedIsSound ==
  ASSUME NEW b \in Baselines, ~baseline_fault(b)
  PROVE  Sound(b)
<1>1. /\ b.price_wei \in Int /\ b.provider_bond_bps \in Int /\ b.service_window \in Int
      /\ b.payout_delay \in Int
  BY BaselinesAssumption
<1>2. DOMAIN BASELINE_BOUNDS = {"provider_bond_bps", "service_window", "payout_delay"}
  BY DEF BASELINE_BOUNDS
<1>3. /\ BASELINE_BOUNDS["provider_bond_bps"] = <<0, MAX_PROVIDER_BOND_BPS>>
      /\ BASELINE_BOUNDS["service_window"] = <<1, MAX_DURATION>>
      /\ BASELINE_BOUNDS["payout_delay"] = <<1, MAX_DURATION>>
  BY DEF BASELINE_BOUNDS
<1>4. \A x, y : <<x, y>>[1] = x /\ <<x, y>>[2] = y
  OBVIOUS
<1>5. /\ b.price_wei >= 1
      /\ \A field \in DOMAIN BASELINE_BOUNDS :
           /\ b[field] >= BASELINE_BOUNDS[field][1] /\ b[field] <= BASELINE_BOUNDS[field][2]
  BY DEF baseline_fault, MIN_SETTLED_PRICE_WEI
<1>6. /\ b.provider_bond_bps >= 0 /\ b.provider_bond_bps <= MAX_PROVIDER_BOND_BPS
      /\ b.service_window >= 1 /\ b.service_window <= MAX_DURATION
      /\ b.payout_delay >= 1 /\ b.payout_delay <= MAX_DURATION
  BY <1>2, <1>3, <1>4, <1>5
<1>7. MAX_DURATION \in Nat /\ MAX_PROVIDER_BOND_BPS \in Nat
  BY LongestDuration DEF MAX_PROVIDER_BOND_BPS
<1>8. QED
  BY <1>1, <1>5, <1>6, <1>7 DEF Sound

\* One column of an answer, with all that is known of it.
LEMMA Standing ==
  ASSUME NEW events \in SUBSET Receipts,
         NEW ontologies \in [buyer : Ontologies, provider : Ontologies],
         NEW b \in Baselines, ~baseline_fault(b), NEW name \in DOMAIN PROFILES
  PROVE  LET p == Table(events, ontologies, b, name)
             column == _document_halves(BilateralQuote(events, ontologies, b), b).profiles[name]
         IN  /\ Sound(b) /\ Sensible(p, b)
             /\ Positions(p, AtRisk("buyer", events, ontologies, b, name),
                          AtRisk("provider", events, ontologies, b, name), b, name)
             /\ Written(column, b, p, Causes(events, ontologies, b, name))
             /\ build_positions(column) = p
             /\ column.settlement.agreed = settle(p).agreed
<1> DEFINE p == Table(events, ontologies, b, name)
           column == _document_halves(BilateralQuote(events, ontologies, b), b).profiles[name]
<1>1. Ontology(ontologies.buyer) /\ Ontology(ontologies.provider)
  BY OntologiesAssumption DEF Ontology
<1>2. Sound(b) /\ Sensible(p, b)
  BY <1>1, AllowedIsSound, SensibleTable
<1>3. Positions(p, AtRisk("buyer", events, ontologies, b, name),
                AtRisk("provider", events, ontologies, b, name), b, name)
  BY TablePositions
<1>4. Written(column, b, p, Causes(events, ontologies, b, name))
  BY WrittenColumn
<1> HIDE DEF p, column
<1>5. build_positions(column) = p
  BY <1>3, <1>4, ShownPositions DEF Positions
<1>6. column.settlement.agreed = settle(p).agreed
  BY <1>4, Verdicts DEF Written
<1>7. QED
  BY <1>2, <1>3, <1>4, <1>5, <1>6 DEF p, column

-----------------------------------------------------------------------------
\* The invariant: what is shown is what the two engines make of the history.
Shown ==
  /\ history \in SUBSET Receipts
  /\ readings \in [buyer : Ontologies, provider : Ontologies]
  /\ base \in Baselines
  /\ quote = BilateralQuote(history, readings, base)
  /\ document = _document_halves(quote, base)

\* Every request shows its own answer, whatever was asked before.
THEOREM AnswersBelongToHistory == Spec => []Shown
<1>1. Init => Shown
  BY DEF Init, Shown
<1>2. Shown /\ [Next]_vars => Shown'
  <2> SUFFICES ASSUME Shown, [Next]_vars
               PROVE  Shown'
    OBVIOUS
  <2>1. ASSUME NEW outcomes \in SUBSET Receipts, simulate(outcomes)
        PROVE  Shown'
    BY <2>1 DEF Shown, simulate
  <2>2. CASE \E r \in Receipts : Append_outcome(r)
    <3>1. PICK r \in Receipts : Append_outcome(r)
      BY <2>2
    <3>2. history \cup {r} \in SUBSET Receipts /\ simulate(history \cup {r})
      BY <3>1 DEF Append_outcome, Shown
    <3>3. QED
      BY <2>1, <3>2
  <2>3. CASE Clear
    BY <2>1, <2>3 DEF Clear
  <2>4. CASE UNCHANGED vars
    BY <2>4 DEF Shown, vars
  <2>5. QED
    BY <2>2, <2>3, <2>4 DEF Next
<1>3. QED
  BY <1>1, <1>2, PTL DEF Spec

\* What Agreed and Settled say of a column of the answer shown.
LEMMA AgreedAndSettled ==
  ASSUME Shown, ~baseline_fault(base), NEW name \in DOMAIN PROFILES
  PROVE  LET p == Table(history, readings, base, name)
             column == document.profiles[name]
         IN  /\ Sound(base) /\ Sensible(p, base)
             /\ Written(column, base, p, Causes(history, readings, base, name))
             /\ build_positions(column) = p
             /\ Agreed(name) = settle(p).agreed
             /\ Settled(name) = settle(p).terms
<1> DEFINE p == Table(history, readings, base, name)
           column == document.profiles[name]
<1>1. /\ Sound(base) /\ Sensible(p, base)
      /\ Written(column, base, p, Causes(history, readings, base, name))
      /\ build_positions(column) = p
      /\ column.settlement.agreed = settle(p).agreed
  BY Standing DEF Shown
<1>2. Settled(name) = settle(p).terms
  BY DEF Settled, Shown, Table
<1>3. QED
  BY <1>1, <1>2 DEF Agreed

-----------------------------------------------------------------------------
\* The larger of two integers.
LEMMA LargerOfTwo ==
  ASSUME NEW x \in Int, NEW y \in Int
  PROVE  Max({x, y}) = IF x >= y THEN x ELSE y
<1> DEFINE m == IF x >= y THEN x ELSE y
<1>1. m \in {x, y} /\ \A z \in {x, y} : m >= z
  OBVIOUS
<1>2. \A n \in {x, y} : (\A z \in {x, y} : n >= z) => n = m
  OBVIOUS
<1> HIDE DEF m
<1>3. Max({x, y}) = CHOOSE n \in {x, y} : \A z \in {x, y} : n >= z
  BY DEF Max
<1>4. QED
  BY <1>1, <1>2, <1>3 DEF m

\* What is settled on each term is one of the two sides' numbers, within the bounds of the contract.
LEMMA SettledInBounds ==
  ASSUME NEW p, NEW b, Sound(b), Sensible(p, b), settle(p).agreed
  PROVE  LET deal == settle(p).terms IN
         /\ deal.provider_bond_bps \in 0 .. MAX_PROVIDER_BOND_BPS
         /\ deal.service_window \in 1 .. MAX_DURATION
         /\ deal.price_bps \in Nat
         /\ deal.payout_delay \in 1 .. MAX_DURATION
<1> DEFINE deal == settle(p).terms
<1>1. /\ deal.provider_bond_bps \in {p.provider_bond_bps.proposal, p.provider_bond_bps.limit}
      /\ deal.service_window \in {p.service_window.proposal, p.service_window.limit}
      /\ deal.price_bps \in {p.price_bps.proposal, p.price_bps.limit}
      /\ deal.payout_delay \in {p.payout_delay.proposal, p.payout_delay.limit}
  BY SettledTerms
<1>2. /\ b.provider_bond_bps \in 0 .. MAX_PROVIDER_BOND_BPS
      /\ b.payout_delay \in 1 .. MAX_DURATION
      /\ MAX_DURATION \in Nat
  <2>1. b.provider_bond_bps \in 0 .. MAX_PROVIDER_BOND_BPS
    BY SoundNumbers
  <2>2. b.payout_delay \in 1 .. MAX_DURATION
    BY SoundNumbers
  <2>3. MAX_DURATION \in Nat
    BY LongestDuration
  <2>4. QED
    BY <2>1, <2>2, <2>3
<1>3. /\ p.provider_bond_bps.proposal \in 0 .. MAX_PROVIDER_BOND_BPS
      /\ p.provider_bond_bps.limit \in 0 .. MAX_PROVIDER_BOND_BPS
  <2> DEFINE bond == b.provider_bond_bps
  <2>1. bond \in 0 .. MAX_PROVIDER_BOND_BPS /\ p.provider_bond_bps.proposal \in bond .. MAX_PROVIDER_BOND_BPS
    BY <1>2 DEF Sensible
  <2>2. p.provider_bond_bps.limit \in 0 .. MAX_BOND_BPS
    BY DEF Sensible
  <2> DEFINE proposal == p.provider_bond_bps.proposal
             limit == p.provider_bond_bps.limit
  <2>3. proposal \in bond .. MAX_PROVIDER_BOND_BPS /\ limit \in 0 .. MAX_BOND_BPS
    BY <2>1, <2>2
  <2>4. bond \in 0 .. MAX_PROVIDER_BOND_BPS
    BY <2>1
  <2> HIDE DEF bond, proposal, limit
  <2>5. proposal \in 0 .. MAX_PROVIDER_BOND_BPS
    BY <2>3, <2>4 DEF MAX_PROVIDER_BOND_BPS
  <2>6. limit \in 0 .. MAX_PROVIDER_BOND_BPS
    BY <2>3 DEF MAX_PROVIDER_BOND_BPS, MAX_BOND_BPS
  <2>7. QED
    BY <2>5, <2>6 DEF proposal, limit
<1>4. /\ p.payout_delay.proposal \in 1 .. MAX_DURATION
      /\ p.payout_delay.limit \in 1 .. MAX_DURATION
  <2> DEFINE delay == b.payout_delay
  <2>1. /\ delay \in 1 .. MAX_DURATION /\ p.payout_delay.proposal \in 1 .. delay
        /\ p.payout_delay.limit \in 1 .. delay
    BY <1>2 DEF Sensible
  <2> HIDE DEF delay
  <2>2. QED
    BY <1>2, <2>1
<1>5. /\ p.service_window.proposal \in 1 .. MAX_DURATION
      /\ p.service_window.limit \in 1 .. MAX_DURATION
      /\ p.price_bps.proposal \in Nat /\ p.price_bps.limit \in Nat
  BY DEF Sensible
<1> HIDE DEF deal
<1>6. QED
  BY <1>1, <1>3, <1>4, <1>5 DEF deal

\* And in the units of the contract.
LEMMA PricedInBounds ==
  ASSUME NEW p, NEW b, Sound(b), Sensible(p, b), settle(p).agreed
  PROVE  LET deal == Priced(b, settle(p).terms) IN
         /\ deal.price_wei \in Nat \ {0}
         /\ deal.provider_bond_bps \in 0 .. MAX_PROVIDER_BOND_BPS
         /\ deal.service_window \in 1 .. MAX_DURATION
         /\ deal.payout_delay \in 1 .. MAX_DURATION
<1> DEFINE s == settle(p).terms
           deal == Priced(b, s)
           product == b.price_wei * s.price_bps
           fraction == product \div BPS_DENOMINATOR
<1>1. /\ s.provider_bond_bps \in 0 .. MAX_PROVIDER_BOND_BPS
      /\ s.service_window \in 1 .. MAX_DURATION
      /\ s.price_bps \in Nat
      /\ s.payout_delay \in 1 .. MAX_DURATION
  BY SettledInBounds
<1>2. /\ deal.provider_bond_bps = s.provider_bond_bps
      /\ deal.service_window = s.service_window
      /\ deal.payout_delay = s.payout_delay
      /\ deal.price_wei = Max({1, fraction})
  BY DEF Priced, price_wei, MIN_SETTLED_PRICE_WEI
<1> HIDE DEF s
<1>3. fraction \in Int
  <2>1. b.price_wei \in Nat /\ s.price_bps \in Nat
    BY <1>1 DEF Sound
  <2>2. product \in Nat
    BY <2>1
  <2> HIDE DEF product
  <2>3. QED
    BY <2>2 DEF BPS_DENOMINATOR
<1> HIDE DEF fraction, deal
<1>4. deal.price_wei \in Nat \ {0}
  BY <1>2, <1>3, LargerOfTwo
<1>5. QED
  BY <1>1, <1>2, <1>4 DEF deal, s

\* A deal that the writer prints is one that the contract creates: QuotesCreatable, for any
\* history, ontology and baseline.
THEOREM WhatIsQuotedIsCreatable == Spec => []QuotesCreatable
<1>1. Shown => QuotesCreatable
  <2> SUFFICES ASSUME Shown, Answered, NEW name \in DOMAIN PROFILES, Agreed(name)
               PROVE  LET deal == Deal(name) IN
                      /\ deal.price_wei > 0
                      /\ deal.provider_bond_bps > 0 =>
                           (deal.price_wei * deal.provider_bond_bps) \div BPS_DENOMINATOR > 0
                      /\ deal.provider_bond_bps <= MAX_PROVIDER_BOND_BPS
                      /\ deal.service_window \in 1 .. MAX_DURATION
                      /\ deal.payout_delay \in 1 .. MAX_DURATION
    BY DEF QuotesCreatable
  <2> DEFINE p == Table(history, readings, base, name)
             deal == document.profiles[name].terms
             price == deal.price_wei
             bond == deal.provider_bond_bps
             product == price * bond
  <2>1. /\ Sound(base) /\ Sensible(p, base)
        /\ settle(p).agreed
        /\ deal = Priced(base, settle(p).terms)
    BY AgreedAndSettled DEF Answered, Written
  <2>2. /\ price \in Nat \ {0}
        /\ bond \in 0 .. MAX_PROVIDER_BOND_BPS
        /\ deal.service_window \in 1 .. MAX_DURATION
        /\ deal.payout_delay \in 1 .. MAX_DURATION
    <3> HIDE DEF p, deal
    <3>1. QED
      BY <2>1, PricedInBounds
  <2>3. bond_is_collectible(price, bond)
    BY DEF Answered, Collectible, Agreed
  <2> HIDE DEF price, bond
  <2>4. bond \in Nat /\ bond <= MAX_PROVIDER_BOND_BPS /\ price > 0
    <3>1. price \in Nat \ {0} /\ bond \in 0 .. MAX_PROVIDER_BOND_BPS
      BY <2>2
    <3>2. QED
      BY <3>1 DEF MAX_PROVIDER_BOND_BPS
  <2>5. bond > 0 => product \div BPS_DENOMINATOR > 0
    <3>1. product \in Nat
      BY <2>2, <2>4
    <3>2. bond > 0 => product >= 10000
      BY <2>3, <2>4 DEF bond_is_collectible, BPS_DENOMINATOR
    <3> HIDE DEF product
    <3>3. QED
      BY <3>1, <3>2 DEF BPS_DENOMINATOR
  <2>6. QED
    BY <2>2, <2>4, <2>5 DEF Deal, price, bond
<1>2. QED
  BY <1>1, AnswersBelongToHistory, PTL

\* All of them are whole numbers, and no side walks away from its own proposal.
LEMMA SensibleNumbers ==
  ASSUME NEW p, NEW b, Sound(b), Sensible(p, b), NEW t \in Terms
  PROVE  /\ p[t].proposal \in Int /\ p[t].limit \in Int /\ p[t].walkaway \in Int
         /\ Meets(t, p[t].walkaway, p[t].proposal)
<1>1. MAX_DURATION \in Nat
  BY LongestDuration
<1>2. CASE t = "provider_bond_bps"
  <2> DEFINE proposal == p.provider_bond_bps.proposal
             limit == p.provider_bond_bps.limit
             bond == b.provider_bond_bps
  <2>1. proposal \in bond .. MAX_PROVIDER_BOND_BPS /\ limit \in 0 .. MAX_BOND_BPS
    BY DEF Sensible
  <2>2. p.provider_bond_bps.walkaway = bond
    BY DEF Sensible
  <2>3. bond \in 0 .. MAX_PROVIDER_BOND_BPS
    BY SoundNumbers
  <2> HIDE DEF proposal, limit, bond
  <2>4. bond \in Int /\ proposal \in Int /\ limit \in Int /\ bond <= proposal
    BY <2>1, <2>3 DEF MAX_PROVIDER_BOND_BPS, MAX_BOND_BPS
  <2>5. QED
    BY <1>2, <2>2, <2>4 DEF Meets, Ceilings, proposal, limit
<1>3. CASE t = "service_window"
  BY <1>1, <1>3 DEF Sensible, Meets, Ceilings
<1>4. CASE t = "price_bps"
  BY <1>4 DEF Sensible, Meets, Ceilings
<1>5. CASE t = "payout_delay"
  <2> DEFINE proposal == p.payout_delay.proposal
             limit == p.payout_delay.limit
             delay == b.payout_delay
  <2>1. proposal \in 1 .. delay /\ limit \in 1 .. delay /\ p.payout_delay.walkaway = delay
    BY DEF Sensible
  <2>2. delay \in 1 .. MAX_DURATION
    BY SoundNumbers
  <2> HIDE DEF proposal, limit, delay
  <2>3. delay \in Int /\ proposal \in Int /\ limit \in Int /\ delay >= proposal
    BY <1>1, <2>1, <2>2
  <2>4. QED
    BY <1>5, <2>1, <2>3 DEF Meets, Ceilings, proposal, limit
<1>6. QED
  BY <1>2, <1>3, <1>4, <1>5, TheTerms

\* No number is settled against the side that published it: NobodyOverruled.
THEOREM NoSideIsOverruled == Spec => []NobodyOverruled
<1>1. Shown => NobodyOverruled
  <2> SUFFICES ASSUME Shown, Answered, NEW name \in DOMAIN PROFILES, NEW t \in Terms
               PROVE  LET p == build_positions(document.profiles[name])[t] IN
                      /\ Meets(t, p.walkaway, p.proposal)
                      /\ Agreed(name) => /\ Meets(t, Settled(name)[t], p.limit)
                                         /\ Meets(t, p.walkaway, Settled(name)[t])
                                         /\ Meets(t, Settled(name)[t], p.proposal)
    BY DEF NobodyOverruled
  <2> DEFINE all == Table(history, readings, base, name)
             p == all[t]
             s == _settle_one(t, p)
  <2>1. /\ Sensible(all, base) /\ Sound(base)
        /\ build_positions(document.profiles[name]) = all
        /\ Agreed(name) = settle(all).agreed
        /\ Settled(name) = settle(all).terms
    BY AgreedAndSettled DEF Answered
  <2>2. Agreed(name) => Overlaps(t, p) /\ Settled(name)[t] = s
    BY <2>1, Settlement
  <2> HIDE DEF all
  <2>3. p.proposal \in Int /\ p.limit \in Int /\ p.walkaway \in Int
    BY <2>1, SensibleNumbers
  <2>4. Meets(t, p.walkaway, p.proposal)
    BY <2>1, SensibleNumbers
  <2> HIDE DEF p
  <2>5. Overlaps(t, p) => Meets(t, s, p.limit) /\ Meets(t, p.walkaway, s) /\ Meets(t, s, p.proposal)
    BY <2>3, <2>4 DEF Overlaps, Meets, _settle_one
  <2>6. QED
    BY <2>1, <2>2, <2>4, <2>5 DEF p
<1>2. QED
  BY <1>1, AnswersBelongToHistory, PTL

-----------------------------------------------------------------------------
\* The reader, on what the writer wrote.

\* The published numbers are within the reader's bounds, and its rule gives the walk-aways.
LEMMA PositionsChecked ==
  ASSUME NEW column, NEW b, NEW p, NEW causes, NEW buyer, NEW provider, NEW name,
         ~baseline_fault(b), Sound(b), Sensible(p, b),
         Positions(p, buyer, provider, b, name), Written(column, b, p, causes)
  PROVE  _check_positions(column)
<1> DEFINE bounded(part) ==
             /\ part.provider_bond_bps \in 0 .. MAX_PROVIDER_BOND_BPS
             /\ \A t \in {"service_window", "payout_delay"} : part[t] >= 1 /\ part[t] <= MAX_DURATION
             /\ part.price_bps >= 1
<1>1. /\ MAX_DURATION \in Nat
      /\ column.baseline = b
      /\ \A t \in Terms : /\ column.proposals[t] = p[t].proposal
                          /\ column.limits[t] = p[t].limit
                          /\ column.walkaways[t] = p[t].walkaway
  BY LongestDuration DEF Written
<1>2. /\ p.provider_bond_bps.proposal \in 0 .. MAX_PROVIDER_BOND_BPS
      /\ p.provider_bond_bps.limit \in 0 .. MAX_PROVIDER_BOND_BPS
      /\ p.provider_bond_bps.walkaway \in 0 .. MAX_PROVIDER_BOND_BPS
  <2> DEFINE proposal == p.provider_bond_bps.proposal
             limit == p.provider_bond_bps.limit
             bond == b.provider_bond_bps
  <2>1. proposal \in bond .. MAX_PROVIDER_BOND_BPS /\ limit \in 0 .. MAX_BOND_BPS
    BY DEF Sensible
  <2>2. p.provider_bond_bps.walkaway = bond
    BY DEF Sensible
  <2>3. bond \in 0 .. MAX_PROVIDER_BOND_BPS
    BY SoundNumbers
  <2> HIDE DEF proposal, limit, bond
  <2>4. proposal \in 0 .. MAX_PROVIDER_BOND_BPS
    BY <2>1, <2>3 DEF MAX_PROVIDER_BOND_BPS
  <2>5. limit \in 0 .. MAX_PROVIDER_BOND_BPS
    BY <2>1 DEF MAX_PROVIDER_BOND_BPS, MAX_BOND_BPS
  <2>6. bond \in 0 .. MAX_PROVIDER_BOND_BPS
    BY <2>3 DEF MAX_PROVIDER_BOND_BPS
  <2>7. QED
    BY <2>2, <2>4, <2>5, <2>6 DEF proposal, limit
<1>3. /\ p.payout_delay.proposal \in 1 .. MAX_DURATION
      /\ p.payout_delay.limit \in 1 .. MAX_DURATION
      /\ p.payout_delay.walkaway \in 1 .. MAX_DURATION
  <2> DEFINE proposal == p.payout_delay.proposal
             limit == p.payout_delay.limit
             delay == b.payout_delay
  <2>1. proposal \in 1 .. delay /\ limit \in 1 .. delay /\ p.payout_delay.walkaway = delay
    BY DEF Sensible
  <2>2. delay \in 1 .. MAX_DURATION
    BY SoundNumbers
  <2> HIDE DEF proposal, limit, delay
  <2>3. proposal \in 1 .. MAX_DURATION /\ limit \in 1 .. MAX_DURATION
    BY <1>1, <2>1, <2>2
  <2>4. QED
    BY <2>1, <2>2, <2>3 DEF proposal, limit
<1>4. /\ p.service_window.proposal \in 1 .. MAX_DURATION
      /\ p.service_window.limit \in 1 .. MAX_DURATION
      /\ p.service_window.walkaway \in 1 .. MAX_DURATION
  BY DEF Sensible
<1>5. p.price_bps.proposal >= 1 /\ p.price_bps.limit >= 1 /\ p.price_bps.walkaway >= 1
  BY DEF Sensible
<1>6. \A part \in {"proposals", "limits", "walkaways"} : bounded(column[part])
  <2>1. bounded(column.proposals)
    BY <1>1, <1>2, <1>3, <1>4, <1>5, TheTerms
  <2>2. bounded(column.limits)
    BY <1>1, <1>2, <1>3, <1>4, <1>5, TheTerms
  <2>3. bounded(column.walkaways)
    BY <1>1, <1>2, <1>3, <1>4, <1>5, TheTerms
  <2> HIDE DEF bounded
  <2>4. QED
    BY <2>1, <2>2, <2>3
<1>7. \A t \in Derived : column.walkaways[t] = derived_walkaway(t, b, column.proposals[t])
  <2>1. /\ p.provider_bond_bps.walkaway =
             derived_walkaway("provider_bond_bps", b, p.provider_bond_bps.proposal)
        /\ p.service_window.walkaway = derived_walkaway("service_window", b, p.service_window.proposal)
        /\ p.payout_delay.walkaway = derived_walkaway("payout_delay", b, p.payout_delay.proposal)
    BY DEF Positions, derived_walkaway, Ceilings
  <2>2. \A t \in Derived : p[t].walkaway = derived_walkaway(t, b, p[t].proposal) /\ t \in Terms
    BY <2>1, TheTerms
  <2>3. QED
    BY <1>1, <2>2
<1>8. QED
  BY <1>1, <1>6, <1>7 DEF _check_positions

\* A settlement moves real numbers, and a refusal has a gap.
LEMMA SettlementChecked ==
  ASSUME NEW p, NEW b, Sound(b), Sensible(p, b)
  PROVE  _check_settlement(as_dict(settle(p)))
<1> DEFINE s == settle(p)
           d == as_dict(s)
<1>1. /\ s.agreed \in BOOLEAN
      /\ s.agreed <=> \A t \in Terms : Overlaps(t, p[t])
      /\ s.agreed => /\ s.terms = [t \in Terms |-> _settle_one(t, p[t])]
                     /\ \A move \in s.moves : \E t \in Terms :
                          /\ move = [term |-> t, from |-> p[t].proposal, to |-> s.terms[t],
                                     kind |-> LIMIT_KINDS[t]]
                          /\ s.terms[t] # p[t].proposal
      /\ ~s.agreed => \E t \in Terms :
           ~Overlaps(t, p[t]) /\ s.failed_on = t /\ s.gap = Gap(p[t])
  BY Settlement
<1>2. /\ d.agreed = s.agreed
      /\ s.agreed => d.moves = s.moves
      /\ ~s.agreed => d.failed_on = s.failed_on /\ d.gap = s.gap
  BY Verdicts
<1> HIDE DEF s, d
<1>3. \A t \in Terms : p[t].proposal \in Int /\ p[t].limit \in Int /\ p[t].walkaway \in Int
  BY SensibleNumbers
<1>4. CASE s.agreed
  <2>1. \A t \in Terms : s.terms[t] >= 0 /\ p[t].proposal >= 0
    <3>1. \A t \in Terms : s.terms[t] \in {p[t].proposal, p[t].limit}
      BY <1>1, <1>4 DEF _settle_one
    <3>2. b.provider_bond_bps \in Nat
      <4> DEFINE bond == b.provider_bond_bps
      <4>1. bond \in 0 .. MAX_PROVIDER_BOND_BPS
        BY SoundNumbers
      <4> HIDE DEF bond
      <4>2. bond \in Nat
        BY <4>1 DEF MAX_PROVIDER_BOND_BPS
      <4>3. QED
        BY <4>2 DEF bond
    <3>3. b.payout_delay \in Nat
      <4>1. b.payout_delay \in 1 .. MAX_DURATION
        BY SoundNumbers
      <4>2. MAX_DURATION \in Nat
        BY LongestDuration
      <4>3. QED
        BY <4>1, <4>2
    <3>4. /\ p.provider_bond_bps.proposal >= 0 /\ p.provider_bond_bps.limit >= 0
      <4> DEFINE proposal == p.provider_bond_bps.proposal
                 limit == p.provider_bond_bps.limit
                 bond == b.provider_bond_bps
      <4>1. proposal \in bond .. MAX_PROVIDER_BOND_BPS /\ limit \in 0 .. MAX_BOND_BPS
        BY DEF Sensible
      <4> HIDE DEF proposal, limit
      <4>2. bond \in Nat
        BY <3>2
      <4> HIDE DEF bond
      <4>3. proposal >= 0 /\ limit >= 0
        BY <4>1, <4>2 DEF MAX_PROVIDER_BOND_BPS, MAX_BOND_BPS
      <4>4. QED
        BY <4>3 DEF proposal, limit
    <3>5. /\ p.payout_delay.proposal >= 0 /\ p.payout_delay.limit >= 0
          /\ p.price_bps.proposal >= 0 /\ p.price_bps.limit >= 0
      BY <3>3 DEF Sensible
    <3>6. p.service_window.proposal >= 0 /\ p.service_window.limit >= 0
      BY LongestDuration, SoundNumbers DEF Sensible
    <3>7. \A t \in Terms : p[t].proposal >= 0 /\ p[t].limit >= 0
      BY <3>4, <3>5, <3>6, TheTerms
    <3>8. QED
      BY <3>1, <3>7
  <2>2. \A t \in Terms : LIMIT_KINDS[t] \in {"concession", "rule"}
    BY DEF LIMIT_KINDS
  <2>3. ASSUME NEW move \in d.moves
        PROVE  /\ move.term \in Terms /\ move.kind \in {"concession", "rule"}
               /\ move.from >= 0 /\ move.to >= 0 /\ move.from # move.to
    <3>1. PICK t \in Terms :
            /\ move = [term |-> t, from |-> p[t].proposal, to |-> s.terms[t],
                       kind |-> LIMIT_KINDS[t]]
            /\ s.terms[t] # p[t].proposal
      BY <1>1, <1>2, <1>4
    <3>2. /\ move.term = t /\ move.from = p[t].proposal /\ move.to = s.terms[t]
          /\ move.kind = LIMIT_KINDS[t]
      BY <3>1
    <3>3. QED
      BY <2>1, <2>2, <3>1, <3>2
  <2>4. QED
    BY <1>2, <1>4, <2>3 DEF _check_settlement, d, s
<1>5. CASE ~s.agreed
  <2>1. PICK t \in Terms : ~Overlaps(t, p[t]) /\ s.failed_on = t /\ s.gap = Gap(p[t])
    BY <1>1, <1>5
  <2> DEFINE one == p[t]
  <2>2. one.limit \in Int /\ one.walkaway \in Int /\ one.limit # one.walkaway
    BY <1>3, <2>1 DEF Overlaps, Meets
  <2> HIDE DEF one
  <2>3. Gap(one) >= 1
    BY <2>2 DEF Gap
  <2>4. QED
    BY <1>1, <1>2, <1>5, <2>1, <2>3 DEF _check_settlement, d, s, one
<1>6. QED
  BY <1>1, <1>4, <1>5

\* Every column, also those that refused.
LEMMA ProfileChecked ==
  ASSUME Shown, Answered, NEW name \in DOMAIN PROFILES
  PROVE  _check_profile(document.profiles[name], document)
<1> DEFINE p == Table(history, readings, base, name)
           causes == Causes(history, readings, base, name)
           column == document.profiles[name]
           deal == Priced(base, settle(p).terms)
<1>1. /\ Sound(base) /\ Sensible(p, base)
      /\ Written(column, base, p, causes)
      /\ build_positions(column) = p
      /\ column.settlement.agreed = settle(p).agreed
  BY AgreedAndSettled DEF Answered, Agreed
<1>2. PICK buyer, provider : Positions(p, buyer, provider, base, name)
  BY TablePositions
<1>3. /\ causes.buyer \subseteq history /\ causes.provider \subseteq history
      /\ DOMAIN causes = {"buyer", "provider"}
      /\ document.buyer.recalled = history /\ document.provider.recalled = history
  <2>1. /\ readings.buyer \in Ontologies /\ readings.provider \in Ontologies
        /\ history \in SUBSET Receipts
    BY DEF Shown
  <2>2. Ontology(readings.buyer) /\ Ontology(readings.provider)
    BY <2>1, OntologiesAssumption DEF Ontology
  <2>3. BuyerUsed(history, readings.buyer, PROFILES[name], base) \in SUBSET history
    BY <2>1, <2>2, BuyerCauses
  <2>4. ProviderUsed(history, readings.provider, base) \in SUBSET history
    BY <2>1, <2>2, ProviderCauses
  <2>5. quote.recalled = history
    BY DEF Shown, BilateralQuote
  <2>6. document.buyer = Side(quote.recalled) /\ document.provider = Side(quote.recalled)
    BY DEF Shown, _document_halves
  <2>7. document.buyer.recalled = history /\ document.provider.recalled = history
    BY <2>5, <2>6 DEF Side
  <2>8. QED
    BY <2>3, <2>4, <2>7 DEF Causes
<1>4. settle(p).agreed =>
        bond_is_collectible(column.terms.price_wei, column.terms.provider_bond_bps)
  BY <1>1 DEF Answered, Collectible
<1>5. settle(p).agreed => /\ deal.price_wei >= 1
                          /\ deal.provider_bond_bps \in 0 .. MAX_PROVIDER_BOND_BPS
                          /\ deal.service_window >= 1 /\ deal.service_window <= MAX_DURATION
                          /\ deal.payout_delay >= 1 /\ deal.payout_delay <= MAX_DURATION
  <2> HIDE DEF p
  <2> SUFFICES ASSUME settle(p).agreed
               PROVE  /\ deal.price_wei >= 1
                      /\ deal.provider_bond_bps \in 0 .. MAX_PROVIDER_BOND_BPS
                      /\ deal.service_window >= 1 /\ deal.service_window <= MAX_DURATION
                      /\ deal.payout_delay >= 1 /\ deal.payout_delay <= MAX_DURATION
    OBVIOUS
  <2>1. /\ deal.price_wei \in Nat \ {0}
        /\ deal.provider_bond_bps \in 0 .. MAX_PROVIDER_BOND_BPS
        /\ deal.service_window \in 1 .. MAX_DURATION
        /\ deal.payout_delay \in 1 .. MAX_DURATION
    BY <1>1, PricedInBounds
  <2>2. MAX_DURATION \in Nat
    BY LongestDuration
  <2> HIDE DEF deal
  <2>3. QED
    BY <2>1, <2>2
<1> HIDE DEF p, causes, column
<1>6. ~baseline_fault(base)
  BY DEF Answered
<1>7. _check_positions(column)
  BY <1>1, <1>2, <1>6, PositionsChecked
<1>8. /\ _check_settlement(column.settlement)
      /\ column.settlement.agreed = ("terms" \in DOMAIN column)
  BY <1>1, SettlementChecked DEF Written
<1>9. _check_settlement_follows(column)
  BY <1>1, <1>4 DEF Written, _check_settlement_follows
<1>10. _check_used(column.used, document)
  BY <1>1, <1>3 DEF Written, _check_used
<1>11. ASSUME column.settlement.agreed
       PROVE  LET preimage == column.policy_preimage IN
              /\ preimage.terms.price_wei >= 1
              /\ preimage.terms.provider_bond_bps \in 0 .. MAX_PROVIDER_BOND_BPS
              /\ \A t \in {"service_window", "payout_delay"} :
                   preimage.terms[t] >= 1 /\ preimage.terms[t] <= MAX_DURATION
              /\ policy_hash(preimage) = column.policy_hash
              /\ _check_terms(column)
              /\ \A side \in DOMAIN column.used :
                   evidence_hash(column.used[side]) = preimage.evidence[side]
  <2> DEFINE preimage == column.policy_preimage
  <2>1. /\ settle(p).agreed
        /\ column.terms = deal /\ column.used = causes
        /\ preimage = [terms |-> column.terms,
                       evidence |-> [side \in {"buyer", "provider"} |-> evidence_hash(causes[side])]]
        /\ column.policy_hash = policy_hash(preimage)
    BY <1>1, <1>11 DEF Written
  <2> HIDE DEF preimage, deal
  <2>2. /\ preimage.terms = deal
        /\ \A side \in {"buyer", "provider"} : preimage.evidence[side] = evidence_hash(causes[side])
    BY <2>1
  <2>3. _check_terms(column)
    BY <2>1, <2>2 DEF _check_terms, preimage
  <2>4. QED
    BY <1>3, <1>5, <2>1, <2>2, <2>3 DEF preimage
<1>12. _check_profile(column, document)
  BY <1>7, <1>8, <1>9, <1>10, <1>11 DEF _check_profile
<1>13. QED
  BY <1>12 DEF column

\* What the writer writes the reader takes, the account of a refusal too: WriterIsReadable.
THEOREM ReaderTakesWhatIsWritten == Spec => []WriterIsReadable
<1>1. Shown => WriterIsReadable
  <2> SUFFICES ASSUME Shown, Answered
               PROVE  Validated(document) /\ \A name \in DOMAIN PROFILES :
                        Agreed(name) => load_policy(document, name)
    BY DEF WriterIsReadable
  <2>1. \A name \in DOMAIN PROFILES : _check_profile(document.profiles[name], document)
    BY ProfileChecked
  <2>2. /\ document.buyer = Side(quote.recalled) /\ document.provider = Side(quote.recalled)
        /\ DOMAIN document.profiles = DOMAIN PROFILES
    BY DEF Shown, _document_halves
  <2>3. \A events : _check_side(Side(events))
    <3> SUFFICES ASSUME NEW events
                 PROVE  _check_side(Side(events))
      OBVIOUS
    <3>1. CASE events = {}
      BY <3>1 DEF _check_side, Side
    <3>2. CASE events # {}
      BY <3>2 DEF _check_side, Side
    <3>3. QED
      BY <3>1, <3>2
  <2>4. Validated(document)
    BY <2>1, <2>2, <2>3 DEF Validated
  <2>5. QED
    BY <2>4 DEF load_policy, Agreed
<1>2. QED
  BY <1>1, AnswersBelongToHistory, PTL

-----------------------------------------------------------------------------
\* What the reader's check leaves of an edited account.
LEMMA SplicedColumn ==
  ASSUME NEW column, NEW other, NEW b, NEW p, NEW q, NEW causes, NEW others, NEW d,
         Written(column, b, p, causes), Written(other, b, q, others),
         settle(p).agreed, settle(q).agreed,
         DOMAIN causes = {"buyer", "provider"}, DOMAIN others = {"buyer", "provider"},
         NEW parts \in SUBSET Parts,
         _check_profile(Spliced(column, other, parts), d)
  PROVE  LET edited == Spliced(column, other, parts) IN
         /\ edited.policy_hash =
              policy_hash([terms |-> edited.terms,
                           evidence |-> [side \in DOMAIN edited.used |->
                                           evidence_hash(edited.used[side])]])
         /\ edited.terms = Priced(b, settle(build_positions(edited)).terms)
<1> DEFINE edited == Spliced(column, other, parts)
           preimage == edited.policy_preimage
           s == settle(build_positions(edited))
<1>1. DOMAIN column = Parts \cup {"baseline"}
  BY DEF Written
<1>2. /\ edited.settlement \in {column.settlement, other.settlement}
      /\ edited.used \in {column.used, other.used}
      /\ edited.policy_preimage \in {column.policy_preimage, other.policy_preimage}
      /\ edited.baseline = column.baseline
  <2>1. \A part \in Parts : edited[part] \in {column[part], other[part]}
    BY <1>1 DEF Spliced
  <2>2. edited.baseline = column.baseline
    BY <1>1 DEF Spliced, Parts
  <2> HIDE DEF edited
  <2>3. /\ edited["settlement"] \in {column["settlement"], other["settlement"]}
        /\ edited["used"] \in {column["used"], other["used"]}
        /\ edited["policy_preimage"] \in {column["policy_preimage"], other["policy_preimage"]}
    BY <2>1 DEF Parts
  <2>4. QED
    BY <2>2, <2>3
<1> HIDE DEF edited
<1>3. edited.settlement.agreed = TRUE /\ edited.baseline = b
  <2>1. column.settlement.agreed = settle(p).agreed /\ other.settlement.agreed = settle(q).agreed
    BY Verdicts DEF Written
  <2>2. settle(p).agreed \in BOOLEAN /\ settle(q).agreed \in BOOLEAN
    BY Settlement
  <2>3. QED
    BY <1>2, <2>1, <2>2 DEF Written
<1>4. DOMAIN edited.used = {"buyer", "provider"}
  BY <1>2 DEF Written
<1>5. /\ DOMAIN preimage = {"terms", "evidence"}
      /\ preimage = [terms |-> preimage.terms, evidence |-> preimage.evidence]
      /\ preimage.evidence = [side \in {"buyer", "provider"} |-> preimage.evidence[side]]
  <2> DEFINE Record(r) ==
        /\ DOMAIN r = {"terms", "evidence"}
        /\ r = [terms |-> r.terms, evidence |-> r.evidence]
        /\ r.evidence = [side \in {"buyer", "provider"} |-> r.evidence[side]]
  <2>1. \A x, h : Record([terms |-> x, evidence |-> [side \in {"buyer", "provider"} |->
                                                       evidence_hash(h[side])]])
    OBVIOUS
  <2> HIDE DEF Record
  <2>2. Record(column.policy_preimage) /\ Record(other.policy_preimage)
    BY <2>1 DEF Written
  <2>3. Record(preimage)
    BY <1>2, <2>2
  <2>4. QED
    BY <2>3 DEF Record
<1>6. /\ _check_settlement_follows(edited)
      /\ policy_hash(preimage) = edited.policy_hash
      /\ edited.terms = preimage.terms
      /\ \A side \in DOMAIN edited.used : evidence_hash(edited.used[side]) = preimage.evidence[side]
  BY <1>3 DEF _check_profile, _check_terms, edited
<1>7. edited.terms = Priced(b, s.terms)
  <2>1. as_dict(s) = edited.settlement /\ as_dict(s).agreed = s.agreed
    BY <1>6, Verdicts DEF _check_settlement_follows
  <2>2. s.agreed
    BY <1>3, <2>1
  <2>3. QED
    BY <1>3, <1>6, <2>2 DEF _check_settlement_follows
<1> HIDE DEF preimage, s
<1>8. preimage.evidence = [side \in DOMAIN edited.used |-> evidence_hash(edited.used[side])]
  BY <1>4, <1>5, <1>6
<1>9. preimage = [terms |-> edited.terms,
                  evidence |-> [side \in DOMAIN edited.used |-> evidence_hash(edited.used[side])]]
  BY <1>5, <1>6, <1>8
<1>10. QED
  BY <1>6, <1>7, <1>9 DEF edited, s

\* An account that the reader accepts explains the deal that is signed: AcceptedExplainsItself.
THEOREM AnEditedAccountIsCaught == Spec => []AcceptedExplainsItself
<1>1. Shown => AcceptedExplainsItself
  <2> SUFFICES ASSUME Shown, Answered, NEW name \in DOMAIN PROFILES, NEW from \in DOMAIN PROFILES,
                      Agreed(name), Agreed(from), NEW parts \in SUBSET Parts,
                      _check_profile(Spliced(document.profiles[name], document.profiles[from], parts),
                                     document)
               PROVE  LET edited == Spliced(document.profiles[name], document.profiles[from], parts) IN
                      /\ edited.policy_hash =
                           policy_hash([terms |-> edited.terms,
                                        evidence |-> [side \in DOMAIN edited.used |->
                                                        evidence_hash(edited.used[side])]])
                      /\ edited.terms = Priced(base, settle(build_positions(edited)).terms)
    BY DEF AcceptedExplainsItself
  <2> DEFINE p == Table(history, readings, base, name)
             q == Table(history, readings, base, from)
             causes == Causes(history, readings, base, name)
             others == Causes(history, readings, base, from)
             column == document.profiles[name]
             other == document.profiles[from]
  <2>1. /\ Written(column, base, p, causes) /\ settle(p).agreed
        /\ Written(other, base, q, others) /\ settle(q).agreed
    BY AgreedAndSettled DEF Answered
  <2>2. DOMAIN causes = {"buyer", "provider"} /\ DOMAIN others = {"buyer", "provider"}
    BY DEF Causes
  <2> HIDE DEF p, q, causes, others, column, other
  <2>3. _check_profile(Spliced(column, other, parts), document)
    BY DEF column, other
  <2>4. LET edited == Spliced(column, other, parts) IN
        /\ edited.policy_hash =
             policy_hash([terms |-> edited.terms,
                          evidence |-> [side \in DOMAIN edited.used |->
                                          evidence_hash(edited.used[side])]])
        /\ edited.terms = Priced(base, settle(build_positions(edited)).terms)
    BY <2>1, <2>2, <2>3, SplicedColumn
  <2>5. QED
    BY <2>4 DEF column, other
<1>2. QED
  BY <1>1, AnswersBelongToHistory, PTL

\* A side commits to the receipts that gave its numbers, and to no other: CommitsToCauses.
THEOREM EvidenceIsMinimal == Spec => []CommitsToCauses
<1>1. Shown => CommitsToCauses
  <2> SUFFICES ASSUME Shown
               PROVE  /\ CausalSet(quote.provider_terms,
                                   [subset \in SUBSET history |->
                                      ProviderCommitted(subset, readings.provider, base)])
                      /\ \A name \in DOMAIN PROFILES :
                           CausalSet(quote.buyer_terms[name],
                                     [subset \in SUBSET history |->
                                        BuyerCommitted(subset, readings.buyer, PROFILES[name], base)])
    BY DEF CommitsToCauses
  <2>1. /\ history \in SUBSET Receipts
        /\ Ontology(readings.buyer) /\ Ontology(readings.provider)
    BY OntologiesAssumption DEF Ontology, Shown
  <2>2. CausalSet(quote.provider_terms,
                  [subset \in SUBSET history |->
                     ProviderCommitted(subset, readings.provider, base)])
    <3> DEFINE numbers(subset) == ProviderCommitted(subset, readings.provider, base)
               causes == ProviderUsed(history, readings.provider, base)
    <3>1. /\ causes \in SUBSET history /\ numbers(causes) = numbers(history)
          /\ \A e \in causes : numbers(causes \ {e}) # numbers(history)
      BY <2>1, ProviderCauses
    <3>2. quote.provider_terms = [committed |-> numbers(history), used |-> causes]
      BY DEF Shown, BilateralQuote
    <3> HIDE DEF numbers, causes
    <3>3. CausalSet(quote.provider_terms, [subset \in SUBSET history |-> numbers(subset)])
      BY <3>1, <3>2 DEF CausalSet
    <3>4. QED
      BY <3>3 DEF numbers
  <2>3. ASSUME NEW name \in DOMAIN PROFILES
        PROVE  CausalSet(quote.buyer_terms[name],
                         [subset \in SUBSET history |->
                            BuyerCommitted(subset, readings.buyer, PROFILES[name], base)])
    <3> DEFINE numbers(subset) == BuyerCommitted(subset, readings.buyer, PROFILES[name], base)
               causes == BuyerUsed(history, readings.buyer, PROFILES[name], base)
    <3>1. /\ causes \in SUBSET history /\ numbers(causes) = numbers(history)
          /\ \A e \in causes : numbers(causes \ {e}) # numbers(history)
      BY <2>1, BuyerCauses
    <3>2. quote.buyer_terms[name] = [committed |-> numbers(history), used |-> causes]
      BY DEF Shown, BilateralQuote
    <3> HIDE DEF numbers, causes
    <3>3. CausalSet(quote.buyer_terms[name], [subset \in SUBSET history |-> numbers(subset)])
      BY <3>1, <3>2 DEF CausalSet
    <3>4. QED
      BY <3>3 DEF numbers
  <2>4. QED
    BY <2>2, <2>3
<1>2. QED
  BY <1>1, AnswersBelongToHistory, PTL

-----------------------------------------------------------------------------
\* One more complaint, and how the positions move: the provider's stay after a timeout while the
\* buyer asks for no less bond, and the buyer's stay after a late claim while the provider asks
\* for no less of anything.
Moved(p, q) ==
  /\ p.provider_bond_bps.limit = q.provider_bond_bps.limit
  /\ p.provider_bond_bps.proposal <= q.provider_bond_bps.proposal
  /\ p.price_bps = q.price_bps
MovedBack(p, q) ==
  /\ p.provider_bond_bps.proposal = q.provider_bond_bps.proposal
  /\ q.provider_bond_bps.limit <= p.provider_bond_bps.limit
  /\ p.price_bps.limit = q.price_bps.limit
  /\ p.price_bps.proposal <= q.price_bps.proposal
  /\ p.price_bps.walkaway <= q.price_bps.walkaway
  /\ p.payout_delay.limit = q.payout_delay.limit
  /\ q.payout_delay.proposal <= p.payout_delay.proposal

\* A timeout and a late claim move the positions so.
LEMMA PositionsMove ==
  ASSUME NEW events \in SUBSET Receipts, NEW r \in Receipts \ events,
         NEW ontologies \in [buyer : Ontologies, provider : Ontologies],
         NEW b, Sound(b), NEW name \in DOMAIN PROFILES
  PROVE  LET p == Table(events, ontologies, b, name)
             q == Table(events \cup {r}, ontologies, b, name)
         IN  /\ TypeOf[r] = TIMEOUT => Moved(p, q)
             /\ TypeOf[r] = CLAIMED => MovedBack(p, q)
<1> DEFINE more == events \cup {r}
           p == Table(events, ontologies, b, name)
           q == Table(more, ontologies, b, name)
           buyer == AtRisk("buyer", events, ontologies, b, name)
           provider == AtRisk("provider", events, ontologies, b, name)
           buyer2 == AtRisk("buyer", more, ontologies, b, name)
           provider2 == AtRisk("provider", more, ontologies, b, name)
           x == BuyerRisk(events, ontologies.buyer, PROFILES[name])
           y == BuyerRisk(more, ontologies.buyer, PROFILES[name])
           g == ProviderRisk(events, ontologies.provider)
           h == ProviderRisk(more, ontologies.provider)
<1>1. Ontology(ontologies.buyer) /\ Ontology(ontologies.provider)
  BY OntologiesAssumption DEF Ontology
<1>2. /\ x \in 0 .. RISK_CEILING /\ y \in 0 .. RISK_CEILING
      /\ g \in 0 .. RISK_CEILING /\ h \in 0 .. RISK_CEILING
  BY <1>1, RisksInScale
<1>3. /\ TypeOf[r] = TIMEOUT => g = h /\ x <= y
      /\ TypeOf[r] = CLAIMED => x = y /\ g <= h
  <2>1. /\ TypeOf[r] = TIMEOUT => h = g
        /\ TypeOf[r] = CLAIMED => h >= g
    BY <1>1, RisksGrow
  <2>2. /\ TypeOf[r] = TIMEOUT => y >= x
        /\ TypeOf[r] = CLAIMED => y = x
    BY <1>1, RisksGrow
  <2> HIDE DEF x, y, g, h
  <2>3. QED
    BY <1>2, <2>1, <2>2 DEF RISK_CEILING
<1>4. /\ buyer = BuyerNumbers(x, PROFILES[name], b) /\ buyer2 = BuyerNumbers(y, PROFILES[name], b)
      /\ provider = ProviderNumbers(g, b) /\ provider2 = ProviderNumbers(h, b)
  BY DEF AtRisk
<1>5. Positions(p, buyer, provider, b, name) /\ Positions(q, buyer2, provider2, b, name)
  BY TablePositions
<1> HIDE DEF x, y, g, h, p, q, buyer, provider, buyer2, provider2
<1>6. ASSUME TypeOf[r] = TIMEOUT
      PROVE  Moved(p, q)
  <2>1. provider = provider2 /\ buyer.provider_bond_bps <= buyer2.provider_bond_bps
    BY <1>2, <1>3, <1>4, <1>6, BuyerNumbersGrow
  <2>2. /\ p.provider_bond_bps.limit = q.provider_bond_bps.limit
        /\ p.provider_bond_bps.proposal <= q.provider_bond_bps.proposal
    BY <1>5, <2>1 DEF Positions
  <2>3. p.price_bps = q.price_bps
    <3>1. /\ p.price_bps = [proposal |-> p.price_bps.proposal, limit |-> p.price_bps.limit,
                            walkaway |-> p.price_bps.walkaway]
          /\ q.price_bps = [proposal |-> q.price_bps.proposal, limit |-> q.price_bps.limit,
                            walkaway |-> q.price_bps.walkaway]
      <4> DEFINE Shaped(z) == z = [t \in Terms |-> [proposal |-> z[t].proposal, limit |-> z[t].limit,
                                                    walkaway |-> z[t].walkaway]]
      <4>1. Shaped(p) /\ Shaped(q)
        BY <1>5 DEF Positions
      <4>2. ASSUME NEW z, Shaped(z)
            PROVE  z.price_bps = [proposal |-> z.price_bps.proposal, limit |-> z.price_bps.limit,
                                  walkaway |-> z.price_bps.walkaway]
        BY <4>2, TheTerms
      <4> HIDE DEF Shaped
      <4>3. QED
        BY <4>1, <4>2
    <3>2. /\ p.price_bps.proposal = q.price_bps.proposal /\ p.price_bps.limit = q.price_bps.limit
          /\ p.price_bps.walkaway = q.price_bps.walkaway
      BY <1>5, <2>1 DEF Positions
    <3>3. QED
      BY <3>1, <3>2
  <2>4. QED
    BY <2>2, <2>3 DEF Moved
<1>7. ASSUME TypeOf[r] = CLAIMED
      PROVE  MovedBack(p, q)
  <2>1. /\ buyer = buyer2
        /\ provider.price_bps <= provider2.price_bps
        /\ provider.price_floor_bps <= provider2.price_floor_bps
        /\ provider2.payout_delay <= provider.payout_delay
        /\ provider2.max_bond_bps <= provider.max_bond_bps
    BY <1>2, <1>3, <1>4, <1>7, ProviderNumbersGrow
  <2>2. QED
    BY <1>5, <2>1 DEF Positions, MovedBack
<1>8. QED
  BY <1>6, <1>7 DEF p, q

\* Both rules, of what is settled.
LEMMA DealsMove ==
  ASSUME NEW p, NEW q, NEW b, Sound(b), Sensible(p, b), Sensible(q, b)
  PROVE  LET before == settle(p).terms
             after == settle(q).terms
         IN  /\ Moved(p, q) /\ settle(p).agreed =>
                  /\ settle(q).agreed
                  /\ after.price_bps >= before.price_bps
                  /\ after.provider_bond_bps >= before.provider_bond_bps
             /\ MovedBack(p, q) /\ settle(q).agreed =>
                  /\ settle(p).agreed
                  /\ after.price_bps >= before.price_bps
                  /\ after.provider_bond_bps <= before.provider_bond_bps
                  /\ after.payout_delay <= before.payout_delay
<1> DEFINE least(one) == IF one.proposal <= one.limit THEN one.proposal ELSE one.limit
           most(one) == IF one.proposal >= one.limit THEN one.proposal ELSE one.limit
           bond == b.provider_bond_bps
           before == settle(p).terms
           after == settle(q).terms
<1>1. \A z \in {p, q} :
        /\ z.provider_bond_bps.proposal \in Int /\ z.provider_bond_bps.limit \in Int
        /\ z.price_bps.proposal \in Int /\ z.price_bps.limit \in Int
        /\ z.price_bps.walkaway \in Int
        /\ z.payout_delay.proposal \in Int /\ z.payout_delay.limit \in Int
  BY SensibleNumbers, TheTerms
<1>2. bond \in Int
  <2>1. bond \in 0 .. MAX_PROVIDER_BOND_BPS
    BY SoundNumbers
  <2> HIDE DEF bond
  <2>2. QED
    BY <2>1 DEF MAX_PROVIDER_BOND_BPS
<1>3. /\ settle(p).agreed <=> bond <= p.provider_bond_bps.limit /\ p.price_bps.walkaway <= p.price_bps.limit
      /\ settle(p).agreed => /\ before.provider_bond_bps = least(p.provider_bond_bps)
                             /\ before.price_bps = least(p.price_bps)
                             /\ before.payout_delay = most(p.payout_delay)
  BY SettledTerms
<1>4. /\ settle(q).agreed <=> bond <= q.provider_bond_bps.limit /\ q.price_bps.walkaway <= q.price_bps.limit
      /\ settle(q).agreed => /\ after.provider_bond_bps = least(q.provider_bond_bps)
                             /\ after.price_bps = least(q.price_bps)
                             /\ after.payout_delay = most(q.payout_delay)
  BY SettledTerms
<1> HIDE DEF before, after, bond
<1>5. ASSUME Moved(p, q), settle(p).agreed
      PROVE  /\ settle(q).agreed
             /\ after.price_bps >= before.price_bps
             /\ after.provider_bond_bps >= before.provider_bond_bps
  <2>1. settle(q).agreed
    BY <1>3, <1>4, <1>5 DEF Moved
  <2>2. least(q.price_bps) >= least(p.price_bps)
    BY <1>1, <1>5 DEF Moved
  <2>3. least(q.provider_bond_bps) >= least(p.provider_bond_bps)
    BY <1>1, <1>5 DEF Moved
  <2>4. QED
    BY <1>3, <1>4, <1>5, <2>1, <2>2, <2>3
<1>6. ASSUME MovedBack(p, q), settle(q).agreed
      PROVE  /\ settle(p).agreed
             /\ after.price_bps >= before.price_bps
             /\ after.provider_bond_bps <= before.provider_bond_bps
             /\ after.payout_delay <= before.payout_delay
  <2>1. settle(p).agreed
    BY <1>1, <1>2, <1>3, <1>4, <1>6 DEF MovedBack
  <2>2. least(q.price_bps) >= least(p.price_bps)
    BY <1>1, <1>6 DEF MovedBack
  <2>3. least(q.provider_bond_bps) <= least(p.provider_bond_bps)
    BY <1>1, <1>6 DEF MovedBack
  <2>4. most(q.payout_delay) <= most(p.payout_delay)
    BY <1>1, <1>6 DEF MovedBack
  <2>5. QED
    BY <1>3, <1>4, <1>6, <2>1, <2>2, <2>3, <2>4
<1>7. QED
  BY <1>5, <1>6 DEF before, after

\* A step that adds one complaint, seen in both answers.
LEMMA GrownAnswer ==
  ASSUME Shown, Shown', [Next]_vars, NEW type, Grows(type), NEW name \in DOMAIN PROFILES
  PROVE  \E p, q :
           /\ Sound(base) /\ Sensible(p, base) /\ Sensible(q, base)
           /\ type = TIMEOUT => Moved(p, q)
           /\ type = CLAIMED => MovedBack(p, q)
           /\ Agreed(name) = settle(p).agreed /\ Settled(name) = settle(p).terms
           /\ Agreed(name)' = settle(q).agreed /\ Settled(name)' = settle(q).terms
<1>1. PICK r \in Receipts \ history : TypeOf[r] = type /\ history' = history \cup {r}
  BY DEF Grows
<1>2. readings' = readings /\ base' = base
  <2>1. Next \/ UNCHANGED vars
    OBVIOUS
  <2>2. QED
    BY <2>1 DEF Next, Append_outcome, Clear, simulate, vars
<1>3. /\ history \in SUBSET Receipts /\ history \cup {r} \in SUBSET Receipts
      /\ readings \in [buyer : Ontologies, provider : Ontologies]
      /\ base \in Baselines /\ ~baseline_fault(base)
  BY <1>1 DEF Shown, Grows, Answered
<1> DEFINE p == Table(history, readings, base, name)
           q == Table(history \cup {r}, readings, base, name)
<1>4. /\ Sound(base) /\ Sensible(p, base)
      /\ Agreed(name) = settle(p).agreed /\ Settled(name) = settle(p).terms
  BY <1>3, AgreedAndSettled
<1>5. /\ quote' = BilateralQuote(history \cup {r}, readings, base)
      /\ document' = _document_halves(BilateralQuote(history \cup {r}, readings, base), base)
  BY <1>1, <1>2 DEF Shown
<1>6. Sensible(q, base)
      /\ _document_halves(BilateralQuote(history \cup {r}, readings, base), base)
           .profiles[name].settlement.agreed = settle(q).agreed
  BY <1>3, Standing
<1>7. Agreed(name)' = settle(q).agreed
  BY <1>5, <1>6 DEF Agreed
<1>8. Settled(name)' = settle(q).terms
  BY <1>2, <1>5 DEF Settled, Table
<1>9. /\ type = TIMEOUT => Moved(p, q)
      /\ type = CLAIMED => MovedBack(p, q)
  BY <1>1, <1>3, <1>4, PositionsMove
<1> HIDE DEF p, q
<1>10. QED
  BY <1>1, <1>4, <1>6, <1>7, <1>8, <1>9

\* A provider's timeout never lowers its price or its bond nor turns a deal into a refusal:
\* WorseProviderNeverGains.
THEOREM TimeoutsNeverPay == Spec => WorseProviderNeverGains
<1>1. ASSUME Shown, Shown', [Next]_vars
      PROVE  [Grows(TIMEOUT) => \A name \in DOMAIN PROFILES : Agreed(name) =>
                /\ Agreed(name)'
                /\ Settled(name)'.price_bps >= Settled(name).price_bps
                /\ Settled(name)'.provider_bond_bps >= Settled(name).provider_bond_bps]_vars
  <2> SUFFICES ASSUME Grows(TIMEOUT), NEW name \in DOMAIN PROFILES, Agreed(name)
               PROVE  /\ Agreed(name)'
                      /\ Settled(name)'.price_bps >= Settled(name).price_bps
                      /\ Settled(name)'.provider_bond_bps >= Settled(name).provider_bond_bps
    OBVIOUS
  <2>1. PICK p, q :
          /\ Sound(base) /\ Sensible(p, base) /\ Sensible(q, base) /\ Moved(p, q)
          /\ Agreed(name) = settle(p).agreed /\ Settled(name) = settle(p).terms
          /\ Agreed(name)' = settle(q).agreed /\ Settled(name)' = settle(q).terms
    BY <1>1, GrownAnswer
  <2>2. QED
    BY <2>1, DealsMove
<1>2. QED
  BY <1>1, AnswersBelongToHistory, PTL DEF Spec, WorseProviderNeverGains

\* A buyer's late claim never lowers its price nor brings it more bond or more time, and turns no
\* refusal into a deal: WorseBuyerNeverGains.
THEOREM LateClaimsNeverPay == Spec => WorseBuyerNeverGains
<1>1. ASSUME Shown, Shown', [Next]_vars
      PROVE  [Grows(CLAIMED) => \A name \in DOMAIN PROFILES : Agreed(name)' =>
                /\ Agreed(name)
                /\ Settled(name)'.price_bps >= Settled(name).price_bps
                /\ Settled(name)'.provider_bond_bps <= Settled(name).provider_bond_bps
                /\ Settled(name)'.payout_delay <= Settled(name).payout_delay]_vars
  <2> SUFFICES ASSUME Grows(CLAIMED), NEW name \in DOMAIN PROFILES, Agreed(name)'
               PROVE  /\ Agreed(name)
                      /\ Settled(name)'.price_bps >= Settled(name).price_bps
                      /\ Settled(name)'.provider_bond_bps <= Settled(name).provider_bond_bps
                      /\ Settled(name)'.payout_delay <= Settled(name).payout_delay
    OBVIOUS
  <2>1. PICK p, q :
          /\ Sound(base) /\ Sensible(p, base) /\ Sensible(q, base) /\ MovedBack(p, q)
          /\ Agreed(name) = settle(p).agreed /\ Settled(name) = settle(p).terms
          /\ Agreed(name)' = settle(q).agreed /\ Settled(name)' = settle(q).terms
    BY <1>1, GrownAnswer
  <2>2. QED
    BY <2>1, DealsMove
<1>2. QED
  BY <1>1, AnswersBelongToHistory, PTL DEF Spec, WorseBuyerNeverGains
=============================================================================
