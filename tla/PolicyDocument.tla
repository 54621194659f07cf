--------------------------- MODULE PolicyDocument ---------------------------
(***************************************************************************)
(* The policy document: _document_halves of wrasse/cli.py writes it from   *)
(* what the two engines produced, and wrasse/policy_document.py reads it   *)
(* back before anything is signed.  The two are separate code.             *)
(*                                                                         *)
(* A column is what the document says of one profile.  A column that did   *)
(* not agree has no terms, no preimage and no hash.  A hash is a           *)
(* commitment: equal only for equal contents.  The two addresses, the      *)
(* engine version and the deadline of a preimage are left out, as are the  *)
(* formats of the fields; who may be named and when the deadline lies is   *)
(* not decided by memory.                                                  *)
(***************************************************************************)
EXTENDS Negotiation

BASELINE_BOUNDS ==
  [provider_bond_bps |-> <<0, MAX_PROVIDER_BOND_BPS>>, service_window |-> <<1, MAX_DURATION>>,
   payout_delay |-> <<1, MAX_DURATION>>]

\* A price is at least one wei; its upper bound is beyond the numbers here.
baseline_fault(base) ==
  ~ /\ base.price_wei >= MIN_SETTLED_PRICE_WEI
    /\ \A field \in DOMAIN BASELINE_BOUNDS :
         /\ base[field] >= BASELINE_BOUNDS[field][1] /\ base[field] <= BASELINE_BOUNDS[field][2]

policy_hash(preimage) == <<"policy", preimage>>
evidence_hash(event_ids) == <<"evidence", event_ids>>

-----------------------------------------------------------------------------
\* The writer.

\* What the two engines make of a history: the numbers of each side, and the receipts that each
\* will commit to.
BilateralQuote(events, readings, base) ==
  [recalled |-> events,
   buyer_terms |->
     [name \in DOMAIN PROFILES |->
        [committed |-> BuyerCommitted(events, readings.buyer, PROFILES[name], base),
         used |-> BuyerUsed(events, readings.buyer, PROFILES[name], base)]],
   provider_terms |->
     [committed |-> ProviderCommitted(events, readings.provider, base),
      used |-> ProviderUsed(events, readings.provider, base)]]

_positions_for(quote, name, base) ==
  LET provider == quote.provider_terms.committed
      proposal == proposals(quote.buyer_terms[name].committed, provider)
      limit == limits(PROFILES[name], provider, base)
      walkaway == walkaways_for(base, proposal, provider.price_floor_bps)
  IN [t \in Terms |-> [proposal |-> proposal[t], limit |-> limit[t], walkaway |-> walkaway[t]]]

\* The settled terms, in the units of the contract.
Priced(base, settled) ==
  [price_wei |-> price_wei(base.price_wei, settled.price_bps),
   provider_bond_bps |-> settled.provider_bond_bps,
   service_window |-> settled.service_window, payout_delay |-> settled.payout_delay]

as_dict(s) ==
  IF s.agreed THEN [agreed |-> TRUE, moves |-> s.moves]
  ELSE [agreed |-> FALSE, failed_on |-> s.failed_on, gap |-> s.gap]

\* Both sides recall the same receipts.
Side(recalled) ==
  [recalled |-> recalled, cold_start |-> recalled = {},
   verdict |-> IF recalled = {} THEN "no_match" ELSE "match"]

_document_halves(quote, base) ==
  LET column(name) ==
        LET p == _positions_for(quote, name, base)
            s == settle(p)
            used_ids == [buyer |-> quote.buyer_terms[name].used,
                         provider |-> quote.provider_terms.used]
            preimage == [terms |-> Priced(base, s.terms),
                         evidence |-> [side \in DOMAIN used_ids |-> evidence_hash(used_ids[side])]]
            account == [baseline |-> base, used |-> used_ids, settlement |-> as_dict(s),
                        proposals |-> [t \in Terms |-> p[t].proposal],
                        limits |-> [t \in Terms |-> p[t].limit],
                        walkaways |-> [t \in Terms |-> p[t].walkaway]]
            signing == [terms |-> preimage.terms, policy_preimage |-> preimage,
                        policy_hash |-> policy_hash(preimage)]
        IN IF s.agreed
           THEN [part \in DOMAIN account \cup DOMAIN signing |->
                   IF part \in DOMAIN signing THEN signing[part] ELSE account[part]]
           ELSE account
  IN [buyer |-> Side(quote.recalled), provider |-> Side(quote.recalled),
      profiles |-> [name \in DOMAIN PROFILES |-> column(name)]]

\* The writer refuses when one of the agreed deals has a bond that rounds to zero wei, ...
Collectible(document) ==
  \A name \in DOMAIN PROFILES :
    LET column == document.profiles[name] IN
    column.settlement.agreed =>
      bond_is_collectible(column.terms.price_wei, column.terms.provider_bond_bps)

\* ... when a side has not read a kind of outcome, or reads one in two ways.
Readable(events, readings) ==
  \A side \in {"buyer", "provider"} : \A type \in EventTypes :
    LET of == {d \in readings[side] : d.source_event_type = type} IN
    /\ Cardinality(of) <= 1
    /\ of = {} => \A e \in events : TypeOf[e] # type

-----------------------------------------------------------------------------
\* The reader.
_check_side(side) ==
  LET holds == side.recalled # {} IN
  /\ side.verdict \in {"match", "no_match", "empty_store"}
  /\ side.cold_start # holds
  /\ (side.verdict = "match") = holds

_check_used(used_ids, document) ==
  used_ids.buyer \subseteq document.buyer.recalled /\ used_ids.provider \subseteq document.provider.recalled

_check_settlement(settlement) ==
  IF settlement.agreed
  THEN \A move \in settlement.moves :
         /\ move.term \in Terms /\ move.kind \in {"concession", "rule"}
         /\ move.from >= 0 /\ move.to >= 0 /\ move.from # move.to
  ELSE settlement.failed_on \in Terms /\ settlement.gap >= 1

\* Each published number of a term lies in its range, and a walk-away that a rule derives is
\* the one the rule gives.
_check_positions(column) ==
  /\ ~baseline_fault(column.baseline)
  /\ \A part \in {"proposals", "limits", "walkaways"} :
       /\ column[part].provider_bond_bps \in 0 .. MAX_PROVIDER_BOND_BPS
       /\ \A t \in {"service_window", "payout_delay"} :
            column[part][t] >= 1 /\ column[part][t] <= MAX_DURATION
       /\ column[part].price_bps >= 1
  /\ \A t \in Derived :
       column.walkaways[t] = derived_walkaway(t, column.baseline, column.proposals[t])

build_positions(column) ==
  [t \in Terms |-> [proposal |-> column.proposals[t], limit |-> column.limits[t],
                    walkaway |-> column.walkaways[t]]]

\* The settlement is run again from the published numbers.
_check_settlement_follows(column) ==
  LET s == settle(build_positions(column)) IN
  /\ as_dict(s) = column.settlement
  /\ s.agreed => /\ column.terms = Priced(column.baseline, s.terms)
                 /\ bond_is_collectible(column.terms.price_wei, column.terms.provider_bond_bps)

\* Faulty variant: the displayed terms are not held against the preimage that is signed.
_check_terms_Skipped(column) == TRUE

_check_terms(column) == column.terms = column.policy_preimage.terms

\* A column's keys are those of its verdict: only an agreed one has anything to sign.
_check_profile(column, document) ==
  /\ column.settlement.agreed = ("terms" \in DOMAIN column)
  /\ _check_settlement(column.settlement)
  /\ _check_positions(column)
  /\ _check_settlement_follows(column)
  /\ _check_used(column.used, document)
  /\ column.settlement.agreed =>
       LET preimage == column.policy_preimage IN
       /\ preimage.terms.price_wei >= 1
       /\ preimage.terms.provider_bond_bps \in 0 .. MAX_PROVIDER_BOND_BPS
       /\ \A t \in {"service_window", "payout_delay"} :
            preimage.terms[t] >= 1 /\ preimage.terms[t] <= MAX_DURATION
       /\ policy_hash(preimage) = column.policy_hash
       /\ _check_terms(column)
       /\ \A side \in DOMAIN column.used :
            evidence_hash(column.used[side]) = preimage.evidence[side]

\* Every column is checked, also those that refused and those that nobody chose.
Validated(document) ==
  /\ _check_side(document.buyer) /\ _check_side(document.provider)
  /\ DOMAIN document.profiles = DOMAIN PROFILES
  /\ \A name \in DOMAIN PROFILES : _check_profile(document.profiles[name], document)

\* What is loaded to be signed must have agreed as well.
load_policy(document, profile) ==
  Validated(document) /\ document.profiles[profile].settlement.agreed
=============================================================================
