----------------------------- MODULE Simulation -----------------------------
(***************************************************************************)
(* wrasse/simulate.py and its endpoint: what the two agents would agree    *)
(* over a history that a visitor chooses, one outcome at a time, with the  *)
(* readings the two memories really hold.  The service keeps nothing of    *)
(* it: the list is the visitor's, and each request carries all of it.      *)
(* The settlement is that of Negotiation, which the real quote shares, so  *)
(* this is where the rule is checked over many histories.                  *)
(***************************************************************************)
EXTENDS PolicyDocument

CONSTANTS
  Ontologies,  \* the readings a memory may hold
  Baselines,   \* the operator's baselines a visitor tries
  MAX_HISTORY

ASSUME HistoryAssumption == MAX_HISTORY \in Nat
ASSUME OntologiesAssumption ==
  \A ontology \in Ontologies : IsFiniteSet(ontology) /\ ontology \subseteq Reading
ASSUME BaselinesAssumption ==
  Baselines \subseteq [price_wei : Int, provider_bond_bps : Int, service_window : Int,
                       payout_delay : Int]

VARIABLES
  history,   \* the outcomes of the visitor's list
  readings,  \* each memory's ontology
  base,      \* the baseline asked for
  quote,     \* what the two engines made of the history
  document   \* and what was written from it

vars == <<history, readings, base, quote, document>>

\* One request: both engines, then the writer of the document.
simulate(outcomes) ==
  /\ history' = outcomes
  /\ quote' = BilateralQuote(history', readings, base)
  /\ document' = _document_halves(quote', base)
  /\ UNCHANGED <<readings, base>>

Init ==
  /\ history = {}
  /\ readings \in [buyer : Ontologies, provider : Ontologies]
  /\ base \in Baselines
  /\ quote = BilateralQuote(history, readings, base)
  /\ document = _document_halves(quote, base)

\* The visitor appends an outcome and asks again.
Append_outcome(r) ==
  /\ r \notin history
  /\ Cardinality(history) < MAX_HISTORY
  /\ simulate(history \cup {r})

Clear == history # {} /\ simulate({})

Next == (\E r \in Receipts : Append_outcome(r)) \/ Clear

Spec == Init /\ [][Next]_vars

\* The request is refused, and shows none of this, unless the baseline is one that is allowed,
\* every outcome has one reading on each side and every agreed bond is collectible.
Answered == ~baseline_fault(base) /\ Readable(history, readings) /\ Collectible(document)

Agreed(name) == document.profiles[name].settlement.agreed
Settled(name) == settle(_positions_for(quote, name, base)).terms
Deal(name) == document.profiles[name].terms

-----------------------------------------------------------------------------
\* Whatever is agreed in a document that is written can be created on the deployed contract:
\* the price is not zero, a bond rate above zero is a bond above zero, and the durations fit.
QuotesCreatable ==
  Answered => \A name \in DOMAIN PROFILES : Agreed(name) =>
    LET deal == Deal(name) IN
       /\ deal.price_wei > 0
       /\ deal.provider_bond_bps > 0 => (deal.price_wei * deal.provider_bond_bps) \div BPS_DENOMINATOR > 0
       /\ deal.provider_bond_bps <= MAX_PROVIDER_BOND_BPS
       /\ deal.service_window \in 1..MAX_DURATION /\ deal.payout_delay \in 1..MAX_DURATION

\* No side walks away from a number it has just offered, and what is settled is no worse for
\* its proposer than its walk-away and no worse for its opposer than the limit it published.
NobodyOverruled ==
  Answered => \A name \in DOMAIN PROFILES : \A t \in Terms :
    LET p == build_positions(document.profiles[name])[t] IN
    /\ Meets(t, p.walkaway, p.proposal)
    /\ Agreed(name) =>
         /\ Meets(t, Settled(name)[t], p.limit)
         /\ Meets(t, p.walkaway, Settled(name)[t])
         /\ Meets(t, Settled(name)[t], p.proposal)

\* policy_document.py: "two implementations of it is how --base-bond-bps 0 produced a document
\* this same build then refused to read".  Whatever the writer writes the reader takes, the
\* account of a refusal too, and a column that agreed is there to be signed.
WriterIsReadable ==
  Answered =>
    /\ Validated(document)
    /\ \A name \in DOMAIN PROFILES : Agreed(name) => load_policy(document, name)

Parts == {"proposals", "limits", "walkaways", "used", "settlement", "terms", "policy_preimage",
          "policy_hash"}

\* A column with some of its parts taken from another column of the same document.
Spliced(column, other, parts) ==
  [part \in DOMAIN column |-> IF part \in parts THEN other[part] ELSE column[part]]

\* policy_document.py: "an edited account passes validation beside a genuine signed preimage".
\* Whatever parts of another column are put into a column, if the reader takes it then the
\* numbers shown, the numbers settled from the positions shown and the numbers under the hash
\* are the same, and the evidence under the hash is the evidence shown.
AcceptedExplainsItself ==
  Answered => \A name, from \in DOMAIN PROFILES :
    LET column == document.profiles[name]
        other == document.profiles[from]
    IN Agreed(name) /\ Agreed(from) => \A parts \in SUBSET Parts :
         LET edited == Spliced(column, other, parts) IN
         _check_profile(edited, document) =>
           /\ edited.policy_hash =
                policy_hash([terms |-> edited.terms,
                             evidence |-> [side \in DOMAIN edited.used |->
                                             evidence_hash(edited.used[side])]])
           /\ edited.terms = Priced(base, settle(build_positions(edited)).terms)

\* The receipts a side commits to give exactly its numbers, and not one of them can be left out.
CausalSet(terms, committed) ==
  /\ committed[terms.used] = terms.committed
  /\ \A e \in terms.used : committed[terms.used \ {e}] # terms.committed

CommitsToCauses ==
  Answered =>
    /\ CausalSet(quote.provider_terms,
                 [subset \in SUBSET history |->
                    ProviderCommitted(subset, readings.provider, base)])
    /\ \A name \in DOMAIN PROFILES :
         CausalSet(quote.buyer_terms[name],
                   [subset \in SUBSET history |->
                      BuyerCommitted(subset, readings.buyer, PROFILES[name], base)])

\* The visitor adds one outcome of a kind, and both answers are shown.
Grows(type) ==
  /\ \E r \in Receipts \ history : TypeOf[r] = type /\ history' = history \cup {r}
  /\ Answered /\ Answered'

\* negotiation.py: "a worse provider record cannot lower the price it is paid, cannot lower the
\* bond it must post, and cannot turn a deal into a refusal".
WorseProviderNeverGains ==
  [][Grows(TIMEOUT) => \A name \in DOMAIN PROFILES : Agreed(name) =>
       /\ Agreed(name)'
       /\ Settled(name)'.price_bps >= Settled(name).price_bps
       /\ Settled(name)'.provider_bond_bps >= Settled(name).provider_bond_bps]_vars

\* The same on the other side: a buyer that made its provider wait pays no less, gets no more
\* bond and no more time before the payout, and no refusal becomes a deal.
WorseBuyerNeverGains ==
  [][Grows(CLAIMED) => \A name \in DOMAIN PROFILES : Agreed(name)' =>
       /\ Agreed(name)
       /\ Settled(name)'.price_bps >= Settled(name).price_bps
       /\ Settled(name)'.provider_bond_bps <= Settled(name).provider_bond_bps
       /\ Settled(name)'.payout_delay <= Settled(name).payout_delay]_vars
=============================================================================
