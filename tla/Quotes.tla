------------------------------- MODULE Quotes -------------------------------
(***************************************************************************)
(* A quote between the moment it is written and the block that creates its *)
(* deal: wrasse/chain_time.py, wrasse/policy_hash.py and the commands      *)
(* policy, create-deal and rebind-policy of wrasse/cli.py, down to the     *)
(* guards of createDeal in contracts/src/WrasseEscrow.sol.                 *)
(*                                                                         *)
(* Time is the timestamp of the newest block.  A node shows any block up   *)
(* to it, so it may lag; the machine's clock is off by a constant.  Blocks *)
(* arrive between any two steps of a command.  What the terms are, and     *)
(* whether memory produces them, is in Negotiation, PolicyDocument and     *)
(* Memories; what becomes of the signed bytes is in TxLedger.  A document  *)
(* settles each profile apart, and a deal's identity is the request and    *)
(* the profile chosen from it.  The two addresses and their rules are left *)
(* out.                                                                    *)
(***************************************************************************)
EXTENDS Integers, FiniteSets

CONSTANTS
  Processes,       \* the commands that run at the same time
  Files,           \* the policy files on disk
  Requests,        \* request ids, drawn once each
  Profiles,        \* PROFILES
  Terms,           \* what a settlement may come to
  Offers,          \* what a document may settle its profiles at: a profile left out refused
  Windows,         \* the values of --accept-window
  Skews,           \* how far the local clock may be ahead of the newest block
  MARGIN,          \* --inclusion-margin
  MAX_SKEW,        \* DEFAULT_MAX_OBSERVATION_SKEW_SECONDS
  MAX_AGE,         \* MAX_OBSERVATION_AGE_SECONDS
  MAX_DURATION,
  UINT256_MAX,
  BPS_DENOMINATOR,
  MAX_PROVIDER_BOND_BPS,
  LastTime,        \* bound: the last timestamp
  MaxDeployments,  \* bound: contracts the operator deploys
  MaxDeals         \* bound: transactions signed

ASSUME TermsAssumption ==
  Terms \subseteq [price : 0 .. UINT256_MAX, bond_bps : 0 .. UINT256_MAX,
                   service_window : Nat, payout_delay : Nat]
ASSUME OffersAssumption == Offers \subseteq UNION {[agreed -> Terms] : agreed \in SUBSET Profiles}
ASSUME TimesAssumption ==
  /\ Windows \subseteq Nat /\ Skews \subseteq Int
  /\ MARGIN \in Nat /\ MAX_SKEW \in Nat /\ MAX_AGE \in Nat
  /\ LastTime \in Nat \ {0} /\ MaxDeployments \in Nat \ {0} /\ MaxDeals \in Nat
ASSUME ContractAssumption ==
  /\ MAX_DURATION \in Nat /\ UINT256_MAX \in Nat
  /\ BPS_DENOMINATOR \in Nat \ {0} /\ MAX_PROVIDER_BOND_BPS \in Nat

VARIABLES
  now,       \* the timestamp of the newest block
  skew,      \* how far the local clock is ahead of it
  deployed,  \* the contract the configuration names
  files,
  used,      \* request ids drawn so far
  calls,     \* each running create-deal: its step, and what it has read and decided
  signed     \* the createDeal transactions on record, and what the chain made of them

environment == <<now, skew, deployed>>
vars == <<environment, files, used, calls, signed>>

\* `block` is the block a live quote names, 0 in a fixture.
NoFile == [request |-> "none", contract |-> 0, block |-> 0, profiles |-> <<>>]
File == [request : Requests, contract : 1 .. MaxDeployments, block : Nat, profiles : Offers]
\* One profile of a document, as load_policy returns it.
ValidatedPolicy == [request : Requests, profile : Profiles, contract : 1 .. MaxDeployments,
                    block : Nat, terms : Terms]
Idle == [step |-> "idle"]
Call == [step : {"loaded", "checked", "estimated", "hashed"}, policy : ValidatedPolicy,
         window : Windows, accept_by : Nat]
\* `at` is when the deadline was last judged and the bytes signed.
Deal == [request : Requests, profile : Profiles, contract : 1 .. MaxDeployments, terms : Terms,
         accept_by : Nat, at : Nat, outcome : {"pending", "created", "reverted"}]

Init ==
  /\ now = 1
  /\ skew \in Skews
  /\ deployed = 1
  /\ files = [f \in Files |-> NoFile]
  /\ used = {}
  /\ calls = [p \in Processes |-> Idle]
  /\ signed = {}

-----------------------------------------------------------------------------
\* chain_time.py.  An observation is the timestamp of the block a node calls its latest.
observe_chain_time == 1 .. now
local_now == now + skew

past_lag(observed) == IF local_now > observed THEN local_now - observed ELSE 0

require_recent(observed) ==
  /\ local_now - observed <= MAX_SKEW
  /\ observed - local_now <= MAX_SKEW

\* policy_hash.py.  validate_creatable is to be what createDeal would do at a given instant.
\* Faulty variant: the bond of a small price is not looked at.
validate_creatable_AnyBond(terms, accept_by, reference) ==
  /\ terms.price # 0 /\ terms.bond_bps <= MAX_PROVIDER_BOND_BPS
  /\ accept_by > reference /\ accept_by - reference <= MAX_DURATION
  /\ \A duration \in {terms.service_window, terms.payout_delay} :
       duration # 0 /\ duration <= MAX_DURATION

validate_creatable(terms, accept_by, reference) ==
  LET bond_wei == (terms.price * terms.bond_bps) \div BPS_DENOMINATOR IN
  /\ terms.price # 0 /\ terms.bond_bps <= MAX_PROVIDER_BOND_BPS
  /\ accept_by > reference /\ accept_by - reference <= MAX_DURATION
  /\ \A duration \in {terms.service_window, terms.payout_delay} :
       duration # 0 /\ duration <= MAX_DURATION
  /\ terms.bond_bps > 0 => terms.price <= UINT256_MAX \div terms.bond_bps
  /\ terms.bond_bps > 0 => bond_wei # 0

require_inclusion_margin(accept_by, observed, lag) == accept_by > observed + MARGIN + lag

\* One judgement of a deadline: an observation close to the local clock, and both rules.
Judged(terms, accept_by, observed) ==
  /\ require_recent(observed)
  /\ validate_creatable(terms, accept_by, observed)
  /\ require_inclusion_margin(accept_by, observed, past_lag(observed))

\* WrasseEscrow.createDeal, whose product is computed under checked arithmetic.
createDeal(terms, acceptBy, timestamp) ==
  LET product == terms.price * terms.bond_bps IN
  /\ ~(terms.price = 0 \/ terms.bond_bps > MAX_PROVIDER_BOND_BPS)
  /\ ~(\/ acceptBy <= timestamp \/ acceptBy - timestamp > MAX_DURATION
       \/ terms.service_window = 0 \/ terms.service_window > MAX_DURATION
       \/ terms.payout_delay = 0 \/ terms.payout_delay > MAX_DURATION)
  /\ product <= UINT256_MAX
  /\ ~(terms.bond_bps > 0 /\ product \div BPS_DENOMINATOR = 0)

-----------------------------------------------------------------------------
\* policy.  A live quote takes its time from the chain before the memories are read, so the
\* block it names may be older than the file; a fixture is judged against a time supplied.
\* Every profile that agreed is judged, and one that fails keeps the document from being written.
policy(f, request, profiles, live) ==
  /\ request \notin used
  /\ \E reference \in 1 .. now, window \in Windows :
       /\ \A agreed \in DOMAIN profiles :
            validate_creatable(profiles[agreed], reference + window, reference)
       /\ live => \E then \in reference .. now :
                    LET lag == IF then + skew > reference THEN then + skew - reference ELSE 0 IN
                    /\ then + skew - reference <= MAX_SKEW /\ reference - then - skew <= MAX_SKEW
                    /\ DOMAIN profiles # {} => require_inclusion_margin(reference + window, reference, lag)
       /\ files' = [files EXCEPT ![f] = [request |-> request, contract |-> deployed,
                                         block |-> IF live THEN reference ELSE 0,
                                         profiles |-> profiles]]
  /\ used' = used \cup {request}
  /\ UNCHANGED <<environment, calls, signed>>

\* Faulty variant: the bound copy keeps the identity of the quote it was made from.
rebind_policy_KeepsId(f, g, request) ==
  /\ request \notin used
  /\ files[f] # NoFile
  /\ files' = [files EXCEPT ![g] = [files[f] EXCEPT !.contract = deployed]]
  /\ used' = used \cup {request}
  /\ UNCHANGED <<environment, calls, signed>>

\* rebind-policy: the same quote against the contract configured now, under a new identity.
rebind_policy(f, g, request) ==
  /\ request \notin used
  /\ files[f] # NoFile
  /\ files' = [files EXCEPT ![g] = [files[f] EXCEPT !.contract = deployed, !.request = request]]
  /\ used' = used \cup {request}
  /\ UNCHANGED <<environment, calls, signed>>

-----------------------------------------------------------------------------
\* create-deal, one step between two conversations with a node.
Enter(p, call) == calls' = [calls EXCEPT ![p] = call]
At(p, step) == calls[p].step = step

\* intent_id, the stable identity of the action: the quote, and the profile chosen from it.
intent_id(action) == <<action.request, action.profile>>

\* ledger.find, by contract and identity.
Recorded(chosen) ==
  \E s \in signed : intent_id(s) = intent_id(chosen) /\ s.contract = chosen.contract

\* The file is read once; it must name the configured contract and agree on the profile asked
\* for; an identity that has a row ends the command.
load_policy(p, f, profile, window) ==
  /\ calls[p] = Idle
  /\ files[f] # NoFile /\ files[f].contract = deployed
  /\ profile \in DOMAIN files[f].profiles
  /\ LET validated == [request |-> files[f].request, profile |-> profile,
                       contract |-> files[f].contract, block |-> files[f].block,
                       terms |-> files[f].profiles[profile]] IN
     /\ ~Recorded(validated)
     /\ Enter(p, [step |-> "loaded", policy |-> validated, window |-> window, accept_by |-> 0])
  /\ UNCHANGED <<environment, files, used, signed>>

\* A file labelled live must name a block the node has, and a recent one.  The block is not
\* looked at again.
_require_observation_happened(p) ==
  /\ At(p, "loaded")
  /\ LET block == calls[p].policy.block IN
     block # 0 => \E latest \in observe_chain_time :
                    block <= latest /\ latest - block <= MAX_AGE
  /\ Enter(p, [calls[p] EXCEPT !.step = "checked", !.policy.block = 0])
  /\ UNCHANGED <<environment, files, used, signed>>

\* Gas is estimated against a provisional deadline; a node simulates the call at its latest block.
estimate_gas(p) ==
  /\ At(p, "checked")
  /\ \E provisional, latest \in observe_chain_time :
       /\ require_recent(provisional)
       /\ createDeal(calls[p].policy.terms, provisional + calls[p].window, latest)
  /\ Enter(p, [calls[p] EXCEPT !.step = "estimated"])
  /\ UNCHANGED <<environment, files, used, signed>>

\* record_signed holds the ledger's write lock from here to the signature, and lets nothing be
\* signed while the wallet's last transaction is not mined.
Locked == \E p \in Processes : At(p, "hashed")
_blocking_row == \E s \in signed : s.outcome = "pending"

\* The deadline that will be committed is derived from a final observation.
_sign_under_memory(p) ==
  /\ At(p, "estimated") /\ ~Locked /\ Cardinality(signed) < MaxDeals
  /\ ~Recorded(calls[p].policy) /\ ~_blocking_row
  /\ \E final \in observe_chain_time :
       LET accept_by == final + calls[p].window IN
       /\ Judged(calls[p].policy.terms, accept_by, final)
       /\ Enter(p, [calls[p] EXCEPT !.step = "hashed", !.accept_by = accept_by])
  /\ UNCHANGED <<environment, files, used, signed>>

\* Faulty variant: the deadline is not judged again after the contract was asked for its hash.
sign_transaction_Unjudged(p) ==
  /\ At(p, "hashed")
  /\ signed' = signed \cup
       {[request |-> calls[p].policy.request, profile |-> calls[p].policy.profile,
         contract |-> calls[p].policy.contract, terms |-> calls[p].policy.terms,
         accept_by |-> calls[p].accept_by, at |-> now, outcome |-> "pending"]}
  /\ Enter(p, Idle)
  /\ UNCHANGED <<environment, files, used>>

\* The hash the contract computes took an answer from a node, and time; the committed deadline is
\* judged once more, and the bytes are signed and recorded.
sign_transaction(p) ==
  /\ At(p, "hashed")
  /\ \E latest \in observe_chain_time :
       Judged(calls[p].policy.terms, calls[p].accept_by, latest)
  /\ signed' = signed \cup
       {[request |-> calls[p].policy.request, profile |-> calls[p].policy.profile,
         contract |-> calls[p].policy.contract, terms |-> calls[p].policy.terms,
         accept_by |-> calls[p].accept_by, at |-> now, outcome |-> "pending"]}
  /\ Enter(p, Idle)
  /\ UNCHANGED <<environment, files, used>>

\* A refusal, an exception or a crash: nothing is recorded.
abandon(p) ==
  /\ calls[p] # Idle
  /\ Enter(p, Idle)
  /\ UNCHANGED <<environment, files, used, signed>>

-----------------------------------------------------------------------------
\* The chain and the operator.
Tick == now < LastTime /\ now' = now + 1 /\ UNCHANGED <<skew, deployed, files, used, calls, signed>>

\* A new deployment comes with a new configuration; a running command has read the old one.
Redeploy ==
  /\ deployed < MaxDeployments
  /\ deployed' = deployed + 1
  /\ UNCHANGED <<now, skew, files, used, calls, signed>>

Mine(s) ==
  /\ s.outcome = "pending"
  /\ LET outcome == IF createDeal(s.terms, s.accept_by, now) THEN "created" ELSE "reverted" IN
     signed' = (signed \ {s}) \cup {[s EXCEPT !.outcome = outcome]}
  /\ UNCHANGED <<environment, files, used, calls>>

create_deal(p) ==
  \/ \E f \in Files, profile \in Profiles, window \in Windows : load_policy(p, f, profile, window)
  \/ _require_observation_happened(p) \/ estimate_gas(p)
  \/ _sign_under_memory(p) \/ sign_transaction(p) \/ abandon(p)

Next ==
  \/ \E f \in Files, request \in Requests, profiles \in Offers, live \in BOOLEAN :
       policy(f, request, profiles, live)
  \/ \E f, g \in Files, request \in Requests : rebind_policy(f, g, request)
  \/ \E p \in Processes : create_deal(p)
  \/ \E s \in signed : Mine(s)
  \/ Tick \/ Redeploy

Spec == Init /\ [][Next]_vars

-----------------------------------------------------------------------------
\* Properties.

\* Types of the state.
TypeOK ==
  /\ now \in 1 .. LastTime /\ skew \in Skews /\ deployed \in 1 .. MaxDeployments
  /\ files \in [Files -> File \cup {NoFile}]
  /\ used \subseteq Requests
  /\ calls \in [Processes -> Call \cup {Idle}]
  /\ signed \subseteq Deal

\* require_inclusion_margin: a deal is signed only with MARGIN left at the real tip, however far
\* the node that was asked lags and whatever the other calls took.  So a block that arrives
\* within the margin creates it; a local clock that is slow takes its error off the margin.
SignedIsCreatable ==
  \A s \in signed :
    s.outcome = "pending" /\ now - s.at <= MARGIN + (IF skew < 0 THEN skew ELSE 0) =>
      createDeal(s.terms, s.accept_by, now)

\* The instants at which validate_creatable and createDeal refuse the same terms and deadlines.
Mirrored ==
  {timestamp \in 1 .. LastTime :
    \A terms \in Terms, accept_by \in 0 .. LastTime + MAX_DURATION + 1 :
      validate_creatable(terms, accept_by, timestamp) <=> createDeal(terms, accept_by, timestamp)}

\* validate_creatable "mirrors every creation-time contract rule": at every instant and for every
\* deadline it refuses exactly the terms that createDeal reverts on.
MirrorsContract == now \in Mirrored

\* rebind-policy: "reusing the old identity would let the pre-deployment document and the bound
\* one both claim to be the same deal".  One request and profile are signed at most once, on all
\* contracts; two profiles of one request are two identities, and both may be signed.
OneDealPerIdentity ==
  \A s, t \in signed : intent_id(s) = intent_id(t) => s = t
=============================================================================
