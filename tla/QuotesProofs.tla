---------------------------- MODULE QuotesProofs ----------------------------
(***************************************************************************)
(* The rules a quote is judged by are the contract's, and a deal that is   *)
(* signed under them is created if a block takes it within the margin: for *)
(* any terms, windows, clocks and number of concurrent commands.           *)
(* SignedIsCreatable is not inductive: that it holds at a later block      *)
(* follows from what was true at the signature, which SignedOnTime keeps;  *)
(* nor is OneDealPerIdentity, which follows from who drew a request id,    *)
(* for which contract, and which signature used it up for a profile.       *)
(***************************************************************************)
EXTENDS Quotes, TLAPS

USE TermsAssumption, OffersAssumption, TimesAssumption, ContractAssumption

\* A product stays within a bound exactly when one factor is within the quotient:
\* the division the mirror uses where the contract multiplies.
LEMMA QuotientBound ==
  ASSUME NEW p \in Nat, NEW b \in Nat, NEW M \in Nat, b > 0
  PROVE  p <= M \div b <=> p * b <= M
<1> DEFINE q == M \div b
           rest == M % b
<1>1. q \in Nat /\ rest \in 0 .. b - 1 /\ M = b * q + rest
  OBVIOUS
<1>2. p * b = b * p
  OBVIOUS
<1> HIDE DEF q, rest
<1>3. ASSUME p <= q
      PROVE  p * b <= M
  <2>1. PICK k \in Nat : q = p + k
    BY <1>1, <1>3
  <2>2. b * q = b * p + b * k /\ b * k \in Nat
    BY <2>1
  <2>3. QED
    BY <1>1, <1>2, <2>2
<1>4. ASSUME p > q
      PROVE  p * b > M
  <2>1. PICK k \in Nat : p = q + 1 + k
    BY <1>1, <1>4
  <2>2. b * p = b * q + b + b * k /\ b * k \in Nat
    BY <2>1, <1>1
  <2>3. b * q + b > M
    BY <1>1
  <2>4. QED
    BY <1>1, <1>2, <2>2, <2>3
<1>5. QED
  BY <1>1, <1>3, <1>4 DEF q

\* validate_creatable is createDeal: for every price, bond, duration, deadline and instant.
THEOREM MirrorsEveryRule ==
  ASSUME NEW terms \in [price : Nat, bond_bps : Nat, service_window : Nat, payout_delay : Nat],
         NEW accept_by \in Nat, NEW timestamp \in Nat, terms.price <= UINT256_MAX
  PROVE  validate_creatable(terms, accept_by, timestamp)
           <=> createDeal(terms, accept_by, timestamp)
<1> DEFINE p == terms.price
           b == terms.bond_bps
           d == (p * b) \div BPS_DENOMINATOR
<1>1. /\ p \in Nat /\ b \in Nat
      /\ terms.service_window \in Nat /\ terms.payout_delay \in Nat
  OBVIOUS
<1>2. b > 0 => (p <= UINT256_MAX \div b <=> p * b <= UINT256_MAX)
  BY <1>1, QuotientBound
<1>3. b = 0 => p * b <= UINT256_MAX
  BY <1>1
<1>4. (b > 0 => p <= UINT256_MAX \div b) <=> p * b <= UINT256_MAX
  BY <1>1, <1>2, <1>3
<1> DEFINE fits == p <= UINT256_MAX \div b
           product_fits == p * b <= UINT256_MAX
<1>5. (b > 0 => fits) <=> product_fits
  BY <1>4
<1>6. validate_creatable(terms, accept_by, timestamp) <=>
        /\ p # 0 /\ b <= MAX_PROVIDER_BOND_BPS
        /\ accept_by > timestamp /\ accept_by - timestamp <= MAX_DURATION
        /\ terms.service_window # 0 /\ terms.service_window <= MAX_DURATION
        /\ terms.payout_delay # 0 /\ terms.payout_delay <= MAX_DURATION
        /\ b > 0 => fits
        /\ b > 0 => d # 0
  BY DEF validate_creatable
<1>7. createDeal(terms, accept_by, timestamp) <=>
        /\ ~(p = 0 \/ b > MAX_PROVIDER_BOND_BPS)
        /\ ~(\/ accept_by <= timestamp \/ accept_by - timestamp > MAX_DURATION
             \/ terms.service_window = 0 \/ terms.service_window > MAX_DURATION
             \/ terms.payout_delay = 0 \/ terms.payout_delay > MAX_DURATION)
        /\ product_fits
        /\ ~(b > 0 /\ d = 0)
  BY DEF createDeal
<1> HIDE DEF d, fits, product_fits
<1>8. QED
  BY <1>1, <1>5, <1>6, <1>7

\* What a document settles a profile at is a set of terms.
LEMMA Settled ==
  ASSUME NEW profiles \in Offers, NEW profile \in DOMAIN profiles
  PROVE  profiles[profile] \in Terms
<1>1. PICK agreed \in SUBSET Profiles : profiles \in [agreed -> Terms]
  OBVIOUS
<1>2. QED
  BY <1>1

-----------------------------------------------------------------------------
\* The state keeps its types: a command that reached its signature holds a file it read.
THEOREM TypeCorrect == Spec => []TypeOK
<1>1. Init => TypeOK
  BY DEF Init, TypeOK
<1>2. TypeOK /\ [Next]_vars => TypeOK'
  <2> SUFFICES ASSUME TypeOK, [Next]_vars
               PROVE  TypeOK'
    OBVIOUS
  <2> USE DEF TypeOK
  <2>1. ASSUME NEW f \in Files, NEW request \in Requests, NEW profiles \in Offers,
               NEW live \in BOOLEAN, policy(f, request, profiles, live)
        PROVE  TypeOK'
    BY <2>1 DEF policy, File, environment
  <2>2. ASSUME NEW f \in Files, NEW g \in Files, NEW request \in Requests,
               rebind_policy(f, g, request)
        PROVE  TypeOK'
    BY <2>2 DEF rebind_policy, File, environment
  <2>3. ASSUME NEW p \in Processes, NEW f \in Files, NEW profile \in Profiles,
               NEW window \in Windows, load_policy(p, f, profile, window)
        PROVE  TypeOK'
    <3>1. files[f] \in File /\ profile \in DOMAIN files[f].profiles
      BY <2>3 DEF load_policy
    <3>2. files[f].profiles[profile] \in Terms
      BY <3>1, Settled DEF File
    <3> DEFINE validated == [request |-> files[f].request, profile |-> profile,
                             contract |-> files[f].contract, block |-> files[f].block,
                             terms |-> files[f].profiles[profile]]
               call == [step |-> "loaded", policy |-> validated, window |-> window,
                        accept_by |-> 0]
    <3>3. validated \in ValidatedPolicy
      BY <3>1, <3>2 DEF File, ValidatedPolicy
    <3>4. call \in Call
      BY <3>3 DEF Call
    <3>5. calls' = [calls EXCEPT ![p] = call] /\ UNCHANGED <<environment, files, used, signed>>
      BY <2>3 DEF load_policy, Enter
    <3> HIDE DEF call
    <3>6. QED
      BY <3>4, <3>5 DEF environment
  <2>4. ASSUME NEW p \in Processes, _require_observation_happened(p)
        PROVE  TypeOK'
    <3>1. calls[p] \in Call
      BY <2>4 DEF _require_observation_happened, At, Idle
    <3>2. [calls[p] EXCEPT !.step = "checked", !.policy.block = 0] \in Call
      BY <3>1 DEF Call, ValidatedPolicy
    <3>3. QED
      BY <2>4, <3>2 DEF _require_observation_happened, Enter, environment
  <2>5. ASSUME NEW p \in Processes, estimate_gas(p)
        PROVE  TypeOK'
    <3>1. calls[p] \in Call
      BY <2>5 DEF estimate_gas, At, Idle
    <3>2. [calls[p] EXCEPT !.step = "estimated"] \in Call
      BY <3>1 DEF Call
    <3>3. QED
      BY <2>5, <3>2 DEF estimate_gas, Enter, environment
  <2>6. ASSUME NEW p \in Processes, _sign_under_memory(p)
        PROVE  TypeOK'
    <3>1. calls[p] \in Call
      BY <2>6 DEF _sign_under_memory, At, Idle
    <3>2. PICK final \in observe_chain_time :
            Enter(p, [calls[p] EXCEPT !.step = "hashed",
                                      !.accept_by = final + calls[p].window])
      BY <2>6 DEF _sign_under_memory
    <3>3. final + calls[p].window \in Nat
      <4>1. final \in Nat
        BY DEF observe_chain_time
      <4>2. calls[p].window \in Nat
        BY <3>1 DEF Call
      <4>3. QED
        BY <4>1, <4>2
    <3>4. [calls[p] EXCEPT !.step = "hashed", !.accept_by = final + calls[p].window] \in Call
      BY <3>1, <3>3 DEF Call
    <3>5. QED
      BY <2>6, <3>2, <3>4 DEF _sign_under_memory, Enter, environment
  <2>7. ASSUME NEW p \in Processes, sign_transaction(p)
        PROVE  TypeOK'
    <3>1. calls[p] \in Call
      BY <2>7 DEF sign_transaction, At, Idle
    <3>2. QED
      BY <2>7, <3>1 DEF sign_transaction, Enter, Call, ValidatedPolicy, Deal, environment
  <2>8. ASSUME NEW p \in Processes, abandon(p)
        PROVE  TypeOK'
    BY <2>8 DEF abandon, Enter, environment
  <2>9. ASSUME NEW s \in signed, Mine(s)
        PROVE  TypeOK'
    BY <2>9 DEF Mine, Deal, environment
  <2>10. CASE Tick
    BY <2>10 DEF Tick
  <2>11. CASE Redeploy
    BY <2>11 DEF Redeploy
  <2>12. CASE UNCHANGED vars
    BY <2>12 DEF vars, environment
  <2>13. ASSUME NEW p \in Processes, create_deal(p)
         PROVE  TypeOK'
    BY <2>3, <2>4, <2>5, <2>6, <2>7, <2>8, <2>13 DEF create_deal
  <2> HIDE DEF TypeOK
  <2>14. QED
    BY <2>1, <2>2, <2>9, <2>10, <2>11, <2>12, <2>13 DEF Next
<1>3. QED
  BY <1>1, <1>2, PTL DEF Spec

\* At every instant a run reaches, the mirror and the contract refuse the same terms.
THEOREM Mirrors == Spec => []MirrorsContract
<1>1. TypeOK => MirrorsContract
  <2> SUFFICES ASSUME TypeOK, NEW terms \in Terms,
                      NEW accept_by \in 0 .. LastTime + MAX_DURATION + 1
               PROVE  validate_creatable(terms, accept_by, now)
                        <=> createDeal(terms, accept_by, now)
    BY DEF MirrorsContract, Mirrored, TypeOK
  <2>1. /\ terms \in [price : Nat, bond_bps : Nat, service_window : Nat, payout_delay : Nat]
        /\ terms.price <= UINT256_MAX
    OBVIOUS
  <2>2. accept_by \in Nat /\ now \in Nat
    BY DEF TypeOK
  <2>3. QED
    BY <2>1, <2>2, MirrorsEveryRule
<1>2. QED
  BY <1>1, TypeCorrect, PTL

-----------------------------------------------------------------------------
\* The clock's error that the margin does not absorb.
Slow == IF skew < 0 THEN skew ELSE 0

\* What was true of the terms and the deadline when they were signed.
SignedOnTime ==
  \A s \in signed :
    /\ s.at <= now
    /\ s.accept_by > s.at + MARGIN + Slow
    /\ \E latest \in Nat : latest <= s.at /\ createDeal(s.terms, s.accept_by, latest)

\* A deal the contract would create stays one until its deadline.
LEMMA CreatableUntilDeadline ==
  ASSUME NEW terms \in Terms, NEW accept_by \in Nat, NEW t \in Nat, NEW u \in Nat,
         t <= u, u < accept_by, createDeal(terms, accept_by, t)
  PROVE  createDeal(terms, accept_by, u)
<1> DEFINE product == terms.price * terms.bond_bps
           others == /\ ~(terms.price = 0 \/ terms.bond_bps > MAX_PROVIDER_BOND_BPS)
                     /\ ~(\/ terms.service_window = 0 \/ terms.service_window > MAX_DURATION
                          \/ terms.payout_delay = 0 \/ terms.payout_delay > MAX_DURATION)
                     /\ product <= UINT256_MAX
                     /\ ~(terms.bond_bps > 0 /\ product \div BPS_DENOMINATOR = 0)
<1>1. \A at \in Nat : createDeal(terms, accept_by, at) <=>
        others /\ ~(accept_by <= at \/ accept_by - at > MAX_DURATION)
  BY DEF createDeal
<1> HIDE DEF others
<1>2. accept_by - u <= accept_by - t
  OBVIOUS
<1>3. ~(accept_by - t > MAX_DURATION)
  BY <1>1
<1>4. QED
  BY <1>1, <1>2, <1>3

\* The lag is taken off the margin, so the margin is left at the real tip.
LEMMA JudgedOnTime ==
  ASSUME now \in Nat, skew \in Int, NEW terms \in Terms, NEW accept_by \in Nat,
         NEW latest \in observe_chain_time, Judged(terms, accept_by, latest)
  PROVE  /\ accept_by > now + MARGIN + Slow
         /\ accept_by > latest
         /\ createDeal(terms, accept_by, latest)
<1>1. latest \in Nat /\ latest <= now
  BY DEF observe_chain_time
<1>2. accept_by > latest + MARGIN + past_lag(latest)
  BY DEF Judged, require_inclusion_margin
<1>3. past_lag(latest) >= 0 /\ past_lag(latest) >= now + skew - latest /\ past_lag(latest) \in Int
  BY <1>1 DEF past_lag, local_now
<1>4. accept_by > now + MARGIN + Slow /\ accept_by > latest
  <2>1. CASE skew < 0
    BY <1>1, <1>2, <1>3, <2>1 DEF Slow
  <2>2. CASE ~(skew < 0)
    BY <1>1, <1>2, <1>3, <2>2 DEF Slow
  <2>3. QED
    BY <2>1, <2>2
<1>5. createDeal(terms, accept_by, latest)
  <2>1. validate_creatable(terms, accept_by, latest)
    BY DEF Judged
  <2>2. /\ terms \in [price : Nat, bond_bps : Nat, service_window : Nat, payout_delay : Nat]
        /\ terms.price <= UINT256_MAX
    OBVIOUS
  <2>3. QED
    BY <1>1, <2>1, <2>2, MirrorsEveryRule
<1>6. QED
  BY <1>4, <1>5

\* Signing establishes SignedOnTime for the new deal, and nothing afterwards undoes it.
LEMMA SignedOnTimeKept ==
  ASSUME TypeOK, SignedOnTime, [Next]_vars
  PROVE  SignedOnTime'
<1> USE DEF SignedOnTime, TypeOK
<1>1. ASSUME UNCHANGED <<skew, signed>>, now' \in Nat, now' >= now
      PROVE  SignedOnTime'
  <2>1. \A s \in signed : s.at \in Nat
    BY DEF Deal
  <2>2. \A s \in signed : s.at <= now'
    BY <1>1, <2>1
  <2>3. Slow' = Slow
    BY <1>1 DEF Slow
  <2>4. QED
    BY <1>1, <2>2, <2>3 DEF createDeal
<1>2. ASSUME NEW p \in Processes, sign_transaction(p)
      PROVE  SignedOnTime'
  <2> DEFINE call == calls[p]
             deal == [request |-> call.policy.request, profile |-> call.policy.profile,
                      contract |-> call.policy.contract, terms |-> call.policy.terms,
                      accept_by |-> call.accept_by, at |-> now, outcome |-> "pending"]
  <2>1. call \in Call
    BY <1>2 DEF sign_transaction, At, Idle
  <2>2. call.policy.terms \in Terms /\ call.accept_by \in Nat
    BY <2>1 DEF Call, ValidatedPolicy
  <2>3. PICK latest \in observe_chain_time : Judged(call.policy.terms, call.accept_by, latest)
    BY <1>2 DEF sign_transaction
  <2>4. /\ call.accept_by > now + MARGIN + Slow
        /\ createDeal(call.policy.terms, call.accept_by, latest)
    BY <2>2, <2>3, JudgedOnTime
  <2>5. latest \in Nat /\ latest <= now
    BY DEF observe_chain_time
  <2>6. /\ deal.at <= now
        /\ deal.accept_by > deal.at + MARGIN + Slow
        /\ \E t \in Nat : t <= deal.at /\ createDeal(deal.terms, deal.accept_by, t)
    BY <2>4, <2>5
  <2>7. signed' = signed \cup {deal} /\ UNCHANGED <<now, skew>>
    BY <1>2 DEF sign_transaction, environment
  <2> HIDE DEF deal
  <2>8. QED
    BY <2>6, <2>7 DEF Slow, createDeal
<1>3. ASSUME NEW s \in signed, Mine(s)
      PROVE  SignedOnTime'
  <2>1. PICK outcome : signed' = (signed \ {s}) \cup {[s EXCEPT !.outcome = outcome]}
    BY <1>3 DEF Mine
  <2>2. UNCHANGED <<now, skew>>
    BY <1>3 DEF Mine, environment
  <2> DEFINE t == [s EXCEPT !.outcome = outcome]
  <2>3. t.at = s.at /\ t.accept_by = s.accept_by /\ t.terms = s.terms
    BY DEF Deal
  <2> HIDE DEF t
  <2>4. QED
    BY <2>1, <2>2, <2>3 DEF Slow, createDeal, t
<1>4. CASE Tick
  BY <1>1, <1>4 DEF Tick
<1>5. CASE Redeploy
  BY <1>1, <1>5 DEF Redeploy
<1>6. ASSUME NEW p \in Processes, create_deal(p), ~sign_transaction(p)
      PROVE  SignedOnTime'
  <2>1. UNCHANGED <<now, skew, signed>>
    <3>1. CASE \E f \in Files, profile \in Profiles, window \in Windows :
                 load_policy(p, f, profile, window)
      BY <3>1 DEF load_policy, environment
    <3>2. CASE _require_observation_happened(p) \/ estimate_gas(p)
      BY <3>2 DEF _require_observation_happened, estimate_gas, environment
    <3>3. CASE _sign_under_memory(p) \/ abandon(p)
      BY <3>3 DEF _sign_under_memory, abandon, environment
    <3>4. QED
      BY <1>6, <3>1, <3>2, <3>3 DEF create_deal
  <2>2. QED
    BY <1>1, <2>1
<1>7. ASSUME NEW f \in Files, NEW request \in Requests, NEW profiles \in Offers,
             NEW live \in BOOLEAN, policy(f, request, profiles, live)
      PROVE  SignedOnTime'
  BY <1>1, <1>7 DEF policy, environment
<1>8. ASSUME NEW f \in Files, NEW g \in Files, NEW request \in Requests,
             rebind_policy(f, g, request)
      PROVE  SignedOnTime'
  BY <1>1, <1>8 DEF rebind_policy, environment
<1>9. CASE UNCHANGED vars
  BY <1>1, <1>9 DEF vars, environment
<1>10. QED
  BY <1>2, <1>3, <1>4, <1>5, <1>6, <1>7, <1>8, <1>9 DEF Next

\* A deal signed with the margin left is created by any block that arrives within it.
THEOREM Creatable == Spec => []SignedIsCreatable
<1>1. Init => SignedOnTime
  BY DEF Init, SignedOnTime
<1>2. TypeOK /\ TypeOK' /\ SignedOnTime /\ [Next]_vars => SignedOnTime'
  BY SignedOnTimeKept
<1>3. TypeOK /\ SignedOnTime => SignedIsCreatable
  <2> SUFFICES ASSUME TypeOK, SignedOnTime, NEW s \in signed,
                      now - s.at <= MARGIN + Slow
               PROVE  createDeal(s.terms, s.accept_by, now)
    BY DEF SignedIsCreatable, Slow
  <2>1. /\ s.terms \in Terms /\ s.accept_by \in Nat /\ s.at \in Nat
        /\ now \in Nat /\ Slow \in Int
    BY DEF TypeOK, Deal, Slow
  <2>2. s.at <= now /\ s.accept_by > s.at + MARGIN + Slow
    BY DEF SignedOnTime
  <2>3. PICK latest \in Nat : latest <= s.at /\ createDeal(s.terms, s.accept_by, latest)
    BY DEF SignedOnTime
  <2>4. latest <= now /\ now < s.accept_by
    BY <2>1, <2>2, <2>3
  <2>5. QED
    BY <2>1, <2>3, <2>4, CreatableUntilDeadline
<1>4. QED
  BY <1>1, <1>2, <1>3, TypeCorrect, PTL DEF Spec

-----------------------------------------------------------------------------
\* Every request that exists, with the contract it is for: in a file, in a running command
\* or on record.
Requested ==
  {<<files[f].request, files[f].contract>> : f \in {g \in Files : files[g] # NoFile}}
    \cup {<<calls[p].policy.request, calls[p].policy.contract>> :
           p \in {q \in Processes : calls[q] # Idle}}
    \cup {<<s.request, s.contract>> : s \in signed}

\* A request id was drawn once, and is for one contract wherever it is named, under any profile.
OneContractPerRequest ==
  \A a, b \in Requested : a[1] \in used /\ (a[1] = b[1] => a[2] = b[2])

\* The write lock has one holder, and its request and profile are not on record.
OneSigner ==
  \A p \in Processes : At(p, "hashed") =>
    /\ \A q \in Processes : At(q, "hashed") => p = q
    /\ ~Recorded(calls[p].policy)

SignedOnce == OneContractPerRequest /\ OneSigner /\ OneDealPerIdentity

\* A step that draws no identity keeps what the known ones are for.
LEMMA NothingDrawn ==
  ASSUME OneContractPerRequest, Requested' \subseteq Requested, used' = used
  PROVE  OneContractPerRequest'
BY DEF OneContractPerRequest

\* And so does one that draws a fresh one.
LEMMA OneDrawn ==
  ASSUME OneContractPerRequest, NEW request, NEW contract, request \notin used,
         Requested' \subseteq Requested \cup {<<request, contract>>},
         used' = used \cup {request}
  PROVE  OneContractPerRequest'
<1> SUFFICES ASSUME NEW a \in Requested', NEW b \in Requested'
             PROVE  a[1] \in used' /\ (a[1] = b[1] => a[2] = b[2])
  BY DEF OneContractPerRequest
<1>1. \A c \in Requested : c[1] \in used /\ c[1] # request
  BY DEF OneContractPerRequest
<1>2. \A c \in Requested' : c \in Requested \/ c = <<request, contract>>
  OBVIOUS
<1>3. QED
  BY <1>1, <1>2 DEF OneContractPerRequest

\* Where neither the commands nor the record change, the lock's holder does not.
LEMMA SameSigner ==
  ASSUME OneSigner, UNCHANGED <<calls, signed>>
  PROVE  OneSigner'
BY DEF OneSigner, At, Recorded, intent_id

\* A command that changes its step, but not to the locked one, leaves the lock's holder alone.
LEMMA StepOutsideLock ==
  ASSUME TypeOK, OneSigner, NEW p \in Processes, NEW call,
         Enter(p, call), call.step # "hashed", signed' = signed
  PROVE  OneSigner'
<1>1. calls' = [calls EXCEPT ![p] = call] /\ p \in DOMAIN calls
  BY DEF Enter, TypeOK
<1>2. \A q \in Processes : At(q, "hashed")' => q # p /\ At(q, "hashed") /\ calls'[q] = calls[q]
  BY <1>1 DEF At, TypeOK
<1>3. QED
  BY <1>2 DEF OneSigner, Recorded, intent_id

\* The three are kept together: what is signed next is not on record under its request, profile
\* and contract, and its request is for no other contract.
LEMMA SignedOnceKept ==
  ASSUME TypeOK, SignedOnce, [Next]_vars
  PROVE  SignedOnce'
<1> USE DEF SignedOnce, TypeOK
<1>1. ASSUME UNCHANGED <<files, used, calls, signed>>
      PROVE  SignedOnce'
  <2>1. Requested' = Requested
    BY <1>1 DEF Requested
  <2>2. QED
    BY <1>1, <2>1, NothingDrawn, SameSigner DEF OneDealPerIdentity
<1>2. ASSUME NEW f \in Files, NEW request \in Requests, NEW profiles \in Offers,
             NEW live \in BOOLEAN, policy(f, request, profiles, live)
      PROVE  SignedOnce'
  <2>1. PICK block : files' = [files EXCEPT ![f] = [request |-> request, contract |-> deployed,
                                                    block |-> block, profiles |-> profiles]]
    BY <1>2 DEF policy
  <2>2. request \notin used /\ used' = used \cup {request} /\ UNCHANGED <<calls, signed>>
    BY <1>2 DEF policy
  <2>3. Requested' \subseteq Requested \cup {<<request, deployed>>}
    BY <2>1, <2>2 DEF Requested
  <2>4. QED
    BY <2>2, <2>3, OneDrawn, SameSigner DEF OneDealPerIdentity
<1>3. ASSUME NEW f \in Files, NEW g \in Files, NEW request \in Requests,
             rebind_policy(f, g, request)
      PROVE  SignedOnce'
  <2>1. /\ files[f] \in File
        /\ files' = [files EXCEPT ![g] = [files[f] EXCEPT !.contract = deployed,
                                                          !.request = request]]
    BY <1>3 DEF rebind_policy
  <2>2. request \notin used /\ used' = used \cup {request} /\ UNCHANGED <<calls, signed>>
    BY <1>3 DEF rebind_policy
  <2>3. Requested' \subseteq Requested \cup {<<request, deployed>>}
    BY <2>1, <2>2 DEF Requested, File
  <2>4. QED
    BY <2>2, <2>3, OneDrawn, SameSigner DEF OneDealPerIdentity
<1>4. ASSUME NEW p \in Processes, NEW f \in Files, NEW profile \in Profiles,
             NEW window \in Windows, load_policy(p, f, profile, window)
      PROVE  SignedOnce'
  <2> DEFINE validated == [request |-> files[f].request, profile |-> profile,
                           contract |-> files[f].contract, block |-> files[f].block,
                           terms |-> files[f].profiles[profile]]
             call == [step |-> "loaded", policy |-> validated, window |-> window,
                      accept_by |-> 0]
  <2>1. files[f] # NoFile /\ Enter(p, call) /\ UNCHANGED <<files, used, signed>>
    BY <1>4 DEF load_policy
  <2>2. /\ call.step # "hashed" /\ call.policy.request = files[f].request
        /\ call.policy.contract = files[f].contract
    OBVIOUS
  <2> HIDE DEF call
  <2>3. calls' = [calls EXCEPT ![p] = call]
    BY <2>1 DEF Enter
  <2>4. Requested' \subseteq Requested
    BY <2>1, <2>2, <2>3 DEF Requested
  <2>5. QED
    BY <2>1, <2>2, <2>4, NothingDrawn, StepOutsideLock DEF OneDealPerIdentity
<1>5. ASSUME NEW p \in Processes, calls[p] # Idle, NEW call, call.step # "hashed",
             call.policy.request = calls[p].policy.request,
             call.policy.contract = calls[p].policy.contract,
             Enter(p, call), UNCHANGED <<files, used, signed>>
      PROVE  SignedOnce'
  <2>1. calls' = [calls EXCEPT ![p] = call]
    BY <1>5 DEF Enter
  <2>2. Requested' \subseteq Requested
    BY <1>5, <2>1 DEF Requested
  <2>3. QED
    BY <1>5, <2>2, NothingDrawn, StepOutsideLock DEF OneDealPerIdentity
<1>6. ASSUME NEW p \in Processes, _sign_under_memory(p)
      PROVE  SignedOnce'
  <2>1. PICK final \in observe_chain_time :
          Enter(p, [calls[p] EXCEPT !.step = "hashed",
                                    !.accept_by = final + calls[p].window])
    BY <1>6 DEF _sign_under_memory
  <2>2. calls[p] \in Call /\ calls[p] # Idle
    BY <1>6 DEF _sign_under_memory, At, Idle
  <2> DEFINE call == [calls[p] EXCEPT !.step = "hashed", !.accept_by = final + calls[p].window]
  <2>3. call.policy = calls[p].policy
    BY <2>2 DEF Call
  <2> HIDE DEF call
  <2>4. calls' = [calls EXCEPT ![p] = call] /\ UNCHANGED <<files, used, signed>>
    BY <1>6, <2>1 DEF _sign_under_memory, Enter, call
  <2>5. Requested' \subseteq Requested
    BY <2>2, <2>3, <2>4 DEF Requested
  <2>6. OneSigner'
    <3>1. \A q \in Processes : ~At(q, "hashed")
      BY <1>6 DEF _sign_under_memory, Locked
    <3>2. \A q \in Processes : At(q, "hashed")' => q = p
      BY <2>4, <3>1 DEF At
    <3>3. ~Recorded(calls[p].policy) /\ calls'[p].policy = calls[p].policy
      BY <1>6, <2>3, <2>4 DEF _sign_under_memory
    <3>4. QED
      BY <2>4, <3>2, <3>3 DEF OneSigner, Recorded, intent_id
  <2>7. QED
    BY <2>4, <2>5, <2>6, NothingDrawn DEF OneDealPerIdentity
<1>7. ASSUME NEW p \in Processes, sign_transaction(p)
      PROVE  SignedOnce'
  <2> DEFINE chosen == calls[p].policy
             deal == [request |-> chosen.request, profile |-> chosen.profile,
                      contract |-> chosen.contract, terms |-> chosen.terms,
                      accept_by |-> calls[p].accept_by, at |-> now, outcome |-> "pending"]
  <2>1. /\ At(p, "hashed") /\ calls[p] # Idle
        /\ signed' = signed \cup {deal} /\ Enter(p, Idle) /\ UNCHANGED <<files, used>>
    BY <1>7 DEF sign_transaction, At, Idle
  <2>2. intent_id(deal) = intent_id(chosen) /\ deal.request = chosen.request
        /\ deal.contract = chosen.contract
    BY DEF intent_id
  <2> HIDE DEF deal
  <2>3. calls' = [calls EXCEPT ![p] = Idle]
    BY <2>1 DEF Enter
  <2>4. <<chosen.request, chosen.contract>> \in Requested
    BY <2>1 DEF Requested
  <2>5. Requested' \subseteq Requested
    BY <2>1, <2>2, <2>3, <2>4 DEF Requested
  <2>6. OneSigner'
    <3>1. \A q \in Processes : ~At(q, "hashed")'
      BY <2>1, <2>3 DEF OneSigner, At, Idle
    <3>2. QED
      BY <3>1 DEF OneSigner
  <2>7. \A s \in signed : intent_id(s) # intent_id(chosen)
    <3> SUFFICES ASSUME NEW s \in signed, intent_id(s) = intent_id(chosen)
                 PROVE  FALSE
      OBVIOUS
    <3>1. <<s.request, s.contract>> \in Requested
      BY DEF Requested
    <3>2. s.request = chosen.request
      BY DEF intent_id
    <3>3. s.contract = chosen.contract
      BY <2>4, <3>1, <3>2 DEF OneContractPerRequest
    <3>4. QED
      BY <2>1, <3>3 DEF OneSigner, Recorded
  <2>8. OneDealPerIdentity'
    BY <2>1, <2>2, <2>7 DEF OneDealPerIdentity, intent_id
  <2>9. QED
    BY <2>1, <2>5, <2>6, <2>8, NothingDrawn
<1>8. ASSUME NEW p \in Processes, abandon(p)
      PROVE  SignedOnce'
  <2>1. Enter(p, Idle) /\ Idle.step # "hashed" /\ UNCHANGED <<files, used, signed>>
    BY <1>8 DEF abandon, Idle
  <2>2. calls' = [calls EXCEPT ![p] = Idle]
    BY <2>1 DEF Enter
  <2>3. Requested' \subseteq Requested
    BY <2>1, <2>2 DEF Requested
  <2>4. QED
    BY <2>1, <2>3, NothingDrawn, StepOutsideLock DEF OneDealPerIdentity
<1>9. ASSUME NEW s \in signed, Mine(s)
      PROVE  SignedOnce'
  <2>1. PICK outcome : signed' = (signed \ {s}) \cup {[s EXCEPT !.outcome = outcome]}
    BY <1>9 DEF Mine
  <2> DEFINE t == [s EXCEPT !.outcome = outcome]
  <2>2. t.request = s.request /\ t.contract = s.contract /\ intent_id(t) = intent_id(s)
    BY DEF Deal, intent_id
  <2> HIDE DEF t
  <2>3. signed' = (signed \ {s}) \cup {t} /\ UNCHANGED <<files, used, calls>>
    BY <1>9, <2>1 DEF Mine, t
  <2>4. Requested' \subseteq Requested
    BY <2>2, <2>3 DEF Requested
  <2>5. OneSigner'
    BY <2>2, <2>3 DEF OneSigner, At, Recorded
  <2>6. OneDealPerIdentity'
    BY <2>2, <2>3 DEF OneDealPerIdentity, intent_id
  <2>7. QED
    BY <2>3, <2>4, <2>5, <2>6, NothingDrawn
<1>10. ASSUME NEW p \in Processes, _require_observation_happened(p) \/ estimate_gas(p)
       PROVE  SignedOnce'
  <2>1. CASE _require_observation_happened(p)
    <3>1. calls[p] # Idle /\ calls[p] \in Call
      BY <2>1 DEF _require_observation_happened, At, Idle
    <3> DEFINE call == [calls[p] EXCEPT !.step = "checked", !.policy.block = 0]
    <3>2. Enter(p, call) /\ UNCHANGED <<files, used, signed>>
      BY <2>1 DEF _require_observation_happened
    <3>3. /\ call.step # "hashed" /\ call.policy.request = calls[p].policy.request
          /\ call.policy.contract = calls[p].policy.contract
      BY <3>1 DEF Call, ValidatedPolicy
    <3> HIDE DEF call
    <3>4. QED
      BY <1>5, <3>1, <3>2, <3>3
  <2>2. CASE estimate_gas(p)
    <3>1. calls[p] # Idle /\ calls[p] \in Call
      BY <2>2 DEF estimate_gas, At, Idle
    <3> DEFINE call == [calls[p] EXCEPT !.step = "estimated"]
    <3>2. Enter(p, call) /\ UNCHANGED <<files, used, signed>>
      BY <2>2 DEF estimate_gas
    <3>3. call.step # "hashed" /\ call.policy = calls[p].policy
      BY <3>1 DEF Call
    <3> HIDE DEF call
    <3>4. QED
      BY <1>5, <3>1, <3>2, <3>3
  <2>3. QED
    BY <1>10, <2>1, <2>2
<1>11. CASE Tick \/ Redeploy
  BY <1>1, <1>11 DEF Tick, Redeploy
<1>12. CASE UNCHANGED vars
  BY <1>1, <1>12 DEF vars
<1>13. QED
  BY <1>2, <1>3, <1>4, <1>6, <1>7, <1>8, <1>9, <1>10, <1>11, <1>12 DEF Next, create_deal

\* One request and profile are signed at most once, on whichever contract: for any number of
\* commands, files, profiles and deployments, and whatever is abandoned between any two steps.
THEOREM IdentitySignedOnce == Spec => []OneDealPerIdentity
<1>1. Init => SignedOnce
  <2> SUFFICES ASSUME Init
               PROVE  SignedOnce
    OBVIOUS
  <2>1. Requested = {}
    BY DEF Init, Requested
  <2>2. \A p \in Processes : ~At(p, "hashed")
    BY DEF Init, At, Idle
  <2>3. QED
    BY <2>1, <2>2 DEF Init, SignedOnce, OneContractPerRequest, OneSigner, OneDealPerIdentity
<1>2. TypeOK /\ SignedOnce /\ [Next]_vars => SignedOnce'
  BY SignedOnceKept
<1>3. SignedOnce => OneDealPerIdentity
  BY DEF SignedOnce
<1>4. QED
  BY <1>1, <1>2, <1>3, TypeCorrect, PTL DEF Spec
=============================================================================
