---------------------------- MODULE WrasseEscrow ----------------------------
(***************************************************************************)
(* contracts/src/WrasseEscrow.sol: a bilateral escrow.  Each public        *)
(* function is one action, taken by the account msg.sender.  A call that   *)
(* reverts changes nothing, so its guard is the conjunction of the         *)
(* conditions under which the function does not revert.                    *)
(*                                                                         *)
(* withdraw is the contract's only external call.  When the recipient is   *)
(* a contract, its code runs with the lock held and may call back; if it   *)
(* refuses the money, the EVM undoes the whole transaction, the nested     *)
(* calls included.  That interleaving is modelled by splitting withdraw at *)
(* its call: `saved` is the world the transaction started from, to which   *)
(* a refusal returns.                                                      *)
(***************************************************************************)
EXTENDS Money

CONSTANTS
  Accounts,      \* the addresses other than address(0)
  Contracts,     \* those with code, which may call back while they are paid
  NoAccount,     \* address(0)
  NoCall,        \* no transaction is in flight
  Values,        \* the amounts msg.value ranges over
  Bps,           \* the bond rates offered, in basis points
  MAX_DURATION,  \* 30 days in the contract
  MaxDeals,      \* bound: deals created
  LastOffer,     \* bound: the last timestamp at which a deal is created
  MaxTime        \* bound: the last timestamp

ASSUME ContractsAssumption == Contracts \subseteq Accounts
ASSUME AccountsAssumption == IsFiniteSet(Accounts) /\ NoAccount \notin Accounts
ASSUME ValuesAssumption == Values \subseteq Nat /\ Bps \subseteq Nat
ASSUME BoundsAssumption ==
  /\ MAX_DURATION \in Nat \ {0}
  /\ MaxDeals \in Nat
  /\ LastOffer \in Nat
  /\ MaxTime \in Nat

VARIABLES
  deals,         \* the mapping from deal ids to deals
  nextDealId,
  withdrawable,  \* settlement proceeds assigned to an address, not yet collected
  balance,       \* the wei the contract owns
  locked,        \* _locked: 1, or 2 while a guarded function runs
  now,           \* block.timestamp
  saved          \* the world before the withdrawal in flight, and its caller

vars == <<deals, nextDealId, withdrawable, balance, locked, now, saved>>

BPS_DENOMINATOR == 10000
MAX_PROVIDER_BOND_BPS == 10000

DealIds == 0 .. MaxDeals - 1
States == {"Offered", "Accepted", "Delivered", "Released", "TimedOut", "Cancelled"}

Deal ==
  [buyer : Accounts \cup {NoAccount}, provider : Accounts \cup {NoAccount},
   price : Nat, providerBond : Nat, acceptBy : Nat, acceptedAt : Nat,
   serviceWindow : Nat, deadline : Nat, payoutDelay : Nat,
   payoutAvailableAt : Nat, state : States]

\* What the mapping holds at an id no deal was created under.
UnsetDeal ==
  [buyer |-> NoAccount, provider |-> NoAccount, price |-> 0, providerBond |-> 0,
   acceptBy |-> 0, acceptedAt |-> 0, serviceWindow |-> 0, deadline |-> 0,
   payoutDelay |-> 0, payoutAvailableAt |-> 0, state |-> "Offered"]

World ==
  [caller : Accounts, deals : [DealIds -> Deal], nextDealId : Nat,
   withdrawable : [Accounts -> Nat], balance : Nat]

Init ==
  /\ deals = [d \in DealIds |-> UnsetDeal]
  /\ nextDealId = 0
  /\ withdrawable = [a \in Accounts |-> 0]
  /\ balance = 0
  /\ locked = 1
  /\ now = 1
  /\ saved = NoCall

-----------------------------------------------------------------------------
\* While a recipient's code runs, only contracts can be msg.sender.
CanCall(sender) == locked = 1 \/ sender \in Contracts

\* The modifier nonReentrant, on the functions that make no external call: they
\* take the lock and release it again within the call.
nonReentrant == locked = 1

_requireState(d, expected) == deals[d].state = expected

_credit(recipient, amount) ==
  withdrawable' = [withdrawable EXCEPT ![recipient] = @ + amount]

createDeal(sender, value, provider, bps, acceptBy, serviceWindow, payoutDelay) ==
  LET providerBond == (value * bps) \div BPS_DENOMINATOR IN
  /\ nextDealId < MaxDeals /\ now <= LastOffer      \* bounds
  /\ CanCall(sender)
  /\ provider # NoAccount /\ provider # sender
  /\ value # 0 /\ bps <= MAX_PROVIDER_BOND_BPS
  /\ acceptBy > now /\ acceptBy - now <= MAX_DURATION
  /\ serviceWindow # 0 /\ serviceWindow <= MAX_DURATION
  /\ payoutDelay # 0 /\ payoutDelay <= MAX_DURATION
  /\ ~(bps > 0 /\ providerBond = 0)
  /\ deals' = [deals EXCEPT ![nextDealId] =
       [buyer |-> sender, provider |-> provider, price |-> value,
        providerBond |-> providerBond, acceptBy |-> acceptBy, acceptedAt |-> 0,
        serviceWindow |-> serviceWindow, deadline |-> 0,
        payoutDelay |-> payoutDelay, payoutAvailableAt |-> 0,
        state |-> "Offered"]]
  /\ nextDealId' = nextDealId + 1
  /\ balance' = balance + value
  /\ UNCHANGED <<withdrawable, locked, now, saved>>

\* Variant with a fault: an offer closes one second early.
acceptDeal_ClosesEarly(d, sender, value) ==
  /\ CanCall(sender)
  /\ _requireState(d, "Offered")
  /\ sender = deals[d].provider
  /\ now < deals[d].acceptBy
  /\ value = deals[d].providerBond
  /\ deals' = [deals EXCEPT ![d] =
       [@ EXCEPT !.acceptedAt = now, !.deadline = now + deals[d].serviceWindow,
                 !.state = "Accepted"]]
  /\ balance' = balance + value
  /\ UNCHANGED <<nextDealId, withdrawable, locked, now, saved>>

acceptDeal(d, sender, value) ==
  /\ CanCall(sender)
  /\ _requireState(d, "Offered")
  /\ sender = deals[d].provider
  /\ now <= deals[d].acceptBy
  /\ value = deals[d].providerBond
  /\ deals' = [deals EXCEPT ![d] =
       [@ EXCEPT !.acceptedAt = now, !.deadline = now + deals[d].serviceWindow,
                 !.state = "Accepted"]]
  /\ balance' = balance + value
  /\ UNCHANGED <<nextDealId, withdrawable, locked, now, saved>>

\* Variant with a fault: a cancellation also refunds a bond nobody posted.
cancelUnaccepted_RefundsBond(d, sender) ==
  /\ nonReentrant
  /\ _requireState(d, "Offered")
  /\ sender = deals[d].buyer
  /\ now > deals[d].acceptBy
  /\ deals' = [deals EXCEPT ![d].state = "Cancelled"]
  /\ _credit(deals[d].buyer, deals[d].price + deals[d].providerBond)
  /\ UNCHANGED <<nextDealId, balance, locked, now, saved>>

\* Variant with a fault: the comparison is the wrong way round.
cancelUnaccepted_WhileOpen(d, sender) ==
  /\ nonReentrant
  /\ _requireState(d, "Offered")
  /\ sender = deals[d].buyer
  /\ now < deals[d].acceptBy
  /\ deals' = [deals EXCEPT ![d].state = "Cancelled"]
  /\ _credit(deals[d].buyer, deals[d].price)
  /\ UNCHANGED <<nextDealId, balance, locked, now, saved>>

cancelUnaccepted(d, sender) ==
  /\ nonReentrant
  /\ _requireState(d, "Offered")
  /\ sender = deals[d].buyer
  /\ now > deals[d].acceptBy
  /\ deals' = [deals EXCEPT ![d].state = "Cancelled"]
  /\ _credit(deals[d].buyer, deals[d].price)
  /\ UNCHANGED <<nextDealId, balance, locked, now, saved>>

\* Variant with a fault: a delivery is accepted after the deadline.
markDelivered_Late(d, sender) ==
  /\ CanCall(sender)
  /\ _requireState(d, "Accepted")
  /\ sender = deals[d].provider
  /\ deals' = [deals EXCEPT ![d] =
       [@ EXCEPT !.payoutAvailableAt = now + deals[d].payoutDelay,
                 !.state = "Delivered"]]
  /\ UNCHANGED <<nextDealId, withdrawable, balance, locked, now, saved>>

markDelivered(d, sender) ==
  /\ CanCall(sender)
  /\ _requireState(d, "Accepted")
  /\ sender = deals[d].provider
  /\ now <= deals[d].deadline
  /\ deals' = [deals EXCEPT ![d] =
       [@ EXCEPT !.payoutAvailableAt = now + deals[d].payoutDelay,
                 !.state = "Delivered"]]
  /\ UNCHANGED <<nextDealId, withdrawable, balance, locked, now, saved>>

\* Variant with a fault: a settlement can be re-entered from a withdrawal.
releaseDeal_Reentrant(d, sender) ==
  /\ CanCall(sender)
  /\ _requireState(d, "Delivered")
  /\ sender = deals[d].buyer
  /\ deals' = [deals EXCEPT ![d].state = "Released"]
  /\ _credit(deals[d].provider, deals[d].price + deals[d].providerBond)
  /\ UNCHANGED <<nextDealId, balance, locked, now, saved>>

releaseDeal(d, sender) ==
  /\ nonReentrant
  /\ _requireState(d, "Delivered")
  /\ sender = deals[d].buyer
  /\ deals' = [deals EXCEPT ![d].state = "Released"]
  /\ _credit(deals[d].provider, deals[d].price + deals[d].providerBond)
  /\ UNCHANGED <<nextDealId, balance, locked, now, saved>>

claimPayment(d, sender) ==
  /\ nonReentrant
  /\ _requireState(d, "Delivered")
  /\ sender = deals[d].provider
  /\ now >= deals[d].payoutAvailableAt
  /\ deals' = [deals EXCEPT ![d].state = "Released"]
  /\ _credit(deals[d].provider, deals[d].price + deals[d].providerBond)
  /\ UNCHANGED <<nextDealId, balance, locked, now, saved>>

\* Variant with a fault: the state is not checked.
claimTimeout_AnyState(d, sender) ==
  /\ nonReentrant
  /\ sender = deals[d].buyer
  /\ now > deals[d].deadline
  /\ deals' = [deals EXCEPT ![d].state = "TimedOut"]
  /\ _credit(deals[d].buyer, deals[d].price + deals[d].providerBond)
  /\ UNCHANGED <<nextDealId, balance, locked, now, saved>>

claimTimeout(d, sender) ==
  /\ nonReentrant
  /\ _requireState(d, "Accepted")
  /\ sender = deals[d].buyer
  /\ now > deals[d].deadline
  /\ deals' = [deals EXCEPT ![d].state = "TimedOut"]
  /\ _credit(deals[d].buyer, deals[d].price + deals[d].providerBond)
  /\ UNCHANGED <<nextDealId, balance, locked, now, saved>>

\* Variant with a fault: the destination is always the caller.
withdraw_ToCaller(sender, recipient) ==
  /\ nonReentrant
  /\ recipient = sender
  /\ withdrawable[sender] # 0
  /\ withdrawable' = [withdrawable EXCEPT ![sender] = 0]
  /\ balance' = balance - withdrawable[sender]
  /\ IF recipient \in Contracts
     THEN /\ locked' = 2
          /\ saved' = [caller |-> sender, deals |-> deals, nextDealId |-> nextDealId,
                       withdrawable |-> withdrawable, balance |-> balance]
     ELSE UNCHANGED <<locked, saved>>
  /\ UNCHANGED <<deals, nextDealId, now>>

\* The body of withdraw up to and including the transfer of the value.  Paying a
\* wallet ends the call at once; paying a contract hands control to its code.
withdraw(sender, recipient) ==
  /\ nonReentrant
  /\ recipient # NoAccount
  /\ withdrawable[sender] # 0
  /\ withdrawable' = [withdrawable EXCEPT ![sender] = 0]
  /\ balance' = balance - withdrawable[sender]
  /\ IF recipient \in Contracts
     THEN /\ locked' = 2
          /\ saved' = [caller |-> sender, deals |-> deals, nextDealId |-> nextDealId,
                       withdrawable |-> withdrawable, balance |-> balance]
     ELSE UNCHANGED <<locked, saved>>
  /\ UNCHANGED <<deals, nextDealId, now>>

\* The recipient's code returns: the transaction, nested calls included, stands.
withdrawReturns ==
  /\ locked = 2
  /\ locked' = 1
  /\ saved' = NoCall
  /\ UNCHANGED <<deals, nextDealId, withdrawable, balance, now>>

\* The recipient's code fails: TransferFailed reverts the whole transaction.
withdrawReverts ==
  /\ locked = 2
  /\ deals' = saved.deals
  /\ nextDealId' = saved.nextDealId
  /\ withdrawable' = saved.withdrawable
  /\ balance' = saved.balance
  /\ locked' = 1
  /\ saved' = NoCall
  /\ UNCHANGED now

\* A block is mined between two transactions.
Tick ==
  /\ locked = 1
  /\ now < MaxTime
  /\ now' = now + 1
  /\ UNCHANGED <<deals, nextDealId, withdrawable, balance, locked, saved>>

Create ==
  \E sender \in Accounts, value \in Values, provider \in Accounts \cup {NoAccount},
     bps \in Bps, acceptBy \in now .. now + MAX_DURATION + 1,
     serviceWindow, payoutDelay \in 0 .. MAX_DURATION + 1 :
    createDeal(sender, value, provider, bps, acceptBy, serviceWindow, payoutDelay)

Next ==
  \/ Create
  \/ \E d \in DealIds, sender \in Accounts, value \in Values : acceptDeal(d, sender, value)
  \/ \E d \in DealIds, sender \in Accounts : cancelUnaccepted(d, sender)
  \/ \E d \in DealIds, sender \in Accounts : markDelivered(d, sender)
  \/ \E d \in DealIds, sender \in Accounts : releaseDeal(d, sender)
  \/ \E d \in DealIds, sender \in Accounts : claimPayment(d, sender)
  \/ \E d \in DealIds, sender \in Accounts : claimTimeout(d, sender)
  \/ \E sender \in Accounts, recipient \in Accounts \cup {NoAccount} : withdraw(sender, recipient)
  \/ withdrawReturns
  \/ withdrawReverts
  \/ Tick

Spec == Init /\ [][Next]_vars

-----------------------------------------------------------------------------
\* Type correctness: every field keeps its type, and the lock is held exactly
\* while a recipient's code runs, with a world to go back to.
TypeOK ==
  /\ deals \in [DealIds -> Deal]
  /\ nextDealId \in Nat
  /\ withdrawable \in [Accounts -> Nat]
  /\ balance \in Nat
  /\ now \in Nat
  /\ locked \in {1, 2}
  /\ IF locked = 1 THEN saved = NoCall ELSE saved \in World

Created(deal) == deal.buyer # NoAccount

Live(deal) == Created(deal) /\ deal.state \in {"Offered", "Accepted", "Delivered"}

\* What the contract holds for a deal: the price from creation, the bond from
\* acceptance, nothing once it is settled.
Held(deal) ==
  IF ~Live(deal) THEN 0
  ELSE IF deal.state = "Offered" THEN deal.price
  ELSE deal.price + deal.providerBond

HeldBy(ds) == [d \in DealIds |-> Held(ds[d])]

\* The contract owns exactly what its live deals hold and what it owes to
\* accounts, at every moment, also while a recipient's code runs.
Solvency == balance = Total(HeldBy(deals), DealIds) + Total(withdrawable, Accounts)

\* A world whose deals were created in order, and whose money is all accounted for.
WorldOK(ds, n, credits, funds) ==
  /\ \A d \in DealIds : Created(ds[d]) <=> d < n
  /\ \A d \in DealIds : ds[d].provider # NoAccount <=> Created(ds[d])
  /\ funds = Total(HeldBy(ds), DealIds) + Total(credits, Accounts)

\* The inductive strengthening of Solvency: the world is sound, and so is the world
\* that a refusal would bring back.
Accounted ==
  /\ TypeOK
  /\ WorldOK(deals, nextDealId, withdrawable, balance)
  /\ locked = 2 =>
       WorldOK(saved.deals, saved.nextDealId, saved.withdrawable, saved.balance)

\* A settled deal's outcome is the one its parties earned: cancelled only if it
\* was never accepted in time, timed out only if the deadline passed without a
\* delivery, paid only if accepted by acceptBy and delivered by the deadline.
OutcomeEarned ==
  \A d \in DealIds :
    LET deal == deals[d]
        acceptedInTime == /\ 0 < deal.acceptedAt
                          /\ deal.acceptedAt <= deal.acceptBy
                          /\ deal.deadline = deal.acceptedAt + deal.serviceWindow
        deliveredInTime ==
          LET deliveredAt == deal.payoutAvailableAt - deal.payoutDelay IN
          deal.acceptedAt <= deliveredAt /\ deliveredAt <= deal.deadline
    IN  Created(deal) =>
          CASE deal.state = "Offered" -> deal.acceptedAt = 0
            [] deal.state = "Cancelled" -> deal.acceptedAt = 0 /\ now > deal.acceptBy
            [] deal.state = "Accepted" -> acceptedInTime /\ deal.payoutAvailableAt = 0
            [] deal.state = "TimedOut" ->
                 acceptedInTime /\ deal.payoutAvailableAt = 0 /\ now > deal.deadline
            [] deal.state \in {"Delivered", "Released"} -> acceptedInTime /\ deliveredInTime

\* The parties hand a deal over to each other with no gap and no overlap: at any
\* timestamp either the provider can still accept an offer or the buyer can
\* cancel it, and either it can still deliver or the buyer can claim the timeout.
HandOff ==
  \A d \in DealIds :
    LET deal == deals[d] IN
    (locked = 1 /\ Created(deal)) =>
      /\ deal.state = "Offered" =>
           (ENABLED acceptDeal(d, deal.provider, deal.providerBond)
              <=> ~ENABLED cancelUnaccepted(d, deal.buyer))
      /\ deal.state = "Accepted" =>
           (ENABLED markDelivered(d, deal.provider)
              <=> ~ENABLED claimTimeout(d, deal.buyer))

\* The deals and the credits that stand if the call in flight is undone.
StandingDeals == IF locked = 1 THEN deals ELSE saved.deals
StandingCredit == IF locked = 1 THEN withdrawable ELSE saved.withdrawable

Terms(deal) ==
  <<deal.buyer, deal.provider, deal.price, deal.providerBond, deal.acceptBy,
    deal.serviceWindow, deal.payoutDelay>>

\* What a step may not do to a deal that stands.
TermsKept ==
  \A d \in DealIds :
    LET old == StandingDeals[d]
        new == StandingDeals'[d]
    IN  Created(old) =>
          /\ Terms(new) = Terms(old)
          /\ old.acceptedAt # 0 =>
               new.acceptedAt = old.acceptedAt /\ new.deadline = old.deadline
          /\ old.payoutAvailableAt # 0 => new.payoutAvailableAt = old.payoutAvailableAt
          /\ ~Live(old) => new = old

\* Once a deal stands, its terms never change, whatever is called, re-entered or
\* reverted, its dates are written once, and its terminal state is final.
TermsFixed == [][TermsKept]_vars

Stage(deal) == IF ~Created(deal) THEN "unused" ELSE IF Live(deal) THEN "open" ELSE "closed"

Promise == INSTANCE EscrowPromise WITH
  Deals <- DealIds,
  stage <- [d \in DealIds |-> Stage(StandingDeals[d])],
  parties <- [d \in DealIds |-> {StandingDeals[d].buyer, StandingDeals[d].provider} \ {NoAccount}],
  pot <- HeldBy(StandingDeals),
  credit <- StandingCredit

\* The contract keeps its promise: each transaction deposits into open deals,
\* pays one deal's whole pot to one of its parties, once, or pays an account its
\* own credit, and a refused payment leaves every claim as it was.
KeepsPromise == Promise!Spec
-----------------------------------------------------------------------------
\* Time passes, a recipient's code ends, and a party that keeps submitting the
\* call it is entitled to gets it mined between other transactions.  The
\* executor's recovery submits these calls for every deal it opened.  What a
\* recipient does with its payment, and whether anybody accepts, delivers or
\* releases, is left open.
Fairness ==
  /\ WF_vars(Tick)
  /\ WF_vars(withdrawReturns \/ withdrawReverts)
  /\ \A d \in DealIds :
       /\ SF_vars(\E sender \in Accounts : cancelUnaccepted(d, sender))
       /\ SF_vars(\E sender \in Accounts : claimTimeout(d, sender))
       /\ SF_vars(\E sender \in Accounts : claimPayment(d, sender))
  /\ \A a \in Accounts :
       SF_vars(\E recipient \in Accounts \ Contracts : withdraw(a, recipient))

FairSpec == Spec /\ Fairness

\* No deal's money is stuck: every deal is settled in the end, whatever the other
\* party does, and even if some recipient refuses its payment for ever.
DealsEnd == \A d \in DealIds : Live(deals[d]) ~> (locked = 1 /\ ~Live(deals[d]))

\* Every credit can be collected: an account that nominates a wallet is paid.
EveryoneIsPaid ==
  \A a \in Accounts : withdrawable[a] > 0 ~> (locked = 1 /\ withdrawable[a] = 0)
=============================================================================
