------------------------- MODULE WrasseEscrowProofs -------------------------
(***************************************************************************)
(* What the escrow guarantees for any accounts, amounts, durations and     *)
(* bounds: first that it is solvent, then what it does to a deal over its  *)
(* whole life.                                                             *)
(*                                                                         *)
(* Solvency is not inductive: a settlement preserves it only because the   *)
(* deal it pays was created, a creation only because its id is unused, and *)
(* a refusal only because the world it brings back was solvent.  Accounted *)
(* says all of it.                                                         *)
(*                                                                         *)
(* An outcome is the one the dates earned, terms and dates are written     *)
(* once, and the contract implements EscrowPromise, although a recipient's *)
(* code runs in the middle of a withdrawal and may undo what it did.  A    *)
(* call does one of a few things to the deals: calls that move no credit   *)
(* only let deals grow, a settlement closes one, and a withdrawal touches  *)
(* none.  While a recipient's code runs only calls of the first kind get   *)
(* through, so that when it returns every deal has grown from the one that *)
(* was saved, and the only credit that moved is the caller's: Promised.    *)
(***************************************************************************)
EXTENDS WrasseEscrow, FunctionTheorems, FiniteSetTheorems, TLAPS

-----------------------------------------------------------------------------
\* Totals: a total is a natural number, nothing held totals zero, and changing one holder's
\* amount changes the total by as much.

\* One holder's wei are as many as the amount it holds.
LEMMA WeiCount ==
  ASSUME NEW amount, NEW i, amount[i] \in Nat
  PROVE  /\ IsFiniteSet(Wei(amount, i))
         /\ Cardinality(Wei(amount, i)) = amount[i]
<1>1. IsFiniteSet({i}) /\ Cardinality({i}) = 1
  BY FS_Singleton
<1>2. IsFiniteSet(1 .. amount[i]) /\ Cardinality(1 .. amount[i]) = amount[i]
  BY FS_Interval
<1>3. /\ IsFiniteSet({i} \X (1 .. amount[i]))
      /\ Cardinality({i} \X (1 .. amount[i])) = Cardinality({i}) * Cardinality(1 .. amount[i])
  BY <1>1, <1>2, FS_Product
<1>4. 1 * amount[i] = amount[i]
  OBVIOUS
<1>5. QED
  BY <1>1, <1>2, <1>3, <1>4 DEF Wei

\* The wei of a finite set of holders are finitely many.
LEMMA PurseFinite ==
  ASSUME NEW S, IsFiniteSet(S), NEW amount, \A i \in S : amount[i] \in Nat
  PROVE  /\ IsFiniteSet(Purse(amount, S))
         /\ Total(amount, S) \in Nat
<1> DEFINE shares == {Wei(amount, i) : i \in S}
           share  == [i \in S |-> Wei(amount, i)]
<1>1. share \in Surjection(S, shares)
  BY DEF Surjection
<1>2. IsFiniteSet(shares)
  BY <1>1, FS_Surjection
<1>3. \A T \in shares : IsFiniteSet(T)
  BY WeiCount
<1>4. IsFiniteSet(UNION shares)
  BY <1>2, <1>3, FS_UNION
<1>5. QED
  BY <1>4, FS_CardinalityType DEF Purse, Total

\* A holder's share splits off a total.
LEMMA TotalSplit ==
  ASSUME NEW S, IsFiniteSet(S), NEW amount, \A i \in S : amount[i] \in Nat,
         NEW d \in S
  PROVE  Total(amount, S) = Total(amount, S \ {d}) + amount[d]
<1> DEFINE rest == Purse(amount, S \ {d})
<1>1. IsFiniteSet(rest) /\ Cardinality(rest) \in Nat
  <2>1. IsFiniteSet(S \ {d})
    BY FS_Difference
  <2>2. QED
    BY <2>1, PurseFinite DEF Total
<1>2. IsFiniteSet(Wei(amount, d)) /\ Cardinality(Wei(amount, d)) = amount[d]
  BY WeiCount
<1>3. Purse(amount, S) = rest \cup Wei(amount, d)
  BY DEF Purse
<1>4. rest \cap Wei(amount, d) = {}
  BY DEF Purse, Wei
<1>5. Cardinality(rest \cap Wei(amount, d)) = 0
  BY <1>4, FS_EmptySet
<1>6. Cardinality(rest \cup Wei(amount, d))
        = Cardinality(rest) + Cardinality(Wei(amount, d)) - Cardinality(rest \cap Wei(amount, d))
  <2> HIDE DEF rest
  <2> QED BY <1>1, <1>2, FS_Union
<1>7. Total(amount, S) = Cardinality(rest) + amount[d] - 0
  BY <1>2, <1>3, <1>5, <1>6 DEF Total
<1>8. QED
  <2>1. Total(amount, S \ {d}) = Cardinality(rest)
    BY DEF Total
  <2> HIDE DEF rest
  <2> QED BY <1>1, <1>7, <2>1

\* Holders that keep their amounts keep their total.
LEMMA TotalSame ==
  ASSUME NEW S, NEW f, NEW g, \A i \in S : f[i] = g[i]
  PROVE  Total(f, S) = Total(g, S)
<1>1. \A i \in S : Wei(f, i) = Wei(g, i)
  BY DEF Wei
<1>2. Purse(f, S) = Purse(g, S)
  BY <1>1 DEF Purse
<1>3. QED
  BY <1>2 DEF Total

\* Changing one holder's amount changes the total by the difference.
LEMMA TotalChange ==
  ASSUME NEW S, IsFiniteSet(S), NEW d \in S, NEW f, NEW g,
         \A i \in S : f[i] \in Nat /\ g[i] \in Nat,
         \A i \in S \ {d} : f[i] = g[i]
  PROVE  Total(g, S) = Total(f, S) - f[d] + g[d]
<1>1. Total(f, S) = Total(f, S \ {d}) + f[d]
  BY TotalSplit
<1>2. Total(g, S) = Total(g, S \ {d}) + g[d]
  BY TotalSplit
<1>3. Total(f, S \ {d}) = Total(g, S \ {d})
  BY TotalSame
<1>4. Total(f, S \ {d}) \in Nat
  BY PurseFinite, FS_Difference
<1>5. QED
  BY <1>1, <1>2, <1>3, <1>4

\* Nothing held totals zero.
LEMMA TotalZero ==
  ASSUME NEW S, NEW f, \A i \in S : f[i] = 0
  PROVE  Total(f, S) = 0
<1>1. \A i \in S : Wei(f, i) = {}
  BY DEF Wei
<1>2. Purse(f, S) = {}
  BY <1>1 DEF Purse
<1>3. QED
  BY <1>2, FS_EmptySet DEF Total

-----------------------------------------------------------------------------
\* Solvency.

USE ContractsAssumption, AccountsAssumption, ValuesAssumption, BoundsAssumption

\* Deal ids are finitely many.
LEMMA DealIdsFinite == IsFiniteSet(DealIds)
BY FS_Interval DEF DealIds

\* What is held for a well-typed deal is a natural number.
LEMMA HeldType ==
  ASSUME NEW deal \in Deal
  PROVE  Held(deal) \in Nat
BY DEF Held, Deal

\* Writing one deal changes the total held by the change to that deal.
LEMMA HeldChange ==
  ASSUME NEW ds \in [DealIds -> Deal], NEW d \in DealIds, NEW deal \in Deal
  PROVE  Total(HeldBy([ds EXCEPT ![d] = deal]), DealIds)
           = Total(HeldBy(ds), DealIds) - Held(ds[d]) + Held(deal)
<1> DEFINE f == HeldBy(ds)
           g == HeldBy([ds EXCEPT ![d] = deal])
<1>1. \A i \in DealIds : f[i] = Held(ds[i]) /\ ds[i] \in Deal
  BY DEF HeldBy
<1>2. \A i \in DealIds \ {d} : g[i] = f[i]
  BY DEF HeldBy
<1>3. g[d] = Held(deal) /\ f[d] = Held(ds[d])
  BY DEF HeldBy
<1>4. \A i \in DealIds : f[i] \in Nat /\ g[i] \in Nat
  BY <1>1, <1>2, <1>3, HeldType
<1> HIDE DEF f, g
<1>5. Total(g, DealIds) = Total(f, DealIds) - f[d] + g[d]
  BY <1>2, <1>4, DealIdsFinite, TotalChange
<1>6. QED
  BY <1>3, <1>5 DEF f, g

\* Crediting an account adds the amount to what is owed.
LEMMA CreditChange ==
  ASSUME NEW credits \in [Accounts -> Nat], NEW a \in Accounts, NEW amount \in Nat
  PROVE  Total([credits EXCEPT ![a] = amount], Accounts)
           = Total(credits, Accounts) - credits[a] + amount
<1> DEFINE g == [credits EXCEPT ![a] = amount]
<1>1. \A i \in Accounts : credits[i] \in Nat /\ g[i] \in Nat
  OBVIOUS
<1>2. \A i \in Accounts \ {a} : credits[i] = g[i]
  OBVIOUS
<1>3. g[a] = amount
  OBVIOUS
<1> HIDE DEF g
<1>4. Total(g, Accounts) = Total(credits, Accounts) - credits[a] + g[a]
  BY <1>1, <1>2, AccountsAssumption, TotalChange
<1>5. QED
  BY <1>3, <1>4 DEF g

\* What is owed, and what is held, are natural numbers.
LEMMA TotalsType ==
  ASSUME NEW ds \in [DealIds -> Deal], NEW credits \in [Accounts -> Nat]
  PROVE  /\ Total(HeldBy(ds), DealIds) \in Nat
         /\ Total(credits, Accounts) \in Nat
         /\ \A a \in Accounts : credits[a] <= Total(credits, Accounts)
<1>1. \A i \in DealIds : HeldBy(ds)[i] \in Nat
  BY HeldType DEF HeldBy
<1>2. Total(HeldBy(ds), DealIds) \in Nat
  BY <1>1, DealIdsFinite, PurseFinite
<1>3. Total(credits, Accounts) \in Nat
  BY AccountsAssumption, PurseFinite
<1>4. ASSUME NEW a \in Accounts
      PROVE  credits[a] <= Total(credits, Accounts)
  <2>1. Total(credits, Accounts) = Total(credits, Accounts \ {a}) + credits[a]
    BY AccountsAssumption, TotalSplit
  <2>2. Total(credits, Accounts \ {a}) \in Nat
    BY AccountsAssumption, FS_Difference, PurseFinite
  <2>3. QED
    BY <2>1, <2>2
<1>5. QED
  BY <1>2, <1>3, <1>4

\* Rewriting a created deal keeps the world sound when the money the contract
\* gains is what the deal and the credits gain.
LEMMA RewriteSound ==
  ASSUME NEW ds \in [DealIds -> Deal], NEW n \in Nat,
         NEW credits \in [Accounts -> Nat], NEW funds \in Nat,
         WorldOK(ds, n, credits, funds),
         NEW d \in DealIds, NEW deal \in Deal, Created(ds[d]),
         deal.buyer = ds[d].buyer, deal.provider = ds[d].provider,
         NEW newCredits \in [Accounts -> Nat], NEW newFunds,
         newFunds = funds + (Held(deal) - Held(ds[d]))
                          + (Total(newCredits, Accounts) - Total(credits, Accounts))
  PROVE  WorldOK([ds EXCEPT ![d] = deal], n, newCredits, newFunds)
<1> DEFINE new == [ds EXCEPT ![d] = deal]
<1>1. Total(HeldBy(new), DealIds) = Total(HeldBy(ds), DealIds) - Held(ds[d]) + Held(deal)
  BY HeldChange
<1>2. /\ Total(HeldBy(ds), DealIds) \in Nat
      /\ Total(credits, Accounts) \in Nat
      /\ Total(newCredits, Accounts) \in Nat
      /\ Held(deal) \in Nat /\ Held(ds[d]) \in Nat
  BY TotalsType, HeldType
<1>3. funds = Total(HeldBy(ds), DealIds) + Total(credits, Accounts)
  BY DEF WorldOK
<1>4. newFunds = Total(HeldBy(new), DealIds) + Total(newCredits, Accounts)
  <2> HIDE DEF new
  <2> QED BY <1>1, <1>2, <1>3
<1>5. \A i \in DealIds : new[i].buyer = ds[i].buyer /\ new[i].provider = ds[i].provider
  OBVIOUS
<1>6. /\ \A i \in DealIds : Created(new[i]) <=> i < n
      /\ \A i \in DealIds : new[i].provider # NoAccount <=> Created(new[i])
  BY <1>5 DEF WorldOK, Created
<1>7. QED
  BY <1>4, <1>6 DEF WorldOK

\* A settlement moves what deal d holds to an account's credit.
LEMMA SettlementSound ==
  ASSUME Accounted, NEW d \in DealIds, Created(deals[d]),
         deals[d].state \in {"Offered", "Accepted", "Delivered"},
         NEW outcome \in {"Released", "TimedOut", "Cancelled"},
         NEW a \in Accounts, NEW amount \in Nat, amount = Held(deals[d]),
         deals' = [deals EXCEPT ![d].state = outcome],
         _credit(a, amount),
         UNCHANGED <<nextDealId, balance, locked, now, saved>>
  PROVE  Accounted'
<1> DEFINE deal == [deals[d] EXCEPT !.state = outcome]
<1> USE DEF Accounted, TypeOK
<1>1. deal \in Deal /\ deals' = [deals EXCEPT ![d] = deal]
  BY DEF Deal, States
<1>2. deals' \in [DealIds -> Deal]
  BY <1>1
<1>3. withdrawable' = [withdrawable EXCEPT ![a] = withdrawable[a] + amount]
  BY DEF _credit
<1>4. withdrawable' \in [Accounts -> Nat]
  BY <1>3
<1>5. TypeOK'
  BY <1>2, <1>4
<1>6. Held(deal) = 0
  BY DEF Held, Live, Deal
<1>7. Total(withdrawable', Accounts) = Total(withdrawable, Accounts) + amount
  <2>1. withdrawable[a] + amount \in Nat /\ withdrawable[a] \in Nat
    OBVIOUS
  <2>2. Total(withdrawable', Accounts)
          = Total(withdrawable, Accounts) - withdrawable[a] + (withdrawable[a] + amount)
    BY <1>3, <2>1, CreditChange
  <2>3. Total(withdrawable, Accounts) \in Nat
    BY TotalsType
  <2>4. QED
    BY <2>1, <2>2, <2>3
<1>8. balance = balance + (Held(deal) - Held(deals[d]))
        + (Total(withdrawable', Accounts) - Total(withdrawable, Accounts))
  <2>1. Total(withdrawable, Accounts) \in Nat
    BY TotalsType
  <2>2. QED
    BY <1>6, <1>7, <2>1
<1>9. deal.buyer = deals[d].buyer /\ deal.provider = deals[d].provider
  BY DEF Deal
<1>10. WorldOK(deals', nextDealId, withdrawable', balance)
  <2>1. /\ deals \in [DealIds -> Deal] /\ nextDealId \in Nat /\ balance \in Nat
        /\ withdrawable \in [Accounts -> Nat]
        /\ WorldOK(deals, nextDealId, withdrawable, balance)
    OBVIOUS
  <2> HIDE DEF deal, Accounted, TypeOK
  <2>2. ASSUME NEW funds,
               funds = balance + (Held(deal) - Held(deals[d]))
                       + (Total(withdrawable', Accounts) - Total(withdrawable, Accounts))
        PROVE  WorldOK([deals EXCEPT ![d] = deal], nextDealId, withdrawable', funds)
    BY <1>1, <1>4, <1>9, <2>1, <2>2, RewriteSound
  <2>3. QED
    BY <1>1, <1>8, <2>1, <2>2
<1>11. WorldOK(deals', nextDealId', withdrawable', balance')
  BY <1>10
<1>12. locked' = 2 =>
         WorldOK(saved'.deals, saved'.nextDealId, saved'.withdrawable, saved'.balance)
  OBVIOUS
<1>13. QED
  BY <1>5, <1>11, <1>12

\* What acceptDeal and markDelivered make of a deal.
AcceptedAs(old, t, by) ==
  [old EXCEPT !.acceptedAt = t, !.deadline = by, !.state = "Accepted"]
DeliveredAs(old, at) == [old EXCEPT !.payoutAvailableAt = at, !.state = "Delivered"]

\* Two deals between the same parties for the same money.
SameMoney(old, new) ==
  /\ new.buyer = old.buyer /\ new.provider = old.provider
  /\ new.price = old.price /\ new.providerBond = old.providerBond

\* An accepted deal keeps its type, its parties and its terms.
LEMMA AcceptedDeal ==
  ASSUME NEW old \in Deal, NEW t \in Nat, NEW by \in Nat
  PROVE  /\ AcceptedAs(old, t, by) \in Deal
         /\ SameMoney(old, AcceptedAs(old, t, by))
         /\ AcceptedAs(old, t, by).state = "Accepted"
<1> DEFINE r1 == [old EXCEPT !.acceptedAt = t]
           r2 == [r1 EXCEPT !.deadline = by]
<1>1. r1 \in Deal /\ SameMoney(old, r1)
  BY DEF Deal, SameMoney
<1> HIDE DEF r1
<1>2. r2 \in Deal /\ SameMoney(old, r2)
  BY <1>1 DEF Deal, SameMoney
<1>3. AcceptedAs(old, t, by) = [r2 EXCEPT !.state = "Accepted"]
  BY DEF r1, AcceptedAs
<1> HIDE DEF r2
<1>4. QED
  BY <1>2, <1>3 DEF Deal, States, SameMoney

\* A delivered deal keeps its type, its parties and its money.
LEMMA DeliveredDeal ==
  ASSUME NEW old \in Deal, NEW at \in Nat
  PROVE  /\ DeliveredAs(old, at) \in Deal
         /\ SameMoney(old, DeliveredAs(old, at))
         /\ DeliveredAs(old, at).state = "Delivered"
<1> DEFINE r1 == [old EXCEPT !.payoutAvailableAt = at]
<1>1. r1 \in Deal /\ SameMoney(old, r1)
  BY DEF Deal, SameMoney
<1>2. DeliveredAs(old, at) = [r1 EXCEPT !.state = "Delivered"]
  BY DEF DeliveredAs
<1> HIDE DEF r1
<1>3. QED
  BY <1>1, <1>2 DEF Deal, States, SameMoney

\* acceptDeal adds the bond to what the contract owns and to what the deal holds.
LEMMA AcceptSound ==
  ASSUME Accounted, NEW d \in DealIds, NEW sender \in Accounts, NEW value \in Values,
         acceptDeal(d, sender, value)
  PROVE  Accounted'
<1> DEFINE deal == AcceptedAs(deals[d], now, now + deals[d].serviceWindow)
<1>1. /\ deals \in [DealIds -> Deal] /\ nextDealId \in Nat /\ balance \in Nat
      /\ withdrawable \in [Accounts -> Nat] /\ now \in Nat
      /\ WorldOK(deals, nextDealId, withdrawable, balance)
      /\ deals[d] \in Deal
  BY DEF Accounted, TypeOK
<1>2. deals' = [deals EXCEPT ![d] = deal] /\ balance' = balance + value
  BY DEF acceptDeal, AcceptedAs
<1>3. deals[d].serviceWindow \in Nat
  BY <1>1 DEF Deal
<1>4. /\ deal \in Deal
      /\ SameMoney(deals[d], deal)
      /\ deal.state = "Accepted"
  <2>1. now + deals[d].serviceWindow \in Nat
    BY <1>1, <1>3
  <2>2. QED
    BY <1>1, <2>1, AcceptedDeal
<1> HIDE DEF deal
<1>5. Created(deals[d]) /\ deals[d].state = "Offered" /\ value = deals[d].providerBond
  BY <1>1 DEF acceptDeal, WorldOK, _requireState
<1>6. value \in Nat
  BY ValuesAssumption
<1>7. TypeOK'
  BY <1>1, <1>2, <1>4, <1>6 DEF Accounted, TypeOK, acceptDeal
<1>8. Held(deal) = Held(deals[d]) + value
  BY <1>1, <1>4, <1>5 DEF Held, Live, Created, Deal, SameMoney
<1>9. ASSUME NEW funds,
             funds = balance + (Held(deal) - Held(deals[d]))
                     + (Total(withdrawable, Accounts) - Total(withdrawable, Accounts))
      PROVE  WorldOK([deals EXCEPT ![d] = deal], nextDealId, withdrawable, funds)
  BY <1>1, <1>4, <1>5, <1>9, RewriteSound DEF SameMoney
<1>10. balance' = balance + (Held(deal) - Held(deals[d]))
         + (Total(withdrawable, Accounts) - Total(withdrawable, Accounts))
  BY <1>1, <1>2, <1>4, <1>6, <1>8, HeldType, TotalsType
<1>11. WorldOK(deals', nextDealId, withdrawable, balance')
  BY <1>2, <1>9, <1>10
<1>12. QED
  BY <1>7, <1>11 DEF Accounted, acceptDeal

\* markDelivered moves no money.
LEMMA DeliverySound ==
  ASSUME Accounted, NEW d \in DealIds, NEW sender \in Accounts, markDelivered(d, sender)
  PROVE  Accounted'
<1> DEFINE deal == DeliveredAs(deals[d], now + deals[d].payoutDelay)
<1>1. /\ deals \in [DealIds -> Deal] /\ nextDealId \in Nat /\ balance \in Nat
      /\ withdrawable \in [Accounts -> Nat] /\ now \in Nat
      /\ WorldOK(deals, nextDealId, withdrawable, balance)
      /\ deals[d] \in Deal
  BY DEF Accounted, TypeOK
<1>2. deals' = [deals EXCEPT ![d] = deal]
  BY DEF markDelivered, DeliveredAs
<1>3. deals[d].payoutDelay \in Nat
  BY <1>1 DEF Deal
<1>4. /\ deal \in Deal
      /\ SameMoney(deals[d], deal)
      /\ deal.state = "Delivered"
  <2>1. now + deals[d].payoutDelay \in Nat
    BY <1>1, <1>3
  <2>2. QED
    BY <1>1, <2>1, DeliveredDeal
<1> HIDE DEF deal
<1>5. Created(deals[d]) /\ deals[d].state = "Accepted"
  BY <1>1 DEF markDelivered, WorldOK, _requireState
<1>6. TypeOK'
  BY <1>1, <1>2, <1>4 DEF Accounted, TypeOK, markDelivered
<1>7. Held(deal) = Held(deals[d])
  BY <1>1, <1>4, <1>5 DEF Held, Live, Created, Deal, SameMoney
<1>8. ASSUME NEW funds,
             funds = balance + (Held(deal) - Held(deals[d]))
                     + (Total(withdrawable, Accounts) - Total(withdrawable, Accounts))
      PROVE  WorldOK([deals EXCEPT ![d] = deal], nextDealId, withdrawable, funds)
  BY <1>1, <1>4, <1>5, <1>8, RewriteSound DEF SameMoney
<1>9. balance = balance + (Held(deal) - Held(deals[d]))
        + (Total(withdrawable, Accounts) - Total(withdrawable, Accounts))
  BY <1>1, <1>4, <1>7, HeldType, TotalsType
<1>10. WorldOK(deals', nextDealId, withdrawable, balance)
  BY <1>2, <1>8, <1>9
<1>11. QED
  BY <1>6, <1>10 DEF Accounted, markDelivered

\* createDeal writes a deal nobody had created, and takes its price.
LEMMA CreationSound ==
  ASSUME Accounted, Create
  PROVE  Accounted'
<1>1. PICK sender \in Accounts, value \in Values, provider \in Accounts \cup {NoAccount},
           bps \in Bps, acceptBy \in now .. now + MAX_DURATION + 1,
           serviceWindow \in 0 .. MAX_DURATION + 1, payoutDelay \in 0 .. MAX_DURATION + 1 :
        createDeal(sender, value, provider, bps, acceptBy, serviceWindow, payoutDelay)
  BY DEF Create
<1> DEFINE d == nextDealId
           bond == (value * bps) \div BPS_DENOMINATOR
           deal == [buyer |-> sender, provider |-> provider, price |-> value,
                    providerBond |-> bond, acceptBy |-> acceptBy, acceptedAt |-> 0,
                    serviceWindow |-> serviceWindow, deadline |-> 0,
                    payoutDelay |-> payoutDelay, payoutAvailableAt |-> 0,
                    state |-> "Offered"]
<1>2. /\ deals \in [DealIds -> Deal] /\ nextDealId \in Nat /\ balance \in Nat
      /\ withdrawable \in [Accounts -> Nat] /\ now \in Nat
      /\ WorldOK(deals, nextDealId, withdrawable, balance)
  BY DEF Accounted, TypeOK
<1>3. d \in DealIds /\ nextDealId' = nextDealId + 1
  BY <1>1, <1>2 DEF createDeal, DealIds
<1>4. bond \in Nat
  <2>1. value \in Nat /\ bps \in Nat
    BY ValuesAssumption
  <2>2. value * bps \in Nat
    BY <2>1
  <2> DEFINE product == value * bps
  <2> HIDE DEF product
  <2>3. product \in Nat => product \div 10000 \in Nat
    OBVIOUS
  <2>4. QED
    BY <2>2, <2>3 DEF BPS_DENOMINATOR, product
<1>5. /\ deals' = [deals EXCEPT ![d] = deal]
      /\ balance' = balance + value
      /\ provider # NoAccount
  BY <1>1 DEF createDeal
<1> HIDE DEF bond
<1>6. deal \in Deal
  BY <1>1, <1>2, <1>4, ValuesAssumption, BoundsAssumption DEF Deal, States
<1>7. /\ deal.buyer = sender /\ deal.provider = provider
      /\ deal.price = value /\ deal.state = "Offered"
  OBVIOUS
<1> HIDE DEF deal
<1>8. ~Created(deals[d]) /\ Created(deal)
  BY <1>2, <1>3, <1>7, AccountsAssumption DEF WorldOK, Created
<1>9. Held(deals[d]) = 0 /\ Held(deal) = value
  BY <1>7, <1>8 DEF Held, Live
<1>10. value \in Nat
  BY ValuesAssumption
<1>11. balance' = Total(HeldBy(deals'), DealIds) + Total(withdrawable, Accounts)
  <2>1. Total(HeldBy(deals'), DealIds) = Total(HeldBy(deals), DealIds) - 0 + value
    BY <1>2, <1>3, <1>5, <1>6, <1>9, HeldChange
  <2>2. balance = Total(HeldBy(deals), DealIds) + Total(withdrawable, Accounts)
    BY <1>2 DEF WorldOK
  <2>3. QED
    BY <1>2, <1>5, <1>10, <2>1, <2>2, TotalsType
<1>12. /\ \A i \in DealIds : Created(deals'[i]) <=> i < nextDealId'
       /\ \A i \in DealIds : deals'[i].provider # NoAccount <=> Created(deals'[i])
  <2>1. \A i \in DealIds \ {d} : deals'[i] = deals[i]
    BY <1>2, <1>5
  <2>2. deals'[d] = deal
    BY <1>2, <1>3, <1>5
  <2>3. \A i \in DealIds : i \in Int /\ (i < nextDealId <=> i < nextDealId + 1 /\ i # nextDealId)
    BY <1>2, BoundsAssumption DEF DealIds
  <2>4. QED
    BY <1>2, <1>3, <1>5, <1>7, <1>8, <2>1, <2>2, <2>3 DEF WorldOK
<1>13. WorldOK(deals', nextDealId', withdrawable', balance')
  BY <1>1, <1>11, <1>12 DEF WorldOK, createDeal
<1>14. TypeOK'
  <2>1. nextDealId' \in Nat /\ balance' \in Nat
    BY <1>2, <1>3, <1>5, <1>10
  <2>2. deals' \in [DealIds -> Deal]
    BY <1>2, <1>5, <1>6
  <2>3. UNCHANGED <<withdrawable, locked, now, saved>>
    BY <1>1 DEF createDeal
  <2>4. QED
    BY <2>1, <2>2, <2>3 DEF Accounted, TypeOK
<1>15. QED
  BY <1>1, <1>13, <1>14 DEF Accounted, createDeal

\* withdraw takes the caller's credit out of what is owed and out of the balance,
\* and keeps the world it started from while a contract is being paid.
LEMMA WithdrawalSound ==
  ASSUME Accounted, NEW sender \in Accounts, NEW recipient \in Accounts \cup {NoAccount},
         withdraw(sender, recipient)
  PROVE  Accounted'
<1>1. /\ deals \in [DealIds -> Deal] /\ nextDealId \in Nat /\ balance \in Nat
      /\ withdrawable \in [Accounts -> Nat] /\ now \in Nat
      /\ WorldOK(deals, nextDealId, withdrawable, balance)
      /\ locked = 1 /\ saved = NoCall
  BY DEF Accounted, TypeOK, withdraw, nonReentrant
<1>2. /\ withdrawable' = [withdrawable EXCEPT ![sender] = 0]
      /\ balance' = balance - withdrawable[sender]
      /\ UNCHANGED <<deals, nextDealId, now>>
  BY DEF withdraw
<1>3. Total(withdrawable', Accounts) = Total(withdrawable, Accounts) - withdrawable[sender] + 0
  BY <1>1, <1>2, CreditChange
<1>4. /\ balance = Total(HeldBy(deals), DealIds) + Total(withdrawable, Accounts)
      /\ Total(HeldBy(deals), DealIds) \in Nat
      /\ Total(withdrawable, Accounts) \in Nat
      /\ withdrawable[sender] <= Total(withdrawable, Accounts)
      /\ withdrawable[sender] \in Nat
  BY <1>1, TotalsType DEF WorldOK
<1>5. balance' \in Nat /\ balance' = Total(HeldBy(deals), DealIds) + Total(withdrawable', Accounts)
  BY <1>2, <1>3, <1>4
<1>6. withdrawable' \in [Accounts -> Nat]
  BY <1>1, <1>2
<1>7. WorldOK(deals, nextDealId, withdrawable', balance')
  BY <1>1, <1>5 DEF WorldOK
<1>8. CASE recipient \in Contracts
  <2> DEFINE before == [caller |-> sender, deals |-> deals, nextDealId |-> nextDealId,
                        withdrawable |-> withdrawable, balance |-> balance]
  <2>1. locked' = 2 /\ saved' = before
    BY <1>8 DEF withdraw
  <2>2. before \in World
    BY <1>1 DEF World
  <2>3. WorldOK(before.deals, before.nextDealId, before.withdrawable, before.balance)
    BY <1>1
  <2> HIDE DEF before
  <2>4. TypeOK'
    BY <1>1, <1>2, <1>5, <1>6, <2>1, <2>2 DEF TypeOK
  <2>5. QED
    BY <1>2, <1>7, <2>1, <2>3, <2>4 DEF Accounted
<1>9. CASE recipient \notin Contracts
  <2>1. locked' = 1 /\ saved' = NoCall
    BY <1>1, <1>9 DEF withdraw
  <2>2. TypeOK'
    BY <1>1, <1>2, <1>5, <1>6, <2>1 DEF TypeOK
  <2>3. QED
    BY <1>2, <1>7, <2>1, <2>2 DEF Accounted
<1>10. QED
  BY <1>8, <1>9

\* A refused payment brings back the world the withdrawal started from.
LEMMA RevertSound ==
  ASSUME Accounted, withdrawReverts
  PROVE  Accounted'
<1>1. /\ locked = 2 /\ saved \in World /\ now \in Nat
      /\ WorldOK(saved.deals, saved.nextDealId, saved.withdrawable, saved.balance)
  BY DEF Accounted, TypeOK, withdrawReverts
<1>2. /\ saved.deals \in [DealIds -> Deal] /\ saved.nextDealId \in Nat
      /\ saved.withdrawable \in [Accounts -> Nat] /\ saved.balance \in Nat
  BY <1>1 DEF World
<1>3. TypeOK'
  BY <1>1, <1>2 DEF TypeOK, withdrawReverts
<1>4. QED
  BY <1>1, <1>3 DEF Accounted, withdrawReverts

\* The initial world is empty and owes nothing.
LEMMA InitAccounted == Init => Accounted
<1> SUFFICES ASSUME Init PROVE Accounted
  OBVIOUS
<1>1. UnsetDeal \in Deal /\ ~Created(UnsetDeal) /\ UnsetDeal.provider = NoAccount
  BY DEF UnsetDeal, Deal, States, Created
<1>2. \A d \in DealIds : deals[d] = UnsetDeal
  BY DEF Init
<1>3. TypeOK
  BY <1>1 DEF Init, TypeOK
<1>4. \A d \in DealIds : HeldBy(deals)[d] = 0
  BY <1>1, <1>2 DEF HeldBy, Held, Live
<1>5. \A a \in Accounts : withdrawable[a] = 0
  BY DEF Init
<1>6. balance = Total(HeldBy(deals), DealIds) + Total(withdrawable, Accounts)
  BY <1>4, <1>5, TotalZero DEF Init
<1>7. \A d \in DealIds : ~(d < nextDealId)
  BY BoundsAssumption DEF DealIds, Init
<1>8. WorldOK(deals, nextDealId, withdrawable, balance)
  BY <1>1, <1>2, <1>6, <1>7 DEF WorldOK
<1>9. QED
  BY <1>3, <1>8 DEF Accounted, Init

\* Every step keeps the world accounted for.
LEMMA NextAccounted == Accounted /\ [Next]_vars => Accounted'
<1> SUFFICES ASSUME Accounted, [Next]_vars PROVE Accounted'
  OBVIOUS
<1>t. /\ deals \in [DealIds -> Deal]
      /\ \A d \in DealIds : deals[d].provider # NoAccount <=> Created(deals[d])
  BY DEF Accounted, TypeOK, WorldOK
<1>h. \A d \in DealIds :
        /\ deals[d] \in Deal
        /\ deals[d].price \in Nat
        /\ deals[d].price + deals[d].providerBond \in Nat
        /\ Created(deals[d]) /\ deals[d].state = "Offered" =>
             Held(deals[d]) = deals[d].price
        /\ Created(deals[d]) /\ deals[d].state \in {"Accepted", "Delivered"} =>
             Held(deals[d]) = deals[d].price + deals[d].providerBond
  BY <1>t DEF Deal, Held, Live
<1>1. CASE Create
  BY <1>1, CreationSound
<1>2. CASE \E d \in DealIds, sender \in Accounts, value \in Values : acceptDeal(d, sender, value)
  BY <1>2, AcceptSound
<1>3. CASE \E d \in DealIds, sender \in Accounts : cancelUnaccepted(d, sender)
  <2>1. PICK d \in DealIds, sender \in Accounts : cancelUnaccepted(d, sender)
    BY <1>3
  <2>2. Created(deals[d]) /\ deals[d].state = "Offered" /\ deals[d].buyer \in Accounts
    BY <2>1, AccountsAssumption DEF cancelUnaccepted, Created, _requireState
  <2>3. QED
    BY <1>h, <2>1, <2>2, SettlementSound DEF cancelUnaccepted
<1>4. CASE \E d \in DealIds, sender \in Accounts : markDelivered(d, sender)
  BY <1>4, DeliverySound
<1>5. CASE \E d \in DealIds, sender \in Accounts : releaseDeal(d, sender)
  <2>1. PICK d \in DealIds, sender \in Accounts : releaseDeal(d, sender)
    BY <1>5
  <2>2. Created(deals[d]) /\ deals[d].state = "Delivered"
    BY <2>1, AccountsAssumption DEF releaseDeal, Created, _requireState
  <2>3. deals[d].provider \in Accounts
    BY <1>t, <1>h, <2>2 DEF Deal
  <2>4. QED
    BY <1>h, <2>1, <2>2, <2>3, SettlementSound DEF releaseDeal
<1>6. CASE \E d \in DealIds, sender \in Accounts : claimPayment(d, sender)
  <2>1. PICK d \in DealIds, sender \in Accounts : claimPayment(d, sender)
    BY <1>6
  <2>2. Created(deals[d]) /\ deals[d].state = "Delivered" /\ deals[d].provider \in Accounts
    BY <1>t, <2>1, AccountsAssumption DEF claimPayment, _requireState
  <2>3. QED
    BY <1>h, <2>1, <2>2, SettlementSound DEF claimPayment
<1>7. CASE \E d \in DealIds, sender \in Accounts : claimTimeout(d, sender)
  <2>1. PICK d \in DealIds, sender \in Accounts : claimTimeout(d, sender)
    BY <1>7
  <2>2. Created(deals[d]) /\ deals[d].state = "Accepted" /\ deals[d].buyer \in Accounts
    BY <2>1, AccountsAssumption DEF claimTimeout, Created, _requireState
  <2>3. QED
    BY <1>h, <2>1, <2>2, SettlementSound DEF claimTimeout
<1>8. CASE \E sender \in Accounts, recipient \in Accounts \cup {NoAccount} :
             withdraw(sender, recipient)
  BY <1>8, WithdrawalSound
<1>9. CASE withdrawReturns
  BY <1>9 DEF withdrawReturns, Accounted, TypeOK
<1>10. CASE withdrawReverts
  BY <1>10, RevertSound
<1>11. CASE Tick
  BY <1>11 DEF Tick, Accounted, TypeOK
<1>12. CASE UNCHANGED vars
  BY <1>12 DEF vars, Accounted, TypeOK
<1>13. QED
  BY <1>1, <1>2, <1>3, <1>4, <1>5, <1>6, <1>7, <1>8, <1>9, <1>10, <1>11, <1>12 DEF Next

\* The world is always accounted for, and so is the one a refusal would restore.
THEOREM AlwaysAccounted == Spec => []Accounted
<1>1. QED
  BY InitAccounted, NextAccounted, PTL DEF Spec

\* Every variable of the contract keeps its type.
THEOREM AlwaysTyped == Spec => []TypeOK
<1>1. Accounted => TypeOK
  BY DEF Accounted
<1>2. QED
  BY <1>1, AlwaysAccounted, PTL

\* The contract owns exactly what it holds for live deals and what it owes.
THEOREM AlwaysSolvent == Spec => []Solvency
<1>1. Accounted => Solvency
  BY DEF Accounted, WorldOK, Solvency
<1>2. QED
  BY <1>1, AlwaysAccounted, PTL

-----------------------------------------------------------------------------
\* The life of a deal.

\* Each lemma below cites the assumptions that it needs.
HIDE ContractsAssumption
HIDE AccountsAssumption
HIDE ValuesAssumption
HIDE BoundsAssumption

\* What the dates of a deal say by instant t of the state it is in.
Dated(deal, t) ==
  /\ deal.state \in {"Offered", "Cancelled"} => deal.acceptedAt = 0
  /\ deal.state \in {"Offered", "Accepted", "TimedOut"} => deal.payoutAvailableAt = 0
  /\ deal.state = "Cancelled" => t > deal.acceptBy
  /\ deal.state \in {"Accepted", "TimedOut", "Delivered", "Released"} =>
       /\ 0 < deal.acceptedAt /\ deal.acceptedAt <= deal.acceptBy /\ deal.acceptedAt <= t
       /\ deal.deadline = deal.acceptedAt + deal.serviceWindow
  /\ deal.state = "TimedOut" => t > deal.deadline
  /\ deal.state \in {"Delivered", "Released"} =>
       /\ deal.acceptedAt + deal.payoutDelay <= deal.payoutAvailableAt
       /\ deal.payoutAvailableAt <= deal.deadline + deal.payoutDelay

\* What calls that move no credit make of a deal.
Grown(old, new) ==
  \/ new = old
  \/ ~Created(old) /\ Live(new) /\ Held(new) > 0
  \/ /\ Live(old) /\ Live(new) /\ Terms(new) = Terms(old) /\ Held(new) >= Held(old)
     /\ old.acceptedAt # 0 => new.acceptedAt = old.acceptedAt /\ new.deadline = old.deadline
     /\ old.payoutAvailableAt # 0 => new.payoutAvailableAt = old.payoutAvailableAt

\* The deals are dated, those that would come back included; those of the call in flight have
\* grown from the saved ones; and it has moved no credit but its caller's.
Promised ==
  /\ Accounted
  /\ 0 < now
  /\ \A d \in DealIds : Dated(deals[d], now)
  /\ locked = 2 =>
       /\ \A d \in DealIds : Dated(saved.deals[d], now) /\ Grown(saved.deals[d], deals[d])
       /\ saved.withdrawable[saved.caller] > 0
       /\ withdrawable = [saved.withdrawable EXCEPT ![saved.caller] = 0]

\* The kinds of step.
GrowthStep ==
  /\ \A d \in DealIds : Grown(deals[d], deals'[d]) /\ Dated(deals'[d], now)
  /\ UNCHANGED <<withdrawable, locked, now, saved>>

SettlementStep(d, a) ==
  /\ locked = 1 /\ Live(deals[d]) /\ a \in {deals[d].buyer, deals[d].provider}
  /\ \E outcome \in {"Released", "TimedOut", "Cancelled"} :
       deals' = [deals EXCEPT ![d].state = outcome]
  /\ Dated(deals'[d], now)
  /\ withdrawable' = [withdrawable EXCEPT ![a] = @ + Held(deals[d])]
  /\ UNCHANGED <<locked, now, saved>>

\* What a well-typed, accounted world says of one deal.
LEMMA SoundDeal ==
  ASSUME Accounted, NEW d \in DealIds
  PROVE  /\ deals \in [DealIds -> Deal] /\ deals[d] \in Deal /\ Held(deals[d]) \in Nat
         /\ now \in Nat /\ locked \in {1, 2}
         /\ deals[d].provider # NoAccount <=> Created(deals[d])
BY HeldType DEF Accounted, TypeOK, WorldOK

\* Growing twice is growing.
LEMMA GrownTwice ==
  ASSUME NEW a \in Deal, NEW b \in Deal, NEW c \in Deal, Grown(a, b), Grown(b, c)
  PROVE  Grown(a, c)
<1>1. Held(a) \in Nat /\ Held(b) \in Nat /\ Held(c) \in Nat
  BY HeldType
<1>2. \A x \in Deal : Live(x) => Created(x)
  BY DEF Live
<1>3. QED
  BY <1>1, <1>2 DEF Grown

-----------------------------------------------------------------------------
\* createDeal makes a deal of an id that had none.
LEMMA CreationGrows ==
  ASSUME Promised, Create
  PROVE  GrowthStep
<1>1. PICK sender \in Accounts, value \in Values, provider \in Accounts \cup {NoAccount},
           bps \in Bps, acceptBy \in now .. now + MAX_DURATION + 1,
           serviceWindow \in 0 .. MAX_DURATION + 1, payoutDelay \in 0 .. MAX_DURATION + 1 :
        createDeal(sender, value, provider, bps, acceptBy, serviceWindow, payoutDelay)
  BY DEF Create
<1> DEFINE new == [buyer |-> sender, provider |-> provider, price |-> value,
                   providerBond |-> (value * bps) \div BPS_DENOMINATOR, acceptBy |-> acceptBy,
                   acceptedAt |-> 0, serviceWindow |-> serviceWindow, deadline |-> 0,
                   payoutDelay |-> payoutDelay, payoutAvailableAt |-> 0, state |-> "Offered"]
<1>2. /\ deals' = [deals EXCEPT ![nextDealId] = new] /\ value # 0
      /\ UNCHANGED <<withdrawable, locked, now, saved>>
  BY <1>1 DEF createDeal
<1>3. /\ deals \in [DealIds -> Deal] /\ nextDealId \in Nat
      /\ \A d \in DealIds : Created(deals[d]) <=> d < nextDealId
  BY DEF Promised, Accounted, TypeOK, WorldOK
<1>4. /\ new.buyer = sender /\ new.price = value /\ new.state = "Offered"
      /\ new.acceptedAt = 0 /\ new.payoutAvailableAt = 0
  OBVIOUS
<1> HIDE DEF new
<1>5. Live(new) /\ Held(new) > 0
  BY <1>2, <1>4, ValuesAssumption, AccountsAssumption DEF Live, Created, Held
<1>6. Dated(new, now)
  BY <1>4 DEF Dated
<1>7. ASSUME NEW d \in DealIds
      PROVE  Grown(deals[d], deals'[d]) /\ Dated(deals'[d], now)
  <2>1. CASE d = nextDealId
    BY <1>2, <1>3, <1>5, <1>6, <2>1 DEF Grown
  <2>2. CASE d # nextDealId
    BY <1>2, <1>3, <2>2 DEF Grown, Promised
  <2>3. QED BY <2>1, <2>2
<1>8. QED BY <1>2, <1>7 DEF GrowthStep

\* acceptDeal writes the dates of a deal that had none, and adds its bond.
LEMMA AcceptGrows ==
  ASSUME Promised, NEW d \in DealIds, NEW sender \in Accounts, NEW value \in Values,
         acceptDeal(d, sender, value)
  PROVE  GrowthStep
<1> DEFINE new == AcceptedAs(deals[d], now, now + deals[d].serviceWindow)
<1>1. /\ deals \in [DealIds -> Deal] /\ deals[d] \in Deal /\ now \in Nat
      /\ deals[d].provider # NoAccount <=> Created(deals[d])
  BY SoundDeal DEF Promised
<1>2. /\ deals' = [deals EXCEPT ![d] = new]
      /\ deals[d].state = "Offered" /\ Created(deals[d]) /\ now <= deals[d].acceptBy
      /\ UNCHANGED <<withdrawable, locked, now, saved>>
  BY <1>1, AccountsAssumption DEF acceptDeal, AcceptedAs, _requireState
<1>3. /\ new.state = "Accepted" /\ new.acceptedAt = now
      /\ new.deadline = now + deals[d].serviceWindow
      /\ Terms(new) = Terms(deals[d]) /\ new.payoutAvailableAt = deals[d].payoutAvailableAt
      /\ new.buyer = deals[d].buyer /\ new.serviceWindow = deals[d].serviceWindow
      /\ new.acceptBy = deals[d].acceptBy /\ new.price = deals[d].price
      /\ new.providerBond = deals[d].providerBond
  BY <1>1 DEF AcceptedAs, Deal, Terms
<1> HIDE DEF new
<1>4. Dated(deals[d], now) /\ 0 < now BY DEF Promised
<1>5. Dated(new, now)
  BY <1>1, <1>2, <1>3, <1>4 DEF Dated, Deal
<1>6. Live(deals[d]) /\ Live(new) /\ Held(new) >= Held(deals[d])
  BY <1>1, <1>2, <1>3 DEF Live, Created, Held, Deal
<1>7. deals[d].acceptedAt = 0 BY <1>2, <1>4 DEF Dated
<1>8. Grown(deals[d], new) BY <1>3, <1>6, <1>7 DEF Grown
<1>9. \A i \in DealIds \ {d} : deals'[i] = deals[i] /\ Dated(deals[i], now)
  BY <1>1, <1>2 DEF Promised
<1>10. deals'[d] = new BY <1>1, <1>2
<1>11. QED BY <1>2, <1>5, <1>8, <1>9, <1>10 DEF GrowthStep, Grown

\* markDelivered writes the one date that was missing.
LEMMA DeliveryGrows ==
  ASSUME Promised, NEW d \in DealIds, NEW sender \in Accounts, markDelivered(d, sender)
  PROVE  GrowthStep
<1> DEFINE new == DeliveredAs(deals[d], now + deals[d].payoutDelay)
<1>1. /\ deals \in [DealIds -> Deal] /\ deals[d] \in Deal /\ now \in Nat
      /\ deals[d].provider # NoAccount <=> Created(deals[d])
  BY SoundDeal DEF Promised
<1>2. /\ deals' = [deals EXCEPT ![d] = new]
      /\ deals[d].state = "Accepted" /\ Created(deals[d]) /\ now <= deals[d].deadline
      /\ UNCHANGED <<withdrawable, locked, now, saved>>
  BY <1>1, AccountsAssumption DEF markDelivered, DeliveredAs, _requireState
<1>3. /\ new.state = "Delivered" /\ new.acceptedAt = deals[d].acceptedAt
      /\ new.deadline = deals[d].deadline /\ new.payoutAvailableAt = now + deals[d].payoutDelay
      /\ Terms(new) = Terms(deals[d])
      /\ new.buyer = deals[d].buyer /\ new.serviceWindow = deals[d].serviceWindow
      /\ new.acceptBy = deals[d].acceptBy /\ new.price = deals[d].price
      /\ new.providerBond = deals[d].providerBond /\ new.payoutDelay = deals[d].payoutDelay
  BY <1>1 DEF DeliveredAs, Deal, Terms
<1> HIDE DEF new
<1>4. Dated(deals[d], now) BY DEF Promised
<1>5. Dated(new, now)
  BY <1>1, <1>2, <1>3, <1>4 DEF Dated, Deal
<1>6. Live(deals[d]) /\ Live(new) /\ Held(new) >= Held(deals[d])
  BY <1>1, <1>2, <1>3 DEF Live, Created, Held, Deal
<1>7. deals[d].payoutAvailableAt = 0 BY <1>2, <1>4 DEF Dated
<1>8. Grown(deals[d], new) BY <1>3, <1>6, <1>7 DEF Grown
<1>9. \A i \in DealIds \ {d} : deals'[i] = deals[i] /\ Dated(deals[i], now)
  BY <1>1, <1>2 DEF Promised
<1>10. deals'[d] = new BY <1>1, <1>2
<1>11. QED BY <1>2, <1>5, <1>8, <1>9, <1>10 DEF GrowthStep, Grown

\* The four endings close a live deal and pay a party of it what the deal held.
LEMMA EndingSettles ==
  ASSUME Promised, NEW d \in DealIds, NEW sender \in Accounts,
         \/ cancelUnaccepted(d, sender) \/ releaseDeal(d, sender)
         \/ claimPayment(d, sender) \/ claimTimeout(d, sender)
  PROVE  \E a \in Accounts : SettlementStep(d, a)
<1>1. /\ deals \in [DealIds -> Deal] /\ deals[d] \in Deal /\ now \in Nat
      /\ deals[d].provider # NoAccount <=> Created(deals[d])
      /\ deals[d].price \in Nat /\ deals[d].providerBond \in Nat
  BY SoundDeal DEF Promised, Deal
<1>2. Dated(deals[d], now) BY DEF Promised
<1>3. ASSUME NEW a \in Accounts, NEW outcome \in {"Released", "TimedOut", "Cancelled"}, locked = 1,
             Created(deals[d]), a \in {deals[d].buyer, deals[d].provider},
             deals' = [deals EXCEPT ![d].state = outcome],
             NEW amount, amount = Held(deals[d]), _credit(a, amount),
             UNCHANGED <<locked, now, saved>>,
             \/ deals[d].state = "Offered" /\ outcome = "Cancelled" /\ now > deals[d].acceptBy
             \/ deals[d].state = "Accepted" /\ outcome = "TimedOut" /\ now > deals[d].deadline
             \/ deals[d].state = "Delivered" /\ outcome = "Released"
      PROVE  SettlementStep(d, a)
  <2> DEFINE new == [deals[d] EXCEPT !.state = outcome]
  <2>1. deals'[d] = new BY <1>1, <1>3
  <2>2. /\ new.state = outcome /\ new.acceptedAt = deals[d].acceptedAt
        /\ new.deadline = deals[d].deadline /\ new.payoutAvailableAt = deals[d].payoutAvailableAt
        /\ new.serviceWindow = deals[d].serviceWindow /\ new.payoutDelay = deals[d].payoutDelay
        /\ new.acceptBy = deals[d].acceptBy
    BY <1>1 DEF Deal
  <2> HIDE DEF new
  <2>3. Dated(new, now) BY <1>2, <1>3, <2>2 DEF Dated
  <2>4. Live(deals[d]) BY <1>3 DEF Live
  <2>5. withdrawable' = [withdrawable EXCEPT ![a] = @ + Held(deals[d])]
    BY <1>3 DEF _credit
  <2>6. QED BY <1>3, <2>1, <2>3, <2>4, <2>5 DEF SettlementStep
<1>4. CASE cancelUnaccepted(d, sender)
  <2>1. /\ locked = 1 /\ deals[d].state = "Offered" /\ deals[d].buyer = sender
        /\ now > deals[d].acceptBy /\ deals' = [deals EXCEPT ![d].state = "Cancelled"]
        /\ _credit(sender, deals[d].price) /\ UNCHANGED <<locked, now, saved>>
    BY <1>4 DEF cancelUnaccepted, nonReentrant, _requireState
  <2>2. Created(deals[d]) /\ deals[d].price = Held(deals[d])
    BY <2>1, AccountsAssumption DEF Created, Held, Live
  <2>3. QED BY <1>3, <2>1, <2>2
<1>5. CASE releaseDeal(d, sender) \/ claimPayment(d, sender)
  <2>1. /\ locked = 1 /\ deals[d].state = "Delivered" /\ deals[d].provider # NoAccount
        /\ deals' = [deals EXCEPT ![d].state = "Released"]
        /\ _credit(deals[d].provider, deals[d].price + deals[d].providerBond)
        /\ UNCHANGED <<locked, now, saved>>
    BY <1>1, <1>5, AccountsAssumption
    DEF releaseDeal, claimPayment, nonReentrant, _requireState, Created
  <2>2. /\ Created(deals[d]) /\ deals[d].price + deals[d].providerBond = Held(deals[d])
        /\ deals[d].provider \in Accounts
    BY <1>1, <2>1 DEF Held, Live, Deal
  <2>3. QED BY <1>3, <2>1, <2>2
<1>6. CASE claimTimeout(d, sender)
  <2>1. /\ locked = 1 /\ deals[d].state = "Accepted" /\ deals[d].buyer = sender
        /\ now > deals[d].deadline /\ deals' = [deals EXCEPT ![d].state = "TimedOut"]
        /\ _credit(sender, deals[d].price + deals[d].providerBond)
        /\ UNCHANGED <<locked, now, saved>>
    BY <1>6 DEF claimTimeout, nonReentrant, _requireState
  <2>2. Created(deals[d]) /\ deals[d].price + deals[d].providerBond = Held(deals[d])
    BY <2>1, AccountsAssumption DEF Created, Held, Live
  <2>3. QED BY <1>3, <2>1, <2>2
<1>7. QED BY <1>4, <1>5, <1>6

\* Every step is of one of these kinds.
LEMMA Kinds ==
  ASSUME Promised, [Next]_vars
  PROVE  \/ GrowthStep
         \/ \E d \in DealIds, a \in Accounts : SettlementStep(d, a)
         \/ \E a \in Accounts, b \in Accounts \cup {NoAccount} : withdraw(a, b)
         \/ withdrawReturns \/ withdrawReverts \/ Tick \/ UNCHANGED vars
<1>1. CASE Create BY <1>1, CreationGrows
<1>2. CASE \E d \in DealIds, sender \in Accounts, value \in Values : acceptDeal(d, sender, value)
  BY <1>2, AcceptGrows
<1>3. CASE \E d \in DealIds, sender \in Accounts : markDelivered(d, sender)
  BY <1>3, DeliveryGrows
<1>4. CASE \E d \in DealIds, sender \in Accounts :
             \/ cancelUnaccepted(d, sender) \/ releaseDeal(d, sender)
             \/ claimPayment(d, sender) \/ claimTimeout(d, sender)
  BY <1>4, EndingSettles
<1>5. QED BY <1>1, <1>2, <1>3, <1>4 DEF Next

-----------------------------------------------------------------------------
LEMMA InitPromised == Init => Promised
<1> SUFFICES ASSUME Init PROVE Promised OBVIOUS
<1>1. Accounted BY InitAccounted
<1>2. Dated(UnsetDeal, now) BY DEF Dated, UnsetDeal
<1>3. QED BY <1>1, <1>2 DEF Promised, Init

LEMMA NextPromised == Promised /\ [Next]_vars => Promised'
<1> SUFFICES ASSUME Promised, [Next]_vars PROVE Promised' OBVIOUS
<1>1. Accounted' BY NextAccounted DEF Promised
<1>2. /\ now \in Nat /\ locked \in {1, 2}
      /\ \A d \in DealIds : deals[d] \in Deal /\ deals'[d] \in Deal
      /\ withdrawable \in [Accounts -> Nat]
      /\ locked = 2 => saved \in World
  BY <1>1 DEF Promised, Accounted, TypeOK
<1>3. CASE GrowthStep
  <2>1. ASSUME locked = 2, NEW d \in DealIds PROVE Grown(saved.deals[d], deals'[d])
    <3>1. saved.deals[d] \in Deal BY <1>2, <2>1 DEF World
    <3>2. Grown(saved.deals[d], deals[d]) /\ Grown(deals[d], deals'[d])
      BY <1>3, <2>1 DEF Promised, GrowthStep
    <3>3. QED BY <1>2, <3>1, <3>2, GrownTwice
  <2>2. QED BY <1>1, <1>3, <2>1 DEF Promised, GrowthStep
<1>4. CASE \E d \in DealIds, a \in Accounts : SettlementStep(d, a)
  <2>1. PICK d \in DealIds, a \in Accounts : SettlementStep(d, a) BY <1>4
  <2>2. \A i \in DealIds : Dated(deals'[i], now)
    BY <1>2, <2>1 DEF SettlementStep, Promised
  <2>3. QED BY <1>1, <2>1, <2>2 DEF Promised, SettlementStep
<1>5. CASE \E a \in Accounts, b \in Accounts \cup {NoAccount} : withdraw(a, b)
  <2>1. PICK a \in Accounts, b \in Accounts \cup {NoAccount} : withdraw(a, b) BY <1>5
  <2>2. /\ withdrawable' = [withdrawable EXCEPT ![a] = 0] /\ withdrawable[a] > 0
        /\ UNCHANGED <<deals, now>> /\ locked = 1
        /\ \/ UNCHANGED locked
           \/ saved' = [caller |-> a, deals |-> deals, nextDealId |-> nextDealId,
                        withdrawable |-> withdrawable, balance |-> balance]
    BY <1>2, <2>1 DEF withdraw, nonReentrant
  <2>3. CASE UNCHANGED locked BY <1>1, <2>2, <2>3 DEF Promised
  <2>4. CASE saved' = [caller |-> a, deals |-> deals, nextDealId |-> nextDealId,
                       withdrawable |-> withdrawable, balance |-> balance]
    <3>1. saved'.deals = deals /\ saved'.withdrawable = withdrawable /\ saved'.caller = a
      BY <2>4
    <3>2. \A d \in DealIds : Dated(saved'.deals[d], now') /\ Grown(saved'.deals[d], deals'[d])
      BY <2>2, <3>1 DEF Promised, Grown
    <3>3. /\ 0 < now' /\ \A d \in DealIds : Dated(deals'[d], now')
          /\ saved'.withdrawable[saved'.caller] > 0
          /\ withdrawable' = [saved'.withdrawable EXCEPT ![saved'.caller] = 0]
      BY <2>2, <3>1 DEF Promised
    <3>4. QED BY <1>1, <3>2, <3>3 DEF Promised
  <2>5. QED BY <2>2, <2>3, <2>4
<1>6. CASE withdrawReturns BY <1>1, <1>6 DEF Promised, withdrawReturns
<1>7. CASE withdrawReverts BY <1>1, <1>7 DEF Promised, withdrawReverts
<1>8. CASE Tick
  <2>1. \A d \in DealIds : Dated(deals[d], now + 1)
    <3>1. ASSUME NEW deal \in Deal, Dated(deal, now) PROVE Dated(deal, now + 1)
      BY <1>2, <3>1 DEF Dated, Deal
    <3>2. QED BY <1>2, <3>1 DEF Promised
  <2>2. QED BY <1>1, <1>2, <1>8, <2>1 DEF Promised, Tick
<1>9. CASE UNCHANGED vars BY <1>1, <1>9 DEF Promised, vars
<1>10. QED BY <1>3, <1>4, <1>5, <1>6, <1>7, <1>8, <1>9, Kinds

\* Every deal's dates fit its state, and nested calls only grow deals and move no credit.
THEOREM AlwaysPromised == Spec => []Promised
<1>1. QED BY InitPromised, NextPromised, PTL DEF Spec

\* A settled deal's outcome is the one its parties earned: cancelled only if it was never
\* accepted, timed out only past the deadline, paid only if accepted and delivered in time.
THEOREM AlwaysEarned == Spec => []OutcomeEarned
<1>1. ASSUME Promised PROVE OutcomeEarned
  <2>1. ASSUME NEW deal \in Deal, Dated(deal, now)
        PROVE  /\ deal.state = "Offered" => deal.acceptedAt = 0
               /\ deal.state = "Cancelled" => deal.acceptedAt = 0 /\ now > deal.acceptBy
               /\ deal.state \in {"Accepted", "TimedOut", "Delivered", "Released"} =>
                    /\ 0 < deal.acceptedAt /\ deal.acceptedAt <= deal.acceptBy
                    /\ deal.deadline = deal.acceptedAt + deal.serviceWindow
               /\ deal.state \in {"Accepted", "TimedOut"} => deal.payoutAvailableAt = 0
               /\ deal.state = "TimedOut" => now > deal.deadline
               /\ deal.state \in {"Delivered", "Released"} =>
                    /\ deal.acceptedAt <= deal.payoutAvailableAt - deal.payoutDelay
                    /\ deal.payoutAvailableAt - deal.payoutDelay <= deal.deadline
    BY <2>1 DEF Dated, Deal
  <2>2. \A d \in DealIds : deals[d] \in Deal /\ Dated(deals[d], now) /\ deals[d].state \in States
    BY <1>1 DEF Promised, Accounted, TypeOK, Deal
  <2>3. QED BY <2>1, <2>2 DEF OutcomeEarned, States
<1>2. QED BY <1>1, AlwaysPromised, PTL

-----------------------------------------------------------------------------
\* What a step does to the deals and credits that stand.
LEMMA StandingSteps ==
  ASSUME Promised, [Next]_vars
  PROVE  \/ /\ \A d \in DealIds : Grown(StandingDeals[d], StandingDeals'[d])
            /\ \/ StandingCredit' = StandingCredit
               \/ \E a \in Accounts :
                    /\ StandingCredit[a] > 0
                    /\ StandingCredit' = [StandingCredit EXCEPT ![a] = 0]
         \/ \E d \in DealIds, a \in Accounts : SettlementStep(d, a)
<1> USE DEF StandingDeals, StandingCredit
<1>1. /\ locked \in {1, 2} /\ locked = 2 => saved \in World
      /\ withdrawable \in [Accounts -> Nat]
  BY DEF Promised, Accounted, TypeOK
<1>2. CASE GrowthStep BY <1>1, <1>2 DEF GrowthStep, Grown
<1>3. CASE \E a \in Accounts, b \in Accounts \cup {NoAccount} : withdraw(a, b)
  <2>1. PICK a \in Accounts, b \in Accounts \cup {NoAccount} : withdraw(a, b) BY <1>3
  <2>2. /\ withdrawable' = [withdrawable EXCEPT ![a] = 0] /\ withdrawable[a] > 0
        /\ UNCHANGED deals /\ locked = 1
    BY <1>1, <2>1 DEF withdraw, nonReentrant
  <2>3. CASE b \in Contracts
    <3>1. locked' = 2 /\ saved'.deals = deals /\ saved'.withdrawable = withdrawable
      BY <2>1, <2>3 DEF withdraw
    <3>2. QED BY <2>2, <3>1 DEF Grown
  <2>4. CASE b \notin Contracts
    <3>1. UNCHANGED locked BY <2>1, <2>4 DEF withdraw
    <3>2. QED BY <2>2, <3>1 DEF Grown
  <2>5. QED BY <2>3, <2>4
<1>4. CASE withdrawReturns
  <2>1. /\ locked = 2 /\ locked' = 1 /\ UNCHANGED <<deals, withdrawable>>
        /\ saved.caller \in Accounts
    BY <1>1, <1>4 DEF withdrawReturns, World
  <2>2. /\ \A d \in DealIds : Grown(saved.deals[d], deals[d])
        /\ saved.withdrawable[saved.caller] > 0
        /\ withdrawable = [saved.withdrawable EXCEPT ![saved.caller] = 0]
    BY <2>1 DEF Promised
  <2>3. QED BY <2>1, <2>2
<1>5. CASE withdrawReverts BY <1>5 DEF withdrawReverts, Grown
<1>6. CASE Tick BY <1>6 DEF Tick, Grown
<1>7. CASE UNCHANGED vars BY <1>7 DEF vars, Grown
<1>8. QED BY <1>2, <1>3, <1>4, <1>5, <1>6, <1>7, Kinds

\* The standing deals are deals, with two parties exactly when they were created.
LEMMA StandingDealsTyped ==
  ASSUME Promised
  PROVE  /\ \A d \in DealIds :
              /\ StandingDeals[d] \in Deal
              /\ StandingDeals[d].provider # NoAccount <=> Created(StandingDeals[d])
         /\ StandingCredit \in [Accounts -> Nat]
BY DEF Promised, Accounted, TypeOK, WorldOK, World, StandingDeals, StandingCredit

\* Once a deal stands, its terms never change, its dates are written once and its ending is
\* final, whatever is called, re-entered or reverted.
THEOREM TermsAlwaysFixed == Spec => TermsFixed
<1>1. ASSUME Promised, [Next]_vars PROVE TermsKept
  <2>1. CASE \A d \in DealIds : Grown(StandingDeals[d], StandingDeals'[d])
    BY <2>1 DEF TermsKept, Grown
  <2>2. CASE \E d \in DealIds, a \in Accounts : SettlementStep(d, a)
    <3>1. PICK d \in DealIds, a \in Accounts : SettlementStep(d, a) BY <2>2
    <3>2. PICK outcome \in {"Released", "TimedOut", "Cancelled"} :
            deals' = [deals EXCEPT ![d].state = outcome]
      BY <3>1 DEF SettlementStep
    <3>3. /\ StandingDeals = deals /\ StandingDeals' = deals' /\ Live(deals[d])
          /\ deals \in [DealIds -> Deal]
      BY <1>1, <3>1 DEF SettlementStep, StandingDeals, Promised, Accounted, TypeOK
    <3>4. \A i \in DealIds \ {d} : deals'[i] = deals[i] BY <3>2, <3>3
    <3>5. deals'[d] = [deals[d] EXCEPT !.state = outcome] BY <3>2, <3>3
    <3>6. /\ Terms(deals'[d]) = Terms(deals[d])
          /\ deals'[d].acceptedAt = deals[d].acceptedAt /\ deals'[d].deadline = deals[d].deadline
          /\ deals'[d].payoutAvailableAt = deals[d].payoutAvailableAt
      BY <3>3, <3>5 DEF Terms, Deal
    <3>7. QED BY <3>3, <3>4, <3>6 DEF TermsKept
  <2>3. QED BY <1>1, <2>1, <2>2, StandingSteps
<1>2. QED BY <1>1, AlwaysPromised, PTL DEF Spec, TermsFixed

-----------------------------------------------------------------------------
Parties(deal) == {deal.buyer, deal.provider} \ {NoAccount}

\* A deal that grows is a deposit.
LEMMA GrowthDeposits ==
  ASSUME NEW old \in Deal, NEW new \in Deal, Grown(old, new)
  PROVE  \/ Stage(new) = Stage(old) /\ Parties(new) = Parties(old) /\ Held(new) = Held(old)
         \/ /\ Stage(old) = "unused" /\ Stage(new) = "open"
            /\ Parties(new) \subseteq Accounts /\ Held(new) > 0
         \/ /\ Stage(old) = "open" /\ Stage(new) = "open"
            /\ Held(new) >= Held(old) /\ Parties(new) = Parties(old)
<1>1. Parties(new) \subseteq Accounts BY DEF Parties, Deal
<1>2. Live(old) => Created(old) BY DEF Live
<1>3. Live(new) => Created(new) BY DEF Live
<1>4. Terms(new) = Terms(old) => Parties(new) = Parties(old) BY DEF Terms, Parties
<1>5. QED BY <1>1, <1>2, <1>3, <1>4 DEF Grown, Stage

\* The deals and credits that stand keep the promise of EscrowPromise: each step deposits, pays
\* one deal's pot to one of its parties, or pays an account its own credit, although a recipient's
\* code runs in the middle of a withdrawal and may undo it.
THEOREM PromiseKept == Spec => KeepsPromise
<1>1. Init => Promise!Init
  <2> SUFFICES ASSUME Init PROVE Promise!Init OBVIOUS
  <2>1. StandingDeals = deals /\ StandingCredit = withdrawable
    BY DEF Init, StandingDeals, StandingCredit
  <2>2. \A d \in DealIds : deals[d] = UnsetDeal BY DEF Init
  <2>3. /\ Stage(UnsetDeal) = "unused" /\ Held(UnsetDeal) = 0
        /\ {UnsetDeal.buyer, UnsetDeal.provider} \ {NoAccount} = {}
    BY DEF UnsetDeal, Stage, Held, Live, Created
  <2>4. QED BY <2>1, <2>2, <2>3 DEF Promise!Init, HeldBy, Init
<1>2. ASSUME Promised, Promised', [Next]_vars PROVE [Promise!Next]_(Promise!vars)
  <2>1. /\ \A d \in DealIds : StandingDeals[d] \in Deal /\ StandingDeals'[d] \in Deal
        /\ StandingCredit \in [Accounts -> Nat]
    BY <1>2, StandingDealsTyped DEF Promised, Accounted, TypeOK, World, StandingDeals
  <2>2. CASE /\ \A d \in DealIds : Grown(StandingDeals[d], StandingDeals'[d])
             /\ \/ StandingCredit' = StandingCredit
                \/ \E a \in Accounts :
                     /\ StandingCredit[a] > 0
                     /\ StandingCredit' = [StandingCredit EXCEPT ![a] = 0]
    <3>1. Promise!Deposits
      BY <2>1, <2>2, GrowthDeposits DEF Promise!Deposits, HeldBy, Parties
    <3>2. StandingCredit' = StandingCredit => Promise!Deposit
      BY <3>1 DEF Promise!Deposit
    <3>3. ASSUME NEW a \in Accounts, StandingCredit[a] > 0,
                 StandingCredit' = [StandingCredit EXCEPT ![a] = 0]
          PROVE  Promise!Collect(a)
      BY <3>1, <3>3 DEF Promise!Collect
    <3>4. QED BY <2>2, <3>2, <3>3 DEF Promise!Next
  <2>3. CASE \E d \in DealIds, a \in Accounts : SettlementStep(d, a)
    <3>1. PICK d \in DealIds, a \in Accounts : SettlementStep(d, a) BY <2>3
    <3>2. PICK outcome \in {"Released", "TimedOut", "Cancelled"} :
            deals' = [deals EXCEPT ![d].state = outcome]
      BY <3>1 DEF SettlementStep
    <3>3. /\ StandingDeals = deals /\ StandingDeals' = deals' /\ Live(deals[d])
          /\ StandingCredit = withdrawable /\ StandingCredit' = withdrawable'
          /\ withdrawable' = [withdrawable EXCEPT ![a] = @ + Held(deals[d])]
          /\ a \in Parties(deals[d])
          /\ deals \in [DealIds -> Deal] /\ deals[d] \in Deal
      BY <1>2, <3>1, AccountsAssumption
      DEF SettlementStep, StandingDeals, StandingCredit, Parties, Promised, Accounted, TypeOK
    <3>4. \A i \in DealIds \ {d} : deals'[i] = deals[i] BY <3>2, <3>3
    <3>5. /\ deals'[d].state = outcome /\ Live(deals[d]) /\ ~Live(deals'[d])
          /\ deals'[d].buyer = deals[d].buyer /\ deals'[d].provider = deals[d].provider
      <4>1. deals'[d] = [deals[d] EXCEPT !.state = outcome] BY <3>2, <3>3
      <4>2. QED BY <3>3, <4>1 DEF Live, Deal
    <3>6. /\ Stage(deals[d]) = "open" /\ Stage(deals'[d]) = "closed" /\ Held(deals'[d]) = 0
          /\ Parties(deals'[d]) = Parties(deals[d])
      BY <3>5 DEF Stage, Held, Live, Created, Parties
    <3>7. Promise!Settle(d, a)
      <4> DEFINE stage == [i \in DealIds |-> Stage(deals[i])]
                 pot == HeldBy(deals)
                 parties == [i \in DealIds |-> Parties(deals[i])]
      <4>1. stage' = [stage EXCEPT ![d] = "closed"] BY <3>4, <3>6
      <4>2. pot' = [pot EXCEPT ![d] = 0] BY <3>4, <3>6 DEF HeldBy
      <4>3. parties' = parties BY <3>4, <3>6
      <4>4. stage[d] = "open" /\ a \in parties[d] /\ pot[d] = Held(deals[d])
        BY <3>3, <3>6 DEF HeldBy
      <4>5. QED BY <3>3, <4>1, <4>2, <4>3, <4>4 DEF Promise!Settle, Parties
    <3>8. QED BY <3>7 DEF Promise!Next
  <2>4. QED BY <1>2, <2>2, <2>3, StandingSteps
<1>3. QED BY <1>1, <1>2, AlwaysPromised, PTL DEF Spec, KeepsPromise, Promise!Spec
=============================================================================
