--------------------------- MODULE TxLedgerProofs ---------------------------
(***************************************************************************)
(* What the ledger believes is true, for any number of commands, actions,  *)
(* reorganisations, crashes and other users of the wallet.                 *)
(*                                                                         *)
(* The invariant, LedgerInv, says of every status what it claims of the    *)
(* chain (Borne), of the rows and of the answers that commands have yet to *)
(* write.  An answer stays true while its command sleeps: a block that a   *)
(* reorganisation undid is never mistaken for its replacement, and below   *)
(* the safe head nothing moves.  So a settled row is right and is never    *)
(* written again, an action takes effect once, and the ledger implements   *)
(* LedgerPromise.  Two more invariants, OffersOnce and NoGapInv, are for a *)
(* wallet on which nobody resends, or one process.  PromiseInv is about    *)
(* LedgerPromise alone: what it is worth to whoever relies on it.          *)
(***************************************************************************)
EXTENDS TxLedger, TLAPS, FiniteSetTheorems, SequenceTheorems, WellFoundedInduction

USE TimedAssumption, FlagsAssumption, BoundsAssumption, ForeignAssumption

\* A non-empty set of naturals has a least member.
LEMMA Least ==
  ASSUME NEW T \in SUBSET Nat, T # {}
  PROVE  \E n \in T : \A m \in T : n <= m
<1> DEFINE R == {ss \in Nat \X Nat : ss[1] < ss[2]}
<1>1. IsWellFoundedOn(R, Nat) BY NatLessThanWellFounded DEF OpToRel
<1>2. PICK n \in T : \A m \in T : <<m, n>> \notin R BY <1>1, WFMin
<1>3. ASSUME NEW m \in T
      PROVE  n <= m
  <2>1. m \in Nat /\ n \in Nat OBVIOUS
  <2>2. m < n => <<m, n>> \in R BY <2>1
  <2>3. QED BY <1>2, <2>1, <2>2
<1>4. QED BY <1>3

-----------------------------------------------------------------------------
\* The two operations that change the canonical chain.
LEMMA Appended ==
  ASSUME mined \in Seq(Mined), NEW b \in Mined, mined' = Append(mined, b)
  PROVE  /\ mined' \in Seq(Mined) /\ Len(mined') = Len(mined) + 1
         /\ \A h \in 1 .. Len(mined) : mined'[h] = mined[h]
         /\ mined'[Len(mined) + 1] = b
BY AppendProperties

LEMMA Truncated ==
  ASSUME mined \in Seq(Mined), NEW height \in 0 .. Len(mined),
         mined' = SubSeq(mined, 1, height)
  PROVE  /\ mined' \in Seq(Mined) /\ Len(mined') = height
         /\ \A h \in 1 .. height : mined'[h] = mined[h]
<1>1. Len(mined) \in Nat /\ \A h \in 1 .. Len(mined) : mined[h] \in Mined
  BY LenProperties, ElementOfSeq
<1>2. \A h \in 1 .. height : mined[h] \in Mined BY <1>1
<1>3. QED BY <1>1, <1>2, SubSeqProperties

LEMMA IntentsFinite == IsFiniteSet(Intents)
<1>1. Intents \subseteq Actions \X (1 .. MaxTries) BY DEF Intents, Tries
<1>2. IsFiniteSet(1 .. MaxTries) BY FS_Interval
<1>3. IsFiniteSet(Actions \X (1 .. MaxTries)) BY <1>2, FS_Product
<1>4. QED BY <1>1, <1>3, FS_Subset

LEMMA IntentParts ==
  /\ \A i \in Intents : i[1] \in Actions /\ i[2] \in Tries(i[1]) /\ i = <<i[1], i[2]>>
  /\ \A a \in Actions : \A k \in Tries(a) : <<a, k>> \in Intents
  /\ \A a \in Actions : 1 \in Tries(a) /\ Tries(a) \in {1 .. 1, 1 .. MaxTries}
BY DEF Intents, Tries

\* What any node counts is a natural number.
LEMMA CountsTyped ==
  ASSUME TypeOK
  PROVE  PendingCounts \subseteq Nat
<1>1. Cardinality(mempool) \in Nat BY IntentsFinite, FS_Subset, FS_CardinalityType DEF TypeOK
<1>2. Len(mined) \in Nat BY LenProperties DEF TypeOK
<1>3. QED BY <1>1, <1>2 DEF PendingCounts, TypeOK

-----------------------------------------------------------------------------
\* No nonce in the ledger lies above some number: a finite ledger, said without counting.
Bounded == \E m \in Nat : \A i \in Intents : rows[i].nonce <= m

\* The nonce that is allocated exists: it lies above every nonce held, and leaves none out.
LEMMA Allocated ==
  ASSUME rows \in [Intents -> Row], Bounded, NEW chain_nonce \in Nat
  PROVE  /\ allocated(chain_nonce) \in Nat /\ allocated(chain_nonce) >= chain_nonce
         /\ \A i \in Holding : rows[i].nonce < allocated(chain_nonce)
         /\ \/ allocated(chain_nonce) = chain_nonce
            \/ \E i \in Holding : allocated(chain_nonce) = rows[i].nonce + 1
<1> DEFINE Above(n) == n >= chain_nonce /\ \A i \in Holding : n > rows[i].nonce
<1> DEFINE Candidates == {chain_nonce} \cup {rows[i].nonce + 1 : i \in Holding}
<1>1. \A i \in Intents : rows[i].nonce \in Nat BY DEF Row
<1>2. Holding \subseteq Intents BY DEF Holding
<1>3. \E n \in Nat : Above(n)
  <2>1. PICK m \in Nat : \A i \in Intents : rows[i].nonce <= m BY DEF Bounded
  <2>2. Above(chain_nonce + m + 1) BY <1>1, <1>2, <2>1
  <2>3. QED BY <2>2
<1>4. PICK n \in Nat : Above(n) /\ \A m \in Nat : Above(m) => n <= m
  <2>1. PICK n \in {k \in Nat : Above(k)} : \A m \in {k \in Nat : Above(k)} : n <= m
    BY <1>3, Least
  <2>2. QED BY <2>1
<1>5. n \in Candidates
  <2>1. CASE n = chain_nonce BY <2>1
  <2>2. CASE n # chain_nonce
    <3>1. n - 1 \in Nat /\ n - 1 >= chain_nonce BY <1>4, <2>2
    <3>2. ~Above(n - 1) BY <1>4, <3>1
    <3>3. PICK i \in Holding : ~(n - 1 > rows[i].nonce) BY <3>1, <3>2
    <3>4. n = rows[i].nonce + 1 BY <1>1, <1>2, <1>4, <3>3
    <3>5. QED BY <3>3, <3>4
  <2>3. QED BY <2>1, <2>2
<1>6. allocated(chain_nonce) = CHOOSE k \in Candidates : Above(k) BY DEF allocated
<1>7. allocated(chain_nonce) \in Candidates /\ Above(allocated(chain_nonce))
  BY <1>4, <1>5, <1>6
<1>8. Candidates \subseteq Nat BY <1>1, <1>2
<1> DEFINE next == allocated(chain_nonce)
<1> HIDE DEF next
<1>9. next \in Nat /\ next >= chain_nonce /\ \A i \in Holding : rows[i].nonce < next
  BY <1>1, <1>2, <1>7, <1>8 DEF next
<1>10. QED BY <1>7, <1>9 DEF next

\* Every earlier identity of an intent's action was used up by a confirmed revert.
Opened(i) == \A j \in 1 .. i[2] - 1 : rows[<<i[1], j>>].status = CONFIRMED_REVERTED

LEMMA NextIntent ==
  ASSUME NEW a \in Actions
  PROVE  _next_attempt_intent(a) \in Intents /\ Opened(_next_attempt_intent(a))
<1> DEFINE Last(k) == rows[<<a, k>>].status # CONFIRMED_REVERTED \/ k + 1 \notin Tries(a)
<1> DEFINE First(k) == (\A j \in 1 .. k - 1 : rows[<<a, j>>].status = CONFIRMED_REVERTED) /\ Last(k)
<1>1. PICK top \in {1, MaxTries} : 1 <= top /\ Tries(a) = 1 .. top BY DEF Tries
<1>2. {k \in Tries(a) : Last(k)} \in SUBSET Nat /\ top \in {k \in Tries(a) : Last(k)} BY <1>1
<1>3. PICK k \in {k \in Tries(a) : Last(k)} : \A m \in {j \in Tries(a) : Last(j)} : k <= m
  BY <1>2, Least
<1>4. \A j \in 1 .. k - 1 : rows[<<a, j>>].status = CONFIRMED_REVERTED BY <1>1, <1>3
<1>5. \E n \in Tries(a) : First(n) BY <1>3, <1>4
<1> DEFINE chosen == CHOOSE n \in Tries(a) : First(n)
<1>6. chosen \in Tries(a) /\ First(chosen) BY <1>5
<1>7. _next_attempt_intent(a) = <<a, chosen>> BY DEF _next_attempt_intent
<1> HIDE DEF chosen
<1>8. QED BY <1>6, <1>7, IntentParts DEF Opened

-----------------------------------------------------------------------------
\* What a status says of the chain, if an intent's row bore it, or bears it.  A block
\* that is not canonical now was mined before the latest reorganisation, so whatever
\* is mined at its height from now on is told from it.
Borne(i, status, block) ==
  LET height == rows[i].nonce + 1
      spent == mined[height] IN
  /\ status \in INCLUDED =>
       /\ block[1] = height /\ block[2] <= forks
       /\ height <= Len(mined) /\ spent.fork = block[2] =>
            spent.tx = i /\ spent.ok = (status = INCLUDED_SUCCESS)
       /\ height > Len(mined) => block[2] < forks
  /\ status \in {CONFIRMED_SUCCESS, CONFIRMED_REVERTED} =>
       height <= safe /\ spent.tx = i /\ spent.ok = (status = CONFIRMED_SUCCESS)
  /\ status = NONCE_CONSUMED_OR_REPLACED => height <= safe /\ spent.tx # i

\* A row that has no status was never written, and every other one tells the truth.
RowsTrue ==
  \A i \in Intents :
    /\ rows[i].status = "none" => rows[i] = NoRow
    /\ rows[i].status # "none" => Opened(i)
    /\ Borne(i, rows[i].status, rows[i].block)

\* A running command works on a row that exists, read it before it was settled, and
\* what it is about to write was true when it learnt it and still is.
CallTrue(c) ==
  c # Idle =>
    /\ c.step = "sign" => Opened(c.intent)
    /\ c.step # "sign" => Signed(c.intent) /\ c.seen.status \in ALL_STATUSES
    /\ c.step = "attempt" => c.seen.status = SIGNED
    /\ c.step = "replay" => c.seen.status \notin TERMINAL_STATUSES
    /\ c.step = "apply" =>
         c.answer.status \in ALL_STATUSES /\ Borne(c.intent, c.answer.status, c.answer.block)
CallsTrue == \A p \in Commands : CallTrue(calls[p])

\* Whatever reached a node was signed, and a block's place is its transaction's nonce.
Chained ==
  /\ \A h \in 1 .. Len(mined) :
       /\ mined[h].fork <= forks
       /\ mined[h].tx # Foreign =>
            Signed(mined[h].tx) /\ rows[mined[h].tx].nonce + 1 = h
  /\ \A i \in mempool : Signed(i)

LedgerInv == TypeOK /\ Bounded /\ RowsTrue /\ CallsTrue /\ Chained

LEMMA SignedHasStatus ==
  ASSUME RowsTrue, NEW i \in Intents
  PROVE  Signed(i) <=> rows[i].status # "none"
BY DEF RowsTrue, Signed, NoRow

ChainTyped ==
  /\ Len(mined) \in Nat /\ safe \in Nat /\ safe <= Len(mined) /\ forks \in Nat
  /\ \A h \in 1 .. Len(mined) : mined[h] \in Mined
  /\ DOMAIN mined = 1 .. Len(mined)

LEMMA ChainFacts == (TypeOK => ChainTyped) /\ (TypeOK' => ChainTyped')
<1>1. TypeOK => ChainTyped
  BY LenProperties, ElementOfSeq DEF TypeOK, ChainTyped
<1>2. TypeOK' => ChainTyped'
  BY LenProperties, ElementOfSeq DEF TypeOK, ChainTyped
<1>3. QED BY <1>1, <1>2

LEMMA StatusFacts ==
  /\ TERMINAL_STATUSES \subseteq ALL_STATUSES /\ INCLUDED \subseteq ALL_STATUSES
  /\ "none" \notin ALL_STATUSES /\ UNKNOWN \notin ALL_STATUSES
  /\ INCLUDED \cap TERMINAL_STATUSES = {}
  /\ \A s \in {SIGNED, SEND_ATTEMPTED, PENDING, REORGED, STUCK, NONCE_CONFLICT_PENDING} :
       s \in ALL_STATUSES /\ s \notin INCLUDED /\ s \notin TERMINAL_STATUSES
BY DEF ALL_STATUSES, TERMINAL_STATUSES, INCLUDED, UNKNOWN, SIGNED, SEND_ATTEMPTED, PENDING,
       INCLUDED_SUCCESS, INCLUDED_REVERTED, CONFIRMED_SUCCESS, CONFIRMED_REVERTED, REORGED,
       NONCE_CONFLICT_PENDING, NONCE_CONSUMED_OR_REPLACED, STUCK, UNBROADCAST

\* A status of which the chain need not say anything.
LEMMA SaysNothing ==
  ASSUME NEW i, NEW block,
         NEW s \in {"none", SIGNED, SEND_ATTEMPTED, PENDING, REORGED, STUCK,
                    NONCE_CONFLICT_PENDING, UNBROADCAST, UNKNOWN}
  PROVE  Borne(i, s, block) /\ Borne(i, s, block)'
BY DEF Borne, INCLUDED, UNKNOWN, SIGNED, SEND_ATTEMPTED, PENDING, INCLUDED_SUCCESS,
       INCLUDED_REVERTED, CONFIRMED_SUCCESS, CONFIRMED_REVERTED, REORGED,
       NONCE_CONFLICT_PENDING, NONCE_CONSUMED_OR_REPLACED, STUCK, UNBROADCAST

\* Nothing leads out of a terminal status.
LEMMA NothingAfter ==
  ASSUME NEW s \in TERMINAL_STATUSES
  PROVE  ALLOWED_TRANSITIONS[s] = {}
BY DEF ALLOWED_TRANSITIONS, TERMINAL_STATUSES, ALL_STATUSES, INCLUDED, SIGNED, SEND_ATTEMPTED,
       PENDING, INCLUDED_SUCCESS, INCLUDED_REVERTED, CONFIRMED_SUCCESS, CONFIRMED_REVERTED,
       REORGED, NONCE_CONFLICT_PENDING, NONCE_CONSUMED_OR_REPLACED, STUCK, UNBROADCAST

LEMMA RunningCall ==
  ASSUME TypeOK, NEW p \in Commands
  PROVE  /\ calls[p] = Idle <=> calls[p].step = "idle"
         /\ calls[p] # Idle => calls[p] \in Call /\ calls[p].intent \in Intents
BY DEF TypeOK, Idle, Call, Steps

-----------------------------------------------------------------------------
\* The chain moves: up to the safe head nothing changes, and above it a block is the one
\* it was or is newer than every reorganisation.
ChainMoves ==
  /\ rows' = rows /\ calls' = calls
  /\ safe <= safe' /\ forks <= forks' /\ safe' <= Len(mined')
  /\ \A h \in 1 .. safe : mined'[h] = mined[h]
  /\ \A h \in 1 .. Len(mined') :
       \/ h <= Len(mined) /\ mined'[h] = mined[h]
       \/ h > Len(mined) /\ mined'[h].fork = forks
  /\ Len(mined') < Len(mined) => forks < forks'

LEMMA BorneStays ==
  ASSUME TypeOK, TypeOK', ChainMoves, Chained,
         NEW i \in Intents, NEW s, NEW b \in Block, Borne(i, s, b)
  PROVE  Borne(i, s, b)'
<1> DEFINE height == rows[i].nonce + 1
<1>0. ChainTyped /\ ChainTyped' BY ChainFacts
<1>1. height \in Nat /\ height >= 1 BY DEF TypeOK, Row
<1>2. rows' = rows BY DEF ChainMoves
<1>3. b[1] \in Nat /\ b[2] \in Nat BY DEF Block
<1>4. height <= safe => mined'[height] = mined[height] /\ height <= safe'
  BY <1>1, <1>0 DEF ChainMoves, ChainTyped
<1>5. ASSUME s \in INCLUDED
      PROVE  /\ b[1] = height /\ b[2] <= forks'
             /\ height <= Len(mined') /\ mined'[height].fork = b[2] =>
                  mined'[height].tx = i /\ mined'[height].ok = (s = INCLUDED_SUCCESS)
             /\ height > Len(mined') => b[2] < forks'
  <2>1. b[1] = height /\ b[2] <= forks BY <1>5 DEF Borne
  <2>2. b[2] <= forks' BY <1>3, <2>1, <1>0 DEF ChainMoves, ChainTyped
  <2>3. ASSUME height <= Len(mined'), mined'[height].fork = b[2]
        PROVE  mined'[height].tx = i /\ mined'[height].ok = (s = INCLUDED_SUCCESS)
    <3>1. height \in 1 .. Len(mined') BY <1>1, <2>3, <1>0 DEF ChainTyped
    <3>2. CASE height <= Len(mined) /\ mined'[height] = mined[height]
      BY <1>5, <2>3, <3>2 DEF Borne
    <3>3. CASE height > Len(mined) /\ mined'[height].fork = forks
      <4>1. b[2] < forks BY <1>5, <3>3 DEF Borne
      <4>2. QED BY <1>3, <2>3, <3>3, <4>1, <1>0 DEF ChainTyped
    <3>4. QED BY <3>1, <3>2, <3>3 DEF ChainMoves
  <2>4. ASSUME height > Len(mined')
        PROVE  b[2] < forks'
    <3>1. CASE height > Len(mined)
      <4>1. b[2] < forks BY <1>5, <3>1 DEF Borne
      <4>2. QED BY <1>3, <4>1, <1>0 DEF ChainMoves, ChainTyped
    <3>2. CASE ~(height > Len(mined))
      <4>1. forks < forks' BY <1>1, <2>4, <3>2, <1>0 DEF ChainMoves, ChainTyped
      <4>2. QED BY <1>3, <2>1, <4>1, <1>0 DEF ChainTyped
    <3>3. QED BY <3>1, <3>2
  <2>5. QED BY <2>1, <2>2, <2>3, <2>4
<1>6. QED BY <1>2, <1>4, <1>5 DEF Borne

\* A settled row stays as it is.
Settles == \A i \in Intents : Terminal(i) => rows'[i] = rows[i]

LEMMA ChainKeeps ==
  ASSUME LedgerInv, ChainMoves, TypeOK', Chained'
  PROVE  LedgerInv' /\ Settles
<1>1. rows' = rows /\ calls' = calls BY DEF ChainMoves
<1>2. Bounded' BY <1>1 DEF LedgerInv, Bounded
<1>3. RowsTrue'
  <2>1. ASSUME NEW i \in Intents
        PROVE  Borne(i, rows[i].status, rows[i].block)'
    <3>1. rows[i].block \in Block BY DEF LedgerInv, TypeOK, Row
    <3>2. Borne(i, rows[i].status, rows[i].block) BY DEF LedgerInv, RowsTrue
    <3>3. PICK s, b : s = rows[i].status /\ b = rows[i].block OBVIOUS
    <3>4. Borne(i, s, b)' BY <3>1, <3>2, <3>3, BorneStays DEF LedgerInv
    <3>5. QED BY <1>1, <3>3, <3>4 DEF Borne
  <2>2. QED BY <1>1, <2>1 DEF LedgerInv, RowsTrue, Opened
<1>4. CallsTrue'
  <2>1. ASSUME NEW p \in Commands
        PROVE  CallTrue(calls[p])'
    <3>1. CASE calls[p] = Idle BY <1>1, <3>1 DEF CallTrue
    <3>2. CASE calls[p] # Idle
      <4>1. calls[p] \in Call /\ calls[p].intent \in Intents /\ calls[p].answer.block \in Block
        BY <3>2, RunningCall DEF LedgerInv, Call
      <4>2. CallTrue(calls[p]) BY DEF LedgerInv, CallsTrue
      <4>3. calls[p].step = "apply" =>
              Borne(calls[p].intent, calls[p].answer.status, calls[p].answer.block)'
        <5> SUFFICES ASSUME calls[p].step = "apply"
                     PROVE  Borne(calls[p].intent, calls[p].answer.status, calls[p].answer.block)'
          OBVIOUS
        <5>1. PICK i, s, b : i = calls[p].intent /\ s = calls[p].answer.status
                              /\ b = calls[p].answer.block
          OBVIOUS
        <5>2. Borne(i, s, b) BY <3>2, <4>2, <5>1 DEF CallTrue
        <5>3. Borne(i, s, b)' BY <4>1, <5>1, <5>2, BorneStays DEF LedgerInv
        <5>4. QED BY <1>1, <5>1, <5>3 DEF Borne
      <4>4. QED BY <1>1, <3>2, <4>2, <4>3 DEF CallTrue, Opened, Signed
    <3>3. QED BY <3>1, <3>2
  <2>2. QED BY <2>1 DEF CallsTrue
<1>5. Settles BY <1>1 DEF Settles
<1>6. QED BY <1>2, <1>3, <1>4, <1>5 DEF LedgerInv

-----------------------------------------------------------------------------
\* Each move of the chain is one.
LEMMA Drops ==
  ASSUME LedgerInv, NEW i \in Intents, Drop(i)
  PROVE  LedgerInv' /\ Settles
<1>0. ChainTyped BY ChainFacts DEF LedgerInv
<1>1. TypeOK' BY DEF LedgerInv, TypeOK, Drop, chain
<1>2. ChainMoves BY <1>0 DEF ChainMoves, Drop, chain, ChainTyped
<1>3. Chained' BY DEF LedgerInv, Chained, Drop, chain, Signed
<1>4. QED BY <1>1, <1>2, <1>3, ChainKeeps

LEMMA Mines ==
  ASSUME LedgerInv, NEW i \in Intents, NEW ok \in BOOLEAN, Mine(i, ok)
  PROVE  LedgerInv' /\ Settles
<1> DEFINE b == [tx |-> i, ok |-> ok, fork |-> forks]
<1>0. ChainTyped BY ChainFacts DEF LedgerInv
<1>1. b \in Mined BY <1>0 DEF Mined, ChainTyped
<1>2. /\ mined' \in Seq(Mined) /\ Len(mined') = Len(mined) + 1
      /\ \A h \in 1 .. Len(mined) : mined'[h] = mined[h]
      /\ mined'[Len(mined) + 1] = b
  BY <1>1, Appended DEF LedgerInv, TypeOK, Mine
<1>3. TypeOK' BY <1>0, <1>2 DEF LedgerInv, TypeOK, Mine, ChainTyped
<1>4. ChainMoves BY <1>0, <1>2 DEF ChainMoves, Mine, ChainTyped
<1>5. Chained'
  <2>1. Signed(i) /\ rows[i].nonce = Len(mined) BY DEF LedgerInv, Chained, Mine
  <2>2. ASSUME NEW h \in 1 .. Len(mined')
        PROVE  (mined'[h].fork <= forks /\
                (mined'[h].tx # Foreign => Signed(mined'[h].tx) /\ rows[mined'[h].tx].nonce + 1 = h))
    <3>1. CASE h \in 1 .. Len(mined) BY <1>2, <3>1 DEF LedgerInv, Chained
    <3>2. CASE h = Len(mined) + 1 BY <1>0, <1>2, <2>1, <3>2 DEF ChainTyped
    <3>3. QED BY <1>0, <1>2, <3>1, <3>2 DEF ChainTyped
  <2>3. \A j \in mempool' : Signed(j) BY DEF LedgerInv, Chained, Mine
  <2>4. rows' = rows /\ forks' = forks BY DEF Mine
  <2>5. \A h \in 1 .. Len(mined') :
          /\ mined'[h].fork <= forks'
          /\ mined'[h].tx # Foreign => Signed(mined[h].tx)' /\ rows'[mined'[h].tx].nonce + 1 = h
    BY <2>2, <2>4 DEF Signed
  <2>6. \A j \in mempool' : Signed(j)' BY <2>3, <2>4 DEF Signed
  <2>7. QED BY <2>5, <2>6 DEF Chained
<1>6. QED BY <1>3, <1>4, <1>5, ChainKeeps

LEMMA MinesForeign ==
  ASSUME LedgerInv, MineForeign
  PROVE  LedgerInv' /\ Settles
<1> DEFINE b == [tx |-> Foreign, ok |-> TRUE, fork |-> forks]
<1>0. ChainTyped BY ChainFacts DEF LedgerInv
<1>1. b \in Mined BY <1>0 DEF Mined, ChainTyped
<1>2. /\ mined' \in Seq(Mined) /\ Len(mined') = Len(mined) + 1
      /\ \A h \in 1 .. Len(mined) : mined'[h] = mined[h]
      /\ mined'[Len(mined) + 1] = b
  BY <1>1, Appended DEF LedgerInv, TypeOK, MineForeign
<1>3. TypeOK'
  <2>1. safe' \in 0 .. Len(mined') BY <1>0, <1>2 DEF MineForeign, ChainTyped
  <2>2. QED BY <1>2, <2>1 DEF LedgerInv, TypeOK, MineForeign
<1>4. ChainMoves BY <1>0, <1>2 DEF ChainMoves, MineForeign, ChainTyped
<1>5. Chained'
  <2>1. ASSUME NEW h \in 1 .. Len(mined')
        PROVE  (mined'[h].fork <= forks /\
                (mined'[h].tx # Foreign => Signed(mined'[h].tx) /\ rows[mined'[h].tx].nonce + 1 = h))
    <3>1. CASE h \in 1 .. Len(mined) BY <1>2, <3>1 DEF LedgerInv, Chained
    <3>2. CASE h = Len(mined) + 1 BY <1>0, <1>2, <3>2 DEF ChainTyped
    <3>3. QED BY <1>0, <1>2, <3>1, <3>2 DEF ChainTyped
  <2>2. QED BY <2>1 DEF LedgerInv, Chained, MineForeign, Signed
<1>6. QED BY <1>3, <1>4, <1>5, ChainKeeps

LEMMA Reorganises ==
  ASSUME LedgerInv, NEW height \in safe .. Len(mined) - 1, Reorg(height)
  PROVE  LedgerInv' /\ Settles
<1>0. ChainTyped BY ChainFacts DEF LedgerInv
<1>1. height \in 0 .. Len(mined) /\ safe <= height /\ height < Len(mined)
  BY <1>0 DEF ChainTyped
<1>2. /\ mined' \in Seq(Mined) /\ Len(mined') = height
      /\ \A h \in 1 .. height : mined'[h] = mined[h]
  BY <1>1, Truncated DEF LedgerInv, TypeOK, Reorg
<1>3. \A i \in mempool' : i \in mempool \/ \E h \in 1 .. Len(mined) : i = mined[h].tx /\ i # Foreign
  BY <1>0, <1>1 DEF Reorg, ChainTyped
<1>4. mempool' \subseteq Intents
  BY <1>0, <1>3 DEF LedgerInv, TypeOK, ChainTyped, Mined
<1>5. TypeOK'
  <2>1. forks' \in 0 .. MaxForks BY <1>0 DEF Reorg, ChainTyped
  <2>2. safe' \in 0 .. Len(mined') BY <1>0, <1>1, <1>2 DEF Reorg, ChainTyped
  <2>3. QED BY <1>2, <1>4, <2>1, <2>2 DEF LedgerInv, TypeOK, Reorg
<1>6. ChainMoves BY <1>0, <1>1, <1>2 DEF ChainMoves, Reorg, ChainTyped
<1>7. Chained'
  <2>1. \A i \in mempool' : Signed(i)
    BY <1>3 DEF LedgerInv, Chained
  <2>2. \A h \in 1 .. height :
          /\ mined'[h].fork <= forks'
          /\ mined'[h].tx # Foreign => Signed(mined'[h].tx) /\ rows[mined'[h].tx].nonce + 1 = h
    <3>1. ASSUME NEW h \in 1 .. height
          PROVE  mined[h].fork \in Nat /\ mined[h].fork <= forks /\ h \in 1 .. Len(mined)
      BY <1>0, <1>1 DEF LedgerInv, Chained, ChainTyped, Mined
    <3>2. QED BY <1>0, <1>2, <3>1 DEF LedgerInv, Chained, Reorg, ChainTyped
  <2>3. QED BY <1>2, <2>1, <2>2 DEF Chained, Reorg, Signed
<1>8. QED BY <1>5, <1>6, <1>7, ChainKeeps

LEMMA SafeAdvances ==
  ASSUME LedgerInv, AdvanceSafe
  PROVE  LedgerInv' /\ Settles
<1>0. ChainTyped BY ChainFacts DEF LedgerInv
<1>1. TypeOK' BY <1>0 DEF LedgerInv, TypeOK, AdvanceSafe, ChainTyped
<1>2. ChainMoves BY <1>0 DEF ChainMoves, AdvanceSafe, ChainTyped
<1>3. Chained' BY DEF LedgerInv, Chained, AdvanceSafe, Signed
<1>4. QED BY <1>1, <1>2, <1>3, ChainKeeps

LEMMA DeadlineIsPast ==
  ASSUME LedgerInv, DeadlinePasses
  PROVE  LedgerInv' /\ Settles
<1>0. ChainTyped BY ChainFacts DEF LedgerInv
<1>1. TypeOK' BY DEF LedgerInv, TypeOK, DeadlinePasses
<1>2. ChainMoves BY <1>0 DEF ChainMoves, DeadlinePasses, ChainTyped
<1>3. Chained' BY DEF LedgerInv, Chained, DeadlinePasses, Signed
<1>4. QED BY <1>1, <1>2, <1>3, ChainKeeps

LEMMA ForeignSigned ==
  ASSUME LedgerInv, NEW n \in PendingCounts, ForeignSigns(n)
  PROVE  LedgerInv' /\ Settles
<1>0. ChainTyped BY ChainFacts DEF LedgerInv
<1>1. n \in Nat BY CountsTyped DEF LedgerInv
<1>2. TypeOK' BY <1>1 DEF LedgerInv, TypeOK, ForeignSigns
<1>3. ChainMoves BY <1>0 DEF ChainMoves, ForeignSigns, ChainTyped
<1>4. Chained' BY DEF LedgerInv, Chained, ForeignSigns, Signed
<1>5. QED BY <1>2, <1>3, <1>4, ChainKeeps

LEMMA EnvironmentKeeps ==
  ASSUME LedgerInv, Environment
  PROVE  LedgerInv' /\ Settles
BY Drops, Mines, ForeignSigned, MinesForeign, Reorganises, SafeAdvances, DeadlineIsPast DEF Environment

-----------------------------------------------------------------------------
\* A command writes one row at most, and nothing that was settled.
RowWritten(i, row) ==
  /\ rows' = [rows EXCEPT ![i] = row]
  /\ \/ row = rows[i]
     \/ /\ row.status \in ALL_STATUSES /\ ~Terminal(i)
        /\ Signed(i) => row.nonce = rows[i].nonce
        /\ ~Signed(i) => Opened(i)

\* The row that is written tells the truth, so does what the command knows next, and
\* only signed bytes reach a node.
LEMMA LedgerKeeps ==
  ASSUME LedgerInv, UNCHANGED chain,
         NEW i \in Intents, NEW row \in Row, RowWritten(i, row),
         Borne(i, row.status, row.block)',
         NEW p \in Commands, NEW c \in Call \cup {Idle},
         calls' = [calls EXCEPT ![p] = c], CallTrue(c)',
         mempool' \subseteq Intents, \A j \in mempool' : j \in mempool \/ Signed(j)
  PROVE  LedgerInv' /\ Settles
<1>1. TypeOK' BY DEF LedgerInv, TypeOK, chain, RowWritten
<1>2. \A j \in Intents : j # i => rows'[j] = rows[j] BY DEF LedgerInv, TypeOK, RowWritten
<1>3. rows'[i] = row BY DEF LedgerInv, TypeOK, RowWritten
<1>4. \A j \in Intents : Terminal(j) => rows'[j] = rows[j]
  BY <1>2, <1>3 DEF RowWritten
<1>5. \A j \in Intents : Signed(j) => Signed(j)' /\ rows'[j].nonce = rows[j].nonce
  BY <1>2, <1>3, StatusFacts DEF RowWritten, Signed, NoRow
<1>6. \A j \in Intents : Opened(j) => Opened(j)'
  <2>1. ASSUME NEW j \in Intents, Opened(j), NEW k \in 1 .. j[2] - 1
        PROVE  rows'[<<j[1], k>>].status = CONFIRMED_REVERTED
    <3>1. <<j[1], k>> \in Intents BY <2>1, IntentParts
    <3>2. rows[<<j[1], k>>].status = CONFIRMED_REVERTED BY <2>1 DEF Opened
    <3>3. Terminal(<<j[1], k>>) BY <3>2 DEF Terminal, TERMINAL_STATUSES
    <3>4. QED BY <1>4, <3>1, <3>2, <3>3
  <2>2. QED BY <2>1 DEF Opened
<1>7. \A j \in Intents : Signed(j) => \A s : \A b : Borne(j, s, b) => Borne(j, s, b)'
  BY <1>5 DEF Borne, chain
<1>8. Bounded'
  <2>1. PICK m \in Nat : \A j \in Intents : rows[j].nonce <= m BY DEF LedgerInv, Bounded
  <2>2. row.nonce \in Nat /\ \A j \in Intents : rows[j].nonce \in Nat BY DEF Row, LedgerInv, TypeOK
  <2>3. m + row.nonce \in Nat /\ \A j \in Intents : rows'[j].nonce <= m + row.nonce
    BY <1>2, <1>3, <2>1, <2>2
  <2>4. QED BY <2>3 DEF Bounded
<1>9. RowsTrue'
  <2>1. ASSUME NEW j \in Intents
        PROVE  /\ rows'[j].status = "none" => rows'[j] = NoRow
               /\ rows'[j].status # "none" => Opened(j)'
               /\ Borne(j, rows[j].status, rows[j].block)'
    <3>1. /\ rows[j].status = "none" => rows[j] = NoRow
          /\ rows[j].status # "none" => Opened(j)
          /\ Borne(j, rows[j].status, rows[j].block)
      BY DEF LedgerInv, RowsTrue
    <3>2. CASE j # i
      <4>1. rows'[j] = rows[j] BY <1>2, <3>2
      <4>2. Borne(j, rows[j].status, rows[j].block)'
        <5>1. PICK s, b : s = rows[j].status /\ b = rows[j].block OBVIOUS
        <5>2. Borne(j, s, b) BY <3>1, <5>1
        <5>3. Borne(j, s, b)' BY <4>1, <5>2 DEF Borne, chain
        <5>4. QED BY <4>1, <5>1, <5>3 DEF Borne
      <4>3. QED BY <1>6, <3>1, <4>1, <4>2
    <3>3. CASE j = i
      <4>1. rows'[j] = row BY <1>3, <3>3
      <4>2. Borne(j, rows[j].status, rows[j].block)' BY <3>3, <4>1 DEF Borne
      <4>3. row.status = "none" => row = NoRow
        BY <3>1, <3>3, StatusFacts DEF RowWritten
      <4>4. row.status # "none" => Opened(j)
        BY <3>1, <3>3 DEF RowWritten, Signed, NoRow
      <4>5. QED BY <1>6, <4>1, <4>2, <4>3, <4>4
    <3>4. QED BY <3>2, <3>3
  <2>2. QED BY <2>1 DEF RowsTrue
<1>10. CallsTrue'
  <2>1. ASSUME NEW q \in Commands
        PROVE  CallTrue(calls[q])'
    <3>1. CASE q = p
      <4>1. calls'[q] = c BY <3>1 DEF LedgerInv, TypeOK
      <4>2. QED BY <4>1 DEF CallTrue, Opened, Signed, Borne
    <3>2. CASE q # p
      <4>1. calls'[q] = calls[q] BY <3>2 DEF LedgerInv, TypeOK
      <4>2. CallTrue(calls[q]) BY DEF LedgerInv, CallsTrue
      <4>3. calls[q] # Idle => calls[q].intent \in Intents BY RunningCall DEF LedgerInv
      <4>4. PICK d : d = calls[q] OBVIOUS
      <4>5. ASSUME d # Idle, d.step = "apply"
            PROVE  Borne(d.intent, d.answer.status, d.answer.block)'
        BY <1>7, <4>2, <4>3, <4>4, <4>5 DEF CallTrue
      <4>6. d # Idle /\ d.step = "sign" => Opened(d.intent)'
        BY <1>6, <4>2, <4>3, <4>4 DEF CallTrue
      <4>7. d # Idle /\ d.step # "sign" => Signed(d.intent)'
        BY <1>5, <4>2, <4>3, <4>4 DEF CallTrue
      <4>8. CallTrue(d)' BY <4>2, <4>4, <4>5, <4>6, <4>7 DEF CallTrue
      <4>9. QED BY <4>1, <4>4, <4>8 DEF CallTrue, Opened, Signed, Borne
    <3>3. QED BY <3>1, <3>2
  <2>2. QED BY <2>1 DEF CallsTrue
<1>11. Chained'
  <2>1. \A h \in 1 .. Len(mined) : mined[h].tx # Foreign => mined[h].tx \in Intents
    BY ChainFacts DEF LedgerInv, ChainTyped, Mined
  <2>2. \A j \in mempool' : Signed(j)' BY <1>5 DEF LedgerInv, Chained
  <2>3. \A h \in 1 .. Len(mined) :
          /\ mined[h].fork <= forks
          /\ mined[h].tx # Foreign =>
               rows'[mined[h].tx] # NoRow /\ rows'[mined[h].tx].nonce + 1 = h
    BY <1>5, <2>1 DEF LedgerInv, Chained, Signed
  <2>4. QED BY <2>2, <2>3 DEF Chained, Signed, chain
<1>12. Settles BY <1>4 DEF Settles
<1>13. QED BY <1>1, <1>8, <1>9, <1>10, <1>11, <1>12 DEF LedgerInv

\* A command goes on and writes no row.
LEMMA CallMoves ==
  ASSUME LedgerInv, UNCHANGED <<rows, chain>>,
         NEW p \in Commands, NEW c \in Call \cup {Idle},
         calls' = [calls EXCEPT ![p] = c], CallTrue(c),
         mempool' \subseteq Intents, \A j \in mempool' : j \in mempool \/ Signed(j)
  PROVE  LedgerInv' /\ Settles
<1>1. CASE Intents = {}
  <2>1. c = Idle BY <1>1, RunningCall DEF Call
  <2>2. TypeOK' BY DEF LedgerInv, TypeOK, chain
  <2>3. CallsTrue'
    <3>1. \A q \in Commands : calls'[q] = Idle
      BY <1>1, <2>1, RunningCall DEF LedgerInv, TypeOK
    <3>2. QED BY <3>1 DEF CallsTrue, CallTrue
  <2>4. Chained' BY <1>1 DEF LedgerInv, Chained, chain, Signed
  <2>5. QED BY <1>1, <2>2, <2>3, <2>4 DEF LedgerInv, Bounded, RowsTrue, Settles
<1>2. CASE Intents # {}
  <2>1. PICK i \in Intents : TRUE BY <1>2
  <2>2. PICK row : row = rows[i] OBVIOUS
  <2>3. row \in Row BY <2>2 DEF LedgerInv, TypeOK
  <2>4. RowWritten(i, row)
    <3>1. rows' = [rows EXCEPT ![i] = row] BY <2>2 DEF LedgerInv, TypeOK
    <3>2. QED BY <2>2, <3>1 DEF RowWritten
  <2>5. Borne(i, row.status, row.block)'
    <3>1. PICK s, b : s = row.status /\ b = row.block OBVIOUS
    <3>2. Borne(i, s, b) BY <2>2, <3>1 DEF LedgerInv, RowsTrue
    <3>3. Borne(i, s, b)' BY <3>2 DEF Borne, chain
    <3>4. QED BY <3>1, <3>3
  <2>6. CallTrue(c)' BY DEF CallTrue, Opened, Signed, Borne, chain
  <2>7. QED BY <2>3, <2>4, <2>5, <2>6, LedgerKeeps DEF chain
<1>3. QED BY <1>1, <1>2

LEMMA Leaves ==
  ASSUME LedgerInv, NEW p \in Commands, Leave(p), UNCHANGED <<rows, mempool, chain>>
  PROVE  LedgerInv' /\ Settles
<1>1. mempool' \subseteq Intents /\ \A j \in mempool' : j \in mempool
  BY DEF LedgerInv, TypeOK
<1>2. CallTrue(Idle) BY DEF CallTrue
<1>3. QED BY <1>1, <1>2, CallMoves DEF Leave

LEMMA Deals ==
  ASSUME LedgerInv, NEW p \in Commands, NEW a \in Actions, deal_action(p, a)
  PROVE  LedgerInv' /\ Settles
<1>1. PICK i : i = _next_attempt_intent(a) OBVIOUS
<1>2. i \in Intents /\ Opened(i) BY <1>1, NextIntent
<1> DEFINE c == [step |-> "sign", intent |-> i, answer |-> NoAnswer,
                 seen |-> [status |-> NoRow.status, attempts |-> NoRow.attempts]]
<1>3. c \in Call BY <1>2 DEF Call, Steps, NoRow, NoAnswer, NoBlock, Block
<1>4. CallTrue(c) BY <1>2 DEF CallTrue
<1>5. calls' = [calls EXCEPT ![p] = c] /\ UNCHANGED <<rows, mempool, chain>>
  BY <1>1 DEF deal_action, Enter
<1>6. mempool' \subseteq Intents /\ \A j \in mempool' : j \in mempool
  BY <1>5 DEF LedgerInv, TypeOK
<1> HIDE DEF c
<1>7. QED BY <1>3, <1>4, <1>5, <1>6, CallMoves

LEMMA Signs ==
  ASSUME LedgerInv, NEW p \in Commands, record_signed(p)
  PROVE  LedgerInv' /\ Settles
<1>1. PICK i : i = calls[p].intent OBVIOUS
<1>2. calls[p] # Idle /\ calls[p].step = "sign" /\ i \in Intents
  BY <1>1, RunningCall DEF LedgerInv, record_signed, At, Idle
<1>3. Opened(i) BY <1>1, <1>2 DEF LedgerInv, CallsTrue, CallTrue
<1>4. CASE Leave(p) /\ UNCHANGED rows BY <1>4, Leaves DEF record_signed
<1>5. ASSUME NEW chain_nonce \in PendingCounts, ~Signed(i),
             LET row == [status |-> SIGNED, nonce |-> allocated(chain_nonce),
                         attempts |-> 0, block |-> NoBlock] IN
             rows' = [rows EXCEPT ![i] = row] /\ Enter(p, "attempt", i, row, NoAnswer)
      PROVE  LedgerInv' /\ Settles
  <2>1. PICK row : row = [status |-> SIGNED, nonce |-> allocated(chain_nonce),
                          attempts |-> 0, block |-> NoBlock]
    OBVIOUS
  <2> DEFINE c == [step |-> "attempt", intent |-> i, answer |-> NoAnswer,
                   seen |-> [status |-> row.status, attempts |-> row.attempts]]
  <2>2. allocated(chain_nonce) \in Nat
    BY CountsTyped, Allocated DEF LedgerInv, TypeOK
  <2>3. row \in Row BY <2>1, <2>2 DEF Row, NoBlock, Block, ALL_STATUSES
  <2>4. c \in Call
    BY <1>2, <2>1, <2>3 DEF Call, Steps, NoAnswer, NoBlock, Block, ALL_STATUSES
  <2>5. ~Terminal(i)
    <3>1. rows[i].status = "none" BY <1>2, <1>5, SignedHasStatus DEF LedgerInv
    <3>2. QED BY <3>1, StatusFacts DEF Terminal
  <2>6. rows' = [rows EXCEPT ![i] = row] /\ calls' = [calls EXCEPT ![p] = c]
    BY <1>5, <2>1 DEF Enter
  <2>7. RowWritten(i, row)
    BY <1>3, <1>5, <2>1, <2>5, <2>6, StatusFacts DEF RowWritten
  <2>8. Borne(i, row.status, row.block)'
    <3>1. PICK s, b : s = row.status /\ b = row.block OBVIOUS
    <3>2. s = SIGNED BY <2>1, <3>1
    <3>3. QED BY <3>1, <3>2, SaysNothing
  <2>9. CallTrue(c)'
    <3>1. rows'[i] = row BY <1>2, <2>6 DEF LedgerInv, TypeOK
    <3>2. row # NoRow BY <2>1, StatusFacts DEF NoRow
    <3>3. QED BY <2>1, <3>1, <3>2, StatusFacts DEF CallTrue, Signed
  <2>10. UNCHANGED <<mempool, chain>> /\ mempool' \subseteq Intents
    BY DEF record_signed, LedgerInv, TypeOK
  <2> HIDE DEF c
  <2>11. QED BY <1>2, <2>3, <2>4, <2>6, <2>7, <2>8, <2>9, <2>10, LedgerKeeps
<1>6. QED BY <1>1, <1>4, <1>5 DEF record_signed

\* The two writes: an attempt, and a verdict.
LEMMA AttemptRow ==
  ASSUME TypeOK, NEW c, c.intent \in Intents
  PROVE  LET row == Written(c, SEND_ATTEMPTED, NoBlock, TRUE) IN
         row \in Row /\ row.status = SEND_ATTEMPTED /\ row.nonce = rows[c.intent].nonce
<1>1. PICK old : old = rows[c.intent] OBVIOUS
<1>2. old \in Row BY <1>1 DEF TypeOK
<1>3. PICK n \in 0 .. 2 : n = IF old.attempts < 2 THEN old.attempts + 1 ELSE old.attempts
  BY <1>2 DEF Row
<1>4. PICK row : row = [old EXCEPT !.status = SEND_ATTEMPTED, !.block = NoBlock, !.attempts = n]
  OBVIOUS
<1>5. Written(c, SEND_ATTEMPTED, NoBlock, TRUE) = row BY <1>1, <1>3, <1>4 DEF Written
<1>6. row \in Row /\ row.status = SEND_ATTEMPTED /\ row.nonce = old.nonce
  BY <1>2, <1>4, StatusFacts DEF Row, NoBlock, Block
<1>7. QED BY <1>1, <1>5, <1>6

LEMMA VerdictRow ==
  ASSUME TypeOK, NEW c, c.intent \in Intents, c.answer.status \in ALL_STATUSES,
         c.answer.block \in Block
  PROVE  LET row == Written(c, c.answer.status, c.answer.block, FALSE) IN
         /\ row \in Row /\ row.status = c.answer.status /\ row.block = c.answer.block
         /\ row.nonce = rows[c.intent].nonce
<1>1. PICK old : old = rows[c.intent] OBVIOUS
<1>2. old \in Row BY <1>1 DEF TypeOK
<1>3. PICK row : row = [old EXCEPT !.status = c.answer.status, !.block = c.answer.block,
                                   !.attempts = old.attempts]
  OBVIOUS
<1>4. Written(c, c.answer.status, c.answer.block, FALSE) = row BY <1>1, <1>3 DEF Written
<1>5. /\ row \in Row /\ row.status = c.answer.status /\ row.block = c.answer.block
      /\ row.nonce = old.nonce
  BY <1>2, <1>3 DEF Row
<1>6. QED BY <1>1, <1>4, <1>5

LEMMA Attempts ==
  ASSUME LedgerInv, NEW p \in Commands, record_attempt(p)
  PROVE  LedgerInv' /\ Settles
<1>1. PICK o : o = calls[p] OBVIOUS
<1>2. o # Idle /\ o \in Call /\ o.intent \in Intents /\ CallTrue(o)
  BY <1>1, RunningCall DEF LedgerInv, CallsTrue, record_attempt, Idle
<1>3. Signed(o.intent) /\ o.seen.status \in ALL_STATUSES /\ o.seen.status \notin TERMINAL_STATUSES
  BY <1>1, <1>2, StatusFacts DEF CallTrue, record_attempt
<1>4. PICK row : row = Written(o, SEND_ATTEMPTED, NoBlock, TRUE) OBVIOUS
<1>5. rows[o.intent] \in Row BY <1>2 DEF LedgerInv, TypeOK
<1>6. row \in Row /\ row.status = SEND_ATTEMPTED /\ row.nonce = rows[o.intent].nonce
  BY <1>2, <1>4, AttemptRow DEF LedgerInv
<1>7. CASE Leave(p) /\ UNCHANGED rows BY <1>7, Leaves DEF record_attempt
<1>8. ASSUME Fresh(o), rows' = [rows EXCEPT ![o.intent] = row], NEW step \in {"send", "resend"},
             Enter(p, step, o.intent, row, NoAnswer)
      PROVE  LedgerInv' /\ Settles
  <2> DEFINE c == [step |-> step, intent |-> o.intent, answer |-> NoAnswer,
                   seen |-> [status |-> row.status, attempts |-> row.attempts]]
  <2>1. c \in Call BY <1>2, <1>6 DEF Call, Row, Steps, NoAnswer, NoBlock, Block
  <2>2. RowWritten(o.intent, row)
    BY <1>3, <1>6, <1>8, StatusFacts DEF RowWritten, Fresh, Terminal
  <2>3. Borne(o.intent, row.status, row.block)'
    <3>1. PICK i, s, b : i = o.intent /\ s = row.status /\ b = row.block OBVIOUS
    <3>2. s = SEND_ATTEMPTED BY <1>6, <3>1
    <3>3. QED BY <3>1, <3>2, SaysNothing
  <2>4. CallTrue(c)'
    <3>1. rows'[o.intent] = row BY <1>2, <1>8 DEF LedgerInv, TypeOK
    <3>2. row # NoRow BY <1>6, StatusFacts DEF NoRow
    <3>3. QED BY <1>6, <3>1, <3>2, StatusFacts DEF CallTrue, Signed
  <2>5. calls' = [calls EXCEPT ![p] = c] BY <1>8 DEF Enter
  <2>6. UNCHANGED <<mempool, chain>> /\ mempool' \subseteq Intents
    BY DEF record_attempt, LedgerInv, TypeOK
  <2> HIDE DEF c
  <2>7. QED BY <1>2, <1>6, <2>1, <2>2, <2>3, <2>4, <2>5, <2>6, LedgerKeeps
<1>9. \/ Leave(p) /\ UNCHANGED rows
      \/ /\ Fresh(o) /\ rows' = [rows EXCEPT ![o.intent] = row]
         /\ \E step \in {"send", "resend"} : Enter(p, step, o.intent, row, NoAnswer)
  BY <1>1, <1>4 DEF record_attempt
<1>10. QED BY <1>7, <1>8, <1>9

\* A node answered, or did not: the command knows what to write, which is nothing that
\* the chain must bear out.
LEMMA ConcludesTruly ==
  ASSUME LedgerInv, NEW p \in Commands, Sending(p) \/ At(p, "replay"),
         NEW s \in {SEND_ATTEMPTED, PENDING, STUCK, NONCE_CONFLICT_PENDING, UNBROADCAST},
         Concludes(p, s), UNCHANGED <<rows, chain>>,
         mempool' \in {mempool, mempool \cup {calls[p].intent}}
  PROVE  LedgerInv' /\ Settles
<1>1. PICK o : o = calls[p] OBVIOUS
<1>2. o # Idle /\ o \in Call /\ o.intent \in Intents /\ CallTrue(o)
  BY <1>1, RunningCall DEF LedgerInv, CallsTrue, Sending, At, Idle
<1>3. Signed(o.intent) /\ o.seen.status \in ALL_STATUSES
  BY <1>1, <1>2 DEF CallTrue, Sending, At
<1> DEFINE c == [o EXCEPT !.step = "apply", !.answer = [status |-> s, block |-> NoBlock]]
<1>4. s \in ALL_STATUSES BY DEF ALL_STATUSES
<1>5. c \in Call BY <1>2, <1>4 DEF Call, Steps, NoBlock, Block
<1>6. /\ c.step = "apply" /\ c.intent = o.intent /\ c.seen = o.seen
      /\ c.answer.status = s /\ c.answer.block = NoBlock
  BY <1>2 DEF Call
<1>7. Borne(o.intent, s, NoBlock)
  <2>1. PICK i : i = o.intent OBVIOUS
  <2>2. QED BY <2>1, SaysNothing
<1>8. calls' = [calls EXCEPT ![p] = c] BY <1>1 DEF Concludes, LedgerInv, TypeOK
<1>9. mempool' \subseteq Intents /\ \A j \in mempool' : j \in mempool \/ Signed(j)
  BY <1>1, <1>2, <1>3 DEF LedgerInv, TypeOK
<1> HIDE DEF c
<1>10. CallTrue(c) BY <1>3, <1>4, <1>6, <1>7 DEF CallTrue
<1>11. QED BY <1>5, <1>8, <1>9, <1>10, CallMoves

LEMMA Answers ==
  ASSUME LedgerInv, NEW p \in Commands,
         \/ broadcast_accepted(p) \/ broadcast_already_known(p) \/ broadcast_nonce_too_low(p)
         \/ broadcast_rejected(p) \/ broadcast_uncertain(p) \/ replay_too_late(p)
  PROVE  LedgerInv' /\ Settles
<1>1. CASE broadcast_accepted(p) BY <1>1, ConcludesTruly DEF broadcast_accepted, chain
<1>2. CASE broadcast_already_known(p) BY <1>2, ConcludesTruly DEF broadcast_already_known
<1>3. CASE broadcast_nonce_too_low(p) BY <1>3, ConcludesTruly DEF broadcast_nonce_too_low
<1>4. CASE broadcast_rejected(p)
  <2>1. PICK s \in {UNBROADCAST, STUCK} : Concludes(p, s) BY <1>4 DEF broadcast_rejected
  <2>2. QED BY <1>4, <2>1, ConcludesTruly DEF broadcast_rejected
<1>5. CASE broadcast_uncertain(p) BY <1>5, ConcludesTruly DEF broadcast_uncertain
<1>6. CASE replay_too_late(p) BY <1>6, ConcludesTruly DEF replay_too_late
<1>7. QED BY <1>1, <1>2, <1>3, <1>4, <1>5, <1>6

-----------------------------------------------------------------------------
\* What confirm answers of an included row is true.
LEMMA ConfirmsTruly ==
  ASSUME LedgerInv, NEW i \in Intents, rows[i].status \in INCLUDED, NEW v \in confirm(rows[i])
  PROVE  v.block \in Block /\ v.status \in ALL_STATUSES /\ Borne(i, v.status, v.block)
<1>0. ChainTyped BY ChainFacts DEF LedgerInv
<1>1. PICK row : row = rows[i] OBVIOUS
<1>2. row \in Row /\ Borne(i, row.status, row.block)
  BY <1>1 DEF LedgerInv, TypeOK, RowsTrue
<1> DEFINE height == row.nonce + 1
<1>3. /\ row.block[1] = height /\ height \in Nat /\ height >= 1
      /\ height <= Len(mined) /\ mined[height].fork = row.block[2] =>
           mined[height].tx = i /\ mined[height].ok = (row.status = INCLUDED_SUCCESS)
  BY <1>1, <1>2 DEF Borne, Row
<1>4. PICK tip \in Tips :
        v = IF row.block[1] > tip \/ mined[row.block[1]].fork # row.block[2]
            THEN [status |-> REORGED, block |-> NoBlock]
            ELSE [status |-> IF row.block[1] > safe THEN row.status
                             ELSE IF row.status = INCLUDED_SUCCESS
                             THEN CONFIRMED_SUCCESS ELSE CONFIRMED_REVERTED,
                  block |-> row.block]
  BY <1>1 DEF confirm
<1>5. tip \in Nat /\ tip <= Len(mined) BY <1>0, <1>4 DEF Tips, ChainTyped
<1>6. CASE height > tip \/ mined[height].fork # row.block[2]
  <2>1. v = [status |-> REORGED, block |-> NoBlock] BY <1>3, <1>4, <1>6
  <2>2. QED BY <2>1, SaysNothing, StatusFacts DEF NoBlock, Block
<1>7. CASE ~(height > tip \/ mined[height].fork # row.block[2])
  <2>1. height <= Len(mined) BY <1>0, <1>3, <1>5, <1>7 DEF ChainTyped
  <2>2. mined[height].tx = i /\ mined[height].ok = (row.status = INCLUDED_SUCCESS)
    BY <1>3, <1>7, <2>1
  <2>3. CASE height > safe
    <3>1. v = [status |-> row.status, block |-> row.block] BY <1>3, <1>4, <1>7, <2>3
    <3>2. QED BY <1>1, <1>2, <3>1, StatusFacts DEF Row
  <2>4. CASE ~(height > safe)
    <3>1. PICK s \in {CONFIRMED_SUCCESS, CONFIRMED_REVERTED} :
            s = IF row.status = INCLUDED_SUCCESS THEN CONFIRMED_SUCCESS ELSE CONFIRMED_REVERTED
      OBVIOUS
    <3>2. v = [status |-> s, block |-> row.block] BY <1>3, <1>4, <1>7, <2>4, <3>1
    <3>3. s \in ALL_STATUSES /\ s \notin INCLUDED /\ s # NONCE_CONSUMED_OR_REPLACED
          /\ (s = CONFIRMED_SUCCESS <=> row.status = INCLUDED_SUCCESS)
      BY <3>1 DEF ALL_STATUSES, INCLUDED, INCLUDED_SUCCESS, INCLUDED_REVERTED, CONFIRMED_SUCCESS,
                  CONFIRMED_REVERTED, NONCE_CONSUMED_OR_REPLACED
    <3>4. height <= safe BY <1>0, <1>3, <2>4 DEF ChainTyped
    <3>5. Borne(i, s, row.block) BY <1>1, <2>2, <3>3, <3>4 DEF Borne
    <3>6. QED BY <1>2, <3>2, <3>3, <3>5 DEF Row
  <2>5. QED BY <2>3, <2>4
<1>8. QED BY <1>6, <1>7

LEMMA ResolvesTruly ==
  ASSUME LedgerInv, NEW i \in Intents, Signed(i), NEW v \in resolve(i)
  PROVE  /\ v.block \in Block /\ v.status \in ALL_STATUSES \cup {UNKNOWN}
         /\ Borne(i, v.status, v.block)
<1>0. ChainTyped BY ChainFacts DEF LedgerInv
<1>1. PICK row : row = rows[i] OBVIOUS
<1>2. row \in Row BY <1>1 DEF LedgerInv, TypeOK
<1> DEFINE height == row.nonce + 1
<1>3. height \in Nat /\ height >= 1 /\ row.nonce \in Nat BY <1>2 DEF Row
<1>4. \/ Receipt(i, Len(mined)) /\ v = IncludedAs(row)
      \/ \E s \in {PENDING, NONCE_CONFLICT_PENDING, STUCK, UNKNOWN} :
           v = [status |-> s, block |-> NoBlock]
      \/ /\ ~Receipt(i, safe) /\ safe > row.nonce
         /\ v = [status |-> NONCE_CONSUMED_OR_REPLACED, block |-> NoBlock]
  BY <1>1 DEF resolve, If, Judged
<1>5. CASE Receipt(i, Len(mined)) /\ v = IncludedAs(row)
  <2>1. height \in 1 .. Len(mined) /\ mined[height].tx = i
    BY <1>0, <1>1, <1>3, <1>5 DEF Receipt, ChainTyped
  <2>2. mined[height] \in Mined /\ mined[height].fork <= forks
    BY <1>0, <2>1 DEF LedgerInv, Chained, ChainTyped
  <2>3. PICK s \in INCLUDED : s = IF mined[height].ok THEN INCLUDED_SUCCESS ELSE INCLUDED_REVERTED
    BY DEF INCLUDED
  <2>4. v = [status |-> s, block |-> <<height, mined[height].fork>>]
    BY <1>5, <2>3 DEF IncludedAs
  <2>5. mined[height].ok = (s = INCLUDED_SUCCESS)
    BY <2>2, <2>3 DEF Mined, INCLUDED_SUCCESS, INCLUDED_REVERTED
  <2>6. Borne(i, s, <<height, mined[height].fork>>)
    BY <1>0, <1>1, <2>1, <2>2, <2>3, <2>5, StatusFacts
       DEF Borne, ChainTyped, TERMINAL_STATUSES
  <2>7. <<height, mined[height].fork>> \in Block BY <1>3, <2>2 DEF Block, Mined
  <2>8. QED BY <2>3, <2>4, <2>6, <2>7, StatusFacts
<1>6. CASE \E s \in {PENDING, NONCE_CONFLICT_PENDING, STUCK, UNKNOWN} :
             v = [status |-> s, block |-> NoBlock]
  BY <1>6, SaysNothing, StatusFacts DEF NoBlock, Block
<1>7. CASE /\ ~Receipt(i, safe) /\ safe > row.nonce
           /\ v = [status |-> NONCE_CONSUMED_OR_REPLACED, block |-> NoBlock]
  <2>1. height <= safe /\ mined[height].tx # i
    BY <1>0, <1>1, <1>3, <1>7 DEF Receipt, ChainTyped
  <2>2. Borne(i, NONCE_CONSUMED_OR_REPLACED, NoBlock)
    BY <1>1, <2>1 DEF Borne, INCLUDED, INCLUDED_SUCCESS, INCLUDED_REVERTED, CONFIRMED_SUCCESS,
                      CONFIRMED_REVERTED, NONCE_CONSUMED_OR_REPLACED
  <2>3. QED BY <1>7, <2>2 DEF NoBlock, Block, ALL_STATUSES
<1>8. QED BY <1>4, <1>5, <1>6, <1>7

LEMMA Looks ==
  ASSUME LedgerInv, NEW p \in Commands, NEW i \in Intents, tx_resolve(p, i)
  PROVE  LedgerInv' /\ Settles
<1>1. PICK v \in verdicts(i) :
        \/ v.status = UNKNOWN /\ Enter(p, "replay", i, rows[i], NoAnswer)
        \/ v.status # UNKNOWN /\ Enter(p, "apply", i, rows[i], v)
  BY DEF tx_resolve
<1>2. Signed(i) /\ ~Terminal(i) /\ UNCHANGED <<rows, mempool, chain>> BY DEF tx_resolve
<1>3. /\ v.block \in Block /\ v.status \in ALL_STATUSES \cup {UNKNOWN}
      /\ Borne(i, v.status, v.block)
  BY <1>2, ConfirmsTruly, ResolvesTruly DEF verdicts
<1>4. v = [status |-> v.status, block |-> v.block]
  BY DEF verdicts, confirm, resolve, If, Judged, IncludedAs
<1>5. PICK row : row = rows[i] OBVIOUS
<1>6. row \in Row /\ row.status \in ALL_STATUSES /\ row.status \notin TERMINAL_STATUSES
  BY <1>2, <1>5, SignedHasStatus DEF LedgerInv, TypeOK, Row, Terminal
<1>7. mempool' \subseteq Intents /\ \A j \in mempool' : j \in mempool
  BY <1>2 DEF LedgerInv, TypeOK
<1> DEFINE C(step, answer) == [step |-> step, intent |-> i, answer |-> answer,
                               seen |-> [status |-> row.status, attempts |-> row.attempts]]
<1>8. CASE Enter(p, "replay", i, rows[i], NoAnswer)
  <2>1. PICK c : c = C("replay", NoAnswer) OBVIOUS
  <2>2. c \in Call BY <1>6, <2>1 DEF Call, Row, Steps, NoAnswer, NoBlock, Block
  <2>3. CallTrue(c) BY <1>2, <1>6, <2>1 DEF CallTrue
  <2>4. calls' = [calls EXCEPT ![p] = c] BY <1>5, <1>8, <2>1 DEF Enter
  <2>5. QED BY <1>2, <1>7, <2>2, <2>3, <2>4, CallMoves
<1>9. CASE v.status # UNKNOWN /\ Enter(p, "apply", i, rows[i], v)
  <2>1. PICK c : c = C("apply", v) OBVIOUS
  <2>2. v.status \in ALL_STATUSES BY <1>3, <1>9
  <2>3. c \in Call BY <1>3, <1>4, <1>6, <2>1, <2>2 DEF Call, Row, Steps
  <2>4. CallTrue(c) BY <1>2, <1>3, <1>6, <2>1, <2>2 DEF CallTrue
  <2>5. calls' = [calls EXCEPT ![p] = c] BY <1>5, <1>9, <2>1 DEF Enter
  <2>6. QED BY <1>2, <1>7, <2>3, <2>4, <2>5, CallMoves
<1>10. QED BY <1>1, <1>8, <1>9

\* What is written was permitted from the status the row still has, so not from a
\* terminal one.
LEMMA Applies ==
  ASSUME LedgerInv, NEW p \in Commands, apply(p)
  PROVE  LedgerInv' /\ Settles
<1>1. PICK o : o = calls[p] OBVIOUS
<1>2. o # Idle /\ o \in Call /\ o.intent \in Intents /\ CallTrue(o) /\ o.step = "apply"
  BY <1>1, RunningCall DEF LedgerInv, CallsTrue, apply, At, Idle
<1>3. /\ Signed(o.intent) /\ o.seen.status \in ALL_STATUSES /\ o.answer.status \in ALL_STATUSES
      /\ Borne(o.intent, o.answer.status, o.answer.block) /\ o.answer.block \in Block
  BY <1>2 DEF CallTrue, Call
<1>4. CASE Leave(p) /\ UNCHANGED rows BY <1>4, Leaves DEF apply
<1>5. PICK row : row = Written(o, o.answer.status, o.answer.block, FALSE) OBVIOUS
<1>6. CASE Permitted(o) /\ Fresh(o) /\ rows' = [rows EXCEPT ![o.intent] = row] /\ Leave(p)
  <2>1. /\ row \in Row /\ row.status = o.answer.status /\ row.block = o.answer.block
        /\ row.nonce = rows[o.intent].nonce
    BY <1>2, <1>3, <1>5, VerdictRow DEF LedgerInv
  <2>2. ~Terminal(o.intent)
    <3>1. o.seen.status \notin TERMINAL_STATUSES
      BY <1>6, NothingAfter, StatusFacts DEF Permitted
    <3>2. QED BY <1>6, <3>1 DEF Fresh, Terminal
  <2>3. RowWritten(o.intent, row) BY <1>3, <1>6, <2>1, <2>2 DEF RowWritten
  <2>4. Borne(o.intent, row.status, row.block)'
    <3>1. PICK i, s, b : i = o.intent /\ s = row.status /\ b = row.block OBVIOUS
    <3>2. Borne(i, s, b) BY <1>3, <2>1, <3>1
    <3>3. rows'[i].nonce = rows[i].nonce BY <1>2, <1>6, <2>1, <3>1 DEF LedgerInv, TypeOK
    <3>4. Borne(i, s, b)' BY <3>2, <3>3 DEF Borne, apply, chain
    <3>5. QED BY <3>1, <3>4
  <2>5. CallTrue(Idle)' BY DEF CallTrue
  <2>6. UNCHANGED <<mempool, chain>> /\ mempool' \subseteq Intents
    BY DEF apply, LedgerInv, TypeOK
  <2>7. QED BY <1>2, <1>6, <2>1, <2>3, <2>4, <2>5, <2>6, LedgerKeeps DEF Leave
<1>7. QED BY <1>1, <1>4, <1>5, <1>6 DEF apply

-----------------------------------------------------------------------------
LEMMA Starts ==
  ASSUME Init
  PROVE  LedgerInv
<1>1. Len(mined) = 0 /\ mined \in Seq(Mined) BY EmptySeq DEF Init
<1>2. \A i \in Intents : rows[i] = NoRow BY DEF Init
<1>3. TypeOK
  <2>1. rows \in [Intents -> Row] BY DEF Init, NoRow, Row, NoBlock, Block
  <2>2. calls \in [Commands -> Call \cup {Idle}] BY DEF Init
  <2>3. safe \in 0 .. Len(mined) /\ forks \in 0 .. MaxForks BY <1>1 DEF Init
  <2>4. late \in BOOLEAN /\ mempool \subseteq Intents /\ foreign \subseteq Nat BY DEF Init
  <2>5. QED BY <1>1, <2>1, <2>2, <2>3, <2>4 DEF TypeOK
<1>4. Bounded BY <1>2 DEF Bounded, NoRow
<1>5. RowsTrue
  <2>1. NoRow.status = "none" BY DEF NoRow
  <2>2. QED BY <1>2, <2>1, SaysNothing DEF RowsTrue
<1>6. CallsTrue BY DEF Init, CallsTrue, CallTrue
<1>7. Chained BY <1>1 DEF Init, Chained
<1>8. QED BY <1>3, <1>4, <1>5, <1>6, <1>7 DEF LedgerInv

LEMMA LedgerSteps ==
  ASSUME LedgerInv, [Next]_vars
  PROVE  LedgerInv' /\ Settles
<1>1. CASE UNCHANGED vars
  <2>1. ChainMoves BY <1>1, ChainFacts DEF LedgerInv, ChainMoves, ChainTyped, vars, chain
  <2>2. TypeOK' BY <1>1 DEF LedgerInv, TypeOK, vars, chain
  <2>3. Chained' BY <1>1 DEF LedgerInv, Chained, Signed, vars, chain
  <2>4. QED BY <2>1, <2>2, <2>3, ChainKeeps
<1>2. CASE Environment BY <1>2, EnvironmentKeeps
<1>3. ASSUME NEW p \in Commands, \E a \in Actions : deal_action(p, a)
      PROVE  LedgerInv' /\ Settles
  BY <1>3, Deals
<1>4. ASSUME NEW p \in Commands, Send(p)
      PROVE  LedgerInv' /\ Settles
  BY <1>4, Signs, Attempts, Answers DEF Send
<1>5. ASSUME NEW p \in Commands, Resolve(p)
      PROVE  LedgerInv' /\ Settles
  BY <1>5, Looks, Answers, Applies DEF Resolve
<1>6. ASSUME NEW p \in Commands, crash(p)
      PROVE  LedgerInv' /\ Settles
  BY <1>6, Leaves DEF crash
<1>7. QED BY <1>1, <1>2, <1>3, <1>4, <1>5, <1>6 DEF Next

\* Whatever the ledger says of the chain is so, at every moment and for any number of
\* commands, actions, reorganisations and other users of the wallet.
THEOREM AlwaysTrue == Spec => []LedgerInv
<1>1. QED BY Starts, LedgerSteps, PTL DEF Spec

\* Rows, commands and blocks keep their shape: TxLedger.TypeOK.
THEOREM LedgerTyped == Spec => []TypeOK
<1>1. LedgerInv => TypeOK BY DEF LedgerInv
<1>2. QED BY <1>1, AlwaysTrue, PTL

\* A row in a terminal status is never written again, whatever a slower command still
\* believes of it: TxLedger.SettledStays.
THEOREM SettledForEver == Spec => SettledStays
<1>1. LedgerInv /\ [Next]_vars => [\A i \in Intents : Terminal(i) => rows'[i] = rows[i]]_vars
  BY LedgerSteps DEF Settles
<1>2. QED BY <1>1, AlwaysTrue, PTL DEF Spec, SettledStays

\* A terminal verdict is what the chain below the safe head says: TxLedger.FinalVerdictsTrue.
THEOREM VerdictsFinal == Spec => []FinalVerdictsTrue
<1>1. ASSUME LedgerInv
      PROVE  FinalVerdictsTrue
  <2>0. ChainTyped BY <1>1, ChainFacts DEF LedgerInv
  <2>1. ASSUME NEW i \in Intents
        PROVE  Borne(i, rows[i].status, rows[i].block) /\ rows[i].nonce \in Nat
    BY <1>1 DEF LedgerInv, RowsTrue, TypeOK, Row
  <2>2. CONFIRMED_SUCCESS # CONFIRMED_REVERTED BY DEF CONFIRMED_SUCCESS, CONFIRMED_REVERTED
  <2>3. ASSUME NEW i \in Intents,
               rows[i].status \in {CONFIRMED_SUCCESS, CONFIRMED_REVERTED, NONCE_CONSUMED_OR_REPLACED}
        PROVE  LET spent == mined[rows[i].nonce + 1] IN
               /\ rows[i].nonce < safe
               /\ rows[i].status = CONFIRMED_SUCCESS => spent.tx = i /\ spent.ok
               /\ rows[i].status = CONFIRMED_REVERTED => spent.tx = i /\ ~spent.ok
               /\ rows[i].status = NONCE_CONSUMED_OR_REPLACED => spent.tx # i
    <3>1. PICK n, s, b : n = rows[i].nonce /\ s = rows[i].status /\ b = mined[n + 1] OBVIOUS
    <3>2. n \in Nat /\ n + 1 <= safe /\ safe \in Nat BY <2>0, <2>1, <2>3, <3>1 DEF Borne, ChainTyped
    <3>3. s = CONFIRMED_SUCCESS => b.tx = i /\ b.ok = TRUE BY <2>1, <3>1 DEF Borne
    <3>4. s = CONFIRMED_REVERTED => b.tx = i /\ b.ok = FALSE BY <2>1, <2>2, <3>1 DEF Borne
    <3>5. s = NONCE_CONSUMED_OR_REPLACED => b.tx # i BY <2>1, <3>1 DEF Borne
    <3>6. QED BY <3>1, <3>2, <3>3, <3>4, <3>5
  <2>4. QED BY <2>3 DEF FinalVerdictsTrue
<1>2. QED BY <1>1, AlwaysTrue, PTL

\* However often a command is repeated, dies or races another, an action takes effect at
\* most once: TxLedger.ActsOnce.  Its later identities were opened by reverts that are
\* final, and one identity is one nonce.
THEOREM EffectOnce == Spec => []ActsOnce
<1>1. ASSUME LedgerInv, NEW a \in Actions, NEW g \in DOMAIN mined, NEW h \in DOMAIN mined,
             mined[g].tx # Foreign, mined[g].ok, mined[g].tx[1] = a,
             mined[h].tx # Foreign, mined[h].ok, mined[h].tx[1] = a
      PROVE  g = h
  <2>0. ChainTyped BY <1>1, ChainFacts DEF LedgerInv
  <2>1. PICK i, j : i = mined[g].tx /\ j = mined[h].tx OBVIOUS
  <2>2. i \in Intents /\ j \in Intents /\ Signed(i) /\ Signed(j)
        /\ rows[i].nonce + 1 = g /\ rows[j].nonce + 1 = h
    BY <1>1, <2>0, <2>1 DEF ChainTyped, LedgerInv, Chained, Mined
  <2>3. ASSUME NEW x \in Intents, NEW y \in Intents, x[1] = a, y[1] = a, x[2] < y[2], Signed(y),
               mined[rows[x].nonce + 1].ok
        PROVE  FALSE
    <3>1. Opened(y) BY <1>1, <2>3, SignedHasStatus DEF LedgerInv, RowsTrue
    <3>2. x[2] \in Nat /\ x[2] >= 1 /\ y[2] \in Nat /\ x = <<a, x[2]>>
      BY <2>3, IntentParts
    <3>3. rows[x].status = CONFIRMED_REVERTED BY <2>3, <3>1, <3>2 DEF Opened
    <3>4. Borne(x, rows[x].status, rows[x].block) BY <1>1, <2>3 DEF LedgerInv, RowsTrue
    <3>5. CONFIRMED_SUCCESS # CONFIRMED_REVERTED BY DEF CONFIRMED_SUCCESS, CONFIRMED_REVERTED
    <3>6. QED BY <2>3, <3>3, <3>4, <3>5 DEF Borne
  <2>4. i[2] \in Nat /\ j[2] \in Nat /\ i = <<a, i[2]>> /\ j = <<a, j[2]>>
    BY <1>1, <2>1, <2>2, IntentParts
  <2>5. ~(i[2] < j[2]) /\ ~(j[2] < i[2]) BY <1>1, <2>1, <2>2, <2>3
  <2>6. i = j BY <2>4, <2>5
  <2>7. QED BY <2>2, <2>6
<1>2. LedgerInv => ActsOnce BY <1>1 DEF ActsOnce
<1>3. QED BY <1>2, AlwaysTrue, PTL

-----------------------------------------------------------------------------
\* The command that signed the bytes is the only one that offers them, so what it learns
\* of its own send stays true until it writes it down: as long as nobody resends, or if
\* whoever resends is the one process there is.
Alone == \A p, q \in Commands : p = q
Steady == Rebroadcast = FALSE \/ Alone

Live(i) == i \in mempool \/ \E h \in 1 .. Len(mined) : mined[h].tx = i
Unsent == {SIGNED, UNBROADCAST}
First(c) == c.step \in {"attempt", "send"} \/ (c.step = "apply" /\ c.answer.status = UNBROADCAST)

OffersOnce ==
  /\ Alone \/ \A p \in Commands : calls[p].step \notin {"replay", "resend"}
  /\ \A p \in Commands : First(calls[p]) => ~Live(calls[p].intent)
  /\ \A p \in Commands : Sending(p) => rows[calls[p].intent].status \notin Unsent
  /\ \A p, q \in Commands :
       First(calls[p]) /\ First(calls[q]) /\ calls[p].intent = calls[q].intent => p = q
  /\ \A i \in Intents : rows[i].status \in Unsent => ~Live(i)

LEMMA NeverBackToUnsent ==
  ASSUME NEW s \in ALL_STATUSES
  PROVE  SIGNED \notin ALLOWED_TRANSITIONS[s]
BY DEF ALLOWED_TRANSITIONS, Unmined, TERMINAL_STATUSES, ALL_STATUSES, INCLUDED, SIGNED,
       SEND_ATTEMPTED, PENDING, INCLUDED_SUCCESS, INCLUDED_REVERTED, CONFIRMED_SUCCESS,
       CONFIRMED_REVERTED, REORGED, NONCE_CONFLICT_PENDING, NONCE_CONSUMED_OR_REPLACED, STUCK,
       UNBROADCAST

\* The chain brings no bytes to life.
LEMMA ChainOffersNothing ==
  ASSUME LedgerInv, OffersOnce, UNCHANGED <<rows, calls>>, \A i \in Intents : Live(i)' => Live(i)
  PROVE  OffersOnce'
<1>1. \A p \in Commands : First(calls[p]) => calls[p].intent \in Intents
  BY RunningCall DEF LedgerInv, First, Idle
<1>2. \A p \in Commands : First(calls[p])' <=> First(calls[p]) BY DEF First
<1>3. \A p \in Commands : First(calls[p])' => ~Live(calls[p].intent)'
  <2>1. ASSUME NEW p \in Commands, First(calls[p])
        PROVE  ~Live(calls[p].intent)'
    <3>1. PICK i : i = calls[p].intent OBVIOUS
    <3>2. ~Live(i)' BY <1>1, <2>1, <3>1 DEF OffersOnce
    <3>3. QED BY <3>1, <3>2 DEF Live
  <2>2. QED BY <1>2, <2>1
<1>4. QED BY <1>2, <1>3 DEF OffersOnce, Sending

LEMMA EnvironmentOffersNothing ==
  ASSUME LedgerInv, OffersOnce, Environment
  PROVE  OffersOnce'
<1>0. ChainTyped BY ChainFacts DEF LedgerInv
<1>1. ASSUME NEW i \in Intents, Drop(i)
      PROVE  OffersOnce'
  BY <1>1, ChainOffersNothing DEF Drop, Live, chain
<1>2. ASSUME NEW b \in Mined, mined' = Append(mined, b), NEW j \in Intents, Live(j)'
      PROVE  j \in mempool' \/ Live(j) \/ b.tx = j
  <2>1. /\ Len(mined') = Len(mined) + 1 /\ mined'[Len(mined) + 1] = b
        /\ \A h \in 1 .. Len(mined) : mined'[h] = mined[h]
    BY <1>2, Appended DEF LedgerInv, TypeOK
  <2>2. QED BY <1>0, <1>2, <2>1 DEF Live, ChainTyped
<1>3. ASSUME NEW i \in Intents, NEW ok \in BOOLEAN, Mine(i, ok)
      PROVE  OffersOnce'
  <2>1. PICK b \in Mined : b = [tx |-> i, ok |-> ok, fork |-> forks]
    BY <1>0 DEF Mined, ChainTyped
  <2>2. \A j \in Intents : Live(j)' => Live(j)
    BY <1>2, <1>3, <2>1 DEF Mine, Live
  <2>3. QED BY <1>3, <2>2, ChainOffersNothing DEF Mine
<1>4. ASSUME MineForeign
      PROVE  OffersOnce'
  <2>1. PICK b \in Mined : b = [tx |-> Foreign, ok |-> TRUE, fork |-> forks]
    BY <1>0 DEF Mined, ChainTyped
  <2>2. \A j \in Intents : Live(j)' => Live(j)
    BY <1>2, <1>4, <2>1 DEF MineForeign, Live
  <2>3. QED BY <1>4, <2>2, ChainOffersNothing DEF MineForeign
<1>5. ASSUME NEW height \in safe .. Len(mined) - 1, Reorg(height)
      PROVE  OffersOnce'
  <2>1. height \in 0 .. Len(mined) BY <1>0 DEF ChainTyped
  <2>2. Len(mined') = height /\ \A h \in 1 .. height : mined'[h] = mined[h]
    BY <1>5, <2>1, Truncated DEF LedgerInv, TypeOK, Reorg
  <2>3. \A j \in mempool' : j \in mempool \/ \E h \in 1 .. Len(mined) : j = mined[h].tx
    BY <1>0, <1>5, <2>1 DEF Reorg, ChainTyped
  <2>4. \A j \in Intents : Live(j)' => Live(j)
    BY <1>0, <2>1, <2>2, <2>3 DEF Live, ChainTyped
  <2>5. QED BY <1>5, <2>4, ChainOffersNothing DEF Reorg
<1>6. CASE AdvanceSafe BY <1>6, ChainOffersNothing DEF AdvanceSafe, Live
<1>7. CASE DeadlinePasses BY <1>7, ChainOffersNothing DEF DeadlinePasses, Live
<1>8. ASSUME NEW n \in PendingCounts, ForeignSigns(n)
      PROVE  OffersOnce'
  BY <1>8, ChainOffersNothing DEF ForeignSigns, Live
<1>9. QED BY <1>1, <1>3, <1>4, <1>5, <1>6, <1>7, <1>8 DEF Environment

\* A command goes on, and nothing reaches a node: it is first only if it was before.
LEMMA QuietStep ==
  ASSUME LedgerInv, OffersOnce, NEW p \in Commands, NEW c \in Call \cup {Idle},
         calls' = [calls EXCEPT ![p] = c], UNCHANGED <<rows, mempool, chain>>,
         c.step \notin {"send", "resend"}, c.step = "replay" => Alone,
         First(c) => First(calls[p]) /\ c.intent = calls[p].intent
  PROVE  OffersOnce'
<1>1. calls'[p] = c /\ \A q \in Commands : q # p => calls'[q] = calls[q]
  BY DEF LedgerInv, TypeOK
<1>2. \A i : Live(i)' <=> Live(i) BY DEF Live, chain
<1>3. Alone \/ \A q \in Commands : calls'[q].step \notin {"replay", "resend"}
  BY <1>1 DEF OffersOnce
<1>4. \A q \in Commands : First(calls'[q]) => First(calls[q]) /\ calls'[q].intent = calls[q].intent
  BY <1>1
<1>5. \A q \in Commands : calls'[q].step \in {"send", "resend"} => calls'[q] = calls[q]
  BY <1>1
<1>6. \A q \in Commands : First(calls'[q]) => ~Live(calls'[q].intent)
  BY <1>4 DEF OffersOnce
<1>7. QED BY <1>2, <1>3, <1>4, <1>5, <1>6 DEF OffersOnce, Sending, Alone, First, Live, chain

\* The first send ends: the bytes may live only if the command will not deny it.
LEMMA SendEnds ==
  ASSUME LedgerInv, OffersOnce, NEW p \in Commands, Sending(p),
         NEW s \in {SEND_ATTEMPTED, PENDING, STUCK, NONCE_CONFLICT_PENDING, UNBROADCAST},
         Concludes(p, s), UNCHANGED <<rows, chain>>,
         mempool' \in {mempool, mempool \cup {calls[p].intent}},
         s = UNBROADCAST => At(p, "send") /\ UNCHANGED mempool
  PROVE  OffersOnce'
<1>1. PICK o : o = calls[p] OBVIOUS
<1>2. o \in Call /\ o.intent \in Intents /\ o.step \in {"send", "resend"}
  BY <1>1, RunningCall DEF LedgerInv, Sending, Idle
<1>10. o.step = "send" => First(o) BY DEF First
<1>11. o.step = "resend" => Alone BY <1>1 DEF OffersOnce
<1>3. PICK c : c = [o EXCEPT !.step = "apply", !.answer = [status |-> s, block |-> NoBlock]]
  OBVIOUS
<1>4. s \in ALL_STATUSES BY DEF ALL_STATUSES
<1>5. c \in Call /\ c.step = "apply" /\ c.intent = o.intent /\ c.answer.status = s
  BY <1>2, <1>3, <1>4 DEF Call, Steps, NoBlock, Block
<1>6. calls' = [calls EXCEPT ![p] = c] BY <1>1, <1>3 DEF Concludes, LedgerInv, TypeOK
<1>7. CASE mempool' = mempool
  <2>1. First(c) => First(o) /\ c.intent = o.intent
    BY <1>1, <1>5, <1>10 DEF First, At
  <2>2. QED BY <1>1, <1>5, <1>6, <1>7, <2>1, QuietStep
<1>8. CASE s # UNBROADCAST /\ mempool' = mempool \cup {o.intent}
  <2>1. calls'[p] = c /\ \A q \in Commands : q # p => calls'[q] = calls[q]
    BY <1>6 DEF LedgerInv, TypeOK
  <2>2. ~First(c) BY <1>5, <1>8 DEF First
  <2>3. \A i : i # o.intent => (Live(i)' <=> Live(i)) BY <1>8 DEF Live, chain
  <2>4. rows[o.intent].status \notin Unsent BY <1>1, <1>2 DEF OffersOnce, Sending
  <2>5. \A q \in Commands : First(calls'[q]) => q # p /\ calls'[q] = calls[q]
    BY <2>1, <2>2
  <2>6. \A q \in Commands : First(calls'[q]) => calls'[q].intent # o.intent
    BY <1>1, <1>2, <1>10, <1>11, <2>5 DEF OffersOnce, Alone
  <2>7. Alone \/ \A q \in Commands : calls'[q].step \notin {"replay", "resend"}
    BY <1>5, <2>1 DEF OffersOnce
  <2>8. \A q \in Commands :
          calls'[q].step \in {"send", "resend"} => rows'[calls'[q].intent].status \notin Unsent
    BY <1>5, <2>1 DEF OffersOnce, Sending
  <2>9. \A q \in Commands : First(calls'[q]) => ~Live(calls'[q].intent)
    BY <2>5 DEF OffersOnce
  <2>10. \A q \in Commands : First(calls[q])' => ~Live(calls[q].intent)'
    <3>1. ASSUME NEW q \in Commands, First(calls'[q])
          PROVE  ~Live(calls[q].intent)'
      <4>1. PICK i : i = calls'[q].intent OBVIOUS
      <4>2. ~Live(i)' BY <2>3, <2>6, <2>9, <3>1, <4>1
      <4>3. QED BY <4>1, <4>2 DEF Live
    <3>2. QED BY <3>1 DEF First
  <2>11. \A q, r \in Commands :
           First(calls'[q]) /\ First(calls'[r]) /\ calls'[q].intent = calls'[r].intent => q = r
    BY <2>5 DEF OffersOnce
  <2>12. \A i \in Intents : rows'[i].status \in Unsent => ~Live(i)'
    BY <2>3, <2>4 DEF OffersOnce
  <2>13. QED BY <2>7, <2>8, <2>10, <2>11, <2>12 DEF OffersOnce, Sending, Alone, First
<1>9. QED BY <1>1, <1>7, <1>8

LEMMA SendsOffer ==
  ASSUME LedgerInv, OffersOnce, NEW p \in Commands,
         \/ broadcast_accepted(p) \/ broadcast_already_known(p) \/ broadcast_nonce_too_low(p)
         \/ broadcast_rejected(p) \/ broadcast_uncertain(p)
  PROVE  OffersOnce'
<1> PENDING # UNBROADCAST /\ SEND_ATTEMPTED # UNBROADCAST /\ NONCE_CONFLICT_PENDING # UNBROADCAST
  BY DEF PENDING, SEND_ATTEMPTED, NONCE_CONFLICT_PENDING, UNBROADCAST
<1>1. CASE broadcast_accepted(p) BY <1>1, SendEnds DEF broadcast_accepted, chain
<1>2. CASE broadcast_already_known(p) BY <1>2, SendEnds DEF broadcast_already_known
<1>3. CASE broadcast_nonce_too_low(p) BY <1>3, SendEnds DEF broadcast_nonce_too_low
<1>4. CASE broadcast_rejected(p)
  <2>1. PICK s \in {UNBROADCAST, STUCK} :
          Concludes(p, s) /\ (s = UNBROADCAST => At(p, "send"))
    BY <1>4 DEF broadcast_rejected, STUCK, UNBROADCAST
  <2>2. QED BY <1>4, <2>1, SendEnds DEF broadcast_rejected
<1>5. CASE broadcast_uncertain(p) BY <1>5, SendEnds DEF broadcast_uncertain
<1>6. QED BY <1>1, <1>2, <1>3, <1>4, <1>5

LEMMA LeavesQuietly ==
  ASSUME LedgerInv, OffersOnce, NEW p \in Commands, Leave(p), UNCHANGED <<rows, mempool, chain>>
  PROVE  OffersOnce'
<1>1. ~First(Idle) /\ Idle.step \notin {"send", "replay", "resend"} BY DEF Idle, First
<1>2. QED BY <1>1, QuietStep DEF Leave

\* A command writes the row it works on: what is not sent yet or given back is dead, and
\* nobody else is about to offer it.
LEMMA WritingStep ==
  ASSUME LedgerInv, OffersOnce, NEW p \in Commands, NEW c \in Call \cup {Idle},
         calls' = [calls EXCEPT ![p] = c], UNCHANGED <<mempool, chain>>,
         NEW i \in Intents, NEW row \in Row, rows' = [rows EXCEPT ![i] = row],
         c.step # "replay", c.step = "resend" => Alone,
         c.step \in {"send", "resend"} => c.intent = i /\ row.status \notin Unsent,
         First(c) => ~Live(c.intent) /\ c.intent = i
                     /\ \A q \in Commands \ {p} : First(calls[q]) => calls[q].intent # i,
         row.status \in Unsent =>
           ~Live(i) /\ \A q \in Commands \ {p} : First(calls[q]) => calls[q].intent # i
  PROVE  OffersOnce'
<1>1. calls'[p] = c /\ \A q \in Commands : q # p => calls'[q] = calls[q]
  BY DEF LedgerInv, TypeOK
<1>2. rows'[i] = row /\ \A j \in Intents : j # i => rows'[j] = rows[j]
  BY DEF LedgerInv, TypeOK
<1>3. \A j : Live(j)' <=> Live(j) BY DEF Live, chain
<1>4. Alone \/ \A q \in Commands : calls'[q].step \notin {"replay", "resend"}
  BY <1>1 DEF OffersOnce
<1>5. \A q \in Commands : First(calls'[q]) => ~Live(calls'[q].intent) BY <1>1 DEF OffersOnce
<1>6. ASSUME NEW q \in Commands, calls'[q].step \in {"send", "resend"}
      PROVE  rows'[calls'[q].intent].status \notin Unsent
  <2>1. CASE q = p BY <1>1, <1>2, <1>6, <2>1
  <2>2. CASE q # p
    <3>1. calls'[q] = calls[q] /\ First(calls[q]) /\ rows[calls[q].intent].status \notin Unsent
      BY <1>1, <1>6, <2>2 DEF OffersOnce, Sending, Alone, First
    <3>2. calls[q].intent \in Intents
      BY <1>6, <3>1, RunningCall DEF LedgerInv, Idle
    <3>3. QED BY <1>2, <2>2, <3>1, <3>2
  <2>3. QED BY <2>1, <2>2
<1>7. \A q, r \in Commands :
        First(calls'[q]) /\ First(calls'[r]) /\ calls'[q].intent = calls'[r].intent => q = r
  BY <1>1 DEF OffersOnce
<1>8. \A j \in Intents : rows'[j].status \in Unsent => ~Live(j)
  BY <1>2 DEF OffersOnce
<1>9. QED BY <1>3, <1>4, <1>5, <1>6, <1>7, <1>8 DEF OffersOnce, Sending, Alone, First, Live, chain

LEMMA SignsOffer ==
  ASSUME LedgerInv, OffersOnce, NEW p \in Commands, record_signed(p)
  PROVE  OffersOnce'
<1>1. PICK i : i = calls[p].intent OBVIOUS
<1>2. calls[p].step = "sign" /\ i \in Intents
  BY <1>1, RunningCall DEF LedgerInv, record_signed, At, Idle
<1>3. CASE Leave(p) /\ UNCHANGED rows BY <1>3, LeavesQuietly DEF record_signed
<1>4. ASSUME NEW chain_nonce \in PendingCounts, ~Signed(i),
             LET row == [status |-> SIGNED, nonce |-> allocated(chain_nonce),
                         attempts |-> 0, block |-> NoBlock] IN
             rows' = [rows EXCEPT ![i] = row] /\ Enter(p, "attempt", i, row, NoAnswer)
      PROVE  OffersOnce'
  <2>1. PICK row : row = [status |-> SIGNED, nonce |-> allocated(chain_nonce),
                          attempts |-> 0, block |-> NoBlock]
    OBVIOUS
  <2>2. PICK c : c = [step |-> "attempt", intent |-> i, answer |-> NoAnswer,
                      seen |-> [status |-> row.status, attempts |-> row.attempts]]
    OBVIOUS
  <2>3. allocated(chain_nonce) \in Nat
    BY CountsTyped, Allocated DEF LedgerInv, TypeOK
  <2>4. row \in Row BY <2>1, <2>3 DEF Row, NoBlock, Block, ALL_STATUSES
  <2>5. c \in Call
    BY <1>2, <2>1, <2>2, <2>4 DEF Call, Steps, NoAnswer, NoBlock, Block, ALL_STATUSES
  <2>6. rows' = [rows EXCEPT ![i] = row] /\ calls' = [calls EXCEPT ![p] = c]
    BY <1>4, <2>1, <2>2 DEF Enter
  <2>7. ~Live(i)
    <3>1. ChainTyped BY ChainFacts DEF LedgerInv
    <3>2. i # Foreign BY <1>2, ForeignAssumption
    <3>3. QED BY <1>4, <3>1, <3>2 DEF Live, LedgerInv, Chained
  <2>8. \A q \in Commands : First(calls[q]) => calls[q].intent # i
    <3>1. ASSUME NEW q \in Commands, First(calls[q])
          PROVE  Signed(calls[q].intent)
      BY <3>1 DEF LedgerInv, CallsTrue, CallTrue, First, Idle
    <3>2. QED BY <1>4, <3>1
  <2>9. UNCHANGED <<mempool, chain>> BY DEF record_signed
  <2>10. c.step = "attempt" /\ c.intent = i BY <2>2
  <2>11. QED BY <1>2, <2>4, <2>5, <2>6, <2>7, <2>8, <2>9, <2>10, WritingStep
<1>5. QED BY <1>1, <1>3, <1>4 DEF record_signed

LEMMA AttemptsOffer ==
  ASSUME LedgerInv, OffersOnce, NEW p \in Commands, record_attempt(p)
  PROVE  OffersOnce'
<1>1. PICK o : o = calls[p] OBVIOUS
<1>2. o \in Call /\ o.intent \in Intents /\ o.step \in {"attempt", "replay"}
  BY <1>1, RunningCall DEF LedgerInv, record_attempt, Idle
<1>3. PICK row : row = Written(o, SEND_ATTEMPTED, NoBlock, TRUE) OBVIOUS
<1>4. CASE Leave(p) /\ UNCHANGED rows BY <1>4, LeavesQuietly DEF record_attempt
<1>5. ASSUME NEW step \in {"send", "resend"}, step = "send" <=> o.step = "attempt",
             rows' = [rows EXCEPT ![o.intent] = row], Enter(p, step, o.intent, row, NoAnswer)
      PROVE  OffersOnce'
  <2>1. PICK c : c = [step |-> step, intent |-> o.intent, answer |-> NoAnswer,
                      seen |-> [status |-> row.status, attempts |-> row.attempts]]
    OBVIOUS
  <2>2. row \in Row /\ row.status = SEND_ATTEMPTED BY <1>2, <1>3, AttemptRow DEF LedgerInv
  <2>3. c \in Call BY <1>2, <2>1, <2>2 DEF Call, Row, Steps, NoAnswer, NoBlock, Block
  <2>4. calls' = [calls EXCEPT ![p] = c] BY <1>5, <2>1 DEF Enter
  <2>5. row.status \notin Unsent
    BY <2>2 DEF Unsent, SEND_ATTEMPTED, SIGNED, UNBROADCAST
  <2>6. c.step = step /\ c.intent = o.intent /\ c.step # "replay" BY <2>1
  <2>7. c.step = "resend" => Alone BY <1>1, <1>2, <1>5, <2>6 DEF OffersOnce
  <2>8. First(c) => c.step = "send" /\ First(o) BY <1>5, <2>6 DEF First
  <2>9. First(c) => /\ ~Live(c.intent)
                    /\ \A q \in Commands \ {p} : First(calls[q]) => calls[q].intent # o.intent
    BY <1>1, <2>6, <2>8 DEF OffersOnce
  <2>10. UNCHANGED <<mempool, chain>> BY DEF record_attempt
  <2>11. PICK i : i = o.intent OBVIOUS
  <2>12. QED BY <1>2, <1>5, <2>2, <2>3, <2>4, <2>5, <2>6, <2>7, <2>9, <2>10, <2>11, WritingStep
<1>6. QED BY <1>1, <1>2, <1>3, <1>4, <1>5 DEF record_attempt

LEMMA LooksOffer ==
  ASSUME LedgerInv, OffersOnce, Steady, NEW p \in Commands, NEW i \in Intents, tx_resolve(p, i)
  PROVE  OffersOnce'
<1>1. PICK v \in verdicts(i) :
        \/ Rebroadcast /\ Enter(p, "replay", i, rows[i], NoAnswer)
        \/ v.status # UNKNOWN /\ Enter(p, "apply", i, rows[i], v)
  BY DEF tx_resolve
<1>2. Signed(i) /\ UNCHANGED <<rows, mempool, chain>> BY DEF tx_resolve
<1>3. v.block \in Block /\ v.status \in ALL_STATUSES \cup {UNKNOWN}
  BY <1>1, <1>2, ConfirmsTruly, ResolvesTruly DEF verdicts
<1>4. v = [status |-> v.status, block |-> v.block]
  BY DEF verdicts, confirm, resolve, If, Judged, IncludedAs
<1>5. v.status # UNBROADCAST
  BY DEF verdicts, confirm, resolve, If, Judged, IncludedAs, INCLUDED, UNKNOWN, PENDING,
         INCLUDED_SUCCESS, INCLUDED_REVERTED, CONFIRMED_SUCCESS, CONFIRMED_REVERTED, REORGED,
         NONCE_CONFLICT_PENDING, NONCE_CONSUMED_OR_REPLACED, STUCK, UNBROADCAST
<1>6. PICK row : row = rows[i] OBVIOUS
<1>7. row \in Row /\ row.status \in ALL_STATUSES
  BY <1>2, <1>6, SignedHasStatus DEF LedgerInv, TypeOK, Row
<1>8. CASE Rebroadcast /\ Enter(p, "replay", i, rows[i], NoAnswer)
  <2>1. PICK c : c = [step |-> "replay", intent |-> i, answer |-> NoAnswer,
                      seen |-> [status |-> row.status, attempts |-> row.attempts]]
    OBVIOUS
  <2>2. c \in Call BY <1>7, <2>1 DEF Call, Row, Steps, NoAnswer, NoBlock, Block
  <2>3. calls' = [calls EXCEPT ![p] = c] BY <1>6, <1>8, <2>1 DEF Enter
  <2>4. c.step = "replay" /\ ~First(c) BY <2>1 DEF First
  <2>5. Alone BY <1>8 DEF Steady
  <2>6. QED BY <1>2, <2>2, <2>3, <2>4, <2>5, QuietStep
<1>9. CASE v.status # UNKNOWN /\ Enter(p, "apply", i, rows[i], v)
  <2>1. PICK c : c = [step |-> "apply", intent |-> i, answer |-> v,
                      seen |-> [status |-> row.status, attempts |-> row.attempts]]
    OBVIOUS
  <2>2. c \in Call BY <1>3, <1>4, <1>7, <1>9, <2>1 DEF Call, Row, Steps
  <2>3. calls' = [calls EXCEPT ![p] = c] BY <1>6, <1>9, <2>1 DEF Enter
  <2>4. c.step = "apply" /\ ~First(c) BY <1>5, <2>1 DEF First
  <2>5. QED BY <1>2, <2>2, <2>3, <2>4, QuietStep
<1>10. QED BY <1>1, <1>8, <1>9

LEMMA TooLateOffers ==
  ASSUME LedgerInv, OffersOnce, NEW p \in Commands, replay_too_late(p)
  PROVE  OffersOnce'
<1>1. PICK o : o = calls[p] OBVIOUS
<1>2. o \in Call BY <1>1, RunningCall DEF LedgerInv, replay_too_late, At, Idle
<1>3. PICK c : c = [o EXCEPT !.step = "apply", !.answer = [status |-> STUCK, block |-> NoBlock]]
  OBVIOUS
<1>4. STUCK # UNBROADCAST BY DEF STUCK, UNBROADCAST
<1>5. c \in Call /\ c.step = "apply" /\ c.answer.status = STUCK
  BY <1>2, <1>3, StatusFacts DEF Call, Steps, NoBlock, Block
<1>6. calls' = [calls EXCEPT ![p] = c]
  BY <1>1, <1>3 DEF replay_too_late, Concludes, LedgerInv, TypeOK
<1>7. ~First(c) BY <1>4, <1>5 DEF First
<1>8. QED BY <1>5, <1>6, <1>7, QuietStep DEF replay_too_late

LEMMA AppliesOffer ==
  ASSUME LedgerInv, OffersOnce, NEW p \in Commands, apply(p)
  PROVE  OffersOnce'
<1>1. PICK o : o = calls[p] OBVIOUS
<1>2. o # Idle /\ o \in Call /\ o.intent \in Intents /\ CallTrue(o) /\ o.step = "apply"
  BY <1>1, RunningCall DEF LedgerInv, CallsTrue, apply, At, Idle
<1>3. o.seen.status \in ALL_STATUSES /\ o.answer.status \in ALL_STATUSES /\ o.answer.block \in Block
  BY <1>2 DEF CallTrue, Call
<1>4. CASE Leave(p) /\ UNCHANGED rows BY <1>4, LeavesQuietly DEF apply
<1>5. PICK row : row = Written(o, o.answer.status, o.answer.block, FALSE) OBVIOUS
<1>6. CASE Permitted(o) /\ rows' = [rows EXCEPT ![o.intent] = row] /\ Leave(p)
  <2>1. row \in Row /\ row.status = o.answer.status
    BY <1>2, <1>3, <1>5, VerdictRow DEF LedgerInv
  <2>2. ASSUME row.status \in Unsent
        PROVE  ~Live(o.intent) /\
               \A q \in Commands \ {p} : First(calls[q]) => calls[q].intent # o.intent
    <3>1. o.answer.status = UNBROADCAST
      BY <1>3, <1>6, <2>1, <2>2, NeverBackToUnsent DEF Permitted, Unsent
    <3>2. First(o) BY <1>2, <3>1 DEF First
    <3>3. QED BY <1>1, <3>2 DEF OffersOnce
  <2>3. ~First(Idle) /\ Idle.step \notin {"send", "replay", "resend"} BY DEF Idle, First
  <2>4. UNCHANGED <<mempool, chain>> BY DEF apply
  <2>5. PICK c : c = Idle OBVIOUS
  <2>6. c \in Call \cup {Idle} /\ calls' = [calls EXCEPT ![p] = c] BY <1>6, <2>5 DEF Leave
  <2>7. PICK i : i = o.intent OBVIOUS
  <2>8. row.status \in Unsent =>
          ~Live(i) /\ \A q \in Commands \ {p} : First(calls[q]) => calls[q].intent # i
    BY <2>2, <2>7
  <2>9. c.step \notin {"send", "replay", "resend"} /\ ~First(c) BY <2>3, <2>5
  <2>10. i \in Intents /\ rows' = [rows EXCEPT ![i] = row] BY <1>2, <1>6, <2>7
  <2>11. QED BY <2>1, <2>4, <2>6, <2>8, <2>9, <2>10, WritingStep
<1>7. QED BY <1>1, <1>4, <1>5, <1>6 DEF apply

LEMMA OffersSteps ==
  ASSUME LedgerInv, OffersOnce, Steady, [Next]_vars
  PROVE  OffersOnce'
<1>1. CASE UNCHANGED vars
  BY <1>1, ChainOffersNothing DEF vars, chain, Live
<1>2. CASE Environment BY <1>2, EnvironmentOffersNothing
<1>3. ASSUME NEW p \in Commands, NEW a \in Actions, deal_action(p, a)
      PROVE  OffersOnce'
  <2>1. PICK i : i = _next_attempt_intent(a) OBVIOUS
  <2>2. PICK c : c = [step |-> "sign", intent |-> i, answer |-> NoAnswer,
                      seen |-> [status |-> NoRow.status, attempts |-> NoRow.attempts]]
    OBVIOUS
  <2>3. c \in Call
    BY <2>1, <2>2, NextIntent DEF Call, Steps, NoRow, NoAnswer, NoBlock, Block
  <2>4. c.step = "sign" /\ ~First(c) BY <2>2 DEF First
  <2>5. calls' = [calls EXCEPT ![p] = c] /\ UNCHANGED <<rows, mempool, chain>>
    BY <1>3, <2>1, <2>2 DEF deal_action, Enter
  <2>6. QED BY <2>3, <2>4, <2>5, QuietStep
<1>4. ASSUME NEW p \in Commands, Send(p)
      PROVE  OffersOnce'
  BY <1>4, SignsOffer, AttemptsOffer, SendsOffer DEF Send
<1>5. ASSUME NEW p \in Commands, Resolve(p)
      PROVE  OffersOnce'
  BY <1>5, LooksOffer, TooLateOffers, AppliesOffer DEF Resolve
<1>6. ASSUME NEW p \in Commands, crash(p)
      PROVE  OffersOnce'
  BY <1>6, LeavesQuietly DEF crash
<1>7. QED BY <1>1, <1>2, <1>3, <1>4, <1>5, <1>6 DEF Next

LEMMA OffersStart ==
  ASSUME Init
  PROVE  OffersOnce
<1>1. \A p \in Commands : calls[p] = Idle BY DEF Init
<1>2. ~First(Idle) /\ Idle.step \notin {"send", "replay", "resend"} BY DEF Idle, First
<1>3. \A i \in Intents : rows[i].status \notin Unsent
  BY DEF Init, NoRow, Unsent, SIGNED, UNBROADCAST
<1>4. QED BY <1>1, <1>2, <1>3 DEF OffersOnce, Sending

\* Without --rebroadcast, or with one process, a nonce is given back only if its bytes never
\* reached a node: TxLedger.ReleasedNeverLive.  Otherwise this is false, and a run shows how.
THEOREM ReleasedIsDead == Steady => (Spec => []ReleasedNeverLive)
<1> SUFFICES ASSUME Steady
             PROVE  Spec => []ReleasedNeverLive
  OBVIOUS
<1>1. Init => OffersOnce BY OffersStart
<1>2. LedgerInv /\ OffersOnce /\ [Next]_vars => OffersOnce' BY OffersSteps
<1>3. LedgerInv /\ OffersOnce => ReleasedNeverLive
  BY ChainFacts DEF LedgerInv, ChainTyped, OffersOnce, ReleasedNeverLive, Unsent, Live
<1>4. QED BY <1>1, <1>2, <1>3, AlwaysTrue, PTL DEF Spec
-----------------------------------------------------------------------------
\* A wallet is never stranded behind a gap.  Every nonce was allocated above all that the
\* ledger held, so the only nonce that can be given back is the highest: nobody signs while
\* a first send is in doubt.  And what a reorganisation takes off the chain was spent by a
\* row of the ledger, or by somebody the ledger saw.

\* Only a send leads back to the status of a send.
SendsKnown ==
  \A p \in Commands :
    Sending(p) \/ (At(p, "apply") /\ calls[p].answer.status = SEND_ATTEMPTED) =>
      calls[p].seen.status = SEND_ATTEMPTED

\* Until a first send is settled, nothing was signed after it.
Newest ==
  \A p \in Commands :
    First(calls[p]) /\ rows[calls[p].intent].status \in {SIGNED, SEND_ATTEMPTED} =>
      \A j \in Holding : j # calls[p].intent => rows[j].nonce < rows[calls[p].intent].nonce

\* Below a nonce the ledger holds there is a block, another row, or another user.
GapFree ==
  \A i \in Holding : \A n \in Len(mined) .. rows[i].nonce - 1 :
    n \in foreign \/ \E j \in Holding : rows[j].nonce = n

ForeignSeen == \A h \in 1 .. Len(mined) : mined[h].tx = Foreign => h - 1 \in foreign

NoGapInv == OffersOnce /\ SendsKnown /\ Newest /\ GapFree /\ ForeignSeen

LEMMA HeldAboveTheTip ==
  ASSUME LedgerInv, NEW i \in Holding, rows[i].nonce >= Len(mined)
  PROVE  ~Terminal(i)
<1>0. ChainTyped BY ChainFacts DEF LedgerInv
<1>1. PICK n, s : n = rows[i].nonce /\ s = rows[i].status OBVIOUS
<1>2. i \in Intents /\ s # UNBROADCAST BY <1>1 DEF Holding, NONCE_RELEASING_STATUSES
<1>3. n \in Nat /\ Borne(i, s, rows[i].block)
  BY <1>1, <1>2 DEF LedgerInv, RowsTrue, TypeOK, Row
<1>4. s \in {CONFIRMED_SUCCESS, CONFIRMED_REVERTED, NONCE_CONSUMED_OR_REPLACED} => n + 1 <= safe
  BY <1>1, <1>3 DEF Borne
<1>5. QED BY <1>0, <1>1, <1>2, <1>3, <1>4 DEF Terminal, TERMINAL_STATUSES, ChainTyped

LEMMA GapFreeIsNoGap ==
  ASSUME LedgerInv, GapFree
  PROVE  NoGap
<1>1. ASSUME NEW i \in Holding, NEW n \in Len(mined) .. rows[i].nonce - 1, n \notin foreign
      PROVE  \E j \in Holding : rows[j].nonce = n /\ ~Terminal(j)
  <2>1. PICK j \in Holding : rows[j].nonce = n BY <1>1 DEF GapFree
  <2>2. i \in Intents /\ rows[i].nonce \in Nat BY DEF Holding, LedgerInv, TypeOK, Row
  <2>3. Len(mined) \in Nat BY ChainFacts DEF LedgerInv, ChainTyped
  <2>4. rows[j].nonce >= Len(mined) BY <2>1, <2>2, <2>3
  <2>5. QED BY <2>1, <2>4, HeldAboveTheTip
<1>2. QED BY <1>1 DEF NoGap

\* The chain moves: what it takes back is covered.
LEMMA ChainLeavesNoGap ==
  ASSUME LedgerInv, NoGapInv, UNCHANGED <<rows, calls>>, foreign \subseteq foreign',
         Len(mined') \in Nat, OffersOnce', ForeignSeen',
         \A n \in Len(mined') .. Len(mined) - 1 :
           n \in foreign' \/ \E j \in Holding : rows[j].nonce = n
  PROVE  NoGapInv'
<1>1. Holding' = Holding BY DEF Holding, Signed
<1>2. \A p \in Commands : First(calls[p])' <=> First(calls[p]) BY DEF First
<1>3. SendsKnown' BY DEF NoGapInv, SendsKnown, Sending, At
<1>4. Newest' BY <1>1, <1>2 DEF NoGapInv, Newest
<1>5. GapFree'
  <2>1. Len(mined) \in Nat BY ChainFacts DEF LedgerInv, ChainTyped
  <2>2. ASSUME NEW i \in Holding, NEW n \in Len(mined') .. rows[i].nonce - 1
        PROVE  n \in foreign' \/ \E j \in Holding : rows[j].nonce = n
    <3>1. i \in Intents /\ rows[i].nonce \in Nat BY DEF Holding, LedgerInv, TypeOK, Row
    <3>2. n \in Nat BY <3>1
    <3>3. CASE n < Len(mined)
      <4>1. n \in Len(mined') .. Len(mined) - 1 BY <2>1, <3>1, <3>2, <3>3
      <4>2. QED BY <4>1
    <3>4. CASE ~(n < Len(mined))
      <4>1. n \in Len(mined) .. rows[i].nonce - 1 BY <2>1, <3>1, <3>2, <3>4
      <4>2. QED BY <4>1 DEF NoGapInv, GapFree
    <3>5. QED BY <3>3, <3>4
  <2>3. QED BY <1>1, <2>2 DEF GapFree
<1>6. QED BY <1>3, <1>4, <1>5 DEF NoGapInv

\* The row of bytes that are on the chain holds its nonce, which is their place.
LEMMA MinedHolds ==
  ASSUME LedgerInv, OffersOnce, NEW h \in 1 .. Len(mined), mined[h].tx # Foreign
  PROVE  mined[h].tx \in Holding /\ rows[mined[h].tx].nonce = h - 1
<1>0. ChainTyped BY ChainFacts DEF LedgerInv
<1>1. PICK j : j = mined[h].tx OBVIOUS
<1>2. j \in Intents /\ Signed(j) /\ rows[j].nonce + 1 = h /\ rows[j].nonce \in Nat
  BY <1>0, <1>1 DEF ChainTyped, Mined, LedgerInv, Chained, TypeOK, Row
<1>3. Live(j) BY <1>1 DEF Live
<1>4. rows[j].status # UNBROADCAST BY <1>2, <1>3 DEF OffersOnce, Unsent
<1>5. QED BY <1>1, <1>2, <1>4 DEF Holding, NONCE_RELEASING_STATUSES

LEMMA EnvironmentLeavesNoGap ==
  ASSUME LedgerInv, NoGapInv, Environment
  PROVE  NoGapInv'
<1>0. ChainTyped BY ChainFacts DEF LedgerInv
<1>1. OffersOnce' BY EnvironmentOffersNothing DEF NoGapInv
<1>2. Len(mined) \in Nat /\ \A n \in Len(mined) .. Len(mined) - 1 : FALSE
  BY <1>0 DEF ChainTyped
<1>3. ForeignSeen /\ (UNCHANGED <<mined, foreign>> => ForeignSeen')
  BY DEF NoGapInv, ForeignSeen
<1>4. ASSUME UNCHANGED <<rows, calls, mined, foreign>>
      PROVE  NoGapInv'
  BY <1>1, <1>2, <1>3, <1>4, ChainLeavesNoGap
<1>5. ASSUME NEW b \in Mined, mined' = Append(mined, b), UNCHANGED <<rows, calls>>,
             foreign \subseteq foreign', b.tx = Foreign => Len(mined) \in foreign'
      PROVE  NoGapInv'
  <2>1. /\ Len(mined') = Len(mined) + 1 /\ mined'[Len(mined) + 1] = b
        /\ \A h \in 1 .. Len(mined) : mined'[h] = mined[h]
    BY <1>5, Appended DEF LedgerInv, TypeOK
  <2>2. \A h \in 1 .. Len(mined') : mined'[h].tx = Foreign => h - 1 \in foreign'
    <3>1. ASSUME NEW h \in 1 .. Len(mined'), mined'[h].tx = Foreign
          PROVE  h - 1 \in foreign'
      <4>1. CASE h = Len(mined) + 1 BY <1>2, <1>5, <2>1, <3>1, <4>1
      <4>2. CASE h # Len(mined) + 1
        <5>1. h \in 1 .. Len(mined) BY <1>2, <2>1, <4>2
        <5>2. QED BY <1>3, <1>5, <2>1, <3>1, <5>1 DEF ForeignSeen
      <4>3. QED BY <4>1, <4>2
    <3>2. QED BY <3>1
  <2>3. ForeignSeen' BY <2>2 DEF ForeignSeen
  <2>4. Len(mined') \in Nat /\ \A n \in Len(mined') .. Len(mined) - 1 : FALSE
    BY <1>2, <2>1
  <2>5. QED BY <1>1, <1>5, <2>3, <2>4, ChainLeavesNoGap
<1>6. ASSUME NEW i \in Intents, Drop(i)
      PROVE  NoGapInv'
  BY <1>4, <1>6 DEF Drop, chain
<1>7. ASSUME NEW i \in Intents, NEW ok \in BOOLEAN, Mine(i, ok)
      PROVE  NoGapInv'
  <2>1. PICK b \in Mined : b = [tx |-> i, ok |-> ok, fork |-> forks]
    BY <1>0 DEF Mined, ChainTyped
  <2>2. b.tx # Foreign BY <2>1, ForeignAssumption
  <2>3. QED BY <1>5, <1>7, <2>1, <2>2 DEF Mine
<1>8. ASSUME MineForeign
      PROVE  NoGapInv'
  <2>1. PICK b \in Mined : b = [tx |-> Foreign, ok |-> TRUE, fork |-> forks]
    BY <1>0 DEF Mined, ChainTyped
  <2>2. foreign' = foreign /\ Len(mined) \in foreign BY <1>8 DEF MineForeign
  <2>3. QED BY <1>5, <1>8, <2>1, <2>2 DEF MineForeign
<1>9. ASSUME NEW height \in safe .. Len(mined) - 1, Reorg(height)
      PROVE  NoGapInv'
  <2>1. height \in 0 .. Len(mined) /\ height \in Nat BY <1>0 DEF ChainTyped
  <2>2. Len(mined') = height /\ \A h \in 1 .. height : mined'[h] = mined[h]
    BY <1>9, <2>1, Truncated DEF LedgerInv, TypeOK, Reorg
  <2>3. UNCHANGED <<rows, calls, foreign>> BY <1>9 DEF Reorg
  <2>4. \A h \in 1 .. height : h \in 1 .. Len(mined) BY <1>2, <2>1
  <2>5. ForeignSeen' BY <1>3, <2>2, <2>3, <2>4 DEF ForeignSeen
  <2>6. ASSUME NEW n \in Len(mined') .. Len(mined) - 1
        PROVE  n \in foreign' \/ \E j \in Holding : rows[j].nonce = n
    <3>1. n \in Nat /\ n + 1 \in 1 .. Len(mined) /\ (n + 1) - 1 = n BY <1>2, <2>1, <2>2
    <3>2. CASE mined[n + 1].tx = Foreign BY <1>3, <2>3, <3>1, <3>2 DEF ForeignSeen
    <3>3. CASE mined[n + 1].tx # Foreign BY <3>1, <3>3, MinedHolds DEF NoGapInv
    <3>4. QED BY <3>2, <3>3
  <2>7. QED BY <1>1, <2>1, <2>2, <2>3, <2>5, <2>6, ChainLeavesNoGap
<1>10. CASE AdvanceSafe BY <1>4, <1>10 DEF AdvanceSafe
<1>11. CASE DeadlinePasses BY <1>4, <1>11 DEF DeadlinePasses
<1>12. ASSUME NEW k \in PendingCounts, ForeignSigns(k)
       PROVE  NoGapInv'
  <2>1. UNCHANGED <<rows, calls, mined>> /\ foreign \subseteq foreign'
    BY <1>12 DEF ForeignSigns
  <2>2. ForeignSeen' BY <1>3, <2>1 DEF ForeignSeen
  <2>3. QED BY <1>1, <1>2, <2>1, <2>2, ChainLeavesNoGap
<1>13. QED BY <1>6, <1>7, <1>8, <1>9, <1>10, <1>11, <1>12 DEF Environment

Doubtful == {SIGNED, SEND_ATTEMPTED}

\* A command goes on and writes no row.
LEMMA QuietLeavesNoGap ==
  ASSUME LedgerInv, NoGapInv, OffersOnce', UNCHANGED <<rows, chain>>,
         NEW p \in Commands, NEW c \in Call \cup {Idle}, calls' = [calls EXCEPT ![p] = c],
         First(c) => First(calls[p]) /\ c.intent = calls[p].intent,
         c.step \in {"send", "resend"} \/ (c.step = "apply" /\ c.answer.status = SEND_ATTEMPTED) =>
           c.seen.status = SEND_ATTEMPTED
  PROVE  NoGapInv'
<1>1. calls'[p] = c /\ \A q \in Commands : q # p => calls'[q] = calls[q]
  BY DEF LedgerInv, TypeOK
<1>2. SendsKnown' BY <1>1 DEF NoGapInv, SendsKnown, Sending, At
<1>3. Holding' = Holding BY DEF Holding, Signed
<1>4. ASSUME NEW q \in Commands, First(calls'[q])
      PROVE  First(calls[q]) /\ calls'[q].intent = calls[q].intent
  BY <1>1, <1>4
<1>5. Newest'
  <2>1. ASSUME NEW q \in Commands, First(calls'[q]), rows[calls'[q].intent].status \in Doubtful,
               NEW j \in Holding, j # calls'[q].intent
        PROVE  rows[j].nonce < rows[calls'[q].intent].nonce
    BY <1>4, <2>1 DEF NoGapInv, Newest, Doubtful
  <2>2. QED BY <1>3, <2>1 DEF Newest, First, Doubtful
<1>6. GapFree' /\ ForeignSeen' BY <1>3 DEF NoGapInv, GapFree, ForeignSeen, chain
<1>7. QED BY <1>2, <1>5, <1>6 DEF NoGapInv

\* A command writes a row that holds its nonce, and gives it back only if it is the highest.
LEMMA WriteLeavesNoGap ==
  ASSUME LedgerInv, NoGapInv, OffersOnce', UNCHANGED chain,
         NEW p \in Commands, NEW c \in Call \cup {Idle}, calls' = [calls EXCEPT ![p] = c],
         NEW i \in Holding, NEW row \in Row, rows' = [rows EXCEPT ![i] = row],
         row.status # "none", row.nonce = rows[i].nonce,
         First(c) => First(calls[p]) /\ c.intent = calls[p].intent,
         c.step \in {"send", "resend"} \/ (c.step = "apply" /\ c.answer.status = SEND_ATTEMPTED) =>
           c.seen.status = SEND_ATTEMPTED,
         row.status \in Doubtful => rows[i].status \in Doubtful \/ (Alone /\ ~First(c)),
         row.status = UNBROADCAST => \A j \in Holding : j # i => rows[j].nonce < rows[i].nonce
  PROVE  NoGapInv'
<1>1. calls'[p] = c /\ \A q \in Commands : q # p => calls'[q] = calls[q]
  BY DEF LedgerInv, TypeOK
<1>2. i \in Intents BY DEF Holding
<1>3. rows'[i] = row /\ \A j \in Intents : j # i => rows'[j] = rows[j]
  BY <1>2 DEF LedgerInv, TypeOK
<1>4. \A j \in Intents : rows'[j].nonce = rows[j].nonce BY <1>3
<1>5. Holding' \subseteq Holding BY <1>3 DEF Holding, Signed
<1>6. row # NoRow BY DEF NoRow
<1>7. \A j \in Holding : j # i \/ row.status # UNBROADCAST => j \in Holding'
  BY <1>3, <1>6 DEF Holding, Signed, NONCE_RELEASING_STATUSES
<1>8. SendsKnown' BY <1>1 DEF NoGapInv, SendsKnown, Sending, At
<1>9. Newest'
  <2>1. ASSUME NEW q \in Commands, First(calls'[q]), rows'[calls'[q].intent].status \in Doubtful,
               NEW j \in Holding', j # calls'[q].intent
        PROVE  rows'[j].nonce < rows'[calls'[q].intent].nonce
    <3>1. First(calls[q]) /\ calls'[q].intent = calls[q].intent BY <1>1, <2>1
    <3>2. PICK k : k = calls[q].intent OBVIOUS
    <3>3. k \in Intents BY <3>1, <3>2, RunningCall DEF LedgerInv, First, Idle
    <3>4. rows[k].status \in Doubtful
      <4>1. CASE k # i BY <1>3, <2>1, <3>1, <3>2, <3>3, <4>1
      <4>2. CASE k = i /\ ~(rows[i].status \in Doubtful)
        <5>1. Alone /\ ~First(c) BY <1>3, <2>1, <3>1, <3>2, <4>2
        <5>2. q = p BY <5>1 DEF Alone
        <5>3. QED BY <1>1, <2>1, <5>1, <5>2
      <4>3. QED BY <4>1, <4>2
    <3>5. j \in Holding /\ j \in Intents BY <1>5, <2>1 DEF Holding
    <3>6. rows[j].nonce < rows[k].nonce
      BY <2>1, <3>1, <3>2, <3>4, <3>5 DEF NoGapInv, Newest, Doubtful
    <3>7. QED BY <1>4, <3>1, <3>2, <3>3, <3>5, <3>6
  <2>2. QED BY <2>1 DEF Newest, First, Doubtful
<1>10. GapFree'
  <2>1. ASSUME NEW k \in Holding', NEW n \in Len(mined) .. rows[k].nonce - 1, n \notin foreign
        PROVE  \E j \in Holding' : rows'[j].nonce = n
    <3>1. k \in Holding /\ k \in Intents /\ rows[k].nonce \in Nat
      BY <1>5 DEF Holding, LedgerInv, TypeOK, Row
    <3>2. PICK j \in Holding : rows[j].nonce = n BY <2>1, <3>1 DEF NoGapInv, GapFree
    <3>3. j \in Intents BY DEF Holding
    <3>4. CASE j # i \/ row.status # UNBROADCAST BY <1>4, <1>7, <3>2, <3>3, <3>4
    <3>5. CASE j = i /\ row.status = UNBROADCAST
      <4>1. k # i BY <1>3, <3>5 DEF Holding, NONCE_RELEASING_STATUSES
      <4>2. rows[k].nonce < n BY <3>1, <3>2, <3>5, <4>1
      <4>3. QED BY <3>1, <4>2, ChainFacts DEF LedgerInv, ChainTyped
    <3>6. QED BY <3>4, <3>5
  <2>2. ASSUME NEW k \in Holding'
        PROVE  rows'[k].nonce = rows[k].nonce
    BY <1>4, <1>5 DEF Holding
  <2>3. QED BY <2>1, <2>2 DEF GapFree, chain
<1>11. ForeignSeen' BY DEF NoGapInv, ForeignSeen, chain
<1>12. QED BY <1>8, <1>9, <1>10, <1>11 DEF NoGapInv

\* The nonce signed is the highest, and what lies below it is covered.
LEMMA SignLeavesNoGap ==
  ASSUME LedgerInv, NoGapInv, OffersOnce', NEW p \in Commands, record_signed(p)
  PROVE  NoGapInv'
<1>1. PICK i : i = calls[p].intent OBVIOUS
<1>2. calls[p].step = "sign" /\ i \in Intents
  BY <1>1, RunningCall DEF LedgerInv, record_signed, At, Idle
<1>3. UNCHANGED <<mempool, chain>> BY DEF record_signed
<1>4. CASE Leave(p) /\ UNCHANGED rows
  BY <1>3, <1>4, QuietLeavesNoGap DEF Leave, Idle, First
<1>5. ASSUME NEW chain_nonce \in PendingCounts, ~Signed(i), Blocking = {},
             LET row == [status |-> SIGNED, nonce |-> allocated(chain_nonce),
                         attempts |-> 0, block |-> NoBlock] IN
             rows' = [rows EXCEPT ![i] = row] /\ Enter(p, "attempt", i, row, NoAnswer)
      PROVE  NoGapInv'
  <2>1. PICK next : next = allocated(chain_nonce) OBVIOUS
  <2>2. PICK row : row = [status |-> SIGNED, nonce |-> next, attempts |-> 0, block |-> NoBlock]
    OBVIOUS
  <2>3. chain_nonce \in Nat BY CountsTyped DEF LedgerInv
  <2>4. /\ next \in Nat /\ \A j \in Holding : rows[j].nonce < next
        /\ next = chain_nonce \/ \E j \in Holding : next = rows[j].nonce + 1
    BY <2>1, <2>3, Allocated DEF LedgerInv, TypeOK
  <2>5. /\ calls'[p].step = "attempt" /\ calls'[p].intent = i
        /\ \A q \in Commands : q # p => calls'[q] = calls[q]
    BY <1>5 DEF LedgerInv, TypeOK, Enter
  <2>6. rows'[i] = row /\ \A j \in Intents : j # i => rows'[j] = rows[j]
    BY <1>2, <1>5, <2>1, <2>2 DEF LedgerInv, TypeOK
  <2>7. i \notin Holding /\ Holding' = Holding \cup {i}
    <3>1. row # NoRow /\ row.status \notin NONCE_RELEASING_STATUSES
      BY <2>2 DEF NoRow, NONCE_RELEASING_STATUSES, SIGNED, UNBROADCAST
    <3>2. QED BY <1>2, <1>5, <2>6, <3>1 DEF Holding, Signed
  <2>8. \A j \in Holding : j \in Intents /\ j # i /\ rows'[j] = rows[j] /\ rows[j].nonce \in Nat
    BY <2>6, <2>7 DEF Holding, LedgerInv, TypeOK, Row
  <2>9. SendsKnown' BY <2>5 DEF NoGapInv, SendsKnown, Sending, At
  <2>10. Newest'
    <3>1. ASSUME NEW q \in Commands, First(calls'[q]), rows'[calls'[q].intent].status \in Doubtful,
                 NEW j \in Holding', j # calls'[q].intent
          PROVE  rows'[j].nonce < rows'[calls'[q].intent].nonce
      <4>1. CASE q = p BY <2>2, <2>4, <2>5, <2>6, <2>7, <2>8, <3>1, <4>1
      <4>2. CASE q # p
        <5>1. PICK k : k = calls[q].intent OBVIOUS
        <5>2. First(calls[q]) /\ calls'[q].intent = k BY <2>5, <3>1, <4>2, <5>1
        <5>3. k \in Intents /\ Signed(k)
          BY <5>1, <5>2, RunningCall DEF LedgerInv, CallsTrue, CallTrue, First, Idle
        <5>4. rows[k].status \in Doubtful BY <1>5, <2>6, <3>1, <5>2, <5>3
        <5>5. k \in Blocking
          BY <5>3, <5>4 DEF Blocking, Holding, Doubtful, NONCE_RELEASING_STATUSES,
             NONCE_SETTLED_STATUSES, INCLUDED, SIGNED, SEND_ATTEMPTED, INCLUDED_SUCCESS,
             INCLUDED_REVERTED, CONFIRMED_SUCCESS, CONFIRMED_REVERTED,
             NONCE_CONSUMED_OR_REPLACED, UNBROADCAST
        <5>6. QED BY <1>5, <5>5
      <4>3. QED BY <4>1, <4>2
    <3>2. QED BY <3>1 DEF Newest, First, Doubtful
  <2>11. GapFree'
    <3>1. ASSUME NEW k \in Holding, NEW n \in Len(mined) .. rows[k].nonce - 1, n \notin foreign
          PROVE  \E j \in Holding : rows[j].nonce = n
      BY <3>1 DEF NoGapInv, GapFree
    <3>2. ASSUME NEW n \in Len(mined) .. next - 1, n \notin foreign
          PROVE  \E j \in Holding : rows[j].nonce = n
      <4>1. CASE next = chain_nonce
        <5>1. PICK j \in mempool : rows[j].nonce = n
          BY <2>3, <3>2, <4>1 DEF PendingCounts
        <5>2. j \in Intents /\ Signed(j) /\ Live(j) BY DEF LedgerInv, TypeOK, Chained, Live
        <5>3. rows[j].status # UNBROADCAST BY <5>2 DEF NoGapInv, OffersOnce, Unsent
        <5>4. QED BY <5>1, <5>2, <5>3 DEF Holding, NONCE_RELEASING_STATUSES
      <4>2. ASSUME NEW k \in Holding, next = rows[k].nonce + 1
            PROVE  \E j \in Holding : rows[j].nonce = n
        <5>1. Len(mined) \in Nat BY ChainFacts DEF LedgerInv, ChainTyped
        <5>2. n = rows[k].nonce \/ n \in Len(mined) .. rows[k].nonce - 1
          BY <2>4, <2>8, <3>2, <4>2, <5>1
        <5>3. QED BY <3>1, <3>2, <5>2
      <4>3. QED BY <2>4, <4>1, <4>2
    <3>3. rows'[i].nonce = next BY <2>2, <2>6
    <3>4. ASSUME NEW k \in Holding', NEW n \in Len(mined) .. rows'[k].nonce - 1, n \notin foreign
          PROVE  \E j \in Holding : rows[j].nonce = n
      BY <2>7, <2>8, <3>1, <3>2, <3>3, <3>4
    <3>5. QED BY <1>3, <2>7, <2>8, <3>4 DEF GapFree, chain
  <2>12. ForeignSeen' BY <1>3 DEF NoGapInv, ForeignSeen, chain
  <2>13. QED BY <2>9, <2>10, <2>11, <2>12 DEF NoGapInv
<1>6. QED BY <1>1, <1>4, <1>5 DEF record_signed

LEMMA AttemptLeavesNoGap ==
  ASSUME LedgerInv, NoGapInv, OffersOnce', NEW p \in Commands, record_attempt(p)
  PROVE  NoGapInv'
<1>1. PICK o : o = calls[p] OBVIOUS
<1>2. o \in Call /\ o.intent \in Intents /\ CallTrue(o) /\ o.step \in {"attempt", "replay"}
  BY <1>1, RunningCall DEF LedgerInv, CallsTrue, record_attempt, Idle
<1>3. PICK row : row = Written(o, SEND_ATTEMPTED, NoBlock, TRUE) OBVIOUS
<1>4. UNCHANGED <<mempool, chain>> BY DEF record_attempt
<1>5. CASE Leave(p) /\ UNCHANGED rows
  BY <1>4, <1>5, QuietLeavesNoGap DEF Leave, Idle, First
<1>6. ASSUME NEW step \in {"send", "resend"}, step = "send" <=> o.step = "attempt", Fresh(o),
             rows' = [rows EXCEPT ![o.intent] = row], Enter(p, step, o.intent, row, NoAnswer)
      PROVE  NoGapInv'
  <2>1. PICK c : c = [step |-> step, intent |-> o.intent, answer |-> NoAnswer,
                      seen |-> [status |-> row.status, attempts |-> row.attempts]]
    OBVIOUS
  <2>2. row \in Row /\ row.status = SEND_ATTEMPTED /\ row.nonce = rows[o.intent].nonce
    BY <1>2, <1>3, AttemptRow DEF LedgerInv
  <2>3. c \in Call BY <1>2, <2>1, <2>2 DEF Call, Row, Steps, NoAnswer, NoBlock, Block
  <2>4. calls' = [calls EXCEPT ![p] = c] BY <1>6, <2>1 DEF Enter
  <2>5. c.step = step /\ c.intent = o.intent /\ c.seen.status = SEND_ATTEMPTED BY <2>1, <2>2
  <2>6. PICK i : i = o.intent OBVIOUS
  <2>7. Signed(i) /\ rows[i].status = o.seen.status /\ o.seen.status \notin TERMINAL_STATUSES
    BY <1>2, <1>6, <2>6, StatusFacts DEF CallTrue, Fresh, Idle
  <2>8. i \in Holding
    BY <1>2, <2>6, <2>7 DEF Holding, TERMINAL_STATUSES, NONCE_RELEASING_STATUSES
  <2>9. First(c) => c.step = "send" /\ First(o) /\ c.intent = o.intent
    BY <1>6, <2>5 DEF First
  <2>10. rows[i].status \in Doubtful \/ (Alone /\ ~First(c))
    <3>1. CASE step = "send" BY <1>2, <1>6, <2>7, <3>1 DEF CallTrue, Doubtful, Idle
    <3>2. CASE step = "resend"
      BY <1>1, <1>2, <1>6, <2>5, <2>9, <3>2 DEF NoGapInv, OffersOnce
    <3>3. QED BY <3>1, <3>2
  <2>11. row.status # "none" /\ row.status # UNBROADCAST
    BY <2>2 DEF SEND_ATTEMPTED, UNBROADCAST
  <2>12. QED
    BY <1>1, <1>4, <1>6, <2>2, <2>3, <2>4, <2>5, <2>6, <2>8, <2>9, <2>10, <2>11, WriteLeavesNoGap
<1>7. QED BY <1>1, <1>2, <1>3, <1>5, <1>6 DEF record_attempt

LEMMA ApplyLeavesNoGap ==
  ASSUME LedgerInv, NoGapInv, OffersOnce', NEW p \in Commands, apply(p)
  PROVE  NoGapInv'
<1>1. PICK o : o = calls[p] OBVIOUS
<1>2. o # Idle /\ o \in Call /\ o.intent \in Intents /\ CallTrue(o) /\ o.step = "apply"
  BY <1>1, RunningCall DEF LedgerInv, CallsTrue, apply, At, Idle
<1>3. /\ o.seen.status \in ALL_STATUSES /\ o.answer.status \in ALL_STATUSES
      /\ o.answer.block \in Block /\ Signed(o.intent)
  BY <1>2 DEF CallTrue, Call
<1>4. UNCHANGED <<mempool, chain>> BY DEF apply
<1>5. CASE Leave(p) /\ UNCHANGED rows
  BY <1>4, <1>5, QuietLeavesNoGap DEF Leave, Idle, First
<1>6. PICK row : row = Written(o, o.answer.status, o.answer.block, FALSE) OBVIOUS
<1>7. CASE Permitted(o) /\ Fresh(o) /\ rows' = [rows EXCEPT ![o.intent] = row] /\ Leave(p)
  <2>1. row \in Row /\ row.status = o.answer.status /\ row.nonce = rows[o.intent].nonce
    BY <1>2, <1>3, <1>6, VerdictRow DEF LedgerInv
  <2>2. PICK i : i = o.intent OBVIOUS
  <2>3. rows[i].status = o.seen.status BY <1>7, <2>2 DEF Fresh
  <2>4. o.seen.status \notin TERMINAL_STATUSES
    BY <1>7, NothingAfter, StatusFacts DEF Permitted
  <2>5. i \in Holding
    BY <1>2, <1>3, <2>2, <2>3, <2>4 DEF Holding, TERMINAL_STATUSES, NONCE_RELEASING_STATUSES
  <2>6. PICK c : c = Idle OBVIOUS
  <2>7. c \in Call \cup {Idle} /\ calls' = [calls EXCEPT ![p] = c] BY <1>7, <2>6 DEF Leave
  <2>8. ~First(c) /\ c.step \notin {"send", "resend", "apply"} BY <2>6 DEF First, Idle
  <2>9. SIGNED # UNBROADCAST /\ SEND_ATTEMPTED # UNBROADCAST
    BY DEF SIGNED, SEND_ATTEMPTED, UNBROADCAST
  <2>10. row.status \in Doubtful => rows[i].status \in Doubtful
    <3>1. CASE o.answer.status = SIGNED
      BY <1>3, <1>7, <2>9, <3>1, NeverBackToUnsent DEF Permitted
    <3>2. CASE o.answer.status = SEND_ATTEMPTED
      <4>1. o.seen.status = SEND_ATTEMPTED
        BY <1>1, <1>2, <3>2 DEF NoGapInv, SendsKnown, At
      <4>2. QED BY <2>3, <4>1 DEF Doubtful
    <3>3. QED BY <2>1, <3>1, <3>2 DEF Doubtful
  <2>11. ASSUME row.status = UNBROADCAST
         PROVE  \A j \in Holding : j # i => rows[j].nonce < rows[i].nonce
    <3>1. o.seen.status = SEND_ATTEMPTED BY <1>7, <2>1, <2>11 DEF Permitted
    <3>2. First(o) BY <1>2, <2>1, <2>11 DEF First
    <3>3. QED BY <1>1, <2>2, <2>3, <3>1, <3>2 DEF NoGapInv, Newest
  <2>12. row.status # "none" BY <1>3, <2>1, StatusFacts
  <2>13. QED
    BY <1>4, <1>7, <2>1, <2>2, <2>5, <2>7, <2>8, <2>10, <2>11, <2>12, WriteLeavesNoGap
<1>8. QED BY <1>1, <1>5, <1>6, <1>7 DEF apply

\* What a node answers, and what it does not.
LEMMA ConcludingLeavesNoGap ==
  ASSUME LedgerInv, NoGapInv, OffersOnce', NEW p \in Commands, Sending(p) \/ At(p, "replay"),
         NEW s \in {SEND_ATTEMPTED, PENDING, STUCK, NONCE_CONFLICT_PENDING, UNBROADCAST},
         s = UNBROADCAST => At(p, "send"), s = SEND_ATTEMPTED => Sending(p),
         Concludes(p, s), UNCHANGED <<rows, chain>>
  PROVE  NoGapInv'
<1>1. PICK o : o = calls[p] OBVIOUS
<1>2. o \in Call BY <1>1, RunningCall DEF LedgerInv, Sending, At, Idle
<1>3. PICK c : c = [o EXCEPT !.step = "apply", !.answer = [status |-> s, block |-> NoBlock]]
  OBVIOUS
<1>4. s \in ALL_STATUSES BY DEF ALL_STATUSES
<1>5. /\ c \in Call /\ c.step = "apply" /\ c.intent = o.intent /\ c.seen = o.seen
      /\ c.answer.status = s
  BY <1>2, <1>3, <1>4 DEF Call, Steps, NoBlock, Block
<1>6. calls' = [calls EXCEPT ![p] = c] BY <1>1, <1>3 DEF Concludes, LedgerInv, TypeOK
<1>7. First(c) => First(o) /\ c.intent = o.intent BY <1>1, <1>5 DEF First, At
<1>8. s = SEND_ATTEMPTED => c.seen.status = SEND_ATTEMPTED
  BY <1>1, <1>5 DEF NoGapInv, SendsKnown
<1>9. QED BY <1>1, <1>5, <1>6, <1>7, <1>8, QuietLeavesNoGap

LEMMA AnswerLeavesNoGap ==
  ASSUME LedgerInv, NoGapInv, OffersOnce', NEW p \in Commands,
         \/ broadcast_accepted(p) \/ broadcast_already_known(p) \/ broadcast_nonce_too_low(p)
         \/ broadcast_rejected(p) \/ broadcast_uncertain(p) \/ replay_too_late(p)
  PROVE  NoGapInv'
<1>0. /\ \A s \in {SEND_ATTEMPTED, PENDING, STUCK, NONCE_CONFLICT_PENDING} : s # UNBROADCAST
      /\ \A s \in {PENDING, STUCK, NONCE_CONFLICT_PENDING, UNBROADCAST} : s # SEND_ATTEMPTED
  BY DEF PENDING, SEND_ATTEMPTED, NONCE_CONFLICT_PENDING, STUCK, UNBROADCAST
<1>1. CASE broadcast_accepted(p)
  BY <1>0, <1>1, ConcludingLeavesNoGap DEF broadcast_accepted, chain
<1>2. CASE broadcast_already_known(p)
  BY <1>0, <1>2, ConcludingLeavesNoGap DEF broadcast_already_known
<1>3. CASE broadcast_nonce_too_low(p)
  BY <1>0, <1>3, ConcludingLeavesNoGap DEF broadcast_nonce_too_low
<1>4. CASE broadcast_rejected(p)
  <2>1. PICK s \in {UNBROADCAST, STUCK} :
          Concludes(p, s) /\ (s = UNBROADCAST => At(p, "send"))
    BY <1>0, <1>4 DEF broadcast_rejected
  <2>2. QED BY <1>0, <1>4, <2>1, ConcludingLeavesNoGap DEF broadcast_rejected
<1>5. CASE broadcast_uncertain(p)
  BY <1>0, <1>5, ConcludingLeavesNoGap DEF broadcast_uncertain
<1>6. CASE replay_too_late(p)
  BY <1>0, <1>6, ConcludingLeavesNoGap DEF replay_too_late
<1>7. QED BY <1>1, <1>2, <1>3, <1>4, <1>5, <1>6

LEMMA LookLeavesNoGap ==
  ASSUME LedgerInv, NoGapInv, OffersOnce', NEW p \in Commands, NEW i \in Intents, tx_resolve(p, i)
  PROVE  NoGapInv'
<1>1. PICK v \in verdicts(i) :
        \/ Enter(p, "replay", i, rows[i], NoAnswer)
        \/ v.status # UNKNOWN /\ Enter(p, "apply", i, rows[i], v)
  BY DEF tx_resolve
<1>2. Signed(i) /\ UNCHANGED <<rows, mempool, chain>> BY DEF tx_resolve
<1>3. v.block \in Block /\ v.status \in ALL_STATUSES \cup {UNKNOWN}
  BY <1>1, <1>2, ConfirmsTruly, ResolvesTruly DEF verdicts
<1>4. v = [status |-> v.status, block |-> v.block]
  BY DEF verdicts, confirm, resolve, If, Judged, IncludedAs
<1>5. v.status \notin {UNBROADCAST, SEND_ATTEMPTED}
  BY DEF verdicts, confirm, resolve, If, Judged, IncludedAs, INCLUDED, UNKNOWN, PENDING,
         INCLUDED_SUCCESS, INCLUDED_REVERTED, CONFIRMED_SUCCESS, CONFIRMED_REVERTED, REORGED,
         NONCE_CONFLICT_PENDING, NONCE_CONSUMED_OR_REPLACED, STUCK, UNBROADCAST, SEND_ATTEMPTED
<1>6. PICK row : row = rows[i] OBVIOUS
<1>7. row \in Row /\ row.status \in ALL_STATUSES
  BY <1>2, <1>6, SignedHasStatus DEF LedgerInv, TypeOK, Row
<1>8. CASE Enter(p, "replay", i, rows[i], NoAnswer)
  <2>1. PICK c : c = [step |-> "replay", intent |-> i, answer |-> NoAnswer,
                      seen |-> [status |-> row.status, attempts |-> row.attempts]]
    OBVIOUS
  <2>2. c \in Call BY <1>7, <2>1 DEF Call, Row, Steps, NoAnswer, NoBlock, Block
  <2>3. calls' = [calls EXCEPT ![p] = c] BY <1>6, <1>8, <2>1 DEF Enter
  <2>4. c.step = "replay" /\ ~First(c) BY <2>1 DEF First
  <2>5. QED BY <1>2, <2>2, <2>3, <2>4, QuietLeavesNoGap
<1>9. CASE v.status # UNKNOWN /\ Enter(p, "apply", i, rows[i], v)
  <2>1. PICK c : c = [step |-> "apply", intent |-> i, answer |-> v,
                      seen |-> [status |-> row.status, attempts |-> row.attempts]]
    OBVIOUS
  <2>2. c \in Call BY <1>3, <1>4, <1>7, <1>9, <2>1 DEF Call, Row, Steps
  <2>3. calls' = [calls EXCEPT ![p] = c] BY <1>6, <1>9, <2>1 DEF Enter
  <2>4. c.step = "apply" /\ ~First(c) /\ c.answer.status # SEND_ATTEMPTED
    BY <1>5, <2>1 DEF First
  <2>5. QED BY <1>2, <2>2, <2>3, <2>4, QuietLeavesNoGap
<1>10. QED BY <1>1, <1>8, <1>9

LEMMA NoGapSteps ==
  ASSUME LedgerInv, NoGapInv, Steady, [Next]_vars
  PROVE  NoGapInv'
<1>0. OffersOnce' BY OffersSteps DEF NoGapInv
<1>1. CASE UNCHANGED vars
  <2>1. Len(mined) \in Nat /\ \A n \in Len(mined) .. Len(mined) - 1 : FALSE
    BY ChainFacts DEF LedgerInv, ChainTyped
  <2>2. ForeignSeen' /\ UNCHANGED <<rows, calls, mined, foreign>>
    BY <1>1 DEF NoGapInv, ForeignSeen, vars, chain
  <2>3. QED BY <1>0, <2>1, <2>2, ChainLeavesNoGap
<1>2. CASE Environment BY <1>2, EnvironmentLeavesNoGap
<1>3. ASSUME NEW p \in Commands, NEW a \in Actions, deal_action(p, a)
      PROVE  NoGapInv'
  <2>1. PICK i : i = _next_attempt_intent(a) OBVIOUS
  <2>2. PICK c : c = [step |-> "sign", intent |-> i, answer |-> NoAnswer,
                      seen |-> [status |-> NoRow.status, attempts |-> NoRow.attempts]]
    OBVIOUS
  <2>3. c \in Call
    BY <2>1, <2>2, NextIntent DEF Call, Steps, NoRow, NoAnswer, NoBlock, Block
  <2>4. c.step = "sign" /\ ~First(c) BY <2>2 DEF First
  <2>5. calls' = [calls EXCEPT ![p] = c] /\ UNCHANGED <<rows, mempool, chain>>
    BY <1>3, <2>1, <2>2 DEF deal_action, Enter
  <2>6. QED BY <1>0, <2>3, <2>4, <2>5, QuietLeavesNoGap
<1>4. ASSUME NEW p \in Commands, Send(p)
      PROVE  NoGapInv'
  BY <1>0, <1>4, SignLeavesNoGap, AttemptLeavesNoGap, AnswerLeavesNoGap DEF Send
<1>5. ASSUME NEW p \in Commands, Resolve(p)
      PROVE  NoGapInv'
  BY <1>0, <1>5, LookLeavesNoGap, AnswerLeavesNoGap, ApplyLeavesNoGap DEF Resolve
<1>6. ASSUME NEW p \in Commands, crash(p)
      PROVE  NoGapInv'
  BY <1>0, <1>6, QuietLeavesNoGap DEF crash, Leave, Idle, First
<1>7. QED BY <1>1, <1>2, <1>3, <1>4, <1>5, <1>6 DEF Next

\* Without --rebroadcast, or with one process, a nonce the ledger holds waits for no slot
\* but one that a row tx-resolve still works on is to fill, or one that another user of
\* the key signed for: no interleaving, crash, release or reorganisation makes the ledger
\* leave a gap of its own.  TxLedger.NoGap.
THEOREM NeverStranded == Steady => (Spec => []NoGap)
<1> SUFFICES ASSUME Steady
             PROVE  Spec => []NoGap
  OBVIOUS
<1>1. Init => NoGapInv
  <2>1. ASSUME Init
        PROVE  NoGapInv
    <3>1. \A p \in Commands : calls[p] = Idle /\ ~First(Idle) BY <2>1 DEF Init, Idle, First
    <3>2. Holding = {} BY <2>1 DEF Init, Holding, Signed
    <3>3. \A h \in 1 .. Len(mined) : FALSE BY <2>1 DEF Init
    <3>4. QED
      BY <2>1, <3>1, <3>2, <3>3, OffersStart
         DEF NoGapInv, SendsKnown, Sending, At, Idle, Newest, GapFree, ForeignSeen
  <2>2. QED BY <2>1
<1>2. LedgerInv /\ NoGapInv /\ [Next]_vars => NoGapInv' BY NoGapSteps
<1>3. LedgerInv /\ NoGapInv => NoGap BY GapFreeIsNoGap DEF NoGapInv
<1>4. QED BY <1>1, <1>2, <1>3, AlwaysTrue, PTL DEF Spec

-----------------------------------------------------------------------------
\* An identity's fate hangs on its nonce and on the chain below the safe head.
LEMMA FateStays ==
  ASSUME LedgerInv, safe' = safe, \A h \in 1 .. safe : mined'[h] = mined[h],
         NEW i \in Intents, rows'[i].nonce = rows[i].nonce, Signed(i)' <=> Signed(i)
  PROVE  Fate(i)' = Fate(i)
<1>1. safe \in Nat /\ rows[i].nonce \in Nat BY ChainFacts DEF LedgerInv, TypeOK, Row, ChainTyped
<1>2. rows[i].nonce < safe => rows[i].nonce + 1 \in 1 .. safe BY <1>1
<1>3. CASE rows[i].nonce >= safe BY <1>3 DEF Fate
<1>4. CASE ~(rows[i].nonce >= safe)
  <2>1. mined'[rows'[i].nonce + 1] = mined[rows[i].nonce + 1] BY <1>1, <1>2, <1>4
  <2>2. QED BY <2>1 DEF Fate
<1>5. QED BY <1>3, <1>4

\* What is told of an identity is its fate.
TellsTruth ==
  \A i \in Intents : Told(i) # "nothing" =>
    Told(i) = Fate(i) /\ Told(i) \in {"succeeded", "reverted", "lost"}

LEMMA ToldTruly == LedgerInv => TellsTruth
<1>1. ASSUME LedgerInv, NEW i \in Intents, Told(i) # "nothing"
      PROVE  Told(i) = Fate(i) /\ Told(i) \in {"succeeded", "reverted", "lost"}
  <2>0. safe \in Nat /\ rows[i].nonce \in Nat
    BY <1>1, ChainFacts DEF LedgerInv, TypeOK, Row, ChainTyped
  <2>1. rows[i].status \in {CONFIRMED_SUCCESS, CONFIRMED_REVERTED, NONCE_CONSUMED_OR_REPLACED}
    BY <1>1 DEF Told
  <2>2. Signed(i)
    <3>1. rows[i].status # "none"
      BY <2>1 DEF CONFIRMED_SUCCESS, CONFIRMED_REVERTED, NONCE_CONSUMED_OR_REPLACED
    <3>2. QED BY <1>1, <3>1, SignedHasStatus DEF LedgerInv
  <2>3. PICK s, b : s = rows[i].status /\ b = rows[i].block OBVIOUS
  <2>4. Borne(i, s, b) BY <1>1, <2>3 DEF LedgerInv, RowsTrue
  <2>5. rows[i].nonce < safe
    BY <2>0, <2>1, <2>3, <2>4 DEF Borne
  <2>6. ~(rows[i].nonce >= safe) BY <2>0, <2>5
  <2>7. CASE s = CONFIRMED_SUCCESS
    <3>1. mined[rows[i].nonce + 1].tx = i /\ mined[rows[i].nonce + 1].ok
      BY <2>4, <2>7 DEF Borne
    <3>2. QED BY <2>2, <2>3, <2>6, <2>7, <3>1 DEF Told, Fate
  <2>8. CASE s = CONFIRMED_REVERTED
    <3>1. CONFIRMED_REVERTED # CONFIRMED_SUCCESS
      BY DEF CONFIRMED_REVERTED, CONFIRMED_SUCCESS
    <3>2. mined[rows[i].nonce + 1].tx = i /\ ~mined[rows[i].nonce + 1].ok
      BY <2>4, <2>8, <3>1 DEF Borne
    <3>3. QED BY <2>2, <2>3, <2>6, <2>8, <3>1, <3>2 DEF Told, Fate
  <2>9. CASE s = NONCE_CONSUMED_OR_REPLACED
    <3>1. /\ NONCE_CONSUMED_OR_REPLACED # CONFIRMED_SUCCESS
          /\ NONCE_CONSUMED_OR_REPLACED # CONFIRMED_REVERTED
      BY DEF CONFIRMED_REVERTED, CONFIRMED_SUCCESS, NONCE_CONSUMED_OR_REPLACED
    <3>2. mined[rows[i].nonce + 1].tx # i BY <2>4, <2>9 DEF Borne
    <3>3. QED BY <2>2, <2>3, <2>6, <2>9, <3>1, <3>2 DEF Told, Fate
  <2>10. QED BY <2>1, <2>3, <2>7, <2>8, <2>9
<1>2. QED BY <1>1 DEF TellsTruth

\* A row is written for an identity that none was, at a nonce that no final block has spent.
Opening(i, row) ==
  /\ ~Signed(i) /\ Opened(i) /\ row.status = SIGNED /\ row.nonce >= safe
  /\ rows' = [rows EXCEPT ![i] = row]

\* A row that is not settled gets another status and keeps its nonce.
Rewriting(i, row) ==
  /\ Signed(i) /\ ~Terminal(i) /\ row.status \in ALL_STATUSES /\ row.nonce = rows[i].nonce
  /\ rows' = [rows EXCEPT ![i] = row]

\* What a step may do to the rows and to the final part of the chain.
LEMMA FateKinds ==
  ASSUME LedgerInv, [Next]_vars
  PROVE  \/ rows' = rows /\ safe' = safe /\ \A h \in 1 .. safe : mined'[h] = mined[h]
         \/ AdvanceSafe
         \/ UNCHANGED chain /\ \E i \in Intents, row \in Row : Opening(i, row) \/ Rewriting(i, row)
<1> DEFINE Quiet == rows' = rows /\ safe' = safe /\ \A h \in 1 .. safe : mined'[h] = mined[h]
<1>0. ChainTyped BY ChainFacts DEF LedgerInv
<1>1. UNCHANGED <<rows, chain>> => Quiet BY DEF chain
<1>2. CASE UNCHANGED vars BY <1>1, <1>2 DEF vars
<1>3. CASE Environment
  <2>1. ASSUME NEW i \in Intents, Drop(i) PROVE Quiet BY <1>1, <2>1 DEF Drop
  <2>2. ASSUME NEW i \in Intents, NEW ok \in BOOLEAN, Mine(i, ok) PROVE Quiet
    <3>1. [tx |-> i, ok |-> ok, fork |-> forks] \in Mined BY <1>0 DEF Mined, ChainTyped
    <3>2. QED BY <1>0, <2>2, <3>1, Appended DEF Mine, LedgerInv, TypeOK, ChainTyped
  <2>3. CASE MineForeign
    <3>1. [tx |-> Foreign, ok |-> TRUE, fork |-> forks] \in Mined BY <1>0 DEF Mined, ChainTyped
    <3>2. QED BY <1>0, <2>3, <3>1, Appended DEF MineForeign, LedgerInv, TypeOK, ChainTyped
  <2>4. CASE DeadlinePasses BY <2>4 DEF DeadlinePasses
  <2>5. ASSUME NEW height \in safe .. Len(mined) - 1, Reorg(height) PROVE Quiet
    <3>1. height \in 0 .. Len(mined) /\ safe <= height BY <1>0 DEF ChainTyped
    <3>2. \A h \in 1 .. height : mined'[h] = mined[h]
      BY <2>5, <3>1, Truncated DEF Reorg, LedgerInv, TypeOK
    <3>3. QED BY <1>0, <2>5, <3>1, <3>2 DEF Reorg, ChainTyped
  <2>6. ASSUME NEW n \in PendingCounts, ForeignSigns(n) PROVE Quiet
    BY <2>6 DEF ForeignSigns
  <2>7. QED BY <1>3, <2>1, <2>2, <2>3, <2>4, <2>5, <2>6 DEF Environment
<1>4. ASSUME NEW p \in Commands, record_signed(p), rows' # rows
      PROVE  UNCHANGED chain /\ \E i \in Intents, row \in Row : Opening(i, row)
  <2>1. PICK i : i = calls[p].intent OBVIOUS
  <2>2. i \in Intents /\ Opened(i)
    BY <1>4, <2>1, RunningCall DEF LedgerInv, CallsTrue, CallTrue, record_signed, At, Idle
  <2>3. PICK chain_nonce \in PendingCounts :
          rows' = [rows EXCEPT ![i] = [status |-> SIGNED, nonce |-> allocated(chain_nonce),
                                       attempts |-> 0, block |-> NoBlock]]
    BY <1>4, <2>1 DEF record_signed
  <2>4. ~Signed(i) /\ UNCHANGED chain BY <1>4, <2>1 DEF record_signed
  <2>5. chain_nonce \in Nat /\ chain_nonce >= safe
    BY <1>0, CountsTyped DEF LedgerInv, PendingCounts, ChainTyped
  <2>6. PICK n : n = allocated(chain_nonce) OBVIOUS
  <2>7. n \in Nat /\ n >= chain_nonce
    BY <2>5, <2>6, Allocated DEF LedgerInv, TypeOK
  <2>8. PICK row : row = [status |-> SIGNED, nonce |-> n, attempts |-> 0, block |-> NoBlock]
    OBVIOUS
  <2>9. row \in Row BY <2>7, <2>8 DEF Row, NoBlock, Block, ALL_STATUSES
  <2>10. row.status = SIGNED /\ row.nonce >= safe
    BY <1>0, <2>5, <2>7, <2>8 DEF ChainTyped
  <2>11. QED BY <2>2, <2>3, <2>4, <2>6, <2>8, <2>9, <2>10 DEF Opening
<1>5. ASSUME NEW p \in Commands, record_attempt(p), rows' # rows
      PROVE  UNCHANGED chain /\ \E i \in Intents, row \in Row : Rewriting(i, row)
  <2>1. PICK o : o = calls[p] OBVIOUS
  <2>2. o.intent \in Intents /\ CallTrue(o) /\ o # Idle
    BY <1>5, <2>1, RunningCall DEF LedgerInv, CallsTrue, record_attempt, Idle
  <2>3. Signed(o.intent) /\ o.seen.status \notin TERMINAL_STATUSES
    BY <1>5, <2>1, <2>2, StatusFacts DEF CallTrue, record_attempt
  <2>4. PICK row : row = Written(o, SEND_ATTEMPTED, NoBlock, TRUE) OBVIOUS
  <2>5. Fresh(o) /\ rows' = [rows EXCEPT ![o.intent] = row] /\ UNCHANGED chain
    BY <1>5, <2>1, <2>4 DEF record_attempt
  <2>6. row \in Row /\ row.status \in ALL_STATUSES /\ row.nonce = rows[o.intent].nonce
    BY <2>2, <2>4, AttemptRow, StatusFacts DEF LedgerInv
  <2>7. QED BY <2>2, <2>3, <2>5, <2>6 DEF Rewriting, Fresh, Terminal
<1>6. ASSUME NEW p \in Commands, apply(p), rows' # rows
      PROVE  UNCHANGED chain /\ \E i \in Intents, row \in Row : Rewriting(i, row)
  <2>1. PICK o : o = calls[p] OBVIOUS
  <2>2. o.intent \in Intents /\ CallTrue(o) /\ o # Idle /\ o \in Call /\ o.step = "apply"
    BY <1>6, <2>1, RunningCall DEF LedgerInv, CallsTrue, apply, At, Idle
  <2>3. /\ Signed(o.intent) /\ o.seen.status \in ALL_STATUSES
        /\ o.answer.status \in ALL_STATUSES /\ o.answer.block \in Block
    BY <2>2 DEF CallTrue, Call
  <2>4. PICK row : row = Written(o, o.answer.status, o.answer.block, FALSE) OBVIOUS
  <2>5. /\ Permitted(o) /\ Fresh(o) /\ rows' = [rows EXCEPT ![o.intent] = row]
        /\ UNCHANGED chain
    BY <1>6, <2>1, <2>4 DEF apply
  <2>6. row \in Row /\ row.status \in ALL_STATUSES /\ row.nonce = rows[o.intent].nonce
    BY <2>2, <2>3, <2>4, VerdictRow DEF LedgerInv
  <2>7. o.seen.status \notin TERMINAL_STATUSES
    BY <2>3, <2>5, NothingAfter, StatusFacts DEF Permitted
  <2>8. QED BY <2>2, <2>3, <2>5, <2>6, <2>7 DEF Rewriting, Fresh, Terminal
<1>7. ASSUME NEW p \in Commands, Send(p), ~record_signed(p), ~record_attempt(p)
      PROVE  Quiet
  BY <1>1, <1>7 DEF Send, broadcast_accepted, broadcast_already_known, broadcast_nonce_too_low,
                    broadcast_rejected, broadcast_uncertain
<1>8. ASSUME NEW p \in Commands, Resolve(p), ~apply(p)
      PROVE  Quiet
  BY <1>1, <1>8 DEF Resolve, tx_resolve, replay_too_late
<1>9. ASSUME NEW p \in Commands, (\E a \in Actions : deal_action(p, a)) \/ crash(p)
      PROVE  Quiet
  BY <1>1, <1>9 DEF deal_action, crash
<1>10. ASSUME NEW p \in Commands, record_signed(p) \/ record_attempt(p) \/ apply(p), rows' = rows
       PROVE  Quiet
  BY <1>1, <1>10 DEF record_signed, record_attempt, apply
<1>11. QED
  BY <1>2, <1>3, <1>4, <1>5, <1>6, <1>7, <1>8, <1>9, <1>10 DEF Next, Send, Resolve

\* The safe head passes a block: the identity it carries is decided by it, and whoever else
\* held that nonce has lost it.
LEMMA SafeHeadDecides ==
  ASSUME LedgerInv, AdvanceSafe
  PROVE  Promise!Next
<1>0. ChainTyped BY ChainFacts DEF LedgerInv
<1>1. UNCHANGED <<rows, mined>> /\ safe' = safe + 1 /\ safe < Len(mined) BY DEF AdvanceSafe
<1>2. PICK block : block = mined[safe + 1] OBVIOUS
<1>3. \A i \in Intents : rows[i].nonce \in Nat BY DEF LedgerInv, TypeOK, Row
<1> DEFINE fate == [i \in Intents |-> Fate(i)]
           told == [i \in Intents |-> Told(i)]
           Here(i) == Signed(i) /\ rows[i].nonce = safe
           carried == {i \in Intents : Here(i) /\ block.tx = i}
           losers == {i \in Intents : Here(i) /\ block.tx # i}
           Awaited == {i \in Intents : fate[i] = "open"}
<1>4. \A i \in Intents : Here(i) => Fate(i) = "open" BY <1>0 DEF Fate, ChainTyped
<1>5. losers \in SUBSET Awaited BY <1>4
<1>6. carried \in {{}} \cup {{i} : i \in Awaited}
  <2>1. CASE carried = {} BY <2>1
  <2>2. CASE carried # {}
    <3>1. PICK i \in Intents : Here(i) /\ block.tx = i BY <2>2
    <3>2. carried = {i} BY <3>1
    <3>3. QED BY <1>4, <3>1, <3>2
  <2>3. QED BY <2>1, <2>2
<1>7. PICK outcome \in {"succeeded", "reverted"} :
        outcome = IF block.ok THEN "succeeded" ELSE "reverted"
  OBVIOUS
<1>8. ASSUME NEW i \in Intents
      PROVE  Fate(i)' = IF i \in carried THEN outcome ELSE IF i \in losers THEN "lost" ELSE fate[i]
  <2>1. CASE Here(i)
    <3>1. /\ Signed(i)' /\ ~(rows'[i].nonce >= safe')
          /\ mined'[rows'[i].nonce + 1] = block
      BY <1>0, <1>1, <1>2, <2>1 DEF Signed, ChainTyped
    <3>2. QED BY <1>7, <2>1, <3>1 DEF Fate
  <2>2. CASE ~Here(i)
    <3>1. i \notin carried /\ i \notin losers BY <2>2
    <3>2. Signed(i) => (rows[i].nonce >= safe' <=> rows[i].nonce >= safe)
      BY <1>0, <1>1, <1>3, <2>2 DEF ChainTyped
    <3>3. Fate(i)' = Fate(i) BY <1>1, <3>2 DEF Fate, Signed
    <3>4. QED BY <3>1, <3>3
  <2>3. QED BY <2>1, <2>2
<1>9. \A i \in Intents : Told(i)' = Told(i) BY <1>1 DEF Told
<1>10. /\ fate' = [i \in Intents |-> IF i \in carried THEN outcome
                                     ELSE IF i \in losers THEN "lost" ELSE fate[i]]
       /\ told' = told
  <2> HIDE DEF carried, losers
  <2>1. QED BY <1>8, <1>9
<1>11. Promise!Decide(carried, outcome, losers)
  <2> HIDE DEF carried, losers
  <2>1. QED BY <1>10 DEF Promise!Decide
<1>12. Awaited = Promise!Open BY DEF Promise!Open
<1> HIDE DEF carried, losers, Awaited
<1>13. QED BY <1>5, <1>6, <1>11, <1>12 DEF Promise!Next

\* An identity is opened once all before it are told to have reverted.
LEMMA OpeningBegins ==
  ASSUME LedgerInv, UNCHANGED chain, NEW i \in Intents, NEW row \in Row, Opening(i, row)
  PROVE  Promise!Next
<1> DEFINE fate == [j \in Intents |-> Fate(j)]
           told == [j \in Intents |-> Told(j)]
<1>0. UNCHANGED <<safe, mined>> BY DEF chain
<1>1. rows'[i] = row /\ \A j \in Intents \ {i} : rows'[j] = rows[j]
  BY DEF Opening, LedgerInv, TypeOK
<1>2. Fate(i) = "unused" BY DEF Opening, Fate
<1>3. Fate(i)' = "open"
  <2>1. row # NoRow BY StatusFacts DEF Opening, NoRow
  <2>2. QED BY <1>0, <1>1, <2>1 DEF Fate, Signed, Opening
<1>4. \A j \in Intents \ {i} : Fate(j)' = Fate(j) BY <1>0, <1>1, FateStays DEF Signed
<1>5. \A j \in Intents : Told(j)' = Told(j)
  <2>1. Told(i) = "nothing"
    <3>1. rows[i].status = "none" BY SignedHasStatus DEF LedgerInv, Opening
    <3>2. QED BY <3>1 DEF Told, CONFIRMED_SUCCESS, CONFIRMED_REVERTED, NONCE_CONSUMED_OR_REPLACED
  <2>2. Told(i)' = "nothing"
    BY <1>1 DEF Opening, Told, SIGNED, CONFIRMED_SUCCESS, CONFIRMED_REVERTED, NONCE_CONSUMED_OR_REPLACED
  <2>3. QED BY <1>1, <2>1, <2>2 DEF Told
<1>6. ASSUME NEW j \in Intents, j[1] = i[1], j[2] < i[2]
      PROVE  Told(j) = "reverted"
  <2>1. j = <<i[1], j[2]>> /\ j[2] \in 1 .. i[2] - 1
    <3>1. j = <<j[1], j[2]>> /\ j[2] \in Tries(j[1]) /\ i[2] \in Tries(i[1]) BY IntentParts
    <3>2. j[2] \in Nat /\ j[2] >= 1 /\ i[2] \in Nat BY <3>1 DEF Tries
    <3>3. QED BY <1>6, <3>1, <3>2
  <2>2. rows[j].status = CONFIRMED_REVERTED BY <2>1 DEF Opening, Opened
  <2>3. QED BY <2>2 DEF Told, CONFIRMED_SUCCESS, CONFIRMED_REVERTED
<1>7. fate' = [fate EXCEPT ![i] = "open"] /\ told' = told BY <1>3, <1>4, <1>5
<1>8. Promise!Begin(i) BY <1>2, <1>6, <1>7 DEF Promise!Begin, Promise!Earlier
<1>9. QED BY <1>8 DEF Promise!Next

\* Another status tells nothing, or tells the fate for the first time.
LEMMA RewritingTells ==
  ASSUME LedgerInv, LedgerInv', UNCHANGED chain,
         NEW i \in Intents, NEW row \in Row, Rewriting(i, row)
  PROVE  [Promise!Next]_(Promise!vars)
<1> DEFINE fate == [j \in Intents |-> Fate(j)]
           told == [j \in Intents |-> Told(j)]
<1>0. UNCHANGED <<safe, mined>> BY DEF chain
<1>1. rows'[i] = row /\ \A j \in Intents \ {i} : rows'[j] = rows[j]
  BY DEF Rewriting, LedgerInv, TypeOK
<1>2. \A j \in Intents : Fate(j)' = Fate(j)
  <2>1. row # NoRow BY StatusFacts DEF Rewriting, NoRow
  <2>2. Fate(i)' = Fate(i) BY <1>0, <1>1, <2>1, FateStays DEF Signed, Rewriting
  <2>3. \A j \in Intents \ {i} : Fate(j)' = Fate(j) BY <1>0, <1>1, FateStays DEF Signed
  <2>4. QED BY <2>2, <2>3
<1>3. Told(i) = "nothing" BY DEF Rewriting, Terminal, TERMINAL_STATUSES, Told
<1>4. \A j \in Intents \ {i} : Told(j)' = Told(j) BY <1>1 DEF Told
<1>5. CASE Told(i)' = "nothing"
  <2>1. fate' = fate /\ told' = told BY <1>2, <1>3, <1>4, <1>5
  <2>2. QED BY <2>1 DEF Promise!vars
<1>6. CASE Told(i)' # "nothing"
  <2>1. Told(i)' = Fate(i)' /\ Told(i)' \in {"succeeded", "reverted", "lost"}
    <3>1. LedgerInv' => TellsTruth' BY ToldTruly, PTL
    <3>2. QED BY <1>6, <3>1 DEF TellsTruth
  <2>2. Told(i)' = Fate(i) /\ Fate(i) \in {"succeeded", "reverted", "lost"} BY <1>2, <2>1
  <2>3. fate' = fate /\ told' = [told EXCEPT ![i] = fate[i]] BY <1>2, <1>4, <2>2
  <2>4. Promise!Tell(i) BY <1>3, <2>2, <2>3 DEF Promise!Tell
  <2>5. QED BY <2>4 DEF Promise!Next
<1>7. QED BY <1>5, <1>6

\* The ledger keeps the promise of LedgerPromise: whatever its commands believe, write late or
\* lose, each identity's fate is told once, as the chain decided it, and another attempt at an
\* action begins only when all before it are told to have reverted: TxLedger.KeepsItsWord.
THEOREM WordKept == Spec => KeepsItsWord
<1>1. Init => Promise!Init
  <2> SUFFICES ASSUME Init PROVE Promise!Init OBVIOUS
  <2>1. \A i \in Intents : rows[i] = NoRow BY DEF Init
  <2>2. \A i \in Intents : Fate(i) = "unused" BY <2>1 DEF Fate, Signed
  <2>3. \A i \in Intents : Told(i) = "nothing"
    BY <2>1 DEF Told, NoRow, CONFIRMED_SUCCESS, CONFIRMED_REVERTED, NONCE_CONSUMED_OR_REPLACED
  <2>4. QED BY <2>2, <2>3 DEF Promise!Init
<1>2. ASSUME LedgerInv, LedgerInv', [Next]_vars PROVE [Promise!Next]_(Promise!vars)
  <2>1. CASE rows' = rows /\ safe' = safe /\ \A h \in 1 .. safe : mined'[h] = mined[h]
    <3>1. \A i \in Intents : Fate(i)' = Fate(i) BY <1>2, <2>1, FateStays DEF Signed
    <3>2. \A i \in Intents : Told(i)' = Told(i) BY <2>1 DEF Told
    <3>3. QED BY <3>1, <3>2 DEF Promise!vars
  <2>2. CASE AdvanceSafe BY <1>2, <2>2, SafeHeadDecides
  <2>3. ASSUME UNCHANGED chain, NEW i \in Intents, NEW row \in Row,
               Opening(i, row) \/ Rewriting(i, row)
        PROVE  [Promise!Next]_(Promise!vars)
    BY <1>2, <2>3, OpeningBegins, RewritingTells
  <2>4. QED BY <1>2, <2>1, <2>2, <2>3, FateKinds
<1>3. LedgerInv /\ [Next]_vars => LedgerInv' BY LedgerSteps
<1>4. QED BY <1>1, <1>2, <1>3, AlwaysTrue, PTL DEF Spec, KeepsItsWord, Promise!Spec

-----------------------------------------------------------------------------
\* What the promise is good for, whatever keeps it: of the attempts at one action at most one is
\* decided a success.
PromisedOnce ==
  \A i, j \in Intents : i[1] = j[1] /\ Fate(i) = "succeeded" /\ Fate(j) = "succeeded" => i = j

\* An attempt that was begun has only told reverts before it, and what is told is the fate.
PromiseInv ==
  \A i \in Intents :
    /\ Fate(i) # "unused" => \A j \in Intents : j[1] = i[1] /\ j[2] < i[2] => Told(j) = "reverted"
    /\ Told(i) # "nothing" => Told(i) = Fate(i)

LEMMA PromiseSteps == PromiseInv /\ [Promise!Next]_(Promise!vars) => PromiseInv'
<1> DEFINE fate == [i \in Intents |-> Fate(i)]
           told == [i \in Intents |-> Told(i)]
<1> SUFFICES ASSUME PromiseInv, [Promise!Next]_(Promise!vars) PROVE PromiseInv' OBVIOUS
<1>1. SUFFICES ASSUME NEW i \in Intents
               PROVE  /\ fate'[i] # "unused" =>
                           \A j \in Intents : j[1] = i[1] /\ j[2] < i[2] => told'[j] = "reverted"
                      /\ told'[i] # "nothing" => told'[i] = fate'[i]
  BY DEF PromiseInv
<1>2. /\ \A k, j \in Intents : fate[k] # "unused" /\ j[1] = k[1] /\ j[2] < k[2]
                                => told[j] = "reverted"
      /\ \A k \in Intents : told[k] # "nothing" => told[k] = fate[k]
  BY DEF PromiseInv
<1>3. \A k \in Intents : told[k] # "open" BY DEF Told
<1> HIDE DEF fate, told
<1>4. CASE UNCHANGED Promise!vars BY <1>2, <1>4 DEF Promise!vars, fate, told
<1>5. CASE \E k \in Intents : Promise!Begin(k) \/ Promise!Tell(k)
  <2>1. PICK k \in Intents : Promise!Begin(k) \/ Promise!Tell(k) BY <1>5
  <2>2. DOMAIN fate = Intents /\ DOMAIN told = Intents BY DEF fate, told
  <2>3. CASE Promise!Begin(k)
    <3>1. /\ fate[k] = "unused" /\ fate' = [fate EXCEPT ![k] = "open"] /\ told' = told
          /\ \A j \in Intents : j[1] = k[1] /\ j[2] < k[2] => told[j] = "reverted"
      BY <2>3 DEF Promise!Begin, Promise!Earlier, fate, told
    <3>2. told[k] = "nothing" BY <1>2, <3>1 DEF fate, Fate, told, Told
    <3>3. QED BY <1>2, <2>2, <3>1, <3>2
  <2>4. CASE Promise!Tell(k)
    <3>1. told[k] = "nothing" /\ told' = [told EXCEPT ![k] = fate[k]] /\ fate' = fate
      BY <2>4 DEF Promise!Tell, fate, told
    <3>2. QED BY <1>2, <2>2, <3>1
  <2>5. QED BY <2>1, <2>3, <2>4
<1>6. ASSUME NEW carried \in {{}} \cup {{k} : k \in Promise!Open},
             NEW outcome \in {"succeeded", "reverted"}, NEW losers \in SUBSET Promise!Open,
             Promise!Decide(carried, outcome, losers)
      PROVE  /\ fate'[i] # "unused" =>
                  \A j \in Intents : j[1] = i[1] /\ j[2] < i[2] => told'[j] = "reverted"
             /\ told'[i] # "nothing" => told'[i] = fate'[i]
  <2>1. /\ told' = told
        /\ fate' = [k \in Intents |-> IF k \in carried THEN outcome
                                      ELSE IF k \in losers THEN "lost" ELSE fate[k]]
    BY <1>6 DEF Promise!Decide, fate, told
  <2>2. \A k \in carried \cup losers : fate[k] = "open" BY <1>6 DEF Promise!Open, fate
  <2>3. QED BY <1>2, <1>3, <2>1, <2>2
<1>7. QED BY <1>4, <1>5, <1>6 DEF Promise!Next

\* LedgerPromise is enough for whoever relies on it: any behaviour that keeps it, the ledger's
\* among them (WordKept), lets an action succeed at most once, without a word of rows or nonces.
THEOREM PromiseSuffices == Promise!Spec => []PromisedOnce
<1>1. Promise!Init => PromiseInv
  <2> SUFFICES ASSUME Promise!Init, NEW i \in Intents PROVE Fate(i) = "unused" /\ Told(i) = "nothing"
    BY DEF PromiseInv
  <2>1. /\ [k \in Intents |-> Fate(k)] = [k \in Intents |-> "unused"]
        /\ [k \in Intents |-> Told(k)] = [k \in Intents |-> "nothing"]
    BY DEF Promise!Init
  <2>2. /\ [k \in Intents |-> Fate(k)][i] = "unused"
        /\ [k \in Intents |-> Told(k)][i] = "nothing"
    BY <2>1
  <2>3. QED BY <2>2
<1>2. ASSUME PromiseInv PROVE PromisedOnce
  <2> SUFFICES ASSUME NEW i \in Intents, NEW j \in Intents, i[1] = j[1],
                      Fate(i) = "succeeded", Fate(j) = "succeeded"
               PROVE  i = j
    BY DEF PromisedOnce
  <2>1. ~(i[2] < j[2]) /\ ~(j[2] < i[2]) BY <1>2 DEF PromiseInv
  <2>2. \A k \in Intents : k = <<k[1], k[2]>> /\ k[2] \in Int BY DEF Intents, Tries
  <2>3. i[2] = j[2] BY <2>1, <2>2
  <2>4. QED BY <2>2, <2>3
<1>3. PromiseInv => PromisedOnce BY <1>2
<1>4. QED BY <1>1, <1>3, PromiseSteps, PTL DEF Promise!Spec
=============================================================================
