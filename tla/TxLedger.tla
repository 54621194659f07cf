------------------------------ MODULE TxLedger ------------------------------
(***************************************************************************)
(* wrasse/chain.py, with the commands of wrasse/cli.py that drive it: the  *)
(* durable record of what one wallet has signed for one escrow, and of     *)
(* what became of it.  Commands are separate processes that share only the *)
(* SQLite file and the chain.  A command is a sequence of steps, each one  *)
(* write transaction or one conversation with a node; between two of them  *)
(* other commands run, blocks arrive, and the process may die.             *)
(*                                                                         *)
(* The chain, the mempool and other users of the key are the environment.  *)
(* Only the blocks that carry one of the wallet's transactions are kept,   *)
(* so a block's height is the number of nonces spent once it is mined.  A  *)
(* node may lag behind the tip, never behind the safe head; the answers    *)
(* that make up one verdict come from one instant.                         *)
(***************************************************************************)
EXTENDS Naturals, Sequences, FiniteSets

CONSTANTS
  Commands,   \* processes running create-deal, deal or tx-resolve
  Actions,    \* the actions the wallet takes, each named by its permanent identity
  Timed,      \* those signed with an accept_by: createDeal
  MaxTries,   \* bound: identities an action may use up, one per confirmed revert
  Foreign,    \* a transaction of another user of the same key
  Rebroadcast,\* whether tx-resolve is run with --rebroadcast
  HasFallback,\* whether a fallback RPC is configured
  MaxForks,   \* bound: reorganisations
  MaxForeign  \* bound: nonces other users sign for

ASSUME TimedAssumption == Timed \subseteq Actions /\ IsFiniteSet(Actions)
ASSUME FlagsAssumption == Rebroadcast \in BOOLEAN /\ HasFallback \in BOOLEAN
ASSUME BoundsAssumption ==
  MaxTries \in Nat \ {0} /\ MaxForks \in Nat /\ MaxForeign \in Nat

Tries(a) == IF a \in Timed THEN 1..1 ELSE 1..MaxTries
Intents == UNION {{a} \X Tries(a) : a \in Actions}
ASSUME ForeignAssumption == Foreign \notin Intents

SIGNED == "signed"
SEND_ATTEMPTED == "send_attempted"
PENDING == "pending"
INCLUDED_SUCCESS == "included_success"
INCLUDED_REVERTED == "included_reverted"
CONFIRMED_SUCCESS == "confirmed_success"
CONFIRMED_REVERTED == "confirmed_reverted"
REORGED == "reorged"
NONCE_CONFLICT_PENDING == "nonce_conflict_pending"
NONCE_CONSUMED_OR_REPLACED == "nonce_consumed_or_replaced"
STUCK == "stuck"
UNBROADCAST == "unbroadcast"

INCLUDED == {INCLUDED_SUCCESS, INCLUDED_REVERTED}
ALL_STATUSES ==
  INCLUDED \cup {SIGNED, SEND_ATTEMPTED, PENDING, CONFIRMED_SUCCESS,
                 CONFIRMED_REVERTED, REORGED, NONCE_CONFLICT_PENDING,
                 NONCE_CONSUMED_OR_REPLACED, STUCK, UNBROADCAST}
NONCE_SETTLED_STATUSES ==
  INCLUDED \cup {CONFIRMED_SUCCESS, CONFIRMED_REVERTED, NONCE_CONSUMED_OR_REPLACED}
NONCE_RELEASING_STATUSES == {UNBROADCAST}
TERMINAL_STATUSES ==
  {CONFIRMED_SUCCESS, CONFIRMED_REVERTED, NONCE_CONSUMED_OR_REPLACED, UNBROADCAST}

\* Where an unmined row may go once it was offered to a node.
Unmined == INCLUDED \cup {SEND_ATTEMPTED, PENDING, NONCE_CONSUMED_OR_REPLACED, STUCK}

ALLOWED_TRANSITIONS ==
  [s \in ALL_STATUSES |->
     CASE s = SIGNED -> {SEND_ATTEMPTED, STUCK, UNBROADCAST}
       [] s \in {SEND_ATTEMPTED, PENDING, NONCE_CONFLICT_PENDING} ->
            Unmined \cup {NONCE_CONFLICT_PENDING}
       [] s \in {REORGED, STUCK} -> Unmined
       [] s = INCLUDED_SUCCESS -> {INCLUDED_SUCCESS, CONFIRMED_SUCCESS, REORGED}
       [] s = INCLUDED_REVERTED -> {INCLUDED_REVERTED, CONFIRMED_REVERTED, REORGED}
       [] s \in TERMINAL_STATUSES -> {}]

VARIABLES
  rows,     \* the ledger: one row per intent that was ever signed
  calls,    \* where each running command is, and what it believes
  mined,    \* the canonical chain: who spent each nonce, and in which block
  safe,     \* the safe head: blocks up to this height never leave the chain
  forks,    \* reorganisations so far; it tells a block from its replacement
  mempool,  \* signed bytes some node holds and may still mine
  late,     \* the accept_by of the timed actions has passed
  foreign   \* the nonces another user ever signed for, mined or not

chain == <<mined, safe, forks, late, foreign>>
vars == <<rows, calls, mempool, chain>>

-----------------------------------------------------------------------------
\* A block is named by its height and the fork it was mined on.
NoBlock == <<0, 0>>
Block == Nat \X Nat

\* The attempts counter is only ever compared with 1, so 2 stands for "more".
NoRow == [status |-> "none", nonce |-> 0, attempts |-> 0, block |-> NoBlock]
Row == [status : ALL_STATUSES \cup {"none"}, nonce : Nat, attempts : 0..2, block : Block]

Steps == {"sign", "attempt", "send", "replay", "resend", "apply"}
NoAnswer == [status |-> "none", block |-> NoBlock]
Idle == [step |-> "idle"]
\* Of the row a command has read, only what later steps compare is kept; the nonce and
\* the bytes never change.
Call == [step : Steps, intent : Intents,
         seen : [status : ALL_STATUSES \cup {"none"}, attempts : 0..2],
         answer : [status : ALL_STATUSES \cup {"none"}, block : Block]]

Mined == [tx : Intents \cup {Foreign}, ok : BOOLEAN, fork : Nat]

Init ==
  /\ rows = [i \in Intents |-> NoRow]
  /\ calls = [p \in Commands |-> Idle]
  /\ mined = <<>>
  /\ safe = 0
  /\ forks = 0
  /\ mempool = {}
  /\ late = FALSE
  /\ foreign = {}

Enter(p, step, i, row, answer) ==
  calls' = [calls EXCEPT ![p] =
              [step |-> step, intent |-> i, answer |-> answer,
               seen |-> [status |-> row.status, attempts |-> row.attempts]]]
Leave(p) == calls' = [calls EXCEPT ![p] = Idle]
At(p, step) == calls[p].step = step

Signed(i) == rows[i] # NoRow
Terminal(i) == rows[i].status \in TERMINAL_STATUSES
\* The rows whose nonce counts: every one whose bytes may have reached a node.
Holding == {i \in Intents : Signed(i) /\ rows[i].status \notin NONCE_RELEASING_STATUSES}
Blocking == {i \in Holding : rows[i].status \notin NONCE_SETTLED_STATUSES}

\* What a node whose tip is at height tip can see of an intent's bytes.
Receipt(i, tip) == rows[i].nonce < tip /\ mined[rows[i].nonce + 1].tx = i
Tips == safe .. Len(mined)
\* The count a node gives for the tag "pending": the tip it sees, and the unbroken
\* run of transactions it holds above it.  Any node may hold what another user signed,
\* or have dropped it since.
PendingCounts ==
  {n \in safe .. Len(mined) + Cardinality(mempool) + MaxForeign :
     \A m \in Len(mined) .. n - 1 : m \in foreign \/ \E i \in mempool : rows[i].nonce = m}

IncludedAs(row) ==
  LET b == mined[row.nonce + 1] IN
  [status |-> IF b.ok THEN INCLUDED_SUCCESS ELSE INCLUDED_REVERTED,
   block |-> <<row.nonce + 1, b.fork>>]

-----------------------------------------------------------------------------
\* A fresh identity is opened only past a confirmed revert; createDeal has one identity.
\* Variant with a fault: a revert that has merely been included opens one already.
_next_attempt_intent_Included(a) ==
  <<a, CHOOSE k \in Tries(a) :
         /\ \A j \in 1 .. k - 1 :
              rows[<<a, j>>].status \in {INCLUDED_REVERTED, CONFIRMED_REVERTED}
         /\ \/ rows[<<a, k>>].status \notin {INCLUDED_REVERTED, CONFIRMED_REVERTED}
            \/ k + 1 \notin Tries(a)>>

_next_attempt_intent(a) ==
  <<a, CHOOSE k \in Tries(a) :
         /\ \A j \in 1 .. k - 1 : rows[<<a, j>>].status = CONFIRMED_REVERTED
         /\ rows[<<a, k>>].status # CONFIRMED_REVERTED \/ k + 1 \notin Tries(a)>>

\* create-deal and deal look the identity up before they build anything; a row under
\* it ends the command.
deal_action(p, a) ==
  LET i == _next_attempt_intent(a) IN
  /\ calls[p] = Idle /\ ~Signed(i)
  /\ Enter(p, "sign", i, NoRow, NoAnswer)
  /\ UNCHANGED <<rows, mempool, chain>>

\* The nonce allocated when a node counts chain_nonce transactions.
\* Variant with a fault: the nonces given back by a refused send are counted.
allocated_Released(chain_nonce) ==
  CHOOSE n \in {chain_nonce} \cup {rows[i].nonce + 1 : i \in Intents} :
    n >= chain_nonce /\ \A i \in Intents : Signed(i) => n > rows[i].nonce

allocated(chain_nonce) ==
  CHOOSE n \in {chain_nonce} \cup {rows[i].nonce + 1 : i \in Holding} :
    n >= chain_nonce /\ \A i \in Holding : n > rows[i].nonce

\* TransactionLedger.record_signed, one write transaction: the intent is looked up
\* again, a busy wallet refuses, and a deadline that passed refuses to be signed.
record_signed(p) ==
  LET i == calls[p].intent IN
  /\ At(p, "sign")
  /\ \/ /\ Signed(i) \/ Blocking # {} \/ (late /\ i[1] \in Timed)
        /\ Leave(p) /\ UNCHANGED rows
     \/ /\ ~Signed(i) /\ Blocking = {} /\ ~(late /\ i[1] \in Timed)
        /\ \E chain_nonce \in PendingCounts :
             LET row == [status |-> SIGNED, nonce |-> allocated(chain_nonce),
                         attempts |-> 0, block |-> NoBlock] IN
             /\ rows' = [rows EXCEPT ![i] = row]
             /\ Enter(p, "attempt", i, row, NoAnswer)
  /\ UNCHANGED <<mempool, chain>>

\* _write_status: compare-and-swap on the status the snapshot was read with.
Fresh(c) == rows[c.intent].status = c.seen.status
Written(c, status, block, bump) ==
  [rows[c.intent] EXCEPT !.status = status, !.block = block,
                         !.attempts = IF bump /\ @ < 2 THEN @ + 1 ELSE @]

\* The attempt is recorded before the bytes are offered, on a first send and on a replay.
record_attempt(p) ==
  LET c == calls[p]
      row == Written(c, SEND_ATTEMPTED, NoBlock, TRUE) IN
  /\ c.step \in {"attempt", "replay"}
  /\ \/ /\ Fresh(c)
        /\ rows' = [rows EXCEPT ![c.intent] = row]
        /\ Enter(p, IF c.step = "attempt" THEN "send" ELSE "resend", c.intent, row, NoAnswer)
     \/ /\ ~Fresh(c)                                    \* StaleStatus
        /\ Leave(p) /\ UNCHANGED rows
  /\ UNCHANGED <<mempool, chain>>

Sending(p) == calls[p].step \in {"send", "resend"}
Concludes(p, status) ==
  calls' = [calls EXCEPT ![p].step = "apply",
                         ![p].answer = [status |-> status, block |-> NoBlock]]

\* broadcast: the node takes the bytes.  A node that lags takes bytes whose slot is gone.
broadcast_accepted(p) ==
  LET i == calls[p].intent IN
  /\ Sending(p)
  /\ rows[calls[p].intent].nonce >= safe
  /\ ~Receipt(i, Len(mined))
  /\ mempool' = mempool \cup {i}
  /\ Concludes(p, PENDING)
  /\ UNCHANGED <<rows, chain>>

broadcast_already_known(p) ==
  /\ Sending(p)
  /\ calls[p].intent \in mempool \/ Receipt(calls[p].intent, Len(mined))
  /\ Concludes(p, PENDING)
  /\ UNCHANGED <<rows, mempool, chain>>

broadcast_nonce_too_low(p) ==
  /\ Sending(p)
  /\ rows[calls[p].intent].nonce < Len(mined)
  /\ Concludes(p, NONCE_CONFLICT_PENDING)
  /\ UNCHANGED <<rows, mempool, chain>>

\* DeterministicRejection, by a node that does not hold the bytes: a first send gives
\* its nonce back, a replay holds it.
broadcast_rejected(p) ==
  /\ Sending(p)
  /\ calls[p].intent \notin mempool
  /\ Concludes(p, IF At(p, "send") THEN UNBROADCAST ELSE STUCK)
  /\ UNCHANGED <<rows, mempool, chain>>

\* No answer, or one the classification does not know: the bytes may be in flight.
\* Variant with a fault: a send that timed out is taken for a refusal.
broadcast_uncertain_Refused(p) ==
  /\ Sending(p)
  /\ ~Receipt(calls[p].intent, Len(mined))
  /\ mempool' \in {mempool, mempool \cup {calls[p].intent}}
  /\ Concludes(p, IF At(p, "send") THEN UNBROADCAST ELSE STUCK)
  /\ UNCHANGED <<rows, chain>>

broadcast_uncertain(p) ==
  /\ Sending(p)
  /\ \/ UNCHANGED mempool
     \/ /\ ~Receipt(calls[p].intent, Len(mined))
        /\ mempool' = mempool \cup {calls[p].intent}
  /\ Concludes(p, SEND_ATTEMPTED)
  /\ UNCHANGED <<rows, chain>>

-----------------------------------------------------------------------------
\* What confirm may answer about an included row, from a node at any admissible tip.
\* Variant with a fault: a canonical block counts as settled before it is safe.
confirm_AtTheTip(row) ==
  {IF row.block[1] > tip \/ mined[row.block[1]].fork # row.block[2]
   THEN [status |-> REORGED, block |-> NoBlock]
   ELSE [status |-> IF row.status = INCLUDED_SUCCESS
                    THEN CONFIRMED_SUCCESS ELSE CONFIRMED_REVERTED,
         block |-> row.block] : tip \in Tips}

confirm(row) ==
  {IF row.block[1] > tip \/ mined[row.block[1]].fork # row.block[2]
   THEN [status |-> REORGED, block |-> NoBlock]
   ELSE [status |-> IF row.block[1] > safe THEN row.status
                    ELSE IF row.status = INCLUDED_SUCCESS
                    THEN CONFIRMED_SUCCESS ELSE CONFIRMED_REVERTED,
         block |-> row.block] : tip \in Tips}

\* resolve: the verdicts on a row that is not known to be mined.  Each is listed with
\* the answers from which resolve reaches it; all but the first need a node that shows
\* no receipt.
UNKNOWN == "unknown"
Judged(status) == {[status |-> status, block |-> NoBlock]}
If(condition, verdicts) == IF condition THEN verdicts ELSE {}

\* Variant with a fault: an accept_by of zero is read as a deadline in 1970.
resolve_ZeroIsADeadline(i) ==
  LET nonce == rows[i].nonce
      mine == Receipt(i, Len(mined))
      unseen == ~Receipt(i, safe) IN
  If(mine, {IncludedAs(rows[i])}) \cup
  If(unseen /\ (mine \/ i \in mempool), Judged(PENDING)) \cup
  If(unseen /\ \E n \in PendingCounts : n > nonce, Judged(NONCE_CONFLICT_PENDING)) \cup
  If(unseen /\ HasFallback /\ safe > nonce, Judged(NONCE_CONSUMED_OR_REPLACED)) \cup
  If(unseen /\ safe <= nonce, Judged(STUCK))

resolve(i) ==
  LET nonce == rows[i].nonce
      mine == Receipt(i, Len(mined))
      unseen == ~Receipt(i, safe)
      timed == i[1] \in Timed IN
  If(mine, {IncludedAs(rows[i])}) \cup
  If(unseen /\ (mine \/ i \in mempool), Judged(PENDING)) \cup
  If(unseen /\ \E n \in PendingCounts : n > nonce, Judged(NONCE_CONFLICT_PENDING)) \cup
  If(unseen /\ HasFallback /\ safe > nonce, Judged(NONCE_CONSUMED_OR_REPLACED)) \cup
  If(unseen /\ safe <= nonce /\ timed, Judged(STUCK)) \cup
  If(unseen /\ safe <= nonce /\ ~(timed /\ late), Judged(UNKNOWN))

\* tx-resolve, for one row: an included row is judged as included, any other by the
\* unmined resolver.  An answer that agrees with the row writes nothing; an unknown one
\* is replayed if the operator asked for it.  What is decided here is written later,
\* when the row may have moved on.
verdicts(i) == IF rows[i].status \in INCLUDED THEN confirm(rows[i]) ELSE resolve(i)

tx_resolve(p, i) ==
  /\ calls[p] = Idle /\ Signed(i) /\ ~Terminal(i)
  /\ \E v \in verdicts(i) :
       \/ /\ v.status = UNKNOWN /\ Rebroadcast
          /\ Enter(p, "replay", i, rows[i], NoAnswer)
       \/ /\ v.status \notin {rows[i].status, UNKNOWN}
          /\ Enter(p, "apply", i, rows[i], v)
  /\ UNCHANGED <<rows, mempool, chain>>

\* Before a replay the deadline is compared once more: it has passed, or the time of the
\* chain cannot be read, which any row meets.
replay_too_late(p) ==
  /\ At(p, "replay")
  /\ Concludes(p, STUCK)
  /\ UNCHANGED <<rows, mempool, chain>>

\* set_status, and mark_unbroadcast for a first send that was refused.
Permitted(c) ==
  IF c.answer.status = UNBROADCAST
  THEN c.seen.status = SEND_ATTEMPTED /\ c.seen.attempts = 1
  ELSE c.answer.status \in ALLOWED_TRANSITIONS[c.seen.status]

\* A row that has just become included is confirmed in the same pass: the tx_resolve
\* that follows.
\* Variant with a fault: the write does not check that the row is still as it was read.
apply_Unchecked(p) ==
  LET c == calls[p]
      row == Written(c, c.answer.status, c.answer.block, FALSE) IN
  /\ At(p, "apply")
  /\ \/ /\ Permitted(c)
        /\ rows' = [rows EXCEPT ![c.intent] = row]
        /\ Leave(p)
     \/ /\ ~Permitted(c)
        /\ Leave(p) /\ UNCHANGED rows
  /\ UNCHANGED <<mempool, chain>>

apply(p) ==
  LET c == calls[p]
      row == Written(c, c.answer.status, c.answer.block, FALSE) IN
  /\ At(p, "apply")
  /\ \/ /\ Permitted(c) /\ Fresh(c)
        /\ rows' = [rows EXCEPT ![c.intent] = row]
        /\ Leave(p)
     \/ /\ ~(Permitted(c) /\ Fresh(c))              \* IllegalTransition, StaleStatus
        /\ Leave(p) /\ UNCHANGED rows
  /\ UNCHANGED <<mempool, chain>>

\* The process dies, or an exception ends the command, between any two steps.
crash(p) ==
  /\ calls[p] # Idle
  /\ Leave(p)
  /\ UNCHANGED <<rows, mempool, chain>>

-----------------------------------------------------------------------------
\* The environment.
Mine(i, ok) ==
  /\ i \in mempool /\ rows[i].nonce = Len(mined)
  /\ ok => ~(late /\ i[1] \in Timed)
  /\ mined' = Append(mined, [tx |-> i, ok |-> ok, fork |-> forks])
  /\ mempool' = mempool \ {i}
  /\ UNCHANGED <<rows, calls, safe, forks, late, foreign>>

\* Another user of the key takes the next nonce from a node, as the wallet does.
ForeignSigns(n) ==
  /\ n \notin foreign /\ Cardinality(foreign \cup {n}) <= MaxForeign
  /\ foreign' = foreign \cup {n}
  /\ UNCHANGED <<rows, calls, mined, safe, forks, late, mempool>>

MineForeign ==
  /\ Len(mined) \in foreign
  /\ mined' = Append(mined, [tx |-> Foreign, ok |-> TRUE, fork |-> forks])
  /\ UNCHANGED <<rows, calls, safe, forks, late, mempool, foreign>>

Drop(i) ==
  /\ i \in mempool
  /\ mempool' = mempool \ {i}
  /\ UNCHANGED <<rows, calls, chain>>

\* A reorganisation replaces blocks above the safe head; what they carried goes back
\* to the mempool, or is lost.
Reorg(height) ==
  /\ forks < MaxForks
  /\ forks' = forks + 1
  /\ mined' = SubSeq(mined, 1, height)
  /\ \E lost \in SUBSET {mined[h].tx : h \in height + 1 .. Len(mined)} :
       mempool' = mempool \cup
         ({mined[h].tx : h \in height + 1 .. Len(mined)} \ (lost \cup {Foreign}))
  /\ UNCHANGED <<rows, calls, safe, late, foreign>>

AdvanceSafe ==
  /\ safe < Len(mined)
  /\ safe' = safe + 1
  /\ UNCHANGED <<rows, calls, mined, forks, mempool, late, foreign>>

DeadlinePasses ==
  /\ Timed # {} /\ ~late
  /\ late' = TRUE
  /\ UNCHANGED <<rows, calls, mined, safe, forks, mempool, foreign>>

Send(p) ==
  \/ record_signed(p) \/ record_attempt(p)
  \/ broadcast_accepted(p) \/ broadcast_already_known(p) \/ broadcast_nonce_too_low(p)
  \/ broadcast_rejected(p) \/ broadcast_uncertain(p)
Resolve(p) ==
  \/ \E i \in Intents : tx_resolve(p, i)
  \/ replay_too_late(p) \/ apply(p)
Environment ==
  \/ \E i \in Intents : Drop(i) \/ \E ok \in BOOLEAN : Mine(i, ok)
  \/ (\E n \in PendingCounts : ForeignSigns(n)) \/ MineForeign
  \/ AdvanceSafe \/ DeadlinePasses
  \/ \E height \in safe .. Len(mined) - 1 : Reorg(height)

Next ==
  \/ \E p \in Commands :
       (\E a \in Actions : deal_action(p, a)) \/ Send(p) \/ Resolve(p) \/ crash(p)
  \/ Environment

Spec == Init /\ [][Next]_vars

\* A command that runs goes on to its next step.  Somebody keeps running tx-resolve
\* --rebroadcast, often enough that now and then it gets from end to end; a node takes the
\* bytes now and then; bytes that keep coming back to a mempool are mined; and the safe head
\* follows the tip.
Fairness ==
  /\ \A p \in Commands : WF_vars(Send(p))
  /\ \A p \in Commands, i \in Intents :
       /\ SF_vars(tx_resolve(p, i))
       /\ SF_vars(record_attempt(p) /\ calls[p].intent = i)
       /\ SF_vars(broadcast_accepted(p) /\ calls[p].intent = i)
       /\ SF_vars(apply(p) /\ calls[p].intent = i)
  /\ \A i \in Intents : SF_vars(\E ok \in BOOLEAN : Mine(i, ok))
  /\ WF_vars(AdvanceSafe)

FairSpec == Spec /\ Fairness

-----------------------------------------------------------------------------
\* Every row, command, block and mempool entry has the shape the code gives it: a
\* row's status is one of the ledger's, never the verdict `unknown`.
TypeOK ==
  /\ rows \in [Intents -> Row]
  /\ calls \in [Commands -> Call \cup {Idle}]
  /\ mined \in Seq(Mined) /\ safe \in 0 .. Len(mined)
  /\ forks \in 0 .. MaxForks /\ late \in BOOLEAN
  /\ mempool \subseteq Intents /\ foreign \subseteq Nat

\* A terminal verdict is true, and stays true whatever the chain does next: the nonce
\* is below the safe head, spent by these bytes with the recorded outcome, or by
\* somebody else's.
FinalVerdictsTrue ==
  \A i \in Intents :
    LET spent == mined[rows[i].nonce + 1] IN
    rows[i].status \in {CONFIRMED_SUCCESS, CONFIRMED_REVERTED, NONCE_CONSUMED_OR_REPLACED} =>
      /\ rows[i].nonce < safe
      /\ rows[i].status = CONFIRMED_SUCCESS => spent.tx = i /\ spent.ok
      /\ rows[i].status = CONFIRMED_REVERTED => spent.tx = i /\ ~spent.ok
      /\ rows[i].status = NONCE_CONSUMED_OR_REPLACED => spent.tx # i

\* The ledger strands its wallet behind no gap of its own making: below any nonce it
\* holds, a slot that is not spent now belongs to a row tx-resolve still works on, or
\* another user of the key once signed for it.  What such a user signed, a node counted
\* and every node then dropped is a gap the ledger cannot fill.
NoGap ==
  \A i \in Holding : \A n \in Len(mined) .. rows[i].nonce - 1 :
    n \in foreign \/ \E j \in Holding : rows[j].nonce = n /\ ~Terminal(j)

\* mark_unbroadcast: a nonce is released only when the bytes never reached a mempool,
\* so an unbroadcast row is never found in a mempool or in a block.
ReleasedNeverLive ==
  \A i \in Intents :
    rows[i].status = UNBROADCAST => i \notin mempool /\ \A h \in DOMAIN mined : mined[h].tx # i

\* However often a command is repeated, crashes or races another, an action takes
\* effect at most once: two of its identities never both succeed on the chain.
ActsOnce ==
  \A a \in Actions : \A g, h \in DOMAIN mined :
    /\ mined[g].tx # Foreign /\ mined[g].ok /\ mined[g].tx[1] = a
    /\ mined[h].tx # Foreign /\ mined[h].ok /\ mined[h].tx[1] = a
    => g = h

\* A row that reached a terminal status never changes again, whatever older opinion a
\* slower command still holds.
SettledStays ==
  [][\A i \in Intents : Terminal(i) => rows'[i] = rows[i]]_vars

\* How the chain decided an identity, once its nonce is below the safe head.
Fate(i) ==
  IF ~Signed(i) THEN "unused"
  ELSE IF rows[i].nonce >= safe THEN "open"
  ELSE IF mined[rows[i].nonce + 1].tx # i THEN "lost"
  ELSE IF mined[rows[i].nonce + 1].ok THEN "succeeded" ELSE "reverted"

\* What the ledger reports of it as final.
Told(i) ==
  IF rows[i].status = CONFIRMED_SUCCESS THEN "succeeded"
  ELSE IF rows[i].status = CONFIRMED_REVERTED THEN "reverted"
  ELSE IF rows[i].status = NONCE_CONSUMED_OR_REPLACED THEN "lost" ELSE "nothing"

Promise == INSTANCE LedgerPromise WITH
  Identities <- Intents,
  fate <- [i \in Intents |-> Fate(i)],
  told <- [i \in Intents |-> Told(i)]

\* Whatever its commands believe, write late or lose, and wherever they die, the ledger tells
\* of each identity what the chain decided, once, and begins another attempt at an action
\* only when all before it are known to have reverted for good.
KeepsItsWord == Promise!Spec

\* _tx_resolve applies what the chain says: no verdict it reaches is one the state
\* graph refuses, which would end the command before the rows after it.
VerdictsApply ==
  \A p \in Commands : At(p, "apply") => Permitted(calls[p])

\* No deal action holds its wallet for ever: bytes without a deadline that a node
\* forgot, a command left half done or a reorganisation undid are resent until they
\* are mined.
WalletFreed ==
  \A i \in Intents : i[1] \notin Timed => (i \in Blocking ~> i \notin Blocking)
=============================================================================
