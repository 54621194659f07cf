----------------------------- MODULE RefundProofs -----------------------------
(***************************************************************************)
(* What the hosted service promises about deposits, for any number of      *)
(* sessions, threads, runs and restarts: every deposit is in the index; no *)
(* settlement slips in behind a refund that may still succeed; a session   *)
(* marked refunded has no deal left in the index.                          *)
(*                                                                         *)
(* Three invariants, each resting on the one before and all on Claims:     *)
(* Books says what the index and the ledger know at each point of a        *)
(* settlement; InOrder, that runs are submitted and taken up in the order  *)
(* of their ids; Emptied, that a refund which succeeded closed every deal  *)
(* its session had, and that nothing can open another.                     *)
(* Last, the registry: Roster says that its list is its open sessions,     *)
(* which gives the types of the whole state; Newcomers, that a session     *)
(* whose stores are not there yet is idle, so that it keeps its limit; and *)
(* the trimmed history: only runs that have ended are forgotten.           *)
(***************************************************************************)
EXTENDS HostedServiceProofs, WellFoundedInduction

-----------------------------------------------------------------------------
\* What survives a restart.
DurableTypes ==
  /\ liability \in [Runs -> [known : {"nothing", "intent", "hash", "deal"},
                             session : Sessions \cup {Nobody}]]
  /\ creation \in [Runs -> {"none", "unbroadcast", "pending", "included", "reverted"}]
  /\ deal \in [Runs -> {"none", "Closed"} \cup Live]

\* A deal is made by the inclusion of its creation.
DealMade == \A r \in Runs : deal[r] # "none" <=> creation[r] = "included"

\* Nothing was signed for a run that nobody has begun.
NotBegun ==
  \A r \in Runs : runs[r].kind = "none" \/ runs[r].status = "queued" => creation[r] = "none"

\* The kinds of run that can be at each of the worker's steps.
Idling == {"idle", "callback"}

AtWork ==
  /\ \A r \in RunIds : runs[r].kind = "reclaim" <=> r = Reclaim
  /\ worker.at \notin Idling => runs[worker.run].status = "running"
  /\ worker.at \in Settling => worker.run \in Runs /\ runs[worker.run].kind = "settlement"
  /\ worker.at = "refund" => runs[worker.run].kind = "refund"
  /\ worker.at = "reclaim" => runs[worker.run].kind = "reclaim"
  /\ worker.at \in {"recover", "collect"} => runs[worker.run].kind \in {"refund", "reclaim"}

\* The intent is written before anything is signed, and the row is closed after the deal.
Signing ==
  /\ worker.at \in {"settlement", "create"} => creation[worker.run] = "none"
  /\ worker.at = "create" => liability[worker.run] # NoLiability
  /\ worker.at = "confirm" => deal[worker.run] = "Closed"

Books == DurableTypes /\ DealMade /\ NotBegun /\ AtWork /\ Signing /\ DepositsIndexed

-----------------------------------------------------------------------------
Started(r) == runs[r].status \in Endings \cup {"running"}

\* Ids are given out in order, and a run that was submitted has a status and stays in the
\* queue until it is taken.
Submitted ==
  /\ \A r \in Runs : runs[r].kind = "none" => runs[r] = NoRun
  /\ \A r, q \in Runs : runs[r].kind # "none" /\ q < r => runs[q].kind # "none"
  /\ \A r \in Runs : runs[r].kind \in {"settlement", "refund"} => runs[r].status # "none"
  /\ \A r \in RunIds : runs[r].status = "queued" => \E i \in 1..Len(queue) : queue[i] = r

\* The queue is taken from its front: what waits is younger than what has begun, and the run
\* in the worker's hands is the youngest that has.
FirstInFirstOut ==
  /\ \A i, j \in 1..Len(queue) : i < j => queue[i] < queue[j]
  /\ \A r, q \in RunIds : Started(r) /\ runs[q].status = "queued" => r < q
  /\ worker.at \notin Idling => \A r \in RunIds : Started(r) => r <= worker.run

\* A refund that succeeded is the one its session names, until the session is marked.
SuccessNamed ==
  \A s \in Sessions, r \in Runs :
    r \in RefundsOf(s) =>
      /\ runs[r].status # "refused"
      /\ runs[r].status = "succeeded" =>
           sess[s].refund_run_id = r /\ (sess[s].finishing \/ sess[s].refunded)

\* What a thread saw of the refund's end is how it ended.
ObservedTrue ==
  \A t \in All : call[t].at = "settle" =>
    call[t].succeeded = (runs[call[t].observed].status = "succeeded")

InOrder ==
  Submitted /\ FirstInFirstOut /\ SuccessNamed /\ ObservedTrue /\ NoSettlementBehindRefund

-----------------------------------------------------------------------------
\* The run a session names is a refund of its own, and one that succeeded if it is marked.
NamesItsOwn ==
  \A s \in Sessions :
    /\ sess[s].refund_run_id # Nobody => sess[s].refund_run_id \in RefundsOf(s)
    /\ sess[s].refunded => /\ sess[s].refund_run_id \in Runs
                           /\ runs[sess[s].refund_run_id].status = "succeeded"

\* A settlement files its deal under its own session.
Filed ==
  worker.at \in {"create", "sent", "included"} =>
    liability[worker.run] = NoLiability
    \/ liability[worker.run].session = runs[worker.run].session

\* A refund has left to do what the index names of its session, and nothing when it collects.
ToDo ==
  worker.at \notin Idling /\ runs[worker.run].kind = "refund" =>
    /\ worker.at = "recover" => open_deals(runs[worker.run].session) \subseteq worker.todo
    /\ worker.at = "collect" => open_deals(runs[worker.run].session) = {}

\* A refund that succeeded left the index empty of its session's deals, and it stays empty.
StaysEmpty ==
  \A s \in Sessions, r \in Runs :
    r \in RefundsOf(s) /\ runs[r].status = "succeeded" => open_deals(s) = {}

Emptied == NamesItsOwn /\ Filed /\ ToDo /\ StaysEmpty

-----------------------------------------------------------------------------
\* The reclaim comes before every run that is submitted.
LEMMA ReclaimFirst ==
  /\ Reclaim \in RunIds /\ RunIds \subseteq Nat
  /\ \A r \in Runs : r \in RunIds /\ r # Reclaim /\ Reclaim < r
BY RunsAssumption DEF RunIds, Reclaim

\* What the worker's steps have in common: the run in its hands is running, and of those that
\* have not ended it alone may end.
LEMMA WorkerMoves ==
  ASSUME Claims, AtWork, Settle \/ Recover
  PROVE  /\ worker.at \notin Idling /\ worker'.run = worker.run /\ worker.run \in RunIds
         /\ runs[worker.run].status = "running"
         /\ \A r \in RunIds : /\ runs'[r].kind = runs[r].kind
                              /\ runs'[r].session = runs[r].session
                              /\ r # worker.run => runs'[r].status = runs[r].status
         /\ \/ worker'.at \notin Idling /\ UNCHANGED runs
            \/ worker'.at = "callback" /\ runs'[worker.run].status \in Endings
         /\ AtWork'
<1> USE DEF Claims
<1>1. worker.at \notin Idling
  BY SettleMoves, RecoverMoves DEF Settling, Idling
<1>2. worker.run \in RunIds /\ runs[worker.run].status = "running"
  BY <1>1 DEF AtWork, OneAtATime, Idling
<1>3. CASE UNCHANGED runs
  <2>1. worker'.at \notin Idling /\ worker'.run = worker.run
    <3>1. CASE Settle
      <4>1. ASSUME NEW status \in Endings, runs' = [runs EXCEPT ![worker.run].status = status]
            PROVE  FALSE
        <5>1. runs'[worker.run].status = status BY <1>2, <4>1 DEF Types, RunType
        <5>2. QED BY <1>2, <1>3, <5>1 DEF Endings
      <4>2. QED BY <3>1, <4>1, SettleMoves DEF Settling, Idling
    <3>2. CASE Recover
      <4>1. ASSUME NEW status \in {"failed", "succeeded"},
                   runs' = [runs EXCEPT ![worker.run].status = status]
            PROVE  FALSE
        <5>1. runs'[worker.run].status = status BY <1>2, <4>1 DEF Types, RunType
        <5>2. QED BY <1>2, <1>3, <5>1
      <4>2. QED BY <3>2, <4>1, RecoverMoves DEF Idling
    <3>3. QED BY <3>1, <3>2
  <2>2. AtWork'
    <3>1. CASE Settle
      <4>1. worker.at \in Settling /\ worker'.at \in Settling \cup Idling
        BY <3>1, SettleMoves DEF Idling
      <4>2. QED BY <1>2, <1>3, <2>1, <4>1 DEF AtWork, Settling
    <3>2. CASE Recover
      <4>1. /\ worker.at \in {"refund", "reclaim", "recover", "collect"}
            /\ worker'.at \in {"recover", "collect"} \cup Idling
        BY <3>2, RecoverMoves DEF Idling
      <4>2. QED BY <1>2, <1>3, <2>1, <4>1 DEF AtWork, Settling
    <3>3. QED BY <3>1, <3>2
  <2>3. QED BY <1>1, <1>2, <1>3, <2>1, <2>2
<1>4. ASSUME NEW status \in Endings, runs' = [runs EXCEPT ![worker.run].status = status],
             worker'.at = "callback"
      PROVE  /\ \A r \in RunIds : /\ runs'[r].kind = runs[r].kind
                                  /\ runs'[r].session = runs[r].session
                                  /\ r # worker.run => runs'[r].status = runs[r].status
             /\ runs'[worker.run].status \in Endings /\ AtWork'
  <2>1. \A r \in RunIds :
          /\ runs'[r].kind = runs[r].kind /\ runs'[r].session = runs[r].session
          /\ runs'[r].status = IF r = worker.run THEN status ELSE runs[r].status
    BY <1>2, <1>4 DEF Types, RunType
  <2>2. Reclaim \in RunIds BY DEF RunIds
  <2>3. QED BY <1>2, <1>4, <2>1, <2>2 DEF AtWork, Settling, Idling
<1>5. CASE Settle BY <1>1, <1>2, <1>3, <1>4, <1>5, SettleMoves
<1>6. CASE Recover BY <1>1, <1>2, <1>3, <1>4, <1>6, RecoverMoves DEF Endings
<1>7. QED BY <1>5, <1>6

-----------------------------------------------------------------------------
\* Books.  What a request thread does to its session or its call changes none of it.
LEMMA BooksUnmoved ==
  ASSUME Books, UNCHANGED <<durable, runs, worker>>
  PROVE  Books'
BY DEF Books, durable, DurableTypes, DealMade, NotBegun, AtWork, Signing, DepositsIndexed

\* A run is submitted: nothing was signed for it before.
LEMMA SubmitKeepsBooks ==
  ASSUME Claims, Books, NEW r \in Runs, NEW s \in Sessions, NEW kind \in {"settlement", "refund"},
         submit(r, s, kind), UNCHANGED <<durable, worker>>
  PROVE  Books'
<1> USE DEF Books
<1>1. /\ runs[r].kind = "none" /\ runs[r].status = "none"
      /\ \A q \in RunIds : runs'[q] =
           IF q = r THEN [session |-> s, kind |-> kind, status |-> "queued"] ELSE runs[q]
  BY SubmitQueues DEF Claims
<1>2. /\ DurableTypes' /\ DealMade' /\ Signing' /\ DepositsIndexed'
  BY DEF durable, DurableTypes, DealMade, Signing, DepositsIndexed
<1>3. NotBegun'
  <2>1. creation[r] = "none" BY <1>1 DEF NotBegun
  <2>2. \A q \in Runs \ {r} : runs'[q] = runs[q] BY <1>1 DEF RunIds
  <2>3. QED BY <2>1, <2>2 DEF NotBegun, durable
<1>4. AtWork'
  <2>1. r \in RunIds /\ r # Reclaim BY ReclaimFirst
  <2>2. \A q \in RunIds : runs'[q].kind = "reclaim" <=> q = Reclaim
    <3>1. SUFFICES ASSUME NEW q \in RunIds PROVE runs'[q].kind = "reclaim" <=> q = Reclaim
      OBVIOUS
    <3>2. CASE q = r BY <1>1, <2>1, <3>2
    <3>3. CASE q # r BY <1>1, <3>1, <3>3 DEF AtWork
    <3>4. QED BY <3>2, <3>3
  <2>3. worker.at \notin Idling => worker.run \in RunIds /\ worker.run # r
    BY <1>1 DEF Claims, OneAtATime, Idling
  <2>4. worker.at \notin Idling => runs'[worker.run] = runs[worker.run]
    BY <1>1, <2>3
  <2>5. QED BY <2>2, <2>4 DEF AtWork, Settling, Idling
<1>5. QED BY <1>2, <1>3, <1>4

\* The worker starts on a queued run, for which nothing was signed yet.
LEMMA WorkKeepsBooks ==
  ASSUME Claims, Books, _work
  PROVE  Books'
<1> USE DEF Books
<1> DEFINE r == Head(queue)
<1>1. r \in RunIds /\ runs[r].status = "queued" /\ queue # <<>>
  <2>1. queue # <<>> /\ queue \in Seq(RunIds) BY DEF _work, Claims, Types
  <2>2. 1 \in 1..Len(queue) /\ r = queue[1] /\ r \in RunIds BY <2>1
  <2>3. QED BY <2>1, <2>2 DEF Claims, Queued
<1>2. PICK status \in {"running", "failed"}, at \in {"callback", runs[r].kind} :
        /\ worker' = [Idle EXCEPT !.run = r, !.at = at]
        /\ runs' = [runs EXCEPT ![r].status = status]
        /\ at # "callback" => status = "running"
  BY DEF _work
<1>3. \A q \in RunIds : /\ runs'[q].kind = runs[q].kind
                        /\ runs'[q].status = IF q = r THEN status ELSE runs[q].status
  BY <1>1, <1>2 DEF Claims, Types, RunType
<1>4. worker'.run = r /\ worker'.at = at
  BY <1>2 DEF Idle
<1>5. runs[r].kind \in {"none", "lost", "reclaim", "settlement", "refund"}
  BY <1>1 DEF Claims, Types, RunType
<1>6. DurableTypes' /\ DealMade' /\ DepositsIndexed'
  BY DEF _work, durable, DurableTypes, DealMade, DepositsIndexed
<1>7. NotBegun'
  BY <1>1, <1>3 DEF NotBegun, _work, durable, RunIds
<1>8. at = "settlement" => r \in Runs /\ runs[r].kind = "settlement"
  BY <1>1, <1>5, <1>2 DEF AtWork, RunIds
<1>9. AtWork'
  <2>1. Reclaim \in RunIds BY DEF RunIds
  <2>2. at \in Settling => at = "settlement"
    BY <1>2, <1>5 DEF Settling
  <2>3. QED BY <1>1, <1>2, <1>3, <1>4, <1>5, <1>8, <2>1, <2>2 DEF AtWork, Idling
<1>10. Signing'
  <2>1. at \notin {"create", "confirm"} BY <1>2, <1>5
  <2>2. at = "settlement" => creation[r] = "none" BY <1>1, <1>8 DEF NotBegun
  <2>3. QED BY <1>4, <2>1, <2>2 DEF Signing, _work, durable
<1>11. QED BY <1>6, <1>7, <1>9, <1>10

\* The callback leaves the worker idle.
LEMMA CallbackKeepsBooks ==
  ASSUME Books, _run_finished
  PROVE  Books'
<1> USE DEF Books
<1>1. UNCHANGED <<durable, runs>> /\ worker' = Idle BY DEF _run_finished
<1>2. DurableTypes' /\ DealMade' /\ NotBegun' /\ DepositsIndexed'
  BY <1>1 DEF durable, DurableTypes, DealMade, NotBegun, DepositsIndexed
<1>3. AtWork' /\ Signing'
  BY <1>1 DEF AtWork, Signing, Idle, Idling, Settling
<1>4. QED BY <1>2, <1>3

\* A creation that was sent is in the index before it lands.
LEMMA ChainKeepsBooks ==
  ASSUME Books, Chain
  PROVE  Books'
<1> USE DEF Books
<1>1. UNCHANGED <<runs, worker>> BY DEF Chain, volatile
<1>2. CASE \E role \in Roles : WithdrawalConfirmed(role)
  <2>1. UNCHANGED <<liability, creation, deal>> BY <1>2 DEF WithdrawalConfirmed
  <2>2. QED BY <1>1, <2>1
        DEF DurableTypes, DealMade, NotBegun, AtWork, Signing, DepositsIndexed
<1>3. ASSUME NEW r \in Runs, Land(r)
      PROVE  Books'
  <2>1. creation[r] = "pending" /\ UNCHANGED liability BY <1>3 DEF Land
  <2>2. DurableTypes' BY <1>3 DEF Land, DurableTypes, Live
  <2>3. \A q \in Runs \ {r} : creation'[q] = creation[q] /\ deal'[q] = deal[q]
    BY <1>3 DEF Land, DurableTypes
  <2>4. \/ creation'[r] = "included" /\ deal'[r] = "Offered"
        \/ creation'[r] = "reverted" /\ deal'[r] = deal[r]
    BY <1>3 DEF Land, DurableTypes
  <2>5. deal[r] = "none" /\ liability[r] # NoLiability
    BY <2>1 DEF DealMade, DepositsIndexed
  <2>6. DealMade' BY <2>3, <2>4, <2>5 DEF DealMade
  <2>7. NotBegun' BY <1>1, <2>1, <2>3 DEF NotBegun
  <2>8. AtWork' BY <1>1 DEF AtWork
  <2>9. Signing' BY <1>1, <2>1, <2>3, <2>4, <2>5 DEF Signing, AtWork, Settling
  <2>10. DepositsIndexed' BY <2>1, <2>3, <2>5 DEF DepositsIndexed
  <2>11. QED BY <2>2, <2>6, <2>7, <2>8, <2>9, <2>10
<1>4. QED BY <1>2, <1>3 DEF Chain

\* A new process has begun nothing.
LEMMA RestartKeepsBooks ==
  ASSUME Books, Restart
  PROVE  Books'
<1> USE DEF Books
<1>1. UNCHANGED durable /\ worker' = Idle BY DEF Restart
<1>2. runs'[Reclaim] = ReclaimQueued
  BY DEF Restart
<1>3. \A r \in Runs : /\ runs'[r].kind = "none" => runs[r].kind = "none"
                      /\ runs'[r].status # "queued"
  <2>1. SUFFICES ASSUME NEW r \in Runs
                 PROVE  /\ runs'[r].kind = "none" => runs[r].kind = "none"
                        /\ runs'[r].status # "queued"
    OBVIOUS
  <2>2. r # Reclaim BY ReclaimFirst
  <2>3. runs'[r] = IF runs[r] = NoRun THEN NoRun ELSE [NoRun EXCEPT !.kind = "lost"]
    BY <2>2 DEF Restart
  <2>4. QED BY <2>3 DEF NoRun
<1>4. \A r \in RunIds : runs'[r].kind = "reclaim" <=> r = Reclaim
  <2>1. ASSUME NEW r \in Runs PROVE runs'[r].kind \in {"none", "lost"}
    <3>1. r # Reclaim BY ReclaimFirst
    <3>2. QED BY <3>1 DEF Restart, NoRun
  <2>2. QED BY <1>2, <2>1, ReclaimFirst DEF RunIds, ReclaimQueued
<1>5. DurableTypes' /\ DealMade' /\ DepositsIndexed'
  BY <1>1 DEF durable, DurableTypes, DealMade, DepositsIndexed
<1>6. NotBegun' BY <1>1, <1>3 DEF NotBegun, durable
<1>7. AtWork' /\ Signing'
  BY <1>1, <1>4 DEF AtWork, Signing, Idle, Idling, Settling
<1>8. QED BY <1>5, <1>6, <1>7

\* What a step of the worker leaves of Books to show: that nothing is signed for a run nobody
\* has begun follows from its own run being one that was.
LEMMA WorkerKeepsBooks ==
  ASSUME Claims, Books, Settle \/ Recover, DurableTypes', DealMade', Signing', DepositsIndexed',
         \A r \in Runs : r # worker.run => creation'[r] = creation[r]
  PROVE  Books'
<1> USE DEF Books
<1>1. /\ worker.run \in RunIds /\ runs[worker.run].status = "running" /\ AtWork'
      /\ \A r \in RunIds : /\ runs'[r].kind = runs[r].kind
                           /\ r # worker.run => runs'[r].status = runs[r].status
      /\ UNCHANGED runs \/ runs'[worker.run].status \in Endings
  BY WorkerMoves
<1>2. \A r \in Runs : r = worker.run => runs[r].kind # "none" /\ runs'[r].status # "queued"
  BY <1>1 DEF Claims, Queued, Endings
<1>3. NotBegun' BY <1>1, <1>2, ReclaimFirst DEF NotBegun
<1>4. QED BY <1>1, <1>3

\* A settlement: the intent is on disk before the creation is signed, and the row is struck
\* off after the deal has ended.
LEMMA SettleKeepsBooks ==
  ASSUME Claims, Books, Settle
  PROVE  Books'
<1> DEFINE r == worker.run
<1> USE DEF Books
<1>1. /\ worker.at \in Settling /\ worker'.run = r /\ r \in Runs
      /\ runs[r].kind = "settlement" /\ runs[r].session \in Sessions \cup {Nobody}
  <2>1. worker.at \in Settling /\ worker'.run = r BY SettleMoves DEF Claims
  <2>2. r \in Runs /\ runs[r].kind = "settlement" BY <2>1 DEF AtWork
  <2>3. r \in RunIds BY <2>2, ReclaimFirst
  <2>4. runs[r].session \in Sessions \cup {Nobody} BY <2>3 DEF Claims, Types, RunType
  <2>5. QED BY <2>1, <2>2, <2>4
<1>2. ASSUME NEW status, Ended(status) PROVE worker'.at = "callback"
  BY <1>2 DEF Ended, Claims, Types, WorkerType
<1>3. ASSUME NEW at, Goes(at) PROVE worker'.at = at
  BY <1>3 DEF Goes, Claims, Types, WorkerType
<1>4. CASE _quote
  <2>1. UNCHANGED <<creation, deal>> /\ creation[r] = "none" /\ deal[r] = "none"
    BY <1>1, <1>4 DEF _quote, Signing, DealMade
  <2>2. \/ worker'.at = "callback" /\ UNCHANGED liability
        \/ worker'.at = "create" /\ open_intent(r, runs[r].session)
    BY <1>2, <1>3, <1>4 DEF _quote
  <2>3. /\ DurableTypes' /\ \A q \in Runs : q # r => liability'[q] = liability[q]
        /\ worker'.at = "create" => liability'[r] # NoLiability
    BY <1>1, <2>1, <2>2 DEF DurableTypes, open_intent, NoLiability
  <2>4. DealMade' BY <2>1 DEF DealMade
  <2>5. Signing' BY <1>1, <2>1, <2>2, <2>3 DEF Signing
  <2>6. DepositsIndexed' BY <2>1, <2>3 DEF DepositsIndexed, Live
  <2>7. QED BY <2>1, <2>3, <2>4, <2>5, <2>6, WorkerKeepsBooks
<1>5. CASE _create
  <2>1. /\ UNCHANGED <<liability, deal>> /\ creation[r] = "none" /\ liability[r] # NoLiability
        /\ deal[r] = "none"
    BY <1>1, <1>5 DEF _create, Signing, DealMade
  <2>2. /\ worker'.at \in {"callback", "sent"}
        /\ \/ UNCHANGED creation
           \/ \E row \in {"unbroadcast", "pending"} : creation' = [creation EXCEPT ![r] = row]
    BY <1>2, <1>3, <1>5 DEF _create
  <2>3. /\ DurableTypes' /\ \A q \in Runs : q # r => creation'[q] = creation[q]
        /\ creation'[r] # "included"
    BY <1>1, <2>1, <2>2 DEF DurableTypes
  <2>4. DealMade' BY <2>1, <2>3 DEF DealMade
  <2>5. Signing' BY <2>2 DEF Signing
  <2>6. DepositsIndexed' BY <2>1, <2>3 DEF DepositsIndexed
  <2>7. QED BY <2>3, <2>4, <2>5, <2>6, WorkerKeepsBooks
<1>6. ASSUME NEW known \in {"hash", "deal"}, UNCHANGED <<creation, deal>>,
             UNCHANGED liability \/ attach(r, known),
             worker'.at \in {"included", "perform", "callback"}
      PROVE  Books'
  <2>1. /\ DurableTypes' /\ \A q \in Runs : q # r => liability'[q] = liability[q]
        /\ liability[r] # NoLiability => liability'[r] # NoLiability
    BY <1>1, <1>6 DEF DurableTypes, attach, NoLiability
  <2>2. DealMade' BY <1>6 DEF DealMade
  <2>3. Signing' BY <1>6 DEF Signing
  <2>4. DepositsIndexed' BY <1>6, <2>1 DEF DepositsIndexed
  <2>5. QED BY <1>6, <2>1, <2>2, <2>3, <2>4, WorkerKeepsBooks
<1>7. CASE _sent
  BY <1>3, <1>6, <1>7 DEF _sent
<1>8. CASE _included
  <2>1. CASE Ended("failed") /\ UNCHANGED liability
    BY <1>2, <1>6, <1>8, <2>1 DEF _included
  <2>2. CASE attach(r, "deal") /\ worker' = [worker EXCEPT !.at = "perform", !.deal_id = TRUE]
    <3>1. worker'.at = "perform" BY <2>2 DEF Claims, Types, WorkerType
    <3>2. QED BY <1>6, <1>8, <2>2, <3>1 DEF _included
  <2>3. QED BY <1>8, <2>1, <2>2 DEF _included
<1>9. CASE _perform
  <2>1. UNCHANGED <<liability, creation>> BY <1>9 DEF _perform
  <2>2. \/ UNCHANGED deal /\ worker'.at = "callback"
        \/ /\ deal[r] \in Live
           /\ \E to \in Live \cup {"Closed"} :
                /\ deal' = [deal EXCEPT ![r] = to]
                /\ worker'.at = "callback" \/ (to # "Closed" /\ worker'.at = "perform")
                   \/ (to = "Closed" /\ worker'.at = "confirm")
    BY <1>2, <1>3, <1>9 DEF _perform, Moves, Ends, Live
  <2>3. /\ DurableTypes' /\ \A q \in Runs : q # r => deal'[q] = deal[q]
        /\ deal'[r] # deal[r] => deal[r] \in Live /\ deal'[r] # "none"
        /\ worker'.at = "confirm" => deal'[r] = "Closed"
        /\ worker'.at \in {"callback", "perform", "confirm"}
    BY <1>1, <2>1, <2>2 DEF DurableTypes, Live
  <2>4. DealMade' BY <2>1, <2>3 DEF DealMade, Live
  <2>5. Signing' BY <1>1, <2>3 DEF Signing
  <2>6. DepositsIndexed' BY <2>1, <2>3 DEF DepositsIndexed
  <2>7. QED BY <2>1, <2>3, <2>4, <2>5, <2>6, WorkerKeepsBooks
<1>10. CASE _confirm
  <2>1. UNCHANGED <<creation, deal>> /\ deal[r] = "Closed" /\ worker'.at \in {"callback", "teach"}
    BY <1>2, <1>3, <1>10 DEF _confirm, Signing
  <2>2. /\ DurableTypes' /\ \A q \in Runs : q # r => liability'[q] = liability[q]
    BY <1>1, <1>10, <2>1 DEF _confirm, close, DurableTypes, NoLiability
  <2>3. creation[r] = "included" BY <1>1, <2>1 DEF DealMade
  <2>4. DealMade' BY <2>1 DEF DealMade
  <2>5. Signing' BY <2>1 DEF Signing
  <2>6. DepositsIndexed' BY <2>1, <2>2, <2>3 DEF DepositsIndexed, Live
  <2>7. QED BY <2>1, <2>2, <2>4, <2>5, <2>6, WorkerKeepsBooks
<1>11. CASE _teach
  <2>1. UNCHANGED durable /\ worker'.at = "callback" BY <1>2, <1>11 DEF _teach
  <2>2. DurableTypes' /\ DealMade' /\ Signing' /\ DepositsIndexed'
    BY <2>1 DEF durable, DurableTypes, DealMade, Signing, DepositsIndexed
  <2>3. QED BY <2>1, <2>2, WorkerKeepsBooks DEF durable
<1>12. QED BY <1>4, <1>5, <1>7, <1>8, <1>9, <1>10, <1>11 DEF Settle

\* A recovery discards what made no deal and strikes off only deals that are closed.
LEMMA RecoverKeepsBooks ==
  ASSUME Claims, Books, Recover
  PROVE  Books'
<1> USE DEF Books
<1>1. worker'.at \in {"recover", "collect", "callback"}
  BY RecoverMoves DEF Claims
<1>2. Signing' BY <1>1 DEF Signing
<1>3. UNCHANGED creation
  BY DEF Recover, _run_refund, _run_reclaim, _recover_deals, _credits, _collect, durable
<1>4. CASE UNCHANGED <<liability, deal>>
  <2>1. DurableTypes' /\ DealMade' /\ DepositsIndexed'
    BY <1>3, <1>4 DEF DurableTypes, DealMade, DepositsIndexed
  <2>2. QED BY <1>2, <1>3, <2>1, WorkerKeepsBooks
<1>5. CASE _run_reclaim /\ ~UNCHANGED liability
  <2>1. PICK readable \in SUBSET Unnamed :
          liability' = [r \in Runs |-> IF r \in Unnamed THEN Named(r, readable) ELSE liability[r]]
    BY <1>5 DEF _run_reclaim
  <2>2. UNCHANGED deal BY <1>5 DEF _run_reclaim
  <2>3. ASSUME NEW r \in Runs
        PROVE  /\ liability'[r] \in [known : {"nothing", "intent", "hash", "deal"},
                                     session : Sessions \cup {Nobody}]
               /\ liability[r] # NoLiability /\ ~NoDeal(r) => liability'[r] # NoLiability
    <3>1. liability[r] \in [known : {"nothing", "intent", "hash", "deal"},
                            session : Sessions \cup {Nobody}]
      BY DEF DurableTypes
    <3>2. liability'[r] = IF r \in Unnamed THEN Named(r, readable) ELSE liability[r]
      BY <2>1
    <3>3. QED BY <3>1, <3>2 DEF Named, NoLiability
  <2>4. liability' \in [Runs -> [known : {"nothing", "intent", "hash", "deal"},
                                 session : Sessions \cup {Nobody}]]
    BY <2>1, <2>3
  <2>5. DurableTypes' BY <1>3, <2>2, <2>4 DEF DurableTypes
  <2>6. DealMade' BY <1>3, <2>2 DEF DealMade
  <2>7. DepositsIndexed'
    BY <1>3, <2>2, <2>3 DEF DepositsIndexed, DealMade, NoDeal, Live, DurableTypes
  <2>8. QED BY <1>2, <1>3, <2>5, <2>6, <2>7, WorkerKeepsBooks
<1>6. CASE _recover_deals /\ ~UNCHANGED <<liability, deal>>
  <2>1. PICK r \in worker.todo :
          \/ deal[r] = "Closed" /\ close(r) /\ UNCHANGED deal
          \/ deal[r] \in Live /\ deal' = [deal EXCEPT ![r] = "Closed"] /\ UNCHANGED liability
    BY <1>6 DEF _recover_deals, Ends
  <2>2. r \in Runs BY DEF Claims, Types, WorkerType
  <2>3. DurableTypes' BY <1>3, <2>1, <2>2 DEF DurableTypes, close, NoLiability, Live
  <2>4. /\ \A q \in Runs : q # r => liability'[q] = liability[q] /\ deal'[q] = deal[q]
        /\ deal'[r] = "Closed" /\ deal[r] # "none"
    BY <2>1, <2>2 DEF DurableTypes, close, Live
  <2>5. DealMade' BY <1>3, <2>4 DEF DealMade
  <2>6. creation[r] = "included" BY <2>2, <2>4 DEF DealMade
  <2>7. DepositsIndexed' BY <1>3, <2>4, <2>6 DEF DepositsIndexed, Live
  <2>8. QED BY <1>2, <1>3, <2>3, <2>5, <2>7, WorkerKeepsBooks
<1>7. UNCHANGED <<liability, deal>>
      \/ (_run_reclaim /\ ~UNCHANGED liability)
      \/ (_recover_deals /\ ~UNCHANGED <<liability, deal>>)
  BY DEF Recover, _run_refund, _run_reclaim, _credits, _collect, durable
<1>8. QED BY <1>4, <1>5, <1>6, <1>7

LEMMA InitBooks == Init => Books
<1> SUFFICES ASSUME Init PROVE Books OBVIOUS
<1>1. /\ liability = [r \in Runs |-> NoLiability] /\ creation = [r \in Runs |-> "none"]
      /\ deal = [r \in Runs |-> "none"] /\ worker = Idle
  BY DEF Init, DurableInit, FreshProcess
<1>2. DurableTypes BY <1>1 DEF DurableTypes, NoLiability
<1>3. \A r \in RunIds : runs[r].kind = "reclaim" <=> r = Reclaim
  BY ReclaimFirst DEF Init, RunIds, ReclaimQueued, NoRun
<1>4. AtWork BY <1>1, <1>3 DEF AtWork, Idle, Idling, Settling
<1>5. DealMade /\ NotBegun /\ DepositsIndexed
  BY <1>1 DEF DealMade, NotBegun, DepositsIndexed, Live
<1>6. Signing BY <1>1 DEF Signing, Idle
<1>7. QED BY <1>2, <1>4, <1>5, <1>6 DEF Books

\* One step per action of Next.
LEMMA NextBooks == Claims /\ Books /\ [Next]_vars => Books'
<1> SUFFICES ASSUME Claims, Books, [Next]_vars PROVE Books' OBVIOUS
<1>1. CASE Registry
  BY <1>1, BooksUnmoved DEF Registry, create, copy_fails, copied
<1>2. ASSUME NEW t \in All, NEW s \in Sessions, Serve(t, s) PROVE Books'
  <2>1. CASE UNCHANGED <<durable, runs, worker>> BY <2>1, BooksUnmoved
  <2>2. ASSUME NEW r \in Runs, NEW kind \in {"settlement", "refund"}, submit(r, s, kind),
               UNCHANGED <<durable, worker>>
        PROVE  Books'
    BY <2>2, SubmitKeepsBooks
  <2>3. CASE execute(t, s) \/ finish(t, s) \/ run_status(t, s)
    BY <2>1, <2>3 DEF execute, finish, run_status, Requests
  <2>4. CASE _reconcile_refund(t, s) BY <2>1, <2>4 DEF _reconcile_refund
  <2>5. CASE settle_refund(t, s) BY <2>1, <2>5 DEF settle_refund
  <2>6. CASE begin_finishing(t, s) BY <2>1, <2>6 DEF begin_finishing
  <2>7. CASE admit(t, s) BY <2>1, <2>2, <2>7 DEF admit
  <2>8. CASE submit_refund(t, s) BY <2>1, <2>2, <2>8 DEF submit_refund
  <2>9. QED BY <1>2, <2>3, <2>4, <2>5, <2>6, <2>7, <2>8 DEF Serve, Proceeds
<1>3. CASE _work BY <1>3, WorkKeepsBooks
<1>4. CASE _run_finished BY <1>4, CallbackKeepsBooks
<1>5. CASE Settle BY <1>5, SettleKeepsBooks
<1>6. CASE Recover BY <1>6, RecoverKeepsBooks
<1>7. CASE Chain BY <1>7, ChainKeepsBooks
<1>8. CASE Restart BY <1>8, RestartKeepsBooks
<1>9. CASE UNCHANGED vars BY <1>9, BooksUnmoved DEF vars, volatile
<1>10. QED BY <1>1, <1>2, <1>3, <1>4, <1>5, <1>6, <1>7, <1>8, <1>9 DEF Next, All

\* In every reachable state the index and the ledger are as the worker's step requires.
THEOREM BooksKept == Spec => []Books
<1>1. Init => Books BY InitBooks
<1>2. Claims /\ Books /\ [Next]_vars => Books' BY NextBooks
<1>3. QED BY <1>1, <1>2, ClaimsKept, PTL DEF Spec

\* Whatever fails and wherever the process dies, a deal that holds a deposit, and a creation
\* that may become one, are in the index the next process reads.
THEOREM EveryDepositIndexed == Spec => []DepositsIndexed
<1>1. Books => DepositsIndexed BY DEF Books
<1>2. QED BY <1>1, BooksKept, PTL

-----------------------------------------------------------------------------
\* InOrder.  What a request thread does without submitting a run, and the callback: only the
\* refunds sessions name and what threads have seen are to be looked at.
LEMMA CallKeepsOrder ==
  ASSUME InOrder, UNCHANGED <<runs, queue>>, worker' = worker \/ worker' = Idle,
         SuccessNamed', ObservedTrue'
  PROVE  InOrder'
<1> USE DEF InOrder
<1>1. Submitted' BY DEF Submitted
<1>2. FirstInFirstOut' BY DEF FirstInFirstOut, Started, Idle, Idling
<1>3. NoSettlementBehindRefund' BY DEF NoSettlementBehindRefund, RefundsOf
<1>4. QED BY <1>1, <1>2, <1>3

\* What has failed stays failed.
LEMMA FailedStays ==
  ASSUME NoSettlementBehindRefund,
         \A r \in Runs : /\ runs'[r].kind = runs[r].kind /\ runs'[r].session = runs[r].session
                         /\ runs[r].status = "failed" => runs'[r].status = "failed"
  PROVE  NoSettlementBehindRefund'
<1>1. \A s \in Sessions : RefundsOf(s)' = RefundsOf(s)
  BY DEF RefundsOf
<1>2. SUFFICES ASSUME NEW s \in Sessions, NEW r \in Runs, NEW q \in Runs,
                      r \in RefundsOf(s), r < q, runs[q].session = s, runs[q].kind = "settlement"
               PROVE  runs'[r].status = "failed"
  BY <1>1 DEF NoSettlementBehindRefund
<1>3. QED BY <1>2 DEF NoSettlementBehindRefund

LEMMA SessionKeepsSuccess ==
  ASSUME SuccessNamed, UNCHANGED runs,
         \A s \in Sessions : /\ sess'[s].refund_run_id = sess[s].refund_run_id
                             /\ sess[s].finishing => sess'[s].finishing
                             /\ sess'[s].refunded = sess[s].refunded
  PROVE  SuccessNamed'
BY DEF SuccessNamed, RefundsOf

LEMMA CallKeepsObserved ==
  ASSUME Types, ObservedTrue, UNCHANGED runs, NEW t \in All, NEW new,
         call' = [call EXCEPT ![t] = new],
         new.at = "settle" => new.succeeded = (runs[new.observed].status = "succeeded")
  PROVE  ObservedTrue'
<1>1. \A u \in All : call'[u] = IF u = t THEN new ELSE call[u]
  BY DEF Types
<1>2. QED BY <1>1 DEF ObservedTrue

\* What is submitted has a greater id than all that was, and waits behind it.
LEMMA SubmitKeepsOrder ==
  ASSUME Claims, Submitted, FirstInFirstOut, ObservedTrue, UNCHANGED worker,
         NEW r \in Runs, NEW s \in Sessions, NEW kind \in {"settlement", "refund"},
         NEW t \in All, call' = [call EXCEPT ![t] = NoCall], submit(r, s, kind)
  PROVE  /\ Submitted' /\ FirstInFirstOut' /\ ObservedTrue'
         /\ \A q \in Runs : q # r => runs'[q] = runs[q]
         /\ runs'[r] = [session |-> s, kind |-> kind, status |-> "queued"]
         /\ \A q \in Runs : r < q => runs[q].kind = "none"
<1> USE DEF Claims
<1>1. /\ runs[r].kind = "none" /\ runs[r].status = "none" /\ r \in RunIds
      /\ \A q \in RunIds : runs'[q] =
           IF q = r THEN [session |-> s, kind |-> kind, status |-> "queued"] ELSE runs[q]
  BY SubmitQueues, ReclaimFirst
<1>2. queue' = Append(queue, r) /\ \A q \in Runs : q < r => runs[q].kind # "none"
  BY DEF submit, NextRun
<1>3. /\ Len(queue') = Len(queue) + 1 /\ Len(queue) \in Nat
      /\ \A i \in 1..Len(queue') : queue'[i] = IF i = Len(queue) + 1 THEN r ELSE queue[i]
      /\ \A i \in 1..Len(queue) : queue[i] \in RunIds
  BY <1>1, <1>2 DEF Types
<1>4. runs'[r] = [session |-> s, kind |-> kind, status |-> "queued"]
  BY <1>1
<1>5. \A q \in RunIds : q # r => runs'[q] = runs[q]
  BY <1>1
<1>6. \A q \in Runs : r < q => runs[q].kind = "none"
  BY <1>1 DEF Submitted
<1>7. \A q \in RunIds : q # r /\ runs[q].status # "none" => q < r
  <2>1. SUFFICES ASSUME NEW q \in RunIds, q # r, runs[q].status # "none" PROVE q < r
    OBVIOUS
  <2>2. CASE q = Reclaim BY <2>2, ReclaimFirst
  <2>3. CASE q \in Runs
    <3>1. runs[q].kind # "none" BY <2>1, <2>3 DEF Queued
    <3>2. ~(r < q) BY <1>6, <2>3, <3>1
    <3>3. q \in Nat /\ r \in Nat BY <1>1, ReclaimFirst
    <3>4. QED BY <2>1, <3>2, <3>3
  <2>4. QED BY <2>2, <2>3 DEF RunIds
<1>8. Submitted'
  <2>0. kind # "none" /\ runs'[r].kind = kind /\ runs'[r].status = "queued"
    BY <1>4
  <2>1. ASSUME NEW q \in Runs
        PROVE  /\ runs'[q].kind = "none" => runs'[q] = NoRun
               /\ runs'[q].kind \in {"settlement", "refund"} => runs'[q].status # "none"
    <3>1. CASE q = r BY <2>0, <3>1
    <3>2. CASE q # r
      <4>1. runs'[q] = runs[q] BY <1>5, <3>2, ReclaimFirst
      <4>2. QED BY <4>1 DEF Submitted
    <3>3. QED BY <3>1, <3>2
  <2>2. ASSUME NEW p \in Runs, NEW q \in Runs, runs'[p].kind # "none", q < p
        PROVE  runs'[q].kind # "none"
    <3>1. CASE q = r BY <1>4, <3>1
    <3>2. CASE q # r /\ p = r BY <1>2, <1>5, <2>2, <3>2, ReclaimFirst
    <3>3. CASE q # r /\ p # r BY <1>5, <2>2, <3>3, ReclaimFirst DEF Submitted
    <3>4. QED BY <3>1, <3>2, <3>3
  <2>4. ASSUME NEW q \in RunIds, runs'[q].status = "queued"
        PROVE  \E i \in 1..Len(queue') : queue'[i] = q
    <3>1. CASE q = r
      <4>1. Len(queue) + 1 \in 1..Len(queue') BY <1>3
      <4>2. QED BY <1>3, <3>1, <4>1
    <3>2. CASE q # r
      <4>1. PICK i \in 1..Len(queue) : queue[i] = q BY <1>5, <2>4, <3>2 DEF Submitted
      <4>2. i \in 1..Len(queue') /\ i # Len(queue) + 1 BY <1>3, <4>1
      <4>3. QED BY <1>3, <4>1, <4>2
    <3>3. QED BY <3>1, <3>2
  <2>5. QED BY <2>1, <2>2, <2>4 DEF Submitted
<1>9. FirstInFirstOut'
  <2>1. ASSUME NEW i \in 1..Len(queue'), NEW j \in 1..Len(queue'), i < j
        PROVE  queue'[i] < queue'[j]
    <3>1. i \in 1..Len(queue) /\ queue'[i] = queue[i] BY <1>3, <2>1
    <3>2. CASE j = Len(queue) + 1
      <4>1. queue'[j] = r BY <1>3, <3>2
      <4>2. queue[i] \in RunIds /\ runs[queue[i]].status = "queued" BY <1>3, <3>1 DEF Queued
      <4>3. queue[i] # r BY <1>1, <4>2
      <4>4. QED BY <1>7, <3>1, <4>1, <4>2, <4>3
    <3>3. CASE j # Len(queue) + 1
      <4>1. j \in 1..Len(queue) /\ queue'[j] = queue[j] BY <1>3, <3>3
      <4>2. QED BY <2>1, <3>1, <4>1 DEF FirstInFirstOut
    <3>4. QED BY <3>2, <3>3
  <2>2. \A q \in RunIds : Started(q)' => q # r /\ Started(q)
    BY <1>4, <1>5 DEF Started, Endings
  <2>3. ASSUME NEW p \in RunIds, NEW q \in RunIds, Started(p)', runs'[q].status = "queued"
        PROVE  p < q
    <3>1. p # r /\ Started(p) BY <2>2, <2>3
    <3>2. CASE q = r BY <1>7, <3>1, <3>2 DEF Started, Endings
    <3>3. CASE q # r BY <1>5, <2>3, <3>1, <3>3 DEF FirstInFirstOut
    <3>4. QED BY <3>2, <3>3
  <2>4. worker'.at \notin Idling => \A q \in RunIds : Started(q)' => q <= worker'.run
    BY <2>2 DEF FirstInFirstOut
  <2>5. QED BY <2>1, <2>3, <2>4 DEF FirstInFirstOut
<1>10. ObservedTrue'
  <2>1. \A u \in All : call'[u] = IF u = t THEN NoCall ELSE call[u]
    BY DEF Types
  <2>2. ASSUME NEW u \in All, call'[u].at = "settle"
        PROVE  call'[u].succeeded = (runs'[call'[u].observed].status = "succeeded")
    <3>1. call'[u] = call[u] BY <2>1, <2>2 DEF NoCall
    <3>2. call[u].observed \in Runs /\ runs[call[u].observed].status \in Endings
      BY <2>2, <3>1 DEF ObservedEnded
    <3>3. call[u].observed # r BY <1>1, <3>2 DEF Endings
    <3>4. runs'[call[u].observed] = runs[call[u].observed] BY <1>5, <3>2, <3>3, ReclaimFirst
    <3>5. QED BY <2>2, <3>1, <3>4 DEF ObservedTrue
  <2>3. QED BY <2>2 DEF ObservedTrue
<1>11. QED BY <1>4, <1>5, <1>6, <1>8, <1>9, <1>10, ReclaimFirst

\* A settlement is admitted only behind refunds of its session that failed: one that is
\* unfinished or succeeded would have left its mark on the session.
LEMMA AdmitKeepsOrder ==
  ASSUME Claims, InOrder, NEW t \in All, NEW s \in Sessions, admit(t, s)
  PROVE  InOrder'
<1> USE DEF InOrder
<1>1. call' = [call EXCEPT ![t] = NoCall] /\ UNCHANGED worker
  BY DEF admit, Returns
<1>2. CASE UNCHANGED <<sess, runs, queue>>
  <2>1. SuccessNamed' BY <1>2, SessionKeepsSuccess
  <2>2. ObservedTrue' BY <1>1, <1>2, CallKeepsObserved DEF NoCall, Claims
  <2>3. QED BY <1>1, <1>2, <2>1, <2>2, CallKeepsOrder
<1>3. ASSUME NEW q \in Runs, _check(s), submit(q, s, "settlement"),
             sess' = [sess EXCEPT ![s].runs = @ + 1]
      PROVE  InOrder'
  <2>1. /\ Submitted' /\ FirstInFirstOut' /\ ObservedTrue'
        /\ \A p \in Runs : p # q => runs'[p] = runs[p]
        /\ runs'[q] = [session |-> s, kind |-> "settlement", status |-> "queued"]
    BY <1>1, <1>3, SubmitKeepsOrder
  <2>2. \A o \in Sessions : /\ sess'[o].finishing = sess[o].finishing
                            /\ sess'[o].refunded = sess[o].refunded
                            /\ sess'[o].refund_run_id = sess[o].refund_run_id
    BY <1>3 DEF Claims, Types, SessionType
  <2>3. \A o \in Sessions, r \in Runs :
          r \in RefundsOf(o)' => r # q /\ runs'[r] = runs[r] /\ r \in RefundsOf(o)
    <3>1. \A o \in Sessions : q \notin RefundsOf(o)' BY <2>1 DEF RefundsOf
    <3>2. QED BY <2>1, <3>1 DEF RefundsOf
  <2>4. SuccessNamed' BY <2>2, <2>3 DEF SuccessNamed
  <2>5. ASSUME NEW r \in Runs, r \in RefundsOf(s) PROVE runs[r].status = "failed"
    <3>1. ~sess[s].finishing /\ ~sess[s].refunded BY <1>3 DEF _check
    <3>2. runs[r].status \notin Unfinished BY <2>5, <3>1 DEF Claims, RefundNamed
    <3>3. runs[r].status \notin {"succeeded", "refused"} BY <2>5, <3>1 DEF SuccessNamed
    <3>4. runs[r].status # "none" BY <2>5 DEF Submitted, RefundsOf
    <3>5. runs[r].status \in {"none", "queued", "running", "succeeded", "failed", "refused"}
      BY ReclaimFirst DEF Claims, Types, RunType
    <3>6. QED BY <3>2, <3>3, <3>4, <3>5 DEF Unfinished
  <2>6. NoSettlementBehindRefund'
    <3>1. SUFFICES ASSUME NEW o \in Sessions, NEW r \in Runs, NEW p \in Runs,
                          r \in RefundsOf(o)', r < p,
                          runs'[p].session = o, runs'[p].kind = "settlement"
                   PROVE  runs'[r].status = "failed"
      BY DEF NoSettlementBehindRefund
    <3>2. r # q /\ runs'[r] = runs[r] /\ r \in RefundsOf(o) BY <2>3, <3>1
    <3>3. CASE p = q
      <4>1. o = s BY <2>1, <3>1, <3>3
      <4>2. QED BY <2>5, <3>2, <4>1
    <3>4. CASE p # q BY <2>1, <3>1, <3>2, <3>4 DEF NoSettlementBehindRefund
    <3>5. QED BY <3>3, <3>4
  <2>7. QED BY <2>1, <2>4, <2>6
<1>4. QED BY <1>2, <1>3 DEF admit

\* A refund is submitted after every settlement of its session, and while no other of it has
\* succeeded.
LEMMA SubmitRefundKeepsOrder ==
  ASSUME Claims, InOrder, NEW t \in All, NEW s \in Sessions, submit_refund(t, s)
  PROVE  InOrder'
<1> USE DEF InOrder
<1>1. call' = [call EXCEPT ![t] = NoCall] /\ UNCHANGED worker
  BY DEF submit_refund, Returns
<1>2. sess[s].finishing /\ sess[s].refund_run_id = Nobody
  BY DEF submit_refund, Claims, ClaimHeld, Submitting
<1>3. \A r \in RefundsOf(s) : runs[r].status # "succeeded"
  BY <1>2, RunsAssumption DEF SuccessNamed, RefundsOf
<1>4. CASE sess' = [sess EXCEPT ![s] = Settled(@, FALSE)] /\ UNCHANGED <<runs, queue>>
  <2>1. \A o \in Sessions : o # s => sess'[o] = sess[o]
    BY <1>4 DEF Claims, Types
  <2>2. \A o \in Sessions : RefundsOf(o)' = RefundsOf(o)
    BY <1>4 DEF RefundsOf
  <2>3. SuccessNamed'
    <3>1. SUFFICES ASSUME NEW o \in Sessions, NEW r \in Runs, r \in RefundsOf(o)
                   PROVE  /\ runs[r].status # "refused"
                          /\ runs[r].status = "succeeded" =>
                               sess'[o].refund_run_id = r /\ (sess'[o].finishing \/ sess'[o].refunded)
      BY <1>4, <2>2 DEF SuccessNamed
    <3>2. QED BY <1>3, <2>1, <3>1 DEF SuccessNamed
  <2>4. ObservedTrue' BY <1>1, <1>4, CallKeepsObserved DEF NoCall, Claims
  <2>5. QED BY <1>1, <1>4, <2>3, <2>4, CallKeepsOrder
<1>5. ASSUME NEW q \in Runs, submit(q, s, "refund"), sess' = [sess EXCEPT ![s].refund_run_id = q]
      PROVE  InOrder'
  <2>1. /\ Submitted' /\ FirstInFirstOut' /\ ObservedTrue'
        /\ \A p \in Runs : p # q => runs'[p] = runs[p]
        /\ runs'[q] = [session |-> s, kind |-> "refund", status |-> "queued"]
        /\ \A p \in Runs : q < p => runs[p].kind = "none"
    BY <1>1, <1>5, SubmitKeepsOrder
  <2>2. \A o \in Sessions : o # s => sess'[o] = sess[o]
    BY <1>5 DEF Claims, Types
  <2>3. \A o \in Sessions, r \in Runs :
          r \in RefundsOf(o)' /\ r # q => runs'[r] = runs[r] /\ r \in RefundsOf(o)
    BY <2>1 DEF RefundsOf
  <2>4. ASSUME NEW o \in Sessions, NEW r \in Runs, r \in RefundsOf(o)'
        PROVE  /\ runs'[r].status # "refused"
               /\ runs'[r].status = "succeeded" =>
                    sess'[o].refund_run_id = r /\ (sess'[o].finishing \/ sess'[o].refunded)
    <3>1. CASE r = q BY <2>1, <3>1
    <3>2. CASE r # q
      <4>1. runs'[r] = runs[r] /\ r \in RefundsOf(o) BY <2>3, <2>4, <3>2
      <4>2. QED BY <1>3, <2>2, <4>1 DEF SuccessNamed
    <3>3. QED BY <3>1, <3>2
  <2>5. SuccessNamed' BY <2>4 DEF SuccessNamed
  <2>6. NoSettlementBehindRefund'
    <3>1. SUFFICES ASSUME NEW o \in Sessions, NEW r \in Runs, NEW p \in Runs,
                          r \in RefundsOf(o)', r < p,
                          runs'[p].session = o, runs'[p].kind = "settlement"
                   PROVE  runs'[r].status = "failed"
      BY DEF NoSettlementBehindRefund
    <3>2. p # q BY <2>1, <3>1
    <3>3. runs'[p] = runs[p] BY <2>1, <3>2
    <3>4. r # q BY <2>1, <3>1, <3>3
    <3>5. QED BY <2>3, <3>1, <3>3, <3>4 DEF NoSettlementBehindRefund
  <2>7. QED BY <2>1, <2>5, <2>6
<1>6. QED BY <1>4, <1>5 DEF submit_refund

\* The end that is written is the one that was observed, and only over a claim that still
\* names the refund it was observed of.
LEMMA SettleRefundKeepsOrder ==
  ASSUME Claims, InOrder, NEW t \in All, NEW s \in Sessions, settle_refund(t, s)
  PROVE  InOrder'
<1> USE DEF InOrder
<1> DEFINE new == IF call[t].then = "claim" THEN [call[t] EXCEPT !.at = "claim"] ELSE NoCall
<1>1. /\ call[t].at = "settle" /\ call' = [call EXCEPT ![t] = new]
      /\ UNCHANGED <<runs, queue, worker>>
  BY DEF settle_refund
<1>2. new.at # "settle"
  <2>1. call[t] \in CallType BY DEF Claims, Types
  <2>2. QED BY <2>1 DEF CallType, NoCall
<1>3. ObservedTrue' BY <1>1, <1>2, CallKeepsObserved DEF Claims
<1>4. SuccessNamed'
  <2>1. CASE UNCHANGED sess BY <1>1, <2>1, SessionKeepsSuccess
  <2>2. CASE /\ sess[s].refund_run_id = call[t].observed
             /\ sess' = [sess EXCEPT ![s] = Settled(@, call[t].succeeded)]
    <3>1. call[t].succeeded = (runs[sess[s].refund_run_id].status = "succeeded")
      BY <1>1, <2>2 DEF ObservedTrue
    <3>2. /\ \A o \in Sessions : o # s => sess'[o] = sess[o]
          /\ call[t].succeeded => /\ sess'[s].refunded
                                  /\ sess'[s].refund_run_id = sess[s].refund_run_id
      BY <2>2 DEF Claims, Types, SessionType, Settled
    <3>3. \A o \in Sessions : RefundsOf(o)' = RefundsOf(o) BY <1>1 DEF RefundsOf
    <3>4. SUFFICES ASSUME NEW o \in Sessions, NEW r \in Runs, r \in RefundsOf(o)
                   PROVE  /\ runs[r].status # "refused"
                          /\ runs[r].status = "succeeded" =>
                               sess'[o].refund_run_id = r /\ (sess'[o].finishing \/ sess'[o].refunded)
      BY <1>1, <3>3 DEF SuccessNamed
    <3>5. CASE o = s BY <3>1, <3>2, <3>4, <3>5 DEF SuccessNamed
    <3>6. CASE o # s BY <3>2, <3>4, <3>6 DEF SuccessNamed
    <3>7. QED BY <3>5, <3>6
  <2>3. QED BY <2>1, <2>2 DEF settle_refund
<1>5. QED BY <1>1, <1>3, <1>4, CallKeepsOrder

\* The other steps of a thread, and the callback.
LEMMA ThreadKeepsOrder ==
  ASSUME Claims, InOrder, NEW t \in All, NEW s \in Sessions,
         \/ execute(t, s) \/ finish(t, s) \/ run_status(t, s)
         \/ _reconcile_refund(t, s) \/ begin_finishing(t, s)
  PROVE  InOrder'
<1> USE DEF InOrder
<1>1. UNCHANGED <<runs, queue, worker>>
  BY DEF execute, finish, run_status, Requests, _reconcile_refund, begin_finishing
<1>2. SuccessNamed'
  <2>1. \A o \in Sessions : /\ sess'[o].refund_run_id = sess[o].refund_run_id
                            /\ sess[o].finishing => sess'[o].finishing
                            /\ sess'[o].refunded = sess[o].refunded
    <3>1. CASE UNCHANGED sess BY <3>1
    <3>2. CASE sess' = [sess EXCEPT ![s].finishing = TRUE]
      BY <3>2 DEF Claims, Types, SessionType
    <3>3. QED BY <3>1, <3>2
          DEF execute, finish, run_status, Requests, _reconcile_refund, begin_finishing
  <2>2. QED BY <1>1, <2>1, SessionKeepsSuccess
<1>3. ASSUME NEW new, call' = [call EXCEPT ![t] = new],
             new.at = "settle" => new.succeeded = (runs[new.observed].status = "succeeded")
      PROVE  ObservedTrue'
  BY <1>1, <1>3, CallKeepsObserved DEF Claims
<1>4. ObservedTrue'
  <2>1. call[t] \in CallType BY DEF Claims, Types
  <2>2. CASE execute(t, s) \/ finish(t, s) \/ run_status(t, s)
    <3>1. PICK at \in {"admit", "reconcile"}, then \in {"idle", "claim"} : Requests(t, s, at, then)
      BY <2>2 DEF execute, finish, run_status
    <3>2. /\ call' = [call EXCEPT ![t] = [NoCall EXCEPT !.at = at, !.session = s, !.then = then]]
          /\ [NoCall EXCEPT !.at = at, !.session = s, !.then = then].at # "settle"
      BY <3>1 DEF Requests, NoCall
    <3>3. QED BY <1>3, <3>2
  <2>3. CASE _reconcile_refund(t, s)
    <3> DEFINE observed == sess[s].refund_run_id
               settle == [call[t] EXCEPT !.at = "settle", !.observed = observed,
                            !.succeeded = runs[observed].status = "succeeded"]
    <3>1. \/ call' = [call EXCEPT ![t] = settle]
          \/ call' = [call EXCEPT ![t] = [call[t] EXCEPT !.at = "claim"]]
          \/ call' = [call EXCEPT ![t] = NoCall]
      BY <2>3 DEF _reconcile_refund
    <3>2. /\ settle.succeeded = (runs[settle.observed].status = "succeeded")
          /\ [call[t] EXCEPT !.at = "claim"].at # "settle" /\ NoCall.at # "settle"
      BY <2>1 DEF CallType, NoCall
    <3> HIDE DEF settle
    <3>3. QED BY <1>3, <3>1, <3>2
  <2>4. CASE begin_finishing(t, s)
    <3>1. \/ call' = [call EXCEPT ![t] = NoCall]
          \/ call' = [call EXCEPT ![t] = [call[t] EXCEPT !.at = "submit"]]
      BY <2>4 DEF begin_finishing, Returns, Claims, Types
    <3>2. [call[t] EXCEPT !.at = "submit"].at # "settle" /\ NoCall.at # "settle"
      BY <2>1 DEF CallType, NoCall
    <3>3. QED BY <1>3, <3>1, <3>2
  <2>5. QED BY <2>2, <2>3, <2>4
<1>5. QED BY <1>1, <1>2, <1>4, CallKeepsOrder

LEMMA CallbackKeepsOrder ==
  ASSUME Claims, InOrder, _run_finished
  PROVE  InOrder'
<1> USE DEF InOrder
<1>1. UNCHANGED <<sess, runs, queue>> /\ worker' = Idle
  BY DEF _run_finished
<1>2. SuccessNamed' BY <1>1, SessionKeepsSuccess
<1>3. ObservedTrue'
  <2>1. CASE UNCHANGED call BY <1>1, <2>1 DEF ObservedTrue
  <2>2. ASSUME NEW s, Refunds(s) PROVE ObservedTrue'
    <3>1. [NoCall EXCEPT !.at = "reconcile", !.session = s, !.then = "claim"].at # "settle"
      BY DEF NoCall
    <3>2. QED BY <1>1, <2>2, <3>1, CallKeepsObserved DEF Refunds, All, Claims
  <2>3. QED BY <2>1, <2>2 DEF _run_finished
<1>4. QED BY <1>1, <1>2, <1>3, CallKeepsOrder

\* The front of the queue is the oldest run that waits, and every run that began is older.
LEMMA WorkKeepsOrder ==
  ASSUME Claims, InOrder, _work
  PROVE  InOrder'
<1> USE DEF InOrder
<1> DEFINE r == Head(queue)
<1>1. /\ r \in RunIds /\ runs[r].status = "queued" /\ r = queue[1] /\ 1 \in 1..Len(queue)
      /\ queue' = Tail(queue) /\ Len(queue') = Len(queue) - 1 /\ Len(queue) \in Nat
      /\ \A i \in 1..Len(queue') : i + 1 \in 1..Len(queue) /\ queue'[i] = queue[i + 1]
      /\ UNCHANGED <<sess, call>>
  <2>1. queue # <<>> /\ queue \in Seq(RunIds) /\ queue' = Tail(queue) /\ UNCHANGED <<sess, call>>
    BY DEF _work, Claims, Types
  <2>2. 1 \in 1..Len(queue) /\ r = queue[1] /\ r \in RunIds BY <2>1
  <2>3. runs[r].status = "queued" BY <2>2 DEF Claims, Queued
  <2>4. /\ Len(queue') = Len(queue) - 1 /\ Len(queue) \in Nat
        /\ \A i \in 1..Len(queue') : i + 1 \in 1..Len(queue) /\ queue'[i] = queue[i + 1]
    BY <2>1
  <2>5. QED BY <2>1, <2>2, <2>3, <2>4
<1>2. PICK status \in {"running", "failed"} :
        runs' = [runs EXCEPT ![r].status = status] /\ worker'.run = r
  BY DEF _work, Idle
<1> HIDE DEF r
<1>3. \A q \in RunIds : /\ runs'[q].kind = runs[q].kind /\ runs'[q].session = runs[q].session
                        /\ q # r => runs'[q] = runs[q]
                        /\ runs'[q].status = IF q = r THEN status ELSE runs[q].status
  BY <1>1, <1>2 DEF Claims, Types, RunType
<1>4. r \in Runs => runs[r].kind # "none" /\ runs[r].status # "none"
  BY <1>1 DEF Claims, Queued
<1>5. Submitted'
  <2>1. \A q \in Runs : /\ runs'[q].kind = runs[q].kind
                        /\ runs'[q].kind = "none" => runs'[q] = NoRun
                        /\ runs'[q].kind \in {"settlement", "refund"} => runs'[q].status # "none"
    BY <1>3, <1>4, ReclaimFirst DEF Submitted
  <2>2. ASSUME NEW q \in RunIds, runs'[q].status = "queued"
        PROVE  \E i \in 1..Len(queue') : queue'[i] = q
    <3>1. q # r /\ runs[q].status = "queued" BY <1>3, <2>2
    <3>2. PICK i \in 1..Len(queue) : queue[i] = q BY <3>1 DEF Submitted
    <3>3. i # 1 BY <1>1, <3>1, <3>2
    <3>4. i - 1 \in 1..Len(queue') /\ queue'[i - 1] = queue[i] BY <1>1, <3>3
    <3>5. QED BY <3>2, <3>4
  <2>3. QED BY <2>1, <2>2 DEF Submitted
<1>6. FirstInFirstOut'
  <2>1. ASSUME NEW i \in 1..Len(queue'), NEW j \in 1..Len(queue'), i < j
        PROVE  queue'[i] < queue'[j]
    <3>1. i + 1 < j + 1 /\ i + 1 \in 1..Len(queue) /\ j + 1 \in 1..Len(queue) BY <1>1, <2>1
    <3>2. QED BY <1>1, <3>1 DEF FirstInFirstOut
  <2>2. \A p \in RunIds : Started(p)' => p = r \/ Started(p)
    BY <1>3 DEF Started
  <2>3. \A q \in RunIds : runs[q].status = "queued" /\ q # r => r < q
    <3>1. SUFFICES ASSUME NEW q \in RunIds, runs[q].status = "queued", q # r PROVE r < q
      OBVIOUS
    <3>2. PICK i \in 1..Len(queue) : queue[i] = q BY <3>1 DEF Submitted
    <3>3. 1 < i BY <1>1, <3>1, <3>2
    <3>4. QED BY <1>1, <3>2, <3>3 DEF FirstInFirstOut
  <2>4. ASSUME NEW p \in RunIds, NEW q \in RunIds, Started(p)', runs'[q].status = "queued"
        PROVE  p < q
    <3>1. q # r /\ runs[q].status = "queued" BY <1>3, <2>4
    <3>2. QED BY <2>2, <2>3, <2>4, <3>1 DEF FirstInFirstOut
  <2>5. ASSUME NEW p \in RunIds, Started(p)' PROVE p <= worker'.run
    <3>1. p = r \/ p < r BY <1>1, <2>2, <2>5 DEF FirstInFirstOut
    <3>2. p \in Nat /\ r \in Nat BY <1>1, ReclaimFirst
    <3>3. QED BY <1>2, <3>1, <3>2
  <2>6. QED BY <2>1, <2>4, <2>5 DEF FirstInFirstOut
<1>7. \A s \in Sessions : RefundsOf(s)' = RefundsOf(s)
  BY <1>3, ReclaimFirst DEF RefundsOf
<1>8. SuccessNamed'
  BY <1>1, <1>3, <1>7, ReclaimFirst DEF SuccessNamed
<1>9. ObservedTrue'
  <2>1. \A t \in All : call[t].at = "settle" => call[t].observed \in RunIds /\ call[t].observed # r
    BY <1>1, ReclaimFirst DEF Claims, ObservedEnded, Endings
  <2>2. QED BY <1>1, <1>3, <2>1 DEF ObservedTrue
<1>10. NoSettlementBehindRefund'
  <2>1. \A q \in Runs : /\ runs'[q].kind = runs[q].kind /\ runs'[q].session = runs[q].session
                        /\ runs[q].status = "failed" => runs'[q].status = "failed"
    BY <1>1, <1>3, ReclaimFirst
  <2>2. QED BY <2>1, FailedStays
<1>11. QED BY <1>5, <1>6, <1>8, <1>9, <1>10

\* Only the run in the worker's hands ends.  If it is a refund that succeeds, its session
\* names it, as it names every unfinished refund; and no settlement was admitted behind it.
LEMMA WorkerKeepsOrder ==
  ASSUME Claims, Books, InOrder, Settle \/ Recover
  PROVE  InOrder'
<1> DEFINE r == worker.run
<1> USE DEF InOrder
<1>1. UNCHANGED <<sess, queue, call>>
  BY DEF Settle, Recover
<1>2. /\ worker.at \notin Idling /\ worker'.run = r /\ r \in RunIds /\ runs[r].status = "running"
      /\ \A q \in RunIds : /\ runs'[q].kind = runs[q].kind /\ runs'[q].session = runs[q].session
                           /\ q # r => runs'[q].status = runs[q].status
      /\ \/ worker'.at \notin Idling /\ UNCHANGED runs
         \/ worker'.at = "callback" /\ runs'[r].status \in Endings
  BY WorkerMoves DEF Books
<1>3. runs'[r].status \in Endings \cup {"running"}
  BY <1>2
<1>4. \A q \in RunIds : /\ Started(q)' <=> Started(q)
                        /\ runs'[q].status = "queued" <=> runs[q].status = "queued"
  BY <1>2, <1>3 DEF Started, Endings
<1>5. Submitted'
  <2>1. ASSUME NEW q \in Runs
        PROVE  /\ runs'[q].kind = runs[q].kind
               /\ runs'[q].kind = "none" => runs'[q] = NoRun
               /\ runs'[q].kind \in {"settlement", "refund"} => runs'[q].status # "none"
    <3>1. CASE q = r
      <4>1. runs[q].kind # "none" BY <1>2, <3>1 DEF Claims, Queued
      <4>2. QED BY <1>2, <1>3, <3>1, <4>1, ReclaimFirst DEF Endings
    <3>2. CASE q # r
      <4>1. q \in RunIds BY ReclaimFirst
      <4>2. /\ runs[q] \in RunType /\ runs'[q] \in RunType /\ runs'[q].kind = runs[q].kind
            /\ runs'[q].session = runs[q].session /\ runs'[q].status = runs[q].status
        <5>1. Claims' BY WorkerKeepsClaims
        <5>2. QED BY <1>2, <3>2, <4>1, <5>1 DEF Claims, Types
      <4>3. runs'[q] = runs[q] BY <4>2 DEF RunType
      <4>4. QED BY <4>3 DEF Submitted
    <3>3. QED BY <3>1, <3>2
  <2>2. \A q \in RunIds : runs'[q].status = "queued" => \E i \in 1..Len(queue') : queue'[i] = q
    BY <1>1, <1>4 DEF Submitted
  <2>3. QED BY <2>1, <2>2 DEF Submitted
<1>6. FirstInFirstOut'
  BY <1>1, <1>2, <1>4 DEF FirstInFirstOut
<1>7. \A s \in Sessions : RefundsOf(s)' = RefundsOf(s)
  BY <1>2, ReclaimFirst DEF RefundsOf
<1>8. runs[r].kind = "refund" => runs'[r].status # "refused"
  <2>1. CASE Settle
    <3>1. worker.at \in Settling BY <2>1, SettleMoves DEF Claims
    <3>2. QED BY <3>1 DEF Books, AtWork
  <2>2. CASE Recover
    <3>1. UNCHANGED runs \/ \E status \in {"failed", "succeeded"} :
            runs' = [runs EXCEPT ![r].status = status]
      BY <2>2, RecoverMoves DEF Claims
    <3>2. QED BY <1>2, <3>1 DEF Claims, Types, RunType
  <2>3. QED BY <2>1, <2>2
<1>9. SuccessNamed'
  <2>1. SUFFICES ASSUME NEW s \in Sessions, NEW q \in Runs, q \in RefundsOf(s)
                 PROVE  /\ runs'[q].status # "refused"
                        /\ runs'[q].status = "succeeded" =>
                             sess[s].refund_run_id = q /\ (sess[s].finishing \/ sess[s].refunded)
    BY <1>1, <1>7 DEF SuccessNamed
  <2>2. CASE q = r
    <3>1. sess[s].finishing /\ sess[s].refund_run_id = q
      BY <1>2, <2>1, <2>2 DEF Claims, RefundNamed, Unfinished
    <3>2. QED BY <1>8, <2>1, <2>2, <3>1 DEF RefundsOf
  <2>3. CASE q # r
    <3>1. runs'[q].status = runs[q].status BY <1>2, <2>3, ReclaimFirst
    <3>2. QED BY <2>1, <3>1 DEF SuccessNamed
  <2>4. QED BY <2>2, <2>3
<1>10. ObservedTrue'
  <2>1. \A t \in All : call[t].at = "settle" => call[t].observed \in RunIds /\ call[t].observed # r
    BY <1>2, ReclaimFirst DEF Claims, ObservedEnded, Endings
  <2>2. QED BY <1>1, <1>2, <2>1 DEF ObservedTrue
<1>11. NoSettlementBehindRefund'
  <2>1. \A q \in Runs : /\ runs'[q].kind = runs[q].kind /\ runs'[q].session = runs[q].session
                        /\ runs[q].status = "failed" => runs'[q].status = "failed"
    BY <1>2, ReclaimFirst
  <2>2. QED BY <2>1, FailedStays
<1>12. QED BY <1>5, <1>6, <1>9, <1>10, <1>11

\* A new process has submitted nothing, and only what another had.
LEMMA RestartKeepsOrder ==
  ASSUME Claims, InOrder, Restart
  PROVE  InOrder'
<1> USE DEF InOrder
<1>1. /\ queue' = <<Reclaim>> /\ worker' = Idle
      /\ call' = [t \in Threads \cup {Worker} |-> NoCall]
  BY DEF Restart
<1>2. \A r \in Runs : runs'[r] = IF runs[r] = NoRun THEN NoRun ELSE [NoRun EXCEPT !.kind = "lost"]
  BY ReclaimFirst DEF Restart
<1>3. runs'[Reclaim] = ReclaimQueued
  BY DEF Restart
<1>4. \A r \in Runs : /\ runs'[r].kind \in {"none", "lost"} /\ runs'[r].status = "none"
                      /\ runs'[r].kind = "none" <=> runs[r] = NoRun
                      /\ runs'[r].kind = "none" => runs'[r] = NoRun
  BY <1>2 DEF NoRun
<1>5. \A r \in Runs : runs[r] = NoRun <=> runs[r].kind = "none"
  BY DEF Submitted, NoRun
<1>6. Submitted'
  <2>1. \A r, q \in Runs : runs'[r].kind # "none" /\ q < r => runs'[q].kind # "none"
    BY <1>4, <1>5 DEF Submitted
  <2>2. ASSUME NEW r \in RunIds, runs'[r].status = "queued"
        PROVE  \E i \in 1..Len(queue') : queue'[i] = r
    <3>1. r = Reclaim BY <1>4, <2>2 DEF RunIds
    <3>2. 1 \in 1..Len(queue') /\ queue'[1] = Reclaim BY <1>1
    <3>3. QED BY <3>1, <3>2
  <2>3. QED BY <1>4, <2>1, <2>2 DEF Submitted
<1>7. FirstInFirstOut'
  <2>1. \A r \in RunIds : ~Started(r)'
    BY <1>3, <1>4 DEF Started, Endings, ReclaimQueued, RunIds
  <2>2. \A i, j \in 1..Len(queue') : ~(i < j) BY <1>1
  <2>3. QED BY <1>1, <2>1, <2>2 DEF FirstInFirstOut, Idle, Idling
<1>8. \A s \in Sessions : RefundsOf(s)' = {}
  BY <1>4 DEF RefundsOf
<1>9. SuccessNamed' BY <1>8 DEF SuccessNamed
<1>10. ObservedTrue' BY <1>1 DEF ObservedTrue, NoCall, All
<1>11. NoSettlementBehindRefund' BY <1>8 DEF NoSettlementBehindRefund
<1>12. QED BY <1>6, <1>7, <1>9, <1>10, <1>11

LEMMA InitInOrder == Init => InOrder
<1> SUFFICES ASSUME Init PROVE InOrder OBVIOUS
<1>1. /\ queue = <<Reclaim>> /\ worker = Idle /\ call = [t \in Threads \cup {Worker} |-> NoCall]
  BY DEF Init, FreshProcess
<1>2. \A r \in Runs : runs[r] = NoRun
  BY ReclaimFirst DEF Init
<1>3. runs[Reclaim] = ReclaimQueued
  BY DEF Init
<1>4. \A r \in Runs : runs[r].kind = "none" /\ runs[r].status = "none"
  BY <1>2 DEF NoRun
<1>5. Submitted
  <2>1. ASSUME NEW r \in RunIds, runs[r].status = "queued"
        PROVE  \E i \in 1..Len(queue) : queue[i] = r
    <3>1. r = Reclaim BY <1>4, <2>1 DEF RunIds
    <3>2. 1 \in 1..Len(queue) /\ queue[1] = Reclaim BY <1>1
    <3>3. QED BY <3>1, <3>2
  <2>2. QED BY <1>2, <1>4, <2>1 DEF Submitted
<1>6. FirstInFirstOut
  <2>1. \A r \in RunIds : ~Started(r)
    BY <1>3, <1>4 DEF Started, Endings, ReclaimQueued, RunIds
  <2>2. \A i, j \in 1..Len(queue) : ~(i < j) BY <1>1
  <2>3. QED BY <1>1, <2>1, <2>2 DEF FirstInFirstOut, Idle, Idling
<1>7. \A s \in Sessions : RefundsOf(s) = {}
  BY <1>4 DEF RefundsOf
<1>8. SuccessNamed BY <1>7 DEF SuccessNamed
<1>9. ObservedTrue BY <1>1 DEF ObservedTrue, NoCall, All
<1>10. NoSettlementBehindRefund BY <1>7 DEF NoSettlementBehindRefund
<1>11. QED BY <1>5, <1>6, <1>8, <1>9, <1>10 DEF InOrder

\* One step per action of Next.
LEMMA NextInOrder == Claims /\ Books /\ InOrder /\ [Next]_vars => InOrder'
<1> SUFFICES ASSUME Claims, Books, InOrder, [Next]_vars PROVE InOrder' OBVIOUS
<1>1. ASSUME UNCHANGED <<runs, queue, worker, call>>,
             \A s \in Sessions : /\ sess'[s].refund_run_id = sess[s].refund_run_id
                                 /\ sess'[s].finishing = sess[s].finishing
                                 /\ sess'[s].refunded = sess[s].refunded
      PROVE  InOrder'
  <2>1. SuccessNamed' BY <1>1, SessionKeepsSuccess DEF InOrder
  <2>2. ObservedTrue' BY <1>1 DEF InOrder, ObservedTrue
  <2>3. QED BY <1>1, <2>1, <2>2, CallKeepsOrder
<1>2. CASE Registry
  <2>1. UNCHANGED <<runs, queue, worker, call>>
    BY <1>2 DEF Registry, create, copy_fails, copied
  <2>2. \A s \in Sessions : /\ sess'[s].refund_run_id = sess[s].refund_run_id
                            /\ sess'[s].finishing = sess[s].finishing
                            /\ sess'[s].refunded = sess[s].refunded
    BY <1>2, RegistryLeaves DEF Claims
  <2>3. QED BY <1>1, <2>1, <2>2
<1>3. ASSUME NEW t \in All, NEW s \in Sessions, Serve(t, s) PROVE InOrder'
  BY <1>3, ThreadKeepsOrder, AdmitKeepsOrder, SettleRefundKeepsOrder, SubmitRefundKeepsOrder
  DEF Serve, Proceeds
<1>4. CASE _work BY <1>4, WorkKeepsOrder
<1>5. CASE _run_finished BY <1>5, CallbackKeepsOrder
<1>6. CASE Settle \/ Recover BY <1>6, WorkerKeepsOrder
<1>7. CASE Chain \/ UNCHANGED vars
  <2>1. UNCHANGED volatile BY <1>7 DEF Chain, vars
  <2>2. QED BY <1>1, <2>1 DEF volatile
<1>8. CASE Restart BY <1>8, RestartKeepsOrder
<1>9. QED BY <1>2, <1>3, <1>4, <1>5, <1>6, <1>7, <1>8 DEF Next, All

\* In every reachable state runs have been submitted and taken up in the order of their ids.
THEOREM OrderKept == Spec => []InOrder
<1>1. Init => InOrder BY InitInOrder
<1>2. Claims /\ Books /\ InOrder /\ [Next]_vars => InOrder' BY NextInOrder
<1>3. QED BY <1>1, <1>2, ClaimsKept, BooksKept, PTL DEF Spec

\* However presses, polls and the worker's own refunds interleave, a settlement that was
\* admitted behind a refund of its session finds that refund failed.
THEOREM NothingBehindRefunds == Spec => []NoSettlementBehindRefund
<1>1. InOrder => NoSettlementBehindRefund BY DEF InOrder
<1>2. QED BY <1>1, OrderKept, PTL

-----------------------------------------------------------------------------
\* Emptied.  Steps that touch neither the index nor the runs.
LEMMA ThreadKeepsEmptied ==
  ASSUME Emptied, UNCHANGED <<liability, runs>>, worker' = worker \/ worker' = Idle, NamesItsOwn'
  PROVE  Emptied'
<1> USE DEF Emptied
<1>1. \A s \in Sessions : open_deals(s)' = open_deals(s) /\ RefundsOf(s)' = RefundsOf(s)
  BY DEF open_deals, RefundsOf
<1>2. Filed' BY DEF Filed, Idle
<1>3. StaysEmpty' BY <1>1 DEF StaysEmpty
<1>4. ToDo' BY DEF ToDo, open_deals, Idle, Idling
<1>5. QED BY <1>2, <1>3, <1>4

\* Runs come and go on without an ended one changing: what the sessions and the index say of
\* those that succeeded holds as before.
LEMMA SuccessKept ==
  ASSUME NamesItsOwn, UNCHANGED sess,
         \A r \in Runs : /\ runs[r].kind = "refund" =>
                              runs'[r].kind = "refund" /\ runs'[r].session = runs[r].session
                         /\ runs[r].status = "succeeded" => runs'[r].status = "succeeded"
  PROVE  NamesItsOwn'
<1>1. \A s \in Sessions : RefundsOf(s) \subseteq RefundsOf(s)'
  BY DEF RefundsOf
<1>2. QED BY <1>1 DEF NamesItsOwn, RefundsOf

\* A submitted run was none of those that anything speaks of.
LEMMA SubmitKeepsEmptied ==
  ASSUME Claims, InOrder, Emptied, NEW t \in All, NEW r \in Runs, NEW s \in Sessions,
         NEW kind \in {"settlement", "refund"},
         call' = [call EXCEPT ![t] = NoCall], submit(r, s, kind), UNCHANGED <<liability, worker>>,
         NamesItsOwn'
  PROVE  Emptied'
<1> USE DEF Emptied
<1>1. /\ \A q \in Runs : q # r => runs'[q] = runs[q]
      /\ runs'[r] = [session |-> s, kind |-> kind, status |-> "queued"]
  BY SubmitKeepsOrder DEF InOrder
<1>2. runs[r].status = "none" /\ \A q \in RunIds : q # r => runs'[q] = runs[q]
  BY SubmitQueues DEF Claims
<1>3. worker.at \notin Idling => worker.run \in RunIds /\ runs'[worker.run] = runs[worker.run]
  BY <1>2 DEF Claims, OneAtATime, Idling
<1>4. Filed' BY <1>3 DEF Filed, Idling
<1>5. ToDo' BY <1>3 DEF ToDo, open_deals
<1>6. StaysEmpty'
  <2>1. SUFFICES ASSUME NEW o \in Sessions, NEW q \in Runs,
                        q \in RefundsOf(o)', runs'[q].status = "succeeded"
                 PROVE  open_deals(o) = {}
    BY DEF StaysEmpty, open_deals
  <2>2. q # r BY <1>1, <2>1
  <2>3. q \in RefundsOf(o) /\ runs[q].status = "succeeded" BY <1>1, <2>1, <2>2 DEF RefundsOf
  <2>4. QED BY <2>3 DEF StaysEmpty
<1>7. QED BY <1>4, <1>5, <1>6

LEMMA AdmitKeepsEmptied ==
  ASSUME Claims, InOrder, Emptied, NEW t \in All, NEW s \in Sessions, admit(t, s)
  PROVE  Emptied'
<1> USE DEF Emptied
<1>1. call' = [call EXCEPT ![t] = NoCall] /\ UNCHANGED <<liability, worker>>
  BY DEF admit, Returns, durable
<1>2. CASE UNCHANGED <<sess, runs, queue>>
  <2>1. NamesItsOwn' BY <1>2, SuccessKept
  <2>2. QED BY <1>1, <1>2, <2>1, ThreadKeepsEmptied
<1>3. ASSUME NEW r \in Runs, submit(r, s, "settlement"), sess' = [sess EXCEPT ![s].runs = @ + 1]
      PROVE  Emptied'
  <2>1. /\ \A q \in Runs : q # r => runs'[q] = runs[q]
        /\ runs[r].kind = "none" /\ runs[r].status = "none"
    BY <1>1, <1>3, SubmitKeepsOrder, SubmitQueues DEF InOrder, Claims
  <2>2. \A o \in Sessions : /\ sess'[o].refunded = sess[o].refunded
                            /\ sess'[o].refund_run_id = sess[o].refund_run_id
    BY <1>3 DEF Claims, Types, SessionType
  <2>3. \A o \in Sessions : RefundsOf(o) \subseteq RefundsOf(o)'
    BY <2>1 DEF RefundsOf
  <2>4. NamesItsOwn' BY <2>1, <2>2, <2>3 DEF NamesItsOwn, RefundsOf
  <2>5. QED BY <1>1, <1>3, <2>4, SubmitKeepsEmptied
<1>4. QED BY <1>2, <1>3 DEF admit

LEMMA SubmitRefundKeepsEmptied ==
  ASSUME Claims, InOrder, Emptied, NEW t \in All, NEW s \in Sessions, submit_refund(t, s)
  PROVE  Emptied'
<1> USE DEF Emptied
<1>1. call' = [call EXCEPT ![t] = NoCall] /\ UNCHANGED <<liability, worker>>
  BY DEF submit_refund, Returns, durable
<1>2. sess[s].refund_run_id = Nobody /\ ~sess[s].refunded
  <2>1. sess[s].refund_run_id = Nobody
    BY DEF submit_refund, Claims, ClaimHeld, Submitting
  <2>2. QED BY <2>1, RunsAssumption DEF NamesItsOwn
<1>3. CASE sess' = [sess EXCEPT ![s] = Settled(@, FALSE)] /\ UNCHANGED <<runs, queue>>
  <2>1. /\ \A o \in Sessions : o # s => sess'[o] = sess[o]
        /\ sess'[s].refund_run_id = Nobody /\ ~sess'[s].refunded
    BY <1>2, <1>3 DEF Claims, Types, SessionType, Settled
  <2>2. \A o \in Sessions : RefundsOf(o)' = RefundsOf(o)
    BY <1>3 DEF RefundsOf
  <2>3. NamesItsOwn' BY <1>3, <2>1, <2>2 DEF NamesItsOwn
  <2>4. QED BY <1>1, <1>3, <2>3, ThreadKeepsEmptied
<1>4. ASSUME NEW r \in Runs, submit(r, s, "refund"), sess' = [sess EXCEPT ![s].refund_run_id = r]
      PROVE  Emptied'
  <2>1. /\ \A q \in Runs : q # r => runs'[q] = runs[q]
        /\ runs[r].kind = "none" /\ runs[r].status = "none"
        /\ runs'[r] = [session |-> s, kind |-> "refund", status |-> "queued"]
    BY <1>1, <1>4, SubmitKeepsOrder, SubmitQueues DEF InOrder, Claims
  <2>2. /\ \A o \in Sessions : o # s => sess'[o] = sess[o]
        /\ sess'[s].refund_run_id = r /\ ~sess'[s].refunded
    BY <1>2, <1>4 DEF Claims, Types, SessionType
  <2>3. \A o \in Sessions : RefundsOf(o) \subseteq RefundsOf(o)'
    BY <2>1 DEF RefundsOf
  <2>4. r \in RefundsOf(s)' BY <2>1 DEF RefundsOf
  <2>5. NamesItsOwn' BY <2>1, <2>2, <2>3, <2>4 DEF NamesItsOwn, RefundsOf
  <2>6. QED BY <1>1, <1>4, <2>5, SubmitKeepsEmptied
<1>5. QED BY <1>3, <1>4 DEF submit_refund

\* A session is marked refunded by the refund it names, when that succeeded.
LEMMA SettleRefundKeepsEmptied ==
  ASSUME Claims, InOrder, Emptied, NEW t \in All, NEW s \in Sessions, settle_refund(t, s)
  PROVE  Emptied'
<1> USE DEF Emptied
<1>1. call[t].at = "settle" /\ UNCHANGED <<liability, runs, worker>>
  BY DEF settle_refund, durable
<1>2. CASE UNCHANGED sess
  <2>1. NamesItsOwn' BY <1>1, <1>2, SuccessKept
  <2>2. QED BY <1>1, <2>1, ThreadKeepsEmptied
<1>3. CASE /\ sess[s].refund_run_id = call[t].observed
           /\ sess' = [sess EXCEPT ![s] = Settled(@, call[t].succeeded)]
  <2>1. /\ sess[s].refund_run_id \in Runs
        /\ call[t].succeeded = (runs[sess[s].refund_run_id].status = "succeeded")
    BY <1>1, <1>3 DEF InOrder, ObservedTrue, Claims, ObservedEnded
  <2>2. /\ \A o \in Sessions : o # s => sess'[o] = sess[o]
        /\ call[t].succeeded => sess'[s].refund_run_id = sess[s].refund_run_id
        /\ ~call[t].succeeded => /\ sess'[s].refund_run_id = Nobody
                                 /\ sess'[s].refunded = sess[s].refunded
    BY <1>3 DEF Claims, Types, SessionType, Settled
  <2>3. ~call[t].succeeded => ~sess[s].refunded
    BY <2>1 DEF NamesItsOwn
  <2>4. \A o \in Sessions : RefundsOf(o)' = RefundsOf(o)
    BY <1>1 DEF RefundsOf
  <2>5. NamesItsOwn' BY <1>1, <2>1, <2>2, <2>3, <2>4 DEF NamesItsOwn
  <2>6. QED BY <1>1, <2>5, ThreadKeepsEmptied
<1>4. QED BY <1>2, <1>3 DEF settle_refund

LEMMA WorkKeepsEmptied ==
  ASSUME Claims, Emptied, _work
  PROVE  Emptied'
<1> USE DEF Emptied
<1> DEFINE r == Head(queue)
<1>1. /\ r \in RunIds /\ runs[r].status = "queued" /\ UNCHANGED <<sess, liability>>
  <2>1. queue # <<>> /\ queue \in Seq(RunIds) BY DEF _work, Claims, Types
  <2>2. 1 \in 1..Len(queue) /\ r = queue[1] /\ r \in RunIds BY <2>1
  <2>3. QED BY <2>2 DEF Claims, Queued, _work, durable
<1>2. PICK status \in {"running", "failed"}, at \in {"callback", runs[r].kind} :
        /\ worker' = [Idle EXCEPT !.run = r, !.at = at]
        /\ runs' = [runs EXCEPT ![r].status = status]
  BY DEF _work
<1>3. \A q \in RunIds : /\ runs'[q].kind = runs[q].kind /\ runs'[q].session = runs[q].session
                        /\ runs'[q].status = IF q = r THEN status ELSE runs[q].status
  BY <1>1, <1>2 DEF Claims, Types, RunType
<1>4. worker'.at \notin {"create", "sent", "included", "recover", "collect"}
  <2>1. runs[r].kind \in {"none", "lost", "reclaim", "settlement", "refund"}
    BY <1>1 DEF Claims, Types, RunType
  <2>2. QED BY <1>2, <2>1 DEF Idle
<1> HIDE DEF r
<1>5. \A q \in Runs : /\ runs'[q].kind = runs[q].kind /\ runs'[q].session = runs[q].session
                      /\ runs'[q].status = "succeeded" <=> runs[q].status = "succeeded"
  BY <1>1, <1>3, ReclaimFirst
<1>6. NamesItsOwn' BY <1>1, <1>5, SuccessKept
<1>7. Filed' /\ ToDo' BY <1>4 DEF Filed, ToDo
<1>8. \A s \in Sessions : RefundsOf(s)' = RefundsOf(s) /\ open_deals(s)' = open_deals(s)
  BY <1>1, <1>5 DEF RefundsOf, open_deals
<1>9. StaysEmpty' BY <1>5, <1>8 DEF StaysEmpty
<1>10. QED BY <1>6, <1>7, <1>9

\* A step of the worker under which the index loses entries at most, and in which no refund
\* succeeds that has a deal left.
LEMMA WorkerKeepsEmptied ==
  ASSUME Claims, Books, Emptied, Settle \/ Recover, Filed', ToDo',
         \A s \in Sessions, r \in Runs :
           r \in RefundsOf(s) /\ runs'[r].status = "succeeded" => open_deals(s)' = {}
  PROVE  Emptied'
<1> USE DEF Emptied
<1>1. UNCHANGED sess
  BY DEF Settle, Recover
<1>2. /\ runs[worker.run].status = "running"
      /\ \A q \in RunIds : /\ runs'[q].kind = runs[q].kind /\ runs'[q].session = runs[q].session
                           /\ q # worker.run => runs'[q].status = runs[q].status
  BY WorkerMoves DEF Books
<1>3. NamesItsOwn'
  <2>1. \A r \in Runs : /\ runs'[r].kind = runs[r].kind /\ runs'[r].session = runs[r].session
                        /\ runs[r].status = "succeeded" => runs'[r].status = "succeeded"
    BY <1>2, ReclaimFirst
  <2>2. QED BY <1>1, <2>1, SuccessKept
<1>4. \A s \in Sessions : RefundsOf(s)' = RefundsOf(s)
  BY <1>2, ReclaimFirst DEF RefundsOf
<1>5. StaysEmpty' BY <1>4 DEF StaysEmpty
<1>6. QED BY <1>3, <1>5

\* While a settlement is in the worker's hands no refund of its session has succeeded: one of
\* a smaller id failed, and one of a greater id has not begun.
LEMMA NoRefundYet ==
  ASSUME Books, InOrder, worker.at \in Settling,
         NEW s \in Sessions, NEW r \in Runs, r \in RefundsOf(s), runs[worker.run].session = s
  PROVE  runs[r].status # "succeeded"
<1> SUFFICES ASSUME runs[r].status = "succeeded" PROVE FALSE
  OBVIOUS
<1>1. worker.run \in Runs /\ runs[worker.run].kind = "settlement"
  BY DEF Books, AtWork
<1>2. worker.at \notin Idling BY DEF Settling, Idling
<1>3. r <= worker.run
  BY <1>2, ReclaimFirst DEF InOrder, FirstInFirstOut, Started, Endings
<1>4. r # worker.run BY <1>1 DEF RefundsOf
<1>5. r < worker.run
  <2>1. r \in Nat /\ worker.run \in Nat BY <1>1, ReclaimFirst
  <2>2. QED BY <1>3, <1>4, <2>1
<1>6. QED BY <1>1, <1>5 DEF InOrder, NoSettlementBehindRefund

LEMMA SettleKeepsEmptied ==
  ASSUME Claims, Books, InOrder, Emptied, Settle
  PROVE  Emptied'
<1> DEFINE r == worker.run
<1> USE DEF Emptied
<1>1. /\ worker.at \in Settling /\ worker'.run = r /\ r \in Runs /\ r \in RunIds
      /\ runs[r].kind = "settlement"
  <2>1. worker.at \in Settling /\ worker'.run = r BY SettleMoves DEF Claims
  <2>2. r \in Runs /\ runs[r].kind = "settlement" BY <2>1 DEF Books, AtWork
  <2>3. QED BY <2>1, <2>2, ReclaimFirst
<1>2. \A q \in RunIds : /\ runs'[q].kind = runs[q].kind /\ runs'[q].session = runs[q].session
                        /\ q # r => runs'[q].status = runs[q].status
  BY WorkerMoves DEF Books
<1>3. ToDo' BY <1>1, <1>2 DEF ToDo
<1>4. ASSUME NEW at, Goes(at) PROVE worker'.at = at
  BY <1>4 DEF Goes, Claims, Types, WorkerType
<1>5. ASSUME NEW status, Ended(status) PROVE worker'.at = "callback"
  BY <1>5 DEF Ended, Claims, Types, WorkerType
<1>6. \/ /\ UNCHANGED liability
         /\ worker'.at \in {"create", "sent", "included"} => worker.at = "create"
      \/ open_intent(r, runs[r].session)
      \/ worker.at \in {"sent", "included"} /\ \E known \in {"hash", "deal"} : attach(r, known)
      \/ close(r)
  <2>1. CASE _quote BY <1>4, <1>5, <2>1 DEF _quote
  <2>2. CASE _create BY <1>4, <1>5, <2>2 DEF _create
  <2>3. CASE _sent BY <2>3 DEF _sent
  <2>4. CASE _included BY <1>5, <2>4 DEF _included
  <2>5. CASE _perform BY <1>4, <1>5, <2>5 DEF _perform
  <2>6. CASE _confirm BY <1>4, <1>5, <2>6 DEF _confirm
  <2>7. CASE _teach BY <1>5, <2>7 DEF _teach, durable
  <2>8. QED BY <2>1, <2>2, <2>3, <2>4, <2>5, <2>6, <2>7 DEF Settle
<1>7. /\ \A q \in Runs : q # r => liability'[q] = liability[q]
      /\ \/ /\ liability'[r] = liability[r]
            /\ worker'.at \in {"create", "sent", "included"} => worker.at = "create"
         \/ liability'[r] = NoLiability
         \/ liability'[r].session = runs[r].session
  <2>1. liability \in [Runs -> [known : {"nothing", "intent", "hash", "deal"},
                                session : Sessions \cup {Nobody}]]
    BY DEF Books, DurableTypes
  <2>2. CASE /\ UNCHANGED liability
             /\ worker'.at \in {"create", "sent", "included"} => worker.at = "create"
    BY <2>2
  <2>3. CASE open_intent(r, runs[r].session) BY <1>1, <2>1, <2>3 DEF open_intent
  <2>4. CASE close(r) BY <1>1, <2>1, <2>4 DEF close
  <2>5. ASSUME NEW known \in {"hash", "deal"}, attach(r, known), worker.at \in {"sent", "included"}
        PROVE  /\ \A q \in Runs : q # r => liability'[q] = liability[q]
               /\ liability'[r] = NoLiability \/ liability'[r].session = runs[r].session
    BY <1>1, <2>1, <2>5 DEF attach, Filed
  <2>6. QED BY <1>6, <2>2, <2>3, <2>4, <2>5
<1>8. Filed' BY <1>1, <1>2, <1>7 DEF Filed
<1>9. ASSUME NEW s \in Sessions, NEW q \in Runs, q \in RefundsOf(s),
             runs'[q].status = "succeeded"
      PROVE  open_deals(s)' = {}
  <2>1. q # r /\ runs[q].status = "succeeded"
    <3>1. q # r BY <1>1, <1>9 DEF RefundsOf
    <3>2. QED BY <1>2, <1>9, <3>1, ReclaimFirst
  <2>2. open_deals(s) = {} /\ runs[r].session # s
    BY <1>1, <1>9, <2>1, NoRefundYet DEF StaysEmpty
  <2>3. \A p \in Runs : ~(liability'[p].known = "deal" /\ liability'[p].session = s)
    BY <1>1, <1>7, <2>2 DEF open_deals, NoLiability
  <2>4. QED BY <2>3 DEF open_deals
<1>10. QED BY <1>3, <1>8, <1>9, WorkerKeepsEmptied

\* The deals a refund is still to recover are those the index names of its session, until none
\* is left; and the reclaim names deals before any run of this process has begun.
LEMMA RecoverKeepsEmptied ==
  ASSUME Claims, Books, InOrder, Emptied, Recover
  PROVE  Emptied'
<1> DEFINE r == worker.run
<1> USE DEF Emptied
<1>1. /\ worker.at \in {"refund", "reclaim", "recover", "collect"} /\ worker'.run = r
      /\ worker' \in WorkerType /\ worker'.at \in {"recover", "collect", "callback"}
      /\ \/ worker'.at \in {"recover", "collect"} /\ UNCHANGED runs
         \/ /\ worker'.at = "callback"
            /\ \E status \in {"failed", "succeeded"} :
                 /\ runs' = [runs EXCEPT ![r].status = status]
                 /\ status = "succeeded" => worker.at \in {"reclaim", "collect"}
  BY RecoverMoves DEF Claims
<1>2. /\ r \in RunIds /\ worker.at \notin Idling
      /\ \A q \in RunIds : /\ runs'[q].kind = runs[q].kind /\ runs'[q].session = runs[q].session
                           /\ q # r => runs'[q].status = runs[q].status
  BY WorkerMoves DEF Books
<1>3. runs[r].status = "running" BY <1>2 DEF Books, AtWork
<1>4. runs'[r].status = "succeeded" => worker.at \in {"reclaim", "collect"}
  BY <1>1, <1>2, <1>3 DEF Claims, Types, RunType
<1>5. Filed' BY <1>1 DEF Filed
<1>6. CASE worker.at = "reclaim"
  <2>1. r = Reclaim BY <1>2, <1>6 DEF Books, AtWork
  <2>2. ToDo' BY <1>1, <1>2, <1>6 DEF ToDo, Books, AtWork
  <2>3. ASSUME NEW o \in Sessions, NEW q \in Runs, q \in RefundsOf(o), runs'[q].status = "succeeded"
        PROVE  FALSE
    <3>1. q \in RunIds /\ q # r /\ Reclaim < q BY <2>1, ReclaimFirst
    <3>2. Started(q) BY <1>2, <2>3, <3>1 DEF Started, Endings
    <3>3. q <= Reclaim BY <1>2, <2>1, <3>1, <3>2 DEF InOrder, FirstInFirstOut
    <3>4. q \in Nat /\ Reclaim \in Nat BY <3>1, ReclaimFirst
    <3>5. QED BY <3>1, <3>3, <3>4
  <2>4. QED BY <1>5, <2>2, <2>3, WorkerKeepsEmptied
<1>7. CASE worker.at # "reclaim"
  <2>1. \A q \in Runs : liability'[q] = liability[q] \/ liability'[q] = NoLiability
    <3>1. CASE UNCHANGED liability BY <3>1
    <3>2. CASE \E q \in worker.todo : close(q)
      BY <3>2 DEF close, Books, DurableTypes
    <3>3. QED BY <1>7, <3>1, <3>2
          DEF Recover, _run_refund, _run_reclaim, _recover_deals, _credits, _collect, durable
  <2>2. \A o \in Sessions \cup {Nobody} : open_deals(o)' \subseteq open_deals(o)
    BY <2>1 DEF open_deals, NoLiability
  <2>3. PICK s \in Sessions \cup {Nobody} : s = runs[r].session
    BY <1>2 DEF Claims, Types, RunType
  <2>4. ASSUME runs[r].kind = "refund"
        PROVE  /\ worker'.at = "recover" => open_deals(s)' \subseteq worker'.todo
               /\ worker'.at = "collect" => open_deals(s)' = {}
    <3>1. CASE _run_refund
      <4>1. worker'.todo = open_deals(s)
        BY <2>3, <3>1 DEF _run_refund, Recovers, Claims, Types, WorkerType
      <4>2. worker'.at = "recover" BY <3>1 DEF _run_refund, Recovers, Claims, Types, WorkerType
      <4>3. QED BY <2>2, <2>3, <4>1, <4>2
    <3>2. CASE _recover_deals
      <4>1. PICK q \in worker.todo :
              \/ close(q) /\ worker' = [worker EXCEPT !.todo = @ \ {q}]
              \/ UNCHANGED <<worker, liability>>
              \/ Stops("failed")
        BY <3>2 DEF _recover_deals
      <4>2. open_deals(s) \subseteq worker.todo /\ worker.at = "recover"
        BY <1>2, <2>3, <2>4, <3>2 DEF ToDo, _recover_deals
      <4>3. CASE close(q) /\ worker' = [worker EXCEPT !.todo = @ \ {q}]
        <5>1. worker'.todo = worker.todo \ {q} /\ worker'.at = "recover"
          BY <4>2, <4>3 DEF Claims, Types, WorkerType
        <5>2. q \in Runs BY DEF Claims, Types, WorkerType
        <5>3. liability'[q] = NoLiability BY <4>3, <5>2 DEF close, Books, DurableTypes
        <5>4. q \notin open_deals(s)' BY <5>3 DEF open_deals, NoLiability
        <5>5. QED BY <2>2, <2>3, <4>2, <5>1, <5>4
      <4>4. CASE UNCHANGED <<worker, liability>>
        BY <2>2, <2>3, <4>2, <4>4
      <4>5. CASE Stops("failed")
        <5>1. worker'.at = "callback" BY <4>5 DEF Stops, Ended, Claims, Types, WorkerType
        <5>2. QED BY <5>1
      <4>6. QED BY <4>1, <4>3, <4>4, <4>5
    <3>3. CASE _credits
      <4>1. open_deals(s) = {} BY <1>2, <2>3, <2>4, <3>3 DEF ToDo, _credits
      <4>2. open_deals(s)' = {} BY <2>2, <2>3, <4>1
      <4>3. QED BY <4>2
    <3>4. CASE _collect
      <4>1. open_deals(s) = {} BY <1>2, <2>3, <2>4, <3>4 DEF ToDo, _collect
      <4>2. open_deals(s)' = {} BY <2>2, <2>3, <4>1
      <4>3. QED BY <4>2
    <3>5. QED BY <1>7, <3>1, <3>2, <3>3, <3>4 DEF Recover, _run_reclaim
  <2>5. ToDo'
    <3>1. runs'[worker'.run].kind = runs[r].kind /\ runs'[worker'.run].session = s
      BY <1>1, <1>2, <2>3
    <3>2. QED BY <2>4, <3>1 DEF ToDo
  <2>6. ASSUME NEW o \in Sessions, NEW q \in Runs, q \in RefundsOf(o), runs'[q].status = "succeeded"
        PROVE  open_deals(o)' = {}
    <3>1. CASE q = r
      <4>1. worker.at = "collect" BY <1>4, <1>7, <2>6, <3>1
      <4>2. open_deals(o) = {} BY <1>2, <2>6, <3>1, <4>1 DEF ToDo, RefundsOf
      <4>3. QED BY <2>2, <4>2
    <3>2. CASE q # r
      <4>1. runs[q].status = "succeeded" BY <1>2, <2>6, <3>2, ReclaimFirst
      <4>2. open_deals(o) = {} BY <2>6, <4>1 DEF StaysEmpty
      <4>3. QED BY <2>2, <4>2
    <3>3. QED BY <3>1, <3>2
  <2>7. QED BY <1>5, <2>5, <2>6, WorkerKeepsEmptied
<1>8. QED BY <1>6, <1>7

LEMMA RestartKeepsEmptied ==
  ASSUME Restart
  PROVE  Emptied'
<1>1. worker' = Idle BY DEF Restart
<1>2. \A r \in Runs : runs'[r].kind \in {"none", "lost"}
  BY ReclaimFirst DEF Restart, NoRun
<1>3. \A s \in Sessions : sess'[s].refund_run_id = Nobody /\ ~sess'[s].refunded
  BY DEF Restart, Unborn
<1>4. \A s \in Sessions : RefundsOf(s)' = {} BY <1>2 DEF RefundsOf
<1>5. NamesItsOwn' BY <1>3 DEF NamesItsOwn
<1>6. Filed' /\ ToDo' BY <1>1 DEF Filed, ToDo, Idle, Idling
<1>7. StaysEmpty' BY <1>4 DEF StaysEmpty
<1>8. QED BY <1>5, <1>6, <1>7 DEF Emptied

LEMMA InitEmptied == Init => Emptied
<1> SUFFICES ASSUME Init PROVE Emptied OBVIOUS
<1>1. worker = Idle BY DEF Init, FreshProcess
<1>2. \A r \in Runs : runs[r].kind = "none" BY ReclaimFirst DEF Init, NoRun
<1>3. \A s \in Sessions : sess[s].refund_run_id = Nobody /\ ~sess[s].refunded
  BY DEF Init, Unborn
<1>4. \A s \in Sessions : RefundsOf(s) = {} BY <1>2 DEF RefundsOf
<1>5. NamesItsOwn BY <1>3 DEF NamesItsOwn
<1>6. Filed /\ ToDo BY <1>1 DEF Filed, ToDo, Idle, Idling
<1>7. StaysEmpty BY <1>4 DEF StaysEmpty
<1>8. QED BY <1>5, <1>6, <1>7 DEF Emptied

\* One step per action of Next.
LEMMA NextEmptied == Claims /\ Books /\ InOrder /\ Emptied /\ [Next]_vars => Emptied'
<1> SUFFICES ASSUME Claims, Books, InOrder, Emptied, [Next]_vars PROVE Emptied' OBVIOUS
<1>1. ASSUME UNCHANGED <<liability, runs>>, worker' = worker \/ worker' = Idle,
             \A s \in Sessions : /\ sess'[s].refund_run_id = sess[s].refund_run_id
                                 /\ sess'[s].refunded = sess[s].refunded
      PROVE  Emptied'
  <2>1. NamesItsOwn' BY <1>1 DEF Emptied, NamesItsOwn, RefundsOf
  <2>2. QED BY <1>1, <2>1, ThreadKeepsEmptied
<1>2. CASE Registry
  <2>1. UNCHANGED <<liability, runs, worker>>
    BY <1>2 DEF Registry, create, copy_fails, copied, durable
  <2>2. QED BY <1>1, <1>2, <2>1, RegistryLeaves DEF Claims
<1>3. ASSUME NEW t \in All, NEW s \in Sessions, Serve(t, s) PROVE Emptied'
  <2>1. CASE execute(t, s) \/ finish(t, s) \/ run_status(t, s) \/ _reconcile_refund(t, s)
    <3>1. UNCHANGED <<liability, runs, worker, sess>>
      BY <2>1 DEF execute, finish, run_status, Requests, _reconcile_refund, durable
    <3>2. QED BY <1>1, <3>1
  <2>2. CASE begin_finishing(t, s)
    <3>1. UNCHANGED <<liability, runs, worker>> BY <2>2 DEF begin_finishing, durable
    <3>2. UNCHANGED sess \/ sess' = [sess EXCEPT ![s].finishing = TRUE]
      BY <2>2 DEF begin_finishing
    <3>3. \A o \in Sessions : /\ sess'[o].refund_run_id = sess[o].refund_run_id
                              /\ sess'[o].refunded = sess[o].refunded
      BY <3>2 DEF Claims, Types, SessionType
    <3>4. QED BY <1>1, <3>1, <3>3
  <2>3. QED BY <1>3, <2>1, <2>2, AdmitKeepsEmptied, SettleRefundKeepsEmptied,
               SubmitRefundKeepsEmptied DEF Serve, Proceeds
<1>4. CASE _work BY <1>4, WorkKeepsEmptied
<1>5. CASE _run_finished BY <1>1, <1>5 DEF _run_finished, durable
<1>6. CASE Settle BY <1>6, SettleKeepsEmptied
<1>7. CASE Recover BY <1>7, RecoverKeepsEmptied
<1>8. CASE Restart BY <1>8, RestartKeepsEmptied
<1>9. CASE Chain \/ UNCHANGED vars
  <2>1. UNCHANGED volatile /\ UNCHANGED liability
    BY <1>9 DEF Chain, Land, WithdrawalConfirmed, vars, durable
  <2>2. QED BY <1>1, <2>1 DEF volatile
<1>10. QED BY <1>2, <1>3, <1>4, <1>5, <1>6, <1>7, <1>8, <1>9 DEF Next, All

\* In every reachable state a refund that succeeded has left the index empty of its session.
THEOREM EmptiedKept == Spec => []Emptied
<1>1. Init => Emptied BY InitEmptied
<1>2. Claims /\ Books /\ InOrder /\ Emptied /\ [Next]_vars => Emptied' BY NextEmptied
<1>3. QED BY <1>1, <1>2, ClaimsKept, BooksKept, OrderKept, PTL DEF Spec

\* A session that is marked refunded has no deal in the index any more: its refund closed all
\* there were, and no settlement, and no reclaim, can add one behind it.
THEOREM RefundedIsClear == Spec => []RefundedOwesNothing
<1>1. ASSUME Emptied PROVE RefundedOwesNothing
  <2>1. SUFFICES ASSUME NEW s \in Sessions, sess[s].refunded PROVE open_deals(s) = {}
    BY DEF RefundedOwesNothing
  <2>2. /\ sess[s].refund_run_id \in Runs
        /\ runs[sess[s].refund_run_id].status = "succeeded"
    BY <1>1, <2>1 DEF Emptied, NamesItsOwn
  <2>3. sess[s].refund_run_id \in RefundsOf(s)
    BY <1>1, <2>2, RunsAssumption DEF Emptied, NamesItsOwn
  <2>4. QED BY <1>1, <2>2, <2>3 DEF Emptied, StaysEmpty
<1>2. Emptied => RefundedOwesNothing BY <1>1
<1>3. QED BY <1>2, EmptiedKept, PTL

-----------------------------------------------------------------------------
\* The types of the whole state.  Eviction filters the registry's list with a recursive
\* definition; that it has a solution, and what it leaves, is an induction over a set of naturals.

\* A set of naturals that holds zero and every successor holds every natural.
LEMMA NaturalsByInduction ==
  ASSUME NEW T \in SUBSET Nat, 0 \in T, \A n \in T : n + 1 \in T
  PROVE  T = Nat
<1> SUFFICES ASSUME Nat \ T # {} PROVE FALSE OBVIOUS
<1>1. PICK n \in Nat \ T : \A m \in Nat \ T : ~(<<m, n>> \in OpToRel(<, Nat))
  BY WFMin, NatLessThanWellFounded
<1>2. \A m \in Nat \ T : ~(m < n) BY <1>1 DEF OpToRel
<1>3. n # 0 /\ n - 1 \in Nat OBVIOUS
<1>4. n - 1 \in T BY <1>2, <1>3
<1>5. (n - 1) + 1 \in T BY <1>4
<1>6. QED BY <1>5

\* What Without leaves of a list is what is in the list and is not to go.
Keeps(f, all, gone, n) ==
  \A i \in 0..n : f[i] = IF i = 0 THEN <<>>
                         ELSE IF all[i] \in gone THEN f[i - 1] ELSE Append(f[i - 1], all[i])

Members(list) == {list[i] : i \in 1..Len(list)}

LEMMA KeepExists ==
  ASSUME NEW all \in Seq(Sessions), NEW gone
  PROVE  \A n \in 0..Len(all) : \E f \in [0..n -> Seq(Sessions)] : Keeps(f, all, gone, n)
<1> DEFINE G == {n \in Nat : n <= Len(all) =>
                   \E f \in [0..n -> Seq(Sessions)] : Keeps(f, all, gone, n)}
<1>1. 0 \in G
  <2>1. [i \in 0..0 |-> <<>>] \in [0..0 -> Seq(Sessions)] OBVIOUS
  <2>2. Keeps([i \in 0..0 |-> <<>>], all, gone, 0) BY DEF Keeps
  <2>3. QED BY <2>1, <2>2
<1>2. ASSUME NEW n \in G PROVE n + 1 \in G
  <2>1. n \in Nat /\ n + 1 \in Nat OBVIOUS
  <2>2. SUFFICES ASSUME n + 1 <= Len(all)
                 PROVE  \E f \in [0..(n + 1) -> Seq(Sessions)] : Keeps(f, all, gone, n + 1)
    BY <2>1
  <2>3. PICK f \in [0..n -> Seq(Sessions)] : Keeps(f, all, gone, n) BY <2>1, <2>2
  <2>4. all[n + 1] \in Sessions BY <2>1, <2>2
  <2> DEFINE last == IF all[n + 1] \in gone THEN f[n] ELSE Append(f[n], all[n + 1])
             g == [i \in 0..(n + 1) |-> IF i = n + 1 THEN last ELSE f[i]]
  <2>5. f[n] \in Seq(Sessions) BY <2>1
  <2>6. last \in Seq(Sessions) BY <2>4, <2>5
  <2> HIDE DEF last
  <2>7. g \in [0..(n + 1) -> Seq(Sessions)] BY <2>1, <2>6
  <2>8. ASSUME NEW i \in 0..(n + 1)
        PROVE  g[i] = IF i = 0 THEN <<>>
                      ELSE IF all[i] \in gone THEN g[i - 1] ELSE Append(g[i - 1], all[i])
    <3>1. CASE i = n + 1 BY <2>1, <3>1 DEF last
    <3>2. CASE i # n + 1
      <4>1. i \in 0..n /\ g[i] = f[i] BY <2>1, <3>2
      <4>2. i # 0 => i - 1 \in 0..n /\ g[i - 1] = f[i - 1] BY <2>1, <4>1
      <4>3. QED BY <2>3, <4>1, <4>2 DEF Keeps
    <3>3. QED BY <3>1, <3>2
  <2> HIDE DEF g
  <2>9. QED BY <2>7, <2>8 DEF Keeps
<1>3. G = Nat
  <2> HIDE DEF G
  <2>1. G \subseteq Nat BY DEF G
  <2>2. QED BY <1>1, <1>2, <2>1, NaturalsByInduction
<1>4. QED BY <1>3

LEMMA KeepMembers ==
  ASSUME NEW all \in Seq(Sessions), NEW gone, NEW f, Keeps(f, all, gone, Len(all))
  PROVE  \A n \in 0..Len(all) : /\ f[n] \in Seq(Sessions)
                                /\ Members(f[n]) = {all[i] : i \in 1..n} \ gone
<1> DEFINE left(n) == {all[i] : i \in 1..n} \ gone
           G == {n \in Nat : n <= Len(all) => f[n] \in Seq(Sessions) /\ Members(f[n]) = left(n)}
<1>1. Len(all) \in Nat OBVIOUS
<1>2. 0 \in G
  <2>1. f[0] = <<>> BY <1>1 DEF Keeps
  <2>2. Members(<<>>) = {} /\ left(0) = {} BY DEF Members
  <2>3. <<>> \in Seq(Sessions) OBVIOUS
  <2> HIDE DEF left
  <2>4. QED BY <2>1, <2>2, <2>3
<1>3. ASSUME NEW n \in G PROVE n + 1 \in G
  <2>1. n \in Nat OBVIOUS
  <2>2. SUFFICES ASSUME n + 1 <= Len(all)
                 PROVE  f[n + 1] \in Seq(Sessions) /\ Members(f[n + 1]) = left(n + 1)
    BY <2>1
  <2>3. f[n] \in Seq(Sessions) /\ Members(f[n]) = left(n) BY <1>1, <2>1, <2>2
  <2>4. {all[i] : i \in 1..(n + 1)} = {all[i] : i \in 1..n} \cup {all[n + 1]} BY <2>1
  <2>5. n + 1 \in 0..Len(all) /\ n + 1 # 0 /\ (n + 1) - 1 = n BY <1>1, <2>1, <2>2
  <2>6. f[n + 1] = IF all[n + 1] \in gone THEN f[n] ELSE Append(f[n], all[n + 1])
    BY <2>5, Zenon DEF Keeps
  <2>7. all[n + 1] \in Sessions BY <2>1, <2>2
  <2>8. ASSUME NEW list \in Seq(Sessions), NEW x \in Sessions
        PROVE  Append(list, x) \in Seq(Sessions) /\ Members(Append(list, x)) = Members(list) \cup {x}
    BY DEF Members
  <2>9. left(n + 1) = IF all[n + 1] \in gone THEN left(n) ELSE left(n) \cup {all[n + 1]}
    BY <2>4
  <2> HIDE DEF G, left
  <2>10. QED BY <2>3, <2>6, <2>7, <2>8, <2>9
<1>4. G = Nat
  <2> HIDE DEF G
  <2>1. G \subseteq Nat BY DEF G
  <2>2. QED BY <1>2, <1>3, <2>1, NaturalsByInduction
<1>5. ASSUME NEW n \in 0..Len(all) PROVE n \in Nat /\ n <= Len(all) BY <1>1
<1>6. QED BY <1>4, <1>5

\* Without is the end of such a list of what is kept so far.
LEMMA WithoutKeeps ==
  ASSUME NEW all \in Seq(Sessions), NEW gone
  PROVE  \E f : Keeps(f, all, gone, Len(all)) /\ Without(all, gone) = f[Len(all)]
<1> DEFINE body(f) == [i \in 0..Len(all) |->
                         IF i = 0 THEN <<>>
                         ELSE IF all[i] \in gone THEN f[i - 1] ELSE Append(f[i - 1], all[i])]
           keep == CHOOSE f : f = body(f)
<1>1. Len(all) \in Nat /\ Len(all) \in 0..Len(all) OBVIOUS
<1>2. PICK f \in [0..Len(all) -> Seq(Sessions)] : Keeps(f, all, gone, Len(all))
  BY <1>1, KeepExists
<1>3. f = body(f) BY <1>2 DEF Keeps
<1>4. keep = body(keep) BY <1>3
<1>5. Without(all, gone) = keep[Len(all)] BY DEF Without
<1> HIDE DEF keep
<1>6. Keeps(keep, all, gone, Len(all)) BY <1>4 DEF Keeps
<1>7. QED BY <1>5, <1>6

LEMMA WithoutMembers ==
  ASSUME NEW all \in Seq(Sessions), NEW gone
  PROVE  /\ Without(all, gone) \in Seq(Sessions)
         /\ Members(Without(all, gone)) = Members(all) \ gone
<1>1. Len(all) \in Nat /\ Len(all) \in 0..Len(all) OBVIOUS
<1>2. PICK f : Keeps(f, all, gone, Len(all)) /\ Without(all, gone) = f[Len(all)]
  BY WithoutKeeps
<1>3. /\ f[Len(all)] \in Seq(Sessions)
      /\ Members(f[Len(all)]) = {all[i] : i \in 1..Len(all)} \ gone
  BY <1>1, <1>2, KeepMembers
<1>4. QED BY <1>2, <1>3 DEF Members

-----------------------------------------------------------------------------
\* The sessions that are open are those in the registry's list, and a session has been charged
\* no more runs than its allowance.
Roster ==
  /\ order \in Seq(Sessions)
  /\ \A s \in Sessions : /\ sess[s].runs <= RUNS_PER_SESSION
                         /\ sess[s].at = "open" <=> s \in Held

\* It does not depend on the rest.
LEMMA RosterUnmoved ==
  ASSUME Roster, UNCHANGED order,
         \A s \in Sessions : sess'[s].runs = sess[s].runs /\ sess'[s].at = sess[s].at
  PROVE  Roster'
BY DEF Roster, Held

\* What is evicted leaves the list in the step that closes it, and what is copied joins it.
LEMMA RegistryKeepsRoster ==
  ASSUME Types, Roster, Registry
  PROVE  Roster'
<1> USE DEF Roster
<1>1. PICK s \in Sessions : create(s) \/ copy_fails(s) \/ copied(s)
  BY DEF Registry
<1>2. /\ sess \in [Sessions -> SessionType]
      /\ \A o \in Sessions : sess[o] \in SessionType
  BY DEF Types
<1>3. ASSUME NEW at \in {"copying", "gone"}, sess[s].at # "open", UNCHANGED order,
             sess' = [sess EXCEPT ![s].at = at]
      PROVE  Roster'
  <2>1. \A o \in Sessions : /\ sess'[o].runs = sess[o].runs
                            /\ sess'[o].at = IF o = s THEN at ELSE sess[o].at
    BY <1>2, <1>3 DEF SessionType
  <2>2. Held' = Held BY <1>3 DEF Held
  <2>3. QED BY <1>3, <2>1, <2>2
<1>4. CASE create(s) BY <1>3, <1>4 DEF create
<1>5. CASE copy_fails(s) BY <1>3, <1>5 DEF copy_fails
<1>6. CASE copied(s)
  <2> DEFINE all == Append(order, s)
             gone == Evicted(all)
  <2>1. all \in Seq(Sessions) /\ Members(all) = Held \cup {s}
    BY DEF Members, Held
  <2>2. gone \subseteq Members(all)
    BY DEF Evicted, Members
  <2>3. /\ sess[s].at = "copying" /\ order' = Without(all, gone)
        /\ sess' = [o \in Sessions |->
                      IF o \in gone THEN [sess[o] EXCEPT !.at = "gone"]
                      ELSE IF o = s THEN [sess[s] EXCEPT !.at = "open"] ELSE sess[o]]
    BY <1>6, Zenon DEF copied
  <2> HIDE DEF all, gone
  <2>4. order' \in Seq(Sessions) /\ Held' = Members(all) \ gone
    BY <2>1, <2>3, WithoutMembers DEF Members, Held
  <2>5. \A o \in Sessions : /\ sess'[o].runs = sess[o].runs
                            /\ sess'[o].at = IF o \in gone THEN "gone"
                                             ELSE IF o = s THEN "open" ELSE sess[o].at
    BY <1>2, <2>3 DEF SessionType
  <2>6. QED BY <2>1, <2>2, <2>3, <2>4, <2>5
<1>7. QED BY <1>1, <1>4, <1>5, <1>6

\* A run is charged only where the allowance was checked under the same hold of the lock.
LEMMA ServeKeepsRoster ==
  ASSUME Types, Roster, NEW t \in All, NEW s \in Sessions, Serve(t, s)
  PROVE  Roster'
<1>1. \A o \in Sessions : sess[o] \in SessionType
  BY DEF Types
<1>2. UNCHANGED order
  BY DEF Serve, Proceeds, execute, finish, run_status, Requests, admit, _reconcile_refund,
         settle_refund, begin_finishing, submit_refund
<1>3. CASE UNCHANGED sess
  BY <1>2, <1>3, RosterUnmoved
<1>4. ASSUME _check(s), sess' = [sess EXCEPT ![s].runs = @ + 1]
      PROVE  Roster'
  <2>1. \A o \in Sessions : /\ sess'[o].at = sess[o].at
                            /\ sess'[o].runs = IF o = s THEN sess[s].runs + 1 ELSE sess[o].runs
    BY <1>1, <1>4 DEF Types, SessionType
  <2>2. sess[s].runs \in Nat /\ sess[s].runs < RUNS_PER_SESSION
    BY <1>1, <1>4 DEF _check, SessionType
  <2>3. sess[s].runs + 1 <= RUNS_PER_SESSION
    BY <2>2, LimitAssumption
  <2>4. QED BY <1>2, <2>1, <2>3 DEF Roster, Held
<1>5. CASE execute(t, s) \/ finish(t, s) \/ run_status(t, s)
  BY <1>3, <1>5 DEF execute, finish, run_status, Requests
<1>6. CASE admit(t, s) BY <1>3, <1>4, <1>6 DEF admit
<1>7. CASE _reconcile_refund(t, s) BY <1>3, <1>7 DEF _reconcile_refund
<1>8. ASSUME NEW succeeded \in BOOLEAN, sess' = [sess EXCEPT ![s] = Settled(@, succeeded)]
      PROVE  Roster'
  <2>1. \A o \in Sessions : sess'[o].runs = sess[o].runs /\ sess'[o].at = sess[o].at
    BY <1>1, <1>8 DEF Types, SessionType, Settled
  <2>2. QED BY <1>2, <2>1, RosterUnmoved
<1>9. CASE settle_refund(t, s)
  <2>1. call[t].succeeded \in BOOLEAN BY DEF Types, CallType
  <2>2. QED BY <1>3, <1>8, <1>9, <2>1 DEF settle_refund
<1>10. CASE begin_finishing(t, s)
  <2>1. CASE sess' = [sess EXCEPT ![s].finishing = TRUE]
    <3>1. \A o \in Sessions : sess'[o].runs = sess[o].runs /\ sess'[o].at = sess[o].at
      BY <1>1, <2>1 DEF Types, SessionType
    <3>2. QED BY <1>2, <3>1, RosterUnmoved
  <2>2. QED BY <1>3, <1>10, <2>1 DEF begin_finishing
<1>11. CASE submit_refund(t, s)
  <2>1. ASSUME NEW r \in Runs, sess' = [sess EXCEPT ![s].refund_run_id = r] PROVE Roster'
    <3>1. \A o \in Sessions : sess'[o].runs = sess[o].runs /\ sess'[o].at = sess[o].at
      BY <1>1, <2>1 DEF Types, SessionType
    <3>2. QED BY <1>2, <3>1, RosterUnmoved
  <2>2. QED BY <1>8, <1>11, <2>1 DEF submit_refund
<1>12. QED BY <1>5, <1>6, <1>7, <1>9, <1>10, <1>11 DEF Serve, Proceeds

LEMMA InitRoster == Init => Roster
<1> SUFFICES ASSUME Init PROVE Roster OBVIOUS
<1>1. order = <<>> /\ sess = [s \in Sessions |-> Unborn] BY DEF Init, FreshProcess
<1>2. Held = {} BY <1>1 DEF Held
<1>3. \A s \in Sessions : sess[s].runs = 0 /\ sess[s].at = "unborn" BY <1>1 DEF Unborn
<1>4. QED BY <1>1, <1>2, <1>3, LimitAssumption DEF Roster

\* One step per action of Next.
LEMMA NextRoster == Claims /\ Roster /\ [Next]_vars => Roster'
<1> SUFFICES ASSUME Claims, Roster, [Next]_vars PROVE Roster' OBVIOUS
<1>1. Types BY DEF Claims
<1>2. CASE Registry BY <1>1, <1>2, RegistryKeepsRoster
<1>3. ASSUME NEW t \in All, NEW s \in Sessions, Serve(t, s) PROVE Roster'
  BY <1>1, <1>3, ServeKeepsRoster
<1>4. CASE _work \/ _run_finished \/ Settle \/ Recover \/ Chain \/ UNCHANGED vars
  <2>1. UNCHANGED <<sess, order>>
    BY <1>4 DEF _work, _run_finished, Settle, Recover, Chain, vars, volatile
  <2>2. QED BY <2>1, RosterUnmoved
<1>5. CASE Restart
  <2>1. /\ order' = <<>>
        /\ \A s \in Sessions : sess'[s].runs = 0 /\ sess'[s].at # "open"
    BY <1>5 DEF Restart, Unborn
  <2>2. Held' = {} BY <2>1 DEF Held
  <2>3. QED BY <2>1, <2>2, LimitAssumption DEF Roster
<1>6. QED BY <1>2, <1>3, <1>4, <1>5 DEF Next, All

\* In every reachable state the registry's list is its open sessions, none charged too often.
THEOREM RosterKept == Spec => []Roster
<1>1. Init => Roster BY InitRoster
<1>2. Claims /\ Roster /\ [Next]_vars => Roster' BY NextRoster
<1>3. QED BY <1>1, <1>2, ClaimsKept, PTL DEF Spec

\* Every reachable state of the hosted service is well typed: no session is charged more runs
\* than its allowance however many threads admit, what is open is what the registry lists, and
\* a deal exists exactly where its creation was included.
THEOREM ServiceTyped == Spec => []TypeOK
<1>1. ASSUME Claims, Books, Roster PROVE TypeOK
  <2>1. \A r \in Runs :
          /\ liability[r].known \in {"nothing", "intent", "hash", "deal"}
          /\ creation[r] \in {"none", "unbroadcast", "pending", "included", "reverted"}
          /\ deal[r] \in {"none", "Closed"} \cup Live
          /\ (deal[r] # "none") = (creation[r] = "included")
    BY <1>1 DEF Books, DurableTypes, DealMade
  <2>2. ASSUME NEW s \in Sessions
        PROVE  /\ sess[s].runs \in 0..RUNS_PER_SESSION
               /\ sess[s].refund_run_id \in Runs \cup {Nobody}
               /\ (sess[s].at = "open") = (s \in Held)
    <3>1. sess[s] \in SessionType BY <1>1 DEF Claims, Types
    <3>2. sess[s].runs \in Nat /\ sess[s].refund_run_id \in Runs \cup {Nobody}
      BY <3>1 DEF SessionType
    <3>3. sess[s].runs <= RUNS_PER_SESSION /\ (sess[s].at = "open" <=> s \in Held)
      BY <1>1 DEF Roster
    <3>4. QED BY <3>2, <3>3, LimitAssumption
  <2>3. worker.run \in Runs \cup {Reclaim, Nobody}
    BY <1>1 DEF Claims, Types, WorkerType, RunIds
  <2>4. \A t \in Threads \cup {Worker} :
          call[t].at \in {"idle", "admit", "reconcile", "settle", "claim", "submit"}
    BY <1>1 DEF Claims, Types, CallType, All
  <2>5. QED BY <2>1, <2>2, <2>3, <2>4 DEF TypeOK
<1>2. Claims /\ Books /\ Roster => TypeOK BY <1>1
<1>3. QED BY <1>2, ClaimsKept, BooksKept, RosterKept, PTL

-----------------------------------------------------------------------------
\* The registry stays within its limit.  A session whose stores are being copied has nothing that
\* makes it busy, so of one session too many there is an idle one to evict.
Uninvolved(s) ==
  /\ ~sess[s].finishing
  /\ \A r \in RunIds : runs[r].session # s
  /\ \A r \in Runs : liability[r].session # s
  /\ \A t \in All : call[t].session # s

New == {"unborn", "copying"}

Newcomers == \A s \in Sessions : sess[s].at \in New => Uninvolved(s)

\* A session that is not new may take up whatever it likes.
LEMMA NewcomersLeftAlone ==
  ASSUME Newcomers, NEW s, s \in Sessions => sess[s].at \notin New,
         \A o \in Sessions : sess'[o].at \in New =>
           sess[o].at \in New /\ sess'[o].finishing = sess[o].finishing,
         \A r \in RunIds : runs'[r].session \in {runs[r].session, s, Nobody},
         \A r \in Runs : liability'[r].session \in {liability[r].session, s, Nobody},
         \A t \in All : call'[t].session \in {call[t].session, s, Nobody}
  PROVE  Newcomers'
<1>1. SUFFICES ASSUME NEW o \in Sessions, sess'[o].at \in New PROVE Uninvolved(o)'
  BY DEF Newcomers
<1>2. sess[o].at \in New /\ Uninvolved(o) BY <1>1 DEF Newcomers
<1>3. o # s /\ o # Nobody BY <1>2, RunsAssumption
<1>4. QED BY <1>1, <1>2, <1>3 DEF Uninvolved

LEMMA RegistryKeepsNewcomers ==
  ASSUME Types, Newcomers, Registry
  PROVE  Newcomers'
<1>1. UNCHANGED <<runs, liability, call>>
  BY DEF Registry, create, copy_fails, copied, durable
<1>2. PICK s \in Sessions : create(s) \/ copy_fails(s) \/ copied(s)
  BY DEF Registry
<1>3. \A o \in Sessions : sess[o] \in SessionType BY DEF Types
<1>4. \A o \in Sessions : sess'[o].at \in New => sess[o].at \in New
  <2>1. CASE create(s)
    BY <1>3, <2>1 DEF create, New, Types, SessionType
  <2>2. CASE copy_fails(s)
    BY <1>3, <2>2 DEF copy_fails, New, Types, SessionType
  <2>3. CASE copied(s)
    <3>1. \A o \in Sessions : sess'[o] =
            IF o \in Evicted(Append(order, s)) THEN [sess[o] EXCEPT !.at = "gone"]
            ELSE IF o = s THEN [sess[s] EXCEPT !.at = "open"] ELSE sess[o]
      BY <2>3, Zenon DEF copied
    <3> DEFINE gone == Evicted(Append(order, s))
    <3> HIDE DEF gone
    <3>2. \A o \in Sessions : sess'[o] =
            IF o \in gone THEN [sess[o] EXCEPT !.at = "gone"]
            ELSE IF o = s THEN [sess[s] EXCEPT !.at = "open"] ELSE sess[o]
      BY <3>1 DEF gone
    <3>3. QED BY <1>3, <3>2 DEF New, SessionType
  <2>4. QED BY <1>2, <2>1, <2>2, <2>3
<1>5. \A o \in Sessions : sess'[o].finishing = sess[o].finishing BY RegistryLeaves
<1>6. Nobody \in Sessions => sess[Nobody].at \notin New BY RunsAssumption
<1>7. QED BY <1>1, <1>4, <1>5, <1>6, NewcomersLeftAlone

\* A request that has begun is one of a session that was open.
LEMMA ServeKeepsNewcomers ==
  ASSUME Types, Newcomers, NEW t \in All, NEW s \in Sessions, Serve(t, s)
  PROVE  Newcomers'
<1>1. \A o \in Sessions : sess[o] \in SessionType BY DEF Types
<1>2. \A u \in All : call[u] \in CallType BY DEF Types
<1>3. UNCHANGED liability
  BY DEF Serve, Proceeds, execute, finish, run_status, Requests, admit, _reconcile_refund,
         settle_refund, begin_finishing, submit_refund, durable
<1>4. sess[s].at \notin New
  <2>1. CASE execute(t, s) \/ finish(t, s) \/ run_status(t, s)
    BY <2>1 DEF execute, finish, run_status, Requests, New
  <2>2. CASE Proceeds(t, s)
    <3>1. call[t].session = s
      BY <2>2 DEF Proceeds, admit, _reconcile_refund, settle_refund, begin_finishing, submit_refund
    <3>2. QED BY <3>1 DEF Newcomers, Uninvolved
  <2>3. QED BY <2>1, <2>2 DEF Serve
<1>5. \A o \in Sessions : sess'[o].at = sess[o].at /\ (o # s => sess'[o] = sess[o])
  <2>1. ASSUME NEW S \in SessionType, S.at = sess[s].at, sess' = [sess EXCEPT ![s] = S]
        PROVE  \A o \in Sessions : sess'[o].at = sess[o].at /\ (o # s => sess'[o] = sess[o])
    BY <2>1 DEF Types
  <2>2. \A x \in BOOLEAN : /\ Settled(sess[s], x) \in SessionType
                           /\ Settled(sess[s], x).at = sess[s].at
    BY <1>1 DEF Settled, SessionType
  <2>3. CASE UNCHANGED sess BY <2>3
  <2>4. CASE execute(t, s) \/ finish(t, s) \/ run_status(t, s) \/ _reconcile_refund(t, s)
    BY <2>3, <2>4 DEF execute, finish, run_status, Requests, _reconcile_refund
  <2>5. CASE admit(t, s)
    <3>1. CASE sess' = [sess EXCEPT ![s].runs = @ + 1]
      BY <1>1, <3>1 DEF Types, SessionType
    <3>2. QED BY <2>3, <2>5, <3>1 DEF admit
  <2>6. CASE settle_refund(t, s)
    BY <1>2, <2>1, <2>2, <2>3, <2>6 DEF settle_refund, CallType
  <2>7. CASE begin_finishing(t, s)
    <3>1. CASE sess' = [sess EXCEPT ![s].finishing = TRUE]
      BY <1>1, <3>1 DEF Types, SessionType
    <3>2. QED BY <2>3, <2>7, <3>1 DEF begin_finishing
  <2>8. CASE submit_refund(t, s)
    <3>1. ASSUME NEW r \in Runs, sess' = [sess EXCEPT ![s].refund_run_id = r]
          PROVE  \A o \in Sessions : sess'[o].at = sess[o].at /\ (o # s => sess'[o] = sess[o])
      BY <1>1, <3>1 DEF Types, SessionType
    <3>2. CASE sess' = [sess EXCEPT ![s] = Settled(@, FALSE)]
      BY <1>1, <3>2, <2>2 DEF Types, SessionType
    <3>3. QED BY <2>8, <3>1, <3>2 DEF submit_refund
  <2>9. QED BY <2>4, <2>5, <2>6, <2>7, <2>8 DEF Serve, Proceeds
<1>6. \A r \in RunIds : runs'[r].session \in {runs[r].session, s, Nobody}
  <2>1. ASSUME NEW r \in Runs, NEW kind, submit(r, s, kind)
        PROVE  \A q \in RunIds : runs'[q].session \in {runs[q].session, s}
    BY <2>1 DEF submit, Types
  <2>2. CASE UNCHANGED runs BY <2>2
  <2>3. QED
    BY <2>1, <2>2 DEF Serve, Proceeds, execute, finish, run_status, Requests, admit,
       _reconcile_refund, settle_refund, begin_finishing, submit_refund
<1>7. \A u \in All : call'[u].session \in {call[u].session, s, Nobody}
  <2>1. ASSUME NEW c, call' = [call EXCEPT ![t] = c], c.session \in {call[t].session, s, Nobody}
        PROVE  \A u \in All : call'[u].session \in {call[u].session, s, Nobody}
    BY <2>1 DEF Types
  <2>2. CASE execute(t, s) \/ finish(t, s) \/ run_status(t, s)
    BY <2>2 DEF execute, finish, run_status, Requests, NoCall, Types
  <2>3. CASE admit(t, s) \/ submit_refund(t, s)
    <3>1. call' = [call EXCEPT ![t] = NoCall] BY <2>3 DEF admit, submit_refund, Returns
    <3>2. QED BY <2>1, <3>1 DEF NoCall
  <2>4. call[t] \in CallType BY DEF Types
  <2>5. CASE begin_finishing(t, s)
    <3>1. CASE call' = [call EXCEPT ![t] = NoCall] BY <2>1, <3>1 DEF NoCall
    <3>2. CASE call' = [call EXCEPT ![t].at = "submit"] BY <2>4, <3>2 DEF Types, CallType
    <3>3. QED BY <2>5, <3>1, <3>2 DEF begin_finishing, Returns
  <2>6. \A c \in CallType, at \in {"claim", "settle"} : [c EXCEPT !.at = at].session = c.session
    BY DEF CallType
  <2>7. CASE settle_refund(t, s)
    BY <2>1, <2>4, <2>6, <2>7, Zenon DEF settle_refund, NoCall
  <2>8. CASE _reconcile_refund(t, s)
    <3> DEFINE observed == sess[s].refund_run_id
               ended == /\ observed # Nobody /\ observed \notin forgotten /\ ~sess[s].refunded
                        /\ runs[observed].status \in {"succeeded", "failed"}
               new == IF ended THEN [call[t] EXCEPT !.at = "settle", !.observed = observed,
                                       !.succeeded = runs[observed].status = "succeeded"]
                      ELSE IF call[t].then = "claim" THEN [call[t] EXCEPT !.at = "claim"]
                      ELSE NoCall
    <3>1. call' = [call EXCEPT ![t] = new] BY <2>8 DEF _reconcile_refund
    <3>2. new.session \in {call[t].session, Nobody} BY <2>4 DEF CallType, NoCall
    <3> HIDE DEF new
    <3>3. QED BY <2>1, <3>1, <3>2
  <2>9. QED BY <2>2, <2>3, <2>5, <2>7, <2>8 DEF Serve, Proceeds
<1>8. QED BY <1>3, <1>4, <1>5, <1>6, <1>7, NewcomersLeftAlone

\* The worker files a deal under the session of the run in its hands.
LEMMA WorkerKeepsNewcomers ==
  ASSUME Claims, AtWork, DurableTypes, Newcomers, Settle \/ Recover
  PROVE  Newcomers'
<1> DEFINE s == runs[worker.run].session
<1>1. /\ worker.run \in RunIds /\ UNCHANGED <<sess, call>>
      /\ \A r \in RunIds : runs'[r].session = runs[r].session
  <2>1. UNCHANGED <<sess, call>> BY DEF Settle, Recover
  <2>2. QED BY <2>1, WorkerMoves
<1>2. s \in Sessions => sess[s].at \notin New BY <1>1 DEF Newcomers, Uninvolved
<1>3. \A r \in Runs : liability'[r].session \in {liability[r].session, s, Nobody}
  <2>1. ASSUME NEW r, \/ close(r) \/ open_intent(r, s)
                      \/ \E known \in {"hash", "deal"} : attach(r, known)
        PROVE  \A q \in Runs : liability'[q].session \in {liability[q].session, s, Nobody}
    BY <2>1 DEF close, open_intent, attach, NoLiability, DurableTypes
  <2>2. CASE UNCHANGED liability BY <2>2
  <2>3. CASE Settle
    BY <2>1, <2>2, <2>3 DEF Settle, _quote, _create, _sent, _included, _perform, _confirm, _teach,
       durable
  <2>4. CASE _run_refund \/ _recover_deals \/ _credits \/ _collect
    BY <2>1, <2>2, <2>4 DEF _run_refund, _recover_deals, _credits, _collect, durable
  <2>5. CASE _run_reclaim
    <3>1. ASSUME NEW readable \in SUBSET Unnamed,
                 liability' = [r \in Runs |-> IF r \in Unnamed THEN Named(r, readable)
                                              ELSE liability[r]]
          PROVE  \A r \in Runs : liability'[r].session \in {liability[r].session, Nobody}
      BY <3>1 DEF Named, NoLiability, DurableTypes
    <3>2. QED BY <2>2, <2>5, <3>1 DEF _run_reclaim
  <2>6. QED BY <2>3, <2>4, <2>5 DEF Recover
<1> HIDE DEF s
<1>4. QED BY <1>1, <1>2, <1>3, NewcomersLeftAlone

LEMMA InitNewcomers == Init => Newcomers
<1> SUFFICES ASSUME Init, NEW s \in Sessions PROVE Uninvolved(s) BY DEF Newcomers
<1>1. ~sess[s].finishing BY DEF Init, Unborn
<1>2. \A r \in RunIds : runs[r].session = Nobody
  BY DEF Init, RunIds, ReclaimQueued, NoRun
<1>3. \A r \in Runs : liability[r].session = Nobody
  BY DEF Init, DurableInit, NoLiability
<1>4. \A t \in All : call[t].session = Nobody
  BY DEF Init, FreshProcess, NoCall, All
<1>5. QED BY <1>1, <1>2, <1>3, <1>4, RunsAssumption DEF Uninvolved

\* One step per action of Next.
LEMMA NextNewcomers == Claims /\ Books /\ Newcomers /\ [Next]_vars => Newcomers'
<1> SUFFICES ASSUME Claims, Books, Newcomers, [Next]_vars PROVE Newcomers' OBVIOUS
<1>0. Types /\ AtWork /\ DurableTypes BY DEF Claims, Books
<1>1. Nobody \in Sessions => sess[Nobody].at \notin New BY RunsAssumption
<1>2. CASE Registry BY <1>0, <1>2, RegistryKeepsNewcomers
<1>3. ASSUME NEW t \in All, NEW s \in Sessions, Serve(t, s) PROVE Newcomers'
  BY <1>0, <1>3, ServeKeepsNewcomers
<1>4. CASE _work
  <2>1. UNCHANGED <<sess, liability, call>> BY <1>4 DEF _work, durable
  <2>2. PICK r, status : runs' = [runs EXCEPT ![r].status = status] BY <1>4 DEF _work
  <2>3. \A q \in RunIds : runs'[q].session = runs[q].session
    BY <1>0, <2>2 DEF Types, RunType
  <2>4. QED BY <1>1, <2>1, <2>3, NewcomersLeftAlone
<1>5. CASE _run_finished
  <2> DEFINE s == runs[worker.run].session
  <2>1. worker.run \in RunIds BY <1>5 DEF Claims, OneAtATime, _run_finished
  <2>2. s \in Sessions => sess[s].at \notin New BY <2>1 DEF Newcomers, Uninvolved
  <2>3. UNCHANGED <<sess, runs, liability>> BY <1>5 DEF _run_finished, durable
  <2>4. \A t \in All : call'[t].session \in {call[t].session, s}
    BY <1>0, <1>5 DEF _run_finished, Refunds, NoCall, Types
  <2> HIDE DEF s
  <2>5. QED BY <2>2, <2>3, <2>4, NewcomersLeftAlone
<1>6. CASE Settle \/ Recover BY <1>0, <1>6, WorkerKeepsNewcomers
<1>7. CASE Chain \/ UNCHANGED vars
  <2>1. UNCHANGED <<sess, runs, call, liability>>
    BY <1>7 DEF Chain, vars, volatile, Land, WithdrawalConfirmed, durable
  <2>2. QED BY <1>1, <2>1, NewcomersLeftAlone
<1>8. CASE Restart
  <2>1. \A s \in Sessions : /\ ~sess'[s].finishing
                            /\ sess'[s].at \in New => sess[s].at \in New
    BY <1>8 DEF Restart, Unborn, New
  <2>2. \A r \in RunIds : runs'[r].session = Nobody
    BY <1>8 DEF Restart, RunIds, ReclaimQueued, NoRun
  <2>3. \A t \in All : call'[t].session = Nobody BY <1>8 DEF Restart, NoCall, All
  <2>4. UNCHANGED liability BY <1>8 DEF Restart, durable
  <2>5. QED BY <2>1, <2>2, <2>3, <2>4, RunsAssumption DEF Newcomers, Uninvolved
<1>9. QED BY <1>2, <1>3, <1>4, <1>5, <1>6, <1>7, <1>8 DEF Next, All

\* In every reachable state a session whose stores are not there yet has no run, no row in the
\* index and no request: nothing makes it busy.
THEOREM NewcomersKept == Spec => []Newcomers
<1>1. Init => Newcomers BY InitNewcomers
<1>2. Claims /\ Books /\ Newcomers /\ [Next]_vars => Newcomers' BY NextNewcomers
<1>3. QED BY <1>1, <1>2, ClaimsKept, BooksKept, PTL DEF Spec


\* Without takes away at least one of a list that holds something to take.
LEMMA KeepShortens ==
  ASSUME NEW all \in Seq(Sessions), NEW gone, NEW f, Keeps(f, all, gone, Len(all))
  PROVE  \A n \in 0..Len(all) :
           /\ Len(f[n]) <= n
           /\ (\E k \in 1..n : all[k] \in gone) => Len(f[n]) < n
<1> DEFINE shorter(n) == /\ Len(f[n]) <= n
                         /\ (\E k \in 1..n : all[k] \in gone) => Len(f[n]) < n
           G == {n \in Nat : n <= Len(all) => shorter(n)}
<1>1. Len(all) \in Nat OBVIOUS
<1>2. \A n \in 0..Len(all) : f[n] \in Seq(Sessions) BY KeepMembers
<1>3. 0 \in G
  <2>1. f[0] = <<>> BY <1>1 DEF Keeps
  <2>2. QED BY <2>1
<1>4. ASSUME NEW n \in G PROVE n + 1 \in G
  <2>1. n \in Nat OBVIOUS
  <2>2. SUFFICES ASSUME n + 1 <= Len(all) PROVE shorter(n + 1) BY <2>1
  <2>3. shorter(n) /\ n \in 0..Len(all) BY <1>1, <2>1, <2>2
  <2>4. n + 1 \in 0..Len(all) /\ n + 1 # 0 /\ (n + 1) - 1 = n BY <1>1, <2>1, <2>2
  <2>5. f[n + 1] = IF all[n + 1] \in gone THEN f[n] ELSE Append(f[n], all[n + 1])
    BY <2>4, Zenon DEF Keeps
  <2>6. f[n] \in Seq(Sessions) BY <1>2, <2>3
  <2>7. all[n + 1] \in Sessions BY <2>1, <2>2
  <2>8. Len(f[n + 1]) = IF all[n + 1] \in gone THEN Len(f[n]) ELSE Len(f[n]) + 1
    BY <2>5, <2>6, <2>7
  <2>9. Len(f[n]) \in Nat BY <2>6
  <2>10. \A k \in 1..(n + 1) : k = n + 1 \/ k \in 1..n BY <2>1
  <2>11. QED BY <2>1, <2>3, <2>8, <2>9, <2>10
<1>5. G = Nat
  <2> HIDE DEF G
  <2>1. G \subseteq Nat BY DEF G
  <2>2. QED BY <1>3, <1>4, <2>1, NaturalsByInduction
<1>6. ASSUME NEW n \in 0..Len(all) PROVE n \in Nat /\ n <= Len(all) BY <1>1
<1>7. QED BY <1>5, <1>6

LEMMA WithoutShortens ==
  ASSUME NEW all \in Seq(Sessions), NEW gone
  PROVE  /\ Len(Without(all, gone)) <= Len(all)
         /\ (\E k \in 1..Len(all) : all[k] \in gone) => Len(Without(all, gone)) < Len(all)
<1>1. Len(all) \in Nat /\ Len(all) \in 0..Len(all) OBVIOUS
<1>2. PICK f : Keeps(f, all, gone, Len(all)) /\ Without(all, gone) = f[Len(all)]
  BY WithoutKeeps
<1>3. QED BY <1>1, <1>2, KeepShortens

\* The oldest idle session of a list that is too long is evicted.
LEMMA OldestIdleEvicted ==
  ASSUME NEW all \in Seq(Sessions), Len(all) > SESSION_LIMIT,
         NEW n \in 1..Len(all), ~_session_is_busy(all[n])
  PROVE  \E k \in 1..Len(all) : all[k] \in Evicted(all)
<1> DEFINE idle(i) == {j \in 1..i : ~_session_is_busy(all[j])}
<1>1. Len(all) \in Nat OBVIOUS
<1>2. n \in idle(Len(all)) /\ idle(Len(all)) \subseteq Nat OBVIOUS
<1>3. PICK k \in idle(Len(all)) : \A m \in idle(Len(all)) : ~(<<m, k>> \in OpToRel(<, Nat))
  <2> HIDE DEF idle
  <2>1. idle(Len(all)) # {} BY <1>2
  <2>2. QED BY <1>2, <2>1, WFMin, NatLessThanWellFounded
<1>4. \A m \in idle(Len(all)) : ~(m < k) BY <1>2, <1>3 DEF OpToRel
<1>5. k \in 1..Len(all) /\ ~_session_is_busy(all[k]) BY <1>3
<1>6. idle(k) = {k}
  <2>1. ASSUME NEW j \in idle(k) PROVE j = k
    <3>1. j \in idle(Len(all)) /\ j <= k BY <1>1, <1>5
    <3>2. ~(j < k) BY <1>4, <3>1
    <3>3. j \in Nat /\ k \in Nat BY <1>5
    <3>4. QED BY <3>1, <3>2, <3>3
  <2>2. k \in idle(k) BY <1>5
  <2>3. QED BY <2>1, <2>2
<1>7. Cardinality(idle(k)) = 1 BY <1>6, FS_Singleton
<1>8. Cardinality(idle(k)) + SESSION_LIMIT <= Len(all) BY <1>1, <1>7, LimitAssumption
<1>9. all[k] \in Evicted(all) BY <1>3, <1>8 DEF Evicted
<1>10. QED BY <1>5, <1>9

LEMMA CopiedWithinLimit ==
  ASSUME Types, Roster, Newcomers, WithinLimit, NEW s \in Sessions, copied(s)
  PROVE  WithinLimit'
<1> DEFINE all == Append(order, s)
           gone == Evicted(all)
<1>1. /\ all \in Seq(Sessions) /\ Len(all) = Len(order) + 1 /\ all[Len(all)] = s
      /\ Len(order) \in Nat /\ Len(all) \in 1..Len(all)
  BY DEF Roster
<1>2. sess[s].at = "copying" /\ order' = Without(all, gone)
  BY Zenon DEF copied
<1>3. ~_session_is_busy(s)
  BY <1>2 DEF Newcomers, New, Uninvolved, _session_is_busy, busy_with, open_deals, RunIds
<1> HIDE DEF all
<1>4. CASE Len(all) <= SESSION_LIMIT
  <2>1. Len(Without(all, gone)) <= Len(all) BY <1>1, WithoutShortens
  <2>2. Without(all, gone) \in Seq(Sessions) BY <1>1, WithoutMembers
  <2>3. QED BY <1>1, <1>2, <1>4, <2>1, <2>2, LimitAssumption DEF WithinLimit
<1>5. CASE Len(all) > SESSION_LIMIT
  <2>1. \E k \in 1..Len(all) : all[k] \in gone BY <1>1, <1>3, <1>5, OldestIdleEvicted
  <2>2. Len(Without(all, gone)) < Len(all) BY <1>1, <2>1, WithoutShortens
  <2>3. Without(all, gone) \in Seq(Sessions) BY <1>1, WithoutMembers
  <2>4. QED BY <1>1, <1>2, <2>2, <2>3, LimitAssumption DEF WithinLimit
<1>6. QED BY <1>1, <1>4, <1>5, LimitAssumption

\* The registry never holds more sessions than its limit, for any limit and any number of
\* visitors, whatever became busy while the stores of the new one were copied.
THEOREM RegistryWithinLimit == Spec => []WithinLimit
<1>1. Init => WithinLimit BY LimitAssumption DEF Init, FreshProcess, WithinLimit
<1>2. ASSUME Claims, Roster, Newcomers, WithinLimit, [Next]_vars PROVE WithinLimit'
  <2>0. Types BY <1>2 DEF Claims
  <2>1. ASSUME UNCHANGED order \/ order' = <<>> PROVE WithinLimit'
    BY <1>2, <2>1, LimitAssumption DEF WithinLimit
  <2>2. CASE Registry
    <3>1. PICK s \in Sessions : create(s) \/ copy_fails(s) \/ copied(s) BY <2>2 DEF Registry
    <3>2. CASE copied(s) BY <1>2, <2>0, <3>2, CopiedWithinLimit
    <3>3. CASE create(s) \/ copy_fails(s) BY <2>1, <3>3 DEF create, copy_fails
    <3>4. QED BY <3>1, <3>2, <3>3
  <2>3. ASSUME NEW t \in All, NEW s \in Sessions, Serve(t, s) PROVE UNCHANGED order
    BY <2>3 DEF Serve, Proceeds, execute, finish, run_status, Requests, admit, _reconcile_refund,
       settle_refund, begin_finishing, submit_refund
  <2>4. CASE _work \/ _run_finished \/ Settle \/ Recover \/ Chain \/ UNCHANGED vars
    BY <2>1, <2>4 DEF _work, _run_finished, Settle, Recover, Chain, vars, volatile
  <2>5. CASE Restart BY <2>1, <2>5 DEF Restart
  <2>6. QED BY <1>2, <2>1, <2>2, <2>3, <2>4, <2>5 DEF Next, All
<1>3. Claims /\ Roster /\ Newcomers /\ WithinLimit /\ [Next]_vars => WithinLimit' BY <1>2
<1>4. QED BY <1>1, <1>3, ClaimsKept, RosterKept, NewcomersKept, PTL DEF Spec

-----------------------------------------------------------------------------
\* The history.  Only runs that have ended are forgotten, and what has ended stays so.
PastRun(r) == runs[r].kind \notin {"none", "lost"} /\ runs[r].status \notin Unfinished

History == forgotten \subseteq RunIds /\ \A r \in forgotten : PastRun(r)

LEMMA HistoryGrows ==
  ASSUME History, forgotten' \subseteq forgotten \cup {r \in RunIds : PastRun(r)},
         \A r \in RunIds : PastRun(r) => PastRun(r)'
  PROVE  History'
BY DEF History

\* One step per action of Next.
LEMMA NextHistory == Claims /\ Books /\ History /\ [Next]_vars => History'
<1> SUFFICES ASSUME Claims, Books, History, [Next]_vars PROVE History' OBVIOUS
<1>0. Types /\ Queued /\ AtWork BY DEF Claims, Books
<1>1. CASE Registry \/ _run_finished \/ Chain \/ UNCHANGED vars
  <2>1. UNCHANGED <<runs, forgotten>>
    BY <1>1 DEF Registry, create, copy_fails, copied, _run_finished, Chain, vars, volatile
  <2>2. QED BY <2>1 DEF History, PastRun
<1>2. ASSUME NEW t \in All, NEW s \in Sessions, Serve(t, s) PROVE History'
  <2>1. CASE UNCHANGED <<runs, forgotten>> BY <2>1 DEF History, PastRun
  <2>2. ASSUME NEW r \in Runs, NEW kind \in {"settlement", "refund"}, submit(r, s, kind)
        PROVE  History'
    <3>1. ASSUME NEW q \in Trimmed PROVE q \in RunIds /\ PastRun(q)
      <4>1. q \in RunIds /\ runs[q].kind \notin {"none", "lost"} /\ q \notin forgotten
        BY DEF Trimmed, RunIds
      <4>2. q <= q BY <4>1, ReclaimFirst
      <4>3. QED BY <4>1, <4>2 DEF Trimmed, PastRun, RunIds
    <3>2. forgotten' = forgotten \cup Trimmed BY <2>2 DEF submit
    <3>3. runs[r].kind = "none" /\ \A q \in RunIds : q # r => runs'[q] = runs[q]
      BY <1>0, <2>2 DEF submit, NextRun, Types
    <3>4. \A q \in RunIds : PastRun(q) => PastRun(q)' BY <3>3 DEF PastRun
    <3>5. QED BY <3>1, <3>2, <3>4, HistoryGrows
  <2>3. QED
    BY <1>2, <2>1, <2>2 DEF Serve, Proceeds, execute, finish, run_status, Requests, admit,
       _reconcile_refund, settle_refund, begin_finishing, submit_refund
<1>3. CASE _work
  <2>1. queue # <<>> /\ queue \in Seq(RunIds) BY <1>0, <1>3 DEF _work, Types
  <2>2. Head(queue) \in RunIds /\ runs[Head(queue)].status = "queued"
    BY <1>0, <2>1 DEF Queued
  <2>3. PICK status : runs' = [runs EXCEPT ![Head(queue)].status = status] BY <1>3 DEF _work
  <2>4. \A q \in RunIds : q # Head(queue) => runs'[q] = runs[q]
    BY <1>0, <2>3 DEF Types
  <2>5. \A q \in RunIds : PastRun(q) => PastRun(q)' BY <2>2, <2>4 DEF PastRun, Unfinished
  <2>6. QED BY <1>3, <2>5, HistoryGrows DEF _work
<1>4. CASE Settle \/ Recover
  <2>1. /\ runs[worker.run].status = "running"
        /\ \A r \in RunIds : /\ runs'[r].kind = runs[r].kind
                             /\ r # worker.run => runs'[r].status = runs[r].status
    BY <1>0, <1>4, WorkerMoves
  <2>2. \A q \in RunIds : PastRun(q) => PastRun(q)' BY <2>1 DEF PastRun, Unfinished
  <2>3. UNCHANGED forgotten BY <1>4 DEF Settle, Recover
  <2>4. QED BY <2>2, <2>3, HistoryGrows
<1>5. CASE Restart BY <1>5 DEF Restart, History
<1>6. QED BY <1>1, <1>2, <1>3, <1>4, <1>5 DEF Next, All

\* No run is forgotten before it has ended, whatever the limit of the history and however many
\* runs are submitted while it waits: HostedService.UnfinishedIsKnown.
THEOREM NothingUnfinishedForgotten == Spec => []UnfinishedIsKnown
<1>1. Init => History BY DEF Init, FreshProcess, History
<1>2. Claims /\ Books /\ History /\ [Next]_vars => History' BY NextHistory
<1>3. History => UnfinishedIsKnown BY DEF History, PastRun, UnfinishedIsKnown
<1>4. QED BY <1>1, <1>2, <1>3, ClaimsKept, BooksKept, PTL DEF Spec

\* A session is busy with a run exactly as long as one of its runs has not ended, although the
\* queue answers from the runs it remembers only, and however few those are.
BusyIsKnown ==
  \A s \in Sessions :
    busy_with(s) <=> \E r \in Runs : runs[r].session = s /\ runs[r].status \in Unfinished

\* The registry's question whether a session's files may be deleted gets the answer it would get
\* from a history that keeps all.
THEOREM BusyAsWithAll == Spec => []BusyIsKnown
<1>1. UnfinishedIsKnown => BusyIsKnown BY DEF UnfinishedIsKnown, BusyIsKnown, busy_with
<1>2. QED BY <1>1, NothingUnfinishedForgotten, PTL
=============================================================================
