------------------------- MODULE HostedServiceProofs -------------------------
(***************************************************************************)
(* Refunds of one session never overlap, and a claim to refund is never    *)
(* left with nobody to give it back: for any number of sessions, request   *)
(* threads, runs and restarts.                                             *)
(*                                                                         *)
(* Neither is inductive.  What keeps refunds apart is that `finishing` is  *)
(* a lock: a thread about to queue a refund holds it and is alone, an      *)
(* unfinished refund is the one the session names, and a thread that has   *)
(* observed a refund's end observed one that stays ended.  Claims says so. *)
(***************************************************************************)
EXTENDS HostedService, FiniteSetTheorems, TLAPS

USE RunsAssumption

All == Threads \cup {Worker}
RunIds == Runs \cup {Reclaim}
Endings == {"succeeded", "failed", "refused"}

SessionType == [at : {"unborn", "copying", "open", "gone"}, runs : Nat, finishing : BOOLEAN,
                refunded : BOOLEAN, refund_run_id : Runs \cup {Nobody}]
RunType == [session : Sessions \cup {Nobody},
            kind : {"none", "lost", "reclaim", "settlement", "refund"},
            status : {"none", "queued", "running", "succeeded", "failed", "refused"}]
WorkerType == [run : RunIds \cup {Nobody},
               at : {"idle", "callback", "none", "lost", "reclaim", "settlement", "refund", "create",
                     "sent", "included", "perform", "confirm", "teach", "recover", "collect"},
               deal_id : BOOLEAN, todo : SUBSET Runs, owed : SUBSET Roles]
CallType == [at : {"idle", "admit", "reconcile", "settle", "claim", "submit"},
             session : Sessions \cup {Nobody}, then : {"idle", "claim"},
             observed : Runs \cup {Nobody}, succeeded : BOOLEAN]

Types ==
  /\ sess \in [Sessions -> SessionType]
  /\ runs \in [RunIds -> RunType]
  /\ queue \in Seq(RunIds)
  /\ worker \in WorkerType
  /\ call \in [All -> CallType]

\* A run is queued once, and one that was never submitted has no status.
Queued ==
  /\ \A i \in 1..Len(queue) : runs[queue[i]].status = "queued"
  /\ \A i, j \in 1..Len(queue) : i # j => queue[i] # queue[j]
  /\ \A r \in Runs : runs[r].kind = "none" => runs[r].status = "none"

\* The worker starts on a run only when its callback is done with the one before, and takes
\* it off the queue as it does.
OneAtATime ==
  worker.at # "idle" => /\ worker.run \in RunIds /\ call[Worker].at = "idle"
                        /\ runs[worker.run].status \notin {"none", "queued"}

Submitting(t, s) == call[t].at = "submit" /\ call[t].session = s

\* An unfinished refund of a session is the one the session names.
RefundNamed ==
  \A s \in Sessions, r \in Runs :
    r \in RefundsOf(s) /\ runs[r].status \in Unfinished =>
      sess[s].finishing /\ sess[s].refund_run_id = r

\* A thread about to queue a refund holds the claim, which names no refund yet, and is alone.
ClaimHeld ==
  \A s \in Sessions, t \in All : Submitting(t, s) =>
    /\ sess[s].finishing /\ sess[s].refund_run_id = Nobody
    /\ \A u \in All : Submitting(u, s) => u = t

\* A session that is neither refunded nor being refunded names no refund.
Unclaimed ==
  \A s \in Sessions :
    ~sess[s].finishing /\ ~sess[s].refunded => sess[s].refund_run_id = Nobody

\* What a thread saw ended has ended.
ObservedEnded ==
  \A t \in All : call[t].at = "settle" =>
    /\ call[t].observed \in Runs
    /\ runs[call[t].observed].status \in Endings

Claims ==
  /\ Types /\ Queued /\ OneAtATime
  /\ RefundNamed /\ ClaimHeld /\ Unclaimed /\ ObservedEnded /\ ClaimIsOwned

-----------------------------------------------------------------------------
\* The claims of a session do not depend on how far the runs are, as long as runs only move
\* on (nothing ended begins again, and what is submitted is no refund) and no thread comes to
\* the point of queueing a refund or leaves it.
LEMMA ClaimsCarryOver ==
  ASSUME Claims, Types', Queued', OneAtATime',
         \A t \in All, s \in Sessions : Submitting(t, s)' <=> Submitting(t, s),
         \A t \in All : call'[t].at = "settle" =>
           call'[t].observed \in Runs /\ runs[call'[t].observed].status \in Endings,
         \A s \in Sessions : /\ sess'[s].finishing = sess[s].finishing
                             /\ sess'[s].refunded = sess[s].refunded
                             /\ sess'[s].refund_run_id = sess[s].refund_run_id,
         \A r \in Runs :
           /\ runs[r].kind # "none" => /\ runs'[r].kind = runs[r].kind
                                       /\ runs'[r].session = runs[r].session
           /\ runs[r].kind = "none" => runs'[r].kind # "refund"
           /\ runs[r].status \in Endings => runs'[r].status \in Endings
           /\ runs'[r].kind = "refund" /\ runs'[r].status \in Unfinished =>
                runs[r].status \in Unfinished
  PROVE  Claims'
<1> USE DEF Claims
<1>1. \A s \in Sessions : RefundsOf(s)' = RefundsOf(s)
  BY DEF RefundsOf, Types, RunType
<1>2. RefundNamed'
  BY <1>1 DEF RefundNamed, RefundsOf
<1>3. ClaimHeld'
  BY DEF ClaimHeld
<1>4. Unclaimed'
  BY DEF Unclaimed
<1>5. ObservedEnded'
  BY DEF ObservedEnded
<1>6. ClaimIsOwned'
  BY <1>1 DEF ClaimIsOwned, Submitting, All
<1>7. QED
  BY <1>2, <1>3, <1>4, <1>5, <1>6

\* While no thread moves at all, that is enough.
LEMMA RunsMoveOn ==
  ASSUME Claims, Types', Queued', OneAtATime', UNCHANGED call,
         \A s \in Sessions : /\ sess'[s].finishing = sess[s].finishing
                             /\ sess'[s].refunded = sess[s].refunded
                             /\ sess'[s].refund_run_id = sess[s].refund_run_id,
         \A r \in Runs :
           /\ runs'[r].kind = runs[r].kind /\ runs'[r].session = runs[r].session
           /\ runs[r].status \in Endings => runs'[r].status \in Endings
           /\ runs'[r].status \in Unfinished => runs[r].status \in Unfinished
  PROVE  Claims'
<1>1. \A t \in All, s \in Sessions : Submitting(t, s)' <=> Submitting(t, s)
  BY DEF Submitting
<1>2. \A t \in All : call'[t].at = "settle" =>
        call'[t].observed \in Runs /\ runs[call'[t].observed].status \in Endings
  BY DEF Claims, ObservedEnded
<1>3. QED BY <1>1, <1>2, ClaimsCarryOver

-----------------------------------------------------------------------------
\* The worker's steps for a settlement.
Settling == {"settlement", "create", "sent", "included", "perform", "confirm", "teach"}

\* A settlement goes from step to step, or ends.
LEMMA SettleMoves ==
  ASSUME Types, Settle
  PROVE  /\ worker.at \in Settling /\ worker' \in WorkerType /\ worker'.run = worker.run
         /\ \/ worker'.at \in Settling \ {"settlement"} /\ UNCHANGED runs
            \/ /\ worker'.at = "callback"
               /\ \E status \in Endings : runs' = [runs EXCEPT ![worker.run].status = status]
<1> USE DEF Types, WorkerType, Endings, Settling
<1>1. ASSUME NEW status \in Endings, Ended(status)
      PROVE  /\ worker' \in WorkerType /\ worker'.run = worker.run /\ worker'.at = "callback"
             /\ runs' = [runs EXCEPT ![worker.run].status = status]
  BY <1>1 DEF Ended
<1>2. ASSUME NEW at \in Settling, Goes(at)
      PROVE  /\ worker' \in WorkerType /\ worker'.run = worker.run /\ worker'.at = at
             /\ UNCHANGED runs
  BY <1>2 DEF Goes
<1>3. CASE _quote BY <1>1, <1>2, <1>3 DEF _quote
<1>4. CASE _create BY <1>1, <1>2, <1>4 DEF _create
<1>5. CASE _sent BY <1>1, <1>2, <1>5 DEF _sent
<1>6. CASE _included
  <2>1. CASE worker' = [worker EXCEPT !.at = "perform", !.deal_id = TRUE] /\ UNCHANGED runs
    BY <1>6, <2>1 DEF _included
  <2>2. CASE Ended("failed") BY <1>1, <1>6, <2>2 DEF _included
  <2>3. QED BY <1>6, <2>1, <2>2 DEF _included
<1>7. CASE _perform BY <1>1, <1>2, <1>7 DEF _perform
<1>8. CASE _confirm BY <1>1, <1>2, <1>8 DEF _confirm
<1>9. CASE _teach BY <1>1, <1>2, <1>9 DEF _teach
<1>10. QED BY <1>3, <1>4, <1>5, <1>6, <1>7, <1>8, <1>9 DEF Settle

\* A refund or a reclaim goes on to recover and to collect, or ends.  Only the end of a
\* collection, and a reclaim that inherits nothing, are successes.
LEMMA RecoverMoves ==
  ASSUME Types, Recover
  PROVE  /\ worker.at \in {"refund", "reclaim", "recover", "collect"}
         /\ worker' \in WorkerType /\ worker'.run = worker.run
         /\ \/ worker'.at \in {"recover", "collect"} /\ UNCHANGED runs
            \/ /\ worker'.at = "callback"
               /\ \E status \in {"failed", "succeeded"} :
                    /\ runs' = [runs EXCEPT ![worker.run].status = status]
                    /\ status = "succeeded" => worker.at \in {"reclaim", "collect"}
<1> USE DEF Types, WorkerType
<1>1. ASSUME NEW status \in {"failed", "succeeded"}, Stops(status)
      PROVE  /\ worker' \in WorkerType /\ worker'.run = worker.run /\ worker'.at = "callback"
             /\ runs' = [runs EXCEPT ![worker.run].status = status]
  BY <1>1 DEF Stops, Ended
<1>2. CASE _run_refund
  BY <1>2 DEF _run_refund, Recovers, open_deals
<1>3. CASE _run_reclaim
  <2>1. CASE \E status \in {"failed", "succeeded"} : Stops(status)
    BY <1>1, <1>3, <2>1 DEF _run_reclaim
  <2>2. CASE Recovers(all_open_deals')
    BY <1>3, <2>2 DEF _run_reclaim, Recovers, all_open_deals
  <2>3. QED BY <1>3, <2>1, <2>2 DEF _run_reclaim
<1>4. CASE _recover_deals
  <2>1. CASE Stops("failed") BY <1>1, <1>4, <2>1 DEF _recover_deals
  <2>2. CASE ~Stops("failed") BY <1>4, <2>2 DEF _recover_deals
  <2>3. QED BY <2>1, <2>2
<1>5. CASE _credits
  <2>1. CASE Stops("failed") BY <1>1, <1>5, <2>1 DEF _credits
  <2>2. CASE ~Stops("failed")
    <3>1. {role \in Roles : credit[role]} \in SUBSET Roles
      OBVIOUS
    <3>2. /\ worker.at = "recover" /\ UNCHANGED runs
          /\ worker' = [worker EXCEPT !.at = "collect", !.owed = {role \in Roles : credit[role]}]
      BY <1>5, <2>2 DEF _credits
    <3>3. QED BY <3>1, <3>2
  <2>3. QED BY <2>1, <2>2
<1>6. CASE _collect
  <2>1. CASE \E status \in {"failed", "succeeded"} : Stops(status)
    BY <1>1, <1>6, <2>1 DEF _collect
  <2>2. CASE ~\E status \in {"failed", "succeeded"} : Stops(status)
    BY <1>6, <2>2 DEF _collect
  <2>3. QED BY <2>1, <2>2
<1>7. QED BY <1>2, <1>3, <1>4, <1>5, <1>6 DEF Recover

\* Whatever the worker does for a run, it may only end that run.
LEMMA WorkerEnds ==
  ASSUME Types, Settle \/ Recover
  PROVE  /\ worker.at # "idle" /\ worker' \in WorkerType /\ worker'.run = worker.run
         /\ \/ UNCHANGED runs
            \/ \E status \in Endings : runs' = [runs EXCEPT ![worker.run].status = status]
<1>1. CASE Settle BY <1>1, SettleMoves DEF Settling
<1>2. CASE Recover BY <1>2, RecoverMoves DEF Endings
<1>3. QED BY <1>1, <1>2

LEMMA WorkerKeepsClaims ==
  ASSUME Claims, Settle \/ Recover
  PROVE  Claims'
<1> USE DEF Claims
<1>1. UNCHANGED <<sess, queue, call>>
  BY DEF Settle, Recover
<1>2. /\ worker.at # "idle" /\ worker' \in WorkerType /\ worker'.run = worker.run
      /\ worker.run \in RunIds /\ runs[worker.run].status \notin {"none", "queued"}
      /\ call[Worker].at = "idle"
  BY WorkerEnds DEF OneAtATime
<1>3. CASE UNCHANGED runs
  <2>1. Types' /\ Queued' BY <1>1, <1>2, <1>3 DEF Types, Queued
  <2>2. OneAtATime' BY <1>1, <1>2, <1>3 DEF OneAtATime
  <2>3. QED BY <1>1, <1>3, <2>1, <2>2, RunsMoveOn DEF Types, RunIds
<1>4. ASSUME NEW status \in Endings, runs' = [runs EXCEPT ![worker.run].status = status]
      PROVE  Claims'
  <2>1. runs' \in [RunIds -> RunType]
    BY <1>2, <1>4 DEF Types, RunType, Endings
  <2>2. \A r \in RunIds : /\ runs'[r].kind = runs[r].kind /\ runs'[r].session = runs[r].session
                          /\ runs'[r].status = IF r = worker.run THEN status ELSE runs[r].status
    BY <1>2, <1>4 DEF Types, RunType
  <2>3. Types' BY <1>1, <1>2, <2>1 DEF Types
  <2>4. \A i \in 1..Len(queue) : queue[i] \in RunIds BY DEF Types
  <2>5. Queued'
    <3>1. \A i \in 1..Len(queue) : runs'[queue[i]].status = "queued"
      BY <1>2, <2>2, <2>4 DEF Queued
    <3>2. \A r \in Runs : runs'[r].kind = "none" => runs'[r].status = "none"
      BY <1>2, <2>2 DEF Queued, RunIds
    <3>3. QED BY <1>1, <3>1, <3>2 DEF Queued
  <2>6. OneAtATime' BY <1>1, <1>2, <2>2 DEF OneAtATime, Endings
  <2>7. \A r \in Runs : /\ runs'[r].kind = runs[r].kind /\ runs'[r].session = runs[r].session
                        /\ runs[r].status \in Endings => runs'[r].status \in Endings
                        /\ runs'[r].status \in Unfinished => runs[r].status \in Unfinished
    BY <2>2 DEF RunIds, Endings, Unfinished
  <2>8. QED BY <1>1, <2>3, <2>5, <2>6, <2>7, RunsMoveOn DEF Types
<1>5. QED BY <1>3, <1>4, WorkerEnds

\* The registry opens and evicts sessions, and leaves what they owe alone.
LEMMA RegistryLeaves ==
  ASSUME Types, Registry
  PROVE  /\ sess' \in [Sessions -> SessionType]
         /\ \A s \in Sessions : /\ sess'[s].finishing = sess[s].finishing
                                /\ sess'[s].refunded = sess[s].refunded
                                /\ sess'[s].refund_run_id = sess[s].refund_run_id
<1>1. PICK s \in Sessions : create(s) \/ copy_fails(s) \/ copied(s)
  BY DEF Registry
<1>2. CASE create(s) BY <1>2 DEF create, Types, SessionType
<1>3. CASE copy_fails(s) BY <1>3 DEF copy_fails, Types, SessionType
<1>4. CASE copied(s)
  <2>1. /\ sess' = [o \in Sessions |-> sess'[o]]
        /\ \A o \in Sessions : \/ sess'[o] = sess[o]
                               \/ sess'[o] = [sess[o] EXCEPT !.at = "gone"]
                               \/ sess'[o] = [sess[o] EXCEPT !.at = "open"]
    BY <1>4, Zenon DEF copied
  <2>2. \A o \in Sessions : /\ sess'[o] \in SessionType
                            /\ sess'[o].finishing = sess[o].finishing
                            /\ sess'[o].refunded = sess[o].refunded
                            /\ sess'[o].refund_run_id = sess[o].refund_run_id
    <3>1. ASSUME NEW o \in Sessions PROVE sess[o] \in SessionType BY DEF Types
    <3>2. QED BY <2>1, <3>1 DEF SessionType
  <2>3. sess' \in [Sessions -> SessionType] BY <2>1, <2>2
  <2>4. QED BY <2>2, <2>3
<1>5. QED BY <1>1, <1>2, <1>3, <1>4

LEMMA RegistryKeepsClaims ==
  ASSUME Claims, Registry
  PROVE  Claims'
<1> USE DEF Claims
<1>1. UNCHANGED <<runs, queue, worker, call>>
  BY DEF Registry, create, copy_fails, copied
<1>2. Types'
  <2>1. sess' \in [Sessions -> SessionType] BY RegistryLeaves
  <2>2. QED BY <1>1, <2>1 DEF Types
<1>3. Queued' /\ OneAtATime' BY <1>1 DEF Queued, OneAtATime
<1>4. QED BY <1>1, <1>2, <1>3, RegistryLeaves, RunsMoveOn DEF Types

-----------------------------------------------------------------------------
\* The worker takes the next run, which is queued and is none of those that have ended.
LEMMA WorkKeepsClaims ==
  ASSUME Claims, _work
  PROVE  Claims'
<1> USE DEF Claims
<1> DEFINE r == Head(queue)
<1>1. /\ queue # <<>> /\ r \in RunIds /\ runs[r].status = "queued" /\ call[Worker].at = "idle"
      /\ UNCHANGED <<sess, call>> /\ queue' = Tail(queue)
  <2>1. /\ queue # <<>> /\ call[Worker].at = "idle"
        /\ UNCHANGED <<sess, call>> /\ queue' = Tail(queue)
    BY DEF _work, NoCall
  <2>2. queue \in Seq(RunIds) BY DEF Types
  <2>3. 1 \in 1..Len(queue) /\ r = queue[1] /\ r \in RunIds
    BY <2>1, <2>2
  <2>4. runs[r].status = "queued" BY <2>3 DEF Queued
  <2>5. QED BY <2>1, <2>3, <2>4
<1>2. PICK status \in {"running", "failed"}, at \in {"callback", runs[r].kind} :
        /\ worker' = [Idle EXCEPT !.run = r, !.at = at]
        /\ runs' = [runs EXCEPT ![r].status = status]
  BY DEF _work
<1>3. runs' \in [RunIds -> RunType]
  BY <1>1, <1>2 DEF Types, RunType
<1>4. \A q \in RunIds : /\ runs'[q].kind = runs[q].kind /\ runs'[q].session = runs[q].session
                        /\ runs'[q].status = IF q = r THEN status ELSE runs[q].status
  BY <1>1, <1>2 DEF Types, RunType
<1>5. worker' \in WorkerType /\ worker'.run = r
  <2>1. runs[r].kind \in {"none", "lost", "reclaim", "settlement", "refund"}
    BY <1>1 DEF Types, RunType
  <2>2. QED BY <1>1, <1>2, <2>1 DEF WorkerType, Idle
<1>6. /\ queue' \in Seq(RunIds) /\ Len(queue') = Len(queue) - 1
      /\ \A i \in 1..Len(queue') : i + 1 \in 1..Len(queue) /\ queue'[i] = queue[i + 1]
      /\ r = queue[1] /\ 1 \in 1..Len(queue)
  BY <1>1 DEF Types
<1>7. Types' BY <1>1, <1>3, <1>5, <1>6 DEF Types
<1>8. Queued'
  <2>1. \A i \in 1..Len(queue') : queue'[i] # r /\ queue'[i] \in RunIds
    BY <1>6 DEF Queued, Types
  <2>2. \A i \in 1..Len(queue') : runs'[queue'[i]].status = "queued"
    BY <1>4, <1>6, <2>1 DEF Queued
  <2>3. \A i, j \in 1..Len(queue') : i # j => queue'[i] # queue'[j]
    BY <1>6 DEF Queued
  <2>4. \A q \in Runs : runs'[q].kind = "none" => runs'[q].status = "none"
    BY <1>1, <1>4 DEF Queued, RunIds
  <2>5. QED BY <2>2, <2>3, <2>4 DEF Queued
<1>9. OneAtATime' BY <1>1, <1>4, <1>5 DEF OneAtATime
<1>10. \A q \in Runs : /\ runs'[q].kind = runs[q].kind /\ runs'[q].session = runs[q].session
                       /\ runs[q].status \in Endings => runs'[q].status \in Endings
                       /\ runs'[q].status \in Unfinished => runs[q].status \in Unfinished
  BY <1>1, <1>4 DEF RunIds, Endings, Unfinished
<1>11. QED BY <1>1, <1>7, <1>8, <1>9, <1>10, RunsMoveOn DEF Types

\* What a call does without touching a run or a session: it is never at "submit", and what it
\* observed it read from the runs.
LEMMA CallKeepsClaims ==
  ASSUME Claims, UNCHANGED <<sess, runs, queue>>, worker' \in WorkerType,
         worker' = worker \/ worker'.at = "idle",
         NEW t \in All, worker'.at # "idle" => t # Worker,
         call[t].at # "submit",
         NEW new \in CallType, call' = [call EXCEPT ![t] = new],
         new.at # "submit",
         new.at = "settle" => new.observed \in Runs /\ runs[new.observed].status \in Endings
  PROVE  Claims'
<1> USE DEF Claims
<1>1. /\ call' \in [All -> CallType]
      /\ \A u \in All : call'[u] = IF u = t THEN new ELSE call[u]
  BY DEF Types
<1>2. \A u \in All, s \in Sessions : Submitting(u, s)' <=> Submitting(u, s)
  BY <1>1 DEF Submitting
<1>3. \A u \in All : call'[u].at = "settle" =>
        call'[u].observed \in Runs /\ runs[call'[u].observed].status \in Endings
  BY <1>1 DEF ObservedEnded
<1>4. Types' BY <1>1 DEF Types
<1>5. Queued' BY DEF Queued
<1>6. OneAtATime' BY <1>1 DEF OneAtATime, All
<1>7. runs' = runs /\ sess' = sess
  OBVIOUS
<1>8. QED BY <1>2, <1>3, <1>4, <1>5, <1>6, <1>7, ClaimsCarryOver

LEMMA CallbackKeepsClaims ==
  ASSUME Claims, _run_finished
  PROVE  Claims'
<1> USE DEF Claims
<1>1. /\ UNCHANGED <<sess, runs, queue>> /\ worker' = Idle /\ Worker \in All
      /\ worker.run \in RunIds /\ call[Worker].at = "idle"
  BY DEF _run_finished, OneAtATime, All
<1>2. worker' \in WorkerType /\ worker'.at = "idle"
  BY <1>1 DEF Idle, WorkerType
<1>3. CASE UNCHANGED call
  <2>1. call' = [call EXCEPT ![Worker] = call[Worker]] /\ call[Worker] \in CallType
    BY <1>1, <1>3 DEF Types
  <2>2. QED BY <1>1, <1>2, <2>1, CallKeepsClaims
<1>4. CASE ~UNCHANGED call
  <2> DEFINE run == runs[worker.run]
             new == [NoCall EXCEPT !.at = "reconcile", !.session = run.session, !.then = "claim"]
  <2>1. call' = [call EXCEPT ![Worker] = new]
    BY <1>4 DEF _run_finished, Refunds
  <2>2. run.session \in Sessions \cup {Nobody}
    BY <1>1 DEF Types, RunType
  <2>3. new \in CallType /\ new.at = "reconcile"
    BY <2>2 DEF NoCall, CallType
  <2> HIDE DEF new
  <2>4. QED BY <1>1, <1>2, <2>1, <2>3, CallKeepsClaims
<1>5. QED BY <1>3, <1>4

-----------------------------------------------------------------------------
\* The request threads.  While the worker is busy, the callback's thread is not one of them.
LEMMA BusyWorker ==
  ASSUME Claims, NEW t \in All, call[t].at # "idle"
  PROVE  worker \in WorkerType /\ (worker.at # "idle" => t # Worker)
BY DEF Claims, OneAtATime, Types

\* A submitted run is queued behind all others, and was not there before.
LEMMA SubmitQueues ==
  ASSUME Types, Queued, NEW r \in Runs, NEW s \in Sessions, NEW kind \in {"settlement", "refund"},
         submit(r, s, kind)
  PROVE  /\ runs' \in [RunIds -> RunType] /\ queue' \in Seq(RunIds) /\ Queued'
         /\ runs[r].kind = "none" /\ runs[r].status = "none"
         /\ \A q \in RunIds : runs'[q] =
              IF q = r THEN [session |-> s, kind |-> kind, status |-> "queued"] ELSE runs[q]
<1>1. /\ runs[r].kind = "none" /\ runs[r].status = "none"
      /\ queue' = Append(queue, r)
      /\ runs' = [runs EXCEPT ![r] = [session |-> s, kind |-> kind, status |-> "queued"]]
  BY DEF submit, NextRun, Queued
<1>2. \A q \in RunIds : runs'[q] =
        IF q = r THEN [session |-> s, kind |-> kind, status |-> "queued"] ELSE runs[q]
  BY <1>1 DEF Types
<1>3. runs' \in [RunIds -> RunType]
  BY <1>1 DEF Types, RunType, RunIds
<1>4. /\ queue' \in Seq(RunIds) /\ Len(queue') = Len(queue) + 1 /\ Len(queue) \in Nat
      /\ \A i \in 1..Len(queue') : queue'[i] = IF i = Len(queue) + 1 THEN r ELSE queue[i]
  BY <1>1 DEF Types, RunIds
<1>5. \A i \in 1..Len(queue) : queue[i] # r /\ queue[i] \in RunIds
  BY <1>1 DEF Queued, Types
<1>6. \A i \in 1..Len(queue') : runs'[queue'[i]].status = "queued"
  BY <1>2, <1>4, <1>5 DEF Queued, RunIds
<1>7. \A i, j \in 1..Len(queue') : i # j => queue'[i] # queue'[j]
  BY <1>4, <1>5 DEF Queued
<1>8. ASSUME NEW q \in Runs, runs'[q].kind = "none" PROVE runs'[q].status = "none"
  <2>0. r \in RunIds BY DEF RunIds
  <2>1. runs'[r] = [session |-> s, kind |-> kind, status |-> "queued"] /\ kind # "none"
    BY <1>2, <2>0
  <2>2. q # r BY <1>8, <2>1
  <2>3. runs'[q] = runs[q] BY <1>2, <2>2 DEF RunIds
  <2>4. QED BY <1>8, <2>3 DEF Queued
<1>9. QED BY <1>1, <1>2, <1>3, <1>4, <1>6, <1>7, <1>8 DEF Queued

LEMMA RequestsKeepClaims ==
  ASSUME Claims, NEW t \in All, NEW s \in Sessions,
         execute(t, s) \/ finish(t, s) \/ run_status(t, s)
  PROVE  Claims'
<1>1. PICK at \in {"admit", "reconcile"}, then \in {"idle", "claim"} : Requests(t, s, at, then)
  BY DEF execute, finish, run_status
<1> DEFINE new == [NoCall EXCEPT !.at = at, !.session = s, !.then = then]
<1>2. /\ UNCHANGED <<sess, runs, queue, worker>> /\ t # Worker
      /\ call[t] = NoCall /\ call' = [call EXCEPT ![t] = new]
  BY <1>1 DEF Requests
<1>3. new \in CallType /\ new.at \in {"admit", "reconcile"}
  BY <1>2 DEF NoCall, CallType
<1>4. call[t].at = "idle" /\ worker \in WorkerType
  BY <1>2 DEF NoCall, Claims, Types
<1> HIDE DEF new
<1>5. QED BY <1>2, <1>3, <1>4, CallKeepsClaims

LEMMA ReconcileKeepsClaims ==
  ASSUME Claims, NEW t \in All, NEW s \in Sessions, _reconcile_refund(t, s)
  PROVE  Claims'
<1> DEFINE observed == sess[s].refund_run_id
           ended == /\ observed # Nobody /\ observed \notin forgotten /\ ~sess[s].refunded
                    /\ runs[observed].status \in {"succeeded", "failed"}
           new == IF ended THEN [call[t] EXCEPT !.at = "settle", !.observed = observed,
                                   !.succeeded = runs[observed].status = "succeeded"]
                  ELSE IF call[t].then = "claim" THEN [call[t] EXCEPT !.at = "claim"] ELSE NoCall
<1>1. /\ UNCHANGED <<sess, runs, queue, worker>> /\ call[t].at = "reconcile"
      /\ call' = [call EXCEPT ![t] = new]
  BY DEF _reconcile_refund
<1>2. call[t] \in CallType /\ observed \in Runs \cup {Nobody}
  BY DEF Claims, Types, SessionType
<1>3. /\ new \in CallType /\ new.at # "submit"
      /\ new.at = "settle" => new.observed \in Runs /\ runs[new.observed].status \in Endings
  <2>1. CASE ended
    <3>1. observed \in Runs /\ runs[observed].status \in Endings
      BY <1>2, <2>1 DEF Endings
    <3>2. new = [call[t] EXCEPT !.at = "settle", !.observed = observed,
                   !.succeeded = runs[observed].status = "succeeded"]
      BY <2>1
    <3> HIDE DEF observed, new
    <3>3. QED BY <1>2, <3>1, <3>2 DEF CallType
  <2>2. CASE ~ended /\ call[t].then = "claim"
    <3>1. new = [call[t] EXCEPT !.at = "claim"] BY <2>2
    <3> HIDE DEF new
    <3>2. QED BY <1>2, <3>1 DEF CallType
  <2>3. CASE ~ended /\ call[t].then # "claim"
    <3>1. new = NoCall BY <2>3
    <3> HIDE DEF new
    <3>2. QED BY <3>1 DEF NoCall, CallType
  <2>4. QED BY <2>1, <2>2, <2>3
<1> HIDE DEF new
<1>4. QED BY <1>1, <1>3, BusyWorker, CallKeepsClaims

LEMMA AdmitKeepsClaims ==
  ASSUME Claims, NEW t \in All, NEW s \in Sessions, admit(t, s)
  PROVE  Claims'
<1> USE DEF Claims
<1>1. /\ call[t].at = "admit" /\ call' = [call EXCEPT ![t] = NoCall] /\ UNCHANGED worker
      /\ NoCall \in CallType /\ NoCall.at = "idle"
  BY DEF admit, Returns, CallType, NoCall
<1>2. CASE UNCHANGED <<sess, runs, queue>>
  BY <1>1, <1>2, BusyWorker, CallKeepsClaims
<1>3. ASSUME NEW r \in Runs, submit(r, s, "settlement"), sess' = [sess EXCEPT ![s].runs = @ + 1]
      PROVE  Claims'
  <2>1. /\ runs' \in [RunIds -> RunType] /\ queue' \in Seq(RunIds) /\ Queued'
        /\ runs[r].kind = "none" /\ runs[r].status = "none"
        /\ \A q \in RunIds : runs'[q] =
             IF q = r THEN [session |-> s, kind |-> "settlement", status |-> "queued"] ELSE runs[q]
    BY <1>3, SubmitQueues
  <2>2. /\ sess' \in [Sessions -> SessionType]
        /\ \A o \in Sessions : /\ sess'[o].finishing = sess[o].finishing
                               /\ sess'[o].refunded = sess[o].refunded
                               /\ sess'[o].refund_run_id = sess[o].refund_run_id
    <3>1. sess[s] \in SessionType BY DEF Types
    <3>2. [sess[s] EXCEPT !.runs = @ + 1] \in SessionType
      BY <3>1 DEF SessionType
    <3>3. QED BY <1>3, <3>1, <3>2 DEF Types, SessionType
  <2>3. \A u \in All : call'[u] = IF u = t THEN NoCall ELSE call[u]
    BY <1>1 DEF Types
  <2>4. Types' BY <1>1, <2>1, <2>2 DEF Types
  <2>5. OneAtATime' BY <1>1, <2>1, <2>3, BusyWorker DEF OneAtATime, All
  <2>6. \A u \in All, o \in Sessions : Submitting(u, o)' <=> Submitting(u, o)
    BY <1>1, <2>3 DEF Submitting
  <2>7. \A u \in All : call'[u].at = "settle" =>
          call'[u].observed \in Runs /\ runs[call'[u].observed].status \in Endings
    BY <1>1, <2>3 DEF ObservedEnded
  <2>8. \A q \in Runs :
          /\ runs[q].kind # "none" => /\ runs'[q].kind = runs[q].kind
                                      /\ runs'[q].session = runs[q].session
          /\ runs[q].kind = "none" => runs'[q].kind # "refund"
          /\ runs[q].status \in Endings => runs'[q].status \in Endings
          /\ runs'[q].kind = "refund" /\ runs'[q].status \in Unfinished =>
               runs[q].status \in Unfinished
    <3>0. r \in RunIds BY DEF RunIds
    <3>1. runs'[r] = [session |-> s, kind |-> "settlement", status |-> "queued"] BY <2>1, <3>0
    <3>2. \A q \in Runs \ {r} : runs'[q] = runs[q] BY <2>1 DEF RunIds
    <3>3. \A q \in Runs \ {r} : runs[q].kind = "none" => runs[q].kind # "refund" OBVIOUS
    <3>4. QED BY <2>1, <3>1, <3>2, <3>3 DEF Endings
  <2>9. QED BY <2>1, <2>2, <2>4, <2>5, <2>6, <2>7, <2>8, ClaimsCarryOver
<1>4. QED BY <1>2, <1>3 DEF admit

\* The refund the session names has ended, so nothing unfinished is left behind by letting go.
LEMMA SettleRefundKeepsClaims ==
  ASSUME Claims, NEW t \in All, NEW s \in Sessions, settle_refund(t, s)
  PROVE  Claims'
<1> USE DEF Claims
<1> DEFINE new == IF call[t].then = "claim" THEN [call[t] EXCEPT !.at = "claim"] ELSE NoCall
<1>1. /\ call[t].at = "settle" /\ call' = [call EXCEPT ![t] = new]
      /\ UNCHANGED <<runs, queue, worker>>
  BY DEF settle_refund
<1>2. new \in CallType /\ new.at \in {"idle", "claim"}
  <2>1. call[t] \in CallType BY DEF Types
  <2>2. QED BY <2>1 DEF CallType, NoCall
<1> HIDE DEF new
<1>3. CASE UNCHANGED sess
  BY <1>1, <1>2, <1>3, BusyWorker, CallKeepsClaims
<1>4. CASE ~UNCHANGED sess
  <2>1. /\ sess[s].refund_run_id = call[t].observed
        /\ sess' = [sess EXCEPT ![s] = Settled(@, call[t].succeeded)]
    BY <1>4 DEF settle_refund
  <2>2. /\ sess[s].refund_run_id \in Runs
        /\ runs[sess[s].refund_run_id].status \in Endings
    BY <1>1, <2>1 DEF ObservedEnded
  <2>3. /\ sess' \in [Sessions -> SessionType]
        /\ \A o \in Sessions \ {s} : sess'[o] = sess[o]
        /\ ~sess'[s].finishing /\ (sess'[s].refunded \/ sess'[s].refund_run_id = Nobody)
    BY <2>1 DEF Types, SessionType, Settled
  <2>4. /\ call' \in [All -> CallType]
        /\ \A u \in All : call'[u] = IF u = t THEN new ELSE call[u]
    BY <1>1, <1>2 DEF Types
  <2>5. Types' /\ Queued' BY <1>1, <2>3, <2>4 DEF Types, Queued
  <2>6. OneAtATime' BY <1>1, <2>4, BusyWorker DEF OneAtATime, All
  <2>7. \A u \in All, o \in Sessions : Submitting(u, o)' <=> Submitting(u, o)
    BY <1>1, <1>2, <2>4 DEF Submitting
  <2>8. \A u \in All : ~Submitting(u, s)
    BY <2>2 DEF ClaimHeld
  <2>9. \A o \in Sessions : RefundsOf(o)' = RefundsOf(o)
    BY <1>1 DEF RefundsOf
  <2>10. \A r \in RefundsOf(s) : runs[r].status \notin Unfinished
    BY <2>2 DEF RefundNamed, RefundsOf, Endings, Unfinished
  <2>11. RefundNamed' BY <1>1, <2>3, <2>9, <2>10 DEF RefundNamed
  <2>12. ClaimHeld' BY <2>3, <2>7, <2>8 DEF ClaimHeld
  <2>13. Unclaimed' BY <2>3 DEF Unclaimed
  <2>14. ObservedEnded' BY <1>1, <1>2, <2>4 DEF ObservedEnded
  <2>15. ClaimIsOwned' BY <2>3, <2>7, <2>9 DEF ClaimIsOwned, Submitting, All
  <2>16. QED BY <2>5, <2>6, <2>11, <2>12, <2>13, <2>14, <2>15
<1>5. QED BY <1>3, <1>4

\* Who finds no claim takes it, and then holds it alone: no other thread could be queueing.
LEMMA ClaimKeepsClaims ==
  ASSUME Claims, NEW t \in All, NEW s \in Sessions, begin_finishing(t, s)
  PROVE  Claims'
<1> USE DEF Claims
<1>1. /\ call[t].at = "claim" /\ call[t].session = s /\ UNCHANGED <<runs, queue, worker>>
  BY DEF begin_finishing
<1>2. CASE Returns(t) /\ UNCHANGED sess
  <2>1. NoCall \in CallType /\ NoCall.at = "idle" BY DEF NoCall, CallType
  <2>2. QED BY <1>1, <1>2, <2>1, BusyWorker, CallKeepsClaims DEF Returns
<1>3. CASE ~(Returns(t) /\ UNCHANGED sess)
  <2>1. /\ ~sess[s].finishing /\ ~sess[s].refunded
        /\ sess' = [sess EXCEPT ![s].finishing = TRUE]
        /\ call' = [call EXCEPT ![t].at = "submit"]
    BY <1>3 DEF begin_finishing
  <2>2. /\ sess' \in [Sessions -> SessionType]
        /\ \A o \in Sessions \ {s} : sess'[o] = sess[o]
        /\ sess'[s].finishing /\ sess'[s].refund_run_id = Nobody
    BY <2>1 DEF Types, SessionType, Unclaimed
  <2>3. /\ call' \in [All -> CallType]
        /\ \A u \in All \ {t} : call'[u] = call[u]
        /\ call'[t].at = "submit" /\ call'[t].session = s
    BY <1>1, <2>1 DEF Types, CallType
  <2>4. Types' /\ Queued' BY <1>1, <2>2, <2>3 DEF Types, Queued
  <2>5. OneAtATime' BY <1>1, <2>3, BusyWorker DEF OneAtATime, All
  <2>6. \A o \in Sessions : RefundsOf(o)' = RefundsOf(o)
    BY <1>1 DEF RefundsOf
  <2>7. RefundNamed' BY <1>1, <2>1, <2>2, <2>6 DEF RefundNamed
  <2>8. \A u \in All : Submitting(u, s)' <=> u = t
    BY <2>1, <2>3 DEF Submitting, ClaimHeld
  <2>9. \A u \in All, o \in Sessions \ {s} : Submitting(u, o)' <=> Submitting(u, o)
    BY <1>1, <2>3 DEF Submitting
  <2>10. ClaimHeld' BY <2>2, <2>8, <2>9 DEF ClaimHeld
  <2>11. Unclaimed' BY <2>2 DEF Unclaimed
  <2>12. ObservedEnded' BY <1>1, <2>3 DEF ObservedEnded
  <2>13. ClaimIsOwned' BY <2>2, <2>6, <2>8, <2>9 DEF ClaimIsOwned, Submitting, All
  <2>14. QED BY <2>4, <2>5, <2>7, <2>10, <2>11, <2>12, <2>13
<1>4. QED BY <1>2, <1>3

\* The claim is taken over by the refund it was made for, or given back.
LEMMA SubmitRefundKeepsClaims ==
  ASSUME Claims, NEW t \in All, NEW s \in Sessions, submit_refund(t, s)
  PROVE  Claims'
<1> USE DEF Claims
<1>1. /\ call[t].at = "submit" /\ call[t].session = s /\ UNCHANGED worker
      /\ call' = [call EXCEPT ![t] = NoCall] /\ NoCall \in CallType /\ NoCall.at = "idle"
  BY DEF submit_refund, Returns, NoCall, CallType
<1>2. /\ call' \in [All -> CallType]
      /\ \A u \in All : call'[u] = IF u = t THEN NoCall ELSE call[u]
  BY <1>1 DEF Types
<1>3. /\ sess[s].finishing /\ sess[s].refund_run_id = Nobody
      /\ \A u \in All : Submitting(u, s) => u = t
  BY <1>1 DEF ClaimHeld, Submitting
<1>4. /\ \A u \in All : ~Submitting(u, s)'
      /\ \A u \in All, o \in Sessions \ {s} : Submitting(u, o)' <=> Submitting(u, o)
  BY <1>1, <1>2, <1>3 DEF Submitting
<1>5. \A r \in RefundsOf(s) : runs[r].status \notin Unfinished
  BY <1>3 DEF RefundNamed, RefundsOf
<1>6. ASSUME NEW r \in Runs, submit(r, s, "refund"), sess' = [sess EXCEPT ![s].refund_run_id = r]
      PROVE  Claims'
  <2>1. /\ runs' \in [RunIds -> RunType] /\ queue' \in Seq(RunIds) /\ Queued'
        /\ runs[r].kind = "none" /\ runs[r].status = "none"
        /\ \A q \in RunIds : runs'[q] =
             IF q = r THEN [session |-> s, kind |-> "refund", status |-> "queued"] ELSE runs[q]
    BY <1>6, SubmitQueues
  <2>2. /\ sess' \in [Sessions -> SessionType]
        /\ \A o \in Sessions \ {s} : sess'[o] = sess[o]
        /\ sess'[s].finishing /\ sess'[s].refund_run_id = r
    <3>1. sess[s] \in SessionType /\ sess' = [sess EXCEPT ![s].refund_run_id = r]
      BY <1>6 DEF Types
    <3>2. [sess[s] EXCEPT !.refund_run_id = r] \in SessionType BY <3>1 DEF SessionType
    <3>3. QED BY <1>3, <3>1, <3>2 DEF Types, SessionType
  <2>3. Types' BY <1>1, <1>2, <2>1, <2>2 DEF Types
  <2>4. OneAtATime' BY <1>1, <1>2, <2>1, BusyWorker DEF OneAtATime, All
  <2>5. r \in RunIds /\ \A q \in Runs : q \in RunIds
    BY DEF RunIds
  <2>6. runs'[r] = [session |-> s, kind |-> "refund", status |-> "queued"]
    BY <2>1, <2>5
  <2>7. \A q \in Runs \ {r} : runs'[q] = runs[q]
    BY <2>1, <2>5
  <2>8. r \in RefundsOf(s)' BY <2>6 DEF RefundsOf
  <2>9. \A q \in RefundsOf(s)' : q = r \/ q \in RefundsOf(s)
    BY <2>7 DEF RefundsOf
  <2>10. \A o \in Sessions \ {s} : RefundsOf(o)' = RefundsOf(o)
    <3>1. ASSUME NEW o \in Sessions \ {s}, NEW q \in Runs
          PROVE  q \in RefundsOf(o)' <=> q \in RefundsOf(o)
      <4>1. CASE q = r BY <2>1, <2>6, <4>1 DEF RefundsOf
      <4>2. CASE q # r BY <2>7, <4>2 DEF RefundsOf
      <4>3. QED BY <4>1, <4>2
    <3>2. QED BY <3>1 DEF RefundsOf
  <2>11. RefundNamed'
    <3>1. SUFFICES ASSUME NEW o \in Sessions, NEW q \in Runs, q \in RefundsOf(o)',
                          runs'[q].status \in Unfinished
                   PROVE  sess'[o].finishing /\ sess'[o].refund_run_id = q
      BY DEF RefundNamed
    <3>2. CASE o = s
      <4>1. q = r \/ (q # r /\ q \in RefundsOf(s)) BY <2>9, <3>1, <3>2
      <4>2. q = r BY <1>5, <2>7, <3>1, <4>1
      <4>3. QED BY <2>2, <3>2, <4>2
    <3>3. CASE o # s
      <4>1. q \in RefundsOf(o) BY <2>10, <3>1, <3>3
      <4>2. q # r BY <2>1, <4>1 DEF RefundsOf
      <4>3. QED BY <2>2, <2>7, <3>1, <3>3, <4>1, <4>2 DEF RefundNamed
    <3>4. QED BY <3>2, <3>3
  <2>12. ClaimHeld' BY <1>4, <2>2 DEF ClaimHeld
  <2>13. Unclaimed' BY <2>2 DEF Unclaimed
  <2>14. ObservedEnded'
    <3>1. SUFFICES ASSUME NEW u \in All, call'[u].at = "settle"
                   PROVE  /\ call'[u].observed \in Runs
                          /\ runs'[call'[u].observed].status \in Endings
      BY DEF ObservedEnded
    <3>2. /\ call'[u] = call[u] /\ call[u].observed \in Runs
          /\ runs[call[u].observed].status \in Endings
      BY <1>1, <1>2, <3>1 DEF ObservedEnded
    <3>3. call[u].observed # r BY <2>1, <3>2 DEF Endings
    <3>4. QED BY <2>7, <3>2, <3>3
  <2>15. ClaimIsOwned'
    BY <1>4, <2>2, <2>8, <2>10 DEF ClaimIsOwned, Submitting, All
  <2>16. QED BY <2>1, <2>3, <2>4, <2>11, <2>12, <2>13, <2>14, <2>15
<1>7. ASSUME sess' = [sess EXCEPT ![s] = Settled(@, FALSE)], UNCHANGED <<runs, queue>>
      PROVE  Claims'
  <2>1. /\ sess' \in [Sessions -> SessionType]
        /\ \A o \in Sessions \ {s} : sess'[o] = sess[o]
        /\ ~sess'[s].finishing /\ sess'[s].refund_run_id = Nobody
    BY <1>7 DEF Types, SessionType, Settled
  <2>2. runs' = runs /\ queue' = queue BY <1>7
  <2>3. Types' /\ Queued'
    <3>1. Types' BY <1>1, <1>2, <2>1, <2>2 DEF Types
    <3>2. Queued' BY <2>2 DEF Queued
    <3>3. QED BY <3>1, <3>2
  <2>11. OneAtATime' BY <1>1, <1>2, <2>2, BusyWorker DEF OneAtATime, All
  <2>4. \A o \in Sessions : RefundsOf(o)' = RefundsOf(o)
    BY <1>7 DEF RefundsOf
  <2>5. RefundNamed'
    <3>1. SUFFICES ASSUME NEW o \in Sessions, NEW q \in Runs, q \in RefundsOf(o),
                          runs[q].status \in Unfinished
                   PROVE  sess'[o].finishing /\ sess'[o].refund_run_id = q
      BY <2>2, <2>4 DEF RefundNamed
    <3>2. o # s BY <1>5, <3>1
    <3>3. QED BY <2>1, <3>1, <3>2 DEF RefundNamed
  <2>6. ClaimHeld' BY <1>4, <2>1 DEF ClaimHeld
  <2>7. Unclaimed' BY <2>1 DEF Unclaimed
  <2>8. ObservedEnded' BY <1>1, <1>2, <1>7 DEF ObservedEnded
  <2>9. ClaimIsOwned' BY <1>4, <2>1, <2>4 DEF ClaimIsOwned, Submitting, All
  <2>10. QED BY <2>3, <2>5, <2>6, <2>7, <2>8, <2>9, <2>11
<1>8. QED BY <1>6, <1>7 DEF submit_refund

-----------------------------------------------------------------------------
\* A process starts with no claim, whatever the one before it was doing.
NothingYet ==
  /\ FreshProcess
  /\ sess \in [Sessions -> SessionType]
  /\ runs \in [RunIds -> RunType]
  /\ runs[Reclaim] = ReclaimQueued
  /\ \A s \in Sessions : ~sess[s].finishing /\ sess[s].refund_run_id = Nobody
  /\ \A r \in Runs : runs[r].kind \in {"none", "lost"} /\ runs[r].status = "none"

LEMMA NothingClaimed == NothingYet => Claims
<1> SUFFICES ASSUME NothingYet PROVE Claims OBVIOUS
<1> USE DEF NothingYet
<1>1. /\ queue = <<Reclaim>> /\ worker = Idle /\ call = [t \in All |-> NoCall]
  BY DEF FreshProcess, All
<1>2. Types
  <2>1. queue \in Seq(RunIds) BY <1>1 DEF RunIds
  <2>2. worker \in WorkerType BY <1>1 DEF Idle, WorkerType
  <2>3. NoCall \in CallType BY DEF NoCall, CallType
  <2>4. QED BY <1>1, <2>1, <2>2, <2>3 DEF Types
<1>3. Queued BY <1>1 DEF Queued, ReclaimQueued
<1>4. OneAtATime BY <1>1 DEF OneAtATime, Idle
<1>5. \A t \in All : call[t].at = "idle" BY <1>1 DEF NoCall
<1>6. \A s \in Sessions : RefundsOf(s) = {} BY DEF RefundsOf
<1>7. RefundNamed BY <1>6 DEF RefundNamed
<1>8. ClaimHeld BY <1>5 DEF ClaimHeld, Submitting
<1>9. Unclaimed BY DEF Unclaimed
<1>10. ObservedEnded BY <1>5 DEF ObservedEnded
<1>11. ClaimIsOwned BY DEF ClaimIsOwned
<1>12. QED BY <1>2, <1>3, <1>4, <1>7, <1>8, <1>9, <1>10, <1>11 DEF Claims

LEMMA InitClaims == Init => Claims
<1> SUFFICES ASSUME Init PROVE Claims OBVIOUS
<1>1. sess \in [Sessions -> SessionType]
  BY DEF Init, Unborn, SessionType
<1>2. /\ runs \in [RunIds -> RunType] /\ runs[Reclaim] = ReclaimQueued
      /\ \A r \in Runs : runs[r] = NoRun
  BY DEF Init, NoRun, ReclaimQueued, RunType, RunIds, Reclaim
<1>3. \A s \in Sessions : ~sess[s].finishing /\ sess[s].refund_run_id = Nobody
  BY DEF Init, Unborn
<1>4. FreshProcess BY DEF Init
<1>5. QED BY <1>1, <1>2, <1>3, <1>4, NothingClaimed DEF NothingYet, NoRun

LEMMA RestartKeepsClaims ==
  ASSUME Claims, Restart
  PROVE  Claims'
<1>1. /\ sess' \in [Sessions -> SessionType]
      /\ \A s \in Sessions : ~sess'[s].finishing /\ sess'[s].refund_run_id = Nobody
  BY DEF Restart, Unborn, SessionType
<1>2. /\ runs' \in [RunIds -> RunType] /\ runs'[Reclaim] = ReclaimQueued
      /\ \A r \in Runs : runs'[r].kind \in {"none", "lost"} /\ runs'[r].status = "none"
  BY DEF Restart, NoRun, ReclaimQueued, RunType, RunIds, Reclaim
<1>3. FreshProcess'
  BY DEF Restart, FreshProcess
<1>4. NothingYet'
  BY <1>1, <1>2, <1>3 DEF NothingYet
<1>5. NothingYet' => Claims'
  BY NothingClaimed, PTL
<1>6. QED BY <1>4, <1>5

\* One step per action of Next.
LEMMA NextClaims == Claims /\ [Next]_vars => Claims'
<1> SUFFICES ASSUME Claims, [Next]_vars PROVE Claims' OBVIOUS
<1>1. CASE Registry BY <1>1, RegistryKeepsClaims
<1>2. ASSUME NEW t \in All, NEW s \in Sessions, Serve(t, s) PROVE Claims'
  <2>1. CASE execute(t, s) \/ finish(t, s) \/ run_status(t, s) BY <2>1, RequestsKeepClaims
  <2>2. CASE admit(t, s) BY <2>2, AdmitKeepsClaims
  <2>3. CASE _reconcile_refund(t, s) BY <2>3, ReconcileKeepsClaims
  <2>4. CASE settle_refund(t, s) BY <2>4, SettleRefundKeepsClaims
  <2>5. CASE begin_finishing(t, s) BY <2>5, ClaimKeepsClaims
  <2>6. CASE submit_refund(t, s) BY <2>6, SubmitRefundKeepsClaims
  <2>7. QED BY <1>2, <2>1, <2>2, <2>3, <2>4, <2>5, <2>6 DEF Serve, Proceeds
<1>3. CASE _work BY <1>3, WorkKeepsClaims
<1>4. CASE _run_finished BY <1>4, CallbackKeepsClaims
<1>5. CASE Settle \/ Recover BY <1>5, WorkerKeepsClaims
<1>6. CASE Restart BY <1>6, RestartKeepsClaims
<1>7. CASE Chain \/ UNCHANGED vars
  <2>1. UNCHANGED volatile BY <1>7 DEF Chain, vars
  <2>2. /\ Types' /\ Queued' /\ OneAtATime' /\ RefundNamed' /\ ClaimHeld' /\ Unclaimed'
        /\ ObservedEnded' /\ ClaimIsOwned'
    BY <2>1 DEF volatile, Claims, Types, Queued, OneAtATime, RefundNamed, RefundsOf, ClaimHeld,
                Submitting, Unclaimed, ObservedEnded, ClaimIsOwned
  <2>3. QED BY <2>2 DEF Claims
<1>8. QED BY <1>1, <1>2, <1>3, <1>4, <1>5, <1>6, <1>7 DEF Next, All

\* In every reachable state of the service the claims of all sessions are in order.
THEOREM ClaimsKept == Spec => []Claims
<1>1. Init => Claims BY InitClaims
<1>2. Claims /\ [Next]_vars => Claims' BY NextClaims
<1>3. QED BY <1>1, <1>2, PTL DEF Spec

\* Whatever presses of the button, polls and the worker's own refunds do between one critical
\* section and the next, at most one refund of a session is unfinished.
THEOREM RefundsApart == Spec => []OneRefundAtATime
<1>1. ASSUME Claims PROVE OneRefundAtATime
  <2> DEFINE unfinished(s) == {r \in RefundsOf(s) : runs[r].status \in Unfinished}
  <2>1. ASSUME NEW s \in Sessions PROVE Cardinality(unfinished(s)) <= 1
    <3>1. unfinished(s) \subseteq {sess[s].refund_run_id}
      BY <1>1 DEF Claims, RefundNamed, RefundsOf
    <3> HIDE DEF unfinished
    <3>2. unfinished(s) = {} \/ unfinished(s) = {sess[s].refund_run_id}
      BY <3>1
    <3>3. Cardinality({}) = 0 /\ Cardinality({sess[s].refund_run_id}) = 1
      BY FS_EmptySet, FS_Singleton
    <3>4. QED BY <3>2, <3>3
  <2>2. QED BY <2>1 DEF OneRefundAtATime
<1>2. Claims => OneRefundAtATime BY <1>1
<1>3. QED BY <1>2, ClaimsKept, PTL

\* A session that is finishing always has a refund to report, or a thread about to queue one.
THEOREM ClaimsOwned == Spec => []ClaimIsOwned
<1>1. Claims => ClaimIsOwned BY DEF Claims
<1>2. QED BY <1>1, ClaimsKept, PTL
=============================================================================
