---------------------------- MODULE HostedService ----------------------------
(***************************************************************************)
(* The hosted service of wrasse/service.py: a registry of visitors'        *)
(* sessions (sessions.py), one worker that performs queued runs one at a   *)
(* time (executor.py), and the request threads that admit, finish and      *)
(* poll.  Deposits holds what the service reads back after a restart;      *)
(* every variable declared here is lost in one.                            *)
(*                                                                         *)
(* A request thread runs between two critical sections of the registry's   *)
(* lock as one step, so what it read before may be stale when it uses it.  *)
(* A run is performed by command-line programs; a command that fails ends  *)
(* its run, whether or not the transaction it sent takes effect.  The      *)
(* programs die with the service that started them.                        *)
(***************************************************************************)
EXTENDS Deposits, Sequences

CONSTANTS
  Sessions,        \* identifiers the registry can mint
  Threads,         \* the server's request threads
  SESSION_LIMIT,
  RUNS_PER_SESSION,
  HISTORY,         \* how many runs the service remembers
  MaxRestarts,     \* bound: how often the service is restarted
  DiskCanFail      \* whether a refund's work directory can fail to be made

ASSUME RunsAssumption == Runs \subseteq Nat \ {0} /\ Nobody \notin Runs \cup Sessions
ASSUME LimitAssumption == SESSION_LIMIT \in Nat \ {0} /\ RUNS_PER_SESSION \in Nat \ {0}
ASSUME HistoryAssumption == HISTORY \in Nat \ {0}
ASSUME EnvironmentAssumption == MaxRestarts \in Nat /\ DiskCanFail \in BOOLEAN

VARIABLES
  sess,     \* the Session objects; "gone" once evicted, though a thread may still hold one
  order,    \* the registry's sessions, oldest first
  runs,     \* the runs of this process
  queue,    \* run ids waiting for the worker
  forgotten, \* finished runs of this process that are out of the history
  worker,   \* the run in the worker's hands, and how far it is
  closed,   \* the startup reclaim failed: no settlement is signed
  call,     \* what each request thread, and the worker's callback, is about to do
  restarts

volatile == <<sess, order, runs, queue, forgotten, worker, closed, call>>
vars == <<volatile, durable, restarts>>

Worker == "worker"
Reclaim == 0                   \* the id of the run every process starts with
Unfinished == {"queued", "running"}
NoRun == [session |-> Nobody, kind |-> "none", status |-> "none"]
Unborn == [at |-> "unborn", runs |-> 0, finishing |-> FALSE, refunded |-> FALSE,
           refund_run_id |-> Nobody]
Idle == [run |-> Nobody, at |-> "idle", deal_id |-> FALSE, todo |-> {}, owed |-> {}]
NoCall == [at |-> "idle", session |-> Nobody, then |-> "idle", observed |-> Nobody,
           succeeded |-> FALSE]

FreshProcess ==
  /\ order = <<>>
  /\ queue = <<Reclaim>>
  /\ forgotten = {}
  /\ worker = Idle
  /\ closed = FALSE
  /\ call = [t \in Threads \cup {Worker} |-> NoCall]

ReclaimQueued == [session |-> Nobody, kind |-> "reclaim", status |-> "queued"]

Init ==
  /\ DurableInit
  /\ FreshProcess
  /\ sess = [s \in Sessions |-> Unborn]
  /\ runs = [r \in Runs \cup {Reclaim} |-> IF r = Reclaim THEN ReclaimQueued ELSE NoRun]
  /\ restarts = 0

\* Run ids are given out in order, so that a greater one was submitted later.
NextRun(r) == runs[r].kind = "none" /\ \A q \in Runs : q < r => runs[q].kind # "none"

\* The bound on runs is met: settlements are refused, as at the service's RUN_CEILING, and
\* what would queue a refund fails.
RunsExhausted == ~\E r \in Runs : NextRun(r)

\* Faulty variant, for a mutant: unfinished runs are forgotten as well.
Trimmed_Unfinished ==
  LET kept == {q \in Runs \cup {Reclaim} : runs[q].kind \notin {"none", "lost"}} \ forgotten
  IN  {q \in kept : Cardinality({p \in kept : q <= p}) >= HISTORY}

\* _trim: a new run pushes the oldest out of the history, up to the first that is unfinished.
Trimmed ==
  LET kept == {q \in Runs \cup {Reclaim} : runs[q].kind \notin {"none", "lost"}} \ forgotten
  IN  {q \in kept : /\ Cardinality({p \in kept : q <= p}) >= HISTORY
                    /\ \A p \in kept : p <= q => runs[p].status \notin Unfinished}

submit(r, s, kind) ==
  /\ NextRun(r)
  /\ runs' = [runs EXCEPT ![r] = [session |-> s, kind |-> kind, status |-> "queued"]]
  /\ queue' = Append(queue, r)
  /\ forgotten' = forgotten \cup Trimmed

-----------------------------------------------------------------------------
\* The registry.
busy_with(s) ==
  \E r \in Runs \ forgotten : runs[r].session = s /\ runs[r].status \in Unfinished

_session_is_busy(s) == busy_with(s) \/ open_deals(s) # {} \/ sess[s].finishing

Copying == {s \in Sessions : sess[s].at = "copying"}
Held == {order[i] : i \in 1..Len(order)}

\* The admission rule refuses a new session.
Refuses ==
  /\ Len(order) + Cardinality(Copying) >= SESSION_LIMIT
  /\ \A s \in Held : _session_is_busy(s)

create(s) ==
  /\ sess[s].at = "unborn"
  /\ ~Refuses
  /\ sess' = [sess EXCEPT ![s].at = "copying"]
  /\ UNCHANGED <<order, runs, queue, forgotten, worker, closed, call, durable, restarts>>

copy_fails(s) ==
  /\ sess[s].at = "copying"
  /\ sess' = [sess EXCEPT ![s].at = "gone"]
  /\ UNCHANGED <<order, runs, queue, forgotten, worker, closed, call, durable, restarts>>

\* Faulty variant: a busy session that is passed over leaves what the loop counts.
Evicted_CountsShrink(all) ==
  {all[i] : i \in {i \in 1..Len(all) : /\ i + SESSION_LIMIT <= Len(all)
                                        /\ ~_session_is_busy(all[i])}}

\* _evict: the oldest sessions past the limit go, the busy ones keep their place.
Evicted(all) ==
  LET idle(i) == {j \in 1..i : ~_session_is_busy(all[j])}
  IN  {all[i] : i \in {i \in idle(Len(all)) :
                         Cardinality(idle(i)) + SESSION_LIMIT <= Len(all)}}

\* What is left of a list, in its order.
Without(all, gone) ==
  LET keep[i \in 0..Len(all)] ==
        IF i = 0 THEN <<>>
        ELSE IF all[i] \in gone THEN keep[i - 1] ELSE Append(keep[i - 1], all[i])
  IN  keep[Len(all)]

copied(s) ==
  /\ sess[s].at = "copying"
  /\ LET all == Append(order, s) IN
     /\ order' = Without(all, Evicted(all))
     /\ sess' = [o \in Sessions |->
                   IF o \in Evicted(all) THEN [sess[o] EXCEPT !.at = "gone"]
                   ELSE IF o = s THEN [sess[s] EXCEPT !.at = "open"] ELSE sess[o]]
  /\ UNCHANGED <<runs, queue, forgotten, worker, closed, call, durable, restarts>>

-----------------------------------------------------------------------------
\* The request handlers.  Each finds its session first and uses it in a later step.
Requests(t, s, at, then) ==
  /\ t # Worker
  /\ call[t] = NoCall
  /\ sess[s].at = "open"
  /\ call' = [call EXCEPT ![t] = [NoCall EXCEPT !.at = at, !.session = s, !.then = then]]
  /\ UNCHANGED <<sess, order, runs, queue, forgotten, worker, closed, durable, restarts>>

execute(t, s) == Requests(t, s, "admit", "idle")
finish(t, s) == Requests(t, s, "reconcile", "claim")
run_status(t, s) ==
  /\ \E r \in Runs \ forgotten : runs[r].session = s
  /\ Requests(t, s, "reconcile", "idle")

Returns(t) == call' = [call EXCEPT ![t] = NoCall]

\* Faulty variant, for a mutant: the claim of a refund is not looked at.
_check_AllowanceOnly(s) == sess[s].runs < RUNS_PER_SESSION

\* _check: whether a settlement of s may start.
_check(s) ==
  /\ sess[s].runs < RUNS_PER_SESSION
  /\ ~sess[s].finishing
  /\ ~sess[s].refunded

\* The run is charged and queued under one hold of the lock, or refused.
admit(t, s) ==
  /\ call[t].at = "admit" /\ call[t].session = s
  /\ \/ /\ _check(s)
        /\ \E r \in Runs : submit(r, s, "settlement")
        /\ sess' = [sess EXCEPT ![s].runs = @ + 1]
     \/ /\ ~_check(s) \/ RunsExhausted
        /\ UNCHANGED <<sess, runs, queue, forgotten>>
  /\ Returns(t)
  /\ UNCHANGED <<order, worker, closed, durable, restarts>>

\* _reconcile_refund reads how the refund the session names has ended, without the lock.
_reconcile_refund(t, s) ==
  /\ call[t].at = "reconcile" /\ call[t].session = s
  /\ LET observed == sess[s].refund_run_id
         ended == /\ observed # Nobody /\ observed \notin forgotten
                  /\ ~sess[s].refunded
                  /\ runs[observed].status \in {"succeeded", "failed"}
     IN call' = [call EXCEPT ![t] =
                   IF ended THEN [@ EXCEPT !.at = "settle", !.observed = observed,
                                           !.succeeded = runs[observed].status = "succeeded"]
                   ELSE IF @.then = "claim" THEN [@ EXCEPT !.at = "claim"] ELSE NoCall]
  /\ UNCHANGED <<sess, order, runs, queue, forgotten, worker, closed, durable, restarts>>

\* Faulty variant: a refund that failed leaves the session marked refunded.
Settled_Anyhow(session, succeeded) == [session EXCEPT !.refunded = TRUE, !.finishing = FALSE]

\* The refund's end, written only over a claim that still names that refund.
Settled(session, succeeded) ==
  IF succeeded THEN [session EXCEPT !.refunded = TRUE, !.finishing = FALSE]
  ELSE [session EXCEPT !.finishing = FALSE, !.refund_run_id = Nobody]

\* Faulty variant: a write that does not compare.
settle_refund_Blind(t, s) ==
  /\ call[t].at = "settle" /\ call[t].session = s
  /\ sess' = [sess EXCEPT ![s] = Settled(@, call[t].succeeded)]
  /\ call' = [call EXCEPT ![t] = IF @.then = "claim" THEN [@ EXCEPT !.at = "claim"] ELSE NoCall]
  /\ UNCHANGED <<order, runs, queue, forgotten, worker, closed, durable, restarts>>

settle_refund(t, s) ==
  /\ call[t].at = "settle" /\ call[t].session = s
  /\ IF sess[s].refund_run_id = call[t].observed
     THEN sess' = [sess EXCEPT ![s] = Settled(@, call[t].succeeded)]
     ELSE UNCHANGED sess
  /\ call' = [call EXCEPT ![t] = IF @.then = "claim" THEN [@ EXCEPT !.at = "claim"] ELSE NoCall]
  /\ UNCHANGED <<order, runs, queue, forgotten, worker, closed, durable, restarts>>

begin_finishing(t, s) ==
  /\ call[t].at = "claim" /\ call[t].session = s
  /\ IF sess[s].finishing \/ sess[s].refunded
     THEN Returns(t) /\ UNCHANGED sess
     ELSE /\ sess' = [sess EXCEPT ![s].finishing = TRUE]
          /\ call' = [call EXCEPT ![t].at = "submit"]
  /\ UNCHANGED <<order, runs, queue, forgotten, worker, closed, durable, restarts>>

\* Faulty variant: a failure between the claim and the queue is not compensated.
submit_refund_KeepsClaim(t, s) ==
  /\ call[t].at = "submit" /\ call[t].session = s
  /\ \/ \E r \in Runs : /\ submit(r, s, "refund")
                        /\ sess' = [sess EXCEPT ![s].refund_run_id = r]
     \/ (DiskCanFail \/ RunsExhausted) /\ UNCHANGED <<sess, runs, queue, forgotten>>
  /\ Returns(t)
  /\ UNCHANGED <<order, worker, closed, durable, restarts>>

\* The end of _refund: the refund is named and queued, or the claim is given back.
submit_refund(t, s) ==
  /\ call[t].at = "submit" /\ call[t].session = s
  /\ \/ \E r \in Runs : /\ submit(r, s, "refund")
                        /\ sess' = [sess EXCEPT ![s].refund_run_id = r]
     \/ /\ DiskCanFail \/ RunsExhausted
        /\ sess' = [sess EXCEPT ![s] = Settled(@, FALSE)]
        /\ UNCHANGED <<runs, queue, forgotten>>
  /\ Returns(t)
  /\ UNCHANGED <<order, worker, closed, durable, restarts>>

Proceeds(t, s) ==
  \/ admit(t, s) \/ _reconcile_refund(t, s) \/ settle_refund(t, s)
  \/ begin_finishing(t, s) \/ submit_refund(t, s)

Serve(t, s) == execute(t, s) \/ finish(t, s) \/ run_status(t, s) \/ Proceeds(t, s)

-----------------------------------------------------------------------------
\* The worker.  A run that has ended is handed to the callback before the next is taken.
Ended(status) ==
  /\ runs' = [runs EXCEPT ![worker.run].status = status]
  /\ worker' = [worker EXCEPT !.at = "callback"]

Goes(at) == worker' = [worker EXCEPT !.at = at] /\ UNCHANGED runs

\* Faulty variant: a settlement taken after a failed reclaim is dropped, not refused.
_work_Drops ==
  /\ worker = Idle /\ call[Worker] = NoCall /\ queue # <<>>
  /\ LET r == Head(queue) IN
     IF runs[r].kind = "settlement" /\ closed
     THEN UNCHANGED <<worker, runs>>
     ELSE /\ worker' = [Idle EXCEPT !.run = r, !.at = runs[r].kind]
          /\ runs' = [runs EXCEPT ![r].status = "running"]
  /\ queue' = Tail(queue)
  /\ UNCHANGED <<sess, order, forgotten, closed, call, durable, restarts>>

_work ==
  /\ worker = Idle /\ call[Worker] = NoCall /\ queue # <<>>
  /\ LET r == Head(queue) IN
     IF runs[r].kind = "settlement" /\ closed
     THEN /\ worker' = [Idle EXCEPT !.run = r, !.at = "callback"]
          /\ runs' = [runs EXCEPT ![r].status = "failed"]
     ELSE /\ worker' = [Idle EXCEPT !.run = r, !.at = runs[r].kind]
          /\ runs' = [runs EXCEPT ![r].status = "running"]
  /\ queue' = Tail(queue)
  /\ UNCHANGED <<sess, order, forgotten, closed, call, durable, restarts>>

\* _run_finished: a settlement that spent its session, left a deal open, or failed with one
\* starts the session's refund.
spent(s) == sess[s].runs >= RUNS_PER_SESSION
stranded(s) == open_deals(s) # {}
credited(run) == run.status = "failed" /\ worker.deal_id

\* Faulty variant: only the allowance is a reason.
Owed_SpentOnly(run) ==
  run.kind = "settlement" /\ sess[run.session].at = "open" /\ spent(run.session)

Owed(run) ==
  /\ run.kind = "settlement"
  /\ sess[run.session].at = "open"
  /\ spent(run.session) \/ stranded(run.session) \/ credited(run)

Refunds(s) ==
  call' = [call EXCEPT ![Worker] =
             [NoCall EXCEPT !.at = "reconcile", !.session = s, !.then = "claim"]]

_run_finished ==
  /\ worker.at = "callback"
  /\ LET run == runs[worker.run] IN
     IF Owed(run) THEN Refunds(run.session) ELSE UNCHANGED call
  /\ worker' = Idle
  /\ UNCHANGED <<sess, order, runs, queue, forgotten, closed, durable, restarts>>

-----------------------------------------------------------------------------
\* A settlement, one step between two calls that can fail.
_quote ==
  /\ worker.at = "settlement"
  /\ \/ Ended("refused") /\ UNCHANGED liability
     \/ Ended("failed") /\ UNCHANGED liability
     \/ open_intent(worker.run, runs[worker.run].session) /\ Goes("create")
  /\ UNCHANGED <<creation, deal, credit, collecting>>

\* create-deal: nothing is signed (the wallet may be held by an earlier creation); or the
\* bytes are refused and the row is unbroadcast; or they are sent, and the reply may be lost.
_create ==
  /\ worker.at = "create"
  /\ \/ Ended("failed") /\ UNCHANGED creation
     \/ /\ InFlight = {}
        /\ \/ creation' = [creation EXCEPT ![worker.run] = "unbroadcast"] /\ Ended("failed")
           \/ /\ creation' = [creation EXCEPT ![worker.run] = "pending"]
              /\ Goes("sent") \/ Ended("failed")
  /\ UNCHANGED <<liability, deal, credit, collecting>>

_sent ==
  /\ worker.at = "sent"
  /\ attach(worker.run, "hash")
  /\ Goes("included")
  /\ UNCHANGED <<creation, deal, credit, collecting>>

\* The deal id is read from the receipt of an included creation.
_included ==
  /\ worker.at = "included"
  /\ \/ /\ creation[worker.run] = "included"
        /\ attach(worker.run, "deal")
        /\ worker' = [worker EXCEPT !.at = "perform", !.deal_id = TRUE]
        /\ UNCHANGED runs
     \/ Ended("failed") /\ UNCHANGED liability
  /\ UNCHANGED <<creation, deal, credit, collecting>>

\* accept, deliver, then release or a claim: one transaction of the lifecycle, which may
\* fail, or take effect although the run gives up on it.
_perform ==
  /\ worker.at = "perform"
  /\ LET r == worker.run IN
     \/ /\ deal[r] = "Offered" /\ Moves(r, "Accepted")
        /\ Goes("perform") \/ Ended("failed")
     \/ /\ deal[r] = "Accepted" /\ Moves(r, "Delivered")
        /\ Goes("perform") \/ Ended("failed")
     \/ /\ deal[r] = "Accepted" /\ Ends(r, "buyer")
        /\ Goes("confirm") \/ Ended("failed")
     \/ /\ deal[r] = "Delivered" /\ Ends(r, "provider")
        /\ Goes("confirm") \/ Ended("failed")
     \/ Ended("failed") /\ UNCHANGED <<deal, credit>>
  /\ UNCHANGED <<liability, creation, collecting>>

_confirm ==
  /\ worker.at = "confirm"
  /\ \/ close(worker.run) /\ Goes("teach")
     \/ Ended("failed") /\ UNCHANGED liability
  /\ UNCHANGED <<creation, deal, credit, collecting>>

_teach ==
  /\ worker.at = "teach"
  /\ Ended("succeeded") \/ Ended("failed")
  /\ UNCHANGED durable

Settle ==
  /\ _quote \/ _create \/ _sent \/ _included \/ _perform \/ _confirm \/ _teach
  /\ UNCHANGED <<sess, order, queue, forgotten, closed, call, restarts>>

-----------------------------------------------------------------------------
\* A refund, and the reclaim at startup.  _closed follows the reclaim's end.
Stops(status) ==
  /\ Ended(status)
  /\ closed' = (closed \/ (runs[worker.run].kind = "reclaim" /\ status = "failed"))

Recovers(deals) ==
  /\ worker' = [worker EXCEPT !.at = "recover", !.todo = deals]
  /\ UNCHANGED <<runs, closed>>

_run_refund ==
  /\ worker.at = "refund"
  /\ Recovers(open_deals(runs[worker.run].session))
  /\ UNCHANGED durable

\* What became of a creation whose deal id was never learned, by its row in the ledger.
NoDeal(r) == creation[r] \in {"none", "unbroadcast", "reverted"}

\* Faulty variant: a creation whose receipt cannot be read is taken to have made nothing.
Named_OrForgotten(r, readable) ==
  IF NoDeal(r) \/ r \notin readable THEN NoLiability ELSE [liability[r] EXCEPT !.known = "deal"]

\* _name_unresolved: discard what made no deal, name what did if its receipt can be read.
Named(r, readable) ==
  IF NoDeal(r) THEN NoLiability
  ELSE [liability[r] EXCEPT !.known = IF r \in readable THEN "deal" ELSE "hash"]

_run_reclaim ==
  /\ worker.at = "reclaim"
  /\ \/ Stops("failed") /\ UNCHANGED liability
     \/ /\ InFlight = {}
        /\ \E readable \in SUBSET Unnamed :
             liability' = [r \in Runs |-> IF r \in Unnamed THEN Named(r, readable)
                                          ELSE liability[r]]
        /\ LET inherited == all_open_deals' IN
           IF inherited = {} THEN Stops("succeeded") ELSE Recovers(inherited)
  /\ UNCHANGED <<creation, deal, credit, collecting>>

\* What closes a deal in each state credits one side.
Recovery == [Offered |-> "buyer", Accepted |-> "buyer", Delivered |-> "provider"]

_recover_deals ==
  /\ worker.at = "recover"
  /\ \E r \in worker.todo :
       \/ /\ deal[r] = "Closed"
          /\ close(r)
          /\ worker' = [worker EXCEPT !.todo = @ \ {r}]
          /\ UNCHANGED <<runs, closed, deal, credit>>
       \/ /\ deal[r] \in Live
          /\ Ends(r, Recovery[deal[r]])
          /\ UNCHANGED <<runs, closed, worker>> \/ Stops("failed")
          /\ UNCHANGED liability
       \/ Stops("failed") /\ UNCHANGED <<liability, deal, credit>>
  /\ UNCHANGED <<creation, collecting>>

\* Every deal is closed: read which wallets the escrow owes, if a node answers.
_credits ==
  /\ worker.at = "recover" /\ worker.todo = {}
  /\ \/ /\ worker' = [worker EXCEPT !.at = "collect", !.owed = {role \in Roles : credit[role]}]
        /\ UNCHANGED <<runs, closed>>
     \/ Stops("failed")
  /\ UNCHANGED durable

_collect ==
  /\ worker.at = "collect"
  /\ \/ \E role \in worker.owed :
          /\ Withdraw(role)
          /\ \/ worker' = [worker EXCEPT !.owed = @ \ {role}] /\ UNCHANGED <<runs, closed>>
             \/ Stops("failed")
     \/ /\ Stops("failed") \/ (worker.owed = {} /\ Stops("succeeded"))
        /\ UNCHANGED <<credit, collecting>>
  /\ UNCHANGED <<liability, creation, deal>>

Recover ==
  /\ _run_refund \/ _run_reclaim \/ _recover_deals \/ _credits \/ _collect
  /\ UNCHANGED <<sess, order, queue, forgotten, call, restarts>>

-----------------------------------------------------------------------------
\* The process dies and another starts: only Deposits survives.
Restart ==
  /\ restarts < MaxRestarts
  /\ restarts' = restarts + 1
  /\ sess' = [s \in Sessions |-> IF sess[s].at = "unborn" THEN Unborn
                                 ELSE [Unborn EXCEPT !.at = "gone"]]
  /\ runs' = [r \in Runs \cup {Reclaim} |->
                IF r = Reclaim THEN ReclaimQueued
                ELSE IF runs[r] = NoRun THEN NoRun ELSE [NoRun EXCEPT !.kind = "lost"]]
  /\ order' = <<>>
  /\ queue' = <<Reclaim>>
  /\ forgotten' = {}
  /\ worker' = Idle
  /\ closed' = FALSE
  /\ call' = [t \in Threads \cup {Worker} |-> NoCall]
  /\ UNCHANGED durable

Chain ==
  /\ (\E r \in Runs : Land(r)) \/ (\E role \in Roles : WithdrawalConfirmed(role))
  /\ UNCHANGED <<volatile, restarts>>

Registry == \E s \in Sessions : create(s) \/ copy_fails(s) \/ copied(s)

Next ==
  \/ Registry
  \/ \E t \in Threads \cup {Worker}, s \in Sessions : Serve(t, s)
  \/ _work \/ _run_finished \/ Settle \/ Recover
  \/ Chain
  \/ Restart

Spec == Init /\ [][Next]_vars

\* The worker goes on as long as it has work, every wait of a run has a budget, and a request
\* that was begun is answered.  No visitor has to come back, and nothing has to be mined.
Fairness ==
  /\ WF_vars(_work) /\ WF_vars(_run_finished) /\ WF_vars(Settle) /\ WF_vars(Recover)
  /\ \A t \in Threads \cup {Worker} : WF_vars(\E s \in Sessions : Proceeds(t, s))

FairSpec == Spec /\ Fairness

-----------------------------------------------------------------------------
\* Properties.

\* Types of the state.
TypeOK ==
  /\ \A r \in Runs : /\ liability[r].known \in {"nothing", "intent", "hash", "deal"}
                     /\ creation[r] \in {"none", "unbroadcast", "pending", "included", "reverted"}
                     /\ deal[r] \in {"none", "Closed"} \cup Live
                     /\ (deal[r] # "none") = (creation[r] = "included")
  /\ \A s \in Sessions : /\ sess[s].runs \in 0..RUNS_PER_SESSION
                         /\ sess[s].refund_run_id \in Runs \cup {Nobody}
                         /\ (sess[s].at = "open") = (s \in Held)
  /\ worker.run \in Runs \cup {Reclaim, Nobody}
  /\ \A t \in Threads \cup {Worker} :
       call[t].at \in {"idle", "admit", "reconcile", "settle", "claim", "submit"}

\* A deal that holds a deposit, and a creation that may become one, are always in the index
\* that survives a restart, whatever fails and wherever the process dies.
DepositsIndexed ==
  \A r \in Runs : deal[r] \in Live \/ creation[r] = "pending" => liability[r] # NoLiability

RefundsOf(s) == {r \in Runs : runs[r].session = s /\ runs[r].kind = "refund"}

\* Two presses, or a press and the worker's own refund, never leave two refunds of a session
\* unfinished at once.
OneRefundAtATime ==
  \A s \in Sessions : Cardinality({r \in RefundsOf(s) : runs[r].status \in Unfinished}) <= 1

\* A settlement admitted after a refund of its session was queued finds that refund failed:
\* otherwise nothing would be scheduled to collect what it leaves behind.
NoSettlementBehindRefund ==
  \A s \in Sessions, r, q \in Runs :
    r \in RefundsOf(s) /\ r < q /\ runs[q].session = s /\ runs[q].kind = "settlement"
      => runs[r].status = "failed"

\* A session is marked refunded only when the index names no deal of it any more.
RefundedOwesNothing == \A s \in Sessions : sess[s].refunded => open_deals(s) = {}

\* A session that is finishing has a refund of its own or a thread about to queue one: the
\* claim is never left behind by a refund that failed before it was queued.
ClaimIsOwned ==
  \A s \in Sessions : sess[s].finishing =>
    \/ sess[s].refund_run_id \in RefundsOf(s)
    \/ \E t \in Threads \cup {Worker} : call[t].at = "submit" /\ call[t].session = s

\* Whoever asks for a run that is still to end finds it, however many were submitted since: the
\* visitor who waits for it, and the registry before it deletes the files the run will use.
UnfinishedIsKnown ==
  \A r \in Runs \cup {Reclaim} : runs[r].status \in Unfinished => r \notin forgotten

\* The registry never holds more sessions than its limit, whatever becomes busy while a new
\* one's stores are copied: one more visitor is no more open databases.
WithinLimit == Len(order) <= SESSION_LIMIT

\* Every run that was queued comes to an end.
RunsEnd == \A r \in Runs : runs[r].status = "queued" ~> runs[r].status \notin Unfinished

\* A settlement that ends with a deal of its session still open is followed by a refund of the
\* session, although no visitor asks for one and others come and go meanwhile; or the bound on
\* runs is met.
StrandedIsRefunded ==
  \A s \in Sessions, r \in Runs :
    (/\ worker.at = "callback" /\ worker.run = r /\ runs[r].kind = "settlement"
     /\ runs[r].session = s /\ sess[s].at = "open" /\ open_deals(s) # {})
    ~> ((\E q \in RefundsOf(s) : q > r) \/ RunsExhausted)

\* sessions.py says a session is refunded "when the escrow has actually been emptied back into
\* the wallets, never before": when it is marked, no deal of its own still holds a deposit.
RefundEmpties ==
  [][\A s \in Sessions :
       ~sess[s].refunded /\ sess'[s].refunded
         => \A r \in Runs : runs[r].kind = "settlement" /\ runs[r].session = s
              => deal[r] \notin Live]_vars
=============================================================================
