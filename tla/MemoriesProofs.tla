--------------------------- MODULE MemoriesProofs ---------------------------
(***************************************************************************)
(* The file locks are enough: for any number of processes, receipts and    *)
(* kills, whatever is written or read by one command under a memory's lock *)
(* stands as long as it holds that lock.  From this follow, in turn, that  *)
(* a delivery that was interrupted leaves its mark, that both memories     *)
(* tell one story of a receipt, that an outcome has one reading, and that  *)
(* terms are signed from the memories as they are at that moment.          *)
(***************************************************************************)
EXTENDS Memories, TLAPS, FiniteSetTheorems, SequenceTheorems

LocksOf(plan) == {plan[i] : i \in DOMAIN plan}

LockPlans == {<<>>, <<"buyer">>, <<"provider">>, both_locked, sign_locks}

\* The order in which locks are taken.
Before(l, m) == (l = "ledger" /\ m # "ledger") \/ (l = "buyer" /\ m = "provider")

Ingesting == {"mark", "record", "journal", "marker", "index", "clear"}
Learning == {"survey", "define", "write"}
Reading == {"recall_buyer", "recall_provider", "ontology", "derived", "sign"}

\* A command has the fields its step reads, and plans the locks the step needs.
Formed(c) ==
  /\ {"name", "pc", "locks"} \subseteq DOMAIN c
  /\ c.pc \in {"idle", "repair", "save"} \cup Ingesting \cup Learning \cup Reading
  /\ c.pc \in {"idle", "save", "define"} => c.locks = <<>>
  /\ c.pc = "repair" => c.locks = both_locked
  /\ c.pc \in Ingesting =>
       /\ {"receipt", "body", "side", "owned"} \subseteq DOMAIN c
       /\ c.receipt \in Receipts /\ c.body \in Bodies /\ c.side \in Sides
       /\ c.locks = both_locked
  /\ c.pc \in Learning =>
       /\ {"side", "type", "relearn", "existing"} \subseteq DOMAIN c
       /\ c.side \in Sides /\ c.type \in EventTypes
       /\ c.existing \in [Sides -> DimensionIds \cup {None}]
  /\ c.pc = "survey" => c.locks = <<c.side>>
  /\ c.pc = "write" =>
       /\ "definition" \in DOMAIN c /\ c.definition \in DimensionIds
       /\ c.locks = IF c.existing[c.side] = None THEN <<c.side>> ELSE <<>>
  /\ c.pc \in Reading =>
       /\ "evidence" \in DOMAIN c /\ c.evidence = [s \in Sides |-> c.evidence[s]]
       /\ c.locks \in {both_locked, sign_locks}
       /\ c.name = "create-deal" => {"loaded", "signing"} \subseteq DOMAIN c
  /\ c.pc \in {"derived", "sign"} => "half" \in DOMAIN c

\* The steps a command takes without letting go of its locks in between.
InsideLocks(c) ==
  \/ c.pc \in (Ingesting \ {"mark"}) \cup {"recall_provider", "ontology", "derived", "sign"}
  \/ c.pc = "mark" /\ c.side = "provider"

\* A process holds what it planned to, taken in order.
Holds(p) ==
  /\ \A l \in Locks : holder[l] = p =>
       /\ l \in LocksOf(cmd[p].locks)
       /\ \A m \in LocksOf(cmd[p].locks) : Before(m, l) => holder[m] = p
  /\ InsideLocks(cmd[p]) => Locked(p)

\* What a delivery has written so far.
Delivered(p) ==
  LET c == cmd[p] IN
  /\ c.pc \in Ingesting \ {"mark"} => c.receipt \in pending[c.side]
  /\ c.pc = "record" /\ c.owned /\ record[c.side][c.receipt] # None =>
       c.receipt \in index[c.side] /\ c.receipt \in marker[c.side]
  /\ c.pc \in {"journal", "marker", "index", "clear"} => record[c.side][c.receipt] = c.body
  /\ c.pc = "marker" => journal[c.side][c.receipt] > 0
  /\ c.pc \in {"index", "clear"} => c.receipt \in marker[c.side]
  /\ c.pc = "clear" => c.receipt \in index[c.side]
  /\ c.pc \in Ingesting /\ c.side = "provider" => record["buyer"][c.receipt] = c.body

\* What a quote has read so far is what the memories hold.
QuotedBy(c) ==
  /\ c.pc \in {"recall_provider", "ontology", "derived", "sign"} =>
       c.evidence["buyer"] = Recalled("buyer") /\ ~Unfinished("buyer")
  /\ c.pc \in {"ontology", "derived", "sign"} =>
       c.evidence["provider"] = Recalled("provider") /\ ~Unfinished("provider")
  /\ c.pc \in {"derived", "sign"} => c.half = Half(c.evidence) /\ Quotable(c.evidence)
  /\ c.pc = "sign" => c.half = c.loaded

Quoted(p) == QuotedBy(cmd[p])

Sound(p) == Formed(cmd[p]) /\ Holds(p) /\ Delivered(p) /\ Quoted(p)

Rows == [type : EventTypes \cup {None}, status : {"none", "active", "retired"}]

StoresTyped ==
  /\ record \in [Sides -> [Receipts -> Bodies \cup {None}]]
  /\ journal \in [Sides -> [Receipts -> 0..2]]
  /\ marker \in [Sides -> SUBSET Receipts]
  /\ index \in [Sides -> SUBSET Receipts]
  /\ pending \in [Sides -> SUBSET Receipts]
  /\ dimension \in [Sides -> [DimensionIds -> Rows]]

Typed ==
  /\ StoresTyped
  /\ holder \in [Locks -> Procs \cup {Nobody}]
  /\ block \in [Receipts -> Bodies]
  /\ cmd = [p \in Procs |-> cmd[p]]

\* One reading, said without counting.
ReadOnce ==
  \A s \in Sides, t \in EventTypes : \A d, e \in Active(s, t) : d = e

\* The stores agree with themselves and with each other.
Consistent ==
  /\ MarkCovers /\ BodiesAgree /\ ReadOnce
  /\ \A s \in Sides : index[s] \subseteq Recorded(s)
  /\ \A s \in Sides : \A r \in marker[s] : journal[s][r] > 0

\* The inductive invariant.
Kept == Typed /\ Consistent /\ \A p \in Procs : Sound(p)

-----------------------------------------------------------------------------
\* A signature takes all three locks, the ledger's first.
LEMMA SignLocks == sign_locks = <<"ledger", "buyer", "provider">>
<1> DEFINE joined == <<"ledger">> \o <<"buyer", "provider">>
           plan == <<"ledger", "buyer", "provider">>
<1>1. <<"ledger">> \in Seq(Locks) /\ <<"buyer", "provider">> \in Seq(Locks)
  BY DEF Locks, Sides
<1>2. /\ joined \in Seq(Locks) /\ Len(joined) = 3
      /\ joined[1] = "ledger" /\ joined[2] = "buyer" /\ joined[3] = "provider"
  BY <1>1
<1>3. /\ plan \in Seq(Locks) /\ Len(plan) = 3
      /\ plan[1] = "ledger" /\ plan[2] = "buyer" /\ plan[3] = "provider"
  BY DEF Locks, Sides
<1> HIDE DEF joined, plan
<1>4. joined = plan
  <2>1. \A i \in 1 .. Len(joined) : joined[i] = plan[i]
    <3>1. \A i \in 1 .. 3 : i = 1 \/ i = 2 \/ i = 3 OBVIOUS
    <3>2. QED BY <1>2, <1>3, <3>1
  <2>2. QED BY <1>2, <1>3, <2>1, SeqEqual
<1>5. QED BY <1>4 DEF joined, plan, sign_locks, both_locked

\* The locks of each plan.
LEMMA PlanLocks ==
  /\ LocksOf(<<>>) = {} /\ LocksOf(<<"buyer">>) = {"buyer"}
  /\ LocksOf(<<"provider">>) = {"provider"} /\ LocksOf(both_locked) = {"buyer", "provider"}
  /\ LocksOf(sign_locks) = {"ledger", "buyer", "provider"}
<1>1. /\ LocksOf(<<>>) = {} /\ LocksOf(<<"buyer">>) = {"buyer"}
      /\ LocksOf(<<"provider">>) = {"provider"}
  BY DEF LocksOf
<1>2. LocksOf(both_locked) = {"buyer", "provider"} BY DEF LocksOf, both_locked
<1>3. LocksOf(sign_locks) = {"ledger", "buyer", "provider"} BY SignLocks DEF LocksOf
<1>4. QED BY <1>1, <1>2, <1>3

\* A well-formed command follows a plan.
LEMMA PlanOf ==
  ASSUME NEW c, Formed(c)
  PROVE  c.locks \in LockPlans
BY DEF Formed, LockPlans, Ingesting, Learning, Reading, Sides

\* Having every lock is holding each.
LEMMA LockedIff ==
  ASSUME NEW p
  PROVE  /\ Locked(p) <=> \A l \in LocksOf(cmd[p].locks) : holder[l] = p
         /\ Locked(p)' <=> \A l \in LocksOf(cmd'[p].locks) : holder'[l] = p
BY DEF Locked, Missing, LocksOf

\* The next lock is the first one missing.
LEMMA NextLockIsFirst ==
  ASSUME NEW p, cmd[p].locks \in LockPlans, ~Locked(p)
  PROVE  /\ NextLock(p) \in LocksOf(cmd[p].locks) /\ holder[NextLock(p)] # p
         /\ \A l \in LocksOf(cmd[p].locks) : Before(l, NextLock(p)) => holder[l] = p
<1> DEFINE plan == cmd[p].locks
           First(i) == i \in Missing(p) /\ \A j \in Missing(p) : i <= j
<1>1. /\ DOMAIN plan \subseteq {1, 2, 3}
      /\ \A i, j \in DOMAIN plan : Before(plan[i], plan[j]) => i < j
  BY SignLocks DEF LockPlans, both_locked, Before
<1>2. Missing(p) # {} /\ Missing(p) \subseteq DOMAIN plan BY DEF Locked, Missing
<1>3. \E i : First(i)
  <2>1. CASE 1 \in Missing(p) BY <1>1, <1>2, <2>1
  <2>2. CASE 1 \notin Missing(p) /\ 2 \in Missing(p) BY <1>1, <1>2, <2>2
  <2>3. CASE 1 \notin Missing(p) /\ 2 \notin Missing(p) /\ 3 \in Missing(p) BY <1>1, <1>2, <2>3
  <2>4. QED BY <1>1, <1>2, <2>1, <2>2, <2>3
<1> DEFINE first == CHOOSE i \in Missing(p) : \A j \in Missing(p) : i <= j
<1>4. First(first) BY <1>3
<1>5. NextLock(p) = plan[first] BY DEF NextLock
<1> HIDE DEF first
<1>6. QED BY <1>1, <1>2, <1>4, <1>5 DEF Missing, LocksOf

-----------------------------------------------------------------------------
\* What a step leaves of one memory.
Untouched(s) ==
  UNCHANGED <<record[s], journal[s], marker[s], index[s], pending[s], dimension[s]>>

\* A step of p, seen by the others.
Apart(p) ==
  /\ \A q \in Procs \ {p} : cmd'[q] = cmd[q]
  /\ \A q \in Procs \ {p}, l \in Locks : holder'[l] = q <=> holder[l] = q
  /\ \A s \in Sides : holder[s] # p => Untouched(s)

\* What was read stays what the memories hold while nobody writes to them.
LEMMA QuoteStands ==
  ASSUME NEW p, NEW c, QuotedBy(c), cmd'[p] = c, \A s \in Sides : Untouched(s)
  PROVE  Quoted(p)'
<1>1. /\ Recalled("buyer")' = Recalled("buyer") /\ Unfinished("buyer")' = Unfinished("buyer")
      /\ Recalled("provider")' = Recalled("provider")
      /\ Unfinished("provider")' = Unfinished("provider")
  BY DEF Untouched, Recalled, Unfinished, Sides
<1>2. ASSUME c.pc \in {"derived", "sign"}
      PROVE  c.half = Half(c.evidence)' /\ Quotable(c.evidence)'
  <2>1. c.half = Half(c.evidence) /\ Quotable(c.evidence) BY <1>2 DEF QuotedBy
  <2>2. \A s \in Sides : \A t : Active(s, t)' = Active(s, t) BY DEF Untouched, Active
  <2>3. QED BY <2>1, <2>2 DEF Half, Quotable
<1>3. QED BY <1>1, <1>2, Zenon DEF Quoted, QuotedBy

\* Whoever is inside its locks keeps what it has written and read.
LEMMA OthersSound ==
  ASSUME Kept, NEW p \in Procs, Apart(p), NEW q \in Procs \ {p}
  PROVE  Sound(q)'
<1> DEFINE c == cmd[q]
<1>1. /\ cmd'[q] = c /\ \A l \in Locks : holder'[l] = q <=> holder[l] = q
      /\ \A s \in Sides : holder[s] # p => Untouched(s)
      /\ Formed(c) /\ Holds(q) /\ Delivered(q) /\ Quoted(q)
  BY DEF Apart, Kept, Sound
<1>2. LocksOf(c.locks) \subseteq Locks
  <2>1. c.locks \in LockPlans BY <1>1, PlanOf
  <2>2. QED BY <2>1, PlanLocks DEF LockPlans, Locks, Sides
<1>3. Locked(q)' <=> Locked(q) BY <1>1, <1>2, LockedIff
<1>4. Formed(cmd[q])' BY <1>1
<1>5. Holds(q)' BY <1>1, <1>2, <1>3 DEF Holds
<1>6. ASSUME InsideLocks(c) PROVE \A s \in Sides : Untouched(s)
  <2>1. Locked(q) BY <1>1, <1>6 DEF Holds
  <2>2. c.locks \in {both_locked, sign_locks}
    BY <1>1, <1>6 DEF Formed, InsideLocks, Ingesting, Reading
  <2>3. Sides \subseteq LocksOf(c.locks) BY <2>2, PlanLocks DEF Sides
  <2>4. \A s \in Sides : holder[s] = q BY <2>1, <2>3, LockedIff
  <2>5. QED BY <1>1, <2>4
<1>7. Delivered(q)'
  <2>1. CASE InsideLocks(c)
    <3>1. c.pc \in Ingesting => c.side \in Sides BY <1>1 DEF Formed
    <3>2. "buyer" \in Sides BY DEF Sides
    <3>3. QED BY <1>1, <1>6, <2>1, <3>1, <3>2 DEF Delivered, Untouched, Ingesting
  <2>2. CASE ~InsideLocks(c) BY <1>1, <2>2 DEF Delivered, InsideLocks, Ingesting
  <2>3. QED BY <2>1, <2>2
<1>8. Quoted(q)'
  <2>1. CASE InsideLocks(c) BY <1>1, <1>6, <2>1, QuoteStands DEF Quoted
  <2>2. CASE ~InsideLocks(c) BY <1>1, <2>2 DEF Quoted, QuotedBy, InsideLocks
  <2>3. QED BY <2>1, <2>2
<1>9. QED BY <1>4, <1>5, <1>7, <1>8 DEF Sound

-----------------------------------------------------------------------------
\* A command that holds all it planned holds the memories it planned for.
LEMMA BothHeld ==
  ASSUME Kept, NEW p \in Procs, Locked(p), cmd[p].locks \in {both_locked, sign_locks}
  PROVE  \A s \in Sides : holder[s] = p
<1>1. Sides \subseteq LocksOf(cmd[p].locks) BY PlanLocks DEF Sides
<1>2. QED BY <1>1, LockedIff

\* A step of p that leaves p's command at c: p lets go of every lock, or keeps all of a plan, or
\* had none; and it writes only to memories it holds.
LEMMA StepKeeps ==
  ASSUME Kept, NEW p \in Procs, NEW c, cmd' = [cmd EXCEPT ![p] = c], Formed(c),
         \/ holder' = Free(p) /\ ~InsideLocks(c)
         \/ UNCHANGED holder /\ Locked(p) /\ c.locks = cmd[p].locks
         \/ UNCHANGED holder /\ cmd[p].locks = <<>> /\ ~InsideLocks(c),
         \A s \in Sides : holder[s] # p => Untouched(s), UNCHANGED block,
         StoresTyped', Consistent', Delivered(p)', Quoted(p)'
  PROVE  Kept'
<1>1. /\ holder \in [Locks -> Procs \cup {Nobody}] /\ cmd = [q \in Procs |-> cmd[q]]
      /\ Formed(cmd[p]) /\ Holds(p)
  BY DEF Kept, Typed, Sound
<1>2. /\ cmd'[p] = c /\ cmd' = [q \in Procs |-> cmd'[q]]
      /\ \A q \in Procs \ {p} : cmd'[q] = cmd[q]
  BY <1>1
<1>3. LocksOf(c.locks) \subseteq Locks
  <2>1. c.locks \in LockPlans BY PlanOf
  <2>2. QED BY <2>1, PlanLocks DEF LockPlans, Locks, Sides
<1>4. CASE holder' = Free(p) /\ ~InsideLocks(c)
  <2>1. \A l \in Locks : holder'[l] = IF holder[l] = p THEN Nobody ELSE holder[l]
    BY <1>4 DEF Free
  <2>2. /\ holder' \in [Locks -> Procs \cup {Nobody}] /\ \A l \in Locks : holder'[l] # p
        /\ \A q \in Procs \ {p}, l \in Locks : holder'[l] = q <=> holder[l] = q
    BY <1>1, <1>4, <2>1, NamesAssumption DEF Free
  <2>3. Holds(p)' BY <1>2, <1>4, <2>2 DEF Holds
  <2>4. Apart(p) BY <1>2, <2>2 DEF Apart
  <2>5. Sound(p)' BY <1>2, <2>3 DEF Sound
  <2>6. QED BY <1>2, <2>2, <2>4, <2>5, OthersSound DEF Kept, Typed
<1>5. CASE UNCHANGED holder /\ Locked(p) /\ c.locks = cmd[p].locks
  <2>1. Locked(p)' BY <1>2, <1>3, <1>5, LockedIff
  <2>2. Holds(p)' BY <1>1, <1>2, <1>5, <2>1 DEF Holds
  <2>3. Apart(p) BY <1>2, <1>5 DEF Apart
  <2>4. Sound(p)' BY <1>2, <2>2 DEF Sound
  <2>5. QED BY <1>2, <1>5, <2>3, <2>4, OthersSound DEF Kept, Typed
<1>6. CASE UNCHANGED holder /\ cmd[p].locks = <<>> /\ ~InsideLocks(c)
  <2>1. \A l \in Locks : holder[l] # p BY <1>1, <1>6, PlanLocks DEF Holds
  <2>2. Holds(p)' BY <1>2, <1>6, <2>1 DEF Holds
  <2>3. Apart(p) BY <1>2, <1>6 DEF Apart
  <2>4. Sound(p)' BY <1>2, <2>2 DEF Sound
  <2>5. QED BY <1>2, <1>6, <2>3, <2>4, OthersSound DEF Kept, Typed
<1>7. QED BY <1>4, <1>5, <1>6

\* Nothing written keeps the stores as they were.
LEMMA StoresAlone ==
  ASSUME Kept, UNCHANGED <<store, dimension>>
  PROVE  StoresTyped' /\ Consistent' /\ \A s \in Sides : Untouched(s)
<1>1. /\ StoresTyped /\ Consistent
      /\ UNCHANGED <<record, journal, marker, index, pending, dimension>>
  BY DEF Kept, Typed, store
<1>2. StoresTyped' BY <1>1 DEF StoresTyped
<1>3. Consistent'
  BY <1>1 DEF Consistent, MarkCovers, BodiesAgree, ReadOnce, Recorded, Active
<1>4. QED BY <1>1, <1>2, <1>3 DEF Untouched

\* An idle process has no locks, and a command may begin.
LEMMA BeginKeeps ==
  ASSUME Kept, NEW p \in Procs, NEW c, Begin(p, c), Formed(c),
         \/ c.pc \in {"repair", "survey", "recall_buyer"}
         \/ c.pc = "mark" /\ c.side = "buyer"
  PROVE  Kept'
<1>1. /\ cmd[p].pc = "idle" /\ cmd' = [cmd EXCEPT ![p] = c]
      /\ UNCHANGED <<store, dimension, holder, block>>
  BY DEF Begin
<1>2. cmd'[p] = c /\ cmd[p].locks = <<>> BY <1>1 DEF Kept, Typed, Sound, Formed
<1>3. ~InsideLocks(c) BY DEF InsideLocks, Ingesting
<1>4. Delivered(p)' BY <1>2 DEF Delivered, Ingesting
<1>5. Quoted(p)' BY <1>2 DEF Quoted, QuotedBy
<1>6. QED BY <1>1, <1>2, <1>3, <1>4, <1>5, StoresAlone, StepKeeps

\* Every command begins well formed.
LEMMA BeginningsKeep ==
  ASSUME Kept, NEW p \in Procs,
         \/ reconcile(p) \/ store_repair(p) \/ learn_dimension(p) \/ policy(p) \/ create_deal(p)
  PROVE  Kept'
<1>1. CASE reconcile(p)
  <2>1. PICK r \in Receipts :
          Begin(p, [name |-> "reconcile", pc |-> "mark", locks |-> both_locked,
                    receipt |-> r, body |-> block[r], side |-> "buyer", owned |-> TRUE])
    BY <1>1 DEF reconcile
  <2> DEFINE c == [name |-> "reconcile", pc |-> "mark", locks |-> both_locked,
                   receipt |-> r, body |-> block[r], side |-> "buyer", owned |-> TRUE]
  <2>2. block[r] \in Bodies BY DEF Kept, Typed
  <2>3. Formed(c) /\ c.pc = "mark" /\ c.side = "buyer"
    BY <2>2 DEF Formed, Ingesting, Learning, Reading, Sides
  <2> HIDE DEF c
  <2>4. QED BY <2>1, <2>3, BeginKeeps DEF c
<1>2. CASE store_repair(p)
  <2> DEFINE c == [name |-> "store-repair", pc |-> "repair", locks |-> both_locked]
  <2>1. Formed(c) /\ c.pc = "repair" BY DEF Formed, Ingesting, Learning, Reading
  <2> HIDE DEF c
  <2>2. QED BY <1>2, <2>1, BeginKeeps DEF c, store_repair
<1>3. CASE learn_dimension(p)
  <2>1. PICK r \in Receipts, relearn \in BOOLEAN :
          Begin(p, [name |-> "learn-dimension", pc |-> "survey", locks |-> <<"buyer">>,
                    side |-> "buyer", type |-> TypeOf[r], relearn |-> relearn,
                    existing |-> [s \in Sides |-> None]])
    BY <1>3 DEF learn_dimension
  <2> DEFINE c == [name |-> "learn-dimension", pc |-> "survey", locks |-> <<"buyer">>,
                   side |-> "buyer", type |-> TypeOf[r], relearn |-> relearn,
                   existing |-> [s \in Sides |-> None]]
  <2>2. Formed(c) /\ c.pc = "survey"
    BY DEF Formed, Ingesting, Learning, Reading, Sides, EventTypes
  <2> HIDE DEF c
  <2>3. QED BY <2>1, <2>2, BeginKeeps DEF c
<1>4. CASE policy(p)
  <2> DEFINE c == With(Quoting, [name |-> "policy", locks |-> both_locked])
  <2>1. /\ {"name", "pc", "locks", "evidence"} \subseteq DOMAIN c /\ c.pc = "recall_buyer"
        /\ c.name = "policy" /\ c.locks = both_locked /\ c.evidence = [s \in Sides |-> <<>>]
    BY DEF With, Quoting
  <2> HIDE DEF c
  <2>2. Formed(c) BY <2>1 DEF Formed, Ingesting, Learning, Reading
  <2>3. QED BY <1>4, <2>1, <2>2, BeginKeeps DEF c, policy
<1>5. CASE create_deal(p)
  <2> DEFINE c == With(Quoting, [name |-> "create-deal", locks |-> both_locked,
                                 loaded |-> document, signing |-> FALSE])
  <2>1. /\ {"name", "pc", "locks", "evidence", "loaded", "signing"} \subseteq DOMAIN c
        /\ c.pc = "recall_buyer" /\ c.locks = both_locked
        /\ c.evidence = [s \in Sides |-> <<>>]
    BY DEF With, Quoting
  <2> HIDE DEF c
  <2>2. Formed(c) BY <2>1 DEF Formed, Ingesting, Learning, Reading
  <2>3. QED BY <1>5, <2>1, <2>2, BeginKeeps DEF c, create_deal
<1>6. QED BY <1>1, <1>2, <1>3, <1>4, <1>5

\* A process that takes a lock holds one more of its own, in order, and no step inside its locks
\* is under way.
LEMMA LockingKeeps ==
  ASSUME Kept, NEW p \in Procs, _exclusive(p)
  PROVE  Kept'
<1> DEFINE c == cmd[p]
           lock == NextLock(p)
<1>1. /\ ~Locked(p) /\ holder[lock] = Nobody /\ holder' = [holder EXCEPT ![lock] = p]
      /\ UNCHANGED <<store, dimension, block, cmd>>
  BY DEF _exclusive
<1>2. /\ holder \in [Locks -> Procs \cup {Nobody}] /\ cmd = [q \in Procs |-> cmd[q]]
      /\ Formed(c) /\ Holds(p) /\ Delivered(p) /\ Quoted(p)
  BY DEF Kept, Typed, Sound
<1>3. c.locks \in LockPlans /\ LocksOf(c.locks) \subseteq Locks
  <2>1. c.locks \in LockPlans BY <1>2, PlanOf
  <2>2. QED BY <2>1, PlanLocks DEF LockPlans, Locks, Sides
<1>4. /\ lock \in LocksOf(c.locks) /\ lock \in Locks
      /\ \A l \in LocksOf(c.locks) : Before(l, lock) => holder[l] = p
  BY <1>1, <1>3, NextLockIsFirst
<1> HIDE DEF lock
<1>5. /\ holder' \in [Locks -> Procs \cup {Nobody}] /\ holder'[lock] = p
      /\ \A l \in Locks \ {lock} : holder'[l] = holder[l]
  BY <1>1, <1>2, <1>4
<1>6. ~InsideLocks(c) BY <1>1, <1>2 DEF Holds
<1>7. Holds(p)'
  <2>1. ASSUME NEW l \in Locks, holder'[l] = p
        PROVE  /\ l \in LocksOf(c.locks)
               /\ \A m \in LocksOf(c.locks) : Before(m, l) => holder'[m] = p
    <3>1. CASE l = lock BY <1>3, <1>4, <1>5, <3>1
    <3>2. CASE l # lock BY <1>2, <1>3, <1>5, <2>1, <3>2 DEF Holds
    <3>3. QED BY <3>1, <3>2
  <2>2. QED BY <1>1, <1>6, <2>1 DEF Holds
<1>8. Delivered(p)' BY <1>1, <1>2 DEF Delivered, store
<1>9. Quoted(p)'
  <2>1. cmd'[p] = c BY <1>1
  <2>2. c.pc \notin {"recall_provider", "ontology", "derived", "sign"}
    BY <1>6 DEF InsideLocks
  <2>3. QED BY <2>1, <2>2 DEF Quoted, QuotedBy
<1>10. Apart(p)
  <2>1. \A q \in Procs \ {p}, l \in Locks : holder'[l] = q <=> holder[l] = q
    BY <1>1, <1>5, NamesAssumption
  <2>2. QED BY <1>1, <2>1, StoresAlone DEF Apart
<1>11. Sound(p)' BY <1>1, <1>2, <1>7, <1>8, <1>9 DEF Sound
<1>12. QED BY <1>1, <1>2, <1>5, <1>10, <1>11, OthersSound, StoresAlone DEF Kept, Typed

\* A command may end, whatever it wrote to memories it held.
LEMMA EndKeeps ==
  ASSUME Kept, NEW p \in Procs, Finish(p), UNCHANGED block,
         \A s \in Sides : holder[s] # p => Untouched(s), StoresTyped', Consistent'
  PROVE  Kept'
<1>1. Formed(Idle) /\ Idle.pc = "idle" BY DEF Idle, Formed, Ingesting, Learning, Reading
<1>2. cmd' = [cmd EXCEPT ![p] = Idle] /\ holder' = Free(p) BY DEF Finish
<1> HIDE DEF Idle
<1>3. cmd'[p] = Idle BY <1>2 DEF Kept, Typed
<1>4. ~InsideLocks(Idle) BY <1>1 DEF InsideLocks, Ingesting
<1>5. Delivered(p)' BY <1>1, <1>3 DEF Delivered, Ingesting
<1>6. Quoted(p)' BY <1>1, <1>3 DEF Quoted, QuotedBy
<1>7. QED BY <1>1, <1>2, <1>4, <1>5, <1>6, StepKeeps

-----------------------------------------------------------------------------
\* What a delivery knows while it writes.
LEMMA Delivering ==
  ASSUME Kept, NEW p \in Procs, cmd[p].pc \in Ingesting, Locked(p)
  PROVE  /\ Formed(cmd[p]) /\ Delivered(p) /\ cmd[p].locks = both_locked
         /\ {"name", "pc", "locks", "receipt", "body", "side", "owned"} \subseteq DOMAIN cmd[p]
         /\ cmd[p].receipt \in Receipts /\ cmd[p].body \in Bodies /\ cmd[p].body # None
         /\ cmd[p].side \in Sides /\ \A s \in Sides : holder[s] = p
         /\ StoresTyped /\ Consistent
<1>1. Formed(cmd[p]) /\ Delivered(p) BY DEF Kept, Sound
<1>2. cmd[p].locks = both_locked BY <1>1 DEF Formed
<1>3. \A s \in Sides : holder[s] = p BY <1>2, BothHeld
<1>4. QED BY <1>1, <1>2, <1>3, NamesAssumption DEF Formed, Kept, Typed

\* A delivery's next step.
LEMMA DeliveryKeeps ==
  ASSUME Kept, NEW p \in Procs, cmd[p].pc \in Ingesting, Locked(p), NEW c,
         cmd' = [cmd EXCEPT ![p] = c], UNCHANGED <<holder, block>>,
         {"name", "pc", "locks", "receipt", "body", "side", "owned"} \subseteq DOMAIN c,
         c.pc \in Ingesting, c.side \in Sides, c.locks = cmd[p].locks,
         c.receipt = cmd[p].receipt, c.body = cmd[p].body,
         StoresTyped', Consistent', Delivered(p)'
  PROVE  Kept'
<1>1. Formed(c) BY Delivering DEF Formed, Ingesting, Learning, Reading
<1>2. cmd'[p] = c BY DEF Kept, Typed
<1>3. Quoted(p)' BY <1>2 DEF Quoted, QuotedBy, Ingesting
<1>4. QED BY <1>1, <1>3, Delivering, StepKeeps

\* The mark is set before anything is written; whether it stood already is remembered.
LEMMA MarkKeeps ==
  ASSUME Kept, NEW p \in Procs, ingest_mark(p)
  PROVE  Kept'
<1> DEFINE o == cmd[p]
           c == With(o, [pc |-> "record", owned |-> o.receipt \notin pending[o.side]])
<1>1. /\ o.pc = "mark" /\ Locked(p) /\ cmd' = [cmd EXCEPT ![p] = c]
      /\ pending' = [pending EXCEPT ![o.side] = @ \cup {o.receipt}]
      /\ UNCHANGED <<record, journal, marker, index, dimension, holder, block>>
  BY DEF ingest_mark, At, Goto, Own, It
<1>2. /\ Delivered(p) /\ StoresTyped /\ Consistent
      /\ {"name", "pc", "locks", "receipt", "body", "side", "owned"} \subseteq DOMAIN o
      /\ o.receipt \in Receipts /\ o.side \in Sides /\ cmd'[p] = c
  BY <1>1, Delivering DEF Ingesting, Kept, Typed
<1>3. /\ {"name", "pc", "locks", "receipt", "body", "side", "owned"} \subseteq DOMAIN c
      /\ c.pc = "record" /\ c.owned = (o.receipt \notin pending[o.side])
      /\ c.locks = o.locks /\ c.receipt = o.receipt /\ c.body = o.body /\ c.side = o.side
  BY <1>2 DEF With
<1> HIDE DEF c
<1>4. StoresTyped' BY <1>1, <1>2 DEF StoresTyped
<1>5. Consistent'
  BY <1>1, <1>2 DEF Consistent, MarkCovers, BodiesAgree, ReadOnce, Recorded, Active, StoresTyped
<1>6. Delivered(p)'
  <2>1. o.receipt \in pending'[o.side] BY <1>1, <1>2 DEF StoresTyped
  <2>2. c.owned /\ record[o.side][o.receipt] # None =>
          o.receipt \in index[o.side] /\ o.receipt \in marker[o.side]
    BY <1>2, <1>3 DEF Consistent, MarkCovers, Recorded
  <2>3. o.side = "provider" => record["buyer"][o.receipt] = o.body
    BY <1>1, <1>2 DEF Delivered, Ingesting
  <2>4. QED BY <1>1, <1>2, <1>3, <2>1, <2>2, <2>3 DEF Delivered
<1>7. QED BY <1>1, <1>2, <1>3, <1>4, <1>5, <1>6, DeliveryKeeps DEF Ingesting

\* A canonical body is written only where there was none; the provider's is the buyer's.
LEMMA RecordKeeps ==
  ASSUME Kept, NEW p \in Procs, persist_verified_event(p)
  PROVE  Kept'
<1> DEFINE o == cmd[p]
           c == With(o, [pc |-> IF o.receipt \in marker[o.side] THEN "index" ELSE "journal"])
<1>1. /\ o.pc = "record" /\ Locked(p) /\ cmd' = [cmd EXCEPT ![p] = c]
      /\ record' = [record EXCEPT ![o.side][o.receipt] = IF @ = None THEN o.body ELSE @]
      /\ UNCHANGED <<journal, marker, index, pending, dimension, holder, block>>
      /\ record[o.side][o.receipt] \in {None, o.body}
  BY DEF persist_verified_event, EventConflict, At, Goto, Own, It
<1>2. /\ Delivered(p) /\ StoresTyped /\ Consistent
      /\ {"name", "pc", "locks", "receipt", "body", "side", "owned"} \subseteq DOMAIN o
      /\ o.receipt \in Receipts /\ o.side \in Sides /\ o.body \in Bodies /\ o.body # None
      /\ cmd'[p] = c
  BY <1>1, Delivering DEF Ingesting, Kept, Typed
<1>3. /\ {"name", "pc", "locks", "receipt", "body", "side", "owned"} \subseteq DOMAIN c
      /\ c.pc \in {"index", "journal"} /\ c.side = o.side
      /\ c.pc = "index" => o.receipt \in marker[o.side]
      /\ c.locks = o.locks /\ c.receipt = o.receipt /\ c.body = o.body
  BY <1>2 DEF With
<1> HIDE DEF c
<1>4. StoresTyped' BY <1>1, <1>2 DEF StoresTyped
<1>5. /\ record'[o.side][o.receipt] = o.body
      /\ \A s \in Sides, r \in Receipts : ~(s = o.side /\ r = o.receipt) =>
           record'[s][r] = record[s][r]
  BY <1>1, <1>2 DEF StoresTyped
<1>6. o.receipt \in pending[o.side] /\ (o.side = "provider" => record["buyer"][o.receipt] = o.body)
  BY <1>1, <1>2 DEF Delivered, Ingesting
<1>7. Consistent'
  <2>1. MarkCovers' BY <1>1, <1>2, <1>5, <1>6 DEF Consistent, MarkCovers, Recorded
  <2>2. BodiesAgree'
    <3>1. ASSUME NEW r \in Receipts, record'["provider"][r] # None
          PROVE  record'["buyer"][r] = record'["provider"][r]
      <4>1. "buyer" \in Sides /\ "provider" \in Sides /\ o.side \in {"buyer", "provider"}
        BY <1>2 DEF Sides
      <4>2. record["provider"][r] # None => record["buyer"][r] = record["provider"][r]
        BY <1>2 DEF Consistent, BodiesAgree, Recorded
      <4>3. record[o.side][o.receipt] \in {None, o.body} BY <1>1
      <4>4. QED BY <1>2, <1>5, <1>6, <3>1, <4>1, <4>2, <4>3
    <3>2. QED BY <3>1 DEF BodiesAgree, Recorded
  <2>3. QED BY <1>1, <1>2, <1>5, <2>1, <2>2 DEF Consistent, ReadOnce, Recorded, Active
<1>8. Delivered(p)'
  <2>1. "buyer" \in Sides BY DEF Sides
  <2>2. QED BY <1>1, <1>2, <1>3, <1>5, <1>6, <2>1 DEF Delivered
<1>9. QED BY <1>1, <1>2, <1>3, <1>4, <1>7, <1>8, DeliveryKeeps DEF Ingesting

\* A second body is refused; a mark that stood before stays.
LEMMA ConflictKeeps ==
  ASSUME Kept, NEW p \in Procs, ingest_conflict(p)
  PROVE  Kept'
<1> DEFINE o == cmd[p]
<1>1. /\ o.pc = "record" /\ Locked(p) /\ Finish(p)
      /\ record[o.side][o.receipt] # None
      /\ pending' = IF o.owned THEN [pending EXCEPT ![o.side] = @ \ {o.receipt}] ELSE pending
      /\ UNCHANGED <<record, journal, marker, index, dimension, block>>
  BY DEF ingest_conflict, At, EventConflict, Own, It
<1>2. /\ Delivered(p) /\ StoresTyped /\ Consistent /\ \A s \in Sides : holder[s] = p
      /\ o.receipt \in Receipts /\ o.side \in Sides
  BY <1>1, Delivering DEF Ingesting
<1>3. o.owned => o.receipt \in index[o.side] /\ o.receipt \in marker[o.side]
  BY <1>1, <1>2 DEF Delivered
<1>4. StoresTyped' BY <1>1, <1>2 DEF StoresTyped
<1>5. Consistent'
  <2>1. MarkCovers' BY <1>1, <1>2, <1>3 DEF Consistent, MarkCovers, Recorded, StoresTyped
  <2>2. QED BY <1>1, <1>2, <2>1 DEF Consistent, BodiesAgree, ReadOnce, Recorded, Active
<1>6. QED BY <1>1, <1>2, <1>4, <1>5, EndKeeps

\* The journal only grows.
LEMMA JournalKeeps ==
  ASSUME Kept, NEW p \in Procs, write_event(p)
  PROVE  Kept'
<1> DEFINE o == cmd[p]
           c == With(o, [pc |-> "marker"])
<1>1. /\ o.pc = "journal" /\ Locked(p) /\ cmd' = [cmd EXCEPT ![p] = c]
      /\ journal' = [journal EXCEPT ![o.side][o.receipt] = IF @ = 0 THEN 1 ELSE 2]
      /\ UNCHANGED <<record, marker, index, pending, dimension, holder, block>>
  BY DEF write_event, At, Goto, Own, It
<1>2. /\ Delivered(p) /\ StoresTyped /\ Consistent
      /\ {"name", "pc", "locks", "receipt", "body", "side", "owned"} \subseteq DOMAIN o
      /\ o.receipt \in Receipts /\ o.side \in Sides /\ o.body \in Bodies /\ o.body # None
      /\ cmd'[p] = c
  BY <1>1, Delivering DEF Ingesting, Kept, Typed
<1>3. /\ {"name", "pc", "locks", "receipt", "body", "side", "owned"} \subseteq DOMAIN c
      /\ c.pc = "marker" /\ c.side = o.side
      /\ c.locks = o.locks /\ c.receipt = o.receipt /\ c.body = o.body
  BY <1>2 DEF With
<1> HIDE DEF c
<1>4. StoresTyped' BY <1>1, <1>2 DEF StoresTyped
<1>5. /\ journal'[o.side][o.receipt] > 0
      /\ \A s \in Sides, r \in Receipts : journal[s][r] > 0 => journal'[s][r] > 0
  BY <1>1, <1>2 DEF StoresTyped
<1>6. Consistent'
  BY <1>1, <1>2, <1>5 DEF Consistent, MarkCovers, BodiesAgree, ReadOnce, Recorded, Active, StoresTyped
<1>7. Delivered(p)' BY <1>1, <1>2, <1>3, <1>5 DEF Delivered, Ingesting
<1>8. QED BY <1>1, <1>2, <1>3, <1>4, <1>6, <1>7, DeliveryKeeps DEF Ingesting

\* The marker follows the row.
LEMMA MarkerKeeps ==
  ASSUME Kept, NEW p \in Procs, write_marker(p)
  PROVE  Kept'
<1> DEFINE o == cmd[p]
           c == With(o, [pc |-> "index"])
<1>1. /\ o.pc = "marker" /\ Locked(p) /\ cmd' = [cmd EXCEPT ![p] = c]
      /\ marker' = [marker EXCEPT ![o.side] = @ \cup {o.receipt}]
      /\ UNCHANGED <<record, journal, index, pending, dimension, holder, block>>
  BY DEF write_marker, At, Goto, Own, It
<1>2. /\ Delivered(p) /\ StoresTyped /\ Consistent
      /\ {"name", "pc", "locks", "receipt", "body", "side", "owned"} \subseteq DOMAIN o
      /\ o.receipt \in Receipts /\ o.side \in Sides /\ o.body \in Bodies /\ o.body # None
      /\ cmd'[p] = c
  BY <1>1, Delivering DEF Ingesting, Kept, Typed
<1>3. /\ {"name", "pc", "locks", "receipt", "body", "side", "owned"} \subseteq DOMAIN c
      /\ c.pc = "index" /\ c.side = o.side
      /\ c.locks = o.locks /\ c.receipt = o.receipt /\ c.body = o.body
  BY <1>2 DEF With
<1> HIDE DEF c
<1>4. StoresTyped' BY <1>1, <1>2 DEF StoresTyped
<1>5. /\ o.receipt \in marker'[o.side] /\ journal[o.side][o.receipt] > 0
      /\ \A s \in Sides : /\ marker[s] \subseteq marker'[s]
                          /\ \A r \in marker'[s] \ marker[s] : s = o.side /\ r = o.receipt
  BY <1>1, <1>2 DEF StoresTyped, Delivered
<1>6. Consistent'
  BY <1>1, <1>2, <1>5 DEF Consistent, MarkCovers, BodiesAgree, ReadOnce, Recorded, Active
<1>7. Delivered(p)' BY <1>1, <1>2, <1>3, <1>5 DEF Delivered, Ingesting
<1>8. QED BY <1>1, <1>2, <1>3, <1>4, <1>6, <1>7, DeliveryKeeps DEF Ingesting

\* Only what has a record is indexed.
LEMMA IndexKeeps ==
  ASSUME Kept, NEW p \in Procs, _add_to_index(p)
  PROVE  Kept'
<1> DEFINE o == cmd[p]
           c == With(o, [pc |-> "clear"])
<1>1. /\ o.pc = "index" /\ Locked(p) /\ cmd' = [cmd EXCEPT ![p] = c]
      /\ index' = [index EXCEPT ![o.side] = @ \cup {o.receipt}]
      /\ UNCHANGED <<record, journal, marker, pending, dimension, holder, block>>
  BY DEF _add_to_index, At, Goto, Own, It
<1>2. /\ Delivered(p) /\ StoresTyped /\ Consistent
      /\ {"name", "pc", "locks", "receipt", "body", "side", "owned"} \subseteq DOMAIN o
      /\ o.receipt \in Receipts /\ o.side \in Sides /\ o.body \in Bodies /\ o.body # None
      /\ cmd'[p] = c
  BY <1>1, Delivering DEF Ingesting, Kept, Typed
<1>3. /\ {"name", "pc", "locks", "receipt", "body", "side", "owned"} \subseteq DOMAIN c
      /\ c.pc = "clear" /\ c.side = o.side
      /\ c.locks = o.locks /\ c.receipt = o.receipt /\ c.body = o.body
  BY <1>2 DEF With
<1> HIDE DEF c
<1>4. StoresTyped' BY <1>1, <1>2 DEF StoresTyped
<1>5. /\ o.receipt \in index'[o.side] /\ record[o.side][o.receipt] # None
      /\ \A s \in Sides : /\ index[s] \subseteq index'[s]
                          /\ \A r \in index'[s] \ index[s] : s = o.side /\ r = o.receipt
  BY <1>1, <1>2 DEF StoresTyped, Delivered
<1>6. Consistent'
  BY <1>1, <1>2, <1>5 DEF Consistent, MarkCovers, BodiesAgree, ReadOnce, Recorded, Active
<1>7. Delivered(p)' BY <1>1, <1>2, <1>3, <1>5 DEF Delivered, Ingesting
<1>8. QED BY <1>1, <1>2, <1>3, <1>4, <1>6, <1>7, DeliveryKeeps DEF Ingesting

\* The mark is cleared when everything it stands for is written; the buyer's body is then the
\* one the provider's memory is about to get.
LEMMA ClearKeeps ==
  ASSUME Kept, NEW p \in Procs, ingest_clear(p)
  PROVE  Kept'
<1> DEFINE o == cmd[p]
           c == With(o, [pc |-> "mark", side |-> "provider"])
<1>1. /\ o.pc = "clear" /\ Locked(p)
      /\ pending' = [pending EXCEPT ![o.side] = @ \ {o.receipt}]
      /\ UNCHANGED <<record, journal, marker, index, dimension, block>>
      /\ IF o.side = "buyer" THEN cmd' = [cmd EXCEPT ![p] = c] /\ UNCHANGED holder ELSE Finish(p)
  BY DEF ingest_clear, At, Goto, Own, It
<1>2. /\ Delivered(p) /\ StoresTyped /\ Consistent /\ \A s \in Sides : holder[s] = p
      /\ {"name", "pc", "locks", "receipt", "body", "side", "owned"} \subseteq DOMAIN o
      /\ o.receipt \in Receipts /\ o.side \in Sides
  BY <1>1, Delivering DEF Ingesting
<1>3. /\ o.receipt \in index[o.side] /\ o.receipt \in marker[o.side]
      /\ record[o.side][o.receipt] = o.body
  BY <1>1, <1>2 DEF Delivered
<1>4. StoresTyped' BY <1>1, <1>2 DEF StoresTyped
<1>5. Consistent'
  <2>1. MarkCovers' BY <1>1, <1>2, <1>3 DEF Consistent, MarkCovers, Recorded, StoresTyped
  <2>2. QED BY <1>1, <1>2, <2>1 DEF Consistent, BodiesAgree, ReadOnce, Recorded, Active
<1>6. CASE o.side = "buyer"
  <2>1. /\ {"name", "pc", "locks", "receipt", "body", "side", "owned"} \subseteq DOMAIN c
        /\ c.pc = "mark" /\ c.side = "provider"
        /\ c.locks = o.locks /\ c.receipt = o.receipt /\ c.body = o.body
    BY <1>2 DEF With
  <2> HIDE DEF c
  <2>2. cmd'[p] = c BY <1>1, <1>6 DEF Kept, Typed
  <2>3. Delivered(p)' BY <1>1, <1>3, <1>6, <2>1, <2>2 DEF Delivered
  <2>4. QED BY <1>1, <1>4, <1>5, <1>6, <2>1, <2>3, DeliveryKeeps DEF Ingesting, Sides
<1>7. CASE o.side # "buyer" BY <1>1, <1>2, <1>4, <1>5, <1>7, EndKeeps
<1>8. QED BY <1>6, <1>7

\* A repair puts back only what has a record.
LEMMA RepairKeeps ==
  ASSUME Kept, NEW p \in Procs, repair_index(p)
  PROVE  Kept'
<1>1. /\ cmd[p].pc = "repair" /\ Locked(p) /\ Finish(p)
      /\ index' = [s \in Sides |-> index[s] \cup Recorded(s)]
      /\ UNCHANGED <<record, journal, marker, pending, dimension, block>>
  BY DEF repair_index, At
<1>2. /\ StoresTyped /\ Consistent /\ \A s \in Sides : holder[s] = p
  BY <1>1, BothHeld DEF Kept, Typed, Sound, Formed
<1>3. StoresTyped' BY <1>1, <1>2 DEF StoresTyped, Recorded
<1>4. Consistent'
  BY <1>1, <1>2 DEF Consistent, MarkCovers, BodiesAgree, ReadOnce, Recorded, Active
<1>5. QED BY <1>1, <1>2, <1>3, <1>4, EndKeeps

-----------------------------------------------------------------------------
\* A command that lets go of its locks, or had none, goes on to a step that starts from nothing.
LEMMA RestKeeps ==
  ASSUME Kept, NEW p \in Procs, NEW c, cmd' = [cmd EXCEPT ![p] = c], Formed(c),
         c.pc \in {"survey", "define", "write", "save", "recall_buyer"},
         holder' = Free(p) \/ (UNCHANGED holder /\ cmd[p].locks = <<>>),
         \A s \in Sides : holder[s] # p => Untouched(s), UNCHANGED block,
         StoresTyped', Consistent'
  PROVE  Kept'
<1>1. cmd'[p] = c BY DEF Kept, Typed
<1>2. ~InsideLocks(c) BY DEF InsideLocks, Ingesting
<1>3. Delivered(p)' BY <1>1 DEF Delivered, Ingesting
<1>4. Quoted(p)' BY <1>1 DEF Quoted, QuotedBy
<1>5. QED BY <1>2, <1>3, <1>4, StepKeeps

\* Readings change only where the lock is held, to fewer, or to one where there was none.
LEMMA SurveyKeeps ==
  ASSUME Kept, NEW p \in Procs, survey(p)
  PROVE  Kept'
<1> DEFINE o == cmd[p]
           s == o.side
           rows == Active(s, o.type)
           held == IF o.relearn \/ rows = {} THEN None ELSE CHOOSE d \in rows : TRUE
           existing == [o.existing EXCEPT ![s] = held]
           c == IF s = "buyer"
                THEN With(o, [existing |-> existing, side |-> "provider", locks |-> <<"provider">>])
                ELSE With(o, [existing |-> existing, pc |-> "define", locks |-> <<>>])
<1>1. /\ o.pc = "survey" /\ Locked(p) /\ UNCHANGED <<store, block>>
      /\ \/ UNCHANGED dimension
         \/ dimension' = [dimension EXCEPT ![s] =
                            [d \in DimensionIds |->
                               IF d \in rows THEN [@[d] EXCEPT !.status = "retired"] ELSE @[d]]]
      /\ Finish(p) \/ (cmd' = [cmd EXCEPT ![p] = c] /\ holder' = Free(p))
  BY DEF survey, At, Leave, Own
<1>2. /\ Formed(o) /\ StoresTyped /\ Consistent /\ o.pc = "survey"
      /\ {"name", "pc", "locks", "side", "type", "relearn", "existing"} \subseteq DOMAIN o
      /\ s \in Sides /\ o.type \in EventTypes
      /\ o.existing \in [Sides -> DimensionIds \cup {None}] /\ o.locks = <<s>>
  BY <1>1 DEF Kept, Typed, Sound, Formed, Learning
<1>3. holder[s] = p
  BY <1>1, <1>2, LockedIff, PlanLocks DEF Sides
<1>4. existing \in [Sides -> DimensionIds \cup {None}]
  BY <1>2 DEF Active
<1>5. Formed(c) /\ c.pc \in {"survey", "define"}
  <2> HIDE DEF existing
  <2>1. CASE s = "buyer"
    <3>1. /\ {"name", "pc", "locks", "side", "type", "relearn", "existing"} \subseteq DOMAIN c
          /\ c.pc = "survey" /\ c.side = "provider" /\ c.locks = <<"provider">>
          /\ c.type = o.type /\ c.existing = existing
      BY <1>2, <2>1 DEF With
    <3> HIDE DEF c
    <3>2. QED BY <1>2, <1>4, <3>1 DEF Formed, Ingesting, Learning, Reading, Sides
  <2>2. CASE s # "buyer"
    <3>1. /\ {"name", "pc", "locks", "side", "type", "relearn", "existing"} \subseteq DOMAIN c
          /\ c.pc = "define" /\ c.side = s /\ c.locks = <<>>
          /\ c.type = o.type /\ c.existing = existing
      BY <1>2, <2>2 DEF With
    <3> HIDE DEF c
    <3>2. QED BY <1>2, <1>4, <3>1 DEF Formed, Ingesting, Learning, Reading, Sides
  <2>3. QED BY <2>1, <2>2
<1> HIDE DEF c
<1>6. /\ \A d \in DimensionIds : \/ dimension'[s][d] = dimension[s][d]
                                 \/ dimension'[s][d] = [dimension[s][d] EXCEPT !.status = "retired"]
      /\ \A i \in Sides \ {s} : dimension'[i] = dimension[i]
      /\ dimension' \in [Sides -> [DimensionIds -> Rows]]
  <2>1. dimension \in [Sides -> [DimensionIds -> Rows]] BY <1>2 DEF StoresTyped
  <2>2. \A row \in Rows : [row EXCEPT !.status = "retired"] \in Rows BY DEF Rows
  <2>3. CASE UNCHANGED dimension BY <2>1, <2>3
  <2>4. CASE dimension' = [dimension EXCEPT ![s] =
                            [d \in DimensionIds |->
                               IF d \in rows THEN [@[d] EXCEPT !.status = "retired"] ELSE @[d]]]
    <3> HIDE DEF rows
    <3>1. dimension'[s] = [d \in DimensionIds |->
                             IF d \in rows THEN [dimension[s][d] EXCEPT !.status = "retired"]
                             ELSE dimension[s][d]]
      BY <1>2, <2>1, <2>4
    <3>2. \A i \in Sides \ {s} : dimension'[i] = dimension[i] BY <2>1, <2>4
    <3>3. dimension'[s] \in [DimensionIds -> Rows] BY <1>2, <2>1, <2>2, <3>1
    <3>4. dimension' = [i \in Sides |-> dimension'[i]] BY <2>1, <2>4
    <3>5. QED BY <2>1, <3>1, <3>2, <3>3, <3>4
  <2>5. QED BY <1>1, <2>3, <2>4
<1>7. StoresTyped' BY <1>1, <1>2, <1>6 DEF StoresTyped, store
<1>8. Consistent'
  <2>1. \A i \in Sides : \A t : Active(i, t)' \subseteq Active(i, t)
    <3>1. ASSUME NEW i \in Sides, NEW t, NEW d \in DimensionIds,
                 dimension'[i][d] = [type |-> t, status |-> "active"]
          PROVE  dimension[i][d] = [type |-> t, status |-> "active"]
      <4>1. dimension[i][d] \in Rows BY <1>2 DEF StoresTyped
      <4>2. \A row \in Rows : [row EXCEPT !.status = "retired"] # [type |-> t, status |-> "active"]
        BY DEF Rows
      <4>3. QED BY <1>6, <3>1, <4>1, <4>2
    <3>2. QED BY <3>1 DEF Active
  <2>2. ReadOnce' BY <1>2, <2>1 DEF Consistent, ReadOnce
  <2>3. QED BY <1>1, <1>2, <2>2 DEF Consistent, MarkCovers, BodiesAgree, Recorded, store
<1>9. \A i \in Sides : holder[i] # p => Untouched(i)
  BY <1>1, <1>3, <1>6 DEF Untouched, store
<1>10. QED BY <1>1, <1>5, <1>7, <1>8, <1>9, EndKeeps, RestKeeps

\* The step after a definition, or after the buyer's memory, is to write a side.
LEMMA WriteFormed ==
  ASSUME NEW p, Formed(cmd[p]), cmd[p].pc \in {"define", "write"}, NEW s \in Sides,
         NEW c, NEW d \in DimensionIds,
         \/ c = With(cmd[p], With(Write(p, s), [definition |-> d]))
         \/ c = With(cmd[p], Write(p, s)) /\ cmd[p].pc = "write"
  PROVE  Formed(c) /\ c.pc = "write"
<1>1. /\ {"name", "pc", "locks", "side", "type", "relearn", "existing"} \subseteq DOMAIN cmd[p]
      /\ cmd[p].type \in EventTypes
      /\ cmd[p].existing \in [Sides -> DimensionIds \cup {None}]
      /\ cmd[p].pc = "write" =>
           "definition" \in DOMAIN cmd[p] /\ cmd[p].definition \in DimensionIds
  BY DEF Formed, Learning
<1>2. /\ {"name", "pc", "locks", "side", "type", "relearn", "existing", "definition"} \subseteq DOMAIN c
      /\ c.pc = "write" /\ c.side = s /\ c.type = cmd[p].type /\ c.existing = cmd[p].existing
      /\ c.definition \in DimensionIds
      /\ c.locks = IF cmd[p].existing[s] = None THEN <<s>> ELSE <<>>
  <2> DEFINE plan == IF cmd[p].existing[s] = None THEN <<s>> ELSE <<>>
  <2>1. Write(p, s) = [pc |-> "write", side |-> s, locks |-> plan] BY DEF Write
  <2>2. With(Write(p, s), [definition |-> d])
          = [pc |-> "write", side |-> s, locks |-> plan, definition |-> d]
    BY <2>1 DEF With
  <2> HIDE DEF plan
  <2>3. CASE c = With(cmd[p], With(Write(p, s), [definition |-> d]))
    <3>1. c = With(cmd[p], [pc |-> "write", side |-> s, locks |-> plan, definition |-> d])
      BY <2>2, <2>3
    <3>2. /\ {"name", "pc", "locks", "side", "type", "relearn", "existing", "definition"}
               \subseteq DOMAIN c
          /\ c.pc = "write" /\ c.side = s /\ c.type = cmd[p].type
          /\ c.existing = cmd[p].existing /\ c.definition = d /\ c.locks = plan
      BY <1>1, <3>1 DEF With
    <3>3. QED BY <3>2 DEF plan
  <2>4. CASE c = With(cmd[p], Write(p, s)) /\ cmd[p].pc = "write"
    BY <1>1, <2>1, <2>4 DEF With, plan
  <2>5. QED BY <2>3, <2>4
<1>3. QED BY <1>1, <1>2 DEF Formed, Ingesting, Learning, Reading

LEMMA DefineKeeps ==
  ASSUME Kept, NEW p \in Procs, define(p)
  PROVE  Kept'
<1> DEFINE held == {cmd[p].existing[s] : s \in Sides} \ {None}
<1>1. /\ cmd[p].pc = "define" /\ UNCHANGED <<store, dimension, block>>
      /\ \/ Finish(p)
         \/ \E d \in (IF held = {} THEN DimensionIds ELSE held) :
              /\ cmd' = [cmd EXCEPT ![p] = With(@, With(Write(p, "buyer"), [definition |-> d]))]
              /\ UNCHANGED holder
  BY DEF define, At, Goto
<1>2. /\ Formed(cmd[p]) /\ cmd[p].locks = <<>>
      /\ cmd[p].existing \in [Sides -> DimensionIds \cup {None}]
  BY <1>1 DEF Kept, Sound, Formed, Learning
<1>3. held \subseteq DimensionIds BY <1>2
<1>4. CASE Finish(p) BY <1>1, <1>4, EndKeeps, StoresAlone
<1>5. CASE \E d \in (IF held = {} THEN DimensionIds ELSE held) :
             /\ cmd' = [cmd EXCEPT ![p] = With(@, With(Write(p, "buyer"), [definition |-> d]))]
             /\ UNCHANGED holder
  <2>1. PICK d \in DimensionIds :
          /\ cmd' = [cmd EXCEPT ![p] = With(cmd[p], With(Write(p, "buyer"), [definition |-> d]))]
          /\ UNCHANGED holder
    BY <1>3, <1>5
  <2> DEFINE c == With(cmd[p], With(Write(p, "buyer"), [definition |-> d]))
  <2>2. Formed(c) /\ c.pc = "write" BY <1>1, <1>2, WriteFormed DEF Sides
  <2> HIDE DEF c
  <2>3. cmd' = [cmd EXCEPT ![p] = c] BY <2>1 DEF c
  <2>4. QED BY <1>1, <1>2, <2>1, <2>2, <2>3, RestKeeps, StoresAlone
<1>6. QED BY <1>1, <1>4, <1>5

LEMMA SkipKeeps ==
  ASSUME Kept, NEW p \in Procs, skip(p)
  PROVE  Kept'
<1> DEFINE c == With(cmd[p], Write(p, "provider"))
<1>1. /\ cmd[p].pc = "write" /\ UNCHANGED <<store, dimension, block>>
      /\ Finish(p) \/ (cmd' = [cmd EXCEPT ![p] = c] /\ holder' = Free(p))
  BY DEF skip, At, Leave
<1>2. Formed(cmd[p]) /\ cmd[p].definition \in DimensionIds
  BY <1>1 DEF Kept, Sound, Formed, Learning
<1>3. Formed(c) /\ c.pc = "write" BY <1>1, <1>2, WriteFormed DEF Sides
<1> HIDE DEF c
<1>4. QED BY <1>1, <1>3, EndKeeps, RestKeeps, StoresAlone

\* A reading is written only where none of its type is active.
LEMMA WriteKeeps ==
  ASSUME Kept, NEW p \in Procs, write(p)
  PROVE  Kept'
<1> DEFINE o == cmd[p]
           s == o.side
           row == [type |-> o.type, status |-> "active"]
           c == With(o, Write(p, "provider"))
<1>1. /\ o.pc = "write" /\ Locked(p) /\ o.existing[s] = None /\ UNCHANGED <<store, block>>
      /\ \/ UNCHANGED dimension
         \/ /\ Active(s, o.type) = {}
            /\ dimension' = [dimension EXCEPT ![s][o.definition] = row]
      /\ Finish(p) \/ (cmd' = [cmd EXCEPT ![p] = c] /\ holder' = Free(p))
  BY DEF write, At, Leave, Own, Overtaken
<1>2. /\ Formed(o) /\ StoresTyped /\ Consistent /\ s \in Sides /\ o.type \in EventTypes
      /\ o.definition \in DimensionIds /\ o.locks = <<s>>
  BY <1>1 DEF Kept, Typed, Sound, Formed, Learning
<1>3. holder[s] = p BY <1>1, <1>2, LockedIff, PlanLocks DEF Sides
<1>4. Formed(c) /\ c.pc = "write" BY <1>1, <1>2, WriteFormed DEF Sides
<1> HIDE DEF c
<1>5. row \in Rows BY <1>2 DEF Rows
<1>6. StoresTyped'
  <2>1. dimension' \in [Sides -> [DimensionIds -> Rows]]
    <3> HIDE DEF row
    <3>1. dimension \in [Sides -> [DimensionIds -> Rows]] BY <1>2 DEF StoresTyped
    <3>2. QED BY <1>1, <1>2, <1>5, <3>1
  <2>2. QED BY <1>1, <1>2, <2>1 DEF StoresTyped, store
<1>7. Consistent'
  <2>1. CASE UNCHANGED dimension BY <1>1, <2>1, StoresAlone
  <2>2. CASE /\ Active(s, o.type) = {}
             /\ dimension' = [dimension EXCEPT ![s][o.definition] = row]
    <3>1. /\ dimension'[s][o.definition] = row
          /\ \A i \in Sides, d \in DimensionIds :
               ~(i = s /\ d = o.definition) => dimension'[i][d] = dimension[i][d]
      BY <1>2, <2>2 DEF StoresTyped
    <3>2. ASSUME NEW i \in Sides, NEW t \in EventTypes, NEW d \in Active(i, t)', NEW e \in Active(i, t)'
          PROVE  d = e
      <4>1. /\ d \in DimensionIds /\ e \in DimensionIds
            /\ dimension'[i][d] = [type |-> t, status |-> "active"]
            /\ dimension'[i][e] = [type |-> t, status |-> "active"]
        BY <3>2 DEF Active
      <4>2. CASE i = s /\ t = o.type
        BY <2>2, <3>1, <4>1, <4>2 DEF Active
      <4>3. CASE i = s /\ t # o.type
        <5>1. row # [type |-> t, status |-> "active"] BY <4>3
        <5>2. d \in Active(i, t) /\ e \in Active(i, t) BY <3>1, <4>1, <4>3, <5>1 DEF Active
        <5>3. QED BY <1>2, <5>2 DEF Consistent, ReadOnce
      <4>4. CASE i # s
        <5>1. d \in Active(i, t) /\ e \in Active(i, t) BY <3>1, <4>1, <4>4 DEF Active
        <5>2. QED BY <1>2, <5>1 DEF Consistent, ReadOnce
      <4>5. QED BY <4>2, <4>3, <4>4
    <3>3. ReadOnce' BY <3>2 DEF ReadOnce
    <3>4. QED BY <1>1, <1>2, <3>3 DEF Consistent, MarkCovers, BodiesAgree, Recorded, store
  <2>3. QED BY <1>1, <2>1, <2>2
<1>8. \A i \in Sides : holder[i] # p => Untouched(i)
  BY <1>1, <1>2, <1>3 DEF Untouched, store, StoresTyped
<1>9. QED BY <1>1, <1>4, <1>6, <1>7, <1>8, EndKeeps, RestKeeps

-----------------------------------------------------------------------------
\* A quote's next step, inside its locks, with what it has read so far.
LEMMA QuotingKeeps ==
  ASSUME Kept, NEW p \in Procs, Locked(p), NEW c, cmd' = [cmd EXCEPT ![p] = c],
         UNCHANGED <<store, dimension, holder, block>>,
         Formed(c), c.pc \in Reading, c.locks = cmd[p].locks, QuotedBy(c)
  PROVE  Kept'
<1>1. cmd'[p] = c BY DEF Kept, Typed
<1>2. Quoted(p)' BY <1>1, StoresAlone, QuoteStands
<1>3. Delivered(p)' BY <1>1 DEF Delivered, Ingesting, Reading
<1>4. QED BY <1>2, <1>3, StoresAlone, StepKeeps

\* What a reading command carries.
LEMMA ReadingCommand ==
  ASSUME Kept, NEW p \in Procs, cmd[p].pc \in Reading
  PROVE  /\ Formed(cmd[p]) /\ QuotedBy(cmd[p])
         /\ {"name", "pc", "locks", "evidence"} \subseteq DOMAIN cmd[p]
         /\ cmd[p].evidence = [s \in Sides |-> cmd[p].evidence[s]]
         /\ cmd[p].locks \in {both_locked, sign_locks}
BY DEF Kept, Sound, Quoted, Formed

LEMMA RecallKeeps ==
  ASSUME Kept, NEW p \in Procs,
         \/ recall(p, "buyer", "recall_buyer", "recall_provider")
         \/ recall(p, "provider", "recall_provider", "ontology")
  PROVE  Kept'
<1> DEFINE o == cmd[p]
<1>1. ASSUME NEW s \in Sides, NEW from \in Reading, NEW to \in Reading, recall(p, s, from, to),
             \/ s = "buyer" /\ from = "recall_buyer" /\ to = "recall_provider"
             \/ s = "provider" /\ from = "recall_provider" /\ to = "ontology"
      PROVE  Kept'
  <2> DEFINE evidence == [o.evidence EXCEPT ![s] = Recalled(s)]
             c == With(o, [evidence |-> evidence, pc |-> to])
  <2>1. /\ o.pc = from /\ Locked(p) /\ UNCHANGED <<store, dimension, block>>
        /\ \/ Finish(p)
           \/ ~Unfinished(s) /\ cmd' = [cmd EXCEPT ![p] = c] /\ UNCHANGED holder
    BY <1>1 DEF recall, At, Goto
  <2>2. /\ Formed(o) /\ QuotedBy(o)
        /\ {"name", "pc", "locks", "evidence"} \subseteq DOMAIN o
        /\ o.evidence = [i \in Sides |-> o.evidence[i]]
        /\ o.locks \in {both_locked, sign_locks}
    BY <1>1, <2>1, ReadingCommand
  <2>3. CASE Finish(p) BY <2>1, <2>3, EndKeeps, StoresAlone
  <2>4. CASE ~Unfinished(s) /\ cmd' = [cmd EXCEPT ![p] = c] /\ UNCHANGED holder
    <3>1. /\ evidence = [i \in Sides |-> evidence[i]] /\ evidence[s] = Recalled(s)
          /\ \A i \in Sides \ {s} : evidence[i] = o.evidence[i]
      BY <2>2
    <3> HIDE DEF evidence
    <3>2. /\ {"name", "pc", "locks", "evidence"} \subseteq DOMAIN c
          /\ c.pc = to /\ c.evidence = evidence /\ c.name = o.name /\ c.locks = o.locks
          /\ o.name = "create-deal" =>
               {"loaded", "signing"} \subseteq DOMAIN o /\ {"loaded", "signing"} \subseteq DOMAIN c
      BY <1>1, <2>1, <2>2 DEF With, Formed
    <3> HIDE DEF c
    <3>3. Formed(c) BY <1>1, <2>2, <3>1, <3>2 DEF Formed, Ingesting, Learning, Reading
    <3>4. QuotedBy(c)
      BY <1>1, <2>1, <2>2, <2>4, <3>1, <3>2 DEF QuotedBy, Sides
    <3>5. QED BY <1>1, <2>1, <2>2, <2>4, <3>2, <3>3, <3>4, QuotingKeeps
  <2>5. QED BY <2>1, <2>3, <2>4
<1>2. QED BY <1>1 DEF Sides, Reading

LEMMA DeriveKeeps ==
  ASSUME Kept, NEW p \in Procs, derive(p)
  PROVE  Kept'
<1> DEFINE o == cmd[p]
           half == Half(o.evidence)
           c == With(o, [half |-> half, pc |-> "derived"])
<1>1. /\ o.pc = "ontology" /\ Locked(p) /\ UNCHANGED <<store, dimension, block>>
      /\ \/ Finish(p)
         \/ Quotable(o.evidence) /\ cmd' = [cmd EXCEPT ![p] = c] /\ UNCHANGED holder
  BY DEF derive, At, Goto
<1>2. /\ Formed(o) /\ QuotedBy(o)
      /\ {"name", "pc", "locks", "evidence"} \subseteq DOMAIN o
      /\ o.evidence = [i \in Sides |-> o.evidence[i]]
      /\ o.locks \in {both_locked, sign_locks}
  BY <1>1, ReadingCommand DEF Reading
<1>3. CASE Finish(p) BY <1>1, <1>3, EndKeeps, StoresAlone
<1>4. CASE Quotable(o.evidence) /\ cmd' = [cmd EXCEPT ![p] = c] /\ UNCHANGED holder
  <2> HIDE DEF half
  <2>1. /\ {"name", "pc", "locks", "evidence", "half"} \subseteq DOMAIN c
        /\ c.pc = "derived" /\ c.evidence = o.evidence /\ c.half = half
        /\ c.name = o.name /\ c.locks = o.locks
        /\ o.name = "create-deal" => {"loaded", "signing"} \subseteq DOMAIN c
    BY <1>1, <1>2 DEF With, Formed, Reading
  <2> HIDE DEF c
  <2>2. Formed(c) BY <1>2, <2>1 DEF Formed, Ingesting, Learning, Reading
  <2>3. QuotedBy(c) BY <1>1, <1>2, <1>4, <2>1 DEF QuotedBy, half
  <2>4. QED BY <1>1, <1>2, <1>4, <2>1, <2>2, <2>3, QuotingKeeps DEF Reading
<1>5. QED BY <1>1, <1>3, <1>4

\* The comparison with the document, first and again under the ledger's lock.
LEMMA CheckKeeps ==
  ASSUME Kept, NEW p \in Procs, _require_document_came_from_memory(p)
  PROVE  Kept'
<1> DEFINE o == cmd[p]
           again == With(o, With(Quoting, [signing |-> TRUE, locks |-> sign_locks]))
           ready == With(o, [pc |-> "sign"])
<1>1. /\ o.pc = "derived" /\ o.name = "create-deal" /\ Locked(p)
      /\ UNCHANGED <<store, dimension, block>>
      /\ \/ Finish(p)
         \/ cmd' = [cmd EXCEPT ![p] = again] /\ holder' = Free(p)
         \/ o.half = o.loaded /\ cmd' = [cmd EXCEPT ![p] = ready] /\ UNCHANGED holder
  BY DEF _require_document_came_from_memory, At, Goto, Leave
<1>2. /\ Formed(o) /\ QuotedBy(o)
      /\ {"name", "pc", "locks", "evidence", "half", "loaded", "signing"} \subseteq DOMAIN o
      /\ o.evidence = [i \in Sides |-> o.evidence[i]]
      /\ o.locks \in {both_locked, sign_locks}
  BY <1>1, ReadingCommand DEF Reading, Formed
<1>3. CASE Finish(p) BY <1>1, <1>3, EndKeeps, StoresAlone
<1>4. CASE cmd' = [cmd EXCEPT ![p] = again] /\ holder' = Free(p)
  <2> DEFINE changes == With(Quoting, [signing |-> TRUE, locks |-> sign_locks])
  <2>1. /\ DOMAIN changes = {"pc", "evidence", "signing", "locks"}
        /\ changes.pc = "recall_buyer" /\ changes.evidence = [s \in Sides |-> <<>>]
        /\ changes.locks = sign_locks
    BY DEF With, Quoting
  <2> HIDE DEF changes
  <2>2. again = With(o, changes) BY DEF changes
  <2>3. /\ {"name", "pc", "locks", "evidence", "half", "loaded", "signing"} \subseteq DOMAIN again
        /\ again.pc = "recall_buyer" /\ again.evidence = [s \in Sides |-> <<>>]
        /\ again.locks = sign_locks
    BY <1>2, <2>1, <2>2 DEF With
  <2> HIDE DEF again
  <2>4. Formed(again) BY <2>3 DEF Formed, Ingesting, Learning, Reading
  <2>5. QED BY <1>1, <1>4, <2>3, <2>4, StoresAlone, RestKeeps
<1>5. CASE o.half = o.loaded /\ cmd' = [cmd EXCEPT ![p] = ready] /\ UNCHANGED holder
  <2>1. /\ {"name", "pc", "locks", "evidence", "half", "loaded", "signing"} \subseteq DOMAIN ready
        /\ ready.pc = "sign" /\ ready.evidence = o.evidence /\ ready.half = o.half
        /\ ready.loaded = o.loaded /\ ready.locks = o.locks
    BY <1>2 DEF With
  <2> HIDE DEF ready
  <2>2. Formed(ready) BY <1>2, <2>1 DEF Formed, Ingesting, Learning, Reading
  <2>3. QuotedBy(ready) BY <1>1, <1>2, <1>5, <2>1 DEF QuotedBy
  <2>4. QED BY <1>1, <1>5, <2>1, <2>2, <2>3, QuotingKeeps DEF Reading
<1>6. QED BY <1>1, <1>3, <1>4, <1>5

\* The steps that let go of the memories with a document, write it or sign it.
LEMMA LeavingKeeps ==
  ASSUME Kept, NEW p \in Procs, unlock(p) \/ _write_atomic(p) \/ sign(p)
  PROVE  Kept'
<1>1. CASE unlock(p)
  <2> DEFINE c == With(cmd[p], [pc |-> "save", locks |-> <<>>])
  <2>1. /\ cmd' = [cmd EXCEPT ![p] = c] /\ holder' = Free(p) /\ Formed(cmd[p])
        /\ UNCHANGED <<store, dimension, block>>
    BY <1>1 DEF unlock, Leave, Kept, Sound
  <2>2. {"name", "pc", "locks"} \subseteq DOMAIN c /\ c.pc = "save" /\ c.locks = <<>>
    BY <2>1 DEF With, Formed
  <2> HIDE DEF c
  <2>3. Formed(c) BY <2>2 DEF Formed, Ingesting, Learning, Reading
  <2>4. QED BY <2>1, <2>2, <2>3, StoresAlone, RestKeeps
<1>2. CASE _write_atomic(p) \/ sign(p)
  <2>1. Finish(p) /\ UNCHANGED <<store, dimension, block>> BY <1>2 DEF _write_atomic, sign
  <2>2. QED BY <2>1, StoresAlone, EndKeeps
<1>3. QED BY <1>1, <1>2

-----------------------------------------------------------------------------
\* The chain may move a receipt, or nothing may happen.
LEMMA ChainKeeps ==
  ASSUME Kept, UNCHANGED <<store, dimension, holder, cmd>>, block' \in [Receipts -> Bodies]
  PROVE  Kept'
<1>1. ASSUME NEW p \in Procs PROVE Sound(p)'
  <2>1. Formed(cmd[p]) /\ Holds(p) /\ Delivered(p) /\ QuotedBy(cmd[p])
    BY DEF Kept, Sound, Quoted
  <2>2. Locked(p)' <=> Locked(p) BY LockedIff
  <2>3. Holds(p)' BY <2>1, <2>2 DEF Holds
  <2>4. Delivered(p)' BY <2>1 DEF Delivered, store
  <2>5. Quoted(p)' BY <2>1, StoresAlone, QuoteStands
  <2>6. QED BY <2>1, <2>3, <2>4, <2>5 DEF Sound
<1>2. Typed' BY StoresAlone DEF Kept, Typed
<1>3. QED BY <1>1, <1>2, StoresAlone DEF Kept

LEMMA InitKept == Init => Kept
<1> SUFFICES ASSUME Init PROVE Kept OBVIOUS
<1>1. \A r \in Receipts : 0 \in Bodies BY BoundsAssumption DEF Bodies
<1>2. Typed
  <2>1. NoRow \in Rows BY DEF NoRow, Rows
  <2>2. StoresTyped BY <2>1 DEF Init, StoresTyped
  <2>3. QED BY <1>1, <2>2 DEF Init, Typed
<1>3. Consistent
  <2>1. \A s \in Sides, r \in Receipts : record[s][r] = None BY DEF Init
  <2>2. \A s \in Sides : Recorded(s) = {} BY <2>1 DEF Recorded
  <2>3. \A s \in Sides : \A t : Active(s, t) = {} BY DEF Init, Active, NoRow
  <2>4. "provider" \in Sides BY DEF Sides
  <2>5. QED BY <2>2, <2>3, <2>4 DEF Init, Consistent, MarkCovers, BodiesAgree, ReadOnce
<1>4. ASSUME NEW p \in Procs PROVE Sound(p)
  <2>1. cmd[p] = Idle /\ \A l \in Locks : holder[l] = Nobody BY DEF Init
  <2>2. Formed(Idle) /\ Idle.pc = "idle" BY DEF Idle, Formed, Ingesting, Learning, Reading
  <2> HIDE DEF Idle
  <2>3. Holds(p) BY <2>1, <2>2, NamesAssumption DEF Holds, InsideLocks, Ingesting
  <2>4. Delivered(p) BY <2>1, <2>2 DEF Delivered, Ingesting
  <2>5. Quoted(p) BY <2>1, <2>2 DEF Quoted, QuotedBy
  <2>6. QED BY <2>1, <2>2, <2>3, <2>4, <2>5 DEF Sound
<1>5. QED BY <1>2, <1>3, <1>4 DEF Kept

\* Every step of every command keeps the invariant.
LEMMA NextKept == Kept /\ [Next]_vars => Kept'
<1> SUFFICES ASSUME Kept, [Next]_vars PROVE Kept' OBVIOUS
<1>1. ASSUME NEW p \in Procs, Step(p) PROVE Kept'
  <2>1. CASE reconcile(p) \/ store_repair(p) \/ learn_dimension(p) \/ policy(p) \/ create_deal(p)
    BY <2>1, BeginningsKeep
  <2>2. CASE _exclusive(p) BY <2>2, LockingKeeps
  <2>3. CASE ingest(p)
    BY <2>3, MarkKeeps, RecordKeeps, ConflictKeeps, JournalKeeps, MarkerKeeps, IndexKeeps, ClearKeeps
    DEF ingest
  <2>4. CASE repair_index(p) BY <2>4, RepairKeeps
  <2>5. CASE learn(p) BY <2>5, SurveyKeeps, DefineKeeps, SkipKeeps, WriteKeeps DEF learn
  <2>6. CASE quote(p) BY <2>6, RecallKeeps, DeriveKeeps, CheckKeeps, LeavingKeeps DEF quote
  <2>7. CASE Crash(p)
    <3>1. Finish(p) /\ UNCHANGED <<store, dimension, block>> BY <2>7 DEF Crash, Finish
    <3>2. QED BY <3>1, StoresAlone, EndKeeps
  <2>8. QED BY <1>1, <2>1, <2>2, <2>3, <2>4, <2>5, <2>6, <2>7 DEF Step
<1>2. ASSUME NEW r \in Receipts, Reinclude(r) PROVE Kept'
  <2>1. block \in [Receipts -> Bodies] BY DEF Kept, Typed
  <2>2. block' \in [Receipts -> Bodies] BY <1>2, <2>1, BoundsAssumption DEF Reinclude, Bodies
  <2>3. QED BY <1>2, <2>2, ChainKeeps DEF Reinclude
<1>3. CASE UNCHANGED vars
  <2>1. UNCHANGED <<store, dimension, holder, block, cmd>> BY <1>3 DEF vars
  <2>2. QED BY <2>1, ChainKeeps DEF Kept, Typed
<1>4. QED BY <1>1, <1>2, <1>3 DEF Next

\* Whatever a command holds a lock for stands until it lets go, and what is unmarked is whole.
THEOREM AlwaysKept == Spec => []Kept
<1>1. QED BY InitKept, NextKept, PTL DEF Spec

\* The stores keep their types, and a command that has ended holds no lock.
THEOREM MemoriesTyped == Spec => []TypeOK
<1>1. ASSUME Kept PROVE TypeOK
  <2>1. StoresTyped /\ holder \in [Locks -> Procs \cup {Nobody}] BY <1>1 DEF Kept, Typed
  <2>2. ASSUME NEW l \in Locks, holder[l] # Nobody
        PROVE  holder[l] \in Procs /\ cmd[holder[l]].pc # "idle"
    <3>1. holder[l] \in Procs BY <2>1, <2>2
    <3>2. l \in LocksOf(cmd[holder[l]].locks) /\ Formed(cmd[holder[l]])
      BY <1>1, <3>1 DEF Kept, Sound, Holds
    <3>3. QED BY <3>1, <3>2, PlanLocks DEF Formed
  <2>3. \A s \in Sides, d \in DimensionIds : dimension[s][d] \in Rows BY <2>1 DEF StoresTyped
  <2>4. QED BY <2>1, <2>2, <2>3 DEF TypeOK, StoresTyped, Rows
<1>2. QED BY <1>1, AlwaysKept, PTL

\* Outside an ingest that has begun and not ended, a record is indexed and on the timeline.
THEOREM MarksCover == Spec => []MarkCovers
<1>1. Kept => MarkCovers BY DEF Kept, Consistent
<1>2. QED BY <1>1, AlwaysKept, PTL

\* What the provider's memory holds of a receipt, the buyer's holds too, with the same body.
THEOREM OneStory == Spec => []BodiesAgree
<1>1. Kept => BodiesAgree BY DEF Kept, Consistent
<1>2. QED BY <1>1, AlwaysKept, PTL

\* No memory ever has two active readings of an outcome.
THEOREM ReadingsUnique == Spec => []OneReading
<1>1. ASSUME Kept, NEW s \in Sides, NEW t \in EventTypes PROVE Cardinality(Active(s, t)) <= 1
  <2>1. CASE Active(s, t) = {} BY <2>1, FS_EmptySet
  <2>2. CASE Active(s, t) # {}
    <3>1. PICK d : d \in Active(s, t) BY <2>2
    <3>2. Active(s, t) = {d} BY <1>1, <3>1 DEF Kept, Consistent, ReadOnce
    <3>3. Cardinality({d}) = 1 BY FS_Singleton
    <3>4. QED BY <3>2, <3>3
  <2>3. QED BY <2>1, <2>2
<1>2. Kept => OneReading BY <1>1 DEF OneReading
<1>3. QED BY <1>2, AlwaysKept, PTL

\* Two commands never wait for each other: locks are taken in one order.
THEOREM NoDeadlock == Spec => []NoCircularWait
<1>1. ASSUME Kept PROVE NoCircularWait
  <2>1. ASSUME NEW p \in Procs, NEW q \in Procs, p # q, Waits(p, q), Waits(q, p) PROVE FALSE
    <3> DEFINE a == NextLock(p)
               b == NextLock(q)
    <3>1. /\ Formed(cmd[p]) /\ Formed(cmd[q]) /\ Holds(p) /\ Holds(q)
          /\ ~Locked(p) /\ ~Locked(q) /\ holder[a] = q /\ holder[b] = p
      BY <1>1, <2>1 DEF Kept, Sound, Waits
    <3>2. cmd[p].locks \in LockPlans /\ cmd[q].locks \in LockPlans BY <3>1, PlanOf
    <3>3. a \in LocksOf(cmd[p].locks) /\ b \in LocksOf(cmd[q].locks)
      BY <3>1, <3>2, NextLockIsFirst
    <3>4. a \in Locks /\ b \in Locks
      BY <3>2, <3>3, PlanLocks DEF LockPlans, Locks, Sides
    <3> HIDE DEF a, b
    <3>5. a # b BY <2>1, <3>1
    <3>6. ~Before(b, a) /\ ~Before(a, b) BY <2>1, <3>1, <3>3, <3>4 DEF Holds
    <3>7. QED BY <3>4, <3>5, <3>6 DEF Before, Locks, Sides
  <2>2. QED BY <2>1 DEF NoCircularWait
<1>2. QED BY <1>1, AlwaysKept, PTL

\* A quote is never derived from a quietly shorter history.
THEOREM HistoryWhole == Spec => []WholeHistory
<1>1. ASSUME Kept PROVE WholeHistory
  <2>1. ASSUME NEW p \in Procs, cmd[p].pc = "derived", NEW s \in Sides
        PROVE  DOMAIN cmd[p].half.evidence[s] = Recorded("buyer") \cup Recorded("provider")
    <3>1. QuotedBy(cmd[p]) BY <1>1 DEF Kept, Sound, Quoted
    <3>2. /\ cmd[p].half.evidence = cmd[p].evidence
          /\ cmd[p].evidence["buyer"] = Recalled("buyer") /\ pending["buyer"] = {}
          /\ cmd[p].evidence["provider"] = Recalled("provider") /\ pending["provider"] = {}
          /\ DOMAIN cmd[p].evidence["buyer"] = DOMAIN cmd[p].evidence["provider"]
      BY <2>1, <3>1 DEF QuotedBy, Half, Quotable, Unfinished
    <3>3. \A i \in Sides : DOMAIN Recalled(i) = index[i] BY DEF Recalled
    <3>4. "buyer" \in Sides /\ "provider" \in Sides /\ s \in {"buyer", "provider"} BY DEF Sides
    <3>5. \A i \in Sides : pending[i] = {} => index[i] = Recorded(i)
      BY <1>1 DEF Kept, Consistent, MarkCovers
    <3>6. QED BY <3>2, <3>3, <3>4, <3>5
  <2>2. QED BY <2>1 DEF WholeHistory
<1>2. QED BY <1>1, AlwaysKept, PTL

\* Terms are signed only if both memories, at that moment, give exactly the document's.
THEOREM SignedFromBoth == Spec => SignedFromMemory
<1>1. ASSUME Kept PROVE SignsWhatIsRecalled
  <2>1. ASSUME NEW p \in Procs, sign(p)
        PROVE  signed' = Half([s \in Sides |-> Recalled(s)])
    <3>1. cmd[p].pc = "sign" /\ signed' = cmd[p].loaded BY <2>1 DEF sign, At
    <3>2. /\ QuotedBy(cmd[p]) /\ cmd[p].evidence = [s \in Sides |-> cmd[p].evidence[s]]
      BY <1>1, <3>1, ReadingCommand DEF Reading
    <3>3. /\ cmd[p].evidence["buyer"] = Recalled("buyer")
          /\ cmd[p].evidence["provider"] = Recalled("provider")
          /\ signed' = Half(cmd[p].evidence)
      BY <3>1, <3>2 DEF QuotedBy
    <3>4. cmd[p].evidence = [s \in Sides |-> Recalled(s)] BY <3>2, <3>3 DEF Sides
    <3>5. QED BY <3>3, <3>4
  <2>2. QED BY <2>1 DEF SignsWhatIsRecalled
<1>2. QED BY <1>1, AlwaysKept, PTL DEF Spec, SignedFromMemory
=============================================================================
