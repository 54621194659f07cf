------------------------------ MODULE Memories ------------------------------
(***************************************************************************)
(* The two memories (wrasse/store.py, evidence.py, dimensions.py) and the  *)
(* commands that use them side by side: `reconcile` delivers a receipt to  *)
(* both, `learn-dimension` reads an outcome into both, `policy` writes a   *)
(* document from both, `create-deal` signs one, `store-repair` mends an    *)
(* index.  Each is a process of its own; the file locks are all that keeps *)
(* them apart, and a kill frees the locks but not what was half written.   *)
(*                                                                         *)
(* A number is never computed here: what a quote depends on is the bodies  *)
(* it recalled and the readings of their outcomes, and Negotiation has the *)
(* rest.  The receipts are all between one buyer and one provider.         *)
(***************************************************************************)
EXTENDS Integers, Sequences, FiniteSets

CONSTANTS
  Procs, Receipts, DimensionIds,
  TypeOf,            \* the event_type of each receipt
  Nobody, None,
  MaxCommands, MaxCrashes, MaxReinclusions

EventTypes == {TypeOf[r] : r \in Receipts}
Sides == {"buyer", "provider"}
Locks == Sides \cup {"ledger"}
Bodies == 0..MaxReinclusions     \* a canonical body is told apart by its block

ASSUME BoundsAssumption == MaxCommands \in Nat /\ MaxCrashes \in Nat /\ MaxReinclusions \in Nat
ASSUME NamesAssumption == Nobody \notin Procs /\ None \notin Bodies /\ None \notin DimensionIds

VARIABLES
  record,     \* per side, the canonical entity of each receipt, or None
  journal,    \* per side, how often the timeline carries it (0, 1 or more)
  marker,     \* per side, the receipts whose journal row is known to be written
  index,      \* per side, the ids filed under the other party
  pending,    \* per side, the ids whose ingest has begun and not ended
  dimension,  \* per side, the row of each dimension id: its event type and status
  holder,     \* who holds each lock
  document,   \* policy.json: what it was derived from, or None
  signed,     \* what the last createDeal was signed from, or None
  block,      \* where each receipt sits on the chain
  cmd,        \* what each process is doing
  commands, crashes

store == <<record, journal, marker, index, pending>>
bounds == <<commands, crashes>>
vars == <<store, dimension, holder, document, signed, block, cmd, bounds>>

NoRow == [type |-> None, status |-> "none"]
Idle == [name |-> "none", pc |-> "idle", locks |-> <<>>]

Init ==
  /\ record = [s \in Sides |-> [r \in Receipts |-> None]]
  /\ journal = [s \in Sides |-> [r \in Receipts |-> 0]]
  /\ marker = [s \in Sides |-> {}]
  /\ index = [s \in Sides |-> {}]
  /\ pending = [s \in Sides |-> {}]
  /\ dimension = [s \in Sides |-> [d \in DimensionIds |-> NoRow]]
  /\ holder = [l \in Locks |-> Nobody]
  /\ document = None /\ signed = None
  /\ block = [r \in Receipts |-> 0]
  /\ cmd = [p \in Procs |-> Idle]
  /\ commands = 0 /\ crashes = 0

-----------------------------------------------------------------------------
\* Locks.  Both memories are always taken in one order; a signature takes the ledger's write
\* lock before them.
both_locked == <<"buyer", "provider">>

\* Faulty variants: the memories are taken by role at signing, and not at all.
sign_locks_ByRole == <<"ledger", "provider", "buyer">>
sign_locks_LedgerOnly == <<"ledger">>

sign_locks == <<"ledger">> \o both_locked

Missing(p) == {i \in DOMAIN cmd[p].locks : holder[cmd[p].locks[i]] # p}
Locked(p) == Missing(p) = {}
NextLock(p) == cmd[p].locks[CHOOSE i \in Missing(p) : \A j \in Missing(p) : i <= j]

_exclusive(p) ==
  /\ ~Locked(p) /\ holder[NextLock(p)] = Nobody
  /\ holder' = [holder EXCEPT ![NextLock(p)] = p]
  /\ UNCHANGED <<store, dimension, document, signed, block, cmd, bounds>>

Free(p) == [l \in Locks |-> IF holder[l] = p THEN Nobody ELSE holder[l]]

\* A record with some of its fields changed, or added.
With(c, changes) ==
  [x \in DOMAIN c \cup DOMAIN changes |-> IF x \in DOMAIN changes THEN changes[x] ELSE c[x]]

\* A command begins, goes on to another step, leaves its locks for one, or ends: with success,
\* or by raising, which unwinds every lock.
Begin(p, c) ==
  /\ cmd[p].pc = "idle" /\ commands < MaxCommands
  /\ cmd' = [cmd EXCEPT ![p] = c]
  /\ commands' = commands + 1
  /\ UNCHANGED <<store, dimension, holder, document, signed, block, crashes>>

At(p, pc) == cmd[p].pc = pc /\ Locked(p)
Goto(p, changes) == cmd' = [cmd EXCEPT ![p] = With(@, changes)] /\ UNCHANGED holder
Leave(p, changes) == cmd' = [cmd EXCEPT ![p] = With(@, changes)] /\ holder' = Free(p)

\* Faulty variant: what a command holds when it ends stays held.
Finish_Holding(p) == cmd' = [cmd EXCEPT ![p] = Idle] /\ UNCHANGED holder

Finish(p) == cmd' = [cmd EXCEPT ![p] = Idle] /\ holder' = Free(p)

-----------------------------------------------------------------------------
\* reconcile: the receipt is verified first, then delivered to the buyer's memory and to the
\* provider's, both held for the whole of it.
reconcile(p) ==
  \E r \in Receipts :
    Begin(p, [name |-> "reconcile", pc |-> "mark", locks |-> both_locked,
              receipt |-> r, body |-> block[r], side |-> "buyer", owned |-> TRUE])

Own(p) == cmd[p].side
It(p) == cmd[p].receipt

\* ingest, one write at a time.  Whether a mark stands already decides who may clear it.
ingest_mark(p) ==
  /\ At(p, "mark")
  /\ pending' = [pending EXCEPT ![Own(p)] = @ \cup {It(p)}]
  /\ Goto(p, [pc |-> "record", owned |-> It(p) \notin pending[Own(p)]])
  /\ UNCHANGED <<record, journal, marker, index, dimension, document, signed, block, bounds>>

\* Faulty variant: a second body for the same receipt passes as the first.
EventConflict_Ignored(p) == FALSE

EventConflict(p) == record[Own(p)][It(p)] \notin {None, cmd[p].body}

\* The canonical entity is written once.
persist_verified_event(p) ==
  /\ At(p, "record") /\ ~EventConflict(p)
  /\ record' = [record EXCEPT ![Own(p)][It(p)] = IF @ = None THEN cmd[p].body ELSE @]
  /\ Goto(p, [pc |-> IF It(p) \in marker[Own(p)] THEN "index" ELSE "journal"])
  /\ UNCHANGED <<journal, marker, index, pending, dimension, document, signed, block, bounds>>

\* Faulty variant: a conflict clears a mark that an earlier, interrupted ingest left.
ingest_conflict_Forgets(p) ==
  /\ At(p, "record") /\ EventConflict(p)
  /\ pending' = [pending EXCEPT ![Own(p)] = @ \ {It(p)}]
  /\ Finish(p)
  /\ UNCHANGED <<record, journal, marker, index, dimension, document, signed, block, bounds>>

ingest_conflict(p) ==
  /\ At(p, "record") /\ EventConflict(p)
  /\ pending' = IF cmd[p].owned THEN [pending EXCEPT ![Own(p)] = @ \ {It(p)}] ELSE pending
  /\ Finish(p)
  /\ UNCHANGED <<record, journal, marker, index, dimension, document, signed, block, bounds>>

\* The journal has no idempotent key: a kill before the marker repeats the row.
write_event(p) ==
  /\ At(p, "journal")
  /\ journal' = [journal EXCEPT ![Own(p)][It(p)] = IF @ = 0 THEN 1 ELSE 2]
  /\ Goto(p, [pc |-> "marker"])
  /\ UNCHANGED <<record, marker, index, pending, dimension, document, signed, block, bounds>>

write_marker(p) ==
  /\ At(p, "marker")
  /\ marker' = [marker EXCEPT ![Own(p)] = @ \cup {It(p)}]
  /\ Goto(p, [pc |-> "index"])
  /\ UNCHANGED <<record, journal, index, pending, dimension, document, signed, block, bounds>>

_add_to_index(p) ==
  /\ At(p, "index")
  /\ index' = [index EXCEPT ![Own(p)] = @ \cup {It(p)}]
  /\ Goto(p, [pc |-> "clear"])
  /\ UNCHANGED <<record, journal, marker, pending, dimension, document, signed, block, bounds>>

\* The mark is cleared, and the other memory's turn comes, or the command ends.
ingest_clear(p) ==
  /\ At(p, "clear")
  /\ pending' = [pending EXCEPT ![Own(p)] = @ \ {It(p)}]
  /\ IF Own(p) = "buyer" THEN Goto(p, [pc |-> "mark", side |-> "provider"]) ELSE Finish(p)
  /\ UNCHANGED <<record, journal, marker, index, dimension, document, signed, block, bounds>>

ingest(p) ==
  \/ ingest_mark(p) \/ persist_verified_event(p) \/ ingest_conflict(p) \/ write_event(p)
  \/ write_marker(p) \/ _add_to_index(p) \/ ingest_clear(p)

\* store-repair puts every record that an index has lost back into it.
store_repair(p) ==
  Begin(p, [name |-> "store-repair", pc |-> "repair", locks |-> both_locked])

Recorded(s) == {r \in Receipts : record[s][r] # None}

repair_index(p) ==
  /\ At(p, "repair")
  /\ index' = [s \in Sides |-> index[s] \cup Recorded(s)]
  /\ Finish(p)
  /\ UNCHANGED <<record, journal, marker, pending, dimension, document, signed, block, bounds>>

-----------------------------------------------------------------------------
\* learn-dimension: look at each memory under its own lock, ask the model with none held, then
\* look again and write, each memory under its own lock.
Active(s, type) == {d \in DimensionIds : dimension[s][d] = [type |-> type, status |-> "active"]}

\* The receipt is validated in both memories; its body never changes once there.
learn_dimension(p) ==
  \E r \in Receipts, relearn \in BOOLEAN :
    /\ record["buyer"][r] # None /\ record["provider"][r] = record["buyer"][r]
    /\ Begin(p, [name |-> "learn-dimension", pc |-> "survey", locks |-> <<"buyer">>,
                 side |-> "buyer", type |-> TypeOf[r], relearn |-> relearn,
                 existing |-> [s \in Sides |-> None]])

\* What each memory holds for the type; relearning retires all of it first.
survey(p) ==
  LET s == Own(p)
      rows == Active(s, cmd[p].type)
      held == IF cmd[p].relearn \/ rows = {} THEN None ELSE CHOOSE d \in rows : TRUE
  IN
  /\ At(p, "survey")
  /\ dimension' = IF cmd[p].relearn
                  THEN [dimension EXCEPT ![s] =
                          [d \in DimensionIds |->
                             IF d \in rows THEN [@[d] EXCEPT !.status = "retired"] ELSE @[d]]]
                  ELSE dimension
  /\ IF ~cmd[p].relearn /\ Cardinality(rows) > 1 THEN Finish(p)
     ELSE Leave(p, IF s = "buyer"
                   THEN [existing |-> [cmd[p].existing EXCEPT ![s] = held],
                         side |-> "provider", locks |-> <<"provider">>]
                   ELSE [existing |-> [cmd[p].existing EXCEPT ![s] = held],
                         pc |-> "define", locks |-> <<>>])
  /\ UNCHANGED <<store, document, signed, block, bounds>>

\* A memory is locked only if it is to be written.
Write(p, s) ==
  [pc |-> "write", side |-> s, locks |-> IF cmd[p].existing[s] = None THEN <<s>> ELSE <<>>]

\* A reading that one memory holds is used for the other; two different ones are refused; where
\* there is none the model is asked, whose answer may have any id.
define(p) ==
  LET held == {cmd[p].existing[s] : s \in Sides} \ {None} IN
  /\ At(p, "define")
  /\ \/ Cardinality(held) > 1 /\ Finish(p)
     \/ /\ Cardinality(held) <= 1
        /\ \E d \in (IF held = {} THEN DimensionIds ELSE held) :
             Goto(p, With(Write(p, "buyer"), [definition |-> d]))
  /\ UNCHANGED <<store, dimension, document, signed, block, bounds>>

\* A memory that held a reading is left as it is.
skip(p) ==
  /\ At(p, "write") /\ cmd[p].existing[Own(p)] # None
  /\ IF Own(p) = "buyer" THEN Leave(p, Write(p, "provider")) ELSE Finish(p)
  /\ UNCHANGED <<store, dimension, document, signed, block, bounds>>

\* Faulty variant: the memory is not looked at again after the model has answered.
Overtaken_Unchecked(p) == FALSE

\* Another learner has written a reading of this type meanwhile.
Overtaken(p) == Active(Own(p), cmd[p].type) # {}

\* The row of the id is set, whatever type it described before.
write(p) ==
  LET s == Own(p) IN
  /\ At(p, "write") /\ cmd[p].existing[s] = None
  /\ \/ Overtaken(p) /\ Finish(p) /\ UNCHANGED dimension
     \/ /\ ~Overtaken(p)
        /\ dimension' = [dimension EXCEPT ![s][cmd[p].definition] =
                           [type |-> cmd[p].type, status |-> "active"]]
        /\ IF s = "buyer" THEN Leave(p, Write(p, "provider")) ELSE Finish(p)
  /\ UNCHANGED <<store, document, signed, block, bounds>>

learn(p) == survey(p) \/ define(p) \/ skip(p) \/ write(p)

-----------------------------------------------------------------------------
\* _bilateral_quote: both memories are recalled, compared, and read with their own ontologies,
\* all under both locks.

\* Faulty variant: an ingest that never ended does not stop a recall.
Unfinished_Ignored(s) == FALSE

Unfinished(s) == pending[s] # {}

Recalled(s) == [r \in index[s] |-> record[s][r]]
Types(evidence) == {TypeOf[r] : r \in DOMAIN evidence}

recall(p, s, from, to) ==
  /\ At(p, from)
  /\ \/ Unfinished(s) /\ Finish(p)
     \/ /\ ~Unfinished(s)
        /\ Goto(p, [evidence |-> [cmd[p].evidence EXCEPT ![s] = Recalled(s)], pc |-> to])
  /\ UNCHANGED <<store, dimension, document, signed, block, bounds>>

\* The two sides must hold the same ids, and one reading for every type they recalled; a memory
\* with two readings of a type is not read at all.
Quotable(evidence) ==
  /\ DOMAIN evidence["buyer"] = DOMAIN evidence["provider"]
  /\ \A s \in Sides : /\ \A t \in EventTypes : Cardinality(Active(s, t)) <= 1
                      /\ \A t \in Types(evidence[s]) : Active(s, t) # {}

\* What the numbers of a document depend on.
Half(evidence) ==
  [evidence |-> evidence,
   readings |-> [s \in Sides |-> [t \in Types(evidence[s]) |-> Active(s, t)]]]

derive(p) ==
  LET evidence == cmd[p].evidence IN
  /\ At(p, "ontology")
  /\ \/ ~Quotable(evidence) /\ Finish(p)
     \/ Quotable(evidence) /\ Goto(p, [half |-> Half(evidence), pc |-> "derived"])
  /\ UNCHANGED <<store, dimension, document, signed, block, bounds>>

\* policy writes what it derived after it has let both memories go.
Quoting == [pc |-> "recall_buyer", evidence |-> [s \in Sides |-> <<>>]]

policy(p) == Begin(p, With(Quoting, [name |-> "policy", locks |-> both_locked]))

unlock(p) ==
  /\ At(p, "derived") /\ cmd[p].name = "policy"
  /\ Leave(p, [pc |-> "save", locks |-> <<>>])
  /\ UNCHANGED <<store, dimension, document, signed, block, bounds>>

_write_atomic(p) ==
  /\ At(p, "save")
  /\ document' = cmd[p].half
  /\ Finish(p)
  /\ UNCHANGED <<store, dimension, signed, block, bounds>>

\* create-deal loads the document, derives it again as a first check, and again under the
\* ledger's lock and both memories', which it keeps until the signature exists.
create_deal(p) ==
  /\ document # None
  /\ Begin(p, With(Quoting, [name |-> "create-deal", locks |-> both_locked,
                             loaded |-> document, signing |-> FALSE]))

_require_document_came_from_memory(p) ==
  /\ At(p, "derived") /\ cmd[p].name = "create-deal"
  /\ \/ cmd[p].half # cmd[p].loaded /\ Finish(p)
     \/ /\ cmd[p].half = cmd[p].loaded /\ ~cmd[p].signing
        /\ Leave(p, With(Quoting, [signing |-> TRUE, locks |-> sign_locks]))
     \/ /\ cmd[p].half = cmd[p].loaded /\ cmd[p].signing
        /\ Goto(p, [pc |-> "sign"])
  /\ UNCHANGED <<store, dimension, document, signed, block, bounds>>

sign(p) ==
  /\ At(p, "sign")
  /\ signed' = cmd[p].loaded
  /\ Finish(p)
  /\ UNCHANGED <<store, dimension, document, block, bounds>>

quote(p) ==
  \/ recall(p, "buyer", "recall_buyer", "recall_provider")
  \/ recall(p, "provider", "recall_provider", "ontology")
  \/ derive(p) \/ unlock(p) \/ _write_atomic(p)
  \/ _require_document_came_from_memory(p) \/ sign(p)

-----------------------------------------------------------------------------
\* A process is killed between two of its writes.
Crash(p) ==
  /\ cmd[p].pc # "idle" /\ crashes < MaxCrashes
  /\ crashes' = crashes + 1
  /\ cmd' = [cmd EXCEPT ![p] = Idle] /\ holder' = Free(p)
  /\ UNCHANGED <<store, dimension, document, signed, block, commands>>

\* The chain moves a receipt to another block.
Reinclude(r) ==
  /\ block[r] < MaxReinclusions
  /\ block' = [block EXCEPT ![r] = @ + 1]
  /\ UNCHANGED <<store, dimension, holder, document, signed, cmd, bounds>>

Step(p) ==
  \/ reconcile(p) \/ store_repair(p) \/ learn_dimension(p) \/ policy(p) \/ create_deal(p)
  \/ _exclusive(p) \/ ingest(p) \/ repair_index(p) \/ learn(p) \/ quote(p) \/ Crash(p)

Next == (\E p \in Procs : Step(p)) \/ (\E r \in Receipts : Reinclude(r))

Spec == Init /\ [][Next]_vars

-----------------------------------------------------------------------------
\* The stores keep their types, and a command that has ended holds no lock.
TypeOK ==
  /\ record \in [Sides -> [Receipts -> Bodies \cup {None}]]
  /\ journal \in [Sides -> [Receipts -> 0..2]]
  /\ \A part \in {marker, index, pending} : part \in [Sides -> SUBSET Receipts]
  /\ \A s \in Sides, d \in DimensionIds :
       /\ dimension[s][d].type \in EventTypes \cup {None}
       /\ dimension[s][d].status \in {"none", "active", "retired"}
  /\ \A l \in Locks : holder[l] # Nobody => holder[l] \in Procs /\ cmd[holder[l]].pc # "idle"

\* store.py: a quote is never derived from a quietly shorter history.  Whoever has derived one
\* and still holds both memories has every receipt that either of them has a record of.
WholeHistory ==
  \A p \in Procs : cmd[p].pc = "derived" =>
    \A s \in Sides : DOMAIN cmd[p].half.evidence[s] = Recorded("buyer") \cup Recorded("provider")

\* Outside an ingest that has begun and not ended, a record is indexed and on the timeline: what
\* stands unmarked is complete, also after kills and after a second body was refused.
MarkCovers ==
  \A s \in Sides : \A r \in Recorded(s) \ pending[s] :
    r \in index[s] /\ r \in marker[s] /\ journal[s][r] > 0

\* The buyer's memory is written first, and one receipt never has two stories: what the provider
\* holds the buyer holds, with the same body.
BodiesAgree ==
  \A r \in Recorded("provider") : record["buyer"][r] = record["provider"][r]

\* dimensions.py: two active readings of one outcome would score each receipt twice.
OneReading == \A s \in Sides, t \in EventTypes : Cardinality(Active(s, t)) <= 1

\* No command waits for a lock of one that waits for a lock of its own.
Waits(p, q) == ~Locked(p) /\ holder[NextLock(p)] = q
NoCircularWait == \A p, q \in Procs : p # q => ~(Waits(p, q) /\ Waits(q, p))

\* cli.py: the memories cannot move between the check and the signature.  Terms are signed only
\* if both memories, as they are at that moment, give exactly the document's.
SignsWhatIsRecalled ==
  \A p \in Procs : sign(p) => signed' = Half([s \in Sides |-> Recalled(s)])
SignedFromMemory == [][SignsWhatIsRecalled]_vars
=============================================================================
