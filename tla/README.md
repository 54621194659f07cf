# Wrasse: models and proofs

TLA+ modules of the parts of Wrasse that hold money, memory or a promise about
either; TLC configurations that check them on small instances; and TLAPS proofs
about every part modelled, for every value of its constants. Paths below are
relative to the repository root as it is seen from here, `src/`.

Wrasse lets a buyer and a provider agree the terms of a deal from what each
*remembers* of the other. Outcomes of earlier deals are receipts on a chain.
Each side ingests them into a memory of its own, prices the other's conduct,
and the two sets of numbers settle into terms, which the buyer signs into an
escrow contract. A hosted page lets visitors run such deals with pooled wallets
and gives their deposits back.

## 1. Inventory

| Component | State it keeps | Operations | Talks to |
|---|---|---|---|
| Escrow contract, `contracts/src/WrasseEscrow.sol` | deals, next deal id, withdrawable credits, balance, re-entrancy lock | `createDeal`, `acceptDeal`, `cancelUnaccepted`, `markDelivered`, `releaseDeal`, `claimPayment`, `claimTimeout`, `withdraw` | accounts, among them contracts whose code runs inside `withdraw` |
| Transaction ledger, `wrasse/chain.py`, and the commands of `wrasse/cli.py` that send | one SQLite row per intent: status, nonce, attempts; the write lock | deal commands (sign, record, send), `tx-resolve` with and without `--rebroadcast` | two RPC nodes, other processes on the same file |
| Hosted service, `wrasse/service.py`, `sessions.py`, `executor.py` | sessions and runs in memory, one worker thread, request threads | open and evict a session, execute, finish, run status, settle, refund, reclaim after a restart | ledger and escrow through child commands; liability index |
| Liability index, `wrasse/liabilities.py` | SQLite rows: intent, hash, deal id | `open_intent`, `attach`, `discard`, `close`, `open_deals`, `unresolved` | written by the executor, read by the service |
| Memories, `wrasse/store.py`, `evidence.py`, `dimensions.py`, `reconciler.py`, `memory_gate.py` | per side: record, journal, marker, index, pending mark, ontology; one lock per memory | `reconcile`, `ingest`, `store-repair`, `learn-dimension`, `quote`, `create-deal`'s check | the ledger's write lock, a language model, the memory client |
| Pricing engine, `wrasse/engine.py`, `constants.py` | none (pure) | scores, committed numbers and limits, minimal causal sets | negotiation |
| Negotiation, `wrasse/negotiation.py` | none (pure) | positions, walk-aways, settlement, price, collectible bond | engine, policy document |
| What-if simulation, `wrasse/simulate.py` and its endpoint | a visitor's list of outcomes | append, clear, price | engine, negotiation |
| Quote and policy documents, `policy_document.py`, `policy_hash.py`, the commands `policy`, `rebind-policy` and `create-deal` of `cli.py` | a file; a running command's deadline | write, rebind, read back, validate, judge the deadline, sign | negotiation, chain time, ledger, contract |
| Chain time, `wrasse/chain_time.py` | none | observe a block, judge its lag and the clock's skew | a node, the local clock |
| Escrow codec, memory gate and providers, agent positions, model call, proof of load-bearing memory, page and bundle, deployment | none of their own, or external | reads and formatting | |

What is hard, per component, and what makes it correct:

- **Escrow.** Re-entrancy from `withdraw`, reverts that undo everything a
  recipient did, one timestamp comparison between every pair of exclusive calls,
  a party that never acts. Correct when the balance is what is owed, endings are
  earned and final, deadlines leave neither gap nor overlap, and no money is stuck.
- **Ledger.** Two processes decide from snapshots of one row and write later;
  a process dies between signing, recording and sending; transactions are dropped,
  reorganised, or overtaken by another user of the wallet. Correct when a final
  verdict is true and stays, a released nonce is dead, an action happens at most
  once, and the wallet is neither stranded behind a gap the ledger made nor held for
  ever.
- **Service.** Requests, polls, the worker's callback and a restart interleave
  over one session; a file write between two steps may fail; an automatic refund
  races a press. Correct when no deposit loses its durable row, refunds of a
  session do not overlap, and a stranded deposit is refunded with nobody there.
- **Memories.** An ingest is five writes with no transaction; one command writes
  two memories in turn; learning releases its locks while a model answers. Correct
  when nothing is priced from half a history, one receipt has one story, and what
  is signed is what the memories give at that moment.
- **Pricing and negotiation.** Independent rounding of coupled numbers, clamps,
  receipts that offset each other. Correct when what is agreed can be created on
  chain, no side passes its limit, the causal sets are exact and minimal, and
  worse conduct never pays.
- **Documents and deadlines.** The writer and the reader of a policy document are
  separate code; the contract's creation rules are written a second time in
  Python, whose integers do not overflow; a deadline is judged against a block a
  node showed while other calls take time. Correct when what is written can be
  read, what is read cannot tell another story than what is signed, the two sets
  of rules agree, and what is signed is still in time when a block takes it.

The hazards behind these, each at its line, are in `PROJECT.json`, with the
properties that answer them or the reason why none does.

## 2. Modules

```
EscrowPromise (abstract)      Money            Deposits             Negotiation
      ^ refines                 ^                  ^                     ^
      |                         | EXTENDS          | EXTENDS             | EXTENDS
  WrasseEscrow -----------------+             HostedService        PolicyDocument
      ^                                            ^                     ^
WrasseEscrowProofs                       HostedServiceProofs        Simulation
  MCWrasseEscrow                            RefundProofs          MCSimulation
                                           MCHostedService     NegotiationProofs
                                                                SimulationProofs

  Quotes <- QuotesProofs      TxLedger <- TxLedgerProofs      Memories <- MemoriesProofs
     ^---- MCQuotes              |  ^---- MCTxLedger             ^---- MCMemories
                                 v refines
                            LedgerPromise (abstract)
```

### `WrasseEscrow`, with `Money` and `EscrowPromise`

One action per external function of the contract, guards in the order of its
`revert`s. Every function may be called by any account at any time, from a
transaction of its own or *from inside a withdrawal*: `withdraw` zeroes the
credit, takes the lock and hands control to the recipient; until
`withdrawReturns` or `withdrawReverts`, a contract recipient may call every
other function, `withdraw` itself stopping at the lock. `saved` is the state a
revert brings back. A wallet as a recipient returns at once. `Tick` moves block
time. `Money` counts wei as a set of pairs (owner, unit), which makes the sum of
all claims a cardinality. `EscrowPromise` is what a user is promised, one
transaction at a time: deposits open deals or top them up; a deal closes once
and its whole pot becomes the credit of one of its parties; a credit leaves only
as a whole, collected by its account. `KeepsPromise` maps the contract onto it
through the state that *stands* if the call in flight is undone.

### `TxLedger`, with `LedgerPromise`

`rows` is the table, `calls[p]` what one process of the command line is in the
middle of, `mined`/`safe`/`mempool`/`foreign` the chain. A deal command goes
through the steps of the code: `deal_action` looks up the identity;
`record_signed`, one write transaction, looks it up again, refuses a busy wallet
or a deadline that passed, allocates the nonce and commits the signed row;
`record_attempt` writes that a send is about to happen; then the node accepts or
refuses, and what it said is written down in a later step from the command's
snapshot. `tx_resolve` reads the chain for one row and reaches one of the
`verdicts` (`confirm` for an included row, the cascade of `resolve` for any
other), `apply` writes it through the compare-and-swap and the transition graph, and
with `--rebroadcast` a row whose bytes are unknown to the chain is sent again.
`crash` forgets a process at any step. The environment mines, drops,
reorganises above the safe head, advances it, and passes the acceptance deadline
(`late`). The key may be used elsewhere: another user takes the next nonce from a
node, as the wallet does (`ForeignSigns`), and what it signed may be mined
(`MineForeign`), or be held by one node, counted in the `pending` count the ledger
allocates from, and be dropped by all later (`PendingCounts`).

`LedgerPromise` is what whoever asks for an action is promised, with no rows,
nonces, commands or forks in it: an identity is unused, open or decided; a final
block decides the identity it carries and those that lost its place; the ledger
tells each decision once; a further attempt begins only when all earlier ones
are told to have reverted. `KeepsItsWord` maps the ledger onto it: an identity's
fate is read off the chain below the safe head, what is told of it off its row's
terminal status. A row that is `unbroadcast` tells nothing: it claims only that
its bytes reached nobody, which is `ReleasedNeverLive`, and the bytes of another
identity may take its nonce.

Abstracted: the readings that make one verdict come from one instant and from
nodes not behind the safe head; attempts saturate at two, where the code only
compares them with one; the pass over several rows is several `tx_resolve`s; the
confirmation in the same pass is the next `tx_resolve`. Not here: bytes and
their integrity checks, fees, RPC retries, and `withdraw`'s reuse of a pending
identity, whose effect on refunds `HostedService` has through `Deposits`. One
reading is wider than the code's reason for it: before a resend the chain's time
may not be readable (`cli.py:1771`), so any row may be marked stuck there.

### `HostedService`, with `Deposits`

`Deposits` is the liability index and the deposits behind it, deals on the chain
as far as the service sees them. `HostedService` has sessions (`sess`), runs,
the worker and one record per request thread: a request is a sequence of steps,
each one critical section of the code, so that reading a session, observing the
outcome of its refund, claiming, and submitting are separate and may interleave
with other requests, the worker and a restart. A settlement run walks through
creation, naming and the rest of its lifecycle, and may fail at each step or
give up waiting; a refund recovers the deals `open_deals` names and withdraws the
credit; `_recover` at boot names what an earlier process left unnamed. The
worker's callback `_run_finished` queues the automatic refund.

Abstracted: child commands end with the service; only a creation may land after
its run gave up; reorganisations of included lifecycle transactions are left
out; the credit of a wallet is a Boolean; an intent's removal inside
`_recover_deals` is a step of its own; a failed compensation of a submission is
possible exactly when `DiskCanFail`; the ceiling on runs is the size of `Runs`,
and `RunsExhausted` is its test. There is one queue and one registry from the start:
`service.py:445` and `:517` create them at the first request without a lock, and two
first requests at once could make two. A deal id is known in the step in which it is
attached (`executor.py:1077-1078` sets one before the other). The startup reclaim names
what it can in one step. It counts a creation that was included and reverted as having
made no deal, as the code does (`executor.py:151`) before the safe head has passed it;
a reorganisation that lets such a creation succeed after all is not modelled. The
queue's history is cut to `HISTORY` runs (200
in the code) at each submission: `Trimmed` is what `_trim` drops, the oldest runs up
to the first that has not ended, and a run that is `forgotten` is still what it was
but no request can look it up: not `get`, not `busy_with`, not a poll.

### `Memories`

Per side the five writes of `ingest` as five steps, in the code's order: the
pending mark, the record, the journal, the marker, the index, then the mark is
taken away. A command takes locks in the code's order, `create-deal` the
ledger's lock and then both memories', the others the memories alone; learning
drops every lock while the model answers, and checks again under the lock. A
crash ends a command at any write and frees its locks, as the operating system
does. `half` is what a quote derives: the bodies and active readings both sides
hold; a document is one such value and signing compares it with the memories
again. `Reinclude` gives a receipt another body, which makes the conflict path
of `store.py:401-412` reachable although `verify_outcome` pins the ledger row's
block first: an over-approximation, and one the store and its tests
(`tests/test_store.py:610`, `:806`) take seriously. The critical section of
`store-repair` is one step, and the journal's count saturates at two. A re-inclusion
keeps the event's id. A reading is its dimension's id: a relearning that gives an
outcome the same id with other numbers (`cli.py:2134`, `:2178`) does not change what a
quote derives here, while the code compares the numbers. The two memories are locked
buyer first; the code goes by their paths (`store.py:155`), which is one fixed order
as well.

### `Negotiation`, `PolicyDocument` and `Simulation`

`Negotiation` is the arithmetic of `engine.py` and `negotiation.py` over exact
integers: basis points, severities and confidences in tenths, products and
floored, or rounded half away from zero, as in the code. Scores, clamps,
committed numbers, limits, the greedy minimal causal set, derived walk-aways,
the settlement of each term with its moves or its gap, the collectible bond.

`PolicyDocument` has the two ends of a policy document, which are separate code:
the writer, `_document_halves` of `cli.py`, and the reader, the checks of
`policy_document.py` in the reader's order (sides, positions against the bounds
and the derived walk-aways, the settlement run again, the terms against the
preimage, the two hashes). A document is a record; a hash is a commitment to its
contents, so that two hashes are equal exactly when what is under them is. The
spelling and the types of a file's fields, the addresses and the engine version are
left out; so are the reader's limit on a file's size (`policy_document.py:305-307`: a
long enough history could be written and not read), its upper bound on a position's
price (`:592-598`, which the committed persona cannot reach), and the difference
between an empty memory and one without a match, of which the reader takes either.

`Simulation` grows and clears one visitor's history, prices it and writes the
document; the endpoints' refusals are `Answered`. Histories are sets of receipts
in a canonical order, the same one the code sorts into.

### `Quotes`

From a policy file to the block that creates its deal. `policy` writes a file,
live or as a fixture, `rebind_policy` copies one to the contract configured now
under a new identity. A document settles each of its profiles apart, and a
profile may refuse. `create-deal` is told which to take; a deal's identity is the pair
of the request and that profile (`intent_id`), so two profiles of one document are
two deals that may both be signed. The command is one step between two conversations
with a node: `load_policy` reads the file once, takes the profile and looks its
identity up in the ledger;
`_require_observation_happened` checks that a live quote names a recent block;
`estimate_gas` simulates the call against a provisional deadline;
`_sign_under_memory`, under the ledger's write lock, derives the deadline that is
committed; `sign_transaction` judges it once more and signs; `abandon` is every
refusal and crash. Blocks arrive between any two steps (`Tick`), a node shows
any block up to the newest, the local clock is off by a constant, and the
operator may deploy the contract again. `createDeal` is the contract's guards,
its checked product included; `Mine` evaluates them at the block's instant.
Left to other modules: what the terms are (`Negotiation`), that memory produces
them (`Memories`), and the transaction's way to a block (`TxLedger`).

## 3. Runs

| Run | Asks | Instance | Distinct states |
|---|---|---|---|
| `escrow` | `Solvency`, `OutcomeEarned`, `HandOff`, `TermsFixed`, `KeepsPromise`, `DealsEnd`, `EveryoneIsPaid` | a wallet and a re-entrant contract, 2 deals (the last offered by instant 1), prices 0 and 1, bonds 0 / 50 % / 100 % / over the maximum, windows of 1, instants to 4 | 24,308 |
| `ledger` | `FinalVerdictsTrue`, `ReleasedNeverLive`, `ActsOnce`, `SettledStays`, `KeepsItsWord` | 2 processes, one action, 2 identities, a reorganisation, another user of the key with one nonce, no resending | 128,527 |
| `ledger_resend` | `NoGap` | 1 process, a creation with a deadline and a delivery, `--rebroadcast`, a reorganisation, another user with one nonce | 4,900,668 |
| `ledger_fair` | `WalletFreed` | 1 process, one action, 2 identities, `--rebroadcast`, a reorganisation | 3,329 |
| `ledger_release` (violation) | `ReleasedNeverLive` | 2 processes, `--rebroadcast` | 9-state trace |
| `ledger_verdicts` (violation) | `VerdictsApply` | 1 process, another user with one nonce | 6-state trace |
| `hosted` | `UnfinishedIsKnown`, `DepositsIndexed`, `OneRefundAtATime`, `NoSettlementBehindRefund`, `RefundedOwesNothing`, `ClaimIsOwned` | 1 session, 2 request threads, 3 runs, a history of 2, a restart, disk failures | 1,582,414 |
| `hosted_fair` | `WithinLimit`, `RunsEnd`, `StrandedIsRefunded` | 2 sessions for one place, 1 thread, 2 runs, a history of 3 | 141,974 |
| `hosted_refund` (violation) | `RefundEmpties` | 1 session, 1 thread, 2 runs | 24-state trace |
| `pricing` | `QuotesCreatable`, `NobodyOverruled`, `WriterIsReadable`, `AcceptedExplainsItself`, `CommitsToCauses`, `WorseProviderNeverGains`, `WorseBuyerNeverGains` | 6 receipts of three types, 3 ontologies per side, 5 baselines | 2,880 |
| `quotes` | `SignedIsCreatable`, `MirrorsContract`, `OneDealPerIdentity` | 2 commands, 1 file, 2 requests, 2 profiles, 2 deployments, at most 2 signatures, instants to 4, a margin of 1, a clock one fast or one slow, terms that meet and break each rule | 2,157,510 |
| `memories` | `TypeOK`, `WholeHistory`, `MarkCovers`, `BodiesAgree`, `OneReading`, `NoCircularWait`, `SignedFromMemory` | 2 processes, 2 receipts of different types, 2 dimension ids, 4 commands, a crash, a re-inclusion | 978,691 |

Each property is stated in a comment above its definition. In every passing run
each of them has a change to a modelled definition (`PROJECT.json`, `mutants`),
the kind of slip the code could have, under which TLC finds it violated. Only
`pricing` checks for deadlock: every other instance ends when its commands, its
runs or its time are used up.

Why these bounds reach the interesting cases. *Escrow*: two deals are needed for
a re-entrant call to touch another deal than the one being paid; windows of one
instant put every boundary, its instant before and its instant after, within
four, the first instant at which the last of the endings becomes possible; the
bond rates include none, all, one that rounds to a bond of zero and one the
contract refuses, and a price of one with a bond of one against a price of one
with none tells a bond from a price. Larger amounts are in `AlwaysSolvent`. *Ledger*: two processes are every pairing of
sender and resolver; two identities are the original and the retry after a
revert; one reorganisation and one nonce of another user are each enough to undo
or overtake a row at any of its statuses. That user's transaction, counted and dropped,
does leave gaps in `ledger_resend`: without the exception `NoGap` makes for its nonces,
TLC finds one. `ledger_fair` has no other user: a wallet behind such a gap is freed by
nothing the ledger does. *Service*: two threads and the worker
are the three parties that can race for a session; three runs are a settlement,
its refund and one more of either; a history of two is the
shortest that keeps a run beside the one submitted, and so tells apart whether the
older or the newer is forgotten. `hosted_fair` keeps every run, boot's reclaim
included, since forgetting multiplies its states; with a history of 1 it passes too,
with 391,240 states. *Pricing*: two receipts of each type, in an
order that puts a prompt release before and after all others, are what one
receipt needs to make another redundant in either direction; the ontologies
include one with an outcome unread, the baselines one without a bond, one beside
the largest bond and window, one with the shortest window and delay and one
outside its bounds; every combination of a column's parts is exchanged with
every other column's. *Quotes*: a margin, a lag and a skew of one second each
are the smallest at which each can be forgotten on its own, and four instants, with a
window of three, let a deadline pass between any two steps of a command; two profiles
and two requests are what it takes for two identities to differ in either part, and two
signatures what it takes for one to be signed twice; the terms include one
set for each rule the contract refuses by, at its bound and beyond it, with the
word's width scaled down to just below one of the products. *Memories*: two processes and
two receipts let one command overtake another between any two writes; four
commands are two to fill a memory, one to quote and one to change or sign.
Symmetry is used in `ledger`, `hosted`, `quotes` and `memories` only, over values no
definition distinguishes, and never with a liveness property.

## 4. Fairness

- *Escrow.* Time passes; a recipient's code ends one way or the other; and a
  party that keeps submitting the ending it is entitled to (cancelling an
  unaccepted offer, claiming a timeout or an unclaimed payment, withdrawing to a
  wallet) gets it mined between other transactions. Strong fairness, because
  another account's withdrawal may hold the lock now and then. `executor.py`'s
  recovery keeps submitting exactly these. Nothing is assumed of acceptance,
  delivery, release, or of a recipient's goodwill.
- *Ledger.* A process that runs goes on; somebody keeps running
  `tx-resolve --rebroadcast`, and often enough that it sometimes gets from end to
  end; a node sometimes takes the bytes; bytes that keep returning to a mempool
  are mined; the safe head follows. Rows with a deadline (`Timed`) are left out
  of `WalletFreed`: the code deliberately stops resending them. The hosted
  service does not pass `--rebroadcast` (`executor.py:592-595`), so this property
  is the operator's, not the service's.
- *Service.* The worker, its callback and a request that was begun go on; every
  wait of a run has a budget. No visitor has to come back, nothing has to be mined.

## 5. Proofs

### The escrow

`WrasseEscrowProofs` proves, for every set of accounts, every subset of them
being contracts, and every set of values and bounds:

- `AlwaysTyped`: `Spec => []TypeOK`
- `AlwaysSolvent`: `Spec => []Solvency`, the balance is at every step exactly
  the deposits of the open deals plus the credits owed
- `AlwaysAccounted`: the inductive invariant `Accounted` from which both follow

Assumptions, all named in `WrasseEscrow`: `ContractsAssumption` (contracts are
accounts), `AccountsAssumption` (finitely many, `NoAccount` none of them),
`ValuesAssumption` (amounts and rates are naturals), `BoundsAssumption`. TLC
evaluates them in `escrow`.

The argument. `Solvency` is not inductive: a reverted withdrawal brings back
`saved`, of which it says nothing. `Accounted` therefore asks the balance
equation, and well-typedness, of the *world* now and, while the lock is held, of
the saved one. Sums over deals and accounts would need an induction over finite
sets; `Money` avoids it by counting wei as pairs, so that `Total` is one
`Cardinality` and the lemmas about it (`PurseFinite`, `TotalSplit`, `TotalSame`,
`TotalChange`, `TotalZero`) follow from the library's facts about finite sets. Then one lemma per shape of step, `CreationSound`, `AcceptSound`,
`DeliverySound`, `SettlementSound` (which cancellation, release, claim and
timeout share), `WithdrawalSound`, `RevertSound`; `NextAccounted` takes the
actions one by one; the temporal step is PTL.

The second half of the module builds on it, under the same assumptions:

- `AlwaysEarned`: `Spec => []OutcomeEarned`
- `TermsAlwaysFixed`: `Spec => TermsFixed`
- `PromiseKept`: `Spec => KeepsPromise`, the refinement of `EscrowPromise`
- `AlwaysPromised`: the inductive invariant `Promised` from which they follow

The refinement maps the deals and credits that *stand*: while a recipient's code
runs, those that were saved. When it returns, the step must be a collection with
deposits at most, so the invariant has to say what the nested calls can have done:
each deal has `Grown` from the saved one (it is the same, it was opened, or it
holds more under the same terms), and the only credit that moved is the caller's,
by all of it. Growing is transitive (`GrownTwice`); `CreationGrows`, `AcceptGrows`
and `DeliveryGrows` show that the calls without the lock only grow deals, and
`EndingSettles` that the four endings, which need the lock, each pay one party
what the deal held. `Dated` says what the dates of a deal show in each state, of
the saved deals too, since a revert brings those back. `Kinds` sorts every step
into growth, settlement, withdrawal and its end; `StandingSteps` says what each
does to what stands, and both temporal theorems are read off it.

### Deadlines

`QuotesProofs` proves of `Quotes`, for any number of commands, files, terms,
windows, clocks, margins, lags and for any width of the contract's words:

- `MirrorsEveryRule`, about the operators alone: `validate_creatable` accepts
  exactly what `createDeal` accepts
- `TypeCorrect`: `Spec => []TypeOK`
- `Mirrors`: `Spec => []MirrorsContract`
- `Creatable`: `Spec => []SignedIsCreatable`
- `IdentitySignedOnce`: `Spec => []OneDealPerIdentity`

Assumptions: `TermsAssumption`, `OffersAssumption`, `TimesAssumption` and
`ContractAssumption` of `Quotes`, all that the types of the code say of its inputs. The one place where
arithmetic is needed is that a quotient bounds a product (`QuotientBound`): the
code asks `price <= UINT256_MAX // bond_bps` where the contract computes
`price * bond_bps`. `SignedIsCreatable` speaks of pending deals at the instant
of a later block, so it is not inductive; `SignedOnTime` adds that a deal's
deadline lies a margin beyond the instant it was judged at, less what a slow
local clock takes, and that its terms passed the other rules then.
`JudgedOnTime` gets that from one judgement, `CreatableUntilDeadline` gets the
property from it, and `SignedOnTimeKept` carries it over every step.

`OneDealPerIdentity` is about what happens between two commands: a rebinding, a
deployment or another signature may come between any two steps of a
`create-deal`. An identity is a request and a profile. The request says which contract:
`SignedOnce` follows it through every place it is written, in files, in the snapshots
running commands took of them and in the ledger; it was drawn before, and it names one
contract everywhere (`OneContractPerRequest`). And while a command holds the ledger's
write lock it is the only one, and its identity is not on record (`OneSigner`). The
lookup made before the lock is not used anywhere in the argument: the one made under it
is what makes the property true. Nothing is said of two profiles of one request:
`create-deal` with one and then with the other signs two deals, in the code and in the
model.

### Claims of the hosted service

`HostedServiceProofs` proves, for any sessions, threads, runs and restarts:

- `ClaimsKept`: `Spec => []Claims`, the inductive invariant
- `RefundsApart`: `Spec => []OneRefundAtATime`
- `ClaimsOwned`: `Spec => []ClaimIsOwned`

Assumption: `RunsAssumption`. Neither property is inductive. `finishing` is a
lock, and `Claims` says what holding it means: an unfinished refund is the one
its session names, while the session is finishing (`RefundNamed`); a thread on
its way to queue a refund holds a claim that names no refund yet, and is the only
one (`ClaimHeld`); a session neither refunded nor being refunded names none
(`Unclaimed`); and what a thread observed to have ended has ended
(`ObservedEnded`), which is why the comparison in `settle_refund` is enough. The
queue holds a run once (`Queued`), and the worker starts on one only when the
callback for the one before is done (`OneAtATime`). `ClaimsCarryOver` says which
steps leave all of this alone, and the worker's steps, the registry's and the
polls' go through it; admission, the write of an outcome, the claim, its
submission and a restart have a lemma each; `NextClaims` puts them together.

### Deposits and refunds

`RefundProofs` goes on from the claims, under the same assumption and, for the
types and the registry, `LimitAssumption`, for the history `HistoryAssumption`:

- `EveryDepositIndexed`: `Spec => []DepositsIndexed`
- `NothingBehindRefunds`: `Spec => []NoSettlementBehindRefund`
- `RefundedIsClear`: `Spec => []RefundedOwesNothing`
- `RegistryWithinLimit`: `Spec => []WithinLimit`
- `NothingUnfinishedForgotten`: `Spec => []UnfinishedIsKnown`, and `BusyAsWithAll`:
  `Spec => []BusyIsKnown`
- `ServiceTyped`: `Spec => []TypeOK`
- `BooksKept`, `OrderKept`, `EmptiedKept`, `RosterKept`, `NewcomersKept`: the
  invariants behind them

`Books` says what is on disk at each step of the worker: nothing is signed for a
run nobody has begun, the intent is in the index before the creation is signed,
and the row is struck off after the deal has ended. A restart leaves the disk as it
is, so a kill between any two steps finds it in that order. `InOrder` adds that
ids are given out in order and the queue is first in, first out, that a refund
which succeeded is the one its session names until the session is marked, and that
what a thread observed of a refund is how it ended. A settlement admitted behind a
refund therefore finds it neither unfinished (`RefundNamed` of the claims) nor
succeeded. `Emptied` needs both: a refund that succeeded left no deal of its session
in the index, and nothing files one later: while a settlement is in the worker's
hands every refund of its session that has ended failed (`NoRefundYet`), and the
startup reclaim, which also names deals, is taken up before any other run. Each invariant
is carried over the worker's steps by one lemma that takes what they have in
common (`WorkerMoves`) and one obligation per kind of step.

The types of the service include two facts about its registry: its list holds
exactly the open sessions, and no session is charged more than its allowance.
`Roster` says so. A session copied joins the list in the step in which others may be
evicted from it, itself among them; `Without` filters the list as the loop of
`_evict` does, one element at a time, and `WithoutMembers` says what it leaves:
`KeepExists` that its recursion has a solution, `KeepMembers` what the solution
holds after each element, both by an induction over a set of naturals. That a run
is charged under the hold of the lock that checked the allowance is what bounds the
charges (`ServeKeepsRoster`).

`WithinLimit` says that eviction makes room for every session that joins. It is not
inductive: a registry full of busy sessions would keep the newcomer as one too many.
`Refuses` turns visitors away while all places are busy, but it is asked before the
stores are copied, and sessions may become busy meanwhile. What holds is that the
newcomer itself is idle (`Newcomers`): until its copy is done nobody has its id, so it
has no request, no run and no row in the index (`Uninvolved`), and nothing gives it
any. So of a registry one over its limit there is always one to evict, if need be the
newcomer (`OldestIdleEvicted`), and taking one away is enough (`WithoutShortens`, by
`KeepShortens`, an induction over the list). The counting slip that `sessions.py:316`
reports of an earlier version is the mutant of this property.

The trim forgets runs, and `busy_with` looks only at those remembered. `History` says
that what is forgotten has ended, and what has ended stays so; hence
`UnfinishedIsKnown`, and `BusyIsKnown`: a session is busy with a run exactly when one
of its runs is unfinished, as with a history that keeps all. That is all the trim
promises. It may forget a refund that has ended before anybody read how: its session
then names a run that cannot be looked up (`refund_run_id \in forgotten` while
`finishing`) and stays finishing until the process restarts, although `service.py:804`
says that the outcome "is recorded the next time anybody asks". Two sessions, two runs
and a history of 1 lead TLC there in 17 states; in the code it takes 200 later runs
(`executor.py:1156`), and a process admits 400 settlements. No run checks it.

### The memories

`MemoriesProofs` proves every property of the `memories` run, for any processes,
receipts, ontology ids, kills and reinclusions:

- `MemoriesTyped`, `MarksCover`, `OneStory`, `ReadingsUnique`, `NoDeadlock`,
  `HistoryWhole`: `Spec => []` of `TypeOK`, `MarkCovers`, `BodiesAgree`,
  `OneReading`, `NoCircularWait` and `WholeHistory`
- `SignedFromBoth`: `Spec => SignedFromMemory`
- `AlwaysKept`: the inductive invariant `Kept`

Assumptions: `BoundsAssumption` and `NamesAssumption` of `Memories`. `Kept` has a
part for the stores (`Typed`, `Consistent`) and one for each process, `Sound`: its
command has the fields and the lock plan its step needs (`Formed`); it holds locks
of its plan only, the earlier ones first, and all of them inside a delivery or a
quote (`Holds`); what a delivery has written is there (`Delivered`); what a quote
has read is what the memories hold (`Quoted`). The argument is the one the code
makes with its locks: a step writes only to memories its process holds, so
(`OthersSound`) every other process that is inside its own locks keeps what it has
written and read. `StepKeeps` turns this into one obligation per step, `EndKeeps`,
`RestKeeps`, `DeliveryKeeps` and `QuotingKeeps` fit it to the kinds of step, and
`NextKept` takes the steps one by one. `NoDeadlock` needs only that the three
locks are ordered the same way in every plan (`NextLockIsFirst`, `Before`);
`SignedFromBoth` and `HistoryWhole` are read off `Quoted`.

### The ledger

`TxLedgerProofs` proves, for any processes, actions, identities, deadlines,
reorganisations and other users of the wallet, with and without `--rebroadcast`
and a fallback node:

- `LedgerTyped`: `Spec => []TypeOK`
- `SettledForEver`: `Spec => SettledStays`
- `VerdictsFinal`: `Spec => []FinalVerdictsTrue`
- `EffectOnce`: `Spec => []ActsOnce`
- `WordKept`: `Spec => KeepsItsWord`, the refinement of `LedgerPromise`
- `PromiseSuffices`: `Promise!Spec => []PromisedOnce`, what `LedgerPromise` is worth
- `ReleasedIsDead`: `Spec => []ReleasedNeverLive`, and
  `NeverStranded`: `Spec => []NoGap`, both provided `Steady`: nobody resends, or
  there is a single process; the run `ledger_release` shows that the first needs
  this
- `AlwaysTrue`: the inductive invariant `LedgerInv`

Assumptions: the four `ASSUME`s of `TxLedger`. `Borne(i, status, block)` says
what a status claims of the chain: an included row's block carries its bytes if
it is canonical, and if it is not, it is older than the latest reorganisation, so
whatever is mined there later has another fork; a terminal verdict is about a
height the safe head has reached. `LedgerInv` claims this of every row and of
every answer a command has yet to write, however long it sleeps in between
(`RowsTrue`, `CallsTrue`), that every identity of an action before the current
one was used up by a final revert (`Opened`), and that a block's height is its
transaction's nonce (`Chained`). `BorneStays` carries a claim over any move of
the chain (`ChainMoves`), `LedgerKeeps` over any write to a row, each step has a
lemma that fits it to one of the two, and `ConfirmsTruly` and `ResolvesTruly`
show that what a node shows bears its verdict out. `SettledForEver` comes from
the compare-and-swap: the status written over is the one the command read, and
nothing leads out of a terminal one (`NothingAfter`). `EffectOnce` compares two
successes: of two identities the earlier has reverted for good, and one identity
is one nonce. Allocation is a `CHOOSE`; that it finds a nonce rests on `Bounded`
and on the least member of a set of naturals (`Least`), not on induction over the
table. `WordKept` sorts the steps by what they do to the rows and to the final part
of the chain (`FateKinds`): nothing, the safe head passing a block
(`SafeHeadDecides`), an identity opened at a nonce no final block has spent
(`OpeningBegins`), or another status of a row that is not settled
(`RewritingTells`), which tells nothing new or, by `LedgerInv` after the step, the
fate. `ReleasedIsDead` has an invariant of its own, `OffersOnce`: only the
command that signed the bytes offers them, or the one process that runs, so what it
learnt of its send is still so when it writes it down. `PromiseSuffices` looks at
`LedgerPromise` from the other side: its four steps alone keep `PromiseInv` (an attempt
that was begun has only told reverts before it, and what is told is the fate), and so
decide at most one attempt at an action a success. Whoever relies on the ledger can
reason with the promise and leave rows, nonces and forks alone.

`NoGap` says that the ledger leaves no gap of its own making: a slot below a nonce it
holds is spent, or a row that is still worked on is to fill it, or another user of the
key signed for it. A wallet with a gap is stranded, since a node takes its transactions
in order. The exception is real: the ledger allocates above the count a node gives
(`cli.py:1364`, `:1526`), the count includes what another user sent, and if that is
dropped nothing in the ledger fills its place. Without another user (`MaxForeign = 0`)
`foreign` stays empty and there is no exception. Rows give nonces back and
reorganisations take blocks off the chain, so `NoGap` is not inductive. `NoGapInv` adds
to `OffersOnce` that until a first send is settled nothing was signed after it
(`Newest`; `record_signed` refuses a wallet with a row whose fate is open), so that
the only nonce ever given back is the highest; that below a nonce the ledger holds
there is a block, another row or a nonce another user signed for (`GapFree`); and that
only such nonces carry another user's block (`ForeignSeen`), so that a reorganisation
which takes it off leaves nothing unexplained. With two processes and `--rebroadcast`
TLC finds a gap too, by the way of `ledger_release`.

### The negotiation

`NegotiationProofs` is about operators alone, for any receipts, readings and
baseline: what a score is, what the committed numbers are at a risk, and which
receipts the search for causes keeps. `SimulationProofs` adds positions, the
settlement and the document, and proves every property of the `pricing` run:

- `WhatIsQuotedIsCreatable`, `NoSideIsOverruled`, `ReaderTakesWhatIsWritten`,
  `AnEditedAccountIsCaught`, `EvidenceIsMinimal`: `Spec => []` of
  `QuotesCreatable`, `NobodyOverruled`, `WriterIsReadable`,
  `AcceptedExplainsItself` and `CommitsToCauses`
- `TimeoutsNeverPay`, `LateClaimsNeverPay`: `Spec => WorseProviderNeverGains` and
  `Spec => WorseBuyerNeverGains`
- `AnswersBelongToHistory`: the inductive invariant `Shown`

Assumptions: `ReceiptsAssumption` and `TypeOfAssumption` of `Negotiation`,
`HistoryAssumption`, `OntologiesAssumption` (an ontology is a finite set of
readings) and `BaselinesAssumption` (a baseline is four integers, of either sign:
`baseline_fault` is what refuses the unusable ones) of `Simulation`. `Shown` is
short: the quote and the document are what the engines and the writer make of the
history, the readings and the baseline that are asked about. So every property is
a fact about operators, and the work is there.

Sums and recursive definitions are functions, which a `CHOOSE` defines: each needs
a proof that a solution exists. The library's theorems on that, and its induction,
take a predicate as a parameter, which no prover here can be given. The first part
of `NegotiationProofs` states induction about a *set* instead (`NaturalsByInduction`,
`SubsetsByInduction`, `SubsetsByStrongInduction`, all from the well-foundedness of
the naturals), derives that a recursion which looks at one earlier value has a
solution (`RecursionExists`), and from it what a sum does when an element is added
(`SumsStep`), over a union (`SumsAdd`) and over a part (`SumOfPart`,
`SumsOfSupport`). `ScoreGrows` is then that one more harmful receipt never lowers
the score, and `MinimalCausalSet` that the greedy search ends, commits to the same
numbers and leaves nothing that could be dropped: `PassTries` and `PassDrops` follow
one pass, `CausalSetSettles` the passes, of which there are at most as many as
receipts.

In `SimulationProofs`, `Settlement` says when four positions are agreed and on
what; `SensibleTable` that a proposal lies within its own side's limits, whatever
risk the memories give; `SettledInBounds` and `PricedInBounds` that what lies
between two such limits can be created. `WrittenColumn`, `PositionsChecked`,
`SettlementChecked` and `ProfileChecked` take a column from the writer through the
reader's checks, agreed or refused. `SplicedColumn` covers every document made of
the parts of two agreed columns at once: the hashes pin the terms and the evidence,
and the terms follow from the positions shown. `PositionsMove`, `DealsMove` and
`GrownAnswer` carry a score that grew through the rounding, the clamps, the limits
and the settlement, each of which moves one way.

### Only model-checked

Every invariant and every action property that a passing run checks is stated by a
theorem, except `HandOff`, which speaks of `ENABLED`. The types of the escrow, of
the ledger, of the service and of the quotes are proved and no run repeats them. `HandOff` and liveness
(`DealsEnd`, `EveryoneIsPaid`, `WalletFreed`, `RunsEnd`, `StrandedIsRefunded`) are
beyond the prover and rest on TLC, at the bounds of section 3. So does what
`ReleasedIsDead` and `NeverStranded` exclude, two processes that resend, for which
the runs show the contrary or do not ask. The bounds on restarts, reorganisations,
crashes and commands are constants, and the theorems hold for any value of them.

## 6. Where the code and its documents disagree

1. `ledger_release`. `mark_unbroadcast` (`src/wrasse/chain.py:616`) promises to
   release a nonce "only when the bytes provably never reached a mempool". Its
   check is of the caller's snapshot, and the write compares only the status. A
   `tx-resolve --rebroadcast` that starts a second attempt between the refusal of
   the first send and its being written down leaves status and snapshot as they
   were: the nonce is released and the resent bytes are accepted. Without
   `--rebroadcast`, or with one process, the promise is kept: the run `ledger` shows
   it and `ReleasedIsDead` proves it.
2. `ledger_verdicts`. `_tx_resolve` "Applies what the chain says"
   (`src/wrasse/cli.py:1699`). For a row that is signed, reorged or stuck whose
   nonce somebody else took, the verdict is `nonce_conflict_pending`, which
   `ALLOWED_TRANSITIONS` does not list from there, so the command ends with an
   exception and the rows after it are not looked at.
3. `hosted_refund`. `Session.refunded` is "Set when the escrow has actually been
   emptied back into the wallets, never before" (`src/wrasse/sessions.py:93`). A
   creation that is mined after its settlement gave up on it, and after the
   refund ran, leaves a deposit in a session marked refunded. Its row in the
   index survives (`DepositsIndexed`, proved by `EveryDepositIndexed`), so a restart
   recovers it.

`KNOWN-LIMITS.md` accepts some behaviours that the models also have, and which
are no findings: a refund counts as complete at inclusion, it collects the
wallet's shared credit, and a restart loses sessions and runs.

## 7. Not modelled, and why

The codec, memory gate, providers and agent positions have no state of their own
and decide nothing; the prompt and the parsing of the model call are left out
(its answer is any dimension); `prove.py` compares two quotes; the page, the
bundle and the deployment generate text.

Within the modelled components: RPC retries and fees, the real time of waits
(every wait may end either way), log parsing, identity checks on opening a store,
the migration of the old liability table, the events of the contract, the
spelling, types and size of a document's fields, the published manifest and the
encoding under a hash, and a document that names no contract, which the reader refuses
(`policy_document.py:336-341`) and the writer of this version cannot produce.

Two runs reach less than they might. `hosted_fair` has no disk failures, under which
the refund that must follow cannot be promised, and with two runs only the first
settlement leaves room for a refund behind it; so `StrandedIsRefunded` is shown of
first settlements. In `memories` four commands do not leave room to fill the
memories, quote, relearn and then sign; `SignedFromBoth` proves
`SignedFromMemory` for any number. Of hazards without a property `PROJECT.json` says
why at each.

## 8. Plan

Done, in the order in which the pieces depend on each other: escrow with its
abstract specification and first proofs; ledger; deposits and service; pricing;
memories; policy documents; quotes and their deadlines, with proofs; the proofs
of the service's claims; the refinement of the escrow's promise, proved; the
properties of the memories, proved; the truth of the ledger's verdicts, proved;
what the service promises about deposits and refunds, and its types, proved; a
request and profile signed once, proved; the ledger without gaps, proved; the ledger's promise
stated abstractly and its refinement proved; every property of the negotiation,
proved; the trimmed history of runs, and the registry within its limit, proved. Next:

1. *Model further*: `withdraw`'s identity (`cli.py:1646`) in `TxLedger`;
   reorganisations of lifecycle transactions in `Deposits`; the message a learner ends with when it wrote one memory of two
   (`cli.py:2173`) against what it did.
2. *Compose*: a `HostedService` that learns of its transactions through
   `LedgerPromise` instead of through `Deposits`' own choice of outcomes.
3. *Prove*: the properties that come with what is modelled next; `PromiseSuffices`
   is what the composition would start from.
