# A formal model of the BYOS service

BYOS lets external *sub-solvers* post signed proposals for CoW Protocol orders.
The service validates them, bids the best one per order when the CoW driver
calls `/solve`, follows the settlement through `/notify`, and charges the
sub-solver's escrow when a settlement it won reverts or is given up. This
directory holds TLA+ modules of that service, TLC configurations that check
them, and TLAPS proofs about them. Paths below are relative to
`crates/byos/src` unless they say otherwise.

## Inventory

| part | source | state | operations | what is hard | what makes it correct | module |
|---|---|---|---|---|---|---|
| Proposal store | `infra/storage.rs`, `migrations/` | tables `proposals`, `solutions`, `penalties`; the audit sender | insert, transition (CAS), resolve_verdict, cancel, apply_settlement_outcome, release_stale_executing, sweep_dropped, record_* | every caller works from a stale read | one lifecycle for every race, evidence columns that match the status, attribution without dangling keys, a trail that explains each row | `ProposalStore`, `ProposalLifecycle` |
| Validation loop | `infra/validation.rs` | a tick's snapshot | release, snapshot, expire, validate, resolve | up to 8 verdicts in flight while every other actor writes | no verdict resurrects or overwrites; every proposal leaves play | `ByosService` |
| `/solve` | `infra/api/solve.rs` | picks of one call, solution numbering | read, score, record, bid | ids reused after a dropped bid, re-run auctions, proposals that changed since the read | a returned bid is attributable, pays its gas and keeps the limit | `ByosService`, `Bidding` |
| `/notify` | `infra/api/notify.rs` | attributed outcomes of one notification | join, apply one by one, note | lost, repeated, reordered and merged notifications | money follows the chain, one charge per loss, no revert without a trace | `ByosService` |
| Public API | `infra/api/{routes,dto,error}.rs` | none | create, cancel, get, list | cancellation racing everything; signatures sent where they do not belong; rows that do not decode | only owners see and cancel, a final answer stays final, damage costs one proposal | `ProposalApi`, `ByosService` |
| Retention loop | `infra/retention.rs` | none | sweep | deletes what others still refer to | only dropped rows, attribution survives | `ByosService` |
| Penalty loop, operator | `infra/penalty.rs`, `infra/blockchain/operator.rs` | attempt counts in memory, debits on chain, debts in the database | price, debit, confirm, record, park | timeouts that land late, records that fail, restarts | charged before written off; bounded double charges; no debt forgotten; every debit for a settlement that reverted or was given up | `PenaltyLoop`, `ChargedService` |
| Audit trail | `infra/audit.rs`, `domain/audit.rs` | unbounded channel, one writer | emit, insert with retry, drain | gap between commit, event and row | true, lost only by process death | `AuditTrail` |
| Startup, shutdown | `run.rs`, `infra/api/mod.rs` | task handles | connect, spawn, bind, serve, abort, drain | a startup that fails half way; the order of teardown | a service that returned leaves nothing running or unwritten | `AuditTrail` |
| Validator pipeline | `infra/blockchain/{validator,escrow,simulation}.rs` | published gas price, per-tick balance cache | escrow gate, envelope, simulation, profitability gate | stale price or balance; one escrow behind many proposals | a fault defers, only a fact condemns | `ValidatorPipeline` |
| Order cache | `infra/orderbook.rs` | bounded map | fetch, remember, clear | concurrent fills at capacity | everything is judged although validations clear the cache under each other | `ValidatorPipeline`, `Bidding` |
| Scoring | `domain/{scoring,gas_cut,order}.rs` | none | envelope, score, cut | saturation and rounding of 256-bit products | the limit survives the cut, the gas is paid, the best is bid | `Bidding` |
| Sub-solver client | `crates/subsolver` | live submissions, nonce | poll, propose, quote | lost answers, terminal verdicts | at most one proposal per order within its deadline; orders keep being served | `SubSolver`, `Bidding` |
| Signed messages | `crates/byos-common/src/eip712.rs` | none | sign, recover | three messages in the same fields | a signature says one thing only | `ProposalApi` |

`crates/byos-common` (call-data encoding), `crates/proposal-dto` (wire types)
and `crates/e2e` (test fixtures) keep no state. The CoW driver, the chain,
Postgres and the escrow and trampoline contracts are outside the repository and
appear only as the code uses them.

The parts interact through the three tables, the audit channel, the published
gas price, and HTTP calls from the driver and the sub-solvers. There is no lock
between actors but the row locks of single store operations.

## Modules

* `ProposalLifecycle` is the promise: a proposal is in one of eight phases and
  moves along listed edges only.
* `ProposalStore` is `storage.rs`. Each public operation that writes is one
  action, because each is one SQL statement or one row-locked transaction. A
  `row[p]` keeps the columns the properties tell apart: status,
  `status_changed_at` (`since`), `valid_until`, whether gas and trampoline are
  set, whether a rejection reason is set, the settlement hash, whether the
  penalty hash is set. `StoreNext` lets callers issue anything at any time.
* `ByosService` extends it with the callers. `loop` and `view` are the tick: its
  `now`, the rows still to expire, and per proposal the status the snapshot saw,
  then the verdict. `solve[a]` is the `/solve` call of auction `a`: picks not yet
  recorded and bids returned. `applying` holds outcomes `/notify` attributed and
  has not applied. `settle[a]` is the driver. Every `await` in the code is a
  point between two actions. `Crash` forgets everything but the tables, and
  happens at most `MaxCrashes` times (counted in `crashes`): of the evidence
  handed over (`audit`) only what the writer has inserted (`written`, by `Write`)
  outlives it, since the channel is in memory.
* `PenaltyLoop` is `penalty.rs` with `operator.rs`: one sequential sweep over
  reverts, one over non-settlements, and the fate of each transaction on chain.
  A debt stands for a `settleFailed` row or a pending `penalties` row.
* `ChargedService` runs that loop over the tables of `ByosService`. `DebtTable` is
  what the loop's queries see of them, and `PenaltyLoop` is instantiated with it
  in place of `debt`, and with `crashes` in place of `restarts`. The loop reads
  rows, then debits from what it read (`bill`: the settlement each revert cites)
  while everyone else goes on; what it records is the store's own
  `RecordPenalty` and `RecordNonSettlementDebit`, which `ByosService` alone lets
  happen at any time; and `Died` takes the memory of both. `priced` collects the
  settlements each revert was charged the cost of.
* `AuditTrail` is the path of a change from commit to `audit_events` row and the
  life of the process around it: the fallible steps of `run_with`, the loops
  spawned after them, the listeners, the answering of the last requests, the
  aborted loops that each go on to their next await, and the writer that leaves
  when nobody holds a sender.
* `ValidatorPipeline` is a tick's verdicts, which `ByosService` leaves free. Each
  live proposal is a task; each RPC or HTTP call is a point between two of its
  steps; tasks share a semaphore, the balance cache of the tick, the bounded
  order cache, the trampolines, the authenticator and the gas price that `/solve`
  publishes. Balances and prices move at any time, calls fail until `Recover`,
  and the process may restart.
* `Bidding` is arithmetic: the sub-solver's quote, the order record, the
  envelope, the profitability gate, `/solve`'s scores, its gas cut, and the
  settlements that are simulated and bid. Amounts are words of `MaxWord`; a
  checked operation that leaves them gives `Nothing`, as `checked_mul` gives
  `None`. The properties are stated in whole numbers that no word bounds.
* `SubSolver` is the reference client's loop against *any* service that
  `ProposalLifecycle` allows (`INSTANCE ProposalLifecycle`, whose actions are the
  service's steps), with lost answers and restarts. The store is proved to
  implement that specification, so the module needs no detail of it.
* `ProposalApi` is what the endpoints answer and to whom, over rows some of which
  cannot be decoded. `rows[p].damage` names the columns that do not parse; each
  operation of the store decodes other columns, and SQL still moves a row it
  cannot decode. Signatures are a signer and the message it meant; `Recovered`
  gives the signer only when the digest of the message that is checked is the
  digest of the one that was signed.
* `MC*` modules and `.cfg` files instantiate these for TLC; `*_proofs` hold the
  theorems.

Operators named `Op_Mistake` are wrong variants of `Op` used to test that a
property can fail; no specification uses them.

`PROJECT.json` maps each definition to its source lines.

### Abstractions worth knowing

* The clock and the database's `now()` are one counter. The code notes that
  drift only moves when a proposal is shown.
* In the store and the service amounts, tokens and signatures are gone: a
  signature is its signer, the verdict is free (accept, reject, simulation
  failure, or deferral) except that an order filled on chain does not simulate,
  and which candidate scores best is a free choice, at most one per order. Those
  orders are fill-or-kill. `ValidatorPipeline` and `Bidding` compute what is free
  there; partial fills are in `Bidding`.
* `AcceptAll`, the fallback without an RPC node, is covered by the verdict
  `acceptUnsimulated` in `StoreNext` only.
* A database call that fails (`DbFaults`) leaves the tables alone, or makes its
  change and loses the reply: the change is there, its event is not (`HandOver`),
  and the caller goes on as after a failure. For `record_solution` that is a row
  without a bid.
* Calls of `/solve` for one auction follow one another: the driver asks again
  only when its last call was answered or has failed. The handler does not
  enforce it. Two calls that overlap would number their solutions alike, and the
  later upsert would take over keys of bids the other returns: `AttributionExact`
  rests on this assumption. The `now` of a call may be any time up to its read.
* The proposals of one notification are applied in any order, which includes
  the order of the code. A failed attribution lookup is a notification that was
  never delivered, so `RevertAccounted` says nothing of it.
* In `ProposalStore` an event is emitted with its commit, or with `DbFaults` lost.
  The gap between the two is what `AuditTrail` is about, where a change is an
  opaque value.
* `queue_non_settlement_penalty` has no caller outside the tests and is left
  out; reads are predicates of the actors that issue them.
* In `ValidatorPipeline` only the validator moves a proposal: what the others do
  to a row between snapshot and verdict is `ByosService`'s.
* `Bidding` prices with small words on purpose: `MaxWord` is a constant, so every
  overflow, saturation and rounding of the 256-bit code happens among amounts
  small enough to enumerate. `MaxGas` is the `u64` of the gas. Deadlines and the
  database are absent.
* `SubSolver` keeps deadlines as the time left to them and a pass's `now` as its
  age, so the clock needs no bound.
* `ProposalApi` has no clock: what a deadline or timeout guards may happen at any
  time. A debit is one step, `PenaltyLoop` takes it apart.

## Runs

| run | instance | what it shows |
|---|---|---|
| `store` | arbitrary callers, 2 proposals, a stranger's signature; 122,640 states | `EvidenceColumns`, `AttributionIntegrity`, `TrailExplainsRow` (the row and each queued or paid charge are explained by events), and the store implements `ProposalLifecycle` |
| `faults` | 2 proposals on different orders, one auction, repeated notifications, any call failing or losing its reply, a crash; 2,893,562 states | `AttributionExact` (solution ids reused after a dropped bid, auction asked again), `MoneyFollowsChain`, `ExecutingWasWon` with merged settlements |
| `delivery` | 1 proposal, 2 auctions, notifications at most once, any order; 728,873 states | `OneChargePerLoss`, `RevertAccounted`, and, with fair loops, `PlayEnds` and `DroppedSwept` |
| `penalty` | a revert and a non-settlement, cap 2, one restart, one lost record per debt | `ChargesBounded`, `DebtsResolved` |
| `penalty_cap` (violation) | no restart | more debits than the attempt cap land |
| `charging` | the service and its loop: 1 proposal, 2 auctions, cap 1, one crash; 1,900,674 states | `LoopImplemented`: the tables under the loop behave as the debts `PenaltyLoop` was written for; `EscrowFollowsChain`: debits are for settlements that reverted, or were given up, with the proposal's bid in them |
| `audit` | 2 requests, 2 loops, 1 crash, failing startups, up to 3 rows; 366,450 states | `TrailTrue`, `LostOnlyByDeath`, `NothingOutlives`, `EvidenceArrives`, `ShutdownEnds` |
| `pipeline` | 3 proposals of one sub-solver, 2 orders, a cache of one, 2 permits; 404,824 states | `EscrowJudgedInTick`, `FaultsOnlyDefer`, `DropsHaveCauses`, `SubmissionsJudged` |
| `bidding` | 2 proposals for each of 6 orders, 8-bit words; 433,634 states | `LimitKept`, `SimulatedIsSettled`, `BidPaysItsGas`, `QuoteStands`, `BestBid` |
| `subsolver` | 3 ids for one order, lost answers, one restart; 1,095,840 states | `OneStanding`, `OrdersServed` |
| `api` | 2 proposals for one order by two routes, one account and a stranger, one damaged row; 370,797 states | `ShownWhatWasSigned`, `AnswersFinal`, `EveryChangeTold`, `DamageContained` |
| `queue` (violation) | as `api` | one unreadable charge stops every other |

The runs of the store, the penalty loop, the bidding and the API check their
module's type invariant too. Of the others it is proved only (`ServiceTyped`,
`HeldAlways`, `TrailTyped`, `PipelineTyped`, `SubSolverTyped`).

In `pipeline`, what an auction asked for is kept beside the price that is shared
(`seen.asked`), so `EscrowJudgedInTick` fails if a price too large for the shared
word reaches the escrow threshold cut down to it. Each task keeps what its last
call answered, so `FaultsOnlyDefer` and `DropsHaveCauses` compare what the code
made of an answer with the answer.

`OneStanding` speaks of proposals within their deadline. A settlement may be in
flight past it; the client has dropped that proposal by then (`run.rs:126` of the
sub-solver) and may post another beside it, as its comment (69-71) says.

### Bounds

* Two proposals are enough for merged settlements, bulk updates that touch
  some rows and not others, and reuse of a solution id by another proposal. Two
  auctions are enough for a proposal to win, be released and win again.
* `MaxTime` stops the clock. In `faults`, a lifetime of 1 and timeouts of 0 let
  two ticks of time reach every comparison on both sides: `now` below, at and
  beyond a deadline, a stale and a fresh execution, a row in and out of
  retention. `delivery` uses a lifetime of 2, a timeout of 1 and 3 ticks, so that
  a proposal can be released while it is still worth bidding.
* `Post` keeps deadlines below `MaxTime`, and a start is applied only while its
  timeout fits below it. Otherwise the clock would stop before a deadline or a
  timeout could pass, and liveness would fail for no reason of the code's.
* `MaxCharges` bounds the penalties table, `MaxRestarts` and `MaxMisses` the
  restarts and lost writes of the penalty loop, `MaxRows` the rows a retried
  insert may add, `MaxCrashes` the deaths of the process. `Tracked` names the
  kinds of evidence an instance keeps: a run that asks nothing of the trail keeps
  none, and `delivery` the notes of reverts.
* `pipeline`: a cache of one order and two orders make concurrent validations
  clear each other's entry; two permits for three tasks make one wait; one
  sub-solver makes them share a balance; prices 0, 1 and 4 around a largest price
  of 3 make one auction's price too large for the shared word. Two proposals fail
  the envelope, so that a cached order condemns as well.
* `bidding`: one order of each kind (sell or buy, fill-or-kill or partial), one
  whose limit is too large to multiply, and one that keeps a balance elsewhere.
  Amounts 3, 5 and 7 around limits 5 and 4, prices that do not divide, and a gas
  price whose product with the gas leaves the word put both sides of every
  comparison and every overflow within reach. `CHECK_DEADLOCK FALSE`: an order
  that is filled, with every proposal judged, has no step left.
* `subsolver`: three ids are one proposal that stands, one whose answer was lost, and
  one more. A service that has drawn all of them stops serving, which
  `OrdersServed` excepts by name.
* `api`: two bodies for one order that differ in their route are the least two
  messages a digest must tell apart; one damaged row or charge is enough, since
  each property speaks of the others.
* `charging`: one proposal in two auctions can be lost in the first,
  released, and revert in the second, so both kinds of debt are owed at once. A
  cap of 1 is the least that parks. Calls do not fail and notifications come at
  most once here: `faults` has both, and the theorems hold with both. A lost
  record on top of a crash takes TLC too long (3,761,688 states, checked once);
  `penalty` loses records, and the theorems hold with both. Auctions are
  symmetric, since nothing compares them.
* Proposal ids are symmetric where one owner holds them and their orders are
  all equal or all distinct. Symmetry is not used with liveness.

### Fairness

`ByosService` (`delivery`): the loops are spawned for the life of the process
and tick every period, so their actions are weakly fair. The tick's own steps
are too, which assumes of the environment that every call of a tick returns: the
code sets no timeout on its calls to the node (`run.rs:316`) and the orderbook,
and `join_all` (`infra/validation.rs:151`) waits for the last verdict, so one call
that hangs would stop every later tick, and `PlayEnds` with it. Nothing is assumed
of sub-solvers, the driver, `/notify`, or the verdict. The run has no database
faults and no crash: a database that fails every write forever keeps a proposal in
play, and the code does not claim otherwise.

`PenaltyLoop`: the loop keeps ticking (weak fairness) and a read that can fail
succeeds now and then (strong fairness of each snapshot).

`AuditTrail`: the writer is scheduled and the database accepts an insert in the
end; a request is answered; the runtime drops an aborted task at its next await;
a service that is stopping stops. Nobody is obliged to crash, to shut down or to
boot.

`ValidatorPipeline`: ticks begin, every call of a task returns one way or
another (the same assumption), and failures end (`Recover`). Reverts, prices, balances and
submissions are free for ever.

`SubSolver`: its loop polls, every call returns, time passes, failures end. The
service owes nothing. `Prompt` assumes that a pass whose calls are answered ends
before the deadline it would post; without it a client could for ever arrive too
late.

`ProposalApi`: the validation and penalty loops tick and their awaits return.
Nothing is owed by clients, the driver or the sweep.

`Bidding` states only safety.

### Disagreements with the documentation

Two are shown by runs, and one is proved:

* `ReleasedAlwaysLate`: `storage.rs:532-534`, `validation.rs:90-91` and ADR-0013:35 say a
  released proposal whose settlement landed is re-simulated and dies as
  `SimFailed`. It is stamped on entering execution while it was within its
  deadline, and the deadline is at most the lifetime cap away. With a timeout no
  shorter than the cap, as the defaults have it (300 s and 5 m), the tick that
  releases it also expires it, for every value of the constants. The outcome is
  harmless for the chain, but the record says `expired` of an order that was filled.
* `penalty_cap`: `operator.rs:18-20` says double charges are bounded by the
  attempt cap. Each landed debit whose record fails restarts the count.
  `ChargesBounded` is the bound that does hold, `CapHolds` says when the
  documented one does.
* `queue`: `storage.rs:912-918` says a collection returns what it can read, and
  what it would cost to collect into one `Result` instead. `pending_penalties`
  collects into one `Result`.

The rest was met while modelling; no run speaks of it, because the models follow
the code:

* `validator.rs:318-320` and ADR-0013:44 say that price moves do not churn
  active proposals. The profitability gate does not, but the escrow threshold is
  the escrow gas at the shared price plus the collateral (`escrow.rs:41-47`), so a
  price that rises rejects active proposals for `InsufficientEscrow`, and a
  rejection is final. `DropsHaveCauses` states what does hold: it is the only way a
  price drops them.
* `storage.rs:475-481` concedes that a repeated abandonment after a proposal
  re-won queues a second charge, which `queue_non_settlement_penalty`'s doc
  (764-767) excludes. That doc also says `/notify` calls it after the transition
  commits; nothing calls it, the charge is inserted in the transition's own
  transaction.
* The comment on `decode_rows` says no sweep can move an unreadable row. Release,
  retention and settlement outcomes select by columns that still match, and move
  it or delete it.
* `release_stale_executing` parses the identity of every row it released before
  it commits: one that does not parse rolls all of them back, tick after tick.
* A `GET` of a damaged row answers 500 to every authenticated caller, before
  ownership is known.
* `validator.rs:357-360` says only error code 3 is a revert; a null response
  counts as one too.
* `escrow.rs:26-27` promises one RPC call per sub-solver per tick; concurrent
  validations that miss the cache together each make one. `orderbook.rs:166-168`
  promises one `native_price` call per proposal; a deferral after it makes
  another.
* A partially fillable order whose limits are too large to cross-multiply is
  rejected as `AmountMismatch`, whatever the proposal offers.
* The comment in `settlement.rs` that the envelope makes proposal and order
  amounts equal for fill-or-kill orders is true of the target side only.

## Proofs

All theorems hold for every value of the constants that satisfies the named
assumptions (`StoreAssumption`, `ServiceAssumption`, `PenaltyAssumption`,
`ChargeAssumption`, `AuditAssumption`, `PipelineAssumption`, `SubSolverAssumption`, `ApiAssumption`,
`BiddingAssumption`), which say no more than what kind of thing each constant is
and

* that an attempt cap, a capacity, a number of permits, the atoms of an ether
  and the pool's fee are positive, and the fee's numerator is no more than its
  denominator (`crates/subsolver/src/domain/routing.rs`: 997 of 1000);
* that a settlement's hash identifies it, and that a sub-solver's time to live
  is within the service's cap;
* that two request bodies that agree in order and route are the same body, since
  every field of a body is signed as part of one or the other
  (`crates/byos-common/src/eip712.rs:39-46`);
* that a signed order sells and buys something, and that an amount, a price or a
  gas estimate with its buffer fits the word the code keeps it in.

* `ProposalStore_proofs`. `StoreTyped` is inductive by itself. `EvidenceAlways`
  needs it, and splits per action into "one row changes and the new row is
  evidenced" and the two bulk updates. `DeadlinesCapped` is not inductive as it
  stands, since `since` is restamped: the invariant proved is that a row's stamp
  is not ahead of the clock *and* its deadline is within the cap of its stamp.
  `ReleasedAlwaysLate` follows from it. `LifecycleImplemented` shows that each
  operation moves one proposal along an edge or is a bulk move of the abstract
  specification. The edges are lemmas about statuses, so that the step proof
  only looks at which row changed. These hold of a store whose process may die at
  any moment and forget any part of its evidence (`MortalSpec`), of which
  `StoreSpec` is the case without deaths (`StoreIsMortal`). `TrailExplains` is of
  `StoreSpec`, for a database that answers. It says what a step tells
  (`Telling`): a status changes together with the event of that change, whatever
  operation changed it. Charges need two invariants of their own: one is only
  ever against a proposal that was born (`ChargedBorn`), else a proposal posted
  later would inherit it, and it was queued with the release that caused it and
  paid with the evidence of the debit (`ChargeTold`).
* `ByosService_proofs`. `ServiceDrivesStore` shows that the service implements
  `MortalSpec`: its actors call the store as anybody may, and `Crash` forgets
  evidence. What has to be carried between an actor's steps is that the
  tick's `view` holds live statuses for rows it will expire and that `applying`
  names proposals. The lifecycle, evidence and attribution theorems of the store
  then hold of the service, crashes and faults included. `ServiceTyped` adds to
  the types that solution numbers stay within the ids handed out.
  * The trail needs more, because a lost reply or a death loses evidence. While the
    database answers, a row or charge the trail explains stays explained unless a
    death finds evidence of its proposal unwritten (`OnlyDeathLosesTrail`); until
    the first death the trail explains all of them (`ServiceTrail`). Both rest on
    what every step tells (`ExplainedStep`, `ChargeToldStep`) and on `written`
    being part of the channel's evidence.
  * `BidsAttributed`: the invariant (`BidsNamed`) says of each bid what the
    property leaves to the tables: its proposal was posted, its key is of no
    other proposal, and it is in `solutions` as long as the proposal is. A step
    that records a bid gives it a number beyond those of its call's bids, and the
    upsert replaces what a dropped bid or an earlier call left under it.
  * `FrozenWasWon` and `MoneyByChain`: what a settlement decided is fixed once
    begun, because the call it came from is over and its bids do not change
    (`CallsClosed`); what `/notify` holds or was told is what the chain did
    (`Answered`); what a row says of money is what the settlement it names ended
    as, and it was in it (`Decided`). That its hash names one settlement is what
    makes merged, repeated and late notifications harmless.
  * `ChargedOncePerLoss` counts: a proposal has at most as many charges as there
    are lost settlements it won whose abandonment has been applied
    (`ChargesSpent`), each of which is applied once. It holds where notifications
    are delivered at most once (`~ Duplicates`); with repeated ones it is false,
    as `storage.rs:475-481` concedes.
  * `RevertsAccounted` holds for a database that answers and a trail that keeps
    reverts (`Reliable`), until the process first dies (`crashes = 0`): an
    outcome attributed and not yet applied lives in memory alone. These are the
    constants of the run `delivery`, which excludes the same. What a death can
    cost is `OnlyDeathLosesReverts`, over any number of them: a traced revert
    loses its trace only to a death that finds it attributed and not yet applied,
    or its note in the channel and not yet written.
  * The penalty loop in the service. The step proof of `PenaltyLoop` cannot be
    cited before the tables are known to behave, and the tables behave only while
    the loop records what is owed, so one invariant (`Held`) carries both: the
    service's types and evidence, the loop's types and what it has at hand, and
    that what the sweep read a revert to cite is what its row still cites
    (`Bills`). Each step of the service then makes at most one debt, and out of
    nothing (`ServedDebt`), and each record pays the debt at hand (`RecordBoth`).
    `ChargedIsService` and `LoopServed` follow: everything proved of the service
    holds with its loop running, and everything proved of the loop holds of the
    service's tables (`ServiceChargesBounded`).
  * `EscrowByChain` joins three invariants: debits are only ever sent for debts
    that were reported (`OnlyDebtsDebited`, of the loop), a revert was priced by
    the settlement its row cites and no other (`Costs`), and a queued charge is of
    a settlement the driver gave up (`QueueGrounded`); `MoneyByChain`'s invariant
    says what the cited settlement ended as.
* `PenaltyLoop_proofs`. `ChargesBounded` alone is not inductive. The invariant
  adds, per debt, how many debits the running epoch may have sent: the attempts
  counted so far, one more while a transaction is mined and not yet confirmed, a
  full cap once its landing is known and its record pending. `OnlyDebtsDebited` is
  inductive with the same invariant: a debit is sent for the debt at hand, and
  a debt is never forgotten.
* `AuditTrail_proofs`. The invariant says that a caller with a reply committed
  (`Honest`), that whoever could still emit belongs to a loop that runs or a
  service that answers, and that nothing waits before the loops are spawned or
  after the service returned (`Quiet`). `TrailTruth`, `EvidenceKept`,
  `NothingLeft` and `FlushComplete` follow.
* `ValidatorPipeline_proofs`. A task's verdict says nothing by itself of why it
  was given. The invariant carries, per task, that a fault leaves it without a verdict
  (`Shaped`), that how far it came fits its row and its envelope, so that only a
  submission is gated (`Engaged`), that a verdict says what the last call answered
  or the gate saw (`Caused`), and that a threshold, a balance read and a check
  passed rest on a price and a balance seen since the tick began (`Grounded`). An
  active row once passed the envelope (`RowsOK`), the shared price is the last one
  asked for, and the tick's cache holds only balances seen in it (`WorldOK`). A step of one task
  leaves the others right because none of this mentions what they share but
  `seen`, which only grows within a tick.
* `ProposalApi_proofs`. Every step, however the row is damaged, does one of five
  things to a proposal (`Step`): leaves it, moves it unasked, posts it, cancels it
  or sweeps it, each with its evidence, its answer and the signature it was asked
  with. `ChangesTold` follows from that alone. `FinalStays` needs that a status
  told as final is one and that a row leaves it only to be charged (`Kept`).
  `SignedBeforeShown` needs that a row in an account's name has the creation it
  was asked with, and a cancelled one its cancellation (`Signed`); the three
  messages of `eip712.rs` then cannot stand for each other because their digests
  differ.
* `Bidding_proofs` is about whole numbers of any size. It starts with what a floor
  and a ceiling are (`WithinFloor`: the largest number within a quotient;
  `BeyondCeil`: the least beyond it), then what a checked operation that gives a
  word says of its operands (`CheckedOps`, `CheckedQuotients`), then what a score
  or a cut that exists says in exact numbers (`ScoreSays`, `Cuts`, `Bills`): a
  score above zero excludes that its bill was cut off at the largest word. The
  invariant `Sound` adds to the types that an active row passed the envelope
  (`ActiveFit`), that a fill-or-kill order is executed whole or not at all
  (`Whole`), that an auction offers what is left (`Offered`) and that a bid was
  scored and sized in the auction it answers (`BidSound`).
  * `LimitSurvives` and `SimulationSettles` follow from `TradeKept`: for a sell
    order the executed amount passed the floor of what its route returns, which
    bounds the ceiling the contract pays; for a buy order what is sold is no more
    than the floor of the scaled limit.
  * `GasPaid` follows from `ScoreSays` and `Cuts`.
  * `QuotesHold`: the pool's product grows by a quote in either direction because
    the output is rounded down and the input past its floor (`QuotedOut`,
    `QuotedIn`); a quote that meets the whole order's limit meets the envelope's
    cross-multiplied one.
  * `BestIsBid`: a proposal in reach by exact amounts scores (`ReachScores`) and
    can be sized (`ReachSized`), so it is a candidate, so some candidate has the
    largest score (`LargestWord`, by the well-foundedness of the numbers) and is
    bid; and a candidate's score is what it nets (`NetIsScore`).
* `SubSolver_proofs`. `OneStanding` is not inductive: that a proposal that stands is
  the one held must come with "and the time its holder counts is no less than
  what is left of it" (`HeldStanding`), or the holder could let go too early, and
  "an order waiting to be posted is not held" (`PendingFree`), or a post could
  overwrite what is held.

`DeadlinesCapped`, `ReleasedAlwaysLate`, `DebtsPaid`, `CapHolds`,
`OnlyDebtsDebited`, `OnlyDeathLosesReverts`, `OnlyDeathLosesTrail`, `ServiceTrail`,
`ChargedIsService`, `ServiceChargesBounded`, `FlushComplete`, `CacheBound`,
`PipelineTyped` and `ServiceTyped` have no run of their own. (TLC agreed with
`RevertsOutlive` once, on `charging` with the notes of reverts kept: 2,132,391
states.)

Every invariant and action property of a passing run is a theorem. Only
model-checked: the liveness properties, which are out of the prover's reach
with everything that uses fairness or `ENABLED` (`PlayEnds`, `DroppedSwept`,
`DebtsResolved`, `EvidenceArrives`, `ShutdownEnds`, `SubmissionsJudged`,
`OrdersServed`, `DamageContained`).

## Plan

Done: the store and its lifecycle, the service around it, the penalty loop alone
and over the service's tables, the audit trail with startup and teardown, the
validator pipeline, the arithmetic of bidding, the sub-solver against the
lifecycle, the API over damaged rows.

Left:

1. The order of commits and events of one proposal in `AuditTrail`.
2. The amounts of debits, as words, next to what the escrow holds.
3. `ChargedOncePerLoss` under repeated notifications, as a bound that counts
   them.

## Not modelled, and why

* The layout of call data, of signatures and of audit payloads, wire parsing,
  logging and argument parsing change no state and decide nothing the properties
  speak of.
* `AcceptAll` is stateless. A quote auction, which carries no id, is bid like any
  other and records nothing: it is never settled, so nothing is attributed to it.
* Nonces: the service stores and does not compare them, so nothing in the
  repository depends on their order.
* The routers, the bearer token and health endpoints forward or refuse calls.
* The amounts of debits (the settlement's gas and the collateral, or a tenth of
  it) enter the penalty loop as "priced or not", and `ChargedService` as the
  settlement that priced them, only.
* `crates/e2e` is a test harness around a local chain.

## Running

    tlc -workers 2 -config MCProposalStore.cfg MCProposalStore
    tlapm ProposalStore_proofs.tla

Each `.cfg` names its module by its prefix. A run takes up to three and a half minutes
on two cores, `ByosService_proofs`, the longest proof, under two minutes on four, and
`Bidding_proofs` about one.
