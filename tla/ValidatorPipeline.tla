------------------------- MODULE ValidatorPipeline -------------------------
(***************************************************************************)
(* The validator of the background loop: ProposalValidator with its        *)
(* EscrowValidator and SimulationValidator (infra/blockchain), the order   *)
(* cache of OrderbookClient (infra/orderbook.rs), and the gas price /solve *)
(* publishes to them.  The validations of one tick run concurrently under  *)
(* a semaphore and share three caches and the price; every RPC or HTTP     *)
(* call is a point between two steps of a task.                            *)
(*                                                                         *)
(* ByosService takes a tick's verdicts as free choices; here they are      *)
(* computed, and nobody else moves a proposal.                             *)
(*                                                                         *)
(* Op_Mistake is Op with a mistake, as in ProposalStore.                   *)
(***************************************************************************)
EXTENDS Integers, FiniteSets

CONSTANTS
  Proposals,
  SubSolvers, SubSolverOf,  \* SubSolverOf[p]: who posted proposal p
  Orders, OrderOf,          \* OrderOf[p]: the order it fills
  Envelope,       \* Envelope[p]: what the envelope check says of p and its order
  Balances,       \* escrow balances the chain may show
  GasPrices,      \* gas prices an auction may carry
  MaxPrice,       \* the largest price the shared u64 holds
  DefaultPrice,   \* --default-gas-price
  EscrowGas,      \* ESCROW_GAS_ESTIMATION
  MinCollateral,  \* --min-collateral
  Surpluses,      \* surpluses a proposal may show, in wei
  MinScore,       \* --min-proposal-score
  CacheCapacity,  \* CACHE_CAPACITY
  MaxConcurrent   \* MAX_CONCURRENT

ASSUME PipelineAssumption ==
  /\ SubSolverOf \in [Proposals -> SubSolvers]
  /\ OrderOf \in [Proposals -> Orders]
  /\ Envelope \in [Proposals -> {"ok", "UnsupportedOrder", "AmountMismatch"}]
  /\ Balances \cup GasPrices \cup Surpluses \subseteq Nat
  /\ {MaxPrice, EscrowGas, MinCollateral, MinScore} \subseteq Nat
  /\ DefaultPrice \in 0 .. MaxPrice
  /\ CacheCapacity \in Nat \ {0}
  /\ MaxConcurrent \in Nat \ {0}

VARIABLES
  status,        \* status[p]: the proposal's row
  task,          \* task[p]: its validation in the running tick
  gasPrice,      \* the AtomicU64 shared with /solve
  escrowCache,   \* escrowCache[s]: this tick's balance of sub-solver s
  orders,        \* the uids the order cache holds
  trampolines,   \* sub-solvers whose trampoline is cached
  authenticator, \* is the authenticator's address cached?
  balance,       \* balance[s]: the escrow balance on chain
  healthy,       \* are failed calls and restarts over?
  seen           \* what was true since the tick began: balances and prices;
                 \* and `asked`, the last price an auction asked for that fits

caches == <<escrowCache, orders, trampolines, authenticator>>
world  == <<gasPrice, balance, healthy, seen>>
vars   == <<status, task, caches, world>>

None      == "none"   \* no verdict
NoBalance == -1       \* nothing cached, nothing read

Live    == {"submitted", "active"}
Reasons == {"InsufficientEscrow", "UnsupportedOrder", "AmountMismatch",
            "OrderNotFound", "Unprofitable"}
Verdicts == {"Accept", "SimFailed"} \cup Reasons

\* The call a validation awaits; a cached answer is no stage.  "balance" has
\* the node's answer and not yet cached it, "judged" awaits the row.
InFlight == {"escrow", "balance", "order", "trampoline", "authenticator",
             "simulate", "gate", "judged"}
Stages   == {"idle", "waiting"} \cup InFlight

\* What a call answers.  A revert is JSON-RPC error code 3, or a null response;
\* "refused" is any other error response (a rate limit, the server's trouble),
\* "lost" no usable answer; "noOrder" and "noPrice" are the orderbook's 404.
Faults  == {"refused", "lost"}
Answers == {"ok", "reverted", "noOrder", "noPrice"} \cup Faults

Task == [at : Stages, threshold : Nat, balance : Balances \cup {NoBalance},
         verdict : Verdicts \cup {None}, answer : Answers]

\* A task holds nothing but its stage between the calls that need more.
Fresh(stage) == [at |-> stage, threshold |-> 0, balance |-> NoBalance,
                 verdict |-> None, answer |-> "ok"]

Goes(p, t) == task' = [task EXCEPT ![p] = t]

\* A verdict still has to be resolved against the row.
Judges(p, v) == Goes(p, [Fresh("judged") EXCEPT !.verdict = v])

\* A call failed: what it says for certain is a verdict, all else defers, which
\* moves nothing.
Fails(p, answer, verdict) ==
  /\ answer \in Faults => ~ healthy
  /\ Goes(p, [Fresh("judged") EXCEPT !.answer = answer, !.verdict = verdict])

\* Every error response is taken for a revert.
IsRevert_AnyResponse(answer) == answer \in {"reverted", "refused"}

IsRevert(answer) == answer = "reverted"

\* Getters of contracts that cannot revert: every failure defers.
ReadFails(p) == \E answer \in Faults : Fails(p, answer, None)

\* A revert condemns, a failed call does not.
CallFails(p) == \E answer \in {"reverted"} \cup Faults :
                  Fails(p, answer, IF IsRevert(answer) THEN "SimFailed" ELSE None)

\* What the orderbook does not know is a fact, anything else a fault.
FetchFails(p, unknown, reason) ==
  Fails(p, unknown, reason) \/ ReadFails(p)

Init ==
  /\ status = [p \in Proposals |-> "unborn"]
  /\ task = [p \in Proposals |-> Fresh("idle")]
  /\ gasPrice = DefaultPrice
  /\ escrowCache = [s \in SubSolvers |-> NoBalance]
  /\ orders = {}
  /\ trampolines = {}
  /\ authenticator = FALSE
  /\ balance \in [SubSolvers -> Balances]
  /\ healthy = FALSE
  /\ seen = [asked |-> DefaultPrice, price |-> {DefaultPrice},
             balance |-> [s \in SubSolvers |-> {balance[s]}]]

----------------------------------------------------------------------------
(* The world outside: submissions, /solve, escrow deposits and debits. *)

Submit(p) ==
  /\ status[p] = "unborn"
  /\ status' = [status EXCEPT ![p] = "submitted"]
  /\ UNCHANGED <<task, caches, world>>

\* An auction that asks for a price no u64 holds asks for none.
Asked(price) ==
  seen' = IF price <= MaxPrice
          THEN [seen EXCEPT !.asked = price, !.price = @ \cup {price}]
          ELSE seen

\* A price that does not fit is published as the largest that does.
Publish_Saturates(price) ==
  /\ gasPrice' = IF price <= MaxPrice THEN price ELSE MaxPrice
  /\ Asked(price)
  /\ UNCHANGED <<status, task, caches, balance, healthy>>

\* /solve publishes its auction's price; one that does not fit leaves the
\* previous one in place.
Publish(price) ==
  /\ gasPrice' = IF price <= MaxPrice THEN price ELSE gasPrice
  /\ Asked(price)
  /\ UNCHANGED <<status, task, caches, balance, healthy>>

BalanceMoves(s, b) ==
  /\ balance' = [balance EXCEPT ![s] = b]
  /\ seen' = [seen EXCEPT !.balance[s] = @ \cup {b}]
  /\ UNCHANGED <<status, task, caches, gasPrice, healthy>>

\* The process starts again: only the rows and the chain survive.
Restart ==
  /\ ~ healthy
  /\ task' = [p \in Proposals |-> Fresh("idle")]
  /\ gasPrice' = DefaultPrice
  /\ escrowCache' = [s \in SubSolvers |-> NoBalance]
  /\ orders' = {}
  /\ trampolines' = {}
  /\ authenticator' = FALSE
  /\ seen' = [seen EXCEPT !.asked = DefaultPrice, !.price = {DefaultPrice}]
  /\ UNCHANGED <<status, balance, healthy>>

\* The node and the orderbook recover for good, and the process stays up.
Recover ==
  /\ ~ healthy
  /\ healthy' = TRUE
  /\ UNCHANGED <<status, task, caches, gasPrice, balance, seen>>

----------------------------------------------------------------------------
(* A tick: every live proposal of the snapshot waits for a permit. *)

TickBegin ==
  /\ \A p \in Proposals : task[p].at = "idle"
  /\ \E p \in Proposals : status[p] \in Live
  /\ task' = [p \in Proposals |-> Fresh(IF status[p] \in Live THEN "waiting" ELSE "idle")]
  /\ escrowCache' = [s \in SubSolvers |-> NoBalance]
  /\ seen' = [asked |-> seen.asked, price |-> {seen.asked},
              balance |-> [s \in SubSolvers |-> {balance[s]}]]
  /\ UNCHANGED <<status, orders, trampolines, authenticator, gasPrice, balance, healthy>>

Threshold == EscrowGas * gasPrice + MinCollateral

\* The address is on the row since the first acceptance, or cached.
TrampolineKnown(p) == status[p] = "active" \/ SubSolverOf[p] \in trampolines

\* The calls that follow, skipping what is known: the order at hand passes the
\* envelope, the trampoline is resolved, then the authenticator, once ever.
Simulates(p) == Goes(p, Fresh(IF authenticator THEN "simulate" ELSE "authenticator"))

Enveloped(p) ==
  \/ Envelope[p] # "ok" /\ Judges(p, Envelope[p])
  \/ Envelope[p] = "ok" /\ TrampolineKnown(p) /\ Simulates(p)
  \/ Envelope[p] = "ok" /\ ~ TrampolineKnown(p) /\ Goes(p, Fresh("trampoline"))

Escrowed(p, b, threshold) ==
  \/ b < threshold /\ Judges(p, "InsufficientEscrow")
  \/ b >= threshold /\ OrderOf[p] \in orders /\ Enveloped(p)
  \/ b >= threshold /\ OrderOf[p] \notin orders /\ Goes(p, Fresh("order"))

\* A permit is free: the threshold is read first, then the tick's cache.
EscrowAsk(p) ==
  LET cached == escrowCache[SubSolverOf[p]]
  IN /\ task[p].at = "waiting"
     /\ Cardinality({q \in Proposals : task[q].at \in InFlight}) < MaxConcurrent
     /\ IF cached # NoBalance
        THEN Escrowed(p, cached, Threshold)
        ELSE Goes(p, [Fresh("escrow") EXCEPT !.threshold = Threshold])
     /\ UNCHANGED <<status, caches, world>>

\* The node reads the balance, or fails.
EscrowRead(p) ==
  /\ task[p].at = "escrow"
  /\ Goes(p, [task[p] EXCEPT !.at = "balance", !.balance = balance[SubSolverOf[p]]])
  /\ UNCHANGED <<status, caches, world>>

EscrowFault(p) ==
  /\ task[p].at = "escrow"
  /\ ReadFails(p)
  /\ UNCHANGED <<status, caches, world>>

\* The answer arrives and is cached, over whatever a concurrent task cached.
EscrowStore(p) ==
  /\ task[p].at = "balance"
  /\ escrowCache' = [escrowCache EXCEPT ![SubSolverOf[p]] = task[p].balance]
  /\ Escrowed(p, task[p].balance, task[p].threshold)
  /\ UNCHANGED <<status, orders, trampolines, authenticator, world>>

----------------------------------------------------------------------------
(* The order and its bounded cache. *)

\* At capacity a new uid drops all others; a uid another task already cached
\* does not.
Remember(o) ==
  IF Cardinality(orders) >= CacheCapacity /\ o \notin orders THEN {o} ELSE orders \cup {o}

OrderFound(p) ==
  /\ task[p].at = "order"
  /\ orders' = Remember(OrderOf[p])
  /\ Enveloped(p)
  /\ UNCHANGED <<status, escrowCache, trampolines, authenticator, world>>

OrderMissing(p) ==
  /\ task[p].at = "order"
  /\ FetchFails(p, "noOrder", "OrderNotFound")
  /\ UNCHANGED <<status, caches, world>>

----------------------------------------------------------------------------
(* Simulation and the profitability gate. *)

Trampoline(p) ==
  /\ task[p].at = "trampoline"
  /\ trampolines' = trampolines \cup {SubSolverOf[p]}
  /\ Simulates(p)
  /\ UNCHANGED <<status, escrowCache, orders, authenticator, world>>

TrampolineFails(p) ==
  /\ task[p].at = "trampoline"
  /\ CallFails(p)
  /\ UNCHANGED <<status, caches, world>>

Authenticator(p) ==
  /\ task[p].at = "authenticator"
  /\ authenticator' = TRUE
  /\ Goes(p, Fresh("simulate"))
  /\ UNCHANGED <<status, escrowCache, orders, trampolines, world>>

AuthenticatorFault(p) ==
  /\ task[p].at = "authenticator"
  /\ ReadFails(p)
  /\ UNCHANGED <<status, caches, world>>

\* The gate applies to every simulation.
Simulated_AlwaysGates(p) ==
  /\ task[p].at = "simulate"
  /\ Goes(p, Fresh("gate"))
  /\ UNCHANGED <<status, caches, world>>

\* A first simulation passes the gate, a later one is accepted.
Simulated(p) ==
  /\ task[p].at = "simulate"
  /\ IF status[p] = "submitted" THEN Goes(p, Fresh("gate")) ELSE Judges(p, "Accept")
  /\ UNCHANGED <<status, caches, world>>

\* An implausible amount of gas is no usable answer.
SimulationFails(p) ==
  /\ task[p].at = "simulate"
  /\ CallFails(p)
  /\ UNCHANGED <<status, caches, world>>

\* The orderbook prices the surplus; the gas price is the one of now.
GatePriced(p, surplus) ==
  /\ task[p].at = "gate"
  /\ Judges(p, IF surplus - gasPrice > MinScore THEN "Accept" ELSE "Unprofitable")
  /\ UNCHANGED <<status, caches, world>>

\* No price for the token of the surplus.
GateUnpriced(p) ==
  /\ task[p].at = "gate"
  /\ FetchFails(p, "noPrice", "Unprofitable")
  /\ UNCHANGED <<status, caches, world>>

\* A task without a verdict keeps its permit.
Resolve_KeepsPermit(p) ==
  /\ task[p].at = "judged"
  /\ task[p].verdict # None
  /\ status' = [status EXCEPT ![p] = CASE task[p].verdict = "Accept"    -> "active"
                                       [] task[p].verdict = "SimFailed" -> "simFailed"
                                       [] OTHER                         -> "rejected"]
  /\ Goes(p, Fresh("idle"))
  /\ UNCHANGED <<caches, world>>

\* The verdict meets the row; without one the proposal waits for the next tick.
Resolve(p) ==
  /\ task[p].at = "judged"
  /\ status' = [status EXCEPT ![p] = CASE task[p].verdict = None        -> @
                                       [] task[p].verdict = "Accept"    -> "active"
                                       [] task[p].verdict = "SimFailed" -> "simFailed"
                                       [] OTHER                         -> "rejected"]
  /\ Goes(p, Fresh("idle"))
  /\ UNCHANGED <<caches, world>>

----------------------------------------------------------------------------
Step(p) ==
  \/ EscrowAsk(p) \/ EscrowRead(p) \/ EscrowFault(p) \/ EscrowStore(p)
  \/ OrderFound(p) \/ OrderMissing(p)
  \/ Trampoline(p) \/ TrampolineFails(p)
  \/ Authenticator(p) \/ AuthenticatorFault(p)
  \/ Simulated(p) \/ SimulationFails(p)
  \/ \E surplus \in Surpluses : GatePriced(p, surplus)
  \/ GateUnpriced(p)
  \/ Resolve(p)

Next ==
  \/ TickBegin \/ Restart \/ Recover
  \/ \E p \in Proposals : Submit(p) \/ Step(p)
  \/ \E price \in GasPrices : Publish(price)
  \/ \E s \in SubSolvers, b \in Balances : BalanceMoves(s, b)

Spec == Init /\ [][Next]_vars

\* The loop keeps ticking, every call returns, and failures end.  Nothing is
\* assumed of prices, balances, reverts or submissions.
Fairness == /\ WF_vars(TickBegin) /\ WF_vars(Recover)
            /\ \A p \in Proposals : WF_vars(Step(p))

FairSpec == Spec /\ Fairness

----------------------------------------------------------------------------
(* Properties. *)

\* The caches, tasks and rows hold values of their types.
PipelineTypeOK ==
  /\ status \in [Proposals -> {"unborn", "rejected", "simFailed"} \cup Live]
  /\ task \in [Proposals -> Task]
  /\ gasPrice \in 0 .. MaxPrice
  /\ escrowCache \in [SubSolvers -> Balances \cup {NoBalance}]
  /\ orders \subseteq Orders
  /\ trampolines \subseteq SubSolvers
  /\ authenticator \in BOOLEAN
  /\ balance \in [SubSolvers -> Balances]
  /\ healthy \in BOOLEAN
  /\ seen \in [asked : 0 .. MaxPrice, price : SUBSET Nat,
              balance : [SubSolvers -> SUBSET Balances]]

\* The order cache keeps its bound although concurrent validations fill it,
\* several of them with the same order (orderbook.rs, 107-119).
CacheBounded == Cardinality(orders) <= CacheCapacity

\* What the escrow check asks for at a price, and whether the sub-solver of p had
\* it, or was short of it, at a balance the chain showed and a price auctions
\* asked for since this tick began.
Due(price) == EscrowGas * price + MinCollateral
Seen(p)    == seen.balance[SubSolverOf[p]]
Covered(p) == \E b \in Seen(p), price \in seen.price : b >= Due(price)
Short(p)   == \E b \in Seen(p), price \in seen.price : b < Due(price)

\* However tasks interleave with /solve and with each other's fills of the
\* cache, whoever is rejected for escrow was short in this tick, and whoever got
\* past the check was not; a price that does not fit the shared u64 rejects
\* nobody (escrow.rs, 71-107; solve.rs, 28-38).
EscrowJudgedInTick ==
  \A p \in Proposals :
    /\ task[p].verdict = "InsufficientEscrow" => Short(p)
    /\ task[p].at \in {"order", "trampoline", "authenticator", "simulate", "gate"} =>
         Covered(p)

\* A fault defers: a proposal one of whose calls was refused or lost in a tick
\* is left as it was by that tick (validator.rs, 206-210, 236-262, 335-348).
FaultsOnlyDefer ==
  [][\A p \in Proposals : task[p].answer \in Faults => status'[p] = status[p]]_vars

\* A surplus that would not have scored at a price of this tick.
Poor(p) == \E surplus \in Surpluses, price \in seen.price : surplus - price <= MinScore

\* A proposal is dropped only for what was so in this tick: a revert, an order
\* unknown to the orderbook, escrow short of gas and collateral; and before its
\* first acceptance for its envelope or at the gate, never after it.  A price
\* that moves drops active proposals through their escrow, and in no other way
\* (validator.rs, 318-320, says they cannot churn active proposals at all).
DropsHaveCauses ==
  [][\A p \in Proposals :
       status[p] \in Live /\ status'[p] \notin Live =>
         \/ task[p].answer \in {"reverted", "noOrder"}
         \/ Short(p)
         \/ /\ status[p] = "submitted"
            /\ Envelope[p] # "ok" \/ task[p].answer = "noPrice" \/ Poor(p)]_vars

\* Every submission is judged once the node and the orderbook recover, although
\* others clear the cache under it in every tick (orderbook.rs, 100-106).
SubmissionsJudged ==
  \A p \in Proposals : status[p] = "submitted" ~> status[p] # "submitted"
=============================================================================
