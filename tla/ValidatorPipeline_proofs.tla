---------------------- MODULE ValidatorPipeline_proofs ----------------------
(***************************************************************************)
(* For any number of proposals, sub-solvers, orders and permits: verdicts  *)
(* rest on facts of their tick, faults only defer, every proposal dropped  *)
(* is dropped for a cause, and the order cache keeps its bound.            *)
(*                                                                         *)
(* A step of a validation replaces one task by one that is right, given    *)
(* the row it validates and what was seen since the tick began.            *)
(***************************************************************************)
EXTENDS ValidatorPipeline, FiniteSetTheorems, TLAPS

Simulating == {"trampoline", "authenticator", "simulate", "gate"}

Sight == [asked : 0 .. MaxPrice, price : SUBSET Nat, balance : [SubSolvers -> SUBSET Balances]]

\* Only a judged task has a failed call or a verdict, and none has both a fault
\* and a verdict.
Shaped(t) ==
  /\ t.answer # "ok" \/ t.verdict # None => t.at = "judged"
  /\ t.answer \in Faults => t.verdict = None

\* How far the task came fits the row it validates and the envelope.
Engaged(p, t) ==
  /\ t.at # "idle" => status[p] \in Live
  /\ t.at \in Simulating \/ t.verdict = "Accept" => Envelope[p] = "ok"
  /\ t.verdict \in {"UnsupportedOrder", "AmountMismatch"} => Envelope[p] # "ok"
  /\ t.at = "gate" \/ t.verdict = "Unprofitable" => status[p] = "submitted"

\* What the last call answered, or the gate saw, is what the verdict says.
Caused(p, t) ==
  /\ t.verdict = "SimFailed" => t.answer = "reverted"
  /\ t.verdict = "OrderNotFound" => t.answer = "noOrder"
  /\ t.verdict = "Unprofitable" => t.answer = "noPrice" \/ Poor(p)

\* The task holds or rests on a balance and a price of this tick.
Grounded(p, t) ==
  /\ t.at \in {"escrow", "balance"} => \E price \in seen.price : t.threshold = Due(price)
  /\ t.at = "balance" => t.balance \in Seen(p)
  /\ t.at = "order" \/ t.at \in Simulating => Covered(p)
  /\ t.verdict = "InsufficientEscrow" => Short(p)

TaskOK(p, t) == Shaped(t) /\ Engaged(p, t) /\ Caused(p, t) /\ Grounded(p, t)

\* Tasks and rows are right, and what is current or cached was seen.
TasksOK == \A p \in Proposals : TaskOK(p, task[p])
RowsOK  == \A p \in Proposals : status[p] = "active" => Envelope[p] = "ok"
WorldOK ==
  /\ gasPrice = seen.asked /\ gasPrice \in seen.price
  /\ \A s \in SubSolvers : /\ balance[s] \in seen.balance[s]
                           /\ escrowCache[s] \in seen.balance[s] \cup {NoBalance}

IInv == PipelineTypeOK /\ TasksOK /\ RowsOK /\ WorldOK

----------------------------------------------------------------------------
(* Tasks. *)

\* A fresh task is a task, and at the stages that ask nothing it is right.
LEMMA FreshTask ==
  ASSUME NEW stage \in Stages
  PROVE  Fresh(stage) \in Task /\ Shaped(Fresh(stage))
BY DEF Fresh, Task, Answers, Faults, Shaped, None, NoBalance

\* The move to a right task keeps every task right.
LEMMA OneTask ==
  ASSUME IInv, NEW p \in Proposals, NEW t \in Task, TaskOK(p, t), Goes(p, t),
         UNCHANGED <<status, seen>>
  PROVE  TasksOK' /\ task' \in [Proposals -> Task]
<1>1. task' \in [Proposals -> Task]
  BY DEF IInv, PipelineTypeOK, Goes
<1>2. ASSUME NEW q \in Proposals
      PROVE  TaskOK(q, task[q])'
  <2>1. TaskOK(q, task'[q])
    BY DEF IInv, PipelineTypeOK, TasksOK, Goes
  <2>2. QED
    BY <2>1 DEF TaskOK, Shaped, Engaged, Caused, Grounded, Covered, Short, Poor, Seen
<1>3. QED
  BY <1>1, <1>2 DEF TasksOK

\* There is a right task the step moves to.
Moves(p) == \E t \in Task : TaskOK(p, t) /\ Goes(p, t)

\* A verdict that fits the row and has its cause may be given.
LEMMA JudgeMoves ==
  ASSUME NEW p \in Proposals, NEW v \in Verdicts, Judges(p, v),
         status[p] \in Live,
         v \notin {"SimFailed", "OrderNotFound"},
         v = "Accept" => Envelope[p] = "ok",
         v \in {"UnsupportedOrder", "AmountMismatch"} => Envelope[p] # "ok",
         v = "Unprofitable" => status[p] = "submitted" /\ Poor(p),
         v = "InsufficientEscrow" => Short(p)
  PROVE  Moves(p)
<1> DEFINE t == [Fresh("judged") EXCEPT !.verdict = v]
<1>1. t.at = "judged" /\ t.verdict = v /\ t.answer = "ok"
  BY DEF Fresh
<1>2. t \in Task
  BY DEF Fresh, Task, Answers, Stages, InFlight, NoBalance, None
<1> HIDE DEF t
<1>3. TaskOK(p, t)
  BY <1>1 DEF TaskOK, Shaped, Engaged, Caused, Grounded, Faults, Simulating
<1>4. QED
  BY <1>2, <1>3 DEF Judges, Moves, t

\* A call may fail: with a fault it gives no verdict, else the one that fits.
LEMMA FailMoves ==
  ASSUME NEW p \in Proposals, NEW answer \in Answers, NEW v, Fails(p, answer, v),
         status[p] \in Live,
         v \in {None, "SimFailed", "OrderNotFound", "Unprofitable"},
         answer \in Faults => v = None,
         v = "SimFailed" => answer = "reverted",
         v = "OrderNotFound" => answer = "noOrder",
         v = "Unprofitable" => answer = "noPrice" /\ status[p] = "submitted"
  PROVE  Moves(p)
<1> DEFINE t == [Fresh("judged") EXCEPT !.answer = answer, !.verdict = v]
<1>1. t.at = "judged" /\ t.verdict = v /\ t.answer = answer
  BY DEF Fresh
<1>2. t \in Task
  BY DEF Fresh, Task, Stages, InFlight, NoBalance, Verdicts, Reasons
<1> HIDE DEF t
<1>3. TaskOK(p, t)
  BY <1>1 DEF TaskOK, Shaped, Engaged, Caused, Grounded, Simulating, None
<1>4. QED
  BY <1>2, <1>3 DEF Fails, Moves, t

LEMMA ReadFailMoves ==
  ASSUME NEW p \in Proposals, ReadFails(p), status[p] \in Live
  PROVE  Moves(p)
BY FailMoves DEF ReadFails, Faults, Answers, None

LEMMA CallFailMoves ==
  ASSUME NEW p \in Proposals, CallFails(p), status[p] \in Live
  PROVE  Moves(p)
<1>1. PICK answer \in {"reverted"} \cup Faults :
        Fails(p, answer, IF IsRevert(answer) THEN "SimFailed" ELSE None)
  BY DEF CallFails
<1>2. CASE answer = "reverted"
  BY <1>1, <1>2, FailMoves DEF IsRevert, Answers, Faults, None
<1>3. CASE answer \in Faults
  BY <1>1, <1>3, FailMoves DEF IsRevert, Answers, Faults, None
<1>4. QED
  BY <1>2, <1>3

\* A validation past the escrow check goes on.
LEMMA FreshMoves ==
  ASSUME NEW p \in Proposals, NEW stage \in {"order"} \cup Simulating,
         Goes(p, Fresh(stage)), status[p] \in Live, Covered(p),
         stage \in Simulating => Envelope[p] = "ok",
         stage = "gate" => status[p] = "submitted"
  PROVE  Moves(p)
<1>1. stage \in Stages
  BY DEF Stages, InFlight, Simulating
<1>2. Fresh(stage) \in Task /\ Shaped(Fresh(stage))
  BY <1>1, FreshTask
<1>3. Fresh(stage).at = stage /\ Fresh(stage).verdict = None
  BY DEF Fresh
<1>4. stage \notin {"idle", "escrow", "balance"}
  BY DEF Simulating
<1>5. TaskOK(p, Fresh(stage))
  BY <1>2, <1>3, <1>4 DEF TaskOK, Engaged, Caused, Grounded, None
<1>6. QED
  BY <1>2, <1>5 DEF Moves

LEMMA SimulateMoves ==
  ASSUME NEW p \in Proposals, Simulates(p), status[p] \in Live, Covered(p), Envelope[p] = "ok"
  PROVE  Moves(p)
BY FreshMoves DEF Simulates, Simulating

LEMMA EnvelopeMoves ==
  ASSUME NEW p \in Proposals, Enveloped(p), status[p] \in Live, Covered(p)
  PROVE  Moves(p)
<1>1. CASE Envelope[p] # "ok"
  <2>1. Judges(p, Envelope[p])
    BY <1>1 DEF Enveloped
  <2>2. Envelope[p] \in {"UnsupportedOrder", "AmountMismatch"}
    BY <1>1, PipelineAssumption DEF PipelineAssumption
  <2>3. QED
    BY <1>1, <2>1, <2>2, JudgeMoves DEF Verdicts, Reasons
<1>2. CASE Envelope[p] = "ok" /\ TrampolineKnown(p)
  BY <1>2, SimulateMoves DEF Enveloped
<1>3. CASE Envelope[p] = "ok" /\ ~ TrampolineKnown(p)
  BY <1>3, FreshMoves DEF Enveloped, Simulating
<1>4. QED
  BY <1>1, <1>2, <1>3

\* The escrow check of a balance and a price of this tick.
LEMMA EscrowMoves ==
  ASSUME NEW p \in Proposals, status[p] \in Live, NEW b \in Seen(p), NEW price \in seen.price,
         seen \in Sight,
         Escrowed(p, b, Due(price))
  PROVE  Moves(p)
<1>1. b \in Int /\ Due(price) \in Int
  BY PipelineAssumption DEF PipelineAssumption, Sight, Due, Seen
<1>2. CASE b < Due(price)
  <2>1. Judges(p, "InsufficientEscrow")
    BY <1>1, <1>2 DEF Escrowed
  <2>2. Short(p)
    BY <1>2 DEF Short
  <2>3. QED
    BY <2>1, <2>2, JudgeMoves DEF Verdicts, Reasons
<1>3. CASE ~ (b < Due(price))
  <2>1. Covered(p)
    BY <1>1, <1>3 DEF Covered
  <2>2. Enveloped(p) \/ Goes(p, Fresh("order"))
    BY <1>3 DEF Escrowed
  <2>3. QED
    BY <2>1, <2>2, EnvelopeMoves, FreshMoves DEF Simulating
<1>4. QED
  BY <1>2, <1>3

----------------------------------------------------------------------------
(* The steps of a validation. *)

\* The threshold of the escrow check is a natural number.
LEMMA ThresholdNat ==
  ASSUME PipelineTypeOK
  PROVE  Threshold \in Nat /\ Threshold = Due(gasPrice)
<1>1. EscrowGas \in Nat /\ gasPrice \in Nat /\ MinCollateral \in Nat
  BY PipelineAssumption DEF PipelineAssumption, PipelineTypeOK
<1>2. EscrowGas * gasPrice \in Nat
  BY <1>1
<1>3. QED
  BY <1>1, <1>2 DEF Threshold, Due

\* What each step before the last makes of its task is right.
LEMMA EscrowAskMoves ==
  ASSUME IInv, NEW p \in Proposals, EscrowAsk(p)
  PROVE  Moves(p)
<1> DEFINE cached == escrowCache[SubSolverOf[p]]
           t      == [Fresh("escrow") EXCEPT !.threshold = Threshold]
<1>1. SubSolverOf[p] \in SubSolvers
  BY PipelineAssumption DEF PipelineAssumption
<1>2. status[p] \in Live
  BY DEF IInv, TasksOK, TaskOK, Engaged, EscrowAsk
<1>3. gasPrice \in seen.price /\ Threshold \in Nat /\ Threshold = Due(gasPrice)
  BY ThresholdNat DEF IInv, WorldOK
<1>4. CASE cached # NoBalance
  <2>1. cached \in Seen(p)
    BY <1>1, <1>4 DEF IInv, WorldOK, Seen
  <2>2. Escrowed(p, cached, Due(gasPrice))
    BY <1>3, <1>4 DEF EscrowAsk
  <2>3. seen \in Sight
    BY DEF IInv, PipelineTypeOK, Sight
  <2>4. QED
    BY <1>2, <1>3, <2>1, <2>2, <2>3, EscrowMoves
<1>5. CASE cached = NoBalance
  <2>1. t.at = "escrow" /\ t.threshold = Due(gasPrice) /\ t.verdict = None /\ t.answer = "ok"
    BY <1>3 DEF Fresh
  <2>2. t \in Task
    BY <1>3 DEF Fresh, Task, Answers, Stages, InFlight, NoBalance, None
  <2>3. Goes(p, t)
    BY <1>5 DEF EscrowAsk
  <2> HIDE DEF t
  <2>4. TaskOK(p, t)
    BY <1>2, <1>3, <2>1 DEF TaskOK, Shaped, Engaged, Caused, Grounded, Faults, Simulating, None
  <2>5. QED
    BY <2>2, <2>3, <2>4 DEF Moves
<1>6. QED
  BY <1>4, <1>5

LEMMA EscrowReadMoves ==
  ASSUME IInv, NEW p \in Proposals, EscrowRead(p)
  PROVE  Moves(p)
<1> DEFINE t == [task[p] EXCEPT !.at = "balance", !.balance = balance[SubSolverOf[p]]]
<1>1. SubSolverOf[p] \in SubSolvers
  BY PipelineAssumption DEF PipelineAssumption
<1>2. /\ task[p] \in Task
      /\ balance[SubSolverOf[p]] \in Balances
      /\ balance[SubSolverOf[p]] \in Seen(p)
  BY <1>1 DEF IInv, PipelineTypeOK, WorldOK, Seen
<1>3. t \in Task
  BY <1>2 DEF Task, Stages, InFlight
<1>4. /\ t.at = "balance" /\ t.balance \in Seen(p)
      /\ t.threshold = task[p].threshold
      /\ t.verdict = task[p].verdict /\ t.answer = task[p].answer
  BY <1>2 DEF Task
<1>5. TaskOK(p, task[p]) /\ task[p].at = "escrow" /\ Goes(p, t)
  BY DEF IInv, TasksOK, EscrowRead
<1> HIDE DEF t
<1>6. TaskOK(p, t)
  BY <1>4, <1>5 DEF TaskOK, Shaped, Engaged, Caused, Grounded, Simulating, None
<1>7. QED
  BY <1>3, <1>5, <1>6 DEF Moves

LEMMA EscrowStoreMoves ==
  ASSUME IInv, NEW p \in Proposals, EscrowStore(p)
  PROVE  Moves(p)
<1>1. TaskOK(p, task[p]) /\ task[p].at = "balance"
  BY DEF IInv, TasksOK, EscrowStore
<1>2. status[p] \in Live /\ task[p].balance \in Seen(p)
  BY <1>1 DEF TaskOK, Engaged, Grounded
<1>3. PICK price \in seen.price : task[p].threshold = Due(price)
  BY <1>1 DEF TaskOK, Grounded
<1>4. Escrowed(p, task[p].balance, Due(price))
  BY <1>3 DEF EscrowStore
<1>5. seen \in Sight
  BY DEF IInv, PipelineTypeOK, Sight
<1>6. QED
  BY <1>2, <1>4, <1>5, EscrowMoves

\* Past the escrow check the row is live and covered, past the envelope ok.
LEMMA CallMoves ==
  ASSUME IInv, NEW p \in Proposals,
         \/ OrderFound(p) \/ OrderMissing(p) \/ Trampoline(p) \/ TrampolineFails(p)
         \/ Authenticator(p) \/ AuthenticatorFault(p) \/ Simulated(p) \/ SimulationFails(p)
         \/ GateUnpriced(p) \/ \E surplus \in Surpluses : GatePriced(p, surplus)
  PROVE  Moves(p)
<1>1. TaskOK(p, task[p])
  BY DEF IInv, TasksOK
<1>2. task[p].at \in {"order"} \cup Simulating
  BY DEF OrderFound, OrderMissing, Trampoline, TrampolineFails, Authenticator,
         AuthenticatorFault, Simulated, SimulationFails, GateUnpriced, GatePriced, FetchFails,
         Simulating
<1>3. /\ status[p] \in Live /\ Covered(p)
      /\ task[p].at \in Simulating => Envelope[p] = "ok"
      /\ task[p].at = "gate" => status[p] = "submitted"
  BY <1>1, <1>2 DEF TaskOK, Engaged, Grounded, Simulating
<1>4. CASE OrderFound(p)
  BY <1>3, <1>4, EnvelopeMoves DEF OrderFound
<1>5. CASE Trampoline(p)
  BY <1>3, <1>5, SimulateMoves DEF Trampoline, Simulating
<1>6. CASE Authenticator(p)
  BY <1>3, <1>6, FreshMoves DEF Authenticator, Simulating
<1>7. CASE Simulated(p)
  <2>1. CASE status[p] = "submitted"
    BY <1>3, <1>7, <2>1, FreshMoves DEF Simulated, Simulating
  <2>2. CASE status[p] # "submitted"
    <3>1. Judges(p, "Accept")
      BY <1>7, <2>2 DEF Simulated
    <3>2. QED
      BY <1>3, <1>7, <3>1, JudgeMoves DEF Simulated, Simulating, Verdicts
  <2>3. QED
    BY <2>1, <2>2
<1>8. CASE \E surplus \in Surpluses : GatePriced(p, surplus)
  <2>1. PICK surplus \in Surpluses : GatePriced(p, surplus)
    BY <1>8
  <2>2. surplus \in Int /\ gasPrice \in Int /\ MinScore \in Int /\ gasPrice \in seen.price
    BY PipelineAssumption DEF PipelineAssumption, IInv, PipelineTypeOK, WorldOK
  <2>3. task[p].at = "gate"
    BY <2>1 DEF GatePriced
  <2>4. CASE surplus - gasPrice > MinScore
    <3>1. Judges(p, "Accept")
      BY <2>1, <2>4 DEF GatePriced
    <3>2. QED
      BY <1>3, <2>3, <3>1, JudgeMoves DEF Simulating, Verdicts
  <2>5. CASE ~ (surplus - gasPrice > MinScore)
    <3>1. Judges(p, "Unprofitable")
      BY <2>1, <2>5 DEF GatePriced
    <3>2. surplus - gasPrice <= MinScore
      BY <2>2, <2>5
    <3>3. Poor(p)
      BY <2>2, <3>2 DEF Poor
    <3>4. QED
      BY <1>3, <2>3, <3>1, <3>3, JudgeMoves DEF Simulating, Verdicts, Reasons
  <2>6. QED
    BY <2>4, <2>5
<1>9. CASE OrderMissing(p)
  BY <1>3, <1>9, FailMoves, ReadFailMoves DEF OrderMissing, FetchFails, Answers, Faults, None
<1>10. CASE TrampolineFails(p)
  BY <1>3, <1>10, CallFailMoves DEF TrampolineFails
<1>11. CASE AuthenticatorFault(p)
  BY <1>3, <1>11, ReadFailMoves DEF AuthenticatorFault
<1>12. CASE SimulationFails(p)
  BY <1>3, <1>12, CallFailMoves DEF SimulationFails
<1>13. CASE GateUnpriced(p)
  BY <1>3, <1>13, FailMoves, ReadFailMoves DEF GateUnpriced, FetchFails, Answers, Faults, None
<1>14. QED
  BY <1>4, <1>5, <1>6, <1>7, <1>8, <1>9, <1>10, <1>11, <1>12, <1>13

\* Every step before the last moves its task and leaves rows and the world.
LEMMA StepMoves ==
  ASSUME IInv, NEW p \in Proposals, Step(p), ~ Resolve(p)
  PROVE  Moves(p) /\ UNCHANGED <<status, world>>
<1>1. CASE EscrowAsk(p)
  BY <1>1, EscrowAskMoves DEF EscrowAsk
<1>2. CASE EscrowRead(p)
  BY <1>2, EscrowReadMoves DEF EscrowRead
<1>3. CASE EscrowStore(p)
  BY <1>3, EscrowStoreMoves DEF EscrowStore
<1>4. CASE EscrowFault(p)
  <2>1. status[p] \in Live
    BY <1>4 DEF IInv, TasksOK, TaskOK, Engaged, EscrowFault
  <2>2. QED
    BY <1>4, <2>1, ReadFailMoves DEF EscrowFault
<1>5. CASE ~ (EscrowAsk(p) \/ EscrowRead(p) \/ EscrowStore(p) \/ EscrowFault(p))
  <2>1. \/ OrderFound(p) \/ OrderMissing(p) \/ Trampoline(p) \/ TrampolineFails(p)
        \/ Authenticator(p) \/ AuthenticatorFault(p) \/ Simulated(p) \/ SimulationFails(p)
        \/ GateUnpriced(p) \/ \E surplus \in Surpluses : GatePriced(p, surplus)
    BY <1>5 DEF Step
  <2>2. Moves(p)
    BY <2>1, CallMoves
  <2>3. UNCHANGED <<status, world>>
    BY <2>1 DEF OrderFound, OrderMissing, Trampoline, TrampolineFails, Authenticator,
                AuthenticatorFault, Simulated, SimulationFails, GateUnpriced, GatePriced
  <2>4. QED
    BY <2>2, <2>3
<1>6. QED
  BY <1>1, <1>2, <1>3, <1>4, <1>5

----------------------------------------------------------------------------
(* The invariant. *)

\* Types are kept, by every step.
LEMMA TypeStep ==
  ASSUME IInv, [Next]_vars
  PROVE  PipelineTypeOK'
<1> USE DEF IInv, PipelineTypeOK, Sight
<1>1. CASE UNCHANGED vars
  BY <1>1 DEF vars, caches, world
<1>2. ASSUME NEW stage \in Stages
      PROVE  Fresh(stage) \in Task
  BY FreshTask
<1>3. CASE TickBegin
  <2>1. task' \in [Proposals -> Task]
    BY <1>2, <1>3 DEF TickBegin, Stages
  <2>2. seen' \in Sight
    BY <1>3, PipelineAssumption DEF TickBegin, PipelineAssumption
  <2>3. QED
    BY <1>3, <2>1, <2>2 DEF TickBegin
<1>4. CASE Restart
  <2>1. task' \in [Proposals -> Task]
    BY <1>2, <1>4 DEF Restart, Stages
  <2>2. DefaultPrice \in 0 .. MaxPrice /\ DefaultPrice \in Nat
    BY PipelineAssumption DEF PipelineAssumption
  <2>3. seen' \in Sight
    BY <1>4, <2>2 DEF Restart
  <2>4. QED
    BY <1>4, <2>1, <2>2, <2>3 DEF Restart
<1>5. CASE Recover
  BY <1>5 DEF Recover, caches
<1>6. ASSUME NEW p \in Proposals, Submit(p)
      PROVE  PipelineTypeOK'
  BY <1>6 DEF Submit, Live, caches, world
<1>7. ASSUME NEW price \in GasPrices, Publish(price)
      PROVE  PipelineTypeOK'
  <2>1. price \in Nat /\ MaxPrice \in Nat
    BY PipelineAssumption DEF PipelineAssumption
  <2>2. seen' \in Sight
    <3>1. CASE price <= MaxPrice
      <4>1. seen' = [seen EXCEPT !.asked = price, !.price = @ \cup {price}]
        BY <1>7, <3>1 DEF Publish, Asked
      <4>2. price \in 0 .. MaxPrice
        BY <2>1, <3>1
      <4>3. QED
        BY <2>1, <4>1, <4>2
    <3>2. CASE ~ (price <= MaxPrice)
      BY <1>7, <3>2 DEF Publish, Asked
    <3>3. QED
      BY <3>1, <3>2
  <2>3. gasPrice' \in 0 .. MaxPrice
    BY <1>7, <2>1 DEF Publish
  <2>4. QED
    BY <1>7, <2>2, <2>3 DEF Publish, caches
<1>8. ASSUME NEW s \in SubSolvers, NEW b \in Balances, BalanceMoves(s, b)
      PROVE  PipelineTypeOK'
  <2>1. seen' \in Sight
    BY <1>8 DEF BalanceMoves
  <2>2. QED
    BY <1>8, <2>1 DEF BalanceMoves, caches
<1>9. ASSUME NEW p \in Proposals, Step(p)
      PROVE  PipelineTypeOK'
  <2>1. CASE Resolve(p)
    <3>1. task' \in [Proposals -> Task]
      BY <1>2, <2>1 DEF Resolve, Goes, Stages
    <3>2. status' \in [Proposals -> {"unborn", "rejected", "simFailed"} \cup Live]
      BY <2>1 DEF Resolve, Live
    <3>3. QED
      BY <2>1, <3>1, <3>2 DEF Resolve, caches, world
  <2>2. CASE ~ Resolve(p)
    <3>1. Moves(p) /\ UNCHANGED <<status, world>>
      BY <1>9, <2>2, StepMoves
    <3>2. task' \in [Proposals -> Task]
      BY <3>1 DEF Moves, Goes
    <3>3. /\ orders' \subseteq Orders /\ trampolines' \subseteq SubSolvers
          /\ authenticator' \in BOOLEAN
          /\ escrowCache' \in [SubSolvers -> Balances \cup {NoBalance}]
      <4>1. SubSolverOf[p] \in SubSolvers /\ OrderOf[p] \in Orders
        BY PipelineAssumption DEF PipelineAssumption
      <4>2. CASE EscrowStore(p)
        <5>1. task[p].balance \in Balances \cup {NoBalance}
          BY DEF Task
        <5>2. QED
          BY <4>2, <5>1 DEF EscrowStore
      <4>3. CASE OrderFound(p)
        BY <4>1, <4>3 DEF OrderFound, Remember
      <4>4. CASE Trampoline(p)
        BY <4>1, <4>4 DEF Trampoline
      <4>5. CASE Authenticator(p)
        BY <4>5 DEF Authenticator
      <4>6. CASE ~ (EscrowStore(p) \/ OrderFound(p) \/ Trampoline(p) \/ Authenticator(p))
        <5>1. UNCHANGED caches
          BY <1>9, <2>2, <4>6 DEF Step, EscrowAsk, EscrowRead, EscrowFault, OrderMissing,
            TrampolineFails, AuthenticatorFault, Simulated, SimulationFails, GatePriced, GateUnpriced
        <5>2. QED
          BY <5>1 DEF caches
      <4>7. QED
        BY <4>2, <4>3, <4>4, <4>5, <4>6
    <3>4. QED
      BY <3>1, <3>2, <3>3 DEF world
  <2>3. QED
    BY <2>1, <2>2
<1>10. QED
  BY <1>1, <1>3, <1>4, <1>5, <1>6, <1>7, <1>8, <1>9 DEF Next

\* A row that leaves the tasks of others alone leaves them right.
LEMMA RowMoves ==
  ASSUME IInv, NEW p \in Proposals, NEW r, status' = [status EXCEPT ![p] = r],
         task[p].at # "idle" => task' = [task EXCEPT ![p] = Fresh("idle")],
         task[p].at = "idle" => task' = task,
         seen' = seen
  PROVE  TasksOK'
<1>1. ASSUME NEW q \in Proposals, q # p
      PROVE  TaskOK(q, task[q])'
  <2>1. status'[q] = status[q] /\ task'[q] = task[q] /\ TaskOK(q, task[q])
    BY <1>1 DEF IInv, PipelineTypeOK, TasksOK
  <2>2. QED
    BY <2>1 DEF TaskOK, Shaped, Engaged, Caused, Grounded, Covered, Short, Poor, Seen
<1>2. TaskOK(p, task[p])'
  <2>1. task'[p].at = "idle" /\ Shaped(task'[p]) /\ task'[p].verdict = None
    <3>1. CASE task[p].at = "idle"
      <4>1. task'[p] = task[p] /\ Shaped(task[p])
        BY <3>1 DEF IInv, TasksOK, TaskOK
      <4>2. QED
        BY <3>1, <4>1 DEF Shaped
    <3>2. CASE task[p].at # "idle"
      <4>1. task'[p] = Fresh("idle")
        BY <3>2 DEF IInv, PipelineTypeOK
      <4>2. "idle" \in Stages
        BY DEF Stages
      <4>3. QED
        BY <4>1, <4>2, FreshTask DEF Fresh
    <3>3. QED
      BY <3>1, <3>2
  <2>2. QED
    BY <2>1 DEF TaskOK, Engaged, Caused, Grounded, Simulating, None
<1>3. QED
  BY <1>1, <1>2 DEF TasksOK

\* What has been seen only grows within a tick, so tasks remain right.
LEMMA SeenMore ==
  ASSUME IInv, UNCHANGED <<status, task>>, seen.price \subseteq seen'.price,
         \A s \in SubSolvers : seen.balance[s] \subseteq seen'.balance[s]
  PROVE  TasksOK'
<1>1. ASSUME NEW p \in Proposals
      PROVE  TaskOK(p, task[p])'
  <2>1. Seen(p) \subseteq Seen(p)'
    BY PipelineAssumption DEF PipelineAssumption, Seen
  <2>2. TaskOK(p, task[p])
    BY DEF IInv, TasksOK
  <2>3. QED
    BY <2>1, <2>2 DEF TaskOK, Shaped, Engaged, Caused, Grounded, Covered, Short, Poor, Due
<1>2. QED
  BY <1>1 DEF TasksOK

LEMMA TasksStep ==
  ASSUME IInv, [Next]_vars
  PROVE  TasksOK'
<1>1. CASE UNCHANGED vars
  BY <1>1, SeenMore DEF vars, world
<1>2. CASE TickBegin
  <2> DEFINE at == [p \in Proposals |-> IF status[p] \in Live THEN "waiting" ELSE "idle"]
  <2>1. at \in [Proposals -> {"idle", "waiting"}]
    OBVIOUS
  <2>2. task' = [p \in Proposals |-> Fresh(at[p])] /\ status' = status
    BY <1>2 DEF TickBegin
  <2>3. \A p \in Proposals : at[p] = "waiting" => status'[p] \in Live
    BY <2>2
  <2> HIDE DEF at
  <2>4. ASSUME NEW p \in Proposals
        PROVE  TaskOK(p, task[p])'
    <3>1. task'[p] = Fresh(at[p]) /\ at[p] \in Stages /\ at[p] \in {"idle", "waiting"}
      BY <2>1, <2>2 DEF Stages
    <3>2. Shaped(task'[p]) /\ task'[p].at = at[p] /\ task'[p].verdict = None
      BY <3>1, FreshTask DEF Fresh
    <3>3. QED
      BY <2>3, <3>1, <3>2 DEF TaskOK, Engaged, Caused, Grounded, Simulating, None
  <2>5. QED
    BY <2>4 DEF TasksOK
<1>3. CASE Restart
  <2>1. ASSUME NEW p \in Proposals
        PROVE  TaskOK(p, task[p])'
    <3>1. task'[p] = Fresh("idle") /\ "idle" \in Stages
      BY <1>3 DEF Restart, Stages
    <3>2. Shaped(task'[p]) /\ task'[p].at = "idle" /\ task'[p].verdict = None
      BY <3>1, FreshTask DEF Fresh
    <3>3. QED
      BY <3>2 DEF TaskOK, Engaged, Caused, Grounded, Simulating, None
  <2>2. QED
    BY <2>1 DEF TasksOK
<1>4. CASE Recover
  BY <1>4, SeenMore DEF Recover
<1>5. ASSUME NEW p \in Proposals, Submit(p)
      PROVE  TasksOK'
  <2>1. task[p].at = "idle"
    BY <1>5 DEF IInv, TasksOK, TaskOK, Engaged, Live, Submit
  <2>2. QED
    BY <1>5, <2>1, RowMoves DEF Submit, world
<1>6. ASSUME NEW price \in GasPrices, Publish(price)
      PROVE  TasksOK'
  <2>1. seen.price \subseteq seen'.price /\ seen'.balance = seen.balance
    BY <1>6 DEF IInv, PipelineTypeOK, Publish, Asked
  <2>2. QED
    BY <1>6, <2>1, SeenMore DEF Publish
<1>7. ASSUME NEW s \in SubSolvers, NEW b \in Balances, BalanceMoves(s, b)
      PROVE  TasksOK'
  <2>1. seen'.price = seen.price /\ \A r \in SubSolvers : seen.balance[r] \subseteq seen'.balance[r]
    BY <1>7 DEF IInv, PipelineTypeOK, BalanceMoves
  <2>2. QED
    BY <1>7, <2>1, SeenMore DEF BalanceMoves
<1>8. ASSUME NEW p \in Proposals, Step(p)
      PROVE  TasksOK'
  <2>1. CASE Resolve(p)
    <3>1. /\ task[p].at # "idle" /\ task' = [task EXCEPT ![p] = Fresh("idle")] /\ seen' = seen
          /\ \E r : status' = [status EXCEPT ![p] = r]
      BY <2>1 DEF Resolve, Goes, world
    <3>2. QED
      BY <3>1, RowMoves
  <2>2. CASE ~ Resolve(p)
    <3>1. Moves(p) /\ UNCHANGED <<status, seen>>
      BY <1>8, <2>2, StepMoves DEF world
    <3>2. PICK t \in Task : TaskOK(p, t) /\ Goes(p, t)
      BY <3>1 DEF Moves
    <3>3. QED
      BY <3>1, <3>2, OneTask
  <2>3. QED
    BY <2>1, <2>2
<1>9. QED
  BY <1>1, <1>2, <1>3, <1>4, <1>5, <1>6, <1>7, <1>8 DEF Next

\* A row becomes active by an acceptance, of a proposal within its envelope.
LEMMA RowsStep ==
  ASSUME IInv, [Next]_vars
  PROVE  RowsOK'
<1>1. CASE UNCHANGED status
  BY <1>1 DEF IInv, RowsOK
<1>2. ASSUME NEW p \in Proposals, Submit(p)
      PROVE  RowsOK'
  BY <1>2 DEF IInv, PipelineTypeOK, RowsOK, Submit
<1>3. ASSUME NEW p \in Proposals, Resolve(p)
      PROVE  RowsOK'
  <2>1. task[p].verdict = "Accept" => Envelope[p] = "ok"
    BY DEF IInv, TasksOK, TaskOK, Engaged
  <2>2. QED
    BY <1>3, <2>1 DEF IInv, PipelineTypeOK, RowsOK, Resolve
<1>4. CASE ~ UNCHANGED status
  <2>1. PICK p \in Proposals : Submit(p) \/ Step(p)
    BY <1>4 DEF Next, vars, TickBegin, Restart, Recover, Publish, BalanceMoves
  <2>2. Submit(p) \/ Resolve(p)
    BY <1>4, <2>1, StepMoves
  <2>3. QED
    BY <1>2, <1>3, <2>2
<1>5. QED
  BY <1>1, <1>4

\* What is current was seen, and what is cached was seen in this tick.
LEMMA WorldStep ==
  ASSUME IInv, [Next]_vars
  PROVE  WorldOK'
<1> USE DEF IInv, WorldOK
<1>1. CASE UNCHANGED <<gasPrice, balance, seen, escrowCache>>
  BY <1>1
<1>2. CASE TickBegin
  BY <1>2 DEF PipelineTypeOK, TickBegin
<1>3. CASE Restart
  BY <1>3 DEF PipelineTypeOK, Restart
<1>4. ASSUME NEW price \in GasPrices, Publish(price)
      PROVE  WorldOK'
  BY <1>4 DEF PipelineTypeOK, Publish, Asked, caches
<1>5. ASSUME NEW s \in SubSolvers, NEW b \in Balances, BalanceMoves(s, b)
      PROVE  WorldOK'
  <2>1. /\ UNCHANGED <<gasPrice, escrowCache>>
        /\ seen'.price = seen.price /\ seen'.asked = seen.asked
        /\ \A r \in SubSolvers : r # s => UNCHANGED <<balance[r], seen.balance[r]>>
        /\ balance'[s] = b /\ seen'.balance[s] = seen.balance[s] \cup {b}
    BY <1>5 DEF PipelineTypeOK, BalanceMoves, caches
  <2>2. QED
    BY <2>1
<1>6. ASSUME NEW p \in Proposals, EscrowStore(p)
      PROVE  WorldOK'
  <2>1. task[p].balance \in Seen(p)
    BY <1>6 DEF TasksOK, TaskOK, Grounded, EscrowStore
  <2>2. UNCHANGED <<gasPrice, balance, seen>>
    BY <1>6 DEF EscrowStore, world
  <2>3. escrowCache' = [escrowCache EXCEPT ![SubSolverOf[p]] = task[p].balance]
    BY <1>6 DEF EscrowStore
  <2>4. QED
    BY <2>1, <2>2, <2>3 DEF PipelineTypeOK, Seen
<1>7. ASSUME NEW p \in Proposals, Submit(p) \/ Step(p), ~ EscrowStore(p)
      PROVE  WorldOK'
  <2>1. UNCHANGED <<gasPrice, balance, seen, escrowCache>>
    BY <1>7 DEF Step, Submit, caches, world, EscrowAsk, EscrowRead, EscrowFault, OrderFound,
      OrderMissing, Trampoline, TrampolineFails, Authenticator, AuthenticatorFault, Simulated,
      SimulationFails, GatePriced, GateUnpriced, Resolve
  <2>2. QED
    BY <1>1, <2>1
<1>8. CASE Recover \/ UNCHANGED vars
  BY <1>1, <1>8 DEF Recover, caches, vars, world
<1>9. QED
  BY <1>2, <1>3, <1>4, <1>5, <1>6, <1>7, <1>8 DEF Next

LEMMA InitRight ==
  ASSUME Init
  PROVE  IInv
<1>1. DefaultPrice \in 0 .. MaxPrice /\ DefaultPrice \in Nat
  BY PipelineAssumption DEF PipelineAssumption
<1>2. "idle" \in Stages
  BY DEF Stages
<1>3. PipelineTypeOK
  <2>1. task \in [Proposals -> Task]
    BY <1>2, FreshTask DEF Init
  <2>2. seen \in Sight
    BY <1>1 DEF Init, Sight
  <2>3. QED
    BY <1>1, <2>1, <2>2 DEF Init, PipelineTypeOK, Sight
<1>4. TasksOK
  <2>1. ASSUME NEW p \in Proposals
        PROVE  TaskOK(p, task[p])
    <3>1. task[p] = Fresh("idle")
      BY DEF Init
    <3>2. Shaped(task[p]) /\ task[p].at = "idle" /\ task[p].verdict = None
      BY <1>2, <3>1, FreshTask DEF Fresh
    <3>3. QED
      BY <3>2 DEF TaskOK, Engaged, Caused, Grounded, Simulating, None
  <2>2. QED
    BY <2>1 DEF TasksOK
<1>5. RowsOK
  BY DEF Init, RowsOK
<1>6. WorldOK
  BY DEF Init, WorldOK
<1>7. QED
  BY <1>3, <1>4, <1>5, <1>6 DEF IInv

LEMMA NextRight ==
  ASSUME IInv, [Next]_vars
  PROVE  IInv'
BY TypeStep, TasksStep, RowsStep, WorldStep DEF IInv

LEMMA Invariance == Spec => []IInv
<1>1. Init => IInv
  BY InitRight
<1>2. IInv /\ [Next]_vars => IInv'
  BY NextRight
<1>3. QED
  BY <1>1, <1>2, PTL DEF Spec

\* Caches, tasks and rows hold values of their types, on which the rest stands:
\* a threshold is a natural number, and nothing is negative but "no balance".
THEOREM PipelineTyped == Spec => []PipelineTypeOK
<1>1. IInv => PipelineTypeOK
  BY DEF IInv
<1>2. QED
  BY <1>1, Invariance, PTL

----------------------------------------------------------------------------
(* The properties. *)

\* An escrow verdict rests on a balance and a price since its tick began,
\* however the tasks of a tick and /solve interleave (escrow.rs, 71-107).
THEOREM EscrowGrounded == Spec => []EscrowJudgedInTick
<1>1. IInv => EscrowJudgedInTick
  BY DEF IInv, TasksOK, TaskOK, Grounded, Covered, Short, Seen, Due, Simulating, EscrowJudgedInTick
<1>2. QED
  BY <1>1, Invariance, PTL

\* Who moves a row: the submission, or the verdict of its task.
LEMMA RowSteps ==
  ASSUME IInv, [Next]_vars, NEW p \in Proposals, status'[p] # status[p]
  PROVE  Submit(p) \/ Resolve(p)
<1>1. PICK q \in Proposals : Submit(q) \/ Step(q)
  BY DEF Next, vars, TickBegin, Restart, Recover, Publish, BalanceMoves
<1>2. Submit(q) \/ Resolve(q)
  BY <1>1, StepMoves
<1>3. p = q
  BY <1>2 DEF IInv, PipelineTypeOK, Submit, Resolve
<1>4. QED
  BY <1>2, <1>3

\* However calls fail and validations interleave, a tick in which a call for a
\* proposal failed leaves the proposal as it was (validator.rs, 206-210).
THEOREM FaultsDefer == Spec => FaultsOnlyDefer
<1>1. ASSUME IInv, [Next]_vars, NEW p \in Proposals, task[p].answer \in Faults
      PROVE  status'[p] = status[p]
  <2>1. task[p].at = "judged" /\ task[p].verdict = None /\ status[p] \in Live
    BY <1>1 DEF IInv, TasksOK, TaskOK, Shaped, Engaged, Faults
  <2>2. SUFFICES ASSUME status'[p] # status[p]
                 PROVE  FALSE
    OBVIOUS
  <2>3. Resolve(p)
    BY <1>1, <2>1, <2>2, RowSteps DEF Submit, Live
  <2>4. QED
    BY <2>1, <2>2, <2>3 DEF IInv, PipelineTypeOK, Resolve, None
<1>2. IInv /\ [Next]_vars =>
        [\A p \in Proposals : task[p].answer \in Faults => status'[p] = status[p]]_vars
  BY <1>1
<1>3. QED
  BY <1>2, Invariance, PTL DEF Spec, FaultsOnlyDefer

\* However tasks, prices, balances and failures interleave, a proposal is dropped
\* for a revert, an unknown order or short escrow of this tick, and before its
\* first acceptance for its envelope or at the gate (validator.rs, 208-348).
THEOREM DropsCaused == Spec => DropsHaveCauses
<1> DEFINE Cause(p) == \/ task[p].answer \in {"reverted", "noOrder"}
                       \/ Short(p)
                       \/ /\ status[p] = "submitted"
                          /\ Envelope[p] # "ok" \/ task[p].answer = "noPrice" \/ Poor(p)
<1>1. ASSUME IInv, [Next]_vars, NEW p \in Proposals, status[p] \in Live, status'[p] \notin Live
      PROVE  Cause(p)
  <2>1. Resolve(p)
    BY <1>1, RowSteps DEF Submit, Live
  <2>2. task[p].verdict \in Verdicts \ {"Accept"}
    <3>1. task[p].verdict \in Verdicts \cup {None}
      BY <1>1 DEF IInv, PipelineTypeOK, Task
    <3>2. task[p].verdict \notin {None, "Accept"}
      BY <1>1, <2>1 DEF IInv, PipelineTypeOK, Resolve, Live, None
    <3>3. QED
      BY <3>1, <3>2
  <2>3. TaskOK(p, task[p])
    BY <1>1 DEF IInv, TasksOK
  <2>4. CASE task[p].verdict \in {"SimFailed", "OrderNotFound", "InsufficientEscrow"}
    BY <2>3, <2>4 DEF TaskOK, Caused, Grounded
  <2>5. CASE task[p].verdict = "Unprofitable"
    BY <2>3, <2>5 DEF TaskOK, Caused, Engaged
  <2>6. CASE task[p].verdict \in {"UnsupportedOrder", "AmountMismatch"}
    <3>1. Envelope[p] # "ok"
      BY <2>3, <2>6 DEF TaskOK, Engaged
    <3>2. status[p] = "submitted"
      BY <1>1, <3>1 DEF IInv, RowsOK, Live
    <3>3. QED
      BY <3>1, <3>2
  <2>7. QED
    BY <2>2, <2>4, <2>5, <2>6 DEF Verdicts, Reasons
<1>2. IInv /\ [Next]_vars =>
        [\A p \in Proposals : status[p] \in Live /\ status'[p] \notin Live => Cause(p)]_vars
  BY <1>1
<1>3. QED
  BY <1>2, Invariance, PTL DEF Spec, DropsHaveCauses

\* The order cache keeps its bound, for any number of concurrent validations
\* and any capacity (orderbook.rs, 107-119).
THEOREM CacheBound == Spec => []CacheBounded
<1> DEFINE Bound == IsFiniteSet(orders) /\ CacheBounded
<1>1. Init => Bound
  BY FS_EmptySet, PipelineAssumption DEF Init, CacheBounded, PipelineAssumption
<1>2. Bound /\ [Next]_vars => Bound'
  <2> SUFFICES ASSUME Bound, [Next]_vars
               PROVE  Bound'
    OBVIOUS
  <2>1. CASE UNCHANGED orders
    BY <2>1 DEF CacheBounded
  <2>2. CASE orders' = {}
    BY <2>2, FS_EmptySet, PipelineAssumption DEF CacheBounded, PipelineAssumption
  <2>3. ASSUME NEW p \in Proposals, OrderFound(p)
        PROVE  Bound'
    <3>1. CASE Cardinality(orders) >= CacheCapacity /\ OrderOf[p] \notin orders
      <4>1. orders' = {OrderOf[p]}
        BY <2>3, <3>1 DEF OrderFound, Remember
      <4>2. IsFiniteSet(orders') /\ Cardinality(orders') = 1
        BY <4>1, FS_Singleton
      <4>3. QED
        BY <4>2, PipelineAssumption DEF CacheBounded, PipelineAssumption
    <3>2. CASE ~ (Cardinality(orders) >= CacheCapacity /\ OrderOf[p] \notin orders)
      <4>1. orders' = orders \cup {OrderOf[p]}
        BY <2>3, <3>2 DEF OrderFound, Remember
      <4>2. CASE OrderOf[p] \in orders
        <5>1. orders' = orders
          BY <4>1, <4>2
        <5>2. QED
          BY <5>1 DEF CacheBounded
      <4>3. CASE OrderOf[p] \notin orders
        <5>1. IsFiniteSet(orders') /\ Cardinality(orders') = Cardinality(orders) + 1
          BY <4>1, <4>3, FS_AddElement
        <5>2. Cardinality(orders) \in Nat
          BY FS_CardinalityType
        <5>3. QED
          BY <3>2, <4>3, <5>1, <5>2, PipelineAssumption DEF CacheBounded, PipelineAssumption
      <4>4. QED
        BY <4>2, <4>3
    <3>3. QED
      BY <3>1, <3>2
  <2>4. QED
    BY <2>1, <2>2, <2>3 DEF Next, vars, caches, Step, Submit, TickBegin, Restart, Recover, Publish,
      BalanceMoves, EscrowAsk, EscrowRead, EscrowFault, EscrowStore, OrderMissing, Trampoline,
      TrampolineFails, Authenticator, AuthenticatorFault, Simulated, SimulationFails, GatePriced,
      GateUnpriced, Resolve
<1>3. Bound => CacheBounded
  OBVIOUS
<1>4. QED
  BY <1>1, <1>2, <1>3, PTL DEF Spec
=============================================================================
