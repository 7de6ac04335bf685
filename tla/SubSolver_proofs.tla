-------------------------- MODULE SubSolver_proofs --------------------------
(***************************************************************************)
(* For any proposals, orders and lifetimes: one proposal per order stands. *)
(* One that stands and is not lost is held for its order, at least until   *)
(* its deadline, and nothing is posted for an order that is held.          *)
(***************************************************************************)
EXTENDS SubSolver, TLAPS

Playing == {"live", "executing"}

\* Who stands is held no less than until its deadline, or lost.
HeldStanding ==
  \A p \in Proposals :
    phase[p] \in Playing /\ left[p] > 0 =>
      \/ p \in orphans
      \/ live[OrderOf[p]].of = {p} /\ live[OrderOf[p]].left >= left[p]

\* An order waiting to be posted is not held.
PendingFree == \A o \in poll.pending : live[o] = Free

IInv == SubSolverTypeOK /\ HeldStanding /\ PendingFree

----------------------------------------------------------------------------
(* Types. *)

\* The pass: the values poll takes.
Pass == [at : {"idle", "fetch", "check", "post"}, age : 0 .. ProposalTtl + 1,
         todo : SUBSET Orders, pending : SUBSET Orders]

\* The bounds are natural numbers, an empty hold and an idle pass have their types.
LEMMA Bounds ==
  /\ ProposalTtl \in Nat /\ MaxLifetime \in Nat /\ MaxRestarts \in Nat
  /\ Free \in Held /\ Idle \in Pass
  /\ \A n \in Nat : Less(n) \in 0 .. n
BY SubSolverAssumption DEF SubSolverAssumption, Free, Held, Idle, Pass, Less

\* Every move of the service keeps the phases phases.
LEMMA PhaseType ==
  ASSUME Lifecycle!TypeOK,
         \/ \E p \in Proposals : Lifecycle!Step(p)
         \/ \E S \in SUBSET Proposals : Lifecycle!Release(S) \/ Lifecycle!Forget(S)
  PROVE  Lifecycle!TypeOK'
BY DEF Lifecycle!TypeOK, Lifecycle!Step, Lifecycle!Release, Lifecycle!Forget, Lifecycle!Sweep,
       Lifecycle!Phases

\* The id drawn for an order is one of its unborn ones.
LEMMA Draw ==
  ASSUME NEW o, Drawn(o) # {}
  PROVE  NextId(o) \in Proposals /\ OrderOf[NextId(o)] = o /\ phase[NextId(o)] = "unborn"
BY DEF NextId, Drawn

\* Posting inserts a row whose time left is in range.
LEMMA InsertType ==
  ASSUME SubSolverTypeOK, NEW p \in Proposals, Insert(p)
  PROVE  /\ Lifecycle!TypeOK' /\ left' \in [Proposals -> 0 .. ProposalTtl]
         /\ TimeLeft \in 0 .. ProposalTtl
<1>1. TimeLeft \in 0 .. ProposalTtl
  BY Bounds DEF SubSolverTypeOK, Insert, TimeLeft
<1>2. QED
  BY <1>1 DEF SubSolverTypeOK, Insert, Lifecycle!TypeOK, Lifecycle!Phases

\* An order that is done with leaves a pass.
LEMMA DoneType ==
  ASSUME SubSolverTypeOK, NEW o \in Orders, Done(o)
  PROVE  poll' \in Pass /\ poll'.pending \subseteq poll.pending \ {o}
<1>1. CASE poll.pending = {o}
  BY <1>1, Bounds DEF Done, Idle
<1>2. CASE poll.pending # {o}
  BY <1>2 DEF SubSolverTypeOK, Done, Pass
<1>3. QED
  BY <1>1, <1>2

----------------------------------------------------------------------------
(* The steps, each keeping the three parts. *)

LEMMA InitHolds ==
  ASSUME Init
  PROVE  IInv
<1>1. SubSolverTypeOK
  <2>1. Lifecycle!TypeOK
    BY DEF Init, Lifecycle!Init, Lifecycle!TypeOK, Lifecycle!Phases
  <2>2. left \in [Proposals -> 0 .. ProposalTtl] /\ restarts \in 0 .. MaxRestarts
    BY Bounds DEF Init
  <2>3. poll \in Pass /\ live \in [Orders -> Held]
    BY Bounds DEF Init
  <2>4. QED
    BY <2>1, <2>2, <2>3 DEF Init, SubSolverTypeOK, Pass
<1>2. HeldStanding
  BY DEF Init, HeldStanding, Playing, Lifecycle!Init
<1>3. PendingFree
  BY DEF Init, PendingFree, Idle
<1>4. QED
  BY <1>1, <1>2, <1>3 DEF IInv

\* A pass that begins gives up only what no longer stands.
LEMMA BeginHolds ==
  ASSUME IInv, PollBegin
  PROVE  IInv'
<1>1. poll' \in Pass /\ poll'.pending = {}
  BY Bounds DEF PollBegin, Pass, Idle
<1>2. live' \in [Orders -> Held]
  BY Bounds DEF IInv, SubSolverTypeOK, PollBegin
<1>3. SubSolverTypeOK'
  BY <1>1, <1>2 DEF IInv, SubSolverTypeOK, PollBegin, Pass, service, Lifecycle!TypeOK
<1>4. HeldStanding'
  <2> SUFFICES ASSUME NEW p \in Proposals, phase[p] \in Playing, left[p] > 0, p \notin orphans
               PROVE  live'[OrderOf[p]].of = {p} /\ live'[OrderOf[p]].left >= left[p]
    BY DEF HeldStanding, PollBegin, service
  <2>1. OrderOf[p] \in Orders
    BY SubSolverAssumption DEF SubSolverAssumption
  <2>2. live[OrderOf[p]].of = {p} /\ live[OrderOf[p]].left >= left[p]
    BY DEF IInv, HeldStanding
  <2>3. live[OrderOf[p]].left \in Nat /\ left[p] \in Nat
    BY <2>1, Bounds DEF IInv, SubSolverTypeOK, Held
  <2>4. live'[OrderOf[p]] = live[OrderOf[p]]
    BY <2>1, <2>2, <2>3 DEF PollBegin
  <2>5. QED
    BY <2>2, <2>4
<1>5. PendingFree'
  BY <1>1 DEF PendingFree
<1>6. QED
  BY <1>3, <1>4, <1>5 DEF IInv

\* A checked order is freed only when what it holds is over, or holds nothing.
LEMMA CheckHolds ==
  ASSUME IInv, NEW o \in Orders, PollCheck(o)
  PROVE  IInv'
<1> DEFINE terminal == \E p \in live[o].of : IsTerminal(p)
<1>1. CASE /\ live[o] = Free \/ terminal
           /\ live' = [live EXCEPT ![o] = Free]
           /\ poll' = [poll EXCEPT !.todo = poll.todo \ {o}, !.pending = @ \cup {o}]
  <2>1. poll' \in Pass /\ poll'.pending = poll.pending \cup {o}
    BY <1>1 DEF IInv, SubSolverTypeOK, Pass
  <2>2. live' \in [Orders -> Held] /\ live'[o] = Free
    BY <1>1, Bounds DEF IInv, SubSolverTypeOK
  <2>3. SubSolverTypeOK'
    BY <2>1, <2>2 DEF IInv, SubSolverTypeOK, PollCheck, Pass, service, Lifecycle!TypeOK
  <2>4. HeldStanding'
    <3> SUFFICES ASSUME NEW p \in Proposals, phase[p] \in Playing, left[p] > 0, p \notin orphans
                 PROVE  live'[OrderOf[p]].of = {p} /\ live'[OrderOf[p]].left >= left[p]
      BY DEF HeldStanding, PollCheck, service
    <3>1. live[OrderOf[p]].of = {p} /\ live[OrderOf[p]].left >= left[p]
      BY DEF IInv, HeldStanding
    <3>2. ~ IsTerminal(p)
      BY DEF IsTerminal, Playing
    <3>3. OrderOf[p] # o
      BY <1>1, <3>1, <3>2 DEF Free
    <3>4. live'[OrderOf[p]] = live[OrderOf[p]]
      BY <1>1, <3>3 DEF IInv, SubSolverTypeOK
    <3>5. QED
      BY <3>1, <3>4
  <2>5. PendingFree'
    BY <1>1, <2>1, <2>2 DEF IInv, SubSolverTypeOK, PendingFree
  <2>6. QED
    BY <2>3, <2>4, <2>5 DEF IInv
<1>2. CASE poll' = [poll EXCEPT !.todo = poll.todo \ {o}] /\ UNCHANGED live
  <2>1. poll' \in Pass /\ poll'.pending = poll.pending
    BY <1>2 DEF IInv, SubSolverTypeOK, Pass
  <2>2. SubSolverTypeOK'
    BY <1>2, <2>1 DEF IInv, SubSolverTypeOK, PollCheck, Pass, service, Lifecycle!TypeOK
  <2>3. HeldStanding' /\ PendingFree'
    BY <1>2, <2>1 DEF IInv, HeldStanding, PendingFree, PollCheck, service
  <2>4. QED
    BY <2>2, <2>3 DEF IInv
<1>3. QED
  BY <1>1, <1>2 DEF PollCheck

\* A post finds its order free: whoever else stands for it is lost.
LEMMA PostHolds ==
  ASSUME IInv, NEW o \in Orders, PollPost(o)
  PROVE  IInv'
<1> DEFINE new == NextId(o)
<1>1. new \in Proposals /\ OrderOf[new] = o /\ phase[new] = "unborn" /\ Insert(new)
  BY Draw DEF PollPost
<1>2. /\ Lifecycle!TypeOK' /\ left' \in [Proposals -> 0 .. ProposalTtl]
      /\ TimeLeft \in 0 .. ProposalTtl
  BY <1>1, InsertType DEF IInv
<1>3. poll' \in Pass /\ poll'.pending \subseteq poll.pending \ {o}
  BY DoneType DEF IInv, PollPost
<1> HIDE DEF new
<1>4. live' = [live EXCEPT ![o] = [of |-> {new}, left |-> TimeLeft]]
  BY DEF PollPost, new
<1>5. live' \in [Orders -> Held]
  BY <1>1, <1>2, <1>4 DEF IInv, SubSolverTypeOK, Held
<1>6. SubSolverTypeOK'
  BY <1>2, <1>3, <1>5 DEF IInv, SubSolverTypeOK, PollPost, Pass
<1>7. HeldStanding'
  <2> SUFFICES ASSUME NEW p \in Proposals, phase'[p] \in Playing, left'[p] > 0, p \notin orphans
               PROVE  live'[OrderOf[p]].of = {p} /\ live'[OrderOf[p]].left >= left'[p]
    BY DEF HeldStanding, PollPost
  <2>1. CASE p = new
    <3>1. left'[p] = TimeLeft /\ live'[OrderOf[p]] = [of |-> {new}, left |-> TimeLeft]
      BY <1>1, <1>4, <2>1 DEF IInv, SubSolverTypeOK, Insert
    <3>2. QED
      BY <1>2, <2>1, <3>1
  <2>2. CASE p # new
    <3>1. phase'[p] = phase[p] /\ left'[p] = left[p]
      BY <1>1, <2>2 DEF IInv, SubSolverTypeOK, Insert, Lifecycle!TypeOK
    <3>2. live[OrderOf[p]].of = {p} /\ live[OrderOf[p]].left >= left[p]
      BY <3>1 DEF IInv, HeldStanding
    <3>3. live[o] = Free
      BY DEF IInv, PendingFree, PollPost
    <3>4. OrderOf[p] # o
      BY <3>2, <3>3 DEF Free
    <3>5. live'[OrderOf[p]] = live[OrderOf[p]]
      BY <1>4, <3>4 DEF IInv, SubSolverTypeOK
    <3>6. QED
      BY <3>1, <3>2, <3>5
  <2>3. QED
    BY <2>1, <2>2
<1>8. PendingFree'
  BY <1>3, <1>4 DEF IInv, SubSolverTypeOK, PendingFree
<1>9. QED
  BY <1>6, <1>7, <1>8 DEF IInv

\* A post whose answer is lost makes its proposal an orphan.
LEMMA UnansweredHolds ==
  ASSUME IInv, NEW o \in Orders, PollPostUnanswered(o)
  PROVE  IInv'
<1> DEFINE new == NextId(o)
<1>1. new \in Proposals /\ Insert(new)
  BY Draw DEF PollPostUnanswered
<1>2. Lifecycle!TypeOK' /\ left' \in [Proposals -> 0 .. ProposalTtl]
  BY <1>1, InsertType DEF IInv
<1>3. poll' \in Pass /\ poll'.pending \subseteq poll.pending \ {o}
  BY DoneType DEF IInv, PollPostUnanswered
<1>4. SubSolverTypeOK'
  BY <1>1, <1>2, <1>3 DEF IInv, SubSolverTypeOK, PollPostUnanswered, Pass
<1>5. HeldStanding'
  <2> SUFFICES ASSUME NEW p \in Proposals, phase'[p] \in Playing, left'[p] > 0, p \notin orphans'
               PROVE  live[OrderOf[p]].of = {p} /\ live[OrderOf[p]].left >= left'[p]
    BY DEF HeldStanding, PollPostUnanswered
  <2>1. p # new /\ p \notin orphans
    BY DEF PollPostUnanswered
  <2>2. phase'[p] = phase[p] /\ left'[p] = left[p]
    BY <1>1, <2>1 DEF IInv, SubSolverTypeOK, Insert, Lifecycle!TypeOK
  <2>3. QED
    BY <2>1, <2>2 DEF IInv, HeldStanding
<1>6. PendingFree'
  BY <1>3 DEF IInv, PendingFree, PollPostUnanswered
<1>7. QED
  BY <1>4, <1>5, <1>6 DEF IInv

\* The other steps of a pass leave rows and holds, and only drop pending orders.
LEMMA PassHolds ==
  ASSUME IInv, UNCHANGED <<service, live, orphans, healthy, restarts>>,
         poll' \in Pass, poll'.pending \subseteq poll.pending
  PROVE  IInv'
<1>1. SubSolverTypeOK'
  BY DEF IInv, SubSolverTypeOK, Pass, service, Lifecycle!TypeOK
<1>2. HeldStanding' /\ PendingFree'
  BY DEF IInv, HeldStanding, PendingFree, service
<1>3. QED
  BY <1>1, <1>2 DEF IInv

LEMMA PollHolds ==
  ASSUME IInv, PollStep
  PROVE  IInv'
<1>1. ASSUME NEW auction \in SUBSET Orders, PollFetch(auction)
      PROVE  IInv'
  <2>1. poll' \in Pass /\ poll'.pending = poll.pending
    BY <1>1 DEF IInv, SubSolverTypeOK, PollFetch, Pass
  <2>2. QED
    BY <1>1, <2>1, PassHolds DEF PollFetch
<1>2. ASSUME NEW routable \in SUBSET Orders, PollReserves(routable)
      PROVE  IInv'
  <2>1. poll' \in Pass /\ poll'.pending \subseteq poll.pending
    <3>1. CASE routable = {}
      BY <1>2, <3>1, Bounds DEF PollReserves, Idle
    <3>2. CASE routable # {}
      BY <1>2, <3>2 DEF IInv, SubSolverTypeOK, PollReserves, Pass
    <3>3. QED
      BY <3>1, <3>2
  <2>2. QED
    BY <1>2, <2>1, PassHolds DEF PollReserves
<1>3. CASE PollFault
  <2>1. poll' \in Pass /\ poll'.pending \subseteq poll.pending
    BY <1>3, Bounds DEF PollFault, Idle
  <2>2. QED
    BY <1>3, <2>1, PassHolds DEF PollFault
<1>4. ASSUME NEW o \in Orders, PollSkip(o)
      PROVE  IInv'
  <2>1. poll' \in Pass /\ poll'.pending \subseteq poll.pending
    BY <1>4, DoneType DEF IInv, PollSkip
  <2>2. QED
    BY <1>4, <2>1, PassHolds DEF PollSkip
<1>5. QED
  BY <1>1, <1>2, <1>3, <1>4, BeginHolds, CheckHolds, PostHolds, UnansweredHolds DEF PollStep

\* A restart orphans everything that is held.
LEMMA RestartHolds ==
  ASSUME IInv, Restart
  PROVE  IInv'
<1>1. poll' \in Pass /\ poll'.pending = {} /\ live' \in [Orders -> Held]
  BY Bounds DEF Restart, Pass, Idle
<1>2. orphans' \subseteq Proposals
  BY DEF IInv, SubSolverTypeOK, Restart, Held
<1>3. restarts' \in 0 .. MaxRestarts
  BY Bounds DEF IInv, SubSolverTypeOK, Restart
<1>4. SubSolverTypeOK'
  BY <1>1, <1>2, <1>3 DEF IInv, SubSolverTypeOK, Restart, Pass, service, Lifecycle!TypeOK
<1>5. HeldStanding'
  <2> SUFFICES ASSUME NEW p \in Proposals, phase[p] \in Playing, left[p] > 0
               PROVE  p \in orphans'
    BY DEF HeldStanding, Restart, service
  <2>1. p \in orphans \/ p \in live[OrderOf[p]].of
    BY DEF IInv, HeldStanding
  <2>2. OrderOf[p] \in Orders
    BY SubSolverAssumption DEF SubSolverAssumption
  <2>3. QED
    BY <2>1, <2>2 DEF Restart
<1>6. PendingFree'
  BY <1>1 DEF PendingFree
<1>7. QED
  BY <1>4, <1>5, <1>6 DEF IInv

\* Whatever the service does to rows that exist, nothing enters play.
LEMMA ServiceHolds ==
  ASSUME IInv, ServiceStep
  PROVE  IInv'
<1>1. Lifecycle!TypeOK'
  BY PhaseType DEF IInv, SubSolverTypeOK, ServiceStep
<1>2. SubSolverTypeOK'
  BY <1>1 DEF IInv, SubSolverTypeOK, ServiceStep, client
<1>3. ASSUME NEW p \in Proposals, phase'[p] \in Playing
      PROVE  phase[p] \in Playing
  <2>1. ASSUME NEW q \in Proposals, phase[q] # "unborn", Lifecycle!Step(q)
        PROVE  phase[p] \in Playing
    BY <1>3, <2>1 DEF IInv, SubSolverTypeOK, Playing, Lifecycle!TypeOK, Lifecycle!Step,
                      Lifecycle!SingleMoves
  <2>2. ASSUME NEW S \in SUBSET Proposals, Lifecycle!Release(S) \/ Lifecycle!Forget(S)
        PROVE  phase[p] \in Playing
    BY <1>3, <2>2 DEF Playing, Lifecycle!Release, Lifecycle!Forget, Lifecycle!Sweep
  <2>3. QED
    BY <2>1, <2>2 DEF ServiceStep
<1>4. HeldStanding' /\ PendingFree'
  BY <1>3 DEF IInv, HeldStanding, PendingFree, ServiceStep, client
<1>5. QED
  BY <1>2, <1>4 DEF IInv

\* Both sides' clocks move together.
LEMMA ClockHolds ==
  ASSUME IInv, AdvanceClock
  PROVE  IInv'
<1>1. poll' \in Pass /\ poll'.pending = poll.pending
  <2>1. CASE poll.at = "idle" \/ TimeLeft < 0
    BY <2>1 DEF IInv, SubSolverTypeOK, AdvanceClock, Pass
  <2>2. CASE ~ (poll.at = "idle" \/ TimeLeft < 0)
    <3>1. poll.age + 1 \in 0 .. ProposalTtl + 1
      BY <2>2, Bounds DEF IInv, SubSolverTypeOK, TimeLeft
    <3>2. QED
      BY <2>2, <3>1 DEF IInv, SubSolverTypeOK, AdvanceClock, Pass
  <2>3. QED
    BY <2>1, <2>2
<1>2. ASSUME NEW p \in Proposals
      PROVE  left'[p] = Less(left[p]) /\ left'[p] \in 0 .. ProposalTtl
  BY Bounds DEF IInv, SubSolverTypeOK, AdvanceClock, Less
<1>3. ASSUME NEW o \in Orders
      PROVE  /\ live'[o] \in Held
             /\ live'[o].of = live[o].of /\ live'[o].left = Less(live[o].left)
  <2>1. live'[o] = [live[o] EXCEPT !.left = Less(@)] /\ live[o] \in Held
    BY DEF IInv, SubSolverTypeOK, AdvanceClock
  <2>2. Less(live[o].left) \in 0 .. ProposalTtl
    BY <2>1, Bounds DEF Held, Less
  <2>3. QED
    BY <2>1, <2>2 DEF Held
<1>4. SubSolverTypeOK'
  <2>1. left' \in [Proposals -> 0 .. ProposalTtl] /\ live' \in [Orders -> Held]
    BY <1>2, <1>3 DEF AdvanceClock
  <2>2. QED
    BY <1>1, <2>1 DEF IInv, SubSolverTypeOK, AdvanceClock, Pass, Lifecycle!TypeOK
<1>5. HeldStanding'
  <2> SUFFICES ASSUME NEW p \in Proposals, phase[p] \in Playing, left'[p] > 0, p \notin orphans
               PROVE  live'[OrderOf[p]].of = {p} /\ live'[OrderOf[p]].left >= left'[p]
    BY DEF HeldStanding, AdvanceClock
  <2>1. OrderOf[p] \in Orders
    BY SubSolverAssumption DEF SubSolverAssumption
  <2>2. left[p] \in Nat /\ live[OrderOf[p]].left \in Nat
    BY <2>1, Bounds DEF IInv, SubSolverTypeOK, Held
  <2>3. left[p] > 0
    BY <1>2, <2>2 DEF Less
  <2>4. live[OrderOf[p]].of = {p} /\ live[OrderOf[p]].left >= left[p]
    BY <2>3 DEF IInv, HeldStanding
  <2>5. QED
    BY <1>2, <1>3, <2>1, <2>2, <2>4 DEF Less
<1>6. PendingFree'
  <2> SUFFICES ASSUME NEW o \in poll.pending
               PROVE  live'[o] = Free
    BY <1>1 DEF PendingFree
  <2>1. o \in Orders /\ live[o] = Free
    BY DEF IInv, SubSolverTypeOK, PendingFree
  <2>2. live'[o] = [live[o] EXCEPT !.left = Less(@)]
    BY <2>1 DEF AdvanceClock
  <2>3. QED
    BY <2>1, <2>2 DEF Free, Less
<1>7. QED
  BY <1>4, <1>5, <1>6 DEF IInv

LEMMA NextHolds ==
  ASSUME IInv, [Next]_vars
  PROVE  IInv'
<1>1. CASE Recover \/ UNCHANGED vars
  BY <1>1 DEF IInv, SubSolverTypeOK, HeldStanding, PendingFree, Recover, vars, service, client,
              Lifecycle!TypeOK
<1>2. QED
  BY <1>1, PollHolds, RestartHolds, ServiceHolds, ClockHolds DEF Next

LEMMA Invariance == Spec => []IInv
<1>1. Init => IInv
  BY InitHolds
<1>2. IInv /\ [Next]_vars => IInv'
  BY NextHolds
<1>3. QED
  BY <1>1, <1>2, PTL DEF Spec

----------------------------------------------------------------------------
\* The pass and what is held keep their types: a proposal accepted never has
\* more time left than the configured lifetime (run.rs, 203-209).
THEOREM SubSolverTyped == Spec => []SubSolverTypeOK
<1>1. IInv => SubSolverTypeOK
  BY DEF IInv
<1>2. QED
  BY <1>1, Invariance, PTL

\* Against every service the lifecycle allows, one proposal per order stands but
\* for lost answers and restarts (run.rs, 69-71, 126, 168-173).
THEOREM OnePerOrder == Spec => []OneStanding
<1>1. IInv => OneStanding
  BY DEF IInv, HeldStanding, OneStanding, Standing, InPlay, Playing
<1>2. QED
  BY <1>1, Invariance, PTL
=============================================================================
