----------------------------- MODULE SubSolver -----------------------------
(***************************************************************************)
(* The reference sub-solver's polling loop (crates/subsolver/src/run.rs)   *)
(* against what the service promises of a proposal.  A pass of the loop    *)
(* takes `now`, fetches the auction, asks for the verdict on what it       *)
(* holds, reads the pools' reserves, and posts what is left; the service   *)
(* and the clock move between any two of these calls.  Calls fail and      *)
(* answers are lost until `healthy`; a restart forgets what is held.       *)
(*                                                                         *)
(* The service is ProposalLifecycle, which the store is proved to          *)
(* implement.  Deadlines are kept as the time left to them, and the pass's *)
(* `now` as its age, so that time needs no bound.  Nonces are left out:    *)
(* the service does not compare them.                                      *)
(*                                                                         *)
(* Op_Mistake is Op with a mistake, as in ProposalStore.                   *)
(***************************************************************************)
EXTENDS Integers, FiniteSets

CONSTANTS
  Proposals,    \* the ids the service can draw
  Orders,
  OrderOf,      \* OrderOf[p]: the order the id is drawn for
  ProposalTtl,  \* proposal_ttl
  MaxLifetime,  \* --max-proposal-lifetime-secs
  MaxRestarts   \* bound: restarts of the sub-solver

ASSUME SubSolverAssumption ==
  /\ OrderOf \in [Proposals -> Orders]
  /\ {MaxRestarts, MaxLifetime} \subseteq Nat
  /\ ProposalTtl \in 1 .. MaxLifetime

VARIABLES
  phase,      \* phase[p]: where the proposal is in its life
  left,       \* left[p]: the time left to its valid_until
  poll,       \* the pass of the loop: where it is, and the orders still to do
  live,       \* live[o]: the proposal held for order o and the time left to it
  orphans,    \* proposals whose answer was lost, or whose holder restarted
  healthy,    \* are failed calls and lost answers over?
  restarts

service == <<phase, left>>
client  == <<poll, live, orphans>>
vars    == <<service, client, healthy, restarts>>

Lifecycle == INSTANCE ProposalLifecycle

Held == [of : SUBSET Proposals, left : 0 .. ProposalTtl]
Free == [of |-> {}, left |-> 0]

Idle == [at |-> "idle", age |-> 0, todo |-> {}, pending |-> {}]

Init ==
  /\ Lifecycle!Init
  /\ left = [p \in Proposals |-> 0]
  /\ poll = Idle
  /\ live = [o \in Orders |-> Free]
  /\ orphans = {}
  /\ healthy = FALSE
  /\ restarts = 0

\* A settlement in flight counts as over.
IsTerminal_Executing(p) == phase[p] \in {"dropped", "settled", "owed", "charged", "executing"}

\* The statuses a sub-solver takes as final.
IsTerminal(p) == phase[p] \in {"dropped", "settled", "owed", "charged"}

----------------------------------------------------------------------------
(* A pass of the loop. *)

\* What is held is never given up for its deadline.
PollBegin_KeepsLate ==
  /\ poll.at = "idle"
  /\ poll' = [Idle EXCEPT !.at = "fetch"]
  /\ UNCHANGED <<service, live, orphans, healthy, restarts>>

\* The deadlines of what is held are compared with this pass's `now`.
PollBegin ==
  /\ poll.at = "idle"
  /\ poll' = [Idle EXCEPT !.at = "fetch"]
  /\ live' = [o \in Orders |-> IF live[o].left > 0 THEN live[o] ELSE Free]
  /\ UNCHANGED <<service, orphans, healthy, restarts>>

\* The auction offers some of the orders, all of them once all is well.
PollFetch(auction) ==
  /\ poll.at = "fetch"
  /\ healthy => auction = Orders
  /\ poll' = [poll EXCEPT !.at = "check", !.todo = auction]
  /\ UNCHANGED <<service, live, orphans, healthy, restarts>>

\* An order without a proposal is pending.  Of one that has, the status is
\* asked: a terminal one frees the order, any other holds it, and so does a
\* failed call or a row that is gone.
PollCheck(o) ==
  LET terminal == \E p \in live[o].of : IsTerminal(p)
      rest     == poll.todo \ {o}
  IN /\ poll.at = "check"
     /\ o \in poll.todo
     /\ \/ /\ live[o] = Free \/ terminal
           /\ live' = [live EXCEPT ![o] = Free]
           /\ poll' = [poll EXCEPT !.todo = rest, !.pending = @ \cup {o}]
        \/ /\ live[o] # Free /\ (terminal => ~ healthy)
           /\ poll' = [poll EXCEPT !.todo = rest]
           /\ UNCHANGED live
     /\ UNCHANGED <<service, orphans, healthy, restarts>>

\* One multicall for all pools: an order whose pool has no reserves is skipped.
PollReserves(routable) ==
  /\ poll.at = "check" /\ poll.todo = {}
  /\ routable \subseteq poll.pending
  /\ healthy => routable = poll.pending
  /\ poll' = IF routable = {} THEN Idle
             ELSE [poll EXCEPT !.at = "post", !.pending = routable]
  /\ UNCHANGED <<service, live, orphans, healthy, restarts>>

\* The order is done with for this pass.
Done(o) == poll' = IF poll.pending = {o} THEN Idle
                   ELSE [poll EXCEPT !.pending = @ \ {o}]

\* The id the service draws next for the order, if the bound leaves one.
Drawn(o) == {p \in Proposals : OrderOf[p] = o /\ phase[p] = "unborn"}
NextId(o) == CHOOSE p \in Drawn(o) : TRUE

\* The deadline counts from the pass's `now`, and is what the client records.
TimeLeft == ProposalTtl - poll.age

\* POST /proposals: the deadline gate, then the row.
Insert(p) ==
  /\ TimeLeft \in 0 .. MaxLifetime
  /\ phase' = [phase EXCEPT ![p] = "live"]
  /\ left' = [left EXCEPT ![p] = TimeLeft]

\* Posted, accepted, and answered.
PollPost(o) ==
  /\ poll.at = "post" /\ o \in poll.pending
  /\ Drawn(o) # {}
  /\ Insert(NextId(o))
  /\ live' = [live EXCEPT ![o] = [of |-> {NextId(o)}, left |-> TimeLeft]]
  /\ Done(o)
  /\ UNCHANGED <<orphans, healthy, restarts>>

\* Posted and accepted, and the answer lost: the order stays free.
PollPostUnanswered(o) ==
  /\ poll.at = "post" /\ o \in poll.pending
  /\ ~ healthy
  /\ Drawn(o) # {}
  /\ Insert(NextId(o))
  /\ orphans' = orphans \cup {NextId(o)}
  /\ Done(o)
  /\ UNCHANGED <<live, healthy, restarts>>

\* Not routable at these reserves, refused for its deadline, or not delivered.
PollSkip(o) ==
  /\ poll.at = "post" /\ o \in poll.pending
  /\ ~ healthy \/ TimeLeft < 0 \/ Drawn(o) = {}
  /\ Done(o)
  /\ UNCHANGED <<service, live, orphans, healthy, restarts>>

\* The auction or the reserves could not be read: the pass ends.
PollFault ==
  /\ poll.at = "fetch" \/ (poll.at = "check" /\ poll.todo = {} /\ poll.pending # {})
  /\ ~ healthy
  /\ poll' = Idle
  /\ UNCHANGED <<service, live, orphans, healthy, restarts>>

----------------------------------------------------------------------------
\* The sub-solver starts again and remembers nothing it submitted.
Restart ==
  /\ restarts < MaxRestarts
  /\ restarts' = restarts + 1
  /\ poll' = Idle
  /\ live' = [o \in Orders |-> Free]
  /\ orphans' = orphans \cup UNION {live[o].of : o \in Orders}
  /\ UNCHANGED <<service, healthy>>

\* From here on calls are answered and orders can be routed.
Recover ==
  /\ ~ healthy
  /\ healthy' = TRUE
  /\ UNCHANGED <<service, client, restarts>>

\* The service and the driver: any move the lifecycle promises.
ServiceStep ==
  /\ \/ \E p \in Proposals : phase[p] # "unborn" /\ Lifecycle!Step(p)
     \/ \E S \in SUBSET Proposals : Lifecycle!Release(S) \/ Lifecycle!Forget(S)
  /\ UNCHANGED <<left, client, healthy, restarts>>

\* A time left that is over stays over.
Less(n) == IF n = 0 THEN 0 ELSE n - 1

\* A pass whose calls are answered ends before the deadline it would post.
Prompt == healthy => poll.at = "idle" \/ poll.age + 1 < ProposalTtl

\* The wall clock of both sides.  A pass too old to post anything ages no more.
AdvanceClock ==
  /\ Prompt
  /\ left' = [p \in Proposals |-> Less(left[p])]
  /\ live' = [o \in Orders |-> [live[o] EXCEPT !.left = Less(@)]]
  /\ poll' = IF poll.at = "idle" \/ TimeLeft < 0 THEN poll ELSE [poll EXCEPT !.age = @ + 1]
  /\ UNCHANGED <<phase, orphans, healthy, restarts>>

PollStep == \/ PollBegin
            \/ \E auction \in SUBSET Orders : PollFetch(auction)
            \/ \E o \in Orders : \/ PollCheck(o) \/ PollPost(o)
                                 \/ PollPostUnanswered(o) \/ PollSkip(o)
            \/ \E routable \in SUBSET Orders : PollReserves(routable)
            \/ PollFault

Next == PollStep \/ Restart \/ Recover \/ ServiceStep \/ AdvanceClock

Spec == Init /\ [][Next]_vars

\* The loop polls, every call returns, time passes and the failures end.  The
\* service owes nothing: no verdict, no expiry, no outcome.
FairSpec == Spec /\ WF_vars(PollStep) /\ WF_vars(Recover)
                 /\ WF_vars(AdvanceClock)

----------------------------------------------------------------------------
(* Properties. *)

\* The pass and what is held have their types.
SubSolverTypeOK ==
  /\ Lifecycle!TypeOK
  /\ left \in [Proposals -> 0 .. ProposalTtl]
  /\ poll \in [at : {"idle", "fetch", "check", "post"}, age : 0 .. ProposalTtl + 1,
               todo : SUBSET Orders, pending : SUBSET Orders]
  /\ live \in [Orders -> Held]
  /\ orphans \subseteq Proposals
  /\ healthy \in BOOLEAN
  /\ restarts \in 0 .. MaxRestarts

\* Can the service still bid it, or is a settlement of it in flight?
InPlay(p) == phase[p] \in {"live", "executing"}

\* In play, and its deadline is still to come.  A settlement may be in flight
\* past it: the client has dropped that proposal and posts another beside it.
Standing(p) == InPlay(p) /\ left[p] > 0

\* One proposal per order stands: whatever the service does between the calls of
\* a pass, a proposal that stands is the one its holder counts as live, so no
\* second one is posted beside it before its deadline, unless the answer to its
\* own POST was lost or the holder restarted (run.rs, 69-71, 126, 168-173).
OneStanding ==
  \A p \in Proposals : Standing(p) => live[OrderOf[p]].of = {p} \/ p \in orphans

\* Every order is served again and again: one stands, or the ids the
\* instance draws from are used up.  Neither a row that was swept before its
\* verdict was read nor a deadline that passed in flight stops the loop
\* (run.rs, 118-124 and 203-206).
OrdersServed ==
  \A o \in Orders :
    []<>(Drawn(o) = {} \/ \E p \in Proposals : OrderOf[p] = o /\ Standing(p))
=============================================================================
