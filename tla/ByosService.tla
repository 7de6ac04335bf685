---------------------------- MODULE ByosService ----------------------------
(***************************************************************************)
(* The BYOS service around its store: the public API, the validation loop  *)
(* (infra/validation.rs), /solve and /notify (infra/api), the retention    *)
(* and penalty loops, and the CoW driver that calls them.  Each actor      *)
(* reads the store, works on what it read, and writes later; between two   *)
(* of its steps every other actor may move.  Crash is the process dying    *)
(* between any two steps: only the tables survive, so of the evidence only *)
(* what the audit writer has inserted.                                     *)
(*                                                                         *)
(* Op_Mistake is Op with a mistake, as in ProposalStore.                   *)
(***************************************************************************)
EXTENDS ProposalStore

CONSTANTS
  Orders,        \* order uids
  OrderOf,       \* OrderOf[p]: the order proposal p fills
  Duplicates,    \* may the driver's notifications be delivered again?
  MaxCrashes     \* bound: deaths of the process

ASSUME ServiceAssumption ==
  /\ OrderOf \in [Proposals -> Orders]
  /\ Auctions \subseteq Tx      \* the settlement of auction a is transaction a
  /\ Duplicates \in BOOLEAN
  /\ MaxCrashes \in Nat

VARIABLES
  loop,        \* the validation loop: is its snapshot due, the tick's `now`
               \* until then, and the snapshot rows it has to expire after
  view,        \* view[p]: the status the tick's snapshot saw, then the verdict
  solve,       \* solve[a]: the /solve call of auction a
  settle,      \* settle[a]: what the driver did with the response
  applying,    \* outcomes /notify has attributed and not yet applied
  delivered,   \* notifications delivered, when each is delivered only once
  crashes,     \* how often the process died
  written      \* the evidence in the table audit_events

serviceVars == <<loop, view, solve, settle, applying, delivered, crashes, written>>
vars == <<storeVars, serviceVars>>

None == "none"

ServiceTypeOK ==
  /\ StoreTypeOK
  /\ loop \in [due : BOOLEAN, now : Nat, late : SUBSET Proposals]
  /\ view \in [Proposals -> {None} \cup Live \cup Verdicts]
  /\ solve \in [Auctions -> [picked : SUBSET Proposals, bids : Seq(Proposals)]]
  /\ settle \in [Auctions -> [won : SUBSET SolutionIds,
                              fate : {None} \cup Outcomes]]
  /\ applying \subseteq [auction : Auctions, proposal : Proposals,
                         outcome : Outcomes]
  /\ delivered \subseteq Auctions \X Outcomes
  /\ crashes \in 0 .. MaxCrashes
  /\ written \subseteq audit

NoTick == [due |-> FALSE, now |-> 0, late |-> {}]
NoCall == [picked |-> {}, bids |-> <<>>]

Init ==
  /\ StoreInit
  /\ loop = NoTick
  /\ view = [p \in Proposals |-> None]
  /\ solve = [a \in Auctions |-> NoCall]
  /\ settle = [a \in Auctions |-> [won |-> {}, fate |-> None]]
  /\ applying = {}
  /\ delivered = {}
  /\ crashes = 0
  /\ written = {}

\* The proposals whose bids the driver is settling for auction a.
Won(a) == {solve[a].bids[s] : s \in settle[a].won}

\* Proposal p's order was filled on chain.  Orders are fill-or-kill here.
Consumed(p) == \E a \in Auctions :
                 /\ settle[a].fate = "succeeded"
                 /\ \E q \in Won(a) : OrderOf[q] = OrderOf[p]

----------------------------------------------------------------------------
(* Sub-solvers: POST and DELETE.  Bound: deadlines lie below MaxTime. *)

Post(p, vu) == vu < MaxTime /\ Insert(p, vu) /\ UNCHANGED serviceVars

Delete(p, signer) == Cancel(p, signer) /\ UNCHANGED serviceVars

----------------------------------------------------------------------------
(* The validation loop. *)

\* Ticks do not overlap.  A tick takes its `now` and releases stale executions.
TickBegin ==
  /\ loop = NoTick
  /\ \A p \in Proposals : view[p] = None
  /\ loop' = [due |-> TRUE, now |-> clock, late |-> {}]
  /\ \/ ReleaseStaleExecuting
     \/ DbFaults /\ UNCHANGED storeVars
  /\ UNCHANGED <<view, solve, settle, applying, delivered, crashes, written>>

\* Only active proposals are read.
TickSnapshot_ActiveOnly ==
  /\ loop.due
  /\ view' = [p \in Proposals |-> IF row[p].status = "active" THEN "active" ELSE None]
  /\ loop' = [NoTick EXCEPT !.late = {p \in Proposals : /\ row[p].status = "active"
                                                        /\ row[p].validUntil < loop.now}]
  /\ UNCHANGED <<storeVars, solve, settle, applying, delivered, crashes, written>>

\* One snapshot of the live proposals; a failed read ends the tick.
TickSnapshot ==
  /\ loop.due
  /\ \/ /\ view' = [p \in Proposals |-> IF row[p].status \in Live
                                        THEN row[p].status ELSE None]
        /\ loop' = [NoTick EXCEPT !.late =
                       {p \in Proposals : /\ row[p].status \in Live
                                          /\ row[p].validUntil < loop.now}]
     \/ /\ DbFaults
        /\ loop' = NoTick
        /\ UNCHANGED view
  /\ UNCHANGED <<storeVars, solve, settle, applying, delivered, crashes, written>>

\* Expiry of the snapshot: a compare-and-swap from the status it saw.
TickExpire(p) ==
  /\ p \in loop.late
  /\ \/ Transition(p, view[p], "expired")
     \/ /\ DbFaults \/ row[p].status # view[p]
        /\ UNCHANGED storeVars
  /\ view' = [view EXCEPT ![p] = None]
  /\ loop' = [loop EXCEPT !.late = @ \ {p}]
  /\ UNCHANGED <<solve, settle, applying, delivered, crashes, written>>

\* After every expiry, the rest is simulated.  Simulating a consumed order
\* reverts.  None is the validator deferring its judgment to the next tick.
TickSimulate(p) ==
  /\ loop.late = {}
  /\ view[p] \in Live
  /\ \E v \in {"accept", "reject", "simFail", None} :
       /\ Consumed(p) => v # "accept"
       /\ view' = [view EXCEPT ![p] = v]
  /\ UNCHANGED <<storeVars, loop, solve, settle, applying, delivered, crashes, written>>

\* The verdict meets whatever the row has become; a lost race drops it.
TickResolve(p) ==
  /\ view[p] \in Verdicts
  /\ \/ ResolveVerdict(p, view[p])
     \/ /\ DbFaults \/ row[p].status \notin Live
        /\ UNCHANGED storeVars
  /\ view' = [view EXCEPT ![p] = None]
  /\ UNCHANGED <<loop, solve, settle, applying, delivered, crashes, written>>

Tick == \/ TickBegin \/ TickSnapshot
        \/ \E p \in Proposals : TickExpire(p) \/ TickSimulate(p) \/ TickResolve(p)

----------------------------------------------------------------------------
(* /solve. *)

Biddable(p, now) == /\ row[p].status = "active"
                    /\ row[p].validUntil > now
                    /\ row[p].simulated

\* One read of the active rows, at any time after the call took its `now`, then
\* at most one pick per order: the best score, or nobody when no candidate
\* scores.  A driver that restarted asks again for an auction it has not acted
\* on.  Assumed: it does so only once its earlier call is over.
SolveRead(a) ==
  /\ solve[a].picked = {}
  /\ settle[a].fate = None
  /\ \E now \in 0 .. clock, picked \in SUBSET Proposals :
       /\ \A p \in picked : Biddable(p, now)
       /\ \A p, q \in picked : OrderOf[p] = OrderOf[q] => p = q
       /\ solve' = [solve EXCEPT ![a] = [picked |-> picked, bids |-> <<>>]]
  /\ UNCHANGED <<storeVars, loop, view, settle, applying, delivered, crashes, written>>

\* The bid is returned whether or not it could be recorded.
SolveRecord_BidAnyway(a, p) ==
  LET id == Len(solve[a].bids) + 1
  IN /\ p \in solve[a].picked
     /\ id \in SolutionIds
     /\ solve' = [solve EXCEPT ![a].picked = @ \ {p}, ![a].bids = Append(@, p)]
     /\ RecordSolution(a, id, p) \/ (DbFaults /\ UNCHANGED storeVars)
     /\ UNCHANGED <<loop, view, settle, applying, delivered, crashes, written>>

\* Record the next pick under the next solution id, then bid it.  A bid that
\* cannot be recorded is dropped and its id is used again: the row is gone,
\* or the call failed, after its commit or before it.  Bound: SolutionIds.
SolveRecord(a, p) ==
  LET id == Len(solve[a].bids) + 1
      Took(bids) == solve' = [solve EXCEPT ![a].picked = @ \ {p}, ![a].bids = bids]
  IN /\ p \in solve[a].picked
     /\ id \in SolutionIds
     /\ \/ RecordSolution(a, id, p) /\ Took(Append(solve[a].bids, p))
        \/ DbFaults /\ RecordSolution(a, id, p) /\ Took(solve[a].bids)
        \/ /\ DbFaults \/ ~ Exists(p)
           /\ UNCHANGED storeVars
           /\ Took(solve[a].bids)
     /\ UNCHANGED <<loop, view, settle, applying, delivered, crashes, written>>

----------------------------------------------------------------------------
(* The driver and the chain (external). *)

\* The response is back once every pick is handled.  The driver wins with some
\* of the bids, merged into one settlement, or never acts on them.
DriverSubmit(a) ==
  /\ solve[a].picked = {}
  /\ settle[a].fate = None
  /\ \E S \in SUBSET (1 .. Len(solve[a].bids)) :
       /\ S # {}
       /\ settle' = [settle EXCEPT ![a] = [won |-> S, fate |-> "started"]]
  /\ UNCHANGED <<storeVars, loop, view, solve, applying, delivered, crashes, written>>

\* The settlement lands, reverts, or is given up.  An order is filled once.
DriverOutcome(a) ==
  /\ settle[a].fate = "started"
  /\ \E o \in Outcomes \ {"started"} :
       /\ o = "succeeded" =>
            \A p \in Won(a) : ~ Consumed(p)
       /\ settle' = [settle EXCEPT ![a].fate = o]
  /\ UNCHANGED <<storeVars, loop, view, solve, applying, delivered, crashes, written>>

\* The proposals a notification is about.  A lookup that fails finds none: to
\* the tables it is a notification that never came.
Attributed(a) == SolutionProposals(a, settle[a].won)

\* A notification reaches /notify at any time after what it reports, in any
\* order, or never.
Notify(a, o) ==
  /\ settle[a].fate # None
  /\ o \in {"started", settle[a].fate}
  /\ Duplicates \/ <<a, o>> \notin delivered
  /\ applying' = applying \cup
       {[auction |-> a, proposal |-> p, outcome |-> o] :
          p \in Attributed(a)}
  /\ delivered' = IF Duplicates THEN delivered ELSE delivered \cup {<<a, o>>}
  /\ UNCHANGED <<storeVars, loop, view, solve, settle, crashes, written>>

----------------------------------------------------------------------------
(* /notify applies one attributed outcome: a transition, evidence that there
   was none to make, or nothing but a log line when the store failed.
   Bound: a start is applied while its timeout still fits below MaxTime. *)

\* An outcome that was applied is applied again.
NotifyApply_Retried(n) ==
  /\ n.outcome = "started" => clock + ExecutingTimeout < MaxTime
  /\ ApplySettlementOutcome(n.proposal, n.outcome, n.auction)
  /\ UNCHANGED serviceVars

NotifyApply(n) ==
  /\ n.outcome = "started" => clock + ExecutingTimeout < MaxTime
  /\ applying' = applying \ {n}
  /\ \/ ApplySettlementOutcome(n.proposal, n.outcome, n.auction)
     \/ /\ Exists(n.proposal)
        /\ row[n.proposal].status \notin LegalFrom(n.outcome)
        /\ NoteDriverNotification(n.proposal, n.outcome)
     \/ /\ DbFaults \/ ~ Exists(n.proposal)
        /\ UNCHANGED storeVars
  /\ UNCHANGED <<loop, view, solve, settle, delivered, crashes, written>>

----------------------------------------------------------------------------
(* The other loops: a landed debit is recorded (PenaltyLoop has the rest),
   and the retention sweep. *)

Debited ==
  /\ \/ \E p \in Proposals : RecordPenalty(p)
     \/ \E i \in 1 .. Len(penalties) :
          ~ penalties[i].paid /\ RecordNonSettlementDebit(i)
  /\ UNCHANGED serviceVars

Sweep == SweepDropped /\ UNCHANGED serviceVars

\* The audit writer (AuditTrail has its queue and its retries) inserts evidence.
Write(e) ==
  /\ e \in audit \ written
  /\ written' = written \cup {e}
  /\ UNCHANGED <<storeVars, loop, view, solve, settle, applying, delivered, crashes>>

\* The process dies and starts again: calls and loops lose what they hold, and
\* the channel what the writer had not inserted.
Crash ==
  /\ crashes < MaxCrashes
  /\ crashes' = crashes + 1
  /\ loop' = NoTick
  /\ view' = [p \in Proposals |-> None]
  /\ solve' = [a \in Auctions |-> IF solve[a].picked = {} THEN solve[a]
                                  ELSE NoCall]
  /\ applying' = {}
  /\ audit' = written
  /\ UNCHANGED <<clock, row, penalties, solutions, settle, delivered, written>>

\* What happens between two deaths, but for the recording of debits.
Served ==
  \/ AdvanceClock /\ UNCHANGED serviceVars
  \/ \E p \in Proposals, vu \in 0 .. MaxTime : Post(p, vu)
  \/ \E p \in Proposals, signer \in Signers : Delete(p, signer)
  \/ Tick
  \/ \E a \in Auctions : \/ SolveRead(a)
                         \/ \E p \in Proposals : SolveRecord(a, p)
                         \/ DriverSubmit(a) \/ DriverOutcome(a)
                         \/ \E o \in Outcomes : Notify(a, o)
  \/ \E n \in applying : NotifyApply(n)
  \/ Sweep
  \/ \E e \in audit : Write(e)

Next == Served \/ Debited \/ Crash

Spec == Init /\ [][Next]_vars

\* The loops are spawned for the life of the process and tick every period;
\* a tick's awaits return: an assumption about the node, the orderbook and the
\* database, whose calls a tick makes without a timeout of its own.  Crashes are
\* bounded.  Nothing is assumed of the driver, sub-solvers, /notify or what the
\* validator answers.
Fairness ==
  /\ WF_vars(AdvanceClock /\ UNCHANGED serviceVars)
  /\ WF_vars(TickBegin) /\ WF_vars(TickSnapshot)
  /\ \A p \in Proposals : /\ WF_vars(TickExpire(p))
                           /\ WF_vars(TickSimulate(p))
                           /\ WF_vars(TickResolve(p))
  /\ WF_vars(Sweep)

FairSpec == Spec /\ Fairness

----------------------------------------------------------------------------
(* Properties. *)

\* A returned bid can be attributed: its (auction, solution id) names the very
\* proposal it was built on until that proposal is swept, although ids are
\* re-used after dropped bids and re-run auctions (storage.rs, 842-848).
AttributionExact ==
  \A a \in Auctions :
    \A s \in 1 .. Len(solve[a].bids) :
      LET p == solve[a].bids[s]
      IN SolutionProposals(a, {s}) = IF Exists(p) THEN {p} ELSE {}

\* Money follows the chain: a proposal is settled, owed or charged only for a
\* settlement that ended so on chain, and only if its own bid was part of it.
MoneyFollowsChain ==
  \A p \in Proposals : row[p].status \in Money =>
    LET a == row[p].settlementTx
    IN /\ settle[a].fate = IF row[p].status = "settled" THEN "succeeded"
                                                        ELSE "reverted"
       /\ p \in Won(a)

\* A proposal is frozen only while it is part of a settlement the driver began.
ExecutingWasWon ==
  \A p \in Proposals : row[p].status = "executing" =>
    \E a \in Auctions : settle[a].fate # None /\ p \in Won(a)

\* One lost settlement queues at most one charge per proposal in it.
OneChargePerLoss ==
  \A p \in Proposals :
    Cardinality({i \in 1 .. Len(penalties) : penalties[i].proposal = p})
      <= Cardinality({a \in Auctions : settle[a].fate = "abandoned" /\ p \in Won(a)})

\* A revert of auction a on its way to proposal p, and its report in the trail.
OnItsWay(a, p) == [auction |-> a, proposal |-> p, outcome |-> "reverted"]
Noted(p)       == [proposal |-> p, report |-> "reverted"]

\* What became of the revert of auction a for winner p, once it was delivered.
Accounted(a, p) ==
  \/ row[p].status = "gone"
  \/ OnItsWay(a, p) \in applying
  \/ row[p].settlementTx = a
  \/ Noted(p) \in audit

Traced(a, p) == <<a, "reverted">> \in delivered /\ p \in Won(a) => Accounted(a, p)

\* No database call fails, and the instance keeps the reports not acted on.
Reliable == ~ DbFaults /\ "reverted" \in Tracked

\* A revert the driver reported is never lost without a trace: once /notify is
\* done with it, each of its proposals owes the debit, or the trail holds the
\* report that was not acted on, or the row was swept before it arrived.
RevertAccounted ==
  \A a \in Auctions : <<a, "reverted">> \in delivered =>
    \A p \in Won(a) : Accounted(a, p)

\* However often the process dies, while the database answers: a delivered
\* revert loses its trace only to a death that finds it attributed and not yet
\* applied, or noted and not yet written by the audit writer (audit.rs, 1-3).
RevertsOutlive ==
  [][\A a \in Auctions, p \in Proposals :
       Reliable /\ Traced(a, p) /\ ~ Traced(a, p)' =>
         /\ Crash
         /\ \/ OnItsWay(a, p) \in applying
            \/ Noted(p) \in audit \ written]_vars

\* Submissions and settlements in flight do not linger: every proposal that is
\* live or executing eventually leaves for good, whatever the driver does or
\* fails to report (ADR-0013: timeout backstop and validUntil).
InPlay(p) == row[p].status \in Live \cup {"executing"}
PlayEnds  == \A p \in Proposals : InPlay(p) ~> [] ~ InPlay(p)

\* Dropped proposals are eventually deleted, if the clock allows.
DroppedSwept ==
  \A p \in Proposals :
    (row[p].status \in Dropped /\ row[p].since + Retention < MaxTime)
      ~> row[p].status = "gone"
=============================================================================
