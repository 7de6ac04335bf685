---------------------------- MODULE PenaltyLoop ----------------------------
(***************************************************************************)
(* The penalty loop (crates/byos/src/infra/penalty.rs) and the operator    *)
(* that sends its debits (infra/blockchain/operator.rs).  A debt is a      *)
(* SettleFailed proposal or a pending row of `penalties`; a tick debits    *)
(* the reverts, then the non-settlement charges, one at a time, and writes *)
(* down what landed.  The count that parks a failing debt lives in memory, *)
(* the debits live on chain, and the debt lives in the database: a crash,  *)
(* a late transaction or a failed write leaves the three disagreeing.      *)
(*                                                                         *)
(* Op_Mistake is Op with a mistake it could have contained.  Nothing uses  *)
(* it: it takes the place of Op when the properties are put to test.       *)
(***************************************************************************)
EXTENDS Integers, FiniteSets

CONSTANTS
  Debts,         \* ids of debts
  Reverts,       \* those of reverted settlements; the rest are non-settlements
  Cap,           \* MAX_DEBIT_ATTEMPTS
  NoDebt,        \* no debt is being handled
  MaxRestarts,   \* bound: restarts of the process
  MaxMisses      \* bound: failed writes per debt

ASSUME PenaltyAssumption ==
  /\ Reverts \subseteq Debts
  /\ NoDebt \notin Debts
  /\ Cap \in Nat \ {0}
  /\ MaxRestarts \in Nat
  /\ MaxMisses \in Nat

VARIABLES
  debt,       \* debt[d]: the database's view
  attempts,   \* attempts[d]: DebitAttempts, 0 when the map has no entry
  sweep,      \* which of the two sweeps of a tick runs
  todo,       \* the debts the sweep read and has not handled
  step,       \* where the sweep is with the debt at hand
  cur,        \* the debt at hand
  landed,     \* landed[d]: debits of d on chain
  stray,      \* stray[d]: debits of d sent, given up on, and not yet mined
  misses,     \* misses[d]: landed debits of d the database refused
  restarts    \* how often the process restarted

loopVars  == <<sweep, todo, step, cur>>
chainVars == <<landed, stray>>
histVars  == <<misses, restarts>>
vars      == <<debt, attempts, loopVars, chainVars, histVars>>

Sweeps == {"idle", "revert", "nonSettlement"}

\* "pick" the next debt, "debit" it (a revert's cost is known), wait for the
\* transaction ("sent" until it is mined), and "record" it.
Steps == {"pick", "debit", "sent", "mined", "failed", "record"}

PenaltyTypeOK ==
  /\ debt \in [Debts -> {"none", "owed", "paid"}]
  /\ attempts \in [Debts -> 0 .. Cap]
  /\ sweep \in Sweeps
  /\ todo \in SUBSET Debts
  /\ step \in Steps
  /\ cur \in Debts \cup {NoDebt}
  /\ landed \in [Debts -> Nat]
  /\ stray \in [Debts -> Nat]
  /\ misses \in [Debts -> Nat]
  /\ restarts \in Nat

Init ==
  /\ debt = [d \in Debts |-> "none"]
  /\ attempts = [d \in Debts |-> 0]
  /\ sweep = "idle" /\ todo = {} /\ step = "pick" /\ cur = NoDebt
  /\ landed = [d \in Debts |-> 0]
  /\ stray = [d \in Debts |-> 0]
  /\ misses = [d \in Debts |-> 0]
  /\ restarts = 0

Inc(f, d) == [f EXCEPT ![d] = @ + 1]
Dec(f, d) == [f EXCEPT ![d] = @ - 1]

\* A revert or an abandonment is reported to /notify.
Owe(d) ==
  /\ debt[d] = "none"
  /\ debt' = [debt EXCEPT ![d] = "owed"]
  /\ UNCHANGED <<attempts, loopVars, chainVars, histVars>>

----------------------------------------------------------------------------
(* Sweeps. *)

Kind(s)    == IF s = "revert" THEN Reverts ELSE Debts \ Reverts

\* Only reverts are ever read.
Pending_RevertsOnly(s) == {d \in Reverts : debt[d] = "owed"}

Pending(s) == {d \in Kind(s) : debt[d] = "owed"}

\* The next sweep of a tick starts when the last one has nothing left.
Advance(next) ==
  /\ \/ sweep = "idle" /\ next = "revert"
     \/ sweep = "revert" /\ next = "nonSettlement"
  /\ todo = {} /\ step = "pick"
  /\ sweep' = next
  /\ UNCHANGED <<debt, attempts, step, cur, chainVars, histVars>>

Snapshot(next)   == Advance(next) /\ todo' = Pending(next)
ReadFailed(next) == Advance(next) /\ todo' = {}

TickEnd ==
  /\ sweep = "nonSettlement" /\ todo = {} /\ step = "pick"
  /\ sweep' = "idle"
  /\ UNCHANGED <<debt, attempts, todo, step, cur, chainVars, histVars>>

\* One attempt too many.
Parked_Late(d) == attempts[d] > Cap

Parked(d) == attempts[d] >= Cap

Skip(d) ==
  /\ step = "pick" /\ d \in todo /\ Parked(d)
  /\ todo' = todo \ {d}
  /\ UNCHANGED <<debt, attempts, sweep, step, cur, chainVars, histVars>>

----------------------------------------------------------------------------
(* One debit. *)

\* A failed attempt is not counted.
GiveUp_Uncounted(d) ==
  /\ todo' = todo \ {d} /\ step' = "pick" /\ cur' = NoDebt
  /\ UNCHANGED <<debt, attempts, sweep, histVars>>

\* An attempt failed: it is counted, and the sweep goes on with the next debt.
GiveUp(d) ==
  /\ attempts' = Inc(attempts, d)
  /\ todo' = todo \ {d} /\ step' = "pick" /\ cur' = NoDebt
  /\ UNCHANGED <<debt, sweep, histVars>>

\* A revert is priced from the settlement's receipt first.
Price(d) ==
  /\ step = "pick" /\ d \in todo /\ ~ Parked(d)
  /\ \/ /\ step' = "debit" /\ cur' = d
        /\ UNCHANGED <<debt, attempts, sweep, todo, chainVars, histVars>>
     \/ /\ d \in Reverts
        /\ GiveUp(d) /\ UNCHANGED chainVars

\* The node takes the transaction, refuses it, or takes it and fails to say so.
Send ==
  /\ step = "debit"
  /\ \/ /\ step' = "sent"
        /\ UNCHANGED <<debt, attempts, sweep, todo, cur, chainVars, histVars>>
     \/ GiveUp(cur) /\ UNCHANGED chainVars
     \/ GiveUp(cur) /\ stray' = Inc(stray, cur) /\ UNCHANGED landed

\* The transaction waited for is mined, and debits the escrow or reverts.
Mine ==
  /\ step = "sent"
  /\ \/ step' = "mined" /\ landed' = Inc(landed, cur)
     \/ step' = "failed" /\ UNCHANGED landed
  /\ UNCHANGED <<debt, attempts, sweep, todo, cur, stray, histVars>>

\* Waiting is over: a receipt that says so, or the confirmation timeout, which
\* leaves the transaction to its own fate.
TimedOut ==
  /\ step = "sent"
  /\ GiveUp(cur) /\ stray' = Inc(stray, cur) /\ UNCHANGED landed

Refused ==
  /\ step \in {"failed", "mined"}     \* "mined": the receipt did not arrive
  /\ GiveUp(cur) /\ UNCHANGED chainVars

Confirmed ==
  /\ step = "mined"
  /\ step' = "record"
  /\ attempts' = [attempts EXCEPT ![cur] = 0]
  /\ UNCHANGED <<debt, sweep, todo, cur, chainVars, histVars>>

\* The landed debit is written down, or the write is lost.
Record ==
  /\ step = "record"
  /\ \/ debt' = [debt EXCEPT ![cur] = "paid"] /\ UNCHANGED misses
     \/ /\ misses[cur] < MaxMisses
        /\ misses' = Inc(misses, cur)
        /\ UNCHANGED debt
  /\ todo' = todo \ {cur} /\ step' = "pick" /\ cur' = NoDebt
  /\ UNCHANGED <<attempts, sweep, chainVars, restarts>>

----------------------------------------------------------------------------
(* What happens to the loop. *)

\* A transaction nobody waits for is mined after all, or never.
StrayMined(d) ==
  /\ stray[d] > 0
  /\ stray' = Dec(stray, d)
  /\ \/ landed' = Inc(landed, d)
     \/ UNCHANGED landed
  /\ UNCHANGED <<debt, attempts, loopVars, histVars>>

\* The process dies, or a shutdown aborts the loop, at any await.
Restart ==
  /\ restarts < MaxRestarts
  /\ restarts' = restarts + 1
  /\ attempts' = [d \in Debts |-> 0]
  /\ sweep' = "idle" /\ todo' = {} /\ step' = "pick" /\ cur' = NoDebt
  /\ \/ step \in {"debit", "sent"} /\ stray' = Inc(stray, cur)
     \/ step # "sent" /\ UNCHANGED stray
  /\ UNCHANGED <<debt, landed, misses>>

Loop ==
  \/ \E s \in Sweeps : Snapshot(s) \/ ReadFailed(s)
  \/ TickEnd
  \/ \E d \in Debts : Skip(d) \/ Price(d)
  \/ Send \/ TimedOut \/ Refused \/ Confirmed \/ Record

Next ==
  \/ Loop
  \/ Mine
  \/ \E d \in Debts : Owe(d) \/ StrayMined(d)
  \/ Restart

Spec == Init /\ [][Next]_vars

\* Ticks keep coming and each await returns (the confirmation wait has its
\* timeout); a database that fails reads answers one of them in the end.
Fairness ==
  /\ WF_vars(Loop)
  /\ \A s \in Sweeps : SF_vars(Snapshot(s))

FairSpec == Spec /\ Fairness

----------------------------------------------------------------------------
(* Properties. *)

PaidWasCharged == \A d \in Debts : debt[d] = "paid" => landed[d] > 0

Sent(d) == landed[d] + stray[d]
Epochs(d) == 1 + restarts + misses[d]

\* What a debt costs its sub-solver.  At least one debit that reached the chain
\* before it is written off; and at most, late transactions included, the cap,
\* once more for every restart and for every landed debit whose record was
\* lost, since each of these forgets the attempts made (penalty.rs, 35, 168).
ChargesBounded ==
  /\ PaidWasCharged
  /\ \A d \in Debts : Sent(d) <= Cap * Epochs(d)

\* operator.rs, 18-20: a late landing "double-charges - accepted, and bounded
\* by the loop's attempt cap".
ChargesWithinCap == \A d \in Debts : landed[d] <= Cap

\* A debt is not forgotten: it is eventually recorded as paid, or parked.
DebtsResolved == \A d \in Debts : debt[d] = "owed" ~> debt[d] = "paid" \/ Parked(d)
=============================================================================
