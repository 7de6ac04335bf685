--------------------------- MODULE ChargedService ---------------------------
(***************************************************************************)
(* The service and its penalty loop over the same tables.  ByosService has *)
(* a debit recorded at any time; PenaltyLoop has a debt appear at any      *)
(* time.  Here the debts the loop reads are the settleFailed rows and the  *)
(* pending charges that /notify writes, what it records is what the rest   *)
(* of the service sees, and one crash takes the memory of both.            *)
(*                                                                         *)
(* Op_Mistake is Op with a mistake, as in ProposalStore.                   *)
(***************************************************************************)
EXTENDS ByosService

CONSTANTS
  Cap,           \* MAX_DEBIT_ATTEMPTS
  MaxMisses      \* bound: failed records per debt

ASSUME ChargeAssumption ==
  /\ Cap \in Nat \ {0}
  /\ MaxMisses \in Nat

VARIABLES
  attempts, sweep, todo, step, cur, landed, stray, misses,   \* as in PenaltyLoop
  bill,          \* bill[p]: the settlement the sweep's read has for revert p
  priced         \* priced[p]: settlements whose cost was charged for revert p

debitVars == <<attempts, sweep, todo, step, cur, landed, stray, misses>>
chargedVars == <<vars, debitVars, bill, priced>>

RevertOf(p) == [kind |-> "revert", of |-> p]
LossOf(i)   == [kind |-> "loss", of |-> i]

Reverts == {RevertOf(p) : p \in Proposals}
Losses  == {LossOf(i) : i \in 1 .. MaxCharges}
Debts   == Reverts \cup Losses
NoDebt  == [kind |-> "none", of |-> 0]

\* Every row a settlement ended is read as owed.
RevertState_AnyEnd(s) == CASE s \in {"settled", "settleFailed"} -> "owed"
                           [] s = "penalized"                  -> "paid"
                           [] OTHER                            -> "none"

RevertState(s) == CASE s = "settleFailed" -> "owed"
                    [] s = "penalized"    -> "paid"
                    [] OTHER              -> "none"

LossState(i) == IF i > Len(penalties) THEN "none"
                ELSE IF penalties[i].paid THEN "paid" ELSE "owed"

\* The tables as the loop sees them.
DebtTable == [d \in Debts |-> IF d.kind = "revert" THEN RevertState(row[d.of].status)
                                                   ELSE LossState(d.of)]

L == INSTANCE PenaltyLoop WITH debt <- DebtTable, restarts <- crashes,
                               MaxRestarts <- MaxCrashes

ChargedInit ==
  /\ Init
  /\ L!Init
  /\ bill = [p \in Proposals |-> NoTx]
  /\ priced = [p \in Proposals |-> {}]

----------------------------------------------------------------------------
(* The loop reads the tables. *)

TickReads(s) ==
  /\ UNCHANGED <<vars, priced>>
  /\ L!Snapshot(s)
  /\ bill' = [p \in Proposals |-> IF RevertOf(p) \in todo' THEN row[p].settlementTx
                                                           ELSE NoTx]

\* A revert without the settlement that caused it is not debited.
Billed(d) == d.kind = "revert" => bill[d.of] # NoTx

Skip(d) ==
  /\ step = "pick" /\ d \in todo
  /\ L!Parked(d) \/ ~ Billed(d)
  /\ todo' = todo \ {d}
  /\ UNCHANGED <<vars, attempts, sweep, step, cur, landed, stray, misses, bill, priced>>

\* The cost of the settlement the read cited is what the debit charges.
Price(d) ==
  /\ UNCHANGED <<vars, bill>>
  /\ Billed(d)
  /\ L!Price(d)
  /\ priced' = [p \in Proposals |-> IF d = RevertOf(p) /\ step' = "debit"
                                    THEN priced[p] \cup {bill[p]} ELSE priced[p]]

\* The steps between the loop and the chain touch no table.
LoopMoves ==
  /\ UNCHANGED <<vars, bill, priced>>
  /\ \/ \E s \in L!Sweeps : L!ReadFailed(s)
     \/ L!TickEnd
     \/ L!Send \/ L!Mine \/ L!TimedOut \/ L!Refused \/ L!Confirmed
     \/ \E d \in Debts : L!StrayMined(d)

\* What landed is written to the row or the charge, or the write is lost.
RecordDebit ==
  /\ step = "record"
  /\ \/ /\ \/ \E p \in Proposals : cur = RevertOf(p) /\ RecordPenalty(p)
           \/ \E i \in 1 .. Len(penalties) :
                cur = LossOf(i) /\ RecordNonSettlementDebit(i)
        /\ UNCHANGED <<serviceVars, misses>>
     \/ /\ misses[cur] < MaxMisses
        /\ misses' = [misses EXCEPT ![cur] = @ + 1]
        /\ UNCHANGED vars
  /\ todo' = todo \ {cur} /\ step' = "pick" /\ cur' = NoDebt
  /\ UNCHANGED <<attempts, sweep, landed, stray, bill, priced>>

\* The process dies, and the loop with it.
Died ==
  /\ Crash
  /\ L!Restart
  /\ bill' = [p \in Proposals |-> NoTx]
  /\ UNCHANGED priced

ChargedNext ==
  \/ Served /\ UNCHANGED <<debitVars, bill, priced>>
  \/ \E s \in L!Sweeps : TickReads(s)
  \/ \E d \in Debts : Skip(d) \/ Price(d)
  \/ LoopMoves
  \/ RecordDebit
  \/ Died

ChargedSpec == ChargedInit /\ [][ChargedNext]_chargedVars

----------------------------------------------------------------------------
(* Properties. *)

\* The loop meets no debt it was not written for, however notifications,
\* releases and sweeps move the rows under its snapshot: a debt appears once,
\* stays owed until the loop records it, and is never forgiven (penalty.rs, 86:
\* "the state is the queue").
LoopImplemented == L!Spec

\* Every debit sent for a revert charged the cost of one settlement, which did
\* revert on chain with the proposal's own bid in it; every debit sent for a
\* loss is for a queued charge of a proposal the driver gave up on.
EscrowFollowsChain ==
  /\ \A p \in Proposals : L!Sent(RevertOf(p)) > 0 =>
       \E a \in Auctions : /\ priced[p] = {a}
                           /\ settle[a].fate = "reverted"
                           /\ p \in Won(a)
  /\ \A i \in 1 .. MaxCharges : L!Sent(LossOf(i)) > 0 =>
       /\ i <= Len(penalties)
       /\ \E a \in Auctions : /\ settle[a].fate = "abandoned"
                              /\ penalties[i].proposal \in Won(a)
=============================================================================
