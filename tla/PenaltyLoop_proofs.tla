------------------------ MODULE PenaltyLoop_proofs ------------------------
(***************************************************************************)
(* ChargesBounded and PaidWasCharged hold for every cap, every set of      *)
(* debts and every number of restarts and lost writes.  The invariant says *)
(* what the memory of the loop still has to do with the chain: how much    *)
(* may have been sent beyond what earlier epochs account for.              *)
(***************************************************************************)
EXTENDS PenaltyLoop, TLAPS

\* The loop handles one debt it read as owed and has not given up on.
AtHand ==
  /\ step = "pick" <=> cur = NoDebt
  /\ step # "pick" => cur \in todo
  /\ step \in {"debit", "sent", "mined", "failed"} => attempts[cur] < Cap
  /\ step \in {"mined", "record"} => landed[cur] > 0
  /\ step = "record" => attempts[cur] = 0
  /\ \A d \in todo : debt[d] = "owed"

\* What the running epoch may have sent for debt d.
Allowed(d) ==
  IF debt[d] = "paid" \/ (cur = d /\ step = "record") THEN Cap
  ELSE IF cur = d /\ step = "mined" THEN attempts[d] + 1
  ELSE attempts[d]

Budget == \A d \in Debts :
            Sent(d) <= Cap * (restarts + misses[d]) + Allowed(d)

IInv == PenaltyTypeOK /\ AtHand /\ Budget /\ PaidWasCharged

----------------------------------------------------------------------------
\* The variables keep their types.
LEMMA TypeStep ==
  ASSUME PenaltyTypeOK, AtHand, [Next]_vars
  PROVE  PenaltyTypeOK'
<1> USE PenaltyAssumption DEF PenaltyTypeOK, Steps, Sweeps, AtHand
<1>1. ASSUME NEW s \in Sweeps, Snapshot(s)
             PROVE  PenaltyTypeOK'
  BY <1>1 DEF Snapshot, Advance, Pending, Kind, loopVars, chainVars, histVars
<1>2. ASSUME NEW s \in Sweeps, ReadFailed(s)
             PROVE  PenaltyTypeOK'
  BY <1>2 DEF ReadFailed, Advance, loopVars, chainVars, histVars
<1>3. CASE TickEnd
  BY <1>3 DEF TickEnd, loopVars, chainVars, histVars
<1>4. ASSUME NEW d \in Debts, Skip(d)
             PROVE  PenaltyTypeOK'
  BY <1>4 DEF Skip, Parked, loopVars, chainVars, histVars
<1>5. ASSUME NEW d \in Debts, Price(d)
             PROVE  PenaltyTypeOK'
  BY <1>5 DEF Price, Parked, GiveUp, Inc, loopVars, chainVars, histVars
<1>6. CASE Send
  BY <1>6 DEF Send, GiveUp, Inc, loopVars, chainVars, histVars
<1>7. CASE TimedOut
  BY <1>7 DEF TimedOut, GiveUp, Inc, loopVars, chainVars, histVars
<1>8. CASE Refused
  BY <1>8 DEF Refused, GiveUp, Inc, loopVars, chainVars, histVars
<1>9. CASE Confirmed
  BY <1>9 DEF Confirmed, loopVars, chainVars, histVars
<1>10. CASE Record
  BY <1>10 DEF Record, Inc, loopVars, chainVars, histVars
<1>11. CASE Mine
  BY <1>11 DEF Mine, Inc, loopVars, chainVars, histVars
<1>12. ASSUME NEW d \in Debts, Owe(d)
             PROVE  PenaltyTypeOK'
  BY <1>12 DEF Owe, loopVars, chainVars, histVars
<1>13. ASSUME NEW d \in Debts, StrayMined(d)
             PROVE  PenaltyTypeOK'
  BY <1>13 DEF StrayMined, Inc, Dec, loopVars, chainVars, histVars
<1>14. CASE Restart
  BY <1>14 DEF Restart, Inc, loopVars, chainVars, histVars
<1>15. CASE UNCHANGED vars
  BY <1>15 DEF vars, loopVars, chainVars, histVars, loopVars, chainVars, histVars
<1>16. QED
  BY <1>1, <1>2, <1>3, <1>4, <1>5, <1>6, <1>7, <1>8, <1>9, <1>10, <1>11, <1>12, <1>13, <1>14, <1>15 DEF Next, Loop

\* The loop's hand stays on a debt that is owed and below the cap.
LEMMA AtHandStep ==
  ASSUME PenaltyTypeOK, AtHand, [Next]_vars
  PROVE  AtHand'
<1> USE PenaltyAssumption DEF PenaltyTypeOK, Steps, Sweeps, AtHand
<1>1. ASSUME NEW s \in Sweeps, Snapshot(s)
             PROVE  AtHand'
  BY <1>1 DEF Snapshot, Advance, Pending, Kind, loopVars, chainVars, histVars
<1>2. ASSUME NEW s \in Sweeps, ReadFailed(s)
             PROVE  AtHand'
  BY <1>2 DEF ReadFailed, Advance, loopVars, chainVars, histVars
<1>3. CASE TickEnd
  BY <1>3 DEF TickEnd, loopVars, chainVars, histVars
<1>4. ASSUME NEW d \in Debts, Skip(d)
             PROVE  AtHand'
  BY <1>4 DEF Skip, Parked, loopVars, chainVars, histVars
<1>5. ASSUME NEW d \in Debts, Price(d)
             PROVE  AtHand'
  BY <1>5 DEF Price, Parked, GiveUp, Inc, loopVars, chainVars, histVars
<1>6. CASE Send
  BY <1>6 DEF Send, GiveUp, Inc, loopVars, chainVars, histVars
<1>7. CASE TimedOut
  BY <1>7 DEF TimedOut, GiveUp, Inc, loopVars, chainVars, histVars
<1>8. CASE Refused
  BY <1>8 DEF Refused, GiveUp, Inc, loopVars, chainVars, histVars
<1>9. CASE Confirmed
  BY <1>9 DEF Confirmed, loopVars, chainVars, histVars
<1>10. CASE Record
  BY <1>10 DEF Record, Inc, loopVars, chainVars, histVars
<1>11. CASE Mine
  BY <1>11 DEF Mine, Inc, loopVars, chainVars, histVars
<1>12. ASSUME NEW d \in Debts, Owe(d)
             PROVE  AtHand'
  BY <1>12 DEF Owe, loopVars, chainVars, histVars
<1>13. ASSUME NEW d \in Debts, StrayMined(d)
             PROVE  AtHand'
  BY <1>13 DEF StrayMined, Inc, Dec, loopVars, chainVars, histVars
<1>14. CASE Restart
  BY <1>14 DEF Restart, Inc, loopVars, chainVars, histVars
<1>15. CASE UNCHANGED vars
  BY <1>15 DEF vars, loopVars, chainVars, histVars, loopVars, chainVars, histVars
<1>16. QED
  BY <1>1, <1>2, <1>3, <1>4, <1>5, <1>6, <1>7, <1>8, <1>9, <1>10, <1>11, <1>12, <1>13, <1>14, <1>15 DEF Next, Loop

\* Only a landed debit is written off.
LEMMA PaidStep ==
  ASSUME PenaltyTypeOK, AtHand, PaidWasCharged, [Next]_vars
  PROVE  PaidWasCharged'
<1> USE PenaltyAssumption DEF PenaltyTypeOK, Steps, Sweeps, AtHand, PaidWasCharged
<1>1. ASSUME NEW s \in Sweeps, Snapshot(s)
             PROVE  PaidWasCharged'
  BY <1>1 DEF Snapshot, Advance, Pending, Kind, loopVars, chainVars, histVars
<1>2. ASSUME NEW s \in Sweeps, ReadFailed(s)
             PROVE  PaidWasCharged'
  BY <1>2 DEF ReadFailed, Advance, loopVars, chainVars, histVars
<1>3. CASE TickEnd
  BY <1>3 DEF TickEnd, loopVars, chainVars, histVars
<1>4. ASSUME NEW d \in Debts, Skip(d)
             PROVE  PaidWasCharged'
  BY <1>4 DEF Skip, Parked, loopVars, chainVars, histVars
<1>5. ASSUME NEW d \in Debts, Price(d)
             PROVE  PaidWasCharged'
  BY <1>5 DEF Price, Parked, GiveUp, Inc, loopVars, chainVars, histVars
<1>6. CASE Send
  BY <1>6 DEF Send, GiveUp, Inc, loopVars, chainVars, histVars
<1>7. CASE TimedOut
  BY <1>7 DEF TimedOut, GiveUp, Inc, loopVars, chainVars, histVars
<1>8. CASE Refused
  BY <1>8 DEF Refused, GiveUp, Inc, loopVars, chainVars, histVars
<1>9. CASE Confirmed
  BY <1>9 DEF Confirmed, loopVars, chainVars, histVars
<1>10. CASE Record
  BY <1>10 DEF Record, Inc, loopVars, chainVars, histVars
<1>11. CASE Mine
  BY <1>11 DEF Mine, Inc, loopVars, chainVars, histVars
<1>12. ASSUME NEW d \in Debts, Owe(d)
             PROVE  PaidWasCharged'
  BY <1>12 DEF Owe, loopVars, chainVars, histVars
<1>13. ASSUME NEW d \in Debts, StrayMined(d)
             PROVE  PaidWasCharged'
  BY <1>13 DEF StrayMined, Inc, Dec, loopVars, chainVars, histVars
<1>14. CASE Restart
  BY <1>14 DEF Restart, Inc, loopVars, chainVars, histVars
<1>15. CASE UNCHANGED vars
  BY <1>15 DEF vars, loopVars, chainVars, histVars, loopVars, chainVars, histVars
<1>16. QED
  BY <1>1, <1>2, <1>3, <1>4, <1>5, <1>6, <1>7, <1>8, <1>9, <1>10, <1>11, <1>12, <1>13, <1>14, <1>15 DEF Next, Loop

\* Forgetting the attempts opens a new epoch, worth one more cap.
LEMMA Epoch ==
  \A r, m \in Nat : /\ Cap * ((r + 1) + m) = Cap * (r + m) + Cap
                    /\ Cap * (r + (m + 1)) = Cap * (r + m) + Cap
                    /\ Cap * (r + m) \in Nat
  BY PenaltyAssumption

\* No step sends more than the epochs so far allow.
LEMMA BudgetStep ==
  ASSUME PenaltyTypeOK, AtHand, Budget, [Next]_vars
  PROVE  Budget'
<1> USE PenaltyAssumption, Epoch
    DEF PenaltyTypeOK, Steps, AtHand, Budget, Allowed, Sent,
        loopVars, chainVars, histVars
<1>1. ASSUME NEW s \in Sweeps, Snapshot(s)
             PROVE  Budget'
  BY <1>1 DEF Snapshot, Advance
<1>2. ASSUME NEW s \in Sweeps, ReadFailed(s)
             PROVE  Budget'
  BY <1>2 DEF ReadFailed, Advance
<1>3. CASE TickEnd
  BY <1>3 DEF TickEnd
<1>4. ASSUME NEW d \in Debts, Skip(d)
             PROVE  Budget'
  BY <1>4 DEF Skip
<1>5. ASSUME NEW d \in Debts, Price(d)
             PROVE  Budget'
  BY <1>5 DEF Price, Parked, GiveUp, Inc
<1>6. CASE Send
  BY <1>6 DEF Send, GiveUp, Inc
<1>7. CASE TimedOut
  BY <1>7 DEF TimedOut, GiveUp, Inc
<1>8. CASE Refused
  BY <1>8 DEF Refused, GiveUp, Inc
<1>9. CASE Confirmed
  BY <1>9 DEF Confirmed
<1>10. CASE Record
  BY <1>10 DEF Record, Inc
<1>11. CASE Mine
  BY <1>11 DEF Mine, Inc
<1>12. ASSUME NEW d \in Debts, Owe(d)
             PROVE  Budget'
  BY <1>12 DEF Owe
<1>13. ASSUME NEW d \in Debts, StrayMined(d)
             PROVE  Budget'
  BY <1>13 DEF StrayMined, Inc, Dec
<1>14. CASE Restart
  BY <1>14 DEF Restart, Inc
<1>15. CASE UNCHANGED vars
  BY <1>15 DEF vars
<1>16. QED
  BY <1>1, <1>2, <1>3, <1>4, <1>5, <1>6, <1>7, <1>8, <1>9, <1>10, <1>11, <1>12, <1>13, <1>14, <1>15 DEF Next, Loop

----------------------------------------------------------------------------
\* The invariant holds in every reachable state.
THEOREM Invariant == Spec => []IInv
<1>1. Init => IInv
  BY PenaltyAssumption, Epoch
     DEF Init, IInv, PenaltyTypeOK, Steps, Sweeps, AtHand, Budget, Allowed, Sent,
         PaidWasCharged
<1>2. IInv /\ [Next]_vars => IInv'
  BY TypeStep, AtHandStep, BudgetStep, PaidStep DEF IInv
<1>3. QED
  BY <1>1, <1>2, PTL DEF Spec

\* Loop, chain and database keep their types; in particular the count that parks
\* a debt never passes the cap (penalty.rs: DebitAttempts), restart or not.
THEOREM PenaltyTyped == Spec => []PenaltyTypeOK
  BY Invariant, PTL DEF IInv

\* A debt is only written off against a debit that landed, however the loop,
\* the chain and the database fall out of step.
THEOREM DebtsPaid == Spec => []PaidWasCharged
  BY Invariant, PTL DEF IInv

\* What is allowed in the running epoch is at most one more cap.
LEMMA AllowedCap == ASSUME PenaltyTypeOK, AtHand, NEW d \in Debts
                    PROVE  Allowed(d) <= Cap
  BY PenaltyAssumption DEF PenaltyTypeOK, AtHand, Allowed

\* The true bound on double charges: the cap per epoch, not the cap.
THEOREM DebitsBounded == Spec => []ChargesBounded
<1>1. IInv => ChargesBounded
  <2> SUFFICES ASSUME IInv, NEW d \in Debts
               PROVE  Sent(d) <= Cap * Epochs(d)
    BY DEF ChargesBounded, IInv
  <2>1. Cap * Epochs(d) = Cap * (restarts + misses[d]) + Cap
    BY PenaltyAssumption, Epoch DEF Epochs, IInv, PenaltyTypeOK
  <2>2. Sent(d) <= Cap * (restarts + misses[d]) + Allowed(d)
    BY DEF IInv, Budget
  <2>3. Allowed(d) <= Cap
    BY AllowedCap DEF IInv
  <2>4. QED
    BY <2>1, <2>2, <2>3, PenaltyAssumption, Epoch
       DEF IInv, PenaltyTypeOK, Allowed, Sent
<1>2. QED
  BY Invariant, <1>1, PTL

\* While the process neither restarts nor loses a write, the bound the code
\* states (operator.rs, 18-20) is the bound, late landings included.
CapUndisturbed ==
  \A d \in Debts : restarts = 0 /\ misses[d] = 0 => Sent(d) <= Cap

\* The stated bound, for the debts nothing disturbed.
THEOREM CapHolds == Spec => []CapUndisturbed
<1>1. IInv => CapUndisturbed
  <2> SUFFICES ASSUME IInv, NEW d \in Debts, restarts = 0, misses[d] = 0
               PROVE  Sent(d) <= Cap
    BY DEF CapUndisturbed
  <2>1. Cap * (restarts + misses[d]) = 0
    BY PenaltyAssumption
  <2>2. Sent(d) <= Cap * (restarts + misses[d]) + Allowed(d)
    BY DEF IInv, Budget
  <2>3. Allowed(d) <= Cap
    BY AllowedCap DEF IInv
  <2>4. QED
    BY <2>1, <2>2, <2>3, PenaltyAssumption
       DEF IInv, PenaltyTypeOK, Allowed, Sent
<1>2. QED
  BY Invariant, <1>1, PTL

----------------------------------------------------------------------------
(* Which debts are debited. *)

\* Only the debt at hand is sent another debit, and the loop takes a debt in
\* hand only by pricing it.
LEMMA SentBy ==
  ASSUME PenaltyTypeOK, AtHand, [Next]_vars, NEW d \in Debts
  PROVE  /\ Sent(d)' > 0 => Sent(d) > 0 \/ (cur = d /\ step # "pick")
         /\ cur' = d /\ step' # "pick" =>
              \/ cur = d /\ step # "pick"
              \/ Price(d) /\ step' = "debit"
<1> USE PenaltyAssumption
    DEF PenaltyTypeOK, Steps, AtHand, Sent, loopVars, chainVars, histVars
<1> DEFINE Goal == /\ Sent(d)' > 0 => Sent(d) > 0 \/ (cur = d /\ step # "pick")
                   /\ cur' = d /\ step' # "pick" =>
                        \/ cur = d /\ step # "pick"
                        \/ Price(d) /\ step' = "debit"
<1>1. ASSUME NEW s \in Sweeps, Snapshot(s) \/ ReadFailed(s)
      PROVE  Goal
  BY <1>1 DEF Snapshot, ReadFailed, Advance
<1>2. ASSUME TickEnd
      PROVE  Goal
  BY <1>2 DEF TickEnd
<1>3. ASSUME NEW e \in Debts, Skip(e)
      PROVE  Goal
  BY <1>3 DEF Skip
<1>4. ASSUME NEW e \in Debts, Price(e)
      PROVE  Goal
  <2>1. UNCHANGED <<landed, stray>>
    BY <1>4 DEF Price
  <2>2. \/ step' = "debit" /\ cur' = e
        \/ step' = "pick"
    BY <1>4 DEF Price, GiveUp
  <2>3. QED
    BY <1>4, <2>1, <2>2
<1>5. ASSUME Send \/ TimedOut \/ Refused
      PROVE  Goal
  BY <1>5 DEF Send, TimedOut, Refused, GiveUp, Inc
<1>6. ASSUME Confirmed \/ Record
      PROVE  Goal
  BY <1>6 DEF Confirmed, Record
<1>7. ASSUME Mine
      PROVE  Goal
  BY <1>7 DEF Mine, Inc
<1>8. ASSUME NEW e \in Debts, Owe(e)
      PROVE  Goal
  BY <1>8 DEF Owe
<1>9. ASSUME NEW e \in Debts, StrayMined(e)
      PROVE  Goal
  BY <1>9 DEF StrayMined, Inc, Dec
<1>10. ASSUME Restart
       PROVE  Goal
  BY <1>10 DEF Restart, Inc
<1>11. ASSUME UNCHANGED vars
       PROVE  Goal
  BY <1>11 DEF vars
<1> HIDE DEF Goal
<1>12. Goal
  BY <1>1, <1>2, <1>3, <1>4, <1>5, <1>6, <1>7, <1>8, <1>9, <1>10, <1>11, Zenon
     DEF Next, Loop
<1>13. QED
  BY <1>12 DEF Goal

\* Nothing is sent for what is not a debt (yet).
DebitsHaveDebts == \A d \in Debts : Sent(d) > 0 => debt[d] # "none"

\* A debt that appeared stays.
LEMMA DebtStays ==
  ASSUME PenaltyTypeOK, AtHand, [Next]_vars, NEW d \in Debts, debt[d] # "none"
  PROVE  debt'[d] # "none"
<1>1. debt' = debt \/ Record \/ \E e \in Debts : Owe(e)
  BY DEF Next, Loop, Snapshot, ReadFailed, Advance, TickEnd, Skip, Price, Send,
         TimedOut, Refused, Confirmed, Mine, GiveUp, StrayMined, Restart, vars
<1>2. QED
  BY <1>1 DEF Record, Owe, PenaltyTypeOK

\* The escrow is debited only for a revert or a loss that was reported, however
\* late the transactions land.
THEOREM OnlyDebtsDebited == Spec => []DebitsHaveDebts
<1>1. Init => DebitsHaveDebts
  BY DEF Init, DebitsHaveDebts, Sent
<1>2. IInv /\ DebitsHaveDebts /\ [Next]_vars => DebitsHaveDebts'
  <2> SUFFICES ASSUME IInv, DebitsHaveDebts, [Next]_vars,
                      NEW d \in Debts, Sent(d)' > 0
               PROVE  debt'[d] # "none"
    BY DEF DebitsHaveDebts
  <2>1. debt[d] # "none"
    BY SentBy DEF IInv, AtHand, DebitsHaveDebts
  <2>2. QED
    BY <2>1, DebtStays DEF IInv
<1>3. QED
  BY <1>1, <1>2, Invariant, PTL DEF Spec
=============================================================================
