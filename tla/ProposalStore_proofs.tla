------------------------ MODULE ProposalStore_proofs ------------------------
(***************************************************************************)
(* What the store guarantees for every set of proposals, auctions, signers *)
(* and hashes, every timeout and every bound: its types, its evidence      *)
(* columns, its attribution, its deadlines and the lifecycle it promises,  *)
(* whatever calls fail and however often its process dies; and, between    *)
(* failed calls and deaths, that the trail explains every row.             *)
(***************************************************************************)
EXTENDS ProposalStore, TLAPS

\* A death of the process loses what the audit channel holds, and no table.
Forgets == audit' \subseteq audit /\ UNCHANGED <<clock, row, penalties, solutions>>

\* The store in a process that may die at any time and starts again.
MortalNext == StoreNext \/ Forgets
MortalSpec == StoreInit /\ [][MortalNext]_storeVars

\* A store whose process never dies is one whose process may.
THEOREM StoreIsMortal == StoreSpec => MortalSpec
<1>1. [StoreNext]_storeVars => [MortalNext]_storeVars
  BY DEF MortalNext
<1>2. QED
  BY <1>1, PTL DEF StoreSpec, MortalSpec

\* A restamped row is a row, and keeps its other columns.
LEMMA MovedRow ==
  ASSUME clock \in Nat, NEW r \in Row, NEW to \in Status
  PROVE  /\ Moved(r, to) \in Row
         /\ Moved(r, to).status = to
         /\ Moved(r, to).since = clock
         /\ Moved(r, to).validUntil = r.validUntil
         /\ Moved(r, to).simulated = r.simulated
         /\ Moved(r, to).reason = r.reason
         /\ Moved(r, to).settlementTx = r.settlementTx
         /\ Moved(r, to).penaltyTx = r.penaltyTx
  BY DEF Row, Moved

\* Whatever the caller, rows stay rows.
LEMMA RowTypeStep ==
  ASSUME StoreTypeOK, [StoreNext]_storeVars
  PROVE  row' \in [Proposals -> Row]
<1> USE StoreAssumption DEF StoreTypeOK
<1>1. ASSUME NEW p \in Proposals, NEW r \in Row, row' = [row EXCEPT ![p] = r]
      PROVE  row' \in [Proposals -> Row]
  BY <1>1
<1>2. ASSUME NEW p \in Proposals, NEW vu \in 0 .. MaxTime, Insert(p, vu)
      PROVE  row' \in [Proposals -> Row]
  <2>1. Blank("submitted") \in Row
    BY DEF Blank, Row, Status, Live
  <2>2. vu \in Nat
    OBVIOUS
  <2>3. Posted(vu) \in Row
    BY <2>1, <2>2 DEF Row, Posted
  <2>4. QED
    BY <1>1, <1>2, <2>3 DEF Insert
<1>3. ASSUME NEW p \in Proposals, NEW from \in Live, Transition(p, from, "expired")
      PROVE  row' \in [Proposals -> Row]
  <2>1. Moved(row[p], "expired") \in Row
    BY MovedRow DEF Status, Dropped
  <2>2. QED
    BY <1>1, <1>3, <2>1 DEF Transition
<1>4. ASSUME NEW p \in Proposals, NEW v \in Verdicts, ResolveVerdict(p, v)
      PROVE  row' \in [Proposals -> Row]
  <2>1. VerdictStatus(v) \in Status
    BY DEF VerdictStatus, Status, Live, Dropped
  <2>2. Judged(row[p], v) \in Row
    BY <2>1 DEF Row, Judged
  <2>3. QED
    BY <1>1, <1>4, <2>2 DEF ResolveVerdict
<1>5. ASSUME NEW p \in Proposals, NEW signer \in Signers, Cancel(p, signer)
      PROVE  row' \in [Proposals -> Row]
  <2>1. Moved(row[p], "cancelled") \in Row
    BY MovedRow DEF Status, Dropped
  <2>2. QED
    BY <1>1, <1>5, <2>1 DEF Cancel
<1>6. ASSUME NEW p \in Proposals, NEW o \in Outcomes, NEW tx \in Tx,
             ApplySettlementOutcome(p, o, tx)
      PROVE  row' \in [Proposals -> Row]
  <2>1. OutcomeStatus(o) \in Status
    BY DEF OutcomeStatus, Outcomes, Status, Live, Money
  <2>2. Moved(row[p], OutcomeStatus(o)) \in Row
    BY <2>1, MovedRow
  <2>3. Resolved(row[p], o, tx) \in Row
    BY <2>2 DEF Row, Resolved
  <2>4. QED
    BY <1>1, <1>6, <2>3 DEF ApplySettlementOutcome
<1>7. ASSUME NEW p \in Proposals, RecordPenalty(p)
      PROVE  row' \in [Proposals -> Row]
  <2>1. Moved(row[p], "penalized") \in Row
    BY MovedRow DEF Status, Money
  <2>2. [Moved(row[p], "penalized") EXCEPT !.penaltyTx = TRUE] \in Row
    BY <2>1 DEF Row
  <2>3. QED
    BY <1>1, <1>7, <2>2 DEF RecordPenalty
<1>8. CASE ReleaseStaleExecuting
  <2>1. \A p \in Proposals : Moved(row[p], "active") \in Row
    BY MovedRow DEF Status, Live
  <2>2. QED
    BY <1>8, <2>1 DEF ReleaseStaleExecuting
<1>9. CASE SweepDropped
  <2>1. Blank("gone") \in Row
    BY DEF Blank, Row, NoRow
  <2>2. QED
    BY <1>9, <2>1 DEF SweepDropped
<1>10. CASE UNCHANGED row
  BY <1>10
<1>11. QED
  BY <1>2, <1>3, <1>4, <1>5, <1>6, <1>7, <1>8, <1>9, <1>10
     DEF StoreNext, AdvanceClock, NoteDriverNotification, RecordSolution,
         RecordNonSettlementDebit, storeVars

\* What the step lemma below says of the tables other than `proposals`.
TablesTypeOK ==
  /\ clock \in Nat
  /\ penalties \in Seq(Charge)
  /\ solutions \subseteq Solution
  /\ audit \subseteq Event \cup Notified

LEMMA EmitType ==
  ASSUME audit \subseteq Event \cup Notified,
         NEW p \in Proposals, NEW k \in Kinds, Emit(p, k)
  PROVE  audit' \subseteq Event \cup Notified
  BY DEF Emit, HandOver, Ev, Event

\* The other tables and the trail keep their types.
LEMMA TablesTypeStep ==
  ASSUME StoreTypeOK, [StoreNext]_storeVars
  PROVE  TablesTypeOK'
<1> USE StoreAssumption, EmitType
    DEF StoreTypeOK, TablesTypeOK, Kinds, Status
<1>1. CASE AdvanceClock
  BY <1>1 DEF AdvanceClock
<1>2. ASSUME NEW p \in Proposals, NEW vu \in 0 .. MaxTime, Insert(p, vu)
      PROVE  TablesTypeOK'
  BY <1>2 DEF Insert
<1>3. ASSUME NEW p \in Proposals, NEW from \in Live,
             Transition(p, from, "expired")
      PROVE  TablesTypeOK'
  BY <1>3 DEF Transition, Dropped
<1>4. ASSUME NEW p \in Proposals, NEW v \in Verdicts, ResolveVerdict(p, v)
      PROVE  TablesTypeOK'
  BY <1>4 DEF ResolveVerdict, VerdictStatus, Verdicts, Live, Dropped
<1>5. ASSUME NEW p \in Proposals, NEW signer \in Signers, Cancel(p, signer)
      PROVE  TablesTypeOK'
  BY <1>5 DEF Cancel, Dropped
<1>6. ASSUME NEW p \in Proposals, NEW o \in Outcomes, NEW tx \in Tx,
             ApplySettlementOutcome(p, o, tx)
      PROVE  TablesTypeOK'
  <2>1. EventType(row[p].status, OutcomeStatus(o)) \in Kinds
    BY DEF EventType, Outcomes, OutcomeStatus, Live, Money
  <2>2. audit' \subseteq Event \cup Notified
    BY <1>6, <2>1 DEF ApplySettlementOutcome
  <2>3. penalties' \in Seq(Charge)
    <3>1. [proposal |-> p, paid |-> FALSE] \in Charge
      BY DEF Charge
    <3>2. Append(penalties, [proposal |-> p, paid |-> FALSE]) \in Seq(Charge)
      BY <3>1
    <3>3. QED
      BY <1>6, <3>2 DEF ApplySettlementOutcome
  <2>4. QED
    BY <1>6, <2>2, <2>3 DEF ApplySettlementOutcome
<1>7. ASSUME NEW p \in Proposals, NEW report \in Reports,
             NoteDriverNotification(p, report)
      PROVE  TablesTypeOK'
  BY <1>7 DEF NoteDriverNotification, Notified
<1>8. ASSUME NEW p \in Proposals, RecordPenalty(p)
      PROVE  TablesTypeOK'
  BY <1>8 DEF RecordPenalty, Money
<1>9. ASSUME NEW p \in Proposals, NEW a \in Auctions, NEW s \in SolutionIds,
             RecordSolution(a, s, p)
      PROVE  TablesTypeOK'
  BY <1>9 DEF RecordSolution, Solution
<1>10. ASSUME NEW i \in 1 .. Len(penalties), RecordNonSettlementDebit(i)
      PROVE  TablesTypeOK'
  <2>1. penalties[i] \in Charge
    BY <1>10
  <2>2. [penalties[i] EXCEPT !.paid = TRUE] \in Charge
    BY <2>1 DEF Charge
  <2>3. penalties' \in Seq(Charge)
    BY <1>10, <2>2 DEF RecordNonSettlementDebit
  <2>4. audit' \subseteq Event \cup Notified
    BY <1>10, <2>1 DEF RecordNonSettlementDebit, Charge
  <2>5. QED
    BY <1>10, <2>3, <2>4 DEF RecordNonSettlementDebit
<1>11. CASE ReleaseStaleExecuting
  <2>1. \A p \in Proposals : Ev(p, "released") \in Event
    BY DEF Ev, Event, Live
  <2>2. audit' \subseteq Event \cup Notified
    BY <1>11, <2>1 DEF ReleaseStaleExecuting, HandOver
  <2>3. QED
    BY <1>11, <2>2 DEF ReleaseStaleExecuting
<1>12. CASE SweepDropped
  BY <1>12 DEF SweepDropped
<1>13. CASE UNCHANGED storeVars
  BY <1>13 DEF storeVars
<1>14. QED
  BY <1>1, <1>2, <1>3, <1>4, <1>5, <1>6, <1>7, <1>8, <1>9, <1>10,
     <1>11, <1>12, <1>13 DEF StoreNext

\* Types, as one invariant.
LEMMA TypeStep == StoreTypeOK /\ [MortalNext]_storeVars => StoreTypeOK'
<1>1. StoreTypeOK /\ [StoreNext]_storeVars => StoreTypeOK'
  BY RowTypeStep, TablesTypeStep DEF StoreTypeOK, TablesTypeOK
<1>2. StoreTypeOK /\ Forgets => StoreTypeOK'
  BY DEF Forgets, StoreTypeOK
<1>3. QED
  BY <1>1, <1>2 DEF MortalNext

LEMMA TypeInit == StoreInit => StoreTypeOK
  BY StoreAssumption
     DEF StoreInit, StoreTypeOK, Blank, Row, NoRow, Charge

\* Every reachable state of the store is well typed.
THEOREM StoreTyped == MortalSpec => []StoreTypeOK
  BY TypeInit, TypeStep, PTL DEF MortalSpec

----------------------------------------------------------------------------
(* What one step can make of one row. *)

Keep(r, new) ==
  \/ new = r
  \/ /\ r.status = "unborn"
     /\ \E vu \in Nat :
          /\ vu <= clock + MaxLifetime
          /\ new = Posted(vu)
  \/ r.status \in Live /\ new \in {Moved(r, "expired"), Moved(r, "cancelled")}
  \/ r.status \in Live /\ \E v \in Verdicts : new = Judged(r, v)
  \/ \E o \in Outcomes, tx \in Tx :
       r.status \in LegalFrom(o) /\ new = Resolved(r, o, tx)
  \/ /\ r.status = "settleFailed"
     /\ new = [Moved(r, "penalized") EXCEPT !.penaltyTx = TRUE]
  \/ r.status = "executing" /\ new = Moved(r, "active")

Forget(r, new) == r.status \in Dropped /\ new = Blank("gone")
Edge(r, new)   == Keep(r, new) \/ Forget(r, new)

\* One row moves along an edge.
OneRow == \E p \in Proposals :
            \E new \in Row : Keep(row[p], new) /\ row' = [row EXCEPT ![p] = new]

\* Every operation moves one row or none, except the two bulk statements.
LEMMA OneRowStep ==
  ASSUME StoreTypeOK, [StoreNext]_storeVars
  PROVE  OneRow \/ UNCHANGED row \/ ReleaseStaleExecuting \/ SweepDropped
<1> USE StoreAssumption DEF StoreTypeOK
<1>0. row' \in [Proposals -> Row]
  BY RowTypeStep
<1>1. ASSUME NEW p \in Proposals, NEW new, Keep(row[p], new),
             row' = [row EXCEPT ![p] = new]
      PROVE  OneRow
  <2>1. new = row'[p]
    BY <1>1
  <2>2. QED
    BY <1>0, <1>1, <2>1 DEF OneRow
<1>2. ASSUME NEW p \in Proposals, NEW vu \in 0 .. MaxTime, Insert(p, vu)
      PROVE  OneRow
  <2>1. Keep(row[p], Posted(vu))
    BY <1>2 DEF Keep, Insert
  <2>2. QED
    BY <1>1, <1>2, <2>1 DEF Insert
<1>3. ASSUME NEW p \in Proposals, NEW from \in Live, Transition(p, from, "expired")
      PROVE  OneRow
  <2>1. Keep(row[p], Moved(row[p], "expired"))
    BY <1>3 DEF Keep, Transition
  <2>2. QED
    BY <1>1, <1>3, <2>1 DEF Transition
<1>4. ASSUME NEW p \in Proposals, NEW v \in Verdicts, ResolveVerdict(p, v)
      PROVE  OneRow
  <2>1. Keep(row[p], Judged(row[p], v))
    BY <1>4 DEF Keep, ResolveVerdict
  <2>2. QED
    BY <1>1, <1>4, <2>1 DEF ResolveVerdict
<1>5. ASSUME NEW p \in Proposals, NEW signer \in Signers, Cancel(p, signer)
      PROVE  OneRow
  <2>1. Keep(row[p], Moved(row[p], "cancelled"))
    BY <1>5 DEF Keep, Cancel
  <2>2. QED
    BY <1>1, <1>5, <2>1 DEF Cancel
<1>6. ASSUME NEW p \in Proposals, NEW o \in Outcomes, NEW tx \in Tx,
             ApplySettlementOutcome(p, o, tx)
      PROVE  OneRow
  <2>1. Keep(row[p], Resolved(row[p], o, tx))
    BY <1>6 DEF Keep, ApplySettlementOutcome
  <2>2. QED
    BY <1>1, <1>6, <2>1 DEF ApplySettlementOutcome
<1>7. ASSUME NEW p \in Proposals, RecordPenalty(p)
      PROVE  OneRow
  <2>1. Keep(row[p], [Moved(row[p], "penalized") EXCEPT !.penaltyTx = TRUE])
    BY <1>7 DEF Keep, RecordPenalty
  <2>2. QED
    BY <1>1, <1>7, <2>1 DEF RecordPenalty
<1>8. QED
  BY <1>2, <1>3, <1>4, <1>5, <1>6, <1>7
     DEF StoreNext, AdvanceClock, NoteDriverNotification, RecordSolution,
         RecordNonSettlementDebit, storeVars

\* Every operation but the sweep keeps every row, changed or not.
LEMMA KeptRows ==
  ASSUME StoreTypeOK, [StoreNext]_storeVars, ~ SweepDropped, NEW q \in Proposals
  PROVE  Keep(row[q], row'[q])
<1>1. ASSUME NEW p \in Proposals, NEW new \in Row, Keep(row[p], new),
             row' = [row EXCEPT ![p] = new]
      PROVE  Keep(row[q], row'[q])
  <2>1. CASE p = q
    BY <1>1, <2>1 DEF StoreTypeOK
  <2>2. CASE p # q
    BY <1>1, <2>2 DEF Keep, StoreTypeOK
  <2>3. QED
    BY <2>1, <2>2
<1>2. CASE ReleaseStaleExecuting
  BY <1>2 DEF ReleaseStaleExecuting, Stale, Keep
<1>3. CASE UNCHANGED row
  BY <1>3 DEF Keep
<1>4. QED
  BY <1>1, <1>2, <1>3, OneRowStep DEF OneRow

\* Every operation moves every row along an edge, or leaves it alone.
LEMMA Edges ==
  ASSUME StoreTypeOK, [StoreNext]_storeVars, NEW q \in Proposals
  PROVE  Edge(row[q], row'[q])
<1>1. CASE SweepDropped
  BY <1>1 DEF SweepDropped, Sweepable, Edge, Keep, Forget
<1>2. CASE ~ SweepDropped
  BY <1>2, KeptRows DEF Edge
<1>3. QED
  BY <1>1, <1>2

\* A row that is kept has a status, changed or not.
LEMMA KeptStatus ==
  ASSUME NEW r \in Row, NEW new, Keep(r, new), r.status # "unborn"
  PROVE  new = r \/ new.status \in Status
<1> USE DEF Row, Status, Live, Dropped, Money
<1>1. CASE r.status \in Live /\ new \in {Moved(r, "expired"), Moved(r, "cancelled")}
  BY <1>1 DEF Moved
<1>2. ASSUME NEW v \in Verdicts, new = Judged(r, v)
      PROVE  new.status \in Status
  BY <1>2 DEF Judged, VerdictStatus, Verdicts
<1>3. ASSUME NEW o \in Outcomes, NEW tx \in Tx, new = Resolved(r, o, tx)
      PROVE  new.status \in Status
  BY <1>3 DEF Outcomes, OutcomeStatus, Resolved, Moved
<1>4. CASE new = [Moved(r, "penalized") EXCEPT !.penaltyTx = TRUE]
  BY <1>4 DEF Moved
<1>5. CASE new = Moved(r, "active")
  BY <1>5 DEF Moved
<1>6. QED
  BY <1>1, <1>2, <1>3, <1>4, <1>5 DEF Keep

\* A proposal that was born never was not.
LEMMA BornStays ==
  ASSUME StoreTypeOK, [StoreNext]_storeVars,
         NEW q \in Proposals, row[q].status # "unborn"
  PROVE  row'[q].status # "unborn"
<1>1. CASE Keep(row[q], row'[q])
  <2>1. row[q] \in Row
    BY DEF StoreTypeOK
  <2>2. row'[q] = row[q] \/ row'[q].status \in Status
    BY <1>1, <2>1, KeptStatus
  <2>3. QED
    BY <2>2 DEF Status, Live, Dropped, Money
<1>2. CASE Forget(row[q], row'[q])
  BY <1>2 DEF Forget, Blank
<1>3. QED
  BY <1>1, <1>2, Edges DEF Edge

\* Who moves the clock, and who writes attribution.
LEMMA Movers ==
  ASSUME [StoreNext]_storeVars
  PROVE  /\ AdvanceClock \/ clock' = clock
         /\ \/ SweepDropped
            \/ \E p \in Proposals, a \in Auctions, s \in SolutionIds :
                 RecordSolution(a, s, p)
            \/ solutions' = solutions
<1>1. CASE AdvanceClock
  BY <1>1 DEF AdvanceClock
<1>2. ASSUME NEW p \in Proposals, NEW vu \in 0 .. MaxTime, Insert(p, vu)
      PROVE  clock' = clock /\ solutions' = solutions
  BY <1>2 DEF Insert
<1>3. ASSUME NEW p \in Proposals, NEW from \in Live, Transition(p, from, "expired")
      PROVE  clock' = clock /\ solutions' = solutions
  BY <1>3 DEF Transition
<1>4. ASSUME NEW p \in Proposals, NEW v \in Verdicts, ResolveVerdict(p, v)
      PROVE  clock' = clock /\ solutions' = solutions
  BY <1>4 DEF ResolveVerdict
<1>5. ASSUME NEW p \in Proposals, NEW signer \in Signers, Cancel(p, signer)
      PROVE  clock' = clock /\ solutions' = solutions
  BY <1>5 DEF Cancel
<1>6. ASSUME NEW p \in Proposals, NEW o \in Outcomes, NEW tx \in Tx,
             ApplySettlementOutcome(p, o, tx)
      PROVE  clock' = clock /\ solutions' = solutions
  BY <1>6 DEF ApplySettlementOutcome
<1>7. ASSUME NEW p \in Proposals, NEW report \in Reports,
             NoteDriverNotification(p, report)
      PROVE  clock' = clock /\ solutions' = solutions
  BY <1>7 DEF NoteDriverNotification
<1>8. ASSUME NEW p \in Proposals, RecordPenalty(p)
      PROVE  clock' = clock /\ solutions' = solutions
  BY <1>8 DEF RecordPenalty
<1>9. ASSUME NEW i \in 1 .. Len(penalties), RecordNonSettlementDebit(i)
      PROVE  clock' = clock /\ solutions' = solutions
  BY <1>9 DEF RecordNonSettlementDebit
<1>10. CASE ReleaseStaleExecuting
  BY <1>10 DEF ReleaseStaleExecuting
<1>11. CASE SweepDropped
  BY <1>11 DEF SweepDropped
<1>12. ASSUME NEW p \in Proposals, NEW a \in Auctions, NEW s \in SolutionIds,
              RecordSolution(a, s, p)
       PROVE  clock' = clock
  BY <1>12 DEF RecordSolution
<1>13. CASE UNCHANGED storeVars
  BY <1>13 DEF storeVars
<1>14. QED
  BY <1>1, <1>2, <1>3, <1>4, <1>5, <1>6, <1>7, <1>8, <1>9, <1>10, <1>11, <1>12,
     <1>13 DEF StoreNext

\* What is emitted is there until the process dies.
LEMMA TrailGrows ==
  ASSUME [StoreNext]_storeVars
  PROVE  audit \subseteq audit'
<1>1. ASSUME NEW p, NEW k, Emit(p, k)
      PROVE  audit \subseteq audit'
  BY <1>1 DEF Emit, HandOver
<1>2. ASSUME NEW p \in Proposals,
             \/ \E vu \in 0 .. MaxTime : Insert(p, vu)
             \/ \E from \in Live : Transition(p, from, "expired")
             \/ \E signer \in Signers : Cancel(p, signer)
             \/ RecordPenalty(p)
      PROVE  audit \subseteq audit'
  BY <1>1, <1>2 DEF Insert, Transition, Cancel, RecordPenalty
<1>3. ASSUME NEW p \in Proposals, NEW v \in Verdicts, ResolveVerdict(p, v)
      PROVE  audit \subseteq audit'
  BY <1>1, <1>3 DEF ResolveVerdict
<1>4. ASSUME NEW p \in Proposals, NEW o \in Outcomes, NEW tx \in Tx,
             ApplySettlementOutcome(p, o, tx)
      PROVE  audit \subseteq audit'
  BY <1>1, <1>4 DEF ApplySettlementOutcome
<1>5. ASSUME NEW i \in 1 .. Len(penalties), RecordNonSettlementDebit(i)
      PROVE  audit \subseteq audit'
  BY <1>1, <1>5 DEF RecordNonSettlementDebit
<1>6. CASE ReleaseStaleExecuting
  BY <1>6 DEF ReleaseStaleExecuting, HandOver
<1>7. QED
  BY <1>2, <1>3, <1>4, <1>5, <1>6
     DEF StoreNext, AdvanceClock, NoteDriverNotification, RecordSolution, SweepDropped,
         storeVars

----------------------------------------------------------------------------
(* Evidence columns. *)

Evidenced(r) ==
  /\ r.settlementTx # NoTx <=> r.status \in Money
  /\ r.penaltyTx <=> r.status = "penalized"
  /\ r.reason <=> r.status = "rejected"

\* No edge separates a status from its evidence.
LEMMA EvidencedEdge ==
  ASSUME clock \in Nat, NEW r \in Row, NEW new \in Row, Edge(r, new), Evidenced(r)
  PROVE  Evidenced(new)
<1> USE DEF Evidenced, Row
<1>1. CASE new = r
  BY <1>1
<1>2. CASE r.status = "unborn" /\ \E vu \in Nat : new = Posted(vu)
  BY <1>2 DEF Posted, Blank, Money
<1>3. CASE r.status \in Live /\ new \in {Moved(r, "expired"), Moved(r, "cancelled")}
  BY <1>3 DEF Moved, Live, Money
<1>4. CASE r.status \in Live /\ \E v \in Verdicts : new = Judged(r, v)
  BY <1>4 DEF Judged, VerdictStatus, Verdicts, Live, Money
<1>5. ASSUME NEW o \in Outcomes, NEW tx \in Tx,
             r.status \in LegalFrom(o), new = Resolved(r, o, tx)
      PROVE  Evidenced(new)
  BY <1>5, StoreAssumption
     DEF Outcomes, LegalFrom, OutcomeStatus, Resolved, Moved, Money
<1>6. CASE /\ r.status = "settleFailed"
           /\ new = [Moved(r, "penalized") EXCEPT !.penaltyTx = TRUE]
  BY <1>6 DEF Moved, Money
<1>7. CASE r.status = "executing" /\ new = Moved(r, "active")
  BY <1>7 DEF Moved, Money
<1>8. CASE r.status \in Dropped /\ new = Blank("gone")
  BY <1>8 DEF Blank, Money
<1>9. QED
  BY <1>1, <1>2, <1>3, <1>4, <1>5, <1>6, <1>7, <1>8 DEF Edge, Keep, Forget

\* The evidence columns move with the status.
LEMMA EvidenceStep ==
  ASSUME StoreTypeOK, StoreTypeOK', EvidenceColumns, [StoreNext]_storeVars
  PROVE  EvidenceColumns'
<1> SUFFICES ASSUME NEW p \in Proposals
             PROVE  Evidenced(row'[p])
  BY DEF EvidenceColumns, Evidenced
<1>1. Evidenced(row[p])
  BY DEF EvidenceColumns, Evidenced
<1>2. row[p] \in Row /\ row'[p] \in Row
  BY DEF StoreTypeOK
<1>3. Edge(row[p], row'[p])
  BY Edges
<1>4. QED
  BY <1>1, <1>2, <1>3, EvidencedEdge DEF StoreTypeOK

\* The hash, the penalty and the reason are there exactly when the status says.
THEOREM EvidenceAlways == MortalSpec => []EvidenceColumns
<1>1. StoreInit => EvidenceColumns
  BY DEF StoreInit, EvidenceColumns, Blank, Money
<1>2. StoreTypeOK /\ StoreTypeOK' /\ EvidenceColumns /\ [StoreNext]_storeVars
        => EvidenceColumns'
  BY EvidenceStep
<1>3. EvidenceColumns /\ Forgets => EvidenceColumns'
  BY DEF EvidenceColumns, Forgets
<1>4. QED
  BY <1>1, <1>2, <1>3, StoreTyped, PTL DEF MortalSpec, MortalNext

----------------------------------------------------------------------------
(* Deadlines. *)

Timely(r, now) == r.since <= now /\ r.validUntil <= r.since + MaxLifetime

\* Every edge restamps a row with the present or leaves its stamp alone.
LEMMA TimelyEdge ==
  ASSUME clock \in Nat, NEW r \in Row, NEW new \in Row, Edge(r, new),
         Timely(r, clock)
  PROVE  Timely(new, clock)
<1> USE StoreAssumption DEF Timely, Row
<1>1. CASE new = r
  BY <1>1
<1>2. ASSUME NEW vu \in Nat, vu <= clock + MaxLifetime, new = Posted(vu)
      PROVE  Timely(new, clock)
  BY <1>2 DEF Posted, Blank
<1>3. ASSUME NEW to \in Status, new = Moved(r, to)
      PROVE  Timely(new, clock)
  BY <1>3 DEF Moved
<1>4. ASSUME NEW v \in Verdicts, new = Judged(r, v)
      PROVE  Timely(new, clock)
  <2>1. new.validUntil = r.validUntil /\ new.since \in {r.since, clock}
    BY <1>4 DEF Judged
  <2>2. QED
    BY <2>1
<1>5. ASSUME NEW o \in Outcomes, NEW tx \in Tx, new = Resolved(r, o, tx)
      PROVE  Timely(new, clock)
  <2>1. new.validUntil = r.validUntil /\ new.since = clock
    BY <1>5 DEF Resolved, Moved
  <2>2. QED
    BY <2>1
<1>6. CASE new = [Moved(r, "penalized") EXCEPT !.penaltyTx = TRUE]
  BY <1>6 DEF Moved
<1>7. CASE new = Blank("gone")
  BY <1>7 DEF Blank
<1>8. {"expired", "cancelled", "active"} \subseteq Status
  BY DEF Status, Live, Dropped
<1>9. QED
  BY <1>1, <1>2, <1>3, <1>4, <1>5, <1>6, <1>7, <1>8 DEF Edge, Keep, Forget

\* Nothing that happens to a proposal extends its deadline beyond the cap.
THEOREM DeadlinesCapped == MortalSpec => []DeadlineCapped
<1> DEFINE I == \A p \in Proposals : Timely(row[p], clock)
<1>1. StoreInit => I
  BY StoreAssumption DEF StoreInit, Blank, Timely
<1>2. StoreTypeOK /\ StoreTypeOK' /\ I /\ [StoreNext]_storeVars => I'
  <2> SUFFICES ASSUME StoreTypeOK, StoreTypeOK', I, [StoreNext]_storeVars,
                      NEW p \in Proposals
               PROVE  Timely(row'[p], clock')
    OBVIOUS
  <2>1. row[p] \in Row /\ row'[p] \in Row
    BY DEF StoreTypeOK
  <2>2. Timely(row'[p], clock)
    <3>1. Edge(row[p], row'[p])
      BY Edges
    <3>2. Timely(row[p], clock)
      OBVIOUS
    <3>3. QED
      BY <2>1, <3>1, <3>2, TimelyEdge DEF StoreTypeOK
  <2>3. clock <= clock'
    BY Movers DEF StoreTypeOK, AdvanceClock
  <2>4. QED
    BY <2>1, <2>2, <2>3 DEF Timely, StoreTypeOK, Row
<1>3. I /\ Forgets => I'
  BY DEF Forgets
<1>4. I => DeadlineCapped
  BY DEF DeadlineCapped, Timely
<1>5. QED
  BY <1>1, <1>2, <1>3, <1>4, StoreTyped, PTL DEF MortalSpec, MortalNext

\* With the timeout at least as long as a proposal may live, as the defaults
\* have it (run.rs, 130 and 137: 300 s and 5m), a proposal the timeout releases
\* is always past its deadline: the tick that released it expires it, and no
\* re-simulation ever judges it (validation.rs, 88-91 says one does).
ReleasedIsLate ==
  ExecutingTimeout >= MaxLifetime =>
    \A p \in Proposals : Stale(p) => row[p].validUntil < clock

THEOREM ReleasedAlwaysLate == MortalSpec => []ReleasedIsLate
<1>1. StoreTypeOK /\ DeadlineCapped => ReleasedIsLate
  BY StoreAssumption DEF StoreTypeOK, DeadlineCapped, ReleasedIsLate, Stale, Row
<1>2. QED
  BY <1>1, StoreTyped, DeadlinesCapped, PTL

----------------------------------------------------------------------------
(* Attribution. *)

\* No step leaves a key without its row, or with two.
LEMMA AttributionStep ==
  ASSUME StoreTypeOK, AttributionIntegrity, [StoreNext]_storeVars
  PROVE  AttributionIntegrity'
<1>1. CASE SweepDropped
  <2>1. \A p \in Proposals : ~ Sweepable(p) => row'[p] = row[p]
    BY <1>1 DEF SweepDropped
  <2>2. QED
    BY <1>1, <2>1
       DEF SweepDropped, AttributionIntegrity, StoreTypeOK, Solution, Exists
<1>2. ASSUME NEW a \in Auctions, NEW s \in SolutionIds, NEW p \in Proposals,
             RecordSolution(a, s, p)
      PROVE  AttributionIntegrity'
  BY <1>2 DEF RecordSolution, AttributionIntegrity, Exists
<1>3. ASSUME solutions' = solutions, ~ SweepDropped
      PROVE  AttributionIntegrity'
  <2>1. ASSUME NEW p \in Proposals, Exists(p)
        PROVE  row'[p].status \in Status
    <3>1. Keep(row[p], row'[p])
      BY <1>3, KeptRows
    <3>2. row[p] \in Row /\ row[p].status # "unborn"
      BY <2>1 DEF StoreTypeOK, Exists, Status, Live, Dropped, Money
    <3>3. row'[p] = row[p] \/ row'[p].status \in Status
      BY <3>1, <3>2, KeptStatus
    <3>4. QED
      BY <2>1, <3>3 DEF Exists
  <2>2. QED
    BY <1>3, <2>1 DEF AttributionIntegrity, StoreTypeOK, Solution, Exists
<1>4. QED
  BY <1>1, <1>2, <1>3, Movers

\* A key names one proposal, whose row is there.
THEOREM AttributionKept == MortalSpec => []AttributionIntegrity
<1>1. StoreInit => AttributionIntegrity
  BY DEF StoreInit, AttributionIntegrity
<1>2. StoreTypeOK /\ AttributionIntegrity /\ [StoreNext]_storeVars
        => AttributionIntegrity'
  BY AttributionStep
<1>3. AttributionIntegrity /\ Forgets => AttributionIntegrity'
  BY DEF AttributionIntegrity, Exists, Forgets
<1>4. QED
  BY <1>1, <1>2, <1>3, StoreTyped, PTL DEF MortalSpec, MortalNext

----------------------------------------------------------------------------
(* The trail. *)

\* The changes of status the code makes, and the event each of them is told by.
Told(from, to, k) ==
  \/ from = "unborn"    /\ to = "submitted" /\ k = "received"
  \/ from = "executing" /\ to = "active"    /\ k = "released"
  \/ k = to /\ \/ from \in Live /\ to \in Dropped
               \/ from = "submitted"  /\ to = "active"
               \/ from = "active"     /\ to = "executing"
               \/ from \in {"active", "executing"} /\ to \in {"settled", "settleFailed"}
               \/ from = "settleFailed" /\ to = "penalized"

\* The trail hears nothing new of proposal q.
Untold(q) == \A k \in Kinds : Ev(q, k) \in audit' => Ev(q, k) \in audit

\* What a step does to proposal q, it tells: its status changes with the event
\* of that change, or is swept, or stays; and a proposal not yet born that stays
\* so is not spoken of.
Telling(q) ==
  LET from == row[q].status
      to   == row'[q].status
  IN \/ to = from /\ (from = "unborn" => Untold(q))
     \/ \E k \in Kinds : Told(from, to, k) /\ Kept(q, k)'
     \/ from \in Dropped /\ to = "gone"

\* Every charge is against a proposal that exists or did.
ChargedBorn == \A i \in 1 .. Len(penalties) : row[penalties[i].proposal].status # "unborn"

\* An event is told apart from those of other proposals and from reports.
LEMMA EmitTells ==
  ASSUME ~ DbFaults, NEW p, NEW k, Emit(p, k), NEW q
  PROVE  /\ audit \subseteq audit'
         /\ Kept(p, k)'
         /\ p # q => Untold(q)
  BY DEF Emit, HandOver, Kept, Untold, Ev

\* One row moves, and its event is emitted in the same transaction.
LEMMA OneRowTells ==
  ASSUME ~ DbFaults, StoreTypeOK, NEW p \in Proposals, NEW r, row' = [row EXCEPT ![p] = r],
         NEW k \in Kinds, Emit(p, k), Told(row[p].status, r.status, k),
         NEW q \in Proposals
  PROVE  Telling(q)
<1>1. CASE q = p
  BY <1>1, EmitTells DEF Telling, StoreTypeOK
<1>2. CASE q # p
  <2>1. Untold(q)
    BY <1>2, EmitTells
  <2>2. row'[q] = row[q]
    BY <1>2 DEF StoreTypeOK
  <2>3. QED
    BY <2>1, <2>2 DEF Telling
<1>3. QED
  BY <1>1, <1>2

\* Every operation tells what it did to every proposal.
LEMMA StepTells ==
  ASSUME ~ DbFaults, StoreTypeOK, ChargedBorn, [StoreNext]_storeVars, NEW q \in Proposals
  PROVE  audit \subseteq audit' /\ Telling(q)
<1> DEFINE Goal == audit \subseteq audit' /\ Telling(q)
<1> USE DEF Kinds, Status, Live, Dropped, Money
<1>0. \A p \in Proposals : row[p] \in Row
  BY DEF StoreTypeOK
<1>1. ASSUME UNCHANGED <<row, audit>>
      PROVE  Goal
  BY <1>1 DEF Telling, Untold
<1>2. ASSUME NEW p \in Proposals, NEW vu \in 0 .. MaxTime, Insert(p, vu)
      PROVE  Goal
  <2>1. Told(row[p].status, Posted(vu).status, "received")
    BY <1>2 DEF Insert, Told, Posted, Blank
  <2>2. QED
    BY <1>2, <2>1, OneRowTells, EmitTells DEF Insert
<1>3. ASSUME NEW p \in Proposals, NEW from \in Live, Transition(p, from, "expired")
      PROVE  Goal
  <2>1. Told(row[p].status, Moved(row[p], "expired").status, "expired")
    BY <1>0, <1>3 DEF Transition, Told, Moved, Row
  <2>2. QED
    BY <1>3, <2>1, OneRowTells, EmitTells DEF Transition
<1>4. ASSUME NEW p \in Proposals, NEW v \in Verdicts, ResolveVerdict(p, v)
      PROVE  Goal
  <2>1. /\ Judged(row[p], v).status = VerdictStatus(v)
        /\ row[p].status \in Live
        /\ VerdictStatus(v) \in {"active", "rejected", "simFailed"}
    BY <1>0, <1>4 DEF ResolveVerdict, Judged, Row, VerdictStatus, Verdicts
  <2>2. CASE row[p].status = VerdictStatus(v)
    <3>1. \A x \in Proposals : row'[x].status = row[x].status
      BY <1>4, <2>1, <2>2 DEF ResolveVerdict, StoreTypeOK
    <3>2. audit' = audit
      BY <1>4, <2>2 DEF ResolveVerdict
    <3>3. QED
      BY <3>1, <3>2 DEF Telling, Untold
  <2>3. CASE row[p].status # VerdictStatus(v)
    <3>1. Told(row[p].status, Judged(row[p], v).status, VerdictStatus(v))
      BY <2>1, <2>3 DEF Told
    <3>2. Emit(p, VerdictStatus(v))
      BY <1>4, <2>3 DEF ResolveVerdict
    <3>3. QED
      BY <1>4, <2>1, <3>1, <3>2, OneRowTells, EmitTells DEF ResolveVerdict
  <2>4. QED
    BY <2>2, <2>3
<1>5. ASSUME NEW p \in Proposals, NEW signer \in Signers, Cancel(p, signer)
      PROVE  Goal
  <2>1. Told(row[p].status, Moved(row[p], "cancelled").status, "cancelled")
    BY <1>0, <1>5 DEF Cancel, Told, Moved, Row
  <2>2. QED
    BY <1>5, <2>1, OneRowTells, EmitTells DEF Cancel
<1>6. ASSUME NEW p \in Proposals, NEW o \in Outcomes, NEW tx \in Tx,
             ApplySettlementOutcome(p, o, tx)
      PROVE  Goal
  <2> DEFINE k == EventType(row[p].status, OutcomeStatus(o))
  <2>1. Resolved(row[p], o, tx).status = OutcomeStatus(o)
    BY <1>0 DEF Resolved, Moved, Row
  <2>2. k \in Kinds /\ Told(row[p].status, OutcomeStatus(o), k)
    BY <1>6 DEF ApplySettlementOutcome, LegalFrom, OutcomeStatus, Outcomes,
                EventType, Told
  <2>3. QED
    BY <1>6, <2>1, <2>2, OneRowTells, EmitTells DEF ApplySettlementOutcome
<1>7. ASSUME NEW p \in Proposals, NEW report \in Reports,
             NoteDriverNotification(p, report)
      PROVE  Goal
  <2>1. \A r, k : Ev(q, k) # [proposal |-> p, report |-> r]
    <3>1. \A r, k : DOMAIN Ev(q, k) # DOMAIN [proposal |-> p, report |-> r]
      BY DEF Ev
    <3>2. QED
      BY <3>1
  <2>2. Untold(q)
    BY <1>7, <2>1 DEF NoteDriverNotification, Untold
  <2>3. QED
    BY <1>7, <2>2 DEF NoteDriverNotification, Telling
<1>8. ASSUME NEW p \in Proposals, RecordPenalty(p)
      PROVE  Goal
  <2>1. Told(row[p].status,
             [Moved(row[p], "penalized") EXCEPT !.penaltyTx = TRUE].status, "penalized")
    BY <1>0, <1>8 DEF RecordPenalty, Told, Moved, Row
  <2>2. QED
    BY <1>8, <2>1, OneRowTells, EmitTells DEF RecordPenalty
<1>9. ASSUME NEW i \in 1 .. Len(penalties), RecordNonSettlementDebit(i)
      PROVE  Goal
  <2>1. row' = row /\ audit \subseteq audit'
    BY <1>9, EmitTells DEF RecordNonSettlementDebit
  <2>2. row[q].status = "unborn" => Untold(q)
    BY <1>9, EmitTells DEF RecordNonSettlementDebit, ChargedBorn
  <2>3. QED
    BY <2>1, <2>2 DEF Telling
<1>10. CASE ReleaseStaleExecuting
  <2>1. audit \subseteq audit'
    BY <1>10 DEF ReleaseStaleExecuting, HandOver
  <2>2. CASE Stale(q)
    <3>1. row'[q].status = "active" /\ row[q].status = "executing"
      BY <1>0, <1>10, <2>2 DEF ReleaseStaleExecuting, Stale, Moved, Row
    <3>2. Kept(q, "released")'
      BY <1>10, <2>2 DEF ReleaseStaleExecuting, HandOver, Kept, Ev
    <3>3. QED
      BY <2>1, <3>1, <3>2 DEF Telling, Told
  <2>3. CASE ~ Stale(q)
    <3>1. row'[q] = row[q]
      BY <1>10, <2>3 DEF ReleaseStaleExecuting
    <3>2. \A p, k, r : Ev(q, k) = Ev(p, r) => q = p
      BY DEF Ev
    <3>3. ASSUME NEW k, Ev(q, k) \in audit', Ev(q, k) \notin audit
          PROVE  FALSE
      <4>1. \E p \in {x \in Proposals : Stale(x)}, r \in {"released"} \cap Tracked :
              Ev(q, k) = Ev(p, r)
        BY <1>10, <3>3 DEF ReleaseStaleExecuting, HandOver
      <4>2. QED
        BY <2>3, <3>2, <4>1
    <3>4. Untold(q)
      BY <3>3 DEF Untold
    <3>5. QED
      BY <2>1, <3>1, <3>4 DEF Telling
  <2>4. QED
    BY <2>2, <2>3
<1>11. CASE SweepDropped
  BY <1>11 DEF SweepDropped, Sweepable, Blank, Telling, Untold
<1>12. QED
  BY <1>1, <1>2, <1>3, <1>4, <1>5, <1>6, <1>7, <1>8, <1>9, <1>10, <1>11
     DEF StoreNext, AdvanceClock, RecordSolution, storeVars

\* A charge is queued with the release it is for, and paid with its evidence.
ChargeTold(i) ==
  /\ Kept(penalties[i].proposal, "released")
  /\ penalties[i].paid => Kept(penalties[i].proposal, "nonSettlementDebited")

\* What a step makes of the queue of charges.
LEMMA ChargeStep ==
  ASSUME StoreTypeOK, [StoreNext]_storeVars
  PROVE  \/ penalties' = penalties
         \/ \E p \in Proposals :
              /\ row[p].status = "executing" /\ Emit(p, "released")
              /\ penalties' = Append(penalties, [proposal |-> p, paid |-> FALSE])
         \/ \E i \in 1 .. Len(penalties) :
              /\ Emit(penalties[i].proposal, "nonSettlementDebited")
              /\ penalties' = [penalties EXCEPT ![i].paid = TRUE]
<1>1. ASSUME NEW p \in Proposals, NEW o \in Outcomes, NEW tx \in Tx,
             ApplySettlementOutcome(p, o, tx), o = "abandoned"
      PROVE  /\ row[p].status = "executing" /\ Emit(p, "released")
             /\ penalties' = Append(penalties, [proposal |-> p, paid |-> FALSE])
  BY <1>1 DEF ApplySettlementOutcome, LegalFrom, OutcomeStatus, EventType
<1>2. ASSUME NEW p \in Proposals, NEW o \in Outcomes, NEW tx \in Tx,
             ApplySettlementOutcome(p, o, tx), o # "abandoned"
      PROVE  penalties' = penalties
  BY <1>2 DEF ApplySettlementOutcome
<1>3. QED
  BY <1>1, <1>2
     DEF StoreNext, storeVars, AdvanceClock, Insert, Transition, ResolveVerdict,
         Cancel, NoteDriverNotification, RecordPenalty, RecordSolution,
         RecordNonSettlementDebit, ReleaseStaleExecuting, SweepDropped

\* A charge is only ever queued against a proposal that was born.
LEMMA ChargedBornStep ==
  ASSUME StoreTypeOK, ChargedBorn, [MortalNext]_storeVars
  PROVE  ChargedBorn'
<1>1. CASE Forgets
  BY <1>1 DEF Forgets, ChargedBorn
<1>2. CASE [StoreNext]_storeVars
  <2>0. penalties \in Seq(Charge) /\ \A c \in Charge : c.proposal \in Proposals
    BY DEF StoreTypeOK, Charge
  <2>1. \A q \in Proposals : row[q].status # "unborn" => row'[q].status # "unborn"
    BY <1>2, BornStays
  <2>2. CASE penalties' = penalties
    BY <2>0, <2>1, <2>2 DEF ChargedBorn
  <2>3. ASSUME NEW p \in Proposals, row[p].status = "executing",
               penalties' = Append(penalties, [proposal |-> p, paid |-> FALSE])
        PROVE  ChargedBorn'
    <3>1. \A i \in 1 .. Len(penalties') :
            \/ i \in 1 .. Len(penalties) /\ penalties'[i] = penalties[i]
            \/ penalties'[i] = [proposal |-> p, paid |-> FALSE]
      BY <2>0, <2>3
    <3>2. QED
      BY <2>0, <2>1, <2>3, <3>1 DEF ChargedBorn
  <2>4. ASSUME NEW i \in 1 .. Len(penalties),
               penalties' = [penalties EXCEPT ![i].paid = TRUE]
        PROVE  ChargedBorn'
    <3>1. /\ Len(penalties') = Len(penalties)
          /\ \A j \in 1 .. Len(penalties) :
               penalties'[j].proposal = penalties[j].proposal
      BY <2>0, <2>4 DEF Charge
    <3>2. QED
      BY <2>0, <2>1, <3>1 DEF ChargedBorn
  <2>5. QED
    BY <1>2, <2>2, <2>3, <2>4, ChargeStep
<1>3. QED
  BY <1>1, <1>2 DEF MortalNext

\* While calls return, an operation keeps what the trail explains explained.
LEMMA ExplainedStep ==
  ASSUME ~ DbFaults, StoreTypeOK, StoreTypeOK', ChargedBorn, [StoreNext]_storeVars,
         NEW q \in Proposals, Explained(q)
  PROVE  Explained(q)'
<1>0. audit \subseteq audit' /\ Telling(q)
  BY StepTells
<1>1. \A k : Kept(q, k) => Kept(q, k)'
  BY <1>0 DEF Kept
<1>2. row[q] \in Row /\ row'[q] \in Row
  BY DEF StoreTypeOK
<1>3. CASE row'[q].status = row[q].status /\ (row[q].status = "unborn" => Untold(q))
  BY <1>0, <1>1, <1>3 DEF Explained, Untold
<1>4. ASSUME NEW k \in Kinds, Told(row[q].status, row'[q].status, k), Kept(q, k)'
      PROVE  Explained(q)'
  BY <1>1, <1>2, <1>4
     DEF Explained, Told, Status, Live, Dropped, Money
<1>5. CASE row[q].status \in Dropped /\ row'[q].status = "gone"
  <2>1. PICK s \in Dropped : s = row[q].status
    BY <1>5
  <2>2. Kept(q, s) /\ Kept(q, "received")
    BY <2>1 DEF Explained, Status, Live, Dropped, Money
  <2>3. Kept(q, s)' /\ Kept(q, "received")'
    BY <1>1, <2>2
  <2>4. Dropped \subseteq Tracked => \E k \in Dropped : Ev(q, k) \in audit'
    BY <2>3 DEF Kept
  <2>5. QED
    BY <1>5, <2>3, <2>4 DEF Explained, Status, Live, Dropped, Money
<1>6. QED
  BY <1>0, <1>3, <1>4, <1>5 DEF Telling

\* A charge stays queued, and explained; a new one comes explained.
LEMMA ChargeToldStep ==
  ASSUME ~ DbFaults, StoreTypeOK, ChargedBorn, [StoreNext]_storeVars
  PROVE  /\ \A i \in 1 .. Len(penalties) :
              i \in 1 .. Len(penalties') /\ (ChargeTold(i) => ChargeTold(i)')
         /\ \A i \in 1 .. Len(penalties') : i \in 1 .. Len(penalties) \/ ChargeTold(i)'
<1> DEFINE Goal == /\ \A i \in 1 .. Len(penalties) :
                        i \in 1 .. Len(penalties') /\ (ChargeTold(i) => ChargeTold(i)')
                   /\ \A i \in 1 .. Len(penalties') :
                        i \in 1 .. Len(penalties) \/ ChargeTold(i)'
<1>1. penalties \in Seq(Charge) /\ \A c \in Charge : c.proposal \in Proposals
  BY DEF StoreTypeOK, Charge
<1>2. CASE Proposals = {}
  \* No charge to pay.
  <2>1. penalties = <<>>
    BY <1>1, <1>2 DEF Charge
  <2>2. penalties' = <<>>
    BY <1>2, <2>1, ChargeStep
  <2>3. QED
    BY <2>1, <2>2
<1>3. CASE Proposals # {}
  <2>1. \A p, k : Kept(p, k) => Kept(p, k)'
    BY <1>3, StepTells DEF Kept
  <2>2. CASE penalties' = penalties
    BY <2>1, <2>2 DEF ChargeTold
  <2>3. ASSUME NEW p \in Proposals, Emit(p, "released"),
               penalties' = Append(penalties, [proposal |-> p, paid |-> FALSE])
        PROVE  Goal
    <3>1. Kept(p, "released")'
      BY <2>3, EmitTells
    <3>2. \A i \in 1 .. Len(penalties) :
            i \in 1 .. Len(penalties') /\ penalties'[i] = penalties[i]
      BY <1>1, <2>3
    <3>3. \A i \in 1 .. Len(penalties') :
            i \in 1 .. Len(penalties) \/ penalties'[i] = [proposal |-> p, paid |-> FALSE]
      BY <1>1, <2>3
    <3>4. QED
      BY <2>1, <3>1, <3>2, <3>3 DEF ChargeTold
  <2>4. ASSUME NEW i \in 1 .. Len(penalties),
               Emit(penalties[i].proposal, "nonSettlementDebited"),
               penalties' = [penalties EXCEPT ![i].paid = TRUE]
        PROVE  Goal
    <3>1. Kept(penalties[i].proposal, "nonSettlementDebited")'
      BY <2>4, EmitTells
    <3>2. /\ Len(penalties') = Len(penalties)
          /\ \A j \in 1 .. Len(penalties) :
               /\ penalties'[j].proposal = penalties[j].proposal
               /\ j # i => penalties'[j] = penalties[j]
      BY <1>1, <2>4 DEF Charge
    <3>3. QED
      BY <2>1, <3>1, <3>2 DEF ChargeTold
  <2>5. QED
    BY <2>2, <2>3, <2>4, ChargeStep
<1>4. QED
  BY <1>2, <1>3

LEMMA TrailStep ==
  ASSUME ~ DbFaults, StoreTypeOK, StoreTypeOK', TrailExplainsRow, ChargedBorn,
         [StoreNext]_storeVars
  PROVE  TrailExplainsRow'
<1>1. \A q \in Proposals : Explained(q)'
  BY ExplainedStep DEF TrailExplainsRow
<1>2. \A i \in 1 .. Len(penalties') : ChargeTold(i)'
  BY ChargeToldStep DEF TrailExplainsRow, ChargeTold
<1>3. QED
  BY <1>1, <1>2 DEF TrailExplainsRow, ChargeTold

LEMMA TrailInit == StoreInit => TrailExplainsRow /\ ChargedBorn
  BY DEF StoreInit, TrailExplainsRow, Explained, ChargedBorn, Blank,
         Status, Live, Dropped, Money

\* No charge is against a proposal nobody submitted.
THEOREM ChargesBorn == MortalSpec => []ChargedBorn
  BY TrailInit, ChargedBornStep, StoreTyped, PTL DEF MortalSpec

\* Whatever the interleaving of callers, while no reply of the database is lost
\* and the process lives, the statuses a proposal went through, the release
\* behind each charge and the debit that paid it are in evidence, and still are
\* when the row is gone.
THEOREM TrailExplains == StoreSpec => [](~ DbFaults => TrailExplainsRow)
<1>1. StoreTypeOK /\ StoreTypeOK' /\ ChargedBorn /\ (~ DbFaults => TrailExplainsRow)
        /\ [StoreNext]_storeVars => (~ DbFaults => TrailExplainsRow)'
  BY TrailStep
<1>2. StoreSpec => []StoreTypeOK /\ []ChargedBorn
  BY StoreIsMortal, StoreTyped, ChargesBorn, PTL
<1>3. QED
  BY TrailInit, <1>1, <1>2, PTL DEF StoreSpec

----------------------------------------------------------------------------
(* The store implements the lifecycle. *)

Phase == [p \in Proposals |-> PhaseOf(row[p].status)]

\* An edge of a row is a move of its phase, or within it.
LEMMA PhaseEdge ==
  ASSUME NEW r \in Row, NEW new \in Row, Keep(r, new)
  PROVE  \/ PhaseOf(new.status) = PhaseOf(r.status)
         \/ <<PhaseOf(r.status), PhaseOf(new.status)>> \in Lifecycle!SingleMoves
<1> USE DEF PhaseOf, Lifecycle!SingleMoves, Live, Dropped
<1>1. CASE new = r
  BY <1>1
<1>2. CASE r.status = "unborn" /\ \E vu \in Nat : new = Posted(vu)
  BY <1>2 DEF Posted, Blank
<1>3. CASE r.status \in Live /\ new \in {Moved(r, "expired"), Moved(r, "cancelled")}
  BY <1>3 DEF Moved, Row
<1>4. CASE r.status \in Live /\ \E v \in Verdicts : new = Judged(r, v)
  BY <1>4 DEF Judged, VerdictStatus, Verdicts, Row
<1>5. ASSUME NEW o \in Outcomes, NEW tx \in Tx,
             r.status \in LegalFrom(o), new = Resolved(r, o, tx)
      PROVE  \/ PhaseOf(new.status) = PhaseOf(r.status)
             \/ <<PhaseOf(r.status), PhaseOf(new.status)>> \in Lifecycle!SingleMoves
  BY <1>5 DEF Outcomes, LegalFrom, OutcomeStatus, Resolved, Moved, Row
<1>6. CASE /\ r.status = "settleFailed"
           /\ new = [Moved(r, "penalized") EXCEPT !.penaltyTx = TRUE]
  BY <1>6 DEF Moved, Row
<1>7. CASE r.status = "executing" /\ new = Moved(r, "active")
  BY <1>7 DEF Moved, Row
<1>8. QED
  BY <1>1, <1>2, <1>3, <1>4, <1>5, <1>6, <1>7 DEF Keep

\* Every status has a phase.
LEMMA PhaseType ==
  ASSUME NEW r \in Row
  PROVE  PhaseOf(r.status) \in Lifecycle!Phases
  BY DEF Row, Status, NoRow, Live, Dropped, Money, PhaseOf, Lifecycle!Phases

\* Every operation of the store is a step of the lifecycle, or none.
LEMMA LifecycleStep ==
  ASSUME StoreTypeOK, [StoreNext]_storeVars
  PROVE  Lifecycle!Next \/ UNCHANGED Phase
<1>0. \A p \in Proposals : row[p] \in Row /\ row'[p] \in Row
  BY RowTypeStep DEF StoreTypeOK
<1>1. ASSUME NEW p \in Proposals, NEW new \in Row, Keep(row[p], new),
             row' = [row EXCEPT ![p] = new]
      PROVE  Lifecycle!Next \/ UNCHANGED Phase
  <2>1. Phase' = [Phase EXCEPT ![p] = PhaseOf(new.status)]
    BY <1>1 DEF Phase, StoreTypeOK
  <2>2. Phase[p] = PhaseOf(row[p].status)
    BY DEF Phase
  <2>3. CASE PhaseOf(new.status) = PhaseOf(row[p].status)
    BY <2>1, <2>2, <2>3 DEF Phase
  <2>4. CASE <<PhaseOf(row[p].status), PhaseOf(new.status)>> \in Lifecycle!SingleMoves
    <3>1. PhaseOf(new.status) \in Lifecycle!Phases
      BY PhaseType
    <3>2. Lifecycle!Step(p)
      BY <2>1, <2>2, <2>4, <3>1 DEF Lifecycle!Step, Phase
    <3>3. QED
      BY <3>2 DEF Lifecycle!Next
  <2>5. QED
    BY <1>0, <1>1, <2>3, <2>4, PhaseEdge
<1>2. CASE ReleaseStaleExecuting
  <2> DEFINE S == {p \in Proposals : Stale(p)}
  <2>1. \A p \in S : PhaseOf(row[p].status) = "executing"
    BY DEF Stale, PhaseOf, Live, Dropped
  <2>2. \A p \in Proposals :
          PhaseOf(row'[p].status) = IF p \in S THEN "live" ELSE PhaseOf(row[p].status)
    <3>1. \A p \in S : row'[p].status = "active"
      BY <1>0, <1>2 DEF ReleaseStaleExecuting, Moved, Row
    <3>2. \A p \in Proposals : p \notin S => row'[p] = row[p]
      BY <1>2 DEF ReleaseStaleExecuting
    <3>3. QED
      BY <3>1, <3>2 DEF PhaseOf, Live, Dropped
  <2>3. Lifecycle!Release(S)
    BY <2>1, <2>2 DEF Lifecycle!Release, Lifecycle!Sweep, Phase
  <2>4. QED
    BY <2>3 DEF Lifecycle!Next
<1>3. CASE SweepDropped
  <2> DEFINE S == {p \in Proposals : Sweepable(p)}
  <2>1. \A p \in S : PhaseOf(row[p].status) = "dropped"
    BY DEF Sweepable, PhaseOf, Live, Dropped
  <2>2. \A p \in Proposals :
          PhaseOf(row'[p].status) = IF p \in S THEN "gone" ELSE PhaseOf(row[p].status)
    BY <1>0, <1>3 DEF SweepDropped, Blank, PhaseOf, Live, Dropped
  <2>3. Lifecycle!Forget(S)
    BY <2>1, <2>2 DEF Lifecycle!Forget, Lifecycle!Sweep, Phase
  <2>4. QED
    BY <2>3 DEF Lifecycle!Next
<1>4. CASE UNCHANGED row
  BY <1>4 DEF Phase
<1>5. QED
  BY <1>1, <1>2, <1>3, <1>4, OneRowStep DEF OneRow

\* The store, under any callers, implements the promised lifecycle.
THEOREM LifecycleImplemented == MortalSpec => ImplementsLifecycle
<1>1. StoreInit => Lifecycle!Init
  BY DEF StoreInit, Lifecycle!Init, Blank, PhaseOf, Live, Dropped
<1>2. StoreTypeOK /\ [StoreNext]_storeVars => [Lifecycle!Next]_Phase
  BY LifecycleStep
<1>3. Forgets => [Lifecycle!Next]_Phase
  BY DEF Forgets, Phase
<1>4. QED
  BY <1>1, <1>2, <1>3, StoreTyped, PTL
     DEF MortalSpec, MortalNext, ImplementsLifecycle, Lifecycle!Spec, Phase
=============================================================================
