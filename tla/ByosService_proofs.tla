------------------------ MODULE ByosService_proofs ------------------------
(***************************************************************************)
(* The service drives its store only through the store's operations, with  *)
(* arguments the store expects, and by dying: it implements MortalSpec, so *)
(* every theorem about the mortal store holds of the service.              *)
(* Then what only the service makes true: bids are attributed, money       *)
(* follows the chain, and losses are charged once and reverts accounted.   *)
(* Last, the penalty loop on the service's tables (ChargedService).        *)
(***************************************************************************)
EXTENDS ChargedService, ProposalStore_proofs, FiniteSetTheorems

\* What the loops and calls carry between their steps.
Applying == [auction : Auctions, proposal : Proposals, outcome : Outcomes]

\* The tick expires only what it saw live, and /notify applies only outcomes
\* of known proposals.
Carried ==
  /\ view \in [Proposals -> {None} \cup Live \cup Verdicts]
  /\ loop.late \subseteq Proposals
  /\ \A p \in loop.late : view[p] \in Live
  /\ applying \subseteq Applying

Inv == StoreTypeOK /\ Carried /\ written \subseteq audit

\* What an action owes: a step of the store, unless it is the death of the
\* process, and what the next steps carry.
Sound == ([StoreNext]_storeVars \/ Crash) /\ Carried'

LEMMA ServiceStep ==
  ASSUME Inv, [Next]_vars
  PROVE  Sound
<1> USE StoreAssumption, ServiceAssumption DEF Inv, Sound, Carried
<1>1. CASE AdvanceClock /\ UNCHANGED serviceVars
  BY <1>1 DEF StoreNext, serviceVars
<1>2. ASSUME NEW p \in Proposals, NEW vu \in 0 .. MaxTime, Post(p, vu)
      PROVE  Sound
  BY <1>2 DEF Post, StoreNext, serviceVars
<1>3. ASSUME NEW p \in Proposals, NEW signer \in Signers, Delete(p, signer)
      PROVE  Sound
  BY <1>3 DEF Delete, StoreNext, serviceVars
<1>4. CASE TickBegin
  <2>1. [StoreNext]_storeVars
    BY <1>4 DEF TickBegin, StoreNext
  <2>2. Carried'
    BY <1>4 DEF TickBegin
  <2>3. QED
    BY <2>1, <2>2
<1>5. CASE TickSnapshot
  <2>1. UNCHANGED storeVars
    BY <1>5 DEF TickSnapshot
  <2>2. Carried'
    BY <1>5 DEF TickSnapshot, NoTick
  <2>3. QED
    BY <2>1, <2>2
<1>6. ASSUME NEW p \in Proposals, TickExpire(p)
      PROVE  Sound
  <2>1. [StoreNext]_storeVars
    BY <1>6 DEF TickExpire, StoreNext
  <2>2. Carried'
    BY <1>6 DEF TickExpire
  <2>3. QED
    BY <2>1, <2>2
<1>7. ASSUME NEW p \in Proposals, TickSimulate(p)
      PROVE  Sound
  <2>1. Carried'
    BY <1>7 DEF TickSimulate, Verdicts
  <2>2. QED
    BY <1>7, <2>1 DEF TickSimulate
<1>8. ASSUME NEW p \in Proposals, TickResolve(p)
      PROVE  Sound
  <2>1. [StoreNext]_storeVars
    BY <1>8 DEF TickResolve, StoreNext
  <2>2. Carried'
    BY <1>8 DEF TickResolve, Verdicts, Live
  <2>3. QED
    BY <2>1, <2>2
<1>9. ASSUME NEW a \in Auctions, SolveRead(a) \/ DriverSubmit(a) \/ DriverOutcome(a)
      PROVE  Sound
  BY <1>9 DEF SolveRead, DriverSubmit, DriverOutcome
<1>10. ASSUME NEW a \in Auctions, NEW p \in Proposals, SolveRecord(a, p)
       PROVE  Sound
  <2>1. [StoreNext]_storeVars
    BY <1>10 DEF SolveRecord, StoreNext
  <2>2. Carried'
    BY <1>10 DEF SolveRecord
  <2>3. QED
    BY <2>1, <2>2
<1>11. ASSUME NEW a \in Auctions, NEW o \in Outcomes, Notify(a, o)
       PROVE  Sound
  <2>1. SolutionProposals(a, settle[a].won) \subseteq Proposals
    BY DEF SolutionProposals, StoreTypeOK, Solution
  <2>2. applying' \subseteq Applying
    BY <1>11, <2>1 DEF Notify, Applying, Attributed
  <2>3. QED
    BY <1>11, <2>2 DEF Notify
<1>12. ASSUME NEW n \in applying, NotifyApply(n)
       PROVE  Sound
  <2>1. /\ n.proposal \in Proposals /\ n.outcome \in Outcomes
        /\ n.auction \in Tx /\ n.outcome \in Reports
    BY DEF Applying, Reports
  <2>2. [StoreNext]_storeVars
    BY <1>12, <2>1 DEF NotifyApply, StoreNext
  <2>3. Carried'
    BY <1>12 DEF NotifyApply
  <2>4. QED
    BY <2>2, <2>3
<1>13. CASE Debited \/ Sweep
  BY <1>13 DEF Debited, Sweep, StoreNext, serviceVars
<1>14. CASE Crash
  BY <1>14 DEF Crash, NoTick
<1>15. ASSUME NEW e \in audit, Write(e)
       PROVE  Sound
  BY <1>15 DEF Write
<1>16. CASE UNCHANGED vars
  BY <1>16 DEF vars, serviceVars
<1>17. QED
  BY <1>1, <1>2, <1>3, <1>4, <1>5, <1>6, <1>7, <1>8, <1>9, <1>10, <1>11, <1>12,
     <1>13, <1>14, <1>15, <1>16 DEF Next, Served, Tick

\* Only the audit writer inserts evidence, and only what was emitted.
LEMMA WrittenStep ==
  ASSUME [Next]_vars
  PROVE  written' = written \/ \E e \in audit : Write(e)
<1>1. CASE UNCHANGED serviceVars
  BY <1>1 DEF serviceVars
<1>2. CASE Tick
  BY <1>2 DEF Tick, TickBegin, TickSnapshot, TickExpire, TickSimulate, TickResolve
<1>3. ASSUME NEW a \in Auctions,
             \/ SolveRead(a) \/ DriverSubmit(a) \/ DriverOutcome(a)
             \/ \E p \in Proposals : SolveRecord(a, p)
             \/ \E o \in Outcomes : Notify(a, o)
      PROVE  written' = written
  BY <1>3 DEF SolveRead, SolveRecord, DriverSubmit, DriverOutcome, Notify
<1>4. ASSUME NEW n \in applying, NotifyApply(n)
      PROVE  written' = written
  BY <1>4 DEF NotifyApply
<1>5. CASE Crash
  BY <1>5 DEF Crash
<1>6. CASE UNCHANGED vars
  BY <1>1, <1>6 DEF vars
<1>7. QED
  BY <1>1, <1>2, <1>3, <1>4, <1>5, <1>6
     DEF Next, Served, Post, Delete, Debited, Sweep

\* Each step of the service is one of the store's, or the end of its process.
LEMMA InvStep ==
  ASSUME Inv, [Next]_vars
  PROVE  Inv' /\ [MortalNext]_storeVars
<1>1. Carried'
  BY ServiceStep DEF Sound
<1>2. CASE Crash
  <2>1. Forgets /\ written' \subseteq audit'
    BY <1>2 DEF Crash, Forgets, Inv
  <2>2. QED
    BY <1>1, <2>1, TypeStep DEF Inv, MortalNext
<1>3. CASE ~ Crash
  <2>1. [StoreNext]_storeVars
    BY <1>3, ServiceStep DEF Sound
  <2>2. StoreTypeOK'
    BY <2>1, TypeStep DEF Inv, MortalNext
  <2>3. audit \subseteq audit'
    BY <2>1, TrailGrows
  <2>4. written' \subseteq audit'
    BY <2>3, WrittenStep DEF Write, Inv
  <2>5. QED
    BY <1>1, <2>1, <2>2, <2>4 DEF Inv, MortalNext
<1>4. QED
  BY <1>2, <1>3

\* The service is a client of its store, in a process that may die.
THEOREM ServiceDrivesStore == Spec => MortalSpec
<1>1. Init => StoreInit /\ Inv
  BY TypeInit DEF Init, Inv, Carried, NoTick
<1>2. Inv /\ [Next]_vars => Inv' /\ [MortalNext]_storeVars
  BY InvStep
<1>3. QED
  BY <1>1, <1>2, PTL DEF Spec, MortalSpec

----------------------------------------------------------------------------
(* The service's own state. *)

\* The bids of an auction are numbered from one by solution ids.
Numbered == \A a \in Auctions : \A s \in 1 .. Len(solve[a].bids) : s \in SolutionIds

Typed == ServiceTypeOK /\ Numbered

\* Bids are taken in one call's record.
LEMMA BidsTyped ==
  ASSUME solve \in [Auctions -> [picked : SUBSET Proposals, bids : Seq(Proposals)]],
         NEW a \in Auctions, NEW p, NEW b \in Seq(Proposals),
         solve' = [solve EXCEPT ![a].picked = @ \ {p}, ![a].bids = b]
  PROVE  /\ \A c \in Auctions : solve'[c].bids = IF c = a THEN b ELSE solve[c].bids
         /\ solve' \in [Auctions -> [picked : SUBSET Proposals, bids : Seq(Proposals)]]
<1> DEFINE Call  == [picked : SUBSET Proposals, bids : Seq(Proposals)]
           taken == [solve EXCEPT ![a].picked = @ \ {p}]
<1>1. /\ taken \in [Auctions -> Call]
      /\ \A c \in Auctions : taken[c].bids = solve[c].bids
  <2>1. \A c \in Call : /\ [c EXCEPT !.picked = @ \ {p}] \in Call
                        /\ [c EXCEPT !.picked = @ \ {p}].bids = c.bids
    OBVIOUS
  <2> HIDE DEF Call
  <2>2. solve \in [Auctions -> Call]
    BY DEF Call
  <2>3. QED
    BY <2>1, <2>2
<1>2. solve' = [taken EXCEPT ![a].bids = b]
  OBVIOUS
<1> HIDE DEF taken
<1>3. \A c \in Call : [c EXCEPT !.bids = b] \in Call /\ [c EXCEPT !.bids = b].bids = b
  OBVIOUS
<1> HIDE DEF Call
<1>4. /\ solve' \in [Auctions -> Call]
      /\ \A c \in Auctions : solve'[c].bids = IF c = a THEN b ELSE taken[c].bids
  <2> DEFINE now == [taken[a] EXCEPT !.bids = b]
  <2>1. solve' = [taken EXCEPT ![a] = now]
    BY <1>2
  <2>2. now \in Call /\ now.bids = b
    BY <1>1, <1>3
  <2> HIDE DEF now
  <2>3. QED
    BY <1>1, <2>1, <2>2
<1>5. QED
  BY <1>1, <1>4 DEF Call

LEMMA ShapeStep ==
  ASSUME Typed, Inv', [Next]_vars
  PROVE  Typed'
<1> USE StoreAssumption, ServiceAssumption
    DEF Typed, ServiceTypeOK, Numbered, Inv, Carried, Applying
<1>1. CASE UNCHANGED serviceVars
  BY <1>1 DEF serviceVars
<1>2. CASE Tick
  <2>1. CASE TickBegin
    <3>1. clock \in Nat
      BY DEF StoreTypeOK
    <3>2. loop' \in [due : BOOLEAN, now : Nat, late : SUBSET Proposals]
      BY <2>1, <3>1 DEF TickBegin
    <3>3. QED
      BY <2>1, <3>2 DEF TickBegin
  <2>2. CASE TickSnapshot
    <3> DEFINE late == {p \in Proposals : /\ row[p].status \in Live
                                          /\ row[p].validUntil < loop.now}
    <3>1. loop' = NoTick \/ loop' = [NoTick EXCEPT !.late = late]
      BY <2>2, Zenon DEF TickSnapshot
    <3>2. loop' \in [due : BOOLEAN, now : Nat, late : SUBSET Proposals]
      <4>1. late \in SUBSET Proposals
        OBVIOUS
      <4> HIDE DEF late
      <4>2. CASE loop' = NoTick
        BY <4>2 DEF NoTick
      <4>3. CASE loop' = [NoTick EXCEPT !.late = late]
        <5>1. loop' = [due |-> FALSE, now |-> 0, late |-> late]
          BY <4>3 DEF NoTick
        <5>2. QED
          BY <4>1, <5>1
      <4>4. QED
        BY <3>1, <4>2, <4>3
    <3>3. QED
      BY <2>2, <3>2 DEF TickSnapshot
  <2>3. ASSUME NEW p \in Proposals, TickExpire(p)
        PROVE  Typed'
    BY <2>3 DEF TickExpire
  <2>4. ASSUME NEW p \in Proposals, TickSimulate(p) \/ TickResolve(p)
        PROVE  Typed'
    BY <2>4 DEF TickSimulate, TickResolve
  <2>5. QED
    BY <1>2, <2>1, <2>2, <2>3, <2>4 DEF Tick
<1>3. ASSUME NEW a \in Auctions, SolveRead(a)
      PROVE  Typed'
  BY <1>3 DEF SolveRead, Biddable
<1>4. ASSUME NEW a \in Auctions, NEW p \in Proposals, SolveRecord(a, p)
      PROVE  Typed'
  <2> DEFINE bids == solve[a].bids
             id   == Len(bids) + 1
  <2>1. /\ bids \in Seq(Proposals) /\ Append(bids, p) \in Seq(Proposals)
        /\ Len(Append(bids, p)) = id /\ id \in SolutionIds
        /\ \A s \in 1 .. id : s = id \/ s \in 1 .. Len(bids)
    BY <1>4 DEF SolveRecord
  <2>2. PICK b \in {bids, Append(bids, p)} :
          solve' = [solve EXCEPT ![a].picked = @ \ {p}, ![a].bids = b]
    BY <1>4 DEF SolveRecord
  <2>3. b \in Seq(Proposals) /\ \A s \in 1 .. Len(b) : s \in SolutionIds
    BY <2>1, <2>2
  <2>4. /\ \A c \in Auctions : solve'[c].bids = IF c = a THEN b ELSE solve[c].bids
        /\ solve' \in [Auctions -> [picked : SUBSET Proposals, bids : Seq(Proposals)]]
    BY <2>2, <2>3, BidsTyped
  <2>5. Numbered'
    BY <2>3, <2>4
  <2>6. QED
    BY <1>4, <2>4, <2>5 DEF SolveRecord
<1>5. ASSUME NEW a \in Auctions, DriverSubmit(a)
      PROVE  Typed'
  BY <1>5 DEF DriverSubmit, Outcomes
<1>6. ASSUME NEW a \in Auctions, DriverOutcome(a)
      PROVE  Typed'
  <2>1. PICK o \in Outcomes : settle' = [settle EXCEPT ![a].fate = o]
    BY <1>6 DEF DriverOutcome
  <2>2. settle' \in [Auctions -> [won : SUBSET SolutionIds, fate : {None} \cup Outcomes]]
    <3> DEFINE Settling == [won : SUBSET SolutionIds, fate : {None} \cup Outcomes]
    <3>1. \A r \in Settling : [r EXCEPT !.fate = o] \in Settling
      OBVIOUS
    <3>2. settle \in [Auctions -> Settling]
      OBVIOUS
    <3> HIDE DEF Settling
    <3>3. settle' \in [Auctions -> Settling]
      BY <2>1, <3>1, <3>2
    <3>4. QED
      BY <3>3 DEF Settling
  <2>3. QED
    BY <1>6, <2>2 DEF DriverOutcome
<1>7. ASSUME NEW a \in Auctions, NEW o \in Outcomes, Notify(a, o)
      PROVE  Typed'
  BY <1>7 DEF Notify
<1>8. ASSUME NEW n \in applying, NotifyApply(n)
      PROVE  Typed'
  BY <1>8 DEF NotifyApply
<1>9. CASE Crash
  <2>1. solve' \in [Auctions -> [picked : SUBSET Proposals, bids : Seq(Proposals)]]
    BY <1>9 DEF Crash, NoCall
  <2>2. Numbered'
    BY <1>9 DEF Crash, NoCall
  <2>3. QED
    BY <1>9, <2>1, <2>2 DEF Crash, NoTick
<1>10. ASSUME NEW e \in audit, Write(e)
       PROVE  Typed'
  BY <1>10 DEF Write
<1>11. CASE UNCHANGED vars
  BY <1>1, <1>11 DEF vars
<1>12. QED
  BY <1>1, <1>2, <1>3, <1>4, <1>5, <1>6, <1>7, <1>8, <1>9, <1>10, <1>11
     DEF Next, Served, Post, Delete, Debited, Sweep

\* Loops, calls, the driver's state and what is on its way to /notify keep
\* their types, over every interleaving, fault and crash.
THEOREM ServiceTyped == Spec => []ServiceTypeOK
<1>1. Init => Inv /\ Typed
  BY TypeInit, StoreAssumption, ServiceAssumption
     DEF Init, Inv, Carried, NoTick, NoCall, Typed, ServiceTypeOK, Numbered
<1>2. Inv /\ Typed /\ [Next]_vars => (Inv /\ Typed)'
  BY InvStep, ShapeStep
<1>3. Typed => ServiceTypeOK
  BY DEF Typed
<1>4. QED
  BY <1>1, <1>2, <1>3, PTL DEF Spec

\* Hence, with the driver, the loops and crashes in play, each proposal still
\* lives the promised lifecycle,
THEOREM ServiceLifecycle == Spec => ImplementsLifecycle
  BY ServiceDrivesStore, LifecycleImplemented

\* and its evidence and its attribution stay right.
THEOREM ServiceEvidence == Spec => [](EvidenceColumns /\ AttributionIntegrity)
  BY ServiceDrivesStore, EvidenceAlways, AttributionKept, PTL

----------------------------------------------------------------------------
(* What every state has, and what each step does to a row, to a call and to  *)
(* the attribution table.                                                    *)

Base == Inv /\ Typed /\ EvidenceColumns /\ AttributionIntegrity

LEMMA BaseInit == Init => Base
  BY TypeInit, StoreAssumption, ServiceAssumption
     DEF Init, Inv, Carried, NoTick, NoCall, Typed, ServiceTypeOK, Numbered, Base,
         StoreInit, EvidenceColumns, AttributionIntegrity, Blank, Money

\* Every one of these holds step by step.
LEMMA BaseStep ==
  ASSUME Base, [Next]_vars
  PROVE  Base'
<1>1. [MortalNext]_storeVars /\ Inv' /\ Typed'
  BY InvStep, ShapeStep DEF Base
<1>2. CASE [StoreNext]_storeVars
  BY <1>1, <1>2, EvidenceStep, AttributionStep DEF Base, Inv
<1>3. CASE Forgets
  BY <1>1, <1>3 DEF Base, Forgets, EvidenceColumns, AttributionIntegrity, Exists
<1>4. QED
  BY <1>1, <1>2, <1>3 DEF MortalNext

LEMMA BaseAlways == Spec => []Base
  BY BaseInit, BaseStep, PTL DEF Spec

\* The steps of the actors that write rows, charges or the trail, debits apart.
Writes ==
  \/ \E p \in Proposals : \/ \E vu \in 0 .. MaxTime : Post(p, vu)
                          \/ \E signer \in Signers : Delete(p, signer)
                          \/ TickExpire(p) \/ TickResolve(p)
  \/ TickBegin
  \/ \E n \in applying : NotifyApply(n)
  \/ Sweep

\* The rest of the steps; only a death loses evidence.
Quiet == UNCHANGED <<row, penalties>> /\ (audit' = audit \/ Crash)

LEMMA ServedWrites ==
  ASSUME Served
  PROVE  Quiet \/ Writes
<1>1. ASSUME AdvanceClock
      PROVE  Quiet
  BY <1>1 DEF AdvanceClock, Quiet
<1>2. ASSUME NEW a \in Auctions,
             SolveRead(a) \/ DriverSubmit(a) \/ DriverOutcome(a)
               \/ \E o \in Outcomes : Notify(a, o)
      PROVE  Quiet
  BY <1>2 DEF SolveRead, DriverSubmit, DriverOutcome, Notify, storeVars, Quiet
<1>3. ASSUME NEW a \in Auctions, NEW p \in Proposals, SolveRecord(a, p)
      PROVE  Quiet
  BY <1>3 DEF SolveRecord, RecordSolution, storeVars, Quiet
<1>4. ASSUME NEW p \in Proposals, TickSimulate(p)
      PROVE  Quiet
  BY <1>4 DEF TickSimulate, storeVars, Quiet
<1>5. ASSUME TickSnapshot
      PROVE  Quiet
  BY <1>5 DEF TickSnapshot, storeVars, Quiet
<1>6. ASSUME NEW p \in Proposals,
             \/ \E vu \in 0 .. MaxTime : Post(p, vu)
             \/ \E signer \in Signers : Delete(p, signer)
             \/ TickExpire(p) \/ TickResolve(p)
      PROVE  Writes
  BY <1>6 DEF Writes
<1>7. TickBegin \/ (\E n \in applying : NotifyApply(n)) \/ Sweep => Writes
  BY Zenon DEF Writes
<1>8. Tick => Quiet \/ Writes
  BY <1>4, <1>5, <1>6, <1>7, Zenon DEF Tick
<1>9. ASSUME NEW e \in audit, Write(e)
      PROVE  Quiet
  BY <1>9 DEF Write, storeVars, Quiet
<1>10. QED
  BY <1>1, <1>2, <1>3, <1>6, <1>7, <1>8, <1>9, Zenon DEF Served

\* A step leaves the rows and the charges alone, and the trail unless the
\* process dies, or is one of these.
LEMMA StoreUsers ==
  ASSUME [Next]_vars
  PROVE  Quiet \/ Writes \/ Debited
<1>1. Crash \/ UNCHANGED vars => Quiet
  BY DEF Crash, vars, storeVars, Quiet
<1>2. QED
  BY <1>1, ServedWrites, Zenon DEF Next

\* A step that reports no outcome: whatever it makes of proposal q, it does not
\* freeze it, and neither settles it nor takes back that it was settled.
Undecided(q) ==
  LET from == row[q].status
      to   == row'[q].status
  IN /\ to = "unborn" => from = "unborn"
     /\ from = "gone" => to = "gone"
     /\ to = "executing" => from = "executing"
     /\ from \in Money <=> to \in Money
     /\ from \in Money => row'[q].settlementTx = row[q].settlementTx
     /\ to = "settled" <=> from = "settled"

\* The operations of the store that report no outcome.
OtherStep ==
  \/ UNCHANGED row
  \/ \E p \in Proposals :
       \/ \E vu \in 0 .. MaxTime : Insert(p, vu)
       \/ \E from \in Live : Transition(p, from, "expired")
       \/ \E v \in Verdicts : ResolveVerdict(p, v)
       \/ \E signer \in Signers : Cancel(p, signer)
       \/ RecordPenalty(p)
  \/ ReleaseStaleExecuting
  \/ SweepDropped

LEMMA OtherUndecided ==
  ASSUME StoreTypeOK, OtherStep, NEW q \in Proposals
  PROVE  Undecided(q)
<1> USE DEF Undecided, Live, Dropped, Money
<1>0. row \in [Proposals -> Row]
  BY DEF StoreTypeOK
<1>1. CASE row'[q] = row[q]
  BY <1>1
<1>2. ASSUME row'[q] # row[q], NEW vu \in 0 .. MaxTime, Insert(q, vu)
      PROVE  Undecided(q)
  BY <1>0, <1>2 DEF Insert, Posted, Blank
<1>3. ASSUME NEW from \in Live, Transition(q, from, "expired")
      PROVE  Undecided(q)
  BY <1>0, <1>3 DEF Transition, Moved, Row
<1>4. ASSUME NEW v \in Verdicts, ResolveVerdict(q, v)
      PROVE  Undecided(q)
  <2>1. /\ row[q].status \in Live
        /\ row'[q].status \in {"active", "rejected", "simFailed"}
    BY <1>0, <1>4 DEF ResolveVerdict, Judged, Row, VerdictStatus, Verdicts
  <2>2. QED
    BY <2>1
<1>5. ASSUME NEW signer \in Signers, Cancel(q, signer)
      PROVE  Undecided(q)
  BY <1>0, <1>5 DEF Cancel, Moved, Row
<1>6. CASE RecordPenalty(q)
  BY <1>0, <1>6 DEF RecordPenalty, Moved, Row
<1>7. CASE ReleaseStaleExecuting
  BY <1>0, <1>7 DEF ReleaseStaleExecuting, Stale, Moved, Row
<1>8. CASE SweepDropped
  BY <1>0, <1>8 DEF SweepDropped, Sweepable, Blank
<1>9. ASSUME NEW p \in Proposals, p # q,
             \/ \E vu \in 0 .. MaxTime : Insert(p, vu)
             \/ \E from \in Live : Transition(p, from, "expired")
             \/ \E v \in Verdicts : ResolveVerdict(p, v)
             \/ \E signer \in Signers : Cancel(p, signer)
             \/ RecordPenalty(p)
      PROVE  row'[q] = row[q]
  BY <1>0, <1>9 DEF Insert, Transition, ResolveVerdict, Cancel, RecordPenalty
<1>10. QED
  BY <1>1, <1>2, <1>3, <1>4, <1>5, <1>6, <1>7, <1>8, <1>9 DEF OtherStep

\* Only /notify reports an outcome to the store, one proposal at a time.
Settles(n) ==
  /\ row[n.proposal].status \in LegalFrom(n.outcome)
  /\ row' = [row EXCEPT ![n.proposal] = Resolved(row[n.proposal], n.outcome, n.auction)]

LEMMA RowStep ==
  ASSUME Base, [Next]_vars
  PROVE  \/ OtherStep
         \/ \E n \in applying : NotifyApply(n) /\ Settles(n)
<1> USE DEF OtherStep, Base, Inv, Carried
<1>1. CASE UNCHANGED row
  BY <1>1
<1>2. ASSUME NEW p \in Proposals,
             \/ \E vu \in 0 .. MaxTime : Post(p, vu)
             \/ \E signer \in Signers : Delete(p, signer)
             \/ TickExpire(p) \/ TickResolve(p)
      PROVE  OtherStep
  BY <1>2 DEF Post, Delete, TickExpire, TickResolve, storeVars
<1>3. CASE TickBegin
  BY <1>3 DEF TickBegin, storeVars
<1>4. CASE Debited \/ Sweep
  BY <1>4 DEF Debited, Sweep, RecordNonSettlementDebit
<1>5. ASSUME NEW n \in applying, NotifyApply(n)
      PROVE  UNCHANGED row \/ Settles(n)
  BY <1>5 DEF NotifyApply, ApplySettlementOutcome, NoteDriverNotification,
              storeVars, Settles
<1>6. QED
  <2> HIDE DEF OtherStep
  <2>1. CASE \E n \in applying : NotifyApply(n)
    BY <1>1, <1>5, <2>1
  <2>2. QED
    BY <1>1, <1>2, <1>3, <1>4, <2>1, StoreUsers DEF Quiet, Writes

\* What an outcome makes of the row it is for.
LEMMA OutcomeRow ==
  ASSUME Base, NEW n \in applying, Settles(n), NEW q \in Proposals
  PROVE  /\ n.proposal \in Proposals /\ n.auction \in Auctions
         /\ q # n.proposal => row'[q] = row[q]
         /\ row[n.proposal].status \in {"active", "executing"}
         /\ row'[n.proposal].status = OutcomeStatus(n.outcome)
         /\ n.outcome \in {"succeeded", "reverted"} =>
              row'[n.proposal].settlementTx = n.auction
<1>1. /\ n.proposal \in Proposals /\ n.auction \in Auctions /\ n.outcome \in Outcomes
      /\ row \in [Proposals -> Row]
  BY DEF Base, Inv, StoreTypeOK, Carried, Applying
<1>2. row'[n.proposal] = Resolved(row[n.proposal], n.outcome, n.auction)
  BY <1>1 DEF Settles
<1>3. row[n.proposal].status \in {"active", "executing"}
  BY <1>1 DEF Settles, LegalFrom, Outcomes
<1>4. row'[n.proposal].status = OutcomeStatus(n.outcome)
  BY <1>1, <1>2 DEF Resolved, Moved, Row
<1>5. n.outcome \in {"succeeded", "reverted"} => row'[n.proposal].settlementTx = n.auction
  BY <1>1, <1>2 DEF Resolved, Moved, Row
<1>6. QED
  BY <1>1, <1>3, <1>4, <1>5 DEF Settles

\* A proposal's row comes once and goes once.
LEMMA RowsOnce ==
  ASSUME Base, [Next]_vars, NEW q \in Proposals
  PROVE  /\ row'[q].status = "unborn" => row[q].status = "unborn"
         /\ row[q].status = "gone" => row'[q].status = "gone"
<1>1. CASE OtherStep
  BY <1>1, OtherUndecided DEF Undecided, Base, Inv
<1>2. ASSUME NEW n \in applying, Settles(n)
      PROVE  /\ row'[q].status = "unborn" => row[q].status = "unborn"
             /\ row[q].status = "gone" => row'[q].status = "gone"
  <2>1. OutcomeStatus(n.outcome) # "unborn"
    BY DEF OutcomeStatus, Base, Inv, Carried, Applying, Outcomes
  <2>2. QED
    BY <1>2, <2>1, OutcomeRow
<1>3. QED
  BY <1>1, <1>2, RowStep

----------------------------------------------------------------------------
(* Attribution: the bids a /solve call has recorded. *)

Bids(a)      == 1 .. Len(solve[a].bids)
Key(a, s, p) == [auction |-> a, solution |-> s, proposal |-> p]

\* Every bid was built on a proposal that was there, its key was never given to
\* another, and is in the table as long as the proposal is.
NamedBid(a, s) ==
  LET p == solve[a].bids[s]
  IN /\ row[p].status # "unborn"
     /\ \A r \in solutions : r.auction = a /\ r.solution = s => r.proposal = p
     /\ Exists(p) => Key(a, s, p) \in solutions

BidsNamed == \A a \in Auctions : \A s \in Bids(a) : NamedBid(a, s)

\* Who writes the attribution table.
LEMMA SolutionsStep ==
  ASSUME [Next]_vars
  PROVE  \/ solutions' = solutions
         \/ SweepDropped /\ UNCHANGED solve
         \/ \E a \in Auctions, p \in Proposals : SolveRecord(a, p)
<1>1. ASSUME NEW p \in Proposals,
             \/ \E vu \in 0 .. MaxTime : Post(p, vu)
             \/ \E signer \in Signers : Delete(p, signer)
             \/ TickExpire(p) \/ TickResolve(p) \/ TickSimulate(p)
      PROVE  solutions' = solutions
  BY <1>1 DEF Post, Delete, TickExpire, TickResolve, TickSimulate, storeVars,
              Insert, Cancel, Transition, ResolveVerdict
<1>2. CASE TickBegin \/ TickSnapshot
  BY <1>2 DEF TickBegin, TickSnapshot, storeVars, ReleaseStaleExecuting
<1>3. CASE Debited
  BY <1>3 DEF Debited, RecordPenalty, RecordNonSettlementDebit
<1>4. CASE Sweep
  BY <1>4 DEF Sweep, serviceVars
<1>5. ASSUME NEW n \in applying, NotifyApply(n)
      PROVE  solutions' = solutions
  BY <1>5 DEF NotifyApply, ApplySettlementOutcome, NoteDriverNotification, storeVars
<1>6. QED
  BY <1>1, <1>2, <1>3, <1>4, <1>5
     DEF Next, Served, Tick, AdvanceClock, SolveRead, DriverSubmit, DriverOutcome, Notify,
         Write, Crash, vars, storeVars

\* Who touches the calls, other than by recording a bid: a call starts, or the
\* process dies.  Either way what is left of the bids is as it was.
LEMMA BidsStep ==
  ASSUME Base, [Next]_vars, NEW a \in Auctions
  PROVE  \/ \E p \in Proposals : SolveRecord(a, p)
         \/ solve'[a] = solve[a]
         \/ solve'[a].bids = <<>>
<1> USE DEF Base, Typed, ServiceTypeOK
<1>1. ASSUME NEW b \in Auctions, SolveRead(b)
      PROVE  solve'[a] = solve[a] \/ solve'[a].bids = <<>>
  BY <1>1 DEF SolveRead
<1>2. ASSUME NEW b \in Auctions, b # a, NEW p \in Proposals, SolveRecord(b, p)
      PROVE  solve'[a] = solve[a]
  BY <1>2 DEF SolveRecord
<1>3. CASE Crash
  BY <1>3 DEF Crash, NoCall
<1>4. QED
  BY <1>1, <1>2, <1>3
     DEF Next, Served, Tick, TickBegin, TickSnapshot, TickExpire, TickSimulate, TickResolve,
         Post, Delete, DriverSubmit, DriverOutcome, Notify, NotifyApply, Debited,
         Sweep, Write, vars, serviceVars

\* A recorded pick is bid under an id not bid before; the other bids keep theirs.
LEMMA RecordStep ==
  ASSUME Base, Base', BidsNamed, NEW b \in Auctions, NEW p \in Proposals, SolveRecord(b, p)
  PROVE  BidsNamed'
<1>0. PICK id : id = Len(solve[b].bids) + 1
  OBVIOUS
<1>1. /\ solve \in [Auctions -> [picked : SUBSET Proposals, bids : Seq(Proposals)]]
      /\ solve[b].bids \in Seq(Proposals) /\ Len(solve[b].bids) \in Nat
  BY DEF Base, Typed, ServiceTypeOK
<1>2. row' = row
  BY DEF SolveRecord, RecordSolution, storeVars
<1>3. ASSUME NEW a \in Auctions, NEW s \in Bids(a),
             solve'[a].bids[s] = solve[a].bids[s],
             solutions' = solutions \/ RecordSolution(b, id, p)
      PROVE  NamedBid(a, s)'
  <2>0. PICK q : q = solve[a].bids[s]
    OBVIOUS
  <2>1. NamedBid(a, s) /\ ~ (a = b /\ s = id)
    BY <1>0, <1>1 DEF BidsNamed, Bids
  <2>2. CASE solutions' = solutions
    BY <1>2, <1>3, <2>1, <2>2 DEF NamedBid, Exists
  <2>3. CASE RecordSolution(b, id, p)
    <3>1. \A r \in solutions' : r \in solutions \/ r = Key(b, id, p)
      BY <2>3 DEF RecordSolution, Key
    <3>2. \A r \in solutions' : r.auction = a /\ r.solution = s => r \in solutions
      BY <2>1, <3>1 DEF Key
    <3>3. Key(a, s, q) \in solutions => Key(a, s, q) \in solutions'
      BY <2>1, <2>3 DEF RecordSolution, Key
    <3>4. QED
      BY <1>2, <1>3, <2>0, <2>1, <3>2, <3>3 DEF NamedBid, Exists
  <2>4. QED
    BY <1>3, <2>2, <2>3
<1>4. ASSUME RecordSolution(b, id, p), solve'[b].bids[id] = p
      PROVE  NamedBid(b, id)'
  <2>1. \A r \in solutions' : r.auction = b /\ r.solution = id => r = Key(b, id, p)
    BY <1>4 DEF RecordSolution, Key
  <2>2. Key(b, id, p) \in solutions' /\ row[p].status \in Status
    BY <1>4 DEF RecordSolution, Key, Exists
  <2>3. row[p].status # "unborn"
    BY <2>2 DEF Status, Live, Dropped, Money
  <2>4. QED
    BY <1>2, <1>4, <2>1, <2>2, <2>3 DEF NamedBid, Key
<1>5. ASSUME NEW a \in Auctions, NEW s \in Bids(a)'
      PROVE  NamedBid(a, s)'
  <2> DEFINE bids == solve[b].bids
  <2>1. PICK new \in {bids, Append(bids, p)} :
          /\ solve' = [solve EXCEPT ![b].picked = @ \ {p}, ![b].bids = new]
          /\ new = bids => solutions' = solutions \/ RecordSolution(b, id, p)
          /\ new # bids => RecordSolution(b, id, p)
    BY <1>0, <1>1 DEF SolveRecord, storeVars
  <2>2. \A c \in Auctions : solve'[c].bids = IF c = b THEN new ELSE solve[c].bids
    BY <1>1, <2>1
  <2>3. CASE a # b \/ new = bids
    BY <1>3, <1>5, <2>1, <2>2, <2>3 DEF Bids
  <2>4. CASE a = b /\ new # bids
    <3>1. /\ new = Append(bids, p) /\ Len(new) = id /\ new[id] = p
          /\ \A i \in 1 .. Len(bids) : new[i] = bids[i]
      BY <1>0, <1>1, <2>1, <2>4
    <3>2. s = id \/ s \in Bids(b)
      <4>1. s \in 1 .. id
        BY <1>5, <2>2, <2>4, <3>1 DEF Bids
      <4>2. QED
        BY <1>0, <1>1, <4>1 DEF Bids
    <3>3. RecordSolution(b, id, p)
      BY <2>1, <2>4
    <3>4. solve'[b].bids = new
      BY <2>2
    <3>5. CASE s = id
      BY <1>4, <2>4, <3>1, <3>3, <3>4, <3>5
    <3>6. CASE s \in Bids(b)
      <4>1. solve'[b].bids[s] = solve[b].bids[s]
        BY <3>1, <3>4, <3>6 DEF Bids
      <4>2. QED
        BY <1>3, <2>4, <3>3, <3>6, <4>1
    <3>7. QED
      BY <3>2, <3>5, <3>6
  <2>5. QED
    BY <2>3, <2>4
<1>6. QED
  BY <1>5 DEF BidsNamed

\* Every other step leaves the bids, and of their keys forgets only those of
\* proposals it deletes.
LEMMA NamedStep ==
  ASSUME Base, Base', BidsNamed, [Next]_vars
  PROVE  BidsNamed'
<1>1. ASSUME NEW b \in Auctions, NEW p \in Proposals, SolveRecord(b, p)
      PROVE  BidsNamed'
  BY <1>1, RecordStep
<1>2. ASSUME ~ \E b \in Auctions, p \in Proposals : SolveRecord(b, p),
             NEW a \in Auctions, NEW s \in Bids(a)'
      PROVE  NamedBid(a, s)'
  <2>1. solve'[a] = solve[a] \/ solve'[a].bids = <<>>
    BY <1>2, BidsStep
  <2>2. solve'[a] = solve[a] /\ s \in Bids(a)
    BY <1>2, <2>1 DEF Bids
  <2>0. PICK q : q = solve[a].bids[s]
    OBVIOUS
  <2>3. NamedBid(a, s) /\ q \in Proposals
    BY <2>0, <2>2 DEF BidsNamed, Bids, Base, Typed, ServiceTypeOK
  <2>4. row'[q].status # "unborn"
    BY <2>0, <2>3, RowsOnce DEF NamedBid
  <2>5. Exists(q)' => Exists(q)
    <3>1. row[q] \in Row /\ row'[q] \in Row
      BY <2>3 DEF Base, Inv, StoreTypeOK
    <3>2. row[q].status = "gone" => row'[q].status = "gone"
      BY <2>0, <2>3, RowsOnce
    <3>3. QED
      BY <2>0, <2>3, <3>1, <3>2
         DEF NamedBid, Exists, Row, NoRow, Status, Live, Dropped, Money
  <2>6. CASE solutions' = solutions
    BY <2>0, <2>2, <2>3, <2>4, <2>5, <2>6 DEF NamedBid
  <2>7. CASE SweepDropped
    <3>1. Exists(q)' => ~ Sweepable(q)
      BY <2>0, <2>3, <2>7
         DEF SweepDropped, Exists, Blank, Status, Live, Dropped, Money
    <3>2. Exists(q)' => Key(a, s, q) \in solutions'
      BY <2>0, <2>3, <2>5, <2>7, <3>1 DEF NamedBid, SweepDropped, Key
    <3>3. \A r \in solutions' : r \in solutions
      BY <2>7 DEF SweepDropped
    <3>4. QED
      BY <2>0, <2>2, <2>3, <2>4, <3>2, <3>3 DEF NamedBid
  <2>8. QED
    BY <1>2, <2>6, <2>7, SolutionsStep
<1>3. QED
  BY <1>1, <1>2 DEF BidsNamed

LEMMA NamedAlways == Spec => []BidsNamed
<1>1. Init => BidsNamed
  BY DEF Init, BidsNamed, Bids, NoCall
<1>2. Base /\ Base' /\ BidsNamed /\ [Next]_vars => BidsNamed'
  BY NamedStep
<1>3. QED
  BY <1>1, <1>2, BaseAlways, PTL DEF Spec

\* A returned bid is attributed to the proposal it was built on, and to no other,
\* for as long as that proposal has a row: over dropped bids whose ids are used
\* again, commits whose reply was lost, crashes between a record and the next,
\* and auctions that are asked for again (storage.rs, 842-848).
THEOREM BidsAttributed == Spec => []AttributionExact
<1>1. Base /\ BidsNamed => AttributionExact
  <2> SUFFICES ASSUME Base, BidsNamed, NEW a \in Auctions, NEW s \in Bids(a)
               PROVE  SolutionProposals(a, {s})
                        = IF Exists(solve[a].bids[s]) THEN {solve[a].bids[s]} ELSE {}
    BY DEF AttributionExact, Bids
  <2> DEFINE p == solve[a].bids[s]
  <2>1. NamedBid(a, s)
    BY DEF BidsNamed
  <2>2. \A q \in SolutionProposals(a, {s}) : q = p /\ Exists(q)
    BY <2>1 DEF SolutionProposals, NamedBid, Base, AttributionIntegrity
  <2>3. Exists(p) => p \in SolutionProposals(a, {s})
    <3> SUFFICES ASSUME Exists(p) PROVE p \in SolutionProposals(a, {s})
      OBVIOUS
    <3>1. Key(a, s, p) \in solutions
      BY <2>1 DEF NamedBid
    <3>2. Key(a, s, p).auction = a /\ Key(a, s, p).solution = s /\ Key(a, s, p).proposal = p
      BY DEF Key
    <3>3. QED
      BY <3>1, <3>2 DEF SolutionProposals
  <2>4. QED
    BY <2>2, <2>3
<1>2. QED
  BY <1>1, BaseAlways, NamedAlways, PTL

----------------------------------------------------------------------------
(* Settlements: what the driver and the chain decided, and who is told. *)

\* The driver acts only on a call that is over, and only on its bids.
CallsClosed ==
  \A a \in Auctions : settle[a].fate # None =>
    solve[a].picked = {} /\ settle[a].won \subseteq Bids(a)

\* From then on the call and the winners are fixed, and the chain decides once.
LEMMA ClosedCall ==
  ASSUME Base, CallsClosed, [Next]_vars, NEW a \in Auctions, settle[a].fate # None
  PROVE  /\ solve'[a] = solve[a]
         /\ settle'[a].won = settle[a].won
         /\ settle'[a].fate # None
         /\ settle'[a].fate = settle[a].fate \/ settle[a].fate = "started"
<1> DEFINE Goal == /\ solve'[a] = solve[a]
                   /\ settle'[a].won = settle[a].won
                   /\ settle'[a].fate # None
                   /\ settle'[a].fate = settle[a].fate \/ settle[a].fate = "started"
<1>0. /\ solve[a].picked = {}
      /\ solve \in [Auctions -> [picked : SUBSET Proposals, bids : Seq(Proposals)]]
      /\ settle \in [Auctions -> [won : SUBSET SolutionIds, fate : {None} \cup Outcomes]]
  BY DEF CallsClosed, Base, Typed, ServiceTypeOK
<1>1. ASSUME NEW b \in Auctions, SolveRead(b) \/ DriverSubmit(b)
      PROVE  Goal
  BY <1>0, <1>1 DEF SolveRead, DriverSubmit
<1>2. ASSUME NEW b \in Auctions, NEW p \in Proposals, SolveRecord(b, p)
      PROVE  Goal
  BY <1>0, <1>2 DEF SolveRecord
<1>3. ASSUME NEW b \in Auctions, DriverOutcome(b)
      PROVE  Goal
  BY <1>0, <1>3 DEF DriverOutcome, Outcomes, None
<1>4. CASE Crash
  BY <1>0, <1>4 DEF Crash
<1>5. CASE UNCHANGED <<solve, settle>>
  BY <1>5
<1>6. QED
  BY <1>1, <1>2, <1>3, <1>4, <1>5
     DEF Next, Served, Tick, TickBegin, TickSnapshot, TickExpire, TickSimulate, TickResolve,
         Post, Delete, Notify, NotifyApply, Debited, Sweep, Write,
         vars, serviceVars

LEMMA WonFixed ==
  ASSUME Base, CallsClosed, [Next]_vars, NEW a \in Auctions, settle[a].fate # None
  PROVE  Won(a)' = Won(a)
  BY ClosedCall DEF Won

\* An auction gets a fate by the driver's submission, and by nothing else.
LEMMA FateStep ==
  ASSUME Base, [Next]_vars, NEW a \in Auctions,
         settle[a].fate = None, settle'[a].fate # None
  PROVE  DriverSubmit(a) /\ settle'[a].fate = "started"
<1>0. settle \in [Auctions -> [won : SUBSET SolutionIds, fate : {None} \cup Outcomes]]
  BY DEF Base, Typed, ServiceTypeOK
<1>1. ASSUME NEW b \in Auctions, DriverSubmit(b) \/ DriverOutcome(b)
      PROVE  b = a /\ DriverSubmit(a) /\ settle'[a].fate = "started"
  BY <1>0, <1>1 DEF DriverSubmit, DriverOutcome, None
<1>2. QED
  BY <1>1
     DEF Next, Served, Tick, TickBegin, TickSnapshot, TickExpire, TickSimulate, TickResolve,
         Post, Delete, SolveRead, SolveRecord, Notify, NotifyApply, Debited, Sweep,
         Write, Crash, vars, serviceVars

LEMMA ClosedStep ==
  ASSUME Base, CallsClosed, [Next]_vars
  PROVE  CallsClosed'
<1> SUFFICES ASSUME NEW a \in Auctions, settle'[a].fate # None
             PROVE  solve'[a].picked = {} /\ settle'[a].won \subseteq Bids(a)'
  BY DEF CallsClosed
<1>1. CASE settle[a].fate # None
  BY <1>1, ClosedCall DEF CallsClosed, Bids
<1>2. CASE settle[a].fate = None
  <2>1. DriverSubmit(a)
    BY <1>2, FateStep
  <2>2. settle \in [Auctions -> [won : SUBSET SolutionIds, fate : {None} \cup Outcomes]]
    BY DEF Base, Typed, ServiceTypeOK
  <2>3. PICK S \in SUBSET (1 .. Len(solve[a].bids)) :
          settle' = [settle EXCEPT ![a] = [won |-> S, fate |-> "started"]]
    BY <2>1 DEF DriverSubmit
  <2>4. solve' = solve /\ solve[a].picked = {}
    BY <2>1 DEF DriverSubmit
  <2>5. settle'[a].won = S
    BY <2>2, <2>3
  <2>6. QED
    BY <2>3, <2>4, <2>5 DEF Bids
<1>3. QED
  BY <1>1, <1>2

\* What is on its way to a row, or was delivered, is what the chain decided, and
\* about a winner only.
Reported(n) ==
  /\ settle[n.auction].fate # None
  /\ n.outcome \in {"started", settle[n.auction].fate}
  /\ n.proposal \in Won(n.auction)
  /\ Duplicates \/ <<n.auction, n.outcome>> \in delivered

Answered ==
  /\ \A n \in applying : Reported(n)
  /\ \A a \in Auctions, o \in Outcomes : <<a, o>> \in delivered =>
       settle[a].fate # None /\ o \in {"started", settle[a].fate}

\* The join finds winners only.
LEMMA AttributedWon ==
  ASSUME Base, BidsNamed, CallsClosed, NEW a \in Auctions, settle[a].fate # None
  PROVE  Attributed(a) \subseteq Won(a)
<1>1. ASSUME NEW r \in solutions, r.auction = a, r.solution \in settle[a].won
      PROVE  r.proposal \in Won(a)
  <2>1. r.solution \in Bids(a)
    BY <1>1 DEF CallsClosed
  <2>2. r.proposal = solve[a].bids[r.solution]
    BY <1>1, <2>1 DEF BidsNamed, NamedBid
  <2>3. QED
    BY <1>1, <2>2 DEF Won
<1>2. QED
  BY <1>1 DEF Attributed, SolutionProposals

\* Who adds to what is on its way and to what was delivered.
LEMMA NotesStep ==
  ASSUME [Next]_vars
  PROVE  \/ applying' \subseteq applying /\ delivered' = delivered
         \/ \E a \in Auctions, o \in Outcomes : Notify(a, o)
<1>1. ASSUME NEW n \in applying, NotifyApply(n)
      PROVE  applying' \subseteq applying /\ delivered' = delivered
  BY <1>1 DEF NotifyApply
<1>2. QED
  BY <1>1
     DEF Next, Served, Tick, TickBegin, TickSnapshot, TickExpire, TickSimulate, TickResolve,
         Post, Delete, SolveRead, SolveRecord, DriverSubmit, DriverOutcome, Debited,
         Sweep, Write, Crash, vars, serviceVars

LEMMA AnsweredStep ==
  ASSUME Base, Base', BidsNamed, CallsClosed, Answered, [Next]_vars
  PROVE  Answered'
<1>0. \A n \in applying : n.auction \in Auctions
  BY DEF Base, Inv, Carried, Applying
<1>1. \A a \in Auctions : \A o :
        settle[a].fate # None /\ o \in {"started", settle[a].fate}
        => settle'[a].fate # None /\ o \in {"started", settle'[a].fate}
  BY ClosedCall
<1>2. ASSUME NEW n \in applying, delivered \subseteq delivered'
      PROVE  Reported(n)'
  BY <1>0, <1>1, <1>2, WonFixed DEF Answered, Reported
<1>3. CASE applying' \subseteq applying /\ delivered' = delivered
  BY <1>1, <1>2, <1>3 DEF Answered
<1>4. ASSUME NEW a \in Auctions, NEW o \in Outcomes, Notify(a, o)
      PROVE  Answered'
  <2>1. /\ settle[a].fate # None /\ o \in {"started", settle[a].fate}
        /\ settle' = settle /\ delivered \subseteq delivered'
        /\ Duplicates \/ <<a, o>> \in delivered'
        /\ \A d \in delivered' : d \in delivered \/ d = <<a, o>>
    BY <1>4 DEF Notify
  <2>2. ASSUME NEW p \in Attributed(a), NEW n,
               n = [auction |-> a, proposal |-> p, outcome |-> o]
        PROVE  Reported(n)'
    <3>1. p \in Won(a)
      BY <2>1, <2>2, AttributedWon
    <3>2. p \in Won(a)'
      BY <2>1, <3>1, WonFixed
    <3>3. n.auction = a /\ n.proposal = p /\ n.outcome = o
      BY <2>2
    <3>4. QED
      BY <1>1, <2>1, <3>2, <3>3 DEF Reported
  <2>3. \A n \in applying' : Reported(n)'
    BY <1>2, <1>4, <2>1, <2>2 DEF Notify
  <2>4. \A b \in Auctions, x \in Outcomes : <<b, x>> \in delivered' =>
          settle'[b].fate # None /\ x \in {"started", settle'[b].fate}
    BY <1>1, <2>1 DEF Answered
  <2>5. QED
    BY <2>3, <2>4 DEF Answered
<1>5. QED
  BY <1>3, <1>4, NotesStep

----------------------------------------------------------------------------
(* Rows: a settled row cites the settlement that decided it. *)

Decided ==
  \A p \in Proposals : row[p].status \in Money =>
    /\ row[p].settlementTx \in Auctions
    /\ settle[row[p].settlementTx].fate = IF row[p].status = "settled" THEN "succeeded"
                                                                      ELSE "reverted"
    /\ p \in Won(row[p].settlementTx)

LEMMA DecidedStep ==
  ASSUME Base, Base', CallsClosed, Answered, ExecutingWasWon, Decided, [Next]_vars
  PROVE  ExecutingWasWon' /\ Decided'
<1>1. ASSUME NEW p \in Proposals, Undecided(p)
      PROVE  /\ row'[p].status = "executing" =>
                  \E a \in Auctions : settle'[a].fate # None /\ p \in Won(a)'
             /\ row'[p].status \in Money =>
                  LET a == row'[p].settlementTx
                  IN /\ a \in Auctions
                     /\ settle'[a].fate = IF row'[p].status = "settled" THEN "succeeded"
                                                                        ELSE "reverted"
                     /\ p \in {solve'[a].bids[s] : s \in settle'[a].won}
  <2>1. ASSUME row'[p].status = "executing"
        PROVE  \E a \in Auctions : settle'[a].fate # None /\ p \in Won(a)'
    <3>1. PICK a \in Auctions : settle[a].fate # None /\ p \in Won(a)
      BY <1>1, <2>1 DEF Undecided, ExecutingWasWon
    <3>2. QED
      BY <3>1, ClosedCall, WonFixed
  <2>2. ASSUME row'[p].status \in Money, NEW a, a = row'[p].settlementTx
        PROVE  /\ a \in Auctions
               /\ settle'[a].fate = IF row'[p].status = "settled" THEN "succeeded"
                                                                  ELSE "reverted"
               /\ p \in Won(a)'
    <3>1. /\ a = row[p].settlementTx /\ row[p].status \in Money
          /\ row'[p].status = "settled" <=> row[p].status = "settled"
      BY <1>1, <2>2 DEF Undecided
    <3>2. /\ a \in Auctions /\ p \in Won(a)
          /\ settle[a].fate = IF row[p].status = "settled" THEN "succeeded" ELSE "reverted"
      BY <3>1 DEF Decided
    <3>3. settle[a].fate \notin {None, "started"}
      BY <3>2 DEF None
    <3>4. settle'[a].fate = settle[a].fate /\ Won(a)' = Won(a)
      BY <3>2, <3>3, ClosedCall, WonFixed
    <3>5. QED
      BY <3>1, <3>2, <3>4
  <2>3. QED
    BY <2>1, <2>2 DEF Won
<1>2. CASE OtherStep
  BY <1>1, <1>2, OtherUndecided DEF ExecutingWasWon, Decided, Won, Base, Inv
<1>3. ASSUME NEW n \in applying, NotifyApply(n), Settles(n)
      PROVE  ExecutingWasWon' /\ Decided'
  <2>1. /\ n.proposal \in Proposals /\ n.auction \in Auctions /\ n.outcome \in Outcomes
        /\ Reported(n)
    BY DEF Answered, Base, Inv, Carried, Applying
  <2>2. UNCHANGED <<solve, settle>> /\ \A a : Won(a)' = Won(a)
    BY <1>3 DEF NotifyApply, Won
  <2>3. ASSUME NEW p \in Proposals, p # n.proposal
        PROVE  row'[p] = row[p]
    BY <1>3, <2>3, OutcomeRow
  <2>4. /\ row'[n.proposal].status = OutcomeStatus(n.outcome)
        /\ n.outcome \in {"succeeded", "reverted"} =>
             row'[n.proposal].settlementTx = n.auction
    BY <1>3, <2>1, OutcomeRow
  <2>5. row'[n.proposal].status = "executing" =>
          settle[n.auction].fate # None /\ n.proposal \in Won(n.auction)
    BY <2>1 DEF Reported
  <2>6. row'[n.proposal].status \in Money =>
          /\ row'[n.proposal].settlementTx = n.auction
          /\ settle[n.auction].fate = IF row'[n.proposal].status = "settled"
                                      THEN "succeeded" ELSE "reverted"
          /\ n.proposal \in Won(n.auction)
    BY <2>1, <2>4 DEF Reported, OutcomeStatus, Outcomes, Money
  <2>7. ExecutingWasWon'
    <3> SUFFICES ASSUME NEW p \in Proposals, row'[p].status = "executing"
                 PROVE  \E a \in Auctions : settle'[a].fate # None /\ p \in Won(a)'
      BY DEF ExecutingWasWon
    <3>1. CASE p = n.proposal
      BY <2>1, <2>2, <2>5, <3>1
    <3>2. CASE p # n.proposal
      BY <2>2, <2>3, <3>2 DEF ExecutingWasWon
    <3>3. QED
      BY <3>1, <3>2
  <2>8. Decided'
    <3> SUFFICES ASSUME NEW p \in Proposals, row'[p].status \in Money
                 PROVE  /\ row'[p].settlementTx \in Auctions
                        /\ settle'[row'[p].settlementTx].fate
                             = IF row'[p].status = "settled" THEN "succeeded"
                                                             ELSE "reverted"
                        /\ p \in Won(row'[p].settlementTx)
      BY <2>2 DEF Decided, Won
    <3>1. CASE p = n.proposal
      BY <2>1, <2>2, <2>6, <3>1
    <3>2. CASE p # n.proposal
      BY <2>2, <2>3, <3>2 DEF Decided
    <3>3. QED
      BY <3>1, <3>2
  <2>9. QED
    BY <2>7, <2>8
<1>4. QED
  BY <1>2, <1>3, RowStep

\* The calls, the notifications and the rows, as one invariant.
Chain == /\ BidsNamed /\ CallsClosed /\ Answered
         /\ ExecutingWasWon /\ Decided

LEMMA ChainAlways == Spec => []Chain
<1>1. Init => CallsClosed /\ Answered /\ ExecutingWasWon /\ Decided
  BY DEF Init, StoreInit, CallsClosed, Answered, ExecutingWasWon, Decided, Blank, Money
<1>2. Base /\ Base' /\ BidsNamed /\ CallsClosed /\ Answered /\ ExecutingWasWon
        /\ Decided /\ [Next]_vars
        => CallsClosed' /\ Answered' /\ ExecutingWasWon' /\ Decided'
  BY ClosedStep, AnsweredStep, DecidedStep
<1>3. QED
  BY <1>1, <1>2, BaseAlways, NamedAlways, PTL DEF Spec, Chain

\* A proposal is frozen only as part of a settlement the driver began with its
\* bid, whatever is delivered again, late or out of order, and whoever crashed.
THEOREM FrozenWasWon == Spec => []ExecutingWasWon
  BY ChainAlways, PTL DEF Chain

\* A proposal is settled, owes or was charged only for a settlement that ended so
\* on chain with its own bid in it.
THEOREM MoneyByChain == Spec => []MoneyFollowsChain
<1>1. Decided => MoneyFollowsChain
  BY DEF Decided, MoneyFollowsChain
<1>2. QED
  BY <1>1, ChainAlways, PTL DEF Chain

----------------------------------------------------------------------------
(* Charges: a lost settlement is paid for once by each proposal in it. *)

\* The settlements begun so far are finitely many: each was one submission.
Begun       == {a \in Auctions : settle[a].fate # None}
BegunFinite == IsFiniteSet(Begun)

LEMMA BegunStep ==
  ASSUME Base, BegunFinite, [Next]_vars
  PROVE  BegunFinite'
<1>1. settle \in [Auctions -> [won : SUBSET SolutionIds, fate : {None} \cup Outcomes]]
  BY DEF Base, Typed, ServiceTypeOK
<1>2. ASSUME NEW a \in Auctions, DriverSubmit(a) \/ DriverOutcome(a)
      PROVE  BegunFinite'
  <2>1. \A b \in Auctions : b # a => settle'[b] = settle[b]
    BY <1>1, <1>2 DEF DriverSubmit, DriverOutcome
  <2>2. Begun' \in SUBSET (Begun \cup {a})
    BY <2>1 DEF Begun
  <2>3. IsFiniteSet(Begun \cup {a})
    BY FS_AddElement DEF BegunFinite
  <2>4. QED
    BY <2>2, <2>3, FS_Subset DEF BegunFinite
<1>3. CASE UNCHANGED settle
  BY <1>3 DEF BegunFinite, Begun
<1>4. QED
  BY <1>2, <1>3
     DEF Next, Served, Tick, TickBegin, TickSnapshot, TickExpire, TickSimulate, TickResolve,
         Post, Delete, SolveRead, SolveRecord, Notify, NotifyApply, Debited, Sweep,
         Write, Crash, vars, serviceVars

\* The charges of proposal p, and the lost settlements they can be for: reported,
\* attributed to p, and no longer on their way to the store.
Charges(p) == {i \in 1 .. Len(penalties) : penalties[i].proposal = p}
Lost(a, p) == [auction |-> a, proposal |-> p, outcome |-> "abandoned"]
Spent(p)   == {a \in Auctions : /\ <<a, "abandoned">> \in delivered
                                /\ p \in Won(a)
                                /\ Lost(a, p) \notin applying}

ChargesSpent == ~ Duplicates =>
  \A p \in Proposals : Cardinality(Charges(p)) <= Cardinality(Spent(p))

LEMMA ChargesFinite ==
  ASSUME NEW queue \in Seq(Charge), NEW p
  PROVE  LET charges == {i \in 1 .. Len(queue) : queue[i].proposal = p}
         IN IsFiniteSet(charges) /\ Cardinality(charges) \in Nat
<1> DEFINE charges == {i \in 1 .. Len(queue) : queue[i].proposal = p}
<1>1. IsFiniteSet(1 .. Len(queue))
  BY FS_Interval
<1>2. charges \in SUBSET (1 .. Len(queue))
  OBVIOUS
<1> HIDE DEF charges
<1>3. IsFiniteSet(charges) /\ Cardinality(charges) \in Nat
  BY <1>1, <1>2, FS_Subset, FS_CardinalityType
<1>4. QED
  BY <1>3 DEF charges

LEMMA SpentFinite ==
  ASSUME Answered, BegunFinite, NEW p
  PROVE  /\ IsFiniteSet(Spent(p)) /\ Cardinality(Spent(p)) \in Nat
         /\ Cardinality(Spent(p))
              <= Cardinality({a \in Auctions : settle[a].fate = "abandoned" /\ p \in Won(a)})
<1> DEFINE losses == {a \in Auctions : settle[a].fate = "abandoned" /\ p \in Won(a)}
<1>1. losses \in SUBSET Begun
  BY DEF Begun, None
<1>2. Spent(p) \in SUBSET losses
  BY DEF Spent, Answered, Outcomes
<1> HIDE DEF losses
<1>3. IsFiniteSet(losses)
  BY <1>1, FS_Subset DEF BegunFinite
<1>4. IsFiniteSet(Spent(p)) /\ Cardinality(Spent(p)) <= Cardinality(losses)
  BY <1>2, <1>3, FS_Subset
<1>5. QED
  BY <1>4, FS_CardinalityType DEF losses

\* What was spent stays spent: a notification that is delivered only once does
\* not come on its way again.
LEMMA SpentGrows ==
  ASSUME Base, CallsClosed, Answered, ~ Duplicates, [Next]_vars, NEW p
  PROVE  Spent(p) \subseteq Spent(p)'
<1> SUFFICES ASSUME NEW a \in Auctions, <<a, "abandoned">> \in delivered,
                    p \in Won(a), Lost(a, p) \notin applying
             PROVE  /\ <<a, "abandoned">> \in delivered'
                    /\ p \in Won(a)'
                    /\ Lost(a, p) \notin applying'
  BY DEF Spent
<1>1. settle[a].fate # None
  BY DEF Answered, Outcomes
<1>2. p \in Won(a)'
  BY <1>1, WonFixed
<1>3. ASSUME NEW b \in Auctions, NEW o \in Outcomes, Notify(b, o)
      PROVE  <<a, "abandoned">> \in delivered' /\ Lost(a, p) \notin applying'
  <2>1. <<b, o>> \notin delivered /\ <<a, "abandoned">> \in delivered'
    BY <1>3 DEF Notify
  <2>2. \A q : [auction |-> b, proposal |-> q, outcome |-> o] # Lost(a, p)
    BY <2>1 DEF Lost
  <2>3. Lost(a, p) \notin applying'
    BY <1>3, <2>2 DEF Notify
  <2>4. QED
    BY <2>1, <2>3
<1>4. QED
  BY <1>2, <1>3, NotesStep

\* A charge is queued by /notify applying a loss, and by nothing else.
LEMMA ChargeBy ==
  ASSUME Base, [Next]_vars
  PROVE  \/ \A p : Charges(p)' = Charges(p)
         \/ \E n \in applying :
              /\ n.outcome = "abandoned"
              /\ applying' = applying \ {n}
              /\ delivered' = delivered
              /\ penalties' = Append(penalties, [proposal |-> n.proposal, paid |-> FALSE])
<1>0. penalties \in Seq(Charge)
  BY DEF Base, Inv, StoreTypeOK
<1>1. ASSUME penalties' = penalties
      PROVE  \A p : Charges(p)' = Charges(p)
  BY <1>1 DEF Charges
<1>2. ASSUME NEW n \in applying, NotifyApply(n), penalties' # penalties
      PROVE  /\ n.outcome = "abandoned"
             /\ applying' = applying \ {n}
             /\ delivered' = delivered
             /\ penalties' = Append(penalties, [proposal |-> n.proposal, paid |-> FALSE])
  BY <1>2 DEF NotifyApply, ApplySettlementOutcome, NoteDriverNotification, storeVars
<1>3. ASSUME Debited
      PROVE  \A p : Charges(p)' = Charges(p)
  <2>1. CASE \E p \in Proposals : RecordPenalty(p)
    BY <1>1, <2>1 DEF RecordPenalty
  <2>2. ASSUME NEW i \in 1 .. Len(penalties), RecordNonSettlementDebit(i)
        PROVE  \A p : Charges(p)' = Charges(p)
    <3>1. /\ Len(penalties') = Len(penalties)
          /\ \A j \in 1 .. Len(penalties) : penalties'[j].proposal = penalties[j].proposal
      BY <1>0, <2>2 DEF RecordNonSettlementDebit, Charge
    <3>2. QED
      BY <3>1 DEF Charges
  <2>3. QED
    BY <1>3, <2>1, <2>2 DEF Debited
<1>4. ASSUME NEW p \in Proposals,
             \/ \E vu \in 0 .. MaxTime : Post(p, vu)
             \/ \E signer \in Signers : Delete(p, signer)
             \/ TickExpire(p) \/ TickResolve(p)
      PROVE  penalties' = penalties
  BY <1>4 DEF Post, Delete, TickExpire, TickResolve, storeVars, Insert, Cancel, Transition, ResolveVerdict
<1>5. ASSUME TickBegin \/ Sweep
      PROVE  penalties' = penalties
  BY <1>5 DEF TickBegin, Sweep, SweepDropped, storeVars, ReleaseStaleExecuting
<1>6. CASE penalties' = penalties
  BY <1>1, <1>6
<1>7. CASE \E n \in applying : NotifyApply(n) /\ penalties' # penalties
  BY <1>2, <1>7
<1>8. QED
  BY <1>3, <1>4, <1>5, <1>6, <1>7, StoreUsers DEF Quiet, Writes

LEMMA SpentStep ==
  ASSUME Base, Base', CallsClosed, Answered, Answered', BegunFinite, BegunFinite',
         ChargesSpent, [Next]_vars
  PROVE  ChargesSpent'
<1> SUFFICES ASSUME ~ Duplicates, NEW p \in Proposals
             PROVE  Cardinality(Charges(p)') <= Cardinality(Spent(p)')
  BY DEF ChargesSpent
<1>1. /\ IsFiniteSet(Charges(p)) /\ Cardinality(Charges(p)) \in Nat
      /\ IsFiniteSet(Spent(p)) /\ Cardinality(Spent(p)) \in Nat
      /\ IsFiniteSet(Charges(p)') /\ Cardinality(Charges(p)') \in Nat
      /\ IsFiniteSet(Spent(p)') /\ Cardinality(Spent(p)') \in Nat
  <2>1. IsFiniteSet(Charges(p)) /\ Cardinality(Charges(p)) \in Nat
    BY ChargesFinite DEF Base, Inv, StoreTypeOK, Charges
  <2>2. IsFiniteSet(Charges(p)') /\ Cardinality(Charges(p)') \in Nat
    BY ChargesFinite DEF Base, Inv, StoreTypeOK, Charges
  <2>3. IsFiniteSet(Spent(p)) /\ Cardinality(Spent(p)) \in Nat
    BY SpentFinite
  <2>4. IsFiniteSet(Spent(p)') /\ Cardinality(Spent(p)') \in Nat
    <3>1. Spent(p)' \in SUBSET Begun'
      BY DEF Spent, Begun, Answered, Outcomes
    <3>2. QED
      BY <3>1, FS_Subset, FS_CardinalityType DEF BegunFinite
  <2>5. QED
    BY <2>1, <2>2, <2>3, <2>4
<1>2. Cardinality(Charges(p)) <= Cardinality(Spent(p))
  BY DEF ChargesSpent
<1>3. Spent(p) \subseteq Spent(p)'
  BY SpentGrows
<1>4. Cardinality(Spent(p)) <= Cardinality(Spent(p)')
  BY <1>1, <1>3, FS_Subset
<1>5. CASE Charges(p)' = Charges(p)
  BY <1>1, <1>2, <1>4, <1>5
<1>6. ASSUME NEW n \in applying, n.outcome = "abandoned", applying' = applying \ {n},
             delivered' = delivered,
             penalties' = Append(penalties, [proposal |-> n.proposal, paid |-> FALSE])
      PROVE  Cardinality(Charges(p)') <= Cardinality(Spent(p)')
  <2>1. penalties \in Seq(Charge) /\ n \in Applying
    BY DEF Base, Inv, StoreTypeOK, Carried
  <2>2. /\ Len(penalties) \in Nat /\ Len(penalties') = Len(penalties) + 1
        /\ penalties'[Len(penalties) + 1].proposal = n.proposal
        /\ \A i \in 1 .. Len(penalties) : penalties'[i] = penalties[i]
    BY <1>6, <2>1
  <2>3. CASE n.proposal # p
    <3>1. Charges(p)' = Charges(p)
      BY <2>2, <2>3 DEF Charges
    <3>2. QED
      BY <1>5, <3>1
  <2>4. CASE n.proposal = p
    <3>1. Charges(p)' = Charges(p) \cup {Len(penalties) + 1}
      BY <2>2, <2>4 DEF Charges
    <3>2. Cardinality(Charges(p)') <= Cardinality(Charges(p)) + 1
      <4>1. \/ Cardinality(Charges(p) \cup {Len(penalties) + 1}) = Cardinality(Charges(p))
            \/ Cardinality(Charges(p) \cup {Len(penalties) + 1}) = Cardinality(Charges(p)) + 1
        BY <1>1, FS_AddElement
      <4>2. QED
        BY <1>1, <3>1, <4>1
    <3>3. n = Lost(n.auction, p) /\ n.auction \in Auctions /\ Reported(n)
      BY <1>6, <2>1, <2>4 DEF Applying, Lost, Answered
    <3>4. n.auction \notin Spent(p)
      BY <3>3 DEF Spent
    <3>5. n.auction \in Spent(p)'
      <4>1. settle[n.auction].fate # None /\ p \in Won(n.auction)
        BY <2>4, <3>3 DEF Reported
      <4>2. p \in Won(n.auction)'
        BY <3>3, <4>1, WonFixed
      <4>3. <<n.auction, "abandoned">> \in delivered'
        BY <1>6, <3>3 DEF Reported
      <4>4. Lost(n.auction, p) \notin applying'
        BY <1>6, <3>3
      <4>5. QED
        BY <3>3, <4>2, <4>3, <4>4 DEF Spent
    <3>6. Cardinality(Spent(p) \cup {n.auction}) = Cardinality(Spent(p)) + 1
      BY <1>1, <3>4, FS_AddElement
    <3>7. Cardinality(Spent(p) \cup {n.auction}) <= Cardinality(Spent(p)')
      BY <1>1, <1>3, <3>5, FS_Subset
    <3>8. QED
      BY <1>1, <1>2, <3>2, <3>6, <3>7
  <2>5. QED
    BY <2>3, <2>4
<1>7. QED
  BY <1>5, <1>6, ChargeBy

\* A settlement the driver gave up costs each proposal in it at most one charge,
\* if its notifications are delivered at most once: in whatever order they come,
\* whatever is released, settled or swept meanwhile, and over crashes.
THEOREM ChargedOncePerLoss == Spec => [](~ Duplicates => OneChargePerLoss)
<1>1. Init => BegunFinite /\ ChargesSpent
  <2> SUFFICES ASSUME Init PROVE BegunFinite /\ ChargesSpent
    OBVIOUS
  <2>1. Begun = {}
    BY DEF Init, Begun
  <2>2. \A p : Charges(p) = {} /\ Spent(p) = {}
    BY DEF Init, StoreInit, Charges, Spent
  <2>3. QED
    BY <2>1, <2>2, FS_EmptySet DEF BegunFinite, ChargesSpent
<1>2. Base /\ Base' /\ Chain /\ Chain' /\ BegunFinite /\ ChargesSpent /\ [Next]_vars
        => BegunFinite' /\ ChargesSpent'
  BY BegunStep, SpentStep DEF Chain
<1>3. Base /\ Chain /\ BegunFinite /\ ChargesSpent => (~ Duplicates => OneChargePerLoss)
  <2> SUFFICES ASSUME Base, Answered, BegunFinite, ChargesSpent, ~ Duplicates,
                      NEW p \in Proposals
               PROVE  Cardinality(Charges(p))
                        <= Cardinality({a \in Auctions :
                                          settle[a].fate = "abandoned" /\ p \in Won(a)})
    BY DEF Chain, OneChargePerLoss, Charges
  <2> DEFINE losses == {a \in Auctions : settle[a].fate = "abandoned" /\ p \in Won(a)}
  <2>1. Cardinality(Charges(p)) \in Nat
    BY ChargesFinite DEF Base, Inv, StoreTypeOK, Charges
  <2>2. losses \in SUBSET Begun
    BY DEF Begun, None
  <2>3. Cardinality(Spent(p)) \in Nat /\ Cardinality(Spent(p)) <= Cardinality(losses)
    BY SpentFinite
  <2>4. Cardinality(Charges(p)) <= Cardinality(Spent(p))
    BY DEF ChargesSpent
  <2> HIDE DEF losses
  <2>5. Cardinality(losses) \in Nat
    BY <2>2, FS_Subset, FS_CardinalityType DEF BegunFinite
  <2>6. Cardinality(Charges(p)) <= Cardinality(losses)
    BY <2>1, <2>3, <2>4, <2>5
  <2>7. QED
    BY <2>6 DEF losses
<1>4. QED
  BY <1>1, <1>2, <1>3, BaseAlways, ChainAlways, PTL DEF Spec

----------------------------------------------------------------------------
(* Reverts: what became of each that was reported. *)

\* The trail forgets nothing, unless the process dies.
LEMMA AuditGrows ==
  ASSUME Base, [Next]_vars, ~ Crash
  PROVE  audit \subseteq audit'
  BY ServiceStep, TrailGrows DEF Base, Sound

\* A row that cites a settlement goes on citing it.
LEMMA CitesOnce ==
  ASSUME Base, [Next]_vars, NEW a \in Auctions, NEW p \in Proposals,
         row[p].settlementTx = a
  PROVE  row'[p].settlementTx = a
<1>1. row[p].status \in Money
  BY StoreAssumption, ServiceAssumption DEF Base, EvidenceColumns
<1>2. CASE OtherStep
  BY <1>1, <1>2, OtherUndecided DEF Undecided, Base, Inv
<1>3. ASSUME NEW n \in applying, Settles(n)
      PROVE  row'[p] = row[p]
  BY <1>1, <1>3, OutcomeRow DEF Money
<1>4. QED
  BY <1>2, <1>3, RowStep

\* What is on its way is applied or stays on its way, unless the process dies.
LEMMA ApplyOrKeep ==
  ASSUME [Next]_vars, ~ Crash, NEW n \in applying
  PROVE  n \in applying' \/ NotifyApply(n)
<1>1. ASSUME NEW m \in applying, NotifyApply(m)
      PROVE  n \in applying' \/ m = n
  BY <1>1 DEF NotifyApply
<1>2. ASSUME NEW a \in Auctions, NEW o \in Outcomes, Notify(a, o)
      PROVE  n \in applying'
  BY <1>2 DEF Notify
<1>3. QED
  BY <1>1, <1>2
     DEF Next, Served, Tick, TickBegin, TickSnapshot, TickExpire, TickSimulate, TickResolve,
         Post, Delete, SolveRead, SolveRecord, DriverSubmit, DriverOutcome, Debited,
         Sweep, Write, vars, serviceVars

LEMMA CrashCounted ==
  ASSUME Base, [Next]_vars, crashes' = 0
  PROVE  crashes = 0 /\ ~ Crash
<1>1. crashes \in Nat
  BY ServiceAssumption DEF Base, Typed, ServiceTypeOK
<1>2. ~ Crash
  BY <1>1 DEF Crash
<1>3. QED
  BY <1>2
     DEF Next, Served, Tick, TickBegin, TickSnapshot, TickExpire, TickSimulate, TickResolve,
         Post, Delete, SolveRead, SolveRecord, DriverSubmit, DriverOutcome, Notify,
         NotifyApply, Debited, Sweep, Write, vars, serviceVars

\* A winner's row is there, or was deleted, and while it is there the join finds it.
LEMMA WinnerKnown ==
  ASSUME Base, BidsNamed, CallsClosed, NEW a \in Auctions, settle[a].fate # None,
         NEW p \in Won(a)
  PROVE  /\ p \in Proposals
         /\ Exists(p) \/ row[p].status = "gone"
         /\ Exists(p) => p \in Attributed(a)
<1>1. PICK s \in settle[a].won : p = solve[a].bids[s]
  BY DEF Won
<1>2. s \in Bids(a) /\ p \in Proposals
  BY <1>1 DEF CallsClosed, Bids, Base, Typed, ServiceTypeOK
<1>3. NamedBid(a, s)
  BY <1>2 DEF BidsNamed
<1>4. row[p] \in Row
  BY <1>2 DEF Base, Inv, StoreTypeOK
<1>5. Exists(p) \/ row[p].status = "gone"
  BY <1>1, <1>3, <1>4 DEF NamedBid, Exists, Row, NoRow
<1>6. ASSUME Exists(p)
      PROVE  p \in Attributed(a)
  <2>1. Key(a, s, p) \in solutions
    BY <1>1, <1>3, <1>6 DEF NamedBid
  <2>2. Key(a, s, p).auction = a /\ Key(a, s, p).solution = s /\ Key(a, s, p).proposal = p
    BY DEF Key
  <2>3. QED
    BY <1>1, <2>1, <2>2 DEF Attributed, SolutionProposals
<1>7. QED
  BY <1>2, <1>5, <1>6

LEMMA AccountedStep ==
  ASSUME Base, Chain, Chain', Reliable, [Next]_vars, NEW a \in Auctions, NEW p,
         Traced(a, p),
         Crash => OnItsWay(a, p) \notin applying /\ Noted(p) \notin audit \ written
  PROVE  Traced(a, p)'
<1> SUFFICES ASSUME <<a, "reverted">> \in delivered', p \in Won(a)'
             PROVE  Accounted(a, p)'
  BY DEF Traced
<1> DEFINE note == OnItsWay(a, p)
<1>1. CASE <<a, "reverted">> \in delivered
  <2>1. settle[a].fate # None /\ p \in Won(a)
    <3>1. settle[a].fate # None
      BY <1>1 DEF Chain, Answered, Outcomes
    <3>2. QED
      BY <3>1, WonFixed DEF Chain
  <2>2. p \in Proposals /\ (Exists(p) \/ row[p].status = "gone")
    BY <2>1, WinnerKnown DEF Chain
  <2>3. Accounted(a, p)
    BY <1>1, <2>1 DEF Traced
  <2>4. CASE row[p].status = "gone"
    BY <2>2, <2>4, RowsOnce DEF Accounted
  <2>5. CASE row[p].settlementTx = a
    BY <2>2, <2>5, CitesOnce DEF Accounted
  <2>6. CASE Noted(p) \in audit
    <3>1. Crash => Noted(p) \in audit'
      BY <2>6 DEF Crash
    <3>2. Noted(p) \in audit'
      BY <2>6, <3>1, AuditGrows
    <3>3. QED
      BY <3>2 DEF Accounted, Noted
  <2>7. CASE note \in applying'
    BY <2>7 DEF Accounted, OnItsWay
  <2>8. ASSUME note \in applying, NotifyApply(note)
        PROVE  Accounted(a, p)'
    <3>1. /\ note.proposal = p /\ note.auction = a /\ note.outcome = "reverted"
      BY DEF OnItsWay
    <3> HIDE DEF note
    <3>2. CASE ApplySettlementOutcome(note.proposal, note.outcome, note.auction)
      <4>1. Settles(note)
        BY <3>2 DEF ApplySettlementOutcome, Settles
      <4>2. row'[p].settlementTx = a
        BY <2>2, <2>8, <3>1, <4>1, OutcomeRow
      <4>3. QED
        BY <4>2 DEF Accounted
    <3>3. CASE NoteDriverNotification(note.proposal, note.outcome)
      BY <3>1, <3>3 DEF NoteDriverNotification, Reliable, Accounted, Noted
    <3>4. CASE ~ Exists(note.proposal)
      BY <2>2, <3>1, <3>4, RowsOnce DEF Accounted
    <3>5. QED
      BY <2>8, <3>2, <3>3, <3>4 DEF NotifyApply, Reliable
  <2>9. QED
    BY <2>3, <2>4, <2>5, <2>6, <2>7, <2>8, ApplyOrKeep DEF Accounted
<1>2. CASE <<a, "reverted">> \notin delivered
  <2>1. PICK b \in Auctions, o \in Outcomes : Notify(b, o)
    BY <1>2, NotesStep
  <2>2. /\ b = a /\ o = "reverted"
        /\ settle[a].fate # None
        /\ UNCHANGED <<row, solve, settle>>
    BY <1>2, <2>1 DEF Notify, storeVars
  <2>3. p \in Won(a)
    BY <2>2 DEF Won
  <2>4. /\ Exists(p) \/ row[p].status = "gone"
        /\ Exists(p) => p \in Attributed(a)
    BY <2>2, <2>3, WinnerKnown DEF Chain
  <2>5. p \in Attributed(a) => note \in applying'
    BY <2>1, <2>2 DEF Notify, OnItsWay
  <2>6. QED
    BY <2>2, <2>4, <2>5 DEF Accounted, OnItsWay
<1>3. QED
  BY <1>1, <1>2

\* However often the process dies, a revert the driver reported loses its trace
\* only to a death, and only if that finds it attributed and not yet applied, or
\* noted in the audit channel and not yet in its table.
THEOREM OnlyDeathLosesReverts == Spec => RevertsOutlive
<1>1. ASSUME Base, Chain, Chain', [Next]_vars, NEW a \in Auctions, NEW p \in Proposals,
             Reliable, Traced(a, p), ~ Traced(a, p)'
      PROVE  /\ Crash
             /\ OnItsWay(a, p) \in applying \/ Noted(p) \in audit \ written
  BY <1>1, AccountedStep
<1>2. Base /\ Chain /\ Chain' /\ [Next]_vars
        => [\A a \in Auctions, p \in Proposals :
              Reliable /\ Traced(a, p) /\ ~ Traced(a, p)' =>
                /\ Crash
                /\ \/ OnItsWay(a, p) \in applying
                   \/ Noted(p) \in audit \ written]_vars
  BY <1>1
<1>3. QED
  BY <1>2, BaseAlways, ChainAlways, PTL DEF Spec, RevertsOutlive

\* A revert the driver reported is never lost without a trace: until the process
\* first dies, and if the database answers, each winner of the settlement owes
\* its debit, or the trail holds the report, or the row was already deleted.
THEOREM RevertsAccounted == Spec => [](Reliable /\ crashes = 0 => RevertAccounted)
<1>1. Init => RevertAccounted
  BY DEF Init, RevertAccounted
<1>2. ASSUME Base, Chain, Chain', Reliable, crashes = 0 => RevertAccounted,
             crashes' = 0, [Next]_vars
      PROVE  RevertAccounted'
  <2>1. RevertAccounted /\ ~ Crash
    BY <1>2, CrashCounted
  <2>2. ASSUME NEW a \in Auctions, <<a, "reverted">> \in delivered', NEW p \in Won(a)'
        PROVE  Accounted(a, p)'
    <3>1. Traced(a, p)
      BY <2>1 DEF RevertAccounted, Accounted, Traced
    <3>2. Traced(a, p)'
      BY <1>2, <2>1, <3>1, AccountedStep
    <3>3. QED
      BY <2>2, <3>2 DEF Traced
  <2>3. QED
    BY <2>2 DEF RevertAccounted, Accounted
<1>3. Base /\ Chain /\ Chain' /\ (Reliable /\ crashes = 0 => RevertAccounted)
        /\ [Next]_vars
        => (Reliable /\ crashes = 0 => RevertAccounted)'
  BY <1>2 DEF Reliable
<1>4. QED
  BY <1>1, <1>3, BaseAlways, ChainAlways, PTL DEF Spec

----------------------------------------------------------------------------
(* The trail of a process that may die. *)

\* Evidence about p that the audit writer has not inserted.
Unwritten(p) == \E k \in Kinds : Ev(p, k) \in audit \ written

\* Nothing but a death that finds evidence of p in the channel makes the trail
\* stop explaining p's row, or a charge against p; a new charge is explained.
TrailOutlives ==
  [][~ DbFaults =>
       /\ \A p \in Proposals :
            Explained(p) /\ ~ Explained(p)' => Crash /\ Unwritten(p)
       /\ \A i \in 1 .. Len(penalties') : ~ ChargeTold(i)' =>
            /\ i \in 1 .. Len(penalties)
            /\ ChargeTold(i) => Crash /\ Unwritten(penalties[i].proposal)]_vars

\* A death that finds nothing of a proposal in the channel loses nothing of it.
LEMMA WrittenSurvives ==
  ASSUME Base, Crash, NEW p \in Proposals, ~ Unwritten(p)
  PROVE  /\ UNCHANGED <<row, penalties>>
         /\ \A k \in Kinds : Ev(p, k) \in audit' <=> Ev(p, k) \in audit
  BY DEF Base, Inv, Crash, Unwritten

\* However often the process dies, what is written stays: the trail loses only
\* what was in the channel in memory (infra/audit.rs, 1-3; run.rs, 277).
THEOREM OnlyDeathLosesTrail == Spec => TrailOutlives
<1>1. ASSUME Base, Base', ChargedBorn, [Next]_vars, ~ DbFaults, NEW p \in Proposals,
             Explained(p), ~ Explained(p)'
      PROVE  Crash /\ Unwritten(p)
  <2>1. CASE ~ Crash
    BY <1>1, <2>1, ServiceStep, ExplainedStep DEF Base, Inv, Sound
  <2>2. CASE Crash /\ ~ Unwritten(p)
    BY <1>1, <2>2, WrittenSurvives
       DEF Explained, Kept, Kinds, Status, Live, Dropped, Money
  <2>3. QED
    BY <2>1, <2>2
<1>2. ASSUME Base, ChargedBorn, [Next]_vars, ~ DbFaults,
             NEW i \in 1 .. Len(penalties'), ~ ChargeTold(i)'
      PROVE  /\ i \in 1 .. Len(penalties)
             /\ ChargeTold(i) => Crash /\ Unwritten(penalties[i].proposal)
  <2>1. CASE ~ Crash
    BY <1>2, <2>1, ServiceStep, ChargeToldStep DEF Base, Inv, Sound
  <2>2. CASE Crash
    <3>1. penalties' = penalties
      BY <2>2 DEF Crash
    <3>2. PICK q \in Proposals : q = penalties[i].proposal
      <4>1. penalties \in Seq(Charge)
        BY <1>2 DEF Base, Inv, StoreTypeOK
      <4>2. penalties[i] \in Charge
        BY <3>1, <4>1
      <4>3. QED
        BY <4>2 DEF Charge
    <3>3. CASE ~ Unwritten(q)
      <4>1. \A k \in Kinds : Kept(q, k)' <=> Kept(q, k)
        BY <1>2, <2>2, <3>3, WrittenSurvives DEF Kept
      <4>2. {"released", "nonSettlementDebited"} \subseteq Kinds
        BY DEF Kinds
      <4>3. ChargeTold(i)' <=> ChargeTold(i)
        BY <3>1, <3>2, <4>1, <4>2 DEF ChargeTold
      <4>4. QED
        BY <1>2, <2>2, <3>1, <4>3
    <3>4. QED
      BY <2>2, <3>1, <3>2, <3>3
  <2>3. QED
    BY <2>1, <2>2
<1>3. Base /\ Base' /\ ChargedBorn /\ [Next]_vars
        => [~ DbFaults =>
              /\ \A p \in Proposals :
                   Explained(p) /\ ~ Explained(p)' => Crash /\ Unwritten(p)
              /\ \A i \in 1 .. Len(penalties') : ~ ChargeTold(i)' =>
                   /\ i \in 1 .. Len(penalties)
                   /\ ChargeTold(i) => Crash /\ Unwritten(penalties[i].proposal)]_vars
  BY <1>1, <1>2
<1>4. QED
  BY <1>3, BaseAlways, ServiceDrivesStore, ChargesBorn, PTL DEF Spec, TrailOutlives

\* So until the process first dies, and while no reply of the database is lost,
\* the trail explains each row and each charge the service makes.
THEOREM ServiceTrail == Spec => [](~ DbFaults /\ crashes = 0 => TrailExplainsRow)
<1>1. ASSUME Base, Base', ChargedBorn, [Next]_vars, ~ DbFaults, crashes' = 0,
             crashes = 0 => TrailExplainsRow
      PROVE  TrailExplainsRow'
  <2>1. crashes = 0 /\ ~ Crash
    BY <1>1, CrashCounted
  <2>2. [StoreNext]_storeVars
    BY <1>1, <2>1, ServiceStep DEF Base, Sound
  <2>3. QED
    BY <1>1, <2>1, <2>2, TrailStep DEF Base, Inv
<1>2. Base /\ Base' /\ ChargedBorn /\ [Next]_vars
        /\ (~ DbFaults /\ crashes = 0 => TrailExplainsRow)
        => (~ DbFaults /\ crashes = 0 => TrailExplainsRow)'
  BY <1>1
<1>3. Init => TrailExplainsRow
  BY TrailInit DEF Init
<1>4. QED
  BY <1>2, <1>3, BaseAlways, ServiceDrivesStore, ChargesBorn, PTL DEF Spec

----------------------------------------------------------------------------
(* The penalty loop in the service: ChargedService.  What is proved of the *)
(* loop alone holds of the debts the service makes.                        *)

P == INSTANCE PenaltyLoop_proofs WITH debt <- DebtTable, restarts <- crashes,
                                      MaxRestarts <- MaxCrashes

\* The instance meets the assumptions of PenaltyLoop.
LEMMA LoopAssumed == P!PenaltyAssumption
  BY ChargeAssumption, ServiceAssumption
     DEF P!PenaltyAssumption, Debts, Reverts, Losses, RevertOf, LossOf, NoDebt

\* ChargedService and PenaltyLoop_proofs speak of one and the same loop.
LEMMA SameLoop ==
  /\ [L!Next]_(L!vars) => [P!Next]_(P!vars)
  /\ L!Init => P!Init
  BY Zenon
     DEF L!Next, P!Next, L!Loop, P!Loop, L!Init, P!Init, L!vars, P!vars,
         L!loopVars, P!loopVars, L!chainVars, P!chainVars, L!histVars, P!histVars,
         L!Sweeps, P!Sweeps, L!Owe, P!Owe, L!Snapshot, P!Snapshot,
         L!ReadFailed, P!ReadFailed, L!Advance, P!Advance, L!Pending, P!Pending,
         L!Kind, P!Kind, L!TickEnd, P!TickEnd, L!Skip, P!Skip, L!Parked, P!Parked,
         L!Price, P!Price, L!GiveUp, P!GiveUp, L!Inc, P!Inc, L!Dec, P!Dec,
         L!Send, P!Send, L!Mine, P!Mine, L!TimedOut, P!TimedOut,
         L!Refused, P!Refused, L!Confirmed, P!Confirmed, L!Record, P!Record,
         L!StrayMined, P!StrayMined, L!Restart, P!Restart

\* Debts are reverts and losses, and what the table says of each.
LEMMA DebtKinds ==
  ASSUME NEW d \in Debts
  PROVE  \/ \E p \in Proposals : d = RevertOf(p)
         \/ \E i \in 1 .. MaxCharges : d = LossOf(i)
  BY DEF Debts, Reverts, Losses

LEMMA DebtOf ==
  /\ \A p, q : RevertOf(p) = RevertOf(q) => p = q
  /\ \A i, j : LossOf(i) = LossOf(j) => i = j
  /\ \A p, i : RevertOf(p) # LossOf(i)
  /\ \A p : RevertOf(p).kind = "revert" /\ RevertOf(p).of = p
  /\ \A i : LossOf(i).kind = "loss" /\ LossOf(i).of = i
  /\ \A p \in Proposals : RevertOf(p) \in Debts
  /\ \A i \in 1 .. MaxCharges : LossOf(i) \in Debts
<1>1. /\ \A p : RevertOf(p).kind = "revert" /\ RevertOf(p).of = p
      /\ \A i : LossOf(i).kind = "loss" /\ LossOf(i).of = i
  BY DEF RevertOf, LossOf
<1>2. \A p, i : RevertOf(p) # LossOf(i)
  BY <1>1
<1>3. QED
  BY <1>1, <1>2 DEF Debts, Reverts, Losses

LEMMA TableAt ==
  /\ \A p \in Proposals : DebtTable[RevertOf(p)] = RevertState(row[p].status)
  /\ \A i \in 1 .. MaxCharges : DebtTable[LossOf(i)] = LossState(i)
  BY DebtOf DEF DebtTable

LEMMA TableAtNext ==
  /\ \A p \in Proposals : DebtTable'[RevertOf(p)] = RevertState(row'[p].status)
  /\ \A i \in 1 .. MaxCharges : DebtTable'[LossOf(i)] = LossState(i)'
  BY DebtOf DEF DebtTable

\* Only the two debts a step touches can differ.
LEMMA TableKept ==
  ASSUME \A p \in Proposals : RevertState(row'[p].status) = RevertState(row[p].status),
         \A i \in 1 .. MaxCharges : LossState(i)' = LossState(i)
  PROVE  DebtTable' = DebtTable
<1>1. ASSUME NEW d \in Debts
      PROVE  DebtTable'[d] = DebtTable[d]
  BY DebtKinds, TableAt, TableAtNext
<1>2. QED
  BY <1>1 DEF DebtTable

LEMMA TableSet ==
  ASSUME NEW d \in Debts, NEW s,
         \A p \in Proposals : RevertState(row'[p].status)
            = IF d = RevertOf(p) THEN s ELSE RevertState(row[p].status),
         \A i \in 1 .. MaxCharges : LossState(i)'
            = IF d = LossOf(i) THEN s ELSE LossState(i)
  PROVE  DebtTable' = [DebtTable EXCEPT ![d] = s]
<1>1. ASSUME NEW e \in Debts
      PROVE  DebtTable'[e] = IF d = e THEN s ELSE DebtTable[e]
  BY DebtKinds, TableAt, TableAtNext
<1>2. QED
  BY <1>1 DEF DebtTable

\* A revert that is a debt stays one, for the same settlement, whoever moves.
LEMMA RevertKept ==
  ASSUME Base, [Next]_vars, NEW p \in Proposals, RevertState(row[p].status) # "none"
  PROVE  /\ RevertState(row'[p].status) # "none"
         /\ row'[p].settlementTx = row[p].settlementTx
<1>0. row[p].status \in {"settleFailed", "penalized"}
  BY DEF RevertState
<1>1. CASE OtherStep
  <2>1. Undecided(p)
    BY <1>1, OtherUndecided DEF Base, Inv
  <2>2. row'[p].status \in {"settleFailed", "penalized"}
    BY <1>0, <2>1 DEF Undecided, Money
  <2>3. QED
    BY <1>0, <2>1, <2>2 DEF Undecided, Money, RevertState
<1>2. ASSUME NEW n \in applying, Settles(n)
      PROVE  row'[p] = row[p]
  BY <1>0, <1>2, OutcomeRow
<1>3. QED
  BY <1>1, <1>2, RowStep

\* To the loop, the rest of the service moves nothing or makes one new debt.
NewDebt == \E d \in Debts : /\ DebtTable[d] = "none"
                            /\ DebtTable' = [DebtTable EXCEPT ![d] = "owed"]

LEMMA OneRowNoDebt ==
  ASSUME Base, NEW p \in Proposals, NEW r, row' = [row EXCEPT ![p] = r],
         RevertState(r.status) = RevertState(row[p].status), penalties' = penalties
  PROVE  DebtTable' = DebtTable
<1>1. \A q \in Proposals : RevertState(row'[q].status) = RevertState(row[q].status)
  BY DEF Base, Inv, StoreTypeOK
<1>2. \A i \in 1 .. MaxCharges : LossState(i)' = LossState(i)
  BY DEF LossState
<1>3. QED
  BY <1>1, <1>2, TableKept

LEMMA NotifyDebt ==
  ASSUME Base, NEW n \in applying, NotifyApply(n)
  PROVE  DebtTable' = DebtTable \/ NewDebt
<1>0. /\ n.proposal \in Proposals /\ n.outcome \in Outcomes
      /\ row \in [Proposals -> Row] /\ penalties \in Seq(Charge)
  BY DEF Base, Inv, StoreTypeOK, Carried, Applying
<1>1. CASE UNCHANGED <<row, penalties>>
  BY <1>1, TableKept DEF LossState
<1>2. ASSUME ApplySettlementOutcome(n.proposal, n.outcome, n.auction)
      PROVE  DebtTable' = DebtTable \/ NewDebt
  <2>1. Settles(n)
    BY <1>2 DEF ApplySettlementOutcome, Settles
  <2>2. /\ row[n.proposal].status \in {"active", "executing"}
        /\ row'[n.proposal].status = OutcomeStatus(n.outcome)
        /\ \A q \in Proposals : q # n.proposal => row'[q] = row[q]
    BY <1>0, <2>1, OutcomeRow
  <2>3. RevertState(row[n.proposal].status) = "none"
    BY <2>2 DEF RevertState
  <2>4. CASE n.outcome \in {"started", "succeeded"}
    <3>1. RevertState(row'[n.proposal].status) = "none" /\ penalties' = penalties
      BY <1>2, <2>2, <2>4 DEF ApplySettlementOutcome, OutcomeStatus, RevertState
    <3>2. QED
      BY <2>2, <2>3, <3>1, TableKept DEF LossState
  <2>5. CASE n.outcome = "reverted"
    <3>1. RevertState(row'[n.proposal].status) = "owed" /\ penalties' = penalties
      BY <1>2, <2>2, <2>5 DEF ApplySettlementOutcome, OutcomeStatus, RevertState
    <3>2. \A q \in Proposals : RevertState(row'[q].status)
            = IF RevertOf(n.proposal) = RevertOf(q) THEN "owed"
                                                    ELSE RevertState(row[q].status)
      BY <2>2, <3>1, DebtOf
    <3>3. \A i \in 1 .. MaxCharges : LossState(i)'
            = IF RevertOf(n.proposal) = LossOf(i) THEN "owed" ELSE LossState(i)
      BY <3>1, DebtOf DEF LossState
    <3>4. DebtTable' = [DebtTable EXCEPT ![RevertOf(n.proposal)] = "owed"]
      BY <1>0, <3>2, <3>3, DebtOf, TableSet
    <3>5. QED
      BY <1>0, <2>3, <3>4, DebtOf, TableAt DEF NewDebt
  <2>6. CASE n.outcome = "abandoned"
    <3> DEFINE new == Len(penalties) + 1
    <3>1. /\ RevertState(row'[n.proposal].status) = "none"
          /\ Len(penalties) < MaxCharges
          /\ penalties' = Append(penalties, [proposal |-> n.proposal, paid |-> FALSE])
      BY <1>2, <2>2, <2>6 DEF ApplySettlementOutcome, OutcomeStatus, RevertState
    <3>2. /\ new \in 1 .. MaxCharges /\ Len(penalties) \in Nat
          /\ Len(penalties') = new /\ ~ penalties'[new].paid
          /\ \A i \in 1 .. Len(penalties) : penalties'[i] = penalties[i]
      BY <1>0, <3>1, StoreAssumption
    <3>3. LossState(new) = "none"
      BY <3>2 DEF LossState
    <3>4. \A i \in 1 .. MaxCharges : LossState(i)' = IF i = new THEN "owed" ELSE LossState(i)
      BY <3>2, StoreAssumption DEF LossState
    <3> HIDE DEF new
    <3>5. \A q \in Proposals : RevertState(row'[q].status)
            = IF LossOf(new) = RevertOf(q) THEN "owed" ELSE RevertState(row[q].status)
      BY <2>2, <2>3, <3>1, DebtOf
    <3>6. \A i \in 1 .. MaxCharges : LossState(i)'
            = IF LossOf(new) = LossOf(i) THEN "owed" ELSE LossState(i)
      BY <3>4, DebtOf
    <3>7. LossOf(new) \in Debts
      BY <3>2, DebtOf
    <3>8. DebtTable' = [DebtTable EXCEPT ![LossOf(new)] = "owed"]
      BY <3>5, <3>6, <3>7, TableSet
    <3>9. QED
      BY <3>2, <3>3, <3>7, <3>8, TableAt DEF NewDebt
  <2>7. QED
    BY <1>0, <2>4, <2>5, <2>6 DEF Outcomes
<1>3. QED
  BY <1>1, <1>2 DEF NotifyApply, NoteDriverNotification, storeVars

LEMMA ServedDebt ==
  ASSUME Base, Served
  PROVE  DebtTable' = DebtTable \/ NewDebt
<1>0. row \in [Proposals -> Row]
  BY DEF Base, Inv, StoreTypeOK
<1>1. ASSUME UNCHANGED <<row, penalties>>
      PROVE  DebtTable' = DebtTable
  BY <1>1, TableKept DEF LossState
<1>2. ASSUME NEW p \in Proposals, NEW vu \in 0 .. MaxTime, Post(p, vu)
      PROVE  DebtTable' = DebtTable
  <2>1. /\ row' = [row EXCEPT ![p] = Posted(vu)] /\ penalties' = penalties
        /\ row[p].status = "unborn" /\ Posted(vu).status = "submitted"
    BY <1>2 DEF Post, Insert, Posted, Blank
  <2>2. QED
    BY <2>1, OneRowNoDebt DEF RevertState
<1>3. ASSUME NEW p \in Proposals, NEW signer \in Signers, Delete(p, signer)
      PROVE  DebtTable' = DebtTable
  <2>1. /\ row' = [row EXCEPT ![p] = Moved(row[p], "cancelled")]
        /\ penalties' = penalties
        /\ row[p].status \in Live /\ Moved(row[p], "cancelled").status = "cancelled"
    BY <1>0, <1>3 DEF Delete, Cancel, Moved, Row
  <2>2. QED
    BY <2>1, OneRowNoDebt DEF RevertState, Live
<1>4. ASSUME NEW p \in Proposals, TickExpire(p), row' # row
      PROVE  DebtTable' = DebtTable
  <2>1. /\ row' = [row EXCEPT ![p] = Moved(row[p], "expired")]
        /\ penalties' = penalties
        /\ row[p].status \in Live /\ Moved(row[p], "expired").status = "expired"
    BY <1>0, <1>4 DEF TickExpire, Transition, storeVars, Moved, Row, Base, Inv, Carried
  <2>2. QED
    BY <2>1, OneRowNoDebt DEF RevertState, Live
<1>5. ASSUME NEW p \in Proposals, TickResolve(p), row' # row
      PROVE  DebtTable' = DebtTable
  <2>1. /\ row' = [row EXCEPT ![p] = Judged(row[p], view[p])]
        /\ penalties' = penalties
        /\ row[p].status \in Live
        /\ Judged(row[p], view[p]).status \in {"active", "rejected", "simFailed"}
    BY <1>0, <1>5 DEF TickResolve, ResolveVerdict, storeVars, Judged, Row, VerdictStatus
  <2>2. QED
    BY <2>1, OneRowNoDebt DEF RevertState, Live
<1>6. ASSUME TickBegin
      PROVE  DebtTable' = DebtTable
  <2>1. CASE ReleaseStaleExecuting
    <3>1. \A p \in Proposals : \/ row'[p] = row[p]
                               \/ /\ row[p].status = "executing"
                                  /\ row'[p].status = "active"
      BY <1>0, <2>1 DEF ReleaseStaleExecuting, Stale, Moved, Row
    <3>2. \A p \in Proposals : RevertState(row'[p].status) = RevertState(row[p].status)
      BY <3>1 DEF RevertState
    <3>3. QED
      BY <2>1, <3>2, TableKept DEF ReleaseStaleExecuting, LossState
  <2>2. QED
    BY <1>1, <1>6, <2>1 DEF TickBegin, storeVars
<1>7. ASSUME Sweep
      PROVE  DebtTable' = DebtTable
  <2>1. \A p \in Proposals : \/ row'[p] = row[p]
                             \/ /\ row[p].status \in Dropped
                                /\ row'[p].status = "gone"
    BY <1>0, <1>7 DEF Sweep, SweepDropped, Sweepable, Blank
  <2>2. \A p \in Proposals : RevertState(row'[p].status) = RevertState(row[p].status)
    BY <2>1 DEF RevertState, Dropped
  <2>3. QED
    BY <1>7, <2>2, TableKept DEF Sweep, SweepDropped, LossState
<1>8. ASSUME NEW p \in Proposals, TickExpire(p) \/ TickResolve(p), row' = row
      PROVE  penalties' = penalties
  BY <1>8 DEF TickExpire, TickResolve, Transition, ResolveVerdict, storeVars
<1>9. CASE Quiet
  BY <1>1, <1>9 DEF Quiet
<1>10. CASE Writes
  BY <1>1, <1>2, <1>3, <1>4, <1>5, <1>6, <1>7, <1>8, <1>10, NotifyDebt DEF Writes
<1>11. QED
  BY <1>9, <1>10, ServedWrites

\* What only the rest of the service changes is not crashes.
LEMMA ServedCrashes == Served => crashes' = crashes
  BY DEF Served, Tick, TickBegin, TickSnapshot, TickExpire, TickSimulate, TickResolve,
         Post, Delete, SolveRead, SolveRecord, DriverSubmit, DriverOutcome, Notify,
         NotifyApply, Sweep, Write, serviceVars

\* The settlement each revert in the sweep was read with is still its row's.
Bills == \A p \in Proposals : RevertOf(p) \in todo => bill[p] = row[p].settlementTx

Held == Base /\ P!PenaltyTypeOK /\ P!AtHand /\ Bills

\* A debt the sweep has not handled is owed, and a revert has a bill.
LEMMA TodoOwed ==
  ASSUME Held, NEW d \in todo
  PROVE  /\ d \in Debts /\ DebtTable[d] = "owed"
         /\ \A p \in Proposals : d = RevertOf(p) =>
              /\ row[p].status = "settleFailed"
              /\ bill[p] = row[p].settlementTx /\ bill[p] # NoTx
         /\ \A i \in 1 .. MaxCharges : d = LossOf(i) =>
              i <= Len(penalties) /\ ~ penalties[i].paid
<1>1. d \in Debts /\ DebtTable[d] = "owed"
  BY DEF Held, P!PenaltyTypeOK, P!AtHand
<1>2. ASSUME NEW p \in Proposals, d = RevertOf(p)
      PROVE  /\ row[p].status = "settleFailed"
             /\ bill[p] = row[p].settlementTx /\ bill[p] # NoTx
  <2>1. row[p].status = "settleFailed"
    BY <1>1, <1>2, TableAt DEF RevertState
  <2>2. row[p].settlementTx # NoTx
    BY <2>1 DEF Held, Base, EvidenceColumns, Money
  <2>3. QED
    BY <1>2, <2>1, <2>2 DEF Held, Bills
<1>3. ASSUME NEW i \in 1 .. MaxCharges, d = LossOf(i)
      PROVE  i <= Len(penalties) /\ ~ penalties[i].paid
  <2>1. LossState(i) = "owed"
    BY <1>1, <1>3, TableAt
  <2>2. i \in Nat /\ Len(penalties) \in Nat
    BY StoreAssumption DEF Held, Base, Inv, StoreTypeOK
  <2>3. QED
    BY <2>1, <2>2 DEF LossState
<1>4. QED
  BY <1>1, <1>2, <1>3

\* A step of the whole is a step of the service, and a step of the loop.
Both == [Next]_vars /\ [L!Next]_(L!vars) /\ Bills'

LEMMA TablesKept ==
  ASSUME UNCHANGED vars
  PROVE  DebtTable' = DebtTable /\ crashes' = crashes
         /\ row' = row /\ penalties' = penalties
  BY DEF vars, storeVars, serviceVars, DebtTable, LossState

LEMMA ServedBoth ==
  ASSUME Held, Served, UNCHANGED <<debitVars, bill, priced>>
  PROVE  Both
<1>1. Next
  BY DEF Next
<1>2. UNCHANGED <<attempts, sweep, todo, step, cur, landed, stray, misses, crashes, bill>>
  BY ServedCrashes DEF debitVars
<1>3. [L!Next]_(L!vars)
  <2>1. CASE DebtTable' = DebtTable
    BY <1>2, <2>1 DEF L!vars, L!loopVars, L!chainVars, L!histVars
  <2>2. ASSUME NEW d \in Debts, DebtTable[d] = "none",
               DebtTable' = [DebtTable EXCEPT ![d] = "owed"]
        PROVE  L!Next
    <3>1. L!Owe(d)
      BY <1>2, <2>2 DEF L!Owe, L!loopVars, L!chainVars, L!histVars
    <3>2. QED
      BY <3>1 DEF L!Next
  <2>3. QED
    BY <2>1, <2>2, ServedDebt DEF Held, NewDebt
<1>4. Bills'
  <2> SUFFICES ASSUME NEW p \in Proposals, RevertOf(p) \in todo
               PROVE  bill[p] = row'[p].settlementTx
    BY <1>2 DEF Bills
  <2>1. row[p].status = "settleFailed" /\ bill[p] = row[p].settlementTx
    BY TodoOwed
  <2>2. QED
    BY <1>1, <2>1, RevertKept DEF Held, RevertState
<1>5. QED
  BY <1>1, <1>3, <1>4 DEF Both

\* The loop's own steps leave the tables alone.
LEMMA LoopBoth ==
  ASSUME Held,
         \/ \E s \in L!Sweeps : TickReads(s)
         \/ \E d \in Debts : Skip(d) \/ Price(d)
         \/ LoopMoves
  PROVE  Both /\ UNCHANGED vars
<1>0. UNCHANGED vars
  BY DEF TickReads, Skip, Price, LoopMoves
<1>1. DebtTable' = DebtTable /\ crashes' = crashes /\ row' = row
  BY <1>0, TablesKept
<1>2. ASSUME NEW s \in L!Sweeps, TickReads(s)
      PROVE  L!Next /\ Bills'
  <2>1. L!Next
    BY <1>2 DEF TickReads, L!Next, L!Loop
  <2>2. Bills'
    BY <1>1, <1>2 DEF TickReads, Bills
  <2>3. QED
    BY <2>1, <2>2
<1>3. ASSUME NEW d \in Debts, Skip(d)
      PROVE  L!Next /\ Bills'
  <2>1. d \in todo
    BY <1>3 DEF Skip
  <2>2. Billed(d)
    BY <2>1, DebtKinds, DebtOf, TodoOwed DEF Billed
  <2>3. L!Skip(d)
    BY <1>1, <1>3, <2>2 DEF Skip, L!Skip, L!chainVars, L!histVars
  <2>4. L!Next
    BY <2>3 DEF L!Next, L!Loop
  <2>5. Bills'
    BY <1>1, <1>3 DEF Skip, Bills, Held
  <2>6. QED
    BY <2>4, <2>5
<1>4. ASSUME NEW d \in Debts, Price(d)
      PROVE  L!Next /\ Bills'
  <2>1. L!Price(d) /\ bill' = bill
    BY <1>4 DEF Price
  <2>2. L!Next
    BY <2>1 DEF L!Next, L!Loop
  <2>3. todo' \subseteq todo
    BY <2>1 DEF L!Price, L!GiveUp
  <2>4. Bills'
    BY <1>1, <2>1, <2>3 DEF Bills, Held
  <2>5. QED
    BY <2>2, <2>4
<1>5. ASSUME LoopMoves
      PROVE  L!Next /\ Bills'
  <2>1. bill' = bill
    BY <1>5 DEF LoopMoves
  <2>2. \/ \E s \in L!Sweeps : L!ReadFailed(s)
        \/ L!TickEnd
        \/ L!Send \/ L!Mine \/ L!TimedOut \/ L!Refused \/ L!Confirmed
        \/ \E d \in Debts : L!StrayMined(d)
    BY <1>5 DEF LoopMoves
  <2>3. L!Next
    BY <2>2 DEF L!Next, L!Loop
  <2>4. todo' \subseteq todo
    BY <2>2 DEF L!ReadFailed, L!TickEnd, L!Send, L!Mine, L!TimedOut, L!Refused,
                L!Confirmed, L!StrayMined, L!GiveUp, L!loopVars
  <2>5. Bills'
    BY <1>1, <2>1, <2>4 DEF Bills, Held
  <2>6. QED
    BY <2>3, <2>5
<1>6. QED
  BY <1>0, <1>2, <1>3, <1>4, <1>5 DEF Both

\* What is recorded is the debt at hand, which is owed and not yet paid.
LEMMA RecordBoth ==
  ASSUME Held, RecordDebit
  PROVE  Both
<1>0. /\ cur \in todo /\ step = "record" /\ crashes' = crashes
      /\ todo' = todo \ {cur} /\ step' = "pick" /\ cur' = NoDebt
      /\ UNCHANGED <<attempts, sweep, landed, stray, bill>>
  BY DEF RecordDebit, Held, P!AtHand, serviceVars, vars
<1>1. /\ cur \in Debts /\ row \in [Proposals -> Row] /\ penalties \in Seq(Charge)
  BY <1>0, TodoOwed DEF Held, Base, Inv, StoreTypeOK
<1>2. ASSUME NEW p \in Proposals, cur = RevertOf(p), RecordPenalty(p),
             UNCHANGED <<serviceVars, misses>>
      PROVE  Both
  <2>1. Next
    BY <1>2 DEF Next, Debited
  <2>2. /\ penalties' = penalties
        /\ row'[p].status = "penalized"
        /\ \A q \in Proposals : q # p => row'[q] = row[q]
    BY <1>1, <1>2 DEF RecordPenalty, Moved, Row
  <2>3. \A q \in Proposals : RevertState(row'[q].status)
          = IF cur = RevertOf(q) THEN "paid" ELSE RevertState(row[q].status)
    BY <1>2, <2>2, DebtOf DEF RevertState
  <2>4. \A i \in 1 .. MaxCharges : LossState(i)'
          = IF cur = LossOf(i) THEN "paid" ELSE LossState(i)
    BY <1>2, <2>2, DebtOf DEF LossState
  <2>5. DebtTable' = [DebtTable EXCEPT ![cur] = "paid"]
    BY <1>1, <2>3, <2>4, TableSet
  <2>6. L!Record
    BY <1>0, <1>2, <2>5 DEF L!Record, L!chainVars
  <2>7. L!Next
    BY <2>6 DEF L!Next, L!Loop
  <2>8. Bills'
    BY <1>0, <1>2, <2>2 DEF Bills, Held
  <2>9. QED
    BY <2>1, <2>7, <2>8 DEF Both
<1>3. ASSUME NEW i \in 1 .. Len(penalties), cur = LossOf(i),
             RecordNonSettlementDebit(i), UNCHANGED <<serviceVars, misses>>
      PROVE  Both
  <2>0. i \in 1 .. MaxCharges
    BY <1>1, <1>3, DebtKinds, DebtOf
  <2>1. ~ penalties[i].paid
    BY <1>0, <1>3, <2>0, TodoOwed
  <2>2. Next
    BY <1>3, <2>1 DEF Next, Debited
  <2>3. /\ row' = row
        /\ Len(penalties') = Len(penalties) /\ penalties'[i].paid
        /\ \A j \in 1 .. Len(penalties) : j # i => penalties'[j] = penalties[j]
    BY <1>1, <1>3 DEF RecordNonSettlementDebit, Charge
  <2>4. \A q \in Proposals : RevertState(row'[q].status)
          = IF cur = RevertOf(q) THEN "paid" ELSE RevertState(row[q].status)
    BY <1>3, <2>3, DebtOf
  <2>5. \A j \in 1 .. MaxCharges : LossState(j)' = IF j = i THEN "paid" ELSE LossState(j)
    BY <1>1, <2>0, <2>3, StoreAssumption DEF LossState
  <2>6. \A j \in 1 .. MaxCharges : LossState(j)'
          = IF cur = LossOf(j) THEN "paid" ELSE LossState(j)
    BY <1>3, <2>5, DebtOf
  <2>7. DebtTable' = [DebtTable EXCEPT ![cur] = "paid"]
    BY <1>1, <2>4, <2>6, TableSet
  <2>8. L!Record
    BY <1>0, <1>3, <2>7 DEF L!Record, L!chainVars
  <2>9. L!Next
    BY <2>8 DEF L!Next, L!Loop
  <2>10. Bills'
    BY <1>0, <2>3 DEF Bills, Held
  <2>11. QED
    BY <2>2, <2>9, <2>10 DEF Both
<1>4. ASSUME misses[cur] < MaxMisses, misses' = [misses EXCEPT ![cur] = @ + 1],
             UNCHANGED vars
      PROVE  Both
  <2>1. DebtTable' = DebtTable /\ row' = row
    BY <1>4, TablesKept
  <2>2. L!Record
    BY <1>0, <1>4, <2>1 DEF L!Record, L!Inc, L!chainVars
  <2>3. L!Next
    BY <2>2 DEF L!Next, L!Loop
  <2>4. Bills'
    BY <1>0, <2>1 DEF Bills, Held
  <2>5. QED
    BY <1>4, <2>3, <2>4 DEF Both
<1>5. QED
  BY <1>2, <1>3, <1>4 DEF RecordDebit

LEMMA ChargedBoth ==
  ASSUME Held, [ChargedNext]_chargedVars
  PROVE  Both
<1>1. CASE Died
  <2>1. Next
    BY <1>1 DEF Died, Next
  <2>2. L!Next /\ todo' = {}
    BY <1>1 DEF Died, L!Next, L!Restart
  <2>3. Bills'
    BY <2>2 DEF Bills
  <2>4. QED
    BY <2>1, <2>2, <2>3 DEF Both
<1>2. CASE UNCHANGED chargedVars
  <2>1. UNCHANGED <<vars, attempts, sweep, todo, step, cur, landed, stray, misses, bill>>
    BY <1>2 DEF chargedVars, debitVars
  <2>2. DebtTable' = DebtTable /\ crashes' = crashes /\ row' = row
    BY <2>1, TablesKept
  <2>3. UNCHANGED L!vars
    BY <2>1, <2>2 DEF L!vars, L!loopVars, L!chainVars, L!histVars
  <2>4. Bills'
    BY <2>1, <2>2 DEF Bills, Held
  <2>5. QED
    BY <2>1, <2>3, <2>4 DEF Both
<1>3. QED
  BY <1>1, <1>2, ServedBoth, LoopBoth, RecordBoth DEF ChargedNext

LEMMA HeldStep ==
  ASSUME Held, [ChargedNext]_chargedVars
  PROVE  Held' /\ [P!Next]_(P!vars)
<1>1. [Next]_vars /\ [P!Next]_(P!vars) /\ Bills'
  BY ChargedBoth, SameLoop DEF Both
<1>2. Base'
  BY <1>1, BaseStep DEF Held
<1>3. P!PenaltyTypeOK'
  BY <1>1, LoopAssumed, P!TypeStep DEF Held
<1>4. P!AtHand'
  BY <1>1, LoopAssumed, P!AtHandStep DEF Held
<1>5. QED
  BY <1>1, <1>2, <1>3, <1>4 DEF Held

LEMMA HeldInit == ChargedInit => Held
<1> SUFFICES ASSUME ChargedInit PROVE Held
  OBVIOUS
<1>1. Base
  BY BaseInit DEF ChargedInit
<1>2. P!Init /\ todo = {}
  BY SameLoop DEF ChargedInit, L!Init
<1>3. P!PenaltyTypeOK /\ P!AtHand
  BY <1>2, LoopAssumed
     DEF P!Init, P!PenaltyTypeOK, P!AtHand, P!Steps, P!Sweeps, P!PenaltyAssumption
<1>4. QED
  BY <1>1, <1>2, <1>3 DEF Held, Bills

LEMMA HeldAlways == ChargedSpec => []Held
  BY HeldInit, HeldStep, PTL DEF ChargedSpec

\* With its penalty loop the service is still the service: the loop records only
\* debits of debts that are still owed (ByosService takes that for granted).
THEOREM ChargedIsService == ChargedSpec => Spec
<1>1. ChargedInit => Init
  BY DEF ChargedInit
<1>2. Held /\ [ChargedNext]_chargedVars => [Next]_vars
  BY ChargedBoth DEF Both
<1>3. QED
  BY <1>1, <1>2, HeldAlways, PTL DEF ChargedSpec, Spec

\* And the loop is the loop: the tables the service keeps under it behave as the
\* debts it was written for.
THEOREM LoopServed == ChargedSpec => LoopImplemented
<1>1. ChargedInit => L!Init
  BY DEF ChargedInit
<1>2. Held /\ [ChargedNext]_chargedVars => [L!Next]_(L!vars)
  BY ChargedBoth DEF Both
<1>3. QED
  BY <1>1, <1>2, HeldAlways, PTL DEF ChargedSpec, LoopImplemented, L!Spec

LEMMA LoopProved == ChargedSpec => P!Spec
  BY LoopServed, SameLoop, PTL DEF LoopImplemented, L!Spec, P!Spec

\* So the escrow of a sub-solver is debited for the reverts and losses of its own
\* rows within the bound, from its first submission on, over every crash.
THEOREM ServiceChargesBounded == ChargedSpec => []P!ChargesBounded
  BY LoopProved, LoopAssumed, P!DebitsBounded, PTL

----------------------------------------------------------------------------
(* What the debits are for. *)

\* Every queued charge is of a proposal in a settlement the driver gave up.
QueueGrounded ==
  \A i \in 1 .. Len(penalties) :
    \E a \in Auctions : settle[a].fate = "abandoned" /\ penalties[i].proposal \in Won(a)

LEMMA QueueStep ==
  ASSUME Base, CallsClosed, Answered, QueueGrounded, [Next]_vars
  PROVE  QueueGrounded'
<1>0. penalties \in Seq(Charge)
  BY DEF Base, Inv, StoreTypeOK
<1>1. ASSUME NEW a \in Auctions, NEW q, settle[a].fate = "abandoned", q \in Won(a)
      PROVE  settle'[a].fate = "abandoned" /\ q \in Won(a)'
  BY <1>1, ClosedCall, WonFixed DEF None
<1>2. ASSUME NEW i \in 1 .. Len(penalties), NEW q, q = penalties[i].proposal
      PROVE  \E a \in Auctions : settle'[a].fate = "abandoned" /\ q \in Won(a)'
  BY <1>1, <1>2 DEF QueueGrounded
<1>3. CASE \A p : Charges(p)' = Charges(p)
  <2>1. ASSUME NEW i \in 1 .. Len(penalties'), NEW q, q = penalties'[i].proposal
        PROVE  \E a \in Auctions : settle'[a].fate = "abandoned" /\ q \in Won(a)'
    <3>1. i \in Charges(q)'
      BY <2>1 DEF Charges
    <3>2. i \in Charges(q)
      BY <1>3, <3>1
    <3>3. i \in 1 .. Len(penalties) /\ penalties[i].proposal = q
      BY <3>2 DEF Charges
    <3>4. QED
      BY <1>2, <3>3
  <2>2. QED
    BY <2>1 DEF QueueGrounded
<1>4. ASSUME NEW n \in applying, n.outcome = "abandoned",
             penalties' = Append(penalties, [proposal |-> n.proposal, paid |-> FALSE])
      PROVE  QueueGrounded'
  <2>1. /\ Len(penalties) \in Nat /\ Len(penalties') = Len(penalties) + 1
        /\ penalties'[Len(penalties) + 1].proposal = n.proposal
        /\ \A i \in 1 .. Len(penalties) : penalties'[i] = penalties[i]
    BY <1>0, <1>4
  <2>2. /\ n.auction \in Auctions
        /\ settle[n.auction].fate = "abandoned" /\ n.proposal \in Won(n.auction)
    <3>1. n \in Applying /\ Reported(n)
      BY DEF Base, Inv, Carried, Answered
    <3>2. n.auction \in Auctions
      BY <3>1 DEF Applying
    <3>3. QED
      BY <1>4, <3>1, <3>2 DEF Reported
  <2>3. PICK b \in Auctions :
          b = n.auction /\ settle'[b].fate = "abandoned" /\ n.proposal \in Won(b)'
    BY <1>1, <2>2
  <2> SUFFICES ASSUME NEW i \in 1 .. Len(penalties')
               PROVE  \E a \in Auctions : /\ settle'[a].fate = "abandoned"
                                          /\ penalties'[i].proposal \in Won(a)'
    BY DEF QueueGrounded
  <2>4. CASE i \in 1 .. Len(penalties)
    BY <1>2, <2>1, <2>4
  <2>5. CASE i = Len(penalties) + 1
    BY <2>1, <2>2, <2>3, <2>5
  <2>6. QED
    BY <2>1, <2>4, <2>5
<1>5. QED
  BY <1>3, <1>4, ChargeBy

LEMMA QueueAlways == Spec => []QueueGrounded
<1>1. Init => QueueGrounded
  BY DEF Init, StoreInit, QueueGrounded
<1>2. Base /\ Chain /\ QueueGrounded /\ [Next]_vars => QueueGrounded'
  BY QueueStep DEF Chain
<1>3. QED
  BY <1>1, <1>2, BaseAlways, ChainAlways, PTL DEF Spec

\* A revert is charged for the one settlement its row cites, and is not debited
\* before it was priced.
CostOf(p) ==
  /\ priced[p] # {} => /\ RevertState(row[p].status) # "none"
                       /\ priced[p] = {row[p].settlementTx}
  /\ P!Sent(RevertOf(p)) > 0 \/ (cur = RevertOf(p) /\ step # "pick") => priced[p] # {}

Costs == \A p \in Proposals : CostOf(p)

LEMMA PricedBy ==
  ASSUME [ChargedNext]_chargedVars
  PROVE  \/ priced' = priced /\ (step = "pick" => step' = "pick")
         \/ \E d \in Debts : Price(d)
<1>1. CASE Served /\ UNCHANGED <<debitVars, bill, priced>>
  BY <1>1 DEF debitVars
<1>2. ASSUME NEW s \in L!Sweeps, TickReads(s)
      PROVE  UNCHANGED <<priced, step>>
  BY <1>2 DEF TickReads, L!Snapshot, L!Advance
<1>3. ASSUME NEW d \in Debts, Skip(d)
      PROVE  UNCHANGED <<priced, step>>
  BY <1>3 DEF Skip
<1>4. CASE LoopMoves
  BY <1>4 DEF LoopMoves, L!ReadFailed, L!Advance, L!TickEnd, L!Send, L!Mine,
              L!TimedOut, L!Refused, L!Confirmed, L!StrayMined, L!loopVars
<1>5. CASE RecordDebit
  BY <1>5 DEF RecordDebit
<1>6. CASE Died
  BY <1>6 DEF Died, L!Restart
<1>7. CASE UNCHANGED chargedVars
  BY <1>7 DEF chargedVars, debitVars
<1>8. QED
  BY <1>1, <1>2, <1>3, <1>4, <1>5, <1>6, <1>7 DEF ChargedNext

LEMMA CostsStep ==
  ASSUME Held, Costs, [ChargedNext]_chargedVars
  PROVE  Costs'
<1> SUFFICES ASSUME NEW p \in Proposals
             PROVE  CostOf(p)'
  BY DEF Costs
<1>1. [Next]_vars /\ [P!Next]_(P!vars) /\ Base
  BY ChargedBoth, SameLoop DEF Both, Held
<1>2. /\ priced[p] # {} => /\ RevertState(row[p].status) # "none"
                           /\ priced[p] = {row[p].settlementTx}
      /\ P!Sent(RevertOf(p)) > 0 \/ (cur = RevertOf(p) /\ step # "pick") => priced[p] # {}
  BY DEF Costs, CostOf
<1>3. priced[p] # {} => /\ RevertState(row'[p].status) # "none"
                        /\ row'[p].settlementTx = row[p].settlementTx
  BY <1>1, <1>2, RevertKept
<1>4. /\ P!Sent(RevertOf(p))' > 0 =>
           P!Sent(RevertOf(p)) > 0 \/ (cur = RevertOf(p) /\ step # "pick")
      /\ cur' = RevertOf(p) /\ step' # "pick" =>
           (cur = RevertOf(p) /\ step # "pick") \/ (step = "pick" /\ step' # "pick")
  BY <1>1, P!SentBy, LoopAssumed, DebtOf DEF Held, P!Price
<1>5. CASE priced' = priced /\ (step = "pick" => step' = "pick")
  BY <1>2, <1>3, <1>4, <1>5 DEF CostOf
<1>6. ASSUME NEW d \in Debts, Price(d)
      PROVE  CostOf(p)'
  <2>1. /\ d \in todo /\ step = "pick"
        /\ step' # "pick" => step' = "debit" /\ cur' = d
    BY <1>6 DEF Price, L!Price, L!GiveUp
  <2>2. priced'[p] = IF d = RevertOf(p) /\ step' = "debit"
                     THEN priced[p] \cup {bill[p]} ELSE priced[p]
    BY <1>6 DEF Price
  <2>3. row' = row
    BY <1>6, LoopBoth, TablesKept
  <2>4. d = RevertOf(p) => /\ bill[p] = row[p].settlementTx
                           /\ RevertState(row[p].status) # "none"
    BY <2>1, TodoOwed DEF RevertState
  <2>5. priced'[p] # {} => /\ RevertState(row'[p].status) # "none"
                           /\ priced'[p] = {row'[p].settlementTx}
    BY <1>2, <2>2, <2>3, <2>4
  <2>6. priced[p] # {} => priced'[p] # {}
    BY <2>2
  <2>7. cur' = RevertOf(p) /\ step' # "pick" => priced'[p] # {}
    BY <2>1, <2>2
  <2>8. P!Sent(RevertOf(p))' > 0 => priced'[p] # {}
    BY <1>2, <1>4, <2>6
  <2>9. QED
    BY <2>5, <2>7, <2>8 DEF CostOf
<1>7. QED
  BY <1>5, <1>6, PricedBy

LEMMA CostsAlways == ChargedSpec => []Costs
<1>1. ChargedInit => Costs
  BY DebtOf DEF ChargedInit, Costs, CostOf, L!Init, P!Sent
<1>2. QED
  BY <1>1, CostsStep, HeldAlways, PTL DEF ChargedSpec

\* No escrow is debited but for a settlement that reverted on chain with the
\* proposal's own bid in it, once priced by that settlement and no other, or for
\* a queued loss of one the driver gave up; whatever dies, lands late, is read
\* stale, or is released and settled anew meanwhile.
THEOREM EscrowByChain == ChargedSpec => []EscrowFollowsChain
<1>1. ASSUME Held, Costs, Chain, QueueGrounded, P!DebitsHaveDebts
      PROVE  EscrowFollowsChain
  <2>1. ASSUME NEW p \in Proposals, L!Sent(RevertOf(p)) > 0
        PROVE  \E a \in Auctions : /\ priced[p] = {a}
                                   /\ settle[a].fate = "reverted"
                                   /\ p \in Won(a)
    <3>1. /\ priced[p] = {row[p].settlementTx}
          /\ row[p].status \in {"settleFailed", "penalized"}
      BY <1>1, <2>1 DEF Costs, CostOf, L!Sent, P!Sent, RevertState
    <3>2. QED
      BY <1>1, <3>1 DEF Chain, Decided, Money
  <2>2. ASSUME NEW i \in 1 .. MaxCharges, L!Sent(LossOf(i)) > 0
        PROVE  /\ i <= Len(penalties)
               /\ \E a \in Auctions : /\ settle[a].fate = "abandoned"
                                      /\ penalties[i].proposal \in Won(a)
    <3>1. LossState(i) # "none"
      BY <1>1, <2>2, DebtOf, TableAt DEF P!DebitsHaveDebts, L!Sent, P!Sent
    <3>2. i \in Nat /\ Len(penalties) \in Nat
      BY <1>1, StoreAssumption DEF Held, Base, Inv, StoreTypeOK
    <3>3. i \in 1 .. Len(penalties)
      BY <3>1, <3>2 DEF LossState
    <3>4. QED
      BY <1>1, <3>3 DEF QueueGrounded
  <2>3. QED
    BY <2>1, <2>2 DEF EscrowFollowsChain
<1>2. ChargedSpec => []P!DebitsHaveDebts
  BY LoopProved, LoopAssumed, P!OnlyDebtsDebited, PTL
<1>3. QED
  BY <1>1, <1>2, ChargedIsService, HeldAlways, CostsAlways, ChainAlways, QueueAlways, PTL
=============================================================================
