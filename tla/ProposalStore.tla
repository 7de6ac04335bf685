--------------------------- MODULE ProposalStore ---------------------------
(***************************************************************************)
(* The proposal store (crates/byos/src/infra/storage.rs): the Postgres     *)
(* tables `proposals`, `penalties` and `solutions`, and one action per     *)
(* operation of ProposalStore that writes.  Each operation is one SQL      *)
(* statement or one row-locked transaction, hence one atomic step.         *)
(*                                                                         *)
(* The trail is the set of evidence handed to the audit channel; the gap   *)
(* between a commit, its event and the event's row is AuditTrail's.        *)
(*                                                                         *)
(* StoreNext is the store under callers that may issue any operation at    *)
(* any time.  ByosService composes the same actions with the real callers. *)
(*                                                                         *)
(* Op_Mistake is Op with a mistake it could have contained.  Nothing uses  *)
(* it: it takes the place of Op when the properties are put to test.       *)
(***************************************************************************)
EXTENDS Integers, Sequences, FiniteSets

CONSTANTS
  Proposals,         \* the ids the database sequence can draw
  Signers,           \* addresses that sign requests
  Owner,             \* Owner[p]: the sub-solver that signed proposal p
  Auctions,          \* auction ids of the driver
  SolutionIds,       \* solution ids inside one auction, 1 .. n
  Tx,                \* settlement transaction hashes
  NoTx,              \* the column is NULL
  MaxTime,           \* bound: the clock stops here
  MaxLifetime,       \* --max-proposal-lifetime-secs
  ExecutingTimeout,  \* --executing-timeout
  Retention,         \* --dropped-retention
  MaxCharges,        \* bound: rows the penalties queue may hold
  DbFaults,          \* may a database call fail, or its reply be lost?
  Tracked            \* bound: the kinds of audit evidence the instance keeps

ASSUME StoreAssumption ==
  /\ Owner \in [Proposals -> Signers]
  /\ NoTx \notin Tx
  /\ SolutionIds \subseteq Nat
  /\ {MaxTime, MaxLifetime, ExecutingTimeout, Retention, MaxCharges} \subseteq Nat
  /\ DbFaults \in BOOLEAN

VARIABLES
  clock,       \* wall clock and database now(), taken as one
  row,         \* row[p]: the `proposals` row of id p
  penalties,   \* the `penalties` table, in id order
  solutions,   \* the `solutions` table: which proposal a bid was built on
  audit        \* evidence in the audit channel or already in its table

storeVars == <<clock, row, penalties, solutions, audit>>

----------------------------------------------------------------------------
(* Statuses (domain/proposal.rs). *)

Live    == {"submitted", "active"}
Dropped == {"rejected", "simFailed", "expired", "cancelled"}
Money   == {"settled", "settleFailed", "penalized"}
Status  == Live \cup Dropped \cup Money \cup {"executing"}

\* "unborn": the sequence has not drawn the id; "gone": its row was deleted.
NoRow == {"unborn", "gone"}

Row == [status       : Status \cup NoRow,
        since        : Nat,             \* status_changed_at
        validUntil   : Nat,
        simulated    : BOOLEAN,         \* gas_used and trampoline are set
        reason       : BOOLEAN,         \* rejection_reason is set
        settlementTx : Tx \cup {NoTx},
        penaltyTx    : BOOLEAN]         \* penalty_tx_hash is set

Blank(s) == [status |-> s, since |-> 0, validUntil |-> 0, simulated |-> FALSE,
             reason |-> FALSE, settlementTx |-> NoTx, penaltyTx |-> FALSE]

Charge   == [proposal : Proposals, paid : BOOLEAN]
Solution == [auction : Auctions, solution : SolutionIds, proposal : Proposals]

Verdicts == {"accept", "acceptUnsimulated", "reject", "simFail"}
Outcomes == {"started", "succeeded", "reverted", "abandoned"}

\* What a driver notification can report: an outcome, or nothing to act on (a
\* pre-submission kind, or an outcome whose transaction hash is missing).
Reports == Outcomes \cup {"evidenceOnly"}

Exists(p) == row[p].status \in Status

\* An audit event about a proposal: the status it entered, or what else it
\* records.  A driver notification that moved nothing is kept with its report.
Kinds    == Status \cup {"received", "released", "nonSettlementDebited"}
Event    == [proposal : Proposals, kind : Kinds]
Notified == [proposal : Proposals, report : Reports]

\* A proposal that leaves execution without an outcome is not validated anew.
EventType(from, to) == IF from = "executing" /\ to = "active" THEN "released" ELSE to

Ev(p, k)   == [proposal |-> p, kind |-> k]
Kept(p, k) == k \in Tracked => Ev(p, k) \in audit

\* Every operation emits after its commit.  When the reply of the commit is
\* lost it returns an error instead, with the change made and nothing emitted.
HandOver(events) == \/ audit' = audit \cup events
                    \/ DbFaults /\ UNCHANGED audit

Emit(p, k) == HandOver({Ev(p, kept) : kept \in {k} \cap Tracked})

\* The status change every update writes, with its time stamp.
Moved(r, to) == [r EXCEPT !.status = to, !.since = clock]

----------------------------------------------------------------------------
StoreInit ==
  /\ clock = 0
  /\ row = [p \in Proposals |-> Blank("unborn")]
  /\ penalties = <<>>
  /\ solutions = {}
  /\ audit = {}

\* The environment's clock.
AdvanceClock ==
  /\ clock < MaxTime
  /\ clock' = clock + 1
  /\ UNCHANGED <<row, penalties, solutions, audit>>

\* The row a submission inserts.
Posted(vu) == [Blank("submitted") EXCEPT !.since = clock, !.validUntil = vu]

\* POST /proposals: the deadline gate, then insert.
Insert(p, vu) ==
  /\ row[p].status = "unborn"
  /\ clock <= vu /\ vu <= clock + MaxLifetime
  /\ row' = [row EXCEPT ![p] = Posted(vu)]
  /\ Emit(p, "received")
  /\ UNCHANGED <<clock, penalties, solutions>>

\* Compare-and-swap from the status the caller saw.
Transition(p, from, to) ==
  /\ row[p].status = from
  /\ row' = [row EXCEPT ![p] = Moved(row[p], to)]
  /\ Emit(p, to)
  /\ UNCHANGED <<clock, penalties, solutions>>

VerdictStatus(v) == CASE v = "reject"  -> "rejected"
                      [] v = "simFail" -> "simFailed"
                      [] OTHER         -> "active"

\* What a verdict makes of a row; staying active does not restamp it.
Judged(r, v) ==
  [r EXCEPT !.status    = VerdictStatus(v),
            !.since     = IF r.status = VerdictStatus(v) THEN r.since ELSE clock,
            !.reason    = (v = "reject"),
            !.simulated = r.simulated \/ v = "accept"]

\* Only the first verdict leaves evidence.
ResolveVerdict_Silent(p, v) ==
  /\ row[p].status \in Live
  /\ row' = [row EXCEPT ![p] = Judged(row[p], v)]
  /\ IF row[p].status = "active" THEN UNCHANGED audit ELSE Emit(p, VerdictStatus(v))
  /\ UNCHANGED <<clock, penalties, solutions>>

\* The verdict is applied to whatever live status the locked row has; staying
\* active emits no event.
ResolveVerdict(p, v) ==
  /\ row[p].status \in Live
  /\ row' = [row EXCEPT ![p] = Judged(row[p], v)]
  /\ IF row[p].status = VerdictStatus(v) THEN UNCHANGED audit
                                         ELSE Emit(p, VerdictStatus(v))
  /\ UNCHANGED <<clock, penalties, solutions>>

\* A frozen proposal can be cancelled, too.
Cancel_Frozen(p, signer) ==
  /\ Exists(p)
  /\ Owner[p] = signer
  /\ row[p].status \in Live \cup {"executing"}
  /\ row' = [row EXCEPT ![p] = Moved(row[p], "cancelled")]
  /\ Emit(p, "cancelled")
  /\ UNCHANGED <<clock, penalties, solutions>>

Cancel(p, signer) ==
  /\ Exists(p)
  /\ Owner[p] = signer
  /\ row[p].status \in Live
  /\ row' = [row EXCEPT ![p] = Moved(row[p], "cancelled")]
  /\ Emit(p, "cancelled")
  /\ UNCHANGED <<clock, penalties, solutions>>

----------------------------------------------------------------------------
(* Settlement outcomes. *)

\* A success reported late overrules the revert that was recorded.
LegalFrom_Overruled(o) == CASE o = "started"   -> {"active"}
                            [] o = "abandoned" -> {"executing"}
                            [] o = "succeeded" -> {"executing", "active", "settleFailed"}
                            [] OTHER           -> {"executing", "active"}

\* The legality table: the statuses an outcome applies from, and what it makes.
LegalFrom(o) == CASE o = "started"   -> {"active"}
                  [] o = "abandoned" -> {"executing"}
                  [] OTHER           -> {"executing", "active"}

\* The outcome's own name is stored.
OutcomeStatus_ByName(o) == IF o = "started" THEN "executing" ELSE o

\* Success and revert are swapped.
OutcomeStatus_Swapped(o) == CASE o = "started"   -> "executing"
                              [] o = "succeeded" -> "settleFailed"
                              [] o = "reverted"  -> "settled"
                              [] OTHER           -> "active"

OutcomeStatus(o) == CASE o = "started"   -> "executing"
                      [] o = "succeeded" -> "settled"
                      [] o = "reverted"  -> "settleFailed"
                      [] OTHER           -> "active"

\* The hash is written for every outcome.
Resolved_HashAlways(r, o, tx) ==
  [Moved(r, OutcomeStatus(o)) EXCEPT !.settlementTx = tx]

\* What an outcome makes of a row: a settlement that ended cites its hash.
Resolved(r, o, tx) ==
  [Moved(r, OutcomeStatus(o)) EXCEPT
     !.settlementTx = IF o \in {"succeeded", "reverted"} THEN tx
                                                         ELSE r.settlementTx]

\* A legal outcome.  An abandonment queues its charge in the same transaction.
ApplySettlementOutcome(p, o, tx) ==
  /\ row[p].status \in LegalFrom(o)
  /\ row' = [row EXCEPT ![p] = Resolved(row[p], o, tx)]
  /\ IF o = "abandoned"
     THEN /\ Len(penalties) < MaxCharges
          /\ penalties' = Append(penalties, [proposal |-> p, paid |-> FALSE])
     ELSE UNCHANGED penalties
  /\ Emit(p, EventType(row[p].status, OutcomeStatus(o)))
  /\ UNCHANGED <<clock, solutions>>

\* No evidence either.
NoteDriverNotification_Silent(p, report) == UNCHANGED storeVars

\* Evidence without a transition.
NoteDriverNotification(p, report) ==
  /\ audit' = audit \cup {[proposal |-> p, report |-> r] : r \in {report} \cap Tracked}
  /\ UNCHANGED <<clock, row, penalties, solutions>>

Stale(p) == row[p].status = "executing" /\ row[p].since + ExecutingTimeout < clock

\* One UPDATE for all of them, no charge.
ReleaseStaleExecuting ==
  /\ row' = [p \in Proposals |-> IF Stale(p) THEN Moved(row[p], "active")
                                             ELSE row[p]]
  /\ HandOver({Ev(p, k) : p \in {q \in Proposals : Stale(q)},
                          k \in {"released"} \cap Tracked})
  /\ UNCHANGED <<clock, penalties, solutions>>

----------------------------------------------------------------------------
(* Charges, retention and attribution. *)

RecordPenalty(p) ==
  /\ row[p].status = "settleFailed"
  /\ row' = [row EXCEPT ![p] = [Moved(row[p], "penalized") EXCEPT !.penaltyTx = TRUE]]
  /\ Emit(p, "penalized")
  /\ UNCHANGED <<clock, penalties, solutions>>

RecordNonSettlementDebit(i) ==
  /\ i \in 1 .. Len(penalties)
  /\ penalties' = [penalties EXCEPT ![i].paid = TRUE]
  /\ Emit(penalties[i].proposal, "nonSettlementDebited")
  /\ UNCHANGED <<clock, row, solutions>>

\* The sweep forgets one dropped status.
Sweepable_NotCancelled(p) ==
  row[p].status \in Dropped \ {"cancelled"} /\ row[p].since + Retention < clock

Sweepable(p) == row[p].status \in Dropped /\ row[p].since + Retention < clock

\* The foreign key does not cascade.
SweepDropped_NoCascade ==
  /\ row' = [p \in Proposals |-> IF Sweepable(p) THEN Blank("gone") ELSE row[p]]
  /\ UNCHANGED <<clock, penalties, solutions, audit>>

\* One DELETE; the solutions rows of a deleted proposal go with it.
SweepDropped ==
  /\ row' = [p \in Proposals |-> IF Sweepable(p) THEN Blank("gone") ELSE row[p]]
  /\ solutions' = {r \in solutions : ~ Sweepable(r.proposal)}
  /\ UNCHANGED <<clock, penalties, audit>>

\* Upsert under the foreign key to proposals.
RecordSolution(a, s, p) ==
  /\ Exists(p)
  /\ solutions' = {r \in solutions : r.auction # a \/ r.solution # s}
                    \cup {[auction |-> a, solution |-> s, proposal |-> p]}
  /\ UNCHANGED <<clock, row, penalties, audit>>

\* The join forgets the solution ids.
SolutionProposals_ByAuction(a, S) == {r.proposal : r \in {q \in solutions : q.auction = a}}

\* The join /notify attributes a notification with.
SolutionProposals(a, S) ==
  {r.proposal : r \in {q \in solutions : q.auction = a /\ q.solution \in S}}

----------------------------------------------------------------------------
StoreNext ==
  \/ AdvanceClock
  \/ \E p \in Proposals :
       \/ \E vu \in 0 .. MaxTime : Insert(p, vu)
       \/ \E from \in Live : Transition(p, from, "expired")
       \/ \E v \in Verdicts : ResolveVerdict(p, v)
       \/ \E signer \in Signers : Cancel(p, signer)
       \/ \E o \in Outcomes, tx \in Tx : ApplySettlementOutcome(p, o, tx)
       \/ \E report \in Reports : NoteDriverNotification(p, report)
       \/ RecordPenalty(p)
       \/ \E a \in Auctions, s \in SolutionIds : RecordSolution(a, s, p)
  \/ \E i \in 1 .. Len(penalties) : RecordNonSettlementDebit(i)
  \/ ReleaseStaleExecuting
  \/ SweepDropped

StoreSpec == StoreInit /\ [][StoreNext]_storeVars

----------------------------------------------------------------------------
(* Properties. *)

\* The columns hold values of their types and every recorded event is one of
\* the audit vocabulary (domain/audit.rs).
StoreTypeOK ==
  /\ clock \in Nat
  /\ row \in [Proposals -> Row]
  /\ penalties \in Seq(Charge)
  /\ solutions \subseteq Solution
  /\ audit \subseteq Event \cup Notified

\* The evidence columns agree with the status through every race: a settlement
\* transaction is cited exactly in the money states, a penalty transaction
\* exactly once penalized, a rejection reason exactly when rejected
\* (openapi.yml, 140-144 and 501-510).
EvidenceColumns ==
  \A p \in Proposals :
    /\ row[p].settlementTx # NoTx <=> row[p].status \in Money
    /\ row[p].penaltyTx <=> row[p].status = "penalized"
    /\ row[p].reason <=> row[p].status = "rejected"

\* Attribution: a (auction, solution) key names one proposal, and no key
\* outlives its proposal's row, across upserts, sweeps and re-run auctions.
AttributionIntegrity ==
  /\ \A r \in solutions : Exists(r.proposal)
  /\ \A r1, r2 \in solutions :
       r1.auction = r2.auction /\ r1.solution = r2.solution => r1 = r2

\* The trail explains the row and the charges queued against it, and still does
\* once the row is gone: the status reached, those that must have come before
\* it, and the release each charge is for are in evidence (ADR-0013: the
\* proposal's history outlives its row).
Explained(p) ==
  LET s == row[p].status
  IN /\ s = "unborn" => \A k \in Kinds : Ev(p, k) \notin audit
     /\ s # "unborn" => Kept(p, "received")
     /\ s \in Status \ {"submitted"} => Kept(p, s)
     /\ s \in {"executing"} \cup Money => Kept(p, "active")
     /\ s = "penalized" => Kept(p, "settleFailed")
     /\ s = "gone" => (Dropped \subseteq Tracked => \E k \in Dropped : Ev(p, k) \in audit)

TrailExplainsRow ==
  /\ \A p \in Proposals : Explained(p)
  /\ \A i \in 1 .. Len(penalties) :
       /\ Kept(penalties[i].proposal, "released")
       /\ penalties[i].paid => Kept(penalties[i].proposal, "nonSettlementDebited")

\* A row's deadline is never further away than the lifetime cap from its last
\* restamp: neither a verdict nor a release extends a proposal's life.
DeadlineCapped ==
  \A p \in Proposals : row[p].validUntil <= row[p].since + MaxLifetime

\* The store implements the promised lifecycle.
PhaseOf(s) == CASE s \in Live           -> "live"
                [] s \in Dropped        -> "dropped"
                [] s = "settleFailed"   -> "owed"
                [] s = "penalized"      -> "charged"
                [] OTHER                -> s

Lifecycle == INSTANCE ProposalLifecycle
               WITH phase <- [p \in Proposals |-> PhaseOf(row[p].status)]

ImplementsLifecycle == Lifecycle!Spec
=============================================================================
