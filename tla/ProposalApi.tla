---------------------------- MODULE ProposalApi ----------------------------
(***************************************************************************)
(* What the public API answers and to whom (infra/api/routes.rs, dto.rs,   *)
(* error.rs, byos-common/src/eip712.rs), over a proposals table some of    *)
(* whose rows cannot be read back (infra/storage.rs: StoreError, the row   *)
(* codec).  A bad migration or a manual edit damages a row at any time,    *)
(* between a loop's snapshot and its write included.  SQL still selects,   *)
(* updates and deletes a damaged row by the columns it names; decoding it  *)
(* fails, and each operation of the store decodes other columns.           *)
(*                                                                         *)
(* Time, deferral, failing calls and merged settlements are ByosService's: *)
(* here whatever a deadline or a timeout guards may happen at any time,    *)
(* and a debit is one step.                                                *)
(*                                                                         *)
(* Op_Mistake is Op with a mistake it could have contained.  Nothing uses  *)
(* it: it takes the place of Op when the properties are put to test.       *)
(***************************************************************************)
EXTENDS Naturals, FiniteSets

CONSTANTS
  Proposals,    \* ids the database sequence draws, in their order
  Accounts,     \* sub-solver addresses
  Stranger,     \* any other address a signature recovers
  Bodies,       \* what a POST can propose: an order and a route, all of it signed
  BodyOf,       \* BodyOf[p]: the body of the POST that draws id p
  OrderOf,      \* OrderOf[b]: the order body b fills
  RouteOf,      \* RouteOf[b]: its interactions
  MaxDamage     \* bound: rows damaged

ASSUME ApiAssumption ==
  /\ Stranger \notin Accounts
  /\ BodyOf \in [Proposals -> Bodies]
  /\ DOMAIN OrderOf = Bodies /\ DOMAIN RouteOf = Bodies
  /\ \A b, c \in Bodies : OrderOf[b] = OrderOf[c] /\ RouteOf[b] = RouteOf[c] => b = c
  /\ Proposals \subseteq Nat
  /\ MaxDamage \in Nat

VARIABLES
  rows,        \* rows[p]: the proposals row of id p
  due,         \* the proposal /notify has attributed an outcome to, not yet applied
  pending,     \* proposals with a pending row in the penalties table
  released,    \* has the tick released its stale executions?
  seen,        \* seen[p]: the status p has in the tick's snapshot
  blurred,     \* penalties rows that cannot be read
  damages,     \* how many rows were damaged
  evidence,    \* evidence[p]: the last status the audit trail was given for p
  told,        \* told[p]: a final answer p's owner was given, if any
  asked        \* asked[p]: the signatures of the requests that changed p

apiVars  == <<told, asked>>
loopVars == <<due, released, seen>>
vars     == <<rows, loopVars, pending, blurred, damages, evidence, apiVars>>

----------------------------------------------------------------------------
(* Statuses and rows. *)

Live     == {"submitted", "active"}
Dropped  == {"rejected", "simFailed", "expired", "cancelled"}
Status   == Live \cup Dropped \cup {"executing", "settled", "settleFailed", "penalized"}
NoRow    == {"unborn", "gone"}
Outcomes == {"started", "succeeded", "reverted", "abandoned"}
None     == "none"

\* What a client may take as the end of a proposal.
IsTerminal(s) == s \in Status \ (Live \cup {"executing"})

\* What of a row does not parse: the sub-solver or the order, the status, or
\* another column.
Columns == {"identity", "status", "rest"}

Row == [status : Status \cup NoRow, owner : Accounts \cup {Stranger},
        damage : Columns \cup {None}]

Exists(p) == rows[p].status \in Status

\* A row's columns parse one by one.
IdentityParses(p) == rows[p].damage # "identity"
StatusParses(p)   == rows[p].damage # "status"

\* A status in a WHERE clause matches the column's text.
Selected(S) == {p \in Proposals : rows[p].status \in S /\ StatusParses(p)}

Readable(p) == rows[p].damage = None

\* A batch with an unreadable row fails as a whole.
Decoded_AllOrNothing(P) == IF \A p \in P : Readable(p) THEN P ELSE {}

\* A batch returns the rows it can read.
Decoded(P) == {p \in P : Readable(p)}

----------------------------------------------------------------------------
(* Signatures. *)

ProposalMsg(b) == [type |-> "ProposalData",   about |-> b]
CancelMsg(p)   == [type |-> "CancelProposal", about |-> p]
ReadMsg        == [type |-> "ReadAuth",       about |-> 1]

Messages == {ProposalMsg(b) : b \in Bodies} \cup {CancelMsg(p) : p \in Proposals}
              \cup {ReadMsg}

\* A signature exists when its account signed the message, once and for all.
Signatures == [by : Accounts, meant : Messages]

\* The interactions are not part of what is signed.
Digest_NoRoute(m) == IF m.type = "ProposalData" THEN <<m.type, OrderOf[m.about]>>
                                                ELSE <<m.type, m.about>>

\* The fields an EIP-712 digest covers, under its type hash.
Digest(m) == IF m.type = "ProposalData"
             THEN <<m.type, OrderOf[m.about], RouteOf[m.about]>>
             ELSE <<m.type, m.about>>

\* Checked against another message, a signature recovers some other address.
Recovered(sig, m) == IF Digest(sig.meant) = Digest(m) THEN sig.by ELSE Stranger

----------------------------------------------------------------------------
ApiTypeOK ==
  /\ rows \in [Proposals -> Row]
  /\ due \subseteq Proposals /\ Cardinality(due) <= 1
  /\ pending \subseteq Proposals
  /\ released \in BOOLEAN
  /\ seen \in [Proposals -> Live \cup {None}]
  /\ blurred \subseteq pending
  /\ damages \in 0 .. MaxDamage
  /\ evidence \in [Proposals -> Status \cup {None}]
  /\ told \in [Proposals -> Status \cup {None}]
  /\ asked \in [Proposals -> SUBSET Signatures]

Blank(s) == [status |-> s, owner |-> Stranger, damage |-> None]

Init ==
  /\ rows = [p \in Proposals |-> Blank("unborn")]
  /\ due = {} /\ pending = {} /\ blurred = {} /\ damages = 0
  /\ released = FALSE
  /\ seen = [p \in Proposals |-> None]
  /\ evidence = [p \in Proposals |-> None]
  /\ told = [p \in Proposals |-> None]
  /\ asked = [p \in Proposals |-> {}]

\* A status change, and the event that tells of it.
Move(p, to) == rows' = [rows EXCEPT ![p].status = to]
Tell(p, to) == evidence' = [evidence EXCEPT ![p] = to]

----------------------------------------------------------------------------
(* Requests. *)

\* POST /proposals: whoever the signature recovers owns the proposal.
Post(p, sig) ==
  LET owner == Recovered(sig, ProposalMsg(BodyOf[p]))
  IN /\ rows[p].status = "unborn"
     /\ \A q \in Proposals : q < p => rows[q].status # "unborn"
     /\ rows' = [rows EXCEPT ![p] = [Blank("submitted") EXCEPT !.owner = owner]]
     /\ Tell(p, "submitted")
     /\ asked' = [asked EXCEPT ![p] = IF owner \in Accounts THEN {sig} ELSE {}]
     /\ UNCHANGED <<loopVars, pending, blurred, damages, told>>

\* What the store returns for one row: StoreError, or "ok".
Lookup(p) == CASE ~ Exists(p)                  -> "NotFound"
               [] Exists(p) /\ ~ Readable(p)   -> "CorruptRow"
               [] OTHER                        -> "ok"

\* The identity is parsed, then compared, before the status is.
Cancellation(p, signer) ==
  IF ~ Exists(p)                        THEN "NotFound"
  ELSE IF ~ IdentityParses(p)           THEN "CorruptRow"
  ELSE IF rows[p].owner # signer        THEN "NotOwner"
  ELSE IF ~ StatusParses(p)             THEN "CorruptRow"
  ELSE IF rows[p].status \notin Live    THEN "StaleTransition"
  ELSE "ok"

\* The kind of error a request is refused with, and its status code.
Kind(e) == CASE e \in {"NotFound", "NotOwner"} -> "ProposalNotFound"
             [] e = "StaleTransition"          -> "ProposalNotCancellable"
             [] e = "CorruptRow"               -> "Internal"
             [] OTHER                          -> "ok"

Code(kind) == CASE kind = "ProposalNotFound"       -> 404
                [] kind = "ProposalNotCancellable" -> 409
                [] kind = "Internal"               -> 500
                [] OTHER                           -> 200

\* GET /proposal/{id}: the row is decoded, then hidden from all but its owner.
GetAnswer(p, reader) ==
  LET found == Lookup(p)
  IN Code(Kind(IF found = "ok" /\ rows[p].owner # reader THEN "NotFound" ELSE found))

CancelAnswer(p, signer) == Code(Kind(Cancellation(p, signer)))

\* Whom the X-Signature header of a read authenticates.
Reader(sig) == Recovered(sig, ReadMsg)

\* A client remembers an answer it may take as final.
Get(p, sig) ==
  /\ GetAnswer(p, Reader(sig)) = 200
  /\ IsTerminal(rows[p].status)
  /\ told' = [told EXCEPT ![p] = rows[p].status]
  /\ UNCHANGED <<rows, loopVars, pending, blurred, damages, evidence, asked>>

\* GET /proposals/{order_uid} and GET /proposals/by-sub-solver.
ListByOrder(o, reader) ==
  Decoded({p \in Selected({"active"}) : /\ OrderOf[BodyOf[p]] = o
                                        /\ rows[p].owner = reader})

ListBySubSolver(reader) ==
  Decoded({p \in Selected(Live) : rows[p].owner = reader})

\* The proposals /solve chooses from for an order.
Book(o) == Decoded({p \in Selected({"active"}) : OrderOf[BodyOf[p]] = o})

\* DELETE /proposal/{id}.  Two strangers are two addresses.
Cancel(p, sig) ==
  LET signer == Recovered(sig, CancelMsg(p))
  IN /\ signer # Stranger
     /\ Cancellation(p, signer) = "ok"
     /\ Move(p, "cancelled") /\ Tell(p, "cancelled")
     /\ told' = [told EXCEPT ![p] = "cancelled"]
     /\ asked' = [asked EXCEPT ![p] = @ \cup {sig}]
     /\ UNCHANGED <<loopVars, pending, blurred, damages>>

----------------------------------------------------------------------------
(* The validation loop. *)

Idle == \A p \in Proposals : seen[p] = None

\* Some executions are stale: all of them are released, or none when the event
\* of one could not be built.
TickRelease ==
  /\ Idle /\ ~ released
  /\ released' = TRUE
  /\ \E S \in SUBSET Selected({"executing"}) :
       IF \E p \in S : ~ IdentityParses(p)
       THEN UNCHANGED <<rows, evidence>>
       ELSE /\ rows' = [p \in Proposals |-> IF p \in S
                                            THEN [rows[p] EXCEPT !.status = "active"]
                                            ELSE rows[p]]
            /\ evidence' = [p \in Proposals |-> IF p \in S THEN "active" ELSE evidence[p]]
  /\ UNCHANGED <<due, seen, pending, blurred, damages, apiVars>>

TickSnapshot ==
  /\ released
  /\ released' = FALSE
  /\ seen' = [p \in Proposals |-> IF p \in Decoded(Selected(Live))
                                  THEN rows[p].status ELSE None]
  /\ UNCHANGED <<rows, due, pending, blurred, damages, evidence, apiVars>>

\* The row is written before its event's columns are parsed.
ResolveVerdict_WritesFirst(p, to) ==
  /\ rows[p].status \in Live /\ StatusParses(p)
  /\ Move(p, to)
  /\ IF IdentityParses(p) THEN Tell(p, to) ELSE UNCHANGED evidence

\* A verdict parses what its event needs and then writes.
ResolveVerdict(p, to) ==
  /\ rows[p].status \in Live
  /\ IdentityParses(p) /\ StatusParses(p)
  /\ Move(p, to) /\ Tell(p, to)

\* A compare-and-swap; its event is built from the snapshot.
Transition(p, from, to) ==
  /\ p \in Selected({from})
  /\ Move(p, to) /\ Tell(p, to)

\* A write found no row it could move: swept, moved on, or unreadable.
StaleOrMissing(p) ==
  /\ rows[p].status \notin Live \/ ~ Readable(p)
  /\ UNCHANGED <<rows, evidence>>

\* Expiry or a verdict.
TickJudge(p) ==
  /\ seen[p] # None
  /\ seen' = [seen EXCEPT ![p] = None]
  /\ \/ Transition(p, seen[p], "expired")
     \/ \E to \in {"active", "rejected", "simFailed"} : ResolveVerdict(p, to)
     \/ StaleOrMissing(p)
  /\ UNCHANGED <<due, released, pending, blurred, damages, apiVars>>

----------------------------------------------------------------------------
(* /notify.  A proposal that has been active may have been bid. *)

\* The join skips a row it cannot read: the outcome reaches nobody.
\* Bound: one outcome on its way at a time.
Attribute(p) ==
  /\ due = {}
  /\ Exists(p) /\ p \in Decoded(Proposals)
  /\ rows[p].status # "submitted"
  /\ due' = {p}
  /\ UNCHANGED <<rows, released, seen, pending, blurred, damages, evidence, apiVars>>

\* The outcomes of a transaction are taken from dropped proposals, too.
LegalFrom_Dropped(o) == CASE o = "started"   -> {"active"}
                          [] o = "abandoned" -> {"executing"}
                          [] OTHER           -> {"executing", "active"} \cup Dropped

LegalFrom(o) == CASE o = "started"   -> {"active"}
                  [] o = "abandoned" -> {"executing"}
                  [] OTHER           -> {"executing", "active"}

\* The outcome's own name is stored.
Outcome_ByName(o) == IF o = "started" THEN "executing" ELSE o

Outcome(o) == CASE o = "started"   -> "executing"
                [] o = "succeeded" -> "settled"
                [] o = "reverted"  -> "settleFailed"
                [] OTHER           -> "active"

\* Only the status of the locked row is parsed; the event is built from the
\* row as attributed.  Bound: one pending charge per proposal.
Apply(p, o) ==
  /\ p \in due
  /\ due' = {}
  /\ IF p \in Selected(LegalFrom(o))
     THEN /\ Move(p, Outcome(o)) /\ Tell(p, Outcome(o))
          /\ IF o = "abandoned"
             THEN p \notin pending /\ pending' = pending \cup {p}
             ELSE UNCHANGED pending
     ELSE UNCHANGED <<rows, evidence, pending>>
  /\ UNCHANGED <<released, seen, blurred, damages, apiVars>>

----------------------------------------------------------------------------
(* The penalty and retention loops. *)

DebitRevert(p) ==
  /\ p \in Decoded(Selected({"settleFailed"}))
  /\ Move(p, "penalized") /\ Tell(p, "penalized")
  /\ UNCHANGED <<loopVars, pending, blurred, damages, apiVars>>

\* The queue is read as a whole, or not at all.
DebitCharge(p) ==
  /\ blurred = {}
  /\ p \in pending
  /\ pending' = pending \ {p}
  /\ UNCHANGED <<rows, loopVars, blurred, damages, evidence, apiVars>>

\* One DELETE of the rows dropped long enough ago.
\* (What was said of them is not kept any longer either.)
Sweep ==
  \E S \in SUBSET Selected(Dropped) :
    /\ S # {}
    /\ rows' = [p \in Proposals |-> IF p \in S THEN Blank("gone") ELSE rows[p]]
    /\ evidence' = [p \in Proposals |-> IF p \in S THEN None ELSE evidence[p]]
    /\ told' = [p \in Proposals |-> IF p \in S THEN None ELSE told[p]]
    /\ asked' = [p \in Proposals |-> IF p \in S THEN {} ELSE asked[p]]
    /\ UNCHANGED <<loopVars, pending, blurred, damages>>

----------------------------------------------------------------------------
(* The environment: a row, or a queued charge, stops being readable. *)

DamageRow(p, column) ==
  /\ Exists(p) /\ Readable(p)
  /\ damages < MaxDamage
  /\ damages' = damages + 1
  /\ rows' = [rows EXCEPT ![p].damage = column]
  /\ UNCHANGED <<loopVars, pending, blurred, evidence, apiVars>>

DamageCharge(p) ==
  /\ p \in pending \ blurred
  /\ damages < MaxDamage
  /\ damages' = damages + 1
  /\ blurred' = blurred \cup {p}
  /\ UNCHANGED <<rows, loopVars, pending, evidence, apiVars>>

Next ==
  \/ \E p \in Proposals :
       \/ \E sig \in Signatures :
            Post(p, sig) \/ Get(p, sig) \/ Cancel(p, sig)
       \/ TickJudge(p)
       \/ Attribute(p) \/ \E o \in Outcomes : Apply(p, o)
       \/ DebitRevert(p) \/ DebitCharge(p)
       \/ \E column \in Columns : DamageRow(p, column)
       \/ DamageCharge(p)
  \/ TickRelease \/ TickSnapshot \/ Sweep

Spec == Init /\ [][Next]_vars

\* The validation and penalty loops tick for the life of the process, and the
\* awaits of a tick return.  Nothing is owed by clients, driver or sweep.
Fairness ==
  /\ WF_vars(TickRelease) /\ WF_vars(TickSnapshot)
  /\ \A p \in Proposals : /\ WF_vars(TickJudge(p))
                          /\ WF_vars(DebitRevert(p))
                          /\ WF_vars(DebitCharge(p))

FairSpec == Spec /\ Fairness

----------------------------------------------------------------------------
(* Properties. *)

\* Nobody is shown, or loses by cancellation, what it did not sign: a GET, a
\* listing or the 409 of a DELETE tells of a proposal only to the account that
\* signed this very body, and what is cancelled its owner signed to cancel,
\* whichever signature is sent to whichever endpoint (ADR-0011, 33-37).
Shown(a) == {p \in Proposals : GetAnswer(p, a) = 200}
              \cup {p \in Proposals : CancelAnswer(p, a) \in {200, 409}}
              \cup ListBySubSolver(a)
              \cup UNION {ListByOrder(OrderOf[b], a) : b \in Bodies}

ShownWhatWasSigned ==
  /\ \A a \in Accounts : \A p \in Shown(a) :
       [by |-> a, meant |-> ProposalMsg(BodyOf[p])] \in asked[p]
  /\ \A p \in Proposals : rows[p].status = "cancelled" =>
       [by |-> rows[p].owner, meant |-> CancelMsg(p)] \in asked[p]

\* A final answer is final.  A client that read a terminal status, or whose
\* DELETE succeeded, may submit anew: the proposal it gave up never trades,
\* although outcomes, verdicts and releases keep reaching the store
\* (proposal-dto, Status::is_terminal).
AnswersFinal ==
  \A p \in Proposals : told[p] # None =>
    \/ rows[p].status \in {told[p], "gone"}
    \/ told[p] = "settleFailed" /\ rows[p].status = "penalized"

\* No committed change without its evidence, damaged rows included
\* (storage.rs: "the one state the audit design forbids").
EveryChangeTold ==
  \A p \in Proposals : Exists(p) => evidence[p] = rows[p].status

\* A damaged row costs one proposal, not the book (storage.rs, decode_rows):
\* every other active proposal can still be bid, every other submission is
\* still judged and every other revert still debited.
DamageContained ==
  \A p \in Proposals :
    /\ [](rows[p].status = "active" /\ Readable(p) => p \in Book(OrderOf[BodyOf[p]]))
    /\ rows[p].status = "submitted"
         ~> rows[p].status # "submitted" \/ ~ Readable(p)
    /\ rows[p].status = "settleFailed"
         ~> rows[p].status = "penalized" \/ ~ Readable(p)

\* The same rule - "a collection returns what it can read" - said of the queue
\* of non-settlement charges: every other charge is still debited.
ChargesContained ==
  \A p \in Proposals : p \in pending ~> p \notin pending \/ p \in blurred
=============================================================================
