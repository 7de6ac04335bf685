------------------------ MODULE ProposalApi_proofs ------------------------
(***************************************************************************)
(* For any number of accounts, proposals and damaged rows: nobody learns   *)
(* of, or loses, what it did not sign; a final answer is final; and every  *)
(* change of a row has its evidence, damaged rows included.                *)
(***************************************************************************)
EXTENDS ProposalApi, TLAPS, FiniteSetTheorems

\* At most one outcome is on its way.
Alone == due = {} \/ \E p \in Proposals : due = {p}

Typed ==
  /\ rows \in [Proposals -> Row]
  /\ Alone
  /\ pending \subseteq Proposals
  /\ released \in BOOLEAN
  /\ seen \in [Proposals -> Live \cup {None}]
  /\ blurred \subseteq pending
  /\ damages \in 0 .. MaxDamage
  /\ evidence \in [Proposals -> Status \cup {None}]
  /\ told \in [Proposals -> Status \cup {None}]
  /\ asked \in [Proposals -> SUBSET Signatures]

----------------------------------------------------------------------------
(* What one step can make of one proposal: its row, its evidence, what its   *)
(* owner was told and what was signed for it.                                *)

\* The changes of status nobody signs for.
Unasked ==
  (Live \X {"active", "expired", "rejected", "simFailed"})
    \cup ({"active"} \X {"executing"})
    \cup ({"executing"} \X {"active"})
    \cup ({"active", "executing"} \X {"settled", "settleFailed"})
    \cup {<<"settleFailed", "penalized">>}

Stays(q) ==
  /\ rows'[q].status = rows[q].status /\ rows'[q].owner = rows[q].owner
  /\ evidence'[q] = evidence[q] /\ asked'[q] = asked[q]
  /\ \/ told'[q] = told[q]
     \/ IsTerminal(rows[q].status) /\ told'[q] = rows[q].status

Moves(q) ==
  /\ <<rows[q].status, rows'[q].status>> \in Unasked
  /\ rows'[q].owner = rows[q].owner
  /\ evidence'[q] = rows'[q].status
  /\ told'[q] = told[q] /\ asked'[q] = asked[q]

Posted(q) ==
  /\ rows[q].status = "unborn" /\ rows'[q].status = "submitted"
  /\ rows'[q].owner \in Accounts \cup {Stranger}
  /\ evidence'[q] = "submitted" /\ told'[q] = told[q]
  /\ \E sig \in Signatures :
       rows'[q].owner \in Accounts =>
         /\ rows'[q].owner = sig.by
         /\ Digest(sig.meant) = Digest(ProposalMsg(BodyOf[q]))
         /\ asked'[q] = {sig}

Cancelled(q) ==
  /\ rows[q].status \in Live /\ rows'[q].status = "cancelled"
  /\ rows'[q].owner = rows[q].owner
  /\ evidence'[q] = "cancelled" /\ told'[q] = "cancelled"
  /\ \E sig \in Signatures :
       /\ rows[q].owner = sig.by
       /\ Digest(sig.meant) = Digest(CancelMsg(q))
       /\ asked'[q] = asked[q] \cup {sig}

Swept(q) ==
  /\ rows[q].status \in Dropped /\ rows'[q] = Blank("gone")
  /\ told'[q] = None

Step(q) == Stays(q) \/ Moves(q) \/ Posted(q) \/ Cancelled(q) \/ Swept(q)

\* A status written with its event is a move of that one proposal.
LEMMA MoveStep ==
  ASSUME Typed, NEW p \in Proposals, NEW to, Move(p, to), Tell(p, to),
         <<rows[p].status, to>> \in Unasked, UNCHANGED apiVars,
         NEW q \in Proposals
  PROVE  Step(q)
<1>1. /\ rows \in [Proposals -> Row] /\ evidence \in [Proposals -> Status \cup {None}]
      /\ told' = told /\ asked' = asked
  BY DEF Typed, apiVars
<1>2. CASE q = p
  <2>1. /\ rows'[p].status = to /\ rows'[p].owner = rows[p].owner
        /\ evidence'[p] = to
    BY <1>1 DEF Move, Tell, Row
  <2>2. QED
    BY <1>1, <1>2, <2>1 DEF Step, Moves
<1>3. CASE q # p
  BY <1>1, <1>3 DEF Move, Tell, Step, Stays
<1>4. QED
  BY <1>2, <1>3

\* A step that touches no row, evidence or account.
LEMMA StillStep ==
  ASSUME UNCHANGED <<rows, evidence, apiVars>>, NEW q \in Proposals
  PROVE  Step(q)
  BY DEF Step, Stays, apiVars

\* Every step is one of these, for every proposal.
LEMMA EveryStep ==
  ASSUME Typed, [Next]_vars, NEW q \in Proposals
  PROVE  Step(q)
<1>0. /\ rows \in [Proposals -> Row] /\ evidence \in [Proposals -> Status \cup {None}]
      /\ told \in [Proposals -> Status \cup {None}]
      /\ asked \in [Proposals -> SUBSET Signatures]
      /\ seen \in [Proposals -> Live \cup {None}]
  BY DEF Typed
<1>1. ASSUME NEW p \in Proposals, NEW sig \in Signatures, Post(p, sig)
      PROVE  Step(q)
  <2> DEFINE owner == Recovered(sig, ProposalMsg(BodyOf[p]))
  <2>1. CASE p = q
    <3>1. /\ rows[q].status = "unborn"
          /\ rows'[q].status = "submitted" /\ rows'[q].owner = owner
          /\ evidence'[q] = "submitted" /\ told' = told
          /\ owner \in Accounts => asked'[q] = {sig}
      BY <1>0, <1>1, <2>1 DEF Post, Tell, Blank
    <3>2. owner \in Accounts =>
            owner = sig.by /\ Digest(sig.meant) = Digest(ProposalMsg(BodyOf[q]))
      BY <2>1, ApiAssumption DEF Recovered
    <3>3. owner \in Accounts \cup {Stranger}
      BY DEF Recovered, Signatures
    <3> HIDE DEF owner
    <3>4. QED
      BY <3>1, <3>2, <3>3 DEF Step, Posted
  <2>2. CASE p # q
    BY <1>0, <1>1, <2>2 DEF Post, Tell, Step, Stays
  <2>3. QED
    BY <2>1, <2>2
<1>2. ASSUME NEW p \in Proposals, NEW sig \in Signatures, Get(p, sig)
      PROVE  Step(q)
  BY <1>0, <1>2 DEF Get, Step, Stays
<1>3. ASSUME NEW p \in Proposals, NEW sig \in Signatures, Cancel(p, sig)
      PROVE  Step(q)
  <2> DEFINE signer == Recovered(sig, CancelMsg(p))
  <2>1. signer # Stranger /\ rows[p].owner = signer /\ rows[p].status \in Live
    BY <1>3 DEF Cancel, Cancellation
  <2>2. signer = sig.by /\ Digest(sig.meant) = Digest(CancelMsg(p))
    BY <2>1 DEF Recovered
  <2> HIDE DEF signer
  <2>3. CASE p = q
    <3>1. /\ rows'[q].status = "cancelled" /\ rows'[q].owner = rows[q].owner
          /\ evidence'[q] = "cancelled" /\ told'[q] = "cancelled"
          /\ asked'[q] = asked[q] \cup {sig}
      BY <1>0, <1>3, <2>3 DEF Cancel, Move, Tell, Row
    <3>2. QED
      BY <2>1, <2>2, <2>3, <3>1 DEF Step, Cancelled
  <2>4. CASE p # q
    BY <1>0, <1>3, <2>4 DEF Cancel, Move, Tell, Step, Stays
  <2>5. QED
    BY <2>3, <2>4
<1>4. ASSUME NEW p \in Proposals, TickJudge(p)
      PROVE  Step(q)
  <2>1. UNCHANGED apiVars /\ seen[p] \in Live
    BY <1>0, <1>4 DEF TickJudge, None
  <2>2. CASE Transition(p, seen[p], "expired")
    <3>1. <<rows[p].status, "expired">> \in Unasked
      BY <2>1, <2>2 DEF Transition, Selected, Unasked
    <3>2. QED
      BY <2>1, <2>2, <3>1, MoveStep DEF Transition
  <2>3. ASSUME NEW to \in {"active", "rejected", "simFailed"}, ResolveVerdict(p, to)
        PROVE  Step(q)
    <3>1. <<rows[p].status, to>> \in Unasked
      BY <2>3 DEF ResolveVerdict, Unasked
    <3>2. QED
      BY <2>1, <2>3, <3>1, MoveStep DEF ResolveVerdict
  <2>4. CASE StaleOrMissing(p)
    BY <2>1, <2>4, StillStep DEF StaleOrMissing
  <2>5. QED
    BY <1>4, <2>2, <2>3, <2>4 DEF TickJudge
<1>5. ASSUME NEW p \in Proposals, NEW o \in Outcomes, Apply(p, o)
      PROVE  Step(q)
  <2>1. UNCHANGED apiVars
    BY <1>5 DEF Apply
  <2>2. CASE p \in Selected(LegalFrom(o))
    <3>1. <<rows[p].status, Outcome(o)>> \in Unasked
      BY <2>2 DEF Selected, LegalFrom, Outcome, Outcomes, Unasked
    <3>2. QED
      BY <1>5, <2>1, <2>2, <3>1, MoveStep DEF Apply
  <2>3. CASE p \notin Selected(LegalFrom(o))
    BY <1>5, <2>1, <2>3, StillStep DEF Apply
  <2>4. QED
    BY <2>2, <2>3
<1>6. ASSUME NEW p \in Proposals, DebitRevert(p)
      PROVE  Step(q)
  <2>1. <<rows[p].status, "penalized">> \in Unasked
    BY <1>6 DEF DebitRevert, Decoded, Selected, Unasked
  <2>2. QED
    BY <1>6, <2>1, MoveStep DEF DebitRevert
<1>7. ASSUME NEW p \in Proposals, NEW column \in Columns, DamageRow(p, column)
      PROVE  Step(q)
  BY <1>0, <1>7 DEF DamageRow, Row, Step, Stays, apiVars
<1>8. CASE TickRelease
  <2>1. UNCHANGED apiVars
    BY <1>8 DEF TickRelease
  <2>2. CASE UNCHANGED <<rows, evidence>>
    BY <2>1, <2>2, StillStep
  <2>3. ASSUME NEW S \in SUBSET Selected({"executing"}),
               rows' = [p \in Proposals |-> IF p \in S
                                            THEN [rows[p] EXCEPT !.status = "active"]
                                            ELSE rows[p]],
               evidence' = [p \in Proposals |-> IF p \in S THEN "active" ELSE evidence[p]]
        PROVE  Step(q)
    <3>1. CASE q \in S
      <4>1. rows[q].status = "executing"
        BY <3>1 DEF Selected
      <4>2. /\ rows'[q].status = "active" /\ rows'[q].owner = rows[q].owner
            /\ evidence'[q] = "active"
        BY <1>0, <2>3, <3>1 DEF Row
      <4>3. QED
        BY <2>1, <4>1, <4>2 DEF Step, Moves, Unasked, apiVars
    <3>2. CASE q \notin S
      BY <2>1, <2>3, <3>2 DEF Step, Stays, apiVars
    <3>3. QED
      BY <3>1, <3>2
  <2>4. QED
    BY <1>8, <2>2, <2>3 DEF TickRelease
<1>9. CASE Sweep
  <2>1. PICK S \in SUBSET Selected(Dropped) :
          /\ rows' = [p \in Proposals |-> IF p \in S THEN Blank("gone") ELSE rows[p]]
          /\ evidence' = [p \in Proposals |-> IF p \in S THEN None ELSE evidence[p]]
          /\ told' = [p \in Proposals |-> IF p \in S THEN None ELSE told[p]]
          /\ asked' = [p \in Proposals |-> IF p \in S THEN {} ELSE asked[p]]
    BY <1>9 DEF Sweep
  <2>2. CASE q \in S
    BY <2>1, <2>2 DEF Selected, Step, Swept
  <2>3. CASE q \notin S
    BY <2>1, <2>3 DEF Step, Stays
  <2>4. QED
    BY <2>2, <2>3
<1>10. QED
  BY <1>1, <1>2, <1>3, <1>4, <1>5, <1>6, <1>7, <1>8, <1>9, StillStep
     DEF Next, Attribute, DebitCharge, DamageCharge, TickSnapshot, vars, apiVars

----------------------------------------------------------------------------
(* Types. *)

LEMMA MoveTyped ==
  ASSUME Typed, NEW p \in Proposals, NEW to \in Status, Move(p, to), Tell(p, to)
  PROVE  rows' \in [Proposals -> Row] /\ evidence' \in [Proposals -> Status \cup {None}]
<1>1. \A r \in Row : [r EXCEPT !.status = to] \in Row
  BY DEF Row
<1>2. rows \in [Proposals -> Row] /\ evidence \in [Proposals -> Status \cup {None}]
  BY DEF Typed
<1>3. rows' \in [Proposals -> Row]
  BY <1>1, <1>2 DEF Move
<1>4. evidence' \in [Proposals -> Status \cup {None}]
  BY <1>2 DEF Tell
<1>5. QED
  BY <1>3, <1>4

LEMMA TypeStep ==
  ASSUME Typed, [Next]_vars
  PROVE  Typed'
<1> USE ApiAssumption
    DEF Typed, Alone
<1>1. ASSUME NEW p \in Proposals, NEW sig \in Signatures, Post(p, sig)
      PROVE  Typed'
  <2> DEFINE owner == Recovered(sig, ProposalMsg(BodyOf[p]))
  <2>1. owner \in Accounts \cup {Stranger}
    BY DEF Recovered, Signatures
  <2> HIDE DEF owner
  <2>2. rows' \in [Proposals -> Row]
    <3>1. [Blank("submitted") EXCEPT !.owner = owner] \in Row
      BY <2>1 DEF Blank, Row, Status, Live, None
    <3>2. QED
      BY <1>1, <3>1 DEF Post, owner
  <2>3. asked' \in [Proposals -> SUBSET Signatures]
    BY <1>1 DEF Post
  <2>4. evidence' \in [Proposals -> Status \cup {None}]
    BY <1>1 DEF Post, Tell, Status, Live
  <2>5. QED
    BY <1>1, <2>2, <2>3, <2>4 DEF Post, loopVars
<1>2. ASSUME NEW p \in Proposals, NEW sig \in Signatures, Get(p, sig)
      PROVE  Typed'
  <2>1. told' \in [Proposals -> Status \cup {None}]
    BY <1>2 DEF Get, IsTerminal
  <2>2. QED
    BY <1>2, <2>1 DEF Get, loopVars
<1>3. ASSUME NEW p \in Proposals, NEW sig \in Signatures, Cancel(p, sig)
      PROVE  Typed'
  <2>1. "cancelled" \in Status
    BY DEF Status, Dropped
  <2>2. rows' \in [Proposals -> Row] /\ evidence' \in [Proposals -> Status \cup {None}]
    BY <1>3, <2>1, MoveTyped DEF Cancel
  <2>3. told' \in [Proposals -> Status \cup {None}]
    BY <1>3, <2>1 DEF Cancel
  <2>4. asked' \in [Proposals -> SUBSET Signatures]
    BY <1>3 DEF Cancel
  <2>5. QED
    BY <1>3, <2>2, <2>3, <2>4 DEF Cancel, loopVars
<1>4. ASSUME NEW p \in Proposals, TickJudge(p)
      PROVE  Typed'
  <2>1. \/ UNCHANGED <<rows, evidence>>
        \/ \E to \in Status : Move(p, to) /\ Tell(p, to)
    BY <1>4 DEF TickJudge, Transition, ResolveVerdict, StaleOrMissing,
                Status, Live, Dropped
  <2>2. rows' \in [Proposals -> Row] /\ evidence' \in [Proposals -> Status \cup {None}]
    BY <2>1, MoveTyped
  <2>3. seen' \in [Proposals -> Live \cup {None}]
    BY <1>4 DEF TickJudge
  <2>4. QED
    BY <1>4, <2>2, <2>3 DEF TickJudge, apiVars
<1>5. ASSUME NEW p \in Proposals, NEW o \in Outcomes, Apply(p, o)
      PROVE  Typed'
  <2>1. Outcome(o) \in Status
    BY DEF Outcome, Outcomes, Status, Live
  <2>2. rows' \in [Proposals -> Row] /\ evidence' \in [Proposals -> Status \cup {None}]
    BY <1>5, <2>1, MoveTyped DEF Apply
  <2>3. QED
    BY <1>5, <2>2 DEF Apply, apiVars
<1>6. ASSUME NEW p \in Proposals, Attribute(p) \/ DebitRevert(p) \/ DebitCharge(p)
      PROVE  Typed'
  <2>1. CASE Attribute(p)
    BY <2>1 DEF Attribute, apiVars
  <2>2. CASE DebitRevert(p)
    <3>1. rows' \in [Proposals -> Row] /\ evidence' \in [Proposals -> Status \cup {None}]
      BY <2>2, MoveTyped DEF DebitRevert, Status
    <3>2. QED
      BY <2>2, <3>1 DEF DebitRevert, loopVars, apiVars
  <2>3. CASE DebitCharge(p)
    BY <2>3 DEF DebitCharge, loopVars, apiVars
  <2>4. QED
    BY <1>6, <2>1, <2>2, <2>3
<1>7. ASSUME NEW p \in Proposals, NEW column \in Columns, DamageRow(p, column)
      PROVE  Typed'
  <2>1. \A r \in Row : [r EXCEPT !.damage = column] \in Row
    BY DEF Row
  <2>2. rows' \in [Proposals -> Row]
    BY <1>7, <2>1 DEF DamageRow
  <2>3. damages' \in 0 .. MaxDamage
    BY <1>7 DEF DamageRow
  <2>4. UNCHANGED <<due, released, seen, pending, blurred, evidence, told, asked>>
    BY <1>7, Zenon DEF DamageRow, loopVars, apiVars
  <2>5. QED
    BY <2>2, <2>3, <2>4
<1>8. ASSUME NEW p \in Proposals, DamageCharge(p)
      PROVE  Typed'
  <2>1. damages' \in 0 .. MaxDamage
    BY <1>8 DEF DamageCharge
  <2>2. blurred' \subseteq pending /\ pending' = pending
    BY <1>8 DEF DamageCharge
  <2>3. UNCHANGED <<rows, due, released, seen, evidence, told, asked>>
    BY <1>8, Zenon DEF DamageCharge, loopVars, apiVars
  <2>4. QED
    BY <2>1, <2>2, <2>3
<1>9. CASE TickRelease
  <2>1. \A r \in Row : [r EXCEPT !.status = "active"] \in Row
    BY DEF Row, Status, Live
  <2>2. rows' \in [Proposals -> Row]
    BY <1>9, <2>1 DEF TickRelease
  <2>3. evidence' \in [Proposals -> Status \cup {None}]
    BY <1>9 DEF TickRelease, Status, Live
  <2>4. QED
    BY <1>9, <2>2, <2>3 DEF TickRelease, apiVars
<1>10. CASE TickSnapshot
  <2>1. seen' \in [Proposals -> Live \cup {None}]
    BY <1>10 DEF TickSnapshot, Decoded, Selected
  <2>2. QED
    BY <1>10, <2>1 DEF TickSnapshot, apiVars
<1>11. CASE Sweep
  <2>1. Blank("gone") \in Row
    BY DEF Blank, Row, NoRow
  <2>2. rows' \in [Proposals -> Row]
    BY <1>11, <2>1 DEF Sweep
  <2>3. /\ evidence' \in [Proposals -> Status \cup {None}]
        /\ told' \in [Proposals -> Status \cup {None}]
        /\ asked' \in [Proposals -> SUBSET Signatures]
    BY <1>11 DEF Sweep
  <2>4. QED
    BY <1>11, <2>2, <2>3 DEF Sweep, loopVars
<1>12. CASE UNCHANGED vars
  BY <1>12 DEF vars, loopVars, apiVars
<1>13. QED
  BY <1>1, <1>2, <1>3, <1>4, <1>5, <1>6, <1>7, <1>8, <1>9, <1>10, <1>11, <1>12 DEF Next

LEMMA TypedAlways == Spec => []Typed
<1>1. Init => Typed
  <2>1. Blank("unborn") \in Row
    BY DEF Blank, Row, NoRow
  <2>2. Init => rows \in [Proposals -> Row]
    BY <2>1 DEF Init
  <2>3. Init => damages \in 0 .. MaxDamage
    BY ApiAssumption DEF Init
  <2>4. QED
    BY <2>2, <2>3 DEF Init, Typed, Alone
<1>2. QED
  BY <1>1, TypeStep, PTL DEF Spec

\* Rows, queues, evidence and what the accounts hold keep their types, over
\* damaged rows and charges.
THEOREM ApiTyped == Spec => []ApiTypeOK
<1>1. Alone => due \subseteq Proposals /\ Cardinality(due) <= 1
  <2>1. CASE due = {}
    BY <2>1, FS_EmptySet
  <2>2. ASSUME NEW p \in Proposals, due = {p}
        PROVE  due \subseteq Proposals /\ Cardinality(due) <= 1
    <3>1. Cardinality({p}) = 1
      BY FS_Singleton
    <3>2. QED
      BY <2>2, <3>1
  <2>3. QED
    BY <2>1, <2>2 DEF Alone
<1>2. Typed => ApiTypeOK
  BY <1>1 DEF Typed, ApiTypeOK
<1>3. QED
  BY <1>2, TypedAlways, PTL

----------------------------------------------------------------------------
(* Evidence. *)

\* No change of a row is committed without its evidence, whichever columns of
\* it can still be read when a verdict, an outcome, a debit or a release writes.
THEOREM ChangesTold == Spec => []EveryChangeTold
<1>1. Init => EveryChangeTold
  BY DEF Init, EveryChangeTold, Exists, Blank, Status, Live, Dropped
<1>2. Typed /\ EveryChangeTold /\ [Next]_vars => EveryChangeTold'
  <2> SUFFICES ASSUME Typed, EveryChangeTold, [Next]_vars,
                      NEW q \in Proposals, rows'[q].status \in Status
               PROVE  evidence'[q] = rows'[q].status
    BY DEF EveryChangeTold, Exists
  <2>1. Step(q)
    BY EveryStep
  <2>2. ~ Swept(q)
    BY DEF Swept, Blank, Status, Live, Dropped
  <2>3. QED
    BY <2>1, <2>2
       DEF Step, Stays, Moves, Posted, Cancelled, EveryChangeTold, Exists
<1>3. QED
  BY <1>1, <1>2, TypedAlways, PTL DEF Spec

----------------------------------------------------------------------------
(* Final answers. *)

\* A status given as final is one, and the row still has it, or was charged for.
Kept(p) == told[p] # None =>
  /\ IsTerminal(told[p])
  /\ \/ rows[p].status = told[p]
     \/ told[p] = "settleFailed" /\ rows[p].status = "penalized"

\* A client that was told a proposal ended may rely on it: whatever reaches the
\* store later, the proposal does not trade, nor end in another way.
THEOREM FinalStays == Spec => []AnswersFinal
<1> DEFINE AllKept == \A p \in Proposals : Kept(p)
<1>1. Init => AllKept
  BY DEF Init, Kept
<1>2. Typed /\ AllKept /\ [Next]_vars => AllKept'
  <2> SUFFICES ASSUME Typed, AllKept, [Next]_vars, NEW q \in Proposals
               PROVE  Kept(q)'
    OBVIOUS
  <2>1. Step(q) /\ Kept(q)
    BY EveryStep
  <2> USE DEF Kept, IsTerminal, Status, Live, Dropped
  <2>2. CASE Stays(q)      BY <2>1, <2>2 DEF Stays
  <2>3. CASE Moves(q)      BY <2>1, <2>3 DEF Moves, Unasked
  <2>4. CASE Posted(q)     BY <2>1, <2>4 DEF Posted
  <2>5. CASE Cancelled(q)  BY <2>5 DEF Cancelled
  <2>6. CASE Swept(q)      BY <2>6 DEF Swept
  <2>7. QED
    BY <2>1, <2>2, <2>3, <2>4, <2>5, <2>6 DEF Step
<1>3. AllKept => AnswersFinal
  BY DEF Kept, AnswersFinal
<1>4. QED
  BY <1>1, <1>2, <1>3, TypedAlways, PTL DEF Spec

----------------------------------------------------------------------------
(* Signatures. *)

\* A digest is of one message: a body is signed as a whole, and the three kinds
\* of message are typed apart.
LEMMA DigestOfBody ==
  ASSUME NEW m \in Messages, NEW b \in Bodies, Digest(m) = Digest(ProposalMsg(b))
  PROVE  m = ProposalMsg(b)
<1>1. Digest(ProposalMsg(b)) = <<"ProposalData", OrderOf[b], RouteOf[b]>>
  BY DEF Digest, ProposalMsg
<1>2. CASE m.type = "ProposalData"
  <2>1. PICK c \in Bodies : m = ProposalMsg(c)
    BY <1>2 DEF Messages, ProposalMsg, CancelMsg, ReadMsg
  <2>2. Digest(m) = <<"ProposalData", OrderOf[c], RouteOf[c]>>
    BY <2>1 DEF Digest, ProposalMsg
  <2>3. OrderOf[c] = OrderOf[b] /\ RouteOf[c] = RouteOf[b]
    BY <1>1, <2>2
  <2>4. QED
    BY <2>1, <2>3, ApiAssumption
<1>3. CASE m.type # "ProposalData"
  <2>1. Digest(m) = <<m.type, m.about>>
    BY <1>3 DEF Digest
  <2>2. QED
    BY <1>1, <1>3, <2>1
<1>4. QED
  BY <1>2, <1>3

LEMMA DigestOfCancel ==
  ASSUME NEW m \in Messages, NEW p \in Proposals, Digest(m) = Digest(CancelMsg(p))
  PROVE  m = CancelMsg(p)
<1>1. Digest(CancelMsg(p)) = <<"CancelProposal", p>>
  BY DEF Digest, CancelMsg
<1>2. CASE m.type = "ProposalData"
  BY <1>1, <1>2 DEF Digest
<1>3. CASE m.type # "ProposalData"
  <2>1. Digest(m) = <<m.type, m.about>>
    BY <1>3 DEF Digest
  <2>2. m.type = "CancelProposal" /\ m.about = p
    BY <1>1, <2>1
  <2>3. QED
    BY <2>2 DEF Messages, ProposalMsg, CancelMsg, ReadMsg
<1>4. QED
  BY <1>2, <1>3

\* A proposal in an account's name was signed by it, and if it was cancelled,
\* so was its cancellation.
Signed(p) ==
  /\ Exists(p) /\ rows[p].owner \in Accounts =>
       [by |-> rows[p].owner, meant |-> ProposalMsg(BodyOf[p])] \in asked[p]
  /\ rows[p].status = "cancelled" =>
       [by |-> rows[p].owner, meant |-> CancelMsg(p)] \in asked[p]

LEMMA SignedStep ==
  ASSUME Typed, NEW q \in Proposals, Step(q), Signed(q)
  PROVE  Signed(q)'
<1> USE DEF Signed, Exists, Status, Live, Dropped
<1>1. CASE Stays(q)   BY <1>1 DEF Stays
<1>2. CASE Moves(q)   BY <1>2 DEF Moves, Unasked
<1>3. CASE Posted(q)
  <2>1. PICK sig \in Signatures :
          rows'[q].owner \in Accounts =>
            /\ rows'[q].owner = sig.by
            /\ Digest(sig.meant) = Digest(ProposalMsg(BodyOf[q]))
            /\ asked'[q] = {sig}
    BY <1>3 DEF Posted
  <2>2. rows'[q].owner \in Accounts =>
          sig = [by |-> rows'[q].owner, meant |-> ProposalMsg(BodyOf[q])]
    BY <2>1, ApiAssumption, DigestOfBody DEF Signatures
  <2>3. QED
    BY <1>3, <2>1, <2>2 DEF Posted
<1>4. CASE Cancelled(q)
  <2>1. PICK sig \in Signatures :
          /\ rows[q].owner = sig.by
          /\ Digest(sig.meant) = Digest(CancelMsg(q))
          /\ asked'[q] = asked[q] \cup {sig}
    BY <1>4 DEF Cancelled
  <2>2. sig = [by |-> rows[q].owner, meant |-> CancelMsg(q)]
    BY <2>1, DigestOfCancel DEF Signatures
  <2>3. QED
    BY <1>4, <2>1, <2>2 DEF Cancelled
<1>5. CASE Swept(q)   BY <1>5 DEF Swept, Blank
<1>6. QED
  BY <1>1, <1>2, <1>3, <1>4, <1>5 DEF Step

\* An endpoint tells of a proposal only to its owner.
LEMMA ShownToOwner ==
  ASSUME NEW a \in Accounts, NEW p \in Shown(a)
  PROVE  p \in Proposals /\ Exists(p) /\ rows[p].owner = a
<1>1. CASE p \in Proposals /\ GetAnswer(p, a) = 200
  BY <1>1 DEF GetAnswer, Lookup, Kind, Code
<1>2. CASE p \in Proposals /\ CancelAnswer(p, a) \in {200, 409}
  BY <1>2 DEF CancelAnswer, Cancellation, Kind, Code
<1>3. CASE p \in ListBySubSolver(a) \/ \E b \in Bodies : p \in ListByOrder(OrderOf[b], a)
  BY <1>3 DEF ListBySubSolver, ListByOrder, Decoded, Selected, Exists, Status, Live
<1>4. QED
  BY <1>1, <1>2, <1>3 DEF Shown

\* Whichever signature is sent to whichever endpoint, in whatever order and over
\* whatever damage: an account is told only of proposals whose body it signed,
\* and only what its owner signed to cancel is cancelled.
THEOREM SignedBeforeShown == Spec => []ShownWhatWasSigned
<1> DEFINE AllSigned == \A p \in Proposals : Signed(p)
<1>1. Init => AllSigned
  BY DEF Init, Signed, Exists, Blank, Status, Live, Dropped
<1>2. Typed /\ AllSigned /\ [Next]_vars => AllSigned'
  BY EveryStep, SignedStep
<1>3. AllSigned => ShownWhatWasSigned
  BY ShownToOwner DEF Signed, ShownWhatWasSigned
<1>4. QED
  BY <1>1, <1>2, <1>3, TypedAlways, PTL DEF Spec
=============================================================================
