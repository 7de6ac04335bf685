------------------------- MODULE ProposalLifecycle -------------------------
(***************************************************************************)
(* What BYOS promises about one proposal, whatever races it is exposed to: *)
(* a proposal is in one phase, phases change only along the edges below,   *)
(* a settlement that reverted stays owed until it is charged, a charge and *)
(* a settlement are for ever, a proposal in flight cannot be dropped, and  *)
(* an id that was dropped never comes back.  The phases group the statuses *)
(* of the API's status machine (openapi.yml, domain/proposal.rs).          *)
(***************************************************************************)
CONSTANT Proposals      \* proposal ids

VARIABLE phase          \* phase[p]: where proposal p is in its life

Phases == {"unborn", "live", "executing", "settled", "owed", "charged",
           "dropped", "gone"}

TypeOK == phase \in [Proposals -> Phases]

Init == phase = [p \in Proposals |-> "unborn"]

----------------------------------------------------------------------------
(* One proposal moves.  "live" to "settled" or "owed" without "executing"  *)
(* is the driver reporting a transaction whose start BYOS never recorded.  *)

SingleMoves ==
  { <<"unborn", "live">>,
    <<"live", "executing">>, <<"live", "settled">>, <<"live", "owed">>,
    <<"live", "dropped">>,
    <<"executing", "live">>, <<"executing", "settled">>,
    <<"executing", "owed">>,
    <<"owed", "charged">> }

Step(p) == \E to \in Phases : /\ <<phase[p], to>> \in SingleMoves
                              /\ phase' = [phase EXCEPT ![p] = to]

\* Every proposal of S moves at once: the two bulk statements of the store.
Sweep(S, from, to) ==
  /\ \A p \in S : phase[p] = from
  /\ phase' = [p \in Proposals |-> IF p \in S THEN to ELSE phase[p]]

Release(S) == Sweep(S, "executing", "live")
Forget(S)  == Sweep(S, "dropped", "gone")

Next == \/ \E p \in Proposals : Step(p)
        \/ \E S \in SUBSET Proposals : Release(S) \/ Forget(S)

Spec == Init /\ [][Next]_phase
=============================================================================
