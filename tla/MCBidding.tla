----------------------------- MODULE MCBidding -----------------------------
(* A small instance of Bidding: one order of each kind, two proposals, words  *)
(* small enough to overflow.                                                  *)
EXTENDS Bidding

CONSTANTS p1, p2

Kind(isSell, partial) == [sell |-> 5, buy |-> 4, isSell |-> isSell, partial |-> partial,
                          balances |-> {"erc20"}]

\* The last two: a limit too large to multiply, and a balance kept elsewhere.
MCOrderChoices ==
  {Kind(isSell, partial) : isSell, partial \in BOOLEAN}
    \cup {[Kind(FALSE, TRUE) EXCEPT !.sell = 100, !.buy = 3],
          [Kind(TRUE, FALSE) EXCEPT !.balances = {"erc20", "internal"}]}
MCPools        == {[sell |-> 5, buy |-> 16], [sell |-> 7, buy |-> 13]}
=============================================================================
