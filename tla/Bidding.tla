------------------------------ MODULE Bidding ------------------------------
(***************************************************************************)
(* The amounts of one order's proposals, from a sub-solver's quote to what *)
(* the user is paid: routing and build_proposal (subsolver), the envelope  *)
(* and the profitability gate of the validator (domain/order.rs,           *)
(* domain/scoring.rs), /solve's choice and its gas cut                     *)
(* (infra/api/solve.rs, domain/gas_cut.rs), and the settlement they are    *)
(* encoded into (byos-common).  The settlement contract and the driver are *)
(* modelled from how this code uses them.                                  *)
(*                                                                         *)
(* Amounts are words: a checked operation that leaves 0 .. MaxWord gives   *)
(* Nothing.  Deadlines, the database and the settlement outcomes are       *)
(* ByosService's.  Op_Mistake is Op with a mistake, as in ProposalStore.   *)
(***************************************************************************)
EXTENDS Integers, FiniteSets

CONSTANTS
  Proposals,
  OrderChoices,   \* the signed orders a run may start with
  Pools,          \* reserves the sub-solver's pool may hold
  Amounts,        \* amounts a proposal may be posted with
  Gases,          \* what eth_estimateGas may answer
  GasPrices, TokenPrices,
  MaxWord,        \* the largest U256
  MaxGas,         \* the largest u64
  GasBuffer,      \* GAS_BUFFER
  Ether,          \* atoms a price is quoted for
  MinScore,       \* --min-proposal-score
  FeeNumerator, FeeDenominator

ASSUME BiddingAssumption ==
  /\ {MaxWord, MaxGas, GasBuffer, MinScore} \subseteq Nat
  /\ {Ether, FeeNumerator, FeeDenominator} \subseteq 1 .. MaxWord
  /\ FeeNumerator <= FeeDenominator
  /\ Amounts \cup TokenPrices \cup GasPrices \subseteq 0 .. MaxWord
  /\ Pools \subseteq [sell : 0 .. MaxWord, buy : 0 .. MaxWord]
  /\ \A gas \in Gases : gas \in Nat /\ gas + GasBuffer <= MaxGas
  /\ OrderChoices \subseteq [sell : 1 .. MaxWord, buy : 1 .. MaxWord,
                             isSell : BOOLEAN, partial : BOOLEAN,
                             balances : SUBSET {"erc20", "external", "internal"}]

VARIABLES
  order,    \* the order its owner signed, as the orderbook serves it
  pool,     \* reserves of the sub-solver's pool
  row,      \* row[p]: amounts, status and simulated gas of a proposal
  filled,   \* how much of the order's target amount is executed
  auction,  \* the order as the running auction offers it, and its prices
  bid       \* the answer of /solve to it

vars == <<order, pool, row, filled, auction, bid>>

----------------------------------------------------------------------------
(* Words. *)

Nothing == -1

Checked(n) == IF n \in 0 .. MaxWord THEN n ELSE Nothing

Add(a, b) == IF Nothing \in {a, b} THEN Nothing ELSE Checked(a + b)
Sub(a, b) == IF Nothing \in {a, b} THEN Nothing ELSE Checked(a - b)
Mul(a, b) == IF Nothing \in {a, b} THEN Nothing ELSE Checked(a * b)
Div(a, b) == IF Nothing \in {a, b} \/ b = 0 THEN Nothing ELSE a \div b

DivCeil(a, b) == IF Nothing \in {a, b} \/ b = 0 THEN Nothing ELSE (a + b - 1) \div b

Saturate(n, max) == IF n > max THEN max ELSE n

----------------------------------------------------------------------------
(* The sub-solver's constant-product quote. *)

AmountOut(in, reserveIn, reserveOut) ==
  LET net == Mul(in, FeeNumerator)
  IN IF 0 \in {reserveIn, reserveOut} THEN Nothing
     ELSE Div(Mul(net, reserveOut), Add(Mul(reserveIn, FeeDenominator), net))

\* The quotient is not rounded up.
AmountIn_Floor(out, reserveIn, reserveOut) ==
  IF reserveIn = 0 \/ out >= reserveOut THEN Nothing
  ELSE Div(Mul(Mul(reserveIn, out), FeeDenominator), Mul(reserveOut - out, FeeNumerator))

AmountIn(out, reserveIn, reserveOut) ==
  IF reserveIn = 0 \/ out >= reserveOut THEN Nothing
  ELSE Add(Div(Mul(Mul(reserveIn, out), FeeDenominator), Mul(reserveOut - out, FeeNumerator)), 1)

----------------------------------------------------------------------------
(* What the validator and /solve ask of an order o and amounts p. *)

\* The order as it is kept: amounts and kind untouched, the locations of its two
\* balances folded into one fact.
OrderRecord(o) == [sell |-> o.sell, buy |-> o.buy, isSell |-> o.isSell,
                   partial |-> o.partial, erc20 |-> o.balances = {"erc20"}]

\* The orders the sub-solver routes: its own copy of the envelope's first rule.
Eligible(o) == o.balances = {"erc20"}

\* A fill-or-kill proposal may quote any amounts.
InEnvelope_PartialOnly(o, p) ==
  o.erc20 /\ o.partial =>
    /\ IF o.isSell THEN p.sell \in 1 .. o.sell
                   ELSE p.buy \in 1 .. o.buy /\ p.sell # 0
    /\ Mul(p.buy, o.sell) # Nothing /\ Mul(p.sell, o.buy) # Nothing
    /\ p.buy * o.sell >= p.sell * o.buy

\* Plain balances only.  A fill-or-kill proposal quotes the order's target; a
\* partial fill is some of it, no worse than the limit price.
InEnvelope(o, p) ==
  /\ o.erc20
  /\ IF ~ o.partial
     THEN IF o.isSell THEN p.sell = o.sell ELSE p.buy = o.buy
     ELSE /\ IF o.isSell THEN p.sell \in 1 .. o.sell
                         ELSE p.buy \in 1 .. o.buy /\ p.sell # 0
          /\ Mul(p.buy, o.sell) # Nothing /\ Mul(p.sell, o.buy) # Nothing
          /\ p.buy * o.sell >= p.sell * o.buy

\* The order's limits scaled to the fill of a partially fillable order: the
\* least bought is rounded up, the most sold down.
SellLimit(o, p) ==
  IF ~ o.partial THEN o.sell
  ELSE IF o.isSell THEN p.sell ELSE Div(Mul(o.sell, p.buy), o.buy)

BuyLimit(o, p) ==
  IF ~ o.partial THEN o.buy
  ELSE IF o.isSell THEN DivCeil(Mul(o.buy, p.sell), o.sell) ELSE p.buy

\* The price of the token the user gains in.
SurplusPrice(isSell, sellPrice, buyPrice) == IF isSell THEN buyPrice ELSE sellPrice

EffectiveGas(gas) == Saturate(gas + GasBuffer, MaxGas)

\* The product wraps around.
GasCost_Wraps(gas, price) == (EffectiveGas(gas) * price) % (MaxWord + 1)

GasCost(gas, price) == Saturate(EffectiveGas(gas) * price, MaxWord)

Surplus(o, p) == IF o.isSell THEN Sub(p.buy, BuyLimit(o, p)) ELSE Sub(SellLimit(o, p), p.sell)

\* Surplus minus gas, in wei; surplusPrice prices the token of the surplus.
Score(o, p, gasCost, surplusPrice) ==
  Sub(Div(Mul(Surplus(o, p), surplusPrice), Ether), gasCost)

\* The gas bill in sell tokens.
Cut(gasCost, sellPrice) == DivCeil(Mul(gasCost, Ether), sellPrice)

\* The user's limit is not checked against the cut.
Executed_LimitIgnored(o, p, cut) ==
  IF o.isSell THEN Sub(SellLimit(o, p), cut) ELSE BuyLimit(o, p)

\* The amount a bid declares executed, if the user's limit survives the cut.
Executed(o, p, cut) ==
  IF o.isSell
  THEN LET executed == Sub(SellLimit(o, p), cut)
           received == Div(Mul(p.buy, executed), p.sell)
       IN IF received # Nothing /\ received >= BuyLimit(o, p) THEN executed ELSE Nothing
  ELSE IF Add(p.sell, cut) \in 0 .. SellLimit(o, p) THEN BuyLimit(o, p) ELSE Nothing

----------------------------------------------------------------------------
(* The settlement contract and the driver, external. *)

\* A trade at the clearing prices of proposal p: amounts sold and bought when
\* executed is the trade's amount on the order's side.
Clears(o, p, executed) ==
  IF o.isSell THEN [sold |-> executed, bought |-> DivCeil(executed * p.buy, p.sell)]
              ELSE [sold |-> Div(executed * p.sell, p.buy), bought |-> executed]

\* What the route of a proposal is given and has to return.
Route(p) == [given |-> p.sell, returned |-> p.buy]

\* The amount settled for p in a one-trade settle().  The contract fills a
\* fill-or-kill order whole, whatever amount the trade carries.
EncodeSettle(o, p) ==
  LET traded == IF o.partial THEN p ELSE o
  IN IF o.isSell THEN traded.sell ELSE traded.buy

\* The settle() that is simulated, its submitter granted every permission: the
\* trade alone decides.  It always names plain balances, so the signature of an
\* order with others does not recover its owner and nothing is traded.
Simulation(o, p) == IF o.erc20 THEN Clears(o, p, EncodeSettle(o, p))
                               ELSE [sold |-> 0, bought |-> 0]

\* What the driver makes of a bid: the cut is sold on top of the trade.
Settlement(o, b) == LET trade == Clears(o, b, b.executed)
                    IN [trade EXCEPT !.sold = @ + b.cut]

----------------------------------------------------------------------------
Target(o) == IF o.isSell THEN o.sell ELSE o.buy

Row == [at : {"unborn", "submitted", "active", "rejected", "settled"},
        quoted : BOOLEAN, sell : 0 .. MaxWord, buy : 0 .. MaxWord, gas : 0 .. MaxGas]

Unborn == [at |-> "unborn", quoted |-> FALSE, sell |-> 0, buy |-> 0, gas |-> 0]

Closed == [open |-> FALSE, sell |-> 1, buy |-> 1, isSell |-> TRUE, partial |-> FALSE,
           gasPrice |-> 0, sellPrice |-> 0, surplusPrice |-> 0]

NoBid == [of |-> {}, executed |-> 0, cut |-> 0, sell |-> 0, buy |-> 0, gas |-> 0]

Init ==
  /\ order \in OrderChoices
  /\ pool \in Pools
  /\ row = [p \in Proposals |-> Unborn]
  /\ filled = 0
  /\ auction = Closed
  /\ bid = NoBid

\* The sub-solver routes the order through its pool, and posts what meets the
\* order's limit.
Quote(p) ==
  LET out  == AmountOut(order.sell, pool.sell, pool.buy)
      cost == AmountIn(order.buy, pool.sell, pool.buy)
      sell == IF order.isSell THEN order.sell ELSE cost
      buy  == IF order.isSell THEN out ELSE order.buy
  IN /\ row[p].at = "unborn"
     /\ Nothing \notin {sell, buy}
     /\ Eligible(order)
     /\ buy >= order.buy /\ sell <= order.sell
     /\ row' = [row EXCEPT ![p] = [Unborn EXCEPT !.at = "submitted", !.quoted = TRUE,
                                                 !.sell = sell, !.buy = buy]]
     /\ UNCHANGED <<order, pool, filled, auction, bid>>

\* Other sub-solvers post whatever amounts they like.
Post(p, sell, buy) ==
  /\ row[p].at = "unborn"
  /\ row' = [row EXCEPT ![p] = [Unborn EXCEPT !.at = "submitted", !.sell = sell, !.buy = buy]]
  /\ UNCHANGED <<order, pool, filled, auction, bid>>

\* The first simulation: outside the envelope or not profitable is rejected.
\* The orderbook's price and the gas price are those of the moment.
Validate(p, gas, gasPrice, surplusPrice) ==
  LET score == Score(order, row[p], GasCost(gas, gasPrice), surplusPrice)
  IN /\ row[p].at = "submitted"
     /\ row' = [row EXCEPT
          ![p] = IF InEnvelope(OrderRecord(order), row[p]) /\ score > MinScore
                 THEN [@ EXCEPT !.at = "active", !.gas = gas]
                 ELSE [@ EXCEPT !.at = "rejected"]]
     /\ UNCHANGED <<order, pool, filled, auction, bid>>

\* Every later tick simulates again, and keeps the gas.
Revalidate(p, gas) ==
  /\ row[p].at = "active"
  /\ row' = [row EXCEPT ![p].gas = gas]
  /\ UNCHANGED <<order, pool, filled, auction, bid>>

----------------------------------------------------------------------------
(* An auction. *)

\* The fill is not compared with what remains of the order.
Fits_Always(a, p) == TRUE

Fits(a, p) == a.partial => IF a.isSell THEN p.sell <= a.sell ELSE p.buy <= a.buy

BidFor(a, p) ==
  LET cut == Cut(GasCost(row[p].gas, a.gasPrice), a.sellPrice)
  IN [of |-> {p}, cut |-> cut, executed |-> IF cut = Nothing THEN Nothing
                                            ELSE Executed(a, row[p], cut),
      sell |-> row[p].sell, buy |-> row[p].buy, gas |-> EffectiveGas(row[p].gas)]

ScoreIn(a, p) == Score(a, row[p], GasCost(row[p].gas, a.gasPrice), a.surplusPrice)

\* Those that score; the cut is sized for the winner alone.
Candidates_CutLater(a) ==
  {p \in Proposals : row[p].at = "active" /\ Fits(a, row[p]) /\ ScoreIn(a, p) > 0}

\* A proposal the cut would push past the user's limit leaves the order to a
\* runner-up.
Candidates(a) ==
  {p \in Proposals : row[p].at = "active" /\ Fits(a, row[p]) /\ ScoreIn(a, p) > 0
                     /\ BidFor(a, p).executed # Nothing}

\* The bids /solve may answer with: equal scores go by the row order.
Bids(a) ==
  {BidFor(a, p) : p \in {q \in Candidates(a) :
                           \A r \in Candidates(a) : ScoreIn(a, q) >= ScoreIn(a, r)}}

\* An auction offers what is left of the order; the driver rounds the other
\* amount either way.  A bid that cannot be sized is none.
Solve(gasPrice, sellPrice, buyPrice) ==
  \E up \in {0, 1} :
    LET left   == Target(order) - filled
        Part(n) == (n * left + up * (Target(order) - 1)) \div Target(order)
        a == [open |-> TRUE, isSell |-> order.isSell, partial |-> order.partial,
              sell |-> IF order.isSell THEN left ELSE Part(order.sell),
              buy  |-> IF order.isSell THEN Part(order.buy) ELSE left,
              gasPrice |-> gasPrice, sellPrice |-> sellPrice,
              surplusPrice |-> SurplusPrice(order.isSell, sellPrice, buyPrice)]
    IN /\ ~ auction.open
       /\ left > 0
       /\ auction' = a
       /\ bid' \in {b \in Bids(a) : b.executed # Nothing}
                   \cup {b \in {NoBid} : {c \in Bids(a) : c.executed # Nothing} = {}}
       /\ UNCHANGED <<order, pool, row, filled>>

\* The bid wins and settles.
Settle ==
  LET trade == Settlement(auction, bid)
  IN /\ bid # NoBid
     /\ filled' = filled + (IF order.isSell THEN trade.sold ELSE trade.bought)
     /\ row' = [p \in Proposals |-> IF p \in bid.of THEN [row[p] EXCEPT !.at = "settled"] ELSE row[p]]
     /\ auction' = Closed
     /\ bid' = NoBid
     /\ UNCHANGED <<order, pool>>

\* Another solver wins, with any fill the order allows, or nobody does.
Lose(fill) ==
  /\ auction.open
  /\ fill = 0 \/ (IF order.partial THEN filled + fill <= Target(order)
                                   ELSE filled + fill = Target(order))
  /\ filled' = filled + fill
  /\ auction' = Closed
  /\ bid' = NoBid
  /\ UNCHANGED <<order, pool, row>>

Next ==
  \/ \E p \in Proposals :
       \/ Quote(p)
       \/ \E sell, buy \in Amounts : Post(p, sell, buy)
       \/ \E gas \in Gases, gasPrice \in GasPrices, price \in TokenPrices :
            Validate(p, gas, gasPrice, price)
       \/ \E gas \in Gases : Revalidate(p, gas)
  \/ \E gasPrice \in GasPrices, sellPrice, buyPrice \in TokenPrices :
       Solve(gasPrice, sellPrice, buyPrice)
  \/ Settle
  \/ \E fill \in 0 .. Target(order) : Lose(fill)

Spec == Init /\ [][Next]_vars

----------------------------------------------------------------------------
(* Properties. *)

\* Rows, auctions and bids hold words.
BiddingTypeOK ==
  /\ order \in OrderChoices
  /\ pool \in Pools
  /\ row \in [Proposals -> Row]
  /\ filled \in 0 .. Target(order)
  /\ auction \in [open : BOOLEAN, sell : 0 .. MaxWord, buy : 0 .. MaxWord,
                  isSell : BOOLEAN, partial : BOOLEAN, gasPrice : GasPrices \cup {0},
                  sellPrice : TokenPrices \cup {0}, surplusPrice : TokenPrices \cup {0}]
  /\ bid \in [of : SUBSET Proposals, executed : 0 .. MaxWord, cut : 0 .. MaxWord,
              sell : 0 .. MaxWord, buy : 0 .. MaxWord, gas : 0 .. MaxGas]

\* The user's limit survives the cut: what a bid takes and gives, after the
\* chain's own rounding, is within the price the auction offers, within what is
\* left of the order, and all of it when the order is fill-or-kill
\* (gas_cut.rs, 34-35 and 52-73).
LimitKept ==
  bid # NoBid =>
    LET trade == Settlement(auction, bid)
    IN /\ trade.bought * auction.sell >= auction.buy * trade.sold
       /\ trade.sold <= auction.sell
       /\ IF order.partial THEN filled + (IF order.isSell THEN trade.sold ELSE trade.bought)
                                  <= Target(order)
          ELSE IF order.isSell THEN trade.sold = order.sell ELSE trade.bought = order.buy

\* What settles is what was simulated: the simulated trade sold and bought the
\* amounts the route is signed for, and a bid's trade brings in all that is
\* pushed to the route and pays out no more than the route returns, whatever
\* the envelope let through (settlement.rs, 80-87; solve.rs, 215-220).
SimulatedIsSettled ==
  /\ \A p \in Proposals : row[p].at = "active" =>
       Simulation(OrderRecord(order), row[p])
         = [sold |-> Route(row[p]).given, bought |-> Route(row[p]).returned]
  /\ bid # NoBid =>
       LET trade == Settlement(auction, bid)
       IN trade.sold >= Route(bid).given /\ trade.bought <= Route(bid).returned

\* A bid pays for its gas, in whole numbers no word bounds: the cut is worth
\* the gas bill, and the surplus is worth more than it (gas_cut.rs, 41-46;
\* scoring.rs, 20-26).
BidPaysItsGas ==
  bid # NoBid =>
    LET bill  == bid.gas * auction.gasPrice
        spare == IF order.isSell THEN bid.buy - BuyLimit(auction, bid)
                                 ELSE SellLimit(auction, bid) - bid.sell
    IN /\ bid.cut * auction.sellPrice >= bill * Ether
       /\ spare * auction.surplusPrice > bill * Ether

\* A quote stands up: swapped against the reserves it was routed through its
\* input yields its output, and the service's envelope takes it, unless the
\* limit is too large for the envelope to compute: the sub-solver's copy of the
\* rules does not drift from the service's (routing.rs, 13-37; order.rs, 29-94;
\* subsolver orderbook.rs, 5-15).
QuoteStands ==
  \A p \in Proposals : row[p].quoted =>
    LET q == row[p]
        net == q.sell * FeeNumerator
    IN /\ net * pool.buy >= q.buy * (pool.sell * FeeDenominator + net)
       /\ q.buy * order.sell <= MaxWord => InEnvelope(OrderRecord(order), q)

\* What the user would keep of proposal p in auction a, in numbers no word
\* bounds: the limit of its fill, the gas bill and the cut.
InReach(a, p) ==
  LET q      == row[p]
      bill   == EffectiveGas(q.gas) * a.gasPrice
      cut    == (bill * Ether + a.sellPrice - 1) \div a.sellPrice
      sells  == IF a.partial THEN q.sell ELSE a.sell
      buys   == IF a.partial THEN q.buy ELSE a.buy
      least  == (a.buy * sells + a.sell - 1) \div a.sell
      spare  == IF a.isSell THEN q.buy - least
                            ELSE ((a.sell * buys) \div a.buy) - q.sell
      net    == ((spare * a.surplusPrice) \div Ether) - bill
      words  == {bill * Ether, q.sell + cut, spare * a.surplusPrice}
                \cup {x * y : x \in {a.sell, a.buy}, y \in {q.sell, q.buy}} \cup {q.buy * q.sell}
  IN [net |-> net,
      holds |-> /\ spare > 0 /\ net > 0 /\ words \subseteq 0 .. MaxWord
                /\ IF a.isSell THEN (sells - cut) * q.buy >= least * q.sell
                               ELSE (q.sell + cut) * a.buy <= a.sell * buys]

\* The best proposal in reach is bid: whenever an active proposal that fits
\* nets something and keeps the user's limit after its cut, by
\* cross-multiplication of exact amounts (a sell order's least whole amount),
\* /solve bids, and what it bids nets no less.  Only amounts too large for a
\* word get in the way (solve.rs, 88-133).
BestBid ==
  [][~ auction.open /\ auction'.open =>
       \A p \in Proposals :
         row[p].at = "active" /\ Fits(auction', row[p]) /\ auction'.sellPrice > 0
           /\ InReach(auction', p).holds
         => \E q \in bid'.of : InReach(auction', q).net >= InReach(auction', p).net]_vars
=============================================================================
