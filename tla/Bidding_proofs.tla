--------------------------- MODULE Bidding_proofs ---------------------------
(***************************************************************************)
(* For every width of the words, every order, price, gas and number of     *)
(* proposals: the user's limit survives the gas cut, what settles is what  *)
(* was simulated, a bid pays its gas, the best proposal in reach is bid,   *)
(* and a sub-solver's quote stands.                                        *)
(***************************************************************************)
EXTENDS Bidding, TLAPS, WellFoundedInduction

----------------------------------------------------------------------------
(* Products and quotients of natural numbers. *)

LEMMA DivBounds ==
  ASSUME NEW n \in Nat, NEW d \in Nat \ {0}
  PROVE  /\ n \div d \in Nat /\ n \div d <= n
         /\ (n \div d) * d <= n /\ n < (n \div d) * d + d
  OBVIOUS

LEMMA CeilBounds ==
  ASSUME NEW n \in Nat, NEW d \in Nat \ {0}
  PROVE  /\ (n + d - 1) \div d \in Nat /\ (n + d - 1) \div d <= n
         /\ n <= ((n + d - 1) \div d) * d /\ ((n + d - 1) \div d) * d < n + d
<1> DEFINE m == n + d - 1
<1>1. m \in Nat
  OBVIOUS
<1>2. /\ m \div d \in Nat
      /\ (m \div d) * d <= m /\ m < (m \div d) * d + d
  BY <1>1, DivBounds
<1>3. m \div d <= n
  <2>1. CASE n = 0
    BY <1>2, <2>1
  <2>2. CASE n > 0
    BY <1>2, <2>2
  <2>3. QED
    BY <2>1, <2>2
<1>4. QED
  BY <1>2, <1>3

LEMMA ExactQuotients ==
  ASSUME NEW x \in Nat, NEW y \in Nat \ {0}
  PROVE  (x * y) \div y = x /\ (x * y + y - 1) \div y = x
  OBVIOUS

LEMMA Commutes ==
  ASSUME NEW x \in Int, NEW y \in Int
  PROVE  x * y = y * x /\ x * y \in Int
  OBVIOUS

LEMMA Grows ==
  ASSUME NEW x \in Nat, NEW y \in Nat, NEW z \in Nat, x <= y
  PROVE  x * z <= y * z
  OBVIOUS

LEMMA Shrinks ==
  ASSUME NEW x \in Int, NEW y \in Int, NEW z \in Nat \ {0}, x * z <= y * z
  PROVE  x <= y
  OBVIOUS

\* The floor of a quotient is the largest whole number within it, the ceiling
\* the least beyond it.
LEMMA WithinFloor ==
  ASSUME NEW n \in Nat, NEW d \in Nat \ {0}, NEW x \in Nat
  PROVE  x <= n \div d <=> x * d <= n
<1>1. (n \div d) * d <= n /\ n < (n \div d) * d + d /\ n \div d \in Nat
  BY DivBounds
<1>2. ASSUME x <= n \div d
      PROVE  x * d <= n
  BY <1>1, <1>2, Grows
<1>3. ASSUME x > n \div d
      PROVE  x * d > n
  <2>1. ((n \div d) + 1) * d <= x * d
    BY <1>1, <1>3, Grows
  <2>2. ((n \div d) + 1) * d = (n \div d) * d + d
    BY <1>1
  <2>3. QED
    BY <1>1, <2>1, <2>2
<1>4. QED
  BY <1>1, <1>2, <1>3

LEMMA BeyondCeil ==
  ASSUME NEW n \in Nat, NEW d \in Nat \ {0}, NEW x \in Nat
  PROVE  (n + d - 1) \div d <= x <=> n <= x * d
<1> DEFINE c == (n + d - 1) \div d
<1>1. c \in Nat /\ n <= c * d /\ c * d < n + d
  BY CeilBounds
<1> HIDE DEF c
<1>2. ASSUME c <= x
      PROVE  n <= x * d
  BY <1>1, <1>2, Grows
<1>3. ASSUME c > x
      PROVE  n > x * d
  <2>1. (x + 1) * d <= c * d
    BY <1>1, <1>3, Grows
  <2>2. (x + 1) * d = x * d + d
    OBVIOUS
  <2>3. QED
    BY <1>1, <2>1, <2>2
<1>4. QED
  BY <1>1, <1>2, <1>3 DEF c

----------------------------------------------------------------------------
(* Words. *)

Word  == 0 .. MaxWord
Maybe == Word \cup {Nothing}

LEMMA Sizes ==
  /\ MaxWord \in Nat /\ MaxWord >= 1 /\ MaxGas \in Nat /\ GasBuffer \in Nat
  /\ Ether \in Word \ {0} /\ MinScore \in Nat
  /\ FeeNumerator \in Word \ {0} /\ FeeDenominator \in Word \ {0}
  /\ Amounts \subseteq Word /\ TokenPrices \subseteq Word /\ GasPrices \subseteq Word
  BY BiddingAssumption DEF Word

LEMMA NothingIsNoWord ==
  ASSUME NEW x \in Word
  PROVE  x # Nothing /\ x \in Nat /\ x \in Maybe
  BY Sizes DEF Word, Nothing, Maybe

\* A checked operation gives a word or Nothing, and a word only of words, the
\* exact result.
LEMMA CheckedOps ==
  ASSUME NEW x \in Maybe, NEW y \in Maybe
  PROVE  /\ Add(x, y) \in Maybe /\ Sub(x, y) \in Maybe /\ Mul(x, y) \in Maybe
         /\ Add(x, y) # Nothing => x \in Word /\ y \in Word /\ Add(x, y) = x + y
         /\ Sub(x, y) # Nothing => x \in Word /\ y \in Word /\ Sub(x, y) = x - y
         /\ Mul(x, y) # Nothing => x \in Word /\ y \in Word /\ Mul(x, y) = x * y
  BY Sizes DEF Maybe, Word, Nothing, Add, Sub, Mul, Checked

LEMMA CheckedQuotients ==
  ASSUME NEW x \in Maybe, NEW y \in Maybe
  PROVE  /\ Div(x, y) \in Maybe /\ DivCeil(x, y) \in Maybe
         /\ Div(x, y) # Nothing => x \in Word /\ y \in Word \ {0} /\ Div(x, y) = x \div y
         /\ DivCeil(x, y) # Nothing =>
              x \in Word /\ y \in Word \ {0} /\ DivCeil(x, y) = (x + y - 1) \div y
<1>1. CASE x = Nothing \/ y = Nothing \/ y = 0
  BY <1>1 DEF Maybe, Div, DivCeil
<1>2. CASE x \in Word /\ y \in Word \ {0}
  <2>1. x \in Nat /\ y \in Nat \ {0} /\ Nothing \notin {x, y}
    BY <1>2, Sizes DEF Word, Nothing
  <2>2. /\ x \div y \in Nat /\ x \div y <= x
        /\ (x + y - 1) \div y \in Nat /\ (x + y - 1) \div y <= x
    BY <2>1, DivBounds, CeilBounds
  <2>3. x \div y \in Word /\ (x + y - 1) \div y \in Word
    BY <1>2, <2>2, Sizes DEF Word
  <2>4. QED
    BY <1>2, <2>1, <2>3 DEF Maybe, Div, DivCeil
<1>3. QED
  BY <1>1, <1>2 DEF Maybe

----------------------------------------------------------------------------
(* Limits and scores of an order o, as signed or as an auction offers it, and *)
(* amounts p.                                                                 *)

IsOrder(o) == /\ o.sell \in Word /\ o.buy \in Word
              /\ o.isSell \in BOOLEAN /\ o.partial \in BOOLEAN

IsFill(p) == p.sell \in Word /\ p.buy \in Word

\* What a fill leaves beyond its limit.
Spare(o, p) == IF o.isSell THEN p.buy - BuyLimit(o, p) ELSE SellLimit(o, p) - p.sell

LEMMA Limits ==
  ASSUME NEW o, NEW p, IsOrder(o), IsFill(p)
  PROVE  /\ SellLimit(o, p) \in Maybe /\ BuyLimit(o, p) \in Maybe
         /\ Surplus(o, p) \in Maybe
         /\ Surplus(o, p) # Nothing =>
              /\ Surplus(o, p) = Spare(o, p) /\ Spare(o, p) \in Word
              /\ IF o.isSell THEN BuyLimit(o, p) \in Word ELSE SellLimit(o, p) \in Word
<1>1. {o.sell, o.buy, p.sell, p.buy} \subseteq Maybe
  BY DEF IsOrder, IsFill, Maybe
<1>2. Mul(o.sell, p.buy) \in Maybe /\ Mul(o.buy, p.sell) \in Maybe
  BY <1>1, CheckedOps
<1>3. SellLimit(o, p) \in Maybe /\ BuyLimit(o, p) \in Maybe
  BY <1>1, <1>2, CheckedQuotients DEF SellLimit, BuyLimit
<1>4. CASE o.isSell
  BY <1>1, <1>3, <1>4, CheckedOps DEF Surplus, Spare, Maybe
<1>5. CASE ~ o.isSell
  BY <1>1, <1>3, <1>5, CheckedOps DEF Surplus, Spare, Maybe
<1>6. QED
  BY <1>3, <1>4, <1>5

\* A fill that scores has a spare worth more than the gas bill, which was not
\* cut off at the largest word.
LEMMA ScoreSays ==
  ASSUME NEW o, NEW p, IsOrder(o), IsFill(p), NEW bill \in Word, NEW price \in Word
  PROVE  /\ Score(o, p, bill, price) \in Maybe
         /\ Score(o, p, bill, price) > 0 =>
              /\ Spare(o, p) \in Word
              /\ IF o.isSell THEN BuyLimit(o, p) \in Word ELSE SellLimit(o, p) \in Word
              /\ Spare(o, p) * price \in Word
              /\ Score(o, p, bill, price) = ((Spare(o, p) * price) \div Ether) - bill
              /\ Spare(o, p) * price > bill * Ether
              /\ bill < MaxWord
<1> DEFINE value == Mul(Surplus(o, p), price)
<1>1. /\ Surplus(o, p) \in Maybe /\ price \in Maybe /\ bill \in Maybe /\ Ether \in Maybe
      /\ bill \in Nat /\ Ether \in Nat \ {0} /\ MaxWord \in Nat
  BY Limits, Sizes DEF Maybe, Word
<1>2. value \in Maybe
  BY <1>1, CheckedOps
<1>3. Div(value, Ether) \in Maybe
  BY <1>1, <1>2, CheckedQuotients
<1>4. Score(o, p, bill, price) \in Maybe
  BY <1>1, <1>3, CheckedOps DEF Score
<1>5. ASSUME Score(o, p, bill, price) > 0
      PROVE  /\ Spare(o, p) \in Word
             /\ IF o.isSell THEN BuyLimit(o, p) \in Word ELSE SellLimit(o, p) \in Word
             /\ Spare(o, p) * price \in Word
             /\ Score(o, p, bill, price) = ((Spare(o, p) * price) \div Ether) - bill
             /\ Spare(o, p) * price > bill * Ether
             /\ bill < MaxWord
  <2>1. Score(o, p, bill, price) # Nothing
    BY <1>5 DEF Nothing
  <2>2. Div(value, Ether) \in Word /\ Score(o, p, bill, price) = Div(value, Ether) - bill
    BY <1>1, <1>3, <2>1, CheckedOps DEF Score
  <2>3. Div(value, Ether) # Nothing
    BY <2>2 DEF Nothing, Word
  <2>4. value \in Word /\ Div(value, Ether) = value \div Ether
    BY <1>1, <1>2, <2>3, CheckedQuotients
  <2>5. value # Nothing
    BY <2>4 DEF Nothing, Word
  <2>6. Surplus(o, p) \in Word /\ value = Surplus(o, p) * price
    BY <1>1, <2>5, CheckedOps
  <2>7. Surplus(o, p) # Nothing
    BY <2>6 DEF Nothing, Word
  <2>8. /\ Surplus(o, p) = Spare(o, p) /\ Spare(o, p) \in Word
        /\ IF o.isSell THEN BuyLimit(o, p) \in Word ELSE SellLimit(o, p) \in Word
    BY <2>7, Limits
  <2>9. value = Spare(o, p) * price
    BY <2>6, <2>8
  <2> HIDE DEF value
  <2>10. bill + 1 <= value \div Ether /\ value \div Ether \in Word /\ value \in Nat
    BY <1>1, <1>5, <2>2, <2>4, Sizes DEF Word
  <2>11. (bill + 1) * Ether <= value
    BY <1>1, <2>10, WithinFloor
  <2>12. (bill + 1) * Ether = bill * Ether + Ether /\ bill * Ether \in Nat
    BY <1>1
  <2>13. value > bill * Ether /\ bill < MaxWord
    BY <1>1, <2>10, <2>11, <2>12 DEF Word
  <2>14. QED
    BY <2>2, <2>4, <2>8, <2>9, <2>13
<1>6. QED
  BY <1>4, <1>5

\* The bill is a word, and exact unless it is the largest.
LEMMA Bills ==
  ASSUME NEW gas \in Nat, NEW price \in Word
  PROVE  /\ EffectiveGas(gas) \in 0 .. MaxGas
         /\ GasCost(gas, price) \in Word
         /\ GasCost(gas, price) < MaxWord => GasCost(gas, price) = EffectiveGas(gas) * price
         /\ EffectiveGas(gas) * price \in Word =>
              GasCost(gas, price) = EffectiveGas(gas) * price
<1>1. EffectiveGas(gas) \in 0 .. MaxGas
  BY Sizes DEF EffectiveGas, Saturate
<1>2. EffectiveGas(gas) * price \in Nat
  BY <1>1, Sizes DEF Word
<1>3. QED
  BY <1>1, <1>2, Sizes DEF GasCost, Saturate, Word

\* The cut is the least number of atoms that is worth the bill.
LEMMA Cuts ==
  ASSUME NEW bill \in Word, NEW price \in Word
  PROVE  /\ Cut(bill, price) \in Maybe
         /\ Cut(bill, price) # Nothing =>
              /\ bill * Ether \in Word /\ price # 0 /\ Cut(bill, price) \in Word
              /\ Cut(bill, price) = (bill * Ether + price - 1) \div price
              /\ Cut(bill, price) * price >= bill * Ether
         /\ bill * Ether \in Word /\ price # 0 =>
              /\ Cut(bill, price) = (bill * Ether + price - 1) \div price
              /\ Cut(bill, price) \in Word
<1>1. bill \in Maybe /\ price \in Maybe /\ Ether \in Maybe
  BY Sizes DEF Maybe
<1>2. Mul(bill, Ether) \in Maybe /\ Cut(bill, price) \in Maybe
  BY <1>1, CheckedOps, CheckedQuotients DEF Cut
<1>3. ASSUME bill * Ether \in Word, price # 0
      PROVE  /\ Cut(bill, price) = (bill * Ether + price - 1) \div price
             /\ Cut(bill, price) \in Word
             /\ Cut(bill, price) * price >= bill * Ether
  <2>1. Mul(bill, Ether) = bill * Ether
    BY <1>3, Sizes DEF Mul, Checked, Word, Nothing
  <2>2. Cut(bill, price) = (bill * Ether + price - 1) \div price
    BY <1>3, <2>1 DEF Cut, DivCeil, Word, Nothing
  <2>3. bill * Ether \in Nat /\ price \in Nat \ {0}
    BY <1>3 DEF Word
  <2>4. Cut(bill, price) \in Nat /\ Cut(bill, price) * price >= bill * Ether
    BY <2>2, <2>3, CeilBounds
  <2>5. Cut(bill, price) \in Word
    BY <1>2, <2>4 DEF Maybe, Nothing
  <2>6. QED
    BY <2>2, <2>4, <2>5
<1>4. ASSUME Cut(bill, price) # Nothing
      PROVE  bill * Ether \in Word /\ price # 0
  <2>1. Mul(bill, Ether) \in Word /\ price # 0
    BY <1>1, <1>2, <1>4, CheckedQuotients DEF Cut
  <2>2. Mul(bill, Ether) # Nothing
    BY <2>1 DEF Word, Nothing
  <2>3. QED
    BY <1>1, <2>1, <2>2, CheckedOps
<1>5. QED
  BY <1>2, <1>3, <1>4

----------------------------------------------------------------------------
(* A bid, and the trade it settles as. *)

\* Auction a offers what is left of order o once `done' of it is executed.
Offers(a, o, done) ==
  /\ IsOrder(a)
  /\ {a.gasPrice, a.sellPrice, a.surplusPrice} \subseteq Word
  /\ a.isSell = o.isSell /\ a.partial = o.partial
  /\ done < Target(o) /\ Target(a) = Target(o) - done
  /\ ~ o.partial => done = 0

\* Bid b was scored and sized in auction a.
Sized(b, a) ==
  LET bill == Saturate(b.gas * a.gasPrice, MaxWord)
  IN /\ IsFill(b) /\ b.cut \in Word /\ b.executed \in Word /\ b.gas \in 0 .. MaxGas
     /\ Fits(a, b)
     /\ Score(a, b, bill, a.surplusPrice) > 0
     /\ b.cut = Cut(bill, a.sellPrice)
     /\ b.executed = Executed(a, b, b.cut)

\* What the envelope says of amounts p for order o.
LEMMA EnvelopeSays ==
  ASSUME NEW o \in OrderChoices, NEW p, IsFill(p), InEnvelope(OrderRecord(o), p)
  PROVE  /\ o.balances = {"erc20"}
         /\ ~ o.partial => IF o.isSell THEN p.sell = o.sell ELSE p.buy = o.buy
         /\ IF o.isSell THEN p.sell \in 1 .. o.sell ELSE p.buy \in 1 .. o.buy
         /\ {o.sell, o.buy} \subseteq 1 .. MaxWord /\ IsOrder(o)
<1>1. /\ o.sell \in 1 .. MaxWord /\ o.buy \in 1 .. MaxWord
      /\ o.isSell \in BOOLEAN /\ o.partial \in BOOLEAN
  BY BiddingAssumption
<1>2. o.sell \in Nat /\ o.buy \in Nat
  BY <1>1, Sizes
<1>3. /\ OrderRecord(o).sell = o.sell /\ OrderRecord(o).buy = o.buy
      /\ OrderRecord(o).isSell = o.isSell /\ OrderRecord(o).partial = o.partial
  BY DEF OrderRecord
<1>4. o.balances = {"erc20"}
  <2>1. OrderRecord(o).erc20
    BY DEF InEnvelope
  <2>2. QED
    BY <2>1 DEF OrderRecord
<1>5. IF ~ o.partial
      THEN IF o.isSell THEN p.sell = o.sell ELSE p.buy = o.buy
      ELSE IF o.isSell THEN p.sell \in 1 .. o.sell ELSE p.buy \in 1 .. o.buy
  BY <1>1, <1>3 DEF InEnvelope
<1>6. IsOrder(o) /\ {o.sell, o.buy} \subseteq 1 .. MaxWord
  BY <1>1, Sizes DEF IsOrder, Word
<1>7. o.sell \in 1 .. o.sell /\ o.buy \in 1 .. o.buy
  BY <1>1, Sizes
<1>8. QED
  BY <1>1, <1>4, <1>5, <1>6, <1>7

\* The limit, the fill and the route of a trade all hold, whatever the cut.
LEMMA TradeKept ==
  ASSUME NEW o \in OrderChoices, NEW done \in Nat, NEW a, NEW b,
         Offers(a, o, done), Sized(b, a), InEnvelope(OrderRecord(o), b)
  PROVE  LET trade == Settlement(a, b)
         IN /\ trade.sold \in Nat /\ trade.bought \in Nat
            /\ trade.bought * a.sell >= a.buy * trade.sold
            /\ trade.sold <= a.sell
            /\ IF o.partial
               THEN done + (IF o.isSell THEN trade.sold ELSE trade.bought) <= Target(o)
               ELSE IF o.isSell THEN trade.sold = o.sell ELSE trade.bought = o.buy
            /\ trade.sold >= b.sell /\ trade.bought <= b.buy
<1> DEFINE bill  == Saturate(b.gas * a.gasPrice, MaxWord)
           trade == Settlement(a, b)
           most  == SellLimit(a, b)
           least == BuyLimit(a, b)
<1>1. /\ b.sell \in Nat /\ b.buy \in Nat /\ b.cut \in Nat /\ b.executed \in Nat
      /\ a.sell \in Nat /\ a.buy \in Nat /\ o.sell \in Nat \ {0} /\ o.buy \in Nat \ {0}
      /\ IsFill(b) /\ IsOrder(a)
      /\ a.isSell \in BOOLEAN /\ a.partial \in BOOLEAN
      /\ a.isSell = o.isSell /\ a.partial = o.partial
  BY EnvelopeSays, Sizes DEF Offers, Sized, IsOrder, IsFill, Word
<1>2. /\ ~ o.partial => IF o.isSell THEN b.sell = o.sell ELSE b.buy = o.buy
      /\ IF o.isSell THEN b.sell \in 1 .. o.sell ELSE b.buy \in 1 .. o.buy
  BY <1>1, EnvelopeSays
<1>3. bill \in Word
  BY <1>1, Sizes DEF Sized, Offers, Saturate, Word
<1>4. IF a.isSell THEN least \in Word ELSE most \in Word
  BY <1>1, <1>3, ScoreSays DEF Sized, Offers
<1>5. b.executed = Executed(a, b, b.cut) /\ b.executed # Nothing
  BY <1>1 DEF Sized, Nothing
<1>6. /\ done < Target(o) /\ Target(a) = Target(o) - done
      /\ ~ o.partial => done = 0
      /\ a.partial => IF a.isSell THEN b.sell <= a.sell ELSE b.buy <= a.buy
  BY DEF Offers, Sized, Fits
<1>7. {b.sell, b.buy, b.cut, a.sell, a.buy} \subseteq Maybe
  BY DEF Offers, Sized, IsOrder, IsFill, Maybe
<1> HIDE DEF bill
<1>8. CASE a.isSell
  <2>1. b.sell > 0 /\ most = b.sell /\ b.sell <= a.sell
        /\ done + b.sell <= Target(o) /\ (~ o.partial => b.sell = o.sell /\ a.sell = b.sell)
    BY <1>1, <1>2, <1>6, <1>8 DEF SellLimit, Target
  <2>2. /\ Sub(most, b.cut) = b.executed
        /\ Div(Mul(b.buy, b.executed), b.sell) # Nothing
        /\ Div(Mul(b.buy, b.executed), b.sell) >= least
    BY <1>5, <1>8 DEF Executed
  <2>3. b.executed = b.sell - b.cut
    BY <1>5, <1>7, <2>1, <2>2, CheckedOps
  <2>4. /\ Div(Mul(b.buy, b.executed), b.sell) = (b.buy * b.executed) \div b.sell
    <3>1. b.executed \in Maybe
      BY DEF Sized, Maybe
    <3>2. Mul(b.buy, b.executed) \in Maybe
      BY <1>7, <3>1, CheckedOps
    <3>3. /\ Mul(b.buy, b.executed) \in Word
          /\ Div(Mul(b.buy, b.executed), b.sell) = Mul(b.buy, b.executed) \div b.sell
      BY <1>7, <2>2, <3>2, CheckedQuotients
    <3>4. Mul(b.buy, b.executed) = b.buy * b.executed
      BY <1>7, <3>1, <3>3, CheckedOps DEF Word, Nothing
    <3>5. QED
      BY <3>3, <3>4
  <2>5. /\ trade.sold = b.executed + b.cut
        /\ trade.bought = (b.executed * b.buy + b.sell - 1) \div b.sell
    BY <1>1, <1>8, <2>1 DEF Settlement, Clears, DivCeil, Nothing
  <2>6. trade.sold = b.sell
    BY <1>1, <2>3, <2>5
  <2> HIDE DEF trade, least
  <2> DEFINE value == b.executed * b.buy
  <2>7. value \in Nat /\ value = b.buy * b.executed
    BY <1>1
  <2>0. b.sell \in Nat \ {0} /\ trade.bought = (value + b.sell - 1) \div b.sell
    BY <1>1, <2>1, <2>5
  <2> HIDE DEF value
  <2>8. trade.bought \in Nat /\ value <= trade.bought * b.sell
    BY <2>0, <2>7, CeilBounds
  <2>9. least \in Nat /\ least * b.sell <= value
    <3>1. least \in Nat /\ least <= value \div b.sell
      BY <1>4, <1>8, <2>2, <2>4, <2>7 DEF Word
    <3>2. QED
      BY <2>0, <2>7, <3>1, WithinFloor
  <2>10. least <= trade.bought
    <3>1. least * b.sell <= trade.bought * b.sell
      BY <2>0, <2>7, <2>8, <2>9
    <3>2. QED
      BY <1>1, <2>1, <2>8, <2>9, <3>1, Shrinks
  <2>11. trade.bought <= b.buy
    <3>1. value <= b.sell * b.buy
      BY <1>1, <2>3, Grows DEF value
    <3>2. value <= b.buy * b.sell
      BY <1>1, <3>1, Commutes
    <3>3. QED
      BY <1>1, <2>0, <2>7, <3>2, BeyondCeil
  <2>12. a.buy * b.sell <= least * a.sell
    <3>1. CASE ~ a.partial
      BY <1>1, <1>8, <2>1, <3>1 DEF BuyLimit, least
    <3>2. CASE a.partial
      <4>1. least = DivCeil(Mul(a.buy, b.sell), a.sell) /\ least # Nothing
        BY <1>8, <2>9, <3>2 DEF BuyLimit, least, Nothing
      <4>2. Mul(a.buy, b.sell) \in Maybe
        BY <1>7, CheckedOps
      <4>3. /\ Mul(a.buy, b.sell) \in Word /\ a.sell # 0
            /\ least = (Mul(a.buy, b.sell) + a.sell - 1) \div a.sell
        BY <1>7, <4>1, <4>2, CheckedQuotients
      <4>4. Mul(a.buy, b.sell) = a.buy * b.sell
        BY <1>7, <4>3, CheckedOps DEF Word, Nothing
      <4>5. Mul(a.buy, b.sell) \in Nat /\ a.sell \in Nat \ {0}
        BY <1>1, <4>3 DEF Word
      <4>6. Mul(a.buy, b.sell) <= least * a.sell
        BY <4>3, <4>5, CeilBounds
      <4>7. QED
        BY <4>4, <4>6
    <3>3. QED
      BY <3>1, <3>2
  <2>13. least * a.sell <= trade.bought * a.sell
    BY <1>1, <2>8, <2>9, <2>10, Grows
  <2>14. trade.bought * a.sell >= a.buy * trade.sold
    BY <1>1, <2>6, <2>8, <2>9, <2>12, <2>13
  <2>15. QED
    BY <1>1, <1>8, <2>1, <2>6, <2>8, <2>11, <2>14 DEF trade
<1>9. CASE ~ a.isSell
  <2>1. b.buy > 0 /\ least = b.buy /\ b.buy <= a.buy
        /\ done + b.buy <= Target(o) /\ (~ o.partial => b.buy = o.buy /\ a.buy = b.buy)
    BY <1>1, <1>2, <1>6, <1>9 DEF BuyLimit, Target
  <2>2. Add(b.sell, b.cut) \in 0 .. most /\ b.executed = b.buy
    BY <1>5, <1>9, <2>1 DEF Executed
  <2>3. b.sell + b.cut <= most /\ most \in Nat
    <3>1. most \in Nat
      BY <1>4, <1>9 DEF Word
    <3>2. Add(b.sell, b.cut) # Nothing
      BY <2>2, <3>1 DEF Nothing
    <3>3. QED
      BY <1>7, <2>2, <3>1, <3>2, CheckedOps
  <2>4. /\ trade.sold = ((b.buy * b.sell) \div b.buy) + b.cut
        /\ trade.bought = b.buy
    BY <1>1, <1>9, <2>1, <2>2 DEF Settlement, Clears, Div, Nothing
  <2>5. trade.sold = b.sell + b.cut
    <3>1. b.buy * b.sell = b.sell * b.buy
      BY <1>1
    <3>2. (b.sell * b.buy) \div b.buy = b.sell
      BY <1>1, <2>1, ExactQuotients
    <3>3. QED
      BY <2>4, <3>1, <3>2
  <2> HIDE DEF trade, most
  <2>6. trade.sold \in Nat /\ trade.sold <= most
    BY <1>1, <2>3, <2>5
  <2>7. trade.sold * a.buy <= a.sell * b.buy
    <3>1. CASE ~ a.partial
      <4>1. most = a.sell /\ a.buy = b.buy
        BY <1>1, <1>9, <2>1, <3>1 DEF SellLimit, most
      <4>2. QED
        BY <1>1, <2>6, <4>1, Grows
    <3>2. CASE a.partial
      <4>1. most = Div(Mul(a.sell, b.buy), a.buy) /\ most # Nothing
        BY <1>9, <2>3, <3>2 DEF SellLimit, most, Nothing
      <4>2. Mul(a.sell, b.buy) \in Maybe
        BY <1>7, CheckedOps
      <4>3. /\ Mul(a.sell, b.buy) \in Word /\ a.buy # 0
            /\ most = Mul(a.sell, b.buy) \div a.buy
        BY <1>7, <4>1, <4>2, CheckedQuotients
      <4>4. Mul(a.sell, b.buy) = a.sell * b.buy
        BY <1>7, <4>3, CheckedOps DEF Word, Nothing
      <4>5. QED
        BY <1>1, <2>6, <4>3, <4>4, WithinFloor
    <3>3. QED
      BY <3>1, <3>2
  <2>8. trade.sold <= a.sell
    <3>1. a.sell * b.buy <= a.sell * a.buy
      <4>1. b.buy * a.sell <= a.buy * a.sell
        BY <1>1, <2>1, Grows
      <4>2. QED
        BY <1>1, <4>1, Commutes
    <3>2. trade.sold * a.buy <= a.sell * a.buy
      BY <1>1, <2>6, <2>7, <3>1
    <3>3. QED
      BY <1>1, <2>1, <2>6, <3>2, Shrinks
  <2>9. trade.bought * a.sell >= a.buy * trade.sold
    <3>1. a.sell * b.buy = b.buy * a.sell /\ trade.sold * a.buy = a.buy * trade.sold
      BY <1>1, <2>6, Commutes
    <3>2. QED
      BY <2>4, <2>7, <3>1
  <2>10. QED
    BY <1>1, <1>9, <2>1, <2>4, <2>5, <2>6, <2>8, <2>9 DEF trade
<1>10. QED
  BY <1>1, <1>8, <1>9

----------------------------------------------------------------------------
(* The invariant: types, and where an auction and a bid come from. *)

Auction == [open : BOOLEAN, sell : 0 .. MaxWord, buy : 0 .. MaxWord,
            isSell : BOOLEAN, partial : BOOLEAN, gasPrice : GasPrices \cup {0},
            sellPrice : TokenPrices \cup {0}, surplusPrice : TokenPrices \cup {0}]

Answer == [of : SUBSET Proposals, executed : 0 .. MaxWord, cut : 0 .. MaxWord,
           sell : 0 .. MaxWord, buy : 0 .. MaxWord, gas : 0 .. MaxGas]

\* An active proposal passed the envelope, and its amounts never change.
ActiveFit == \A p \in Proposals :
  row[p].at = "active" => InEnvelope(OrderRecord(order), row[p])

\* A fill-or-kill order is executed whole or not at all.
Whole == ~ order.partial => filled \in {0, Target(order)}

Offered == auction.open => Offers(auction, order, filled)

BidSound == bid # NoBid => /\ auction.open /\ Sized(bid, auction)
                           /\ InEnvelope(OrderRecord(order), bid)

Sound == BiddingTypeOK /\ ActiveFit /\ Whole /\ Offered /\ BidSound

\* Amounts alone decide limits, scores, cuts and the envelope.
LEMMA SameAmounts ==
  ASSUME NEW o, NEW p, NEW q, NEW cut, NEW bill, NEW price, p.sell = q.sell, p.buy = q.buy
  PROVE  /\ Executed(o, p, cut) = Executed(o, q, cut)
         /\ Score(o, p, bill, price) = Score(o, q, bill, price)
         /\ Fits(o, p) <=> Fits(o, q)
         /\ InEnvelope(o, p) <=> InEnvelope(o, q)
  BY DEF Executed, Score, Surplus, SellLimit, BuyLimit, Fits, InEnvelope

LEMMA AuctionWords ==
  ASSUME NEW a \in Auction
  PROVE  /\ IsOrder(a)
         /\ a.gasPrice \in Word /\ a.sellPrice \in Word /\ a.surplusPrice \in Word
<1>1. GasPrices \cup {0} \subseteq Word /\ TokenPrices \cup {0} \subseteq Word
  BY Sizes DEF Word
<1>2. /\ a.gasPrice \in GasPrices \cup {0}
      /\ a.sellPrice \in TokenPrices \cup {0} /\ a.surplusPrice \in TokenPrices \cup {0}
  BY DEF Auction
<1>3. IsOrder(a)
  BY DEF Auction, IsOrder, Word
<1>4. QED
  BY <1>1, <1>2, <1>3

LEMMA BidForSized ==
  ASSUME BiddingTypeOK, ActiveFit, NEW a \in Auction, NEW p \in Candidates(a)
  PROVE  /\ Sized(BidFor(a, p), a) /\ InEnvelope(OrderRecord(order), BidFor(a, p))
         /\ BidFor(a, p) \in Answer /\ BidFor(a, p).of = {p}
         /\ ScoreIn(a, p) \in Word
<1> DEFINE q    == row[p]
           b    == BidFor(a, p)
           bill == GasCost(q.gas, a.gasPrice)
           cut  == Cut(bill, a.sellPrice)
<1>1. /\ p \in Proposals /\ q.at = "active" /\ Fits(a, q)
      /\ ScoreIn(a, p) > 0 /\ b.executed # Nothing
  BY DEF Candidates
<1>2. q \in Row /\ IsFill(q) /\ q.gas \in Nat
  BY <1>1, Sizes DEF BiddingTypeOK, Row, IsFill, Word
<1>3. /\ IsOrder(a) /\ a.gasPrice \in Word /\ a.sellPrice \in Word /\ a.surplusPrice \in Word
  BY AuctionWords
<1>4. /\ EffectiveGas(q.gas) \in 0 .. MaxGas /\ bill \in Word
      /\ bill = Saturate(EffectiveGas(q.gas) * a.gasPrice, MaxWord)
  BY <1>2, <1>3, Bills DEF GasCost
<1>5. /\ b.sell = q.sell /\ b.buy = q.buy /\ b.cut = cut
      /\ b.gas = EffectiveGas(q.gas) /\ b.of = {p}
      /\ b.executed = IF cut = Nothing THEN Nothing ELSE Executed(a, q, cut)
  BY DEF BidFor
<1>6. cut # Nothing /\ b.executed = Executed(a, q, cut)
  BY <1>1, <1>5
<1>7. cut \in Word
  BY <1>3, <1>4, <1>6, Cuts
<1> HIDE DEF cut, bill
<1>8. b.executed \in Word
  <2>1. SellLimit(a, q) \in Maybe /\ BuyLimit(a, q) \in Maybe
    BY <1>2, <1>3, Limits
  <2>2. cut \in Maybe
    BY <1>7 DEF Maybe
  <2>3. Sub(SellLimit(a, q), cut) \in Maybe
    BY <2>1, <2>2, CheckedOps
  <2>4. b.executed \in Maybe
    BY <1>6, <2>1, <2>3 DEF Executed, Maybe
  <2>5. QED
    BY <1>1, <2>4 DEF Maybe
<1>9. ScoreIn(a, p) = Score(a, q, bill, a.surplusPrice)
  BY DEF ScoreIn, bill
<1>10. ScoreIn(a, p) \in Word
  BY <1>1, <1>2, <1>3, <1>4, <1>9, ScoreSays DEF Maybe, Nothing
<1>11. InEnvelope(OrderRecord(order), q)
  BY <1>1 DEF ActiveFit
<1> HIDE DEF q, b
<1>12. Sized(b, a)
  <2>1. IsFill(b)
    BY <1>2, <1>5 DEF IsFill
  <2>2. Fits(a, b)
    BY <1>1, <1>5, SameAmounts
  <2>3. Score(a, b, bill, a.surplusPrice) > 0
    BY <1>1, <1>5, <1>9, SameAmounts
  <2>4. b.executed = Executed(a, b, b.cut)
    BY <1>5, <1>6, SameAmounts
  <2>5. bill = Saturate(b.gas * a.gasPrice, MaxWord) /\ b.cut = Cut(bill, a.sellPrice)
    BY <1>4, <1>5 DEF cut
  <2>6. QED
    BY <1>4, <1>5, <1>7, <1>8, <2>1, <2>2, <2>3, <2>4, <2>5 DEF Sized
<1>13. InEnvelope(OrderRecord(order), b)
  BY <1>5, <1>11, SameAmounts
<1>14. b \in Answer
  <2>1. b = [of |-> {p}, cut |-> b.cut, executed |-> b.executed,
             sell |-> b.sell, buy |-> b.buy, gas |-> b.gas]
    BY <1>5, <1>6 DEF b, BidFor
  <2>2. {b.executed, b.cut, b.sell, b.buy} \subseteq 0 .. MaxWord /\ b.gas \in 0 .. MaxGas
    BY <1>2, <1>4, <1>5, <1>7, <1>8 DEF IsFill, Word
  <2>3. QED
    BY <1>1, <2>1, <2>2 DEF Answer
<1>15. QED
  BY <1>5, <1>10, <1>12, <1>13, <1>14 DEF b

\* What a fraction of an amount comes to, rounded either way.
LEMMA Parts ==
  ASSUME NEW n \in Nat, NEW part \in Nat, NEW whole \in Nat \ {0}, part <= whole,
         NEW up \in {0, 1}
  PROVE  /\ (n * part + up * (whole - 1)) \div whole \in Nat
         /\ (n * part + up * (whole - 1)) \div whole <= n
<1> DEFINE m == n * part + up * (whole - 1)
<1>1. n * part <= n * whole /\ n * part \in Nat /\ n * whole \in Nat
  BY Grows, Commutes
<1>2. m \in Nat /\ m < n * whole + whole
  BY <1>1
<1> HIDE DEF m
<1>3. m \div whole \in Nat /\ (m \div whole) * whole <= m
  BY <1>2, DivBounds
<1>4. m \div whole <= n
  <2>1. CASE m \div whole >= n + 1
    <3>1. (n + 1) * whole <= (m \div whole) * whole
      BY <1>3, <2>1, Grows
    <3>2. (n + 1) * whole = n * whole + whole
      OBVIOUS
    <3>3. (m \div whole) * whole \in Nat
      BY <1>3
    <3>4. QED
      BY <1>1, <1>2, <1>3, <3>1, <3>2, <3>3
  <2>2. QED
    BY <1>3, <2>1
<1>5. QED
  BY <1>3, <1>4 DEF m

\* An auction is opened on what is left of the order, and answered by a best
\* candidate, or by none if no candidate can be sized.
LEMMA Solved ==
  ASSUME Sound, NEW gasPrice \in GasPrices, NEW sellPrice \in TokenPrices,
         NEW buyPrice \in TokenPrices, Solve(gasPrice, sellPrice, buyPrice)
  PROVE  /\ UNCHANGED <<order, pool, row, filled>>
         /\ auction' \in Auction /\ auction'.open /\ Offers(auction', order, filled)
         /\ \/ bid' = NoBid /\ {b \in Bids(auction') : b.executed # Nothing} = {}
            \/ \E p \in Candidates(auction') :
                 /\ bid' = BidFor(auction', p)
                 /\ \A r \in Candidates(auction') : ScoreIn(auction', p) >= ScoreIn(auction', r)
<1> DEFINE left == Target(order) - filled
<1>1. PICK up \in {0, 1} :
        /\ left > 0
        /\ auction' = [open |-> TRUE, isSell |-> order.isSell, partial |-> order.partial,
              sell |-> IF order.isSell THEN left
                       ELSE (order.sell * left + up * (Target(order) - 1)) \div Target(order),
              buy  |-> IF order.isSell
                       THEN (order.buy * left + up * (Target(order) - 1)) \div Target(order)
                       ELSE left,
              gasPrice |-> gasPrice, sellPrice |-> sellPrice,
              surplusPrice |-> SurplusPrice(order.isSell, sellPrice, buyPrice)]
        /\ bid' \in {b \in Bids(auction') : b.executed # Nothing}
                    \cup {b \in {NoBid} : {c \in Bids(auction') : c.executed # Nothing} = {}}
        /\ UNCHANGED <<order, pool, row, filled>>
  BY DEF Solve
<1>2. /\ order.sell \in 1 .. MaxWord /\ order.buy \in 1 .. MaxWord
      /\ order.isSell \in BOOLEAN /\ order.partial \in BOOLEAN
      /\ filled \in 0 .. Target(order)
  BY BiddingAssumption DEF Sound, BiddingTypeOK
<1>3. /\ Target(order) \in Nat \ {0} /\ Target(order) <= MaxWord
      /\ left \in Nat /\ left <= Target(order)
      /\ order.sell \in Nat /\ order.sell <= MaxWord
      /\ order.buy \in Nat /\ order.buy <= MaxWord
      /\ filled \in Nat
  BY <1>1, <1>2, Sizes DEF Target
<1> HIDE DEF left
<1>4. /\ (order.sell * left + up * (Target(order) - 1)) \div Target(order) \in 0 .. MaxWord
      /\ (order.buy * left + up * (Target(order) - 1)) \div Target(order) \in 0 .. MaxWord
      /\ left \in 0 .. MaxWord
  <2>1. ASSUME NEW n \in Nat, n <= MaxWord
        PROVE  (n * left + up * (Target(order) - 1)) \div Target(order) \in 0 .. MaxWord
    <3>1. /\ (n * left + up * (Target(order) - 1)) \div Target(order) \in Nat
          /\ (n * left + up * (Target(order) - 1)) \div Target(order) <= n
      BY <1>3, Parts
    <3>2. QED
      BY <2>1, <3>1, Sizes
  <2>2. left \in 0 .. MaxWord
    BY <1>3, Sizes
  <2>3. QED
    BY <1>3, <2>1, <2>2
<1>5. auction'.sell \in 0 .. MaxWord /\ auction'.buy \in 0 .. MaxWord
  BY <1>1, <1>4
<1>6. SurplusPrice(order.isSell, sellPrice, buyPrice) \in TokenPrices
  BY DEF SurplusPrice
<1>7. auction' \in Auction
  BY <1>1, <1>2, <1>5, <1>6 DEF Auction
<1>8. Offers(auction', order, filled)
  <2>1. IsOrder(auction')
    BY <1>1, <1>2, <1>5 DEF IsOrder, Word
  <2>2. {auction'.gasPrice, auction'.sellPrice, auction'.surplusPrice} \subseteq Word
    BY <1>1, <1>6, Sizes
  <2>3. Target(auction') = Target(order) - filled /\ filled < Target(order)
    BY <1>1, <1>2, <1>3 DEF Target, left
  <2>4. ~ order.partial => filled = 0
    BY <1>3, <2>3 DEF Sound, Whole
  <2>5. QED
    BY <1>1, <2>1, <2>2, <2>3, <2>4 DEF Offers
<1>9. CASE bid' \in {b \in Bids(auction') : b.executed # Nothing}
  BY <1>1, <1>7, <1>8, <1>9 DEF Bids
<1>10. CASE bid' = NoBid /\ {c \in Bids(auction') : c.executed # Nothing} = {}
  BY <1>1, <1>7, <1>8, <1>10
<1>11. QED
  BY <1>1, <1>9, <1>10

\* A quote is a word, and the pool keeps its product through it.
LEMMA QuotedOut ==
  ASSUME NEW in \in Word, NEW reserveIn \in Word, NEW reserveOut \in Word
  PROVE  LET out == AmountOut(in, reserveIn, reserveOut)
             net == in * FeeNumerator
         IN /\ out \in Maybe
            /\ out # Nothing =>
                 net * reserveOut >= out * (reserveIn * FeeDenominator + net)
<1> DEFINE out   == AmountOut(in, reserveIn, reserveOut)
           net   == Mul(in, FeeNumerator)
           value == Mul(net, reserveOut)
           base  == Add(Mul(reserveIn, FeeDenominator), net)
<1>1. {in, reserveIn, reserveOut, FeeNumerator, FeeDenominator} \subseteq Maybe
  BY Sizes DEF Maybe
<1>2. net \in Maybe /\ Mul(reserveIn, FeeDenominator) \in Maybe
  BY <1>1, CheckedOps
<1>3. value \in Maybe /\ base \in Maybe
  BY <1>1, <1>2, CheckedOps
<1>4. out \in Maybe /\ (out # Nothing => out = Div(value, base))
  BY <1>3, CheckedQuotients DEF AmountOut, Maybe
<1>5. ASSUME out # Nothing
      PROVE  LET exact == in * FeeNumerator
             IN exact * reserveOut >= out * (reserveIn * FeeDenominator + exact)
  <2>1. value \in Word /\ base \in Word \ {0} /\ out = value \div base
    BY <1>3, <1>4, <1>5, CheckedQuotients
  <2>2. net \in Word /\ value = net * reserveOut
    BY <1>1, <1>2, <2>1, CheckedOps, NothingIsNoWord
  <2>3. net = in * FeeNumerator
    BY <1>1, <2>2, CheckedOps DEF Word, Nothing
  <2>4. Mul(reserveIn, FeeDenominator) \in Word /\ base = Mul(reserveIn, FeeDenominator) + net
    BY <1>2, <2>1, CheckedOps DEF Word, Nothing
  <2>5. Mul(reserveIn, FeeDenominator) = reserveIn * FeeDenominator
    BY <1>1, <2>4, CheckedOps DEF Word, Nothing
  <2> HIDE DEF value, base
  <2>6. value \in Nat /\ base \in Nat \ {0}
    BY <2>1 DEF Word
  <2>7. out * base <= value
    BY <2>1, <2>6, DivBounds
  <2>8. out * (reserveIn * FeeDenominator + in * FeeNumerator)
          <= (in * FeeNumerator) * reserveOut
    BY <2>2, <2>3, <2>4, <2>5, <2>7
  <2> HIDE DEF out
  <2>9. out \in Int /\ {in, reserveIn, reserveOut, FeeNumerator, FeeDenominator} \subseteq Nat
    BY <2>1, <2>6, Sizes, DivBounds DEF Word
  <2>10. QED
    BY <2>8, <2>9
<1>6. QED
  BY <1>4, <1>5

LEMMA QuotedIn ==
  ASSUME NEW out \in Word, NEW reserveIn \in Word, NEW reserveOut \in Word
  PROVE  LET in  == AmountIn(out, reserveIn, reserveOut)
             net == in * FeeNumerator
         IN /\ in \in Maybe
            /\ in # Nothing =>
                 /\ in >= 1
                 /\ net * reserveOut >= out * (reserveIn * FeeDenominator + net)
<1> DEFINE in    == AmountIn(out, reserveIn, reserveOut)
           spare == reserveOut - out
           value == Mul(Mul(reserveIn, out), FeeDenominator)
           base  == Mul(spare, FeeNumerator)
<1>1. {out, reserveIn, reserveOut, FeeNumerator, FeeDenominator, 1} \subseteq Maybe
  BY Sizes DEF Maybe, Word
<1>2. CASE reserveIn = 0 \/ out >= reserveOut
  BY <1>2 DEF AmountIn, Maybe
<1>3. CASE ~ (reserveIn = 0 \/ out >= reserveOut)
  <2>1. in = Add(Div(value, base), 1)
    BY <1>3 DEF AmountIn
  <2>2. spare \in Word /\ spare \in Maybe
    BY <1>3, Sizes DEF Word, Maybe
  <2>3. Mul(reserveIn, out) \in Maybe /\ base \in Maybe
    BY <1>1, <2>2, CheckedOps
  <2>4. value \in Maybe
    BY <1>1, <2>3, CheckedOps
  <2>5. Div(value, base) \in Maybe
    BY <2>3, <2>4, CheckedQuotients
  <2>6. in \in Maybe
    BY <1>1, <2>1, <2>5, CheckedOps
  <2>7. ASSUME in # Nothing
        PROVE  LET net == in * FeeNumerator
               IN /\ in >= 1
                  /\ net * reserveOut >= out * (reserveIn * FeeDenominator + net)
    <3>1. Div(value, base) \in Word /\ in = Div(value, base) + 1
      BY <1>1, <2>1, <2>5, <2>7, CheckedOps
    <3>2. value \in Word /\ base \in Word \ {0} /\ Div(value, base) = value \div base
      BY <2>3, <2>4, <3>1, CheckedQuotients DEF Word, Nothing
    <3>3. base = spare * FeeNumerator
      BY <1>1, <2>2, <3>2, CheckedOps DEF Word, Nothing
    <3>4. Mul(reserveIn, out) \in Word /\ value = Mul(reserveIn, out) * FeeDenominator
      BY <1>1, <2>3, <3>2, CheckedOps, NothingIsNoWord
    <3>5. Mul(reserveIn, out) = reserveIn * out
      BY <1>1, <3>4, CheckedOps, NothingIsNoWord
    <3>6. in \in Nat /\ in >= 1
      BY <3>1 DEF Word
    <3> HIDE DEF in, value, base
    <3>7. value < in * base
      <4>1. value \in Nat /\ base \in Nat \ {0} /\ value \div base \in Nat
        BY <3>1, <3>2 DEF Word
      <4>2. value < (value \div base) * base + base
        BY <4>1, DivBounds
      <4>3. in * base = (value \div base) * base + base
        BY <3>1, <3>2, <4>1
      <4>4. QED
        BY <4>2, <4>3
    <3> DEFINE net == in * FeeNumerator
    <3>8. /\ reserveIn \in Nat /\ reserveOut \in Nat /\ out \in Nat
          /\ FeeNumerator \in Nat /\ FeeDenominator \in Nat /\ net \in Nat
      BY <3>6, Sizes DEF Word
    <3>9. in * base = net * reserveOut - net * out
      <4>0. spare \in Int /\ FeeNumerator \in Int /\ in \in Int
        BY <3>6, <3>8
      <4>1. in * base = net * spare
        <5> HIDE DEF spare
        <5>1. in * (spare * FeeNumerator) = (in * FeeNumerator) * spare
          BY <4>0
        <5>2. QED
          BY <3>3, <5>1 DEF net
      <4>2. QED
        BY <3>8, <4>1
    <3>10. value = out * (reserveIn * FeeDenominator)
      BY <3>4, <3>5, <3>8
    <3> HIDE DEF net
    <3>11. /\ net * reserveOut \in Nat /\ net * out \in Nat
           /\ reserveIn * FeeDenominator \in Nat
           /\ out * (reserveIn * FeeDenominator) \in Nat
      BY <3>8
    <3>12. out * (reserveIn * FeeDenominator + net)
             = out * (reserveIn * FeeDenominator) + net * out
      BY <3>8, <3>11
    <3>13. net * reserveOut >= out * (reserveIn * FeeDenominator + net)
      BY <3>7, <3>9, <3>10, <3>11, <3>12
    <3>14. QED
      BY <3>6, <3>13 DEF net
  <2>8. QED
    BY <2>6, <2>7
<1>4. QED
  BY <1>2, <1>3

\* What a step can make of one row: it never changes amounts once they are posted.
RowStep(p) ==
  \/ row'[p] = row[p]
  \/ /\ row'[p].sell = row[p].sell /\ row'[p].buy = row[p].buy
     /\ row'[p].quoted = row[p].quoted
     /\ row'[p].at = "active" => \/ row[p].at = "active"
                                 \/ InEnvelope(OrderRecord(order), row[p])
  \/ row[p].at = "unborn" /\ row'[p].at = "submitted" /\ (Quote(p) \/ ~ row'[p].quoted)

LEMMA PostedTyped ==
  ASSUME NEW sell \in Word, NEW buy \in Word
  PROVE  /\ [Unborn EXCEPT !.at = "submitted", !.sell = sell, !.buy = buy] \in Row
         /\ [Unborn EXCEPT !.at = "submitted", !.quoted = TRUE,
                           !.sell = sell, !.buy = buy] \in Row
<1>1. 0 \in 0 .. MaxGas /\ sell \in 0 .. MaxWord /\ buy \in 0 .. MaxWord
  BY Sizes DEF Word
<1>2. QED
  BY <1>1 DEF Unborn, Row

LEMMA QuoteTyped ==
  ASSUME BiddingTypeOK, NEW p \in Proposals, Quote(p)
  PROVE  row' \in [Proposals -> Row]
<1> DEFINE out  == AmountOut(order.sell, pool.sell, pool.buy)
           cost == AmountIn(order.buy, pool.sell, pool.buy)
           sell == IF order.isSell THEN order.sell ELSE cost
           buy  == IF order.isSell THEN out ELSE order.buy
<1>1. /\ order.sell \in Word /\ order.buy \in Word
      /\ pool.sell \in Word /\ pool.buy \in Word
  BY BiddingAssumption, Sizes DEF BiddingTypeOK, Word
<1>2. out \in Maybe /\ cost \in Maybe
  BY <1>1, QuotedOut, QuotedIn
<1>3. /\ Nothing \notin {sell, buy}
      /\ row' = [row EXCEPT ![p] = [Unborn EXCEPT !.at = "submitted", !.quoted = TRUE,
                                                  !.sell = sell, !.buy = buy]]
  BY DEF Quote
<1> HIDE DEF out, cost
<1>4. sell \in Word /\ buy \in Word
  BY <1>1, <1>2, <1>3 DEF Maybe
<1> HIDE DEF sell, buy
<1>5. [Unborn EXCEPT !.at = "submitted", !.quoted = TRUE, !.sell = sell, !.buy = buy] \in Row
  BY <1>4, PostedTyped
<1>6. QED
  BY <1>3, <1>5 DEF BiddingTypeOK

LEMMA RowsTyped ==
  ASSUME Sound, [Next]_vars
  PROVE  /\ row' \in [Proposals -> Row]
         /\ \A p \in Proposals : RowStep(p)
<1>0. row \in [Proposals -> Row]
  BY DEF Sound, BiddingTypeOK
<1>1. ASSUME NEW p \in Proposals, Quote(p)
      PROVE  /\ row' \in [Proposals -> Row]
             /\ \A q \in Proposals : RowStep(q)
  <2>1. row' \in [Proposals -> Row]
    BY <1>1, QuoteTyped DEF Sound
  <2>2. \A q \in Proposals : q # p => row'[q] = row[q]
    BY <1>0, <1>1 DEF Quote
  <2>3. row[p].at = "unborn" /\ row'[p].at = "submitted"
    BY <1>0, <1>1 DEF Quote, Unborn
  <2>4. QED
    BY <1>1, <2>1, <2>2, <2>3 DEF RowStep
<1>2. ASSUME NEW p \in Proposals, NEW sell \in Amounts, NEW buy \in Amounts, Post(p, sell, buy)
      PROVE  /\ row' \in [Proposals -> Row]
             /\ \A q \in Proposals : RowStep(q)
  <2>1. [Unborn EXCEPT !.at = "submitted", !.sell = sell, !.buy = buy] \in Row
    BY Sizes, PostedTyped
  <2>2. QED
    BY <1>0, <1>2, <2>1 DEF Post, RowStep, Unborn
<1>3. ASSUME NEW p \in Proposals, NEW gas \in Gases, NEW gasPrice \in GasPrices,
             NEW price \in TokenPrices, Validate(p, gas, gasPrice, price)
      PROVE  /\ row' \in [Proposals -> Row]
             /\ \A q \in Proposals : RowStep(q)
  <2>1. gas \in 0 .. MaxGas
    BY BiddingAssumption
  <2>2. /\ [row[p] EXCEPT !.at = "active", !.gas = gas] \in Row
        /\ [row[p] EXCEPT !.at = "rejected"] \in Row
    BY <1>0, <2>1 DEF Row
  <2>3. \A q \in Proposals : q # p => row'[q] = row[q]
    BY <1>0, <1>3 DEF Validate
  <2>4. CASE /\ InEnvelope(OrderRecord(order), row[p])
             /\ Score(order, row[p], GasCost(gas, gasPrice), price) > MinScore
    <3>1. row' = [row EXCEPT ![p] = [row[p] EXCEPT !.at = "active", !.gas = gas]]
      BY <1>3, <2>4 DEF Validate
    <3>2. row' \in [Proposals -> Row] /\ row'[p] = [row[p] EXCEPT !.at = "active", !.gas = gas]
      BY <1>0, <2>2, <3>1
    <3>3. /\ row'[p].sell = row[p].sell /\ row'[p].buy = row[p].buy
          /\ row'[p].quoted = row[p].quoted
      BY <1>0, <3>2 DEF Row
    <3>4. RowStep(p)
      BY <2>4, <3>3 DEF RowStep
    <3>5. QED
      BY <2>3, <3>2, <3>4 DEF RowStep
  <2>5. CASE ~ (/\ InEnvelope(OrderRecord(order), row[p])
                /\ Score(order, row[p], GasCost(gas, gasPrice), price) > MinScore)
    <3>1. row' = [row EXCEPT ![p] = [row[p] EXCEPT !.at = "rejected"]]
      BY <1>3, <2>5 DEF Validate
    <3>2. QED
      BY <1>0, <2>2, <2>3, <3>1 DEF RowStep, Row
  <2>6. QED
    BY <2>4, <2>5
<1>4. ASSUME NEW p \in Proposals, NEW gas \in Gases, Revalidate(p, gas)
      PROVE  /\ row' \in [Proposals -> Row]
             /\ \A q \in Proposals : RowStep(q)
  <2>1. gas \in 0 .. MaxGas
    BY BiddingAssumption
  <2>2. QED
    BY <1>0, <1>4, <2>1 DEF Revalidate, RowStep, Row
<1>5. CASE Settle
  <2>1. row' = [p \in Proposals |-> IF p \in bid.of THEN [row[p] EXCEPT !.at = "settled"]
                                                    ELSE row[p]]
    BY <1>5 DEF Settle
  <2>2. \A p \in Proposals : [row[p] EXCEPT !.at = "settled"] \in Row
    BY <1>0 DEF Row
  <2>3. QED
    BY <1>0, <2>1, <2>2 DEF RowStep, Row
<1>6. CASE UNCHANGED row
  BY <1>0, <1>6 DEF RowStep
<1>7. QED
  BY <1>1, <1>2, <1>3, <1>4, <1>5, <1>6 DEF Next, Solve, Lose, vars

\* A bid's trade, in a state where the invariant holds.
LEMMA BidTrade ==
  ASSUME Sound, bid # NoBid
  PROVE  LET trade == Settlement(auction, bid)
         IN /\ trade.sold \in Nat /\ trade.bought \in Nat
            /\ trade.bought * auction.sell >= auction.buy * trade.sold
            /\ trade.sold <= auction.sell
            /\ IF order.partial
               THEN filled + (IF order.isSell THEN trade.sold ELSE trade.bought) <= Target(order)
               ELSE IF order.isSell THEN trade.sold = order.sell ELSE trade.bought = order.buy
            /\ trade.sold >= bid.sell /\ trade.bought <= bid.buy
<1>1. /\ order \in OrderChoices /\ filled \in Nat
      /\ Offers(auction, order, filled)
      /\ Sized(bid, auction) /\ InEnvelope(OrderRecord(order), bid)
  BY BiddingAssumption DEF Sound, BiddingTypeOK, Offered, BidSound, Target
<1>2. QED
  BY <1>1, TradeKept

LEMMA SoundStep ==
  ASSUME Sound, [Next]_vars
  PROVE  Sound'
<1>0. /\ order' = order /\ pool' = pool
      /\ order \in OrderChoices /\ pool \in Pools /\ row \in [Proposals -> Row]
      /\ filled \in 0 .. Target(order) /\ auction \in Auction /\ bid \in Answer
  BY DEF Sound, BiddingTypeOK, Auction, Answer, Next, Quote, Post, Validate, Revalidate,
         Solve, Settle, Lose, vars
<1>1. row' \in [Proposals -> Row] /\ \A p \in Proposals : RowStep(p)
  BY RowsTyped
<1>2. ActiveFit'
  <2> SUFFICES ASSUME NEW p \in Proposals, row'[p].at = "active"
               PROVE  InEnvelope(OrderRecord(order), row'[p])
    BY <1>0 DEF ActiveFit
  <2>1. CASE row'[p] = row[p]
    BY <2>1 DEF Sound, ActiveFit
  <2>2. CASE /\ row'[p].sell = row[p].sell /\ row'[p].buy = row[p].buy
             /\ \/ row[p].at = "active"
                \/ InEnvelope(OrderRecord(order), row[p])
    <3>1. InEnvelope(OrderRecord(order), row[p])
      BY <2>2 DEF Sound, ActiveFit
    <3>2. QED
      BY <2>2, <3>1, SameAmounts
  <2>3. QED
    BY <1>1, <2>1, <2>2 DEF RowStep
<1>3. Closed \in Auction /\ NoBid \in Answer /\ ~ Closed.open
  BY Sizes DEF Closed, Auction, NoBid, Answer
<1>4. ASSUME UNCHANGED <<filled, auction, bid>>
      PROVE  Sound'
  BY <1>0, <1>1, <1>2, <1>4
     DEF Sound, BiddingTypeOK, Auction, Answer, Whole, Offered, BidSound
<1>5. ASSUME NEW gasPrice \in GasPrices, NEW sellPrice \in TokenPrices,
             NEW buyPrice \in TokenPrices, Solve(gasPrice, sellPrice, buyPrice)
      PROVE  Sound'
  <2>1. /\ filled' = filled /\ auction' \in Auction /\ auction'.open
        /\ Offers(auction', order, filled)
        /\ bid' = NoBid \/ \E p \in Candidates(auction') : bid' = BidFor(auction', p)
    BY <1>5, Solved
  <2>2. \A p \in Candidates(auction') :
          /\ Sized(BidFor(auction', p), auction') /\ BidFor(auction', p) \in Answer
          /\ InEnvelope(OrderRecord(order), BidFor(auction', p))
    BY <2>1, BidForSized DEF Sound
  <2>3. bid' \in Answer
    BY <1>3, <2>1, <2>2
  <2>4. Offered' /\ BidSound'
    BY <1>0, <2>1, <2>2 DEF Offered, BidSound
  <2>5. QED
    BY <1>0, <1>1, <1>2, <2>1, <2>3, <2>4
       DEF Sound, BiddingTypeOK, Auction, Answer, Whole
<1>6. ASSUME auction' = Closed, bid' = NoBid, filled' \in 0 .. Target(order),
             ~ order.partial => filled' \in {0, Target(order)}
      PROVE  Sound'
  BY <1>0, <1>1, <1>2, <1>3, <1>6
     DEF Sound, BiddingTypeOK, Auction, Answer, Whole, Offered, BidSound
<1>7. CASE Settle
  <2> DEFINE trade == Settlement(auction, bid)
             fill  == IF order.isSell THEN trade.sold ELSE trade.bought
  <2>1. /\ bid # NoBid /\ filled' = filled + fill /\ auction' = Closed /\ bid' = NoBid
    BY <1>7 DEF Settle
  <2>2. /\ fill \in Nat
        /\ IF order.partial THEN filled + fill <= Target(order) ELSE fill = Target(order)
    BY <2>1, BidTrade DEF Target
  <2>3. ~ order.partial => filled = 0
    BY <1>0, <2>1 DEF Sound, BidSound, Offered, Offers
  <2> HIDE DEF fill
  <2>4. filled \in Nat /\ Target(order) \in Nat
    BY <1>0, BiddingAssumption DEF Target
  <2>5. filled' \in 0 .. Target(order) /\ (~ order.partial => filled' = Target(order))
    BY <2>1, <2>2, <2>3, <2>4
  <2>6. QED
    BY <1>6, <2>1, <2>5
<1>8. ASSUME NEW fill \in 0 .. Target(order), Lose(fill)
      PROVE  Sound'
  <2>1. filled \in Nat /\ Target(order) \in Nat
    BY <1>0, BiddingAssumption DEF Target
  <2>2. filled' \in 0 .. Target(order)
    BY <1>0, <1>8, <2>1 DEF Lose
  <2>3. ~ order.partial => filled' \in {0, Target(order)}
    BY <1>8, <2>1 DEF Lose, Sound, Whole
  <2>4. QED
    BY <1>6, <1>8, <2>2, <2>3 DEF Lose
<1>9. QED
  BY <1>4, <1>5, <1>7, <1>8 DEF Next, Quote, Post, Validate, Revalidate, vars

LEMMA SoundAlways == Spec => []Sound
<1>1. Init => Sound
  <2> SUFFICES ASSUME Init PROVE Sound
    OBVIOUS
  <2>1. Unborn \in Row
    <3>1. 0 \in 0 .. MaxWord /\ 0 \in 0 .. MaxGas
      BY Sizes
    <3>2. QED
      BY <3>1 DEF Unborn, Row
  <2>2. Closed \in Auction /\ NoBid \in Answer /\ ~ Closed.open
    BY Sizes DEF Closed, Auction, NoBid, Answer
  <2>3. 0 \in 0 .. Target(order)
    BY BiddingAssumption DEF Init, Target
  <2>4. BiddingTypeOK
    BY <2>1, <2>2, <2>3 DEF Init, BiddingTypeOK, Auction, Answer
  <2>5. QED
    BY <2>2, <2>4 DEF Init, Sound, ActiveFit, Whole, Offered, BidSound, Unborn
<1>2. QED
  BY <1>1, SoundStep, PTL DEF Spec

----------------------------------------------------------------------------
(* What follows from the invariant. *)

\* Rows, auctions and bids stay within their words.
THEOREM BiddingTyped == Spec => []BiddingTypeOK
  BY SoundAlways, PTL DEF Sound

\* Whatever the amounts, prices and widths: what a bid takes and gives is within
\* the price the auction offers and within what is left of the order.
THEOREM LimitSurvives == Spec => []LimitKept
<1>1. Sound => LimitKept
  BY BidTrade DEF LimitKept
<1>2. QED
  BY <1>1, SoundAlways, PTL

\* The simulated trade is the signed route's, and a bid's settlement feeds the
\* route all it was promised and asks no more of it than it returns.
THEOREM SimulationSettles == Spec => []SimulatedIsSettled
<1>1. ASSUME Sound, NEW p \in Proposals, row[p].at = "active"
      PROVE  Simulation(OrderRecord(order), row[p])
               = [sold |-> Route(row[p]).given, bought |-> Route(row[p]).returned]
  <2> DEFINE o == order
             r == OrderRecord(order)
             q == row[p]
  <2>1. o \in OrderChoices /\ IsFill(q) /\ InEnvelope(r, q)
    BY <1>1, Sizes DEF Sound, BiddingTypeOK, ActiveFit, Row, IsFill, Word
  <2>2. /\ o.balances = {"erc20"}
        /\ ~ o.partial => IF o.isSell THEN q.sell = o.sell ELSE q.buy = o.buy
        /\ IF o.isSell THEN q.sell \in 1 .. o.sell ELSE q.buy \in 1 .. o.buy
        /\ IsOrder(o)
    BY <2>1, EnvelopeSays
  <2>3. /\ r.sell = o.sell /\ r.buy = o.buy /\ r.isSell = o.isSell
        /\ r.partial = o.partial /\ r.erc20 = (o.balances = {"erc20"})
    BY DEF OrderRecord
  <2>4. Simulation(r, q) = Clears(r, q, EncodeSettle(r, q))
    BY <2>2, <2>3 DEF Simulation
  <2>5. EncodeSettle(r, q) = IF o.isSell THEN q.sell ELSE q.buy
    BY <2>2, <2>3 DEF EncodeSettle, IsOrder
  <2>6. q.sell \in Nat /\ q.buy \in Nat
    BY <2>1, NothingIsNoWord DEF IsFill
  <2> HIDE DEF r, q, o
  <2>7. Clears(r, q, EncodeSettle(r, q)) = [sold |-> q.sell, bought |-> q.buy]
    <3>1. CASE o.isSell
      <4>1. q.sell \in Nat \ {0} /\ q.sell * q.buy = q.buy * q.sell /\ q.sell * q.buy \in Nat
        BY <2>2, <2>6, <3>1, Commutes
      <4>2. (q.buy * q.sell + q.sell - 1) \div q.sell = q.buy
        BY <2>6, <4>1, ExactQuotients
      <4>3. DivCeil(q.sell * q.buy, q.sell) = q.buy
        BY <4>1, <4>2 DEF DivCeil, Nothing
      <4>4. QED
        BY <2>3, <2>5, <3>1, <4>3 DEF Clears
    <3>2. CASE ~ o.isSell
      <4>1. q.buy \in Nat \ {0} /\ q.buy * q.sell = q.sell * q.buy /\ q.buy * q.sell \in Nat
        BY <2>2, <2>6, <3>2, Commutes
      <4>2. (q.sell * q.buy) \div q.buy = q.sell
        BY <2>6, <4>1, ExactQuotients
      <4>3. Div(q.buy * q.sell, q.buy) = q.sell
        BY <4>1, <4>2 DEF Div, Nothing
      <4>4. QED
        BY <2>3, <2>5, <3>2, <4>3 DEF Clears
    <3>3. QED
      BY <3>1, <3>2
  <2>8. QED
    BY <2>4, <2>7 DEF Route, r, q
<1>2. Sound => SimulatedIsSettled
  BY <1>1, BidTrade DEF SimulatedIsSettled, Route
<1>3. QED
  BY <1>2, SoundAlways, PTL

\* A bid pays its gas in full: the bill is never one that was cut off at the
\* largest word.
THEOREM GasPaid == Spec => []BidPaysItsGas
<1>1. Sound => BidPaysItsGas
  <2> SUFFICES ASSUME Sound, bid # NoBid
               PROVE  LET bill == bid.gas * auction.gasPrice
                      IN /\ bid.cut * auction.sellPrice >= bill * Ether
                         /\ (IF order.isSell THEN bid.buy - BuyLimit(auction, bid)
                                             ELSE SellLimit(auction, bid) - bid.sell)
                              * auction.surplusPrice > bill * Ether
    BY DEF BidPaysItsGas
  <2> DEFINE bill == bid.gas * auction.gasPrice
             paid == Saturate(bill, MaxWord)
  <2>1. Offers(auction, order, filled) /\ Sized(bid, auction)
    BY DEF Sound, Offered, BidSound
  <2>2. /\ IsOrder(auction) /\ IsFill(bid) /\ auction.isSell = order.isSell
        /\ auction.surplusPrice \in Word /\ auction.sellPrice \in Word
        /\ bid.gas \in Nat /\ auction.gasPrice \in Nat
        /\ bid.cut \in Word /\ bid.cut = Cut(paid, auction.sellPrice)
        /\ Score(auction, bid, paid, auction.surplusPrice) > 0
    BY <2>1, Sizes DEF Offers, Sized, Word
  <2>3. bill \in Nat
    BY <2>2
  <2> HIDE DEF bill
  <2>4. paid \in Word
    BY <2>3, Sizes DEF Saturate, Word
  <2>5. /\ Spare(auction, bid) * auction.surplusPrice > paid * Ether
        /\ paid < MaxWord
    BY <2>2, <2>4, ScoreSays
  <2>6. paid = bill
    BY <2>3, <2>5, Sizes DEF Saturate
  <2>7. bid.cut * auction.sellPrice >= paid * Ether
    <3>1. Cut(paid, auction.sellPrice) # Nothing
      BY <2>2, NothingIsNoWord
    <3>2. QED
      BY <2>2, <2>4, <3>1, Cuts
  <2>8. QED
    BY <2>2, <2>5, <2>6, <2>7 DEF Spare, bill
<1>2. QED
  BY <1>1, SoundAlways, PTL

----------------------------------------------------------------------------
(* Quotes. *)

\* What QuoteStands says of amounts q, for order o and reserves r.
Stands(o, r, q) ==
  LET net == q.sell * FeeNumerator
  IN /\ net * r.buy >= q.buy * (r.sell * FeeDenominator + net)
     /\ q.buy * o.sell <= MaxWord => InEnvelope(OrderRecord(o), q)

LEMMA QuoteMeets ==
  ASSUME BiddingTypeOK, NEW p \in Proposals, Quote(p)
  PROVE  Stands(order, pool, row'[p])
<1> DEFINE out  == AmountOut(order.sell, pool.sell, pool.buy)
           cost == AmountIn(order.buy, pool.sell, pool.buy)
           sell == IF order.isSell THEN order.sell ELSE cost
           buy  == IF order.isSell THEN out ELSE order.buy
           q    == row'[p]
           r    == OrderRecord(order)
<1>1. /\ order.sell \in Word \ {0} /\ order.buy \in Word \ {0}
      /\ order.isSell \in BOOLEAN /\ order.partial \in BOOLEAN
      /\ pool.sell \in Word /\ pool.buy \in Word
  BY BiddingAssumption, Sizes DEF BiddingTypeOK, Word
<1>2. /\ Nothing \notin {sell, buy}
      /\ order.balances = {"erc20"}
      /\ buy >= order.buy /\ sell <= order.sell
      /\ row' = [row EXCEPT ![p] = [Unborn EXCEPT !.at = "submitted", !.quoted = TRUE,
                                                  !.sell = sell, !.buy = buy]]
  BY DEF Quote, Eligible
<1>3. out \in Maybe /\ cost \in Maybe
  BY <1>1, QuotedOut, QuotedIn
<1>4. (sell * FeeNumerator) * pool.buy
        >= buy * (pool.sell * FeeDenominator + sell * FeeNumerator)
  <2>1. CASE order.isSell
    BY <1>1, <1>2, <2>1, QuotedOut
  <2>2. CASE ~ order.isSell
    BY <1>1, <1>2, <2>2, QuotedIn
  <2>3. QED
    BY <1>1, <2>1, <2>2
<1>5. sell >= 1
  BY <1>1, <1>2, QuotedIn DEF Word
<1> HIDE DEF out, cost
<1>6. sell \in Word /\ buy \in Word
  BY <1>1, <1>2, <1>3 DEF Maybe
<1>7. order.isSell => sell = order.sell
  OBVIOUS
<1>8. ~ order.isSell => buy = order.buy
  OBVIOUS
<1> HIDE DEF sell, buy
<1>9. q.sell = sell /\ q.buy = buy
  BY <1>2 DEF BiddingTypeOK, Unborn
<1> HIDE DEF q
<1>10. ASSUME buy * order.sell <= MaxWord
       PROVE  InEnvelope(r, q)
  <2>1. /\ r.erc20 /\ r.isSell = order.isSell /\ r.partial = order.partial
        /\ r.sell = order.sell /\ r.buy = order.buy
    BY <1>2 DEF OrderRecord
  <2>2. /\ sell \in Nat \ {0} /\ buy \in Nat /\ order.sell \in Nat \ {0}
        /\ order.buy \in Nat \ {0}
    BY <1>1, <1>5, <1>6 DEF Word
  <2>3. sell * order.buy <= buy * order.sell
    <3>1. sell * order.buy <= order.sell * order.buy
      BY <1>2, <2>2, Grows
    <3>2. order.buy * order.sell <= buy * order.sell
      BY <1>2, <2>2, Grows
    <3>3. order.buy * order.sell = order.sell * order.buy
      BY <2>2, Commutes
    <3>4. /\ sell * order.buy \in Int /\ order.sell * order.buy \in Int
          /\ buy * order.sell \in Int
      BY <2>2, Commutes
    <3>5. QED
      BY <3>1, <3>2, <3>3, <3>4
  <2>4. buy * order.sell \in 0 .. MaxWord /\ sell * order.buy \in 0 .. MaxWord
    <3>1. buy * order.sell \in Nat /\ sell * order.buy \in Nat
      BY <2>2
    <3>2. QED
      BY <1>10, <2>3, <3>1, Sizes
  <2>5. Mul(buy, order.sell) # Nothing /\ Mul(sell, order.buy) # Nothing
    BY <2>2, <2>4 DEF Mul, Checked, Nothing
  <2>6. IF order.isSell THEN sell \in 1 .. order.sell ELSE buy \in 1 .. order.buy /\ sell # 0
    BY <1>7, <1>8, <2>2
  <2> HIDE DEF r
  <2>7. QED
    BY <1>7, <1>8, <1>9, <2>1, <2>3, <2>5, <2>6 DEF InEnvelope
<1>11. QED
  BY <1>4, <1>9, <1>10 DEF Stands, q

\* A sub-solver's quote is one its pool can honour and the service accepts.
THEOREM QuotesHold == Spec => []QuoteStands
<1> DEFINE AllStand == \A p \in Proposals : row[p].quoted => Stands(order, pool, row[p])
<1>1. Init => AllStand
  BY DEF Init, Unborn
<1>2. Sound /\ AllStand /\ [Next]_vars => AllStand'
  <2> SUFFICES ASSUME Sound, AllStand, [Next]_vars, NEW p \in Proposals, row'[p].quoted
               PROVE  Stands(order', pool', row'[p])
    OBVIOUS
  <2>1. order' = order /\ pool' = pool
    BY DEF Next, Quote, Post, Validate, Revalidate, Solve, Settle, Lose, vars
  <2>2. CASE /\ row'[p].sell = row[p].sell /\ row'[p].buy = row[p].buy
             /\ row'[p].quoted = row[p].quoted
    <3>1. Stands(order, pool, row[p])
      BY <2>2
    <3>2. InEnvelope(OrderRecord(order), row'[p]) <=> InEnvelope(OrderRecord(order), row[p])
      BY <2>2, SameAmounts
    <3>3. QED
      BY <2>1, <2>2, <3>1, <3>2 DEF Stands
  <2>3. CASE Quote(p)
    BY <2>1, <2>3, QuoteMeets DEF Sound
  <2>4. QED
    BY <2>2, <2>3, RowsTyped DEF RowStep
<1>3. AllStand => QuoteStands
  BY DEF QuoteStands, Stands
<1>4. QED
  BY <1>1, <1>2, <1>3, SoundAlways, PTL DEF Spec

----------------------------------------------------------------------------
(* The best proposal in reach is bid. *)

\* A nonempty set of scores has a largest: words are bounded.
LEMMA LargestWord ==
  ASSUME NEW S \in SUBSET Word, S # {}
  PROVE  \E most \in S : \A x \in S : x <= most
<1> DEFINE gaps == {MaxWord - x : x \in S}
<1>1. gaps \subseteq Nat /\ gaps # {}
  <2>1. \A x \in S : MaxWord - x \in Nat
    BY Sizes DEF Word
  <2>2. QED
    BY <2>1
<1> HIDE DEF gaps
<1>2. PICK gap \in gaps : \A other \in gaps : ~ (<<other, gap>> \in OpToRel(<, Nat))
  <2> DEFINE less == OpToRel(<, Nat)
  <2>1. IsWellFoundedOn(less, Nat)
    BY NatLessThanWellFounded, Zenon
  <2> HIDE DEF less
  <2>2. \E gap \in gaps : \A other \in gaps : ~ (<<other, gap>> \in less)
    BY <1>1, <2>1, WFMin, Zenon
  <2>3. QED
    BY <2>2, Zenon DEF less
<1>3. ASSUME NEW other \in gaps
      PROVE  gap <= other
  <2>1. other \in Nat /\ gap \in Nat
    BY <1>1
  <2>2. ~ other < gap
    BY <1>2, <2>1, Zenon DEF OpToRel
  <2>3. QED
    BY <2>1, <2>2
<1>4. PICK most \in S : gap = MaxWord - most
  BY DEF gaps
<1>5. \A x \in S : x <= most
  <2> SUFFICES ASSUME NEW x \in S
               PROVE  x <= most
    OBVIOUS
  <2>1. gap <= MaxWord - x
    BY <1>3 DEF gaps
  <2>2. QED
    BY <1>4, <2>1, Sizes DEF Word
<1>6. QED
  BY <1>5

\* What InReach computes of amounts q in auction a, in exact numbers.
Sells(a, q) == IF a.partial THEN q.sell ELSE a.sell
Buys(a, q)  == IF a.partial THEN q.buy ELSE a.buy
Least(a, q) == (a.buy * Sells(a, q) + a.sell - 1) \div a.sell
Most(a, q)  == (a.sell * Buys(a, q)) \div a.buy
Room(a, q)  == IF a.isSell THEN q.buy - Least(a, q) ELSE Most(a, q) - q.sell
Bill(a, q)  == EffectiveGas(q.gas) * a.gasPrice
Net(a, q)   == ((Room(a, q) * a.surplusPrice) \div Ether) - Bill(a, q)
LeastCut(a, q) == (Bill(a, q) * Ether + a.sellPrice - 1) \div a.sellPrice

LEMMA Reach ==
  ASSUME NEW a, NEW p
  PROVE  LET q == row[p]
         IN /\ InReach(a, p).net = Net(a, q)
            /\ InReach(a, p).holds =>
                 /\ Room(a, q) > 0 /\ Net(a, q) > 0
                 /\ {Bill(a, q) * Ether, q.sell + LeastCut(a, q), Room(a, q) * a.surplusPrice,
                     a.sell * q.buy, a.buy * q.sell, q.buy * q.sell} \subseteq Word
                 /\ IF a.isSell
                    THEN (Sells(a, q) - LeastCut(a, q)) * q.buy >= Least(a, q) * q.sell
                    ELSE (q.sell + LeastCut(a, q)) * a.buy <= a.sell * Buys(a, q)
  BY DEF InReach, Room, Net, Bill, LeastCut, Least, Most, Sells, Buys, Word

\* The limit that bounds a fill is exact whenever it is a word.
LEMMA ExactLimits ==
  ASSUME NEW a, NEW q, IsOrder(a), IsFill(q), Target(a) > 0
  PROVE  /\ a.isSell => /\ SellLimit(a, q) = Sells(a, q)
                        /\ BuyLimit(a, q) \in Word => BuyLimit(a, q) = Least(a, q)
                        /\ a.buy * q.sell \in Word => BuyLimit(a, q) \in Word
         /\ ~ a.isSell => /\ BuyLimit(a, q) = Buys(a, q)
                          /\ SellLimit(a, q) \in Word => SellLimit(a, q) = Most(a, q)
                          /\ a.sell * q.buy \in Word => SellLimit(a, q) \in Word
<1>1. /\ {a.sell, a.buy, q.sell, q.buy} \subseteq Word
      /\ a.isSell \in BOOLEAN /\ a.partial \in BOOLEAN
  BY DEF IsOrder, IsFill
<1>2. {a.sell, a.buy, q.sell, q.buy} \subseteq Nat /\ {a.sell, a.buy, q.sell, q.buy} \subseteq Maybe
  BY <1>1, NothingIsNoWord
<1>3. Mul(a.buy, q.sell) \in Maybe /\ Mul(a.sell, q.buy) \in Maybe
  BY <1>2, CheckedOps
<1>4. CASE a.isSell
  <2>1. a.sell \in Word \ {0} /\ a.sell \in Nat \ {0}
    BY <1>1, <1>2, <1>4 DEF Target
  <2>2. SellLimit(a, q) = Sells(a, q)
    BY <1>4 DEF SellLimit, Sells
  <2>3. CASE ~ a.partial
    BY <1>1, <1>2, <1>4, <2>1, <2>2, <2>3, ExactQuotients DEF BuyLimit, Least, Sells
  <2>4. CASE a.partial
    <3>1. BuyLimit(a, q) = DivCeil(Mul(a.buy, q.sell), a.sell)
      BY <1>4, <2>4 DEF BuyLimit
    <3>2. ASSUME BuyLimit(a, q) \in Word
          PROVE  BuyLimit(a, q) = Least(a, q)
      <4>1. BuyLimit(a, q) # Nothing
        BY <3>2, NothingIsNoWord
      <4>2. /\ Mul(a.buy, q.sell) \in Word
            /\ BuyLimit(a, q) = (Mul(a.buy, q.sell) + a.sell - 1) \div a.sell
        BY <1>2, <1>3, <3>1, <4>1, CheckedQuotients
      <4>3. Mul(a.buy, q.sell) = a.buy * q.sell
        BY <1>2, <4>2, CheckedOps, NothingIsNoWord
      <4>4. QED
        BY <2>4, <4>2, <4>3 DEF Least, Sells
    <3>3. ASSUME a.buy * q.sell \in Word
          PROVE  BuyLimit(a, q) \in Word
      <4>1. Mul(a.buy, q.sell) = a.buy * q.sell
        BY <1>1, <3>3, NothingIsNoWord DEF Mul, Checked, Word
      <4>2. Nothing \notin {Mul(a.buy, q.sell), a.sell} /\ Mul(a.buy, q.sell) \in Nat
        BY <1>1, <3>3, <4>1, NothingIsNoWord
      <4> DEFINE n == Mul(a.buy, q.sell)
      <4>3. BuyLimit(a, q) = (n + a.sell - 1) \div a.sell
        BY <2>1, <3>1, <4>2 DEF DivCeil
      <4>4. n \in Nat /\ n <= MaxWord
        BY <3>3, <4>1, <4>2 DEF Word
      <4> HIDE DEF n
      <4>5. BuyLimit(a, q) \in Nat /\ BuyLimit(a, q) <= n
        BY <2>1, <4>3, <4>4, CeilBounds
      <4>6. QED
        BY <4>4, <4>5, Sizes DEF Word
    <3>4. QED
      BY <1>4, <2>2, <3>2, <3>3
  <2>5. QED
    BY <1>1, <2>3, <2>4
<1>5. CASE ~ a.isSell
  <2>1. a.buy \in Word \ {0} /\ a.buy \in Nat \ {0}
    BY <1>1, <1>2, <1>5 DEF Target
  <2>2. BuyLimit(a, q) = Buys(a, q)
    BY <1>5 DEF BuyLimit, Buys
  <2>3. CASE ~ a.partial
    BY <1>1, <1>2, <1>5, <2>1, <2>2, <2>3, ExactQuotients DEF SellLimit, Most, Buys
  <2>4. CASE a.partial
    <3>1. SellLimit(a, q) = Div(Mul(a.sell, q.buy), a.buy)
      BY <1>5, <2>4 DEF SellLimit
    <3>2. ASSUME SellLimit(a, q) \in Word
          PROVE  SellLimit(a, q) = Most(a, q)
      <4>1. SellLimit(a, q) # Nothing
        BY <3>2, NothingIsNoWord
      <4>2. /\ Mul(a.sell, q.buy) \in Word
            /\ SellLimit(a, q) = Mul(a.sell, q.buy) \div a.buy
        BY <1>2, <1>3, <3>1, <4>1, CheckedQuotients
      <4>3. Mul(a.sell, q.buy) = a.sell * q.buy
        BY <1>2, <4>2, CheckedOps, NothingIsNoWord
      <4>4. QED
        BY <2>4, <4>2, <4>3 DEF Most, Buys
    <3>3. ASSUME a.sell * q.buy \in Word
          PROVE  SellLimit(a, q) \in Word
      <4>1. Mul(a.sell, q.buy) = a.sell * q.buy
        BY <1>1, <3>3, NothingIsNoWord DEF Mul, Checked, Word
      <4>2. Nothing \notin {Mul(a.sell, q.buy), a.buy} /\ Mul(a.sell, q.buy) \in Nat
        BY <1>1, <3>3, <4>1, NothingIsNoWord
      <4> DEFINE n == Mul(a.sell, q.buy)
      <4>3. SellLimit(a, q) = n \div a.buy
        BY <2>1, <3>1, <4>2 DEF Div
      <4>4. n \in Nat /\ n <= MaxWord
        BY <3>3, <4>1, <4>2 DEF Word
      <4> HIDE DEF n
      <4>5. SellLimit(a, q) \in Nat /\ SellLimit(a, q) <= n
        BY <2>1, <4>3, <4>4, DivBounds
      <4>6. QED
        BY <4>4, <4>5, Sizes DEF Word
    <3>4. QED
      BY <1>5, <2>2, <3>2, <3>3
  <2>5. QED
    BY <1>1, <2>3, <2>4
<1>6. QED
  BY <1>1, <1>4, <1>5

\* A proposal that scores nets its score.
LEMMA NetIsScore ==
  ASSUME NEW a, NEW q, IsOrder(a), IsFill(q), Target(a) > 0, q.gas \in Nat,
         a.gasPrice \in Word, a.surplusPrice \in Word,
         Score(a, q, GasCost(q.gas, a.gasPrice), a.surplusPrice) > 0
  PROVE  Score(a, q, GasCost(q.gas, a.gasPrice), a.surplusPrice) = Net(a, q)
<1> DEFINE bill == GasCost(q.gas, a.gasPrice)
<1>1. bill \in Word
  BY Bills
<1>2. /\ IF a.isSell THEN BuyLimit(a, q) \in Word ELSE SellLimit(a, q) \in Word
      /\ Score(a, q, bill, a.surplusPrice) = ((Spare(a, q) * a.surplusPrice) \div Ether) - bill
      /\ bill < MaxWord
  <2> HIDE DEF bill
  <2>1. Score(a, q, bill, a.surplusPrice) > 0
    BY DEF bill
  <2>2. QED
    BY <1>1, <2>1, ScoreSays
<1>3. bill = Bill(a, q)
  BY <1>2, Bills DEF Bill
<1>4. Spare(a, q) = Room(a, q)
  BY <1>2, ExactLimits DEF Spare, Room, IsOrder
<1>5. QED
  BY <1>2, <1>3, <1>4 DEF Net

\* The gas bill of a fill in reach is a word, and it scores.
LEMMA ReachScores ==
  ASSUME NEW a, NEW q, IsOrder(a), IsFill(q), Target(a) > 0, q.gas \in Nat,
         a.gasPrice \in Word, a.surplusPrice \in Word,
         Room(a, q) > 0, Net(a, q) > 0,
         {Bill(a, q) * Ether, Room(a, q) * a.surplusPrice,
          a.sell * q.buy, a.buy * q.sell} \subseteq Word
  PROVE  /\ GasCost(q.gas, a.gasPrice) = Bill(a, q) /\ Bill(a, q) \in Word
         /\ IF a.isSell THEN BuyLimit(a, q) = Least(a, q) /\ Least(a, q) \in Word
                        ELSE SellLimit(a, q) = Most(a, q) /\ Most(a, q) \in Word
         /\ Score(a, q, GasCost(q.gas, a.gasPrice), a.surplusPrice) > 0
<1> DEFINE bill  == Bill(a, q)
           room  == Room(a, q)
           value == room * a.surplusPrice
           net   == Net(a, q)
<1>1. bill \in Word /\ GasCost(q.gas, a.gasPrice) = bill
  <2>1. EffectiveGas(q.gas) \in Nat /\ a.gasPrice \in Nat
    <3>1. EffectiveGas(q.gas) \in 0 .. MaxGas
      BY Bills
    <3>2. QED
      BY <3>1, NothingIsNoWord
  <2>2. bill \in Nat
    BY <2>1, Commutes DEF Bill
  <2>3. bill * Ether \in Word
    OBVIOUS
  <2> HIDE DEF bill
  <2>4. bill <= bill * Ether
    <3>1. 1 * bill <= Ether * bill
      BY <2>2, Sizes, Grows DEF Word
    <3>2. QED
      BY <2>2, <3>1, Sizes DEF Word
  <2>5. bill \in Word
    BY <2>2, <2>3, <2>4, Sizes DEF Word
  <2>6. QED
    BY <2>5, Bills DEF Bill, bill
<1>2. IF a.isSell THEN BuyLimit(a, q) = Least(a, q) /\ Least(a, q) \in Word
                  ELSE SellLimit(a, q) = Most(a, q) /\ Most(a, q) \in Word
  BY ExactLimits DEF IsOrder
<1>3. Surplus(a, q) = room /\ room \in Word
  <2>1. q.buy \in Word /\ q.sell \in Word /\ room > 0
    BY DEF IsFill
  <2>2. CASE a.isSell
    <3>1. room = q.buy - BuyLimit(a, q) /\ Surplus(a, q) = Sub(q.buy, BuyLimit(a, q))
      BY <1>2, <2>2 DEF Room, Surplus
    <3>2. BuyLimit(a, q) \in Word
      BY <1>2, <2>2
    <3> HIDE DEF room
    <3>3. QED
      BY <2>1, <3>1, <3>2, Sizes DEF Sub, Checked, Word, Nothing
  <2>3. CASE ~ a.isSell
    <3>1. room = SellLimit(a, q) - q.sell /\ Surplus(a, q) = Sub(SellLimit(a, q), q.sell)
      BY <1>2, <2>3 DEF Room, Surplus
    <3>2. SellLimit(a, q) \in Word
      BY <1>2, <2>3
    <3> HIDE DEF room
    <3>3. QED
      BY <2>1, <3>1, <3>2, Sizes DEF Sub, Checked, Word, Nothing
  <2>4. QED
    BY <2>2, <2>3
<1>4. Mul(Surplus(a, q), a.surplusPrice) = value /\ value \in Word
  <2>1. value \in Word
    OBVIOUS
  <2> HIDE DEF room
  <2>2. QED
    BY <1>3, <2>1, NothingIsNoWord DEF Mul, Checked, Word
<1>5. net = (value \div Ether) - bill
  BY DEF Net
<1>6. net > 0
  OBVIOUS
<1> HIDE DEF bill, room, value, net
<1>7. value \in Nat /\ Ether \in Nat \ {0} /\ bill \in Nat
  BY <1>1, <1>4, Sizes DEF Word
<1>8. value \div Ether \in Nat /\ value \div Ether <= value
  BY <1>7, DivBounds
<1>9. Div(value, Ether) = value \div Ether
  BY <1>4, <1>7, NothingIsNoWord, Sizes DEF Div
<1>10. Score(a, q, bill, a.surplusPrice) = Sub(value \div Ether, bill)
  BY <1>4, <1>9 DEF Score
<1> DEFINE worth == value \div Ether
<1>11. worth \in Nat /\ worth <= MaxWord /\ worth - bill > 0
  <2>1. worth \in Nat /\ worth <= value /\ worth - bill > 0
    BY <1>5, <1>6, <1>8
  <2> HIDE DEF worth
  <2>2. value <= MaxWord
    BY <1>4 DEF Word
  <2>3. QED
    BY <1>7, <2>1, <2>2, Sizes
<1> HIDE DEF worth
<1>12. Sub(worth, bill) = worth - bill
  BY <1>7, <1>11, Sizes DEF Sub, Checked, Nothing
<1>13. QED
  BY <1>1, <1>2, <1>10, <1>11, <1>12 DEF bill, worth

\* A fill in reach keeps its limit after the cut: it can be sized.
LEMMA ReachSized ==
  ASSUME NEW a, NEW q, IsOrder(a), IsFill(q), Target(a) > 0,
         a.isSell => q.sell > 0,
         a.sellPrice \in Word, a.sellPrice > 0,
         Bill(a, q) \in Word, Room(a, q) > 0,
         {Bill(a, q) * Ether, q.sell + LeastCut(a, q),
          a.sell * q.buy, q.buy * q.sell} \subseteq Word,
         IF a.isSell THEN BuyLimit(a, q) = Least(a, q) /\ Least(a, q) \in Word
                     ELSE SellLimit(a, q) = Most(a, q) /\ Most(a, q) \in Word,
         IF a.isSell THEN (Sells(a, q) - LeastCut(a, q)) * q.buy >= Least(a, q) * q.sell
                     ELSE (q.sell + LeastCut(a, q)) * a.buy <= a.sell * Buys(a, q)
  PROVE  /\ Cut(Bill(a, q), a.sellPrice) = LeastCut(a, q) /\ LeastCut(a, q) # Nothing
         /\ Executed(a, q, LeastCut(a, q)) # Nothing
<1> DEFINE cut   == LeastCut(a, q)
           least == Least(a, q)
           most  == Most(a, q)
           sells == Sells(a, q)
           buys  == Buys(a, q)
<1>1. Cut(Bill(a, q), a.sellPrice) = cut /\ cut \in Word
  BY Cuts DEF LeastCut
<1>2. /\ {a.sell, a.buy, q.sell, q.buy, sells, buys, cut} \subseteq Word
      /\ a.isSell \in BOOLEAN
  BY <1>1 DEF IsOrder, IsFill, Sells, Buys
<1>3. {a.sell, a.buy, q.sell, q.buy, sells, buys, cut} \subseteq Nat
  BY <1>2, NothingIsNoWord
<1>4. /\ SellLimit(a, q) = (IF a.isSell THEN sells ELSE most)
      /\ BuyLimit(a, q) = (IF a.isSell THEN least ELSE buys)
  BY <1>2, ExactLimits
<1>5. /\ a.isSell => (sells - cut) * q.buy >= least * q.sell /\ least \in Word /\ q.buy - least > 0
      /\ ~ a.isSell => (q.sell + cut) * a.buy <= a.sell * buys
      /\ {q.sell + cut, a.sell * q.buy, q.buy * q.sell} \subseteq Word
  BY DEF Room
<1>6. sells \in {a.sell, q.sell}
  BY DEF Sells
<1>7. Target(a) > 0
  OBVIOUS
<1>8. most = (a.sell * buys) \div a.buy
  BY DEF Most
<1> HIDE DEF cut, least, most, sells, buys
<1>9. CASE a.isSell
  <2> DEFINE executed == sells - cut
  <2>1. least \in Nat /\ q.buy \in Nat \ {0} /\ q.sell \in Nat \ {0}
    BY <1>3, <1>5, <1>9 DEF Word
  <2>2. executed \in Nat /\ executed <= sells
    <3>1. executed \in Int /\ executed <= sells
      BY <1>3
    <3>2. executed * q.buy >= least * q.sell
      BY <1>5, <1>9
    <3> HIDE DEF executed
    <3>3. least * q.sell \in Nat /\ executed * q.buy \in Int /\ 0 * q.buy = 0
      BY <2>1, <3>1, Commutes
    <3>4. 0 * q.buy <= executed * q.buy
      BY <3>2, <3>3
    <3>5. 0 <= executed
      BY <2>1, <3>1, <3>4, Shrinks
    <3>6. QED
      BY <3>1, <3>5
  <2>3. executed \in Word
    <3> HIDE DEF executed
    <3>1. sells <= MaxWord
      BY <1>2 DEF Word
    <3>2. QED
      BY <1>3, <2>2, <3>1, Sizes DEF Word
  <2>4. Sub(SellLimit(a, q), cut) = executed
    BY <1>2, <1>4, <1>9, <2>3, NothingIsNoWord DEF Sub, Checked, Word
  <2>5. least * q.sell <= q.buy * executed
    <3> HIDE DEF executed
    <3>1. executed * q.buy = q.buy * executed
      BY <2>1, <2>2, Commutes
    <3>2. executed * q.buy >= least * q.sell
      BY <1>5, <1>9 DEF executed
    <3>3. QED
      BY <3>1, <3>2
  <2> HIDE DEF executed
  <2>6. q.buy * executed \in Word
    <3>1. executed * q.buy <= sells * q.buy
      BY <1>3, <2>1, <2>2, Grows
    <3>2. sells * q.buy \in Word
      <4>1. q.sell * q.buy = q.buy * q.sell
        BY <1>3, Commutes
      <4>2. QED
        BY <1>5, <1>6, <4>1
    <3>3. executed * q.buy = q.buy * executed /\ q.buy * executed \in Nat
      BY <2>1, <2>2
    <3>4. QED
      BY <3>1, <3>2, <3>3, Sizes DEF Word
  <2> DEFINE value == q.buy * executed
  <2>7. Mul(q.buy, executed) = value
    BY <1>2, <2>3, <2>6, NothingIsNoWord DEF Mul, Checked, Word
  <2>8. value \in Word /\ value \in Nat
    BY <2>6, NothingIsNoWord
  <2>9. least * q.sell <= value
    BY <2>5
  <2> HIDE DEF value
  <2>10. least <= value \div q.sell
    BY <2>1, <2>8, <2>9, WithinFloor
  <2>11. Div(value, q.sell) = value \div q.sell
    BY <1>2, <2>1, <2>8, NothingIsNoWord DEF Div
  <2>12. value \div q.sell \in Nat
    BY <2>1, <2>8, DivBounds
  <2>13. Div(Mul(q.buy, executed), q.sell) # Nothing
         /\ Div(Mul(q.buy, executed), q.sell) >= BuyLimit(a, q)
    BY <1>4, <1>9, <2>7, <2>10, <2>11, <2>12 DEF Nothing
  <2>14. Executed(a, q, cut) = executed
    BY <1>9, <2>4, <2>13 DEF Executed
  <2>15. QED
    BY <1>1, <2>3, <2>14, NothingIsNoWord DEF cut
<1>10. CASE ~ a.isSell
  <2>1. a.buy \in Nat \ {0} /\ q.sell + cut \in Nat
    BY <1>3, <1>7, <1>10 DEF Target
  <2> DEFINE value == a.sell * buys
  <2>2. value \in Nat /\ (q.sell + cut) * a.buy <= value
    BY <1>3, <1>5, <1>10
  <2> HIDE DEF value
  <2>3. q.sell + cut <= value \div a.buy /\ value \div a.buy \in Nat
    BY <2>1, <2>2, WithinFloor, DivBounds
  <2>4. q.sell + cut \in 0 .. most
    BY <1>8, <2>1, <2>3 DEF value
  <2>5. Add(q.sell, cut) = q.sell + cut
    BY <1>2, <1>5, NothingIsNoWord DEF Add, Checked, Word
  <2>6. Executed(a, q, cut) = buys
    BY <1>4, <1>10, <2>4, <2>5 DEF Executed
  <2>7. QED
    BY <1>1, <1>2, <2>6, NothingIsNoWord DEF cut
<1>11. QED
  BY <1>2, <1>9, <1>10

\* Something of the order is left to an auction.
LEMMA Remains ==
  ASSUME Sound, NEW a, Offers(a, order, filled)
  PROVE  Target(a) > 0
<1>1. filled \in 0 .. Target(order) /\ order.sell \in 1 .. MaxWord /\ order.buy \in 1 .. MaxWord
  BY BiddingAssumption DEF Sound, BiddingTypeOK
<1>2. Target(order) \in Nat /\ filled \in Nat
  BY <1>1, Sizes DEF Target
<1>3. QED
  BY <1>2 DEF Offers

\* A proposal that scores in an auction nets its score there.
LEMMA CandidateNets ==
  ASSUME Sound, NEW a \in Auction, Offers(a, order, filled),
         NEW p \in Proposals, ScoreIn(a, p) > 0
  PROVE  InReach(a, p).net = ScoreIn(a, p)
<1>1. /\ IsOrder(a) /\ a.gasPrice \in Word /\ a.surplusPrice \in Word
  BY AuctionWords
<1>2. row[p] \in Row
  BY DEF Sound, BiddingTypeOK
<1>3. IsFill(row[p]) /\ row[p].gas \in Nat
  BY <1>2, Sizes DEF Row, IsFill, Word
<1>4. Target(a) > 0
  BY Remains
<1>5. ScoreIn(a, p) = Net(a, row[p])
  BY <1>1, <1>3, <1>4, NetIsScore DEF ScoreIn
<1>6. QED
  BY <1>5, Reach

\* A proposal in reach is a candidate.
LEMMA ReachIsCandidate ==
  ASSUME Sound, NEW a \in Auction, Offers(a, order, filled), NEW p \in Proposals,
         row[p].at = "active", Fits(a, row[p]), a.sellPrice > 0, InReach(a, p).holds
  PROVE  p \in Candidates(a)
<1> DEFINE q == row[p]
<1>1. /\ IsOrder(a) /\ a.gasPrice \in Word /\ a.surplusPrice \in Word /\ a.sellPrice \in Word
  BY AuctionWords
<1>2. row[p] \in Row
  BY DEF Sound, BiddingTypeOK
<1>3. IsFill(q) /\ q.gas \in Nat
  BY <1>2, Sizes DEF Row, IsFill, Word
<1>4. Target(a) > 0 /\ a.isSell = order.isSell
  BY Remains DEF Offers
<1>5. a.isSell => q.sell > 0
  <2>1. InEnvelope(OrderRecord(order), q) /\ order \in OrderChoices
    BY DEF Sound, ActiveFit, BiddingTypeOK
  <2>2. order.isSell => q.sell \in 1 .. order.sell /\ order.sell \in 1 .. MaxWord
    BY <1>3, <2>1, EnvelopeSays
  <2>3. QED
    BY <1>4, <2>2
<1>6. /\ Room(a, q) > 0 /\ Net(a, q) > 0
      /\ {Bill(a, q) * Ether, q.sell + LeastCut(a, q), Room(a, q) * a.surplusPrice,
          a.sell * q.buy, a.buy * q.sell, q.buy * q.sell} \subseteq Word
      /\ IF a.isSell
         THEN (Sells(a, q) - LeastCut(a, q)) * q.buy >= Least(a, q) * q.sell
         ELSE (q.sell + LeastCut(a, q)) * a.buy <= a.sell * Buys(a, q)
  BY Reach
<1> HIDE DEF q
<1>7. /\ GasCost(q.gas, a.gasPrice) = Bill(a, q) /\ Bill(a, q) \in Word
      /\ IF a.isSell THEN BuyLimit(a, q) = Least(a, q) /\ Least(a, q) \in Word
                     ELSE SellLimit(a, q) = Most(a, q) /\ Most(a, q) \in Word
      /\ Score(a, q, GasCost(q.gas, a.gasPrice), a.surplusPrice) > 0
  BY <1>1, <1>3, <1>4, <1>6, ReachScores
<1>8. /\ Cut(Bill(a, q), a.sellPrice) = LeastCut(a, q) /\ LeastCut(a, q) # Nothing
      /\ Executed(a, q, LeastCut(a, q)) # Nothing
  BY <1>1, <1>3, <1>4, <1>5, <1>6, <1>7, ReachSized
<1>9. ScoreIn(a, p) > 0
  BY <1>7 DEF ScoreIn, q
<1>10. BidFor(a, p).executed # Nothing
  BY <1>7, <1>8 DEF BidFor, q
<1>11. QED
  BY <1>9, <1>10 DEF Candidates

\* A nonempty set of candidates has a best one, and there is a bid for it.
LEMMA BestCandidate ==
  ASSUME Sound, NEW a \in Auction, NEW p \in Candidates(a)
  PROVE  {b \in Bids(a) : b.executed # Nothing} # {}
<1> DEFINE scores == {ScoreIn(a, q) : q \in Candidates(a)}
<1>1. \A q \in Candidates(a) : ScoreIn(a, q) \in Word
  BY BidForSized DEF Sound
<1>2. scores \subseteq Word /\ scores # {}
  BY <1>1
<1>3. \E most \in scores : \A x \in scores : x <= most
  <2> HIDE DEF scores
  <2>1. QED
    BY <1>2, LargestWord
<1>4. PICK q \in Candidates(a) : \A r \in Candidates(a) : ScoreIn(a, r) <= ScoreIn(a, q)
  BY <1>3
<1>5. \A r \in Candidates(a) : ScoreIn(a, q) >= ScoreIn(a, r)
  BY <1>1, <1>4, NothingIsNoWord
<1>6. BidFor(a, q) \in Bids(a)
  BY <1>5 DEF Bids
<1>7. BidFor(a, q).executed # Nothing
  BY DEF Candidates
<1>8. QED
  BY <1>6, <1>7

\* /solve bids the best proposal in reach.
LEMMA SolveBidsBest ==
  ASSUME Sound, NEW gasPrice \in GasPrices, NEW sellPrice \in TokenPrices,
         NEW buyPrice \in TokenPrices, Solve(gasPrice, sellPrice, buyPrice),
         NEW p \in Proposals, row[p].at = "active", Fits(auction', row[p]),
         auction'.sellPrice > 0, InReach(auction', p).holds
  PROVE  \E q \in bid'.of : InReach(auction', q).net >= InReach(auction', p).net
<1>1. /\ auction' \in Auction /\ Offers(auction', order, filled)
      /\ \/ bid' = NoBid /\ {b \in Bids(auction') : b.executed # Nothing} = {}
         \/ \E q \in Candidates(auction') :
              /\ bid' = BidFor(auction', q)
              /\ \A r \in Candidates(auction') : ScoreIn(auction', q) >= ScoreIn(auction', r)
  BY Solved
<1>2. p \in Candidates(auction')
  BY <1>1, ReachIsCandidate
<1>3. {b \in Bids(auction') : b.executed # Nothing} # {}
  BY <1>1, <1>2, BestCandidate
<1>4. PICK q \in Candidates(auction') :
        /\ bid' = BidFor(auction', q)
        /\ \A r \in Candidates(auction') : ScoreIn(auction', q) >= ScoreIn(auction', r)
  BY <1>1, <1>3
<1>5. q \in bid'.of
  BY <1>4 DEF BidFor
<1>6. /\ InReach(auction', q).net = ScoreIn(auction', q)
      /\ InReach(auction', p).net = ScoreIn(auction', p)
  BY <1>1, <1>2, CandidateNets DEF Candidates
<1>7. QED
  BY <1>2, <1>4, <1>5, <1>6

\* The best proposal in reach is bid: /solve leaves none for one that nets less.
THEOREM BestIsBid == Spec => BestBid
<1>1. Sound /\ [Next]_vars =>
        [~ auction.open /\ auction'.open =>
           \A p \in Proposals :
             row[p].at = "active" /\ Fits(auction', row[p]) /\ auction'.sellPrice > 0
               /\ InReach(auction', p).holds
             => \E q \in bid'.of : InReach(auction', q).net >= InReach(auction', p).net]_vars
  <2> SUFFICES ASSUME Sound, [Next]_vars, ~ auction.open, auction'.open,
                      NEW p \in Proposals, row[p].at = "active", Fits(auction', row[p]),
                      auction'.sellPrice > 0, InReach(auction', p).holds
               PROVE  \E q \in bid'.of : InReach(auction', q).net >= InReach(auction', p).net
    OBVIOUS
  <2>1. PICK gasPrice \in GasPrices, sellPrice \in TokenPrices, buyPrice \in TokenPrices :
          Solve(gasPrice, sellPrice, buyPrice)
    <3>1. ~ UNCHANGED auction /\ auction' # Closed
      BY DEF Closed
    <3>2. \A q \in Proposals :
            /\ ~ Quote(q)
            /\ \A sell, buy \in Amounts : ~ Post(q, sell, buy)
            /\ \A gas \in Gases, gasPrice \in GasPrices, price \in TokenPrices :
                 ~ Validate(q, gas, gasPrice, price)
            /\ \A gas \in Gases : ~ Revalidate(q, gas)
      BY <3>1, Zenon DEF Quote, Post, Validate, Revalidate
    <3>3. ~ Settle /\ \A fill \in 0 .. Target(order) : ~ Lose(fill)
      BY <3>1, Zenon DEF Settle, Lose
    <3>4. Next
      BY <3>1 DEF vars
    <3>5. QED
      BY <3>2, <3>3, <3>4, Zenon DEF Next
  <2>2. QED
    BY <2>1, SolveBidsBest
<1>2. QED
  BY <1>1, SoundAlways, PTL DEF Spec, BestBid
=============================================================================
