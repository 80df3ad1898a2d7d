----------------------------- MODULE QuoteProofs -----------------------------
(***************************************************************************)
(* What a draft asks of the exchange, for every book, request and scale;   *)
(* then Fees, the bound of what a BUY is charged, OpenOrders, the row      *)
(* taken for an order whose answer was lost, and Claims, what a batch is   *)
(* said to move and who may move it.                                       *)
(***************************************************************************)
EXTENDS MCAmounts, FiniteSetTheorems, SequenceTheorems, WellFoundedInduction, TLAPS

(* A number is its quotient and its remainder.                             *)
LEMMA DivMod ==
  ASSUME NEW x \in Nat, NEW k \in Nat, k > 0
  PROVE  /\ x \div k \in Nat /\ (x % k) \in Nat
         /\ (x % k) < k /\ x = k * (x \div k) + (x % k)
         /\ k * (x \div k) \in Nat /\ k * (x \div k) <= x
  <1>1. x = k * (x \div k) + (x % k)
    OBVIOUS
  <1>2. (x % k) \in Nat /\ (x % k) < k
    OBVIOUS
  <1>3. x \div k \in Nat
    OBVIOUS
  <1>4. k * (x \div k) \in Nat
    BY <1>3
  <1> QED BY <1>1, <1>2, <1>3, <1>4

LEMMA Times ==
  ASSUME NEW x \in Nat, NEW y \in Nat, NEW k \in Nat
  PROVE  /\ k * x \in Nat
         /\ y <= x => k * y <= k * x
  OBVIOUS

LEMMA Multiple ==
  ASSUME NEW x \in Nat, NEW k \in Nat, k > 0, x % k = 0
  PROVE  \E a \in Nat : x = k * a
  <1>1. x = k * (x \div k) + (x % k) /\ x \div k \in Nat
    BY DivMod
  <1>2. PICK q \in Nat : q = x \div k
    BY <1>1, Zenon
  <1>3. x = k * q + 0 /\ k * q \in Nat
    BY <1>1, <1>2, Times, Zenon
  <1> QED BY <1>3

(* Exact division.                                                         *)
LEMMA Exact ==
  ASSUME NEW x \in Nat, NEW k \in Nat, k > 0
  PROVE  (k * x) \div k = x /\ (k * x) % k = 0
  OBVIOUS

LEMMA Cancel ==
  ASSUME NEW x \in Nat, NEW y \in Nat, NEW k \in Nat, k > 0
  PROVE  /\ k * y <= k * x => y <= x
         /\ k * y < k * x => y < x
         /\ k * y = k * x => y = x
  OBVIOUS

-----------------------------------------------------------------------------
(* Scales: ticks, lots and units are powers of ten.                        *)

Pow(n) == 10^n

LEMMA Powers ==
  ASSUME Places \in Nat, NEW m \in 0..Places, NEW n \in 0..Places
  PROVE  Pow(m) \in Nat /\ Pow(m) > 0 /\ Pow(m + n) = Pow(m) * Pow(n)
  <1>1. Pow(m) \in Nat \ {0} /\ Pow(m + n) = Pow(m) * Pow(n)
    BY PowersOfTen, Zenon DEF Pow
  <1> QED BY <1>1

(* A supported tick divides MICRO, a lot is as many units of its USD leg.  *)
LEMMA Scales ==
  ASSUME NEW tick, TickDecimals(tick) # {}
  PROVE  \E D \in Nat :
           /\ D > 0 /\ tick \in Nat /\ tick > 0 /\ MICRO = D * tick
           /\ Unit(tick) \in Nat /\ Unit(tick) > 0 /\ LOT_UNIT = Unit(tick) * D
  <1> DEFINE d == CHOOSE d \in TickDecimals(tick) : TRUE
  <1>1. d \in TickDecimals(tick)
    OBVIOUS
  <1>2. d \in TickScales /\ tick = Pow(Places - d)
    BY <1>1, Zenon DEF TickDecimals, Pow
  <1>3. /\ Places \in Nat /\ LotScale \in 0..Places /\ d \in 1..Places /\ LotScale + d <= Places
    BY <1>2, QuoteAssumption, ScaleAssumption
  <1>4. MICRO = Pow(Places) /\ LOT_UNIT = Pow(Places - LotScale)
    BY Zenon DEF MICRO, LOT_UNIT, Pow
  <1>5. Unit(tick) = IF LotScale + d >= Places THEN 1 ELSE Pow(Places - (LotScale + d))
    BY Zenon DEF Unit, Pow
  <1> HIDE DEF d
  <1>6. Pow(d) \in Nat /\ Pow(d) > 0 /\ tick \in Nat /\ tick > 0
    <2>1. d \in 0..Places /\ Places - d \in 0..Places
      BY <1>3
    <2> QED BY <1>2, <1>3, <2>1, Powers
  <1>7. MICRO = Pow(d) * tick
    <2>1. d \in 0..Places /\ Places - d \in 0..Places /\ d + (Places - d) = Places
      BY <1>3
    <2>2. Pow(d + (Places - d)) = Pow(d) * Pow(Places - d)
      BY <1>3, <2>1, Powers
    <2> QED BY <1>2, <1>4, <2>1, <2>2
  <1>8. Unit(tick) \in Nat /\ Unit(tick) > 0 /\ LOT_UNIT = Unit(tick) * Pow(d)
    <2>1. CASE LotScale + d >= Places
      <3>1. LotScale + d = Places /\ Places - LotScale = d
        BY <1>3, <2>1
      <3> QED BY <1>4, <1>5, <1>6, <2>1, <3>1
    <2>2. CASE ~(LotScale + d >= Places)
      <3> DEFINE e == Places - (LotScale + d)
      <3>1. e \in 0..Places /\ d \in 0..Places /\ e + d = Places - LotScale
        BY <1>3
      <3> HIDE DEF e
      <3>2. Pow(e) \in Nat /\ Pow(e) > 0 /\ Pow(e + d) = Pow(e) * Pow(d)
        BY <1>3, <3>1, Powers
      <3>3. Unit(tick) = Pow(e)
        BY <1>5, <2>2 DEF e
      <3> QED BY <1>4, <3>1, <3>2, <3>3
    <2> QED BY <2>1, <2>2
  <1> QED BY <1>6, <1>7, <1>8

-----------------------------------------------------------------------------
(* The two legs of an order.                                               *)

(* A product of a whole number of lots and a price on the grid is a whole  *)
(* number of units: nothing is rounded.                                    *)
LEMMA ExactLeg ==
  ASSUME NEW size \in Nat, NEW price \in Nat, NEW tick,
         ValidPrice(price, tick), size % LOT_UNIT = 0
  PROVE  /\ UsdLeg(size, price, tick) \in Nat
         /\ UsdLeg(size, price, tick) * MICRO = size * price
  <1>1. PICK D \in Nat :
           /\ D > 0 /\ tick \in Nat /\ tick > 0 /\ MICRO = D * tick
           /\ Unit(tick) \in Nat /\ Unit(tick) > 0 /\ LOT_UNIT = Unit(tick) * D
    BY Scales DEF ValidPrice
  <1>2. PICK u \in Nat : u = Unit(tick)
    BY <1>1
  <1>3. PICK lot \in Nat : lot = LOT_UNIT /\ lot > 0
    BY <1>1, <1>2, Times, Z3
  <1>4. PICK M \in Nat : M = MICRO /\ M > 0
    BY <1>1, Times, Z3
  <1>5. PICK a \in Nat : size = lot * a
    BY <1>3, Multiple
  <1>6. PICK b \in Nat : price = tick * b
    BY <1>1, Multiple DEF ValidPrice
  <1>7. PICK c \in Nat : c = a * b
    BY Times
  <1>8. size * price = M * (u * c) /\ u * c \in Nat
    <2>1. M = D * tick /\ lot = u * D
      BY <1>1, <1>2, <1>3, <1>4
    <2>2. (u * D * a) * (tick * b) = (D * tick) * (u * (a * b))
      BY <1>1
    <2>3. u * c \in Nat
      BY Times
    <2> QED BY <1>5, <1>6, <1>7, <2>1, <2>2, <2>3
  <1>9. (size * price) \div MICRO = u * c /\ (u * c) % u = 0
    BY <1>1, <1>2, <1>4, <1>8, Exact
  <1>10. UsdLeg(size, price, tick) = u * c
    BY <1>2, <1>8, <1>9 DEF UsdLeg
  <1> QED BY <1>4, <1>8, <1>10

(* The grid of lots.                                                       *)
LEMMA WholeLots ==
  ASSUME NEW x \in Nat, LOT_UNIT \in Nat, LOT_UNIT > 0
  PROVE  /\ Lots(x) \in Nat /\ Lots(x) <= x /\ Lots(x) % LOT_UNIT = 0
         /\ Cents(x) = Lots(x)
  <1>1. PICK lot \in Nat : lot = LOT_UNIT /\ lot > 0
    OBVIOUS
  <1>2. PICK a \in Nat, r \in Nat : a = x \div lot /\ r = x % lot
    BY <1>1, DivMod
  <1>3. x = lot * a + r /\ lot * a \in Nat /\ lot * a <= x
    BY <1>1, <1>2, DivMod
  <1>4. Lots(x) = lot * a
    BY <1>1, <1>2, <1>3 DEF Lots
  <1>5. (lot * a) % lot = 0
    BY <1>1, Exact
  <1> QED BY <1>1, <1>3, <1>4, <1>5 DEF Lots, Cents

(* What a quote is made of.                                                *)
IsQuote(q) == q = [price |-> q.price, size |-> q.size, maker |-> q.maker,
                   taker |-> q.taker, tick |-> q.tick]

LEMMA QuotedIs ==
  ASSUME NEW price, NEW size, NEW maker, NEW taker, NEW tick,
         Quoted(price, size, maker, taker, tick) # None
  PROVE  LET q == Quoted(price, size, maker, taker, tick) IN
         /\ q.price = price /\ q.size = size /\ q.maker = maker /\ q.taker = taker /\ q.tick = tick
         /\ size > 0 /\ maker <= U64Max /\ taker <= U64Max
         /\ IsQuote(q)
  BY DEF Quoted, Fits, IsQuote

(* buy_from_spend: whole lots for the spend, at exactly the price.         *)
IsLimitBuy(q, spend, price, tick) ==
  /\ q.price = price /\ q.tick = tick /\ q.size = q.taker
  /\ q.size \in Nat /\ q.maker \in Nat /\ q.maker <= U64Max /\ q.taker <= U64Max
  /\ q.maker <= spend
  /\ q.maker * MICRO = q.taker * q.price
  /\ IsQuote(q)

LEMMA BuyIs ==
  ASSUME NEW spend \in Nat, NEW price \in Nat, NEW tick, ValidPrice(price, tick),
         BuyFromSpend(spend, price, tick) # None
  PROVE  IsLimitBuy(BuyFromSpend(spend, price, tick), spend, price, tick)
  <1> DEFINE x == (spend * MICRO) \div price
             maker == UsdLeg(Lots(x), price, tick)
  <1>1. PICK D \in Nat :
           /\ D > 0 /\ tick \in Nat /\ tick > 0 /\ MICRO = D * tick
           /\ Unit(tick) \in Nat /\ Unit(tick) > 0 /\ LOT_UNIT = Unit(tick) * D
    BY Scales DEF ValidPrice
  <1>2. MICRO \in Nat /\ MICRO > 0 /\ LOT_UNIT \in Nat /\ LOT_UNIT > 0 /\ price > 0
    <2>1. PICK u \in Nat : u = Unit(tick) /\ u > 0
      BY <1>1
    <2>2. D * tick \in Nat /\ D * tick > 0 /\ u * D \in Nat /\ u * D > 0
      BY <1>1, <2>1
    <2> QED BY <1>1, <2>1, <2>2 DEF ValidPrice
  <1>3. PICK M \in Nat : M = MICRO /\ M > 0
    BY <1>2
  <1>4. spend * M \in Nat
    BY Times
  <1>5. x \in Nat /\ price * x <= spend * M
    BY <1>2, <1>3, <1>4, DivMod
  <1> HIDE DEF x
  <1>6. PICK size \in Nat : size = Lots(x) /\ size <= x /\ size % LOT_UNIT = 0
    BY <1>2, <1>5, WholeLots
  <1>7. maker \in Nat /\ maker * MICRO = size * price
    BY <1>6, ExactLeg
  <1> HIDE DEF maker
  <1>8. maker <= spend
    <2>1. size * price <= price * x
      BY <1>5, <1>6
    <2>2. M * maker <= M * spend
      BY <1>3, <1>4, <1>5, <1>7, <2>1
    <2> QED BY <1>3, <1>7, <2>2, Cancel
  <1>9. BuyFromSpend(spend, price, tick) = Quoted(price, size, maker, size, tick)
    BY <1>6 DEF BuyFromSpend, x, maker
  <1> QED BY <1>6, <1>7, <1>8, <1>9, QuotedIs DEF IsLimitBuy

(* sell_from_shares: exactly the shares asked, at exactly the price.       *)
LEMMA SellIs ==
  ASSUME NEW size \in Nat, NEW price \in Nat, NEW tick, ValidPrice(price, tick),
         SellFromShares(size, price, tick) # None
  PROVE  LET q == SellFromShares(size, price, tick) IN
         /\ q.price = price /\ q.tick = tick /\ q.size = size /\ q.maker = size
         /\ q.taker \in Nat /\ q.maker <= U64Max /\ q.taker <= U64Max
         /\ q.taker * MICRO = q.maker * q.price
         /\ IsQuote(q)
  <1>1. size % LOT_UNIT = 0
    BY DEF SellFromShares
  <1>2. PICK taker \in Nat : taker = UsdLeg(size, price, tick) /\ taker * MICRO = size * price
    BY <1>1, ExactLeg
  <1>3. SellFromShares(size, price, tick) = Quoted(price, size, size, taker, tick)
    BY <1>1, <1>2 DEF SellFromShares
  <1> QED BY <1>2, <1>3, QuotedIs

(* The numbers of a market BUY: c lots of cents at a price of b ticks buy  *)
(* e units, e at least D since a tick is that part of MICRO.               *)
MarketNumbers(u, D, t, b, c, e, r, s, raw) ==
  /\ u > 0 /\ D > 0 /\ t > 0 /\ b > 0 /\ b + 1 <= D /\ c > 0
  /\ ((u * D) * c) * (D * t) = (t * b) * raw + s /\ s < t * b
  /\ raw = u * e + r /\ r < u

LEMMA EnoughUnits ==
  ASSUME NEW u \in Nat, NEW D \in Nat, NEW t \in Nat, NEW b \in Nat, NEW c \in Nat,
         NEW e \in Nat, NEW r \in Nat, NEW s \in Nat, NEW raw \in Nat,
         MarketNumbers(u, D, t, b, c, e, r, s, raw)
  PROVE  b <= e
  <1> USE DEF MarketNumbers
  <1>1. PICK k \in Nat : k = (u * D) * t
    BY Times
  <1>2. PICK n \in Nat : n = D * c /\ n >= b + 1
    <2>1. D * c >= D * 1 /\ D * c \in Nat
      BY Times
    <2> QED BY <2>1
  <1>3. ((u * D) * c) * (D * t) = k * n
    BY <1>1, <1>2
  <1>4. k * n >= k * (b + 1) /\ k * n \in Nat /\ k * b \in Nat /\ k * (b + 1) = k * b + k
    BY <1>2, Times
  <1>5. t * b <= k /\ t * b \in Nat /\ t * b > 0
    <2>1. t * b <= t * D
      BY Times
    <2>2. 1 * (t * D) <= u * (t * D) /\ t * D \in Nat
      BY Times
    <2>3. k = u * (t * D)
      BY <1>1
    <2>4. t * b \in Nat /\ t * b > 0
      BY Times
    <2> QED BY <2>1, <2>2, <2>3, <2>4
  <1>6. PICK price \in Nat : price = t * b /\ price > 0
    BY <1>5
  <1>7. PICK m \in Nat : m = u * D
    BY Times
  <1>8. k * b = price * m
    BY <1>1, <1>6, <1>7
  <1>9. price * raw \in Nat /\ price * m \in Nat
    BY Times
  <1>10. price * m < price * raw
    <2>1. price * raw + s = k * n
      BY <1>3, <1>6
    <2>2. s < k
      BY <1>5
    <2> QED BY <1>4, <1>8, <1>9, <2>1, <2>2
  <1>11. m < raw
    BY <1>6, <1>10, Cancel
  <1>12. u * D < u * (e + 1)
    <2>1. u * (e + 1) = u * e + u /\ u * e \in Nat
      BY Times
    <2> QED BY <1>7, <1>11, <2>1
  <1>13. D < e + 1
    BY <1>12, Cancel
  <1> QED BY <1>13

Dusty(price, raw, s, u, e, t) == price * raw + s < (u * e) * (price + t)

LEMMA Dust ==
  ASSUME NEW u \in Nat, NEW t \in Nat, NEW b \in Nat, NEW price \in Nat, NEW e \in Nat,
         NEW r \in Nat, NEW s \in Nat, NEW raw \in Nat,
         price = t * b, price > 0, s < price, raw = u * e + r, r < u, b <= e
  PROVE  Dusty(price, raw, s, u, e, t)
  <1>1. PICK n \in Nat : n = u * e
    BY Times
  <1>2. price * raw + s < price * (n + u)
    <2>1. raw + 1 <= n + u
      BY <1>1
    <2>2. price * (raw + 1) <= price * (n + u)
      BY <2>1, Times
    <2>3. price * (raw + 1) = price * raw + price /\ price * raw \in Nat /\ price * (n + u) \in Nat
      BY Times
    <2> QED BY <2>2, <2>3
  <1>3. u * price <= n * t
    <2>1. PICK k \in Nat : k = u * t
      BY Times
    <2>2. k * b <= k * e
      BY Times
    <2>3. u * price = k * b /\ n * t = k * e
      BY <1>1, <2>1
    <2> QED BY <2>2, <2>3
  <1>4. n * (price + t) = n * price + n * t /\ price * (n + u) = n * price + u * price
    OBVIOUS
  <1>5. n * price \in Nat /\ n * t \in Nat /\ u * price \in Nat /\ price * raw \in Nat
    BY Times
  <1>6. price * (n + u) <= n * (price + t)
    BY <1>3, <1>4, <1>5
  <1> QED BY <1>1, <1>2, <1>5, <1>6 DEF Dusty

LEMMA NotForNothing ==
  ASSUME NEW maker \in Nat, NEW M \in Nat, NEW price \in Nat, NEW raw \in Nat, NEW s \in Nat,
         NEW u \in Nat, NEW e \in Nat, NEW r \in Nat,
         price > 0, maker * M = price * raw + s, raw = u * e + r, u * e > 0
  PROVE  maker # 0
  <1>1. raw > 0 /\ price * raw > 0
    <2>1. u * e \in Nat
      BY Times
    <2>2. raw > 0
      BY <2>1
    <2> QED BY <2>2
  <1>2. maker = 0 => maker * M = 0
    OBVIOUS
  <1>3. price * raw + s > 0
    BY <1>1, Times
  <1> QED BY <1>2, <1>3

(* market_buy_from_spend: whole cents of the spend, for less than a tick   *)
(* above the price.                                                        *)
IsMarketBuy(q, spend, price, tick) ==
  /\ q.price = price /\ q.tick = tick /\ q.size = q.taker
  /\ q.size \in Nat /\ q.maker \in Nat /\ q.maker <= U64Max /\ q.taker <= U64Max
  /\ q.maker <= spend
  /\ q.maker * MICRO < q.taker * (q.price + q.tick)
  /\ IsQuote(q)

LEMMA MarketIs ==
  ASSUME NEW spend \in Nat, NEW price \in Nat, NEW tick, ValidPrice(price, tick),
         MarketBuyFromSpend(spend, price, tick) # None
  PROVE  IsMarketBuy(MarketBuyFromSpend(spend, price, tick), spend, price, tick)
  <1>1. PICK D \in Nat :
           /\ D > 0 /\ tick \in Nat /\ tick > 0 /\ MICRO = D * tick
           /\ Unit(tick) \in Nat /\ Unit(tick) > 0 /\ LOT_UNIT = Unit(tick) * D
    BY Scales DEF ValidPrice
  <1>2. PICK u \in Nat, t \in Nat : u = Unit(tick) /\ t = tick /\ u > 0 /\ t > 0
    BY <1>1
  <1>3. PICK M \in Nat, lot \in Nat : /\ M = MICRO /\ M = D * t /\ M > 0
                                      /\ lot = LOT_UNIT /\ lot = u * D /\ lot > 0
    <2>1. D * t \in Nat /\ D * t > 0 /\ u * D \in Nat /\ u * D > 0
      BY <1>1, <1>2
    <2> QED BY <1>1, <1>2, <2>1
  <1>4. PICK b \in Nat : price = t * b /\ b > 0 /\ price > 0
    <2>1. PICK b \in Nat : price = t * b
      BY <1>2, Multiple DEF ValidPrice
    <2>2. price > 0
      BY <1>2 DEF ValidPrice
    <2>3. b > 0
      BY <2>1, <2>2
    <2> QED BY <2>1, <2>2, <2>3
  <1>5. b + 1 <= D
    <2>1. t * (b + 1) = t * b + t /\ t * b \in Nat
      BY Times
    <2>2. price <= M - t
      BY <1>2, <1>3 DEF ValidPrice
    <2>3. t * (b + 1) <= t * D
      BY <1>3, <1>4, <2>1, <2>2
    <2> QED BY <1>2, <2>3, Cancel
  <1>6. PICK maker \in Nat : maker = Cents(spend) /\ maker <= spend /\ maker % lot = 0
    BY <1>3, WholeLots
  <1>7. PICK c \in Nat : maker = lot * c
    BY <1>3, <1>6, Multiple
  <1>8. PICK raw \in Nat, s \in Nat : /\ raw = (maker * M) \div price
                                      /\ maker * M = price * raw + s /\ s < price
    <2>1. maker * M \in Nat
      BY Times
    <2>2. /\ (maker * M) \div price \in Nat /\ (maker * M) % price \in Nat /\ (maker * M) % price < price
          /\ maker * M = price * ((maker * M) \div price) + ((maker * M) % price)
      BY <1>4, <2>1, DivMod
    <2> QED BY <2>2, Zenon
  <1>9. PICK e \in Nat, r \in Nat : raw = u * e + r /\ r < u /\ r = raw % u
    <2>1. /\ raw \div u \in Nat /\ raw % u \in Nat /\ raw % u < u
          /\ raw = u * (raw \div u) + (raw % u)
      BY <1>2, DivMod
    <2> QED BY <2>1, Zenon
  <1>10. PICK taker \in Nat : taker = raw - (raw % u) /\ taker = u * e
    <2>1. u * e \in Nat
      BY Times
    <2> QED BY <1>9, <2>1
  <1>11. MarketBuyFromSpend(spend, price, tick) = Quoted(price, taker, maker, taker, tick)
    <2>1. MarketBuyFromSpend(spend, price, tick) =
            Quoted(price, raw - (raw % u), maker, raw - (raw % u), tick)
      BY <1>2, <1>3, <1>6, <1>8, Zenon DEF MarketBuyFromSpend
    <2> QED BY <1>10, <2>1
  <1>12. taker > 0 /\ maker <= U64Max /\ taker <= U64Max
    BY <1>11, QuotedIs
  <1>13. c > 0
    <2>1. maker # 0
      BY <1>4, <1>8, <1>9, <1>10, <1>12, NotForNothing
    <2>2. c = 0 => maker = 0
      BY <1>7
    <2> QED BY <2>1, <2>2
  <1>14. ((u * D) * c) * (D * t) = (t * b) * raw + s
    <2>1. maker = (u * D) * c /\ M = D * t
      BY <1>3, <1>7, Zenon
    <2> QED BY <1>4, <1>8, <2>1, Zenon
  <1>15. b <= e
    <2>1. D > 0 /\ u > 0 /\ t > 0 /\ b > 0 /\ b + 1 <= D /\ c > 0
      BY <1>1, <1>2, <1>4, <1>5, <1>13, Zenon
    <2>2. s < t * b /\ raw = u * e + r /\ r < u
      BY <1>4, <1>8, <1>9, Zenon
    <2>3. MarketNumbers(u, D, t, b, c, e, r, s, raw)
      BY <1>14, <2>1, <2>2, Zenon DEF MarketNumbers
    <2> QED BY <2>3, EnoughUnits
  <1>16. maker * M < taker * (price + t)
    <2>1. price * raw + s < (u * e) * (price + t)
      <3>1. price = t * b /\ price > 0 /\ s < price
        BY <1>4, <1>8, Zenon
      <3>2. raw = u * e + r /\ r < u
        BY <1>9, Zenon
      <3>3. Dusty(price, raw, s, u, e, t)
        BY ONLY <3>1, <3>2, <1>15, Dust, price \in Nat, raw \in Nat, s \in Nat,
                u \in Nat, e \in Nat, t \in Nat, b \in Nat, r \in Nat, Zenon
      <3> QED BY <3>3, Zenon DEF Dusty
    <2>2. taker * (price + t) = (u * e) * (price + t)
      BY <1>10, Zenon
    <2>3. maker * M = price * raw + s
      BY <1>8
    <2> QED BY <2>1, <2>2, <2>3, Zenon
  <1> DEFINE q == MarketBuyFromSpend(spend, price, tick)
  <1>17. /\ q.price = price /\ q.tick = tick /\ q.size = taker
         /\ q.maker = maker /\ q.taker = taker /\ IsQuote(q)
    BY <1>11, QuotedIs
  <1> HIDE DEF q
  <1>18. q.maker * MICRO < q.taker * (q.price + q.tick)
    BY <1>2, <1>3, <1>16, <1>17, Zenon
  <1>19. /\ q.price = price /\ q.tick = tick /\ q.size = q.taker
         /\ q.size \in Nat /\ q.maker \in Nat /\ q.maker <= U64Max /\ q.taker <= U64Max
         /\ q.maker <= spend
    BY <1>6, <1>12, <1>17, Zenon
  <1> QED BY <1>17, <1>18, <1>19, Zenon DEF q, IsMarketBuy

-----------------------------------------------------------------------------
(* The price.                                                              *)

(* quantize_price puts a buyer's price on the grid below it, a seller's on *)
(* the grid above.                                                         *)
LEMMA OnGrid ==
  ASSUME NEW x \in Nat, NEW tick \in Nat, tick > 0, NEW side
  PROVE  /\ QuantizePrice(x, tick, side) \in Nat
         /\ IF side = "BUY" THEN QuantizePrice(x, tick, side) <= x
            ELSE QuantizePrice(x, tick, side) >= x
         /\ QuantizeMarketable(x, tick) \in Nat /\ QuantizeMarketable(x, tick) <= x
  <1>1. PICK a \in Nat, r \in Nat : x = a + r /\ r = x % tick /\ r < tick
    <2>1. x % tick \in Nat /\ x % tick < tick /\ x = tick * (x \div tick) + (x % tick)
          /\ tick * (x \div tick) \in Nat
      BY DivMod
    <2> QED BY <2>1
  <1>2. x - (x % tick) = a
    BY <1>1
  <1> QED BY <1>1, <1>2 DEF QuantizePrice, QuantizeMarketable

Within(r, price) ==
  IF r.side = "BUY" THEN price <= r.bound /\ price <= Pinned(r)
  ELSE price >= r.bound /\ price >= Pinned(r)

(* What a request is made of.                                              *)
LEMMA RequestIs ==
  ASSUME NEW r \in Requests, Acceptable(r)
  PROVE  /\ r.side \in Sides /\ r.type \in OrderTypes
         /\ r.amount \in Nat /\ r.amount <= U64Max /\ r.bound \in Nat
         /\ r.limit # None => r.limit \in Nat
         /\ Pinned(r) \in Nat /\ Within(r, Pinned(r))
  <1>1. /\ r.side \in Sides /\ r.type \in OrderTypes /\ r.amount \in Amounts
        /\ r.bound \in Prices /\ r.limit \in Prices \cup {None}
    BY DEF Requests
  <1>2. Amounts \subseteq Nat /\ Prices \subseteq Nat /\ r.amount <= U64Max
    BY <1>1, QuoteAssumption
  <1>3. r.bound \in Nat /\ (r.limit # None => r.limit \in Nat)
    BY <1>1, <1>2, Zenon
  <1>4. Pinned(r) \in Nat /\ Within(r, Pinned(r))
    BY <1>1, <1>3 DEF Pinned, Within, Acceptable
  <1> QED BY <1>1, <1>2, <1>3, <1>4, Zenon

(* choose_limit stays within the bound, and within a price pinned before.  *)
LEMMA LimitWithin ==
  ASSUME NEW r \in Requests, Acceptable(r), NEW pinned \in Nat, Within(r, pinned),
         NEW book \in Books, Usable(book), ChooseLimit(r, pinned, book) # None
  PROVE  /\ ChooseLimit(r, pinned, book) \in Nat
         /\ Within(r, ChooseLimit(r, pinned, book))
  <1>1. PICK tick \in Nat : tick = book.tick /\ tick > 0
    <2>1. book.tick \in Ticks /\ book.tick > 0
      BY DEF Books, Usable
    <2>2. Ticks \subseteq Nat
      BY QuoteAssumption
    <2> QED BY <2>1, <2>2, Zenon
  <1>2. r.bound \in Nat /\ Pinned(r) \in Nat
    BY RequestIs
  <1>3. CASE r.limit # None
    <2>1. ChooseLimit(r, pinned, book) = QuantizePrice(pinned, tick, r.side)
      BY <1>1, <1>3 DEF ChooseLimit
    <2>2. PICK price : price = QuantizePrice(pinned, tick, r.side)
      OBVIOUS
    <2>3. price \in Nat /\ IF r.side = "BUY" THEN price <= pinned ELSE price >= pinned
      BY <1>1, <2>2, OnGrid
    <2>4. Within(r, price)
      BY <1>2, <2>3 DEF Within
    <2> QED BY <2>1, <2>2, <2>3, <2>4
  <1>4. CASE r.limit = None
    <2>1. book.best # None
      BY <1>4 DEF ChooseLimit
    <2>2. book.best \in Prices
      BY <2>1 DEF Books
    <2>3. PICK best \in Nat : best = book.best
      BY <2>2, QuoteAssumption
    <2>4. PICK price : price = QuantizeMarketable(best, tick)
      OBVIOUS
    <2>5. price \in Nat /\ price <= best
      BY <1>1, <2>4, OnGrid
    <2>6. /\ ChooseLimit(r, pinned, book) = price
          /\ IF r.side = "BUY" THEN ~(best > r.bound) ELSE ~(price < r.bound)
      BY <1>1, <1>4, <2>1, <2>3, <2>4, Zenon DEF ChooseLimit
    <2>7. Pinned(r) = r.bound
      BY <1>4 DEF Pinned
    <2>8. Within(r, price)
      BY <1>2, <2>3, <2>5, <2>6, <2>7 DEF Within
    <2> QED BY <2>5, <2>6, <2>8
  <1> QED BY <1>3, <1>4

-----------------------------------------------------------------------------
(* The quote of a draft.                                                   *)

(* What a draft promises its request.                                      *)
Keeps(r, q) ==
  /\ q \in Draft
  /\ Within(r, q.price)
  /\ r.side # "BUY" => q.size = r.amount
  /\ IF r.side = "BUY" THEN q.maker <= r.amount ELSE q.maker = r.amount
  /\ ~(r.side = "BUY" /\ r.type # "GTC") =>
       IF r.side = "BUY" THEN q.maker * MICRO = q.taker * q.price
       ELSE q.taker * MICRO = q.maker * q.price
  /\ r.side = "BUY" /\ r.type # "GTC" => q.maker * MICRO < q.taker * (q.price + q.tick)

(* A valid price is one of the exchange, so an amount.                     *)
LEMMA PriceIsAmount ==
  ASSUME NEW price \in Nat, NEW tick, ValidPrice(price, tick)
  PROVE  price \in Amount /\ tick \in Nat
  <1>1. PICK D \in Nat :
           /\ D > 0 /\ tick \in Nat /\ tick > 0 /\ MICRO = D * tick
           /\ Unit(tick) \in Nat /\ Unit(tick) > 0 /\ LOT_UNIT = Unit(tick) * D
    BY Scales DEF ValidPrice
  <1>2. PICK M \in Nat : M = MICRO
    BY <1>1, Times, Z3
  <1>3. U64Max \in Nat /\ M <= U64Max
    BY <1>2, QuoteAssumption, ScaleAssumption, Zenon DEF MICRO
  <1>4. price <= M - tick
    BY <1>2 DEF ValidPrice
  <1> QED BY <1>1, <1>3, <1>4 DEF Amount

(* build_quote keeps the promise, whatever the price within the bound.     *)
LEMMA BuiltKeeps ==
  ASSUME NEW r \in Requests, Acceptable(r), NEW price \in Nat, Within(r, price),
         NEW book \in Books, BuildQuote(r, r.amount, price, book) # None
  PROVE  Keeps(r, BuildQuote(r, r.amount, price, book))
  <1> DEFINE q == BuildQuote(r, r.amount, price, book)
  <1>1. ValidPrice(price, book.tick)
    BY DEF BuildQuote
  <1>2. price \in Amount /\ book.tick \in Amount
    BY <1>1, PriceIsAmount, QuoteAssumption DEF Books, Amount
  <1>3. r.amount \in Nat /\ r.amount <= U64Max /\ U64Max \in Nat
    BY RequestIs, QuoteAssumption
  <1>4. q = IF r.side = "SELL" THEN SellFromShares(r.amount, price, book.tick)
            ELSE IF r.type = "GTC" THEN BuyFromSpend(r.amount, price, book.tick)
            ELSE MarketBuyFromSpend(r.amount, price, book.tick)
    BY Zenon DEF BuildQuote
  <1>5. q # None
    OBVIOUS
  <1> HIDE DEF q
  <1>6. ASSUME r.side = "BUY" PROVE Keeps(r, q)
    <2>1. CASE r.type = "GTC"
      <3>1. q = BuyFromSpend(r.amount, price, book.tick)
        BY <1>4, <1>6, <2>1
      <3>2. IsLimitBuy(q, r.amount, price, book.tick)
        BY <1>1, <1>3, <1>5, <3>1, BuyIs
      <3>3. q \in Draft
        <4>1. q.size \in Amount /\ q.taker \in Amount /\ q.maker \in Amount
          BY <1>3, <3>2 DEF Amount, IsLimitBuy
        <4> QED BY <1>2, <3>2, <4>1, Zenon DEF IsQuote, Draft, IsLimitBuy
      <3> QED BY <1>6, <2>1, <3>2, <3>3, Zenon DEF Keeps, IsLimitBuy
    <2>2. CASE r.type # "GTC"
      <3>1. q = MarketBuyFromSpend(r.amount, price, book.tick)
        BY <1>4, <1>6, <2>2
      <3>2. IsMarketBuy(q, r.amount, price, book.tick)
        BY <1>1, <1>3, <1>5, <3>1, MarketIs
      <3>3. q \in Draft
        <4>1. q.size \in Amount /\ q.taker \in Amount /\ q.maker \in Amount
          BY <1>3, <3>2 DEF Amount, IsMarketBuy
        <4> QED BY <1>2, <3>2, <4>1, Zenon DEF IsQuote, Draft, IsMarketBuy
      <3> QED BY <1>6, <2>2, <3>2, <3>3, Zenon DEF Keeps, IsMarketBuy
    <2> QED BY <2>1, <2>2
  <1>7. ASSUME r.side # "BUY" PROVE Keeps(r, q)
    <2>1. q = SellFromShares(r.amount, price, book.tick)
      BY <1>4, <1>7, RequestIs DEF Sides
    <2>2. /\ q.price = price /\ q.tick = book.tick /\ q.size = r.amount /\ q.maker = r.amount
          /\ q.taker \in Nat /\ q.maker <= U64Max /\ q.taker <= U64Max
          /\ q.taker * MICRO = q.maker * q.price
          /\ IsQuote(q)
      BY <1>1, <1>3, <1>5, <2>1, SellIs
    <2>3. q \in Draft
      <3>1. q.size \in Amount /\ q.taker \in Amount /\ q.maker \in Amount
        BY <1>3, <2>2 DEF Amount
      <3> QED BY <1>2, <2>2, <3>1, Zenon DEF IsQuote, Draft
    <2> QED BY <1>7, <2>2, <2>3, Zenon DEF Keeps
  <1> QED BY <1>6, <1>7, Zenon DEF q

(* create_trade_draft and revalidate_trade_draft: a quote keeps what the   *)
(* request asks, if the price pinned before did.                           *)
LEMMA QuoteKeeps ==
  ASSUME NEW r \in Requests, Acceptable(r), NEW pinned \in Nat, Within(r, pinned),
         NEW book \in Books, QuoteOf(r, r.amount, pinned, book) # None
  PROVE  Keeps(r, QuoteOf(r, r.amount, pinned, book))
  <1>1. Usable(book)
    BY DEF QuoteOf
  <1>2. PICK limit : limit = ChooseLimit(r, pinned, book)
    OBVIOUS
  <1>3. limit # None /\ QuoteOf(r, r.amount, pinned, book) = BuildQuote(r, r.amount, limit, book)
    BY <1>2, Zenon DEF QuoteOf
  <1>4. limit \in Nat /\ Within(r, limit)
    BY <1>1, <1>2, <1>3, LimitWithin
  <1>5. BuildQuote(r, r.amount, limit, book) # None
    BY <1>3
  <1> QED BY <1>3, <1>4, <1>5, BuiltKeeps

-----------------------------------------------------------------------------
(* The behaviour: create, then any number of revalidations.                *)

QuoteInv == draft # None => req \in Requests /\ Acceptable(req) /\ Keeps(req, draft)

LEMMA QuoteStart == Init => QuoteInv
  BY DEF Init, QuoteInv

LEMMA QuoteStep == QuoteInv /\ [Next]_vars => QuoteInv'
  <1> SUFFICES ASSUME QuoteInv, [Next]_vars PROVE QuoteInv'
    OBVIOUS
  <1>1. ASSUME NEW book \in Books, Create(book) PROVE QuoteInv'
    <2>1. PICK r \in Requests :
            /\ Acceptable(r) /\ QuoteOf(r, r.amount, Pinned(r), book) # None
            /\ req' = r /\ draft' = QuoteOf(r, r.amount, Pinned(r), book)
      BY <1>1, Zenon DEF Create
    <2>2. Keeps(r, draft')
      BY <2>1, RequestIs, QuoteKeeps
    <2> QED BY <2>1, <2>2, Zenon DEF QuoteInv, Keeps, Within, Pinned, Acceptable
  <1>2. ASSUME NEW book \in Books, Revalidate(book) PROVE QuoteInv'
    <2>1. req \in Requests /\ Acceptable(req) /\ Keeps(req, draft) /\ req' = req
      BY <1>2 DEF Revalidate, QuoteInv
    <2>2. PICK amount : /\ amount = (IF req.side = "BUY" THEN req.amount ELSE draft.size)
                        /\ QuoteOf(req, amount, draft.price, book) # None
                        /\ draft' = QuoteOf(req, amount, draft.price, book)
      BY <1>2, Zenon DEF Revalidate
    <2>3. amount = req.amount
      BY <2>1, <2>2 DEF Keeps
    <2>4. draft.price \in Nat /\ Within(req, draft.price)
      BY <2>1, QuoteAssumption DEF Keeps, Draft, Amount
    <2>5. Keeps(req, draft')
      BY <2>1, <2>2, <2>3, <2>4, QuoteKeeps
    <2> QED BY <2>1, <2>5, Zenon DEF QuoteInv, Keeps, Within, Pinned, Acceptable
  <1>3. CASE UNCHANGED vars
    BY <1>3, Zenon DEF QuoteInv, Keeps, Within, Pinned, Acceptable, vars
  <1> QED BY <1>1, <1>2, <1>3 DEF Next

LEMMA QuoteAlways == Spec => []QuoteInv
  BY QuoteStart, QuoteStep, PTL DEF Spec

(* For every scale, tick grid, book and request: however often             *)
(* revalidate_trade_draft quotes a draft again, quantize_price and         *)
(* choose_limit keep its price within the price the user set.              *)
THEOREM QuotesWithinBound == Spec => []WithinBound
  <1>1. QuoteInv => WithinBound
    BY Zenon DEF QuoteInv, Keeps, Within, WithinBound
  <1> QED BY <1>1, QuoteAlways, PTL

(* buy_from_spend, market_buy_from_spend and sell_from_shares never spend  *)
(* more than was asked, nor make an order worse than its price by a tick   *)
(* or more, for every scale, tick grid, book and request, after any number *)
(* of revalidations.                                                       *)
THEOREM QuoteLegsFair == Spec => []LegsFair
  <1>1. QuoteInv => LegsFair
    BY Zenon DEF QuoteInv, Keeps, LegsFair, SpendsWhatWasAsked, LegsAtLimit, DustBelowTick,
                 MarketBuy
  <1> QED BY <1>1, QuoteAlways, PTL

(* Type correctness: every draft that create_trade_draft or                *)
(* revalidate_trade_draft stores is a request of amounts that fit a u64.   *)
THEOREM QuoteTypes == Spec => []TypeOK
  <1>1. ASSUME QuoteInv, req \in Requests \cup {None} PROVE TypeOK
    BY <1>1, Zenon DEF QuoteInv, Keeps, TypeOK
  <1>2. Init => req \in Requests \cup {None}
    BY DEF Init
  <1>3. req \in Requests \cup {None} /\ [Next]_vars => (req \in Requests \cup {None})'
    BY DEF Next, Create, Revalidate, vars
  <1> QED BY <1>1, <1>2, <1>3, QuoteAlways, PTL DEF Spec

--------------------------------------------------------------------------------
(* The fee bound of a BUY, in constants and variables of its own.          *)

(* Rounding up, by less than one unit, and never less for more.            *)
LEMMA CeilUp ==
  ASSUME NEW a \in Nat, NEW k \in Nat, k > 0
  PROVE  /\ Charges!CeilDiv(a, k) \in Nat
         /\ a <= k * Charges!CeilDiv(a, k)
         /\ k * Charges!CeilDiv(a, k) < a + k
  <1>1. PICK x \in Nat : x = a + k - 1
    OBVIOUS
  <1>2. /\ x \div k \in Nat /\ x % k \in Nat /\ x % k < k
        /\ x = k * (x \div k) + (x % k)
    BY DivMod
  <1>3. PICK q \in Nat, r \in Nat : q = x \div k /\ r = x % k
    BY <1>2
  <1>4. x = k * q + r /\ r < k /\ k * q \in Nat
    BY <1>2, <1>3
  <1>5. a <= k * q /\ k * q < a + k
    BY <1>1, <1>4
  <1>6. Charges!CeilDiv(a, k) = q
    BY <1>1, <1>3, Zenon DEF Charges!CeilDiv
  <1> QED BY <1>5, <1>6

LEMMA CeilMore ==
  ASSUME NEW a \in Nat, NEW b \in Nat, NEW k \in Nat, k > 0, a <= b
  PROVE  Charges!CeilDiv(a, k) <= Charges!CeilDiv(b, k)
  <1>1. PICK c \in Nat, d \in Nat : c = Charges!CeilDiv(a, k) /\ d = Charges!CeilDiv(b, k)
    BY CeilUp
  <1>2. k * c < a + k /\ b <= k * d
    BY <1>1, CeilUp
  <1>3. k * c < k * (d + 1)
    BY <1>2
  <1>4. c < d + 1
    BY <1>3, Cancel
  <1> QED BY <1>1, <1>4

(* What one piece is charged: the fee on what it spends and at most one    *)
(* unit of rounding.                                                       *)
LEMMA ChargeBound ==
  ASSUME NEW n \in Nat, NEW f \in Nat, NEW m \in Nat, m > 0, NEW unit \in Nat, unit > 0,
         NEW rest \in Nat, rest <= m,
         NEW c \in Nat, c = Charges!CeilDiv(n * f * rest, m * m * unit)
  PROVE  m * (unit * c) <= n * f + m * unit
  <1>1. PICK a \in Nat : a = n * f * rest
    BY Times
  <1>2. PICK k \in Nat : k = m * m * unit /\ k > 0
    OBVIOUS
  <1>3. k * c < a + k
    BY <1>1, <1>2, CeilUp
  <1>4. a <= m * (n * f)
    <2>1. PICK y \in Nat : y = n * f
      BY Times
    <2>2. y * rest <= y * m
      BY Times
    <2> QED BY <1>1, <2>1, <2>2
  <1>5. m * (m * (unit * c)) < m * (n * f + m * unit)
    <2>1. k * c = m * (m * (unit * c))
      BY <1>2
    <2>2. m * (n * f) + k = m * (n * f + m * unit)
      BY <1>2
    <2>3. k * c \in Nat /\ m * (n * f) \in Nat
      BY Times
    <2>4. k * c < m * (n * f) + k
      BY <1>3, <1>4, <2>3
    <2> QED BY <2>1, <2>2, <2>4, Zenon
  <1>6. m * (unit * c) \in Nat /\ n * f + m * unit \in Nat
    BY Times
  <1>7. m * (unit * c) < n * f + m * unit
    BY <1>5, <1>6, Cancel
  <1> QED BY <1>6, <1>7

LEMMA NoFee ==
  ASSUME NEW k \in Nat, k > 0
  PROVE  Charges!CeilDiv(0, k) = 0
  <1>1. PICK c \in Nat : c = Charges!CeilDiv(0, k)
    BY CeilUp
  <1>2. k * c < k * 1
    BY <1>1, CeilUp
  <1>3. c < 1
    BY <1>2, Cancel
  <1> QED BY <1>1, <1>3

Bound(f, maker, cap) ==
  IF f = 0 THEN cap = 0
  ELSE cap = Charges!CeilDiv(maker * f, Whole) + MARGIN /\ cap <= FeeMax

(* The signed order's cap is the bound at the recorded rate, and what was  *)
(* charged is the fee on what was spent and a unit for each piece.         *)
FeeInv ==
  /\ fee \in {None, Unbounded} \cup 0..MAX_FEE_RATE
  /\ order = None => spent = 0 /\ charged = 0 /\ matches = 0
  /\ order # None =>
       /\ order \in [amount : Makers, maker : Makers, cap : 0..FeeMax]
       /\ order.maker <= order.amount
       /\ fee \in 0..MAX_FEE_RATE /\ Bound(fee, order.maker, order.cap)
       /\ spent <= order.maker
       /\ Whole * charged <= spent * fee + matches * (Whole * Precision)
       /\ fee = 0 => charged = 0
  /\ spent \in Nat /\ charged \in Nat /\ matches \in 0..MaxMatches

LEMMA FeeNumbers ==
  ASSUME Charges!FeesConstants
  PROVE  /\ Whole \in Nat /\ Whole > 0 /\ Precision \in Nat /\ Precision > 0
         /\ MAX_FEE_RATE \in Nat /\ MARGIN \in Nat /\ MaxMatches \in Nat /\ FeeMax \in Nat
         /\ Makers \subseteq Nat /\ Fills \subseteq Nat /\ Rates \subseteq Nat
         /\ FillPrices \subseteq 0..Whole /\ None \notin Nat /\ Unbounded \notin Nat
         /\ MaxMatches * Precision <= MARGIN
  BY DEF Charges!FeesConstants

LEMMA CapIs ==
  ASSUME Charges!FeesConstants, NEW maker \in Nat, NEW rate \in Nat,
         Charges!FeeCapAtRate(maker, rate) # None
  PROVE  /\ Charges!FeeCapAtRate(maker, rate) \in 0..FeeMax
         /\ Bound(rate, maker, Charges!FeeCapAtRate(maker, rate))
  <1> USE FeeNumbers
  <1>1. CASE rate = 0
    BY <1>1 DEF Charges!FeeCapAtRate, Bound
  <1>2. CASE rate # 0
    <2>1. PICK c \in Nat : c = Charges!CeilDiv(maker * rate, Whole)
      BY CeilUp, Times
    <2>2. Charges!FeeCapAtRate(maker, rate) = c + MARGIN /\ c + MARGIN <= FeeMax
      BY <1>2, <2>1 DEF Charges!FeeCapAtRate, Charges!WithMargin
    <2> QED BY <1>2, <2>1, <2>2 DEF Bound
  <1> QED BY <1>1, <1>2

(* The sum goes on as it began.                                            *)
LEMMA Accrued ==
  ASSUME NEW M \in Nat, NEW f \in Nat, NEW s \in Nat, NEW n \in Nat, NEW c \in Nat,
         NEW d \in Nat, NEW k \in Nat, NEW u \in Nat,
         M * c <= s * f + k * u, M * d <= n * f + u
  PROVE  M * (c + d) <= (s + n) * f + (k + 1) * u
  <1>1. PICK a \in Nat, b \in Nat, x \in Nat, y \in Nat, z \in Nat :
          a = M * c /\ b = M * d /\ x = s * f /\ y = n * f /\ z = k * u
    BY Times
  <1>2. M * (c + d) = a + b /\ (s + n) * f = x + y /\ (k + 1) * u = z + u
    BY <1>1
  <1> QED BY <1>1, <1>2

LEMMA Nothing ==
  ASSUME Charges!FeesConstants, NEW f \in Nat
  PROVE  Whole * 0 <= 0 * f + 0 * (Whole * Precision)
  BY FeeNumbers

LEMMA FeeStep ==
  ASSUME Charges!FeesConstants, FeeInv, [Charges!Next]_Charges!vars
  PROVE  FeeInv'
  <1> USE FeeNumbers
  <1>1. ASSUME NEW g \in Charges!Gamma, Charges!Read(g)
        PROVE FeeInv'
    <2>1. fee' \in {None, Unbounded} \cup 0..MAX_FEE_RATE
      <3>1. fee' = Charges!MarketFee(g)
        BY <1>1 DEF Charges!Read
      <3>2. CASE g.schedule \in {None, Unreadable}
        BY <3>1, <3>2 DEF Charges!MarketFee
      <3>3. CASE g.schedule \notin {None, Unreadable}
        <4>1. g.schedule \in [exponent : Exponents, rate : Rates]
          BY <3>3 DEF Charges!Gamma
        <4>2. g.schedule.rate \in Nat
          BY <4>1
        <4> QED BY <3>1, <4>2 DEF Charges!MarketFee, Charges!Plausible
      <3> QED BY <3>2, <3>3
    <2>2. order = None /\ UNCHANGED <<order, spent, charged, matches>>
      BY <1>1 DEF Charges!Read
    <2> QED BY <2>1, <2>2 DEF FeeInv
  <1>2. ASSUME NEW amount \in Makers, NEW maker \in Makers, Charges!SignBuy(amount, maker)
        PROVE FeeInv'
    <2> DEFINE cap == Charges!BuyFeeCap(fee, maker)
    <2>1. /\ order = None /\ maker \in Nat /\ cap # None
          /\ order' = [amount |-> amount, maker |-> maker, cap |-> cap] /\ maker <= amount
          /\ UNCHANGED <<fee, spent, charged, matches>>
      BY <1>2 DEF Charges!SignBuy
    <2>2. fee \notin {None, Unbounded} /\ cap = Charges!FeeCapAtRate(maker, fee)
      BY <2>1 DEF Charges!BuyFeeCap
    <2>3. fee \in 0..MAX_FEE_RATE
      BY <2>2 DEF FeeInv
    <2>4. cap \in 0..FeeMax /\ Bound(fee, maker, cap)
      BY <2>1, <2>2, <2>3, CapIs
    <2>5. spent = 0 /\ charged = 0 /\ matches = 0
      BY <2>1 DEF FeeInv
    <2>6. /\ order'.maker = maker /\ order'.cap = cap /\ order'.maker <= order'.amount
          /\ order' \in [amount : Makers, maker : Makers, cap : 0..FeeMax]
      BY <2>1, <2>4
    <2>7. Bound(fee, order.maker, order.cap)'
      BY <2>1, <2>4, <2>6 DEF Bound
    <2> HIDE DEF cap
    <2>8. Whole * charged' <= spent' * fee' + matches' * (Whole * Precision)
      <3>1. fee' = fee /\ fee \in Nat /\ charged' = 0 /\ spent' = 0 /\ matches' = 0
        BY <2>1, <2>3, <2>5
      <3> QED BY <3>1, Nothing, Zenon
    <2>9. spent' <= order'.maker
      BY <2>1, <2>5, <2>6
    <2> QED BY <2>1, <2>3, <2>5, <2>6, <2>7, <2>8, <2>9, Zenon DEF FeeInv
  <1>3. ASSUME NEW n \in Fills, NEW price \in FillPrices, Charges!Match(n, price)
        PROVE FeeInv'
    <2>1. /\ order # None /\ matches < MaxMatches /\ spent + n <= order.maker
          /\ spent' = spent + n /\ charged' = charged + Charges!Charge(n, price)
          /\ matches' = matches + 1 /\ UNCHANGED <<fee, order>>
      BY <1>3 DEF Charges!Match
    <2>2. /\ spent \in Nat /\ charged \in Nat /\ matches \in Nat /\ n \in Nat
          /\ fee \in Nat /\ fee \in 0..MAX_FEE_RATE
          /\ Whole * charged <= spent * fee + matches * (Whole * Precision)
          /\ fee = 0 => charged = 0
      BY <2>1 DEF FeeInv
    <2>3. PICK rest \in Nat : rest = Whole - price /\ rest <= Whole
      OBVIOUS
    <2>4. PICK f \in Nat, s \in Nat, d \in Nat, k \in Nat, u \in Nat :
            f = fee /\ s = spent /\ d = charged /\ k = matches /\ u = Whole * Precision
      BY <2>2, Times
    <2>5. /\ n * f * rest \in Nat
          /\ Whole * Whole * Precision \in Nat /\ Whole * Whole * Precision > 0
      BY <2>2
    <2>6. PICK c \in Nat : c = Charges!CeilDiv(n * f * rest, Whole * Whole * Precision)
      BY <2>5, CeilUp
    <2>7. Whole * (Precision * c) <= n * f + u
      BY <2>2, <2>3, <2>4, <2>6, ChargeBound
    <2>8. Charges!Charge(n, price) = Precision * c
      BY <2>3, <2>4, <2>6, Zenon DEF Charges!Charge
    <2>9. PICK e \in Nat : e = Precision * c
      BY Times
    <2>10. Whole * (d + e) <= (s + n) * f + (k + 1) * u
      <3>1. Whole * d <= s * f + k * u
        BY <2>2, <2>4, Zenon
      <3>2. Whole * e <= n * f + u
        BY <2>7, <2>9, Zenon
      <3> QED BY <2>2, <3>1, <3>2, Accrued
    <2>11. spent' = s + n /\ charged' = d + e /\ matches' = k + 1 /\ fee' = f
      BY <2>1, <2>4, <2>8, <2>9
    <2>12. Whole * charged' <= spent' * fee' + matches' * (Whole * Precision)
      BY <2>4, <2>10, <2>11, Zenon
    <2>13. fee' = 0 => charged' = 0
      <3> SUFFICES ASSUME f = 0 PROVE d + e = 0
        BY <2>11
      <3>1. n * f * rest = 0
        BY <2>2
      <3>2. c = 0
        BY <2>5, <2>6, <3>1, NoFee
      <3> QED BY <2>2, <2>4, <2>9, <3>2
    <2>14. spent' \in Nat /\ charged' \in Nat /\ matches' \in 0..MaxMatches
      BY <2>1, <2>2, <2>4, <2>11
    <2>15. /\ order' # None /\ order' \in [amount : Makers, maker : Makers, cap : 0..FeeMax]
           /\ order'.maker <= order'.amount /\ spent' <= order'.maker /\ fee' \in 0..MAX_FEE_RATE
      BY <2>1 DEF FeeInv
    <2>16. Bound(fee, order.maker, order.cap)'
      BY <2>1 DEF FeeInv, Bound
    <2> QED BY <2>12, <2>13, <2>14, <2>15, <2>16 DEF FeeInv
  <1>4. CASE UNCHANGED Charges!vars
    BY <1>4 DEF Charges!vars, FeeInv, Bound
  <1> QED BY <1>1, <1>2, <1>3, <1>4 DEF Charges!Next

LEMMA FeeAlways == Charges!Spec => []FeeInv
  <1> USE FeeConstants
  <1>1. Charges!Init => FeeInv
    BY FeeNumbers DEF Charges!Init, FeeInv
  <1> QED BY <1>1, FeeStep, PTL DEF Charges!Spec

LEMMA Covers ==
  ASSUME NEW W \in Nat, W > 0, NEW f \in Nat, NEW s \in Nat, NEW maker \in Nat, NEW c \in Nat,
         NEW k \in Nat, NEW unit \in Nat, NEW most \in Nat, NEW margin \in Nat, NEW up \in Nat,
         s <= maker, k <= most, most * unit <= margin,
         W * c <= s * f + k * (W * unit), maker * f <= W * up
  PROVE  c <= up + margin
  <1>1. s * f <= maker * f
    BY Times
  <1>2. k * (W * unit) <= W * margin
    <2>1. k * unit <= most * unit /\ k * unit \in Nat /\ most * unit \in Nat
      BY Times
    <2>2. PICK x \in Nat : x = k * unit
      BY <2>1
    <2>3. W * x <= W * margin
      BY <2>1, <2>2, Times
    <2>4. k * (W * unit) = W * x
      BY <2>2
    <2> QED BY <2>3, <2>4
  <1>3. PICK a \in Nat, b \in Nat, d \in Nat, e \in Nat, g \in Nat, h \in Nat :
          /\ a = W * c /\ b = s * f /\ d = k * (W * unit)
          /\ e = maker * f /\ g = W * up /\ h = W * margin
    BY Times
  <1>4. a <= g + h
    BY <1>1, <1>2, <1>3
  <1>5. W * c <= W * (up + margin)
    <2>1. W * (up + margin) = g + h
      BY <1>3
    <2> QED BY <1>3, <1>4, <2>1, Zenon
  <1> QED BY <1>5, Cancel

(* What leaves the wallet stays within makerAmount and the fee bound.      *)
LEMMA BoundCovers ==
  ASSUME Charges!FeesConstants, FeeInv, order # None
  PROVE  spent + charged <= order.maker + order.cap
  <1> USE FeeNumbers
  <1>1. /\ order \in [amount : Makers, maker : Makers, cap : 0..FeeMax]
        /\ fee \in Nat /\ Bound(fee, order.maker, order.cap) /\ spent <= order.maker
        /\ Whole * charged <= spent * fee + matches * (Whole * Precision)
        /\ fee = 0 => charged = 0
        /\ spent \in Nat /\ charged \in Nat /\ matches \in Nat /\ matches <= MaxMatches
    BY DEF FeeInv
  <1>2. order.maker \in Nat /\ order.cap \in Nat
    BY <1>1
  <1>3. charged <= order.cap
    <2>1. CASE fee = 0
      BY <1>1, <1>2, <2>1
    <2>2. CASE fee # 0
      <3>1. PICK f \in Nat, n \in Nat, s \in Nat, c \in Nat, k \in Nat :
              f = fee /\ n = order.maker /\ s = spent /\ c = charged /\ k = matches
        BY <1>1, <1>2
      <3>2. n * f \in Nat
        BY Times
      <3>3. PICK up \in Nat : up = Charges!CeilDiv(n * f, Whole) /\ n * f <= Whole * up
        BY <3>2, CeilUp
      <3>4. order.cap = up + MARGIN
        BY <1>1, <2>2, <3>1, <3>3, Zenon DEF Bound
      <3>5. Whole * c <= s * f + k * (Whole * Precision) /\ s <= n /\ k <= MaxMatches
        BY <1>1, <3>1, Zenon
      <3>6. c <= up + MARGIN
        BY <3>3, <3>5, Covers
      <3> QED BY <3>1, <3>4, <3>6, Zenon
    <2> QED BY <2>1, <2>2
  <1> QED BY <1>1, <1>2, <1>3

(* fees.rs under policy.rs, for every schedule, scale and width, at        *)
(* whatever prices a BUY fills: what leaves the wallet stays within what   *)
(* it counts against max_order_usd and max_daily_usd.                      *)
THEOREM CountsCoverFees == Charges!Spec => []Charges!CountCovers
  <1> USE FeeConstants
  <1> USE FeeNumbers
  <1>1. FeeInv => Charges!CountCovers
    <2> SUFFICES ASSUME FeeInv, order # None, Charges!Exposure(order) < FeeMax
                 PROVE spent + charged <= Charges!Exposure(order)
      BY DEF Charges!CountCovers
    <2>1. spent + charged <= order.maker + order.cap
      BY BoundCovers
    <2>2. /\ order.amount \in Nat /\ order.maker \in Nat /\ order.cap \in Nat
          /\ order.maker <= order.amount /\ spent \in Nat /\ charged \in Nat
      BY DEF FeeInv
    <2>3. Charges!Exposure(order) = order.amount + order.cap
      BY DEF Charges!Exposure
    <2> QED BY <2>1, <2>2, <2>3
  <1> QED BY <1>1, FeeAlways, PTL

(* max_buy_fee_cap, for a receipt that recorded no fee: from the spend it  *)
(* did record, it counts no less than the bound of any order this build    *)
(* signs.                                                                  *)
THEOREM LegacyReceiptsCountMost == Charges!Spec => []Charges!LegacyCountsMost
  <1> USE FeeConstants
  <1> USE FeeNumbers
  <1>1. FeeInv => Charges!LegacyCountsMost
    <2> SUFFICES ASSUME FeeInv, order # None PROVE order.cap <= Charges!MaxBuyFeeCap(order.amount)
      BY DEF Charges!LegacyCountsMost
    <2>1. /\ order \in [amount : Makers, maker : Makers, cap : 0..FeeMax]
          /\ order.maker <= order.amount /\ fee \in 0..MAX_FEE_RATE /\ Bound(fee, order.maker, order.cap)
      BY DEF FeeInv
    <2>2. PICK f \in Nat, m \in Nat, n \in Nat, cap \in Nat :
            /\ f = fee /\ m = order.maker /\ n = order.amount /\ m <= n
            /\ cap = order.cap /\ cap <= FeeMax /\ f <= MAX_FEE_RATE
      BY <2>1
    <2> DEFINE most == Charges!FeeCapAtRate(n, MAX_FEE_RATE)
    <2>3. CASE most = None
      BY <2>2, <2>3 DEF Charges!MaxBuyFeeCap, Charges!OrMax
    <2>4. CASE most # None
      <3>1. most \in 0..FeeMax /\ Bound(MAX_FEE_RATE, n, most)
        BY <2>4, CapIs
      <3>2. cap <= most
        <4>1. CASE f = 0
          BY <2>1, <2>2, <3>1, <4>1 DEF Bound
        <4>2. CASE f # 0
          <5>1. m * f <= n * MAX_FEE_RATE /\ m * f \in Nat /\ n * MAX_FEE_RATE \in Nat
            <6>1. m * f <= n * f /\ n * f <= n * MAX_FEE_RATE
              BY <2>2, Times
            <6>2. PICK x \in Nat, y \in Nat, z \in Nat : x = m * f /\ y = n * f /\ z = n * MAX_FEE_RATE
              BY Times
            <6> QED BY <6>1, <6>2
          <5>2. PICK c \in Nat, d \in Nat :
                  c = Charges!CeilDiv(m * f, Whole) /\ d = Charges!CeilDiv(n * MAX_FEE_RATE, Whole)
            BY <5>1, CeilUp
          <5>3. c <= d
            BY <5>1, <5>2, CeilMore
          <5>4. cap = c + MARGIN
            BY <2>1, <2>2, <4>2, <5>2, Zenon DEF Bound
          <5>5. MAX_FEE_RATE # 0
            BY <2>2, <4>2
          <5> HIDE DEF most
          <5>6. most = d + MARGIN
            BY <3>1, <5>2, <5>5, Zenon DEF Bound
          <5> QED BY <5>3, <5>4, <5>6
        <4> QED BY <4>1, <4>2
      <3>3. Charges!MaxBuyFeeCap(n) = most
        BY <2>4 DEF Charges!MaxBuyFeeCap, Charges!OrMax
      <3> HIDE DEF most
      <3> QED BY <2>2, <3>2, <3>3, Zenon
    <2> QED BY <2>3, <2>4
  <1> QED BY <1>1, FeeAlways, PTL

(* Type correctness: a signed BUY's fee bound fits its width (fees.rs).    *)
THEOREM FeeTypes == Charges!Spec => []Charges!TypeOK
  <1> USE FeeConstants
  <1>1. FeeInv => Charges!TypeOK
    BY DEF FeeInv, Charges!TypeOK
  <1> QED BY <1>1, FeeAlways, PTL

--------------------------------------------------------------------------------
(* Taking the order just sent for open, in constants and variables of its  *)
(* own.                                                                    *)

(* A set of indices has a first one.                                       *)
LEMMA First ==
  ASSUME NEW T, T \subseteq Nat, T # {}
  PROVE  \E x \in T : \A y \in T : x <= y
  <1>1. PICK R : R = OpToRel(<, Nat)
    BY Zenon
  <1>2. IsWellFoundedOn(R, Nat)
    BY <1>1, NatLessThanWellFounded, Zenon
  <1>3. PICK x \in T : \A y \in T : ~(<<y, x>> \in R)
    BY <1>2, WFMin, Zenon
  <1>4. \A y \in T : <<y, x>> \in R <=> y < x
    BY <1>1, <1>3 DEF OpToRel
  <1>5. \A y \in T : x <= y
    <2> SUFFICES ASSUME NEW y \in T PROVE x <= y
      OBVIOUS
    <2>1. ~(y < x)
      BY <1>3, <1>4, Zenon
    <2>2. x \in Nat /\ y \in Nat
      OBVIOUS
    <2> QED BY <2>1, <2>2
  <1> QED BY <1>5

Agreeing(rows) == {k \in DOMAIN rows : Listing!Matches(rows[k])}

(* find_matching_open_order gives a row that matches, if there is one.     *)
LEMMA FindIs ==
  ASSUME NEW rows \in Seq(Listing!Rows)
  PROVE  IF Agreeing(rows) = {} THEN Listing!Find(rows) = None
         ELSE Listing!Find(rows) \in Agreeing(rows)
  <1>1. CASE Agreeing(rows) = {}
    BY <1>1 DEF Listing!Find, Agreeing
  <1>2. CASE Agreeing(rows) # {}
    <2>1. Agreeing(rows) \subseteq Nat
      BY DEF Agreeing
    <2>2. \E k \in Agreeing(rows) : \A j \in Agreeing(rows) : k <= j
      BY <1>2, <2>1, First, Zenon
    <2>3. Listing!Find(rows) = CHOOSE k \in Agreeing(rows) : \A j \in Agreeing(rows) : k <= j
      BY <1>2, Zenon DEF Listing!Find, Agreeing
    <2> QED BY <1>2, <2>2, <2>3, Zenon
  <1> QED BY <1>1, <1>2

(* A row with the draft's salt is the draft's order.                       *)
LEMMA MatchIsOwn ==
  ASSUME NEW r \in Listing!Rows, Listing!Matches(r)
  PROVE  r.order.own
  <1>1. Listing!Says(r.order, r.shown, r.garbled)["salt"] = {"own"}
    BY DEF Listing!Matches, Listing!Salted, Listing!Agrees
  <1>2. "salt" \in Listing!Fields
    BY DEF Listing!Fields
  <1>3. Listing!Says(r.order, r.shown, r.garbled)["salt"] =
          IF "salt" \in r.garbled THEN {"unreadable"}
          ELSE IF "salt" \notin r.shown THEN {}
          ELSE IF "salt" \in r.order.differs \/ ~r.order.own THEN {"other"} ELSE {"own"}
    BY <1>2 DEF Listing!Says
  <1>4. {"other"} # {"own"}
    OBVIOUS
  <1>5. r.order.own \in BOOLEAN
    BY DEF Listing!Rows, Listing!Orders
  <1> QED BY <1>1, <1>3, <1>4, <1>5, Zenon

(* A row that shows the draft's order well enough matches.                 *)
LEMMA OwnMatches ==
  ASSUME Listing!OpenOrdersConstants,
         NEW r \in Listing!Rows, r.order.own, Listing!Faithful(r)
  PROVE  Listing!Matches(r)
  <1> DEFINE row == Listing!Says(r.order, r.shown, r.garbled)
  <1>1. r.named /\ r.status = "live" /\ r.garbled = {} /\ "salt" \in r.shown
        /\ Listing!Cardinality(r.shown \cap Compared) >= 2
    BY DEF Listing!Faithful
  <1>2. r.order.differs = {}
    <2>1. r.order \in Listing!Orders
      BY DEF Listing!Rows
    <2>2. r.order \notin [own : {FALSE}, differs : SUBSET (Compared \ {"funder", "token"})]
      OBVIOUS
    <2>3. r.order \in [own : {TRUE}, differs : {{}}]
      BY <2>1, <2>2, Zenon DEF Listing!Orders
    <2> QED BY <2>3
  <1>3. \A f \in Listing!Fields : row[f] = IF f \in r.shown THEN {"own"} ELSE {}
    <2> SUFFICES ASSUME NEW f \in Listing!Fields
                 PROVE row[f] = IF f \in r.shown THEN {"own"} ELSE {}
      OBVIOUS
    <2>1. row[f] =
            IF f \in r.garbled THEN {"unreadable"}
            ELSE IF f \notin r.shown THEN {}
            ELSE IF f \in r.order.differs \/ (f = "salt" /\ ~r.order.own) THEN {"other"} ELSE {"own"}
      BY DEF Listing!Says
    <2>2. f \notin r.garbled /\ f \notin r.order.differs
      BY <1>1, <1>2
    <2> HIDE DEF row
    <2> QED BY <2>1, <2>2, Zenon
  <1>4. Compared \subseteq Listing!Fields /\ "salt" \in Listing!Fields
    BY DEF Listing!Fields
  <1> HIDE DEF row
  <1>5. Listing!Salted(row)
    BY <1>1, <1>3, <1>4 DEF Listing!Salted, Listing!Agrees
  <1>6. ~Listing!Refuted(row)
    BY <1>3, <1>4 DEF Listing!Refuted, Listing!Refutes
  <1>7. {f \in Compared : Listing!Agrees(row[f])} = r.shown \cap Compared
    BY <1>3, <1>4 DEF Listing!Agrees
  <1>8. Listing!Enough(row)
    BY <1>1, <1>7 DEF Listing!Enough
  <1>9. r.status # "cancelled"
    BY <1>1
  <1> USE DEF row
  <1> QED BY <1>1, <1>5, <1>6, <1>8, <1>9, Zenon DEF Listing!Matches

FoundInv ==
  /\ listed \in Seq(Listing!Rows) /\ Len(listed) <= MaxRows
  /\ asked \in BOOLEAN
  /\ found = IF asked THEN Listing!Find(listed) ELSE None

LEMMA FoundAlways == Listing!Spec => []FoundInv
  <1> USE RowConstants
  <1>1. Listing!Init => FoundInv
    <2> SUFFICES ASSUME Listing!Init PROVE FoundInv
      OBVIOUS
    <2>1. <<>> \in Seq(Listing!Rows) /\ Len(<<>>) = 0 /\ 0 <= MaxRows
      BY DEF Listing!OpenOrdersConstants
    <2> QED BY <2>1 DEF Listing!Init, FoundInv
  <1>2. FoundInv /\ [Listing!Next]_Listing!vars => FoundInv'
    <2> SUFFICES ASSUME FoundInv, [Listing!Next]_Listing!vars PROVE FoundInv'
      OBVIOUS
    <2>1. ASSUME NEW r \in Listing!Rows, Listing!List(r)
          PROVE FoundInv'
      <3>1. listed' \in Seq(Listing!Rows) /\ Len(listed') = Len(listed) + 1
        BY <2>1 DEF Listing!List, FoundInv
      <3>2. Len(listed') <= MaxRows
        BY <2>1, <3>1 DEF Listing!List, Listing!OpenOrdersConstants, FoundInv
      <3> QED BY <2>1, <3>1, <3>2 DEF Listing!List, FoundInv
    <2>2. CASE Listing!Reconcile
      BY <2>2 DEF Listing!Reconcile, FoundInv
    <2>3. CASE UNCHANGED Listing!vars
      BY <2>3 DEF Listing!vars, FoundInv
    <2> QED BY <2>1, <2>2, <2>3 DEF Listing!Next
  <1> QED BY <1>1, <1>2, PTL DEF Listing!Spec

(* reconcile_ambiguous_post over open_order_matches_draft: the row taken   *)
(* for the order whose answer was lost is that order, however many others  *)
(* are open and however the rows are cut short.                            *)
THEOREM ReconcileTakesOwn == Listing!Spec => []Listing!TakesOwn
  <1> USE RowConstants
  <1>1. FoundInv => Listing!TakesOwn
    <2> SUFFICES ASSUME FoundInv, found # None PROVE listed[found].order.own
      BY DEF Listing!TakesOwn
    <2>1. found \in Agreeing(listed)
      BY FindIs DEF FoundInv
    <2>2. listed[found] \in Listing!Rows /\ Listing!Matches(listed[found])
      BY <2>1 DEF Agreeing, FoundInv
    <2> QED BY <2>2, MatchIsOwn
  <1> QED BY <1>1, FoundAlways, PTL

(* ... and it is found when some row shows it well enough, so that the     *)
(* post ends as posted and not as ambiguous.                               *)
THEOREM ReconcileFindsOwn == Listing!Spec => []Listing!FindsOwn
  <1> USE RowConstants
  <1>1. FoundInv => Listing!FindsOwn
    <2> SUFFICES ASSUME FoundInv, asked, NEW k \in DOMAIN listed,
                        listed[k].order.own, Listing!Faithful(listed[k])
                 PROVE found # None
      BY DEF Listing!FindsOwn
    <2>1. listed[k] \in Listing!Rows
      BY DEF FoundInv
    <2>2. k \in Agreeing(listed)
      BY <2>1, OwnMatches DEF Agreeing
    <2>3. found \in Agreeing(listed)
      BY <2>2, FindIs DEF FoundInv
    <2>4. found \in Nat
      BY <2>3 DEF Agreeing, FoundInv
    <2> QED BY <2>4 DEF Listing!OpenOrdersConstants
  <1> QED BY <1>1, FoundAlways, PTL

(* Type correctness: the row taken is one of those listed.                 *)
THEOREM OpenOrderTypes == Listing!Spec => []Listing!TypeOK
  <1> USE RowConstants
  <1>1. FoundInv => Listing!TypeOK
    <2> SUFFICES ASSUME FoundInv PROVE found \in {None} \cup 1..MaxRows
      BY DEF FoundInv, Listing!TypeOK
    <2>1. found = None \/ found \in Agreeing(listed)
      BY FindIs DEF FoundInv
    <2>2. Agreeing(listed) \subseteq 1..MaxRows
      BY DEF Agreeing, FoundInv, Listing!OpenOrdersConstants
    <2> QED BY <2>1, <2>2
  <1> QED BY <1>1, FoundAlways, PTL

-----------------------------------------------------------------------------
(* Claims: what a batch is said to move.                                   *)

(* What wallet_batch_effects adds up.                                      *)
DebitOf(calls) == Batches!FoldLeft(LAMBDA sum, c : sum + Batches!Debit(c), 0, calls)

(* A set of positions has a last one.                                      *)
LEMMA LastOne ==
  ASSUME NEW n \in Nat, NEW T \in SUBSET (1..n), T # {}
  PROVE  Batches!Max(T) \in T
  <1> DEFINE R == {n - x : x \in T}
  <1>0. \A x \in T : x \in Nat /\ n - x \in Nat
    OBVIOUS
  <1>1. R \subseteq Nat /\ R # {}
    BY <1>0
  <1>2. PICK m \in R : \A y \in R : m <= y
    BY <1>1, First
  <1>3. PICK x \in T : m = n - x
    BY <1>2
  <1>4. ASSUME NEW y \in T
        PROVE  x >= y
    <2>1. m <= n - y
      BY <1>2
    <2>2. x \in Nat /\ y \in Nat
      BY <1>0
    <2> QED BY <1>3, <2>1, <2>2
  <1> QED BY <1>4 DEF Batches!Max

(* The table FoldLeft reads its result from.                               *)
Sums(calls, h) ==
  h = [s \in SUBSET DOMAIN calls |->
         IF s = {} THEN 0
         ELSE h[s \ {Batches!Max(s)}] + Batches!Debit(calls[Batches!Max(s)])]

LEMMA DebitIs ==
  ASSUME NEW calls, \E h : Sums(calls, h)
  PROVE  \E h : Sums(calls, h) /\ DebitOf(calls) = h[DOMAIN calls]
  <1>1. DebitOf(calls) = (CHOOSE h : Sums(calls, h))[DOMAIN calls]
    BY DEF DebitOf, Sums, Batches!FoldLeft, Batches!MapThenFoldSet
  <1> QED BY <1>1

(* Nothing and again nothing is nothing.                                   *)
LEMMA NoDebit ==
  ASSUME NEW calls, NEW n \in Nat, DOMAIN calls = 1..n,
         \A i \in 1..n : Batches!Debit(calls[i]) = 0
  PROVE  DebitOf(calls) = 0
  <1>1. PICK S : S = DOMAIN calls
    OBVIOUS
  <1>2. \A s \in SUBSET S : s # {} => Batches!Max(s) \in s
    BY <1>1, LastOne
  <1>3. \A i \in S : Batches!Debit(calls[i]) = 0
    BY <1>1
  <1>4. \E h : Sums(calls, h)
    <2> DEFINE h == [s \in SUBSET S |-> 0]
    <2>1. ASSUME NEW s \in SUBSET S, s # {}
          PROVE  h[s \ {Batches!Max(s)}] + Batches!Debit(calls[Batches!Max(s)]) = 0
      <3>1. Batches!Debit(calls[Batches!Max(s)]) = 0
        BY <1>2, <1>3, <2>1
      <3>2. h[s \ {Batches!Max(s)}] = 0
        OBVIOUS
      <3> QED BY <3>1, <3>2
    <2>2. h = [s \in SUBSET S |-> IF s = {} THEN 0
                 ELSE h[s \ {Batches!Max(s)}] + Batches!Debit(calls[Batches!Max(s)])]
      BY <2>1
    <2>3. Sums(calls, h)
      BY <1>1, <2>2 DEF Sums
    <2> QED BY <2>3
  <1>5. PICK h : Sums(calls, h) /\ DebitOf(calls) = h[S]
    BY <1>1, <1>4, DebitIs
  <1>6. IsFiniteSet(S)
    BY <1>1, FS_Interval
  <1>7. \A s \in SUBSET S : IsFiniteSet(s) /\ Cardinality(s) \in Nat
    BY <1>6, FS_Subset, FS_CardinalityType
  <1> DEFINE Wrong == {s \in SUBSET S : h[s] # 0}
             Sizes == {Cardinality(s) : s \in Wrong}
  <1>8. Wrong = {}
    <2> SUFFICES ASSUME Wrong # {} PROVE FALSE
      OBVIOUS
    <2>1. Sizes \subseteq Nat /\ Sizes # {}
      BY <1>7
    <2>2. PICK k \in Sizes : \A m \in Sizes : k <= m
      BY <2>1, First
    <2>3. PICK s \in Wrong : k = Cardinality(s)
      BY <2>2
    <2>4. h[s] = IF s = {} THEN 0
                 ELSE h[s \ {Batches!Max(s)}] + Batches!Debit(calls[Batches!Max(s)])
      BY <1>1, <1>5, <2>3 DEF Sums
    <2>5. s # {}
      BY <2>3, <2>4
    <2>6. PICK x : x = Batches!Max(s)
      OBVIOUS
    <2>7. x \in s /\ Batches!Debit(calls[x]) = 0
      BY <1>2, <1>3, <2>3, <2>5, <2>6
    <2>8. PICK t : t = s \ {x}
      OBVIOUS
    <2>9. t \in SUBSET S /\ Cardinality(t) = k - 1 /\ k \in Nat /\ Cardinality(t) \in Nat
      <3>1. IsFiniteSet(s) /\ k \in Nat
        BY <1>7, <2>3
      <3>2. t \in SUBSET S /\ Cardinality(t) = Cardinality(s) - 1
        BY <2>3, <2>7, <2>8, <3>1, FS_RemoveElement
      <3> QED BY <1>7, <2>3, <3>1, <3>2
    <2>10. t \notin Wrong
      <3> SUFFICES ASSUME t \in Wrong PROVE FALSE
        OBVIOUS
      <3>1. k <= Cardinality(t)
        BY <2>2
      <3> QED BY <2>9, <3>1
    <2>11. h[t] = 0
      BY <2>9, <2>10
    <2>12. h[s] = 0
      BY <2>4, <2>5, <2>6, <2>7, <2>8, <2>11
    <2> QED BY <2>3, <2>12
  <1>9. S \notin Wrong
    BY <1>8
  <1> QED BY <1>5, <1>9

LEMMA OneDebit ==
  ASSUME NEW c, Batches!Debit(c) \in Nat
  PROVE  DebitOf(<<c>>) = Batches!Debit(c)
  <1>1. PICK calls : calls = <<c>>
    OBVIOUS
  <1>2. DOMAIN calls = 1..1 /\ calls[1] = c
    BY <1>1
  <1>3. PICK n \in Nat : n = Batches!Debit(c)
    OBVIOUS
  <1>4. PICK S : S = {1}
    OBVIOUS
  <1>5. DOMAIN calls = S /\ {1} \in SUBSET (1..1)
    BY <1>2, <1>4
  <1>6. \A s \in SUBSET S : s # {} => s = {1} /\ Batches!Max(s) = 1
    <2>1. Batches!Max({1}) \in {1}
      BY <1>5, LastOne
    <2> QED BY <1>4, <2>1
  <1>7. \E h : Sums(calls, h)
    <2> DEFINE h == [s \in SUBSET S |-> IF s = {} THEN 0 ELSE n]
    <2>1. ASSUME NEW s \in SUBSET S, s # {}
          PROVE  h[s \ {Batches!Max(s)}] + Batches!Debit(calls[Batches!Max(s)]) = n
      <3>1. s \ {Batches!Max(s)} = {}
        BY <1>6, <2>1
      <3>2. h[{}] = 0
        OBVIOUS
      <3>3. Batches!Debit(calls[Batches!Max(s)]) = n
        BY <1>2, <1>3, <1>6, <2>1
      <3> QED BY <3>1, <3>2, <3>3
    <2>2. h = [s \in SUBSET S |-> IF s = {} THEN 0
                 ELSE h[s \ {Batches!Max(s)}] + Batches!Debit(calls[Batches!Max(s)])]
      BY <2>1
    <2>3. Sums(calls, h)
      BY <1>5, <2>2 DEF Sums
    <2> QED BY <2>3
  <1>8. PICK h : Sums(calls, h) /\ DebitOf(calls) = h[S]
    BY <1>5, <1>7, DebitIs
  <1>9. h[{}] = 0
    BY <1>8 DEF Sums
  <1>10. h[S] = h[S \ {1}] + n
    <2>1. S # {} /\ S \in SUBSET S
      BY <1>4
    <2>2. Batches!Max(S) = 1
      BY <1>6, <2>1
    <2>3. h[S] = h[S \ {Batches!Max(S)}] + Batches!Debit(calls[Batches!Max(S)])
      BY <1>5, <1>8, <2>1 DEF Sums
    <2> QED BY <1>2, <1>3, <2>2, <2>3
  <1>11. S \ {1} = {}
    BY <1>4
  <1>12. h[S] = n
    BY <1>9, <1>10, <1>11
  <1> QED BY <1>1, <1>3, <1>8, <1>12

LEMMA SameCount == \A S : Batches!Cardinality(S) = Cardinality(S)
  BY DEF Batches!Cardinality, Cardinality

(* SetToSeq lists a finite set, each member once.                          *)
LEMMA Listed ==
  ASSUME NEW S, IsFiniteSet(S)
  PROVE  /\ Cardinality(S) \in Nat
         /\ Batches!SetToSeq(S) \in [1..Cardinality(S) -> S]
         /\ \A x \in S : \E i \in 1..Cardinality(S) : Batches!SetToSeq(S)[i] = x
  <1>1. PICK n \in Nat : n = Cardinality(S)
    BY FS_CardinalityType
  <1>2. ExistsBijection(1..n, S)
    BY <1>1, FS_CardinalityType
  <1>3. PICK g \in Bijection(1..n, S) : TRUE
    BY <1>2 DEF ExistsBijection
  <1>4. g \in [1..n -> S] /\ Batches!IsInjective(g)
    BY <1>3 DEF Bijection, Injection, IsInjective, Batches!IsInjective
  <1>5. PICK f \in [1..n -> S] : f = Batches!SetToSeq(S) /\ Batches!IsInjective(f)
    <2>1. Batches!SetToSeq(S) = CHOOSE f \in [1..n -> S] : Batches!IsInjective(f)
      BY <1>1, SameCount DEF Batches!SetToSeq
    <2> QED BY <1>4, <2>1
  <1>6. f \in Injection(1..n, S)
    BY <1>5 DEF Injection, IsInjective, Batches!IsInjective
  <1>7. Cardinality(1..n) = n
    <2>1. 1 \in Int /\ n \in Int
      OBVIOUS
    <2>2. Cardinality(1..n) = IF 1 > n THEN 0 ELSE n - 1 + 1
      BY <2>1, FS_Interval
    <2> QED BY <2>2
  <1>8. f \in Surjection(1..n, S)
    BY <1>1, <1>6, <1>7, FS_Injection
  <1> QED BY <1>1, <1>5, <1>8 DEF Surjection

-----------------------------------------------------------------------------
(* The batches that wallet_batch_effects does not refuse.                  *)

(* A call whose effects can be stated, and the bound of what it moves.     *)
Stated(c) ==
  /\ c.op \in {"transfer", "approve", "operator", "redeem"}
  /\ c.op = "transfer" => c.to = "owner" /\ c.amount \in 1..Funds
  /\ c.op = "approve" => c.to \in Batches!PUSD_SPENDERS /\ c.amount \in {0, MaxAllowance}
  /\ c.op = "operator" => c.to \in Batches!CTF_OPERATORS /\ c.on \in BOOLEAN
  /\ c.op = "redeem" => c.to \in Batches!Adapters

StatedBatch(calls) ==
  /\ \E n \in Nat : DOMAIN calls = 1..n
  /\ \A i \in DOMAIN calls : Stated(calls[i])
  /\ DebitOf(calls) \in 0..Funds
  /\ DebitOf(calls) # 0 => \E i \in DOMAIN calls : calls[i].op = "transfer"

(* Every single call that may be prepared.                                 *)
Singles ==
  {Batches!Transfer("owner", n) : n \in 1..Funds} \cup Batches!Call
    \cup {Batches!Redeem(a) : a \in Batches!Adapters}
    \cup {Batches!Approve(a, n) : a \in Callees, n \in {0, MaxAllowance}}

LEMMA SingleIsStated ==
  ASSUME Batches!ClaimsConstants, NEW c \in Singles, Batches!Known(c)
  PROVE  StatedBatch(<<c>>)
  <1>1. Stated(c)
    <2>1. CASE \E n \in 1..Funds : c = Batches!Transfer("owner", n)
      BY <2>1 DEF Stated, Batches!Transfer
    <2>2. CASE c \in Batches!Call
      BY <2>2 DEF Stated, Batches!Call, Batches!Known
    <2>3. CASE \E a \in Batches!Adapters : c = Batches!Redeem(a)
      BY <2>3 DEF Stated, Batches!Redeem
    <2>4. CASE \E a \in Callees, n \in {0, MaxAllowance} : c = Batches!Approve(a, n)
      BY <2>4 DEF Stated, Batches!Approve, Batches!Known
    <2> QED BY <2>1, <2>2, <2>3, <2>4 DEF Singles
  <1>2. Batches!Debit(c) \in Nat /\ Batches!Debit(c) \in 0..Funds
    BY <1>1 DEF Batches!Debit, Stated, Batches!ClaimsConstants
  <1>3. DebitOf(<<c>>) = Batches!Debit(c)
    BY <1>2, OneDebit
  <1>4. PICK calls : calls = <<c>>
    OBVIOUS
  <1>5. DOMAIN calls = 1..1 /\ calls[1] = c /\ \A i \in 1..1 : i = 1
    BY <1>4
  <1>6. Batches!Debit(c) # 0 => c.op = "transfer"
    BY DEF Batches!Debit
  <1>7. StatedBatch(calls)
    BY <1>1, <1>2, <1>3, <1>4, <1>5, <1>6 DEF StatedBatch
  <1> QED BY <1>4, <1>7

(* What approval_calls and revoke_calls give: a call for every spender and *)
(* one for every operator.                                                 *)
CoversAll(calls, n, on) ==
  /\ \A i \in DOMAIN calls :
       \/ \E s \in Batches!PUSD_SPENDERS : calls[i] = Batches!Approve(s, n)
       \/ \E s \in Batches!CTF_OPERATORS : calls[i] = Batches!Operator(s, on)
  /\ \A s \in Batches!PUSD_SPENDERS : \E i \in DOMAIN calls : calls[i] = Batches!Approve(s, n)
  /\ \A s \in Batches!CTF_OPERATORS : \E i \in DOMAIN calls : calls[i] = Batches!Operator(s, on)

LEMMA CallsCover ==
  ASSUME NEW n, NEW on
  PROVE  /\ CoversAll(Batches!CallsOver(Batches!PUSD_SPENDERS, n, on), n, on)
         /\ \E m \in Nat : DOMAIN Batches!CallsOver(Batches!PUSD_SPENDERS, n, on) = 1..m
  <1>1. PICK P : P = Batches!PUSD_SPENDERS
    OBVIOUS
  <1>2. PICK C : C = Batches!CTF_OPERATORS
    OBVIOUS
  <1>3. IsFiniteSet(P) /\ IsFiniteSet(C)
    <2>1. IsFiniteSet({})
      BY FS_EmptySet
    <2>2. IsFiniteSet({"ctf_exchange"})
      BY FS_Singleton
    <2>3. IsFiniteSet({"ctf_exchange"} \cup {"neg_risk_exchange"})
      BY <2>2, FS_AddElement
    <2>4. IsFiniteSet({"ctf_exchange"} \cup {"neg_risk_exchange"} \cup {"neg_risk_adapter"})
      BY <2>3, FS_AddElement
    <2>5. IsFiniteSet({"ctf_exchange"} \cup {"neg_risk_exchange"} \cup {"neg_risk_adapter"}
                        \cup {"collateral_adapter"})
      BY <2>4, FS_AddElement
    <2>6. IsFiniteSet({"ctf_exchange"} \cup {"neg_risk_exchange"} \cup {"neg_risk_adapter"}
                        \cup {"collateral_adapter"} \cup {"neg_risk_collateral_adapter"})
      BY <2>5, FS_AddElement
    <2>7. P = {"ctf_exchange"} \cup {"neg_risk_exchange"} \cup {"neg_risk_adapter"}
                \cup {"collateral_adapter"} \cup {"neg_risk_collateral_adapter"}
      BY <1>1 DEF Batches!PUSD_SPENDERS
    <2>8. IsFiniteSet(P)
      BY <2>6, <2>7
    <2>9. C \in SUBSET P
      BY <1>1, <1>2 DEF Batches!CTF_OPERATORS
    <2> QED BY <2>8, <2>9, FS_Subset
  <1>p. PICK p \in Nat : p = Cardinality(P)
    BY <1>3, Listed
  <1>4. PICK f \in [1..p -> P] :
          f = Batches!SetToSeq(P) /\ \A s \in P : \E i \in 1..p : f[i] = s
    BY <1>3, <1>p, Listed
  <1>q. PICK q \in Nat : q = Cardinality(C)
    BY <1>3, Listed
  <1>5. PICK g \in [1..q -> C] :
          g = Batches!SetToSeq(C) /\ \A s \in C : \E i \in 1..q : g[i] = s
    BY <1>3, <1>q, Listed
  <1>6. PICK u : u = [i \in 1..p |-> Batches!Approve(f[i], n)]
    OBVIOUS
  <1>7. PICK v : v = [i \in 1..q |-> Batches!Operator(g[i], on)]
    OBVIOUS
  <1>8. PICK A : A = {Batches!Approve(s, n) : s \in P} \cup {Batches!Operator(s, on) : s \in C}
    OBVIOUS
  <1>9. u \in Seq(A) /\ Len(u) = p /\ \A i \in 1..p : u[i] = Batches!Approve(f[i], n)
    BY <1>6, <1>8
  <1>10. v \in Seq(A) /\ Len(v) = q /\ \A i \in 1..q : v[i] = Batches!Operator(g[i], on)
    BY <1>7, <1>8
  <1>11. PICK calls : calls = u \o v
    OBVIOUS
  <1>12. /\ calls \in Seq(A) /\ Len(calls) = p + q
         /\ \A i \in 1..(p + q) : calls[i] = IF i <= p THEN u[i] ELSE v[i - p]
    BY <1>9, <1>10, <1>11, ConcatProperties
  <1>13. DOMAIN calls = 1..(p + q) /\ p + q \in Nat
    BY <1>12
  <1>14. calls = Batches!CallsOver(Batches!PUSD_SPENDERS, n, on)
    <2>1. DOMAIN f = 1..p /\ DOMAIN g = 1..q
      OBVIOUS
    <2> QED BY <1>1, <1>2, <1>4, <1>5, <1>6, <1>7, <1>11, <2>1 DEF Batches!CallsOver
  <1>15. ASSUME NEW i \in DOMAIN calls
         PROVE  \/ \E s \in P : calls[i] = Batches!Approve(s, n)
                \/ \E s \in C : calls[i] = Batches!Operator(s, on)
    <2>1. calls[i] \in A
      BY <1>12
    <2> QED BY <1>8, <2>1
  <1>16. ASSUME NEW s \in P
         PROVE  \E i \in DOMAIN calls : calls[i] = Batches!Approve(s, n)
    <2>1. PICK i \in 1..p : f[i] = s
      BY <1>4
    <2>2. i \in 1..(p + q) /\ i <= p
      OBVIOUS
    <2>3. calls[i] = u[i]
      BY <1>12, <2>2
    <2> QED BY <1>9, <1>13, <2>1, <2>2, <2>3
  <1>17. ASSUME NEW s \in C
         PROVE  \E i \in DOMAIN calls : calls[i] = Batches!Operator(s, on)
    <2>1. PICK k \in 1..q : g[k] = s
      BY <1>5
    <2>2. PICK i \in 1..(p + q) : i = p + k /\ ~(i <= p) /\ i - p = k
      OBVIOUS
    <2>3. calls[i] = v[k]
      BY <1>12, <2>2
    <2> QED BY <1>10, <1>13, <2>1, <2>3
  <1>18. CoversAll(calls, n, on)
    BY <1>1, <1>2, <1>15, <1>16, <1>17 DEF CoversAll
  <1> QED BY <1>13, <1>14, <1>18

LEMMA CoveringIsStated ==
  ASSUME Batches!ClaimsConstants, NEW n \in {0, MaxAllowance}, NEW on \in BOOLEAN,
         NEW calls, CoversAll(calls, n, on), NEW m \in Nat, DOMAIN calls = 1..m
  PROVE  StatedBatch(calls)
  <1>1. ASSUME NEW i \in 1..m
        PROVE  Stated(calls[i]) /\ Batches!Debit(calls[i]) = 0
    <2>1. CASE \E s \in Batches!PUSD_SPENDERS : calls[i] = Batches!Approve(s, n)
      BY <2>1 DEF Stated, Batches!Approve, Batches!Debit
    <2>2. CASE \E s \in Batches!CTF_OPERATORS : calls[i] = Batches!Operator(s, on)
      BY <2>2 DEF Stated, Batches!Operator, Batches!Debit
    <2> QED BY <2>1, <2>2 DEF CoversAll
  <1>2. DebitOf(calls) = 0
    BY <1>1, NoDebit
  <1>3. 0 \in 0..Funds
    BY DEF Batches!ClaimsConstants
  <1> QED BY <1>1, <1>2, <1>3 DEF StatedBatch

IsBatch(calls) ==
  \/ calls = Batches!ApprovalCalls \/ calls = Batches!RevokeCalls
  \/ \E c \in Singles : calls = <<c>>

(* The effects a batch is signed with are what it does.                    *)
Tells(c, calls) ==
  /\ c.debit = DebitOf(calls)
  /\ \A i \in DOMAIN calls : Batches!Names(calls[i]) => c.moves /\ calls[i].to \in c.to
  /\ c.moves => \E i \in DOMAIN calls : Batches!Names(calls[i])

LEMMA BatchIsStated ==
  ASSUME Batches!ClaimsConstants, NEW calls, IsBatch(calls), Batches!Effects(calls) # None
  PROVE  StatedBatch(calls)
  <1>1. CASE calls = Batches!ApprovalCalls
    <2>1. PICK on \in BOOLEAN, n \in {0, MaxAllowance} :
            calls = Batches!CallsOver(Batches!PUSD_SPENDERS, n, on)
      BY <1>1 DEF Batches!ApprovalCalls
    <2> QED BY <2>1, CallsCover, CoveringIsStated
  <1>2. CASE calls = Batches!RevokeCalls
    <2>1. PICK on \in BOOLEAN, n \in {0, MaxAllowance} :
            calls = Batches!CallsOver(Batches!PUSD_SPENDERS, n, on)
      BY <1>2 DEF Batches!RevokeCalls
    <2> QED BY <2>1, CallsCover, CoveringIsStated
  <1>3. CASE \E c \in Singles : calls = <<c>>
    <2>1. PICK c \in Singles : calls = <<c>>
      BY <1>3
    <2>2. DOMAIN calls = {1} /\ calls[1] = c
      BY <2>1
    <2>3. Batches!Known(c)
      BY <2>2 DEF Batches!Effects
    <2> QED BY <2>1, <2>3, SingleIsStated
  <1> QED BY <1>1, <1>2, <1>3 DEF IsBatch

LEMMA EffectsTell ==
  ASSUME Batches!ClaimsConstants, NEW calls, IsBatch(calls), Batches!Effects(calls) # None
  PROVE  Tells(Batches!Effects(calls), calls) /\ Batches!Effects(calls) \in Batches!ClaimEffects
  <1>1. PICK naming : naming = {c \in {calls[i] : i \in DOMAIN calls} : Batches!Names(c)}
    OBVIOUS
  <1>2. PICK e : e = Batches!Effects(calls)
    OBVIOUS
  <1>3. e = [moves |-> naming # {}, debit |-> DebitOf(calls), to |-> {c.to : c \in naming}]
    BY <1>1, <1>2 DEF Batches!Effects, DebitOf
  <1>4. \A c \in naming : \E i \in DOMAIN calls : c = calls[i] /\ Batches!Names(calls[i])
    BY <1>1
  <1>5. \A i \in DOMAIN calls : Batches!Names(calls[i]) => calls[i] \in naming
    BY <1>1
  <1>6. e.debit = DebitOf(calls) /\ e.to = {c.to : c \in naming} /\ (e.moves <=> naming # {})
    BY <1>3
  <1>7. Tells(e, calls)
    BY <1>4, <1>5, <1>6 DEF Tells
  <1>8. StatedBatch(calls)
    BY BatchIsStated
  <1>9. DebitOf(calls) \in 0..MaxAllowance
    BY <1>8 DEF StatedBatch, Batches!ClaimsConstants
  <1>10. ASSUME NEW c \in naming
         PROVE  c.to \in Batches!Addresses \ {"stranger"}
    <2>1. Stated(c) /\ Batches!Names(c)
      BY <1>4, <1>8 DEF StatedBatch
    <2> QED BY <2>1 DEF Stated, Batches!Names, Batches!Addresses, Batches!PUSD_SPENDERS,
              Batches!CTF_OPERATORS, Batches!Adapters
  <1>11. e \in Batches!ClaimEffects
    <2>1. {c.to : c \in naming} \in SUBSET (Batches!Addresses \ {"stranger"})
      BY <1>10
    <2>2. (naming # {}) \in BOOLEAN
      OBVIOUS
    <2> QED BY <1>3, <1>9, <2>1, <2>2 DEF Batches!ClaimEffects
  <1> QED BY <1>2, <1>7, <1>11

-----------------------------------------------------------------------------
(* The inductive invariant.                                                *)

WalletOK ==
  /\ pusd \in 0..Funds /\ positions \in BOOLEAN
  /\ allowance \in [Batches!Addresses -> 0..MaxAllowance]
  /\ operators \in SUBSET Batches!CTF_OPERATORS
  /\ stated \in SUBSET Batches!Addresses

(* Allowances are of spenders, and what is taken under one was pUSD.       *)
AllowancesOK ==
  \A s \in Batches!Addresses :
    allowance[s] # 0 =>
      s \in Batches!PUSD_SPENDERS /\ allowance[s] + Funds >= MaxAllowance + pusd

BatchOK == batch # None => IsBatch(batch)

ClaimOK ==
  effects # None =>
    /\ batch # None /\ Batches!Effects(batch) # None
    /\ effects = Batches!Effects(batch) /\ effects.to \subseteq stated

(* Whoever may move something was given by the effects of a signed batch.  *)
Given == Batches!Authority \subseteq stated

ClaimInv == WalletOK /\ AllowancesOK /\ BatchOK /\ ClaimOK /\ Given

LEMMA ClaimParts ==
  ASSUME Batches!ClaimsConstants
  PROVE  /\ Funds \in Nat /\ Floor \in Nat /\ MaxAllowance \in Nat /\ Floor > 0
         /\ Floor + Funds <= MaxAllowance
         /\ Batches!PUSD_SPENDERS \subseteq Batches!Addresses
         /\ Batches!CTF_OPERATORS \subseteq Batches!PUSD_SPENDERS
  BY DEF Batches!ClaimsConstants, Batches!Addresses, Batches!CTF_OPERATORS

(* What a signed batch is.                                                 *)
LEMMA Approved ==
  ASSUME Batches!ClaimsConstants, ClaimInv, effects # None
  PROVE  StatedBatch(batch) /\ Tells(effects, batch) /\ effects \in Batches!ClaimEffects
  BY BatchIsStated, EffectsTell DEF ClaimInv, ClaimOK, BatchOK

LEMMA TransferredIs == Batches!Transferred = DebitOf(batch)
  BY DEF Batches!Transferred, DebitOf, Batches!Debit, Batches!FoldLeft,
     Batches!MapThenFoldSet

(* The last call about an address is one of them.                          *)
LEMMA LastIs ==
  ASSUME StatedBatch(batch), NEW op, NEW s, Batches!CallsAbout(op, s) # {}
  PROVE  \E i \in DOMAIN batch :
           batch[i].op = op /\ batch[i].to = s /\ Batches!LastAbout(op, s) = batch[i]
  <1>1. PICK n \in Nat : DOMAIN batch = 1..n
    BY DEF StatedBatch
  <1>2. PICK T \in SUBSET (1..n) : T = Batches!CallsAbout(op, s)
    BY <1>1 DEF Batches!CallsAbout
  <1>3. Batches!Max(T) \in T
    BY <1>2, LastOne
  <1> QED BY <1>1, <1>2, <1>3 DEF Batches!LastAbout, Batches!CallsAbout

(* What an executed batch leaves: of each address, what it was, or what a  *)
(* call about it set.                                                      *)
Executes ==
  /\ pusd' = pusd - DebitOf(batch)
  /\ positions' = (positions /\ ~\E i \in DOMAIN batch : batch[i].op = "redeem")
  /\ allowance' \in [Batches!Addresses -> 0..MaxAllowance]
  /\ operators' \subseteq Batches!Addresses
  /\ \A s \in Batches!Addresses :
       \/ allowance'[s] = allowance[s] /\ Batches!CallsAbout("approve", s) = {}
       \/ \E i \in DOMAIN batch :
            /\ batch[i].op = "approve" /\ batch[i].to = s
            /\ allowance'[s] = batch[i].amount
  /\ \A s \in Batches!Addresses :
       \/ (s \in operators' <=> s \in operators) /\ Batches!CallsAbout("operator", s) = {}
       \/ \E i \in DOMAIN batch :
            /\ batch[i].op = "operator" /\ batch[i].to = s
            /\ (s \in operators' <=> batch[i].on)

LEMMA Run ==
  ASSUME Batches!ClaimsConstants, WalletOK, StatedBatch(batch), Batches!Executed
  PROVE  Executes
  <1>1. pusd' = pusd - DebitOf(batch)
    BY TransferredIs DEF Batches!Executed
  <1>2. positions' = (positions /\ ~\E i \in DOMAIN batch : batch[i].op = "redeem")
    BY DEF Batches!Executed
  <1>3. ASSUME NEW s \in Batches!Addresses
        PROVE  \/ allowance'[s] = allowance[s] /\ Batches!CallsAbout("approve", s) = {}
               \/ \E i \in DOMAIN batch :
                    /\ batch[i].op = "approve" /\ batch[i].to = s
                    /\ allowance'[s] = batch[i].amount
    <2>1. allowance'[s] = IF Batches!CallsAbout("approve", s) = {} THEN allowance[s]
                          ELSE Batches!LastAbout("approve", s).amount
      BY DEF Batches!Executed
    <2>2. CASE Batches!CallsAbout("approve", s) = {}
      BY <2>1, <2>2
    <2>3. CASE Batches!CallsAbout("approve", s) # {}
      BY <2>1, <2>3, LastIs
    <2> QED BY <2>2, <2>3
  <1>4. ASSUME NEW s \in Batches!Addresses
        PROVE  allowance'[s] \in 0..MaxAllowance
    <2>1. CASE allowance'[s] = allowance[s]
      BY <2>1 DEF WalletOK
    <2>2. ASSUME NEW i \in DOMAIN batch, batch[i].op = "approve", allowance'[s] = batch[i].amount
          PROVE  allowance'[s] \in 0..MaxAllowance
      BY <2>2, ClaimParts DEF StatedBatch, Stated
    <2> QED BY <1>3, <2>1, <2>2
  <1>5. allowance' \in [Batches!Addresses -> 0..MaxAllowance]
    <2>1. allowance' = [s \in Batches!Addresses |-> allowance'[s]]
      BY DEF Batches!Executed
    <2> QED BY <1>4, <2>1
  <1>6. operators' \subseteq Batches!Addresses
    BY DEF Batches!Executed
  <1>7. ASSUME NEW s \in Batches!Addresses
        PROVE  \/ (s \in operators' <=> s \in operators) /\ Batches!CallsAbout("operator", s) = {}
               \/ \E i \in DOMAIN batch :
                    /\ batch[i].op = "operator" /\ batch[i].to = s
                    /\ (s \in operators' <=> batch[i].on)
    <2>1. s \in operators' <=> IF Batches!CallsAbout("operator", s) = {} THEN s \in operators
                               ELSE Batches!LastAbout("operator", s).on
      BY DEF Batches!Executed
    <2>2. CASE Batches!CallsAbout("operator", s) = {}
      BY <2>1, <2>2
    <2>3. CASE Batches!CallsAbout("operator", s) # {}
      BY <2>1, <2>3, LastIs
    <2> QED BY <2>2, <2>3
  <1> QED BY <1>1, <1>2, <1>3, <1>5, <1>6, <1>7 DEF Executes

(* Who may move something after a batch may do so before it, or is named.   *)
LEMMA GrantsNamed ==
  ASSUME Batches!ClaimsConstants, ClaimInv, StatedBatch(batch), Executes,
         NEW s \in Batches!Authority'
  PROVE  \/ s \in Batches!Authority
         \/ \E i \in DOMAIN batch : Batches!Names(batch[i]) /\ batch[i].to = s
  <1>1. s \in Batches!Addresses /\ (allowance'[s] > 0 \/ s \in operators')
    BY DEF Batches!Authority
  <1>2. CASE allowance'[s] > 0
    <2>1. CASE allowance'[s] = allowance[s]
      BY <1>1, <1>2, <2>1 DEF Batches!Authority
    <2>2. ASSUME NEW i \in DOMAIN batch, batch[i].op = "approve", batch[i].to = s,
                 allowance'[s] = batch[i].amount
          PROVE  Batches!Names(batch[i])
      BY <1>2, <2>2 DEF Batches!Names
    <2> QED BY <1>1, <2>1, <2>2 DEF Executes
  <1>3. CASE s \in operators'
    <2>1. CASE s \in operators' <=> s \in operators
      BY <1>1, <1>3, <2>1 DEF Batches!Authority
    <2>2. ASSUME NEW i \in DOMAIN batch, batch[i].op = "operator", batch[i].to = s,
                 s \in operators' <=> batch[i].on
          PROVE  Batches!Names(batch[i])
      BY <1>3, <2>2 DEF Batches!Names
    <2> QED BY <1>1, <2>1, <2>2 DEF Executes
  <1> QED BY <1>1, <1>2, <1>3

(* An executed batch keeps the wallet within the stated effects.           *)
LEMMA ExecutedKeeps ==
  ASSUME Batches!ClaimsConstants, ClaimInv, effects # None, Batches!Executed,
         pusd >= Batches!Transferred, stated' = stated
  PROVE  WalletOK' /\ AllowancesOK' /\ Given'
  <1>1. StatedBatch(batch) /\ Tells(effects, batch) /\ effects.to \subseteq stated
    BY Approved DEF ClaimInv, ClaimOK
  <1>2. Executes
    BY <1>1, Run DEF ClaimInv
  <1>3. pusd' \in 0..Funds /\ pusd' <= pusd
    <2>1. PICK d \in Nat : d = DebitOf(batch)
      BY <1>1, ClaimParts DEF StatedBatch
    <2>2. pusd \in Nat /\ pusd <= Funds /\ pusd >= d
      BY <2>1, ClaimParts, TransferredIs DEF ClaimInv, WalletOK
    <2>3. pusd - d \in 0..Funds /\ pusd - d <= pusd
      BY <2>2, ClaimParts
    <2> QED BY <1>2, <2>1, <2>3 DEF Executes
  <1>4. ASSUME NEW s \in operators'
        PROVE  s \in Batches!CTF_OPERATORS
    <2>1. s \in Batches!Addresses
      BY <1>2 DEF Executes
    <2>2. CASE s \in operators' <=> s \in operators
      BY <1>4, <2>2 DEF ClaimInv, WalletOK
    <2>3. ASSUME NEW i \in DOMAIN batch, batch[i].op = "operator", batch[i].to = s
          PROVE  s \in Batches!CTF_OPERATORS
      BY <1>1, <2>3 DEF StatedBatch, Stated
    <2> QED BY <1>2, <2>1, <2>2, <2>3 DEF Executes
  <1>5. positions' \in BOOLEAN
    BY <1>2 DEF Executes
  <1>6. WalletOK'
    BY <1>2, <1>3, <1>4, <1>5 DEF WalletOK, Executes, ClaimInv
  <1>7. AllowancesOK'
    <2> SUFFICES ASSUME NEW s \in Batches!Addresses, allowance'[s] # 0
                 PROVE  /\ s \in Batches!PUSD_SPENDERS
                        /\ allowance'[s] + Funds >= MaxAllowance + pusd'
      BY DEF AllowancesOK
    <2>1. PICK u \in Nat : u = pusd' /\ u <= pusd /\ u <= Funds
      BY <1>3, ClaimParts
    <2>2. CASE allowance'[s] = allowance[s]
      <3>1. s \in Batches!PUSD_SPENDERS /\ allowance[s] + Funds >= MaxAllowance + pusd
        BY <2>2 DEF ClaimInv, AllowancesOK
      <3>2. allowance[s] \in Nat /\ pusd \in Nat
        BY ClaimParts DEF ClaimInv, WalletOK
      <3>3. allowance[s] + Funds >= MaxAllowance + u
        BY <2>1, <3>1, <3>2, ClaimParts
      <3> QED BY <2>1, <2>2, <3>1, <3>3
    <2>3. ASSUME NEW i \in DOMAIN batch, batch[i].op = "approve", batch[i].to = s,
                 allowance'[s] = batch[i].amount
          PROVE  /\ s \in Batches!PUSD_SPENDERS
                 /\ allowance'[s] + Funds >= MaxAllowance + u
      <3>1. s \in Batches!PUSD_SPENDERS /\ allowance'[s] = MaxAllowance
        BY <1>1, <2>3 DEF StatedBatch, Stated
      <3> QED BY <2>1, <3>1, ClaimParts
    <2> QED BY <1>2, <2>1, <2>2, <2>3 DEF Executes
  <1>8. Given'
    <2> SUFFICES ASSUME NEW s \in Batches!Authority' PROVE s \in stated
      BY DEF Given
    <2>1. CASE s \in Batches!Authority
      BY <2>1 DEF ClaimInv, Given
    <2>2. CASE \E i \in DOMAIN batch : Batches!Names(batch[i]) /\ batch[i].to = s
      BY <1>1, <2>2 DEF Tells
    <2> QED BY <1>1, <1>2, <2>1, <2>2, GrantsNamed
  <1> QED BY <1>6, <1>7, <1>8

LEMMA ClaimStart ==
  ASSUME Batches!ClaimsConstants, Batches!Init
  PROVE  ClaimInv
  <1>1. WalletOK
    BY ClaimParts DEF Batches!Init, WalletOK
  <1>2. AllowancesOK /\ BatchOK /\ ClaimOK
    BY DEF Batches!Init, AllowancesOK, BatchOK, ClaimOK
  <1>3. Given
    BY DEF Batches!Init, Given, Batches!Authority
  <1> QED BY <1>1, <1>2, <1>3 DEF ClaimInv

LEMMA WalletStays ==
  ASSUME ClaimInv, UNCHANGED Batches!wallet, stated \subseteq stated',
         stated' \in SUBSET Batches!Addresses
  PROVE  WalletOK' /\ AllowancesOK' /\ Given'
  BY DEF ClaimInv, WalletOK, AllowancesOK, Given, Batches!Authority,
     Batches!wallet

LEMMA ClaimStep ==
  ASSUME Batches!ClaimsConstants, ClaimInv, [Batches!Next]_(Batches!vars)
  PROVE  ClaimInv'
  <1>0. stated \in SUBSET Batches!Addresses
    BY DEF ClaimInv, WalletOK
  <1>1. CASE Batches!PrepareSome
    <2>1. PICK calls : Batches!Prepare(calls) /\ IsBatch(calls)
      <3>1. ASSUME NEW n \in Batches!WithdrawAmounts
            PROVE  n \in 1..Funds
        <4>1. pusd \in Nat /\ pusd <= Funds
          BY ClaimParts DEF ClaimInv, WalletOK
        <4> QED BY <4>1, ClaimParts DEF Batches!WithdrawAmounts
      <3>2. CASE Batches!Prepare(Batches!ApprovalCalls) \/ Batches!Prepare(Batches!RevokeCalls)
        BY <3>2 DEF IsBatch
      <3>3. ASSUME NEW c \in Singles, Batches!Prepare(<<c>>)
            PROVE  \E calls : Batches!Prepare(calls) /\ IsBatch(calls)
        BY <3>3 DEF IsBatch
      <3>4. CASE \E a \in Batches!Adapters : Batches!Prepare(<<Batches!Redeem(a)>>)
        BY <3>3, <3>4 DEF Singles
      <3>5. CASE \E n \in Batches!WithdrawAmounts :
                   Batches!Prepare(<<Batches!Transfer("owner", n)>>)
        BY <3>1, <3>3, <3>5 DEF Singles
      <3>6. CASE \E c \in Batches!Call : Batches!Prepare(<<c>>)
        BY <3>3, <3>6 DEF Singles
      <3>7. CASE \E a \in Callees, n \in {0, MaxAllowance} :
                   Batches!Prepare(<<Batches!Approve(a, n)>>)
        BY <3>3, <3>7 DEF Singles
      <3> QED BY <1>1, <3>2, <3>4, <3>5, <3>6, <3>7 DEF Batches!PrepareSome
    <2>2. /\ batch = None /\ batch' = calls /\ effects' = effects /\ stated' = stated
          /\ UNCHANGED Batches!wallet
      BY <2>1 DEF Batches!Prepare
    <2>3. WalletOK' /\ AllowancesOK' /\ Given'
      BY <1>0, <2>2, WalletStays
    <2>4. BatchOK' /\ ClaimOK'
      BY <2>1, <2>2 DEF ClaimInv, BatchOK, ClaimOK, IsBatch
    <2> QED BY <2>3, <2>4 DEF ClaimInv
  <1>2. CASE Batches!Sign
    <2>1. PICK e : e = Batches!Effects(batch)
      OBVIOUS
    <2>2. UNCHANGED Batches!wallet /\ batch # None /\ effects = None
      BY <1>2 DEF Batches!Sign
    <2>3. CASE e = None
      <3>1. batch' = None /\ effects' = effects /\ stated' = stated
        BY <1>2, <2>1, <2>3 DEF Batches!Sign
      <3>2. WalletOK' /\ AllowancesOK' /\ Given'
        BY <1>0, <2>2, <3>1, WalletStays
      <3>3. BatchOK' /\ ClaimOK'
        BY <2>2, <3>1 DEF BatchOK, ClaimOK
      <3> QED BY <3>2, <3>3 DEF ClaimInv
    <2>4. CASE e # None
      <3>1. batch' = batch /\ effects' = e /\ stated' = stated \cup e.to
        BY <1>2, <2>1, <2>4 DEF Batches!Sign
      <3>2. e \in Batches!ClaimEffects
        BY <2>1, <2>2, <2>4, EffectsTell DEF ClaimInv, BatchOK
      <3>3. e.to \subseteq Batches!Addresses
        BY <3>2 DEF Batches!ClaimEffects
      <3>4. WalletOK' /\ AllowancesOK' /\ Given'
        BY <1>0, <2>2, <3>1, <3>3, WalletStays
      <3>5. Batches!Effects(batch)' = e
        BY <2>1, <3>1
      <3>6. BatchOK' /\ ClaimOK'
        BY <2>2, <2>4, <3>1, <3>5 DEF ClaimInv, BatchOK, ClaimOK, IsBatch
      <3> QED BY <3>4, <3>6 DEF ClaimInv
    <2> QED BY <2>3, <2>4
  <1>3. CASE Batches!Execute
    <2>1. effects # None /\ batch' = None /\ effects' = None /\ stated' = stated
      BY <1>3 DEF Batches!Execute
    <2>2. WalletOK' /\ AllowancesOK' /\ Given'
      <3>1. CASE pusd >= Batches!Transferred /\ Batches!Executed
        BY <2>1, <3>1, ExecutedKeeps
      <3>2. CASE UNCHANGED Batches!wallet
        BY <1>0, <2>1, <3>2, WalletStays
      <3> QED BY <1>3, <3>1, <3>2 DEF Batches!Execute
    <2>3. BatchOK' /\ ClaimOK'
      BY <2>1 DEF BatchOK, ClaimOK
    <2> QED BY <2>2, <2>3 DEF ClaimInv
  <1>4. ASSUME batch' = batch, effects' = effects, stated' = stated
        PROVE  BatchOK' /\ ClaimOK'
    <2>1. Batches!Effects(batch)' = Batches!Effects(batch)
      BY <1>4
    <2> QED BY <1>4, <2>1 DEF ClaimInv, BatchOK, ClaimOK, IsBatch
  <1>5. CASE Batches!Arrive
    <2>1. /\ pusd' = Funds /\ positions' = positions /\ allowance' = allowance
          /\ operators' = operators /\ batch' = batch /\ effects' = effects /\ stated' = stated
          /\ \A s \in Batches!Addresses : allowance[s] = 0 \/ allowance[s] = MaxAllowance
      BY <1>5 DEF Batches!Arrive
    <2>2. WalletOK' /\ Given'
      BY <2>1, ClaimParts DEF ClaimInv, WalletOK, Given, Batches!Authority
    <2>3. AllowancesOK'
      BY <2>1, ClaimParts DEF ClaimInv, AllowancesOK
    <2> QED BY <1>4, <2>1, <2>2, <2>3 DEF ClaimInv
  <1>6. CASE \E s \in Batches!Addresses : Batches!Take(s)
    <2>1. PICK s \in Batches!Addresses : Batches!Take(s)
      BY <1>6
    <2>2. operators' = operators /\ batch' = batch /\ effects' = effects /\ stated' = stated
      BY <2>1 DEF Batches!Take
    <2>3. BatchOK' /\ ClaimOK'
      BY <1>4, <2>2
    <2>4. CASE pusd > 0 /\ allowance[s] > 0 /\ positions' = positions /\ pusd' = pusd - 1
                 /\ allowance' = [allowance EXCEPT ![s] = @ - 1]
      <3>1. PICK a \in Nat : a = allowance[s] /\ a <= MaxAllowance /\ a > 0
        BY <2>4, ClaimParts DEF ClaimInv, WalletOK
      <3>2. PICK u \in Nat : u = pusd /\ u <= Funds /\ u > 0
        BY <2>4, ClaimParts DEF ClaimInv, WalletOK
      <3>3. PICK b \in Nat : b = a - 1
        BY <3>1
      <3>4. PICK v \in Nat : v = u - 1
        BY <3>2
      <3>5. pusd' = v /\ allowance' = [allowance EXCEPT ![s] = b]
        BY <2>4, <3>1, <3>2, <3>3, <3>4
      <3>6. /\ allowance \in [Batches!Addresses -> 0..MaxAllowance] /\ allowance'[s] = b
            /\ \A t \in Batches!Addresses \ {s} : allowance'[t] = allowance[t]
        BY <2>1, <3>5 DEF ClaimInv, WalletOK
      <3>7. b \in 0..MaxAllowance /\ v \in 0..Funds
        BY <3>1, <3>2, <3>3, <3>4, ClaimParts
      <3>8. WalletOK'
        BY <2>2, <2>4, <3>5, <3>6, <3>7 DEF ClaimInv, WalletOK
      <3>9. ASSUME NEW t \in Batches!Addresses, allowance'[t] # 0
            PROVE  /\ t \in Batches!PUSD_SPENDERS
                   /\ allowance'[t] + Funds >= MaxAllowance + v
        <4>1. CASE t = s
          <5>1. s \in Batches!PUSD_SPENDERS /\ a + Funds >= MaxAllowance + u
            BY <3>1, <3>2 DEF ClaimInv, AllowancesOK
          <5>2. b + Funds >= MaxAllowance + v
            BY <3>1, <3>2, <3>3, <3>4, <5>1, ClaimParts
          <5> QED BY <3>6, <4>1, <5>1, <5>2
        <4>2. CASE t # s
          <5>1. PICK c \in Nat : c = allowance[t] /\ c # 0 /\ allowance'[t] = c
            BY <3>6, <3>9, <4>2, ClaimParts
          <5>2. t \in Batches!PUSD_SPENDERS /\ c + Funds >= MaxAllowance + u
            BY <3>2, <5>1 DEF ClaimInv, AllowancesOK
          <5>3. c + Funds >= MaxAllowance + v
            BY <3>2, <3>4, <5>2, ClaimParts
          <5> QED BY <5>1, <5>2, <5>3
        <4> QED BY <4>1, <4>2
      <3>10. AllowancesOK'
        BY <3>5, <3>9 DEF AllowancesOK
      <3>11. ASSUME NEW t \in Batches!Authority'
             PROVE  t \in Batches!Authority
        BY <2>2, <3>1, <3>6 DEF Batches!Authority
      <3>12. Given'
        BY <2>2, <3>11 DEF ClaimInv, Given
      <3> QED BY <2>3, <3>8, <3>10, <3>12 DEF ClaimInv
    <2>5. CASE positions' = FALSE /\ pusd' = pusd /\ allowance' = allowance
      <3>1. WalletOK' /\ AllowancesOK' /\ Given'
        BY <2>2, <2>5 DEF ClaimInv, WalletOK, AllowancesOK, Given,
           Batches!Authority
      <3> QED BY <2>3, <3>1 DEF ClaimInv
    <2> QED BY <2>1, <2>4, <2>5 DEF Batches!Take
  <1>7. CASE UNCHANGED Batches!vars
    <2>1. /\ batch' = batch /\ effects' = effects /\ stated' = stated /\ UNCHANGED Batches!wallet
      BY <1>7 DEF Batches!vars
    <2>2. WalletOK' /\ AllowancesOK' /\ Given'
      BY <1>0, <2>1, WalletStays
    <2> QED BY <1>4, <2>1, <2>2 DEF ClaimInv
  <1> QED BY <1>1, <1>2, <1>3, <1>5, <1>6, <1>7 DEF Batches!Next

(* Only the execution of its batch, or its failure, settles the effects.   *)
LEMMA OnlyExecuteSettles ==
  ASSUME [Batches!Next]_(Batches!vars), Batches!Settles
  PROVE  Batches!Execute
  BY DEF Batches!Next, Batches!vars, Batches!Settles, Batches!PrepareSome, Batches!Prepare,
     Batches!Sign, Batches!Take, Batches!Arrive

LEMMA SettlesSo ==
  ASSUME Batches!ClaimsConstants, ClaimInv, [Batches!Next]_(Batches!vars), Batches!Settles
  PROVE  /\ effects # None /\ StatedBatch(batch) /\ Tells(effects, batch)
         /\ Executes \/ UNCHANGED Batches!wallet
  <1>1. Batches!Execute /\ effects # None
    BY OnlyExecuteSettles DEF Batches!Settles
  <1>2. StatedBatch(batch) /\ Tells(effects, batch)
    BY <1>1, Approved
  <1>3. Batches!Executed => Executes
    BY <1>2, Run DEF ClaimInv
  <1> QED BY <1>1, <1>2, <1>3 DEF Batches!Execute

LEMMA TransfersAreDebited ==
  ASSUME Batches!ClaimsConstants, ClaimInv, [Batches!Next]_(Batches!vars)
  PROVE  Batches!TransfersDebited
  <1> SUFFICES ASSUME Batches!Settles, pusd' # pusd
               PROVE  pusd - pusd' = effects.debit /\ "owner" \in effects.to
    BY DEF Batches!TransfersDebited
  <1>1. StatedBatch(batch) /\ Tells(effects, batch) /\ Executes
    <2>1. ~(UNCHANGED Batches!wallet)
      BY DEF Batches!wallet
    <2> QED BY <2>1, SettlesSo
  <1>2. PICK d \in Nat : d = DebitOf(batch)
    BY <1>1, ClaimParts DEF StatedBatch
  <1>3. PICK u \in Nat : u = pusd
    BY ClaimParts DEF ClaimInv, WalletOK
  <1>4. pusd' = u - d /\ effects.debit = d
    BY <1>1, <1>2, <1>3 DEF Executes, Tells
  <1>5. pusd - pusd' = d /\ d # 0
    BY <1>2, <1>3, <1>4
  <1>6. PICK i \in DOMAIN batch : batch[i].op = "transfer"
    BY <1>1, <1>2, <1>5 DEF StatedBatch
  <1>7. batch[i].to = "owner" /\ Batches!Names(batch[i])
    BY <1>1, <1>6 DEF StatedBatch, Stated, Batches!Names
  <1>8. "owner" \in effects.to
    BY <1>1, <1>7 DEF Tells
  <1> QED BY <1>2, <1>4, <1>5, <1>8

LEMMA QuietKeepsQuiet ==
  ASSUME Batches!ClaimsConstants, ClaimInv, [Batches!Next]_(Batches!vars)
  PROVE  Batches!QuietIsQuiet
  <1> SUFFICES ASSUME Batches!Settles, ~effects.moves
               PROVE  /\ pusd' = pusd /\ positions' = positions
                      /\ Batches!Authority' \subseteq Batches!Authority
    BY DEF Batches!QuietIsQuiet
  <1>1. CASE UNCHANGED Batches!wallet
    BY <1>1 DEF Batches!wallet, Batches!Authority
  <1>2. CASE Executes
    <2>1. StatedBatch(batch) /\ \A i \in DOMAIN batch : ~Batches!Names(batch[i])
      BY SettlesSo DEF Tells
    <2>2. \A i \in DOMAIN batch : batch[i].op # "transfer" /\ batch[i].op # "redeem"
      BY <2>1 DEF Batches!Names
    <2>3. DebitOf(batch) = 0
      BY <2>1, <2>2 DEF StatedBatch
    <2>4. PICK u \in Nat : u = pusd
      BY ClaimParts DEF ClaimInv, WalletOK
    <2>5. pusd' = pusd
      BY <1>2, <2>3, <2>4 DEF Executes
    <2>6. positions' = positions
      BY <1>2, <2>2 DEF Executes, ClaimInv, WalletOK
    <2>7. Batches!Authority' \subseteq Batches!Authority
      BY <1>2, <2>1, GrantsNamed
    <2> QED BY <2>5, <2>6, <2>7
  <1> QED BY <1>1, <1>2, SettlesSo

LEMMA RevokesAll ==
  ASSUME Batches!ClaimsConstants, ClaimInv, [Batches!Next]_(Batches!vars)
  PROVE  Batches!RevokeIsTotal
  <1> SUFFICES ASSUME Batches!Settles, batch = Batches!RevokeCalls
               PROVE  ~effects.moves /\ (Batches!Authority' = {} \/ UNCHANGED Batches!wallet)
    BY DEF Batches!RevokeIsTotal
  <1>1. CoversAll(batch, 0, FALSE)
    BY CallsCover DEF Batches!RevokeCalls
  <1>2. \A i \in DOMAIN batch :
          /\ ~Batches!Names(batch[i])
          /\ batch[i].op = "approve" => batch[i].amount = 0
          /\ batch[i].op = "operator" => batch[i].on = FALSE
    BY <1>1 DEF CoversAll, Batches!Names, Batches!Approve, Batches!Operator
  <1>3. ~effects.moves
    BY <1>2, SettlesSo DEF Tells
  <1>4. ASSUME Executes, NEW s \in Batches!Addresses
        PROVE  ~(allowance'[s] > 0) /\ s \notin operators'
    <2>1. ~(allowance'[s] > 0)
      <3>1. CASE s \in Batches!PUSD_SPENDERS
        <4>1. PICK i \in DOMAIN batch : batch[i] = Batches!Approve(s, 0)
          BY <1>1, <3>1 DEF CoversAll
        <4>2. i \in Batches!CallsAbout("approve", s)
          BY <4>1 DEF Batches!CallsAbout, Batches!Approve
        <4>3. allowance'[s] = 0
          BY <1>2, <1>4, <4>2 DEF Executes
        <4> QED BY <4>3
      <3>2. CASE s \notin Batches!PUSD_SPENDERS
        <4>1. allowance[s] = 0
          BY <3>2 DEF ClaimInv, AllowancesOK
        <4>2. allowance'[s] = 0
          BY <1>2, <1>4, <4>1 DEF Executes
        <4> QED BY <4>2
      <3> QED BY <3>1, <3>2
    <2>2. s \notin operators'
      <3>1. CASE s \in Batches!CTF_OPERATORS
        <4>1. PICK i \in DOMAIN batch : batch[i] = Batches!Operator(s, FALSE)
          BY <1>1, <3>1 DEF CoversAll
        <4>2. i \in Batches!CallsAbout("operator", s)
          BY <4>1 DEF Batches!CallsAbout, Batches!Operator
        <4> QED BY <1>2, <1>4, <4>2 DEF Executes
      <3>2. CASE s \notin Batches!CTF_OPERATORS
        <4>1. s \notin operators
          BY <3>2 DEF ClaimInv, WalletOK
        <4> QED BY <1>2, <1>4, <4>1 DEF Executes
      <3> QED BY <3>1, <3>2
    <2> QED BY <2>1, <2>2
  <1>5. Executes => Batches!Authority' = {}
    BY <1>4 DEF Batches!Authority
  <1> QED BY <1>3, <1>5, SettlesSo

LEMMA GrantsAreSeen ==
  ASSUME Batches!ClaimsConstants, ClaimInv, [Batches!Next]_(Batches!vars)
  PROVE  Batches!GrantsSeen
  <1>1. ASSUME Batches!Settles, batch = Batches!ApprovalCalls
        PROVE  Batches!ApprovalsRead' \/ UNCHANGED Batches!wallet
    <2>1. CoversAll(batch, MaxAllowance, TRUE)
      BY <1>1, CallsCover DEF Batches!ApprovalCalls
    <2>2. \A i \in DOMAIN batch :
            /\ batch[i].op = "approve" => batch[i].amount = MaxAllowance
            /\ batch[i].op = "operator" => batch[i].on = TRUE
      BY <2>1 DEF CoversAll, Batches!Approve, Batches!Operator
    <2>3. ASSUME Executes, NEW s \in Batches!PUSD_SPENDERS
          PROVE  allowance'[s] >= Floor
      <3>1. PICK i \in DOMAIN batch : batch[i] = Batches!Approve(s, MaxAllowance)
        BY <2>1 DEF CoversAll
      <3>2. i \in Batches!CallsAbout("approve", s) /\ s \in Batches!Addresses
        BY <3>1, ClaimParts DEF Batches!CallsAbout, Batches!Approve
      <3>3. allowance'[s] = MaxAllowance
        BY <2>2, <2>3, <3>2 DEF Executes
      <3> QED BY <3>3, ClaimParts
    <2>4. ASSUME Executes, NEW s \in Batches!CTF_OPERATORS
          PROVE  s \in operators'
      <3>1. PICK i \in DOMAIN batch : batch[i] = Batches!Operator(s, TRUE)
        BY <2>1 DEF CoversAll
      <3>2. i \in Batches!CallsAbout("operator", s) /\ s \in Batches!Addresses
        BY <3>1, ClaimParts DEF Batches!CallsAbout, Batches!Operator
      <3> QED BY <2>2, <2>4, <3>2 DEF Executes
    <2>5. Executes => Batches!ApprovalsRead'
      BY <2>3, <2>4 DEF Batches!ApprovalsRead
    <2> QED BY <1>1, <2>5, SettlesSo
  <1>2. ASSUME Batches!ApprovalsRead, ~Batches!Settles
        PROVE  Batches!ApprovalsRead'
    <2>1. CASE Batches!Execute
      BY <1>2, <2>1 DEF Batches!Execute, Batches!Settles
    <2>2. CASE \E s \in Batches!Addresses : Batches!Take(s)
      <3>1. PICK s \in Batches!Addresses : Batches!Take(s)
        BY <2>2
      <3>2. operators' = operators
        BY <3>1 DEF Batches!Take
      <3>3. ASSUME pusd > 0, pusd' = pusd - 1,
                   allowance' = [allowance EXCEPT ![s] = @ - 1],
                   NEW t \in Batches!PUSD_SPENDERS
            PROVE  allowance'[t] >= Floor
        <4>1. PICK a \in Nat : a = allowance[t] /\ t \in Batches!Addresses
          BY ClaimParts DEF ClaimInv, WalletOK
        <4>2. a >= Floor
          BY <1>2, <4>1 DEF Batches!ApprovalsRead
        <4>3. PICK u \in Nat : u = pusd /\ u > 0
          BY <3>3, ClaimParts DEF ClaimInv, WalletOK
        <4>4. a # 0
          BY <4>2, ClaimParts
        <4>5. a + Funds >= MaxAllowance + u
          BY <4>1, <4>3, <4>4 DEF ClaimInv, AllowancesOK
        <4>6. a - 1 >= Floor
          BY <4>3, <4>5, ClaimParts
        <4>7. allowance'[t] = IF t = s THEN a - 1 ELSE a
          BY <3>3, <4>1 DEF ClaimInv, WalletOK
        <4> QED BY <4>2, <4>6, <4>7
      <3>4. CASE allowance' = allowance
        BY <1>2, <3>2, <3>4 DEF Batches!ApprovalsRead
      <3> QED BY <1>2, <3>1, <3>2, <3>3, <3>4 DEF Batches!Take, Batches!ApprovalsRead
    <2>3. CASE allowance' = allowance /\ operators' = operators
      BY <1>2, <2>3 DEF Batches!ApprovalsRead
    <2>4. CASE Batches!PrepareSome \/ Batches!Sign \/ Batches!Arrive \/ UNCHANGED Batches!vars
      BY <2>3, <2>4 DEF Batches!PrepareSome, Batches!Prepare, Batches!Sign, Batches!Arrive,
         Batches!vars, Batches!wallet
    <2> QED BY <2>1, <2>2, <2>4 DEF Batches!Next
  <1> QED BY <1>1, <1>2 DEF Batches!GrantsSeen

LEMMA ClaimsAlways == Batches!Spec => []ClaimInv
  <1> USE ClaimConstants
  <1>1. Batches!Init => ClaimInv
    BY ClaimStart
  <1>2. ClaimInv /\ [Batches!Next]_(Batches!vars) => ClaimInv'
    BY ClaimStep
  <1> QED BY <1>1, <1>2, PTL DEF Batches!Spec

(* Who may move something is one of the contracts of Polymarket.           *)
LEMMA AuthorityIsKnown ==
  ASSUME Batches!ClaimsConstants, ClaimInv
  PROVE  Batches!Authority \subseteq Batches!PUSD_SPENDERS
  <1> SUFFICES ASSUME NEW s \in Batches!Authority PROVE s \in Batches!PUSD_SPENDERS
    OBVIOUS
  <1>1. CASE allowance[s] > 0
    BY <1>1, ClaimParts DEF ClaimInv, AllowancesOK, WalletOK, Batches!Authority
  <1>2. CASE s \in operators
    BY <1>2, ClaimParts DEF ClaimInv, WalletOK
  <1> QED BY <1>1, <1>2 DEF Batches!Authority

(* wallet_batch_effects computes what a batch does or refuses it: whatever *)
(* record was signed and whichever batches ran, only Polymarket's own      *)
(* contracts, as stated, can move the wallet's money, what leaves it is    *)
(* debited, effects that move nothing move nothing, a revocation leaves    *)
(* nobody, and granted approvals are seen as granted until a batch revokes *)
(* some.                                                                   *)
THEOREM EffectsAreTrue == Batches!Spec => Batches!EffectsHold
  <1> USE ClaimConstants
  <1>1. ClaimInv => Batches!AuthorityStated
    BY AuthorityIsKnown DEF ClaimInv, Given, Batches!AuthorityStated
  <1>2. ClaimInv /\ [Batches!Next]_(Batches!vars)
          => /\ Batches!TransfersDebited /\ Batches!QuietIsQuiet
             /\ Batches!RevokeIsTotal /\ Batches!GrantsSeen
    BY TransfersAreDebited, QuietKeepsQuiet, RevokesAll, GrantsAreSeen
  <1> QED BY <1>1, <1>2, ClaimsAlways, PTL DEF Batches!Spec, Batches!EffectsHold

(* The effects debit no more than an allowance can be and give no stranger *)
(* anything, and the wallet keeps its types (prepared_batch_effects).      *)
THEOREM ClaimTypes == Batches!Spec => []Batches!TypeOK
  <1> USE ClaimConstants
  <1>1. ClaimInv => Batches!TypeOK
    <2> SUFFICES ASSUME ClaimInv PROVE Batches!TypeOK
      OBVIOUS
    <2>1. effects \in Batches!ClaimEffects \cup {None}
      BY Approved
    <2> QED BY <2>1, ClaimParts DEF ClaimInv, WalletOK, Batches!TypeOK
  <1> QED BY <1>1, ClaimsAlways, PTL
--------------------------------------------------------------------------------
(* The behaviours of MCAmounts: each component's part of one is a          *)
(* behaviour of that component.                                            *)

LEMMA MCBehaves == MCSpec => Spec /\ Charges!Spec /\ Batches!Spec /\ Listing!Spec
  <1> DEFINE mcVars == <<instance, vars, feeVars, claimVars, orderVars>>
  <1>1. MCInit => Init /\ Charges!Init /\ Batches!Init /\ Listing!Init
    BY DEF MCInit
  <1>2. [MCNext]_mcVars => [Next]_vars /\ [Charges!Next]_(Charges!vars)
                             /\ [Batches!Next]_(Batches!vars) /\ [Listing!Next]_(Listing!vars)
    BY DEF MCNext, feeVars, claimVars, orderVars, Charges!vars, Batches!vars, Batches!wallet,
           Listing!vars
  <1> QED BY <1>1, <1>2, PTL DEF MCSpec, Spec, Charges!Spec, Batches!Spec, Listing!Spec

(* The stored drafts (create_trade_draft), a BUY's fee (MarketFee), the    *)
(* batches (wallet_batch_effects) and the rows of the open orders are well  *)
(* typed in all of MCAmounts' behaviours.                                  *)
THEOREM AmountTypes == MCSpec => []Types
  BY MCBehaves, QuoteTypes, FeeTypes, ClaimTypes, OpenOrderTypes, PTL DEF Types

(* choose_limit and the legs of buy_from_spend and sell_from_shares: the   *)
(* quotes of MCAmounts stay within the user's price and spend, after any   *)
(* number of revalidations.                                                *)
THEOREM AmountsAreFair == MCSpec => [](WithinBound /\ LegsFair)
  BY MCBehaves, QuotesWithinBound, QuoteLegsFair, PTL

(* fees.rs under order_usd and receipt_daily_exposure_microusd, at         *)
(* whatever prices and in however many pieces a BUY fills: what leaves the *)
(* wallet is within what it counts against the USD caps, and a receipt     *)
(* without a fee (max_buy_fee_cap) counts no less.                         *)
THEOREM FeesAreCovered == MCSpec => []FeesCovered
  BY MCBehaves, CountsCoverFees, LegacyReceiptsCountMost, PTL DEF FeesCovered

(* reconcile_ambiguous_post: the open order taken for the one whose answer *)
(* was lost is that one, and it is taken when a row shows it.              *)
THEOREM OwnOrderIsFound == MCSpec => []FindsExactlyOwn
  BY MCBehaves, ReconcileTakesOwn, ReconcileFindsOwn, PTL DEF FindsExactlyOwn

(* wallet_batch_effects: the effects batches are signed with account for   *)
(* every authority, which Polymarket's own contracts alone get, and for    *)
(* every transfer, whatever record was signed and whichever ran before.    *)
THEOREM BatchEffectsAreTrue == MCSpec => EffectsTrue
  BY MCBehaves, EffectsAreTrue, PTL DEF EffectsTrue
================================================================================
