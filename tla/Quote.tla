--------------------------------- MODULE Quote ---------------------------------
(***************************************************************************)
(* What a draft asks of the exchange: polymarket/order.rs and trade.rs, as  *)
(* create_trade_draft and revalidate_trade_draft use them.  A request is    *)
(* quoted against the live book, and quoted again each time the draft is    *)
(* revalidated, while the book and its tick move.                           *)
(*                                                                         *)
(* All amounts are integers in units of 10^-Places (micro-units in the     *)
(* code, where Places = 6, LotScale = 2 and the ticks have 1 to 4           *)
(* decimals).  A refused quote is None: nothing is stored then.             *)
(***************************************************************************)
EXTENDS Integers

CONSTANTS None,
          Places,        \* decimals of a micro-unit
          LotScale,      \* LOT_SIZE_SCALE
          TickScales,    \* decimals of the supported ticks
          U64Max,        \* the largest u64
          Amounts, Prices, Ticks, MinSizes   \* the inputs the run tries

ASSUME QuoteAssumption ==
  /\ Places \in Nat /\ LotScale \in 0..Places /\ TickScales \subseteq 1..Places
  /\ U64Max \in Nat
  /\ Amounts \cup Prices \cup Ticks \cup MinSizes \subseteq 0..U64Max
  /\ None \notin Int

(* A micro-unit fits, and the supported ticks keep no more decimals of the *)
(* USD leg than there are.                                                 *)
ASSUME ScaleAssumption ==
  /\ 10^Places <= U64Max
  /\ \A d \in TickScales : LotScale + d <= Places

(* Arithmetic, not a choice of constants.                                  *)
ASSUME PowersOfTen ==
  \A m, n \in 0..Places : 10^m \in Nat \ {0} /\ 10^(m + n) = 10^m * 10^n

MICRO == 10^Places
LOT_UNIT == 10^(Places - LotScale)

Sides == {"BUY", "SELL"}
OrderTypes == {"GTC", "FAK", "FOK"}
Requests == [side : Sides, type : OrderTypes, amount : Amounts,
             bound : Prices, limit : Prices \cup {None}]

(* A book: its tick and minimum, the best price on the other side, whose   *)
(* token it says it is ("" when it does not say), and whether its market   *)
(* is an active, open, binary one.                                         *)
Books == [tick : Ticks, min : MinSizes, best : Prices \cup {None},
          of : {"token", "", "other"}, open : BOOLEAN]

VARIABLES req,     \* the request of the draft, or None
          draft    \* the quoted fields of order.json, or None

vars == <<req, draft>>

Amount == 0..U64Max
Draft == [price : Amount, size : Amount, maker : Amount, taker : Amount, tick : Amount]

TypeOK == /\ req \in Requests \cup {None}
          /\ draft \in Draft \cup {None}

Init == req = None /\ draft = None
--------------------------------------------------------------------------------
(* A slip: the sides are swapped.                                          *)
QuantizeSwapped(price, tick, side) ==
  IF side = "SELL" \/ price % tick = 0 THEN price - (price % tick)
  ELSE price - (price % tick) + tick

(* quantize_price: a buyer's price down, a seller's up.                    *)
QuantizePrice(price, tick, side) ==
  IF side = "BUY" \/ price % tick = 0 THEN price - (price % tick)
  ELSE price - (price % tick) + tick

QuantizeMarketable(price, tick) == price - (price % tick)

TickDecimals(tick) == {d \in TickScales : tick = 10^(Places - d)}

ValidPrice(price, tick) ==
  /\ TickDecimals(tick) # {}
  /\ price % tick = 0
  /\ tick <= price /\ price <= MICRO - tick

(* 10^(6 - min(decimals + LOT_SIZE_SCALE, 6)).                             *)
Unit(tick) ==
  LET kept == LotScale + CHOOSE d \in TickDecimals(tick) : TRUE IN
  IF kept >= Places THEN 1 ELSE 10^(Places - kept)

UsdLeg(size, price, tick) ==
  LET raw == (size * price) \div MICRO IN raw - (raw % Unit(tick))

(* Two slips: the size is not cut to whole lots; the conversion to u64 is  *)
(* not checked.                                                            *)
LotsUncut(size) == size
FitsAlways(amount) == TRUE

Lots(size) == size - (size % LOT_UNIT)
Fits(amount) == amount <= U64Max
Cents(spend) == spend - (spend % LOT_UNIT)

Quoted(price, size, maker, taker, tick) ==
  IF size > 0 /\ Fits(maker) /\ Fits(taker)
  THEN [price |-> price, size |-> size, maker |-> maker, taker |-> taker, tick |-> tick]
  ELSE None

(* LimitQuote::buy_from_spend.                                             *)
BuyFromSpend(spend, price, tick) ==
  LET size == Lots((spend * MICRO) \div price) IN
  Quoted(price, size, UsdLeg(size, price, tick), size, tick)

(* LimitQuote::market_buy_from_spend.                                      *)
MarketBuyFromSpend(spend, price, tick) ==
  LET maker == Cents(spend)
      raw == (maker * MICRO) \div price
      taker == raw - (raw % Unit(tick))
  IN Quoted(price, taker, maker, taker, tick)

(* LimitQuote::sell_from_shares.                                           *)
SellFromShares(size, price, tick) ==
  IF size % LOT_UNIT # 0 THEN None
  ELSE Quoted(price, size, size, UsdLeg(size, price, tick), tick)

(* choose_limit: a pinned price is put on the grid, a marketable one is    *)
(* the book's best, within the bound.                                      *)
ChooseLimit(r, pinned, book) ==
  IF r.limit # None THEN QuantizePrice(pinned, book.tick, r.side)
  ELSE IF book.best = None THEN None
  ELSE LET limit == QuantizeMarketable(book.best, book.tick) IN
       IF r.side = "BUY"
       THEN IF book.best > r.bound THEN None ELSE limit
       ELSE IF book.best < r.bound \/ limit < r.bound THEN None ELSE limit

(* build_quote.                                                            *)
BuildQuote(r, amount, price, book) ==
  LET q == IF ~ValidPrice(price, book.tick) \/ amount = 0 THEN None
           ELSE IF r.side = "SELL" THEN SellFromShares(amount, price, book.tick)
           ELSE IF r.type = "GTC" THEN BuyFromSpend(amount, price, book.tick)
           ELSE MarketBuyFromSpend(amount, price, book.tick)
  IN IF q = None \/ q.size < book.min THEN None ELSE q

(* trade_snapshot: the market must be open and binary and the book its     *)
(* own.  A tick of zero divides by zero: the invocation ends there.        *)
Usable(book) == book.open /\ book.of # "other" /\ book.tick > 0

QuoteOf(r, amount, pinned, book) ==
  IF ~Usable(book) THEN None
  ELSE LET limit == ChooseLimit(r, pinned, book) IN
       IF limit = None THEN None ELSE BuildQuote(r, amount, limit, book)

(* The bound is required; a limit outside it is refused.                   *)
Acceptable(r) ==
  /\ r.amount > 0 /\ r.bound > 0
  /\ r.limit # None =>
       /\ r.limit > 0
       /\ IF r.side = "BUY" THEN r.limit <= r.bound ELSE r.limit >= r.bound
--------------------------------------------------------------------------------
Pinned(r) == IF r.limit = None THEN r.bound ELSE r.limit

(* create_trade_draft.                                                     *)
Create(book) ==
  /\ draft = None
  /\ \E r \in Requests :
       LET q == QuoteOf(r, r.amount, Pinned(r), book) IN
       /\ Acceptable(r)
       /\ q # None
       /\ req' = r /\ draft' = q

(* revalidate_trade_draft: the pinned price is the draft's, already on     *)
(* some earlier grid; a SELL is quoted for the draft's size.               *)
Revalidate(book) ==
  /\ draft # None
  /\ LET amount == IF req.side = "BUY" THEN req.amount ELSE draft.size
         q == QuoteOf(req, amount, draft.price, book)
     IN /\ q # None
        /\ draft' = q
  /\ UNCHANGED req

Next == \E book \in Books : Create(book) \/ Revalidate(book)

Spec == Init /\ [][Next]_vars
--------------------------------------------------------------------------------
MarketBuy == req.side = "BUY" /\ req.type # "GTC"

(* However often the draft is quoted again, the price it signs stays       *)
(* within the price the user set: quantize_price "never pays more than     *)
(* asked", "never receives less than asked".                               *)
WithinBound ==
  draft # None =>
    IF req.side = "BUY" THEN draft.price <= req.bound /\ draft.price <= Pinned(req)
    ELSE draft.price >= req.bound /\ draft.price >= Pinned(req)

(* A BUY never spends more than the amount asked, a SELL sells exactly the *)
(* shares asked, and no revalidation changes that.                         *)
SpendsWhatWasAsked ==
  draft # None =>
    IF req.side = "BUY" THEN draft.maker <= req.amount ELSE draft.maker = req.amount

(* The two legs of a limit order and of a SELL are exactly at its price:   *)
(* no rounding makes it pay above its limit or ask below it.               *)
LegsAtLimit ==
  draft # None /\ ~MarketBuy =>
    IF req.side = "BUY" THEN draft.maker * MICRO = draft.taker * draft.price
    ELSE draft.taker * MICRO = draft.maker * draft.price

(* A market BUY may pay more than its price by "sub-tick dust" only.       *)
DustBelowTick ==
  draft # None /\ MarketBuy =>
    draft.maker * MICRO < draft.taker * (draft.price + draft.tick)

(* No rounding of polymarket/order.rs (buy_from_spend,                     *)
(* market_buy_from_spend, sell_from_shares) spends more than was asked or  *)
(* makes an order worse than its price, up to the dust of one tick, after  *)
(* any number of revalidations.                                            *)
LegsFair == SpendsWhatWasAsked /\ LegsAtLimit /\ DustBelowTick
================================================================================
