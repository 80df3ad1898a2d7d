---------------------------------- MODULE Fees ----------------------------------
(***************************************************************************)
(* Polymarket's trading fee (polymarket/fees.rs) and what a BUY counts     *)
(* against the USD caps (trade_flow_parts/policy.rs).  A market's schedule *)
(* is read from Gamma; a BUY whose fee has no bound is refused; the        *)
(* operator, external, then matches the order in pieces at any prices and  *)
(* charges each piece by the schedule read, rounded up.                    *)
(*                                                                         *)
(* Nothing but these caps holds the fee: the signed order does not carry   *)
(* it, and the claim presented to the host declares nothing (approval.rs). *)
(* A schedule that changes while the order rests is not modelled.          *)
(*                                                                         *)
(* Rates, prices and amounts are integers in units of 1/MICRO.             *)
(***************************************************************************)
EXTENDS Naturals

CONSTANTS None, Unbounded, Unreadable,
          MICRO,          \* 10^6 in the code
          MAX_FEE_RATE,   \* MAX_FEE_RATE_PPM
          MARGIN,         \* FEE_ROUNDING_MARGIN_MICRO
          Precision,      \* the unit a charge is rounded up to
          MaxMatches,     \* bound on the pieces an order fills in
          U64Max,
          Makers, Rates, Exponents, Prices, Fills   \* the inputs the run tries

(* The margin is there for that many charges rounded up.                   *)
FeesConstants ==
  /\ MICRO \in Nat \ {0} /\ MAX_FEE_RATE \in 0..MICRO /\ Precision \in Nat \ {0}
  /\ MARGIN \in Nat /\ MaxMatches \in Nat /\ MaxMatches * Precision <= MARGIN
  /\ U64Max \in Nat /\ Makers \subseteq 0..U64Max
  /\ Makers \cup Rates \cup Exponents \cup Fills \subseteq Nat /\ Prices \subseteq 0..MICRO
  /\ None \notin Nat /\ Unbounded \notin Nat

VARIABLES fee,      \* the draft's MarketFee: its rate, or Unbounded, or None
          order,    \* the signed BUY: the spend, its makerAmount, its fee bound
          spent, charged, matches   \* what the operator did with it

vars == <<fee, order, spent, charged, matches>>

TypeOK ==
  /\ fee \in {None, Unbounded} \cup 0..MAX_FEE_RATE
  /\ order = None \/ order \in [amount : Makers, maker : Makers, cap : 0..U64Max]
  /\ spent \in Nat /\ charged \in Nat /\ matches \in 0..MaxMatches

Init == fee = None /\ order = None /\ spent = 0 /\ charged = 0 /\ matches = 0
--------------------------------------------------------------------------------
(* Gamma's answer: feesEnabled, which may be missing or no boolean, and a  *)
(* schedule, which may be missing, unreadable or have unknown fields.      *)
Gamma == [enabled : {"true", "false", "absent", "other"},
          schedule : {None, Unreadable} \cup [exponent : Exponents, rate : Rates]]

Plausible(rate) == rate <= MAX_FEE_RATE

(* MarketFee::from_market.                                                 *)
MarketFee(g) ==
  IF g.enabled = "false" THEN 0
  ELSE IF g.enabled # "true" \/ g.schedule \in {None, Unreadable} THEN Unbounded
  ELSE IF g.schedule.exponent # MICRO \/ ~Plausible(g.schedule.rate) THEN Unbounded
  ELSE g.schedule.rate

(* A slip: the margin is left out.                                         *)
MarginNone(cap) == IF cap <= U64Max THEN cap ELSE None

CeilDiv(a, b) == (a + b - 1) \div b
WithMargin(cap) == IF cap + MARGIN <= U64Max THEN cap + MARGIN ELSE None

FeeCapAtRate(maker, rate) ==
  IF rate = 0 THEN 0 ELSE WithMargin(CeilDiv(maker * rate, MICRO))

(* buy_fee_cap: None refuses.                                              *)
BuyFeeCap(f, maker) ==
  IF f \in {None, Unbounded} THEN None ELSE FeeCapAtRate(maker, f)

OrMax(cap) == IF cap = None THEN U64Max ELSE cap

(* max_buy_fee_cap, for a receipt that recorded no fee.                    *)
MaxBuyFeeCap(maker) == OrMax(FeeCapAtRate(maker, MAX_FEE_RATE))
--------------------------------------------------------------------------------
(* The snapshot a draft is quoted from records the market's fee.           *)
Read(g) ==
  /\ order = None
  /\ fee' = MarketFee(g)
  /\ UNCHANGED <<order, spent, charged, matches>>

(* A BUY is signed for at most the spend its draft asks for, rounded down  *)
(* to lots, unless order_effects finds no bound of its fee.                *)
SignBuy(amount, maker) ==
  /\ order = None /\ maker > 0 /\ maker <= amount
  /\ LET cap == BuyFeeCap(fee, maker) IN
     /\ cap # None
     /\ order' = [amount |-> amount, maker |-> maker, cap |-> cap]
  /\ UNCHANGED <<fee, spent, charged, matches>>

(* "fee = C x rate x p x (1 - p)" where C x p is what the piece spends.    *)
Charge(spend, price) ==
  Precision * CeilDiv(spend * fee * (MICRO - price), MICRO * MICRO * Precision)

Match(spend, price) ==
  /\ order # None /\ matches < MaxMatches
  /\ spent + spend <= order.maker
  /\ spent' = spent + spend
  /\ charged' = charged + Charge(spend, price)
  /\ matches' = matches + 1
  /\ UNCHANGED <<fee, order>>

Next ==
  \/ \E g \in Gamma : Read(g)
  \/ \E amount, maker \in Makers : SignBuy(amount, maker)
  \/ \E spend \in Fills, price \in Prices : Match(spend, price)

Spec == Init /\ [][Next]_vars
--------------------------------------------------------------------------------
(* order_usd, what a BUY counts against max_order_usd, and                 *)
(* receipt_daily_exposure_microusd, against max_daily_usd.                 *)
Exposure(o) == IF o.amount + o.cap <= U64Max THEN o.amount + o.cap ELSE U64Max

(* What leaves the wallet for a BUY never exceeds what it counted against  *)
(* the caps, in however many pieces and at whatever prices it fills: a cap *)
(* below the width that let it pass is kept, principal and fee together.   *)
CountCovers ==
  order # None /\ Exposure(order) < U64Max => spent + charged <= Exposure(order)

(* A receipt that recorded no fee counts, from the spend it did record,    *)
(* for at least as much as any schedule this build accepts could have      *)
(* charged.                                                                *)
LegacyCountsMost == order # None => order.cap <= MaxBuyFeeCap(order.amount)
================================================================================
