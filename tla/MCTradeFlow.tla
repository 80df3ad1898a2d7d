---------------------------- MODULE MCTradeFlow ----------------------------
(***************************************************************************)
(* Small instances of TradeFlow.                                           *)
(***************************************************************************)
EXTENDS TradeFlow, TLC

CONSTANTS p1, p2, s1, s2, s3

(* A BUY that rests (GTC), a BUY that does not (FAK, FOK), a SELL.         *)
RestingBuy == [side |-> "buy", rests |-> TRUE]
KilledBuy  == [side |-> "buy", rests |-> FALSE]
RestingSell == [side |-> "sell", rests |-> TRUE]

AllKinds == {RestingBuy, KilledBuy, RestingSell}
OneBuy == {RestingBuy}
OneKilledBuy == {KilledBuy}
OneSell == {RestingSell}

(* Trading on with a cap of 3 a day, 2 an order, flagged above 1; or off.  *)
Capped == [enabled |-> TRUE, max_order |-> 2, max_daily |-> 3, flag_above |-> 1]
Tight  == [Capped EXCEPT !.max_daily = 1]
Flagged == [Capped EXCEPT !.flag_above = 0, !.max_daily = None]
Off    == [Capped EXCEPT !.enabled = FALSE]

CappedOnly == {Capped}
FlaggedOnly == {Flagged}
CappedOrOff == {Capped, Off}
CappedOrTight == {Capped, Tight}

SaltSymmetry == Permutations(Salts)
=============================================================================
