------------------------------ MODULE MCAmounts ------------------------------
(***************************************************************************)
(* The modules about what an order or a batch is worth and what it may     *)
(* move, one of them in a behaviour: Quote (the module this one extends);  *)
(* and, each in constants and variables of its own, Fees, Claims and       *)
(* OpenOrders.                                                             *)
(***************************************************************************)
EXTENDS Quote

CONSTANTS Unbounded, Unreadable, Whole, MAX_FEE_RATE, MARGIN, Precision, MaxMatches,
          FeeMax, Makers, Rates, Exponents, FillPrices, Fills,
          Funds, MaxAllowance, Floor, Callees,
          MaxRows, Compared, Garbled

VARIABLES instance,   \* "quote", "fees", "claims" or "orders"
          fee, order, spent, charged, matches,
          batch, effects, pusd, positions, allowance, operators, stated,
          listed, asked, found

feeVars == <<fee, order, spent, charged, matches>>
claimVars == <<batch, effects, pusd, positions, allowance, operators, stated>>
orderVars == <<listed, asked, found>>

Charges == INSTANCE Fees WITH MICRO <- Whole, Prices <- FillPrices, U64Max <- FeeMax

Batches == INSTANCE Claims

Listing == INSTANCE OpenOrders

ASSUME FeeConstants == Charges!FeesConstants
ASSUME ClaimConstants == Batches!ClaimsConstants
ASSUME RowConstants == Listing!OpenOrdersConstants

MCInit ==
  /\ instance \in {"quote", "fees", "claims", "orders"}
  /\ Init /\ Charges!Init /\ Batches!Init /\ Listing!Init

MCNext ==
  /\ \/ instance = "quote" /\ Next /\ UNCHANGED <<feeVars, claimVars, orderVars>>
     \/ instance = "fees" /\ Charges!Next /\ UNCHANGED <<vars, claimVars, orderVars>>
     \/ instance = "claims" /\ Batches!Next /\ UNCHANGED <<vars, feeVars, orderVars>>
     \/ instance = "orders" /\ Listing!Next /\ UNCHANGED <<vars, feeVars, claimVars>>
  /\ UNCHANGED instance

MCSpec == MCInit /\ [][MCNext]_<<instance, vars, feeVars, claimVars, orderVars>>
--------------------------------------------------------------------------------
(* The types of all four.                                                  *)
Types == TypeOK /\ Charges!TypeOK /\ Batches!TypeOK /\ Listing!TypeOK

(* CountCovers and LegacyCountsMost of polymarket/fees.rs and policy.rs:   *)
(* what leaves the wallet for a BUY stays within what it counted against   *)
(* max_order_usd and max_daily_usd, and a receipt without a fee counts for *)
(* no less.                                                                *)
FeesCovered == Charges!CountCovers /\ Charges!LegacyCountsMost

(* AuthorityStated, TransfersDebited, QuietIsQuiet, RevokeIsTotal and      *)
(* GrantsSeen of polymarket/claim.rs and wallet.rs: the effects batches    *)
(* are signed with account for every authority and transfer, whichever     *)
(* batches ran before, and a revocation leaves nobody.                     *)
EffectsTrue == Batches!EffectsHold

(* TakesOwn and FindsOwn of find_matching_open_order: the row taken is the *)
(* order just sent, and it is found when some row shows it well enough.    *)
FindsExactlyOwn == Listing!TakesOwn /\ Listing!FindsOwn
================================================================================
