---------------------------- MODULE MCTradeLimits ----------------------------
(***************************************************************************)
(* Two further instances of TradeFlow, and DailyCap, one of them in a      *)
(* behaviour: the configured one, whose drafts compete for the daily cap;  *)
(* one whose two invocations are slower than the lock's stale limit and    *)
(* evict each other, under a configuration that flags every order and caps *)
(* none; and the cap while a clock runs.                                   *)
(***************************************************************************)
EXTENDS MCTradeFlow, TradeDay

VARIABLE instance   \* "prompt", "slow" or "day"

Slow == INSTANCE TradeFlow
  WITH Procs <- {p1, p2}, SlowHolders <- TRUE,
       Kinds <- OneKilledBuy, Configs <- FlaggedOnly,
       MaxDrafts <- 1, MaxCalls <- 4, MaxFaults <- 0

MCInit ==
  /\ \/ instance = "prompt" /\ Init
     \/ instance \in {"slow", "day"} /\ Slow!Init
  /\ Rolling!Init

MCNext ==
  /\ \/ instance = "prompt" /\ Next /\ UNCHANGED dayVars
     \/ instance = "slow" /\ Slow!Next /\ UNCHANGED dayVars
     \/ instance = "day" /\ Rolling!Next /\ UNCHANGED vars
  /\ UNCHANGED instance

MCSpec == MCInit /\ [][MCNext]_<<instance, vars, dayVars>>
==============================================================================
