------------------------------- MODULE TradeDay -------------------------------
(***************************************************************************)
(* TradeFlow and, in constants and variables of its own, DailyCap: what    *)
(* TradeFlow checks within one day, where the day moves.                   *)
(***************************************************************************)
EXTENDS TradeFlow

CONSTANTS Day, MaxClock, MaxPosts, Cap, Costs, Statuses, MaxAudit, StopsUnheard

VARIABLES clock_d, audit_d, receipts_d, sent_d, pc_d, post_d, faults_d

dayVars == <<clock_d, audit_d, receipts_d, sent_d, pc_d, post_d, faults_d>>

Rolling == INSTANCE DailyCap
  WITH Answers <- Statuses, clock <- clock_d, audit <- audit_d, receipts <- receipts_d,
       sent <- sent_d, pc <- pc_d, post <- post_d, faults <- faults_d

ASSUME DayConstants == Rolling!DailyCapConstants
--------------------------------------------------------------------------------
(* RollingCap of daily_posted_microusd: no day that ends with a send       *)
(* exceeds the cap, whatever receipts are lost after their audit lines.    *)
DayHolds == Rolling!TypeOK /\ Rolling!RollingCap
================================================================================
