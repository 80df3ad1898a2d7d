-------------------------------- MODULE FundPlan --------------------------------
(***************************************************************************)
(* What a funding session moves (prepare_funding of fund_flow.rs): how much *)
(* pUSD the deposit wallet misses, how much of the input token may be taken *)
(* for it, and which transactions do it.  Sessions are locked one by one,  *)
(* so two of a wallet measure the same balances, and each reads them at    *)
(* other moments than it reads the allowance.  The steps through which the *)
(* transactions then go are Funding's; here they run on the chain in order.*)
(* Enso, which quotes and routes, and the chain are external.              *)
(***************************************************************************)
EXTENDS Naturals, Sequences

CONSTANTS None,
          Sessions,
          Native, Direct,   \* the sessions that pay in POL, and in pUSD
          Target,           \* target_pusd
          MaxSpend,         \* max_spend, in the input token
          Balance,          \* what the owner has of each token at first
          Allowance,        \* what the router may take at first
          Outputs,          \* what Enso may quote and route
          Slip              \* how far a swap may stay below its route

FundPlanConstants ==
  /\ Native \cup Direct \subseteq Sessions /\ Native \cap Direct = {}
  /\ {Target, MaxSpend, Balance, Allowance, Slip} \subseteq Nat
  /\ Outputs \subseteq Nat
  /\ None \notin Nat

VARIABLES deposit,      \* the deposit wallet's pUSD
          owned,        \* the owner's tokens
          allowance,    \* of the router, over the owner's ERC-20 token
          missing,      \* what each session measured, or None
          plan,         \* prepared_funding, or None
          done, failed, \* each plan's confirmed transactions, and its end
          taken         \* what each session took from the owner

vars == <<deposit, owned, allowance, missing, plan, done, failed, taken>>

Tokens == {"native", "erc20", "pusd"}
TokenOf(s) == IF s \in Native THEN "native" ELSE IF s \in Direct THEN "pusd" ELSE "erc20"

TypeOK ==
  /\ deposit \in Nat /\ allowance \in Nat
  /\ owned \in [Tokens -> 0..Balance]
  /\ \A s \in Sessions :
       /\ missing[s] # None => missing[s] \in 1..Target
       /\ plan[s] # None =>
            /\ plan[s].steps \in {<<"transfer">>, <<"swap">>, <<"approve", "swap">>}
            /\ done[s] <= Len(plan[s].steps)
       /\ failed[s] \in {"no", "short", "reverted"}
       /\ taken[s] \in Nat

Init ==
  /\ deposit = 0
  /\ owned = [t \in Tokens |-> Balance]
  /\ allowance = Allowance
  /\ missing = [s \in Sessions |-> None]
  /\ plan = [s \in Sessions |-> None]
  /\ done = [s \in Sessions |-> 0]
  /\ failed = [s \in Sessions |-> "no"]
  /\ taken = [s \in Sessions |-> 0]

chain == <<deposit, owned, allowance, done, failed, taken>>
--------------------------------------------------------------------------------
(* prepare_funding reads the deposit wallet's balance.                     *)
Measure(s) ==
  /\ missing[s] = None
  /\ deposit < Target
  /\ missing' = [missing EXCEPT ![s] = Target - deposit]
  /\ UNCHANGED <<plan, chain>>

(* An answer of prepare_funding that is not a plan: the next confirm       *)
(* measures again.                                                         *)
Refuse(s) ==
  /\ missing[s] # None /\ plan[s] = None
  /\ missing' = [missing EXCEPT ![s] = None]
  /\ UNCHANGED <<plan, chain>>

(* validate_direct_pusd_funding.                                           *)
FitsDirect(need) == need <= MaxSpend /\ owned["pusd"] >= need

PlanDirect(s) ==
  /\ s \in Direct
  /\ missing[s] # None /\ plan[s] = None
  /\ FitsDirect(missing[s])
  /\ plan' = [plan EXCEPT ![s] = [steps |-> <<"transfer">>, input |-> missing[s],
                                  output |-> missing[s]]]
  /\ UNCHANGED <<missing, chain>>

(* A slip: the two per cent on top are not cut off at max_spend.           *)
RequiredInputUncapped(need, atMax) == (((MaxSpend * need) \div atMax) * 102) \div 100

(* funding_required_input.                                                 *)
RequiredInput(need, atMax) ==
  LET padded == (((MaxSpend * need) \div atMax) * 102) \div 100 IN
  IF padded < MaxSpend THEN padded ELSE MaxSpend

Covers(output, need) == output >= need

(* The approval is of the input, not of all that may be spent.             *)
Approved(input) == input

(* An ERC-20 input is approved exactly when the router may not take it yet.*)
StepsOf(s, input) ==
  IF s \notin Native /\ allowance < input THEN <<"approve", "swap">> ELSE <<"swap">>

(* prepare_enso: a quote for max_spend, a route for what is needed.        *)
PlanSwap(s) ==
  /\ s \notin Direct
  /\ missing[s] # None /\ plan[s] = None
  /\ MaxSpend > 0 /\ owned[TokenOf(s)] >= MaxSpend
  /\ \E atMax, output \in Outputs :
       LET input == RequiredInput(missing[s], atMax) IN
       /\ atMax >= missing[s] /\ atMax > 0
       /\ Covers(output, missing[s])
       /\ plan' = [plan EXCEPT ![s] = [steps |-> StepsOf(s, input), input |-> input,
                                       output |-> output]]
  /\ UNCHANGED <<missing, chain>>

Pending(s, step) ==
  /\ plan[s] # None /\ failed[s] = "no"
  /\ done[s] < Len(plan[s].steps)
  /\ plan[s].steps[done[s] + 1] = step

RunApproval(s) ==
  /\ Pending(s, "approve")
  /\ allowance' = Approved(plan[s].input)
  /\ done' = [done EXCEPT ![s] = @ + 1]
  /\ UNCHANGED <<deposit, owned, missing, plan, failed, taken>>

Take(s) ==
  /\ owned' = [owned EXCEPT ![TokenOf(s)] = @ - plan[s].input]
  /\ taken' = [taken EXCEPT ![s] = @ + plan[s].input]
  /\ done' = [done EXCEPT ![s] = @ + 1]

RunTransfer(s) ==
  /\ Pending(s, "transfer")
  /\ owned["pusd"] >= plan[s].input
  /\ Take(s)
  /\ deposit' = deposit + plan[s].input
  /\ UNCHANGED <<allowance, missing, plan, failed>>

Allowed(s) == s \in Native \/ allowance >= plan[s].input

RunSwap(s) ==
  /\ Pending(s, "swap")
  /\ owned[TokenOf(s)] >= plan[s].input /\ Allowed(s)
  /\ Take(s)
  /\ \E lost \in 0..Slip :
       /\ lost <= plan[s].output
       /\ deposit' = deposit + (plan[s].output - lost)
  /\ allowance' = IF s \in Native THEN allowance ELSE allowance - plan[s].input
  /\ UNCHANGED <<missing, plan, failed>>

(* A transaction reverts: the router may not take enough, or the owner no  *)
(* longer has it; or for a reason of the chain's own.                      *)
Revert(s) ==
  /\ \E step \in {"approve", "swap", "transfer"} : Pending(s, step)
  /\ failed' = [failed EXCEPT ![s] =
       IF Pending(s, "swap") /\ ~Allowed(s) THEN "short" ELSE "reverted"]
  /\ UNCHANGED <<deposit, owned, allowance, missing, plan, done, taken>>

Next ==
  \E s \in Sessions :
    \/ Measure(s) \/ Refuse(s) \/ PlanDirect(s) \/ PlanSwap(s)
    \/ RunApproval(s) \/ RunTransfer(s) \/ RunSwap(s) \/ Revert(s)

Spec == Init /\ [][Next]_vars
--------------------------------------------------------------------------------
Complete(s) == plan[s] # None /\ done[s] = Len(plan[s].steps)

(* No session takes more than its max_spend from the owner, however quotes *)
(* and routes change between the two calls to Enso.                        *)
SpendCapped == \A s \in Sessions : taken[s] <= MaxSpend

(* A session that completes has brought the deposit wallet to its target,  *)
(* up to what the swap lost to slippage.                                   *)
ReachesTarget == \A s \in Sessions : Complete(s) => deposit + Slip >= Target

(* Exact approvals: when every planned session has completed, the router   *)
(* may take no more of the owner's tokens than it could at first.          *)
NoAllowanceLeft ==
  (\A s \in Sessions : plan[s] = None \/ Complete(s)) => allowance <= Allowance

(* No two sessions have planned to spend the ERC-20 token.                 *)
Unshared ==
  \A s, t \in Sessions :
    TokenOf(s) = "erc20" /\ TokenOf(t) = "erc20" /\ plan[s] # None /\ plan[t] # None => s = t

(* Until another session plans to spend the same ERC-20 token, a swap is   *)
(* never short of allowance when it runs: the approval it needs is in its  *)
(* plan, and before the swap.                                              *)
NeverShort == Unshared => \A s \in Sessions : failed[s] # "short"
================================================================================
