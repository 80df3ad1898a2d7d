------------------------------- MODULE MCFunding -------------------------------
(***************************************************************************)
(* Funding in four kinds of behaviour: one session (the module this one    *)
(* extends) under Prompt; the same with slow holders that evict each other *)
(* and creates that race; the same with creates that draw the session's id *)
(* again from a failed list; and, in constants and variables of its own,   *)
(* what the plans of several sessions of one wallet move (FundPlan).       *)
(***************************************************************************)
EXTENDS Funding, TLC

CONSTANTS SlowCalls,   \* bound on calls at a time, unless all are prompt
          Redraws,     \* bound on failed lists
          Planning,    \* bound on sessions that have measured
          Sessions, Native, Direct, Target, MaxSpend, Balance, Allowance, Outputs, Slip

VARIABLES instance,   \* "prompt", "slow", "redrawn" or "plans"
          deposit, owned, allowance, missing, plan, done, failed, taken

planVars == <<deposit, owned, allowance, missing, plan, done, failed, taken>>

Plan == INSTANCE FundPlan

ASSUME PlanConstants == Plan!FundPlanConstants

Erc20 == Sessions \ (Native \cup Direct)

MCInit == instance \in {"prompt", "slow", "redrawn", "plans"} /\ Init /\ Plan!Init

FewCalls == Cardinality({p \in Procs : pc'[p] # "idle"}) <= SlowCalls

(* While holders are slow nothing fails.                                   *)
Slowly == faults' = 0 /\ FewCalls

(* Creates draw the id again from a failed list, and nothing else fails.   *)
Redrawn ==
  /\ ~Evict /\ FewCalls
  /\ faults' <= Redraws
  /\ faults' # faults => \E p \in Procs : Draws(p)

MCNext ==
  /\ \/ instance = "prompt" /\ Next /\ Prompt /\ UNCHANGED planVars
     \/ instance = "slow" /\ Next /\ Slowly /\ UNCHANGED planVars
     \/ instance = "redrawn" /\ Next /\ Redrawn /\ UNCHANGED planVars
     \/ /\ instance = "plans"
        /\ Plan!Next /\ Cardinality({s \in Sessions : missing'[s] # None}) <= Planning
        /\ UNCHANGED vars
  /\ UNCHANGED instance

Symmetry == Permutations(Procs) \cup Permutations(Erc20)

MCSpec == MCInit /\ [][MCNext]_<<instance, vars, planVars>>
--------------------------------------------------------------------------------
(* The types of a session, its lock and its outbox, and of the plans.      *)
Types == TypeOK /\ Plan!TypeOK

(* InOrder and CompleteIsTrue of confirm_fund_request, with slow holders   *)
(* that write back old sessions too: the swap is not staged before its     *)
(* approval succeeded, nor "complete" said of what did not.                *)
EndsInOrder == InOrder /\ CompleteIsTrue

(* NoneForgotten of confirm_fund_request, of prompt invocations: whatever  *)
(* is in the outbox, the session knows.                                    *)
PromptForgetsNone == instance = "prompt" => NoneForgotten

PromptShot == INSTANCE OneShot
  WITH Items <- Indices,
       fate <- [i \in Indices |-> IF instance = "prompt" THEN Fate(i) ELSE "unsent"]

(* confirm_fund_request of prompt invocations implements OneShot: each     *)
(* transaction of a plan is staged at most once.                           *)
StagedOnce == PromptShot!Spec

(* prepare_funding from balances of another moment: no session spends      *)
(* above its cap, one that completes reached its target, no allowance is   *)
(* left over, and a token that is not shared never lacks an approval.      *)
PlansHold ==
  /\ Plan!SpendCapped /\ Plan!ReachesTarget /\ Plan!NoAllowanceLeft
  /\ Plan!NeverShort
================================================================================
