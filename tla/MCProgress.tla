------------------------------ MODULE MCProgress ------------------------------
(***************************************************************************)
(* What must end, under the fairness each module states: an onboarding     *)
(* (the module this one extends), the CLOB login and a funding session,    *)
(* one of them in a behaviour, each in variables of its own.               *)
(***************************************************************************)
EXTENDS Onboarding

CONSTANTS p1, p2, NoOne, Orphan

VARIABLES instance,   \* "onboarding", "login" or "funding"
          host_l, hint_l, wait_l, creds_l, pc_l, req_l, faults_l,
          owner_f, inside_f, session_f, outbox_f, pc_f, ses_f, faults_f

loginVars == <<host_l, hint_l, wait_l, creds_l, pc_l, req_l, faults_l>>
fundVars == <<owner_f, inside_f, session_f, outbox_f, pc_f, ses_f, faults_f>>

ClobLogin == INSTANCE Login
  WITH Stamps <- {"t1"}, Ttl <- 2, RetryWait <- 2,
       Prompt <- TRUE, MaxFaults <- 2,
       host <- host_l, hint <- hint_l, wait <- wait_l, creds <- creds_l,
       pc <- pc_l, req <- req_l, faults <- faults_l

FundSession == INSTANCE Funding
  WITH Procs <- {p1, p2}, SlowHolders <- FALSE, MaxTransactions <- 2,
       MaxOutbox <- 2, MaxFaults <- 2,
       owner <- owner_f, inside <- inside_f, session <- session_f,
       outbox <- outbox_f, pc <- pc_f, ses <- ses_f, faults <- faults_f

MCInit ==
  /\ instance \in {"onboarding", "login", "funding"}
  /\ Init /\ ClobLogin!Init /\ FundSession!Init

(* A batch may expire while its approval is waited for, but not once its   *)
(* deadline was looked at for the last time (CheckExpiry): it is signed,   *)
(* submitted and settled in time.  One that expired at the relayer fails,  *)
(* and every continue polls its id for ever.                               *)
UnderWay ==
  {bat[p] : p \in {q \in Procs : pc[q] \in {"sign", "hint", "host", "drop_hint",
                                          "store_sig", "submit"}}}
    \cup {tx[i].batch : i \in {j \in 1..Len(tx) : tx[j].state = "new"}}

SettledInTime == \A b \in UnderWay \ {None} : Tick => now' < b.deadline

MCNext ==
  /\ \/ /\ instance = "onboarding"
        /\ Next /\ Unrevoked /\ Unswitched /\ SettledInTime
        /\ UNCHANGED <<loginVars, fundVars>>
     \/ instance = "login" /\ ClobLogin!Next /\ UNCHANGED <<vars, fundVars>>
     \/ /\ instance = "funding"
        /\ FundSession!Next /\ FundSession!Prompt
        /\ UNCHANGED <<vars, loginVars>>
  /\ UNCHANGED instance

MCSpec ==
  /\ MCInit /\ [][MCNext]_<<instance, vars, loginVars, fundVars>>
  /\ instance = "onboarding" => Fairness
  /\ instance = "login" => ClobLogin!Fairness
  /\ instance = "funding" => FundSession!Fairness
--------------------------------------------------------------------------------
(* Completes, of run_onboard_stages: an agent that heeds next_action gets  *)
(* a tradeable wallet, in spite of kills, failed calls and a batch that    *)
(* expires while its approval is waited for, where the relayer fails       *)
(* nothing that could succeed and SettledInTime.                           *)
OnboardingCompletes == instance = "onboarding" => Completes

(* LoginCompletes, of begin_onboarding: no stale hint, no spent grant and  *)
(* no rejection leaves the login stuck.                                    *)
ClobLoginCompletes == instance = "login" => ClobLogin!LoginCompletes

(* Progresses, of confirm_fund_request: a session that is confirmed again  *)
(* and again completes, fails, or says that a stage is in doubt.           *)
FundingProgresses == FundSession!Progresses
================================================================================
