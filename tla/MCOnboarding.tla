----------------------------- MODULE MCOnboarding -----------------------------
(***************************************************************************)
(* Five kinds of behaviour.  Of a wallet (the module this one extends),    *)
(* one invocation at a time: its owner does not revoke the approvals while *)
(* legacy_eoa_mode is switched on and off; or revokes them and onboards    *)
(* again, that mode off.  Then one whose status.json is read, and          *)
(* refreshed, beside the invocation that moves it.  And of the CLOB login  *)
(* laid open (Login), in constants and variables of its own, with          *)
(* invocations that end after they signed without a word of the wait, or   *)
(* never do.                                                               *)
(***************************************************************************)
EXTENDS Onboarding, TLC

CONSTANTS FewFaults,   \* a smaller bound while it is revoked or read
          Callers, Stamps, Ttl, RetryWait, LoginFaults

VARIABLES instance,   \* "unrevoked", "unswitched", "read", "login" or "unkilled"
          host_l, hint_l, wait_l, creds_l, pc_l, req_l, faults_l

loginVars == <<host_l, hint_l, wait_l, creds_l, pc_l, req_l, faults_l>>

ClobLogin == INSTANCE Login
  WITH Procs <- Callers, MaxFaults <- LoginFaults, Prompt <- FALSE,
       host <- host_l, hint <- hint_l, wait <- wait_l, creds <- creds_l,
       pc <- pc_l, req <- req_l, faults <- faults_l

ASSUME LoginConstants == ClobLogin!LoginConstants

MCInit ==
  /\ instance \in {"unrevoked", "unswitched", "read", "login", "unkilled"}
  /\ Init /\ ClobLogin!Init

Few ==
  /\ faults' <= FewFaults
  /\ \A i \in 1..Len(tx) :
       tx[i].state = "new" /\ tx'[i].state = "failed" => ~CanSucceed(tx[i])

(* Where status.json is read the readers come one at a time, and time      *)
(* passes between the calls, with a batch prepared.  In the instances      *)
(* without readers it passes within a call too.                            *)
OneReader ==
  /\ \A p, q \in Procs : StatusRead(p) => pc[q] # "put"
  /\ Tick => prepared # None /\ \A p \in Procs : pc[p] \in {"idle", "put"}

MCNext ==
  /\ \/ instance = "unrevoked" /\ Next /\ Follows /\ Unrevoked /\ UNCHANGED loginVars
     \/ /\ instance = "unswitched"
        /\ Next /\ Follows /\ Unswitched /\ ReadsTruly /\ Few
        /\ UNCHANGED loginVars
     \/ /\ instance = "read"
        /\ Next /\ CallsFollow /\ Unrevoked /\ Unswitched /\ Few /\ OneReader
        /\ UNCHANGED loginVars
     \/ instance = "login" /\ ClobLogin!Next /\ UNCHANGED vars
     \/ /\ instance = "unkilled"
        /\ ClobLogin!Next /\ ClobLogin!Unkilled /\ ClobLogin!WaitWritten
        /\ UNCHANGED vars
  /\ UNCHANGED instance

Symmetry == Permutations(Procs)

MCSpec == MCInit /\ [][MCNext]_<<instance, vars, loginVars>>
--------------------------------------------------------------------------------
(* The types of the onboarding and of the login.                           *)
Types == TypeOK /\ ClobLogin!TypeOK

(* KeepsIds of run_onboard_stages and persist_onboard_status, for a wallet *)
(* whose approvals may be revoked and whose status.json can be read.       *)
IdsKept == [][instance = "unswitched" => KeepsIds]_vars

(* ApprovalSurvives of continue_onboarding, for a wallet whose approvals   *)
(* stay, though ids are misread and readers of status.json write back      *)
(* those of another moment; onboard_revoke shows the one that loses it     *)
(* after a revoke.                                                         *)
ApprovalKept == [][(instance \in {"unrevoked", "read"}) => KeepsApproval]_vars

(* SameBatchRetried of prepare_relayer_batch, for a wallet whose approvals *)
(* stay, though readers write old ids back.  After a revoke it does not    *)
(* hold: a batch submitted by a call that was killed before it noted the   *)
(* id is followed by others, prepared on every continue while status.json  *)
(* names the one confirmed before.                                         *)
BatchRetried == instance \in {"unrevoked", "read"} => SameBatchRetried

(* WaitSuffices of begin_onboarding, where no invocation is killed after   *)
(* it signed and no put of login_retry_after.json fails: the owner is not  *)
(* told to retry while the spent grant would refuse it.                    *)
LoginWaits == instance = "unkilled" => ClobLogin!WaitSuffices
================================================================================
