------------------------------- MODULE Onboarding -------------------------------
(***************************************************************************)
(* begin_onboarding and continue_onboarding with run_onboard_stages: the   *)
(* CLOB login, the deployment of the deposit wallet, the approval batch    *)
(* and the CLOB sync, and the readers of status.json, which write it too.  *)
(* No lock is taken: Procs invocations interleave at every store operation *)
(* and network call.                                                       *)
(*                                                                         *)
(* An approval batch is its nonce and its deadline.  status.json is the    *)
(* pair of transaction ids it keeps (0 for none); its stage is always      *)
(* computed afresh from the chain (StageNow).  Relayer, chain, host        *)
(* approvals and owner are external.                                       *)
(***************************************************************************)
EXTENDS Naturals, Sequences, FiniteSets

CONSTANTS Procs, None, Login,
          Life,        \* BATCH_DEADLINE_SECS, in ticks
          MaxNow, MaxNonce, MaxTx,   \* bounds on the clock, the nonce, the relayer
          MaxFaults,   \* bound on failed calls, refusals and kills
          TxMayFail    \* the relayer may fail a transaction that could succeed

ASSUME OnboardingAssumption ==
  /\ {Life, MaxNow, MaxNonce, MaxTx, MaxFaults} \subseteq Nat
  /\ TxMayFail \in BOOLEAN
  /\ None # Login /\ {None, Login} \cap [nonce : Nat, deadline : Nat] = {}
  /\ None \notin [deploy : Nat, approve : Nat]

Batch == [nonce : 0..MaxNonce, deadline : 0..(MaxNow + Life)]
MaybeBatch == Batch \cup {None}
MaybeTx == 0..MaxTx

VARIABLES creds,      \* clob.json is there
          approval,   \* approval.json: Login, a batch, or None
          status,     \* the ids in status.json, or None before a live one
          prepared, review, sig,  \* prepared_relayer_batch, its review, its signature
          tx,         \* the relayer's transactions: a batch, or None for a deploy
          chain,      \* deployed, funded, approved and the CLOB's sync
          nonce, now,
          asked, granted, signed,  \* the host's approvals: pending, given, used
          pc, did, aid, bat,       \* of each invocation: step, tx ids, batch
          faults

stored == <<creds, approval, status, prepared, review, sig>>
batches == <<prepared, review, sig>>
outside == <<tx, chain, nonce, now>>
host == <<asked, granted, signed>>
local == <<did, aid, bat>>
vars == <<stored, outside, host, pc, local, faults>>

Steps == {"idle", "login", "post_login", "store_creds", "drop_login",
          "stale", "ids", "deployed", "dep_poll", "dep_submit", "dep_note",
          "funded", "approved", "previous", "retire_batch", "retire_sig", "retire_approval",
          "nonce", "review", "prepare", "expiry", "sign", "hint", "host", "drop_hint",
          "store_sig", "store_hint", "retire_hint", "submit", "note", "poll",
          "clear", "recheck", "sync", "fail", "put"}

InStages(p) == pc[p] \notin {"idle", "login", "post_login", "store_creds", "drop_login",
                             "stale", "fail", "put"}

TypeOK ==
  /\ creds \in BOOLEAN
  /\ approval \in MaybeBatch \cup {Login}
  /\ status \in [deploy : MaybeTx, approve : MaybeTx] \cup {None}
  /\ prepared \in MaybeBatch /\ review \in MaybeBatch /\ sig \in MaybeBatch
  /\ tx \in Seq([batch : MaybeBatch, state : {"new", "confirmed", "failed"}])
  /\ Len(tx) <= MaxTx
  /\ chain \in [deployed : BOOLEAN, funded : BOOLEAN, approved : BOOLEAN, synced : BOOLEAN]
  /\ nonce \in 0..MaxNonce /\ now \in 0..MaxNow
  /\ granted \subseteq asked /\ asked \subseteq Batch \cup {Login} /\ signed \subseteq Batch
  /\ pc \in [Procs -> Steps]
  /\ did \in [Procs -> MaybeTx] /\ aid \in [Procs -> MaybeTx]
  /\ bat \in [Procs -> MaybeBatch]
  /\ faults \in 0..MaxFaults

Init ==
  /\ creds = FALSE /\ approval = None /\ status = None
  /\ prepared = None /\ review = None /\ sig = None
  /\ tx = <<>> /\ nonce = 0 /\ now = 0
  /\ chain = [deployed |-> FALSE, funded |-> FALSE, approved |-> FALSE, synced |-> FALSE]
  /\ asked = {} /\ granted = {} /\ signed = {}
  /\ pc = [p \in Procs |-> "idle"]
  /\ did = [p \in Procs |-> 0] /\ aid = [p \in Procs |-> 0]
  /\ bat = [p \in Procs |-> None]
  /\ faults = 0

(* refreshed_live_onboard_status.                                          *)
StageNow ==
  CASE ~chain.deployed -> "deploy"
    [] chain.deployed /\ ~chain.funded -> "fund"
    [] chain.deployed /\ chain.funded /\ ~chain.approved -> "approve"
    [] OTHER -> IF ~creds THEN "creds" ELSE IF ~chain.synced THEN "sync" ELSE "complete"

(* project_next_action.                                                    *)
NextAction ==
  CASE StageNow = "complete" -> "none"
    [] StageNow # "complete" /\ ~creds -> "begin"
    [] OTHER -> IF StageNow = "fund" THEN "fund" ELSE "continue"

Goto(p, step) == pc' = [pc EXCEPT ![p] = step]
Leave(p) ==
  /\ Goto(p, "idle")
  /\ did' = [did EXCEPT ![p] = 0]
  /\ aid' = [aid EXCEPT ![p] = 0]
  /\ bat' = [bat EXCEPT ![p] = None]
Fault == faults < MaxFaults /\ faults' = faults + 1

Ids(p) == [deploy |-> did[p], approve |-> aid[p]]
IdsOf(s) == IF s = None THEN [deploy |-> 0, approve |-> 0] ELSE s

(* Slips: the deadline is compared the wrong way round, or set too late.   *)
ExpiredSwapped(b) == b.deadline >= now
DeadlineTwice == now + Life + Life

Expired(b) == now >= b.deadline
Deadline == now + Life
--------------------------------------------------------------------------------
(* begin: nothing to do once clob.json is there.                           *)
Begin(p) ==
  /\ pc[p] = "idle" /\ ~creds
  /\ Goto(p, "login")
  /\ UNCHANGED <<stored, outside, host, local, faults>>

(* sign_prepared_reusable: one grant, one signature.                       *)
SignLogin(p) ==
  /\ pc[p] = "login"
  /\ \/ /\ Login \in granted
        /\ granted' = granted \ {Login} /\ asked' = asked \ {Login}
        /\ approval' \in {None, approval}
        /\ Goto(p, "post_login") /\ UNCHANGED local
     \/ /\ Login \notin granted
        /\ approval' = Login /\ asked' = asked \cup {Login}
        /\ Leave(p) /\ UNCHANGED granted
  /\ UNCHANGED <<creds, status, batches, outside, signed, faults>>

(* POST /auth/api-key, then GET derive-api-key; a failure is noted in      *)
(* login_retry_after.json, which only status.json reads.                   *)
PostLogin(p) ==
  /\ pc[p] = "post_login"
  /\ Goto(p, "store_creds")
  /\ UNCHANGED <<stored, outside, host, local, faults>>

StoreCreds(p) ==
  /\ pc[p] = "store_creds"
  /\ creds' = TRUE
  /\ Goto(p, "drop_login")
  /\ UNCHANGED <<approval, status, batches, outside, host, local, faults>>

DropLogin(p) ==
  /\ pc[p] = "drop_login"
  /\ approval' \in {None, approval}
  /\ Leave(p)
  /\ UNCHANGED <<creds, status, batches, outside, host, faults>>
--------------------------------------------------------------------------------
(* continue: credentials are required.                                     *)
Continue(p) ==
  /\ pc[p] = "idle" /\ creds
  /\ Goto(p, "stale")
  /\ UNCHANGED <<stored, outside, host, local, faults>>

(* A slip: any pending approval is taken for a stale login.                *)
StaleAny(a) == a # None

(* "Retire only a stale CLOB approval."                                    *)
StaleApproval(a) == a = Login

(* legacy_eoa_mode was switched on: the ids are dropped.                   *)
LegacyLeaves(p) ==
  /\ pc[p] = "stale"
  /\ status' = None /\ Leave(p) /\ UNCHANGED faults

RetireLogin(p) ==
  /\ pc[p] = "stale"
  /\ approval' = IF StaleApproval(approval) THEN None ELSE approval
  /\ \/ Goto(p, "ids") /\ UNCHANGED <<status, local, faults>>
     \/ LegacyLeaves(p)
  /\ UNCHANGED <<creds, batches, outside, host>>

ReadIds(p) ==
  /\ pc[p] = "ids"
  /\ did' = [did EXCEPT ![p] = IdsOf(status).deploy]
  /\ aid' = [aid EXCEPT ![p] = IdsOf(status).approve]
  /\ Goto(p, "deployed")
  /\ UNCHANGED <<stored, outside, host, bat, faults>>

(* store_get drops the error: a status.json that cannot be read has no ids.*)
(* Each id is read on its own.                                             *)
MisreadIds(p) ==
  /\ Fault /\ pc[p] = "ids"
  /\ \E deploy \in {0, IdsOf(status).deploy} : did' = [did EXCEPT ![p] = deploy]
  /\ \E approve \in {0, IdsOf(status).approve} : aid' = [aid EXCEPT ![p] = approve]
  /\ Goto(p, "deployed")
  /\ UNCHANGED <<stored, outside, host, bat>>

CheckDeployed(p) ==
  /\ pc[p] = "deployed"
  /\ Goto(p, IF chain.deployed THEN "funded"
             ELSE IF did[p] # 0 THEN "dep_poll" ELSE "dep_submit")
  /\ UNCHANGED <<stored, outside, host, local, faults>>

(* relayer_submit_configured of a WALLET-CREATE.                           *)
SubmitDeploy(p) ==
  /\ pc[p] = "dep_submit" /\ Len(tx) < MaxTx
  /\ tx' = Append(tx, [batch |-> None, state |-> "new"])
  /\ did' = [did EXCEPT ![p] = Len(tx) + 1]
  /\ Goto(p, "dep_note")
  /\ UNCHANGED <<stored, chain, nonce, now, host, aid, bat, faults>>

(* persist_onboard_status: both ids as this invocation knows them.         *)
Noted(p) == Ids(p)

NoteDeploy(p) ==
  /\ pc[p] = "dep_note"
  /\ status' = Noted(p)
  /\ Goto(p, "dep_poll")
  /\ UNCHANGED <<creds, approval, batches, outside, host, local, faults>>

(* relayer_poll_confirmed: what is not confirmed ends the call, after the  *)
(* ids were noted.                                                         *)
PollDeploy(p) ==
  /\ pc[p] = "dep_poll"
  /\ IF tx[did[p]].state = "confirmed"
     THEN /\ Goto(p, IF chain.deployed THEN "funded" ELSE "fail")
          /\ UNCHANGED status
     ELSE status' = Noted(p) /\ Goto(p, "fail")
  /\ UNCHANGED <<creds, approval, batches, outside, host, local, faults>>

CheckFunded(p) ==
  /\ pc[p] = "funded"
  /\ IF chain.funded
     THEN Goto(p, "approved") /\ UNCHANGED <<status, local>>
     ELSE status' = Noted(p) /\ Leave(p)
  /\ UNCHANGED <<creds, approval, batches, outside, host, faults>>

CheckApproved(p) ==
  /\ pc[p] = "approved"
  /\ Goto(p, IF chain.approved THEN "sync" ELSE IF aid[p] # 0 THEN "previous" ELSE "nonce")
  /\ UNCHANGED <<stored, outside, host, local, faults>>

(* A slip: a batch that is still under way is retired too.                 *)
RetirableAny(i) == tx[i].state # "failed"

Retirable(i) == tx[i].state = "confirmed"

(* The stored batch completed but live authority is absent: retire it.     *)
(* Only the invocation forgets the id; status.json keeps it until a new    *)
(* batch is submitted.                                                     *)
CheckPrevious(p) ==
  /\ pc[p] = "previous"
  /\ IF Retirable(aid[p])
     THEN aid' = [aid EXCEPT ![p] = 0] /\ Goto(p, "retire_batch")
     ELSE Goto(p, "poll") /\ UNCHANGED aid
  /\ UNCHANGED <<stored, outside, host, did, bat, faults>>

RetireBatch(p) ==
  /\ pc[p] = "retire_batch"
  /\ prepared' = None
  /\ Goto(p, "retire_sig")
  /\ UNCHANGED <<creds, approval, status, review, sig, outside, host, local, faults>>

RetireSig(p) ==
  /\ pc[p] = "retire_sig"
  /\ sig' = None
  /\ Goto(p, "retire_approval")
  /\ UNCHANGED <<creds, approval, status, prepared, review, outside, host, local, faults>>

RetireApproval(p) ==
  /\ pc[p] = "retire_approval"
  /\ approval' = None
  /\ Goto(p, "nonce")
  /\ UNCHANGED <<creds, status, batches, outside, host, local, faults>>
--------------------------------------------------------------------------------
(* A slip: a batch is prepared afresh on every continue.                   *)
KeepsNone(b) == FALSE

KeepsPrepared(b) == b # None /\ ~Expired(b)

(* relayer_wallet_nonce, then prepare_relayer_batch: a stored batch is     *)
(* kept until its deadline (the deletes of an expired one are best effort).*)
PrepareBatch(p) ==
  /\ pc[p] = "nonce"
  /\ IF KeepsPrepared(prepared)
     THEN /\ bat' = [bat EXCEPT ![p] = prepared]
          /\ Goto(p, IF review = prepared THEN "expiry" ELSE "fail")
          /\ UNCHANGED batches
     ELSE /\ bat' = [bat EXCEPT ![p] = [nonce |-> nonce, deadline |-> Deadline]]
          /\ prepared' \in {None, prepared} /\ sig' \in {None, sig}
          /\ review' \in {None, review}
          /\ Goto(p, "review")
  /\ UNCHANGED <<creds, approval, status, outside, host, did, aid, faults>>

StoreReview(p) ==
  /\ pc[p] = "review"
  /\ review' = bat[p]
  /\ Goto(p, "prepare")
  /\ UNCHANGED <<creds, approval, status, prepared, sig, outside, host, local, faults>>

(* store_prepared_signing, then verify_review_intent.                      *)
StorePrepared(p) ==
  /\ pc[p] = "prepare"
  /\ prepared' = bat[p]
  /\ Goto(p, IF review = bat[p] THEN "expiry" ELSE "fail")
  /\ UNCHANGED <<creds, approval, status, review, sig, outside, host, local, faults>>

(* relayer_batch_body asks once more: "retry onboarding to prepare and     *)
(* approve a fresh bounded batch".                                         *)
CheckExpiry(p) ==
  /\ pc[p] = "expiry"
  /\ IF Expired(bat[p])
     THEN prepared' \in {None, prepared} /\ sig' \in {None, sig} /\ Goto(p, "fail")
     ELSE Goto(p, "sign") /\ UNCHANGED <<prepared, sig>>
  /\ UNCHANGED <<creds, approval, status, review, outside, host, local, faults>>

(* relayer_batch_signature: a stored signature of this batch is used, one  *)
(* of another batch retired.                                               *)
ReadSignature(p) ==
  /\ pc[p] = "sign"
  /\ IF sig = bat[p] THEN Goto(p, "submit") /\ UNCHANGED sig
                     ELSE sig' = None /\ Goto(p, "hint")
  /\ UNCHANGED <<creds, approval, status, prepared, review, outside, host, local, faults>>

(* existing_approval_hint: an artifact of anything else is retired.        *)
ReadHint(p) ==
  /\ pc[p] = "hint"
  /\ approval' = IF approval = bat[p] THEN approval ELSE None
  /\ Goto(p, "host")
  /\ UNCHANGED <<creds, status, batches, outside, host, local, faults>>

(* sign_payload_batch: the host signs what the owner granted, asks the     *)
(* owner, or refuses the hint it was sent (a Broker that cannot be reached,*)
(* the eligibility action of a first request, a rejection).  Without a     *)
(* hint a refusal is an error like any other.                              *)
SignBatch(p) ==
  /\ pc[p] = "host"
  /\ \/ /\ bat[p] \in granted
        /\ signed' = signed \cup {bat[p]}
        /\ Goto(p, "drop_hint") /\ UNCHANGED <<asked, granted, faults>>
     \/ /\ bat[p] \notin granted
        /\ asked' = asked \cup {bat[p]}
        /\ Goto(p, "store_hint") /\ UNCHANGED <<granted, signed, faults>>
     \/ /\ Fault /\ approval = bat[p]
        /\ Goto(p, "retire_hint") /\ UNCHANGED host
  /\ UNCHANGED <<stored, outside, local>>

(* Signed: the artifact goes (best effort), the signature is stored.       *)
DropHint(p) ==
  /\ pc[p] = "drop_hint"
  /\ approval' \in {None, approval}
  /\ Goto(p, "store_sig")
  /\ UNCHANGED <<creds, status, batches, outside, host, local, faults>>

StoreSignature(p) ==
  /\ pc[p] = "store_sig"
  /\ sig' = bat[p]
  /\ Goto(p, "submit")
  /\ UNCHANGED <<creds, approval, status, prepared, review, outside, host, local, faults>>

(* Pending: what to approve is told.                                       *)
StoreHint(p) ==
  /\ pc[p] = "store_hint"
  /\ approval' = bat[p]
  /\ Goto(p, "fail")
  /\ UNCHANGED <<creds, status, batches, outside, host, local, faults>>

(* Refused: "retire it and let the retry go without one".                  *)
RetireHint(p) ==
  /\ pc[p] = "retire_hint"
  /\ approval' = None
  /\ Goto(p, "fail")
  /\ UNCHANGED <<creds, status, batches, outside, host, local, faults>>

SubmitBatch(p) ==
  /\ pc[p] = "submit" /\ Len(tx) < MaxTx
  /\ tx' = Append(tx, [batch |-> bat[p], state |-> "new"])
  /\ aid' = [aid EXCEPT ![p] = Len(tx) + 1]
  /\ Goto(p, "note")
  /\ UNCHANGED <<stored, chain, nonce, now, host, did, bat, faults>>

NoteBatch(p) ==
  /\ pc[p] = "note"
  /\ status' = Noted(p)
  /\ Goto(p, "poll")
  /\ UNCHANGED <<creds, approval, batches, outside, host, local, faults>>

PollBatch(p) ==
  /\ pc[p] = "poll"
  /\ IF tx[aid[p]].state = "confirmed"
     THEN Goto(p, "clear") /\ UNCHANGED status
     ELSE status' = Noted(p) /\ Goto(p, "fail")
  /\ UNCHANGED <<creds, approval, batches, outside, host, local, faults>>

(* Best-effort deletes once the batch is confirmed.                        *)
ClearBatch(p) ==
  /\ pc[p] = "clear"
  /\ prepared' \in {None, prepared} /\ sig' \in {None, sig}
  /\ approval' \in {None, approval}
  /\ Goto(p, "recheck")
  /\ UNCHANGED <<creds, status, review, outside, host, local, faults>>

Recheck(p) ==
  /\ pc[p] = "recheck"
  /\ IF chain.approved THEN Goto(p, "sync") /\ UNCHANGED status
                       ELSE status' = Noted(p) /\ Goto(p, "fail")
  /\ UNCHANGED <<creds, approval, batches, outside, host, local, faults>>

(* The ids are noted before and after GET /balance-allowance/update.       *)
Sync(p) ==
  /\ pc[p] = "sync"
  /\ status' = Noted(p)
  /\ chain' = [chain EXCEPT !.synced = chain.funded /\ chain.approved]
  /\ Leave(p)
  /\ UNCHANGED <<creds, approval, batches, tx, nonce, now, host, faults>>

(* persist_onboard_failure rewrites the ids it reads.                      *)
FailureRead(p) ==
  /\ pc[p] = "fail"
  /\ did' = [did EXCEPT ![p] = IdsOf(status).deploy]
  /\ aid' = [aid EXCEPT ![p] = IdsOf(status).approve]
  /\ Goto(p, "put")
  /\ UNCHANGED <<stored, outside, host, bat, faults>>

(* ... or none, when it cannot read them.                                  *)
MisreadFailure(p) ==
  /\ Fault /\ pc[p] = "fail"
  /\ did' = [did EXCEPT ![p] = 0]
  /\ aid' = [aid EXCEPT ![p] = 0]
  /\ Goto(p, "put")
  /\ UNCHANGED <<stored, outside, host, bat>>

(* local_status_for_wallet: a read of the account refreshes status.json    *)
(* and preserve_onboard_metadata carries the ids over.                     *)
StatusRead(p) ==
  /\ pc[p] = "idle" /\ status # None
  /\ did' = [did EXCEPT ![p] = status.deploy]
  /\ aid' = [aid EXCEPT ![p] = status.approve]
  /\ Goto(p, "put")
  /\ UNCHANGED <<stored, outside, host, bat, faults>>

StatusPut(p) ==
  /\ pc[p] = "put"
  /\ status' = Noted(p)
  /\ Leave(p)
  /\ UNCHANGED <<creds, approval, batches, outside, host, faults>>

(* An error inside run_onboard_stages, or the end of the invocation.       *)
Err(p) ==
  /\ Fault /\ InStages(p)
  /\ Goto(p, "fail")
  /\ UNCHANGED <<stored, outside, host, local>>

Misread(p) == MisreadIds(p) \/ MisreadFailure(p)

Kill(p) ==
  /\ Fault /\ pc[p] # "idle"
  /\ Leave(p)
  /\ UNCHANGED <<stored, outside, host>>
--------------------------------------------------------------------------------
CanSucceed(t) ==
  IF t.batch = None THEN ~chain.deployed
  ELSE t.batch.nonce = nonce /\ nonce < MaxNonce /\ ~Expired(t.batch)

Confirm(i) ==
  /\ tx[i].state = "new" /\ CanSucceed(tx[i])
  /\ tx' = [tx EXCEPT ![i].state = "confirmed"]
  /\ IF tx[i].batch = None
     THEN chain' = [chain EXCEPT !.deployed = TRUE] /\ UNCHANGED nonce
     ELSE chain' = [chain EXCEPT !.approved = TRUE] /\ nonce' = nonce + 1
  /\ UNCHANGED <<stored, now, host, pc, local, faults>>

Fails(i) ==
  /\ tx[i].state = "new" /\ (TxMayFail \/ ~CanSucceed(tx[i]))
  /\ tx' = [tx EXCEPT ![i].state = "failed"]
  /\ UNCHANGED <<stored, chain, nonce, now, host, pc, local, faults>>

Fund ==
  /\ chain.deployed /\ ~chain.funded
  /\ chain' = [chain EXCEPT !.funded = TRUE]
  /\ UNCHANGED <<stored, tx, nonce, now, host, pc, local, faults>>

Grant(r) ==
  /\ r \notin granted
  /\ granted' = granted \cup {r}
  /\ UNCHANGED <<stored, outside, asked, signed, pc, local, faults>>

(* revoke-approvals, confirmed.                                            *)
Revoke ==
  /\ chain.approved /\ nonce < MaxNonce
  /\ chain' = [chain EXCEPT !.approved = FALSE, !.synced = FALSE]
  /\ nonce' = nonce + 1
  /\ UNCHANGED <<stored, tx, now, host, pc, local, faults>>

Tick ==
  /\ now < MaxNow /\ now' = now + 1
  /\ UNCHANGED <<stored, tx, chain, nonce, host, pc, local, faults>>

Signing(p) ==
  \/ ReadSignature(p) \/ ReadHint(p) \/ SignBatch(p) \/ DropHint(p)
  \/ StoreSignature(p) \/ StoreHint(p) \/ RetireHint(p)

Stages(p) ==
  \/ RetireLogin(p) \/ ReadIds(p) \/ CheckDeployed(p)
  \/ SubmitDeploy(p) \/ NoteDeploy(p) \/ PollDeploy(p)
  \/ CheckFunded(p) \/ CheckApproved(p) \/ CheckPrevious(p)
  \/ RetireBatch(p) \/ RetireSig(p) \/ RetireApproval(p)
  \/ PrepareBatch(p) \/ StoreReview(p) \/ StorePrepared(p) \/ CheckExpiry(p)
  \/ Signing(p) \/ SubmitBatch(p) \/ NoteBatch(p) \/ PollBatch(p)
  \/ ClearBatch(p) \/ Recheck(p) \/ Sync(p) \/ FailureRead(p) \/ StatusPut(p)

LoginSteps(p) == SignLogin(p) \/ PostLogin(p) \/ StoreCreds(p) \/ DropLogin(p)

Next ==
  \/ \E p \in Procs :
       Begin(p) \/ Continue(p) \/ LoginSteps(p) \/ Stages(p)
         \/ StatusRead(p) \/ Err(p) \/ Misread(p) \/ Kill(p)
  \/ \E i \in 1..Len(tx) : Confirm(i) \/ Fails(i)
  \/ \E r \in asked : Grant(r)
  \/ Fund \/ Revoke \/ Tick

Spec == Init /\ [][Next]_vars

(* A step of an owner who does not revoke the approvals, one that does not *)
(* find legacy_eoa_mode switched on, and one that reads the ids there are. *)
Unrevoked == ~Revoke
Unswitched == \A p \in Procs : ~LegacyLeaves(p)
ReadsTruly == \A p \in Procs : ~Misread(p)

(* One begin or continue at a time, while status.json may be read, and     *)
(* refreshed, beside it; and no two invocations of any kind at a time.     *)
CallsFollow ==
  \A p, q \in Procs :
    pc[p] = "idle" /\ pc'[p] \in {"login", "stale"} => pc[q] \in {"idle", "put"}
Follows == \A p, q \in Procs : pc[p] = "idle" /\ pc'[p] # "idle" => pc[q] = "idle"

UnrevokedSpec == Init /\ [][Next /\ CallsFollow /\ Unrevoked]_vars
UnswitchedSpec == Init /\ [][Next /\ Follows /\ Unswitched /\ ReadsTruly]_vars

(* What the agent does when it heeds next_action.                          *)
Heed(p) ==
  \/ NextAction = "begin" /\ Begin(p)
  \/ NextAction = "continue" /\ Continue(p)

(* The host runs an invocation on; the agent heeds status.json, the owner  *)
(* answers what is asked and funds the wallet, the relayer settles.        *)
Fairness ==
  /\ \A p \in Procs : WF_vars(LoginSteps(p) \/ Stages(p)) /\ SF_vars(Heed(p))
  /\ WF_vars(\E r \in asked : Grant(r))
  /\ WF_vars(Fund)
  /\ WF_vars(\E i \in 1..Len(tx) : Confirm(i) \/ Fails(i))

FairSpec == Spec /\ Fairness
--------------------------------------------------------------------------------
(* An id in status.json is kept as long as its transaction may still be    *)
(* settled, wherever a call is killed or any other call fails: nothing is  *)
(* submitted beside it.  A status.json that cannot be read loses it        *)
(* (Misread), and so may a refresh by a second invocation.                 *)
KeepsIds ==
  status # None =>
    \A f \in {"deploy", "approve"} :
      status[f] # 0 /\ tx[status[f]].state = "new" =>
        status' # None /\ status'[f] = status[f]

(* A submission whose answer was lost is retried with the same batch: of   *)
(* the batches that may still execute there is only one, so the owner's    *)
(* approvals are granted once.                                             *)
SameBatchRetried ==
  \A i, j \in 1..Len(tx) :
    LET Live(k) == tx[k].state = "new" /\ tx[k].batch # None /\ CanSucceed(tx[k]) IN
    Live(i) /\ Live(j) => tx[i].batch = tx[j].batch

Refused == \E p \in Procs : RetireHint(p)

KeepsApproval ==
  approval \in Batch /\ ~Expired(approval) /\ approval \notin signed' /\ ~Refused
    => approval' = approval

(* "An exact deposit-wallet approval must survive retries of this          *)
(* continuation": until it signed or its batch expired.  It does not       *)
(* survive a host that refuses it, which this leaves out (Refused).        *)
ApprovalSurvives == [][KeepsApproval]_vars

(* "status.json names the next action at every stage": an agent that       *)
(* heeds it gets a wallet that is deployed, funded, approved and synced.   *)
Completes == <>(StageNow = "complete")
================================================================================
