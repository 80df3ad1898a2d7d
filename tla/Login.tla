--------------------------------- MODULE Login ---------------------------------
(***************************************************************************)
(* The CLOB login of begin_onboarding, with what Onboarding takes as one   *)
(* step laid open: the reusable approval of approval.rs, which is bound to *)
(* the operation and not to its bytes, since every attempt carries a new   *)
(* server timestamp; the artifact approval.json, which is only a hint for  *)
(* the host; the single-use grant that the host keeps for a while after it *)
(* was spent; and the marker that tells a failed login how long to wait.   *)
(*                                                                         *)
(* The host (Machine and Broker), the owner and the venue are external:    *)
(* the host keeps one action per request identity, the first of them an    *)
(* eligibility action that no signature can be had under.  Times are what  *)
(* is left of them.                                                        *)
(***************************************************************************)
EXTENDS Naturals

CONSTANTS Procs, None,
          Stamps,        \* server timestamps
          Ttl,           \* APPROVAL_TTL_MS of the host
          RetryWait,     \* LOGIN_RETRY_WAIT_MS
          MaxFaults,     \* bound on refusals, failed writes and kills
          Prompt         \* TRUE: what is asked is approved and used before it expires

LoginConstants ==
  /\ {Ttl, RetryWait} \subseteq Nat \ {0} /\ Ttl <= RetryWait
  /\ MaxFaults \in Nat /\ Prompt \in BOOLEAN
  /\ "clob_auth" \notin Stamps /\ None \notin Nat

VARIABLES host,      \* the host's action for each request identity, or None
          hint,      \* approval.json, or None
          wait,      \* what is left of login_retry_after.json
          creds,     \* whether creds/clob.json is stored
          pc, req,   \* of each invocation: its step, its binding and its hint
          faults

vars == <<host, hint, wait, creds, pc, req, faults>>

Bindings == {"clob_auth"} \cup Stamps
Steps == {"idle", "hint", "sign", "store_hint", "retire", "drop_hint",
          "post", "creds", "fail", "clear"}

TypeOK ==
  /\ \A b \in Bindings : host[b] # None =>
       host[b] \in [kind : {"eligibility", "grant"}, ttl : 1..Ttl,
                    state : {"pending", "approved", "rejected", "spent"}]
  /\ hint # None => hint \in [binding : Bindings, ttl : 0..Ttl]
  /\ wait \in 0..RetryWait
  /\ creds \in BOOLEAN
  /\ pc \in [Procs -> Steps]
  /\ \A p \in Procs : req[p] # None => req[p] \in [binding : Bindings, sent : BOOLEAN]
  /\ faults \in 0..MaxFaults

Init ==
  /\ host = [b \in Bindings |-> None]
  /\ hint = None
  /\ wait = 0
  /\ creds = FALSE
  /\ pc = [p \in Procs |-> "idle"]
  /\ req = [p \in Procs |-> None]
  /\ faults = 0

Goto(p, step) == pc' = [pc EXCEPT ![p] = step]
Return(p) == Goto(p, "idle") /\ req' = [req EXCEPT ![p] = None]
Fails == faults < MaxFaults /\ faults' = faults + 1
--------------------------------------------------------------------------------
(* approval_binding_digest of a reusable approval.                         *)
Binding(stamp) == "clob_auth"

(* begin_onboarding: with credentials nothing is left to do.               *)
Begin(p) ==
  /\ pc[p] = "idle" /\ ~creds
  /\ \E stamp \in Stamps :
       req' = [req EXCEPT ![p] = [binding |-> Binding(stamp), sent |-> FALSE]]
  /\ Goto(p, "hint")
  /\ UNCHANGED <<host, hint, wait, creds, faults>>

(* existing_approval_hint: a hint for something else is deleted, one that  *)
(* has expired is not sent.                                                *)
ReadHint(p) ==
  LET fits == hint # None /\ hint.binding = req[p].binding IN
  /\ pc[p] = "hint"
  /\ hint' = IF fits THEN hint ELSE None
  /\ req' = [req EXCEPT ![p].sent = fits /\ hint.ttl > 0]
  /\ Goto(p, "sign")
  /\ UNCHANGED <<host, wait, creds, faults>>

Live(b) == host[b] # None /\ host[b].state \in {"pending", "approved"}

Asked(kind) == [kind |-> kind, ttl |-> Ttl, state |-> "pending"]

(* sign_payload_batch answers ApprovalPending: for the first request ever  *)
(* with an eligibility action, then with a grant, asked for anew or still  *)
(* pending.                                                                *)
SignPending(p) ==
  LET b == req[p].binding IN
  /\ pc[p] = "sign"
  /\ \/ /\ host[b] = None
        /\ \E kind \in {"eligibility", "grant"} : host' = [host EXCEPT ![b] = Asked(kind)]
     \/ /\ host[b] # None
        /\ host[b].kind = "eligibility" /\ host[b].state = "approved" /\ ~req[p].sent
        /\ host' = [host EXCEPT ![b] = Asked("grant")]
     \/ /\ host[b] # None
        /\ host[b].state = "pending"
        /\ UNCHANGED host
  /\ Goto(p, "store_hint")
  /\ UNCHANGED <<hint, wait, creds, req, faults>>

Granted(b) == host[b] # None /\ host[b].kind = "grant" /\ host[b].state = "approved"

(* It signs, and the grant is spent; the host remembers it for Ttl.        *)
SignGranted(p) ==
  LET b == req[p].binding IN
  /\ pc[p] = "sign"
  /\ Granted(b)
  /\ host' = [host EXCEPT ![b] = [kind |-> "grant", ttl |-> Ttl, state |-> "spent"]]
  /\ Goto(p, "drop_hint")
  /\ UNCHANGED <<hint, wait, creds, req, faults>>

(* A slip: a hint that was refused is kept.                                *)
RetiresNever(sent) == FALSE

(* A refused hint is retired; without a hint the refusal is the answer.    *)
Retires(sent) == sent

(* It answers Denied: the hint names no signing action, the grant is spent *)
(* or rejected, or the Broker cannot be reached.                           *)
SignDenied(p) ==
  LET b == req[p].binding IN
  /\ pc[p] = "sign"
  /\ \/ /\ host[b] # None
        /\ \/ host[b].kind = "eligibility" /\ host[b].state = "approved" /\ req[p].sent
           \/ host[b].state \in {"rejected", "spent"}
        /\ UNCHANGED faults
     \/ Fails
  /\ IF Retires(req[p].sent) THEN Goto(p, "retire") /\ UNCHANGED req ELSE Return(p)
  /\ UNCHANGED <<host, hint, wait, creds>>

Expiry(b) == IF host[b] = None THEN 0 ELSE host[b].ttl

StoreHint(p) ==
  /\ pc[p] = "store_hint"
  /\ hint' = [binding |-> req[p].binding, ttl |-> Expiry(req[p].binding)]
  /\ Return(p)
  /\ UNCHANGED <<host, wait, creds, faults>>

RetireHint(p) ==
  /\ pc[p] = "retire"
  /\ hint' = None
  /\ Return(p)
  /\ UNCHANGED <<host, wait, creds, faults>>

(* The artifact goes with the signature (a failed delete is ignored).      *)
DropHint(p) ==
  /\ pc[p] = "drop_hint"
  /\ \/ hint' = None /\ UNCHANGED faults
     \/ Fails /\ UNCHANGED hint
  /\ Goto(p, "post")
  /\ UNCHANGED <<host, wait, creds, req>>

(* POST /auth/api-key, and GET /auth/derive-api-key after a failure.       *)
Post(p) ==
  /\ pc[p] = "post"
  /\ Goto(p, "creds")
  /\ UNCHANGED <<host, hint, wait, creds, req, faults>>

PostRefused(p) ==
  /\ pc[p] = "post"
  /\ Fails
  /\ Goto(p, "fail")
  /\ UNCHANGED <<host, hint, wait, creds, req>>

StoreCreds(p) ==
  /\ pc[p] = "creds"
  /\ \/ creds' = TRUE /\ Goto(p, "clear") /\ UNCHANGED faults
     \/ Fails /\ Goto(p, "fail") /\ UNCHANGED creds
  /\ UNCHANGED <<host, hint, wait, req>>

(* A slip: the wait is measured from before the owner was asked.           *)
MarkerEarly == RetryWait - 1

Marker == RetryWait

(* login_failed_after_signing, once the marker was put: a put that fails   *)
(* is ignored.                                                             *)
Fail(p) ==
  /\ pc[p] = "fail"
  /\ \/ wait' = Marker /\ UNCHANGED faults
     \/ Fails /\ UNCHANGED wait
  /\ Return(p)
  /\ UNCHANGED <<host, hint, creds>>

Clear(p) ==
  /\ pc[p] = "clear"
  /\ hint' = None
  /\ Return(p)
  /\ UNCHANGED <<host, wait, creds, faults>>

(* The invocation is killed, or a host call before the signature fails.    *)
Stop(p) ==
  /\ pc[p] # "idle"
  /\ Fails
  /\ Return(p)
  /\ UNCHANGED <<host, hint, wait, creds>>

Approve(b) ==
  /\ host[b] # None /\ host[b].state = "pending"
  /\ host' = [host EXCEPT ![b].state = "approved"]
  /\ UNCHANGED <<hint, wait, creds, pc, req, faults>>

Reject(b) ==
  /\ host[b] # None /\ host[b].state = "pending"
  /\ Fails
  /\ host' = [host EXCEPT ![b].state = "rejected"]
  /\ UNCHANGED <<hint, wait, creds, pc, req>>

Less(n) == IF n = 0 THEN 0 ELSE n - 1

(* Time passes: actions, the artifact and the marker expire.               *)
Tick ==
  /\ Prompt => \A b \in Bindings : ~Live(b)
  /\ host' = [b \in Bindings |->
       IF host[b] = None \/ host[b].ttl = 1 THEN None ELSE [host[b] EXCEPT !.ttl = @ - 1]]
  /\ hint' = IF hint = None THEN None ELSE [hint EXCEPT !.ttl = Less(@)]
  /\ wait' = Less(wait)
  /\ UNCHANGED <<creds, pc, req, faults>>

SignedSteps(p) == DropHint(p) \/ Post(p) \/ StoreCreds(p) \/ Fail(p) \/ Clear(p)
Work(p) ==
  \/ ReadHint(p) \/ SignPending(p) \/ SignGranted(p) \/ SignDenied(p)
  \/ StoreHint(p) \/ RetireHint(p) \/ SignedSteps(p)

Next ==
  \/ \E p \in Procs : Begin(p) \/ Work(p) \/ PostRefused(p) \/ Stop(p)
  \/ \E b \in Bindings : Approve(b) \/ Reject(b)
  \/ Tick

Spec == Init /\ [][Next]_vars

(* A step that kills no invocation after it signed, before its login has   *)
(* succeeded or failed.                                                    *)
Unkilled == \A p \in Procs : pc[p] \in {"drop_hint", "post", "creds"} => ~Stop(p)

(* ... and one that ends a login that failed with its wait on record: the  *)
(* put of the marker does not fail, nor is the invocation killed there.    *)
WaitWritten == \A p \in Procs : pc[p] = "fail" /\ pc'[p] = "idle" => wait' = Marker

UnkilledSpec == Init /\ [][Next /\ Unkilled /\ WaitWritten]_vars

(* The agent writes begin until there are credentials, invocations run to  *)
(* their end, the owner approves what is asked, and time passes.           *)
Fairness ==
  /\ \A p \in Procs : SF_vars(Begin(p)) /\ WF_vars(Work(p))
  /\ \A b \in Bindings : SF_vars(Approve(b))
  /\ WF_vars(Tick)

FairSpec == Spec /\ Fairness
--------------------------------------------------------------------------------
(* The owner is never asked for a login while an earlier request of it is  *)
(* still pending or approved and unused, though every attempt carries a    *)
(* new timestamp.                                                          *)
AskedOnce == \A b, c \in Bindings : Live(b) /\ Live(c) => b = c

(* A login that failed after the owner approved it may be written again    *)
(* when its wait is over: the spent grant it would be refused under is     *)
(* gone by then.  An invocation killed after it signed leaves no wait, nor *)
(* does one whose put of the marker fails: it is refused until the spent   *)
(* grant is gone.                                                          *)
WaitSuffices ==
  \A b \in Bindings :
    /\ host[b] # None /\ host[b].state = "spent"
    /\ ~creds /\ \A p \in Procs : pc[p] = "idle"
    => wait >= host[b].ttl

(* Retried, a login ends with credentials: no stale hint, no spent grant   *)
(* and no rejection leaves it stuck.                                       *)
LoginCompletes == <>creds
================================================================================
