-------------------------------- MODULE Funding --------------------------------
(***************************************************************************)
(* One funding session of fund_flow.rs.  create_fund_request picks an id    *)
(* without a lock; confirm_fund_request, under the session's lock, prepares *)
(* the session's transactions (an exact approval and a swap, or one         *)
(* transfer), and then for each of them in turn stages it in the host's     *)
(* outbox, asks the host to confirm it, and waits for it to succeed.        *)
(*                                                                         *)
(* The lock is WalletLock's: FundLock runs the protocol of StoreLock under *)
(* the session's own key.  An invocation ends early when a host call fails *)
(* (the Drop runs) or is killed (it does not).  The outbox is external.    *)
(* plan_md, approval and the kept inspections are for the reader only.     *)
(***************************************************************************)
EXTENDS WalletLock, Naturals, Sequences, FiniteSets

CONSTANTS None,
          MaxTransactions,  \* a plan has 1..MaxTransactions transactions (2 in the code)
          MaxOutbox,        \* bound on staged transactions
          MaxFaults         \* bound on failed calls, lost answers and kills

ASSUME FundingAssumption ==
  /\ MaxTransactions \in Nat \ {0} /\ MaxOutbox \in Nat /\ MaxFaults \in Nat
  /\ None \notin Nat

VARIABLES session,   \* fund/{wallet}/requests/{id}.json, or None
          outbox,    \* the host's outbox: which transaction, and its state
          pc, ses,   \* of each invocation: its step and its copy of the session
          faults

vars == <<session, outbox, pc, ses, faults, owner, inside>>
calls == <<pc, ses>>

Indices == 0..(MaxTransactions - 1)
Statuses == {"draft", "prepared", "staging_started", "staged", "awaiting_confirmation",
             "approval_required", "transaction_confirmed", "transaction_failed", "complete"}
Failed == {"reverted", "failed", "cancelled"}
Session == [planned : 0..MaxTransactions, ids : Seq(1..MaxOutbox),
            next : 0..MaxTransactions, staging : Indices \cup {None},
            status : Statuses]

ASSUME NoneIsNoSession == None \notin Session

Draft == [planned |-> 0, ids |-> <<>>, next |-> 0, staging |-> None, status |-> "draft"]
Steps == {"idle", "create", "load", "prepare", "inspect", "mark", "stage", "confirm", "save"}

TypeOK ==
  /\ LockTypeOK
  /\ session = None \/ session \in Session
  /\ outbox \in Seq([index : Indices,
                     state : {"staged", "sent", "success"} \cup Failed])
  /\ Len(outbox) <= MaxOutbox
  /\ pc \in [Procs -> Steps]
  /\ \A p \in Procs : ses[p] = None \/ ses[p] \in Session
  /\ faults \in 0..MaxFaults

Init ==
  /\ LockInit
  /\ session = None
  /\ outbox = <<>>
  /\ pc = [p \in Procs |-> "idle"]
  /\ ses = [p \in Procs |-> None]
  /\ faults = 0

Goto(p, step, s) ==
  /\ pc' = [pc EXCEPT ![p] = step]
  /\ ses' = [ses EXCEPT ![p] = s]
Return(p) == Goto(p, "idle", None) /\ Free(p)

(* next_id: the largest id in the store, plus one.  This one is next while *)
(* the session is not there, or when the list of the ids fails, which      *)
(* reads as none: the session is the first one.                            *)
CreateId(p) ==
  /\ pc[p] = "idle" /\ p \notin inside
  /\ \/ session = None /\ UNCHANGED faults
     \/ session # None /\ faults < MaxFaults /\ faults' = faults + 1
  /\ Goto(p, "create", Draft)
  /\ UNCHANGED <<session, outbox, lockVars>>

CreatePut(p) ==
  /\ pc[p] = "create"
  /\ session' = ses[p]
  /\ Goto(p, "idle", None)
  /\ UNCHANGED <<outbox, faults, lockVars>>

(* acquire_fund_lock.                                                      *)
Acquire(p) ==
  /\ pc[p] = "idle"
  /\ Take(p)
  /\ Goto(p, "load", None)
  /\ UNCHANGED <<session, outbox, faults>>

(* A slip: a marker that survived is not looked at.                        *)
StagingUnknownNever(s) == FALSE

(* "a prior outbox stage may have succeeded without its id becoming        *)
(* durable; refusing to restage automatically".                            *)
StagingUnknown(s) == s.staging = s.next /\ Len(s.ids) = s.next

(* A slip: the plan's end is noticed one step late.                        *)
FinishedLate(s) == s.next > s.planned

Finished(s) == s.next >= s.planned

(* load_fund_session and the branch on what the session has reached.       *)
Load(p) ==
  /\ pc[p] = "load"
  /\ \/ /\ session = None
        /\ Return(p)
     \/ /\ session # None
        /\ StagingUnknown(session)
        /\ Return(p)
     \/ /\ session # None
        /\ ~StagingUnknown(session)
        /\ Goto(p, IF session.planned = 0 THEN "prepare"
                   ELSE IF Finished(session) THEN "save"
                   ELSE IF Len(session.ids) > session.next THEN "inspect"
                   ELSE "mark", session)
        /\ UNCHANGED lockVars
  /\ UNCHANGED <<session, outbox, faults>>

(* prepare_funding: one transaction, or an exact approval before the swap. *)
Prepare(p) ==
  /\ pc[p] = "prepare"
  /\ \E n \in 1..MaxTransactions :
       Goto(p, "save", [ses[p] EXCEPT !.planned = n, !.status = "prepared"])
  /\ UNCHANGED <<session, outbox, faults, lockVars>>

(* The stored session is replaced by the invocation's copy, and it ends.   *)
Save(p) ==
  /\ pc[p] = "save"
  /\ session' = ses[p]
  /\ Return(p)
  /\ UNCHANGED <<outbox, faults>>

(* A slip: the index before the step is compared.                          *)
ConfirmedLate(s) ==
  [s EXCEPT !.next = @ + 1,
            !.status = IF s.next = s.planned THEN "complete" ELSE "transaction_confirmed"]

Confirmed(s) ==
  [s EXCEPT !.next = @ + 1,
            !.status = IF s.next + 1 = s.planned THEN "complete"
                       ELSE "transaction_confirmed"]

(* A slip: a transaction that is only sent counts as confirmed.            *)
InspectedSent(s, state) ==
  IF state \in {"sent", "success"} THEN Confirmed(s)
  ELSE [s EXCEPT !.status = "transaction_failed"]

(* What the outbox says of the current transaction.                        *)
Inspected(s, state) ==
  IF state = "success" THEN Confirmed(s)
  ELSE IF state = "sent" THEN [s EXCEPT !.status = "awaiting_confirmation"]
  ELSE [s EXCEPT !.status = "transaction_failed"]

Inspect(p) ==
  LET id == ses[p].ids[ses[p].next + 1]
      state == outbox[id].state
  IN
  /\ pc[p] = "inspect"
  /\ IF state = "staged" THEN Goto(p, "confirm", ses[p])
     ELSE Goto(p, "save", Inspected(ses[p], state))
  /\ UNCHANGED <<session, outbox, faults, lockVars>>

(* The staging marker is durable before the host is called.                *)
Mark(p) ==
  LET marked == [ses[p] EXCEPT !.staging = ses[p].next, !.status = "staging_started"] IN
  /\ pc[p] = "mark"
  /\ session' = marked
  /\ Goto(p, "stage", marked)
  /\ UNCHANGED <<outbox, faults, lockVars>>

Staged(s, id) ==
  [s EXCEPT !.ids = Append(@, id), !.staging = None, !.status = "staged"]
Rejected(s) == [s EXCEPT !.staging = None, !.status = "prepared"]

(* tx_stage: the id comes back; or the host refuses (Denied, Invalid) and  *)
(* the marker is cleared; or the answer is lost and the marker stays.      *)
Stage(p) ==
  /\ pc[p] = "stage"
  /\ \/ /\ Len(outbox) < MaxOutbox
        /\ outbox' = Append(outbox, [index |-> ses[p].next, state |-> "staged"])
        /\ \/ /\ Goto(p, "save", Staged(ses[p], Len(outbox) + 1))
              /\ UNCHANGED <<faults, lockVars>>
           \/ /\ faults < MaxFaults
              /\ faults' = faults + 1
              /\ Return(p)
     \/ /\ faults < MaxFaults
        /\ faults' = faults + 1
        /\ Goto(p, "save", Rejected(ses[p]))
        /\ UNCHANGED <<outbox, lockVars>>
  /\ UNCHANGED session

(* tx_confirm: the owner's approval is required first, or it is broadcast. *)
Confirm(p) ==
  LET id == ses[p].ids[ses[p].next + 1] IN
  /\ pc[p] = "confirm"
  /\ \/ /\ outbox[id].state = "staged"
        /\ Goto(p, "save", [ses[p] EXCEPT !.status = "approval_required"])
        /\ UNCHANGED <<outbox, lockVars>>
     \/ /\ outbox[id].state = "staged"
        /\ outbox' = [outbox EXCEPT ![id].state = "sent"]
        /\ Goto(p, "save", [ses[p] EXCEPT !.status = "awaiting_confirmation"])
        /\ UNCHANGED lockVars
     \/ /\ outbox[id].state # "staged"
        /\ Return(p)
        /\ UNCHANGED outbox
  /\ UNCHANGED <<session, faults>>

(* A host call fails and the invocation returns, or it is killed.          *)
Fault(p) ==
  /\ pc[p] # "idle"
  /\ faults < MaxFaults
  /\ faults' = faults + 1
  /\ Goto(p, "idle", None)
  /\ \/ p \in inside /\ (Free(p) \/ Die(p))
     \/ p \notin inside /\ UNCHANGED lockVars
  /\ UNCHANGED <<session, outbox>>

(* The lock of a killed invocation, or of a slow one, is found stale.      *)
LockGoesStale == (Reap \/ Evict) /\ UNCHANGED <<session, outbox, calls, faults>>

(* The chain settles a transaction that was sent.                          *)
Settle(id) ==
  /\ outbox[id].state = "sent"
  /\ \E s \in {"success", "reverted", "failed"} :
       outbox' = [outbox EXCEPT ![id].state = s]
  /\ UNCHANGED <<session, calls, faults, lockVars>>

(* The owner drops a staged one.                                           *)
Cancel(id) ==
  /\ outbox[id].state = "staged"
  /\ outbox' = [outbox EXCEPT ![id].state = "cancelled"]
  /\ UNCHANGED <<session, calls, faults, lockVars>>

ConfirmRequest(p) ==
  \/ Acquire(p) \/ Load(p) \/ Prepare(p) \/ Save(p) \/ Inspect(p)
  \/ Mark(p) \/ Stage(p) \/ Confirm(p)

Next ==
  \/ \E p \in Procs : CreateId(p) \/ CreatePut(p) \/ ConfirmRequest(p) \/ Fault(p)
  \/ \E id \in 1..Len(outbox) : Settle(id) \/ Cancel(id)
  \/ LockGoesStale

Spec == Init /\ [][Next]_vars

Draws(p) == pc[p] = "idle" /\ pc'[p] = "create"

(* No create takes a failed list of the sessions for an empty one.         *)
ListsTruly == \A p \in Procs : Draws(p) => session = None

(* Every invocation ends before the lock it holds goes stale, one create   *)
(* at a time picks an id, and none picks it from a failed list (anything   *)
(* else may still fail, and each may be killed).                           *)
Prompt ==
  /\ ~Evict
  /\ \A p, q \in Procs : Draws(p) => pc[q] # "create"
  /\ ListsTruly

PromptSpec == Init /\ [][Next /\ Prompt]_vars

Broadcast(p) == Confirm(p) /\ outbox' # outbox

(* The agent confirms until nothing is left to confirm, each invocation    *)
(* runs to its end, the owner approves in the end, sent transactions       *)
(* settle and orphaned locks go stale.                                     *)
Fairness ==
  /\ \A p \in Procs :
       /\ WF_vars(CreatePut(p)) /\ SF_vars(Acquire(p))
       /\ WF_vars(Load(p) \/ Prepare(p) \/ Save(p) \/ Inspect(p)
                    \/ Mark(p) \/ Stage(p) \/ Confirm(p))
       /\ SF_vars(Broadcast(p))
  /\ \A id \in 1..MaxOutbox : WF_vars(id <= Len(outbox) /\ Settle(id))
  /\ WF_vars(LockGoesStale)

FairSpec == Spec /\ Fairness
--------------------------------------------------------------------------------
TxOf(i) == {id \in 1..Len(outbox) : outbox[id].index = i}

Fate(i) ==
  LET own == TxOf(i) IN
  IF own = {} THEN "unsent"
  ELSE IF Cardinality(own) > 1 THEN "twice"
  ELSE LET state == outbox[CHOOSE id \in own : TRUE].state IN
       IF state = "success" THEN "done"
       ELSE IF state \in Failed THEN "failed" ELSE "sent"

Shot == INSTANCE OneShot WITH Items <- Indices, fate <- [i \in Indices |-> Fate(i)]

(* Each transaction of a plan is staged at most once, whatever confirms    *)
(* overlap, answers are lost and invocations are killed ("retries must     *)
(* fail closed instead of restaging"), while Prompt holds: a create that   *)
(* takes a failed list for an empty one starts the session anew.           *)
ImplementsOneShot == Shot!Spec

(* The swap is not staged, let alone sent, before its approval succeeded.  *)
InOrder ==
  \A id \in 1..Len(outbox) : \A i \in 0..(outbox[id].index - 1) :
    \E earlier \in TxOf(i) : outbox[earlier].state = "success"

(* Whatever is in the outbox, the session knows, while Prompt holds: it    *)
(* has the id, or the marker that says a stage may have happened.          *)
NoneForgotten ==
  \A id \in 1..Len(outbox) :
    /\ session # None
    /\ \/ \E k \in DOMAIN session.ids : session.ids[k] = id
       \/ session.staging = outbox[id].index

(* "complete" is said only of a plan whose every transaction succeeded.    *)
CompleteIsTrue ==
  session # None /\ session.status = "complete" =>
    \A i \in 0..(session.planned - 1) :
      \E id \in TxOf(i) : outbox[id].state = "success"

Ended ==
  session # None /\ \/ session.status \in {"complete", "transaction_failed"}
                    \/ StagingUnknown(session)

(* A session that is confirmed again and again completes, fails, or says   *)
(* that a stage is in doubt: no orphaned lock and no lost write leaves it  *)
(* anywhere else.                                                          *)
Progresses == (session # None) ~> Ended
================================================================================
