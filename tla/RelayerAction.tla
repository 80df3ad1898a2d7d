----------------------------- MODULE RelayerAction -----------------------------
(***************************************************************************)
(* execute of relayer_actions.rs: redeem, revoke-approvals and             *)
(* withdraw-pusd.  One action of one wallet, confirmed again and again: the *)
(* first write prepares a deposit-wallet batch, the next signs and submits *)
(* it to the relayer, later ones poll it until it is confirmed and the     *)
(* action is cleared for the next one.  No lock is taken, so Procs         *)
(* invocations interleave at every store operation and network call.       *)
(*                                                                         *)
(* A batch is its nonce and its form (its calls and its deadline); two     *)
(* batches with both equal have the same digest.  The relayer and the      *)
(* chain are external: a submission that is accepted makes a transaction,  *)
(* and a transaction can only succeed at the wallet's current nonce.       *)
(***************************************************************************)
EXTENDS Naturals, Sequences, FiniteSets

CONSTANTS Procs, None, Forms,
          MaxNonce,    \* bound on the wallet's nonce
          MaxTx,       \* bound on accepted submissions
          ReadsFail    \* TRUE: the host may fail a read of progress.json

ASSUME RelayerActionAssumption ==
  /\ MaxNonce \in Nat /\ MaxTx \in Nat
  /\ ReadsFail \in BOOLEAN
  /\ None \notin Nat /\ None \notin [nonce : Nat, form : Forms]
  /\ None \notin [digest : [nonce : Nat, form : Forms], id : Nat \cup {None}]

Batch == [nonce : 0..MaxNonce, form : Forms]

VARIABLES prepared,   \* prepared_signing.json: a batch, or None
          review,     \* review_intent.json, by the batch it describes
          progress,   \* progress.json: the batch's digest and, once the relayer
                      \* answered, the transaction's id
          receipt,    \* receipt.json: the transaction it names
          tx,         \* the relayer's transactions, in order of acceptance
          nonce,      \* the deposit wallet's nonce on chain
          pc, bat, got   \* of each invocation: its step, its batch, its transaction

stored == <<prepared, review, progress, receipt>>
chain == <<tx, nonce>>
vars == <<prepared, review, progress, receipt, tx, nonce, pc, bat, got>>

TxId == 1..Len(tx)
Progress == [digest : Batch, id : (1..MaxTx) \cup {None}]
Steps == {"idle", "load", "build", "review", "prepare", "verify", "progress", "poll",
          "note", "receipt", "drop_prepared", "drop_review", "drop_progress",
          "sign", "mark", "submit", "record"}

TypeOK ==
  /\ prepared \in Batch \cup {None}
  /\ review \in Batch \cup {None}
  /\ progress \in Progress \cup {None}
  /\ receipt \in (1..MaxTx) \cup {None}
  /\ tx \in Seq([batch : Batch, state : {"new", "confirmed", "failed"}])
  /\ Len(tx) <= MaxTx
  /\ nonce \in 0..MaxNonce
  /\ pc \in [Procs -> Steps]
  /\ bat \in [Procs -> Batch \cup {None}]
  /\ got \in [Procs -> (1..MaxTx) \cup {None}]

Init ==
  /\ prepared = None /\ review = None /\ progress = None /\ receipt = None
  /\ tx = <<>> /\ nonce = 0
  /\ pc = [p \in Procs |-> "idle"]
  /\ bat = [p \in Procs |-> None]
  /\ got = [p \in Procs |-> None]

Goto(p, step) == pc' = [pc EXCEPT ![p] = step]
Leave(p) ==
  /\ Goto(p, "idle")
  /\ bat' = [bat EXCEPT ![p] = None]
  /\ got' = [got EXCEPT ![p] = None]

Begin(p) == pc[p] = "idle" /\ Goto(p, "load") /\ UNCHANGED <<stored, chain, bat, got>>

(* load_prepared_signing: nothing there means this write prepares.         *)
Load(p) ==
  /\ pc[p] = "load"
  /\ bat' = [bat EXCEPT ![p] = prepared]
  /\ Goto(p, IF prepared = None THEN "build" ELSE "verify")
  /\ UNCHANGED <<stored, chain, got>>

(* A slip: the nonce is taken for the last one used.                       *)
NonceAfter == nonce + 1

NonceNow == nonce

(* calls_for, relayer_wallet_nonce and a deadline from the clock.          *)
Build(p) ==
  /\ pc[p] = "build"
  /\ \E f \in Forms : bat' = [bat EXCEPT ![p] = [nonce |-> NonceNow, form |-> f]]
  /\ Goto(p, "review")
  /\ UNCHANGED <<stored, chain, got>>

StoreReview(p) ==
  /\ pc[p] = "review"
  /\ review' = bat[p]
  /\ Goto(p, "prepare")
  /\ UNCHANGED <<prepared, progress, receipt, chain, bat, got>>

StorePrepared(p) ==
  /\ pc[p] = "prepare"
  /\ prepared' = bat[p]
  /\ Leave(p)
  /\ UNCHANGED <<review, progress, receipt, chain>>

Verify(p) ==
  /\ pc[p] = "verify"
  /\ IF review = bat[p]
     THEN Goto(p, "progress") /\ UNCHANGED <<bat, got>>
     ELSE Leave(p)
  /\ UNCHANGED <<stored, chain>>

(* A slip: a marker left by a submission whose answer was lost is taken    *)
(* for no progress.                                                        *)
RefusesNothing(pr, b) == pr.digest # b

(* "does not match prepared batch"; "refusing to resubmit".                *)
Refuses(pr, b) == pr.digest # b \/ pr.id = None

(* store_get answers None when the read fails: the batch then looks        *)
(* unsubmitted.                                                            *)
ReadProgress(p) ==
  /\ pc[p] = "progress"
  /\ \/ /\ progress = None \/ ReadsFail
        /\ Goto(p, "sign")
        /\ UNCHANGED <<bat, got>>
     \/ /\ progress # None
        /\ Refuses(progress, bat[p])
        /\ Leave(p)
     \/ /\ progress # None
        /\ ~Refuses(progress, bat[p])
        /\ got' = [got EXCEPT ![p] = progress.id]
        /\ Goto(p, IF progress.id = None THEN "sign" ELSE "poll")
        /\ UNCHANGED bat
  /\ UNCHANGED <<stored, chain>>

(* Slips: any answer clears the action; a failure clears it too.           *)
ConfirmedAny(i) == TRUE
ConfirmedFailed(i) == tx[i].state # "new"

Confirmed(i) == tx[i].state = "confirmed"

(* relayer_transaction, by exact id.                                       *)
Poll(p) ==
  /\ pc[p] = "poll"
  /\ Goto(p, IF Confirmed(got[p]) THEN "receipt" ELSE "note")
  /\ UNCHANGED <<stored, chain, bat, got>>

(* The state that was polled is noted, best effort.                        *)
Note(p) ==
  /\ pc[p] = "note"
  /\ progress' = [digest |-> bat[p], id |-> got[p]]
  /\ Leave(p)
  /\ UNCHANGED <<prepared, review, receipt, chain>>

(* A slip: a receipt that is there already is kept.                        *)
ReceiptKept(p) == IF receipt = None THEN got[p] ELSE receipt

NewReceipt(p) == got[p]

PutReceipt(p) ==
  /\ pc[p] = "receipt"
  /\ receipt' = NewReceipt(p)
  /\ Goto(p, "drop_prepared")
  /\ UNCHANGED <<prepared, review, progress, chain, bat, got>>

(* store_del of the four keys in this order (approval.json holds only the  *)
(* owner's pending ceremony).                                              *)
DropPrepared(p) ==
  /\ pc[p] = "drop_prepared"
  /\ prepared' = None
  /\ Goto(p, "drop_review")
  /\ UNCHANGED <<review, progress, receipt, chain, bat, got>>

DropReview(p) ==
  /\ pc[p] = "drop_review"
  /\ review' = None
  /\ Goto(p, "drop_progress")
  /\ UNCHANGED <<prepared, progress, receipt, chain, bat, got>>

DropProgress(p) ==
  /\ pc[p] = "drop_progress"
  /\ progress' = None
  /\ Leave(p)
  /\ UNCHANGED <<prepared, review, receipt, chain>>

(* sign_prepared; a pending or refused approval is Stop.                   *)
Sign(p) ==
  /\ pc[p] = "sign"
  /\ Goto(p, "mark")
  /\ UNCHANGED <<stored, chain, bat, got>>

Mark(p) ==
  /\ pc[p] = "mark"
  /\ progress' = [digest |-> bat[p], id |-> None]
  /\ Goto(p, "submit")
  /\ UNCHANGED <<prepared, review, receipt, chain, bat, got>>

(* load_creds and relayer_submit_configured.  The relayer accepts and the  *)
(* answer arrives or is lost; a refusal, or a failure before anything is   *)
(* sent, is Stop.                                                          *)
Submit(p) ==
  /\ pc[p] = "submit"
  /\ Len(tx) < MaxTx
  /\ tx' = Append(tx, [batch |-> bat[p], state |-> "new"])
  /\ \/ /\ got' = [got EXCEPT ![p] = Len(tx) + 1]
        /\ Goto(p, "record")
        /\ UNCHANGED bat
     \/ Leave(p)
  /\ UNCHANGED <<stored, nonce>>

Record(p) ==
  /\ pc[p] = "record"
  /\ progress' = [digest |-> bat[p], id |-> got[p]]
  /\ Leave(p)
  /\ UNCHANGED <<prepared, review, receipt, chain>>

(* A host call or a request fails and execute returns, or the invocation   *)
(* is killed.                                                              *)
Stop(p) == pc[p] # "idle" /\ Leave(p) /\ UNCHANGED <<stored, chain>>

(* The relayer settles a transaction; only the current nonce can succeed.  *)
Settle(i) ==
  /\ tx[i].state = "new"
  /\ \/ /\ tx[i].batch.nonce = nonce
        /\ nonce < MaxNonce
        /\ nonce' = nonce + 1
        /\ tx' = [tx EXCEPT ![i].state = "confirmed"]
     \/ /\ tx' = [tx EXCEPT ![i].state = "failed"]
        /\ UNCHANGED nonce
  /\ UNCHANGED <<stored, pc, bat, got>>

(* Another action of the same deposit wallet uses the nonce.               *)
OtherAction ==
  /\ nonce < MaxNonce
  /\ nonce' = nonce + 1
  /\ UNCHANGED <<stored, tx, pc, bat, got>>

Execute(p) ==
  \/ Begin(p) \/ Load(p) \/ Build(p) \/ StoreReview(p) \/ StorePrepared(p)
  \/ Verify(p) \/ ReadProgress(p) \/ Poll(p) \/ Note(p) \/ PutReceipt(p)
  \/ DropPrepared(p) \/ DropReview(p) \/ DropProgress(p)
  \/ Sign(p) \/ Mark(p) \/ Submit(p) \/ Record(p) \/ Stop(p)

Next ==
  \/ \E p \in Procs : Execute(p)
  \/ \E i \in TxId : Settle(i)
  \/ OtherAction

Spec == Init /\ [][Next]_vars

(* Confirms follow each other: one begins only when no other runs (each    *)
(* may still be killed or fail anywhere).                                  *)
Follows == \A p, q \in Procs : pc[p] = "idle" /\ pc'[p] # "idle" => pc[q] = "idle"

(* No read of progress.json fails: a batch is signed only where there is   *)
(* no progress, or none that refuses it or names a transaction to poll.    *)
ReadsTruly == \A p \in Procs :
  pc[p] = "progress" /\ pc'[p] = "sign" /\ progress # None =>
    progress.id = None /\ ~Refuses(progress, bat[p])

FollowSpec == Init /\ [][Next /\ Follows]_vars
OrderlySpec == Init /\ [][Next /\ Follows /\ ReadsTruly]_vars
--------------------------------------------------------------------------------
TxOf(b) == {i \in TxId : tx[i].batch = b}

(* A prepared batch is submitted at most once ("submission may have        *)
(* succeeded without returning an id; refusing to resubmit").              *)
SubmittedOnce == \A b \in Batch : Cardinality(TxOf(b)) <= 1

(* The fate of a batch: of its one transaction, or "twice".                *)
Fate(b) ==
  LET own == TxOf(b) IN
  IF own = {} THEN "unsent"
  ELSE IF Cardinality(own) > 1 THEN "twice"
  ELSE CASE tx[CHOOSE i \in own : TRUE].state = "new" -> "sent"
         [] tx[CHOOSE i \in own : TRUE].state = "confirmed" -> "done"
         [] OTHER -> "failed"

Shot == INSTANCE OneShot WITH Items <- Batch, fate <- [b \in Batch |-> Fate(b)]

(* Confirms one after the other, killed and failing anywhere, send each    *)
(* batch at most once.                                                     *)
ImplementsOneShot == Shot!Spec

(* A transaction that can still move the wallet's money is never           *)
(* forgotten: its batch is still prepared and its progress still says so,  *)
(* so no later confirm prepares another one beside it.                     *)
NoneForgotten ==
  \A i \in TxId : tx[i].state = "new" =>
    /\ prepared = tx[i].batch
    /\ progress # None /\ progress.digest = tx[i].batch

(* A batch that executed is not cleared before its receipt: until one as   *)
(* late as it is written the batch stays prepared.  Where reads fail that  *)
(* is all: a batch submitted again after a failed read may have progress   *)
(* naming the second transaction, which fails, or the marker, and then it  *)
(* stays prepared without a receipt for ever.                              *)
ReceiptFirst ==
  \A i \in TxId : tx[i].state = "confirmed" =>
    \/ prepared = tx[i].batch
    \/ receipt # None /\ receipt >= i

(* A batch that executed has a receipt as late as it, or the next confirm  *)
(* finds it: progress.json names its very transaction, to be polled, or    *)
(* still is the marker of a submission whose answer was lost, which        *)
(* confirms refuse in so many words ("submission may have succeeded").     *)
SettledReceipted ==
  \A i \in TxId : tx[i].state = "confirmed" =>
    \/ receipt # None /\ receipt >= i
    \/ /\ prepared = tx[i].batch
       /\ progress # None /\ progress.digest = prepared
       /\ progress.id \in {None, i}

(* receipt.json names a confirmed transaction and progress.json pairs each *)
(* id with the batch it was made of, however many confirms race.           *)
RecordsTruth ==
  /\ receipt # None => tx[receipt].state = "confirmed"
  /\ progress # None /\ progress.id # None => tx[progress.id].batch = progress.digest

(* withdraw_plan: a confirmation prepares and submits "the exact persisted *)
(* transfer batch"; so what progress.json speaks of is the prepared batch. *)
(* Not so after a confirm that stopped among its deletions.                *)
ProgressIsOfPrepared ==
  prepared # None /\ progress # None => progress.digest = prepared

(* "submission may have succeeded without returning an id": nothing is     *)
(* refused on these words unless a submission did reach the relayer.  Not  *)
(* so when the credentials could not be loaded after the marker.           *)
MarkerMeansDoubt ==
  progress # None /\ progress.id = None
    /\ (\A p \in Procs : pc[p] # "submit") =>
      TxOf(progress.digest) # {}
================================================================================
