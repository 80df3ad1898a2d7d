------------------------------- MODULE MCRelayer -------------------------------
(***************************************************************************)
(* The relayer's side in four kinds of behaviour: confirms of one action   *)
(* (the module this one extends) that follow each other, without a failed  *)
(* read of progress.json or with some; confirms that race; and, in         *)
(* constants and variables of its own, the builder key.                    *)
(***************************************************************************)
EXTENDS RelayerAction, TLC

CONSTANTS RaceNonce, RaceTx,   \* smaller bounds while confirms race
          Callers, Keys        \* the invocations that use the builder key, and its values

VARIABLES instance,   \* "confirms", "misread", "race" or "keys"
          stored_k, issued_k, active_k, pc_k, key_k, retried_k, named_k

keyVars == <<stored_k, issued_k, active_k, pc_k, key_k, retried_k, named_k>>

Builder == INSTANCE BuilderKeys
  WITH Procs <- Callers,
       stored <- stored_k, issued <- issued_k, active <- active_k,
       pc <- pc_k, key <- key_k, retried <- retried_k, named <- named_k

ASSUME BuilderConstants == Builder!BuilderKeysConstants

MCInit ==
  /\ instance \in {"confirms", "misread", "race", "keys"}
  /\ Init /\ Builder!Init

MCNext ==
  /\ \/ /\ instance = "confirms"
        /\ Next /\ Follows /\ ReadsTruly
        /\ UNCHANGED keyVars
     \/ /\ instance = "misread"
        /\ Next /\ Follows
        /\ UNCHANGED keyVars
     \/ /\ instance = "race"
        /\ Next /\ nonce' <= RaceNonce /\ Len(tx') <= RaceTx
        /\ UNCHANGED keyVars
     \/ /\ instance = "keys"
        /\ Builder!Next /\ Builder!Follows
        /\ UNCHANGED vars
  /\ UNCHANGED instance

Symmetry == Permutations(Forms) \cup Permutations(Procs)

MCSpec == MCInit /\ [][MCNext]_<<instance, vars, keyVars>>
--------------------------------------------------------------------------------
(* The types of the action and of the builder key.                         *)
Types == TypeOK /\ Builder!TypeOK

(* NoneForgotten of execute, while confirms follow each other: what may    *)
(* still move the wallet's money is known to the next confirm.             *)
ConfirmsForgetNone == instance = "confirms" => NoneForgotten

(* execute, while confirms follow each other: a batch that was executed    *)
(* has a receipt, or the next confirm polls its transaction or refuses it  *)
(* as in doubt (SettledReceipted).  Where a read of progress.json failed   *)
(* it may be left without a receipt for ever; it then is not cleared       *)
(* either (ReceiptFirst).                                                  *)
ConfirmsReceipted ==
  /\ instance = "confirms" => SettledReceipted
  /\ instance = "misread" => ReceiptFirst

Confirms == INSTANCE OneShot
  WITH Items <- Batch,
       fate <- [b \in Batch |-> IF instance = "confirms" THEN Fate(b) ELSE "unsent"]

(* execute implements OneShot while confirms follow each other: each       *)
(* prepared batch reaches the relayer at most once.                        *)
ConfirmsOnce == Confirms!Spec

(* UsedIsStored of the builder key, ensure_builder_credentials: no         *)
(* submission rests on a key that only a killed invocation knew.           *)
UsedKeyIsStored == Builder!UsedIsStored

(* KeepsActiveKey, relayer_submit_with_builder_repair one call at a time:  *)
(* the stored key is deleted only once the venue has revoked it.           *)
ActiveKeyKept == Builder!KeepsActiveKey
================================================================================
