------------------------------ MODULE BuilderKeys ------------------------------
(***************************************************************************)
(* The builder API key relayer submissions authenticate with in "auto"     *)
(* mode: ensure_builder_credentials, relayer_submit_with_builder_repair    *)
(* and revoke_builder_key.  Submissions come from relayer actions and from *)
(* onboarding, no lock is taken, and the owner may also revoke keys at the *)
(* venue.  Keys are never issued twice.                                    *)
(***************************************************************************)
EXTENDS Naturals, FiniteSets

CONSTANTS Procs, Keys, None

BuilderKeysConstants == None \notin Keys

VARIABLES stored,    \* builder.json: the key, or None
          issued,    \* keys the venue ever issued
          active,    \* those not revoked
          pc,
          key,       \* the key an invocation works with
          retried,   \* whether it is on its second submission
          named      \* the key a revocation names, None for no name

venue == <<issued, active>>
local == <<key, retried, named>>
vars == <<stored, issued, active, pc, key, retried, named>>

MaybeKey == Keys \cup {None}
Steps == {"idle", "load", "mint", "save", "submit", "list", "delete",
          "rev_load", "rev_venue", "rev_drop"}

TypeOK ==
  /\ stored \in MaybeKey
  /\ issued \subseteq Keys /\ active \subseteq issued
  /\ pc \in [Procs -> Steps]
  /\ key \in [Procs -> MaybeKey]
  /\ \A p \in Procs : pc[p] \in {"save", "submit", "list"} => key[p] # None
  /\ retried \in [Procs -> BOOLEAN]
  /\ named \in [Procs -> MaybeKey]

Init ==
  /\ stored = None /\ issued = {} /\ active = {}
  /\ pc = [p \in Procs |-> "idle"]
  /\ key = [p \in Procs |-> None]
  /\ retried = [p \in Procs |-> FALSE]
  /\ named = [p \in Procs |-> None]

Goto(p, step) == pc' = [pc EXCEPT ![p] = step]
Leave(p) ==
  /\ Goto(p, "idle")
  /\ key' = [key EXCEPT ![p] = None]
  /\ retried' = [retried EXCEPT ![p] = FALSE]
  /\ named' = [named EXCEPT ![p] = None]

BeginSubmit(p) == pc[p] = "idle" /\ Goto(p, "load") /\ UNCHANGED <<stored, venue, local>>

(* load_builder_credentials: what is stored is used, nothing asks for one. *)
Load(p) ==
  /\ pc[p] = "load"
  /\ key' = [key EXCEPT ![p] = stored]
  /\ Goto(p, IF stored = None THEN "mint" ELSE "submit")
  /\ UNCHANGED <<stored, venue, retried, named>>

(* POST /auth/builder-api-key; the answer may be lost.                     *)
Mint(p) ==
  /\ pc[p] = "mint"
  /\ \E k \in Keys \ issued :
       /\ issued' = issued \cup {k}
       /\ active' = active \cup {k}
       /\ \/ /\ key' = [key EXCEPT ![p] = k]
             /\ Goto(p, "save")
             /\ UNCHANGED <<retried, named>>
          \/ Leave(p)
  /\ UNCHANGED stored

(* A slip: the new key is used and not saved.                              *)
SaveSkipped(p) == pc[p] = "save" /\ Goto(p, "submit") /\ UNCHANGED <<stored, venue, local>>

Save(p) ==
  /\ pc[p] = "save"
  /\ stored' = key[p]
  /\ Goto(p, "submit")
  /\ UNCHANGED <<venue, local>>

(* POST /submit.  401 or 403 leads to a repair once; every other outcome   *)
(* ends the call (what an accepted one does is RelayerAction's subject).   *)
Submit(p) ==
  /\ pc[p] = "submit"
  /\ \/ ~retried[p] /\ Goto(p, "list") /\ UNCHANGED local
     \/ Leave(p)
  /\ UNCHANGED <<stored, venue>>

(* A slip: the listing is not looked at.                                   *)
RotatableAnyhow(k) == TRUE

(* No entry of the listing is this key with no revoked_at.                 *)
Rotatable(k) == k \notin active

List(p) ==
  /\ pc[p] = "list"
  /\ IF Rotatable(key[p]) THEN Goto(p, "delete") /\ UNCHANGED local ELSE Leave(p)
  /\ UNCHANGED <<stored, venue>>

(* delete_builder_credentials, whatever is stored; then ensure once more.  *)
Delete(p) ==
  /\ pc[p] = "delete"
  /\ stored' = None
  /\ retried' = [retried EXCEPT ![p] = TRUE]
  /\ Goto(p, "load")
  /\ UNCHANGED <<venue, key, named>>

BeginRevoke(p) ==
  /\ pc[p] = "idle"
  /\ \E k \in issued \cup {None} : named' = [named EXCEPT ![p] = k]
  /\ Goto(p, "rev_load")
  /\ UNCHANGED <<stored, venue, key, retried>>

RevokeLoad(p) ==
  /\ pc[p] = "rev_load"
  /\ key' = [key EXCEPT ![p] = stored]
  /\ Goto(p, "rev_venue")
  /\ UNCHANGED <<stored, venue, retried, named>>

(* DELETE /auth/builder-api-key: the key named, or all of the owner's.     *)
RevokeAtVenue(p) ==
  /\ pc[p] = "rev_venue"
  /\ active' = IF named[p] = None THEN {} ELSE active \ {named[p]}
  /\ \/ Goto(p, "rev_drop") /\ UNCHANGED local
     \/ Leave(p)
  /\ UNCHANGED <<stored, issued>>

Concerns(p) == key[p] # None /\ named[p] \in {None, key[p]}

RevokeDrop(p) ==
  /\ pc[p] = "rev_drop"
  /\ stored' = IF Concerns(p) THEN None ELSE stored
  /\ Leave(p)
  /\ UNCHANGED venue

(* The owner revokes a key at the venue, outside the Petal.                *)
RevokedElsewhere ==
  /\ \E k \in active : active' = active \ {k}
  /\ UNCHANGED <<stored, issued, pc, local>>

(* A host call or a request fails, or the invocation is killed.            *)
Stop(p) == pc[p] # "idle" /\ Leave(p) /\ UNCHANGED <<stored, venue>>

Next ==
  \/ \E p \in Procs :
       \/ BeginSubmit(p) \/ Load(p) \/ Mint(p) \/ Save(p) \/ Submit(p)
       \/ List(p) \/ Delete(p)
       \/ BeginRevoke(p) \/ RevokeLoad(p) \/ RevokeAtVenue(p) \/ RevokeDrop(p)
       \/ Stop(p)
  \/ RevokedElsewhere

Spec == Init /\ [][Next]_vars

(* One call at a time.                                                     *)
Follows == \A p, q \in Procs : pc[p] = "idle" /\ pc'[p] # "idle" => pc[q] = "idle"

FollowSpec == Init /\ [][Next /\ Follows]_vars
--------------------------------------------------------------------------------
(* "relayer rejected an active builder key; refusing destructive           *)
(* rotation": the stored key is deleted only once the venue revoked it,    *)
(* whatever was lost or killed before.                                     *)
KeepsActiveKey == [][stored # None /\ stored' = None => stored \notin active]_vars

(* A key is stored before it is used, so that no submission ever rests on  *)
(* a key that only a killed invocation knew.                               *)
UsedIsStored == \A p \in Procs : pc[p] \in {"submit", "list"} => key[p] = stored
================================================================================
