------------------------------ MODULE StoreLock ------------------------------
(***************************************************************************)
(* acquire_trade_lock and StoreTradeLock, one store operation per step.    *)
(*                                                                         *)
(* The lock is one key.  Its body carries a random token and the time it   *)
(* was made, so two bodies are never equal: a body is a member of Bodies,  *)
(* drawn fresh (used by nobody) each time trade_lock_body runs.  Time is   *)
(* the age of each body, counted up to StaleAfter + 1: the code only asks  *)
(* whether a body is older than TRADE_LOCK_STALE_MS.                       *)
(*                                                                         *)
(* An invocation may be killed between any two host calls (Drop does not   *)
(* run), and a host call may fail; MaxFaults bounds how often.  A fund     *)
(* session's lock (FundLock) follows the same protocol under its own key.  *)
(***************************************************************************)
EXTENDS Naturals

CONSTANTS Procs, Bodies, NoBody, NoOne, Orphan,
          StaleAfter,   \* TRADE_LOCK_STALE_MS, in ticks
          MaxFaults,    \* bound on kills and failed host calls
          SlowHolders   \* TRUE: an invocation may outlive its own body

ASSUME StoreLockAssumption ==
  /\ NoBody \notin Bodies
  /\ NoOne \notin Procs /\ Orphan \notin Procs /\ NoOne # Orphan
  /\ StaleAfter \in Nat
  /\ MaxFaults \in Nat
  /\ SlowHolders \in BOOLEAN

VARIABLES store,    \* the body under the lock key, or NoBody
          age,      \* ticks since each body was made
          pc,       \* where each invocation is in acquire_trade_lock
          mine,     \* the body an invocation puts, and its Drop expects
          seen,     \* the stale body an invocation is about to delete
          tries,    \* the loop counter `attempt`
          faults

vars == <<store, age, pc, mine, seen, tries, faults>>

Steps == {"idle", "put", "inspect", "remove", "hold"}
MaybeBody == Bodies \cup {NoBody}

TypeOK ==
  /\ store \in MaybeBody
  /\ age \in [Bodies -> 0..(StaleAfter + 1)]
  /\ pc \in [Procs -> Steps]
  /\ mine \in [Procs -> MaybeBody]
  /\ seen \in [Procs -> MaybeBody]
  /\ tries \in [Procs -> 0..1]
  /\ faults \in 0..MaxFaults

Init ==
  /\ store = NoBody
  /\ age = [b \in Bodies |-> 0]
  /\ pc = [p \in Procs |-> "idle"]
  /\ mine = [p \in Procs |-> NoBody]
  /\ seen = [p \in Procs |-> NoBody]
  /\ tries = [p \in Procs |-> 0]
  /\ faults = 0

InUse == {store} \cup {mine[p] : p \in Procs} \cup {seen[p] : p \in Procs}

(* Two slips: the body's time is never looked at; now and then swapped, so *)
(* that the saturating difference is zero.                                 *)
StaleAlways(b) == TRUE
StaleSwapped(b) == 0 > StaleAfter

Stale(b) == age[b] > StaleAfter

(* trade_lock_body: 16 random bytes and the time now.                      *)
MakeBody(p) ==
  \E b \in Bodies \ InUse :
    /\ mine' = [mine EXCEPT ![p] = b]
    /\ age' = [age EXCEPT ![b] = 0]

(* The call ends without the lock; what it remembered is gone with it.     *)
Leave(p) ==
  /\ pc' = [pc EXCEPT ![p] = "idle"]
  /\ mine' = [mine EXCEPT ![p] = NoBody]
  /\ seen' = [seen EXCEPT ![p] = NoBody]
  /\ tries' = [tries EXCEPT ![p] = 0]

Begin(p) ==
  /\ pc[p] = "idle"
  /\ pc' = [pc EXCEPT ![p] = "put"]
  /\ MakeBody(p)
  /\ UNCHANGED <<store, seen, tries, faults>>

(* A slip: every refused put is looked into.                               *)
RetriesAlways(p) == TRUE

Retries(p) == tries[p] = 0

(* store_put_new: Ok takes the lock; Denied is looked into once.           *)
PutNew(p) ==
  /\ pc[p] = "put"
  /\ \/ /\ store = NoBody
        /\ store' = mine[p]
        /\ pc' = [pc EXCEPT ![p] = "hold"]
        /\ UNCHANGED <<mine, seen, tries>>
     \/ /\ store # NoBody
        /\ Retries(p)
        /\ pc' = [pc EXCEPT ![p] = "inspect"]
        /\ mine' = [mine EXCEPT ![p] = NoBody]
        /\ UNCHANGED <<store, seen, tries>>
     \/ /\ store # NoBody
        /\ ~Retries(p)
        /\ Leave(p)
        /\ UNCHANGED store
  /\ UNCHANGED <<age, faults>>

(* trade_lock_stale_bytes: only a body past the limit may be removed.      *)
Inspect(p) ==
  /\ pc[p] = "inspect"
  /\ \/ /\ store # NoBody
        /\ Stale(store)
        /\ seen' = [seen EXCEPT ![p] = store]
        /\ pc' = [pc EXCEPT ![p] = "remove"]
        /\ UNCHANGED <<mine, tries>>
     \/ /\ ~(store # NoBody /\ Stale(store))
        /\ Leave(p)
  /\ UNCHANGED <<store, age, faults>>

(* A slip: the key is deleted whatever it holds by now.                    *)
RemovableAnyhow(p) == TRUE

Removable(p) == store \in {seen[p], NoBody}

(* store_del_if_value(key, stale_bytes), then a second attempt with a new  *)
(* body; a key that now holds another body was refreshed.                  *)
RemoveStale(p) ==
  /\ pc[p] = "remove"
  /\ \/ /\ Removable(p)
        /\ store' = NoBody
        /\ MakeBody(p)
        /\ seen' = [seen EXCEPT ![p] = NoBody]
        /\ tries' = [tries EXCEPT ![p] = @ + 1]
        /\ pc' = [pc EXCEPT ![p] = "put"]
     \/ /\ ~Removable(p)
        /\ Leave(p)
        /\ UNCHANGED <<store, age>>
  /\ UNCHANGED faults

(* Drop for StoreTradeLock: store_del_if_value(key, expected).             *)
Release(p) ==
  /\ pc[p] = "hold"
  /\ store' = IF store = mine[p] THEN NoBody ELSE store
  /\ Leave(p)
  /\ UNCHANGED <<age, faults>>

(* A host call made while acquiring fails, or the invocation is killed.    *)
Fault(p) ==
  /\ pc[p] # "idle"
  /\ faults < MaxFaults
  /\ faults' = faults + 1
  /\ Leave(p)
  /\ UNCHANGED <<store, age>>

(* Without SlowHolders an invocation ends, or is killed, before the body   *)
(* it made goes stale.                                                     *)
Tick ==
  /\ SlowHolders \/ \A p \in Procs : mine[p] # NoBody => age[mine[p]] < StaleAfter
  /\ age' = [b \in Bodies |->
               IF age[b] > StaleAfter THEN age[b] ELSE age[b] + 1]
  /\ UNCHANGED <<store, pc, mine, seen, tries, faults>>

Run(p) == PutNew(p) \/ Inspect(p) \/ RemoveStale(p) \/ Release(p)

Next == Tick \/ \E p \in Procs : Begin(p) \/ Run(p) \/ Fault(p)

Spec == Init /\ [][Next]_vars

(* The host runs a started invocation to its end, time passes, and the     *)
(* agent keeps asking for the wallet.                                      *)
FairSpec ==
  /\ Spec
  /\ WF_vars(Tick)
  /\ \A p \in Procs : WF_vars(Run(p)) /\ WF_vars(Begin(p))

-----------------------------------------------------------------------------
Holds(p) == pc[p] = "hold" /\ mine[p] = store

(* A holder whose body has not gone stale still owns the key: neither the  *)
(* removal of a stale body (acquire_trade_lock), however late it comes     *)
(* after the body was read, nor another holder's Drop takes it away.       *)
KeepsFreshLock ==
  \A p \in Procs : pc[p] = "hold" /\ ~Stale(mine[p]) => store = mine[p]

(* A lock left behind by a killed invocation does not close the wallet for *)
(* ever: trade_lock_stale_bytes lets a later call remove it.               *)
OrphanReaped ==
  \A b \in Bodies :
    (store = b /\ ~\E p \in Procs : Holds(p)) ~> (store # b)

(* The protocol implements WalletLock: exclusive, orphaned only by a kill, *)
(* evicted only when holders may be slow.                                  *)
Owner ==
  IF store = NoBody THEN NoOne
  ELSE IF \E p \in Procs : Holds(p) THEN CHOOSE p \in Procs : Holds(p)
  ELSE Orphan

Abstract ==
  INSTANCE WalletLock
    WITH owner <- Owner, inside <- {p \in Procs : pc[p] = "hold"}
ImplementsWalletLock == Abstract!LockSpec
=============================================================================
