----------------------------- MODULE WalletLock -----------------------------
(***************************************************************************)
(* What trade/{wallet}/.lock promises to the invocations that take it: at  *)
(* most one of them holds the wallet at a time, an invocation killed while *)
(* holding it leaves an orphan that a later one reaps, and (only when a    *)
(* live holder may outlive TRADE_LOCK_STALE_MS) a holder can be evicted.   *)
(*                                                                         *)
(* StoreLock shows that the store operations implement this; TradeFlow     *)
(* uses these actions as its lock.                                         *)
(***************************************************************************)
CONSTANTS Procs,         \* route invocations that may run at the same time
          NoOne,         \* the lock key is absent
          Orphan,        \* the key holds a body no live invocation remembers
          SlowHolders    \* TRUE: a live holder may outlive the stale limit

ASSUME WalletLockAssumption ==
  /\ NoOne \notin Procs
  /\ Orphan \notin Procs
  /\ NoOne # Orphan
  /\ SlowHolders \in BOOLEAN

VARIABLES owner,   \* who the key's body belongs to
          inside   \* invocations between acquire_trade_lock's Ok and the Drop

lockVars == <<owner, inside>>

Owners == Procs \cup {NoOne, Orphan}

LockTypeOK == owner \in Owners /\ inside \subseteq Procs

LockInit == owner = NoOne /\ inside = {}

(* acquire_trade_lock returns Ok.                                          *)
Take(p) ==
  /\ owner = NoOne
  /\ p \notin inside
  /\ owner' = p
  /\ inside' = inside \cup {p}

(* StoreTradeLock is dropped: only the holder's own body is removed.       *)
Free(p) ==
  /\ p \in inside
  /\ owner' = IF owner = p THEN NoOne ELSE owner
  /\ inside' = inside \ {p}

(* The invocation is killed: nothing more of it runs, Drop included.       *)
Die(p) ==
  /\ p \in inside
  /\ owner' = IF owner = p THEN Orphan ELSE owner
  /\ inside' = inside \ {p}

(* A later invocation finds the orphan stale and removes it.               *)
Reap == owner = Orphan /\ owner' = NoOne /\ UNCHANGED inside

(* A later invocation finds the body of a live but slow holder stale.      *)
Evict == SlowHolders /\ owner \in Procs /\ owner' = NoOne /\ UNCHANGED inside

LockNext == Reap \/ Evict \/ \E p \in Procs : Take(p) \/ Free(p) \/ Die(p)

LockSpec == LockInit /\ [][LockNext]_lockVars

(* Two invocations are never inside together unless holders may be slow:   *)
(* what "another trade operation holds the lock" is for.                   *)
Exclusive == SlowHolders \/ \A p \in inside : owner = p
=============================================================================
