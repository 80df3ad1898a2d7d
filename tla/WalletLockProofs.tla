-------------------------- MODULE WalletLockProofs -------------------------
(***************************************************************************)
(* At most one invocation holds the wallet, for every set of invocations.  *)
(* The step lemma is stated for one lock step at a time, so that TradeFlow *)
(* can use it for its own steps.                                           *)
(***************************************************************************)
EXTENDS WalletLock, TLAPS

(* One lock step keeps the lock exclusive.                                 *)
LEMMA LockStepKeeps ==
  ASSUME LockTypeOK, Exclusive,
         \/ Reap \/ Evict
         \/ \E p \in Procs : Take(p) \/ Free(p) \/ Die(p)
         \/ UNCHANGED lockVars
  PROVE  LockTypeOK' /\ Exclusive'
  BY WalletLockAssumption
     DEF LockTypeOK, Owners, Exclusive, Reap, Evict, Take, Free, Die, lockVars

(* Unless holders may be slow, two trade operations never hold the wallet  *)
(* together: what acquire_trade_lock is for.                               *)
THEOREM LockIsExclusive == LockSpec => []Exclusive
  <1>1. LockInit => LockTypeOK /\ Exclusive
    BY DEF LockInit, LockTypeOK, Owners, Exclusive
  <1>2. (LockTypeOK /\ Exclusive) /\ [LockNext]_lockVars => (LockTypeOK /\ Exclusive)'
    BY LockStepKeeps DEF LockNext
  <1> QED BY <1>1, <1>2, PTL DEF LockSpec
=============================================================================
