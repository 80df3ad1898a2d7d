-------------------------- MODULE StoreLockProofs --------------------------
(***************************************************************************)
(* StoreLock keeps its types, keeps a fresh lock, and implements           *)
(* WalletLock, for every set of invocations, every supply of bodies and    *)
(* every stale limit.                                                      *)
(***************************************************************************)
EXTENDS StoreLock, TLAPS

(* Bodies in use are told apart: one maker each, and none that is about to *)
(* be put is in the store already.                                         *)
OwnBodies ==
  /\ \A p \in Procs : mine[p] # NoBody <=> pc[p] \in {"put", "hold"}
  /\ \A p, q \in Procs : p # q /\ mine[p] # NoBody => mine[p] # mine[q]
  /\ \A p \in Procs : pc[p] = "put" => store # mine[p]

(* A body about to be removed was stale when it was read, and still is.    *)
SeenStale ==
  \A p \in Procs :
    /\ pc[p] = "remove" => seen[p] \in Bodies /\ Stale(seen[p])
    /\ pc[p] # "remove" => seen[p] = NoBody

(* At most one second attempt.                                             *)
OneRetry ==
  \A p \in Procs : pc[p] \in {"idle", "inspect", "remove"} => tries[p] = 0

(* Unless holders may be slow, nobody outlives the body it made.           *)
PromptHolders ==
  SlowHolders \/ \A p \in Procs : mine[p] # NoBody => ~Stale(mine[p])

LockInv ==
  /\ TypeOK
  /\ OwnBodies
  /\ SeenStale
  /\ OneRetry
  /\ PromptHolders
  /\ KeepsFreshLock

USE StoreLockAssumption

(* LockInv holds at first.                                                 *)
LEMMA LockInvInit == Init => LockInv
  BY DEF Init, LockInv, TypeOK, OwnBodies, SeenStale, OneRetry, PromptHolders,
         KeepsFreshLock, Steps, MaybeBody, Stale

(* A body nobody uses is made: it is fresh, and no other body changes.     *)
LEMMA MakeBodyFacts ==
  ASSUME LockInv, NEW p \in Procs, MakeBody(p)
  PROVE  /\ mine'[p] \in Bodies
         /\ mine' \in [Procs -> MaybeBody]
         /\ age' \in [Bodies -> 0..(StaleAfter + 1)]
         /\ age'[mine'[p]] = 0
         /\ mine'[p] # store
         /\ \A q \in Procs : seen[q] # mine'[p] /\ mine[q] # mine'[p]
         /\ \A q \in Procs \ {p} : mine'[q] = mine[q]
         /\ \A b \in Bodies : b # mine'[p] => age'[b] = age[b]
  <1>1. PICK b \in Bodies \ InUse :
          /\ mine' = [mine EXCEPT ![p] = b]
          /\ age' = [age EXCEPT ![b] = 0]
    BY DEF MakeBody
  <1>2. b # store /\ \A q \in Procs : seen[q] # b /\ mine[q] # b
    BY <1>1 DEF InUse
  <1> QED BY <1>1, <1>2 DEF LockInv, TypeOK, MaybeBody

(* Every step keeps LockInv.                                               *)
LEMMA LockInvStep == LockInv /\ [Next]_vars => LockInv'
  <1> SUFFICES ASSUME LockInv, [Next]_vars PROVE LockInv'
    OBVIOUS
  <1> USE DEF LockInv
  <1>1. ASSUME NEW p \in Procs, Begin(p) PROVE LockInv'
    <2> USE <1>1 DEF Begin
    <2>0. MakeBody(p) OBVIOUS
    <2>1. TypeOK'
      BY <2>0, MakeBodyFacts DEF TypeOK, Steps, MaybeBody
    <2>2. OwnBodies'
      BY <2>0, MakeBodyFacts DEF TypeOK, OwnBodies
    <2>3. SeenStale'
      BY <2>0, MakeBodyFacts DEF TypeOK, SeenStale, Stale
    <2>4. OneRetry'
      BY DEF TypeOK, OneRetry
    <2>5. PromptHolders'
      BY <2>0, MakeBodyFacts DEF TypeOK, PromptHolders, Stale, MaybeBody
    <2>6. KeepsFreshLock'
      BY <2>0, MakeBodyFacts DEF TypeOK, KeepsFreshLock, OwnBodies, Stale, MaybeBody
    <2> QED BY <2>1, <2>2, <2>3, <2>4, <2>5, <2>6
  <1>2. ASSUME NEW p \in Procs, PutNew(p) PROVE LockInv'
    <2> USE <1>2 DEF PutNew, Leave, Retries
    <2>1. TypeOK'
      BY DEF TypeOK, Steps, MaybeBody
    <2>2. OwnBodies'
      BY DEF TypeOK, OwnBodies
    <2>3. SeenStale'
      BY DEF TypeOK, SeenStale, Stale
    <2>4. OneRetry'
      BY DEF TypeOK, OneRetry
    <2>5. PromptHolders'
      BY DEF TypeOK, PromptHolders, Stale
    <2>6. KeepsFreshLock'
      BY DEF TypeOK, KeepsFreshLock, OwnBodies, Stale
    <2> QED BY <2>1, <2>2, <2>3, <2>4, <2>5, <2>6
  <1>3. ASSUME NEW p \in Procs, Inspect(p) PROVE LockInv'
    <2> USE <1>3 DEF Inspect, Leave
    <2>1. TypeOK'
      BY DEF TypeOK, Steps, MaybeBody
    <2>2. OwnBodies'
      BY DEF TypeOK, OwnBodies
    <2>3. SeenStale'
      BY DEF TypeOK, SeenStale, Stale, MaybeBody
    <2>4. OneRetry'
      BY DEF TypeOK, OneRetry
    <2>5. PromptHolders'
      BY DEF TypeOK, PromptHolders, Stale
    <2>6. KeepsFreshLock'
      BY DEF TypeOK, KeepsFreshLock, OwnBodies, Stale
    <2> QED BY <2>1, <2>2, <2>3, <2>4, <2>5, <2>6
  <1>4. ASSUME NEW p \in Procs, RemoveStale(p) PROVE LockInv'
    <2> USE <1>4 DEF RemoveStale, Removable
    <2>1. CASE ~Removable(p)
      <3> USE <2>1 DEF Leave
      <3>1. TypeOK'
        BY DEF TypeOK, Steps, MaybeBody
      <3>2. OwnBodies'
        BY DEF TypeOK, OwnBodies
      <3>3. SeenStale' /\ OneRetry' /\ PromptHolders' /\ KeepsFreshLock'
        BY DEF TypeOK, SeenStale, OneRetry, PromptHolders, KeepsFreshLock, Stale
      <3> QED BY <3>1, <3>2, <3>3
    <2>2. CASE Removable(p)
      <3> USE <2>2
      <3>0. MakeBody(p) OBVIOUS
      <3>1. TypeOK'
        BY <3>0, MakeBodyFacts DEF TypeOK, Steps, MaybeBody, OneRetry
      <3>2. OwnBodies'
        BY <3>0, MakeBodyFacts DEF TypeOK, OwnBodies, MaybeBody
      <3>3. SeenStale'
        BY <3>0, MakeBodyFacts DEF TypeOK, SeenStale, Stale
      <3>4. OneRetry'
        BY DEF TypeOK, OneRetry
      <3>5. PromptHolders'
        BY <3>0, MakeBodyFacts DEF TypeOK, PromptHolders, Stale, MaybeBody
      <3>6. KeepsFreshLock'
        <4> SUFFICES ASSUME NEW q \in Procs, pc'[q] = "hold", ~Stale(mine[q])'
                     PROVE  FALSE
          BY DEF KeepsFreshLock
        <4>1. q # p /\ pc[q] = "hold" /\ mine'[q] = mine[q]
          BY <3>0, MakeBodyFacts DEF TypeOK
        <4>2. mine[q] \in Bodies /\ mine[q] # mine'[p]
          BY <3>0, <4>1, MakeBodyFacts DEF TypeOK, OwnBodies, MaybeBody
        <4>3. ~Stale(mine[q])
          BY <3>0, <4>1, <4>2, MakeBodyFacts DEF Stale
        <4>4. store = mine[q]
          BY <4>1, <4>3 DEF KeepsFreshLock
        <4>5. Stale(seen[p])
          BY DEF SeenStale
        <4> QED BY <4>2, <4>3, <4>4, <4>5
      <3> QED BY <3>1, <3>2, <3>3, <3>4, <3>5, <3>6
    <2> QED BY <2>1, <2>2
  <1>5. ASSUME NEW p \in Procs, Release(p) PROVE LockInv'
    <2> USE <1>5 DEF Release, Leave
    <2>1. TypeOK'
      BY DEF TypeOK, Steps, MaybeBody
    <2>2. OwnBodies'
      BY DEF TypeOK, OwnBodies
    <2>3. SeenStale' /\ OneRetry' /\ PromptHolders'
      BY DEF TypeOK, SeenStale, OneRetry, PromptHolders, Stale
    <2>4. KeepsFreshLock'
      BY DEF TypeOK, KeepsFreshLock, OwnBodies, Stale
    <2> QED BY <2>1, <2>2, <2>3, <2>4
  <1>6. ASSUME NEW p \in Procs, Fault(p) PROVE LockInv'
    <2> USE <1>6 DEF Fault, Leave
    <2>1. TypeOK'
      BY DEF TypeOK, Steps, MaybeBody
    <2>2. OwnBodies'
      BY DEF TypeOK, OwnBodies
    <2>3. SeenStale' /\ OneRetry' /\ PromptHolders' /\ KeepsFreshLock'
      BY DEF TypeOK, SeenStale, OneRetry, PromptHolders, KeepsFreshLock, Stale
    <2> QED BY <2>1, <2>2, <2>3
  <1>7. ASSUME Tick PROVE LockInv'
    <2> USE <1>7 DEF Tick
    <2>0. /\ age' \in [Bodies -> 0..(StaleAfter + 1)]
          /\ \A b \in Bodies : Stale(b) => Stale(b)'
          /\ \A b \in Bodies : age[b] < StaleAfter => ~Stale(b)'
      BY DEF TypeOK, Stale
    <2>1. TypeOK'
      BY <2>0 DEF TypeOK
    <2>2. OwnBodies' /\ OneRetry'
      BY DEF OwnBodies, OneRetry
    <2>3. SeenStale'
      BY <2>0 DEF SeenStale, Stale
    <2>4. PromptHolders'
      BY <2>0 DEF TypeOK, PromptHolders, MaybeBody, Stale
    <2>5. KeepsFreshLock'
      BY <2>0 DEF TypeOK, KeepsFreshLock, OwnBodies, MaybeBody, Stale
    <2> QED BY <2>1, <2>2, <2>3, <2>4, <2>5
  <1>8. CASE UNCHANGED vars
    BY <1>8 DEF vars, TypeOK, OwnBodies, SeenStale, OneRetry, PromptHolders,
                KeepsFreshLock, Stale
  <1> QED BY <1>1, <1>2, <1>3, <1>4, <1>5, <1>6, <1>7, <1>8 DEF Next, Run

(* LockInv is an invariant.                                                *)
LEMMA LockInvAlways == Spec => []LockInv
  BY LockInvInit, LockInvStep, PTL DEF Spec

(* Every reachable state of the lock protocol has its types, one retry per *)
(* acquisition included.                                                   *)
THEOREM StoreLockTypes == Spec => []TypeOK
  <1>1. LockInv => TypeOK BY DEF LockInv
  <1> QED BY <1>1, LockInvAlways, PTL

(* A holder whose body is not stale still owns the key, whoever else is    *)
(* acquiring, reaping or releasing and however slowly.                     *)
THEOREM FreshLockKept == Spec => []KeepsFreshLock
  <1>1. LockInv => KeepsFreshLock BY DEF LockInv
  <1> QED BY <1>1, LockInvAlways, PTL

-----------------------------------------------------------------------------
(* The refinement.                                                         *)

(* While a holder's body is under the key, it is the owner.                *)
LEMMA OwnerWhenHeld ==
  ASSUME LockInv, NEW p \in Procs, Holds(p)
  PROVE  Owner = p
  <1>1. mine[p] \in Bodies /\ store # NoBody
    BY DEF LockInv, TypeOK, OwnBodies, MaybeBody, Holds
  <1>2. \A q \in Procs : Holds(q) => q = p
    BY <1>1 DEF LockInv, OwnBodies, Holds
  <1> QED BY <1>1, <1>2 DEF Owner

(* A body no holder has is an orphan; no body, no owner.                   *)
LEMMA OwnerWhenNot ==
  /\ store = NoBody => Owner = NoOne
  /\ store # NoBody /\ (\A p \in Procs : ~Holds(p)) => Owner = Orphan
  BY DEF Owner

(* The same of the next state: the refinement compares the two.            *)
LEMMA OwnerNext ==
  ASSUME LockInv'
  PROVE  /\ store' = NoBody => Owner' = NoOne
         /\ \A p \in Procs : Holds(p)' => Owner' = p
         /\ store' # NoBody /\ (\A p \in Procs : ~Holds(p)') => Owner' = Orphan
  <1>1. ASSUME NEW p \in Procs, Holds(p)' PROVE Owner' = p
    <2>1. mine'[p] \in Bodies /\ store' # NoBody
      BY <1>1 DEF LockInv, TypeOK, OwnBodies, MaybeBody, Holds
    <2>2. \A q \in Procs : Holds(q)' => q = p
      BY <1>1, <2>1 DEF LockInv, OwnBodies, Holds
    <2> QED BY <1>1, <2>1, <2>2 DEF Owner
  <1> QED BY <1>1 DEF Owner

Inside == {p \in Procs : pc[p] = "hold"}

(* A step that leaves the key and the holders leaves the owner.            *)
LEMMA SameOwner ==
  ASSUME LockInv, LockInv', store' = store,
         \A p \in Procs : Holds(p)' <=> Holds(p)
  PROVE  Owner' = Owner
  <1>1. CASE store = NoBody
    BY <1>1, OwnerNext, OwnerWhenNot
  <1>2. CASE store # NoBody /\ \E p \in Procs : Holds(p)
    BY <1>2, OwnerNext, OwnerWhenHeld
  <1>3. CASE store # NoBody /\ \A p \in Procs : ~Holds(p)
    BY <1>3, OwnerNext, OwnerWhenNot
  <1> QED BY <1>1, <1>2, <1>3

(* Every step of StoreLock is a step of WalletLock, or none.               *)
LEMMA StoreLockStepRefines ==
  ASSUME LockInv, LockInv', [Next]_vars
  PROVE  [Abstract!LockNext]_(Abstract!lockVars)
  <1> USE DEF Abstract!LockNext, Abstract!lockVars
  <1>1. ASSUME NEW p \in Procs, Begin(p) PROVE UNCHANGED <<Owner, Inside>>
    <2>1. \A q \in Procs : (pc'[q] = "hold" <=> pc[q] = "hold")
                           /\ (pc[q] = "hold" => mine'[q] = mine[q])
      BY <1>1, MakeBodyFacts DEF Begin, LockInv, TypeOK
    <2> QED BY <1>1, <2>1, SameOwner DEF Begin, Inside, Holds
  <1>2. ASSUME NEW p \in Procs, PutNew(p), store # NoBody
        PROVE  UNCHANGED <<Owner, Inside>>
    <2>1. store' = store
          /\ \A q \in Procs : (pc'[q] = "hold" <=> pc[q] = "hold")
                           /\ (pc[q] = "hold" => mine'[q] = mine[q])
      BY <1>2 DEF PutNew, Retries, Leave, LockInv, TypeOK
    <2> QED BY <2>1, SameOwner DEF Inside, Holds
  <1>3. ASSUME NEW p \in Procs, PutNew(p), store = NoBody PROVE Abstract!Take(p)
    <2>1. /\ store' = mine[p] /\ mine' = mine
          /\ pc[p] = "put" /\ pc' = [pc EXCEPT ![p] = "hold"]
      BY <1>3 DEF PutNew
    <2>2. Holds(p)' /\ Owner = NoOne /\ p \notin Inside
      BY <1>3, <2>1, OwnerWhenNot DEF LockInv, TypeOK, Holds, Inside
    <2>3. Owner' = p
      BY <2>2, OwnerNext
    <2>4. Inside' = Inside \cup {p}
      BY <2>1 DEF LockInv, TypeOK, Inside
    <2> QED BY <2>2, <2>3, <2>4 DEF Abstract!Take, Inside
  <1>4. ASSUME NEW p \in Procs, Inspect(p) PROVE UNCHANGED <<Owner, Inside>>
    <2>1. store' = store
          /\ \A q \in Procs : (pc'[q] = "hold" <=> pc[q] = "hold")
                           /\ (pc[q] = "hold" => mine'[q] = mine[q])
      BY <1>4 DEF Inspect, Leave, LockInv, TypeOK
    <2> QED BY <2>1, SameOwner DEF Inside, Holds
  <1>5. ASSUME NEW p \in Procs, RemoveStale(p), store' = store
        PROVE  UNCHANGED <<Owner, Inside>>
    <2>1. \A q \in Procs : (pc'[q] = "hold" <=> pc[q] = "hold")
                           /\ (pc[q] = "hold" => mine'[q] = mine[q])
      <3>1. CASE MakeBody(p)
        BY <1>5, <3>1, MakeBodyFacts DEF RemoveStale, Leave, LockInv, TypeOK
      <3>2. CASE Leave(p)
        BY <1>5, <3>2 DEF RemoveStale, Leave, LockInv, TypeOK
      <3> QED BY <1>5, <3>1, <3>2 DEF RemoveStale
    <2> QED BY <1>5, <2>1, SameOwner DEF Inside, Holds
  <1>6. ASSUME NEW p \in Procs, RemoveStale(p), store' # store
        PROVE  Abstract!Reap \/ Abstract!Evict
    <2>1. /\ Removable(p) /\ store' = NoBody /\ store = seen[p]
          /\ pc[p] = "remove" /\ pc' = [pc EXCEPT ![p] = "put"]
      BY <1>6 DEF RemoveStale, Removable
    <2>2. Stale(store) /\ store # NoBody
      BY <2>1, <1>6 DEF LockInv, SeenStale
    <2>3. Owner' = NoOne /\ Inside' = Inside
      BY <2>1, OwnerNext DEF Inside, LockInv, TypeOK
    <2>4. CASE \E q \in Procs : Holds(q)
      <3>1. PICK q \in Procs : Holds(q)
        BY <2>4
      <3>2. Owner = q
        BY <3>1, OwnerWhenHeld
      <3>3. SlowHolders
        BY <2>2, <3>1 DEF LockInv, PromptHolders, OwnBodies, Holds
      <3> QED BY <2>3, <3>2, <3>3 DEF Abstract!Evict, Inside
    <2>5. CASE \A q \in Procs : ~Holds(q)
      BY <2>2, <2>3, <2>5, OwnerWhenNot DEF Abstract!Reap, Inside
    <2> QED BY <2>4, <2>5
  <1>7. ASSUME NEW p \in Procs, Release(p) PROVE Abstract!Free(p)
    <2>1. /\ pc[p] = "hold"
          /\ pc' = [pc EXCEPT ![p] = "idle"] /\ mine' = [mine EXCEPT ![p] = NoBody]
          /\ store' = IF store = mine[p] THEN NoBody ELSE store
      BY <1>7 DEF Release, Leave
    <2>2. p \in Inside /\ Inside' = Inside \ {p}
      BY <2>1 DEF Inside, LockInv, TypeOK
    <2>3. CASE Holds(p)
      <3>1. Owner = p /\ Owner' = NoOne
        BY <2>1, <2>3, OwnerWhenHeld, OwnerNext DEF Holds
      <3> QED BY <2>2, <3>1 DEF Abstract!Free, Inside
    <2>4. CASE ~Holds(p)
      <3>1. store' = store /\ \A q \in Procs : Holds(q)' <=> Holds(q)
        BY <2>1, <2>4 DEF Holds, LockInv, TypeOK
      <3>2. Owner' = Owner
        BY <3>1, SameOwner
      <3>3. Owner # p
        <4>1. Owner \in Procs => Holds(Owner)
          BY StoreLockAssumption DEF Owner
        <4> QED BY <2>4, <4>1
      <3> QED BY <2>2, <3>2, <3>3 DEF Abstract!Free, Inside
    <2> QED BY <2>3, <2>4
  <1>8. ASSUME NEW p \in Procs, Fault(p), pc[p] # "hold"
        PROVE  UNCHANGED <<Owner, Inside>>
    <2>1. store' = store
          /\ \A q \in Procs : (pc'[q] = "hold" <=> pc[q] = "hold")
                           /\ (pc[q] = "hold" => mine'[q] = mine[q])
      BY <1>8 DEF Fault, Leave, LockInv, TypeOK
    <2> QED BY <2>1, SameOwner DEF Inside, Holds
  <1>9. ASSUME NEW p \in Procs, Fault(p), pc[p] = "hold" PROVE Abstract!Die(p)
    <2>1. /\ pc' = [pc EXCEPT ![p] = "idle"] /\ mine' = [mine EXCEPT ![p] = NoBody]
          /\ store' = store
      BY <1>9 DEF Fault, Leave
    <2>2. p \in Inside /\ Inside' = Inside \ {p}
      BY <1>9, <2>1 DEF Inside, LockInv, TypeOK
    <2>3. CASE Holds(p)
      <3>1. store # NoBody /\ \A q \in Procs : ~Holds(q)'
        BY <2>1, <2>3 DEF Holds, LockInv, TypeOK, OwnBodies
      <3>2. Owner = p /\ Owner' = Orphan
        BY <2>1, <2>3, <3>1, OwnerWhenHeld, OwnerNext
      <3> QED BY <2>2, <3>2 DEF Abstract!Die, Inside
    <2>4. CASE ~Holds(p)
      <3>1. \A q \in Procs : Holds(q)' <=> Holds(q)
        BY <2>1, <2>4 DEF Holds, LockInv, TypeOK
      <3>2. Owner' = Owner
        BY <2>1, <3>1, SameOwner
      <3>3. Owner # p
        <4>1. Owner \in Procs => Holds(Owner)
          BY StoreLockAssumption DEF Owner
        <4> QED BY <2>4, <4>1
      <3> QED BY <2>2, <3>2, <3>3 DEF Abstract!Die, Inside
    <2> QED BY <2>3, <2>4
  <1>10. ASSUME Tick PROVE UNCHANGED <<Owner, Inside>>
    BY <1>10 DEF Tick, Owner, Holds, Inside
  <1>11. ASSUME UNCHANGED vars PROVE UNCHANGED <<Owner, Inside>>
    BY <1>11 DEF vars, Owner, Holds, Inside
  <1>12. ASSUME NEW p \in Procs, Begin(p) \/ Run(p) \/ Fault(p)
         PROVE  \/ UNCHANGED <<Owner, Inside>>
                \/ Abstract!Reap \/ Abstract!Evict
                \/ Abstract!Take(p) \/ Abstract!Free(p) \/ Abstract!Die(p)
    BY <1>1, <1>2, <1>3, <1>4, <1>5, <1>6, <1>7, <1>8, <1>9, <1>12 DEF Run
  <1> QED BY <1>10, <1>11, <1>12 DEF Next, Inside

(* What the store operations do is what WalletLock promises: the holder is *)
(* exclusive unless it is slow, only a kill orphans the key, only an       *)
(* orphan (or a slow holder) is reaped.                                    *)
THEOREM StoreLockImplements == Spec => ImplementsWalletLock
  <1>1. Init => Abstract!LockInit
    BY DEF Init, Abstract!LockInit, Owner
  <1>2. LockInv /\ LockInv' /\ [Next]_vars => [Abstract!LockNext]_(Abstract!lockVars)
    BY StoreLockStepRefines
  <1> QED
    BY <1>1, <1>2, LockInvAlways, PTL
       DEF Spec, ImplementsWalletLock, Abstract!LockSpec
=============================================================================
