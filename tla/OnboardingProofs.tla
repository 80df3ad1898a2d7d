--------------------------- MODULE OnboardingProofs ---------------------------
(***************************************************************************)
(* Onboarding, for every value of the constants, killed calls, lost        *)
(* answers and failing transactions included.  Where invocations follow    *)
(* one another, the owner does not switch legacy_eoa_mode and status.json  *)
(* can be read, an id in it is kept while its transaction may settle;      *)
(* where begin and continue do, any number of readers of status.json       *)
(* beside them, and the approvals are not revoked, a lost submission is    *)
(* retried with the same batch, and the approval asked for survives what   *)
(* the host does not refuse.  At the end, Login: what lies within the step *)
(* that Onboarding takes for the CLOB login.                               *)
(***************************************************************************)
EXTENDS MCOnboarding, SequenceTheorems, TLAPS

USE OnboardingAssumption

TxStates == {"new", "confirmed", "failed"}
Tx == [batch : MaybeBatch, state : TxStates]

(* The steps at which an invocation holds its batch.                       *)
SignSteps == {"sign", "hint", "host", "drop_hint", "store_sig", "store_hint", "retire_hint"}
BatSteps == {"review", "prepare", "expiry", "submit", "note"} \cup SignSteps

USE DEF SignSteps

StoredOK ==
  /\ creds \in BOOLEAN
  /\ approval \in MaybeBatch \cup {Login}
  /\ status \in [deploy : MaybeTx, approve : MaybeTx] \cup {None}
  /\ prepared \in MaybeBatch /\ review \in MaybeBatch /\ sig \in MaybeBatch

TxOK == tx \in Seq(Tx) /\ Len(tx) <= MaxTx

WorldOK ==
  /\ chain \in [deployed : BOOLEAN, funded : BOOLEAN, approved : BOOLEAN, synced : BOOLEAN]
  /\ nonce \in 0..MaxNonce /\ now \in 0..MaxNow
  /\ granted \subseteq asked /\ asked \subseteq Batch \cup {Login} /\ signed \subseteq Batch

CallsOK ==
  /\ pc \in [Procs -> Steps]
  /\ did \in [Procs -> MaybeTx] /\ aid \in [Procs -> MaybeTx]
  /\ bat \in [Procs -> MaybeBatch]
  /\ faults \in 0..MaxFaults
  /\ \A p \in Procs : pc[p] \in BatSteps => bat[p] # None

TypeInv == StoredOK /\ TxOK /\ WorldOK /\ CallsOK

-----------------------------------------------------------------------------
(* Types.                                                                  *)

(* None and the login are no batches.                                      *)
LEMMA NotBatches == None \notin Batch /\ Login \notin Batch /\ None # Login
  <1>1. Batch \subseteq [nonce : Nat, deadline : Nat]
    BY DEF Batch
  <1> QED BY <1>1

(* A batch prepared now is one.                                            *)
LEMMA FreshBatch ==
  ASSUME TypeInv
  PROVE  [nonce |-> nonce, deadline |-> Deadline] \in Batch
  BY DEF TypeInv, WorldOK, Deadline, Batch

(* The transactions the relayer knows, one of which was submitted or       *)
(* settled.                                                                *)
LEMMA TxField ==
  ASSUME TxOK, NEW i \in 1..Len(tx)
  PROVE  tx[i] \in Tx /\ tx[i].batch \in MaybeBatch /\ tx[i].state \in TxStates
  <1>1. tx[i] \in Tx
    BY ElementOfSeq DEF TxOK
  <1> QED BY <1>1 DEF Tx

LEMMA TxCount ==
  ASSUME TxOK
  PROVE  Len(tx) \in Nat
  BY LenProperties DEF TxOK

LEMMA TxSubmitted ==
  ASSUME TxOK, NEW b \in MaybeBatch, Len(tx) < MaxTx,
         tx' = Append(tx, [batch |-> b, state |-> "new"])
  PROVE  /\ TxOK' /\ Len(tx') = Len(tx) + 1
         /\ tx'[Len(tx) + 1] = [batch |-> b, state |-> "new"]
         /\ \A i \in 1..Len(tx) : tx'[i] = tx[i]
  <1> DEFINE new == [batch |-> b, state |-> "new"]
  <1>1. new \in Tx
    BY DEF Tx, TxStates
  <1> HIDE DEF new
  <1>2. tx' = Append(tx, new)
    BY DEF new
  <1>3. /\ tx' \in Seq(Tx) /\ Len(tx') = Len(tx) + 1
        /\ tx'[Len(tx) + 1] = new
        /\ \A i \in 1..Len(tx) : tx'[i] = tx[i]
    BY <1>1, <1>2, AppendProperties DEF TxOK
  <1>4. TxOK'
    BY <1>3, TxCount DEF TxOK
  <1> QED BY <1>3, <1>4 DEF new

LEMMA TxSettled ==
  ASSUME TxOK, NEW i \in 1..Len(tx), NEW state \in TxStates,
         tx' = [tx EXCEPT ![i].state = state]
  PROVE  /\ TxOK' /\ Len(tx') = Len(tx)
         /\ tx'[i].batch = tx[i].batch /\ tx'[i].state = state
         /\ \A j \in 1..Len(tx) : j # i => tx'[j] = tx[j]
  <1> DEFINE new == [tx[i] EXCEPT !.state = state]
  <1>1. tx[i] \in Tx
    BY TxField
  <1>2. new \in Tx /\ new.batch = tx[i].batch /\ new.state = state
    BY <1>1 DEF Tx
  <1>3. tx' = [tx EXCEPT ![i] = new]
    OBVIOUS
  <1> HIDE DEF new
  <1>4. tx' \in Seq(Tx) /\ Len(tx') = Len(tx)
    BY <1>2, <1>3, ExceptSeq DEF TxOK
  <1>5. tx'[i] = new /\ \A j \in 1..Len(tx) : j # i => tx'[j] = tx[j]
    BY <1>2, <1>3, ExceptSeq DEF TxOK
  <1>6. TxOK'
    BY <1>4 DEF TxOK
  <1> QED BY <1>2, <1>4, <1>5, <1>6

(* An invocation that moves to a step where it holds no batch, or that has *)
(* one, leaves the invocations well typed.                                 *)
LEMMA LeaveTypes ==
  ASSUME CallsOK, NEW p \in Procs, Leave(p), UNCHANGED faults
  PROVE  CallsOK'
  BY DEF CallsOK, Leave, Goto, Steps, BatSteps, MaybeTx, MaybeBatch

LEMMA GotoTypes ==
  ASSUME CallsOK, NEW p \in Procs, NEW s \in Steps, Goto(p, s), faults' = faults \/ Fault,
         did' = did \/ \E i \in MaybeTx : did' = [did EXCEPT ![p] = i],
         aid' = aid \/ \E i \in MaybeTx : aid' = [aid EXCEPT ![p] = i],
         \/ bat' = bat /\ (s \in BatSteps => bat[p] # None)
         \/ \E b \in Batch : bat' = [bat EXCEPT ![p] = b]
  PROVE  CallsOK'
  <1>1. pc' \in [Procs -> Steps] /\ faults' \in 0..MaxFaults
    BY DEF CallsOK, Goto, Fault
  <1>2. did' \in [Procs -> MaybeTx] /\ aid' \in [Procs -> MaybeTx]
    BY DEF CallsOK
  <1>3. bat' \in [Procs -> MaybeBatch]
    BY DEF CallsOK, MaybeBatch
  <1>4. ASSUME NEW q \in Procs, pc'[q] \in BatSteps PROVE bat'[q] # None
    <2>1. CASE q = p
      <3>1. pc'[q] = s
        BY <2>1 DEF CallsOK, Goto
      <3>2. CASE bat' = bat
        BY <1>4, <2>1, <3>1, <3>2, NotBatches DEF CallsOK
      <3>3. CASE \E b \in Batch : bat' = [bat EXCEPT ![p] = b]
        BY <2>1, <3>3, NotBatches DEF CallsOK
      <3> QED BY <3>2, <3>3
    <2>2. CASE q # p
      <3>1. pc'[q] = pc[q] /\ bat'[q] = bat[q]
        BY <2>2 DEF CallsOK, Goto
      <3> QED BY <1>4, <3>1 DEF CallsOK
    <2> QED BY <2>1, <2>2
  <1> QED BY <1>1, <1>2, <1>3, <1>4 DEF CallsOK

(* The ids an invocation knows, and those of a status.json.                *)
LEMMA IdsTyped ==
  ASSUME TypeInv, NEW p \in Procs
  PROVE  /\ Noted(p) \in [deploy : MaybeTx, approve : MaybeTx]
         /\ IdsOf(status).deploy \in MaybeTx /\ IdsOf(status).approve \in MaybeTx
  BY DEF TypeInv, CallsOK, StoredOK, Noted, Ids, IdsOf, MaybeTx

LEMMA LoginTypes ==
  ASSUME TypeInv, NEW p \in Procs, Begin(p) \/ LoginSteps(p)
  PROVE  TypeInv'
  <1>1. ASSUME Begin(p) \/ PostLogin(p) PROVE TypeInv'
    <2>1. CallsOK'
      BY <1>1, GotoTypes DEF TypeInv, Begin, PostLogin, local, Steps, BatSteps
    <2> QED BY <1>1, <2>1
            DEF TypeInv, Begin, PostLogin, StoredOK, TxOK, WorldOK, stored, outside, host
  <1>2. ASSUME SignLogin(p) PROVE TypeInv'
    <2>1. CallsOK'
      BY <1>2, GotoTypes, LeaveTypes DEF TypeInv, SignLogin, local, Steps, BatSteps
    <2>2. StoredOK' /\ WorldOK'
      BY <1>2 DEF TypeInv, SignLogin, StoredOK, WorldOK, MaybeBatch, batches, outside
    <2> QED BY <1>2, <2>1, <2>2 DEF TypeInv, SignLogin, TxOK, outside
  <1>3. ASSUME StoreCreds(p) PROVE TypeInv'
    <2>1. CallsOK'
      BY <1>3, GotoTypes DEF TypeInv, StoreCreds, local, Steps, BatSteps
    <2> QED BY <1>3, <2>1
            DEF TypeInv, StoreCreds, StoredOK, TxOK, WorldOK, batches, outside, host
  <1>4. ASSUME DropLogin(p) PROVE TypeInv'
    <2>1. CallsOK'
      BY <1>4, LeaveTypes DEF TypeInv, DropLogin
    <2> QED BY <1>4, <2>1
            DEF TypeInv, DropLogin, StoredOK, TxOK, WorldOK, batches, outside, host, MaybeBatch
  <1> QED BY <1>1, <1>2, <1>3, <1>4 DEF LoginSteps

(* Steps that change neither batches nor the relayer: credentials, ids,    *)
(* checks, notes, failures.                                                *)
LEMMA IdTypes ==
  ASSUME TypeInv, NEW p \in Procs,
         \/ Continue(p) \/ ReadIds(p) \/ CheckDeployed(p) \/ CheckApproved(p)
         \/ CheckPrevious(p) \/ FailureRead(p) \/ StatusRead(p) \/ Misread(p)
  PROVE  TypeInv'
  <1>1. CallsOK'
    <2>1. CASE Continue(p) \/ CheckDeployed(p) \/ CheckApproved(p)
      BY <2>1, GotoTypes
         DEF TypeInv, Continue, CheckDeployed, CheckApproved, local, Steps, BatSteps
    <2>2. CASE ReadIds(p) \/ FailureRead(p)
      BY <2>2, GotoTypes, IdsTyped DEF TypeInv, ReadIds, FailureRead, Steps, BatSteps
    <2>3. CASE CheckPrevious(p)
      BY <2>3, GotoTypes DEF TypeInv, CheckPrevious, Steps, BatSteps, MaybeTx
    <2>4. CASE StatusRead(p)
      <3>1. status.deploy \in MaybeTx /\ status.approve \in MaybeTx
        BY <2>4 DEF StatusRead, TypeInv, StoredOK
      <3> QED BY <2>4, <3>1, GotoTypes DEF TypeInv, StatusRead, Steps, BatSteps
    <2>5. CASE Misread(p)
      <3>1. 0 \in MaybeTx
        BY DEF MaybeTx
      <3>2. /\ \E i \in MaybeTx : did' = [did EXCEPT ![p] = i]
            /\ \E i \in MaybeTx : aid' = [aid EXCEPT ![p] = i]
        BY <2>5, <3>1, IdsTyped DEF Misread, MisreadIds, MisreadFailure
      <3>3. /\ bat' = bat /\ Fault
            /\ \E s \in {"deployed", "put"} : Goto(p, s)
        BY <2>5 DEF Misread, MisreadIds, MisreadFailure
      <3> QED BY <3>2, <3>3, GotoTypes DEF TypeInv, Steps, BatSteps, SignSteps
    <2> QED BY <2>1, <2>2, <2>3, <2>4, <2>5
  <1>2. UNCHANGED <<stored, outside, host>>
    BY DEF Continue, ReadIds, CheckDeployed, CheckApproved, CheckPrevious, FailureRead, StatusRead,
           Misread, MisreadIds, MisreadFailure
  <1> QED BY <1>1, <1>2 DEF TypeInv, StoredOK, TxOK, WorldOK, stored, outside, host

LEMMA NoteTypes ==
  ASSUME TypeInv, NEW p \in Procs,
         \/ RetireLogin(p) \/ NoteDeploy(p) \/ PollDeploy(p) \/ CheckFunded(p)
         \/ NoteBatch(p) \/ PollBatch(p) \/ Recheck(p) \/ Sync(p) \/ StatusPut(p)
  PROVE  TypeInv'
  <1>1. CallsOK'
    <2>1. CASE NoteDeploy(p) \/ PollDeploy(p) \/ NoteBatch(p) \/ PollBatch(p) \/ Recheck(p)
      BY <2>1, GotoTypes
         DEF TypeInv, NoteDeploy, PollDeploy, NoteBatch, PollBatch, Recheck, local, Steps, BatSteps
    <2>2. CASE RetireLogin(p) \/ CheckFunded(p)
      BY <2>2, GotoTypes, LeaveTypes DEF TypeInv, RetireLogin, LegacyLeaves, CheckFunded, local,
                                         Steps, BatSteps
    <2>3. CASE Sync(p) \/ StatusPut(p)
      BY <2>3, LeaveTypes DEF TypeInv, Sync, StatusPut
    <2> QED BY <2>1, <2>2, <2>3
  <1>2. status' \in {status, None, Noted(p)} /\ approval' \in {approval, None}
    BY DEF RetireLogin, LegacyLeaves, NoteDeploy, PollDeploy, CheckFunded, NoteBatch, PollBatch,
           Recheck, Sync, StatusPut
  <1>3. UNCHANGED <<creds, batches, tx, nonce, now, host>>
    BY DEF RetireLogin, NoteDeploy, PollDeploy, CheckFunded, NoteBatch, PollBatch, Recheck,
           Sync, StatusPut, outside
  <1>4. chain' = chain \/ chain' = [chain EXCEPT !.synced = chain.funded /\ chain.approved]
    BY DEF RetireLogin, NoteDeploy, PollDeploy, CheckFunded, NoteBatch, PollBatch, Recheck,
           Sync, StatusPut, outside
  <1>5. StoredOK'
    BY <1>2, <1>3, IdsTyped DEF TypeInv, StoredOK, MaybeBatch, batches
  <1>6. WorldOK'
    BY <1>3, <1>4 DEF TypeInv, WorldOK, host
  <1> QED BY <1>1, <1>3, <1>5, <1>6 DEF TypeInv, TxOK

(* Steps that retire, prepare, sign and clear a batch.                     *)
LEMMA BatchTypes ==
  ASSUME TypeInv, NEW p \in Procs,
         \/ RetireBatch(p) \/ RetireSig(p) \/ RetireApproval(p) \/ PrepareBatch(p)
         \/ StoreReview(p) \/ StorePrepared(p) \/ CheckExpiry(p) \/ ClearBatch(p)
  PROVE  TypeInv'
  <1>1. CallsOK'
    <2>1. CASE RetireBatch(p) \/ RetireSig(p) \/ RetireApproval(p) \/ ClearBatch(p)
      BY <2>1, GotoTypes
         DEF TypeInv, RetireBatch, RetireSig, RetireApproval, ClearBatch, local, Steps, BatSteps
    <2>2. CASE StoreReview(p) \/ StorePrepared(p) \/ CheckExpiry(p)
      <3>1. bat[p] # None
        BY <2>2 DEF TypeInv, CallsOK, StoreReview, StorePrepared, CheckExpiry, BatSteps
      <3> QED BY <2>2, <3>1, GotoTypes
              DEF TypeInv, StoreReview, StorePrepared, CheckExpiry, local, Steps, BatSteps
    <2>3. CASE PrepareBatch(p)
      <3>1. PICK s \in Steps : Goto(p, s)
        BY <2>3 DEF PrepareBatch, Steps
      <3>2. \E b \in Batch : bat' = [bat EXCEPT ![p] = b]
        BY <2>3, FreshBatch DEF PrepareBatch, KeepsPrepared, TypeInv, StoredOK, MaybeBatch
      <3>3. UNCHANGED <<did, aid, faults>>
        BY <2>3 DEF PrepareBatch
      <3> QED BY <3>1, <3>2, <3>3, GotoTypes DEF TypeInv
    <2> QED BY <2>1, <2>2, <2>3
  <1>2. /\ UNCHANGED <<creds, status, outside, host>>
        /\ approval' \in {approval, None}
        /\ {prepared', review', sig'} \subseteq {prepared, review, sig, None, bat[p]}
    BY DEF RetireBatch, RetireSig, RetireApproval, PrepareBatch, StoreReview, StorePrepared,
           CheckExpiry, ClearBatch, batches
  <1>3. bat[p] \in MaybeBatch
    BY DEF TypeInv, CallsOK
  <1>4. StoredOK'
    BY <1>2, <1>3 DEF TypeInv, StoredOK, MaybeBatch
  <1> QED BY <1>1, <1>2, <1>4 DEF TypeInv, TxOK, WorldOK, outside, host

(* What the seven steps from the stored signature to the new one share.    *)
LEMMA SigningMoves ==
  ASSUME TypeInv, NEW p \in Procs, Signing(p)
  PROVE  /\ pc[p] \in SignSteps
         /\ \E s \in SignSteps \cup {"submit", "fail"} : Goto(p, s)
         /\ UNCHANGED <<creds, status, prepared, review, outside, local>>
         /\ faults' = faults \/ Fault
         /\ approval' \in {approval, None, bat[p]} /\ sig' \in {sig, None, bat[p]}
         /\ granted' = granted /\ asked' \in {asked, asked \cup {bat[p]}}
         /\ signed' = signed \/ (bat[p] \in granted /\ signed' = signed \cup {bat[p]})
  <1> USE DEF Signing, ReadSignature, ReadHint, SignBatch, DropHint, StoreSignature, StoreHint,
              RetireHint, SignSteps
  <1>1. pc[p] \in SignSteps /\ \E s \in SignSteps \cup {"submit", "fail"} : Goto(p, s)
    OBVIOUS
  <1>2. UNCHANGED <<creds, status, prepared, review, outside, local>> /\ (faults' = faults \/ Fault)
    BY DEF stored, batches
  <1>3. approval' \in {approval, None, bat[p]} /\ sig' \in {sig, None, bat[p]}
    BY DEF stored, batches
  <1>4. /\ granted' = granted /\ asked' \in {asked, asked \cup {bat[p]}}
        /\ signed' = signed \/ (bat[p] \in granted /\ signed' = signed \cup {bat[p]})
    BY DEF host
  <1> QED BY <1>1, <1>2, <1>3, <1>4

LEMMA SignTypes ==
  ASSUME TypeInv, NEW p \in Procs, Signing(p)
  PROVE  TypeInv'
  <1>1. bat[p] \in Batch
    BY SigningMoves DEF TypeInv, CallsOK, BatSteps, MaybeBatch
  <1>2. CallsOK'
    <2>1. PICK s \in SignSteps \cup {"submit", "fail"} : Goto(p, s)
      BY SigningMoves
    <2>2. s \in Steps
      BY DEF Steps, SignSteps
    <2>3. (faults' = faults \/ Fault) /\ UNCHANGED <<did, aid, bat>>
      BY SigningMoves DEF local
    <2> QED BY <1>1, <2>1, <2>2, <2>3, NotBatches, GotoTypes DEF TypeInv
  <1>3. StoredOK'
    BY <1>1, SigningMoves DEF TypeInv, StoredOK, MaybeBatch
  <1>4. WorldOK'
    BY <1>1, SigningMoves DEF TypeInv, WorldOK, outside
  <1> QED BY <1>2, <1>3, <1>4, SigningMoves DEF TypeInv, TxOK, outside

LEMMA SubmitTypes ==
  ASSUME TypeInv, NEW p \in Procs, SubmitDeploy(p) \/ SubmitBatch(p)
  PROVE  TypeInv'
  <1>1. PICK b \in MaybeBatch : tx' = Append(tx, [batch |-> b, state |-> "new"])
    BY DEF SubmitDeploy, SubmitBatch, TypeInv, CallsOK, MaybeBatch
  <1>2. Len(tx) < MaxTx
    BY DEF SubmitDeploy, SubmitBatch
  <1>3. TxOK'
    BY <1>1, <1>2, TxSubmitted DEF TypeInv
  <1>4. Len(tx) + 1 \in MaybeTx
    BY <1>2, TxCount DEF TypeInv, MaybeTx
  <1>5. CallsOK'
    <2>1. CASE SubmitDeploy(p)
      BY <1>4, <2>1, GotoTypes DEF TypeInv, SubmitDeploy, Steps, BatSteps
    <2>2. CASE SubmitBatch(p)
      <3>1. bat[p] # None
        BY <2>2 DEF TypeInv, CallsOK, SubmitBatch, BatSteps
      <3> QED BY <1>4, <2>2, <3>1, GotoTypes DEF TypeInv, SubmitBatch, Steps
    <2> QED BY <2>1, <2>2
  <1>6. UNCHANGED <<stored, chain, nonce, now, host>>
    BY DEF SubmitDeploy, SubmitBatch
  <1> QED BY <1>3, <1>5, <1>6 DEF TypeInv, StoredOK, WorldOK, stored, host

LEMMA StopTypes ==
  ASSUME TypeInv, NEW p \in Procs, Err(p) \/ Kill(p)
  PROVE  TypeInv'
  <1>1. CallsOK'
    <2>1. faults' \in 0..MaxFaults
      BY DEF Err, Kill, Fault, TypeInv, CallsOK
    <2>2. CASE Err(p)
      BY <2>1, <2>2 DEF Err, Goto, TypeInv, CallsOK, local, Steps, BatSteps
    <2>3. CASE Kill(p)
      BY <2>1, <2>3
         DEF Kill, Leave, Goto, TypeInv, CallsOK, Steps, BatSteps, MaybeTx, MaybeBatch
    <2> QED BY <2>2, <2>3
  <1>2. UNCHANGED <<stored, outside, host>>
    BY DEF Err, Kill
  <1> QED BY <1>1, <1>2 DEF TypeInv, StoredOK, TxOK, WorldOK, stored, outside, host

(* The relayer, the chain, the owner and the clock.                        *)
Outside ==
  \/ \E i \in 1..Len(tx) : Confirm(i) \/ Fails(i)
  \/ \E r \in asked : Grant(r)
  \/ Fund \/ Revoke \/ Tick

LEMMA OutsideTypes ==
  ASSUME TypeInv, Outside
  PROVE  TypeInv'
  <1>1. ASSUME NEW i \in 1..Len(tx), Confirm(i) PROVE TypeInv'
    <2>1. TxOK'
      BY <1>1, TxSettled DEF TypeInv, Confirm, TxStates
    <2>2. nonce' \in 0..MaxNonce
      BY <1>1 DEF TypeInv, WorldOK, Confirm, CanSucceed
    <2>3. /\ UNCHANGED <<now, host>>
          /\ chain' \in {[chain EXCEPT !.deployed = TRUE], [chain EXCEPT !.approved = TRUE]}
      BY <1>1 DEF Confirm
    <2>4. chain' \in [deployed : BOOLEAN, funded : BOOLEAN, approved : BOOLEAN, synced : BOOLEAN]
      BY <2>3 DEF TypeInv, WorldOK
    <2>5. WorldOK'
      BY <2>2, <2>3, <2>4 DEF TypeInv, WorldOK, host
    <2> QED BY <1>1, <2>1, <2>5 DEF TypeInv, StoredOK, CallsOK, Confirm, stored, local
  <1>2. ASSUME NEW i \in 1..Len(tx), Fails(i) PROVE TypeInv'
    <2>1. TxOK'
      BY <1>2, TxSettled DEF TypeInv, Fails, TxStates
    <2> QED BY <1>2, <2>1 DEF TypeInv, StoredOK, WorldOK, CallsOK, Fails, stored, host, local
  <1>3. ASSUME NEW r \in asked, Grant(r) PROVE TypeInv'
    BY <1>3 DEF TypeInv, StoredOK, TxOK, WorldOK, CallsOK, Grant, stored, outside, local
  <1>4. ASSUME Fund \/ Revoke \/ Tick PROVE TypeInv'
    <2>1. UNCHANGED <<stored, tx, host, pc, local, faults>>
      BY <1>4 DEF Fund, Revoke, Tick
    <2>2. WorldOK'
      <3>1. CASE Fund
        BY <3>1 DEF TypeInv, WorldOK, Fund, host
      <3>2. CASE Revoke
        <4>1. nonce' \in 0..MaxNonce /\ UNCHANGED <<now, host>>
          BY <3>2 DEF TypeInv, WorldOK, Revoke
        <4>2. chain' \in [deployed : BOOLEAN, funded : BOOLEAN, approved : BOOLEAN, synced : BOOLEAN]
          BY <3>2 DEF TypeInv, WorldOK, Revoke
        <4> QED BY <4>1, <4>2 DEF TypeInv, WorldOK, host
      <3>3. CASE Tick
        BY <3>3 DEF TypeInv, WorldOK, Tick, host
      <3> QED BY <1>4, <3>1, <3>2, <3>3
    <2> QED BY <2>1, <2>2 DEF TypeInv, StoredOK, TxOK, CallsOK, stored, local
  <1> QED BY <1>1, <1>2, <1>3, <1>4 DEF Outside

LEMMA StepTypes == TypeInv /\ [Next]_vars => TypeInv'
  <1> SUFFICES ASSUME TypeInv, [Next]_vars PROVE TypeInv'
    OBVIOUS
  <1>1. ASSUME NEW p \in Procs,
               Begin(p) \/ Continue(p) \/ LoginSteps(p) \/ Stages(p)
                 \/ StatusRead(p) \/ Err(p) \/ Misread(p) \/ Kill(p)
        PROVE  TypeInv'
    BY <1>1, LoginTypes, IdTypes, NoteTypes, BatchTypes, SignTypes, SubmitTypes, StopTypes DEF Stages
  <1>2. CASE UNCHANGED vars
    BY <1>2 DEF TypeInv, StoredOK, TxOK, WorldOK, CallsOK, vars, stored, outside, host, local
  <1> QED BY <1>1, <1>2, OutsideTypes DEF Next, Outside

LEMMA InitTypes == Init => TypeInv
  <1> SUFFICES ASSUME Init PROVE TypeInv
    OBVIOUS
  <1>1. TxOK
    BY EmptySeq DEF Init, TxOK
  <1>2. StoredOK
    BY DEF Init, StoredOK, MaybeBatch
  <1>4. WorldOK
    BY DEF Init, WorldOK
  <1>3. CallsOK
    BY DEF Init, CallsOK, Steps, BatSteps, MaybeTx, MaybeBatch
  <1> QED BY <1>1, <1>2, <1>3, <1>4 DEF TypeInv

LEMMA TypesHold == TypeInv => TypeOK
  BY DEF TypeInv, TypeOK, StoredOK, TxOK, WorldOK, CallsOK, Tx, TxStates

LEMMA TypesAlways == Spec => []TypeInv
  BY InitTypes, StepTypes, PTL DEF Spec

(* Every variable of onboarding keeps its type, whatever calls interleave, *)
(* are killed or fail, and whatever the owner and the relayer do.          *)
THEOREM OnboardingTypes == Spec => []TypeOK
  BY TypesHold, TypesAlways, PTL

-----------------------------------------------------------------------------
(* What an invocation leaves alone: the others.                            *)

Call(p) ==
  \/ Begin(p) \/ Continue(p) \/ LoginSteps(p) \/ Stages(p)
  \/ StatusRead(p) \/ Err(p) \/ Misread(p) \/ Kill(p)

(* A step of an invocation moves it alone, and may submit one transaction. *)
LEMMA CallMoves ==
  ASSUME TypeInv, NEW p \in Procs, Call(p)
  PROVE  /\ \A q \in Procs \ {p} :
              pc'[q] = pc[q] /\ did'[q] = did[q] /\ aid'[q] = aid[q] /\ bat'[q] = bat[q]
         /\ Len(tx') \in Nat /\ Len(tx) <= Len(tx')
         /\ \A i \in 1..Len(tx) : i \in 1..Len(tx') /\ tx'[i] = tx[i]
  <1>1. /\ pc \in [Procs -> Steps] /\ did \in [Procs -> MaybeTx]
        /\ aid \in [Procs -> MaybeTx] /\ bat \in [Procs -> MaybeBatch]
    BY DEF TypeInv, CallsOK
  <1>2. /\ \E s : pc' = [pc EXCEPT ![p] = s]
        /\ \E i : did' = [did EXCEPT ![p] = i]
        /\ \E i : aid' = [aid EXCEPT ![p] = i]
        /\ \E b : bat' = [bat EXCEPT ![p] = b]
        /\ \/ tx' = tx
           \/ /\ Len(tx) < MaxTx
              /\ \E b \in MaybeBatch : tx' = Append(tx, [batch |-> b, state |-> "new"])
    <2> USE DEF Call, Begin, Continue, LoginSteps, SignLogin, PostLogin, StoreCreds,
                DropLogin, Stages, RetireLogin, LegacyLeaves, ReadIds, CheckDeployed,
                SubmitDeploy, NoteDeploy, PollDeploy, CheckFunded, CheckApproved,
                CheckPrevious, RetireBatch, RetireSig, RetireApproval, PrepareBatch,
                StoreReview, StorePrepared, CheckExpiry, Signing, ReadSignature, ReadHint,
                SignBatch, DropHint, StoreSignature, StoreHint, RetireHint, SubmitBatch,
                NoteBatch, PollBatch, ClearBatch, Recheck, Sync, FailureRead, StatusPut,
                StatusRead, Err, Misread, MisreadIds, MisreadFailure, Kill, Leave
    <2>1. \E s : pc' = [pc EXCEPT ![p] = s]
      BY DEF Goto
    <2>2. /\ did = [did EXCEPT ![p] = did[p]] /\ aid = [aid EXCEPT ![p] = aid[p]]
          /\ bat = [bat EXCEPT ![p] = bat[p]]
      BY <1>1
    <2>3. \E i : did' = [did EXCEPT ![p] = i]
      BY <2>2 DEF local
    <2>4. \E i : aid' = [aid EXCEPT ![p] = i]
      BY <2>2 DEF local
    <2>5. \E b : bat' = [bat EXCEPT ![p] = b]
      BY <2>2 DEF local
    <2>6. \/ tx' = tx
          \/ /\ Len(tx) < MaxTx
             /\ \E b \in MaybeBatch : tx' = Append(tx, [batch |-> b, state |-> "new"])
      BY <1>1 DEF outside, MaybeBatch
    <2> HIDE DEF Call
    <2> QED BY <2>1, <2>3, <2>4, <2>5, <2>6
  <1>3. Len(tx) \in Nat
    BY TxCount DEF TypeInv
  <1>4. /\ Len(tx') \in Nat /\ Len(tx) <= Len(tx')
        /\ \A i \in 1..Len(tx) : i \in 1..Len(tx') /\ tx'[i] = tx[i]
    <2>1. CASE tx' = tx
      BY <1>3, <2>1
    <2>2. CASE tx' # tx
      <3>1. Len(tx') = Len(tx) + 1 /\ \A i \in 1..Len(tx) : tx'[i] = tx[i]
        BY <1>2, <2>2, TxSubmitted DEF TypeInv
      <3>2. \A i \in 1..Len(tx) : i \in 1..(Len(tx) + 1)
        BY <1>3
      <3> QED BY <1>3, <3>1, <3>2
    <2> QED BY <2>1, <2>2
  <1>5. ASSUME NEW q \in Procs \ {p}
        PROVE  pc'[q] = pc[q] /\ did'[q] = did[q] /\ aid'[q] = aid[q] /\ bat'[q] = bat[q]
    BY <1>1, <1>2
  <1> QED BY <1>4, <1>5

(* The steps outside a begin or continue: a reader of status.json is idle  *)
(* or about to write it back.                                              *)
Reading == {"idle", "put"}

OneRuns == \A p, q \in Procs : pc[p] # "idle" /\ pc[q] # "idle" => p = q
OneCalls == \A p, q \in Procs : pc[p] \notin Reading /\ pc[q] \notin Reading => p = q

(* Between the calls only begin and continue start one; a reader changes   *)
(* nothing but status.json.                                                *)
LEMMA ReadingStarts ==
  ASSUME TypeInv, NEW p \in Procs, Call(p), pc[p] \in Reading
  PROVE  /\ pc'[p] \notin Reading => pc[p] = "idle" /\ pc'[p] \in {"login", "stale"}
         /\ UNCHANGED <<creds, approval, batches, outside, host>>
  <1>1. Begin(p) \/ Continue(p) \/ StatusRead(p) \/ StatusPut(p) \/ Kill(p)
    BY DEF Reading, Call, LoginSteps, SignLogin, PostLogin, StoreCreds, DropLogin, Stages,
           RetireLogin, ReadIds, CheckDeployed, SubmitDeploy, NoteDeploy, PollDeploy,
           CheckFunded, CheckApproved, CheckPrevious, RetireBatch, RetireSig,
           RetireApproval, PrepareBatch, StoreReview, StorePrepared, CheckExpiry, Signing,
           ReadSignature, ReadHint, SignBatch, DropHint, StoreSignature, StoreHint,
           RetireHint, SubmitBatch, NoteBatch, PollBatch, ClearBatch, Recheck, Sync,
           FailureRead, Err, Misread, MisreadIds, MisreadFailure, InStages
  <1>2. UNCHANGED <<creds, approval, batches, outside, host>>
    BY <1>1 DEF Begin, Continue, StatusRead, StatusPut, Kill, stored, batches
  <1>3. pc'[p] \notin Reading => pc[p] = "idle" /\ pc'[p] \in {"login", "stale"}
    BY <1>1 DEF Begin, Continue, StatusRead, StatusPut, Kill, Leave, Goto, Reading,
                TypeInv, CallsOK
  <1> QED BY <1>2, <1>3

(* What starts on its own leaves the idle ones idle.                       *)
LEMMA IdleStarts ==
  ASSUME TypeInv, NEW p \in Procs, Call(p), pc[p] = "idle"
  PROVE  pc'[p] # "idle"
  <1>1. Begin(p) \/ Continue(p) \/ StatusRead(p)
    BY DEF Call, LoginSteps, SignLogin, PostLogin, StoreCreds, DropLogin, Stages,
           RetireLogin, ReadIds, CheckDeployed, SubmitDeploy, NoteDeploy, PollDeploy,
           CheckFunded, CheckApproved, CheckPrevious, RetireBatch, RetireSig,
           RetireApproval, PrepareBatch, StoreReview, StorePrepared, CheckExpiry, Signing,
           ReadSignature, ReadHint, SignBatch, DropHint, StoreSignature, StoreHint,
           RetireHint, SubmitBatch, NoteBatch, PollBatch, ClearBatch, Recheck, Sync,
           FailureRead, StatusPut, Err, Misread, MisreadIds, MisreadFailure, Kill, InStages
  <1> QED BY <1>1 DEF Begin, Continue, StatusRead, Goto, TypeInv, CallsOK

LEMMA RunsStep ==
  ASSUME TypeInv, OneRuns, [Next /\ Follows]_vars
  PROVE  /\ OneRuns'
         /\ \A p, q \in Procs : Call(p) /\ q # p => pc[q] = "idle"
  <1>1. CASE UNCHANGED pc
    <2>1. OneRuns'
      BY <1>1 DEF OneRuns
    <2>2. ASSUME NEW p \in Procs, NEW q \in Procs, Call(p), q # p PROVE pc[q] = "idle"
      BY <1>1, <2>2, IdleStarts DEF OneRuns
    <2> QED BY <2>1, <2>2
  <1>2. ASSUME Follows, NEW p \in Procs, NEW q \in Procs, Call(p), q # p PROVE pc[q] = "idle"
    BY <1>2, IdleStarts DEF Follows, OneRuns
  <1>3. ASSUME Follows, NEW p \in Procs, Call(p) PROVE OneRuns'
    <2>1. \A q \in Procs \ {p} : pc'[q] = "idle"
      BY <1>2, <1>3, CallMoves
    <2> QED BY <2>1 DEF OneRuns
  <1>4. UNCHANGED pc \/ (Follows /\ \E p \in Procs : Call(p))
    BY DEF Next, Call, Confirm, Fails, Grant, Fund, Revoke, Tick, vars
  <1> QED BY <1>1, <1>2, <1>3, <1>4

LEMMA CallsStep ==
  ASSUME TypeInv, OneCalls, [Next /\ CallsFollow]_vars
  PROVE  OneCalls'
  <1>1. CASE UNCHANGED pc
    BY <1>1 DEF OneCalls
  <1>2. ASSUME CallsFollow, NEW p \in Procs, Call(p) PROVE OneCalls'
    <2>1. \A q \in Procs \ {p} : pc'[q] = pc[q]
      BY <1>2, CallMoves
    <2>2. CASE pc[p] \in Reading /\ pc'[p] \notin Reading
      <3>1. \A q \in Procs : pc[q] \in Reading
        BY <1>2, <2>2, ReadingStarts DEF CallsFollow, Reading
      <3> QED BY <2>1, <3>1 DEF OneCalls
    <2>3. CASE ~(pc[p] \in Reading /\ pc'[p] \notin Reading)
      BY <2>1, <2>3 DEF OneCalls
    <2> QED BY <2>2, <2>3
  <1>3. UNCHANGED pc \/ (CallsFollow /\ \E p \in Procs : Call(p))
    BY DEF Next, Call, Confirm, Fails, Grant, Fund, Revoke, Tick, vars
  <1> QED BY <1>1, <1>2, <1>3

LEMMA InitRuns == Init => OneRuns /\ OneCalls
  BY DEF Init, OneRuns, OneCalls, Reading

-----------------------------------------------------------------------------
(* No two invocations at a time: the ids in status.json.                   *)

(* The steps at which an invocation relies on the ids it read.             *)
IdSteps == Steps \ {"idle", "login", "post_login", "store_creds", "drop_login",
                    "stale", "ids", "fail"}

(* Those on the way to a batch of its own.                                 *)
NoBatchYet == {"retire_batch", "retire_sig", "retire_approval", "nonce", "review",
               "prepare", "expiry", "submit"} \cup SignSteps

(* The ids of status.json, of which those that may still be settled are    *)
(* known to the invocation that may overwrite them.                        *)
Open(i) == i # 0 /\ tx[i].state = "new"

StoredIds ==
  /\ IdsOf(status).deploy <= Len(tx)
  /\ IdsOf(status).approve <= Len(tx)

HeldIds(p) ==
  /\ did[p] <= Len(tx) /\ aid[p] <= Len(tx)
  /\ pc[p] \in IdSteps =>
       /\ Open(IdsOf(status).deploy) => did[p] = IdsOf(status).deploy
       /\ Open(IdsOf(status).approve) => aid[p] = IdsOf(status).approve
  /\ pc[p] = "dep_submit" => did[p] = 0
  /\ pc[p] \in NoBatchYet => aid[p] = 0

IdsAt(p) == StoredIds /\ HeldIds(p)
IdsInv == StoredIds /\ \A p \in Procs : HeldIds(p)

(* A status.json that was just written holds the ids it was given.         *)
LEMMA NotedIds ==
  ASSUME TypeInv, NEW p \in Procs
  PROVE  /\ Noted(p) # None /\ IdsOf(Noted(p)) = Noted(p)
         /\ Noted(p).deploy = did[p] /\ Noted(p).approve = aid[p]
  <1>1. Noted(p) \in [deploy : Nat, approve : Nat]
    BY IdsTyped DEF MaybeTx
  <1> QED BY <1>1 DEF IdsOf, Noted, Ids

(* While the relayer's transactions do not change, it is enough that the   *)
(* invocation keeps the ids it relied on, or reads those of status.json.   *)
LEMMA HeldIdsKept ==
  ASSUME TypeInv, IdsInv, NEW p \in Procs, NEW s \in Steps, Goto(p, s), UNCHANGED tx,
         \/ status' = status
         \/ status' = Noted(p),
         \/ did' = did /\ aid' = aid
         \/ did' = [did EXCEPT ![p] = 0] /\ aid' = [aid EXCEPT ![p] = 0] /\ s = "idle"
         \/ /\ status' = status
            /\ did' = [did EXCEPT ![p] = IdsOf(status).deploy]
            /\ aid' = [aid EXCEPT ![p] = IdsOf(status).approve],
         \/ s \notin IdSteps \/ pc[p] \in IdSteps
         \/ did'[p] = IdsOf(status).deploy /\ aid'[p] = IdsOf(status).approve,
         s = "dep_submit" => did'[p] = 0,
         s \in NoBatchYet => aid'[p] = 0
  PROVE  IdsAt(p)'
  <1>1. Len(tx) \in Nat /\ did[p] \in Nat /\ aid[p] \in Nat
    BY TxCount DEF TypeInv, CallsOK, MaybeTx
  <1>2. pc'[p] = s /\ did'[p] \in {did[p], 0, IdsOf(status).deploy}
          /\ aid'[p] \in {aid[p], 0, IdsOf(status).approve}
    BY DEF Goto, TypeInv, CallsOK
  <1>3. HeldIds(p) /\ StoredIds
    BY DEF IdsInv
  <1>4. StoredIds'
    BY <1>3, NotedIds DEF StoredIds, HeldIds
  <1>5. HeldIds(p)'
    <2>1. did'[p] <= Len(tx) /\ aid'[p] <= Len(tx)
      BY <1>1, <1>2, <1>3 DEF StoredIds, HeldIds
    <2>2. ASSUME s \in IdSteps
          PROVE  /\ Open(IdsOf(status).deploy)' => did'[p] = IdsOf(status').deploy
                 /\ Open(IdsOf(status).approve)' => aid'[p] = IdsOf(status').approve
      <3>1. s # "idle"
        BY <2>2 DEF IdSteps
      <3>2. CASE status' = status
        <4>1. \/ did'[p] = did[p] /\ aid'[p] = aid[p] /\ pc[p] \in IdSteps
              \/ did'[p] = IdsOf(status).deploy /\ aid'[p] = IdsOf(status).approve
          BY <2>2, <3>1 DEF TypeInv, CallsOK
        <4>2. IdsOf(status') = IdsOf(status)
          BY <3>2
        <4>3. /\ Open(IdsOf(status).deploy)' => Open(IdsOf(status).deploy)
              /\ Open(IdsOf(status).approve)' => Open(IdsOf(status).approve)
          BY <3>2 DEF Open
        <4> QED BY <1>3, <4>1, <4>2, <4>3 DEF HeldIds
      <3>3. CASE status' # status
        <4>1. status' = Noted(p) /\ did' = did /\ aid' = aid
          BY <3>1, <3>3
        <4> QED BY <4>1, NotedIds
      <3> QED BY <3>2, <3>3
    <2> QED BY <1>2, <2>1, <2>2 DEF HeldIds
  <1> QED BY <1>4, <1>5 DEF IdsAt

(* What an invocation does with the ids it holds.                          *)
LEMMA CallIds ==
  ASSUME TypeInv, IdsInv, Unswitched, NEW p \in Procs,
         \/ Begin(p) \/ Continue(p) \/ LoginSteps(p)
         \/ Stages(p) /\ ~SubmitDeploy(p) /\ ~SubmitBatch(p) /\ ~CheckPrevious(p)
         \/ StatusRead(p) \/ Err(p) \/ Kill(p)
  PROVE  IdsAt(p)'
  <1> USE DEF Steps, IdSteps, NoBatchYet
  <1>1. ASSUME Begin(p) \/ PostLogin(p) \/ StoreCreds(p) \/ Continue(p) \/ RetireLogin(p)
        PROVE  IdsAt(p)'
    BY <1>1, HeldIdsKept
       DEF Begin, PostLogin, StoreCreds, Continue, RetireLogin, Unswitched, stored, outside, local
  <1>2. ASSUME SignLogin(p) \/ DropLogin(p) PROVE IdsAt(p)'
    BY <1>2, HeldIdsKept DEF SignLogin, DropLogin, Leave, outside, local
  <1>3. ASSUME ReadIds(p) \/ FailureRead(p) PROVE IdsAt(p)'
    <2>1. did'[p] = IdsOf(status).deploy /\ aid'[p] = IdsOf(status).approve
      BY <1>3 DEF ReadIds, FailureRead, TypeInv, CallsOK
    <2> QED BY <1>3, <2>1, HeldIdsKept DEF ReadIds, FailureRead, stored, outside
  <1>4. ASSUME StatusRead(p) PROVE IdsAt(p)'
    <2>1. IdsOf(status) = status
      BY <1>4 DEF StatusRead, IdsOf
    <2>2. did'[p] = IdsOf(status).deploy /\ aid'[p] = IdsOf(status).approve
      BY <1>4, <2>1 DEF StatusRead, TypeInv, CallsOK
    <2> QED BY <1>4, <2>1, <2>2, HeldIdsKept DEF StatusRead, stored, outside
  <1>5. ASSUME CheckDeployed(p) \/ NoteDeploy(p) \/ PollDeploy(p) \/ CheckApproved(p)
                 \/ NoteBatch(p) \/ PollBatch(p) \/ Recheck(p)
        PROVE  IdsAt(p)'
    BY <1>5, HeldIdsKept DEF CheckDeployed, NoteDeploy, PollDeploy, CheckApproved, NoteBatch,
                         PollBatch, Recheck, stored, outside, local
  <1>6. ASSUME CheckFunded(p) PROVE IdsAt(p)'
    BY <1>6, HeldIdsKept DEF CheckFunded, Leave, outside, local
  <1>7. ASSUME Sync(p) \/ StatusPut(p) \/ Kill(p) PROVE IdsAt(p)'
    <2>1. /\ Goto(p, "idle") /\ UNCHANGED tx /\ status' \in {status, Noted(p)}
          /\ did' = [did EXCEPT ![p] = 0] /\ aid' = [aid EXCEPT ![p] = 0]
      BY <1>7 DEF Sync, StatusPut, Kill, Leave, stored, outside
    <2> QED BY <2>1, HeldIdsKept
  <1>8. ASSUME Err(p) PROVE IdsAt(p)'
    BY <1>8, HeldIdsKept DEF Err, stored, outside, local
  <1>9. ASSUME RetireBatch(p) \/ RetireSig(p) \/ RetireApproval(p) \/ PrepareBatch(p)
                 \/ StoreReview(p) \/ StorePrepared(p) \/ CheckExpiry(p) \/ Signing(p)
                 \/ ClearBatch(p)
        PROVE  IdsAt(p)'
    <2>1. /\ UNCHANGED <<status, tx, did, aid>>
          /\ pc[p] \in NoBatchYet \/ (pc[p] = "clear" /\ Goto(p, "recheck"))
      BY <1>9 DEF RetireBatch, RetireSig, RetireApproval, PrepareBatch, StoreReview,
                  StorePrepared, CheckExpiry, Signing, ReadSignature, ReadHint, SignBatch,
                  DropHint, StoreSignature, StoreHint, RetireHint, ClearBatch, stored,
                  batches, outside, local
    <2>2. PICK s \in NoBatchYet \cup {"fail", "recheck"} :
            Goto(p, s) /\ (pc[p] = "clear" => s = "recheck")
      BY <1>9 DEF RetireBatch, RetireSig, RetireApproval, PrepareBatch, StoreReview,
                  StorePrepared, CheckExpiry, Signing, ReadSignature, ReadHint, SignBatch,
                  DropHint, StoreSignature, StoreHint, RetireHint, ClearBatch
    <2>3. pc[p] \in NoBatchYet => aid[p] = 0
      BY DEF IdsInv, HeldIds
    <2> QED BY <2>1, <2>2, <2>3, HeldIdsKept
  <1> QED BY <1>1, <1>2, <1>3, <1>4, <1>5, <1>6, <1>7, <1>8, <1>9 DEF LoginSteps, Stages

(* Of the two submissions neither is made while the id of an open one is   *)
(* in status.json.                                                         *)
LEMMA SubmitIds ==
  ASSUME TypeInv, IdsInv, NEW p \in Procs, SubmitDeploy(p) \/ SubmitBatch(p)
  PROVE  IdsAt(p)'
  <1>1. PICK b \in MaybeBatch : tx' = Append(tx, [batch |-> b, state |-> "new"])
    BY DEF SubmitDeploy, SubmitBatch, TypeInv, CallsOK, MaybeBatch
  <1>2. Len(tx) \in Nat /\ Len(tx') = Len(tx) + 1 /\ \A i \in 1..Len(tx) : tx'[i] = tx[i]
    BY <1>1, TxSubmitted, TxCount DEF SubmitDeploy, SubmitBatch, TypeInv
  <1>3. /\ status' = status
        /\ IdsOf(status).deploy \in Nat /\ IdsOf(status).approve \in Nat
        /\ StoredIds /\ HeldIds(p)
    BY IdsTyped DEF SubmitDeploy, SubmitBatch, stored, IdsInv, MaybeTx
  <1>4. /\ IdsOf(status').deploy = IdsOf(status).deploy
        /\ IdsOf(status').approve = IdsOf(status).approve
        /\ \A i \in Nat : i <= Len(tx) => (Open(i)' <=> Open(i))
    BY <1>2, <1>3 DEF Open
  <1>5. did[p] \in Nat /\ aid[p] \in Nat
    BY DEF TypeInv, CallsOK, MaybeTx
  <1>6. HeldIds(p)'
    <2>1. CASE SubmitDeploy(p)
      <3>1. /\ pc[p] = "dep_submit" /\ pc'[p] = "dep_note"
            /\ did'[p] = Len(tx) + 1 /\ aid'[p] = aid[p]
        BY <2>1 DEF SubmitDeploy, Goto, TypeInv, CallsOK
      <3>2. ~Open(IdsOf(status).deploy)
        BY <1>3, <3>1 DEF HeldIds, IdSteps, Steps, Open
      <3> QED BY <1>2, <1>3, <1>4, <1>5, <3>1, <3>2 DEF HeldIds, StoredIds, IdSteps, Steps,
                                                        NoBatchYet
    <2>2. CASE SubmitBatch(p)
      <3>1. /\ pc[p] = "submit" /\ pc'[p] = "note"
            /\ aid'[p] = Len(tx) + 1 /\ did'[p] = did[p]
        BY <2>2 DEF SubmitBatch, Goto, TypeInv, CallsOK
      <3>2. ~Open(IdsOf(status).approve)
        BY <1>3, <3>1 DEF HeldIds, IdSteps, NoBatchYet, Steps, Open
      <3> QED BY <1>2, <1>3, <1>4, <1>5, <3>1, <3>2 DEF HeldIds, StoredIds, IdSteps, Steps,
                                                        NoBatchYet
    <2> QED BY <2>1, <2>2
  <1>7. StoredIds'
    BY <1>2, <1>3, <1>4 DEF StoredIds
  <1> QED BY <1>6, <1>7 DEF IdsAt

LEMMA PreviousIds ==
  ASSUME TypeInv, IdsInv, NEW p \in Procs, CheckPrevious(p)
  PROVE  IdsAt(p)'
  <1>1. /\ UNCHANGED <<tx, status, did>> /\ pc[p] = "previous"
        /\ HeldIds(p) /\ StoredIds
    BY DEF CheckPrevious, outside, stored, IdsInv
  <1>2. CASE Retirable(aid[p])
    <2>1. aid'[p] = 0 /\ pc'[p] = "retire_batch"
      BY <1>2 DEF CheckPrevious, Goto, TypeInv, CallsOK
    <2>2. ~Open(IdsOf(status).approve)
      BY <1>1, <1>2 DEF HeldIds, IdSteps, Steps, Open, Retirable
    <2>3. Len(tx) \in Nat /\ ~Open(IdsOf(status).approve)' /\ did'[p] = did[p]
            /\ (Open(IdsOf(status).deploy)' <=> Open(IdsOf(status).deploy))
            /\ IdsOf(status') = IdsOf(status)
      BY <1>1, <2>2, TxCount DEF Open, TypeInv
    <2>4. HeldIds(p)'
      BY <1>1, <2>1, <2>3 DEF HeldIds, IdSteps, Steps
    <2>5. StoredIds'
      BY <1>1 DEF StoredIds
    <2> QED BY <2>4, <2>5 DEF IdsAt
  <1>3. CASE ~Retirable(aid[p])
    BY <1>1, <1>3, HeldIdsKept DEF CheckPrevious, IdSteps, NoBatchYet, Steps
  <1> QED BY <1>2, <1>3

LEMMA OutsideIds ==
  ASSUME TypeInv, IdsInv, Outside
  PROVE  IdsInv'
  <1>1. UNCHANGED <<status, pc, did, aid>>
    BY DEF Outside, Confirm, Fails, Grant, Fund, Revoke, Tick, stored, local
  <1>2. Len(tx') = Len(tx) /\ \A i \in 1..Len(tx) : tx'[i].state = "new" => tx[i].state = "new"
    <2>1. ASSUME NEW i \in 1..Len(tx), NEW state \in {"confirmed", "failed"},
                 tx' = [tx EXCEPT ![i].state = state]
          PROVE  Len(tx') = Len(tx) /\ \A j \in 1..Len(tx) : tx'[j].state = "new" => tx[j].state = "new"
      BY <2>1, TxSettled DEF TypeInv, TxStates
    <2>2. CASE UNCHANGED tx
      BY <2>2
    <2> QED BY <2>1, <2>2 DEF Outside, Confirm, Fails, Grant, Fund, Revoke, Tick, outside
  <1>3. \A i \in Nat : i <= Len(tx) /\ Open(i)' => Open(i)
    BY <1>2, TxCount DEF Open, TypeInv
  <1>4. IdsOf(status).deploy \in Nat /\ IdsOf(status).approve \in Nat /\ StoredIds
    BY DEF TypeInv, StoredOK, IdsOf, MaybeTx, IdsInv
  <1>5. /\ Open(IdsOf(status).deploy)' => Open(IdsOf(status).deploy)
        /\ Open(IdsOf(status).approve)' => Open(IdsOf(status).approve)
        /\ IdsOf(status') = IdsOf(status)
    BY <1>1, <1>3, <1>4 DEF StoredIds, Open
  <1>6. ASSUME NEW q \in Procs PROVE HeldIds(q)'
    BY <1>1, <1>2, <1>5 DEF IdsInv, HeldIds
  <1>7. StoredIds'
    BY <1>1, <1>2, <1>4 DEF StoredIds
  <1> QED BY <1>6, <1>7 DEF IdsInv

LEMMA IdsStep ==
  ASSUME TypeInv, IdsInv, OneRuns, [Next /\ Follows /\ Unswitched /\ ReadsTruly]_vars
  PROVE  IdsInv'
  <1>1. ASSUME Follows, Unswitched, ReadsTruly, NEW p \in Procs, Call(p) PROVE IdsInv'
    <2>1. IdsAt(p)'
      BY <1>1, CallIds, SubmitIds, PreviousIds DEF Call, ReadsTruly
    <2>2. ASSUME NEW q \in Procs \ {p} PROVE HeldIds(q)'
      <3>1. pc[q] = "idle"
        BY <1>1, RunsStep
      <3>2. pc'[q] = "idle" /\ did'[q] = did[q] /\ aid'[q] = aid[q] /\ Len(tx') \in Nat
              /\ Len(tx) <= Len(tx')
        BY <1>1, <3>1, CallMoves
      <3>3. did[q] \in Nat /\ aid[q] \in Nat /\ Len(tx) \in Nat
        BY TxCount DEF TypeInv, CallsOK, MaybeTx
      <3>4. did[q] <= Len(tx) /\ aid[q] <= Len(tx)
        BY DEF IdsInv, HeldIds
      <3> QED BY <3>2, <3>3, <3>4 DEF HeldIds, IdSteps, NoBatchYet
    <2> QED BY <2>1, <2>2 DEF IdsAt, IdsInv
  <1>2. CASE UNCHANGED vars
    BY <1>2 DEF IdsInv, StoredIds, HeldIds, Open, vars, stored, outside, local
  <1> QED BY <1>1, <1>2, OutsideIds DEF Next, Outside, Call

LEMMA InitIds == Init => IdsInv
  <1> SUFFICES ASSUME Init PROVE IdsInv
    OBVIOUS
  <1>1. Len(tx) = 0
    BY EmptySeq DEF Init
  <1> QED BY <1>1 DEF Init, IdsInv, StoredIds, HeldIds, Open, IdsOf, IdSteps, NoBatchYet

(* The id of a transaction that may still be settled stays in status.json. *)
LEMMA IdsStay ==
  ASSUME TypeInv, IdsInv, [Next /\ Unswitched]_vars
  PROVE  [KeepsIds]_vars
  <1> SUFFICES ASSUME Next, Unswitched PROVE KeepsIds
    BY DEF KeepsIds
  <1>1. CASE status' = status
    BY <1>1 DEF KeepsIds
  <1>2. CASE status' # status
    <2>1. PICK p \in Procs :
            \/ Begin(p) \/ Continue(p) \/ LoginSteps(p) \/ Stages(p)
            \/ StatusRead(p) \/ Err(p) \/ Misread(p) \/ Kill(p)
      BY <1>2 DEF Next, Confirm, Fails, Grant, Fund, Revoke, Tick, stored
    <2>2. ~(Begin(p) \/ Continue(p) \/ LoginSteps(p) \/ StatusRead(p) \/ Err(p) \/ Misread(p) \/ Kill(p))
      BY <1>2 DEF Begin, Continue, LoginSteps, SignLogin, PostLogin, StoreCreds, DropLogin,
                  StatusRead, Err, Misread, MisreadIds, MisreadFailure, Kill, stored
    <2>3. ~(RetireLogin(p) \/ ReadIds(p) \/ CheckDeployed(p) \/ SubmitDeploy(p)
              \/ CheckApproved(p) \/ CheckPrevious(p) \/ SubmitBatch(p) \/ FailureRead(p))
      BY <1>2 DEF RetireLogin, Unswitched, ReadIds, CheckDeployed, SubmitDeploy, CheckApproved,
                  CheckPrevious, SubmitBatch, FailureRead, stored
    <2>4. ~(RetireBatch(p) \/ RetireSig(p) \/ RetireApproval(p) \/ PrepareBatch(p)
              \/ StoreReview(p) \/ StorePrepared(p) \/ CheckExpiry(p) \/ Signing(p)
              \/ ClearBatch(p))
      BY <1>2 DEF RetireBatch, RetireSig, RetireApproval, PrepareBatch, StoreReview,
                  StorePrepared, CheckExpiry, Signing, ReadSignature, ReadHint, SignBatch,
                  DropHint, StoreSignature, StoreHint, RetireHint, ClearBatch, stored, batches
    <2>5. \/ NoteDeploy(p) \/ PollDeploy(p) \/ CheckFunded(p) \/ NoteBatch(p)
          \/ PollBatch(p) \/ Recheck(p) \/ Sync(p) \/ StatusPut(p)
      BY <2>1, <2>2, <2>3, <2>4 DEF Stages
    <2>6. status' = Noted(p) /\ pc[p] \in IdSteps
      BY <1>2, <2>5
         DEF NoteDeploy, PollDeploy, CheckFunded, NoteBatch, PollBatch, Recheck, Sync,
             StatusPut, IdSteps, Steps
    <2>7. status # None => IdsOf(status) = status
      BY DEF IdsOf
    <2>8. HeldIds(p)
      BY DEF IdsInv
    <2> QED BY <2>6, <2>7, <2>8, NotedIds DEF KeepsIds, HeldIds, Open
  <1> QED BY <1>1, <1>2

(* run_onboard_stages and persist_onboard_status: an id in status.json is  *)
(* kept as long as its transaction may still be settled.  This is for any  *)
(* number of invocations that follow one another, killed or failing        *)
(* anywhere but in a read of status.json, none of which finds              *)
(* legacy_eoa_mode switched on; the relayer, the chain and the owner do as *)
(* they like.                                                              *)
THEOREM OnboardingKeepsIds == UnswitchedSpec => [][KeepsIds]_vars
  <1>1. Init => TypeInv /\ IdsInv /\ OneRuns
    BY InitTypes, InitIds, InitRuns
  <1>2. TypeInv /\ IdsInv /\ OneRuns /\ [Next /\ Follows /\ Unswitched /\ ReadsTruly]_vars
          => (TypeInv /\ IdsInv /\ OneRuns)' /\ [KeepsIds]_vars
    BY StepTypes, IdsStep, IdsStay, RunsStep
  <1> QED BY <1>1, <1>2, PTL DEF UnswitchedSpec

-----------------------------------------------------------------------------
(* One call at a time and approvals that stay: the batches.                *)

(* A batch may still execute: its approval was asked for and it is not yet *)
(* signed, or the relayer holds a transaction of it that can succeed.      *)
Asked(b) == approval = b /\ ~Expired(b) /\ b \notin signed
Executable(k) == tx[k].state = "new" /\ tx[k].batch # None /\ CanSucceed(tx[k])
Pending(b) == Asked(b) \/ \E k \in 1..Len(tx) : Executable(k) /\ tx[k].batch = b
NonePending == \A b \in Batch : ~Pending(b)

(* That batch is the prepared one.                                         *)
PreparedOnly == \A b \in Batch : Pending(b) => b = prepared

(* A transaction of a batch was signed, at a nonce the wallet has reached, *)
(* and approved what it confirmed.                                         *)
TrueTx(k) ==
  tx[k].batch # None =>
    /\ tx[k].batch \in signed /\ tx[k].batch.nonce <= nonce
    /\ tx[k].state = "confirmed" => chain.approved

OfBatch(i) == i = 0 \/ (i \in 1..Len(tx) /\ tx[i].batch # None)

Recorded ==
  /\ nonce = 0 \/ chain.approved
  /\ \A k \in 1..Len(tx) : TrueTx(k)
  /\ prepared # None => prepared.nonce <= nonce
  /\ sig # None => sig \in signed
  /\ ~creds => approval \in {None, Login}
  /\ OfBatch(IdsOf(status).approve)

LoggingIn == {"login", "post_login", "store_creds", "drop_login"}
Retiring == {"retire_batch", "retire_sig", "retire_approval"}

(* What an invocation relies on, by its step.                              *)
HoldsBatch(p) ==
  /\ OfBatch(aid[p])
  /\ pc[p] \in LoggingIn => approval \in {None, Login}
  /\ pc[p] \in BatSteps => bat[p].nonce <= nonce
  /\ pc[p] \in Retiring => chain.approved
  /\ pc[p] \in Retiring \cup {"review", "prepare", "clear"} => NonePending
  /\ chain.approved /\ pc[p] \in {"previous", "nonce"} => NonePending
  /\ pc[p] \in {"expiry", "submit"} \cup SignSteps => bat[p] = prepared
  /\ pc[p] \in {"drop_hint", "store_sig", "submit"} => bat[p] \in signed
  /\ pc[p] \in {"previous", "note", "poll"} => aid[p] # 0
  /\ pc[p] \in {"note", "poll"} /\ tx[aid[p]].state = "confirmed" => NonePending

BatchAt(p) == PreparedOnly /\ Recorded /\ HoldsBatch(p)
BatchInv == PreparedOnly /\ Recorded /\ \A p \in Procs : HoldsBatch(p)

(* The stages are entered by continue_onboarding, which requires clob.json.*)
CredsFirst == \A p \in Procs : InStages(p) \/ pc[p] = "stale" => creds

(* No batch becomes pending while nothing is submitted or asked for.       *)
LEMMA PendingFalls ==
  ASSUME TypeInv, TypeInv', now <= now', nonce' = nonce, signed \subseteq signed',
         approval' = approval \/ approval' \notin Batch,
         \A k \in 1..Len(tx') : tx'[k].state = "new" =>
           k \in 1..Len(tx) /\ tx[k].state = "new" /\ tx'[k].batch = tx[k].batch
  PROVE  /\ \A b \in Batch : Pending(b)' => Pending(b)
         /\ NonePending => NonePending'
  <1>1. \A b \in Batch : b.deadline \in Nat
    BY DEF Batch
  <1>2. now \in Nat /\ now' \in Nat
    BY DEF TypeInv, WorldOK
  <1>3. ASSUME NEW b \in Batch, Pending(b)' PROVE Pending(b)
    <2>1. Expired(b) => Expired(b)'
      BY <1>1, <1>2 DEF Expired
    <2>2. CASE Asked(b)'
      BY <2>1, <2>2 DEF Asked, Pending
    <2>3. ASSUME NEW k \in 1..Len(tx'), Executable(k)', tx'[k].batch = b
          PROVE  Pending(b)
      <3>1. k \in 1..Len(tx) /\ tx[k].state = "new" /\ tx[k].batch = b /\ b # None
        BY <2>3, NotBatches DEF Executable
      <3>2. b.nonce = nonce /\ nonce < MaxNonce /\ ~Expired(b)
        BY <2>1, <2>3, <3>1 DEF Executable, CanSucceed
      <3>3. Executable(k)
        BY <3>1, <3>2 DEF Executable, CanSucceed
      <3> QED BY <3>1, <3>3 DEF Pending
    <2> QED BY <1>3, <2>2, <2>3 DEF Pending
  <1> QED BY <1>3 DEF NonePending

(* The prepared batch, once expired, is pending no more; nor is any other. *)
LEMMA ExpiredNonePending ==
  ASSUME PreparedOnly, prepared = None \/ Expired(prepared)
  PROVE  NonePending
  <1>1. ASSUME NEW b \in Batch, Pending(b) PROVE ~Expired(b)
    BY <1>1, NotBatches DEF Pending, Asked, Executable, CanSucceed
  <1> QED BY <1>1, NotBatches DEF PreparedOnly, NonePending

(* Steps that submit nothing, ask for nothing and leave the batch alone.   *)
Quiet(p) ==
  /\ UNCHANGED <<tx, nonce, now, prepared, signed>>
  /\ chain'.approved = chain.approved
  /\ approval' \in {approval, None, Login}
  /\ creds' = creds \/ approval' \in {None, Login}
  /\ sig' \in {sig, None}
  /\ status' \in {status, None, Noted(p)}
  /\ aid'[p] \in {aid[p], 0, IdsOf(status).approve}

LEMMA QuietIds ==
  ASSUME TypeInv, BatchInv, NEW p \in Procs, Quiet(p)
  PROVE  OfBatch(aid[p])' /\ OfBatch(IdsOf(status).approve)'
  <1>1. OfBatch(aid[p]) /\ OfBatch(IdsOf(status).approve)
    BY DEF BatchInv, HoldsBatch, Recorded
  <1>2. OfBatch(aid[p])'
    BY <1>1 DEF Quiet, OfBatch
  <1>3. IdsOf(status').approve \in {0, aid[p], IdsOf(status).approve}
    BY NotedIds DEF Quiet, IdsOf
  <1>4. OfBatch(IdsOf(status).approve)'
    BY <1>1, <1>3 DEF Quiet, OfBatch
  <1> QED BY <1>2, <1>4

LEMMA QuietPending ==
  ASSUME TypeInv, TypeInv', NEW p \in Procs, Quiet(p)
  PROVE  (\A b \in Batch : Pending(b)' => Pending(b)) /\ (NonePending => NonePending')
  <1>1. now <= now' /\ nonce' = nonce /\ signed \subseteq signed' /\ tx' = tx
    BY DEF Quiet, TypeInv, WorldOK
  <1>2. approval' = approval \/ approval' \notin Batch
    BY NotBatches DEF Quiet
  <1> QED BY <1>1, <1>2, PendingFalls

LEMMA QuietStep ==
  ASSUME TypeInv, TypeInv', BatchInv, NEW p \in Procs, Quiet(p),
         OfBatch(aid[p])' => HoldsBatch(p)'
  PROVE  BatchAt(p)'
  <1>1. PreparedOnly'
    BY QuietPending DEF BatchInv, PreparedOnly, Quiet
  <1>2. Recorded'
    <2>1. \A k \in 1..Len(tx') : TrueTx(k)'
      BY DEF BatchInv, Recorded, Quiet, TrueTx
    <2>2. OfBatch(IdsOf(status).approve)'
      BY QuietIds
    <2>3. ~creds' => approval' \in {None, Login}
      BY DEF BatchInv, Recorded, Quiet
    <2>4. /\ nonce' = 0 \/ chain'.approved
          /\ prepared' # None => prepared'.nonce <= nonce'
          /\ sig' # None => sig' \in signed'
      BY DEF BatchInv, Recorded, Quiet
    <2> QED BY <2>1, <2>2, <2>3, <2>4 DEF Recorded
  <1>3. HoldsBatch(p)'
    BY QuietIds
  <1> QED BY <1>1, <1>2, <1>3 DEF BatchAt

(* Steps at which an invocation relies on nothing but its ids.             *)
LightSteps == {"idle", "stale", "ids", "deployed", "dep_poll", "dep_submit", "dep_note",
               "funded", "approved", "recheck", "sync", "fail", "put"}

LEMMA LightStep ==
  ASSUME TypeInv, TypeInv', BatchInv, NEW p \in Procs, Quiet(p), pc'[p] \in LightSteps
  PROVE  BatchAt(p)'
  <1>1. OfBatch(aid[p])' => HoldsBatch(p)'
    BY DEF HoldsBatch, LightSteps, LoggingIn, BatSteps, Retiring
  <1> QED BY <1>1, QuietStep

LEMMA LoginBatch ==
  ASSUME TypeInv, TypeInv', BatchInv, NEW p \in Procs, Begin(p) \/ LoginSteps(p)
  PROVE  BatchAt(p)'
  <1>1. approval \in {None, Login}
    BY DEF BatchInv, Recorded, HoldsBatch, LoggingIn, Begin, LoginSteps, SignLogin,
           PostLogin, StoreCreds, DropLogin
  <1>2. Quiet(p)
    <2>1. CASE Begin(p) \/ PostLogin(p) \/ StoreCreds(p)
      BY <1>1, <2>1 DEF Begin, PostLogin, StoreCreds, Quiet, stored, batches, outside, host, local
    <2>2. CASE SignLogin(p)
      BY <1>1, <2>2 DEF SignLogin, Leave, Quiet, batches, outside, local, TypeInv, CallsOK
    <2>3. CASE DropLogin(p)
      BY <1>1, <2>3 DEF DropLogin, Leave, Quiet, batches, outside, host, TypeInv, CallsOK
    <2> QED BY <2>1, <2>2, <2>3 DEF LoginSteps
  <1>3. pc'[p] \in LoggingIn \cup {"idle"}
    BY DEF LoggingIn, Begin, LoginSteps, SignLogin, PostLogin, StoreCreds, DropLogin, Leave,
           Goto, TypeInv, CallsOK
  <1>4. approval' \in {None, Login}
    BY <1>1, <1>2 DEF Quiet
  <1>5. OfBatch(aid[p])' => HoldsBatch(p)'
    BY <1>3, <1>4 DEF HoldsBatch, LoggingIn, BatSteps, Retiring
  <1> QED BY <1>2, <1>5, QuietStep

LEMMA LightCall ==
  ASSUME TypeInv, TypeInv', BatchInv, NEW p \in Procs,
         \/ Continue(p) \/ RetireLogin(p) \/ ReadIds(p) \/ CheckDeployed(p) \/ NoteDeploy(p)
         \/ PollDeploy(p) \/ CheckFunded(p) \/ Recheck(p) \/ Sync(p) \/ FailureRead(p)
         \/ StatusPut(p) \/ StatusRead(p) \/ Err(p) \/ Misread(p) \/ Kill(p)
  PROVE  BatchAt(p)'
  <1>1. CASE Continue(p) \/ CheckDeployed(p) \/ NoteDeploy(p) \/ PollDeploy(p) \/ Recheck(p)
               \/ Err(p)
    <2>1. Quiet(p)
      BY <1>1 DEF Continue, CheckDeployed, NoteDeploy, PollDeploy, Recheck, Err, Quiet,
                  stored, batches, outside, host, local
    <2>2. pc'[p] \in LightSteps
      BY <1>1 DEF Continue, CheckDeployed, NoteDeploy, PollDeploy, Recheck, Err, Goto,
                  LightSteps, TypeInv, CallsOK
    <2> QED BY <2>1, <2>2, LightStep
  <1>2. CASE RetireLogin(p) \/ CheckFunded(p)
    <2>1. Quiet(p)
      BY <1>2 DEF RetireLogin, LegacyLeaves, CheckFunded, Leave, Quiet, batches, outside, host,
                  local, TypeInv, CallsOK
    <2>2. pc'[p] \in LightSteps \cup {"approved"}
      BY <1>2 DEF RetireLogin, LegacyLeaves, CheckFunded, Leave, Goto, LightSteps, TypeInv, CallsOK
    <2> QED BY <2>1, <2>2, LightStep DEF LightSteps
  <1>3. CASE ReadIds(p) \/ FailureRead(p) \/ StatusRead(p) \/ Misread(p)
    <2>1. aid'[p] \in {0, IdsOf(status).approve}
      BY <1>3 DEF ReadIds, FailureRead, StatusRead, Misread, MisreadIds, MisreadFailure, IdsOf,
                  TypeInv, CallsOK
    <2>2. Quiet(p)
      BY <1>3, <2>1 DEF ReadIds, FailureRead, StatusRead, Misread, MisreadIds,
                        MisreadFailure, Quiet, stored, batches, outside, host
    <2>3. pc'[p] \in LightSteps
      BY <1>3 DEF ReadIds, FailureRead, StatusRead, Misread, MisreadIds, MisreadFailure,
                  Goto, LightSteps, TypeInv, CallsOK
    <2> QED BY <2>2, <2>3, LightStep
  <1>4. CASE Sync(p) \/ StatusPut(p) \/ Kill(p)
    <2>1. aid'[p] = 0 /\ pc'[p] = "idle"
      BY <1>4 DEF Sync, StatusPut, Kill, Leave, Goto, TypeInv, CallsOK
    <2>2. chain'.approved = chain.approved
      BY <1>4 DEF Sync, StatusPut, Kill, outside, TypeInv, WorldOK
    <2>3. Quiet(p)
      BY <1>4, <2>1, <2>2 DEF Sync, StatusPut, Kill, Quiet, stored, batches, outside, host
    <2> QED BY <2>1, <2>3, LightStep DEF LightSteps
  <1> QED BY <1>1, <1>2, <1>3, <1>4

(* Checks and notes: a confirmed batch leaves nothing pending.             *)
LEMMA CheckBatch ==
  ASSUME TypeInv, TypeInv', BatchInv, NEW p \in Procs,
         \/ CheckApproved(p) \/ CheckPrevious(p) \/ NoteBatch(p) \/ PollBatch(p)
         \/ RetireSig(p) \/ RetireApproval(p) \/ StoreReview(p)
  PROVE  BatchAt(p)'
  <1>1. HoldsBatch(p) /\ pc[p] \in Steps /\ aid[p] \in Nat
    BY DEF BatchInv, TypeInv, CallsOK, MaybeTx
  <1>2. CASE CheckApproved(p)
    <2>1. Quiet(p)
      BY <1>2 DEF CheckApproved, Quiet, stored, outside, host, local
    <2>2. /\ pc'[p] = IF chain.approved THEN "sync"
                      ELSE IF aid[p] # 0 THEN "previous" ELSE "nonce"
          /\ chain' = chain /\ aid' = aid
      BY <1>2 DEF CheckApproved, Goto, outside, local, TypeInv, CallsOK
    <2>3. CASE chain.approved
      BY <2>1, <2>2, <2>3, LightStep DEF LightSteps
    <2>4. CASE ~chain.approved
      <3>1. OfBatch(aid[p])' => HoldsBatch(p)'
        BY <2>2, <2>4 DEF HoldsBatch, LoggingIn, BatSteps, Retiring
      <3> QED BY <2>1, <3>1, QuietStep
    <2> QED BY <2>3, <2>4
  <1>3. CASE CheckPrevious(p)
    <2>1. /\ Quiet(p) /\ pc[p] = "previous" /\ UNCHANGED <<tx, chain>>
          /\ pc'[p] = IF Retirable(aid[p]) THEN "retire_batch" ELSE "poll"
          /\ aid'[p] = IF Retirable(aid[p]) THEN 0 ELSE aid[p]
      BY <1>3 DEF CheckPrevious, Goto, Quiet, stored, outside, host, TypeInv, CallsOK
    <2>2. aid[p] # 0 /\ aid[p] \in 1..Len(tx) /\ tx[aid[p]].batch # None
      BY <1>1, <2>1 DEF HoldsBatch, OfBatch
    <2>3. CASE Retirable(aid[p])
      <3>1. chain.approved
        BY <2>2, <2>3 DEF Retirable, BatchInv, Recorded, TrueTx
      <3>2. NonePending'
        BY <1>1, <2>1, <3>1, QuietPending DEF HoldsBatch
      <3>3. OfBatch(aid[p])' => HoldsBatch(p)'
        BY <2>1, <2>3, <3>1, <3>2 DEF HoldsBatch, LoggingIn, BatSteps, Retiring
      <3> QED BY <2>1, <3>3, QuietStep
    <2>4. CASE ~Retirable(aid[p])
      <3>1. tx'[aid'[p]].state # "confirmed"
        BY <2>1, <2>4 DEF Retirable
      <3>2. OfBatch(aid[p])' => HoldsBatch(p)'
        BY <2>1, <2>2, <2>4, <3>1 DEF HoldsBatch, LoggingIn, BatSteps, Retiring
      <3> QED BY <2>1, <3>2, QuietStep
    <2> QED BY <2>3, <2>4
  <1>4. CASE NoteBatch(p)
    <2>1. /\ Quiet(p) /\ pc[p] = "note" /\ pc'[p] = "poll" /\ UNCHANGED <<tx, aid>>
      BY <1>4 DEF NoteBatch, Goto, Quiet, batches, outside, host, local, TypeInv, CallsOK
    <2>2. OfBatch(aid[p])' => HoldsBatch(p)'
      BY <1>1, <2>1, QuietPending DEF HoldsBatch, LoggingIn, BatSteps, Retiring
    <2> QED BY <2>1, <2>2, QuietStep
  <1>5. CASE PollBatch(p)
    <2>1. /\ Quiet(p) /\ pc[p] = "poll" /\ UNCHANGED <<tx, aid>>
          /\ pc'[p] = IF tx[aid[p]].state = "confirmed" THEN "clear" ELSE "fail"
      BY <1>5 DEF PollBatch, Goto, Quiet, batches, outside, host, local, TypeInv, CallsOK
    <2>2. OfBatch(aid[p])' => HoldsBatch(p)'
      BY <1>1, <2>1, QuietPending DEF HoldsBatch, LoggingIn, BatSteps, Retiring
    <2> QED BY <2>1, <2>2, QuietStep
  <1>6. CASE RetireSig(p)
    <2>1. /\ Quiet(p) /\ pc[p] = "retire_sig" /\ pc'[p] = "retire_approval" /\ chain' = chain
      BY <1>6 DEF RetireSig, Goto, Quiet, batches, outside, host, local, TypeInv, CallsOK
    <2>2. OfBatch(aid[p])' => HoldsBatch(p)'
      BY <1>1, <2>1, QuietPending DEF HoldsBatch, LoggingIn, BatSteps, Retiring
    <2> QED BY <2>1, <2>2, QuietStep
  <1>7. CASE RetireApproval(p)
    <2>1. /\ Quiet(p) /\ pc[p] = "retire_approval" /\ pc'[p] = "nonce" /\ chain' = chain
      BY <1>7 DEF RetireApproval, Goto, Quiet, batches, outside, host, local, TypeInv, CallsOK
    <2>2. OfBatch(aid[p])' => HoldsBatch(p)'
      BY <1>1, <2>1, QuietPending DEF HoldsBatch, LoggingIn, BatSteps, Retiring
    <2> QED BY <2>1, <2>2, QuietStep
  <1>8. CASE StoreReview(p)
    <2>1. /\ Quiet(p) /\ pc[p] = "review" /\ pc'[p] = "prepare" /\ UNCHANGED <<bat, nonce>>
      BY <1>8 DEF StoreReview, Goto, Quiet, outside, host, local, TypeInv, CallsOK
    <2>2. OfBatch(aid[p])' => HoldsBatch(p)'
      BY <1>1, <2>1, QuietPending DEF HoldsBatch, LoggingIn, BatSteps, Retiring
    <2> QED BY <2>1, <2>2, QuietStep
  <1> QED BY <1>2, <1>3, <1>4, <1>5, <1>6, <1>7, <1>8

(* The prepared batch changes hands only while none is pending.            *)
LEMMA ChangeStep ==
  ASSUME TypeInv, TypeInv', BatchInv, NEW p \in Procs, NonePending,
         UNCHANGED <<creds, status, tx, chain, nonce, now, signed, aid>>,
         approval' \in {approval, None}, sig' \in {sig, None},
         prepared' # None => prepared'.nonce <= nonce,
         NonePending' => HoldsBatch(p)'
  PROVE  BatchAt(p)'
  <1>1. NonePending'
    <2>1. now <= now' /\ signed \subseteq signed'
      BY DEF TypeInv, WorldOK
    <2>2. approval' = approval \/ approval' \notin Batch
      BY NotBatches
    <2> QED BY <2>1, <2>2, PendingFalls
  <1>2. PreparedOnly'
    BY <1>1 DEF NonePending, PreparedOnly
  <1>3. Recorded'
    <2>1. \A k \in 1..Len(tx') : TrueTx(k)'
      BY DEF BatchInv, Recorded, TrueTx
    <2>2. OfBatch(IdsOf(status).approve)'
      BY DEF BatchInv, Recorded, OfBatch, IdsOf
    <2> QED BY <2>1, <2>2 DEF BatchInv, Recorded
  <1> QED BY <1>1, <1>2, <1>3 DEF BatchAt

LEMMA SameIds ==
  ASSUME BatchInv, NEW p \in Procs, UNCHANGED <<tx, aid>>
  PROVE  OfBatch(aid[p])'
  BY DEF BatchInv, HoldsBatch, OfBatch

LEMMA ChangeBatch ==
  ASSUME TypeInv, TypeInv', BatchInv, NEW p \in Procs,
         \/ RetireBatch(p) \/ PrepareBatch(p) \/ StorePrepared(p) \/ CheckExpiry(p)
         \/ ClearBatch(p)
  PROVE  BatchAt(p)'
  <1>1. HoldsBatch(p) /\ pc[p] \in Steps /\ nonce \in Nat
    BY DEF BatchInv, TypeInv, CallsOK, WorldOK
  <1>2. /\ UNCHANGED <<creds, status, tx, chain, nonce, now, signed, aid>>
        /\ approval' \in {approval, None}
    BY DEF RetireBatch, PrepareBatch, StorePrepared, CheckExpiry, ClearBatch, outside, host, local
  <1>3. OfBatch(aid[p])'
    BY <1>2, SameIds
  <1>4. CASE RetireBatch(p)
    <2>1. /\ pc[p] = "retire_batch" /\ pc'[p] = "retire_sig" /\ prepared' = None /\ sig' = sig
      BY <1>4 DEF RetireBatch, Goto, TypeInv, CallsOK
    <2>2. NonePending /\ (NonePending' => HoldsBatch(p)')
      BY <1>1, <1>2, <1>3, <2>1 DEF HoldsBatch, LoggingIn, BatSteps, Retiring
    <2> QED BY <1>2, <2>1, <2>2, ChangeStep
  <1>5. CASE ClearBatch(p)
    <2>1. /\ pc[p] = "clear" /\ pc'[p] = "recheck"
          /\ prepared' \in {None, prepared} /\ sig' \in {None, sig}
      BY <1>5 DEF ClearBatch, Goto, TypeInv, CallsOK
    <2>2. NonePending /\ (NonePending' => HoldsBatch(p)')
      BY <1>1, <1>2, <1>3, <2>1 DEF HoldsBatch, LoggingIn, BatSteps, Retiring
    <2>3. prepared' # None => prepared'.nonce <= nonce
      BY <2>1 DEF BatchInv, Recorded
    <2> QED BY <1>2, <2>1, <2>2, <2>3, ChangeStep
  <1>6. CASE StorePrepared(p)
    <2>1. /\ pc[p] = "prepare" /\ pc'[p] \in {"expiry", "fail"}
          /\ prepared' = bat[p] /\ sig' = sig /\ bat' = bat
      BY <1>6 DEF StorePrepared, Goto, local, TypeInv, CallsOK
    <2>2. bat[p].nonce <= nonce /\ NonePending
      BY <1>1, <2>1 DEF HoldsBatch, BatSteps
    <2>3. NonePending' => HoldsBatch(p)'
      BY <1>1, <1>2, <1>3, <2>1, <2>2 DEF HoldsBatch, LoggingIn, BatSteps, Retiring
    <2> QED BY <1>2, <2>1, <2>2, <2>3, ChangeStep
  <1>7. CASE CheckExpiry(p)
    <2>1. pc[p] = "expiry" /\ bat' = bat /\ bat[p] = prepared /\ bat[p].nonce <= nonce
      BY <1>1, <1>7 DEF CheckExpiry, HoldsBatch, BatSteps, local
    <2>2. CASE Expired(bat[p])
      <3>1. /\ pc'[p] = "fail" /\ prepared' \in {None, prepared} /\ sig' \in {None, sig}
        BY <1>7, <2>2 DEF CheckExpiry, Goto, TypeInv, CallsOK
      <3>2. NonePending
        BY <2>1, <2>2, ExpiredNonePending DEF BatchInv
      <3>3. HoldsBatch(p)'
        BY <1>3, <3>1 DEF HoldsBatch, LoggingIn, BatSteps, Retiring
      <3>4. prepared' # None => prepared'.nonce <= nonce
        BY <3>1 DEF BatchInv, Recorded
      <3> QED BY <1>2, <3>1, <3>2, <3>3, <3>4, ChangeStep
    <2>3. CASE ~Expired(bat[p])
      <3>1. /\ pc'[p] = "sign" /\ UNCHANGED <<prepared, sig>>
        BY <1>7, <2>3 DEF CheckExpiry, Goto, TypeInv, CallsOK
      <3>2. Quiet(p)
        BY <1>2, <3>1 DEF Quiet
      <3>3. HoldsBatch(p)'
        BY <1>2, <1>3, <2>1, <3>1 DEF HoldsBatch, LoggingIn, BatSteps, Retiring
      <3> QED BY <3>2, <3>3, QuietStep
    <2> QED BY <2>2, <2>3
  <1>8. CASE PrepareBatch(p)
    <2>1. CASE KeepsPrepared(prepared)
      <3>1. /\ UNCHANGED batches /\ bat'[p] = prepared /\ pc'[p] \in {"expiry", "fail"}
        BY <1>8, <2>1 DEF PrepareBatch, Goto, TypeInv, CallsOK
      <3>2. Quiet(p)
        BY <1>2, <3>1 DEF Quiet, batches
      <3>3. prepared.nonce <= nonce
        BY <2>1 DEF KeepsPrepared, BatchInv, Recorded
      <3>4. HoldsBatch(p)'
        BY <1>2, <1>3, <3>1, <3>3 DEF HoldsBatch, LoggingIn, BatSteps, Retiring, batches
      <3> QED BY <3>2, <3>4, QuietStep
    <2>2. CASE ~KeepsPrepared(prepared)
      <3>1. /\ bat' = [bat EXCEPT ![p] = [nonce |-> nonce, deadline |-> Deadline]]
            /\ pc'[p] = "review" /\ prepared' \in {None, prepared} /\ sig' \in {None, sig}
        BY <1>8, <2>2 DEF PrepareBatch, Goto, TypeInv, CallsOK
      <3>2. bat'[p].nonce = nonce
        BY <3>1 DEF TypeInv, CallsOK
      <3>3. NonePending
        BY <2>2, ExpiredNonePending DEF KeepsPrepared, BatchInv
      <3>4. prepared' # None => prepared'.nonce <= nonce
        BY <3>1 DEF BatchInv, Recorded
      <3>5. NonePending' => HoldsBatch(p)'
        BY <1>1, <1>2, <1>3, <3>1, <3>2 DEF HoldsBatch, LoggingIn, BatSteps, Retiring
      <3> QED BY <1>2, <3>1, <3>3, <3>4, <3>5, ChangeStep
    <2> QED BY <2>1, <2>2
  <1> QED BY <1>4, <1>5, <1>6, <1>7, <1>8

LEMMA CredsStep == TypeInv /\ CredsFirst /\ [Next]_vars => CredsFirst'
  <1> SUFFICES ASSUME TypeInv, CredsFirst, [Next]_vars PROVE CredsFirst'
    OBVIOUS
  <1>1. ASSUME NEW p \in Procs, NEW s \in Steps, Goto(p, s), creds => creds',
               \/ s \in LoggingIn \cup {"idle", "fail", "put"}
               \/ creds'
        PROVE  CredsFirst'
    BY <1>1 DEF CredsFirst, InStages, LoggingIn, Goto, TypeInv, CallsOK
  <1>2. ASSUME NEW p \in Procs, Stages(p) PROVE CredsFirst'
    <2>1. creds' = creds
      BY <1>2 DEF Stages, RetireLogin, ReadIds, CheckDeployed, SubmitDeploy, NoteDeploy,
                  PollDeploy, CheckFunded, CheckApproved, CheckPrevious, RetireBatch,
                  RetireSig, RetireApproval, PrepareBatch, StoreReview, StorePrepared,
                  CheckExpiry, Signing, ReadSignature, ReadHint, SignBatch, DropHint,
                  StoreSignature, StoreHint, RetireHint, SubmitBatch, NoteBatch, PollBatch,
                  ClearBatch, Recheck, Sync, FailureRead, StatusPut, stored
    <2>2. CASE FailureRead(p) \/ StatusPut(p)
      BY <1>1, <2>1, <2>2 DEF FailureRead, StatusPut, Leave, Steps
    <2>3. CASE ~FailureRead(p) /\ ~StatusPut(p)
      <3>1. InStages(p) \/ pc[p] = "stale"
        BY <1>2, <2>3
           DEF Stages, RetireLogin, ReadIds, CheckDeployed, SubmitDeploy, NoteDeploy,
               PollDeploy, CheckFunded, CheckApproved, CheckPrevious, RetireBatch,
               RetireSig, RetireApproval, PrepareBatch, StoreReview, StorePrepared,
               CheckExpiry, Signing, ReadSignature, ReadHint, SignBatch, DropHint,
               StoreSignature, StoreHint, RetireHint, SubmitBatch, NoteBatch, PollBatch,
               ClearBatch, Recheck, Sync, InStages
      <3>2. creds'
        BY <2>1, <3>1 DEF CredsFirst
      <3>3. \A q \in Procs \ {p} : pc'[q] = pc[q]
        BY <1>2, <2>3
           DEF Stages, RetireLogin, ReadIds, CheckDeployed, SubmitDeploy, NoteDeploy,
               PollDeploy, CheckFunded, CheckApproved, CheckPrevious, RetireBatch,
               RetireSig, RetireApproval, PrepareBatch, StoreReview, StorePrepared,
               CheckExpiry, Signing, ReadSignature, ReadHint, SignBatch, DropHint,
               StoreSignature, StoreHint, RetireHint, SubmitBatch, NoteBatch, PollBatch,
               ClearBatch, Recheck, Sync, Leave, LegacyLeaves, Goto, TypeInv, CallsOK
      <3> QED BY <3>2 DEF CredsFirst
    <2> QED BY <2>2, <2>3
  <1>3. ASSUME NEW p \in Procs,
               Begin(p) \/ Continue(p) \/ LoginSteps(p) \/ StatusRead(p) \/ Err(p) \/ Misread(p) \/ Kill(p)
        PROVE  CredsFirst'
    <2>1. creds => creds'
      BY <1>3 DEF Begin, Continue, LoginSteps, SignLogin, PostLogin, StoreCreds, DropLogin,
                  StatusRead, Err, Misread, MisreadIds, MisreadFailure, Kill, stored
    <2>2. CASE Continue(p)
      BY <1>1, <2>1, <2>2 DEF Continue, Steps
    <2>3. CASE ~Continue(p)
      <3>1. PICK s \in LoggingIn \cup {"idle", "fail", "put", "deployed"} :
              Goto(p, s) /\ (s = "deployed" => pc[p] = "ids")
        BY <1>3, <2>3 DEF Begin, LoginSteps, SignLogin, PostLogin, StoreCreds, DropLogin,
                          StatusRead, Err, Misread, MisreadIds, MisreadFailure, Kill,
                          Leave, LoggingIn
      <3>2. s = "deployed" => creds'
        BY <2>1, <3>1 DEF CredsFirst, InStages
      <3> QED BY <1>1, <2>1, <3>1, <3>2 DEF Steps, LoggingIn
    <2> QED BY <2>2, <2>3
  <1>4. CASE Outside
    BY <1>4 DEF CredsFirst, InStages, Outside, Confirm, Fails, Grant, Fund, Revoke, Tick, stored
  <1>5. CASE UNCHANGED vars
    BY <1>5 DEF CredsFirst, InStages, vars, stored
  <1> QED BY <1>2, <1>3, <1>4, <1>5 DEF Next, Outside

(* The approval asked for, and the signature made, are of the prepared     *)
(* batch.                                                                  *)
LEMMA SignStep ==
  ASSUME TypeInv, TypeInv', BatchInv, CredsFirst, NEW p \in Procs, Signing(p)
  PROVE  BatchAt(p)'
  <1>1. /\ pc[p] \in SignSteps /\ bat[p] = prepared /\ bat[p].nonce <= nonce
        /\ UNCHANGED <<creds, status, prepared, tx, chain, nonce, now, did, aid, bat>>
    BY SigningMoves DEF BatchInv, HoldsBatch, BatSteps, outside, local
  <1>2. /\ signed \subseteq signed' /\ pc'[p] \in SignSteps \cup {"submit", "fail"}
        /\ pc'[p] \in {"drop_hint", "store_sig", "submit"} => bat[p] \in signed'
        /\ approval' \in {approval, None, bat[p]}
        /\ sig' \in {sig, None, bat[p]} /\ (sig' = bat[p] => sig' = sig \/ sig' \in signed')
    <2>1. /\ sig # None => sig \in signed
          /\ pc[p] \in {"drop_hint", "store_sig"} => bat[p] \in signed
      BY DEF BatchInv, Recorded, HoldsBatch
    <2>2. bat[p] # None
      BY <1>1 DEF TypeInv, CallsOK, BatSteps
    <2>3. /\ signed \subseteq signed' /\ pc'[p] \in SignSteps \cup {"submit", "fail"}
          /\ approval' \in {approval, None, bat[p]} /\ sig' \in {sig, None, bat[p]}
      BY SigningMoves DEF Goto, TypeInv, CallsOK
    <2>4. ASSUME pc'[p] \in {"drop_hint", "store_sig", "submit"} PROVE bat[p] \in signed'
      <3>1. \/ ReadSignature(p) /\ sig = bat[p]
            \/ bat[p] \in signed'
            \/ DropHint(p) \/ StoreSignature(p)
        BY <2>4 DEF Signing, ReadSignature, ReadHint, SignBatch, StoreHint, RetireHint, Goto,
                    TypeInv, CallsOK
      <3> QED BY <2>1, <2>2, <2>3, <3>1 DEF DropHint, StoreSignature
    <2>5. ASSUME sig' = bat[p] PROVE sig' = sig \/ sig' \in signed'
      <3>1. sig' = sig \/ StoreSignature(p)
        BY <2>2, <2>5 DEF Signing, ReadSignature, ReadHint, SignBatch, DropHint, StoreHint,
                          RetireHint, stored, batches
      <3> QED BY <2>1, <2>3, <2>5, <3>1 DEF StoreSignature
    <2> QED BY <2>3, <2>4, <2>5
  <1>3. ASSUME NEW b \in Batch, Pending(b)' PROVE b = prepared'
    <2>1. CASE b = bat[p]
      BY <1>1, <2>1
    <2>2. CASE b # bat[p]
      <3>1. Pending(b)
        <4>1. CASE Asked(b)'
          BY <1>1, <1>2, <1>3, <2>2, <4>1, NotBatches DEF Asked, Pending, Expired
        <4>2. ASSUME NEW k \in 1..Len(tx'), Executable(k)', tx'[k].batch = b PROVE Pending(b)
          BY <1>1, <4>2 DEF Executable, CanSucceed, Expired, Pending
        <4> QED BY <1>3, <4>1, <4>2 DEF Pending
      <3> QED BY <1>1, <3>1 DEF BatchInv, PreparedOnly
    <2> QED BY <2>1, <2>2
  <1>4. Recorded'
    <2>1. \A k \in 1..Len(tx') : TrueTx(k)'
      BY <1>1, <1>2 DEF BatchInv, Recorded, TrueTx
    <2>2. OfBatch(IdsOf(status).approve)'
      BY <1>1 DEF BatchInv, Recorded, OfBatch, IdsOf
    <2>3. sig' # None => sig' \in signed'
      BY <1>2 DEF BatchInv, Recorded
    <2>4. ~creds' => approval' \in {None, Login}
      BY <1>1 DEF CredsFirst, InStages
    <2> QED BY <1>1, <2>1, <2>2, <2>3, <2>4 DEF BatchInv, Recorded
  <1>5. HoldsBatch(p)'
    BY <1>1, <1>2, SameIds DEF HoldsBatch, LoggingIn, BatSteps, Retiring
  <1>6. PreparedOnly'
    BY <1>3 DEF PreparedOnly
  <1> QED BY <1>4, <1>5, <1>6 DEF BatchAt

(* Only the prepared batch is submitted.                                   *)
LEMMA SubmitStep ==
  ASSUME TypeInv, TypeInv', BatchInv, NEW p \in Procs, SubmitDeploy(p) \/ SubmitBatch(p)
  PROVE  BatchAt(p)'
  <1>1. PICK b \in MaybeBatch :
          /\ tx' = Append(tx, [batch |-> b, state |-> "new"])
          /\ b = None \/ (b = prepared /\ b \in signed /\ b.nonce <= nonce)
    BY DEF SubmitDeploy, SubmitBatch, TypeInv, CallsOK, BatchInv, HoldsBatch, BatSteps, MaybeBatch
  <1>2. Len(tx) < MaxTx /\ UNCHANGED <<stored, chain, nonce, now, host>>
    BY DEF SubmitDeploy, SubmitBatch
  <1> DEFINE n == Len(tx) + 1
  <1>3. /\ Len(tx) \in Nat /\ Len(tx') = n
        /\ tx'[n].batch = b /\ tx'[n].state = "new"
        /\ \A k \in 1..Len(tx) : tx'[k] = tx[k]
        /\ \A k \in 1..Len(tx') : k \in 1..Len(tx) \/ k = n
    BY <1>1, <1>2, TxSubmitted, TxCount DEF TypeInv
  <1>4. UNCHANGED <<creds, approval, status, prepared, sig, signed>>
    BY <1>2 DEF stored, host
  <1> HIDE DEF n
  <1>5. ASSUME NEW c \in Batch, Pending(c)' PROVE c = prepared'
    <2>1. CASE Asked(c)'
      BY <1>2, <1>4, <2>1 DEF Asked, Pending, Expired, BatchInv, PreparedOnly
    <2>2. ASSUME NEW k \in 1..Len(tx'), Executable(k)', tx'[k].batch = c PROVE c = prepared'
      <3>1. CASE k = n
        BY <1>1, <1>3, <1>4, <2>2, <3>1, NotBatches
      <3>2. CASE k \in 1..Len(tx)
        <4>1. Executable(k)
          BY <1>2, <1>3, <2>2, <3>2 DEF Executable, CanSucceed, Expired
        <4> QED BY <1>3, <1>4, <2>2, <3>2, <4>1 DEF Pending, BatchInv, PreparedOnly
      <3> QED BY <1>3, <3>1, <3>2
    <2> QED BY <1>5, <2>1, <2>2 DEF Pending
  <1>6. /\ OfBatch(IdsOf(status).approve) /\ OfBatch(aid[p])
        /\ \A i : OfBatch(i) => i = 0 \/ (i \in 1..Len(tx') /\ tx'[i].batch # None)
    <2>1. \A i \in 1..Len(tx) : i \in 1..n
      BY <1>3 DEF n
    <2> QED BY <1>3, <2>1 DEF OfBatch, BatchInv, Recorded, HoldsBatch
  <1>7. Recorded'
    <2>1. \A k \in 1..Len(tx') : TrueTx(k)'
      BY <1>1, <1>2, <1>3, <1>4 DEF TrueTx, BatchInv, Recorded
    <2>2. OfBatch(IdsOf(status).approve)'
      BY <1>4, <1>6 DEF OfBatch, IdsOf
    <2> QED BY <1>2, <1>4, <2>1, <2>2 DEF BatchInv, Recorded
  <1>8. HoldsBatch(p)'
    <2>1. CASE SubmitDeploy(p)
      <3>1. pc'[p] = "dep_note" /\ aid' = aid
        BY <2>1 DEF SubmitDeploy, Goto, TypeInv, CallsOK
      <3>2. OfBatch(aid[p])'
        BY <1>6, <3>1 DEF OfBatch
      <3> QED BY <3>1, <3>2 DEF HoldsBatch, LoggingIn, BatSteps, Retiring
    <2>2. CASE SubmitBatch(p)
      <3>1. /\ pc[p] = "submit" /\ pc'[p] = "note" /\ aid'[p] = n
            /\ bat' = bat /\ tx' = Append(tx, [batch |-> bat[p], state |-> "new"])
        BY <2>2 DEF SubmitBatch, Goto, TypeInv, CallsOK, n
      <3>2. bat[p] \in MaybeBatch /\ bat[p] # None /\ bat[p].nonce <= nonce
        BY <3>1 DEF TypeInv, CallsOK, BatchInv, HoldsBatch, BatSteps
      <3>3. tx'[n].batch = bat[p]
        BY <1>2, <3>1, <3>2, TxSubmitted DEF TypeInv, n
      <3>4. OfBatch(aid[p])' /\ aid'[p] # 0
        BY <1>3, <3>1, <3>2, <3>3 DEF OfBatch, n
      <3> QED BY <1>2, <1>3, <3>1, <3>2, <3>4 DEF HoldsBatch, LoggingIn, BatSteps, Retiring
    <2> QED BY <2>1, <2>2
  <1>9. PreparedOnly'
    BY <1>5 DEF PreparedOnly
  <1> QED BY <1>7, <1>8, <1>9 DEF BatchAt

(* A batch that is confirmed was the only one pending: it raises the nonce *)
(* above those of all the others, and was signed.                          *)
LEMMA ConfirmedLeavesNone ==
  ASSUME TypeInv, TypeInv', BatchInv, NEW i \in 1..Len(tx), Confirm(i), tx[i].batch # None
  PROVE  NonePending'
  <1>1. tx[i].batch \in Batch /\ Executable(i)
    BY TxField DEF TypeInv, MaybeBatch, Confirm, Executable
  <1>2. PICK b \in Batch : b = tx[i].batch
    BY <1>1
  <1>3. b = prepared /\ b \in signed
    BY <1>1, <1>2, NotBatches DEF BatchInv, PreparedOnly, Pending, Recorded, TrueTx
  <1>4. /\ nonce' = nonce + 1 /\ nonce \in Nat
        /\ UNCHANGED <<approval, signed, now>>
    BY DEF Confirm, stored, host, TypeInv, WorldOK
  <1>5. Len(tx') = Len(tx) /\ \A k \in 1..Len(tx) : tx'[k].batch = tx[k].batch
    BY TxSettled DEF TypeInv, TxStates, Confirm
  <1>6. ASSUME NEW c \in Batch, Pending(c)' PROVE FALSE
    <2>1. CASE Asked(c)'
      <3>1. Pending(c)
        BY <1>4, <2>1 DEF Asked, Pending, Expired
      <3>2. c = b
        BY <1>3, <3>1 DEF BatchInv, PreparedOnly
      <3> QED BY <1>3, <1>4, <2>1, <3>2 DEF Asked
    <2>2. ASSUME NEW k \in 1..Len(tx'), Executable(k)' PROVE FALSE
      <3>1. k \in 1..Len(tx) /\ tx'[k].batch = tx[k].batch
        BY <1>5
      <3>2. tx'[k].batch # None /\ tx'[k].batch.nonce = nonce + 1
        BY <1>4, <2>2 DEF Executable, CanSucceed
      <3>3. tx[k].batch \in Batch /\ tx[k].batch.nonce <= nonce
        BY <3>1, <3>2, TxField DEF TypeInv, MaybeBatch, BatchInv, Recorded, TrueTx
      <3> QED BY <1>4, <3>1, <3>2, <3>3
    <2> QED BY <1>6, <2>1, <2>2 DEF Pending
  <1> QED BY <1>6 DEF NonePending

(* Whatever happens outside leaves the invocation's batch as it was.       *)
LEMMA OutsideHolds ==
  ASSUME TypeInv, TypeInv', BatchInv, NEW p \in Procs,
         UNCHANGED <<stored, pc, local>>, signed' = signed, nonce <= nonce', nonce' \in Nat,
         Len(tx') = Len(tx), \A k \in 1..Len(tx) : tx'[k].batch = tx[k].batch,
         chain.approved => chain'.approved,
         \/ NonePending'
         \/ /\ NonePending => NonePending'
            /\ chain'.approved = chain.approved
            /\ \A k \in 1..Len(tx) : tx[k].batch # None /\ tx'[k].state = "confirmed" => tx[k].state = "confirmed"
  PROVE  HoldsBatch(p)'
  <1>1. HoldsBatch(p) /\ nonce \in Nat
    BY DEF BatchInv, TypeInv, WorldOK
  <1>2. UNCHANGED <<approval, prepared, bat, aid>>
    BY DEF stored, local
  <1>3. OfBatch(aid[p])'
    BY <1>1, <1>2 DEF HoldsBatch, OfBatch
  <1>4. pc[p] \in BatSteps => bat'[p].nonce <= nonce'
    <2>1. ASSUME pc[p] \in BatSteps PROVE bat[p].nonce \in Nat /\ bat[p].nonce <= nonce
      BY <1>1, <2>1 DEF HoldsBatch, TypeInv, CallsOK, MaybeBatch, Batch
    <2> QED BY <1>1, <1>2, <2>1
  <1>5. pc[p] \in {"note", "poll"} /\ tx'[aid[p]].state = "confirmed" => NonePending'
    <2>1. ASSUME pc[p] \in {"note", "poll"} PROVE aid[p] \in 1..Len(tx) /\ tx[aid[p]].batch # None
      BY <1>1, <2>1 DEF HoldsBatch, OfBatch
    <2> QED BY <1>1, <2>1 DEF HoldsBatch
  <1> QED BY <1>1, <1>2, <1>3, <1>4, <1>5 DEF HoldsBatch

LEMMA OutsideBatch ==
  ASSUME TypeInv, TypeInv', BatchInv, Unrevoked, Outside
  PROVE  BatchInv'
  <1>1. UNCHANGED <<stored, pc, local, signed>>
    BY DEF Outside, Confirm, Fails, Grant, Fund, Revoke, Tick, host
  <1>2. /\ Len(tx') = Len(tx) /\ \A k \in 1..Len(tx) : tx'[k].batch = tx[k].batch
        /\ \A k \in 1..Len(tx) : tx'[k].state = "new" => tx[k].state = "new"
    <2>1. ASSUME NEW i \in 1..Len(tx), NEW state \in {"confirmed", "failed"},
                 tx' = [tx EXCEPT ![i].state = state]
          PROVE  /\ Len(tx') = Len(tx) /\ \A k \in 1..Len(tx) : tx'[k].batch = tx[k].batch
                 /\ \A k \in 1..Len(tx) : tx'[k].state = "new" => tx[k].state = "new"
      BY <2>1, TxSettled DEF TypeInv, TxStates
    <2>2. CASE UNCHANGED tx
      BY <2>2
    <2> QED BY <2>1, <2>2 DEF Outside, Confirm, Fails, Grant, Fund, Revoke, Tick, outside
  <1>3. /\ nonce <= nonce' /\ nonce \in Nat /\ nonce' \in Nat /\ now <= now'
        /\ chain.approved => chain'.approved
    BY DEF Outside, Unrevoked, Confirm, Fails, Grant, Fund, Tick, outside, TypeInv, WorldOK
  <1>4. UNCHANGED <<creds, approval, status, prepared, sig>>
    BY <1>1 DEF stored
  <1> DEFINE Same ==
        /\ \A b \in Batch : Pending(b)' => Pending(b)
        /\ NonePending => NonePending'
        /\ nonce' = nonce /\ chain'.approved = chain.approved
        /\ \A k \in 1..Len(tx) :
             tx[k].batch # None /\ tx'[k].state = "confirmed" => tx[k].state = "confirmed"
  <1>5. (NonePending' /\ chain'.approved) \/ Same
    <2>1. ASSUME NEW i \in 1..Len(tx), Confirm(i), tx[i].batch # None
          PROVE  NonePending' /\ chain'.approved
      BY <2>1, ConfirmedLeavesNone DEF Confirm, TypeInv, WorldOK
    <2>2. ASSUME nonce' = nonce, chain'.approved = chain.approved,
                 \A k \in 1..Len(tx) : tx[k].batch # None /\ tx'[k].state = "confirmed" => tx[k].state = "confirmed"
          PROVE  Same
      <3>1. \A k \in 1..Len(tx') : tx'[k].state = "new" =>
              k \in 1..Len(tx) /\ tx[k].state = "new" /\ tx'[k].batch = tx[k].batch
        BY <1>2
      <3> QED BY <1>1, <1>3, <1>4, <2>2, <3>1, PendingFalls
    <2>3. ASSUME NEW i \in 1..Len(tx), (Confirm(i) /\ tx[i].batch = None) \/ Fails(i) PROVE Same
      <3>1. nonce' = nonce /\ chain'.approved = chain.approved
        BY <2>3 DEF Confirm, Fails, TypeInv, WorldOK
      <3>2. \A k \in 1..Len(tx) : tx[k].batch # None /\ tx'[k].state = "confirmed" => tx[k].state = "confirmed"
        BY <2>3, TxSettled DEF Confirm, Fails, TypeInv, TxStates
      <3> QED BY <2>2, <3>1, <3>2
    <2>4. CASE (\E r \in asked : Grant(r)) \/ Fund \/ Tick
      <3>1. nonce' = nonce /\ chain'.approved = chain.approved /\ tx' = tx
        BY <2>4 DEF Grant, Fund, Tick, outside, TypeInv, WorldOK
      <3> QED BY <2>2, <3>1
    <2> QED BY <2>1, <2>3, <2>4 DEF Outside, Unrevoked
  <1>6. PreparedOnly'
    BY <1>4, <1>5 DEF PreparedOnly, NonePending, BatchInv
  <1>7. Recorded'
    <2>1. ASSUME NEW k \in 1..Len(tx') PROVE TrueTx(k)'
      <3>1. k \in 1..Len(tx) /\ tx'[k].batch = tx[k].batch /\ TrueTx(k)
        BY <1>2 DEF BatchInv, Recorded
      <3>2. tx[k].batch # None => tx[k].batch.nonce \in Nat
        BY <3>1, TxField DEF TypeInv, MaybeBatch, Batch
      <3> QED BY <1>1, <1>3, <1>5, <3>1, <3>2 DEF TrueTx
    <2>2. OfBatch(IdsOf(status).approve)'
      BY <1>2, <1>4 DEF BatchInv, Recorded, OfBatch, IdsOf
    <2>3. nonce' = 0 \/ chain'.approved
      BY <1>3, <1>5 DEF BatchInv, Recorded
    <2>4. prepared # None => prepared.nonce \in Nat
      BY DEF TypeInv, StoredOK, MaybeBatch, Batch
    <2> QED BY <1>1, <1>3, <1>4, <2>1, <2>2, <2>3, <2>4 DEF BatchInv, Recorded
  <1>8. ASSUME NEW p \in Procs PROVE HoldsBatch(p)'
    BY <1>1, <1>2, <1>3, <1>5, OutsideHolds
  <1> QED BY <1>6, <1>7, <1>8 DEF BatchInv

(* Beside a call there are only readers, which hold no batch; and a reader *)
(* leaves alone what the call holds.                                       *)
LEMMA OthersHold ==
  ASSUME TypeInv, BatchInv, NEW p \in Procs, Call(p), NEW q \in Procs \ {p},
         pc[p] \in Reading \/ pc[q] \in Reading
  PROVE  HoldsBatch(q)'
  <1>1. /\ pc'[q] = pc[q] /\ aid'[q] = aid[q] /\ bat'[q] = bat[q]
        /\ \A i \in 1..Len(tx) : i \in 1..Len(tx') /\ tx'[i] = tx[i]
    BY CallMoves
  <1>2. HoldsBatch(q)
    BY DEF BatchInv
  <1>3. OfBatch(aid[q])'
    BY <1>1, <1>2 DEF HoldsBatch, OfBatch
  <1>4. CASE pc[q] \in Reading
    BY <1>1, <1>3, <1>4 DEF HoldsBatch, Reading, LoggingIn, BatSteps, Retiring
  <1>5. CASE pc[p] \in Reading
    <2>1. UNCHANGED <<approval, prepared, tx, chain, nonce, now, signed>>
      BY <1>5, ReadingStarts DEF batches, outside, host
    <2>2. NonePending' <=> NonePending
      BY <2>1 DEF NonePending, Pending, Asked, Executable, CanSucceed, Expired
    <2> QED BY <1>1, <1>2, <1>3, <2>1, <2>2 DEF HoldsBatch
  <1> QED BY <1>4, <1>5

LEMMA BatchStep ==
  ASSUME TypeInv, TypeInv', CredsFirst, BatchInv, OneCalls,
         [Next /\ CallsFollow /\ Unrevoked]_vars
  PROVE  BatchInv'
  <1>1. ASSUME NEW p \in Procs, Call(p) PROVE BatchInv'
    <2>1. BatchAt(p)'
      BY <1>1, LoginBatch, LightCall, CheckBatch, ChangeBatch, SignStep, SubmitStep
         DEF Call, Stages
    <2>2. ASSUME NEW q \in Procs \ {p} PROVE HoldsBatch(q)'
      BY <1>1, OthersHold DEF OneCalls
    <2> QED BY <2>1, <2>2 DEF BatchAt, BatchInv
  <1>2. ASSUME UNCHANGED vars PROVE BatchInv'
    <2>1. UNCHANGED <<creds, approval, status, prepared, sig, tx, chain, nonce, now, signed,
                      pc, aid, bat>>
      BY <1>2 DEF vars, stored, outside, host, local
    <2>2. \A b : Pending(b)' <=> Pending(b)
      BY <2>1 DEF Pending, Asked, Executable, CanSucceed, Expired
    <2>3. NonePending' <=> NonePending
      BY <2>2 DEF NonePending
    <2>4. PreparedOnly'
      BY <2>1, <2>2 DEF PreparedOnly, BatchInv
    <2>5. Recorded'
      BY <2>1 DEF Recorded, BatchInv, TrueTx, OfBatch, IdsOf
    <2>6. \A p \in Procs : HoldsBatch(p)'
      BY <2>1, <2>3 DEF HoldsBatch, BatchInv, OfBatch
    <2> QED BY <2>4, <2>5, <2>6 DEF BatchInv
  <1> QED BY <1>1, <1>2, OutsideBatch DEF Next, Outside, Call

LEMMA InitBatch == Init => BatchInv /\ CredsFirst
  <1> SUFFICES ASSUME Init PROVE BatchInv /\ CredsFirst
    OBVIOUS
  <1>1. Len(tx) = 0
    BY EmptySeq DEF Init
  <1>2. PreparedOnly
    BY <1>1, NotBatches DEF Init, PreparedOnly, Pending, Asked
  <1>3. Recorded
    BY <1>1 DEF Init, Recorded, OfBatch, IdsOf
  <1>4. \A p \in Procs : HoldsBatch(p)
    BY DEF Init, HoldsBatch, OfBatch, LoggingIn, BatSteps, Retiring
  <1>5. CredsFirst
    BY DEF Init, CredsFirst, InStages
  <1> QED BY <1>2, <1>3, <1>4, <1>5 DEF BatchInv

LEMMA BatchAlways == UnrevokedSpec => [](TypeInv /\ CredsFirst /\ OneCalls /\ BatchInv)
  <1>1. Init => TypeInv /\ CredsFirst /\ OneCalls /\ BatchInv
    BY InitTypes, InitBatch, InitRuns
  <1>2. TypeInv /\ CredsFirst /\ OneCalls /\ BatchInv /\ [Next /\ CallsFollow /\ Unrevoked]_vars
          => (TypeInv /\ CredsFirst /\ OneCalls /\ BatchInv)'
    BY StepTypes, CredsStep, CallsStep, BatchStep
  <1> QED BY <1>1, <1>2, PTL DEF UnrevokedSpec

LEMMA PreparedIsRetried ==
  ASSUME TypeInv, BatchInv
  PROVE  SameBatchRetried
  <1> SUFFICES ASSUME NEW i \in 1..Len(tx), NEW j \in 1..Len(tx),
                      Executable(i), Executable(j)
               PROVE  tx[i].batch = tx[j].batch
    BY DEF SameBatchRetried, Executable
  <1>1. ASSUME NEW k \in 1..Len(tx), Executable(k) PROVE tx[k].batch = prepared
    <2>1. tx[k].batch \in Batch
      BY <1>1, TxField DEF TypeInv, MaybeBatch, Executable
    <2> QED BY <1>1, <2>1 DEF BatchInv, PreparedOnly, Pending
  <1> QED BY <1>1

(* Of the steps that touch the approval none takes one that still counts.  *)
LEMMA ApprovalStays ==
  ASSUME TypeInv, BatchInv, [Next]_vars
  PROVE  [KeepsApproval]_vars
  <1> SUFFICES ASSUME Next,
                      approval \in Batch, ~Expired(approval), approval \notin signed', ~Refused
               PROVE  approval' = approval
    BY DEF KeepsApproval
  <1>1. CASE Outside
    BY <1>1 DEF Outside, Confirm, Fails, Grant, Fund, Revoke, Tick, stored
  <1>2. ASSUME NEW p \in Procs,
               Begin(p) \/ Continue(p) \/ LoginSteps(p) \/ Stages(p)
                 \/ StatusRead(p) \/ Err(p) \/ Misread(p) \/ Kill(p)
        PROVE  approval' = approval
    <2>1. approval \notin {None, Login}
      BY NotBatches
    <2>2. CASE LoginSteps(p)
      <3>1. pc[p] \in LoggingIn
        BY <2>2 DEF LoginSteps, SignLogin, PostLogin, StoreCreds, DropLogin, LoggingIn
      <3> QED BY <2>1, <3>1 DEF BatchInv, HoldsBatch
    <2>3. CASE RetireLogin(p)
      BY <2>1, <2>3 DEF RetireLogin, StaleApproval
    <2>4. signed \subseteq signed'
      BY <1>2 DEF Begin, Continue, LoginSteps, SignLogin, PostLogin, StoreCreds, DropLogin,
                  Stages, RetireLogin, ReadIds, CheckDeployed, SubmitDeploy, NoteDeploy,
                  PollDeploy, CheckFunded, CheckApproved, CheckPrevious, RetireBatch,
                  RetireSig, RetireApproval, PrepareBatch, StoreReview, StorePrepared,
                  CheckExpiry, Signing, ReadSignature, ReadHint, SignBatch, DropHint,
                  StoreSignature, StoreHint, RetireHint, SubmitBatch, NoteBatch, PollBatch,
                  ClearBatch, Recheck, Sync, FailureRead, StatusPut, StatusRead, Err,
                  Misread, MisreadIds, MisreadFailure, Kill, host
    <2>5. Pending(approval) /\ approval = prepared
      BY <2>4 DEF Asked, Pending, BatchInv, PreparedOnly
    <2>6. CASE RetireApproval(p) \/ ClearBatch(p)
      <3>1. NonePending
        BY <2>6 DEF RetireApproval, ClearBatch, BatchInv, HoldsBatch, Retiring
      <3> QED BY <2>5, <3>1 DEF NonePending
    <2>7. CASE Signing(p)
      <3>1. bat[p] = approval
        BY <2>5, <2>7, SigningMoves DEF BatchInv, HoldsBatch
      <3>2. ~DropHint(p)
        BY <2>4, <3>1 DEF DropHint, BatchInv, HoldsBatch
      <3> QED BY <2>7, <3>1, <3>2
              DEF Signing, ReadSignature, ReadHint, SignBatch, StoreSignature, StoreHint,
                  Refused, stored
    <2>8. CASE ~(LoginSteps(p) \/ RetireLogin(p) \/ RetireApproval(p) \/ ClearBatch(p)
                   \/ Signing(p))
      BY <1>2, <2>8
         DEF Begin, Continue, Stages, ReadIds, CheckDeployed, SubmitDeploy, NoteDeploy,
             PollDeploy, CheckFunded, CheckApproved, CheckPrevious, RetireBatch, RetireSig,
             PrepareBatch, StoreReview, StorePrepared, CheckExpiry, SubmitBatch, NoteBatch,
             PollBatch, Recheck, Sync, FailureRead, StatusPut, StatusRead, Err, Misread,
             MisreadIds, MisreadFailure, Kill, stored
    <2> QED BY <2>2, <2>3, <2>6, <2>7, <2>8
  <1> QED BY <1>1, <1>2 DEF Next, Outside

(* prepare_relayer_batch and relayer_submit_configured: whatever answers   *)
(* are lost and wherever continue_onboarding is killed, of the batches the *)
(* relayer may still execute there is only one.  This is for one begin or  *)
(* continue at a time, beside any number of readers that write old ids     *)
(* back to status.json, and an owner who does not revoke the approvals:    *)
(* after a revoke, status.json names a batch that was confirmed, and every *)
(* continue prepares another one.                                          *)
THEOREM OnboardingRetriesSameBatch == UnrevokedSpec => []SameBatchRetried
  <1>1. TypeInv /\ BatchInv => SameBatchRetried
    BY PreparedIsRetried
  <1> QED BY <1>1, BatchAlways, PTL

(* "An exact deposit-wallet approval must survive retries of this          *)
(* continuation": the approval that continue_onboarding asked for stays in *)
(* approval.json until it signed, its batch expired or the host refused it *)
(* (Refused), under the same hypotheses.                                   *)
THEOREM OnboardingKeepsApproval == UnrevokedSpec => ApprovalSurvives
  <1>1. TypeInv /\ BatchInv /\ [Next /\ CallsFollow /\ Unrevoked]_vars => [KeepsApproval]_vars
    BY ApprovalStays
  <1> QED BY <1>1, BatchAlways, PTL DEF UnrevokedSpec, ApprovalSurvives

--------------------------------------------------------------------------------
(* The CLOB login that Onboarding takes as one step, in constants and      *)
(* variables of its own.                                                   *)
Action == [kind : {"eligibility", "grant"}, ttl : 1..Ttl,
           state : {"pending", "approved", "rejected", "spent"}]
Request == [binding : {"clob_auth"}, sent : BOOLEAN]
Hint == [binding : ClobLogin!Bindings, ttl : 0..Ttl]

(* Every request of an invocation is bound to the operation, so the host   *)
(* only ever has an action for that.                                       *)
LoginInv ==
  /\ host_l \in [ClobLogin!Bindings -> Action \cup {None}]
  /\ \A b \in Stamps : host_l[b] = None
  /\ hint_l \in Hint \cup {None}
  /\ wait_l \in 0..RetryWait
  /\ creds_l \in BOOLEAN
  /\ pc_l \in [Callers -> ClobLogin!Steps]
  /\ req_l \in [Callers -> Request \cup {None}]
  /\ \A p \in Callers : pc_l[p] # "idle" => req_l[p] \in Request
  /\ faults_l \in 0..LoginFaults

Its(p) == req_l[p].binding

LEMMA ItsBinding ==
  ASSUME LoginInv, NEW p \in Callers, pc_l[p] # "idle"
  PROVE  /\ Its(p) = "clob_auth" /\ Its(p) \in ClobLogin!Bindings
         /\ req_l[p] \in Request
  BY DEF LoginInv, Its, Request, ClobLogin!Bindings

(* What a step that leaves the host's actions alone has to keep.           *)
LEMMA HostKept ==
  ASSUME LoginInv, host_l' = host_l,
         hint_l' \in Hint \cup {None}, wait_l' \in 0..RetryWait, creds_l' \in BOOLEAN,
         pc_l' \in [Callers -> ClobLogin!Steps], req_l' \in [Callers -> Request \cup {None}],
         \A p \in Callers : pc_l'[p] # "idle" => req_l'[p] \in Request,
         faults_l' \in 0..LoginFaults
  PROVE  LoginInv'
  BY DEF LoginInv

(* ... and one that changes them.                                          *)
LEMMA HostSet ==
  ASSUME LoginInv, ClobLogin!LoginConstants,
         NEW a \in Action \cup {None}, host_l' = [host_l EXCEPT !["clob_auth"] = a],
         hint_l' = hint_l, wait_l' = wait_l, creds_l' = creds_l, req_l' = req_l,
         pc_l' \in [Callers -> ClobLogin!Steps],
         \A p \in Callers : pc_l'[p] # "idle" => pc_l[p] # "idle",
         faults_l' \in 0..LoginFaults
  PROVE  LoginInv'
  BY DEF LoginInv, ClobLogin!LoginConstants, ClobLogin!Bindings

LEMMA LoginStep ==
  ASSUME ClobLogin!LoginConstants, LoginInv, [ClobLogin!Next]_ClobLogin!vars
  PROVE  LoginInv'
  <1> USE DEF ClobLogin!Goto, ClobLogin!Return, ClobLogin!Fails
  <1>c. /\ Ttl \in Nat \ {0} /\ RetryWait \in Nat \ {0} /\ Ttl <= RetryWait /\ LoginFaults \in Nat
        /\ "clob_auth" \notin Stamps
    BY DEF ClobLogin!LoginConstants
  <1>1. ASSUME NEW p \in Callers, ClobLogin!Begin(p)
        PROVE LoginInv'
    <2>1. PICK stamp \in Stamps :
            req_l' = [req_l EXCEPT ![p] = [binding |-> "clob_auth", sent |-> FALSE]]
      BY <1>1 DEF ClobLogin!Begin, ClobLogin!Binding
    <2>2. [binding |-> "clob_auth", sent |-> FALSE] \in Request
      BY DEF Request
    <2>3. /\ UNCHANGED <<host_l, hint_l, wait_l, creds_l, faults_l>>
          /\ pc_l' = [pc_l EXCEPT ![p] = "hint"]
      BY <1>1 DEF ClobLogin!Begin
    <2> HIDE DEF Request
    <2> QED BY <2>1, <2>2, <2>3 DEF LoginInv, ClobLogin!Steps
  <1>2. ASSUME NEW p \in Callers, ClobLogin!ReadHint(p)
        PROVE LoginInv'
    <2> DEFINE fits == hint_l # None /\ hint_l.binding = Its(p)
    <2>1. /\ pc_l[p] = "hint" /\ UNCHANGED <<host_l, wait_l, creds_l, faults_l>>
          /\ hint_l' = IF fits THEN hint_l ELSE None
          /\ req_l' = [req_l EXCEPT ![p].sent = fits /\ hint_l.ttl > 0]
          /\ pc_l' = [pc_l EXCEPT ![p] = "sign"]
      BY <1>2 DEF ClobLogin!ReadHint, Its
    <2>2. req_l[p] \in Request
      BY <2>1, ItsBinding
    <2>3. [req_l[p] EXCEPT !.sent = fits /\ hint_l.ttl > 0] \in Request
      BY <2>2 DEF Request
    <2>4. req_l' \in [Callers -> Request \cup {None}]
          /\ \A q \in Callers : pc_l'[q] # "idle" => req_l'[q] \in Request
      BY <2>1, <2>3 DEF LoginInv
    <2> HIDE DEF fits
    <2> QED BY <2>1, <2>4 DEF LoginInv, ClobLogin!Steps
  <1>3. ASSUME NEW p \in Callers, ClobLogin!SignPending(p)
        PROVE LoginInv'
    <2>1. /\ pc_l[p] = "sign" /\ UNCHANGED <<hint_l, wait_l, creds_l, req_l, faults_l>>
          /\ pc_l' = [pc_l EXCEPT ![p] = "store_hint"]
          /\ \/ UNCHANGED host_l
             \/ \E kind \in {"eligibility", "grant"} :
                  host_l' = [host_l EXCEPT ![Its(p)] = ClobLogin!Asked(kind)]
      BY <1>3 DEF ClobLogin!SignPending, Its
    <2>2. Its(p) = "clob_auth"
      BY <2>1, ItsBinding
    <2>3. \A kind \in {"eligibility", "grant"} : ClobLogin!Asked(kind) \in Action
      BY <1>c DEF ClobLogin!Asked, Action
    <2>4. pc_l' \in [Callers -> ClobLogin!Steps] /\ faults_l' \in 0..LoginFaults
          /\ \A q \in Callers : pc_l'[q] # "idle" => pc_l[q] # "idle"
      BY <2>1 DEF LoginInv, ClobLogin!Steps
    <2>5. CASE UNCHANGED host_l
      BY <2>1, <2>4, <2>5, HostKept DEF LoginInv
    <2>6. ASSUME NEW kind \in {"eligibility", "grant"},
                 host_l' = [host_l EXCEPT !["clob_auth"] = ClobLogin!Asked(kind)]
          PROVE LoginInv'
      BY <2>1, <2>3, <2>4, <2>6, HostSet
    <2> QED BY <2>1, <2>2, <2>5, <2>6
  <1>4. ASSUME NEW p \in Callers, ClobLogin!SignGranted(p)
        PROVE LoginInv'
    <2> DEFINE spent == [kind |-> "grant", ttl |-> Ttl, state |-> "spent"]
    <2>1. /\ pc_l[p] = "sign" /\ UNCHANGED <<hint_l, wait_l, creds_l, req_l, faults_l>>
          /\ pc_l' = [pc_l EXCEPT ![p] = "drop_hint"]
          /\ host_l' = [host_l EXCEPT ![Its(p)] = spent]
      BY <1>4 DEF ClobLogin!SignGranted, Its
    <2>2. Its(p) = "clob_auth"
      BY <2>1, ItsBinding
    <2>3. spent \in Action
      BY <1>c DEF Action
    <2>4. pc_l' \in [Callers -> ClobLogin!Steps] /\ faults_l' \in 0..LoginFaults
          /\ \A q \in Callers : pc_l'[q] # "idle" => pc_l[q] # "idle"
      BY <2>1 DEF LoginInv, ClobLogin!Steps
    <2> HIDE DEF spent
    <2> QED BY <2>1, <2>2, <2>3, <2>4, HostSet
  <1>5. ASSUME NEW p \in Callers, ClobLogin!SignDenied(p)
        PROVE LoginInv'
    <2>1. /\ UNCHANGED <<host_l, hint_l, wait_l, creds_l>> /\ pc_l[p] = "sign"
          /\ faults_l' \in 0..LoginFaults
          /\ \/ pc_l' = [pc_l EXCEPT ![p] = "retire"] /\ UNCHANGED req_l
             \/ ClobLogin!Return(p)
      BY <1>5, <1>c DEF ClobLogin!SignDenied, LoginInv
    <2> QED BY <2>1 DEF LoginInv, ClobLogin!Steps
  <1>6. ASSUME NEW p \in Callers, ClobLogin!StoreHint(p)
        PROVE LoginInv'
    <2>1. /\ pc_l[p] = "store_hint" /\ UNCHANGED <<host_l, wait_l, creds_l, faults_l>>
          /\ hint_l' = [binding |-> Its(p), ttl |-> ClobLogin!Expiry(Its(p))]
          /\ ClobLogin!Return(p)
      BY <1>6 DEF ClobLogin!StoreHint, Its
    <2>2. Its(p) \in ClobLogin!Bindings
      BY <2>1, ItsBinding
    <2>3. ClobLogin!Expiry(Its(p)) \in 0..Ttl
      <3>1. host_l[Its(p)] \in Action \cup {None}
        BY <2>2 DEF LoginInv
      <3> QED BY <1>c, <3>1 DEF ClobLogin!Expiry, Action
    <2>4. hint_l' \in Hint
      BY <2>1, <2>2, <2>3 DEF Hint
    <2> QED BY <2>1, <2>4 DEF LoginInv, ClobLogin!Steps
  <1>7. ASSUME NEW p \in Callers, ClobLogin!RetireHint(p) \/ ClobLogin!Clear(p)
        PROVE LoginInv'
    BY <1>7 DEF ClobLogin!RetireHint, ClobLogin!Clear, LoginInv, ClobLogin!Steps
  <1>8. ASSUME NEW p \in Callers, ClobLogin!DropHint(p) \/ ClobLogin!Post(p)
        PROVE LoginInv'
    <2>1. /\ UNCHANGED <<host_l, wait_l, creds_l, req_l>> /\ faults_l' \in 0..LoginFaults
          /\ hint_l' \in {hint_l, None} /\ pc_l[p] \in {"drop_hint", "post"}
          /\ \E step \in {"post", "creds"} : pc_l' = [pc_l EXCEPT ![p] = step]
      BY <1>8, <1>c DEF ClobLogin!DropHint, ClobLogin!Post, LoginInv
    <2> QED BY <2>1 DEF LoginInv, ClobLogin!Steps
  <1>9. ASSUME NEW p \in Callers, ClobLogin!PostRefused(p) \/ ClobLogin!StoreCreds(p)
        PROVE LoginInv'
    <2>1. /\ UNCHANGED <<host_l, wait_l, hint_l, req_l>> /\ pc_l[p] \in {"creds", "post"}
          /\ creds_l' \in BOOLEAN
      BY <1>9, Zenon DEF ClobLogin!PostRefused, ClobLogin!StoreCreds, LoginInv
    <2>2. PICK step \in {"fail", "clear"} : pc_l' = [pc_l EXCEPT ![p] = step]
      BY <1>9, Zenon DEF ClobLogin!PostRefused, ClobLogin!StoreCreds
    <2>5. faults_l' = faults_l \/ ClobLogin!Fails
      BY <1>9, Zenon DEF ClobLogin!PostRefused, ClobLogin!StoreCreds
    <2>6. faults_l' \in 0..LoginFaults
      BY <1>c, <2>5 DEF LoginInv
    <2>3. pc_l' \in [Callers -> ClobLogin!Steps]
      BY <2>2 DEF LoginInv, ClobLogin!Steps
    <2>4. \A q \in Callers : pc_l'[q] # "idle" => req_l[q] \in Request
      BY <2>1, <2>2 DEF LoginInv
    <2> QED BY <2>1, <2>3, <2>4, <2>6 DEF LoginInv
  <1>10. ASSUME NEW p \in Callers, ClobLogin!Fail(p) \/ ClobLogin!Stop(p)
         PROVE LoginInv'
    <2>1. /\ UNCHANGED <<host_l, creds_l, hint_l>>
          /\ wait_l' \in {wait_l, RetryWait} /\ ClobLogin!Return(p)
      BY <1>10 DEF ClobLogin!Fail, ClobLogin!Stop, ClobLogin!Marker
    <2>2. faults_l' \in 0..LoginFaults
      BY <1>10, <1>c DEF ClobLogin!Fail, ClobLogin!Stop, LoginInv
    <2>3. wait_l' \in 0..RetryWait
      BY <1>c, <2>1 DEF LoginInv, ClobLogin!LoginConstants
    <2> QED BY <2>1, <2>2, <2>3 DEF LoginInv, ClobLogin!Steps
  <1>11. ASSUME NEW b \in ClobLogin!Bindings, ClobLogin!Approve(b) \/ ClobLogin!Reject(b)
         PROVE LoginInv'
    <2>1. PICK state \in {"approved", "rejected"} : host_l' = [host_l EXCEPT ![b].state = state]
      BY <1>11 DEF ClobLogin!Approve, ClobLogin!Reject
    <2>2. host_l[b] # None /\ UNCHANGED <<hint_l, wait_l, creds_l, pc_l, req_l>>
          /\ faults_l' \in 0..LoginFaults
      BY <1>11, <1>c DEF ClobLogin!Approve, ClobLogin!Reject, LoginInv
    <2>3. b = "clob_auth"
      BY <2>2 DEF LoginInv, ClobLogin!Bindings
    <2>4. host_l[b] \in Action
      BY <2>2 DEF LoginInv
    <2>5. [host_l[b] EXCEPT !.state = state] \in Action
      BY <2>4 DEF Action
    <2>6. host_l' = [host_l EXCEPT !["clob_auth"] = [host_l[b] EXCEPT !.state = state]]
      BY <2>1, <2>3
    <2>7. pc_l' \in [Callers -> ClobLogin!Steps]
      BY <2>2 DEF LoginInv
    <2> HIDE DEF Action
    <2> QED BY <2>2, <2>5, <2>6, <2>7, HostSet
  <1>12. CASE ClobLogin!Tick
    <2>1. host_l' = [b \in ClobLogin!Bindings |->
            IF host_l[b] = None \/ host_l[b].ttl = 1 THEN None ELSE [host_l[b] EXCEPT !.ttl = @ - 1]]
      BY <1>12 DEF ClobLogin!Tick
    <2>2. \A b \in ClobLogin!Bindings : host_l'[b] \in Action \cup {None}
      <3> SUFFICES ASSUME NEW b \in ClobLogin!Bindings, host_l[b] # None, host_l[b].ttl # 1
                   PROVE [host_l[b] EXCEPT !.ttl = @ - 1] \in Action
        BY <2>1
      <3>1. host_l[b] \in Action
        BY DEF LoginInv
      <3>2. host_l[b].ttl - 1 \in 1..Ttl
        BY <1>c, <3>1 DEF Action
      <3> QED BY <3>1, <3>2 DEF Action
    <2>3. host_l' \in [ClobLogin!Bindings -> Action \cup {None}]
      BY <2>1, <2>2
    <2>4. \A b \in Stamps : host_l'[b] = None
      BY <2>1 DEF LoginInv, ClobLogin!Bindings
    <2>5. /\ hint_l' = IF hint_l = None THEN None ELSE [hint_l EXCEPT !.ttl = ClobLogin!Less(@)]
          /\ wait_l' = ClobLogin!Less(wait_l) /\ UNCHANGED <<creds_l, pc_l, req_l, faults_l>>
      BY <1>12 DEF ClobLogin!Tick
    <2>6. hint_l' \in Hint \cup {None}
      <3>1. CASE hint_l # None
        <4>1. hint_l \in Hint
          BY <3>1 DEF LoginInv
        <4>2. ClobLogin!Less(hint_l.ttl) \in 0..Ttl
          BY <1>c, <4>1 DEF Hint, ClobLogin!Less
        <4> QED BY <2>5, <3>1, <4>1, <4>2 DEF Hint
      <3> QED BY <2>5, <3>1
    <2>7. wait_l' \in 0..RetryWait
      BY <1>c, <2>5 DEF LoginInv, ClobLogin!Less
    <2> QED BY <2>3, <2>4, <2>5, <2>6, <2>7 DEF LoginInv
  <1>13. CASE UNCHANGED ClobLogin!vars
    BY <1>13 DEF ClobLogin!vars, LoginInv
  <1> HIDE DEF ClobLogin!Goto, ClobLogin!Return, ClobLogin!Fails
  <1>14. ASSUME NEW p \in Callers, ClobLogin!Work(p)
         PROVE LoginInv'
    BY <1>2, <1>3, <1>4, <1>5, <1>6, <1>7, <1>8, <1>9, <1>10, <1>14
       DEF ClobLogin!Work, ClobLogin!SignedSteps
  <1>15. ASSUME NEW p \in Callers,
                ClobLogin!Begin(p) \/ ClobLogin!Work(p) \/ ClobLogin!PostRefused(p) \/ ClobLogin!Stop(p)
         PROVE LoginInv'
    BY <1>1, <1>9, <1>10, <1>14, <1>15
  <1> QED BY <1>11, <1>12, <1>13, <1>15 DEF ClobLogin!Next

LEMMA LoginStart ==
  ASSUME ClobLogin!Init
  PROVE  LoginInv
  <1>1. /\ host_l \in [ClobLogin!Bindings -> Action \cup {None}]
        /\ \A b \in Stamps : host_l[b] = None
    BY DEF ClobLogin!Init, ClobLogin!Bindings
  <1>2. 0 \in 0..RetryWait /\ 0 \in 0..LoginFaults
    BY LoginConstants DEF ClobLogin!LoginConstants
  <1> QED BY <1>1, <1>2 DEF ClobLogin!Init, LoginInv, ClobLogin!Steps

LEMMA LoginAlways == ClobLogin!Spec => []LoginInv
  <1>1. LoginInv /\ [ClobLogin!Next]_ClobLogin!vars => LoginInv'
    BY LoginStep, LoginConstants
  <1> QED BY <1>1, LoginStart, PTL DEF ClobLogin!Spec

LEMMA OneRequest == LoginInv => ClobLogin!AskedOnce
  BY DEF LoginInv, ClobLogin!AskedOnce, ClobLogin!Live, ClobLogin!Bindings

LEMMA LoginTyped ==
  ASSUME LoginInv
  PROVE  ClobLogin!TypeOK
  <1>1. \A b \in ClobLogin!Bindings : host_l[b] # None => host_l[b] \in Action
    BY DEF LoginInv
  <1>2. \A p \in Callers : req_l[p] # None =>
          req_l[p] \in [binding : ClobLogin!Bindings, sent : BOOLEAN]
    BY DEF LoginInv, Request, ClobLogin!Bindings
  <1> QED BY <1>1, <1>2 DEF LoginInv, ClobLogin!TypeOK, Action, Hint

(* sign_polymarket_payload and the host, any number of attempts at once:   *)
(* the owner is not asked for a login while an earlier request for it is   *)
(* pending or approved and unused.                                         *)
THEOREM LoginsAskOnce == ClobLogin!Spec => []ClobLogin!AskedOnce
  BY OneRequest, LoginAlways, PTL

(* The steps after the signature that lead to the credentials or to the    *)
(* marker, and what the wait is worth without them.                        *)
Signed == {"drop_hint", "post", "creds", "fail"}
Waited(a) == a # None /\ a.state = "spent" => wait_l >= a.ttl

WaitInv ==
  /\ creds_l \/ Waited(host_l["clob_auth"]) \/ \E p \in Callers : pc_l[p] \in Signed
  /\ \A p \in Callers : pc_l[p] = "clear" => creds_l

LEMMA WaitStep ==
  ASSUME ClobLogin!LoginConstants, LoginInv, WaitInv,
         [ClobLogin!Next /\ ClobLogin!Unkilled /\ ClobLogin!WaitWritten]_ClobLogin!vars
  PROVE  WaitInv'
  <1> USE DEF ClobLogin!Goto, ClobLogin!Return
  <1> DEFINE a == host_l["clob_auth"]
  <1>c. /\ Ttl \in Nat \ {0} /\ RetryWait \in Nat \ {0} /\ Ttl <= RetryWait
        /\ "clob_auth" \notin Stamps
    BY DEF ClobLogin!LoginConstants
  <1>t. /\ pc_l \in [Callers -> ClobLogin!Steps] /\ wait_l \in Nat /\ creds_l \in BOOLEAN
        /\ host_l \in [ClobLogin!Bindings -> Action \cup {None}]
        /\ a \in Action \cup {None}
    BY <1>c DEF LoginInv, ClobLogin!Bindings
  (* A step of p before the signature, which spends nothing.               *)
  <1>0. ASSUME NEW p \in Callers, pc_l[p] \notin Signed, creds_l' = creds_l, wait_l' = wait_l,
               Waited(a) => Waited(a)',
               NEW step \in ClobLogin!Steps \ {"clear"}, pc_l' = [pc_l EXCEPT ![p] = step]
        PROVE WaitInv'
    <2>1. \A q \in Callers : pc_l[q] \in Signed => pc_l'[q] \in Signed
      BY <1>0, <1>t
    <2>2. \A q \in Callers : pc_l'[q] = "clear" => pc_l[q] = "clear"
      BY <1>0, <1>t
    <2> QED BY <1>0, <2>1, <2>2 DEF WaitInv
  <1>1. ASSUME NEW p \in Callers,
               \/ ClobLogin!Begin(p) \/ ClobLogin!ReadHint(p) \/ ClobLogin!SignDenied(p)
               \/ ClobLogin!StoreHint(p) \/ ClobLogin!RetireHint(p)
        PROVE WaitInv'
    <2>1. /\ pc_l[p] \in {"idle", "hint", "sign", "store_hint", "retire"}
          /\ UNCHANGED <<host_l, creds_l, wait_l>>
          /\ \E step \in {"hint", "sign", "retire", "idle"} : pc_l' = [pc_l EXCEPT ![p] = step]
      BY <1>1, Zenon DEF ClobLogin!Begin, ClobLogin!ReadHint, ClobLogin!SignDenied,
           ClobLogin!StoreHint, ClobLogin!RetireHint
    <2>2. PICK step \in {"hint", "sign", "retire", "idle"} : pc_l' = [pc_l EXCEPT ![p] = step]
      BY <2>1
    <2>3. Waited(a) => Waited(a)'
      BY <2>1 DEF Waited
    <2>4. step \in ClobLogin!Steps \ {"clear"} /\ pc_l[p] \notin Signed
      BY <2>1, <2>2 DEF ClobLogin!Steps, Signed
    <2> HIDE DEF a
    <2> QED BY <1>0, <2>1, <2>2, <2>3, <2>4
  <1>2. ASSUME NEW p \in Callers, ClobLogin!SignPending(p)
        PROVE WaitInv'
    <2>1. /\ pc_l[p] = "sign" /\ UNCHANGED <<creds_l, wait_l>>
          /\ pc_l' = [pc_l EXCEPT ![p] = "store_hint"]
          /\ \/ UNCHANGED host_l
             \/ \E kind \in {"eligibility", "grant"} :
                  host_l' = [host_l EXCEPT ![Its(p)] = ClobLogin!Asked(kind)]
      BY <1>2 DEF ClobLogin!SignPending, Its
    <2>2. Its(p) = "clob_auth" /\ "clob_auth" \in ClobLogin!Bindings
      BY <2>1, ItsBinding DEF ClobLogin!Bindings
    <2>3. a' = a \/ a'.state = "pending"
      BY <1>t, <2>1, <2>2 DEF ClobLogin!Asked
    <2>4. Waited(a) => Waited(a)'
      BY <2>1, <2>3 DEF Waited
    <2>5. "store_hint" \in ClobLogin!Steps \ {"clear"} /\ pc_l[p] \notin Signed
      BY <2>1 DEF ClobLogin!Steps, Signed
    <2> HIDE DEF a
    <2> QED BY <1>0, <2>1, <2>4, <2>5
  <1>3. ASSUME NEW p \in Callers,
               ClobLogin!SignGranted(p) \/ ClobLogin!DropHint(p) \/ ClobLogin!Post(p)
                 \/ ClobLogin!PostRefused(p)
        PROVE WaitInv'
    <2>1. /\ creds_l' = creds_l
          /\ \E step \in Signed : pc_l' = [pc_l EXCEPT ![p] = step]
      BY <1>3 DEF ClobLogin!SignGranted, ClobLogin!DropHint, ClobLogin!Post,
           ClobLogin!PostRefused, Signed
    <2>2. pc_l'[p] \in Signed /\ \A q \in Callers : pc_l'[q] = "clear" => pc_l[q] = "clear"
      BY <1>t, <2>1 DEF Signed
    <2> QED BY <2>1, <2>2 DEF WaitInv
  <1>4. ASSUME NEW p \in Callers, ClobLogin!StoreCreds(p)
        PROVE WaitInv'
    <2>1. CASE creds_l' = TRUE
      BY <2>1 DEF WaitInv
    <2>2. CASE creds_l' # TRUE
      <3>1. creds_l' = creds_l /\ pc_l' = [pc_l EXCEPT ![p] = "fail"]
        BY <1>4, <2>2 DEF ClobLogin!StoreCreds
      <3>2. pc_l'[p] \in Signed /\ \A q \in Callers : pc_l'[q] = "clear" => pc_l[q] = "clear"
        BY <1>t, <3>1 DEF Signed
      <3> QED BY <3>1, <3>2 DEF WaitInv
    <2> QED BY <2>1, <2>2
  <1>5. ASSUME ClobLogin!WaitWritten, NEW p \in Callers,
               ClobLogin!Fail(p) \/ (pc_l[p] = "fail" /\ ClobLogin!Stop(p))
        PROVE WaitInv'
    <2>0. /\ pc_l[p] = "fail" /\ creds_l' = creds_l /\ host_l' = host_l
          /\ pc_l' = [pc_l EXCEPT ![p] = "idle"]
      BY <1>5 DEF ClobLogin!Fail, ClobLogin!Stop
    <2>1. /\ wait_l' = RetryWait /\ creds_l' = creds_l /\ host_l' = host_l
          /\ pc_l' = [pc_l EXCEPT ![p] = "idle"]
      BY <1>5, <1>t, <2>0 DEF ClobLogin!WaitWritten, ClobLogin!Marker
    <2>2. Waited(a)'
      BY <1>c, <1>t, <2>1 DEF Waited, Action
    <2>3. \A q \in Callers : pc_l'[q] = "clear" => pc_l[q] = "clear"
      BY <1>t, <2>1
    <2> QED BY <2>1, <2>2, <2>3 DEF WaitInv
  <1>6. ASSUME NEW p \in Callers, ClobLogin!Clear(p)
        PROVE WaitInv'
    BY <1>6 DEF ClobLogin!Clear, WaitInv
  <1>7. ASSUME ClobLogin!Unkilled, NEW p \in Callers, ClobLogin!Stop(p), pc_l[p] # "fail"
        PROVE WaitInv'
    <2>1. /\ pc_l[p] \notin Signed /\ UNCHANGED <<host_l, creds_l, wait_l>>
          /\ pc_l' = [pc_l EXCEPT ![p] = "idle"]
      BY <1>7 DEF ClobLogin!Stop, ClobLogin!Unkilled, Signed
    <2>2. Waited(a) => Waited(a)'
      BY <2>1 DEF Waited
    <2>3. "idle" \in ClobLogin!Steps \ {"clear"}
      BY DEF ClobLogin!Steps
    <2> HIDE DEF a
    <2> QED BY <1>0, <2>1, <2>2, <2>3
  <1>8. ASSUME NEW b \in ClobLogin!Bindings, ClobLogin!Approve(b) \/ ClobLogin!Reject(b)
        PROVE WaitInv'
    <2>1. PICK state \in {"approved", "rejected"} : host_l' = [host_l EXCEPT ![b].state = state]
      BY <1>8 DEF ClobLogin!Approve, ClobLogin!Reject
    <2>2. host_l[b] # None /\ UNCHANGED <<wait_l, creds_l, pc_l>>
      BY <1>8 DEF ClobLogin!Approve, ClobLogin!Reject
    <2>3. b = "clob_auth" /\ host_l[b] \in Action
      BY <2>2 DEF LoginInv, ClobLogin!Bindings
    <2>4. a'.state = state
      BY <1>t, <2>1, <2>3 DEF Action
    <2>5. Waited(a)'
      BY <2>4 DEF Waited
    <2> QED BY <2>2, <2>5 DEF WaitInv
  <1>9. CASE ClobLogin!Tick
    <2>1. /\ a' = IF a = None \/ a.ttl = 1 THEN None ELSE [a EXCEPT !.ttl = @ - 1]
          /\ wait_l' = ClobLogin!Less(wait_l) /\ UNCHANGED <<creds_l, pc_l>>
      BY <1>9 DEF ClobLogin!Tick, ClobLogin!Bindings
    <2>2. ASSUME Waited(a), a # None, a.ttl # 1
          PROVE Waited(a)'
      <3>1. a \in Action
        BY <1>t, <2>2
      <3>2. a'.ttl = a.ttl - 1 /\ a'.state = a.state /\ a.ttl \in Nat \ {0, 1}
        BY <1>c, <2>1, <2>2, <3>1 DEF Action
      <3>3. ASSUME a'.state = "spent" PROVE wait_l' >= a'.ttl
        <4>1. wait_l >= a.ttl
          BY <2>2, <3>2, <3>3 DEF Waited
        <4> HIDE DEF a
        <4>2. ClobLogin!Less(wait_l) >= a.ttl - 1
          BY <1>t, <3>2, <4>1 DEF ClobLogin!Less
        <4> QED BY <2>1, <3>2, <4>2, Zenon
      <3> QED BY <3>3 DEF Waited
    <2>3. ASSUME a = None \/ a.ttl = 1
          PROVE Waited(a)'
      BY <2>1, <2>3 DEF Waited
    <2>4. Waited(a) => Waited(a)'
      BY <2>2, <2>3
    <2> QED BY <2>1, <2>4 DEF WaitInv
  <1>10. CASE UNCHANGED ClobLogin!vars
    BY <1>10 DEF ClobLogin!vars, WaitInv, Waited
  <1> HIDE DEF ClobLogin!Goto, ClobLogin!Return
  <1>11. ASSUME ClobLogin!WaitWritten, NEW p \in Callers, ClobLogin!Work(p)
         PROVE WaitInv'
    <2>1. ClobLogin!Fail(p) => WaitInv'
      BY <1>5, <1>11
    <2> QED BY <1>1, <1>2, <1>3, <1>4, <2>1, <1>6, <1>11 DEF ClobLogin!Work, ClobLogin!SignedSteps
  <1>12. ASSUME ClobLogin!Unkilled, ClobLogin!WaitWritten, NEW p \in Callers,
                ClobLogin!Begin(p) \/ ClobLogin!Work(p) \/ ClobLogin!PostRefused(p) \/ ClobLogin!Stop(p)
         PROVE WaitInv'
    <2>1. ClobLogin!Stop(p) => WaitInv'
      BY <1>5, <1>7, <1>12
    <2> QED BY <1>1, <1>3, <2>1, <1>11, <1>12
  <1> QED BY <1>8, <1>9, <1>10, <1>12 DEF ClobLogin!Next

LEMMA WaitStart == ClobLogin!Init => WaitInv
  BY DEF ClobLogin!Init, WaitInv, Waited, ClobLogin!Bindings

LEMMA WaitIsEnough ==
  ASSUME LoginInv, WaitInv
  PROVE  ClobLogin!WaitSuffices
  <1> SUFFICES ASSUME NEW b \in ClobLogin!Bindings,
                      host_l[b] # None, host_l[b].state = "spent", ~creds_l,
                      \A p \in Callers : pc_l[p] = "idle"
               PROVE wait_l >= host_l[b].ttl
    BY DEF ClobLogin!WaitSuffices
  <1>1. b = "clob_auth"
    BY DEF LoginInv, ClobLogin!Bindings
  <1>2. Waited(host_l["clob_auth"])
    BY DEF WaitInv, Signed
  <1> QED BY <1>1, <1>2 DEF Waited

(* login_failed_after_signing: where an invocation that signed is run to   *)
(* its end, and the put of login_retry_after.json that begin_onboarding    *)
(* ignores the failure of succeeds, the wait it leaves outlives the spent  *)
(* grant that another attempt would be refused under.                      *)
THEOREM LoginsWaitLongEnough == ClobLogin!UnkilledSpec => []ClobLogin!WaitSuffices
  <1>1. ClobLogin!Init => LoginInv /\ WaitInv
    BY LoginStart, WaitStart
  <1>2. LoginInv /\ WaitInv /\ [ClobLogin!Next /\ ClobLogin!Unkilled /\ ClobLogin!WaitWritten]_ClobLogin!vars
          => (LoginInv /\ WaitInv)'
    BY LoginStep, WaitStep, LoginConstants
  <1>3. LoginInv /\ WaitInv => ClobLogin!WaitSuffices
    BY WaitIsEnough
  <1> QED BY <1>1, <1>2, <1>3, PTL DEF ClobLogin!UnkilledSpec
--------------------------------------------------------------------------------
(* The behaviours of MCOnboarding.                                         *)

mcVars == <<instance, vars, loginVars>>

(* A step of MCOnboarding is one of the onboarding or of the login, and    *)
(* which restrictions it is under does not change.                         *)
LEMMA MCSteps ==
  ASSUME [MCNext]_mcVars
  PROVE  /\ instance' = instance
         /\ [Next]_vars
         /\ instance \in {"unrevoked", "read"} => [Next /\ CallsFollow /\ Unrevoked]_vars
         /\ instance = "unswitched" => [Next /\ Follows /\ Unswitched /\ ReadsTruly]_vars
         /\ [ClobLogin!Next]_ClobLogin!vars
         /\ instance = "unkilled" =>
              [ClobLogin!Next /\ ClobLogin!Unkilled /\ ClobLogin!WaitWritten]_ClobLogin!vars
  <1>1. Follows => CallsFollow
    BY DEF Follows, CallsFollow
  <1> QED BY <1>1 DEF MCNext, mcVars, loginVars, ClobLogin!vars

MCTypes ==
  /\ TypeInv /\ CredsFirst /\ LoginInv
  /\ instance = "unkilled" => WaitInv

LEMMA MCTypesStep ==
  ASSUME MCTypes, [MCNext]_mcVars
  PROVE  MCTypes'
  <1>1. TypeInv' /\ CredsFirst' /\ instance' = instance
    BY MCSteps, StepTypes, CredsStep DEF MCTypes
  <1>2. LoginInv'
    BY MCSteps, LoginStep, LoginConstants DEF MCTypes
  <1>3. instance = "unkilled" => WaitInv'
    BY MCSteps, WaitStep, LoginConstants DEF MCTypes
  <1> QED BY <1>1, <1>2, <1>3 DEF MCTypes

LEMMA MCTypesAlways == MCSpec => []MCTypes
  <1>1. MCInit => MCTypes
    BY InitTypes, InitBatch, LoginStart, WaitStart DEF MCInit, MCTypes
  <1> QED BY <1>1, MCTypesStep, PTL DEF MCSpec, mcVars

(* begin_onboarding and continue_onboarding: the files, the relayer's      *)
(* transactions, the approvals and every invocation's step are well typed, *)
(* and so is the login laid open, in all of MCOnboarding's behaviours.     *)
THEOREM OnboardingSideTypes == MCSpec => []Types
  <1>1. MCTypes => Types
    BY TypesHold, LoginTyped DEF MCTypes, Types
  <1> QED BY <1>1, MCTypesAlways, PTL

(* login_failed_after_signing, in MCOnboarding's behaviours: where no      *)
(* invocation is killed after it signed and login_retry_after.json is      *)
(* put, the wait it names outlives the spent grant.                        *)
THEOREM OwnerWaitsEnough == MCSpec => []LoginWaits
  <1>1. MCTypes => LoginWaits
    BY WaitIsEnough DEF MCTypes, LoginWaits
  <1> QED BY <1>1, MCTypesAlways, PTL

MCInv ==
  /\ MCTypes
  /\ instance = "unswitched" => IdsInv /\ OneRuns
  /\ instance \in {"unrevoked", "read"} => BatchInv /\ OneCalls

LEMMA MCStep ==
  ASSUME MCInv, [MCNext]_mcVars
  PROVE  MCInv'
  <1>1. MCTypes' /\ TypeInv' /\ instance' = instance
    BY MCSteps, MCTypesStep DEF MCInv, MCTypes
  <1>2. instance = "unswitched" => IdsInv' /\ OneRuns'
    BY MCSteps, IdsStep, RunsStep DEF MCInv, MCTypes
  <1>3. instance \in {"unrevoked", "read"} => BatchInv' /\ OneCalls'
    BY <1>1, MCSteps, BatchStep, CallsStep DEF MCInv, MCTypes
  <1> QED BY <1>1, <1>2, <1>3 DEF MCInv

LEMMA MCAlways == MCSpec => []MCInv
  <1>1. MCInit => MCInv
    BY InitTypes, InitIds, InitBatch, InitRuns, LoginStart, WaitStart
       DEF MCInit, MCInv, MCTypes
  <1>2. MCInv /\ [MCNext]_mcVars => MCInv'
    BY MCStep
  <1> QED BY <1>1, <1>2, PTL DEF MCSpec, mcVars

(* prepare_relayer_batch, for a wallet whose approvals are not revoked, in *)
(* MCOnboarding's behaviours: of the batches that may still execute there  *)
(* is only one.                                                            *)
THEOREM WalletRetriesSameBatch == MCSpec => []BatchRetried
  <1>1. MCInv => BatchRetried
    BY PreparedIsRetried DEF MCInv, MCTypes, BatchRetried
  <1> QED BY <1>1, MCAlways, PTL

(* run_onboard_stages and persist_onboard_status, for a wallet that is     *)
(* revoked and onboarded again too, where status.json can be read: it      *)
(* keeps the id of what may still be settled.                              *)
THEOREM WalletKeepsIds == MCSpec => IdsKept
  <1>1. MCInv /\ [MCNext]_mcVars => [instance = "unswitched" => KeepsIds]_vars
    BY MCSteps, IdsStay DEF MCInv, MCTypes
  <1> QED BY <1>1, MCAlways, PTL DEF MCSpec, mcVars, IdsKept

(* continue_onboarding, for a wallet whose approvals are not revoked: the  *)
(* exact approval it asked for survives its retries, unless the host       *)
(* refuses it.                                                             *)
THEOREM WalletKeepsApproval == MCSpec => ApprovalKept
  <1>1. MCInv /\ [MCNext]_mcVars => [(instance \in {"unrevoked", "read"}) => KeepsApproval]_vars
    BY MCSteps, ApprovalStays DEF MCInv, MCTypes
  <1> QED BY <1>1, MCAlways, PTL DEF MCSpec, mcVars, ApprovalKept
================================================================================
