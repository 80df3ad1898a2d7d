----------------------------- MODULE RelayerProofs -----------------------------
(***************************************************************************)
(* The relayer actions, for every value of the constants.  However many    *)
(* confirms race and whatever reads fail, the records tell the truth.      *)
(* Confirms that follow each other, killed and failing anywhere, clear no  *)
(* executed batch before its receipt; if their reads do not fail, they     *)
(* forget no transaction, submit each prepared batch once, and an executed *)
(* batch has its receipt or the next confirm finds it.  Then BuilderKeys,  *)
(* the key their submissions authenticate with, and at the end the same of *)
(* MCRelayer's behaviours, which mix them.                                 *)
(***************************************************************************)
EXTENDS MCRelayer, TLAPS, FiniteSetTheorems, SequenceTheorems

USE RelayerActionAssumption

(* The steps that have a batch in hand, and those that have a transaction. *)
Holding == Steps \ {"idle", "load", "build"}
Executed == {"receipt", "drop_prepared", "drop_review", "drop_progress"}
Named == {"poll", "note", "record"} \cup Executed

CallTypes(p) ==
  /\ pc[p] \in Holding => bat[p] # None
  /\ pc[p] \in Named => got[p] \in TxId

Tx == [batch : Batch, state : {"new", "confirmed", "failed"}]

(* TypeOK, and ids name transactions there are.                            *)
TypeInv ==
  /\ TypeOK
  /\ progress # None => progress.id = None \/ progress.id \in TxId
  /\ receipt # None => receipt \in TxId
  /\ \A p \in Procs : CallTypes(p)

(* What a step does to the transactions: none is taken back, none changes  *)
(* its batch, what is confirmed stays so.                                  *)
Grows ==
  /\ Len(tx) <= Len(tx')
  /\ \A i \in TxId :
       /\ tx'[i].batch = tx[i].batch
       /\ tx[i].state = "confirmed" => tx'[i].state = "confirmed"

Elsewhere(p) ==
  \A q \in Procs \ {p} : pc'[q] = pc[q] /\ bat'[q] = bat[q] /\ got'[q] = got[q]

(* An invocation moves itself only.                                        *)
LEMMA ExecutesAlone ==
  ASSUME TypeOK, NEW p \in Procs, Execute(p)
  PROVE  Elsewhere(p)
  BY DEF TypeOK, Elsewhere, Execute, Goto, Leave, Begin, Load, Build, StoreReview,
     StorePrepared, Verify, ReadProgress, Poll, Note, PutReceipt, DropPrepared,
     DropReview, DropProgress, Sign, Mark, Submit, Record, Stop

(* All but Submit and Settle leave the transactions as they are.           *)
LEMMA ExecuteKeepsChain ==
  ASSUME NEW p \in Procs, Execute(p), ~Submit(p)
  PROVE  UNCHANGED chain
  BY DEF Execute, Begin, Load, Build, StoreReview, StorePrepared, Verify, ReadProgress,
     Poll, Note, PutReceipt, DropPrepared, DropReview, DropProgress, Sign, Mark,
     Record, Stop, chain

(* Submit appends one transaction, new and of the batch in hand.           *)
LEMMA SubmitAppends ==
  ASSUME TypeInv, NEW p \in Procs, Submit(p)
  PROVE  /\ bat[p] \in Batch
         /\ Len(tx) \in Nat /\ Len(tx') = Len(tx) + 1 /\ Len(tx') <= MaxTx
         /\ tx'[Len(tx')].batch = bat[p] /\ tx'[Len(tx')].state = "new"
         /\ \A i \in TxId : tx'[i] = tx[i]
  <1>1. bat[p] \in Batch
    BY DEF TypeInv, TypeOK, CallTypes, Submit, Holding, Steps
  <1>2. /\ tx' = Append(tx, [batch |-> bat[p], state |-> "new"])
        /\ Len(tx) < MaxTx /\ tx \in Seq(Tx) /\ Len(tx) \in Nat
    BY DEF Submit, TypeInv, TypeOK, Tx
  <1>3. [batch |-> bat[p], state |-> "new"] \in Tx
    BY <1>1 DEF Tx
  <1>4. /\ Len(tx') = Len(tx) + 1
        /\ tx'[Len(tx) + 1] = [batch |-> bat[p], state |-> "new"]
        /\ \A i \in 1..Len(tx) : tx'[i] = tx[i]
    BY <1>2, <1>3, AppendProperties
  <1> QED BY <1>1, <1>2, <1>4 DEF TxId

(* Settle changes the state of one transaction that was new.               *)
LEMMA SettleSettles ==
  ASSUME TypeInv, NEW i \in TxId, Settle(i)
  PROVE  /\ Len(tx') = Len(tx)
         /\ tx[i].state = "new" /\ tx'[i].batch = tx[i].batch
         /\ \A j \in TxId \ {i} : tx'[j] = tx[j]
         /\ \/ /\ tx[i].batch.nonce = nonce /\ nonce' = nonce + 1 /\ nonce' \in 0..MaxNonce
               /\ tx'[i].state = "confirmed"
            \/ /\ nonce' = nonce
               /\ tx'[i].state = "failed"
  <1> DEFINE settled(s) == [batch |-> tx[i].batch, state |-> s]
  <1>1. tx \in Seq(Tx) /\ nonce \in 0..MaxNonce /\ i \in 1..Len(tx) /\ MaxNonce \in Nat
    BY DEF TypeInv, TypeOK, TxId, Tx
  <1>2. tx[i] \in Tx
    BY <1>1, ElementOfSeq
  <1>3. \A s : [tx[i] EXCEPT !.state = s] = settled(s)
    BY <1>2 DEF Tx
  <1>4. ASSUME NEW s \in {"confirmed", "failed"}, tx' = [tx EXCEPT ![i].state = s]
        PROVE  /\ Len(tx') = Len(tx)
               /\ tx'[i] = settled(s)
               /\ \A j \in TxId \ {i} : tx'[j] = tx[j]
    <2>1. tx' = [tx EXCEPT ![i] = settled(s)]
      BY <1>3, <1>4
    <2>2. settled(s) \in Tx
      BY <1>2 DEF Tx
    <2> HIDE DEF settled
    <2> QED BY <1>1, <2>1, <2>2, ExceptSeq DEF TxId
  <1>5. CASE tx' = [tx EXCEPT ![i].state = "confirmed"] /\ tx[i].batch.nonce = nonce
             /\ nonce' = nonce + 1 /\ nonce < MaxNonce
    <2>1. nonce' \in 0..MaxNonce
      BY <1>1, <1>5
    <2> QED BY <1>4, <1>5, <2>1 DEF Settle
  <1>6. CASE tx' = [tx EXCEPT ![i].state = "failed"] /\ UNCHANGED nonce
    BY <1>4, <1>6 DEF Settle
  <1> QED BY <1>5, <1>6 DEF Settle

(* Both keep the list one of transactions.                                 *)
LEMMA TxTyped ==
  ASSUME TypeInv, [Next]_vars
  PROVE  tx' \in Seq(Tx)
  <1>1. tx \in Seq(Tx)
    BY DEF TypeInv, TypeOK, Tx
  <1>2. CASE UNCHANGED tx
    BY <1>1, <1>2
  <1>3. ASSUME NEW p \in Procs, Execute(p) PROVE tx' \in Seq(Tx)
    <2>1. CASE Submit(p)
      <3>1. bat[p] \in Batch
        BY <2>1, SubmitAppends
      <3>2. [batch |-> bat[p], state |-> "new"] \in Tx
        BY <3>1 DEF Tx
      <3> QED BY <1>1, <2>1, <3>2, AppendProperties DEF Submit
    <2>2. CASE ~Submit(p)
      BY <1>2, <1>3, <2>2, ExecuteKeepsChain DEF chain
    <2> QED BY <2>1, <2>2
  <1>4. ASSUME NEW i \in TxId, Settle(i) PROVE tx' \in Seq(Tx)
    <2>1. tx[i] \in Tx
      BY <1>1, ElementOfSeq DEF TxId
    <2>2. PICK s \in {"confirmed", "failed"} : tx' = [tx EXCEPT ![i].state = s]
      BY <1>4 DEF Settle
    <2>3. [tx[i] EXCEPT !.state = s] \in Tx
      BY <2>1 DEF Tx
    <2> QED BY <1>1, <2>2, <2>3, ExceptSeq DEF TxId
  <1> QED BY <1>2, <1>3, <1>4 DEF Next, OtherAction, vars

(* The relayer's list only grows, and keeps what it says.                  *)
LEMMA ChainGrows ==
  ASSUME TypeInv, [Next]_vars
  PROVE  Grows
  <1>1. CASE UNCHANGED tx
    BY <1>1 DEF Grows, TypeInv, TypeOK
  <1>2. ASSUME NEW p \in Procs, Execute(p) PROVE Grows
    <2>1. CASE Submit(p)
      BY <2>1, SubmitAppends DEF Grows
    <2>2. CASE ~Submit(p)
      BY <1>1, <1>2, <2>2, ExecuteKeepsChain DEF chain
    <2> QED BY <2>1, <2>2
  <1>3. ASSUME NEW i \in TxId, Settle(i) PROVE Grows
    BY <1>3, SettleSettles DEF Grows, TypeInv, TypeOK
  <1> QED BY <1>1, <1>2, <1>3 DEF Next, OtherAction, vars

-----------------------------------------------------------------------------
(* Types.                                                                  *)

Calls ==
  /\ pc \in [Procs -> Steps]
  /\ bat \in [Procs -> Batch \cup {None}]
  /\ got \in [Procs -> (1..MaxTx) \cup {None}]

Stores ==
  /\ prepared \in Batch \cup {None}
  /\ review \in Batch \cup {None}
  /\ progress \in Progress \cup {None}
  /\ receipt \in (1..MaxTx) \cup {None}

(* What an invocation without Submit does to what is stored and to itself. *)
LEMMA CallsTyped ==
  ASSUME Stores, Calls, \A q \in Procs : CallTypes(q), Len(tx) \in Nat, Len(tx) <= MaxTx,
         nonce \in 0..MaxNonce,
         progress # None => progress.id = None \/ progress.id \in TxId,
         receipt # None => receipt \in TxId,
         UNCHANGED chain,
         NEW p \in Procs, Execute(p), ~Submit(p)
  PROVE  /\ Stores' /\ Calls' /\ CallTypes(p)'
         /\ progress' # None => progress'.id = None \/ progress'.id \in TxId
         /\ receipt' # None => receipt' \in TxId
  <1> USE DEF Calls, Stores, CallTypes, Holding, Executed, Named, Steps, stored, chain,
              Goto, Leave, Batch, Progress, TxId
  <1>1. CASE Begin(p) \/ Stop(p) \/ Verify(p) \/ Sign(p) \/ Poll(p)
    <2>1. CASE Begin(p)
      BY <2>1 DEF Begin
    <2>2. CASE Stop(p)
      BY <2>2 DEF Stop
    <2>3. CASE Verify(p)
      BY <2>3 DEF Verify
    <2>4. CASE Sign(p)
      BY <2>4 DEF Sign
    <2>5. CASE Poll(p)
      BY <2>5 DEF Poll
    <2> QED BY <1>1, <2>1, <2>2, <2>3, <2>4, <2>5
  <1>2. CASE Load(p)
    BY <1>2 DEF Load
  <1>3. CASE Build(p)
    BY <1>3 DEF Build, NonceNow
  <1>4. CASE StoreReview(p) \/ StorePrepared(p)
    BY <1>4 DEF StoreReview, StorePrepared
  <1>5. CASE ReadProgress(p)
    BY <1>5 DEF ReadProgress, Refuses
  <1>6. CASE Note(p) \/ Record(p) \/ Mark(p)
    BY <1>6 DEF Note, Record, Mark
  <1>7. CASE PutReceipt(p)
    BY <1>7 DEF PutReceipt, NewReceipt
  <1>8. CASE DropPrepared(p) \/ DropReview(p) \/ DropProgress(p)
    BY <1>8 DEF DropPrepared, DropReview, DropProgress
  <1> QED BY <1>1, <1>2, <1>3, <1>4, <1>5, <1>6, <1>7, <1>8 DEF Execute

(* Every step keeps the types.                                             *)
LEMMA StepTypes ==
  ASSUME TypeInv, [Next]_vars
  PROVE  TypeInv'
  <1>0. tx' \in Seq(Tx)
    BY TxTyped
  <1>1. /\ Stores /\ Calls /\ Len(tx) \in Nat /\ Len(tx) <= MaxTx /\ nonce \in 0..MaxNonce
        /\ tx \in Seq(Tx)
        /\ \A q \in Procs : CallTypes(q)
        /\ progress # None => progress.id = None \/ progress.id \in TxId
        /\ receipt # None => receipt \in TxId
    BY DEF TypeInv, TypeOK, Stores, Calls, Tx
  <1>2. \A i \in TxId : i \in TxId'
    BY <1>1, ChainGrows DEF Grows, TxId
  <1>3. ASSUME UNCHANGED <<stored, pc, bat, got>>, nonce' \in 0..MaxNonce, Len(tx') <= MaxTx,
               tx' \in Seq(Tx)
        PROVE  TypeInv'
    BY <1>1, <1>2, <1>3 DEF TypeInv, TypeOK, Stores, Calls, stored, CallTypes, Tx
  <1>4. ASSUME NEW p \in Procs, Execute(p)
        PROVE  TypeInv'
    <2>1. \A q \in Procs \ {p} : CallTypes(q)'
      BY <1>1, <1>2, <1>4, ExecutesAlone DEF CallTypes, Elsewhere, TypeInv
    <2>2. CASE Submit(p)
      <3>1. tx' \in Seq(Tx)
        BY <1>0
      <3>2. Len(tx') = Len(tx) + 1 /\ Len(tx') <= MaxTx
        BY <2>2, SubmitAppends
      <3>3. Calls /\ CallTypes(p) /\ Len(tx) \in Nat
        BY <1>1
      <3>4. ASSUME got' = [got EXCEPT ![p] = Len(tx) + 1], Goto(p, "record"), UNCHANGED bat
            PROVE  Calls' /\ CallTypes(p)'
        <4>1. Len(tx) + 1 \in 1..MaxTx
          BY <3>2, <3>3
        <4>2. pc[p] = "submit" /\ bat[p] # None
          BY <2>2, <3>3 DEF Submit, CallTypes, Holding, Steps
        <4> QED
          BY <3>2, <3>3, <3>4, <4>1, <4>2
             DEF Calls, CallTypes, Named, Executed, Holding, Steps, Goto, TxId
      <3>5. ASSUME Leave(p) PROVE Calls' /\ CallTypes(p)'
        BY <3>3, <3>5 DEF Calls, CallTypes, Named, Executed, Holding, Steps, Goto, Leave
      <3>6. UNCHANGED <<stored, nonce>> /\ Calls' /\ CallTypes(p)'
        BY <2>2, <3>4, <3>5 DEF Submit
      <3> QED BY <1>1, <1>2, <2>1, <3>1, <3>2, <3>6 DEF TypeInv, TypeOK, Stores, Calls, stored, Tx
    <2>3. CASE ~Submit(p)
      <3>1. UNCHANGED chain
        BY <1>4, <2>3, ExecuteKeepsChain
      <3>2. /\ Stores' /\ Calls' /\ CallTypes(p)'
            /\ progress' # None => progress'.id = None \/ progress'.id \in TxId
            /\ receipt' # None => receipt' \in TxId
        BY <1>1, <1>4, <2>3, <3>1, CallsTyped
      <3> QED BY <1>1, <1>2, <2>1, <3>1, <3>2 DEF TypeInv, TypeOK, Stores, Calls, chain, TxId
    <2> QED BY <2>2, <2>3
  <1>5. ASSUME NEW i \in TxId, Settle(i)
        PROVE  TypeInv'
    <2>1. UNCHANGED <<stored, pc, bat, got>>
      BY <1>5 DEF Settle
    <2>2. Len(tx') = Len(tx) /\ nonce' \in 0..MaxNonce
      BY <1>1, <1>5, SettleSettles
    <2> QED BY <1>0, <1>1, <1>3, <2>1, <2>2
  <1>6. CASE OtherAction
    BY <1>1, <1>3, <1>6 DEF OtherAction
  <1>7. CASE UNCHANGED vars
    BY <1>1, <1>3, <1>7 DEF vars, stored
  <1> QED BY <1>4, <1>5, <1>6, <1>7 DEF Next

(* TypeInv holds from the start.                                           *)
LEMMA InitTypes == Init => TypeInv
  BY DEF Init, TypeInv, TypeOK, CallTypes, Holding, Named, Executed, Steps, TxId

(* What is stored, what the relayer has and what each confirm holds in its *)
(* hands is well typed, however many confirms race and reads fail.         *)
THEOREM RelayerTypes == Spec => []TypeOK
  <1>1. TypeInv => TypeOK
    BY DEF TypeInv
  <1> QED BY <1>1, InitTypes, StepTypes, PTL DEF Spec

-----------------------------------------------------------------------------
(* The records tell the truth, whoever races.                              *)

(* The transaction in hand is of the batch in hand, and past the poll it   *)
(* is confirmed.                                                           *)
Paired(p) ==
  /\ pc[p] \in Named => tx[got[p]].batch = bat[p]
  /\ pc[p] \in Executed => tx[got[p]].state = "confirmed"

RecordsInv == RecordsTruth /\ \A p \in Procs : Paired(p)

(* What is true of the transactions there are stays true as they grow.     *)
LEMMA GrownKeepsRecords ==
  ASSUME TypeInv, RecordsInv, Grows
  PROVE  /\ UNCHANGED stored => RecordsTruth'
         /\ \A p \in Procs : UNCHANGED <<pc[p], bat[p], got[p]>> => Paired(p)'
  <1>1. ASSUME UNCHANGED stored PROVE RecordsTruth'
    BY <1>1 DEF TypeInv, RecordsInv, RecordsTruth, Grows, stored
  <1>2. ASSUME NEW p \in Procs, UNCHANGED <<pc[p], bat[p], got[p]>> PROVE Paired(p)'
    <2>1. CallTypes(p) /\ Paired(p)
      BY DEF TypeInv, RecordsInv
    <2> QED BY <1>2, <2>1 DEF CallTypes, Paired, Grows, Named
  <1> QED BY <1>1, <1>2

(* A confirm that polls, notes and clears pairs what it read.              *)
LEMMA ExecuteRecords ==
  ASSUME TypeInv, RecordsInv, NEW p \in Procs, Execute(p), ~Submit(p), UNCHANGED chain
  PROVE  RecordsTruth' /\ Paired(p)'
  <1>1. /\ pc \in [Procs -> Steps]
        /\ bat \in [Procs -> Batch \cup {None}]
        /\ got \in [Procs -> (1..MaxTx) \cup {None}]
        /\ CallTypes(p) /\ Paired(p) /\ RecordsTruth
        /\ progress # None => progress.id = None \/ progress.id \in TxId
        /\ progress \in Progress \cup {None}
        /\ None \notin TxId
    BY DEF TypeInv, TypeOK, RecordsInv, TxId
  <1> USE <1>1 DEF Paired, RecordsTruth, CallTypes, Executed, Named, Holding, Steps,
          Goto, Leave, chain, stored, TxId
  <1>2. CASE Begin(p) \/ Load(p) \/ Build(p) \/ StoreReview(p) \/ StorePrepared(p)
             \/ Verify(p) \/ Sign(p) \/ Stop(p)
    BY <1>2 DEF Begin, Load, Build, StoreReview, StorePrepared, Verify, Sign, Stop
  <1>3. CASE ReadProgress(p)
    BY <1>3 DEF ReadProgress, Refuses
  <1>4. CASE Poll(p)
    BY <1>4 DEF Poll, Confirmed
  <1>5. CASE Note(p) \/ Record(p) \/ Mark(p)
    BY <1>5 DEF Note, Record, Mark, Progress
  <1>6. CASE PutReceipt(p)
    BY <1>6 DEF PutReceipt, NewReceipt
  <1>7. CASE DropPrepared(p) \/ DropReview(p) \/ DropProgress(p)
    BY <1>7 DEF DropPrepared, DropReview, DropProgress
  <1> QED BY <1>2, <1>3, <1>4, <1>5, <1>6, <1>7 DEF Execute

LEMMA RecordsStep ==
  ASSUME TypeInv, RecordsInv, [Next]_vars
  PROVE  RecordsInv'
  <1>0. Grows
    BY ChainGrows
  <1>1. ASSUME UNCHANGED <<stored, pc, bat, got>>
        PROVE  RecordsInv'
    BY <1>0, <1>1, GrownKeepsRecords DEF RecordsInv
  <1>2. ASSUME NEW p \in Procs, Execute(p)
        PROVE  RecordsInv'
    <2>1. \A q \in Procs \ {p} : Paired(q)'
      BY <1>0, <1>2, ExecutesAlone, GrownKeepsRecords DEF Elsewhere, TypeInv
    <2>2. CASE Submit(p)
      <3>1. UNCHANGED stored
        BY <2>2 DEF Submit
      <3>2. /\ pc \in [Procs -> Steps] /\ bat \in [Procs -> Batch \cup {None}]
            /\ got \in [Procs -> (1..MaxTx) \cup {None}]
            /\ CallTypes(p)
        BY DEF TypeInv, TypeOK
      <3>3. Len(tx) \in Nat /\ Len(tx') = Len(tx) + 1 /\ tx'[Len(tx')].batch = bat[p]
        BY <2>2, SubmitAppends
      <3>4. Paired(p)'
        <4>1. CASE got' = [got EXCEPT ![p] = Len(tx) + 1] /\ Goto(p, "record") /\ UNCHANGED bat
          <5>1. got'[p] = Len(tx') /\ bat'[p] = bat[p] /\ pc'[p] = "record"
            BY <3>2, <3>3, <4>1 DEF Goto
          <5> QED BY <3>3, <5>1 DEF Paired, Named, Executed
        <4>2. CASE Leave(p)
          BY <3>2, <4>2 DEF Paired, Named, Executed, Goto, Leave
        <4> QED BY <2>2, <4>1, <4>2 DEF Submit
      <3> QED BY <1>0, <2>1, <3>1, <3>4, GrownKeepsRecords DEF RecordsInv
    <2>3. CASE ~Submit(p)
      BY <1>2, <2>1, <2>3, ExecuteKeepsChain, ExecuteRecords DEF RecordsInv
    <2> QED BY <2>2, <2>3
  <1>3. CASE \E i \in TxId : Settle(i)
    BY <1>1, <1>3 DEF Settle
  <1>4. CASE OtherAction \/ UNCHANGED vars
    BY <1>1, <1>4 DEF OtherAction, vars, stored
  <1> QED BY <1>2, <1>3, <1>4 DEF Next

LEMMA InitRecords == Init => RecordsInv
  BY DEF Init, RecordsInv, RecordsTruth, Paired, Named, Executed

LEMMA RecordsAlways == Spec => [](TypeInv /\ RecordsInv)
  BY InitTypes, InitRecords, StepTypes, RecordsStep, PTL DEF Spec

(* However many confirms race, wherever they are killed and whatever reads *)
(* fail, receipt.json names only a transaction that was confirmed, and     *)
(* progress.json pairs an id only with the batch it was submitted for.     *)
THEOREM RecordsAreTrue == Spec => []RecordsTruth
  <1>1. RecordsInv => RecordsTruth
    BY DEF RecordsInv
  <1> QED BY <1>1, RecordsAlways, PTL

-----------------------------------------------------------------------------
(* Confirms that follow each other.                                        *)

(* At most one invocation runs at a time.                                  *)
OneRuns == \A p, q \in Procs : pc[p] # "idle" /\ pc[q] # "idle" => p = q

(* While one takes a step, the others are idle.                            *)
LEMMA OthersIdle ==
  ASSUME TypeOK, OneRuns, Follows, NEW p \in Procs, Execute(p)
  PROVE  \A q \in Procs \ {p} : pc[q] = "idle" /\ pc'[q] = "idle"
  <1>1. Elsewhere(p)
    BY ExecutesAlone
  <1>2. pc[p] # "idle" \/ pc'[p] = "load"
    BY DEF TypeOK, Execute, Goto, Begin, Load, Build, StoreReview, StorePrepared, Verify,
       ReadProgress, Poll, Note, PutReceipt, DropPrepared, DropReview, DropProgress, Sign,
       Mark, Submit, Record, Stop
  <1>3. \A q \in Procs \ {p} : pc[q] = "idle"
    BY <1>2 DEF OneRuns, Follows
  <1> QED BY <1>1, <1>3 DEF Elsewhere

LEMMA OneRunsStep ==
  ASSUME TypeOK, OneRuns, [Next /\ Follows]_vars
  PROVE  OneRuns'
  <1>1. ASSUME Follows, NEW p \in Procs, Execute(p) PROVE OneRuns'
    BY <1>1, OthersIdle DEF OneRuns
  <1>2. ASSUME UNCHANGED pc PROVE OneRuns'
    BY <1>2 DEF OneRuns
  <1> QED BY <1>1, <1>2 DEF Next, Settle, OtherAction, vars

(* The list is in the order of the nonces, so no batch is there twice.     *)
Ascending == \A i, j \in TxId : i < j => tx[i].batch.nonce < tx[j].batch.nonce

(* What was confirmed used up its nonce.                                   *)
Spent == \A i \in TxId : tx[i].state = "confirmed" => tx[i].batch.nonce < nonce

(* All that is not of the prepared batch is done with.                     *)
OthersConfirmed == \A i \in TxId : tx[i].batch = prepared \/ tx[i].state = "confirmed"

(* A batch comes after all that was submitted before it.                   *)
After(b) == \A i \in TxId : tx[i].batch.nonce < b.nonce
Latest == prepared # None => \A i \in TxId : tx[i].batch = prepared
                                          \/ tx[i].batch.nonce < prepared.nonce

(* What was submitted of the prepared batch left its mark.                 *)
Noted ==
  \A i \in TxId : tx[i].batch = prepared => progress # None /\ progress.digest = prepared

(* What a confirm knows, by its step.                                      *)
Where(p) ==
  /\ pc[p] \in {"build", "review", "prepare", "drop_review", "drop_progress"} =>
       prepared = None
  /\ pc[p] \in Holding \ {"review", "prepare", "drop_review", "drop_progress"} =>
       prepared = bat[p]
  /\ pc[p] \in {"review", "prepare", "sign", "mark", "submit"} => After(bat[p])
  /\ pc[p] = "submit" => progress # None /\ progress.digest = bat[p]
  /\ pc[p] = "drop_prepared" => receipt = got[p]

ListInv == Ascending /\ Spent /\ OthersConfirmed /\ Latest /\ Noted
OneInv == ListInv /\ \A p \in Procs : Where(p)

(* None is no batch, and the transactions are of batches.                  *)
LEMMA BatchFacts ==
  ASSUME TypeInv
  PROVE  /\ None \notin Batch
         /\ \A b \in Batch : b.nonce \in Nat
         /\ Len(tx) \in Nat /\ nonce \in Nat
         /\ \A i \in TxId : tx[i].batch \in Batch /\ tx[i].batch.nonce \in Nat
  <1>1. None \notin Batch /\ \A b \in Batch : b.nonce \in Nat
    BY DEF Batch
  <1>2. tx \in Seq(Tx) /\ nonce \in Nat
    BY DEF TypeInv, TypeOK, Tx
  <1>3. \A i \in TxId : tx[i] \in Tx
    BY <1>2, ElementOfSeq DEF TxId
  <1> QED BY <1>1, <1>2, <1>3 DEF Tx

(* The relayer settles, or the nonce moves on.                             *)
LEMMA ChainKeepsOne ==
  ASSUME TypeInv, OneInv, UNCHANGED <<stored, pc, bat, got>>,
         OtherAction \/ \E i \in TxId : Settle(i)
  PROVE  OneInv'
  <1>1. /\ Len(tx') = Len(tx) /\ nonce' \in Nat /\ nonce <= nonce'
        /\ \A j \in TxId : /\ tx'[j].batch = tx[j].batch
                           /\ \/ tx'[j].state = "confirmed" <=> tx[j].state = "confirmed"
                              \/ tx[j].state = "new" /\ tx[j].batch.nonce < nonce'
    <2>1. CASE OtherAction
      BY <2>1, BatchFacts DEF OtherAction
    <2>2. ASSUME NEW i \in TxId, Settle(i)
          PROVE  /\ Len(tx') = Len(tx) /\ nonce' \in Nat /\ nonce <= nonce'
                 /\ \A j \in TxId : /\ tx'[j].batch = tx[j].batch
                                    /\ \/ tx'[j].state = "confirmed" <=> tx[j].state = "confirmed"
                                       \/ tx[j].state = "new" /\ tx[j].batch.nonce < nonce'
      BY <2>2, SettleSettles, BatchFacts
    <2> QED BY <2>1, <2>2
  <1>2. /\ \A j \in TxId : tx[j].batch.nonce \in Nat
        /\ nonce \in Nat /\ TxId' = TxId
    BY <1>1, BatchFacts DEF TxId
  <1>3. UNCHANGED <<prepared, progress, receipt>>
    BY DEF stored
  <1>4. Ascending' /\ Latest' /\ Noted' /\ \A p \in Procs : Where(p)'
    BY <1>1, <1>2, <1>3 DEF OneInv, ListInv, Ascending, Latest, Noted, Where, After
  <1>5. Spent'
    BY <1>1, <1>2 DEF OneInv, ListInv, Spent
  <1>6. OthersConfirmed'
    BY <1>1, <1>2, <1>3 DEF OneInv, ListInv, OthersConfirmed
  <1> QED BY <1>4, <1>5, <1>6 DEF OneInv, ListInv

(* Submit adds the one transaction of the prepared batch.                  *)
LEMMA SubmitKeepsOne ==
  ASSUME TypeInv, OneInv, NEW p \in Procs, Submit(p)
  PROVE  ListInv' /\ Where(p)'
  <1>1. /\ bat[p] \in Batch /\ prepared = bat[p] /\ After(bat[p])
        /\ progress # None /\ progress.digest = bat[p]
    BY SubmitAppends DEF Submit, OneInv, Where, Holding, Steps
  <1>2. UNCHANGED <<prepared, progress, receipt, nonce>>
    BY DEF Submit, stored
  <1>3. /\ Len(tx) \in Nat /\ nonce \in Nat /\ Len(tx') = Len(tx) + 1
        /\ tx'[Len(tx')].batch = bat[p] /\ tx'[Len(tx')].state = "new"
        /\ \A i \in TxId : tx'[i] = tx[i]
        /\ \A i \in TxId : tx[i].batch.nonce \in Nat
        /\ bat[p].nonce \in Nat /\ bat[p] # None
        /\ TxId' = TxId \cup {Len(tx')}
    BY <1>1, SubmitAppends, BatchFacts DEF TxId
  <1>4. Ascending'
    <2> SUFFICES ASSUME NEW i \in TxId', NEW j \in TxId', i < j
                 PROVE  tx'[i].batch.nonce < tx'[j].batch.nonce
      BY DEF Ascending
    <2>1. i \in TxId
      BY <1>3 DEF TxId
    <2>2. CASE j \in TxId
      BY <1>3, <2>1, <2>2 DEF OneInv, ListInv, Ascending
    <2>3. CASE j = Len(tx')
      BY <1>1, <1>3, <2>1, <2>3 DEF After
    <2> QED BY <1>3, <2>2, <2>3
  <1>7. Latest'
    BY <1>1, <1>2, <1>3 DEF Latest, After
  <1>5. Spent' /\ OthersConfirmed' /\ Noted'
    BY <1>1, <1>2, <1>3
       DEF OneInv, ListInv, Spent, OthersConfirmed, Noted
  <1>6. Where(p)'
    <2>1. pc \in [Procs -> Steps] /\ bat \in [Procs -> Batch \cup {None}]
      BY DEF TypeInv, TypeOK
    <2>2. pc'[p] = "idle" \/ (pc'[p] = "record" /\ bat'[p] = bat[p])
      BY <2>1 DEF Submit, Goto, Leave
    <2>3. prepared' = bat[p]
      BY <1>1, <1>2
    <2>4. CASE pc'[p] = "idle"
      BY <2>4 DEF Where, Holding
    <2>5. CASE pc'[p] = "record" /\ bat'[p] = bat[p]
      BY <2>3, <2>5 DEF Where
    <2> QED BY <2>2, <2>4, <2>5
  <1> QED BY <1>4, <1>5, <1>6, <1>7 DEF ListInv

(* The other steps of a confirm.                                           *)
LEMMA ExecuteKeepsOne ==
  ASSUME TypeInv, RecordsInv, OneInv, ReadsTruly,
         NEW p \in Procs, Execute(p), ~Submit(p), UNCHANGED chain
  PROVE  ListInv' /\ Where(p)'
  <1>1. /\ pc \in [Procs -> Steps]
        /\ bat \in [Procs -> Batch \cup {None}]
        /\ got \in [Procs -> (1..MaxTx) \cup {None}]
        /\ CallTypes(p) /\ Paired(p) /\ Where(p) /\ ListInv
        /\ receipt # None => receipt \in TxId
        /\ prepared \in Batch \cup {None}
    BY DEF TypeInv, TypeOK, RecordsInv, OneInv
  <1>2. /\ None \notin Batch /\ \A b \in Batch : b.nonce \in Nat
        /\ Len(tx) \in Nat /\ nonce \in Nat
        /\ \A i \in TxId : tx[i].batch \in Batch /\ tx[i].batch.nonce \in Nat
    BY BatchFacts
  <1>3. tx' = tx /\ nonce' = nonce /\ TxId' = TxId
    BY DEF chain, TxId
  <1>4. Ascending' /\ Spent'
    BY <1>1, <1>3 DEF ListInv, Ascending, Spent
  <1>5. ASSUME UNCHANGED <<prepared, progress, receipt>>
        PROVE  ListInv'
    BY <1>1, <1>3, <1>4, <1>5
       DEF ListInv, OthersConfirmed, Latest, Noted
  <1> DEFINE Rest == /\ pc'[p] \in {"build", "review", "prepare", "drop_review", "drop_progress"} =>
                         prepared' = None
                     /\ pc'[p] \in Holding \ {"review", "prepare", "drop_review", "drop_progress"} =>
                         prepared' = bat'[p]
                     /\ pc'[p] \in {"review", "prepare", "sign", "mark", "submit"} =>
                         After(bat'[p])
                     /\ pc'[p] = "submit" => progress' # None /\ progress'.digest = bat'[p]
                     /\ pc'[p] = "drop_prepared" => receipt' = got'[p]
  <1>6. Rest => Where(p)'
    BY <1>3 DEF Where, After
  <1>7. CASE Begin(p) \/ Stop(p) \/ Verify(p) \/ Sign(p) \/ Poll(p)
    <2>1. UNCHANGED <<prepared, progress, receipt>>
      BY <1>7 DEF Begin, Stop, Verify, Sign, Poll, stored
    <2>2. Rest
      BY <1>1, <1>7, <2>1 DEF Begin, Stop, Verify, Sign, Poll, Where, Goto, Leave, Holding, Steps
    <2> QED BY <1>5, <1>6, <2>1, <2>2
  <1>8. CASE Load(p)
    <2>1. UNCHANGED <<prepared, progress, receipt>>
      BY <1>8 DEF Load, stored
    <2>2. Rest
      BY <1>1, <1>8, <2>1 DEF Load, Goto, Holding, Steps
    <2> QED BY <1>5, <1>6, <2>1, <2>2
  <1>9. CASE Build(p)
    <2>1. UNCHANGED <<prepared, progress, receipt>> /\ prepared = None
      BY <1>1, <1>9 DEF Build, stored, Where
    <2>2. PICK f \in Forms : bat' = [bat EXCEPT ![p] = [nonce |-> nonce, form |-> f]]
      BY <1>9 DEF Build, NonceNow
    <2>3. bat'[p].nonce = nonce /\ pc'[p] = "review"
      BY <1>1, <1>9, <2>2 DEF Build, Goto
    <2>4. After(bat'[p])
      BY <1>1, <1>2, <2>1, <2>3 DEF ListInv, OthersConfirmed, Spent, After
    <2>5. Rest
      BY <2>1, <2>3, <2>4 DEF Holding
    <2> QED BY <1>5, <1>6, <2>1, <2>5
  <1>10. CASE StoreReview(p)
    <2>1. UNCHANGED <<prepared, progress, receipt>>
      BY <1>10 DEF StoreReview
    <2>2. Rest
      BY <1>1, <1>10 DEF StoreReview, Where, Goto, Holding
    <2> QED BY <1>5, <1>6, <2>1, <2>2
  <1>11. CASE StorePrepared(p)
    <2>1. /\ prepared' = bat[p] /\ prepared = None /\ After(bat[p])
          /\ UNCHANGED <<progress, receipt>>
          /\ bat[p] \in Batch
      BY <1>1, <1>11 DEF StorePrepared, Where, CallTypes, Holding, Steps
    <2>2. \A i \in TxId : tx[i].batch # bat[p]
      BY <1>2, <2>1 DEF After
    <2>3. OthersConfirmed' /\ Latest' /\ Noted'
      BY <1>1, <1>2, <1>3, <2>1, <2>2
         DEF ListInv, OthersConfirmed, Latest, Noted, After
    <2>4. Rest
      BY <1>1, <1>11 DEF StorePrepared, Leave, Goto, Holding
    <2> QED BY <1>4, <1>6, <2>3, <2>4 DEF ListInv
  <1>12. CASE ReadProgress(p)
    <2>1. UNCHANGED <<prepared, progress, receipt>> /\ prepared = bat[p] /\ prepared # None
      BY <1>1, <1>12 DEF ReadProgress, stored, Where, CallTypes, Holding, Steps
    <2>2. CASE progress = None
      <3>1. After(bat[p])
        BY <1>1, <2>1, <2>2 DEF ListInv, Noted, Latest, After
      <3>2. pc'[p] = "sign" /\ bat'[p] = bat[p]
        BY <1>1, <1>12, <2>2 DEF ReadProgress, Goto
      <3> QED BY <1>5, <1>6, <2>1, <3>1, <3>2
    <2>3. CASE progress # None
      <3>1. pc'[p] = "idle" \/ (pc'[p] = "poll" /\ bat'[p] = bat[p])
        BY <1>1, <1>12, <2>3 DEF ReadProgress, ReadsTruly, Refuses, Goto, Leave
      <3>2. Rest
        BY <2>1, <3>1 DEF Holding
      <3> QED BY <1>5, <1>6, <2>1, <3>2
    <2> QED BY <2>2, <2>3
  <1>13. CASE Note(p) \/ Record(p) \/ Mark(p)
    <2>1. /\ UNCHANGED <<prepared, receipt>> /\ prepared = bat[p]
          /\ progress' # None /\ progress'.digest = bat[p]
      <3>1. \E i : progress' = [digest |-> bat[p], id |-> i]
                   /\ (i \in (1..MaxTx) \/ i = None)
        BY <1>1, <1>13 DEF Note, Record, Mark, Named, Executed, CallTypes
      <3>2. bat[p] \in Batch
        BY <1>1, <1>13 DEF Note, Record, Mark, CallTypes, Holding, Steps
      <3>3. progress' \in [digest : [nonce : Nat, form : Forms], id : Nat \cup {None}]
        BY <3>1, <3>2 DEF Batch
      <3>4. progress' # None /\ progress'.digest = bat[p]
        BY <3>1, <3>3
      <3> QED BY <1>1, <1>13, <3>4 DEF Note, Record, Mark, Where, Holding, Steps
    <2>2. OthersConfirmed' /\ Latest' /\ Noted'
      BY <1>1, <1>3, <2>1 DEF ListInv, OthersConfirmed, Latest, Noted
    <2>3. pc'[p] = "idle" \/ (pc'[p] = "submit" /\ bat'[p] = bat[p] /\ After(bat[p]))
      BY <1>1, <1>13 DEF Note, Record, Mark, Goto, Leave, Where
    <2>4. Rest
      BY <2>1, <2>3 DEF Holding
    <2> QED BY <1>4, <1>6, <2>2, <2>4 DEF ListInv
  <1>14. CASE PutReceipt(p)
    <2>1. /\ UNCHANGED <<prepared, progress>> /\ receipt' = got[p] /\ got[p] \in TxId
          /\ prepared = bat[p] /\ tx[got[p]].batch = bat[p]
          /\ pc'[p] = "drop_prepared" /\ UNCHANGED <<bat, got>>
          /\ got[p] # None
      BY <1>1, <1>2, <1>14
         DEF PutReceipt, NewReceipt, CallTypes, Paired, Named, Executed, Where, Holding, Steps,
             Goto, TxId
    <2>2. \A i \in TxId : i > got[p] => tx[i].batch.nonce > prepared.nonce
      BY <1>1, <2>1 DEF ListInv, Ascending
    <2>3. \A i \in TxId : tx[i].batch = prepared \/ i <= got[p]
      BY <1>1, <1>2, <2>1, <2>2 DEF ListInv, Latest, TxId
    <2>4. OthersConfirmed' /\ Latest' /\ Noted'
      BY <1>1, <1>3, <2>1, <2>3
         DEF ListInv, OthersConfirmed, Latest, Noted, TxId
    <2>5. Rest
      BY <2>1
    <2> QED BY <1>4, <1>6, <2>4, <2>5 DEF ListInv
  <1>15. CASE DropPrepared(p)
    <2>1. /\ prepared' = None /\ UNCHANGED <<progress, receipt, bat, got>>
          /\ prepared = bat[p] /\ receipt = got[p] /\ got[p] \in TxId
          /\ tx[got[p]].batch = bat[p] /\ tx[got[p]].state = "confirmed"
          /\ pc'[p] = "drop_review"
      BY <1>1, <1>15
         DEF DropPrepared, CallTypes, Paired, Named, Executed, Where, Holding, Steps, Goto
    <2>2. \A i \in TxId : tx[i].batch = prepared => i = got[p]
      <3> SUFFICES ASSUME NEW i \in TxId, tx[i].batch = prepared, i # got[p]
                   PROVE  FALSE
        OBVIOUS
      <3>1. i < got[p] \/ got[p] < i
        BY <1>2, <2>1 DEF TxId
      <3> QED BY <1>1, <1>2, <2>1, <3>1 DEF ListInv, Ascending
    <2>3. receipt # None /\ receipt >= got[p]
      BY <1>2, <2>1 DEF TxId
    <2>4. OthersConfirmed' /\ Latest' /\ Noted'
      BY <1>1, <1>2, <1>3, <2>1, <2>2, <2>3
         DEF ListInv, OthersConfirmed, Latest, Noted
    <2>5. Rest
      BY <2>1
    <2> QED BY <1>4, <1>6, <2>4, <2>5 DEF ListInv
  <1>16. CASE DropReview(p)
    <2>1. UNCHANGED <<prepared, progress, receipt>>
      BY <1>16 DEF DropReview
    <2>2. Rest
      BY <1>1, <1>16 DEF DropReview, Where, Goto
    <2> QED BY <1>5, <1>6, <2>1, <2>2
  <1>17. CASE DropProgress(p)
    <2>1. prepared = None /\ UNCHANGED <<prepared, receipt>> /\ pc'[p] = "idle"
      BY <1>1, <1>17 DEF DropProgress, Where, Leave, Goto
    <2>2. OthersConfirmed' /\ Latest' /\ Noted'
      BY <1>1, <1>2, <1>3, <2>1
         DEF ListInv, OthersConfirmed, Latest, Noted
    <2>3. Rest
      BY <2>1 DEF Holding
    <2> QED BY <1>4, <1>6, <2>2, <2>3 DEF ListInv
  <1> QED
    BY <1>7, <1>8, <1>9, <1>10, <1>11, <1>12, <1>13, <1>14, <1>15, <1>16, <1>17 DEF Execute

LEMMA OneStep ==
  ASSUME TypeInv, RecordsInv, OneRuns, OneInv, [Next /\ Follows /\ ReadsTruly]_vars
  PROVE  OneInv'
  <1>1. ASSUME Follows, ReadsTruly, NEW p \in Procs, Execute(p) PROVE OneInv'
    <2>1. ListInv' /\ Where(p)'
      BY <1>1, SubmitKeepsOne, ExecuteKeepsOne, ExecuteKeepsChain
    <2>2. \A q \in Procs \ {p} : pc'[q] = "idle"
      BY <1>1, OthersIdle DEF TypeInv
    <2>3. \A q \in Procs \ {p} : Where(q)'
      BY <2>2 DEF Where, Holding
    <2> QED BY <2>1, <2>3 DEF OneInv
  <1>2. CASE (\E i \in TxId : Settle(i)) \/ OtherAction
    BY <1>2, ChainKeepsOne DEF Settle, OtherAction
  <1>3. CASE UNCHANGED vars
    <2>1. ListInv'
      BY <1>3 DEF vars, OneInv, ListInv, Ascending, Spent, OthersConfirmed, Latest, Noted,
           TxId
    <2>2. \A p \in Procs : Where(p)'
      BY <1>3 DEF vars, OneInv, Where, After, TxId
    <2> QED BY <2>1, <2>2 DEF OneInv
  <1> QED BY <1>1, <1>2, <1>3 DEF Next

LEMMA InitOne == Init => OneRuns /\ OneInv
  BY DEF Init, OneInv, ListInv, Ascending, Spent, OthersConfirmed, Latest, Noted,
     Where, Holding, TxId, OneRuns

LEMMA OneAlways == OrderlySpec => [](TypeInv /\ RecordsInv /\ OneRuns /\ OneInv)
  <1>1. TypeInv /\ RecordsInv /\ OneRuns /\ OneInv /\ [Next /\ Follows /\ ReadsTruly]_vars
        => (TypeInv /\ RecordsInv /\ OneRuns /\ OneInv)'
    BY StepTypes, RecordsStep, OneRunsStep, OneStep DEF TypeInv
  <1> QED BY <1>1, InitTypes, InitRecords, InitOne, PTL DEF OrderlySpec

LEMMA OneForgetsNone ==
  ASSUME TypeInv, OneInv
  PROVE  NoneForgotten
  BY BatchFacts DEF OneInv, ListInv, OthersConfirmed, Noted, NoneForgotten

(* A transaction that can still move the wallet's money is never forgotten *)
(* by execute: while it is unsettled its batch is the prepared one and     *)
(* progress.json names it, wherever earlier confirms were killed.          *)
THEOREM NoneIsForgotten == OrderlySpec => []NoneForgotten
  <1> QED BY OneAlways, OneForgetsNone, PTL

-----------------------------------------------------------------------------
(* Confirms that follow each other, though reads of progress.json fail and *)
(* a batch is submitted again: no executed batch is cleared before its     *)
(* receipt.                                                                *)

(* The list is in the order of the nonces, though a batch may be there     *)
(* more than once, of which one at most was executed.                      *)
Climbing == \A i, j \in TxId : i < j => tx[i].batch.nonce <= tx[j].batch.nonce
ExecutedOnce ==
  \A i, j \in TxId :
    tx[i].state = "confirmed" /\ tx[j].state = "confirmed"
    /\ tx[i].batch.nonce = tx[j].batch.nonce => i = j

(* What is not of the prepared batch can no longer be executed.            *)
OthersOvertaken == \A i \in TxId : tx[i].batch = prepared \/ tx[i].batch.nonce < nonce

(* What a confirm knows, by its step, whatever it read of progress.json.   *)
Stands(p) ==
  /\ pc[p] \in {"build", "review", "prepare", "drop_review", "drop_progress"} =>
       prepared = None
  /\ pc[p] \in Holding \ {"review", "prepare", "drop_review", "drop_progress"} =>
       prepared = bat[p]
  /\ pc[p] \in {"review", "prepare"} => After(bat[p])
  /\ pc[p] = "drop_prepared" => receipt = got[p]

Orderly == Climbing /\ ExecutedOnce /\ Spent /\ OthersOvertaken /\ Latest /\ ReceiptFirst
OrderlyInv == Orderly /\ \A p \in Procs : Stands(p)

(* The relayer executes a transaction of the prepared batch only.          *)
LEMMA ChainKeepsOrder ==
  ASSUME TypeInv, OrderlyInv, UNCHANGED <<stored, pc, bat, got>>,
         OtherAction \/ \E i \in TxId : Settle(i)
  PROVE  OrderlyInv'
  <1>0. /\ \A j \in TxId : tx[j].batch.nonce \in Nat
        /\ Len(tx) \in Nat /\ nonce \in Nat
        /\ UNCHANGED <<prepared, progress, receipt>>
    BY BatchFacts DEF stored
  <1>1. CASE OtherAction
    <2>1. tx' = tx /\ TxId' = TxId /\ nonce' \in Nat /\ nonce <= nonce'
      BY <1>0, <1>1 DEF OtherAction, TxId
    <2>2. Climbing' /\ ExecutedOnce' /\ Latest' /\ ReceiptFirst'
      <3>1. Climbing' /\ ExecutedOnce'
        BY <2>1 DEF OrderlyInv, Orderly, Climbing, ExecutedOnce
      <3>2. Latest' /\ ReceiptFirst'
        BY <1>0, <2>1 DEF OrderlyInv, Orderly, Latest, ReceiptFirst
      <3> QED BY <3>1, <3>2
    <2>3. Spent' /\ OthersOvertaken'
      BY <1>0, <2>1 DEF OrderlyInv, Orderly, Spent, OthersOvertaken
    <2>4. \A p \in Procs : Stands(p)'
      BY <1>0, <2>1 DEF OrderlyInv, Stands, After
    <2> QED BY <2>2, <2>3, <2>4 DEF OrderlyInv, Orderly
  <1>2. ASSUME NEW i \in TxId, Settle(i)
        PROVE  OrderlyInv'
    <2>1. /\ TxId' = TxId /\ nonce' \in Nat /\ nonce <= nonce'
          /\ \A j \in TxId : tx'[j].batch = tx[j].batch
          /\ \A j \in TxId \ {i} : tx'[j].state = tx[j].state
          /\ tx'[i].state = "confirmed" => tx[i].batch.nonce = nonce /\ nonce' = nonce + 1
      BY <1>0, <1>2, SettleSettles DEF TxId
    <2>2. Climbing' /\ Latest' /\ OthersOvertaken'
      <3>1. Climbing'
        BY <2>1 DEF OrderlyInv, Orderly, Climbing
      <3>2. Latest'
        BY <1>0, <2>1 DEF OrderlyInv, Orderly, Latest
      <3>3. \A j \in TxId : tx[j].batch.nonce < nonce => tx[j].batch.nonce < nonce'
        BY <1>0, <2>1
      <3>4. OthersOvertaken'
        BY <1>0, <2>1, <3>3 DEF OrderlyInv, Orderly, OthersOvertaken
      <3> QED BY <3>1, <3>2, <3>4
    <2>3. \A j \in TxId \ {i} : tx[j].state = "confirmed" => tx[j].batch.nonce < nonce
      BY DEF OrderlyInv, Orderly, Spent
    <2>4. Spent'
      BY <1>0, <2>1, <2>3 DEF Spent
    <2>5. ExecutedOnce'
      <3> SUFFICES ASSUME NEW j \in TxId, NEW k \in TxId,
                          tx'[j].state = "confirmed", tx'[k].state = "confirmed",
                          tx[j].batch.nonce = tx[k].batch.nonce
                   PROVE  j = k
        BY <2>1 DEF ExecutedOnce
      <3>1. CASE j # i /\ k # i
        BY <2>1, <3>1 DEF OrderlyInv, Orderly, ExecutedOnce
      <3>2. CASE j = i /\ k # i
        BY <1>0, <2>1, <2>3, <3>2
      <3>3. CASE j # i /\ k = i
        BY <1>0, <2>1, <2>3, <3>3
      <3> QED BY <3>1, <3>2, <3>3
    <2>6. ReceiptFirst'
      <3>1. tx[i].batch.nonce = nonce => tx[i].batch = prepared
        BY <1>0 DEF OrderlyInv, Orderly, OthersOvertaken
      <3>2. tx'[i].state = "confirmed" => tx[i].batch = prepared
        BY <2>1, <3>1
      <3> QED BY <1>0, <2>1, <3>2 DEF OrderlyInv, Orderly, ReceiptFirst
    <2>7. \A p \in Procs : Stands(p)'
      BY <1>0, <2>1 DEF OrderlyInv, Stands, After
    <2> QED BY <2>2, <2>4, <2>5, <2>6, <2>7 DEF OrderlyInv, Orderly
  <1> QED BY <1>1, <1>2

(* Submit adds a transaction of the prepared batch, the first or another.  *)
LEMMA SubmitKeepsOrder ==
  ASSUME TypeInv, OrderlyInv, NEW p \in Procs, Submit(p)
  PROVE  Orderly' /\ Stands(p)'
  <1>1. bat[p] \in Batch /\ prepared = bat[p]
    BY SubmitAppends DEF Submit, OrderlyInv, Stands, Holding, Steps
  <1>2. UNCHANGED <<prepared, progress, receipt, nonce>>
    BY DEF Submit, stored
  <1>3. /\ Len(tx) \in Nat /\ nonce \in Nat /\ Len(tx') = Len(tx) + 1
        /\ tx'[Len(tx')].batch = bat[p] /\ tx'[Len(tx')].state = "new"
        /\ \A i \in TxId : tx'[i] = tx[i]
        /\ \A i \in TxId : tx[i].batch.nonce \in Nat
        /\ bat[p].nonce \in Nat /\ bat[p] # None
        /\ TxId' = TxId \cup {Len(tx')}
    BY <1>1, SubmitAppends, BatchFacts DEF TxId
  <1>4. Climbing'
    <2> SUFFICES ASSUME NEW i \in TxId', NEW j \in TxId', i < j
                 PROVE  tx'[i].batch.nonce <= tx'[j].batch.nonce
      BY DEF Climbing
    <2>1. i \in TxId
      BY <1>3 DEF TxId
    <2>2. CASE j \in TxId
      BY <1>3, <2>1, <2>2 DEF OrderlyInv, Orderly, Climbing
    <2>3. CASE j = Len(tx')
      BY <1>1, <1>3, <2>1, <2>3 DEF OrderlyInv, Orderly, Latest
    <2> QED BY <1>3, <2>2, <2>3
  <1>5. Latest'
    BY <1>1, <1>2, <1>3 DEF OrderlyInv, Orderly, Latest
  <1>6. Spent' /\ OthersOvertaken' /\ ExecutedOnce' /\ ReceiptFirst'
    BY <1>1, <1>2, <1>3
       DEF OrderlyInv, Orderly, Spent, OthersOvertaken, ExecutedOnce, ReceiptFirst
  <1>7. Stands(p)'
    <2>1. pc \in [Procs -> Steps] /\ bat \in [Procs -> Batch \cup {None}]
      BY DEF TypeInv, TypeOK
    <2>2. pc'[p] = "idle" \/ (pc'[p] = "record" /\ bat'[p] = bat[p])
      BY <2>1 DEF Submit, Goto, Leave
    <2>3. prepared' = bat[p]
      BY <1>1, <1>2
    <2> QED BY <2>2, <2>3 DEF Stands, Holding
  <1> QED BY <1>4, <1>5, <1>6, <1>7 DEF Orderly

(* The other steps of a confirm.                                           *)
LEMMA ExecuteKeepsOrder ==
  ASSUME TypeInv, RecordsInv, OrderlyInv,
         NEW p \in Procs, Execute(p), ~Submit(p), UNCHANGED chain
  PROVE  Orderly' /\ Stands(p)'
  <1>1. /\ pc \in [Procs -> Steps]
        /\ bat \in [Procs -> Batch \cup {None}]
        /\ got \in [Procs -> (1..MaxTx) \cup {None}]
        /\ CallTypes(p) /\ Paired(p) /\ Stands(p) /\ Orderly
    BY DEF TypeInv, TypeOK, RecordsInv, OrderlyInv
  <1>2. /\ None \notin Batch /\ \A b \in Batch : b.nonce \in Nat
        /\ Len(tx) \in Nat /\ nonce \in Nat
        /\ \A i \in TxId : tx[i].batch \in Batch /\ tx[i].batch.nonce \in Nat
    BY BatchFacts
  <1>3. tx' = tx /\ nonce' = nonce /\ TxId' = TxId
    BY DEF chain, TxId
  <1>4. Climbing' /\ ExecutedOnce' /\ Spent'
    BY <1>1, <1>3 DEF Orderly, Climbing, ExecutedOnce, Spent
  <1>5. ASSUME UNCHANGED <<prepared, receipt>>
        PROVE  Orderly'
    BY <1>1, <1>3, <1>4, <1>5 DEF Orderly, OthersOvertaken, Latest, ReceiptFirst
  <1> DEFINE Rest == /\ pc'[p] \in {"build", "review", "prepare", "drop_review", "drop_progress"} =>
                         prepared' = None
                     /\ pc'[p] \in Holding \ {"review", "prepare", "drop_review", "drop_progress"} =>
                         prepared' = bat'[p]
                     /\ pc'[p] \in {"review", "prepare"} => After(bat'[p])
                     /\ pc'[p] = "drop_prepared" => receipt' = got'[p]
  <1>6. Rest => Stands(p)'
    BY <1>3 DEF Stands, After
  <1>7. CASE \/ Begin(p) \/ Load(p) \/ Stop(p) \/ Verify(p) \/ ReadProgress(p) \/ Poll(p)
             \/ Sign(p) \/ Mark(p) \/ Note(p) \/ Record(p) \/ DropReview(p) \/ DropProgress(p)
    <2>1. UNCHANGED <<prepared, receipt>>
      BY <1>7 DEF Begin, Load, Stop, Verify, ReadProgress, Poll, Sign, Mark, Note, Record,
           DropReview, DropProgress, stored
    <2>2. CASE Begin(p) \/ Stop(p) \/ Verify(p) \/ Poll(p) \/ Sign(p) \/ Mark(p)
      BY <1>1, <1>5, <1>6, <2>1, <2>2
         DEF Begin, Stop, Verify, Poll, Sign, Mark, Stands, Goto, Leave, Holding, Steps
    <2>3. CASE Load(p)
      BY <1>1, <1>5, <1>6, <2>1, <2>3 DEF Load, Goto, Holding, Steps
    <2>4. CASE ReadProgress(p)
      <3>1. pc'[p] \in {"idle", "sign", "poll"} /\ (pc'[p] # "idle" => bat'[p] = bat[p])
        BY <1>1, <2>4 DEF ReadProgress, Goto, Leave
      <3>2. prepared = bat[p]
        BY <1>1, <2>4 DEF ReadProgress, Stands, Holding, Steps
      <3> QED BY <1>5, <1>6, <2>1, <3>1, <3>2 DEF Holding
    <2>5. CASE Note(p) \/ Record(p) \/ DropProgress(p)
      BY <1>1, <1>5, <1>6, <2>1, <2>5 DEF Note, Record, DropProgress, Goto, Leave, Holding
    <2>6. CASE DropReview(p)
      BY <1>1, <1>5, <1>6, <2>1, <2>6 DEF DropReview, Stands, Goto
    <2> QED BY <1>7, <2>2, <2>3, <2>4, <2>5, <2>6
  <1>8. CASE Build(p)
    <2>1. UNCHANGED <<prepared, progress, receipt>> /\ prepared = None
      BY <1>1, <1>8 DEF Build, stored, Stands
    <2>2. PICK f \in Forms : bat' = [bat EXCEPT ![p] = [nonce |-> nonce, form |-> f]]
      BY <1>8 DEF Build, NonceNow
    <2>3. bat'[p].nonce = nonce /\ pc'[p] = "review"
      BY <1>1, <1>8, <2>2 DEF Build, Goto
    <2>4. After(bat'[p])
      BY <1>1, <1>2, <2>1, <2>3 DEF Orderly, OthersOvertaken, After
    <2> QED BY <1>5, <1>6, <2>1, <2>3, <2>4 DEF Holding
  <1>9. CASE StoreReview(p)
    BY <1>1, <1>5, <1>6, <1>9 DEF StoreReview, Stands, Goto, Holding
  <1>10. CASE StorePrepared(p)
    <2>1. /\ prepared' = bat[p] /\ prepared = None /\ After(bat[p]) /\ receipt' = receipt
          /\ bat[p] \in Batch /\ pc'[p] = "idle"
      BY <1>1, <1>10 DEF StorePrepared, Stands, CallTypes, Holding, Steps, Leave, Goto
    <2>2. \A i \in TxId : tx[i].batch # bat[p]
      BY <1>2, <2>1 DEF After
    <2>3. OthersOvertaken' /\ Latest' /\ ReceiptFirst'
      BY <1>1, <1>2, <1>3, <2>1, <2>2
         DEF Orderly, OthersOvertaken, Latest, ReceiptFirst, After
    <2> QED BY <1>4, <1>6, <2>1, <2>3 DEF Orderly, Holding
  <1>11. CASE PutReceipt(p)
    <2>1. /\ prepared' = prepared /\ receipt' = got[p] /\ got[p] \in TxId
          /\ prepared = bat[p] /\ tx[got[p]].batch = bat[p]
          /\ pc'[p] = "drop_prepared" /\ UNCHANGED <<bat, got>>
          /\ got[p] # None /\ prepared # None
      BY <1>1, <1>2, <1>11
         DEF PutReceipt, NewReceipt, CallTypes, Paired, Named, Executed, Stands, Holding,
             Steps, Goto, TxId
    <2>2. \A i \in TxId : i > got[p] => tx[i].batch.nonce >= prepared.nonce
      BY <1>1, <1>2, <2>1 DEF Orderly, Climbing
    <2>3. \A i \in TxId : tx[i].batch = prepared \/ i <= got[p]
      BY <1>1, <1>2, <2>1, <2>2 DEF Orderly, Latest, TxId
    <2>4. OthersOvertaken' /\ Latest' /\ ReceiptFirst'
      BY <1>1, <1>2, <1>3, <2>1, <2>3
         DEF Orderly, OthersOvertaken, Latest, ReceiptFirst, TxId
    <2> QED BY <1>4, <1>6, <2>1, <2>4 DEF Orderly
  <1>12. CASE DropPrepared(p)
    <2>1. /\ prepared' = None /\ UNCHANGED <<receipt, bat, got>>
          /\ prepared = bat[p] /\ receipt = got[p] /\ got[p] \in TxId
          /\ tx[got[p]].batch = bat[p] /\ tx[got[p]].state = "confirmed"
          /\ pc'[p] = "drop_review"
      BY <1>1, <1>12
         DEF DropPrepared, CallTypes, Paired, Named, Executed, Stands, Holding, Steps, Goto
    <2>2. \A i \in TxId : tx[i].batch = prepared /\ tx[i].state = "confirmed" => i = got[p]
      BY <1>1, <2>1 DEF Orderly, ExecutedOnce
    <2>3. receipt # None /\ receipt >= got[p]
      BY <1>2, <2>1 DEF TxId, Orderly
    <2>4. ReceiptFirst'
      BY <1>1, <1>3, <2>1, <2>2, <2>3 DEF Orderly, ReceiptFirst
    <2>5. tx[got[p]].batch.nonce < nonce
      BY <1>1, <2>1 DEF Orderly, Spent
    <2>6. OthersOvertaken' /\ Latest'
      BY <1>1, <1>2, <1>3, <2>1, <2>5 DEF Orderly, OthersOvertaken, Latest
    <2> QED BY <1>4, <1>6, <2>1, <2>4, <2>6 DEF Orderly
  <1> QED BY <1>7, <1>8, <1>9, <1>10, <1>11, <1>12 DEF Execute

LEMMA OrderStep ==
  ASSUME TypeInv, RecordsInv, OneRuns, OrderlyInv, [Next /\ Follows]_vars
  PROVE  OrderlyInv'
  <1>1. ASSUME Follows, NEW p \in Procs, Execute(p) PROVE OrderlyInv'
    <2>1. Orderly' /\ Stands(p)'
      BY <1>1, SubmitKeepsOrder, ExecuteKeepsOrder, ExecuteKeepsChain
    <2>2. \A q \in Procs \ {p} : pc'[q] = "idle"
      BY <1>1, OthersIdle DEF TypeInv
    <2>3. \A q \in Procs \ {p} : Stands(q)'
      BY <2>2 DEF Stands, Holding
    <2> QED BY <2>1, <2>3 DEF OrderlyInv
  <1>2. CASE (\E i \in TxId : Settle(i)) \/ OtherAction
    BY <1>2, ChainKeepsOrder DEF Settle, OtherAction
  <1>3. CASE UNCHANGED vars
    <2>1. Orderly'
      BY <1>3 DEF vars, OrderlyInv, Orderly, Climbing, ExecutedOnce, Spent, OthersOvertaken, Latest,
           ReceiptFirst, TxId
    <2>2. \A p \in Procs : Stands(p)'
      BY <1>3 DEF vars, OrderlyInv, Stands, After, TxId
    <2> QED BY <2>1, <2>2 DEF OrderlyInv
  <1> QED BY <1>1, <1>2, <1>3 DEF Next

LEMMA InitOrder == Init => OrderlyInv
  BY DEF Init, OrderlyInv, Orderly, Climbing, ExecutedOnce, Spent, OthersOvertaken, Latest,
     ReceiptFirst, Stands, Holding, TxId

LEMMA OrderAlways == FollowSpec => [](TypeInv /\ OrderlyInv)
  <1>1. Init => TypeInv /\ RecordsInv /\ OneRuns /\ OrderlyInv
    BY InitTypes, InitRecords, InitOne, InitOrder
  <1>2. TypeInv /\ RecordsInv /\ OneRuns /\ OrderlyInv /\ [Next /\ Follows]_vars
        => (TypeInv /\ RecordsInv /\ OneRuns /\ OrderlyInv)'
    BY StepTypes, RecordsStep, OneRunsStep, OrderStep DEF TypeInv
  <1> QED BY <1>1, <1>2, PTL DEF FollowSpec

(* A batch that executed stays prepared until receipt.json is as late as   *)
(* it: the deletions of execute never outrun the receipt, though a failed  *)
(* read of progress.json makes it submit the batch again.                  *)
THEOREM ReceiptBeforeClearing == FollowSpec => []ReceiptFirst
  <1>1. OrderlyInv => ReceiptFirst
    BY DEF OrderlyInv, Orderly
  <1> QED BY <1>1, OrderAlways, PTL

(* Where no read fails, a batch that is still prepared has one transaction *)
(* and progress.json is about it.                                          *)
LEMMA OneKnowsSettled ==
  ASSUME TypeInv, RecordsInv, OneInv, OrderlyInv
  PROVE  SettledReceipted
  <1> SUFFICES ASSUME NEW i \in TxId, tx[i].state = "confirmed",
                      ~(receipt # None /\ receipt >= i)
               PROVE  /\ prepared = tx[i].batch
                      /\ progress # None /\ progress.digest = prepared
                      /\ progress.id \in {None, i}
    BY DEF SettledReceipted
  <1>1. prepared = tx[i].batch
    BY DEF OrderlyInv, Orderly, ReceiptFirst
  <1>2. progress # None /\ progress.digest = prepared
    BY <1>1 DEF OneInv, ListInv, Noted
  <1>3. progress.id # None => progress.id \in TxId /\ tx[progress.id].batch = tx[i].batch
    BY <1>1, <1>2 DEF TypeInv, RecordsInv, RecordsTruth
  <1>4. ASSUME NEW j \in TxId, tx[j].batch = tx[i].batch PROVE j = i
    <2>1. /\ tx[j].batch.nonce \in Nat /\ ~(tx[j].batch.nonce < tx[i].batch.nonce)
          /\ ~(tx[i].batch.nonce < tx[j].batch.nonce)
      BY <1>4, BatchFacts
    <2>2. ~(i < j) /\ ~(j < i)
      BY <2>1 DEF OneInv, ListInv, Ascending
    <2> QED BY <2>2, BatchFacts DEF TxId
  <1> QED BY <1>1, <1>2, <1>3, <1>4

(* Where no read of progress.json fails, a batch that executed has its     *)
(* receipt, or execute, confirmed once more, polls its very transaction or *)
(* refuses it as a submission in doubt, wherever confirms were killed.     *)
THEOREM SettledHasReceipt == OrderlySpec => []SettledReceipted
  <1>1. OrderlySpec => FollowSpec
    BY PTL DEF OrderlySpec, FollowSpec
  <1>2. TypeInv /\ RecordsInv /\ OneInv /\ OrderlyInv => SettledReceipted
    BY OneKnowsSettled
  <1> QED BY <1>1, <1>2, OneAlways, OrderAlways, PTL

-----------------------------------------------------------------------------
(* Each prepared batch is submitted once.                                  *)

(* No batch has two transactions.                                         *)
LEMMA OneTxOf ==
  ASSUME TypeInv, Ascending, NEW i \in TxId
  PROVE  TxOf(tx[i].batch) = {i}
  <1>1. \A j \in TxId : tx[j].batch.nonce \in Nat /\ j \in Nat
    BY BatchFacts DEF TxId
  <1>2. \A j \in TxId : tx[j].batch = tx[i].batch => ~(j < i) /\ ~(i < j)
    BY <1>1 DEF Ascending
  <1> QED BY <1>1, <1>2 DEF TxOf

(* The fate of a batch that was sent once is its transaction's, before a   *)
(* step and after it.                                                      *)
LEMMA FateOfOne ==
  ASSUME NEW b, NEW i
  PROVE  /\ TxOf(b) = {i} =>
              /\ tx[i].state = "new" => Fate(b) = "sent"
              /\ tx[i].state = "confirmed" => Fate(b) = "done"
              /\ tx[i].state = "failed" => Fate(b) = "failed"
         /\ TxOf(b)' = {i} =>
              /\ tx'[i].state = "new" => Fate(b)' = "sent"
              /\ tx'[i].state = "confirmed" => Fate(b)' = "done"
              /\ tx'[i].state = "failed" => Fate(b)' = "failed"
  <1>1. Cardinality({i}) = 1
    BY FS_Singleton
  <1>2. (CHOOSE j \in {i} : TRUE) = i
    OBVIOUS
  <1>3. {i} # {} /\ ~(Cardinality({i}) > 1)
    BY <1>1
  <1> QED BY <1>2, <1>3 DEF Fate

(* A batch whose transactions do not change keeps its fate.                *)
LEMMA SameFate ==
  ASSUME NEW b, TxOf(b)' = TxOf(b), \A i \in TxOf(b) : tx'[i] = tx[i]
  PROVE  Fate(b)' = Fate(b)
  <1> DEFINE own == TxOf(b)
             one == CHOOSE i \in own : TRUE
  <1>1. own # {} => one \in own
    OBVIOUS
  <1>2. own # {} => tx'[one] = tx[one]
    BY <1>1
  <1> QED BY <1>2 DEF Fate

(* A step submits one batch, settles one, or changes no fate.              *)
LEMMA ShotStep ==
  ASSUME TypeInv, OneInv, TypeInv', OneInv', [Next]_vars
  PROVE  [Shot!Next]_([b \in Batch |-> Fate(b)])
  <1> DEFINE fates == [b \in Batch |-> Fate(b)]
  <1>1. ASSUME UNCHANGED tx PROVE UNCHANGED fates
    <2>1. \A b \in Batch : TxOf(b)' = TxOf(b)
      BY <1>1 DEF TxOf, TxId
    <2>2. \A b \in Batch : Fate(b)' = Fate(b)
      BY <1>1, <2>1, SameFate
    <2> QED BY <2>2
  <1>2. ASSUME NEW p \in Procs, Submit(p) PROVE Shot!Next
    <2>1. PICK b \in Batch : b = bat[p]
      BY <1>2, SubmitAppends
    <2>2. /\ Len(tx) \in Nat /\ Len(tx') = Len(tx) + 1
          /\ tx'[Len(tx')].batch = b /\ tx'[Len(tx')].state = "new"
          /\ \A i \in TxId : tx'[i] = tx[i]
      BY <1>2, <2>1, SubmitAppends
    <2>3. PICK new \in Nat : new = Len(tx')
      BY <2>2
    <2>4. TxId' = TxId \cup {new} /\ new \notin TxId
      BY <2>2, <2>3 DEF TxId
    <2>5. TxOf(b) = {}
      BY <1>2, <2>1, BatchFacts DEF OneInv, Where, Submit, After, TxOf
    <2>6. Fate(b) = "unsent"
      BY <2>5 DEF Fate
    <2>7. TxOf(b)' = {new}
      BY <2>2, <2>3, <2>4, <2>5 DEF TxOf
    <2>8. Fate(b)' = "sent"
      <3>1. tx'[new].state = "new"
        BY <2>2, <2>3
      <3> QED BY <2>7, <3>1, FateOfOne
    <2>9. \A c \in Batch \ {b} : Fate(c)' = Fate(c)
      <3> SUFFICES ASSUME NEW c \in Batch, c # b
                   PROVE  Fate(c)' = Fate(c)
        OBVIOUS
      <3>1. TxOf(c)' = TxOf(c)
        BY <2>2, <2>3, <2>4 DEF TxOf
      <3>2. \A i \in TxOf(c) : tx'[i] = tx[i]
        BY <2>2 DEF TxOf
      <3> QED BY <3>1, <3>2, SameFate
    <2>10. fates' = [fates EXCEPT ![b] = "sent"]
      BY <2>8, <2>9
    <2>11. Shot!Send(b)
      BY <2>6, <2>10 DEF Shot!Send
    <2> QED BY <2>11 DEF Shot!Next
  <1>3. ASSUME NEW i \in TxId, Settle(i) PROVE Shot!Next
    <2>1. PICK b \in Batch : b = tx[i].batch
      BY BatchFacts
    <2>2. /\ TxId' = TxId /\ tx[i].state = "new" /\ tx'[i].batch = b
          /\ \A j \in TxId \ {i} : tx'[j] = tx[j]
          /\ tx'[i].state \in {"confirmed", "failed"}
      BY <1>3, <2>1, SettleSettles DEF TxId
    <2>3. TxOf(b) = {i}
      BY <2>1, OneTxOf DEF OneInv, ListInv
    <2>4. Fate(b) = "sent"
      BY <2>2, <2>3, FateOfOne
    <2>5. TxOf(b)' = {i}
      BY <2>1, <2>2, <2>3 DEF TxOf
    <2>6. Fate(b)' \in {"done", "failed"}
      <3>1. /\ tx'[i].state = "confirmed" => Fate(b)' = "done"
            /\ tx'[i].state = "failed" => Fate(b)' = "failed"
        BY <2>5, FateOfOne
      <3> QED BY <2>2, <3>1
    <2>7. \A c \in Batch \ {b} : Fate(c)' = Fate(c)
      <3> SUFFICES ASSUME NEW c \in Batch, c # b
                   PROVE  Fate(c)' = Fate(c)
        OBVIOUS
      <3>1. TxOf(c)' = TxOf(c)
        BY <2>1, <2>2 DEF TxOf
      <3>2. \A j \in TxOf(c) : tx'[j] = tx[j]
        BY <2>1, <2>2 DEF TxOf
      <3> QED BY <3>1, <3>2, SameFate
    <2>8. \E f \in {"done", "failed"} : fates' = [fates EXCEPT ![b] = f]
      BY <2>6, <2>7
    <2>9. Shot!Settle(b)
      BY <2>4, <2>8 DEF Shot!Settle
    <2> QED BY <2>9 DEF Shot!Next
  <1>4. ASSUME NEW p \in Procs, Execute(p), ~Submit(p) PROVE UNCHANGED fates
    BY <1>1, <1>4, ExecuteKeepsChain DEF chain
  <1>5. CASE OtherAction \/ UNCHANGED vars
    BY <1>1, <1>5 DEF OtherAction, vars
  <1> QED BY <1>2, <1>3, <1>4, <1>5 DEF Next

LEMMA FatesStart == Init => \A b \in Batch : Fate(b) = "unsent"
  <1>1. Init => \A b \in Batch : TxOf(b) = {}
    BY DEF Init, TxOf, TxId
  <1> QED BY <1>1 DEF Fate

(* execute implements OneShot: one confirm after the other, killed and     *)
(* failing anywhere, each prepared batch reaches the relayer at most once  *)
(* and its outcome is final.                                               *)
THEOREM RelayerImplementsOneShot == OrderlySpec => ImplementsOneShot
  <1>1. Init => Shot!Init
    BY FatesStart DEF Shot!Init
  <1>2. /\ TypeInv /\ OneInv /\ TypeInv' /\ OneInv' /\ [Next]_vars
        => [Shot!Next]_([b \in Batch |-> Fate(b)])
    BY ShotStep
  <1> QED BY <1>1, <1>2, OneAlways, PTL DEF OrderlySpec, ImplementsOneShot, Shot!Spec
--------------------------------------------------------------------------------
(* The builder key.                                                        *)

(* What an invocation at work on the key knows: the key it uses is stored, *)
(* one it is about to delete is revoked, and so is what a revocation named.*)
KeyAt(p) ==
  /\ pc_k[p] \in {"submit", "list", "delete", "rev_venue", "rev_drop"} => key_k[p] = stored_k
  /\ pc_k[p] = "delete" => stored_k \notin active_k
  /\ pc_k[p] = "rev_drop" =>
       IF named_k[p] = None THEN active_k = {} ELSE named_k[p] \notin active_k

(* At most one call runs at a time, and what it knows is so.               *)
OneCalls == \A p, q \in Callers : pc_k[p] # "idle" /\ pc_k[q] # "idle" => p = q
KeysInv == OneCalls /\ \A p \in Callers : KeyAt(p)

LEMMA KeyInit == Builder!Init => Builder!TypeOK /\ KeysInv
  BY DEF Builder!Init, Builder!TypeOK, Builder!MaybeKey, Builder!Steps, KeysInv, OneCalls, KeyAt

LEMMA KeyTypes ==
  ASSUME Builder!TypeOK, [Builder!Next]_Builder!vars
  PROVE  Builder!TypeOK'
  <1> USE BuilderConstants DEF Builder!BuilderKeysConstants
  <1> USE DEF Builder!TypeOK, Builder!MaybeKey, Builder!Steps, Builder!Goto, Builder!Leave,
              Builder!venue, Builder!local
  <1>1. ASSUME NEW p \in Callers, Builder!BeginSubmit(p) \/ Builder!Delete(p)
        PROVE Builder!TypeOK'
    BY <1>1 DEF Builder!BeginSubmit, Builder!Delete
  <1>8. ASSUME NEW p \in Callers, Builder!Load(p) \/ Builder!Save(p)
        PROVE Builder!TypeOK'
    BY <1>8 DEF Builder!Load, Builder!Save
  <1>2. ASSUME NEW p \in Callers, Builder!Mint(p)
        PROVE Builder!TypeOK'
    <2>1. PICK k \in Keys :
            /\ issued_k' = issued_k \cup {k} /\ active_k' = active_k \cup {k}
            /\ \/ /\ key_k' = [key_k EXCEPT ![p] = k] /\ Builder!Goto(p, "save")
                  /\ UNCHANGED <<retried_k, named_k>>
               \/ Builder!Leave(p)
      BY <1>2 DEF Builder!Mint
    <2>2. stored_k' = stored_k
      BY <1>2 DEF Builder!Mint
    <2>3. CASE Builder!Leave(p)
      BY <2>1, <2>2, <2>3
    <2>4. CASE ~Builder!Leave(p)
      <3>1. key_k' = [key_k EXCEPT ![p] = k] /\ k # None
        BY <2>1, <2>4
      <3>2. pc_k' = [pc_k EXCEPT ![p] = "save"] /\ retried_k' = retried_k /\ named_k' = named_k
        BY <2>1, <2>4
      <3> QED BY <2>1, <2>2, <3>1, <3>2
    <2> QED BY <2>3, <2>4
  <1>3. ASSUME NEW p \in Callers, Builder!Submit(p) \/ Builder!List(p) \/ Builder!Stop(p)
        PROVE Builder!TypeOK'
    BY <1>3 DEF Builder!Submit, Builder!List, Builder!Stop
  <1>4. ASSUME NEW p \in Callers, Builder!BeginRevoke(p) \/ Builder!RevokeLoad(p)
        PROVE Builder!TypeOK'
    BY <1>4 DEF Builder!BeginRevoke, Builder!RevokeLoad
  <1>5. ASSUME NEW p \in Callers, Builder!RevokeAtVenue(p) \/ Builder!RevokeDrop(p)
        PROVE Builder!TypeOK'
    BY <1>5 DEF Builder!RevokeAtVenue, Builder!RevokeDrop
  <1>6. CASE Builder!RevokedElsewhere
    BY <1>6 DEF Builder!RevokedElsewhere
  <1>7. CASE UNCHANGED Builder!vars
    BY <1>7 DEF Builder!vars
  <1> HIDE DEF Builder!TypeOK
  <1> QED BY <1>1, <1>2, <1>3, <1>4, <1>5, <1>6, <1>7, <1>8 DEF Builder!Next

Works(p) ==
  \/ Builder!BeginSubmit(p) \/ Builder!Load(p) \/ Builder!Mint(p) \/ Builder!Save(p)
  \/ Builder!Submit(p) \/ Builder!List(p) \/ Builder!Delete(p)
  \/ Builder!BeginRevoke(p) \/ Builder!RevokeLoad(p) \/ Builder!RevokeAtVenue(p)
  \/ Builder!RevokeDrop(p) \/ Builder!Stop(p)

(* While one call takes a step, the others are idle.                       *)
LEMMA CallersIdle ==
  ASSUME Builder!TypeOK, OneCalls, Builder!Follows, NEW p \in Callers, Works(p)
  PROVE  /\ \A q \in Callers \ {p} : pc_k[q] = "idle" /\ pc_k'[q] = "idle"
         /\ OneCalls'
  <1>1. /\ pc_k \in [Callers -> Builder!Steps]
        /\ \E s \in Builder!Steps : pc_k' = [pc_k EXCEPT ![p] = s]
        /\ pc_k[p] # "idle" \/ pc_k'[p] # "idle"
    <2> USE DEF Builder!TypeOK, Builder!Steps, Builder!Goto, Builder!Leave, Builder!local
    <2>1. CASE Builder!BeginSubmit(p) \/ Builder!BeginRevoke(p)
      BY <2>1 DEF Builder!BeginSubmit, Builder!BeginRevoke
    <2>2. CASE Builder!Load(p) \/ Builder!Save(p) \/ Builder!Submit(p)
      BY <2>2 DEF Builder!Load, Builder!Save, Builder!Submit
    <2>3. CASE Builder!Mint(p)
      BY <2>3 DEF Builder!Mint
    <2>4. CASE Builder!List(p) \/ Builder!Delete(p) \/ Builder!Stop(p)
      BY <2>4 DEF Builder!List, Builder!Delete, Builder!Stop
    <2>5. CASE Builder!RevokeLoad(p) \/ Builder!RevokeAtVenue(p) \/ Builder!RevokeDrop(p)
      BY <2>5 DEF Builder!RevokeLoad, Builder!RevokeAtVenue, Builder!RevokeDrop
    <2> QED BY <2>1, <2>2, <2>3, <2>4, <2>5 DEF Works
  <1>2. \A q \in Callers \ {p} : pc_k'[q] = pc_k[q]
    BY <1>1
  <1>3. \A q \in Callers \ {p} : pc_k[q] = "idle"
    BY <1>1 DEF OneCalls, Builder!Follows
  <1> QED BY <1>2, <1>3 DEF OneCalls

(* Each step of a call leaves what it knows true.                          *)
LEMMA KeyStep ==
  ASSUME Builder!TypeOK, KeysInv, [Builder!Next /\ Builder!Follows]_Builder!vars
  PROVE  /\ KeysInv'
         /\ stored_k # None /\ stored_k' = None => stored_k \notin active_k
  <1> DEFINE Kept == /\ KeysInv'
                     /\ stored_k # None /\ stored_k' = None => stored_k \notin active_k
  <1> SUFFICES Kept
    OBVIOUS
  <1>1. ASSUME Builder!Follows, NEW p \in Callers, Works(p) PROVE Kept
    <2>1. OneCalls' /\ \A q \in Callers \ {p} : KeyAt(q)'
      BY <1>1, CallersIdle DEF KeyAt, KeysInv
    <2>2. /\ KeyAt(p)'
          /\ stored_k # None /\ stored_k' = None => stored_k \notin active_k
      <3> USE DEF Builder!TypeOK, Builder!Goto, Builder!Leave, Builder!venue, Builder!local
      <3>1. KeyAt(p)
        BY DEF KeysInv
      <3>2. CASE Builder!Load(p) \/ Builder!Save(p)
        BY <3>1, <3>2 DEF KeyAt, Builder!Load, Builder!Save
      <3>3. CASE Builder!Mint(p) \/ Builder!Stop(p)
        BY <3>1, <3>3 DEF KeyAt, Builder!Mint, Builder!Stop
      <3>4. CASE Builder!BeginSubmit(p) \/ Builder!Submit(p)
        BY <3>1, <3>4 DEF KeyAt, Builder!BeginSubmit, Builder!Submit
      <3>5. CASE Builder!BeginRevoke(p) \/ Builder!RevokeLoad(p)
        BY <3>1, <3>5 DEF KeyAt, Builder!BeginRevoke, Builder!RevokeLoad
      <3>6. CASE Builder!List(p) \/ Builder!Delete(p)
        BY <3>1, <3>6 DEF KeyAt, Builder!List, Builder!Delete, Builder!Rotatable
      <3>7. CASE Builder!RevokeAtVenue(p) \/ Builder!RevokeDrop(p)
        BY <3>1, <3>7 DEF KeyAt, Builder!RevokeAtVenue, Builder!RevokeDrop, Builder!Concerns
      <3> QED BY <1>1, <3>2, <3>3, <3>4, <3>5, <3>6, <3>7 DEF Works
    <2> QED BY <2>1, <2>2 DEF KeysInv
  <1>2. CASE Builder!RevokedElsewhere
    BY <1>2 DEF KeysInv, OneCalls, KeyAt, Builder!RevokedElsewhere, Builder!local
  <1>3. CASE UNCHANGED Builder!vars
    BY <1>3 DEF KeysInv, OneCalls, KeyAt, Builder!vars
  <1> HIDE DEF Kept
  <1> QED BY <1>1, <1>2, <1>3 DEF Builder!Next, Works

LEMMA KeysAlways == Builder!FollowSpec => [](Builder!TypeOK /\ KeysInv)
  <1>1. Builder!TypeOK /\ [Builder!Next /\ Builder!Follows]_Builder!vars => Builder!TypeOK'
    BY KeyTypes
  <1>2. /\ Builder!TypeOK /\ KeysInv /\ [Builder!Next /\ Builder!Follows]_Builder!vars
        => KeysInv'
    BY KeyStep
  <1> QED BY <1>1, <1>2, KeyInit, PTL DEF Builder!FollowSpec

KeyKept == stored_k # None /\ stored_k' = None => stored_k \notin active_k

(* ensure_builder_credentials of infra_parts/relayer.rs, one call at a     *)
(* time: a key is stored before a submission is authenticated with it,     *)
(* whatever was lost or killed before.                                     *)
THEOREM UsedKeysAreStored == Builder!FollowSpec => []Builder!UsedIsStored
  <1>1. KeysInv => Builder!UsedIsStored
    BY DEF KeysInv, KeyAt, Builder!UsedIsStored
  <1> QED BY <1>1, KeysAlways, PTL

(* relayer_submit_with_builder_repair and revoke_builder_key, one call at  *)
(* a time: the stored key is deleted only once the venue has revoked it.   *)
THEOREM ActiveKeysAreKept == Builder!FollowSpec => Builder!KeepsActiveKey
  <1>1. /\ Builder!TypeOK /\ KeysInv /\ [Builder!Next /\ Builder!Follows]_Builder!vars
        => [KeyKept]_Builder!vars
    BY KeyStep DEF KeyKept
  <1>2. Builder!FollowSpec => [][KeyKept]_Builder!vars
    BY <1>1, KeysAlways, PTL DEF Builder!FollowSpec
  <1> QED BY <1>2 DEF Builder!KeepsActiveKey, KeyKept
--------------------------------------------------------------------------------
(* The behaviours of MCRelayer.                                            *)

mcVars == <<instance, vars, keyVars>>

(* A step of MCRelayer is one of the action or of the builder key, and     *)
(* which restrictions it is under does not change.                         *)
LEMMA MCSteps ==
  ASSUME [MCNext]_mcVars
  PROVE  /\ instance' = instance
         /\ [Next]_vars
         /\ instance = "confirms" => [Next /\ Follows /\ ReadsTruly]_vars
         /\ instance \in {"confirms", "misread"} => [Next /\ Follows]_vars
         /\ [Builder!Next /\ Builder!Follows]_Builder!vars
  BY DEF MCNext, mcVars, keyVars, Builder!vars, Builder!venue, Builder!local

MCInv ==
  /\ TypeInv /\ RecordsInv
  /\ instance = "confirms" => OneInv
  /\ instance \in {"confirms", "misread"} => OneRuns /\ OrderlyInv
  /\ Builder!TypeOK /\ KeysInv

LEMMA MCStep ==
  ASSUME MCInv, [MCNext]_mcVars
  PROVE  MCInv'
  <1>1. /\ TypeInv' /\ RecordsInv' /\ instance' = instance
        /\ TypeOK
    BY MCSteps, StepTypes, RecordsStep DEF MCInv, TypeInv
  <1>2. instance = "confirms" => OneInv'
    BY MCSteps, OneStep DEF MCInv
  <1>3. instance \in {"confirms", "misread"} => OneRuns' /\ OrderlyInv'
    BY <1>1, MCSteps, OneRunsStep, OrderStep DEF MCInv
  <1>4. Builder!TypeOK'
    BY MCSteps, KeyTypes DEF MCInv
  <1>5. KeysInv'
    BY MCSteps, KeyStep DEF MCInv
  <1> QED BY <1>1, <1>2, <1>3, <1>4, <1>5 DEF MCInv

LEMMA MCStarts == MCInit => MCInv
  BY InitTypes, InitRecords, InitOne, InitOrder, KeyInit DEF MCInit, MCInv

LEMMA MCAlways == MCSpec => []MCInv
  BY MCStarts, MCStep, PTL DEF MCSpec, mcVars

(* execute of relayer_actions.rs and ensure_builder_credentials: what is   *)
(* stored and what each invocation has in its hands is well typed in all   *)
(* of MCRelayer's behaviours.                                              *)
THEOREM RelayerSideTypes == MCSpec => []Types
  <1>1. MCInv => Types
    BY DEF MCInv, TypeInv, Types
  <1> QED BY <1>1, MCAlways, PTL

(* execute of relayer_actions.rs, in every behaviour of MCRelayer, racing  *)
(* confirms and failed reads among them: receipt.json names a confirmed    *)
(* transaction and progress.json pairs each id with its batch.             *)
THEOREM RacingRecordsAreTrue == MCSpec => []RecordsTruth
  <1>1. MCInv => RecordsTruth
    BY DEF MCInv, RecordsInv
  <1> QED BY <1>1, MCAlways, PTL

(* execute, in the behaviours whose confirms follow each other: what may   *)
(* still move the wallet's money is known to the next confirm.             *)
THEOREM ConfirmsForgetNothing == MCSpec => []ConfirmsForgetNone
  <1>1. MCInv => ConfirmsForgetNone
    BY OneForgetsNone DEF MCInv, ConfirmsForgetNone
  <1> QED BY <1>1, MCAlways, PTL

(* execute, in the behaviours whose confirms follow each other: a batch    *)
(* that was executed has a receipt, or the next confirm polls it or        *)
(* refuses it as in doubt; and though reads of progress.json fail, it is   *)
(* not cleared before its receipt.                                         *)
THEOREM ConfirmsHaveReceipts == MCSpec => []ConfirmsReceipted
  <1>1. MCInv => ConfirmsReceipted
    BY OneKnowsSettled DEF MCInv, OrderlyInv, Orderly, ConfirmsReceipted
  <1> QED BY <1>1, MCAlways, PTL

(* execute, in the behaviours whose confirms follow each other, implements *)
(* OneShot: each prepared batch reaches the relayer at most once.          *)
THEOREM ConfirmsSendOnce == MCSpec => ConfirmsOnce
  <1> DEFINE fates == [b \in Batch |-> Fate(b)]
             shown == [b \in Batch |-> IF instance = "confirms" THEN Fate(b) ELSE "unsent"]
  <1>1. MCInit => Confirms!Init
    BY FatesStart DEF MCInit, Confirms!Init
  <1>2. MCInv /\ MCInv' /\ [MCNext]_mcVars => [Confirms!Next]_shown
    <2> SUFFICES ASSUME MCInv, MCInv', [MCNext]_mcVars
                 PROVE  [Confirms!Next]_shown
      OBVIOUS
    <2>1. CASE instance # "confirms"
      BY <2>1, MCSteps
    <2>2. CASE instance = "confirms"
      <3>1. shown = fates /\ shown' = fates'
        BY <2>2, MCSteps
      <3>2. [Shot!Next]_fates
        BY <2>2, MCSteps, ShotStep DEF MCInv
      <3>3. CASE UNCHANGED fates
        BY <3>1, <3>3
      <3>4. ASSUME NEW b \in Batch, Shot!Send(b) PROVE Confirms!Next
        BY <3>1, <3>4 DEF Shot!Send, Confirms!Send, Confirms!Next
      <3>5. ASSUME NEW b \in Batch, Shot!Settle(b) PROVE Confirms!Next
        BY <3>1, <3>5 DEF Shot!Settle, Confirms!Settle, Confirms!Next
      <3> QED BY <3>2, <3>3, <3>4, <3>5 DEF Shot!Next
    <2> QED BY <2>1, <2>2
  <1> QED BY <1>1, <1>2, MCAlways, PTL DEF MCSpec, mcVars, ConfirmsOnce, Confirms!Spec

(* ensure_builder_credentials, one call at a time: no submission rests on  *)
(* a key that only a killed invocation knew.                               *)
THEOREM UsedKeyIsAlwaysStored == MCSpec => []UsedKeyIsStored
  <1>1. MCInv => UsedKeyIsStored
    BY DEF MCInv, KeysInv, KeyAt, UsedKeyIsStored, Builder!UsedIsStored
  <1> QED BY <1>1, MCAlways, PTL

(* relayer_submit_with_builder_repair, one call at a time: the stored key  *)
(* is deleted only once the venue has revoked it.                          *)
THEOREM ActiveKeyIsKept == MCSpec => ActiveKeyKept
  <1>1. MCInv /\ [MCNext]_mcVars => [KeyKept]_Builder!vars
    BY MCSteps, KeyStep DEF MCInv, KeyKept
  <1>2. MCSpec => [][KeyKept]_Builder!vars
    BY <1>1, MCAlways, PTL DEF MCSpec, mcVars
  <1> QED BY <1>2 DEF ActiveKeyKept, Builder!KeepsActiveKey, KeyKept
================================================================================
