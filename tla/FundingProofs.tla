----------------------------- MODULE FundingProofs -----------------------------
(***************************************************************************)
(* The funding sessions, for every value of the constants.  However slow   *)
(* the holders of the session's lock and however many creates race, the    *)
(* swap follows its approval and "complete" is the truth.  Invocations     *)
(* that end before their lock goes stale stage each transaction once and   *)
(* forget none, wherever they are killed.  Then FundPlan: what the         *)
(* transactions of several sessions move, spend and leave allowed; and at  *)
(* the end the same of MCFunding's behaviours, which mix them.             *)
(***************************************************************************)
EXTENDS MCFunding, WalletLockProofs, FiniteSetTheorems, SequenceTheorems

USE FundingAssumption, NoneIsNoSession, WalletLockAssumption

Working == {"prepare", "inspect", "mark", "stage", "confirm", "save"}
States == {"staged", "sent", "success"} \cup Failed
Tx == [index : Indices, state : States]

(* Facts about a session s and an outbox ob.                               *)
DoneIn(i, ob) == \E id \in 1..Len(ob) : ob[id].index = i /\ ob[id].state = "success"

(* The session's ids are of its transactions in order, those before next   *)
(* succeeded, and at most the next one is staged.                          *)
TrueOf(s, ob) ==
  /\ s.next <= s.planned
  /\ s.next <= Len(s.ids) /\ Len(s.ids) <= s.next + 1
  /\ \A i \in 0..(s.next - 1) : DoneIn(i, ob)
  /\ \A k \in 1..Len(s.ids) : s.ids[k] \in 1..Len(ob) /\ ob[s.ids[k]].index = k - 1
  /\ s.status = "complete" => s.next = s.planned

(* Nothing is taken back from an outbox.                                   *)
Grown(ob, new) ==
  /\ Len(ob) <= Len(new)
  /\ \A id \in 1..Len(ob) :
       /\ new[id].index = ob[id].index
       /\ ob[id].state = "success" => new[id].state = "success"

(* What an invocation's copy of the session is, by its step.               *)
At(p) ==
  /\ pc[p] = "create" => ses[p] = Draft
  /\ pc[p] \in Working => ses[p] \in Session /\ TrueOf(ses[p], outbox)
  /\ pc[p] = "prepare" => ses[p].planned = 0
  /\ pc[p] \in {"inspect", "confirm"} =>
       ses[p].next < ses[p].planned /\ Len(ses[p].ids) = ses[p].next + 1
  /\ pc[p] \in {"mark", "stage"} =>
       ses[p].next < ses[p].planned /\ Len(ses[p].ids) = ses[p].next

OutboxOK == outbox \in Seq(Tx) /\ Len(outbox) <= MaxOutbox
CallsOK == pc \in [Procs -> Steps] /\ ses \in [Procs -> Session \cup {None}]
SessionOK == session # None => session \in Session /\ TrueOf(session, outbox)

TypeInv ==
  /\ LockTypeOK /\ Exclusive
  /\ OutboxOK /\ CallsOK /\ SessionOK
  /\ faults \in 0..MaxFaults
  /\ \A p \in Procs : At(p)

Elsewhere(p) == \A q \in Procs \ {p} : pc'[q] = pc[q] /\ ses'[q] = ses[q]

Moves(p) == CreateId(p) \/ CreatePut(p) \/ ConfirmRequest(p) \/ Fault(p)

-----------------------------------------------------------------------------
(* Sessions and outboxes.                                                  *)

(* What is true of a session stays true as the outbox grows.               *)
LEMMA TrueGrows ==
  ASSUME NEW s, NEW ob, NEW new, Grown(ob, new), TrueOf(s, ob),
         Len(ob) \in Nat, Len(new) \in Nat
  PROVE  TrueOf(s, new)
  <1>1. ASSUME NEW i, DoneIn(i, ob) PROVE DoneIn(i, new)
    <2>1. PICK id \in 1..Len(ob) : ob[id].index = i /\ ob[id].state = "success"
      BY <1>1 DEF DoneIn
    <2>2. id \in 1..Len(new)
      BY DEF Grown
    <2>3. new[id].index = i /\ new[id].state = "success"
      BY <2>1, Zenon DEF Grown
    <2> QED BY <2>2, <2>3, Zenon DEF DoneIn
  <1>2. ASSUME NEW k \in 1..Len(s.ids)
        PROVE  s.ids[k] \in 1..Len(new) /\ new[s.ids[k]].index = k - 1
    <2>1. s.ids[k] \in 1..Len(ob) /\ ob[s.ids[k]].index = k - 1
      BY Zenon DEF TrueOf
    <2>2. PICK id \in 1..Len(ob) : id = s.ids[k]
      BY <2>1
    <2>3. id \in 1..Len(new)
      BY DEF Grown
    <2>4. new[id].index = ob[id].index
      BY Zenon DEF Grown
    <2> QED BY <2>1, <2>2, <2>3, <2>4, Zenon
  <1> QED BY <1>1, <1>2 DEF TrueOf

(* The fields of a session.                                                *)
LEMMA SessionFields ==
  ASSUME NEW s \in Session
  PROVE  /\ s.planned \in Nat /\ s.planned <= MaxTransactions
         /\ s.next \in Nat /\ s.next <= MaxTransactions
         /\ Len(s.ids) \in Nat /\ s.ids \in Seq(1..MaxOutbox)
         /\ s.staging \in Indices \cup {None}
         /\ s.status \in Statuses
  BY DEF Session

(* Another status, plan or marker leaves the rest of a session as it is.   *)
LEMMA SessionUpdates ==
  ASSUME NEW s \in Session, NEW ob, TrueOf(s, ob), NEW st \in Statuses \ {"complete"}
  PROVE  /\ [s EXCEPT !.status = st] \in Session
         /\ TrueOf([s EXCEPT !.status = st], ob)
         /\ \A n \in 1..MaxTransactions : s.planned = 0 =>
              /\ [s EXCEPT !.planned = n, !.status = st] \in Session
              /\ TrueOf([s EXCEPT !.planned = n, !.status = st], ob)
         /\ \A i \in Indices \cup {None} :
              /\ [s EXCEPT !.staging = i, !.status = st] \in Session
              /\ TrueOf([s EXCEPT !.staging = i, !.status = st], ob)
  <1>1. s.planned \in Nat /\ s.next \in Nat /\ MaxTransactions \in Nat
    BY SessionFields
  <1>2. [s EXCEPT !.status = st] \in Session
    BY DEF Session
  <1>3. ASSUME NEW n \in 1..MaxTransactions
        PROVE  [s EXCEPT !.planned = n, !.status = st] \in Session
    <2>1. n \in 0..MaxTransactions
      BY <1>1
    <2> QED BY <2>1 DEF Session
  <1>4. ASSUME NEW i \in Indices \cup {None}
        PROVE  [s EXCEPT !.staging = i, !.status = st] \in Session
    BY DEF Session
  <1>5. ASSUME NEW t, t.next = s.next, t.ids = s.ids, t.status = st, s.next <= t.planned
        PROVE  TrueOf(t, ob)
    BY <1>5 DEF TrueOf
  <1>6. TrueOf([s EXCEPT !.status = st], ob)
    BY <1>5 DEF Session, TrueOf
  <1>7. ASSUME NEW n \in 1..MaxTransactions, s.planned = 0
        PROVE  TrueOf([s EXCEPT !.planned = n, !.status = st], ob)
    BY <1>1, <1>5, <1>7 DEF Session, TrueOf
  <1>8. ASSUME NEW i \in Indices \cup {None}
        PROVE  TrueOf([s EXCEPT !.staging = i, !.status = st], ob)
    BY <1>5 DEF Session, TrueOf
  <1> QED BY <1>2, <1>3, <1>4, <1>6, <1>7, <1>8

(* A session whose current transaction succeeded may go on to the next.    *)
LEMMA ConfirmedTrue ==
  ASSUME NEW s \in Session, NEW ob, TrueOf(s, ob), Len(ob) \in Nat,
         s.next < s.planned, Len(s.ids) = s.next + 1,
         ob[s.ids[s.next + 1]].state = "success"
  PROVE  Confirmed(s) \in Session /\ TrueOf(Confirmed(s), ob)
  <1>1. s.planned \in Nat /\ s.planned <= MaxTransactions /\ s.next \in Nat
    BY SessionFields
  <1>2. /\ Confirmed(s) \in Session
        /\ Confirmed(s).next = s.next + 1 /\ Confirmed(s).planned = s.planned
        /\ Confirmed(s).ids = s.ids
        /\ Confirmed(s).status = "complete" => s.next + 1 = s.planned
    <2>1. s.next + 1 \in 0..MaxTransactions
      BY <1>1
    <2>2. PICK st \in Statuses :
            /\ Confirmed(s) = [s EXCEPT !.next = @ + 1, !.status = st]
            /\ st = "complete" => s.next + 1 = s.planned
      BY DEF Confirmed, Statuses
    <2> QED BY <2>1, <2>2 DEF Session
  <1>3. DoneIn(s.next, ob)
    <2>1. PICK k \in 1..Len(s.ids) : k = s.next + 1
      BY <1>1
    <2>2. s.ids[k] \in 1..Len(ob) /\ ob[s.ids[k]].index = k - 1
      BY DEF TrueOf
    <2>3. ob[s.ids[k]].state = "success" /\ k - 1 = s.next
      BY <1>1, <2>1
    <2> QED BY <2>2, <2>3 DEF DoneIn
  <1>4. \A i \in 0..s.next : DoneIn(i, ob)
    BY <1>1, <1>3 DEF TrueOf
  <1> HIDE DEF Confirmed
  <1> QED BY <1>1, <1>2, <1>4 DEF TrueOf

(* A session takes the id of the transaction it just staged.               *)
LEMMA StagedTrue ==
  ASSUME NEW s \in Session, NEW ob, TrueOf(s, ob), NEW id \in 1..MaxOutbox,
         s.next < s.planned, Len(s.ids) = s.next,
         id \in 1..Len(ob), ob[id].index = s.next
  PROVE  /\ Staged(s, id) \in Session /\ TrueOf(Staged(s, id), ob)
         /\ Staged(s, id).ids = Append(s.ids, id) /\ Staged(s, id).next = s.next
         /\ Staged(s, id).staging = None
  <1>1. s.planned \in Nat /\ s.next \in Nat /\ s.ids \in Seq(1..MaxOutbox)
    BY SessionFields
  <1> DEFINE ids == Append(s.ids, id)
  <1>2. /\ ids \in Seq(1..MaxOutbox) /\ Len(ids) = s.next + 1
        /\ ids[s.next + 1] = id
        /\ \A k \in 1..s.next : ids[k] = s.ids[k]
    BY <1>1, AppendProperties
  <1>3. \A k \in 1..Len(ids) : ids[k] \in 1..Len(ob) /\ ob[ids[k]].index = k - 1
    <2> SUFFICES ASSUME NEW k \in 1..Len(ids)
                 PROVE  ids[k] \in 1..Len(ob) /\ ob[ids[k]].index = k - 1
      OBVIOUS
    <2>1. CASE k \in 1..s.next
      <3>1. ids[k] = s.ids[k]
        BY <1>2, <2>1
      <3>2. k \in 1..Len(s.ids)
        BY <2>1
      <3> QED BY <3>1, <3>2 DEF TrueOf
    <2>2. CASE k = s.next + 1
      BY <1>1, <1>2, <2>2
    <2> HIDE DEF ids
    <2>3. k \in 1..s.next \/ k = s.next + 1
      BY <1>1, <1>2
    <2> QED BY <2>1, <2>2, <2>3
  <1>4. /\ Staged(s, id).ids = ids /\ Staged(s, id).next = s.next
        /\ Staged(s, id).staging = None
        /\ Staged(s, id).planned = s.planned /\ Staged(s, id).status = "staged"
    BY DEF Staged, Session
  <1>5. Staged(s, id) \in Session
    <2> HIDE DEF ids
    <2>1. Staged(s, id) = [s EXCEPT !.ids = ids, !.staging = None, !.status = "staged"]
      BY DEF Staged, ids
    <2> QED BY <1>2, <2>1 DEF Session, Statuses
  <1> HIDE DEF ids, Staged
  <1>6. TrueOf(Staged(s, id), ob)
    BY <1>1, <1>2, <1>3, <1>4 DEF TrueOf
  <1> QED BY <1>4, <1>5, <1>6 DEF ids

-----------------------------------------------------------------------------
(* What a step may do.                                                     *)

(* A lock step of Funding is one of WalletLock.                            *)
LEMMA LockMoves ==
  ASSUME [Next]_vars
  PROVE  \/ Reap \/ Evict
         \/ \E p \in Procs : Take(p) \/ Free(p) \/ Die(p)
         \/ UNCHANGED lockVars
  <1>1. ASSUME NEW p \in Procs, Moves(p)
        PROVE  Take(p) \/ Free(p) \/ Die(p) \/ UNCHANGED lockVars
    BY <1>1 DEF Moves, ConfirmRequest, CreateId, CreatePut, Acquire, Load, Prepare, Save,
       Inspect, Mark, Stage, Confirm, Fault, Return
  <1>2. CASE \E id \in 1..Len(outbox) : Settle(id) \/ Cancel(id)
    BY <1>2 DEF Settle, Cancel
  <1>3. CASE LockGoesStale \/ UNCHANGED vars
    BY <1>3 DEF LockGoesStale, vars, lockVars
  <1> QED BY <1>1, <1>2, <1>3 DEF Next, Moves

(* An invocation moves itself only.                                        *)
LEMMA MovesAlone ==
  ASSUME CallsOK, NEW p \in Procs, Moves(p)
  PROVE  Elsewhere(p)
  <1>1. \E step, s : pc' = [pc EXCEPT ![p] = step] /\ ses' = [ses EXCEPT ![p] = s]
    BY DEF Moves, ConfirmRequest, CreateId, CreatePut, Acquire, Load, Prepare, Save,
       Inspect, Mark, Stage, Confirm, Fault, Return, Goto
  <1> QED BY <1>1 DEF Elsewhere, CallsOK

(* Stage appends a transaction for the session's current index.            *)
Appends(i) ==
  /\ Len(outbox) < MaxOutbox
  /\ outbox' = Append(outbox, [index |-> i, state |-> "staged"])

(* The owner, the host or the chain moves a transaction that was not done. *)
Becomes(id, state) ==
  /\ outbox[id].state \in {"staged", "sent"}
  /\ state \in States \ {"staged"}
  /\ state = "success" => outbox[id].state = "sent"
  /\ outbox' = [outbox EXCEPT ![id].state = state]

(* The outbox is appended to by a stage, and its entries change one by one. *)
LEMMA OutboxMoves ==
  ASSUME TypeInv, [Next]_vars
  PROVE  \/ UNCHANGED outbox
         \/ \E p \in Procs : Stage(p) /\ Appends(ses[p].next)
         \/ \E id \in 1..Len(outbox), state \in States : Becomes(id, state)
  <1>1. CASE \E p \in Procs : CreateId(p) \/ CreatePut(p) \/ Fault(p) \/ Acquire(p)
                              \/ Load(p) \/ Prepare(p) \/ Save(p) \/ Inspect(p) \/ Mark(p)
    BY <1>1 DEF CreateId, CreatePut, Fault, Acquire, Load, Prepare, Save, Inspect, Mark
  <1>2. CASE \E p \in Procs : Stage(p)
    BY <1>2 DEF Stage, Appends
  <1>3. ASSUME NEW p \in Procs, Confirm(p)
        PROVE  \/ UNCHANGED outbox
               \/ \E id \in 1..Len(outbox), state \in States : Becomes(id, state)
    <2>1. /\ ses[p] \in Session /\ TrueOf(ses[p], outbox)
          /\ Len(ses[p].ids) = ses[p].next + 1
      BY <1>3 DEF TypeInv, At, Confirm, Working
    <2>2. PICK k \in 1..Len(ses[p].ids) : k = ses[p].next + 1
      BY <2>1, SessionFields
    <2>3. ses[p].ids[k] \in 1..Len(outbox)
      BY <2>1 DEF TrueOf
    <2> QED BY <1>3, <2>2, <2>3 DEF Confirm, Becomes, States
  <1>4. ASSUME NEW id \in 1..Len(outbox), Settle(id) \/ Cancel(id)
        PROVE  \E state \in States : Becomes(id, state)
    BY <1>4 DEF Settle, Cancel, Becomes, States, Failed
  <1>5. CASE LockGoesStale \/ UNCHANGED vars
    BY <1>5 DEF LockGoesStale, vars
  <1> QED BY <1>1, <1>2, <1>3, <1>4, <1>5 DEF Next, ConfirmRequest

(* What a change of one entry leaves alone.                                *)
LEMMA EntryChanges ==
  ASSUME OutboxOK, NEW id \in 1..Len(outbox), NEW state \in States, Becomes(id, state)
  PROVE  /\ outbox' \in Seq(Tx) /\ Len(outbox) \in Nat /\ Len(outbox') = Len(outbox)
         /\ outbox'[id].index = outbox[id].index /\ outbox'[id].state = state
         /\ \A other \in 1..Len(outbox) : other # id => outbox'[other] = outbox[other]
  <1> DEFINE entry == [index |-> outbox[id].index, state |-> state]
  <1>1. outbox \in Seq(Tx) /\ Len(outbox) \in Nat
    BY DEF OutboxOK
  <1>2. outbox[id] \in Tx
    BY <1>1, ElementOfSeq
  <1>3. entry \in Tx /\ [outbox[id] EXCEPT !.state = state] = entry
    BY <1>2 DEF Tx
  <1>4. outbox' = [outbox EXCEPT ![id] = entry]
    BY <1>3 DEF Becomes
  <1>5. entry.index = outbox[id].index /\ entry.state = state
    OBVIOUS
  <1> HIDE DEF entry
  <1> QED BY <1>1, <1>3, <1>4, <1>5, ExceptSeq

(* What an append adds.                                                    *)
LEMMA EntryAppended ==
  ASSUME OutboxOK, NEW i \in Indices, Appends(i)
  PROVE  /\ outbox' \in Seq(Tx) /\ Len(outbox) \in Nat /\ Len(outbox') = Len(outbox) + 1
         /\ Len(outbox') <= MaxOutbox
         /\ outbox'[Len(outbox')].index = i /\ outbox'[Len(outbox')].state = "staged"
         /\ \A id \in 1..Len(outbox) : outbox'[id] = outbox[id]
  <1> DEFINE entry == [index |-> i, state |-> "staged"]
  <1>1. outbox \in Seq(Tx) /\ Len(outbox) \in Nat /\ outbox' = Append(outbox, entry)
    BY DEF OutboxOK, Appends
  <1>2. entry \in Tx /\ entry.index = i /\ entry.state = "staged"
    BY DEF Tx, States
  <1> HIDE DEF entry
  <1>3. /\ outbox' \in Seq(Tx) /\ Len(outbox') = Len(outbox) + 1
        /\ outbox'[Len(outbox) + 1] = entry
        /\ \A id \in 1..Len(outbox) : outbox'[id] = outbox[id]
    BY <1>1, <1>2, AppendProperties
  <1>4. Len(outbox') <= MaxOutbox
    BY <1>1, <1>3 DEF Appends
  <1> QED BY <1>1, <1>2, <1>3, <1>4

(* Who stages has a plan with the index it stages.                         *)
LEMMA StageIndex ==
  ASSUME TypeInv, NEW p \in Procs, pc[p] \in {"mark", "stage"}
  PROVE  /\ ses[p] \in Session /\ TrueOf(ses[p], outbox)
         /\ ses[p].next \in Indices /\ Len(ses[p].ids) = ses[p].next
         /\ ses[p].next < ses[p].planned
  BY SessionFields DEF TypeInv, At, Working, Indices

(* The outbox only grows.                                                  *)
LEMMA OutboxGrows ==
  ASSUME TypeInv, [Next]_vars
  PROVE  /\ OutboxOK' /\ Grown(outbox, outbox')
         /\ Len(outbox) \in Nat /\ Len(outbox') \in Nat
  <1>1. OutboxOK /\ Len(outbox) \in Nat
    BY DEF TypeInv, OutboxOK
  <1>2. CASE UNCHANGED outbox
    BY <1>1, <1>2 DEF OutboxOK, Grown
  <1>3. ASSUME NEW p \in Procs, Stage(p), Appends(ses[p].next)
        PROVE  OutboxOK' /\ Grown(outbox, outbox') /\ Len(outbox') \in Nat
    <2>1. ses[p].next \in Indices
      BY <1>3, StageIndex DEF Stage
    <2> QED BY <1>1, <1>3, <2>1, EntryAppended DEF OutboxOK, Grown
  <1>4. ASSUME NEW id \in 1..Len(outbox), NEW state \in States, Becomes(id, state)
        PROVE  OutboxOK' /\ Grown(outbox, outbox') /\ Len(outbox') \in Nat
    <2>1. /\ outbox' \in Seq(Tx) /\ Len(outbox') = Len(outbox)
          /\ outbox'[id].index = outbox[id].index
          /\ \A other \in 1..Len(outbox) : other # id => outbox'[other] = outbox[other]
      BY <1>1, <1>4, EntryChanges
    <2>2. outbox[id].state # "success"
      BY <1>4 DEF Becomes
    <2>3. Grown(outbox, outbox')
      BY <1>1, <2>1, <2>2 DEF Grown
    <2> QED BY <1>1, <2>1, <2>3 DEF OutboxOK
  <1> QED BY <1>1, <1>2, <1>3, <1>4, OutboxMoves

-----------------------------------------------------------------------------
(* Every step keeps TypeInv.                                               *)

LEMMA DraftTrue ==
  /\ Draft \in Session /\ Draft # None
  /\ \A ob : TrueOf(Draft, ob)
  <1>1. Draft \in Session
    <2>1. <<>> \in Seq(1..MaxOutbox)
      BY EmptySeq
    <2> QED BY <2>1 DEF Draft, Session, Statuses
  <1>2. ASSUME NEW ob PROVE TrueOf(Draft, ob)
    <2>1. Len(<<>>) = 0
      BY EmptySeq
    <2> QED BY <2>1 DEF Draft, TrueOf
  <1> QED BY <1>1, <1>2

(* The steps that read the session or write it back.                       *)
LEMMA ReadWriteTypes ==
  ASSUME TypeInv, NEW p \in Procs,
         CreateId(p) \/ CreatePut(p) \/ Acquire(p) \/ Load(p) \/ Save(p) \/ Fault(p)
  PROVE  CallsOK' /\ SessionOK' /\ At(p)' /\ faults' \in 0..MaxFaults
  <1>1. /\ CallsOK /\ SessionOK /\ At(p) /\ faults \in 0..MaxFaults /\ MaxFaults \in Nat
        /\ Draft \in Session /\ \A ob : TrueOf(Draft, ob)
    BY DraftTrue DEF TypeInv
  <1> USE DEF CallsOK, SessionOK, At, Working, Goto, Steps, Return
  <1>2. CASE CreateId(p) \/ CreatePut(p) \/ Acquire(p)
    BY <1>1, <1>2 DEF CreateId, CreatePut, Acquire
  <1>3. CASE Load(p)
    <2>1. CASE session = None \/ StagingUnknown(session)
      BY <1>1, <1>3, <2>1 DEF Load
    <2>2. CASE session # None /\ ~StagingUnknown(session)
      <3>1. PICK s \in Session : s = session /\ TrueOf(s, outbox)
        BY <1>1, <2>2
      <3>2. s.planned \in Nat /\ s.next \in Nat /\ Len(s.ids) \in Nat
        BY SessionFields
      <3>3. /\ pc[p] = "load" /\ UNCHANGED <<session, outbox, faults>>
            /\ Goto(p, IF s.planned = 0 THEN "prepare"
                       ELSE IF Finished(s) THEN "save"
                       ELSE IF Len(s.ids) > s.next THEN "inspect"
                       ELSE "mark", s)
        BY <1>3, <2>2, <3>1 DEF Load
      <3>4. CASE s.planned = 0 \/ Finished(s)
        BY <1>1, <3>1, <3>2, <3>3, <3>4 DEF Finished
      <3>5. CASE s.planned # 0 /\ ~Finished(s) /\ Len(s.ids) > s.next
        <4>1. Len(s.ids) = s.next + 1 /\ s.next < s.planned
          BY <3>1, <3>2, <3>5 DEF TrueOf, Finished
        <4> QED BY <1>1, <3>1, <3>3, <3>5, <4>1
      <3>6. CASE s.planned # 0 /\ ~Finished(s) /\ ~(Len(s.ids) > s.next)
        <4>1. Len(s.ids) = s.next /\ s.next < s.planned
          BY <3>1, <3>2, <3>6 DEF TrueOf, Finished
        <4> QED BY <1>1, <3>1, <3>3, <3>6, <4>1
      <3> QED BY <3>4, <3>5, <3>6
    <2> QED BY <2>1, <2>2
  <1>4. CASE Save(p)
    BY <1>1, <1>4 DEF Save
  <1>5. CASE Fault(p)
    BY <1>1, <1>5 DEF Fault
  <1> QED BY <1>2, <1>3, <1>4, <1>5

(* The steps that prepare, mark, stage, confirm and inspect.               *)
LEMMA WorkTypes ==
  ASSUME TypeInv, NEW p \in Procs,
         Prepare(p) \/ Inspect(p) \/ Mark(p) \/ Stage(p) \/ Confirm(p),
         OutboxOK', Grown(outbox, outbox'), Len(outbox) \in Nat, Len(outbox') \in Nat
  PROVE  CallsOK' /\ SessionOK' /\ At(p)' /\ faults' \in 0..MaxFaults
  <1>1. /\ CallsOK /\ SessionOK /\ At(p) /\ faults \in 0..MaxFaults /\ MaxFaults \in Nat
        /\ pc[p] \in Working
    BY DEF TypeInv, Prepare, Inspect, Mark, Stage, Confirm, Working
  <1>2. PICK s \in Session : s = ses[p] /\ TrueOf(s, outbox)
    BY <1>1 DEF At
  <1>3. TrueOf(s, outbox') /\ (session # None => TrueOf(session, outbox'))
    BY <1>1, <1>2, TrueGrows DEF SessionOK
  <1>4. ASSUME NEW t \in Session, TrueOf(t, outbox'),
               pc' = [pc EXCEPT ![p] = "save"] /\ ses' = [ses EXCEPT ![p] = t]
        PROVE  CallsOK' /\ At(p)'
    BY <1>1, <1>4 DEF CallsOK, At, Working, Steps
  <1>5. ASSUME NEW st \in Statuses \ {"complete"}
        PROVE  /\ [s EXCEPT !.status = st] \in Session
               /\ TrueOf([s EXCEPT !.status = st], outbox')
    BY <1>3, SessionUpdates
  <1>6. UNCHANGED session => SessionOK'
    BY <1>1, <1>3 DEF SessionOK
  <1>7. CASE Prepare(p)
    <2>1. PICK n \in 1..MaxTransactions :
            Goto(p, "save", [s EXCEPT !.planned = n, !.status = "prepared"])
      BY <1>2, <1>7 DEF Prepare
    <2>2. s.planned = 0
      BY <1>1, <1>2, <1>7 DEF Prepare, At
    <2>3. /\ [s EXCEPT !.planned = n, !.status = "prepared"] \in Session
          /\ TrueOf([s EXCEPT !.planned = n, !.status = "prepared"], outbox')
      BY <1>3, <2>2, SessionUpdates DEF Statuses
    <2>4. UNCHANGED <<session, faults>>
      BY <1>7 DEF Prepare
    <2> QED BY <1>1, <1>4, <1>6, <2>1, <2>3, <2>4 DEF Goto
  <1>8. CASE Inspect(p)
    <2>1. /\ s.next < s.planned /\ Len(s.ids) = s.next + 1
          /\ UNCHANGED <<session, outbox, faults>>
      BY <1>1, <1>2, <1>8 DEF Inspect, At
    <2> DEFINE state == outbox[s.ids[s.next + 1]].state
    <2>2. CASE Goto(p, "confirm", s)
      BY <1>1, <1>2, <1>3, <1>6, <2>1, <2>2 DEF Goto, CallsOK, At, Working, Steps
    <2>3. CASE Goto(p, "save", Inspected(s, state))
      <3>1. CASE state = "success"
        <4>1. Confirmed(s) \in Session /\ TrueOf(Confirmed(s), outbox')
          BY <1>2, <2>1, <3>1, ConfirmedTrue
        <4> QED BY <1>1, <1>4, <1>6, <2>1, <2>3, <3>1, <4>1 DEF Goto, Inspected
      <3>2. CASE state # "success"
        <4>1. \E st \in Statuses \ {"complete"} : Inspected(s, state) = [s EXCEPT !.status = st]
          <5>1. \E st \in {"awaiting_confirmation", "transaction_failed"} :
                  Inspected(s, state) = [s EXCEPT !.status = st]
            BY <3>2 DEF Inspected
          <5> QED BY <5>1 DEF Statuses
        <4> QED BY <1>1, <1>4, <1>5, <1>6, <2>1, <2>3, <4>1 DEF Goto
      <3> QED BY <3>1, <3>2
    <2> QED BY <1>2, <1>8, <2>2, <2>3 DEF Inspect
  <1>9. CASE Mark(p)
    <2> DEFINE marked == [s EXCEPT !.staging = s.next, !.status = "staging_started"]
    <2>1. /\ session' = marked /\ Goto(p, "stage", marked) /\ UNCHANGED faults
      BY <1>2, <1>9 DEF Mark
    <2>2. s.next \in Indices /\ Len(s.ids) = s.next /\ s.next < s.planned
      BY <1>2, <1>9, StageIndex DEF Mark
    <2>3. marked \in Session /\ TrueOf(marked, outbox')
      BY <1>3, <2>2, SessionUpdates DEF Statuses
    <2>4. marked.next = s.next /\ marked.ids = s.ids /\ marked.planned = s.planned
      BY DEF Session
    <2> HIDE DEF marked
    <2> QED BY <1>1, <2>1, <2>2, <2>3, <2>4 DEF Goto, CallsOK, SessionOK, At, Working, Steps
  <1>10. CASE Stage(p)
    <2>1. /\ s.next \in Indices /\ Len(s.ids) = s.next /\ s.next < s.planned
          /\ UNCHANGED session
      BY <1>2, <1>10, StageIndex DEF Stage
    <2>2. CASE Appends(s.next) /\ Goto(p, "save", Staged(s, Len(outbox) + 1))
               /\ UNCHANGED faults
      <3>1. /\ Len(outbox') = Len(outbox) + 1 /\ Len(outbox') <= MaxOutbox
            /\ outbox'[Len(outbox')].index = s.next
        BY <2>1, <2>2, EntryAppended DEF TypeInv
      <3>2. PICK id \in 1..MaxOutbox : id = Len(outbox) + 1
        BY <3>1
      <3>3. id \in 1..Len(outbox') /\ outbox'[id].index = s.next
        BY <3>1, <3>2
      <3>4. Staged(s, id) \in Session /\ TrueOf(Staged(s, id), outbox')
        BY <1>3, <2>1, <3>3, StagedTrue
      <3> QED BY <1>1, <1>4, <1>6, <2>1, <2>2, <3>2, <3>4 DEF Goto
    <2>3. CASE Return(p) /\ faults < MaxFaults /\ faults' = faults + 1
      BY <1>1, <1>6, <2>1, <2>3 DEF Return, Goto, CallsOK, At, Working, Steps
    <2>4. CASE Goto(p, "save", Rejected(s)) /\ faults < MaxFaults /\ faults' = faults + 1
      <3>1. Rejected(s) \in Session /\ TrueOf(Rejected(s), outbox')
        <4>1. PICK i \in Indices \cup {None}, st \in Statuses \ {"complete"} :
                i = None /\ st = "prepared"
          BY DEF Statuses
        <4>2. Rejected(s) = [s EXCEPT !.staging = i, !.status = st]
          BY <4>1 DEF Rejected
        <4>3. /\ [s EXCEPT !.staging = i, !.status = st] \in Session
              /\ TrueOf([s EXCEPT !.staging = i, !.status = st], outbox')
          BY <1>3, SessionUpdates
        <4> QED BY <4>2, <4>3
      <3>2. CallsOK' /\ At(p)'
        BY <1>4, <2>4, <3>1 DEF Goto
      <3>3. faults' \in 0..MaxFaults
        BY <1>1, <2>4
      <3> QED BY <1>6, <2>1, <3>2, <3>3
    <2> QED BY <1>2, <1>10, <2>2, <2>3, <2>4 DEF Stage, Appends
  <1>11. CASE Confirm(p)
    <2>1. UNCHANGED <<session, faults>>
      BY <1>11 DEF Confirm
    <2>2. CASE \E st \in Statuses \ {"complete"} : Goto(p, "save", [s EXCEPT !.status = st])
      BY <1>1, <1>4, <1>5, <1>6, <2>1, <2>2 DEF Goto
    <2>3. CASE Return(p)
      BY <1>1, <1>6, <2>1, <2>3 DEF Return, Goto, CallsOK, At, Working, Steps
    <2>4. Return(p) \/ \E st \in {"approval_required", "awaiting_confirmation"} :
                          Goto(p, "save", [s EXCEPT !.status = st])
      BY <1>2, <1>11 DEF Confirm
    <2> QED BY <2>2, <2>3, <2>4 DEF Statuses
  <1> QED BY <1>7, <1>8, <1>9, <1>10, <1>11

(* Every step keeps the types, and what is true of sessions.               *)
LEMMA StepTypes ==
  ASSUME TypeInv, [Next]_vars
  PROVE  TypeInv'
  <1>1. /\ OutboxOK' /\ Grown(outbox, outbox')
        /\ Len(outbox) \in Nat /\ Len(outbox') \in Nat
    BY OutboxGrows
  <1>2. LockTypeOK' /\ Exclusive'
    BY LockMoves, LockStepKeeps DEF TypeInv
  <1>3. \A s : TrueOf(s, outbox) => TrueOf(s, outbox')
    BY <1>1, TrueGrows
  <1>4. ASSUME UNCHANGED <<session, pc, ses, faults>>
        PROVE  TypeInv'
    BY <1>1, <1>2, <1>3, <1>4 DEF TypeInv, CallsOK, SessionOK, At
  <1>5. ASSUME NEW p \in Procs, Moves(p)
        PROVE  TypeInv'
    <2>1. CallsOK' /\ SessionOK' /\ At(p)' /\ faults' \in 0..MaxFaults
      BY <1>1, <1>5, ReadWriteTypes, WorkTypes DEF Moves, ConfirmRequest
    <2>2. ASSUME NEW q \in Procs, q # p PROVE At(q)'
      <3>1. At(q) /\ pc'[q] = pc[q] /\ ses'[q] = ses[q]
        BY <1>5, <2>2, MovesAlone DEF TypeInv, Elsewhere
      <3> QED BY <1>3, <3>1 DEF At
    <2> QED BY <1>1, <1>2, <2>1, <2>2 DEF TypeInv
  <1>6. CASE LockGoesStale \/ UNCHANGED vars
    BY <1>4, <1>6 DEF LockGoesStale, vars, calls
  <1>7. CASE \E id \in 1..Len(outbox) : Settle(id) \/ Cancel(id)
    BY <1>4, <1>7 DEF Settle, Cancel, calls
  <1> QED BY <1>5, <1>6, <1>7 DEF Next, Moves

LEMMA InitTypes == Init => TypeInv
  <1> SUFFICES ASSUME Init PROVE TypeInv
    OBVIOUS
  <1>1. LockTypeOK /\ Exclusive
    BY DEF Init, LockInit, LockTypeOK, Owners, Exclusive
  <1>2. outbox \in Seq(Tx) /\ Len(outbox) = 0
    BY EmptySeq DEF Init
  <1>3. CallsOK /\ \A p \in Procs : At(p)
    BY DEF Init, CallsOK, At, Steps, Working
  <1> QED BY <1>1, <1>2, <1>3 DEF Init, TypeInv, OutboxOK, SessionOK

LEMMA TypesAlways == Spec => []TypeInv
  BY InitTypes, StepTypes, PTL DEF Spec

LEMMA TypedSession == TypeInv => TypeOK
  BY DEF TypeInv, TypeOK, OutboxOK, CallsOK, SessionOK, Tx, States

(* The session, the outbox, the lock and what each invocation holds in its *)
(* hands are well typed, however slow, racing or killed they are.          *)
THEOREM FundingTypes == Spec => []TypeOK
  BY TypedSession, TypesAlways, PTL

-----------------------------------------------------------------------------
(* The plan's order, for slow holders and racing creates too.              *)

(* What is done is done, in Funding's words.                               *)
LEMMA DoneIsTxOf ==
  ASSUME NEW i
  PROVE  DoneIn(i, outbox) <=> \E id \in TxOf(i) : outbox[id].state = "success"
  BY DEF DoneIn, TxOf

OrderInv ==
  \A id \in 1..Len(outbox) : \A i \in 0..(outbox[id].index - 1) : DoneIn(i, outbox)

(* A transaction is staged only after those before it succeeded, and what  *)
(* succeeded stays so.                                                     *)
LEMMA OrderStep ==
  ASSUME TypeInv, OrderInv, [Next]_vars
  PROVE  OrderInv'
  <1>1. /\ OutboxOK /\ Grown(outbox, outbox')
        /\ Len(outbox) \in Nat /\ Len(outbox') \in Nat
    BY OutboxGrows DEF TypeInv
  <1>2. \A i : DoneIn(i, outbox) => DoneIn(i, outbox')
    BY <1>1 DEF DoneIn, Grown
  <1>3. \A id \in 1..Len(outbox) : \A i \in 0..(outbox'[id].index - 1) : DoneIn(i, outbox')
    BY <1>1, <1>2 DEF OrderInv, Grown
  <1>4. CASE Len(outbox') = Len(outbox)
    BY <1>3, <1>4 DEF OrderInv
  <1>5. ASSUME NEW p \in Procs, Stage(p), Appends(ses[p].next)
        PROVE  OrderInv'
    <2>1. ses[p].next \in Indices /\ TrueOf(ses[p], outbox)
      BY <1>5, StageIndex DEF Stage
    <2>2. Len(outbox') = Len(outbox) + 1 /\ outbox'[Len(outbox')].index = ses[p].next
      BY <1>1, <1>5, <2>1, EntryAppended
    <2>3. \A i \in 0..(outbox'[Len(outbox')].index - 1) : DoneIn(i, outbox')
      BY <1>2, <2>1, <2>2 DEF TrueOf
    <2> QED BY <1>1, <1>3, <2>2, <2>3 DEF OrderInv
  <1>6. ASSUME NEW id \in 1..Len(outbox), NEW state \in States, Becomes(id, state)
        PROVE  Len(outbox') = Len(outbox)
    BY <1>1, <1>6, EntryChanges
  <1> QED BY <1>4, <1>5, <1>6, OutboxMoves

LEMMA InitOrder == Init => OrderInv
  BY EmptySeq DEF Init, OrderInv

LEMMA OrderIs == OrderInv => InOrder
  BY DoneIsTxOf DEF OrderInv, InOrder

(* The swap is not staged, let alone sent, before its approval succeeded:  *)
(* although a slow holder writes back an old session over a newer one, and *)
(* a create replaces it by a draft.                                        *)
THEOREM StagedInOrder == Spec => []InOrder
  BY InitOrder, OrderIs, OrderStep, TypesAlways, PTL DEF Spec

LEMMA CompleteIs == TypeInv => CompleteIsTrue
  BY DoneIsTxOf DEF TypeInv, SessionOK, TrueOf, CompleteIsTrue

(* confirm_fund_request says "complete" only of a plan whose every         *)
(* transaction succeeded, under the same slow holders and racing creates.  *)
THEOREM CompleteIsSaidTruly == Spec => []CompleteIsTrue
  BY CompleteIs, TypesAlways, PTL

-----------------------------------------------------------------------------
(* Invocations that end before the lock goes stale.                        *)

(* Whoever is inside holds the lock, though SlowHolders is TRUE.           *)
Sole == \A p \in inside : owner = p

(* The session holds the id of whatever was staged, or the marker that     *)
(* stands for it; and the marker is of the next transaction.               *)
HoldsId(s, id) == \E k \in 1..Len(s.ids) : s.ids[k] = id
Knows(s, ob) ==
  /\ \A id \in 1..Len(ob) : HoldsId(s, id) \/ s.staging = ob[id].index
  /\ s.staging = None \/ (s.staging = s.next /\ Len(s.ids) = s.next)

(* No transaction of a plan is in the outbox twice.                        *)
Apart == \A i, j \in 1..Len(outbox) : outbox[i].index = outbox[j].index => i = j

(* What an invocation may count on, by its step.                           *)
Alone(p) ==
  /\ p \in inside <=> pc[p] \notin {"idle", "create"}
  /\ pc[p] = "create" => session = None /\ \A q \in Procs : pc[q] = "create" => q = p
  /\ pc[p] \in Working => session # None /\ Knows(ses[p], outbox)
  /\ pc[p] = "mark" => ses[p].staging = None
  /\ pc[p] = "stage" =>
       /\ session = ses[p] /\ ses[p].staging = ses[p].next
       /\ \A id \in 1..Len(outbox) : outbox[id].index # ses[p].next

StoredKnows ==
  /\ session = None => Len(outbox) = 0
  /\ session # None => Knows(session, outbox)

PromptInv == Sole /\ Apart /\ StoredKnows /\ \A p \in Procs : Alone(p)

(* A session with no marker holds every id, so nothing of its next         *)
(* transaction is out.                                                     *)
LEMMA NothingOfNext ==
  ASSUME NEW s \in Session, NEW ob, TrueOf(s, ob), Knows(s, ob), Len(s.ids) = s.next,
         s.staging = None, Len(ob) \in Nat, \A id \in 1..Len(ob) : ob[id].index \in Indices
  PROVE  \A id \in 1..Len(ob) : ob[id].index # s.next
  <1> SUFFICES ASSUME NEW id \in 1..Len(ob), ob[id].index = s.next
               PROVE  FALSE
    OBVIOUS
  <1>1. s.next \in Nat /\ s.staging # ob[id].index
    BY SessionFields DEF Indices
  <1>2. PICK k \in 1..Len(s.ids) : s.ids[k] = id
    BY <1>1 DEF Knows, HoldsId
  <1>3. ob[id].index = k - 1
    BY <1>2 DEF TrueOf
  <1> QED BY <1>1, <1>2, <1>3

(* Where an invocation is inside, no other is, nor does one create.        *)
LEMMA InsideAlone ==
  ASSUME PromptInv, NEW p \in Procs, pc[p] \notin {"idle", "create"}
  PROVE  \A q \in Procs \ {p} : pc[q] \in {"idle", "create"}
  BY DEF PromptInv, Sole, Alone

(* Whoever works is the only one that may be anywhere but idle.            *)
LEMMA WorksAlone ==
  ASSUME PromptInv, NEW p \in Procs, pc[p] \in Working
  PROVE  session # None /\ \A q \in Procs \ {p} : pc[q] = "idle"
  <1>1. pc[p] \notin {"idle", "create"}
    BY DEF Working
  <1>2. session # None
    BY DEF PromptInv, Alone
  <1>3. \A q \in Procs : pc[q] # "create"
    BY <1>2 DEF PromptInv, Alone
  <1> QED BY <1>1, <1>2, <1>3, InsideAlone

(* inside follows the steps.                                               *)
LEMMA InsideFollows ==
  ASSUME TypeInv, PromptInv, NEW p \in Procs, Moves(p)
  PROVE  \A q \in Procs : q \in inside' <=> pc'[q] \notin {"idle", "create"}
  <1>1. /\ pc \in [Procs -> Steps] /\ inside \subseteq Procs
        /\ \A q \in Procs : q \in inside <=> pc[q] \notin {"idle", "create"}
    BY DEF TypeInv, CallsOK, LockTypeOK, PromptInv, Alone
  <1> USE <1>1 DEF Goto, Return, lockVars, Take, Free, Die
  <1>2. CASE CreateId(p) \/ CreatePut(p) \/ Acquire(p) \/ Save(p) \/ Prepare(p) \/ Inspect(p)
    BY <1>2 DEF CreateId, CreatePut, Acquire, Save, Prepare, Inspect
  <1>3. CASE Load(p)
    BY <1>3 DEF Load
  <1>4. CASE Mark(p) \/ Stage(p) \/ Confirm(p)
    BY <1>4 DEF Mark, Stage, Confirm
  <1>5. CASE Fault(p)
    BY <1>5 DEF Fault
  <1> QED BY <1>2, <1>3, <1>4, <1>5 DEF Moves, ConfirmRequest

(* Entries that change state are known as before.                          *)
LEMMA ChangeKeepsPrompt ==
  ASSUME TypeInv, PromptInv, NEW id \in 1..Len(outbox), NEW state \in States,
         Becomes(id, state)
  PROVE  /\ Apart' /\ Len(outbox') = Len(outbox)
         /\ \A other \in 1..Len(outbox) : outbox'[other].index = outbox[other].index
         /\ \A s : Knows(s, outbox) => Knows(s, outbox')
  <1>1. /\ Len(outbox') = Len(outbox)
        /\ \A other \in 1..Len(outbox) : outbox'[other].index = outbox[other].index
    <2>1. /\ Len(outbox') = Len(outbox) /\ outbox'[id].index = outbox[id].index
          /\ \A other \in 1..Len(outbox) : other # id => outbox'[other] = outbox[other]
      BY EntryChanges DEF TypeInv
    <2> QED BY <2>1
  <1> QED BY <1>1 DEF PromptInv, Apart, Knows

(* Without an eviction the lock stays whoever's is inside.                 *)
LEMMA SoleStep ==
  ASSUME TypeInv, PromptInv, [Next /\ Prompt]_vars
  PROVE  Sole'
  <1>1. LockTypeOK /\ Sole
    BY DEF TypeInv, PromptInv
  <1>2. ~Evict \/ UNCHANGED lockVars
    BY DEF Prompt, vars, lockVars
  <1>3. \/ Reap \/ UNCHANGED lockVars
        \/ \E p \in Procs : Take(p) \/ Free(p) \/ Die(p)
    BY <1>2, LockMoves
  <1> QED BY <1>1, <1>3 DEF LockTypeOK, Owners, Sole, Reap, Take, Free, Die, lockVars

(* The others keep what they may count on.                                 *)
LEMMA OthersAlone ==
  ASSUME Prompt, TypeInv, PromptInv, NEW p \in Procs, Moves(p), NEW q \in Procs \ {p}
  PROVE  Alone(q)'
  <1>1. pc'[q] = pc[q] /\ ses'[q] = ses[q] /\ Alone(q) /\ pc[q] \in Steps
    BY MovesAlone DEF Elsewhere, TypeInv, PromptInv, CallsOK
  <1>2. q \in inside' <=> pc'[q] \notin {"idle", "create"}
    BY InsideFollows
  <1>3. CASE pc[q] \in {"idle", "load"}
    BY <1>1, <1>2, <1>3 DEF Alone, Working
  <1>4. CASE pc[q] = "create"
    <2>1. session = None /\ pc[p] # "create" /\ pc[p] \notin Working
      BY <1>4 DEF PromptInv, Alone
    <2>0. ~CreateId(p)
      <3>1. pc \in [Procs -> Steps]
        BY DEF TypeInv, CallsOK
      <3>2. CreateId(p) => pc[p] = "idle" /\ pc'[p] = "create"
        BY <3>1 DEF CreateId, Goto
      <3> QED BY <1>4, <3>2 DEF Prompt, Draws
    <2>2. UNCHANGED session
      BY <2>0, <2>1
         DEF Moves, ConfirmRequest, CreatePut, Acquire, Load, Prepare, Save, Inspect,
             Mark, Stage, Confirm, Fault, Working
    <2>3. pc'[p] # "create"
      <3>1. pc \in [Procs -> Steps]
        BY DEF TypeInv, CallsOK
      <3> QED
        BY <2>0, <2>1, <2>2, <3>1
           DEF Moves, ConfirmRequest, CreatePut, Acquire, Load, Prepare, Save, Inspect,
               Mark, Stage, Confirm, Fault, Return, Goto
    <2>4. \A r \in Procs : pc'[r] = "create" => r = q
      BY <1>4, <2>3, MovesAlone DEF PromptInv, Alone, Elsewhere, TypeInv
    <2> QED BY <1>1, <1>2, <1>4, <2>1, <2>2, <2>4 DEF Alone, Working
  <1>5. CASE pc[q] \in Working
    <2>1. session # None /\ pc[p] = "idle"
      BY <1>5, WorksAlone
    <2>2. UNCHANGED <<session, outbox>>
      BY <2>1
         DEF Moves, ConfirmRequest, CreateId, CreatePut, Acquire, Load, Prepare, Save, Inspect,
             Mark, Stage, Confirm, Fault
    <2> QED BY <1>1, <1>2, <1>5, <2>2 DEF Alone, Working
  <1> QED BY <1>1, <1>3, <1>4, <1>5 DEF Steps, Working

(* Knows speaks of three fields only.                                      *)
LEMMA KnowsSame ==
  ASSUME NEW s, NEW t, NEW ob, Knows(s, ob),
         t.ids = s.ids, t.next = s.next, t.staging = s.staging
  PROVE  Knows(t, ob)
  BY DEF Knows, HoldsId

(* The steps that read the session or write it back, alone.                *)
LEMMA ReadWriteAlone ==
  ASSUME Prompt, TypeInv, PromptInv, NEW p \in Procs, Moves(p),
         CreateId(p) \/ CreatePut(p) \/ Acquire(p) \/ Load(p) \/ Save(p) \/ Fault(p)
  PROVE  Apart' /\ StoredKnows' /\ Alone(p)'
  <1>1. /\ pc \in [Procs -> Steps] /\ ses \in [Procs -> Session \cup {None}]
        /\ Alone(p) /\ StoredKnows /\ Apart /\ SessionOK /\ At(p)
    BY DEF TypeInv, CallsOK, PromptInv
  <1>2. p \in inside' <=> pc'[p] \notin {"idle", "create"}
    BY InsideFollows
  <1>3. UNCHANGED outbox
    BY DEF CreateId, CreatePut, Acquire, Load, Save, Fault
  <1>4. Apart'
    BY <1>1, <1>3 DEF Apart
  <1>5. pc'[p] \in {"idle", "load"} => Alone(p)'
    BY <1>2 DEF Alone, Working
  <1>6. UNCHANGED session => StoredKnows'
    BY <1>1, <1>3 DEF StoredKnows
  <1>7. CASE CreateId(p)
    <2>1. pc'[p] = "create" /\ session' = None /\ UNCHANGED session
      BY <1>1, <1>7 DEF CreateId, Goto, Prompt, ListsTruly, Draws
    <2>2. \A q \in Procs : pc'[q] = "create" => q = p
      BY <1>1, <1>7 DEF CreateId, Goto, Prompt, Draws
    <2> QED BY <1>2, <1>4, <1>6, <2>1, <2>2 DEF Alone, Working
  <1>8. CASE CreatePut(p)
    <2>1. pc'[p] = "idle" /\ session' = Draft /\ Len(outbox) = 0
      BY <1>1, <1>8 DEF CreatePut, Goto, At, Alone, StoredKnows
    <2>2. Knows(Draft, outbox)
      BY <2>1 DEF Knows, Draft
    <2>3. StoredKnows'
      BY <1>3, <2>1, <2>2, DraftTrue DEF StoredKnows
    <2> QED BY <1>4, <1>5, <2>1, <2>3
  <1>9. CASE Acquire(p) \/ Fault(p)
    BY <1>1, <1>4, <1>5, <1>6, <1>9 DEF Acquire, Fault, Goto
  <1>10. CASE Load(p)
    <2>1. UNCHANGED session
      BY <1>10 DEF Load
    <2>2. CASE Return(p)
      BY <1>1, <1>4, <1>5, <1>6, <2>1, <2>2 DEF Return, Goto
    <2>3. CASE session # None /\ ~StagingUnknown(session) /\ ~Return(p)
      <3>1. /\ pc'[p] \in {"prepare", "save", "inspect", "mark"} /\ ses'[p] = session
            /\ pc'[p] = "mark" => ~(Len(session.ids) > session.next)
        BY <1>1, <1>10, <2>3 DEF Load, Goto
      <3>2. Knows(session, outbox) /\ session \in Session /\ TrueOf(session, outbox)
        BY <1>1, <2>3 DEF StoredKnows, SessionOK
      <3>3. pc'[p] = "mark" => session.staging = None
        <4>1. /\ session.next \in Nat /\ Len(session.ids) \in Nat
              /\ session.next <= Len(session.ids)
          BY <3>2, SessionFields DEF TrueOf
        <4> QED BY <2>3, <3>1, <3>2, <4>1 DEF Knows, StagingUnknown
      <3> QED BY <1>2, <1>3, <1>4, <1>6, <2>1, <2>3, <3>1, <3>2, <3>3 DEF Alone, Working
    <2> QED BY <1>10, <2>2, <2>3 DEF Load
  <1>11. CASE Save(p)
    <2>1. pc'[p] = "idle" /\ session' = ses[p]
      BY <1>1, <1>11 DEF Save, Return, Goto
    <2>2. Knows(ses[p], outbox) /\ ses[p] \in Session
      BY <1>1, <1>11 DEF Save, Alone, At, Working
    <2>3. StoredKnows'
      BY <1>3, <2>1, <2>2 DEF StoredKnows
    <2> QED BY <1>4, <1>5, <2>1, <2>3
  <1> QED BY <1>7, <1>8, <1>9, <1>10, <1>11

(* Prepare, inspect and mark, alone.                                       *)
LEMMA WorkAlone ==
  ASSUME TypeInv, PromptInv, NEW p \in Procs, Moves(p),
         Prepare(p) \/ Inspect(p) \/ Mark(p)
  PROVE  Apart' /\ StoredKnows' /\ Alone(p)'
  <1>1. /\ pc \in [Procs -> Steps] /\ ses \in [Procs -> Session \cup {None}]
        /\ Alone(p) /\ StoredKnows /\ Apart /\ At(p) /\ pc[p] \in Working
    BY DEF TypeInv, CallsOK, PromptInv, Prepare, Inspect, Mark, Working
  <1>2. p \in inside' <=> pc'[p] \notin {"idle", "create"}
    BY InsideFollows
  <1>3. UNCHANGED outbox /\ Apart'
    BY <1>1 DEF Prepare, Inspect, Mark, Apart
  <1>4. PICK s \in Session : /\ s = ses[p] /\ session # None
                             /\ Knows(s, outbox) /\ TrueOf(s, outbox)
    BY <1>1 DEF Alone, At
  <1>5. ASSUME UNCHANGED session, pc'[p] \in {"save", "confirm"}, Knows(ses'[p], outbox)
        PROVE  StoredKnows' /\ Alone(p)'
    BY <1>1, <1>2, <1>3, <1>4, <1>5 DEF StoredKnows, Alone, Working
  <1>6. CASE Prepare(p)
    <2>1. PICK n \in 1..MaxTransactions :
            Goto(p, "save", [s EXCEPT !.planned = n, !.status = "prepared"])
      BY <1>4, <1>6 DEF Prepare
    <2>2. PICK t : t = [s EXCEPT !.planned = n, !.status = "prepared"]
      OBVIOUS
    <2>3. t.ids = s.ids /\ t.next = s.next /\ t.staging = s.staging
      BY <2>2 DEF Session
    <2>4. Knows(t, outbox)
      BY <1>4, <2>3, KnowsSame
    <2> QED BY <1>1, <1>3, <1>5, <1>6, <2>1, <2>2, <2>4 DEF Prepare, Goto
  <1>7. CASE Inspect(p)
    <2> DEFINE state == outbox[s.ids[s.next + 1]].state
    <2>1. UNCHANGED session /\ Len(s.ids) = s.next + 1 /\ s.next \in Nat
      BY <1>1, <1>4, <1>7, SessionFields DEF Inspect, At
    <2>2. CASE Goto(p, "confirm", s)
      BY <1>1, <1>3, <1>4, <1>5, <2>1, <2>2 DEF Goto
    <2>3. CASE Goto(p, "save", Inspected(s, state))
      <3>1. Knows(Confirmed(s), outbox)
        <4>1. /\ Confirmed(s).ids = s.ids /\ Confirmed(s).staging = s.staging
              /\ s.staging = None
          BY <1>4, <2>1 DEF Confirmed, Session, Knows
        <4> QED BY <1>4, <4>1 DEF Knows, HoldsId
      <3>2. \A st : Knows([s EXCEPT !.status = st], outbox)
        BY <1>4, KnowsSame DEF Session
      <3>3. Knows(Inspected(s, state), outbox)
        BY <3>1, <3>2 DEF Inspected
      <3> QED BY <1>1, <1>3, <1>5, <2>1, <2>3, <3>3 DEF Goto
    <2> QED BY <1>4, <1>7, <2>2, <2>3 DEF Inspect
  <1>8. CASE Mark(p)
    <2> DEFINE marked == [s EXCEPT !.staging = s.next, !.status = "staging_started"]
    <2>1. session' = marked /\ pc'[p] = "stage" /\ ses'[p] = marked
      BY <1>1, <1>4, <1>8 DEF Mark, Goto
    <2>2. s.staging = None /\ Len(s.ids) = s.next /\ s.next \in Indices
      BY <1>1, <1>4, <1>8, StageIndex DEF Mark, Alone
    <2>3. \A id \in 1..Len(outbox) : outbox[id].index \in Indices
      <3>1. outbox \in Seq(Tx)
        BY DEF TypeInv, OutboxOK
      <3>2. \A id \in 1..Len(outbox) : outbox[id] \in Tx
        BY <3>1, ElementOfSeq
      <3> QED BY <3>2 DEF Tx
    <2>4. \A id \in 1..Len(outbox) : outbox[id].index # s.next
      <3>1. Len(outbox) \in Nat
        BY DEF TypeInv, OutboxOK
      <3> QED BY <1>4, <2>2, <2>3, <3>1, NothingOfNext
    <2>5. /\ marked \in Session /\ marked # None
          /\ marked.next = s.next /\ marked.ids = s.ids /\ marked.staging = s.next
      <3>1. marked \in Session
        BY <2>2 DEF Session, Statuses
      <3> QED BY <3>1 DEF Session
    <2>6. Knows(marked, outbox)
      <3>1. \A id \in 1..Len(outbox) : HoldsId(s, id)
        <4>1. \A i \in Indices : i # None
          BY DEF Indices
        <4> QED BY <1>4, <2>2, <2>3, <4>1 DEF Knows
      <3> HIDE DEF marked
      <3> QED BY <2>2, <2>5, <3>1 DEF Knows, HoldsId
    <2> HIDE DEF marked
    <2>7. StoredKnows' /\ Alone(p)'
      BY <1>2, <1>3, <2>1, <2>4, <2>5, <2>6 DEF StoredKnows, Alone, Working
    <2> QED BY <1>3, <2>7
  <1> QED BY <1>3, <1>5, <1>6, <1>7, <1>8

(* Stage and confirm, alone.                                               *)
LEMMA HostAlone ==
  ASSUME TypeInv, PromptInv, NEW p \in Procs, Moves(p), Stage(p) \/ Confirm(p)
  PROVE  Apart' /\ StoredKnows' /\ Alone(p)'
  <1>1. /\ pc \in [Procs -> Steps] /\ ses \in [Procs -> Session \cup {None}]
        /\ Alone(p) /\ StoredKnows /\ Apart /\ At(p) /\ pc[p] \in Working
        /\ OutboxOK /\ Len(outbox) \in Nat
    BY DEF TypeInv, CallsOK, PromptInv, Stage, Confirm, Working, OutboxOK
  <1>2. p \in inside' <=> pc'[p] \notin {"idle", "create"}
    BY InsideFollows
  <1>3. PICK s \in Session : /\ s = ses[p] /\ session # None
                             /\ Knows(s, outbox) /\ TrueOf(s, outbox)
    BY <1>1 DEF Alone, At
  <1>4. UNCHANGED session
    BY DEF Stage, Confirm
  <1>5. ASSUME Knows(session, outbox'), pc'[p] = "save", Knows(ses'[p], outbox')
        PROVE  StoredKnows' /\ Alone(p)'
    BY <1>2, <1>3, <1>4, <1>5 DEF StoredKnows, Alone, Working
  <1>6. ASSUME Knows(session, outbox'), pc'[p] = "idle"
        PROVE  StoredKnows' /\ Alone(p)'
    BY <1>2, <1>3, <1>4, <1>6 DEF StoredKnows, Alone, Working
  <1>7. Knows(session, outbox)
    BY <1>1, <1>3 DEF StoredKnows
  <1>8. CASE Stage(p)
    <2>1. /\ session = s /\ s.staging = s.next /\ s.next \in Indices /\ Len(s.ids) = s.next
          /\ s.next < s.planned
          /\ \A id \in 1..Len(outbox) : outbox[id].index # s.next
      BY <1>1, <1>3, <1>8, StageIndex DEF Stage, Alone
    <2>2. \A id \in 1..Len(outbox) : HoldsId(s, id)
      BY <1>3, <2>1 DEF Knows
    <2>3. ASSUME Appends(s.next)
          PROVE  /\ Apart' /\ Knows(session, outbox')
                 /\ Len(outbox') = Len(outbox) + 1
                 /\ Goto(p, "save", Staged(s, Len(outbox) + 1)) =>
                      Knows(Staged(s, Len(outbox) + 1), outbox')
      <3>1. /\ Len(outbox') = Len(outbox) + 1 /\ Len(outbox') <= MaxOutbox
            /\ outbox'[Len(outbox')].index = s.next
            /\ \A id \in 1..Len(outbox) : outbox'[id] = outbox[id]
        BY <1>1, <2>1, <2>3, EntryAppended
      <3>2. Apart'
        BY <1>1, <2>1, <3>1 DEF Apart
      <3>3. Knows(s, outbox')
        BY <1>1, <1>3, <2>1, <2>2, <3>1 DEF Knows
      <3>4. PICK new \in 1..MaxOutbox : new = Len(outbox) + 1
        BY <1>1, <3>1
      <3>5. PICK t : t = Staged(s, new)
        OBVIOUS
      <3>6. t.ids = Append(s.ids, new) /\ t.staging = None
        BY <3>5 DEF Staged, Session
      <3>7. \A id \in 1..Len(outbox') : HoldsId(t, id)
        <4>1. s.ids \in Seq(1..MaxOutbox)
          BY SessionFields
        <4>2. /\ Len(t.ids) = Len(s.ids) + 1 /\ Len(s.ids) \in Nat
              /\ t.ids[Len(s.ids) + 1] = new
              /\ \A k \in 1..Len(s.ids) : t.ids[k] = s.ids[k]
          BY <3>6, <4>1, AppendProperties
        <4>3. HoldsId(t, new)
          BY <4>2 DEF HoldsId
        <4>4. \A id : HoldsId(s, id) => HoldsId(t, id)
          BY <4>2 DEF HoldsId
        <4> QED BY <1>1, <2>2, <3>1, <3>4, <4>3, <4>4
      <3>8. Knows(t, outbox')
        BY <3>6, <3>7 DEF Knows
      <3> QED BY <1>3, <2>1, <3>1, <3>2, <3>3, <3>4, <3>5, <3>8
    <2>4. CASE Appends(s.next) /\ Goto(p, "save", Staged(s, Len(outbox) + 1))
      BY <1>1, <1>5, <2>3, <2>4 DEF Goto
    <2>5. CASE Appends(s.next) /\ Return(p)
      BY <1>1, <1>6, <2>3, <2>5 DEF Return, Goto
    <2>6. CASE UNCHANGED outbox /\ Goto(p, "save", Rejected(s))
      <3>1. PICK t : t = Rejected(s)
        OBVIOUS
      <3>2. t.ids = s.ids /\ t.staging = None
        BY <3>1 DEF Rejected, Session
      <3>3. Knows(t, outbox)
        BY <2>2, <3>2 DEF Knows, HoldsId
      <3>4. Apart'
        BY <1>1, <2>6 DEF Apart
      <3> QED BY <1>1, <1>5, <1>7, <2>6, <3>1, <3>3, <3>4 DEF Goto
    <2> QED BY <1>3, <1>8, <2>4, <2>5, <2>6 DEF Stage, Appends
  <1>9. CASE Confirm(p)
    <2>1. /\ Apart' /\ \A t : Knows(t, outbox) => Knows(t, outbox')
      <3>1. CASE UNCHANGED outbox
        BY <1>1, <3>1 DEF Apart
      <3>2. ASSUME NEW id \in 1..Len(outbox), NEW state \in States, Becomes(id, state)
            PROVE  Apart' /\ \A t : Knows(t, outbox) => Knows(t, outbox')
        BY <3>2, ChangeKeepsPrompt
      <3>3. [Next]_vars
        BY DEF Moves, Next
      <3>4. \A q \in Procs : ~Stage(q)
        <4>1. \A q \in Procs \ {p} : pc[q] = "idle"
          BY <1>1, WorksAlone
        <4> QED BY <1>9, <4>1 DEF Confirm, Stage
      <3> QED BY <3>1, <3>2, <3>3, <3>4, OutboxMoves
    <2>2. \A st : Knows([s EXCEPT !.status = st], outbox)
      BY <1>3, KnowsSame DEF Session
    <2>3. CASE \E st : Goto(p, "save", [s EXCEPT !.status = st])
      BY <1>1, <1>5, <1>7, <2>1, <2>2, <2>3 DEF Goto
    <2>4. CASE Return(p)
      BY <1>1, <1>6, <1>7, <2>1, <2>4 DEF Return, Goto
    <2> QED BY <1>3, <1>9, <2>3, <2>4 DEF Confirm
  <1> QED BY <1>8, <1>9

(* Every step of prompt invocations keeps PromptInv.                       *)
LEMMA PromptStep ==
  ASSUME TypeInv, PromptInv, [Next /\ Prompt]_vars
  PROVE  PromptInv'
  <1>0. Sole'
    BY SoleStep
  <1>1. ASSUME Prompt, NEW p \in Procs, Moves(p)
        PROVE  PromptInv'
    <2>1. Apart' /\ StoredKnows' /\ Alone(p)'
      BY <1>1, ReadWriteAlone, WorkAlone, HostAlone DEF Moves, ConfirmRequest
    <2>2. \A q \in Procs \ {p} : Alone(q)'
      BY <1>1, OthersAlone
    <2> QED BY <1>0, <2>1, <2>2 DEF PromptInv
  <1>2. ASSUME UNCHANGED <<session, pc, ses, inside>>, Apart',
               Len(outbox') = Len(outbox),
               \A id \in 1..Len(outbox) : outbox'[id].index = outbox[id].index,
               \A s : Knows(s, outbox) => Knows(s, outbox')
        PROVE  PromptInv'
    <2>1. StoredKnows'
      BY <1>2 DEF PromptInv, StoredKnows
    <2>2. \A p \in Procs : Alone(p)'
      BY <1>2 DEF PromptInv, Alone
    <2> QED BY <1>0, <1>2, <2>1, <2>2 DEF PromptInv
  <1>3. ASSUME NEW id \in 1..Len(outbox), Settle(id) \/ Cancel(id)
        PROVE  PromptInv'
    <2>1. \E state \in States : Becomes(id, state)
      BY <1>3 DEF Settle, Cancel, Becomes, States, Failed
    <2>2. UNCHANGED <<session, pc, ses, inside>>
      BY <1>3 DEF Settle, Cancel, calls, lockVars
    <2> QED BY <1>2, <2>1, <2>2, ChangeKeepsPrompt
  <1>4. CASE LockGoesStale \/ UNCHANGED vars
    <2>1. UNCHANGED <<session, pc, ses, inside, outbox>>
      BY <1>4 DEF LockGoesStale, Reap, Evict, calls, vars
    <2>2. Apart'
      BY <2>1 DEF PromptInv, Apart
    <2> QED BY <1>2, <2>1, <2>2
  <1> QED BY <1>1, <1>3, <1>4 DEF Next, Moves

LEMMA InitPrompt == Init => PromptInv
  <1>1. Len(<<>>) = 0
    BY EmptySeq
  <1> QED
    BY <1>1 DEF Init, LockInit, PromptInv, Sole, Apart, StoredKnows, Alone, Working

LEMMA PromptAlways == PromptSpec => [](TypeInv /\ PromptInv)
  <1>1. TypeInv /\ PromptInv /\ [Next /\ Prompt]_vars => (TypeInv /\ PromptInv)'
    BY StepTypes, PromptStep
  <1> QED BY <1>1, InitTypes, InitPrompt, PTL DEF PromptSpec

LEMMA PromptForgets ==
  ASSUME TypeInv, PromptInv
  PROVE  NoneForgotten
  <1> SUFFICES ASSUME NEW id \in 1..Len(outbox)
               PROVE  /\ session # None
                      /\ \/ \E k \in DOMAIN session.ids : session.ids[k] = id
                         \/ session.staging = outbox[id].index
    BY DEF NoneForgotten
  <1>1. session # None
    BY DEF PromptInv, StoredKnows
  <1>2. session \in Session /\ Knows(session, outbox)
    BY <1>1 DEF PromptInv, StoredKnows, TypeInv, SessionOK
  <1>3. DOMAIN session.ids = 1..Len(session.ids)
    BY <1>2, SessionFields, LenProperties
  <1> QED BY <1>1, <1>2, <1>3 DEF Knows, HoldsId

(* Whatever is in the outbox the stored session accounts for, by its id or *)
(* by the marker that was durable before the host was called: no lost      *)
(* answer and no kill makes confirm_fund_request forget a transaction, as  *)
(* long as no create draws its id from a failed list (next_id) or beside   *)
(* another, and no holder outlives its lock.                               *)
THEOREM FundingForgetsNone == PromptSpec => []NoneForgotten
  BY PromptAlways, PromptForgets, PTL

-----------------------------------------------------------------------------
(* Each transaction is staged once.                                        *)

LEMMA OneTxOf ==
  ASSUME Apart, NEW id \in 1..Len(outbox)
  PROVE  TxOf(outbox[id].index) = {id}
  BY DEF Apart, TxOf

Outcome(state) ==
  IF state = "success" THEN "done" ELSE IF state \in Failed THEN "failed" ELSE "sent"

(* The fate of an index that was staged once is its transaction's, before  *)
(* a step and after it.                                                    *)
LEMMA FateOfOne ==
  ASSUME NEW i, NEW id
  PROVE  /\ TxOf(i) = {id} => Fate(i) = Outcome(outbox[id].state)
         /\ TxOf(i)' = {id} => Fate(i)' = Outcome(outbox'[id].state)
  <1>1. Cardinality({id}) = 1
    BY FS_Singleton
  <1>2. (CHOOSE j \in {id} : TRUE) = id
    OBVIOUS
  <1>3. {id} # {} /\ ~(Cardinality({id}) > 1)
    BY <1>1
  <1> QED BY <1>2, <1>3 DEF Fate, Outcome

(* An index whose transactions do not change keeps its fate.               *)
LEMMA SameFate ==
  ASSUME NEW i, TxOf(i)' = TxOf(i), \A id \in TxOf(i) : outbox'[id] = outbox[id]
  PROVE  Fate(i)' = Fate(i)
  <1> DEFINE own == TxOf(i)
             one == CHOOSE id \in own : TRUE
  <1>1. own # {} => one \in own
    OBVIOUS
  <1>2. own # {} => outbox'[one] = outbox[one]
    BY <1>1
  <1> QED BY <1>2 DEF Fate

(* A step stages one index, settles one, or changes no fate.               *)
LEMMA ShotStep ==
  ASSUME TypeInv, PromptInv, [Next]_vars
  PROVE  [Shot!Next]_([i \in Indices |-> Fate(i)])
  <1> DEFINE fates == [i \in Indices |-> Fate(i)]
  <1>1. CASE UNCHANGED outbox
    <2>1. \A i : TxOf(i)' = TxOf(i)
      BY <1>1 DEF TxOf
    <2>2. \A i : Fate(i)' = Fate(i)
      BY <1>1, <2>1, SameFate
    <2> QED BY <2>2
  <1>2. ASSUME NEW p \in Procs, Stage(p), Appends(ses[p].next)
        PROVE  Shot!Next
    <2>1. PICK i \in Indices : i = ses[p].next
      BY <1>2, StageIndex DEF Stage
    <2>2. /\ Len(outbox) \in Nat /\ Len(outbox') = Len(outbox) + 1
          /\ outbox'[Len(outbox')].index = i /\ outbox'[Len(outbox')].state = "staged"
          /\ \A id \in 1..Len(outbox) : outbox'[id] = outbox[id]
      BY <1>2, <2>1, EntryAppended DEF TypeInv
    <2>3. PICK new \in Nat : new = Len(outbox')
      BY <2>2
    <2>4. 1..Len(outbox') = (1..Len(outbox)) \cup {new} /\ new \notin 1..Len(outbox)
      BY <2>2, <2>3
    <2>5. TxOf(i) = {}
      BY <1>2, <2>1 DEF PromptInv, Alone, Stage, TxOf
    <2>6. TxOf(i)' = {new}
      BY <2>2, <2>3, <2>4, <2>5 DEF TxOf
    <2>7. Fate(i) = "unsent" /\ Fate(i)' = "sent"
      <3>1. Outcome(outbox'[new].state) = "sent"
        BY <2>2, <2>3 DEF Outcome, Failed
      <3> QED BY <2>5, <2>6, <3>1, FateOfOne DEF Fate
    <2>8. \A j \in Indices \ {i} : Fate(j)' = Fate(j)
      <3> SUFFICES ASSUME NEW j \in Indices, j # i
                   PROVE  Fate(j)' = Fate(j)
        OBVIOUS
      <3>1. TxOf(j)' = TxOf(j)
        BY <2>2, <2>3, <2>4 DEF TxOf
      <3>2. \A id \in TxOf(j) : outbox'[id] = outbox[id]
        BY <2>2 DEF TxOf
      <3> QED BY <3>1, <3>2, SameFate
    <2>9. fates' = [fates EXCEPT ![i] = "sent"]
      BY <2>7, <2>8
    <2>10. Shot!Send(i)
      BY <2>7, <2>9 DEF Shot!Send
    <2> QED BY <2>10 DEF Shot!Next
  <1>3. ASSUME NEW id \in 1..Len(outbox), NEW state \in States, Becomes(id, state)
        PROVE  Shot!Next \/ UNCHANGED fates
    <2>1. /\ Len(outbox') = Len(outbox)
          /\ outbox'[id].index = outbox[id].index /\ outbox'[id].state = state
          /\ \A other \in 1..Len(outbox) : other # id => outbox'[other] = outbox[other]
      BY <1>3, EntryChanges DEF TypeInv
    <2>2. PICK i \in Indices : i = outbox[id].index
      <3>1. outbox \in Seq(Tx)
        BY DEF TypeInv, OutboxOK
      <3>2. outbox[id] \in Tx
        BY <3>1, ElementOfSeq
      <3> QED BY <3>2 DEF Tx
    <2>3. TxOf(i) = {id}
      BY <2>2, OneTxOf DEF PromptInv
    <2>4. TxOf(i)' = {id}
      BY <2>1, <2>2, <2>3 DEF TxOf
    <2>5. Fate(i) = "sent"
      <3>1. Outcome(outbox[id].state) = "sent"
        BY <1>3 DEF Becomes, Outcome, Failed
      <3> QED BY <2>3, <3>1, FateOfOne
    <2>6. Fate(i)' = Outcome(state)
      BY <2>1, <2>4, FateOfOne
    <2>7. \A j \in Indices \ {i} : Fate(j)' = Fate(j)
      <3> SUFFICES ASSUME NEW j \in Indices, j # i
                   PROVE  Fate(j)' = Fate(j)
        OBVIOUS
      <3>1. TxOf(j)' = TxOf(j)
        BY <2>1, <2>2 DEF TxOf
      <3>2. \A other \in TxOf(j) : outbox'[other] = outbox[other]
        BY <2>1, <2>2 DEF TxOf
      <3> QED BY <3>1, <3>2, SameFate
    <2>8. fates' = [fates EXCEPT ![i] = Outcome(state)]
      BY <2>6, <2>7
    <2>9. CASE Outcome(state) = "sent"
      BY <2>5, <2>6, <2>7, <2>9
    <2>10. CASE Outcome(state) # "sent"
      <3>1. Outcome(state) \in {"done", "failed"}
        BY <2>10 DEF Outcome
      <3>2. Shot!Settle(i)
        BY <2>5, <2>8, <3>1 DEF Shot!Settle
      <3> QED BY <3>2 DEF Shot!Next
    <2> QED BY <2>9, <2>10
  <1> QED BY <1>1, <1>2, <1>3, OutboxMoves

LEMMA FatesStart == Init => \A i \in Indices : Fate(i) = "unsent"
  <1> SUFFICES ASSUME Init PROVE \A i \in Indices : Fate(i) = "unsent"
    OBVIOUS
  <1>1. Len(outbox) = 0
    BY EmptySeq DEF Init
  <1>2. \A i : TxOf(i) = {}
    BY <1>1 DEF TxOf
  <1> QED BY <1>2 DEF Fate

(* A funding session (confirm_fund_request) implements OneShot: whatever   *)
(* confirms overlap, answers are lost and invocations are killed, each     *)
(* transaction of its plan is staged at most once, and its outcome is      *)
(* final, under the same three hypotheses on creates and holders.          *)
THEOREM FundingImplementsOneShot == PromptSpec => ImplementsOneShot
  <1>1. Init => Shot!Init
    BY FatesStart DEF Shot!Init
  <1>2. /\ TypeInv /\ PromptInv /\ [Next /\ Prompt]_vars
        => [Shot!Next]_([i \in Indices |-> Fate(i)])
    BY ShotStep
  <1> QED BY <1>1, <1>2, PromptAlways, PTL DEF PromptSpec, ImplementsOneShot, Shot!Spec

-----------------------------------------------------------------------------
(* What the sessions of a wallet move: FundPlan, whose sessions plan from  *)
(* balances and an allowance that others change meanwhile.                 *)

Routes == {<<"transfer">>, <<"swap">>, <<"approve", "swap">>}
Planned == [steps : Routes, input : 0..MaxSpend, output : Nat]

(* A plan has at most two transactions, and the last one takes the input.  *)
LEMMA RouteIs ==
  /\ Len(<<"transfer">>) = 1 /\ <<"transfer">>[1] = "transfer"
  /\ Len(<<"swap">>) = 1 /\ <<"swap">>[1] = "swap"
  /\ Len(<<"approve", "swap">>) = 2
  /\ <<"approve", "swap">>[1] = "approve" /\ <<"approve", "swap">>[2] = "swap"
  OBVIOUS

(* The step that is next, for each plan.                                   *)
LEMMA PendingIs ==
  ASSUME NEW s \in Sessions, NEW step, Plan!Pending(s, step),
         plan[s].steps \in Routes, done[s] \in Nat
  PROVE  /\ step = "transfer" => plan[s].steps = <<"transfer">> /\ done[s] = 0
         /\ step = "approve" => plan[s].steps = <<"approve", "swap">> /\ done[s] = 0
         /\ step = "swap" => \/ plan[s].steps = <<"swap">> /\ done[s] = 0
                             \/ plan[s].steps = <<"approve", "swap">> /\ done[s] = 1
  <1>1. done[s] < Len(plan[s].steps) /\ plan[s].steps[done[s] + 1] = step
    BY DEF Plan!Pending
  <1>2. CASE plan[s].steps = <<"transfer">>
    <2>1. done[s] = 0
      BY <1>1, <1>2, RouteIs
    <2> QED BY <1>1, <1>2, <2>1, RouteIs
  <1>3. CASE plan[s].steps = <<"swap">>
    <2>1. done[s] = 0
      BY <1>1, <1>3, RouteIs
    <2> QED BY <1>1, <1>3, <2>1, RouteIs
  <1>4. CASE plan[s].steps = <<"approve", "swap">>
    <2>1. done[s] = 0 \/ done[s] = 1
      BY <1>1, <1>4, RouteIs
    <2> QED BY <1>1, <1>4, <2>1, RouteIs
  <1> QED BY <1>2, <1>3, <1>4 DEF Routes

(* funding_required_input stays within max_spend.                          *)
LEMMA InputCapped ==
  ASSUME MaxSpend \in Nat, NEW need \in Nat, NEW atMax \in Nat, atMax > 0
  PROVE  Plan!RequiredInput(need, atMax) \in 0..MaxSpend
  <1>1. PICK n \in Nat : n = MaxSpend * need
    OBVIOUS
  <1>2. PICK q \in Nat : q = n \div atMax
    OBVIOUS
  <1>3. PICK m \in Nat : m = (q * 102) \div 100
    OBVIOUS
  <1>4. Plan!RequiredInput(need, atMax) = IF m < MaxSpend THEN m ELSE MaxSpend
    BY <1>1, <1>2, <1>3 DEF Plan!RequiredInput
  <1> QED BY <1>4

PlanTypes ==
  /\ deposit \in Nat /\ allowance \in Nat
  /\ owned \in [Plan!Tokens -> 0..Balance]
  /\ missing \in [Sessions -> 0..Target \cup {None}]
  /\ plan \in [Sessions -> Planned \cup {None}]
  /\ done \in [Sessions -> Nat]
  /\ failed \in [Sessions -> {"no", "short", "reverted"}]
  /\ taken \in [Sessions -> Nat]

(* A session measured what is missing once and for all; its plan covers    *)
(* that, and takes its input, once, with the last of its transactions.     *)
PlanOK(s) ==
  /\ missing[s] # None => missing[s] > 0 /\ deposit + missing[s] >= Target
  /\ plan[s] = None => done[s] = 0 /\ failed[s] = "no" /\ taken[s] = 0
  /\ plan[s] # None =>
       /\ missing[s] # None
       /\ plan[s].output >= missing[s]
       /\ plan[s].steps = <<"approve", "swap">> => s \notin Native
       /\ s \in Direct <=> plan[s].steps = <<"transfer">>
       /\ s \in Direct => plan[s].input = plan[s].output
       /\ done[s] <= Len(plan[s].steps)
       /\ IF Plan!Complete(s) THEN taken[s] = plan[s].input /\ deposit + Slip >= Target
          ELSE taken[s] = 0

(* Whatever the router may take above what it could at first, some plan    *)
(* that is still under way gave it.                                        *)
AllowanceOK ==
  \/ allowance <= Allowance
  \/ \E s \in Sessions :
       /\ plan[s] # None /\ plan[s].steps = <<"approve", "swap">> /\ done[s] = 1
       /\ allowance <= plan[s].input

PlanInv == PlanTypes /\ AllowanceOK /\ \A s \in Sessions : PlanOK(s)

LEMMA PlanStart ==
  ASSUME Plan!Init
  PROVE  PlanInv
  BY PlanConstants DEF Plan!FundPlanConstants, Plan!Init, PlanInv, PlanTypes, AllowanceOK, PlanOK

LEMMA More ==
  ASSUME NEW x \in Nat, NEW y \in Nat, NEW slip \in Nat, NEW target \in Nat, y >= x
  PROVE  x + slip >= target => y + slip >= target
  OBVIOUS

(* What a step of session s leaves of another session t.                   *)
LEMMA OthersKept ==
  ASSUME Target \in Nat, Slip \in Nat, None \notin Nat, PlanTypes, NEW t \in Sessions, PlanOK(t),
         missing'[t] = missing[t], plan'[t] = plan[t], done'[t] = done[t],
         failed'[t] = failed[t], taken'[t] = taken[t],
         deposit' \in Nat, deposit' >= deposit
  PROVE  PlanOK(t)'
  <1>1. deposit \in Nat /\ (missing[t] # None => missing[t] \in Nat)
    BY DEF PlanTypes
  <1>2. missing'[t] # None => missing'[t] > 0 /\ deposit' + missing'[t] >= Target
    BY <1>1 DEF PlanOK
  <1>3. Plan!Complete(t)' = Plan!Complete(t)
    BY DEF Plan!Complete
  <1>4. deposit + Slip >= Target => deposit' + Slip >= Target
    BY <1>1, More, Zenon
  <1> QED BY <1>2, <1>3, <1>4 DEF PlanOK

(* Only the transactions of a plan touch the allowance.                    *)
LEMMA AllowanceKept ==
  ASSUME AllowanceOK, allowance' = allowance,
         \A s \in Sessions : plan[s] # None => plan'[s] = plan[s] /\ done'[s] = done[s]
  PROVE  AllowanceOK'
  BY DEF AllowanceOK

LEMMA MeasureKeeps ==
  ASSUME PlanInv, NEW s \in Sessions,
         Plan!Measure(s) \/ Plan!Refuse(s)
  PROVE  PlanInv'
  <1>1. /\ plan[s] = None /\ plan' = plan /\ deposit' = deposit /\ owned' = owned
        /\ allowance' = allowance /\ done' = done /\ failed' = failed /\ taken' = taken
        /\ \E n : /\ missing' = [missing EXCEPT ![s] = n]
                  /\ n # None => deposit < Target /\ n = Target - deposit
    <2>1. /\ deposit' = deposit /\ owned' = owned /\ allowance' = allowance
          /\ done' = done /\ failed' = failed /\ taken' = taken /\ plan' = plan
      BY DEF Plan!Measure, Plan!Refuse, Plan!chain
    <2>2. plan[s] = None
      BY DEF Plan!Measure, Plan!Refuse, PlanInv, PlanOK
    <2>3. \E n : /\ missing' = [missing EXCEPT ![s] = n]
                 /\ n # None => deposit < Target /\ n = Target - deposit
      BY DEF Plan!Measure, Plan!Refuse
    <2> QED BY <2>1, <2>2, <2>3, Zenon
  <1>2. PICK n : /\ missing' = [missing EXCEPT ![s] = n]
                 /\ n # None => deposit < Target /\ n = Target - deposit
    BY <1>1
  <1>3. Target \in Nat /\ Slip \in Nat /\ None \notin Nat /\ deposit \in Nat
    BY PlanConstants DEF Plan!FundPlanConstants, PlanInv, PlanTypes
  <1>4. n # None => n \in 0..Target /\ n > 0 /\ deposit + n >= Target
    BY <1>2, <1>3
  <1>5. PlanTypes'
    BY <1>1, <1>2, <1>4 DEF PlanInv, PlanTypes
  <1>6. AllowanceOK'
    BY <1>1, AllowanceKept DEF PlanInv
  <1>7. ASSUME NEW t \in Sessions PROVE PlanOK(t)'
    <2>1. CASE t = s
      <3>1. missing'[s] = n
        BY <1>2 DEF PlanInv, PlanTypes
      <3> QED BY <1>1, <1>4, <2>1, <3>1 DEF PlanInv, PlanOK
    <2>2. CASE t # s
      <3>1. missing'[t] = missing[t]
        BY <1>2, <2>2 DEF PlanInv, PlanTypes
      <3> QED BY <1>1, <1>3, <3>1, OthersKept DEF PlanInv
    <2> QED BY <2>1, <2>2
  <1> QED BY <1>5, <1>6, <1>7 DEF PlanInv

LEMMA PlanningKeeps ==
  ASSUME PlanInv, NEW s \in Sessions,
         Plan!PlanDirect(s) \/ Plan!PlanSwap(s)
  PROVE  PlanInv'
  <1>1. /\ Target \in Nat /\ Slip \in Nat /\ None \notin Nat /\ MaxSpend \in Nat
        /\ Outputs \subseteq Nat /\ deposit \in Nat /\ Native \cap Direct = {}
    BY PlanConstants DEF Plan!FundPlanConstants, PlanInv, PlanTypes
  <1>2. /\ missing' = missing /\ deposit' = deposit /\ owned' = owned
        /\ allowance' = allowance /\ done' = done /\ failed' = failed /\ taken' = taken
        /\ plan[s] = None /\ missing[s] # None
    BY DEF Plan!PlanDirect, Plan!PlanSwap, Plan!chain
  <1>3. missing[s] \in Nat /\ missing[s] > 0
    BY <1>2 DEF PlanInv, PlanTypes, PlanOK
  <1>4. PICK x : /\ plan' = [plan EXCEPT ![s] = x]
                 /\ x \in Planned /\ x.output >= missing[s]
                 /\ x.steps = <<"approve", "swap">> => s \notin Native
                 /\ s \in Direct <=> x.steps = <<"transfer">>
                 /\ s \in Direct => x.input = x.output
    <2>1. CASE Plan!PlanDirect(s)
      <3> DEFINE x == [steps |-> <<"transfer">>, input |-> missing[s], output |-> missing[s]]
      <3>1. s \in Direct /\ missing[s] <= MaxSpend /\ plan' = [plan EXCEPT ![s] = x]
        BY <2>1 DEF Plan!PlanDirect, Plan!FitsDirect
      <3>2. x \in Planned
        BY <1>1, <1>3, <3>1 DEF Planned, Routes
      <3>3. x.steps = <<"transfer">> /\ x.output = missing[s] /\ x.input = missing[s]
        OBVIOUS
      <3> HIDE DEF x
      <3>4. /\ x.output >= missing[s]
            /\ x.steps = <<"approve", "swap">> => s \notin Native
            /\ s \in Direct <=> x.steps = <<"transfer">>
            /\ s \in Direct => x.input = x.output
        BY <1>1, <1>3, <3>1, <3>3
      <3> QED BY <3>1, <3>2, <3>4, Zenon
    <2>2. CASE Plan!PlanSwap(s)
      <3>1. PICK atMax \in Outputs, output \in Outputs :
              /\ atMax > 0 /\ output >= missing[s]
              /\ plan' = [plan EXCEPT ![s] =
                   [steps |-> Plan!StepsOf(s, Plan!RequiredInput(missing[s], atMax)),
                    input |-> Plan!RequiredInput(missing[s], atMax), output |-> output]]
        BY <2>2 DEF Plan!PlanSwap, Plan!Covers
      <3>2. PICK input : input = Plan!RequiredInput(missing[s], atMax)
        OBVIOUS
      <3>3. input \in 0..MaxSpend
        BY <1>1, <1>3, <3>1, <3>2, InputCapped
      <3>4. PICK steps : steps = Plan!StepsOf(s, input)
        OBVIOUS
      <3>5. steps \in Routes /\ (steps = <<"approve", "swap">> => s \notin Native)
            /\ steps # <<"transfer">>
        BY <3>4, RouteIs DEF Plan!StepsOf, Routes
      <3> DEFINE x == [steps |-> steps, input |-> input, output |-> output]
      <3>6. x \in Planned
        BY <1>1, <3>1, <3>3, <3>5 DEF Planned
      <3>7. x.steps = steps /\ x.output = output /\ plan' = [plan EXCEPT ![s] = x]
        BY <3>1, <3>2, <3>4
      <3>8. s \notin Direct
        BY <2>2 DEF Plan!PlanSwap
      <3> HIDE DEF x
      <3> QED BY <3>1, <3>5, <3>6, <3>7, <3>8
    <2> QED BY <2>1, <2>2
  <1>5. PlanTypes'
    BY <1>2, <1>4 DEF PlanInv, PlanTypes
  <1>6. \A t \in Sessions : plan'[t] = IF t = s THEN x ELSE plan[t]
    BY <1>4 DEF PlanInv, PlanTypes
  <1>7. AllowanceOK'
    BY <1>2, <1>6, AllowanceKept DEF PlanInv
  <1>8. ASSUME NEW t \in Sessions PROVE PlanOK(t)'
    <2>1. CASE t = s
      <3>1. Len(x.steps) \in {1, 2} /\ done[s] = 0 /\ taken[s] = 0 /\ failed[s] = "no"
        BY <1>2, <1>4, RouteIs DEF Planned, Routes, PlanInv, PlanOK
      <3>2. plan'[s] = x /\ x # None => ~Plan!Complete(s)'
        BY <1>2, <3>1 DEF Plan!Complete
      <3>3. plan'[s] = x
        BY <1>6
      <3>4. missing[s] > 0 /\ deposit + missing[s] >= Target
        BY <1>2 DEF PlanInv, PlanOK
      <3>5. CASE x # None
        BY <1>2, <1>4, <2>1, <3>1, <3>2, <3>3, <3>4, <3>5 DEF PlanOK
      <3>6. CASE x = None
        BY <1>2, <1>4, <2>1, <3>1, <3>3, <3>4, <3>6 DEF PlanOK
      <3> QED BY <3>5, <3>6
    <2>2. CASE t # s
      BY <1>1, <1>2, <1>6, <2>2, OthersKept DEF PlanInv
    <2> QED BY <2>1, <2>2
  <1> QED BY <1>5, <1>7, <1>8 DEF PlanInv

(* RunTransfer and RunSwap: the last transaction takes the input.          *)
LEMMA TakingKeeps ==
  ASSUME PlanInv, NEW s \in Sessions,
         plan[s] # None, done[s] + 1 = Len(plan[s].steps), Plan!Take(s),
         owned[Plan!TokenOf(s)] >= plan[s].input,
         missing' = missing, plan' = plan, failed' = failed,
         deposit' \in Nat, deposit' >= deposit, deposit' + Slip >= Target,
         allowance' \in Nat, AllowanceOK'
  PROVE  PlanInv'
  <1>1. /\ Target \in Nat /\ Slip \in Nat /\ None \notin Nat /\ MaxSpend \in Nat /\ Balance \in Nat
        /\ plan[s] \in Planned /\ plan[s].input \in Nat /\ done[s] \in Nat /\ taken[s] \in Nat
    BY PlanConstants DEF Plan!FundPlanConstants, PlanInv, PlanTypes, Planned
  <1>2. /\ done' = [done EXCEPT ![s] = @ + 1]
        /\ taken' = [taken EXCEPT ![s] = @ + plan[s].input]
        /\ owned' = [owned EXCEPT ![Plan!TokenOf(s)] = @ - plan[s].input]
    BY DEF Plan!Take
  <1>3. Plan!TokenOf(s) \in Plan!Tokens
    BY DEF Plan!TokenOf, Plan!Tokens
  <1>4. owned' \in [Plan!Tokens -> 0..Balance]
    <2>1. PICK token \in Plan!Tokens : token = Plan!TokenOf(s)
      BY <1>3
    <2>2. owned[token] \in 0..Balance /\ owned[token] >= plan[s].input
      BY <2>1 DEF PlanInv, PlanTypes
    <2>3. owned[token] - plan[s].input \in 0..Balance
      BY <1>1, <2>2
    <2> QED BY <1>2, <2>1, <2>3 DEF PlanInv, PlanTypes
  <1>5. PlanTypes'
    <2>1. done[s] + 1 \in Nat /\ taken[s] + plan[s].input \in Nat
      <3>1. \A x, y \in Nat : x + y \in Nat /\ x + 1 \in Nat
        OBVIOUS
      <3> QED BY <1>1, <3>1
    <2>2. done' \in [Sessions -> Nat] /\ taken' \in [Sessions -> Nat]
      BY <1>2, <2>1 DEF PlanInv, PlanTypes
    <2>3. /\ missing' \in [Sessions -> 0..Target \cup {None}]
          /\ plan' \in [Sessions -> Planned \cup {None}]
          /\ failed' \in [Sessions -> {"no", "short", "reverted"}]
      BY Zenon DEF PlanInv, PlanTypes
    <2> QED BY <1>4, <2>2, <2>3, Zenon DEF PlanTypes
  <1>6. ASSUME NEW t \in Sessions PROVE PlanOK(t)'
    <2>1. CASE t = s
      <3>1. ~Plan!Complete(s) /\ taken[s] = 0 /\ missing[s] # None
        BY <1>1 DEF Plan!Complete, PlanInv, PlanOK
      <3>2. done'[s] = done[s] + 1 /\ taken'[s] = 0 + plan[s].input
        BY <1>2, <3>1 DEF PlanInv, PlanTypes
      <3>3. Plan!Complete(s)' /\ taken'[s] = plan[s].input /\ done'[s] <= Len(plan[s].steps)
        BY <1>1, <3>2 DEF Plan!Complete
      <3>4. missing[s] \in Nat
        BY <3>1 DEF PlanInv, PlanTypes
      <3>5. missing[s] > 0 /\ deposit + missing[s] >= Target
        BY <3>1 DEF PlanInv, PlanOK
      <3>6. deposit' + missing[s] >= Target
        BY <1>1, <3>4, <3>5, More, Zenon DEF PlanInv, PlanTypes
      <3> QED BY <2>1, <3>1, <3>3, <3>5, <3>6 DEF PlanInv, PlanOK
    <2>2. CASE t # s
      BY <1>1, <1>2, <2>2, OthersKept DEF PlanInv, PlanTypes
    <2> QED BY <2>1, <2>2
  <1> QED BY <1>5, <1>6 DEF PlanInv

LEMMA TransferKeeps ==
  ASSUME PlanInv, NEW s \in Sessions, Plan!RunTransfer(s)
  PROVE  PlanInv'
  <1>1. /\ Target \in Nat /\ Slip \in Nat /\ None \notin Nat /\ plan[s] # None
        /\ deposit \in Nat /\ allowance \in Nat
        /\ plan[s] \in Planned /\ plan[s].steps \in Routes /\ plan[s].input \in Nat
        /\ done[s] \in Nat /\ missing[s] \in Nat
    BY PlanConstants DEF Plan!FundPlanConstants, PlanInv, PlanTypes, PlanOK, Planned, Plan!RunTransfer, Plan!Pending
  <1>2. plan[s].steps = <<"transfer">> /\ done[s] = 0
    BY <1>1, PendingIs DEF Plan!RunTransfer
  <1>3. /\ Plan!Take(s) /\ owned["pusd"] >= plan[s].input
        /\ deposit' = deposit + plan[s].input
        /\ allowance' = allowance /\ missing' = missing /\ plan' = plan /\ failed' = failed
    BY DEF Plan!RunTransfer
  <1>4. done[s] + 1 = Len(plan[s].steps)
    BY <1>2, RouteIs
  <1>5. plan[s].input >= missing[s] /\ deposit + missing[s] >= Target
    BY <1>1, <1>2 DEF PlanInv, PlanOK
  <1>6. deposit' \in Nat /\ deposit' >= deposit /\ deposit' + Slip >= Target
    <2>1. PICK n \in Nat : n = deposit + plan[s].input
      BY <1>1
    <2>2. n >= deposit /\ n + Slip >= Target
      BY <1>1, <1>5, <2>1
    <2> QED BY <1>3, <2>1, <2>2, Zenon
  <1>7. \A t \in Sessions : t # s => done'[t] = done[t]
    BY <1>3 DEF Plan!Take, PlanInv, PlanTypes
  <1>8. AllowanceOK'
    <2>1. CASE allowance <= Allowance
      BY <1>3, <2>1 DEF AllowanceOK
    <2>2. ASSUME NEW t \in Sessions, plan[t] # None, plan[t].steps = <<"approve", "swap">>,
                 done[t] = 1, allowance <= plan[t].input
          PROVE  AllowanceOK'
      <3>1. t # s
        BY <1>2, <2>2
      <3> QED BY <1>3, <1>7, <2>2, <3>1 DEF AllowanceOK
    <2> QED BY <2>1, <2>2 DEF PlanInv, AllowanceOK
  <1>9. owned[Plan!TokenOf(s)] >= plan[s].input
    <2>1. s \in Direct
      BY <1>1, <1>2 DEF PlanInv, PlanOK
    <2>2. Plan!TokenOf(s) = "pusd"
      BY <2>1, PlanConstants DEF Plan!FundPlanConstants, Plan!TokenOf
    <2> QED BY <1>3, <2>2
  <1> QED BY <1>1, <1>3, <1>4, <1>6, <1>8, <1>9, TakingKeeps

LEMMA Swapped ==
  ASSUME NEW x \in Nat, NEW need \in Nat, NEW output \in Nat, NEW slip \in Nat,
         NEW lost \in 0..slip, NEW target \in Nat,
         lost <= output, output >= need, x + need >= target
  PROVE  LET n == x + (output - lost) IN n \in Nat /\ n >= x /\ n + slip >= target
  OBVIOUS

LEMMA SwapKeeps ==
  ASSUME PlanInv, NEW s \in Sessions, Plan!RunSwap(s)
  PROVE  PlanInv'
  <1>1. /\ Target \in Nat /\ Slip \in Nat /\ None \notin Nat /\ plan[s] # None
        /\ deposit \in Nat /\ allowance \in Nat /\ Allowance \in Nat
        /\ plan[s] \in Planned /\ plan[s].steps \in Routes /\ plan[s].input \in Nat
        /\ plan[s].output \in Nat /\ done[s] \in Nat /\ missing[s] \in Nat
    BY PlanConstants DEF Plan!FundPlanConstants, PlanInv, PlanTypes, PlanOK, Planned, Plan!RunSwap, Plan!Pending
  <1>2. \/ plan[s].steps = <<"swap">> /\ done[s] = 0
        \/ plan[s].steps = <<"approve", "swap">> /\ done[s] = 1
    BY <1>1, PendingIs DEF Plan!RunSwap
  <1>3. /\ Plan!Take(s) /\ owned[Plan!TokenOf(s)] >= plan[s].input
        /\ s \in Native \/ allowance >= plan[s].input
        /\ allowance' = IF s \in Native THEN allowance ELSE allowance - plan[s].input
        /\ missing' = missing /\ plan' = plan /\ failed' = failed
    BY DEF Plan!RunSwap, Plan!Allowed
  <1>4. PICK lost \in 0..Slip : lost <= plan[s].output /\ deposit' = deposit + (plan[s].output - lost)
    BY DEF Plan!RunSwap
  <1>5. done[s] + 1 = Len(plan[s].steps)
    <2>1. CASE plan[s].steps = <<"swap">> /\ done[s] = 0
      BY <2>1, RouteIs
    <2>2. CASE plan[s].steps = <<"approve", "swap">> /\ done[s] = 1
      BY <2>2, RouteIs
    <2> QED BY <1>2, <2>1, <2>2
  <1>6. plan[s].output >= missing[s] /\ deposit + missing[s] >= Target
    <2>1. PlanOK(s)
      BY DEF PlanInv
    <2> QED BY <1>1, <2>1, Zenon DEF PlanOK
  <1>7. deposit' \in Nat /\ deposit' >= deposit /\ deposit' + Slip >= Target
    <2>1. PICK n : n = deposit + (plan[s].output - lost)
      OBVIOUS
    <2>2. n \in Nat /\ n >= deposit /\ n + Slip >= Target
      BY <1>1, <1>4, <1>6, <2>1, Swapped
    <2> QED BY <1>4, <2>1, <2>2, Zenon
  <1>8. \A t \in Sessions : t # s => done'[t] = done[t]
    BY <1>3 DEF Plan!Take, PlanInv, PlanTypes
  <1>9. allowance' \in Nat /\ allowance' <= allowance
    <2>1. PICK n \in Nat : n = (IF s \in Native THEN allowance ELSE allowance - plan[s].input)
                           /\ n <= allowance
      BY <1>1, <1>3
    <2> QED BY <1>3, <2>1, Zenon
  <1>10. AllowanceOK'
    <2>1. CASE allowance <= Allowance
      <3>1. allowance' <= Allowance
        BY <1>1, <1>9, <2>1
      <3> QED BY <3>1 DEF AllowanceOK
    <2>2. ASSUME NEW t \in Sessions, plan[t] # None, plan[t].steps = <<"approve", "swap">>,
                 done[t] = 1, allowance <= plan[t].input
          PROVE  AllowanceOK'
      <3>1. CASE t = s
        <4>1. s \notin Native
          BY <2>2, <3>1 DEF PlanInv, PlanOK
        <4>2. PICK a \in Nat, i \in Nat : a = allowance /\ i = plan[s].input
          BY <1>1
        <4>3. a - i <= Allowance
          BY <1>1, <2>2, <3>1, <4>2
        <4>4. allowance' = a - i
          BY <1>3, <4>1, <4>2
        <4> QED BY <4>3, <4>4 DEF AllowanceOK
      <3>2. CASE t # s
        <4>1. allowance' <= plan[t].input
          <5>1. plan[t].input \in Nat
            BY <1>1, <2>2 DEF PlanInv, PlanTypes, Planned
          <5> QED BY <1>1, <1>9, <2>2, <5>1
        <4> QED BY <1>3, <1>8, <2>2, <3>2, <4>1 DEF AllowanceOK
      <3> QED BY <3>1, <3>2
    <2> QED BY <2>1, <2>2 DEF PlanInv, AllowanceOK
  <1> QED BY <1>1, <1>3, <1>5, <1>7, <1>9, <1>10, TakingKeeps

LEMMA ApprovalKeeps ==
  ASSUME PlanInv, NEW s \in Sessions, Plan!RunApproval(s)
  PROVE  PlanInv'
  <1>1. /\ Target \in Nat /\ Slip \in Nat /\ None \notin Nat /\ plan[s] # None
        /\ deposit \in Nat /\ plan[s] \in Planned /\ plan[s].steps \in Routes
        /\ plan[s].input \in Nat /\ done[s] \in Nat
    BY PlanConstants DEF Plan!FundPlanConstants, PlanInv, PlanTypes, Planned, Plan!RunApproval, Plan!Pending
  <1>2. plan[s].steps = <<"approve", "swap">> /\ done[s] = 0
    BY <1>1, PendingIs DEF Plan!RunApproval
  <1>3. /\ allowance' = plan[s].input /\ done' = [done EXCEPT ![s] = @ + 1]
        /\ deposit' = deposit /\ owned' = owned /\ missing' = missing /\ plan' = plan
        /\ failed' = failed /\ taken' = taken
    BY DEF Plan!RunApproval, Plan!Approved
  <1>4. done' = [done EXCEPT ![s] = 1] /\ done'[s] = 1
    BY <1>2, <1>3 DEF PlanInv, PlanTypes
  <1>5. PlanTypes'
    BY <1>1, <1>3, <1>4 DEF PlanInv, PlanTypes
  <1>6. AllowanceOK'
    <2>1. plan[s].input <= plan[s].input
      BY <1>1
    <2> QED BY <1>1, <1>2, <1>3, <1>4, <2>1, Zenon DEF AllowanceOK
  <1>7. ASSUME NEW t \in Sessions PROVE PlanOK(t)'
    <2>1. CASE t = s
      <3>1. ~Plan!Complete(s) /\ ~Plan!Complete(s)'
        <4>1. done[s] # Len(plan[s].steps) /\ done'[s] # Len(plan[s].steps)
          BY <1>2, <1>4, RouteIs
        <4> QED BY <1>3, <4>1, Zenon DEF Plan!Complete
      <3>2. done'[s] <= Len(plan'[s].steps)
        <4>1. Len(plan[s].steps) = 2
          BY <1>2, RouteIs
        <4>2. plan'[s] = plan[s] /\ done'[s] = 1
          BY <1>3, <1>4
        <4> QED BY <4>1, <4>2
      <3>3. /\ missing'[s] = missing[s] /\ plan'[s] = plan[s] /\ failed'[s] = failed[s]
            /\ taken'[s] = taken[s] /\ deposit' = deposit
        BY <1>3
      <3>4. PlanOK(s)
        BY DEF PlanInv
      <3>5. missing'[s] # None => missing'[s] > 0 /\ deposit' + missing'[s] >= Target
        BY <3>3, <3>4, Zenon DEF PlanOK
      <3> QED BY <1>1, <2>1, <3>1, <3>2, <3>3, <3>4, <3>5, Zenon DEF PlanOK
    <2>2. CASE t # s
      <3>1. done'[t] = done[t]
        BY <1>4, <2>2 DEF PlanInv, PlanTypes
      <3>2. deposit' \in Nat /\ deposit' >= deposit
        BY <1>1, <1>3
      <3> QED BY <1>1, <1>3, <3>1, <3>2, OthersKept DEF PlanInv
    <2> QED BY <2>1, <2>2
  <1> QED BY <1>5, <1>6, <1>7 DEF PlanInv

LEMMA RevertKeeps ==
  ASSUME PlanInv, NEW s \in Sessions, Plan!Revert(s)
  PROVE  PlanInv'
  <1>1. /\ deposit' = deposit /\ owned' = owned /\ allowance' = allowance
        /\ missing' = missing /\ plan' = plan /\ done' = done /\ taken' = taken
        /\ plan[s] # None
    BY DEF Plan!Revert, Plan!Pending
  <1>2. PICK x \in {"short", "reverted"} : failed' = [failed EXCEPT ![s] = x]
    BY DEF Plan!Revert
  <1>3. PlanTypes'
    BY <1>1, <1>2 DEF PlanInv, PlanTypes
  <1>4. AllowanceOK'
    BY <1>1, AllowanceKept DEF PlanInv
  <1>5. \A t \in Sessions : plan[t] = None => failed'[t] = failed[t]
    BY <1>1, <1>2 DEF PlanInv, PlanTypes
  <1>6. \A t \in Sessions : Plan!Complete(t)' <=> Plan!Complete(t)
    BY <1>1 DEF Plan!Complete
  <1>7. \A t \in Sessions : PlanOK(t)'
    BY <1>1, <1>5, <1>6, Zenon DEF PlanInv, PlanOK
  <1> QED BY <1>3, <1>4, <1>7 DEF PlanInv

LEMMA PlanStep ==
  ASSUME PlanInv, [Plan!Next]_Plan!vars
  PROVE  PlanInv'
  <1>1. ASSUME NEW s \in Sessions,
               \/ Plan!Measure(s) \/ Plan!Refuse(s) \/ Plan!PlanDirect(s) \/ Plan!PlanSwap(s)
               \/ Plan!RunApproval(s) \/ Plan!RunTransfer(s) \/ Plan!RunSwap(s) \/ Plan!Revert(s)
        PROVE  PlanInv'
    BY <1>1, MeasureKeeps, PlanningKeeps, ApprovalKeeps, TransferKeeps, SwapKeeps, RevertKeeps
  <1>2. CASE UNCHANGED Plan!vars
    BY <1>2, Zenon DEF Plan!vars, PlanInv, PlanTypes, AllowanceOK, PlanOK, Plan!Complete
  <1> QED BY <1>1, <1>2 DEF Plan!Next

LEMMA PlansAlways == Plan!Spec => []PlanInv
  <1>1. Plan!Init => PlanInv
    BY PlanStart
  <1>2. PlanInv /\ [Plan!Next]_Plan!vars => PlanInv'
    BY PlanStep
  <1> QED BY <1>1, <1>2, PTL DEF Plan!Spec

LEMMA PlansWithinCap == PlanInv => Plan!SpendCapped
  <1> SUFFICES ASSUME PlanInv, NEW s \in Sessions PROVE taken[s] <= MaxSpend
    BY DEF Plan!SpendCapped
  <1>1. MaxSpend \in Nat
    BY PlanConstants DEF Plan!FundPlanConstants
  <1>2. taken[s] = 0 \/ (plan[s] # None /\ taken[s] = plan[s].input)
    BY DEF PlanInv, PlanOK
  <1>3. plan[s] # None => plan[s].input \in 0..MaxSpend
    BY DEF PlanInv, PlanTypes, Planned
  <1> QED BY <1>1, <1>2, <1>3

(* prepare_funding: whatever the quotes and routes are and however many    *)
(* sessions plan at once, none takes more than its max_spend.              *)
THEOREM SessionsSpendWithinCap == Plan!Spec => []Plan!SpendCapped
  BY PlansWithinCap, PlansAlways, PTL

LEMMA PlansReachTarget == PlanInv => Plan!ReachesTarget
  BY Zenon DEF PlanInv, PlanOK, Plan!Complete, Plan!ReachesTarget

(* prepare_funding: what a session measured may be old when it plans, yet  *)
(* a session that completes has brought the deposit wallet to target_pusd, *)
(* up to what the swap lost to slippage.                                   *)
THEOREM SessionsReachTarget == Plan!Spec => []Plan!ReachesTarget
  BY PlansReachTarget, PlansAlways, PTL

LEMMA PlansLeaveNone == PlanInv => Plan!NoAllowanceLeft
  <1> SUFFICES ASSUME PlanInv, \A s \in Sessions : plan[s] = None \/ Plan!Complete(s)
               PROVE  allowance <= Allowance
    BY DEF Plan!NoAllowanceLeft
  <1>1. ASSUME NEW s \in Sessions, plan[s] # None, plan[s].steps = <<"approve", "swap">>,
               done[s] = 1
        PROVE  FALSE
    BY <1>1, RouteIs DEF Plan!Complete
  <1> QED BY <1>1 DEF PlanInv, AllowanceOK

(* funding_approval_step approves exactly the input: with every planned    *)
(* session complete the router may take no more than it could at first,    *)
(* however the approvals of several sessions overwrote one another.        *)
THEOREM SessionsLeaveNoAllowance == Plan!Spec => []Plan!NoAllowanceLeft
  BY PlansLeaveNone, PlansAlways, PTL

(* While one session at most has planned to spend the ERC-20 token, its    *)
(* swap finds the allowance it needs.                                      *)
Enough(s) ==
  /\ failed[s] # "short"
  /\ s \in Erc20 /\ Plan!Pending(s, "swap") => allowance >= plan[s].input

LEMMA EnoughKept ==
  ASSUME NEW t \in Sessions, Enough(t),
         plan'[t] = plan[t], done'[t] = done[t], failed'[t] = failed[t],
         t \notin Erc20 \/ plan[t] = None \/ allowance' = allowance
  PROVE  Enough(t)'
  <1>1. Plan!Pending(t, "swap")' <=> Plan!Pending(t, "swap")
    BY DEF Plan!Pending
  <1>2. plan[t] = None => ~Plan!Pending(t, "swap")
    BY DEF Plan!Pending
  <1> QED BY <1>1, <1>2 DEF Enough, Erc20

(* What is planned stays so: sessions that share no token shared none.     *)
LEMMA UnsharedBefore ==
  ASSUME PlanInv, [Plan!Next]_Plan!vars, Plan!Unshared'
  PROVE  Plan!Unshared
  <1>1. \A s \in Sessions : plan[s] # None => plan'[s] # None
    <2>1. ASSUME NEW s \in Sessions, Plan!PlanDirect(s) \/ Plan!PlanSwap(s)
          PROVE  \A t \in Sessions : plan[t] # None => plan'[t] # None
      <3>1. plan[s] = None /\ \E x : plan' = [plan EXCEPT ![s] = x]
        BY <2>1 DEF Plan!PlanDirect, Plan!PlanSwap
      <3> QED BY <3>1 DEF PlanInv, PlanTypes
    <2>2. \/ UNCHANGED plan
          \/ \E s \in Sessions : Plan!PlanDirect(s) \/ Plan!PlanSwap(s)
      BY DEF Plan!Next, Plan!vars, Plan!chain, Plan!Measure, Plan!Refuse, Plan!RunApproval,
         Plan!RunTransfer, Plan!RunSwap, Plan!Revert
    <2> QED BY <2>1, <2>2
  <1> QED BY <1>1 DEF Plan!Unshared, Plan!TokenOf

LEMMA OnlyOne ==
  ASSUME Plan!Unshared, NEW s \in Erc20, NEW t \in Sessions, plan[s] # None, t # s
  PROVE  t \notin Erc20 \/ plan[t] = None
  BY DEF Plan!Unshared, Plan!TokenOf, Erc20

LEMMA EnoughStep ==
  ASSUME Plan!Unshared, PlanInv, PlanInv', [Plan!Next]_Plan!vars,
         NEW t \in Sessions, \A s \in Sessions : Enough(s)
  PROVE  Enough(t)'
  <1>1. Enough(t)
    OBVIOUS
  <1>2. ASSUME NEW s \in Sessions, Plan!Measure(s) \/ Plan!Refuse(s)
        PROVE  Enough(t)'
    <2>1. plan' = plan /\ done' = done /\ failed' = failed /\ allowance' = allowance
      BY <1>2 DEF Plan!Measure, Plan!Refuse, Plan!chain
    <2> QED BY <1>1, <2>1, EnoughKept
  <1>3. ASSUME NEW s \in Sessions, Plan!PlanDirect(s) \/ Plan!PlanSwap(s)
        PROVE  Enough(t)'
    <2>1. /\ done' = done /\ failed' = failed /\ allowance' = allowance
          /\ plan[s] = None /\ missing[s] # None
          /\ \E x : plan' = [plan EXCEPT ![s] = x]
      BY <1>3 DEF Plan!PlanDirect, Plan!PlanSwap, Plan!chain
    <2>2. CASE t # s
      <3>1. plan'[t] = plan[t]
        BY <2>1, <2>2 DEF PlanInv, PlanTypes
      <3> QED BY <1>1, <2>1, <3>1, EnoughKept
    <2>3. CASE t = s /\ t \notin Erc20
      BY <1>1, <2>1, <2>3 DEF Enough, Erc20
    <2>4. CASE t = s /\ t \in Erc20
      <3>1. Plan!PlanSwap(s)
        BY <1>3, <2>4 DEF Erc20, Plan!PlanDirect
      <3>2. PICK input, output :
              plan' = [plan EXCEPT ![s] = [steps |-> Plan!StepsOf(s, input), input |-> input,
                                           output |-> output]]
        BY <3>1 DEF Plan!PlanSwap
      <3>3. plan'[s] = [steps |-> Plan!StepsOf(s, input), input |-> input, output |-> output]
        BY <3>2 DEF PlanInv, PlanTypes
      <3>4. plan'[s].steps = Plan!StepsOf(s, input) /\ plan'[s].input = input
        BY <3>3
      <3>5. done'[s] = 0
        BY <2>1 DEF PlanInv, PlanOK
      <3>6. Plan!Pending(s, "swap")' => ~(allowance < input)
        <4> SUFFICES ASSUME Plan!Pending(s, "swap")', allowance < input PROVE FALSE
          OBVIOUS
        <4>1. plan'[s].steps[1] = "swap"
          BY <3>5 DEF Plan!Pending
        <4>2. plan'[s].steps = <<"approve", "swap">>
          BY <2>4, <3>4 DEF Plan!StepsOf, Erc20
        <4> QED BY <4>1, <4>2, RouteIs
      <3>7. plan'[s] # None => input \in Nat /\ allowance \in Nat
        BY <3>4 DEF PlanInv, PlanTypes, Planned
      <3>8. Plan!Pending(s, "swap")' => plan'[s] # None
        BY DEF Plan!Pending
      <3>9. Plan!Pending(s, "swap")' => allowance >= input
        BY <3>6, <3>7, <3>8
      <3> QED BY <1>1, <2>1, <2>4, <3>4, <3>9 DEF Enough
    <2> QED BY <2>2, <2>3, <2>4
  <1>4. ASSUME NEW s \in Sessions, Plan!RunApproval(s)
        PROVE  Enough(t)'
    <2>1. /\ allowance' = plan[s].input /\ done' = [done EXCEPT ![s] = @ + 1]
          /\ plan' = plan /\ failed' = failed /\ plan[s] # None
      BY <1>4 DEF Plan!RunApproval, Plan!Approved, Plan!Pending
    <2>2. plan[s].steps = <<"approve", "swap">>
      BY <1>4, <2>1, PendingIs DEF Plan!RunApproval, PlanInv, PlanTypes, Planned
    <2>3. s \in Erc20
      <3>1. PlanOK(s)
        BY DEF PlanInv
      <3>2. <<"approve", "swap">> # <<"transfer">>
        BY RouteIs
      <3> QED BY <2>1, <2>2, <3>1, <3>2 DEF PlanOK, Erc20
    <2>4. CASE t # s
      <3>1. done'[t] = done[t]
        BY <2>1, <2>4 DEF PlanInv, PlanTypes
      <3>2. t \notin Erc20 \/ plan[t] = None
        BY <2>1, <2>3, <2>4, OnlyOne
      <3> QED BY <1>1, <2>1, <3>1, <3>2, EnoughKept
    <2>5. CASE t = s
      <3>1. plan[s].input \in Nat
        BY <2>1 DEF PlanInv, PlanTypes, Planned
      <3>2. allowance' >= plan'[s].input
        BY <2>1, <3>1
      <3> QED BY <1>1, <2>1, <2>5, <3>2, Zenon DEF Enough
    <2> QED BY <2>4, <2>5
  <1>5. ASSUME NEW s \in Sessions, Plan!RunTransfer(s) \/ Plan!RunSwap(s)
        PROVE  Enough(t)'
    <2>1. /\ Plan!Take(s) /\ plan' = plan /\ failed' = failed /\ plan[s] # None
          /\ Plan!Pending(s, "transfer") \/ Plan!Pending(s, "swap")
          /\ allowance' = allowance \/ (Plan!RunSwap(s) /\ s \notin Native)
      BY <1>5 DEF Plan!RunTransfer, Plan!RunSwap, Plan!Pending
    <2>2. plan[s].steps \in Routes /\ done[s] \in Nat /\ done' = [done EXCEPT ![s] = @ + 1]
      BY <2>1 DEF Plan!Take, PlanInv, PlanTypes, Planned
    <2>3. done[s] + 1 = Len(plan[s].steps)
      <3>1. \/ plan[s].steps = <<"transfer">> /\ done[s] = 0
            \/ plan[s].steps = <<"swap">> /\ done[s] = 0
            \/ plan[s].steps = <<"approve", "swap">> /\ done[s] = 1
        BY <2>1, <2>2, PendingIs
      <3>2. ASSUME plan[s].steps = <<"transfer">>, done[s] = 0 PROVE done[s] + 1 = Len(plan[s].steps)
        BY <3>2, RouteIs
      <3>3. ASSUME plan[s].steps = <<"swap">>, done[s] = 0 PROVE done[s] + 1 = Len(plan[s].steps)
        BY <3>3, RouteIs
      <3>4. ASSUME plan[s].steps = <<"approve", "swap">>, done[s] = 1
            PROVE  done[s] + 1 = Len(plan[s].steps)
        BY <3>4, RouteIs
      <3> QED BY <3>1, <3>2, <3>3, <3>4, Zenon
    <2>4. CASE t # s
      <3>1. done'[t] = done[t]
        BY <2>2, <2>4 DEF PlanInv, PlanTypes
      <3>2. allowance' = allowance \/ s \in Erc20
        <4>1. ASSUME Plan!RunSwap(s), s \notin Native PROVE s \in Erc20
          <5>1. plan[s].steps # <<"transfer">>
            <6>1. Plan!Pending(s, "swap")
              BY <4>1 DEF Plan!RunSwap
            <6>2. \/ plan[s].steps = <<"swap">>
                  \/ plan[s].steps = <<"approve", "swap">>
              BY <2>2, <6>1, PendingIs
            <6> QED BY <6>2, RouteIs
          <5>2. PlanOK(s)
            BY DEF PlanInv
          <5> QED BY <2>1, <4>1, <5>1, <5>2 DEF PlanOK, Erc20
        <4> QED BY <2>1, <4>1
      <3>3. allowance' = allowance \/ t \notin Erc20 \/ plan[t] = None
        BY <2>1, <2>4, <3>2, OnlyOne
      <3> QED BY <1>1, <2>1, <3>1, <3>3, EnoughKept
    <2>5. CASE t = s
      <3>1. done'[s] = Len(plan'[s].steps)
        BY <2>1, <2>2, <2>3 DEF PlanInv, PlanTypes
      <3>2. done'[s] \in Nat
        BY DEF PlanInv, PlanTypes
      <3>3. ~Plan!Pending(s, "swap")'
        BY <3>1, <3>2 DEF Plan!Pending
      <3> QED BY <1>1, <2>1, <2>5, <3>3 DEF Enough
    <2> QED BY <2>4, <2>5
  <1>6. ASSUME NEW s \in Sessions, Plan!Revert(s)
        PROVE  Enough(t)'
    <2>1. /\ allowance' = allowance /\ plan' = plan /\ done' = done /\ plan[s] # None
          /\ failed' = [failed EXCEPT ![s] =
               IF Plan!Pending(s, "swap") /\ ~Plan!Allowed(s) THEN "short" ELSE "reverted"]
      BY <1>6 DEF Plan!Revert, Plan!Pending
    <2>2. CASE t # s
      <3>1. failed'[t] = failed[t]
        BY <2>1, <2>2 DEF PlanInv, PlanTypes
      <3> QED BY <1>1, <2>1, <3>1, EnoughKept
    <2>3. CASE t = s
      <3>1. Plan!Pending(s, "swap") => Plan!Allowed(s)
        <4> SUFFICES ASSUME Plan!Pending(s, "swap"), s \notin Native PROVE Plan!Allowed(s)
          BY DEF Plan!Allowed
        <4>1. plan[s].steps # <<"transfer">>
          <5>1. plan[s].steps \in Routes /\ done[s] \in Nat
            BY <2>1 DEF PlanInv, PlanTypes, Planned
          <5> QED BY <5>1, PendingIs, RouteIs
        <4>2. s \in Erc20
          <5>1. PlanOK(s)
            BY DEF PlanInv
          <5> QED BY <2>1, <4>1, <5>1 DEF PlanOK, Erc20
        <4> QED BY <1>1, <2>3, <4>2 DEF Enough, Plan!Allowed
      <3>2. failed'[s] = "reverted"
        BY <2>1, <3>1 DEF PlanInv, PlanTypes
      <3>3. ~Plan!Pending(s, "swap")'
        BY <3>2 DEF Plan!Pending
      <3> QED BY <2>3, <3>2, <3>3 DEF Enough
    <2> QED BY <2>2, <2>3
  <1>7. CASE UNCHANGED Plan!vars
    BY <1>1, <1>7, EnoughKept DEF Plan!vars
  <1> QED BY <1>2, <1>3, <1>4, <1>5, <1>6, <1>7 DEF Plan!Next

EnoughInv == Plan!Unshared => \A s \in Sessions : Enough(s)

LEMMA EnoughKeeps ==
  ASSUME PlanInv, PlanInv', EnoughInv, [Plan!Next]_Plan!vars
  PROVE  EnoughInv'
  BY UnsharedBefore, EnoughStep DEF EnoughInv

LEMMA EnoughStart == Plan!Init => EnoughInv
  BY DEF Plan!Init, Enough, Plan!Pending, EnoughInv

LEMMA EnoughIsShort == EnoughInv => Plan!NeverShort
  BY DEF EnoughInv, Enough, Plan!NeverShort

(* prepare_enso: the approval a swap needs is in its plan, and no other    *)
(* session takes it away until one plans to spend the same ERC-20 token.   *)
THEOREM SessionsNeverShort == Plan!Spec => []Plan!NeverShort
  BY EnoughStart, EnoughKeeps, EnoughIsShort, PlansAlways, PTL DEF Plan!Spec

LEMMA PlansTyped == PlanInv => Plan!TypeOK
  <1> SUFFICES ASSUME PlanInv, NEW s \in Sessions
               PROVE  /\ missing[s] # None => missing[s] \in 1..Target
                      /\ plan[s] # None => plan[s].steps \in Routes /\ done[s] <= Len(plan[s].steps)
    BY DEF PlanInv, PlanTypes, Routes, Plan!TypeOK
  <1>1. missing[s] # None => missing[s] \in 1..Target
    BY PlanConstants DEF Plan!FundPlanConstants, PlanInv, PlanTypes, PlanOK
  <1> QED BY <1>1 DEF PlanInv, PlanTypes, PlanOK, Planned
--------------------------------------------------------------------------------
(* The behaviours of MCFunding.                                            *)

mcVars == <<instance, vars, planVars>>

(* A step of MCFunding is one of the session or of the plans, and which    *)
(* restrictions it is under does not change.                               *)
LEMMA MCSteps ==
  ASSUME [MCNext]_mcVars
  PROVE  /\ instance' = instance
         /\ [Next]_vars
         /\ instance = "prompt" => [Next /\ Prompt]_vars
         /\ [Plan!Next]_Plan!vars
  BY DEF MCNext, mcVars, planVars, Plan!vars

MCInv ==
  /\ TypeInv /\ OrderInv
  /\ instance = "prompt" => PromptInv
  /\ PlanInv /\ EnoughInv

LEMMA MCStep ==
  ASSUME MCInv, [MCNext]_mcVars
  PROVE  MCInv'
  <1>1. TypeInv' /\ OrderInv' /\ instance' = instance
    BY MCSteps, StepTypes, OrderStep DEF MCInv
  <1>2. instance = "prompt" => PromptInv'
    BY MCSteps, PromptStep DEF MCInv
  <1>3. PlanInv' /\ EnoughInv'
    BY MCSteps, PlanStep, EnoughKeeps DEF MCInv
  <1> QED BY <1>1, <1>2, <1>3 DEF MCInv

LEMMA MCAlways == MCSpec => []MCInv
  <1>1. MCInit => MCInv
    BY InitTypes, InitOrder, InitPrompt, PlanStart, EnoughStart DEF MCInit, MCInv
  <1> QED BY <1>1, MCStep, PTL DEF MCSpec, mcVars

(* confirm_fund_request and prepare_funding of fund_flow.rs: the session,  *)
(* its lock, the outbox, what each invocation has in its hands and what    *)
(* the sessions plan are well typed in all of MCFunding's behaviours.      *)
THEOREM FundingSideTypes == MCSpec => []Types
  <1>1. MCInv => Types
    BY TypedSession, PlansTyped DEF MCInv, Types
  <1> QED BY <1>1, MCAlways, PTL

(* confirm_fund_request, with slow holders that write back old sessions    *)
(* and creates that race: the swap is not staged before its approval       *)
(* succeeded, and "complete" is said only of a plan that did.              *)
THEOREM SessionsEndInOrder == MCSpec => []EndsInOrder
  <1>1. MCInv => EndsInOrder
    BY OrderIs, CompleteIs DEF MCInv, EndsInOrder
  <1> QED BY <1>1, MCAlways, PTL

(* confirm_fund_request, in the behaviours whose invocations are prompt    *)
(* and whose creates list truly: whatever is in the outbox, the session    *)
(* knows.                                                                  *)
THEOREM PromptSessionsForgetNone == MCSpec => []PromptForgetsNone
  <1>1. MCInv => PromptForgetsNone
    BY PromptForgets DEF MCInv, PromptForgetsNone
  <1> QED BY <1>1, MCAlways, PTL

(* prepare_funding, its sessions planning from balances and an allowance   *)
(* of another moment: none spends above its cap, those that complete       *)
(* reached their target, no allowance is left over, and a token that is    *)
(* not shared never lacks an approval.                                     *)
THEOREM SessionPlansHold == MCSpec => []PlansHold
  <1>1. MCInv => PlansHold
    BY PlansWithinCap, PlansReachTarget, PlansLeaveNone, EnoughIsShort DEF MCInv, PlansHold
  <1> QED BY <1>1, MCAlways, PTL

(* confirm_fund_request, in the behaviours whose invocations are prompt    *)
(* and whose creates list truly, implements OneShot: each transaction of a *)
(* plan is staged at most once.                                            *)
THEOREM SessionsStageOnce == MCSpec => StagedOnce
  <1> DEFINE fates == [i \in Indices |-> Fate(i)]
             shown == [i \in Indices |-> IF instance = "prompt" THEN Fate(i) ELSE "unsent"]
  <1>1. MCInit => PromptShot!Init
    BY FatesStart DEF MCInit, PromptShot!Init
  <1>2. MCInv /\ [MCNext]_mcVars => [PromptShot!Next]_shown
    <2> SUFFICES ASSUME MCInv, [MCNext]_mcVars
                 PROVE  [PromptShot!Next]_shown
      OBVIOUS
    <2>1. CASE instance # "prompt"
      BY <2>1, MCSteps
    <2>2. CASE instance = "prompt"
      <3>1. shown = fates /\ shown' = fates'
        BY <2>2, MCSteps
      <3>2. [Shot!Next]_fates
        BY <2>2, MCSteps, ShotStep DEF MCInv
      <3>3. CASE UNCHANGED fates
        BY <3>1, <3>3
      <3>4. ASSUME NEW i \in Indices, Shot!Send(i) PROVE PromptShot!Next
        BY <3>1, <3>4 DEF Shot!Send, PromptShot!Send, PromptShot!Next
      <3>5. ASSUME NEW i \in Indices, Shot!Settle(i) PROVE PromptShot!Next
        BY <3>1, <3>5 DEF Shot!Settle, PromptShot!Settle, PromptShot!Next
      <3> QED BY <3>2, <3>3, <3>4, <3>5 DEF Shot!Next
    <2> QED BY <2>1, <2>2
  <1> QED BY <1>1, <1>2, MCAlways, PTL DEF MCSpec, mcVars, StagedOnce, PromptShot!Spec
================================================================================
