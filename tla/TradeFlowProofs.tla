-------------------------- MODULE TradeFlowProofs --------------------------
(***************************************************************************)
(* TradeFlow keeps its types; what is sent was reviewed by the user,       *)
(* a draft that looks unsent is unsent, and a draft sends one order: for   *)
(* every value of the constants.  The last two need what the runs that     *)
(* violate them lack: no slow holder of the lock, one creator of drafts,   *)
(* no failed list.                                                         *)
(*                                                                         *)
(* TypeOK is not inductive: what a step writes is what its call remembers. *)
(* CallOK says, for each step, which parts of mem[p] are there, and that   *)
(* the lock's inside is the set of calls at a locked step.                 *)
(***************************************************************************)
EXTENDS TradeFlow, WalletLockProofs, FiniteSetTheorems

(* The steps, by the operation they belong to.                             *)
RevisingSteps ==
  {"clear_prepared", "clear_approval", "clear_attempt", "live", "preflight",
   "drop_review", "stage_review", "store_draft"}
PostingSteps ==
  {"check", "acknowledge", "prepare", "bind", "prepared_attempt", "sign",
   "signed_attempt", "signed_draft", "send"}
RecordingSteps ==
  {"reconcile", "reconcile_attempt", "audit", "receipt", "drop_prepared",
   "drop_approval", "answer_draft", "answer_attempt"}

(* The steps that use the remembered draft, review, order, receipt, answer. *)
NeedsDraft == RevisingSteps \cup PostingSteps \cup RecordingSteps \cup CreateSteps
NeedsReview == {"preflight", "stage_review"} \cup (PostingSteps \ {"check"})
                 \cup RecordingSteps \cup CreateSteps
NeedsOrder == (PostingSteps \ {"check", "acknowledge", "prepare"}) \cup RecordingSteps
NeedsReceipt == {"cancel_delete", "cancel_receipt"}
NeedsAnswer == RecordingSteps \ {"reconcile"}

(* What a call must remember to be where it is.                            *)
Fits(p, c, step) ==
  /\ step \in CreateSteps => p \in Creators
  /\ step \notin {"idle", "discover", "return"} => c.id \in Drafts
  /\ step \in NeedsDraft => c.draft \in Draft
  /\ step \in NeedsReview => c.review \in Review
  /\ step \in NeedsOrder => c.order \in Order
  /\ step \in NeedsReceipt => c.receipt \in Receipt
  /\ step \in NeedsAnswer =>
       c.answer \in {"live", "matched", "unmatched", "rejected", "ambiguous", "open"}
  /\ step \in {"drop_prepared", "drop_approval", "answer_attempt"} =>
       c.answer \in {"live", "matched", "unmatched", "rejected"}

CallOK(p) ==
  /\ p \in inside <=> pc[p] \in LockedSteps
  /\ Fits(p, mem[p], pc[p])

(* The inductive invariant behind TypeOK.                                  *)
TypeInv == TypeOK /\ \A p \in Procs : CallOK(p)

AnyStep == LockedSteps \cup CreateSteps \cup {"idle"}

(* Everything TypeOK says that is not about the invocations.               *)
WorldOK ==
  /\ LockTypeOK
  /\ drafts \in [Drafts -> Draft \cup {None}]
  /\ reviews \in [Drafts -> Review \cup {None}]
  /\ prepared \in [Drafts -> Order \cup {None}]
  /\ approvals \in [Drafts -> Salts \cup {None}]
  /\ attempts \in [Drafts -> {"none", "signing_prepared", "signed", "posted",
                              "rejected", "reconciled_open_order"}]
  /\ receipts \in [Drafts -> Receipt \cup {None}]
  /\ audited \subseteq Drafts
  /\ cfg \in Configs
  /\ orders \in [Salts -> Sent \cup {None}]
  /\ calls \in 0..MaxCalls
  /\ faults \in 0..MaxFaults

USE TradeFlowAssumption, NoneIsNoRecord, WalletLockAssumption

(* TypeInv, with the invocations apart.                                    *)
LEMMA TypeInvParts ==
  TypeInv <=> /\ WorldOK
              /\ pc \in [Procs -> AnyStep] /\ mem \in [Procs -> Call]
              /\ \A p \in Procs : CallOK(p)
  BY DEF TypeInv, TypeOK, WorldOK, AnyStep

(* One call moves; the others stay where they are, and stay fit.           *)
LEMMA CallMoves ==
  ASSUME TypeInv, WorldOK', NEW p \in Procs,
         NEW c \in Call, NEW step \in AnyStep, Fits(p, c, step),
         Remember(p, c), Goto(p, step),
         inside' = IF step \in LockedSteps THEN inside \cup {p} ELSE inside \ {p}
  PROVE  TypeInv'
  <1>1. mem \in [Procs -> Call] /\ pc \in [Procs -> AnyStep]
    BY TypeInvParts
  <1>2. mem' \in [Procs -> Call] /\ mem'[p] = c /\ \A q \in Procs \ {p} : mem'[q] = mem[q]
    BY <1>1 DEF Remember
  <1>3. pc' \in [Procs -> AnyStep] /\ pc'[p] = step /\ \A q \in Procs \ {p} : pc'[q] = pc[q]
    BY <1>1 DEF Goto
  <1>4. CallOK(p)'
    BY <1>2, <1>3 DEF CallOK, Fits
  <1>5. ASSUME NEW q \in Procs \ {p} PROVE CallOK(q)'
    <2>1. CallOK(q)
      BY TypeInvParts
    <2>2. Fits(q, mem'[q], pc'[q])
      BY <1>2, <1>3, <2>1 DEF CallOK
    <2>3. q \in inside' <=> q \in inside
      OBVIOUS
    <2> QED BY <1>3, <2>1, <2>2, <2>3 DEF CallOK, Fits
  <1>6. \A q \in Procs : CallOK(q)'
    BY <1>4, <1>5
  <1> QED BY <1>2, <1>3, <1>6, TypeInvParts DEF TypeInv, TypeOK, WorldOK, AnyStep

(* A step of a call from inside the lock to inside the lock.               *)
LEMMA InsideMoves ==
  ASSUME TypeInv, WorldOK', NEW p \in Procs, pc[p] \in LockedSteps,
         NEW c \in Call, NEW step \in LockedSteps, Fits(p, c, step),
         Remember(p, c), Goto(p, step), UNCHANGED lockVars
  PROVE  TypeInv'
  <1>1. p \in inside
    BY TypeInvParts DEF CallOK
  <1>2. inside' = IF step \in LockedSteps THEN inside \cup {p} ELSE inside \ {p}
    BY <1>1 DEF lockVars
  <1> QED BY <1>2, CallMoves DEF AnyStep

(* The same when what the call remembers does not change.                  *)
LEMMA InsideStays ==
  ASSUME TypeInv, WorldOK', NEW p \in Procs, pc[p] \in LockedSteps,
         NEW step \in LockedSteps, Fits(p, mem[p], step),
         mem' = mem, Goto(p, step), UNCHANGED lockVars
  PROVE  TypeInv'
  <1>1. mem[p] \in Call /\ Remember(p, mem[p])
    BY TypeInvParts DEF Remember
  <1> QED BY <1>1, InsideMoves

(* A step that only moves calls.                                           *)
LEMMA WorldStays ==
  ASSUME TypeInv, UNCHANGED <<lockVars, store, cfg, orders, bounds>>
  PROVE  WorldOK'
  BY TypeInvParts DEF WorldOK, lockVars, store, bounds, LockTypeOK

(* A call that takes or drops the lock.                                    *)
LEMMA EnterTypes ==
  ASSUME TypeInv, NEW p \in Procs, NEW d \in Drafts \cup {0},
         NEW ack \in {"no", "yes"}, NEW step \in LockedSteps,
         Enter(p, step, d, ack),
         (step \in {"revalidate", "post", "cancel"} /\ d \in Drafts) \/ step = "discover"
  PROVE  TypeInv'
  <1> DEFINE c == Fresh(d, ack)
  <1>1. c \in Call /\ c.id = d
    BY DEF Fresh, Call, Answers, Drafts
  <1>2. Fits(p, c, step)
    BY <1>1 DEF Fits, NeedsDraft, NeedsReview, NeedsOrder, NeedsReceipt, NeedsAnswer,
                RevisingSteps, PostingSteps, RecordingSteps, CreateSteps
  <1>3. WorldOK'
    BY TypeInvParts DEF Enter, Take, WorldOK, LockTypeOK, Owners, store
  <1>4. Remember(p, c) /\ Goto(p, step) /\ inside' = inside \cup {p}
    BY DEF Enter, Take
  <1> HIDE DEF c
  <1> QED BY <1>1, <1>2, <1>3, <1>4, CallMoves DEF AnyStep

(* Nothing is remembered between calls.                                    *)
LEMMA NoCallIdle ==
  ASSUME NEW p \in Procs
  PROVE  NoCall \in Call /\ Fits(p, NoCall, "idle")
  BY DEF NoCall, Fresh, Call, Answers, Fits, NeedsDraft, NeedsReview, NeedsOrder,
         NeedsReceipt, NeedsAnswer, RevisingSteps, PostingSteps, RecordingSteps, CreateSteps

(* The call returns.                                                       *)
LEMMA ReturnTypes ==
  ASSUME TypeInv, NEW p \in Procs, Return(p)
  PROVE  TypeInv'
  <1>1. WorldOK'
    BY TypeInvParts DEF Return, Free, WorldOK, LockTypeOK, Owners, store, bounds
  <1>2. Remember(p, NoCall) /\ Goto(p, "idle") /\ inside' = inside \ {p}
    BY DEF Return, Free
  <1>3. "idle" \in AnyStep /\ "idle" \notin LockedSteps
    BY DEF AnyStep, LockedSteps
  <1> QED BY <1>1, <1>2, <1>3, NoCallIdle, CallMoves

(* An early return.                                                        *)
LEMMA StopTypes ==
  ASSUME TypeInv, NEW p \in Procs, NEW step \in LockedSteps,
         Inside(p, step), Stop(p)
  PROVE  TypeInv'
  <1>1. WorldOK'
    BY WorldStays DEF Inside, Stop
  <1>2. Fits(p, mem[p], "return")
    BY DEF Fits, NeedsDraft, NeedsReview, NeedsOrder, NeedsReceipt, NeedsAnswer,
           RevisingSteps, PostingSteps, RecordingSteps, CreateSteps
  <1>3. "return" \in LockedSteps
    BY DEF LockedSteps
  <1> QED BY <1>1, <1>2, <1>3, InsideStays DEF Inside, Stop

(* One CASE per action: the store stays typed, and what the call remembers *)
(* is what its next step needs.                                            *)
LEMMA RevalidatingTypes ==
  ASSUME TypeInv, NEW p \in Procs, Revalidating(p)
  PROVE  TypeInv'
  <1> USE DEF NeedsDraft, NeedsReview, NeedsOrder, NeedsReceipt, NeedsAnswer,
              RevisingSteps, PostingSteps, RecordingSteps, CreateSteps
  <1> DEFINE id == mem[p].id
  <1>0. /\ mem[p] \in Call /\ CallOK(p) /\ Fits(p, mem[p], pc[p])
        /\ WorldOK /\ pc \in [Procs -> AnyStep] /\ mem \in [Procs -> Call]
    BY TypeInvParts DEF CallOK
  <1>1. CASE Revalidate(p)
    <2>1. PICK d \in Drafts : Enter(p, "revalidate", d, "no")
      BY <1>1 DEF Revalidate
    <2> QED BY <2>1, EnterTypes DEF LockedSteps
  <1>2. CASE LoadForRevalidate(p)
    <2>1. id \in Drafts /\ pc[p] = "revalidate" /\ UNCHANGED lockVars
      BY <1>0, <1>2 DEF LoadForRevalidate, Inside, Fits
    <2>2. CASE StatusOf(id) = "signing_prepared"
      <3> DEFINE x == [drafts[id] EXCEPT !.status = "review", !.salt = None]
                 c == [mem[p] EXCEPT !.draft = x]
      <3>1. drafts[id] \in Draft
        BY <1>0, <2>1, <2>2 DEF WorldOK, StatusOf
      <3>2. x \in Draft
        BY <3>1 DEF Draft, DraftStatus, OpenStatus
      <3>3. c \in Call /\ c.draft = x /\ c.id = id
        BY <1>0, <3>2 DEF Call
      <3>4. Remember(p, c) /\ Goto(p, "clear_prepared") /\ UNCHANGED <<store, orders>>
        BY <1>2, <2>2 DEF LoadForRevalidate, Revisable
      <3> HIDE DEF x, c
      <3>5. Fits(p, c, "clear_prepared")
        BY <2>1, <3>2, <3>3 DEF Fits
      <3>6. WorldOK'
        BY <1>2, <3>4, WorldStays DEF LoadForRevalidate, Inside
      <3> QED BY <2>1, <3>3, <3>4, <3>5, <3>6, InsideMoves DEF LockedSteps
    <2>3. CASE StatusOf(id) \in Revisable
      <3> DEFINE c == [mem[p] EXCEPT !.draft = drafts[id]]
      <3>1. drafts[id] \in Draft
        BY <1>0, <2>1, <2>3 DEF WorldOK, StatusOf, Revisable
      <3>2. c \in Call /\ c.draft = drafts[id] /\ c.id = id
        BY <1>0, <3>1 DEF Call
      <3>3. Remember(p, c) /\ Goto(p, "live") /\ UNCHANGED <<store, orders>>
        BY <1>2, <2>3 DEF LoadForRevalidate, Revisable
      <3> HIDE DEF c
      <3>4. Fits(p, c, "live")
        BY <2>1, <3>1, <3>2 DEF Fits
      <3>5. WorldOK'
        BY <1>2, <3>3, WorldStays DEF LoadForRevalidate, Inside
      <3> QED BY <2>1, <3>2, <3>3, <3>4, <3>5, InsideMoves DEF LockedSteps
    <2>4. CASE StatusOf(id) \notin Revisable \cup {"signing_prepared"}
      <3>1. Inside(p, "revalidate") /\ Stop(p)
        BY <1>2, <2>4 DEF LoadForRevalidate
      <3> QED BY <3>1, StopTypes DEF LockedSteps
    <2> QED BY <2>2, <2>3, <2>4
  <1>3. CASE ClearPrepared(p)
    <2>1. Fits(p, mem[p], "clear_approval") /\ id \in Drafts
      BY <1>0, <1>3 DEF ClearPrepared, Inside, Fits
    <2>2. WorldOK'
      BY <1>0, <1>3, <2>1 DEF ClearPrepared, Inside, WorldOK, LockTypeOK, lockVars, bounds
    <2> QED BY <1>3, <2>1, <2>2, InsideStays DEF ClearPrepared, Inside, LockedSteps
  <1>4. CASE ClearApproval(p)
    <2>1. Fits(p, mem[p], "clear_attempt") /\ id \in Drafts
      BY <1>0, <1>4 DEF ClearApproval, Inside, Fits
    <2>2. WorldOK'
      BY <1>0, <1>4, <2>1 DEF ClearApproval, Inside, WorldOK, LockTypeOK, lockVars, bounds
    <2> QED BY <1>4, <2>1, <2>2, InsideStays DEF ClearApproval, Inside, LockedSteps
  <1>5. CASE ClearAttempt(p)
    <2>1. Fits(p, mem[p], "live") /\ id \in Drafts
      BY <1>0, <1>5 DEF ClearAttempt, Inside, Fits
    <2>2. WorldOK'
      BY <1>0, <1>5, <2>1 DEF ClearAttempt, Inside, WorldOK, LockTypeOK, lockVars, bounds
    <2> QED BY <1>5, <2>1, <2>2, InsideStays DEF ClearAttempt, Inside, LockedSteps
  <1>6. CASE ReviseLive(p)
    <2>1. /\ id \in Drafts /\ mem[p].draft \in Draft /\ pc[p] = "live"
          /\ UNCHANGED lockVars
      BY <1>0, <1>6 DEF ReviseLive, Inside, Fits
    <2>2. WorldOK'
      BY <1>6, WorldStays DEF ReviseLive, Inside
    <2> DEFINE kind == mem[p].draft.kind
               revised(q, status) == [mem[p].draft EXCEPT !.quote = q, !.status = status]
               review(q) == [quote |-> q, warn |-> Warned(kind, q),
                             staged |-> TRUE, ack |-> "unset"]
               denied(q) == [mem[p] EXCEPT !.draft = revised(q, "policy_denied")]
               passed(q) == [mem[p] EXCEPT !.draft = revised(q, "revalidated"),
                                           !.review = review(q)]
               next == IF kind.side = "buy" THEN "stage_review" ELSE "preflight"
    <2>3. PICK q \in Quotes :
            \/ Remember(p, denied(q)) /\ Goto(p, "drop_review")
            \/ Remember(p, passed(q)) /\ Goto(p, next)
      BY <1>6 DEF ReviseLive
    <2>4. revised(q, "policy_denied") \in Draft /\ revised(q, "revalidated") \in Draft
      BY <2>1 DEF Draft, DraftStatus, OpenStatus
    <2>5. Warned(kind, q) \in BOOLEAN
      BY DEF Warned
    <2>6. review(q) \in Review
      BY <2>5 DEF Review
    <2>7. /\ denied(q) \in Call /\ denied(q).id = id
          /\ denied(q).draft = revised(q, "policy_denied")
      BY <1>0, <2>4 DEF Call
    <2>8. /\ passed(q) \in Call /\ passed(q).id = id
          /\ passed(q).draft = revised(q, "revalidated") /\ passed(q).review = review(q)
      BY <1>0, <2>4, <2>6 DEF Call
    <2>9. next \in {"stage_review", "preflight"}
      OBVIOUS
    <2> HIDE DEF revised, review, denied, passed, next
    <2>10. Fits(p, denied(q), "drop_review") /\ Fits(p, passed(q), next)
      BY <2>1, <2>4, <2>6, <2>7, <2>8, <2>9 DEF Fits
    <2>11. CASE Remember(p, denied(q)) /\ Goto(p, "drop_review")
      BY <2>1, <2>2, <2>7, <2>10, <2>11, InsideMoves DEF LockedSteps
    <2>12. CASE Remember(p, passed(q)) /\ Goto(p, next)
      <3>1. next \in LockedSteps /\ pc[p] \in LockedSteps
        BY <2>1, <2>9 DEF LockedSteps
      <3> QED BY <3>1, <2>1, <2>2, <2>8, <2>10, <2>12, InsideMoves
    <2> QED BY <2>3, <2>11, <2>12
  <1>7. CASE LiveReadFails(p)
    BY <1>7, StopTypes DEF LiveReadFails, LockedSteps
  <1>8. CASE Preflight(p)
    <2>1. /\ id \in Drafts /\ mem[p].draft \in Draft /\ mem[p].review \in Review
          /\ pc[p] = "preflight" /\ UNCHANGED lockVars
      BY <1>0, <1>8 DEF Preflight, Inside, Fits
    <2>2. UNCHANGED <<store, orders>>
      BY <1>8 DEF Preflight, Stop
    <2>3. WorldOK'
      BY <1>8, <2>2, WorldStays DEF Preflight, Inside
    <2>4. CASE Goto(p, "stage_review") /\ mem' = mem
      <3>1. Fits(p, mem[p], "stage_review")
        BY <2>1 DEF Fits
      <3> QED BY <2>1, <2>3, <2>4, <3>1, InsideStays DEF LockedSteps
    <2>5. CASE /\ Goto(p, "drop_review")
               /\ Remember(p, [mem[p] EXCEPT !.draft.status = "review"])
      <3> DEFINE x == [mem[p].draft EXCEPT !.status = "review"]
                 c == [mem[p] EXCEPT !.draft.status = "review"]
      <3>1. x \in Draft
        BY <2>1 DEF Draft, DraftStatus, OpenStatus
      <3>2. c \in Call /\ c.id = id /\ c.draft = x
        BY <1>0, <3>1 DEF Call
      <3>3. Remember(p, c)
        BY <2>5
      <3> HIDE DEF x, c
      <3>4. Fits(p, c, "drop_review")
        BY <2>1, <3>1, <3>2 DEF Fits
      <3> QED BY <2>1, <2>3, <2>5, <3>2, <3>3, <3>4, InsideMoves DEF LockedSteps
    <2>6. CASE Stop(p)
      BY <1>8, <2>6, StopTypes DEF Preflight, LockedSteps
    <2> QED BY <1>8, <2>4, <2>5, <2>6 DEF Preflight
  <1>9. CASE DropReview(p)
    <2>1. Fits(p, mem[p], "store_draft") /\ id \in Drafts
      BY <1>0, <1>9 DEF DropReview, Inside, Fits
    <2>2. WorldOK'
      BY <1>0, <1>9, <2>1 DEF DropReview, Inside, WorldOK, LockTypeOK, lockVars, bounds
    <2> QED BY <1>9, <2>1, <2>2, InsideStays DEF DropReview, Inside, LockedSteps
  <1>10. CASE StageReview(p)
    <2>1. Fits(p, mem[p], "store_draft") /\ id \in Drafts /\ mem[p].review \in Review
      BY <1>0, <1>10 DEF StageReview, Inside, Fits
    <2>2. WorldOK'
      BY <1>0, <1>10, <2>1 DEF StageReview, Inside, WorldOK, LockTypeOK, lockVars, bounds
    <2> QED BY <1>10, <2>1, <2>2, InsideStays DEF StageReview, Inside, LockedSteps
  <1>11. CASE StoreDraft(p)
    <2>1. Fits(p, mem[p], "return") /\ id \in Drafts /\ mem[p].draft \in Draft
      BY <1>0, <1>11 DEF StoreDraft, Inside, Fits
    <2>2. WorldOK'
      BY <1>0, <1>11, <2>1 DEF StoreDraft, Inside, WorldOK, LockTypeOK, lockVars, bounds
    <2> QED BY <1>11, <2>1, <2>2, InsideStays DEF StoreDraft, Inside, LockedSteps
  <1> QED BY <1>1, <1>2, <1>3, <1>4, <1>5, <1>6, <1>7, <1>8, <1>9, <1>10, <1>11
       DEF Revalidating

(* The same for post.                                                      *)
LEMMA PostingTypes ==
  ASSUME TypeInv, NEW p \in Procs, Posting(p)
  PROVE  TypeInv'
  <1> USE DEF NeedsDraft, NeedsReview, NeedsOrder, NeedsReceipt, NeedsAnswer,
              RevisingSteps, PostingSteps, RecordingSteps, CreateSteps
  <1> DEFINE id == mem[p].id
  <1>0. /\ mem[p] \in Call /\ CallOK(p) /\ Fits(p, mem[p], pc[p])
        /\ WorldOK /\ pc \in [Procs -> AnyStep] /\ mem \in [Procs -> Call]
    BY TypeInvParts DEF CallOK
  <1>1. CASE Post(p)
    <2>1. PICK d \in Drafts, ack \in {"no", "yes"} : Enter(p, "post", d, ack)
      BY <1>1 DEF Post
    <2> QED BY <2>1, EnterTypes DEF LockedSteps
  <1>2. CASE LoadForPost(p)
    <2>1. id \in Drafts /\ pc[p] = "post" /\ UNCHANGED lockVars
      BY <1>0, <1>2 DEF LoadForPost, Inside, Fits
    <2>2. CASE StatusOf(id) \in Postable
      <3> DEFINE c == [mem[p] EXCEPT !.draft = drafts[id]]
      <3>1. drafts[id] \in Draft
        BY <1>0, <2>1, <2>2 DEF WorldOK, StatusOf, Postable
      <3>2. c \in Call /\ c.draft = drafts[id] /\ c.id = id
        BY <1>0, <3>1 DEF Call
      <3>3. Remember(p, c) /\ Goto(p, "check") /\ UNCHANGED <<store, orders>>
        BY <1>2, <2>2 DEF LoadForPost
      <3> HIDE DEF c
      <3>4. Fits(p, c, "check")
        BY <2>1, <3>1, <3>2 DEF Fits
      <3>5. WorldOK'
        BY <1>2, <3>3, WorldStays DEF LoadForPost, Inside
      <3> QED BY <2>1, <3>2, <3>3, <3>4, <3>5, InsideMoves DEF LockedSteps
    <2>3. CASE StatusOf(id) \notin Postable
      <3>1. Inside(p, "post") /\ Stop(p)
        BY <1>2, <2>3 DEF LoadForPost
      <3> QED BY <3>1, StopTypes DEF LockedSteps
    <2> QED BY <2>2, <2>3
  <1>3. CASE CheckDenies(p)
    <2>1. /\ id \in Drafts /\ mem[p].draft \in Draft /\ pc[p] = "check"
          /\ UNCHANGED lockVars
      BY <1>0, <1>3 DEF CheckDenies, Inside, Fits
    <2>2. WorldOK'
      BY <1>3, WorldStays DEF CheckDenies, Inside
    <2> DEFINE x(q) == [mem[p].draft EXCEPT !.quote = q, !.status = "policy_denied"]
               c(q) == [mem[p] EXCEPT !.draft.quote = q, !.draft.status = "policy_denied"]
    <2>3. PICK q \in Quotes : Remember(p, c(q)) /\ Goto(p, "drop_review")
      BY <1>3 DEF CheckDenies
    <2>4. x(q) \in Draft
      BY <2>1 DEF Draft, DraftStatus, OpenStatus
    <2>5. c(q) \in Call /\ c(q).id = id /\ c(q).draft = x(q)
      BY <1>0, <2>4 DEF Call
    <2> HIDE DEF x, c
    <2>6. Fits(p, c(q), "drop_review")
      BY <2>1, <2>4, <2>5 DEF Fits
    <2> QED BY <2>1, <2>2, <2>3, <2>5, <2>6, InsideMoves DEF LockedSteps
  <1>4. CASE CheckPasses(p)
    <2>1. /\ id \in Drafts /\ mem[p].draft \in Draft /\ pc[p] = "check"
          /\ UNCHANGED lockVars
      BY <1>0, <1>4 DEF CheckPasses, Inside, Fits
    <2>2. WorldOK'
      BY <1>4, WorldStays DEF CheckPasses, Inside
    <2> DEFINE review == reviews[id]
               x == [mem[p].draft EXCEPT !.quote = review.quote]
               r == [review EXCEPT !.ack = mem[p].ack]
               c == [mem[p] EXCEPT !.draft.quote = review.quote,
                                   !.review = [review EXCEPT !.ack = mem[p].ack],
                                   !.cap = cfg.max_daily]
    <2>3. Remember(p, c) /\ Goto(p, "acknowledge") /\ review # None
      BY <1>4 DEF CheckPasses
    <2>4. review \in Review /\ cfg.max_daily \in Nat \cup {None}
      BY <1>0, <2>1, <2>3 DEF WorldOK
    <2>5. mem[p].ack \in {"no", "yes"}
      BY <1>0 DEF Call
    <2>6. x \in Draft
      BY <2>1, <2>4 DEF Draft, Review
    <2>7. r \in Review
      BY <2>4, <2>5 DEF Review
    <2>8. c \in Call /\ c.id = id /\ c.draft = x /\ c.review = r
      BY <1>0, <2>4, <2>6, <2>7 DEF Call
    <2> HIDE DEF x, r, c
    <2>9. Fits(p, c, "acknowledge")
      BY <2>1, <2>6, <2>7, <2>8 DEF Fits
    <2> QED BY <2>1, <2>2, <2>3, <2>8, <2>9, InsideMoves DEF LockedSteps
  <1>5. CASE CheckRefuses(p)
    BY <1>5, StopTypes DEF CheckRefuses, LockedSteps
  <1>6. CASE Acknowledge(p)
    <2>1. Fits(p, mem[p], "prepare") /\ id \in Drafts /\ mem[p].review \in Review
      BY <1>0, <1>6 DEF Acknowledge, Inside, Fits
    <2>2. WorldOK'
      BY <1>0, <1>6, <2>1 DEF Acknowledge, Inside, WorldOK, LockTypeOK, lockVars, bounds
    <2> QED BY <1>6, <2>1, <2>2, InsideStays DEF Acknowledge, Inside, LockedSteps
  <1>7. CASE Prepare(p)
    <2>1. /\ id \in Drafts /\ mem[p].draft \in Draft /\ mem[p].review \in Review
          /\ pc[p] = "prepare" /\ UNCHANGED lockVars
      BY <1>0, <1>7 DEF Prepare, Inside, Fits
    <2> DEFINE c(o) == [mem[p] EXCEPT !.order = o]
    <2>2. \E o \in Order : Remember(p, c(o)) /\ prepared' = [prepared EXCEPT ![id] = o]
      <3>1. CASE prepared[id] # None
        <4>1. prepared[id] \in Order
          BY <1>0, <2>1, <3>1 DEF WorldOK
        <4>2. Remember(p, c(prepared[id])) /\ prepared' = prepared
          BY <1>7, <3>1 DEF Prepare
        <4>3. prepared = [prepared EXCEPT ![id] = prepared[id]]
          BY <1>0, <2>1 DEF WorldOK
        <4> QED BY <4>1, <4>2, <4>3
      <3>2. CASE prepared[id] = None
        <4> DEFINE o(s) == [salt |-> s, quote |-> mem[p].draft.quote,
                            review |-> mem[p].review]
        <4>1. PICK s \in Salts : /\ prepared' = [prepared EXCEPT ![id] = o(s)]
                                 /\ Remember(p, c(o(s)))
          BY <1>7, <3>2 DEF Prepare
        <4>2. o(s) \in Order
          BY <2>1 DEF Order, Draft
        <4> HIDE DEF o
        <4> QED BY <4>1, <4>2
      <3> QED BY <3>1, <3>2
    <2>3. PICK o \in Order : Remember(p, c(o)) /\ prepared' = [prepared EXCEPT ![id] = o]
      BY <2>2
    <2>4. /\ c(o) \in Call /\ c(o).id = id /\ c(o).order = o
          /\ c(o).draft = mem[p].draft /\ c(o).review = mem[p].review
      BY <1>0 DEF Call
    <2> HIDE DEF c
    <2>5. Fits(p, c(o), "bind")
      BY <2>1, <2>4 DEF Fits
    <2>6. WorldOK'
      BY <1>0, <1>7, <2>1, <2>3 DEF Prepare, Inside, WorldOK, LockTypeOK, lockVars, bounds
    <2> QED BY <1>7, <2>1, <2>3, <2>4, <2>5, <2>6, InsideMoves DEF Prepare, LockedSteps
  <1>8. CASE Bind(p)
    <2>1. /\ id \in Drafts /\ mem[p].draft \in Draft /\ mem[p].review \in Review
          /\ mem[p].order \in Order /\ pc[p] = "bind" /\ UNCHANGED lockVars
      BY <1>0, <1>8 DEF Bind, Inside, Fits
    <2>2. CASE Bound(mem[p].order, mem[p].review)
      <3> DEFINE x == [mem[p].draft EXCEPT !.status = "signing_prepared",
                                           !.salt = mem[p].order.salt]
                 c == [mem[p] EXCEPT !.draft = x]
      <3>1. x \in Draft
        BY <2>1 DEF Draft, DraftStatus, OpenStatus, Order
      <3>2. /\ c \in Call /\ c.id = id /\ c.draft = x
            /\ c.review = mem[p].review /\ c.order = mem[p].order
        BY <1>0, <3>1 DEF Call
      <3>3. Remember(p, c) /\ Goto(p, "prepared_attempt")
            /\ drafts' = [drafts EXCEPT ![id] = x]
            /\ UNCHANGED <<reviews, prepared, approvals, attempts, receipts, audited,
                           orders, cfg, bounds>>
        BY <1>8, <2>2 DEF Bind, Inside
      <3> HIDE DEF x, c
      <3>4. Fits(p, c, "prepared_attempt")
        BY <2>1, <3>1, <3>2 DEF Fits
      <3>5. WorldOK'
        BY <1>0, <2>1, <3>1, <3>3 DEF WorldOK, LockTypeOK, lockVars, bounds
      <3> QED BY <2>1, <3>2, <3>3, <3>4, <3>5, InsideMoves DEF LockedSteps
    <2>3. CASE ~Bound(mem[p].order, mem[p].review)
      <3>1. Inside(p, "bind") /\ Stop(p)
        BY <1>8, <2>3 DEF Bind
      <3> QED BY <3>1, StopTypes DEF LockedSteps
    <2> QED BY <2>2, <2>3
  <1>9. CASE PreparedAttempt(p)
    <2>1. Fits(p, mem[p], "sign") /\ id \in Drafts
      BY <1>0, <1>9 DEF PreparedAttempt, Inside, Fits
    <2>2. WorldOK'
      BY <1>0, <1>9, <2>1 DEF PreparedAttempt, Inside, WorldOK, LockTypeOK, lockVars, bounds
    <2> QED BY <1>9, <2>1, <2>2, InsideStays DEF PreparedAttempt, Inside, LockedSteps
  <1>10. CASE Sign(p)
    <2>1. /\ Fits(p, mem[p], "signed_attempt") /\ Fits(p, mem[p], "return")
          /\ id \in Drafts /\ mem[p].order \in Order
      BY <1>0, <1>10 DEF Sign, Inside, Fits
    <2>2. mem[p].order.salt \in Salts
      BY <2>1 DEF Order
    <2>3. approvals' \in [Drafts -> Salts \cup {None}]
      BY <1>0, <1>10, <2>1, <2>2 DEF Sign, WorldOK
    <2>4. WorldOK'
      BY <1>0, <1>10, <2>3 DEF Sign, Inside, WorldOK, LockTypeOK, lockVars, bounds
    <2>5. Goto(p, "signed_attempt") \/ Goto(p, "return")
      BY <1>10 DEF Sign
    <2> QED BY <1>10, <2>1, <2>4, <2>5, InsideStays DEF Sign, Inside, LockedSteps
  <1>11. CASE SignedAttempt(p)
    <2>1. Fits(p, mem[p], "signed_draft") /\ id \in Drafts
      BY <1>0, <1>11 DEF SignedAttempt, Inside, Fits
    <2>2. WorldOK'
      BY <1>0, <1>11, <2>1 DEF SignedAttempt, Inside, WorldOK, LockTypeOK, lockVars, bounds
    <2> QED BY <1>11, <2>1, <2>2, InsideStays DEF SignedAttempt, Inside, LockedSteps
  <1>12. CASE SignedDraft(p)
    <2>1. /\ id \in Drafts /\ mem[p].draft \in Draft /\ mem[p].review \in Review
          /\ mem[p].order \in Order /\ pc[p] = "signed_draft" /\ UNCHANGED lockVars
      BY <1>0, <1>12 DEF SignedDraft, Inside, Fits
    <2> DEFINE x == [mem[p].draft EXCEPT !.status = "signed"]
               c == [mem[p] EXCEPT !.draft = x]
    <2>2. x \in Draft
      BY <2>1 DEF Draft, DraftStatus
    <2>3. /\ c \in Call /\ c.id = id /\ c.draft = x
          /\ c.review = mem[p].review /\ c.order = mem[p].order
      BY <1>0, <2>2 DEF Call
    <2>4. Remember(p, c) /\ Goto(p, "send") /\ drafts' = [drafts EXCEPT ![id] = x]
      BY <1>12 DEF SignedDraft
    <2> HIDE DEF x, c
    <2>5. Fits(p, c, "send")
      BY <2>1, <2>2, <2>3 DEF Fits
    <2>6. WorldOK'
      BY <1>0, <1>12, <2>1, <2>2, <2>4
         DEF SignedDraft, Inside, WorldOK, LockTypeOK, lockVars, bounds
    <2> QED BY <2>1, <2>3, <2>4, <2>5, <2>6, InsideMoves DEF LockedSteps
  <1>13. CASE Send(p)
    <2>1. /\ id \in Drafts /\ mem[p].draft \in Draft /\ mem[p].review \in Review
          /\ mem[p].order \in Order /\ pc[p] = "send" /\ UNCHANGED lockVars
      BY <1>0, <1>13 DEF Send, Inside, Fits
    <2> DEFINE s == mem[p].order.salt
               kind == mem[p].draft.kind
               sent(state) == [draft |-> id, kind |-> kind, quote |-> mem[p].order.quote,
                               review |-> mem[p].review, state |-> state]
               c(heard) == [mem[p] EXCEPT !.answer = heard]
               hears(heard) ==
                 IF heard = "lost" THEN Goto(p, "reconcile") /\ mem' = mem
                                   ELSE Goto(p, "audit") /\ Remember(p, c(heard))
    <2>2. PICK state \in Fates(kind) \cup {"refused", "flying"} :
            /\ IF orders[s] = None THEN orders' = [orders EXCEPT ![s] = sent(state)]
                                   ELSE orders' = orders
            /\ \E heard \in Heard(state) : hears(heard)
      BY <1>13 DEF Send
    <2>3. state \in {"flying", "live", "matched", "killed", "refused"}
      BY DEF Fates
    <2>4. PICK heard \in {"live", "matched", "unmatched", "rejected", "lost"} : hears(heard)
      BY <2>2, <2>3 DEF Heard
    <2>5. s \in Salts /\ sent(state) \in Sent
      BY <2>1, <2>3 DEF Order, Draft, Sent
    <2> HIDE DEF sent
    <2>6. orders' \in [Salts -> Sent \cup {None}]
      BY <1>0, <2>2, <2>5 DEF WorldOK
    <2> HIDE DEF s
    <2>7. WorldOK'
      BY <1>0, <1>13, <2>6 DEF Send, Inside, WorldOK, LockTypeOK, lockVars, bounds, store
    <2>8. CASE heard = "lost"
      <3>1. Fits(p, mem[p], "reconcile")
        BY <2>1 DEF Fits
      <3> QED BY <2>1, <2>4, <2>7, <2>8, <3>1, InsideStays DEF LockedSteps
    <2>9. CASE heard # "lost"
      <3>1. /\ c(heard) \in Call /\ c(heard).id = id /\ c(heard).answer = heard
            /\ c(heard).draft = mem[p].draft /\ c(heard).review = mem[p].review
            /\ c(heard).order = mem[p].order
        BY <1>0, <2>4, <2>9 DEF Call, Answers, Accepted
      <3> HIDE DEF c
      <3>2. Fits(p, c(heard), "audit")
        BY <2>1, <2>4, <2>9, <3>1 DEF Fits
      <3> QED BY <2>1, <2>4, <2>7, <2>9, <3>1, <3>2, InsideMoves DEF LockedSteps
    <2> QED BY <2>8, <2>9
  <1> QED BY <1>1, <1>2, <1>3, <1>4, <1>5, <1>6, <1>7, <1>8, <1>9, <1>10, <1>11, <1>12,
             <1>13 DEF Posting

(* The steps that record an answer go on to a step the answer fits.        *)
LEMMA AfterFits ==
  ASSUME NEW p \in Procs, NEW c \in Call, Fits(p, c, pc[p]),
         pc[p] \in NeedsAnswer
  PROVE  After(pc[p], c.answer) \in LockedSteps /\ Fits(p, c, After(pc[p], c.answer))
  <1> USE DEF NeedsDraft, NeedsReview, NeedsOrder, NeedsReceipt, NeedsAnswer,
              RevisingSteps, PostingSteps, RecordingSteps, CreateSteps
  <1>1. /\ c.id \in Drafts /\ c.draft \in Draft /\ c.review \in Review /\ c.order \in Order
        /\ c.answer \in {"live", "matched", "unmatched", "rejected", "ambiguous", "open"}
        /\ pc[p] \in {"drop_prepared", "drop_approval", "answer_attempt"} =>
             c.answer \in {"live", "matched", "unmatched", "rejected"}
    BY DEF Fits
  <1>2. /\ After(pc[p], c.answer) \in
             {"audit", "receipt", "drop_prepared", "drop_approval", "answer_draft",
              "answer_attempt", "return"}
        /\ After(pc[p], c.answer) \in {"drop_prepared", "drop_approval", "answer_attempt"} =>
             c.answer \in {"live", "matched", "unmatched", "rejected"}
    BY <1>1 DEF After, Accepted
  <1>3. After(pc[p], c.answer) \in LockedSteps
    BY <1>2 DEF LockedSteps
  <1> HIDE DEF NeedsDraft, NeedsReview, NeedsOrder, NeedsReceipt, NeedsAnswer
  <1>4. /\ After(pc[p], c.answer) \notin CreateSteps
        /\ After(pc[p], c.answer) \notin NeedsReceipt
    BY <1>2 DEF NeedsReceipt
  <1> QED BY <1>1, <1>2, <1>3, <1>4 DEF Fits

(* The writes that record an answer.                                       *)
LEMMA RecordingTypes ==
  ASSUME TypeInv, NEW p \in Procs, Recording(p)
  PROVE  TypeInv'
  <1> DEFINE id == mem[p].id
             next == After(pc[p], mem[p].answer)
  <1>0. /\ mem[p] \in Call /\ CallOK(p) /\ Fits(p, mem[p], pc[p])
        /\ WorldOK /\ pc \in [Procs -> AnyStep] /\ mem \in [Procs -> Call]
    BY TypeInvParts DEF CallOK
  <1>1. CASE Reconcile(p)
    <2>1. pc[p] = "reconcile" /\ UNCHANGED lockVars
      BY <1>1 DEF Reconcile, Inside
    <2>2. /\ id \in Drafts /\ mem[p].draft \in Draft /\ mem[p].review \in Review
          /\ mem[p].order \in Order
      BY <1>0, <2>1 DEF Fits, NeedsDraft, NeedsReview, NeedsOrder, RecordingSteps
    <2>3. WorldOK'
      BY <1>1, WorldStays DEF Reconcile, Inside
    <2> DEFINE c(answer) == [mem[p] EXCEPT !.answer = answer]
    <2>4. PICK answer \in {"open", "ambiguous"}, step \in {"reconcile_attempt", "answer_draft"} :
            Remember(p, c(answer)) /\ Goto(p, step)
      BY <1>1 DEF Reconcile
    <2>5. /\ c(answer) \in Call /\ c(answer).id = id /\ c(answer).answer = answer
          /\ c(answer).draft = mem[p].draft /\ c(answer).review = mem[p].review
          /\ c(answer).order = mem[p].order
      BY <1>0 DEF Call, Answers
    <2> HIDE DEF c
    <2>6. Fits(p, c(answer), step)
      BY <2>2, <2>5 DEF Fits, NeedsReceipt, CreateSteps
    <2>7. pc[p] \in LockedSteps /\ step \in LockedSteps
      BY <2>1 DEF LockedSteps
    <2> QED BY <2>1, <2>3, <2>4, <2>5, <2>6, <2>7, InsideMoves
  <1>2. ASSUME NEW step \in NeedsAnswer, Answering(p, step), WorldOK'
        PROVE  TypeInv'
    <2>1. pc[p] = step /\ mem' = mem /\ Goto(p, next) /\ UNCHANGED lockVars
      BY <1>2 DEF Answering, Inside
    <2>2. next \in LockedSteps /\ Fits(p, mem[p], next)
      BY <1>0, <2>1, AfterFits
    <2>3. pc[p] \in LockedSteps
      BY <2>1 DEF NeedsAnswer, RecordingSteps, LockedSteps
    <2> QED BY <1>2, <2>1, <2>2, <2>3, InsideStays
  <1>3. ASSUME NEW step \in NeedsAnswer, Answering(p, step)
        PROVE  /\ id \in Drafts /\ mem[p].draft \in Draft /\ mem[p].order \in Order
               /\ UNCHANGED <<lockVars, cfg, bounds, orders>>
               /\ mem[p].answer \in
                    {"live", "matched", "unmatched", "rejected", "ambiguous", "open"}
    BY <1>0, <1>3 DEF Answering, Inside, Fits, NeedsDraft, NeedsOrder, NeedsAnswer,
                      RecordingSteps
  <1>4. {"reconcile_attempt", "audit", "receipt", "drop_prepared", "drop_approval",
         "answer_draft", "answer_attempt"} \subseteq NeedsAnswer
    BY DEF NeedsAnswer, RecordingSteps
  <1> USE DEF WorldOK, LockTypeOK, lockVars, bounds
  <1>5. CASE ReconcileAttempt(p)
    <2>1. WorldOK'
      BY <1>0, <1>3, <1>4, <1>5 DEF ReconcileAttempt
    <2> QED BY <1>2, <1>4, <1>5, <2>1 DEF ReconcileAttempt
  <1>6. CASE Audit(p)
    <2>1. WorldOK'
      BY <1>0, <1>3, <1>4, <1>6 DEF Audit
    <2> QED BY <1>2, <1>4, <1>6, <2>1 DEF Audit
  <1>7. CASE WriteReceipt(p)
    <2> DEFINE r == [kind |-> mem[p].draft.kind, salt |-> mem[p].order.salt,
                     quote |-> mem[p].draft.quote,
                     status |-> ReceiptStatus(mem[p].answer)]
    <2>1. ReceiptStatus(mem[p].answer) \in Accepted \cup {"rejected", "ambiguous", "cancelled"}
      BY <1>3, <1>4, <1>7 DEF WriteReceipt, ReceiptStatus, Accepted
    <2>2. r \in Receipt
      BY <1>3, <1>4, <1>7, <2>1 DEF WriteReceipt, Receipt, Draft, Order
    <2>3. receipts' = [receipts EXCEPT ![id] = r]
      BY <1>7 DEF WriteReceipt
    <2> HIDE DEF r
    <2>4. WorldOK'
      BY <1>0, <1>3, <1>4, <1>7, <2>2, <2>3 DEF WriteReceipt
    <2> QED BY <1>2, <1>4, <1>7, <2>4 DEF WriteReceipt
  <1>8. CASE DropPrepared(p)
    <2>1. WorldOK'
      BY <1>0, <1>3, <1>4, <1>8 DEF DropPrepared
    <2> QED BY <1>2, <1>4, <1>8, <2>1 DEF DropPrepared
  <1>9. CASE DropApproval(p)
    <2>1. WorldOK'
      BY <1>0, <1>3, <1>4, <1>9 DEF DropApproval
    <2> QED BY <1>2, <1>4, <1>9, <2>1 DEF DropApproval
  <1>10. CASE AnswerDraft(p)
    <2> DEFINE x == [mem[p].draft EXCEPT !.status = Outcome(mem[p])]
    <2>1. Outcome(mem[p]) \in DraftStatus
      BY DEF Outcome, DraftStatus
    <2>2. x \in Draft
      BY <1>3, <1>4, <1>10, <2>1 DEF AnswerDraft, Draft
    <2>3. drafts' = [drafts EXCEPT ![id] = x]
      BY <1>10 DEF AnswerDraft
    <2> HIDE DEF x
    <2>4. WorldOK'
      BY <1>0, <1>3, <1>4, <1>10, <2>2, <2>3 DEF AnswerDraft
    <2> QED BY <1>2, <1>4, <1>10, <2>4 DEF AnswerDraft
  <1>11. CASE AnswerAttempt(p)
    <2>1. pc[p] = "answer_attempt" /\ Answering(p, "answer_attempt")
      BY <1>11 DEF AnswerAttempt, Answering, Inside
    <2>2. mem[p].answer \in {"live", "matched", "unmatched", "rejected"}
      BY <1>0, <2>1 DEF Fits
    <2>3. Outcome(mem[p]) \in {"posted", "rejected"}
      BY <2>2 DEF Outcome
    <2>4. WorldOK'
      BY <1>0, <1>3, <1>4, <1>11, <2>1, <2>3 DEF AnswerAttempt
    <2> QED BY <1>2, <1>4, <2>1, <2>4
  <1> QED BY <1>1, <1>5, <1>6, <1>7, <1>8, <1>9, <1>10, <1>11 DEF Recording

(* The two cancels.                                                        *)
LEMMA CancellingTypes ==
  ASSUME TypeInv, NEW p \in Procs, Cancelling(p)
  PROVE  TypeInv'
  <1> USE DEF NeedsDraft, NeedsReview, NeedsOrder, NeedsReceipt, NeedsAnswer,
              RevisingSteps, PostingSteps, RecordingSteps, CreateSteps
  <1> DEFINE id == mem[p].id
  <1>0. /\ mem[p] \in Call /\ CallOK(p) /\ Fits(p, mem[p], pc[p])
        /\ WorldOK /\ pc \in [Procs -> AnyStep] /\ mem \in [Procs -> Call]
    BY TypeInvParts DEF CallOK
  <1>1. CASE Cancel(p)
    <2>1. PICK d \in Drafts : Enter(p, "cancel", d, "no")
      BY <1>1 DEF Cancel
    <2> QED BY <2>1, EnterTypes DEF LockedSteps
  <1>2. CASE LoadReceipt(p)
    <2>1. id \in Drafts /\ pc[p] = "cancel" /\ UNCHANGED lockVars
      BY <1>0, <1>2 DEF LoadReceipt, Inside, Fits
    <2>2. WorldOK'
      BY <1>2, WorldStays DEF LoadReceipt, Inside, Stop
    <2>3. CASE Goto(p, "cancel_draft") /\ mem' = mem
      <3>1. Fits(p, mem[p], "cancel_draft")
        BY <2>1 DEF Fits
      <3> QED BY <2>1, <2>2, <2>3, <3>1, InsideStays DEF LockedSteps
    <2>4. CASE /\ ReceiptStatusOf(id) \in Accepted /\ Goto(p, "cancel_delete")
               /\ Remember(p, [mem[p] EXCEPT !.receipt = receipts[id]])
      <3> DEFINE c == [mem[p] EXCEPT !.receipt = receipts[id]]
      <3>1. receipts[id] \in Receipt
        BY <1>0, <2>1, <2>4 DEF WorldOK, ReceiptStatusOf, Accepted
      <3>2. c \in Call /\ c.receipt = receipts[id] /\ c.id = id
        BY <1>0, <3>1 DEF Call
      <3>3. Remember(p, c)
        BY <2>4
      <3> HIDE DEF c
      <3>4. Fits(p, c, "cancel_delete")
        BY <2>1, <3>1, <3>2 DEF Fits
      <3> QED BY <2>1, <2>2, <2>4, <3>2, <3>3, <3>4, InsideMoves DEF LockedSteps
    <2>5. CASE Stop(p)
      BY <1>2, <2>5, StopTypes DEF LoadReceipt, LockedSteps
    <2> QED BY <1>2, <2>3, <2>4, <2>5 DEF LoadReceipt
  <1>3. CASE CancelDelete(p)
    <2>1. id \in Drafts /\ mem[p].receipt \in Receipt /\ pc[p] = "cancel_delete"
          /\ UNCHANGED <<lockVars, cfg, bounds>>
      BY <1>0, <1>3 DEF CancelDelete, Inside, Fits
    <2>2. CASE Stop(p)
      BY <1>3, <2>2, StopTypes DEF CancelDelete, LockedSteps
    <2>3. CASE ~Stop(p)
      <3> DEFINE s == mem[p].receipt.salt
                 x == [orders[s] EXCEPT !.state = "cancelled"]
      <3>1. /\ orders[s] # None /\ orders' = [orders EXCEPT ![s].state = "cancelled"]
            /\ Goto(p, "cancel_receipt") \/ Goto(p, "return")
            /\ UNCHANGED <<store, mem>>
        BY <1>3, <2>3 DEF CancelDelete
      <3>2. orders[s] \in Sent /\ s \in Salts
        BY <1>0, <2>1, <3>1 DEF WorldOK, Receipt
      <3>3. x \in Sent
        BY <3>2 DEF Sent
      <3>4. orders' = [orders EXCEPT ![s] = x]
        BY <3>1
      <3> HIDE DEF x
      <3>5. orders' \in [Salts -> Sent \cup {None}]
        BY <1>0, <3>2, <3>3, <3>4 DEF WorldOK
      <3>6. WorldOK'
        BY <1>0, <2>1, <3>1, <3>5 DEF WorldOK, LockTypeOK, lockVars, bounds, store
      <3>7. Fits(p, mem[p], "cancel_receipt") /\ Fits(p, mem[p], "return")
        BY <2>1 DEF Fits
      <3> QED BY <2>1, <3>1, <3>6, <3>7, InsideStays DEF LockedSteps
    <2> QED BY <2>2, <2>3
  <1>4. CASE CancelReceipt(p)
    <2> DEFINE r == [mem[p].receipt EXCEPT !.status = "cancelled"]
    <2>1. Fits(p, mem[p], "cancel_draft") /\ id \in Drafts /\ mem[p].receipt \in Receipt
      BY <1>0, <1>4 DEF CancelReceipt, Inside, Fits
    <2>2. r \in Receipt
      BY <2>1 DEF Receipt
    <2>3. receipts' = [receipts EXCEPT ![id] = r]
      BY <1>4 DEF CancelReceipt
    <2> HIDE DEF r
    <2>4. WorldOK'
      BY <1>0, <1>4, <2>1, <2>2, <2>3
         DEF CancelReceipt, Inside, WorldOK, LockTypeOK, lockVars, bounds
    <2> QED BY <1>4, <2>1, <2>4, InsideStays DEF CancelReceipt, Inside, LockedSteps
  <1>5. CASE CancelDraft(p)
    <2> DEFINE x == [drafts[id] EXCEPT !.status = "cancelled"]
    <2>1. Fits(p, mem[p], "return") /\ id \in Drafts
      BY <1>0, <1>5 DEF CancelDraft, Inside, Fits
    <2>2. drafts' \in [Drafts -> Draft \cup {None}]
      <3>1. CASE drafts[id] = None
        BY <1>0, <1>5, <3>1 DEF CancelDraft, WorldOK
      <3>2. CASE drafts[id] # None
        <4>1. x \in Draft
          BY <1>0, <2>1, <3>2 DEF WorldOK, Draft, DraftStatus
        <4>2. drafts' = [drafts EXCEPT ![id] = x]
          BY <1>5, <3>2 DEF CancelDraft
        <4> HIDE DEF x
        <4> QED BY <1>0, <2>1, <4>1, <4>2 DEF WorldOK
      <3> QED BY <3>1, <3>2
    <2>3. WorldOK'
      BY <1>0, <1>5, <2>2 DEF CancelDraft, Inside, WorldOK, LockTypeOK, lockVars, bounds
    <2> QED BY <1>5, <2>1, <2>3, InsideStays DEF CancelDraft, Inside, LockedSteps
  <1>6. CASE CancelDiscovered(p)
    BY <1>6, EnterTypes DEF CancelDiscovered, LockedSteps
  <1>7. CASE CancelOpen(p)
    <2>1. Fits(p, mem[p], "return")
      BY DEF Fits
    <2>2. orders' \in [Salts -> Sent \cup {None}]
      <3>1. CASE orders' = orders
        BY <1>0, <3>1 DEF WorldOK
      <3>2. ASSUME NEW s \in Salts, orders[s] # None,
                   orders' = [orders EXCEPT ![s].state = "cancelled"]
            PROVE  orders' \in [Salts -> Sent \cup {None}]
        <4> DEFINE x == [orders[s] EXCEPT !.state = "cancelled"]
        <4>1. x \in Sent
          BY <1>0, <3>2 DEF WorldOK, Sent
        <4>2. orders' = [orders EXCEPT ![s] = x]
          BY <3>2
        <4> HIDE DEF x
        <4> QED BY <1>0, <4>1, <4>2 DEF WorldOK
      <3> QED BY <1>7, <3>1, <3>2 DEF CancelOpen
    <2>3. WorldOK'
      BY <1>0, <1>7, <2>2 DEF CancelOpen, Inside, WorldOK, LockTypeOK, lockVars, bounds, store
    <2> QED BY <1>7, <2>1, <2>3, InsideStays DEF CancelOpen, Inside, LockedSteps
  <1> QED BY <1>1, <1>2, <1>3, <1>4, <1>5, <1>6, <1>7 DEF Cancelling

(* Creating a draft, outside the lock.                                     *)
LEMMA CreatingTypes ==
  ASSUME TypeInv, NEW p \in Procs, Creating(p)
  PROVE  TypeInv'
  <1> USE DEF NeedsDraft, NeedsReview, NeedsOrder, NeedsReceipt, NeedsAnswer,
              RevisingSteps, PostingSteps, RecordingSteps, CreateSteps
  <1> DEFINE id == mem[p].id
  <1>0. /\ mem[p] \in Call /\ CallOK(p) /\ Fits(p, mem[p], pc[p])
        /\ WorldOK /\ pc \in [Procs -> AnyStep] /\ mem \in [Procs -> Call]
    BY TypeInvParts DEF CallOK
  <1>1. CASE Create(p)
    <2> DEFINE draft(kind, q) == [kind |-> kind, quote |-> q, status |-> "review", salt |-> None]
               review(q) == [quote |-> q, warn |-> FALSE, staged |-> FALSE, ack |-> "unset"]
               c(kind, q, n) == [Fresh(n, "no") EXCEPT !.draft = draft(kind, q),
                                                       !.review = review(q)]
    <2>1. PICK kind \in Kinds, q \in Quotes, n \in NextIds : Remember(p, c(kind, q, n))
      BY <1>1 DEF Create
    <2>2. n \in Drafts
      BY DEF NextIds
    <2>3. draft(kind, q) \in Draft
      BY DEF Draft, DraftStatus, OpenStatus
    <2>4. review(q) \in Review
      BY DEF Review
    <2>5. Fresh(n, "no") \in Call /\ Fresh(n, "no").id = n
      BY <2>2 DEF Fresh, Call, Answers, Drafts
    <2>6. /\ c(kind, q, n) \in Call /\ c(kind, q, n).id = n
          /\ c(kind, q, n).draft = draft(kind, q) /\ c(kind, q, n).review = review(q)
      BY <2>3, <2>4, <2>5 DEF Call
    <2> HIDE DEF draft, review, c
    <2>7. Fits(p, c(kind, q, n), "create_draft")
      BY <1>1, <2>2, <2>3, <2>4, <2>6 DEF Fits, Create
    <2>8. /\ WorldOK' /\ Goto(p, "create_draft") /\ inside' = inside /\ p \notin inside
      BY <1>0, <1>1 DEF Create, WorldOK, LockTypeOK, lockVars, store, CallOK, LockedSteps
    <2>9. inside' = inside \ {p} /\ "create_draft" \notin LockedSteps
      BY <2>8 DEF LockedSteps
    <2> QED BY <2>1, <2>6, <2>7, <2>8, <2>9, CallMoves DEF AnyStep
  <1>2. CASE CreateDraft(p)
    <2>1. /\ p \in Creators /\ id \in Drafts /\ mem[p].draft \in Draft
          /\ mem[p].review \in Review /\ pc[p] = "create_draft"
      BY <1>0, <1>2 DEF CreateDraft, Inside, Fits
    <2>2. Fits(p, mem[p], "create_review") /\ Remember(p, mem[p])
      BY <1>0, <1>2, <2>1 DEF Fits, CreateDraft, Remember
    <2>3. WorldOK'
      BY <1>0, <1>2, <2>1 DEF CreateDraft, Inside, WorldOK, LockTypeOK, lockVars, bounds
    <2>4. inside' = inside \ {p} /\ Goto(p, "create_review") /\ "create_review" \notin LockedSteps
      BY <1>0, <1>2, <2>1 DEF CreateDraft, Inside, lockVars, CallOK, LockedSteps
    <2> QED BY <1>0, <2>2, <2>3, <2>4, CallMoves DEF AnyStep
  <1>3. CASE CreateReview(p)
    <2>1. id \in Drafts /\ mem[p].review \in Review /\ pc[p] = "create_review"
      BY <1>0, <1>3 DEF CreateReview, Inside, Fits
    <2>2. WorldOK'
      BY <1>0, <1>3, <2>1 DEF CreateReview, Inside, WorldOK, LockTypeOK, lockVars, bounds
    <2>3. /\ inside' = inside \ {p} /\ Goto(p, "idle") /\ Remember(p, NoCall)
          /\ "idle" \notin LockedSteps
      BY <1>0, <1>3, <2>1 DEF CreateReview, Inside, lockVars, CallOK, LockedSteps
    <2> QED BY <2>2, <2>3, NoCallIdle, CallMoves DEF AnyStep
  <1> QED BY <1>1, <1>2, <1>3 DEF Creating

(* A failed host call, a kill.                                             *)
LEMMA FaultTypes ==
  ASSUME TypeInv, NEW p \in Procs, HostCallFails(p) \/ Kill(p)
  PROVE  TypeInv'
  <1>0. /\ mem[p] \in Call /\ CallOK(p) /\ Fits(p, mem[p], pc[p])
        /\ WorldOK /\ pc \in [Procs -> AnyStep] /\ mem \in [Procs -> Call]
    BY TypeInvParts DEF CallOK
  <1>1. "idle" \in AnyStep \ LockedSteps /\ "return" \in LockedSteps /\ LockedSteps \subseteq AnyStep
        /\ CreateSteps \cap LockedSteps = {}
    BY DEF AnyStep, LockedSteps, CreateSteps
  <1>2. CASE HostCallFails(p)
    <2>1. WorldOK' /\ UNCHANGED lockVars
      BY <1>0, <1>2 DEF HostCallFails, WorldOK, LockTypeOK, lockVars, store
    <2>2. CASE pc[p] \in BestEffort /\ Goto(p, After(pc[p], mem[p].answer)) /\ mem' = mem
      <3>1. pc[p] \in NeedsAnswer /\ pc[p] \in LockedSteps
        BY <2>2 DEF BestEffort, NeedsAnswer, RecordingSteps, LockedSteps
      <3> QED BY <1>0, <2>1, <2>2, <3>1, AfterFits, InsideStays
    <2>3. CASE pc[p] \in LockedSteps \ BestEffort /\ Goto(p, "return") /\ mem' = mem
      <3>1. Fits(p, mem[p], "return")
        BY DEF Fits, NeedsDraft, NeedsReview, NeedsOrder, NeedsReceipt, NeedsAnswer,
               RevisingSteps, PostingSteps, RecordingSteps, CreateSteps
      <3> QED BY <1>1, <2>1, <2>3, <3>1, InsideStays
    <2>4. CASE pc[p] \in CreateSteps /\ Goto(p, "idle") /\ Remember(p, NoCall)
      <3>1. inside' = inside \ {p}
        BY <1>0, <1>1, <2>1, <2>4 DEF CallOK, lockVars
      <3> QED BY <1>1, <2>1, <2>4, <3>1, NoCallIdle, CallMoves
    <2> QED BY <1>2, <2>2, <2>3, <2>4 DEF HostCallFails
  <1>3. CASE Kill(p)
    <2>1. WorldOK'
      BY <1>0, <1>3 DEF Kill, Die, WorldOK, LockTypeOK, Owners, lockVars, store
    <2>2. inside' = inside \ {p}
      BY <1>0, <1>1, <1>3 DEF Kill, Die, CallOK, lockVars
    <2>3. Goto(p, "idle") /\ Remember(p, NoCall)
      BY <1>3 DEF Kill
    <2> QED BY <1>1, <2>1, <2>2, <2>3, NoCallIdle, CallMoves
  <1> QED BY <1>2, <1>3

(* The venue, the owner and the stale lock move no call.                   *)
LEMMA OthersTypes ==
  ASSUME TypeInv,
         \/ \E s \in Salts : VenueActs(s)
         \/ WriteVenueConfig \/ BreakStaleLock \/ UNCHANGED vars
  PROVE  TypeInv'
  <1>0. WorldOK /\ pc \in [Procs -> AnyStep] /\ mem \in [Procs -> Call]
    BY TypeInvParts
  <1>1. pc' = pc /\ mem' = mem /\ inside' = inside
    BY DEF VenueActs, WriteVenueConfig, BreakStaleLock, Reap, Evict, vars, lockVars
  <1>2. \A p \in Procs : CallOK(p)'
    BY <1>1, TypeInvParts DEF CallOK, Fits
  <1>3. WorldOK'
    <2>1. CASE \E s \in Salts : VenueActs(s)
      <3>1. PICK s \in Salts : VenueActs(s)
        BY <2>1
      <3>2. PICK state \in {"live", "matched", "killed"} :
              orders[s] # None /\ orders' = [orders EXCEPT ![s].state = state]
        BY <3>1 DEF VenueActs, Fates
      <3> DEFINE x == [orders[s] EXCEPT !.state = state]
      <3>3. x \in Sent
        BY <1>0, <3>2 DEF WorldOK, Sent
      <3>4. orders' = [orders EXCEPT ![s] = x]
        BY <3>2
      <3> HIDE DEF x
      <3>5. orders' \in [Salts -> Sent \cup {None}]
        BY <1>0, <3>3, <3>4 DEF WorldOK
      <3> QED BY <1>0, <3>1, <3>5 DEF VenueActs, WorldOK, LockTypeOK, lockVars, store, bounds
    <2>2. CASE WriteVenueConfig
      BY <1>0, <2>2 DEF WriteVenueConfig, WorldOK, LockTypeOK, lockVars, store
    <2>3. CASE BreakStaleLock
      BY <1>0, <2>3 DEF BreakStaleLock, Reap, Evict, WorldOK, LockTypeOK, Owners, store, bounds
    <2>4. CASE UNCHANGED vars
      BY <1>0, <2>4 DEF vars, WorldOK, LockTypeOK, lockVars, store, bounds
    <2> QED BY <2>1, <2>2, <2>3, <2>4
  <1> QED BY <1>0, <1>1, <1>2, <1>3, TypeInvParts DEF TypeInv, TypeOK, WorldOK, AnyStep

(* TypeInv holds at first, and every step keeps it.                        *)
LEMMA InitTypes == Init => TypeInv
  <1> SUFFICES ASSUME Init PROVE TypeInv
    OBVIOUS
  <1>1. WorldOK
    BY DEF Init, LockInit, WorldOK, LockTypeOK, Owners
  <1>2. pc \in [Procs -> AnyStep] /\ mem \in [Procs -> Call]
    BY NoCallIdle DEF Init, AnyStep
  <1>3. \A p \in Procs : CallOK(p)
    BY NoCallIdle DEF Init, LockInit, CallOK, LockedSteps
  <1> QED BY <1>1, <1>2, <1>3, TypeInvParts

(* Every step keeps TypeInv.                                               *)
LEMMA StepTypes == TypeInv /\ [Next]_vars => TypeInv'
  <1> SUFFICES ASSUME TypeInv, [Next]_vars PROVE TypeInv'
    OBVIOUS
  <1> QED BY RevalidatingTypes, PostingTypes, RecordingTypes, CancellingTypes, CreatingTypes,
             ReturnTypes, FaultTypes, OthersTypes DEF Next

(* Whatever is interrupted, in whatever order, every file of the store and *)
(* every call keeps its type; with it, a call inside the lock remembers    *)
(* the draft, review, order and answer its next step writes.               *)
THEOREM TradeFlowTypes == Spec => []TypeOK
  <1>1. Spec => []TypeInv
    BY InitTypes, StepTypes, PTL DEF Spec
  <1>2. TypeInv => TypeOK
    BY DEF TypeInv
  <1> QED BY <1>1, <1>2, PTL

-----------------------------------------------------------------------------
(* What the types are needed for.                                          *)


(* All that one invocation does.                                           *)
Moves(p) ==
  \/ Revalidating(p) \/ Posting(p) \/ Recording(p)
  \/ Cancelling(p) \/ Creating(p)
  \/ Return(p) \/ HostCallFails(p) \/ Kill(p)

Others ==
  \/ \E s \in Salts : VenueActs(s)
  \/ WriteVenueConfig
  \/ BreakStaleLock
  \/ UNCHANGED vars

(* Every step is one invocation's, or moves none.                          *)
LEMMA NextIsMoves ==
  ASSUME [Next]_vars
  PROVE  Others \/ \E p \in Procs : Moves(p)
  BY DEF Next, Moves, Others

(* A lock step of TradeFlow is one of WalletLock.                          *)
LEMMA LockMoves ==
  ASSUME [Next]_vars
  PROVE  \/ Reap \/ Evict
         \/ \E p \in Procs : Take(p) \/ Free(p) \/ Die(p)
         \/ UNCHANGED lockVars
  <1>1. CASE Others
    BY <1>1 DEF Others, VenueActs, WriteVenueConfig, BreakStaleLock, vars, lockVars
  <1>2. ASSUME NEW p \in Procs, Moves(p)
        PROVE  Take(p) \/ Free(p) \/ Die(p) \/ UNCHANGED lockVars
    <2> USE DEF Inside, Answering, Enter
    <2>1. CASE Revalidating(p)
      BY <2>1 DEF Revalidating, Revalidate, LoadForRevalidate, ClearPrepared,
           ClearApproval, ClearAttempt, ReviseLive, LiveReadFails, Preflight,
           DropReview, StageReview, StoreDraft
    <2>2. CASE Posting(p)
      BY <2>2 DEF Posting, Post, LoadForPost, CheckDenies, CheckPasses, CheckRefuses,
           Acknowledge, Prepare, Bind, PreparedAttempt, Sign, SignedAttempt,
           SignedDraft, Send
    <2>3. CASE Recording(p)
      BY <2>3 DEF Recording, Reconcile, ReconcileAttempt, Audit, WriteReceipt,
           DropPrepared, DropApproval, AnswerDraft, AnswerAttempt
    <2>4. CASE Cancelling(p)
      BY <2>4 DEF Cancelling, Cancel, LoadReceipt, CancelDelete, CancelReceipt,
           CancelDraft, CancelDiscovered, CancelOpen
    <2>5. CASE Creating(p)
      BY <2>5 DEF Creating, Create, CreateDraft, CreateReview
    <2>6. CASE Return(p)
      BY <2>6 DEF Return
    <2>7. CASE HostCallFails(p) \/ Kill(p)
      BY <2>7 DEF HostCallFails, Kill
    <2> QED BY <1>2, <2>1, <2>2, <2>3, <2>4, <2>5, <2>6, <2>7 DEF Moves
  <1> QED BY <1>1, <1>2, NextIsMoves

-----------------------------------------------------------------------------
(* What a step may do to the other calls and to the orders.                *)

Elsewhere(p) ==
  \A q \in Procs \ {p} : mem'[q] = mem[q] /\ pc'[q] = pc[q]

(* An invocation moves itself only.                                        *)
LEMMA MovesAlone ==
  ASSUME TypeInv, NEW p \in Procs, Moves(p)
  PROVE  Elsewhere(p)
  <1>0. mem \in [Procs -> Call] /\ pc \in [Procs -> AnyStep]
    BY TypeInvParts
  <1>1. /\ mem' = mem \/ \E c : mem' = [mem EXCEPT ![p] = c]
        /\ \E step : pc' = [pc EXCEPT ![p] = step]
    <2> USE DEF Answering, Enter, Stop, Goto, Remember
    <2>1. CASE Revalidating(p)
      BY <2>1 DEF Revalidating, Revalidate, LoadForRevalidate, ClearPrepared,
           ClearApproval, ClearAttempt, ReviseLive, LiveReadFails, Preflight,
           DropReview, StageReview, StoreDraft
    <2>2. CASE Posting(p)
      BY <2>2 DEF Posting, Post, LoadForPost, CheckDenies, CheckPasses, CheckRefuses,
           Acknowledge, Prepare, Bind, PreparedAttempt, Sign, SignedAttempt,
           SignedDraft, Send
    <2>3. CASE Recording(p)
      BY <2>3 DEF Recording, Reconcile, ReconcileAttempt, Audit, WriteReceipt,
           DropPrepared, DropApproval, AnswerDraft, AnswerAttempt
    <2>4. CASE Cancelling(p)
      BY <2>4 DEF Cancelling, Cancel, LoadReceipt, CancelDelete, CancelReceipt,
           CancelDraft, CancelDiscovered, CancelOpen
    <2>5. CASE Creating(p)
      BY <2>5 DEF Creating, Create, CreateDraft, CreateReview
    <2>6. CASE Return(p)
      BY <2>6 DEF Return
    <2>7. CASE HostCallFails(p) \/ Kill(p)
      BY <2>7 DEF HostCallFails, Kill
    <2> QED BY <2>1, <2>2, <2>3, <2>4, <2>5, <2>6, <2>7 DEF Moves
  <1> QED BY <1>0, <1>1 DEF Elsewhere

OrdersAge ==
  \A s \in Salts :
    orders'[s] # None =>
      /\ orders[s] # None
      /\ orders'[s].draft = orders[s].draft
      /\ orders'[s].quote = orders[s].quote
      /\ orders'[s].review = orders[s].review

(* Only Send adds an order; whatever else happens to one, it stays for its *)
(* draft, at its quote, as it was reviewed.                                *)
LEMMA OnlySendAdds ==
  ASSUME TypeInv, [Next]_vars, \A p \in Procs : ~Send(p)
  PROVE  OrdersAge
  <1>0. orders \in [Salts -> Sent \cup {None}]
    BY TypeInvParts DEF WorldOK
  <1>1. CASE orders' = orders
    BY <1>1 DEF OrdersAge
  <1>2. ASSUME NEW s \in Salts, NEW state,
               orders[s] # None, orders' = [orders EXCEPT ![s].state = state]
        PROVE  OrdersAge
    <2>1. /\ orders[s] \in Sent
          /\ orders' = [orders EXCEPT ![s] = [orders[s] EXCEPT !.state = state]]
      BY <1>0, <1>2
    <2>2. \A t \in Salts : t # s => orders'[t] = orders[t]
      BY <1>0, <2>1
    <2>3. orders'[s] = [orders[s] EXCEPT !.state = state]
      BY <1>0, <2>1
    <2>4. /\ orders'[s].draft = orders[s].draft /\ orders'[s].quote = orders[s].quote
          /\ orders'[s].review = orders[s].review
      BY <2>1, <2>3 DEF Sent
    <2> QED BY <1>2, <2>2, <2>4 DEF OrdersAge
  <1>3. CASE Others
    BY <1>1, <1>2, <1>3 DEF Others, VenueActs, WriteVenueConfig, BreakStaleLock, vars
  <1>4. ASSUME NEW p \in Procs, Moves(p)
        PROVE  OrdersAge
    <2> USE DEF Answering, Enter, Stop
    <2>1. CASE Revalidating(p)
      BY <1>1, <2>1 DEF Revalidating, Revalidate, LoadForRevalidate, ClearPrepared,
           ClearApproval, ClearAttempt, ReviseLive, LiveReadFails, Preflight,
           DropReview, StageReview, StoreDraft
    <2>2. CASE Posting(p)
      BY <1>1, <2>2 DEF Posting, Post, LoadForPost, CheckDenies, CheckPasses, CheckRefuses,
           Acknowledge, Prepare, Bind, PreparedAttempt, Sign, SignedAttempt,
           SignedDraft
    <2>3. CASE Recording(p)
      BY <1>1, <2>3 DEF Recording, Reconcile, ReconcileAttempt, Audit, WriteReceipt,
           DropPrepared, DropApproval, AnswerDraft, AnswerAttempt
    <2>4. CASE CancelDelete(p)
      <3> DEFINE s == mem[p].receipt.salt
      <3>1. CASE orders[s] # None /\ orders' = [orders EXCEPT ![s].state = "cancelled"]
        <4>1. s \in Salts
          <5>1. mem[p].receipt \in Receipt
            BY <2>4, TypeInvParts DEF CancelDelete, Inside, CallOK, Fits, NeedsReceipt
          <5> QED BY <5>1 DEF Receipt
        <4> QED BY <1>2, <3>1, <4>1
      <3> QED BY <1>1, <2>4, <3>1 DEF CancelDelete
    <2>5. CASE CancelOpen(p)
      BY <1>1, <1>2, <2>5 DEF CancelOpen
    <2>6. CASE Cancelling(p) /\ ~CancelDelete(p) /\ ~CancelOpen(p)
      BY <1>1, <2>6 DEF Cancelling, Cancel, LoadReceipt, CancelReceipt,
           CancelDraft, CancelDiscovered
    <2>7. CASE Creating(p)
      BY <1>1, <2>7 DEF Creating, Create, CreateDraft, CreateReview
    <2>8. CASE Return(p) \/ HostCallFails(p) \/ Kill(p)
      BY <1>1, <2>8 DEF Return, HostCallFails, Kill
    <2> QED BY <1>4, <2>1, <2>2, <2>3, <2>4, <2>5, <2>6, <2>7, <2>8 DEF Moves
  <1> QED BY <1>3, <1>4, NextIsMoves

-----------------------------------------------------------------------------
(* What is sent was reviewed.                                              *)

Agreed(review) == review.staged /\ (review.warn => review.ack = "yes")

ReviewSteps ==
  {"acknowledge", "prepare", "bind", "prepared_attempt", "sign", "signed_attempt",
   "signed_draft", "send"}

(* What a post carries from its check to POST /order.                      *)
Carries(call, step) ==
  /\ step \in ReviewSteps => Agreed(call.review)
  /\ step \in {"acknowledge", "prepare"} => call.draft.quote = call.review.quote
  /\ step = "bind" => call.order.quote = call.order.review.quote
  /\ step \in ReviewSteps \ {"acknowledge", "prepare", "bind"} =>
       call.order.quote = call.review.quote

PreparedOK ==
  \A d \in Drafts : prepared[d] # None => prepared[d].quote = prepared[d].review.quote

(* ReviewedAsSent, with what it takes to keep it: a prepared order costs   *)
(* what the review it hashes says, whoever prepared it.                    *)
ReviewInv ==
  /\ PreparedOK
  /\ ReviewedAsSent
  /\ \A p \in Procs : Carries(mem[p], pc[p])

PreparedKept == \A d \in Drafts : prepared'[d] \in {prepared[d], None}

(* A step that leads to none of the review steps has nothing to carry.     *)
LEMMA NothingCarried ==
  ASSUME ReviewInv, NEW p \in Procs, Elsewhere(p), pc'[p] \notin ReviewSteps
  PROVE  \A q \in Procs : Carries(mem[q], pc[q])'
  BY DEF ReviewInv, Elsewhere, Carries, ReviewSteps

(* Orders that only age stay reviewed.                                     *)
LEMMA AgedStaysReviewed ==
  ASSUME TypeInv, ReviewInv, OrdersAge
  PROVE  ReviewedAsSent'
  BY DEF ReviewInv, ReviewedAsSent, OrdersAge

(* Dropping a prepared order keeps the others as reviewed.                 *)
LEMMA KeptStaysOK ==
  ASSUME ReviewInv, PreparedKept
  PROVE  PreparedOK'
  BY DEF ReviewInv, PreparedOK, PreparedKept

Carrying(p) ==
  \/ CheckPasses(p) \/ Acknowledge(p) \/ Prepare(p) \/ Bind(p)
  \/ PreparedAttempt(p) \/ Sign(p) \/ SignedAttempt(p) \/ SignedDraft(p) \/ Send(p)

(* Every other step leads away from the review steps, and at most drops a  *)
(* prepared order.                                                         *)
LEMMA OtherMovesDropOnly ==
  ASSUME TypeInv, NEW p \in Procs, Moves(p), ~Carrying(p)
  PROVE  pc'[p] \notin ReviewSteps /\ PreparedKept
  <1>0. /\ prepared \in [Drafts -> Order \cup {None}]
        /\ pc \in [Procs -> AnyStep]
    BY TypeInvParts DEF WorldOK
  <1>1. prepared' = prepared \/ \E d : prepared' = [prepared EXCEPT ![d] = None]
    <2> USE DEF Answering, Enter, Stop, store
    <2>1. CASE Revalidating(p)
      BY <2>1 DEF Revalidating, Revalidate, LoadForRevalidate, ClearPrepared,
           ClearApproval, ClearAttempt, ReviseLive, LiveReadFails, Preflight,
           DropReview, StageReview, StoreDraft
    <2>2. CASE Posting(p)
      BY <2>2 DEF Carrying, Posting, Post, LoadForPost, CheckDenies, CheckRefuses
    <2>3. CASE Recording(p)
      BY <2>3 DEF Recording, Reconcile, ReconcileAttempt, Audit, WriteReceipt,
           DropPrepared, DropApproval, AnswerDraft, AnswerAttempt
    <2>4. CASE Cancelling(p)
      BY <2>4 DEF Cancelling, Cancel, LoadReceipt, CancelDelete, CancelReceipt,
           CancelDraft, CancelDiscovered, CancelOpen
    <2>5. CASE Creating(p)
      BY <2>5 DEF Creating, Create, CreateDraft, CreateReview
    <2>6. CASE Return(p) \/ HostCallFails(p) \/ Kill(p)
      BY <2>6 DEF Return, HostCallFails, Kill
    <2> QED BY <2>1, <2>2, <2>3, <2>4, <2>5, <2>6 DEF Moves
  <1>2. PICK step : Goto(p, step) /\ step \notin ReviewSteps
    <2> USE DEF Answering, Enter, Stop, ReviewSteps
    <2>1. CASE Revalidating(p)
      <3>1. CASE ReviseLive(p)
        <4>1. \E step \in {"drop_review", "stage_review", "preflight"} : Goto(p, step)
          BY <3>1 DEF ReviseLive
        <4> QED BY <4>1
      <3> QED BY <2>1, <3>1 DEF Revalidating, Revalidate, LoadForRevalidate, ClearPrepared,
                   ClearApproval, ClearAttempt, LiveReadFails, Preflight,
                   DropReview, StageReview, StoreDraft
    <2>2. CASE Posting(p)
      <3>1. Goto(p, "post") \/ Goto(p, "check") \/ Goto(p, "drop_review") \/ Goto(p, "return")
        BY <2>2 DEF Carrying, Posting, Post, LoadForPost, CheckDenies, CheckRefuses
      <3> QED BY <3>1
    <2>3. CASE Recording(p) \/ HostCallFails(p)
      <3>1. \A s, answer : After(s, answer) \notin ReviewSteps
        BY DEF After
      <3> QED BY <2>3, <3>1 DEF Recording, Reconcile, ReconcileAttempt, Audit, WriteReceipt,
                   DropPrepared, DropApproval, AnswerDraft, AnswerAttempt, HostCallFails
    <2>4. CASE Cancelling(p)
      BY <2>4 DEF Cancelling, Cancel, LoadReceipt, CancelDelete, CancelReceipt,
           CancelDraft, CancelDiscovered, CancelOpen
    <2>5. CASE Creating(p)
      <3>1. Goto(p, "create_draft") \/ Goto(p, "create_review") \/ Goto(p, "idle")
        BY <2>5 DEF Creating, Create, CreateDraft, CreateReview
      <3> QED BY <3>1
    <2>6. CASE Return(p) \/ Kill(p)
      BY <2>6 DEF Return, Kill
    <2> QED BY <2>1, <2>2, <2>3, <2>4, <2>5, <2>6 DEF Moves
  <1> QED BY <1>0, <1>1, <1>2 DEF PreparedKept, Goto

(* The steps from the check to the POST: each carries what the next needs. *)
LEMMA CarryingKeeps ==
  ASSUME TypeInv, ReviewInv, NEW p \in Procs, Moves(p), Carrying(p)
  PROVE  ReviewInv'
  <1> DEFINE id == mem[p].id
             call == mem[p]
  <1>0. /\ prepared \in [Drafts -> Order \cup {None}]
        /\ reviews \in [Drafts -> Review \cup {None}]
        /\ orders \in [Salts -> Sent \cup {None}]
        /\ pc \in [Procs -> AnyStep] /\ mem \in [Procs -> Call] /\ mem[p] \in Call
        /\ Fits(p, mem[p], pc[p]) /\ Carries(mem[p], pc[p])
    BY TypeInvParts DEF WorldOK, CallOK, ReviewInv
  <1>1. ASSUME Carries(mem'[p], pc'[p])
        PROVE  \A q \in Procs : Carries(mem[q], pc[q])'
    BY <1>1, MovesAlone DEF Elsewhere, ReviewInv, Carries
  <1>2. CASE CheckPasses(p)
    <2> DEFINE review == reviews[id]
               c == [call EXCEPT !.draft.quote = review.quote,
                                 !.review = [review EXCEPT !.ack = call.ack],
                                 !.cap = cfg.max_daily]
    <2>1. /\ mem' = [mem EXCEPT ![p] = c] /\ pc' = [pc EXCEPT ![p] = "acknowledge"]
          /\ review # None /\ review.staged /\ (review.warn => call.ack = "yes")
          /\ prepared' = prepared /\ orders' = orders /\ pc[p] = "check"
      BY <1>2 DEF CheckPasses, Goto, Remember, Inside, store
    <2>2. review \in Review /\ call.draft \in Draft
      BY <1>0, <2>1 DEF Fits, NeedsDraft, PostingSteps
    <2>3. /\ c.review = [review EXCEPT !.ack = call.ack]
          /\ c.draft = [call.draft EXCEPT !.quote = review.quote]
      BY <1>0 DEF Call
    <2>4. c.draft.quote = review.quote
      BY <2>2, <2>3 DEF Draft
    <2>5. /\ c.review.quote = review.quote /\ c.review.warn = review.warn
          /\ c.review.staged = review.staged /\ c.review.ack = call.ack
      BY <2>2, <2>3 DEF Review
    <2> HIDE DEF c
    <2>6. mem'[p] = c /\ pc'[p] = "acknowledge"
      BY <1>0, <2>1
    <2>7. Agreed(c.review)
      BY <2>1, <2>5 DEF Agreed
    <2>8. Carries(mem'[p], pc'[p])
      BY <2>4, <2>5, <2>6, <2>7 DEF Carries
    <2> QED BY <1>1, <2>1, <2>8 DEF ReviewInv, PreparedOK, ReviewedAsSent
  <1>3. CASE Acknowledge(p)
    <2>1. /\ mem' = mem /\ pc[p] = "acknowledge" /\ pc'[p] = "prepare"
          /\ prepared' = prepared /\ orders' = orders
      BY <1>0, <1>3 DEF Acknowledge, Goto, Inside
    <2>2. Carries(mem'[p], pc'[p])
      BY <1>0, <2>1 DEF Carries, ReviewSteps
    <2> QED BY <1>1, <2>1, <2>2 DEF ReviewInv, PreparedOK, ReviewedAsSent
  <1>4. CASE Prepare(p)
    <2> DEFINE c(o) == [call EXCEPT !.order = o]
               fresh(s) == [salt |-> s, quote |-> call.draft.quote, review |-> call.review]
    <2>1. /\ pc[p] = "prepare" /\ pc'[p] = "bind" /\ orders' = orders
          /\ id \in Drafts
      BY <1>0, <1>4 DEF Prepare, Goto, Inside, Fits
    <2>2. Agreed(call.review) /\ call.draft.quote = call.review.quote
      BY <1>0, <2>1 DEF Carries, ReviewSteps
    <2>3. PICK o : /\ mem' = [mem EXCEPT ![p] = c(o)]
                   /\ o.quote = o.review.quote
                   /\ \A d \in Drafts : prepared'[d] = prepared[d] \/ prepared'[d] = o
      <3>1. CASE prepared[id] # None
        <4>1. prepared[id].quote = prepared[id].review.quote
          BY <2>1, <3>1 DEF ReviewInv, PreparedOK
        <4> QED BY <1>4, <3>1, <4>1 DEF Prepare, Remember
      <3>2. CASE prepared[id] = None
        <4>1. PICK s \in Salts : /\ prepared' = [prepared EXCEPT ![id] = fresh(s)]
                                 /\ mem' = [mem EXCEPT ![p] = c(fresh(s))]
          BY <1>4, <3>2 DEF Prepare, Remember
        <4>2. fresh(s).quote = fresh(s).review.quote
          BY <2>2
        <4> HIDE DEF fresh
        <4>3. \A d \in Drafts : prepared'[d] = prepared[d] \/ prepared'[d] = fresh(s)
          BY <1>0, <4>1
        <4> QED BY <4>1, <4>2, <4>3
      <3> QED BY <3>1, <3>2
    <2>4. c(o).order = o /\ c(o).review = call.review
      BY <1>0 DEF Call
    <2> HIDE DEF c
    <2>5. mem'[p] = c(o)
      BY <1>0, <2>3
    <2>6. Carries(mem'[p], pc'[p])
      BY <2>1, <2>2, <2>3, <2>4, <2>5 DEF Carries
    <2>7. PreparedOK'
      BY <2>3 DEF ReviewInv, PreparedOK
    <2> QED BY <1>1, <2>1, <2>6, <2>7 DEF ReviewInv, ReviewedAsSent
  <1>5. CASE Bind(p)
    <2>1. /\ pc[p] = "bind" /\ prepared' = prepared /\ orders' = orders
      BY <1>5 DEF Bind, Inside, Stop, store
    <2>2. Agreed(call.review) /\ call.order.quote = call.order.review.quote
      BY <1>0, <2>1 DEF Carries, ReviewSteps
    <2>3. Carries(mem'[p], pc'[p])
      <3>1. CASE Bound(call.order, call.review)
        <4> DEFINE x == [call.draft EXCEPT !.status = "signing_prepared",
                                           !.salt = call.order.salt]
                   c == [call EXCEPT !.draft = x]
        <4>1. mem'[p] = c /\ pc'[p] = "prepared_attempt"
          BY <1>0, <1>5, <3>1 DEF Bind, Remember, Goto
        <4>2. c.order = call.order /\ c.review = call.review
          BY <1>0 DEF Call
        <4>3. call.order.review = call.review
          BY <3>1 DEF Bound
        <4> HIDE DEF c
        <4> QED BY <2>2, <4>1, <4>2, <4>3 DEF Carries
      <3>2. CASE ~Bound(call.order, call.review)
        <4>1. pc'[p] = "return"
          BY <1>0, <1>5, <3>2 DEF Bind, Stop, Goto
        <4> QED BY <4>1 DEF Carries, ReviewSteps
      <3> QED BY <3>1, <3>2
    <2> QED BY <1>1, <2>1, <2>3 DEF ReviewInv, PreparedOK, ReviewedAsSent
  <1>6. CASE PreparedAttempt(p) \/ Sign(p) \/ SignedAttempt(p)
    <2>1. /\ mem' = mem /\ pc[p] \in {"prepared_attempt", "sign", "signed_attempt"}
          /\ pc'[p] \in {"sign", "signed_attempt", "signed_draft", "return"}
          /\ prepared' = prepared /\ orders' = orders
      BY <1>0, <1>6 DEF PreparedAttempt, Sign, SignedAttempt, Goto, Inside
    <2>2. Carries(mem'[p], pc'[p])
      BY <1>0, <2>1 DEF Carries, ReviewSteps
    <2> QED BY <1>1, <2>1, <2>2 DEF ReviewInv, PreparedOK, ReviewedAsSent
  <1>7. CASE SignedDraft(p)
    <2> DEFINE x == [call.draft EXCEPT !.status = "signed"]
               c == [call EXCEPT !.draft = x]
    <2>1. /\ mem'[p] = c /\ pc[p] = "signed_draft" /\ pc'[p] = "send"
          /\ prepared' = prepared /\ orders' = orders
      BY <1>0, <1>7 DEF SignedDraft, Goto, Remember, Inside
    <2>2. c.order = call.order /\ c.review = call.review
      BY <1>0 DEF Call
    <2> HIDE DEF c
    <2>3. Carries(mem'[p], pc'[p])
      BY <1>0, <2>1, <2>2 DEF Carries, ReviewSteps
    <2> QED BY <1>1, <2>1, <2>3 DEF ReviewInv, PreparedOK, ReviewedAsSent
  <1>8. CASE Send(p)
    <2> DEFINE s == call.order.salt
               sent(state) == [draft |-> id, kind |-> call.draft.kind,
                               quote |-> call.order.quote, review |-> call.review,
                               state |-> state]
    <2>1. /\ pc[p] = "send" /\ prepared' = prepared
          /\ pc'[p] \in {"reconcile", "audit"}
          /\ orders' = orders \/ \E state : orders' = [orders EXCEPT ![s] = sent(state)]
      BY <1>0, <1>8 DEF Send, Inside, Goto, store
    <2>2. Agreed(call.review) /\ call.order.quote = call.review.quote
      BY <1>0, <2>1 DEF Carries, ReviewSteps
    <2>3. ASSUME NEW t \in Salts, orders'[t] # None
          PROVE  /\ orders'[t].quote = orders'[t].review.quote
                 /\ Agreed(orders'[t].review)
      <3>1. CASE orders'[t] = orders[t]
        BY <2>3, <3>1 DEF ReviewInv, ReviewedAsSent, Agreed
      <3>2. CASE orders'[t] # orders[t]
        <4>1. PICK state : orders'[t] = sent(state)
          BY <1>0, <2>1, <3>2
        <4> QED BY <2>2, <4>1
      <3> QED BY <3>1, <3>2
    <2>4. ReviewedAsSent'
      BY <2>3 DEF ReviewedAsSent, Agreed
    <2>5. Carries(mem'[p], pc'[p])
      BY <2>1 DEF Carries, ReviewSteps
    <2> QED BY <1>1, <2>1, <2>4, <2>5 DEF ReviewInv, PreparedOK
  <1> QED BY <1>2, <1>3, <1>4, <1>5, <1>6, <1>7, <1>8 DEF Carrying

(* Send always leaves "send", and no other call moves with it.             *)
LEMMA SendLeaves ==
  ASSUME TypeInv, NEW q \in Procs, Send(q)
  PROVE  pc[q] = "send" /\ pc'[q] # "send"
  <1>1. pc[q] = "send" /\ (Goto(q, "reconcile") \/ Goto(q, "audit"))
    BY DEF Send, Inside
  <1> QED BY <1>1, TypeInvParts DEF Goto

(* Two calls do not send in one step.                                      *)
LEMMA SendsAlone ==
  ASSUME TypeInv, NEW p \in Procs, Moves(p), NEW q \in Procs, Send(q)
  PROVE  q = p
  BY SendLeaves, MovesAlone DEF Elsewhere

(* Every step keeps ReviewInv.                                             *)
LEMMA ReviewStep ==
  ASSUME TypeInv, ReviewInv, [Next]_vars
  PROVE  ReviewInv'
  <1>1. ASSUME NEW p \in Procs, Moves(p)
        PROVE  ReviewInv'
    <2>1. CASE Carrying(p)
      BY <1>1, <2>1, CarryingKeeps
    <2>2. CASE ~Carrying(p)
      <3>1. pc'[p] \notin ReviewSteps /\ PreparedKept /\ Elsewhere(p)
        BY <1>1, <2>2, OtherMovesDropOnly, MovesAlone
      <3>2. \A q \in Procs : ~Send(q)
        BY <1>1, <2>2, SendsAlone DEF Carrying
      <3>3. OrdersAge
        BY <3>2, OnlySendAdds
      <3> QED BY <3>1, <3>3, NothingCarried, AgedStaysReviewed, KeptStaysOK DEF ReviewInv
    <2> QED BY <2>1, <2>2
  <1>2. CASE Others
    <2>1. pc' = pc /\ mem' = mem /\ prepared' = prepared
      BY <1>2 DEF Others, VenueActs, WriteVenueConfig, BreakStaleLock, vars, store
    <2>2. \A q \in Procs : ~Send(q)
      BY <2>1, SendLeaves
    <2>3. OrdersAge
      BY <2>2, OnlySendAdds
    <2> QED BY <2>1, <2>3, AgedStaysReviewed DEF ReviewInv, PreparedOK, Carries
  <1> QED BY <1>1, <1>2, NextIsMoves

(* An order leaves only as its post checked and acknowledged it: at the    *)
(* reviewed cost, warnings acknowledged.  No lock is needed for it, so it  *)
(* holds with slow holders, any creators and failing lists.                *)
THEOREM OrdersAreReviewed == Spec => []ReviewedAsSent
  <1>1. Init => ReviewInv
    BY DEF Init, ReviewInv, PreparedOK, ReviewedAsSent, Carries, ReviewSteps
  <1>2. TypeInv /\ ReviewInv /\ [Next]_vars => TypeInv' /\ ReviewInv'
    BY StepTypes, ReviewStep
  <1>3. ReviewInv => ReviewedAsSent
    BY DEF ReviewInv
  <1> QED BY <1>1, <1>2, <1>3, InitTypes, PTL DEF Spec

-----------------------------------------------------------------------------
(* A draft that looks unsent is unsent, and a draft sends one order.       *)

(* What the runs that violate PlanTellsTruth take away.                    *)
Careful ==
  /\ ~SlowHolders
  /\ ~ListFails
  /\ \A p, q \in Creators : p = q

ClosedStatus == {"signed", "ambiguous", "posted", "rejected", "cancelled"}
OpenSteps == RevisingSteps \cup (PostingSteps \ {"send"})

(* Whoever has an order has a closed draft.                                *)
SentClosed ==
  \A s \in Salts : orders[s] # None => StatusOf(orders[s].draft) \in ClosedStatus

SentApart ==
  \A s, t \in Salts :
    orders[s] # None /\ orders[t] # None /\ orders[s].draft = orders[t].draft => s = t

UnsentFor(d) == \A s \in Salts : orders[s] # None => orders[s].draft # d

(* What a call inside the lock knows of the draft it works on, and a       *)
(* creating one of the id it picked.                                       *)
Knows(p) ==
  /\ pc[p] \in OpenSteps => StatusOf(mem[p].id) \in OpenStatus
  /\ pc[p] = "send" => StatusOf(mem[p].id) = "signed" /\ UnsentFor(mem[p].id)
  /\ pc[p] \in RecordingSteps => StatusOf(mem[p].id) \in ClosedStatus
  /\ pc[p] = "create_draft" => drafts[mem[p].id] = None

TruthInv == SentClosed /\ SentApart /\ \A p \in Procs : Knows(p)

(* No draft that may have been sent is opened again.                       *)
StaysClosed ==
  \A d \in Drafts :
    StatusOf(d) \in ClosedStatus => StatusOf(d)' \in ClosedStatus

(* Without a new order, only a reopened draft could break the truth.       *)
LEMMA AgedStaysTrue ==
  ASSUME TypeInv, TruthInv, OrdersAge, StaysClosed
  PROVE  SentClosed' /\ SentApart' /\ \A d \in Drafts : UnsentFor(d) => UnsentFor(d)'
  <1>1. \A s \in Salts : orders[s] # None => orders[s].draft \in Drafts
    BY TypeInvParts DEF WorldOK, Sent
  <1>2. SentClosed'
    BY <1>1 DEF TruthInv, SentClosed, OrdersAge, StaysClosed
  <1>3. SentApart'
    BY DEF TruthInv, SentApart, OrdersAge
  <1> QED BY <1>2, <1>3 DEF UnsentFor, OrdersAge

(* The six steps that write order.json.                                    *)
Writing(p) ==
  \/ StoreDraft(p) \/ Bind(p) \/ SignedDraft(p) \/ AnswerDraft(p) \/ CancelDraft(p)
  \/ CreateDraft(p)

(* No other step touches order.json.                                       *)
LEMMA OnlyWritingWrites ==
  ASSUME NEW p \in Procs, Moves(p), ~Writing(p)
  PROVE  drafts' = drafts
  <1> USE DEF Writing, Answering, Enter, Stop, store
  <1>1. CASE Revalidating(p)
    BY <1>1 DEF Revalidating, Revalidate, LoadForRevalidate, ClearPrepared,
         ClearApproval, ClearAttempt, ReviseLive, LiveReadFails, Preflight,
         DropReview, StageReview
  <1>2. CASE Posting(p)
    BY <1>2 DEF Posting, Post, LoadForPost, CheckDenies, CheckPasses, CheckRefuses,
         Acknowledge, Prepare, PreparedAttempt, Sign, SignedAttempt, Send
  <1>3. CASE Recording(p)
    BY <1>3 DEF Recording, Reconcile, ReconcileAttempt, Audit, WriteReceipt,
         DropPrepared, DropApproval, AnswerAttempt
  <1>4. CASE Cancelling(p)
    BY <1>4 DEF Cancelling, Cancel, LoadReceipt, CancelDelete, CancelReceipt,
         CancelDiscovered, CancelOpen
  <1>5. CASE Creating(p)
    BY <1>5 DEF Creating, Create, CreateReview
  <1>6. CASE Return(p) \/ HostCallFails(p) \/ Kill(p)
    BY <1>6 DEF Return, HostCallFails, Kill
  <1> QED BY <1>1, <1>2, <1>3, <1>4, <1>5, <1>6 DEF Moves

(* What a write of order.json leaves behind.                               *)
LEMMA Overwrite ==
  ASSUME TypeInv, NEW id \in Drafts, NEW x \in Draft, drafts' = [drafts EXCEPT ![id] = x]
  PROVE  /\ drafts'[id] = x /\ StatusOf(id)' = x.status
         /\ \A d \in Drafts \ {id} : drafts'[d] = drafts[d]
  BY TypeInvParts DEF WorldOK, StatusOf

(* A write keeps closed drafts closed, keeps to its own draft, and, in the *)
(* lock, creates none.                                                     *)
WriteOK(p) ==
  /\ StaysClosed
  /\ \A d \in Drafts \ {mem[p].id} : drafts'[d] = drafts[d]
  /\ pc[p] \in LockedSteps /\ drafts[mem[p].id] = None => drafts'[mem[p].id] = None

(* None of these steps is followed by one that must know something.        *)
IdleSteps == {"return", "idle", "create_review", "revalidate", "post", "cancel", "discover",
              "cancel_delete", "cancel_receipt", "cancel_draft"}

(* At these steps Knows asks for nothing.                                  *)
LEMMA NothingToKnow ==
  ASSUME NEW p \in Procs, pc'[p] \in IdleSteps
  PROVE  Knows(p)'
  BY DEF Knows, IdleSteps, OpenSteps, RevisingSteps, PostingSteps, RecordingSteps

(* Each write of order.json keeps to WriteOK, and its call still knows.    *)
LEMMA WritingKeeps ==
  ASSUME TypeInv, TruthInv, NEW p \in Procs, Writing(p)
  PROVE  WriteOK(p) /\ Knows(p)'
  <1>id. PICK id : id = mem[p].id
    OBVIOUS
  <1>0. /\ drafts \in [Drafts -> Draft \cup {None}] /\ orders \in [Salts -> Sent \cup {None}]
        /\ pc \in [Procs -> AnyStep] /\ mem \in [Procs -> Call] /\ mem[p] \in Call
        /\ Fits(p, mem[p], pc[p]) /\ Knows(p) /\ SentClosed
    BY <1>id, TypeInvParts DEF WorldOK, CallOK, TruthInv
  <1>1. ASSUME NEW x \in Draft, id \in Drafts, drafts' = [drafts EXCEPT ![id] = x],
               \/ StatusOf(id) \in OpenStatus
               \/ StatusOf(id) = "absent" /\ pc[p] \notin LockedSteps
               \/ x.status \in ClosedStatus /\ drafts[id] # None
        PROVE  WriteOK(p)
    <2>1. /\ drafts'[id] = x /\ StatusOf(id)' = x.status
          /\ \A d \in Drafts \ {id} : drafts'[d] = drafts[d]
      BY <1>id, <1>1, Overwrite
    <2>2. StaysClosed
      BY <1>id, <1>1, <2>1 DEF StaysClosed, StatusOf, OpenStatus, ClosedStatus
    <2>3. pc[p] \in LockedSteps => drafts[id] # None
      BY <1>id, <1>1 DEF StatusOf, OpenStatus
    <2> QED BY <1>id, <2>1, <2>2, <2>3 DEF WriteOK
  <1>2. ASSUME drafts' = drafts
        PROVE  WriteOK(p)
    <2>1. \A d \in Drafts : StatusOf(d)' = StatusOf(d)
      BY <1>2 DEF StatusOf
    <2>2. StaysClosed
      BY <2>1 DEF StaysClosed
    <2> QED BY <1>2, <2>2 DEF WriteOK
  <1>3. CASE StoreDraft(p)
    <2>1. /\ id \in Drafts /\ mem[p].draft \in Draft /\ StatusOf(id) \in OpenStatus
          /\ drafts' = [drafts EXCEPT ![id] = mem[p].draft] /\ pc'[p] = "return"
      BY <1>id, <1>0, <1>3 DEF StoreDraft, Inside, Goto, Fits, Knows, NeedsDraft, RevisingSteps,
                        OpenSteps
    <2> QED BY <1>id, <1>1, <2>1, NothingToKnow DEF IdleSteps
  <1>4. CASE Bind(p)
    <2>1. /\ id \in Drafts /\ mem[p].draft \in Draft /\ mem[p].order \in Order
          /\ StatusOf(id) \in OpenStatus
      BY <1>id, <1>0, <1>4 DEF Bind, Inside, Fits, Knows, NeedsDraft, NeedsOrder, PostingSteps,
                        OpenSteps
    <2> DEFINE x == [mem[p].draft EXCEPT !.status = "signing_prepared",
                                         !.salt = mem[p].order.salt]
    <2>2. CASE Bound(mem[p].order, mem[p].review)
      <3>1. /\ drafts' = [drafts EXCEPT ![id] = x] /\ pc'[p] = "prepared_attempt"
            /\ mem'[p] = [mem[p] EXCEPT !.draft = x]
        BY <1>id, <1>0, <1>4, <2>2 DEF Bind, Goto, Remember
      <3>2. x \in Draft /\ x.status = "signing_prepared"
        BY <1>id, <2>1 DEF Draft, Order, DraftStatus, OpenStatus
      <3> HIDE DEF x
      <3>3. mem'[p].id = id
        BY <1>id, <1>0, <3>1 DEF Call
      <3>4. StatusOf(id)' \in OpenStatus
        BY <1>id, <2>1, <3>1, <3>2, Overwrite DEF OpenStatus
      <3>6. Knows(p)'
        BY <3>1, <3>3, <3>4 DEF Knows, OpenSteps, RevisingSteps, PostingSteps, RecordingSteps
      <3> QED BY <1>id, <1>1, <2>1, <3>1, <3>2, <3>6
    <2>3. CASE ~Bound(mem[p].order, mem[p].review)
      <3>1. drafts' = drafts /\ pc'[p] = "return"
        BY <1>id, <1>0, <1>4, <2>3 DEF Bind, Stop, Goto, store
      <3> QED BY <1>id, <1>2, <3>1, NothingToKnow DEF IdleSteps
    <2> QED BY <1>id, <2>2, <2>3
  <1>5. CASE SignedDraft(p)
    <2>1. /\ id \in Drafts /\ mem[p].draft \in Draft /\ StatusOf(id) \in OpenStatus
          /\ UNCHANGED orders
      BY <1>id, <1>0, <1>5 DEF SignedDraft, Inside, Fits, Knows, NeedsDraft, PostingSteps, OpenSteps
    <2> DEFINE x == [mem[p].draft EXCEPT !.status = "signed"]
    <2>2. /\ drafts' = [drafts EXCEPT ![id] = x] /\ pc'[p] = "send"
          /\ mem'[p] = [mem[p] EXCEPT !.draft = x]
      BY <1>id, <1>0, <1>5 DEF SignedDraft, Goto, Remember
    <2>3. x \in Draft /\ x.status = "signed"
      BY <1>id, <2>1 DEF Draft, DraftStatus
    <2> HIDE DEF x
    <2>4. mem'[p].id = id
      BY <1>id, <1>0, <2>2 DEF Call
    <2>5. StatusOf(id)' = "signed"
      BY <1>id, <2>1, <2>2, <2>3, Overwrite
    <2>6. UnsentFor(id)
      BY <1>id, <1>0, <2>1 DEF SentClosed, UnsentFor, OpenStatus, ClosedStatus
    <2>7. UnsentFor(id)'
      BY <1>id, <2>1, <2>6 DEF UnsentFor
    <2>9. Knows(p)'
      BY <2>2, <2>4, <2>5, <2>7 DEF Knows, OpenSteps, RevisingSteps, PostingSteps, RecordingSteps
    <2> QED BY <1>id, <1>1, <2>1, <2>2, <2>3, <2>9
  <1>6. CASE AnswerDraft(p)
    <2>1. /\ id \in Drafts /\ mem[p].draft \in Draft /\ StatusOf(id) \in ClosedStatus
          /\ mem' = mem /\ pc[p] = "answer_draft"
      BY <1>id, <1>0, <1>6 DEF AnswerDraft, Answering, Inside, Fits, Knows, NeedsDraft, RecordingSteps
    <2> DEFINE x == [mem[p].draft EXCEPT !.status = Outcome(mem[p])]
    <2>2. drafts' = [drafts EXCEPT ![id] = x] /\ pc'[p] = After("answer_draft", mem[p].answer)
      BY <1>id, <1>0, <1>6, <2>1 DEF AnswerDraft, Answering, Goto
    <2>3. Outcome(mem[p]) \in {"ambiguous", "rejected", "posted"}
      BY <1>id DEF Outcome
    <2>4. x \in Draft /\ x.status = Outcome(mem[p])
      BY <1>id, <2>1, <2>3 DEF Draft, DraftStatus
    <2> HIDE DEF x
    <2>5. StatusOf(id)' \in ClosedStatus
      BY <1>id, <2>1, <2>2, <2>3, <2>4, Overwrite DEF ClosedStatus
    <2>6. pc'[p] \in {"answer_attempt", "drop_prepared", "audit", "return"}
      BY <1>id, <2>2 DEF After
    <2>7. Knows(p)'
      BY <1>id, <2>1, <2>5, <2>6 DEF Knows, OpenSteps, RevisingSteps, PostingSteps, RecordingSteps
    <2>8. drafts[id] # None
      BY <1>id, <2>1 DEF StatusOf, ClosedStatus
    <2> QED BY <1>id, <1>1, <2>1, <2>2, <2>3, <2>4, <2>7, <2>8 DEF ClosedStatus
  <1>7. CASE CancelDraft(p)
    <2>1. id \in Drafts /\ pc'[p] = "return"
      BY <1>id, <1>0, <1>7 DEF CancelDraft, Inside, Fits, Goto
    <2>2. CASE drafts[id] = None
      BY <1>id, <1>2, <1>7, <2>1, <2>2, NothingToKnow DEF CancelDraft, IdleSteps
    <2>3. CASE drafts[id] # None
      <3> DEFINE x == [drafts[id] EXCEPT !.status = "cancelled"]
      <3>1. drafts' = [drafts EXCEPT ![id] = x]
        BY <1>id, <1>7, <2>3 DEF CancelDraft
      <3>2. x \in Draft /\ x.status = "cancelled"
        BY <1>id, <1>0, <2>1, <2>3 DEF Draft, DraftStatus
      <3> HIDE DEF x
      <3> QED BY <1>id, <1>1, <2>1, <2>3, <3>1, <3>2, NothingToKnow DEF IdleSteps, ClosedStatus
    <2> QED BY <1>id, <2>2, <2>3
  <1>8. CASE CreateDraft(p)
    <2>1. /\ id \in Drafts /\ mem[p].draft \in Draft /\ StatusOf(id) = "absent"
          /\ drafts' = [drafts EXCEPT ![id] = mem[p].draft] /\ pc'[p] = "create_review"
          /\ pc[p] \notin LockedSteps
      BY <1>id, <1>0, <1>8 DEF CreateDraft, Inside, Goto, Fits, Knows, NeedsDraft, CreateSteps,
                        StatusOf, LockedSteps
    <2> QED BY <1>id, <1>1, <2>1, NothingToKnow DEF IdleSteps
  <1> QED BY <1>id, <1>3, <1>4, <1>5, <1>6, <1>7, <1>8 DEF Writing

(* Every step but the writes and Send leaves a call knowing what it must.  *)
LEMMA MovesKnow ==
  ASSUME Careful, TypeInv, TruthInv, NEW p \in Procs, Moves(p), ~Writing(p)
  PROVE  Knows(p)'
  <1>id. PICK id : id = mem[p].id
    OBVIOUS
  <1>0. /\ pc \in [Procs -> AnyStep] /\ mem \in [Procs -> Call] /\ mem[p] \in Call
        /\ Knows(p) /\ drafts' = drafts
    BY TypeInvParts, OnlyWritingWrites DEF TruthInv
  <1> USE DEF OpenSteps, RevisingSteps, PostingSteps, RecordingSteps
  <1>1. ASSUME pc'[p] \in OpenSteps, mem'[p].id = id, StatusOf(id) \in OpenStatus
        PROVE  Knows(p)'
    BY <1>0, <1>1 DEF Knows, StatusOf
  <1>2. ASSUME pc'[p] \in RecordingSteps, mem'[p].id = id, StatusOf(id) \in ClosedStatus
        PROVE  Knows(p)'
    BY <1>0, <1>2 DEF Knows, StatusOf
  <1>3. ASSUME pc'[p] \in IdleSteps
        PROVE  Knows(p)'
    BY <1>3, NothingToKnow
  <1>4. \A c : mem' = [mem EXCEPT ![p] = c] => mem'[p] = c
    BY <1>0
  <1>5. CASE Revalidate(p) \/ Post(p) \/ Cancel(p) \/ CancelDiscovered(p)
    <2>1. pc'[p] \in IdleSteps
      BY <1>0, <1>5 DEF Revalidate, Post, Cancel, CancelDiscovered, Enter, Goto, IdleSteps
    <2> QED BY <1>3, <2>1
  <1>6. CASE LoadForRevalidate(p)
    <2>1. CASE pc'[p] = "return"
      BY <1>3, <2>1 DEF IdleSteps
    <2>2. CASE pc'[p] # "return"
      <3>1. pc'[p] \in {"clear_prepared", "live"} /\ StatusOf(id) \in OpenStatus
        BY <1>id, <1>0, <1>6, <2>2
           DEF LoadForRevalidate, Goto, Stop, Revisable, OpenStatus
      <3>2. \E x : mem' = [mem EXCEPT ![p] = [mem[p] EXCEPT !.draft = x]]
        BY <1>0, <1>6, <2>2 DEF LoadForRevalidate, Goto, Stop, Remember
      <3>3. mem'[p].id = id
        BY <1>id, <1>0, <3>2 DEF Call
      <3> QED BY <1>1, <3>1, <3>3
    <2> QED BY <2>1, <2>2
  <1>7. CASE ClearPrepared(p) \/ ClearApproval(p) \/ ClearAttempt(p) \/ DropReview(p)
             \/ StageReview(p) \/ Acknowledge(p) \/ PreparedAttempt(p) \/ SignedAttempt(p)
             \/ Sign(p)
    <2>1. /\ mem' = mem /\ pc[p] \in OpenSteps
          /\ pc'[p] \in OpenSteps \cup {"return"}
      BY <1>0, <1>7 DEF ClearPrepared, ClearApproval, ClearAttempt, DropReview, StageReview,
                        Acknowledge, PreparedAttempt, SignedAttempt, Sign, Inside, Goto
    <2>2. StatusOf(id) \in OpenStatus
      BY <1>id, <1>0, <2>1 DEF Knows
    <2> QED BY <1>id, <1>1, <1>3, <2>1, <2>2 DEF IdleSteps
  <1>8. CASE ReviseLive(p) \/ LiveReadFails(p) \/ Preflight(p) \/ CheckDenies(p)
             \/ CheckPasses(p) \/ CheckRefuses(p) \/ Prepare(p)
    <2>1. /\ pc[p] \in OpenSteps
          /\ pc'[p] \in OpenSteps \cup {"return"}
      BY <1>0, <1>8 DEF ReviseLive, LiveReadFails, Preflight, CheckDenies, CheckPasses,
                        CheckRefuses, Prepare, Inside, Goto, Stop
    <2>2. mem'[p].id = id
      <3>1. CASE ReviseLive(p)
        <4> DEFINE x(q, status) == [mem[p].draft EXCEPT !.quote = q, !.status = status]
                   r(q) == [quote |-> q, warn |-> Warned(mem[p].draft.kind, q),
                            staged |-> TRUE, ack |-> "unset"]
                   denied(q) == [mem[p] EXCEPT !.draft = x(q, "policy_denied")]
                   passed(q) == [mem[p] EXCEPT !.draft = x(q, "revalidated"), !.review = r(q)]
        <4>1. PICK q \in Quotes :
                mem' = [mem EXCEPT ![p] = denied(q)] \/ mem' = [mem EXCEPT ![p] = passed(q)]
          BY <3>1 DEF ReviseLive, Remember
        <4> HIDE DEF x, r
        <4>2. denied(q).id = id /\ passed(q).id = id
          BY <1>id, <1>0 DEF Call
        <4> HIDE DEF denied, passed
        <4>3. mem'[p] = denied(q) \/ mem'[p] = passed(q)
          BY <1>0, <4>1
        <4> QED BY <4>2, <4>3
      <3>2. CASE Preflight(p)
        <4>1. \/ mem' = mem
              \/ mem' = [mem EXCEPT ![p] = [mem[p] EXCEPT !.draft.status = "review"]]
          BY <3>2 DEF Preflight, Stop, Remember
        <4> QED BY <1>id, <1>0, <4>1 DEF Call
      <3>3. CASE CheckDenies(p)
        <4>1. PICK q \in Quotes : mem' = [mem EXCEPT ![p] =
                [mem[p] EXCEPT !.draft.quote = q, !.draft.status = "policy_denied"]]
          BY <3>3 DEF CheckDenies, Remember
        <4> QED BY <1>id, <1>0, <4>1 DEF Call
      <3>4. CASE CheckPasses(p)
        <4> DEFINE q == reviews[mem[p].id].quote
                   r == [reviews[mem[p].id] EXCEPT !.ack = mem[p].ack]
                   c == [mem[p] EXCEPT !.draft.quote = q, !.review = r,
                                       !.cap = cfg.max_daily]
        <4>1. mem'[p] = c
          BY <1>0, <3>4 DEF CheckPasses, Remember
        <4> HIDE DEF q, r
        <4> QED BY <1>id, <1>0, <4>1 DEF Call
      <3>5. CASE Prepare(p)
        <4>1. CASE prepared[mem[p].id] # None
          <5>1. mem' = [mem EXCEPT ![p] = [mem[p] EXCEPT !.order = prepared[mem[p].id]]]
            BY <3>5, <4>1 DEF Prepare, Remember
          <5> QED BY <1>id, <1>0, <5>1 DEF Call
        <4>2. CASE prepared[mem[p].id] = None
          <5> DEFINE o(s) == [salt |-> s, quote |-> mem[p].draft.quote,
                              review |-> mem[p].review]
          <5>1. PICK s \in Salts : mem' = [mem EXCEPT ![p] = [mem[p] EXCEPT !.order = o(s)]]
            BY <3>5, <4>2 DEF Prepare, Remember
          <5> HIDE DEF o
          <5> QED BY <1>id, <1>0, <5>1 DEF Call
        <4> QED BY <4>1, <4>2
      <3>6. CASE LiveReadFails(p) \/ CheckRefuses(p)
        BY <1>id, <3>6 DEF LiveReadFails, CheckRefuses, Stop
      <3> QED BY <1>8, <3>1, <3>2, <3>3, <3>4, <3>5, <3>6
    <2>3. StatusOf(id) \in OpenStatus
      BY <1>id, <1>0, <2>1 DEF Knows
    <2> QED BY <1>1, <1>3, <2>1, <2>2, <2>3 DEF IdleSteps
  <1>9. CASE LoadForPost(p)
    <2>1. CASE StatusOf(id) \in Postable
      <3>1. /\ mem' = [mem EXCEPT ![p] = [mem[p] EXCEPT !.draft = drafts[id]]]
            /\ pc'[p] = "check" /\ StatusOf(id) \in OpenStatus
        BY <1>id, <1>0, <1>9, <2>1 DEF LoadForPost, Goto, Remember, Postable, OpenStatus
      <3>2. mem'[p].id = id
        BY <1>id, <1>0, <3>1 DEF Call
      <3> QED BY <1>1, <3>1, <3>2
    <2>2. CASE StatusOf(id) \notin Postable
      <3>1. pc'[p] = "return"
        BY <1>id, <1>0, <1>9, <2>2 DEF LoadForPost, Stop, Goto
      <3> QED BY <1>3, <3>1 DEF IdleSteps
    <2> QED BY <2>1, <2>2
  <1>10. CASE Send(p)
    <2>1. pc[p] = "send" /\ pc'[p] \in {"reconcile", "audit"}
      BY <1>0, <1>10 DEF Send, Inside, Goto
    <2>2. mem' = mem \/ \E a : mem' = [mem EXCEPT ![p] = [mem[p] EXCEPT !.answer = a]]
      BY <1>10 DEF Send, Remember
    <2>3. mem'[p].id = id
      BY <1>id, <1>0, <2>2 DEF Call
    <2>4. StatusOf(id) \in ClosedStatus
      BY <1>id, <1>0, <2>1 DEF Knows, ClosedStatus
    <2> QED BY <1>2, <2>1, <2>3, <2>4
  <1>11. CASE Recording(p) \/ (HostCallFails(p) /\ pc[p] \in BestEffort)
    <2>1. /\ pc[p] \in RecordingSteps
          /\ pc'[p] \in RecordingSteps \cup {"return"}
      <3>1. \A s, answer : After(s, answer) \in RecordingSteps \cup {"return"}
        BY DEF After
      <3>2. CASE Reconcile(p)
        BY <1>0, <3>2 DEF Reconcile, Inside, Goto
      <3>3. CASE Recording(p) /\ ~Reconcile(p)
        BY <1>0, <3>1, <3>3 DEF Recording, ReconcileAttempt, Audit, WriteReceipt,
             DropPrepared, DropApproval, AnswerDraft, AnswerAttempt, Answering, Inside, Goto
      <3>4. CASE HostCallFails(p) /\ pc[p] \in BestEffort
        <4>1. pc[p] \in {"drop_prepared", "drop_approval", "answer_attempt"}
          BY <3>4 DEF BestEffort
        <4>2. Goto(p, After(pc[p], mem[p].answer))
          BY <3>4, <4>1 DEF HostCallFails, CreateSteps
        <4> QED BY <1>0, <3>1, <4>1, <4>2 DEF Goto
      <3> QED BY <1>11, <3>2, <3>3, <3>4
    <2>2. mem' = mem \/ \E a : mem' = [mem EXCEPT ![p] = [mem[p] EXCEPT !.answer = a]]
      BY <1>11 DEF Recording, Reconcile, ReconcileAttempt, Audit, WriteReceipt, DropPrepared,
           DropApproval, AnswerDraft, AnswerAttempt, Answering, Remember, HostCallFails,
           BestEffort, CreateSteps
    <2>3. mem'[p].id = id
      BY <1>id, <1>0, <2>2 DEF Call
    <2>4. StatusOf(id) \in ClosedStatus
      BY <1>id, <1>0, <2>1 DEF Knows
    <2> QED BY <1>2, <1>3, <2>1, <2>3, <2>4 DEF IdleSteps
  <1>12. CASE LoadReceipt(p) \/ CancelDelete(p) \/ CancelReceipt(p) \/ CancelOpen(p)
              \/ CreateReview(p) \/ Return(p) \/ Kill(p)
              \/ (HostCallFails(p) /\ pc[p] \notin BestEffort)
    <2>1. pc'[p] \in IdleSteps
      BY <1>0, <1>12 DEF LoadReceipt, CancelDelete, CancelReceipt, CancelOpen, CreateReview,
           Return, Kill, HostCallFails, Goto, Stop, IdleSteps
    <2> QED BY <1>3, <2>1
  <1>13. CASE Create(p)
    <2> DEFINE draft(kind, q) == [kind |-> kind, quote |-> q, status |-> "review", salt |-> None]
               review(q) == [quote |-> q, warn |-> FALSE, staged |-> FALSE, ack |-> "unset"]
    <2>1. PICK kind \in Kinds, q \in Quotes, n \in NextIds :
            mem'[p] = [Fresh(n, "no") EXCEPT !.draft = draft(kind, q), !.review = review(q)]
      BY <1>4, <1>13 DEF Create, Remember
    <2> HIDE DEF draft, review
    <2>2. n \in Drafts /\ drafts[n] = None
      BY DEF NextIds, Existing, Careful, Drafts
    <2>3. mem'[p].id = n /\ pc'[p] = "create_draft"
      BY <1>0, <1>13, <2>1 DEF Fresh, Create, Goto
    <2> QED BY <1>0, <2>2, <2>3 DEF Knows
  <1> QED BY <1>5, <1>6, <1>7, <1>8, <1>9, <1>10, <1>11, <1>12, <1>13
       DEF Moves, Writing, Revalidating, Posting, Recording, Cancelling, Creating

(* A move is a step.                                                       *)
LEMMA NextHasMoves ==
  ASSUME NEW p \in Procs, Moves(p)
  PROVE  [Next]_vars
  BY DEF Next, Moves

(* The calls that do not move know what they knew: the lock keeps the      *)
(* other holders out, and only one call creates.                           *)
LEMMA OthersKnow ==
  ASSUME Careful, TypeInv, Exclusive, TruthInv, NEW p \in Procs, Moves(p),
         NEW q \in Procs \ {p}
  PROVE  Knows(q)'
  <1>id. PICK id : id = mem[q].id
    OBVIOUS
  <1>0. /\ mem'[q] = mem[q] /\ pc'[q] = pc[q] /\ Knows(q)
        /\ CallOK(p) /\ CallOK(q) /\ Fits(q, mem[q], pc[q])
    BY MovesAlone, TypeInvParts DEF Elsewhere, TruthInv, CallOK
  <1>1. ~(pc[p] \in LockedSteps /\ pc[q] \in LockedSteps)
    BY <1>0 DEF CallOK, Exclusive, Careful
  <1>2. ASSUME drafts'[id] = drafts[id], UnsentFor(id) => UnsentFor(id)'
        PROVE  Knows(q)'
    <2>1. StatusOf(id)' = StatusOf(id)
      BY <1>2 DEF StatusOf
    <2> QED BY <1>id, <1>0, <1>2, <2>1 DEF Knows
  <1>3. CASE pc[q] \in OpenSteps \cup {"send"} \cup RecordingSteps
    <2>1. pc[q] \in LockedSteps /\ id \in Drafts /\ drafts[id] # None
      BY <1>id, <1>0, <1>3 DEF Fits, Knows, StatusOf, OpenStatus, ClosedStatus, OpenSteps,
                       RevisingSteps, PostingSteps, RecordingSteps, LockedSteps
    <2>2. ~Send(p)
      BY <1>1, <2>1 DEF Send, Inside, LockedSteps
    <2>3. drafts'[id] = drafts[id]
      <3>1. CASE CreateDraft(p)
        <4>1. drafts[mem[p].id] = None
          BY <3>1 DEF CreateDraft, Inside, TruthInv, Knows
        <4>2. id # mem[p].id
          BY <2>1, <4>1
        <4>3. WriteOK(p)
          BY <3>1, WritingKeeps DEF Writing
        <4> QED BY <2>1, <4>2, <4>3 DEF WriteOK
      <3>2. CASE ~CreateDraft(p)
        <4>1. ~Writing(p)
          BY <1>1, <2>1, <3>2 DEF Writing, StoreDraft, Bind, SignedDraft, AnswerDraft,
             CancelDraft, Answering, Inside, LockedSteps
        <4> QED BY <4>1, OnlyWritingWrites
      <3> QED BY <3>1, <3>2
    <2>4. OrdersAge
      BY <2>2, SendsAlone, OnlySendAdds, NextHasMoves
    <2>5. UnsentFor(id) => UnsentFor(id)'
      BY <2>4 DEF UnsentFor, OrdersAge
    <2> QED BY <1>2, <2>3, <2>5
  <1>4. CASE pc[q] = "create_draft"
    <2>1. drafts[id] = None /\ id \in Drafts /\ q \in Creators
      BY <1>id, <1>0, <1>4 DEF Knows, Fits, CreateSteps
    <2>2. drafts'[id] = None
      <3>1. CASE Writing(p)
        <4>1. WriteOK(p)
          BY <3>1, WritingKeeps
        <4>2. pc[p] \in LockedSteps
          <5>1. ~CreateDraft(p)
            BY <1>0, <2>1 DEF CreateDraft, Inside, CallOK, Fits, CreateSteps, Careful
          <5> QED BY <3>1, <5>1 DEF Writing, StoreDraft, Bind, SignedDraft, AnswerDraft,
                 CancelDraft, Answering, Inside, LockedSteps
        <4> QED BY <2>1, <4>1, <4>2 DEF WriteOK
      <3>2. CASE ~Writing(p)
        BY <2>1, <3>2, OnlyWritingWrites
      <3> QED BY <3>1, <3>2
    <2>3. pc[q] \notin OpenSteps \cup {"send"} \cup RecordingSteps
      BY <1>4 DEF OpenSteps, RevisingSteps, PostingSteps, RecordingSteps
    <2> QED BY <1>id, <1>0, <1>4, <2>2, <2>3 DEF Knows
  <1>5. CASE pc[q] \notin OpenSteps \cup {"send", "create_draft"} \cup RecordingSteps
    BY <1>0, <1>5 DEF Knows
  <1> QED BY <1>3, <1>4, <1>5

(* The order Send adds is its draft's first, and its draft is signed.      *)
LEMMA SendKeeps ==
  ASSUME TypeInv, TruthInv, NEW p \in Procs, Send(p)
  PROVE  SentClosed' /\ SentApart'
  <1>id. PICK id : id = mem[p].id
    OBVIOUS
  <1>0. /\ orders \in [Salts -> Sent \cup {None}] /\ drafts' = drafts
        /\ StatusOf(id) = "signed" /\ UnsentFor(id)
        /\ SentClosed /\ SentApart
    BY <1>id, TypeInvParts DEF WorldOK, Send, Inside, TruthInv, Knows, store
  <1> DEFINE s == mem[p].order.salt
             sent(state) == [draft |-> id, kind |-> mem[p].draft.kind,
                             quote |-> mem[p].order.quote, review |-> mem[p].review,
                             state |-> state]
  <1>1. orders' = orders \/ \E state : orders' = [orders EXCEPT ![s] = sent(state)]
    BY <1>id DEF Send
  <1>2. \A d : StatusOf(d)' = StatusOf(d)
    BY <1>0 DEF StatusOf
  <1>3. CASE orders' = orders
    BY <1>0, <1>2, <1>3 DEF SentClosed, SentApart
  <1>4. ASSUME NEW state, orders' = [orders EXCEPT ![s] = sent(state)]
        PROVE  SentClosed' /\ SentApart'
    <2>1. \A t \in Salts : \/ orders'[t] = orders[t] /\ t # s
                           \/ orders'[t] = sent(state) /\ t = s
      BY <1>0, <1>4
    <2>2. sent(state).draft = id
      OBVIOUS
    <2> HIDE DEF sent, s
    <2>3. SentClosed'
      BY <1>0, <1>2, <2>1, <2>2 DEF SentClosed, ClosedStatus
    <2>4. SentApart'
      BY <1>0, <2>1, <2>2 DEF SentApart, UnsentFor
    <2> QED BY <2>3, <2>4
  <1> QED BY <1>1, <1>3, <1>4

(* Every step keeps TruthInv, with the lock exclusive.                     *)
LEMMA TruthStep ==
  ASSUME Careful, TypeInv, Exclusive, TruthInv, [Next]_vars
  PROVE  TruthInv'
  <1>1. ASSUME NEW p \in Procs, Moves(p)
        PROVE  TruthInv'
    <2>1. StaysClosed
      <3>1. CASE Writing(p)
        BY <3>1, WritingKeeps DEF WriteOK
      <3>2. CASE ~Writing(p)
        BY <1>1, <3>2, OnlyWritingWrites DEF StaysClosed, StatusOf
      <3> QED BY <3>1, <3>2
    <2>2. SentClosed' /\ SentApart'
      <3>1. CASE Send(p)
        BY <3>1, SendKeeps
      <3>2. CASE ~Send(p)
        <4>1. OrdersAge
          BY <1>1, <3>2, SendsAlone, OnlySendAdds
        <4> QED BY <2>1, <4>1, AgedStaysTrue
      <3> QED BY <3>1, <3>2
    <2>3. Knows(p)'
      BY <1>1, MovesKnow, WritingKeeps
    <2>4. \A q \in Procs : Knows(q)'
      BY <1>1, <2>3, OthersKnow
    <2> QED BY <2>2, <2>4 DEF TruthInv
  <1>2. CASE Others
    <2>1. pc' = pc /\ mem' = mem /\ drafts' = drafts
      BY <1>2 DEF Others, VenueActs, WriteVenueConfig, BreakStaleLock, vars, store
    <2>2. OrdersAge
      BY <2>1, SendLeaves, OnlySendAdds
    <2>3. \A d : StatusOf(d)' = StatusOf(d)
      BY <2>1 DEF StatusOf
    <2>4. SentClosed' /\ SentApart' /\ \A d \in Drafts : UnsentFor(d) => UnsentFor(d)'
      BY <2>2, <2>3, AgedStaysTrue DEF StaysClosed
    <2>5. ASSUME NEW q \in Procs
          PROVE  Knows(q)'
      <3>id. PICK id : id = mem[q].id
        OBVIOUS
      <3>1. Knows(q) /\ (UnsentFor(id) => UnsentFor(id)')
        BY <2>2 DEF TruthInv, UnsentFor, OrdersAge
      <3> QED BY <3>id, <3>1, <2>1, <2>3 DEF Knows
    <2> QED BY <2>4, <2>5 DEF TruthInv
  <1> QED BY <1>1, <1>2, NextIsMoves

(* TruthInv is an invariant of careful instances.                          *)
LEMMA TruthAlways ==
  ASSUME Careful
  PROVE  Spec => []TruthInv
  <1>1. Init => TypeInv /\ Exclusive /\ LockTypeOK
    BY InitTypes DEF Init, LockInit, LockTypeOK, Owners, Exclusive
  <1>2. Init => TruthInv
    BY DEF Init, TruthInv, SentClosed, SentApart, Knows, OpenSteps, RevisingSteps,
           PostingSteps, RecordingSteps
  <1>3. TypeInv /\ LockTypeOK /\ Exclusive /\ TruthInv /\ [Next]_vars
          => TypeInv' /\ LockTypeOK' /\ Exclusive' /\ TruthInv'
    BY StepTypes, LockMoves, LockStepKeeps, TruthStep
  <1> QED BY <1>1, <1>2, <1>3, PTL DEF Spec

(* While a draft looks unsent, no order of it was ever sent, whatever was  *)
(* killed or failed before: given that no holder outlives its lock, that   *)
(* one invocation at a time creates drafts, and that lists do not fail.    *)
THEOREM UnsentIsUnsent ==
  ASSUME Careful
  PROVE  Spec => []PlanTellsTruth
  <1>1. TruthInv => PlanTellsTruth
    BY DEF TruthInv, SentClosed, PlanTellsTruth, SentFor, ClosedStatus, OpenStatus
  <1> QED BY <1>1, TruthAlways, PTL

(* However often, and after whatever failure, a draft is posted again, one *)
(* order at most leaves for it, under the same assumptions.                *)
THEOREM OneOrderLeaves ==
  ASSUME Careful
  PROVE  Spec => []OneOrderPerDraft
  <1>1. ASSUME TruthInv, NEW d \in Drafts
        PROVE  Cardinality(SentFor(d)) <= 1
    <2>1. \A s, t \in SentFor(d) : s = t
      BY <1>1 DEF TruthInv, SentApart, SentFor
    <2>2. CASE SentFor(d) = {}
      <3>1. Cardinality({}) = 0
        BY FS_EmptySet
      <3> QED BY <2>2, <3>1
    <2>3. CASE SentFor(d) # {}
      <3>1. PICK s : SentFor(d) = {s}
        BY <2>1, <2>3
      <3>2. Cardinality({s}) = 1
        BY FS_Singleton
      <3> QED BY <3>1, <3>2
    <2> QED BY <2>2, <2>3
  <1>2. TruthInv => OneOrderPerDraft
    BY <1>1 DEF OneOrderPerDraft
  <1> QED BY <1>2, TruthAlways, PTL
=============================================================================
