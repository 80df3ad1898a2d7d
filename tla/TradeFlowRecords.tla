-------------------------- MODULE TradeFlowRecords --------------------------
(***************************************************************************)
(* What the store says of an order is true of it, and every order the      *)
(* venue has leaves a trace; a draft lives the life DraftLife describes.   *)
(* A BUY leaves only within the daily cap.  All of it for every value of   *)
(* the constants that keeps the lock exclusive and draft ids apart         *)
(* (Careful, as in TradeFlowProofs).  At the end DailyCap, where the day   *)
(* moves, in constants and variables of its own.                           *)
(*                                                                         *)
(* A receipt is written from what the post remembers, several steps and    *)
(* possible failures after the order left, and the order moves meanwhile.  *)
(* So the invariant follows the post from Send to its last write: the      *)
(* order in its hand is the one it sent, a refusal it heard is final, its  *)
(* draft stays signed until the outcome is written, and a receipt is there *)
(* by then.                                                                *)
(***************************************************************************)
EXTENDS TradeFlowProofs, TradeDay, SequenceTheorems, WellFoundedInduction

USE TradeFlowAssumption, NoneIsNoRecord, WalletLockAssumption

-----------------------------------------------------------------------------
(* A salt is of one draft: what store_prepared_signing, the calls and the  *)
(* venue know under it speaks of the same one.                             *)

Names(s, d) ==
  \/ prepared[d] # None /\ prepared[d].salt = s
  \/ orders[s] # None /\ orders[s].draft = d
  \/ \E p \in Procs : mem[p].order # None /\ mem[p].order.salt = s /\ mem[p].id = d

SaltsApart == \A s \in Salts : \A d, e \in Drafts : Names(s, d) /\ Names(s, e) => d = e

(* A post that has no prepared order draws a new salt.                     *)
Draws(p) == Prepare(p) /\ prepared[mem[p].id] = None

(* What a call holds in its hand after its step it held before, or loads   *)
(* from its draft's prepared order.                                        *)
HandKept(p) ==
  mem'[p].order # None =>
    /\ mem'[p].id = mem[p].id
    /\ \/ mem'[p].order = mem[p].order
       \/ mem'[p].order = prepared[mem[p].id]

(* Only the drawing of a salt puts an unknown order into a call's hand.    *)
LEMMA MovesKeepHand ==
  ASSUME TypeInv, NEW p \in Procs, Moves(p), ~Draws(p)
  PROVE  HandKept(p)
  <1>0. mem \in [Procs -> Call] /\ mem[p] \in Call
    BY TypeInvParts
  <1>1. ASSUME NEW c, mem' = [mem EXCEPT ![p] = c],
               c.order = None \/ (c.id = mem[p].id /\ c.order = mem[p].order)
        PROVE  HandKept(p)
    BY <1>0, <1>1 DEF HandKept
  <1>2. ASSUME mem' = mem
        PROVE  HandKept(p)
    BY <1>2 DEF HandKept
  <1>3. CASE mem' = [mem EXCEPT ![p] = NoCall]
    <2>1. NoCall.order = None
      BY DEF NoCall, Fresh
    <2> QED BY <1>1, <1>3, <2>1
  <1>4. CASE Revalidate(p) \/ Post(p) \/ Cancel(p) \/ CancelDiscovered(p)
    <2>1. PICK d, ack : mem' = [mem EXCEPT ![p] = Fresh(d, ack)]
      BY <1>4 DEF Revalidate, Post, Cancel, CancelDiscovered, Enter, Remember
    <2>2. Fresh(d, ack).order = None
      BY DEF Fresh
    <2> QED BY <1>1, <2>1, <2>2
  <1>5. CASE LoadForRevalidate(p) \/ LoadForPost(p)
    <2>1. mem' = mem \/ \E x : mem' = [mem EXCEPT ![p] = [mem[p] EXCEPT !.draft = x]]
      BY <1>5 DEF LoadForRevalidate, LoadForPost, Stop, Remember
    <2> QED BY <1>0, <1>1, <1>2, <2>1 DEF Call
  <1>6. CASE ReviseLive(p)
    <2> DEFINE x(q, status) == [mem[p].draft EXCEPT !.quote = q, !.status = status]
               r(q) == [quote |-> q, warn |-> Warned(mem[p].draft.kind, q),
                        staged |-> TRUE, ack |-> "unset"]
               denied(q) == [mem[p] EXCEPT !.draft = x(q, "policy_denied")]
               passed(q) == [mem[p] EXCEPT !.draft = x(q, "revalidated"), !.review = r(q)]
    <2>1. PICK q \in Quotes :
            mem' = [mem EXCEPT ![p] = denied(q)] \/ mem' = [mem EXCEPT ![p] = passed(q)]
      BY <1>6 DEF ReviseLive, Remember
    <2> HIDE DEF x, r
    <2>2. /\ denied(q).id = mem[p].id /\ denied(q).order = mem[p].order
          /\ passed(q).id = mem[p].id /\ passed(q).order = mem[p].order
      BY <1>0 DEF Call
    <2> HIDE DEF denied, passed
    <2> QED BY <1>1, <2>1, <2>2
  <1>7. CASE Preflight(p)
    <2>1. \/ mem' = mem
          \/ mem' = [mem EXCEPT ![p] = [mem[p] EXCEPT !.draft.status = "review"]]
      BY <1>7 DEF Preflight, Stop, Remember
    <2> QED BY <1>0, <1>1, <1>2, <2>1 DEF Call
  <1>8. CASE CheckDenies(p)
    <2>1. PICK q \in Quotes : mem' = [mem EXCEPT ![p] =
            [mem[p] EXCEPT !.draft.quote = q, !.draft.status = "policy_denied"]]
      BY <1>8 DEF CheckDenies, Remember
    <2> QED BY <1>0, <1>1, <2>1 DEF Call
  <1>9. CASE CheckPasses(p)
    <2> DEFINE q == reviews[mem[p].id].quote
               r == [reviews[mem[p].id] EXCEPT !.ack = mem[p].ack]
               c == [mem[p] EXCEPT !.draft.quote = q, !.review = r, !.cap = cfg.max_daily]
    <2>1. mem' = [mem EXCEPT ![p] = c]
      BY <1>9 DEF CheckPasses, Remember
    <2> HIDE DEF q, r
    <2>2. c.id = mem[p].id /\ c.order = mem[p].order
      BY <1>0 DEF Call
    <2> QED BY <1>1, <2>1, <2>2
  <1>10. CASE Prepare(p)
    <2>1. mem' = [mem EXCEPT ![p] = [mem[p] EXCEPT !.order = prepared[mem[p].id]]]
      BY <1>10 DEF Prepare, Draws, Remember
    <2>2. mem'[p].id = mem[p].id /\ mem'[p].order = prepared[mem[p].id]
      BY <1>0, <2>1 DEF Call
    <2> QED BY <2>2 DEF HandKept
  <1>11. CASE Bind(p) \/ SignedDraft(p)
    <2>1. mem' = mem \/ \E x : mem' = [mem EXCEPT ![p] = [mem[p] EXCEPT !.draft = x]]
      BY <1>11 DEF Bind, SignedDraft, Stop, Remember
    <2> QED BY <1>0, <1>1, <1>2, <2>1 DEF Call
  <1>12. CASE Send(p) \/ Reconcile(p)
    <2>1. mem' = mem \/ \E a : mem' = [mem EXCEPT ![p] = [mem[p] EXCEPT !.answer = a]]
      BY <1>12 DEF Send, Reconcile, Remember
    <2> QED BY <1>0, <1>1, <1>2, <2>1 DEF Call
  <1>13. CASE LoadReceipt(p)
    <2>1. mem' = mem \/ \E x : mem' = [mem EXCEPT ![p] = [mem[p] EXCEPT !.receipt = x]]
      BY <1>13 DEF LoadReceipt, Stop, Remember
    <2> QED BY <1>0, <1>1, <1>2, <2>1 DEF Call
  <1>14. CASE Create(p)
    <2> DEFINE draft(kind, q) == [kind |-> kind, quote |-> q, status |-> "review", salt |-> None]
               review(q) == [quote |-> q, warn |-> FALSE, staged |-> FALSE, ack |-> "unset"]
    <2>1. PICK kind \in Kinds, q \in Quotes, n \in NextIds :
            mem' = [mem EXCEPT ![p] =
                      [Fresh(n, "no") EXCEPT !.draft = draft(kind, q), !.review = review(q)]]
      BY <1>14 DEF Create, Remember
    <2> HIDE DEF draft, review
    <2>2. [Fresh(n, "no") EXCEPT !.draft = draft(kind, q), !.review = review(q)].order = None
      BY DEF Fresh
    <2> QED BY <1>1, <2>1, <2>2
  <1>15. CASE ClearPrepared(p) \/ ClearApproval(p) \/ ClearAttempt(p) \/ DropReview(p)
              \/ StageReview(p) \/ StoreDraft(p) \/ LiveReadFails(p) \/ CheckRefuses(p)
              \/ Acknowledge(p) \/ PreparedAttempt(p) \/ Sign(p) \/ SignedAttempt(p)
    BY <1>2, <1>15 DEF ClearPrepared, ClearApproval, ClearAttempt, DropReview, StageReview,
         StoreDraft, LiveReadFails, CheckRefuses, Acknowledge, PreparedAttempt, Sign,
         SignedAttempt, Stop
  <1>16. CASE (Recording(p) /\ ~Reconcile(p)) \/ CancelDelete(p) \/ CancelReceipt(p)
              \/ CancelDraft(p) \/ CancelOpen(p) \/ CreateDraft(p)
    BY <1>2, <1>16 DEF Recording, ReconcileAttempt, Audit, WriteReceipt, DropPrepared,
         DropApproval, AnswerDraft, AnswerAttempt, Answering, CancelDelete, CancelReceipt,
         CancelDraft, CancelOpen, CreateDraft, Stop
  <1>17. CASE CreateReview(p) \/ Return(p) \/ HostCallFails(p) \/ Kill(p)
    BY <1>2, <1>3, <1>17 DEF CreateReview, Return, HostCallFails, Kill, Remember
  <1> QED BY <1>4, <1>5, <1>6, <1>7, <1>8, <1>9, <1>10, <1>11, <1>12, <1>13, <1>14, <1>15,
             <1>16, <1>17 DEF Moves, Revalidating, Posting, Recording, Cancelling, Creating

(* Whatever happens but a drawing, no salt gets a draft it did not have.   *)
NamesFall == \A s \in Salts, d \in Drafts : Names(s, d)' => Names(s, d)

(* The prepared orders stay or go, unless a salt is drawn.                 *)
LEMMA PreparedStays ==
  ASSUME TypeInv, NEW p \in Procs, Moves(p), ~Draws(p)
  PROVE  PreparedKept
  <1>1. CASE ~Carrying(p)
    BY <1>1, OtherMovesDropOnly
  <1>2. CASE Carrying(p)
    <2>1. prepared' = prepared
      BY <1>2 DEF Carrying, Draws, CheckPasses, Acknowledge, Prepare, Bind, PreparedAttempt,
         Sign, SignedAttempt, SignedDraft, Send, Stop, store
    <2> QED BY <2>1 DEF PreparedKept
  <1> QED BY <1>1, <1>2

(* The venue learns of an order under the name its call had for it.        *)
LEMMA SentAsNamed ==
  ASSUME TypeInv, NEW p \in Procs, Moves(p), NEW s \in Salts, NEW d \in Drafts,
         orders'[s] # None, orders'[s].draft = d
  PROVE  Names(s, d)
  <1>1. CASE Send(p)
    <2>0. /\ orders \in [Salts -> Sent \cup {None}] /\ mem[p].order \in Order
          /\ mem[p].order # None
      BY <1>1, TypeInvParts DEF WorldOK, Send, Inside, CallOK, Fits, NeedsOrder, PostingSteps
    <2> DEFINE sent(state) == [draft |-> mem[p].id, kind |-> mem[p].draft.kind,
                               quote |-> mem[p].order.quote, review |-> mem[p].review,
                               state |-> state]
    <2>1. orders' = orders
          \/ \E state : orders' = [orders EXCEPT ![mem[p].order.salt] = sent(state)]
      BY <1>1 DEF Send
    <2>2. \A state : sent(state).draft = mem[p].id
      OBVIOUS
    <2> HIDE DEF sent
    <2>3. \/ orders'[s] = orders[s]
          \/ s = mem[p].order.salt /\ orders'[s].draft = mem[p].id
      BY <2>0, <2>1, <2>2
    <2> QED BY <2>0, <2>3 DEF Names
  <1>2. CASE ~Send(p)
    <2>1. OrdersAge
      BY <1>2, SendsAlone, OnlySendAdds, NextHasMoves
    <2> QED BY <2>1 DEF OrdersAge, Names
  <1> QED BY <1>1, <1>2

LEMMA MovesNameNothing ==
  ASSUME TypeInv, NEW p \in Procs, Moves(p), ~Draws(p)
  PROVE  NamesFall
  <1> SUFFICES ASSUME NEW s \in Salts, NEW d \in Drafts, Names(s, d)'
               PROVE  Names(s, d)
    BY DEF NamesFall
  <1>1. CASE prepared'[d] # None /\ prepared'[d].salt = s
    <2>1. prepared'[d] = prepared[d]
      BY <1>1, PreparedStays DEF PreparedKept
    <2> QED BY <1>1, <2>1 DEF Names
  <1>2. CASE orders'[s] # None /\ orders'[s].draft = d
    BY <1>2, SentAsNamed
  <1>3. ASSUME NEW q \in Procs, mem'[q].order # None, mem'[q].order.salt = s, mem'[q].id = d
        PROVE  Names(s, d)
    <2>1. CASE q = p
      BY <1>3, <2>1, MovesKeepHand DEF HandKept, Names
    <2>2. CASE q # p
      BY <1>3, <2>2, MovesAlone DEF Elsewhere, Names
    <2> QED BY <2>1, <2>2
  <1> QED BY <1>1, <1>2, <1>3 DEF Names

(* A drawn salt was nobody's, and is its draft's from then on.             *)
LEMMA DrawnApart ==
  ASSUME TypeInv, SaltsApart, NEW p \in Procs, Moves(p), Draws(p)
  PROVE  SaltsApart'
  <1>id. PICK id : id = mem[p].id
    OBVIOUS
  <1>0. /\ mem \in [Procs -> Call] /\ mem[p] \in Call
        /\ prepared \in [Drafts -> Order \cup {None}]
    BY TypeInvParts DEF WorldOK
  <1> DEFINE o(s) == [salt |-> s, quote |-> mem[p].draft.quote, review |-> mem[p].review]
  <1>1. PICK new \in Salts :
          /\ Unused(new) /\ orders' = orders
          /\ prepared' = [prepared EXCEPT ![id] = o(new)]
          /\ mem' = [mem EXCEPT ![p] = [mem[p] EXCEPT !.order = o(new)]]
    BY <1>id DEF Draws, Prepare, Remember
  <1>2. o(new).salt = new
    OBVIOUS
  <1> HIDE DEF o
  <1>3. mem'[p].id = id /\ mem'[p].order = o(new)
    BY <1>id, <1>0, <1>1 DEF Call
  <1>4. /\ \A q \in Procs \ {p} : mem'[q] = mem[q]
        /\ \A d \in Drafts \ {id} : prepared'[d] = prepared[d]
        /\ id \in Drafts => prepared'[id] = o(new)
    BY <1>0, <1>1
  <1>5. \A d \in Drafts : ~Names(new, d)
    BY <1>1 DEF Unused, Names
  <1>6. ASSUME NEW s \in Salts, NEW d \in Drafts, Names(s, d)'
        PROVE  (s = new /\ d = id) \/ (Names(s, d) /\ s # new)
    <2>1. CASE prepared'[d] # None /\ prepared'[d].salt = s
      BY <1>2, <1>4, <1>5, <2>1 DEF Names
    <2>2. CASE orders'[s] # None /\ orders'[s].draft = d
      BY <1>1, <1>5, <2>2 DEF Names
    <2>3. ASSUME NEW q \in Procs, mem'[q].order # None, mem'[q].order.salt = s, mem'[q].id = d
          PROVE  (s = new /\ d = id) \/ (Names(s, d) /\ s # new)
      BY <1>2, <1>3, <1>4, <1>5, <2>3 DEF Names
    <2> QED BY <1>6, <2>1, <2>2, <2>3 DEF Names
  <1>7. \A s \in Salts, d \in Drafts : Names(s, d)' => (s = new /\ d = id) \/ (Names(s, d) /\ s # new)
    BY <1>6
  <1> QED BY <1>7 DEF SaltsApart

(* No two drafts ever share a salt.                                        *)
LEMMA SaltsStep ==
  ASSUME TypeInv, SaltsApart, [Next]_vars
  PROVE  SaltsApart'
  <1>1. ASSUME NEW p \in Procs, Moves(p)
        PROVE  SaltsApart'
    BY <1>1, DrawnApart, MovesNameNothing DEF SaltsApart, NamesFall
  <1>2. CASE Others
    <2>1. mem' = mem /\ prepared' = prepared /\ pc' = pc
      BY <1>2 DEF Others, VenueActs, WriteVenueConfig, BreakStaleLock, vars, store
    <2>2. OrdersAge
      BY <2>1, SendLeaves, OnlySendAdds
    <2>3. NamesFall
      BY <2>1, <2>2 DEF NamesFall, Names, OrdersAge
    <2> QED BY <2>3 DEF SaltsApart, NamesFall
  <1> QED BY <1>1, <1>2, NextIsMoves

-----------------------------------------------------------------------------
(* What the venue may do with an order it has.                             *)

(* Refused, killed and cancelled are final; the rest of an order never     *)
(* changes, and none is lost.                                              *)
Final == {"refused", "killed", "cancelled"}

Settles ==
  \A s \in Salts :
    orders[s] # None =>
      /\ orders'[s] # None
      /\ orders'[s].draft = orders[s].draft
      /\ orders'[s].kind = orders[s].kind
      /\ orders'[s].quote = orders[s].quote
      /\ orders[s].state \in Final => orders'[s].state = orders[s].state

(* An order on the book, or under way, is moved on; no other change.       *)
MovedOn(s, state) ==
  /\ orders[s] # None /\ orders[s].state \notin Final
  /\ orders' = [orders EXCEPT ![s].state = state]

LEMMA MovedOnSettles ==
  ASSUME TypeInv, NEW s \in Salts,
         NEW state \in {"flying", "live", "matched", "killed", "cancelled", "refused"},
         MovedOn(s, state)
  PROVE  Settles
  <1>1. /\ orders \in [Salts -> Sent \cup {None}] /\ orders[s] \in Sent
        /\ orders' = [orders EXCEPT ![s] = [orders[s] EXCEPT !.state = state]]
    BY TypeInvParts DEF WorldOK, MovedOn
  <1> DEFINE x == [orders[s] EXCEPT !.state = state]
  <1>2. /\ x \in Sent /\ x.draft = orders[s].draft /\ x.kind = orders[s].kind
        /\ x.quote = orders[s].quote
    BY <1>1 DEF Sent
  <1>3. /\ orders'[s] = x
        /\ \A t \in Salts \ {s} : orders'[t] = orders[t]
    BY <1>1
  <1> HIDE DEF x
  <1>4. x # None
    BY <1>2
  <1> QED BY <1>2, <1>3, <1>4 DEF Settles, MovedOn

LEMMA OrdersSettle ==
  ASSUME TypeInv, [Next]_vars
  PROVE  Settles
  <1>0. orders \in [Salts -> Sent \cup {None}]
    BY TypeInvParts DEF WorldOK
  <1>1. CASE orders' = orders
    BY <1>1 DEF Settles
  <1>2. CASE Others
    <2>1. ASSUME NEW s \in Salts, VenueActs(s)
          PROVE  Settles
      <3>1. \A kind : Fates(kind) \subseteq {"live", "matched", "killed"}
        BY DEF Fates
      <3>2. \E state \in {"live", "matched", "killed"} : MovedOn(s, state)
        BY <2>1, <3>1 DEF VenueActs, MovedOn, Final
      <3> QED BY <3>2, MovedOnSettles
    <2> QED BY <1>1, <1>2, <2>1 DEF Others, WriteVenueConfig, BreakStaleLock, vars
  <1>3. ASSUME NEW p \in Procs, Moves(p)
        PROVE  Settles
    <2> USE DEF Answering, Enter, Stop
    <2>1. CASE Revalidating(p)
      BY <1>1, <2>1 DEF Revalidating, Revalidate, LoadForRevalidate, ClearPrepared,
           ClearApproval, ClearAttempt, ReviseLive, LiveReadFails, Preflight,
           DropReview, StageReview, StoreDraft
    <2>2. CASE Posting(p) /\ ~Send(p)
      BY <1>1, <2>2 DEF Posting, Post, LoadForPost, CheckDenies, CheckPasses, CheckRefuses,
           Acknowledge, Prepare, Bind, PreparedAttempt, Sign, SignedAttempt, SignedDraft
    <2>3. CASE Send(p)
      <3> DEFINE s == mem[p].order.salt
      <3>1. CASE orders[s] = None
        <4>1. PICK x : orders' = [orders EXCEPT ![s] = x]
          BY <2>3, <3>1 DEF Send
        <4>2. \A t \in Salts : orders[t] # None => orders'[t] = orders[t]
          BY <1>0, <3>1, <4>1
        <4> QED BY <4>2 DEF Settles
      <3>2. CASE orders[s] # None
        BY <1>1, <2>3, <3>2 DEF Send
      <3> QED BY <3>1, <3>2
    <2>4. CASE Recording(p)
      BY <1>1, <2>4 DEF Recording, Reconcile, ReconcileAttempt, Audit, WriteReceipt,
           DropPrepared, DropApproval, AnswerDraft, AnswerAttempt
    <2>5. CASE CancelDelete(p)
      <3> DEFINE s == mem[p].receipt.salt
      <3>1. CASE UNCHANGED orders
        BY <1>1, <3>1
      <3>2. CASE ~UNCHANGED orders
        <4>1. MovedOn(s, "cancelled")
          BY <2>5, <3>2 DEF CancelDelete, MovedOn, Final
        <4>2. s \in Salts
          <5>1. mem[p].receipt \in Receipt
            BY <2>5, TypeInvParts DEF CancelDelete, Inside, CallOK, Fits, NeedsReceipt
          <5> QED BY <5>1 DEF Receipt
        <4> QED BY <4>1, <4>2, MovedOnSettles
      <3> QED BY <3>1, <3>2
    <2>6. CASE CancelOpen(p)
      <3>1. UNCHANGED orders \/ \E s \in Salts : MovedOn(s, "cancelled")
        BY <2>6 DEF CancelOpen, MovedOn, Final
      <3> QED BY <1>1, <3>1, MovedOnSettles
    <2>7. CASE Cancelling(p) /\ ~CancelDelete(p) /\ ~CancelOpen(p)
      BY <1>1, <2>7 DEF Cancelling, Cancel, LoadReceipt, CancelReceipt, CancelDraft,
           CancelDiscovered
    <2>8. CASE Creating(p)
      BY <1>1, <2>8 DEF Creating, Create, CreateDraft, CreateReview
    <2>9. CASE Return(p) \/ HostCallFails(p) \/ Kill(p)
      BY <1>1, <2>9 DEF Return, HostCallFails, Kill
    <2> QED BY <1>3, <2>1, <2>2, <2>3, <2>4, <2>5, <2>6, <2>7, <2>8, <2>9 DEF Moves
  <1> QED BY <1>2, <1>3, NextIsMoves

-----------------------------------------------------------------------------
(* What a call remembers of its draft, whatever happens around it.         *)

Recall(call, step) ==
  /\ step \in PostingSteps \ {"check"} => call.draft.quote = call.review.quote
  /\ step \in RevisingSteps => call.draft.status \in OpenStatus \cup {"policy_denied"}
  /\ step = "create_draft" => call.draft.status = "review"

(* Nothing to recall at any other step.                                    *)
LEMMA NothingToRecall ==
  ASSUME NEW call, NEW step,
         step \notin (PostingSteps \ {"check"}) \cup RevisingSteps \cup {"create_draft"}
  PROVE  Recall(call, step)
  BY DEF Recall

LEMMA MovesRecall ==
  ASSUME TypeInv, NEW p \in Procs, Recall(mem[p], pc[p]), Moves(p)
  PROVE  Recall(mem'[p], pc'[p])
  <1>id. PICK id : id = mem[p].id
    OBVIOUS
  <1>0. /\ drafts \in [Drafts -> Draft \cup {None}] /\ reviews \in [Drafts -> Review \cup {None}]
        /\ pc \in [Procs -> AnyStep] /\ mem \in [Procs -> Call] /\ mem[p] \in Call
        /\ Fits(p, mem[p], pc[p])
    BY TypeInvParts DEF WorldOK, CallOK
  <1> USE DEF RevisingSteps, PostingSteps
  <1>1. CASE pc'[p] \notin (PostingSteps \ {"check"}) \cup RevisingSteps \cup {"create_draft"}
    BY <1>1, NothingToRecall
  <1>2. CASE LoadForRevalidate(p)
    <2>0. id \in Drafts
      BY <1>id, <1>0, <1>2 DEF LoadForRevalidate, Inside, Fits
    <2>1. CASE StatusOf(id) = "signing_prepared"
      <3> DEFINE x == [drafts[id] EXCEPT !.status = "review", !.salt = None]
      <3>1. /\ mem'[p] = [mem[p] EXCEPT !.draft = x] /\ pc'[p] = "clear_prepared"
        BY <1>id, <1>0, <1>2, <2>1 DEF LoadForRevalidate, Goto, Remember, Revisable, Stop
      <3>2. drafts[id] \in Draft
        BY <1>0, <2>0, <2>1 DEF StatusOf
      <3>3. x.status = "review"
        BY <3>2 DEF Draft
      <3> HIDE DEF x
      <3>4. mem'[p].draft = x
        BY <1>0, <3>1 DEF Call
      <3> QED BY <3>1, <3>3, <3>4 DEF Recall, OpenStatus
    <2>2. CASE StatusOf(id) \in Revisable
      <3>1. /\ mem'[p] = [mem[p] EXCEPT !.draft = drafts[id]] /\ pc'[p] = "live"
        BY <1>id, <1>0, <1>2, <2>2 DEF LoadForRevalidate, Goto, Remember, Revisable, Stop
      <3>2. mem'[p].draft = drafts[id] /\ drafts[id].status \in Revisable
        BY <1>0, <2>2, <3>1 DEF Call, StatusOf, Revisable
      <3> QED BY <3>1, <3>2 DEF Recall, OpenStatus, Revisable
    <2>3. CASE StatusOf(id) \notin Revisable \cup {"signing_prepared"}
      <3>1. pc'[p] = "return"
        BY <1>id, <1>0, <1>2, <2>3 DEF LoadForRevalidate, Stop, Goto
      <3> QED BY <1>1, <3>1
    <2> QED BY <2>1, <2>2, <2>3
  <1>3. CASE ClearPrepared(p) \/ ClearApproval(p) \/ ClearAttempt(p) \/ DropReview(p)
             \/ StageReview(p)
    <2>1. /\ mem' = mem /\ pc[p] \in RevisingSteps /\ pc'[p] \in RevisingSteps
      BY <1>0, <1>3 DEF ClearPrepared, ClearApproval, ClearAttempt, DropReview, StageReview,
           Inside, Goto
    <2> QED BY <2>1 DEF Recall
  <1>4. CASE ReviseLive(p)
    <2>0. mem[p].draft \in Draft /\ pc[p] = "live"
      BY <1>0, <1>4 DEF ReviseLive, Inside, Fits, NeedsDraft
    <2> DEFINE x(q, status) == [mem[p].draft EXCEPT !.quote = q, !.status = status]
               r(q) == [quote |-> q, warn |-> Warned(mem[p].draft.kind, q),
                        staged |-> TRUE, ack |-> "unset"]
               denied(q) == [mem[p] EXCEPT !.draft = x(q, "policy_denied")]
               passed(q) == [mem[p] EXCEPT !.draft = x(q, "revalidated"), !.review = r(q)]
    <2>1. PICK q \in Quotes :
            mem' = [mem EXCEPT ![p] = denied(q)] \/ mem' = [mem EXCEPT ![p] = passed(q)]
      BY <1>4 DEF ReviseLive, Remember
    <2>2. x(q, "policy_denied").status = "policy_denied" /\ x(q, "revalidated").status = "revalidated"
      BY <2>0 DEF Draft
    <2> HIDE DEF x, r
    <2>3. denied(q).draft = x(q, "policy_denied") /\ passed(q).draft = x(q, "revalidated")
      BY <1>0 DEF Call
    <2> HIDE DEF denied, passed
    <2>4. mem'[p].draft.status \in {"policy_denied", "revalidated"}
      BY <1>0, <2>1, <2>2, <2>3
    <2>5. pc'[p] \in {"drop_review", "stage_review", "preflight"}
      <3>1. \E step \in {"drop_review", "stage_review", "preflight"} : Goto(p, step)
        BY <1>4 DEF ReviseLive
      <3> QED BY <1>0, <3>1 DEF Goto
    <2> QED BY <2>4, <2>5 DEF Recall, OpenStatus
  <1>5. CASE Preflight(p)
    <2>0. mem[p].draft \in Draft /\ pc[p] = "preflight"
      BY <1>0, <1>5 DEF Preflight, Inside, Fits, NeedsDraft
    <2>1. \/ mem' = mem /\ pc'[p] \in {"stage_review", "return"}
          \/ mem' = [mem EXCEPT ![p] = [mem[p] EXCEPT !.draft.status = "review"]]
             /\ pc'[p] = "drop_review"
      BY <1>0, <1>5 DEF Preflight, Stop, Remember, Goto
    <2>2. CASE mem' = mem /\ pc'[p] \in {"stage_review", "return"}
      BY <2>0, <2>2 DEF Recall
    <2>3. CASE mem' = [mem EXCEPT ![p] = [mem[p] EXCEPT !.draft.status = "review"]]
               /\ pc'[p] = "drop_review"
      <3>1. mem'[p].draft.status = "review"
        BY <1>0, <2>0, <2>3 DEF Call, Draft
      <3> QED BY <2>3, <3>1 DEF Recall, OpenStatus
    <2> QED BY <2>1, <2>2, <2>3
  <1>6. CASE CheckDenies(p)
    <2>0. mem[p].draft \in Draft
      BY <1>0, <1>6 DEF CheckDenies, Inside, Fits, NeedsDraft
    <2>1. PICK q \in Quotes : mem' = [mem EXCEPT ![p] =
            [mem[p] EXCEPT !.draft.quote = q, !.draft.status = "policy_denied"]]
      BY <1>6 DEF CheckDenies, Remember
    <2>2. mem'[p].draft.status = "policy_denied"
      BY <1>0, <2>0, <2>1 DEF Call, Draft
    <2>3. pc'[p] = "drop_review"
      BY <1>0, <1>6 DEF CheckDenies, Goto
    <2> QED BY <2>2, <2>3 DEF Recall
  <1>7. CASE CheckPasses(p)
    <2>0. /\ mem[p].draft \in Draft /\ reviews[id] \in Review
      BY <1>id, <1>0, <1>7 DEF CheckPasses, Inside, Fits, NeedsDraft
    <2> DEFINE x == [mem[p].draft EXCEPT !.quote = reviews[id].quote]
               r == [reviews[id] EXCEPT !.ack = mem[p].ack]
               c == [mem[p] EXCEPT !.draft = x, !.review = r, !.cap = cfg.max_daily]
    <2>1. mem'[p] = c /\ pc'[p] = "acknowledge"
      BY <1>id, <1>0, <1>7 DEF CheckPasses, Remember, Goto
    <2>2. x.quote = reviews[id].quote /\ r.quote = reviews[id].quote
      BY <2>0 DEF Draft, Review
    <2> HIDE DEF x, r
    <2>3. c.draft = x /\ c.review = r
      BY <1>0 DEF Call
    <2> HIDE DEF c
    <2> QED BY <2>1, <2>2, <2>3 DEF Recall
  <1>8. CASE Acknowledge(p) \/ PreparedAttempt(p) \/ Sign(p) \/ SignedAttempt(p)
    <2>1. /\ mem' = mem /\ pc[p] \in PostingSteps \ {"check"}
          /\ pc'[p] \in (PostingSteps \ {"check"}) \cup {"return"}
      BY <1>0, <1>8 DEF Acknowledge, PreparedAttempt, Sign, SignedAttempt, Inside, Goto
    <2> QED BY <2>1 DEF Recall
  <1>9. CASE Prepare(p)
    <2>1. PICK o : mem' = [mem EXCEPT ![p] = [mem[p] EXCEPT !.order = o]]
      BY <1>9 DEF Prepare, Remember
    <2>2. mem'[p].draft = mem[p].draft /\ mem'[p].review = mem[p].review
      BY <1>0, <2>1 DEF Call
    <2>3. pc[p] = "prepare" /\ pc'[p] = "bind"
      BY <1>0, <1>9 DEF Prepare, Inside, Goto
    <2> QED BY <2>2, <2>3 DEF Recall
  <1>10. CASE Bind(p) \/ SignedDraft(p)
    <2>0. /\ mem[p].draft \in Draft /\ pc[p] \in PostingSteps \ {"check"}
      BY <1>0, <1>10 DEF Bind, SignedDraft, Inside, Fits, NeedsDraft
    <2> DEFINE b == [mem[p].draft EXCEPT !.status = "signing_prepared",
                                         !.salt = mem[p].order.salt]
               g == [mem[p].draft EXCEPT !.status = "signed"]
    <2>1. \/ mem' = mem
          \/ mem' = [mem EXCEPT ![p] = [mem[p] EXCEPT !.draft = b]]
          \/ mem' = [mem EXCEPT ![p] = [mem[p] EXCEPT !.draft = g]]
      BY <1>10 DEF Bind, SignedDraft, Stop, Remember
    <2>2. b.quote = mem[p].draft.quote /\ g.quote = mem[p].draft.quote
      BY <2>0 DEF Draft
    <2> HIDE DEF b, g
    <2>3. mem'[p].draft.quote = mem[p].draft.quote /\ mem'[p].review = mem[p].review
      BY <1>0, <2>1, <2>2 DEF Call
    <2>4. pc'[p] \in {"prepared_attempt", "send", "return"}
      BY <1>0, <1>10 DEF Bind, SignedDraft, Stop, Goto
    <2> QED BY <2>0, <2>3, <2>4 DEF Recall
  <1>11. CASE Create(p)
    <2> DEFINE draft(kind, q) == [kind |-> kind, quote |-> q, status |-> "review", salt |-> None]
               review(q) == [quote |-> q, warn |-> FALSE, staged |-> FALSE, ack |-> "unset"]
    <2>1. PICK kind \in Kinds, q \in Quotes, n \in NextIds :
            mem'[p] = [Fresh(n, "no") EXCEPT !.draft = draft(kind, q), !.review = review(q)]
      BY <1>0, <1>11 DEF Create, Remember
    <2>2. draft(kind, q).status = "review"
      OBVIOUS
    <2> HIDE DEF draft, review
    <2>3. mem'[p].draft = draft(kind, q)
      BY <2>1 DEF Fresh
    <2>4. pc'[p] = "create_draft"
      BY <1>0, <1>11 DEF Create, Goto
    <2> QED BY <2>2, <2>3, <2>4 DEF Recall
  <1>12. CASE Revalidate(p) \/ Post(p) \/ Cancel(p) \/ CancelDiscovered(p)
              \/ StoreDraft(p) \/ LiveReadFails(p) \/ LoadForPost(p) \/ CheckRefuses(p)
    <2>1. pc'[p] \in {"revalidate", "post", "cancel", "discover", "return", "check"}
      BY <1>0, <1>12 DEF Revalidate, Post, Cancel, CancelDiscovered, Enter, StoreDraft,
         LiveReadFails, LoadForPost, CheckRefuses, Stop, Goto
    <2> QED BY <1>1, <2>1
  <1>13. CASE Send(p) \/ Recording(p) \/ HostCallFails(p) \/ Return(p) \/ Kill(p)
    <2>1. \A s, answer : After(s, answer) \in RecordingSteps \cup {"return"}
      BY DEF After, RecordingSteps
    <2>2. \E step \in RecordingSteps \cup {"return", "idle"} : Goto(p, step)
      BY <1>13, <2>1 DEF Send, Recording, Reconcile, ReconcileAttempt, Audit, WriteReceipt,
         DropPrepared, DropApproval, AnswerDraft, AnswerAttempt, Answering, HostCallFails,
         Return, Kill, RecordingSteps
    <2>3. pc'[p] \in RecordingSteps \cup {"return", "idle"}
      BY <1>0, <2>2 DEF Goto
    <2> QED BY <1>1, <2>3 DEF RecordingSteps
  <1>14. CASE Cancelling(p) \/ CreateDraft(p) \/ CreateReview(p)
    <2>1. pc'[p] \in {"cancel", "discover", "cancel_delete", "cancel_receipt", "cancel_draft",
                      "return", "create_review", "idle"}
      BY <1>0, <1>14 DEF Cancelling, Cancel, CancelDiscovered, Enter, LoadReceipt,
         CancelDelete, CancelReceipt, CancelDraft, CancelOpen, CreateDraft, CreateReview,
         Stop, Goto
    <2> QED BY <1>1, <2>1
  <1> QED BY <1>2, <1>3, <1>4, <1>5, <1>6, <1>7, <1>8, <1>9, <1>10, <1>11, <1>12, <1>13,
             <1>14 DEF Moves, Revalidating, Posting, Cancelling, Creating

-----------------------------------------------------------------------------
(* The post that records, and the cancel, with the order they speak of.    *)

Gone(s) == orders[s].state \in {"refused", "killed"}

(* The order a call holds is the one it sent for its draft.                *)
Sends(call) ==
  LET sent == orders[call.order.salt] IN
  /\ sent # None
  /\ sent.draft = call.id
  /\ sent.kind = call.draft.kind
  /\ sent.quote = call.draft.quote

(* At these steps the outcome is still to be written, and the draft says   *)
(* signed; at those the receipt has been written.                          *)
Pending(step, answer) ==
  \/ step \in {"reconcile", "reconcile_attempt", "answer_draft"}
  \/ step \in {"audit", "receipt"} /\ answer # "ambiguous"
  \/ step \in {"drop_prepared", "drop_approval"} /\ answer # "rejected"

Filed(step, answer) ==
  \/ step \in {"drop_prepared", "drop_approval", "answer_attempt", "cancel_draft"}
  \/ step = "answer_draft" /\ answer # "ambiguous"

(* What is true of the world while call is at step.                        *)
InHand(call, step) ==
  /\ step \in RecordingSteps => Sends(call)
  /\ step \in RecordingSteps \ {"reconcile"} =>
       (Excluded(ReceiptStatus(call.answer), call.draft.kind) => Gone(call.order.salt))
  /\ Pending(step, call.answer) => StatusOf(call.id) = "signed"
  /\ Filed(step, call.answer) => receipts[call.id] # None
  /\ step \in {"cancel_delete", "cancel_receipt"} => receipts[call.id] = call.receipt
  /\ step = "cancel_receipt" =>
       /\ orders[call.receipt.salt] # None
       /\ orders[call.receipt.salt].state = "cancelled"

(* The steps at which it asks for something.                               *)
BusySteps == RecordingSteps \cup {"cancel_delete", "cancel_receipt", "cancel_draft"}

(* A receipt is true of the order it names, an excluded one of an order    *)
(* the venue does not have.                                                *)
TrueReceipt(r, d) ==
  LET sent == orders[r.salt] IN
  /\ sent # None
  /\ sent.draft = d
  /\ sent.kind = r.kind
  /\ sent.quote = r.quote
  /\ Excluded(r.status, r.kind) => Gone(r.salt)
  /\ r.status = "cancelled" => sent.state = "cancelled"

ReceiptsTrue == \A d \in Drafts : receipts[d] # None => TrueReceipt(receipts[d], d)

(* A draft that sent and has no receipt says signed or ambiguous.          *)
Traced ==
  \A s \in Salts :
    orders[s] # None =>
      \/ receipts[orders[s].draft] # None
      \/ StatusOf(orders[s].draft) \in {"signed", "ambiguous"}

(* The inductive invariant behind ReceiptTruth and AcceptedIsAccounted.    *)
RecordsInv ==
  /\ SaltsApart
  /\ ReceiptsTrue
  /\ Traced
  /\ \A p \in Procs : Recall(mem[p], pc[p]) /\ InHand(mem[p], pc[p])

LEMMA IdleHand ==
  ASSUME NEW call, NEW step, step \notin BusySteps
  PROVE  InHand(call, step) /\ InHand(call, step)'
  BY DEF InHand, BusySteps, RecordingSteps, Pending, Filed

(* The order in which the answer is written: a draft that is pending after *)
(* a step was pending before it, and its outcome was not written by it; a  *)
(* receipt that is filed after a step was filed before it or by it.        *)
LEMMA AfterOrder ==
  ASSUME NEW step \in RecordingSteps \ {"reconcile"},
         NEW answer \in {"live", "matched", "unmatched", "rejected", "ambiguous", "open"}
  PROVE  /\ After(step, answer) \in (RecordingSteps \ {"reconcile"}) \cup {"return"}
         /\ Pending(After(step, answer), answer) =>
              Pending(step, answer) /\ step # "answer_draft"
         /\ Filed(After(step, answer), answer) => Filed(step, answer) \/ step = "receipt"
  <1> USE DEF RecordingSteps
  <1>1. After(step, answer) \in (RecordingSteps \ {"reconcile"}) \cup {"return"}
    BY DEF After
  <1>2. Pending(After(step, answer), answer) => Pending(step, answer) /\ step # "answer_draft"
    BY DEF After, Pending, Accepted
  <1>3. Filed(After(step, answer), answer) => Filed(step, answer) \/ step = "receipt"
    BY DEF After, Filed, Accepted
  <1> QED BY <1>1, <1>2, <1>3

(* A true receipt stays true, and a call keeps the order it sent, however  *)
(* the venue moves on.                                                     *)
LEMMA SettlesKeeps ==
  ASSUME TypeInv, Settles
  PROVE  /\ \A r \in Receipt, d \in Drafts : TrueReceipt(r, d) => TrueReceipt(r, d)'
         /\ \A s \in Salts : orders[s] # None /\ Gone(s) => Gone(s)'
         /\ \A c \in Call : c.order \in Order /\ Sends(c) => Sends(c)'
  <1>1. \A s \in Salts : orders[s] # None /\ Gone(s) => Gone(s)'
    BY DEF Settles, Final, Gone
  <1>2. ASSUME NEW r \in Receipt, NEW d \in Drafts, TrueReceipt(r, d)
        PROVE  TrueReceipt(r, d)'
    <2>1. r.salt \in Salts
      BY DEF Receipt
    <2> QED BY <1>1, <1>2, <2>1 DEF TrueReceipt, Settles, Final
  <1>3. ASSUME NEW c \in Call, c.order \in Order, Sends(c)
        PROVE  Sends(c)'
    <2>1. c.order.salt \in Salts
      BY <1>3 DEF Order
    <2> QED BY <1>3, <2>1 DEF Sends, Settles
  <1> QED BY <1>1, <1>2, <1>3

(* The two steps that write receipt.json.                                  *)
LEMMA OnlyTwoFile ==
  ASSUME NEW p \in Procs, Moves(p), ~WriteReceipt(p), ~CancelReceipt(p)
  PROVE  receipts' = receipts
  <1> USE DEF Answering, Enter, Stop, store
  <1>1. CASE Revalidating(p)
    BY <1>1 DEF Revalidating, Revalidate, LoadForRevalidate, ClearPrepared,
         ClearApproval, ClearAttempt, ReviseLive, LiveReadFails, Preflight,
         DropReview, StageReview, StoreDraft
  <1>2. CASE Posting(p)
    BY <1>2 DEF Posting, Post, LoadForPost, CheckDenies, CheckPasses, CheckRefuses,
         Acknowledge, Prepare, Bind, PreparedAttempt, Sign, SignedAttempt, SignedDraft, Send
  <1>3. CASE Recording(p)
    BY <1>3 DEF Recording, Reconcile, ReconcileAttempt, Audit, DropPrepared, DropApproval,
         AnswerDraft, AnswerAttempt
  <1>4. CASE Cancelling(p)
    BY <1>4 DEF Cancelling, Cancel, LoadReceipt, CancelDelete, CancelDraft,
         CancelDiscovered, CancelOpen
  <1>5. CASE Creating(p)
    BY <1>5 DEF Creating, Create, CreateDraft, CreateReview
  <1>6. CASE Return(p) \/ HostCallFails(p) \/ Kill(p)
    BY <1>6 DEF Return, HostCallFails, Kill
  <1> QED BY <1>1, <1>2, <1>3, <1>4, <1>5, <1>6 DEF Moves

(* The order that leaves is new to the venue: its salt is its draft's, and *)
(* its draft has sent none.  What the post hears excludes only what is     *)
(* gone for good.                                                          *)
LEMMA SendInHand ==
  ASSUME TypeInv, TruthInv, ReviewInv, RecordsInv, NEW p \in Procs, Send(p)
  PROVE  InHand(mem[p], pc[p])'
  <1>id. PICK id : id = mem[p].id
    OBVIOUS
  <1>s. PICK s : s = mem[p].order.salt
    OBVIOUS
  <1>0. /\ orders \in [Salts -> Sent \cup {None}] /\ mem \in [Procs -> Call]
        /\ mem[p] \in Call /\ pc \in [Procs -> AnyStep]
        /\ pc[p] = "send" /\ id \in Drafts /\ s \in Salts
        /\ mem[p].order \in Order /\ mem[p].draft \in Draft
        /\ drafts' = drafts /\ receipts' = receipts
    <2>1. mem[p].order \in Order /\ mem[p].draft \in Draft /\ id \in Drafts
      BY <1>id, TypeInvParts DEF Send, Inside, CallOK, Fits, NeedsOrder, NeedsDraft, PostingSteps
    <2> QED BY <1>s, <2>1, TypeInvParts DEF WorldOK, Send, Inside, Order, store
  <1>1. /\ StatusOf(id) = "signed" /\ UnsentFor(id)
        /\ mem[p].order.quote = mem[p].review.quote
        /\ mem[p].draft.quote = mem[p].review.quote
    BY <1>id, <1>0 DEF TruthInv, Knows, ReviewInv, Carries, ReviewSteps, RecordsInv, Recall,
       PostingSteps
  <1>2. orders[s] = None
    <2>1. mem[p].order # None
      BY <1>0
    <2>2. Names(s, id)
      BY <1>id, <1>s, <2>1 DEF Names
    <2>3. orders[s] # None => orders[s].draft \in Drafts /\ Names(s, orders[s].draft)
      BY <1>0 DEF Names, Sent
    <2>4. orders[s] # None => orders[s].draft = id
      BY <1>0, <2>2, <2>3 DEF RecordsInv, SaltsApart
    <2> QED BY <1>0, <1>1, <2>4 DEF UnsentFor
  <1> DEFINE sent(state) == [draft |-> id, kind |-> mem[p].draft.kind,
                             quote |-> mem[p].order.quote, review |-> mem[p].review,
                             state |-> state]
  <1>2a. PICK state \in Fates(mem[p].draft.kind) \cup {"refused", "flying"} :
         \E heard \in Heard(state) :
          /\ orders' = [orders EXCEPT ![s] = sent(state)]
          /\ \/ pc'[p] = "reconcile" /\ mem' = mem
             \/ /\ pc'[p] = "audit"
                /\ heard # "lost"
                /\ mem' = [mem EXCEPT ![p] = [mem[p] EXCEPT !.answer = heard]]
    BY <1>id, <1>s, <1>0, <1>2 DEF Send, Goto, Remember
  <1>3. PICK heard \in Heard(state) :
          /\ orders' = [orders EXCEPT ![s] = sent(state)]
          /\ \/ pc'[p] = "reconcile" /\ mem' = mem
             \/ /\ pc'[p] = "audit"
                /\ heard # "lost"
                /\ mem' = [mem EXCEPT ![p] = [mem[p] EXCEPT !.answer = heard]]
    BY <1>2a
  <1>4. /\ orders'[s] = sent(state)
        /\ sent(state).draft = id /\ sent(state).kind = mem[p].draft.kind
        /\ sent(state).quote = mem[p].draft.quote /\ sent(state).state = state
        /\ sent(state) # None
    <2>1. sent(state) \in Sent
      <3>1. /\ state \in {"flying", "live", "matched", "killed", "cancelled", "refused"}
        BY <1>2a DEF Fates
      <3>2. mem[p].review \in Review
        BY <1>0, TypeInvParts DEF CallOK, Fits, NeedsReview, PostingSteps
      <3> QED BY <1>0, <3>1, <3>2 DEF Sent, Draft, Order
    <2> QED BY <1>0, <1>1, <1>3, <2>1
  <1> HIDE DEF sent
  <1>5. /\ mem'[p].id = id /\ mem'[p].order = mem[p].order /\ mem'[p].draft = mem[p].draft
        /\ pc'[p] = "audit" => mem'[p].answer = heard /\ heard # "lost"
    BY <1>id, <1>0, <1>3 DEF Call
  <1>6. Sends(mem[p])'
    BY <1>s, <1>4, <1>5 DEF Sends
  <1>7. Excluded(ReceiptStatus(heard), mem[p].draft.kind) /\ heard # "lost"
          => state \in {"refused", "killed"}
    <2>1. heard = "rejected" => state \in {"refused", "killed"}
      BY <1>2a, <1>3 DEF Heard, Fates
    <2>2. heard = "unmatched" /\ ~mem[p].draft.kind.rests => state = "killed"
      BY <1>2a, <1>3 DEF Heard, Fates
    <2> QED BY <2>1, <2>2 DEF Excluded, ReceiptStatus
  <1>8. pc'[p] # "reconcile" /\ Excluded(ReceiptStatus(mem'[p].answer), mem'[p].draft.kind)
          => Gone(mem[p].order.salt)'
    BY <1>s, <1>3, <1>4, <1>5, <1>7 DEF Gone
  <1>9. StatusOf(mem[p].id)' = "signed"
    BY <1>0, <1>1, <1>5 DEF StatusOf
  <1> QED BY <1>3, <1>6, <1>8, <1>9 DEF InHand, Filed, Excluded
(* From the first write of an answer to the last.                          *)
LEMMA RecordingInHand ==
  ASSUME TypeInv, TruthInv, RecordsInv, NEW p \in Procs,
         Recording(p) \/ (HostCallFails(p) /\ pc[p] \in BestEffort)
  PROVE  InHand(mem[p], pc[p])'
  <1>id. PICK id : id = mem[p].id
    OBVIOUS
  <1>c. PICK call : call = mem[p]
    OBVIOUS
  <1>0. /\ orders \in [Salts -> Sent \cup {None}] /\ mem \in [Procs -> Call]
        /\ receipts \in [Drafts -> Receipt \cup {None}]
        /\ mem[p] \in Call /\ pc \in [Procs -> AnyStep]
        /\ pc[p] \in RecordingSteps /\ id \in Drafts
        /\ mem[p].order \in Order /\ mem[p].draft \in Draft
        /\ pc[p] # "reconcile" =>
             mem[p].answer \in {"live", "matched", "unmatched", "rejected", "ambiguous", "open"}
    <2>1. pc[p] \in RecordingSteps
      BY DEF Recording, Reconcile, ReconcileAttempt, Audit, WriteReceipt, DropPrepared,
         DropApproval, AnswerDraft, AnswerAttempt, Answering, Inside, RecordingSteps, BestEffort
    <2>2. Fits(p, mem[p], pc[p])
      BY TypeInvParts DEF CallOK
    <2> QED BY <1>id, <2>1, <2>2, TypeInvParts DEF WorldOK, Fits, NeedsOrder, NeedsDraft,
            NeedsAnswer, RecordingSteps
  <1>1. InHand(mem[p], pc[p]) /\ Sends(mem[p])
    BY <1>0 DEF RecordsInv, InHand
  <1>2. CASE Reconcile(p)
    <2>1. PICK a \in {"open", "ambiguous"} :
            /\ mem' = [mem EXCEPT ![p] = [mem[p] EXCEPT !.answer = a]]
            /\ pc'[p] \in {"reconcile_attempt", "answer_draft"}
            /\ pc'[p] = "answer_draft" => a = "ambiguous"
      BY <1>0, <1>2 DEF Reconcile, Goto, Remember
    <2>2. /\ mem'[p].id = id /\ mem'[p].order = mem[p].order /\ mem'[p].draft = mem[p].draft
          /\ mem'[p].answer = a
      BY <1>id, <1>0, <2>1 DEF Call
    <2>3. orders' = orders /\ drafts' = drafts /\ pc[p] = "reconcile"
      BY <1>2 DEF Reconcile, Inside, store
    <2>4. StatusOf(mem[p].id)' = "signed"
      BY <1>id, <1>1, <2>2, <2>3 DEF InHand, Pending, StatusOf
    <2>5. Sends(mem[p])'
      BY <1>id, <1>1, <2>2, <2>3 DEF Sends
    <2>6. ~Excluded(ReceiptStatus(a), mem[p].draft.kind)
      BY DEF Excluded, ReceiptStatus
    <2> QED BY <2>1, <2>2, <2>4, <2>5, <2>6 DEF InHand, Pending, Filed
  <1>3. CASE (Recording(p) /\ ~Reconcile(p)) \/ (HostCallFails(p) /\ pc[p] \in BestEffort)
    <2>1. /\ pc[p] \in RecordingSteps \ {"reconcile"}
          /\ mem' = mem /\ orders' = orders
          /\ Goto(p, After(pc[p], mem[p].answer))
      BY <1>3 DEF Recording, ReconcileAttempt, Audit, WriteReceipt, DropPrepared,
         DropApproval, AnswerDraft, AnswerAttempt, Answering, Inside, RecordingSteps,
         BestEffort, HostCallFails, CreateSteps
    <2>2. pc'[p] = After(pc[p], call.answer)
      BY <1>c, <1>0, <2>1 DEF Goto
    <2>3. /\ pc'[p] \in (RecordingSteps \ {"reconcile"}) \cup {"return"}
          /\ Pending(pc'[p], call.answer) =>
               Pending(pc[p], call.answer) /\ pc[p] # "answer_draft"
          /\ Filed(pc'[p], call.answer) => Filed(pc[p], call.answer) \/ pc[p] = "receipt"
      BY <1>c, <1>0, <2>1, <2>2, AfterOrder
    <2>4. Sends(mem[p])' /\ mem'[p] = call /\ mem[p] = call
      BY <1>c, <1>1, <2>1 DEF Sends
    <2>5. Excluded(ReceiptStatus(call.answer), call.draft.kind) => Gone(call.order.salt)'
      BY <1>c, <1>1, <2>1 DEF InHand, Gone
    <2>6. Pending(pc'[p], call.answer) => StatusOf(call.id)' = "signed"
      <3>1. CASE pc[p] = "answer_draft"
        BY <2>3, <3>1
      <3>2. CASE pc[p] # "answer_draft"
        <4>1. drafts' = drafts
          BY <1>3, <3>2 DEF Recording, ReconcileAttempt, Audit, WriteReceipt, DropPrepared,
             DropApproval, AnswerDraft, AnswerAttempt, Answering, Inside, HostCallFails, store
        <4> QED BY <1>c, <1>1, <2>3, <4>1 DEF InHand, StatusOf
      <3> QED BY <3>1, <3>2
    <2>7. Filed(pc'[p], call.answer) => receipts'[call.id] # None
      <3>1. CASE pc[p] = "receipt"
        <4> DEFINE r == [kind |-> call.draft.kind, salt |-> call.order.salt,
                         quote |-> call.draft.quote, status |-> ReceiptStatus(call.answer)]
        <4>1. receipts' = [receipts EXCEPT ![id] = r]
          BY <1>id, <1>c, <1>3, <3>1 DEF Recording, ReconcileAttempt, Audit, WriteReceipt,
             DropPrepared, DropApproval, AnswerDraft, AnswerAttempt, Answering, Inside,
             HostCallFails, BestEffort
        <4>2. r \in Receipt
          BY <1>c, <1>0, <3>1 DEF Receipt, Draft, Order, ReceiptStatus, Accepted
        <4> HIDE DEF r
        <4> QED BY <1>id, <1>c, <1>0, <4>1, <4>2
      <3>2. CASE pc[p] # "receipt"
        <4>1. receipts' = receipts
          BY <1>3, <3>2 DEF Recording, ReconcileAttempt, Audit, WriteReceipt, DropPrepared,
             DropApproval, AnswerDraft, AnswerAttempt, Answering, Inside, HostCallFails, store
        <4> QED BY <1>c, <1>1, <2>3, <3>2, <4>1 DEF InHand
      <3> QED BY <3>1, <3>2
    <2> QED BY <2>3, <2>4, <2>5, <2>6, <2>7 DEF InHand, RecordingSteps
  <1> QED BY <1>2, <1>3

(* A cancel holds its draft's receipt; it writes "cancelled" only once the *)
(* venue has cancelled, which is final.                                    *)
LEMMA CancellingInHand ==
  ASSUME TypeInv, RecordsInv, NEW p \in Procs,
         LoadReceipt(p) \/ CancelDelete(p) \/ CancelReceipt(p)
  PROVE  InHand(mem[p], pc[p])'
  <1>id. PICK id : id = mem[p].id
    OBVIOUS
  <1>0. /\ orders \in [Salts -> Sent \cup {None}] /\ mem \in [Procs -> Call]
        /\ receipts \in [Drafts -> Receipt \cup {None}]
        /\ mem[p] \in Call /\ pc \in [Procs -> AnyStep]
        /\ Fits(p, mem[p], pc[p]) /\ InHand(mem[p], pc[p])
    BY TypeInvParts DEF WorldOK, CallOK, RecordsInv
  <1>1. CASE pc'[p] = "return"
    <2>1. "return" \notin BusySteps
      BY DEF BusySteps, RecordingSteps
    <2>2. pc'[p] \notin BusySteps
      BY <1>1, <2>1
    <2> QED BY <2>2, IdleHand DEF InHand, BusySteps, RecordingSteps, Pending, Filed
  <1>2. CASE LoadReceipt(p) /\ pc'[p] # "return"
    <2>1. \/ /\ ReceiptStatusOf(id) = "cancelled" /\ mem' = mem /\ pc'[p] = "cancel_draft"
          \/ /\ ReceiptStatusOf(id) \in Accepted /\ pc'[p] = "cancel_delete"
             /\ mem' = [mem EXCEPT ![p] = [mem[p] EXCEPT !.receipt = receipts[id]]]
      BY <1>id, <1>0, <1>2 DEF LoadReceipt, Goto, Remember, Stop
    <2>2. receipts' = receipts
      BY <1>2 DEF LoadReceipt, Stop, store
    <2>3. CASE pc'[p] = "cancel_draft"
      <3>1. receipts[id] # None /\ mem'[p].id = id
        BY <1>id, <2>1, <2>3 DEF ReceiptStatusOf
      <3> QED BY <2>2, <2>3, <3>1 DEF InHand, RecordingSteps, Pending, Filed
    <2>4. CASE pc'[p] = "cancel_delete"
      <3>1. mem'[p].id = id /\ mem'[p].receipt = receipts[id]
        BY <1>id, <1>0, <2>1, <2>4 DEF Call
      <3> QED BY <2>2, <2>4, <3>1 DEF InHand, RecordingSteps, Pending, Filed
    <2> QED BY <2>1, <2>3, <2>4
  <1>3. CASE CancelDelete(p) /\ pc'[p] # "return"
    <2> DEFINE s == mem[p].receipt.salt
    <2>1. /\ pc[p] = "cancel_delete" /\ pc'[p] = "cancel_receipt" /\ mem' = mem
          /\ receipts' = receipts /\ orders[s] # None
          /\ orders' = [orders EXCEPT ![s].state = "cancelled"]
      BY <1>0, <1>3 DEF CancelDelete, Inside, Goto, Stop, store
    <2>2. s \in Salts /\ orders[s] \in Sent
      <3>1. mem[p].receipt \in Receipt
        BY <1>0, <2>1 DEF Fits, NeedsReceipt
      <3> QED BY <1>0, <2>1, <3>1 DEF Receipt
    <2>3. orders'[s] # None /\ orders'[s].state = "cancelled"
      <3> DEFINE x == [orders[s] EXCEPT !.state = "cancelled"]
      <3>1. orders' = [orders EXCEPT ![s] = x]
        BY <2>1
      <3>2. x \in Sent /\ x.state = "cancelled"
        BY <2>2 DEF Sent
      <3> HIDE DEF x
      <3> QED BY <1>0, <2>2, <3>1, <3>2
    <2> QED BY <1>0, <2>1, <2>3 DEF InHand, RecordingSteps, Pending, Filed
  <1>4. CASE CancelReceipt(p)
    <2> DEFINE x == [mem[p].receipt EXCEPT !.status = "cancelled"]
    <2>1. /\ pc'[p] = "cancel_draft" /\ mem' = mem /\ id \in Drafts
          /\ mem[p].receipt \in Receipt /\ receipts' = [receipts EXCEPT ![id] = x]
      BY <1>id, <1>0, <1>4 DEF CancelReceipt, Inside, Goto, Fits, NeedsReceipt
    <2>2. x \in Receipt
      BY <2>1 DEF Receipt
    <2> HIDE DEF x
    <2>3. receipts'[id] # None
      BY <1>0, <2>1, <2>2
    <2> QED BY <1>id, <2>1, <2>3 DEF InHand, RecordingSteps, Pending, Filed
  <1> QED BY <1>1, <1>2, <1>3, <1>4

(* The moves that lead a call to, or through, the busy steps.              *)
Handling(p) ==
  \/ Send(p) \/ Recording(p) \/ (HostCallFails(p) /\ pc[p] \in BestEffort)
  \/ LoadReceipt(p) \/ CancelDelete(p) \/ CancelReceipt(p)

LEMMA OthersIdle ==
  ASSUME TypeInv, NEW p \in Procs, Moves(p), ~Handling(p)
  PROVE  pc'[p] \notin BusySteps
  <1>0. pc \in [Procs -> AnyStep]
    BY TypeInvParts
  <1> DEFINE Quiet == AnyStep \ BusySteps
  <1>1. \E step \in Quiet : Goto(p, step)
    <2> USE DEF Enter, Stop, AnyStep, LockedSteps, CreateSteps, BusySteps, RecordingSteps
    <2>1. CASE Revalidating(p)
      <3>1. CASE ReviseLive(p)
        <4>1. \E step \in {"drop_review", "stage_review", "preflight"} : Goto(p, step)
          BY <3>1 DEF ReviseLive
        <4> QED BY <4>1
      <3> QED BY <2>1, <3>1 DEF Revalidating, Revalidate, LoadForRevalidate, ClearPrepared,
                   ClearApproval, ClearAttempt, LiveReadFails, Preflight,
                   DropReview, StageReview, StoreDraft
    <2>2. CASE Posting(p)
      <3>1. \E step \in {"post", "check", "drop_review", "acknowledge", "prepare", "bind",
                         "prepared_attempt", "sign", "signed_attempt", "signed_draft", "send",
                         "return"} : Goto(p, step)
        BY <2>2 DEF Handling, Posting, Post, LoadForPost, CheckDenies, CheckPasses,
           CheckRefuses, Acknowledge, Prepare, Bind, PreparedAttempt, Sign, SignedAttempt,
           SignedDraft
      <3> QED BY <3>1
    <2>3. CASE Cancelling(p)
      BY <2>3 DEF Handling, Cancelling, Cancel, CancelDraft, CancelDiscovered, CancelOpen
    <2>4. CASE Creating(p)
      BY <2>4 DEF Creating, Create, CreateDraft, CreateReview
    <2>5. CASE Return(p) \/ Kill(p) \/ HostCallFails(p)
      BY <2>5 DEF Handling, Return, Kill, HostCallFails
    <2> QED BY <2>1, <2>2, <2>3, <2>4, <2>5 DEF Handling, Moves
  <1> QED BY <1>0, <1>1 DEF Goto

LEMMA MoverInHand ==
  ASSUME TypeInv, TruthInv, ReviewInv, RecordsInv, NEW p \in Procs, Moves(p)
  PROVE  InHand(mem[p], pc[p])'
  <1>1. CASE Handling(p)
    BY <1>1, SendInHand, RecordingInHand, CancellingInHand DEF Handling
  <1>2. CASE ~Handling(p)
    BY <1>2, OthersIdle, IdleHand DEF InHand, BusySteps, RecordingSteps, Pending, Filed
  <1> QED BY <1>1, <1>2

(* The lock keeps the calls that do not move from being surprised.         *)
LEMMA OthersInHand ==
  ASSUME Careful, TypeInv, Exclusive, TruthInv, RecordsInv, Settles,
         NEW p \in Procs, Moves(p), NEW q \in Procs \ {p}
  PROVE  InHand(mem[q], pc[q])'
  <1>id. PICK id : id = mem[q].id
    OBVIOUS
  <1>0. /\ mem'[q] = mem[q] /\ pc'[q] = pc[q] /\ mem[q] \in Call
        /\ CallOK(p) /\ CallOK(q) /\ Fits(q, mem[q], pc[q])
        /\ InHand(mem[q], pc[q]) /\ Knows(p)
    BY MovesAlone, TypeInvParts DEF Elsewhere, TruthInv, CallOK, RecordsInv
  <1>1. CASE pc[q] \notin BusySteps
    BY <1>0, <1>1 DEF InHand, BusySteps, RecordingSteps, Pending, Filed
  <1>2. CASE pc[q] \in BusySteps
    <2>1. pc[q] \in LockedSteps /\ pc[p] \notin LockedSteps /\ id \in Drafts
      <3>1. pc[q] \in LockedSteps
        BY <1>2 DEF BusySteps, RecordingSteps, LockedSteps
      <3>2. pc[p] \notin LockedSteps
        BY <1>0, <3>1 DEF CallOK, Exclusive, Careful
      <3>3. id \in Drafts
        BY <1>id, <1>0, <1>2 DEF Fits, BusySteps, RecordingSteps
      <3> QED BY <3>1, <3>2, <3>3
    <2>2. receipts' = receipts
      <3>1. ~WriteReceipt(p) /\ ~CancelReceipt(p)
        BY <2>1 DEF WriteReceipt, CancelReceipt, Answering, Inside, LockedSteps
      <3> QED BY <3>1, OnlyTwoFile
    <2>3. StatusOf(id) = "signed" => StatusOf(id)' = "signed"
      <3>1. CASE CreateDraft(p)
        <4>1. drafts[mem[p].id] = None /\ WriteOK(p)
          BY <3>1, WritingKeeps DEF CreateDraft, Inside, TruthInv, Knows, Writing
        <4> QED BY <2>1, <4>1 DEF WriteOK, StatusOf
      <3>2. CASE ~CreateDraft(p)
        <4>1. ~Writing(p)
          BY <2>1, <3>2 DEF Writing, StoreDraft, Bind, SignedDraft, AnswerDraft,
             CancelDraft, Answering, Inside, LockedSteps
        <4>2. drafts' = drafts
          BY <4>1, OnlyWritingWrites
        <4> QED BY <4>2 DEF StatusOf
      <3> QED BY <3>1, <3>2
    <2>4. pc[q] \in RecordingSteps =>
            /\ Sends(mem[q])'
            /\ Excluded(ReceiptStatus(mem[q].answer), mem[q].draft.kind)
                 /\ pc[q] # "reconcile" => Gone(mem[q].order.salt)'
      <3>1. SUFFICES ASSUME pc[q] \in RecordingSteps
                     PROVE  /\ Sends(mem[q])'
                            /\ Excluded(ReceiptStatus(mem[q].answer), mem[q].draft.kind)
                                 /\ pc[q] # "reconcile" => Gone(mem[q].order.salt)'
        OBVIOUS
      <3>2. mem[q].order \in Order /\ Sends(mem[q])
        BY <1>0, <3>1 DEF Fits, NeedsOrder, InHand
      <3>3. PICK c : c = mem[q]
        OBVIOUS
      <3>4. c.order.salt \in Salts /\ orders[c.order.salt] # None
        BY <3>2, <3>3 DEF Order, Sends
      <3>5. Sends(c)' /\ (Gone(c.order.salt) => Gone(c.order.salt)')
        BY <1>0, <3>2, <3>3, <3>4, SettlesKeeps
      <3>6. Sends(mem[q])'
        BY <1>0, <3>3, <3>5 DEF Sends
      <3>7. Gone(mem[q].order.salt) => Gone(mem[q].order.salt)'
        BY <1>0, <3>3, <3>5 DEF Gone
      <3> QED BY <1>0, <3>1, <3>6, <3>7 DEF InHand
    <2>5. pc[q] = "cancel_receipt" =>
            /\ orders'[mem[q].receipt.salt] # None
            /\ orders'[mem[q].receipt.salt].state = "cancelled"
      <3>1. SUFFICES ASSUME pc[q] = "cancel_receipt"
                     PROVE  /\ orders'[mem[q].receipt.salt] # None
                            /\ orders'[mem[q].receipt.salt].state = "cancelled"
        OBVIOUS
      <3>2. mem[q].receipt.salt \in Salts
        <4>1. mem[q].receipt \in Receipt
          BY <1>0, <3>1 DEF Fits, NeedsReceipt
        <4> QED BY <4>1 DEF Receipt
      <3> QED BY <1>0, <3>1, <3>2 DEF InHand, Settles, Final
    <2>6. /\ mem'[q].id = id /\ mem[q].id = id
      BY <1>id, <1>0
    <2>7. (Pending(pc[q], mem[q].answer) => StatusOf(mem[q].id) = "signed")'
      BY <1>0, <2>3, <2>6 DEF InHand, StatusOf
    <2>8. (Filed(pc[q], mem[q].answer) => receipts[mem[q].id] # None)'
      BY <1>0, <2>2, <2>6 DEF InHand
    <2>9. (pc[q] \in {"cancel_delete", "cancel_receipt"} => receipts[mem[q].id] = mem[q].receipt)'
      BY <1>0, <2>2, <2>6 DEF InHand
    <2>10. (pc[q] \in RecordingSteps => Sends(mem[q]))'
      BY <1>0, <2>4
    <2>11. (pc[q] \in RecordingSteps \ {"reconcile"} =>
             (Excluded(ReceiptStatus(mem[q].answer), mem[q].draft.kind)
                => Gone(mem[q].order.salt)))'
      BY <1>0, <2>4 DEF Excluded, ReceiptStatus
    <2>12. (pc[q] = "cancel_receipt" =>
             /\ orders[mem[q].receipt.salt] # None
             /\ orders[mem[q].receipt.salt].state = "cancelled")'
      BY <1>0, <2>5
    <2> QED BY <2>7, <2>8, <2>9, <2>10, <2>11, <2>12 DEF InHand
  <1> QED BY <1>1, <1>2

-----------------------------------------------------------------------------
(* The receipts stay true, and the orders stay traced.                     *)

(* A receipt that is written is true when it is.                           *)
LEMMA FilingIsTrue ==
  ASSUME TypeInv, RecordsInv, NEW p \in Procs, WriteReceipt(p) \/ CancelReceipt(p)
  PROVE  \E r \in Receipt :
           /\ mem[p].id \in Drafts
           /\ receipts' = [receipts EXCEPT ![mem[p].id] = r]
           /\ orders' = orders
           /\ TrueReceipt(r, mem[p].id)
  <1>id. PICK id : id = mem[p].id
    OBVIOUS
  <1>0. /\ Fits(p, mem[p], pc[p]) /\ InHand(mem[p], pc[p])
    BY TypeInvParts DEF CallOK, RecordsInv
  <1>1. CASE WriteReceipt(p)
    <2> DEFINE r == [kind |-> mem[p].draft.kind, salt |-> mem[p].order.salt,
                     quote |-> mem[p].draft.quote, status |-> ReceiptStatus(mem[p].answer)]
    <2>1. /\ pc[p] = "receipt" /\ orders' = orders
          /\ receipts' = [receipts EXCEPT ![id] = r]
      BY <1>id, <1>1 DEF WriteReceipt, Answering, Inside
    <2>2. /\ id \in Drafts /\ mem[p].draft \in Draft /\ mem[p].order \in Order
          /\ mem[p].answer \in {"live", "matched", "unmatched", "rejected", "ambiguous", "open"}
      BY <1>id, <1>0, <2>1 DEF Fits, NeedsDraft, NeedsOrder, NeedsAnswer, RecordingSteps
    <2>3. r \in Receipt /\ r.status # "cancelled"
      BY <2>2 DEF Receipt, Draft, Order, ReceiptStatus, Accepted
    <2>4. /\ Sends(mem[p])
          /\ Excluded(ReceiptStatus(mem[p].answer), mem[p].draft.kind) => Gone(mem[p].order.salt)
      BY <1>0, <2>1 DEF InHand, RecordingSteps
    <2>5. /\ r.kind = mem[p].draft.kind /\ r.salt = mem[p].order.salt
          /\ r.quote = mem[p].draft.quote /\ r.status = ReceiptStatus(mem[p].answer)
      OBVIOUS
    <2> HIDE DEF r
    <2>6. TrueReceipt(r, id)
      BY <1>id, <2>3, <2>4, <2>5 DEF TrueReceipt, Sends
    <2> QED BY <1>id, <2>1, <2>2, <2>3, <2>6
  <1>2. CASE CancelReceipt(p)
    <2> DEFINE r == [mem[p].receipt EXCEPT !.status = "cancelled"]
    <2>1. /\ pc[p] = "cancel_receipt" /\ orders' = orders
          /\ receipts' = [receipts EXCEPT ![id] = r]
      BY <1>id, <1>2 DEF CancelReceipt, Inside
    <2>2. id \in Drafts /\ mem[p].receipt \in Receipt
      BY <1>id, <1>0, <2>1 DEF Fits, NeedsReceipt
    <2>3. /\ r \in Receipt /\ r.status = "cancelled" /\ r.kind = mem[p].receipt.kind
          /\ r.salt = mem[p].receipt.salt /\ r.quote = mem[p].receipt.quote
      BY <2>2 DEF Receipt
    <2> HIDE DEF r
    <2>4. /\ receipts[id] = mem[p].receipt /\ receipts[id] # None
          /\ orders[mem[p].receipt.salt].state = "cancelled"
      BY <1>id, <1>0, <2>1, <2>2 DEF InHand
    <2>5. TrueReceipt(mem[p].receipt, id)
      BY <2>2, <2>4 DEF RecordsInv, ReceiptsTrue
    <2>6. ~Excluded("cancelled", r.kind)
      BY DEF Excluded
    <2>7. TrueReceipt(r, id)
      BY <2>3, <2>4, <2>5, <2>6 DEF TrueReceipt
    <2> QED BY <1>id, <2>1, <2>2, <2>3, <2>7
  <1> QED BY <1>1, <1>2

LEMMA ReceiptsStayTrue ==
  ASSUME TypeInv, RecordsInv, Settles, NEW p \in Procs, Moves(p)
  PROVE  ReceiptsTrue' /\ \A d \in Drafts : receipts[d] # None => receipts'[d] # None
  <1>0. receipts \in [Drafts -> Receipt \cup {None}] /\ ReceiptsTrue
    BY TypeInvParts DEF WorldOK, RecordsInv
  <1>1. ASSUME NEW d \in Drafts, receipts'[d] = receipts[d], receipts[d] # None
        PROVE  TrueReceipt(receipts[d], d)'
    <2>1. PICK r \in Receipt : r = receipts[d]
      BY <1>0, <1>1
    <2>2. TrueReceipt(r, d)'
      BY <1>0, <1>1, <2>1, SettlesKeeps DEF ReceiptsTrue
    <2> QED BY <1>1, <2>1, <2>2 DEF TrueReceipt, Gone
  <1>2. CASE receipts' = receipts
    BY <1>1, <1>2 DEF ReceiptsTrue
  <1>3. CASE receipts' # receipts
    <2>1. PICK r \in Receipt :
            /\ mem[p].id \in Drafts
            /\ receipts' = [receipts EXCEPT ![mem[p].id] = r]
            /\ orders' = orders
            /\ TrueReceipt(r, mem[p].id)
      BY <1>3, OnlyTwoFile, FilingIsTrue
    <2>2. PICK id \in Drafts : id = mem[p].id
      BY <2>1
    <2>3. /\ receipts'[id] = r
          /\ \A d \in Drafts \ {id} : receipts'[d] = receipts[d]
      BY <1>0, <2>1, <2>2
    <2>4. TrueReceipt(receipts[id], id)'
      BY <2>1, <2>2, <2>3 DEF TrueReceipt, Gone
    <2>5. \A d \in Drafts : receipts'[d] # None => TrueReceipt(receipts[d], d)'
      BY <1>1, <2>3, <2>4
    <2> QED BY <2>3, <2>5 DEF ReceiptsTrue
  <1> QED BY <1>2, <1>3

Tracing == {"signed", "ambiguous"}

(* A draft leaves signed and ambiguous only with a receipt.                *)
LEMMA TraceLeavesWithReceipt ==
  ASSUME TypeInv, TruthInv, RecordsInv, NEW p \in Procs, Moves(p), NEW d \in Drafts,
         StatusOf(d) \in Tracing
  PROVE  StatusOf(d)' \in Tracing \/ receipts[d] # None
  <1>id. PICK id : id = mem[p].id
    OBVIOUS
  <1>0. /\ Fits(p, mem[p], pc[p]) /\ InHand(mem[p], pc[p]) /\ Knows(p)
    BY TypeInvParts DEF CallOK, RecordsInv, TruthInv
  <1>1. CASE drafts'[d] = drafts[d]
    BY <1>1 DEF StatusOf
  <1>2. CASE drafts'[d] # drafts[d]
    <2>1. Writing(p)
      BY <1>2, OnlyWritingWrites
    <2>2. d = id
      BY <1>id, <1>2, <2>1, WritingKeeps DEF WriteOK
    <2>3. CASE StoreDraft(p) \/ Bind(p) \/ SignedDraft(p) \/ CreateDraft(p)
      <3>1. pc[p] \in OpenSteps \cup {"create_draft"}
        BY <2>3 DEF StoreDraft, Bind, SignedDraft, CreateDraft, Inside, OpenSteps,
           RevisingSteps, PostingSteps
      <3>2. StatusOf(id) \in OpenStatus \cup {"absent"}
        BY <1>id, <1>0, <3>1 DEF Knows, StatusOf
      <3> QED BY <2>2, <3>2 DEF Tracing, OpenStatus
    <2>4. CASE AnswerDraft(p)
      <3> DEFINE x == [mem[p].draft EXCEPT !.status = Outcome(mem[p])]
      <3>1. pc[p] = "answer_draft" /\ drafts' = [drafts EXCEPT ![id] = x]
        BY <1>id, <2>4 DEF AnswerDraft, Answering, Inside
      <3>2. mem[p].draft \in Draft
        BY <1>0, <3>1 DEF Fits, NeedsDraft, RecordingSteps
      <3>3. CASE mem[p].answer = "ambiguous"
        <4>1. x \in Draft /\ x.status = "ambiguous"
          BY <3>2, <3>3 DEF Draft, DraftStatus, Outcome
        <4> HIDE DEF x
        <4>2. StatusOf(d)' = "ambiguous"
          BY <2>2, <3>1, <4>1, Overwrite
        <4> QED BY <4>2 DEF Tracing
      <3>4. CASE mem[p].answer # "ambiguous"
        BY <1>id, <1>0, <2>2, <3>1, <3>4 DEF InHand, Filed
      <3> QED BY <3>3, <3>4
    <2>5. CASE CancelDraft(p)
      BY <1>id, <1>0, <2>2, <2>5 DEF CancelDraft, Inside, InHand, Filed
    <2> QED BY <2>1, <2>3, <2>4, <2>5 DEF Writing
  <1> QED BY <1>1, <1>2

LEMMA TracedStep ==
  ASSUME TypeInv, TruthInv, RecordsInv, Settles, NEW p \in Procs, Moves(p)
  PROVE  Traced'
  <1> SUFFICES ASSUME NEW s \in Salts, orders'[s] # None
               PROVE  \/ receipts'[orders'[s].draft] # None
                      \/ StatusOf(orders[s].draft)' \in Tracing
    BY DEF Traced, Tracing
  <1>0. orders \in [Salts -> Sent \cup {None}]
    BY TypeInvParts DEF WorldOK
  <1>1. CASE orders[s] # None
    <2>1. PICK d \in Drafts : d = orders[s].draft
      BY <1>0, <1>1 DEF Sent
    <2>2. orders'[s].draft = d
      BY <1>1, <2>1 DEF Settles
    <2>3. receipts[d] # None \/ StatusOf(d) \in Tracing
      BY <1>1, <2>1 DEF RecordsInv, Traced, Tracing
    <2>4. receipts'[d] # None \/ StatusOf(d)' \in Tracing
      BY <2>3, TraceLeavesWithReceipt, ReceiptsStayTrue
    <2> QED BY <2>2, <2>4 DEF StatusOf
  <1>2. CASE orders[s] = None
    <2>1. Send(p)
      BY <1>2, SendsAlone, OnlySendAdds, NextHasMoves DEF OrdersAge
    <2>2. PICK id : id = mem[p].id
      OBVIOUS
    <2>3. StatusOf(id) = "signed" /\ drafts' = drafts
      BY <2>1, <2>2 DEF TruthInv, Knows, Send, Inside, store
    <2> DEFINE sent(state) == [draft |-> mem[p].id, kind |-> mem[p].draft.kind,
                               quote |-> mem[p].order.quote, review |-> mem[p].review,
                               state |-> state]
    <2>4. orders' = orders
          \/ \E state : orders' = [orders EXCEPT ![mem[p].order.salt] = sent(state)]
      BY <2>1 DEF Send
    <2>5. \A state : sent(state).draft = id
      BY <2>2
    <2> HIDE DEF sent
    <2>6. orders'[s].draft = id
      BY <1>0, <1>2, <2>4, <2>5
    <2>7. StatusOf(id)' = "signed"
      BY <2>3 DEF StatusOf
    <2> QED BY <2>6, <2>7 DEF Tracing, StatusOf
  <1> QED BY <1>1, <1>2

(* Every step keeps RecordsInv.                                            *)
LEMMA RecordsStep ==
  ASSUME Careful, TypeInv, Exclusive, TruthInv, ReviewInv, RecordsInv, [Next]_vars
  PROVE  RecordsInv'
  <1>0. SaltsApart' /\ Settles
    BY SaltsStep, OrdersSettle DEF RecordsInv
  <1>1. ASSUME NEW p \in Procs, Moves(p)
        PROVE  RecordsInv'
    <2>1. ReceiptsTrue' /\ Traced'
      BY <1>0, <1>1, ReceiptsStayTrue, TracedStep
    <2>2. ASSUME NEW q \in Procs
          PROVE  Recall(mem[q], pc[q])' /\ InHand(mem[q], pc[q])'
      <3>1. CASE q = p
        <4>1. Recall(mem[p], pc[p])
          BY DEF RecordsInv
        <4>2. Recall(mem'[p], pc'[p]) /\ InHand(mem[p], pc[p])'
          BY <1>1, <4>1, MovesRecall, MoverInHand
        <4> QED BY <3>1, <4>2 DEF Recall
      <3>2. CASE q # p
        <4>1. Recall(mem'[q], pc'[q])
          BY <1>1, <3>2, MovesAlone DEF Elsewhere, RecordsInv
        <4>2. InHand(mem[q], pc[q])'
          BY <1>0, <1>1, <3>2, OthersInHand
        <4> QED BY <4>1, <4>2 DEF Recall
      <3> QED BY <3>1, <3>2
    <2> QED BY <1>0, <2>1, <2>2 DEF RecordsInv
  <1>2. CASE Others
    <2>1. /\ pc' = pc /\ mem' = mem /\ drafts' = drafts /\ receipts' = receipts
      BY <1>2 DEF Others, VenueActs, WriteVenueConfig, BreakStaleLock, vars, store
    <2>2. OrdersAge
      BY <2>1, SendLeaves, OnlySendAdds
    <2>3. /\ receipts \in [Drafts -> Receipt \cup {None}] /\ ReceiptsTrue /\ Traced
      BY TypeInvParts DEF WorldOK, RecordsInv
    <2>4. ReceiptsTrue'
      <3> SUFFICES ASSUME NEW d \in Drafts, receipts[d] # None
                   PROVE  TrueReceipt(receipts[d], d)'
        BY <2>1 DEF ReceiptsTrue
      <3>1. PICK r \in Receipt : r = receipts[d]
        BY <2>3
      <3>2. TrueReceipt(r, d)'
        BY <1>0, <2>3, <3>1, SettlesKeeps DEF ReceiptsTrue
      <3> QED BY <2>1, <3>1, <3>2 DEF TrueReceipt, Gone
    <2>5. Traced'
      BY <2>1, <2>2, <2>3 DEF Traced, OrdersAge, StatusOf
    <2>6. ASSUME NEW q \in Procs
          PROVE  Recall(mem[q], pc[q])' /\ InHand(mem[q], pc[q])'
      <3>1. PICK c \in Call : c = mem[q]
        BY TypeInvParts
      <3>2. PICK step : step = pc[q]
        OBVIOUS
      <3>3. Recall(c, step) /\ InHand(c, step) /\ Fits(q, c, step)
        BY <3>1, <3>2, TypeInvParts DEF RecordsInv, CallOK
      <3>4. step \in RecordingSteps => c.order \in Order /\ c.order.salt \in Salts
        <4>1. step \in RecordingSteps => c.order \in Order
          BY <3>3 DEF Fits, NeedsOrder
        <4> QED BY <4>1 DEF Order
      <3>5. step \in RecordingSteps => Sends(c) /\ Sends(c)'
        BY <1>0, <3>3, <3>4, SettlesKeeps DEF InHand
      <3>6. step \in RecordingSteps /\ Gone(c.order.salt) => Gone(c.order.salt)'
        BY <1>0, <3>4, <3>5, SettlesKeeps DEF Sends
      <3>7. step = "cancel_receipt" =>
              /\ orders'[c.receipt.salt] # None
              /\ orders'[c.receipt.salt].state = "cancelled"
        <4>1. step = "cancel_receipt" => c.receipt \in Receipt
          BY <3>3 DEF Fits, NeedsReceipt
        <4>2. step = "cancel_receipt" => c.receipt.salt \in Salts
          BY <4>1 DEF Receipt
        <4> QED BY <1>0, <3>3, <4>2 DEF InHand, Settles, Final
      <3>8. InHand(c, step)'
        BY <2>1, <3>3, <3>5, <3>6, <3>7 DEF InHand, StatusOf
      <3> QED BY <2>1, <3>1, <3>2, <3>3, <3>8
           DEF Recall, InHand, Sends, Gone, StatusOf
    <2> QED BY <1>0, <2>4, <2>5, <2>6 DEF RecordsInv
  <1> QED BY <1>1, <1>2, NextIsMoves

LEMMA RecordsAlways ==
  ASSUME Careful
  PROVE  Spec => [](TypeInv /\ TruthInv /\ RecordsInv)
  <1>1. Init => TypeInv /\ LockTypeOK /\ Exclusive
    BY InitTypes DEF Init, LockInit, LockTypeOK, Owners, Exclusive
  <1>2. Init => TruthInv
    BY DEF Init, TruthInv, SentClosed, SentApart, Knows, OpenSteps, RevisingSteps,
           PostingSteps, RecordingSteps
  <1>3. Init => ReviewInv
    BY DEF Init, ReviewInv, PreparedOK, ReviewedAsSent, Carries, ReviewSteps
  <1>4. Init => RecordsInv
    <2>1. "idle" \notin (PostingSteps \ {"check"}) \cup RevisingSteps \cup {"create_draft"}
          /\ "idle" \notin BusySteps
      BY DEF PostingSteps, RevisingSteps, BusySteps, RecordingSteps
    <2>2. NoCall.order = None
      BY DEF NoCall, Fresh
    <2>3. Init => SaltsApart /\ ReceiptsTrue /\ Traced
      BY <2>2 DEF Init, SaltsApart, Names, ReceiptsTrue, Traced
    <2>4. Init => \A p \in Procs : Recall(mem[p], pc[p]) /\ InHand(mem[p], pc[p])
      BY <2>1, NothingToRecall, IdleHand DEF Init
    <2> QED BY <2>3, <2>4 DEF RecordsInv
  <1>5. TypeInv /\ LockTypeOK /\ Exclusive /\ TruthInv /\ ReviewInv /\ RecordsInv /\ [Next]_vars
          => TypeInv' /\ LockTypeOK' /\ Exclusive' /\ TruthInv' /\ ReviewInv' /\ RecordsInv'
    BY StepTypes, LockMoves, LockStepKeeps, TruthStep, ReviewStep, RecordsStep
  <1> QED BY <1>1, <1>2, <1>3, <1>4, <1>5, PTL DEF Spec

(* Every receipt names an order that was sent for its draft, of its kind   *)
(* and at the cost it counts; a rejected one left nothing on the venue and *)
(* a cancelled one was cancelled there: whatever was killed or failed      *)
(* between POST /order and the receipt's write, and whatever the venue did *)
(* to the order meanwhile.                                                 *)
THEOREM ReceiptsTellTruth ==
  ASSUME Careful
  PROVE  Spec => []ReceiptTruth
  <1>1. ASSUME TypeInv, RecordsInv, NEW d \in Drafts, receipts[d] # None
        PROVE  LET sent == orders[receipts[d].salt] IN
               /\ sent # None
               /\ sent.draft = d
               /\ sent.kind = receipts[d].kind
               /\ sent.quote = receipts[d].quote
               /\ receipts[d].status = "rejected" => sent.state \in {"refused", "killed"}
               /\ receipts[d].status = "cancelled" => sent.state = "cancelled"
    BY <1>1 DEF RecordsInv, ReceiptsTrue, TrueReceipt, Excluded, Gone
  <1>2. TypeInv /\ RecordsInv => ReceiptTruth
    BY <1>1 DEF ReceiptTruth
  <1> QED BY <1>2, RecordsAlways, PTL

(* An order the venue has or may still get has a receipt that counts       *)
(* against the daily cap, or a draft that says signed or ambiguous: no     *)
(* lost answer, failed write or kill leaves an order nobody can find.      *)
THEOREM OrdersAreAccounted ==
  ASSUME Careful
  PROVE  Spec => []AcceptedIsAccounted
  <1>1. ASSUME TypeInv, TruthInv, RecordsInv, NEW s \in Salts, Reached(s)
        PROVE  LET d == orders[s].draft IN
               \/ receipts[d] # None /\ ~Excluded(receipts[d].status, receipts[d].kind)
               \/ StatusOf(d) \in {"signed", "ambiguous"}
    <2>1. PICK d \in Drafts : d = orders[s].draft /\ orders[s] # None
      BY <1>1, TypeInvParts DEF WorldOK, Sent, Reached
    <2>2. CASE receipts[d] = None
      BY <1>1, <2>1, <2>2 DEF RecordsInv, Traced
    <2>3. CASE receipts[d] # None
      <3>1. receipts[d] \in Receipt /\ TrueReceipt(receipts[d], d)
        BY <1>1, <2>3, TypeInvParts DEF WorldOK, RecordsInv, ReceiptsTrue
      <3>2. receipts[d].salt \in Salts
        BY <3>1 DEF Receipt
      <3>3. receipts[d].salt = s
        BY <1>1, <2>1, <3>1, <3>2 DEF TruthInv, SentApart, TrueReceipt
      <3> QED BY <1>1, <2>1, <2>3, <3>1, <3>3 DEF TrueReceipt, Reached, Gone
    <2> QED BY <2>1, <2>2, <2>3
  <1>2. TypeInv /\ TruthInv /\ RecordsInv => AcceptedIsAccounted
    BY <1>1 DEF AcceptedIsAccounted
  <1> QED BY <1>2, RecordsAlways, PTL

-----------------------------------------------------------------------------
(* Every draft lives the life DraftLife describes.                         *)

(* One order has left for a draft that has one.                            *)
LEMMA SentIsOne ==
  ASSUME TruthInv, NEW d \in Drafts, NEW s \in Salts, orders[s] # None, orders[s].draft = d
  PROVE  Cardinality(SentFor(d)) = 1
  <1>1. SentFor(d) = {s}
    BY DEF TruthInv, SentApart, SentFor
  <1>2. Cardinality({s}) = 1
    BY FS_Singleton
  <1> QED BY <1>1, <1>2

(* Where a write of order.json takes its draft.                            *)
LEMMA WriteLives ==
  ASSUME TypeInv, TruthInv, RecordsInv, NEW p \in Procs, Writing(p), NEW id \in Drafts,
         id = mem[p].id
  PROVE  LET from == Life(StatusOf(id))
             to == Life(StatusOf(id)')
         IN \/ from = to
            \/ from = "none" /\ to = "open"
            \/ from = "open" /\ to \in {"denied", "committed"}
            \/ from = "committed" /\ to = "done" /\ Cardinality(SentFor(id)) = 1
  <1>0. /\ drafts \in [Drafts -> Draft \cup {None}] /\ receipts \in [Drafts -> Receipt \cup {None}]
        /\ Fits(p, mem[p], pc[p]) /\ Knows(p)
        /\ Recall(mem[p], pc[p]) /\ InHand(mem[p], pc[p])
    BY TypeInvParts DEF WorldOK, CallOK, TruthInv, RecordsInv
  <1>1. \A status \in OpenStatus : Life(status) = "open"
    BY DEF Life, OpenStatus
  <1>2. /\ Life("absent") = "none" /\ Life("policy_denied") = "denied"
        /\ Life("signed") = "committed" /\ Life("ambiguous") = "committed"
        /\ Life("posted") = "done" /\ Life("rejected") = "done" /\ Life("cancelled") = "done"
    BY DEF Life, OpenStatus
  <1>3. CASE drafts' = drafts
    BY <1>3 DEF StatusOf
  <1>4. CASE StoreDraft(p)
    <2>1. /\ pc[p] = "store_draft" /\ drafts' = [drafts EXCEPT ![id] = mem[p].draft]
      BY <1>4 DEF StoreDraft, Inside
    <2>2. /\ mem[p].draft \in Draft /\ StatusOf(id) \in OpenStatus
          /\ mem[p].draft.status \in OpenStatus \cup {"policy_denied"}
      BY <1>0, <2>1 DEF Fits, NeedsDraft, RevisingSteps, OpenSteps, Knows, Recall
    <2>3. StatusOf(id)' = mem[p].draft.status
      BY <2>1, <2>2, Overwrite
    <2> QED BY <1>1, <1>2, <2>2, <2>3
  <1>5. CASE Bind(p) /\ drafts' # drafts
    <2> DEFINE x == [mem[p].draft EXCEPT !.status = "signing_prepared",
                                         !.salt = mem[p].order.salt]
    <2>1. pc[p] = "bind" /\ drafts' = [drafts EXCEPT ![id] = x]
      BY <1>5 DEF Bind, Inside, Stop, store
    <2>2. /\ mem[p].draft \in Draft /\ mem[p].order \in Order /\ StatusOf(id) \in OpenStatus
      BY <1>0, <2>1 DEF Fits, NeedsDraft, NeedsOrder, PostingSteps, OpenSteps, Knows
    <2>3. x \in Draft /\ x.status = "signing_prepared"
      BY <2>2 DEF Draft, Order, DraftStatus, OpenStatus
    <2> HIDE DEF x
    <2>4. StatusOf(id)' = "signing_prepared"
      BY <2>1, <2>3, Overwrite
    <2> QED BY <1>1, <2>2, <2>4 DEF OpenStatus
  <1>6. CASE SignedDraft(p)
    <2> DEFINE x == [mem[p].draft EXCEPT !.status = "signed"]
    <2>1. pc[p] = "signed_draft" /\ drafts' = [drafts EXCEPT ![id] = x]
      BY <1>6 DEF SignedDraft, Inside
    <2>2. mem[p].draft \in Draft /\ StatusOf(id) \in OpenStatus
      BY <1>0, <2>1 DEF Fits, NeedsDraft, PostingSteps, OpenSteps, Knows
    <2>3. x \in Draft /\ x.status = "signed"
      BY <2>2 DEF Draft, DraftStatus
    <2> HIDE DEF x
    <2>4. StatusOf(id)' = "signed"
      BY <2>1, <2>3, Overwrite
    <2> QED BY <1>1, <1>2, <2>2, <2>4
  <1>7. CASE AnswerDraft(p)
    <2> DEFINE x == [mem[p].draft EXCEPT !.status = Outcome(mem[p])]
    <2>1. pc[p] = "answer_draft" /\ drafts' = [drafts EXCEPT ![id] = x]
      BY <1>7 DEF AnswerDraft, Answering, Inside
    <2>2. /\ mem[p].draft \in Draft /\ mem[p].order \in Order /\ StatusOf(id) = "signed"
          /\ Sends(mem[p])
      BY <1>0, <2>1 DEF Fits, NeedsDraft, NeedsOrder, RecordingSteps, InHand, Pending
    <2>3. Outcome(mem[p]) \in {"ambiguous", "rejected", "posted"}
      BY DEF Outcome
    <2>4. x \in Draft /\ x.status = Outcome(mem[p])
      BY <2>2, <2>3 DEF Draft, DraftStatus
    <2> HIDE DEF x
    <2>5. StatusOf(id)' \in {"ambiguous", "rejected", "posted"}
      BY <2>1, <2>3, <2>4, Overwrite
    <2>6. Cardinality(SentFor(id)) = 1
      <3>1. PICK s \in Salts : s = mem[p].order.salt
        BY <2>2 DEF Order
      <3> QED BY <2>2, <3>1, SentIsOne DEF Sends
    <2> QED BY <1>2, <2>2, <2>5, <2>6
  <1>8. CASE CancelDraft(p) /\ drafts' # drafts
    <2> DEFINE x == [drafts[id] EXCEPT !.status = "cancelled"]
    <2>1. pc[p] = "cancel_draft" /\ drafts[id] # None /\ drafts' = [drafts EXCEPT ![id] = x]
      BY <1>8 DEF CancelDraft, Inside
    <2>2. x \in Draft /\ x.status = "cancelled"
      BY <1>0, <2>1 DEF Draft, DraftStatus
    <2> HIDE DEF x
    <2>3. StatusOf(id)' = "cancelled"
      BY <2>1, <2>2, Overwrite
    <2>4. receipts[id] \in Receipt /\ TrueReceipt(receipts[id], id)
      BY <1>0, <2>1 DEF InHand, Filed, RecordsInv, ReceiptsTrue
    <2>5. PICK s \in Salts : orders[s] # None /\ orders[s].draft = id
      BY <2>4 DEF Receipt, TrueReceipt
    <2>6. Cardinality(SentFor(id)) = 1 /\ StatusOf(id) \in ClosedStatus
      BY <2>5, SentIsOne DEF TruthInv, SentClosed
    <2> QED BY <1>2, <2>3, <2>6 DEF ClosedStatus
  <1>9. CASE CreateDraft(p)
    <2>1. /\ pc[p] = "create_draft" /\ drafts' = [drafts EXCEPT ![id] = mem[p].draft]
      BY <1>9 DEF CreateDraft, Inside
    <2>2. /\ mem[p].draft \in Draft /\ mem[p].draft.status = "review" /\ StatusOf(id) = "absent"
      BY <1>0, <2>1 DEF Fits, NeedsDraft, CreateSteps, Knows, Recall, StatusOf
    <2>3. StatusOf(id)' = "review"
      BY <2>1, <2>2, Overwrite
    <2> QED BY <1>1, <1>2, <2>2, <2>3 DEF OpenStatus
  <1> QED BY <1>3, <1>4, <1>5, <1>6, <1>7, <1>8, <1>9 DEF Writing

(* Without a new order the orders sent for a draft are the same.           *)
LEMMA SentStays ==
  ASSUME TypeInv, OrdersAge, Settles
  PROVE  \A d \in Drafts : SentFor(d)' = SentFor(d)
  BY DEF SentFor, OrdersAge, Settles

(* POST /order adds one order to the venue at most, of the call's draft.   *)
LEMMA SendAdds ==
  ASSUME TypeInv, NEW p \in Procs, Send(p), orders' # orders
  PROVE  \E s \in Salts, x \in Sent :
           /\ orders[s] = None /\ x.draft = mem[p].id
           /\ orders' = [orders EXCEPT ![s] = x]
  <1>1. /\ mem[p].id \in Drafts /\ mem[p].order \in Order /\ mem[p].draft \in Draft
        /\ mem[p].review \in Review
    BY TypeInvParts DEF Send, Inside, CallOK, Fits, NeedsOrder, NeedsDraft, NeedsReview,
       PostingSteps
  <1> DEFINE s == mem[p].order.salt
             sent(state) == [draft |-> mem[p].id, kind |-> mem[p].draft.kind,
                             quote |-> mem[p].order.quote, review |-> mem[p].review,
                             state |-> state]
  <1>2. PICK state \in Fates(mem[p].draft.kind) \cup {"refused", "flying"} :
          orders[s] = None /\ orders' = [orders EXCEPT ![s] = sent(state)]
    BY DEF Send
  <1>3. state \in {"flying", "live", "matched", "killed", "cancelled", "refused"}
    BY <1>2 DEF Fates
  <1>4. sent(state) \in Sent /\ sent(state).draft = mem[p].id /\ s \in Salts
    BY <1>1, <1>3 DEF Sent, Draft, Order
  <1> HIDE DEF sent, s
  <1> QED BY <1>2, <1>4

LifeOf == [d \in Drafts |-> Life(StatusOf(d))]
SentOf == [d \in Drafts |-> Cardinality(SentFor(d))]

(* Every step is one of DraftLife's, or none.                              *)
LEMMA LifeStep ==
  ASSUME Careful, TypeInv, TruthInv, RecordsInv, [Next]_vars
  PROVE  [Abstract!LifeNext]_(Abstract!lifeVars)
  <1>0. Settles
    BY OrdersSettle
  <1>1. ASSUME LifeOf' = LifeOf, SentOf' = SentOf
        PROVE  UNCHANGED Abstract!lifeVars
    BY <1>1 DEF Abstract!lifeVars, LifeOf, SentOf
  <1>2. ASSUME drafts' = drafts
        PROVE  LifeOf' = LifeOf
    BY <1>2 DEF LifeOf, StatusOf
  <1>3. ASSUME OrdersAge
        PROVE  SentOf' = SentOf
    BY <1>0, <1>3, SentStays DEF SentOf
  <1>4. CASE Others
    <2>1. pc' = pc /\ drafts' = drafts
      BY <1>4 DEF Others, VenueActs, WriteVenueConfig, BreakStaleLock, vars, store
    <2>2. OrdersAge
      BY <2>1, SendLeaves, OnlySendAdds
    <2> QED BY <1>1, <1>2, <1>3, <2>1, <2>2
  <1>5. ASSUME NEW p \in Procs, Moves(p), Writing(p)
        PROVE  [Abstract!LifeNext]_(Abstract!lifeVars)
    <2>1. mem[p].id \in Drafts
      BY <1>5, TypeInvParts DEF Writing, StoreDraft, Bind, SignedDraft, AnswerDraft, CancelDraft,
         CreateDraft, Answering, Inside, CallOK, Fits
    <2>2. PICK id \in Drafts : id = mem[p].id
      BY <2>1
    <2>3. SentOf' = SentOf
      <3>1. ~Send(p)
        BY <1>5 DEF Writing, StoreDraft, Bind, SignedDraft, AnswerDraft, CancelDraft,
           CreateDraft, Answering, Inside, Send
      <3> QED BY <1>3, <1>5, <3>1, SendsAlone, OnlySendAdds
    <2>4. PICK to : to = Life(StatusOf(id)')
      OBVIOUS
    <2>5. LifeOf' = [LifeOf EXCEPT ![id] = to]
      <3>1. \A d \in Drafts \ {id} : StatusOf(d)' = StatusOf(d)
        BY <1>5, <2>2, WritingKeeps DEF WriteOK, StatusOf
      <3> QED BY <2>4, <3>1 DEF LifeOf
    <2>6. LET from == LifeOf[id] IN
            \/ from = to
            \/ from = "none" /\ to = "open"
            \/ from = "open" /\ to \in {"denied", "committed"}
            \/ from = "committed" /\ to = "done" /\ SentOf[id] = 1
      BY <1>5, <2>2, <2>4, WriteLives DEF LifeOf, SentOf
    <2>7. CASE LifeOf[id] = to
      <3>1. LifeOf' = LifeOf
        BY <2>5, <2>7 DEF LifeOf
      <3> QED BY <1>1, <2>3, <3>1
    <2>8. CASE LifeOf[id] # to
      <3>1. Abstract!LifeNext
        BY <2>3, <2>5, <2>6, <2>8
           DEF Abstract!LifeNext, Abstract!Open, Abstract!Deny, Abstract!Commit,
               Abstract!Settle, Abstract!Becomes, LifeOf, SentOf
      <3> QED BY <3>1
    <2> QED BY <2>7, <2>8
  <1>6. ASSUME NEW p \in Procs, Moves(p), ~Writing(p), ~Send(p)
        PROVE  [Abstract!LifeNext]_(Abstract!lifeVars)
    <2>1. OrdersAge
      BY <1>6, SendsAlone, OnlySendAdds
    <2> QED BY <1>1, <1>2, <1>3, <1>6, <2>1, OnlyWritingWrites
  <1>7. ASSUME NEW p \in Procs, Moves(p), Send(p)
        PROVE  [Abstract!LifeNext]_(Abstract!lifeVars)
    <2>0. /\ orders \in [Salts -> Sent \cup {None}] /\ mem[p].id \in Drafts /\ pc[p] = "send"
          /\ mem[p].order \in Order
      BY <1>7, TypeInvParts DEF WorldOK, Send, Inside, CallOK, Fits, NeedsOrder, PostingSteps
    <2>1. PICK id \in Drafts : id = mem[p].id
      BY <2>0
    <2>2. StatusOf(id) = "signed" /\ UnsentFor(id) /\ drafts' = drafts
      BY <1>7, <2>0, <2>1 DEF TruthInv, Knows, Send, Inside, store
    <2>3. CASE orders' = orders
      <3>1. OrdersAge
        BY <2>3 DEF OrdersAge
      <3> QED BY <1>1, <1>2, <1>3, <2>2, <3>1
    <2>4. CASE orders' # orders
      <3>1. PICK s \in Salts, x \in Sent :
              /\ orders[s] = None /\ x.draft = id
              /\ orders' = [orders EXCEPT ![s] = x]
        BY <1>7, <2>1, <2>4, SendAdds
      <3>2. orders'[s] = x /\ x # None /\ \A t \in Salts \ {s} : orders'[t] = orders[t]
        BY <2>0, <3>1
      <3>3. /\ \A d \in Drafts \ {id} : SentFor(d)' = SentFor(d)
            /\ SentFor(id) = {} /\ SentFor(id)' = {s}
        BY <2>2, <3>1, <3>2 DEF SentFor, UnsentFor
      <3>4. Cardinality({}) = 0 /\ Cardinality({s}) = 1
        BY FS_EmptySet, FS_Singleton
      <3>5. SentOf[id] = 0 /\ SentOf' = [SentOf EXCEPT ![id] = 1]
        BY <3>3, <3>4 DEF SentOf
      <3>6. LifeOf[id] = "committed" /\ LifeOf' = LifeOf
        BY <1>2, <2>2 DEF LifeOf, Life, OpenStatus
      <3>7. Abstract!Dispatch(id)
        BY <3>5, <3>6 DEF Abstract!Dispatch, LifeOf, SentOf
      <3> QED BY <3>7 DEF Abstract!LifeNext
    <2> QED BY <2>3, <2>4
  <1> QED BY <1>4, <1>5, <1>6, <1>7, NextIsMoves

(* The trade flow implements DraftLife, step by step, for every value of   *)
(* the constants that is careful: a draft commits before it sends, sends   *)
(* at most once, is done only when it sent, and is never open again.       *)
THEOREM DraftsLiveOnce ==
  ASSUME Careful
  PROVE  Spec => ImplementsDraftLife
  <1>1. Init => Abstract!LifeInit
    <2>1. Init => \A d \in Drafts : Life(StatusOf(d)) = "none" /\ SentFor(d) = {}
      BY DEF Init, StatusOf, Life, OpenStatus, SentFor
    <2>2. Cardinality({}) = 0
      BY FS_EmptySet
    <2> QED BY <2>1, <2>2 DEF Abstract!LifeInit
  <1>2. TypeInv /\ TruthInv /\ RecordsInv /\ [Next]_vars
          => [Abstract!LifeNext]_(Abstract!lifeVars)
    BY LifeStep
  <1> QED BY <1>1, <1>2, RecordsAlways, PTL DEF Spec, ImplementsDraftLife, Abstract!LifeSpec

-----------------------------------------------------------------------------
(* Sums over a finite set.  daily_posted_microusd adds one receipt after   *)
(* the other; that the order makes no difference, and that what fits into  *)
(* another sum piece by piece is no more, is shown by counting: a sum is   *)
(* the number of its units.                                                *)

(* A set of naturals has a least one.                                      *)
LEMMA First ==
  ASSUME NEW T, T \subseteq Nat, T # {}
  PROVE  \E x \in T : \A y \in T : x <= y
  <1>1. PICK R : R = OpToRel(<, Nat)
    BY Zenon
  <1>2. IsWellFoundedOn(R, Nat)
    BY <1>1, NatLessThanWellFounded, Zenon
  <1>3. PICK x \in T : \A y \in T : ~(<<y, x>> \in R)
    BY <1>2, WFMin, Zenon
  <1>4. \A y \in T : <<y, x>> \in R <=> y < x
    BY <1>1, <1>3 DEF OpToRel
  <1>5. \A y \in T : x <= y
    <2> SUFFICES ASSUME NEW y \in T PROVE x <= y
      OBVIOUS
    <2>1. ~(y < x)
      BY <1>3, <1>4, Zenon
    <2>2. x \in Nat /\ y \in Nat
      OBVIOUS
    <2> QED BY <2>1, <2>2
  <1> QED BY <1>5

(* The table MapThenSumSet reads its result from.                          *)
Any(s) == CHOOSE x \in s : TRUE
Adds(f, h) ==
  h = [s \in SUBSET DOMAIN f |-> IF s = {} THEN 0 ELSE f[Any(s)] + h[s \ {Any(s)}]]

(* One unit for each 1 that f counts for a member of s.                    *)
UnitsOf(f, s) == {u \in s \X Nat : u[2] < f[u[1]]}
Weight(f) == Cardinality(UnitsOf(f, DOMAIN f))

Column(f, x) == {x} \X (0..(f[x] - 1))

(* The units of one member are as many as f counts for it.                 *)
LEMMA ColumnCounts ==
  ASSUME NEW S, NEW f \in [S -> Nat], NEW x \in S
  PROVE  IsFiniteSet(Column(f, x)) /\ Cardinality(Column(f, x)) = f[x]
  <1>1. PICK n \in Nat : n = f[x]
    OBVIOUS
  <1>2. IsFiniteSet(0..(n - 1)) /\ Cardinality(0..(n - 1)) = n
    <2>1. 0 \in Int /\ n - 1 \in Int
      OBVIOUS
    <2>2. /\ IsFiniteSet(0..(n - 1))
          /\ Cardinality(0..(n - 1)) = IF 0 > n - 1 THEN 0 ELSE (n - 1) - 0 + 1
      BY <2>1, FS_Interval
    <2> QED BY <2>2
  <1>3. IsFiniteSet({x}) /\ Cardinality({x}) = 1
    BY FS_Singleton
  <1>4. /\ IsFiniteSet({x} \X (0..(n - 1)))
        /\ Cardinality({x} \X (0..(n - 1))) = 1 * n
    BY <1>2, <1>3, FS_Product
  <1> QED BY <1>1, <1>4 DEF Column

(* They are finitely many.                                                 *)
LEMMA UnitsFinite ==
  ASSUME NEW S, IsFiniteSet(S), NEW f \in [S -> Nat], NEW s \in SUBSET S
  PROVE  IsFiniteSet(UnitsOf(f, s)) /\ Cardinality(UnitsOf(f, s)) \in Nat
  <1> DEFINE T == {Column(f, x) : x \in S}
             g == [x \in S |-> Column(f, x)]
  <1>1. g \in Surjection(S, T)
    BY DEF Surjection
  <1>2. IsFiniteSet(T)
    BY <1>1, FS_Surjection
  <1>3. \A t \in T : IsFiniteSet(t)
    BY ColumnCounts
  <1>4. IsFiniteSet(UNION T)
    BY <1>2, <1>3, FS_UNION
  <1>5. ASSUME NEW u \in UnitsOf(f, s)
        PROVE  u \in UNION T
    <2>1. PICK x \in s, n \in Nat : u = <<x, n>> /\ n < f[x]
      BY DEF UnitsOf
    <2>2. f[x] \in Nat
      OBVIOUS
    <2>3. u \in Column(f, x)
      BY <2>1, <2>2 DEF Column
    <2> QED BY <2>3
  <1>6. UnitsOf(f, s) \in SUBSET UNION T
    BY <1>5
  <1>7. IsFiniteSet(UnitsOf(f, s))
    BY <1>4, <1>6, FS_Subset
  <1> QED BY <1>7, FS_CardinalityType

(* A member adds its own units, whichever member it is.                    *)
LEMMA UnitsGrow ==
  ASSUME NEW S, IsFiniteSet(S), NEW f \in [S -> Nat], NEW s \in SUBSET S, NEW x \in s
  PROVE  Cardinality(UnitsOf(f, s)) = f[x] + Cardinality(UnitsOf(f, s \ {x}))
  <1>1. PICK A : A = UnitsOf(f, s \ {x})
    OBVIOUS
  <1>2. PICK B : B = Column(f, x)
    OBVIOUS
  <1>3. IsFiniteSet(A) /\ Cardinality(A) \in Nat
    BY <1>1, UnitsFinite
  <1>4. IsFiniteSet(B) /\ Cardinality(B) = f[x] /\ f[x] \in Nat
    BY <1>2, ColumnCounts
  <1>5. UnitsOf(f, s) = A \cup B
    <2>1. ASSUME NEW u \in UnitsOf(f, s)
          PROVE  u \in A \cup B
      <3>1. PICK y \in s, n \in Nat : u = <<y, n>> /\ n < f[y]
        BY DEF UnitsOf
      <3>2. CASE y = x
        BY <1>2, <1>4, <3>1, <3>2 DEF Column
      <3>3. CASE y # x
        BY <1>1, <3>1, <3>3 DEF UnitsOf
      <3> QED BY <3>2, <3>3
    <2>2. A \subseteq UnitsOf(f, s)
      BY <1>1 DEF UnitsOf
    <2>3. ASSUME NEW u \in B
          PROVE  u \in UnitsOf(f, s)
      <3>1. PICK n \in 0..(f[x] - 1) : u = <<x, n>>
        BY <1>2 DEF Column
      <3>2. n \in Nat /\ n < f[x]
        BY <1>4, <3>1
      <3> QED BY <3>1, <3>2 DEF UnitsOf
    <2> QED BY <2>1, <2>2, <2>3
  <1>6. A \cap B = {}
    BY <1>1, <1>2 DEF UnitsOf, Column
  <1>7. Cardinality(A \cup B) = Cardinality(A) + Cardinality(B) - Cardinality(A \cap B)
    BY <1>3, <1>4, FS_Union
  <1>8. Cardinality({}) = 0
    BY FS_EmptySet
  <1>9. Cardinality(A \cup B) = f[x] + Cardinality(A)
    <2>1. Cardinality(A \cap B) = 0
      BY <1>6, <1>8
    <2>2. PICK a \in Nat : a = Cardinality(A)
      BY <1>3
    <2>3. PICK b \in Nat : b = f[x]
      BY <1>4
    <2>4. Cardinality(A \cup B) = a + b - 0
      BY <1>4, <1>7, <2>1, <2>2, <2>3
    <2> QED BY <2>2, <2>3, <2>4
  <1> QED BY <1>1, <1>5, <1>9

(* There is such a table: the number of units of each subset.              *)
LEMMA SumExists ==
  ASSUME NEW S, IsFiniteSet(S), NEW f \in [S -> Nat]
  PROVE  \E h : Adds(f, h)
  <1> DEFINE h == [s \in SUBSET S |-> Cardinality(UnitsOf(f, s))]
  <1>1. ASSUME NEW s \in SUBSET S
        PROVE  h[s] = IF s = {} THEN 0 ELSE f[Any(s)] + h[s \ {Any(s)}]
    <2>1. CASE s = {}
      <3>1. UnitsOf(f, s) = {}
        BY <2>1 DEF UnitsOf
      <3> QED BY <2>1, <3>1, FS_EmptySet
    <2>2. CASE s # {}
      <3>1. Any(s) \in s
        BY <2>2 DEF Any
      <3>2. s \ {Any(s)} \in SUBSET S
        OBVIOUS
      <3>3. Cardinality(UnitsOf(f, s)) = f[Any(s)] + Cardinality(UnitsOf(f, s \ {Any(s)}))
        BY <3>1, UnitsGrow
      <3> QED BY <2>2, <3>2, <3>3
    <2> QED BY <2>1, <2>2
  <1>2. DOMAIN f = S /\ h = [s \in SUBSET S |-> h[s]]
    OBVIOUS
  <1>3. h = [s \in SUBSET S |-> IF s = {} THEN 0 ELSE f[Any(s)] + h[s \ {Any(s)}]]
    BY <1>1, <1>2
  <1>4. Adds(f, h)
    BY <1>2, <1>3 DEF Adds
  <1> QED BY <1>4

(* Every such table counts the units, by the smallest subset where it      *)
(* would not.                                                              *)
LEMMA SumIsWeight ==
  ASSUME NEW S, IsFiniteSet(S), NEW f \in [S -> Nat], NEW h, Adds(f, h)
  PROVE  h[S] = Weight(f)
  <1>0. DOMAIN f = S
    OBVIOUS
  <1> DEFINE Wrong == {s \in SUBSET S : h[s] # Cardinality(UnitsOf(f, s))}
             Sizes == {Cardinality(s) : s \in Wrong}
  <1>1. \A s \in SUBSET S : IsFiniteSet(s) /\ Cardinality(s) \in Nat
    BY FS_Subset, FS_CardinalityType
  <1>2. Wrong = {}
    <2> SUFFICES ASSUME Wrong # {} PROVE FALSE
      OBVIOUS
    <2>1. Sizes \subseteq Nat /\ Sizes # {}
      BY <1>1
    <2>2. PICK n \in Sizes : \A m \in Sizes : n <= m
      BY <2>1, First
    <2>3. PICK s \in Wrong : n = Cardinality(s)
      BY <2>2
    <2>4. h[s] = IF s = {} THEN 0 ELSE f[Any(s)] + h[s \ {Any(s)}]
      BY <1>0, <2>3 DEF Adds
    <2>5. s # {}
      <3>1. UnitsOf(f, {}) = {}
        BY DEF UnitsOf
      <3> QED BY <2>3, <2>4, <3>1, FS_EmptySet
    <2>6. PICK x : x = Any(s)
      OBVIOUS
    <2>7. x \in s
      BY <2>5, <2>6 DEF Any
    <2>8. PICK t : t = s \ {x}
      OBVIOUS
    <2>9. t \in SUBSET S /\ Cardinality(t) = n - 1 /\ n \in Nat /\ Cardinality(t) \in Nat
      <3>1. IsFiniteSet(s) /\ n \in Nat
        BY <1>1, <2>3
      <3>2. t \in SUBSET S /\ Cardinality(t) = Cardinality(s) - 1
        BY <2>7, <2>8, <3>1, FS_RemoveElement
      <3> QED BY <1>1, <2>3, <3>1, <3>2
    <2>10. t \notin Wrong
      <3> SUFFICES ASSUME t \in Wrong PROVE FALSE
        OBVIOUS
      <3>1. n <= Cardinality(t)
        BY <2>2
      <3> QED BY <2>9, <3>1
    <2>11. h[t] = Cardinality(UnitsOf(f, t))
      BY <2>9, <2>10
    <2>12. h[s] = f[x] + Cardinality(UnitsOf(f, t))
      BY <2>4, <2>5, <2>6, <2>8, <2>11
    <2>13. Cardinality(UnitsOf(f, s)) = f[x] + Cardinality(UnitsOf(f, t))
      BY <2>3, <2>7, <2>8, UnitsGrow
    <2> QED BY <2>3, <2>12, <2>13
  <1>3. S \notin Wrong
    BY <1>2
  <1> QED BY <1>0, <1>3 DEF Weight

(* What fits into another, piece by piece, weighs no more.                 *)
LEMMA WeightFits ==
  ASSUME NEW S, IsFiniteSet(S), NEW f \in [S -> Nat],
         NEW T, IsFiniteSet(T), NEW g \in [T -> Nat],
         NEW m, \A x \in S : f[x] # 0 => m[x] \in T /\ f[x] <= g[m[x]],
         \A x, y \in S : f[x] # 0 /\ f[y] # 0 /\ m[x] = m[y] => x = y
  PROVE  Weight(f) <= Weight(g)
  <1>1. PICK A : A = UnitsOf(f, S)
    OBVIOUS
  <1>2. PICK B : B = UnitsOf(g, T)
    OBVIOUS
  <1>3. IsFiniteSet(B)
    BY <1>2, UnitsFinite
  <1> DEFINE j == [u \in A |-> <<m[u[1]], u[2]>>]
  <1>4. ASSUME NEW u \in A
        PROVE  /\ \E x \in S, n \in Nat : u = <<x, n>> /\ n < f[x] /\ f[x] # 0
               /\ j[u] \in B
    <2>1. PICK x \in S, n \in Nat : u = <<x, n>> /\ n < f[x]
      BY <1>1 DEF UnitsOf
    <2>2. f[x] \in Nat /\ f[x] # 0
      BY <2>1
    <2>3. m[x] \in T /\ g[m[x]] \in Nat /\ n < g[m[x]]
      BY <2>1, <2>2
    <2>4. j[u] = <<m[x], n>>
      BY <2>1
    <2> QED BY <1>2, <2>1, <2>2, <2>3, <2>4 DEF UnitsOf
  <1>5. ASSUME NEW u \in A, NEW v \in A, j[u] = j[v]
        PROVE  u = v
    <2>1. PICK x \in S, n \in Nat : u = <<x, n>> /\ f[x] # 0
      BY <1>4
    <2>2. PICK y \in S, k \in Nat : v = <<y, k>> /\ f[y] # 0
      BY <1>4
    <2>3. m[x] = m[y] /\ n = k
      BY <1>5, <2>1, <2>2
    <2> QED BY <2>1, <2>2, <2>3
  <1>6. j \in Injection(A, B)
    BY <1>4, <1>5 DEF Injection, IsInjective
  <1>7. Cardinality(A) <= Cardinality(B)
    BY <1>3, <1>6, FS_Injection
  <1> QED BY <1>1, <1>2, <1>7 DEF Weight

(* The same members, and more of each.                                     *)
LEMMA WeightCovers ==
  ASSUME NEW S, IsFiniteSet(S), NEW f \in [S -> Nat],
         NEW T, IsFiniteSet(T), NEW g \in [T -> Nat],
         \A x \in S : f[x] # 0 => x \in T /\ f[x] <= g[x]
  PROVE  Weight(f) <= Weight(g)
  <1>1. ASSUME NEW u \in UnitsOf(f, S)
        PROVE  u \in UnitsOf(g, T)
    <2>1. PICK x \in S, n \in Nat : u = <<x, n>> /\ n < f[x]
      BY DEF UnitsOf
    <2>2. f[x] \in Nat /\ f[x] # 0
      BY <2>1
    <2>3. x \in T /\ g[x] \in Nat /\ n < g[x]
      BY <2>1, <2>2
    <2> QED BY <2>1, <2>3 DEF UnitsOf
  <1>2. IsFiniteSet(UnitsOf(g, T))
    BY UnitsFinite
  <1>3. Cardinality(UnitsOf(f, S)) <= Cardinality(UnitsOf(g, T))
    BY <1>1, <1>2, FS_Subset
  <1>4. DOMAIN f = S /\ DOMAIN g = T
    OBVIOUS
  <1> QED BY <1>3, <1>4 DEF Weight

(* A member more.                                                          *)
Without(T, S, x) == T = S \ {x}

LEMMA WeightGrows ==
  ASSUME NEW S, IsFiniteSet(S), NEW f \in [S -> Nat], NEW x \in S,
         NEW T, Without(T, S, x), NEW g \in [T -> Nat], \A y \in T : f[y] = g[y]
  PROVE  Weight(f) = f[x] + Weight(g)
  <1>1. PICK s \in SUBSET S : s = S
    OBVIOUS
  <1>2. Cardinality(UnitsOf(f, s)) = f[x] + Cardinality(UnitsOf(f, s \ {x}))
    BY <1>1, UnitsGrow
  <1>3. T = S \ {x}
    BY DEF Without
  <1>5. UnitsOf(f, T) = UnitsOf(g, T)
    BY DEF UnitsOf
  <1>4. DOMAIN f = S /\ DOMAIN g = T
    OBVIOUS
  <1> QED BY <1>1, <1>2, <1>3, <1>4, <1>5 DEF Weight

-----------------------------------------------------------------------------
(* The daily cap at the send.                                              *)

(* What each draft's receipt counts.                                       *)
Exposures == [d \in Drafts |-> ReceiptExposure(d)]

LEMMA DraftsFinite == IsFiniteSet(Drafts)
  <1>1. 1 \in Int /\ MaxDrafts \in Int
    OBVIOUS
  <1> QED BY <1>1, FS_Interval DEF Drafts

LEMMA ExposuresType ==
  ASSUME TypeInv
  PROVE  Exposures \in [Drafts -> Nat]
  <1>1. receipts \in [Drafts -> Receipt \cup {None}]
    BY TypeInvParts DEF WorldOK
  <1>2. ASSUME NEW d \in Drafts
        PROVE  ReceiptExposure(d) \in Nat
    BY <1>1 DEF ReceiptExposure, Receipt
  <1> QED BY <1>2 DEF Exposures

(* daily_posted_microusd adds up the exposures.                            *)
LEMMA PostedIsWeight ==
  ASSUME TypeInv
  PROVE  DailyPosted = Weight(Exposures)
  <1> DEFINE Table(h) == h = [s \in SUBSET Drafts |->
                                IF s = {} THEN 0 ELSE ReceiptExposure(Any(s)) + h[s \ {Any(s)}]]
  <1>1. Exposures \in [Drafts -> Nat] /\ DOMAIN Exposures = Drafts
    BY ExposuresType
  <1>2. ASSUME NEW h
        PROVE  Table(h) <=> Adds(Exposures, h)
    <2>1. ASSUME NEW s \in SUBSET Drafts, s # {}
          PROVE  Exposures[Any(s)] = ReceiptExposure(Any(s))
      <3>1. Any(s) \in s
        BY <2>1 DEF Any
      <3> QED BY <3>1 DEF Exposures
    <2>2. [s \in SUBSET Drafts |-> IF s = {} THEN 0 ELSE ReceiptExposure(Any(s)) + h[s \ {Any(s)}]]
          = [s \in SUBSET Drafts |-> IF s = {} THEN 0 ELSE Exposures[Any(s)] + h[s \ {Any(s)}]]
      BY <2>1
    <2> QED BY <1>1, <2>2 DEF Adds
  <1>3. DailyPosted = (CHOOSE h : Table(h))[Drafts]
    BY DEF DailyPosted, MapThenSumSet, MapThenFoldSet, Any
  <1>4. \E h : Table(h)
    BY <1>1, <1>2, DraftsFinite, SumExists
  <1> HIDE DEF Table
  <1>5. PICK h : Table(h) /\ DailyPosted = h[Drafts]
    BY <1>3, <1>4
  <1> QED BY <1>1, <1>2, <1>5, DraftsFinite, SumIsWeight

(* What each order counts that the venue may have and a receipt tells of.  *)
SpendOf(s) ==
  IF Reached(s) /\ orders[s].kind.side = "buy" /\ receipts[orders[s].draft] # None
  THEN orders[s].quote ELSE 0
Spends == [s \in Salts |-> SpendOf(s)]

LEMMA SpendsType ==
  ASSUME TypeInv
  PROVE  Spends \in [Salts -> Nat]
  <1>1. orders \in [Salts -> Sent \cup {None}]
    BY TypeInvParts DEF WorldOK
  <1>2. ASSUME NEW s \in Salts
        PROVE  SpendOf(s) \in Nat
    BY <1>1 DEF SpendOf, Reached, Sent
  <1> QED BY <1>2 DEF Spends

LEMMA SpendIsWeight ==
  ASSUME TypeInv
  PROVE  ReceiptedSpend = Weight(Spends)
  <1> DEFINE Table(h) == h = [s \in SUBSET Salts |->
                                IF s = {} THEN 0 ELSE SpendOf(Any(s)) + h[s \ {Any(s)}]]
  <1>1. Spends \in [Salts -> Nat] /\ DOMAIN Spends = Salts
    BY SpendsType
  <1>2. ASSUME NEW h
        PROVE  Table(h) <=> Adds(Spends, h)
    <2>1. ASSUME NEW s \in SUBSET Salts, s # {}
          PROVE  Spends[Any(s)] = SpendOf(Any(s))
      <3>1. Any(s) \in s
        BY <2>1 DEF Any
      <3> QED BY <3>1 DEF Spends
    <2>2. [s \in SUBSET Salts |-> IF s = {} THEN 0 ELSE SpendOf(Any(s)) + h[s \ {Any(s)}]]
          = [s \in SUBSET Salts |-> IF s = {} THEN 0 ELSE Spends[Any(s)] + h[s \ {Any(s)}]]
      BY <2>1
    <2> QED BY <1>1, <2>2 DEF Adds
  <1>3. ReceiptedSpend = (CHOOSE h : Table(h))[Salts]
    BY DEF ReceiptedSpend, MapThenSumSet, MapThenFoldSet, Any, SpendOf
  <1>4. \E h : Table(h)
    BY <1>1, <1>2, SaltsFinite, SumExists
  <1> HIDE DEF Table
  <1>5. PICK h : Table(h) /\ ReceiptedSpend = h[Salts]
    BY <1>3, <1>4
  <1> QED BY <1>1, <1>2, <1>5, SaltsFinite, SumIsWeight

(* Each order with a receipt is counted by the receipt of its draft, and   *)
(* no two by the same one.                                                 *)
LEMMA SpendWithinPosted ==
  ASSUME TypeInv, TruthInv, RecordsInv
  PROVE  ReceiptedSpend <= DailyPosted
  <1>0. /\ orders \in [Salts -> Sent \cup {None}]
        /\ receipts \in [Drafts -> Receipt \cup {None}]
    BY TypeInvParts DEF WorldOK
  <1>1. ASSUME NEW s \in Salts, SpendOf(s) # 0
        PROVE  /\ orders[s] # None /\ orders[s].draft \in Drafts
               /\ SpendOf(s) = ReceiptExposure(orders[s].draft)
    <2>1. PICK d \in Drafts : /\ orders[s] # None /\ orders[s].draft = d /\ Reached(s)
                              /\ orders[s].kind.side = "buy" /\ receipts[d] # None
                              /\ SpendOf(s) = orders[s].quote
      BY <1>0, <1>1 DEF SpendOf, Reached, Sent
    <2>2. receipts[d] \in Receipt /\ TrueReceipt(receipts[d], d)
      BY <1>0, <2>1 DEF RecordsInv, ReceiptsTrue
    <2>3. receipts[d].salt \in Salts
      BY <2>2 DEF Receipt
    <2>4. receipts[d].salt = s
      BY <2>1, <2>2, <2>3 DEF TruthInv, SentApart, TrueReceipt
    <2>5. /\ receipts[d].kind = orders[s].kind /\ receipts[d].quote = orders[s].quote
          /\ ~Excluded(receipts[d].status, receipts[d].kind)
      BY <2>1, <2>2, <2>4 DEF TrueReceipt, Reached, Gone
    <2>6. ReceiptExposure(d) = orders[s].quote
      BY <2>1, <2>5 DEF ReceiptExposure
    <2> QED BY <2>1, <2>6
  <1>2. ASSUME NEW s \in Salts, NEW t \in Salts, SpendOf(s) # 0, SpendOf(t) # 0,
               orders[s].draft = orders[t].draft
        PROVE  s = t
    BY <1>1, <1>2 DEF TruthInv, SentApart
  <1>3. PICK f \in [Salts -> Nat] : f = Spends
    BY SpendsType
  <1>4. PICK g \in [Drafts -> Nat] : g = Exposures
    BY ExposuresType
  <1> DEFINE m == [s \in Salts |-> orders[s].draft]
  <1>5. \A s \in Salts : f[s] # 0 => m[s] \in Drafts /\ f[s] <= g[m[s]]
    <2> SUFFICES ASSUME NEW s \in Salts, f[s] # 0
                 PROVE  m[s] \in Drafts /\ f[s] <= g[m[s]]
      OBVIOUS
    <2>1. f[s] = SpendOf(s) /\ m[s] = orders[s].draft
      BY <1>3 DEF Spends
    <2>2. m[s] \in Drafts /\ f[s] = ReceiptExposure(m[s])
      BY <1>1, <2>1
    <2>3. g[m[s]] = f[s] /\ f[s] \in Nat
      BY <1>4, <2>2 DEF Exposures
    <2> QED BY <2>2, <2>3
  <1>6. \A s, t \in Salts : f[s] # 0 /\ f[t] # 0 /\ m[s] = m[t] => s = t
    BY <1>2, <1>3 DEF Spends
  <1> HIDE DEF m
  <1>7. Weight(f) <= Weight(g)
    BY <1>5, <1>6, DraftsFinite, SaltsFinite, WeightFits
  <1> QED BY <1>3, <1>4, <1>7, PostedIsWeight, SpendIsWeight

(* A BUY past its check fits, with what has a receipt, under the cap it    *)
(* was checked against; and stays so until it is sent.                     *)
UnderCap(call) ==
  call.draft.kind.side = "buy" /\ call.cap # None =>
    ExposureKnown /\ Weight(Exposures) + call.draft.quote <= call.cap

CapInv == \A p \in Procs : pc[p] \in ReviewSteps => UnderCap(mem[p])

Counted == receipts' = receipts /\ audited' = audited

LEMMA CountedKeeps ==
  ASSUME Counted
  PROVE  \A call : UnderCap(call) => UnderCap(call)'
  <1>1. \A d : ReceiptExposure(d)' = ReceiptExposure(d)
    BY DEF Counted, ReceiptExposure
  <1>2. Exposures' = Exposures
    BY <1>1 DEF Exposures
  <1>3. Weight(Exposures)' = Weight(Exposures)
    BY <1>2 DEF Weight, UnitsOf
  <1>4. ExposureKnown' = ExposureKnown
    BY DEF Counted, ExposureKnown
  <1> QED BY <1>3, <1>4 DEF UnderCap

(* What is counted changes by the lock's holder only, past its POST.       *)
LEMMA OnlyHolderCounts ==
  ASSUME TypeInv, NEW p \in Procs, Moves(p)
  PROVE  Counted \/ pc[p] \in {"audit", "receipt", "cancel_receipt"}
  <1> USE DEF Answering, Enter, Stop, store
  <1>1. CASE Revalidating(p)
    BY <1>1 DEF Counted, Revalidating, Revalidate, LoadForRevalidate, ClearPrepared,
         ClearApproval, ClearAttempt, ReviseLive, LiveReadFails, Preflight,
         DropReview, StageReview, StoreDraft
  <1>2. CASE Posting(p)
    BY <1>2 DEF Counted, Posting, Post, LoadForPost, CheckDenies, CheckPasses, CheckRefuses,
         Acknowledge, Prepare, Bind, PreparedAttempt, Sign, SignedAttempt, SignedDraft, Send
  <1>3. CASE Recording(p)
    BY <1>3 DEF Counted, Recording, Reconcile, ReconcileAttempt, Audit, WriteReceipt,
         DropPrepared, DropApproval, AnswerDraft, AnswerAttempt, Inside
  <1>4. CASE Cancelling(p)
    BY <1>4 DEF Counted, Cancelling, Cancel, LoadReceipt, CancelDelete, CancelReceipt,
         CancelDraft, CancelDiscovered, CancelOpen, Inside
  <1>5. CASE Creating(p)
    BY <1>5 DEF Counted, Creating, Create, CreateDraft, CreateReview
  <1>6. CASE Return(p) \/ HostCallFails(p) \/ Kill(p)
    BY <1>6 DEF Counted, Return, HostCallFails, Kill
  <1> QED BY <1>1, <1>2, <1>3, <1>4, <1>5, <1>6 DEF Moves

(* The check that passes: what evaluate_local_polymarket_order did not     *)
(* deny.                                                                   *)
LEMMA CheckedUnderCap ==
  ASSUME TypeInv, NEW p \in Procs, CheckPasses(p)
  PROVE  UnderCap(mem'[p]) /\ Counted
  <1>0. /\ reviews \in [Drafts -> Review \cup {None}]
        /\ mem \in [Procs -> Call] /\ mem[p] \in Call
        /\ mem[p].id \in Drafts /\ mem[p].draft \in Draft /\ cfg \in Configs
    BY TypeInvParts DEF CheckPasses, Inside, WorldOK, CallOK, Fits, NeedsDraft, PostingSteps
  <1>1. PICK r \in Review : r = reviews[mem[p].id]
    BY <1>0 DEF CheckPasses
  <1>2. PICK a : a = [r EXCEPT !.ack = mem[p].ack]
    OBVIOUS
  <1>3. PICK c : c = [mem[p] EXCEPT !.draft.quote = r.quote, !.review = a, !.cap = cfg.max_daily]
    OBVIOUS
  <1>4. mem' = [mem EXCEPT ![p] = c]
    BY <1>1, <1>2, <1>3 DEF CheckPasses, Remember
  <1>5. c.draft.quote = r.quote /\ c.draft.kind = mem[p].draft.kind /\ c.cap = cfg.max_daily
    BY <1>0, <1>3 DEF Call, Draft
  <1>6. mem'[p] = c
    BY <1>0, <1>4
  <1>7. ~Denied(mem[p].draft.kind, r.quote)
    BY <1>1 DEF CheckPasses
  <1>8. ASSUME c.draft.kind.side = "buy", c.cap # None
        PROVE  ExposureKnown /\ Weight(Exposures) + c.draft.quote <= c.cap
    <2>1. ExposureKnown /\ ~(DailyPosted + r.quote > cfg.max_daily)
      BY <1>5, <1>7, <1>8 DEF Denied
    <2>2. PICK w \in Nat : w = Weight(Exposures)
      <3>1. DOMAIN Exposures = Drafts
        BY DEF Exposures
      <3> QED BY <3>1, ExposuresType, DraftsFinite, UnitsFinite DEF Weight
    <2>3. PICK n \in Nat : n = r.quote
      BY DEF Review
    <2>4. PICK m \in Nat : m = cfg.max_daily
      BY <1>0, <1>5, <1>8
    <2>5. ~(w + n > m)
      BY <2>1, <2>2, <2>3, <2>4, PostedIsWeight
    <2>6. w + n <= m
      BY <2>5
    <2> QED BY <1>5, <2>1, <2>2, <2>3, <2>4, <2>6
  <1>9. UnderCap(c)
    BY <1>8 DEF UnderCap
  <1> QED BY <1>6, <1>9 DEF CheckPasses, Counted, store

(* From then on the post keeps the draft it checked, up to its status and  *)
(* salt, and the cap.                                                      *)
LEMMA PostKeepsCost ==
  ASSUME TypeInv, NEW p \in Procs, Carrying(p), ~CheckPasses(p), UnderCap(mem[p]),
         pc'[p] \in ReviewSteps
  PROVE  UnderCap(mem'[p])
  <1>0. mem \in [Procs -> Call] /\ mem[p] \in Call /\ pc \in [Procs -> AnyStep]
        /\ Fits(p, mem[p], pc[p])
    BY TypeInvParts DEF WorldOK, CallOK
  <1>1. ASSUME NEW c, mem' = [mem EXCEPT ![p] = c], c.cap = mem[p].cap,
               c.draft.kind = mem[p].draft.kind, c.draft.quote = mem[p].draft.quote
        PROVE  UnderCap(mem'[p])
    <2>1. mem'[p] = c
      BY <1>0, <1>1
    <2> QED BY <1>1, <2>1 DEF UnderCap
  <1>2. CASE mem' = mem
    BY <1>2
  <1>3. CASE Prepare(p)
    <2>1. PICK o : mem' = [mem EXCEPT ![p] = [mem[p] EXCEPT !.order = o]]
      BY <1>3 DEF Prepare, Remember
    <2> QED BY <1>0, <1>1, <2>1 DEF Call
  <1>4. CASE Bind(p) \/ SignedDraft(p)
    <2>1. mem[p].draft \in Draft
      BY <1>0, <1>4 DEF Fits, NeedsDraft, PostingSteps, Bind, SignedDraft, Inside
    <2>2. CASE Bind(p)
      <3> DEFINE x == [mem[p].draft EXCEPT !.status = "signing_prepared",
                                           !.salt = mem[p].order.salt]
      <3>1. mem' = mem \/ mem' = [mem EXCEPT ![p] = [mem[p] EXCEPT !.draft = x]]
        BY <2>2 DEF Bind, Stop, Remember
      <3>2. x.kind = mem[p].draft.kind /\ x.quote = mem[p].draft.quote
        BY <2>1 DEF Draft
      <3> HIDE DEF x
      <3> QED BY <1>0, <1>1, <1>2, <3>1, <3>2 DEF Call
    <2>3. CASE SignedDraft(p)
      <3> DEFINE x == [mem[p].draft EXCEPT !.status = "signed"]
      <3>1. mem' = [mem EXCEPT ![p] = [mem[p] EXCEPT !.draft = x]]
        BY <2>3 DEF SignedDraft, Remember
      <3>2. x.kind = mem[p].draft.kind /\ x.quote = mem[p].draft.quote
        BY <2>1 DEF Draft
      <3> HIDE DEF x
      <3> QED BY <1>0, <1>1, <3>1, <3>2 DEF Call
    <2> QED BY <1>4, <2>2, <2>3
  <1>5. CASE Acknowledge(p) \/ PreparedAttempt(p) \/ Sign(p) \/ SignedAttempt(p)
    BY <1>2, <1>5 DEF Acknowledge, PreparedAttempt, Sign, SignedAttempt
  <1>6. ~Send(p)
    BY <1>0 DEF Send, Goto, ReviewSteps
  <1> QED BY <1>3, <1>4, <1>5, <1>6 DEF Carrying

(* Every step keeps it, with the lock exclusive.                           *)
LEMMA CapStep ==
  ASSUME Careful, TypeInv, Exclusive, CapInv, [Next]_vars
  PROVE  CapInv'
  <1>1. CASE Others
    <2>1. pc' = pc /\ mem' = mem /\ Counted
      BY <1>1 DEF Others, VenueActs, WriteVenueConfig, BreakStaleLock, vars, store, Counted
    <2> QED BY <2>1, CountedKeeps DEF CapInv
  <1>2. ASSUME NEW p \in Procs, Moves(p), NEW q \in Procs, pc'[q] \in ReviewSteps
        PROVE  UnderCap(mem[q])'
    <2>1. CASE q = p
      <3>1. Carrying(p)
        BY <1>2, <2>1, OtherMovesDropOnly
      <3>2. Counted
        BY <3>1 DEF Carrying, CheckPasses, Acknowledge, Prepare, Bind, PreparedAttempt,
           Sign, SignedAttempt, SignedDraft, Send, Stop, store, Counted
      <3>3. UnderCap(mem'[p])
        <4>1. CASE CheckPasses(p)
          BY <4>1, CheckedUnderCap
        <4>2. CASE ~CheckPasses(p)
          <5>1. pc[p] \in ReviewSteps
            BY <3>1, <4>2 DEF Carrying, Acknowledge, Prepare, Bind, PreparedAttempt, Sign,
               SignedAttempt, SignedDraft, Send, Inside, ReviewSteps
          <5>2. UnderCap(mem[p])
            BY <5>1 DEF CapInv
          <5> QED BY <1>2, <2>1, <3>1, <4>2, <5>2, PostKeepsCost
        <4> QED BY <4>1, <4>2
      <3>4. PICK c : c = mem'[p]
        OBVIOUS
      <3>5. UnderCap(c) /\ UnderCap(c)'
        BY <3>2, <3>3, <3>4, CountedKeeps
      <3>6. UnderCap(mem[p])'
        BY <3>4, <3>5 DEF UnderCap
      <3> QED BY <2>1, <3>6
    <2>2. CASE q # p
      <3>1. pc'[q] = pc[q] /\ mem'[q] = mem[q]
        BY <1>2, <2>2, MovesAlone DEF Elsewhere
      <3>2. q \in inside
        BY <1>2, <3>1, TypeInvParts DEF CallOK, ReviewSteps, LockedSteps
      <3>3. p \notin inside
        BY <2>2, <3>2 DEF Exclusive, Careful
      <3>4. pc[p] \notin LockedSteps
        BY <3>3, TypeInvParts DEF CallOK
      <3>5. Counted
        BY <1>2, <3>4, OnlyHolderCounts DEF LockedSteps
      <3>6. UnderCap(mem[q])
        BY <1>2, <3>1 DEF CapInv
      <3>7. PICK c : c = mem[q]
        OBVIOUS
      <3>8. UnderCap(c)'
        BY <3>5, <3>6, <3>7, CountedKeeps
      <3> QED BY <3>1, <3>7, <3>8 DEF UnderCap
    <2> QED BY <2>1, <2>2
  <1>3. ASSUME NEW p \in Procs, Moves(p)
        PROVE  CapInv'
    BY <1>2, <1>3 DEF CapInv
  <1> QED BY <1>1, <1>3, NextIsMoves

(* The only step that sends, and what it leaves behind.                    *)
LEMMA SendWithinCap ==
  ASSUME TypeInv, TruthInv, ReviewInv, RecordsInv, CapInv, [Next]_vars,
         NEW p \in Procs, pc[p] = "send", mem[p].draft.kind.side = "buy", mem[p].cap # None
  PROVE  ExposureKnown /\ ReceiptedSpend + mem[p].order.quote <= mem[p].cap
  <1>1. UnderCap(mem[p])
    BY DEF CapInv, ReviewSteps
  <1>2. mem[p].order.quote = mem[p].draft.quote
    BY DEF ReviewInv, Carries, RecordsInv, Recall, ReviewSteps, PostingSteps
  <1>3. /\ ExposureKnown
        /\ Weight(Exposures) + mem[p].draft.quote <= mem[p].cap
    BY <1>1 DEF UnderCap
  <1>4. PICK r \in Nat : r = ReceiptedSpend
    <2>1. DOMAIN Spends = Salts
      BY DEF Spends
    <2> QED BY <2>1, SpendsType, SpendIsWeight, SaltsFinite, UnitsFinite DEF Weight
  <1>5. PICK w \in Nat : w = Weight(Exposures)
    <2>1. DOMAIN Exposures = Drafts
      BY DEF Exposures
    <2> QED BY <2>1, ExposuresType, DraftsFinite, UnitsFinite DEF Weight
  <1>6. r <= w
    BY <1>4, <1>5, SpendWithinPosted, PostedIsWeight
  <1>7. PICK n \in Nat : n = mem[p].draft.quote
    BY TypeInvParts DEF WorldOK, CallOK, Fits, NeedsDraft, PostingSteps, Draft
  <1>8. PICK m \in Nat : m = mem[p].cap
    BY TypeInvParts DEF Call
  <1>9. w + n <= m
    BY <1>3, <1>5, <1>7, <1>8
  <1>10. r + n <= m
    BY <1>6, <1>9
  <1> QED BY <1>2, <1>3, <1>4, <1>7, <1>8, <1>10

(* A BUY leaves for the venue only if it fits, with every order the venue  *)
(* may have and a receipt tells of, under the daily cap it was checked     *)
(* against by refresh_trade_post_inputs: whatever the owner writes to      *)
(* venue.toml between that check and POST /order, however many drafts      *)
(* there are, and whatever was killed or failed before.                    *)
THEOREM BuysLeaveWithinCap ==
  ASSUME Careful
  PROVE  Spec => CapHoldsAtSend
  <1>1. Init => TypeInv /\ LockTypeOK /\ Exclusive
    BY InitTypes DEF Init, LockInit, LockTypeOK, Owners, Exclusive
  <1>2. Init => ReviewInv
    BY DEF Init, ReviewInv, PreparedOK, ReviewedAsSent, Carries, ReviewSteps
  <1>3. Init => CapInv
    BY DEF Init, CapInv, ReviewSteps
  <1>4. TypeInv /\ LockTypeOK /\ Exclusive /\ ReviewInv /\ CapInv /\ [Next]_vars
          => TypeInv' /\ LockTypeOK' /\ Exclusive' /\ ReviewInv' /\ CapInv'
    BY StepTypes, LockMoves, LockStepKeeps, ReviewStep, CapStep
  <1> DEFINE A == \A p \in Procs :
       pc[p] = "send" /\ pc'[p] # "send" /\ orders' # orders
       /\ mem[p].draft.kind.side = "buy" /\ mem[p].cap # None
         => ExposureKnown /\ ReceiptedSpend + mem[p].order.quote <= mem[p].cap
  <1>5. TypeInv /\ TruthInv /\ ReviewInv /\ RecordsInv /\ CapInv /\ [Next]_vars => A
    BY SendWithinCap
  <1>6. TypeInv /\ TruthInv /\ ReviewInv /\ RecordsInv /\ CapInv /\ [Next]_vars => [A]_vars
    BY <1>5
  <1> HIDE DEF A
  <1>7. Spec => [](TypeInv /\ TruthInv /\ RecordsInv)
    BY RecordsAlways
  <1>8. Spec => [][A]_vars
    BY <1>1, <1>2, <1>3, <1>4, <1>6, <1>7, PTL DEF Spec
  <1> QED BY <1>8 DEF CapHoldsAtSend, A

-----------------------------------------------------------------------------
(* The moving day.  TradeFlow has the receipts of one day; DailyCap has    *)
(* the clock, in constants and variables of its own.                       *)

SentOrder == [at : Nat, cost : Nat, spends : BOOLEAN]
AuditLine == [event : {"receipt_written", "order_cancelled"}, id : Nat, ts : Nat]
DayReceipt == [posted : Nat, cost : Nat, kind : {"GTC", "FOK"},
               status : Statuses \cup {"cancelled"}]
DayPost == [id : Rolling!Ids, cost : Nat, kind : {"GTC", "FOK"},
            status : Statuses \cup {None}, posted : Nat \cup {None}]

DayTypes ==
  /\ clock_d \in Nat
  /\ audit_d \in Seq(AuditLine)
  /\ receipts_d \in [Rolling!Ids -> DayReceipt \cup {None}]
  /\ sent_d \in Seq(SentOrder)
  /\ pc_d \in {"idle", "send", "answer", "audit", "receipt"}
  /\ pc_d # "idle" => post_d \in DayPost
  /\ pc_d \in {"answer", "audit", "receipt"} => post_d.status \in Statuses
  /\ pc_d \in {"audit", "receipt"} => post_d.posted \in Nat

(* What the first n orders of q cost that left at most a Day before t.     *)
Window(q, t, n) ==
  [j \in 1..n |-> IF q[j].spends /\ q[j].at >= t - Day THEN q[j].cost ELSE 0]

(* The post that runs: what it was checked against, and what it sent.      *)
PostTrue ==
  /\ pc_d = "send" =>
       /\ post_d.id = Len(sent_d) + 1
       /\ ~StopsUnheard /\ post_d.cost > 0
            => Weight(Window(sent_d, clock_d, Len(sent_d))) + post_d.cost <= Cap
  /\ pc_d \in {"answer", "audit", "receipt"} =>
       /\ post_d.id = Len(sent_d) /\ Len(sent_d) > 0
       /\ post_d.cost = sent_d[Len(sent_d)].cost
       /\ sent_d[Len(sent_d)].spends => ~Rolling!Excluded(post_d)
  /\ pc_d \in {"audit", "receipt"} => post_d.posted >= sent_d[Len(sent_d)].at

(* The audit log has a line for the order's receipt, no older than it.     *)
Lined(j) ==
  \E k \in 1..Len(audit_d) :
    audit_d[k].event = "receipt_written" /\ audit_d[k].id = j /\ audit_d[k].ts >= sent_d[j].at

(* Every order but the one being recorded has its line, while there is     *)
(* room for lines and no post stops unheard.                               *)
LinesKept ==
  ~StopsUnheard /\ Rolling!Readable =>
    \A j \in 1..Len(sent_d) :
      Lined(j) \/ (pc_d \in {"answer", "audit"} /\ j = Len(sent_d))

(* A receipt counts what was sent, at no earlier time.                     *)
DayReceiptsTrue ==
  \A i \in Rolling!Ids :
    receipts_d[i] # None =>
      /\ i <= Len(sent_d)
      /\ receipts_d[i].posted >= sent_d[i].at
      /\ receipts_d[i].cost = sent_d[i].cost
      /\ sent_d[i].spends => ~Rolling!Excluded(receipts_d[i])

(* Each BUY left within the cap.                                           *)
LeftWithinCap ==
  \A k \in 1..Len(sent_d) :
    /\ sent_d[k].at <= clock_d
    /\ ~StopsUnheard /\ sent_d[k].spends /\ sent_d[k].cost > 0
         => Weight(Window(sent_d, sent_d[k].at, k)) <= Cap

(* The inductive invariant behind RollingCap.                              *)
DayInv == DayTypes /\ PostTrue /\ LinesKept /\ DayReceiptsTrue /\ LeftWithinCap

-----------------------------------------------------------------------------
(* Windows.                                                                *)

LEMMA WindowType ==
  ASSUME NEW q, NEW n \in Nat, \A j \in 1..n : q[j] \in SentOrder, NEW t \in Int
  PROVE  /\ Window(q, t, n) \in [1..n -> Nat]
         /\ IsFiniteSet(1..n)
         /\ Weight(Window(q, t, n)) \in Nat
  <1>1. Window(q, t, n) \in [1..n -> Nat] /\ DOMAIN Window(q, t, n) = 1..n
    BY DEF Window, SentOrder
  <1>2. IsFiniteSet(1..n)
    BY FS_Interval
  <1> QED BY <1>1, <1>2, UnitsFinite DEF Weight

(* Time moves orders out of the day, never into it.                        *)
LEMMA WindowFalls ==
  ASSUME Day \in Nat, NEW q, NEW n \in Nat, \A j \in 1..n : q[j] \in SentOrder,
         NEW t \in Int, NEW u \in Int, t <= u
  PROVE  Weight(Window(q, u, n)) <= Weight(Window(q, t, n))
  <1>1. PICK f \in [1..n -> Nat] : f = Window(q, u, n)
    BY WindowType
  <1>2. PICK g \in [1..n -> Nat] : g = Window(q, t, n)
    BY WindowType
  <1>3. PICK S : S = 1..n /\ IsFiniteSet(S)
    BY FS_Interval
  <1>4. ASSUME NEW j \in S
        PROVE  f[j] <= g[j]
    <2>1. j \in 1..n /\ q[j].at \in Nat /\ q[j].cost \in Nat
      BY <1>3 DEF SentOrder
    <2>2. f[j] = (IF q[j].spends /\ q[j].at >= u - Day THEN q[j].cost ELSE 0)
      BY <1>1, <2>1 DEF Window
    <2>3. g[j] = (IF q[j].spends /\ q[j].at >= t - Day THEN q[j].cost ELSE 0)
      BY <1>2, <2>1 DEF Window
    <2> QED BY <2>1, <2>2, <2>3
  <1>5. f \in [S -> Nat] /\ g \in [S -> Nat]
    BY <1>3
  <1>6. IsFiniteSet(S) /\ \A j \in S : f[j] # 0 => j \in S /\ f[j] <= g[j]
    BY <1>3, <1>4
  <1>7. Weight(f) <= Weight(g)
    BY <1>5, <1>6, WeightCovers
  <1> QED BY <1>1, <1>2, <1>7

(* What is sent next is added to the day; what was sent stays.             *)
LEMMA WindowGrows ==
  ASSUME NEW q, NEW r, NEW n \in Nat, NEW N \in Nat, N = n + 1, NEW e \in SentOrder,
         r[N] = e, \A j \in 1..n : r[j] = q[j] /\ q[j] \in SentOrder,
         Day \in Nat, NEW t \in Int
  PROVE  /\ \A k \in 1..n : Window(r, t, k) = Window(q, t, k)
         /\ Weight(Window(r, t, N)) <= Weight(Window(q, t, n)) + e.cost
  <1>3. r[N] = e /\ \A j \in 1..n : r[j] = q[j] /\ q[j] \in SentOrder
    OBVIOUS
  <1>4. ASSUME NEW k \in 1..n
        PROVE  Window(r, t, k) = Window(q, t, k)
    <2>1. \A j \in 1..k : r[j] = q[j]
      BY <1>3
    <2> QED BY <2>1 DEF Window
  <1>S. PICK S : S = 1..N
    OBVIOUS
  <1>T. PICK T : T = 1..n
    OBVIOUS
  <1>5. PICK f \in [S -> Nat] : f = Window(r, t, N)
    <2>1. \A j \in 1..N : r[j] \in SentOrder
      BY <1>3
    <2> QED BY <1>S, <2>1, WindowType
  <1>6. PICK g \in [T -> Nat] : g = Window(q, t, n)
    BY <1>3, <1>T, WindowType
  <1>7. IsFiniteSet(S) /\ N \in S /\ T = S \ {N}
    <2>1. IsFiniteSet(S)
      BY <1>S, FS_Interval
    <2>2. N \in S /\ T \subseteq S \ {N}
      BY <1>S, <1>T
    <2>3. ASSUME NEW j \in S, j # N
          PROVE  j \in T
      <3>1. j \in 1..N
        BY <1>S
      <3>2. j \in 1..n
        BY <2>3, <3>1
      <3> QED BY <1>T, <3>2
    <2> QED BY <2>1, <2>2, <2>3
  <1>8. ASSUME NEW j \in T
        PROVE  f[j] = g[j]
    <2>1. j \in 1..n /\ j \in 1..N /\ r[j] = q[j]
      BY <1>T, <1>3
    <2>2. f[j] = (IF r[j].spends /\ r[j].at >= t - Day THEN r[j].cost ELSE 0)
      BY <1>5, <2>1 DEF Window
    <2>3. g[j] = (IF q[j].spends /\ q[j].at >= t - Day THEN q[j].cost ELSE 0)
      BY <1>6, <2>1 DEF Window
    <2> QED BY <2>1, <2>2, <2>3
  <1>12. Weight(f) = f[N] + Weight(g)
    <2>1. PICK x \in S : x = N
      BY <1>7
    <2>5. Without(T, S, x)
      BY <1>7, <2>1 DEF Without
    <2>2. IsFiniteSet(S) /\ \A y \in T : f[y] = g[y]
      BY <1>7, <1>8
    <2>3. f \in [S -> Nat] /\ g \in [T -> Nat]
      OBVIOUS
    <2>4. Weight(f) = f[x] + Weight(g)
      BY <2>2, <2>3, <2>5, WeightGrows
    <2> QED BY <2>1, <2>4
  <1>13. f[N] \in Nat /\ e.cost \in Nat /\ f[N] <= e.cost
    <2>1. f[N] = IF r[N].spends /\ r[N].at >= t - Day THEN r[N].cost ELSE 0
      BY <1>S, <1>5, <1>7 DEF Window
    <2> QED BY <1>3, <2>1 DEF SentOrder
  <1>14. PICK w \in Nat : w = Weight(g)
    BY <1>3, <1>6, WindowType
  <1>15. Weight(f) <= w + e.cost
    BY <1>12, <1>13, <1>14
  <1> QED BY <1>4, <1>5, <1>6, <1>14, <1>15

-----------------------------------------------------------------------------
(* The check: what daily_posted_microusd adds up covers the window.        *)

DayCounts == [i \in Rolling!Receipted |-> Rolling!Exposure(receipts_d[i])]

LEMMA CutoffType ==
  ASSUME Rolling!DailyCapConstants, DayTypes
  PROVE  /\ Rolling!Cutoff \in Nat /\ clock_d - Day <= Rolling!Cutoff
         /\ \A t \in Nat : t >= clock_d - Day => t >= Rolling!Cutoff
  BY DEF DayTypes, Rolling!DailyCapConstants, Rolling!Cutoff

LEMMA DayCountsType ==
  ASSUME Rolling!DailyCapConstants, DayTypes
  PROVE  /\ DayCounts \in [Rolling!Receipted -> Nat]
         /\ IsFiniteSet(Rolling!Receipted)
  <1>1. ASSUME NEW i \in Rolling!Receipted
        PROVE  Rolling!Exposure(receipts_d[i]) \in Nat
    <2>1. receipts_d[i] \in DayReceipt
      BY DEF DayTypes, Rolling!Receipted
    <2> QED BY <2>1 DEF Rolling!Exposure, DayReceipt
  <1>2. IsFiniteSet(Rolling!Ids)
    <2>1. MaxPosts \in Int /\ 1 \in Int
      BY DEF Rolling!DailyCapConstants
    <2> QED BY <2>1, FS_Interval DEF Rolling!Ids
  <1>3. Rolling!Receipted \in SUBSET Rolling!Ids
    BY DEF Rolling!Receipted
  <1> QED BY <1>1, <1>2, <1>3, FS_Subset DEF DayCounts

LEMMA DayPostedIsWeight ==
  ASSUME Rolling!DailyCapConstants, DayTypes
  PROVE  Rolling!Posted = Weight(DayCounts)
  <1>S. PICK S : S = Rolling!Receipted
    OBVIOUS
  <1> DEFINE Table(h) == h = [s \in SUBSET S |->
               IF s = {} THEN 0 ELSE Rolling!Exposure(receipts_d[Any(s)]) + h[s \ {Any(s)}]]
  <1>1. DayCounts \in [S -> Nat] /\ DOMAIN DayCounts = S /\ IsFiniteSet(S)
    BY <1>S, DayCountsType
  <1>2. ASSUME NEW h
        PROVE  Table(h) <=> Adds(DayCounts, h)
    <2>1. ASSUME NEW s \in SUBSET S, s # {}
          PROVE  DayCounts[Any(s)] = Rolling!Exposure(receipts_d[Any(s)])
      <3>1. Any(s) \in s
        BY <2>1 DEF Any
      <3> QED BY <1>S, <3>1 DEF DayCounts
    <2>2. [s \in SUBSET S |->
             IF s = {} THEN 0 ELSE Rolling!Exposure(receipts_d[Any(s)]) + h[s \ {Any(s)}]]
          = [s \in SUBSET S |-> IF s = {} THEN 0 ELSE DayCounts[Any(s)] + h[s \ {Any(s)}]]
      BY <2>1
    <2> QED BY <1>1, <2>2 DEF Adds
  <1>3. Rolling!Posted = (CHOOSE h : Table(h))[S]
    BY <1>S DEF Rolling!Posted, Rolling!MapThenSumSet, Rolling!MapThenFoldSet, Any
  <1>4. \E h : Table(h)
    BY <1>1, <1>2, SumExists
  <1> HIDE DEF Table
  <1>5. PICK h : Table(h) /\ Rolling!Posted = h[S]
    BY <1>3, <1>4
  <1> QED BY <1>1, <1>2, <1>5, SumIsWeight

(* While daily_posted_microusd answers, it counts every order of the       *)
(* window: each has its line in the log, so it has its receipt.            *)
LEMMA PostedCovers ==
  ASSUME Rolling!DailyCapConstants, ~StopsUnheard, DayInv, pc_d = "idle", Rolling!Known
  PROVE  Weight(Window(sent_d, clock_d, Len(sent_d))) <= Rolling!Posted
  <1>0. /\ Day \in Nat /\ clock_d \in Nat /\ sent_d \in Seq(SentOrder)
        /\ audit_d \in Seq(AuditLine) /\ receipts_d \in [Rolling!Ids -> DayReceipt \cup {None}]
    BY DEF DayInv, DayTypes, Rolling!DailyCapConstants
  <1>1. PICK n \in Nat : n = Len(sent_d)
    BY <1>0
  <1>2. \A j \in 1..n : sent_d[j] \in SentOrder
    BY <1>0, <1>1
  <1>3. PICK S : S = 1..n /\ IsFiniteSet(S)
    BY FS_Interval
  <1>4. PICK f \in [S -> Nat] : f = Window(sent_d, clock_d, n)
    <2>1. clock_d \in Int
      BY <1>0
    <2>2. Window(sent_d, clock_d, n) \in [1..n -> Nat]
      BY <1>2, <2>1, WindowType
    <2> QED BY <1>3, <2>2
  <1>T. PICK T : T = Rolling!Receipted
    OBVIOUS
  <1>5. PICK g \in [T -> Nat] : g = DayCounts
    BY <1>T, DayCountsType DEF DayInv
  <1>6. IsFiniteSet(T)
    BY <1>T, DayCountsType DEF DayInv
  <1>7. ASSUME NEW j \in S, f[j] # 0
        PROVE  j \in T /\ f[j] <= g[j]
    <2>1. j \in 1..n /\ sent_d[j].at \in Nat /\ sent_d[j].cost \in Nat
      BY <1>2, <1>3 DEF SentOrder
    <2>2. f[j] = (IF sent_d[j].spends /\ sent_d[j].at >= clock_d - Day THEN sent_d[j].cost ELSE 0)
      BY <1>4, <2>1 DEF Window
    <2>3. sent_d[j].spends /\ sent_d[j].at >= clock_d - Day /\ f[j] = sent_d[j].cost
      BY <1>7, <2>2
    <2>4. sent_d[j].at >= Rolling!Cutoff /\ Rolling!Cutoff \in Nat
      BY <2>1, <2>3, CutoffType DEF DayInv
    <2>5. Lined(j)
      BY <1>1, <2>1 DEF DayInv, LinesKept, Rolling!Known
    <2>6. PICK k \in 1..Len(audit_d) : /\ audit_d[k].event = "receipt_written"
                                       /\ audit_d[k].id = j /\ audit_d[k].ts >= sent_d[j].at
      BY <2>5 DEF Lined
    <2>7. audit_d[k].ts >= Rolling!Cutoff
      <3>1. audit_d[k] \in AuditLine
        BY <1>0
      <3>2. audit_d[k].ts \in Nat
        BY <3>1 DEF AuditLine
      <3> QED BY <2>1, <2>4, <2>6, <3>2
    <2>8. j \in Rolling!Audited
      <3>1. k \in DOMAIN audit_d
        BY <1>0
      <3> QED BY <2>6, <2>7, <3>1 DEF Rolling!Audited
    <2>9. j \in Rolling!Ids /\ receipts_d[j] # None /\ j \in T
      BY <1>T, <2>8 DEF Rolling!Known, Rolling!Receipted
    <2>10. receipts_d[j] \in DayReceipt
      BY <1>0, <2>9
    <2>11. /\ receipts_d[j].posted >= sent_d[j].at /\ receipts_d[j].cost = sent_d[j].cost
           /\ ~Rolling!Excluded(receipts_d[j])
      BY <2>3, <2>9 DEF DayInv, DayReceiptsTrue
    <2>12. ~(receipts_d[j].posted < Rolling!Cutoff)
      <3>1. receipts_d[j].posted \in Nat
        BY <2>10 DEF DayReceipt
      <3> QED BY <2>1, <2>4, <2>11, <3>1
    <2>13. g[j] = sent_d[j].cost
      BY <1>5, <1>T, <2>9, <2>11, <2>12 DEF DayCounts, Rolling!Exposure
    <2> QED BY <2>1, <2>3, <2>9, <2>13
  <1>8. IsFiniteSet(S)
    BY <1>3
  <1>9. \A j \in S : f[j] # 0 => j \in T /\ f[j] <= g[j]
    BY <1>7
  <1>10. Weight(f) <= Weight(g)
    BY <1>6, <1>8, <1>9, WeightCovers
  <1> QED BY <1>1, <1>4, <1>5, <1>10, DayPostedIsWeight DEF DayInv

-----------------------------------------------------------------------------
(* Every step keeps DayInv.                                                *)

LEMMA DayStart ==
  ASSUME Rolling!DailyCapConstants, Rolling!Init
  PROVE  DayInv
  <1>1. /\ clock_d = 0 /\ audit_d = <<>> /\ sent_d = <<>> /\ pc_d = "idle"
        /\ receipts_d = [i \in Rolling!Ids |-> None]
    BY DEF Rolling!Init
  <1>2. DayTypes
    BY <1>1 DEF DayTypes
  <1>3. PostTrue /\ LinesKept /\ DayReceiptsTrue /\ LeftWithinCap
    BY <1>1 DEF PostTrue, LinesKept, DayReceiptsTrue, LeftWithinCap
  <1> QED BY <1>2, <1>3 DEF DayInv

(* The post is checked.                                                    *)
LEMMA DayCheck ==
  ASSUME Rolling!DailyCapConstants, DayInv, Rolling!Check
  PROVE  DayInv'
  <1>0. /\ pc_d = "idle" /\ pc_d' = "send" /\ sent_d \in Seq(SentOrder) /\ Len(sent_d) \in Nat
        /\ clock_d' = clock_d /\ audit_d' = audit_d /\ receipts_d' = receipts_d
        /\ sent_d' = sent_d /\ MaxPosts \in Nat /\ Len(sent_d) < MaxPosts
        /\ Costs \subseteq Nat /\ Cap \in Nat
    BY DEF Rolling!Check, DayInv, DayTypes, Rolling!DailyCapConstants
  <1>1. PICK cost \in Costs \cup {0}, kind \in {"GTC", "FOK"} :
          /\ Rolling!Fits(cost)
          /\ post_d' = [id |-> Len(sent_d) + 1, cost |-> cost, kind |-> kind,
                        status |-> None, posted |-> None]
    BY DEF Rolling!Check
  <1>2. cost \in Nat /\ Len(sent_d) + 1 \in Rolling!Ids
    BY <1>0 DEF Rolling!Ids
  <1>3. post_d' \in DayPost
    BY <1>1, <1>2 DEF DayPost
  <1>4. DayTypes'
    BY <1>0, <1>3 DEF DayInv, DayTypes
  <1>5. PICK w \in Nat : w = Weight(Window(sent_d, clock_d, Len(sent_d)))
    <2>1. \A j \in 1..Len(sent_d) : sent_d[j] \in SentOrder
      BY <1>0
    <2>2. clock_d \in Int
      BY DEF DayInv, DayTypes
    <2> QED BY <1>0, <2>1, <2>2, WindowType
  <1>6. ASSUME ~StopsUnheard, cost > 0
        PROVE  w + cost <= Cap
    <2>1. Rolling!Known /\ Rolling!Posted + cost <= Cap
      BY <1>1, <1>6 DEF Rolling!Fits
    <2>2. PICK v \in Nat : v = Rolling!Posted
      <3>1. PICK g \in [Rolling!Receipted -> Nat] : g = DayCounts /\ DOMAIN g = Rolling!Receipted
        BY DayCountsType DEF DayInv
      <3>2. Weight(g) \in Nat
        BY <3>1, DayCountsType, UnitsFinite DEF Weight, DayInv
      <3> QED BY <3>1, <3>2, DayPostedIsWeight DEF DayInv
    <2>3. w <= v
      BY <1>0, <1>5, <1>6, <2>1, <2>2, PostedCovers
    <2> QED BY <1>0, <1>2, <2>1, <2>2, <2>3
  <1>7. post_d'.id = Len(sent_d) + 1 /\ post_d'.cost = cost
    BY <1>1
  <1>8. PostTrue'
    BY <1>0, <1>5, <1>6, <1>7 DEF PostTrue
  <1>9. Rolling!Readable' = Rolling!Readable /\ \A j : Lined(j)' = Lined(j)
    BY <1>0 DEF Rolling!Readable, Lined
  <1>10. LinesKept' /\ DayReceiptsTrue' /\ LeftWithinCap'
    BY <1>0, <1>9 DEF DayInv, LinesKept, DayReceiptsTrue, LeftWithinCap, Rolling!Excluded
  <1> QED BY <1>4, <1>8, <1>10 DEF DayInv

(* It leaves.                                                              *)
LEMMA DaySend ==
  ASSUME Rolling!DailyCapConstants, DayInv, Rolling!Send
  PROVE  DayInv'
  <1>0. /\ pc_d = "send" /\ pc_d' = "answer" /\ sent_d \in Seq(SentOrder)
        /\ clock_d' = clock_d /\ audit_d' = audit_d /\ receipts_d' = receipts_d
        /\ post_d \in DayPost /\ clock_d \in Nat /\ Cap \in Nat /\ Day \in Nat
        /\ receipts_d \in [Rolling!Ids -> DayReceipt \cup {None}]
    BY DEF Rolling!Send, DayInv, DayTypes, Rolling!DailyCapConstants
  <1>1. PICK n \in Nat : n = Len(sent_d)
    BY <1>0
  <1>2. PICK N \in Nat : N = n + 1
    OBVIOUS
  <1>3. PICK status \in Statuses :
          /\ post_d' = [post_d EXCEPT !.status = status]
          /\ sent_d' = Append(sent_d, [at |-> clock_d, cost |-> post_d.cost,
               spends |-> ~Rolling!Excluded([status |-> status, kind |-> post_d.kind])])
    BY DEF Rolling!Send
  <1>4. PICK e \in SentOrder :
          /\ e.at = clock_d /\ e.cost = post_d.cost
          /\ e.spends <=> ~Rolling!Excluded([status |-> status, kind |-> post_d.kind])
          /\ sent_d' = Append(sent_d, e)
    <2>1. post_d.cost \in Nat
      BY <1>0 DEF DayPost
    <2>2. PICK b \in BOOLEAN :
            b = ~Rolling!Excluded([status |-> status, kind |-> post_d.kind])
      BY Zenon DEF Rolling!Excluded
    <2>3. PICK e : e = [at |-> clock_d, cost |-> post_d.cost, spends |-> b]
      OBVIOUS
    <2>4. e \in SentOrder /\ e.at = clock_d /\ e.cost = post_d.cost /\ e.spends = b
      BY <1>0, <2>1, <2>3 DEF SentOrder
    <2>5. sent_d' = Append(sent_d, e)
      BY <1>3, <2>2, <2>3
    <2> QED BY <2>2, <2>4, <2>5
  <1>5. /\ sent_d' \in Seq(SentOrder) /\ Len(sent_d') = N /\ sent_d'[N] = e
        /\ \A j \in 1..n : sent_d'[j] = sent_d[j] /\ sent_d[j] \in SentOrder
    BY <1>0, <1>1, <1>2, <1>4, AppendProperties
  <1>6. /\ post_d' \in DayPost /\ post_d'.status = status /\ post_d'.id = post_d.id
        /\ post_d'.cost = post_d.cost /\ post_d'.kind = post_d.kind
    BY <1>0, <1>3 DEF DayPost
  <1>7. DayTypes'
    BY <1>0, <1>5, <1>6 DEF DayInv, DayTypes
  <1>8. post_d.id = N
    BY <1>0, <1>1, <1>2 DEF DayInv, PostTrue
  <1>9. PostTrue'
    <2>1. Rolling!Excluded(post_d)' <=> Rolling!Excluded([status |-> status, kind |-> post_d.kind])
      BY <1>6 DEF Rolling!Excluded
    <2> QED BY <1>0, <1>2, <1>4, <1>5, <1>6, <1>8, <2>1 DEF PostTrue
  <1>10. \A j \in 1..n : Lined(j) => Lined(j)'
    BY <1>0, <1>5 DEF Lined
  <1>11. LinesKept'
    BY <1>0, <1>1, <1>2, <1>5, <1>10 DEF DayInv, LinesKept, Rolling!Readable
  <1>12. DayReceiptsTrue'
    <2> SUFFICES ASSUME NEW i \in Rolling!Ids, receipts_d[i] # None
                 PROVE  /\ i <= N
                        /\ receipts_d[i].posted >= sent_d'[i].at
                        /\ receipts_d[i].cost = sent_d'[i].cost
                        /\ sent_d'[i].spends => ~Rolling!Excluded(receipts_d[i])
      BY <1>0, <1>5 DEF DayReceiptsTrue, Rolling!Excluded
    <2>1. i <= n /\ i \in Nat /\ i >= 1
      BY <1>1 DEF DayInv, DayReceiptsTrue, Rolling!Ids, Rolling!DailyCapConstants
    <2>2. i \in 1..n /\ i <= N
      BY <1>2, <2>1
    <2> QED BY <1>5, <2>2 DEF DayInv, DayReceiptsTrue
  <1>13. LeftWithinCap'
    <2>1. /\ \A k \in 1..n, t \in Int : Window(sent_d', t, k) = Window(sent_d, t, k)
          /\ Weight(Window(sent_d', clock_d, N)) <= Weight(Window(sent_d, clock_d, n)) + e.cost
      <3>1. PICK q : q = sent_d
        OBVIOUS
      <3>2. PICK r : r = sent_d'
        OBVIOUS
      <3>3. \A j \in 1..n : r[j] = q[j] /\ q[j] \in SentOrder
        BY <1>5, <3>1, <3>2
      <3>4. r[N] = e
        BY <1>5, <3>2
      <3>5. Day \in Nat
        BY <1>0
      <3>6. ASSUME NEW t \in Int
            PROVE  /\ \A k \in 1..n : Window(r, t, k) = Window(q, t, k)
                   /\ Weight(Window(r, t, N)) <= Weight(Window(q, t, n)) + e.cost
        BY <1>2, <3>3, <3>4, <3>5, WindowGrows
      <3>7. clock_d \in Int
        BY <1>0
      <3>8. \A k \in 1..n, t \in Int : Window(r, t, k) = Window(q, t, k)
        BY <3>6
      <3>9. Weight(Window(r, clock_d, N)) <= Weight(Window(q, clock_d, n)) + e.cost
        BY <3>6, <3>7
      <3> QED BY <3>1, <3>2, <3>8, <3>9
    <2>2. ASSUME NEW k \in 1..n
          PROVE  /\ sent_d'[k].at <= clock_d
                 /\ ~StopsUnheard /\ sent_d'[k].spends /\ sent_d'[k].cost > 0
                      => Weight(Window(sent_d', sent_d'[k].at, k)) <= Cap
      <3>1. sent_d'[k] = sent_d[k] /\ sent_d[k].at \in Int
        BY <1>5 DEF SentOrder
      <3>2. Window(sent_d', sent_d[k].at, k) = Window(sent_d, sent_d[k].at, k)
        BY <2>1, <3>1
      <3> QED BY <1>1, <3>1, <3>2 DEF DayInv, LeftWithinCap
    <2>3. ASSUME ~StopsUnheard, e.cost > 0
          PROVE  Weight(Window(sent_d', clock_d, N)) <= Cap
      <3>0. clock_d \in Int /\ \A j \in 1..n : sent_d[j] \in SentOrder
        BY <1>0, <1>5
      <3>1. PICK w \in Nat : w = Weight(Window(sent_d, clock_d, n))
        BY <3>0, WindowType
      <3>2. PICK v \in Nat : v = Weight(Window(sent_d', clock_d, N))
        <4>1. \A j \in 1..N : sent_d'[j] \in SentOrder
          BY <1>2, <1>5
        <4> QED BY <3>0, <4>1, WindowType
      <3>3. w + post_d.cost <= Cap
        BY <1>0, <1>1, <1>4, <2>3, <3>1 DEF DayInv, PostTrue
      <3>4. post_d.cost \in Nat
        BY <1>0 DEF DayPost
      <3>5. v <= w + post_d.cost
        BY <1>4, <2>1, <3>1, <3>2
      <3>6. v <= Cap
        BY <1>0, <3>3, <3>4, <3>5
      <3> QED BY <3>2, <3>6
    <2>4. ASSUME NEW k \in 1..N
          PROVE  /\ sent_d'[k].at <= clock_d
                 /\ ~StopsUnheard /\ sent_d'[k].spends /\ sent_d'[k].cost > 0
                      => Weight(Window(sent_d', sent_d'[k].at, k)) <= Cap
      <3>1. CASE k = N
        BY <1>0, <1>4, <1>5, <2>3, <3>1
      <3>2. CASE k # N
        <4>1. k \in 1..n
          BY <1>2, <3>2
        <4> QED BY <2>2, <4>1
      <3> QED BY <3>1, <3>2
    <2> QED BY <1>0, <1>5, <2>4 DEF LeftWithinCap
  <1> QED BY <1>7, <1>9, <1>11, <1>12, <1>13 DEF DayInv

(* Its answer comes, its line and its receipt are written.                 *)
LEMMA DayRecord ==
  ASSUME Rolling!DailyCapConstants, DayInv,
         Rolling!Answer \/ Rolling!AppendAudit \/ Rolling!WriteReceipt
  PROVE  DayInv'
  <1>0. /\ sent_d \in Seq(SentOrder) /\ clock_d' = clock_d /\ sent_d' = sent_d
        /\ post_d \in DayPost /\ clock_d \in Nat /\ audit_d \in Seq(AuditLine)
        /\ receipts_d \in [Rolling!Ids -> DayReceipt \cup {None}]
        /\ pc_d \in {"answer", "audit", "receipt"} /\ post_d.status \in Statuses
    BY DEF Rolling!Answer, Rolling!AppendAudit, Rolling!WriteReceipt, DayInv, DayTypes
  <1>1. PICK n \in Nat : n = Len(sent_d) /\ n > 0
    BY <1>0 DEF DayInv, PostTrue
  <1>2. /\ post_d.id = n /\ n \in Rolling!Ids /\ n \in 1..Len(sent_d)
        /\ post_d.cost = sent_d[n].cost
        /\ sent_d[n].spends => ~Rolling!Excluded(post_d)
        /\ pc_d \in {"audit", "receipt"} => post_d.posted >= sent_d[n].at /\ post_d.posted \in Nat
    BY <1>0, <1>1 DEF DayInv, PostTrue, DayPost, DayTypes
  <1>3. sent_d[n].at <= clock_d /\ sent_d[n].at \in Nat
    <2>1. sent_d[n] \in SentOrder
      BY <1>0, <1>2
    <2> QED BY <1>2, <2>1 DEF DayInv, LeftWithinCap, SentOrder
  <1>4. LeftWithinCap'
    BY <1>0 DEF DayInv, LeftWithinCap
  <1>5. CASE Rolling!Answer
    <2>1. /\ pc_d = "answer" /\ pc_d' = "audit" /\ audit_d' = audit_d /\ receipts_d' = receipts_d
          /\ post_d' = [post_d EXCEPT !.posted = clock_d]
      BY <1>5 DEF Rolling!Answer
    <2>2. /\ post_d' \in DayPost /\ post_d'.posted = clock_d /\ post_d'.status = post_d.status
          /\ post_d'.id = post_d.id /\ post_d'.cost = post_d.cost /\ post_d'.kind = post_d.kind
      BY <1>0, <2>1 DEF DayPost
    <2>3. DayTypes'
      BY <1>0, <2>1, <2>2 DEF DayInv, DayTypes
    <2>4. Rolling!Excluded(post_d)' <=> Rolling!Excluded(post_d)
      BY <2>2 DEF Rolling!Excluded
    <2>5. PostTrue'
      BY <1>0, <1>1, <1>2, <1>3, <2>1, <2>2, <2>4 DEF PostTrue
    <2>6. \A j : Lined(j)' = Lined(j)
      BY <1>0, <2>1 DEF Lined
    <2>7. LinesKept' /\ DayReceiptsTrue'
      BY <1>0, <2>1, <2>6 DEF DayInv, LinesKept, DayReceiptsTrue, Rolling!Readable,
         Rolling!Excluded
    <2> QED BY <1>4, <2>3, <2>5, <2>7 DEF DayInv
  <1>6. CASE Rolling!AppendAudit
    <2>1. pc_d = "audit" /\ receipts_d' = receipts_d
      BY <1>6 DEF Rolling!AppendAudit
    <2>2. DayReceiptsTrue'
      BY <1>0, <2>1 DEF DayInv, DayReceiptsTrue, Rolling!Excluded
    <2>3. CASE Rolling!Readable
      <3> DEFINE l == [event |-> "receipt_written", id |-> post_d.id, ts |-> clock_d]
      <3>1. audit_d' = Append(audit_d, l) /\ pc_d' = "receipt" /\ post_d' = post_d
        BY <1>6, <2>3 DEF Rolling!AppendAudit
      <3>2. l \in AuditLine /\ l.event = "receipt_written" /\ l.id = n /\ l.ts = clock_d
        BY <1>0, <1>1, <1>2 DEF AuditLine
      <3> HIDE DEF l
      <3>3. PICK a \in Nat : a = Len(audit_d)
        BY <1>0
      <3>4. /\ audit_d' \in Seq(AuditLine) /\ Len(audit_d') = a + 1 /\ audit_d'[a + 1] = l
            /\ \A k \in 1..a : audit_d'[k] = audit_d[k]
        BY <1>0, <3>1, <3>2, <3>3, AppendProperties
      <3>5. DayTypes'
        BY <1>0, <1>2, <2>1, <3>1, <3>4 DEF DayInv, DayTypes
      <3>6. PostTrue'
        <4>1. Rolling!Excluded(post_d)' <=> Rolling!Excluded(post_d)
          BY <3>1 DEF Rolling!Excluded
        <4> QED BY <1>0, <1>1, <1>2, <2>1, <3>1, <4>1 DEF PostTrue
      <3>7. \A j : Lined(j) => Lined(j)'
        <4> SUFFICES ASSUME NEW j, Lined(j) PROVE Lined(j)'
          OBVIOUS
        <4>1. PICK k \in 1..a : /\ audit_d[k].event = "receipt_written"
                                /\ audit_d[k].id = j /\ audit_d[k].ts >= sent_d[j].at
          BY <3>3 DEF Lined
        <4>2. k \in 1..(a + 1)
          OBVIOUS
        <4> QED BY <1>0, <3>4, <4>1, <4>2 DEF Lined
      <3>8. Lined(n)'
        <4>1. a + 1 \in 1..(a + 1)
          OBVIOUS
        <4> QED BY <1>0, <1>3, <3>2, <3>4, <4>1 DEF Lined
      <3>9. Rolling!Readable' => Rolling!Readable
        BY <2>3
      <3>10. LinesKept'
        BY <1>0, <1>1, <2>3, <3>7, <3>8 DEF DayInv, LinesKept
      <3> QED BY <1>4, <2>2, <3>5, <3>6, <3>10 DEF DayInv
    <2>4. CASE ~Rolling!Readable
      <3>1. audit_d' = audit_d /\ pc_d' = "idle"
        BY <1>6, <2>4 DEF Rolling!AppendAudit
      <3>2. DayTypes' /\ PostTrue'
        BY <1>0, <2>1, <3>1 DEF DayInv, DayTypes, PostTrue
      <3>3. LinesKept'
        BY <2>4, <3>1 DEF LinesKept, Rolling!Readable
      <3> QED BY <1>4, <2>2, <3>2, <3>3 DEF DayInv
    <2> QED BY <2>3, <2>4
  <1>7. CASE Rolling!WriteReceipt
    <2> DEFINE r == [posted |-> post_d.posted, cost |-> post_d.cost, kind |-> post_d.kind,
                     status |-> post_d.status]
    <2>1. /\ pc_d = "receipt" /\ pc_d' = "idle" /\ audit_d' = audit_d
          /\ receipts_d' = [receipts_d EXCEPT ![n] = r]
      BY <1>2, <1>7 DEF Rolling!WriteReceipt
    <2>2. r \in DayReceipt /\ r.posted = post_d.posted /\ r.cost = post_d.cost
      BY <1>0, <1>2, <2>1 DEF DayReceipt, DayPost
    <2>3. Rolling!Excluded(r) <=> Rolling!Excluded(post_d)
      BY DEF Rolling!Excluded
    <2> HIDE DEF r
    <2>4. /\ receipts_d'[n] = r /\ receipts_d' \in [Rolling!Ids -> DayReceipt \cup {None}]
          /\ \A i \in Rolling!Ids \ {n} : receipts_d'[i] = receipts_d[i]
      BY <1>0, <1>2, <2>1, <2>2
    <2>5. DayTypes' /\ PostTrue'
      BY <1>0, <2>1, <2>4 DEF DayInv, DayTypes, PostTrue
    <2>6. \A j : Lined(j)' = Lined(j)
      BY <1>0, <2>1 DEF Lined
    <2>7. LinesKept'
      BY <1>0, <2>1, <2>6 DEF DayInv, LinesKept, Rolling!Readable
    <2>8. ASSUME NEW i \in Rolling!Ids, receipts_d'[i] # None
          PROVE  /\ i <= Len(sent_d)
                 /\ receipts_d'[i].posted >= sent_d[i].at
                 /\ receipts_d'[i].cost = sent_d[i].cost
                 /\ sent_d[i].spends => ~Rolling!Excluded(receipts_d'[i])
      <3>1. CASE i = n
        BY <1>1, <1>2, <2>1, <2>2, <2>3, <2>4, <3>1
      <3>2. CASE i # n
        BY <2>4, <2>8, <3>2 DEF DayInv, DayReceiptsTrue
      <3> QED BY <3>1, <3>2
    <2>9. DayReceiptsTrue'
      BY <1>0, <2>8 DEF DayReceiptsTrue, Rolling!Excluded
    <2> QED BY <1>4, <2>5, <2>7, <2>9 DEF DayInv
  <1> QED BY <1>5, <1>6, <1>7

(* A resting order is cancelled.                                           *)
LEMMA DayCancel ==
  ASSUME Rolling!DailyCapConstants, DayInv, NEW i \in Rolling!Ids, Rolling!CancelReceipt(i)
  PROVE  DayInv'
  <1>0. /\ pc_d = "idle" /\ pc_d' = "idle" /\ clock_d' = clock_d /\ sent_d' = sent_d
        /\ clock_d \in Nat /\ audit_d \in Seq(AuditLine) /\ sent_d \in Seq(SentOrder)
        /\ receipts_d \in [Rolling!Ids -> DayReceipt \cup {None}]
        /\ receipts_d[i] # None /\ i \in Nat /\ Rolling!Readable
        /\ receipts_d' = [receipts_d EXCEPT ![i].status = "cancelled"]
    BY DEF Rolling!CancelReceipt, DayInv, DayTypes, Rolling!Ids
  <1>1. PICK l : l = [event |-> "order_cancelled", id |-> i, ts |-> clock_d]
    OBVIOUS
  <1>2. l \in AuditLine /\ audit_d' = Append(audit_d, l)
    BY <1>0, <1>1 DEF Rolling!CancelReceipt, AuditLine
  <1>3. PICK a \in Nat : a = Len(audit_d)
    BY DEF DayInv, DayTypes
  <1>4. /\ audit_d' \in Seq(AuditLine) /\ Len(audit_d') = a + 1
        /\ \A k \in 1..a : audit_d'[k] = audit_d[k]
    BY <1>0, <1>2, <1>3, AppendProperties
  <1>5. PICK r \in DayReceipt : r = receipts_d[i]
    BY <1>0
  <1>6. PICK c : c = [r EXCEPT !.status = "cancelled"]
    OBVIOUS
  <1>7. /\ c \in DayReceipt /\ c.posted = r.posted /\ c.cost = r.cost
        /\ ~Rolling!Excluded(c)
    BY <1>6 DEF DayReceipt, Rolling!Excluded
  <1>8. /\ receipts_d'[i] = c /\ receipts_d' \in [Rolling!Ids -> DayReceipt \cup {None}]
        /\ \A j \in Rolling!Ids \ {i} : receipts_d'[j] = receipts_d[j]
    BY <1>0, <1>5, <1>6, <1>7
  <1>9. DayTypes' /\ PostTrue' /\ LeftWithinCap'
    BY <1>0, <1>4, <1>8 DEF DayInv, DayTypes, PostTrue, LeftWithinCap
  <1>10. \A j : Lined(j) => Lined(j)'
    <2> SUFFICES ASSUME NEW j, Lined(j) PROVE Lined(j)'
      OBVIOUS
    <2>1. PICK k \in 1..a : /\ audit_d[k].event = "receipt_written"
                            /\ audit_d[k].id = j /\ audit_d[k].ts >= sent_d[j].at
      BY <1>3 DEF Lined
    <2>2. k \in 1..(a + 1)
      OBVIOUS
    <2> QED BY <1>0, <1>4, <2>1, <2>2 DEF Lined
  <1>11. LinesKept'
    BY <1>0, <1>10 DEF DayInv, LinesKept
  <1>12. ASSUME NEW j \in Rolling!Ids, receipts_d'[j] # None
         PROVE  /\ j <= Len(sent_d)
                /\ receipts_d'[j].posted >= sent_d[j].at
                /\ receipts_d'[j].cost = sent_d[j].cost
                /\ sent_d[j].spends => ~Rolling!Excluded(receipts_d'[j])
    <2>1. CASE j = i
      BY <1>0, <1>5, <1>7, <1>8, <2>1 DEF DayInv, DayReceiptsTrue
    <2>2. CASE j # i
      BY <1>8, <1>12, <2>2 DEF DayInv, DayReceiptsTrue
    <2> QED BY <2>1, <2>2
  <1>13. DayReceiptsTrue'
    BY <1>0, <1>12 DEF DayReceiptsTrue, Rolling!Excluded
  <1> QED BY <1>9, <1>11, <1>13 DEF DayInv

(* A post ends early, after its audit line or before the order left.       *)
LEMMA DayStop ==
  ASSUME Rolling!DailyCapConstants, DayInv, Rolling!Stop
  PROVE  DayInv'
  <1>1. /\ ~StopsUnheard => pc_d \notin {"answer", "audit"}
        /\ pc_d' = "idle"
        /\ clock_d' = clock_d /\ audit_d' = audit_d /\ receipts_d' = receipts_d
        /\ sent_d' = sent_d
    BY DEF Rolling!Stop
  <1>2. DayTypes' /\ PostTrue' /\ LeftWithinCap'
    BY <1>1 DEF DayInv, DayTypes, PostTrue, LeftWithinCap
  <1>3. DayReceiptsTrue'
    BY <1>1 DEF DayInv, DayReceiptsTrue, Rolling!Excluded
  <1>4. \A j : Lined(j)' = Lined(j)
    BY <1>1 DEF Lined
  <1>5. LinesKept'
    BY <1>1, <1>4 DEF DayInv, LinesKept, Rolling!Readable
  <1> QED BY <1>2, <1>3, <1>5 DEF DayInv

(* Time passes: the window only loses orders.                              *)
LEMMA DayTick ==
  ASSUME Rolling!DailyCapConstants, DayInv, Rolling!Tick
  PROVE  DayInv'
  <1>1. /\ clock_d' = clock_d + 1 /\ audit_d' = audit_d /\ receipts_d' = receipts_d
        /\ sent_d' = sent_d /\ pc_d' = pc_d /\ post_d' = post_d
    BY DEF Rolling!Tick
  <1>2. clock_d \in Nat /\ sent_d \in Seq(SentOrder) /\ Day \in Nat /\ Cap \in Nat
    BY DEF DayInv, DayTypes, Rolling!DailyCapConstants
  <1>3. PICK u \in Int : u = clock_d + 1 /\ clock_d <= u /\ u \in Nat
    BY <1>2
  <1>4. clock_d' = u
    BY <1>1, <1>3
  <1>5. DayTypes'
    BY <1>1, <1>3, <1>4 DEF DayInv, DayTypes
  <1>6. PICK n \in Nat : n = Len(sent_d)
    BY <1>2
  <1>7. \A j \in 1..n : sent_d[j] \in SentOrder
    BY <1>2, <1>6
  <1>8. ASSUME ~StopsUnheard, pc_d = "send", post_d.cost > 0
        PROVE  Weight(Window(sent_d, u, n)) + post_d.cost <= Cap
    <2>1. PICK t \in Int : t = clock_d
      BY <1>2
    <2>2. t <= u /\ Day \in Nat
      BY <1>2, <1>3, <2>1
    <2>3. PICK w \in Nat : w = Weight(Window(sent_d, t, n))
      BY <1>7, WindowType
    <2>4. PICK v \in Nat : v = Weight(Window(sent_d, u, n))
      BY <1>7, WindowType
    <2>5. v <= w
      BY <1>7, <2>2, <2>3, <2>4, WindowFalls
    <2>6. w + post_d.cost <= Cap
      BY <1>6, <1>8, <2>1, <2>3 DEF DayInv, PostTrue
    <2>7. post_d.cost \in Nat
      BY <1>8 DEF DayInv, DayTypes, DayPost
    <2> QED BY <1>2, <2>4, <2>5, <2>6, <2>7
  <1>9. Rolling!Excluded(post_d)' <=> Rolling!Excluded(post_d)
    BY <1>1 DEF Rolling!Excluded
  <1>10. PostTrue'
    BY <1>1, <1>4, <1>6, <1>8, <1>9 DEF DayInv, PostTrue
  <1>11. DayReceiptsTrue'
    BY <1>1 DEF DayInv, DayReceiptsTrue, Rolling!Excluded
  <1>12. \A j : Lined(j)' = Lined(j)
    BY <1>1 DEF Lined
  <1>13. LinesKept'
    BY <1>1, <1>12 DEF DayInv, LinesKept, Rolling!Readable
  <1>14. ASSUME NEW k \in 1..n
         PROVE  /\ sent_d[k].at <= u
                /\ ~StopsUnheard /\ sent_d[k].spends /\ sent_d[k].cost > 0
                     => Weight(Window(sent_d, sent_d[k].at, k)) <= Cap
    <2>1. sent_d[k].at <= clock_d /\ sent_d[k].at \in Nat
      BY <1>6, <1>7 DEF DayInv, LeftWithinCap, SentOrder
    <2> QED BY <1>2, <1>3, <1>6, <2>1 DEF DayInv, LeftWithinCap
  <1>15. LeftWithinCap'
    BY <1>1, <1>4, <1>6, <1>14 DEF LeftWithinCap
  <1> QED BY <1>5, <1>10, <1>11, <1>13, <1>15 DEF DayInv

LEMMA DayStep ==
  ASSUME Rolling!DailyCapConstants, DayInv, [Rolling!Next]_(Rolling!vars)
  PROVE  DayInv'
  <1>1. CASE Rolling!Check
    BY <1>1, DayCheck
  <1>2. CASE Rolling!Send
    BY <1>2, DaySend
  <1>3. CASE Rolling!Answer \/ Rolling!AppendAudit \/ Rolling!WriteReceipt
    BY <1>3, DayRecord
  <1>4. CASE \E i \in Rolling!Ids : Rolling!CancelReceipt(i)
    BY <1>4, DayCancel
  <1>5. CASE Rolling!Stop
    BY <1>5, DayStop
  <1>6. CASE Rolling!Tick
    BY <1>6, DayTick
  <1>7. CASE UNCHANGED Rolling!vars
    <2>1. /\ clock_d' = clock_d /\ audit_d' = audit_d /\ receipts_d' = receipts_d
          /\ sent_d' = sent_d /\ pc_d' = pc_d /\ post_d' = post_d
      BY <1>7 DEF Rolling!vars
    <2>2. Rolling!Excluded(post_d)' <=> Rolling!Excluded(post_d)
      BY <2>1 DEF Rolling!Excluded
    <2>3. \A j : Lined(j)' = Lined(j)
      BY <2>1 DEF Lined
    <2>4. DayTypes' /\ PostTrue' /\ LeftWithinCap'
      BY <2>1, <2>2 DEF DayInv, DayTypes, PostTrue, LeftWithinCap
    <2>5. LinesKept' /\ DayReceiptsTrue'
      BY <2>1, <2>3 DEF DayInv, LinesKept, DayReceiptsTrue, Rolling!Readable, Rolling!Excluded
    <2> QED BY <2>4, <2>5 DEF DayInv
  <1> QED BY <1>1, <1>2, <1>3, <1>4, <1>5, <1>6, <1>7 DEF Rolling!Next

(* The sum of the property is the weight of the window at most.            *)
LEMMA SpentIsWindow ==
  ASSUME Rolling!DailyCapConstants, DayTypes, NEW k \in 1..Len(sent_d)
  PROVE  /\ Rolling!SpentInDayOf(k) \in Nat
         /\ Weight(Window(sent_d, sent_d[k].at, k)) \in Nat
         /\ Rolling!SpentInDayOf(k) <= Weight(Window(sent_d, sent_d[k].at, k))
  <1>0. sent_d \in Seq(SentOrder) /\ Day \in Nat
    BY DEF DayTypes, Rolling!DailyCapConstants
  <1>1. k \in Nat /\ \A j \in 1..k : sent_d[j] \in SentOrder
    BY <1>0
  <1>2. k \in 1..k
    BY <1>1
  <1>3. PICK t \in Int : t = sent_d[k].at
    BY <1>1, <1>2 DEF SentOrder
  <1>4. PICK S : S = {j \in 1..k : sent_d[j].spends /\ sent_d[j].at >= t - Day}
    OBVIOUS
  <1>5. PICK T : T = 1..k
    OBVIOUS
  <1>6. IsFiniteSet(T) /\ IsFiniteSet(S)
    <2>1. IsFiniteSet(T)
      BY <1>1, <1>5, FS_Interval
    <2> QED BY <1>4, <1>5, <2>1, FS_Subset
  <1>7. PICK g \in [T -> Nat] : g = Window(sent_d, t, k)
    BY <1>1, <1>5, WindowType
  <1>8. \A j \in S : sent_d[j].cost \in Nat
    BY <1>1, <1>4 DEF SentOrder
  <1>9. PICK f \in [S -> Nat] : f = [j \in S |-> sent_d[j].cost]
    BY <1>8
  <1>10. \A j \in S : f[j] = sent_d[j].cost
    BY <1>9
  <1>11. ASSUME NEW j \in S
         PROVE  j \in T /\ f[j] <= g[j]
    <2>1. j \in 1..k /\ sent_d[j].spends /\ sent_d[j].at >= t - Day
      BY <1>4
    <2>2. g[j] = sent_d[j].cost
      BY <1>7, <2>1 DEF Window
    <2> QED BY <1>5, <1>8, <1>10, <2>1, <2>2
  <1>12. \A j \in S : f[j] # 0 => j \in T /\ f[j] <= g[j]
    BY <1>11
  <1>13. Weight(f) <= Weight(g)
    BY <1>6, <1>12, WeightCovers
  <1> DEFINE Table(h) == h = [s \in SUBSET S |->
               IF s = {} THEN 0 ELSE sent_d[Any(s)].cost + h[s \ {Any(s)}]]
  <1>14. ASSUME NEW h
         PROVE  Table(h) <=> Adds(f, h)
    <2>1. ASSUME NEW s \in SUBSET S, s # {}
          PROVE  f[Any(s)] = sent_d[Any(s)].cost
      <3>1. Any(s) \in s
        BY <2>1 DEF Any
      <3> QED BY <1>10, <3>1
    <2>2. [s \in SUBSET S |-> IF s = {} THEN 0 ELSE sent_d[Any(s)].cost + h[s \ {Any(s)}]]
          = [s \in SUBSET S |-> IF s = {} THEN 0 ELSE f[Any(s)] + h[s \ {Any(s)}]]
      BY <2>1
    <2>3. DOMAIN f = S
      OBVIOUS
    <2> QED BY <2>2, <2>3 DEF Adds
  <1>15. Rolling!SpentInDayOf(k) = (CHOOSE h : Table(h))[S]
    BY <1>3, <1>4 DEF Rolling!SpentInDayOf, Rolling!MapThenSumSet, Rolling!MapThenFoldSet, Any
  <1>16. \E h : Table(h)
    BY <1>6, <1>14, SumExists
  <1> HIDE DEF Table
  <1>17. PICK h : Table(h) /\ Rolling!SpentInDayOf(k) = h[S]
    BY <1>15, <1>16
  <1>18. Adds(f, h)
    BY <1>14, <1>17
  <1>19. h[S] = Weight(f)
    BY <1>6, <1>18, SumIsWeight
  <1>20. Weight(f) \in Nat /\ Weight(g) \in Nat
    <2>1. DOMAIN f = S /\ DOMAIN g = T
      OBVIOUS
    <2>2. Weight(f) \in Nat
      BY <1>6, <2>1, UnitsFinite DEF Weight
    <2>3. Weight(g) \in Nat
      BY <1>6, <2>1, UnitsFinite DEF Weight
    <2> QED BY <2>2, <2>3
  <1> QED BY <1>3, <1>7, <1>13, <1>17, <1>19, <1>20

(* In no 24 hours that end with a send do the BUYs that were sent, with    *)
(* their fee bounds, exceed max_daily_usd, however the clock runs between  *)
(* a check, its send, its answer and its audit line (trade_flow_parts/     *)
(* policy.rs, daily_posted_microusd); no post is killed between its send   *)
(* and its audit line.                                                     *)
THEOREM AnyDaySpendsWithinCap ==
  ASSUME ~StopsUnheard
  PROVE  Rolling!Spec => []Rolling!RollingCap
  <1> USE DayConstants
  <1>1. Rolling!Init => DayInv
    BY DayStart
  <1>2. DayInv /\ [Rolling!Next]_(Rolling!vars) => DayInv'
    BY DayStep
  <1>3. DayInv => Rolling!RollingCap
    <2> SUFFICES ASSUME DayInv, NEW k \in DOMAIN sent_d,
                        sent_d[k].spends, sent_d[k].cost > 0
                 PROVE  Rolling!SpentInDayOf(k) <= Cap
      BY DEF Rolling!RollingCap
    <2>1. sent_d \in Seq(SentOrder) /\ Cap \in Nat
      BY DEF DayInv, DayTypes, Rolling!DailyCapConstants
    <2>2. k \in 1..Len(sent_d)
      BY <2>1
    <2>3. PICK w \in Nat : w = Weight(Window(sent_d, sent_d[k].at, k))
      BY <2>2, SpentIsWindow DEF DayInv
    <2>4. Rolling!SpentInDayOf(k) \in Nat /\ Rolling!SpentInDayOf(k) <= w
      BY <2>2, <2>3, SpentIsWindow DEF DayInv
    <2>5. w <= Cap
      BY <2>2, <2>3 DEF DayInv, LeftWithinCap
    <2> QED BY <2>1, <2>4, <2>5
  <1> QED BY <1>1, <1>2, <1>3, PTL DEF Rolling!Spec

-----------------------------------------------------------------------------
(* The bounds of DailyCap's types.                                         *)

Stamp == 0..MaxClock
BoundedReceipt == [posted : Stamp, cost : Costs \cup {0}, kind : {"GTC", "FOK"},
                   status : Statuses \cup {"cancelled"}]
BoundedPost == [id : Rolling!Ids, cost : Costs \cup {0}, kind : {"GTC", "FOK"},
                status : Statuses \cup {None}, posted : Stamp \cup {None}]
BoundedSent == [at : Stamp, cost : Costs \cup {0}, spends : BOOLEAN]
BoundedLine == [event : {"receipt_written", "order_cancelled"}, id : Rolling!Ids, ts : Stamp]

DayBounds ==
  /\ clock_d \in Stamp
  /\ audit_d \in Seq(BoundedLine) /\ Len(audit_d) <= MaxAudit + 1
  /\ receipts_d \in [Rolling!Ids -> BoundedReceipt \cup {None}]
  /\ sent_d \in Seq(BoundedSent)
  /\ pc_d \in {"idle", "send", "answer", "audit", "receipt"}
  /\ faults_d \in 0..MaxFaults
  /\ pc_d # "idle" => post_d \in BoundedPost
  /\ pc_d \in {"answer", "audit", "receipt"} => post_d.status \in Statuses
  /\ pc_d \in {"audit", "receipt"} => post_d.posted \in Stamp

LEMMA DayBoundsStart ==
  ASSUME Rolling!DailyCapConstants, Rolling!Init
  PROVE  DayBounds
  <1>1. MaxClock \in Nat /\ MaxAudit \in Nat /\ MaxFaults \in Nat
    BY DEF Rolling!DailyCapConstants
  <1> QED BY <1>1 DEF Rolling!Init, DayBounds, Stamp

LEMMA LineBounds ==
  ASSUME Rolling!DailyCapConstants, DayBounds, Rolling!Readable, NEW l \in BoundedLine,
         audit_d' = Append(audit_d, l)
  PROVE  audit_d' \in Seq(BoundedLine) /\ Len(audit_d') <= MaxAudit + 1
  <1>1. audit_d \in Seq(BoundedLine)
    BY DEF DayBounds
  <1>2. PICK n \in Nat : n = Len(audit_d)
    BY <1>1
  <1>3. MaxAudit \in Nat /\ n <= MaxAudit
    BY <1>2 DEF Rolling!Readable, Rolling!DailyCapConstants
  <1>4. n + 1 <= MaxAudit + 1
    BY <1>3
  <1>5. audit_d' \in Seq(BoundedLine) /\ Len(audit_d') = n + 1
    BY <1>1, <1>2, AppendProperties
  <1> QED BY <1>4, <1>5

LEMMA DayBoundsStep ==
  ASSUME Rolling!DailyCapConstants, DayBounds, [Rolling!Next]_(Rolling!vars)
  PROVE  DayBounds'
  <1>0. MaxClock \in Nat /\ MaxAudit \in Nat /\ MaxFaults \in Nat /\ MaxPosts \in Nat
    BY DEF Rolling!DailyCapConstants
  <1>1. CASE Rolling!Check
    <2>1. PICK cost \in Costs \cup {0}, kind \in {"GTC", "FOK"} :
            post_d' = [id |-> Len(sent_d) + 1, cost |-> cost, kind |-> kind,
                       status |-> None, posted |-> None]
      BY <1>1 DEF Rolling!Check
    <2>2. Len(sent_d) \in Nat /\ Len(sent_d) < MaxPosts
      BY <1>1 DEF Rolling!Check, DayBounds
    <2>3. Len(sent_d) + 1 \in Rolling!Ids
      BY <1>0, <2>2 DEF Rolling!Ids
    <2>4. post_d' \in BoundedPost
      BY <2>1, <2>3 DEF BoundedPost
    <2> QED BY <1>1, <2>4 DEF Rolling!Check, DayBounds
  <1>2. CASE Rolling!Send
    <2>1. PICK status \in Statuses :
            /\ post_d' = [post_d EXCEPT !.status = status]
            /\ sent_d' = Append(sent_d, [at |-> clock_d, cost |-> post_d.cost,
                 spends |-> ~Rolling!Excluded([status |-> status, kind |-> post_d.kind])])
      BY <1>2 DEF Rolling!Send
    <2>2. post_d \in BoundedPost /\ pc_d' = "answer" /\ clock_d \in Stamp
      BY <1>2 DEF Rolling!Send, DayBounds
    <2>3. post_d' \in BoundedPost /\ post_d'.status \in Statuses
      BY <2>1, <2>2 DEF BoundedPost
    <2>4. PICK b \in BOOLEAN :
            b = ~Rolling!Excluded([status |-> status, kind |-> post_d.kind])
      BY Zenon DEF Rolling!Excluded
    <2>5. PICK e : e = [at |-> clock_d, cost |-> post_d.cost, spends |-> b]
      OBVIOUS
    <2>6. e \in BoundedSent /\ sent_d' = Append(sent_d, e)
      <3>1. post_d.cost \in Costs \cup {0}
        BY <2>2 DEF BoundedPost
      <3>2. e \in BoundedSent
        BY <2>2, <2>5, <3>1 DEF BoundedSent
      <3> QED BY <2>1, <2>4, <2>5, <3>2
    <2>7. sent_d' \in Seq(BoundedSent)
      BY <2>6, AppendProperties DEF DayBounds
    <2> QED BY <1>2, <2>2, <2>3, <2>7 DEF Rolling!Send, DayBounds
  <1>3. CASE Rolling!Answer
    <2>1. post_d' = [post_d EXCEPT !.posted = clock_d] /\ post_d \in BoundedPost
      BY <1>3 DEF Rolling!Answer, DayBounds
    <2>2. post_d' \in BoundedPost /\ post_d'.posted \in Stamp /\ post_d'.status = post_d.status
      BY <2>1 DEF BoundedPost, DayBounds
    <2> QED BY <1>3, <2>2 DEF Rolling!Answer, DayBounds
  <1>4. CASE Rolling!AppendAudit
    <2>1. CASE Rolling!Readable
      <3>1. PICK l : l = [event |-> "receipt_written", id |-> post_d.id, ts |-> clock_d]
        OBVIOUS
      <3>2. post_d \in BoundedPost
        BY <1>4 DEF Rolling!AppendAudit, DayBounds
      <3>3. l \in BoundedLine
        BY <3>1, <3>2 DEF BoundedLine, BoundedPost, DayBounds
      <3>4. audit_d' = Append(audit_d, l)
        BY <1>4, <2>1, <3>1 DEF Rolling!AppendAudit
      <3>5. audit_d' \in Seq(BoundedLine) /\ Len(audit_d') <= MaxAudit + 1
        BY <2>1, <3>3, <3>4, LineBounds
      <3> QED BY <1>4, <2>1, <3>5 DEF Rolling!AppendAudit, DayBounds
    <2>2. CASE ~Rolling!Readable
      BY <1>4, <2>2 DEF Rolling!AppendAudit, DayBounds
    <2> QED BY <2>1, <2>2
  <1>5. CASE Rolling!WriteReceipt
    <2>1. PICK r : r = [posted |-> post_d.posted, cost |-> post_d.cost, kind |-> post_d.kind,
                        status |-> post_d.status]
      OBVIOUS
    <2>2. post_d \in BoundedPost /\ post_d.posted \in Stamp /\ post_d.status \in Statuses
      BY <1>5 DEF Rolling!WriteReceipt, DayBounds
    <2>3. r \in BoundedReceipt
      BY <2>1, <2>2 DEF BoundedReceipt, BoundedPost
    <2>4. receipts_d' = [receipts_d EXCEPT ![post_d.id] = r]
      BY <1>5, <2>1 DEF Rolling!WriteReceipt
    <2>5. receipts_d' \in [Rolling!Ids -> BoundedReceipt \cup {None}]
      BY <2>3, <2>4 DEF DayBounds
    <2> QED BY <1>5, <2>5 DEF Rolling!WriteReceipt, DayBounds
  <1>6. CASE \E i \in Rolling!Ids : Rolling!CancelReceipt(i)
    <2>1. PICK i \in Rolling!Ids : Rolling!CancelReceipt(i)
      BY <1>6
    <2>2. PICK l : l = [event |-> "order_cancelled", id |-> i, ts |-> clock_d]
      OBVIOUS
    <2>3. l \in BoundedLine
      BY <2>2 DEF BoundedLine, DayBounds
    <2>4. audit_d' = Append(audit_d, l) /\ Rolling!Readable
      BY <2>1, <2>2 DEF Rolling!CancelReceipt
    <2>5. audit_d' \in Seq(BoundedLine) /\ Len(audit_d') <= MaxAudit + 1
      BY <2>3, <2>4, LineBounds
    <2>6. PICK r \in BoundedReceipt : r = receipts_d[i]
      BY <2>1 DEF Rolling!CancelReceipt, DayBounds
    <2>7. PICK c : c = [r EXCEPT !.status = "cancelled"]
      OBVIOUS
    <2>8. c \in BoundedReceipt
      BY <2>7 DEF BoundedReceipt
    <2>9. receipts_d' = [receipts_d EXCEPT ![i] = c]
      BY <2>1, <2>6, <2>7 DEF Rolling!CancelReceipt
    <2>10. receipts_d' \in [Rolling!Ids -> BoundedReceipt \cup {None}]
      BY <2>8, <2>9 DEF DayBounds
    <2> QED BY <2>1, <2>5, <2>10 DEF Rolling!CancelReceipt, DayBounds
  <1>7. CASE Rolling!Stop
    BY <1>0, <1>7 DEF Rolling!Stop, DayBounds
  <1>8. CASE Rolling!Tick
    <2>1. clock_d' \in Stamp
      BY <1>0, <1>8 DEF Rolling!Tick, DayBounds, Stamp
    <2> QED BY <1>8, <2>1 DEF Rolling!Tick, DayBounds
  <1>9. CASE UNCHANGED Rolling!vars
    BY <1>9 DEF Rolling!vars, DayBounds
  <1> QED BY <1>1, <1>2, <1>3, <1>4, <1>5, <1>6, <1>7, <1>8, <1>9 DEF Rolling!Next

(* The daily cap's state keeps its types and its bounds, whichever posts   *)
(* stop: audit.jsonl outgrows MAX_STORE_BYTES by one line at most.         *)
THEOREM DayCapTypes == Rolling!Spec => []Rolling!TypeOK
  <1> USE DayConstants
  <1>1. Rolling!Init => DayBounds
    BY DayBoundsStart
  <1>2. DayBounds /\ [Rolling!Next]_(Rolling!vars) => DayBounds'
    BY DayBoundsStep
  <1>3. DayBounds => Rolling!TypeOK
    BY DEF DayBounds, Rolling!TypeOK, Stamp, BoundedReceipt, BoundedSent, BoundedLine
  <1> QED BY <1>1, <1>2, <1>3, PTL DEF Rolling!Spec

(* daily_posted_microusd and the receipts it reads, over any run of the    *)
(* clock: no day that ends with a send exceeds max_daily_usd, as long as   *)
(* no post is killed between its send and its audit line.                  *)
THEOREM TradingDaysHold ==
  ASSUME ~StopsUnheard
  PROVE  Rolling!Spec => []DayHolds
  BY AnyDaySpendsWithinCap, DayCapTypes, PTL DEF DayHolds
================================================================================
