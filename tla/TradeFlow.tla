------------------------------ MODULE TradeFlow ------------------------------
(***************************************************************************)
(* The trade drafts of one wallet account: create, revalidate, post and    *)
(* cancel, with the venue (the CLOB) they post to.                         *)
(*                                                                         *)
(* Every route write is an invocation p.  Each of its store writes and     *)
(* each of its calls to the host or the venue is a step of its own, so an  *)
(* invocation can be killed, or can return early on a failed host call,    *)
(* between any two of them.  revalidate, post and the two cancels run      *)
(* inside the wallet's lock; creating a draft and writing the venue        *)
(* configuration do not.                                                   *)
(*                                                                         *)
(* A quote stands for all that review_intent_matches_draft compares (limit *)
(* price, size, maker, taker, fee and, for a SELL, the preflight) and is   *)
(* the order's whole cost in USD (amount plus fee bound).  The market is   *)
(* free to move: every live read may see any quote.  policy_check.json and *)
(* quote.json are left out: no code decides anything from them.            *)
(***************************************************************************)
EXTENDS WalletLock, Naturals, FiniteSets, FiniteSetsExt

CONSTANTS Salts,      \* order salts; each prepared order draws an unused one
          Quotes,     \* costs a live quote may have
          Kinds,      \* [side, rests]: BUY or SELL, and OrderType::can_rest
          Configs,    \* venue configurations the owner may write
          MaxDrafts,  \* bound on draft ids
          MaxCalls,   \* bound on invocations
          MaxFaults,  \* bound on kills and failed host calls
          Creators,   \* invocations that may create drafts
          ListFails,  \* TRUE: store_list may fail under next_id
          None

Drafts == 1..MaxDrafts

ASSUME TradeFlowAssumption ==
  /\ MaxDrafts \in Nat /\ MaxCalls \in Nat /\ MaxFaults \in Nat
  /\ Quotes \subseteq Nat
  /\ Kinds \subseteq [side : {"buy", "sell"}, rests : BOOLEAN]
  /\ Configs \subseteq [enabled : BOOLEAN, max_order : Nat,
                        max_daily : Nat \cup {None}, flag_above : Nat]
  /\ Creators \subseteq Procs
  /\ ListFails \in BOOLEAN
  /\ None \notin Nat \cup Salts

VARIABLES
  \* the wallet's private store, one entry per draft id
  drafts,     \* drafts/{id}/order.json
  reviews,    \* drafts/{id}/review_intent.json
  prepared,   \* drafts/{id}/prepared_signing.json
  approvals,  \* drafts/{id}/approval.json: the salt it is bound to
  attempts,   \* drafts/{id}/post_attempt.json: its status
  receipts,   \* receipts/{id}/receipt.json
  audited,    \* ids with a receipt_written line in audit.jsonl
  cfg,        \* settings/{wallet}/venue.toml
  \* the venue
  orders,     \* every order sent, by salt
  \* the invocations
  pc, mem,
  calls, faults

store  == <<drafts, reviews, prepared, approvals, attempts, receipts, audited>>
bounds == <<calls, faults>>
vars   == <<owner, inside, store, cfg, orders, pc, mem, bounds>>

OpenStatus == {"review", "revalidated", "signing_prepared"}
DraftStatus == OpenStatus \cup
  {"policy_denied", "signed", "posted", "rejected", "ambiguous", "cancelled"}
Accepted == {"live", "matched", "unmatched"}
Answers  == Accepted \cup {"rejected", "ambiguous", "open", "none"}

Draft   == [kind : Kinds, quote : Quotes, status : DraftStatus,
            salt : Salts \cup {None}]
Review  == [quote : Quotes, warn : BOOLEAN, staged : BOOLEAN,
            ack : {"unset", "no", "yes"}]
Order   == [salt : Salts, quote : Quotes, review : Review]
Receipt == [kind : Kinds, salt : Salts, quote : Quotes,
            status : Accepted \cup {"rejected", "ambiguous", "cancelled"}]
Sent    == [draft : Drafts, kind : Kinds, quote : Quotes, review : Review,
            state : {"flying", "live", "matched", "killed", "cancelled", "refused"}]
Call    == [id : 0..MaxDrafts, ack : {"no", "yes"}, draft : Draft \cup {None},
            review : Review \cup {None}, order : Order \cup {None},
            receipt : Receipt \cup {None}, cap : Nat \cup {None},
            answer : Answers]

(* They are 53 random bits.                                                *)
ASSUME SaltsFinite == IsFiniteSet(Salts)

ASSUME NoneIsNoRecord ==
  None \notin Draft \cup Review \cup Order \cup Receipt \cup Sent

LockedSteps ==
  {"revalidate", "clear_prepared", "clear_approval", "clear_attempt", "live",
   "preflight", "drop_review", "stage_review", "store_draft",
   "post", "check", "acknowledge", "prepare", "bind", "prepared_attempt", "sign",
   "signed_attempt", "signed_draft", "send", "reconcile", "reconcile_attempt",
   "audit", "receipt", "drop_prepared", "drop_approval", "answer_draft",
   "answer_attempt", "cancel", "cancel_delete", "cancel_receipt",
   "cancel_draft", "discover", "return"}
CreateSteps == {"create_draft", "create_review"}

TypeOK ==
  /\ LockTypeOK
  /\ drafts \in [Drafts -> Draft \cup {None}]
  /\ reviews \in [Drafts -> Review \cup {None}]
  /\ prepared \in [Drafts -> Order \cup {None}]
  /\ approvals \in [Drafts -> Salts \cup {None}]
  /\ attempts \in [Drafts -> {"none", "signing_prepared", "signed", "posted",
                              "rejected", "reconciled_open_order"}]
  /\ receipts \in [Drafts -> Receipt \cup {None}]
  /\ audited \subseteq Drafts
  /\ cfg \in Configs
  /\ orders \in [Salts -> Sent \cup {None}]
  /\ pc \in [Procs -> LockedSteps \cup CreateSteps \cup {"idle"}]
  /\ mem \in [Procs -> Call]
  /\ calls \in 0..MaxCalls
  /\ faults \in 0..MaxFaults

(* What an invocation knows when it begins: the draft and the body's       *)
(* acknowledge_warnings.                                                   *)
Fresh(d, ack) == [id |-> d, ack |-> ack, draft |-> None, review |-> None,
                  order |-> None, receipt |-> None, cap |-> None, answer |-> "none"]
NoCall == Fresh(0, "no")

Init ==
  /\ LockInit
  /\ drafts = [d \in Drafts |-> None]
  /\ reviews = [d \in Drafts |-> None]
  /\ prepared = [d \in Drafts |-> None]
  /\ approvals = [d \in Drafts |-> None]
  /\ attempts = [d \in Drafts |-> "none"]
  /\ receipts = [d \in Drafts |-> None]
  /\ audited = {}
  /\ cfg \in Configs
  /\ orders = [s \in Salts |-> None]
  /\ pc = [p \in Procs |-> "idle"]
  /\ mem = [p \in Procs |-> NoCall]
  /\ calls = 0
  /\ faults = 0

-----------------------------------------------------------------------------
(* What the policy knows.                                                  *)

(* A slip: any unmatched order is taken to be off the book.                *)
ExcludedUnmatched(status, kind) == status \in {"rejected", "unmatched"}

(* clob_status_excluded_from_daily_cap                                     *)
Excluded(status, kind) ==
  status = "rejected" \/ (status = "unmatched" /\ ~kind.rests)

(* A slip: only what has filled is counted.                                *)
FilledExposure(d) ==
  IF receipts[d] # None /\ receipts[d].status = "matched" THEN receipts[d].quote ELSE 0

(* receipt_daily_exposure_microusd, over the receipts of one day.          *)
ReceiptExposure(d) ==
  IF receipts[d] = None THEN 0
  ELSE IF receipts[d].kind.side = "sell" THEN 0
  ELSE IF Excluded(receipts[d].status, receipts[d].kind) THEN 0
  ELSE receipts[d].quote

(* daily_posted_microusd: unknown while an audited receipt is missing.     *)
ExposureKnown == \A d \in audited : receipts[d] # None
DailyPosted == MapThenSumSet(ReceiptExposure, Drafts)

(* evaluate_local_polymarket_order.  The per-market rules are folded into  *)
(* `enabled`; USD limits do not apply to a SELL.                           *)
Denied(kind, usd) ==
  \/ ~cfg.enabled
  \/ /\ kind.side = "buy"
     /\ \/ usd > cfg.max_order
        \/ /\ cfg.max_daily # None
           /\ ~ExposureKnown \/ DailyPosted + usd > cfg.max_daily
Warned(kind, usd) == kind.side = "buy" /\ usd > cfg.flag_above

-----------------------------------------------------------------------------
(* Steps of an invocation.                                                 *)

Goto(p, step) == pc' = [pc EXCEPT ![p] = step]
Remember(p, call) == mem' = [mem EXCEPT ![p] = call]

(* A write that runs inside the lock begins: acquire_trade_lock is Ok.  A  *)
(* write that finds the lock taken is refused and changes nothing.         *)
Enter(p, step, d, ack) ==
  /\ pc[p] = "idle"
  /\ calls < MaxCalls
  /\ calls' = calls + 1
  /\ Take(p)
  /\ Goto(p, step)
  /\ Remember(p, Fresh(d, ack))
  /\ UNCHANGED <<store, cfg, orders, faults>>

Revalidate(p) == \E d \in Drafts : Enter(p, "revalidate", d, "no")
Post(p) == \E d \in Drafts, ack \in {"no", "yes"} : Enter(p, "post", d, ack)
Cancel(p) == \E d \in Drafts : Enter(p, "cancel", d, "no")
CancelDiscovered(p) == Enter(p, "discover", 0, "no")

(* The invocation returns and its lock is dropped.                         *)
Return(p) ==
  /\ pc[p] = "return"
  /\ Free(p)
  /\ Goto(p, "idle")
  /\ Remember(p, NoCall)
  /\ UNCHANGED <<store, cfg, orders, bounds>>

(* It ends where it is: nothing else changes.                              *)
Stop(p) == Goto(p, "return") /\ UNCHANGED <<mem, orders, store>>

Inside(p, step) ==
  /\ pc[p] = step
  /\ UNCHANGED <<lockVars, cfg, bounds>>

(* A slip: a post that got no answer may be revalidated and tried again.   *)
RevisableUnanswered == {"review", "revalidated", "signed"}

(* The statuses revalidate accepts as they are.                            *)
Revisable == {"review", "revalidated"}

(* load_trade_draft                                                        *)
StatusOf(d) == IF drafts[d] = None THEN "absent" ELSE drafts[d].status

LoadForRevalidate(p) ==
  /\ Inside(p, "revalidate")
  /\ LET id == mem[p].id IN
     \/ /\ StatusOf(id) = "signing_prepared"
        /\ Remember(p, [mem[p] EXCEPT !.draft =
                          [drafts[id] EXCEPT !.status = "review", !.salt = None]])
        /\ Goto(p, "clear_prepared")
        /\ UNCHANGED <<store, orders>>
     \/ /\ StatusOf(id) \in Revisable
        /\ Remember(p, [mem[p] EXCEPT !.draft = drafts[id]])
        /\ Goto(p, "live")
        /\ UNCHANGED <<store, orders>>
     \/ StatusOf(id) \notin Revisable \cup {"signing_prepared"} /\ Stop(p)

(* The order being prepared is discarded before anything is checked.       *)
ClearPrepared(p) ==
  /\ Inside(p, "clear_prepared")
  /\ prepared' = [prepared EXCEPT ![mem[p].id] = None]
  /\ Goto(p, "clear_approval")
  /\ UNCHANGED <<drafts, reviews, approvals, attempts, receipts, audited, mem, orders>>

ClearApproval(p) ==
  /\ Inside(p, "clear_approval")
  /\ approvals' = [approvals EXCEPT ![mem[p].id] = None]
  /\ Goto(p, "clear_attempt")
  /\ UNCHANGED <<drafts, reviews, prepared, attempts, receipts, audited, mem, orders>>

ClearAttempt(p) ==
  /\ Inside(p, "clear_attempt")
  /\ attempts' = [attempts EXCEPT ![mem[p].id] = "none"]
  /\ Goto(p, "live")
  /\ UNCHANGED <<drafts, reviews, prepared, approvals, receipts, audited, mem, orders>>

(* The live market is read and the draft requoted; the policy denies, or a *)
(* BUY is staged, or a SELL goes on to its preflight.  A read may fail.    *)
ReviseLive(p) ==
  /\ Inside(p, "live")
  /\ UNCHANGED <<store, orders>>
  /\ \E q \in Quotes :
       LET kind == mem[p].draft.kind
           revised(status) == [mem[p].draft EXCEPT !.quote = q, !.status = status]
       IN \/ /\ Denied(kind, q)
             /\ Remember(p, [mem[p] EXCEPT !.draft = revised("policy_denied")])
             /\ Goto(p, "drop_review")
          \/ /\ ~Denied(kind, q)
             /\ Remember(p, [mem[p] EXCEPT
                               !.draft = revised("revalidated"),
                               !.review = [quote |-> q, warn |-> Warned(kind, q),
                                           staged |-> TRUE, ack |-> "unset"]])
             /\ Goto(p, IF kind.side = "buy" THEN "stage_review" ELSE "preflight")

LiveReadFails(p) == Inside(p, "live") /\ Stop(p)

(* verify_sell_preflight and enable_sell_posting: the SELL is covered, or  *)
(* refused (-3) and returned to review, or a read failed (-4).             *)
Preflight(p) ==
  /\ Inside(p, "preflight")
  /\ \/ /\ Goto(p, "stage_review")
        /\ UNCHANGED <<store, orders, mem>>
     \/ /\ Goto(p, "drop_review")
        /\ Remember(p, [mem[p] EXCEPT !.draft.status = "review"])
        /\ UNCHANGED <<store, orders>>
     \/ Stop(p)

DropReview(p) ==
  /\ Inside(p, "drop_review")
  /\ reviews' = [reviews EXCEPT ![mem[p].id] = None]
  /\ Goto(p, "store_draft")
  /\ UNCHANGED <<drafts, prepared, approvals, attempts, receipts, audited, mem, orders>>

StageReview(p) ==
  /\ Inside(p, "stage_review")
  /\ reviews' = [reviews EXCEPT ![mem[p].id] = mem[p].review]
  /\ Goto(p, "store_draft")
  /\ UNCHANGED <<drafts, prepared, approvals, attempts, receipts, audited, mem, orders>>

(* order.json is written last, from the copy in memory.                    *)
StoreDraft(p) ==
  /\ Inside(p, "store_draft")
  /\ drafts' = [drafts EXCEPT ![mem[p].id] = mem[p].draft]
  /\ Goto(p, "return")
  /\ UNCHANGED <<reviews, prepared, approvals, attempts, receipts, audited, mem, orders>>

-----------------------------------------------------------------------------
(* Posting.                                                                *)

(* A slip: a post that stopped after signing may be posted again.          *)
PostableUnanswered == {"revalidated", "signing_prepared", "signed"}

(* The statuses post_trade_draft accepts.                                  *)
Postable == {"revalidated", "signing_prepared"}

LoadForPost(p) ==
  /\ Inside(p, "post")
  /\ LET id == mem[p].id IN
     \/ /\ StatusOf(id) \in Postable
        /\ Remember(p, [mem[p] EXCEPT !.draft = drafts[id]])
        /\ Goto(p, "check")
        /\ UNCHANGED <<store, orders>>
     \/ StatusOf(id) \notin Postable /\ Stop(p)

(* refresh_trade_post_inputs denies: the review is withdrawn.              *)
CheckDenies(p) ==
  /\ Inside(p, "check")
  /\ \E q \in Quotes :
       /\ Denied(mem[p].draft.kind, q)
       /\ Remember(p, [mem[p] EXCEPT !.draft.quote = q,
                                     !.draft.status = "policy_denied"])
  /\ Goto(p, "drop_review")
  /\ UNCHANGED <<store, orders>>

(* The live quote passes, warnings are acknowledged, and the stored final  *)
(* review is the one of this very quote.                                   *)
CheckPasses(p) ==
  /\ Inside(p, "check")
  /\ LET kind == mem[p].draft.kind
         review == reviews[mem[p].id]
     IN /\ review # None
        /\ review.staged
        /\ ~Denied(kind, review.quote)
        /\ Warned(kind, review.quote) = review.warn
        /\ review.warn => mem[p].ack = "yes"
        /\ Remember(p, [mem[p] EXCEPT
                          !.draft.quote = review.quote,
                          !.review = [review EXCEPT !.ack = mem[p].ack],
                          !.cap = cfg.max_daily])
  /\ Goto(p, "acknowledge")
  /\ UNCHANGED <<store, orders>>

(* A live read fails, the market has moved off the review, a warning is    *)
(* not acknowledged, there is no staged review.                            *)
CheckRefuses(p) == Inside(p, "check") /\ Stop(p)

(* review_intent.json is rewritten with the acknowledgement; its hash is   *)
(* the review itself here.                                                 *)
Acknowledge(p) ==
  /\ Inside(p, "acknowledge")
  /\ reviews' = [reviews EXCEPT ![mem[p].id] = mem[p].review]
  /\ Goto(p, "prepare")
  /\ UNCHANGED <<drafts, prepared, approvals, attempts, receipts, audited, mem, orders>>

(* A salt nobody has: 53 random bits never repeat one.                     *)
Unused(s) ==
  /\ orders[s] = None
  /\ \A d \in Drafts : /\ approvals[d] # s
                       /\ prepared[d] # None => prepared[d].salt # s
                       /\ drafts[d] # None => drafts[d].salt # s
  /\ \A p \in Procs : mem[p].order # None => mem[p].order.salt # s

(* load_prepared_signing, or build_order and store_prepared_signing.       *)
Prepare(p) ==
  /\ Inside(p, "prepare")
  /\ LET id == mem[p].id IN
     \/ /\ prepared[id] # None
        /\ Remember(p, [mem[p] EXCEPT !.order = prepared[id]])
        /\ UNCHANGED prepared
     \/ /\ prepared[id] = None
        /\ \E s \in Salts :
             LET order == [salt |-> s, quote |-> mem[p].draft.quote,
                           review |-> mem[p].review]
             IN /\ Unused(s)
                /\ prepared' = [prepared EXCEPT ![id] = order]
                /\ Remember(p, [mem[p] EXCEPT !.order = order])
  /\ Goto(p, "bind")
  /\ UNCHANGED <<drafts, reviews, approvals, attempts, receipts, audited, orders>>

(* A slip: the hash is carried and never compared.                         *)
BoundAnyhow(order, review) == TRUE

(* The prepared order must carry the hash of the review just written.      *)
Bound(order, review) == order.review = review

Bind(p) ==
  /\ Inside(p, "bind")
  /\ \/ /\ Bound(mem[p].order, mem[p].review)
        /\ LET draft == [mem[p].draft EXCEPT !.status = "signing_prepared",
                                             !.salt = mem[p].order.salt]
           IN /\ drafts' = [drafts EXCEPT ![mem[p].id] = draft]
              /\ Remember(p, [mem[p] EXCEPT !.draft = draft])
        /\ Goto(p, "prepared_attempt")
        /\ UNCHANGED <<reviews, prepared, approvals, attempts, receipts, audited, orders>>
     \/ ~Bound(mem[p].order, mem[p].review) /\ Stop(p)

PreparedAttempt(p) ==
  /\ Inside(p, "prepared_attempt")
  /\ attempts' = [attempts EXCEPT ![mem[p].id] = "signing_prepared"]
  /\ Goto(p, "sign")
  /\ UNCHANGED <<drafts, reviews, prepared, approvals, receipts, audited, mem, orders>>

(* sign_prepared.  An approval artifact of another order is retired.  The  *)
(* host signs (clearing the artifact is best effort), asks the owner to    *)
(* approve, or refuses (a hint it rejects is retired, an expired one left).*)
Sign(p) ==
  /\ Inside(p, "sign")
  /\ LET id == mem[p].id
         salt == mem[p].order.salt
         kept == IF approvals[id] = salt THEN salt ELSE None
     IN \/ /\ approvals' = [approvals EXCEPT ![id] = salt]
           /\ Goto(p, "return")
        \/ /\ \E a \in {kept, None} : approvals' = [approvals EXCEPT ![id] = a]
           /\ Goto(p, "signed_attempt") \/ Goto(p, "return")
  /\ UNCHANGED <<drafts, reviews, prepared, attempts, receipts, audited, mem, orders>>

SignedAttempt(p) ==
  /\ Inside(p, "signed_attempt")
  /\ attempts' = [attempts EXCEPT ![mem[p].id] = "signed"]
  /\ Goto(p, "signed_draft")
  /\ UNCHANGED <<drafts, reviews, prepared, approvals, receipts, audited, mem, orders>>

SignedDraft(p) ==
  /\ Inside(p, "signed_draft")
  /\ LET draft == [mem[p].draft EXCEPT !.status = "signed"]
     IN /\ drafts' = [drafts EXCEPT ![mem[p].id] = draft]
        /\ Remember(p, [mem[p] EXCEPT !.draft = draft])
  /\ Goto(p, "send")
  /\ UNCHANGED <<reviews, prepared, approvals, attempts, receipts, audited, orders>>

(* What the venue may do with an order of this kind, and what the post     *)
(* then hears: FAK and FOK never rest; "lost" is no usable answer; "live"  *)
(* stands for every accepted status but "matched" and "unmatched".         *)
(* HeardAsRefusal is a slip: no usable answer counts as a rejection.       *)
Fates(kind) ==
  IF kind.rests THEN {"live", "matched"} ELSE {"matched", "killed"}
HeardAsRefusal(state) ==
  CASE state = "live" -> {"live", "unmatched", "rejected"}
    [] state = "matched" -> {"matched", "rejected"}
    [] state \in {"killed", "refused", "flying"} -> {"rejected"}

Heard(state) ==
  CASE state = "live" -> {"live", "unmatched", "lost"}
    [] state = "matched" -> {"matched", "lost"}
    [] state = "killed" -> {"unmatched", "rejected", "lost"}
    [] state = "refused" -> {"rejected", "lost"}
    [] state = "flying" -> {"lost"}

(* POST /order, and the branch its answer takes: after an answer the audit *)
(* line comes first; after none, the open orders are asked.  An order the  *)
(* venue already has is refused.                                           *)
Send(p) ==
  /\ Inside(p, "send")
  /\ LET call == mem[p]
         s == call.order.salt
     IN \E state \in Fates(call.draft.kind) \cup {"refused", "flying"} :
        \E heard \in Heard(state) :
          /\ IF orders[s] = None
             THEN orders' = [orders EXCEPT ![s] =
                    [draft |-> call.id, kind |-> call.draft.kind,
                     quote |-> call.order.quote, review |-> call.review,
                     state |-> state]]
             ELSE state = "refused" /\ UNCHANGED orders
          /\ IF heard = "lost"
             THEN Goto(p, "reconcile") /\ UNCHANGED mem
             ELSE /\ Goto(p, "audit")
                  /\ Remember(p, [call EXCEPT !.answer = heard])
  /\ UNCHANGED store

(* reconcile_ambiguous_post: the order is found open, or it is not (it is  *)
(* not open, or the read fails).                                           *)
Reconcile(p) ==
  /\ Inside(p, "reconcile")
  /\ \/ /\ orders[mem[p].order.salt] # None
        /\ orders[mem[p].order.salt].state = "live"
        /\ Remember(p, [mem[p] EXCEPT !.answer = "open"])
        /\ Goto(p, "reconcile_attempt")
     \/ /\ Remember(p, [mem[p] EXCEPT !.answer = "ambiguous"])
        /\ Goto(p, "answer_draft")
  /\ UNCHANGED <<store, orders>>

(* The order of the writes that record an answer:                          *)
(*   accepted   audit receipt -prepared -approval draft attempt            *)
(*   rejected   audit receipt draft -prepared -approval attempt            *)
(*   open       attempt audit receipt draft                                *)
(*   ambiguous  draft audit receipt                                        *)
After(step, answer) ==
  CASE step = "reconcile_attempt" -> "audit"
    [] step = "audit" -> "receipt"
    [] step = "receipt" -> (CASE answer \in Accepted -> "drop_prepared"
                              [] answer = "ambiguous" -> "return"
                              [] OTHER -> "answer_draft")
    [] step = "drop_prepared" -> "drop_approval"
    [] step = "drop_approval" ->
         (IF answer = "rejected" THEN "answer_attempt" ELSE "answer_draft")
    [] step = "answer_draft" -> (CASE answer \in Accepted -> "answer_attempt"
                                   [] answer = "rejected" -> "drop_prepared"
                                   [] answer = "ambiguous" -> "audit"
                                   [] OTHER -> "return")
    [] OTHER -> "return"

Answering(p, step) ==
  /\ Inside(p, step)
  /\ Goto(p, After(step, mem[p].answer))
  /\ UNCHANGED <<mem, orders>>

(* post_attempt.json of a reconciled post: written first, must succeed.    *)
ReconcileAttempt(p) ==
  /\ Answering(p, "reconcile_attempt")
  /\ attempts' = [attempts EXCEPT ![mem[p].id] = "reconciled_open_order"]
  /\ UNCHANGED <<drafts, reviews, prepared, approvals, receipts, audited>>

(* store_trade_receipt: the audit line, then the receipt.                  *)
Audit(p) ==
  /\ Answering(p, "audit")
  /\ audited' = audited \cup {mem[p].id}
  /\ UNCHANGED <<drafts, reviews, prepared, approvals, attempts, receipts>>

(* A slip: the reconciled order's answer is stored under its own name.     *)
RawStatus(answer) == answer

ReceiptStatus(answer) == IF answer = "open" THEN "live" ELSE answer

WriteReceipt(p) ==
  /\ Answering(p, "receipt")
  /\ LET call == mem[p] IN
       receipts' = [receipts EXCEPT ![call.id] =
                      [kind |-> call.draft.kind, salt |-> call.order.salt,
                       quote |-> call.draft.quote,
                       status |-> ReceiptStatus(call.answer)]]
  /\ UNCHANGED <<drafts, reviews, prepared, approvals, attempts, audited>>

DropPrepared(p) ==
  /\ Answering(p, "drop_prepared")
  /\ prepared' = [prepared EXCEPT ![mem[p].id] = None]
  /\ UNCHANGED <<drafts, reviews, approvals, attempts, receipts, audited>>

DropApproval(p) ==
  /\ Answering(p, "drop_approval")
  /\ approvals' = [approvals EXCEPT ![mem[p].id] = None]
  /\ UNCHANGED <<drafts, reviews, prepared, attempts, receipts, audited>>

(* A slip: after an ambiguous post the draft may be posted again.          *)
OutcomeRetry(call) ==
  IF call.answer = "ambiguous" THEN "revalidated" ELSE "posted"

(* The draft's outcome.                                                    *)
Outcome(call) ==
  IF call.answer = "ambiguous" THEN "ambiguous"
  ELSE IF Excluded(ReceiptStatus(call.answer), call.draft.kind) THEN "rejected"
  ELSE "posted"

AnswerDraft(p) ==
  /\ Answering(p, "answer_draft")
  /\ drafts' = [drafts EXCEPT ![mem[p].id] =
                  [mem[p].draft EXCEPT !.status = Outcome(mem[p])]]
  /\ UNCHANGED <<reviews, prepared, approvals, attempts, receipts, audited>>

AnswerAttempt(p) ==
  /\ Answering(p, "answer_attempt")
  /\ attempts' = [attempts EXCEPT ![mem[p].id] = Outcome(mem[p])]
  /\ UNCHANGED <<drafts, reviews, prepared, approvals, receipts, audited>>

-----------------------------------------------------------------------------
(* Cancelling.                                                             *)

(* A receipt that is already cancelled only has its draft marked; one      *)
(* without an order id (rejected, ambiguous) cannot be cancelled.          *)
ReceiptStatusOf(d) == IF receipts[d] = None THEN "absent" ELSE receipts[d].status

LoadReceipt(p) ==
  /\ Inside(p, "cancel")
  /\ LET id == mem[p].id IN
     \/ /\ ReceiptStatusOf(id) = "cancelled"
        /\ Goto(p, "cancel_draft")
        /\ UNCHANGED <<store, orders, mem>>
     \/ /\ ReceiptStatusOf(id) \in Accepted
        /\ Remember(p, [mem[p] EXCEPT !.receipt = receipts[id]])
        /\ Goto(p, "cancel_delete")
        /\ UNCHANGED <<store, orders>>
     \/ ReceiptStatusOf(id) \in {"absent", "rejected", "ambiguous"} /\ Stop(p)

(* DELETE /order: a resting order is cancelled and the answer confirms it, *)
(* or is lost; any other order is not confirmed.                           *)
CancelDelete(p) ==
  /\ Inside(p, "cancel_delete")
  /\ LET s == mem[p].receipt.salt IN
     \/ /\ orders[s] # None
        /\ orders[s].state = "live"
        /\ orders' = [orders EXCEPT ![s].state = "cancelled"]
        /\ Goto(p, "cancel_receipt") \/ Goto(p, "return")
        /\ UNCHANGED <<store, mem>>
     \/ Stop(p)

(* The cancel's audit line is no receipt_written line; then the receipt.   *)
CancelReceipt(p) ==
  /\ Inside(p, "cancel_receipt")
  /\ receipts' = [receipts EXCEPT ![mem[p].id] =
                    [mem[p].receipt EXCEPT !.status = "cancelled"]]
  /\ Goto(p, "cancel_draft")
  /\ UNCHANGED <<drafts, reviews, prepared, approvals, attempts, audited, mem, orders>>

(* mark_trade_draft_cancelled                                              *)
CancelDraft(p) ==
  /\ Inside(p, "cancel_draft")
  /\ drafts' = IF drafts[mem[p].id] = None THEN drafts
               ELSE [drafts EXCEPT ![mem[p].id].status = "cancelled"]
  /\ Goto(p, "return")
  /\ UNCHANGED <<reviews, prepared, approvals, attempts, receipts, audited, mem, orders>>

(* cancel_discovered_order: any open order of the account, by its own id.  *)
(* Only the audit log hears of it.                                         *)
CancelOpen(p) ==
  /\ Inside(p, "discover")
  /\ \/ \E s \in Salts :
          /\ orders[s] # None
          /\ orders[s].state = "live"
          /\ orders' = [orders EXCEPT ![s].state = "cancelled"]
     \/ UNCHANGED orders
  /\ Goto(p, "return")
  /\ UNCHANGED <<store, mem>>

-----------------------------------------------------------------------------
(* Creating a draft: no lock.                                              *)

(* next_id: one more than the largest id listed; a list that fails reads   *)
(* as an empty one.                                                        *)
Existing == {d \in Drafts : drafts[d] # None}
NextIds ==
  {n \in Drafts : /\ \A d \in Existing : d < n
                  /\ n = 1 \/ n - 1 \in Existing}
  \cup (IF ListFails THEN {1} \cap Drafts ELSE {})

Create(p) ==
  /\ pc[p] = "idle"
  /\ p \in Creators
  /\ calls < MaxCalls
  /\ calls' = calls + 1
  /\ \E kind \in Kinds, q \in Quotes, id \in NextIds :
       Remember(p, [Fresh(id, "no") EXCEPT
                      !.draft = [kind |-> kind, quote |-> q,
                                 status |-> "review", salt |-> None],
                      !.review = [quote |-> q, warn |-> FALSE,
                                  staged |-> FALSE, ack |-> "unset"]])
  /\ Goto(p, "create_draft")
  /\ UNCHANGED <<lockVars, store, cfg, orders, faults>>

CreateDraft(p) ==
  /\ Inside(p, "create_draft")
  /\ drafts' = [drafts EXCEPT ![mem[p].id] = mem[p].draft]
  /\ Goto(p, "create_review")
  /\ UNCHANGED <<reviews, prepared, approvals, attempts, receipts, audited, mem, orders>>

CreateReview(p) ==
  /\ Inside(p, "create_review")
  /\ reviews' = [reviews EXCEPT ![mem[p].id] = mem[p].review]
  /\ Goto(p, "idle")
  /\ Remember(p, NoCall)
  /\ UNCHANGED <<drafts, prepared, approvals, attempts, receipts, audited, orders>>

-----------------------------------------------------------------------------
(* What else happens.                                                      *)

(* write_venue_config: no lock.                                            *)
WriteVenueConfig ==
  /\ calls < MaxCalls
  /\ calls' = calls + 1
  /\ \E new \in Configs \ {cfg} : cfg' = new
  /\ UNCHANGED <<lockVars, store, orders, pc, mem, faults>>

(* The lock left by a killed (or too slow) invocation is found stale.      *)
BreakStaleLock ==
  /\ Reap \/ Evict
  /\ UNCHANGED <<store, cfg, orders, pc, mem, bounds>>

(* The venue, on its own: an order still under way arrives; a resting one  *)
(* fills.                                                                  *)
VenueActs(s) ==
  /\ orders[s] # None
  /\ \/ /\ orders[s].state = "flying"
        /\ \E state \in Fates(orders[s].kind) :
             orders' = [orders EXCEPT ![s].state = state]
     \/ /\ orders[s].state = "live"
        /\ orders' = [orders EXCEPT ![s].state = "matched"]
  /\ UNCHANGED <<lockVars, store, cfg, pc, mem, bounds>>

(* A host call fails.  Clearing the artifacts and the attempt of an order  *)
(* that was answered is best effort; any other failure ends the call.      *)
BestEffort == {"drop_prepared", "drop_approval", "answer_attempt"}

HostCallFails(p) ==
  /\ pc[p] \notin {"idle", "return"}
  /\ faults < MaxFaults
  /\ faults' = faults + 1
  /\ \/ /\ pc[p] \in BestEffort
        /\ Goto(p, After(pc[p], mem[p].answer))
        /\ UNCHANGED mem
     \/ /\ pc[p] \in LockedSteps \ BestEffort
        /\ Goto(p, "return")
        /\ UNCHANGED mem
     \/ /\ pc[p] \in CreateSteps
        /\ Goto(p, "idle")
        /\ Remember(p, NoCall)
  /\ UNCHANGED <<lockVars, store, cfg, orders, calls>>

(* The invocation is killed between two of its steps.                      *)
Kill(p) ==
  /\ pc[p] # "idle"
  /\ faults < MaxFaults
  /\ faults' = faults + 1
  /\ \/ Die(p)
     \/ pc[p] \in CreateSteps /\ UNCHANGED lockVars
  /\ Goto(p, "idle")
  /\ Remember(p, NoCall)
  /\ UNCHANGED <<store, cfg, orders, calls>>

Revalidating(p) ==
  \/ Revalidate(p) \/ LoadForRevalidate(p)
  \/ ClearPrepared(p) \/ ClearApproval(p) \/ ClearAttempt(p)
  \/ ReviseLive(p) \/ LiveReadFails(p) \/ Preflight(p)
  \/ DropReview(p) \/ StageReview(p) \/ StoreDraft(p)

Posting(p) ==
  \/ Post(p) \/ LoadForPost(p)
  \/ CheckDenies(p) \/ CheckPasses(p) \/ CheckRefuses(p)
  \/ Acknowledge(p) \/ Prepare(p) \/ Bind(p) \/ PreparedAttempt(p)
  \/ Sign(p) \/ SignedAttempt(p) \/ SignedDraft(p) \/ Send(p)

Recording(p) ==
  \/ Reconcile(p) \/ ReconcileAttempt(p) \/ Audit(p) \/ WriteReceipt(p)
  \/ DropPrepared(p) \/ DropApproval(p) \/ AnswerDraft(p) \/ AnswerAttempt(p)

Cancelling(p) ==
  \/ Cancel(p) \/ LoadReceipt(p) \/ CancelDelete(p) \/ CancelReceipt(p)
  \/ CancelDraft(p) \/ CancelDiscovered(p) \/ CancelOpen(p)

Creating(p) == Create(p) \/ CreateDraft(p) \/ CreateReview(p)

Next ==
  \/ \E p \in Procs :
       \/ Revalidating(p) \/ Posting(p) \/ Recording(p)
       \/ Cancelling(p) \/ Creating(p)
       \/ Return(p) \/ HostCallFails(p) \/ Kill(p)
  \/ \E s \in Salts : VenueActs(s)
  \/ WriteVenueConfig
  \/ BreakStaleLock

Spec == Init /\ [][Next]_vars

-----------------------------------------------------------------------------
(* What the store says, against what the venue knows.                      *)

SentFor(d) == {s \in Salts : orders[s] # None /\ orders[s].draft = d}
Reached(s) == orders[s] # None /\ orders[s].state \notin {"refused", "killed"}

(* While plan.md says that signing and posting are still pending, that the *)
(* prepared order has not been posted, or that the policy stopped it       *)
(* (review, revalidated, signing_prepared, policy_denied), no order of the *)
(* draft has ever been sent: neither a crash nor a failed write, nor a     *)
(* later revalidate or post, brings a sent draft back to one of these.     *)
PlanTellsTruth ==
  \A d \in Drafts :
    StatusOf(d) \in OpenStatus \cup {"policy_denied"}
      => SentFor(d) = {}

(* However often a draft is posted again, after whatever failure, one      *)
(* order at most leaves for the venue: post_trade_draft signs the prepared *)
(* order it stored, or refuses.                                            *)
OneOrderPerDraft == \A d \in Drafts : Cardinality(SentFor(d)) <= 1

(* The order on the venue is the one in the final review its post checked  *)
(* and acknowledged: a prepared order left over from an earlier review is  *)
(* never sent (review_intent_hash), even if two slow holders of the wallet *)
(* prepare and revalidate against each other.                              *)
ReviewedAsSent ==
  \A s \in Salts :
    orders[s] # None =>
      /\ orders[s].review.staged
      /\ orders[s].quote = orders[s].review.quote
      /\ orders[s].review.warn => orders[s].review.ack = "yes"

(* A receipt speaks of the order that was sent for its draft: a rejected   *)
(* one left nothing on the venue, a cancelled one was cancelled there, and *)
(* what it counts is what was sent.                                        *)
ReceiptTruth ==
  \A d \in Drafts :
    receipts[d] # None =>
      LET sent == orders[receipts[d].salt] IN
      /\ sent # None
      /\ sent.draft = d
      /\ sent.kind = receipts[d].kind
      /\ sent.quote = receipts[d].quote
      /\ receipts[d].status = "rejected" => sent.state \in {"refused", "killed"}
      /\ receipts[d].status = "cancelled" => sent.state = "cancelled"

(* An order the venue has, or may yet get, leaves a trace a reader can     *)
(* find: a receipt that counts, or a draft that says signed or ambiguous.  *)
AcceptedIsAccounted ==
  \A s \in Salts :
    Reached(s) =>
      LET d == orders[s].draft IN
      \/ receipts[d] # None /\ ~Excluded(receipts[d].status, receipts[d].kind)
      \/ StatusOf(d) \in {"signed", "ambiguous"}

(* The spend on the venue the store has receipts for.                      *)
ReceiptedSpend ==
  LET spend(s) ==
        IF Reached(s) /\ orders[s].kind.side = "buy" /\ receipts[orders[s].draft] # None
        THEN orders[s].quote ELSE 0
  IN MapThenSumSet(spend, Salts)

(* A BUY leaves for the venue only if, at that moment, it still fits under *)
(* the daily cap it was checked against together with every order that has *)
(* a receipt, and no receipt the audit log knows of is missing: nothing    *)
(* moves between refresh_trade_post_inputs and POST /order.                *)
CapHoldsAtSend ==
  [][\A p \in Procs :
       pc[p] = "send" /\ pc'[p] # "send" /\ orders' # orders
       /\ mem[p].draft.kind.side = "buy" /\ mem[p].cap # None
         => ExposureKnown /\ ReceiptedSpend + mem[p].order.quote <= mem[p].cap]_vars

(* Every draft lives the life DraftLife describes: signed before it sends, *)
(* sending once, never open again afterwards.                              *)
Life(status) ==
  CASE status = "absent" -> "none"
    [] status \in OpenStatus -> "open"
    [] status = "policy_denied" -> "denied"
    [] status \in {"signed", "ambiguous"} -> "committed"
    [] status \in {"posted", "rejected", "cancelled"} -> "done"

Abstract ==
  INSTANCE DraftLife
    WITH life <- [d \in Drafts |-> Life(StatusOf(d))],
         sent <- [d \in Drafts |-> Cardinality(SentFor(d))]
ImplementsDraftLife == Abstract!LifeSpec

-----------------------------------------------------------------------------
(* What the repository says of the program, and the program does not do.   *)

(* "Keep the stored draft and approval available for a fresh retry": when  *)
(* a SELL's preflight cannot be read, revalidate leaves the order being    *)
(* approved as it was.                                                     *)
SellReadFailureKeepsApproval ==
  [][\A p \in Procs :
       pc[p] = "preflight" /\ pc'[p] = "return"
       /\ StatusOf(mem[p].id) = "signing_prepared"
         => prepared[mem[p].id] # None]_vars

(* "Revalidated drafts can then be posted": once no call runs, a post with *)
(* one acknowledgement or the other gets past the prepared order that a    *)
(* revalidated draft, its final review staged, still has.                  *)
RevalidatedPostable ==
  \A d \in Drafts :
    /\ inside = {}
    /\ StatusOf(d) = "revalidated"
    /\ reviews[d] # None /\ reviews[d].staged
    /\ prepared[d] # None
    =>
      \E ack \in {"no", "yes"} :
        prepared[d].review = [reviews[d] EXCEPT !.ack = ack]

(* "The order is signed, but no answer from the CLOB has been recorded":   *)
(* once no call runs, a signed draft has no receipt.  Not so when the last *)
(* writes of a post are lost.                                              *)
SignedMeansNoAnswer ==
  \A d \in Drafts : inside = {} /\ StatusOf(d) = "signed" => receipts[d] = None
=============================================================================
