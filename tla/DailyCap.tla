-------------------------------- MODULE DailyCap --------------------------------
(***************************************************************************)
(* The moving day of max_daily_usd.  TradeFlow checks the cap within one   *)
(* day; here time passes.  Orders are posted one after the other (a post   *)
(* holds the wallet's lock): the exposure of the last Day is read from the *)
(* receipts (daily_posted_microusd), the order is sent, its answer comes   *)
(* back later and is stamped posted_ms, an audit line with a stamp of its  *)
(* own is appended, and then the receipt is written.  A SELL is not        *)
(* capped.  audit.jsonl can be read only while it is within its limit, and *)
(* is never shortened; appending reads it first.                           *)
(***************************************************************************)
EXTENDS Integers, Sequences, FiniteSetsExt

CONSTANTS None,
          Day,           \* 24 h in ticks of the model's clock
          MaxClock,      \* bound on the clock
          MaxPosts,      \* bound on the orders sent
          Cap,           \* max_daily_usd
          Costs,         \* what a BUY may cost, its fee bound included
          Answers,       \* the CLOB statuses that may come back
          MaxAudit,      \* audit lines that fit MAX_STORE_BYTES
          MaxFaults,     \* bound on posts that stop before their end
          StopsUnheard   \* TRUE: a post may stop between its send and its audit line

DailyCapConstants ==
  /\ Day \in Nat \ {0} /\ {MaxClock, MaxPosts, Cap, MaxAudit, MaxFaults} \subseteq Nat
  /\ Costs \subseteq Nat \ {0}
  /\ Answers \subseteq {"matched", "live", "unmatched", "rejected", "ambiguous"}
  /\ StopsUnheard \in BOOLEAN
  /\ None \notin Nat

VARIABLES clock,
          audit,      \* audit.jsonl: event, order and stamp
          receipts,   \* receipts/{id}/receipt.json, or None
          sent,       \* the orders the venue was sent: when, and what they cost
          pc, post,   \* the post that runs: its step and what it knows
          faults

vars == <<clock, audit, receipts, sent, pc, post, faults>>

Ids == 1..MaxPosts
CanRest(kind) == kind = "GTC"

TypeOK ==
  /\ clock \in 0..MaxClock
  /\ audit \in Seq([event : {"receipt_written", "order_cancelled"}, id : Ids,
                    ts : 0..MaxClock])
  /\ Len(audit) <= MaxAudit + 1
  /\ \A i \in Ids : receipts[i] # None =>
       receipts[i] \in [posted : 0..MaxClock, cost : Costs \cup {0},
                        kind : {"GTC", "FOK"}, status : Answers \cup {"cancelled"}]
  /\ sent \in Seq([at : 0..MaxClock, cost : Costs \cup {0}, spends : BOOLEAN])
  /\ pc \in {"idle", "send", "answer", "audit", "receipt"}
  /\ faults \in 0..MaxFaults

Init ==
  /\ clock = 0
  /\ audit = <<>>
  /\ receipts = [i \in Ids |-> None]
  /\ sent = <<>>
  /\ pc = "idle" /\ post = None
  /\ faults = 0

Cutoff == IF clock < Day THEN 0 ELSE clock - Day

(* clob_status_excluded_from_daily_cap.                                    *)
Excluded(r) == r.status = "rejected" \/ (r.status = "unmatched" /\ ~CanRest(r.kind))

(* A slip: the day ends a tick early.                                      *)
ExposureEarly(r) == IF r.posted <= Cutoff + 1 \/ Excluded(r) THEN 0 ELSE r.cost

Exposure(r) == IF r.posted < Cutoff \/ Excluded(r) THEN 0 ELSE r.cost

(* store_get under MAX_STORE_BYTES.                                        *)
Readable == Len(audit) <= MaxAudit

(* audited_receipt_ids_since.                                              *)
Audited ==
  {audit[k].id : k \in {j \in DOMAIN audit :
                          audit[j].event = "receipt_written" /\ audit[j].ts >= Cutoff}}

Receipted == {i \in Ids : receipts[i] # None}

(* daily_posted_microusd: is the exposure known, and what is it.           *)
Known == Readable /\ Audited \subseteq Receipted
Posted == MapThenSumSet(LAMBDA i : Exposure(receipts[i]), Receipted)

(* evaluate_local_polymarket_order, max_daily_usd; a SELL (cost 0) is not  *)
(* capped.                                                                 *)
Fits(cost) == cost = 0 \/ (Known /\ Posted + cost <= Cap)

Check ==
  /\ pc = "idle"
  /\ Len(sent) < MaxPosts
  /\ \E cost \in Costs \cup {0}, kind \in {"GTC", "FOK"} :
       /\ Fits(cost)
       /\ post' = [id |-> Len(sent) + 1, cost |-> cost, kind |-> kind,
                   status |-> None, posted |-> None]
  /\ pc' = "send"
  /\ UNCHANGED <<clock, audit, receipts, sent, faults>>

(* POST /order leaves; the answer is still to come.                        *)
Send ==
  /\ pc = "send"
  /\ \E status \in Answers :
       /\ post.kind = "FOK" => status # "live"
       /\ post' = [post EXCEPT !.status = status]
       /\ sent' = Append(sent, [at |-> clock, cost |-> post.cost,
                                spends |-> ~Excluded([status |-> status, kind |-> post.kind])])
  /\ pc' = "answer"
  /\ UNCHANGED <<clock, audit, receipts, faults>>

(* The answer arrives, and posted_ms is taken now.                         *)
Answer ==
  /\ pc = "answer"
  /\ post' = [post EXCEPT !.posted = clock]
  /\ pc' = "audit"
  /\ UNCHANGED <<clock, audit, receipts, sent, faults>>

(* store_trade_receipt appends the audit line, or gives up: then the       *)
(* receipt is not written either.                                          *)
AppendAudit ==
  /\ pc = "audit"
  /\ \/ /\ Readable
        /\ audit' = Append(audit, [event |-> "receipt_written", id |-> post.id, ts |-> clock])
        /\ pc' = "receipt"
        /\ UNCHANGED post
     \/ /\ ~Readable
        /\ pc' = "idle" /\ post' = None
        /\ UNCHANGED audit
  /\ UNCHANGED <<clock, receipts, sent, faults>>

WriteReceipt ==
  /\ pc = "receipt"
  /\ receipts' = [receipts EXCEPT ![post.id] =
       [posted |-> post.posted, cost |-> post.cost, kind |-> post.kind,
        status |-> post.status]]
  /\ pc' = "idle" /\ post' = None
  /\ UNCHANGED <<clock, audit, sent, faults>>

(* cancel_trade_receipt of a resting order: a line, then the status.       *)
CancelReceipt(i) ==
  /\ pc = "idle" /\ Readable
  /\ receipts[i] # None /\ receipts[i].status = "live"
  /\ audit' = Append(audit, [event |-> "order_cancelled", id |-> i, ts |-> clock])
  /\ receipts' = [receipts EXCEPT ![i].status = "cancelled"]
  /\ UNCHANGED <<clock, sent, pc, post, faults>>

(* The invocation is killed or a write fails, and the post ends there.     *)
Stop ==
  /\ pc # "idle" /\ faults < MaxFaults
  /\ pc \in {"answer", "audit"} => StopsUnheard
  /\ faults' = faults + 1
  /\ pc' = "idle" /\ post' = None
  /\ UNCHANGED <<clock, audit, receipts, sent>>

Tick ==
  /\ clock < MaxClock
  /\ clock' = clock + 1
  /\ UNCHANGED <<audit, receipts, sent, pc, post, faults>>

Next ==
  \/ Check \/ Send \/ Answer \/ AppendAudit \/ WriteReceipt
  \/ \E i \in Ids : CancelReceipt(i)
  \/ Stop \/ Tick

Spec == Init /\ [][Next]_vars
--------------------------------------------------------------------------------
(* What was spent, or may yet be, in the day that ends when order k left.  *)
SpentInDayOf(k) ==
  MapThenSumSet(LAMBDA j : sent[j].cost,
                {j \in 1..k : sent[j].spends /\ sent[j].at >= sent[k].at - Day})

(* In no 24 hours that end with a send do the BUYs sent, with their fee    *)
(* bounds, exceed the cap: the day is measured back from the check and     *)
(* from stamps taken after each send, and neither lets a BUY slip out of   *)
(* the day too early.                                                      *)
RollingCap ==
  \A k \in DOMAIN sent :
    sent[k].spends /\ sent[k].cost > 0 => SpentInDayOf(k) <= Cap

(* Every order that was sent has its receipt once its post has ended, when *)
(* no post was stopped.  Not so once audit.jsonl has outgrown its limit.   *)
EverySendReceipted ==
  pc = "idle" /\ faults = 0 => \A k \in DOMAIN sent : receipts[k] # None
================================================================================
