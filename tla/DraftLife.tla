----------------------------- MODULE DraftLife -----------------------------
(***************************************************************************)
(* What a trade draft promises its owner, without locks, files or calls.   *)
(* A draft is open until its order is committed to (signed and recorded as *)
(* signed) or the policy denies it; only a committed draft sends an order, *)
(* and it sends one; a draft is done only when its order was sent.         *)
(* Nothing is ever taken back: a committed draft is never open again.      *)
(***************************************************************************)
EXTENDS Naturals

CONSTANT Drafts

VARIABLES life,   \* where each draft is
          sent    \* how many orders have left for it

Lives == {"none", "open", "denied", "committed", "done"}

LifeTypeOK == life \in [Drafts -> Lives] /\ sent \in [Drafts -> Nat]

LifeInit ==
  /\ life = [d \in Drafts |-> "none"]
  /\ sent = [d \in Drafts |-> 0]

Becomes(d, from, to) ==
  /\ life[d] = from
  /\ life' = [life EXCEPT ![d] = to]
  /\ UNCHANGED sent

Open(d) == Becomes(d, "none", "open")
Deny(d) == Becomes(d, "open", "denied")
Commit(d) == Becomes(d, "open", "committed")

Dispatch(d) ==
  /\ life[d] = "committed"
  /\ sent[d] = 0
  /\ sent' = [sent EXCEPT ![d] = 1]
  /\ UNCHANGED life

Settle(d) == sent[d] = 1 /\ Becomes(d, "committed", "done")

LifeNext ==
  \E d \in Drafts : Open(d) \/ Deny(d) \/ Commit(d) \/ Dispatch(d) \/ Settle(d)

lifeVars == <<life, sent>>

LifeSpec == LifeInit /\ [][LifeNext]_lifeVars

(* Nothing has been sent for a draft that is open or denied, and exactly   *)
(* one order for one that is done: what plan.md tells of each status.      *)
SentOnce ==
  \A d \in Drafts :
    /\ life[d] \in {"none", "open", "denied"} => sent[d] = 0
    /\ life[d] = "committed" => sent[d] \in {0, 1}
    /\ life[d] = "done" => sent[d] = 1
=============================================================================
