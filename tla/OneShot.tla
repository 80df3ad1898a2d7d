-------------------------------- MODULE OneShot --------------------------------
(***************************************************************************)
(* What a prepared operation that moves value promises: it leaves at most  *)
(* once, and whatever became of it stays so.  The relayer actions and the  *)
(* funding transactions are shown to implement it.                         *)
(***************************************************************************)
CONSTANT Items
VARIABLE fate

Init == fate = [i \in Items |-> "unsent"]

Send(i) ==
  /\ fate[i] = "unsent"
  /\ fate' = [fate EXCEPT ![i] = "sent"]

Settle(i) ==
  /\ fate[i] = "sent"
  /\ \E f \in {"done", "failed"} : fate' = [fate EXCEPT ![i] = f]

Next == \E i \in Items : Send(i) \/ Settle(i)

Spec == Init /\ [][Next]_fate
================================================================================
