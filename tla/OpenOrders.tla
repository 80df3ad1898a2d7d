------------------------------- MODULE OpenOrders -------------------------------
(***************************************************************************)
(* How a post whose answer was lost looks for its order among the open     *)
(* orders (reconcile_ambiguous_post of infra_parts/reconcile.rs).  Rows    *)
(* come in several shapes: a field may be missing, stand under any of its  *)
(* names or one level down under "order", twice, or in a form that cannot  *)
(* be read; and rows come bare or under "orders", "data" or "results".     *)
(*                                                                         *)
(* A row is what its fields say when they are compared with the draft: for *)
(* each field the set of answers its values give, {} when it is missing.   *)
(* TradeFlow takes from here that the row found is the one with the        *)
(* draft's salt.                                                           *)
(***************************************************************************)
EXTENDS Naturals, FiniteSets, Sequences

CONSTANTS None,
          MaxRows,    \* bound on the rows of an answer
          Compared,   \* the fields compared besides the salt (6 in the code)
          Garbled     \* which fields of a row may be unreadable

OpenOrdersConstants ==
  /\ MaxRows \in Nat /\ None \notin Nat
  /\ Compared \subseteq {"token", "funder", "side", "type", "maker", "taker"}
  /\ Garbled \subseteq SUBSET (Compared \cup {"salt"})

Fields == Compared \cup {"salt"}
Statuses == {"live", "cancelled"}   \* "rejected" is treated like "cancelled"

(* An order of the account: the draft's own, or another, whose salt is     *)
(* random and so not the draft's, and which differs in amounts too or in   *)
(* nothing else.                                                           *)
Orders == [own : {TRUE}, differs : {{}}]
            \cup [own : {FALSE}, differs : SUBSET (Compared \ {"funder", "token"})]

(* A row shows some of the fields; a foreign row has another salt.         *)
Says(order, shown, garbled) ==
  [f \in Fields |->
     IF f \in garbled THEN {"unreadable"}
     ELSE IF f \notin shown THEN {}
     ELSE IF f \in order.differs \/ (f = "salt" /\ ~order.own) THEN {"other"}
     ELSE {"own"}]

Rows == [order : Orders, shown : SUBSET Fields, garbled : Garbled,
         named : BOOLEAN, status : Statuses]

VARIABLES listed,   \* the rows of the answer, in the order they are visited
          asked,    \* whether the open orders were looked through
          found     \* the index of the row taken, or None

vars == <<listed, asked, found>>

TypeOK ==
  /\ listed \in Seq(Rows) /\ Len(listed) <= MaxRows
  /\ asked \in BOOLEAN
  /\ found \in {None} \cup 1..MaxRows

Init == listed = <<>> /\ asked = FALSE /\ found = None
--------------------------------------------------------------------------------
(* clob_order_field_strings and clob_order_field_u64s: a field is silent,  *)
(* agrees in all its values, or refutes the row.                           *)
Agrees(values) == values = {"own"}
Refutes(values) == values \cap {"other", "unreadable"} # {}

(* A slip: a row without a salt is not refused.                            *)
SaltedLoosely(row) == ~Refutes(row["salt"])

Salted(row) == Agrees(row["salt"])

(* At least two of the compared fields agree, and none contradicts.        *)
Enough(row) == Cardinality({f \in Compared : Agrees(row[f])}) >= 2
Refuted(row) == \E f \in Compared : Refutes(row[f])

(* open_order_matches_draft.                                               *)
Matches(r) ==
  LET row == Says(r.order, r.shown, r.garbled) IN
  /\ r.named
  /\ r.status # "cancelled"
  /\ Salted(row)
  /\ ~Refuted(row)
  /\ Enough(row)

(* find_matching_open_order: the first match; the containers are searched  *)
(* one after the other, which is the order of "listed".                    *)
Find(rows) ==
  LET matching == {k \in DOMAIN rows : Matches(rows[k])} IN
  IF matching = {} THEN None
  ELSE CHOOSE k \in matching : \A j \in matching : k <= j

(* The venue lists one more row.                                           *)
List(r) ==
  /\ ~asked
  /\ Len(listed) < MaxRows
  /\ listed' = Append(listed, r)
  /\ UNCHANGED <<asked, found>>

Reconcile ==
  /\ ~asked
  /\ asked' = TRUE
  /\ found' = Find(listed)
  /\ UNCHANGED listed

Next == (\E r \in Rows : List(r)) \/ Reconcile

Spec == Init /\ [][Next]_vars
--------------------------------------------------------------------------------
(* The row taken is never another order of the account, however its rows   *)
(* are cut short: two orders may agree in every field but the salt.        *)
TakesOwn == found # None => listed[found].order.own

Faithful(r) ==
  /\ r.named /\ r.status = "live" /\ r.garbled = {}
  /\ "salt" \in r.shown
  /\ Cardinality(r.shown \cap Compared) >= 2

(* An order that is open is found when some row shows it well enough,      *)
(* whatever other rows, cancelled or cut short or garbled, stand before    *)
(* it: the post then ends as posted and not as ambiguous.                  *)
FindsOwn ==
  /\ asked
  /\ \E k \in DOMAIN listed : listed[k].order.own /\ Faithful(listed[k])
  => found # None
================================================================================
