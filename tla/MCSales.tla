------------------------------ MODULE MCSales ------------------------------
(* Small instances of Sales for TLC: a set of values for each run. *)
EXTENDS Sales, TLC

Sym == Permutations(Users) \cup Permutations(QuoteIds) \cup Permutations(TopupIds)

ActivePlan(price, capacity) ==
  [status |-> "active", price |-> price, capacity |-> capacity, is_trial |-> FALSE]

OnePlace == [p \in Plans |-> ActivePlan(2, 1)]
TwoPlaces == [p \in Plans |-> ActivePlan(2, 2)]
TwoSizes == [p \in Plans |-> ActivePlan(2, IF p = CHOOSE r \in Plans : TRUE THEN 1 ELSE 2)]
NoInviter == [u \in Users |-> None]
Inviter == [u \in Users |-> IF u = (CHOOSE v \in Users : TRUE) THEN None
                            ELSE CHOOSE v \in Users : TRUE]
Terms(percent, credit, uses, expires) ==
  [percent |-> percent, credit |-> credit, uses |-> uses, expires |-> expires]
HalfPrice == {Terms(50, 0, 1, 0)}
Mixed == {Terms(50, 0, 1, 0), Terms(0, 1, 2, 0)}
=============================================================================
