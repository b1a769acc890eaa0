---------------------------- MODULE SaleContract ----------------------------
(***************************************************************************)
(* What the shop promises about one order, without saying how: an order is *)
(* settled from exactly one source and at most once, nothing is delivered  *)
(* that is not settled, and an order that is void or delivered stays so.   *)
(* Sales implements this (Sales!Contract).                                 *)
(***************************************************************************)
CONSTANTS Orders, Sources
VARIABLES phase,   \* the life of each order
          source   \* the sources that have paid for it
contract == <<phase, source>>

Init ==
  /\ phase = [o \in Orders |-> "none"]
  /\ source = [o \in Orders |-> {}]

\* A card order: placed now, paid for later.
Hold(o) ==
  /\ phase[o] = "none" /\ phase' = [phase EXCEPT ![o] = "held"]
  /\ UNCHANGED source

\* Orders paid for as they are placed; a bulk purchase places several.
PlaceSettled(S, s) ==
  /\ \A o \in S : phase[o] = "none"
  /\ phase' = [o \in Orders |-> IF o \in S THEN "settled" ELSE phase[o]]
  /\ source' = [o \in Orders |-> IF o \in S THEN {s} ELSE source[o]]

Settle(o, s) ==
  /\ phase[o] = "held"
  /\ phase' = [phase EXCEPT ![o] = "settled"]
  /\ source' = [source EXCEPT ![o] = {s}]

Void(o) ==
  /\ phase[o] = "held" /\ phase' = [phase EXCEPT ![o] = "void"]
  /\ UNCHANGED source

Deliver(o) ==
  /\ phase[o] = "settled" /\ phase' = [phase EXCEPT ![o] = "delivered"]
  /\ UNCHANGED source

Next ==
  \/ \E o \in Orders : Hold(o) \/ Void(o) \/ Deliver(o)
  \/ \E o \in Orders, s \in Sources : Settle(o, s)
  \/ \E S \in (SUBSET Orders) \ {{}}, s \in Sources : PlaceSettled(S, s)

Spec == Init /\ [][Next]_contract
=============================================================================
