-------------------------------- MODULE MCAi --------------------------------
(* The AI section for TLC: a plan of each kind; the second version of a plan *)
(* costs more and gives other credits.                                       *)
EXTENDS Ai

MCPlanKind == [p \in Plans |-> p]
MCPrice == <<1, 2>>
MCCredits == <<[text |-> 1, image |-> 0, video |-> 1],
               [text |-> 0, image |-> 1, video |-> 0]>>
MCCodePlan == [c \in Codes |-> "ready"]
=============================================================================
