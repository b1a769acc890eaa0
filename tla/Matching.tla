------------------------------ MODULE Matching ------------------------------
(***************************************************************************)
(* What the social club promises about conversations, leaving out queues,  *)
(* invitations, prices and prompts: a conversation has two members, nobody *)
(* has two of them, and a member is brought into a new one only when he    *)
(* is free, or by his own request, which ends the one he had.              *)
(***************************************************************************)
EXTENDS FiniteSets

CONSTANT Users

VARIABLE together  \* the conversations under way, each the set of its members

Free(u, convs) == \A t \in convs : u \notin t

Init == together = {}

\* a has asked for a conversation; if he had one it is over.  b is free.
Meet ==
  \E a, b \in Users :
    LET rest == {t \in together : a \notin t}
    IN  /\ a # b /\ Free(b, together)
        /\ together' = rest \cup {{a, b}}

\* One conversation ends, of a member or by an administrator.
Part == \E t \in together : together' = together \ {t}

Next == Meet \/ Part

Spec == Init /\ [][Next]_together
=============================================================================
