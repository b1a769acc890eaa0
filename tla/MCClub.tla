------------------------------- MODULE MCClub -------------------------------
(* Community for TLC.  In the club users are interchangeable, and so are     *)
(* interests; in the library both users follow each other.                   *)
EXTENDS Community, TLC

CONSTANTS a, b, c, i, j
Symmetry == Permutations({a, b}) \cup Permutations({i, j})

MCAudience == [u |-> {"v"}, v |-> {"u"}]
=============================================================================
