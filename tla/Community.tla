------------------------------ MODULE Community ------------------------------
(* The social club and the media library.  They share no row but the user's, *)
(* so one of them runs at a time while the other waits where it starts:      *)
(* `turn` says which.                                                        *)
EXTENDS Social

CONSTANTS
  Readers, Nobody, Music, Films, Lists, Links, Steps, Audience,   \* Library
  FieldPoints, PostPoints, LikePoints, FieldCap, PostCap, LikeCap, Authors, MaxActs

VARIABLES turn, item, question, broadcast, notices, members, entries, likes,
          reactions, reports, ledger, day, acts

L == INSTANCE Library WITH Users <- Readers, prompt <- question

\* Users, files and lists are rows of three tables.
ASSUME LibraryAssumption ==
  /\ Readers \cap L!Items = {} /\ L!Files \cap Lists = {}
  /\ Steps \in Nat /\ FieldPoints \in Nat /\ PostPoints \in Nat /\ LikePoints \in Nat
  /\ FieldCap \in Nat /\ PostCap \in Nat /\ LikeCap \in Nat

library == <<item, question, broadcast, notices, members, entries, likes,
             reactions, reports, ledger, day, acts>>

CommunityInit == turn \in {"club", "library"} /\ Init /\ L!Init
CommunityNext ==
  /\ UNCHANGED turn
  /\ \/ turn = "club" /\ Next /\ UNCHANGED library
     \/ turn = "library" /\ L!Next /\ UNCHANGED vars
CommunitySpec == CommunityInit /\ [][CommunityNext]_<<turn, vars, library>>

-----------------------------------------------------------------------------
(* What Library states, under names of its own.                              *)

\* Files, playlists, votes, reports, notices and points agree (see Library).
LibraryInv == turn = "library" => L!Inv
\* What is published changes no more and, once removed, stays removed; a
\* decision to remove a file settles every report against it.
DecisionsStand == L!DecisionsStand
=============================================================================
