------------------------------ MODULE MCTimers ------------------------------
(* Services for TLC: two qualities of an episode and another episode of the  *)
(* same series; two articles, the older of which may offer a file, and a     *)
(* daily run that reads one of them; two articles of music for two threads;  *)
(* one client at a time whose id comes again, and one connection, which may  *)
(* use the quota up.                                                         *)
EXTENDS Services, TLC

MCVariants == 1 .. 3
MCEpisodeOf == <<11, 11, 12>>
MCTitleOf == 11 :> 1 @@ 12 :> 1
MCPageOf == <<1>>
=============================================================================
