------------------------------- MODULE MCNeMemory -------------------------------
(* Instances of NeMemory for TLC.                                              *)
EXTENDS NeMemory, TLC

(* A page of two units, two single pages of which the first follows it in      *)
(* physical memory, a page that does not pass the checks, a hole, and one more *)
(* page of two units.                                                          *)
MCPage == {0, 2, 3, 4, 6}
MCSize == 0 :> 2 @@ 2 :> 1 @@ 3 :> 1 @@ 4 :> 1 @@ 6 :> 2
MCPhys == 0 :> 10 @@ 2 :> 12 @@ 3 :> 20 @@ 4 :> 21 @@ 6 :> 30
================================================================================
