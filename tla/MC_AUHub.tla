------------------------------- MODULE MC_AUHub -------------------------------
(***************************************************************************)
(* Instances of the hub for TLC.  The real surrogate range starts at       *)
(* counter 55296; Surrogates moves it to the second and third subscription *)
(* so that the collision is within reach.                                  *)
(***************************************************************************)
EXTENDS AUHubChannels

NoCounters == {}
Surrogates == {2, 3}

===============================================================================
