--------------------------- MODULE MCRemoteInput ---------------------------
(* RemoteInput on a small instance: rounds of 1, 1.5 and 3.5 milliseconds  *)
(* of two ticks, against a debounce of 3 and a threshold of 4 (the cfgs),  *)
(* so a level settles over one round or several, which lose a tick or none *)
(* each, and a hold that saturates soon after the threshold.               *)
EXTENDS RemoteInput

MCRounds == {2, 3, 7}
=============================================================================
