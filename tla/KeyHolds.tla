------------------------------ MODULE KeyHolds ------------------------------
(***************************************************************************)
(* What the input model promises of the presses it classifies, without     *)
(* levels, samples or clocks (remote_input_model.h): a hold is reported at *)
(* most once, as long while it lasts or as short when it ends; a hold that *)
(* overlapped another key's is spoiled for the rest of it, and so is the   *)
(* other's.                                                                *)
(***************************************************************************)
CONSTANTS Keys, Nothing  \* Nothing: no press has been classified

VARIABLES phase,   \* of each key: idle, or held and fresh, reported, spoiled
          report   \* the press just classified, <<key, kind>>, or Nothing

vars == <<phase, report>>

Held == {key \in Keys : phase[key] # "idle"}

Init ==
    /\ phase = [key \in Keys |-> "idle"]
    /\ report = Nothing

Down(key) ==
    /\ phase[key] = "idle"
    /\ phase' = IF Held = {} THEN [phase EXCEPT ![key] = "fresh"]
                ELSE [k \in Keys |-> IF k \in Held \cup {key}
                                     THEN "spoiled" ELSE "idle"]
    /\ report' = Nothing

HeldLong(key) ==
    /\ phase[key] = "fresh"
    /\ phase' = [phase EXCEPT ![key] = "reported"]
    /\ report' = <<key, "Long">>

Up(key) ==
    /\ phase[key] # "idle"
    /\ phase' = [phase EXCEPT ![key] = "idle"]
    /\ report' = IF phase[key] = "fresh" THEN <<key, "Short">> ELSE Nothing

Rest ==
    /\ report' = Nothing
    /\ UNCHANGED phase

Next == (\E key \in Keys : Down(key) \/ HeldLong(key) \/ Up(key)) \/ Rest

Spec == Init /\ [][Next]_vars
=============================================================================
