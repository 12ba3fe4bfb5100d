------------------------------ MODULE MCPanel ------------------------------
(* The panel on a small instance: four bytes by eight rows, arranged as    *)
(* the real one is, its lower half's row numbers in two bytes.             *)
EXTENDS Panel, DisplayDrawing, MCDisplayRefresher

MCPanelViews ==
    {InitialView, [InitialView EXCEPT !.events = 1],
     MCReady, MCPresenting, MCGuest, MCEnding}

(* A code of version 2, whose quiet zone is the hardest to keep. *)
MCSideOf == [payload \in Payloads |-> IF payload = NoPayload THEN 0 ELSE 25]

MCBox == [region \in Regions |->
    CASE region = "Header" -> Rectangle(0, 0, 32, 2)
      [] region = "Code" -> Rectangle(0, 2, 16, 6)
      [] region = "Page" -> Rectangle(16, 2, 16, 1)
      [] region = "Hint" -> Rectangle(16, 3, 16, 2)
      [] region = "Delivered" -> Rectangle(16, 5, 16, 1)
      [] region = "Error" -> Rectangle(16, 7, 16, 1)]
=============================================================================
