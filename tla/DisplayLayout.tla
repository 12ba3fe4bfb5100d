---------------------------- MODULE DisplayLayout ----------------------------
(***************************************************************************)
(* remote_display/remote_display_layout.c: what each part of the panel     *)
(* shows for a display state, and which regions differ between two states. *)
(*                                                                         *)
(* The picture is given by area: one area per region, and the strip of the *)
(* column no region claims.  What is drawn in an area is named by the      *)
(* values it is drawn from, cut to what the drawing tells apart; glyphs,   *)
(* the code's modules and coordinates are left out.                        *)
(***************************************************************************)
EXTENDS RemoteProtocol

CONSTANT CounterModulus  \* 2^32: the counters are uint32_t

ASSUME CounterAssumption == CounterModulus \in Nat \ {0}

(* The regions, in the order of RemoteLayoutRegion. *)
Regions == {"Header", "Code", "Page", "Hint", "Delivered", "Error"}

RegionRank == [region \in Regions |->
    CASE region = "Header" -> 0
      [] region = "Code" -> 1
      [] region = "Page" -> 2
      [] region = "Hint" -> 3
      [] region = "Delivered" -> 4
      [] region = "Error" -> 5]

Areas == Regions \cup {"Strip"}

(* The diagnostic counters: "events" stands for the session's six, which   *)
(* the display only copies.  The duration of the last refresh is left out: *)
(* it is news only beside the count of the refresh it timed.               *)
Diagnostics == [events : 0..(CounterModulus - 1),
                full_refreshes : 0..(CounterModulus - 1),
                partial_refreshes : 0..(CounterModulus - 1)]

DisplayStates == [status : Statuses, page : Pages, payload : Payloads,
                  delivered : Counts, error : Errors,
                  link_connected : BOOLEAN, link_connecting : BOOLEAN,
                  link_incompatible : BOOLEAN, show_diagnostics : BOOLEAN,
                  diagnostics : Diagnostics]

IsLinkScreen(state) == ~state.link_connected \/ state.show_diagnostics

PageShowsACode(page) == page \in {"WIFI", "GUEST"}

Blank == <<"blank">>

(* The hint depends on what the keys do, which two statuses share. *)
HintLines(status) ==
    CASE status = "READY" -> "NEW SESSION"
      [] status \in {"PRESENTING", "GUEST_CONNECTED"} -> "NEXT OR END"
      [] status = "TERMINATING" -> "PLEASE WAIT"
      [] status = "RECOVERY_REQUIRED" -> "DASHBOARD"

(* remote_display_layout_render, of a connected state's six regions. *)
RegionPicture(state, area) ==
    CASE area = "Header" -> <<"header", state.status>>
      [] area = "Code" -> IF PageShowsACode(state.page)
                          THEN <<"code", state.payload>> ELSE Blank
      [] area = "Page" -> IF PageShowsACode(state.page)
                          THEN <<"page", state.page>> ELSE Blank
      [] area = "Hint" -> <<"hint", HintLines(state.status)>>
      [] area = "Delivered" -> IF state.status = "READY" THEN Blank
                               ELSE <<"delivered", state.delivered>>
      [] area = "Error" -> IF state.error = "NONE" THEN Blank
                           ELSE <<"error", state.error>>
      [] OTHER -> Blank

(* Of a link screen, which replaces the whole panel. *)
LinkPicture(state) ==
    IF state.show_diagnostics THEN <<"diagnostics", state.diagnostics>>
    ELSE IF state.link_incompatible THEN <<"screen", "INCOMPATIBLE">>
    ELSE IF state.link_connecting THEN <<"screen", "CONNECTING">>
    ELSE <<"screen", "NOT CONNECTED">>

Render(state) ==
    [area \in Areas |-> IF IsLinkScreen(state) THEN LinkPicture(state)
                        ELSE RegionPicture(state, area)]

LinkScreensEqual(before, after) ==
    /\ before.show_diagnostics = after.show_diagnostics
    /\ before.link_connected = after.link_connected
    /\ before.link_connecting = after.link_connecting
    /\ before.link_incompatible = after.link_incompatible
    /\ after.show_diagnostics => before.diagnostics = after.diagnostics

(* Mutant: the count that READY hides is forgotten. *)
ChangedFieldsKeepingCount(before, after) ==
    UNION {IF before.status # after.status THEN {"Header", "Hint"} ELSE {},
           IF before.page # after.page THEN {"Code", "Page", "Hint"} ELSE {},
           IF before.payload # after.payload THEN {"Code"} ELSE {},
           IF before.delivered # after.delivered THEN {"Delivered"} ELSE {},
           IF before.error # after.error THEN {"Error"} ELSE {}}

(* The regions the fields of two connected states differ in. *)
ChangedFields(before, after) ==
    UNION {IF before.status # after.status THEN {"Header", "Hint"} ELSE {},
           IF /\ before.status # after.status
              /\ "READY" \in {before.status, after.status}
           THEN {"Delivered"} ELSE {},
           IF before.page # after.page THEN {"Code", "Page", "Hint"} ELSE {},
           IF before.payload # after.payload THEN {"Code"} ELSE {},
           IF before.delivered # after.delivered THEN {"Delivered"} ELSE {},
           IF before.error # after.error THEN {"Error"} ELSE {}}

ChangedRegions(before, after) ==
    IF ~IsLinkScreen(before) /\ ~IsLinkScreen(after)
      THEN ChangedFields(before, after)
    ELSE IF /\ IsLinkScreen(before) /\ IsLinkScreen(after)
            /\ LinkScreensEqual(before, after)
      THEN {}
    ELSE Regions
=============================================================================
