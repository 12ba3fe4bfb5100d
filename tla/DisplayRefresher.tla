-------------------------- MODULE DisplayRefresher --------------------------
(***************************************************************************)
(* firmware/display_refresher.c and remote_display/remote_refresh_policy.c *)
(* under the display half of firmware/remote.c's loop, with the panel that *)
(* refreshes on its own while the loop runs on.                            *)
(*                                                                         *)
(* The session is only seen through remote_session_display: what it says   *)
(* each round is any of the constant Views.                                *)
(***************************************************************************)
EXTENDS DisplayLayout

CONSTANTS PartialsBeforeForcedFull,  \* 100 in the code
          Views                      \* what the session may say

SessionViews == [status : Statuses, page : Pages, payload : Payloads,
                 delivered : Counts, error : Errors,
                 link_connected : BOOLEAN, link_connecting : BOOLEAN,
                 link_incompatible : BOOLEAN,
                 events : 0..(CounterModulus - 1)]

(* remote_session_initialise: not connected, and no record. *)
InitialView ==
    [status |-> "READY", page |-> "NONE", payload |-> NoPayload,
     delivered |-> 0, error |-> "NONE", link_connected |-> FALSE,
     link_connecting |-> FALSE, link_incompatible |-> FALSE, events |-> 0]

ASSUME ForcedFullAssumption == PartialsBeforeForcedFull \in Nat \ {0}

ASSUME ViewsAssumption == Views \subseteq SessionViews

VARIABLES view,              \* what the session says
          show_diagnostics,
          usb_failed,        \* usb_failed_to_start
          refresher,         \* DisplayRefresher, its policy in it
          frame,             \* display_refresher_frame, by area
          passes,            \* partial passes since a full one (history)
          panel              \* what the controller's memory holds, what the
                             \* glass shows, whether a refresh runs, and
                             \* whether one was ever cut into

vars == <<view, show_diagnostics, usb_failed, refresher, frame, passes, panel>>

LinkDown == ~(view.link_connected \/ view.link_connecting \/ view.link_incompatible)

Idle == ~refresher.refresh_in_progress /\ refresher.pending_regions = {}

(* DisplayRefresher, with the policy it holds.  A code region is never     *)
(* waiting for a partial pass.                                             *)
Refreshers == [shown : DisplayStates, target : DisplayStates,
               partials_since_full : 0..(PartialsBeforeForcedFull - 1),
               pending_regions : SUBSET (Regions \ {"Code"}),
               refresh_in_progress : BOOLEAN,
               full_refreshes : 0..(CounterModulus - 1),
               partial_refreshes : 0..(CounterModulus - 1)]

(* Every field in its range: the policy's count stays below its bound.     *)
TypeOK ==
    /\ view \in Views \cup {InitialView}
    /\ show_diagnostics \in BOOLEAN /\ usb_failed \in BOOLEAN
    /\ refresher \in Refreshers
    /\ DOMAIN frame = Areas
    /\ passes \in Nat
    /\ panel.busy \in BOOLEAN /\ panel.interrupted \in BOOLEAN

(* Mutant: the counters stay live while the diagnostics show them. *)
ComposeLive(v, diagnose) ==
    [status |-> v.status, page |-> v.page, payload |-> v.payload,
     delivered |-> v.delivered, error |-> v.error,
     link_connected |-> v.link_connected,
     link_connecting |-> v.link_connecting,
     link_incompatible |-> v.link_incompatible,
     show_diagnostics |-> diagnose,
     diagnostics |-> [events |-> v.events,
                      full_refreshes |-> refresher.full_refreshes,
                      partial_refreshes |-> refresher.partial_refreshes]]

(* compose_target, and main's snapshot rule: the diagnostics are taken     *)
(* when the screen comes up and kept while it is.                          *)
Compose(v, diagnose) ==
    [status |-> v.status, page |-> v.page, payload |-> v.payload,
     delivered |-> v.delivered, error |-> v.error,
     link_connected |-> v.link_connected,
     link_connecting |-> v.link_connecting,
     link_incompatible |-> v.link_incompatible,
     show_diagnostics |-> diagnose,
     diagnostics |->
         IF diagnose /\ refresher.target.show_diagnostics
         THEN refresher.target.diagnostics
         ELSE [events |-> v.events,
               full_refreshes |-> refresher.full_refreshes,
               partial_refreshes |-> refresher.partial_refreshes]]

(* draw_usb_failure: the message runs across the code and the error.       *)
Overlay(state, picture) ==
    [area \in Areas |->
        IF usb_failed /\ ~state.link_connected /\ area \in {"Code", "Error"}
        THEN <<"usb failed", picture[area]>> ELSE picture[area]]

Drawn(state) == Overlay(state, Render(state))
-----------------------------------------------------------------------------
(* The panel: a refresh begins with what the controller's memory holds and *)
(* ends when it likes, with the glass showing it.                          *)

(* A transfer into the memory of a panel that still refreshes cuts into it.*)
Begin(areas, picture) ==
    panel' = [panel EXCEPT
        !.memory = [area \in Areas |-> IF area \in areas THEN picture[area]
                                       ELSE @[area]],
        !.busy = TRUE,
        !.interrupted = @ \/ panel.busy]

PanelFinishes ==
    /\ panel.busy
    /\ panel' = [panel EXCEPT !.busy = FALSE, !.glass = panel.memory]
    /\ UNCHANGED <<view, show_diagnostics, usb_failed, refresher, frame, passes>>
-----------------------------------------------------------------------------
(* main up to its loop: the first frame is drawn and waited for before the *)
(* USB stack is started; if that fails, the same frame is shown again.     *)
Init ==
    /\ view = InitialView
    /\ show_diagnostics = FALSE
    /\ usb_failed \in BOOLEAN
    /\ LET first == [status |-> "READY", page |-> "NONE", payload |-> NoPayload,
                     delivered |-> 0, error |-> "NONE",
                     link_connected |-> FALSE, link_connecting |-> FALSE,
                     link_incompatible |-> FALSE, show_diagnostics |-> FALSE,
                     diagnostics |-> [events |-> 0, full_refreshes |-> 0,
                                      partial_refreshes |-> 0]]
       IN  /\ refresher = [shown |-> first, target |-> first,
                           partials_since_full |-> 0, pending_regions |-> {},
                           refresh_in_progress |-> FALSE,
                           full_refreshes |-> 1 % CounterModulus,
                           partial_refreshes |-> 0]
           /\ frame = Render(first)
    /\ passes = 0
    /\ panel = [memory |-> frame, glass |-> frame,
                busy |-> FALSE, interrupted |-> FALSE]

(* Mutant: the panel is asked for nothing. *)
PanelIsFreeUnasked == TRUE

(* display_refresher_service goes on: nothing runs, or it has finished. *)
PanelIsFree == refresher.refresh_in_progress => ~panel.busy

(* Mutant: the count may reach the bound. *)
ForcedFullIsLate == refresher.partials_since_full >= PartialsBeforeForcedFull

ForcedFullIsDue == refresher.partials_since_full + 1 >= PartialsBeforeForcedFull

FirstRegion(regions) ==
    CHOOSE region \in regions :
        \A other \in regions : RegionRank[region] <= RegionRank[other]

(* begin_next_partial_region, of the regions still to send. *)
BeginPartial(state, regions, picture) ==
    LET region == FirstRegion(regions)
    IN  /\ Begin({region}, picture)
        /\ passes' = passes + 1
        /\ refresher' = [state EXCEPT
               !.pending_regions = regions \ {region},
               !.refresh_in_progress = TRUE,
               !.partial_refreshes = (@ + 1) % CounterModulus]

StillRefreshing(target) ==
    /\ ~PanelIsFree
    /\ refresher' = [refresher EXCEPT !.target = target]
    /\ UNCHANGED <<frame, passes, panel>>

SendNextRegion(target) ==
    /\ PanelIsFree
    /\ refresher.pending_regions # {}
    /\ BeginPartial([refresher EXCEPT !.target = target],
                    refresher.pending_regions, frame)
    /\ UNCHANGED frame

NothingToShow(target) ==
    /\ PanelIsFree
    /\ refresher.pending_regions = {}
    /\ ChangedRegions(refresher.shown, target) = {}
    /\ refresher' = [refresher EXCEPT !.target = target,
                                      !.refresh_in_progress = FALSE]
    /\ UNCHANGED <<frame, passes, panel>>

FullRefresh(target) ==
    LET changed == ChangedRegions(refresher.shown, target)
    IN  /\ PanelIsFree
        /\ refresher.pending_regions = {}
        /\ "Code" \in changed \/ (changed # {} /\ ForcedFullIsDue)
        /\ frame' = Drawn(target)
        /\ Begin(Areas, frame')
        /\ passes' = 0
        /\ refresher' = [refresher EXCEPT
               !.target = target, !.shown = target,
               !.partials_since_full = 0, !.refresh_in_progress = TRUE,
               !.full_refreshes = (@ + 1) % CounterModulus]

PartialRefresh(target) ==
    LET changed == ChangedRegions(refresher.shown, target)
    IN  /\ PanelIsFree
        /\ refresher.pending_regions = {}
        /\ changed # {} /\ "Code" \notin changed
        /\ ~ForcedFullIsDue
        /\ frame' = Drawn(target)
        /\ BeginPartial([refresher EXCEPT !.target = target, !.shown = target,
                                          !.partials_since_full = @ + 1],
                        changed, frame')

(* Key1 held long: the diagnostics come up only behind a closed port, and  *)
(* go whenever they are up.                                                *)
Toggled(long) ==
    IF long /\ (LinkDown \/ show_diagnostics) THEN ~show_diagnostics
    ELSE show_diagnostics

(* A round of the loop: the presses, the USB service that may change what  *)
(* the session says, and the display.  Without USB the session only counts *)
(* the presses it drops.                                                   *)
Round(long, says) ==
    /\ usb_failed => says = [InitialView EXCEPT !.events = says.events]
    /\ view' = says
    /\ show_diagnostics' = Toggled(long)
    /\ LET target == Compose(view', show_diagnostics')
       IN  \/ StillRefreshing(target)
           \/ SendNextRegion(target)
           \/ NothingToShow(target)
           \/ FullRefresh(target)
           \/ PartialRefresh(target)
    /\ UNCHANGED usb_failed

Next ==
    \/ \E long \in BOOLEAN, says \in Views : Round(long, says)
    \/ PanelFinishes

Spec == Init /\ [][Next]_vars

(* The loop never ends, and a refresh does. *)
FairSpec ==
    /\ Spec
    /\ WF_vars(\E long \in BOOLEAN, says \in Views : Round(long, says))
    /\ WF_vars(PanelFinishes)
-----------------------------------------------------------------------------
(***************************************************************************)
(* Properties.                                                             *)
(***************************************************************************)

(* Whatever changes while a refresh runs, no transfer to the panel begins  *)
(* before the one before it has ended ("never blocks", and never asks the  *)
(* panel for what it cannot do).                                           *)
PanelIsNeverInterrupted == ~panel.interrupted

(* When the refresher rests, the whole glass shows the picture of one      *)
(* state: the one it believes shown.  No region was left behind by a       *)
(* target that changed while the regions of another were being sent.  (The *)
(* overlay apart: it is missing from the first frame.)                     *)
GlassShowsOneState ==
    Idle => /\ panel.glass = frame
            /\ ~usb_failed => frame = Drawn(refresher.shown)

(* The residue: however a status, a count and an error change together,    *)
(* the partial passes between two full ones stay below the policy's count  *)
(* of decisions times the four regions one decision may send.              *)
ResidueIsBounded == passes <= 4 * (PartialsBeforeForcedFull - 1)

(* When the session and the keys come to rest, so does the panel, with     *)
(* what they ask for on the glass: a pending region is never starved, and  *)
(* the diagnostic screen does not refresh itself for ever over its own     *)
(* counters (main, "cannot make the screen differ from itself").           *)
GlassConverges ==
    /\ ~usb_failed
    /\ <>[][view' = view /\ show_diagnostics' = show_diagnostics]_vars
    => <>[](/\ Idle /\ ~panel.busy
            /\ panel.glass = Render(refresher.target)
            /\ refresher.target.show_diagnostics = show_diagnostics)

(* "Force a redraw so the message appears" (remote.c): if the USB stack    *)
(* refuses to start, the panel says so.                                    *)
UsbFailureAppears ==
    usb_failed ~> panel.glass["Code"][1] = "usb failed"
=============================================================================
