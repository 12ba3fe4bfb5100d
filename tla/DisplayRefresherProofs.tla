----------------------- MODULE DisplayRefresherProofs -----------------------
(***************************************************************************)
(* Theorems about DisplayLayout, DisplayRefresher and DisplayDrawing, for  *)
(* every set of views, every bound of the policy, every width of the       *)
(* counters and every code the payloads may have.                          *)
(***************************************************************************)
EXTENDS DisplayDrawing, FiniteSetTheorems, TLAPS

-----------------------------------------------------------------------------
(* The layout. *)

(* What a change the code region escapes can be: two link screens that     *)
(* look the same, or connected records that differ outside the code.       *)
PartialRegions == {"Header", "Hint", "Delivered", "Error"}

(* A change that spares the code region needs no more than four regions.   *)
LEMMA PartialChange ==
  ASSUME NEW before, NEW after, "Code" \notin ChangedRegions(before, after)
  PROVE  ChangedRegions(before, after) \subseteq PartialRegions
BY DEF ChangedRegions, ChangedFields, Regions, PartialRegions

(* What changed_regions does not report looks the same, strip and all: a   *)
(* region that is not sent has nothing new to show.  (Where the code       *)
(* region is reported, the whole panel is sent.)                           *)
THEOREM UnchangedAreasLookTheSame ==
  ASSUME NEW before \in DisplayStates, NEW after \in DisplayStates,
         "Code" \notin ChangedRegions(before, after),
         NEW area \in Areas, area \notin ChangedRegions(before, after)
  PROVE  Render(before)[area] = Render(after)[area]
<1>1. CASE ~IsLinkScreen(before) /\ ~IsLinkScreen(after)
  <2>1. /\ "Code" \notin ChangedFields(before, after)
        /\ area \notin ChangedFields(before, after)
    BY <1>1 DEF ChangedRegions
  <2>2. before.page = after.page /\ before.payload = after.payload
    BY <2>1 DEF ChangedFields
  <2>3. RegionPicture(before, area) = RegionPicture(after, area)
    <3>1. CASE area \in {"Code", "Page", "Strip"}
      BY <2>2, <3>1 DEF RegionPicture
    <3>2. CASE area = "Header"
      <4>1. before.status = after.status
        BY <2>1, <3>2 DEF ChangedFields
      <4>2. QED
        BY <3>2, <4>1 DEF RegionPicture
    <3>3. CASE area = "Hint"
      <4>1. before.status = after.status
        BY <2>1, <3>3 DEF ChangedFields
      <4>2. QED
        BY <3>3, <4>1 DEF RegionPicture
    <3>4. CASE area = "Delivered"
      <4>1. /\ before.delivered = after.delivered
            /\ before.status = "READY" <=> after.status = "READY"
        BY <2>1, <3>4 DEF ChangedFields
      <4>2. QED
        BY <3>4, <4>1 DEF RegionPicture
    <3>5. CASE area = "Error"
      <4>1. before.error = after.error
        BY <2>1, <3>5 DEF ChangedFields
      <4>2. QED
        BY <3>5, <4>1 DEF RegionPicture
    <3>6. QED
      BY <3>1, <3>2, <3>3, <3>4, <3>5 DEF Areas, Regions
  <2>4. QED
    BY <1>1, <2>3 DEF Render
<1>2. CASE IsLinkScreen(before) \/ IsLinkScreen(after)
  <2>1. /\ IsLinkScreen(before) /\ IsLinkScreen(after)
        /\ LinkScreensEqual(before, after)
    BY <1>2 DEF ChangedRegions, Regions
  <2>2. LinkPicture(before) = LinkPicture(after)
    BY <2>1 DEF LinkScreensEqual, LinkPicture
  <2>3. QED
    BY <2>1, <2>2 DEF Render
<1>3. QED
  BY <1>1, <1>2
-----------------------------------------------------------------------------
(* The refresher. *)

(* The panel and the frame: what is in the controller's memory is what was *)
(* drawn, except where a region still waits; the glass has it as soon as   *)
(* the panel rests; and a panel that is busy is one the refresher knows to *)
(* be.  Without USB, nothing connected is ever drawn.                      *)
PanelFollowsFrame ==
    /\ panel = [memory |-> panel.memory, glass |-> panel.glass,
                busy |-> panel.busy, interrupted |-> panel.interrupted]
    /\ panel.busy => refresher.refresh_in_progress
    /\ ~panel.interrupted
    /\ ~panel.busy => panel.glass = panel.memory
    /\ panel.memory = [area \in Areas |-> panel.memory[area]]
    /\ frame = [area \in Areas |-> frame[area]]
    /\ \A area \in Areas \ refresher.pending_regions :
          panel.memory[area] = frame[area]
    /\ ~usb_failed => frame = Drawn(refresher.shown)
    /\ usb_failed => ~refresher.shown.link_connected

(* Passes made and passes still to make: four for each decision counted.   *)
PassesAreCounted ==
    /\ refresher.pending_regions \subseteq PartialRegions
    /\ passes + Cardinality(refresher.pending_regions)
          <= 4 * refresher.partials_since_full

IInv == TypeOK /\ PanelFollowsFrame /\ PassesAreCounted

(* What waits is a finite set of at most four.                             *)
LEMMA PartialRegionsFinite ==
  ASSUME NEW regions, regions \subseteq PartialRegions
  PROVE  /\ IsFiniteSet(regions)
         /\ Cardinality(regions) \in 0..4
<1>1. IsFiniteSet({"Header"}) /\ Cardinality({"Header"}) = 1
  BY FS_Singleton
<1>2. /\ IsFiniteSet({"Header", "Hint"})
      /\ Cardinality({"Header", "Hint"}) = 2
  BY <1>1, FS_AddElement, {"Header", "Hint"} = {"Header"} \cup {"Hint"}
<1>3. /\ IsFiniteSet({"Header", "Hint", "Delivered"})
      /\ Cardinality({"Header", "Hint", "Delivered"}) = 3
  BY <1>2, FS_AddElement,
     {"Header", "Hint", "Delivered"} = {"Header", "Hint"} \cup {"Delivered"}
<1>4. /\ IsFiniteSet(PartialRegions)
      /\ Cardinality(PartialRegions) = 4
  BY <1>3, FS_AddElement,
     PartialRegions = {"Header", "Hint", "Delivered"} \cup {"Error"}
  DEF PartialRegions
<1>5. QED
  BY <1>4, FS_Subset, FS_CardinalityType

(* Zero and one are counters' values, and zero is the policy's first count.*)
LEMMA CountersInRange ==
  /\ 0 \in 0..(CounterModulus - 1) /\ 1 % CounterModulus \in 0..(CounterModulus - 1)
  /\ 0 \in 0..(PartialsBeforeForcedFull - 1)
  /\ \A n \in 0..(CounterModulus - 1) :
       (n + 1) % CounterModulus \in 0..(CounterModulus - 1)
BY CounterAssumption, ForcedFullAssumption

(* The session's first words are in the vocabulary.                        *)
LEMMA InitialViewType == InitialView \in SessionViews
BY PayloadAssumption, CountAssumption, CountersInRange
DEF InitialView, SessionViews, Statuses, Pages, Errors

(* The target main composes is a display state, with the link as the       *)
(* session has it.                                                         *)
LEMMA ComposeType ==
  ASSUME TypeOK, NEW v \in SessionViews, NEW diagnose \in BOOLEAN
  PROVE  /\ Compose(v, diagnose) \in DisplayStates
         /\ Compose(v, diagnose).link_connected = v.link_connected
<1>1. refresher.target.diagnostics \in Diagnostics
  BY DEF TypeOK, Refreshers, DisplayStates
<1>2. [events |-> v.events, full_refreshes |-> refresher.full_refreshes,
       partial_refreshes |-> refresher.partial_refreshes] \in Diagnostics
  BY DEF TypeOK, Refreshers, Diagnostics, SessionViews
<1>3. QED
  BY <1>1, <1>2 DEF Compose, DisplayStates, SessionViews

(* The first frame is on the glass when the loop begins.                   *)
LEMMA InitIInv == Init => IInv
<1> SUFFICES ASSUME Init PROVE IInv
  OBVIOUS
<1> DEFINE diagnostics == [events |-> 0, full_refreshes |-> 0,
                           partial_refreshes |-> 0]
           first == [status |-> "READY", page |-> "NONE",
                     payload |-> NoPayload, delivered |-> 0, error |-> "NONE",
                     link_connected |-> FALSE, link_connecting |-> FALSE,
                     link_incompatible |-> FALSE, show_diagnostics |-> FALSE,
                     diagnostics |-> diagnostics]
<1>1. diagnostics \in Diagnostics
  BY CountersInRange DEF Diagnostics
<1>2. first \in DisplayStates
  BY <1>1, PayloadAssumption, CountAssumption
  DEF DisplayStates, Statuses, Pages, Errors
<1>3. /\ refresher = [shown |-> first, target |-> first,
                      partials_since_full |-> 0, pending_regions |-> {},
                      refresh_in_progress |-> FALSE,
                      full_refreshes |-> 1 % CounterModulus,
                      partial_refreshes |-> 0]
      /\ frame = Render(first)
      /\ panel = [memory |-> frame, glass |-> frame,
                  busy |-> FALSE, interrupted |-> FALSE]
      /\ passes = 0 /\ view = InitialView /\ ~show_diagnostics
      /\ show_diagnostics \in BOOLEAN /\ usb_failed \in BOOLEAN
  BY DEF Init
<1>4. ~first.link_connected
  OBVIOUS
<1> HIDE DEF first
<1>5. TypeOK
  BY <1>2, <1>3, CountersInRange DEF TypeOK, Refreshers, Render
<1>6. frame = [area \in Areas |-> frame[area]]
  BY <1>3 DEF Render
<1>7. ~usb_failed => frame = Drawn(first)
  BY <1>3, <1>6 DEF Drawn, Overlay, Render
<1>8. PanelFollowsFrame
  BY <1>3, <1>4, <1>6, <1>7 DEF PanelFollowsFrame
<1>9. PassesAreCounted
  BY <1>3, FS_EmptySet DEF PassesAreCounted
<1>10. QED
  BY <1>5, <1>8, <1>9 DEF IInv

(* The panel finishes: the glass catches up with the memory.               *)
LEMMA PanelFinishesIInv ==
  ASSUME IInv, PanelFinishes
  PROVE  IInv'
<1>1. /\ panel' = [panel EXCEPT !.busy = FALSE, !.glass = panel.memory]
      /\ UNCHANGED <<view, show_diagnostics, usb_failed, refresher, frame, passes>>
  BY DEF PanelFinishes
<1>2. panel = [memory |-> panel.memory, glass |-> panel.glass,
               busy |-> panel.busy, interrupted |-> panel.interrupted]
  BY DEF IInv, PanelFollowsFrame
<1>3. panel' = [memory |-> panel.memory, glass |-> panel.memory,
                busy |-> FALSE, interrupted |-> panel.interrupted]
  BY <1>1, <1>2
<1>4. Drawn(refresher.shown)' = Drawn(refresher.shown)
  BY <1>1 DEF Drawn, Overlay
<1>5. QED
  BY <1>1, <1>3, <1>4 DEF IInv, TypeOK, PanelFollowsFrame, PassesAreCounted

(* What begins a refresh, of the panel's record. *)
LEMMA BeginEffect ==
  ASSUME IInv, PanelIsFree, NEW areas, NEW picture, Begin(areas, picture)
  PROVE  /\ panel' = [memory |-> panel'.memory, glass |-> panel'.glass,
                      busy |-> TRUE, interrupted |-> FALSE]
         /\ panel'.memory = [area \in Areas |-> panel'.memory[area]]
         /\ \A area \in Areas :
              panel'.memory[area] = IF area \in areas THEN picture[area]
                                    ELSE panel.memory[area]
<1>1. ~panel.busy /\ ~panel.interrupted
  BY DEF PanelIsFree, IInv, PanelFollowsFrame
<1>2. panel = [memory |-> panel.memory, glass |-> panel.glass,
               busy |-> panel.busy, interrupted |-> panel.interrupted]
  BY DEF IInv, PanelFollowsFrame
<1>3. panel' = [memory |-> [area \in Areas |-> IF area \in areas
                              THEN picture[area] ELSE panel.memory[area]],
                glass |-> panel.glass, busy |-> TRUE, interrupted |-> FALSE]
  BY <1>1, <1>2 DEF Begin
<1>4. QED
  BY <1>3

(* The first region of a set is one of them.                               *)
LEMMA FirstRegionType ==
  ASSUME NEW regions, regions \subseteq PartialRegions, regions # {}
  PROVE  FirstRegion(regions) \in regions
<1>1. \E region \in regions :
        \A other \in regions : RegionRank[region] <= RegionRank[other]
  BY DEF PartialRegions, RegionRank, Regions
<1>2. QED
  BY <1>1 DEF FirstRegion

(* A partial pass begins: one region less to send, one pass more.          *)
LEMMA BeginPartialEffect ==
  ASSUME IInv, PanelIsFree, NEW state \in Refreshers, NEW regions, NEW picture,
         regions \subseteq PartialRegions, regions # {},
         BeginPartial(state, regions, picture)
  PROVE  /\ refresher' \in Refreshers
         /\ refresher'.shown = state.shown
         /\ refresher'.partials_since_full = state.partials_since_full
         /\ refresher'.refresh_in_progress
         /\ refresher'.pending_regions \subseteq PartialRegions
         /\ passes' \in Nat
         /\ passes' + Cardinality(refresher'.pending_regions)
              = passes + Cardinality(regions)
         /\ panel' = [memory |-> panel'.memory, glass |-> panel'.glass,
                      busy |-> TRUE, interrupted |-> FALSE]
         /\ panel'.memory = [area \in Areas |-> panel'.memory[area]]
         /\ \A area \in Areas \ refresher'.pending_regions :
              panel'.memory[area] = IF area \in regions THEN picture[area]
                                    ELSE panel.memory[area]
<1> DEFINE region == FirstRegion(regions)
<1>1. region \in regions
  BY FirstRegionType
<1>2. /\ Begin({region}, picture)
      /\ passes' = passes + 1
      /\ refresher' = [state EXCEPT
           !.pending_regions = regions \ {region},
           !.refresh_in_progress = TRUE,
           !.partial_refreshes = (@ + 1) % CounterModulus]
  BY DEF BeginPartial
<1> HIDE DEF region
<1>3. regions \ {region} \in SUBSET (Regions \ {"Code"})
  BY DEF PartialRegions, Regions
<1>4. /\ refresher' \in Refreshers
      /\ refresher'.shown = state.shown
      /\ refresher'.partials_since_full = state.partials_since_full
      /\ refresher'.refresh_in_progress
      /\ refresher'.pending_regions = regions \ {region}
  BY <1>2, <1>3, CountersInRange DEF Refreshers
<1>5. /\ IsFiniteSet(regions)
      /\ Cardinality(regions) \in Nat
      /\ Cardinality(regions \ {region}) = Cardinality(regions) - 1
  BY <1>1, PartialRegionsFinite, FS_RemoveElement
<1>6. passes \in Nat
  BY DEF IInv, TypeOK
<1>7. /\ panel' = [memory |-> panel'.memory, glass |-> panel'.glass,
                   busy |-> TRUE, interrupted |-> FALSE]
      /\ panel'.memory = [area \in Areas |-> panel'.memory[area]]
      /\ \A area \in Areas :
           panel'.memory[area] = IF area \in {region} THEN picture[area]
                                 ELSE panel.memory[area]
  BY <1>2, BeginEffect
<1>8. QED
  BY <1>1, <1>2, <1>4, <1>5, <1>6, <1>7

(* The five things a round may do about its target. *)
Step(target) ==
    \/ StillRefreshing(target)
    \/ SendNextRegion(target)
    \/ NothingToShow(target)
    \/ FullRefresh(target)
    \/ PartialRefresh(target)

(* The drawing, before and after a step that starts no new frame.          *)
LEMMA DrawnUnchanged ==
  ASSUME refresher'.shown = refresher.shown, UNCHANGED usb_failed
  PROVE  Drawn(refresher.shown)' = Drawn(refresher.shown)
BY DEF Drawn, Overlay

(* A round that waits, or has nothing to show, only moves the target.      *)
LEMMA RestIInv ==
  ASSUME IInv, NEW target \in DisplayStates, UNCHANGED usb_failed,
         StillRefreshing(target) \/ NothingToShow(target)
  PROVE  /\ refresher' \in Refreshers /\ passes' \in Nat
         /\ PanelFollowsFrame' /\ PassesAreCounted'
<1>1. /\ refresher \in Refreshers /\ passes \in Nat
      /\ UNCHANGED <<frame, passes, panel>>
  BY DEF IInv, TypeOK, StillRefreshing, NothingToShow
<1>2. /\ refresher' \in Refreshers
      /\ refresher'.shown = refresher.shown
      /\ refresher'.partials_since_full = refresher.partials_since_full
      /\ refresher'.pending_regions = refresher.pending_regions
      /\ panel.busy => refresher'.refresh_in_progress
  <2>1. CASE StillRefreshing(target)
    BY <1>1, <2>1 DEF StillRefreshing, Refreshers, IInv, PanelFollowsFrame
  <2>2. CASE NothingToShow(target)
    BY <1>1, <2>2
    DEF NothingToShow, PanelIsFree, Refreshers, IInv, PanelFollowsFrame
  <2>3. QED
    BY <2>1, <2>2
<1>3. Drawn(refresher.shown)' = Drawn(refresher.shown)
  BY <1>2, DrawnUnchanged
<1>4. QED
  BY <1>1, <1>2, <1>3 DEF IInv, PanelFollowsFrame, PassesAreCounted

(* The next region of a frame already drawn.                               *)
LEMMA SendNextIInv ==
  ASSUME IInv, NEW target \in DisplayStates, UNCHANGED usb_failed,
         SendNextRegion(target)
  PROVE  /\ refresher' \in Refreshers /\ passes' \in Nat
         /\ PanelFollowsFrame' /\ PassesAreCounted'
<1> DEFINE state == [refresher EXCEPT !.target = target]
           regions == refresher.pending_regions
<1>1. refresher \in Refreshers /\ regions \subseteq PartialRegions
  BY DEF IInv, TypeOK, PassesAreCounted
<1>2. /\ state \in Refreshers /\ state.shown = refresher.shown
      /\ state.partials_since_full = refresher.partials_since_full
  BY <1>1 DEF Refreshers
<1>3. /\ PanelIsFree /\ regions # {}
      /\ BeginPartial(state, regions, frame)
      /\ UNCHANGED frame
  BY DEF SendNextRegion
<1> HIDE DEF state
<1>4. /\ refresher' \in Refreshers
      /\ refresher'.shown = state.shown
      /\ refresher'.partials_since_full = state.partials_since_full
      /\ refresher'.refresh_in_progress
      /\ refresher'.pending_regions \subseteq PartialRegions
      /\ passes' \in Nat
      /\ passes' + Cardinality(refresher'.pending_regions)
           = passes + Cardinality(regions)
      /\ panel' = [memory |-> panel'.memory, glass |-> panel'.glass,
                   busy |-> TRUE, interrupted |-> FALSE]
      /\ panel'.memory = [area \in Areas |-> panel'.memory[area]]
      /\ \A area \in Areas \ refresher'.pending_regions :
           panel'.memory[area] = IF area \in regions THEN frame[area]
                                 ELSE panel.memory[area]
  BY <1>1, <1>2, <1>3, BeginPartialEffect
<1>5. \A area \in Areas \ regions : panel.memory[area] = frame[area]
  BY DEF IInv, PanelFollowsFrame
<1>6. Drawn(refresher.shown)' = Drawn(refresher.shown)
  BY <1>2, <1>4, DrawnUnchanged
<1>7. panel'.busy /\ ~panel'.interrupted
  BY <1>4
<1>8. PanelFollowsFrame'
  BY <1>2, <1>3, <1>4, <1>5, <1>6, <1>7 DEF IInv, PanelFollowsFrame
<1>9. PassesAreCounted'
  BY <1>2, <1>4 DEF IInv, PassesAreCounted
<1>10. QED
  BY <1>4, <1>8, <1>9

(* A whole new frame for the whole panel.                                  *)
LEMMA FullIInv ==
  ASSUME IInv, NEW target \in DisplayStates, UNCHANGED usb_failed,
         usb_failed => ~target.link_connected,
         FullRefresh(target)
  PROVE  /\ refresher' \in Refreshers /\ passes' \in Nat
         /\ PanelFollowsFrame' /\ PassesAreCounted'
<1>1. /\ PanelIsFree /\ refresher.pending_regions = {}
      /\ frame' = Drawn(target)
      /\ Begin(Areas, frame')
      /\ passes' = 0
      /\ refresher' = [refresher EXCEPT
           !.target = target, !.shown = target,
           !.partials_since_full = 0, !.refresh_in_progress = TRUE,
           !.full_refreshes = (@ + 1) % CounterModulus]
  BY DEF FullRefresh
<1>2. /\ refresher' \in Refreshers
      /\ refresher'.shown = target
      /\ refresher'.partials_since_full = 0
      /\ refresher'.pending_regions = {}
      /\ refresher'.refresh_in_progress
  BY <1>1, CountersInRange DEF IInv, TypeOK, Refreshers
<1>3. /\ panel' = [memory |-> panel'.memory, glass |-> panel'.glass,
                   busy |-> TRUE, interrupted |-> FALSE]
      /\ panel'.memory = [area \in Areas |-> panel'.memory[area]]
      /\ \A area \in Areas : panel'.memory[area] = frame'[area]
  BY <1>1, BeginEffect
<1>4. frame' = [area \in Areas |-> frame'[area]]
  BY <1>1 DEF Drawn, Overlay
<1>5. Drawn(refresher.shown)' = Drawn(target)
  BY <1>2 DEF Drawn, Overlay
<1>6. panel'.busy /\ ~panel'.interrupted
  BY <1>3
<1>7. PanelFollowsFrame'
  BY <1>1, <1>2, <1>3, <1>4, <1>5, <1>6 DEF PanelFollowsFrame
<1>8. PassesAreCounted'
  BY <1>1, <1>2, FS_EmptySet DEF PassesAreCounted
<1>9. QED
  BY <1>1, <1>2, <1>7, <1>8

(* A new frame of which only the regions that changed are sent: the others *)
(* already look as they should.  Without USB every change is to the whole  *)
(* panel.                                                                  *)
LEMMA PartialIInv ==
  ASSUME IInv, NEW target \in DisplayStates, UNCHANGED usb_failed,
         usb_failed => ~target.link_connected,
         PartialRefresh(target)
  PROVE  /\ refresher' \in Refreshers /\ passes' \in Nat
         /\ PanelFollowsFrame' /\ PassesAreCounted'
<1> DEFINE changed == ChangedRegions(refresher.shown, target)
           state == [refresher EXCEPT !.target = target, !.shown = target,
                                      !.partials_since_full = @ + 1]
<1>1. /\ PanelIsFree /\ refresher.pending_regions = {}
      /\ changed # {} /\ "Code" \notin changed /\ ~ForcedFullIsDue
      /\ frame' = Drawn(target)
      /\ BeginPartial(state, changed, frame')
  BY DEF PartialRefresh
<1>2. /\ refresher \in Refreshers /\ refresher.shown \in DisplayStates
      /\ refresher.partials_since_full \in Nat
  BY DEF IInv, TypeOK, Refreshers
<1>3. refresher.partials_since_full + 1 \in 0..(PartialsBeforeForcedFull - 1)
  BY <1>1, <1>2, ForcedFullAssumption DEF ForcedFullIsDue
<1>4. /\ state \in Refreshers /\ state.shown = target
      /\ state.partials_since_full = refresher.partials_since_full + 1
  BY <1>2, <1>3 DEF Refreshers
<1>5. changed \subseteq PartialRegions
  BY <1>1, PartialChange
<1>6. ~usb_failed
  <2>1. SUFFICES ASSUME usb_failed PROVE FALSE
    OBVIOUS
  <2>2. IsLinkScreen(refresher.shown) /\ IsLinkScreen(target)
    BY <2>1 DEF IInv, PanelFollowsFrame, IsLinkScreen
  <2>3. changed = {} \/ changed = Regions
    BY <2>2 DEF ChangedRegions
  <2>4. QED
    BY <1>1, <2>3 DEF Regions
<1>7. frame = Drawn(refresher.shown) /\ frame' = Drawn(target)
  BY <1>1, <1>6 DEF IInv, PanelFollowsFrame
<1>8. \A area \in Areas :
        /\ frame[area] = Render(refresher.shown)[area]
        /\ frame'[area] = Render(target)[area]
  BY <1>6, <1>7 DEF Drawn, Overlay
<1>9. \A area \in Areas \ changed : frame'[area] = panel.memory[area]
  <2> SUFFICES ASSUME NEW area \in Areas \ changed
               PROVE  frame'[area] = panel.memory[area]
    OBVIOUS
  <2>1. Render(refresher.shown)[area] = Render(target)[area]
    BY <1>1, <1>2, UnchangedAreasLookTheSame
  <2>2. panel.memory[area] = frame[area]
    BY <1>1 DEF IInv, PanelFollowsFrame
  <2>3. QED
    BY <1>8, <2>1, <2>2
<1> HIDE DEF changed, state
<1>10. /\ refresher' \in Refreshers
       /\ refresher'.shown = state.shown
       /\ refresher'.partials_since_full = state.partials_since_full
       /\ refresher'.refresh_in_progress
       /\ refresher'.pending_regions \subseteq PartialRegions
       /\ passes' \in Nat
       /\ passes' + Cardinality(refresher'.pending_regions)
            = passes + Cardinality(changed)
       /\ panel' = [memory |-> panel'.memory, glass |-> panel'.glass,
                    busy |-> TRUE, interrupted |-> FALSE]
       /\ panel'.memory = [area \in Areas |-> panel'.memory[area]]
       /\ \A area \in Areas \ refresher'.pending_regions :
            panel'.memory[area] = IF area \in changed THEN frame'[area]
                                  ELSE panel.memory[area]
  BY <1>1, <1>4, <1>5, BeginPartialEffect
<1>11. Drawn(refresher.shown)' = Drawn(target)
  BY <1>4, <1>10 DEF Drawn, Overlay
<1>12. frame' = [area \in Areas |-> frame'[area]]
  BY <1>7 DEF Drawn, Overlay
<1>13. panel'.busy /\ ~panel'.interrupted
  BY <1>10
<1>14. PanelFollowsFrame'
  BY <1>1, <1>6, <1>7, <1>9, <1>10, <1>11, <1>12, <1>13 DEF PanelFollowsFrame
<1>15. PassesAreCounted'
  <2>1. passes + Cardinality({}) <= 4 * refresher.partials_since_full
    BY <1>1 DEF IInv, PassesAreCounted
  <2>2. Cardinality({}) = 0
    BY FS_EmptySet
  <2>3. Cardinality(changed) \in 0..4
    BY <1>5, PartialRegionsFinite
  <2>4. passes + Cardinality(changed)
          <= 4 * (refresher.partials_since_full + 1)
    BY <1>2, <2>1, <2>2, <2>3 DEF IInv, TypeOK
  <2>5. QED
    BY <1>4, <1>10, <2>4 DEF PassesAreCounted
<1>16. QED
  BY <1>10, <1>14, <1>15

(* A round of the loop, whatever the session says and the keys do.         *)
LEMMA RoundIInv ==
  ASSUME IInv, NEW long \in BOOLEAN, NEW says \in Views, Round(long, says)
  PROVE  IInv'
<1> DEFINE target == Compose(says, Toggled(long))
<1>1. /\ view' = says /\ show_diagnostics' = Toggled(long)
      /\ Step(target) /\ UNCHANGED usb_failed
      /\ usb_failed => says = [InitialView EXCEPT !.events = says.events]
  BY DEF Round, Step
<1>2. Toggled(long) \in BOOLEAN /\ usb_failed \in BOOLEAN
  BY DEF Toggled, IInv, TypeOK
<1>3. says \in SessionViews
  BY ViewsAssumption
<1>4. /\ target \in DisplayStates
      /\ target.link_connected = says.link_connected
  BY <1>2, <1>3, ComposeType DEF IInv
<1>5. usb_failed => ~target.link_connected
  BY <1>1, <1>4 DEF InitialView
<1> HIDE DEF target
<1>6. /\ refresher' \in Refreshers /\ passes' \in Nat
      /\ PanelFollowsFrame' /\ PassesAreCounted'
  BY <1>1, <1>4, <1>5, RestIInv, SendNextIInv, FullIInv, PartialIInv DEF Step
<1>7. DOMAIN frame' = Areas /\ panel'.busy \in BOOLEAN /\ panel'.interrupted \in BOOLEAN
  <2>1. DOMAIN frame' = Areas
    BY <1>6 DEF PanelFollowsFrame
  <2>2. /\ panel'.busy \in BOOLEAN /\ panel'.interrupted \in BOOLEAN
    BY <1>1 DEF Step, StillRefreshing, SendNextRegion, NothingToShow,
       FullRefresh, PartialRefresh, BeginPartial, Begin, IInv, TypeOK,
       PanelFollowsFrame
  <2>3. QED
    BY <2>1, <2>2
<1>8. QED
  BY <1>1, <1>2, <1>6, <1>7 DEF IInv, TypeOK

(* Every step keeps the invariant.                                         *)
LEMMA NextIInv == IInv /\ [Next]_vars => IInv'
<1> SUFFICES ASSUME IInv, [Next]_vars PROVE IInv'
  OBVIOUS
<1>1. CASE Next
  BY <1>1, RoundIInv, PanelFinishesIInv DEF Next
<1>2. CASE UNCHANGED vars
  <2>1. Drawn(refresher.shown)' = Drawn(refresher.shown)
    BY <1>2 DEF vars, Drawn, Overlay
  <2>2. QED
    BY <1>2, <2>1 DEF vars, IInv, TypeOK, PanelFollowsFrame, PassesAreCounted
<1>3. QED
  BY <1>1, <1>2

(* The strengthening the theorems below rest on.                           *)
THEOREM Invariance == Spec => []IInv
BY InitIInv, NextIInv, PTL DEF Spec

(* For any views and any bound: the policy's count stays below it, and the *)
(* code region is never left to a partial pass.                            *)
THEOREM TypeCorrect == Spec => []TypeOK
<1>1. IInv => TypeOK
  BY DEF IInv
<1>2. QED
  BY <1>1, Invariance, PTL

(* No transfer ever begins while the panel refreshes.                      *)
THEOREM PanelIsLeftAlone == Spec => []PanelIsNeverInterrupted
<1>1. IInv => PanelIsNeverInterrupted
  BY DEF IInv, PanelFollowsFrame, PanelIsNeverInterrupted
<1>2. QED
  BY <1>1, Invariance, PTL

(* When the refresher rests the whole glass shows one state.               *)
THEOREM GlassIsWhole == Spec => []GlassShowsOneState
<1>1. IInv => GlassShowsOneState
  <2> SUFFICES ASSUME IInv, Idle
               PROVE  /\ panel.glass = frame
                      /\ ~usb_failed => frame = Drawn(refresher.shown)
    BY DEF GlassShowsOneState
  <2>1. /\ refresher.pending_regions = {} /\ panel.glass = panel.memory
        /\ ~usb_failed => frame = Drawn(refresher.shown)
    BY DEF Idle, IInv, TypeOK, PanelFollowsFrame
  <2>2. \A area \in Areas : panel.memory[area] = frame[area]
    BY <2>1 DEF IInv, PanelFollowsFrame
  <2>3. panel.memory = frame
    BY <2>2 DEF IInv, PanelFollowsFrame
  <2>4. QED
    BY <2>1, <2>3
<1>2. QED
  BY <1>1, Invariance, PTL

(* The passes between two full refreshes are at most four for each         *)
(* decision the policy counts: 396 on the panel, for its bound of 100.     *)
THEOREM PassesAreBounded == Spec => []ResidueIsBounded
<1>1. IInv => ResidueIsBounded
  <2> SUFFICES ASSUME IInv PROVE passes <= 4 * (PartialsBeforeForcedFull - 1)
    BY DEF ResidueIsBounded
  <2>1. /\ refresher.partials_since_full \in 0..(PartialsBeforeForcedFull - 1)
        /\ passes \in Nat
    BY DEF IInv, TypeOK, Refreshers
  <2>2. /\ Cardinality(refresher.pending_regions) \in 0..4
        /\ passes + Cardinality(refresher.pending_regions)
             <= 4 * refresher.partials_since_full
    BY PartialRegionsFinite DEF IInv, PassesAreCounted
  <2>3. QED
    BY <2>1, <2>2, ForcedFullAssumption
<1>2. QED
  BY <1>1, Invariance, PTL

-----------------------------------------------------------------------------
(***************************************************************************)
(* The drawing: what the layout draws for a region, for any connected      *)
(* state, stays in it unclipped; and a code of any side the encoder may    *)
(* give it keeps its quiet zone.                                           *)
(***************************************************************************)

(* A rectangle inside its region. *)
Placed(mark, region) ==
    /\ Within(mark, LayoutRegion[region])
    /\ FillRectangle(mark) = {mark}

(* The table of regions. *)
LEMMA RegionTable ==
    /\ LayoutRegion["Header"] = Rectangle(0, 0, 400, 36)
    /\ LayoutRegion["Code"] = Rectangle(0, 36, 264, 264)
    /\ LayoutRegion["Page"] = Rectangle(264, 36, 136, 44)
    /\ LayoutRegion["Hint"] = Rectangle(264, 80, 136, 60)
    /\ LayoutRegion["Delivered"] = Rectangle(264, 140, 136, 80)
    /\ LayoutRegion["Error"] = Rectangle(264, 260, 136, 40)
BY DEF LayoutRegion, Regions

(* Clipping keeps the whole of a rectangle that lies on the panel. *)
LEMMA OnPanelIsUnclipped ==
    ASSUME NEW x \in Nat, NEW y \in Nat, NEW width \in Nat, NEW height \in Nat,
           width > 0, height > 0, x + width <= 400, y + height <= 300
    PROVE  FillRectangle(Rectangle(x, y, width, height)) = {Rectangle(x, y, width, height)}
<1>1. ~(x < 0) /\ ~(y < 0)
    OBVIOUS
<1>2. IF x > 400 - width THEN 400 = x + width ELSE TRUE
    OBVIOUS
<1> QED BY <1>1, <1>2 DEF FillRectangle, Rectangle

(* A line of the column, however long its text, ends where the column does.*)
LEMMA ColumnLineIsPlaced ==
    ASSUME NEW region \in Regions, NEW top \in Nat, NEW height \in Nat,
           NEW y \in Nat, NEW length \in Nat, length > 0,
           LayoutRegion[region] = Rectangle(264, top, 136, height),
           top <= y, y + 14 <= top + height, top + height <= 300
    PROVE  \A mark \in ColumnLine(y, length) : Placed(mark, region)
<1> DEFINE cells == CutToCells(length)
<1>1. cells \in Nat /\ 1 <= cells /\ cells <= 11
    BY DEF CutToCells, ColumnCells
<1> HIDE DEF cells
<1> DEFINE width == TextWidth(cells, 2) - 2
<1>2. width \in Nat /\ 10 <= width /\ width <= 130
    BY <1>1 DEF TextWidth
<1> HIDE DEF width
<1>3. Within(Rectangle(270, y, width, 14), Rectangle(264, top, 136, height))
    BY <1>2 DEF Within, Rectangle
<1>4. FillRectangle(Rectangle(270, y, width, 14)) = {Rectangle(270, y, width, 14)}
    BY <1>2, OnPanelIsUnclipped
<1>5. ColumnLine(y, length) = {Rectangle(270, y, width, 14)}
    BY DEF ColumnLine, Text, cells, width
<1> QED BY <1>3, <1>4, <1>5 DEF Placed

(* Any other text: it is drawn unclipped where its last dot allows it. *)
LEMMA TextIsPlaced ==
    ASSUME NEW region \in Regions, NEW x \in Nat, NEW y \in Nat,
           NEW length, NEW scale \in Nat, NEW width \in Nat,
           TextWidth(length, scale) - scale = width, width > 0, scale > 0,
           x + width <= 400, y + 7 * scale <= 300,
           Within(Rectangle(x, y, width, 7 * scale), LayoutRegion[region])
    PROVE  \A mark \in Text(x, y, length, scale) : Placed(mark, region)
<1>1. FillRectangle(Rectangle(x, y, width, 7 * scale)) = {Rectangle(x, y, width, 7 * scale)}
    BY OnPanelIsUnclipped
<1>2. Text(x, y, length, scale) = {Rectangle(x, y, width, 7 * scale)}
    BY DEF Text
<1> QED BY <1>1, <1>2 DEF Placed

(* What the layout draws in each region.  The header's title ends before   *)
(* the longest label begins.                                               *)
LEMMA HeaderIsPlaced ==
    ASSUME NEW status \in Statuses
    PROVE  /\ \A mark \in Text(8, 8, 8, 3) : Placed(mark, "Header")
           /\ \A mark \in Text(400 - 8 - TextWidth(LabelLength[status], 3), 8,
                                LabelLength[status], 3) : Placed(mark, "Header")
<1>1. "Header" \in Regions
    BY DEF Regions
<1>2. \A mark \in Text(8, 8, 8, 3) : Placed(mark, "Header")
  <2>1. TextWidth(8, 3) - 3 = 141
      BY DEF TextWidth
  <2>2. Within(Rectangle(8, 8, 141, 7 * 3), LayoutRegion["Header"])
      BY RegionTable DEF Within, Rectangle
  <2> QED BY <1>1, <2>1, <2>2, TextIsPlaced
<1>3. LabelLength[status] \in {5, 6, 8, 10, 12}
    BY DEF LabelLength, Statuses
<1>4. ASSUME NEW length \in {5, 6, 8, 10, 12}
      PROVE  \A mark \in Text(400 - 8 - TextWidth(length, 3), 8, length, 3) :
                 Placed(mark, "Header")
  <2> DEFINE x == 400 - 8 - TextWidth(length, 3)
             width == TextWidth(length, 3) - 3
  <2>1. x \in Nat /\ width \in Nat /\ width > 0 /\ x + width <= 400
      BY <1>4 DEF TextWidth
  <2> HIDE DEF x
  <2>2. Within(Rectangle(x, 8, width, 7 * 3), LayoutRegion["Header"])
    <3> HIDE DEF width
    <3> QED BY <2>1, RegionTable DEF Within, Rectangle
  <2>3. \A mark \in Text(x, 8, length, 3) : Placed(mark, "Header")
      BY <1>1, <2>1, <2>2, TextIsPlaced
  <2> QED BY <2>3 DEF x
<1> QED BY <1>2, <1>3, <1>4

(* The code: the quiet zone takes eight modules of the square's side, and  *)
(* what is left over is shared out in halves.                              *)
LEMMA PixelsOfASide ==
    ASSUME NEW side \in Sides
    PROVE  /\ side \in Nat /\ side >= 21
           /\ PixelsPerModule(side) \in Nat /\ PixelsPerModule(side) >= 4
           /\ side * PixelsPerModule(side) \in Nat
           /\ side * PixelsPerModule(side) + 8 * PixelsPerModule(side) <= 259
<1>1. PICK version \in 1..9 : side = 4 * version + 17
    BY DEF Sides
<1>2. side \in {21, 25, 29, 33, 37, 41, 45, 49, 53}
    BY <1>1
<1>3. ASSUME NEW n \in Nat, NEW p \in Nat, side = n, n > 0, 259 \div (n + 8) = p,
             p >= 4, n * p + 8 * p <= 259, n >= 21, n * p \in Nat
      PROVE  /\ PixelsPerModule(side) = p
             /\ side \in Nat /\ side >= 21
             /\ PixelsPerModule(side) \in Nat /\ PixelsPerModule(side) >= 4
             /\ side * PixelsPerModule(side) \in Nat
             /\ side * PixelsPerModule(side) + 8 * PixelsPerModule(side) <= 259
  <2>1. PixelsPerModule(side) = p
      BY <1>3 DEF PixelsPerModule
  <2> QED BY <1>3, <2>1
<1>4. CASE side = 21
    BY <1>4, <1>3, 259 \div (21 + 8) = 8
<1>5. CASE side = 25
    BY <1>5, <1>3, 259 \div (25 + 8) = 7
<1>6. CASE side = 29
    BY <1>6, <1>3, 259 \div (29 + 8) = 7
<1>7. CASE side = 33
    BY <1>7, <1>3, 259 \div (33 + 8) = 6
<1>8. CASE side = 37
    BY <1>8, <1>3, 259 \div (37 + 8) = 5
<1>9. CASE side = 41
    BY <1>9, <1>3, 259 \div (41 + 8) = 5
<1>10. CASE side = 45
    BY <1>10, <1>3, 259 \div (45 + 8) = 4
<1>11. CASE side = 49
    BY <1>11, <1>3, 259 \div (49 + 8) = 4
<1>12. CASE side = 53
    BY <1>12, <1>3, 259 \div (53 + 8) = 4
<1> QED BY <1>2, <1>4, <1>5, <1>6, <1>7, <1>8, <1>9, <1>10, <1>11, <1>12

(* Where half of what the code leaves free puts it. *)
LEMMA SymbolStandsFree ==
    ASSUME NEW size \in Nat, NEW zone \in Nat, size + 2 * zone <= 259
    PROVE  /\ (259 - size) \div 2 \in Nat
           /\ zone <= (259 - size) \div 2
           /\ (259 - size) \div 2 + size + zone <= 259
OBVIOUS

LEMMA CodeSquareIs == CodeSquare = Rectangle(2, 38, 259, 259)
BY DEF CodeSquare

LEMMA EverySideIsScannable ==
    ASSUME NEW side \in Sides
    PROVE  Scannable(side) /\ Placed(Symbol(side), "Code")
<1> DEFINE pixels == PixelsPerModule(side)
           size == side * pixels
<1>1. pixels \in Nat /\ pixels >= 4 /\ size \in Nat /\ size + 8 * pixels <= 259 /\ size > 0
    BY PixelsOfASide
<1> HIDE DEF pixels
<1> DEFINE margin == (259 - size) \div 2
<1>2. margin \in Nat /\ 4 * pixels <= margin /\ margin + size + 4 * pixels <= 259
  <2> HIDE DEF size
  <2>1. 4 * pixels \in Nat /\ size + 2 * (4 * pixels) <= 259
      BY <1>1
  <2> QED BY <1>1, <2>1, SymbolStandsFree
<1>3. Symbol(side) = Rectangle(2 + margin, 38 + margin, size, size)
    BY CodeSquareIs DEF Symbol, Rectangle, pixels
<1> HIDE DEF size, margin
<1>4. Scannable(side)
  <2>1. Within(Rectangle(2 + margin - 4 * pixels, 38 + margin - 4 * pixels,
                         size + 8 * pixels, size + 8 * pixels),
               Rectangle(2, 38, 259, 259))
      BY <1>1, <1>2 DEF Within, Rectangle
  <2>2. /\ Symbol(side).x = 2 + margin /\ Symbol(side).y = 38 + margin
        /\ Symbol(side).width = size /\ Symbol(side).height = size
      BY <1>3 DEF Rectangle
  <2>3. Rectangle(Symbol(side).x - 4 * pixels, Symbol(side).y - 4 * pixels,
                  Symbol(side).width + 8 * pixels, Symbol(side).height + 8 * pixels)
        = Rectangle(2 + margin - 4 * pixels, 38 + margin - 4 * pixels,
                    size + 8 * pixels, size + 8 * pixels)
      BY <1>1, <1>2, <2>2 DEF Rectangle
  <2>4. Within(Rectangle(Symbol(side).x - 4 * pixels, Symbol(side).y - 4 * pixels,
                         Symbol(side).width + 8 * pixels,
                         Symbol(side).height + 8 * pixels), CodeSquare)
      BY <2>1, <2>3, CodeSquareIs
  <2> QED BY <1>1, <2>4 DEF Scannable, pixels
<1>5. Placed(Symbol(side), "Code")
  <2>1. Within(Rectangle(2 + margin, 38 + margin, size, size), Rectangle(0, 36, 264, 264))
      BY <1>1, <1>2 DEF Within, Rectangle
  <2>2. FillRectangle(Rectangle(2 + margin, 38 + margin, size, size)) =
            {Rectangle(2 + margin, 38 + margin, size, size)}
      BY <1>1, <1>2, OnPanelIsUnclipped
  <2> QED BY <1>3, <2>1, <2>2, RegionTable DEF Placed
<1> QED BY <1>4, <1>5

LEMMA CodeIsPlaced ==
    ASSUME NEW state, NEW side \in Sides \cup {0}, NEW length
    PROVE  \A mark \in Marks(state, "Code", side, length) : Placed(mark, "Code")
<1>1. CASE side = 0
  <2>1. CodeSquare.x = 2 /\ CodeSquare.y = 38
      BY CodeSquareIs DEF Rectangle
  <2>2. Refusal = Text(23, 137, 12, 3) \cup Text(23, 173, 12, 3)
      BY <2>1 DEF Refusal, TextWidth
  <2>3. TextWidth(12, 3) - 3 = 213
      BY DEF TextWidth
  <2>4. "Code" \in Regions
      BY DEF Regions
  <2>5. /\ Within(Rectangle(23, 137, 213, 7 * 3), LayoutRegion["Code"])
        /\ Within(Rectangle(23, 173, 213, 7 * 3), LayoutRegion["Code"])
      BY RegionTable DEF Within, Rectangle
  <2>6. /\ \A mark \in Text(23, 137, 12, 3) : Placed(mark, "Code")
        /\ \A mark \in Text(23, 173, 12, 3) : Placed(mark, "Code")
      BY <2>3, <2>4, <2>5, TextIsPlaced
  <2> QED BY <1>1, <2>2, <2>6 DEF Marks
<1>2. CASE side \in Sides
  <2>1. Placed(Symbol(side), "Code")
      BY <1>2, EverySideIsScannable
  <2>2. side # 0
      BY <1>2, PixelsOfASide
  <2> QED BY <2>1, <2>2 DEF Marks
<1> QED BY <1>1, <1>2

LEMMA PageIsPlaced ==
    ASSUME NEW state, NEW side, NEW length
    PROVE  \A mark \in Marks(state, "Page", side, length) : Placed(mark, "Page")
<1>1. "Page" \in Regions
    BY DEF Regions
<1>2. ASSUME NEW cells \in Nat, cells > 0
      PROVE  /\ \A mark \in ColumnLine(42, cells) : Placed(mark, "Page")
             /\ \A mark \in ColumnLine(60, cells) : Placed(mark, "Page")
    BY <1>1, <1>2, RegionTable, ColumnLineIsPlaced
<1>3. 36 + 6 = 42 /\ 36 + 6 + ColumnLineHeight = 60
    BY DEF ColumnLineHeight
<1> QED BY <1>2, <1>3 DEF Marks

LEMMA HintIsPlaced ==
    ASSUME NEW state, state.status \in Statuses, NEW side, NEW length
    PROVE  \A mark \in Marks(state, "Hint", side, length) : Placed(mark, "Hint")
<1>1. "Hint" \in Regions
    BY DEF Regions
<1>2. ASSUME NEW line \in DOMAIN HintLengths[state.status]
      PROVE  \A mark \in ColumnLine(80 + 4 + (line - 1) * ColumnLineHeight,
                                    HintLengths[state.status][line]) : Placed(mark, "Hint")
  <2>1. line \in {1, 2, 3} /\ HintLengths[state.status][line] \in {6, 7, 9, 11}
      BY <1>2 DEF HintLengths, Statuses
  <2>2. 80 + 4 + (line - 1) * ColumnLineHeight \in {84, 102, 120}
      BY <2>1 DEF ColumnLineHeight
  <2>3. ASSUME NEW cells \in {6, 7, 9, 11}, NEW y \in {84, 102, 120}
        PROVE  \A mark \in ColumnLine(y, cells) : Placed(mark, "Hint")
    <3>1. cells \in Nat /\ cells > 0 /\ y \in Nat /\ 80 <= y /\ y + 14 <= 80 + 60
        BY <2>3
    <3> QED BY <1>1, <3>1, RegionTable, ColumnLineIsPlaced
  <2> QED BY <2>1, <2>2, <2>3
<1> QED BY <1>2 DEF Marks

LEMMA DeliveredIsPlaced ==
    ASSUME NEW state, state.delivered \in Nat, NEW side, NEW length
    PROVE  \A mark \in Marks(state, "Delivered", side, length) :
               Placed(mark, "Delivered")
<1>1. "Delivered" \in Regions
    BY DEF Regions
<1>2. 140 + 4 = 144 /\ 140 + 8 + ColumnLineHeight = 166
    BY DEF ColumnLineHeight
<1>3. \A mark \in ColumnLine(144, 6) : Placed(mark, "Delivered")
    BY <1>1, RegionTable, ColumnLineIsPlaced
<1>4. \A mark \in Text(270, 166, 5, 4) : Placed(mark, "Delivered")
  <2>1. TextWidth(5, 4) - 4 = 116
      BY DEF TextWidth
  <2>2. Within(Rectangle(270, 166, 116, 7 * 4), LayoutRegion["Delivered"])
      BY RegionTable DEF Within, Rectangle
  <2> QED BY <1>1, <2>1, <2>2, TextIsPlaced
<1>5. ASSUME NEW digits \in {1, 2, 3, 4}
      PROVE  \A mark \in Text(270, 166, digits, 5) : Placed(mark, "Delivered")
  <2> DEFINE width == TextWidth(digits, 5) - 5
  <2>1. width \in Nat /\ width > 0 /\ width <= 115
      BY <1>5 DEF TextWidth
  <2>2. Within(Rectangle(270, 166, width, 7 * 5), LayoutRegion["Delivered"])
    <3> HIDE DEF width
    <3> QED BY <2>1, RegionTable DEF Within, Rectangle
  <2> QED BY <1>1, <2>1, <2>2, TextIsPlaced
<1>6. Digits(state.delivered) \in {1, 2, 3, 4}
    BY DEF Digits
<1> QED BY <1>2, <1>3, <1>4, <1>5, <1>6 DEF Marks

LEMMA ErrorIsPlaced ==
    ASSUME NEW state, NEW side, NEW length \in Nat, length > 0
    PROVE  \A mark \in Marks(state, "Error", side, length) : Placed(mark, "Error")
<1>1. "Error" \in Regions
    BY DEF Regions
<1>2. Placed(LayoutRegion["Error"], "Error")
  <2>1. FillRectangle(Rectangle(264, 260, 136, 40)) = {Rectangle(264, 260, 136, 40)}
      BY OnPanelIsUnclipped
  <2>2. Within(Rectangle(264, 260, 136, 40), Rectangle(264, 260, 136, 40))
      BY DEF Within, Rectangle
  <2> QED BY <2>1, <2>2, RegionTable DEF Placed
<1>3. \A mark \in ColumnLine(273, length) : Placed(mark, "Error")
    BY <1>1, RegionTable, ColumnLineIsPlaced
<1>4. 260 + ((40 - 14) \div 2) = 273 /\ 264 + 6 = 270
    OBVIOUS
<1>5. \A mark \in Text(264 + 6, 260 + ((40 - 14) \div 2), CutToCells(length), 2) :
          Placed(mark, "Error")
    BY <1>3, <1>4 DEF ColumnLine
<1> QED BY <1>2, <1>5 DEF Marks

(* Whatever the record, whatever the side of its code and the length of    *)
(* its error word, what is drawn for a region stays inside it, unclipped.  *)
THEOREM EveryMarkIsPlaced ==
    ASSUME NEW state, state.status \in Statuses, state.delivered \in Nat,
           NEW side \in Sides \cup {0}, NEW length \in Nat, length > 0,
           NEW region \in Regions
    PROVE  \A mark \in Marks(state, region, side, length) : Placed(mark, region)
<1>1. CASE region = "Header"
    BY <1>1, HeaderIsPlaced DEF Marks
<1>2. CASE region = "Code"
    BY <1>2, CodeIsPlaced
<1>3. CASE region = "Page"
    BY <1>3, PageIsPlaced
<1>4. CASE region = "Hint"
    BY <1>4, HintIsPlaced
<1>5. CASE region = "Delivered"
    BY <1>5, DeliveredIsPlaced
<1>6. CASE region = "Error"
    BY <1>6, ErrorIsPlaced
<1> QED BY <1>1, <1>2, <1>3, <1>4, <1>5, <1>6 DEF Regions

(* The refresher only ever shows states the layout draws inside their      *)
(* regions (remote_display_layout.h:98).                                   *)
THEOREM DrawingIsContained == Spec => []DrawingStaysInside
<1>1. TypeOK => DrawingStaysInside
  <2> SUFFICES ASSUME TypeOK, NEW region \in Regions, NEW length \in 1..32,
                      NEW mark \in Marks(refresher.shown, region,
                                        SideOf[refresher.shown.payload], length)
               PROVE  Within(mark, LayoutRegion[region]) /\ FillRectangle(mark) = {mark}
      BY DEF DrawingStaysInside
  <2>1. refresher.shown \in DisplayStates
      BY DEF TypeOK, Refreshers
  <2>2. /\ refresher.shown.status \in Statuses /\ refresher.shown.delivered \in Nat
        /\ SideOf[refresher.shown.payload] \in Sides \cup {0}
      BY <2>1, SideAssumption, CountAssumption DEF DisplayStates
  <2>3. length \in Nat /\ length > 0
      OBVIOUS
  <2> QED BY <2>2, <2>3, EveryMarkIsPlaced DEF Placed
<1> QED BY <1>1, TypeCorrect, PTL

(* Whenever the panel is made to show a code, a phone can scan it.         *)
THEOREM CodesAreScannable == Spec => []CodesCanBeScanned
<1>1. TypeOK => CodesCanBeScanned
  <2> SUFFICES ASSUME TypeOK
               PROVE  SideOf[refresher.shown.payload] \in Sides \cup {0}
      BY EverySideIsScannable DEF CodesCanBeScanned
  <2>1. refresher.shown \in DisplayStates
      BY DEF TypeOK, Refreshers
  <2> QED BY <2>1, SideAssumption DEF DisplayStates
<1> QED BY <1>1, TypeCorrect, PTL
=============================================================================
