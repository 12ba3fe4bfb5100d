----------------------------- MODULE RemoteInput -----------------------------
(***************************************************************************)
(* remote_input/remote_input_model.c under the sampling loop of            *)
(* firmware/remote.c: two keys, debounced and timed, one observation of    *)
(* each per round of the loop.                                             *)
(*                                                                         *)
(* The keys themselves are there too: "level" is what each reads, and      *)
(* "steady" how long it had really been so when the round's clock was read *)
(* (the keys are read right after it).  The loop sees a change at its next *)
(* sample, which is up to a whole round later; a round lasts 5 ms and the  *)
(* work of the one before, which may be a refresh of the panel.  The clock *)
(* counts in microseconds (ticks, here) and the model in milliseconds: the *)
(* rest of each division is lost.  Of a level that changes twice between   *)
(* two samples nobody can see anything: it is left out.                    *)
(***************************************************************************)
EXTENDS Naturals

CONSTANTS Debounce,       \* REMOTE_INPUT_DEBOUNCE_MILLISECONDS
          LongThreshold,  \* REMOTE_INPUT_LONG_PRESS_THRESHOLD_MILLISECONDS
          MaxMilliseconds,\* UINT32_MAX
          TicksPerMillisecond, \* of time_us_64: 1000
          SamplePeriod,   \* KEYS_SAMPLE_PERIOD_MILLISECONDS
          Rounds          \* the lengths a round of the loop may have, in ticks

ASSUME ThresholdAssumption ==
    /\ Debounce \in Nat \ {0}
    /\ LongThreshold \in Nat \ {0}
    /\ MaxMilliseconds \in Nat
    /\ LongThreshold <= MaxMilliseconds

(* What the model is told of a round: its whole milliseconds. *)
WholeMilliseconds(ticks) == ticks \div TicksPerMillisecond

(* A round sleeps for the sample period at least, and none is so long that *)
(* the debounce sum wraps.                                                 *)
ASSUME RoundAssumption ==
    /\ {TicksPerMillisecond, SamplePeriod} \subseteq Nat \ {0}
    /\ Rounds \subseteq Nat
    /\ \A e \in Rounds : /\ SamplePeriod * TicksPerMillisecond <= e
                         /\ Debounce + WholeMilliseconds(e) <= MaxMilliseconds

(* How long, in ticks, a level may have lasted that has been credited with *)
(* so many milliseconds: each sample has credited a period at least, and   *)
(* lost less than one millisecond.                                         *)
MayHaveLasted(credit) ==
    credit * TicksPerMillisecond
        + (credit \div SamplePeriod) * (TicksPerMillisecond - 1)

(* The interval has not been credited yet (the code's: 19 milliseconds, in *)
(* 3 samples, so that 21997 microseconds may have passed).                 *)
LongestUnbelieved == MayHaveLasted(Debounce - 1)

(* Steady for this long is as good as for ever: no property tells more. *)
LongSteady == LongestUnbelieved + TicksPerMillisecond

Keys == {"Key0", "Key1"}

Other(key) == IF key = "Key0" THEN "Key1" ELSE "Key0"

Nothing == <<>>

VARIABLES keys,     \* the input model: one RemoteInputKeyState per key
          report,   \* the press the last observation classified
          turn,     \* the key observed next, or "wait"
          elapsed,  \* the length of this round, as the model is told
          level,    \* what each key reads
          steady    \* for how many ticks it has, as far as LongSteady

vars == <<keys, report, turn, elapsed, level, steady>>

KeyStates == [held : BOOLEAN, raw_level : BOOLEAN,
              disagreement_milliseconds : 0..(Debounce - 1),
              held_milliseconds : 0..MaxMilliseconds,
              long_press_reported : BOOLEAN,
              overlapped_another_key : BOOLEAN]

Reports == {Nothing} \cup (Keys \X {"Short", "Long"})

(* Every field in its range: a level that still settles has settled for    *)
(* less than the debounce interval.                                        *)
TypeOK ==
    /\ keys \in [Keys -> KeyStates]
    /\ report \in Reports
    /\ turn \in Keys \cup {"wait"}
    /\ elapsed \in {WholeMilliseconds(e) : e \in Rounds} \cup {0}
    /\ level \in [Keys -> BOOLEAN]
    /\ steady \in [Keys -> 0..LongSteady]

IdleKey == [held |-> FALSE, raw_level |-> FALSE,
            disagreement_milliseconds |-> 0, held_milliseconds |-> 0,
            long_press_reported |-> FALSE, overlapped_another_key |-> FALSE]

Init ==
    /\ keys = [key \in Keys |-> IdleKey]
    /\ report = Nothing
    /\ turn = "wait"
    /\ elapsed = 0
    /\ level = [key \in Keys |-> FALSE]
    /\ steady = [key \in Keys |-> LongSteady]

AtMost(bound, n) == IF n > bound THEN bound ELSE n

(* The loop sleeps, and reads the clock.  Each key keeps its level, or     *)
(* changed it ago[key] before; the round lasted e, less the rest of a      *)
(* millisecond for the model.                                              *)
Wait(e, changed, ago) ==
    /\ turn = "wait"
    /\ turn' = "Key0"
    /\ elapsed' = WholeMilliseconds(e)
    /\ level' = [key \in Keys |-> level[key] # (key \in changed)]
    /\ steady' = [key \in Keys |->
                    AtMost(LongSteady, IF key \in changed THEN ago[key]
                                       ELSE steady[key] + e)]
    /\ report' = Nothing
    /\ UNCHANGED keys
-----------------------------------------------------------------------------
(* remote_input_model_observe, from its conditions.  "agreed" and          *)
(* "disagreed" are its two halves; what a believed change or a longer hold *)
(* does is one operator each, of the key states.                           *)

Fresh == [IdleKey EXCEPT !.held = TRUE]

(* Mutant: only the key that came second is marked. *)
PressAcceptedMarkingOne(states, key) ==
    [states EXCEPT ![key] =
        [Fresh EXCEPT !.raw_level = TRUE,
                      !.overlapped_another_key = states[Other(key)].held]]

(* A press believed while the other key is held spoils both holds. *)
PressAccepted(states, key) ==
    LET chord == states[Other(key)].held
        pressed == [states EXCEPT ![key] = [Fresh EXCEPT !.raw_level = TRUE]]
    IN  IF chord
        THEN [k \in Keys |-> [pressed[k] EXCEPT !.overlapped_another_key = TRUE]]
        ELSE pressed

ReleaseAccepted(states, key) == [states EXCEPT ![key] = IdleKey]

ReleaseReport(state, key) ==
    IF state.overlapped_another_key \/ state.long_press_reported
    THEN Nothing ELSE <<key, "Short">>

(* Mutant: the hold wraps. *)
HeldForWrapping(state, e) ==
    (state.held_milliseconds + e) % (MaxMilliseconds + 1)

(* Saturates rather than wraps. *)
HeldFor(state, e) == AtMost(MaxMilliseconds, state.held_milliseconds + e)

BecomesLong(state, e) ==
    /\ HeldFor(state, e) >= LongThreshold
    /\ ~state.long_press_reported
    /\ ~state.overlapped_another_key

(* Mutant: the sample that first disagrees counts for nothing. *)
SettledForLater(state, read, e) ==
    IF read # state.raw_level THEN 0 ELSE state.disagreement_milliseconds + e

(* The round that ends with the first sample to disagree counts in full.   *)
SettledFor(state, read, e) ==
    (IF read # state.raw_level THEN 0 ELSE state.disagreement_milliseconds) + e

(* The level is the one believed: an idle key stays idle, a hold goes on.  *)
Agree(key) ==
    LET state == keys[key]
        agreed == [state EXCEPT !.raw_level = level[key],
                                !.disagreement_milliseconds = 0]
    IN  /\ level[key] = state.held
        /\ IF ~state.held
           THEN /\ keys' = [keys EXCEPT ![key] = agreed]
                /\ report' = Nothing
           ELSE /\ keys' = [keys EXCEPT ![key] =
                     [agreed EXCEPT
                        !.held_milliseconds = HeldFor(state, elapsed),
                        !.long_press_reported = @ \/ BecomesLong(state, elapsed)]]
                /\ report' = IF BecomesLong(state, elapsed)
                             THEN <<key, "Long">> ELSE Nothing

(* Mutant: the interval itself has not settled yet. *)
SettleTooLong(key) ==
    LET state == keys[key]
        settled == SettledFor(state, level[key], elapsed)
    IN  /\ level[key] # state.held
        /\ settled <= Debounce
        /\ keys' = [keys EXCEPT ![key] =
                      [state EXCEPT !.raw_level = level[key],
                                    !.disagreement_milliseconds = settled]]
        /\ report' = Nothing

(* It is not, and has not settled: the hold is not advanced meanwhile.     *)
Settle(key) ==
    LET state == keys[key]
        settled == SettledFor(state, level[key], elapsed)
    IN  /\ level[key] # state.held
        /\ settled < Debounce
        /\ keys' = [keys EXCEPT ![key] =
                      [state EXCEPT !.raw_level = level[key],
                                    !.disagreement_milliseconds = settled]]
        /\ report' = Nothing

(* It is not, and has settled: the change is believed. *)
Believe(key) ==
    LET state == keys[key]
    IN  /\ level[key] # state.held
        /\ SettledFor(state, level[key], elapsed) >= Debounce
        /\ keys' = IF level[key] THEN PressAccepted(keys, key)
                   ELSE ReleaseAccepted(keys, key)
        /\ report' = IF level[key] THEN Nothing ELSE ReleaseReport(state, key)

(* One round observes Key0, then Key1. *)
Observe(key) ==
    /\ turn = key
    /\ turn' = IF key = "Key0" THEN "Key1" ELSE "wait"
    /\ Agree(key) \/ Settle(key) \/ Believe(key)
    /\ UNCHANGED <<elapsed, level, steady>>

Next ==
    \/ \E e \in Rounds : \E changed \in SUBSET Keys :
         \E ago \in [changed -> 0..e] : Wait(e, changed, ago)
    \/ \E key \in Keys : Observe(key)

Spec == Init /\ [][Next]_vars
-----------------------------------------------------------------------------
(***************************************************************************)
(* Properties.                                                             *)
(***************************************************************************)

Phase(state) ==
    IF ~state.held THEN "idle"
    ELSE IF state.overlapped_another_key THEN "spoiled"
    ELSE IF state.long_press_reported THEN "reported"
    ELSE "fresh"

Holds == INSTANCE KeyHolds
           WITH phase <- [key \in Keys |-> Phase(keys[key])]

(* However the two keys bounce, overlap and time out, a hold is reported   *)
(* at most once, never as short after long, and never when it was part of  *)
(* a chord, whichever key is released first ("there is no moment at which  *)
(* one of them becomes a clean press again", mark_held_keys_overlapped).   *)
ReportsOncePerHold == Holds!Spec

(* A clean hold at or over the threshold has been reported long already,   *)
(* so a release that reports short ends a shorter one; and no hold forgets *)
(* that it was long, however long it lasts (the saturation of              *)
(* held_advanced).                                                         *)
LongHoldsAreLong ==
    \A key \in Keys :
        keys[key].held /\ ~keys[key].overlapped_another_key =>
            (keys[key].long_press_reported <=>
                keys[key].held_milliseconds >= LongThreshold)

(* A change is believed by the sample that finds it older than the         *)
(* debounce interval and what the samples before it may have lost of their *)
(* milliseconds: however long the rounds are, and whatever they round      *)
(* down, a key never feels slower than LongestUnbelieved.                  *)
SteadyLevelsAreBelieved ==
    turn = "wait" =>
        \A key \in Keys :
            steady[key] > LongestUnbelieved => keys[key].held = level[key]

(* "A level must hold this long before it is believed" and "a bounce       *)
(* shorter than this is neither a press nor a release"                     *)
(* (remote_input_model.h): a level is believed only once it has really     *)
(* held for the debounce interval.                                         *)
OnlySteadyLevelsAreBelieved ==
    [][\A key \in Keys :
         keys'[key].held # keys[key].held =>
             steady[key] >= Debounce * TicksPerMillisecond]_vars
=============================================================================
