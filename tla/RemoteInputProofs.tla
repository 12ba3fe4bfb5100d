-------------------------- MODULE RemoteInputProofs --------------------------
(***************************************************************************)
(* Theorems about RemoteInput, for every debounce interval, threshold,     *)
(* saturation point and length of round.                                   *)
(***************************************************************************)
EXTENDS RemoteInput, TLAPS

(* The keys observed since the loop last slept. *)
Observed(key) == turn = "wait" \/ (turn = "Key1" /\ key = "Key0")

(* A key that has been observed has its last level on record, and that     *)
(* level has really lasted no longer than what it has been credited with   *)
(* may stand for, rests and all; of one that is about to be observed the   *)
(* same holds with this round credited.                                    *)
CreditCoversSteady ==
    \A key \in Keys :
        IF Observed(key)
        THEN /\ keys[key].raw_level = level[key]
             /\ level[key] # keys[key].held =>
                    steady[key] <=
                      MayHaveLasted(keys[key].disagreement_milliseconds)
        ELSE level[key] # keys[key].held =>
                    steady[key] <=
                      MayHaveLasted(SettledFor(keys[key], level[key], elapsed))

IInv == TypeOK /\ LongHoldsAreLong /\ CreditCoversSteady

(* Whole milliseconds and the rest of one: what a division leaves. *)
LEMMA Division ==
  ASSUME NEW n \in Nat, NEW d \in Nat \ {0}
  PROVE  /\ n \div d \in Nat
         /\ (n \div d) * d <= n
         /\ n <= (n \div d) * d + (d - 1)
<1>1. /\ n = (n \div d) * d + (n % d)
      /\ n % d \in 0..(d - 1)
      /\ n \div d \in Nat
  OBVIOUS
<1>2. (n \div d) * d \in Nat
  BY <1>1
<1>3. QED
  BY <1>1, <1>2

(* A round of a period at least counts in another sample. *)
LEMMA AnotherSample ==
  ASSUME NEW m \in Nat, NEW n \in Nat, NEW d \in Nat \ {0}, d <= n
  PROVE  (m \div d) + 1 <= (m + n) \div d
<1> DEFINE q == m \div d
           r == (m + n) \div d
<1>1. /\ q \in Nat /\ r \in Nat
      /\ q * d <= m
      /\ m + n <= r * d + (d - 1)
  BY Division
<1> HIDE DEF q, r
<1>2. SUFFICES ASSUME ~(q + 1 <= r) PROVE FALSE
  BY DEF q, r
<1>3. r <= q
  BY <1>1, <1>2
<1>4. r * d <= q * d
  BY <1>1, <1>3
<1>5. r * d \in Nat /\ q * d \in Nat
  BY <1>1
<1>6. QED
  BY <1>1, <1>4, <1>5

(* What the model is told of a round. *)
LEMMA RoundTold ==
  ASSUME NEW e \in Rounds
  PROVE  /\ e \in Nat /\ WholeMilliseconds(e) \in Nat
         /\ SamplePeriod <= WholeMilliseconds(e)
         /\ e <= WholeMilliseconds(e) * TicksPerMillisecond
                   + (TicksPerMillisecond - 1)
<1> DEFINE T == TicksPerMillisecond
           f == WholeMilliseconds(e)
<1>1. /\ T \in Nat \ {0} /\ SamplePeriod \in Nat \ {0} /\ e \in Nat
      /\ SamplePeriod * T <= e
  BY RoundAssumption
<1>2. f \in Nat /\ e <= f * T + (T - 1)
  BY <1>1, Division DEF WholeMilliseconds
<1> HIDE DEF T, f
<1>3. SamplePeriod <= f
  <2>1. SUFFICES ASSUME f + 1 <= SamplePeriod PROVE FALSE
    BY <1>1, <1>2
  <2>2. (f + 1) * T <= SamplePeriod * T
    BY <1>1, <1>2, <2>1
  <2>3. (f + 1) * T = f * T + T /\ f * T \in Nat /\ SamplePeriod * T \in Nat
    BY <1>1, <1>2
  <2>4. QED
    BY <1>1, <1>2, <2>2, <2>3
<1>4. QED
  BY <1>1, <1>2, <1>3 DEF T, f

(* The more is credited, the longer it may have been. *)
LEMMA LastingGrows ==
  ASSUME NEW m \in Nat, NEW n \in Nat, m <= n
  PROVE  /\ MayHaveLasted(m) \in Nat /\ MayHaveLasted(n) \in Nat
         /\ MayHaveLasted(m) <= MayHaveLasted(n)
<1> DEFINE T == TicksPerMillisecond
           a == m \div SamplePeriod
           b == n \div SamplePeriod
<1>1. T \in Nat \ {0} /\ SamplePeriod \in Nat \ {0}
  BY RoundAssumption
<1>2. a \in Nat /\ b \in Nat /\ a <= b
  <2>1. /\ a \in Nat /\ b \in Nat
        /\ a * SamplePeriod <= m
        /\ n <= b * SamplePeriod + (SamplePeriod - 1)
    BY <1>1, Division
  <2> HIDE DEF a, b
  <2>2. SUFFICES ASSUME b + 1 <= a PROVE FALSE
    BY <2>1
  <2>3. (b + 1) * SamplePeriod <= a * SamplePeriod
    BY <1>1, <2>1, <2>2
  <2>4. /\ (b + 1) * SamplePeriod = b * SamplePeriod + SamplePeriod
        /\ b * SamplePeriod \in Nat /\ a * SamplePeriod \in Nat
    BY <1>1, <2>1
  <2>5. QED
    BY <1>1, <2>1, <2>3, <2>4
<1> HIDE DEF a, b
<1>3. /\ m * T \in Nat /\ n * T \in Nat /\ m * T <= n * T
      /\ a * (T - 1) \in Nat /\ b * (T - 1) \in Nat
      /\ a * (T - 1) <= b * (T - 1)
  BY <1>1, <1>2
<1>4. QED
  BY <1>3 DEF MayHaveLasted, a, b

(* A round adds no more to how long a level has lasted than crediting it   *)
(* adds to how long it may have.                                           *)
LEMMA RoundIsCovered ==
  ASSUME NEW credit \in Nat, NEW e \in Rounds
  PROVE  MayHaveLasted(credit) + e <= MayHaveLasted(credit + WholeMilliseconds(e))
<1> DEFINE T == TicksPerMillisecond
           f == WholeMilliseconds(e)
           a == credit \div SamplePeriod
           b == (credit + f) \div SamplePeriod
<1>1. /\ T \in Nat \ {0} /\ SamplePeriod \in Nat \ {0}
      /\ e \in Nat /\ f \in Nat /\ SamplePeriod <= f /\ e <= f * T + (T - 1)
  BY RoundAssumption, RoundTold
<1> HIDE DEF f
<1>2. a \in Nat /\ b \in Nat /\ a + 1 <= b
  <2>1. credit + f \in Nat
    BY <1>1
  <2>2. a \in Nat /\ b \in Nat
    BY <1>1, <2>1, Division
  <2>3. a + 1 <= b
    BY <1>1, AnotherSample
  <2>4. QED
    BY <2>2, <2>3
<1> HIDE DEF a, b
<1>3. (a + 1) * (T - 1) <= b * (T - 1)
  BY <1>1, <1>2
<1>4. /\ (a + 1) * (T - 1) = a * (T - 1) + (T - 1)
      /\ (credit + f) * T = credit * T + f * T
  BY <1>1, <1>2
<1>5. {a * (T - 1), b * (T - 1), credit * T, f * T} \subseteq Nat
  BY <1>1, <1>2
<1>6. QED
  BY <1>1, <1>3, <1>4, <1>5 DEF MayHaveLasted, a, b, f

(* The lengths that bound how long a level is steady. *)
LEMMA LongSteadyIsLong ==
  /\ LongestUnbelieved \in Nat /\ LongSteady \in Nat
  /\ LongestUnbelieved < LongSteady
<1>1. LongestUnbelieved \in Nat
  BY ThresholdAssumption, LastingGrows DEF LongestUnbelieved
<1>2. QED
  BY <1>1, RoundAssumption DEF LongSteady

(* Nothing settled, and nothing held, are in range. *)
LEMMA ZeroInRange == 0 \in 0..(Debounce - 1) /\ 0 \in 0..MaxMilliseconds
BY ThresholdAssumption

(* An idle key and a fresh hold are key states. *)
LEMMA IdleAndFresh ==
  /\ IdleKey \in KeyStates
  /\ [Fresh EXCEPT !.raw_level = TRUE] \in KeyStates
BY ZeroInRange DEF IdleKey, Fresh, KeyStates

(* Nothing is held, reported or owed at the start. *)
LEMMA InitIInv == Init => IInv
<1> SUFFICES ASSUME Init PROVE IInv
  OBVIOUS
<1>1. TypeOK
  BY IdleAndFresh, LongSteadyIsLong DEF Init, TypeOK, Reports
<1>2. LongHoldsAreLong
  BY DEF Init, LongHoldsAreLong, IdleKey
<1>3. CreditCoversSteady
  BY DEF Init, CreditCoversSteady, Observed, IdleKey
<1>4. QED
  BY <1>1, <1>2, <1>3 DEF IInv

(* The loop sleeps: what a key has been credited with grows by the whole   *)
(* milliseconds of the round, and the time its level has lasted by no more *)
(* than these may stand for.                                               *)
LEMMA WaitIInv ==
  ASSUME IInv, NEW e \in Rounds, NEW changed \in SUBSET Keys,
         NEW ago \in [changed -> 0..e], Wait(e, changed, ago)
  PROVE  IInv'
<1>1. e \in Nat /\ WholeMilliseconds(e) \in Nat
  BY RoundTold
<1>2. /\ keys' = keys /\ turn' = "Key0" /\ turn = "wait"
      /\ elapsed' = WholeMilliseconds(e) /\ report' = Nothing
  BY DEF Wait
<1>3. ASSUME NEW key \in Keys
      PROVE  /\ level'[key] \in BOOLEAN
             /\ steady'[key] \in 0..LongSteady
             /\ key \in changed => level'[key] # level[key] /\ steady'[key] <= e
             /\ key \notin changed => /\ level'[key] = level[key]
                                      /\ steady'[key] <= steady[key] + e
  <2>1. steady[key] \in 0..LongSteady /\ level[key] \in BOOLEAN
    BY DEF IInv, TypeOK
  <2>2. level'[key] = (level[key] # (key \in changed))
    BY DEF Wait
  <2>3. CASE key \in changed
    <3>1. ago[key] \in 0..e
      BY <2>3
    <3>2. steady'[key] = AtMost(LongSteady, ago[key])
      BY <2>3 DEF Wait
    <3>3. QED
      BY <1>1, <2>1, <2>2, <2>3, <3>1, <3>2, LongSteadyIsLong DEF AtMost
  <2>4. CASE key \notin changed
    <3>1. steady'[key] = AtMost(LongSteady, steady[key] + e)
      BY <2>4 DEF Wait
    <3>2. QED
      BY <1>1, <2>1, <2>2, <2>4, <3>1, LongSteadyIsLong DEF AtMost
  <2>5. QED
    BY <2>3, <2>4
<1>4. TypeOK'
  <2>1. /\ level' \in [Keys -> BOOLEAN] /\ steady' \in [Keys -> 0..LongSteady]
    BY <1>3 DEF Wait
  <2>2. QED
    BY <1>2, <2>1 DEF IInv, TypeOK, Reports, Keys
<1>5. LongHoldsAreLong'
  BY <1>2 DEF IInv, LongHoldsAreLong
<1>6. CreditCoversSteady'
  <2> SUFFICES ASSUME NEW key \in Keys
               PROVE  /\ ~Observed(key)'
                      /\ level'[key] # keys'[key].held =>
                           steady'[key] <= MayHaveLasted(
                             SettledFor(keys'[key], level'[key], elapsed'))
    BY DEF CreditCoversSteady
  <2>1. ~Observed(key)'
    BY <1>2 DEF Observed
  <2>2. /\ keys[key].raw_level = level[key]
        /\ level[key] # keys[key].held =>
             steady[key] <= MayHaveLasted(keys[key].disagreement_milliseconds)
    BY <1>2 DEF IInv, CreditCoversSteady, Observed
  <2>3. /\ keys[key].disagreement_milliseconds \in Nat
        /\ steady[key] \in Nat /\ steady'[key] \in Nat
        /\ keys[key].held \in BOOLEAN /\ level[key] \in BOOLEAN
    BY <1>3 DEF IInv, TypeOK, KeyStates
  <2> SUFFICES ASSUME level'[key] # keys'[key].held
               PROVE  steady'[key] <= MayHaveLasted(
                        SettledFor(keys'[key], level'[key], elapsed'))
    BY <2>1
  <2>4. CASE key \in changed
    <3>1. SettledFor(keys'[key], level'[key], elapsed') = 0 + WholeMilliseconds(e)
      BY <1>1, <1>2, <1>3, <2>2, <2>3, <2>4 DEF SettledFor
    <3>2. /\ MayHaveLasted(0) \in Nat
          /\ MayHaveLasted(0) + e <= MayHaveLasted(0 + WholeMilliseconds(e))
          /\ MayHaveLasted(0 + WholeMilliseconds(e)) \in Nat
      BY <1>1, LastingGrows, RoundIsCovered
    <3>3. steady'[key] <= e
      BY <1>3, <2>4
    <3>4. QED
      BY <1>1, <2>3, <3>1, <3>2, <3>3
  <2>5. CASE key \notin changed
    <3> DEFINE credit == keys[key].disagreement_milliseconds
    <3>1. SettledFor(keys'[key], level'[key], elapsed')
            = credit + WholeMilliseconds(e)
      BY <1>2, <1>3, <2>2, <2>5 DEF SettledFor
    <3>2. /\ MayHaveLasted(credit) \in Nat
          /\ MayHaveLasted(credit) + e <= MayHaveLasted(credit + WholeMilliseconds(e))
          /\ MayHaveLasted(credit + WholeMilliseconds(e)) \in Nat
      BY <1>1, <2>3, LastingGrows, RoundIsCovered
    <3>3. steady'[key] <= steady[key] + e /\ steady[key] <= MayHaveLasted(credit)
      BY <1>2, <1>3, <2>2, <2>5
    <3> HIDE DEF credit
    <3>4. QED
      BY <1>1, <2>3, <3>1, <3>2, <3>3
  <2>6. QED
    BY <2>4, <2>5
<1>7. QED
  BY <1>4, <1>5, <1>6 DEF IInv

(* What an observation leaves of the key it observes, and that it leaves   *)
(* the other one's level, clocks and hold alone.                           *)
LEMMA ObserveEffect ==
  ASSUME IInv, NEW key \in Keys, Observe(key)
  PROVE  /\ keys' \in [Keys -> KeyStates]
         /\ report' \in Reports
         /\ keys'[key].raw_level = level[key]
         /\ level[key] # keys'[key].held =>
              steady[key] <= MayHaveLasted(keys'[key].disagreement_milliseconds)
         /\ \A k \in Keys \ {key} :
              /\ keys'[k] \in {keys[k],
                    [keys[k] EXCEPT !.overlapped_another_key = TRUE]}
         /\ LongHoldsAreLong'
<1>1. /\ keys \in [Keys -> KeyStates] /\ level[key] \in BOOLEAN
      /\ elapsed \in Nat /\ steady[key] \in 0..LongSteady
      /\ keys[key] \in KeyStates
  BY RoundTold DEF IInv, TypeOK
<1>2. level[key] # keys[key].held =>
        steady[key] <= MayHaveLasted(SettledFor(keys[key], level[key], elapsed))
  BY DEF IInv, CreditCoversSteady, Observed, Observe, Keys
<1>3. \A k \in Keys : keys[k].held /\ ~keys[k].overlapped_another_key =>
        (keys[k].long_press_reported <=> keys[k].held_milliseconds >= LongThreshold)
  BY DEF IInv, LongHoldsAreLong
<1>4. CASE Agree(key)
  <2> DEFINE agreed == [keys[key] EXCEPT !.raw_level = level[key],
                                         !.disagreement_milliseconds = 0]
             held == [agreed EXCEPT
                        !.held_milliseconds = HeldFor(keys[key], elapsed),
                        !.long_press_reported = @ \/ BecomesLong(keys[key], elapsed)]
  <2>1. agreed \in KeyStates
    BY <1>1, ZeroInRange DEF KeyStates
  <2>2. HeldFor(keys[key], elapsed) \in 0..MaxMilliseconds
    BY <1>1, ThresholdAssumption DEF HeldFor, AtMost, KeyStates
  <2>3. held \in KeyStates
    BY <1>1, <2>1, <2>2 DEF KeyStates, BecomesLong
  <2>4. CASE ~keys[key].held
    <3>1. keys' = [keys EXCEPT ![key] = agreed] /\ report' = Nothing
      BY <1>4, <2>4 DEF Agree
    <3>2. /\ keys' \in [Keys -> KeyStates] /\ keys'[key] = agreed
          /\ \A k \in Keys \ {key} : keys'[k] = keys[k]
      BY <1>1, <2>1, <3>1
    <3>3. agreed.raw_level = level[key] /\ agreed.held = keys[key].held
      BY <1>1 DEF KeyStates
    <3>4. LongHoldsAreLong'
      BY <1>3, <2>4, <3>2, <3>3 DEF LongHoldsAreLong
    <3>5. QED
      BY <1>4, <3>1, <3>2, <3>3, <3>4 DEF Agree, Reports
  <2>5. CASE keys[key].held
    <3>1. /\ keys' = [keys EXCEPT ![key] = held]
          /\ report' = IF BecomesLong(keys[key], elapsed)
                       THEN <<key, "Long">> ELSE Nothing
      BY <1>4, <2>5 DEF Agree
    <3>2. /\ keys' \in [Keys -> KeyStates] /\ keys'[key] = held
          /\ \A k \in Keys \ {key} : keys'[k] = keys[k]
      BY <1>1, <2>3, <3>1
    <3>3. /\ held.raw_level = level[key] /\ held.held = keys[key].held
          /\ held.overlapped_another_key = keys[key].overlapped_another_key
          /\ held.held_milliseconds = HeldFor(keys[key], elapsed)
          /\ held.long_press_reported = (keys[key].long_press_reported
                                          \/ BecomesLong(keys[key], elapsed))
      BY <1>1 DEF KeyStates
    <3>4. ASSUME ~keys[key].overlapped_another_key
          PROVE  held.long_press_reported <=>
                   held.held_milliseconds >= LongThreshold
      <4>1. keys[key].long_press_reported <=>
              keys[key].held_milliseconds >= LongThreshold
        BY <1>3, <2>5, <3>4
      <4>2. keys[key].held_milliseconds >= LongThreshold =>
              HeldFor(keys[key], elapsed) >= LongThreshold
        BY <1>1, ThresholdAssumption DEF HeldFor, AtMost, KeyStates
      <4>3. keys[key].long_press_reported \in BOOLEAN
        BY <1>1 DEF KeyStates
      <4>4. QED
        BY <3>3, <3>4, <4>1, <4>2, <4>3 DEF BecomesLong
    <3> HIDE DEF held
    <3>5. LongHoldsAreLong'
      BY <1>3, <3>2, <3>3, <3>4 DEF LongHoldsAreLong
    <3>6. QED
      BY <1>4, <3>1, <3>2, <3>3, <3>5 DEF Agree, Reports
  <2>6. QED
    BY <1>1, <2>4, <2>5 DEF KeyStates
<1>5. CASE Settle(key)
  <2> DEFINE n == SettledFor(keys[key], level[key], elapsed)
             settled == [keys[key] EXCEPT !.raw_level = level[key],
                                          !.disagreement_milliseconds = n]
  <2>1. n \in 0..(Debounce - 1) /\ level[key] # keys[key].held
    BY <1>1, <1>5, ThresholdAssumption DEF Settle, SettledFor, KeyStates
  <2>2. keys' = [keys EXCEPT ![key] = settled] /\ report' = Nothing
    BY <1>5 DEF Settle
  <2> HIDE DEF n
  <2>3. settled \in KeyStates
    BY <1>1, <2>1 DEF KeyStates
  <2>4. /\ settled.raw_level = level[key] /\ settled.held = keys[key].held
        /\ settled.disagreement_milliseconds = n
        /\ settled.overlapped_another_key = keys[key].overlapped_another_key
        /\ settled.held_milliseconds = keys[key].held_milliseconds
        /\ settled.long_press_reported = keys[key].long_press_reported
    BY <1>1 DEF KeyStates
  <2>5. /\ keys' \in [Keys -> KeyStates] /\ keys'[key] = settled
        /\ \A k \in Keys \ {key} : keys'[k] = keys[k]
    BY <1>1, <2>2, <2>3
  <2> HIDE DEF settled
  <2>6. LongHoldsAreLong'
    BY <1>3, <2>4, <2>5 DEF LongHoldsAreLong
  <2>7. steady[key] <= MayHaveLasted(n)
    BY <1>2, <2>1 DEF n
  <2>8. QED
    BY <2>2, <2>4, <2>5, <2>6, <2>7 DEF Reports
<1>6. CASE Believe(key) /\ level[key]
  <2> DEFINE pressed == [Fresh EXCEPT !.raw_level = TRUE]
  <2>1. keys' = PressAccepted(keys, key) /\ report' = Nothing
    BY <1>6 DEF Believe
  <2>2. /\ pressed \in KeyStates /\ pressed.held /\ pressed.raw_level
        /\ pressed.held_milliseconds = 0 /\ ~pressed.long_press_reported
    BY IdleAndFresh DEF Fresh, IdleKey
  <2> HIDE DEF pressed
  <2>3. [keys EXCEPT ![key] = pressed] \in [Keys -> KeyStates]
    BY <1>1, <2>2
  <2>4. CASE keys[Other(key)].held
    <3>1. keys' = [k \in Keys |-> [[keys EXCEPT ![key] = pressed][k]
                                     EXCEPT !.overlapped_another_key = TRUE]]
      BY <2>1, <2>4 DEF PressAccepted, pressed
    <3>2. \A state \in KeyStates :
            LET t == [state EXCEPT !.overlapped_another_key = TRUE]
            IN  /\ t \in KeyStates /\ t.overlapped_another_key
                /\ t.held = state.held /\ t.raw_level = state.raw_level
      BY DEF KeyStates
    <3>3. keys' \in [Keys -> KeyStates]
      BY <2>3, <3>1, <3>2
    <3>4. \A k \in Keys : keys'[k].overlapped_another_key
      BY <2>3, <3>1, <3>2
    <3>5. keys'[key].held /\ keys'[key].raw_level
      BY <1>1, <2>2, <3>1, <3>2
    <3>6. \A k \in Keys \ {key} :
            keys'[k] = [keys[k] EXCEPT !.overlapped_another_key = TRUE]
      BY <1>1, <3>1
    <3>7. QED
      BY <1>6, <2>1, <3>3, <3>4, <3>5, <3>6, <1>1
      DEF LongHoldsAreLong, Reports, KeyStates
  <2>5. CASE ~keys[Other(key)].held
    <3>1. keys' = [keys EXCEPT ![key] = pressed]
      BY <2>1, <2>5 DEF PressAccepted, pressed
    <3>2. keys'[key] = pressed /\ \A k \in Keys \ {key} : keys'[k] = keys[k]
      BY <1>1, <3>1
    <3>3. LongHoldsAreLong'
      BY <1>3, <2>2, <3>2, ThresholdAssumption DEF LongHoldsAreLong
    <3>4. QED
      BY <1>6, <1>1, <2>1, <2>2, <2>3, <3>1, <3>2, <3>3 DEF Reports, KeyStates
  <2>6. QED
    BY <2>4, <2>5
<1>7. CASE Believe(key) /\ ~level[key]
  <2>1. /\ keys' = [keys EXCEPT ![key] = IdleKey]
        /\ report' \in {Nothing, <<key, "Short">>}
    BY <1>7 DEF Believe, ReleaseAccepted, ReleaseReport
  <2>2. /\ keys' \in [Keys -> KeyStates] /\ keys'[key] = IdleKey
        /\ \A k \in Keys \ {key} : keys'[k] = keys[k]
    BY <1>1, <2>1, IdleAndFresh
  <2>3. ~IdleKey.held /\ ~IdleKey.raw_level
    BY DEF IdleKey
  <2>4. LongHoldsAreLong'
    BY <1>3, <2>2, <2>3 DEF LongHoldsAreLong
  <2>5. QED
    BY <1>1, <1>7, <2>1, <2>2, <2>3, <2>4, IdleAndFresh DEF Reports, KeyStates
<1>8. QED
  BY <1>1, <1>4, <1>5, <1>6, <1>7 DEF Observe

(* An observation keeps the invariant, for the key it observes and for the *)
(* other one, whether or not the two make a chord.                         *)
LEMMA ObserveIInv ==
  ASSUME IInv, NEW key \in Keys, Observe(key)
  PROVE  IInv'
<1>1. UNCHANGED <<elapsed, level, steady>> /\ turn = key
  BY DEF Observe
<1>2. turn' = IF key = "Key0" THEN "Key1" ELSE "wait"
  BY DEF Observe
<1>3. TypeOK'
  BY <1>1, <1>2, ObserveEffect DEF IInv, TypeOK, Keys
<1>4. LongHoldsAreLong'
  BY ObserveEffect
<1>5. CreditCoversSteady'
  <2> SUFFICES ASSUME NEW k \in Keys
               PROVE IF Observed(k)'
                     THEN /\ keys'[k].raw_level = level'[k]
                          /\ level'[k] # keys'[k].held =>
                               steady'[k] <= MayHaveLasted(
                                 keys'[k].disagreement_milliseconds)
                     ELSE level'[k] # keys'[k].held =>
                            steady'[k] <= MayHaveLasted(
                              SettledFor(keys'[k], level'[k], elapsed'))
    BY DEF CreditCoversSteady
  <2>1. CASE k = key
    <3>1. Observed(k)'
      BY <1>2, <2>1 DEF Observed, Keys
    <3>2. QED
      BY <1>1, <2>1, <3>1, ObserveEffect
  <2>2. CASE k # key
    <3>1. Observed(k)' <=> Observed(k)
      BY <1>1, <1>2, <2>2 DEF Observed, Keys
    <3>2. keys[k] \in KeyStates
      BY DEF IInv, TypeOK
    <3>3. /\ keys'[k].raw_level = keys[k].raw_level
          /\ keys'[k].held = keys[k].held
          /\ keys'[k].disagreement_milliseconds =
               keys[k].disagreement_milliseconds
      <4>1. keys'[k] \in {keys[k],
                [keys[k] EXCEPT !.overlapped_another_key = TRUE]}
        BY <2>2, ObserveEffect
      <4>2. QED
        BY <3>2, <4>1 DEF KeyStates
    <3>4. SettledFor(keys'[k], level[k], elapsed) =
            SettledFor(keys[k], level[k], elapsed)
      BY <3>3 DEF SettledFor
    <3>5. QED
      BY <1>1, <3>1, <3>3, <3>4 DEF IInv, CreditCoversSteady
  <2>3. QED
    BY <2>1, <2>2
<1>6. QED
  BY <1>3, <1>4, <1>5 DEF IInv

(* Every step keeps the invariant. *)
LEMMA NextIInv == IInv /\ [Next]_vars => IInv'
<1> SUFFICES ASSUME IInv, [Next]_vars PROVE IInv'
  OBVIOUS
<1>1. CASE Next
  BY <1>1, WaitIInv, ObserveIInv DEF Next
<1>2. CASE UNCHANGED vars
  BY <1>2 DEF vars, IInv, TypeOK, LongHoldsAreLong, CreditCoversSteady, Observed
<1>3. QED
  BY <1>1, <1>2

(* The strengthening the theorems below rest on: with the types and the    *)
(* long holds, that no level outlasts what its credit may stand for.       *)
THEOREM Invariance == Spec => []IInv
BY InitIInv, NextIInv, PTL DEF Spec

(* A level that settles has settled for less than the interval, and a hold *)
(* saturates: for any constants the model keeps its type.                  *)
THEOREM TypeCorrect == Spec => []TypeOK
<1>1. IInv => TypeOK
  BY DEF IInv
<1>2. QED
  BY <1>1, Invariance, PTL

(* A clean hold is long exactly when it has been reported so.              *)
THEOREM LongIsReported == Spec => []LongHoldsAreLong
<1>1. IInv => LongHoldsAreLong
  BY DEF IInv
<1>2. QED
  BY <1>1, Invariance, PTL

(* A change that has lasted longer than LongestUnbelieved is believed: the *)
(* interval, and what as many samples as fit in it may have lost.          *)
THEOREM SteadyIsBelieved == Spec => []SteadyLevelsAreBelieved
<1>1. IInv => SteadyLevelsAreBelieved
  <2> SUFFICES ASSUME IInv, turn = "wait", NEW key \in Keys,
                      steady[key] > LongestUnbelieved
               PROVE  keys[key].held = level[key]
    BY DEF SteadyLevelsAreBelieved
  <2> DEFINE credit == keys[key].disagreement_milliseconds
  <2>1. level[key] # keys[key].held => steady[key] <= MayHaveLasted(credit)
    BY DEF IInv, CreditCoversSteady, Observed
  <2>2. /\ credit \in 0..(Debounce - 1) /\ steady[key] \in Nat
        /\ keys[key].held \in BOOLEAN /\ level[key] \in BOOLEAN
    BY LongSteadyIsLong DEF IInv, TypeOK, KeyStates
  <2> HIDE DEF credit
  <2>3. /\ MayHaveLasted(credit) \in Nat /\ LongestUnbelieved \in Nat
        /\ MayHaveLasted(credit) <= LongestUnbelieved
    BY <2>2, ThresholdAssumption, LastingGrows DEF LongestUnbelieved
  <2>4. QED
    BY <2>1, <2>2, <2>3
<1>2. QED
  BY <1>1, Invariance, PTL
-----------------------------------------------------------------------------
(***************************************************************************)
(* Refinement: the input model is a KeyHolds.                              *)
(***************************************************************************)

(* Nothing is held, and nothing has been reported.                         *)
LEMMA InitHolds == Init => Holds!Init
BY DEF Init, Holds!Init, Phase, IdleKey

(* An observation is a Down, a HeldLong, an Up or a Rest of the key.       *)
LEMMA ObserveHolds ==
  ASSUME IInv, NEW key \in Keys, Observe(key)
  PROVE  Holds!Next
<1> DEFINE phase == [k \in Keys |-> Phase(keys[k])]
           next == [k \in Keys |-> Phase(keys'[k])]
<1>1. /\ keys \in [Keys -> KeyStates] /\ keys' \in [Keys -> KeyStates]
      /\ keys[key] \in KeyStates /\ level[key] \in BOOLEAN
  BY ObserveEffect DEF IInv, TypeOK
<1>2. CASE Agree(key) /\ ~keys[key].held
  <2>1. /\ report' = Nothing
        /\ keys' = [keys EXCEPT ![key] = [keys[key] EXCEPT
                       !.raw_level = level[key],
                       !.disagreement_milliseconds = 0]]
    BY <1>2 DEF Agree
  <2>2. \A k \in Keys : Phase(keys'[k]) = Phase(keys[k])
    BY <1>1, <2>1 DEF Phase, KeyStates
  <2>3. next = phase
    BY <2>2
  <2>4. QED
    BY <2>1, <2>3 DEF Holds!Next, Holds!Rest
<1>3. CASE Agree(key) /\ keys[key].held
  <2> DEFINE long == keys[key].long_press_reported
                       \/ BecomesLong(keys[key], elapsed)
             state == [keys[key] EXCEPT
                         !.raw_level = level[key],
                         !.disagreement_milliseconds = 0,
                         !.held_milliseconds = HeldFor(keys[key], elapsed),
                         !.long_press_reported = long]
  <2>a. /\ report' = IF BecomesLong(keys[key], elapsed)
                     THEN <<key, "Long">> ELSE Nothing
        /\ keys' = [keys EXCEPT ![key] =
             [[keys[key] EXCEPT !.raw_level = level[key],
                                !.disagreement_milliseconds = 0] EXCEPT
                !.held_milliseconds = HeldFor(keys[key], elapsed),
                !.long_press_reported = @ \/ BecomesLong(keys[key], elapsed)]]
    BY <1>3 DEF Agree
  <2>b. state = [[keys[key] EXCEPT !.raw_level = level[key],
                                   !.disagreement_milliseconds = 0] EXCEPT
                   !.held_milliseconds = HeldFor(keys[key], elapsed),
                   !.long_press_reported = @ \/ BecomesLong(keys[key], elapsed)]
    BY <1>1 DEF KeyStates
  <2>c. /\ state.held = keys[key].held
        /\ state.overlapped_another_key = keys[key].overlapped_another_key
        /\ state.long_press_reported = long
    BY <1>1 DEF KeyStates
  <2> HIDE DEF state
  <2>d. keys'[key] = state /\ \A k \in Keys \ {key} : keys'[k] = keys[k]
    BY <1>1, <2>a, <2>b
  <2>1. /\ report' = IF BecomesLong(keys[key], elapsed)
                     THEN <<key, "Long">> ELSE Nothing
        /\ \A k \in Keys \ {key} : keys'[k] = keys[k]
        /\ keys'[key].held = keys[key].held
        /\ keys'[key].overlapped_another_key = keys[key].overlapped_another_key
        /\ keys'[key].long_press_reported = long
    BY <2>a, <2>c, <2>d
  <2>2. CASE BecomesLong(keys[key], elapsed)
    <3>1. /\ Phase(keys[key]) = "fresh" /\ Phase(keys'[key]) = "reported"
      BY <1>3, <2>1, <2>2 DEF Phase, BecomesLong
    <3>2. /\ phase[key] = "fresh"
          /\ next = [phase EXCEPT ![key] = "reported"]
      BY <2>1, <3>1
    <3>3. report' = <<key, "Long">>
      BY <2>1, <2>2
    <3>4. QED
      BY <3>2, <3>3 DEF Holds!Next, Holds!HeldLong
  <2>3. CASE ~BecomesLong(keys[key], elapsed)
    <3>1. keys[key].long_press_reported \in BOOLEAN
      BY <1>1 DEF KeyStates
    <3>2. Phase(keys'[key]) = Phase(keys[key])
      BY <2>1, <2>3, <3>1 DEF Phase
    <3>3. next = phase
      BY <2>1, <3>2
    <3>4. QED
      BY <2>1, <2>3, <3>3 DEF Holds!Next, Holds!Rest
  <2>4. QED
    BY <2>2, <2>3
<1>4. CASE Settle(key)
  <2>1. /\ report' = Nothing
        /\ keys' = [keys EXCEPT ![key] = [keys[key] EXCEPT
                       !.raw_level = level[key],
                       !.disagreement_milliseconds =
                          SettledFor(keys[key], level[key], elapsed)]]
    BY <1>4 DEF Settle
  <2>2. \A k \in Keys : Phase(keys'[k]) = Phase(keys[k])
    BY <1>1, <2>1 DEF Phase, KeyStates
  <2>3. next = phase
    BY <2>2
  <2>4. QED
    BY <2>1, <2>3 DEF Holds!Next, Holds!Rest
<1>5. CASE Believe(key) /\ level[key]
  <2> DEFINE pressed == [Fresh EXCEPT !.raw_level = TRUE]
  <2>1. /\ keys' = PressAccepted(keys, key) /\ report' = Nothing
        /\ ~keys[key].held
    BY <1>1, <1>5 DEF Believe, KeyStates
  <2>2. phase[key] = "idle"
    BY <2>1 DEF Phase
  <2>3. Phase(pressed) = "fresh" /\ pressed.held
    BY DEF Phase, Fresh, IdleKey
  <2>4. Keys = {key, Other(key)} /\ Other(key) \in Keys /\ Other(key) # key
    BY DEF Keys, Other
  <2>5. CASE keys[Other(key)].held
    <3>1. \A k \in Keys : /\ keys'[k].held
                          /\ keys'[k].overlapped_another_key
      BY <1>1, <2>1, <2>3, <2>4, <2>5, IdleAndFresh DEF PressAccepted, KeyStates
    <3>2. \A k \in Keys : Phase(keys'[k]) = "spoiled"
      BY <3>1 DEF Phase
    <3>3. Phase(keys[Other(key)]) # "idle"
      BY <2>5 DEF Phase
    <3>4. Holds!Held = {Other(key)}
      BY <2>2, <2>4, <3>3 DEF Holds!Held
    <3>5. Holds!Down(key)
      BY <2>1, <2>2, <2>4, <3>2, <3>4 DEF Holds!Down
    <3>6. QED
      BY <3>5 DEF Holds!Next
  <2>6. CASE ~keys[Other(key)].held
    <3>1. keys' = [keys EXCEPT ![key] = pressed]
      BY <2>1, <2>6 DEF PressAccepted
    <3>2. Phase(keys[Other(key)]) = "idle"
      BY <2>6 DEF Phase
    <3>3. Holds!Held = {}
      BY <2>2, <2>4, <3>2 DEF Holds!Held
    <3>4. next = [phase EXCEPT ![key] = "fresh"]
      BY <1>1, <2>3, <3>1
    <3>5. Holds!Down(key)
      BY <2>1, <2>2, <3>3, <3>4 DEF Holds!Down
    <3>6. QED
      BY <3>5 DEF Holds!Next
  <2>7. QED
    BY <2>5, <2>6
<1>6. CASE Believe(key) /\ ~level[key]
  <2>1. /\ keys' = [keys EXCEPT ![key] = IdleKey]
        /\ report' = ReleaseReport(keys[key], key)
        /\ keys[key].held
    BY <1>1, <1>6 DEF Believe, ReleaseAccepted, KeyStates
  <2>2. Phase(IdleKey) = "idle"
    BY DEF Phase, IdleKey
  <2>3. next = [phase EXCEPT ![key] = "idle"]
    BY <1>1, <2>1, <2>2
  <2>4. phase[key] # "idle"
    BY <2>1 DEF Phase
  <2>5. report' = IF phase[key] = "fresh" THEN <<key, "Short">> ELSE Nothing
    BY <2>1 DEF Phase, ReleaseReport
  <2>6. Holds!Up(key)
    BY <2>3, <2>4, <2>5 DEF Holds!Up
  <2>7. QED
    BY <2>6 DEF Holds!Next
<1>7. QED
  BY <1>1, <1>2, <1>3, <1>4, <1>5, <1>6 DEF Observe

(* A hold is reported at most once, and never when it was part of a chord: *)
(* the input model, whatever its levels and its clock do, does what        *)
(* KeyHolds promises.                                                      *)
THEOREM InputImplementsHolds == Spec => ReportsOncePerHold
<1>1. IInv /\ [Next]_vars => [Holds!Next]_(Holds!vars)
  <2> SUFFICES ASSUME IInv, [Next]_vars PROVE [Holds!Next]_(Holds!vars)
    OBVIOUS
  <2>1. ASSUME NEW e \in Rounds, NEW changed \in SUBSET Keys,
               NEW ago \in [changed -> 0..e], Wait(e, changed, ago)
        PROVE  Holds!Next
    BY <2>1 DEF Wait, Holds!Next, Holds!Rest
  <2>2. ASSUME NEW key \in Keys, Observe(key)
        PROVE  Holds!Next
    BY <2>2, ObserveHolds
  <2>3. CASE UNCHANGED vars
    BY <2>3 DEF vars, Holds!vars
  <2>4. QED
    BY <2>1, <2>2, <2>3 DEF Next
<1>2. QED
  BY <1>1, InitHolds, Invariance, PTL DEF Spec, ReportsOncePerHold, Holds!Spec
=============================================================================
