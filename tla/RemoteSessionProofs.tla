------------------------ MODULE RemoteSessionProofs ------------------------
(***************************************************************************)
(* Theorems about RemoteSessionCalls: the inductive invariant is that the  *)
(* session is Safe (RemoteSessionLemmas) and that its line assembler       *)
(* follows the host's stream.  What is said of every press, and of what    *)
(* waits, is a property of steps and rests on the same invariant.          *)
(***************************************************************************)
EXTENDS RemoteSessionCalls, RemoteSessionLemmas, FiniteSetTheorems,
        SequenceTheorems

(* What the assembler holds is what the host has begun and not ended.      *)
AssemblerFollowsHost ==
    /\ written \in Seq(Records)
    /\ Len(written) <= 2
    /\ Len(session.inbound) = Len(written)
    /\ \A i \in 1..Len(written) : session.inbound[i] = FrontHalf(written[i])

IInv == Safe(session) /\ AssemblerFollowsHost

(* The initial state satisfies the inductive invariant. *)
LEMMA InitIInv == Init => IInv
<1> SUFFICES ASSUME Init PROVE IInv
  OBVIOUS
<1>1. Safe(session)
  BY InitialSessionSafe DEF Init
<1>2. session.inbound = <<>> /\ written = <<>>
  BY DEF Init, InitialSession
<1>3. AssemblerFollowsHost
  BY <1>2, EmptyIsSeq DEF AssemblerFollowsHost
<1>4. QED
  BY <1>1, <1>3 DEF IInv

(* Calls that leave the assembler and the host's line as they are.         *)
LEMMA InboundUnchanged ==
  ASSUME AssemblerFollowsHost,
         session'.inbound = session.inbound, UNCHANGED written
  PROVE  AssemblerFollowsHost'
BY DEF AssemblerFollowsHost

(* Calls that leave both with nothing.                                     *)
LEMMA InboundEmptied ==
  ASSUME session'.inbound = <<>>, written' = <<>>
  PROVE  AssemblerFollowsHost'
<1>1. written' \in Seq(Records) /\ Len(written') = 0
  BY EmptyIsSeq
<1>2. Len(session'.inbound) = 0
  OBVIOUS
<1>3. QED
  BY <1>1, <1>2 DEF AssemblerFollowsHost

(* Every call preserves the inductive invariant, one case per action. *)
LEMMA NextIInv == IInv /\ [Next]_vars => IInv'
<1> SUFFICES ASSUME IInv, [Next]_vars PROVE IInv'
  OBVIOUS
<1>0. Safe(session) /\ AssemblerFollowsHost
  BY DEF IInv
<1>a. SUFFICES Safe(session') /\ AssemblerFollowsHost'
  BY DEF IInv, Safe, Typed, HoldsNothingUnlinked, QueuesHelloFirst
<1>1. CASE Open
  BY <1>0, <1>1, PortOpenedSafe, InboundEmptied DEF Open
<1>2. CASE Close
  BY <1>0, <1>2, PortClosedSafe, InboundEmptied DEF Close
<1>3. ASSUME NEW elapsed \in 0..MaxElapsed, Pass(elapsed)
      PROVE  Safe(session') /\ AssemblerFollowsHost'
  <2>1. elapsed \in Nat
    BY RetryAssumption
  <2>2. QED
    BY <1>0, <1>3, <2>1, TickSafe, InboundUnchanged DEF Pass
<1>4. ASSUME NEW record \in Records, Begin(record)
      PROVE  Safe(session') /\ AssemblerFollowsHost'
  <2>1. record \in DisplayRecords
    BY RecordAssumption
  <2>2. /\ session' = ReceiveFront(session, record)
        /\ written' = Append(written, record)
        /\ Len(written) < 2
    BY <1>4 DEF Begin
  <2>3. /\ written \in Seq(Records)
        /\ session.inbound \in Seq(FrontHalves)
        /\ Len(session.inbound) = Len(written)
    BY <1>0 DEF AssemblerFollowsHost, Safe, Typed, Sessions
  <2>4. /\ Safe(session')
        /\ session'.inbound = Append(session.inbound, FrontHalf(record))
    BY <1>0, <2>1, <2>2, <2>3, ReceiveFrontSafe
  <2>5. /\ written' \in Seq(Records)
        /\ Len(written') = Len(written) + 1
        /\ Len(session'.inbound) = Len(written')
    BY <2>2, <2>3, <2>4
  <2>6. ASSUME NEW i \in 1..Len(written')
        PROVE  session'.inbound[i] = FrontHalf(written'[i])
    <3>1. CASE i = Len(written) + 1
      BY <2>2, <2>3, <2>4, <3>1
    <3>2. CASE i \in 1..Len(written)
      <4>1. written'[i] = written[i] /\ session'.inbound[i] = session.inbound[i]
        BY <2>2, <2>3, <2>4, <3>2
      <4>2. QED
        BY <1>0, <3>2, <4>1 DEF AssemblerFollowsHost
    <3>3. QED
      BY <2>3, <2>5, <3>1, <3>2
  <2>7. QED
    BY <2>2, <2>3, <2>4, <2>5, <2>6 DEF AssemblerFollowsHost
<1>5. CASE Finish
  <2>1. written[Len(written)] \in DisplayRecords
    BY <1>0, <1>5, RecordAssumption DEF Finish, AssemblerFollowsHost
  <2>2. QED
    BY <1>0, <1>5, <2>1, ReceiveBackSafe, InboundEmptied DEF Finish
<1>6. CASE Noise
  BY <1>0, <1>6, ReceiveOtherSafe, InboundEmptied DEF Noise
<1>7. ASSUME NEW key \in Keys, NEW kind \in PressKinds, Press(key, kind)
      PROVE  Safe(session') /\ AssemblerFollowsHost'
  BY <1>0, <1>7, ReportPressSafe, InboundUnchanged DEF Press
<1>8. ASSUME NEW n \in 1..QueueDepth, Drain(n)
      PROVE  Safe(session') /\ AssemblerFollowsHost'
  BY <1>0, <1>8, TakeOutputSafe, InboundUnchanged DEF Drain
<1>9. CASE UNCHANGED vars
  BY <1>0, <1>9, InboundUnchanged DEF vars
<1>10. QED
  BY <1>1, <1>2, <1>3, <1>4, <1>5, <1>6, <1>7, <1>8, <1>9 DEF Next

(* After any calls in any order the session is safe and its assembler holds
   what the host has begun. *)
THEOREM Invariance == Spec => []IInv
BY InitIInv, NextIInv, PTL DEF Spec

(* For any queue depth, retry interval and set of records: the session     *)
(* stays in its type, the queue within its depth and the retry clock below *)
(* the interval.                                                           *)
THEOREM TypeCorrect == Spec => []TypeOK
<1>1. IInv => TypeOK
  BY DEF IInv, Safe, Typed, AssemblerFollowsHost, TypeOK
<1>2. QED
  BY <1>1, Invariance, PTL

(* A record and a press never outlive the link they belong to.             *)
THEOREM LinkIsForgotten == Spec => []NothingOutlivesTheLink
<1>1. IInv => NothingOutlivesTheLink
  BY DEF IInv, Safe, NothingOutlivesTheLink
<1>2. QED
  BY <1>1, Invariance, PTL

(* HELLO is first in the queue, so there is at most one.                   *)
THEOREM HelloIsFirst == Spec => []HelloLeads
<1>1. IInv => HelloLeads
  BY DEF IInv, Safe, HelloLeads
<1>2. QED
  BY <1>1, Invariance, PTL

(* A whole record is heard as it was sent, whatever was cut before it.     *)
THEOREM WholeRecordsAreHeard == Spec => RecordIsHeard
<1>1. ASSUME IInv, NEW record \in Records, Finish, written = <<record>>
      PROVE  \/ /\ session'.link_state = "Connected"
                /\ session'.current_display = record
             \/ /\ session'.link_state = "Incompatible"
                /\ record.error = "BAD_VERSION"
  <2> DEFINE s == [session EXCEPT !.inbound = <<>>]
             c == Count(s, "version_mismatches")
  <2>1. record \in DisplayRecords
    BY RecordAssumption
  <2>2. /\ Len(session.inbound) = 1
        /\ session.inbound[1] = FrontHalf(record)
    BY <1>1 DEF IInv, AssemblerFollowsHost
  <2>3. session' = HandleDisplay(s, record)
    BY <1>1, <2>1, <2>2, HalvesTypes DEF Finish, ReceiveBack
  <2>4. Safe(s)
    BY <1>1, EmptiedSafe DEF IInv
  <2> HIDE DEF s
  <2>5. CASE s.link_state # "Connected" /\ record.error = "BAD_VERSION"
    <3>1. session' = [c EXCEPT !.link_state = "Incompatible"]
      BY <2>3, <2>5 DEF HandleDisplay
    <3>2. c \in Sessions
      BY <2>4, CountType DEF Safe, Typed, CounterNames
    <3> HIDE DEF c
    <3>3. session'.link_state = "Incompatible"
      BY <3>1, <3>2 DEF Sessions
    <3>4. QED
      BY <2>5, <3>3
  <2>6. CASE ~(s.link_state # "Connected" /\ record.error = "BAD_VERSION")
    <3>1. session' = [s EXCEPT !.current_display = record,
                               !.link_state = "Connected"]
      BY <2>3, <2>6 DEF HandleDisplay
    <3>2. QED
      BY <2>4, <3>1 DEF Safe, Typed, Sessions
  <2>7. QED
    BY <2>5, <2>6
<1>2. IInv /\ [Next]_vars =>
        [\A record \in Records :
           Finish /\ written = <<record>> =>
             \/ /\ session'.link_state = "Connected"
                /\ session'.current_display = record
             \/ /\ session'.link_state = "Incompatible"
                /\ record.error = "BAD_VERSION"]_vars
  BY <1>1
<1>3. QED
  BY <1>2, Invariance, PTL DEF Spec, RecordIsHeard

(* A counter that counts one thing shows it, where it can hold more than   *)
(* one value: the 32 bits of the code, or any width from one.              *)
LEMMA CountShows ==
  ASSUME CounterModulus > 1, NEW s \in Sessions, NEW name \in CounterNames
  PROVE  Cardinality({other \in CounterNames :
           Count(s, name).counters[other] # s.counters[other]}) = 1
<1> DEFINE c == s.counters[name]
           n == (c + 1) % CounterModulus
           changed == {other \in CounterNames :
                         Count(s, name).counters[other] # s.counters[other]}
<1>1. c \in 0..(CounterModulus - 1)
  BY DEF Sessions
<1>2. Count(s, name).counters = [s.counters EXCEPT ![name] = n]
  BY DEF Count, Sessions
<1>3. \A other \in CounterNames :
        Count(s, name).counters[other] = IF other = name THEN n ELSE s.counters[other]
  BY <1>2 DEF Sessions
<1>4. n # c
  <2> HIDE DEF c
  <2>1. CounterModulus \in Nat /\ c \in Nat /\ c < CounterModulus
    BY <1>1, CounterAssumption
  <2>2. CASE c + 1 < CounterModulus
    BY <2>1, <2>2
  <2>3. CASE c + 1 = CounterModulus
    BY <2>1, <2>3
  <2>4. QED
    BY <2>1, <2>2, <2>3
<1> HIDE DEF n
<1>5. changed = {name}
  BY <1>3, <1>4
<1> HIDE DEF changed
<1>6. Cardinality(changed) = 1
  BY <1>5, FS_Singleton
<1>7. QED
  BY <1>6 DEF changed

(* What a press does, in any state: its event is the last of those that    *)
(* wait, or one counter has gone up.                                       *)
LEMMA PressIsAccountedFor ==
  ASSUME CounterModulus > 1, NEW s, Safe(s), NEW key \in Keys, NEW kind \in PressKinds,
         ~Reserved(key, kind)
  PROVE  LET after == ReportPress(s, key, kind)
         IN  \/ /\ after.output = Append(s.output, WireEvent(s, key, kind))
                /\ after.counters = s.counters
             \/ /\ after.output = s.output
                /\ Cardinality({name \in CounterNames :
                     after.counters[name] # s.counters[name]}) = 1
<1>0. s \in Sessions
  BY DEF Safe, Typed
<1>1. ASSUME NEW dropped \in CounterNames, ReportPress(s, key, kind) = Count(s, dropped)
      PROVE  /\ ReportPress(s, key, kind).output = s.output
             /\ Cardinality({name \in CounterNames :
                  ReportPress(s, key, kind).counters[name] # s.counters[name]}) = 1
  BY <1>0, <1>1, CountSafe, CountShows
<1>2. CASE s.link_state # "Connected"
  <2>1. ReportPress(s, key, kind) = Count(s, "events_dropped_no_link")
    BY <1>2 DEF ReportPress
  <2>2. QED
    BY <1>1, <2>1 DEF CounterNames
<1>3. CASE s.link_state = "Connected" /\ ~CanQueue(s)
  <2>1. ReportPress(s, key, kind) = Count(s, "events_dropped_by_output_full")
    BY <1>3 DEF ReportPress
  <2>2. QED
    BY <1>1, <2>1 DEF CounterNames
<1>4. CASE s.link_state = "Connected" /\ CanQueue(s)
  <2>1. ReportPress(s, key, kind) = QueueLine(s, WireEvent(s, key, kind))
    BY <1>4 DEF ReportPress
  <2> DEFINE event == WireEvent(s, key, kind)
  <2> HIDE DEF event
  <2>2. /\ QueueLine(s, event).output = Append(s.output, event)
        /\ QueueLine(s, event).counters = s.counters
    BY <1>0 DEF QueueLine, Sessions
  <2>3. QED
    BY <2>1, <2>2 DEF event
<1>5. QED
  BY <1>2, <1>3, <1>4

(* No call loses a press that waits: while the link stays up, what waited  *)
(* is still in front, but for what the transport took.                     *)
LEMMA WhatWaitsIsKept ==
  ASSUME IInv, Next,
         session.link_state = "Connected", session'.link_state = "Connected",
         ~\E n \in 1..QueueDepth : Drain(n)
  PROVE  SubSeq(session'.output, 1, Len(session.output)) = session.output
<1>0. Safe(session) /\ session.output \in Seq(OutboundLines)
  BY DEF IInv, Safe, Typed, Sessions
<1>a. ASSUME session'.output = session.output
      PROVE  SubSeq(session'.output, 1, Len(session.output)) = session.output
  BY <1>0, <1>a
<1>1. CASE Open
  BY <1>0, <1>1, PortOpenedEffect DEF Open
<1>2. CASE Close
  BY <1>0, <1>2, PortClosedEffect DEF Close
<1>3. ASSUME NEW elapsed \in 0..MaxElapsed, Pass(elapsed)
      PROVE  session'.output = session.output
  <2>1. elapsed \in Nat
    BY RetryAssumption
  <2>2. QED
    BY <1>0, <1>3, <2>1, TickEffect DEF Pass
<1>4. ASSUME NEW record \in Records, Begin(record)
      PROVE  session'.output = session.output
  <2>1. record \in DisplayRecords
    BY RecordAssumption
  <2>2. QED
    BY <1>0, <1>4, <2>1, ReceivePartialEffect DEF Begin
<1>5. CASE Finish
  <2>1. written[Len(written)] \in DisplayRecords
    BY <1>5, RecordAssumption DEF Finish, IInv, AssemblerFollowsHost
  <2>2. session'.output = session.output
    BY <1>0, <1>5, <2>1, ReceiveBackKeepsOutput DEF Finish
  <2>3. QED
    BY <1>a, <2>2
<1>6. CASE Noise
  BY <1>0, <1>a, <1>6, ReceiveNoiseEffect DEF Noise
<1>7. ASSUME NEW key \in Keys, NEW kind \in PressKinds, Press(key, kind)
      PROVE  SubSeq(session'.output, 1, Len(session.output)) = session.output
  <2>1. \/ session'.output = session.output
        \/ \E event \in Events : session'.output = Append(session.output, event)
    BY <1>0, <1>7, ReportPressEffect DEF Press
  <2>2. ASSUME NEW event \in Events, session'.output = Append(session.output, event)
        PROVE  SubSeq(session'.output, 1, Len(session.output)) = session.output
    <3> DEFINE o == session.output
               u == SubSeq(Append(o, event), 1, Len(o))
    <3>1. event \in OutboundLines
      BY DEF OutboundLines
    <3>2. /\ u \in Seq(OutboundLines) /\ Len(u) = Len(o)
          /\ \A i \in 1..Len(o) : u[i] = o[i]
      BY <1>0, <3>1
    <3> HIDE DEF u
    <3>3. u = o
      BY <1>0, <3>2, SeqEqual
    <3>4. QED
      BY <2>2, <3>3 DEF u
  <2>3. QED
    BY <1>a, <2>1, <2>2
<1>8. QED
  BY <1>a, <1>1, <1>2, <1>3, <1>4, <1>5, <1>6, <1>7 DEF Next

(* Every press that means something is sent or counted, and none that      *)
(* waits is lost, whatever calls come in whatever order, for every depth   *)
(* of the queue.  A counter of a single value would count nothing: the     *)
(* code's have 32 bits.                                                    *)
THEOREM PressesAccountedFor ==
  ASSUME CounterModulus > 1
  PROVE  Spec => PressesAreAccountedFor
<1> DEFINE Accounted ==
      \A key \in Keys, kind \in PressKinds :
         LET after == ReportPress(session, key, kind)
         IN  ~Reserved(key, kind) =>
               \/ /\ after.output =
                       Append(session.output, WireEvent(session, key, kind))
                  /\ after.counters = session.counters
               \/ /\ after.output = session.output
                  /\ Cardinality({name \in CounterNames :
                       after.counters[name] # session.counters[name]}) = 1
           Kept ==
      session.link_state = "Connected" /\ session'.link_state = "Connected" =>
         \/ \E n \in 1..QueueDepth : Drain(n)
         \/ SubSeq(session'.output, 1, Len(session.output)) = session.output
<1>1. IInv => Accounted
  BY PressIsAccountedFor DEF IInv
<1>2. IInv /\ Next => Kept
  BY WhatWaitsIsKept
<1> HIDE DEF Accounted, Kept
<1>3. IInv /\ [Next]_vars => [Accounted /\ Kept]_vars
  BY <1>1, <1>2
<1> USE DEF Accounted, Kept
<1>4. QED
  BY <1>3, Invariance, PTL DEF Spec, PressesAreAccountedFor
=============================================================================
