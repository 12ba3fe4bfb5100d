------------------------ MODULE RemoteSessionLemmas ------------------------
(***************************************************************************)
(* Lemmas about RemoteSession.  What the invariants say of a session is  *)
(* collected in Safe(s), and every operator of the session is shown to     *)
(* preserve it: a caller that composes the operators in one step inherits  *)
(* the lemmas.                                                             *)
(***************************************************************************)
EXTENDS RemoteSession, TLAPS

(* The empty sequence is a sequence of anything: an empty queue or assembler. *)
LEMMA EmptyIsSeq == ASSUME NEW S PROVE <<>> \in Seq(S)
OBVIOUS

(* A session in its ranges that holds nothing of a link it does not have,  *)
(* with at most one HELLO waiting.  It is its own strengthening: the two   *)
(* parts together bound what waits outside a connection to one line.       *)
Typed(s) ==
    /\ s \in Sessions
    /\ Len(s.inbound) <= 2
    /\ Len(s.output) <= QueueDepth

Safe(s) == Typed(s) /\ HoldsNothingUnlinked(s) /\ QueuesHelloFirst(s)

(* The record a session starts with, and goes back to, is a record. *)
LEMMA BlankRecordType == BlankRecord \in DisplayRecords
BY PayloadAssumption, CountAssumption
DEF BlankRecord, DisplayRecords, Statuses, Pages, Errors

(* remote_session_initialise leaves a safe session. *)
LEMMA InitialSessionSafe == Safe(InitialSession)
<1>1. InitialSession \in Sessions
  BY BlankRecordType, RetryAssumption, CounterAssumption
  DEF InitialSession, Sessions, LinkStates
<1>2. QED
  BY <1>1, QueueAssumption
  DEF InitialSession, Safe, Typed, HoldsNothingUnlinked, QueuesHelloFirst

(* Counting touches one counter and keeps it within its width. *)
LEMMA CountType ==
  ASSUME NEW s \in Sessions, NEW name \in CounterNames
  PROVE  /\ Count(s, name) \in Sessions
         /\ Count(s, name) = [s EXCEPT !.counters = Count(s, name).counters]
<1> DEFINE n == (s.counters[name] + 1) % CounterModulus
<1>1. n \in 0..(CounterModulus - 1)
  BY CounterAssumption DEF Sessions
<1>2. [s.counters EXCEPT ![name] = n] \in
        [CounterNames -> 0..(CounterModulus - 1)]
  BY <1>1 DEF Sessions
<1>3. Count(s, name) = [s EXCEPT !.counters = [s.counters EXCEPT ![name] = n]]
  BY DEF Count, Sessions
<1>4. QED
  BY <1>2, <1>3 DEF Sessions

(* Counting keeps a session safe and changes nothing but its counters. *)
LEMMA CountSafe ==
  ASSUME NEW s, Safe(s), NEW name \in CounterNames
  PROVE  /\ Safe(Count(s, name))
         /\ Count(s, name).link_state = s.link_state
         /\ Count(s, name).output = s.output
         /\ Count(s, name).inbound = s.inbound
         /\ Count(s, name).current_display = s.current_display
         /\ Count(s, name).handshake_elapsed = s.handshake_elapsed
<1>1. s \in Sessions
  BY DEF Safe, Typed
<1>2. /\ Count(s, name) \in Sessions
      /\ Count(s, name) = [s EXCEPT !.counters = Count(s, name).counters]
  BY <1>1, CountType
<1> HIDE DEF Count
<1>3. QED
  BY <1>1, <1>2 DEF Safe, Typed, HoldsNothingUnlinked, QueuesHelloFirst, Sessions

(* A press is queued only while connected; HELLO only into an empty queue. *)
LEMMA QueueLineSafe ==
  ASSUME NEW s, Safe(s), CanQueue(s), NEW line \in OutboundLines,
         IF line = Hello THEN s.output = <<>> ELSE s.link_state = "Connected"
  PROVE  Safe(QueueLine(s, line))
<1> DEFINE t == QueueLine(s, line)
<1>1. s \in Sessions /\ s.output \in Seq(OutboundLines)
  BY DEF Safe, Typed, Sessions
<1>2. /\ Append(s.output, line) \in Seq(OutboundLines)
      /\ Len(Append(s.output, line)) = Len(s.output) + 1
      /\ DOMAIN Append(s.output, line) = 1..(Len(s.output) + 1)
      /\ \A i \in 1..Len(s.output) : Append(s.output, line)[i] = s.output[i]
      /\ Append(s.output, line)[Len(s.output) + 1] = line
  BY <1>1
<1>3. /\ t \in Sessions
      /\ t.output = Append(s.output, line)
      /\ t.link_state = s.link_state
      /\ t.inbound = s.inbound
      /\ t.current_display = s.current_display
  BY <1>1, <1>2 DEF QueueLine, Sessions
<1>4. Typed(t)
  BY <1>1, <1>2, <1>3, QueueAssumption DEF Typed, Safe, CanQueue
<1> HIDE DEF t
<1>5. HoldsNothingUnlinked(t)
  <2>1. CASE line = Hello
    <3>1. \A i \in DOMAIN t.output : t.output[i] = Hello
      BY <2>1, <1>2, <1>3
    <3>2. QED
      BY <3>1, <1>3 DEF HoldsNothingUnlinked, Safe
  <2>2. CASE line # Hello
    BY <2>2, <1>3 DEF HoldsNothingUnlinked
  <2>3. QED
    BY <2>1, <2>2
<1>6. QueuesHelloFirst(t)
  <2>1. CASE line = Hello
    BY <2>1, <1>2, <1>3 DEF QueuesHelloFirst
  <2>2. CASE line # Hello
    BY <2>2, <1>1, <1>2, <1>3 DEF QueuesHelloFirst, Safe
  <2>3. QED
    BY <2>1, <2>2
<1>7. Safe(t)
  BY <1>4, <1>5, <1>6 DEF Safe
<1>8. QED
  BY <1>7 DEF t

(* Where the queue is empty, HELLO always fits. *)
LEMMA SendHelloSafe ==
  ASSUME NEW s, Safe(s), s.output = <<>>
  PROVE  /\ Safe(SendHello(s))
         /\ SendHello(s) = [s EXCEPT !.output = <<Hello>>]
<1>1. CanQueue(s)
  BY QueueAssumption DEF CanQueue
<1>2. SendHello(s) = QueueLine(s, Hello)
  BY <1>1 DEF SendHello
<1>3. Safe(QueueLine(s, Hello))
  BY <1>1, QueueLineSafe DEF OutboundLines
<1>4. QueueLine(s, Hello) = [s EXCEPT !.output = <<Hello>>]
  BY DEF QueueLine
<1>5. QED
  BY <1>2, <1>3, <1>4

(* What is left when a link comes up or goes down is safe in any state. *)
LEMMA ForgetSafe ==
  ASSUME NEW s, Safe(s), NEW state \in LinkStates
  PROVE  LET t == [Forget(s) EXCEPT !.link_state = state]
         IN  Safe(t) /\ t.output = <<>> /\ t.link_state = state
<1> DEFINE t == [Forget(s) EXCEPT !.link_state = state]
<1>1. s \in Sessions
  BY DEF Safe, Typed
<1>2. /\ t \in Sessions
      /\ t.output = <<>> /\ t.inbound = <<>>
      /\ t.current_display = BlankRecord
      /\ t.link_state = state
  BY <1>1, BlankRecordType, EmptyIsSeq DEF Forget, ClearOutput, Sessions
<1> HIDE DEF t
<1>3. Safe(t)
  BY <1>2, QueueAssumption DEF Safe, Typed, HoldsNothingUnlinked, QueuesHelloFirst
<1>4. QED
  BY <1>2, <1>3 DEF t

(* clear_output keeps a session safe and leaves an empty queue. *)
LEMMA ClearOutputSafe ==
  ASSUME NEW s, Safe(s)
  PROVE  Safe(ClearOutput(s)) /\ ClearOutput(s).output = <<>>
<1>1. s \in Sessions
  BY DEF Safe, Typed
<1>2. /\ ClearOutput(s) \in Sessions
      /\ ClearOutput(s).output = <<>>
      /\ ClearOutput(s).inbound = s.inbound
      /\ ClearOutput(s).current_display = s.current_display
      /\ ClearOutput(s).link_state = s.link_state
  BY <1>1, EmptyIsSeq DEF ClearOutput, Sessions
<1>3. QED
  BY <1>2, QueueAssumption
  DEF Safe, Typed, HoldsNothingUnlinked, QueuesHelloFirst

(* The retry clock may start again from zero. *)
LEMMA ZeroElapsed == 0 \in 0..(RetryInterval - 1)
BY RetryAssumption

(* Moving the retry clock within its interval keeps a session safe. *)
LEMMA ElapsedSafe ==
  ASSUME NEW s, Safe(s), NEW n \in 0..(RetryInterval - 1)
  PROVE  LET t == [s EXCEPT !.handshake_elapsed = n]
         IN  /\ Safe(t)
             /\ t.output = s.output
             /\ t.inbound = s.inbound
             /\ t.link_state = s.link_state
<1> DEFINE t == [s EXCEPT !.handshake_elapsed = n]
<1>1. s \in Sessions
  BY DEF Safe, Typed
<1>2. /\ t \in Sessions
      /\ t.output = s.output /\ t.inbound = s.inbound
      /\ t.current_display = s.current_display
      /\ t.link_state = s.link_state
  BY <1>1 DEF Sessions
<1> HIDE DEF t
<1>3. Safe(t)
  BY <1>2 DEF Safe, Typed, HoldsNothingUnlinked, QueuesHelloFirst
<1>4. QED
  BY <1>2, <1>3 DEF t
-----------------------------------------------------------------------------
(***************************************************************************)
(* Every call keeps a session safe.                                        *)
(***************************************************************************)

(* port_opened keeps a session safe and empties its assembler. *)
LEMMA PortOpenedSafe ==
  ASSUME NEW s, Safe(s)
  PROVE  Safe(PortOpened(s)) /\ PortOpened(s).inbound = <<>>
<1> DEFINE t == [Forget(s) EXCEPT !.link_state = "Handshaking"]
           u == [t EXCEPT !.handshake_elapsed = 0]
<1>1. Safe(t) /\ t.output = <<>>
  BY ForgetSafe DEF LinkStates
<1>2. Safe(u) /\ u.output = <<>>
  BY <1>1, ElapsedSafe, ZeroElapsed
<1>3. PortOpened(s) = SendHello(u)
  BY DEF PortOpened
<1>4. Safe(SendHello(u)) /\ SendHello(u) = [u EXCEPT !.output = <<Hello>>]
  BY <1>2, SendHelloSafe
<1>5. u.inbound = <<>>
  BY DEF Forget, ClearOutput, Safe, Typed, Sessions
<1> HIDE DEF t, u
<1>6. SendHello(u).inbound = <<>>
  BY <1>2, <1>4, <1>5 DEF Safe, Typed, Sessions
<1>7. QED
  BY <1>3, <1>4, <1>6

(* port_closed keeps a session safe and empties its assembler. *)
LEMMA PortClosedSafe ==
  ASSUME NEW s, Safe(s)
  PROVE  Safe(PortClosed(s)) /\ PortClosed(s).inbound = <<>>
<1> DEFINE c == IF s.link_state = "LinkDown" THEN s ELSE Count(s, "reconnections")
           t == [Forget(c) EXCEPT !.link_state = "LinkDown"]
<1>1. Safe(c)
  BY CountSafe DEF CounterNames
<1>2. PortClosed(s) = t
  BY DEF PortClosed
<1> HIDE DEF c
<1>3. Safe(t)
  BY <1>1, ForgetSafe DEF LinkStates
<1>4. t.inbound = <<>>
  BY <1>1 DEF Forget, ClearOutput, Safe, Typed, Sessions
<1>5. QED
  BY <1>2, <1>3, <1>4

(* tick keeps a session safe, retry or not, and leaves its assembler alone. *)
LEMMA TickSafe ==
  ASSUME NEW s, Safe(s), NEW elapsed \in Nat
  PROVE  Safe(Tick(s, elapsed)) /\ Tick(s, elapsed).inbound = s.inbound
<1> DEFINE waited == s.handshake_elapsed + elapsed
           c == Count(s, "handshake_retries")
           r == [c EXCEPT !.handshake_elapsed = 0]
<1>0. s \in Sessions
  BY DEF Safe, Typed
<1>1. CASE s.link_state # "Handshaking"
  <2>1. Tick(s, elapsed) = [s EXCEPT !.handshake_elapsed = 0]
    BY <1>1 DEF Tick
  <2>2. QED
    BY <2>1, ElapsedSafe, ZeroElapsed
<1>2. CASE s.link_state = "Handshaking" /\ waited < RetryInterval
  <2>1. Tick(s, elapsed) = [s EXCEPT !.handshake_elapsed = waited]
    BY <1>2 DEF Tick
  <2>2. waited \in 0..(RetryInterval - 1)
    BY <1>0, <1>2, RetryAssumption DEF Sessions
  <2> HIDE DEF waited
  <2>3. QED
    BY <2>1, <2>2, ElapsedSafe
<1>3. CASE s.link_state = "Handshaking" /\ ~(waited < RetryInterval)
  <2>1. Tick(s, elapsed) = SendHello(ClearOutput(r))
    BY <1>3 DEF Tick
  <2>2. Safe(c) /\ c.inbound = s.inbound
    BY CountSafe DEF CounterNames
  <2> HIDE DEF c
  <2>3. Safe(r) /\ r.inbound = s.inbound
    BY <2>2, ElapsedSafe, ZeroElapsed
  <2> HIDE DEF r
  <2>4. /\ Safe(ClearOutput(r))
        /\ ClearOutput(r).output = <<>>
        /\ ClearOutput(r).inbound = s.inbound
    BY <2>3, ClearOutputSafe DEF ClearOutput, Safe, Typed, Sessions
  <2>5. /\ Safe(SendHello(ClearOutput(r)))
        /\ SendHello(ClearOutput(r)) = [ClearOutput(r) EXCEPT !.output = <<Hello>>]
    BY <2>4, SendHelloSafe
  <2>6. SendHello(ClearOutput(r)).inbound = s.inbound
    BY <2>4, <2>5 DEF Safe, Typed, Sessions
  <2>7. QED
    BY <2>1, <2>5, <2>6
<1>4. QED
  BY <1>1, <1>2, <1>3

(* The one place a record enters: a refusal outside a connection leaves    *)
(* the record alone, everything else connects.                             *)
LEMMA HandleDisplaySafe ==
  ASSUME NEW s, Safe(s), NEW record \in DisplayRecords
  PROVE  /\ Safe(HandleDisplay(s, record))
         /\ HandleDisplay(s, record).inbound = s.inbound
         /\ HandleDisplay(s, record).output = s.output
<1> DEFINE c == Count(s, "version_mismatches")
           t == HandleDisplay(s, record)
<1>1. CASE s.link_state # "Connected" /\ record.error = "BAD_VERSION"
  <2>1. t = [c EXCEPT !.link_state = "Incompatible"]
    BY <1>1 DEF HandleDisplay
  <2>2. /\ Safe(c) /\ c.link_state = s.link_state
        /\ c.inbound = s.inbound /\ c.output = s.output
    BY CountSafe DEF CounterNames
  <2> HIDE DEF c
  <2>3. /\ t \in Sessions
        /\ t.inbound = c.inbound /\ t.output = c.output
        /\ t.current_display = c.current_display
        /\ t.link_state = "Incompatible"
    BY <2>1, <2>2 DEF Safe, Typed, Sessions, LinkStates
  <2> HIDE DEF t
  <2>4. Safe(t)
    BY <1>1, <2>2, <2>3 DEF Safe, Typed, HoldsNothingUnlinked, QueuesHelloFirst
  <2>5. QED
    BY <2>2, <2>3, <2>4 DEF t
<1>2. CASE ~(s.link_state # "Connected" /\ record.error = "BAD_VERSION")
  <2>1. t = [s EXCEPT !.current_display = record, !.link_state = "Connected"]
    BY <1>2 DEF HandleDisplay
  <2>2. /\ t \in Sessions
        /\ t.inbound = s.inbound /\ t.output = s.output
        /\ t.link_state = "Connected"
    BY <2>1 DEF Safe, Typed, Sessions, LinkStates
  <2> HIDE DEF t
  <2>3. Safe(t)
    BY <2>2 DEF Safe, Typed, HoldsNothingUnlinked, QueuesHelloFirst
  <2>4. QED
    BY <2>2, <2>3 DEF t
<1>3. QED
  BY <1>1, <1>2

(* What the assembler holds does not matter to the safety of a session. *)
LEMMA InboundSafe ==
  ASSUME NEW s, Safe(s), NEW halves \in Seq(FrontHalves), Len(halves) <= 2
  PROVE  LET t == [s EXCEPT !.inbound = halves]
         IN  Safe(t) /\ t.inbound = halves
<1> DEFINE t == [s EXCEPT !.inbound = halves]
<1>1. /\ t \in Sessions
      /\ t.output = s.output /\ t.inbound = halves
      /\ t.current_display = s.current_display
      /\ t.link_state = s.link_state
  BY DEF Safe, Typed, Sessions
<1> HIDE DEF t
<1>2. Safe(t)
  BY <1>1 DEF Safe, Typed, HoldsNothingUnlinked, QueuesHelloFirst
<1>3. QED
  BY <1>1, <1>2 DEF t

(* The halves of a record are halves, and joined they are the record again. *)
LEMMA HalvesTypes ==
  ASSUME NEW record \in DisplayRecords
  PROVE  /\ FrontHalf(record) \in FrontHalves
         /\ \A front \in FrontHalves :
              JoinHalves(front, record) \in DisplayRecords
         /\ JoinHalves(FrontHalf(record), record) = record
BY DEF FrontHalf, FrontHalves, JoinHalves, DisplayRecords

(* The first half of a line is kept, and the session stays safe. *)
LEMMA ReceiveFrontSafe ==
  ASSUME NEW s, Safe(s), NEW record \in DisplayRecords
  PROVE  LET t == ReceiveFront(s, record)
         IN  /\ Safe(t)
             /\ t.inbound = IF Len(s.inbound) < 2
                            THEN Append(s.inbound, FrontHalf(record))
                            ELSE s.inbound
<1> DEFINE halves == IF Len(s.inbound) < 2
                     THEN Append(s.inbound, FrontHalf(record)) ELSE s.inbound
<1>1. s \in Sessions /\ s.inbound \in Seq(FrontHalves) /\ Len(s.inbound) <= 2
  BY DEF Safe, Typed, Sessions
<1>2. ReceiveFront(s, record) = [s EXCEPT !.inbound = halves]
  BY <1>1 DEF ReceiveFront, Sessions
<1>3. halves \in Seq(FrontHalves) /\ Len(halves) <= 2
  BY <1>1, HalvesTypes
<1> HIDE DEF halves
<1>4. Safe(ReceiveFront(s, record)) /\ ReceiveFront(s, record).inbound = halves
  BY <1>2, <1>3, InboundSafe
<1>5. QED
  BY <1>4 DEF halves

(* The assembler may be emptied. *)
LEMMA EmptiedSafe ==
  ASSUME NEW s, Safe(s)
  PROVE  LET t == [s EXCEPT !.inbound = <<>>]
         IN  Safe(t) /\ t.inbound = <<>>
<1>1. <<>> \in Seq(FrontHalves) /\ Len(<<>>) <= 2
  BY EmptyIsSeq
<1>2. QED
  BY <1>1, InboundSafe

(* A line that is no DISPLAY is counted and empties the assembler. *)
LEMMA ReceiveOtherSafe ==
  ASSUME NEW s, Safe(s)
  PROVE  Safe(ReceiveOther(s)) /\ ReceiveOther(s).inbound = <<>>
<1> DEFINE t == [s EXCEPT !.inbound = <<>>]
<1>1. Safe(t) /\ t.inbound = <<>>
  BY EmptiedSafe
<1>2. ReceiveOther(s) = Count(t, "malformed_received")
  BY DEF ReceiveOther
<1> HIDE DEF t
<1>3. QED
  BY <1>1, <1>2, CountSafe DEF CounterNames

(* The end of a line, whatever it is the end of, keeps a session safe and
   empties the assembler. *)
LEMMA ReceiveBackSafe ==
  ASSUME NEW s, Safe(s), NEW record \in DisplayRecords
  PROVE  Safe(ReceiveBack(s, record)) /\ ReceiveBack(s, record).inbound = <<>>
<1> DEFINE t == [s EXCEPT !.inbound = <<>>]
<1>1. Safe(t) /\ t.inbound = <<>>
  BY EmptiedSafe
<1>2. CASE Len(s.inbound) = 1
  <2> DEFINE joined == JoinHalves(s.inbound[1], record)
  <2>1. s.inbound[1] \in FrontHalves
    BY <1>2 DEF Safe, Typed, Sessions
  <2>2. joined \in DisplayRecords
    BY <2>1, HalvesTypes
  <2>3. ReceiveBack(s, record) = HandleDisplay(t, joined)
    BY <1>2 DEF ReceiveBack
  <2> HIDE DEF joined, t
  <2>4. QED
    BY <1>1, <2>2, <2>3, HandleDisplaySafe
<1>3. CASE Len(s.inbound) # 1
  <2>1. ReceiveBack(s, record) = Count(t, "malformed_received")
    BY <1>3 DEF ReceiveBack
  <2> HIDE DEF t
  <2>2. QED
    BY <1>1, <2>1, CountSafe DEF CounterNames
<1>4. QED
  BY <1>2, <1>3

(* A press keeps a session safe whatever becomes of it. *)
LEMMA ReportPressSafe ==
  ASSUME NEW s, Safe(s), NEW key \in Keys, NEW kind \in PressKinds
  PROVE  /\ Safe(ReportPress(s, key, kind))
         /\ ReportPress(s, key, kind).inbound = s.inbound
<1> DEFINE event == WireEvent(s, key, kind)
<1>1. event \in Events /\ event # Hello
  BY DEF WireEvent, PageEventForKey1, Events, Hello
<1>2. CASE Reserved(key, kind)
  BY <1>2 DEF ReportPress
<1>3. CASE ~Reserved(key, kind) /\ s.link_state # "Connected"
  BY <1>3, CountSafe DEF ReportPress, CounterNames
<1>4. CASE ~Reserved(key, kind) /\ s.link_state = "Connected" /\ ~CanQueue(s)
  BY <1>4, CountSafe DEF ReportPress, CounterNames
<1>5. CASE ~Reserved(key, kind) /\ s.link_state = "Connected" /\ CanQueue(s)
  <2>1. ReportPress(s, key, kind) = QueueLine(s, event)
    BY <1>5 DEF ReportPress
  <2> HIDE DEF event
  <2>2. Safe(QueueLine(s, event))
    BY <1>1, <1>5, QueueLineSafe DEF OutboundLines
  <2>3. QueueLine(s, event).inbound = s.inbound
    BY DEF QueueLine, Safe, Typed, Sessions
  <2>4. QED
    BY <2>1, <2>2, <2>3
<1>6. QED
  BY <1>2, <1>3, <1>4, <1>5

(* Taking lines from the front keeps a session safe: HELLO goes first. *)
LEMMA TakeOutputSafe ==
  ASSUME NEW s, Safe(s), NEW n \in 1..QueueDepth, n <= Len(s.output)
  PROVE  Safe(TakeOutput(s, n)) /\ TakeOutput(s, n).inbound = s.inbound
<1> DEFINE rest == SubSeq(s.output, n + 1, Len(s.output))
           t == TakeOutput(s, n)
<1>1. s \in Sessions /\ s.output \in Seq(OutboundLines)
  BY DEF Safe, Typed, Sessions
<1>2. n \in Nat /\ n >= 1
  BY QueueAssumption
<1>3. /\ rest \in Seq(OutboundLines)
      /\ Len(rest) = Len(s.output) - n
      /\ \A i \in 1..Len(rest) : rest[i] = s.output[n + i]
  BY <1>1, <1>2
<1>4. /\ t \in Sessions
      /\ t.output = rest /\ t.inbound = s.inbound
      /\ t.current_display = s.current_display
      /\ t.link_state = s.link_state
  BY <1>1, <1>3 DEF TakeOutput, Sessions
<1> HIDE DEF rest, t
<1>5. Typed(t)
  BY <1>1, <1>2, <1>3, <1>4, QueueAssumption DEF Safe, Typed
<1>6. /\ DOMAIN rest = 1..Len(rest)
      /\ DOMAIN s.output = 1..Len(s.output)
      /\ \A i \in 1..Len(rest) : n + i \in 1..Len(s.output) /\ n + i # 1
  BY <1>1, <1>2, <1>3
<1>7. HoldsNothingUnlinked(t)
  BY <1>3, <1>4, <1>6 DEF Safe, HoldsNothingUnlinked
<1>8. QueuesHelloFirst(t)
  BY <1>3, <1>4, <1>6 DEF Safe, QueuesHelloFirst
<1>9. QED
  BY <1>4, <1>5, <1>7, <1>8 DEF Safe, t
-----------------------------------------------------------------------------
(***************************************************************************)
(* What the session's calls do to the fields the link's properties are     *)
(* about: the link state, the record, the lines waiting.                   *)
(***************************************************************************)

(* The two sessions differ at most in counters, clock and assembler.       *)
SameLink(s, t) ==
    /\ t.link_state = s.link_state
    /\ t.current_display = s.current_display

(* The retry clock leaves what waits, or replaces it by one HELLO. *)
LEMMA TickEffect ==
  ASSUME NEW s, Safe(s), NEW elapsed \in Nat
  PROVE  /\ SameLink(s, Tick(s, elapsed))
         /\ \/ Tick(s, elapsed).output = s.output
            \/ /\ s.link_state = "Handshaking"
               /\ Tick(s, elapsed).output = <<Hello>>
<1> DEFINE waited == s.handshake_elapsed + elapsed
           c == Count(s, "handshake_retries")
           r == ClearOutput([c EXCEPT !.handshake_elapsed = 0])
<1>0. s \in Sessions
  BY DEF Safe, Typed
<1>1. CASE s.link_state # "Handshaking" \/ waited < RetryInterval
  BY <1>0, <1>1 DEF Tick, SameLink, Sessions
<1>2. CASE s.link_state = "Handshaking" /\ ~(waited < RetryInterval)
  <2>1. Tick(s, elapsed) = SendHello(r)
    BY <1>2 DEF Tick
  <2>2. Safe(c) /\ SameLink(s, c)
    BY CountSafe DEF CounterNames, SameLink
  <2> HIDE DEF c
  <2>3. Safe([c EXCEPT !.handshake_elapsed = 0])
    BY <2>2, ElapsedSafe, ZeroElapsed
  <2>4. Safe(r) /\ r.output = <<>>
    BY <2>3, ClearOutputSafe
  <2>5. SameLink(s, r)
    BY <2>2 DEF ClearOutput, Safe, Typed, Sessions, SameLink
  <2> HIDE DEF r
  <2>6. SendHello(r) = [r EXCEPT !.output = <<Hello>>]
    BY <2>4, SendHelloSafe
  <2>7. QED
    BY <1>2, <2>1, <2>4, <2>5, <2>6 DEF Safe, Typed, Sessions, SameLink
<1>3. QED
  BY <1>1, <1>2

(* A press adds at most one event to what waits. *)
LEMMA ReportPressEffect ==
  ASSUME NEW s, Safe(s), NEW key, NEW kind
  PROVE  /\ SameLink(s, ReportPress(s, key, kind))
         /\ \/ ReportPress(s, key, kind).output = s.output
            \/ \E event \in Events :
                 ReportPress(s, key, kind).output = Append(s.output, event)
<1>0. s \in Sessions
  BY DEF Safe, Typed
<1>1. \A name \in CounterNames :
        SameLink(s, Count(s, name)) /\ Count(s, name).output = s.output
  BY CountSafe DEF SameLink
<1>2. \A event \in Events : /\ SameLink(s, QueueLine(s, event))
                            /\ QueueLine(s, event).output = Append(s.output, event)
  BY <1>0 DEF QueueLine, Sessions, SameLink
<1>3. WireEvent(s, key, kind) \in Events
  BY DEF WireEvent, PageEventForKey1, Events
<1>4. QED
  BY <1>0, <1>1, <1>2, <1>3 DEF ReportPress, CounterNames, SameLink

(* port_opened waits for an answer to the one HELLO it queues. *)
LEMMA PortOpenedEffect ==
  ASSUME NEW s, Safe(s)
  PROVE  /\ PortOpened(s).link_state = "Handshaking"
         /\ PortOpened(s).output = <<Hello>>
<1> DEFINE t == [Forget(s) EXCEPT !.link_state = "Handshaking"]
           u == [t EXCEPT !.handshake_elapsed = 0]
<1>1. Safe(t) /\ t.output = <<>> /\ t.link_state = "Handshaking"
  BY ForgetSafe DEF LinkStates
<1>2. Safe(u) /\ u.output = <<>> /\ u.link_state = "Handshaking"
  BY <1>1, ElapsedSafe, ZeroElapsed
<1>3. PortOpened(s) = SendHello(u)
  BY DEF PortOpened
<1> HIDE DEF t, u
<1>4. SendHello(u) = [u EXCEPT !.output = <<Hello>>]
  BY <1>2, SendHelloSafe
<1>5. QED
  BY <1>2, <1>3, <1>4 DEF Safe, Typed, Sessions

(* port_closed leaves nothing waiting. *)
LEMMA PortClosedEffect ==
  ASSUME NEW s, Safe(s)
  PROVE  /\ PortClosed(s).link_state = "LinkDown"
         /\ PortClosed(s).output = <<>>
<1> DEFINE c == IF s.link_state = "LinkDown" THEN s ELSE Count(s, "reconnections")
<1>1. Safe(c)
  BY CountSafe DEF CounterNames
<1>2. PortClosed(s) = [Forget(c) EXCEPT !.link_state = "LinkDown"]
  BY DEF PortClosed
<1> HIDE DEF c
<1>3. QED
  BY <1>1, <1>2, ForgetSafe DEF LinkStates

(* The transport takes nothing, or all there is. *)
LEMMA TakeOutputEffect ==
  ASSUME NEW s, Safe(s), NEW n \in {0, Len(s.output)}
  PROVE  LET t == TakeOutput(s, n)
         IN  /\ Safe(t) /\ SameLink(s, t) /\ t.inbound = s.inbound
             /\ t.output = IF n = 0 THEN s.output ELSE <<>>
<1> DEFINE t == TakeOutput(s, n)
<1>1. s \in Sessions /\ s.output \in Seq(OutboundLines) /\ Len(s.output) <= QueueDepth
  BY DEF Safe, Typed, Sessions
<1> DEFINE rest == SubSeq(s.output, n + 1, Len(s.output))
<1>a. rest \in Seq(OutboundLines)
  BY <1>1
<1>b. t = [s EXCEPT !.output = rest]
  BY DEF TakeOutput
<1>c. rest = IF n = 0 THEN s.output ELSE <<>>
  BY <1>1
<1> HIDE DEF rest
<1>2. /\ t \in Sessions /\ SameLink(s, t) /\ t.inbound = s.inbound
      /\ t.output = rest
  BY <1>1, <1>a, <1>b DEF Sessions, SameLink
<1>3. CASE n = 0
  <2>1. t.output = s.output
    BY <1>c, <1>2, <1>3
  <2>2. Safe(t)
    BY <1>2, <2>1 DEF Safe, Typed, HoldsNothingUnlinked, QueuesHelloFirst, SameLink
  <2>3. QED
    BY <1>2, <1>3, <2>1, <2>2
<1>4. CASE n # 0
  <2>1. t.output = <<>>
    BY <1>c, <1>2, <1>4
  <2>2. Safe(t)
    BY <1>1, <1>4, QueueAssumption, TakeOutputSafe
  <2>3. QED
    BY <1>2, <1>4, <2>1, <2>2
<1>5. QED
  BY <1>3, <1>4

(* A whole line is read as the record it is, if nothing was held before it;*)
(* otherwise as nothing, or as a record that ends like it.                 *)
LEMMA ReceiveDisplayEffect ==
  ASSUME NEW s, Safe(s), NEW r \in DisplayRecords
  PROVE  LET t == ReceiveBack(ReceiveFront(s, r), r)
         IN  /\ Safe(t) /\ t.inbound = <<>> /\ t.output = s.output
             /\ \/ SameLink(s, t) /\ s.inbound # <<>>
                \/ /\ r.error = "BAD_VERSION" /\ s.link_state # "Connected"
                   /\ t.link_state = "Incompatible"
                \/ /\ t.link_state = "Connected"
                   /\ r.error = "BAD_VERSION" => s.link_state = "Connected"
                   /\ s.inbound = <<>> => t.current_display = r
<1> DEFINE f == ReceiveFront(s, r)
           e == [f EXCEPT !.inbound = <<>>]
           t == ReceiveBack(f, r)
<1> SUFFICES /\ Safe(t) /\ t.inbound = <<>> /\ t.output = s.output
             /\ \/ SameLink(s, t) /\ s.inbound # <<>>
                \/ /\ r.error = "BAD_VERSION" /\ s.link_state # "Connected"
                   /\ t.link_state = "Incompatible"
                \/ /\ t.link_state = "Connected"
                   /\ r.error = "BAD_VERSION" => s.link_state = "Connected"
                   /\ s.inbound = <<>> => t.current_display = r
  OBVIOUS
<1>0. s \in Sessions /\ s.inbound \in Seq(FrontHalves) /\ s.current_display \in DisplayRecords
  BY DEF Safe, Typed, Sessions
<1>1. /\ Safe(f)
      /\ f.inbound = IF Len(s.inbound) < 2 THEN Append(s.inbound, FrontHalf(r))
                     ELSE s.inbound
  BY ReceiveFrontSafe
<1>2. SameLink(s, f) /\ f.output = s.output
  BY <1>0 DEF ReceiveFront, Sessions, SameLink
<1> HIDE DEF f
<1>3. Safe(e) /\ e.inbound = <<>>
  BY <1>1, EmptiedSafe
<1>4. SameLink(s, e) /\ e.output = s.output
  BY <1>1, <1>2 DEF Safe, Typed, Sessions, SameLink
<1>5. Safe(t) /\ t.inbound = <<>>
  BY <1>1, ReceiveBackSafe
<1>6. CASE Len(f.inbound) # 1
  <2>1. t = Count(e, "malformed_received")
    BY <1>6 DEF ReceiveBack
  <2>2. s.inbound # <<>>
    BY <1>0, <1>1, <1>6
  <2> HIDE DEF e, t
  <2>3. SameLink(e, t) /\ t.output = e.output
    BY <1>3, <2>1, CountSafe DEF CounterNames, SameLink
  <2>4. QED
    BY <1>4, <1>5, <2>2, <2>3 DEF SameLink
<1>7. CASE Len(f.inbound) = 1
  <2> DEFINE joined == JoinHalves(f.inbound[1], r)
             c == Count(e, "version_mismatches")
  <2>1. t = HandleDisplay(e, joined)
    BY <1>7 DEF ReceiveBack
  <2>2. f.inbound[1] \in FrontHalves
    BY <1>1, <1>7 DEF Safe, Typed, Sessions
  <2>3. joined \in DisplayRecords /\ joined.error = r.error
    BY <2>2, HalvesTypes DEF JoinHalves
  <2>4. s.inbound = <<>> => joined = r
    <3>1. s.inbound = <<>> => f.inbound[1] = FrontHalf(r)
      BY <1>0, <1>1
    <3>2. QED
      BY <3>1, HalvesTypes
  <2>5. Safe(c) /\ c.output = e.output
    BY <1>3, CountSafe DEF CounterNames
  <2>6. t.output = e.output
    BY <1>3, <2>1, <2>3, HandleDisplaySafe
  <2> HIDE DEF joined, c, e, t
  <2>7. CASE e.link_state # "Connected" /\ joined.error = "BAD_VERSION"
    <3>1. t = [c EXCEPT !.link_state = "Incompatible"]
      BY <2>1, <2>7 DEF HandleDisplay, c
    <3>2. t.link_state = "Incompatible"
      BY <2>5, <3>1 DEF Safe, Typed, Sessions
    <3>3. QED
      BY <1>4, <1>5, <2>3, <2>6, <2>7, <3>2 DEF SameLink
  <2>8. CASE ~(e.link_state # "Connected" /\ joined.error = "BAD_VERSION")
    <3>1. t = [e EXCEPT !.current_display = joined, !.link_state = "Connected"]
      BY <2>1, <2>8 DEF HandleDisplay
    <3>2. t.link_state = "Connected" /\ t.current_display = joined
      BY <1>3, <3>1 DEF Safe, Typed, Sessions
    <3>3. QED
      BY <1>4, <1>5, <2>3, <2>4, <2>6, <2>8, <3>2 DEF SameLink
  <2>9. QED
    BY <2>7, <2>8
<1>8. QED
  BY <1>6, <1>7

(* The first half of a line is held and says nothing yet. *)
LEMMA ReceivePartialEffect ==
  ASSUME NEW s, Safe(s), NEW r \in DisplayRecords
  PROVE  LET t == ReceiveFront(s, r)
         IN  Safe(t) /\ SameLink(s, t) /\ t.output = s.output
<1>0. s \in Sessions
  BY DEF Safe, Typed
<1>1. SameLink(s, ReceiveFront(s, r)) /\ ReceiveFront(s, r).output = s.output
  BY <1>0 DEF ReceiveFront, Sessions, SameLink
<1>2. QED
  BY <1>1, ReceiveFrontSafe

(* A line that is no DISPLAY ends what was held and says nothing.          *)
LEMMA ReceiveNoiseEffect ==
  ASSUME NEW s, Safe(s)
  PROVE  LET t == ReceiveOther(s)
         IN  Safe(t) /\ SameLink(s, t) /\ t.output = s.output /\ t.inbound = <<>>
<1> DEFINE e == [s EXCEPT !.inbound = <<>>]
<1>0. s \in Sessions
  BY DEF Safe, Typed
<1>1. Safe(e)
  BY EmptiedSafe
<1>2. SameLink(s, e) /\ e.output = s.output
  BY <1>0 DEF Sessions, SameLink
<1>3. ReceiveOther(s) = Count(e, "malformed_received")
  BY DEF ReceiveOther
<1> HIDE DEF e
<1>4. QED
  BY <1>1, <1>2, <1>3, CountSafe, ReceiveOtherSafe DEF CounterNames, SameLink

(* A line that ends takes nothing from what waits. *)
LEMMA ReceiveBackKeepsOutput ==
  ASSUME NEW s, Safe(s), NEW r \in DisplayRecords
  PROVE  ReceiveBack(s, r).output = s.output
<1> DEFINE e == [s EXCEPT !.inbound = <<>>]
<1>1. Safe(e)
  BY EmptiedSafe
<1>2. e.output = s.output
  BY DEF Safe, Typed, Sessions
<1> HIDE DEF e
<1>3. CASE Len(s.inbound) = 1
  <2> DEFINE joined == JoinHalves(s.inbound[1], r)
  <2>1. s.inbound[1] \in FrontHalves
    BY <1>3 DEF Safe, Typed, Sessions
  <2>2. joined \in DisplayRecords
    BY <2>1, HalvesTypes
  <2>3. ReceiveBack(s, r) = HandleDisplay(e, joined)
    BY <1>3 DEF ReceiveBack, e
  <2> HIDE DEF joined
  <2>4. QED
    BY <1>1, <1>2, <2>2, <2>3, HandleDisplaySafe
<1>4. CASE Len(s.inbound) # 1
  <2>1. ReceiveBack(s, r) = Count(e, "malformed_received")
    BY <1>4 DEF ReceiveBack, e
  <2>2. QED
    BY <1>1, <1>2, <2>1, CountSafe DEF CounterNames
<1>5. QED
  BY <1>3, <1>4
=============================================================================
