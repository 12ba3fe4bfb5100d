-------------------------- MODULE RemoteLinkProofs --------------------------
(***************************************************************************)
(* Theorems about RemoteLink.                                              *)
(*                                                                         *)
(* The first follow the session's link state through every call the loop   *)
(* makes, and need nothing of what the peer writes: a line the remote      *)
(* reads is any value at all.                                              *)
(*                                                                         *)
(* The others need both ends and the wire.  They are built in layers, each *)
(* of them inductive where those below it hold:                            *)
(*                                                                         *)
(*   Base           everything is in its range, the session is Safe, the   *)
(*                  wire holds what it can: TypeCorrect                    *)
(*   EarnedSoFar    what is on its way to the remote was earned:           *)
(*                  EarnedBeliefs                                          *)
(*   Greeted        a HELLO is in front of every fresh press:              *)
(*                  FreshPressesHeard                                      *)
(*   LinesAreWhole  no line on its way to the remote is cut                *)
(*   Settled        what is on its way ends in what the peer holds:        *)
(*                  QuietAgrees                                            *)
(***************************************************************************)
EXTENDS RemoteLink, RemoteSessionLemmas, FiniteSetTheorems, SequenceTheorems

(***************************************************************************)
(* The link state follows the edge.                                        *)
(***************************************************************************)

(* A session of which only the link state is known to be in its range.     *)
HasFields(s) ==
    s \in [link_state : LinkStates, inbound : {s.inbound},
           current_display : {s.current_display}, output : {s.output},
           handshake_elapsed : {s.handshake_elapsed},
           counters : {s.counters}]

(* A call that leaves the link state as it is. *)
Keeps(s, after) == HasFields(after) /\ after.link_state = s.link_state

(* Counting is no change of link. *)
LEMMA CountKeeps ==
  ASSUME NEW s, HasFields(s), NEW name
  PROVE  Keeps(s, Count(s, name))
<1>1. Count(s, name) =
        [s EXCEPT !.counters =
            [s.counters EXCEPT ![name] = (s.counters[name] + 1) % CounterModulus]]
  BY DEF Count, HasFields
<1>2. QED
  BY <1>1 DEF HasFields, Keeps

(* Nor is anything done to the queue. *)
LEMMA QueueKeeps ==
  ASSUME NEW s, HasFields(s)
  PROVE  /\ \A line : Keeps(s, QueueLine(s, line))
         /\ Keeps(s, ClearOutput(s))
         /\ Keeps(s, SendHello(s))
         /\ \A n : Keeps(s, TakeOutput(s, n))
BY DEF HasFields, Keeps, QueueLine, ClearOutput, SendHello, TakeOutput

(* Forgetting a link does not say which state comes next. *)
LEMMA ForgetKeeps ==
  ASSUME NEW s, HasFields(s)
  PROVE  Keeps(s, Forget(s))
BY DEF HasFields, Keeps, Forget, ClearOutput

(* remote_session_port_opened waits for an answer. *)
LEMMA PortOpenedHandshakes ==
  ASSUME NEW s, HasFields(s)
  PROVE  /\ HasFields(PortOpened(s))
         /\ PortOpened(s).link_state = "Handshaking"
<1> DEFINE opened == [Forget(s) EXCEPT !.link_state = "Handshaking",
                                       !.handshake_elapsed = 0]
<1>1. HasFields(opened) /\ opened.link_state = "Handshaking"
  BY ForgetKeeps DEF HasFields, Keeps, LinkStates
<1>2. PortOpened(s) = SendHello(opened)
  BY DEF PortOpened
<1> HIDE DEF opened
<1>3. QED
  BY <1>1, <1>2, QueueKeeps DEF Keeps

(* remote_session_port_closed leaves no link, whatever there was. *)
LEMMA PortClosedGoesDown ==
  ASSUME NEW s, HasFields(s)
  PROVE  /\ HasFields(PortClosed(s))
         /\ PortClosed(s).link_state = "LinkDown"
<1> DEFINE counted == IF s.link_state = "LinkDown" THEN s
                      ELSE Count(s, "reconnections")
<1>1. HasFields(counted)
  BY CountKeeps DEF Keeps
<1>2. HasFields(Forget(counted))
  BY <1>1, ForgetKeeps DEF Keeps
<1>3. PortClosed(s) = [Forget(counted) EXCEPT !.link_state = "LinkDown"]
  BY DEF PortClosed
<1> HIDE DEF counted
<1>4. QED
  BY <1>2, <1>3 DEF HasFields, LinkStates

(* The retry clock changes no link, whether it is due or not. *)
LEMMA TickKeeps ==
  ASSUME NEW s, HasFields(s), NEW elapsed
  PROVE  Keeps(s, Tick(s, elapsed))
<1> DEFINE waited == s.handshake_elapsed + elapsed
           retried == [Count(s, "handshake_retries")
                         EXCEPT !.handshake_elapsed = 0]
<1>1. ASSUME NEW n PROVE Keeps(s, [s EXCEPT !.handshake_elapsed = n])
  BY DEF HasFields, Keeps
<1>2. Keeps(s, retried)
  BY CountKeeps DEF HasFields, Keeps
<1>3. Tick(s, elapsed) =
        IF s.link_state # "Handshaking" THEN [s EXCEPT !.handshake_elapsed = 0]
        ELSE IF waited < RetryInterval
          THEN [s EXCEPT !.handshake_elapsed = waited]
        ELSE SendHello(ClearOutput(retried))
  BY DEF Tick
<1> HIDE DEF waited, retried
<1>4. Keeps(s, SendHello(ClearOutput(retried)))
  <2>1. Keeps(retried, ClearOutput(retried))
    BY <1>2, QueueKeeps DEF Keeps
  <2>2. Keeps(ClearOutput(retried), SendHello(ClearOutput(retried)))
    BY <2>1, QueueKeeps DEF Keeps
  <2>3. QED
    BY <1>2, <2>1, <2>2 DEF Keeps
<1>5. QED
  BY <1>1, <1>3, <1>4

(* A press is queued, dropped or reserved, and changes no link. *)
LEMMA ReportPressKeeps ==
  ASSUME NEW s, HasFields(s), NEW key, NEW kind
  PROVE  Keeps(s, ReportPress(s, key, kind))
<1>1. Keeps(s, s)
  BY DEF Keeps
<1>2. QED
  BY <1>1, CountKeeps, QueueKeeps DEF ReportPress

(* A record takes the link to one of two states, neither of them down.     *)
LEMMA HandleDisplayLinks ==
  ASSUME NEW s, HasFields(s), NEW record
  PROVE  /\ HasFields(HandleDisplay(s, record))
         /\ HandleDisplay(s, record).link_state \in {"Connected", "Incompatible"}
<1> DEFINE counted == Count(s, "version_mismatches")
<1>1. HasFields(counted)
  BY CountKeeps DEF Keeps
<1>2. HandleDisplay(s, record) =
        IF s.link_state # "Connected" /\ record.error = "BAD_VERSION"
        THEN [counted EXCEPT !.link_state = "Incompatible"]
        ELSE [s EXCEPT !.current_display = record, !.link_state = "Connected"]
  BY DEF HandleDisplay
<1> HIDE DEF counted
<1>3. QED
  BY <1>1, <1>2 DEF HasFields, LinkStates

(* Whatever line a session with a link reads, it keeps having one. *)
LEMMA ReceiveLineStaysUp ==
  ASSUME NEW s, HasFields(s), s.link_state # "LinkDown", NEW line
  PROVE  /\ HasFields(ReceiveLine(s, line))
         /\ ReceiveLine(s, line).link_state # "LinkDown"
<1> DEFINE Up(t) == HasFields(t) /\ t.link_state # "LinkDown"
<1>1. ASSUME NEW t, Up(t), NEW halves
      PROVE  Up([t EXCEPT !.inbound = halves])
  BY <1>1 DEF HasFields
<1>2. ASSUME NEW t, Up(t), NEW record
      PROVE  Up(ReceiveFront(t, record))
  <2> DEFINE halves == IF Len(t.inbound) < 2
                       THEN Append(t.inbound, FrontHalf(record)) ELSE t.inbound
  <2>1. ReceiveFront(t, record) = [t EXCEPT !.inbound = halves]
    BY <1>2 DEF ReceiveFront, HasFields
  <2> HIDE DEF halves
  <2>2. Up([t EXCEPT !.inbound = halves])
    BY <1>1, <1>2
  <2>3. QED
    BY <2>1, <2>2
<1>3. ASSUME NEW t, Up(t) PROVE Up(ReceiveOther(t))
  <2>1. Up([t EXCEPT !.inbound = <<>>])
    BY <1>1, <1>3
  <2>2. QED
    BY <2>1, CountKeeps DEF ReceiveOther, Keeps
<1>4. ASSUME NEW t, Up(t), NEW record
      PROVE  Up(ReceiveBack(t, record))
  <2> DEFINE emptied == [t EXCEPT !.inbound = <<>>]
             joined == JoinHalves(t.inbound[1], record)
  <2>1. Up(emptied)
    BY <1>1, <1>4
  <2>2. ReceiveBack(t, record) =
          IF Len(t.inbound) = 1 THEN HandleDisplay(emptied, joined)
          ELSE Count(emptied, "malformed_received")
    BY DEF ReceiveBack
  <2> HIDE DEF emptied, joined
  <2>3. QED
    BY <2>1, <2>2, HandleDisplayLinks, CountKeeps DEF Keeps
<1>5. Up(s)
  OBVIOUS
<1> HIDE DEF Up
<1>6. Up(ReceiveLine(s, line))
  BY <1>2, <1>3, <1>4, <1>5 DEF ReceiveLine
<1>7. QED
  BY <1>6 DEF Up
-----------------------------------------------------------------------------
(* The inductive invariant: LinkFollowsEdge, of a session that has the     *)
(* fields of one.                                                          *)
IInv == edge \in BOOLEAN /\ HasFields(session) /\ LinkFollowsEdge

(* A session just initialised is down, and the edge is not up. *)
LEMMA InitIInv == Init => IInv
<1> SUFFICES ASSUME Init PROVE IInv
  OBVIOUS
<1>1. session = InitialSession /\ edge = FALSE
  BY DEF Init
<1>2. HasFields(InitialSession) /\ InitialSession.link_state = "LinkDown"
  BY DEF HasFields, InitialSession, LinkStates
<1>3. QED
  BY <1>1, <1>2 DEF IInv, LinkFollowsEdge

(* What changes no link, of the session or of the edge. *)
LEMMA LinkUnchanged ==
  ASSUME IInv, Keeps(session, session'), UNCHANGED edge
  PROVE  IInv'
BY DEF IInv, Keeps, HasFields, LinkFollowsEdge

(* Every step, of the loop, the cable, the host and the shell, preserves   *)
(* the invariant.                                                          *)
LEMMA NextIInv == IInv /\ [Next]_vars => IInv'
<1> SUFFICES ASSUME IInv, [Next]_vars PROVE IInv'
  OBVIOUS
<1>0. HasFields(session) /\ edge \in BOOLEAN /\ LinkFollowsEdge
  BY DEF IInv
<1>1. Keeps(session, session)
  BY <1>0 DEF Keeps
<1>2. ASSUME NEW press \in UserPresses, Press(press[1], press[2]) PROVE IInv'
  BY <1>0, <1>2, ReportPressKeeps, LinkUnchanged DEF Press
<1>3. CASE ObserveEdge
  <2>1. CASE edge' = edge
    BY <1>1, <1>3, <2>1, LinkUnchanged DEF ObserveEdge
  <2>2. CASE edge' # edge /\ edge'
    <3>1. session' = PortOpened(session)
      BY <1>3, <2>2 DEF ObserveEdge
    <3>2. QED
      BY <1>0, <2>2, <3>1, PortOpenedHandshakes
      DEF IInv, HasFields, LinkFollowsEdge
  <2>3. CASE edge' # edge /\ ~edge'
    <3>1. session' = PortClosed(session)
      BY <1>3, <2>3 DEF ObserveEdge
    <3>2. edge' \in BOOLEAN
      BY <1>3 DEF ObserveEdge, HostOpen, HasPort
    <3>3. QED
      BY <1>0, <2>3, <3>1, <3>2, PortClosedGoesDown
      DEF IInv, HasFields, LinkFollowsEdge
  <2>4. QED
    BY <2>1, <2>2, <2>3
<1>4. CASE Receive
  <2>1. session' = Deliver(session, Head(toDevice)) /\ UNCHANGED edge
    BY <1>4 DEF Receive
  <2>2. CASE edge
    <3>1. session.link_state # "LinkDown"
      BY <1>0, <2>2 DEF LinkFollowsEdge
    <3>2. session' = ReceiveLine(session, Head(toDevice))
      BY <2>1, <2>2 DEF Deliver
    <3>3. HasFields(session') /\ session'.link_state # "LinkDown"
      BY <1>0, <3>1, <3>2, ReceiveLineStaysUp
    <3>4. QED
      BY <2>1, <2>2, <3>3 DEF IInv, HasFields, LinkFollowsEdge
  <2>3. CASE ~edge
    BY <1>1, <2>1, <2>3, LinkUnchanged DEF Deliver
  <2>4. QED
    BY <2>2, <2>3
<1>5. ASSUME NEW elapsed \in 1..MaxElapsed, NEW room \in BOOLEAN,
             TickAndSend(elapsed, room)
      PROVE  IInv'
  <2> DEFINE ticked == Tick(session, elapsed)
             sent == IF edge /\ room THEN ticked.output ELSE <<>>
  <2>1. session' = TakeOutput(ticked, Len(sent)) /\ UNCHANGED edge
    BY <1>5 DEF TickAndSend
  <2>2. Keeps(session, ticked)
    BY <1>0, TickKeeps
  <2> HIDE DEF ticked, sent
  <2>3. Keeps(session, session')
    BY <2>1, <2>2, QueueKeeps DEF Keeps
  <2>4. QED
    BY <2>1, <2>3, LinkUnchanged
<1>6. ASSUME session' = session, UNCHANGED edge PROVE IInv'
  BY <1>1, <1>6, LinkUnchanged
<1>7. CASE NoPress \/ DrainBeginning
  BY <1>6, <1>7 DEF NoPress, DrainBeginning, remoteVars
<1>8. CASE PullCable \/ PlugCable \/ Sleep \/ Wake
  BY <1>6, <1>8 DEF PullCable, PlugCable, Sleep, Wake, remoteVars
<1>9. CASE OpenPort \/ StartSearch \/ ProbeNode
  BY <1>6, <1>9
  DEF OpenPort, StartSearch, ProbeNode, PortOpens, remoteVars
<1>10. CASE Quit \/ DeviceGone \/ ProbeGivesUp
  BY <1>6, <1>10 DEF Quit, DeviceGone, ProbeGivesUp, PortCloses, remoteVars
<1>11. ASSUME NEW whole, NEW part, ProbeRead(whole, part) PROVE IInv'
  BY <1>6, <1>11 DEF ProbeRead, remoteVars
<1>12. CASE PumpWrite \/ PumpRead \/ \E command \in Commands : Operate(command)
  BY <1>6, <1>12 DEF PumpWrite, PumpRead, Operate, remoteVars
<1>13. CASE UNCHANGED vars
  BY <1>6, <1>13 DEF vars
<1>14. QED
  BY <1>2, <1>3, <1>4, <1>5, <1>7, <1>8, <1>9, <1>10, <1>11, <1>12, <1>13
  DEF Next

(* The session believes the port closed exactly when the link edge does,   *)
(* for any queue depth, wire and set of commands, and whatever the peer    *)
(* writes: "delivered only while it is" (usb_link.c) is enough to keep the *)
(* lines left over from a link from bringing one up behind a closed port.  *)
THEOREM LinkFollows == Spec => []LinkFollowsEdge
<1>1. IInv => LinkFollowsEdge
  BY DEF IInv
<1>2. QED
  BY <1>1, InitIInv, NextIInv, PTL DEF Spec

(* A session changes sides of the link only where the loop observes the    *)
(* edge: no key, no line, no clock and nothing the host does takes the     *)
(* link up or down (service_link_edge, usb_link.c).                        *)
THEOREM LinkChangesAtTheEdge ==
  Spec => [][~ObserveEdge =>
               (session'.link_state = "LinkDown" <=>
                  session.link_state = "LinkDown")]_vars
<1>1. ASSUME IInv, Next, ~ObserveEdge
      PROVE  session'.link_state = "LinkDown" <=> session.link_state = "LinkDown"
  <2>1. IInv'
    BY <1>1, NextIInv
  <2>2. UNCHANGED edge
    BY <1>1
    DEF Next, Press, NoPress, Receive, DrainBeginning, TickAndSend, PullCable,
        PlugCable, Sleep, Wake, OpenPort, StartSearch, ProbeNode, PortOpens,
        Quit, DeviceGone, ProbeRead, ProbeGivesUp, PortCloses, PumpWrite,
        PumpRead, Operate, remoteVars
  <2>3. QED
    BY <1>1, <2>1, <2>2 DEF IInv, LinkFollowsEdge
<1>2. IInv /\ [Next]_vars =>
        [~ObserveEdge => (session'.link_state = "LinkDown" <=>
                            session.link_state = "LinkDown")]_vars
  BY <1>1
<1>3. QED
  BY <1>2, InitIInv, NextIInv, PTL DEF Spec

-----------------------------------------------------------------------------
(***************************************************************************)
(* Folds.  Induction over a set of numbers, out of the well-foundedness of *)
(* the finite sets, and what a fold over lines is.                         *)
(***************************************************************************)

(* A set of numbers that holds 0 and the successor of each of its members  *)
(* holds every number: the least that it lacked would have a predecessor.  *)
LEMMA NumbersByInduction ==
  ASSUME NEW S, 0 \in S, \A n \in Nat : n \in S => n + 1 \in S
  PROVE  \A n \in Nat : n \in S
<1> DEFINE lacking == {1..n : n \in {m \in Nat : m \notin S}}
           R == StrictSubsetOrdering(Nat)
<1> SUFFICES ASSUME lacking # {} PROVE FALSE
  OBVIOUS
<1>1. \A n \in Nat : IsFiniteSet(1..n)
  BY FS_Interval
<1>2. lacking \subseteq FiniteSubsetsOf(Nat)
  BY <1>1 DEF FiniteSubsetsOf
<1>3. \E x \in lacking : \A y \in lacking : ~(<<y, x>> \in R)
  <2> HIDE DEF lacking, R
  <2>1. QED
    BY <1>2, FS_StrictSubsetOrderingWellFounded, WFMin DEF R
<1>4. PICK n \in Nat : n \notin S /\ \A y \in lacking : ~(<<y, 1..n>> \in R)
  BY <1>3
<1>5. n # 0 /\ n - 1 \in Nat /\ n - 1 \notin S
  BY <1>4
<1>6. 1..(n - 1) \in lacking
  BY <1>5
<1>7. <<1..(n - 1), 1..n>> \in R
  BY <1>5 DEF StrictSubsetOrdering
<1>8. QED
  BY <1>4, <1>6, <1>7

(* The table a fold over lines 1 to n looks its results up in.             *)
IsFoldTable(table, p, lines, n) ==
    table = [s \in SUBSET (1..n) |->
               IF s = {} THEN p ELSE Feed(table[s \ {Max(s)}], lines[Max(s)])]

(* A set of positions that is not empty has a last one. *)
LEMMA LastPosition ==
  ASSUME NEW n \in Nat, NEW s \in SUBSET (1..(n + 1)), n + 1 \in s
  PROVE  Max(s) = n + 1
<1>1. \A y \in s : n + 1 >= y
  OBVIOUS
<1>2. \A x \in s : (\A y \in s : x >= y) => x = n + 1
  OBVIOUS
<1>3. QED
  BY <1>1, <1>2 DEF Max

(* There is such a table, for lines of every length. *)
LEMMA FoldTableExists ==
  ASSUME NEW p, NEW lines, NEW n \in Nat
  PROVE  \E table : IsFoldTable(table, p, lines, n)
<1> DEFINE Bounded(m) == \A s \in SUBSET (1..m) : s # {} => Max(s) \in s
           S == {m \in Nat : /\ Bounded(m)
                             /\ \E table : IsFoldTable(table, p, lines, m)}
<1>1. 0 \in S
  <2>1. Bounded(0)
    <3>1. \A s \in SUBSET (1..0) : s = {}
      OBVIOUS
    <3>2. QED
      BY <3>1
  <2>2. IsFoldTable([s \in SUBSET (1..0) |-> p], p, lines, 0)
    BY DEF IsFoldTable
  <2>3. QED
    BY <2>1, <2>2
<1>2. ASSUME NEW m \in Nat, m \in S PROVE m + 1 \in S
  <2>1. PICK table : IsFoldTable(table, p, lines, m)
    BY <1>2
  <2>2. Bounded(m)
    BY <1>2
  <2>3. ASSUME NEW s \in SUBSET (1..(m + 1)), m + 1 \notin s
        PROVE  s \in SUBSET (1..m)
    BY <2>3
  <2>4. Bounded(m + 1)
    BY <2>2, <2>3, LastPosition
  <2> DEFINE next == [s \in SUBSET (1..(m + 1)) |->
                        IF m + 1 \in s
                        THEN Feed(table[s \ {m + 1}], lines[m + 1])
                        ELSE table[s]]
  <2>5. ASSUME NEW s \in SUBSET (1..(m + 1))
        PROVE  next[s] = IF s = {} THEN p
                         ELSE Feed(next[s \ {Max(s)}], lines[Max(s)])
    <3>1. CASE m + 1 \in s
      <4>1. Max(s) = m + 1 /\ s # {}
        BY <3>1, LastPosition
      <4>2. s \ {m + 1} \in SUBSET (1..(m + 1)) /\ m + 1 \notin s \ {m + 1}
        OBVIOUS
      <4>3. next[s \ {m + 1}] = table[s \ {m + 1}]
        BY <4>2
      <4>4. next[s] = Feed(table[s \ {m + 1}], lines[m + 1])
        BY <3>1
      <4>5. QED
        BY <4>1, <4>3, <4>4
    <3>2. CASE m + 1 \notin s
      <4>1. s \in SUBSET (1..m)
        BY <2>3, <3>2
      <4>2. next[s] = table[s]
        BY <3>2
      <4>3. table[s] = IF s = {} THEN p
                       ELSE Feed(table[s \ {Max(s)}], lines[Max(s)])
        BY <2>1, <4>1 DEF IsFoldTable
      <4>4. s \ {Max(s)} \in SUBSET (1..(m + 1)) /\ m + 1 \notin s \ {Max(s)}
        BY <3>2
      <4>5. next[s \ {Max(s)}] = table[s \ {Max(s)}]
        BY <4>4
      <4> HIDE DEF next
      <4>6. QED
        BY <4>2, <4>3, <4>5
    <3>3. QED
      BY <3>1, <3>2
  <2>6. next = [s \in SUBSET (1..(m + 1)) |-> next[s]]
    OBVIOUS
  <2> HIDE DEF next
  <2>7. IsFoldTable(next, p, lines, m + 1)
    BY <2>5, <2>6 DEF IsFoldTable
  <2>8. QED
    BY <2>4, <2>7
<1> HIDE DEF S
<1>3. n \in S
  BY <1>1, <1>2, NumbersByInduction
<1>4. QED
  BY <1>3 DEF S

(* A peer fed all the lines that arrived in one read. *)
FedAll(p, lines) == FoldLeft(Feed, p, lines)

(* What is fed in one go is fed line by line: "after" is the peer after    *)
(* each line of them.                                                      *)
LEMMA FedLineByLine ==
  ASSUME NEW p, NEW lines, NEW n \in Nat, DOMAIN lines = 1..n
  PROVE  \E after : /\ after[0] = p
                    /\ \A i \in 0..(n - 1) :
                         after[i + 1] = Feed(after[i], lines[i + 1])
                    /\ FedAll(p, lines) = after[n]
<1> DEFINE table == CHOOSE t : IsFoldTable(t, p, lines, n)
           after == [i \in 0..n |-> table[1..i]]
<1>1. FedAll(p, lines) = table[1..n]
  BY DEF FedAll, FoldLeft, MapThenFoldSet, IsFoldTable
<1>2. IsFoldTable(table, p, lines, n)
  BY FoldTableExists
<1> HIDE DEF table
<1>3. after[0] = p
  <2>1. 1..0 = {} /\ {} \in SUBSET (1..n)
    OBVIOUS
  <2>2. table[{}] = p
    BY <1>2, <2>1 DEF IsFoldTable
  <2>3. QED
    BY <2>1, <2>2
<1>4. ASSUME NEW i \in 0..(n - 1)
      PROVE  after[i + 1] = Feed(after[i], lines[i + 1])
  <2>1. /\ 1..(i + 1) \in SUBSET (1..n) /\ 1..(i + 1) # {}
        /\ (1..(i + 1)) \ {i + 1} = 1..i
    BY <1>4
  <2>2. Max(1..(i + 1)) = i + 1
    BY LastPosition
  <2>3. table[1..(i + 1)] = Feed(table[1..i], lines[i + 1])
    BY <1>2, <2>1, <2>2 DEF IsFoldTable
  <2>4. QED
    BY <2>3
<1>5. after[n] = table[1..n]
  OBVIOUS
<1> HIDE DEF after
<1>6. \A i \in 0..(n - 1) : after[i + 1] = Feed(after[i], lines[i + 1])
  BY <1>4
<1>7. QED
  BY <1>1, <1>3, <1>5, <1>6

-----------------------------------------------------------------------------
(***************************************************************************)
(* What the peer's calls do to the fields the link's properties are about. *)
(***************************************************************************)

(* Two records agree on what a remote shows of them, the error apart.      *)
Same(one, other) ==
    \A field \in {"status", "page", "payload", "delivered"} :
        one[field] = other[field]

(* A peer in its ranges, whose record carries no error of its own.         *)
Sound(p) == p \in Peers /\ p.current_display.error = "NONE"

(* How the peer was started does not change. *)
Alike(p, q) ==
    /\ q.silent = p.silent
    /\ q.reject_every_version = p.reject_every_version

(* q is p, having said a line: a silent peer has not, one whose output is  *)
(* full has only noted it.                                                 *)
Says(p, q, line) ==
    IF p.silent
    THEN q.output = p.output /\ q.output_overflowed = p.output_overflowed
    ELSE \/ q.output = p.output /\ q.output_overflowed
         \/ /\ q.output = Append(p.output, line)
            /\ q.output_overflowed = p.output_overflowed

(* Nothing is said. *)
Holds(p, q) ==
    q.output = p.output /\ q.output_overflowed = p.output_overflowed

(* Every record is one to write an error on. *)
LEMMA WithErrorType ==
  ASSUME NEW r \in DisplayRecords, NEW error \in Errors
  PROVE  /\ WithError(r, error) \in DisplayRecords
         /\ WithError(r, error).error = error
         /\ Same(WithError(r, error), r)
BY DEF WithError, DisplayRecords, Same

(* append_output. *)
LEMMA AppendOutputEffect ==
  ASSUME NEW p \in Peers, NEW line \in InboundLines
  PROVE  LET q == AppendOutput(p, line)
         IN  /\ q \in Peers /\ Alike(p, q) /\ Says(p, q, line)
             /\ q.current_display = p.current_display
             /\ q.handshake_complete = p.handshake_complete
             /\ q.demo_script = p.demo_script
<1>1. p.output \in Seq(InboundLines) /\ Append(p.output, line) \in Seq(InboundLines)
  BY DEF Peers
<1>2. QED
  BY <1>1 DEF AppendOutput, Peers, Alike, Says

(* send_record, of a record that may not encode. *)
LEMMA SendRecordEffect ==
  ASSUME NEW p \in Peers, NEW r \in DisplayRecords
  PROVE  LET q == SendRecord(p, r)
         IN  /\ q \in Peers /\ Alike(p, q)
             /\ q.current_display = p.current_display
             /\ q.handshake_complete = p.handshake_complete
             /\ IF r \in Unencodable THEN Holds(p, q) ELSE Says(p, q, Display(r))
<1>1. Display(r) \in InboundLines
  BY DEF Display, InboundLines
<1>2. QED
  BY <1>1, AppendOutputEffect DEF SendRecord, Alike, Holds

(* What is said of a record, or not for want of an encoding.               *)
Tells(p, q, r) ==
    /\ r \in DisplayRecords
    /\ IF r \in Unencodable THEN Holds(p, q) ELSE Says(p, q, Display(r))

(* The answer to a line: one record, or none and nothing has changed.  Of  *)
(* the lines, HELLO decides whether hands are shaken; and once they are,   *)
(* the record is the peer's own.                                           *)
Answers(p, q, line) ==
    /\ Sound(q) /\ Alike(p, q)
    /\ q.handshake_complete = IF line = Hello THEN ~p.reject_every_version
                              ELSE p.handshake_complete
    /\ \/ line # Hello /\ Holds(p, q) /\ q.current_display = p.current_display
       \/ \E r \in DisplayRecords :
            /\ Tells(p, q, r)
            /\ r.error = "BAD_VERSION" => p.reject_every_version
            /\ q.handshake_complete => Same(r, q.current_display)

(* handle_hello, at the peer's own version. *)
LEMMA HelloIsAnswered ==
  ASSUME NEW p, Sound(p)
  PROVE  Answers(p, HandleHello(p, ProtocolVersion), Hello)
<1>0. /\ p \in Peers /\ p.current_display \in DisplayRecords
      /\ p.current_display.error = "NONE"
      /\ p.reject_every_version \in BOOLEAN
  BY DEF Sound, Peers
<1>1. CASE p.reject_every_version
  <2> DEFINE u == [p EXCEPT !.handshake_complete = FALSE]
             r == WithError(BlankRecord, "BAD_VERSION")
  <2>1. u \in Peers /\ Alike(p, u) /\ u.handshake_complete = FALSE /\ u.output = p.output
        /\ u.silent = p.silent /\ u.output_overflowed = p.output_overflowed
        /\ u.current_display = p.current_display
    BY <1>0 DEF Peers, Alike
  <2>2. r \in DisplayRecords
    BY BlankRecordType, WithErrorType DEF Errors
  <2>3. HandleHello(p, ProtocolVersion) = SendRecord(u, r)
    BY <1>1 DEF HandleHello, SendRecordWithError
  <2> HIDE DEF u, r
  <2> DEFINE q == SendRecord(u, r)
  <2>4. /\ q \in Peers /\ Alike(u, q) /\ Tells(u, q, r)
        /\ q.current_display = u.current_display
        /\ q.handshake_complete = u.handshake_complete
    BY <2>1, <2>2, SendRecordEffect DEF Tells
  <2> HIDE DEF q
  <2>5. Sound(q) /\ Alike(p, q) /\ Tells(p, q, r)
    BY <1>0, <2>1, <2>4 DEF Sound, Alike, Tells, Says, Holds
  <2>6. q.handshake_complete = ~p.reject_every_version
    BY <1>0, <1>1, <2>1, <2>4
  <2>7. QED
    BY <1>1, <2>1, <2>2, <2>3, <2>4, <2>5, <2>6 DEF Answers, q
<1>2. CASE ~p.reject_every_version
  <2> DEFINE u == [p EXCEPT !.handshake_complete = TRUE]
  <2>1. u \in Peers /\ Alike(p, u) /\ u.handshake_complete = TRUE /\ u.output = p.output
        /\ u.silent = p.silent /\ u.output_overflowed = p.output_overflowed
        /\ u.current_display = p.current_display
    BY <1>0 DEF Peers, Alike
  <2>2. HandleHello(p, ProtocolVersion) = SendRecord(u, p.current_display)
    BY <1>2 DEF HandleHello
  <2> HIDE DEF u
  <2>3. Same(p.current_display, p.current_display)
    BY DEF Same
  <2> DEFINE q == SendRecord(u, p.current_display)
  <2>4. /\ q \in Peers /\ Alike(u, q) /\ Tells(u, q, p.current_display)
        /\ q.current_display = u.current_display
        /\ q.handshake_complete = u.handshake_complete
    BY <1>0, <2>1, SendRecordEffect DEF Tells
  <2> HIDE DEF q
  <2>5. Sound(q) /\ Alike(p, q) /\ Tells(p, q, p.current_display)
    BY <1>0, <2>1, <2>4 DEF Sound, Alike, Tells, Says, Holds
  <2>6. QED
    BY <1>0, <1>2, <2>1, <2>2, <2>3, <2>4, <2>5 DEF Answers, q
<1>3. QED
  BY <1>1, <1>2

(* A refusal, of any line but HELLO, from any peer that has a record to    *)
(* refuse it with.                                                         *)
LEMMA RefusalIsAnswer ==
  ASSUME NEW p, Sound(p), NEW r \in DisplayRecords,
         NEW error \in Errors \ {"BAD_VERSION"}, NEW line, line # Hello,
         p.handshake_complete => r = p.current_display
  PROVE  Answers(p, SendRecordWithError(p, r, error), line)
<1> DEFINE t == WithError(r, error)
           q == SendRecord(p, t)
<1>1. t \in DisplayRecords /\ t.error # "BAD_VERSION" /\ Same(t, r)
  BY WithErrorType
<1>2. SendRecordWithError(p, r, error) = q
  BY DEF SendRecordWithError
<1> HIDE DEF t
<1>3. /\ q \in Peers /\ Alike(p, q)
      /\ q.current_display = p.current_display
      /\ q.handshake_complete = p.handshake_complete
      /\ Tells(p, q, t)
  BY <1>1, SendRecordEffect DEF Sound, Tells
<1> HIDE DEF q
<1>4. QED
  BY <1>1, <1>2, <1>3 DEF Answers, Sound

(* The demo script, of any press on a remote that is foregrounded and      *)
(* unlocked.                                                               *)
LEMMA DemoIsAnswer ==
  ASSUME NEW p, Sound(p), NEW event \in Events
  PROVE  Answers(p, ApplyDemoScript(p, event, TRUE), event)
<1> DEFINE record == p.current_display
           after == ApplyDemoScript(p, event, TRUE)
<1>0. /\ p \in Peers /\ record \in DisplayRecords /\ record.error = "NONE"
      /\ event # Hello
      /\ p.demo_wifi_payload \in Payloads /\ p.demo_guest_payload \in Payloads
  BY DEF Sound, Peers, Events, Hello
<1>1. \A error \in Errors \ {"BAD_VERSION"} :
        Answers(p, SendRecordWithError(p, record, error), event)
  BY <1>0, RefusalIsAnswer
<1>2. ASSUME NEW next \in DisplayRecords, next.error = "NONE"
      PROVE  Answers(p, SendRecord([p EXCEPT !.current_display = next], next), event)
  <2> DEFINE u == [p EXCEPT !.current_display = next]
  <2>1. /\ u \in Peers /\ Alike(p, u) /\ u.current_display = next
        /\ u.output = p.output /\ u.output_overflowed = p.output_overflowed
        /\ u.handshake_complete = p.handshake_complete
    BY <1>0 DEF Peers, Alike
  <2> HIDE DEF u
  <2>2. Same(next, next)
    BY DEF Same
  <2> DEFINE q == SendRecord(u, next)
  <2>3. /\ q \in Peers /\ Alike(u, q) /\ Tells(u, q, next)
        /\ q.current_display = next
        /\ q.handshake_complete = u.handshake_complete
    BY <1>2, <2>1, SendRecordEffect DEF Tells
  <2> HIDE DEF q
  <2>4. Sound(q) /\ Alike(p, q) /\ Tells(p, q, next)
    BY <1>2, <2>1, <2>3 DEF Sound, Alike, Tells, Says, Holds
  <2>5. Answers(p, q, event)
    BY <1>0, <1>2, <2>1, <2>2, <2>3, <2>4 DEF Answers
  <2>6. QED
    BY <2>5 DEF q, u
<1>3. ASSUME NEW r \in DisplayRecords, r.error = "NONE", NEW page \in Pages
      PROVE  SetCurrentPage(p, r, page) \in DisplayRecords
             /\ SetCurrentPage(p, r, page).error = "NONE"
  <2>1. DemoPayload(p, page) \in Payloads /\ NoPayload \in Payloads
    BY <1>0, PayloadAssumption DEF DemoPayload
  <2>2. QED
    BY <1>3, <2>1 DEF SetCurrentPage, DisplayRecords
<1>4. Answers(p, p, event)
  BY <1>0 DEF Answers, Sound, Alike, Holds
<1>5. BlankRecord \in DisplayRecords /\ BlankRecord.error = "NONE"
  BY BlankRecordType DEF BlankRecord
<1>6. \A error \in {"ACTIVE", "NO_SESSION"} : error \in Errors \ {"BAD_VERSION"}
  BY DEF Errors
<1>7. "WIFI" \in Pages /\ "GUEST" \in Pages
  BY DEF Pages
<1> DEFINE presenting == [record EXCEPT !.status = "PRESENTING", !.delivered = 0]
<1>8. presenting \in DisplayRecords /\ presenting.error = "NONE"
  BY <1>0, CountAssumption DEF DisplayRecords, Statuses
<1> DEFINE publish(next) ==
             SendRecord([p EXCEPT !.current_display = next], next)
<1>9. CASE event = "CENTER_SHORT"
  <2>1. after = IF record.status # "READY"
                THEN SendRecordWithError(p, record, "ACTIVE")
                ELSE publish(SetCurrentPage(p, presenting, "WIFI"))
    BY <1>9 DEF ApplyDemoScript
  <2> HIDE DEF after, presenting
  <2>2. QED
    BY <1>1, <1>2, <1>3, <1>6, <1>7, <1>8, <2>1 DEF after
<1>10. CASE event = "CENTER_LONG"
  <2>1. after = IF ~(record.status \in {"PRESENTING", "GUEST_CONNECTED"})
                THEN SendRecordWithError(p, record, "NO_SESSION")
                ELSE publish(BlankRecord)
    BY <1>10 DEF ApplyDemoScript
  <2>2. QED
    BY <1>1, <1>2, <1>5, <1>6, <2>1
<1>11. CASE event = "LEFT_SHORT"
  <2>1. after = IF record.status \in {"PRESENTING", "GUEST_CONNECTED"}
                THEN publish(SetCurrentPage(p, record, "WIFI")) ELSE p
    BY <1>11 DEF ApplyDemoScript
  <2>2. QED
    BY <1>0, <1>2, <1>3, <1>4, <1>7, <2>1
<1>12. CASE event = "RIGHT_SHORT"
  <2>1. after = IF record.status \in {"PRESENTING", "GUEST_CONNECTED"}
                THEN publish(SetCurrentPage(p, record, "GUEST")) ELSE p
    BY <1>12 DEF ApplyDemoScript
  <2>2. QED
    BY <1>0, <1>2, <1>3, <1>4, <1>7, <2>1
<1>13. QED
  BY <1>9, <1>10, <1>11, <1>12 DEF Events

(* development_peer_feed: every line of this remote's is answered so.      *)
LEMMA FeedAnswers ==
  ASSUME NEW p, Sound(p), NEW line \in OutboundLines \cup {Torn}
  PROVE  Answers(p, Feed(p, line), line)
<1>0. /\ p \in Peers /\ p.current_display \in DisplayRecords
      /\ BlankRecord \in DisplayRecords
      /\ p.handshake_complete \in BOOLEAN
  BY BlankRecordType DEF Sound, Peers
<1>1. CASE line = Hello
  <2>1. Arrival(line) = HelloFrom(ProtocolVersion, FALSE)
    BY <1>1 DEF Arrival, Hello, Torn
  <2>2. Feed(p, line) = HandleHello(p, ProtocolVersion)
    BY <2>1 DEF Feed, FeedArrival, HelloFrom, HandleMessage
  <2>3. QED
    BY <1>1, <2>2, HelloIsAnswered
<1>2. CASE line = Torn
  <2>1. Feed(p, line) = SendRecordWithError(p, VisibleRecord(p), "BAD_VERB")
    BY <1>2 DEF Feed, FeedArrival, Arrival, RefusedLine, Torn, Hello
  <2>2. "BAD_VERB" \in Errors \ {"BAD_VERSION"} /\ line # Hello
    BY <1>2 DEF Errors, Torn, Hello
  <2>3. VisibleRecord(p) \in DisplayRecords
        /\ (p.handshake_complete => VisibleRecord(p) = p.current_display)
    BY <1>0 DEF VisibleRecord
  <2>4. QED
    BY <2>1, <2>2, <2>3, RefusalIsAnswer
<1>3. CASE line \in Events
  <2>1. line # Hello /\ line # Torn
    BY <1>3 DEF Events, Hello, Torn
  <2>2. Feed(p, line) = HandleMessage(p, Button(line, TRUE))
    BY <2>1 DEF Feed, FeedArrival, Arrival, Button
  <2>3. CASE ~p.handshake_complete
    <3>1. Feed(p, line) = SendRecordWithError(p, BlankRecord, "NO_HELLO")
      BY <2>2, <2>3 DEF HandleMessage, Button
    <3>2. QED
      BY <1>0, <2>1, <2>3, <3>1, RefusalIsAnswer DEF Errors
  <2>4. CASE p.handshake_complete /\ p.demo_script
    <3>1. Feed(p, line) = ApplyDemoScript(p, line, TRUE)
      BY <2>2, <2>4 DEF HandleMessage, Button
    <3>2. QED
      BY <1>3, <3>1, DemoIsAnswer
  <2>5. CASE p.handshake_complete /\ ~p.demo_script
    <3>1. Feed(p, line) = p
      BY <2>2, <2>5 DEF HandleMessage, Button
    <3>2. QED
      BY <2>1, <3>1 DEF Answers, Alike, Holds, Sound, Peers
  <2>6. QED
    BY <2>3, <2>4, <2>5
<1>4. QED
  BY <1>1, <1>2, <1>3 DEF OutboundLines

(* What a command but "drop" does: nothing the remote will hear of; a      *)
(* record that is the peer's own, the error apart; or a line that is no    *)
(* record.                                                                 *)
Obeys(p, q, command) ==
    /\ Sound(q) /\ Alike(p, q)
    /\ q.handshake_complete = p.handshake_complete
    /\ \/ Holds(p, q) /\ q.current_display = p.current_display
       \/ \E r \in DisplayRecords :
            /\ Says(p, q, Display(r))
            /\ Same(r, q.current_display)
            /\ r.error = "BAD_VERSION" => command = <<"error", "BAD_VERSION">>
       \/ \E line \in InboundLines :
            /\ Says(p, q, line)
            /\ line.kind # "display"
            /\ line.kind = "partial" => command = <<"partial">>
            /\ q.current_display = p.current_display

(* A peer nothing was asked of. *)
LEMMA NothingObeys ==
  ASSUME NEW p, Sound(p), NEW command
  PROVE  Obeys(p, p, command)
BY DEF Obeys, Alike, Holds, Sound, Peers

(* development_peer_set_display, of any record. *)
LEMMA SetDisplayObeys ==
  ASSUME NEW p, Sound(p), NEW r \in DisplayRecords, r.error # "BAD_VERSION",
         NEW command
  PROVE  Obeys(p, SetDisplay(p, r), command)
<1> DEFINE kept == WithError(r, "NONE")
           u == [p EXCEPT !.current_display = kept]
           q == AppendOutput(u, Display(r))
<1>0. p \in Peers /\ "NONE" \in Errors
  BY DEF Sound, Errors
<1>1. kept \in DisplayRecords /\ kept.error = "NONE" /\ Same(kept, r)
  BY <1>0, WithErrorType
<1>2. SetDisplay(p, r) = IF r.payload \in BadPayloads \/ r \in Unencodable
                         THEN p ELSE q
  BY DEF SetDisplay
<1> HIDE DEF kept
<1>3. /\ u \in Peers /\ Alike(p, u) /\ u.current_display = kept
      /\ u.output = p.output /\ u.output_overflowed = p.output_overflowed
      /\ u.handshake_complete = p.handshake_complete
  BY <1>0, <1>1 DEF Peers, Alike
<1>4. Display(r) \in InboundLines
  BY DEF Display, InboundLines
<1> HIDE DEF u
<1>5. /\ q \in Peers /\ Alike(u, q) /\ Says(u, q, Display(r))
      /\ q.current_display = kept
      /\ q.handshake_complete = u.handshake_complete
  BY <1>3, <1>4, AppendOutputEffect
<1> HIDE DEF q
<1>6. Sound(q) /\ Alike(p, q) /\ Says(p, q, Display(r)) /\ Same(r, q.current_display)
  BY <1>1, <1>3, <1>5 DEF Sound, Alike, Says, Same
<1>7. Obeys(p, q, command)
  BY <1>3, <1>5, <1>6 DEF Obeys
<1>8. QED
  BY <1>2, <1>7, NothingObeys

(* send_error, and the record sent again.                                  *)
LEMMA SendErrorObeys ==
  ASSUME NEW p, Sound(p), NEW r \in DisplayRecords, Same(r, p.current_display),
         NEW command,
         r.error = "BAD_VERSION" => command = <<"error", "BAD_VERSION">>
  PROVE  Obeys(p, SendRecord(p, r), command)
<1> DEFINE q == SendRecord(p, r)
<1>1. /\ q \in Peers /\ Alike(p, q)
      /\ q.current_display = p.current_display
      /\ q.handshake_complete = p.handshake_complete
      /\ IF r \in Unencodable THEN Holds(p, q) ELSE Says(p, q, Display(r))
  BY SendRecordEffect DEF Sound
<1> HIDE DEF q
<1>2. Obeys(p, q, command)
  BY <1>1 DEF Obeys, Sound
<1>3. QED
  BY <1>2 DEF q

(* The lines that are no record. *)
LEMMA LineObeys ==
  ASSUME NEW p, Sound(p), NEW line \in InboundLines, line.kind # "display",
         NEW command, line.kind = "partial" => command = <<"partial">>
  PROVE  Obeys(p, AppendOutput(p, line), command)
<1> DEFINE q == AppendOutput(p, line)
<1>1. /\ q \in Peers /\ Alike(p, q) /\ Says(p, q, line)
      /\ q.current_display = p.current_display
      /\ q.handshake_complete = p.handshake_complete
  BY AppendOutputEffect DEF Sound
<1> HIDE DEF q
<1>2. Obeys(p, q, command)
  BY <1>1 DEF Obeys, Sound
<1>3. QED
  BY <1>2 DEF q

(* apply_command, of every command but "drop".                             *)
LEMMA ApplyCommandObeys ==
  ASSUME NEW p, Sound(p), NEW command \in OperatorCommands, command # <<"drop">>
  PROVE  Obeys(p, ApplyCommand(p, command), command)
<1> DEFINE q == ApplyCommand(p, command)
           d == p.current_display
<1> SUFFICES Obeys(p, q, command)
  OBVIOUS
<1>0. /\ p \in Peers /\ d \in DisplayRecords /\ d.error = "NONE"
      /\ p.demo_wifi_payload \in Payloads /\ p.demo_guest_payload \in Payloads
  BY DEF Sound, Peers
<1>1. ASSUME NEW status \in Statuses
      PROVE  Obeys(p, ShowStatus(p, status), command)
  <2>1. [BlankRecord EXCEPT !.status = status] \in DisplayRecords
        /\ [BlankRecord EXCEPT !.status = status].error # "BAD_VERSION"
    BY BlankRecordType DEF BlankRecord, DisplayRecords
  <2>2. QED
    BY <2>1, SetDisplayObeys DEF ShowStatus
<1>2. ASSUME NEW status \in Statuses, NEW page \in Pages
      PROVE  Obeys(p, ShowPage(p, status, page), command)
  <2> DEFINE payload == IF page = "WIFI" THEN p.demo_wifi_payload
                        ELSE p.demo_guest_payload
             r == [d EXCEPT !.status = status, !.page = page,
                            !.payload = payload, !.error = "NONE"]
  <2>1. ShowPage(p, status, page) = SetDisplay(p, r)
    BY DEF ShowPage
  <2>2. payload \in Payloads
    BY <1>0
  <2> HIDE DEF payload
  <2>3. r \in DisplayRecords /\ r.error # "BAD_VERSION"
    BY <1>0, <2>2 DEF DisplayRecords, Errors
  <2> HIDE DEF r
  <2>4. QED
    BY <2>1, <2>3, SetDisplayObeys
<1>3. ASSUME NEW count \in Nat
      PROVE  Obeys(p, ShowDelivered(p, count), command)
  <2> DEFINE r == [d EXCEPT !.delivered = count, !.error = "NONE"]
  <2>1. ShowDelivered(p, count) = IF count \notin Counts THEN p ELSE SetDisplay(p, r)
    BY DEF ShowDelivered
  <2>2. count \in Counts => r \in DisplayRecords /\ r.error # "BAD_VERSION"
    BY <1>0 DEF DisplayRecords, Errors
  <2> HIDE DEF r
  <2>3. QED
    BY <2>1, <2>2, SetDisplayObeys, NothingObeys
<1>4. CASE command[1] = "ready"
  BY <1>1, <1>4 DEF ApplyCommand, Statuses
<1>5. CASE command[1] = "terminating"
  BY <1>1, <1>5 DEF ApplyCommand, Statuses
<1>6. CASE command[1] = "recovery"
  BY <1>1, <1>6 DEF ApplyCommand, Statuses
<1>7. ASSUME NEW page \in Pages, command = <<"presenting", page>>
      PROVE  Obeys(p, q, command)
  <2>1. q = ShowPage(p, "PRESENTING", page)
    BY <1>7 DEF ApplyCommand
  <2>2. QED
    BY <1>2, <2>1 DEF Statuses
<1>8. ASSUME NEW page \in Pages, command = <<"guest", page>>
      PROVE  Obeys(p, q, command)
  <2>1. q = ShowPage(p, "GUEST_CONNECTED", page)
    BY <1>8 DEF ApplyCommand
  <2>2. QED
    BY <1>2, <2>1 DEF Statuses
<1>9. ASSUME NEW count \in Nat, command = <<"deliver", count>>
      PROVE  Obeys(p, q, command)
  <2>1. q = ShowDelivered(p, count)
    BY <1>9 DEF ApplyCommand
  <2>2. QED
    BY <1>3, <2>1
<1>10. ASSUME NEW word, command = <<"error", word>>
       PROVE  Obeys(p, q, command)
  <2> DEFINE error == IF word \in Errors THEN word ELSE "NONE"
             r == WithError(d, error)
  <2>1. q = SendRecord(p, r)
    BY <1>10 DEF ApplyCommand, SendError, SendRecordWithError
  <2>2. error \in Errors /\ (error = "BAD_VERSION" => word = "BAD_VERSION")
    BY DEF Errors
  <2> HIDE DEF error
  <2>3. r \in DisplayRecords /\ r.error = error /\ Same(r, d)
    BY <1>0, <2>2, WithErrorType
  <2> HIDE DEF r, q
  <2>4. QED
    BY <1>10, <2>1, <2>2, <2>3, SendErrorObeys
<1>11. ASSUME NEW payload \in Payloads, command = <<"wifi", payload>>
       PROVE  Obeys(p, q, command)
  <2>1. q = [p EXCEPT !.demo_wifi_payload = payload]
    BY <1>11 DEF ApplyCommand
  <2> HIDE DEF q
  <2>2. QED
    BY <1>0, <2>1 DEF Obeys, Sound, Alike, Holds, Peers
<1>12. ASSUME NEW payload \in Payloads, command = <<"url", payload>>
       PROVE  Obeys(p, q, command)
  <2>1. q = [p EXCEPT !.demo_guest_payload = payload]
    BY <1>12 DEF ApplyCommand
  <2> HIDE DEF q
  <2>2. QED
    BY <1>0, <2>1 DEF Obeys, Sound, Alike, Holds, Peers
<1>13. CASE command[1] = "demo"
  <2>1. q = [p EXCEPT !.demo_script = (command[2] = "on")]
    BY <1>13 DEF ApplyCommand
  <2> DEFINE on == command[2] = "on"
  <2>2. on \in BOOLEAN
    OBVIOUS
  <2>3. q = [p EXCEPT !.demo_script = on]
    BY <2>1
  <2> HIDE DEF q, on
  <2>4. QED
    BY <1>0, <2>2, <2>3 DEF Obeys, Sound, Alike, Holds, Peers
<1>14. CASE command[1] = "resend"
  <2>1. q = SendRecord(p, d)
    BY <1>14 DEF ApplyCommand, ResendDisplay
  <2>2. Same(d, d) /\ d.error # "BAD_VERSION"
    BY <1>0 DEF Same
  <2>3. QED
    BY <1>0, <2>1, <2>2, SendErrorObeys
<1>15. CASE command[1] = "noise"
  <2> DEFINE line == [kind |-> "noise", record |-> BlankRecord]
  <2>1. q = AppendOutput(p, line)
    BY <1>15 DEF ApplyCommand, SendNoise
  <2>2. line \in InboundLines /\ line.kind = "noise"
    BY BlankRecordType DEF InboundLines
  <2> HIDE DEF line, q
  <2>3. line.kind # "display" /\ line.kind # "partial"
    BY <2>2
  <2>4. Obeys(p, AppendOutput(p, line), command)
    BY <2>2, <2>3, LineObeys
  <2>5. QED
    BY <2>1, <2>4
<1>16. CASE command = <<"partial">>
  <2> DEFINE line == [kind |-> "partial", record |-> d]
  <2>1. q = IF d \in Unencodable THEN p ELSE AppendOutput(p, line)
    BY <1>16 DEF ApplyCommand, SendPartialRecord
  <2>2. line \in InboundLines /\ line.kind = "partial"
    BY <1>0 DEF InboundLines
  <2> HIDE DEF line, q
  <2>3. Obeys(p, AppendOutput(p, line), command)
    <3>1. line.kind # "display"
      BY <2>2
    <3>2. QED
      BY <1>16, <2>2, <3>1, LineObeys
  <2>4. QED
    BY <2>1, <2>3, NothingObeys
<1>17. ASSUME NEW word \in {"ready", "terminating", "recovery", "resend",
                             "noise", "partial"},
              command = <<word>>
       PROVE  Obeys(p, q, command)
  <2>1. command[1] = word
    BY <1>17
  <2> HIDE DEF q
  <2>2. QED
    BY <1>4, <1>5, <1>6, <1>14, <1>15, <1>16, <1>17, <2>1
<1>18. ASSUME NEW state \in {"on", "off"}, command = <<"demo", state>>
       PROVE  Obeys(p, q, command)
  BY <1>13, <1>18
<1>19. \/ \E word \in {"ready", "terminating", "recovery", "resend", "noise",
                       "partial"} : command = <<word>>
       \/ \E page \in Pages : command = <<"presenting", page>>
       \/ \E page \in Pages : command = <<"guest", page>>
       \/ \E count \in Nat : command = <<"deliver", count>>
       \/ \E word : command = <<"error", word>>
       \/ \E payload \in Payloads : command = <<"wifi", payload>>
       \/ \E payload \in Payloads : command = <<"url", payload>>
       \/ \E state \in {"on", "off"} : command = <<"demo", state>>
  <2>1. \/ \E word \in {"ready", "terminating", "recovery", "resend", "noise",
                         "partial", "drop"} : command = <<word>>
        \/ command \in {"presenting", "guest"} \X Pages
        \/ command \in {"deliver"} \X Nat
        \/ command \in {"error"} \X STRING
        \/ command \in {"wifi", "url"} \X Payloads
        \/ command \in {"demo"} \X {"on", "off"}
    BY DEF OperatorCommands
  <2>2. CASE \E word \in {"ready", "terminating", "recovery", "resend", "noise",
                          "partial", "drop"} : command = <<word>>
    BY <2>2
  <2>3. CASE command \in {"presenting", "guest"} \X Pages
    BY <2>3
  <2>4. CASE command \in {"deliver"} \X Nat
    BY <2>4
  <2>5. CASE command \in {"error"} \X STRING
    BY <2>5
  <2>6. CASE command \in {"wifi", "url"} \X Payloads
    BY <2>6
  <2>7. CASE command \in {"demo"} \X {"on", "off"}
    BY <2>7
  <2>8. QED
    BY <2>1, <2>2, <2>3, <2>4, <2>5, <2>6, <2>7
<1> HIDE DEF q
<1>20. QED
  BY <1>7, <1>8, <1>9, <1>10, <1>11, <1>12, <1>17, <1>18, <1>19

(* A peer just started, and one whose link was dropped, have said nothing  *)
(* and know nothing.                                                       *)
Fresh(p) ==
    /\ ~p.handshake_complete
    /\ p.output = <<>>
    /\ p.output_overflowed = FALSE

(* main starts the peer so, silent or not, rejecting or not.               *)
LEMMA InitialPeerFresh ==
  ASSUME NEW silent \in BOOLEAN, NEW reject \in BOOLEAN, NEW demo \in BOOLEAN
  PROVE  LET p == InitialPeer(silent, reject, demo)
         IN  /\ Sound(p) /\ Fresh(p)
             /\ p.silent = silent /\ p.reject_every_version = reject
BY BlankRecordType, EmptyIsSeq, DemoPayloadAssumption
DEF InitialPeer, Sound, Fresh, Peers, BlankRecord

(* development_peer_link_dropped leaves such a peer, with its record.      *)
LEMMA LinkDroppedFresh ==
  ASSUME NEW p, Sound(p)
  PROVE  /\ Sound(LinkDropped(p)) /\ Fresh(LinkDropped(p)) /\ Alike(p, LinkDropped(p))
         /\ LinkDropped(p).current_display = p.current_display
BY EmptyIsSeq DEF LinkDropped, Sound, Fresh, Alike, Peers

-----------------------------------------------------------------------------
(***************************************************************************)
(* The lines on their way.                                                 *)
(***************************************************************************)

(* What is in a sequence, once it is lengthened, shortened or joined.      *)
LEMMA LinesOf ==
  ASSUME NEW S, NEW s \in Seq(S)
  PROVE  /\ \A x : ToSet(Append(s, x)) = ToSet(s) \cup {x}
         /\ s # <<>> => Head(s) \in ToSet(s) /\ ToSet(Tail(s)) \subseteq ToSet(s)
         /\ \A t \in Seq(S) : ToSet(s \o t) = ToSet(s) \cup ToSet(t)
         /\ ToSet(s) \subseteq S
<1>1. ASSUME NEW x PROVE ToSet(Append(s, x)) = ToSet(s) \cup {x}
  <2> DEFINE t == Append(s, x)
  <2>1. /\ DOMAIN s = 1..Len(s) /\ Len(s) \in Nat
        /\ DOMAIN t = 1..(Len(s) + 1)
        /\ t[Len(s) + 1] = x
        /\ \A i \in 1..Len(s) : t[i] = s[i]
    OBVIOUS
  <2> HIDE DEF t
  <2>2. \A i \in DOMAIN t : i \in DOMAIN s \/ i = Len(s) + 1
    BY <2>1
  <2>3. ToSet(t) = ToSet(s) \cup {x}
    BY <2>1, <2>2 DEF ToSet
  <2>4. QED
    BY <2>3 DEF t
<1>2. ASSUME s # <<>> PROVE Head(s) \in ToSet(s) /\ ToSet(Tail(s)) \subseteq ToSet(s)
  <2>1. /\ DOMAIN s = 1..Len(s) /\ Len(s) \in Nat /\ Len(s) # 0
        /\ Head(s) = s[1]
        /\ DOMAIN Tail(s) = 1..(Len(s) - 1)
        /\ \A i \in 1..(Len(s) - 1) : Tail(s)[i] = s[i + 1]
    BY <1>2
  <2>2. 1 \in DOMAIN s /\ \A i \in DOMAIN Tail(s) : i + 1 \in DOMAIN s
    BY <2>1
  <2>3. QED
    BY <2>1, <2>2 DEF ToSet
<1>3. ASSUME NEW t \in Seq(S) PROVE ToSet(s \o t) = ToSet(s) \cup ToSet(t)
  <2> DEFINE u == s \o t
  <2>1. /\ DOMAIN s = 1..Len(s) /\ Len(s) \in Nat
        /\ DOMAIN t = 1..Len(t) /\ Len(t) \in Nat
        /\ DOMAIN u = 1..(Len(s) + Len(t))
        /\ \A i \in 1..Len(s) : u[i] = s[i]
        /\ \A i \in 1..Len(t) : u[i + Len(s)] = t[i]
    OBVIOUS
  <2> HIDE DEF u
  <2>2. \A i \in DOMAIN u : i \in DOMAIN s \/ i - Len(s) \in DOMAIN t
    BY <2>1
  <2>3. ToSet(u) \subseteq ToSet(s) \cup ToSet(t)
    <3>1. SUFFICES ASSUME NEW i \in DOMAIN u PROVE u[i] \in ToSet(s) \cup ToSet(t)
      BY DEF ToSet
    <3>2. CASE i \in DOMAIN s
      BY <2>1, <3>2 DEF ToSet
    <3>3. CASE i - Len(s) \in DOMAIN t
      <4>1. u[i] = t[i - Len(s)]
        BY <2>1, <3>3
      <4>2. QED
        BY <3>3, <4>1 DEF ToSet
    <3>4. QED
      BY <2>2, <3>2, <3>3
  <2>4. ToSet(s) \cup ToSet(t) \subseteq ToSet(u)
    <3>1. ToSet(s) \subseteq ToSet(u)
      BY <2>1 DEF ToSet
    <3>2. ASSUME NEW i \in DOMAIN t PROVE t[i] \in ToSet(u)
      <4>1. i + Len(s) \in DOMAIN u /\ u[i + Len(s)] = t[i]
        BY <2>1
      <4>2. QED
        BY <4>1 DEF ToSet
    <3>3. QED
      BY <3>1, <3>2 DEF ToSet
  <2>5. QED
    BY <2>3, <2>4 DEF u
<1>4. ToSet(s) \subseteq S
  BY DEF ToSet
<1>5. QED
  BY <1>1, <1>2, <1>3, <1>4

(* No record is among the lines. *)
NoRecord(lines) == \A k \in 1..Len(lines) : lines[k].kind # "display"

(* The last record among the lines is this one, the error apart. *)
LastShows(lines, record) ==
    \E i \in 1..Len(lines) :
        /\ lines[i].kind = "display"
        /\ Same(lines[i].record, record)
        /\ \A k \in (i + 1)..Len(lines) : lines[k].kind # "display"

(* A record said is the last one; a line that is no record changes none.   *)
LEMMA LastShowsAppend ==
  ASSUME NEW S, NEW lines \in Seq(S), NEW x, NEW record
  PROVE  LET t == Append(lines, x)
         IN  /\ x.kind = "display" /\ Same(x.record, record) => LastShows(t, record)
             /\ x.kind # "display" /\ LastShows(lines, record) => LastShows(t, record)
             /\ x.kind # "display" /\ NoRecord(lines) => NoRecord(t)
<1> DEFINE t == Append(lines, x)
           n == Len(lines)
<1>1. /\ n \in Nat /\ Len(t) = n + 1 /\ t[n + 1] = x
      /\ \A i \in 1..n : t[i] = lines[i]
  OBVIOUS
<1> HIDE DEF t
<1>2. ASSUME x.kind = "display", Same(x.record, record) PROVE LastShows(t, record)
  <2>1. n + 1 \in 1..Len(t) /\ ((n + 1) + 1)..Len(t) = {}
    BY <1>1
  <2>2. QED
    BY <1>1, <1>2, <2>1 DEF LastShows
<1>3. ASSUME x.kind # "display", LastShows(lines, record) PROVE LastShows(t, record)
  <2>1. PICK i \in 1..n : /\ lines[i].kind = "display" /\ Same(lines[i].record, record)
                          /\ \A k \in (i + 1)..n : lines[k].kind # "display"
    BY <1>3 DEF LastShows
  <2>2. i \in 1..Len(t) /\ t[i] = lines[i]
    BY <1>1
  <2>3. \A k \in (i + 1)..Len(t) : k = n + 1 \/ (k \in (i + 1)..n /\ k \in 1..n)
    BY <1>1
  <2>4. \A k \in (i + 1)..Len(t) : t[k].kind # "display"
    BY <1>1, <1>3, <2>1, <2>3
  <2>5. QED
    BY <2>1, <2>2, <2>4 DEF LastShows
<1>4. ASSUME x.kind # "display", NoRecord(lines) PROVE NoRecord(t)
  <2>1. \A k \in 1..Len(t) : k = n + 1 \/ k \in 1..n
    BY <1>1
  <2>2. QED
    BY <1>1, <1>4, <2>1 DEF NoRecord
<1>5. QED
  BY <1>2, <1>3, <1>4 DEF t

(* Without its first line, the last record is still there, or was that.    *)
LEMMA LastShowsTail ==
  ASSUME NEW S, NEW lines \in Seq(S), lines # <<>>, NEW record
  PROVE  /\ LastShows(lines, record) =>
              \/ LastShows(Tail(lines), record)
              \/ /\ NoRecord(Tail(lines))
                 /\ Head(lines).kind = "display" /\ Same(Head(lines).record, record)
         /\ NoRecord(lines) => NoRecord(Tail(lines)) /\ Head(lines).kind # "display"
<1> DEFINE t == Tail(lines)
           n == Len(lines)
<1>1. /\ n \in Nat \ {0} /\ Len(t) = n - 1 /\ Head(lines) = lines[1]
      /\ \A i \in 1..(n - 1) : t[i] = lines[i + 1]
  OBVIOUS
<1> HIDE DEF t
<1>2. ASSUME LastShows(lines, record)
      PROVE  \/ LastShows(t, record)
             \/ /\ NoRecord(t)
                /\ Head(lines).kind = "display" /\ Same(Head(lines).record, record)
  <2>1. PICK i \in 1..n : /\ lines[i].kind = "display" /\ Same(lines[i].record, record)
                          /\ \A k \in (i + 1)..n : lines[k].kind # "display"
    BY <1>2 DEF LastShows
  <2>2. CASE i = 1
    <3>1. \A k \in 1..Len(t) : k \in 1..(n - 1) /\ k + 1 \in (i + 1)..n
      BY <1>1, <2>2
    <3>2. NoRecord(t)
      BY <1>1, <2>1, <3>1 DEF NoRecord
    <3>3. QED
      BY <1>1, <2>1, <2>2, <3>2
  <2>3. CASE i # 1
    <3>1. i - 1 \in 1..Len(t) /\ t[i - 1] = lines[i]
      BY <1>1, <2>3
    <3>2. \A k \in ((i - 1) + 1)..Len(t) : k \in 1..(n - 1) /\ k + 1 \in (i + 1)..n
      BY <1>1, <2>3
    <3>3. LastShows(t, record)
      BY <1>1, <2>1, <3>1, <3>2 DEF LastShows
    <3>4. QED
      BY <3>3
  <2>4. QED
    BY <2>2, <2>3
<1>3. ASSUME NoRecord(lines) PROVE NoRecord(t) /\ Head(lines).kind # "display"
  <2>1. 1 \in 1..n /\ \A k \in 1..Len(t) : k \in 1..(n - 1) /\ k + 1 \in 1..n
    BY <1>1
  <2>2. QED
    BY <1>1, <1>3, <2>1 DEF NoRecord
<1>4. QED
  BY <1>2, <1>3 DEF t

(* What is said last is last, whatever was on its way before it. *)
LEMMA LastShowsBehind ==
  ASSUME NEW S, NEW s \in Seq(S), NEW t \in Seq(S), NEW record, LastShows(t, record)
  PROVE  LastShows(s \o t, record)
<1> DEFINE u == s \o t
           m == Len(s)
           n == Len(t)
<1>1. /\ m \in Nat /\ n \in Nat /\ Len(u) = m + n
      /\ \A i \in 1..n : u[i + m] = t[i]
  OBVIOUS
<1>2. PICK i \in 1..n : /\ t[i].kind = "display" /\ Same(t[i].record, record)
                        /\ \A k \in (i + 1)..n : t[k].kind # "display"
  BY DEF LastShows
<1> HIDE DEF u, m
<1>3. i + m \in 1..Len(u)
  BY <1>1
<1>4. ASSUME NEW k \in ((i + m) + 1)..Len(u) PROVE u[k].kind # "display"
  <2>1. k - m \in (i + 1)..n /\ k - m \in 1..n /\ k = (k - m) + m
    BY <1>1
  <2>2. u[k] = t[k - m]
    BY <1>1, <2>1
  <2>3. QED
    BY <1>2, <2>1, <2>2
<1>5. LastShows(u, record)
  BY <1>1, <1>2, <1>3, <1>4 DEF LastShows
<1>6. QED
  BY <1>5 DEF u

(* A line the session reads, whatever it is. *)
LEMMA ReceiveLineEffect ==
  ASSUME NEW s, Safe(s), NEW line \in InboundLines
  PROVE  LET t == ReceiveLine(s, line)
         IN  /\ Safe(t) /\ t.output = s.output
             /\ line.kind # "partial" => t.inbound = <<>>
             /\ line.kind # "display" => SameLink(s, t)
             /\ \/ SameLink(s, t)
                \/ /\ line.record.error = "BAD_VERSION"
                   /\ t.link_state = "Incompatible"
                \/ t.link_state = "Connected"
             /\ /\ line.kind = "display" /\ s.inbound = <<>>
                /\ t.link_state = "Connected"
                => t.current_display = line.record
<1> DEFINE t == ReceiveLine(s, line)
<1>0. line.record \in DisplayRecords /\ line.kind \in {"display", "partial", "noise"}
  BY DEF InboundLines
<1>1. CASE line.kind = "display"
  <2> DEFINE u == ReceiveBack(ReceiveFront(s, line.record), line.record)
  <2>1. t = u
    BY <1>1 DEF ReceiveLine
  <2>2. /\ Safe(u) /\ u.inbound = <<>> /\ u.output = s.output
        /\ \/ SameLink(s, u) /\ s.inbound # <<>>
           \/ /\ line.record.error = "BAD_VERSION" /\ s.link_state # "Connected"
              /\ u.link_state = "Incompatible"
           \/ /\ u.link_state = "Connected"
              /\ line.record.error = "BAD_VERSION" => s.link_state = "Connected"
              /\ s.inbound = <<>> => u.current_display = line.record
    BY <1>0, ReceiveDisplayEffect
  <2> HIDE DEF u
  <2>3. QED
    BY <1>1, <2>1, <2>2
<1>2. CASE line.kind = "partial"
  <2>1. t = ReceiveFront(s, line.record)
    BY <1>2 DEF ReceiveLine
  <2>2. Safe(t) /\ SameLink(s, t) /\ t.output = s.output
    BY <1>0, <2>1, ReceivePartialEffect
  <2> HIDE DEF t
  <2>3. QED
    BY <1>2, <2>2 DEF t
<1>3. CASE line.kind = "noise"
  <2>1. t = ReceiveOther(s)
    BY <1>3 DEF ReceiveLine
  <2>2. Safe(t) /\ SameLink(s, t) /\ t.output = s.output /\ t.inbound = <<>>
    BY <2>1, ReceiveNoiseEffect
  <2> HIDE DEF t
  <2>3. QED
    BY <1>3, <2>2 DEF t
<1>4. QED
  BY <1>0, <1>1, <1>2, <1>3

(* The answers a peer can have given, by whether it rejects the version. *)
OwnAnswers(reject) ==
    {Display(r) : r \in {d \in DisplayRecords : d.error = "BAD_VERSION" => reject}}

(* Its answers, and only they, are added to what it says. *)
LEMMA AnswersAdd ==
  ASSUME NEW p, Sound(p), NEW line, NEW q, Answers(p, q, line)
  PROVE  /\ ToSet(q.output) \subseteq
              ToSet(p.output) \cup OwnAnswers(p.reject_every_version)
         /\ p.silent => q.output = p.output
<1>0. p.output \in Seq(InboundLines)
  BY DEF Sound, Peers
<1>1. CASE Holds(p, q)
  BY <1>1 DEF Holds
<1>2. CASE \E r \in DisplayRecords :
             /\ Tells(p, q, r)
             /\ r.error = "BAD_VERSION" => p.reject_every_version
  <2>1. PICK r \in DisplayRecords : /\ Tells(p, q, r)
                                    /\ r.error = "BAD_VERSION" => p.reject_every_version
    BY <1>2
  <2>2. Display(r) \in OwnAnswers(p.reject_every_version)
    BY <2>1 DEF OwnAnswers
  <2>3. ToSet(Append(p.output, Display(r))) = ToSet(p.output) \cup {Display(r)}
    BY <1>0, LinesOf
  <2>4. QED
    BY <2>1, <2>2, <2>3 DEF Tells, Says, Holds
<1>3. QED
  BY <1>1, <1>2 DEF Answers

(* What the peer is after the lines up to i. *)
Fed(p, q, lines, i) ==
    /\ Sound(q) /\ Alike(p, q)
    /\ q.handshake_complete = IF \E j \in 1..i : lines[j] = Hello
                              THEN ~p.reject_every_version
                              ELSE p.handshake_complete
    /\ ToSet(q.output) \subseteq ToSet(p.output) \cup OwnAnswers(p.reject_every_version)
    /\ p.silent => q.output = p.output
    /\ /\ ~p.silent /\ ~p.reject_every_version /\ Unencodable = {}
       /\ ~q.output_overflowed
       /\ \E j \in 1..i : lines[j] = Hello
       => LastShows(q.output, q.current_display)

(* One more line answered, once hands are shaken, is one more record shown. *)
LEMMA AnswerShows ==
  ASSUME NEW p, Sound(p), ~p.silent, Unencodable = {}, NEW line, NEW q,
         Answers(p, q, line), q.handshake_complete, ~q.output_overflowed
  PROVE  /\ ~p.output_overflowed
         /\ \/ /\ line # Hello /\ q.output = p.output
               /\ q.current_display = p.current_display
            \/ \E r \in DisplayRecords : /\ q.output = Append(p.output, Display(r))
                                         /\ Same(r, q.current_display)
BY DEF Answers, Holds, Tells, Says

(* A peer that is fed line by line answers line by line. *)
LEMMA FedEffect ==
  ASSUME NEW p, Sound(p), NEW lines, NEW n \in Nat, DOMAIN lines = 1..n,
         \A i \in 1..n : lines[i] \in OutboundLines \cup {Torn}
  PROVE  Fed(p, FedAll(p, lines), lines, n)
<1>2. PICK after : /\ after[0] = p
                   /\ \A i \in 0..(n - 1) :
                        after[i + 1] = Feed(after[i], lines[i + 1])
                   /\ FedAll(p, lines) = after[n]
  BY FedLineByLine
<1> DEFINE S == {i \in Nat : i <= n => Fed(p, after[i], lines, i)}
<1>3. 0 \in S
  <2>1. ~\E j \in 1..0 : lines[j] = Hello
    OBVIOUS
  <2>2. Fed(p, after[0], lines, 0)
    BY <1>2, <2>1 DEF Fed, Alike
  <2>3. QED
    BY <2>2
<1>4. ASSUME NEW i \in Nat, i \in S PROVE i + 1 \in S
  <2> DEFINE u == after[i]
             q == after[i + 1]
             line == lines[i + 1]
  <2>1. SUFFICES ASSUME i + 1 <= n PROVE Fed(p, q, lines, i + 1)
    OBVIOUS
  <2>2. Fed(p, u, lines, i)
    BY <1>4, <2>1
  <2>3. q = Feed(u, line)
    BY <1>2, <2>1
  <2>4. line \in OutboundLines \cup {Torn}
    BY <2>1
  <2>5. Answers(u, q, line)
    BY <2>2, <2>3, <2>4, FeedAnswers DEF Fed
  <2>6. (\E j \in 1..(i + 1) : lines[j] = Hello)
          <=> line = Hello \/ (\E j \in 1..i : lines[j] = Hello)
    <3>1. 1..(i + 1) = (1..i) \cup {i + 1}
      OBVIOUS
    <3>2. QED
      BY <3>1
  <2>7. /\ ToSet(q.output) \subseteq
             ToSet(u.output) \cup OwnAnswers(u.reject_every_version)
        /\ u.silent => q.output = u.output
    BY <2>2, <2>5, AnswersAdd DEF Fed
  <2> HIDE DEF u, q, line
  <2>8. ASSUME ~p.silent, ~p.reject_every_version, Unencodable = {},
               ~q.output_overflowed, \E j \in 1..(i + 1) : lines[j] = Hello
        PROVE  LastShows(q.output, q.current_display)
    <3>1. Sound(u) /\ ~u.silent /\ ~u.reject_every_version
      BY <2>2, <2>8 DEF Fed, Alike
    <3>2. q.handshake_complete
      BY <2>2, <2>5, <2>6, <2>8, <3>1 DEF Fed, Answers
    <3>3. u.output \in Seq(InboundLines)
      BY <3>1 DEF Sound, Peers
    <3>4. /\ ~u.output_overflowed
          /\ \/ /\ line # Hello /\ q.output = u.output
                /\ q.current_display = u.current_display
             \/ \E r \in DisplayRecords : /\ q.output = Append(u.output, Display(r))
                                          /\ Same(r, q.current_display)
      BY <2>5, <2>8, <3>1, <3>2, AnswerShows
    <3>5. CASE /\ line # Hello /\ q.output = u.output
               /\ q.current_display = u.current_display
      BY <2>2, <2>6, <2>8, <3>4, <3>5 DEF Fed
    <3>6. ASSUME NEW r \in DisplayRecords, q.output = Append(u.output, Display(r)),
                 Same(r, q.current_display)
          PROVE  LastShows(q.output, q.current_display)
      <4>1. Display(r).kind = "display" /\ Display(r).record = r
        BY DEF Display
      <4>2. LastShows(Append(u.output, Display(r)), q.current_display)
        BY <3>3, <3>6, <4>1, LastShowsAppend
      <4>3. QED
        BY <3>6, <4>2
    <3>7. QED
      BY <3>4, <3>5, <3>6
  <2>9. QED
    BY <2>2, <2>5, <2>6, <2>7, <2>8 DEF Fed, Answers, Alike
<1> HIDE DEF S
<1>5. n \in S
  BY <1>3, <1>4, NumbersByInduction
<1>6. QED
  BY <1>2, <1>5 DEF S

-----------------------------------------------------------------------------
(***************************************************************************)
(* The base of what follows: everything is in its range, the session is    *)
(* Safe, and the wire holds what it can.                                   *)
(***************************************************************************)

(* A detach leaves nothing on the wire. *)
OutIsEmpty == cable = "out" => toHost = <<>> /\ toDevice = <<>>

(* Behind a closed port, all that is on its way to the host was written    *)
(* before it closed.                                                       *)
ClosedIsStale == ~edge => stale = Len(toHost)

(* The peer behaves as it was started. *)
StartedSo ==
    \E mode \in PeerModes : /\ peer.silent = mode.silent
                            /\ peer.reject_every_version = mode.reject

Base ==
    /\ TypeOK
    /\ Safe(session)
    /\ Sound(peer)
    /\ OutIsEmpty
    /\ ClosedIsStale
    /\ StartedSo

(* The loop starts on the base: an unpowered wire, an untouched session.   *)
LEMMA InitBase == Init => Base
<1> SUFFICES ASSUME Init PROVE Base
  OBVIOUS
<1>1. Safe(session) /\ session \in Sessions
  BY InitialSessionSafe DEF Init, Safe, Typed
<1>2. PICK mode \in PeerModes : peer = InitialPeer(mode.silent, mode.reject, mode.demo)
  BY DEF Init
<1>3. mode.silent \in BOOLEAN /\ mode.reject \in BOOLEAN /\ mode.demo \in BOOLEAN
  BY OperatorAssumption
<1>4. /\ Sound(peer)
      /\ peer.silent = mode.silent /\ peer.reject_every_version = mode.reject
  BY <1>2, <1>3, InitialPeerFresh
<1>5. \A S : <<>> \in Seq(S)
  BY EmptyIsSeq
<1>6. TypeOK
  <2>1. /\ edge = FALSE /\ pc = "keys" /\ cable \in {"in", "out"}
        /\ attached = "stopped"
        /\ toHost = <<>> /\ stale = 0 /\ toDevice = <<>>
    BY DEF Init
  <2>2. /\ toHost \in Seq(OutboundLines \cup {Torn}) /\ Len(toHost) = 0
        /\ toDevice \in Seq(InboundLines) /\ Len(toDevice) = 0
    BY <1>5, <2>1
  <2>3. edge \in BOOLEAN /\ cable \in {"in", "out", "asleep"}
    BY <2>1
  <2>4. /\ stale \in 0..Len(toHost)
        /\ Len(toHost) <= PipeBound /\ Len(toDevice) <= PipeBound
    BY <2>1, <2>2, PipeAssumption
  <2>5. QED
    BY <1>1, <1>4, <2>1, <2>2, <2>3, <2>4 DEF TypeOK, Sound
<1>7. OutIsEmpty /\ ClosedIsStale
  BY DEF Init, OutIsEmpty, ClosedIsStale
<1>8. QED
  BY <1>1, <1>4, <1>6, <1>7 DEF Base, StartedSo

(* The steps that leave the session alone. *)
LEMMA SessionUntouched ==
  ASSUME \/ NoPress \/ DrainBeginning \/ PullCable \/ PlugCable \/ Sleep \/ Wake
         \/ OpenPort \/ StartSearch \/ ProbeNode \/ Quit \/ DeviceGone
         \/ ProbeGivesUp \/ PumpWrite \/ PumpRead
         \/ \E command \in Commands : Operate(command)
         \/ \E whole, part : ProbeRead(whole, part)
  PROVE  UNCHANGED <<session, edge>>
BY DEF NoPress, DrainBeginning, PullCable, PlugCable, Sleep, Wake, OpenPort,
       StartSearch, ProbeNode, PortOpens, Quit, DeviceGone, ProbeGivesUp,
       PortCloses, PumpWrite, PumpRead, Operate, ProbeRead, remoteVars

(* The steps that leave the peer alone. *)
LEMMA PeerUntouched ==
  ASSUME \/ \E press \in UserPresses : Press(press[1], press[2])
         \/ NoPress \/ ObserveEdge \/ Receive \/ DrainBeginning
         \/ \E elapsed \in 1..MaxElapsed, room \in BOOLEAN : TickAndSend(elapsed, room)
         \/ PullCable \/ PlugCable \/ Sleep \/ Wake
         \/ OpenPort \/ StartSearch \/ ProbeNode \/ ProbeGivesUp
  PROVE  UNCHANGED peer
BY DEF Press, NoPress, ObserveEdge, Receive, DrainBeginning, TickAndSend, PullCable,
       PlugCable, Sleep, Wake, OpenPort, StartSearch, ProbeNode, PortOpens,
       ProbeGivesUp, hostVars

(* What one round of the clock and the transport does. *)
LEMMA TickAndSendEffect ==
  ASSUME Base, NEW elapsed \in 1..MaxElapsed, NEW room \in BOOLEAN,
         TickAndSend(elapsed, room)
  PROVE  /\ Safe(session') /\ SameLink(session, session')
         /\ session'.inbound = session.inbound
         /\ \E output, sent :
              /\ \/ output = session.output
                 \/ session.link_state = "Handshaking" /\ output = <<Hello>>
              /\ output \in Seq(OutboundLines) /\ sent \in Seq(OutboundLines)
              /\ \/ sent = <<>> /\ session'.output = output
                 \/ edge /\ sent = output /\ session'.output = <<>>
              /\ Len(toHost) + Len(sent) <= PipeBound
              /\ toHost' = IF cable = "out" THEN <<>> ELSE toHost \o sent
<1> DEFINE ticked == Tick(session, elapsed)
           sent == IF edge /\ room THEN ticked.output ELSE <<>>
           after == TakeOutput(ticked, Len(sent))
<1>0. Safe(session) /\ elapsed \in Nat
  BY RetryAssumption DEF Base
<1>1. /\ session' = after
      /\ Len(toHost) + Len(sent) <= PipeBound
      /\ toHost' = IF cable = "out" THEN <<>> ELSE toHost \o sent
  BY DEF TickAndSend
<1>2. /\ Safe(ticked) /\ SameLink(session, ticked)
      /\ ticked.inbound = session.inbound
      /\ \/ ticked.output = session.output
         \/ session.link_state = "Handshaking" /\ ticked.output = <<Hello>>
  BY <1>0, TickSafe, TickEffect
<1>3. ticked.output \in Seq(OutboundLines)
  BY <1>2 DEF Safe, Typed, Sessions
<1> HIDE DEF ticked
<1>4. sent \in Seq(OutboundLines) /\ Len(sent) \in {0, Len(ticked.output)}
  BY <1>3, EmptyIsSeq
<1>5. /\ Safe(after) /\ SameLink(ticked, after) /\ after.inbound = ticked.inbound
      /\ after.output = IF Len(sent) = 0 THEN ticked.output ELSE <<>>
  BY <1>2, <1>4, TakeOutputEffect
<1>6. \/ sent = <<>> /\ after.output = ticked.output
      \/ edge /\ sent = ticked.output /\ after.output = <<>>
  BY <1>3, <1>4, <1>5
<1> HIDE DEF sent, after
<1>7. QED
  BY <1>1, <1>2, <1>3, <1>4, <1>5, <1>6 DEF SameLink

(* Every call of the loop keeps the session safe. *)
LEMMA SessionStays ==
  ASSUME Base, [Next]_vars
  PROVE  Safe(session')
<1>0. Safe(session) /\ TypeOK
  BY DEF Base
<1>1. ASSUME NEW press \in UserPresses, Press(press[1], press[2])
      PROVE  Safe(session')
  <2>1. press[1] \in Keys /\ press[2] \in PressKinds
    BY OperatorAssumption
  <2>2. session' = ReportPress(session, press[1], press[2])
    BY <1>1 DEF Press
  <2>3. QED
    BY <1>0, <2>1, <2>2, ReportPressSafe
<1>2. CASE ObserveEdge
  <2>1. session' \in {session, PortOpened(session), PortClosed(session)}
    BY <1>2 DEF ObserveEdge
  <2>2. QED
    BY <1>0, <2>1, PortOpenedSafe, PortClosedSafe
<1>3. CASE Receive
  <2>1. Head(toDevice) \in InboundLines
    BY <1>0, <1>3 DEF Receive, TypeOK
  <2>2. session' \in {session, ReceiveLine(session, Head(toDevice))}
    BY <1>3 DEF Receive, Deliver
  <2>3. QED
    BY <1>0, <2>1, <2>2, ReceiveLineEffect
<1>4. ASSUME NEW elapsed \in 1..MaxElapsed, NEW room \in BOOLEAN,
             TickAndSend(elapsed, room)
      PROVE  Safe(session')
  BY <1>4, TickAndSendEffect
<1>5. CASE UNCHANGED session
  BY <1>0, <1>5 DEF Safe, Typed, HoldsNothingUnlinked, QueuesHelloFirst
<1>6. QED
  BY <1>1, <1>2, <1>3, <1>4, <1>5, SessionUntouched DEF Next, vars

(* What a read of a port being tried does to the peer: it is found and fed *)
(* what was read, or left alone.                                           *)
LEMMA ProbeReadEffect ==
  ASSUME Base, NEW whole \in 0..Len(toHost), NEW part \in Parts,
         ProbeRead(whole, part)
  PROVE  \/ UNCHANGED <<peer, attached>>
         \/ /\ attached' = "open"
            /\ LET seen == SubSeq(toHost, 1, whole)
               IN  /\ Fed(peer, peer', seen, whole)
                   /\ peer' = FedAll(peer, seen)
                   /\ \/ \E j \in 1..whole : seen[j] = Hello
                      \/ toHost' # <<>> /\ toHost'[1] = Hello
            /\ toHost' = SubSeq(toHost, whole + 1, Len(toHost))
<1> DEFINE seen == SubSeq(toHost, 1, whole)
           rest == SubSeq(toHost, whole + 1, Len(toHost))
           found == Hello \in ToSet(seen) \/ (part = "much" /\ Head(rest) = Hello)
<1>0. toHost \in Seq(OutboundLines \cup {Torn}) /\ Sound(peer)
  BY DEF Base, TypeOK
<1>1. CASE ~found
  BY <1>1 DEF ProbeRead
<1>2. CASE found
  <2>1. /\ peer' = FedAll(peer, seen) /\ attached' = "open" /\ toHost' = rest
        /\ part # "none" => rest # <<>>
    BY <1>2 DEF ProbeRead, FedAll
  <2>2. /\ DOMAIN seen = 1..whole
        /\ \A j \in 1..whole : seen[j] \in OutboundLines \cup {Torn}
        /\ whole \in Nat
    BY <1>0
  <2>3. rest # <<>> => Head(rest) = rest[1]
    BY <1>0
  <2>4. (\E j \in 1..whole : seen[j] = Hello) \/ (rest # <<>> /\ rest[1] = Hello)
    <3>1. CASE Hello \in ToSet(seen)
      BY <2>2, <3>1 DEF ToSet
    <3>2. CASE part = "much" /\ Head(rest) = Hello
      BY <2>1, <2>3, <3>2
    <3>3. QED
      BY <1>2, <3>1, <3>2
  <2> HIDE DEF seen, rest, found
  <2>5. Fed(peer, FedAll(peer, seen), seen, whole)
    BY <1>0, <2>2, FedEffect
  <2>6. QED
    BY <2>1, <2>4, <2>5 DEF seen, rest
<1>3. QED
  BY <1>1, <1>2

(* A read of the pump is one line, answered. *)
LEMMA PumpReadEffect ==
  ASSUME Base, PumpRead
  PROVE  Head(toHost) \in OutboundLines \cup {Torn} /\ Answers(peer, peer', Head(toHost))
<1>1. toHost \in Seq(OutboundLines \cup {Torn}) /\ toHost # <<>> /\ Sound(peer)
  BY DEF Base, TypeOK, PumpRead
<1>2. Head(toHost) \in OutboundLines \cup {Torn}
  BY <1>1
<1>3. QED
  BY <1>1, <1>2, FeedAnswers DEF PumpRead

(* A command is obeyed; "drop" forgets the link. *)
LEMMA OperateEffect ==
  ASSUME Base, NEW command \in Commands, Operate(command)
  PROVE  IF command = <<"drop">> THEN peer' = LinkDropped(peer)
         ELSE Obeys(peer, peer', command)
<1>1. peer' = ApplyCommand(peer, command) /\ Sound(peer) /\ command \in OperatorCommands
  BY OperatorAssumption DEF Base, Operate
<1>2. CASE command = <<"drop">>
  <2>1. command[1] = "drop"
    BY <1>2
  <2>2. ApplyCommand(peer, command) = LinkDropped(peer)
    BY <2>1 DEF ApplyCommand
  <2>3. QED
    BY <1>1, <1>2, <2>2
<1>3. CASE command # <<"drop">>
  BY <1>1, <1>3, ApplyCommandObeys
<1>4. QED
  BY <1>2, <1>3

(* The shell ends, and is another peer started alike. *)
LEMMA QuitEffect ==
  ASSUME Base, Quit
  PROVE  Sound(peer') /\ Fresh(peer') /\ Alike(peer, peer')
<1>1. /\ peer.silent \in BOOLEAN /\ peer.reject_every_version \in BOOLEAN
      /\ peer.demo_script \in BOOLEAN
  BY DEF Base, Sound, Peers
<1>2. QED
  BY <1>1, InitialPeerFresh DEF Quit, Alike

(* Every step of the peer keeps it sound, and what it was started as. *)
LEMMA PeerStays ==
  ASSUME Base, [Next]_vars
  PROVE  Sound(peer') /\ Alike(peer, peer')
<1>0. Sound(peer)
  BY DEF Base
<1>1. CASE UNCHANGED peer
  BY <1>0, <1>1 DEF Sound, Alike
<1>2. CASE Quit
  BY <1>2, QuitEffect
<1>3. CASE DeviceGone
  BY <1>0, <1>3, LinkDroppedFresh DEF DeviceGone
<1>4. ASSUME NEW whole \in 0..Len(toHost), NEW part \in Parts, ProbeRead(whole, part)
      PROVE  Sound(peer') /\ Alike(peer, peer')
  BY <1>1, <1>4, ProbeReadEffect DEF Fed
<1>5. CASE PumpWrite
  <2>1. peer' = [peer EXCEPT !.output = <<>>]
    BY <1>5 DEF PumpWrite
  <2>2. QED
    BY <1>0, <2>1, EmptyIsSeq DEF Sound, Alike, Peers
<1>6. CASE PumpRead
  BY <1>6, PumpReadEffect DEF Answers
<1>7. ASSUME NEW command \in Commands, Operate(command)
      PROVE  Sound(peer') /\ Alike(peer, peer')
  BY <1>0, <1>7, OperateEffect, LinkDroppedFresh DEF Obeys
<1>8. QED
  BY <1>1, <1>2, <1>3, <1>4, <1>5, <1>6, <1>7, PeerUntouched DEF Next, vars

(* What the wire may hold, whatever becomes of the two ends.               *)
Wire ==
    /\ edge \in BOOLEAN
    /\ pc \in {"keys", "edge", "receive"}
    /\ cable \in {"in", "out", "asleep"}
    /\ attached \in {"stopped", "searching", "probing", "open"}
    /\ toHost \in Seq(OutboundLines \cup {Torn}) /\ Len(toHost) <= PipeBound
    /\ stale \in 0..Len(toHost)
    /\ toDevice \in Seq(InboundLines) /\ Len(toDevice) <= PipeBound
    /\ OutIsEmpty
    /\ ClosedIsStale

(* A close leaves at most one line of what was on its way.                 *)
LEMMA PortClosesEffect ==
  ASSUME Base, NEW next, PortCloses(next)
  PROVE  /\ toHost' \in Seq(OutboundLines \cup {Torn})
         /\ Len(toHost') <= 1 /\ stale' = Len(toHost')
         /\ cable = "out" => toHost' = <<>>
         /\ attached' = next
         /\ UNCHANGED <<session, edge, pc, cable, toDevice>>
<1>0. toHost \in Seq(OutboundLines \cup {Torn})
  BY DEF Base, TypeOK
<1>1. PICK left \in Leftovers : toHost' = left /\ stale' = Len(left)
  BY DEF PortCloses
<1>2. \/ left = <<>>
      \/ /\ cable = "in" /\ toHost # <<>>
         /\ left = <<toHost[Len(toHost)]>> \/ left = <<Torn>>
  BY DEF Leftovers
<1>3. toHost # <<>> => toHost[Len(toHost)] \in OutboundLines \cup {Torn}
  BY <1>0
<1>4. left \in Seq(OutboundLines \cup {Torn}) /\ Len(left) <= 1
  <2>1. \A line \in OutboundLines \cup {Torn} :
          <<line>> \in Seq(OutboundLines \cup {Torn}) /\ Len(<<line>>) = 1
    OBVIOUS
  <2>2. CASE left = <<>>
    BY <2>2, EmptyIsSeq
  <2>3. CASE toHost # <<>> /\ left = <<toHost[Len(toHost)]>>
    BY <1>3, <2>1, <2>3
  <2>4. CASE left = <<Torn>>
    BY <2>1, <2>4
  <2>5. QED
    BY <1>2, <2>2, <2>3, <2>4
<1>5. QED
  BY <1>1, <1>2, <1>4 DEF PortCloses, remoteVars

(* What is left of the wire after a read of a port being tried.            *)
LEMMA ProbeReadWire ==
  ASSUME Base, NEW whole \in 0..Len(toHost), NEW part \in Parts,
         ProbeRead(whole, part)
  PROVE  /\ toHost' \in Seq(OutboundLines \cup {Torn})
         /\ Len(toHost') = Len(toHost) - whole
         /\ stale' = IF stale > whole THEN stale - whole ELSE 0
         /\ cable = "in" /\ attached = "probing" /\ attached' \in {"probing", "open"}
         /\ UNCHANGED <<session, edge, pc, cable, toDevice>>
<1> DEFINE rest == SubSeq(toHost, whole + 1, Len(toHost))
<1>0. toHost \in Seq(OutboundLines \cup {Torn})
  BY DEF Base, TypeOK
<1>1. rest \in Seq(OutboundLines \cup {Torn}) /\ Len(rest) = Len(toHost) - whole
  BY <1>0
<1>2. \/ toHost' = rest
      \/ rest # <<>> /\ toHost' = <<Torn>> \o Tail(rest)
  BY DEF ProbeRead
<1>3. rest # <<>> => /\ <<Torn>> \o Tail(rest) \in Seq(OutboundLines \cup {Torn})
                     /\ Len(<<Torn>> \o Tail(rest)) = Len(rest)
  <2> HIDE DEF rest
  <2>1. SUFFICES ASSUME rest # <<>>
                 PROVE  /\ <<Torn>> \o Tail(rest) \in Seq(OutboundLines \cup {Torn})
                        /\ Len(<<Torn>> \o Tail(rest)) = Len(rest)
    OBVIOUS
  <2>2. Tail(rest) \in Seq(OutboundLines \cup {Torn}) /\ Len(Tail(rest)) = Len(rest) - 1
    BY <1>1, <2>1
  <2>3. <<Torn>> \in Seq(OutboundLines \cup {Torn}) /\ Len(<<Torn>>) = 1
    OBVIOUS
  <2>4. Len(rest) \in Nat
    BY <1>1
  <2>5. QED
    BY <2>2, <2>3, <2>4
<1>4. /\ attached' \in {"probing", "open"}
      /\ stale' = IF stale > whole THEN stale - whole ELSE 0
      /\ cable = "in" /\ attached = "probing"
      /\ UNCHANGED <<session, edge, pc, cable, toDevice>>
  BY DEF ProbeRead, remoteVars
<1> HIDE DEF rest
<1>5. QED
  BY <1>1, <1>2, <1>3, <1>4

(* Every step keeps the wire. *)
LEMMA WireStays ==
  ASSUME Base, [Next]_vars
  PROVE  Wire'
<1>0. Wire
  BY DEF Base, TypeOK, Wire
<1>a. /\ Len(toHost) \in Nat /\ Len(toDevice) \in Nat /\ stale \in Nat
      /\ PipeBound \in Nat /\ PipeBound >= 1
  BY <1>0, PipeAssumption DEF Wire
<1>b. \A S : <<>> \in Seq(S) /\ Len(<<>>) = 0
  BY EmptyIsSeq
<1>1. ASSUME NEW press \in UserPresses, Press(press[1], press[2]) PROVE Wire'
  BY <1>0, <1>1 DEF Press, hostVars, Wire, OutIsEmpty, ClosedIsStale
<1>2. CASE NoPress
  BY <1>0, <1>2 DEF NoPress, hostVars, Wire, OutIsEmpty, ClosedIsStale
<1>3. CASE ObserveEdge
  <2>1. /\ edge' = HostOpen /\ pc' = "receive"
        /\ stale' = IF edge /\ ~edge' THEN Len(toHost) ELSE stale
        /\ UNCHANGED <<cable, attached, toHost, toDevice>>
    BY <1>3 DEF ObserveEdge, hostVars
  <2>2. edge' \in BOOLEAN
    BY <2>1 DEF HostOpen, HasPort
  <2>3. stale' \in 0..Len(toHost)
    BY <1>0, <1>a, <2>1 DEF Wire
  <2>4. QED
    BY <1>0, <2>1, <2>2, <2>3 DEF Wire, OutIsEmpty, ClosedIsStale
<1>4. CASE Receive
  <2>1. /\ toDevice # <<>> /\ toDevice' = Tail(toDevice)
        /\ UNCHANGED <<edge, pc, cable, attached, toHost, stale>>
    BY <1>4 DEF Receive, hostVars
  <2>2. Tail(toDevice) \in Seq(InboundLines) /\ Len(Tail(toDevice)) = Len(toDevice) - 1
    BY <1>0, <2>1 DEF Wire
  <2>3. Len(toDevice') <= PipeBound
    BY <1>0, <1>a, <2>1, <2>2 DEF Wire
  <2>4. QED
    BY <1>0, <2>1, <2>2, <2>3 DEF Wire, OutIsEmpty, ClosedIsStale
<1>5. CASE DrainBeginning
  <2> DEFINE drained == [toDevice[1] EXCEPT !.kind = "noise"]
  <2>1. /\ cable = "asleep" /\ toDevice # <<>>
        /\ toDevice' = [toDevice EXCEPT ![1] = drained]
        /\ UNCHANGED <<edge, pc, cable, attached, toHost, stale>>
    BY <1>5 DEF DrainBeginning, hostVars, remoteVars
  <2>2. toDevice[1] \in InboundLines
    BY <1>0, <2>1 DEF Wire
  <2>3. drained \in InboundLines
    BY <2>2 DEF InboundLines
  <2> HIDE DEF drained
  <2>4. toDevice' \in Seq(InboundLines) /\ Len(toDevice') = Len(toDevice)
    BY <1>0, <2>1, <2>3 DEF Wire
  <2>5. QED
    BY <1>0, <2>1, <2>4 DEF Wire, OutIsEmpty, ClosedIsStale
<1>6. ASSUME NEW elapsed \in 1..MaxElapsed, NEW room \in BOOLEAN,
             TickAndSend(elapsed, room)
      PROVE  Wire'
  <2>1. /\ pc' = "keys"
        /\ UNCHANGED <<edge, cable, attached, stale, toDevice>>
    BY <1>6 DEF TickAndSend, hostVars
  <2>2. PICK sent : /\ sent \in Seq(OutboundLines)
                    /\ sent = <<>> \/ edge
                    /\ Len(toHost) + Len(sent) <= PipeBound
                    /\ toHost' = IF cable = "out" THEN <<>> ELSE toHost \o sent
    BY <1>6, TickAndSendEffect
  <2>3. CASE cable = "out"
    <3>1. toHost = <<>> /\ toHost' = <<>>
      BY <1>0, <2>2, <2>3 DEF Wire, OutIsEmpty
    <3>2. QED
      BY <1>0, <2>1, <3>1 DEF Wire, OutIsEmpty, ClosedIsStale
  <2>4. CASE cable # "out"
    <3>1. /\ toHost' \in Seq(OutboundLines \cup {Torn})
          /\ Len(toHost') = Len(toHost) + Len(sent)
          /\ Len(sent) \in Nat
      <4>1. sent \in Seq(OutboundLines \cup {Torn})
        BY <2>2
      <4>2. toHost' = toHost \o sent
        BY <2>2, <2>4
      <4>3. QED
        BY <1>0, <4>1, <4>2 DEF Wire
    <3>2. stale \in 0..Len(toHost')
      BY <1>0, <1>a, <3>1 DEF Wire
    <3>3. ~edge => toHost' = toHost
      BY <1>0, <2>2, <2>4 DEF Wire
    <3>4. QED
      BY <1>0, <2>1, <2>2, <2>4, <3>1, <3>2, <3>3 DEF Wire, OutIsEmpty, ClosedIsStale
  <2>5. QED
    BY <2>3, <2>4
<1>7. CASE PullCable
  <2>1. /\ toHost' = <<>> /\ stale' = 0 /\ toDevice' = <<>>
        /\ cable' = "out" /\ attached' \in {attached, "searching"}
        /\ UNCHANGED <<edge, pc>>
    BY <1>7 DEF PullCable, remoteVars
  <2>2. /\ toHost' \in Seq(OutboundLines \cup {Torn}) /\ Len(toHost') = 0
        /\ toDevice' \in Seq(InboundLines) /\ Len(toDevice') = 0
    BY <1>b, <2>1
  <2>3. stale' \in 0..Len(toHost') /\ attached' \in {"stopped", "searching", "probing", "open"}
    BY <1>0, <2>1, <2>2 DEF Wire
  <2>4. QED
    BY <1>0, <1>a, <2>1, <2>2, <2>3 DEF Wire, OutIsEmpty, ClosedIsStale
<1>8. CASE PlugCable \/ Sleep \/ Wake \/ OpenPort \/ StartSearch \/ ProbeNode
  <2>1. /\ cable' \in {"in", "asleep"} \/ cable' = cable
        /\ attached' \in {attached, "open", "searching", "probing"}
        /\ UNCHANGED <<edge, pc, toHost, stale, toDevice>>
    BY <1>8
    DEF PlugCable, Sleep, Wake, OpenPort, StartSearch, ProbeNode, PortOpens, remoteVars
  <2>2. QED
    BY <1>0, <2>1 DEF Wire, OutIsEmpty, ClosedIsStale
<1>9. CASE Quit \/ DeviceGone \/ ProbeGivesUp
  <2>1. PICK next \in {"stopped", "searching"} : PortCloses(next)
    BY <1>9 DEF Quit, DeviceGone, ProbeGivesUp
  <2>2. /\ toHost' \in Seq(OutboundLines \cup {Torn})
        /\ Len(toHost') <= 1 /\ stale' = Len(toHost')
        /\ cable = "out" => toHost' = <<>>
        /\ attached' = next
        /\ UNCHANGED <<edge, pc, cable, toDevice>>
    BY <2>1, PortClosesEffect
  <2>3. stale' \in 0..Len(toHost') /\ Len(toHost') <= PipeBound
    <3>1. Len(toHost') \in Nat
      BY <2>2
    <3>2. QED
      BY <1>a, <2>2, <3>1
  <2>4. QED
    BY <1>0, <2>2, <2>3 DEF Wire, OutIsEmpty, ClosedIsStale
<1>10. ASSUME NEW whole \in 0..Len(toHost), NEW part \in Parts, ProbeRead(whole, part)
       PROVE  Wire'
  <2>1. /\ toHost' \in Seq(OutboundLines \cup {Torn})
        /\ Len(toHost') = Len(toHost) - whole
        /\ stale' = IF stale > whole THEN stale - whole ELSE 0
        /\ cable = "in" /\ attached' \in {"probing", "open"}
        /\ UNCHANGED <<edge, pc, cable, toDevice>>
    BY <1>10, ProbeReadWire
  <2>2. /\ stale' \in 0..Len(toHost') /\ Len(toHost') <= PipeBound
        /\ ~edge => stale' = Len(toHost')
    <3>1. /\ stale <= Len(toHost) /\ Len(toHost) <= PipeBound
          /\ ~edge => stale = Len(toHost)
      BY <1>0, <1>a DEF Wire, ClosedIsStale
    <3>2. QED
      BY <1>a, <2>1, <3>1
  <2>3. QED
    BY <1>0, <2>1, <2>2 DEF Wire, OutIsEmpty, ClosedIsStale
<1>11. CASE PumpWrite
  <2>1. /\ cable = "in" /\ toDevice' = toDevice \o peer.output
        /\ Len(toDevice) + Len(peer.output) <= PipeBound
        /\ UNCHANGED <<edge, pc, cable, attached, toHost, stale>>
    BY <1>11 DEF PumpWrite, Working, remoteVars
  <2>2. peer.output \in Seq(InboundLines)
    BY DEF Base, Sound, Peers
  <2>3. toDevice' \in Seq(InboundLines) /\ Len(toDevice') = Len(toDevice) + Len(peer.output)
    BY <1>0, <2>1, <2>2 DEF Wire
  <2>4. QED
    BY <1>0, <2>1, <2>3 DEF Wire, OutIsEmpty, ClosedIsStale
<1>12. CASE PumpRead
  <2>1. /\ cable = "in" /\ toHost # <<>> /\ toHost' = Tail(toHost)
        /\ stale' = IF stale > 0 THEN stale - 1 ELSE 0
        /\ UNCHANGED <<edge, pc, cable, attached, toDevice>>
    BY <1>12 DEF PumpRead, Working, remoteVars
  <2>2. /\ toHost' \in Seq(OutboundLines \cup {Torn})
        /\ Len(toHost') = Len(toHost) - 1 /\ Len(toHost) >= 1
    BY <1>0, <2>1 DEF Wire
  <2>3. /\ stale' \in 0..Len(toHost') /\ Len(toHost') <= PipeBound
        /\ ~edge => stale' = Len(toHost')
    <3>1. /\ stale <= Len(toHost) /\ Len(toHost) <= PipeBound
          /\ ~edge => stale = Len(toHost)
      BY <1>0, <1>a DEF Wire, ClosedIsStale
    <3>2. stale' = IF stale > 0 THEN stale - 1 ELSE 0
      BY <2>1
    <3>3. QED
      BY <1>a, <2>2, <3>1, <3>2
  <2>4. QED
    BY <1>0, <2>1, <2>2, <2>3 DEF Wire, OutIsEmpty, ClosedIsStale
<1>13. ASSUME NEW command \in Commands, Operate(command) PROVE Wire'
  BY <1>0, <1>13 DEF Operate, remoteVars, Wire, OutIsEmpty, ClosedIsStale
<1>14. CASE UNCHANGED vars
  BY <1>0, <1>14 DEF vars, Wire, OutIsEmpty, ClosedIsStale
<1>15. QED
  BY <1>1, <1>2, <1>3, <1>4, <1>5, <1>6, <1>7, <1>8, <1>9, <1>10, <1>11, <1>12,
     <1>13, <1>14
  DEF Next

(* Every step keeps the base. *)
LEMMA NextBase == Base /\ [Next]_vars => Base'
<1> SUFFICES ASSUME Base, [Next]_vars PROVE Base'
  OBVIOUS
<1>1. Safe(session') /\ session' \in Sessions
  BY SessionStays DEF Safe, Typed
<1>2. Sound(peer') /\ Alike(peer, peer') /\ peer' \in Peers
  BY PeerStays DEF Sound
<1>3. Wire'
  BY WireStays
<1>4. StartedSo'
  BY <1>2 DEF Base, StartedSo, Alike
<1>5. TypeOK'
  BY <1>1, <1>2, <1>3 DEF Wire, TypeOK
<1>6. Safe(session)' /\ Sound(peer)'
  BY <1>1, <1>2 DEF Safe, Typed, HoldsNothingUnlinked, QueuesHelloFirst, Sound
<1>7. QED
  BY <1>3, <1>4, <1>5, <1>6 DEF Wire, Base

(* Every variable of the two ends and of the wire between them stays in    *)
(* its range, for any capacity of the buffers and any commands: the queue, *)
(* what waits at the peer, and what is left on the wire by closes, cut     *)
(* reads and detaches.                                                     *)
THEOREM TypeCorrect == Spec => []TypeOK
<1>1. Base => TypeOK
  BY DEF Base
<1>2. QED
  BY <1>1, InitBase, NextBase, PTL DEF Spec

-----------------------------------------------------------------------------
(***************************************************************************)
(* What the remote believes, it was told.                                  *)
(***************************************************************************)

(* The lines of a peer that accepts the version. *)
Welcoming == {line \in InboundLines :
                line.kind = "display" => line.record.error # "BAD_VERSION"}

(* Of the operator's errors, none is the version's. *)
NoVersionError == <<"error", "BAD_VERSION">> \notin Commands

(* A silent peer has put nothing on the wire; one that accepts the version *)
(* has never said that it does not.  BeliefsAreEarned alone does not say   *)
(* so of the lines that are still to be read.                              *)
EarnedSoFar ==
    /\ peer.silent =>
         /\ toDevice = <<>> /\ peer.output = <<>>
         /\ session.link_state \in {"LinkDown", "Handshaking"}
    /\ ~peer.reject_every_version /\ NoVersionError =>
         /\ session.link_state # "Incompatible"
         /\ ToSet(toDevice) \subseteq Welcoming
         /\ ToSet(peer.output) \subseteq Welcoming

(* There is nothing in no lines. *)
LEMMA EmptyToSet == ToSet(<<>>) = {}
BY DEF ToSet

(* At the start nothing was said and nothing is believed.                  *)
LEMMA InitEarned == Init => EarnedSoFar
<1> SUFFICES ASSUME Init PROVE EarnedSoFar
  OBVIOUS
<1>1. toDevice = <<>> /\ session.link_state = "LinkDown"
  BY DEF Init, InitialSession
<1>2. peer.output = <<>>
  BY DEF Init, InitialPeer
<1>3. QED
  BY <1>1, <1>2, EmptyToSet DEF EarnedSoFar

(* What a step adds to the lines to be read, or to what the remote has of  *)
(* them, is in the same terms.                                             *)
LEMMA EarnedKept ==
  ASSUME EarnedSoFar, Alike(peer, peer'),
         peer.silent => /\ toDevice' = <<>> /\ peer'.output = <<>>
                        /\ session'.link_state \in {"LinkDown", "Handshaking"}
         , ~peer.reject_every_version /\ NoVersionError =>
             /\ session'.link_state # "Incompatible"
             /\ ToSet(toDevice') \subseteq Welcoming
             /\ ToSet(peer'.output) \subseteq Welcoming
  PROVE  EarnedSoFar'
BY DEF EarnedSoFar, Alike, Welcoming, NoVersionError

(* No step puts a belief ahead of what was said for it.                    *)
LEMMA NextEarned ==
  ASSUME Base, EarnedSoFar, [Next]_vars
  PROVE  EarnedSoFar'
<1>0. /\ Alike(peer, peer') /\ Safe(session) /\ Sound(peer)
      /\ toDevice \in Seq(InboundLines) /\ peer.output \in Seq(InboundLines)
  BY PeerStays DEF Base, TypeOK, Sound, Peers
<1> DEFINE QuietEnd == session'.link_state \in {"LinkDown", "Handshaking"}
<1>1. ASSUME UNCHANGED <<toDevice, peer>>,
             session'.link_state \in {session.link_state, "LinkDown", "Handshaking"}
      PROVE  EarnedSoFar'
  BY <1>0, <1>1, EarnedKept DEF EarnedSoFar
<1>2. ASSUME UNCHANGED <<toDevice, session>>,
             peer.silent => peer'.output = <<>>,
             ~peer.reject_every_version /\ NoVersionError => ToSet(peer'.output) \subseteq Welcoming
      PROVE  EarnedSoFar'
  BY <1>0, <1>2, EarnedKept DEF EarnedSoFar
<1>3. ASSUME NEW press \in UserPresses, Press(press[1], press[2]) PROVE EarnedSoFar'
  <2>1. SameLink(session, session') /\ UNCHANGED <<toDevice, peer>>
    BY <1>0, <1>3, ReportPressEffect DEF Press, hostVars
  <2>2. QED
    BY <1>1, <2>1 DEF SameLink
<1>4. CASE ObserveEdge
  <2>1. /\ session' \in {session, PortOpened(session), PortClosed(session)}
        /\ UNCHANGED <<toDevice, peer>>
    BY <1>4 DEF ObserveEdge, hostVars
  <2>2. QED
    BY <1>0, <1>1, <2>1, PortOpenedEffect, PortClosedEffect
<1>5. CASE Receive
  <2> DEFINE line == Head(toDevice)
  <2>1. /\ toDevice # <<>> /\ toDevice' = Tail(toDevice) /\ UNCHANGED peer
        /\ session' \in {session, ReceiveLine(session, line)}
    BY <1>5 DEF Receive, Deliver, hostVars
  <2>2. line \in ToSet(toDevice) /\ line \in InboundLines
        /\ ToSet(toDevice') \subseteq ToSet(toDevice)
    BY <1>0, <2>1, LinesOf
  <2>3. ~peer.silent
    BY <2>1 DEF EarnedSoFar
  <2>4. ASSUME ~peer.reject_every_version, NoVersionError PROVE session'.link_state # "Incompatible"
    <3>1. line \in Welcoming /\ session.link_state # "Incompatible"
      BY <2>2, <2>4 DEF EarnedSoFar
    <3>2. CASE session' = session
      BY <3>1, <3>2
    <3>3. CASE session' = ReceiveLine(session, line)
      <4>1. /\ line.kind # "display" => SameLink(session, session')
            /\ \/ SameLink(session, session')
               \/ /\ line.record.error = "BAD_VERSION"
                  /\ session'.link_state = "Incompatible"
               \/ session'.link_state = "Connected"
        BY <1>0, <2>2, <3>3, ReceiveLineEffect
      <4>2. QED
        BY <3>1, <4>1 DEF Welcoming, SameLink
    <3>4. QED
      BY <2>1, <3>2, <3>3
  <2>5. ~peer.reject_every_version /\ NoVersionError =>
          ToSet(toDevice') \subseteq Welcoming /\ ToSet(peer'.output) \subseteq Welcoming
    BY <2>1, <2>2 DEF EarnedSoFar
  <2> HIDE DEF line
  <2>6. QED
    BY <1>0, <2>3, <2>4, <2>5, EarnedKept
<1>6. CASE DrainBeginning
  <2> DEFINE drained == [toDevice[1] EXCEPT !.kind = "noise"]
  <2>1. /\ toDevice # <<>> /\ toDevice' = [toDevice EXCEPT ![1] = drained]
        /\ UNCHANGED <<session, peer>>
    BY <1>6 DEF DrainBeginning, hostVars, remoteVars
  <2>2. toDevice[1] \in InboundLines
    BY <1>0, <2>1
  <2>3. drained \in Welcoming
    BY <2>2 DEF InboundLines, Welcoming
  <2> HIDE DEF drained
  <2>4. \A i \in DOMAIN toDevice' : toDevice'[i] \in {drained, toDevice[i]} /\ i \in DOMAIN toDevice
    BY <1>0, <2>1
  <2>5. ToSet(toDevice') \subseteq ToSet(toDevice) \cup {drained}
    BY <2>4 DEF ToSet
  <2>6. ~peer.silent
    BY <2>1 DEF EarnedSoFar
  <2>7. QED
    BY <1>0, <2>1, <2>3, <2>5, <2>6, EarnedKept DEF EarnedSoFar
<1>7. ASSUME NEW elapsed \in 1..MaxElapsed, NEW room \in BOOLEAN,
             TickAndSend(elapsed, room)
      PROVE  EarnedSoFar'
  <2>1. SameLink(session, session') /\ UNCHANGED <<toDevice, peer>>
    BY <1>7, TickAndSendEffect DEF TickAndSend, hostVars
  <2>2. QED
    BY <1>1, <2>1 DEF SameLink
<1>8. CASE PullCable
  <2>1. toDevice' = <<>> /\ UNCHANGED <<session, peer>>
    BY <1>8 DEF PullCable, remoteVars
  <2>2. QED
    BY <1>0, <2>1, EarnedKept, EmptyToSet DEF EarnedSoFar
<1>9. CASE NoPress \/ PlugCable \/ Sleep \/ Wake \/ OpenPort \/ StartSearch
           \/ ProbeNode \/ ProbeGivesUp \/ UNCHANGED vars
  <2>1. UNCHANGED <<session, toDevice, peer>>
    BY <1>9
    DEF NoPress, PlugCable, Sleep, Wake, OpenPort, StartSearch, ProbeNode, PortOpens,
        ProbeGivesUp, PortCloses, remoteVars, hostVars, vars
  <2>2. QED
    BY <1>1, <2>1
<1>10. CASE Quit
  <2>1. Fresh(peer') /\ UNCHANGED <<toDevice, session>>
    BY <1>10, QuitEffect DEF Quit, PortCloses, remoteVars
  <2>2. QED
    BY <1>2, <2>1, EmptyToSet DEF Fresh
<1>11. CASE DeviceGone
  <2>1. Fresh(peer') /\ UNCHANGED <<toDevice, session>>
    BY <1>0, <1>11, LinkDroppedFresh DEF DeviceGone, PortCloses, remoteVars
  <2>2. QED
    BY <1>2, <2>1, EmptyToSet DEF Fresh
<1>12. OwnAnswers(FALSE) \subseteq Welcoming
  BY DEF OwnAnswers, Welcoming, Display, InboundLines
<1>13. ASSUME UNCHANGED <<toDevice, session>>,
              ToSet(peer'.output) \subseteq
                ToSet(peer.output) \cup OwnAnswers(peer.reject_every_version),
              peer.silent => peer'.output = peer.output
       PROVE  EarnedSoFar'
  <2>1. peer.reject_every_version \in BOOLEAN
    BY <1>0 DEF Sound, Peers
  <2>2. QED
    BY <1>2, <1>12, <1>13, <2>1 DEF EarnedSoFar
<1>14. ASSUME NEW whole \in 0..Len(toHost), NEW part \in Parts, ProbeRead(whole, part)
       PROVE  EarnedSoFar'
  <2>1. UNCHANGED <<toDevice, session>>
    BY <1>14, ProbeReadWire
  <2>2. CASE UNCHANGED peer
    BY <1>1, <2>1, <2>2
  <2>3. CASE Fed(peer, peer', SubSeq(toHost, 1, whole), whole)
    BY <1>13, <2>1, <2>3 DEF Fed
  <2>4. QED
    BY <1>14, <2>2, <2>3, ProbeReadEffect
<1>15. CASE PumpWrite
  <2>1. /\ peer.output # <<>> /\ toDevice' = toDevice \o peer.output
        /\ peer' = [peer EXCEPT !.output = <<>>] /\ UNCHANGED session
    BY <1>15 DEF PumpWrite, remoteVars
  <2>2. peer'.output = <<>>
    BY <1>0, <2>1 DEF Sound, Peers
  <2>3. ToSet(toDevice') = ToSet(toDevice) \cup ToSet(peer.output)
    BY <1>0, <2>1, LinesOf
  <2>4. QED
    BY <1>0, <2>1, <2>2, <2>3, EarnedKept, EmptyToSet DEF EarnedSoFar
<1>16. CASE PumpRead
  <2>1. UNCHANGED <<toDevice, session>> /\ Answers(peer, peer', Head(toHost))
    BY <1>16, PumpReadEffect DEF PumpRead, remoteVars
  <2>2. QED
    BY <1>0, <1>13, <2>1, AnswersAdd
<1>17. ASSUME NEW command \in Commands, Operate(command) PROVE EarnedSoFar'
  <2>1. UNCHANGED <<toDevice, session>>
    BY <1>17 DEF Operate, remoteVars
  <2>2. CASE command = <<"drop">>
    <3>1. Fresh(peer')
      BY <1>0, <1>17, <2>2, OperateEffect, LinkDroppedFresh
    <3>2. QED
      BY <1>2, <2>1, <3>1, EmptyToSet DEF Fresh
  <2>3. CASE command # <<"drop">>
    <3>1. /\ Obeys(peer, peer', command)
          /\ NoVersionError => command # <<"error", "BAD_VERSION">>
      BY <1>17, <2>3, OperateEffect DEF NoVersionError
    <3>2. \/ Holds(peer, peer')
          \/ \E line \in InboundLines : /\ Says(peer, peer', line)
                                        /\ NoVersionError => line \in Welcoming
      <4>1. CASE \E r \in DisplayRecords :
                   /\ Says(peer, peer', Display(r))
                   /\ NoVersionError => r.error # "BAD_VERSION"
        <5>1. \A r \in DisplayRecords :
                /\ Display(r) \in InboundLines
                /\ r.error # "BAD_VERSION" => Display(r) \in Welcoming
          BY DEF Display, Welcoming, InboundLines
        <5>2. QED
          BY <4>1, <5>1
      <4>2. CASE \E line \in InboundLines :
                   Says(peer, peer', line) /\ line.kind # "display"
        BY <4>2 DEF Welcoming
      <4>3. QED
        BY <3>1, <4>1, <4>2 DEF Obeys
    <3>3. CASE Holds(peer, peer')
      BY <1>2, <2>1, <3>3 DEF Holds, EarnedSoFar
    <3>4. ASSUME NEW line \in InboundLines, Says(peer, peer', line),
                 NoVersionError => line \in Welcoming
          PROVE  EarnedSoFar'
      <4>1. ToSet(Append(peer.output, line)) = ToSet(peer.output) \cup {line}
        BY <1>0, LinesOf
      <4>2. QED
        BY <1>2, <2>1, <3>4, <4>1 DEF Says, EarnedSoFar
    <3>5. QED
      BY <3>2, <3>3, <3>4
  <2>4. QED
    BY <2>2, <2>3
<1>18. QED
  BY <1>3, <1>4, <1>5, <1>6, <1>7, <1>8, <1>9, <1>10, <1>11, <1>14, <1>15, <1>16, <1>17
  DEF Next

(* Whatever is cut, repeated, lost with a detach or left over from an      *)
(* earlier peer, the remote shows as connected only a peer that speaks,    *)
(* and as incompatible only one that rejects the version; if no operator   *)
(* sends that very error by hand.                                          *)
THEOREM EarnedBeliefs ==
  ASSUME NoVersionError
  PROVE  Spec => []BeliefsAreEarned
<1>1. Base /\ EarnedSoFar /\ [Next]_vars => EarnedSoFar'
  BY NextEarned
<1>2. EarnedSoFar => BeliefsAreEarned
  BY NoVersionError DEF EarnedSoFar, BeliefsAreEarned, View
<1>3. QED
  BY <1>1, <1>2, InitBase, NextBase, InitEarned, PTL DEF Spec

-----------------------------------------------------------------------------
(***************************************************************************)
(* What the peer hears.                                                    *)
(***************************************************************************)

(* All that the session has written and the peer has not read; and the     *)
(* same the other way. *)
Stream == toHost \o session.output

Flight == toDevice \o peer.output

(* Lines joined, lengthened behind, shortened in front. *)
LEMMA Joined ==
  ASSUME NEW S, NEW s \in Seq(S), NEW t \in Seq(S)
  PROVE  /\ s \o t \in Seq(S)
         /\ \A x \in S : s \o Append(t, x) = Append(s \o t, x)
         /\ s # <<>> => s \o t # <<>> /\ Tail(s) \o t = Tail(s \o t)
                        /\ Head(s \o t) = Head(s)
         /\ s \o <<>> = s /\ <<>> \o s = s
<1>1. s \o t \in Seq(S) /\ s \o <<>> = s /\ <<>> \o s = s
  BY ConcatProperties, ConcatEmptySeq
<1>2. ASSUME NEW x \in S PROVE s \o Append(t, x) = Append(s \o t, x)
  <2> DEFINE u == s \o Append(t, x)
             v == Append(s \o t, x)
  <2>1. /\ u \in Seq(S) /\ v \in Seq(S)
        /\ Len(u) = Len(s) + Len(t) + 1 /\ Len(v) = Len(s) + Len(t) + 1
    OBVIOUS
  <2>2. \A i \in 1..Len(u) : u[i] = v[i]
    OBVIOUS
  <2> HIDE DEF u, v
  <2>3. u = v
    BY <2>1, <2>2, SeqEqual
  <2>4. QED
    BY <2>3 DEF u, v
<1>3. ASSUME s # <<>>
      PROVE  s \o t # <<>> /\ Tail(s) \o t = Tail(s \o t) /\ Head(s \o t) = Head(s)
  <2> DEFINE u == Tail(s) \o t
             v == Tail(s \o t)
  <2>0. Len(s) \in Nat \ {0} /\ Len(t) \in Nat
    BY <1>3
  <2>1. s \o t # <<>> /\ Len(s \o t) = Len(s) + Len(t)
    BY <1>3
  <2>2. Tail(s) \in Seq(S) /\ Len(Tail(s)) = Len(s) - 1
    BY <1>3
  <2>3. /\ u \in Seq(S) /\ v \in Seq(S)
        /\ Len(u) = Len(s) + Len(t) - 1 /\ Len(v) = Len(s) + Len(t) - 1
    BY <2>0, <2>1, <2>2
  <2>4. ASSUME NEW i \in 1..Len(u) PROVE u[i] = v[i]
    <3>1. v[i] = (s \o t)[i + 1]
      BY <2>0, <2>1, <2>3, HeadTailProperties
    <3>2. (s \o t)[i + 1] = IF i + 1 <= Len(s) THEN s[i + 1] ELSE t[i + 1 - Len(s)]
      BY <2>0, <2>3, ConcatProperties
    <3>3. u[i] = IF i <= Len(s) - 1 THEN Tail(s)[i] ELSE t[i - (Len(s) - 1)]
      BY <2>0, <2>2, <2>3, ConcatProperties
    <3>4. i <= Len(s) - 1 => Tail(s)[i] = s[i + 1]
      BY <1>3, <2>2, <2>3, HeadTailProperties
    <3>5. i \in Int
      BY <2>3
    <3>6. i - (Len(s) - 1) = i + 1 - Len(s) /\ (i + 1 <= Len(s) <=> i <= Len(s) - 1)
      BY <2>0, <3>5
    <3>7. QED
      BY <3>1, <3>2, <3>3, <3>4, <3>6
  <2>5. Head(s \o t) = Head(s)
    BY <1>3, <2>0, <2>1, ConcatProperties
  <2> HIDE DEF u, v
  <2>6. u = v
    BY <2>3, <2>4, SeqEqual
  <2>7. QED
    BY <2>1, <2>5, <2>6 DEF u, v
<1>4. QED
  BY <1>1, <1>2, <1>3

(* The lines of the stream. *)
NextLine(x) == x \in OutboundLines \cup {Torn} /\ Stream' = Append(Stream, x)

(* The stream is a sequence of lines, and what the session queues behind   *)
(* its own output goes behind all of it.                                   *)
LEMMA StreamTypes ==
  ASSUME Base
  PROVE  /\ toHost \in Seq(OutboundLines \cup {Torn})
         /\ session.output \in Seq(OutboundLines \cup {Torn})
         /\ Stream \in Seq(OutboundLines \cup {Torn})
         /\ \A x \in OutboundLines \cup {Torn} :
              toHost \o Append(session.output, x) = Append(Stream, x)
<1> DEFINE L == OutboundLines \cup {Torn}
<1>1. session.output \in Seq(OutboundLines)
  BY DEF Base, TypeOK, Sessions
<1>2. toHost \in Seq(L) /\ session.output \in Seq(L)
  BY <1>1 DEF Base, TypeOK
<1> HIDE DEF L
<1>3. /\ Stream \in Seq(L)
      /\ \A x \in L : toHost \o Append(session.output, x) = Append(Stream, x)
  BY <1>2, Joined DEF Stream
<1>4. QED
  BY <1>2, <1>3 DEF L

(* A press lengthens the stream, or does not. *)
LEMMA PressStream ==
  ASSUME Base, NEW press \in UserPresses, Press(press[1], press[2])
  PROVE  Stream' = Stream \/ \E x : NextLine(x)
<1>1. SameLink(session, session') /\ toHost' = toHost
      /\ \/ session'.output = session.output
         \/ \E event \in Events : session'.output = Append(session.output, event)
  BY ReportPressEffect DEF Press, Base
<1>2. ASSUME NEW event \in Events, session'.output = Append(session.output, event)
      PROVE  NextLine(event)
  <2>1. event \in OutboundLines \cup {Torn}
    BY DEF OutboundLines
  <2>2. toHost \o Append(session.output, event) = Append(Stream, event)
    BY <2>1, StreamTypes
  <2>3. Stream' = toHost \o Append(session.output, event)
    BY <1>1, <1>2 DEF Stream
  <2>4. QED
    BY <2>1, <2>2, <2>3 DEF NextLine
<1>3. session'.output = session.output => Stream' = Stream
  BY <1>1 DEF Stream
<1>4. QED
  BY <1>1, <1>2, <1>3

(* The clock and the transport move it, and may lengthen it by a HELLO.    *)
LEMMA SendStream ==
  ASSUME Base, cable # "out", NEW elapsed \in 1..MaxElapsed, NEW room \in BOOLEAN,
         TickAndSend(elapsed, room)
  PROVE  Stream' = Stream \/ \E x : NextLine(x)
<1> DEFINE L == OutboundLines \cup {Torn}
<1>1. toHost \in Seq(L) /\ session.output \in Seq(L) /\ Safe(session)
  BY StreamTypes DEF Base
<1>2. PICK output, sent :
        /\ \/ output = session.output
           \/ session.link_state = "Handshaking" /\ output = <<Hello>>
        /\ output \in Seq(OutboundLines) /\ sent \in Seq(OutboundLines)
        /\ \/ sent = <<>> /\ session'.output = output
           \/ edge /\ sent = output /\ session'.output = <<>>
        /\ toHost' = IF cable = "out" THEN <<>> ELSE toHost \o sent
  BY TickAndSendEffect
<1>3. output \in Seq(L)
  BY <1>2
<1>4. Stream' = toHost \o output
  <2>1. toHost' = toHost \o sent
    BY <1>2
  <2>2. CASE sent = <<>> /\ session'.output = output
    BY <1>1, <2>1, <2>2, Joined DEF Stream
  <2>3. CASE sent = output /\ session'.output = <<>>
    <3>1. toHost \o output \in Seq(L)
      BY <1>1, <1>3, Joined
    <3>2. QED
      BY <2>1, <2>3, <3>1, Joined DEF Stream
  <2>4. QED
    BY <1>2, <2>2, <2>3
<1>5. output = session.output \/ output = Append(session.output, Hello)
  <2>1. CASE session.link_state = "Handshaking" /\ output = <<Hello>>
    <3>1. \A i \in 1..Len(session.output) : session.output[i] = Hello /\ i = 1
      BY <1>1, <2>1 DEF Safe, HoldsNothingUnlinked, QueuesHelloFirst
    <3>2. Len(session.output) \in {0, 1}
      <4> DEFINE k == Len(session.output)
      <4>1. k \in Nat
        BY <1>1
      <4>2. 2 \notin 1..k
        BY <3>1
      <4> HIDE DEF k
      <4>3. k = 0 \/ k = 1
        BY <4>1, <4>2
      <4>4. QED
        BY <4>3 DEF k
    <3>3. CASE Len(session.output) = 0
      BY <1>1, <2>1, <3>3
    <3>4. CASE Len(session.output) = 1
      <4>1. session.output[1] = Hello
        BY <3>1, <3>4
      <4>2. /\ \A i \in 1..Len(session.output) : session.output[i] = <<Hello>>[i]
            /\ Len(session.output) = Len(<<Hello>>) /\ <<Hello>> \in Seq(L)
        BY <3>4, <4>1 DEF OutboundLines
      <4>3. session.output = <<Hello>>
        BY <1>1, <4>2, SeqEqual
      <4>4. QED
        BY <2>1, <4>3
    <3>5. QED
      BY <3>2, <3>3, <3>4
  <2>2. QED
    BY <1>2, <2>1
<1>6. Hello \in L
  BY DEF OutboundLines
<1>7. CASE output = session.output
  BY <1>4, <1>7 DEF Stream
<1>8. CASE output = Append(session.output, Hello)
  <2>1. NextLine(Hello)
    BY <1>4, <1>6, <1>8, StreamTypes DEF NextLine
  <2>2. QED
    BY <2>1
<1>9. QED
  BY <1>5, <1>7, <1>8

(* A HELLO among the lines, and no press in front of it but among the      *)
(* first n. *)
Greets(lines, n) ==
    \E j \in 1..Len(lines) :
        /\ lines[j] = Hello
        /\ \A i \in 1..(j - 1) : i > n => lines[i] \notin Events

(* A line written behind does not come in front of the HELLO.              *)
LEMMA GreetsAppend ==
  ASSUME NEW S, NEW lines \in Seq(S), NEW x, NEW n, Greets(lines, n)
  PROVE  Greets(Append(lines, x), n)
<1> DEFINE t == Append(lines, x)
<1>1. /\ Len(lines) \in Nat /\ Len(t) = Len(lines) + 1
      /\ \A i \in 1..Len(lines) : t[i] = lines[i]
  OBVIOUS
<1>2. PICK j \in 1..Len(lines) : /\ lines[j] = Hello
                                 /\ \A i \in 1..(j - 1) : i > n => lines[i] \notin Events
  BY DEF Greets
<1> HIDE DEF t
<1>3. j \in 1..Len(t) /\ \A i \in 1..(j - 1) : i \in 1..Len(lines)
  BY <1>1
<1>4. Greets(t, n)
  BY <1>1, <1>2, <1>3 DEF Greets
<1>5. QED
  BY <1>4 DEF t

(* A line read, not the HELLO, brings the HELLO and the stale presses that  *)
(* are left of the first n one line nearer.                                *)
LEMMA GreetsTail ==
  ASSUME NEW S, NEW lines \in Seq(S), lines # <<>>, Head(lines) # Hello,
         NEW n \in Nat, Greets(lines, n)
  PROVE  Greets(Tail(lines), IF n > 0 THEN n - 1 ELSE 0)
<1> DEFINE t == Tail(lines)
           m == IF n > 0 THEN n - 1 ELSE 0
<1>1. /\ Len(lines) \in Nat /\ Len(t) = Len(lines) - 1
      /\ \A i \in 1..Len(t) : t[i] = lines[i + 1]
      /\ Head(lines) = lines[1]
  BY HeadTailProperties
<1>2. PICK j \in 1..Len(lines) : /\ lines[j] = Hello
                                 /\ \A i \in 1..(j - 1) : i > n => lines[i] \notin Events
  BY DEF Greets
<1> HIDE DEF t
<1>3. j # 1
  BY <1>1, <1>2
<1>4. j - 1 \in 1..Len(t) /\ t[j - 1] = Hello
  BY <1>1, <1>2, <1>3
<1>5. ASSUME NEW i \in 1..(j - 1 - 1), i > m PROVE t[i] \notin Events
  <2>1. i + 1 \in 1..(j - 1) /\ i + 1 > n /\ i \in 1..Len(t)
    BY <1>1, <1>5
  <2>2. QED
    BY <1>1, <1>2, <2>1
<1> HIDE DEF m
<1>6. Greets(t, m)
  BY <1>4, <1>5 DEF Greets
<1>7. QED
  BY <1>6 DEF t, m

(* Once the loop has seen the port open, the peer's handshake is made, or  *)
(* a HELLO is on its way and nothing pressed since is in front of it.      *)
Greeted ==
    Working /\ edge /\ ~peer.reject_every_version =>
        peer.handshake_complete \/ Greets(Stream, stale)

(* The operator drops no link. *)
NoDrop == <<"drop">> \notin Commands

(* No peer is started to reject every version. *)
NoRejection == \A mode \in PeerModes : ~mode.reject

(* The port is not open at the start. *)
LEMMA InitGreeted == Init => Greeted
BY DEF Init, Greeted

(* No step opens the edge without a HELLO, or lets a press by it: pumping   *)
(* reads the stale presses off before it, and the probe hears it itself.   *)
LEMMA NextGreeted ==
  ASSUME NoDrop, Base, Greeted, [Next]_vars
  PROVE  Greeted'
<1> DEFINE L == OutboundLines \cup {Torn}
<1>0. /\ toHost \in Seq(L) /\ session.output \in Seq(L)
      /\ Safe(session) /\ Sound(peer) /\ Alike(peer, peer')
      /\ stale \in Nat /\ stale <= Len(toHost) /\ Len(toHost) \in Nat
  <2>1. session.output \in Seq(OutboundLines)
    BY DEF Base, TypeOK, Sessions
  <2>2. QED
    BY <2>1, PeerStays DEF Base, TypeOK
<1>a. Stream \in Seq(L)
  BY StreamTypes
<1>s. SUFFICES ASSUME cable' = "in", attached' = "open", edge', ~peer.reject_every_version
               PROVE  peer'.handshake_complete \/ Greets(Stream', stale')
  BY <1>0 DEF Greeted, Working, Alike
(* What was promised is promised still where the stream goes on.           *)
<1>1. ASSUME UNCHANGED <<cable, attached, edge, stale>>,
             Stream' = Stream \/ (\E x \in L : Stream' = Append(Stream, x)),
             peer.handshake_complete => peer'.handshake_complete
      PROVE  peer'.handshake_complete \/ Greets(Stream', stale')
  BY <1>a, <1>s, <1>1, GreetsAppend DEF Greeted, Working
<1>2. ASSUME NEW press \in UserPresses, Press(press[1], press[2])
      PROVE  peer'.handshake_complete \/ Greets(Stream', stale')
  <2>1. /\ session' = ReportPress(session, press[1], press[2])
        /\ UNCHANGED <<edge, cable, attached, toHost, stale, peer>>
    BY <1>2 DEF Press, hostVars
  <2>2. QED
    BY <1>1, <1>2, <2>1, PressStream DEF NextLine
<1>3. CASE ObserveEdge
  <2>1. /\ UNCHANGED <<cable, attached, toHost, peer>>
        /\ stale' = IF edge /\ ~edge' THEN Len(toHost) ELSE stale
        /\ session' = IF edge' = edge THEN session
                      ELSE IF edge' THEN PortOpened(session) ELSE PortClosed(session)
        /\ edge \in BOOLEAN /\ edge' \in BOOLEAN
    BY <1>3 DEF ObserveEdge, hostVars, Base, TypeOK, HostOpen, HasPort
  <2>2. CASE edge
    <3>1. UNCHANGED <<edge, session, stale>>
      BY <1>s, <2>1, <2>2
    <3>2. QED
      BY <1>1, <2>1, <3>1 DEF Stream
  <2>3. CASE ~edge
    <3>1. stale' = Len(toHost) /\ session'.output = <<Hello>>
      BY <1>0, <1>s, <2>1, <2>3, PortOpenedEffect DEF Base, ClosedIsStale
    <3>2. Stream' = toHost \o <<Hello>>
      BY <2>1, <3>1 DEF Stream
    <3>3. /\ Len(Stream') = Len(toHost) + 1 /\ Stream'[Len(toHost) + 1] = Hello
      BY <1>0, <3>2
    <3>4. Greets(Stream', stale')
      BY <1>0, <3>1, <3>3 DEF Greets
    <3>5. QED
      BY <3>4
  <2>4. QED
    BY <2>1, <2>2, <2>3
<1>4. CASE Receive
  <2>1. /\ UNCHANGED <<edge, cable, attached, toHost, stale, peer>>
        /\ session' \in {session, ReceiveLine(session, Head(toDevice))}
        /\ Head(toDevice) \in InboundLines
    BY <1>4 DEF Receive, Deliver, hostVars, Base, TypeOK
  <2>2. session'.output = session.output
    BY <1>0, <2>1, ReceiveLineEffect
  <2>3. QED
    BY <1>1, <2>1, <2>2 DEF Stream
<1>5. ASSUME NEW elapsed \in 1..MaxElapsed, NEW room \in BOOLEAN,
             TickAndSend(elapsed, room)
      PROVE  peer'.handshake_complete \/ Greets(Stream', stale')
  <2>1. UNCHANGED <<edge, cable, attached, stale, peer>>
    BY <1>5 DEF TickAndSend, hostVars
  <2>2. cable # "out"
    BY <1>s, <2>1
  <2>3. QED
    BY <1>1, <1>5, <2>1, <2>2, SendStream DEF NextLine
<1>6. CASE PullCable
  BY <1>s, <1>6 DEF PullCable
(* Where the peer begins to work, the loop has yet to see the port open,   *)
(* or the peer was found by a HELLO. *)
<1>7. CASE PlugCable \/ Wake \/ OpenPort
  BY <1>s, <1>7 DEF PlugCable, Wake, OpenPort, PortOpens, remoteVars
<1>8. CASE Sleep \/ StartSearch \/ ProbeNode
  BY <1>s, <1>8 DEF Sleep, StartSearch, ProbeNode, PortOpens
<1>9. CASE Quit \/ DeviceGone \/ ProbeGivesUp
  BY <1>s, <1>9 DEF Quit, DeviceGone, ProbeGivesUp, PortCloses
<1>10. CASE NoPress \/ DrainBeginning \/ UNCHANGED vars
  BY <1>1, <1>10 DEF NoPress, DrainBeginning, remoteVars, hostVars, vars, Stream
<1>11. ASSUME NEW whole \in 0..Len(toHost), NEW part \in Parts, ProbeRead(whole, part)
       PROVE  peer'.handshake_complete \/ Greets(Stream', stale')
  <2> DEFINE seen == SubSeq(toHost, 1, whole)
  <2>1. /\ toHost' \in Seq(L) /\ attached = "probing" /\ UNCHANGED session
    BY <1>11, ProbeReadWire
  <2>2. /\ Fed(peer, peer', seen, whole)
        /\ \/ \E j \in 1..whole : seen[j] = Hello
           \/ toHost' # <<>> /\ toHost'[1] = Hello
    BY <1>s, <1>11, <2>1, ProbeReadEffect
  <2> HIDE DEF seen
  <2>3. CASE \E j \in 1..whole : seen[j] = Hello
    BY <1>s, <2>2, <2>3 DEF Fed
  <2>4. CASE toHost' # <<>> /\ toHost'[1] = Hello
    <3>1. Stream' = toHost' \o session.output
      BY <2>1 DEF Stream
    <3>2. Len(Stream') >= 1 /\ Stream'[1] = Hello /\ Len(Stream') \in Nat
      BY <1>0, <2>1, <2>4, <3>1
    <3>3. Greets(Stream', stale')
      BY <3>2 DEF Greets
    <3>4. QED
      BY <3>3
  <2>5. QED
    BY <2>2, <2>3, <2>4
<1>12. CASE PumpWrite
  <2>1. /\ UNCHANGED <<session, edge, cable, attached, toHost, stale>>
        /\ peer' = [peer EXCEPT !.output = <<>>]
    BY <1>12 DEF PumpWrite, remoteVars
  <2>2. peer'.handshake_complete = peer.handshake_complete
    BY <1>0, <2>1 DEF Sound, Peers
  <2>3. QED
    BY <1>1, <2>1, <2>2 DEF Stream
<1>13. CASE PumpRead
  <2>1. /\ toHost # <<>> /\ toHost' = Tail(toHost)
        /\ stale' = IF stale > 0 THEN stale - 1 ELSE 0
        /\ UNCHANGED <<session, edge, cable, attached>>
        /\ Working
    BY <1>13 DEF PumpRead, remoteVars
  <2>2. peer'.handshake_complete = IF Head(toHost) = Hello
                                   THEN ~peer.reject_every_version
                                   ELSE peer.handshake_complete
    BY <1>13, PumpReadEffect DEF Answers
  <2>3. CASE Head(toHost) = Hello
    BY <1>s, <2>2, <2>3
  <2>4. CASE Head(toHost) # Hello /\ ~peer.handshake_complete
    <3>1. Greets(Stream, stale)
      BY <1>s, <2>1, <2>4 DEF Greeted
    <3>2. /\ Stream # <<>> /\ Head(Stream) = Head(toHost)
          /\ Stream' = Tail(Stream)
      BY <1>0, <2>1, Joined DEF Stream
    <3>3. QED
      BY <1>0, <1>a, <2>1, <2>4, <3>1, <3>2, GreetsTail
  <2>5. QED
    BY <2>2, <2>3, <2>4
<1>14. ASSUME NEW command \in Commands, Operate(command)
       PROVE  peer'.handshake_complete \/ Greets(Stream', stale')
  <2>1. UNCHANGED <<session, edge, cable, attached, toHost, stale>>
    BY <1>14 DEF Operate, remoteVars
  <2>2. peer'.handshake_complete = peer.handshake_complete
    BY <1>14, OperateEffect DEF NoDrop, Obeys
  <2>3. QED
    BY <1>1, <2>1, <2>2 DEF Stream
<1>15. QED
  BY <1>2, <1>3, <1>4, <1>5, <1>6, <1>7, <1>8, <1>9, <1>10, <1>11, <1>12, <1>13, <1>14
  DEF Next

(* What a peer that works for the first press since the port opened has    *)
(* heard before it is the HELLO: whatever answers to an earlier one are    *)
(* still about, and whatever was cut, repeated or left over.               *)
THEOREM FreshPressesHeard ==
  ASSUME NoDrop, NoRejection
  PROVE  Spec => []FreshPressesAreHeard
<1>1. Base /\ Greeted /\ [Next]_vars => Greeted'
  BY NextGreeted
<1>2. ASSUME Base, Greeted PROVE FreshPressesAreHeard
  <2>1. SUFFICES ASSUME Working, toHost # <<>>, Head(toHost) \in Events, stale = 0,
                        ~peer.handshake_complete
                 PROVE  FALSE
    BY DEF FreshPressesAreHeard
  <2>2. /\ toHost \in Seq(OutboundLines \cup {Torn})
        /\ session.output \in Seq(OutboundLines \cup {Torn})
    <3>1. session.output \in Seq(OutboundLines)
      BY <1>2 DEF Base, TypeOK, Sessions
    <3>2. QED
      BY <1>2, <3>1 DEF Base, TypeOK
  <2>3. edge
    BY <1>2, <2>1, <2>2 DEF Base, ClosedIsStale
  <2>4. ~peer.reject_every_version
    BY <1>2 DEF Base, StartedSo, NoRejection
  <2>5. Greets(Stream, 0)
    BY <1>2, <2>1, <2>3, <2>4 DEF Greeted
  <2>6. Stream # <<>> /\ Head(Stream) = Head(toHost) /\ Stream \in Seq(OutboundLines \cup {Torn})
    BY <2>1, <2>2, Joined DEF Stream
  <2>7. Stream[1] \in Events /\ Stream[1] # Hello
    BY <2>1, <2>6 DEF Events, Hello
  <2>8. QED
    BY <2>5, <2>6, <2>7 DEF Greets
<1>3. QED
  BY <1>1, <1>2, InitBase, NextBase, InitGreeted, PTL DEF Spec

-----------------------------------------------------------------------------
(***************************************************************************)
(* What becomes of the presses left over from a link.                      *)
(***************************************************************************)

(* The host never suspends the bus. *)
NoSleep == ~HostSleeps

(* A peer without the port has shaken no hands, a close leaves one line at *)
(* most, and whoever reads it has shaken none.  Where the shell has let go *)
(* of the port, the loop sees that before it writes another.               *)
StaleSoFar ==
    /\ cable # "asleep"
    /\ stale <= 1
    /\ attached # "open" \/ stale > 0 => ~peer.handshake_complete
    /\ edge /\ ~HasPort /\ cable = "in" => pc = "edge" /\ Len(toHost) <= 1

(* Nothing was written at the start. *)
LEMMA InitStale == Init => StaleSoFar
BY DEF Init, StaleSoFar, InitialPeer

(* A line that crosses a close does so alone, and to a peer that has heard *)
(* no HELLO: only sleep holds more of them back, or keeps the handshake.   *)
LEMMA NextStale ==
  ASSUME NoSleep, Base, StaleSoFar, [Next]_vars
  PROVE  StaleSoFar'
<1>0. /\ edge \in BOOLEAN /\ stale \in Nat /\ stale <= Len(toHost)
      /\ toHost \in Seq(OutboundLines \cup {Torn}) /\ Len(toHost) \in Nat
      /\ pc \in {"keys", "edge", "receive"} /\ cable \in {"in", "out"}
      /\ attached \in {"stopped", "searching", "probing", "open"}
      /\ OutIsEmpty /\ Sound(peer) /\ peer.handshake_complete \in BOOLEAN
  BY DEF Base, TypeOK, StaleSoFar, Sound, Peers
<1>1. ASSUME NEW press \in UserPresses, Press(press[1], press[2])
      PROVE  StaleSoFar'
  BY <1>0, <1>1 DEF Press, hostVars, StaleSoFar, HasPort
<1>2. CASE NoPress
  BY <1>0, <1>2 DEF NoPress, hostVars, StaleSoFar, HasPort
<1>3. CASE ObserveEdge
  <2>1. /\ edge' = (cable = "in" /\ HasPort)
        /\ stale' = IF edge /\ ~edge' THEN Len(toHost) ELSE stale
        /\ UNCHANGED <<cable, attached, peer, toHost>>
    BY <1>3 DEF ObserveEdge, HostOpen, hostVars
  <2>2. CASE edge /\ ~edge'
    <3>1. cable = "out" => Len(toHost) = 0
      BY <1>0 DEF OutIsEmpty
    <3>2. cable = "in" => Len(toHost) <= 1 /\ attached # "open"
      BY <2>1, <2>2 DEF StaleSoFar, HasPort
    <3>3. QED
      BY <1>0, <2>1, <2>2, <3>1, <3>2 DEF StaleSoFar, HasPort
  <2>3. CASE ~(edge /\ ~edge')
    BY <1>0, <2>1, <2>3 DEF StaleSoFar, HasPort
  <2>4. QED
    BY <2>2, <2>3
<1>4. CASE Receive \/ DrainBeginning
  BY <1>0, <1>4 DEF Receive, DrainBeginning, remoteVars, hostVars, StaleSoFar, HasPort
<1>5. ASSUME NEW elapsed \in 1..MaxElapsed, NEW room \in BOOLEAN,
             TickAndSend(elapsed, room)
      PROVE  StaleSoFar'
  <2>1. pc = "receive" /\ UNCHANGED <<edge, cable, attached, peer, stale>>
    BY <1>5 DEF TickAndSend, hostVars
  <2>2. QED
    BY <1>0, <2>1 DEF StaleSoFar, HasPort
<1>6. CASE PullCable
  <2>1. /\ cable' = "out" /\ stale' = 0 /\ UNCHANGED peer
        /\ attached' = IF attached = "probing" THEN "searching" ELSE attached
    BY <1>6 DEF PullCable
  <2>2. QED
    BY <2>1 DEF StaleSoFar
<1>7. CASE PlugCable
  BY <1>0, <1>7 DEF PlugCable, remoteVars, StaleSoFar, HasPort
<1>8. CASE Sleep \/ Wake
  BY <1>0, <1>8 DEF Sleep, Wake, NoSleep
<1>9. CASE OpenPort \/ StartSearch \/ ProbeNode
  <2>1. /\ attached # "open" /\ UNCHANGED <<edge, pc, cable, peer, toHost, stale>>
        /\ attached' = "searching" \/ ~edge
    BY <1>9 DEF OpenPort, StartSearch, ProbeNode, PortOpens, remoteVars
  <2>2. StartSearch => ~HasPort
    BY DEF StartSearch, HasPort
  <2>3. edge' /\ cable' = "in" => pc' = "edge" /\ Len(toHost') <= 1
    BY <1>9, <2>1, <2>2 DEF OpenPort, ProbeNode, PortOpens, StaleSoFar
  <2>4. QED
    BY <2>1, <2>3 DEF StaleSoFar
<1>10. CASE Quit \/ DeviceGone \/ ProbeGivesUp
  <2>1. PICK next \in {"stopped", "searching"} : PortCloses(next)
    BY <1>10 DEF Quit, DeviceGone, ProbeGivesUp
  <2>2. /\ attached' = next /\ UNCHANGED <<edge, pc, cable>>
        /\ Len(toHost') <= 1 /\ stale' = Len(toHost')
        /\ cable = "in" => pc = "edge"
    BY <2>1, PortClosesEffect DEF PortCloses
  <2>3. ~peer'.handshake_complete
    <3>1. CASE Quit
      BY <3>1, QuitEffect DEF Fresh
    <3>2. CASE DeviceGone
      BY <1>0, <3>2, LinkDroppedFresh DEF DeviceGone, Fresh
    <3>3. CASE ProbeGivesUp
      BY <3>3 DEF ProbeGivesUp, StaleSoFar
    <3>4. QED
      BY <1>10, <3>1, <3>2, <3>3
  <2>4. QED
    BY <2>2, <2>3 DEF StaleSoFar
<1>11. ASSUME NEW whole \in 0..Len(toHost), NEW part \in Parts, ProbeRead(whole, part)
       PROVE  StaleSoFar'
  <2>1. /\ stale' = IF stale > whole THEN stale - whole ELSE 0
        /\ cable = "in" /\ attached = "probing" /\ attached' \in {"probing", "open"}
        /\ UNCHANGED <<edge, cable>>
    BY <1>11, ProbeReadWire
  <2>2. ~peer.handshake_complete
    BY <2>1 DEF StaleSoFar
  <2>3. attached' # "open" \/ stale' > 0 => ~peer'.handshake_complete
    <3>1. CASE UNCHANGED <<peer, attached>>
      BY <2>2, <3>1
    <3>2. CASE attached' = "open" /\ Fed(peer, peer', SubSeq(toHost, 1, whole), whole)
      <4>1. stale' > 0 => whole = 0
        BY <1>0, <2>1 DEF StaleSoFar
      <4>2. whole = 0 => peer'.handshake_complete = peer.handshake_complete
        BY <3>2 DEF Fed
      <4>3. QED
        BY <2>2, <3>2, <4>1, <4>2
    <3>3. QED
      BY <1>11, <3>1, <3>2, ProbeReadEffect
  <2>4. stale' <= 1
    BY <1>0, <2>1 DEF StaleSoFar
  <2>5. QED
    BY <2>1, <2>3, <2>4 DEF StaleSoFar, HasPort
<1>12. CASE PumpWrite
  <2>1. /\ UNCHANGED <<edge, pc, cable, attached, toHost, stale>>
        /\ peer'.handshake_complete = peer.handshake_complete
    BY <1>0, <1>12 DEF PumpWrite, remoteVars, Sound, Peers
  <2>2. QED
    BY <2>1 DEF StaleSoFar, HasPort
<1>13. CASE PumpRead
  <2>1. /\ stale' = IF stale > 0 THEN stale - 1 ELSE 0
        /\ attached = "open" /\ UNCHANGED <<cable, attached>>
    BY <1>13 DEF PumpRead, Working
  <2>2. stale' = 0
    BY <1>0, <2>1 DEF StaleSoFar
  <2>3. QED
    BY <1>0, <2>1, <2>2 DEF StaleSoFar, HasPort
<1>14. ASSUME NEW command \in Commands, Operate(command)
       PROVE  StaleSoFar'
  <2>1. UNCHANGED <<edge, pc, cable, attached, toHost, stale>>
    BY <1>14 DEF Operate, remoteVars
  <2>2. peer'.handshake_complete => peer.handshake_complete
    BY <1>0, <1>14, OperateEffect, LinkDroppedFresh DEF Obeys, Fresh
  <2>3. QED
    BY <2>1, <2>2 DEF StaleSoFar, HasPort
<1>15. CASE UNCHANGED vars
  BY <1>15 DEF vars, StaleSoFar, HasPort
<1>16. QED
  BY <1>1, <1>2, <1>3, <1>4, <1>5, <1>6, <1>7, <1>8, <1>9, <1>10, <1>11, <1>12, <1>13,
     <1>14, <1>15
  DEF Next

(* "A stale press cannot arrive after a reconnection and end a later       *)
(* session" (remote_session.h), whatever is probed, restarted and pulled,  *)
(* and whatever the peer and its operator do; if the host never suspends   *)
(* the bus.  A suspended one holds presses back that the handshake         *)
(* outlives.                                                               *)
THEOREM StalePressesRefused ==
  ASSUME NoSleep
  PROVE  Spec => []StalePressesAreRefused
<1>1. Base /\ StaleSoFar /\ [Next]_vars => StaleSoFar'
  BY NextStale
<1>2. StaleSoFar => StalePressesAreRefused
  BY DEF StaleSoFar, StalePressesAreRefused
<1>3. QED
  BY <1>1, <1>2, InitBase, NextBase, InitStale, PTL DEF Spec

-----------------------------------------------------------------------------
(***************************************************************************)
(* What the remote shows when nothing is on its way.                       *)
(***************************************************************************)

(* The operator cuts no line. *)
NoPartial == <<"partial">> \notin Commands

(* Every record fits a line. *)
AllEncode == Unencodable = {}

(* Of no line there is only the beginning. *)
WholeLines == {line \in InboundLines : line.kind # "partial"}

LinesAreWhole ==
    /\ session.inbound = <<>>
    /\ ToSet(toDevice) \subseteq WholeLines
    /\ ToSet(peer.output) \subseteq WholeLines

(* There are no lines at the start. *)
LEMMA InitWhole == Init => LinesAreWhole
<1> SUFFICES ASSUME Init PROVE LinesAreWhole
  OBVIOUS
<1>1. toDevice = <<>> /\ session.inbound = <<>>
  BY DEF Init, InitialSession
<1>2. peer.output = <<>>
  BY DEF Init, InitialPeer
<1>3. QED
  BY <1>1, <1>2, EmptyToSet DEF LinesAreWhole

(* Where no command cuts a line, none on its way to the remote is cut.     *)
LEMMA NextWhole ==
  ASSUME NoPartial, Base, LinesAreWhole, [Next]_vars
  PROVE  LinesAreWhole'
<1>0. /\ Safe(session) /\ Sound(peer)
      /\ toDevice \in Seq(InboundLines) /\ peer.output \in Seq(InboundLines)
  BY DEF Base, TypeOK, Sound, Peers
<1>1. ASSUME UNCHANGED <<toDevice, peer>>, session'.inbound = <<>>
      PROVE  LinesAreWhole'
  BY <1>1 DEF LinesAreWhole, WholeLines
<1>2. ASSUME UNCHANGED <<toDevice, session>>, ToSet(peer'.output) \subseteq WholeLines
      PROVE  LinesAreWhole'
  BY <1>2 DEF LinesAreWhole, WholeLines
<1>3. ASSUME ToSet(toDevice') \subseteq ToSet(toDevice), UNCHANGED peer,
             session'.inbound = <<>>
      PROVE  LinesAreWhole'
  BY <1>3 DEF LinesAreWhole, WholeLines
<1>4. ASSUME NEW press \in UserPresses, Press(press[1], press[2]) PROVE LinesAreWhole'
  <2>1. press[1] \in Keys /\ press[2] \in PressKinds
    BY OperatorAssumption
  <2>2. session'.inbound = session.inbound /\ UNCHANGED <<toDevice, peer>>
    BY <1>0, <1>4, <2>1, ReportPressSafe DEF Press, hostVars
  <2>3. QED
    BY <1>1, <2>2 DEF LinesAreWhole
<1>5. CASE ObserveEdge
  <2>1. /\ session' \in {session, PortOpened(session), PortClosed(session)}
        /\ UNCHANGED <<toDevice, peer>>
    BY <1>5 DEF ObserveEdge, hostVars
  <2>2. QED
    BY <1>0, <1>1, <2>1, PortOpenedSafe, PortClosedSafe DEF LinesAreWhole
<1>6. CASE Receive
  <2> DEFINE line == Head(toDevice)
  <2>1. /\ toDevice # <<>> /\ toDevice' = Tail(toDevice) /\ UNCHANGED peer
        /\ session' \in {session, ReceiveLine(session, line)}
    BY <1>6 DEF Receive, Deliver, hostVars
  <2>2. line \in ToSet(toDevice) /\ line \in InboundLines
        /\ ToSet(toDevice') \subseteq ToSet(toDevice)
    BY <1>0, <2>1, LinesOf
  <2>3. line.kind # "partial"
    BY <2>2 DEF LinesAreWhole, WholeLines
  <2>4. session'.inbound = <<>>
    BY <1>0, <2>1, <2>2, <2>3, ReceiveLineEffect DEF LinesAreWhole
  <2>5. QED
    BY <1>3, <2>1, <2>2, <2>4
<1>7. CASE DrainBeginning
  <2> DEFINE drained == [toDevice[1] EXCEPT !.kind = "noise"]
  <2>1. /\ toDevice # <<>> /\ toDevice' = [toDevice EXCEPT ![1] = drained]
        /\ UNCHANGED <<session, peer>>
    BY <1>7 DEF DrainBeginning, hostVars, remoteVars
  <2>2. toDevice[1] \in InboundLines
    BY <1>0, <2>1
  <2>3. drained \in WholeLines
    BY <2>2 DEF InboundLines, WholeLines
  <2> HIDE DEF drained
  <2>4. \A i \in DOMAIN toDevice' : toDevice'[i] \in {drained, toDevice[i]} /\ i \in DOMAIN toDevice
    BY <1>0, <2>1
  <2>5. ToSet(toDevice') \subseteq ToSet(toDevice) \cup {drained}
    BY <2>4 DEF ToSet
  <2>6. ToSet(toDevice') \subseteq WholeLines
    BY <2>3, <2>5 DEF LinesAreWhole
  <2>7. QED
    BY <2>1, <2>6 DEF LinesAreWhole, WholeLines
<1>8. ASSUME NEW elapsed \in 1..MaxElapsed, NEW room \in BOOLEAN,
             TickAndSend(elapsed, room)
      PROVE  LinesAreWhole'
  <2>1. session'.inbound = session.inbound /\ UNCHANGED <<toDevice, peer>>
    BY <1>8, TickAndSendEffect DEF TickAndSend, hostVars
  <2>2. QED
    BY <1>1, <2>1 DEF LinesAreWhole
<1>9. CASE PullCable
  <2>1. toDevice' = <<>> /\ UNCHANGED <<session, peer>>
    BY <1>9 DEF PullCable, remoteVars
  <2>2. QED
    BY <1>3, <2>1, EmptyToSet DEF LinesAreWhole
<1>10. CASE NoPress \/ PlugCable \/ Sleep \/ Wake \/ OpenPort \/ StartSearch
            \/ ProbeNode \/ ProbeGivesUp \/ UNCHANGED vars
  <2>1. UNCHANGED <<session, toDevice, peer>>
    BY <1>10
    DEF NoPress, PlugCable, Sleep, Wake, OpenPort, StartSearch, ProbeNode, PortOpens,
        ProbeGivesUp, PortCloses, remoteVars, hostVars, vars
  <2>2. QED
    BY <1>1, <2>1 DEF LinesAreWhole
<1>11. CASE Quit
  <2>1. Fresh(peer') /\ UNCHANGED <<toDevice, session>>
    BY <1>11, QuitEffect DEF Quit, PortCloses, remoteVars
  <2>2. QED
    BY <1>2, <2>1, EmptyToSet DEF Fresh
<1>12. CASE DeviceGone
  <2>1. Fresh(peer') /\ UNCHANGED <<toDevice, session>>
    BY <1>0, <1>12, LinkDroppedFresh DEF DeviceGone, PortCloses, remoteVars
  <2>2. QED
    BY <1>2, <2>1, EmptyToSet DEF Fresh
<1>13. \A reject : OwnAnswers(reject) \subseteq WholeLines
  BY DEF OwnAnswers, WholeLines, Display, InboundLines
<1>14. ASSUME NEW whole \in 0..Len(toHost), NEW part \in Parts, ProbeRead(whole, part)
       PROVE  LinesAreWhole'
  <2>1. UNCHANGED <<toDevice, session>>
    BY <1>14, ProbeReadWire
  <2>2. CASE UNCHANGED peer
    BY <1>1, <2>1, <2>2 DEF LinesAreWhole
  <2>3. CASE Fed(peer, peer', SubSeq(toHost, 1, whole), whole)
    BY <1>2, <1>13, <2>1, <2>3 DEF Fed, LinesAreWhole
  <2>4. QED
    BY <1>14, <2>2, <2>3, ProbeReadEffect
<1>15. CASE PumpWrite
  <2>1. /\ toDevice' = toDevice \o peer.output
        /\ peer' = [peer EXCEPT !.output = <<>>] /\ UNCHANGED session
    BY <1>15 DEF PumpWrite, remoteVars
  <2>2. peer'.output = <<>>
    BY <1>0, <2>1 DEF Sound, Peers
  <2>3. ToSet(toDevice') = ToSet(toDevice) \cup ToSet(peer.output)
    BY <1>0, <2>1, LinesOf
  <2>4. QED
    BY <2>1, <2>2, <2>3, EmptyToSet DEF LinesAreWhole, WholeLines
<1>16. CASE PumpRead
  <2>1. UNCHANGED <<toDevice, session>> /\ Answers(peer, peer', Head(toHost))
    BY <1>16, PumpReadEffect DEF PumpRead, remoteVars
  <2>2. QED
    BY <1>0, <1>2, <1>13, <2>1, AnswersAdd DEF LinesAreWhole
<1>17. ASSUME NEW command \in Commands, Operate(command) PROVE LinesAreWhole'
  <2>1. UNCHANGED <<toDevice, session>>
    BY <1>17 DEF Operate, remoteVars
  <2>2. CASE command = <<"drop">>
    <3>1. Fresh(peer')
      BY <1>0, <1>17, <2>2, OperateEffect, LinkDroppedFresh
    <3>2. QED
      BY <1>2, <2>1, <3>1, EmptyToSet DEF Fresh
  <2>3. CASE command # <<"drop">>
    <3>1. Obeys(peer, peer', command) /\ command # <<"partial">>
      BY <1>17, <2>3, OperateEffect DEF NoPartial
    <3>2. \/ Holds(peer, peer')
          \/ \E line \in WholeLines : Says(peer, peer', line)
      <4>1. CASE \E r \in DisplayRecords : Says(peer, peer', Display(r))
        <5>1. \A r \in DisplayRecords : Display(r) \in WholeLines
          BY DEF Display, WholeLines, InboundLines
        <5>2. QED
          BY <4>1, <5>1
      <4>2. CASE \E line \in InboundLines :
                   Says(peer, peer', line) /\ line.kind # "partial"
        BY <4>2 DEF WholeLines
      <4>3. QED
        BY <3>1, <4>1, <4>2 DEF Obeys
    <3>3. CASE Holds(peer, peer')
      BY <1>2, <2>1, <3>3 DEF Holds, LinesAreWhole
    <3>4. ASSUME NEW line \in WholeLines, Says(peer, peer', line) PROVE LinesAreWhole'
      <4>1. ToSet(Append(peer.output, line)) = ToSet(peer.output) \cup {line}
        BY <1>0, LinesOf
      <4>2. QED
        BY <1>2, <2>1, <3>4, <4>1 DEF Says, LinesAreWhole
    <3>5. QED
      BY <3>2, <3>3, <3>4
  <2>4. QED
    BY <2>2, <2>3
<1>18. QED
  BY <1>4, <1>5, <1>6, <1>7, <1>8, <1>9, <1>10, <1>11, <1>12, <1>14, <1>15, <1>16, <1>17
  DEF Next

(* The lines to be read end in the peer's record; or there is no record    *)
(* among them, and what the remote shows, if connected, is it already.     *)
Settles(lines, s, record) ==
    \/ LastShows(lines, record)
    \/ /\ NoRecord(lines)
       /\ s.link_state = "Connected" => Same(s.current_display, record)

(* Unless a HELLO is still to be answered, what is on its way settles it.  *)
Settled ==
    Working /\ edge /\ ~peer.silent /\ ~peer.reject_every_version
    /\ ~peer.output_overflowed =>
        \/ Hello \in ToSet(Stream)
        \/ Settles(Flight, session, peer.current_display)

(* The port is not open at the start. *)
LEMMA InitSettled == Init => Settled
BY DEF Init, Settled

(* Lines that greet hold a HELLO. *)
LEMMA GreetsHello ==
  ASSUME NEW S, NEW lines \in Seq(S), NEW n, Greets(lines, n)
  PROVE  Hello \in ToSet(lines)
<1>1. DOMAIN lines = 1..Len(lines)
  OBVIOUS
<1>2. QED
  BY <1>1 DEF Greets, ToSet

(* HELLO stays among the lines until it is read. *)
LEMMA HelloInTail ==
  ASSUME NEW S, NEW lines \in Seq(S), lines # <<>>, Hello \in ToSet(lines),
         Head(lines) # Hello
  PROVE  Hello \in ToSet(Tail(lines))
<1>1. /\ DOMAIN lines = 1..Len(lines) /\ Len(lines) \in Nat /\ Head(lines) = lines[1]
      /\ DOMAIN Tail(lines) = 1..(Len(lines) - 1)
      /\ \A i \in 1..(Len(lines) - 1) : Tail(lines)[i] = lines[i + 1]
  OBVIOUS
<1>2. PICK j \in 1..Len(lines) : lines[j] = Hello
  BY <1>1 DEF ToSet
<1>3. j - 1 \in 1..(Len(lines) - 1) /\ Tail(lines)[j - 1] = Hello
  BY <1>1, <1>2
<1>4. QED
  BY <1>1, <1>3 DEF ToSet

(* The flight is a sequence of lines the remote can read, and what the      *)
(* peer says goes behind all of it.                                        *)
LEMMA FlightTypes ==
  ASSUME Base
  PROVE  /\ toDevice \in Seq(InboundLines) /\ peer.output \in Seq(InboundLines)
         /\ Flight \in Seq(InboundLines)
         /\ \A x \in InboundLines :
              toDevice \o Append(peer.output, x) = Append(Flight, x)
<1>1. toDevice \in Seq(InboundLines) /\ peer.output \in Seq(InboundLines)
  BY DEF Base, TypeOK, Sound, Peers
<1>2. QED
  BY <1>1, Joined DEF Flight

(* What the remote reads first is read off the flight.                     *)
LEMMA FlightTail ==
  ASSUME Base, toDevice # <<>>
  PROVE  Flight # <<>> /\ Tail(toDevice) \o peer.output = Tail(Flight)
         /\ Head(Flight) = Head(toDevice)
<1>1. toDevice \in Seq(InboundLines) /\ peer.output \in Seq(InboundLines)
  BY FlightTypes
<1>2. QED
  BY <1>1, Joined DEF Flight

(* And what the peer reads first, off the stream.                          *)
LEMMA StreamTail ==
  ASSUME Base, toHost # <<>>
  PROVE  Stream # <<>> /\ Tail(toHost) \o session.output = Tail(Stream)
         /\ Head(Stream) = Head(toHost)
<1> DEFINE L == OutboundLines \cup {Torn}
<1>1. toHost \in Seq(L) /\ session.output \in Seq(L)
  BY StreamTypes
<1> HIDE DEF L
<1>2. QED
  BY <1>1, Joined DEF Stream

(* The peer says its own record, or a line that is none. *)
LEMMA SaidSettles ==
  ASSUME Base, UNCHANGED <<toDevice, session>>, NEW x \in InboundLines,
         peer'.output = Append(peer.output, x),
         \/ x.kind = "display" /\ Same(x.record, peer'.current_display)
         \/ /\ x.kind # "display" /\ peer'.current_display = peer.current_display
            /\ Settles(Flight, session, peer.current_display)
  PROVE  Settles(Flight', session', peer'.current_display)
<1>1. Flight' = Append(Flight, x) /\ Flight \in Seq(InboundLines)
  BY FlightTypes DEF Flight
<1>2. QED
  BY <1>1, LastShowsAppend DEF Settles

(* No step unsettles it: what changes the peer's record says the record,    *)
(* what reads a record off shows it, and what forgets one queues a HELLO.  *)
LEMMA NextSettled ==
  ASSUME NoDrop, AllEncode, Base, Greeted, LinesAreWhole, Settled, [Next]_vars
  PROVE  Settled'
<1> DEFINE Goal == \/ Hello \in ToSet(Stream')
                   \/ Settles(Flight', session', peer'.current_display)
<1>0. /\ Safe(session) /\ Sound(peer) /\ Alike(peer, peer')
      /\ session.output \in Seq(OutboundLines \cup {Torn})
      /\ toHost \in Seq(OutboundLines \cup {Torn})
      /\ Stream \in Seq(OutboundLines \cup {Torn})
      /\ toDevice \in Seq(InboundLines) /\ peer.output \in Seq(InboundLines)
  BY PeerStays, StreamTypes, FlightTypes DEF Base
<1>s. SUFFICES ASSUME cable' = "in", attached' = "open", edge', ~peer.silent,
                      ~peer.reject_every_version, ~peer'.output_overflowed
               PROVE  Goal
  BY <1>0 DEF Settled, Working, Alike
(* Where the stream goes on and what is on its way the other way stays.    *)
<1>1. ASSUME UNCHANGED <<cable, attached, edge>>,
             Stream' = Stream \/ (\E x : NextLine(x)),
             Flight' = Flight, SameLink(session, session'),
             peer'.current_display = peer.current_display,
             peer.output_overflowed => peer'.output_overflowed
      PROVE  Goal
  <2>1. \A x : ToSet(Append(Stream, x)) = ToSet(Stream) \cup {x}
    BY <1>0, LinesOf
  <2>2. Hello \in ToSet(Stream) => Hello \in ToSet(Stream')
    BY <1>1, <2>1 DEF NextLine
  <2>3. Settles(Flight, session, peer.current_display)
          => Settles(Flight', session', peer'.current_display)
    BY <1>1 DEF Settles, SameLink
  <2>4. QED
    BY <1>s, <1>1, <2>2, <2>3 DEF Settled, Working
<1>2. ASSUME NEW press \in UserPresses, Press(press[1], press[2]) PROVE Goal
  <2>1. /\ UNCHANGED <<edge, cable, attached, toDevice, peer>>
        /\ SameLink(session, session')
    BY <1>0, <1>2, ReportPressEffect DEF Press, hostVars
  <2>2. QED
    BY <1>1, <1>2, <2>1, PressStream DEF Flight
<1>3. CASE ObserveEdge
  <2>1. /\ UNCHANGED <<cable, attached, toHost, toDevice, peer>>
        /\ session' = IF edge' = edge THEN session
                      ELSE IF edge' THEN PortOpened(session) ELSE PortClosed(session)
        /\ edge \in BOOLEAN /\ edge' \in BOOLEAN
    BY <1>3 DEF ObserveEdge, hostVars, Base, TypeOK, HostOpen, HasPort
  <2>2. CASE edge
    <3>1. UNCHANGED <<edge, session>>
      BY <1>s, <2>1, <2>2
    <3>2. QED
      BY <1>1, <2>1, <3>1 DEF Stream, Flight, SameLink
  <2>3. CASE ~edge
    <3>1. session'.output = <<Hello>>
      BY <1>0, <1>s, <2>1, <2>3, PortOpenedEffect
    <3>2. <<Hello>> \in Seq(OutboundLines \cup {Torn}) /\ Hello \in ToSet(<<Hello>>)
      BY DEF OutboundLines, ToSet
    <3>3. Stream' = toHost \o <<Hello>>
      BY <2>1, <3>1 DEF Stream
    <3>4. ToSet(toHost \o <<Hello>>) = ToSet(toHost) \cup ToSet(<<Hello>>)
      <4> DEFINE L == OutboundLines \cup {Torn}
                 hello == <<Hello>>
      <4>1. toHost \in Seq(L) /\ hello \in Seq(L)
        BY <3>2, StreamTypes
      <4> HIDE DEF L, hello
      <4>2. ToSet(toHost \o hello) = ToSet(toHost) \cup ToSet(hello)
        BY <4>1, LinesOf
      <4>3. QED
        BY <4>2 DEF hello
    <3>5. QED
      BY <3>2, <3>3, <3>4
  <2>4. QED
    BY <2>1, <2>2, <2>3
<1>4. CASE Receive
  <2> DEFINE line == Head(toDevice)
  <2>1. /\ UNCHANGED <<edge, cable, attached, toHost, peer>>
        /\ toDevice # <<>> /\ toDevice' = Tail(toDevice)
        /\ session' = IF edge THEN ReceiveLine(session, line) ELSE session
    BY <1>4 DEF Receive, Deliver, hostVars
  <2>2. session' = ReceiveLine(session, line)
    BY <1>s, <2>1
  <2>3. line \in InboundLines /\ line \in ToSet(toDevice)
    BY <1>0, <2>1, LinesOf
  <2>4. line.kind # "partial" /\ session.inbound = <<>>
    BY <2>3 DEF LinesAreWhole, WholeLines
  <2>5. /\ session'.output = session.output
        /\ line.kind # "display" => SameLink(session, session')
        /\ line.kind = "display" /\ session'.link_state = "Connected"
             => session'.current_display = line.record
    BY <1>0, <2>2, <2>3, <2>4, ReceiveLineEffect
  <2>6. /\ Flight # <<>> /\ Flight' = Tail(Flight) /\ Head(Flight) = line
        /\ Flight \in Seq(InboundLines)
    <3>1. Flight # <<>> /\ Tail(toDevice) \o peer.output = Tail(Flight)
          /\ Head(Flight) = Head(toDevice)
      BY <2>1, FlightTail
    <3>2. Flight' = Tail(toDevice) \o peer.output
      BY <2>1 DEF Flight
    <3>3. QED
      BY <2>1, <3>1, <3>2, FlightTypes
  <2>7. CASE Hello \in ToSet(Stream)
    <3>1. Stream' = Stream
      BY <2>1, <2>5 DEF Stream
    <3>2. QED
      BY <2>7, <3>1
  <2>8. CASE Hello \notin ToSet(Stream)
    <3> DEFINE d == peer.current_display
    <3>1. Settles(Flight, session, d)
      BY <1>s, <2>1, <2>8 DEF Settled, Working
    <3>2. CASE LastShows(Flight, d)
      <4>1. \/ LastShows(Flight', d)
            \/ NoRecord(Flight') /\ line.kind = "display" /\ Same(line.record, d)
        BY <2>6, <3>2, LastShowsTail
      <4>2. Settles(Flight', session', d)
        BY <2>5, <4>1 DEF Settles
      <4>3. QED
        BY <2>1, <4>2
    <3>3. CASE /\ NoRecord(Flight)
               /\ session.link_state = "Connected" => Same(session.current_display, d)
      <4>1. NoRecord(Flight') /\ line.kind # "display"
        BY <2>6, <3>3, LastShowsTail
      <4>2. Settles(Flight', session', d)
        BY <2>5, <3>3, <4>1 DEF Settles, SameLink
      <4>3. QED
        BY <2>1, <4>2
    <3>4. QED
      BY <3>1, <3>2, <3>3 DEF Settles
  <2>9. QED
    BY <2>7, <2>8
<1>5. ASSUME NEW elapsed \in 1..MaxElapsed, NEW room \in BOOLEAN,
             TickAndSend(elapsed, room)
      PROVE  Goal
  <2>1. /\ UNCHANGED <<edge, cable, attached, toDevice, peer>>
        /\ SameLink(session, session')
    BY <1>5, TickAndSendEffect DEF TickAndSend, hostVars
  <2>2. cable # "out"
    BY <1>s, <2>1
  <2>3. QED
    BY <1>1, <1>5, <2>1, <2>2, SendStream DEF Flight
<1>6. CASE PullCable
  BY <1>s, <1>6 DEF PullCable
<1>7. CASE PlugCable \/ Wake \/ OpenPort
  BY <1>s, <1>7 DEF PlugCable, Wake, OpenPort, PortOpens, remoteVars
<1>8. CASE Sleep \/ StartSearch \/ ProbeNode
  BY <1>s, <1>8 DEF Sleep, StartSearch, ProbeNode, PortOpens
<1>9. CASE Quit \/ DeviceGone \/ ProbeGivesUp
  BY <1>s, <1>9 DEF Quit, DeviceGone, ProbeGivesUp, PortCloses
<1>10. CASE NoPress \/ UNCHANGED vars
  BY <1>1, <1>10 DEF NoPress, hostVars, vars, Stream, Flight, SameLink
<1>11. CASE DrainBeginning
  BY <1>s, <1>11 DEF DrainBeginning, hostVars
<1>12. ASSUME NEW whole \in 0..Len(toHost), NEW part \in Parts, ProbeRead(whole, part)
       PROVE  Goal
  <2> DEFINE seen == SubSeq(toHost, 1, whole)
  <2>1. /\ toHost' \in Seq(OutboundLines \cup {Torn}) /\ attached = "probing"
        /\ UNCHANGED <<session, toDevice>>
    BY <1>12, ProbeReadWire
  <2>2. /\ Fed(peer, peer', seen, whole)
        /\ \/ \E j \in 1..whole : seen[j] = Hello
           \/ toHost' # <<>> /\ toHost'[1] = Hello
    BY <1>s, <1>12, <2>1, ProbeReadEffect
  <2> HIDE DEF seen
  <2>3. CASE \E j \in 1..whole : seen[j] = Hello
    <3>1. LastShows(peer'.output, peer'.current_display) /\ peer'.output \in Seq(InboundLines)
      BY <1>s, <2>2, <2>3 DEF Fed, AllEncode, Sound, Peers
    <3>2. LastShows(toDevice \o peer'.output, peer'.current_display)
      BY <1>0, <3>1, LastShowsBehind
    <3>3. Flight' = toDevice \o peer'.output
      BY <2>1 DEF Flight
    <3>4. QED
      BY <3>2, <3>3 DEF Settles
  <2>4. CASE toHost' # <<>> /\ toHost'[1] = Hello
    <3>1. Hello \in ToSet(toHost')
      BY <2>1, <2>4 DEF ToSet
    <3>2. Stream' = toHost' \o session.output
      BY <2>1 DEF Stream
    <3>3. Hello \in ToSet(Stream')
      BY <1>0, <2>1, <3>1, <3>2, LinesOf
    <3>4. QED
      BY <3>3
  <2>5. QED
    BY <2>2, <2>3, <2>4
<1>13. CASE PumpWrite
  <2>1. /\ UNCHANGED <<session, edge, cable, attached, toHost>>
        /\ toDevice' = toDevice \o peer.output
        /\ peer' = [peer EXCEPT !.output = <<>>]
    BY <1>13 DEF PumpWrite, remoteVars
  <2>2. /\ peer'.current_display = peer.current_display
        /\ peer'.output_overflowed = peer.output_overflowed
        /\ peer'.output = <<>>
    BY <1>0, <2>1 DEF Sound, Peers
  <2>3. Flight' = Flight
    <3>1. toDevice \o peer.output \in Seq(InboundLines)
      BY <1>0, Joined
    <3>2. QED
      BY <2>1, <2>2, <3>1, Joined DEF Flight
  <2>4. QED
    BY <1>1, <2>1, <2>2, <2>3 DEF Stream, SameLink
<1>14. CASE PumpRead
  <2> DEFINE line == Head(toHost)
  <2>1. /\ toHost # <<>> /\ toHost' = Tail(toHost)
        /\ UNCHANGED <<session, edge, cable, attached, toDevice>>
        /\ Working
    BY <1>14 DEF PumpRead, remoteVars
  <2>2. Answers(peer, peer', line)
    BY <1>14, PumpReadEffect
  <2>3. /\ Stream # <<>> /\ Head(Stream) = line /\ Stream' = Tail(Stream)
    <3>1. Stream # <<>> /\ Tail(toHost) \o session.output = Tail(Stream)
          /\ Head(Stream) = Head(toHost)
      BY <2>1, StreamTail
    <3>2. Stream' = Tail(toHost) \o session.output
      BY <2>1 DEF Stream
    <3>3. QED
      BY <3>1, <3>2
  <2> HIDE DEF line
  <2>4. CASE line # Hello /\ Hello \in ToSet(Stream)
    BY <1>0, <2>3, <2>4, HelloInTail
  <2>5. CASE line = Hello \/ Hello \notin ToSet(Stream)
    <3>1. peer'.handshake_complete
      <4>1. CASE line = Hello
        BY <1>s, <2>2, <4>1 DEF Answers
      <4>2. CASE line # Hello /\ Hello \notin ToSet(Stream)
        <5>1. ~Greets(Stream, stale)
          BY <1>0, <4>2, GreetsHello
        <5>2. peer.handshake_complete
          BY <1>s, <2>1, <5>1 DEF Greeted
        <5>3. QED
          BY <2>2, <4>2, <5>2 DEF Answers
      <4>3. QED
        BY <2>5, <4>1, <4>2
    <3>2. /\ ~peer.output_overflowed
          /\ \/ /\ line # Hello /\ peer'.output = peer.output
                /\ peer'.current_display = peer.current_display
             \/ \E r \in DisplayRecords :
                  /\ peer'.output = Append(peer.output, Display(r))
                  /\ Same(r, peer'.current_display)
      BY <1>0, <1>s, <2>2, <3>1, AnswerShows DEF AllEncode
    <3>3. CASE /\ line # Hello /\ peer'.output = peer.output
               /\ peer'.current_display = peer.current_display
      <4>1. Settles(Flight, session, peer.current_display)
        BY <1>s, <2>1, <2>5, <3>2, <3>3 DEF Settled
      <4>2. Flight' = Flight
        BY <2>1, <3>3 DEF Flight
      <4>3. QED
        BY <2>1, <3>3, <4>1, <4>2
    <3>4. ASSUME NEW r \in DisplayRecords, peer'.output = Append(peer.output, Display(r)),
                 Same(r, peer'.current_display)
          PROVE  Goal
      <4>1. Display(r) \in InboundLines /\ Display(r).kind = "display" /\ Display(r).record = r
        BY DEF Display, InboundLines
      <4>2. QED
        BY <2>1, <3>4, <4>1, SaidSettles
    <3>5. QED
      BY <3>2, <3>3, <3>4
  <2>6. QED
    BY <2>4, <2>5
<1>15. ASSUME NEW command \in Commands, Operate(command) PROVE Goal
  <2>1. /\ UNCHANGED <<session, edge, cable, attached, toHost, toDevice>>
        /\ Working
    BY <1>15 DEF Operate, remoteVars
  <2>2. Obeys(peer, peer', command)
    BY <1>15, OperateEffect DEF NoDrop
  <2>3. CASE Holds(peer, peer') /\ peer'.current_display = peer.current_display
    BY <1>1, <2>1, <2>3 DEF Holds, Stream, Flight, SameLink
  <2>4. ASSUME NEW r \in DisplayRecords, Says(peer, peer', Display(r)),
               Same(r, peer'.current_display)
        PROVE  Goal
    <3>1. Display(r) \in InboundLines /\ Display(r).kind = "display" /\ Display(r).record = r
      BY DEF Display, InboundLines
    <3>2. peer'.output = Append(peer.output, Display(r))
      BY <1>s, <2>4 DEF Says
    <3>3. QED
      BY <2>1, <2>4, <3>1, <3>2, SaidSettles
  <2>5. ASSUME NEW x \in InboundLines, Says(peer, peer', x), x.kind # "display",
               peer'.current_display = peer.current_display
        PROVE  Goal
    <3>1. peer'.output = Append(peer.output, x) /\ ~peer.output_overflowed
      BY <1>s, <2>5 DEF Says
    <3>2. CASE Hello \in ToSet(Stream)
      BY <2>1, <3>2 DEF Stream
    <3>3. CASE Settles(Flight, session, peer.current_display)
      BY <2>1, <2>5, <3>1, <3>3, SaidSettles
    <3>4. QED
      BY <1>s, <2>1, <3>1, <3>2, <3>3 DEF Settled
  <2>6. QED
    BY <2>2, <2>3, <2>4, <2>5 DEF Obeys
<1>16. QED
  BY <1>2, <1>3, <1>4, <1>5, <1>6, <1>7, <1>8, <1>9, <1>10, <1>11, <1>12, <1>13, <1>14,
     <1>15
  DEF Next

(* Once nothing is on its way, the record the remote shows is the peer's,  *)
(* whatever presses were refused, HELLOs repeated, records pushed early,   *)
(* ports probed, ends restarted and bytes left over: for any capacities,   *)
(* if nobody cuts a line or forgets a live link by hand, no peer rejects   *)
(* the version and every record fits a line.                               *)
THEOREM QuietAgrees ==
  ASSUME NoDrop, NoPartial, NoRejection, AllEncode
  PROVE  Spec => []QuietMeansAgreed
<1> DEFINE Inv == Base /\ EarnedSoFar /\ Greeted /\ LinesAreWhole /\ Settled
<1>1. Init => Inv
  BY InitBase, InitEarned, InitGreeted, InitWhole, InitSettled
<1>2. Inv /\ [Next]_vars => Inv'
  BY NextBase, NextEarned, NextGreeted, NextWhole, NextSettled
<1>3. ASSUME Inv PROVE QuietMeansAgreed
  <2>1. SUFFICES ASSUME Quiet, ~peer.output_overflowed, View(session).link_connected
                 PROVE  Shows(peer.current_display)
    BY DEF QuietMeansAgreed
  <2>2. session.link_state = "Connected"
    BY <2>1 DEF View
  <2>3. ~peer.silent /\ ~peer.reject_every_version
    BY <1>3, <2>2 DEF EarnedSoFar, Base, StartedSo, NoRejection
  <2>4. Stream = <<>> /\ Flight = <<>>
    BY <2>1 DEF Quiet, Stream, Flight
  <2>5. Settles(Flight, session, peer.current_display)
    BY <1>3, <2>1, <2>3, <2>4, EmptyToSet DEF Settled, Quiet
  <2>6. ~LastShows(<<>>, peer.current_display)
    BY DEF LastShows
  <2>7. Same(session.current_display, peer.current_display)
    BY <2>2, <2>4, <2>5, <2>6 DEF Settles
  <2>8. /\ View(session).link_connected
        /\ \A field \in {"status", "page", "payload", "delivered"} :
              View(session)[field] = session.current_display[field]
    <3> DEFINE v == View(session)
    <3>1. /\ v.link_connected = TRUE
          /\ v.status = session.current_display.status
          /\ v.page = session.current_display.page
          /\ v.payload = session.current_display.payload
          /\ v.delivered = session.current_display.delivered
      BY <2>2 DEF View
    <3> HIDE DEF v
    <3>2. /\ v.link_connected
          /\ \A field \in {"status", "page", "payload", "delivered"} :
                v[field] = session.current_display[field]
      BY <3>1
    <3>3. QED
      BY <3>2 DEF v
  <2>9. \A field \in {"status", "page", "payload", "delivered"} :
              View(session)[field] = peer.current_display[field]
    BY <2>7, <2>8 DEF Same
  <2>10. QED
    BY <2>8, <2>9 DEF Shows
<1> HIDE DEF Inv
<1>4. QED
  BY <1>1, <1>2, <1>3, PTL DEF Spec
=============================================================================
