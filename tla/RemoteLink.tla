------------------------------ MODULE RemoteLink ------------------------------
(***************************************************************************)
(* The remote and its peer across a USB cable: remote_link_edge.c,         *)
(* usb_link.c and the part of remote.c's loop that drives them, with the   *)
(* session (RemoteSession) on one side and the development peer and its    *)
(* shell (DevelopmentPeer) on the other.                                   *)
(*                                                                         *)
(* The remote is one loop.  "pc" says which part of it comes next:         *)
(*   keys     the classified presses are handed to the session             *)
(*   edge     tud_task has run; the port's state is observed               *)
(*   receive  what has arrived is read, line by line; then the retry clock *)
(*            ticks and the output is sent                                 *)
(* Between any two of these the cable may be pulled, the host may go to    *)
(* sleep and the peer may work.                                            *)
(***************************************************************************)
EXTENDS RemoteSession, DevelopmentPeer, SequencesExt

CONSTANTS PipeBound,        \* bound: lines on the wire, either way
          Commands,         \* the operator's commands in use
          Searches,         \* whether the peer may be started with "auto"
          UserPresses,      \* the presses <<key, kind>> the user makes
          PeerModes,        \* [silent, reject, demo]: how the peer is started
          HostSleeps        \* whether the host ever suspends the bus

ASSUME PipeAssumption == PipeBound \in Nat \ {0} /\ PeerCapacity <= PipeBound

ASSUME OperatorAssumption ==
    /\ Commands \subseteq OperatorCommands
    /\ Searches \subseteq BOOLEAN
    /\ UserPresses \subseteq Keys \X PressKinds
    /\ PeerModes \subseteq [silent : BOOLEAN, reject : BOOLEAN, demo : BOOLEAN]
    /\ HostSleeps \in BOOLEAN

VARIABLES session,   \* RemoteSession, as is
          edge,      \* port_open of remote_link_edge.c
          pc,        \* the next part of the remote's loop
          cable,     \* in, out, or in with the bus suspended ("asleep")
          attached,  \* the peer's shell: not running, looking for the port,
                     \* trying one it has opened, or holding the one it found
          toHost,    \* lines the remote wrote and the peer has not read
          stale,     \* how many of them the session wrote before it last
                     \* saw the port close (history)
          toDevice,  \* lines the peer wrote and the remote has not read
          peer       \* DevelopmentPeer

vars == <<session, edge, pc, cable, attached, toHost, stale, toDevice, peer>>

hostVars == <<cable, attached, peer>>

remoteVars == <<session, edge, pc>>

(* DTR reaches the remote while the shell has the port open, be it only to *)
(* try it, and the cable is in; a cable that comes back brings no DTR      *)
(* until the port is reopened.  A suspended bus is not ready, and keeps    *)
(* its DTR for when it wakes.                                              *)
HasPort == attached \in {"probing", "open"}

HostOpen == cable = "in" /\ HasPort

(* The shell is past its search, and the peer at work. *)
Working == cable = "in" /\ attached = "open"

TypeOK ==
    /\ session \in Sessions
    /\ edge \in BOOLEAN
    /\ pc \in {"keys", "edge", "receive"}
    /\ cable \in {"in", "out", "asleep"}
    /\ attached \in {"stopped", "searching", "probing", "open"}
    /\ toHost \in Seq(OutboundLines \cup {Torn}) /\ Len(toHost) <= PipeBound
    /\ stale \in 0..Len(toHost)
    /\ toDevice \in Seq(InboundLines) /\ Len(toDevice) <= PipeBound
    /\ peer \in Peers

Init ==
    /\ session = InitialSession
    /\ edge = FALSE
    /\ pc = "keys"
    /\ cable \in {"in", "out"}
    /\ attached = "stopped"
    /\ toHost = <<>> /\ stale = 0 /\ toDevice = <<>>
    /\ \E mode \in PeerModes :
         peer = InitialPeer(mode.silent, mode.reject, mode.demo)
-----------------------------------------------------------------------------
(* The remote's loop. *)

(* A press classified this time round.  A Key1 long press is decided by    *)
(* the loop itself and never reaches the session.                          *)
Press(key, kind) ==
    /\ pc = "keys"
    /\ ~Reserved(key, kind)
    /\ session' = ReportPress(session, key, kind)
    /\ pc' = "edge"
    /\ UNCHANGED <<edge, hostVars, toHost, stale, toDevice>>

NoPress ==
    /\ pc = "keys"
    /\ pc' = "edge"
    /\ UNCHANGED <<session, edge, hostVars, toHost, stale, toDevice>>

(* remote_link_edge_observe and what service_link_edge does of it.         *)
ObserveEdge ==
    /\ pc = "edge"
    /\ edge' = HostOpen
    /\ session' = IF edge' = edge THEN session
                  ELSE IF edge' THEN PortOpened(session)
                  ELSE PortClosed(session)
    /\ stale' = IF edge /\ ~edge' THEN Len(toHost) ELSE stale
    /\ pc' = "receive"
    /\ UNCHANGED <<hostVars, toHost, toDevice>>

ReceiveLine(s, line) ==
    CASE line.kind = "display" ->
           ReceiveBack(ReceiveFront(s, line.record), line.record)
      [] line.kind = "partial" -> ReceiveFront(s, line.record)
      [] OTHER -> ReceiveOther(s)

(* Mutant: what arrives is delivered whether or not the port is open. *)
DeliverAlways(s, line) == ReceiveLine(s, line)

(* Drained whether or not the port is open, delivered only while it is.    *)
Deliver(s, line) == IF edge THEN ReceiveLine(s, line) ELSE s

Receive ==
    /\ pc = "receive"
    /\ toDevice # <<>>
    /\ session' = Deliver(session, Head(toDevice))
    /\ toDevice' = Tail(toDevice)
    /\ UNCHANGED <<edge, pc, hostVars, toHost, stale>>

(* Of a line the host had not finished sending when it went to sleep, the  *)
(* beginning is drained, undelivered; the rest comes when it wakes.        *)
DrainBeginning ==
    /\ pc = "receive" /\ cable = "asleep" /\ ~edge
    /\ toDevice # <<>> /\ Head(toDevice).kind = "display"
    /\ toDevice' = [toDevice EXCEPT ![1].kind = "noise"]
    /\ UNCHANGED <<remoteVars, hostVars, toHost, stale>>

(* The loop has read until nothing was available: all of it once the port  *)
(* is closed, as much as had arrived while it is open or when the host     *)
(* went to sleep.  Then                                                    *)
(* remote_session_tick and service_send.  "room" says whether the transmit *)
(* buffer is empty enough for 512 bytes, which is more than the session    *)
(* can hold, so one take empties it.  An empty buffer always has room; one *)
(* the host still reads from may or may not.                               *)
TickAndSend(elapsed, room) ==
    LET ticked == Tick(session, elapsed)
        sent == IF edge /\ room THEN ticked.output ELSE <<>>
    IN  /\ pc = "receive"
        /\ toDevice = <<>> \/ edge \/ cable = "asleep"
        /\ toHost = <<>> => room
        /\ Len(toHost) + Len(sent) <= PipeBound
        /\ session' = TakeOutput(ticked, Len(sent))
        /\ toHost' = IF cable = "out" THEN <<>> ELSE toHost \o sent
        /\ pc' = "keys"
        /\ UNCHANGED <<edge, hostVars, stale, toDevice>>
-----------------------------------------------------------------------------
(* The cable and the peer's shell. *)

(* A detach resets the bus: what the endpoints and buffers held is gone.   *)
(* A node being tried goes dead with it, which ends in another search.     *)
PullCable ==
    /\ cable # "out"
    /\ cable' = "out"
    /\ attached' = IF attached = "probing" THEN "searching" ELSE attached
    /\ toHost' = <<>> /\ stale' = 0 /\ toDevice' = <<>>
    /\ UNCHANGED <<remoteVars, peer>>

(* Enumeration takes many runs of tud_task, so the loop has seen the cable *)
(* out; and the port is a new one, the shell has let go of the old one.    *)
PlugCable ==
    /\ cable = "out" /\ attached # "open" /\ ~edge
    /\ cable' = "in"
    /\ UNCHANGED <<remoteVars, attached, toHost, stale, toDevice, peer>>

(* The host suspends the bus and wakes it again: nothing is reset, nothing *)
(* on either side of the wire is lost, and the peer, asleep with its host, *)
(* notices nothing.  A sleep too short for the loop to see changes nothing *)
(* at all.                                                                 *)
Sleep ==
    /\ HostSleeps
    /\ cable = "in"
    /\ cable' = "asleep"
    /\ UNCHANGED <<remoteVars, attached, toHost, stale, toDevice, peer>>

Wake ==
    /\ cable = "asleep" /\ ~edge
    /\ cable' = "in"
    /\ UNCHANGED <<remoteVars, attached, toHost, stale, toDevice, peer>>

(* The line state changes when tud_task answers the request, so the loop   *)
(* sees it before the host can ask for another.                            *)
PortOpens(next) ==
    /\ cable = "in" /\ ~edge
    /\ pc = "edge"
    /\ attached' = next
    /\ UNCHANGED <<remoteVars, cable, toHost, stale, toDevice, peer>>

(* main with a device's path: open_serial_device, which finds it or fails. *)
OpenPort == attached = "stopped" /\ PortOpens("open")

(* main with "auto". *)
StartSearch ==
    /\ attached = "stopped" /\ TRUE \in Searches
    /\ attached' = "searching"
    /\ UNCHANGED <<remoteVars, cable, toHost, stale, toDevice, peer>>

(* probe_node opens the node: the remote sees a port like any other.       *)
ProbeNode == attached = "searching" /\ PortOpens("probing")

(* What a close leaves on its way to the host: nothing, or what one 64     *)
(* byte packet of the endpoint holds, a line or the end of one.            *)
Leftovers ==
    {<<>>} \cup
    (IF cable = "in" /\ toHost # <<>> THEN {<<toHost[Len(toHost)]>>, <<Torn>>} ELSE {})

PortCloses(next) ==
    /\ cable = "in" => pc = "edge"
    /\ attached' = next
    /\ \E left \in Leftovers :
         /\ toHost' = left
         /\ stale' = Len(left)
    /\ UNCHANGED <<remoteVars, cable, toDevice>>

(* Mutant: main goes on with the peer it was. *)
QuitRemembering ==
    HasPort /\ cable # "asleep" /\ UNCHANGED peer /\ PortCloses("stopped")

(* The shell ends, at any point; started again, it is a peer that knows    *)
(* nothing, of the same behaviour.                                         *)
Quit ==
    /\ HasPort /\ cable # "asleep"
    /\ peer' = InitialPeer(peer.silent, peer.reject_every_version, peer.demo_script)
    /\ PortCloses("stopped")

(* pump finds the device gone; reopen_device forgets the link, and looks   *)
(* for the port by trying nodes, however the shell was started.            *)
DeviceGone ==
    /\ attached = "open" /\ cable = "out"
    /\ peer' = LinkDropped(peer)
    /\ PortCloses("searching")

Parts == {"none", "little", "much"}

(* A read of a port being tried: the lines that have arrived, and the      *)
(* beginning of the next ("part": none of it, a little, or as much as      *)
(* looks_like_hello asks of a HELLO).  With a HELLO among them the port is *)
(* the one: all of it is fed, and a line cut off is finished by the pump's *)
(* first read.  Otherwise it is thrown away, and of a line cut off only    *)
(* the end is still to come.                                               *)
ProbeRead(whole, part) ==
    LET seen == SubSeq(toHost, 1, whole)
        rest == SubSeq(toHost, whole + 1, Len(toHost))
        found == Hello \in ToSet(seen) \/ (part = "much" /\ Head(rest) = Hello)
    IN  /\ attached = "probing" /\ cable = "in"
        /\ part # "none" => rest # <<>>
        /\ IF found
           THEN /\ peer' = FoldLeft(Feed, peer, seen)
                /\ attached' = "open"
                /\ toHost' = rest
           ELSE /\ toHost' = IF part = "none" THEN rest ELSE <<Torn>> \o Tail(rest)
                /\ UNCHANGED <<peer, attached>>
        /\ stale' = IF stale > whole THEN stale - whole ELSE 0
        /\ UNCHANGED <<remoteVars, cable, toDevice>>

(* Ten reads, a tenth of a second apart, have shown no HELLO: what the     *)
(* loop says at the opening has been sent, and read without being known.   *)
ProbeGivesUp ==
    /\ attached = "probing" /\ cable = "in"
    /\ edge /\ Hello \notin ToSet(session.output \o toHost)
    /\ PortCloses("searching")
    /\ UNCHANGED peer

(* pump: the peer's output is written, then what has arrived is fed.       *)
PumpWrite ==
    /\ Working
    /\ peer.output # <<>>
    /\ Len(toDevice) + Len(peer.output) <= PipeBound
    /\ toDevice' = toDevice \o peer.output
    /\ peer' = [peer EXCEPT !.output = <<>>]
    /\ UNCHANGED <<remoteVars, cable, attached, toHost, stale>>

PumpRead ==
    /\ Working
    /\ toHost # <<>>
    /\ peer' = Feed(peer, Head(toHost))
    /\ toHost' = Tail(toHost)
    /\ stale' = IF stale > 0 THEN stale - 1 ELSE 0
    /\ UNCHANGED <<remoteVars, cable, attached, toDevice>>

(* apply_command, between two rounds of pump. *)
Operate(command) ==
    /\ Working
    /\ peer' = ApplyCommand(peer, command)
    /\ UNCHANGED <<remoteVars, cable, attached, toHost, stale, toDevice>>

Next ==
    \/ \E press \in UserPresses : Press(press[1], press[2])
    \/ NoPress
    \/ ObserveEdge
    \/ Receive
    \/ DrainBeginning
    \/ \E elapsed \in 1..MaxElapsed, room \in BOOLEAN : TickAndSend(elapsed, room)
    \/ PullCable
    \/ PlugCable
    \/ Sleep
    \/ Wake
    \/ OpenPort
    \/ StartSearch
    \/ ProbeNode
    \/ Quit
    \/ DeviceGone
    \/ \E whole \in 0..Len(toHost), part \in Parts : ProbeRead(whole, part)
    \/ ProbeGivesUp
    \/ PumpWrite
    \/ PumpRead
    \/ \E command \in Commands : Operate(command)

Spec == Init /\ [][Next]_vars

(* The loop runs for ever, and so does the shell's; what the peer wrote    *)
(* arrives in the end, though any one round of the loop may miss it.  The  *)
(* user, the cable and the operator owe nothing.                           *)
LoopsRun ==
    /\ WF_vars(\/ NoPress
               \/ ObserveEdge
               \/ \E elapsed \in 1..MaxElapsed, room \in BOOLEAN :
                    TickAndSend(elapsed, room))
    /\ SF_vars(Receive)
    /\ WF_vars(PumpWrite)
    /\ WF_vars(PumpRead \/ \E whole \in 1..Len(toHost) : ProbeRead(whole, "none"))

(* A shell that searches goes on trying the port, for a second at a time,  *)
(* and not every HELLO it is answered with is cut short by a read.         *)
SearchesGoOn ==
    /\ SF_vars(ProbeNode \/ ProbeGivesUp)
    /\ SF_vars(\E whole \in 0..Len(toHost), part \in Parts :
                 ProbeRead(whole, part) /\ attached' = "open")

LiveSpec == Spec /\ LoopsRun

FairSpec == LiveSpec /\ SearchesGoOn
-----------------------------------------------------------------------------
(***************************************************************************)
(* Properties.                                                             *)
(***************************************************************************)

(* The session believes the port closed exactly when the link edge does:   *)
(* whatever bytes are left over from a link, none brings the session back  *)
(* up behind a closed port ("delivered only while it is", usb_link.c).     *)
LinkFollowsEdge == (session.link_state = "LinkDown") <=> ~edge

(* A press made since the port was last opened finds the peer's handshake  *)
(* made: what the remote thought connected enough to send a press on, is,  *)
(* whatever answers of an earlier opening are still about.  (A peer that   *)
(* rejects every version never shakes hands, and the "drop" command        *)
(* forgets the handshake of a live link.)                                  *)
FreshPressesAreHeard ==
    Working /\ toHost # <<>> /\ Head(toHost) \in Events /\ stale = 0 =>
        peer.handshake_complete

(* "A stale press cannot arrive after a reconnection and end a later       *)
(* session" (remote_session.h): a press left over from before the session  *)
(* saw the port close is refused, for want of a HELLO before it.           *)
StalePressesAreRefused ==
    Working /\ stale > 0 /\ Head(toHost) \in Events =>
        ~peer.handshake_complete

(* Nothing is on its way, either way, or waiting to be sent. *)
Quiet ==
    /\ Working /\ edge
    /\ toHost = <<>> /\ toDevice = <<>>
    /\ session.output = <<>> /\ peer.output = <<>>

(* The remote shows a record (remote_session_display), and it is this one, *)
(* the error on it apart.                                                  *)
Shows(record) ==
    \E view \in {View(session)} :
        /\ view.link_connected
        /\ \A field \in {"status", "page", "payload", "delivered"} :
              view[field] = record[field]

(* When nothing is on its way, a remote that shows a record shows the      *)
(* peer's, the error on it apart; whatever was refused, repeated, answered *)
(* twice or pushed before the handshake on the way there.                  *)
QuietMeansAgreed ==
    Quiet /\ ~peer.output_overflowed /\ View(session).link_connected =>
        Shows(peer.current_display)

(* The remote believes of its peer only what the peer said, however lines  *)
(* are cut and handshakes repeated, forgotten and refused: a silent peer   *)
(* is never taken for a connected one, and no peer is shown as             *)
(* incompatible but one that rejects the version, whatever other errors    *)
(* its answers carry.                                                      *)
BeliefsAreEarned ==
    /\ View(session).link_connected => ~peer.silent
    /\ View(session).link_incompatible =>
           ~peer.silent /\ peer.reject_every_version

(* A peer that rejects the version and has said so (nothing is on its way, *)
(* HELLO included) is not shown as connected: "a BAD_VERSION answer marks  *)
(* the link incompatible", remote_session.h.                               *)
RejectionIsShown ==
    Quiet /\ peer.reject_every_version /\ ~peer.output_overflowed =>
        ~View(session).link_connected

(* A cable left in, and a shell left running, is a handshake that          *)
(* completes, without a repair step (STOPBATH_PICO_SPEC.md 1.2), if the    *)
(* operator stops cutting lines: the shell that looks for the port finds   *)
(* it, and an acceptance lost to a cut line is asked for again.  (The      *)
(* "drop" command forgets the handshake of a live link.)                   *)
HandshakeCompletes ==
    /\ ~peer.silent /\ ~peer.reject_every_version
    /\ <>[](cable = "in" /\ attached # "stopped")
    /\ <>[][~Operate(<<"partial">>)]_vars
    => <>[](View(session).link_connected /\ peer.handshake_complete)

(* The record the peer settles on is the record the remote shows, in the   *)
(* end, whatever presses, refusals, restarts and reconnections came first, *)
(* if no line was cut and the peer's output does not overflow.             *)
RecordArrives ==
    \A record \in {BlankRecord, [BlankRecord EXCEPT !.status = "PRESENTING",
                      !.page = "WIFI", !.payload = WifiPayload]} :
        <>[](/\ Working
             /\ peer.current_display = record
             /\ ~peer.output_overflowed)
        => <>[]Shows(record)
=============================================================================
