---------------------------- MODULE RemoteSession ----------------------------
(***************************************************************************)
(* session/remote_session.c: the remote's side of the link.                *)
(*                                                                         *)
(* Every function of the file is an operator from the session before the   *)
(* call to the session after it, so that a caller that makes several calls *)
(* in one step (the USB service) composes them.                            *)
(***************************************************************************)
EXTENDS RemoteProtocol, Sequences, FiniteSets

CONSTANTS QueueDepth,      \* outbound messages held (4 in the code)
          RetryInterval,   \* handshake retry, in clock units (2000 ms)
          MaxElapsed,      \* the longest time between two ticks
          CounterModulus   \* 2^32: the counters are uint32_t

ASSUME QueueAssumption == QueueDepth \in Nat \ {0}

ASSUME RetryAssumption == RetryInterval \in Nat \ {0} /\ MaxElapsed \in Nat

ASSUME CounterAssumption == CounterModulus \in Nat \ {0}

LinkStates == {"LinkDown", "Handshaking", "Connected", "Incompatible"}

CounterNames == {"reconnections", "malformed_received", "version_mismatches",
                 "events_dropped_no_link", "events_dropped_by_output_full",
                 "handshake_retries"}

Keys == {"Key0", "Key1"}

PressKinds == {"Short", "Long"}

(* "inbound" is the line assembler: the halves of a line held since the    *)
(* last terminator.  More than one half is a line that can no longer       *)
(* parse; how much of it there is makes no difference.                     *)
Sessions == [link_state : LinkStates,
             inbound : Seq(FrontHalves),
             current_display : DisplayRecords,
             output : Seq(OutboundLines),
             handshake_elapsed : 0..(RetryInterval - 1),
             counters : [CounterNames -> 0..(CounterModulus - 1)]]

Count(session, name) ==
    [session EXCEPT !.counters[name] = (@ + 1) % CounterModulus]

InitialSession ==
    [link_state |-> "LinkDown", inbound |-> <<>>,
     current_display |-> BlankRecord, output |-> <<>>,
     handshake_elapsed |-> 0, counters |-> [name \in CounterNames |-> 0]]

(* Mutant: the depth is compared after the line is counted. *)
CanQueueOneTooMany(session) == Len(session.output) <= QueueDepth

CanQueue(session) == Len(session.output) < QueueDepth

QueueLine(session, line) == [session EXCEPT !.output = Append(@, line)]

ClearOutput(session) == [session EXCEPT !.output = <<>>]

(* HELLO that does not fit is dropped and not counted. *)
SendHello(session) ==
    IF CanQueue(session) THEN QueueLine(session, Hello) ELSE session

(* Mutant: the half line survives the link. *)
ForgetKeepingInbound(session) ==
    [ClearOutput(session) EXCEPT !.current_display = BlankRecord]

(* What a link that comes up or goes down leaves of the one before it. *)
Forget(session) ==
    [ClearOutput(session) EXCEPT !.inbound = <<>>,
                                 !.current_display = BlankRecord]

PortOpened(session) ==
    SendHello([Forget(session) EXCEPT !.link_state = "Handshaking",
                                      !.handshake_elapsed = 0])

PortClosed(session) ==
    LET counted == IF session.link_state = "LinkDown" THEN session
                   ELSE Count(session, "reconnections")
    IN  [Forget(counted) EXCEPT !.link_state = "LinkDown"]

(* Mutant: a retry adds its HELLO to the one still waiting. *)
TickPilingUp(session, elapsed) ==
    LET waited == session.handshake_elapsed + elapsed
    IN  IF session.link_state # "Handshaking"
          THEN [session EXCEPT !.handshake_elapsed = 0]
        ELSE IF waited < RetryInterval
          THEN [session EXCEPT !.handshake_elapsed = waited]
        ELSE SendHello([Count(session, "handshake_retries")
                          EXCEPT !.handshake_elapsed = 0])

(* Mutant: the interval itself is still waited out. *)
TickLate(session, elapsed) ==
    LET waited == session.handshake_elapsed + elapsed
    IN  IF session.link_state # "Handshaking"
          THEN [session EXCEPT !.handshake_elapsed = 0]
        ELSE IF waited <= RetryInterval
          THEN [session EXCEPT !.handshake_elapsed = waited]
        ELSE SendHello(ClearOutput(
               [Count(session, "handshake_retries")
                  EXCEPT !.handshake_elapsed = 0]))

(* Mutant: the retry forgets to send. *)
TickSendingNothing(session, elapsed) ==
    LET waited == session.handshake_elapsed + elapsed
    IN  IF session.link_state # "Handshaking"
          THEN [session EXCEPT !.handshake_elapsed = 0]
        ELSE IF waited < RetryInterval
          THEN [session EXCEPT !.handshake_elapsed = waited]
        ELSE ClearOutput([Count(session, "handshake_retries")
                            EXCEPT !.handshake_elapsed = 0])

Tick(session, elapsed) ==
    LET waited == session.handshake_elapsed + elapsed
    IN  IF session.link_state # "Handshaking"
          THEN [session EXCEPT !.handshake_elapsed = 0]
        ELSE IF waited < RetryInterval
          THEN [session EXCEPT !.handshake_elapsed = waited]
        ELSE SendHello(ClearOutput(
               [Count(session, "handshake_retries")
                  EXCEPT !.handshake_elapsed = 0]))

(* Mutant: the record is stored before it is found to be a refusal. *)
HandleDisplayStoringFirst(session, record) ==
    IF session.link_state # "Connected" /\ record.error = "BAD_VERSION"
    THEN [Count(session, "version_mismatches")
            EXCEPT !.current_display = record, !.link_state = "Incompatible"]
    ELSE [session EXCEPT !.current_display = record,
                         !.link_state = "Connected"]

(* Mutant: any error on an unanswered HELLO is taken for a refusal. *)
HandleDisplayRefusingErrors(session, record) ==
    IF session.link_state # "Connected" /\ record.error # "NONE"
    THEN [Count(session, "version_mismatches")
            EXCEPT !.link_state = "Incompatible"]
    ELSE [session EXCEPT !.current_display = record,
                         !.link_state = "Connected"]

HandleDisplay(session, record) ==
    IF session.link_state # "Connected" /\ record.error = "BAD_VERSION"
    THEN [Count(session, "version_mismatches")
            EXCEPT !.link_state = "Incompatible"]
    ELSE [session EXCEPT !.current_display = record,
                         !.link_state = "Connected"]

(* Bytes of a DISPLAY line up to its page field, and no further. *)
ReceiveFront(session, record) ==
    [session EXCEPT !.inbound = IF Len(@) < 2
                                THEN Append(@, FrontHalf(record)) ELSE @]

(* The rest of a DISPLAY line: it parses only after exactly one half. *)
ReceiveBack(session, record) ==
    LET emptied == [session EXCEPT !.inbound = <<>>]
    IN  IF Len(session.inbound) = 1
        THEN HandleDisplay(emptied, JoinHalves(session.inbound[1], record))
        ELSE Count(emptied, "malformed_received")

(* A whole line that is no DISPLAY: it does not parse, it is too long, or  *)
(* it has a verb only the peripheral sends.  All three are counted alike.  *)
ReceiveOther(session) ==
    Count([session EXCEPT !.inbound = <<>>], "malformed_received")

PageEventForKey1(page) ==
    IF page = "GUEST" THEN "LEFT_SHORT" ELSE "RIGHT_SHORT"

Reserved(key, kind) == key = "Key1" /\ kind = "Long"

WireEvent(session, key, kind) ==
    IF key = "Key1" THEN PageEventForKey1(session.current_display.page)
    ELSE IF kind = "Short" THEN "CENTER_SHORT" ELSE "CENTER_LONG"

(* Mutant: a press that does not fit is dropped without being counted. *)
ReportPressUncounted(session, key, kind) ==
    IF Reserved(key, kind) THEN session
    ELSE IF session.link_state # "Connected"
      THEN Count(session, "events_dropped_no_link")
    ELSE IF ~CanQueue(session) THEN session
    ELSE QueueLine(session, WireEvent(session, key, kind))

ReportPress(session, key, kind) ==
    IF Reserved(key, kind) THEN session
    ELSE IF session.link_state # "Connected"
      THEN Count(session, "events_dropped_no_link")
    ELSE IF ~CanQueue(session)
      THEN Count(session, "events_dropped_by_output_full")
    ELSE QueueLine(session, WireEvent(session, key, kind))

(* The transport takes the first n lines.  It asks for 512 bytes and the   *)
(* four lines the queue may hold are at most 54 bytes each, so what it     *)
(* takes always ends at the end of a line.                                 *)
TakeOutput(session, n) ==
    [session EXCEPT !.output = SubSeq(@, n + 1, Len(@))]

(* remote_session_display: the state the panel is asked to show. *)
View(session) ==
    LET up == session.link_state = "Connected"
        record == IF up THEN session.current_display ELSE BlankRecord
    IN  [link_connected |-> up,
         link_connecting |-> session.link_state = "Handshaking",
         link_incompatible |-> session.link_state = "Incompatible",
         status |-> record.status, page |-> record.page,
         payload |-> record.payload, delivered |-> record.delivered,
         error |-> record.error]
-----------------------------------------------------------------------------
(* What every caller may rely on, of a session between two calls. *)

(* Outside a connection nothing of one is left: no record, so no payload   *)
(* of a guest network, and no press that a later connection could send     *)
(* (remote_session.h, "held only while connected"; port_closed, "which is  *)
(* what stops a stale press crossing the reconnection").                   *)
HoldsNothingUnlinked(s) ==
    s.link_state # "Connected" =>
        /\ s.current_display = BlankRecord
        /\ \A i \in DOMAIN s.output : s.output[i] = Hello

(* At most one HELLO waits, and nothing waits in front of it, however the  *)
(* retries, the answers and the presses interleave: the retry's comment    *)
(* "exactly one fresh HELLO rather than copies piling up".                 *)
QueuesHelloFirst(s) ==
    \A i \in DOMAIN s.output : s.output[i] = Hello => i = 1
=============================================================================
