--------------------------- MODULE DevelopmentPeer ---------------------------
(***************************************************************************)
(* peer/development_peer_core.c: what the peer (the appliance's stand-in)  *)
(* does with each line it receives, and what its shell's commands make it  *)
(* do (apply_command of peer/development_peer_shell.c).                    *)
(*                                                                         *)
(* Operators only, from the peer before the call to the peer after it.     *)
(* What it writes down of what arrived, and never decides by, is in        *)
(* PeerBook.                                                               *)
(***************************************************************************)
EXTENDS RemoteProtocol, Sequences

CONSTANTS PeerCapacity,   \* lines the output buffer holds (2048 bytes)
          WifiPayload,    \* what the demo script shows on each page, until
          GuestPayload,   \* the operator gives it another text
          BadPayloads,    \* texts no field takes: not printable
          Unencodable     \* the records whose line exceeds the bound

ASSUME PeerCapacityAssumption == PeerCapacity \in Nat \ {0}

ASSUME DemoPayloadAssumption ==
    /\ {WifiPayload, GuestPayload} \subseteq Payloads
    /\ BadPayloads \subseteq Payloads \ {NoPayload, WifiPayload, GuestPayload}
    /\ Unencodable \subseteq DisplayRecords

ProtocolVersion == 1

(* What the peer puts on the wire: a whole record, the first half of one,  *)
(* or a line that does not parse (malformed, or longer than any message).  *)
InboundLines == [kind : {"display", "partial", "noise"},
                 record : DisplayRecords]

Display(record) == [kind |-> "display", record |-> record]

Peers == [current_display : DisplayRecords, handshake_complete : BOOLEAN,
          output : Seq(InboundLines), output_overflowed : BOOLEAN,
          silent : BOOLEAN, reject_every_version : BOOLEAN,
          demo_script : BOOLEAN,
          demo_wifi_payload : Payloads, demo_guest_payload : Payloads]

InitialPeer(silent, reject, demo) ==
    [current_display |-> BlankRecord, handshake_complete |-> FALSE,
     output |-> <<>>, output_overflowed |-> FALSE,
     silent |-> silent, reject_every_version |-> reject, demo_script |-> demo,
     demo_wifi_payload |-> WifiPayload, demo_guest_payload |-> GuestPayload]

(* Mutant: a line that does not fit is dropped and nobody is told. *)
AppendOutputUnflagged(peer, line) ==
    IF peer.silent \/ Len(peer.output) >= PeerCapacity THEN peer
    ELSE [peer EXCEPT !.output = Append(@, line)]

AppendOutput(peer, line) ==
    IF peer.silent THEN peer
    ELSE IF Len(peer.output) >= PeerCapacity
      THEN [peer EXCEPT !.output_overflowed = TRUE]
    ELSE [peer EXCEPT !.output = Append(@, line)]

(* A record that cannot be encoded is not sent, and nobody is told.        *)
SendRecord(peer, record) ==
    IF record \in Unencodable THEN peer ELSE AppendOutput(peer, Display(record))

SendRecordWithError(peer, record, error) ==
    SendRecord(peer, WithError(record, error))

(* What the remote may see of the record at this point. *)
VisibleRecord(peer) ==
    IF peer.handshake_complete THEN peer.current_display ELSE BlankRecord
-----------------------------------------------------------------------------
(* What arrives: a message, or the refusal of a line that did not parse.   *)

HelloFrom(version, locked) ==
    [verb |-> "HELLO", version |-> version, locked |-> locked]

(* "guarded": foregrounded and unlocked, both. *)
Button(event, guarded) == [verb |-> "BUTTON", event |-> event, guarded |-> guarded]

StateOf(locked) == [verb |-> "STATE", locked |-> locked]

DisplayFromRemote == [verb |-> "DISPLAY"]

RefusedLine(error) == [verb |-> "REFUSED", error |-> error]

(* Mutant: the restart of a handshake is marked after its completion. *)
HandleHelloRestartingLast(peer, version) ==
    IF peer.reject_every_version \/ version # ProtocolVersion
    THEN SendRecordWithError([peer EXCEPT !.handshake_complete = FALSE],
                             BlankRecord, "BAD_VERSION")
    ELSE SendRecord([peer EXCEPT !.handshake_complete = ~@],
                    peer.current_display)

(* A second HELLO is a restart: the answer is the full record again. *)
HandleHello(peer, version) ==
    IF peer.reject_every_version \/ version # ProtocolVersion
    THEN SendRecordWithError([peer EXCEPT !.handshake_complete = FALSE],
                             BlankRecord, "BAD_VERSION")
    ELSE SendRecord([peer EXCEPT !.handshake_complete = TRUE],
                    peer.current_display)

DemoPayload(peer, page) ==
    CASE page = "WIFI" -> peer.demo_wifi_payload
      [] page = "GUEST" -> peer.demo_guest_payload
      [] OTHER -> NoPayload

(* A text the field does not take leaves it empty. *)
SetCurrentPage(peer, record, page) ==
    [record EXCEPT !.page = page,
                   !.payload = IF DemoPayload(peer, page) \in BadPayloads
                               THEN NoPayload ELSE DemoPayload(peer, page)]

(* The demo script. *)
ApplyDemoScript(peer, event, guarded) ==
    LET record == peer.current_display
        active == record.status \in {"PRESENTING", "GUEST_CONNECTED"}
        publish(next) ==
            SendRecord([peer EXCEPT !.current_display = next], next)
    IN  CASE ~guarded -> SendRecordWithError(peer, record, "GUARD")
          [] guarded /\ event = "CENTER_SHORT" ->
               IF record.status # "READY"
               THEN SendRecordWithError(peer, record, "ACTIVE")
               ELSE publish(SetCurrentPage(peer,
                      [record EXCEPT !.status = "PRESENTING",
                                     !.delivered = 0], "WIFI"))
          [] guarded /\ event = "CENTER_LONG" ->
               IF ~active
               THEN SendRecordWithError(peer, record, "NO_SESSION")
               ELSE publish(BlankRecord)
          [] guarded /\ event = "LEFT_SHORT" ->
               IF active THEN publish(SetCurrentPage(peer, record, "WIFI")) ELSE peer
          [] guarded /\ event = "RIGHT_SHORT" ->
               IF active THEN publish(SetCurrentPage(peer, record, "GUEST")) ELSE peer

(* Nothing before HELLO is acted on, and the appliance's own verb never.   *)
HandleMessage(peer, message) ==
    IF message.verb = "HELLO" THEN HandleHello(peer, message.version)
    ELSE IF ~peer.handshake_complete
      THEN SendRecordWithError(peer, BlankRecord, "NO_HELLO")
    ELSE CASE message.verb = "DISPLAY" ->
                SendRecordWithError(peer, peer.current_display, "BAD_VERB")
           [] message.verb = "BUTTON" ->
                IF peer.demo_script
                THEN ApplyDemoScript(peer, message.event, message.guarded)
                ELSE peer
           [] message.verb = "STATE" -> peer

(* development_peer_feed, of one whole line: it parsed, or it is refused   *)
(* with the record the remote may see.                                     *)
FeedArrival(peer, arrival) ==
    IF arrival.verb = "REFUSED"
    THEN SendRecordWithError(peer, VisibleRecord(peer), arrival.error)
    ELSE HandleMessage(peer, arrival)

(* The end of a line whose beginning was lost starts with no verb.         *)
Torn == "TORN"

(* This remote's lines: its version, not locked, and every press made on   *)
(* a remote that is foregrounded and unlocked.                             *)
Arrival(line) ==
    CASE line = Hello -> HelloFrom(ProtocolVersion, FALSE)
      [] line = Torn -> RefusedLine("BAD_VERB")
      [] OTHER -> Button(line, TRUE)

Feed(peer, line) == FeedArrival(peer, Arrival(line))
-----------------------------------------------------------------------------
(* What the operator asks for. *)

(* Mutant: the record is kept before it is known to encode. *)
SetDisplayUnchecked(peer, record) ==
    IF record.payload \in BadPayloads THEN peer
    ELSE SendRecord([peer EXCEPT !.current_display = WithError(record, "NONE")],
                    record)

(* The operator's record: refused whole if it cannot be encoded; its error *)
(* travels on this one line, and the record kept carries none.             *)
SetDisplay(peer, record) ==
    IF record.payload \in BadPayloads \/ record \in Unencodable THEN peer
    ELSE AppendOutput(
           [peer EXCEPT !.current_display = WithError(record, "NONE")],
           Display(record))

ResendDisplay(peer) == SendRecord(peer, peer.current_display)

SendError(peer, error) ==
    SendRecordWithError(peer, peer.current_display, error)

(* send_malformed and send_oversized: two lines the remote counts alike.   *)
SendNoise(peer) ==
    AppendOutput(peer, [kind |-> "noise", record |-> BlankRecord])

SendPartialRecord(peer) ==
    IF peer.current_display \in Unencodable THEN peer
    ELSE AppendOutput(peer, [kind |-> "partial", record |-> peer.current_display])

LinkDropped(peer) ==
    [peer EXCEPT !.handshake_complete = FALSE, !.output = <<>>,
                 !.output_overflowed = FALSE]

ShowStatus(peer, status) ==
    SetDisplay(peer, [BlankRecord EXCEPT !.status = status])

(* A page that is no page word is NONE, and carries the guest payload.     *)
ShowPage(peer, status, page) ==
    SetDisplay(peer,
        [peer.current_display EXCEPT
            !.status = status, !.page = page,
            !.payload = IF page = "WIFI" THEN peer.demo_wifi_payload
                        ELSE peer.demo_guest_payload,
            !.error = "NONE"])

(* A count beyond the field's bound is refused with the record it is in.   *)
ShowDelivered(peer, count) ==
    IF count \notin Counts THEN peer
    ELSE SetDisplay(peer, [peer.current_display EXCEPT !.delivered = count,
                                                       !.error = "NONE"])

(* A command is its word and, for some, its argument.                      *)
OperatorCommands ==
    {<<word>> : word \in {"ready", "terminating", "recovery", "resend",
                          "noise", "partial", "drop"}}
    \cup ({"presenting", "guest"} \X Pages)
    \cup ({"deliver"} \X Nat)
    \cup ({"error"} \X STRING)
    \cup ({"wifi", "url"} \X Payloads)
    \cup ({"demo"} \X {"on", "off"})

(* apply_command.  An error's word that is no error is NONE.               *)
ApplyCommand(peer, command) ==
    CASE command[1] = "ready" -> ShowStatus(peer, "READY")
      [] command[1] = "terminating" -> ShowStatus(peer, "TERMINATING")
      [] command[1] = "recovery" -> ShowStatus(peer, "RECOVERY_REQUIRED")
      [] command[1] = "presenting" -> ShowPage(peer, "PRESENTING", command[2])
      [] command[1] = "guest" -> ShowPage(peer, "GUEST_CONNECTED", command[2])
      [] command[1] = "deliver" -> ShowDelivered(peer, command[2])
      [] command[1] = "error" ->
           SendError(peer, IF command[2] \in Errors THEN command[2] ELSE "NONE")
      [] command[1] = "wifi" -> [peer EXCEPT !.demo_wifi_payload = command[2]]
      [] command[1] = "url" -> [peer EXCEPT !.demo_guest_payload = command[2]]
      [] command[1] = "demo" -> [peer EXCEPT !.demo_script = command[2] = "on"]
      [] command[1] = "resend" -> ResendDisplay(peer)
      [] command[1] = "noise" -> SendNoise(peer)
      [] command[1] = "partial" -> SendPartialRecord(peer)
      [] command[1] = "drop" -> LinkDropped(peer)
=============================================================================
