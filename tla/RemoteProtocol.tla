--------------------------- MODULE RemoteProtocol ---------------------------
(***************************************************************************)
(* The vocabulary of the wire protocol, as the rest of the project needs   *)
(* it.  A line is one value: its spelling (percent encoding, field order)  *)
(* matters only where a line is cut in two, so a DISPLAY line is also      *)
(* given as the two halves a cut leaves.  Payloads and delivered counts    *)
(* are abstract: what is modelled only compares them.                      *)
(***************************************************************************)
EXTENDS Naturals

CONSTANTS Payloads,   \* the payload texts that may be shown
          NoPayload,  \* the empty payload
          Counts      \* the delivered counts a record may carry

ASSUME PayloadAssumption == NoPayload \in Payloads

ASSUME CountAssumption == Counts \subseteq Nat /\ 0 \in Counts

(* The enumerations of protocol.json, in wire order. *)
Events == {"CENTER_SHORT", "CENTER_LONG", "LEFT_SHORT", "RIGHT_SHORT"}

Statuses == {"READY", "PRESENTING", "GUEST_CONNECTED", "TERMINATING",
             "RECOVERY_REQUIRED"}

Pages == {"NONE", "WIFI", "GUEST"}

Errors == {"NONE", "BAD_VERSION", "NO_HELLO", "MALFORMED", "BAD_VERB",
           "BAD_FIELD", "NO_FIELD", "BAD_VALUE", "TOO_LONG", "RATE_LIMIT",
           "GUARD", "ACTIVE", "NO_SESSION", "BAD_STATE", "NOT_ALLOWED",
           "START_FAIL", "END_FAIL"}

(* A DISPLAY line: the appliance's whole record. *)
DisplayRecords == [status : Statuses, page : Pages, payload : Payloads,
                   delivered : Counts, error : Errors]

(* The encoder writes the fields in this order, so a line cut after the    *)
(* page field leaves these two halves, and two halves of different lines   *)
(* parse, when they meet, as a record nobody sent.                         *)
FrontHalves == [status : Statuses, page : Pages]

FrontHalf(record) == [status |-> record.status, page |-> record.page]

JoinHalves(front, record) ==
    [status |-> front.status, page |-> front.page,
     payload |-> record.payload, delivered |-> record.delivered,
     error |-> record.error]

(* What the session and the peer hold before any record has been set. *)
BlankRecord == [status |-> "READY", page |-> "NONE", payload |-> NoPayload,
                delivered |-> 0, error |-> "NONE"]

WithError(record, error) == [record EXCEPT !.error = error]

(* The lines the remote sends: HELLO, and BUTTON named by its event.  The  *)
(* other fields of both lines never vary: the version and token are this   *)
(* firmware's, locked is 0, foregrounded and unlocked are 1.               *)
Hello == "HELLO"

OutboundLines == Events \cup {Hello}
=============================================================================
