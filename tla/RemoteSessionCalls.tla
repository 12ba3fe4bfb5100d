------------------------- MODULE RemoteSessionCalls -------------------------
(***************************************************************************)
(* The session on its own: one call per step, in any order, as the host    *)
(* tests make them.                                                        *)
(*                                                                         *)
(* "written" is the host's side of the stream: the records it has begun    *)
(* since the port opened or since its last terminator, more than one if it *)
(* abandoned a line half way, as the peer's "partial" command does.  What  *)
(* it has begun when the port closes, it never finishes.                   *)
(***************************************************************************)
EXTENDS RemoteSession

CONSTANT Records  \* the DISPLAY records the appliance may send

ASSUME RecordAssumption == Records \subseteq DisplayRecords

VARIABLES session, written

vars == <<session, written>>

(* Every field in its range: the queue within its depth, and the retry     *)
(* clock below the interval it is compared with.                           *)
TypeOK ==
    /\ session \in Sessions
    /\ Len(session.inbound) <= 2
    /\ Len(session.output) <= QueueDepth
    /\ written \in Seq(Records)
    /\ Len(written) <= 2

Init ==
    /\ session = InitialSession
    /\ written = <<>>

Open ==
    /\ session' = PortOpened(session)
    /\ written' = <<>>

Close ==
    /\ session' = PortClosed(session)
    /\ written' = <<>>

Pass(elapsed) ==
    /\ session' = Tick(session, elapsed)
    /\ UNCHANGED written

Begin(record) ==
    /\ Len(written) < 2
    /\ session' = ReceiveFront(session, record)
    /\ written' = Append(written, record)

Finish ==
    /\ written # <<>>
    /\ session' = ReceiveBack(session, written[Len(written)])
    /\ written' = <<>>

Noise ==
    /\ session' = ReceiveOther(session)
    /\ written' = <<>>

Press(key, kind) ==
    /\ session' = ReportPress(session, key, kind)
    /\ UNCHANGED written

Drain(n) ==
    /\ n <= Len(session.output)
    /\ session' = TakeOutput(session, n)
    /\ UNCHANGED written

Next ==
    \/ Open
    \/ Close
    \/ \E elapsed \in 0..MaxElapsed : Pass(elapsed)
    \/ \E record \in Records : Begin(record)
    \/ Finish
    \/ Noise
    \/ \E key \in Keys, kind \in PressKinds : Press(key, kind)
    \/ \E n \in 1..QueueDepth : Drain(n)

Spec == Init /\ [][Next]_vars
-----------------------------------------------------------------------------
(***************************************************************************)
(* Properties.                                                             *)
(***************************************************************************)

(* What belongs to a link is forgotten with it: HoldsNothingUnlinked of    *)
(* the session, after any calls in any order.                              *)
NothingOutlivesTheLink == HoldsNothingUnlinked(session)

(* However the retries, the answers and the presses interleave, one HELLO  *)
(* at most waits to be sent, in front.                                     *)
HelloLeads == QueuesHelloFirst(session)

(* A record the host sent whole, in this opening and not after a line it   *)
(* abandoned, is heard as it was sent: shown, or taken as the refusal it   *)
(* is.  A line cut by a disconnection never garbles the first record after *)
(* it.                                                                     *)
RecordIsHeard ==
    [][\A record \in Records :
         Finish /\ written = <<record>> =>
            \/ /\ session'.link_state = "Connected"
               /\ session'.current_display = record
            \/ /\ session'.link_state = "Incompatible"
               /\ record.error = "BAD_VERSION"]_vars

(* A press that means something is queued behind those already waiting, or *)
(* it is dropped and exactly one counter says so, whatever state it meets; *)
(* and nothing a caller does while the link stays up loses a press that    *)
(* waits: it is only ever taken, in order.                                 *)
PressesAreAccountedFor ==
    [][/\ \A key \in Keys, kind \in PressKinds :
            LET after == ReportPress(session, key, kind)
            IN  ~Reserved(key, kind) =>
                  \/ /\ after.output =
                          Append(session.output, WireEvent(session, key, kind))
                     /\ after.counters = session.counters
                  \/ /\ after.output = session.output
                     /\ Cardinality({name \in CounterNames :
                          after.counters[name] # session.counters[name]}) = 1
       /\ session.link_state = "Connected" /\ session'.link_state = "Connected" =>
              \/ \E n \in 1..QueueDepth : Drain(n)
              \/ SubSeq(session'.output, 1, Len(session.output)) = session.output
      ]_vars
=============================================================================
