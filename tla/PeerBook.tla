------------------------------- MODULE PeerBook -------------------------------
(***************************************************************************)
(* What the development peer writes down of what arrives: its log, its     *)
(* counts, and what it noted of the remote                                 *)
(* (peer/development_peer_core.c).  Nothing it sends depends on it.        *)
(***************************************************************************)
EXTENDS DevelopmentPeer

CONSTANT LogCapacity  \* 64

Counted == {"hellos", "buttons", "states", "refusals"}

(* An entry is what arrived and what it was refused for.                   *)
EmptyBook ==
    [log |-> <<>>, counts |-> [name \in Counted |-> 0],
     peer_version |-> 0, peer_locked |-> FALSE]

(* log_arrival: the first arrivals are kept, the rest only counted.        *)
Logged(book, verb, error) ==
    IF Len(book.log) >= LogCapacity THEN book
    ELSE [book EXCEPT !.log = Append(@, [verb |-> verb, error |-> error])]

Counting(book, name) == [book EXCEPT !.counts[name] = @ + 1]

LogRefusal(book, verb, error) == Logged(Counting(book, "refusals"), verb, error)

(* Mutant: a message before the handshake is logged as acted on. *)
NotedUnrefused(book, peer, arrival) ==
    IF arrival.verb = "REFUSED" THEN LogRefusal(book, "NONE", arrival.error)
    ELSE CASE arrival.verb = "HELLO" ->
           [Counting(Logged(book, "HELLO", "NONE"), "hellos")
              EXCEPT !.peer_version = arrival.version,
                     !.peer_locked = arrival.locked]
      [] arrival.verb = "DISPLAY" -> LogRefusal(book, "DISPLAY", "BAD_VERB")
      [] arrival.verb = "BUTTON" ->
           Counting(Logged(book, "BUTTON", "NONE"), "buttons")
      [] arrival.verb = "STATE" ->
           [Counting(Logged(book, "STATE", "NONE"), "states")
              EXCEPT !.peer_locked = arrival.locked]

(* What the peer, as it was before it, writes down of an arrival.          *)
Noted(book, peer, arrival) ==
    IF arrival.verb = "REFUSED" THEN LogRefusal(book, "NONE", arrival.error)
    ELSE IF arrival.verb = "HELLO"
      THEN [Counting(Logged(book, "HELLO", "NONE"), "hellos")
              EXCEPT !.peer_version = arrival.version,
                     !.peer_locked = arrival.locked]
    ELSE IF ~peer.handshake_complete
      THEN LogRefusal(book, arrival.verb, "NO_HELLO")
    ELSE CASE arrival.verb = "DISPLAY" -> LogRefusal(book, "DISPLAY", "BAD_VERB")
      [] arrival.verb = "BUTTON" ->
           Counting(Logged(book, "BUTTON", "NONE"), "buttons")
      [] arrival.verb = "STATE" ->
           [Counting(Logged(book, "STATE", "NONE"), "states")
              EXCEPT !.peer_locked = arrival.locked]
=============================================================================
