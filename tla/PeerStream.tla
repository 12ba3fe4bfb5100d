------------------------------ MODULE PeerStream ------------------------------
(***************************************************************************)
(* The development peer fed byte by byte: the remote's encoder, a wire     *)
(* that spoils what it carries in the ways fuzz/fuzz_remote_protocol.c     *)
(* does, the peer's assembler and parser, its core, its book, and the      *)
(* operator's commands, as its shell runs them.                            *)
(***************************************************************************)
EXTENDS LineAssembler, LineCodec

CONSTANTS SentMessages,  \* the messages the wire carries
          SpoilingBytes, \* what a byte may be replaced by, or preceded by
          MaxSpoiled,    \* bound: bytes spoiled, lost or added in a run
          MaxLines,      \* bound: lines sent in a run
          Commands,      \* the operator's commands in use
          MaxTroubles,   \* bound: bytes spoiled and commands given in a run
          Silences,      \* whether the peer may be a silent one
          Payloads, NoPayload, Counts,
          PayloadText,   \* of every payload, in bytes
          PeerCapacity, WifiPayload, GuestPayload, BadPayloads, LogCapacity

VARIABLES wire,     \* the bytes of a line still on their way
          meant,    \* the message they began as, while nothing spoils it
          spoiled, lines, commands,  \* what the bounds count
          peer, book                 \* DevelopmentPeer, PeerBook

vars == <<assemblerVars, wire, meant, spoiled, lines, commands, peer, book>>

IndexIn(name, word) ==
    SelectInSeq(EnumerationValues[name], LAMBDA value : value = word) - 1

RecordMessage(record) ==
    Message("DISPLAY",
        <<Number(IndexIn("status", record.status)),
          Number(IndexIn("page", record.page)),
          Text(PayloadText[record.payload]), Number(record.delivered),
          Number(IndexIn("error", record.error))>>)

AllRecords ==
    LET wordsOf(name) == ToSet(EnumerationValues[name])
    IN  [status : wordsOf("status"), page : wordsOf("page"),
         payload : Payloads \ BadPayloads, delivered : Counts,
         error : wordsOf("error")]

UnencodableRecords ==
    {record \in AllRecords : ~Encodes(RecordMessage(record))}

Peer == INSTANCE PeerBook WITH Unencodable <- UnencodableRecords

ASSUME PayloadTextAssumption ==
    /\ DOMAIN PayloadText = Payloads /\ PayloadText[NoPayload] = <<>>
    /\ \A payload \in Payloads :
         /\ Len(PayloadText[payload]) <= MaximumPayloadLength
         /\ payload \in BadPayloads <=>
                ~(ToSet(PayloadText[payload]) \subseteq PrintableBytes)

(* What is sent is messages with lines, and the record a peer begins with  *)
(* has one too.                                                            *)
ASSUME StreamAssumption ==
    /\ MaximumMessageLength = MaximumLineLength
    /\ \A message \in SentMessages : IsMessage(message) /\ Encodes(message)
    /\ SpoilingBytes \subseteq Bytes /\ Silences \subseteq BOOLEAN
    /\ {MaxSpoiled, MaxLines, MaxTroubles} \subseteq Nat
    /\ LogCapacity \in Nat \ {0}
    /\ Commands \subseteq Peer!OperatorCommands
    /\ Peer!BlankRecord \notin UnencodableRecords

NoMessage == Message("NONE", <<>>)

Init ==
    /\ AssemblerInit
    /\ wire = <<>> /\ meant = NoMessage
    /\ spoiled = 0 /\ lines = 0 /\ commands = 0
    /\ \E silent \in Silences : peer = Peer!InitialPeer(silent, FALSE, FALSE)
    /\ book = Peer!EmptyBook

peerVars == <<peer, book, commands>>

(* development_peer_feed goes from a line's last byte to its handling with *)
(* nothing in between.                                                     *)
Between == verdict = NoVerdict
-----------------------------------------------------------------------------
(* The wire. *)

(* random_valid_line: a line the encoder produced.                         *)
Send(message) ==
    /\ Between /\ wire = <<>>
    /\ lines < MaxLines
    /\ wire' = EncodedLine(message)
    /\ meant' = IF heard = <<>> THEN message ELSE NoMessage
    /\ lines' = lines + 1
    /\ UNCHANGED <<assemblerVars, spoiled, peerVars>>

Arrive ==
    /\ Between /\ wire # <<>>
    /\ FeedByte(Head(wire))
    /\ wire' = Tail(wire)
    /\ UNCHANGED <<meant, spoiled, lines, peerVars>>

(* make_input: a byte is replaced, inserted or removed, or the rest of the *)
(* line is lost.                                                           *)
Spoil ==
    /\ Between /\ wire # <<>>
    /\ spoiled < MaxSpoiled /\ spoiled + commands < MaxTroubles
    /\ \/ \E byte \in SpoilingBytes, rest \in {wire, Tail(wire)} :
            FeedByte(byte) /\ wire' = rest
       \/ \E rest \in {Tail(wire), <<>>} :
            wire' = rest /\ UNCHANGED assemblerVars
    /\ meant' = NoMessage
    /\ spoiled' = spoiled + 1
    /\ UNCHANGED <<lines, peerVars>>
-----------------------------------------------------------------------------
(* The peer. *)

(* remote_protocol_feed_byte's outcome for the line just ended. *)
Outcome ==
    IF verdict.kind = "LINE" THEN ParseLine(verdict.line)
    ELSE [kind |-> "error", error |-> verdict.kind]

ArrivalOf(outcome) ==
    IF outcome.kind = "error" THEN Peer!RefusedLine(outcome.error)
    ELSE LET value(i) == outcome.message.fields[i].integer
         IN  CASE outcome.message.verb = "HELLO" ->
                    Peer!HelloFrom(value(1), value(3) = 1)
               [] outcome.message.verb = "BUTTON" ->
                    Peer!Button(EnumerationValues["event"][value(1) + 1],
                                value(2) = 1 /\ value(3) = 1)
               [] outcome.message.verb = "STATE" -> Peer!StateOf(value(1) = 1)
               [] outcome.message.verb = "DISPLAY" -> Peer!DisplayFromRemote

HandleLine ==
    /\ ~Between
    /\ LET arrival == ArrivalOf(Outcome)
       IN  /\ peer' = Peer!FeedArrival(peer, arrival)
           /\ book' = Peer!Noted(book, peer, arrival)
    /\ verdict' = NoVerdict
    /\ meant' = NoMessage
    /\ UNCHANGED <<assembler, heard, wire, spoiled, lines, commands>>

(* The output is written to the device, or to stdout; inside a line, it is *)
(* what it was before the line.                                            *)
TakeOutput ==
    /\ Between /\ heard = <<>>
    /\ peer.output # <<>>
    /\ peer' = [peer EXCEPT !.output = <<>>]
    /\ UNCHANGED <<assemblerVars, wire, meant, spoiled, lines, commands, book>>

(* A command between two lines; one that comes inside a line finds the     *)
(* same peer, unless it is "drop", which forgets the half line.            *)
Command(command) ==
    /\ Between
    /\ spoiled + commands < MaxTroubles
    /\ commands' = commands + 1
    /\ peer' = Peer!ApplyCommand(peer, command)
    /\ IF command[1] = "drop" THEN Initialise /\ meant' = NoMessage
       ELSE heard = <<>> /\ wire = <<>> /\ UNCHANGED <<assemblerVars, meant>>
    /\ UNCHANGED <<wire, spoiled, lines, book>>

Next ==
    \/ \E message \in SentMessages : Send(message)
    \/ Arrive
    \/ Spoil
    \/ HandleLine
    \/ TakeOutput
    \/ \E command \in Commands : Command(command)

Spec == Init /\ [][Next]_vars
-----------------------------------------------------------------------------
(***************************************************************************)
(* Properties.                                                             *)
(***************************************************************************)

(* A line nothing spoiled is received as the message it was sent as: the   *)
(* parser undoes the encoder, at the bound, through escapes, and whatever  *)
(* was cut, garbled or too long before it.                                 *)
MessagesSurvive ==
    [][meant # NoMessage /\ HandleLine =>
         Outcome = [kind |-> "message", message |-> meant]]_vars

(* Of a line without its terminator: its tokens, but for the text whose    *)
(* spelling may differ.                                                    *)
ExactTokens(line) ==
    {token \in {TokenAt(line, start) : start \in {1} \cup FieldStarts(line)} :
        NameIn(token) # Spelling["payload"]}

(* "Every message the parser accepts is re-encoded and re-parsed, and must *)
(* come back identical" (fuzz_remote_protocol.c): whatever reached the     *)
(* parser, what it accepts has a line, no longer than the one received and *)
(* with the same words and numbers in it, that parses to the same message. *)
AcceptedMessagesReencode ==
    LET outcome == Outcome
        again == EncodedLine(outcome.message)
        line == SubSeq(again, 1, Len(again) - 1)
    IN  ~Between /\ outcome.kind = "message" =>
          /\ Encodes(outcome.message)
          /\ Len(line) <= Len(verdict.of)
          /\ ParseLine(line) = outcome
          /\ ExactTokens(line) = ExactTokens(verdict.of)

(* The book and the counts tell one story: each arrival is counted once,   *)
(* and logged while there is room, with what it was refused for.           *)
BookBalances ==
    LET total == book.counts.hellos + book.counts.buttons
                 + book.counts.states + book.counts.refusals
        refused == {i \in DOMAIN book.log : book.log[i].error # "NONE"}
        pressed == {i \in DOMAIN book.log :
                      book.log[i] = [verb |-> "BUTTON", error |-> "NONE"]}
    IN  /\ Len(book.log) = IF total < LogCapacity THEN total ELSE LogCapacity
        /\ Len(book.log) = total =>
             /\ Cardinality(refused) = book.counts.refusals
             /\ Cardinality(pressed) = book.counts.buttons
        /\ (book.counts.buttons + book.counts.states > 0) => book.counts.hellos > 0

(* "Encodable, or refused before it becomes the current record" (the core, *)
(* set_display): of the operator's commands, in any order, none leaves a   *)
(* record the peer cannot send; only a press the demo script answers can.  *)
RecordsEncodeUntilPressed ==
    peer.current_display \in UnencodableRecords => book.counts.buttons > 0

(* "HELLO gets the current record (or a BAD_VERSION record)",              *)
(* development_peer_core.h.                                                *)
HelloIsAnswered ==
    [][HandleLine /\ ArrivalOf(Outcome).verb = "HELLO"
       /\ ~peer.silent /\ Len(peer.output) < PeerCapacity
       => Len(peer'.output) = Len(peer.output) + 1]_vars
=============================================================================
