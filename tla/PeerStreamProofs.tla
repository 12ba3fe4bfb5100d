-------------------------- MODULE PeerStreamProofs --------------------------
(***************************************************************************)
(* What the line assembler promises of every stream of bytes, and what the *)
(* development peer keeps behind it: for every bound of a line, every      *)
(* table of spellings and bounds, every size of the log, and whatever the  *)
(* operator asks for.                                                      *)
(*                                                                         *)
(* The parser is known here by what it may answer (Parsed): an error that  *)
(* is one, or a message of the table.  So what the peer is fed is an       *)
(* arrival (IsArrival), each arrival is one entry of the book under one    *)
(* name (NotedBooks), and the book balances (Balanced); and no command     *)
(* leaves the peer a record without a line (Commanded).                    *)
(***************************************************************************)
EXTENDS PeerStream, LineCodecProofs

-----------------------------------------------------------------------------
(* The line assembler. *)

(* The type of the history beside what the assembler holds.                *)
AssemblerInv == HoldsWhatArrived /\ VerdictIsOfItsLineAlone

(* A byte more leaves the line, and the flags about it, true of the bytes. *)
LEMMA KeepHolds ==
    ASSUME HoldsWhatArrived, NEW byte \in Bytes, byte # Terminator,
           FeedByte(byte)
    PROVE  HoldsWhatArrived'
<1> USE MaximumMessageAssumption
<1>1. /\ assembler' = Keep(assembler, byte)
      /\ heard' = Append(heard, byte)
  BY DEF FeedByte
<1>2. heard' \in Seq(Bytes) /\ Len(heard') = Len(heard) + 1
  BY <1>1 DEF HoldsWhatArrived
<1>3. CASE Len(assembler.line) + 1 >= MaximumMessageLength
  <2>1. assembler' = [assembler EXCEPT !.overlong = TRUE]
    BY <1>1, <1>3 DEF Keep
  <2>2. assembler' \in Assemblers /\ assembler'.overlong
        /\ assembler'.line = assembler.line
    BY <2>1 DEF HoldsWhatArrived, Assemblers
  <2>3. Len(heard) + 1 >= MaximumMessageLength
    BY <1>3 DEF HoldsWhatArrived, Assemblers
  <2>4. /\ Len(assembler.line) \in Nat
        /\ Len(assembler.line) < MaximumMessageLength
    BY DEF HoldsWhatArrived, Assemblers
  <2>. QED  BY <1>2, <1>3, <2>2, <2>3, <2>4 DEF HoldsWhatArrived
<1>4. CASE ~(Len(assembler.line) + 1 >= MaximumMessageLength)
  <2>1. assembler' = [assembler EXCEPT
            !.unprintable = @ \/ byte \notin Printable,
            !.line = Append(@, byte)]
    BY <1>1, <1>4 DEF Keep
  <2>2. ~assembler.overlong /\ assembler.line = heard
    BY <1>4 DEF HoldsWhatArrived, Assemblers
  <2>3. /\ assembler' \in Assemblers
        /\ ~assembler'.overlong
        /\ assembler'.line = heard'
        /\ assembler'.unprintable <=>
               (assembler.unprintable \/ byte \notin Printable)
    <3> DEFINE flag == assembler.unprintable \/ byte \notin Printable
               line == Append(assembler.line, byte)
    <3>1. assembler' = [line |-> line, overlong |-> FALSE, unprintable |-> flag]
      <4>1. assembler = [line |-> assembler.line,
                         overlong |-> assembler.overlong,
                         unprintable |-> assembler.unprintable]
        BY DEF HoldsWhatArrived, Assemblers
      <4>2. assembler.overlong = FALSE
        BY <2>2 DEF HoldsWhatArrived, Assemblers
      <4>. QED  BY <2>1, <4>1, <4>2, Zenon
    <3>2. line \in Seq(Bytes) /\ line = heard'
      BY <1>1, <2>2 DEF HoldsWhatArrived, Assemblers
    <3>3. flag \in BOOLEAN
      OBVIOUS
    <3>4. /\ assembler'.overlong = FALSE /\ assembler'.line = line
          /\ assembler'.unprintable = flag
      BY <3>1
    <3>5. assembler' \in Assemblers
      BY <3>1, <3>2, <3>3 DEF Assemblers
    <3>. QED  BY <3>2, <3>4, <3>5
  <2>4. HasUnprintable(heard') <=>
            (HasUnprintable(heard) \/ byte \notin Printable)
    BY <1>1 DEF HoldsWhatArrived, HasUnprintable
  <2>5. Len(assembler'.line) < MaximumMessageLength
    <3>1. Len(assembler'.line) = Len(assembler.line) + 1
      BY <1>2, <2>2, <2>3
    <3>2. Len(assembler.line) \in Nat
      BY DEF HoldsWhatArrived, Assemblers
    <3>. QED  BY <1>4, <3>1, <3>2
  <2>6. assembler.unprintable <=> HasUnprintable(heard)
    BY <2>2 DEF HoldsWhatArrived
  <2>7. assembler'.unprintable <=> HasUnprintable(heard')
    BY <2>3, <2>4, <2>6
  <2>. QED  BY <1>2, <2>3, <2>5, <2>7 DEF HoldsWhatArrived
<1>. QED  BY <1>3, <1>4

(* Nothing is held of no bytes at all.                                     *)
LEMMA EmptyHolds ==
    ASSUME assembler' = EmptyAssembler, heard' = <<>>
    PROVE  HoldsWhatArrived'
  BY MaximumMessageAssumption
     DEF HoldsWhatArrived, EmptyAssembler, Assemblers, HasUnprintable

(* The verdict given at a terminator is right of the bytes before it.      *)
LEMMA VerdictHolds ==
    ASSUME HoldsWhatArrived, FeedByte(Terminator)
    PROVE  VerdictIsOfItsLineAlone'
<1>1. verdict' = [kind |-> Verdict(assembler), line |-> assembler.line,
                  of |-> heard]
  BY DEF FeedByte
<1>2. /\ verdict'.kind = Verdict(assembler)
      /\ verdict'.line = assembler.line /\ verdict'.of = heard
  BY <1>1
<1>3. /\ assembler.overlong \in BOOLEAN /\ assembler.unprintable \in BOOLEAN
      /\ Len(heard) \in Nat /\ Len(assembler.line) \in Nat
  BY DEF HoldsWhatArrived, Assemblers
<1>4. CASE assembler.overlong
  <2>1. Verdict(assembler) = "TOO_LONG"
    BY <1>4 DEF Verdict
  <2>2. Len(heard) >= MaximumMessageLength
    BY <1>4 DEF HoldsWhatArrived
  <2>3. ~(Len(heard) < MaximumMessageLength)
    BY <1>3, <2>2, MaximumMessageAssumption
  <2>. QED  BY <1>2, <2>1, <2>2, <2>3 DEF VerdictIsOfItsLineAlone
<1>5. CASE ~assembler.overlong
  <2>1. /\ assembler.line = heard
        /\ Len(heard) < MaximumMessageLength
        /\ assembler.unprintable <=> HasUnprintable(heard)
    BY <1>5 DEF HoldsWhatArrived
  <2>2. ~(Len(heard) >= MaximumMessageLength)
    BY <1>3, <2>1, MaximumMessageAssumption
  <2>3. Verdict(assembler) =
            IF HasUnprintable(heard) THEN "MALFORMED" ELSE "LINE"
    BY <1>5, <2>1 DEF Verdict
  <2>. QED  BY <1>2, <2>1, <2>2, <2>3 DEF VerdictIsOfItsLineAlone
<1>. QED  BY <1>3, <1>4, <1>5

(* Every step of the assembler keeps both properties.                      *)
LEMMA AssemblerStep ==
    AssemblerInv /\ [AssemblerNext]_assemblerVars => AssemblerInv'
<1> SUFFICES ASSUME AssemblerInv, [AssemblerNext]_assemblerVars
             PROVE  AssemblerInv'
  OBVIOUS
<1> USE DEF AssemblerInv
<1>1. ASSUME NEW byte \in Bytes, FeedByte(byte), byte # Terminator
      PROVE  AssemblerInv'
  <2>1. HoldsWhatArrived'
    BY <1>1, KeepHolds
  <2>2. verdict' = NoVerdict
    BY <1>1 DEF FeedByte
  <2>. QED  BY <2>1, <2>2 DEF VerdictIsOfItsLineAlone, NoVerdict
<1>2. ASSUME FeedByte(Terminator)
      PROVE  AssemblerInv'
  <2>1. assembler' = EmptyAssembler /\ heard' = <<>>
    BY <1>2 DEF FeedByte, Reset
  <2>. QED  BY <1>2, <2>1, EmptyHolds, VerdictHolds
<1>3. CASE Initialise
  <2>1. assembler' = EmptyAssembler /\ heard' = <<>> /\ verdict' = NoVerdict
    BY <1>3 DEF Initialise
  <2>. QED  BY <2>1, EmptyHolds DEF VerdictIsOfItsLineAlone, NoVerdict
<1>4. CASE UNCHANGED assemblerVars
  BY <1>4 DEF assemblerVars, HoldsWhatArrived, VerdictIsOfItsLineAlone,
             NoVerdict
<1>. QED  BY <1>1, <1>2, <1>3, <1>4 DEF AssemblerNext

(* It starts with no bytes and no verdict. *)
LEMMA AssemblerStart == AssemblerInit => AssemblerInv
  BY MaximumMessageAssumption
     DEF AssemblerInit, AssemblerInv, HoldsWhatArrived, EmptyAssembler,
         Assemblers, HasUnprintable, VerdictIsOfItsLineAlone

(* The assembler never holds anything but what arrived since the last      *)
(* terminator (remote_protocol_feed_byte), whatever the bytes.             *)
THEOREM AssemblerHoldsWhatArrived == AssemblerSpec => []HoldsWhatArrived
<1>1. AssemblerInv => HoldsWhatArrived
  BY DEF AssemblerInv
<1>. QED  BY <1>1, AssemblerStart, AssemblerStep, PTL DEF AssemblerSpec

(* However long, cut or unprintable the lines before it, a line is judged  *)
(* by its own bytes (remote_protocol_feed_byte).                           *)
THEOREM LinesAreJudgedAlone == AssemblerSpec => []VerdictIsOfItsLineAlone
<1>1. AssemblerInv => VerdictIsOfItsLineAlone
  BY DEF AssemblerInv
<1>. QED  BY <1>1, AssemblerStart, AssemblerStep, PTL DEF AssemblerSpec

(* The wire carries bytes, and the assembler is fed nothing else. *)
WireInv == wire \in Seq(Bytes) /\ AssemblerInv

(* Of a message that is sent: its line is of printable bytes, and fits     *)
(* with its terminator.                                                    *)
LEMMA SentLines ==
  ASSUME NEW message \in SentMessages
  PROVE  /\ IsMessage(message) /\ FieldsAreValid(message)
         /\ LineOf(message) \in Seq(32..126) /\ LineOf(message) \in Seq(Bytes)
         /\ EncodedLine(message) = Append(LineOf(message), Terminator)
         /\ EncodedLine(message) \in Seq(Bytes)
         /\ Len(LineOf(message)) < MaximumMessageLength
<1> DEFINE line == LineOf(message)
<1>1. /\ IsMessage(message) /\ FieldsAreValid(message)
      /\ Len(EncodedLine(message)) <= MaximumMessageLength
  BY StreamAssumption DEF Encodes
<1>2. line \in Seq(32..126) /\ EncodedLine(message) = Append(line, Terminator)
  BY <1>1, LineLies DEF LineTerminator, Terminator
<1> HIDE DEF line
<1>3. line \in Seq(Bytes)
  <2>1. 32..126 \subseteq Bytes
    BY DEF Bytes
  <2>2. QED
    BY <1>2, <2>1, SequenceOfSubset
<1>4. Append(line, Terminator) \in Seq(Bytes)
  BY <1>3 DEF Bytes, Terminator
<1>5. Len(line) < MaximumMessageLength
  <2> DEFINE n == Len(line)
  <2>1. n \in Nat /\ Len(Append(line, Terminator)) = n + 1
    BY <1>3
  <2>2. n + 1 <= MaximumMessageLength
    BY <1>1, <1>2, <2>1
  <2> HIDE DEF n
  <2>3. n < MaximumMessageLength
    BY <2>1, <2>2, MaximumMessageAssumption
  <2>4. QED
    BY <2>3 DEF n
<1>6. QED
  BY <1>1, <1>2, <1>3, <1>4, <1>5 DEF line

(* A step of the stream is a step of the assembler, or takes its verdict.  *)
LEMMA WireStep == WireInv /\ [Next]_vars => WireInv'
<1> SUFFICES ASSUME WireInv, [Next]_vars PROVE WireInv'
  OBVIOUS
<1>1. wire \in Seq(Bytes) /\ AssemblerInv
  BY DEF WireInv
<1>2. ASSUME NEW byte \in Bytes, FeedByte(byte) PROVE AssemblerInv'
  BY <1>1, <1>2, AssemblerStep DEF AssemblerNext
<1>3. ASSUME UNCHANGED assemblerVars PROVE AssemblerInv'
  BY <1>1, <1>3, AssemblerStep
<1>4. ASSUME NEW message \in SentMessages, Send(message) PROVE WireInv'
  <2>1. wire' \in Seq(Bytes)
    BY <1>4, SentLines DEF Send
  <2>2. QED
    BY <1>3, <1>4, <2>1 DEF Send, WireInv
<1>5. CASE Arrive
  <2>1. Head(wire) \in Bytes /\ Tail(wire) \in Seq(Bytes)
    BY <1>1, <1>5 DEF Arrive
  <2>2. QED
    BY <1>2, <1>5, <2>1 DEF Arrive, WireInv
<1>6. CASE Spoil
  <2>1. Tail(wire) \in Seq(Bytes) /\ <<>> \in Seq(Bytes)
    BY <1>1, <1>6 DEF Spoil
  <2>2. wire' \in {wire, Tail(wire), <<>>}
    BY <1>6 DEF Spoil
  <2>3. \/ \E byte \in Bytes : FeedByte(byte)
        \/ UNCHANGED assemblerVars
    BY <1>6, StreamAssumption DEF Spoil
  <2>4. QED
    BY <1>1, <1>2, <1>3, <2>1, <2>2, <2>3 DEF WireInv
<1>7. CASE HandleLine
  <2>1. UNCHANGED <<assembler, heard, wire>> /\ verdict' = NoVerdict
    BY <1>7 DEF HandleLine
  <2>2. HoldsWhatArrived' /\ VerdictIsOfItsLineAlone'
    BY <1>1, <2>1
       DEF AssemblerInv, HoldsWhatArrived, VerdictIsOfItsLineAlone, NoVerdict
  <2>3. QED
    BY <1>1, <2>1, <2>2 DEF AssemblerInv, WireInv
<1>8. CASE TakeOutput
  BY <1>1, <1>3, <1>8 DEF TakeOutput, WireInv
<1>9. ASSUME NEW command \in Commands, Command(command) PROVE WireInv'
  <2>1. Initialise \/ UNCHANGED assemblerVars
    BY <1>9 DEF Command
  <2>2. AssemblerInv'
    BY <1>1, <1>3, <2>1, AssemblerStep DEF AssemblerNext
  <2>3. wire' = wire
    BY <1>9 DEF Command
  <2>4. QED
    BY <1>1, <2>2, <2>3 DEF WireInv
<1>10. CASE UNCHANGED vars
  BY <1>1, <1>3, <1>10 DEF vars, WireInv
<1>11. QED
  BY <1>4, <1>5, <1>6, <1>7, <1>8, <1>9, <1>10 DEF Next

(* The peer's assembler, too, holds what arrived and judges each line by   *)
(* its own bytes (development_peer_feed), whatever the wire has spoiled    *)
(* and whenever the operator drops the link.                               *)
THEOREM PeerHearsLinesAlone ==
  Spec => [](HoldsWhatArrived /\ VerdictIsOfItsLineAlone)
<1>1. Init => WireInv
  <2>1. Init => AssemblerInv /\ wire \in Seq(Bytes)
    BY AssemblerStart DEF Init
  <2>2. QED
    BY <2>1 DEF WireInv
<1>2. WireInv => HoldsWhatArrived /\ VerdictIsOfItsLineAlone
  BY DEF WireInv, AssemblerInv
<1>3. QED
  BY <1>1, <1>2, WireStep, PTL DEF Spec

-----------------------------------------------------------------------------
(* The parser. *)

(* A word of an enumeration is found at an index of the enumeration. *)
LEMMA EventIsOne ==
  ASSUME NEW raw
  PROVE  DecodedEnumeration(EnumerationField("event"), raw).value.integer \in 0..3
<1> DEFINE values == EnumerationValues["event"]
           found == {i \in 1..Len(values) : Spelling[values[i]] = raw}
           index == IF found # {} THEN Min(found) ELSE 0
           field == EnumerationField("event")
<1>1. values = <<"CENTER_SHORT", "CENTER_LONG", "LEFT_SHORT", "RIGHT_SHORT">>
  BY DEF EnumerationValues
<1>2. Len(values) = 4
  BY <1>1
<1>3. index \in 0..4
  <2>1. found \in SUBSET (1..Len(values)) /\ found \in SUBSET Nat
    OBVIOUS
  <2>2. found # {} => Min(found) \in found
    BY <2>1, LeastIsOne
  <2>3. QED
    BY <1>2, <2>1, <2>2
<1>4. field.name = "event"
  BY DEF EnumerationField, Field
<1>5. DecodedEnumeration(field, raw) =
        IF index = 0 THEN Refused("BAD_VALUE") ELSE Accepted(field, Number(index - 1))
  BY <1>4 DEF DecodedEnumeration, SelectInSeq
<1> HIDE DEF index, found, values, field
<1>6. CASE index = 0
  <2>1. DecodedEnumeration(field, raw).value = Number(0)
    BY <1>5, <1>6 DEF Refused
  <2>2. QED
    BY <2>1 DEF Number, field
<1>7. CASE index # 0
  <2>1. DecodedEnumeration(field, raw).value = Number(index - 1)
    BY <1>5, <1>7 DEF Accepted
  <2>2. QED
    BY <1>3, <1>7, <2>1 DEF Number, field
<1>8. QED
  BY <1>6, <1>7 DEF field

(* What the parser gives: an error that is one, or a message of the table; *)
(* and a BUTTON's event is an event.                                       *)
Parsed(outcome) ==
    \/ outcome.kind = "error" /\ outcome.error # "NONE"
    \/ /\ outcome.kind = "message"
       /\ outcome.message.verb \in Verbs
       /\ outcome.message.verb = "BUTTON" => outcome.message.fields[1].integer \in 0..3

(* What the parser makes of a verb's fields, whatever they are. *)
LEMMA FieldsParse ==
  ASSUME NEW verb \in Verbs, NEW line
  PROVE  Parsed(ParseFields(verb, line))
<1> DEFINE failing == {start \in FieldStarts(line) : FieldError(verb, line, start) # "NONE"}
           lacking == \E index \in DOMAIN FieldsOf[verb] : Giving(verb, line, index) = {}
           given(index) == TokenAt(line, CHOOSE start \in Giving(verb, line, index) : TRUE)
           value(index) == DecodedValue(FieldsOf[verb][index], ValueIn(given(index))).value
           values == [index \in DOMAIN FieldsOf[verb] |-> value(index)]
           outcome == ParseFields(verb, line)
<1>1. outcome =
        IF failing # {}
          THEN [kind |-> "error", error |-> FieldError(verb, line, Min(failing))]
        ELSE IF lacking
          THEN [kind |-> "error", error |-> "NO_FIELD"]
        ELSE [kind |-> "message", message |-> Message(verb, values)]
  BY DEF ParseFields
<1>2. CASE failing # {}
  <2>0. failing \in SUBSET Nat
    BY DEF FieldStarts
  <2> HIDE DEF lacking, values
  <2>1. Min(failing) \in failing
    <3> HIDE DEF failing
    <3>1. QED
      BY <1>2, <2>0, LeastIsOne
  <2>2. FieldError(verb, line, Min(failing)) # "NONE"
    BY <2>1
  <2> HIDE DEF failing
  <2>3. outcome = [kind |-> "error", error |-> FieldError(verb, line, Min(failing))]
    BY <1>1, <1>2
  <2> HIDE DEF outcome
  <2>4. QED
    BY <2>2, <2>3 DEF Parsed, outcome
<1>3. ASSUME verb = "BUTTON" PROVE values[1].integer \in 0..3
  <2>1. FieldsOf[verb] = <<EnumerationField("event"), BooleanField("foregrounded"),
                           BooleanField("unlocked")>>
    BY <1>3 DEF FieldsOf, Verbs
  <2>2. 1 \in DOMAIN FieldsOf[verb] /\ FieldsOf[verb][1] = EnumerationField("event")
    BY <2>1
  <2>3. value(1) = DecodedEnumeration(EnumerationField("event"), ValueIn(given(1))).value
    <3> DEFINE raw == ValueIn(given(1))
               field == EnumerationField("event")
    <3> HIDE DEF raw
    <3>1. field.type = "enumeration"
      BY DEF EnumerationField, Field
    <3> HIDE DEF field
    <3>2. DecodedValue(field, raw) = DecodedEnumeration(field, raw)
      BY <3>1 DEF DecodedValue
    <3>3. QED
      BY <2>2, <3>2 DEF raw, field
  <2> HIDE DEF given
  <2>4. value(1).integer \in 0..3
    BY <2>3, EventIsOne
  <2> HIDE DEF value
  <2>5. QED
    BY <2>2, <2>4
<1> HIDE DEF failing, lacking, values
<1>4. CASE ~(failing # {})
  <2>1. outcome = [kind |-> "error", error |-> "NO_FIELD"]
        \/ outcome = [kind |-> "message", message |-> Message(verb, values)]
    BY <1>1, <1>4
  <2> HIDE DEF outcome
  <2>2. QED
    BY <1>3, <2>1 DEF Parsed, Message, outcome
<1>5. QED
  BY <1>2, <1>4

(* remote_protocol_parse_line, of any line.                                *)
LEMMA LineParses ==
  ASSUME NEW line
  PROVE  Parsed(ParseLine(line))
<1> DEFINE verbs == {verb \in Verbs : Spelling[verb] = TokenAt(line, 1)}
           verb == CHOOSE verb \in verbs : TRUE
           outcome == ParseLine(line)
<1>1. outcome = IF ~WellStructured(line) THEN [kind |-> "error", error |-> "MALFORMED"]
                ELSE IF verbs = {} THEN [kind |-> "error", error |-> "BAD_VERB"]
                ELSE ParseFields(verb, line)
  BY DEF ParseLine
<1>2. verbs # {} => verb \in Verbs
  OBVIOUS
<1> HIDE DEF verbs, verb
<1>3. verbs # {} => Parsed(ParseFields(verb, line))
  BY <1>2, FieldsParse
<1> HIDE DEF outcome
<1>4. \/ outcome = [kind |-> "error", error |-> "MALFORMED"]
      \/ outcome = [kind |-> "error", error |-> "BAD_VERB"]
      \/ verbs # {} /\ outcome = ParseFields(verb, line)
  BY <1>1
<1>5. QED
  BY <1>3, <1>4 DEF Parsed, outcome

-----------------------------------------------------------------------------
(* The book. *)

IsBook(b) ==
    /\ DOMAIN b = {"log", "counts", "peer_version", "peer_locked"}
    /\ \E S : b.log \in Seq(S)
    /\ DOMAIN b.counts = Peer!Counted
    /\ \A name \in Peer!Counted : b.counts[name] \in Nat

Total(b) == b.counts.hellos + b.counts.buttons + b.counts.states + b.counts.refusals

RefusedIn(log) == {i \in DOMAIN log : log[i].error # "NONE"}

PressedIn(log) == {i \in DOMAIN log : log[i] = [verb |-> "BUTTON", error |-> "NONE"]}

Balanced(b) ==
    /\ IsBook(b)
    /\ Len(b.log) = IF Total(b) < LogCapacity THEN Total(b) ELSE LogCapacity
    /\ Len(b.log) = Total(b) =>
         /\ Cardinality(RefusedIn(b.log)) = b.counts.refusals
         /\ Cardinality(PressedIn(b.log)) = b.counts.buttons

(* One arrival is written down, and counted under its name. *)
Books(b, c, verb, error, name) ==
    /\ c.log = IF Len(b.log) >= LogCapacity THEN b.log
               ELSE Append(b.log, [verb |-> verb, error |-> error])
    /\ c.counts = [b.counts EXCEPT ![name] = @ + 1]
    /\ DOMAIN c = DOMAIN b

(* Of one number more, the set of those that pass holds one more or not. *)
LEMMA OneMore ==
  ASSUME NEW n \in Nat, NEW T \in SUBSET (1..n), NEW U, NEW passes \in BOOLEAN,
         U = IF passes THEN T \cup {n + 1} ELSE T
  PROVE  Cardinality(U) = Cardinality(T) + IF passes THEN 1 ELSE 0
<1>1. IsFiniteSet(T)
  <2>1. IsFiniteSet(1..n)
    BY FS_Interval
  <2>2. QED
    BY <2>1, FS_Subset
<1>2. n + 1 \notin T
  OBVIOUS
<1>3. Cardinality(T) \in Nat /\ Cardinality(T \cup {n + 1}) = Cardinality(T) + 1
  BY <1>1, <1>2, FS_CardinalityType, FS_AddElement
<1>4. QED
  BY <1>3

(* An entry more adds to those it is one of. *)
LEMMA OneEntryMore ==
  ASSUME NEW S, NEW log \in Seq(S), NEW verb, NEW error
  PROVE  LET after == Append(log, [verb |-> verb, error |-> error])
         IN  /\ \E R : after \in Seq(R)
             /\ Len(after) = Len(log) + 1
             /\ Cardinality(RefusedIn(after)) =
                  Cardinality(RefusedIn(log)) + IF error # "NONE" THEN 1 ELSE 0
             /\ Cardinality(PressedIn(after)) =
                  Cardinality(PressedIn(log))
                  + IF verb = "BUTTON" /\ error = "NONE" THEN 1 ELSE 0
<1> DEFINE entry == [verb |-> verb, error |-> error]
           press == [verb |-> "BUTTON", error |-> "NONE"]
           after == Append(log, entry)
           n == Len(log)
           R == S \cup {entry}
           refuses == error # "NONE"
           presses == verb = "BUTTON" /\ error = "NONE"
<1>1. entry.error = error /\ (entry = press <=> presses)
  OBVIOUS
<1> HIDE DEF entry, press
<1>2. log \in Seq(R) /\ entry \in R
  OBVIOUS
<1>3. /\ after \in Seq(R) /\ Len(after) = n + 1 /\ n \in Nat
      /\ DOMAIN log = 1..n /\ DOMAIN after = 1..(n + 1)
      /\ after[n + 1] = entry /\ \A i \in 1..n : after[i] = log[i]
  <2> HIDE DEF R
  <2>1. QED
    BY <1>2
<1>4. 1..(n + 1) = (1..n) \cup {n + 1} /\ n + 1 \notin 1..n
  BY <1>3
<1> HIDE DEF after, n
<1>5. RefusedIn(after) =
        IF refuses THEN RefusedIn(log) \cup {n + 1} ELSE RefusedIn(log)
  BY <1>1, <1>3, <1>4 DEF RefusedIn
<1>6. PressedIn(after) =
        IF presses THEN PressedIn(log) \cup {n + 1} ELSE PressedIn(log)
  BY <1>1, <1>3, <1>4 DEF PressedIn, press
<1>7. RefusedIn(log) \in SUBSET (1..n) /\ PressedIn(log) \in SUBSET (1..n)
  BY <1>3 DEF RefusedIn, PressedIn
<1>8. refuses \in BOOLEAN /\ presses \in BOOLEAN
  OBVIOUS
<1> HIDE DEF refuses, presses
<1>9. /\ Cardinality(RefusedIn(after)) =
           Cardinality(RefusedIn(log)) + IF refuses THEN 1 ELSE 0
      /\ Cardinality(PressedIn(after)) =
           Cardinality(PressedIn(log)) + IF presses THEN 1 ELSE 0
  BY <1>3, <1>5, <1>6, <1>7, <1>8, OneMore
<1>10. QED
  BY <1>3, <1>9 DEF after, entry, n, refuses, presses

(* An arrival written down and counted keeps the balance, if it is counted *)
(* among the refusals when it is one, among the presses when it is one.    *)
LEMMA BooksBalance ==
  ASSUME NEW b, Balanced(b), NEW c, NEW verb, NEW error, NEW name \in Peer!Counted,
         Books(b, c, verb, error, name),
         name = "refusals" <=> error # "NONE",
         name = "buttons" <=> (verb = "BUTTON" /\ error = "NONE")
  PROVE  Balanced(c)
<1> DEFINE after == Append(b.log, [verb |-> verb, error |-> error])
           full == Len(b.log) >= LogCapacity
<1>1. /\ IsBook(b) /\ LogCapacity \in Nat \ {0}
      /\ Len(b.log) = IF Total(b) < LogCapacity THEN Total(b) ELSE LogCapacity
      /\ Len(b.log) = Total(b) =>
           /\ Cardinality(RefusedIn(b.log)) = b.counts.refusals
           /\ Cardinality(PressedIn(b.log)) = b.counts.buttons
  BY StreamAssumption DEF Balanced
<1>2. PICK S : b.log \in Seq(S)
  BY <1>1 DEF IsBook
<1>3. /\ \E R : after \in Seq(R)
      /\ Len(after) = Len(b.log) + 1
      /\ Cardinality(RefusedIn(after)) =
           Cardinality(RefusedIn(b.log)) + IF error # "NONE" THEN 1 ELSE 0
      /\ Cardinality(PressedIn(after)) =
           Cardinality(PressedIn(b.log))
           + IF verb = "BUTTON" /\ error = "NONE" THEN 1 ELSE 0
  BY <1>2, OneEntryMore
<1>4. /\ \A other \in {"hellos", "buttons", "states", "refusals"} :
           /\ b.counts[other] \in Nat
           /\ c.counts[other] = b.counts[other] + IF other = name THEN 1 ELSE 0
      /\ DOMAIN c.counts = Peer!Counted
      /\ name \in {"hellos", "buttons", "states", "refusals"}
  BY <1>1 DEF IsBook, Books, Peer!Counted
<1>5. Total(b) \in Nat /\ Total(c) = Total(b) + 1
  BY <1>4 DEF Total
<1>6. c.log = IF full THEN b.log ELSE after
  BY DEF Books
<1>7. IsBook(c)
  <2>1. \E R : c.log \in Seq(R)
    BY <1>2, <1>3, <1>6
  <2>2. DOMAIN c = {"log", "counts", "peer_version", "peer_locked"}
    BY <1>1 DEF IsBook, Books
  <2>3. \A other \in Peer!Counted : c.counts[other] \in Nat
    BY <1>4 DEF Peer!Counted
  <2>4. QED
    BY <1>4, <2>1, <2>2, <2>3 DEF IsBook
<1>8. Len(b.log) \in Nat
  BY <1>2
<1> HIDE DEF after
<1>9. CASE full
  <2>1. c.log = b.log /\ Len(c.log) = LogCapacity /\ Total(b) >= LogCapacity
    BY <1>1, <1>5, <1>6, <1>8, <1>9
  <2>2. Len(c.log) # Total(c) /\ ~(Total(c) < LogCapacity)
    BY <1>1, <1>5, <2>1
  <2>3. QED
    BY <1>7, <2>1, <2>2 DEF Balanced
<1>10. CASE ~full
  <2>1. c.log = after /\ Len(b.log) = Total(b) /\ Total(b) < LogCapacity
    BY <1>1, <1>5, <1>6, <1>8, <1>10
  <2>2. /\ Len(c.log) = Total(c)
        /\ Len(c.log) = IF Total(c) < LogCapacity THEN Total(c) ELSE LogCapacity
    BY <1>1, <1>3, <1>5, <2>1
  <2>3. Cardinality(RefusedIn(c.log)) = c.counts.refusals
    BY <1>1, <1>3, <1>4, <2>1
  <2>4. Cardinality(PressedIn(c.log)) = c.counts.buttons
    BY <1>1, <1>3, <1>4, <2>1
  <2>5. QED
    BY <1>7, <2>2, <2>3, <2>4 DEF Balanced
<1>11. QED
  BY <1>9, <1>10

(* What arrives is a message of the table, or a refusal with its reason. *)
IsArrival(arrival) ==
    \/ arrival.verb \in Verbs
    \/ arrival.verb = "REFUSED" /\ arrival.error # "NONE"

(* Logged and counted, in either order, it is in the book. *)
LEMMA EntryBooks ==
  ASSUME NEW b, IsBook(b), NEW verb, NEW error, NEW name \in Peer!Counted
  PROVE  /\ Books(b, Peer!Counting(Peer!Logged(b, verb, error), name), verb, error, name)
         /\ name = "refusals" =>
              Books(b, Peer!LogRefusal(b, verb, error), verb, error, name)
<1> DEFINE entry == [verb |-> verb, error |-> error]
           log == IF Len(b.log) >= LogCapacity THEN b.log ELSE Append(b.log, entry)
           counts == [b.counts EXCEPT ![name] = @ + 1]
           logged == Peer!Logged(b, verb, error)
           counting == Peer!Counting(b, name)
<1>1. DOMAIN b = {"log", "counts", "peer_version", "peer_locked"}
  BY DEF IsBook
<1>2. DOMAIN logged = DOMAIN b /\ logged.log = log /\ logged.counts = b.counts
  BY <1>1 DEF Peer!Logged
<1>3. DOMAIN counting = DOMAIN b /\ counting.log = b.log /\ counting.counts = counts
  BY <1>1 DEF Peer!Counting
<1>4. Books(b, Peer!Counting(logged, name), verb, error, name)
  <2> DEFINE c == Peer!Counting(logged, name)
  <2>1. DOMAIN c = DOMAIN b /\ c.log = log /\ c.counts = counts
    <3> HIDE DEF logged, log
    <3>1. QED
      BY <1>1, <1>2 DEF Peer!Counting
  <2> HIDE DEF c
  <2>2. QED
    BY <2>1 DEF Books, c
<1>5. ASSUME name = "refusals"
      PROVE  Books(b, Peer!LogRefusal(b, verb, error), verb, error, name)
  <2> DEFINE c == Peer!Logged(counting, verb, error)
  <2>1. Peer!LogRefusal(b, verb, error) = c
    BY <1>5 DEF Peer!LogRefusal
  <2>2. DOMAIN c = DOMAIN b /\ c.log = log /\ c.counts = counts
    <3> HIDE DEF counting, counts
    <3>1. QED
      BY <1>1, <1>3 DEF Peer!Logged
  <2> HIDE DEF c
  <2>3. QED
    BY <2>1, <2>2 DEF Books
<1>6. QED
  BY <1>4, <1>5

(* The name an arrival is counted under: a HELLO as one, a press or a      *)
(* state of a peer that has been greeted as what it is, and everything     *)
(* else as a refusal.                                                      *)
NameOf(p, arrival) ==
    CASE arrival.verb = "HELLO" -> "hellos"
      [] arrival.verb = "BUTTON" /\ p.handshake_complete -> "buttons"
      [] arrival.verb = "STATE" /\ p.handshake_complete -> "states"
      [] OTHER -> "refusals"

(* What the peer notes of an arrival is one entry, under its name. *)
LEMMA NotedBooks ==
  ASSUME NEW b, IsBook(b), NEW p, NEW arrival, IsArrival(arrival)
  PROVE  LET name == NameOf(p, arrival)
         IN  /\ name \in Peer!Counted
             /\ \E verb, error :
                  /\ Books(b, Peer!Noted(b, p, arrival), verb, error, name)
                  /\ name = "refusals" <=> error # "NONE"
                  /\ name = "buttons" <=> (verb = "BUTTON" /\ error = "NONE")
<1> DEFINE c == Peer!Noted(b, p, arrival)
           name == NameOf(p, arrival)
           Right(verb, error) ==
             /\ Books(b, c, verb, error, name)
             /\ name = "refusals" <=> error # "NONE"
             /\ name = "buttons" <=> (verb = "BUTTON" /\ error = "NONE")
<1>1. name \in Peer!Counted
  BY DEF NameOf, Peer!Counted
<1>2. ASSUME NEW verb, NEW error, error # "NONE", name = "refusals",
             c = Peer!LogRefusal(b, verb, error)
      PROVE  Right(verb, error)
  <2>1. Books(b, c, verb, error, name)
    BY <1>1, <1>2, EntryBooks
  <2>2. QED
    BY <1>2, <2>1
<1>3. ASSUME NEW verb, name # "refusals", name = "buttons" <=> verb = "BUTTON",
             NEW d, d = Peer!Counting(Peer!Logged(b, verb, "NONE"), name),
             c.log = d.log, c.counts = d.counts, DOMAIN c = DOMAIN d
      PROVE  Right(verb, "NONE")
  <2>1. Books(b, d, verb, "NONE", name)
    BY <1>1, <1>3, EntryBooks
  <2>2. Books(b, c, verb, "NONE", name)
    BY <1>3, <2>1 DEF Books
  <2>3. QED
    BY <1>3, <2>2
<1>4. CASE arrival.verb = "REFUSED"
  <2>1. arrival.error # "NONE" /\ name = "refusals"
    BY <1>4 DEF IsArrival, Verbs, NameOf
  <2>2. c = Peer!LogRefusal(b, "NONE", arrival.error)
    BY <1>4 DEF Peer!Noted
  <2>3. QED
    BY <1>1, <1>2, <2>1, <2>2
<1>5. ASSUME arrival.verb \in Verbs, arrival.verb # "HELLO", ~p.handshake_complete
      PROVE  \E verb, error : Right(verb, error)
  <2>1. name = "refusals"
    BY <1>5 DEF Verbs, NameOf
  <2>2. c = Peer!LogRefusal(b, arrival.verb, "NO_HELLO")
    BY <1>5 DEF Verbs, Peer!Noted
  <2>3. Right(arrival.verb, "NO_HELLO")
    BY <1>2, <2>1, <2>2
  <2>4. QED
    BY <2>3
<1>6. CASE arrival.verb = "HELLO"
  <2> DEFINE d == Peer!Counting(Peer!Logged(b, "HELLO", "NONE"), "hellos")
  <2>1. name = "hellos"
    BY <1>6 DEF NameOf
  <2>2. c = [d EXCEPT !.peer_version = arrival.version, !.peer_locked = arrival.locked]
    BY <1>6 DEF Peer!Noted
  <2>3. c.log = d.log /\ c.counts = d.counts /\ DOMAIN c = DOMAIN d
    <3>0. "hellos" \in Peer!Counted
      BY DEF Peer!Counted
    <3>1. Books(b, d, "HELLO", "NONE", "hellos")
      BY <3>0, EntryBooks
    <3> HIDE DEF d, c
    <3>3. DOMAIN d = {"log", "counts", "peer_version", "peer_locked"}
      BY <3>1 DEF Books, IsBook
    <3>4. QED
      BY <2>2, <3>3
  <2> HIDE DEF c, name
  <2>4. Right("HELLO", "NONE")
    BY <1>3, <2>1, <2>3
  <2>5. QED
    BY <1>1, <2>4 DEF c, name
<1>7. CASE arrival.verb = "BUTTON" /\ p.handshake_complete
  <2> DEFINE d == Peer!Counting(Peer!Logged(b, "BUTTON", "NONE"), "buttons")
  <2>1. name = "buttons"
    BY <1>7 DEF NameOf
  <2>2. c = d
    BY <1>7 DEF Peer!Noted
  <2> HIDE DEF c, name
  <2>4. Right("BUTTON", "NONE")
    BY <1>3, <2>1, <2>2
  <2>5. QED
    BY <1>1, <2>4 DEF c, name
<1>8. CASE arrival.verb = "STATE" /\ p.handshake_complete
  <2> DEFINE d == Peer!Counting(Peer!Logged(b, "STATE", "NONE"), "states")
  <2>1. name = "states"
    BY <1>8 DEF NameOf
  <2>2. c = [d EXCEPT !.peer_locked = arrival.locked]
    BY <1>8 DEF Peer!Noted
  <2>3. c.log = d.log /\ c.counts = d.counts /\ DOMAIN c = DOMAIN d
    <3>0. "states" \in Peer!Counted
      BY DEF Peer!Counted
    <3>1. Books(b, d, "STATE", "NONE", "states")
      BY <3>0, EntryBooks
    <3> HIDE DEF d, c
    <3>3. DOMAIN d = {"log", "counts", "peer_version", "peer_locked"}
      BY <3>1 DEF Books, IsBook
    <3>4. QED
      BY <2>2, <3>3
  <2> HIDE DEF c, name
  <2>4. Right("STATE", "NONE")
    BY <1>3, <2>1, <2>3
  <2>5. QED
    BY <1>1, <2>4 DEF c, name
<1>9. CASE arrival.verb = "DISPLAY" /\ p.handshake_complete
  <2>1. name = "refusals"
    BY <1>9 DEF NameOf
  <2>2. c = Peer!LogRefusal(b, "DISPLAY", "BAD_VERB")
    BY <1>9 DEF Peer!Noted
  <2>3. QED
    BY <1>1, <1>2, <2>1, <2>2
<1>10. QED
  BY <1>1, <1>4, <1>5, <1>6, <1>7, <1>8, <1>9 DEF IsArrival, Verbs

-----------------------------------------------------------------------------
(* The peer. *)

Shaped(p) ==
    DOMAIN p = {"current_display", "handshake_complete", "output",
                "output_overflowed", "silent", "reject_every_version",
                "demo_script", "demo_wifi_payload", "demo_guest_payload"}

(* What it shows and whom it has greeted stays. *)
Keeps(p, q) ==
    /\ Shaped(q)
    /\ q.current_display = p.current_display
    /\ q.handshake_complete = p.handshake_complete

(* Sending changes neither. *)
LEMMA SendingKeeps ==
  ASSUME NEW p, Shaped(p), NEW line, NEW record, NEW error
  PROVE  /\ Keeps(p, Peer!AppendOutput(p, line))
         /\ Keeps(p, Peer!SendRecord(p, record))
         /\ Keeps(p, Peer!SendRecordWithError(p, record, error))
<1>1. \A any : Keeps(p, Peer!AppendOutput(p, any))
  BY DEF Keeps, Shaped, Peer!AppendOutput
<1>2. Keeps(p, p)
  BY DEF Keeps
<1>3. \A any : Keeps(p, Peer!SendRecord(p, any))
  BY <1>1, <1>2 DEF Peer!SendRecord
<1>4. QED
  BY <1>1, <1>3 DEF Peer!SendRecordWithError

(* What the demo script makes of a press is sent to the same remote.       *)
LEMMA DemoScriptKeeps ==
  ASSUME NEW p, Shaped(p), NEW event \in Peer!Events, NEW guarded \in BOOLEAN
  PROVE  LET q == Peer!ApplyDemoScript(p, event, guarded)
         IN  Shaped(q) /\ q.handshake_complete = p.handshake_complete
<1> DEFINE q == Peer!ApplyDemoScript(p, event, guarded)
           Right(r) == Shaped(r) /\ r.handshake_complete = p.handshake_complete
           record == p.current_display
           active == record.status \in {"PRESENTING", "GUEST_CONNECTED"}
           publish(next) == Peer!SendRecord([p EXCEPT !.current_display = next], next)
<1>1. \A error : Right(Peer!SendRecordWithError(p, record, error))
  BY SendingKeeps DEF Keeps
<1>2. \A next : Right(publish(next))
  <2> TAKE next
  <2> DEFINE u == [p EXCEPT !.current_display = next]
  <2>1. Shaped(u) /\ u.handshake_complete = p.handshake_complete
    BY DEF Shaped
  <2> HIDE DEF u
  <2>2. Keeps(u, Peer!SendRecord(u, next))
    BY <2>1, SendingKeeps
  <2>3. QED
    BY <2>1, <2>2 DEF Keeps, u
<1>3. Right(p)
  OBVIOUS
<1> HIDE DEF publish, Right, active
<1>4. CASE ~guarded
  <2>1. q = Peer!SendRecordWithError(p, record, "GUARD")
    BY <1>4 DEF Peer!ApplyDemoScript
  <2>2. QED
    BY <1>1, <2>1 DEF Right
<1>5. CASE guarded /\ event = "CENTER_SHORT"
  <2>1. \/ q = Peer!SendRecordWithError(p, record, "ACTIVE")
        \/ q = publish(Peer!SetCurrentPage(p,
                 [record EXCEPT !.status = "PRESENTING", !.delivered = 0], "WIFI"))
    BY <1>5, Zenon DEF Peer!ApplyDemoScript, publish
  <2> HIDE DEF q
  <2>2. QED
    BY <1>1, <1>2, <2>1 DEF Right, q
<1>6. CASE guarded /\ event = "CENTER_LONG"
  <2>1. \/ q = Peer!SendRecordWithError(p, record, "NO_SESSION")
        \/ q = publish(Peer!BlankRecord)
    BY <1>6 DEF Peer!ApplyDemoScript, publish
  <2> HIDE DEF q
  <2>2. QED
    BY <1>1, <1>2, <2>1 DEF Right, q
<1>7. CASE guarded /\ event = "LEFT_SHORT"
  <2>1. q = p \/ q = publish(Peer!SetCurrentPage(p, record, "WIFI"))
    BY <1>7 DEF Peer!ApplyDemoScript, publish
  <2> HIDE DEF q
  <2>2. QED
    BY <1>2, <1>3, <2>1 DEF Right, q
<1>8. CASE guarded /\ event = "RIGHT_SHORT"
  <2>1. q = p \/ q = publish(Peer!SetCurrentPage(p, record, "GUEST"))
    BY <1>8 DEF Peer!ApplyDemoScript, publish
  <2> HIDE DEF q
  <2>2. QED
    BY <1>2, <1>3, <2>1 DEF Right, q
<1>9. QED
  BY <1>4, <1>5, <1>6, <1>7, <1>8 DEF Peer!Events

(* A press among what arrives is a press of one of the keys. *)
IsPress(arrival) == arrival.event \in Peer!Events /\ arrival.guarded \in BOOLEAN

(* Only a HELLO makes a peer greeted, and only a press of one that is      *)
(* changes what it shows.                                                  *)
LEMMA FeedKeeps ==
  ASSUME NEW p, Shaped(p), NEW arrival, IsArrival(arrival),
         arrival.verb = "BUTTON" => IsPress(arrival)
  PROVE  LET q == Peer!FeedArrival(p, arrival)
         IN  /\ Shaped(q)
             /\ q.handshake_complete => p.handshake_complete \/ arrival.verb = "HELLO"
             /\ \/ q.current_display = p.current_display
                \/ arrival.verb = "BUTTON" /\ p.handshake_complete
<1> DEFINE q == Peer!FeedArrival(p, arrival)
<1>1. CASE arrival.verb = "REFUSED"
  <2>1. q = Peer!SendRecordWithError(p, Peer!VisibleRecord(p), arrival.error)
    BY <1>1 DEF Peer!FeedArrival
  <2>2. QED
    BY <2>1, SendingKeeps DEF Keeps
<1>2. ASSUME arrival.verb \in Verbs PROVE q = Peer!HandleMessage(p, arrival)
  BY <1>2 DEF Verbs, Peer!FeedArrival
<1>3. CASE arrival.verb = "HELLO"
  <2> DEFINE no == [p EXCEPT !.handshake_complete = FALSE]
             yes == [p EXCEPT !.handshake_complete = TRUE]
  <2>1. \/ q = Peer!SendRecordWithError(no, Peer!BlankRecord, "BAD_VERSION")
        \/ q = Peer!SendRecord(yes, p.current_display)
    BY <1>2, <1>3 DEF Verbs, Peer!HandleMessage, Peer!HandleHello
  <2>2. /\ Shaped(no) /\ no.current_display = p.current_display
        /\ Shaped(yes) /\ yes.current_display = p.current_display
    BY DEF Shaped
  <2> HIDE DEF no, yes, q
  <2>3. q.current_display = p.current_display /\ Shaped(q)
    BY <2>1, <2>2, SendingKeeps DEF Keeps
  <2>4. QED
    BY <1>3, <2>3 DEF q
<1>4. CASE arrival.verb \in Verbs /\ arrival.verb # "HELLO" /\ ~p.handshake_complete
  <2>1. q = Peer!SendRecordWithError(p, Peer!BlankRecord, "NO_HELLO")
    BY <1>2, <1>4 DEF Peer!HandleMessage
  <2>2. QED
    BY <2>1, SendingKeeps DEF Keeps
<1>5. CASE arrival.verb = "DISPLAY" /\ p.handshake_complete
  <2>1. q = Peer!SendRecordWithError(p, p.current_display, "BAD_VERB")
    BY <1>2, <1>5 DEF Verbs, Peer!HandleMessage
  <2>2. QED
    BY <2>1, SendingKeeps DEF Keeps
<1>6. CASE arrival.verb = "STATE" /\ p.handshake_complete
  <2>1. q = p
    BY <1>2, <1>6 DEF Verbs, Peer!HandleMessage
  <2>2. QED
    BY <1>6, <2>1
<1>7. CASE arrival.verb = "BUTTON" /\ p.handshake_complete
  <2>1. q = p \/ q = Peer!ApplyDemoScript(p, arrival.event, arrival.guarded)
    BY <1>2, <1>7 DEF Verbs, Peer!HandleMessage
  <2>2. Shaped(q) /\ q.handshake_complete = p.handshake_complete
    BY <1>7, <2>1, DemoScriptKeeps DEF IsPress
  <2>3. QED
    BY <1>7, <2>2
<1>8. QED
  BY <1>1, <1>3, <1>4, <1>5, <1>6, <1>7 DEF IsArrival, Verbs

(* No command greets the remote, and none leaves a record that has no line. *)
Commanded(p, q) ==
    /\ Shaped(q)
    /\ q.handshake_complete => p.handshake_complete
    /\ \/ q.current_display = p.current_display
       \/ q.current_display \notin UnencodableRecords

(* What sends, or keeps, is commanded. *)
LEMMA KeptIsCommanded ==
  ASSUME NEW p, NEW q, Keeps(p, q)
  PROVE  Commanded(p, q)
BY DEF Keeps, Commanded

(* development_peer_set_display checks the record it keeps, for it carries *)
(* no error already.                                                       *)
LEMMA SetDisplayChecks ==
  ASSUME NEW p, Shaped(p), NEW r, Peer!WithError(r, "NONE") = r
  PROVE  Commanded(p, Peer!SetDisplay(p, r))
<1> DEFINE u == [p EXCEPT !.current_display = r]
           q == Peer!AppendOutput(u, Peer!Display(r))
<1>1. \/ Peer!SetDisplay(p, r) = p
      \/ r \notin UnencodableRecords /\ Peer!SetDisplay(p, r) = q
  BY DEF Peer!SetDisplay
<1>2. /\ Shaped(u) /\ u.current_display = r
      /\ u.handshake_complete = p.handshake_complete
  BY DEF Shaped
<1> HIDE DEF u
<1>3. Keeps(u, q)
  BY <1>2, SendingKeeps
<1> HIDE DEF q
<1>4. r \notin UnencodableRecords => Commanded(p, q)
  BY <1>2, <1>3 DEF Keeps, Commanded
<1>5. Commanded(p, p)
  BY DEF Commanded
<1>6. QED
  BY <1>1, <1>4, <1>5

(* apply_command, of any command. *)
LEMMA CommandChecks ==
  ASSUME NEW p, Shaped(p), NEW command \in Peer!OperatorCommands
  PROVE  Commanded(p, Peer!ApplyCommand(p, command))
<1> DEFINE q == Peer!ApplyCommand(p, command)
           d == p.current_display
<1> SUFFICES Commanded(p, q)
  OBVIOUS
<1>0. Commanded(p, p)
  BY DEF Commanded
<1>1. \A status : Commanded(p, Peer!ShowStatus(p, status))
  <2> TAKE status
  <2> DEFINE r == [Peer!BlankRecord EXCEPT !.status = status]
  <2>0. r = [status |-> status, page |-> "NONE", payload |-> NoPayload,
             delivered |-> 0, error |-> "NONE"]
    BY DEF Peer!BlankRecord
  <2>1. Peer!WithError(r, "NONE") = r
    <3> DEFINE same == [r EXCEPT !.error = "NONE"]
    <3>1. /\ r = [field \in DOMAIN r |-> r[field]] /\ DOMAIN same = DOMAIN r
          /\ r["error"] = "NONE"
      BY <2>0
    <3>2. same = [field \in DOMAIN r |-> same[field]]
      OBVIOUS
    <3> HIDE DEF r
    <3>3. \A field \in DOMAIN r : same[field] = r[field]
      BY <3>1
    <3> HIDE DEF same
    <3>4. same = r
      BY <3>1, <3>2, <3>3
    <3>5. QED
      BY <3>4 DEF Peer!WithError, same
  <2>2. Peer!ShowStatus(p, status) = Peer!SetDisplay(p, r)
    BY DEF Peer!ShowStatus
  <2> HIDE DEF r
  <2>3. QED
    BY <2>1, <2>2, SetDisplayChecks
<1>2. \A status, page : Commanded(p, Peer!ShowPage(p, status, page))
  <2> TAKE status, page
  <2> DEFINE payload == IF page = "WIFI" THEN p.demo_wifi_payload
                        ELSE p.demo_guest_payload
             r == [d EXCEPT !.status = status, !.page = page,
                            !.payload = payload, !.error = "NONE"]
  <2>1. Peer!ShowPage(p, status, page) = Peer!SetDisplay(p, r)
    BY DEF Peer!ShowPage
  <2> HIDE DEF payload
  <2>2. Peer!WithError(r, "NONE") = r
    BY DEF Peer!WithError
  <2> HIDE DEF r
  <2>3. QED
    BY <2>1, <2>2, SetDisplayChecks
<1>3. \A count : Commanded(p, Peer!ShowDelivered(p, count))
  <2> TAKE count
  <2> DEFINE r == [d EXCEPT !.delivered = count, !.error = "NONE"]
  <2>1. Peer!ShowDelivered(p, count) = p \/ Peer!ShowDelivered(p, count) = Peer!SetDisplay(p, r)
    BY DEF Peer!ShowDelivered
  <2>2. Peer!WithError(r, "NONE") = r
    BY DEF Peer!WithError
  <2> HIDE DEF r
  <2>3. QED
    BY <1>0, <2>1, <2>2, SetDisplayChecks
<1>4. \A record, error : Commanded(p, Peer!SendRecordWithError(p, record, error))
  BY SendingKeeps, KeptIsCommanded
<1>5. \A record : Commanded(p, Peer!SendRecord(p, record))
  BY SendingKeeps, KeptIsCommanded
<1>6. \A line : Commanded(p, Peer!AppendOutput(p, line))
  BY SendingKeeps, KeptIsCommanded
<1>7. CASE command[1] = "ready"
  BY <1>1, <1>7 DEF Peer!ApplyCommand
<1>8. CASE command[1] = "terminating"
  BY <1>1, <1>8 DEF Peer!ApplyCommand
<1>9. CASE command[1] = "recovery"
  BY <1>1, <1>9 DEF Peer!ApplyCommand
<1>10. CASE command[1] = "presenting"
  BY <1>2, <1>10 DEF Peer!ApplyCommand
<1>11. CASE command[1] = "guest"
  BY <1>2, <1>11 DEF Peer!ApplyCommand
<1>12. CASE command[1] = "deliver"
  BY <1>3, <1>12 DEF Peer!ApplyCommand
<1>13. CASE command[1] = "error"
  <2>1. q = Peer!SendRecordWithError(p, d, IF command[2] \in Peer!Errors
                                          THEN command[2] ELSE "NONE")
    BY <1>13 DEF Peer!ApplyCommand, Peer!SendError
  <2>2. QED
    BY <1>4, <2>1
<1>14. CASE command[1] = "wifi"
  <2>1. q = [p EXCEPT !.demo_wifi_payload = command[2]]
    BY <1>14 DEF Peer!ApplyCommand
  <2> HIDE DEF q
  <2>2. QED
    BY <2>1 DEF Commanded, Shaped
<1>15. CASE command[1] = "url"
  <2>1. q = [p EXCEPT !.demo_guest_payload = command[2]]
    BY <1>15 DEF Peer!ApplyCommand
  <2> HIDE DEF q
  <2>2. QED
    BY <2>1 DEF Commanded, Shaped
<1>16. CASE command[1] = "demo"
  <2>1. q = [p EXCEPT !.demo_script = (command[2] = "on")]
    BY <1>16 DEF Peer!ApplyCommand
  <2> DEFINE on == command[2] = "on"
  <2>2. q = [p EXCEPT !.demo_script = on]
    BY <2>1
  <2> HIDE DEF q, on
  <2>3. QED
    BY <2>2 DEF Commanded, Shaped
<1>17. CASE command[1] = "resend"
  BY <1>5, <1>17 DEF Peer!ApplyCommand, Peer!ResendDisplay
<1>18. CASE command[1] = "noise"
  BY <1>6, <1>18 DEF Peer!ApplyCommand, Peer!SendNoise
<1>19. CASE command[1] = "partial"
  BY <1>0, <1>6, <1>19 DEF Peer!ApplyCommand, Peer!SendPartialRecord
<1>20. CASE command[1] = "drop"
  <2>1. q = [p EXCEPT !.handshake_complete = FALSE, !.output = <<>>,
                      !.output_overflowed = FALSE]
    BY <1>20 DEF Peer!ApplyCommand, Peer!LinkDropped
  <2> HIDE DEF q
  <2>2. QED
    BY <2>1 DEF Commanded, Shaped
<1>21. command[1] \in {"ready", "terminating", "recovery", "resend", "noise",
                       "partial", "drop", "presenting", "guest", "deliver",
                       "error", "wifi", "url", "demo"}
  <2>1. \/ command \in {<<word>> : word \in {"ready", "terminating", "recovery",
                                              "resend", "noise", "partial", "drop"}}
        \/ command \in {"presenting", "guest"} \X Peer!Pages
        \/ command \in {"deliver"} \X Nat
        \/ command \in {"error"} \X STRING
        \/ command \in {"wifi", "url"} \X Payloads
        \/ command \in {"demo"} \X {"on", "off"}
    BY DEF Peer!OperatorCommands
  <2>2. CASE command \in {<<word>> : word \in {"ready", "terminating", "recovery",
                                               "resend", "noise", "partial", "drop"}}
    BY <2>2
  <2>3. CASE ~(command \in {<<word>> : word \in {"ready", "terminating", "recovery",
                                               "resend", "noise", "partial", "drop"}})
    BY <2>1, <2>3
  <2>4. QED
    BY <2>2, <2>3
<1> HIDE DEF q
<1>22. QED
  BY <1>7, <1>8, <1>9, <1>10, <1>11, <1>12, <1>13, <1>14, <1>15, <1>16, <1>17,
     <1>18, <1>19, <1>20, <1>21

-----------------------------------------------------------------------------
(* The stream. *)

(* What is wrong with a line, when something is, is an error of its own    *)
(* name; the peer keeps its shape; the book balances; a greeted peer has   *)
(* counted a HELLO, and so has one that counted anything but refusals; a   *)
(* record without a line is a press's.                                     *)
StreamIInv ==
    /\ verdict = NoVerdict \/ verdict.kind \in {"LINE", "TOO_LONG", "MALFORMED"}
    /\ Shaped(peer)
    /\ Balanced(book)
    /\ peer.handshake_complete => book.counts.hellos > 0
    /\ book.counts.buttons + book.counts.states > 0 => book.counts.hellos > 0
    /\ peer.current_display \in UnencodableRecords => book.counts.buttons > 0

(* A byte ends no line, or one with a verdict of these. *)
LEMMA FeedJudges ==
  ASSUME NEW byte, FeedByte(byte)
  PROVE  verdict' = NoVerdict \/ verdict'.kind \in {"LINE", "TOO_LONG", "MALFORMED"}
<1>1. CASE byte # Terminator
  BY <1>1 DEF FeedByte
<1>2. CASE byte = Terminator
  <2>1. verdict'.kind = Verdict(assembler)
    BY <1>2 DEF FeedByte
  <2>2. QED
    BY <2>1 DEF Verdict
<1>3. QED
  BY <1>1, <1>2

(* What arrives of a line, refused or parsed, is an arrival. *)
LEMMA OutcomeArrives ==
  ASSUME verdict.kind \in {"LINE", "TOO_LONG", "MALFORMED"}
  PROVE  LET arrival == ArrivalOf(Outcome)
         IN  IsArrival(arrival) /\ (arrival.verb = "BUTTON" => IsPress(arrival))
<1> DEFINE outcome == Outcome
           arrival == ArrivalOf(outcome)
           value(i) == outcome.message.fields[i].integer
<1>1. Parsed(outcome)
  <2>1. CASE verdict.kind = "LINE"
    BY <2>1, LineParses DEF Outcome
  <2>2. CASE verdict.kind # "LINE"
    <3>1. outcome = [kind |-> "error", error |-> verdict.kind]
      BY <2>2 DEF Outcome
    <3> HIDE DEF outcome
    <3>2. QED
      BY <3>1 DEF Parsed
  <2>3. QED
    BY <2>1, <2>2
<1> HIDE DEF outcome
<1>2. CASE outcome.kind = "error" /\ outcome.error # "NONE"
  <2>1. arrival = [verb |-> "REFUSED", error |-> outcome.error]
    BY <1>2 DEF ArrivalOf, Peer!RefusedLine
  <2> HIDE DEF arrival
  <2>2. QED
    BY <1>2, <2>1 DEF IsArrival, arrival, outcome
<1>3. CASE outcome.kind = "message"
  <2>1. /\ outcome.message.verb \in Verbs
        /\ outcome.message.verb = "BUTTON" => value(1) \in 0..3
    BY <1>1, <1>3 DEF Parsed
  <2>2. CASE outcome.message.verb = "HELLO"
    <3>1. arrival = Peer!HelloFrom(value(1), value(3) = 1)
      BY <1>3, <2>2 DEF ArrivalOf
    <3>2. arrival.verb = "HELLO"
      BY <3>1 DEF Peer!HelloFrom
    <3>3. QED
      BY <3>2 DEF IsArrival, Verbs, outcome
  <2>3. CASE outcome.message.verb = "BUTTON"
    <3> DEFINE event == EnumerationValues["event"][value(1) + 1]
               guarded == value(2) = 1 /\ value(3) = 1
    <3>1. arrival = Peer!Button(event, guarded)
      BY <1>3, <2>3 DEF ArrivalOf
    <3>2. event \in Peer!Events
      BY <2>1, <2>3 DEF EnumerationValues, Peer!Events
    <3>3. guarded \in BOOLEAN
      OBVIOUS
    <3> HIDE DEF event, guarded, arrival
    <3>4. arrival.verb = "BUTTON" /\ IsPress(arrival)
      BY <3>1, <3>2, <3>3 DEF Peer!Button, IsPress
    <3>5. QED
      BY <3>4 DEF IsArrival, Verbs, arrival, outcome
  <2>4. CASE outcome.message.verb = "STATE"
    <3>1. arrival = Peer!StateOf(value(1) = 1)
      BY <1>3, <2>4 DEF ArrivalOf
    <3>2. arrival.verb = "STATE"
      BY <3>1 DEF Peer!StateOf
    <3>3. QED
      BY <3>2 DEF IsArrival, Verbs, outcome
  <2>5. CASE outcome.message.verb = "DISPLAY"
    <3>1. arrival = Peer!DisplayFromRemote
      BY <1>3, <2>5 DEF ArrivalOf
    <3>2. arrival.verb = "DISPLAY"
      BY <3>1 DEF Peer!DisplayFromRemote
    <3>3. QED
      BY <3>2 DEF IsArrival, Verbs, outcome
  <2>6. QED
    BY <2>1, <2>2, <2>3, <2>4, <2>5 DEF Verbs
<1>4. QED
  BY <1>1, <1>2, <1>3 DEF Parsed

(* A line handled keeps the invariant. *)
LEMMA HandleLineKeeps ==
  ASSUME StreamIInv, HandleLine
  PROVE  StreamIInv'
<1> DEFINE arrival == ArrivalOf(Outcome)
           name == NameOf(peer, arrival)
<1>1. verdict.kind \in {"LINE", "TOO_LONG", "MALFORMED"}
  BY DEF StreamIInv, HandleLine, Between
<1>2. IsArrival(arrival) /\ (arrival.verb = "BUTTON" => IsPress(arrival))
  BY <1>1, OutcomeArrives
<1>3. /\ peer' = Peer!FeedArrival(peer, arrival)
      /\ book' = Peer!Noted(book, peer, arrival)
      /\ verdict' = NoVerdict
  BY DEF HandleLine
<1> HIDE DEF arrival
<1>4. /\ Shaped(peer')
      /\ peer'.handshake_complete => peer.handshake_complete \/ arrival.verb = "HELLO"
      /\ \/ peer'.current_display = peer.current_display
         \/ arrival.verb = "BUTTON" /\ peer.handshake_complete
  BY <1>2, <1>3, FeedKeeps DEF StreamIInv
<1>5. IsBook(book)
  BY DEF StreamIInv, Balanced
<1>6. PICK verb, error :
        /\ Books(book, book', verb, error, name)
        /\ name = "refusals" <=> error # "NONE"
        /\ name = "buttons" <=> (verb = "BUTTON" /\ error = "NONE")
  BY <1>2, <1>3, <1>5, NotedBooks
<1>7. name \in Peer!Counted
  BY <1>2, <1>5, NotedBooks
<1>8. Balanced(book')
  <2> HIDE DEF name
  <2>1. QED
    BY <1>6, <1>7, BooksBalance DEF StreamIInv
<1>9. \A other \in {"hellos", "buttons", "states"} :
        /\ book.counts[other] \in Nat
        /\ book'.counts[other] = book.counts[other] + IF other = name THEN 1 ELSE 0
  BY <1>5, <1>6 DEF Books, IsBook, Peer!Counted
<1>10. /\ arrival.verb = "HELLO" => name = "hellos"
       /\ name \in {"buttons", "states"} => peer.handshake_complete
       /\ arrival.verb = "BUTTON" /\ peer.handshake_complete => name = "buttons"
  BY DEF NameOf
<1> HIDE DEF name
<1>11. peer'.handshake_complete => book'.counts.hellos > 0
  BY <1>4, <1>9, <1>10 DEF StreamIInv
<1>12. book'.counts.buttons + book'.counts.states > 0 => book'.counts.hellos > 0
  BY <1>9, <1>10 DEF StreamIInv
<1>13. peer'.current_display \in UnencodableRecords => book'.counts.buttons > 0
  BY <1>4, <1>9, <1>10 DEF StreamIInv
<1>14. QED
  BY <1>3, <1>4, <1>8, <1>11, <1>12, <1>13 DEF StreamIInv

(* The peer starts with an empty book and a record that has a line. *)
LEMMA StreamInitIInv == Init => StreamIInv
<1> SUFFICES ASSUME Init PROVE StreamIInv
  OBVIOUS
<1>1. PICK silent \in Silences : peer = Peer!InitialPeer(silent, FALSE, FALSE)
  BY DEF Init
<1>2. Shaped(peer) /\ ~peer.handshake_complete /\ peer.current_display = Peer!BlankRecord
  BY <1>1 DEF Shaped, Peer!InitialPeer
<1>3. Peer!BlankRecord \notin UnencodableRecords
  BY StreamAssumption
<1>4. /\ book.log = <<>>
      /\ DOMAIN book.counts = Peer!Counted
      /\ \A name \in Peer!Counted : book.counts[name] = 0
      /\ DOMAIN book = {"log", "counts", "peer_version", "peer_locked"}
  BY DEF Init, Peer!EmptyBook
<1>5. book.counts.hellos = 0 /\ book.counts.buttons = 0
      /\ book.counts.states = 0 /\ book.counts.refusals = 0
  BY <1>4 DEF Peer!Counted
<1>6. IsBook(book)
  <2>1. book.log \in Seq({})
    BY <1>4
  <2>2. QED
    BY <1>4, <2>1 DEF IsBook
<1>7. RefusedIn(book.log) = {} /\ PressedIn(book.log) = {}
  BY <1>4 DEF RefusedIn, PressedIn
<1>8. Cardinality({}) = 0 /\ Len(book.log) = 0 /\ Total(book) = 0
  BY <1>4, <1>5, FS_EmptySet DEF Total
<1>9. Balanced(book)
  BY <1>5, <1>6, <1>7, <1>8, StreamAssumption DEF Balanced
<1>10. verdict = NoVerdict
  BY DEF Init, AssemblerInit
<1>11. QED
  BY <1>2, <1>3, <1>5, <1>9, <1>10 DEF StreamIInv

(* Every step of the wire, the peer and the operator keeps it. *)
LEMMA StreamNextIInv == StreamIInv /\ [Next]_vars => StreamIInv'
<1> SUFFICES ASSUME StreamIInv, [Next]_vars PROVE StreamIInv'
  OBVIOUS
<1>1. ASSUME NEW message \in SentMessages, Send(message) PROVE StreamIInv'
  BY <1>1 DEF Send, assemblerVars, peerVars, StreamIInv
<1>2. CASE Arrive
  <2>1. verdict' = NoVerdict \/ verdict'.kind \in {"LINE", "TOO_LONG", "MALFORMED"}
    BY <1>2, FeedJudges DEF Arrive
  <2>2. QED
    BY <1>2, <2>1 DEF Arrive, peerVars, StreamIInv
<1>3. CASE Spoil
  <2>1. \/ \E byte : FeedByte(byte)
        \/ UNCHANGED assemblerVars
    BY <1>3 DEF Spoil
  <2>2. verdict' = NoVerdict \/ verdict'.kind \in {"LINE", "TOO_LONG", "MALFORMED"}
    BY <2>1, FeedJudges DEF assemblerVars, StreamIInv
  <2>3. QED
    BY <1>3, <2>2 DEF Spoil, peerVars, StreamIInv
<1>4. CASE HandleLine
  BY <1>4, HandleLineKeeps
<1>5. CASE TakeOutput
  <2>1. Shaped(peer') /\ peer'.handshake_complete = peer.handshake_complete
        /\ peer'.current_display = peer.current_display
    BY <1>5 DEF TakeOutput, StreamIInv, Shaped
  <2>2. QED
    BY <1>5, <2>1 DEF TakeOutput, assemblerVars, StreamIInv
<1>6. ASSUME NEW command \in Commands, Command(command) PROVE StreamIInv'
  <2>1. Commanded(peer, peer')
    BY <1>6, CommandChecks, StreamAssumption DEF Command, StreamIInv
  <2>2. verdict' = NoVerdict
    BY <1>6 DEF Command, Between, Initialise, assemblerVars
  <2>3. book' = book
    BY <1>6 DEF Command
  <2>4. QED
    BY <2>1, <2>2, <2>3 DEF Commanded, StreamIInv
<1>7. CASE UNCHANGED vars
  BY <1>7 DEF vars, assemblerVars, StreamIInv
<1>8. QED
  BY <1>1, <1>2, <1>3, <1>4, <1>5, <1>6, <1>7 DEF Next

(* Whatever reached the peer and whatever was asked of it (the peer's core *)
(* and shell), the book, the handshake and the record agree as above.      *)
THEOREM StreamInvariance == Spec => []StreamIInv
<1>1. QED
  BY StreamInitIInv, StreamNextIInv, PTL DEF Spec

(* The book and the counts tell one story (log_arrival, and the counters   *)
(* of the core), whatever arrives and in whatever order: each arrival is   *)
(* counted once, logged while there is room, and nothing but a refusal is  *)
(* counted before the first HELLO.                                         *)
THEOREM BookIsBalanced == Spec => []BookBalances
<1>1. StreamIInv => BookBalances
  BY DEF StreamIInv, Balanced, Total, RefusedIn, PressedIn, BookBalances
<1>2. QED
  BY <1>1, StreamInvariance, PTL

(* Of the operator's commands, in any order and of any texts, none leaves  *)
(* a record the peer cannot send (development_peer_set_display): only a    *)
(* press the demo script answers can.                                      *)
THEOREM RecordsEncode == Spec => []RecordsEncodeUntilPressed
<1>1. StreamIInv => RecordsEncodeUntilPressed
  BY DEF StreamIInv, RecordsEncodeUntilPressed
<1>2. QED
  BY <1>1, StreamInvariance, PTL

-----------------------------------------------------------------------------
(* The codec on the stream. *)

(* Where the elements of two sequences joined lie. *)
LEMMA TwoJoined ==
  ASSUME NEW S, NEW first \in Seq(S), NEW second \in Seq(S)
  PROVE  /\ first \o second \in Seq(S)
         /\ Len(first \o second) = Len(first) + Len(second)
         /\ \A i \in 1..Len(first) : (first \o second)[i] = first[i]
         /\ \A i \in 1..Len(second) : (first \o second)[Len(first) + i] = second[i]
OBVIOUS

(* What has arrived of a line and what is on its way, when a byte arrives. *)
LEMMA ArrivalOfAByte ==
  ASSUME NEW arrived \in Seq(Bytes), NEW coming \in Seq(Bytes), coming # <<>>
  PROVE  /\ Append(arrived, Head(coming)) \o Tail(coming) = arrived \o coming
         /\ (arrived \o coming)[Len(arrived) + 1] = Head(coming)
         /\ Len(arrived) + 1 <= Len(arrived \o coming)
         /\ \A i \in 1..Len(arrived) : (arrived \o coming)[i] = arrived[i]
<1> DEFINE byte == Head(coming)
           rest == Tail(coming)
           a == Len(arrived)
           b == Len(rest)
           whole == arrived \o coming
           moved == Append(arrived, byte) \o rest
<1>1. /\ a \in Nat /\ b \in Nat /\ rest \in Seq(Bytes) /\ byte \in Bytes
      /\ Len(coming) = b + 1 /\ coming[1] = byte /\ Len(rest) = b
      /\ \A i \in 1..b : rest[i] = coming[i + 1]
  OBVIOUS
<1> HIDE DEF byte, rest
<1>2. /\ whole \in Seq(Bytes) /\ Len(whole) = a + (b + 1)
      /\ \A i \in 1..a : whole[i] = arrived[i]
      /\ \A i \in 1..(b + 1) : whole[a + i] = coming[i]
  <2>1. /\ whole \in Seq(Bytes) /\ Len(whole) = a + Len(coming)
        /\ \A i \in 1..a : whole[i] = arrived[i]
        /\ \A i \in 1..Len(coming) : whole[a + i] = coming[i]
    BY TwoJoined
  <2> HIDE DEF whole, a, b
  <2>2. QED
    BY <1>1, <2>1
<1>3. Append(arrived, byte) \in Seq(Bytes) /\ Len(Append(arrived, byte)) = a + 1
      /\ Append(arrived, byte)[a + 1] = byte
      /\ \A i \in 1..a : Append(arrived, byte)[i] = arrived[i]
  BY <1>1
<1> DEFINE more == Append(arrived, byte)
<1>4. more \in Seq(Bytes) /\ Len(more) = a + 1 /\ more[a + 1] = byte
      /\ \A i \in 1..a : more[i] = arrived[i]
  BY <1>3
<1> HIDE DEF more, a, b
<1>5. /\ more \o rest \in Seq(Bytes) /\ Len(more \o rest) = (a + 1) + b
      /\ \A i \in 1..(a + 1) : (more \o rest)[i] = more[i]
      /\ \A i \in 1..b : (more \o rest)[(a + 1) + i] = rest[i]
  <2>0. more \in Seq(Bytes) /\ rest \in Seq(Bytes)
    BY <1>1, <1>4
  <2>1. /\ more \o rest \in Seq(Bytes) /\ Len(more \o rest) = Len(more) + Len(rest)
        /\ \A i \in 1..Len(more) : (more \o rest)[i] = more[i]
        /\ \A i \in 1..Len(rest) : (more \o rest)[Len(more) + i] = rest[i]
    BY <2>0, TwoJoined
  <2>2. Len(more) = a + 1 /\ Len(rest) = b
    BY <1>1, <1>4
  <2>3. QED
    BY <2>1, <2>2
<1> HIDE DEF whole
<1>6. whole[a + 1] = byte /\ a + 1 <= Len(whole)
  BY <1>1, <1>2
<1> DEFINE again == more \o rest
<1> HIDE DEF again
<1>7. ASSUME NEW i \in 1..((a + 1) + b) PROVE again[i] = whole[i]
  <2>1. CASE i \in 1..a
    <3>1. i \in 1..(a + 1)
      BY <1>1, <2>1
    <3>2. QED
      BY <1>2, <1>4, <1>5, <2>1, <3>1 DEF again
  <2>2. CASE i = a + 1
    <3>1. i \in 1..(a + 1)
      BY <1>1, <2>2
    <3>2. QED
      BY <1>4, <1>5, <1>6, <2>2, <3>1 DEF again
  <2>3. CASE i > a + 1
    <3> DEFINE j == i - (a + 1)
    <3>1. j \in 1..b /\ (a + 1) + j = i /\ j + 1 \in 1..(b + 1) /\ a + (j + 1) = i
      BY <1>1, <2>3
    <3> HIDE DEF j
    <3>2. again[(a + 1) + j] = rest[j] /\ rest[j] = coming[j + 1]
      BY <1>1, <1>5, <3>1 DEF again
    <3>3. whole[a + (j + 1)] = coming[j + 1]
      BY <1>2, <3>1
    <3>4. QED
      BY <3>1, <3>2, <3>3
  <2>4. QED
    BY <1>1, <2>1, <2>2, <2>3
<1>8. again = whole
  <2>1. Len(again) = (a + 1) + b /\ Len(whole) = (a + 1) + b
    BY <1>1, <1>2, <1>5 DEF again
  <2>0. again \in Seq(Bytes) /\ whole \in Seq(Bytes)
    BY <1>2, <1>5 DEF again
  <2>2. again = [i \in 1..Len(again) |-> again[i]] /\ whole = [i \in 1..Len(whole) |-> whole[i]]
    BY <2>0
  <2>3. QED
    BY <1>7, <2>1, <2>2
<1>9. QED
  BY <1>2, <1>6, <1>8 DEF again, more, whole, byte, rest, a

(* A line nothing has spoiled is on its way, or has been heard whole.      *)
MeantIInv ==
    /\ verdict.of \in Seq(Bytes)
    /\ meant # NoMessage =>
         /\ meant \in SentMessages
         /\ IF Between THEN heard \o wire = EncodedLine(meant)
            ELSE verdict.of = LineOf(meant)

(* The byte that ends a line nothing has spoiled is its last.              *)
LEMMA LineEnds ==
  ASSUME NEW message \in SentMessages,
         NEW arrived \in Seq(Bytes), NEW coming \in Seq(Bytes), coming # <<>>,
         arrived \o coming = EncodedLine(message), Head(coming) = Terminator
  PROVE  arrived = LineOf(message)
<1> DEFINE line == LineOf(message)
           a == Len(arrived)
           m == Len(line)
           whole == arrived \o coming
<1>1. /\ line \in Seq(32..126) /\ line \in Seq(Bytes) /\ whole = Append(line, Terminator)
  BY SentLines
<1>2. /\ whole[a + 1] = Terminator /\ a + 1 <= Len(whole)
      /\ \A i \in 1..a : whole[i] = arrived[i]
  BY ArrivalOfAByte
<1> HIDE DEF whole, line
<1>3. /\ a \in Nat /\ m \in Nat /\ Len(whole) = m + 1
      /\ \A i \in 1..m : whole[i] = line[i]
  BY <1>1
<1>4. \A i \in 1..m : whole[i] # Terminator
  <2>1. \A i \in 1..m : line[i] \in 32..126
    <3> DEFINE S == 32..126
    <3>1. line \in Seq(S)
      BY <1>1
    <3> HIDE DEF S
    <3>2. \A i \in 1..m : line[i] \in S
      BY <3>1
    <3>3. QED
      BY <3>2 DEF S
  <2>2. Terminator \notin 32..126
    BY DEF Terminator
  <2>3. QED
    BY <1>3, <2>1, <2>2
<1>5. a = m
  <2>1. a + 1 \notin 1..m
    BY <1>2, <1>4
  <2> HIDE DEF a, m
  <2>2. a + 1 \in 1..(m + 1)
    BY <1>2, <1>3
  <2>3. QED
    BY <1>3, <2>1, <2>2
<1>6. \A i \in 1..m : arrived[i] = line[i]
  BY <1>2, <1>3, <1>5
<1>7. arrived = [i \in 1..a |-> arrived[i]] /\ line = [i \in 1..m |-> line[i]]
  BY <1>1
<1>8. QED
  BY <1>5, <1>6, <1>7 DEF line

(* A byte of a line nothing has spoiled arrives.                           *)
LEMMA ArriveKeeps ==
  ASSUME WireInv, MeantIInv, Arrive
  PROVE  MeantIInv'
<1> DEFINE byte == Head(wire)
<1>1. /\ Between /\ wire # <<>> /\ FeedByte(byte) /\ wire' = Tail(wire) /\ meant' = meant
  BY DEF Arrive
<1>2. wire \in Seq(Bytes) /\ heard \in Seq(Bytes)
  BY DEF WireInv, AssemblerInv, HoldsWhatArrived
<1>3. CASE byte # Terminator
  <2>1. heard' = Append(heard, byte) /\ verdict' = NoVerdict
    BY <1>1, <1>3 DEF FeedByte
  <2>2. Between' /\ verdict'.of \in Seq(Bytes)
    BY <2>1 DEF Between, NoVerdict
  <2>3. heard' \o wire' = heard \o wire
    BY <1>1, <1>2, <2>1, ArrivalOfAByte
  <2>4. QED
    BY <1>1, <2>2, <2>3 DEF MeantIInv
<1>4. CASE byte = Terminator
  <2>1. verdict' = [kind |-> Verdict(assembler), line |-> assembler.line, of |-> heard]
    BY <1>1, <1>4 DEF FeedByte
  <2>2. verdict'.of = heard /\ verdict'.kind = Verdict(assembler)
    BY <2>1
  <2>3. ~Between'
    BY <2>2 DEF Between, NoVerdict, Verdict
  <2>4. ASSUME meant # NoMessage PROVE heard = LineOf(meant)
    BY <1>1, <1>2, <1>4, <2>4, LineEnds DEF MeantIInv
  <2>5. QED
    BY <1>1, <1>2, <2>2, <2>3, <2>4 DEF MeantIInv
<1>5. QED
  BY <1>3, <1>4

(* Every step of the wire, the peer and the operator keeps it. *)
LEMMA MeantNextIInv == WireInv /\ MeantIInv /\ [Next]_vars => MeantIInv'
<1> SUFFICES ASSUME WireInv, MeantIInv, [Next]_vars PROVE MeantIInv'
  OBVIOUS
<1>0. wire \in Seq(Bytes) /\ heard \in Seq(Bytes)
  BY DEF WireInv, AssemblerInv, HoldsWhatArrived
<1>v. ASSUME UNCHANGED assemblerVars PROVE verdict' = verdict /\ heard' = heard
  BY <1>v DEF assemblerVars
<1>n. NoVerdict.of \in Seq(Bytes)
  BY DEF NoVerdict
<1>1. ASSUME NEW message \in SentMessages, Send(message) PROVE MeantIInv'
  <2>1. /\ Between /\ wire' = EncodedLine(message)
        /\ meant' = (IF heard = <<>> THEN message ELSE NoMessage)
        /\ verdict' = verdict /\ heard' = heard
    BY <1>1, <1>v DEF Send
  <2>2. ASSUME heard = <<>> PROVE heard' \o wire' = EncodedLine(message)
    <3>1. EncodedLine(message) \in Seq(Bytes)
      BY SentLines
    <3> DEFINE whole == EncodedLine(message)
    <3> HIDE DEF whole
    <3>2. <<>> \o whole = whole
      BY <3>1 DEF whole
    <3>3. QED
      BY <2>1, <2>2, <3>2 DEF whole
  <2>3. QED
    BY <2>1, <2>2 DEF MeantIInv, Between
<1>2. CASE Arrive
  BY <1>2, ArriveKeeps
<1>3. CASE Spoil
  <2>1. meant' = NoMessage
    BY <1>3 DEF Spoil
  <2>2. (\E byte : FeedByte(byte)) \/ UNCHANGED assemblerVars
    BY <1>3 DEF Spoil
  <2>3. verdict'.of \in Seq(Bytes)
    <3>1. CASE UNCHANGED assemblerVars
      BY <1>v, <3>1 DEF MeantIInv
    <3>2. ASSUME NEW byte, FeedByte(byte) PROVE verdict'.of \in Seq(Bytes)
      BY <1>0, <1>n, <3>2 DEF FeedByte
    <3>3. QED
      BY <2>2, <3>1, <3>2
  <2>4. QED
    BY <2>1, <2>3 DEF MeantIInv
<1>4. CASE HandleLine
  BY <1>4, <1>n DEF HandleLine, MeantIInv
<1>5. CASE TakeOutput
  <2>1. verdict' = verdict /\ heard' = heard /\ wire' = wire /\ meant' = meant
    BY <1>5, <1>v DEF TakeOutput
  <2>2. QED
    BY <2>1 DEF MeantIInv, Between
<1>6. ASSUME NEW command \in Commands, Command(command) PROVE MeantIInv'
  <2>1. CASE command[1] = "drop"
    <3>1. verdict' = NoVerdict /\ meant' = NoMessage
      BY <1>6, <2>1 DEF Command, Initialise
    <3>2. QED
      BY <1>n, <3>1 DEF MeantIInv
  <2>2. CASE command[1] # "drop"
    <3>1. verdict' = verdict /\ heard' = heard /\ wire' = wire /\ meant' = meant
      BY <1>6, <1>v, <2>2 DEF Command
    <3>2. QED
      BY <3>1 DEF MeantIInv, Between
  <2>3. QED
    BY <2>1, <2>2
<1>7. CASE UNCHANGED vars
  <2>1. verdict' = verdict /\ heard' = heard /\ wire' = wire /\ meant' = meant
    BY <1>7, <1>v DEF vars
  <2>2. QED
    BY <2>1 DEF MeantIInv, Between
<1>8. QED
  BY <1>1, <1>2, <1>3, <1>4, <1>5, <1>6, <1>7 DEF Next

(* What the stream keeps, whatever happens to the lines on it. *)
CodecIInv == StreamIInv /\ WireInv /\ MeantIInv

LEMMA CodecInvariance == Spec => []CodecIInv
<1>1. Init => CodecIInv
  <2> SUFFICES ASSUME Init PROVE CodecIInv
    OBVIOUS
  <2>1. WireInv
    BY AssemblerStart DEF Init, WireInv
  <2>2. meant = NoMessage /\ verdict = NoVerdict
    BY DEF Init, AssemblerInit
  <2>3. MeantIInv
    BY <2>2 DEF MeantIInv, NoVerdict
  <2>4. QED
    BY <2>1, <2>3, StreamInitIInv DEF CodecIInv
<1>2. CodecIInv /\ [Next]_vars => CodecIInv'
  BY StreamNextIInv, WireStep, MeantNextIInv DEF CodecIInv
<1>3. QED
  BY <1>1, <1>2, PTL DEF Spec

(* A line nothing has spoiled is handed to the parser as it was written.   *)
LEMMA MeantIsParsed ==
  ASSUME CodecIInv, meant # NoMessage, ~Between
  PROVE  Outcome = [kind |-> "message", message |-> meant]
<1>1. /\ meant \in SentMessages /\ verdict.of = LineOf(meant)
      /\ VerdictIsOfItsLineAlone /\ verdict # NoVerdict
      /\ verdict.kind \in {"LINE", "TOO_LONG", "MALFORMED"}
  BY DEF CodecIInv, MeantIInv, WireInv, AssemblerInv, StreamIInv, Between
<1>2. /\ IsMessage(meant) /\ FieldsAreValid(meant) /\ LineOf(meant) \in Seq(32..126)
      /\ Len(LineOf(meant)) < MaximumMessageLength /\ LineOf(meant) \in Seq(Bytes)
  BY <1>1, SentLines
<1> DEFINE line == LineOf(meant)
<1> HIDE DEF line
<1>3. ~HasUnprintable(line)
  <2> DEFINE S == 32..126
  <2>1. line \in Seq(S)
    BY <1>2 DEF line
  <2> HIDE DEF S
  <2>2. \A i \in DOMAIN line : line[i] \in S
    BY <2>1
  <2>3. QED
    BY <2>2 DEF HasUnprintable, Printable, S
<1>4. ~(Len(line) >= MaximumMessageLength)
  <2> DEFINE n == Len(line)
  <2>1. n \in Nat /\ n < MaximumMessageLength
    BY <1>2 DEF line
  <2> HIDE DEF n
  <2>2. ~(n >= MaximumMessageLength)
    BY <2>1, MaximumMessageAssumption
  <2>3. QED
    BY <2>2 DEF n
<1>5. verdict.kind = "LINE" /\ verdict.line = line
  BY <1>1, <1>3, <1>4 DEF VerdictIsOfItsLineAlone, line
<1>6. Outcome = ParseLine(line)
  BY <1>5 DEF Outcome
<1>7. QED
  BY <1>2, <1>6, MessagesAreRead DEF line

(* What the peer's parser accepts is written again as a line that is read  *)
(* the same.                                                               *)
LEMMA AcceptedReencodes ==
  ASSUME CodecIInv
  PROVE  AcceptedMessagesReencode
<1> DEFINE outcome == Outcome
           message == outcome.message
           line == LineOf(message)
           heardLine == verdict.of
<1>1. SUFFICES ASSUME ~Between, outcome.kind = "message"
      PROVE  /\ Encodes(message) /\ Len(line) <= Len(heardLine)
             /\ ParseLine(line) = outcome
             /\ ExactTokens(line) = ExactTokens(heardLine)
  BY DEF AcceptedMessagesReencode, LineOf
<1>2. verdict.kind = "LINE"
  <2>1. ASSUME verdict.kind # "LINE" PROVE FALSE
    <3>1. outcome = [kind |-> "error", error |-> verdict.kind]
      BY <2>1 DEF Outcome
    <3> HIDE DEF outcome
    <3>2. QED
      BY <1>1, <3>1
  <2>2. QED
    BY <2>1
<1>3. outcome = ParseLine(verdict.line)
  BY <1>2 DEF Outcome
<1>4. verdict.line = heardLine /\ ~(Len(heardLine) >= MaximumMessageLength)
  BY <1>1, <1>2 DEF CodecIInv, WireInv, AssemblerInv, VerdictIsOfItsLineAlone, Between
<1>5. heardLine \in Seq(Bytes)
  BY DEF CodecIInv, MeantIInv
<1> HIDE DEF heardLine
<1>6. heardLine \in Seq(Nat) /\ Len(heardLine) < MaximumLineLength
  <2>1. Bytes \subseteq Nat
    BY DEF Bytes
  <2>2. heardLine \in Seq(Nat)
    BY <1>5, <2>1, SequenceOfSubset
  <2> DEFINE n == Len(heardLine)
  <2>3. n \in Nat
    BY <2>2
  <2> HIDE DEF n
  <2>4. n < MaximumLineLength
    BY <1>4, <2>3, MaximumMessageAssumption, StreamAssumption DEF n
  <2>5. QED
    BY <2>2, <2>4 DEF n
<1>7. outcome = ParseLine(heardLine) /\ ParseLine(heardLine).kind = "message"
  BY <1>1, <1>3, <1>4
<1> HIDE DEF outcome
<1>8. /\ Encodes(message) /\ Len(line) <= Len(heardLine) /\ ParseLine(line) = outcome
      /\ \A token : NameIn(token) # Spelling["payload"] =>
           (token \in TokensOf(line) <=> token \in TokensOf(heardLine))
  BY <1>6, <1>7, AcceptedIsWrittenAgain
<1> HIDE DEF line
<1>9. ExactTokens(line) = ExactTokens(heardLine)
  BY <1>8 DEF ExactTokens, TokensOf
<1>10. QED
  BY <1>8, <1>9

(* A line nothing has spoiled is received as the message it was sent as    *)
(* (remote_protocol_encode, remote_protocol_feed_byte), whatever the       *)
(* spellings, the bounds and the messages, and whatever was cut, garbled   *)
(* or too long before it.                                                  *)
THEOREM MessagesDoSurvive == Spec => MessagesSurvive
<1>1. CodecIInv /\ [Next]_vars =>
        [meant # NoMessage /\ HandleLine =>
           Outcome = [kind |-> "message", message |-> meant]]_vars
  <2> SUFFICES ASSUME CodecIInv, meant # NoMessage, HandleLine
      PROVE  Outcome = [kind |-> "message", message |-> meant]
    OBVIOUS
  <2>1. ~Between
    BY DEF HandleLine
  <2>2. QED
    BY <2>1, MeantIsParsed
<1>2. QED
  BY <1>1, CodecInvariance, PTL DEF Spec, MessagesSurvive

(* "Every message the parser accepts is re-encoded and re-parsed, and must *)
(* come back identical" (fuzz_remote_protocol.c): so it does, whatever     *)
(* reached the parser, and in no more bytes.                               *)
THEOREM AcceptedMessagesDoReencode == Spec => []AcceptedMessagesReencode
<1>1. CodecIInv => AcceptedMessagesReencode
  BY AcceptedReencodes
<1>2. QED
  BY <1>1, CodecInvariance, PTL
=============================================================================
