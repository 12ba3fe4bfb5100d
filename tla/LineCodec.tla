------------------------------ MODULE LineCodec ------------------------------
(***************************************************************************)
(* protocol/remote_protocol.c: the encoder from a message to a line, and   *)
(* the parser from a line, its terminator apart, to a message or to the    *)
(* error it is refused with.  Bytes are their ASCII codes.                 *)
(***************************************************************************)
EXTENDS ProtocolTables, SequencesExt

CONSTANTS MaximumLineLength,     \* 512, the terminator included
          MaximumIntegerDigits,  \* 10
          MaximumUnsigned        \* 2^32 - 1

ASSUME CodecAssumption ==
    /\ MaximumLineLength \in Nat \ {0}
    /\ MaximumIntegerDigits \in Nat \ {0} /\ MaximumUnsigned \in Nat \ {0}
    /\ {MaximumProtocolVersion, MaximumDelivered} \subseteq 0..MaximumUnsigned

FieldSeparator == 32
NameValueSeparator == 61
EscapeByte == 37
LineTerminator == 10

PrintableBytes == 32..126

Unreserved == (65..90) \cup (97..122) \cup (48..57) \cup {45, 46, 95, 126}

TokenCharacters == (97..122) \cup (48..57) \cup {45}

IsText(field) == field.type \in {"token", "text"}

(* RemoteProtocolFieldValue: numbers and indexes in one half, text in the  *)
(* other.                                                                  *)
Number(n) == [integer |-> n, text |-> <<>>]

Text(bytes) == [integer |-> 0, text |-> bytes]

Message(verb, fields) == [verb |-> verb, fields |-> fields]

(* A message as it is initialised and set: every field of its verb, in the *)
(* half that the field's type uses.                                        *)
IsMessage(message) ==
    LET fields == FieldsOf[message.verb]
    IN  /\ message.verb \in Verbs
        /\ message = Message(message.verb, [i \in DOMAIN fields |-> message.fields[i]])
        /\ \A i \in DOMAIN fields :
             message.fields[i] \in
               IF IsText(fields[i]) THEN [integer : {0}, text : Seq(Nat)]
               ELSE [integer : Nat, text : {<<>>}]

(* text_is_valid and integer_is_valid, which the setter, the encoder and   *)
(* the parser share.                                                       *)
IsValid(field, value) ==
    IF IsText(field)
    THEN /\ Len(value.text) \in field.minimum..field.maximum
         /\ ToSet(value.text) \subseteq
              IF field.type = "token" THEN TokenCharacters ELSE PrintableBytes
    ELSE value.integer \in field.minimum..field.maximum

-----------------------------------------------------------------------------
(* The encoder. *)

HexadecimalDigit(n) == IF n < 10 THEN 48 + n ELSE 55 + n

Escaped(byte) ==
    <<EscapeByte, HexadecimalDigit(byte \div 16), HexadecimalDigit(byte % 16)>>

(* Mutant: the escape is left as it is. *)
PlainOrEscape(byte) ==
    IF byte \in Unreserved \cup {EscapeByte} THEN <<byte>> ELSE Escaped(byte)

EncodedByte(byte) == IF byte \in Unreserved THEN <<byte>> ELSE Escaped(byte)

PercentEncoded(bytes) == FlattenSeq([i \in DOMAIN bytes |-> EncodedByte(bytes[i])])

Decimal[n \in Nat] ==
    IF n < 10 THEN <<48 + n>> ELSE Append(Decimal[n \div 10], 48 + (n % 10))

(* The digits of the largest number are as many as any may have. *)
ASSUME DigitsAssumption == Len(Decimal[MaximumUnsigned]) <= MaximumIntegerDigits

EncodedValue(field, value) ==
    CASE field.type \in {"integer", "boolean"} -> Decimal[value.integer]
      [] field.type = "enumeration" ->
           Spelling[EnumerationValues[field.name][value.integer + 1]]
      [] field.type = "token" -> value.text
      [] field.type = "text" -> PercentEncoded(value.text)

EncodedLine(message) ==
    LET fields == FieldsOf[message.verb]
    IN  Spelling[message.verb]
        \o FlattenSeq([i \in DOMAIN fields |->
             <<FieldSeparator>> \o Spelling[fields[i].name]
             \o <<NameValueSeparator>> \o EncodedValue(fields[i], message.fields[i])])
        \o <<LineTerminator>>

FieldsAreValid(message) ==
    \A i \in DOMAIN FieldsOf[message.verb] :
        IsValid(FieldsOf[message.verb][i], message.fields[i])

(* Whether remote_protocol_encode succeeds: every value within its field's *)
(* bounds, and the line within the message's.                              *)
Encodes(message) ==
    FieldsAreValid(message) /\ Len(EncodedLine(message)) <= MaximumLineLength
-----------------------------------------------------------------------------
(* The parser. *)

Refused(error) == [error |-> error, value |-> Number(0)]

Accepted(field, value) ==
    [error |-> IF IsValid(field, value) THEN "NONE" ELSE "BAD_VALUE",
     value |-> value]

HexadecimalValue(byte) ==
    CASE byte \in 48..57 -> byte - 48
      [] byte \in 65..70 -> byte - 55
      [] OTHER -> 16

(* One byte of a text: plain, or part of an escape begun before it.  A     *)
(* decoded byte must print, and must fit the value's buffer.               *)
DecodeByte(scan, byte) ==
    LET pending == Append(scan.escape, byte)
        add(decoded) ==
            IF decoded \notin PrintableBytes THEN [scan EXCEPT !.error = "MALFORMED"]
            ELSE IF Len(scan.text) >= MaximumTextLength
              THEN [scan EXCEPT !.error = "BAD_VALUE"]
            ELSE [scan EXCEPT !.text = Append(@, decoded), !.escape = <<>>]
    IN  IF scan.error # "NONE" THEN scan
        ELSE IF scan.escape # <<>> \/ byte = EscapeByte
          THEN IF Len(pending) < 3 THEN [scan EXCEPT !.escape = pending]
               ELSE IF 16 \in {HexadecimalValue(pending[2]), HexadecimalValue(pending[3])}
                 THEN [scan EXCEPT !.error = "MALFORMED"]
               ELSE add(16 * HexadecimalValue(pending[2]) + HexadecimalValue(pending[3]))
        ELSE IF byte \notin Unreserved THEN [scan EXCEPT !.error = "MALFORMED"]
        ELSE add(byte)

DecodedText(field, raw) ==
    LET scans[i \in 0..Len(raw)] ==
            IF i = 0 THEN [error |-> "NONE", text |-> <<>>, escape |-> <<>>]
            ELSE DecodeByte(scans[i - 1], raw[i])
        scan == scans[Len(raw)]
    IN  IF scan.error # "NONE" THEN Refused(scan.error)
        ELSE IF scan.escape # <<>> THEN Refused("MALFORMED")
        ELSE Accepted(field, Text(scan.text))

(* Mutant: a leading zero is read over. *)
SpelledOnceLoosely(raw) == Len(raw) \in 1..MaximumIntegerDigits

(* One spelling per number: no leading zero but zero itself.               *)
SpelledOnce(raw) ==
    Len(raw) \in 1..MaximumIntegerDigits /\ (raw[1] = 48 => Len(raw) = 1)

(* The guard keeps the sum within the unsigned range before it is made.    *)
DecodeDigit(scan, byte) ==
    LET digit == byte - 48
    IN  IF \/ scan.error # "NONE"
           \/ byte \notin 48..57
           \/ scan.number > (MaximumUnsigned - digit) \div 10
        THEN [scan EXCEPT !.error = "BAD_VALUE"]
        ELSE [scan EXCEPT !.number = 10 * @ + digit]

DecodedUnsigned(field, raw) ==
    LET scans[i \in 0..Len(raw)] ==
            IF i = 0 THEN [error |-> "NONE", number |-> 0]
            ELSE DecodeDigit(scans[i - 1], raw[i])
        scan == scans[Len(raw)]
    IN  IF ~SpelledOnce(raw) \/ scan.error # "NONE" THEN Refused("BAD_VALUE")
        ELSE Accepted(field, Number(scan.number))

DecodedEnumeration(field, raw) ==
    LET values == EnumerationValues[field.name]
        index == SelectInSeq(values, LAMBDA word : Spelling[word] = raw)
    IN  IF index = 0 THEN Refused("BAD_VALUE") ELSE Accepted(field, Number(index - 1))

DecodedValue(field, raw) ==
    CASE field.type \in {"integer", "boolean"} -> DecodedUnsigned(field, raw)
      [] field.type = "enumeration" -> DecodedEnumeration(field, raw)
      [] field.type = "token" -> Accepted(field, Text(raw))
      [] field.type = "text" -> DecodedText(field, raw)

(* No empty token: no leading, trailing or doubled separator.              *)
WellStructured(line) ==
    /\ line # <<>>
    /\ ToSet(line) \subseteq PrintableBytes
    /\ \A i \in DOMAIN line : line[i] = FieldSeparator =>
           i \notin {1, Len(line)} /\ line[i + 1] # FieldSeparator

(* token_end, of the token that starts here; and the token.               *)
TokenEnd(line, start) ==
    Min({i \in start..(Len(line) + 1) :
           i = Len(line) + 1 \/ line[i] = FieldSeparator})

TokenAt(line, start) == SubSeq(line, start, TokenEnd(line, start) - 1)

(* Where the tokens after the verb start. *)
FieldStarts(line) == {i \in 2..Len(line) : line[i - 1] = FieldSeparator}

(* A token's name and value, cut at its first "="; 0 where there is none.  *)
EqualsIn(token) == SelectInSeq(token, LAMBDA byte : byte = NameValueSeparator)

NameIn(token) == SubSeq(token, 1, EqualsIn(token) - 1)

ValueIn(token) == SubSeq(token, EqualsIn(token) + 1, Len(token))

FieldIndex(verb, token) ==
    SelectInSeq(FieldsOf[verb], LAMBDA field : Spelling[field.name] = NameIn(token))

(* Where a line gives the index-th of its verb's fields. *)
Giving(verb, line, index) ==
    {start \in FieldStarts(line) : FieldIndex(verb, TokenAt(line, start)) = index}

(* What the field given here is refused for, in the order tried.           *)
FieldError(verb, line, start) ==
    LET token == TokenAt(line, start)
        index == FieldIndex(verb, token)
    IN  IF EqualsIn(token) <= 1 THEN "MALFORMED"
        ELSE IF index = 0 THEN "BAD_FIELD"
        ELSE IF \E earlier \in Giving(verb, line, index) : earlier < start
          THEN "BAD_FIELD"
        ELSE DecodedValue(FieldsOf[verb][index], ValueIn(token)).error

(* remote_protocol_parse_line: the first error met decides.                *)
ParseFields(verb, line) ==
    LET failing == {start \in FieldStarts(line) : FieldError(verb, line, start) # "NONE"}
        given(index) == TokenAt(line, CHOOSE start \in Giving(verb, line, index) : TRUE)
    IN  IF failing # {}
          THEN [kind |-> "error", error |-> FieldError(verb, line, Min(failing))]
        ELSE IF \E index \in DOMAIN FieldsOf[verb] : Giving(verb, line, index) = {}
          THEN [kind |-> "error", error |-> "NO_FIELD"]
        ELSE [kind |-> "message",
              message |-> Message(verb, [index \in DOMAIN FieldsOf[verb] |->
                  DecodedValue(FieldsOf[verb][index], ValueIn(given(index))).value])]

ParseLine(line) ==
    LET verbs == {verb \in Verbs : Spelling[verb] = TokenAt(line, 1)}
    IN  IF ~WellStructured(line) THEN [kind |-> "error", error |-> "MALFORMED"]
        ELSE IF verbs = {} THEN [kind |-> "error", error |-> "BAD_VERB"]
        ELSE ParseFields(CHOOSE verb \in verbs : TRUE, line)
=============================================================================
