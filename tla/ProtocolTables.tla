---------------------------- MODULE ProtocolTables ----------------------------
(***************************************************************************)
(* protocol/remote_protocol_tables.c and .h: the verbs, their fields and   *)
(* the fields' bounds, which the parser and the encoder are driven by.     *)
(*                                                                         *)
(* The numeric bounds are constants, and so is how a word of the tables is *)
(* spelled in bytes: the codec only compares spellings and counts them.    *)
(***************************************************************************)
EXTENDS Naturals, Sequences

CONSTANTS MaximumProtocolVersion,  \* 65535
          MaximumTokenLength,      \* 32
          MaximumPayloadLength,    \* 256
          MaximumDelivered,        \* 9999
          Spelling                 \* of every word of the tables, in bytes

ProtocolVersion == 1

EnumerationNames == {"event", "status", "page", "error"}

EnumerationValues ==
    [event |-> <<"CENTER_SHORT", "CENTER_LONG", "LEFT_SHORT", "RIGHT_SHORT">>,
     status |-> <<"READY", "PRESENTING", "GUEST_CONNECTED", "TERMINATING",
                  "RECOVERY_REQUIRED">>,
     page |-> <<"NONE", "WIFI", "GUEST">>,
     error |-> <<"NONE", "BAD_VERSION", "NO_HELLO", "MALFORMED", "BAD_VERB",
                 "BAD_FIELD", "NO_FIELD", "BAD_VALUE", "TOO_LONG",
                 "RATE_LIMIT", "GUARD", "ACTIVE", "NO_SESSION", "BAD_STATE",
                 "NOT_ALLOWED", "START_FAIL", "END_FAIL">>]

(* A descriptor: the bounds of an integer, the length of a token or text.  *)
(* An enumeration is named as its field is.                                *)
Field(name, type, minimum, maximum) ==
    [name |-> name, type |-> type, minimum |-> minimum, maximum |-> maximum]

IntegerField(name, minimum, maximum) == Field(name, "integer", minimum, maximum)

BooleanField(name) == Field(name, "boolean", 0, 1)

EnumerationField(name) ==
    Field(name, "enumeration", 0, Len(EnumerationValues[name]) - 1)

TokenField(name, length) == Field(name, "token", 1, length)

TextField(name, length) == Field(name, "text", 0, length)

Verbs == {"HELLO", "BUTTON", "STATE", "DISPLAY"}

FieldsOf == [verb \in Verbs |->
    CASE verb = "HELLO" ->
           <<IntegerField("version", 1, MaximumProtocolVersion),
             TokenField("peripheral", MaximumTokenLength),
             BooleanField("locked")>>
      [] verb = "BUTTON" ->
           <<EnumerationField("event"), BooleanField("foregrounded"),
             BooleanField("unlocked")>>
      [] verb = "STATE" -> <<BooleanField("locked")>>
      [] verb = "DISPLAY" ->
           <<EnumerationField("status"), EnumerationField("page"),
             TextField("payload", MaximumPayloadLength),
             IntegerField("delivered", 0, MaximumDelivered),
             EnumerationField("error")>>]

(* REMOTE_PROTOCOL_MAX_TEXT_LENGTH: what a value's buffer holds.           *)
MaximumTextLength ==
    IF MaximumTokenLength > MaximumPayloadLength THEN MaximumTokenLength
    ELSE MaximumPayloadLength

TableWords ==
    Verbs
    \cup (UNION {{FieldsOf[verb][i].name : i \in DOMAIN FieldsOf[verb]} :
                 verb \in Verbs})
    \cup (UNION {{EnumerationValues[name][i] : i \in DOMAIN EnumerationValues[name]} :
                 name \in EnumerationNames})

(* Words are told apart by their spelling, and none holds a separator.     *)
ASSUME SpellingAssumption ==
    /\ DOMAIN Spelling = TableWords
    /\ \A word \in TableWords :
         /\ Spelling[word] \in Seq(33..126) /\ Spelling[word] # <<>>
         /\ \A i \in DOMAIN Spelling[word] : Spelling[word][i] # 61
         /\ \A other \in TableWords :
              Spelling[other] = Spelling[word] => other = word

ASSUME BoundsAssumption ==
    /\ {MaximumProtocolVersion, MaximumTokenLength, MaximumDelivered} \subseteq Nat \ {0}
    /\ MaximumPayloadLength \in Nat
=============================================================================
