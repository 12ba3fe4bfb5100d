---------------------------- MODULE MCPeerStream ----------------------------
(* PeerStream with a table whose words are spelled in one byte each, a     *)
(* DISPLAY line that only just fits with one escape in it, and texts on    *)
(* either side of every bound.                                             *)
EXTENDS PeerStream

Words ==
    <<"HELLO", "BUTTON", "STATE", "DISPLAY", "version", "peripheral", "locked",
      "event", "foregrounded", "unlocked", "status", "page", "payload",
      "delivered", "error">>
    \o EnumerationValues["event"] \o EnumerationValues["status"]
    \o <<"WIFI", "GUEST">> \o EnumerationValues["error"]

(* From "@" on, as many as there are words; none is a separator. *)
MCSpelling == [word \in ToSet(Words) |->
    <<63 + SelectInSeq(Words, LAMBDA other : other = word)>>]

MCHello == Message("HELLO", <<Number(1), Text(<<97>>), Number(0)>>)

MCButton == Message("BUTTON", <<Number(0), Number(1), Number(1)>>)

MCState == Message("STATE", <<Number(1)>>)

MCDisplay == Message("DISPLAY",
    <<Number(1), Number(1), Text(<<37>>), Number(0), Number(10)>>)

MCMessages == {MCHello, MCButton, MCState, MCDisplay}

(* An escape, a zero, an unprintable byte and a terminator. *)
MCSpoilingBytes == {37, 48, 7, 10}

MCPayloadText ==
    [none |-> <<>>, wifi |-> <<97>>, guest |-> <<58>>, wide |-> <<58, 58>>,
     bad |-> <<7>>]

MCCommands ==
    {<<"demo", "on">>, <<"wifi", "wide">>, <<"presenting", "WIFI">>, <<"drop">>}

MCPressMessages == {MCHello, MCButton}

MCDemoCommands == {<<"demo", "on">>, <<"wifi", "wide">>}
=============================================================================
