---------------------------- MODULE LineAssembler ----------------------------
(***************************************************************************)
(* remote_protocol_feed_byte of protocol/remote_protocol.c: the byte at a  *)
(* time assembler that turns what arrives into lines.  What it does with a *)
(* line that is neither too long nor unprintable (the parser, LineCodec)   *)
(* is its user's business: it ends here with the verdict "LINE".           *)
(***************************************************************************)
EXTENDS Naturals, Sequences

CONSTANT MaximumMessageLength  \* 512: bytes of a line, terminator included

ASSUME MaximumMessageAssumption == MaximumMessageLength \in Nat \ {0}

Bytes == 0..255

Terminator == 10

Printable == 32..126

VARIABLES assembler,  \* RemoteProtocolLineAssembler
          heard,      \* the bytes since the last terminator (history)
          verdict     \* what the last byte ended: no line, or one refused
                      \* or handed on, with the line itself

assemblerVars == <<assembler, heard, verdict>>

Assemblers == [line : Seq(Bytes), overlong : BOOLEAN, unprintable : BOOLEAN]

EmptyAssembler == [line |-> <<>>, overlong |-> FALSE, unprintable |-> FALSE]

(* Mutant: the terminator is not counted towards the bound. *)
KeepOneMore(a, byte) ==
    IF Len(a.line) >= MaximumMessageLength
    THEN [a EXCEPT !.overlong = TRUE]
    ELSE [a EXCEPT !.unprintable = @ \/ byte \notin Printable,
                   !.line = Append(@, byte)]

(* A byte that ends no line.  The terminator counts towards the bound, so  *)
(* the line holds one byte fewer; past that nothing is kept.               *)
Keep(a, byte) ==
    IF Len(a.line) + 1 >= MaximumMessageLength
    THEN [a EXCEPT !.overlong = TRUE]
    ELSE [a EXCEPT !.unprintable = @ \/ byte \notin Printable,
                   !.line = Append(@, byte)]

(* What the line that ends here is refused for, before it is parsed. *)
Verdict(a) ==
    IF a.overlong THEN "TOO_LONG"
    ELSE IF a.unprintable THEN "MALFORMED"
    ELSE "LINE"

NoVerdict == [kind |-> "INCOMPLETE", line |-> <<>>, of |-> <<>>]

(* Mutant: the flags of a refused line stay for the next. *)
ResetKeepingFlags(a) == [a EXCEPT !.line = <<>>]

(* The assembler is ready for the next line whatever became of this one.   *)
Reset(a) == EmptyAssembler

FeedByte(byte) ==
    IF byte # Terminator
    THEN /\ assembler' = Keep(assembler, byte)
         /\ heard' = Append(heard, byte)
         /\ verdict' = NoVerdict
    ELSE /\ verdict' = [kind |-> Verdict(assembler),
                        line |-> assembler.line, of |-> heard]
         /\ assembler' = Reset(assembler)
         /\ heard' = <<>>

(* remote_protocol_line_assembler_initialise, at a link's end.             *)
Initialise ==
    /\ assembler' = EmptyAssembler
    /\ heard' = <<>>
    /\ verdict' = NoVerdict

AssemblerInit ==
    /\ assembler = EmptyAssembler
    /\ heard = <<>>
    /\ verdict = NoVerdict

AssemblerNext == (\E byte \in Bytes : FeedByte(byte)) \/ Initialise

AssemblerSpec == AssemblerInit /\ [][AssemblerNext]_assemblerVars
-----------------------------------------------------------------------------
(***************************************************************************)
(* Properties.                                                             *)
(***************************************************************************)

HasUnprintable(bytes) == \E i \in DOMAIN bytes : bytes[i] \notin Printable

(* The line held is what arrived since the last terminator, as much of it  *)
(* as fits, and the flags say what did not fit and what did not print.     *)
HoldsWhatArrived ==
    /\ assembler \in Assemblers
    /\ heard \in Seq(Bytes)
    /\ Len(assembler.line) < MaximumMessageLength
    /\ IF assembler.overlong
       THEN /\ Len(heard) >= MaximumMessageLength
            /\ Len(assembler.line) + 1 = MaximumMessageLength
       ELSE /\ assembler.line = heard
            /\ assembler.unprintable <=> HasUnprintable(heard)

(* A verdict is of the bytes between two terminators and of nothing else:  *)
(* the line handed to the parser is exactly what arrived, a line is too    *)
(* long exactly when it does not fit the bound with its terminator, and    *)
(* garbage of any length costs one refusal and never the line after it     *)
(* ("the next byte starts a new line", remote_protocol.h).                 *)
VerdictIsOfItsLineAlone ==
    \/ verdict = NoVerdict
    \/ /\ verdict.kind = "TOO_LONG" <=> Len(verdict.of) >= MaximumMessageLength
       /\ verdict.kind = "MALFORMED" <=>
              /\ Len(verdict.of) < MaximumMessageLength
              /\ HasUnprintable(verdict.of)
       /\ verdict.kind = "LINE" => verdict.line = verdict.of
=============================================================================
