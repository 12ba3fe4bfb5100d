---------------------------- MODULE PanelProofs ----------------------------
(***************************************************************************)
(* The panel under the refresher, for every geometry of the panel and every*)
(* table of regions that are byte aligned, on the panel and apart.         *)
(*                                                                         *)
(* First the composed loop is the refresher's, and its theorems hold.      *)
(* Then what the controller makes of the streams: a stream is known by the *)
(* data it sends last with each command (Tells); those set the registers;  *)
(* the registers bound a window (Bounds) that the data sent with 0x24 fill *)
(* exactly, each byte in its own cell (WindowIsFilled).  So a full pass    *)
(* leaves the frame in the memory (FullObeyed), a partial one the frame in *)
(* its rectangle and the rest as it was (PartialObeyed), and the           *)
(* controller stays the refresher's panel, byte for byte (PanelIInv).      *)
(***************************************************************************)
EXTENDS Panel, DisplayRefresherProofs, SequenceTheorems

(* Without its controller, every behaviour of the panel's loop is one of   *)
(* the refresher's: display_refresher.c is not held up by panel.c.         *)
THEOREM PanelRefinesRefresher == PanelSpec => Spec
<1>1. PanelInit => Init
    BY DEF PanelInit
<1>2. [PanelNext]_panel_vars => [Next]_vars
  <2>1. ASSUME NEW long \in BOOLEAN, NEW says \in Views, PanelRound(long, says)
        PROVE  Next
      BY <2>1 DEF PanelRound, Next
  <2>2. PassEnds => Next
      BY DEF PassEnds, Next
  <2>3. UNCHANGED panel_vars => UNCHANGED vars
      BY DEF panel_vars
  <2> QED BY <2>1, <2>2, <2>3 DEF PanelNext
<1> QED BY <1>1, <1>2, PTL DEF PanelSpec, Spec

(* No command is sent to a controller that still refreshes. *)
THEOREM PanelIsSentNothingWhileBusy == PanelSpec => []PanelIsNeverInterrupted
BY PanelRefinesRefresher, PanelIsLeftAlone, PTL

(* At rest the whole glass shows the picture of one state. *)
THEOREM PanelShowsOneState == PanelSpec => []GlassShowsOneState
BY PanelRefinesRefresher, GlassIsWhole, PTL
-----------------------------------------------------------------------------
(* Arithmetic of bytes and rows. *)

(* Numbers of two digits, the lower below the base: the digits are what    *)
(* division leaves. *)
LEMMA RowDigits ==
  ASSUME NEW w \in Nat \ {0}, NEW x \in 0..(w - 1), NEW y \in Nat
  PROVE  /\ (y * w + x) % w = x
         /\ (y * w + x) \div w = y
<1> DEFINE n == y * w + x
           q == n \div w
           r == n % w
<1>1. n \in Nat
  OBVIOUS
<1> HIDE DEF n
<1>2. q \in Nat /\ r \in 0..(w - 1) /\ n = w * q + r
  BY <1>1
<1> HIDE DEF q, r
<1>3. w * q + r = w * y + x
  BY <1>2 DEF n
<1>4. ~ q >= y + 1
  <2>1. SUFFICES ASSUME q >= y + 1 PROVE FALSE
    OBVIOUS
  <2>2. w * q >= w * (y + 1)
    BY <1>2, <2>1
  <2>3. w * (y + 1) = w * y + w
    OBVIOUS
  <2>4. QED
    BY <1>2, <1>3, <2>2, <2>3
<1>5. ~ y >= q + 1
  <2>1. SUFFICES ASSUME y >= q + 1 PROVE FALSE
    OBVIOUS
  <2>2. w * y >= w * (q + 1)
    BY <1>2, <2>1
  <2>3. w * (q + 1) = w * q + w
    BY <1>2
  <2>4. QED
    BY <1>2, <1>3, <2>2, <2>3
<1>6. q = y
  BY <1>2, <1>4, <1>5
<1>7. r = x
  BY <1>2, <1>3, <1>6
<1>8. QED
  BY <1>6, <1>7 DEF q, r, n

(* The two digits of a number below a product. *)
LEMMA DigitsWithin ==
  ASSUME NEW w \in Nat \ {0}, NEW h \in Nat, NEW n \in 0..(w * h - 1)
  PROVE  n % w \in 0..(w - 1) /\ n \div w \in 0..(h - 1) /\ n = (n \div w) * w + (n % w)
<1> DEFINE q == n \div w
           r == n % w
           size == w * h
<1>1. n \in Nat /\ size \in Nat /\ n < size
  OBVIOUS
<1>2. q \in Nat /\ r \in 0..(w - 1) /\ n = w * q + r
  BY <1>1
<1> HIDE DEF q, r
<1>3. ~ q >= h
  <2>1. SUFFICES ASSUME q >= h PROVE FALSE
    OBVIOUS
  <2>2. w * q >= w * h
    BY <1>2, <2>1
  <2>3. w * q \in Nat
    BY <1>2
  <2> DEFINE k == w * q
  <2>4. k \in Nat /\ k >= size /\ n = k + r
    BY <1>2, <2>2, <2>3
  <2> HIDE DEF k, size
  <2>5. QED
    BY <1>1, <1>2, <2>4
<1>4. w * q = q * w
  BY <1>2
<1>5. QED
  BY <1>2, <1>3, <1>4 DEF q, r

(* Of two numbers of two digits the smaller has the smaller first digit,   *)
(* or the same and the smaller second.                                     *)
LEMMA DigitsOrdered ==
  ASSUME NEW w \in Nat \ {0}, NEW i \in 0..(w - 1), NEW k \in 0..(w - 1),
         NEW j \in Nat, NEW l \in Nat
  PROVE  j * w + i < l * w + k <=> j < l \/ (j = l /\ i < k)
<1> DEFINE a == j * w
           b == l * w
<1>1. a \in Nat /\ b \in Nat
  OBVIOUS
<1>2. ASSUME j < l PROVE a + w <= b
  <2>1. l >= j + 1
    BY <1>2
  <2>2. w * l >= w * (j + 1)
    BY <2>1
  <2>3. w * (j + 1) = j * w + w /\ w * l = l * w
    OBVIOUS
  <2>4. QED
    BY <2>2, <2>3
<1>3. ASSUME l < j PROVE b + w <= a
  <2>1. j >= l + 1
    BY <1>3
  <2>2. w * j >= w * (l + 1)
    BY <2>1
  <2>3. w * (l + 1) = l * w + w /\ w * j = j * w
    OBVIOUS
  <2>4. QED
    BY <2>2, <2>3
<1>4. j = l => a = b
  OBVIOUS
<1> HIDE DEF a, b
<1>5. a + i < b + k <=> j < l \/ (j = l /\ i < k)
  BY <1>1, <1>2, <1>3, <1>4
<1>6. QED
  BY <1>5 DEF a, b

-----------------------------------------------------------------------------
(* Streams. *)

IsStream(stream) == \E S : stream \in Seq(S)

(* The stream sends the command, and these data are the last it sends it   *)
(* with.                                                                   *)
Sends(stream, code, data) ==
    \E position \in DOMAIN stream :
        /\ stream[position].code = code
        /\ stream[position].data = data
        /\ \A other \in DOMAIN stream :
              stream[other].code = code => other <= position

(* The stream does not send the command. *)
Spares(stream, code) ==
    \A position \in DOMAIN stream : stream[position].code # code

(* One command is a stream of that command. *)
LEMMA CommandSends ==
  ASSUME NEW code, NEW data
  PROVE  /\ IsStream(Command(code, data))
         /\ Sends(Command(code, data), code, data)
         /\ \A other : other # code => Spares(Command(code, data), other)
<1> DEFINE c == [code |-> code, data |-> data]
           s == <<c>>
<1>1. c.code = code /\ c.data = data
  OBVIOUS
<1>2. Command(code, data) = s
  BY DEF Command
<1> HIDE DEF c
<1>3. s \in Seq({c}) /\ DOMAIN s = {1} /\ s[1] = c
  OBVIOUS
<1> HIDE DEF s
<1>4. IsStream(s)
  BY <1>3 DEF IsStream
<1>5. Sends(s, code, data)
  BY <1>1, <1>3 DEF Sends
<1>6. \A other : other # code => Spares(s, other)
  BY <1>1, <1>3 DEF Spares
<1>7. QED
  BY <1>2, <1>4, <1>5, <1>6

(* Of two streams one after the other, the second has the last word. *)
LEMMA JoinedStreams ==
  ASSUME NEW s, NEW t, IsStream(s), IsStream(t)
  PROVE  /\ IsStream(s \o t)
         /\ \A code, data : Sends(t, code, data) => Sends(s \o t, code, data)
         /\ \A code, data : Sends(s, code, data) /\ Spares(t, code)
                              => Sends(s \o t, code, data)
         /\ \A code : Spares(s, code) /\ Spares(t, code) => Spares(s \o t, code)
<1>1. PICK S : s \in Seq(S)
  BY DEF IsStream
<1>2. PICK T : t \in Seq(T)
  BY DEF IsStream
<1> DEFINE U == S \cup T
           u == s \o t
<1>3. s \in Seq(U) /\ t \in Seq(U)
  BY <1>1, <1>2
<1> HIDE DEF U
<1>4. /\ u \in Seq(U) /\ Len(s) \in Nat /\ Len(t) \in Nat
      /\ DOMAIN s = 1..Len(s) /\ DOMAIN t = 1..Len(t)
      /\ DOMAIN u = 1..(Len(s) + Len(t))
      /\ \A i \in 1..Len(s) : u[i] = s[i]
      /\ \A i \in 1..Len(t) : u[Len(s) + i] = t[i]
  BY <1>3
<1> HIDE DEF u
<1>5. \A i \in DOMAIN u : i \in 1..Len(s) \/ i - Len(s) \in 1..Len(t)
  BY <1>4
<1>6. \A i \in DOMAIN u : i \notin 1..Len(s) => u[i] = t[i - Len(s)] /\ i > Len(s)
  <2> SUFFICES ASSUME NEW i \in DOMAIN u, i \notin 1..Len(s)
               PROVE  u[i] = t[i - Len(s)] /\ i > Len(s)
    OBVIOUS
  <2>1. i - Len(s) \in 1..Len(t) /\ i = Len(s) + (i - Len(s)) /\ i > Len(s)
    BY <1>4, <1>5
  <2>2. QED
    BY <1>4, <2>1
<1>7. IsStream(u)
  BY <1>4 DEF IsStream
<1>8. ASSUME NEW code, NEW data, Sends(t, code, data)
      PROVE  Sends(u, code, data)
  <2>1. PICK p \in 1..Len(t) : /\ t[p].code = code /\ t[p].data = data
                               /\ \A q \in 1..Len(t) : t[q].code = code => q <= p
    BY <1>4, <1>8 DEF Sends
  <2>2. /\ Len(s) + p \in DOMAIN u
        /\ u[Len(s) + p] = t[p]
    BY <1>4
  <2>3. ASSUME NEW q \in DOMAIN u, u[q].code = code PROVE q <= Len(s) + p
    <3>1. CASE q \in 1..Len(s)
      BY <1>4, <3>1
    <3>2. CASE q \notin 1..Len(s)
      <4>1. q - Len(s) \in 1..Len(t) /\ u[q] = t[q - Len(s)]
        BY <1>5, <1>6, <3>2
      <4>2. q - Len(s) <= p
        BY <2>1, <2>3, <4>1
      <4>3. QED
        BY <1>4, <4>2
    <3>3. QED
      BY <3>1, <3>2
  <2>4. QED
    BY <2>1, <2>2, <2>3 DEF Sends
<1>9. ASSUME NEW code, NEW data, Sends(s, code, data), Spares(t, code)
      PROVE  Sends(u, code, data)
  <2>1. PICK p \in 1..Len(s) : /\ s[p].code = code /\ s[p].data = data
                               /\ \A q \in 1..Len(s) : s[q].code = code => q <= p
    BY <1>4, <1>9 DEF Sends
  <2>2. p \in DOMAIN u /\ u[p] = s[p]
    BY <1>4
  <2>3. ASSUME NEW q \in DOMAIN u, u[q].code = code PROVE q <= p
    <3>1. q \in 1..Len(s)
      BY <1>4, <1>5, <1>6, <1>9, <2>3 DEF Spares
    <3>2. QED
      BY <1>4, <2>1, <2>3, <3>1
  <2>4. QED
    BY <2>1, <2>2, <2>3 DEF Sends
<1>10. ASSUME NEW code, Spares(s, code), Spares(t, code)
       PROVE  Spares(u, code)
  BY <1>4, <1>5, <1>6, <1>10 DEF Spares
<1>11. QED
  BY <1>7, <1>8, <1>9, <1>10 DEF u

(* A register that is sent takes the last data sent to it; one that is not *)
(* keeps what it had.                                                      *)
LEMMA RegistersAfter ==
  ASSUME NEW before, NEW stream, IsStream(stream), NEW code \in DOMAIN before
  PROVE  /\ \A data : Sends(stream, code, data)
                        => Registers(before, stream)[code] = data
         /\ Spares(stream, code)
              => Registers(before, stream)[code] = before[code]
<1>1. ASSUME NEW data, Sends(stream, code, data)
      PROVE  Registers(before, stream)[code] = data
  <2> DEFINE sent == {position \in DOMAIN stream : stream[position].code = code}
             last == CHOOSE position \in sent : \A other \in sent : position >= other
  <2>0. DOMAIN stream \subseteq Nat
    <3>1. PICK S : stream \in Seq(S)
      BY DEF IsStream
    <3>2. QED
      BY <3>1
  <2>1. PICK p \in sent : /\ stream[p].data = data
                          /\ \A other \in sent : other <= p
    BY <1>1 DEF Sends
  <2>2. \A other \in sent : p >= other
    BY <2>0, <2>1
  <2>3. last \in sent /\ \A other \in sent : last >= other
    BY <2>2
  <2>4. last = p
    <3> HIDE DEF last
    <3>1. last >= p /\ p >= last /\ last \in Nat /\ p \in Nat
      BY <2>0, <2>2, <2>3
    <3>2. QED
      BY <3>1
  <2>5. LastSent(stream, code) = stream[last].data
    BY DEF LastSent
  <2>6. \E position \in DOMAIN stream : stream[position].code = code
    BY <2>1
  <2> HIDE DEF last, sent
  <2>7. LastSent(stream, code) = data
    BY <2>1, <2>4, <2>5
  <2>8. QED
    BY <2>6, <2>7 DEF Registers
<1>2. ASSUME Spares(stream, code)
      PROVE  Registers(before, stream)[code] = before[code]
  BY <1>2 DEF Spares, Registers
<1>3. QED
  BY <1>1, <1>2

(* What is told last, command by command. *)
Over(told, next) ==
    [code \in DOMAIN told \cup DOMAIN next |->
        IF code \in DOMAIN next THEN next[code] ELSE told[code]]

One(code, data) == [other \in {code} |-> data]

(* These are the commands the stream sends, and the data it sends last     *)
(* with each.                                                              *)
Tells(stream, told) ==
    /\ IsStream(stream)
    /\ \A code \in DOMAIN told : Sends(stream, code, told[code])
    /\ \A code : code \notin DOMAIN told => Spares(stream, code)

(* One command tells what it sends, and nothing else. *)
LEMMA CommandTells ==
  ASSUME NEW code, NEW data
  PROVE  Tells(Command(code, data), One(code, data))
BY CommandSends DEF Tells, One

(* Two streams one after the other tell what the second tells, and of the  *)
(* rest what the first does.                                               *)
LEMMA JoinedTell ==
  ASSUME NEW s, NEW t, NEW f, NEW g, Tells(s, f), Tells(t, g)
  PROVE  Tells(s \o t, Over(f, g))
<1>1. IsStream(s) /\ IsStream(t)
  BY DEF Tells
<1> DEFINE u == s \o t
<1>2. /\ IsStream(u)
      /\ \A code, data : Sends(t, code, data) => Sends(u, code, data)
      /\ \A code, data : Sends(s, code, data) /\ Spares(t, code)
                           => Sends(u, code, data)
      /\ \A code : Spares(s, code) /\ Spares(t, code) => Spares(u, code)
  BY <1>1, JoinedStreams
<1> HIDE DEF u
<1>3. DOMAIN Over(f, g) = DOMAIN f \cup DOMAIN g
  BY DEF Over
<1>4. ASSUME NEW code \in DOMAIN g PROVE Sends(u, code, Over(f, g)[code])
  BY <1>2, <1>4 DEF Tells, Over
<1>5. ASSUME NEW code \in DOMAIN f, code \notin DOMAIN g
      PROVE  Sends(u, code, Over(f, g)[code])
  BY <1>2, <1>5 DEF Tells, Over
<1>6. ASSUME NEW code, code \notin DOMAIN Over(f, g) PROVE Spares(u, code)
  BY <1>2, <1>3, <1>6 DEF Tells
<1>7. Tells(u, Over(f, g))
  BY <1>2, <1>3, <1>4, <1>5, <1>6 DEF Tells
<1>8. QED
  BY <1>7 DEF u

(* The registers after a stream, from what it tells. *)
LEMMA RegistersTold ==
  ASSUME NEW before, NEW stream, NEW told, Tells(stream, told)
  PROVE  /\ DOMAIN Registers(before, stream) = DOMAIN before
         /\ \A code \in DOMAIN before :
              Registers(before, stream)[code] =
                IF code \in DOMAIN told THEN told[code] ELSE before[code]
<1>1. DOMAIN Registers(before, stream) = DOMAIN before
  BY DEF Registers
<1>2. ASSUME NEW code \in DOMAIN before
      PROVE  Registers(before, stream)[code] =
               IF code \in DOMAIN told THEN told[code] ELSE before[code]
  BY RegistersAfter DEF Tells
<1>3. QED
  BY <1>1, <1>2

(* What a stream sends last with a command is what LastSent finds. *)
LEMMA SentLast ==
  ASSUME NEW stream, NEW code, NEW data, IsStream(stream), Sends(stream, code, data)
  PROVE  LastSent(stream, code) = data
<1> DEFINE before == [other \in {code} |-> <<>>]
<1>1. code \in DOMAIN before
  OBVIOUS
<1>2. \E position \in DOMAIN stream : stream[position].code = code
  BY DEF Sends
<1>3. Registers(before, stream)[code] = LastSent(stream, code)
  BY <1>1, <1>2 DEF Registers
<1> HIDE DEF before
<1>4. Registers(before, stream)[code] = data
  BY <1>1, RegistersAfter
<1>5. QED
  BY <1>3, <1>4

WindowTold(x_start, y_start, x_end, y_end) ==
    Over(One(\h44, <<Low(x_start \div 8), Low(x_end \div 8)>>),
         One(\h45, <<Low(y_start), Low(High(y_start)),
                     Low(y_end), Low(High(y_end))>>))

CursorTold(x_bytes, y) ==
    Over(One(\h4E, <<Low(x_bytes)>>), One(\h4F, <<Low(y), Low(High(y))>>))

(* set_window tells its two registers. *)
LEMMA WindowTells ==
  ASSUME NEW x_start, NEW y_start, NEW x_end, NEW y_end
  PROVE  Tells(set_window(x_start, y_start, x_end, y_end),
               WindowTold(x_start, y_start, x_end, y_end))
BY CommandTells, JoinedTell DEF set_window, WindowTold

(* set_cursor tells its two registers. *)
LEMMA CursorTells ==
  ASSUME NEW x_bytes, NEW y
  PROVE  Tells(set_cursor(x_bytes, y), CursorTold(x_bytes, y))
BY CommandTells, JoinedTell DEF set_cursor, CursorTold

FullTold(bytes) ==
    Over(Over(Over(Over(Over(Over(Over(
        One(\h21, <<\h40, 0>>),
        One(\h3C, <<5>>)),
        WindowTold(0, 0, PanelWidth - 1, PanelHeight - 1)),
        CursorTold(0, 0)),
        One(\h24, WholeFrame(bytes))),
        One(\h26, WholeFrame(bytes))),
        One(\h22, <<\hF7>>)),
        One(\h20, <<>>))

(* What panel_begin_full_refresh sends last, as it sends it. *)
LEMMA FullTells ==
  ASSUME NEW bytes
  PROVE  Tells(FullStream(bytes), FullTold(bytes))
<1> DEFINE a == Command(\h21, <<\h40, 0>>)
           b == Command(\h3C, <<5>>)
           w == set_window(0, 0, PanelWidth - 1, PanelHeight - 1)
           c == set_cursor(0, 0)
           d == Command(\h24, WholeFrame(bytes))
           e == Command(\h26, WholeFrame(bytes))
           g == Command(\h22, <<\hF7>>)
           h == Command(\h20, <<>>)
           fa == One(\h21, <<\h40, 0>>)
           fb == One(\h3C, <<5>>)
           fw == WindowTold(0, 0, PanelWidth - 1, PanelHeight - 1)
           fc == CursorTold(0, 0)
           fd == One(\h24, WholeFrame(bytes))
           fe == One(\h26, WholeFrame(bytes))
           fg == One(\h22, <<\hF7>>)
           fh == One(\h20, <<>>)
<1>1. /\ Tells(a, fa) /\ Tells(b, fb) /\ Tells(d, fd) /\ Tells(e, fe)
      /\ Tells(g, fg) /\ Tells(h, fh)
  BY CommandTells
<1>2. Tells(w, fw) /\ Tells(c, fc)
  BY WindowTells, CursorTells
<1>3. /\ FullStream(bytes) = a \o b \o w \o c \o d \o e \o g \o h
      /\ FullTold(bytes) = Over(Over(Over(Over(Over(Over(Over(fa, fb), fw), fc),
                                                    fd), fe), fg), fh)
  BY DEF FullStream, FullTold
<1> HIDE DEF a, b, w, c, d, e, g, h, fa, fb, fw, fc, fd, fe, fg, fh
<1>4. Tells(a \o b \o w, Over(Over(fa, fb), fw))
  BY <1>1, <1>2, JoinedTell
<1>5. Tells(a \o b \o w \o c \o d, Over(Over(Over(Over(fa, fb), fw), fc), fd))
  BY <1>1, <1>2, <1>4, JoinedTell
<1>6. Tells(a \o b \o w \o c \o d \o e \o g,
            Over(Over(Over(Over(Over(Over(fa, fb), fw), fc), fd), fe), fg))
  BY <1>1, <1>5, JoinedTell
<1>7. QED
  BY <1>1, <1>3, <1>6, JoinedTell

(* What a full pass sends last, command by command. *)
LEMMA FullSays ==
  ASSUME NEW bytes
  PROVE  LET t == FullTold(bytes)
         IN  /\ DOMAIN t = {\h20, \h21, \h22, \h24, \h26, \h3C, \h44, \h45, \h4E, \h4F}
             /\ t[\h21] = <<\h40, 0>> /\ t[\h3C] = <<5>> /\ t[\h22] = <<\hF7>>
             /\ t[\h44] = <<Low(0 \div 8), Low((PanelWidth - 1) \div 8)>>
             /\ t[\h45] = <<Low(0), Low(High(0)),
                            Low(PanelHeight - 1), Low(High(PanelHeight - 1))>>
             /\ t[\h4E] = <<Low(0)>> /\ t[\h4F] = <<Low(0), Low(High(0))>>
             /\ t[\h24] = WholeFrame(bytes)
<1> DEFINE d == WholeFrame(bytes)
           w1 == <<Low(0 \div 8), Low((PanelWidth - 1) \div 8)>>
           w2 == <<Low(0), Low(High(0)), Low(PanelHeight - 1), Low(High(PanelHeight - 1))>>
           c1 == <<Low(0)>>
           c2 == <<Low(0), Low(High(0))>>
           q == Over(Over(Over(Over(Over(Over(Over(
                  One(\h21, <<\h40, 0>>), One(\h3C, <<5>>)),
                  Over(One(\h44, w1), One(\h45, w2))),
                  Over(One(\h4E, c1), One(\h4F, c2))),
                  One(\h24, d)), One(\h26, d)), One(\h22, <<\hF7>>)), One(\h20, <<>>))
<1>1. FullTold(bytes) = q
  BY DEF FullTold, WindowTold, CursorTold
<1> HIDE DEF d, w1, w2, c1, c2
<1>2. DOMAIN q = {\h20, \h21, \h22, \h24, \h26, \h3C, \h44, \h45, \h4E, \h4F}
  BY DEF Over, One
<1>3. q[\h21] = <<\h40, 0>>
  BY DEF Over, One
<1>4. q[\h3C] = <<5>>
  BY DEF Over, One
<1>5. q[\h22] = <<\hF7>>
  BY DEF Over, One
<1>6. q[\h44] = w1
  BY DEF Over, One
<1>7. q[\h45] = w2
  BY DEF Over, One
<1>8. q[\h4E] = c1
  BY DEF Over, One
<1>9. q[\h4F] = c2
  BY DEF Over, One
<1>10. q[\h24] = d
  BY DEF Over, One
<1> HIDE DEF q
<1>11. QED
  BY <1>1, <1>2, <1>3, <1>4, <1>5, <1>6, <1>7, <1>8, <1>9, <1>10 DEF d, w1, w2, c1, c2

PartialTold(bytes, box) ==
    LET x_start == box.x \div 8
        x_end_exclusive == (box.x + box.width) \div 8
        y_end_exclusive == box.y + box.height
    IN  Over(Over(Over(Over(Over(Over(Over(
            One(\h3C, <<\h80>>),
            One(\h21, <<0, 0>>)),
            One(\h3C, <<\h80>>)),
            Over(One(\h44, <<Low(x_start), Low(x_end_exclusive - 1)>>),
                 One(\h45, <<Low(box.y), High(box.y) % 2,
                             Low(y_end_exclusive - 1),
                             High(y_end_exclusive - 1) % 2>>))),
            CursorTold(x_start, box.y)),
            One(\h24, RowsOf(bytes, x_start, x_end_exclusive,
                             box.y, y_end_exclusive))),
            One(\h22, <<\hFF>>)),
            One(\h20, <<>>))

(* The rectangle of a region is on the panel. *)
OnPanel(box) ==
    /\ box.x \in Nat /\ box.y \in Nat
    /\ box.width \in Nat \ {0} /\ box.height \in Nat \ {0}
    /\ box.x + box.width <= PanelWidth /\ box.y + box.height <= PanelHeight

(* What panel_begin_partial_refresh sends last, as it sends it. *)
LEMMA PartialTells ==
  ASSUME NEW bytes, NEW box, OnPanel(box)
  PROVE  Tells(PartialStream(bytes, box), PartialTold(bytes, box))
<1> DEFINE xs == box.x \div 8
           xe == (box.x + box.width) \div 8
           ye == box.y + box.height
           w1 == <<Low(xs), Low(xe - 1)>>
           w2 == <<Low(box.y), High(box.y) % 2, Low(ye - 1), High(ye - 1) % 2>>
           rows == RowsOf(bytes, xs, xe, box.y, ye)
           a == Command(\h3C, <<\h80>>)
           b == Command(\h21, <<0, 0>>)
           w == Command(\h44, w1) \o Command(\h45, w2)
           c == set_cursor(xs, box.y)
           d == Command(\h24, rows)
           g == Command(\h22, <<\hFF>>)
           h == Command(\h20, <<>>)
           fa == One(\h3C, <<\h80>>)
           fb == One(\h21, <<0, 0>>)
           fw == Over(One(\h44, w1), One(\h45, w2))
           fc == CursorTold(xs, box.y)
           fd == One(\h24, rows)
           fg == One(\h22, <<\hFF>>)
           fh == One(\h20, <<>>)
<1>0. /\ ~(box.width <= 0) /\ ~(box.height <= 0) /\ ~(box.x < 0) /\ ~(box.y < 0)
      /\ ~(box.x + box.width > PanelWidth) /\ ~(box.y + box.height > PanelHeight)
  BY PanelAssumption DEF OnPanel
<1>1. /\ Tells(a, fa) /\ Tells(b, fb) /\ Tells(d, fd)
      /\ Tells(g, fg) /\ Tells(h, fh)
  BY CommandTells
<1>2. Tells(w, fw) /\ Tells(c, fc)
  <2>1. Tells(Command(\h44, w1), One(\h44, w1)) /\ Tells(Command(\h45, w2), One(\h45, w2))
    BY CommandTells
  <2>2. QED
    BY <2>1, CursorTells, JoinedTell
<1>3. /\ PartialStream(bytes, box) = a \o b \o a \o w \o c \o d \o g \o h
      /\ PartialTold(bytes, box) = Over(Over(Over(Over(Over(Over(Over(fa, fb), fa), fw),
                                                       fc), fd), fg), fh)
  BY <1>0 DEF PartialStream, PartialTold, PartialWindow
<1> HIDE DEF a, b, w, c, d, g, h, fa, fb, fw, fc, fd, fg, fh
<1>4. Tells(a \o b \o a, Over(Over(fa, fb), fa))
  BY <1>1, JoinedTell
<1>5. Tells(a \o b \o a \o w \o c, Over(Over(Over(Over(fa, fb), fa), fw), fc))
  BY <1>2, <1>4, JoinedTell
<1>6. Tells(a \o b \o a \o w \o c \o d \o g,
            Over(Over(Over(Over(Over(Over(fa, fb), fa), fw), fc), fd), fg))
  BY <1>1, <1>5, JoinedTell
<1>7. QED
  BY <1>1, <1>3, <1>6, JoinedTell

(* What a partial pass sends last, command by command. *)
LEMMA PartialSays ==
  ASSUME NEW bytes, NEW box
  PROVE  LET t == PartialTold(bytes, box)
             x_start == box.x \div 8
             x_end_exclusive == (box.x + box.width) \div 8
             y_end_exclusive == box.y + box.height
         IN  /\ DOMAIN t = {\h20, \h21, \h22, \h24, \h3C, \h44, \h45, \h4E, \h4F}
             /\ t[\h21] = <<0, 0>> /\ t[\h3C] = <<\h80>> /\ t[\h22] = <<\hFF>>
             /\ t[\h44] = <<Low(x_start), Low(x_end_exclusive - 1)>>
             /\ t[\h45] = <<Low(box.y), High(box.y) % 2,
                            Low(y_end_exclusive - 1), High(y_end_exclusive - 1) % 2>>
             /\ t[\h4E] = <<Low(x_start)>>
             /\ t[\h4F] = <<Low(box.y), Low(High(box.y))>>
             /\ t[\h24] = RowsOf(bytes, x_start, x_end_exclusive,
                                 box.y, y_end_exclusive)
<1> DEFINE xs == box.x \div 8
           xe == (box.x + box.width) \div 8
           ye == box.y + box.height
           w1 == <<Low(xs), Low(xe - 1)>>
           w2 == <<Low(box.y), High(box.y) % 2, Low(ye - 1), High(ye - 1) % 2>>
           c1 == <<Low(xs)>>
           c2 == <<Low(box.y), Low(High(box.y))>>
           d == RowsOf(bytes, xs, xe, box.y, ye)
           q == Over(Over(Over(Over(Over(Over(Over(
                  One(\h3C, <<\h80>>), One(\h21, <<0, 0>>)), One(\h3C, <<\h80>>)),
                  Over(One(\h44, w1), One(\h45, w2))),
                  Over(One(\h4E, c1), One(\h4F, c2))),
                  One(\h24, d)), One(\h22, <<\hFF>>)), One(\h20, <<>>))
<1>1. PartialTold(bytes, box) = q
  BY DEF PartialTold, CursorTold
<1> HIDE DEF d, w1, w2, c1, c2
<1>2. DOMAIN q = {\h20, \h21, \h22, \h24, \h3C, \h44, \h45, \h4E, \h4F}
  BY DEF Over, One
<1>3. q[\h21] = <<0, 0>>
  BY DEF Over, One
<1>4. q[\h3C] = <<\h80>>
  BY DEF Over, One
<1>5. q[\h22] = <<\hFF>>
  BY DEF Over, One
<1>6. q[\h44] = w1
  BY DEF Over, One
<1>7. q[\h45] = w2
  BY DEF Over, One
<1>8. q[\h4E] = c1
  BY DEF Over, One
<1>9. q[\h4F] = c2
  BY DEF Over, One
<1>10. q[\h24] = d
  BY DEF Over, One
<1> HIDE DEF q
<1>11. QED
  BY <1>1, <1>2, <1>3, <1>4, <1>5, <1>6, <1>7, <1>8, <1>9, <1>10 DEF d, w1, w2, c1, c2

InitTold ==
    Over(Over(Over(Over(Over(
        One(\h12, <<>>), One(\h21, <<\h40, 0>>)), One(\h3C, <<5>>)), One(\h11, <<3>>)),
        WindowTold(0, 0, PanelWidth - 1, PanelHeight - 1)),
        CursorTold(0, 0))

(* What EPD_4IN2_V2_Init sends last, as it sends it. *)
LEMMA InitTells == Tells(DriverInit, InitTold)
<1> DEFINE a == Command(\h12, <<>>)
           b == Command(\h21, <<\h40, 0>>)
           c == Command(\h3C, <<5>>)
           d == Command(\h11, <<3>>)
           w == set_window(0, 0, PanelWidth - 1, PanelHeight - 1)
           e == set_cursor(0, 0)
           fa == One(\h12, <<>>)
           fb == One(\h21, <<\h40, 0>>)
           fc == One(\h3C, <<5>>)
           fd == One(\h11, <<3>>)
           fw == WindowTold(0, 0, PanelWidth - 1, PanelHeight - 1)
           fe == CursorTold(0, 0)
<1>1. Tells(a, fa) /\ Tells(b, fb) /\ Tells(c, fc) /\ Tells(d, fd)
  BY CommandTells
<1>2. Tells(w, fw) /\ Tells(e, fe)
  BY WindowTells, CursorTells
<1>3. /\ DriverInit = a \o b \o c \o d \o w \o e
      /\ InitTold = Over(Over(Over(Over(Over(fa, fb), fc), fd), fw), fe)
  BY DEF DriverInit, InitTold
<1> HIDE DEF a, b, c, d, w, e, fa, fb, fc, fd, fw, fe
<1>4. Tells(a \o b \o c \o d, Over(Over(Over(fa, fb), fc), fd))
  BY <1>1, JoinedTell
<1>5. QED
  BY <1>2, <1>3, <1>4, JoinedTell

(* What the driver's initialisation says of the data entry mode, and that  *)
(* it writes no memory.                                                    *)
LEMMA InitSays ==
  /\ DOMAIN InitTold = {\h11, \h12, \h21, \h3C, \h44, \h45, \h4E, \h4F}
  /\ InitTold[\h11] = <<3>> /\ InitTold[\h21] = <<\h40, 0>> /\ InitTold[\h3C] = <<5>>
  /\ InitTold[\h44] = <<Low(0 \div 8), Low((PanelWidth - 1) \div 8)>>
  /\ InitTold[\h45] = <<Low(0), Low(High(0)),
                        Low(PanelHeight - 1), Low(High(PanelHeight - 1))>>
  /\ InitTold[\h4E] = <<Low(0)>> /\ InitTold[\h4F] = <<Low(0), Low(High(0))>>
<1> DEFINE w1 == <<Low(0 \div 8), Low((PanelWidth - 1) \div 8)>>
           w2 == <<Low(0), Low(High(0)), Low(PanelHeight - 1), Low(High(PanelHeight - 1))>>
           c1 == <<Low(0)>>
           c2 == <<Low(0), Low(High(0))>>
           one == <<3>>
           two == <<\h40, 0>>
           three == <<5>>
<1>1. InitTold =
        Over(Over(Over(Over(Over(
          One(\h12, <<>>), One(\h21, two)), One(\h3C, three)), One(\h11, one)),
          Over(One(\h44, w1), One(\h45, w2))), Over(One(\h4E, c1), One(\h4F, c2)))
  BY DEF InitTold, WindowTold, CursorTold
<1> SUFFICES /\ DOMAIN InitTold = {\h11, \h12, \h21, \h3C, \h44, \h45, \h4E, \h4F}
             /\ InitTold[\h11] = one /\ InitTold[\h21] = two /\ InitTold[\h3C] = three
             /\ InitTold[\h44] = w1 /\ InitTold[\h45] = w2
             /\ InitTold[\h4E] = c1 /\ InitTold[\h4F] = c2
  OBVIOUS
<1> HIDE DEF w1, w2, c1, c2, one, two, three
<1>2. DOMAIN InitTold = {\h11, \h12, \h21, \h3C, \h44, \h45, \h4E, \h4F}
  BY <1>1 DEF Over, One
<1>3. InitTold[\h11] = one /\ InitTold[\h21] = two /\ InitTold[\h3C] = three
  BY <1>1 DEF Over, One
<1>4. InitTold[\h44] = w1 /\ InitTold[\h45] = w2
  BY <1>1 DEF Over, One
<1>5. InitTold[\h4E] = c1 /\ InitTold[\h4F] = c2
  BY <1>1 DEF Over, One
<1>6. QED
  BY <1>2, <1>3, <1>4, <1>5

-----------------------------------------------------------------------------
(* The memory. *)


(* A sequence of four, taken in halves. *)
LEMMA HalvesOfFour ==
  ASSUME NEW a, NEW b, NEW c, NEW d
  PROVE  /\ SubSeq(<<a, b, c, d>>, 1, 2) = <<a, b>>
         /\ SubSeq(<<a, b, c, d>>, 3, 4) = <<c, d>>
<1> DEFINE s == <<a, b, c, d>>
           S == {a, b, c, d}
<1>1. s \in Seq(S) /\ Len(s) = 4 /\ s[1] = a /\ s[2] = b /\ s[3] = c /\ s[4] = d
  OBVIOUS
<1> HIDE DEF s
<1>2. /\ SubSeq(s, 1, 2) \in Seq(S) /\ Len(SubSeq(s, 1, 2)) = 2
      /\ SubSeq(s, 1, 2)[1] = s[1] /\ SubSeq(s, 1, 2)[2] = s[2]
      /\ SubSeq(s, 3, 4) \in Seq(S) /\ Len(SubSeq(s, 3, 4)) = 2
      /\ SubSeq(s, 3, 4)[1] = s[3] /\ SubSeq(s, 3, 4)[2] = s[4]
  BY <1>1
<1>3. ASSUME NEW t \in Seq(S), Len(t) = 2 PROVE t = <<t[1], t[2]>>
  BY <1>3
<1>4. QED
  BY <1>1, <1>2, <1>3 DEF s

(* The place of a cell in a window of this width, counted row by row.      *)
Turn(cell, left, top, width) == (cell[2] - top) * width + (cell[1] - left)

(* Within a window the turns are those of its cells. *)
LEMMA TurnsAreWithin ==
  ASSUME NEW w \in Nat \ {0}, NEW h \in Nat \ {0},
         NEW x \in 0..(w - 1), NEW y \in 0..(h - 1)
  PROVE  y * w + x \in 0..(w * h - 1)
<1>1. /\ y \in Nat /\ x \in Nat /\ h - 1 - y \in Nat
      /\ w * h = w * (y + 1) + w * (h - 1 - y)
      /\ w * (y + 1) = y * w + w
  OBVIOUS
<1>2. w * (h - 1 - y) \in Nat /\ y * w \in Nat /\ w * h \in Nat
  BY <1>1
<1> DEFINE a == y * w
           b == w * (h - 1 - y)
           c == w * h
<1>3. a \in Nat /\ b \in Nat /\ c \in Nat /\ c = a + w + b
  BY <1>1, <1>2
<1> HIDE DEF a, b, c
<1>4. a + x \in 0..(c - 1)
  BY <1>3
<1>5. QED
  BY <1>4 DEF a, c

(* The registers hold this window, and its first cell as the cursor.       *)
Bounds(registers, left, top, width, height) ==
    \E lt, ht, lb, hb, lc, hc :
        /\ registers[\h44] = <<left, left + width - 1>>
        /\ registers[\h45] = <<lt, ht, lb, hb>>
        /\ registers[\h4E] = <<left>> /\ registers[\h4F] = <<lc, hc>>
        /\ ht * ByteModulus + lt = top /\ hc * ByteModulus + lc = top
        /\ hb * ByteModulus + lb = top + height - 1

(* Data that fill a window, from its first cell on, land each in its place,*)
(* and nowhere else.                                                       *)
LEMMA WindowIsFilled ==
  ASSUME NEW memory, NEW registers, NEW data,
         NEW left \in Nat, NEW top \in Nat,
         NEW width \in Nat \ {0}, NEW height \in Nat \ {0},
         Bounds(registers, left, top, width, height),
         Len(data) = width * height
  PROVE  \A cell \in Cells :
           Written(memory, registers, data)[cell] =
             IF cell \in (left..(left + width - 1)) \X (top..(top + height - 1))
             THEN data[Turn(cell, left, top, width) + 1] ELSE memory[cell]
<1>0. PICK lt, ht, lb, hb, lc, hc :
        /\ registers[\h44] = <<left, left + width - 1>>
        /\ registers[\h45] = <<lt, ht, lb, hb>>
        /\ registers[\h4E] = <<left>> /\ registers[\h4F] = <<lc, hc>>
        /\ ht * ByteModulus + lt = top /\ hc * ByteModulus + lc = top
        /\ hb * ByteModulus + lb = top + height - 1
  BY DEF Bounds
<1> DEFINE number(bytes) == bytes[2] * ByteModulus + bytes[1]
           L == registers[\h44][1]
           R == registers[\h44][2]
           T == number(SubSeq(registers[\h45], 1, 2))
           B == number(SubSeq(registers[\h45], 3, 4))
           W == R + 1 - L
           Z == W * (B + 1 - T)
           S == (number(registers[\h4F]) - T) * W + registers[\h4E][1] - L
           turn(cell) == ((cell[2] - T) * W + (cell[1] - L) - S) % Z
           last(cell) == turn(cell) + Z * ((Len(data) - turn(cell) - 1) \div Z)
           reached == {cell \in (L..R) \X (T..B) : turn(cell) < Len(data)}
           window == (left..(left + width - 1)) \X (top..(top + height - 1))
<1>1. Written(memory, registers, data) =
        [cell \in Cells |-> IF cell \in reached THEN data[last(cell) + 1]
                            ELSE memory[cell]]
  BY DEF Written
<1>2. L = left /\ R = left + width - 1
  BY <1>0
<1>3. T = top /\ B = top + height - 1
  <2>1. SubSeq(registers[\h45], 1, 2) = <<lt, ht>>
    BY <1>0, HalvesOfFour
  <2>2. SubSeq(registers[\h45], 3, 4) = <<lb, hb>>
    BY <1>0, HalvesOfFour
  <2>3. QED
    BY <1>0, <2>1, <2>2
<1>4. number(registers[\h4F]) = top /\ registers[\h4E][1] = left
  BY <1>0
<1> HIDE DEF L, R, T, B, number
<1>5. W = width /\ Z = width * height
  <2>1. W = width /\ B + 1 - T = height
    BY <1>2, <1>3
  <2>2. QED
    BY <2>1
<1>6. S = 0
  BY <1>2, <1>3, <1>4, <1>5
<1> HIDE DEF W, Z, S
<1>7. ASSUME NEW cell \in window
      PROVE  /\ turn(cell) = Turn(cell, left, top, width)
             /\ turn(cell) < Len(data)
             /\ last(cell) = Turn(cell, left, top, width)
  <2> DEFINE v == Turn(cell, left, top, width)
             z == width * height
  <2>0. cell[1] \in left..(left + width - 1) /\ cell[2] \in top..(top + height - 1)
    OBVIOUS
  <2>1. cell[1] - left \in 0..(width - 1) /\ cell[2] - top \in 0..(height - 1)
    BY <2>0
  <2>2. v \in 0..(z - 1)
    BY <2>1, TurnsAreWithin DEF Turn
  <2>3. turn(cell) = v % z
    <3>1. (cell[2] - T) * W + (cell[1] - L) - S = v
      <4>1. (cell[2] - top) * width + (cell[1] - left) - 0 = v
        BY <2>1 DEF Turn
      <4>2. QED
        BY <1>2, <1>3, <1>5, <1>6, <4>1
    <3>2. QED
      BY <1>5, <3>1
  <2>z. z \in Nat \ {0}
    BY <2>2
  <2> HIDE DEF v, z
  <2>4. v % z = v
    BY <2>2, <2>z
  <2>5. (z - v - 1) \div z = 0
    BY <2>2, <2>z
  <2>6. Len(data) = z /\ Z = z
    BY <1>5 DEF z
  <2>7. last(cell) = v + z * ((z - v - 1) \div z)
    BY <2>3, <2>4, <2>6
  <2>8. last(cell) = v
    BY <2>2, <2>5, <2>7, <2>z
  <2>9. turn(cell) = v
    BY <2>3, <2>4
  <2>10. turn(cell) < Len(data)
    <3> HIDE DEF turn
    <3>1. QED
      BY <2>2, <2>6, <2>9, <2>z
  <2>11. QED
    BY <2>8, <2>9, <2>10 DEF v
<1>8. (L..R) \X (T..B) = window
  BY <1>2, <1>3
<1> HIDE DEF turn, last, window
<1>9. reached = window
  BY <1>7, <1>8
<1> HIDE DEF reached
<1>10. ASSUME NEW cell \in Cells
       PROVE  Written(memory, registers, data)[cell] =
                IF cell \in window THEN data[Turn(cell, left, top, width) + 1]
                ELSE memory[cell]
  <2>1. Written(memory, registers, data)[cell] =
          IF cell \in reached THEN data[last(cell) + 1] ELSE memory[cell]
    BY <1>1
  <2>2. QED
    BY <1>7, <1>9, <2>1
<1>11. QED
  BY <1>10 DEF window

(* The memory stays a byte for every cell. *)
LEMMA WrittenIsMemory ==
  ASSUME NEW memory, NEW registers, NEW data
  PROVE  Written(memory, registers, data) =
           [cell \in Cells |-> Written(memory, registers, data)[cell]]
BY DEF Written

(* The panel has a byte and a row at least, and a row number is two digits.*)
LEMMA PanelSize ==
  /\ BytesPerRow \in Nat \ {0} /\ PanelWidth = 8 * BytesPerRow
  /\ PanelHeight \in Nat \ {0}
  /\ ByteModulus \in Nat /\ ByteModulus >= 2
  /\ BytesPerRow <= ByteModulus /\ PanelHeight <= 2 * ByteModulus
BY PanelAssumption DEF BytesPerRow

(* A row's number is two digits, the higher a bit: whatever a register     *)
(* cuts from the higher, no row is taken for another.                      *)
LEMMA RowNumber ==
  ASSUME NEW n \in Nat, n < 2 * ByteModulus
  PROVE  /\ High(n) \in {0, 1} /\ High(n) % 2 = High(n) /\ Low(High(n)) = High(n)
         /\ High(n) * ByteModulus + Low(n) = n
<1> DEFINE m == ByteModulus
           q == n \div m
           r == n % m
<1>1. m \in Nat /\ m >= 2 /\ n < 2 * m
  BY PanelSize
<1> HIDE DEF m
<1>2. q \in Nat /\ r \in 0..(m - 1) /\ n = m * q + r
  BY <1>1
<1> HIDE DEF q, r
<1>3. ~ q >= 2
  <2>1. SUFFICES ASSUME q >= 2 PROVE FALSE
    OBVIOUS
  <2>2. m * q >= m * 2
    BY <1>1, <1>2, <2>1
  <2>3. QED
    BY <1>1, <1>2, <2>2
<1>4. q = 0 \/ q = 1
  BY <1>2, <1>3
<1>5. q * m + r = n
  BY <1>1, <1>2, <1>4
<1>6. 0 % m = 0 /\ 1 % m = 1
  BY <1>1
<1>7. High(n) = q /\ Low(n) = r
  BY DEF High, Low, q, r, m
<1>8. q % 2 = q
  BY <1>4
<1>9. Low(q) = q
  BY <1>4, <1>6 DEF Low, m
<1>10. QED
  BY <1>4, <1>5, <1>7, <1>8, <1>9 DEF m

(* A byte's number, below the base, is its own low byte. *)
LEMMA ByteNumber ==
  ASSUME NEW n \in Nat, n < BytesPerRow
  PROVE  Low(n) = n
<1>1. n < ByteModulus /\ ByteModulus \in Nat
  BY PanelSize
<1>2. QED
  BY <1>1 DEF Low

(* C's offset of a byte in the frame finds that byte. *)
LEMMA ByteAt ==
  ASSUME NEW picture, NEW cell \in Cells
  PROVE  /\ cell[2] * BytesPerRow + cell[1] \in 0..(BytesPerRow * PanelHeight - 1)
         /\ Bytes(picture)[cell[2] * BytesPerRow + cell[1]] =
              <<picture[AreaAt[cell]], cell>>
<1> DEFINE x == cell[1]
           y == cell[2]
           offset == y * BytesPerRow + x
<1>1. x \in 0..(BytesPerRow - 1) /\ y \in 0..(PanelHeight - 1) /\ cell = <<x, y>>
  BY DEF Cells
<1>2. /\ offset \in 0..(BytesPerRow * PanelHeight - 1)
      /\ offset % BytesPerRow = x /\ offset \div BytesPerRow = y
  <2> HIDE DEF x, y
  <2>1. y \in Nat
    BY <1>1, PanelSize
  <2>2. QED
    BY <1>1, <2>1, PanelSize, TurnsAreWithin, RowDigits
<1> HIDE DEF offset
<1>3. Bytes(picture)[offset] = <<picture[AreaAt[<<x, y>>]], <<x, y>>>>
  BY <1>2 DEF Bytes
<1>4. QED
  BY <1>1, <1>2, <1>3 DEF offset

(* The whole frame is sent from its first byte to its last. *)
LEMMA FrameIsSent ==
  ASSUME NEW bytes
  PROVE  /\ Len(WholeFrame(bytes)) = BytesPerRow * PanelHeight
         /\ \A v \in 0..(BytesPerRow * PanelHeight - 1) :
              WholeFrame(bytes)[v + 1] = bytes[v]
<1> DEFINE size == BytesPerRow * PanelHeight
           data == [position \in 1..size |-> bytes[position - 1]]
           S == {bytes[position - 1] : position \in 1..size}
<1>1. size \in Nat
  BY PanelSize
<1>2. WholeFrame(bytes) = data
  BY DEF WholeFrame
<1> HIDE DEF size
<1>3. data \in [1..size -> S] /\ DOMAIN data = 1..size
  OBVIOUS
<1>4. \A v \in 0..(size - 1) : data[v + 1] = bytes[v]
  <2> SUFFICES ASSUME NEW v \in 0..(size - 1) PROVE data[v + 1] = bytes[v]
    OBVIOUS
  <2>1. v + 1 \in 1..size /\ v + 1 - 1 = v
    BY <1>1
  <2>2. data[v + 1] = bytes[v + 1 - 1]
    BY <2>1
  <2>3. QED
    BY <2>1, <2>2
<1> HIDE DEF data, S
<1>5. data \in Seq(S)
  BY <1>1, <1>3, SeqDef
<1>6. Len(data) = size
  BY <1>1, <1>3, <1>5
<1>7. QED
  BY <1>2, <1>4, <1>6 DEF size

(* The memory a picture fills. *)
Filled(picture) == [cell \in Cells |-> <<picture[AreaAt[cell]], cell>>]

(* A full pass bounds the whole panel. *)
LEMMA FullBounds ==
  ASSUME NEW registers,
         registers[\h44] = <<Low(0 \div 8), Low((PanelWidth - 1) \div 8)>>,
         registers[\h45] = <<Low(0), Low(High(0)),
                             Low(PanelHeight - 1), Low(High(PanelHeight - 1))>>,
         registers[\h4E] = <<Low(0)>>, registers[\h4F] = <<Low(0), Low(High(0))>>
  PROVE  Bounds(registers, 0, 0, BytesPerRow, PanelHeight)
<1>1. (PanelWidth - 1) \div 8 = 0 + BytesPerRow - 1 /\ 0 \div 8 = 0
  BY PanelSize
<1>2. /\ Low(0 \div 8) = 0 /\ Low((PanelWidth - 1) \div 8) = 0 + BytesPerRow - 1
      /\ Low(0) = 0
  BY <1>1, PanelSize, ByteNumber
<1>3. /\ Low(High(0)) * ByteModulus + Low(0) = 0
      /\ Low(High(PanelHeight - 1)) * ByteModulus + Low(PanelHeight - 1)
           = 0 + PanelHeight - 1
  <2>1. 0 \in Nat /\ 0 < 2 * ByteModulus
        /\ PanelHeight - 1 \in Nat /\ PanelHeight - 1 < 2 * ByteModulus
    BY PanelSize
  <2>2. 0 + PanelHeight - 1 = PanelHeight - 1
    BY PanelSize
  <2>3. QED
    BY <2>1, <2>2, RowNumber
<1>4. QED
  BY <1>2, <1>3 DEF Bounds

(* The whole frame fills the memory, whatever it held. *)
LEMMA FullWritten ==
  ASSUME NEW memory, NEW registers, NEW picture, NEW o \in Nat, o = 0,
         Bounds(registers, o, o, BytesPerRow, PanelHeight)
  PROVE  Written(memory, registers, WholeFrame(Bytes(picture))) = Filled(picture)
<1> DEFINE data == WholeFrame(Bytes(picture))
<1>1. Len(data) = BytesPerRow * PanelHeight
  BY FrameIsSent
<1>2. \A cell \in Cells :
        Written(memory, registers, data)[cell] =
          IF cell \in (o..(o + BytesPerRow - 1)) \X (o..(o + PanelHeight - 1))
          THEN data[Turn(cell, o, o, BytesPerRow) + 1] ELSE memory[cell]
  <2> HIDE DEF data
  <2>1. BytesPerRow \in Nat \ {0} /\ PanelHeight \in Nat \ {0}
    BY PanelSize
  <2>2. QED
    BY <1>1, <2>1, WindowIsFilled
<1>3. ASSUME NEW cell \in Cells
      PROVE  /\ cell \in (o..(o + BytesPerRow - 1)) \X (o..(o + PanelHeight - 1))
             /\ data[Turn(cell, o, o, BytesPerRow) + 1] = <<picture[AreaAt[cell]], cell>>
  <2>1. cell \in (o..(o + BytesPerRow - 1)) \X (o..(o + PanelHeight - 1))
    BY PanelSize DEF Cells
  <2> DEFINE v == cell[2] * BytesPerRow + cell[1]
  <2>2. /\ v \in 0..(BytesPerRow * PanelHeight - 1)
        /\ Bytes(picture)[v] = <<picture[AreaAt[cell]], cell>>
    BY ByteAt
  <2>3. Turn(cell, o, o, BytesPerRow) = v
    BY PanelSize DEF Turn, Cells
  <2>4. data[v + 1] = Bytes(picture)[v]
    BY <2>2, FrameIsSent
  <2> HIDE DEF v, data
  <2>5. QED
    BY <2>1, <2>2, <2>3, <2>4
<1> HIDE DEF data
<1>4. QED
  <2> DEFINE w == Written(memory, registers, data)
  <2>1. w = [cell \in Cells |-> w[cell]]
    BY WrittenIsMemory
  <2>2. \A cell \in Cells : w[cell] = <<picture[AreaAt[cell]], cell>>
    BY <1>2, <1>3
  <2> HIDE DEF w
  <2>3. w = Filled(picture)
    BY <2>1, <2>2 DEF Filled
  <2>4. QED
    BY <2>3 DEF w, data

(* A region's rectangle, in bytes. *)
Aligned(box) == OnPanel(box) /\ box.x % 8 = 0 /\ box.width % 8 = 0

(* An aligned rectangle is a rectangle of whole bytes. *)
LEMMA BoxInBytes ==
  ASSUME NEW box, Aligned(box)
  PROVE  /\ box.x \div 8 \in Nat /\ box.x = 8 * (box.x \div 8)
         /\ box.width \div 8 \in Nat \ {0} /\ box.width = 8 * (box.width \div 8)
         /\ (box.x + box.width) \div 8 = (box.x \div 8) + (box.width \div 8)
         /\ (box.x \div 8) + (box.width \div 8) <= BytesPerRow
<1> DEFINE x == box.x
           w == box.width
<1>1. /\ x \in Nat /\ w \in Nat \ {0} /\ x % 8 = 0 /\ w % 8 = 0
      /\ x + w <= PanelWidth
  BY DEF Aligned, OnPanel
<1> HIDE DEF x, w
<1>2. x = 8 * (x \div 8) /\ w = 8 * (w \div 8)
  BY <1>1
<1>3. x \div 8 \in Nat /\ w \div 8 \in Nat \ {0}
  BY <1>1, <1>2
<1>4. (x + w) \div 8 = (x \div 8) + (w \div 8)
  BY <1>1, <1>2, <1>3
<1>5. (x \div 8) + (w \div 8) <= BytesPerRow
  BY <1>1, <1>2, <1>3, PanelSize
<1>6. QED
  BY <1>2, <1>3, <1>4, <1>5 DEF x, w

(* The cells of the rectangle are those of the window. *)
LEMMA CellsAreWindow ==
  ASSUME NEW box, Aligned(box), NEW cell \in Cells
  PROVE  cell \in CellsOf(box) <=>
           cell \in ((box.x \div 8)..((box.x \div 8) + (box.width \div 8) - 1))
                    \X (box.y..(box.y + box.height - 1))
<1> DEFINE x == box.x \div 8
           w == box.width \div 8
           y == box.y
           h == box.height
           i == cell[1]
           j == cell[2]
<1>1. /\ x \in Nat /\ w \in Nat \ {0} /\ box.x = 8 * x /\ box.width = 8 * w
      /\ y \in Nat /\ h \in Nat \ {0}
  BY BoxInBytes DEF Aligned, OnPanel
<1>2. i \in Nat /\ j \in Nat /\ cell = <<i, j>>
  BY PanelSize DEF Cells
<1>3. cell \in CellsOf(box) <=> /\ box.x <= 8 * i /\ 8 * i < box.x + box.width
                                /\ y <= j /\ j < y + h
  BY DEF CellsOf
<1> HIDE DEF x, w, y, h, i, j
<1>4. /\ (8 * x <= 8 * i /\ 8 * i < 8 * x + 8 * w) <=> i \in x..(x + w - 1)
      /\ (y <= j /\ j < y + h) <=> j \in y..(y + h - 1)
  BY <1>1, <1>2
<1>5. cell \in CellsOf(box) <=> i \in x..(x + w - 1) /\ j \in y..(y + h - 1)
  BY <1>1, <1>3, <1>4
<1>6. cell \in (x..(x + w - 1)) \X (y..(y + h - 1))
        <=> i \in x..(x + w - 1) /\ j \in y..(y + h - 1)
  BY <1>2
<1>7. QED
  BY <1>5, <1>6 DEF x, w, y, h

(* The registers hold the window of this rectangle, and the rows are its.  *)
BoxBounds(registers, box) ==
    Bounds(registers, box.x \div 8, box.y, box.width \div 8, box.height)

RowsOfBox(bytes, box) ==
    RowsOf(bytes, box.x \div 8, (box.x + box.width) \div 8, box.y, box.y + box.height)

(* The rectangle's own window and cursor, as a partial pass sends them. *)
BoxSent(registers, box) ==
    /\ registers[\h44] = <<Low(box.x \div 8), Low(((box.x + box.width) \div 8) - 1)>>
    /\ registers[\h45] = <<Low(box.y), High(box.y) % 2,
                           Low((box.y + box.height) - 1),
                           High((box.y + box.height) - 1) % 2>>
    /\ registers[\h4E] = <<Low(box.x \div 8)>>
    /\ registers[\h4F] = <<Low(box.y), Low(High(box.y))>>

(* A partial pass bounds the rectangle. *)
LEMMA PartialBounds ==
  ASSUME NEW registers, NEW box, Aligned(box), BoxSent(registers, box)
  PROVE  BoxBounds(registers, box)
<1> DEFINE x == box.x \div 8
           w == box.width \div 8
           xe == (box.x + box.width) \div 8
           y == box.y
           h == box.height
           ye == box.y + box.height
<1>1. /\ x \in Nat /\ w \in Nat \ {0} /\ x + w <= BytesPerRow
      /\ y \in Nat /\ h \in Nat \ {0} /\ y + h <= PanelHeight
      /\ xe = x + w /\ ye = y + h
  BY BoxInBytes DEF Aligned, OnPanel
<1>k. /\ registers[\h44] = <<Low(x), Low(xe - 1)>>
      /\ registers[\h45] = <<Low(y), High(y) % 2, Low(ye - 1), High(ye - 1) % 2>>
      /\ registers[\h4E] = <<Low(x)>>
      /\ registers[\h4F] = <<Low(y), Low(High(y))>>
  BY DEF BoxSent
<1> SUFFICES Bounds(registers, x, y, w, h)
  BY DEF BoxBounds
<1> HIDE DEF x, w, xe, y, h, ye
<1>2. Low(x) = x /\ Low(xe - 1) = x + w - 1
  <2> DEFINE k == xe - 1
  <2>1. x < BytesPerRow /\ k \in Nat /\ k < BytesPerRow /\ k = x + w - 1
    BY <1>1, PanelSize
  <2> HIDE DEF k
  <2>2. Low(k) = k
    BY <2>1, ByteNumber
  <2>3. Low(x) = x
    BY <1>1, <2>1, ByteNumber
  <2>4. QED
    BY <2>1, <2>2, <2>3 DEF k
<1>4. /\ (High(y) % 2) * ByteModulus + Low(y) = y
      /\ Low(High(y)) * ByteModulus + Low(y) = y
  <2>1. y < 2 * ByteModulus
    BY <1>1, PanelSize
  <2>2. QED
    BY <1>1, <2>1, RowNumber
<1>5. (High(ye - 1) % 2) * ByteModulus + Low(ye - 1) = y + h - 1
  <2> DEFINE k == ye - 1
  <2>1. k \in Nat /\ k < 2 * ByteModulus /\ k = y + h - 1
    BY <1>1, PanelSize
  <2> HIDE DEF k
  <2>2. (High(k) % 2) * ByteModulus + Low(k) = k
    BY <2>1, RowNumber
  <2>3. QED
    BY <2>1, <2>2 DEF k
<1>6. QED
  BY <1>k, <1>1, <1>2, <1>4, <1>5 DEF Bounds

(* As many bytes are sent as the rectangle has. *)
LEMMA RowsCount ==
  ASSUME NEW bytes, NEW x, NEW y, NEW xe, NEW ye,
         xe - x \in Nat, ye - y \in Nat
  PROVE  /\ IsStream(RowsOf(bytes, x, xe, y, ye))
         /\ Len(RowsOf(bytes, x, xe, y, ye)) = (xe - x) * (ye - y)
<1> DEFINE w == xe - x
           h == ye - y
<1> DEFINE size == w * h
           at(position) == bytes[(y + ((position - 1) \div w)) * BytesPerRow
                                 + (x + ((position - 1) % w))]
           data == [position \in 1..size |-> at(position)]
           S == {at(position) : position \in 1..size}
<1>1. size \in Nat
  OBVIOUS
<1>2. RowsOf(bytes, x, xe, y, ye) = data
  BY DEF RowsOf
<1> HIDE DEF size, w, h
<1>3. data \in [1..size -> S] /\ DOMAIN data = 1..size
  OBVIOUS
<1> HIDE DEF data, S
<1>5. data \in Seq(S)
  BY <1>1, <1>3, SeqDef
<1>6. Len(data) = size
  BY <1>1, <1>3, <1>5
<1>7. IsStream(data)
  BY <1>5 DEF IsStream
<1>8. QED
  BY <1>2, <1>6, <1>7 DEF size, w, h

(* Rows of the frame that fill a window of its own bounds land where they  *)
(* come from.                                                              *)
LEMMA RowsLand ==
  ASSUME NEW memory, NEW registers, NEW picture,
         NEW x \in Nat, NEW xe \in Nat, x < xe, NEW y \in Nat, NEW ye \in Nat, y < ye,
         Bounds(registers, x, y, xe - x, ye - y)
  PROVE  \A cell \in Cells :
           Written(memory, registers, RowsOf(Bytes(picture), x, xe, y, ye))[cell] =
             IF cell \in (x..(xe - 1)) \X (y..(ye - 1))
             THEN Filled(picture)[cell] ELSE memory[cell]
<1> DEFINE w == xe - x
           h == ye - y
<1>w. /\ w \in Nat \ {0} /\ h \in Nat \ {0} /\ xe - x = w /\ ye - y = h
      /\ xe - 1 = x + w - 1 /\ ye - 1 = y + h - 1 /\ Bounds(registers, x, y, w, h)
  OBVIOUS
<1> SUFFICES \A cell \in Cells :
           Written(memory, registers, RowsOf(Bytes(picture), x, xe, y, ye))[cell] =
             IF cell \in (x..(x + w - 1)) \X (y..(y + h - 1))
             THEN Filled(picture)[cell] ELSE memory[cell]
  BY <1>w
<1> HIDE DEF w, h
<1> DEFINE bytes == Bytes(picture)
           data == RowsOf(bytes, x, xe, y, ye)
<1>0. xe - x = w /\ ye - y = h
  BY <1>w
<1>1. /\ Len(data) = w * h
      /\ \A i \in 0..(w - 1), j \in 0..(h - 1) :
           data[j * w + i + 1] = bytes[(y + j) * BytesPerRow + (x + i)]
  <2>1. Len(data) = (xe - x) * (ye - y)
    BY <1>w, <1>0, RowsCount
  <2>2. ASSUME NEW i \in 0..(w - 1), NEW j \in 0..(h - 1)
        PROVE  data[j * w + i + 1] = bytes[(y + j) * BytesPerRow + (x + i)]
    <3> HIDE DEF bytes
    <3> DEFINE v == j * w + i
               size == w * h
               p == v + 1
    <3>1. v \in 0..(size - 1) /\ v % w = i /\ v \div w = j /\ size \in Nat
      <4>1. v \in 0..(size - 1)
        BY <1>w, TurnsAreWithin
      <4>2. v % w = i /\ v \div w = j
        BY <1>w, RowDigits
      <4>3. QED
        BY <1>w, <4>1, <4>2
    <3>2. \A q \in 1..size :
            data[q] = bytes[(y + ((q - 1) \div w)) * BytesPerRow + (x + ((q - 1) % w))]
      BY <1>0 DEF RowsOf
    <3> HIDE DEF v, size, data
    <3>3. p \in 1..size /\ p - 1 = v
      BY <3>1
    <3> HIDE DEF p
    <3>4. data[p] = bytes[(y + j) * BytesPerRow + (x + i)]
      BY <3>1, <3>2, <3>3
    <3>5. QED
      BY <3>4 DEF p, v
  <2>3. QED
    BY <1>0, <2>1, <2>2
<1> HIDE DEF data
<1>2. \A cell \in Cells :
        Written(memory, registers, data)[cell] =
          IF cell \in (x..(x + w - 1)) \X (y..(y + h - 1))
          THEN data[Turn(cell, x, y, w) + 1] ELSE memory[cell]
  BY <1>w, <1>1, WindowIsFilled
<1>3. ASSUME NEW cell \in Cells, cell \in (x..(x + w - 1)) \X (y..(y + h - 1))
      PROVE  data[Turn(cell, x, y, w) + 1] = Filled(picture)[cell]
  <2> DEFINE i == cell[1] - x
             j == cell[2] - y
  <2>1. cell[1] \in x..(x + w - 1) /\ cell[2] \in y..(y + h - 1)
    BY <1>3
  <2>2. i \in 0..(w - 1) /\ j \in 0..(h - 1) /\ x + i = cell[1] /\ y + j = cell[2]
    BY <1>w, <2>1
  <2>3. Turn(cell, x, y, w) = j * w + i
    BY DEF Turn
  <2> HIDE DEF i, j
  <2>4. data[j * w + i + 1] = bytes[cell[2] * BytesPerRow + cell[1]]
    BY <1>1, <2>2
  <2>5. bytes[cell[2] * BytesPerRow + cell[1]] = <<picture[AreaAt[cell]], cell>>
    BY ByteAt
  <2>6. QED
    BY <2>3, <2>4, <2>5 DEF Filled
<1>4. QED
  BY <1>2, <1>3 DEF data

(* The rectangle is filled from the frame, and nothing else of the memory  *)
(* is touched.                                                             *)
LEMMA PartialWritten ==
  ASSUME NEW memory, NEW registers, NEW picture, NEW box, Aligned(box),
         BoxBounds(registers, box)
  PROVE  \A cell \in Cells :
           Written(memory, registers, RowsOfBox(Bytes(picture), box))[cell] =
             IF cell \in CellsOf(box) THEN Filled(picture)[cell] ELSE memory[cell]
<1>1. \E x, w, xe, y, h, ye :
         /\ x = box.x \div 8 /\ w = box.width \div 8
         /\ xe = (box.x + box.width) \div 8
         /\ y = box.y /\ h = box.height /\ ye = box.y + box.height
  OBVIOUS
<1>2. PICK x, w, xe, y, h, ye :
         /\ x = box.x \div 8 /\ w = box.width \div 8
         /\ xe = (box.x + box.width) \div 8
         /\ y = box.y /\ h = box.height /\ ye = box.y + box.height
  BY <1>1
<1>3. /\ x \in Nat /\ w \in Nat \ {0} /\ y \in Nat /\ h \in Nat \ {0}
      /\ xe = x + w /\ ye = y + h /\ Bounds(registers, x, y, w, h)
      /\ xe \in Nat /\ ye \in Nat /\ x < xe /\ y < ye
      /\ xe - x = w /\ ye - y = h /\ x + w - 1 = xe - 1 /\ y + h - 1 = ye - 1
  BY <1>2, BoxInBytes DEF Aligned, OnPanel, BoxBounds
<1>4. \A cell \in Cells :
        cell \in CellsOf(box) <=> cell \in (x..(x + w - 1)) \X (y..(y + h - 1))
  BY <1>2, CellsAreWindow
<1> DEFINE data == RowsOf(Bytes(picture), x, xe, y, ye)
<1>5. \A cell \in Cells :
        Written(memory, registers, data)[cell] =
          IF cell \in (x..(x + w - 1)) \X (y..(y + h - 1))
          THEN Filled(picture)[cell] ELSE memory[cell]
  <2>1. Bounds(registers, x, y, xe - x, ye - y)
    BY <1>3
  <2>2. \A cell \in Cells :
        Written(memory, registers, data)[cell] =
          IF cell \in (x..(xe - 1)) \X (y..(ye - 1))
          THEN Filled(picture)[cell] ELSE memory[cell]
    BY <1>3, <2>1, RowsLand
  <2>3. QED
    BY <1>3, <2>2
<1>6. data = RowsOfBox(Bytes(picture), box)
  BY <1>2 DEF RowsOfBox
<1> HIDE DEF data
<1>7. \A cell \in Cells :
        Written(memory, registers, data)[cell] =
          IF cell \in CellsOf(box) THEN Filled(picture)[cell] ELSE memory[cell]
  BY <1>4, <1>5
<1>8. QED
  BY <1>6, <1>7

-----------------------------------------------------------------------------
(* The controller. *)

(* The registers the streams set. *)
Codes == {\h11, \h21, \h22, \h3C, \h44, \h45, \h4E, \h4F}

(* The controller's own shape. *)
IsController(state) ==
    /\ state = [registers |-> state.registers, memory |-> state.memory,
                glass |-> state.glass]
    /\ state.registers = [code \in Codes |-> state.registers[code]]
    /\ state.memory = [cell \in Cells |-> state.memory[cell]]

(* The registers after a stream of which it is known what it tells last.   *)
Set(registers, told) ==
    [code \in Codes |-> IF code \in DOMAIN told THEN told[code] ELSE registers[code]]

(* Registers, by what is told last. *)
LEMMA RegistersSet ==
  ASSUME NEW before, before = [code \in Codes |-> before[code]],
         NEW stream, NEW told, Tells(stream, told)
  PROVE  Registers(before, stream) = Set(before, told)
<1>1. DOMAIN before = Codes
  OBVIOUS
<1>2. /\ DOMAIN Registers(before, stream) = DOMAIN before
      /\ \A code \in DOMAIN before :
           Registers(before, stream)[code] =
             IF code \in DOMAIN told THEN told[code] ELSE before[code]
  BY RegistersTold
<1>3. Registers(before, stream) =
        [code \in DOMAIN before |-> Registers(before, stream)[code]]
  BY DEF Registers
<1> DEFINE now == Registers(before, stream)
<1> HIDE DEF now
<1>4. now = [code \in Codes |-> now[code]]
  BY <1>1, <1>3 DEF now
<1>5. \A code \in Codes :
        now[code] = IF code \in DOMAIN told THEN told[code] ELSE before[code]
  BY <1>1, <1>2 DEF now
<1>6. now = Set(before, told)
  BY <1>4, <1>5 DEF Set
<1>7. QED
  BY <1>6 DEF now

(* A stream that writes no memory only sets registers. *)
LEMMA ObeyedQuietly ==
  ASSUME NEW state, IsController(state), NEW stream, NEW told, Tells(stream, told),
         \h24 \notin DOMAIN told
  PROVE  Obeyed(state, stream) =
           [registers |-> Set(state.registers, told), memory |-> state.memory,
            glass |-> state.glass]
<1>1. Registers(state.registers, stream) = Set(state.registers, told)
  BY RegistersSet DEF IsController
<1>2. ~\E position \in DOMAIN stream : stream[position].code = \h24
  BY DEF Tells, Spares
<1>3. Obeyed(state, stream) = [state EXCEPT !.registers = Registers(state.registers, stream)]
  BY <1>2 DEF Obeyed
<1>4. QED
  BY <1>1, <1>3 DEF IsController

(* A stream that writes the memory writes it under the registers it sets.  *)
LEMMA ObeyedWriting ==
  ASSUME NEW state, IsController(state), NEW stream, NEW told, Tells(stream, told),
         \h24 \in DOMAIN told
  PROVE  Obeyed(state, stream) =
           [registers |-> Set(state.registers, told),
            memory |-> Written(state.memory, Set(state.registers, told), told[\h24]),
            glass |-> state.glass]
<1> DEFINE now == Registers(state.registers, stream)
<1>1. now = Set(state.registers, told)
  BY RegistersSet DEF IsController
<1>2. Sends(stream, \h24, told[\h24]) /\ IsStream(stream)
  BY DEF Tells
<1>3. \E position \in DOMAIN stream : stream[position].code = \h24
  BY <1>2 DEF Sends
<1>4. LastSent(stream, \h24) = told[\h24]
  BY <1>2, SentLast
<1>5. Obeyed(state, stream) =
        [state EXCEPT !.registers = now,
                      !.memory = Written(state.memory, now, LastSent(stream, \h24))]
  BY <1>3 DEF Obeyed
<1> HIDE DEF now
<1>6. QED
  BY <1>1, <1>4, <1>5 DEF IsController

(* Nothing sent, nothing changed. *)
LEMMA ObeyedNothing ==
  ASSUME NEW state, IsController(state)
  PROVE  Obeyed(state, <<>>) = state
<1>1. ~\E position \in DOMAIN <<>> : <<>>[position].code = \h24
  OBVIOUS
<1>2. Registers(state.registers, <<>>) = [code \in DOMAIN state.registers |-> state.registers[code]]
  BY DEF Registers
<1>3. DOMAIN state.registers = Codes
  BY DEF IsController
<1>4. Registers(state.registers, <<>>) = state.registers
  BY <1>2, <1>3 DEF IsController
<1>5. Obeyed(state, <<>>) = [state EXCEPT !.registers = Registers(state.registers, <<>>)]
  BY <1>1 DEF Obeyed
<1>6. QED
  BY <1>4, <1>5 DEF IsController

(* The registers a refresh runs under are those of its own mode. *)
ModeOf(registers) ==
    /\ registers[\h11] = <<3>>
    /\ registers[\h22] = <<\hF7>> => registers[\h21] = <<\h40, 0>> /\ registers[\h3C] = <<5>>
    /\ registers[\h22] = <<\hFF>> => registers[\h21] = <<0, 0>> /\ registers[\h3C] = <<\h80>>

(* A full pass, whatever came before: the memory is the frame. *)
LEMMA FullObeyed ==
  ASSUME NEW state, IsController(state), state.registers[\h11] = << 3 >>, NEW picture
  PROVE  /\ IsController(Obeyed(state, FullStream(Bytes(picture))))
         /\ ModeOf(Obeyed(state, FullStream(Bytes(picture))).registers)
         /\ Obeyed(state, FullStream(Bytes(picture))).memory = Filled(picture)
         /\ Obeyed(state, FullStream(Bytes(picture))).glass = state.glass
<1> DEFINE told == FullTold(Bytes(picture))
           registers == Set(state.registers, told)
           stream == FullStream(Bytes(picture))
<1>1. /\ DOMAIN told = {\h20, \h21, \h22, \h24, \h26, \h3C, \h44, \h45, \h4E, \h4F}
      /\ told[\h21] = <<\h40, 0>> /\ told[\h3C] = <<5>> /\ told[\h22] = <<\hF7>>
      /\ told[\h44] = <<Low(0 \div 8), Low((PanelWidth - 1) \div 8)>>
      /\ told[\h45] = <<Low(0), Low(High(0)),
                        Low(PanelHeight - 1), Low(High(PanelHeight - 1))>>
      /\ told[\h4E] = <<Low(0)>> /\ told[\h4F] = <<Low(0), Low(High(0))>>
      /\ told[\h24] = WholeFrame(Bytes(picture))
  BY FullSays
<1>2. Tells(stream, told)
  BY FullTells
<1> HIDE DEF told, stream
<1>3. /\ registers[\h11] = <<3>> /\ registers[\h21] = told[\h21]
      /\ registers[\h22] = told[\h22] /\ registers[\h3C] = told[\h3C]
      /\ registers[\h44] = told[\h44] /\ registers[\h45] = told[\h45]
      /\ registers[\h4E] = told[\h4E] /\ registers[\h4F] = told[\h4F]
  BY <1>1 DEF Set, Codes
<1>4. registers = [code \in Codes |-> registers[code]]
  BY DEF Set
<1>5. Obeyed(state, stream) =
        [registers |-> registers, memory |-> Written(state.memory, registers, told[\h24]),
         glass |-> state.glass]
  BY <1>1, <1>2, ObeyedWriting
<1> HIDE DEF registers
<1>6. Bounds(registers, 0, 0, BytesPerRow, PanelHeight)
  BY <1>1, <1>3, FullBounds
<1>7. Written(state.memory, registers, told[\h24]) = Filled(picture)
  <2>1. \E o \in Nat : o = 0 /\ Bounds(registers, o, o, BytesPerRow, PanelHeight)
    BY <1>6
  <2>2. PICK o \in Nat : o = 0 /\ Bounds(registers, o, o, BytesPerRow, PanelHeight)
    BY <2>1
  <2>3. QED
    BY <1>1, <2>2, FullWritten
<1>8. ModeOf(registers)
  <2>1. <<\hF7>> # <<\hFF>>
    OBVIOUS
  <2>2. QED
    BY <1>1, <1>3, <2>1 DEF ModeOf
<1>9. Filled(picture) = [cell \in Cells |-> Filled(picture)[cell]]
  BY DEF Filled
<1> DEFINE after == Obeyed(state, stream)
<1>10. after = [registers |-> registers, memory |-> Filled(picture), glass |-> state.glass]
  BY <1>5, <1>7
<1> HIDE DEF after
<1>11. /\ IsController(after) /\ ModeOf(after.registers)
       /\ after.memory = Filled(picture) /\ after.glass = state.glass
  BY <1>4, <1>8, <1>9, <1>10 DEF IsController
<1>12. QED
  BY <1>11 DEF after, stream

(* A partial pass of a region's rectangle: its bytes are the frame's, the  *)
(* others are as they were.                                                *)
LEMMA PartialObeyed ==
  ASSUME NEW state, IsController(state), state.registers[\h11] = << 3 >>, NEW picture,
         NEW box, Aligned(box)
  PROVE  /\ IsController(Obeyed(state, PartialStream(Bytes(picture), box)))
         /\ ModeOf(Obeyed(state, PartialStream(Bytes(picture), box)).registers)
         /\ \A cell \in Cells :
              Obeyed(state, PartialStream(Bytes(picture), box)).memory[cell] =
                IF cell \in CellsOf(box) THEN Filled(picture)[cell]
                ELSE state.memory[cell]
         /\ Obeyed(state, PartialStream(Bytes(picture), box)).glass = state.glass
<1> DEFINE told == PartialTold(Bytes(picture), box)
           registers == Set(state.registers, told)
           stream == PartialStream(Bytes(picture), box)
           x == box.x \div 8
           w == box.width \div 8
           xe == (box.x + box.width) \div 8
           ye == box.y + box.height
<1>1. /\ DOMAIN told = {\h20, \h21, \h22, \h24, \h3C, \h44, \h45, \h4E, \h4F}
      /\ told[\h21] = <<0, 0>> /\ told[\h3C] = <<\h80>> /\ told[\h22] = <<\hFF>>
      /\ told[\h44] = <<Low(x), Low(xe - 1)>>
      /\ told[\h45] = <<Low(box.y), High(box.y) % 2, Low(ye - 1), High(ye - 1) % 2>>
      /\ told[\h4E] = <<Low(x)>>
      /\ told[\h4F] = <<Low(box.y), Low(High(box.y))>>
      /\ told[\h24] = RowsOf(Bytes(picture), x, xe, box.y, ye)
  BY PartialSays
<1>2. Tells(stream, told)
  BY PartialTells DEF Aligned
<1> HIDE DEF told, stream
<1>3. /\ registers[\h11] = <<3>> /\ registers[\h21] = told[\h21]
      /\ registers[\h22] = told[\h22] /\ registers[\h3C] = told[\h3C]
      /\ registers[\h44] = told[\h44] /\ registers[\h45] = told[\h45]
      /\ registers[\h4E] = told[\h4E] /\ registers[\h4F] = told[\h4F]
  BY <1>1 DEF Set, Codes
<1>4. registers = [code \in Codes |-> registers[code]]
  BY DEF Set
<1>5. Obeyed(state, stream) =
        [registers |-> registers, memory |-> Written(state.memory, registers, told[\h24]),
         glass |-> state.glass]
  BY <1>1, <1>2, ObeyedWriting
<1> HIDE DEF registers
<1>6. BoxBounds(registers, box)
  <2>1. BoxSent(registers, box)
    <3>1. registers[\h44] = <<Low(x), Low(xe - 1)>>
      BY <1>1, <1>3
    <3>2. registers[\h45] = <<Low(box.y), High(box.y) % 2, Low(ye - 1), High(ye - 1) % 2>>
      BY <1>1, <1>3
    <3>3. /\ registers[\h4E] = <<Low(x)>>
          /\ registers[\h4F] = <<Low(box.y), Low(High(box.y))>>
      BY <1>1, <1>3
    <3>4. QED
      BY <3>1, <3>2, <3>3 DEF BoxSent
  <2>2. QED
    BY <2>1, PartialBounds
<1> DEFINE memory == Written(state.memory, registers, told[\h24])
<1>7. /\ told[\h24] = RowsOfBox(Bytes(picture), box)
      /\ \A cell \in Cells :
        Written(state.memory, registers, RowsOfBox(Bytes(picture), box))[cell] =
          IF cell \in CellsOf(box) THEN Filled(picture)[cell] ELSE state.memory[cell]
  <2>1. told[\h24] = RowsOfBox(Bytes(picture), box)
    BY <1>1 DEF RowsOfBox
  <2>2. QED
    BY <2>1, <1>6, PartialWritten
<1>8. \A cell \in Cells :
        memory[cell] = IF cell \in CellsOf(box) THEN Filled(picture)[cell]
                       ELSE state.memory[cell]
  BY <1>7
<1>9. memory = [cell \in Cells |-> memory[cell]]
  BY WrittenIsMemory
<1>10. ModeOf(registers)
  <2>1. <<\hF7>> # <<\hFF>>
    OBVIOUS
  <2>2. QED
    BY <1>1, <1>3, <2>1 DEF ModeOf
<1> DEFINE after == Obeyed(state, stream)
<1>11. after = [registers |-> registers, memory |-> memory, glass |-> state.glass]
  BY <1>5
<1> HIDE DEF after, memory
<1>12. /\ IsController(after) /\ ModeOf(after.registers)
       /\ after.memory = memory /\ after.glass = state.glass
  BY <1>4, <1>9, <1>10, <1>11 DEF IsController
<1>13. QED
  BY <1>8, <1>12 DEF after, stream

(* The reset and the driver's initialisation leave the data entry mode set.*)
LEMMA InitObeyed ==
  /\ IsController(Obeyed(AfterReset, DriverInit))
  /\ Obeyed(AfterReset, DriverInit).registers[\h11] = <<3>>
<1> DEFINE state == AfterReset
           registers == Set(state.registers, InitTold)
<1>1. IsController(state)
  BY DEF AfterReset, IsController, Codes
<1>2. /\ \h24 \notin DOMAIN InitTold /\ \h11 \in DOMAIN InitTold
      /\ InitTold[\h11] = <<3>>
  BY InitSays
<1> HIDE DEF state
<1>3. Obeyed(state, DriverInit) =
        [registers |-> registers, memory |-> state.memory, glass |-> state.glass]
  BY <1>1, <1>2, InitTells, ObeyedQuietly
<1>4. registers = [code \in Codes |-> registers[code]]
  BY DEF Set
<1>5. registers[\h11] = <<3>>
  BY <1>2 DEF Set, Codes
<1> HIDE DEF registers
<1> DEFINE after == Obeyed(state, DriverInit)
<1> HIDE DEF after
<1>6. IsController(after) /\ after.registers[\h11] = <<3>>
  BY <1>1, <1>3, <1>4, <1>5 DEF IsController, after
<1>7. QED
  BY <1>6 DEF after, state

-----------------------------------------------------------------------------
(* The loop. *)

(* Every cell of a region's rectangle is that region's, and no other is.   *)
LEMMA AreaOfCell ==
  ASSUME NEW region \in Regions, NEW cell \in Cells
  PROVE  cell \in CellsOf(Box[region]) <=> AreaAt[cell] = region
<1>1. \A other \in Regions : CellsIn[other] = CellsOf(Box[other])
  BY DEF CellsIn
<1>2. \A one, other \in Regions :
        cell \in CellsIn[one] /\ cell \in CellsIn[other] => one = other
  BY <1>1, BoxAssumption
<1>3. ASSUME cell \in CellsOf(Box[region]) PROVE AreaAt[cell] = region
  <2>1. cell \in CellsIn[region]
    BY <1>1, <1>3
  <2>2. AreaAt[cell] = CHOOSE other \in Regions : cell \in CellsIn[other]
    BY <2>1 DEF AreaAt
  <2>3. QED
    BY <1>2, <2>1, <2>2
<1>4. ASSUME AreaAt[cell] = region PROVE cell \in CellsOf(Box[region])
  <2>1. region # "Strip"
    BY DEF Regions
  <2>2. \E other \in Regions : cell \in CellsIn[other]
    BY <1>4, <2>1 DEF AreaAt
  <2>3. AreaAt[cell] = CHOOSE other \in Regions : cell \in CellsIn[other]
    BY <2>2 DEF AreaAt
  <2>4. cell \in CellsIn[region]
    BY <1>4, <2>2, <2>3
  <2>5. QED
    BY <1>1, <2>4
<1>5. QED
  BY <1>3, <1>4

(* Every cell is in an area of the layout. *)
LEMMA AreaOfAny ==
  ASSUME NEW cell \in Cells
  PROVE  AreaAt[cell] \in Areas
<1>1. CASE \E region \in Regions : cell \in CellsIn[region]
  <2>1. AreaAt[cell] \in Regions
    BY <1>1 DEF AreaAt
  <2>2. QED
    BY <2>1 DEF Areas
<1>2. CASE ~\E region \in Regions : cell \in CellsIn[region]
  BY <1>2 DEF AreaAt, Areas
<1>3. QED
  BY <1>1, <1>2

(* A region's rectangle is byte aligned and on the panel. *)
LEMMA BoxIsAligned ==
  ASSUME NEW region \in Regions
  PROVE  Aligned(Box[region])
<1> DEFINE box == Box[region]
<1>1. /\ box \in [x : 0..PanelWidth, y : 0..PanelHeight,
                  width : 1..PanelWidth, height : 1..PanelHeight]
      /\ box.x % 8 = 0 /\ box.width % 8 = 0
      /\ box.x + box.width <= PanelWidth /\ box.y + box.height <= PanelHeight
  BY BoxAssumption
<1> HIDE DEF box
<1>2. box.x \in Nat /\ box.y \in Nat /\ box.width \in Nat \ {0} /\ box.height \in Nat \ {0}
  BY <1>1, PanelSize
<1>3. Aligned(box)
  BY <1>1, <1>2 DEF Aligned, OnPanel
<1>4. QED
  BY <1>3 DEF box

(* A counter that moves does not stand, however narrow it is. *)
LEMMA CounterMoves ==
  ASSUME NEW n \in 0..(CounterModulus - 1)
  PROVE  (n + 1) % CounterModulus # n
<1>1. CounterModulus \in Nat /\ CounterModulus > 1
  BY CounterAssumption, PanelAssumption
<1>2. CASE n + 1 < CounterModulus
  BY <1>1, <1>2
<1>3. CASE n + 1 = CounterModulus
  BY <1>1, <1>3
<1>4. QED
  BY <1>1, <1>2, <1>3

(* The controller mirrors the panel of the refresher, byte for byte, under *)
(* the registers of the last pass.                                         *)
Mirrors(state, memory, glass) ==
    /\ IsController(state)
    /\ ModeOf(state.registers)
    /\ state.memory = Filled(memory)
    /\ state.glass = Filled(glass)

PanelIInv == IInv /\ Mirrors(controller, panel.memory, panel.glass)

(* What fills the memory is what the areas show. *)
LEMMA FilledSame ==
  ASSUME NEW one, NEW other, \A area \in Areas : one[area] = other[area]
  PROVE  Filled(one) = Filled(other)
BY AreaOfAny DEF Filled

(* A full pass: the memory becomes the new frame. *)
LEMMA FullMirrors ==
  ASSUME NEW state, NEW memory, NEW glass, Mirrors(state, memory, glass),
         NEW picture, NEW after, \A area \in Areas : after[area] = picture[area]
  PROVE  Mirrors(Obeyed(state, FullStream(Bytes(picture))), after, glass)
<1> DEFINE now == Obeyed(state, FullStream(Bytes(picture)))
<1>1. /\ IsController(now) /\ ModeOf(now.registers)
      /\ now.memory = Filled(picture) /\ now.glass = state.glass
  BY FullObeyed DEF Mirrors, ModeOf
<1>2. Filled(after) = Filled(picture)
  BY FilledSame
<1> HIDE DEF now
<1>3. Mirrors(now, after, glass)
  BY <1>1, <1>2 DEF Mirrors
<1>4. QED
  BY <1>3 DEF now

(* A partial pass: one region becomes the frame's, the others stay. *)
LEMMA PartialMirrors ==
  ASSUME NEW state, NEW memory, NEW glass, Mirrors(state, memory, glass),
         NEW picture, NEW region \in Regions, NEW after,
         \A area \in Areas : after[area] = IF area \in {region} THEN picture[area]
                                           ELSE memory[area]
  PROVE  Mirrors(Obeyed(state, PartialStream(Bytes(picture), Box[region])), after, glass)
<1> DEFINE now == Obeyed(state, PartialStream(Bytes(picture), Box[region]))
<1>1. Aligned(Box[region])
  BY BoxIsAligned
<1>2. /\ IsController(now) /\ ModeOf(now.registers)
      /\ \A cell \in Cells :
           now.memory[cell] = IF cell \in CellsOf(Box[region]) THEN Filled(picture)[cell]
                              ELSE state.memory[cell]
      /\ now.glass = state.glass
  BY <1>1, PartialObeyed DEF Mirrors, ModeOf
<1> HIDE DEF now
<1>3. ASSUME NEW cell \in Cells PROVE now.memory[cell] = Filled(after)[cell]
  <2>1. AreaAt[cell] \in Areas
    BY AreaOfAny
  <2>2. Filled(after)[cell] = <<after[AreaAt[cell]], cell>>
    BY DEF Filled
  <2>3. CASE cell \in CellsOf(Box[region])
    <3>1. AreaAt[cell] = region
      BY <2>3, AreaOfCell
    <3>2. now.memory[cell] = Filled(picture)[cell]
      BY <1>2, <2>3
    <3>3. QED
      BY <2>1, <2>2, <3>1, <3>2 DEF Filled
  <2>4. CASE cell \notin CellsOf(Box[region])
    <3>1. AreaAt[cell] # region
      BY <2>4, AreaOfCell
    <3>2. now.memory[cell] = Filled(memory)[cell]
      BY <1>2, <2>4 DEF Mirrors
    <3>3. QED
      BY <2>1, <2>2, <3>1, <3>2 DEF Filled
  <2>5. QED
    BY <2>3, <2>4
<1>4. now.memory = Filled(after)
  <2>1. now.memory = [cell \in Cells |-> now.memory[cell]]
    BY <1>2 DEF IsController
  <2>2. QED
    BY <1>3, <2>1 DEF Filled
<1>5. Mirrors(now, after, glass)
  BY <1>2, <1>4 DEF Mirrors
<1>6. QED
  BY <1>5 DEF now

(* Rounds that begin no pass send nothing. *)
LEMMA QuietRound ==
  ASSUME PanelIInv, NEW target, StillRefreshing(target) \/ NothingToShow(target)
  PROVE  Sent = <<>> /\ UNCHANGED panel
<1>1. /\ refresher'.full_refreshes = refresher.full_refreshes
      /\ refresher'.partial_refreshes = refresher.partial_refreshes
      /\ UNCHANGED panel
  BY DEF StillRefreshing, NothingToShow, PanelIInv, IInv, TypeOK, Refreshers
<1>2. QED
  BY <1>1 DEF Sent

(* A partial pass counts itself, and sends the first region that waits. *)
LEMMA PartialSent ==
  ASSUME PanelIInv, NEW state \in Refreshers,
         state.full_refreshes = refresher.full_refreshes,
         state.partial_refreshes = refresher.partial_refreshes,
         NEW regions, regions \subseteq PartialRegions, regions # {},
         IF refresher.pending_regions # {} THEN regions = refresher.pending_regions
         ELSE regions = ChangedRegions(refresher.shown, state.target),
         BeginPartial(state, regions, frame')
  PROVE  /\ Sent = PartialStream(Bytes(frame'), Box[FirstRegion(regions)])
         /\ FirstRegion(regions) \in Regions
         /\ panel'.glass = panel.glass
         /\ \A area \in Areas :
              panel'.memory[area] = IF area \in {FirstRegion(regions)} THEN frame'[area]
                                    ELSE panel.memory[area]
<1> DEFINE region == FirstRegion(regions)
<1>1. region \in regions
  BY FirstRegionType
<1>2. /\ Begin({region}, frame')
      /\ refresher' = [state EXCEPT
           !.pending_regions = regions \ {region},
           !.refresh_in_progress = TRUE,
           !.partial_refreshes = (@ + 1) % CounterModulus]
  BY DEF BeginPartial
<1> HIDE DEF region
<1>3. /\ refresher'.full_refreshes = refresher.full_refreshes
      /\ refresher'.partial_refreshes = (refresher.partial_refreshes + 1) % CounterModulus
      /\ refresher'.target = state.target
  BY <1>2 DEF Refreshers
<1>4. refresher.partial_refreshes \in 0..(CounterModulus - 1)
  BY DEF PanelIInv, IInv, TypeOK, Refreshers
<1>5. refresher'.partial_refreshes # refresher.partial_refreshes
  BY <1>3, <1>4, CounterMoves
<1>6. Sent = PartialStream(Bytes(frame'), Box[region])
  BY <1>3, <1>5 DEF Sent, region
<1>7. panel = [memory |-> panel.memory, glass |-> panel.glass,
               busy |-> panel.busy, interrupted |-> panel.interrupted]
  BY DEF PanelIInv, IInv, PanelFollowsFrame
<1>8. panel' = [memory |-> [area \in Areas |-> IF area \in {region}
                              THEN frame'[area] ELSE panel.memory[area]],
                glass |-> panel.glass, busy |-> TRUE,
                interrupted |-> panel.interrupted \/ panel.busy]
  BY <1>2, <1>7 DEF Begin
<1>9. region \in Regions
  BY <1>1 DEF PartialRegions, Regions
<1>10. QED
  BY <1>6, <1>8, <1>9 DEF region

(* A round, whatever it sends. *)
LEMMA RoundMirrors ==
  ASSUME PanelIInv, NEW long \in BOOLEAN, NEW says \in Views, PanelRound(long, says)
  PROVE  Mirrors(controller', panel'.memory, panel'.glass)
<1> DEFINE target == Compose(says, Toggled(long))
<1>1. Step(target) /\ controller' = Obeyed(controller, Sent)
  BY DEF PanelRound, Round, Step
<1>2. /\ Mirrors(controller, panel.memory, panel.glass)
      /\ refresher \in Refreshers /\ refresher.pending_regions \subseteq PartialRegions
      /\ panel = [memory |-> panel.memory, glass |-> panel.glass,
                  busy |-> panel.busy, interrupted |-> panel.interrupted]
  BY DEF PanelIInv, IInv, TypeOK, PanelFollowsFrame, PassesAreCounted
<1>3. target \in DisplayStates
  <2>1. Toggled(long) \in BOOLEAN /\ says \in SessionViews
    BY ViewsAssumption DEF Toggled, PanelIInv, IInv, TypeOK
  <2>2. QED
    BY <2>1, ComposeType DEF PanelIInv, IInv
<1> HIDE DEF target
<1>4. CASE StillRefreshing(target) \/ NothingToShow(target)
  <2>1. Sent = <<>> /\ UNCHANGED panel
    BY <1>4, QuietRound
  <2>2. controller' = controller
    BY <1>1, <1>2, <2>1, ObeyedNothing DEF Mirrors
  <2>3. QED
    BY <1>2, <2>1, <2>2
<1>5. ASSUME NEW state \in Refreshers,
             state.full_refreshes = refresher.full_refreshes,
             state.partial_refreshes = refresher.partial_refreshes,
             NEW regions, regions \subseteq PartialRegions, regions # {},
             IF refresher.pending_regions # {} THEN regions = refresher.pending_regions
             ELSE regions = ChangedRegions(refresher.shown, state.target),
             BeginPartial(state, regions, frame')
      PROVE  Mirrors(controller', panel'.memory, panel'.glass)
  <2>1. /\ Sent = PartialStream(Bytes(frame'), Box[FirstRegion(regions)])
        /\ FirstRegion(regions) \in Regions
        /\ panel'.glass = panel.glass
        /\ \A area \in Areas :
             panel'.memory[area] = IF area \in {FirstRegion(regions)} THEN frame'[area]
                                   ELSE panel.memory[area]
    BY <1>5, PartialSent
  <2>2. Mirrors(Obeyed(controller, PartialStream(Bytes(frame'), Box[FirstRegion(regions)])),
                panel'.memory, panel.glass)
    BY <1>2, <2>1, PartialMirrors
  <2>3. QED
    BY <1>1, <2>1, <2>2
<1>6. CASE SendNextRegion(target)
  <2> DEFINE state == [refresher EXCEPT !.target = target]
  <2>1. /\ BeginPartial(state, refresher.pending_regions, frame)
        /\ refresher.pending_regions # {} /\ frame' = frame
    BY <1>6 DEF SendNextRegion
  <2>2. /\ state \in Refreshers
        /\ state.full_refreshes = refresher.full_refreshes
        /\ state.partial_refreshes = refresher.partial_refreshes
    BY <1>2, <1>3 DEF Refreshers
  <2> HIDE DEF state
  <2>3. BeginPartial(state, refresher.pending_regions, frame')
    BY <2>1
  <2>4. QED
    BY <1>2, <1>5, <2>1, <2>2, <2>3
<1>7. CASE PartialRefresh(target)
  <2> DEFINE changed == ChangedRegions(refresher.shown, target)
             state == [refresher EXCEPT !.target = target, !.shown = target,
                                        !.partials_since_full = @ + 1]
  <2>1. /\ refresher.pending_regions = {}
        /\ changed # {} /\ "Code" \notin changed /\ ~ForcedFullIsDue
        /\ BeginPartial(state, changed, frame')
    BY <1>7 DEF PartialRefresh
  <2>2. refresher.partials_since_full + 1 \in 0..(PartialsBeforeForcedFull - 1)
    BY <1>2, <2>1, ForcedFullAssumption DEF ForcedFullIsDue, Refreshers
  <2>3. /\ state \in Refreshers /\ state.target = target
        /\ state.full_refreshes = refresher.full_refreshes
        /\ state.partial_refreshes = refresher.partial_refreshes
    BY <1>2, <1>3, <2>2 DEF Refreshers
  <2>4. changed \subseteq PartialRegions
    BY <2>1, PartialChange
  <2>5. changed = ChangedRegions(refresher.shown, state.target)
    BY <2>3
  <2> HIDE DEF state, changed
  <2>6. QED
    BY <1>5, <2>1, <2>3, <2>4, <2>5
<1>8. CASE FullRefresh(target)
  <2>1. /\ Begin(Areas, frame')
        /\ refresher' = [refresher EXCEPT
             !.target = target, !.shown = target,
             !.partials_since_full = 0, !.refresh_in_progress = TRUE,
             !.full_refreshes = (@ + 1) % CounterModulus]
    BY <1>8 DEF FullRefresh
  <2>2. /\ refresher'.full_refreshes = (refresher.full_refreshes + 1) % CounterModulus
        /\ refresher.full_refreshes \in 0..(CounterModulus - 1)
    BY <1>2, <2>1 DEF Refreshers
  <2>3. Sent = FullStream(Bytes(frame'))
    BY <2>2, CounterMoves DEF Sent
  <2>4. panel' = [memory |-> [area \in Areas |-> IF area \in Areas
                                THEN frame'[area] ELSE panel.memory[area]],
                  glass |-> panel.glass, busy |-> TRUE,
                  interrupted |-> panel.interrupted \/ panel.busy]
    BY <1>2, <2>1 DEF Begin
  <2>5. /\ panel'.glass = panel.glass
        /\ \A area \in Areas : panel'.memory[area] = frame'[area]
    BY <2>4
  <2>6. Mirrors(Obeyed(controller, FullStream(Bytes(frame'))), panel'.memory, panel.glass)
    BY <1>2, <2>5, FullMirrors
  <2>7. QED
    BY <1>1, <2>3, <2>5, <2>6
<1>9. QED
  BY <1>1, <1>4, <1>6, <1>7, <1>8 DEF Step

(* A pass that ends: the glass takes the memory, here as there. *)
LEMMA PassEndsMirrors ==
  ASSUME PanelIInv, PassEnds
  PROVE  Mirrors(controller', panel'.memory, panel'.glass)
<1>1. /\ panel' = [panel EXCEPT !.busy = FALSE, !.glass = panel.memory]
      /\ controller' = [controller EXCEPT !.glass = controller.memory]
  BY DEF PassEnds, PanelFinishes, Settled
<1>2. panel = [memory |-> panel.memory, glass |-> panel.glass,
               busy |-> panel.busy, interrupted |-> panel.interrupted]
  BY DEF PanelIInv, IInv, PanelFollowsFrame
<1>3. panel'.memory = panel.memory /\ panel'.glass = panel.memory
  BY <1>1, <1>2
<1>4. /\ IsController(controller) /\ ModeOf(controller.registers)
      /\ controller.memory = Filled(panel.memory)
  BY DEF PanelIInv, Mirrors
<1>5. controller' = [registers |-> controller.registers, memory |-> controller.memory,
                     glass |-> controller.memory]
  BY <1>1, <1>4 DEF IsController
<1>6. QED
  BY <1>3, <1>4, <1>5 DEF Mirrors, IsController

(* The first frame, sent and waited for. *)
LEMMA PanelInitIInv == PanelInit => PanelIInv
<1> SUFFICES ASSUME PanelInit PROVE PanelIInv
  OBVIOUS
<1>1. /\ Init
      /\ controller = Settled(Obeyed(Obeyed(AfterReset, DriverInit),
                                     FullStream(Bytes(frame))))
  BY DEF PanelInit
<1> DEFINE begun == Obeyed(AfterReset, DriverInit)
           sent == Obeyed(begun, FullStream(Bytes(frame)))
<1>2. IsController(begun) /\ begun.registers[\h11] = <<3>>
  BY InitObeyed
<1> HIDE DEF begun
<1>3. /\ IsController(sent) /\ ModeOf(sent.registers)
      /\ sent.memory = Filled(frame)
  BY <1>2, FullObeyed
<1>4. controller = [sent EXCEPT !.glass = sent.memory]
  BY <1>1 DEF Settled, begun
<1> HIDE DEF sent
<1>5. controller = [registers |-> sent.registers, memory |-> sent.memory,
                    glass |-> sent.memory]
  BY <1>3, <1>4 DEF IsController
<1>6. panel.memory = frame /\ panel.glass = frame
  BY <1>1 DEF Init
<1>7. Mirrors(controller, panel.memory, panel.glass)
  BY <1>3, <1>5, <1>6 DEF Mirrors, IsController
<1>8. QED
  BY <1>1, <1>7, InitIInv DEF PanelIInv

(* Every step of the panel's loop keeps the controller a mirror. *)
LEMMA PanelNextIInv == PanelIInv /\ [PanelNext]_panel_vars => PanelIInv'
<1> SUFFICES ASSUME PanelIInv, [PanelNext]_panel_vars PROVE PanelIInv'
  OBVIOUS
<1>1. ASSUME NEW long \in BOOLEAN, NEW says \in Views, PanelRound(long, says)
      PROVE  PanelIInv'
  <2>1. IInv'
    BY <1>1, RoundIInv DEF PanelIInv, PanelRound
  <2>2. Mirrors(controller', panel'.memory, panel'.glass)
    BY <1>1, RoundMirrors
  <2>3. QED
    BY <2>1, <2>2 DEF PanelIInv
<1>2. CASE PassEnds
  <2>1. IInv'
    BY <1>2, PanelFinishesIInv DEF PanelIInv, PassEnds
  <2>2. Mirrors(controller', panel'.memory, panel'.glass)
    BY <1>2, PassEndsMirrors
  <2>3. QED
    BY <2>1, <2>2 DEF PanelIInv
<1>3. CASE UNCHANGED panel_vars
  <2>1. UNCHANGED vars /\ controller' = controller /\ panel' = panel
    BY <1>3 DEF panel_vars, vars
  <2>2. IInv'
    BY <2>1, NextIInv DEF PanelIInv
  <2>3. QED
    BY <2>1, <2>2 DEF PanelIInv
<1>4. QED
  BY <1>1, <1>2, <1>3 DEF PanelNext

(* The invariant the two theorems rest on. *)
THEOREM PanelInvariance == PanelSpec => []PanelIInv
BY PanelInitIInv, PanelNextIInv, PTL DEF PanelSpec

(* However full and partial passes alternate, each runs under the registers *)
(* of its own mode, on any panel and whatever the regions.                 *)
THEOREM ModesAreRight == PanelSpec => []ModesMatch
<1>1. PanelIInv => ModesMatch
  BY DEF PanelIInv, Mirrors, ModeOf, ModesMatch
<1>2. QED
  BY <1>1, PanelInvariance, PTL

(* Every byte lands in its own place, whatever passes came before: the     *)
(* memory of the controller is the frame's bytes, and so is the glass, for *)
(* every geometry of the panel and every table of regions apart.           *)
THEOREM MemoryFollowsFrame == PanelSpec => []MemoryIsTheFrame
<1>1. PanelIInv => MemoryIsTheFrame
  BY DEF PanelIInv, Mirrors, Filled, MemoryIsTheFrame
<1>2. QED
  BY <1>1, PanelInvariance, PTL

-----------------------------------------------------------------------------
(* The vendored driver. *)

(* What the driver's own full frame sends last, command by command. *)
DriverTold(bytes) ==
    Over(InitTold,
         Over(Over(Over(One(\h24, WholeFrame(bytes)), One(\h26, WholeFrame(bytes))),
                   One(\h22, <<\hF7>>)),
              One(\h20, <<>>)))

(* What the driver's initialisation and full frame send last. *)
LEMMA DriverTells ==
  ASSUME NEW bytes
  PROVE  Tells(DriverInit \o DriverDisplay(bytes), DriverTold(bytes))
<1> DEFINE a == Command(\h24, WholeFrame(bytes))
           b == Command(\h26, WholeFrame(bytes))
           c == Command(\h22, <<\hF7>>)
           d == Command(\h20, <<>>)
           f == One(\h24, WholeFrame(bytes))
           g == One(\h26, WholeFrame(bytes))
           h == One(\h22, <<\hF7>>)
           k == One(\h20, <<>>)
<1>1. Tells(a, f) /\ Tells(b, g) /\ Tells(c, h) /\ Tells(d, k)
  BY CommandTells
<1> HIDE DEF a, b, c, d, f, g, h, k
<1>2. Tells(a \o b, Over(f, g))
  BY <1>1, JoinedTell
<1>3. Tells(a \o b \o c, Over(Over(f, g), h))
  BY <1>1, <1>2, JoinedTell
<1>4. Tells(a \o b \o c \o d, Over(Over(Over(f, g), h), k))
  BY <1>1, <1>3, JoinedTell
<1>5. Tells(DriverInit \o (a \o b \o c \o d), Over(InitTold, Over(Over(Over(f, g), h), k)))
  BY <1>4, InitTells, JoinedTell
<1>6. QED
  BY <1>5 DEF DriverDisplay, DriverTold, a, b, c, d, f, g, h, k

(* It says what panel.c's full frame says, and the data entry mode besides.*)
LEMMA DriverSays ==
  ASSUME NEW bytes
  PROVE  /\ \h24 \in DOMAIN DriverTold(bytes)
         /\ \A code \in Codes :
              /\ code \in DOMAIN DriverTold(bytes)
              /\ DriverTold(bytes)[code] =
                   IF code = \h11 THEN <<3>> ELSE FullTold(bytes)[code]
         /\ DriverTold(bytes)[\h24] = FullTold(bytes)[\h24]
<1> DEFINE t == DriverTold(bytes)
           u == FullTold(bytes)
           frames == WholeFrame(bytes)
           mode == <<\hF7>>
<1>1. t = Over(InitTold, Over(Over(Over(One(\h24, frames), One(\h26, frames)),
                                   One(\h22, mode)), One(\h20, <<>>)))
  BY DEF DriverTold
<1>2. /\ DOMAIN InitTold = {\h11, \h12, \h21, \h3C, \h44, \h45, \h4E, \h4F}
      /\ InitTold[\h11] = <<3>> /\ InitTold[\h21] = u[\h21] /\ InitTold[\h3C] = u[\h3C]
      /\ InitTold[\h44] = u[\h44] /\ InitTold[\h45] = u[\h45]
      /\ InitTold[\h4E] = u[\h4E] /\ InitTold[\h4F] = u[\h4F]
  BY InitSays, FullSays
<1>3. u[\h22] = mode /\ u[\h24] = frames
  BY FullSays
<1> SUFFICES /\ \h24 \in DOMAIN t
             /\ \A code \in Codes :
                  code \in DOMAIN t /\ t[code] = IF code = \h11 THEN <<3>> ELSE u[code]
             /\ t[\h24] = u[\h24]
  OBVIOUS
<1> HIDE DEF t, u, frames, mode
<1>4. DOMAIN t = {\h11, \h12, \h21, \h3C, \h44, \h45, \h4E, \h4F, \h24, \h26, \h22, \h20}
  BY <1>1, <1>2 DEF Over, One
<1>5. t[\h24] = frames /\ t[\h22] = mode
  <2> DEFINE one == Over(One(\h24, frames), One(\h26, frames))
             two == Over(one, One(\h22, mode))
             three == Over(two, One(\h20, <<>>))
  <2>1. DOMAIN one = {\h24, \h26} /\ one[\h24] = frames
    BY DEF Over, One
  <2> HIDE DEF one
  <2>2. DOMAIN two = {\h24, \h26, \h22} /\ two[\h24] = frames /\ two[\h22] = mode
    BY <2>1 DEF Over, One
  <2> HIDE DEF two
  <2>3. DOMAIN three = {\h24, \h26, \h22, \h20}
        /\ three[\h24] = frames /\ three[\h22] = mode
    BY <2>2 DEF Over, One
  <2>4. t = Over(InitTold, three)
    BY <1>1 DEF two, one
  <2> HIDE DEF three
  <2>5. QED
    BY <2>3, <2>4 DEF Over
<1>6. \A code \in {\h11, \h21, \h3C, \h44, \h45, \h4E, \h4F} : t[code] = InitTold[code]
  BY <1>1, <1>2 DEF Over, One
<1>7. QED
  BY <1>2, <1>3, <1>4, <1>5, <1>6 DEF Codes

(* The full frame panel.c sends without a reset leaves the controller as   *)
(* the driver's initialisation and blocking Display would have: registers, *)
(* memory and glass.                                                       *)
THEOREM FullStreamIsTheDrivers ==
  PanelSpec => [](Obeyed(controller, FullStream(Bytes(frame))) =
                  Obeyed(controller, DriverInit \o DriverDisplay(Bytes(frame))))
<1>1. ASSUME PanelIInv
      PROVE  Obeyed(controller, FullStream(Bytes(frame))) =
               Obeyed(controller, DriverInit \o DriverDisplay(Bytes(frame)))
  <2> DEFINE bytes == Bytes(frame)
             t == DriverTold(bytes)
             u == FullTold(bytes)
             ours == FullStream(bytes)
             theirs == DriverInit \o DriverDisplay(bytes)
             registers == controller.registers
  <2>1. IsController(controller) /\ registers[\h11] = <<3>>
    BY <1>1 DEF PanelIInv, Mirrors, ModeOf
  <2>2. Tells(ours, u) /\ Tells(theirs, t)
    BY FullTells, DriverTells
  <2>3. /\ DOMAIN u = {\h20, \h21, \h22, \h24, \h26, \h3C, \h44, \h45, \h4E, \h4F}
    BY FullSays
  <2>4. /\ \h24 \in DOMAIN t /\ t[\h24] = u[\h24]
        /\ \A code \in Codes :
             code \in DOMAIN t /\ t[code] = IF code = \h11 THEN <<3>> ELSE u[code]
    BY DriverSays
  <2> HIDE DEF bytes, t, u, ours, theirs
  <2>5. Set(registers, t) = Set(registers, u)
    BY <2>1, <2>3, <2>4 DEF Set, Codes
  <2>6. Obeyed(controller, ours) =
          [registers |-> Set(registers, u),
           memory |-> Written(controller.memory, Set(registers, u), u[\h24]),
           glass |-> controller.glass]
    BY <2>1, <2>2, <2>3, ObeyedWriting
  <2>7. Obeyed(controller, theirs) =
          [registers |-> Set(registers, t),
           memory |-> Written(controller.memory, Set(registers, t), t[\h24]),
           glass |-> controller.glass]
    BY <2>1, <2>2, <2>4, ObeyedWriting
  <2>8. Obeyed(controller, ours) = Obeyed(controller, theirs)
    BY <2>4, <2>5, <2>6, <2>7
  <2>9. QED
    BY <2>8 DEF ours, theirs, bytes
<1>2. QED
  BY <1>1, PanelInvariance, PTL

(* The rows of a rectangle are a sequence of as many bytes as it has. *)
LEMMA RowsOfBoxCount ==
  ASSUME NEW bytes, NEW box, Aligned(box)
  PROVE  /\ IsStream(RowsOfBox(bytes, box))
         /\ Len(RowsOfBox(bytes, box)) =
              (((box.x + box.width) \div 8) - (box.x \div 8))
              * ((box.y + box.height) - box.y)
<1> DEFINE x == box.x \div 8
           xe == (box.x + box.width) \div 8
           y == box.y
           ye == box.y + box.height
<1>1. xe - x \in Nat /\ ye - y \in Nat
  BY BoxInBytes DEF Aligned, OnPanel
<1>2. RowsOfBox(bytes, box) = RowsOf(bytes, x, xe, y, ye)
  BY DEF RowsOfBox
<1> HIDE DEF x, xe, y, ye
<1>3. /\ IsStream(RowsOf(bytes, x, xe, y, ye))
      /\ Len(RowsOf(bytes, x, xe, y, ye)) = (xe - x) * (ye - y)
  BY <1>1, RowsCount
<1>4. QED
  BY <1>2, <1>3 DEF x, xe, y, ye

(* A region's partial pass is, command by command and byte by byte, what   *)
(* the driver's PartialDisplay would have sent for the same rows packed.   *)
THEOREM RegionStreamIsTheDrivers ==
  ASSUME NEW region \in Regions, NEW bytes
  PROVE  PartialStream(bytes, Box[region]) =
           DriverPartial(RowsOfBox(bytes, Box[region]), Box[region].x, Box[region].y,
                         Box[region].x + Box[region].width,
                         Box[region].y + Box[region].height)
<1> DEFINE box == Box[region]
           packed == RowsOfBox(bytes, box)
           first == box.x \div 8
           end == (box.x + box.width) \div 8
           bottom == box.y + box.height
           count == (end - first) * (bottom - box.y)
<1>1. Aligned(box)
  BY BoxIsAligned
<1> HIDE DEF box
<1>2. /\ box.x % 8 = 0 /\ (box.x + box.width) % 8 = 0
      /\ (box.x % 8) + ((box.x + box.width) % 8) = 0
  BY <1>1, BoxInBytes
<1>3. /\ ~(box.width <= 0) /\ ~(box.height <= 0) /\ ~(box.x < 0) /\ ~(box.y < 0)
      /\ ~(box.x + box.width > PanelWidth) /\ ~(box.y + box.height > PanelHeight)
  BY <1>1, PanelSize DEF Aligned, OnPanel
<1>5. Len(packed) = count
  BY <1>1, RowsOfBoxCount
<1>6. SubSeq(packed, 1, count) = packed
  <2>1. PICK S : packed \in Seq(S)
    BY <1>1, RowsOfBoxCount DEF IsStream
  <2> HIDE DEF packed, count
  <2>2. QED
    BY <1>5, <2>1
<1>7. Low(High(box.y)) = High(box.y) % 2
  <2>1. box.y \in Nat /\ box.y < 2 * ByteModulus
    BY <1>1, PanelSize DEF Aligned, OnPanel
  <2>2. QED
    BY <2>1, RowNumber
<1> HIDE DEF packed
<1>8. PartialStream(bytes, box) =
        Command(\h3C, <<\h80>>) \o Command(\h21, <<0, 0>>) \o Command(\h3C, <<\h80>>)
        \o PartialWindow(first, end, box.y, bottom)
        \o set_cursor(first, box.y)
        \o Command(\h24, packed) \o Command(\h22, <<\hFF>>) \o Command(\h20, <<>>)
  <2>1. ~(\/ box.width <= 0 \/ box.height <= 0 \/ box.x < 0 \/ box.y < 0
          \/ box.x + box.width > PanelWidth
          \/ box.y + box.height > PanelHeight)
    BY <1>3
  <2>2. packed = RowsOf(bytes, first, end, box.y, bottom)
    BY DEF packed, RowsOfBox
  <2>3. QED
    BY <2>1, <2>2, Zenon DEF PartialStream
<1> DEFINE a == Command(\h3C, <<\h80>>) \o Command(\h21, <<0, 0>>) \o Command(\h3C, <<\h80>>)
           b == Command(\h44, <<Low(first), Low(end - 1)>>)
           c == Command(\h45, <<Low(box.y), High(box.y) % 2,
                                Low(bottom - 1), High(bottom - 1) % 2>>)
           d == Command(\h4E, <<Low(first)>>)
           e == Command(\h4F, <<Low(box.y), High(box.y) % 2>>)
           f == Command(\h24, packed)
           g == Command(\h22, <<\hFF>>)
           h == Command(\h20, <<>>)
<1>9. DriverPartial(packed, box.x, box.y, box.x + box.width, bottom) =
        a \o b \o c \o d \o e \o f \o g \o h
  BY <1>2, <1>6 DEF DriverPartial
<1>10. PartialStream(bytes, box) = a \o (b \o c) \o (d \o e) \o f \o g \o h
  BY <1>7, <1>8 DEF PartialWindow, set_cursor
<1>11. IsStream(a) /\ IsStream(b) /\ IsStream(c) /\ IsStream(d) /\ IsStream(e)
  BY CommandSends, JoinedStreams
<1> HIDE DEF a, b, c, d, e, f, g, h
<1>12. a \o (b \o c) \o (d \o e) = a \o b \o c \o d \o e
  BY <1>11 DEF IsStream
<1>13. QED
  BY <1>9, <1>10, <1>12 DEF box, packed

-----------------------------------------------------------------------------
(* The packed image. *)

(* Every byte of the frame is a cell's. *)
LEMMA CellOfByte ==
  ASSUME NEW picture, NEW o \in DOMAIN Bytes(picture)
  PROVE  \E cell \in Cells : Bytes(picture)[o] = <<picture[AreaAt[cell]], cell>>
<1>1. o \in 0..(BytesPerRow * PanelHeight - 1)
  BY DEF Bytes
<1> DEFINE c == <<o % BytesPerRow, o \div BytesPerRow>>
<1>2. o % BytesPerRow \in 0..(BytesPerRow - 1) /\ o \div BytesPerRow \in 0..(PanelHeight - 1)
  BY <1>1, PanelSize, DigitsWithin
<1>3. c \in Cells
  BY <1>2 DEF Cells
<1>4. Bytes(picture)[o] = <<picture[AreaAt[c]], c>>
  BY <1>1 DEF Bytes
<1>5. QED
  BY <1>3, <1>4

(* The cell of a window at a turn. *)
CellAt(x, y, w, position) == <<x + ((position - 1) % w), y + ((position - 1) \div w)>>

OffsetOf(cell) == cell[2] * BytesPerRow + cell[1]

(* A window of the panel. *)
WindowFits(x, y, w, h) ==
    /\ x \in Nat /\ y \in Nat /\ w \in Nat \ {0} /\ h \in Nat \ {0}
    /\ x + w <= BytesPerRow /\ y + h <= PanelHeight

WindowOf(x, y, w, h) == (x..(x + w - 1)) \X (y..(y + h - 1))

(* The rows of a window are the bytes of its cells, turn by turn. *)
LEMMA RowsAreCells ==
  ASSUME NEW picture, NEW x, NEW y, NEW w, NEW h, WindowFits(x, y, w, h),
         NEW xe, NEW ye, xe - x = w, ye - y = h
  PROVE  LET data == RowsOf(Bytes(picture), x, xe, y, ye)
         IN  /\ DOMAIN data = 1..(w * h)
             /\ \A p \in 1..(w * h) :
                  /\ CellAt(x, y, w, p) \in Cells
                  /\ CellAt(x, y, w, p) \in WindowOf(x, y, w, h)
                  /\ data[p] = <<picture[AreaAt[CellAt(x, y, w, p)]], CellAt(x, y, w, p)>>
<1> DEFINE bytes == Bytes(picture)
           data == RowsOf(bytes, x, xe, y, ye)
           size == w * h
<1>0. /\ x \in Nat /\ y \in Nat /\ w \in Nat \ {0} /\ h \in Nat \ {0}
      /\ x + w <= BytesPerRow /\ y + h <= PanelHeight
  BY DEF WindowFits
<1>1. DOMAIN data = 1..size
  BY DEF RowsOf
<1>2. ASSUME NEW p \in 1..size
      PROVE  /\ CellAt(x, y, w, p) \in Cells
             /\ CellAt(x, y, w, p) \in WindowOf(x, y, w, h)
             /\ data[p] = <<picture[AreaAt[CellAt(x, y, w, p)]], CellAt(x, y, w, p)>>
  <2> DEFINE v == p - 1
             i == v % w
             j == v \div w
  <2>1. v \in 0..(size - 1)
    <3>1. size \in Nat
      BY <1>0
    <3> HIDE DEF size
    <3>2. QED
      BY <3>1
  <2>2. i \in 0..(w - 1) /\ j \in 0..(h - 1)
    BY <1>0, <2>1, DigitsWithin
  <2> HIDE DEF bytes
  <2>3. data[p] = bytes[(y + j) * BytesPerRow + (x + i)]
    BY <1>0 DEF RowsOf
  <2>4. CellAt(x, y, w, p) = <<x + i, y + j>>
    BY DEF CellAt
  <2> HIDE DEF v, i, j, data
  <2>5. x + i \in x..(x + w - 1) /\ y + j \in y..(y + h - 1)
        /\ x + i \in 0..(BytesPerRow - 1) /\ y + j \in 0..(PanelHeight - 1)
    BY <1>0, <2>2, PanelSize
  <2> DEFINE c == <<x + i, y + j>>
  <2>6. c \in Cells /\ c \in WindowOf(x, y, w, h) /\ c[1] = x + i /\ c[2] = y + j
    BY <2>5 DEF Cells, WindowOf
  <2> HIDE DEF c
  <2>7. bytes[c[2] * BytesPerRow + c[1]] = <<picture[AreaAt[c]], c>>
    BY <2>6, ByteAt DEF bytes
  <2>8. CellAt(x, y, w, p) = c
    BY <2>4 DEF c
  <2>9. data[p] = <<picture[AreaAt[c]], c>>
    BY <2>3, <2>6, <2>7
  <2>10. QED
    BY <2>6, <2>8, <2>9
<1>3. QED
  BY <1>1, <1>2

(* The turns of a window take every cell of it. *)
LEMMA CellsAreTurns ==
  ASSUME NEW x, NEW y, NEW w, NEW h, WindowFits(x, y, w, h),
         NEW cell \in WindowOf(x, y, w, h)
  PROVE  \E p \in 1..(w * h) : CellAt(x, y, w, p) = cell
<1> DEFINE i == cell[1] - x
           j == cell[2] - y
           v == j * w + i
           size == w * h
<1>0. x \in Nat /\ y \in Nat /\ w \in Nat \ {0} /\ h \in Nat \ {0}
  BY DEF WindowFits
<1>1. /\ i \in 0..(w - 1) /\ j \in 0..(h - 1) /\ x + i = cell[1] /\ y + j = cell[2]
      /\ cell = <<cell[1], cell[2]>>
  BY <1>0 DEF WindowOf
<1> HIDE DEF i, j
<1>2. v \in 0..(size - 1)
  BY <1>0, <1>1, TurnsAreWithin
<1>3. v % w = i /\ v \div w = j
  <2>1. j \in Nat
    BY <1>1
  <2>2. QED
    BY <1>0, <1>1, <2>1, RowDigits
<1>4. size \in Nat
  BY <1>0
<1> HIDE DEF v, size
<1> DEFINE p == v + 1
<1>5. p \in 1..size /\ p - 1 = v
  BY <1>2, <1>4
<1> HIDE DEF p
<1>6. CellAt(x, y, w, p) = cell
  BY <1>1, <1>3, <1>5 DEF CellAt
<1>7. QED
  BY <1>5, <1>6 DEF size

(* The turns of a window are in the order of the frame. *)
LEMMA TurnsInOrder ==
  ASSUME NEW x, NEW y, NEW w, NEW h, WindowFits(x, y, w, h),
         NEW p \in 1..(w * h), NEW q \in 1..(w * h), p < q
  PROVE  OffsetOf(CellAt(x, y, w, p)) < OffsetOf(CellAt(x, y, w, q))
<1> DEFINE size == w * h
           v == p - 1
           u == q - 1
           i == v % w
           j == v \div w
           k == u % w
           l == u \div w
<1>0. /\ x \in Nat /\ y \in Nat /\ w \in Nat \ {0} /\ h \in Nat \ {0}
      /\ x + w <= BytesPerRow
  BY DEF WindowFits
<1>1. v \in 0..(size - 1) /\ u \in 0..(size - 1) /\ v < u
  <2>1. size \in Nat /\ p \in 1..size /\ q \in 1..size
    BY <1>0
  <2> HIDE DEF size
  <2>2. QED
    BY <2>1
<1>2. /\ i \in 0..(w - 1) /\ j \in 0..(h - 1) /\ v = j * w + i
      /\ k \in 0..(w - 1) /\ l \in 0..(h - 1) /\ u = l * w + k
  <2> HIDE DEF v, u
  <2>1. QED
    BY <1>0, <1>1, DigitsWithin
<1>3. /\ CellAt(x, y, w, p) = <<x + i, y + j>>
      /\ CellAt(x, y, w, q) = <<x + k, y + l>>
  BY DEF CellAt
<1> HIDE DEF v, u, i, j, k, l
<1>4. j < l \/ (j = l /\ i < k)
  <2>1. j * w + i < l * w + k
    BY <1>1, <1>2
  <2>2. j \in Nat /\ l \in Nat
    BY <1>2
  <2>3. QED
    BY <1>0, <1>2, <2>1, <2>2, DigitsOrdered
<1> DEFINE X == x + i
           Y == y + j
           Z == x + k
           W == y + l
<1>5. /\ X \in 0..(BytesPerRow - 1) /\ Z \in 0..(BytesPerRow - 1)
      /\ Y \in Nat /\ W \in Nat /\ (Y < W \/ (Y = W /\ X < Z))
  BY <1>0, <1>2, <1>4, PanelSize
<1> HIDE DEF X, Y, Z, W
<1>6. Y * BytesPerRow + X < W * BytesPerRow + Z
  BY <1>5, PanelSize, DigitsOrdered
<1>7. CellAt(x, y, w, p) = <<X, Y>> /\ CellAt(x, y, w, q) = <<Z, W>>
  BY <1>3 DEF X, Y, Z, W
<1>8. QED
  BY <1>6, <1>7 DEF OffsetOf

(* What a partial pass packs is its region's bytes and no others, in order. *)
LEMMA RowsPack ==
  ASSUME NEW region \in Regions, NEW picture
  PROVE  Packs(RowsOfBox(Bytes(picture), Box[region]), Bytes(picture), region)
<1> DEFINE box == Box[region]
           bytes == Bytes(picture)
           x == box.x \div 8
           w == box.width \div 8
           xe == (box.x + box.width) \div 8
           y == box.y
           h == box.height
           ye == box.y + box.height
           packed == RowsOfBox(bytes, box)
           window == WindowOf(x, y, w, h)
           size == w * h
           byte(cell) == <<picture[AreaAt[cell]], cell>>
<1>1. Aligned(box)
  BY BoxIsAligned
<1>2. /\ x \in Nat /\ w \in Nat \ {0} /\ x + w <= BytesPerRow
      /\ y \in Nat /\ h \in Nat \ {0} /\ y + h <= PanelHeight
      /\ xe - x = w /\ ye - y = h
  <2> HIDE DEF box
  <2>1. /\ x \in Nat /\ w \in Nat \ {0} /\ x + w <= BytesPerRow /\ xe = x + w
    BY <1>1, BoxInBytes
  <2>2. y \in Nat /\ h \in Nat \ {0} /\ y + h <= PanelHeight /\ ye = y + h
    BY <1>1 DEF Aligned, OnPanel
  <2> HIDE DEF x, w, xe, y, h, ye
  <2>3. QED
    BY <2>1, <2>2
<1>3. \A cell \in Cells : cell \in CellsIn[region] <=> cell \in window
  <2>1. CellsIn[region] = CellsOf(box)
    BY DEF CellsIn
  <2> HIDE DEF box
  <2>2. QED
    BY <1>1, <2>1, CellsAreWindow DEF WindowOf
<1>a. WindowFits(x, y, w, h)
  BY <1>2 DEF WindowFits
<1>4. packed = RowsOf(bytes, x, xe, y, ye)
  BY DEF RowsOfBox
<1> HIDE DEF x, w, xe, y, h, ye, packed, box
<1>5. /\ DOMAIN packed = 1..size
      /\ \A p \in 1..size : /\ CellAt(x, y, w, p) \in Cells
                            /\ CellAt(x, y, w, p) \in window
                            /\ packed[p] = byte(CellAt(x, y, w, p))
  BY <1>a, <1>2, <1>4, RowsAreCells
<1>6. \A cell \in window : \E p \in 1..size : CellAt(x, y, w, p) = cell
  BY <1>a, CellsAreTurns
<1>7. \A p, q \in 1..size : p < q =>
        OffsetOf(CellAt(x, y, w, p)) < OffsetOf(CellAt(x, y, w, q))
  BY <1>a, TurnsInOrder
<1>8. \A cell \in Cells : \E o \in DOMAIN bytes : bytes[o] = byte(cell)
  <2> TAKE cell \in Cells
  <2>1. DOMAIN bytes = 0..(BytesPerRow * PanelHeight - 1)
    BY DEF Bytes
  <2>2. QED
    BY <2>1, ByteAt
<1>9. \A o \in DOMAIN bytes : \E cell \in Cells : bytes[o] = byte(cell)
  BY CellOfByte
<1> DEFINE place(p) == CellAt(x, y, w, p)
<1> HIDE DEF bytes, window, size
<1>10. {packed[i] : i \in DOMAIN packed} =
         {b \in {bytes[o] : o \in DOMAIN bytes} : b[2] \in CellsIn[region]}
  <2>1. ASSUME NEW i \in 1..size
        PROVE  /\ packed[i] \in {bytes[o] : o \in DOMAIN bytes}
               /\ packed[i][2] \in CellsIn[region]
    BY <1>3, <1>5, <1>8
  <2>2. ASSUME NEW o \in DOMAIN bytes, bytes[o][2] \in CellsIn[region]
        PROVE  \E i \in 1..size : packed[i] = bytes[o]
    <3>1. PICK cell \in Cells : bytes[o] = byte(cell)
      BY <1>9
    <3>2. cell \in window
      BY <1>3, <2>2, <3>1
    <3>3. PICK p \in 1..size : CellAt(x, y, w, p) = cell
      BY <1>6, <3>2
    <3>4. QED
      BY <1>5, <3>1, <3>3
  <2>3. QED
    BY <1>5, <2>1, <2>2
<1>11. \A i, j \in DOMAIN packed : i < j =>
         packed[i][2][2] * BytesPerRow + packed[i][2][1] <
           packed[j][2][2] * BytesPerRow + packed[j][2][1]
  <2> SUFFICES ASSUME NEW i \in 1..size, NEW j \in 1..size, i < j
               PROVE  packed[i][2][2] * BytesPerRow + packed[i][2][1] <
                        packed[j][2][2] * BytesPerRow + packed[j][2][1]
    BY <1>5
  <2>1. packed[i][2] = place(i) /\ packed[j][2] = place(j)
    BY <1>5
  <2>2. OffsetOf(place(i)) < OffsetOf(place(j))
    BY <1>7
  <2> HIDE DEF place
  <2>3. QED
    BY <2>1, <2>2 DEF OffsetOf
<1>12. QED
  BY <1>10, <1>11 DEF Packs, packed, bytes, box

(* However full and partial passes alternate, every pass sends what the    *)
(* vendored driver would have sent for it: for a region byte for byte, of  *)
(* its rows packed; for a full frame to the same effect.                   *)
THEOREM StreamsMatch == PanelSpec => []StreamsAreTheDrivers
<1> DEFINE bytes == Bytes(frame)
           Whole == Obeyed(controller, FullStream(bytes)) =
                      Obeyed(controller, DriverInit \o DriverDisplay(bytes))
<1>1. ASSUME NEW region \in Regions
      PROVE  LastSent(PartialStream(bytes, Box[region]), \h24) = RowsOfBox(bytes, Box[region])
  <2> DEFINE box == Box[region]
             stream == PartialStream(bytes, box)
             t == PartialTold(bytes, box)
  <2> HIDE DEF bytes
  <2>1. Aligned(box)
    BY BoxIsAligned
  <2> HIDE DEF box
  <2>2. Tells(stream, t)
    BY <2>1, PartialTells DEF Aligned
  <2>3. \h24 \in DOMAIN t /\ t[\h24] = RowsOfBox(bytes, box)
    BY PartialSays DEF RowsOfBox
  <2> HIDE DEF stream, t
  <2>4. IsStream(stream) /\ Sends(stream, \h24, RowsOfBox(bytes, box))
    BY <2>2, <2>3 DEF Tells
  <2>5. LastSent(stream, \h24) = RowsOfBox(bytes, box)
    BY <2>4, SentLast
  <2>6. QED
    BY <2>5 DEF stream, box
<1>2. ASSUME NEW region \in Regions
      PROVE  LET box == Box[region]
                 stream == PartialStream(bytes, box)
                 packed == LastSent(stream, \h24)
             IN  /\ Packs(packed, bytes, region)
                 /\ stream = DriverPartial(packed, box.x, box.y,
                                           box.x + box.width, box.y + box.height)
  BY <1>1, RowsPack, RegionStreamIsTheDrivers
<1>3. Whole => StreamsAreTheDrivers
  BY <1>2 DEF StreamsAreTheDrivers
<1>4. QED
  BY <1>3, FullStreamIsTheDrivers, PTL
=============================================================================
