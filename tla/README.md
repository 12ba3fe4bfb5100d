# StopBath Pico remote: verification project

This directory holds TLA+ models of the StopBath Pico remote, the runs that
model-check them with TLC, and theorems about them that TLAPS proves. Source
paths below are relative to the repository.

The remote is a Raspberry Pi Pico 2 W with an e-paper panel and two keys. It
keeps no state of its own about a session: it reports presses over a USB
serial link and shows the record the appliance last sent. What it must get
right is the link, the keys and the glass.

## 1. The system

| Part | Source | State it keeps | Operations |
|---|---|---|---|
| Client session | `session/remote_session.c` | link state, half a received line, the last DISPLAY record, up to 4 outbound lines, retry clock, six counters | port opened, port closed, tick, receive, report a press, take output, display |
| USB link and edge | `firmware/usb_link.c`, `transport/remote_link_edge.c` | whether the port is open | one service per loop: observe the edge, drain what arrived, tick, send |
| Main loop | `firmware/remote.c` | diagnostics toggle, whether USB failed to start | sample keys, service the link, compose a target, service the display |
| Input model | `remote_input/remote_input_model.c` | per key: believed level, settling time, hold time, two marks | observe one sample |
| Layout | `remote_display/remote_display_layout.c` | none | render a state, name the regions two states differ in |
| Refresh policy | `remote_display/remote_refresh_policy.c` | partial decisions since a full refresh | decide, force a full |
| Display refresher | `firmware/display_refresher.c` | state shown, target, pending regions, refresh in progress, counters | set the target, service |
| Panel driving | `firmware/panel.c` | none; the controller keeps registers, a memory and the glass | begin a full or a partial refresh, busy |
| Wire protocol | `protocol/`, `protocol.json` | a line assembler | encode, parse, feed a byte |
| Development peer | `peer/development_peer_core.c` | current record, handshake, output buffer, behaviour switches, log and counts | feed, operator commands, link dropped |
| Its shell | `peer/development_peer_shell.c` | the serial port | search and probe, pump, reopen, parse commands |
| QR, bitmap, font | `remote_display/remote_qr.c` ... | none | pure drawing |
| Vendored driver and QR encoder, check programs, fixtures, descriptors, tests, fuzz harness, scripts | | | |

How they interact. One loop, every 5 ms or as long as a panel transfer blocks
it, calls everything: the input model's classified presses go to the session,
the USB service moves lines and port edges between TinyUSB and the session,
the session says what to show, the refresher shows it while the panel
refreshes on its own. The peer runs on the host, in a process of its own; the
two share nothing but the wire, the cable and the port.

What is hard: two ends that restart independently; bytes left over in buffers
on both sides of a close; a search whose reads cut the very HELLO it looks
for; a retry racing a late answer; lines cut in two, or spoiled; a bus that is
suspended under an open port; a bounded queue; a panel that is busy for up to
two seconds while its target keeps changing, and whose registers remember the
last pass; two keys that bounce and overlap while the loop samples them at
uneven intervals.

What makes each part correct:

- *Session*: nothing of one link reaches the next; one HELLO waits at most;
  whole records are heard whole; every press is sent in order or counted.
- *Link*: session and edge agree; a press is acted on only in the opening it
  was made in; both ends agree on the record when nothing is on its way; a
  handshake completes; the last record arrives.
- *Wire*: a spoiled line costs itself and never the next; what one end encodes
  the other parses to the same message; each message has one spelling.
- *Peer*: it stores no record it cannot send; every HELLO is answered; its log
  and counts tell one story.
- *Input*: each hold is reported at most once and rightly; chords never;
  levels are believed soon after they are steady, and only then.
- *Display*: the panel is never cut into; at rest the glass shows one state's
  picture; residue is bounded; the glass catches up; every byte lands in its
  place, in the mode its pass needs; nothing is drawn outside its region, and
  a code can be scanned.

The full list of hazards, each at its line, is in `PROJECT.json`.

## 2. The modules

**RemoteProtocol** is the vocabulary: a DISPLAY line is the record it carries,
HELLO is one value, BUTTON is its event. Spelling is abstract, except that a
DISPLAY line can be cut after its page field: `FrontHalf` is what has arrived
and `JoinHalves` what the parser makes of a half that meets the rest of
another line.

**RemoteSession** has one operator per function of `remote_session.c`, from
the session before a call to the session after it, so that callers compose
calls as the C code does. `remote_session_receive` takes bytes; here it is
three operators for the three things a chunk may end: the front of a line
(`ReceiveFront`), a DISPLAY line (`ReceiveBack`) and anything else
(`ReceiveOther`). The 32 bit counters count modulo `CounterModulus`. `View` is
`remote_session_display`.

**RemoteSessionCalls** makes it a state machine of its own, one call per step
in any order; `written` is the host's side of the stream.

**DevelopmentPeer** has one operator per function of
`development_peer_core.c`, from the peer before the call to the peer after it,
and `ApplyCommand` for `apply_command` of its shell. It takes arrivals: a
message, or the refusal of a line that did not parse (`FeedArrival`); `Feed`
is the case of the lines this remote sends. The output buffer is counted in
lines (`PeerCapacity`) and overflows as the code's does. `Unencodable` are the
records whose line would be too long and `BadPayloads` the texts no field
takes. **PeerBook** is what the core writes down and never decides by: log,
counts, the remote's version and lock.

**RemoteLink** composes session and peer. The remote's loop is a program
counter with three places (`keys`, `edge`, `receive`); between any two of its
steps the shell searches, probes, pumps or ends, the operator gives a command,
the cable comes out or the bus goes to sleep.

| Action | Code |
|---|---|
| `Press`, `NoPress` | `apply_press` and the sampling loop of `main` |
| `ObserveEdge` | `service_link_edge` |
| `Receive`, `DrainBeginning` | `service_receive`, line by line |
| `TickAndSend` | `remote_session_tick`, `service_send` |
| `OpenPort`, `StartSearch` | the shell's `main`, with a device's path or with `auto` |
| `ProbeNode`, `ProbeRead`, `ProbeGivesUp` | `probe_node` under `find_application_channel` |
| `DeviceGone` | `pump` finds the device gone; `reopen_device` |
| `Quit` | the shell ends (and may be started again, as a new peer) |
| `PumpWrite`, `PumpRead` | `pump` |
| `Operate` | `apply_command` |
| `PullCable`, `PlugCable`, `Sleep`, `Wake`, `Leftovers` | outside the repository: cable, bus, TinyUSB's buffers |

A probe's read takes any number of lines and may cut the next: a HELLO of which
it has enough makes the port the one, and the pump's first read brings the
rest; one cut earlier is thrown away with everything else, and its end is
noise to the next read. The command line channel of
the device, which a search also tries, never speaks to this session and is
left out.

What is assumed of the outside: a detach loses everything in the buffers; a
close may leave one packet in the transmit endpoint, a line or the end of one
(`Torn`); a suspend loses nothing and leaves DTR asserted; enumeration and
line state requests take long enough for the loop to see a closed port
between two open ones.

**ProtocolTables** is `remote_protocol_tables.c`: verbs, their fields and the
bounds of those, enumerations. How a word is spelled is a constant
(`Spelling`), so that small instances have small lines. **LineCodec** is the
encoder (`EncodedLine`, `Encodes`) and the parser (`ParseLine`, which finds the
fields by where they start and reads them in turn, as the code goes) over bytes. **LineAssembler** is
`remote_protocol_feed_byte`, a state machine of its own that ends with the
verdict on a line. **PeerStream** puts the three before the peer: the encoder,
a wire that spoils lines as `fuzz_remote_protocol.c` does, assembler, parser,
core, book and operator, a byte at a time. It is the same DevelopmentPeer that
RemoteLink uses, with `Unencodable` computed by the encoder.

**RemoteInput** is `remote_input_model_observe` under the sampling loop, with
the real levels of the keys beside what the model believes of them: `steady`
is how long a level had really held when the round's clock was read, in ticks
of that clock (microseconds in the code). The model is told whole milliseconds
(`WholeMilliseconds`), and what is left of each round is lost.
`LongestUnbelieved` is the most that a level can outlast what it is credited
with and still settle: 21997 microseconds with the code's numbers. `Agree`, `Settle` and
`Believe` are the three ways through the function. **KeyHolds** is the
abstract specification it implements: holds and reports, no samples and no
clocks.

**DisplayLayout** says what each area of the panel shows, named by the values
it is drawn from, and which regions `changed_regions` names. **DisplayRefresher**
is the refresher with its policy under the display half of the loop; `Round`
is one pass of the loop and `PanelFinishes` the panel's own step. The pixels
of the USB failure message are the only overlay.

**Panel** puts `panel.c` beneath it. Each round that begins a pass sends the
stream of commands the code sends (`FullStream`, `PartialStream`); a
controller with registers, a window, a cursor and a memory obeys them. Beside
them stand the vendored driver's own streams, which `panel.c` says it
reproduces. The controller is external: its registers keep what they were last
sent, and its memory is written through the window from the cursor on. The
second memory plane (0x26) is sent and not modelled.

**DisplayDrawing** adds to the refresher's state where things are drawn for
it, in the pixels of the real panel: the rectangle of each text, from its
length, and of a code, from its number of modules.

`MC*` modules give the constants their values. An operator under a comment
that starts with "Mutant:" is a wrong version of the one below it. It is used
by nothing; put in the place of the right one, it makes the property listed
with it in `PROJECT.json` fail, which shows that the property depends on the
code it is about.

## 3. The runs

| Run | Question | Result |
|---|---|---|
| `session` | calls of the session in any order, lines cut anywhere | holds |
| `link` | both ends, cable, port, search, restarts, sleep, leftovers, pushed records | holds |
| `link_live` | does the last record arrive? | holds |
| `link_unruly` | silent, rejecting and line-cutting peers: what may the remote believe, does a handshake complete, and are stale presses refused while the bus stays awake? | holds |
| `link_rejection` | is a rejecting peer ever shown as connected? | it is: finding 1 |
| `link_sleep` | are stale presses refused after a suspended bus? | they are not: finding 2 |
| `peer` | bytes, spoiled lines, commands | holds |
| `peer_answers` | is every HELLO answered? | it is not: finding 5 |
| `input` | two keys under uneven rounds that are not whole milliseconds | holds |
| `input_bounce` | are only steady levels believed? | no: finding 3 |
| `display` | targets that change under a refresh, the streams beneath, the drawing above; does the glass catch up? | holds |
| `refresher_usb` | does the USB failure message appear? | it does not: finding 4 |

Bounds, and why they are enough:

- The session's queue holds 2 lines instead of 4 and retries after 3 units of
  time in rounds of up to 2: the queue fills, overflows and is taken in part,
  and the interval is met exactly and overshot. In the link the interval is 2
  rounds of 1. Counters wrap at 2, or are held at 0 in the link, where nothing
  reads them.
- Records: three in `session`, which differ in both halves; in the link the
  blank record, those of the demo script and one the operator publishes.
- The wire holds 2 lines each way and the peer's buffer 2, so every buffer
  fills and the peer's overflows. Lines beyond two only repeat the races of
  two: one before and one after the event that matters.
- Key1 is left out of the link's runs (its events only change the demo page);
  `session` has it. Each run has the commands its question needs: a published
  record and repeats in `link`, half lines in `link_unruly`, repeats in
  `link_rejection`. In all of them the shell may be started with a path or
  with `auto`, end and start again. The bus sleeps in `link`, `link_live` and
  `link_sleep`.
- In the link the records' payloads are three, of which one page's is the
  operator's; none is too long to encode. That case is `peer`'s.
- In `peer` each word of the table is one byte and a line has 24, of which the
  longest DISPLAY line takes all with one escape in it: a plain payload fits,
  an escaped one just fits, and the one of two escapes does not, so that every
  bound is met from both sides. Two lines follow each other (`MaxLines`),
  since what could be wrong is what one line leaves for the next; of two
  troubles (`MaxTroubles`) one at most is a spoiled byte (`MaxSpoiled`): an
  escape, a digit, an unprintable byte or a terminator in place of any byte or
  before it, a byte lost, or the rest of the line. The log holds two entries,
  so that a refusal and a press are in it before it overflows. `peer_answers` has three lines: HELLO, a press, HELLO.
- The debounce is 3, the threshold 4, a hold saturates at 6, a millisecond has
  2 ticks and rounds have 2, 3 or 7: a level settles in one round or several,
  which lose half a millisecond or nothing each, and holds pass the threshold
  exactly, beyond it and up to saturation. `LongestUnbelieved` is 6 ticks here,
  and levels that are just that old and not believed occur.
- A full refresh is forced after 2 partial decisions instead of 100; counters
  wrap at 2. The session says six things in `display`, which differ in one
  region alone and in several at once.
- The panel of `display` is 4 bytes wide and 8 rows high, with the regions
  arranged as the real ones are, and a row number is split at 4 instead of at
  256: as on the real panel, the lower rows need the second byte. The real
  rectangles are those of DisplayDrawing, whose checks are in real pixels. The
  code has 25 modules a side, whose quiet zone is the hardest to keep, or
  none; the proofs are for every side.

Every model always has a step, but for those of `peer` and `peer_answers`:
they end when the bounds on lines and troubles are used up, and their cfgs
switch the deadlock check off.

Fairness. `RemoteLink!LoopsRun`: the loop never ends, so its steps are weakly
fair; a line that has arrived is read in the end although any one round may
miss it, so `Receive` is strongly fair (`service_receive` reads until nothing
is available); the shell's pump is a polling loop, and what arrives during a
probe is read. `link_live` asks no more than that (`LiveSpec`).
`RemoteLink!SearchesGoOn`, for `link_unruly` (`FairSpec`): a search tries the
port again and again (`find_application_channel` never returns without it),
though a probe may open the port at some moments only and ends after ten
reads, so its beginning and its giving up are strongly fair; and the openings
of one probe after another bring HELLO again and again, which is not cut short
by a read every time, so a read that finds it is strongly fair.
Nothing is assumed of the user, the operator, the cable, the end of the shell
or the host's sleep, and `HandshakeCompletes` and `RecordArrives` say which of
them must come to rest. `PanelSpec`: the loop never ends, and a panel that is
refreshing finishes.

## 4. Findings

1. *A pushed record hides a rejection* (`link_rejection`,
   `remote_session.c:101`). Any DISPLAY connects the session. One that is
   pushed before HELLO is answered does so too, and the BAD_VERSION that
   follows no longer marks the link incompatible.
2. *A press sleeps with the bus* (`link_sleep`, `usb_link.c:69`). A press in
   TinyUSB's buffer when the bus is suspended is sent on resume, before the
   new HELLO, to a peer whose handshake never ended.
3. *A whole round for the first sample* (`input_bounce`,
   `remote_input_model.c:117`). The first sample of a new level is credited
   with all the time since the sample before it.
4. *The USB failure message has no redraw* (`refresher_usb`,
   `remote.c:93`). The frame shown again was drawn before the failure.
5. *A HELLO without an answer* (`peer_answers`,
   `development_peer_core.c:48`). A text whose escapes make its line too long
   is refused when the operator shows it, but not when the demo script stores
   it; from then on HELLO goes unanswered.

Noticed on the way, without a run: `remote_protocol.h:52-55` says nothing is
written when encoding fails, which does not hold when the line overflows; a
refusal may fail to encode although the record does, since its error word is
longer; a diagnostics line with a counter of nine digits or more passes the
right edge and is clipped; the rest of a millisecond that each round drops
(`remote.c:100`) is missing from holds too, so that in rounds of 5 ms and a
fraction a long press takes up to a fifth longer than its threshold;
`remote_refresh_policy.h:25` counts "Partial refreshes before a full one is forced" where
the code counts decisions of up to four region passes each (`ResidueIsBounded`
is about those, and an area has one pass per decision); operator commands that a read cuts in two are two
commands.

## 5. What is proved

For every value of the constants that meets the named assumptions (positive
depth, interval, modulus, debounce, threshold and policy bound; rounds short
enough that the debounce sum does not wrap and no shorter than the sample period; regions byte aligned, on the panel
and apart, as the code's table has them). A theorem that needs more says so
after its `ASSUME`, and the need is explained here. Every invariant that a
passing run checks is proved, and so is every action property.

- **RemoteSessionLemmas** has one lemma per function of the session: from any
  session that meets its rules, the function returns one that does.
  **RemoteSessionProofs** builds on them: `TypeCorrect`, `LinkIsForgotten`,
  `HelloIsFirst`, `WholeRecordsAreHeard`. The inductive invariant adds to the
  three state properties that while the port is up the halves the assembler
  holds are those of the lines the host has begun (`written`); without it
  nothing ties what is heard to what was sent. `PressesAccountedFor` is the
  action property: each step either sends a press or moves a counter. It needs
  a counter of more than one value, which counts nothing otherwise; the code's
  have 32 bits.
- **RemoteInputProofs**: `TypeCorrect`, `LongIsReported`, `SteadyIsBelieved`,
  and `InputImplementsHolds`, the refinement of KeyHolds. The invariant adds
  that a level that settles has really held no longer than what it has been
  credited with may stand for (`MayHaveLasted`), and that a hold marked long
  has reached the threshold. Each sample credits the whole milliseconds of its
  round: it loses less than one, and credits a sample period at least, since
  the loop sleeps that long (`RoundIsCovered`). So fewer than `Debounce`
  credited milliseconds are few samples, which lose little, and the time a
  steady level waits is bounded. The refinement needs only the type part of
  it: each outcome of `Observe` is matched with the step of KeyHolds it makes.
- **LineCodecProofs**: two theorems about the codec alone, for every spelling of
  the words and every bound. `MessagesAreRead`: the parser reads a message that
  the encoder accepts back as the message it was. `AcceptedIsWrittenAgain`: what
  the parser accepts, the encoder writes, and into no more bytes than were read.
  - The library's induction theorems take an operator, which no prover here can
    instantiate; what needs induction on numbers is proved from the smallest
    element of a set of counterexamples (`LeastIsOne`, `ByNext`). `Decimal` and
    the function inside `FlattenSeq` unfold once it is proved that a function
    that does what they say exists (`WrittenExists`, `RunExists`).
  - Upwards from there: a number is what its digits say (`IsWritten`), a payload
    is escaped and unescaped byte by byte, a line is its tokens joined by
    separators (`IsLineOf`) and is cut where they were joined
    (`TokensAreCut`), each field's token gives its field back.
  - The other way round, an accepted line may hold its fields in another order
    and escape bytes that need no escape. Each field of the message has a token
    of its own in it, no shorter than the one written, so that the line written
    fits (`CellsFit`).
  - They rest on `SpellingAssumption` (words are told apart and hold neither
    separator), on the bounds of `CodecAssumption`, and on `DigitsAssumption`:
    the largest number has no more digits than the parser allows.
- **PeerStreamProofs**: `AssemblerHoldsWhatArrived` and `LinesAreJudgedAlone`
  are about the assembler by itself, for every bound; the second needs the
  first, since the flags say what is wrong with the line so far and nothing
  else. `PeerHearsLinesAlone` carries both behind the spoiled wire and the
  operator: neither resets the assembler in the middle of a line without
  forgetting what was heard of it. `BookIsBalanced` and `RecordsEncode` follow
  from `StreamInvariance`. Of the parser these proofs know only what it may
  answer (`Parsed`: an error of the parser's, or a message of the table, whose
  event, if it is a press, is one of the four); of an arrival, that it goes into
  the book once and under one name (`NotedBooks`). The invariant adds to the
  balance that a handshake, a press and a state report have a HELLO before them
  in the counts, and that only a press can have put a record in place that has
  no line. It assumes that the blank record has a line (the code's is empty)
  and that the commands are the shell's.

  `MessagesDoSurvive` and `AcceptedMessagesDoReencode` take the codec's two
  theorems through the wire, by `CodecInvariance`: of a line that nothing has
  spoiled, what the assembler holds and what is still on the wire make the line
  as it was written, so that the verdict at its end is about those bytes. A run
  sends messages the encoder accepts, which `StreamAssumption` says of them and
  TLC evaluates; for these the parser answers with the message that was meant,
  whatever was spoiled on the wire before.
- **DisplayRefresherProofs**: `UnchangedAreasLookTheSame`, which is about the
  layout alone: an area that `changed_regions` does not name looks the same
  before and after, for any two states. On it rest `GlassIsWhole`,
  `PanelIsLeftAlone`, `PassesAreBounded` and `TypeCorrect`. The invariant adds
  that the panel's memory differs from the frame at most in the regions still
  pending, and relates the passes made and pending to the policy's count.
  The same module proves `EveryMarkIsPlaced`, about every state, code and error
  length, region by region; `DrawingIsContained` and `CodesAreScannable` lift
  it, and the same about codes of every version up to 9, to the refresher's
  reachable states.
- **PanelProofs**: `PanelRefinesRefresher`, that the refresher with streams and
  controller makes only the refresher's steps, so that its theorems hold of
  both (`PanelIsSentNothingWhileBusy`, `PanelShowsOneState`); then what the
  streams do to the controller. A stream of commands is reduced to what it
  *tells* each register last (`Tells`), that to the registers a refresh runs
  under (`ModeOf`) and to the window they bound (`Bounds`), and a window that is
  filled from the cursor on to the cells it covers (`WindowIsFilled`): a full
  stream makes the memory the frame (`FullObeyed`), a partial one makes the
  cells of its region so and no others (`PartialObeyed`). The invariant
  `PanelIInv` is that the controller mirrors, byte for byte, the panel the
  refresher believes in; `ModesAreRight` and `MemoryFollowsFrame` are read off
  it. `StreamsMatch` compares the streams with the vendored driver's: the full
  one tells every register what the driver tells it
  (`FullStreamIsTheDrivers`), and a region's sends the bytes of the driver's
  frame that lie in the region, each once and in the frame's order
  (`RegionStreamIsTheDrivers`). A row number is two digits in base
  `ByteModulus`, which is at least 2 here and 256 in the code: with 1, every
  digit is 0 and the last row's number would be wrong.
- **RemoteLinkProofs**: seven properties, in layers.
  - `LinkFollows` and `LinkChangesAtTheEdge` need only `LinkFollowsEdge` of a
    session that has the fields of one: one lemma per function says what it
    does to the link state, whatever line it reads, so that these two hold
    behind any peer and not only behind the one modelled.
  - `TypeCorrect` is proved from `Base`, which adds that the session is `Safe`
    (RemoteSessionLemmas), the peer's records are in range, a closed link holds
    only stale lines, and a peer stays the kind it was started as. What a probe
    feeds the peer is a fold over lines. The induction theorems are out of
    reach, but the fold is not: the function it stands for is unfolded once,
    and an invariant of the peer is carried along it by taking a smallest set
    of lines for which it fails.
  - `EarnedBeliefs` adds `EarnedSoFar`: what a silent peer, or one that accepts
    the version, has put on the wire so far. It is assumed that the operator
    does not send BAD_VERSION by hand, as the `error` command lets him.
  - `FreshPressesHeard` adds `Greeted`: behind an open edge the peer's handshake
    is made, or a HELLO comes before the first press that is not stale. It is
    assumed that the operator drops no live link and that no peer rejects every
    version: after either, a press finds no handshake, as it should.
  - `QuietAgrees` adds `LinesAreWhole` and `Settled`: until a HELLO is read, or
    the last of the lines in flight has been, the session is on its way to the
    peer's record. It is assumed besides that the operator cuts no line by hand
    (`partial`: the beginning spoils the line after it) and that every record
    has a line (else nothing follows a HELLO: finding 5).
  - `StalePressesRefused` adds `StaleSoFar`: a peer that does not have the port
    has shaken no hands, a close leaves one line at most behind, and whoever
    reads it has not shaken hands either. It is assumed that the host never
    sleeps: a bus that is suspended closes the link for the remote but leaves
    the peer its handshake, and `link_sleep` shows a stale press acted on.

  The runs meet these hypotheses: none has `drop` or an error by hand among its
  commands or a record without a line, and `link` rejects nothing and cuts
  nothing.

Only model-checked: liveness (`GlassConverges`, `RecordArrives`,
`HandshakeCompletes`), which needs fairness and ENABLED, and the prover has
neither; and the findings, whose counterexamples are TLC's work.

## 6. Not modelled

Which modules of a code are dark (the vendored encoder) and which dots of a
glyph (a table); both are tested pixel by pixel. The rest of the vendored
driver: modes and gray levels nothing here calls. The check programs,
fixtures, descriptors and board layer. The splitting of the operator's text
into commands. The session's own assembler is the same code as the peer's:
RemoteSession keeps its lines as values, and what the assembler does to bytes
is checked in PeerStream. The appliance itself is not in this repository: the
development peer stands in for it, as it does in the repository's own tests.
The three parts of the main loop are modelled apart: keys and link meet in the
presses the session is given, link and display in what the session says.

Four hazards have no property. Two quick Key1 presses before the answer to the
first choose the same page (`remote_session.c:147`), which
`IMPLEMENTATION_DEVIATIONS.md` accepts; the diagnostic screen stays up when
the link returns (`remote.c:65`), and no text says whether it should. The
operator's `drop` leaves a connected remote whose presses are refused
(`development_peer_shell.c:110`): the code does not repair it until the port
is reopened, so that no property could say it does. Nor does it ask again for a
record whose line was lost (`remote_session.c:114`): `RecordArrives` is about
lines that arrive whole.

## 7. Plan

The order was chosen so that the link, where two programs meet, came first,
then the keys, the glass, the bytes on the wire and the bytes on the panel.
Next:

1. *LinkContract*: the abstract specification of a link (openings, a
   handshake per opening, presses acted on in order) with RemoteLink shown to
   implement it; first by TLC, then the step simulation by proof.
2. One module of the whole loop, with `View` between session and refresher and
   the input model's reports as the link's presses, to check that the code on
   the glass goes when the link does.
