-------------------------------- MODULE Panel --------------------------------
(***************************************************************************)
(* firmware/panel.c beneath the display refresher: the commands each pass  *)
(* sends, and the controller that obeys them.                              *)
(*                                                                         *)
(* DisplayRefresher says which areas a pass should change.  Here the pass  *)
(* is the stream panel.c sends for it, beside the stream of the vendored   *)
(* driver (lib/waveshare/EPD_4in2_V2.c) that panel.c replaces.  The        *)
(* controller is known only by what those two send it: registers that keep *)
(* their value from pass to pass, and a memory written through a window    *)
(* and a cursor that runs on inside it.  The second memory plane (0x26) is *)
(* sent and not modelled.                                                  *)
(***************************************************************************)
EXTENDS DisplayRefresher, Sequences

CONSTANTS PanelWidth, PanelHeight,  \* in pixels: 400 and 300
          ByteModulus,              \* 256: what a row number is split by
          Box                       \* each region's rectangle, in pixels

BytesPerRow == PanelWidth \div 8

(* The bytes of the panel, as <<byte in the row, row>>. *)
Cells == (0..(BytesPerRow - 1)) \X (0..(PanelHeight - 1))

CellsOf(box) ==
    {cell \in Cells : /\ box.x <= 8 * cell[1] /\ 8 * cell[1] < box.x + box.width
                      /\ box.y <= cell[2] /\ cell[2] < box.y + box.height}

ASSUME PanelAssumption ==
    /\ ByteModulus \in Nat \ {0, 1}
    /\ PanelWidth \in Nat \ {0} /\ PanelWidth % 8 = 0
    /\ BytesPerRow <= ByteModulus
    /\ PanelHeight \in 1..(2 * ByteModulus)
    /\ CounterModulus > 1

(* remote_display_layout.c's table: byte aligned, on the panel, apart. *)
ASSUME BoxAssumption ==
    /\ Box \in [Regions -> [x : 0..PanelWidth, y : 0..PanelHeight,
                            width : 1..PanelWidth, height : 1..PanelHeight]]
    /\ \A region \in Regions :
          /\ Box[region].x % 8 = 0 /\ Box[region].width % 8 = 0
          /\ Box[region].x + Box[region].width <= PanelWidth
          /\ Box[region].y + Box[region].height <= PanelHeight
    /\ \A one, other \in Regions :
          one # other => CellsOf(Box[one]) \cap CellsOf(Box[other]) = {}

VARIABLE controller

panel_vars == <<vars, controller>>

CellsIn == [region \in Regions |-> CellsOf(Box[region])]

AreaAt == [cell \in Cells |->
    IF \E region \in Regions : cell \in CellsIn[region]
    THEN CHOOSE region \in Regions : cell \in CellsIn[region]
    ELSE "Strip"]

(* The bytes of a frame, by the offset C gives them: every byte is unlike  *)
(* every other, of this picture and of any that differs in its area.       *)
Bytes(picture) ==
    [offset \in 0..(BytesPerRow * PanelHeight - 1) |->
        LET cell == <<offset % BytesPerRow, offset \div BytesPerRow>>
        IN  <<picture[AreaAt[cell]], cell>>]
-----------------------------------------------------------------------------
(* Streams: a command byte, and the data sent after it. *)
Command(code, data) == <<[code |-> code, data |-> data]>>

Low(number) == number % ByteModulus

High(number) == number \div ByteModulus

set_window(x_start, y_start, x_end_inclusive, y_end_inclusive) ==
    Command(\h44, <<Low(x_start \div 8), Low(x_end_inclusive \div 8)>>)
    \o Command(\h45, <<Low(y_start), Low(High(y_start)),
                       Low(y_end_inclusive), Low(High(y_end_inclusive))>>)

set_cursor(x_bytes, y) ==
    Command(\h4E, <<Low(x_bytes)>>) \o Command(\h4F, <<Low(y), Low(High(y))>>)

WholeFrame(bytes) ==
    [position \in 1..(BytesPerRow * PanelHeight) |-> bytes[position - 1]]

(* Mutant: the registers a partial pass has set are left as they are. *)
FullStreamAsItStands(bytes) ==
    set_window(0, 0, PanelWidth - 1, PanelHeight - 1)
    \o set_cursor(0, 0)
    \o Command(\h24, WholeFrame(bytes))
    \o Command(\h26, WholeFrame(bytes))
    \o Command(\h22, <<\hF7>>)
    \o Command(\h20, <<>>)

(* panel_begin_full_refresh. *)
FullStream(bytes) ==
    Command(\h21, <<\h40, 0>>)
    \o Command(\h3C, <<5>>)
    \o set_window(0, 0, PanelWidth - 1, PanelHeight - 1)
    \o set_cursor(0, 0)
    \o Command(\h24, WholeFrame(bytes))
    \o Command(\h26, WholeFrame(bytes))
    \o Command(\h22, <<\hF7>>)
    \o Command(\h20, <<>>)

(* The rectangle's bytes, row by row, out of the full frame. *)
RowsOf(bytes, x_start, x_end, y_start, y_end) ==
    LET width == x_end - x_start
    IN  [position \in 1..(width * (y_end - y_start)) |->
            LET row == y_start + ((position - 1) \div width)
                byte_index == x_start + ((position - 1) % width)
            IN  bytes[row * BytesPerRow + byte_index]]

(* Mutant: the window's ends are taken for exclusive ones. *)
PartialWindowTooFar(x_start, x_end_exclusive, y, y_end_exclusive) ==
    Command(\h44, <<Low(x_start), Low(x_end_exclusive)>>)
    \o Command(\h45, <<Low(y), High(y) % 2,
                       Low(y_end_exclusive - 1), High(y_end_exclusive - 1) % 2>>)

(* Mutant: the last row is numbered by its low byte alone. *)
PartialWindowOfOneByte(x_start, x_end_exclusive, y, y_end_exclusive) ==
    Command(\h44, <<Low(x_start), Low(x_end_exclusive - 1)>>)
    \o Command(\h45, <<Low(y), High(y) % 2, Low(y_end_exclusive - 1), 0>>)

PartialWindow(x_start, x_end_exclusive, y, y_end_exclusive) ==
    Command(\h44, <<Low(x_start), Low(x_end_exclusive - 1)>>)
    \o Command(\h45, <<Low(y), High(y) % 2,
                       Low(y_end_exclusive - 1), High(y_end_exclusive - 1) % 2>>)

(* panel_begin_partial_refresh: a rectangle off the panel sends nothing. *)
PartialStream(bytes, box) ==
    LET x_start == box.x \div 8
        x_end_exclusive == (box.x + box.width) \div 8
        y_end_exclusive == box.y + box.height
    IN  IF \/ box.width <= 0 \/ box.height <= 0 \/ box.x < 0 \/ box.y < 0
           \/ box.x + box.width > PanelWidth
           \/ box.y + box.height > PanelHeight
        THEN <<>>
        ELSE Command(\h3C, <<\h80>>)
             \o Command(\h21, <<0, 0>>)
             \o Command(\h3C, <<\h80>>)
             \o PartialWindow(x_start, x_end_exclusive, box.y, y_end_exclusive)
             \o set_cursor(x_start, box.y)
             \o Command(\h24, RowsOf(bytes, x_start, x_end_exclusive,
                                     box.y, y_end_exclusive))
             \o Command(\h22, <<\hFF>>)
             \o Command(\h20, <<>>)
-----------------------------------------------------------------------------
(* The driver's own streams. *)

(* EPD_4IN2_V2_Init, after its hardware and software resets. *)
DriverInit ==
    Command(\h12, <<>>)
    \o Command(\h21, <<\h40, 0>>)
    \o Command(\h3C, <<5>>)
    \o Command(\h11, <<3>>)
    \o set_window(0, 0, PanelWidth - 1, PanelHeight - 1)
    \o set_cursor(0, 0)

(* EPD_4IN2_V2_Display and its TurnOnDisplay. *)
DriverDisplay(bytes) ==
    Command(\h24, WholeFrame(bytes)) \o Command(\h26, WholeFrame(bytes))
    \o Command(\h22, <<\hF7>>) \o Command(\h20, <<>>)

(* EPD_4IN2_V2_PartialDisplay of a packed image, its ends exclusive and    *)
(* in pixels; an end inside a byte takes the whole byte, but for the cases *)
(* of its first branch.                                                    *)
DriverPartial(packed, Xstart, Ystart, Xend, Yend) ==
    LET cut == \/ (Xstart % 8) + (Xend % 8) = 8 /\ Xstart % 8 > Xend % 8
               \/ (Xstart % 8) + (Xend % 8) = 0
               \/ (Xend - Xstart) % 8 = 0
        first == Xstart \div 8
        end == IF cut \/ Xend % 8 = 0 THEN Xend \div 8 ELSE (Xend \div 8) + 1
        count == (end - first) * (Yend - Ystart)
    IN  Command(\h3C, <<\h80>>)
        \o Command(\h21, <<0, 0>>)
        \o Command(\h3C, <<\h80>>)
        \o Command(\h44, <<Low(first), Low(end - 1)>>)
        \o Command(\h45, <<Low(Ystart), High(Ystart) % 2,
                           Low(Yend - 1), High(Yend - 1) % 2>>)
        \o Command(\h4E, <<Low(first)>>)
        \o Command(\h4F, <<Low(Ystart), High(Ystart) % 2>>)
        \o Command(\h24, SubSeq(packed, 1, count))
        \o Command(\h22, <<\hFF>>)
        \o Command(\h20, <<>>)
-----------------------------------------------------------------------------
(* The controller. *)

(* The registers keep the data last sent to them. *)
LastSent(stream, code) ==
    LET sent == {position \in DOMAIN stream : stream[position].code = code}
    IN  stream[CHOOSE position \in sent : \A other \in sent : position >= other].data

Registers(before, stream) ==
    [code \in DOMAIN before |->
        IF \E position \in DOMAIN stream : stream[position].code = code
        THEN LastSent(stream, code) ELSE before[code]]

(* 0x24: the data go where the cursor is, along the window's row, then to  *)
(* its next row, and from its end to its top again.  A window turned       *)
(* inside out takes nothing.  Every stream fills its window, so that the   *)
(* cursor ends where it began.                                             *)
Written(memory, registers, data) ==
    LET number(bytes) == bytes[2] * ByteModulus + bytes[1]
        left == registers[\h44][1]
        right == registers[\h44][2]
        top == number(SubSeq(registers[\h45], 1, 2))
        bottom == number(SubSeq(registers[\h45], 3, 4))
        width == right + 1 - left
        size == width * (bottom + 1 - top)
        start == (number(registers[\h4F]) - top) * width + registers[\h4E][1] - left
        turn(cell) == ((cell[2] - top) * width + (cell[1] - left) - start) % size
        last(cell) == turn(cell) + size * ((Len(data) - turn(cell) - 1) \div size)
        reached == {cell \in (left..right) \X (top..bottom) : turn(cell) < Len(data)}
    IN  [cell \in Cells |-> IF cell \in reached THEN data[last(cell) + 1]
                            ELSE memory[cell]]

Obeyed(state, stream) ==
    LET now == Registers(state.registers, stream)
    IN  IF \E position \in DOMAIN stream : stream[position].code = \h24
        THEN [state EXCEPT !.registers = now,
                           !.memory = Written(@, now, LastSent(stream, \h24))]
        ELSE [state EXCEPT !.registers = now]

(* What a reset leaves is not known: nothing any property can rely on. *)
AfterReset ==
    [registers |-> [code \in {\h11, \h21, \h22, \h3C, \h44, \h45, \h4E, \h4F} |-> <<>>],
     memory |-> [cell \in Cells |-> <<>>],
     glass |-> [cell \in Cells |-> <<>>]]

(* The glass shows the memory when a pass ends. *)
Settled(state) == [state EXCEPT !.glass = state.memory]
-----------------------------------------------------------------------------
(* What the round sends, if it begins a pass, which it counts. *)
Sent ==
    LET waiting == IF refresher.pending_regions # {} THEN refresher.pending_regions
                   ELSE ChangedRegions(refresher.shown, refresher'.target)
    IN  IF refresher'.full_refreshes # refresher.full_refreshes
          THEN FullStream(Bytes(frame'))
        ELSE IF refresher'.partial_refreshes # refresher.partial_refreshes
          THEN PartialStream(Bytes(frame'), Box[FirstRegion(waiting)])
        ELSE <<>>

(* panel_initialise and panel_show_full_frame, before the loop. *)
PanelInit ==
    /\ Init
    /\ controller = Settled(Obeyed(Obeyed(AfterReset, DriverInit),
                                   FullStream(Bytes(frame))))

PanelRound(long, says) ==
    /\ Round(long, says)
    /\ \E stream \in {Sent} : controller' = Obeyed(controller, stream)

PassEnds ==
    /\ PanelFinishes
    /\ controller' = Settled(controller)

PanelNext ==
    \/ \E long \in BOOLEAN, says \in Views : PanelRound(long, says)
    \/ PassEnds

(* As for the refresher: the loop never ends, and a pass does. *)
PanelSpec ==
    /\ PanelInit /\ [][PanelNext]_panel_vars
    /\ WF_panel_vars(\E long \in BOOLEAN, says \in Views : PanelRound(long, says))
    /\ WF_panel_vars(PassEnds)
-----------------------------------------------------------------------------
(***************************************************************************)
(* Properties.                                                             *)
(***************************************************************************)

(* Whatever passes came before, and wherever they left the window and the  *)
(* cursor, every byte lands in its own place: the controller's memory is   *)
(* the frame's bytes, and so is the glass between two passes.              *)
MemoryIsTheFrame ==
    \A cell \in Cells :
        LET byte(picture) == <<picture[AreaAt[cell]], cell>>
        IN  /\ controller.memory[cell] = byte(panel.memory)
            /\ controller.glass[cell] = byte(panel.glass)

(* "A partial pass leaves the update control and border registers set for  *)
(* partial mode" (panel_begin_full_refresh): however full and partial      *)
(* passes alternate, each runs under the registers its own mode needs.     *)
ModesMatch ==
    LET set == controller.registers
    IN  /\ set[\h11] = <<3>>
        /\ set[\h22] = <<\hF7>> => set[\h21] = <<\h40, 0>> /\ set[\h3C] = <<5>>
        /\ set[\h22] = <<\hFF>> => set[\h21] = <<0, 0>> /\ set[\h3C] = <<\h80>>

(* A region's bytes and no others, in the frame's order: the packed image  *)
(* the vendored driver would have been given.                              *)
Packs(packed, bytes, region) ==
    LET offset(byte) == byte[2][2] * BytesPerRow + byte[2][1]
    IN  /\ {packed[i] : i \in DOMAIN packed} =
               {byte \in {bytes[o] : o \in DOMAIN bytes} : byte[2] \in CellsIn[region]}
        /\ \A i, j \in DOMAIN packed : i < j => offset(packed[i]) < offset(packed[j])

(* "The same byte stream" (panel_begin_partial_refresh): every pass sends  *)
(* what the vendored driver would have sent for it, byte for byte for a    *)
(* region, and for a full frame to the same effect as a blocking reset and *)
(* the driver's Display, but for the reset.                                *)
StreamsAreTheDrivers ==
    LET bytes == Bytes(frame)
    IN  /\ \A region \in Regions \ {"Code"} :
              LET box == Box[region]
                  stream == PartialStream(bytes, box)
                  packed == LastSent(stream, \h24)
              IN  /\ Packs(packed, bytes, region)
                  /\ stream = DriverPartial(packed, box.x, box.y,
                                            box.x + box.width, box.y + box.height)
        /\ Obeyed(controller, FullStream(bytes)) =
               Obeyed(controller, DriverInit \o DriverDisplay(bytes))
=============================================================================
