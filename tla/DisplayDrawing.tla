--------------------------- MODULE DisplayDrawing ---------------------------
(***************************************************************************)
(* Where remote_display_layout.c draws, through remote_font.c, remote_qr.c *)
(* and remote_bitmap.c: the rectangles its text and its code cover, in the *)
(* pixels of the real panel.                                               *)
(*                                                                         *)
(* DisplayLayout gives the picture region by region, and the refresher     *)
(* sends regions alone; both are right only if nothing drawn for a region  *)
(* reaches outside it.  A text is the number of its characters, a code     *)
(* the number of its modules; glyphs and modules themselves are left out.  *)
(***************************************************************************)
EXTENDS DisplayRefresher

CONSTANT SideOf  \* the modules a side of each payload's code, 0 if refused

(* Versions 1 to 9 of the standard. *)
Sides == {4 * version + 17 : version \in 1..9}

(* qrcodegen_encodeText, bounded by REMOTE_QR_MAX_VERSION; an empty payload *)
(* is not encoded.                                                         *)
ASSUME SideAssumption ==
    SideOf \in [Payloads -> Sides \cup {0}] /\ SideOf[NoPayload] = 0

Rectangle(x, y, width, height) ==
    [x |-> x, y |-> y, width |-> width, height |-> height]

Within(inner, outer) ==
    /\ outer.x <= inner.x /\ inner.x + inner.width <= outer.x + outer.width
    /\ outer.y <= inner.y /\ inner.y + inner.height <= outer.y + outer.height

(* remote_bitmap_fill_rectangle: what it keeps of a rectangle.  What the   *)
(* layout asks for is given unclipped.                                     *)
FillRectangle(asked) ==
    LET left == IF asked.x < 0 THEN 0 ELSE asked.x
        top == IF asked.y < 0 THEN 0 ELSE asked.y
        right == IF asked.x > 400 - asked.width THEN 400 ELSE asked.x + asked.width
        bottom == IF asked.y > 300 - asked.height THEN 300 ELSE asked.y + asked.height
    IN  IF \/ asked.width <= 0 \/ asked.height <= 0
           \/ right <= left \/ bottom <= top THEN {}
        ELSE {Rectangle(left, top, right - left, bottom - top)}

(* The table of regions: the header, the code's square and the column. *)
LayoutRegion == [region \in Regions |->
    CASE region = "Header" -> Rectangle(0, 0, 400, 36)
      [] region = "Code" -> Rectangle(0, 36, 264, 264)
      [] region = "Page" -> Rectangle(264, 36, 136, 44)
      [] region = "Hint" -> Rectangle(264, 80, 136, 60)
      [] region = "Delivered" -> Rectangle(264, 140, 136, 80)
      [] region = "Error" -> Rectangle(264, 260, 136, 40)]
-----------------------------------------------------------------------------
(* Text. *)

TextWidth(length, scale) == length * 6 * scale

(* remote_font_draw_text: cells of six by seven dots, of which the glyph   *)
(* leaves the last column free.                                            *)
Text(x, y, length, scale) ==
    {Rectangle(x, y, TextWidth(length, scale) - scale, 7 * scale)}

ColumnCells == 136 \div 12

ColumnLineHeight == 7 * 2 + 4

(* Mutant: a value is cut to the buffer it is copied to. *)
CutToCapacity(length) == IF length < 39 THEN length ELSE 39

(* cut_to_cells, into a buffer that is larger than the column. *)
CutToCells(length) == IF length < ColumnCells THEN length ELSE ColumnCells

ColumnLine(y, length) == Text(264 + 6, y, CutToCells(length), 2)

(* The characters of status_label and of the hint's lines. *)
LabelLength == [READY |-> 5, PRESENTING |-> 10, GUEST_CONNECTED |-> 12,
                TERMINATING |-> 6, RECOVERY_REQUIRED |-> 8]

HintLengths == [READY |-> <<6, 11>>, PRESENTING |-> <<11, 11, 11>>,
                GUEST_CONNECTED |-> <<11, 11, 11>>, TERMINATING |-> <<6, 11>>,
                RECOVERY_REQUIRED |-> <<7, 9>>]

(* write_unsigned, of a count below 10000. *)
Digits(count) ==
    IF count < 10 THEN 1 ELSE IF count < 100 THEN 2 ELSE IF count < 1000 THEN 3 ELSE 4
-----------------------------------------------------------------------------
(* The code. *)

(* Mutant: the quiet zone is counted on one side. *)
PixelsBesideOneZone(side) == IF side <= 0 THEN 0 ELSE 259 \div (side + 4)

(* remote_qr_pixels_per_module, in the square of REMOTE_LAYOUT_CODE_SIDE. *)
PixelsPerModule(side) == IF side <= 0 THEN 0 ELSE 259 \div (side + 2 * 4)

(* The square inside the code region, and the code centred in it. *)
CodeSquare == Rectangle((264 - 259) \div 2, 36 + ((264 - 259) \div 2), 259, 259)

Symbol(side) ==
    LET size == side * PixelsPerModule(side)
    IN  Rectangle(CodeSquare.x + ((259 - size) \div 2),
                  CodeSquare.y + ((259 - size) \div 2), size, size)

(* "CODE TOO BIG" and "TO SHOW HERE". *)
Refusal ==
    LET x == CodeSquare.x + ((259 - TextWidth(12, 3)) \div 2)
        middle == CodeSquare.y + (259 \div 2)
    IN  Text(x, middle - 30, 12, 3) \cup Text(x, middle + 6, 12, 3)
-----------------------------------------------------------------------------
(* What is drawn for each region of a connected state, whose code has side *)
(* modules and whose error code has length characters.                     *)
Marks(state, region, side, length) ==
    CASE region = "Header" ->
           Text(8, 8, 8, 3)
           \cup Text(400 - 8 - TextWidth(LabelLength[state.status], 3), 8,
                     LabelLength[state.status], 3)
      [] region = "Code" ->
           IF ~PageShowsACode(state.page) THEN {}
           ELSE IF side = 0 THEN Refusal
           ELSE IF PixelsPerModule(side) < 1 THEN {} ELSE {Symbol(side)}
      [] region = "Page" ->
           IF ~PageShowsACode(state.page) THEN {}
           ELSE ColumnLine(36 + 6, IF state.page = "WIFI" THEN 8 ELSE 11)
                \cup ColumnLine(36 + 6 + ColumnLineHeight, 10)
      [] region = "Hint" ->
           UNION {ColumnLine(80 + 4 + (line - 1) * ColumnLineHeight,
                             HintLengths[state.status][line]) :
                     line \in DOMAIN HintLengths[state.status]}
      [] region = "Delivered" ->
           IF state.status = "READY" THEN {}
           ELSE ColumnLine(140 + 4, 6)
                \cup IF state.delivered > 9999
                     THEN Text(264 + 6, 140 + 8 + ColumnLineHeight, 5, 4)
                     ELSE Text(264 + 6, 140 + 8 + ColumnLineHeight,
                               Digits(state.delivered), 5)
      [] region = "Error" ->
           IF state.error = "NONE" THEN {}
           ELSE {LayoutRegion["Error"]}
                \cup Text(264 + 6, 260 + ((40 - 14) \div 2), CutToCells(length), 2)
-----------------------------------------------------------------------------
(***************************************************************************)
(* Properties.                                                             *)
(***************************************************************************)

(* "Every pixel the layout draws for a connected, non diagnostic state     *)
(* lies inside exactly one" region (remote_display_layout.h): a partial    *)
(* pass that sends the regions whose fields changed leaves no pixel of the *)
(* old state behind, whatever the error code's length in its field of 32,  *)
(* and nothing is clipped on the way.                                      *)
DrawingStaysInside ==
    ~IsLinkScreen(refresher.shown) =>
        \A region \in Regions, length \in 1..32 :
            \A mark \in Marks(refresher.shown, region,
                              SideOf[refresher.shown.payload], length) :
                /\ Within(mark, LayoutRegion[region])
                /\ FillRectangle(mark) = {mark}

(* Around a code of so many modules the square keeps a quiet zone of four  *)
(* modules on each side, and a module is at least four pixels: the least a *)
(* phone can be expected to resolve (remote_qr.h).                         *)
Scannable(side) ==
    LET pixels == PixelsPerModule(side)
    IN  /\ pixels >= 4
        /\ Within(Rectangle(Symbol(side).x - 4 * pixels, Symbol(side).y - 4 * pixels,
                            Symbol(side).width + 8 * pixels,
                            Symbol(side).height + 8 * pixels), CodeSquare)

(* A code the panel is made to show can be scanned; a payload whose code   *)
(* would be too big is never drawn as a code.                              *)
CodesCanBeScanned ==
    LET shown == refresher.shown
    IN  ~IsLinkScreen(shown) /\ PageShowsACode(shown.page) =>
            Scannable(SideOf[shown.payload]) \/ SideOf[shown.payload] = 0
=============================================================================
