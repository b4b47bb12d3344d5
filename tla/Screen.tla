------------------------------- MODULE Screen -------------------------------
(***************************************************************************)
(* What is on the display: the pixels that console/mod.rs, graphics/ and   *)
(* the mouse cursor (mouse/mod.rs) leave in the framebuffer, composed with *)
(* the text state of LineEditor.  Every key action of LineEditor is        *)
(* conjoined with the drawing the console does for it.                     *)
(*                                                                         *)
(* The framebuffer is linear memory: a row is stride pixels, of which      *)
(* width are visible.  It is a set of dots <<pixel, ink>>; a pixel without *)
(* one is background.  A filled rectangle replaces the dots of its pixels, *)
(* a glyph adds its character to them (its blank parts leave what was      *)
(* there).  Glyph sizes are scaled down: a font is [w, px, pitch], the     *)
(* pitch exceeding the height px as in font_h.                             *)
(*                                                                         *)
(* History variables: clean is the framebuffer had the mouse never been    *)
(* drawn; drawn says that the input was redrawn since the row was last     *)
(* printed over; jumped that font, history or a zoom moved the row without *)
(* a newline since; smudged that the console changed what the mouse cursor *)
(* had saved.                                                              *)
(***************************************************************************)
EXTENDS LineEditor
LOCAL INSTANCE SequencesExt

CONSTANTS
    Displays,      \* [width, stride, height] in pixels
    FontSizes,     \* RasterHeight in zoom order: a sequence of [w, px, pitch]
    CURSOR_GAP,    \* the pitch less the height of the block cursor
    MOUSE_SIZE,    \* MOUSE_CURSOR_SIZE
    MOUSE_CLAMP,   \* CURSOR_W and CURSOR_H
    MouseDeltas,   \* movements of one mouse event
    Started,       \* numbers of lines the first tasks print
    Block, Alarm,  \* inks: the block cursor and the mouse; failure messages
    MaxEvents      \* bound: events after the first prompt

ASSUME ScreenAssumption ==
    /\ \A d \in Displays : d.width <= d.stride /\ MOUSE_CLAMP <= d.width
                           /\ MOUSE_CLAMP <= d.height
    /\ MOUSE_SIZE <= MOUSE_CLAMP
    /\ \A i \in 1 .. Len(FontSizes) :
          /\ FontSizes[i].px < FontSizes[i].pitch
          /\ \A d \in Displays : 5 * FontSizes[i].pitch <= d.height

VARIABLES
    display,  \* the mode GOP reported
    writer,   \* KWriter: [fb, clean, column, row, cells, font, scrolled]
    mouse,    \* MOUSE_CURSOR and the shell's position: [shown, x, y, saved]
    mode,     \* "shell", or how it stopped: see Exception, SilentHalt, Panic
    events,
    drawn, jumped, smudged

screen == <<display, writer, mouse, mode, events, drawn, jumped, smudged>>

------------------------------------------------------------------------------
(* Framebuffer and drawing.                                                *)

Pixel(x, y) == y * display.stride + x

Area(x, y, w, h) == {Pixel(i, j) : i \in x .. x + w - 1, j \in y .. y + h - 1}

Visible == Area(0, 0, display.width, display.height)

Outside(fb, area) == {dot \in fb : dot[1] \notin area}
Inside(fb, area) == {dot \in fb : dot[1] \in area}

\* write_pixel for the pixels of a rectangle, by the console: clean follows
Filled(s, area, inks) ==
    [s EXCEPT !.fb    = Outside(@, area) \cup (area \X inks),
              !.clean = Outside(@, area) \cup (area \X inks)]

\* clear_background: the visible pixels
ClearBackground(s) == Filled(s, Visible, {})

\* draw_rec: nothing at all unless the whole rectangle fits
DrawRec(s, x, y, w, h, inks) ==
    IF x + w > display.width \/ y + h > display.height THEN s
    ELSE Filled(s, Area(x, y, w, h), inks)

\* mutant: the right edge is not tested
GlyphUnclipped(ch, x, y, font) == Area(x, y, font.w, font.px) \X {ch}

\* draw_glyph: clipped at the right and bottom edges
Glyph(ch, x, y, font) ==
    LET shown(n, limit, z) == IF z + n > limit THEN limit - z ELSE n
    IN  Area(x, y, shown(font.w, display.width, x), shown(font.px, display.height, y)) \X {ch}

\* draw_text at a character cell: runs off the right edge, does not wrap
Text(text, column, row, font) ==
    UNION {Glyph(text[i], (column + i - 1) * font.w, row * font.pitch, font) :
              i \in 1 .. Len(text)}

DrawText(s, dots) == [s EXCEPT !.fb = @ \cup dots, !.clean = @ \cup dots]

\* scroll_rows: whole strides move up, the bottom ones are zeroed
ScrollRows(s, rows) ==
    LET k == rows * display.stride
        up(fb) == {<<dot[1] - k, dot[2]>> : dot \in {d \in fb : d[1] >= k}}
    IN  [s EXCEPT !.fb = up(@), !.clean = up(@), !.scrolled = TRUE]

------------------------------------------------------------------------------
(* KWriter.                                                                *)

Font(s) == FontSizes[s.font]
Less(a, b) == IF a <= b THEN 0 ELSE a - b     \* saturating_sub

\* mutant: scrolls when the row itself no longer fits
CheckScrollLate(s) ==
    LET fh == Font(s).pitch
        threshold == display.height
        y == s.row * fh
    IN  IF y < threshold THEN s
        ELSE [ScrollRows(s, y - threshold + fh) EXCEPT !.row = Less(threshold, fh) \div fh]

\* check_scroll: three lines are kept free below the row
CheckScroll(s) ==
    LET fh == Font(s).pitch
        threshold == Less(display.height, 3 * fh)
        y == s.row * fh
    IN  IF y < threshold THEN s
        ELSE [ScrollRows(s, y - threshold + fh) EXCEPT !.row = Less(threshold, fh) \div fh]

\* write_str of one character: wraps, does not scroll
PutChar(s, ch) ==
    LET wraps == (s.column + 1) * Font(s).w > display.width
        at == IF wraps THEN [column |-> 0, row |-> s.row + 1]
              ELSE [column |-> s.column, row |-> s.row]
    IN  [DrawText(s, Text(<<ch>>, at.column, at.row, Font(s))) EXCEPT
            !.cells = Append(@, at), !.column = at.column + 1, !.row = at.row]

\* write_str of a newline
Newline(s) == CheckScroll([s EXCEPT !.cells = <<>>, !.column = 0, !.row = @ + 1])

\* kprint, and kprintln of several lines
Kprint(s, text) == FoldLeft(PutChar, s, text)
Kprintln(s, lines) == FoldLeft(LAMBDA t, l : Newline(Kprint(t, l)), s, lines)

\* draw_cursor: after a full row the cursor starts the next one
DrawCursor(s) ==
    LET f == Font(s)
        t == IF display.width < (s.column + 1) * f.w
             THEN CheckScroll([s EXCEPT !.column = 0, !.row = @ + 1]) ELSE s
    IN  DrawRec(t, t.column * f.w, t.row * f.pitch, f.w, f.pitch - CURSOR_GAP, {Block})

EraseCursor(s) ==
    LET f == Font(s)
    IN  DrawRec(s, s.column * f.w, s.row * f.pitch, f.w, f.pitch - CURSOR_GAP, {})

\* cell_position
CellPosition(index, w) ==
    [column |-> ((index * w) % display.width) \div w, row |-> (index * w) \div display.width]

\* set_input_cursor: on the glyph the cursor is at, or after the last one
SetInputCursor(s, cursor) ==
    LET at == Len(PROMPT) + cursor + 1
        end == [Last(s.cells) EXCEPT !.column = @ + 1]
        cell == IF at <= Len(s.cells) THEN s.cells[at]
                ELSE IF (end.column + 1) * Font(s).w > display.width
                THEN [column |-> 0, row |-> end.row + 1]
                ELSE end
    IN  [s EXCEPT !.column = cell.column, !.row = cell.row]

\* rows of the display that text takes
RowsOf(text, f) == (Len(text) * f.w + display.width - 1) \div display.width

\* redraw_input_line: as many rows are erased as the new text takes
Redrawn(s, text, cursor) ==
    LET f == Font(s)
        start == IF s.cells = <<>> THEN s.row ELSE Head(s.cells).row
        cells == [i \in 1 .. Len(text) |->
                     [CellPosition(i - 1, f.w) EXCEPT !.row = @ + start]]
        cleared == DrawRec(s, 0, start * f.pitch, display.width, f.pitch * RowsOf(text, f), {})
        dots == UNION {Text(<<text[i]>>, cells[i].column, cells[i].row, f) : i \in 1 .. Len(text)}
    IN  SetInputCursor([DrawText(cleared, dots) EXCEPT !.cells = cells], cursor)

\* print_history: the last lines that fit, from the top, over what is there
PrintHistory(s, lines) ==
    LET f == Font(s)
        fit == display.height \div f.pitch
        tail == SubSeq(lines, Less(Len(lines), fit) + 1, Len(lines))
    IN  [DrawText(s, UNION {Text(tail[i], 0, i - 1, f) : i \in 1 .. Len(tail)})
            EXCEPT !.column = 0, !.row = Len(tail)]

\* zoom_in, zoom_out: glyph_cells is kept
ZoomTo(s, size, lines, input) ==
    Kprint(PrintHistory(ClearBackground([s EXCEPT !.font = size]), lines), PROMPT \o input)

\* reset
ResetScreen(s) == [ClearBackground(s) EXCEPT !.column = 0, !.row = 0, !.cells = <<>>]

\* EmergencyWriter: the smallest font; rows beyond the display are dropped
EmergencyWriter(s, lines, start) ==
    LET f == FontSizes[1]
        columns == display.width \div f.w
        put(t, ch) ==
            LET wraps == t.column >= columns
                row == IF wraps THEN t.row + 1 ELSE t.row
                column == IF wraps THEN 0 ELSE t.column
            IN  IF row >= display.height \div f.pitch THEN [t EXCEPT !.column = column, !.row = row]
                ELSE [t EXCEPT !.s = DrawText(@, Text(<<ch>>, column, row, f)),
                               !.column = column + 1, !.row = row]
        newline(t) == [t EXCEPT !.column = 0, !.row = @ + 1]
    IN  FoldLeft(LAMBDA t, l : newline(FoldLeft(put, t, l)),
                 [s |-> s, column |-> 0, row |-> start], lines).s

\* mutant: goes on where the console is
EmergencyAtRow(s, lines) == EmergencyWriter(s, lines, s.row)

\* emergency_print: from the top left, without the console's state
EmergencyPrint(s, lines) == EmergencyWriter(s, lines, 0)

------------------------------------------------------------------------------
(* Steps.                                                                  *)

UnderMouse == Area(mouse.x, mouse.y, MOUSE_SIZE, MOUSE_SIZE)

\* erase_mouse_cursor: the saved pixels are put back where the cursor was
Uncovered == IF mouse.shown THEN Outside(writer.fb, UnderMouse) \cup mouse.saved ELSE writer.fb

\* an event of the running shell after which the console is s
Console(s) ==
    /\ mode = "shell" /\ events < MaxEvents
    /\ events' = events + 1
    /\ writer' = [s EXCEPT !.scrolled = FALSE]
    /\ smudged' = \/ smudged
                  \/ mouse.shown /\ s.scrolled
                  \/ mouse.shown /\ Inside(s.clean, UnderMouse) # Inside(writer.clean, UnderMouse)
    /\ UNCHANGED <<display, mouse>>

\* the KeyboardEvent match between erase_cursor and draw_cursor
Key(s) == Console(DrawCursor(s)) /\ mode' = mode
erased == EraseCursor(writer)

FirstPrompt(n) ==
    LET s == [fb |-> {}, clean |-> {}, column |-> 0, row |-> 0,
              cells |-> <<>>, font |-> 1, scrolled |-> FALSE]
    IN  [DrawCursor(Kprint(Kprintln(s, [i \in 1 .. n |-> <<Output>>]), PROMPT))
            EXCEPT !.scrolled = FALSE]

\* shell init: the first tasks print their lines, then the prompt
ScreenInit ==
    /\ display \in Displays
    /\ \E n \in Started :
          /\ history = [i \in 1 .. n |-> <<Output>>]
          /\ writer = FirstPrompt(n)
    /\ line = <<>> /\ current_line = PROMPT /\ input_cursor = 0
    /\ history_index = 0 /\ disturbed = FALSE
    /\ mouse = [shown |-> FALSE, x |-> 0, y |-> 0, saved |-> {}]
    /\ mode = "shell" /\ events = 0
    /\ drawn = FALSE /\ jumped = FALSE /\ smudged = FALSE

\* insert_char redraws for every character
KeyText(action, s) ==
    LET cursor == Lower(input_cursor, Len(line))
    IN  /\ action
        /\ Key(FoldLeft(LAMBDA t, i :
                   Redrawn(t, PROMPT \o InsertedAt(line, cursor, SubSeq(s, 1, i)), cursor + i),
                   erased, [i \in 1 .. Lower(Len(s), MAX_INPUT_CHARS - Len(line)) |-> i]))
        /\ drawn' = TRUE /\ jumped' = jumped

KeyType == \E c \in Chars \ {PromptChar} : KeyText(Type(c), <<c>>)

KeyTab == \E c \in Completions(line) : KeyText(Tab, SubSeq(c, Len(line) + 1, Len(c)))

\* one redraw from the text the editor ends with
KeyRedraws(action) ==
    /\ action
    /\ Key(Redrawn(erased, current_line', input_cursor'))
    /\ drawn' = TRUE /\ jumped' = jumped

\* a key that changes nothing: Down or Up with nothing to recall, Backspace at
\* the start, any character on a full line, Tab with no completion
KeyIgnored ==
    /\ \/ history_index = 0 \/ CommandHistory(history) = <<>>
       \/ Lower(input_cursor, Len(line)) = 0
       \/ Len(line) = MAX_INPUT_CHARS
       \/ Completions(line) \subseteq {line}
    /\ UNCHANGED vars
    /\ Key(erased)
    /\ UNCHANGED <<drawn, jumped>>

\* printing starts where the cursor is, which need not be the end of the input
Replied(s, reply) == Kprintln(Newline(s), reply)

KeyEnter ==
    \E reply \in {<<>>, <<[i \in 1 .. 5 |-> Output]>>} :
        /\ Enter(reply)
        /\ Key(Kprint(Replied(erased, reply), PROMPT))
        /\ drawn' = FALSE /\ jumped' = FALSE

\* Enter on the font command
KeyEnterFont ==
    \E size \in 1 .. Len(FontSizes) :
        /\ Enter(<<>>)
        /\ Key(Kprint([Newline(erased) EXCEPT !.font = size], PROMPT))
        /\ drawn' = FALSE /\ jumped' = TRUE

\* Enter on the history command
KeyEnterHistory ==
    /\ Enter(<<>>)
    /\ Key(Kprint(PrintHistory(Newline(erased), history'), PROMPT))
    /\ drawn' = FALSE /\ jumped' = TRUE

KeyEnterClear ==
    /\ EnterClear
    /\ Key(Kprint(ResetScreen(Newline(erased)), PROMPT))
    /\ drawn' = FALSE /\ jumped' = FALSE

KeyCtrlL ==
    /\ CtrlL
    /\ Key(Kprint(ResetScreen(erased), PROMPT))
    /\ drawn' = FALSE /\ jumped' = FALSE

KeyCtrlC ==
    /\ CtrlC
    /\ Key(Kprint(Newline(Kprint(erased, <<CancelMark>>)), PROMPT))
    /\ drawn' = FALSE /\ jumped' = FALSE

KeyZoom ==
    \E size \in {Lower(writer.font + 1, Len(FontSizes)), IF writer.font = 1 THEN 1 ELSE writer.font - 1} :
        /\ Zoom
        /\ Key(ZoomTo(erased, size, history, line))
        /\ drawn' = FALSE /\ jumped' = TRUE

\* a task or a report prints a line: nobody erases the cursor
BackgroundLine ==
    /\ Background
    /\ Console(Kprintln(writer, <<<<Output>>>>))
    /\ mode' = mode /\ drawn' = FALSE /\ jumped' = FALSE

\* draw_mouse_cursor: what is there is saved, a block painted over it
PaintMouse(fb, x, y) ==
    LET area == Area(x, y, MOUSE_SIZE, MOUSE_SIZE)
    IN  /\ mouse' = [shown |-> TRUE, x |-> x, y |-> y, saved |-> Inside(fb, area)]
        /\ writer' = [writer EXCEPT !.fb = Outside(fb, area) \cup (area \X {Block})]

\* the event moves the position, clamped to the display, and fb is what the
\* display shows without the old cursor
MouseTo(d, fb) ==
    LET clamp(z, limit) == IF z < 0 THEN 0 ELSE Lower(z, limit - MOUSE_CLAMP)
    IN  /\ mode = "shell" /\ events < MaxEvents /\ events' = events + 1
        /\ PaintMouse(fb, clamp(mouse.x + d[1], display.width), clamp(mouse.y + d[2], display.height))
        /\ UNCHANGED <<vars, display, mode, drawn, jumped, smudged>>

\* mutant: the old cursor is not taken off the screen
MouseMoveKeeps == \E d \in MouseDeltas : MouseTo(d, writer.fb)

\* a mouse event: erase_mouse_cursor, then draw_mouse_cursor
MouseMove == \E d \in MouseDeltas : MouseTo(d, Uncovered)

Message == <<[i \in 1 .. 5 |-> Alarm], <<Alarm>>>>

\* an exception handler: breakpoints return, the others halt
Exception ==
    /\ Console(EmergencyPrint(writer, Message))
    /\ mode' \in {"shell", "fault"}
    /\ drawn' = FALSE
    /\ UNCHANGED <<vars, jumped>>

\* double_fault, machine_check: halt without a word
SilentHalt ==
    /\ Console(writer)
    /\ mode' = "silent"
    /\ UNCHANGED <<vars, drawn, jumped>>

\* a panic raised inside a console operation (it allocates with KWRITER held):
\* the handler's kprintln waits for the lock for ever
PanicInConsole ==
    /\ Console(writer)
    /\ mode' = "spinning"
    /\ UNCHANGED <<vars, drawn, jumped>>

\* any other panic: kprintln of a few lines, then halt
Panic ==
    /\ Console(Kprintln(writer, <<<<Alarm>>, <<>>, <<Alarm>>>>))
    /\ mode' = "panic"
    /\ drawn' = FALSE
    /\ UNCHANGED <<vars, jumped>>

ScreenNext ==
    \/ KeyType
    \/ KeyTab
    \/ KeyRedraws(Backspace)
    \/ KeyRedraws(ArrowLeft)
    \/ KeyRedraws(ArrowRight)
    \/ KeyRedraws(ArrowUp)
    \/ KeyRedraws(ArrowDown)
    \/ KeyIgnored
    \/ KeyEnter
    \/ KeyEnterFont
    \/ KeyEnterHistory
    \/ KeyEnterClear
    \/ KeyCtrlL
    \/ KeyCtrlC
    \/ KeyZoom
    \/ BackgroundLine
    \/ MouseMove
    \/ Exception
    \/ SilentHalt
    \/ PanicInConsole
    \/ Panic

ScreenSpec == ScreenInit /\ [][ScreenNext]_<<vars, screen>>

------------------------------------------------------------------------------
(* Properties.                                                             *)

\* Whatever was printed, scrolled, cancelled or recalled before, an input of up
\* to three rows is on the screen: each of its glyphs other than the one under
\* the cursor stands there, at most clipped at the right edge, and after a
\* redraw nothing else shows through it.  Not promised while the row is where
\* font, history or a zoom moved it without a newline.
InputIsReadable ==
    LET f == Font(writer)
        cursor == [column |-> writer.column, row |-> writer.row]
    IN  mode = "shell" /\ ~ jumped /\ RowsOf(current_line, f) <= 3 =>
            /\ Len(writer.cells) = Len(current_line)
            /\ \A i \in 1 .. Len(current_line) :
                  LET cell == writer.cells[i]
                      x == cell.column * f.w
                      y == cell.row * f.pitch
                      glyph == Glyph(current_line[i], x, y, f)
                  IN  cell # cursor =>
                          /\ x < display.width /\ y + f.px <= display.height
                          /\ glyph \subseteq writer.clean
                          /\ drawn => glyph = Inside(writer.clean, {dot[1] : dot \in glyph})

\* Unless the console drew or scrolled under it, the mouse cursor can be taken
\* off and leaves exactly what the console has drawn.
MouseLeavesNoTrace ==
    ~ smudged => Uncovered = writer.clean

\* The reason of a stop can be read: an exception's message starts at the top
\* left, and the last line of a panic outside the console is on the screen,
\* wherever font, history or a zoom had left the row.
FailuresAreVisible ==
    LET small == FontSizes[1]
        f == Font(writer)
        shows(font, x, y) == \A p \in Area(x, y, font.w, font.px) :
                                 p \in Visible /\ <<p, Alarm>> \in writer.fb
    IN  /\ mode = "fault" => \A x \in {i * small.w : i \in 0 .. display.width \div small.w - 1} :
                                 shows(small, x, 0)
        /\ mode = "panic" => \E y \in 0 .. display.height - f.px : shows(f, 0, y)

\* Drawing never leaves the visible part of a row: the memory between the
\* width and the stride stays blank, so no glyph continues on the next row.
NothingBesideTheRows ==
    Outside(writer.fb, Visible) = {}

==============================================================================
