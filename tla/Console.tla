------------------------------- MODULE Console -------------------------------
(***************************************************************************)
(* The console (src/src/kernel/console.c): a byte at a time goes through   *)
(* one of four lexers, which print it, move the cursor, or gather a        *)
(* control sequence and execute it.  A call of con_write is one action.    *)
(* Bytes are named by the characters of ansi.h, the backslash as "ST"; the *)
(* glyph of a printed byte is left out, its colours are kept.              *)
(***************************************************************************)
EXTENDS Integers, Sequences

CONSTANTS Width, Height,  \* 80 and 25 in entry.c
          TabDistance,    \* CONSOLE_TAB_DISTANCE
          MaxSequence,    \* CONSOLE_MAX_ANSI_SEQUENCE, the size of the buffer
          IntMax,         \* the largest int, 2^31 - 1
          Bytes           \* the bytes written

Digits == {"0", "1", "2", "3", "4", "5", "6", "7", "8", "9"}

ASSUME ConsoleAssumption ==
  /\ {Width, Height, TabDistance} \subseteq Nat \ {0}
  /\ Width % TabDistance = 0
  /\ MaxSequence \in Nat /\ MaxSequence >= 2
  /\ IntMax \in Nat /\ IntMax >= (Height + 1) * Width

VARIABLES lexer,      \* output_lexer
          sequence,   \* the buffer's first `length` bytes
          x, y,       \* the cursor
          shown,      \* the cell the hardware's cursor is on
          sx, sy, sa, \* the saved cursor and attribute
          style,      \* attribute and invert
          shortcuts,  \* whether one-byte introducers are taken
          screen      \* the video memory: the screen and a row beyond it

vars == <<lexer, sequence, x, y, shown, sx, sy, sa, style, shortcuts, screen>>

Column == 0 .. Width - 1
Row == 0 .. Height - 1
Area == Width * Height
Memory == 0 .. Area + Width - 1
\* con_at, and what cur_goto is told; exact for cells on the screen.
At(cx, cy) == cx + cy * Width

---------------------------------------------------------------------------
(* Colours: an attribute is two colours, each with its intensity bit. *)

DefaultAttribute == [fg |-> 7, bold |-> FALSE, bg |-> 0, light |-> FALSE]
Blank == [text |-> FALSE, look |-> DefaultAttribute]
Text(look) == [text |-> TRUE, look |-> look]

\* con_attr: what a byte printed now looks like.
Look ==
  LET a == style.attribute
  IN IF style.invert
       THEN [fg |-> a.bg, bold |-> a.light, bg |-> a.fg, light |-> a.bold]
       ELSE a

\* con_ansi_to_vga: the first and the last of the three colour bits change places.
Vga(c) == (c \div 4) + 2 * ((c \div 2) % 2) + 4 * (c % 2)

\* con_srg_apply.  A reset leaves the inversion as it is, and a colour without
\* intensity leaves the intensity.
ResetSgr(s) == [s EXCEPT !.attribute = DefaultAttribute]
Apply(s, code) ==
  CASE code = 0 -> ResetSgr(s)
    [] code = 1 -> [s EXCEPT !.attribute.bold = TRUE]
    [] code = 22 -> [s EXCEPT !.attribute.bold = FALSE]
    [] code = 7 -> [s EXCEPT !.invert = TRUE]
    [] code = 27 -> [s EXCEPT !.invert = FALSE]
    [] code \in 30 .. 37 -> [s EXCEPT !.attribute.fg = Vga(code - 30)]
    [] code = 39 -> [s EXCEPT !.attribute.fg = DefaultAttribute.fg]
    [] code \in 40 .. 47 -> [s EXCEPT !.attribute.bg = Vga(code - 40)]
    [] code = 49 -> [s EXCEPT !.attribute.bg = 0]
    [] code \in 90 .. 97 ->
         [s EXCEPT !.attribute.fg = Vga(code - 90), !.attribute.bold = TRUE]
    [] code \in 100 .. 107 ->
         [s EXCEPT !.attribute.bg = Vga(code - 100), !.attribute.light = TRUE]
    [] OTHER -> s

---------------------------------------------------------------------------
(* Numbers in the buffer s, whose last byte is never a digit. *)

\* What an int holds of a number or a sum (makefile:39 builds with -O0).
Ints == -IntMax - 1 .. IntMax
Wrap(n) == ((n + IntMax + 1) % (2 * IntMax + 2)) - IntMax - 1

Value == [d \in Digits |->
            CHOOSE n \in 0 .. 9 : d = <<"0", "1", "2", "3", "4", "5", "6", "7", "8", "9">>[n + 1]]

\* con_next_int from h on: where its digits end, the number they make, and
\* what is left of it, as it accumulates in an int.
DigitsEnd(s, h) ==
  CHOOSE k \in h .. Len(s) + 1 :
    /\ \A i \in h .. k - 1 : s[i] \in Digits
    /\ k <= Len(s) => s[k] \notin Digits
Written(s, h, fallback) ==
  LET number[i \in h - 1 .. Len(s)] ==
        IF i = h - 1 THEN 0 ELSE 10 * number[i - 1] + Value[s[i]]
  IN IF DigitsEnd(s, h) = h THEN fallback ELSE number[DigitsEnd(s, h) - 1]
Number(s, h, fallback) == Wrap(Written(s, h, fallback))

\* The first number of a sequence, and the one after the byte that ends it.
First(s, fallback) == Number(s, 2, fallback)
Second(s, fallback) == Number(s, DigitsEnd(s, 2) + 1, fallback)

\* con_sgr_execute: the codes up to the end or one that reads as -1, as an
\* absent one does; none is a reset.
Codes(s) ==
  LET codes[h \in 2 .. Len(s) + 1] ==
        IF h >= Len(s) \/ Number(s, h, -1) = -1
          THEN <<>>
          ELSE <<Number(s, h, -1)>> \o codes[DigitsEnd(s, h) + 1]
  IN IF codes[2] = <<>> THEN <<0>> ELSE codes[2]
SgrExecute(s) ==
  LET codes == Codes(s)
      styles[i \in 0 .. Len(codes)] ==
        IF i = 0 THEN style ELSE Apply(styles[i - 1], codes[i])
  IN styles[Len(codes)]

---------------------------------------------------------------------------
(* The screen and the cursor *)

Min(a, b) == IF a < b THEN a ELSE b
Max(a, b) == IF a > b THEN a ELSE b
Clamp(v, low, high) == IF v < low THEN low ELSE IF v > high THEN high ELSE v
Abs(v) == IF v < 0 THEN Wrap(-v) ELSE v

\* con_erase between two addresses, the second excluded.
Erase(s, from, to) == [p \in Memory |-> IF from <= p /\ p < to THEN Blank ELSE s[p]]

\* con_scroll: memmove, and the rows left over erased.
ScrollUp(s, lines) ==
  LET moves == Height - lines
  IN Erase([p \in Memory |-> IF p < moves * Width THEN s[p + lines * Width] ELSE s[p]],
           At(0, moves), At(0, Height))
ScrollDown(s, lines) ==
  Erase([p \in Memory |-> IF lines * Width <= p /\ p < Area THEN s[p - lines * Width] ELSE s[p]],
        At(0, 0), At(0, lines))

\* con_cursor: the hardware hears of changes only.
CursorBoth(nx, ny) ==
  /\ x' = nx /\ y' = ny
  /\ shown' = IF nx # x /\ ny # y THEN At(nx, ny) ELSE shown
Cursor(nx, ny) ==
  /\ x' = nx /\ y' = ny
  /\ shown' = IF nx # x \/ ny # y THEN At(nx, ny) ELSE shown

\* The cursor goes on to (nx, ny), a row below the screen at most; then the
\* screen s scrolls and takes the cursor along.
GoOnBelow(s, nx, ny) ==
  /\ Cursor(nx, ny) /\ screen' = s
GoOn(s, nx, ny) ==
  LET ry == IF ny >= Height THEN Max(ny - 1, 0) ELSE ny
  IN /\ x' = nx /\ y' = ry /\ shown' = At(nx, ry)
     /\ screen' = IF ny >= Height THEN ScrollUp(s, 1) ELSE s

\* Past column cx, in the next row after the last column.
AdjustEarly(s, cx) ==
  IF cx + 1 >= Width THEN GoOn(screen, 0, y + 1) ELSE GoOn(s, cx + 1, y)
Adjust(s, cx) ==
  IF cx + 1 >= Width THEN GoOn(s, 0, y + 1) ELSE GoOn(s, cx + 1, y)

NextTabStop ==
  (x \div TabDistance) * TabDistance + (IF x % TabDistance # 0 THEN TabDistance ELSE 0)

---------------------------------------------------------------------------
(* Control sequences: con_csi_execute on the whole sequence s *)

\* Where a sequence that moves the cursor by n puts it.  A number below 0, or
\* a sum past the largest int, is kept off one end of the screen only.
Moved(code, n) ==
  CASE code = "A" -> <<x, Max(Wrap(y - n), 0)>>                     \* CUU
    [] code = "B" -> <<x, Min(Wrap(y + n), Height - 1)>>            \* CUD
    [] code = "C" -> <<Min(Wrap(x + n), Width - 1), y>>             \* CUF
    [] code = "D" -> <<Max(Wrap(x - n), 0), y>>                     \* CUB
    [] code = "E" -> <<0, Min(Wrap(y + n), Height - 1)>>            \* CNL
MoveCursor(s, code) ==
  /\ code \in {"A", "B", "C", "D", "E"}
  /\ \E n \in {First(s, 1)} \cap Ints :
       Cursor(Moved(code, n)[1], Moved(code, n)[2])
  /\ UNCHANGED <<sx, sy, style, screen>>

\* CUP and HVP: the first number is taken for the column.
PlaceCursor(s, code) ==
  /\ code \in {"H", "f"}
  /\ \E n \in {First(s, 1)} \cap Ints, m \in {Second(s, 1)} \cap Ints :
       Cursor(Clamp(Wrap(n - 1), 0, Width - 1), Clamp(Wrap(m - 1), 0, Height - 1))
  /\ UNCHANGED <<sx, sy, style, screen>>

\* ED and EL: the first and the last row of what the sequence names, and the
\* part of it before or after the cursor.
EraseIn(s, code) ==
  /\ code \in {"J", "K"}
  /\ \E n \in {First(s, 0)} \cap Ints :
       LET top == IF code = "J" THEN 0 ELSE y
           bottom == IF code = "J" THEN Height - 1 ELSE y
       IN screen' = CASE n = 0 -> Erase(screen, At(x, y), At(Width - 1, bottom))
                      [] n = 1 -> Erase(screen, At(0, top), At(x, y))
                      [] n \in {2, 3} -> Erase(screen, At(0, top), At(Width - 1, bottom))
                      [] OTHER -> screen
  /\ UNCHANGED <<x, y, shown, sx, sy, style>>

\* SU and SD: con_scroll(+n) and con_scroll(-n).  The smallest int has no
\* absolute value: by so many rows up the addresses wrap round to the same
\* ones, and only the cursor moves.
ScrollBy(offset) ==
  LET lines == Min(Abs(offset), Height)
  IN IF offset < 0
       THEN /\ screen' = IF lines < 0 THEN screen ELSE ScrollDown(screen, lines)
            /\ Cursor(x, Min(y + lines, Height - 1))
       ELSE screen' = ScrollUp(screen, lines) /\ Cursor(x, Max(y - lines, 0))
Scroll(s, code) ==
  /\ code \in {"S", "T"}
  /\ \E n \in {First(s, 1)} \cap Ints : ScrollBy(IF code = "S" THEN n ELSE Wrap(-n))
  /\ UNCHANGED <<sx, sy, style>>

\* SCP, RCP, SGR, and the codes that are not handled.
SaveCursor(code) ==
  /\ code = "s" /\ sx' = x /\ sy' = y
  /\ UNCHANGED <<x, y, shown, style, screen>>
RestoreCursor(code) ==
  /\ code = "u" /\ Cursor(sx, sy)
  /\ UNCHANGED <<sx, sy, style, screen>>
SetStyle(s, code) ==
  /\ code = "m" /\ style' = SgrExecute(s)
  /\ UNCHANGED <<x, y, shown, sx, sy, screen>>
Unhandled(code) ==
  /\ code \notin {"A", "B", "C", "D", "E", "H", "f", "J", "K", "S", "T", "s", "u", "m"}
  /\ UNCHANGED <<x, y, shown, sx, sy, style, screen>>

CsiExecute(s, code) ==
  \/ MoveCursor(s, code) \/ PlaceCursor(s, code) \/ EraseIn(s, code) \/ Scroll(s, code)
  \/ SaveCursor(code) \/ RestoreCursor(code) \/ SetStyle(s, code) \/ Unhandled(code)

---------------------------------------------------------------------------
(* con_lexer_initial *)

Controls == {"BS", "CR", "LF", "ESC", "TAB", "CSI", "DCS", "OSC"}
Shortcut == {"CSI", "DCS", "OSC"}

\* What is printed: no control byte, unless it is a shortcut that is off.
Printed(b) == b \in Controls => b \in Shortcut /\ ~shortcuts

Backspace(b) ==
  /\ b = "BS"
  /\ IF x > 0 THEN Cursor(x - 1, y) ELSE UNCHANGED <<x, y, shown>>
  /\ UNCHANGED <<lexer, sequence, sx, sy, sa, style, shortcuts, screen>>

CarriageReturn(b) ==
  /\ b = "CR" /\ Cursor(0, y)
  /\ UNCHANGED <<lexer, sequence, sx, sy, sa, style, shortcuts, screen>>

LineFeed(b) ==
  /\ b = "LF" /\ GoOn(screen, 0, y + 1)
  /\ UNCHANGED <<lexer, sequence, sx, sy, sa, style, shortcuts>>

Escape(b) ==
  /\ b = "ESC" /\ lexer' = "escape"
  /\ UNCHANGED <<sequence, x, y, shown, sx, sy, sa, style, shortcuts, screen>>

\* The one-byte introducers; DCS and OSC store the code of CSI too.
Introduce(b) ==
  /\ shortcuts /\ b \in Shortcut
  /\ sequence' = <<"[">>
  /\ lexer' = IF b = "CSI" THEN "csi" ELSE "until_st"
  /\ UNCHANGED <<x, y, shown, sx, sy, sa, style, shortcuts, screen>>

\* The cursor stands one column past the tab stop.
Tab(b) ==
  /\ b = "TAB" /\ Adjust(screen, NextTabStop)
  /\ UNCHANGED <<lexer, sequence, sx, sy, sa, style, shortcuts>>

Glyph(b) ==
  /\ Printed(b)
  /\ Adjust([screen EXCEPT ![At(x, y)] = Text(Look)], x)
  /\ UNCHANGED <<lexer, sequence, sx, sy, sa, style, shortcuts>>

InitialLexer(b) ==
  /\ lexer = "initial"
  /\ \/ Backspace(b) \/ CarriageReturn(b) \/ LineFeed(b) \/ Escape(b)
     \/ Introduce(b) \/ Tab(b) \/ Glyph(b)

---------------------------------------------------------------------------
(* The other lexers.  The buffer is emptied when a sequence ends: nothing  *)
(* reads it before the next one clears it.  Bytes no lexer tells apart are *)
(* stored as ";".                                                          *)

Finals == Bytes \ (Digits \cup Controls \cup {";", "<", ">"})   \* ANSI_CSI_FINAL

EscapeLexer(b) ==
  /\ lexer = "escape"
  /\ lexer' = CASE b = "[" -> "csi"
                [] b \in {"]", "X", "^", "_", "P"} -> "until_st"
                [] OTHER -> "initial"
  /\ sequence' = IF lexer' = "initial" THEN <<>> ELSE <<b>>
  /\ shortcuts' = CASE b = "<" -> FALSE [] b = ">" -> TRUE [] OTHER -> shortcuts
  /\ IF b = "7" THEN sx' = x /\ sy' = y /\ sa' = style.attribute     \* DECSC
               ELSE UNCHANGED <<sx, sy, sa>>
  /\ IF b = "8" THEN Cursor(sx, sy) /\ style' = [style EXCEPT !.attribute = sa]  \* DECRC
               ELSE UNCHANGED <<x, y, shown, style>>
  /\ UNCHANGED screen

\* A byte goes into the buffer; a full buffer ends the sequence.
GatherDropping(b) ==
  /\ sequence' = IF Len(sequence) + 1 >= MaxSequence THEN sequence ELSE Append(sequence, b)
  /\ UNCHANGED <<lexer, x, y, shown, sx, sy, sa, style, shortcuts, screen>>
Gather(b) ==
  /\ sequence' = IF Len(sequence) + 1 >= MaxSequence THEN <<>> ELSE Append(sequence, b)
  /\ lexer' = IF Len(sequence) + 1 >= MaxSequence THEN "initial" ELSE lexer
  /\ UNCHANGED <<x, y, shown, sx, sy, sa, style, shortcuts, screen>>
CsiLexer(b) ==
  /\ lexer = "csi"
  /\ \/ /\ b \in Finals
        /\ lexer' = "initial" /\ sequence' = <<>>
        /\ CsiExecute(Append(sequence, b), b)
        /\ UNCHANGED <<sa, shortcuts>>
     \/ /\ b \notin Finals
        /\ Gather(IF b \in Digits THEN b ELSE ";")

\* con_execute does nothing on what a string terminator ends.
UntilStLexer(b) ==
  /\ lexer = "until_st"
  /\ \/ /\ b = "ST" /\ sequence[Len(sequence)] = "ESC"
        /\ lexer' = "initial" /\ sequence' = <<>>
        /\ UNCHANGED <<x, y, shown, sx, sy, sa, style, shortcuts, screen>>
     \/ /\ ~(b = "ST" /\ sequence[Len(sequence)] = "ESC")
        /\ Gather(IF b = "ESC" THEN b ELSE ";")

---------------------------------------------------------------------------
\* con_init: the cursor is shown on the first cell and all cells but the last
\* are erased; what stands in that one is the boot loader's.
Init ==
  /\ lexer = "initial" /\ sequence = <<>>
  /\ x = 0 /\ y = 0 /\ shown = At(0, 0)
  /\ sx = 0 /\ sy = 0 /\ sa = DefaultAttribute
  /\ style = [attribute |-> DefaultAttribute, invert |-> FALSE]
  /\ shortcuts = TRUE
  /\ screen = Erase([p \in Memory |-> Text(DefaultAttribute)], At(0, 0), At(Width - 1, Height - 1))

OnScreen == x \in Column /\ y \in Row

\* con_write.  The next glyph, or part of the screen erased from or up to the
\* cursor, is looked for at con_at(x, y): what is written once that is no cell
\* of the screen is not followed.
Write(b) ==
  /\ OnScreen
  /\ InitialLexer(b) \/ EscapeLexer(b) \/ CsiLexer(b) \/ UntilStLexer(b)
Lost == ~OnScreen /\ UNCHANGED vars

Next == (\E b \in Bytes : Write(b)) \/ Lost
Spec == Init /\ [][Next]_vars /\ WF_vars(Next)

---------------------------------------------------------------------------
(* Properties *)

(* Between two bytes the buffer has room for the byte a lexer is about to   *)
(* store in it (console.c:482, 498), the saved cursor is on the screen, and *)
(* nothing was written or moved to the video memory behind the screen.  The *)
(* cursor is on the screen, where con_at and con_erase need it, until a      *)
(* sequence moves it by a number that is too large for an int or for an     *)
(* int's sum with a coordinate (console.c:89, 202-232): no other byte takes *)
(* it off.                                                                  *)
Stored == Bytes \cup {"[", ";"}
HasRoom ==
  /\ sequence \in Seq(Stored)
  /\ lexer \in {"csi", "until_st"} => Len(sequence) \in 1 .. MaxSequence - 1
BehindIntact ==
  /\ DOMAIN screen = Memory
  /\ \A p \in Area .. Area + Width - 1 : screen[p] = Text(DefaultAttribute)
SavedOnScreen == sx \in Column /\ sy \in Row
Fits(s) == Written(s, 2, 1) \in 0 .. IntMax - Max(Width, Height)
LeavesByNumber ==
  OnScreen /\ ~OnScreen' =>
    lexer = "csi" /\ \E b \in Finals : ~Fits(Append(sequence, b))
InBounds ==
  [](HasRoom /\ BehindIntact /\ SavedOnScreen) /\ [][LeavesByNumber]_vars

(* The cursor the hardware shows is where the next byte goes, although     *)
(* con_cursor tells it of changes only and con_scroll and the lexers move  *)
(* the cursor through cells off the screen.                                *)
CursorShown == shown = At(x, y)

(* Text stays: a byte that is printed stands in the cell the cursor was on *)
(* and the cursor goes on to the next; other bytes outside of control      *)
(* sequences write no cell.  The cells move only from the last row: all of *)
(* them, the one just printed included, one row up, and the cursor is in a *)
(* blank last row.                                                         *)
RolledUp(s) ==
  /\ y = Height - 1 /\ y' = y /\ x' = 0
  /\ \A p \in 0 .. Area - 1 :
       screen'[p] = IF p >= Area - Width THEN Blank ELSE s[p + Width]
TextKept ==
  [][ \A b \in Bytes : InitialLexer(b) =>
        IF Printed(b)
          THEN LET here == [screen EXCEPT ![At(x, y)] = Text(Look)]
               IN \/ screen' = here /\ At(x', y') = At(x, y) + 1
                  \/ RolledUp(here)
          ELSE screen' = screen \/ RolledUp(screen)
    ]_vars

(* A control sequence ends: whatever bytes follow, as long as some do, the *)
(* console prints again (the limits of console.c:491 and 507).             *)
SequenceEnds == lexer # "initial" ~> lexer = "initial"
=============================================================================
