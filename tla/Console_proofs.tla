--------------------------- MODULE Console_proofs ----------------------------
(***************************************************************************)
(* The console keeps to the screen until a number too large for an int     *)
(* takes the cursor off it, to its buffer, and to the cursor the hardware  *)
(* shows, for every size of the screen, of the buffer and of an int and    *)
(* for every set of bytes.                                                 *)
(***************************************************************************)
EXTENDS Console, TLAPS

CInv == HasRoom /\ BehindIntact /\ SavedOnScreen /\ CursorShown

LEMMA Sizes ==
  /\ Width \in Nat /\ Width >= 1 /\ Height \in Nat /\ Height >= 1
  /\ MaxSequence \in Nat /\ MaxSequence >= 2
  /\ IntMax \in Nat
<1>1. {Width, Height, TabDistance} \subseteq Nat \ {0} /\ MaxSequence \in Nat /\ MaxSequence >= 2 /\ IntMax \in Nat
  BY ConsoleAssumption, Zenon
<1>2. Width \in Nat \ {0} /\ Height \in Nat \ {0}
  BY <1>1
<1> QED BY <1>1, <1>2

(* Rows begin inside the screen or right behind it. *)
LEMMA RowsInArea ==
  ASSUME NEW r \in Int, 0 <= r, r <= Height
  PROVE  r * Width \in Int /\ 0 <= r * Width /\ r * Width <= Area
<1>1. Area \in Int /\ Area = Height * Width
  BY Sizes, Z3 DEF Area
<1>2. Height * Width - r * Width = (Height - r) * Width
  BY Sizes, Z3
<1>3. (Height - r) * Width >= 0 /\ r * Width >= 0 /\ r * Width \in Int
  BY Sizes, Z3
<1> QED BY <1>1, <1>2, <1>3, Sizes

LEMMA CellInArea ==
  ASSUME NEW cx \in Column, NEW cy \in Row
  PROVE  At(cx, cy) \in Int /\ 0 <= At(cx, cy) /\ At(cx, cy) < Area
<1>1. cy + 1 \in Int /\ 0 <= cy + 1 /\ cy + 1 <= Height
  BY Sizes DEF Row
<1>2. (cy + 1) * Width <= Area
  BY <1>1, RowsInArea
<1>3. (cy + 1) * Width = cy * Width + Width /\ cy * Width \in Int
  BY Sizes, Z3 DEF Row
<1>4. cy * Width >= 0
  BY Sizes, Z3 DEF Row
<1>5. Area \in Int
  BY Sizes, Z3 DEF Area
<1> QED BY <1>2, <1>3, <1>4, <1>5, Sizes DEF At, Column

(* Erasing, and scrolling by no more rows than there are, keep what stands *)
(* behind the screen.                                                      *)
Behind(s) ==
  /\ DOMAIN s = Memory
  /\ \A p \in Area .. Area + Width - 1 : s[p] = Text(DefaultAttribute)

LEMMA EraseBehind ==
  ASSUME NEW s, Behind(s), NEW from \in Int, NEW to \in Int, to <= Area
  PROVE  Behind(Erase(s, from, to))
<1> DEFINE e == Erase(s, from, to)
<1>1. Area \in Int /\ Area >= 0
  BY Sizes, Z3 DEF Area
<1>2. ASSUME NEW p \in Area .. Area + Width - 1 PROVE e[p] = s[p]
  <2>1. p \in Memory /\ ~(p < to)
    BY <1>1, Sizes DEF Memory
  <2> QED BY <2>1 DEF Erase
<1>3. DOMAIN e = Memory
  BY DEF Erase
<1>4. Behind(e)
  <2> HIDE DEF e
  <2> QED BY <1>2, <1>3 DEF Behind
<1> QED BY <1>4

LEMMA ScrollBehind ==
  ASSUME NEW s, Behind(s), NEW lines \in Int, 0 <= lines, lines <= Height
  PROVE  Behind(ScrollUp(s, lines)) /\ Behind(ScrollDown(s, lines))
<1> DEFINE moves == Height - lines
           up == [p \in Memory |-> IF p < moves * Width THEN s[p + lines * Width] ELSE s[p]]
           down == [p \in Memory |->
                      IF lines * Width <= p /\ p < Area THEN s[p - lines * Width] ELSE s[p]]
<1>1. /\ Area \in Int
      /\ moves * Width \in Int /\ moves * Width <= Area
      /\ lines * Width \in Int /\ lines * Width <= Area
      /\ Height * Width = Area /\ 0 * Width = 0
  <2>1. moves \in Int /\ 0 <= moves /\ moves <= Height
    BY Sizes
  <2>2. Area \in Int /\ Height * Width = Area /\ 0 * Width = 0
    BY Sizes, Z3 DEF Area
  <2> HIDE DEF moves
  <2> QED BY <2>1, <2>2, RowsInArea
<1>2. Behind(up)
  <2>1. ASSUME NEW p \in Area .. Area + Width - 1 PROVE up[p] = s[p]
    <3>1. p \in Memory /\ ~(p < moves * Width)
      BY <1>1, Sizes DEF Memory
    <3> QED BY <3>1
  <2> HIDE DEF up
  <2>2. DOMAIN up = Memory
    BY DEF up
  <2> QED BY <2>1, <2>2 DEF Behind
<1>3. Behind(down)
  <2>1. ASSUME NEW p \in Area .. Area + Width - 1 PROVE down[p] = s[p]
    <3>1. p \in Memory /\ ~(p < Area)
      BY <1>1, Sizes DEF Memory
    <3> QED BY <3>1
  <2>2. DOMAIN down = Memory
    OBVIOUS
  <2> HIDE DEF down
  <2> QED BY <2>1, <2>2 DEF Behind
<1>4. /\ ScrollUp(s, lines) = Erase(up, At(0, moves), At(0, Height))
      /\ ScrollDown(s, lines) = Erase(down, At(0, 0), At(0, lines))
  BY DEF ScrollUp, ScrollDown
<1>5. /\ At(0, moves) \in Int /\ At(0, Height) \in Int /\ At(0, Height) <= Area
      /\ At(0, 0) \in Int /\ At(0, lines) \in Int /\ At(0, lines) <= Area
  BY <1>1 DEF At
<1> HIDE DEF up, down, moves
<1> QED BY <1>2, <1>3, <1>4, <1>5, EraseBehind

LEMMA BehindMeans == BehindIntact <=> Behind(screen)
BY DEF BehindIntact, Behind

(* The ways the cursor moves. *)
LEMMA CursorOnScreen ==
  ASSUME NEW nx \in Column, NEW ny \in Row, CursorShown, Cursor(nx, ny)
  PROVE  x' \in Column /\ y' \in Row /\ CursorShown'
BY DEF Cursor, CursorShown, At

LEMMA GoOnInBounds ==
  ASSUME NEW s, Behind(s), NEW nx \in Column, NEW ny \in Int, 0 <= ny, ny <= Height,
         GoOn(s, nx, ny)
  PROVE  x' \in Column /\ y' \in Row /\ CursorShown' /\ Behind(screen')
<1>1. Behind(ScrollUp(s, 1))
  BY Sizes, ScrollBehind
<1>2. Behind(screen')
  BY <1>1 DEF GoOn
<1>3. x' = nx /\ y' \in Row
  BY Sizes DEF GoOn, Max, Row
<1>4. shown' = At(x', y')
  BY DEF GoOn
<1> QED BY <1>2, <1>3, <1>4 DEF CursorShown, At

LEMMA AdjustInBounds ==
  ASSUME NEW s, Behind(s), y \in Row, NEW cx \in Int, 0 <= cx, Adjust(s, cx)
  PROVE  x' \in Column /\ y' \in Row /\ CursorShown' /\ Behind(screen')
<1>1. y \in Int /\ 0 <= y /\ y < Height
  BY Sizes DEF Row
<1>2. CASE cx + 1 >= Width
  <2>1. GoOn(s, 0, y + 1) /\ 0 \in Column /\ y + 1 \in Int /\ 0 <= y + 1 /\ y + 1 <= Height
    BY <1>1, <1>2, Sizes DEF Adjust, Column
  <2> QED BY <2>1, GoOnInBounds
<1>3. CASE ~(cx + 1 >= Width)
  <2>1. GoOn(s, cx + 1, y) /\ cx + 1 \in Column /\ y <= Height
    BY <1>1, <1>3, Sizes DEF Adjust, Column
  <2> QED BY <1>1, <2>1, GoOnInBounds
<1> QED BY <1>2, <1>3

LEMMA SequenceFacts ==
  ASSUME NEW S, NEW e \in S
  PROVE  /\ <<>> \in Seq(S)
         /\ <<e>> \in Seq(S) /\ Len(<<e>>) = 1
         /\ \A s \in Seq(S) : /\ Len(s) \in Nat
                              /\ Append(s, e) \in Seq(S)
                              /\ Len(Append(s, e)) = Len(s) + 1
OBVIOUS

LEMMA BytesStored == Bytes \subseteq Stored /\ "[" \in Stored /\ ";" \in Stored
BY DEF Stored

(* One lemma per lexer. *)
LEMMA InitialStep ==
  ASSUME CInv, OnScreen, NEW b \in Bytes, InitialLexer(b)
  PROVE  CInv' /\ OnScreen'
<1>1. /\ x \in Column /\ y \in Row /\ sx \in Column /\ sy \in Row
      /\ CursorShown /\ HasRoom /\ Behind(screen)
  BY BehindMeans DEF CInv, SavedOnScreen, OnScreen
<1>2. /\ x \in Int /\ 0 <= x /\ x < Width /\ y \in Int /\ 0 <= y /\ y < Height
  BY <1>1, Sizes DEF Column, Row
<1>3. SUFFICES /\ x' \in Column /\ y' \in Row /\ sx' \in Column /\ sy' \in Row
               /\ CursorShown' /\ HasRoom' /\ Behind(screen')
  BY DEF CInv, SavedOnScreen, OnScreen, BehindIntact, Behind
<1>4. lexer = "initial"
  BY DEF InitialLexer
<1>5. CASE Backspace(b)
  <2>1. UNCHANGED <<sx, sy, screen>> /\ HasRoom'
    BY <1>1, <1>5 DEF Backspace, HasRoom
  <2>2. x' \in Column /\ y' \in Row /\ CursorShown'
    <3>1. CASE x > 0
      <4>1. Cursor(x - 1, y) /\ x - 1 \in Column
        BY <1>2, <1>5, <3>1, Sizes DEF Backspace, Column
      <4> QED BY <1>1, <4>1, CursorOnScreen
    <3>2. CASE ~(x > 0)
      BY <1>1, <1>5, <3>2 DEF Backspace, CursorShown, At
    <3> QED BY <3>1, <3>2
  <2> QED BY <1>1, <2>1, <2>2
<1>6. CASE CarriageReturn(b)
  <2>1. UNCHANGED <<sx, sy, screen>> /\ HasRoom'
    BY <1>1, <1>6 DEF CarriageReturn, HasRoom
  <2>2. Cursor(0, y) /\ 0 \in Column
    BY <1>6, Sizes DEF CarriageReturn, Column
  <2> QED BY <1>1, <2>1, <2>2, CursorOnScreen
<1>7. CASE LineFeed(b)
  <2>1. UNCHANGED <<sx, sy>> /\ HasRoom'
    BY <1>1, <1>7 DEF LineFeed, HasRoom
  <2>2. GoOn(screen, 0, y + 1) /\ 0 \in Column /\ y + 1 \in Int /\ 0 <= y + 1 /\ y + 1 <= Height
    BY <1>2, <1>7, Sizes DEF LineFeed, Column
  <2> QED BY <1>1, <2>1, <2>2, GoOnInBounds
<1>8. CASE Escape(b)
  BY <1>1, <1>8 DEF Escape, HasRoom, CursorShown, At
<1>9. CASE Introduce(b)
  <2>1. UNCHANGED <<x, y, shown, sx, sy, screen>> /\ sequence' = <<"[">>
    BY <1>9 DEF Introduce
  <2>2. HasRoom'
    <3>1. <<"[">> \in Seq(Stored) /\ Len(<<"[">>) = 1
      BY SequenceFacts, BytesStored
    <3>2. sequence' \in Seq(Stored) /\ Len(sequence') \in 1 .. MaxSequence - 1
      BY <2>1, <3>1, Sizes
    <3> QED BY <3>2 DEF HasRoom
  <2> QED BY <1>1, <2>1, <2>2 DEF CursorShown, At
<1>10. CASE Tab(b)
  <2>1. UNCHANGED <<sx, sy>> /\ HasRoom'
    BY <1>1, <1>10 DEF Tab, HasRoom
  <2>2. NextTabStop \in Int /\ 0 <= NextTabStop
    <3>1. TabDistance \in Nat /\ TabDistance >= 1
      BY ConsoleAssumption
    <3>2. x \div TabDistance \in Int /\ x \div TabDistance >= 0
      BY <1>2, <3>1, Z3
    <3>3. (x \div TabDistance) * TabDistance \in Int /\ (x \div TabDistance) * TabDistance >= 0
      BY <3>1, <3>2, Z3
    <3> QED BY <3>1, <3>3 DEF NextTabStop
  <2>3. Adjust(screen, NextTabStop)
    BY <1>10 DEF Tab
  <2> QED BY <1>1, <2>1, <2>2, <2>3, AdjustInBounds
<1>11. CASE Glyph(b)
  <2> DEFINE here == [screen EXCEPT ![At(x, y)] = Text(Look)]
  <2>1. UNCHANGED <<sx, sy>> /\ HasRoom' /\ Adjust(here, x)
    BY <1>1, <1>11 DEF Glyph, HasRoom
  <2>2. Behind(here)
    <3>1. /\ DOMAIN screen = Memory /\ DOMAIN here = Memory
          /\ At(x, y) \in Int /\ At(x, y) < Area /\ Area \in Int
      BY <1>1, CellInArea, Sizes, Z3 DEF Behind, Area
    <3>2. ASSUME NEW p \in Area .. Area + Width - 1 PROVE here[p] = Text(DefaultAttribute)
      <4>1. p # At(x, y) /\ p \in DOMAIN screen /\ screen[p] = Text(DefaultAttribute)
        <5>1. p \in Int /\ p >= Area
          BY <3>1, Sizes
        <5>2. p \in Memory
          BY <3>1, <5>1, Sizes, CellInArea, <1>1 DEF Memory
        <5> QED BY <1>1, <3>1, <5>1, <5>2 DEF Behind
      <4> QED BY <4>1
    <3> HIDE DEF here
    <3> QED BY <3>1, <3>2 DEF Behind
  <2> HIDE DEF here
  <2> QED BY <1>1, <1>2, <2>1, <2>2, AdjustInBounds
<1> QED BY <1>5, <1>6, <1>7, <1>8, <1>9, <1>10, <1>11 DEF InitialLexer

LEMMA EscapeStep ==
  ASSUME CInv, OnScreen, NEW b \in Bytes, EscapeLexer(b)
  PROVE  CInv' /\ OnScreen'
<1>1. /\ x \in Column /\ y \in Row /\ sx \in Column /\ sy \in Row
      /\ CursorShown /\ Behind(screen)
  BY BehindMeans DEF CInv, SavedOnScreen, OnScreen
<1>2. SUFFICES /\ x' \in Column /\ y' \in Row /\ sx' \in Column /\ sy' \in Row
               /\ CursorShown' /\ HasRoom' /\ Behind(screen')
  BY DEF CInv, SavedOnScreen, OnScreen, BehindIntact, Behind
<1>3. HasRoom'
  <2>1. /\ lexer' = "initial" => sequence' = <<>>
        /\ lexer' # "initial" => sequence' = <<b>>
        /\ b \in Stored
    BY BytesStored, Zenon DEF EscapeLexer
  <2>2. <<>> \in Seq(Stored) /\ <<b>> \in Seq(Stored) /\ Len(<<b>>) = 1
    BY <2>1, SequenceFacts
  <2>3. sequence' \in Seq(Stored)
    BY <2>1, <2>2
  <2>4. ASSUME lexer' # "initial" PROVE Len(sequence') \in 1 .. MaxSequence - 1
    <3>1. sequence' = <<b>>
      BY <2>1, <2>4, Zenon
    <3> QED BY <2>2, <3>1, Sizes
  <2> QED BY <2>3, <2>4 DEF HasRoom
<1>4. sx' \in Column /\ sy' \in Row /\ Behind(screen')
  BY <1>1 DEF EscapeLexer
<1>5. x' \in Column /\ y' \in Row /\ CursorShown'
  <2>1. CASE b = "8"
    BY <1>1, <2>1, CursorOnScreen DEF EscapeLexer
  <2>2. CASE b # "8"
    BY <1>1, <2>2 DEF EscapeLexer, CursorShown, At
  <2> QED BY <2>1, <2>2
<1> QED BY <1>3, <1>4, <1>5

LEMMA GatherStep ==
  ASSUME CInv, OnScreen, lexer \in {"csi", "until_st"}, NEW b \in Stored, Gather(b)
  PROVE  CInv' /\ OnScreen'
<1>1. UNCHANGED <<x, y, shown, sx, sy, screen>>
  BY DEF Gather
<1>2. HasRoom'
  <2>1. /\ sequence \in Seq(Stored) /\ Len(sequence) \in Nat
        /\ Append(sequence, b) \in Seq(Stored)
        /\ Len(Append(sequence, b)) = Len(sequence) + 1
    BY SequenceFacts DEF CInv, HasRoom
  <2>2. CASE Len(sequence) + 1 >= MaxSequence
    BY <2>2, SequenceFacts DEF Gather, HasRoom
  <2>3. CASE ~(Len(sequence) + 1 >= MaxSequence)
    BY <2>1, <2>3, Sizes DEF Gather, HasRoom
  <2> QED BY <2>2, <2>3
<1> QED BY <1>1, <1>2 DEF CInv, SavedOnScreen, OnScreen, BehindIntact, CursorShown, At, Memory

(* What a sequence makes of its numbers: an int, the number itself if it   *)
(* fits, and then every sum with a coordinate is exact too.                *)
LEMMA WrapFacts ==
  ASSUME NEW n \in Int
  PROVE  /\ Wrap(n) \in Ints
         /\ n \in Ints => Wrap(n) = n
<1>1. IntMax \in Int /\ IntMax >= 0
  BY Sizes
<1> DEFINE m == 2 * IntMax + 2
           k == n + IntMax + 1
<1>2. m \in Int /\ m > 0 /\ k \in Int
  BY <1>1
<1>3. k % m \in Int /\ 0 <= k % m /\ k % m < m
  <2> HIDE DEF m, k
  <2> QED BY <1>2, Z3
<1>4. (0 <= k /\ k < m) => k % m = k
  <2> HIDE DEF m, k
  <2> QED BY <1>2, Z3
<1> QED BY <1>1, <1>3, <1>4 DEF Wrap, Ints

LEMMA FittingNumber ==
  ASSUME NEW s, Fits(s), First(s, 1) \in Ints
  PROVE  /\ First(s, 1) >= 0
         /\ First(s, 1) + Width <= IntMax /\ First(s, 1) + Height <= IntMax
<1> DEFINE n == Written(s, 2, 1)
<1>1. n \in 0 .. IntMax - Max(Width, Height)
  BY DEF Fits
<1> HIDE DEF n
<1>2. n \in Int /\ n >= 0 /\ n + Width <= IntMax /\ n + Height <= IntMax
  BY <1>1, Sizes DEF Max
<1>3. Wrap(n) = n
  BY <1>2, WrapFacts, Sizes DEF Ints
<1>4. First(s, 1) = n
  BY <1>3 DEF First, Number, n
<1> QED BY <1>2, <1>4

(* A cursor told to the hardware is shown, wherever it is. *)
LEMMA CursorAnywhere ==
  ASSUME NEW nx, NEW ny, CursorShown, Cursor(nx, ny)
  PROVE  x' = nx /\ y' = ny /\ CursorShown'
BY DEF Cursor, CursorShown, At

(* con_scroll by n rows, down for n < 0. *)
LEMMA ScrollByStep ==
  ASSUME OnScreen, CursorShown, Behind(screen), NEW n \in Ints, ScrollBy(n)
  PROVE  /\ Behind(screen') /\ CursorShown'
         /\ n # -IntMax - 1 => OnScreen'
<1>1. /\ x \in Column /\ y \in Int /\ 0 <= y /\ y < Height
      /\ n \in Int /\ -IntMax - 1 <= n /\ n <= IntMax /\ IntMax \in Nat /\ Height \in Nat
      /\ Height >= 1
  BY Sizes DEF OnScreen, Row, Ints
<1> DEFINE lines == Min(Abs(n), Height)
<1>2. n # -IntMax - 1 => Abs(n) \in Int /\ Abs(n) >= 0
  <2>1. CASE n < 0 /\ n # -IntMax - 1
    <3>1. -n \in Ints /\ -n \in Int
      BY <1>1, <2>1 DEF Ints
    <3> QED BY <1>1, <2>1, <3>1, WrapFacts DEF Abs
  <2>2. CASE ~(n < 0)
    BY <1>1, <2>2 DEF Abs
  <2> QED BY <1>1, <2>1, <2>2
<1>3. n # -IntMax - 1 => lines \in Int /\ 0 <= lines /\ lines <= Height
  BY <1>1, <1>2 DEF Min
<1>4. lines \in Int /\ lines <= Height
  <2>1. -n \in Int
    BY <1>1
  <2>2. Wrap(-n) \in Int
    BY <2>1, <1>1, WrapFacts DEF Ints
  <2>3. Abs(n) \in Int
    BY <1>1, <2>2 DEF Abs
  <2> QED BY <1>1, <2>3 DEF Min
<1> HIDE DEF lines
<1>5. CASE n < 0
  <2>1. /\ screen' = IF lines < 0 THEN screen ELSE ScrollDown(screen, lines)
        /\ Cursor(x, Min(y + lines, Height - 1))
    BY <1>5 DEF ScrollBy, lines
  <2>2. Behind(screen')
    <3>1. CASE lines < 0
      BY <2>1, <3>1
    <3>2. CASE ~(lines < 0)
      <4>1. Behind(ScrollDown(screen, lines))
        BY <1>4, <3>2, ScrollBehind
      <4> QED BY <2>1, <3>2, <4>1
    <3> QED BY <3>1, <3>2
  <2>3. x' = x /\ y' = Min(y + lines, Height - 1) /\ CursorShown'
    BY <2>1, CursorAnywhere
  <2>4. n # -IntMax - 1 => Min(y + lines, Height - 1) \in Row
    BY <1>1, <1>3 DEF Min, Row
  <2> QED BY <1>1, <2>2, <2>3, <2>4 DEF OnScreen
<1>6. CASE ~(n < 0)
  <2>1. screen' = ScrollUp(screen, lines) /\ Cursor(x, Max(y - lines, 0))
    BY <1>6 DEF ScrollBy, lines
  <2>2. n # -IntMax - 1
    BY <1>1, <1>6
  <2>3. Behind(screen')
    BY <1>3, <2>1, <2>2, ScrollBehind
  <2>4. x' = x /\ y' = Max(y - lines, 0) /\ CursorShown'
    BY <2>1, CursorAnywhere
  <2>5. Max(y - lines, 0) \in Row
    BY <1>1, <1>3, <2>2 DEF Max, Row
  <2> QED BY <1>1, <2>3, <2>4, <2>5 DEF OnScreen
<1> QED BY <1>5, <1>6

LEMMA CsiStep ==
  ASSUME CInv, OnScreen, NEW b \in Bytes, CsiLexer(b)
  PROVE  /\ CInv'
         /\ ~OnScreen' => b \in Finals /\ ~Fits(Append(sequence, b))
<1>1. /\ x \in Column /\ y \in Row /\ sx \in Column /\ sy \in Row
      /\ CursorShown /\ Behind(screen)
  BY BehindMeans DEF CInv, SavedOnScreen, OnScreen
<1>2. /\ x \in Int /\ 0 <= x /\ x < Width /\ y \in Int /\ 0 <= y /\ y < Height
  BY <1>1, Sizes DEF Column, Row
<1>3. CASE b \notin Finals
  <2>1. lexer = "csi" /\ Gather(IF b \in Digits THEN b ELSE ";")
    BY <1>3 DEF CsiLexer
  <2>2. (IF b \in Digits THEN b ELSE ";") \in Stored
    BY BytesStored
  <2> QED BY <2>1, <2>2, GatherStep
<1>4. CASE b \in Finals
  <2> DEFINE s == Append(sequence, b)
  <2>1. CsiExecute(s, b) /\ lexer' = "initial" /\ sequence' = <<>>
    BY <1>4 DEF CsiLexer
  <2> HIDE DEF s
  <2>2. HasRoom'
    BY <2>1, SequenceFacts, BytesStored DEF HasRoom
  <2>3. SUFFICES /\ sx' \in Column /\ sy' \in Row /\ CursorShown' /\ Behind(screen')
                 /\ Fits(s) => x' \in Column /\ y' \in Row
    BY <1>4, <2>2 DEF CInv, SavedOnScreen, OnScreen, BehindIntact, Behind, s
  <2>4. CASE MoveCursor(s, b)
    <3>1. PICK n \in {First(s, 1)} \cap Ints : Cursor(Moved(b, n)[1], Moved(b, n)[2])
      BY <2>4 DEF MoveCursor
    <3>2. UNCHANGED <<sx, sy, screen>> /\ b \in {"A", "B", "C", "D", "E"}
      BY <2>4 DEF MoveCursor
    <3>3. x' = Moved(b, n)[1] /\ y' = Moved(b, n)[2] /\ CursorShown'
      BY <1>1, <3>1, CursorAnywhere
    <3>4. ASSUME Fits(s) PROVE Moved(b, n)[1] \in Column /\ Moved(b, n)[2] \in Row
      <4>1. n \in Int /\ n >= 0 /\ n + Width <= IntMax /\ n + Height <= IntMax
        BY <3>1, <3>4, FittingNumber DEF Ints
      <4>2. /\ Wrap(y - n) = y - n /\ Wrap(y + n) = y + n
            /\ Wrap(x - n) = x - n /\ Wrap(x + n) = x + n
        <5>1. y - n \in Ints /\ y + n \in Ints /\ x - n \in Ints /\ x + n \in Ints
          BY <1>2, <4>1, Sizes DEF Ints
        <5>2. y - n \in Int /\ y + n \in Int /\ x - n \in Int /\ x + n \in Int
          BY <1>2, <4>1
        <5> QED BY <5>1, <5>2, WrapFacts
      <4>3. CASE b = "A"
        BY <1>2, <4>1, <4>2, <4>3, Sizes DEF Moved, Max, Column, Row
      <4>4. CASE b = "B"
        BY <1>2, <4>1, <4>2, <4>4, Sizes DEF Moved, Min, Column, Row
      <4>5. CASE b = "C"
        BY <1>2, <4>1, <4>2, <4>5, Sizes DEF Moved, Min, Column, Row
      <4>6. CASE b = "D"
        BY <1>2, <4>1, <4>2, <4>6, Sizes DEF Moved, Max, Column, Row
      <4>7. CASE b = "E"
        BY <1>2, <4>1, <4>2, <4>7, Sizes DEF Moved, Min, Column, Row
      <4> QED BY <3>2, <4>3, <4>4, <4>5, <4>6, <4>7
    <3> QED BY <1>1, <3>2, <3>3, <3>4
  <2>5. CASE PlaceCursor(s, b)
    <3>1. PICK n \in {First(s, 1)} \cap Ints, m \in {Second(s, 1)} \cap Ints :
            Cursor(Clamp(Wrap(n - 1), 0, Width - 1), Clamp(Wrap(m - 1), 0, Height - 1))
      BY <2>5 DEF PlaceCursor
    <3>2. UNCHANGED <<sx, sy, screen>>
      BY <2>5 DEF PlaceCursor
    <3>3. Wrap(n - 1) \in Int /\ Wrap(m - 1) \in Int
      <4>1. n - 1 \in Int /\ m - 1 \in Int
        BY Sizes DEF Ints
      <4> QED BY <4>1, WrapFacts, Sizes DEF Ints
    <3>4. /\ Clamp(Wrap(n - 1), 0, Width - 1) \in Column
          /\ Clamp(Wrap(m - 1), 0, Height - 1) \in Row
      BY <3>3, Sizes DEF Clamp, Column, Row
    <3> QED BY <1>1, <3>1, <3>2, <3>4, CursorOnScreen
  <2>6. CASE EraseIn(s, b)
    <3>1. UNCHANGED <<x, y, shown, sx, sy>>
      BY <2>6 DEF EraseIn
    <3>2. PICK top \in Row, bottom \in Row, n \in Ints :
            screen' = CASE n = 0 -> Erase(screen, At(x, y), At(Width - 1, bottom))
                        [] n = 1 -> Erase(screen, At(0, top), At(x, y))
                        [] n \in {2, 3} -> Erase(screen, At(0, top), At(Width - 1, bottom))
                        [] OTHER -> screen
      <4>1. 0 \in Row /\ Height - 1 \in Row
        BY Sizes DEF Row
      <4> QED BY <1>1, <2>6, <4>1 DEF EraseIn
    <3>3. /\ At(x, y) \in Int /\ At(x, y) <= Area /\ At(0, top) \in Int
          /\ At(Width - 1, bottom) \in Int /\ At(Width - 1, bottom) <= Area
      <4>1. 0 \in Column /\ Width - 1 \in Column /\ Area \in Int
        BY Sizes, Z3 DEF Column, Area
      <4> QED BY <1>1, <4>1, CellInArea
    <3>4. Behind(screen')
      BY <1>1, <3>2, <3>3, EraseBehind
    <3> QED BY <1>1, <3>1, <3>4 DEF CursorShown, At
  <2>7. CASE Scroll(s, b)
    <3>1. PICK n \in {First(s, 1)} \cap Ints : ScrollBy(IF b = "S" THEN n ELSE Wrap(-n))
      BY <2>7 DEF Scroll
    <3>2. UNCHANGED <<sx, sy>>
      BY <2>7 DEF Scroll
    <3>3. n \in Int /\ -n \in Int
      BY Sizes DEF Ints
    <3>4. (IF b = "S" THEN n ELSE Wrap(-n)) \in Ints
      BY <3>3, WrapFacts
    <3>5. ASSUME Fits(s) PROVE (IF b = "S" THEN n ELSE Wrap(-n)) # -IntMax - 1
      <4>1. n >= 0 /\ n <= IntMax
        BY <3>1, <3>5, <3>3, FittingNumber, Sizes DEF Ints
      <4>2. -n \in Ints
        BY <3>3, <4>1, Sizes DEF Ints
      <4>3. Wrap(-n) = -n
        BY <3>3, <4>2, WrapFacts
      <4> QED BY <3>3, <4>1, <4>3, Sizes
    <3> QED BY <1>1, <3>1, <3>2, <3>4, <3>5, ScrollByStep DEF OnScreen
  <2>8. CASE SaveCursor(b)
    BY <1>1, <2>8 DEF SaveCursor, CursorShown, At
  <2>9. CASE RestoreCursor(b)
    BY <1>1, <2>9, CursorOnScreen DEF RestoreCursor
  <2>10. CASE SetStyle(s, b)
    <3>1. UNCHANGED <<x, y, shown, sx, sy, screen>>
      BY <2>10 DEF SetStyle
    <3> QED BY <1>1, <3>1 DEF CursorShown, At
  <2>11. CASE Unhandled(b)
    BY <1>1, <2>11 DEF Unhandled, CursorShown, At
  <2> QED BY <2>1, <2>4, <2>5, <2>6, <2>7, <2>8, <2>9, <2>10, <2>11 DEF CsiExecute
<1> QED BY <1>3, <1>4

LEMMA UntilStStep ==
  ASSUME CInv, OnScreen, NEW b \in Bytes, UntilStLexer(b)
  PROVE  CInv' /\ OnScreen'
<1>1. CASE b = "ST" /\ sequence[Len(sequence)] = "ESC"
  <2>1. /\ lexer' = "initial" /\ sequence' = <<>>
        /\ UNCHANGED <<x, y, shown, sx, sy, screen>>
    BY <1>1 DEF UntilStLexer
  <2>2. HasRoom'
    BY <2>1, SequenceFacts, BytesStored DEF HasRoom
  <2> QED BY <2>1, <2>2 DEF CInv, SavedOnScreen, OnScreen, BehindIntact, CursorShown, At
<1>2. CASE ~(b = "ST" /\ sequence[Len(sequence)] = "ESC")
  <2>1. lexer = "until_st" /\ Gather(IF b = "ESC" THEN b ELSE ";")
    BY <1>2 DEF UntilStLexer
  <2>2. (IF b = "ESC" THEN b ELSE ";") \in Stored
    BY BytesStored
  <2> QED BY <2>1, <2>2, GatherStep
<1> QED BY <1>1, <1>2

LEMMA InitCInv == Init => CInv /\ OnScreen
<1> SUFFICES ASSUME Init PROVE CInv /\ OnScreen
  OBVIOUS
<1>1. OnScreen /\ SavedOnScreen /\ CursorShown
  BY Sizes DEF Init, OnScreen, SavedOnScreen, Column, Row, CursorShown
<1>2. HasRoom
  BY SequenceFacts, BytesStored DEF Init, HasRoom
<1>3. BehindIntact
  <2> DEFINE old == [p \in Memory |-> Text(DefaultAttribute)]
  <2>1. Area \in Int /\ Area >= 0
    BY Sizes, Z3 DEF Area
  <2>2. Behind(old)
    BY <2>1, Sizes DEF Behind, Memory
  <2>3. /\ 0 \in Column /\ Width - 1 \in Column /\ 0 \in Row /\ Height - 1 \in Row
    BY Sizes DEF Column, Row
  <2>4. At(0, 0) \in Int /\ At(Width - 1, Height - 1) \in Int /\ At(Width - 1, Height - 1) <= Area
    BY <2>1, <2>3, CellInArea
  <2>5. screen = Erase(old, At(0, 0), At(Width - 1, Height - 1))
    BY DEF Init
  <2> HIDE DEF old
  <2> QED BY <2>2, <2>4, <2>5, EraseBehind, BehindMeans
<1> QED BY <1>1, <1>2, <1>3 DEF CInv

LEMMA NextStep ==
  ASSUME CInv, [Next]_vars
  PROVE  CInv' /\ LeavesByNumber
<1>1. CASE \E b \in Bytes : Write(b)
  <2>1. PICK b \in Bytes : Write(b)
    BY <1>1
  <2>2. OnScreen
    BY <2>1 DEF Write
  <2>3. CASE InitialLexer(b) \/ EscapeLexer(b) \/ UntilStLexer(b)
    BY <2>2, <2>3, InitialStep, EscapeStep, UntilStStep DEF LeavesByNumber
  <2>4. CASE CsiLexer(b)
    <3>1. lexer = "csi"
      BY <2>4 DEF CsiLexer
    <3>2. CInv' /\ (~OnScreen' => b \in Finals /\ ~Fits(Append(sequence, b)))
      BY <2>2, <2>4, CsiStep
    <3> QED BY <3>1, <3>2, Zenon DEF LeavesByNumber
  <2> QED BY <2>1, <2>3, <2>4 DEF Write
<1>2. CASE UNCHANGED vars
  BY <1>2 DEF vars, CInv, OnScreen, SavedOnScreen, HasRoom, BehindIntact, CursorShown, At,
              LeavesByNumber
<1> QED BY <1>1, <1>2 DEF Next, Lost

(* The invariant of every byte, whatever bytes are written (con_write): it *)
(* holds where the cursor is lost too.                                     *)
THEOREM ConsoleInvariant == Spec => []CInv
<1>1. CInv /\ [Next]_vars => CInv'
  BY NextStep
<1> QED BY <1>1, InitCInv, PTL DEF Spec

(* The saved cursor and every write stay on the screen, the buffer is never *)
(* overrun (console.c:482, 498), and the cursor leaves the screen by a       *)
(* number only that is too large for an int, by itself or with a coordinate *)
(* added to it (con_next_int, con_csi_execute).                             *)
THEOREM ConsoleInBounds == Spec => InBounds
<1>1. CInv /\ [Next]_vars => [LeavesByNumber]_vars
  BY NextStep
<1>2. CInv => HasRoom /\ BehindIntact /\ SavedOnScreen
  BY DEF CInv
<1> QED BY <1>1, <1>2, ConsoleInvariant, PTL DEF Spec, InBounds

(* The hardware's cursor stands where the next byte goes (con_cursor). *)
THEOREM ConsoleCursorShown == Spec => []CursorShown
BY ConsoleInvariant, PTL DEF CInv

(* Scrolling by one row. *)
LEMMA RollFacts ==
  ASSUME NEW s, NEW p \in 0 .. Area - 1
  PROVE  ScrollUp(s, 1)[p] = IF p >= Area - Width THEN Blank ELSE s[p + Width]
<1> DEFINE up == [q \in Memory |-> IF q < (Height - 1) * Width THEN s[q + 1 * Width] ELSE s[q]]
<1>1. /\ Area \in Int /\ Height * Width = Area /\ 1 * Width = Width
      /\ (Height - 1) * Width = Area - Width
  BY Sizes, Z3 DEF Area
<1>2. ScrollUp(s, 1) = Erase(up, Area - Width, Area)
  <2>1. ScrollUp(s, 1) = Erase(up, At(0, Height - 1), At(0, Height))
    BY DEF ScrollUp
  <2>2. At(0, Height - 1) = Area - Width /\ At(0, Height) = Area
    BY <1>1, Sizes DEF At
  <2> HIDE DEF up
  <2> QED BY <2>1, <2>2
<1>3. p \in Memory
  BY <1>1, Sizes DEF Memory
<1>4. p < Area - Width => up[p] = s[p + Width]
  BY <1>1, <1>3
<1> HIDE DEF up
<1>5. Erase(up, Area - Width, Area)[p] = IF Area - Width <= p /\ p < Area THEN Blank ELSE up[p]
  BY <1>3 DEF Erase
<1> QED BY <1>1, <1>2, <1>4, <1>5, Sizes

(* Going on to the next row keeps the screen or rolls it up. *)
LEMMA NextRowKeeps ==
  ASSUME NEW s, y \in Row, GoOn(s, 0, y + 1)
  PROVE  (screen' = s /\ x' = 0 /\ y' = y + 1) \/ RolledUp(s)
<1>1. y \in Int /\ 0 <= y /\ y < Height
  BY Sizes DEF Row
<1>2. CASE y + 1 >= Height
  <2>1. x' = 0 /\ y' = y /\ y = Height - 1 /\ screen' = ScrollUp(s, 1)
    BY <1>1, <1>2, Sizes DEF GoOn, Max
  <2> QED BY <2>1, RollFacts DEF RolledUp
<1>3. CASE ~(y + 1 >= Height)
  BY <1>3 DEF GoOn
<1> QED BY <1>2, <1>3

LEMMA AdjustKeeps ==
  ASSUME NEW s, y \in Row, NEW cx \in Int, Adjust(s, cx)
  PROVE  \/ screen' = s /\ cx + 1 >= Width /\ x' = 0 /\ y' = y + 1
         \/ screen' = s /\ ~(cx + 1 >= Width) /\ x' = cx + 1 /\ y' = y
         \/ RolledUp(s)
<1>1. y \in Int /\ 0 <= y /\ y < Height
  BY Sizes DEF Row
<1>2. CASE cx + 1 >= Width
  BY <1>2, NextRowKeeps DEF Adjust
<1>3. CASE ~(cx + 1 >= Width)
  BY <1>1, <1>3, Sizes DEF Adjust, GoOn
<1> QED BY <1>2, <1>3

LEMMA ByteKeepsText ==
  ASSUME CInv, OnScreen, NEW b \in Bytes, InitialLexer(b)
  PROVE  IF Printed(b)
           THEN \/ /\ screen' = [screen EXCEPT ![At(x, y)] = Text(Look)]
                   /\ At(x', y') = At(x, y) + 1
                \/ RolledUp([screen EXCEPT ![At(x, y)] = Text(Look)])
           ELSE screen' = screen \/ RolledUp(screen)
<1>1. /\ x \in Int /\ 0 <= x /\ x < Width /\ y \in Int /\ 0 <= y /\ y < Height /\ y \in Row
  BY Sizes DEF OnScreen, Column, Row
<1>2. CASE Printed(b)
  <2> DEFINE here == [screen EXCEPT ![At(x, y)] = Text(Look)]
  <2>1. Glyph(b)
    BY <1>2 DEF InitialLexer, Printed, Controls, Shortcut, Backspace, CarriageReturn,
                LineFeed, Escape, Introduce, Tab
  <2>2. Adjust(here, x)
    BY <2>1 DEF Glyph
  <2> HIDE DEF here
  <2>3. CASE screen' = here /\ x + 1 >= Width /\ x' = 0 /\ y' = y + 1
    <3>1. (y + 1) * Width = y * Width + Width /\ y * Width \in Int /\ x = Width - 1
      BY <1>1, <2>3, Sizes, Z3
    <3>2. At(x', y') = At(x, y) + 1
      BY <2>3, <3>1, <1>1, Sizes DEF At
    <3> QED BY <1>2, <2>3, <3>2 DEF here
  <2>4. CASE screen' = here /\ ~(x + 1 >= Width) /\ x' = x + 1 /\ y' = y
    <3>1. y * Width \in Int
      BY <1>1, Sizes, Z3
    <3>2. At(x', y') = At(x, y) + 1
      BY <2>4, <3>1, <1>1 DEF At
    <3> QED BY <1>2, <2>4, <3>2 DEF here
  <2>5. CASE RolledUp(here)
    BY <1>2, <2>5 DEF here
  <2> QED BY <1>1, <2>2, <2>3, <2>4, <2>5, AdjustKeeps
<1>3. CASE ~Printed(b)
  <2>1. CASE Tab(b)
    <3>1. Adjust(screen, NextTabStop)
      BY <2>1 DEF Tab
    <3>2. NextTabStop \in Int
      <4>1. TabDistance \in Nat /\ TabDistance >= 1
        BY ConsoleAssumption
      <4>2. (x \div TabDistance) \in Int
        BY <1>1, <4>1, Z3
      <4>3. (x \div TabDistance) * TabDistance \in Int
        BY <4>1, <4>2, Z3
      <4> QED BY <4>1, <4>3 DEF NextTabStop
    <3> QED BY <1>1, <1>3, <3>1, <3>2, AdjustKeeps
  <2>2. CASE LineFeed(b)
    BY <1>1, <1>3, <2>2, NextRowKeeps DEF LineFeed
  <2>3. CASE ~Tab(b) /\ ~LineFeed(b)
    BY <1>3, <2>3 DEF InitialLexer, Backspace, CarriageReturn, Escape, Introduce, Glyph
  <2> QED BY <2>1, <2>2, <2>3
<1> QED BY <1>2, <1>3

(* What is printed stays on the screen until it rolls off it or a control  *)
(* sequence erases it (con_lexer_initial, con_scroll).                     *)
THEOREM ConsoleTextKept == Spec => TextKept
<1> DEFINE Keeps(b) ==
      InitialLexer(b) =>
        IF Printed(b)
          THEN LET here == [screen EXCEPT ![At(x, y)] = Text(Look)]
               IN \/ screen' = here /\ At(x', y') = At(x, y) + 1
                  \/ RolledUp(here)
          ELSE screen' = screen \/ RolledUp(screen)
<1>1. CInv /\ [Next]_vars => [\A b \in Bytes : Keeps(b)]_vars
  <2>1. ASSUME CInv, OnScreen PROVE \A b \in Bytes : Keeps(b)
    BY <2>1, ByteKeepsText
  <2>2. [Next]_vars => OnScreen \/ UNCHANGED vars
    BY DEF Next, Write, Lost
  <2> HIDE DEF Keeps
  <2> QED BY <2>1, <2>2
<1> QED BY <1>1, ConsoleInvariant, PTL DEF Spec, TextKept
=============================================================================
