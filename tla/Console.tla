------------------------------ MODULE Console -------------------------------
(***************************************************************************)
(* BootVideoHelpers.c: text on a frame buffer.  A console c has the frame  *)
(* buffer (address of a pixel -> the ink on it), the cursor x and y, in    *)
(* pixels, and whether something was drawn outside the frame buffer.       *)
(* Drawing only adds ink: a pixel holds every stroke since it was last     *)
(* cleared, and a stroke is a pixel of a glyph.                            *)
(***************************************************************************)
EXTENDS Printf

CONSTANTS
    Width, Height,       \* vmode, in pixels
    LineHeight,          \* height of the font: 16 in the code
    TabStop,             \* 32 in the code
    GlyphWidth,          \* character with a glyph -> width (waStarts)
    SpaceWidth           \* WIDTH_SPACE_PIXELS

NL == "newline"
TAB == "tab"

ASSUME ConsoleAssumption ==
    /\ Width \in Nat \ {0} /\ LineHeight \in Nat \ {0} /\ Height \in Nat /\ LineHeight <= Height
    /\ TabStop \in Nat \ {0} /\ SpaceWidth \in Nat
    /\ TAB \notin DOMAIN GlyphWidth /\ \A ch \in DOMAIN GlyphWidth : GlyphWidth[ch] \in Nat

xmargin == 0
FrameSize == Width * Height

Blank == [frame |-> [a \in 0 .. FrameSize - 1 |-> {}], x |-> 0, y |-> 0, outside |-> FALSE]

Pixels(ch) == IF ch \in DOMAIN GlyphWidth THEN (0 .. LineHeight - 1) \X (0 .. GlyphWidth[ch] - 1)
              ELSE {}
BootVideoOverlayCharacter(c, a, ch) ==
    LET At(p) == a + p[1] * Width + p[2]
        drawn == {At(p) : p \in Pixels(ch)}
    IN  [c EXCEPT !.frame = [b \in DOMAIN @ |->
                                IF b \in drawn THEN @[b] \cup {<<ch, p>> : p \in {q \in Pixels(ch) : At(q) = b}}
                                ELSE @[b]],
                  !.outside = @ \/ \E b \in drawn : b >= FrameSize]
\* The width the character takes; a tab ends one pixel before the tab stop.
Advance(a, ch) ==
    IF ch = TAB THEN TabStop - 1 - ((a % Width) % TabStop)
    ELSE IF ch \in DOMAIN GlyphWidth THEN GlyphWidth[ch] ELSE SpaceWidth

\* The text at the cursor; w is the width it takes.
BootVideoOverlayString(c, text) ==
    LET start == c.y * Width + c.x
        Put(acc, ch) == [c |-> BootVideoOverlayCharacter(acc.c, start + acc.w, ch),
                         w |-> acc.w + Advance(start + acc.w, ch)]
    IN  Folded(Put, [c |-> c, w |-> 0], text)

scroll_memcpy(frame, y) ==
    [a \in DOMAIN frame |-> IF a < y * Width THEN frame[a + LineHeight * Width] ELSE frame[a]]

\* A mutant: the line keeps what was drawn on it.
clean_line_Kept(frame, y) == frame

clean_line(frame, y) ==
    [a \in DOMAIN frame |-> IF a \div Width \in y .. y + LineHeight - 1 THEN {} ELSE frame[a]]

NewLine(c) ==
    LET below == c.y + LineHeight
        full == below > Height - LineHeight
        y == IF full THEN c.y ELSE below
    IN  [c EXCEPT !.x = xmargin, !.y = y,
                  !.frame = clean_line(IF full THEN scroll_memcpy(@, y) ELSE @, y)]

BootVideoChunkedPrint(c, text) ==
    LET Char(acc, ch) ==
            IF ch = NL
            THEN [c |-> NewLine(BootVideoOverlayString(acc.c, acc.pending).c), pending |-> <<>>]
            ELSE [acc EXCEPT !.pending = Append(@, ch)]
        done == Folded(Char, [c |-> c, pending |-> <<>>], text)
        tail == BootVideoOverlayString(done.c, done.pending)
        after == [tail.c EXCEPT !.x = @ + tail.w]
    IN  IF done.pending = <<>> THEN done.c
        ELSE IF after.x > Width - xmargin THEN NewLine(after) ELSE after
=============================================================================
