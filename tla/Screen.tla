--------------------------------- MODULE Screen ---------------------------------
(***************************************************************************)
(* The screen driver (vbe_driver.c) over a frame of 32-bit pixels.         *)
(*                                                                         *)
(* "frame" maps the pixels drawn so far, by their offset from the start of *)
(* the frame, to what they hold; the others are black.  Text is drawn one  *)
(* character or byte per step, everything else by one action per call.     *)
(* The functions keep nothing but the frame, the font and two colours, so  *)
(* a behaviour is the set-up and one call.                                 *)
(***************************************************************************)
EXTENDS Integers, Sequences, FiniteSetsExt

CONSTANTS
  XResolution, YResolution, Pitch,  \* ModeInfoBlock, Pitch in pixels
  BitsPerPixel,                     \* 32; only the size of the buffer depends on it
  GlyphWidth, GlyphHeight,          \* 8 and 16
  WordBits,                         \* 32: pixels of a mask per word
  Word,                             \* 2^32: coordinates wrap
  FontFile,                         \* char -> {<<line, column>> that are lit}
  Colors,                           \* opaque values
  Mixed,                            \* values that are not
  Corners,                          \* <<x, y>> that calls are made with
  Thicknesses, Images, Strings, Dumps

\* 0xFFFFFFFF and 0xFF000000, the colours of kernel_loader.c:19.
White == [alpha |-> 255, red |-> 255, green |-> 255, blue |-> 255]
OpaqueBlack == [alpha |-> 0, red |-> 0, green |-> 0, blue |-> 255]

PixelValues == [alpha : 0 .. 255, red : 0 .. 255, green : 0 .. 255, blue : 0 .. 255]

\* Strings and dumps hold what a char and a byte can, images are opaque, and
\* the font has all digits.
ConstantsAssumption ==
  /\ {XResolution, YResolution, GlyphWidth, GlyphHeight, WordBits} \subseteq Nat \ {0}
  /\ {Pitch, BitsPerPixel, Word} \cup Thicknesses \subseteq Nat
  /\ GlyphWidth <= Pitch /\ XResolution <= Pitch
  /\ XResolution <= Word /\ YResolution <= Word
  /\ {White, OpaqueBlack} \subseteq Colors
  /\ Colors \cup Mixed \subseteq PixelValues
  /\ (\A c \in Colors : c.blue = 255) /\ (\A c \in Mixed : c.blue < 255)
  /\ Corners \subseteq (0 .. (XResolution - 1)) \X (0 .. (YResolution - 1))
  /\ (48 .. 57) \cup (65 .. 70) \cup {32} \subseteq DOMAIN FontFile
  /\ Strings \subseteq Seq(DOMAIN FontFile) /\ Dumps \subseteq Seq(0 .. 255)
  /\ \A image \in Images :
       /\ image.width \in Nat /\ image.height \in Nat
       /\ image.data \in [1 .. (image.width * image.height) -> {c \in PixelValues : c.blue = 255}]
       /\ image.mask \in [1 .. (1 + (image.width * image.height) \div WordBits) -> Nat]

VARIABLES
  frame, font, foreground_color, background_color,
  mode,      \* "off", "ready", "print", "hex" or "done"
  cursor,    \* <<x, y>> of the text loops
  rest,      \* the characters or bytes they have left
  shown,     \* history: <<x, y, char>> put on the screen, in order
  call       \* history: the call, as <<name, arguments>>

vars == <<frame, font, foreground_color, background_color, mode, cursor, rest, shown, call>>
textVars == <<cursor, rest, shown>>
setUpVars == <<font, foreground_color, background_color>>

\* In pixels, and more than the frame has: the first summand is not the size of
\* anything.
SCREEN_BUFFER_SIZE == (XResolution * BitsPerPixel) \div 4 + YResolution * Pitch

Offset(x, y) == x + y * Pitch

Black == [alpha |-> 0, red |-> 0, green |-> 0, blue |-> 0]
Pixel(f, o) == IF o \in DOMAIN f THEN f[o] ELSE Black

\* The top byte, which decides whether a value is opaque, is "blue" in Pixel_t;
\* "alpha" is the lowest byte.
sc_setpixel(prev, value) ==
  IF value.blue = 255 THEN value
  ELSE LET mix(c) == (prev[c] * (255 - value.alpha) + value[c] * value.alpha) \div 256
       IN  [prev EXCEPT !.red = mix("red"), !.green = mix("green"), !.blue = mix("blue")]

Paint(f, values) ==
  [o \in DOMAIN f \cup DOMAIN values |->
    IF o \in DOMAIN values THEN sc_setpixel(Pixel(f, o), values[o]) ELSE f[o]]

------------------------------------------------------------------------------
Init ==
  /\ frame = <<>>
  /\ font = [c \in DOMAIN FontFile |-> {}]
  /\ foreground_color = Black /\ background_color = Black
  /\ mode = "off" /\ cursor = <<0, 0>> /\ rest = <<>> /\ shown = <<>> /\ call = <<"none">>

\* Without its file the font is blank and all text is background.
initialize_vbe(found, foreground, background) ==
  /\ mode = "off" /\ mode' = "ready"
  /\ font' = IF found THEN FontFile ELSE font
  /\ foreground_color' = foreground /\ background_color' = background
  /\ UNCHANGED <<frame, textVars, call>>

sc_set_foreground(foreground) ==
  /\ mode = "ready" /\ foreground_color' = foreground
  /\ UNCHANGED <<frame, font, background_color, mode, textVars, call>>

sc_set_background(background) ==
  /\ mode = "ready" /\ background_color' = background
  /\ UNCHANGED <<frame, font, foreground_color, mode, textVars, call>>

------------------------------------------------------------------------------
\* Text.

\* The loops of sc_putch return at the end of the buffer.
InBuffer(o) == o < SCREEN_BUFFER_SIZE

sc_putch(f, x, y, c) ==
  LET first == Offset(x, y)
      at(l, r) == first + l * Pitch + r
      drawn == {o \in {at(l, r) : l \in 0 .. (GlyphHeight - 1), r \in 0 .. (GlyphWidth - 1)} :
                  o = first \/ InBuffer(o)}
  IN  Paint(f, [o \in drawn |->
        IF <<(o - first) \div Pitch, (o - first) % Pitch>> \in font[c]
        THEN foreground_color ELSE background_color])

\* Characters put one after the other.
Put(puts) ==
  LET after[n \in 0 .. Len(puts)] ==
        IF n = 0 THEN frame ELSE sc_putch(after[n - 1], puts[n][1], puts[n][2], puts[n][3])
  IN  frame' = after[Len(puts)] /\ shown' = shown \o puts

AdvanceLate(at, n) ==
  IF at[1] + n * GlyphWidth > XResolution THEN <<0, at[2] + GlyphHeight>>
                                          ELSE <<at[1] + n * GlyphWidth, at[2]>>

\* The cursor n columns further: the start of the next line at the right edge.
Advance(at, n) ==
  IF at[1] + n * GlyphWidth >= XResolution THEN <<0, at[2] + GlyphHeight>>
                                           ELSE <<at[1] + n * GlyphWidth, at[2]>>

OffBottom(at) == at[2] >= YResolution

isprint(c) == c > 31 /\ c < 127

StartText(name, kind, at, text) ==
  /\ mode = "ready" /\ mode' = kind
  /\ cursor' = at /\ rest' = text /\ call' = <<name, at, text>>
  /\ UNCHANGED <<frame, setUpVars, shown>>

sc_print(at, string) == StartText("sc_print", "print", at, string)
sc_print_hex(at, bytes) == StartText("sc_print_hex", "hex", at, bytes)
sc_print_rhex(at, bytes) ==
  StartText("sc_print_rhex", "rhex", at, [i \in DOMAIN bytes |-> bytes[Len(bytes) + 1 - i]])

\* A text loop ends with its text or below the last line.
GoOn(at) ==
  /\ cursor' = at
  /\ IF OffBottom(at) THEN mode' = "done" /\ rest' = <<>>
                      ELSE UNCHANGED mode /\ rest' = Tail(rest)

EndText ==
  /\ mode \in {"print", "hex", "rhex"} /\ rest = <<>> /\ mode' = "done"
  /\ UNCHANGED <<frame, setUpVars, textVars, call>>

\* One character of sc_print.  What cannot be printed is drawn, but the next
\* character goes to the same place.
PrintChar ==
  /\ mode = "print" /\ rest # <<>>
  /\ UNCHANGED <<setUpVars, call>>
  /\ LET c == Head(rest)
     IN  \/ /\ c = 10
            /\ GoOn(<<cursor[1], cursor[2] + GlyphHeight>>)
            /\ UNCHANGED <<frame, shown>>
         \/ /\ c = 13
            /\ cursor' = <<0, cursor[2]>> /\ rest' = Tail(rest)
            /\ UNCHANGED <<frame, shown, mode>>
         \/ /\ c \notin {10, 13}
            /\ Put(<< <<cursor[1], cursor[2], c>> >>)
            /\ IF isprint(c) THEN GoOn(Advance(cursor, 1))
               ELSE rest' = Tail(rest) /\ UNCHANGED <<cursor, mode>>

hextoasc(digit) == IF digit < 10 THEN 48 + digit ELSE 55 + digit

\* The two digits, the second one on the next line if the first was the last
\* of its line, or nowhere below the last line.
sc_print_byte(at, b) ==
  LET high == <<at[1], at[2], hextoasc(b \div 16)>>
      next == Advance(at, 1)
  IN  IF OffBottom(next) THEN <<high>> ELSE <<high, <<next[1], next[2], hextoasc(b % 16)>> >>

Blank(at) == << <<at[1], at[2], 32>> >>

\* One byte of sc_print_hex: the digits, and a space if that is still on screen.
HexByte ==
  /\ mode = "hex" /\ rest # <<>>
  /\ UNCHANGED <<setUpVars, call>>
  /\ LET space == Advance(cursor, 2)
     IN  /\ Put(sc_print_byte(cursor, Head(rest))
                  \o IF OffBottom(space) THEN <<>> ELSE Blank(space))
         /\ GoOn(IF OffBottom(space) THEN space ELSE Advance(space, 1))

\* One byte of sc_print_rhex, no space.
RhexByte ==
  /\ mode = "rhex" /\ rest # <<>>
  /\ UNCHANGED <<setUpVars, call>>
  /\ Put(sc_print_byte(cursor, Head(rest)))
  /\ GoOn(Advance(cursor, 2))

------------------------------------------------------------------------------
\* Graphics.

Draw(made, f) ==
  /\ mode = "ready" /\ mode' = "done"
  /\ call' = made /\ frame' = f
  /\ UNCHANGED <<setUpVars, textVars>>

SetPixelTwice(at, under, color) ==
  LET o == Offset(at[1], at[2])
  IN  Draw(<<"sc_setpixel", at, under, color>>,
           Paint(Paint(frame, [x \in {o} |-> under]), [x \in {o} |-> color]))

WalkEarly(major, minor) ==
  LET walk[i \in Nat] == <<(i * minor + major - 1) \div major, 0>> IN walk

\* Where Bresenham's loop is after i steps: <<the other coordinate, D>>.
Walk(major, minor) ==
  LET walk[i \in Nat] ==
        IF i = 0 THEN <<0, 2 * minor - major>>
        ELSE LET D == walk[i - 1][2]
             IN  IF D > 0 THEN <<walk[i - 1][1] + 1, D - 2 * major + 2 * minor>>
                          ELSE <<walk[i - 1][1], D + 2 * minor>>
  IN  walk

LinePixels(from, to) ==
  LET dx == to[1] - from[1]
      dy == to[2] - from[2]
  IN  IF dx > dy /\ dx > -dy
      THEN {<<from[1] + i, from[2] + Walk(dx, dy)[i][1]>> : i \in 0 .. (dx - 1)}
      ELSE {<<from[1] + Walk(dy, dx)[i][1], from[2] + i>> : i \in 0 .. (dy - 1)}

sc_line(from, to, color) ==
  Draw(<<"sc_line", from, to, color>>,
       Paint(frame, [o \in {Offset(p[1], p[2]) : p \in LinePixels(from, to)} |-> color]))

Fill(f, x1, y1, x2, y2, color) ==
  Paint(f, [o \in {Offset(x, y) : x \in x1 .. x2, y \in y1 .. y2} |-> color])

sc_fill(from, to, color) ==
  Draw(<<"sc_fill", from, to, color>>, Fill(frame, from[1], from[2], to[1], to[2], color))

sc_clear ==
  Draw(<<"sc_clear">>, Fill(frame, 0, 0, XResolution - 1, YResolution - 1, background_color))

\* sc_box counts from 0; a coordinate below 0 wraps and its loops do nothing.
Border(thickness) == thickness - 1

sc_box(from, to, thickness, color) ==
  LET t == Border(thickness)
      top    == Fill(frame, from[1], from[2], to[1], from[2] + t, color)
      left   == Fill(top, from[1], from[2], from[1] + t, to[2], color)
      right  == Fill(left, (to[1] - t) % Word, from[2], to[1], to[2], color)
      bottom == Fill(right, from[1], (to[2] - t) % Word, to[1], to[2], color)
  IN  Draw(<<"sc_box", from, to, thickness, color>>, IF thickness = 0 THEN frame ELSE bottom)

\* The pixels of an image, in rows, as values by offset; "value" has one per pixel.
ImagePixels(at, width, height, value) ==
  [o \in {Offset(at[1] + i, at[2] + j) : i \in 0 .. (width - 1), j \in 0 .. (height - 1)} |->
    LET d == o - Offset(at[1], at[2]) IN value[((d \div Pitch) * width) + (d % Pitch)]]

sc_putimg(at, image) ==
  LET value == [k \in 0 .. (image.width * image.height - 1) |-> image.data[k + 1]]
  IN  Draw(<<"sc_putimg", at, image>>,
           Paint(frame, ImagePixels(at, image.width, image.height, value)))

\* Powers of 2, the masks of one bit.
Bit[k \in Nat] == IF k = 0 THEN 1 ELSE 2 * Bit[k - 1]

\* The mask bit and the word of pixel k: r is shifted until it is gone.
MaskWalk ==
  LET walk[k \in Nat] ==
        IF k = 0 THEN [r |-> 1, word |-> 1]
        ELSE LET r == (2 * walk[k - 1].r) % Bit[WordBits]
             IN  IF r = 0 THEN [r |-> 1, word |-> walk[k - 1].word + 1]
                          ELSE [walk[k - 1] EXCEPT !.r = r]
  IN  walk

sc_putimg_masked(at, image, color1, color2) ==
  LET bit(m) == (image.mask[m.word] \div m.r) % 2
      value == [k \in 0 .. (image.width * image.height - 1) |->
                 IF bit(MaskWalk[k]) = 1 THEN color1 ELSE color2]
  IN  Draw(<<"sc_putimg_masked", at, image, color1, color2>>,
           Paint(frame, ImagePixels(at, image.width, image.height, value)))

Next ==
  \/ \E found \in BOOLEAN : initialize_vbe(found, White, OpaqueBlack)
  \/ \E c \in Colors \ {background_color} : sc_set_foreground(c)
  \/ \E c \in Colors \ {foreground_color} : sc_set_background(c)
  \/ \E at \in Corners, s \in Strings : sc_print(at, s)
  \/ \E at \in Corners, b \in Dumps : sc_print_hex(at, b) \/ sc_print_rhex(at, b)
  \/ PrintChar \/ HexByte \/ RhexByte \/ EndText
  \/ sc_clear
  \/ \E under \in Colors \cup Mixed, c \in Mixed : SetPixelTwice(<<0, 0>>, under, c)
  \/ \E from, to \in Corners, c \in Colors :
       \/ sc_line(from, to, c)
       \/ sc_fill(from, to, c)
       \/ \E thickness \in Thicknesses : sc_box(from, to, thickness, c)
  \/ \E at \in Corners, image \in Images :
       /\ at[1] + image.width <= XResolution /\ at[2] + image.height <= YResolution
       /\ \/ sc_putimg(at, image)
          \/ \E c1, c2 \in Colors : c1 # c2 /\ sc_putimg_masked(at, image, c1, c2)

Spec == Init /\ [][Next]_vars

------------------------------------------------------------------------------
TypeOK ==
  /\ \A o \in DOMAIN frame : o \in Nat /\ frame[o] \in PixelValues
  /\ {foreground_color, background_color} \subseteq PixelValues
  /\ mode \in {"off", "ready", "print", "hex", "rhex", "done"}
  /\ cursor \in (0 .. (XResolution - 1)) \X Nat
  /\ \A i \in DOMAIN shown : shown[i][3] \in DOMAIN font

Done(name) == mode = "done" /\ call[1] = name

OnScreen == {Offset(x, y) : x \in 0 .. (XResolution - 1), y \in 0 .. (YResolution - 1)}

\* The pixels of a rectangle.
Area(x1, y1, x2, y2) == {Offset(x, y) : x \in x1 .. x2, y \in y1 .. y2}

\* The border of a box is no thicker than the box is wide and high.
BorderFits(from, to, thickness) ==
  thickness <= to[1] - from[1] + 1 /\ thickness <= to[2] - from[2] + 1

\* A call with its corners on the screen draws on the screen only, unless it
\* is a box whose border does not fit it or text: that may end below the last
\* line, but never behind the buffer of line 7, wherever it is cut off.
StaysInside ==
  \/ DOMAIN frame \subseteq OnScreen
  \/ Len(shown) > 0 /\ \A o \in DOMAIN frame : o < SCREEN_BUFFER_SIZE
  \/ call[1] = "sc_box" /\ ~BorderFits(call[2], call[3], call[4])

\* The glyph of an entry of "shown" is what the frame shows there.
Readable(p) ==
  \A l \in 0 .. (GlyphHeight - 1), r \in 0 .. (GlyphWidth - 1) :
    LET o == Offset(p[1] + r, p[2] + l)
    IN  InBuffer(o) => frame[o] = IF <<l, r>> \in font[p[3]] THEN foreground_color
                                                             ELSE background_color

Aligned == XResolution % GlyphWidth = 0 /\ call[2][1] % GlyphWidth = 0

\* Text without unprintable characters and carriage returns stays readable: no
\* wrapped line runs into another, nothing is skipped, and only what would be
\* below the last line is missing (lines 69-98).
TextReadable ==
  Done("sc_print") /\ Aligned /\ (\A i \in DOMAIN call[3] : isprint(call[3][i]) \/ call[3][i] = 10) =>
    LET string   == call[3]
        Place(k) == Cardinality({j \in 1 .. k : string[j] # 10})
    IN  /\ \A i \in DOMAIN shown : Readable(shown[i])
        /\ \A k \in DOMAIN string :
             string[k] # 10 /\ Place(k) <= Len(shown) => shown[Place(k)][3] = string[k]
        /\ \/ Len(shown) = Place(Len(string))
           \/ Len(shown) < Place(Len(string)) /\ OffBottom(cursor)

\* A dump loses exactly one digit where a byte straddles the end of a line:
\* the cursor wraps on its own after the byte, and what is put next goes over
\* the second digit (lines 134, 147, 161).
Straddles(i) ==
  /\ i \in 2 .. (Len(shown) - 1)
  /\ shown[i][1] = 0 /\ shown[i][2] = shown[i - 1][2] + GlyphHeight
  /\ shown[i + 1][1] = 0 /\ shown[i + 1][2] = shown[i][2]

\* What is seen of two characters at the same place is the same.
Alike(p, q) ==
  \A l \in 0 .. (GlyphHeight - 1), r \in 0 .. (GlyphWidth - 1) :
    InBuffer(Offset(p[1] + r, p[2] + l)) => (<<l, r>> \in font[p[3]] <=> <<l, r>> \in font[q[3]])

DumpReadable ==
  (Done("sc_print_hex") \/ Done("sc_print_rhex")) /\ Aligned =>
    \A i \in DOMAIN shown :
      IF Straddles(i) THEN ~Alike(shown[i], shown[i + 1]) => ~Readable(shown[i])
                      ELSE Readable(shown[i])

\* Filling and clearing change every pixel of the rectangle and no other; a
\* box that is large enough for its border changes exactly the border (lines
\* 205-226).
RectanglesExact ==
  /\ Done("sc_clear") => DOMAIN frame = OnScreen
  /\ Done("sc_fill") =>
       DOMAIN frame = Area(call[2][1], call[2][2], call[3][1], call[3][2])
  /\ Done("sc_box") =>
       LET from == call[2]
           to   == call[3]
           t    == call[4]
       IN  BorderFits(from, to, t) =>
             DOMAIN frame = Area(from[1], from[2], to[1], to[2])
                              \ Area(from[1] + t, from[2] + t, to[1] - t, to[2] - t)

\* A line to the right and down has one pixel per column (or row, if steep),
\* never more than half a pixel off the ideal, and leaves out its last point.
\* In the other directions it is level, upright or missing (lines 174-203).
LineStraight ==
  Done("sc_line") =>
    LET from == call[2]
        dx   == call[3][1] - from[1]
        dy   == call[3][2] - from[2]
        \* what was drawn, relative to the start
        dots == {<<(o % Pitch) - from[1], (o \div Pitch) - from[2]>> : o \in DOMAIN frame}
    IN  CASE dx > dy /\ dy >= 0 ->
               /\ {p[1] : p \in dots} = 0 .. (dx - 1) /\ Cardinality(dots) = dx
               /\ \A p \in dots : 2 * (p[2] * dx - p[1] * dy) \in -dx .. dx
          [] dy >= dx /\ dx >= 0 ->
               /\ {p[2] : p \in dots} = 0 .. (dy - 1) /\ Cardinality(dots) = dy
               /\ \A p \in dots : 2 * (p[1] * dy - p[2] * dx) \in -dy .. dy
          [] OTHER -> (\A p \in dots : p[1] = 0) \/ (\A p \in dots : p[2] = 0)

\* Bit k of the mask, 32 to a word without a gap between rows, decides on
\* pixel k of the image, row by row (lines 228-253).
ImagesUpright ==
  /\ Done("sc_putimg") => \A k \in 0 .. (call[3].width * call[3].height - 1) :
       frame[Offset(call[2][1] + (k % call[3].width), call[2][2] + (k \div call[3].width))]
         = call[3].data[k + 1]
  /\ Done("sc_putimg_masked") => \A k \in 0 .. (call[3].width * call[3].height - 1) :
       frame[Offset(call[2][1] + (k % call[3].width), call[2][2] + (k \div call[3].width))]
         = IF (call[3].mask[1 + (k \div WordBits)] \div Bit[k % WordBits]) % 2 = 1
           THEN call[4] ELSE call[5]

\* What the last of two sc_setpixel calls found in its pixel and left there.
Under == sc_setpixel(Black, call[3])
Left  == frame[Offset(call[2][1], call[2][2])]

\* Blending never leaves the range of what is blended, but for one step of
\* rounding down: no channel overflows its byte (lines 61-65).
BlendBetween ==
  Done("sc_setpixel") =>
    \A c \in {"red", "green", "blue"} :
      Left[c] \in (Min({Under[c], call[4][c]}) - 1) .. Max({Under[c], call[4][c]})

\* Text and dumps come out readable and in bounds (lines 69-172).
TextRight == TypeOK /\ StaysInside /\ TextReadable /\ DumpReadable

\* Lines, rectangles, images and blended pixels are the ones asked for, as far
\* as stated above (lines 56-67, 174-253).
ShapesRight == RectanglesExact /\ LineStraight /\ ImagesUpright /\ BlendBetween
==============================================================================
