---------------------------- MODULE ScreenProofs ----------------------------
(***************************************************************************)
(* The screen driver for all sizes of screen, glyphs and buffers, all      *)
(* fonts, colours, texts and images.                                       *)
(*                                                                         *)
(* That a finished text is readable does not follow from itself.  What     *)
(* holds character by character is that all that was put can be read (or,  *)
(* in a dump, all but what something went over), that it stands before     *)
(* the cursor in reading order, and how much of the text has been visited. *)
(* Before a shape is drawn the frame is empty, so what is drawn is what    *)
(* the call draws; the loops of lines and masks are walked step by step.   *)
(***************************************************************************)
EXTENDS Screen, FiniteSetTheorems, SequenceTheorems, WellFoundedInduction, TLAPS

\* A set of numbers has a least element.
LEMMA LeastNumber ==
  ASSUME NEW S \in SUBSET Nat, S # {}
  PROVE  \E x \in S : \A y \in S : x <= y
<1>1. PICK x \in S : \A y \in S : ~(<<y, x>> \in OpToRel(<, Nat))
  BY NatLessThanWellFounded, WFMin
<1>2. ASSUME NEW y \in S
      PROVE  x <= y
  <2>1. ~(<<y, x>> \in OpToRel(<, Nat)) /\ <<y, x>> \in Nat \X Nat
    BY <1>1
  <2>2. ~(y < x)
    BY <2>1 DEF OpToRel
  <2> QED BY <2>2
<1> QED BY <1>2

\* Induction, for a set of numbers.
LEMMA ByInduction ==
  ASSUME NEW P \in SUBSET Nat, 0 \in P, \A n \in P : n + 1 \in P
  PROVE  P = Nat
<1>1. SUFFICES ASSUME Nat \ P # {}
               PROVE  FALSE
  OBVIOUS
<1>2. PICK x \in Nat \ P : \A y \in Nat \ P : x <= y
  BY <1>1, LeastNumber
<1>3. x - 1 \in P
  BY <1>2
<1> QED BY <1>2, <1>3

\* A step that leads from values of S to values of S can be taken any number of
\* times: what a recursive function needs to exist.
LEMMA Iterated ==
  ASSUME NEW S, NEW a \in S, NEW G \in [S -> S]
  PROVE  \E f \in [Nat -> S] : f[0] = a /\ \A n \in Nat : f[n + 1] = G[f[n]]
<1> DEFINE Part(n) == {g \in [0 .. n -> S] : g[0] = a /\ \A m \in 0 .. (n - 1) : g[m + 1] = G[g[m]]}
           Some == {n \in Nat : Part(n) # {}}
<1>1. Some = Nat
  <2>1. 0 \in Some
    <3>1. [m \in 0 .. 0 |-> a] \in Part(0)
      OBVIOUS
    <3> QED BY <3>1
  <2>2. ASSUME NEW n \in Some
        PROVE  n + 1 \in Some
    <3>1. PICK g \in Part(n) : TRUE
      OBVIOUS
    <3> DEFINE h == [m \in 0 .. (n + 1) |-> IF m <= n THEN g[m] ELSE G[g[n]]]
    <3>2. n \in Nat /\ g \in [0 .. n -> S]
      OBVIOUS
    <3>3. h \in [0 .. (n + 1) -> S] /\ h[0] = a
      BY <3>1, <3>2
    <3>4. ASSUME NEW m \in 0 .. n
          PROVE  h[m + 1] = G[h[m]]
      <4>1. CASE m = n
        BY <3>2, <4>1
      <4>2. CASE m < n
        <5>1. m \in 0 .. (n - 1) /\ m + 1 <= n /\ m + 1 \in 0 .. (n + 1) /\ m \in 0 .. (n + 1)
          BY <3>2, <4>2
        <5> QED BY <3>1, <5>1
      <4> QED BY <3>2, <4>1, <4>2
    <3>5. h \in Part(n + 1)
      <4>1. (n + 1) - 1 = n
        BY <3>2
      <4> HIDE DEF h
      <4> QED BY <3>3, <3>4, <4>1
    <3> HIDE DEF h, Part
    <3> QED BY <3>2, <3>5
  <2> HIDE DEF Some
  <2>3. Some \in SUBSET Nat
    BY DEF Some
  <2> QED BY <2>1, <2>2, <2>3, ByInduction
<1> DEFINE part == [n \in Nat |-> CHOOSE g : g \in Part(n)]
<1>2. ASSUME NEW n \in Nat
      PROVE  part[n] \in Part(n)
  BY <1>1
<1>3. ASSUME NEW n \in Nat
      PROVE  /\ part[n] \in [0 .. n -> S] /\ part[n][0] = a
             /\ \A m \in 0 .. (n - 1) : part[n][m + 1] = G[part[n][m]]
  BY <1>2
<1> HIDE DEF part
<1>4. ASSUME NEW n \in Nat
      PROVE  \A m \in 0 .. n : part[n][m] = part[m][m]
  <2> DEFINE Eq == {m \in Nat : \A k, l \in Nat : m <= k /\ m <= l => part[k][m] = part[l][m]}
  <2>1. 0 \in Eq
    BY <1>3
  <2>2. ASSUME NEW m \in Eq
        PROVE  m + 1 \in Eq
    <3>1. ASSUME NEW k \in Nat, m + 1 <= k
          PROVE  part[k][m + 1] = G[part[k][m]]
      <4>1. m \in 0 .. (k - 1)
        BY <3>1
      <4> QED BY <1>3, <4>1
    <3>2. ASSUME NEW k \in Nat, NEW l \in Nat, m + 1 <= k, m + 1 <= l
          PROVE  part[k][m + 1] = part[l][m + 1]
      <4>1. m <= k /\ m <= l
        BY <3>2
      <4> QED BY <3>1, <3>2, <4>1
    <3> QED BY <3>2
  <2>3. Eq = Nat
    <3> HIDE DEF Eq
    <3>1. Eq \in SUBSET Nat
      BY DEF Eq
    <3> QED BY <2>1, <2>2, <3>1, ByInduction
  <2> QED BY <2>3
<1> DEFINE f == [n \in Nat |-> part[n][n]]
<1>5. f \in [Nat -> S]
  <2>1. ASSUME NEW n \in Nat
        PROVE  part[n][n] \in S
    BY <1>3
  <2> QED BY <2>1
<1>6. f[0] = a
  BY <1>3
<1>7. ASSUME NEW n \in Nat
      PROVE  f[n + 1] = G[f[n]]
  <2>1. n \in 0 .. ((n + 1) - 1) /\ n \in 0 .. (n + 1) /\ n + 1 \in Nat
    OBVIOUS
  <2>2. part[n + 1][n + 1] = G[part[n + 1][n]]
    BY <1>3, <2>1
  <2>3. part[n + 1][n] = part[n][n]
    BY <1>4, <2>1
  <2> QED BY <2>1, <2>2, <2>3
<1> HIDE DEF f
<1> QED BY <1>5, <1>6, <1>7

\* Multiples of p.
LEMMA Multiples ==
  ASSUME NEW p \in Nat \ {0}, NEW m \in Nat, NEW n \in Nat
  PROVE  /\ n * p \in Nat
         /\ (m + n) * p = m * p + n * p
         /\ m <= n => m * p <= n * p
         /\ m < n => m * p + p <= n * p
<1>1. ASSUME NEW k \in Nat
      PROVE  k * p \in Nat
  BY SMT
<1>2. ASSUME NEW k \in Nat, NEW l \in Nat
      PROVE  (k + l) * p = k * p + l * p
  BY SMT
<1>3. ASSUME m <= n
      PROVE  m * p <= n * p
  <2>1. PICK d \in Nat : n = m + d
    <3>1. n - m \in Nat /\ n = m + (n - m)
      BY <1>3
    <3> QED BY <3>1
  <2>2. n * p = m * p + d * p /\ d * p \in Nat /\ m * p \in Nat
    BY <1>1, <1>2, <2>1
  <2> QED BY <2>2
<1>4. ASSUME m < n
      PROVE  m * p + p <= n * p
  <2>1. PICK d \in Nat : n = (m + 1) + d
    <3>1. n - (m + 1) \in Nat /\ n = (m + 1) + (n - (m + 1))
      BY <1>4
    <3> QED BY <3>1
  <2>2. n * p = (m + 1) * p + d * p /\ d * p \in Nat /\ m * p \in Nat
    BY <1>1, <1>2, <2>1
  <2>3. (m + 1) * p = m * p + 1 * p /\ 1 * p = p
    BY <1>2
  <2> QED BY <2>2, <2>3
<1> QED BY <1>1, <1>2, <1>3, <1>4

\* Quotient and remainder of a number that is given by both.
LEMMA Divided ==
  ASSUME NEW p \in Nat \ {0}, NEW x \in 0 .. (p - 1), NEW y \in Nat
  PROVE  /\ x + y * p \in Nat
         /\ (x + y * p) \div p = y
         /\ (x + y * p) % p = x
<1>1. PICK s \in Nat : s = x + y * p
  <2>1. y * p \in Nat
    BY Multiples
  <2> QED BY <2>1
<1>2. PICK q \in Nat, r \in 0 .. (p - 1) : q = s \div p /\ r = s % p /\ s = q * p + r
  BY SMT
<1>3. PICK yp \in Nat, qp \in Nat : yp = y * p /\ qp = q * p
  BY Multiples
<1>4. y = q
  <2>1. CASE y < q
    <3>1. yp + p <= qp
      BY <1>3, <2>1, Multiples
    <3> QED BY <1>1, <1>2, <1>3, <3>1
  <2>2. CASE q < y
    <3>1. qp + p <= yp
      BY <1>3, <2>2, Multiples
    <3> QED BY <1>1, <1>2, <1>3, <3>1
  <2> QED BY <2>1, <2>2
<1>5. x = r
  BY <1>1, <1>2, <1>3, <1>4
<1> QED BY <1>1, <1>2, <1>4, <1>5

\* The other way round: each number is its quotient and remainder.
LEMMA Euclid ==
  ASSUME NEW p \in Nat \ {0}, NEW n \in Nat
  PROVE  /\ n \div p \in Nat /\ n % p \in 0 .. (p - 1)
         /\ n = (n % p) + (n \div p) * p
BY SMT

\* Columns: a column before the last one has another one behind it.
LEMMA Columns ==
  ASSUME NEW w \in Nat \ {0}, NEW x \in Nat, NEW end \in Nat,
         x % w = 0, end % w = 0
  PROVE  /\ x < end => x + w <= end
         /\ (x + w) % w = 0
         /\ 0 % w = 0
<1>1. PICK k \in Nat : x = k * w
  <2>1. x \div w \in Nat /\ x = 0 + (x \div w) * w
    BY Euclid
  <2>2. (x \div w) * w \in Nat
    BY <2>1, Multiples
  <2>3. x = (x \div w) * w
    BY <2>1, <2>2
  <2> QED BY <2>1, <2>3
<1>2. PICK m \in Nat : end = m * w
  <2>1. end \div w \in Nat /\ end = 0 + (end \div w) * w
    BY Euclid
  <2>2. (end \div w) * w \in Nat
    BY <2>1, Multiples
  <2>3. end = (end \div w) * w
    BY <2>1, <2>2
  <2> QED BY <2>1, <2>3
<1>3. ASSUME x < end
      PROVE  x + w <= end
  <2>1. k < m
    <3>1. m <= k => m * w <= k * w
      BY Multiples
    <3>2. k * w \in Nat /\ m * w \in Nat
      BY Multiples
    <3> QED BY <1>1, <1>2, <1>3, <3>1
  <2> QED BY <1>1, <1>2, <2>1, Multiples
<1>4. (x + w) % w = 0
  <2>1. x + w = 0 + (k + 1) * w
    <3>1. (k + 1) * w = k * w + 1 * w /\ 1 * w = w
      BY Multiples
    <3>2. k * w \in Nat
      BY Multiples
    <3> QED BY <1>1, <3>1, <3>2
  <2> QED BY <2>1, Divided
<1>5. 0 % w = 0
  <2>1. 0 = 0 + 0 * w
    BY SMT
  <2> QED BY <2>1, Divided
<1> QED BY <1>3, <1>4, <1>5

\* Products grow with their factors.
LEMMA ProductsGrow ==
  ASSUME NEW x \in Nat, NEW y \in Nat, NEW k \in Nat, x <= y
  PROVE  x * k \in Nat /\ y * k \in Nat /\ x * k <= y * k
<1>1. CASE k = 0
  BY <1>1
<1>2. CASE k # 0
  BY <1>2, Multiples
<1> QED BY <1>1, <1>2

\* A channel of a pixel that is p, after a value with v and alpha a.
Mix(p, v, a) == (p * (255 - a) + v * a) \div 256

\* A channel mixed of two is between them, but for one step of rounding down.
LEMMA Mixture ==
  ASSUME NEW a \in 0 .. 255, NEW p \in 0 .. 255, NEW v \in 0 .. 255,
         NEW low \in 0 .. 255, NEW high \in 0 .. 255,
         low <= p, low <= v, p <= high, v <= high
  PROVE  Mix(p, v, a) \in (low - 1) .. high /\ Mix(p, v, a) \in 0 .. 255
<1>1. PICK b \in Nat : b = 255 - a
  OBVIOUS
<1>2. /\ low * b \in Nat /\ p * b \in Nat /\ high * b \in Nat
      /\ low * b <= p * b /\ p * b <= high * b
  BY <1>1, ProductsGrow
<1>3. /\ low * a \in Nat /\ v * a \in Nat /\ high * a \in Nat
      /\ low * a <= v * a /\ v * a <= high * a
  BY ProductsGrow
<1>4. low * b + low * a = low * 255 /\ high * b + high * a = high * 255
  <2>1. \A k \in Nat : k * b + k * a = k * (b + a)
    BY <1>1
  <2> QED BY <1>1, <2>1
<1>5. PICK s \in Nat : s = p * b + v * a
  <2>1. p * b \in Nat /\ v * a \in Nat
    BY <1>2, <1>3
  <2>2. \A k, l \in Nat : k + l \in Nat
    OBVIOUS
  <2> QED BY <2>1, <2>2, Zenon
<1>6. low * 255 <= s /\ s <= high * 255
  <2>1. PICK lb \in Nat, la \in Nat, hb \in Nat, ha \in Nat, pb \in Nat, va \in Nat :
          /\ lb = low * b /\ la = low * a /\ hb = high * b /\ ha = high * a
          /\ pb = p * b /\ va = v * a
    BY <1>2, <1>3
  <2>2. lb <= pb /\ la <= va /\ pb <= hb /\ va <= ha /\ s = pb + va
    BY <1>2, <1>3, <1>5, <2>1
  <2>3. lb + la <= s /\ s <= hb + ha
    BY <2>2
  <2> QED BY <1>4, <2>1, <2>3
<1>7. s \div 256 \in (low - 1) .. high /\ s \div 256 \in 0 .. 255
  BY <1>6
<1> QED BY <1>1, <1>5, <1>7 DEF Mix

Opaque(value) == value.blue = 255

\* Set to an opaque value a pixel has that value; set to another one it has the
\* mixture, in red, green and blue (lines 56-67).
LEMMA SetPixel ==
  ASSUME NEW prev \in PixelValues, NEW value \in PixelValues
  PROVE  /\ sc_setpixel(prev, value) \in PixelValues
         /\ Opaque(value) => sc_setpixel(prev, value) = value
         /\ ~Opaque(value) => \A c \in {"red", "green", "blue"} :
              sc_setpixel(prev, value)[c] = Mix(prev[c], value[c], value.alpha)
<1> DEFINE mix(c) == Mix(prev[c], value[c], value.alpha)
<1>1. ASSUME NEW c \in {"red", "green", "blue"}
      PROVE  mix(c) \in 0 .. 255
  <2>1. prev[c] \in 0 .. 255 /\ value[c] \in 0 .. 255 /\ value.alpha \in 0 .. 255
    BY DEF PixelValues
  <2>2. 0 \in 0 .. 255 /\ 255 \in 0 .. 255
    OBVIOUS
  <2>3. \A x \in 0 .. 255 : 0 <= x /\ x <= 255
    OBVIOUS
  <2>4. PICK p \in 0 .. 255, v \in 0 .. 255, a \in 0 .. 255 :
          p = prev[c] /\ v = value[c] /\ a = value.alpha
    BY <2>1
  <2>5. Mix(p, v, a) \in 0 .. 255
    <3>1. PICK low \in 0 .. 255, high \in 0 .. 255 : low = 0 /\ high = 255
      BY <2>2
    <3>2. low <= p /\ low <= v /\ p <= high /\ v <= high
      BY <3>1
    <3> QED BY <3>2, Mixture, Zenon
  <2> QED BY <2>4, <2>5
<1>2. value.blue # 255 =>
        sc_setpixel(prev, value)
          = [prev EXCEPT !.red = mix("red"), !.green = mix("green"), !.blue = mix("blue")]
  BY DEF sc_setpixel, Mix
<1>3. value.blue = 255 => sc_setpixel(prev, value) = value
  BY DEF sc_setpixel
<1> HIDE DEF mix
<1>4. value.blue # 255 =>
        /\ sc_setpixel(prev, value) \in PixelValues
        /\ \A c \in {"red", "green", "blue"} : sc_setpixel(prev, value)[c] = mix(c)
  <2> SUFFICES ASSUME value.blue # 255
               PROVE  /\ sc_setpixel(prev, value) \in PixelValues
                      /\ \A c \in {"red", "green", "blue"} : sc_setpixel(prev, value)[c] = mix(c)
    OBVIOUS
  <2>1. mix("red") \in 0 .. 255 /\ mix("green") \in 0 .. 255 /\ mix("blue") \in 0 .. 255
    BY <1>1
  <2>2. PICK r \in 0 .. 255, g \in 0 .. 255, b \in 0 .. 255 :
          r = mix("red") /\ g = mix("green") /\ b = mix("blue")
    BY <2>1
  <2>3. sc_setpixel(prev, value) = [prev EXCEPT !.red = r, !.green = g, !.blue = b]
    BY <1>2, <2>2
  <2>4. [prev EXCEPT !.red = r, !.green = g, !.blue = b] \in PixelValues
    BY DEF PixelValues
  <2>5. /\ [prev EXCEPT !.red = r, !.green = g, !.blue = b].red = r
        /\ [prev EXCEPT !.red = r, !.green = g, !.blue = b].green = g
        /\ [prev EXCEPT !.red = r, !.green = g, !.blue = b].blue = b
    BY DEF PixelValues
  <2> QED BY <2>2, <2>3, <2>4, <2>5
<1> QED BY <1>3, <1>4 DEF mix, Opaque

\* Pixels, by offset.
Pixels(f) == \A o \in DOMAIN f : o \in Nat /\ f[o] \in PixelValues

\* What was not drawn is black.
LEMMA PixelOf ==
  ASSUME NEW f, Pixels(f), NEW o
  PROVE  Pixel(f, o) \in PixelValues
<1>1. Black \in PixelValues
  BY DEF Black, PixelValues
<1> QED BY <1>1 DEF Pixels, Pixel

\* Painting gives pixels,
LEMMA PaintedPixels ==
  ASSUME NEW f, Pixels(f), NEW values, Pixels(values)
  PROVE  Pixels(Paint(f, values))
<1>1. ASSUME NEW o \in DOMAIN values
      PROVE  sc_setpixel(Pixel(f, o), values[o]) \in PixelValues
  BY PixelOf, SetPixel DEF Pixels
<1> QED BY <1>1 DEF Pixels, Paint

\* those that were there before and those painted,
LEMMA PaintedWhere ==
  ASSUME NEW f, NEW values
  PROVE  DOMAIN Paint(f, values) = DOMAIN f \cup DOMAIN values
BY DEF Paint

\* and leaves the others as they were.
LEMMA PaintedNot ==
  ASSUME NEW f, NEW values, NEW o \in DOMAIN f \ DOMAIN values
  PROVE  Paint(f, values)[o] = f[o]
BY DEF Paint

\* A pixel painted is set to the value it is painted with.
LEMMA PaintedSet ==
  ASSUME NEW f, NEW values, NEW o \in DOMAIN values
  PROVE  Paint(f, values)[o] = sc_setpixel(Pixel(f, o), values[o])
BY DEF Paint

\* It has that value if it is opaque.
LEMMA PaintedOpaque ==
  ASSUME NEW f, NEW values, NEW o \in DOMAIN values, Opaque(values[o])
  PROVE  Paint(f, values)[o] = values[o]
<1>1. Paint(f, values)[o] = sc_setpixel(Pixel(f, o), values[o])
  BY PaintedSet
<1> DEFINE prev == Pixel(f, o)
           value == values[o]
<1>2. value.blue = 255 => sc_setpixel(prev, value) = value
  <2> HIDE DEF prev, value
  <2> QED BY DEF sc_setpixel
<1> QED BY <1>1, <1>2 DEF Opaque

------------------------------------------------------------------------------
\* Characters.

\* A character at p is what the frame f shows there.
Reads(f, p) ==
  \A l \in 0 .. (GlyphHeight - 1), r \in 0 .. (GlyphWidth - 1) :
    LET o == Offset(p[1] + r, p[2] + l)
    IN  InBuffer(o) => /\ o \in DOMAIN f
                       /\ f[o] = IF <<l, r>> \in font[p[3]] THEN foreground_color
                                                            ELSE background_color

\* The pixels of a character put at x and y.
GlyphAt(x, y) ==
  {o \in {Offset(x + r, y + l) : l \in 0 .. (GlyphHeight - 1), r \in 0 .. (GlyphWidth - 1)} :
     o = Offset(x, y) \/ InBuffer(o)}

\* A character at q leaves alone what is at p.
Before(p, q) ==
  \/ p[2] + GlyphHeight <= q[2]
  \/ p[2] = q[2] /\ p[1] + GlyphWidth <= q[1]

ColorsRight ==
  /\ foreground_color \in PixelValues /\ Opaque(foreground_color)
  /\ background_color \in PixelValues /\ Opaque(background_color)

\* Numbers, as the provers need them.
LEMMA Sizes ==
  ASSUME ConstantsAssumption
  PROVE  /\ XResolution \in Nat \ {0} /\ GlyphWidth \in Nat \ {0} /\ GlyphHeight \in Nat \ {0}
         /\ YResolution \in Nat \ {0} /\ Pitch \in Nat \ {0} /\ XResolution <= Pitch
         /\ GlyphWidth <= Pitch /\ WordBits \in Nat \ {0} /\ Word \in Nat
         /\ XResolution <= Word /\ YResolution <= Word
<1>1. /\ XResolution \in Nat \ {0} /\ GlyphWidth \in Nat \ {0} /\ GlyphHeight \in Nat \ {0}
      /\ YResolution \in Nat \ {0} /\ Pitch \in Nat /\ XResolution <= Pitch /\ GlyphWidth <= Pitch
      /\ WordBits \in Nat \ {0} /\ Word \in Nat
      /\ XResolution <= Word /\ YResolution <= Word
  BY DEF ConstantsAssumption
<1> QED BY <1>1

\* Offsets are numbers, of one pixel each.
LEMMA Offsets ==
  ASSUME ConstantsAssumption, NEW x \in 0 .. (Pitch - 1), NEW y \in Nat
  PROVE  /\ Offset(x, y) \in Nat
         /\ Offset(x, y) % Pitch = x /\ Offset(x, y) \div Pitch = y
BY Sizes, Divided DEF Offset

\* Offsets in any column.
LEMMA OffsetsTyped ==
  ASSUME ConstantsAssumption, NEW x \in Nat, NEW y \in Nat
  PROVE  Offset(x, y) \in Nat
<1>1. y * Pitch \in Nat
  BY Sizes, Multiples
<1> QED BY <1>1 DEF Offset

\* Two pixels with the same offset are one.
LEMMA OnePixel ==
  ASSUME ConstantsAssumption, NEW x1 \in 0 .. (Pitch - 1), NEW y1 \in Nat,
         NEW x2 \in 0 .. (Pitch - 1), NEW y2 \in Nat, Offset(x1, y1) = Offset(x2, y2)
  PROVE  x1 = x2 /\ y1 = y2
BY Offsets

\* The pixels of the screen lie in the buffer (line 7).
LEMMA ScreenInBuffer ==
  ASSUME ConstantsAssumption, NEW x \in 0 .. (XResolution - 1), NEW y \in 0 .. (YResolution - 1)
  PROVE  InBuffer(Offset(x, y))
<1>1. y * Pitch + Pitch <= YResolution * Pitch /\ y * Pitch \in Nat /\ YResolution * Pitch \in Nat
  BY Sizes, Multiples
<1>2. (XResolution * BitsPerPixel) \div 4 \in Nat
  <2>1. XResolution \in Nat /\ BitsPerPixel \in Nat
    BY DEF ConstantsAssumption
  <2>2. XResolution * BitsPerPixel \in Nat
    BY <2>1, SMT
  <2> QED BY <2>2, SMT
<1> QED BY <1>1, <1>2, Sizes DEF InBuffer, SCREEN_BUFFER_SIZE, Offset

\* The value of the pixel at o of character c.
Dot(x, y, c, o) ==
  IF <<(o - Offset(x, y)) \div Pitch, (o - Offset(x, y)) % Pitch>> \in font[c]
  THEN foreground_color ELSE background_color

\* What sc_putch computes from its start, as the pixels of the character
\* (lines 99-113).
LEMMA GlyphValues ==
  ASSUME ConstantsAssumption, NEW f, NEW x \in 0 .. (XResolution - 1), NEW y \in Nat, NEW c
  PROVE  sc_putch(f, x, y, c) =
           Paint(f, [o \in GlyphAt(x, y) |-> Dot(x, y, c, o)])
<1> DEFINE first == Offset(x, y)
           At(l, r) == first + l * Pitch + r
<1>1. ASSUME NEW l \in 0 .. (GlyphHeight - 1), NEW r \in 0 .. (GlyphWidth - 1)
      PROVE  At(l, r) = Offset(x + r, y + l)
  <2>1. l \in Nat /\ r \in Nat /\ x \in Nat
    BY Sizes
  <2>2. (y + l) * Pitch = y * Pitch + l * Pitch /\ y * Pitch \in Nat /\ l * Pitch \in Nat
    BY <2>1, Sizes, Multiples
  <2> QED BY <2>1, <2>2 DEF Offset
<1> DEFINE A == {At(l, r) : l \in 0 .. (GlyphHeight - 1), r \in 0 .. (GlyphWidth - 1)}
           B == {Offset(x + r, y + l) : l \in 0 .. (GlyphHeight - 1), r \in 0 .. (GlyphWidth - 1)}
<1>2. A = B
  BY <1>1
<1>3. {o \in A : o = first \/ InBuffer(o)} = GlyphAt(x, y)
  <2>1. GlyphAt(x, y) = {o \in B : o = first \/ InBuffer(o)}
    BY DEF GlyphAt
  <2> HIDE DEF A, B
  <2> QED BY <1>2, <2>1, Zenon
<1> DEFINE drawn == {o \in A : o = first \/ InBuffer(o)}
<1>4. sc_putch(f, x, y, c) = Paint(f, [o \in drawn |-> Dot(x, y, c, o)])
  BY DEF sc_putch, Dot
<1>5. drawn = GlyphAt(x, y)
  BY <1>3
<1> HIDE DEF drawn
<1> QED BY <1>4, <1>5

\* Where a pixel of the character is in the glyph.
LEMMA InGlyph ==
  ASSUME ConstantsAssumption, NEW x \in 0 .. (XResolution - 1), NEW y \in Nat,
         NEW l \in 0 .. (GlyphHeight - 1), NEW r \in 0 .. (GlyphWidth - 1)
  PROVE  /\ Offset(x + r, y + l) \in Nat
         /\ (Offset(x + r, y + l) - Offset(x, y)) \div Pitch = l
         /\ (Offset(x + r, y + l) - Offset(x, y)) % Pitch = r
<1>1. l \in Nat /\ r \in 0 .. (Pitch - 1) /\ x \in Nat
  BY Sizes
<1>2. /\ (y + l) * Pitch = y * Pitch + l * Pitch /\ (y + l) * Pitch \in Nat
      /\ y * Pitch \in Nat /\ l * Pitch \in Nat
  BY <1>1, Sizes, Multiples
<1>3. Offset(x + r, y + l) - Offset(x, y) = r + l * Pitch /\ Offset(x + r, y + l) \in Nat
  BY <1>1, <1>2 DEF Offset
<1>4. (r + l * Pitch) \div Pitch = l /\ (r + l * Pitch) % Pitch = r
  BY <1>1, Sizes, Divided
<1> QED BY <1>3, <1>4, Zenon

\* A character put on the screen is there, and nothing else has changed; nothing
\* is drawn behind the buffer (lines 99-113).
LEMMA CharacterPut ==
  ASSUME ConstantsAssumption, ColorsRight, NEW f, Pixels(f),
         NEW x \in 0 .. (XResolution - 1), NEW y \in 0 .. (YResolution - 1), NEW c
  PROVE  /\ Pixels(sc_putch(f, x, y, c))
         /\ DOMAIN sc_putch(f, x, y, c) = DOMAIN f \cup GlyphAt(x, y)
         /\ \A o \in GlyphAt(x, y) : InBuffer(o)
         /\ \A o \in DOMAIN f \ GlyphAt(x, y) : sc_putch(f, x, y, c)[o] = f[o]
         /\ Reads(sc_putch(f, x, y, c), <<x, y, c>>)
<1> DEFINE value(o) == Dot(x, y, c, o)
           values == [o \in GlyphAt(x, y) |-> value(o)]
<1>1. sc_putch(f, x, y, c) = Paint(f, values)
  BY GlyphValues
<1>2. \A o \in GlyphAt(x, y) : o \in Nat /\ InBuffer(o)
  BY InGlyph, ScreenInBuffer DEF GlyphAt
<1>3. \A o \in GlyphAt(x, y) : value(o) \in PixelValues /\ Opaque(value(o))
  BY DEF ColorsRight, Dot
<1>4. DOMAIN values = GlyphAt(x, y) /\ \A o \in GlyphAt(x, y) : values[o] = value(o)
  OBVIOUS
<1> HIDE DEF value, values
<1>5. /\ Pixels(Paint(f, values))
      /\ DOMAIN Paint(f, values) = DOMAIN f \cup GlyphAt(x, y)
      /\ \A o \in DOMAIN f \ GlyphAt(x, y) : Paint(f, values)[o] = f[o]
      /\ \A o \in GlyphAt(x, y) : Paint(f, values)[o] = value(o)
  <2>1. Pixels(values)
    BY <1>2, <1>3, <1>4 DEF Pixels
  <2>2. Pixels(Paint(f, values))
    BY <2>1, PaintedPixels
  <2>3. DOMAIN Paint(f, values) = DOMAIN f \cup GlyphAt(x, y)
    BY <1>4, PaintedWhere
  <2>4. \A o \in DOMAIN f \ GlyphAt(x, y) : Paint(f, values)[o] = f[o]
    BY <1>4, PaintedNot
  <2>5. \A o \in GlyphAt(x, y) : Paint(f, values)[o] = value(o)
    BY <1>3, <1>4, PaintedOpaque
  <2> QED BY <2>2, <2>3, <2>4, <2>5
<1>6. Reads(Paint(f, values), <<x, y, c>>)
  <2>1. ASSUME NEW l \in 0 .. (GlyphHeight - 1), NEW r \in 0 .. (GlyphWidth - 1),
               InBuffer(Offset(x + r, y + l))
        PROVE  /\ Offset(x + r, y + l) \in GlyphAt(x, y)
               /\ value(Offset(x + r, y + l)) = IF <<l, r>> \in font[c] THEN foreground_color
                                                                       ELSE background_color
    <3>1. Offset(x + r, y + l) \in GlyphAt(x, y)
      BY <2>1 DEF GlyphAt
    <3>2. /\ (Offset(x + r, y + l) - Offset(x, y)) \div Pitch = l
          /\ (Offset(x + r, y + l) - Offset(x, y)) % Pitch = r
      BY InGlyph
    <3> QED BY <3>1, <3>2 DEF value, Dot
  <2> QED BY <1>5, <2>1 DEF Reads
<1> QED BY <1>1, <1>2, <1>5, <1>6

\* Characters before the place where another one is put can be read afterwards
\* if they could before.
LEMMA CharacterStays ==
  ASSUME ConstantsAssumption, ColorsRight, NEW f, Pixels(f),
         NEW x \in 0 .. (XResolution - 1), NEW y \in 0 .. (YResolution - 1), NEW c,
         x + GlyphWidth <= Pitch,
         NEW p, p[1] \in Nat, p[2] \in Nat, p[1] + GlyphWidth <= Pitch,
         Before(p, <<x, y>>), Reads(f, p)
  PROVE  Reads(sc_putch(f, x, y, c), p)
<1>1. ASSUME NEW l \in 0 .. (GlyphHeight - 1), NEW r \in 0 .. (GlyphWidth - 1),
             NEW m \in 0 .. (GlyphHeight - 1), NEW s \in 0 .. (GlyphWidth - 1),
             Offset(p[1] + r, p[2] + l) = Offset(x + s, y + m)
      PROVE  FALSE
  <2>1. /\ p[1] + r \in 0 .. (Pitch - 1) /\ p[2] + l \in Nat
        /\ x + s \in 0 .. (Pitch - 1) /\ y + m \in Nat
    BY Sizes
  <2>2. p[1] + r = x + s /\ p[2] + l = y + m
    BY <1>1, <2>1, OnePixel
  <2> QED BY <2>2, Sizes DEF Before
<1>2. ASSUME NEW l \in 0 .. (GlyphHeight - 1), NEW r \in 0 .. (GlyphWidth - 1)
      PROVE  Offset(p[1] + r, p[2] + l) \notin GlyphAt(x, y)
  BY <1>1 DEF GlyphAt
<1>3. /\ DOMAIN sc_putch(f, x, y, c) = DOMAIN f \cup GlyphAt(x, y)
      /\ \A o \in DOMAIN f \ GlyphAt(x, y) : sc_putch(f, x, y, c)[o] = f[o]
  BY CharacterPut
<1> QED BY <1>2, <1>3 DEF Reads

\* "Before" is transitive.
LEMMA BeforeAll ==
  ASSUME NEW p, NEW q, NEW r,
         p[1] \in Nat, p[2] \in Nat, q[1] \in Nat, q[2] \in Nat, r[1] \in Nat, r[2] \in Nat,
         GlyphWidth \in Nat, GlyphHeight \in Nat,
         Before(p, q), Before(q, r)
  PROVE  Before(p, r)
BY DEF Before

\* The frames between the characters of Put.
LEMMA Frames ==
  ASSUME NEW puts, Len(puts) \in 0 .. 3, Put(puts)
  PROVE  \E after :
           /\ after[0] = frame /\ frame' = after[Len(puts)]
           /\ \A n \in 1 .. Len(puts) :
                after[n] = sc_putch(after[n - 1], puts[n][1], puts[n][2], puts[n][3])
<1> DEFINE N == Len(puts)
           put(f, n) == sc_putch(f, puts[n][1], puts[n][2], puts[n][3])
           step(g, n) == IF n = 0 THEN frame ELSE put(g[n - 1], n)
           Law(g) == g = [n \in 0 .. N |-> step(g, n)]
           after == CHOOSE g : Law(g)
           f1 == put(frame, 1)
           f2 == put(f1, 2)
           f3 == put(f2, 3)
           value(n) == IF n = 0 THEN frame ELSE IF n = 1 THEN f1 ELSE IF n = 2 THEN f2 ELSE f3
           h == [n \in 0 .. N |-> value(n)]
<1>1. frame' = after[N]
  BY DEF Put
<1>2. Law(h)
  <2>1. ASSUME NEW n \in 0 .. N
        PROVE  step(h, n) = value(n)
    <3>1. CASE n = 0
      BY <3>1
    <3>2. CASE n = 1
      <4>1. h[n - 1] = frame
        BY <3>2
      <4> QED BY <3>2, <4>1
    <3>3. CASE n = 2
      <4>1. h[n - 1] = f1
        BY <3>3
      <4> QED BY <3>3, <4>1
    <3>4. CASE n = 3
      <4>1. h[n - 1] = f2
        BY <3>4
      <4> QED BY <3>4, <4>1
    <3> QED BY <3>1, <3>2, <3>3, <3>4
  <2> HIDE DEF step, value
  <2> QED BY <2>1
<1>3. Law(after)
  <2> HIDE DEF Law
  <2> QED BY <1>2, Zenon
<1>4. \A n \in 0 .. N : after[n] = step(after, n)
  <2> HIDE DEF after, step
  <2> QED BY <1>3
<1> HIDE DEF after
<1>5. after[0] = frame
  BY <1>4
<1>6. ASSUME NEW n \in 1 .. N
      PROVE  after[n] = put(after[n - 1], n)
  BY <1>4
<1> QED BY <1>1, <1>5, <1>6

Places == (0 .. (XResolution - 1)) \X (0 .. (YResolution - 1)) \X DOMAIN FontFile

\* Characters put on the screen stay in the buffer (lines 99-113).
LEMMA PutTyped ==
  ASSUME ConstantsAssumption, ColorsRight, Pixels(frame), \A o \in DOMAIN frame : InBuffer(o),
         NEW puts \in Seq(Places), Len(puts) \in 0 .. 3, Put(puts)
  PROVE  Pixels(frame') /\ \A o \in DOMAIN frame' : InBuffer(o)
<1>1. PICK after :
        /\ after[0] = frame /\ frame' = after[Len(puts)]
        /\ \A n \in 1 .. Len(puts) :
             after[n] = sc_putch(after[n - 1], puts[n][1], puts[n][2], puts[n][3])
  BY Frames
<1> DEFINE Good(f) == Pixels(f) /\ \A o \in DOMAIN f : InBuffer(o)
<1>2. ASSUME NEW n \in 1 .. Len(puts), Good(after[n - 1])
      PROVE  Good(after[n])
  <2>1. puts[n] \in Places
    OBVIOUS
  <2>2. PICK x \in 0 .. (XResolution - 1), y \in 0 .. (YResolution - 1) :
          x = puts[n][1] /\ y = puts[n][2]
    BY <2>1 DEF Places
  <2>3. PICK f, c : f = after[n - 1] /\ c = puts[n][3]
    OBVIOUS
  <2>4. Pixels(f) /\ \A o \in DOMAIN f : InBuffer(o)
    BY <1>2, <2>3
  <2>5. /\ Pixels(sc_putch(f, x, y, c))
        /\ DOMAIN sc_putch(f, x, y, c) = DOMAIN f \cup GlyphAt(x, y)
        /\ \A o \in GlyphAt(x, y) : InBuffer(o)
    BY <2>4, CharacterPut
  <2>6. Good(sc_putch(f, x, y, c))
    BY <2>4, <2>5
  <2> HIDE DEF Good
  <2> QED BY <1>1, <2>2, <2>3, <2>6
<1>3. Good(after[0])
  BY <1>1
<1> HIDE DEF Good
<1>4. Len(puts) >= 1 => Good(after[1])
  BY <1>2, <1>3
<1>5. Len(puts) >= 2 => Good(after[2])
  <2>1. 2 - 1 = 1
    OBVIOUS
  <2> QED BY <1>2, <1>4, <2>1
<1>6. Len(puts) >= 3 => Good(after[3])
  <2>1. 3 - 1 = 2
    OBVIOUS
  <2> QED BY <1>2, <1>5, <2>1
<1>7. Good(after[Len(puts)])
  <2>1. Len(puts) = 0 \/ Len(puts) = 1 \/ Len(puts) = 2 \/ Len(puts) = 3
    OBVIOUS
  <2>2. CASE Len(puts) = 0
    BY <1>3, <2>2
  <2>3. CASE Len(puts) = 1
    BY <1>4, <2>3
  <2>4. CASE Len(puts) = 2
    BY <1>5, <2>4
  <2>5. CASE Len(puts) = 3
    BY <1>6, <2>5
  <2> QED BY <2>1, <2>2, <2>3, <2>4, <2>5
<1> QED BY <1>1, <1>7 DEF Good

------------------------------------------------------------------------------
\* Texts.

\* Entry i of s is below the one before it, in the first column, and the next
\* one is put over it: "Straddles", of any history.
Covered(s, i) ==
  /\ i \in 2 .. (Len(s) - 1)
  /\ s[i][1] = 0 /\ s[i][2] = s[i - 1][2] + GlyphHeight
  /\ s[i + 1][1] = 0 /\ s[i + 1][2] = s[i][2]

Legible(f, s) == \A i \in DOMAIN s : Reads(f, s[i]) \/ Covered(s, i)

\* Everything put is before the place "at".
Clear(s, at) == \A i \in DOMAIN s : Before(s[i], at)

\* Everything but the last, which lies there, in the first column.
Ending(s, at) ==
  /\ Len(s) >= 2 /\ \A i \in 1 .. (Len(s) - 1) : Before(s[i], at)
  /\ at[1] = 0 /\ s[Len(s)][1] = 0
  /\ s[Len(s)][2] = at[2] /\ at[2] = s[Len(s) - 1][2] + GlyphHeight

InColumns(s) == \A i \in DOMAIN s : s[i][1] % GlyphWidth = 0

\* t is s and one entry more.
Extends(s, e, t) ==
  /\ s \in Seq(Places) /\ t \in Seq(Places) /\ e \in Places
  /\ Len(t) = Len(s) + 1 /\ t[Len(t)] = e /\ \A i \in 1 .. Len(s) : t[i] = s[i]

\* What an entry of "shown" holds: where it is, on the screen, and a character of the font.
LEMMA PlaceIs ==
  ASSUME NEW e \in Places
  PROVE  e[1] \in 0 .. (XResolution - 1) /\ e[2] \in 0 .. (YResolution - 1) /\ e[3] \in DOMAIN FontFile
BY DEF Places

\* Characters in columns fit on their line.
LEMMA FitsLine ==
  ASSUME ConstantsAssumption, XResolution % GlyphWidth = 0,
         NEW x \in 0 .. (XResolution - 1), x % GlyphWidth = 0
  PROVE  x + GlyphWidth <= XResolution /\ x + GlyphWidth <= Pitch
BY Sizes, Columns

\* A character put on the screen can be read,
LEMMA ReadsNew ==
  ASSUME ConstantsAssumption, ColorsRight, XResolution % GlyphWidth = 0,
         NEW f, Pixels(f), NEW s, NEW e, NEW t, Extends(s, e, t),
         InColumns(s), e[1] % GlyphWidth = 0
  PROVE  Reads(sc_putch(f, e[1], e[2], e[3]), t[Len(t)])
<1>1. PICK x \in 0 .. (XResolution - 1), y \in 0 .. (YResolution - 1), c \in DOMAIN FontFile :
        e = <<x, y, c>> /\ x = e[1] /\ y = e[2] /\ c = e[3]
  BY DEF Extends, Places
<1>2. Reads(sc_putch(f, x, y, c), <<x, y, c>>)
  BY CharacterPut
<1> QED BY <1>1, <1>2 DEF Extends

\* and those before it still can.
LEMMA ReadsStay ==
  ASSUME ConstantsAssumption, ColorsRight, XResolution % GlyphWidth = 0,
         NEW f, Pixels(f), NEW s, NEW e, NEW t, Extends(s, e, t),
         InColumns(s), e[1] % GlyphWidth = 0,
         NEW i \in 1 .. Len(s), Before(s[i], e), Reads(f, s[i])
  PROVE  Reads(sc_putch(f, e[1], e[2], e[3]), t[i])
<1>1. PICK x \in 0 .. (XResolution - 1), y \in 0 .. (YResolution - 1), c \in DOMAIN FontFile :
        e = <<x, y, c>> /\ x = e[1] /\ y = e[2] /\ c = e[3]
  BY DEF Extends, Places
<1>2. x + GlyphWidth <= Pitch
  BY <1>1, FitsLine
<1>3. PICK p : p = s[i]
  OBVIOUS
<1>4. p \in Places /\ i \in DOMAIN s
  BY <1>3 DEF Extends
<1>5. p[1] \in 0 .. (XResolution - 1) /\ p[2] \in 0 .. (YResolution - 1) /\ p[1] % GlyphWidth = 0
  BY <1>3, <1>4, PlaceIs DEF InColumns
<1>6. p[1] \in Nat /\ p[2] \in Nat /\ p[1] + GlyphWidth <= Pitch
  <2>1. PICK px \in 0 .. (XResolution - 1) : px = p[1]
    BY <1>5
  <2> QED BY <1>5, <2>1, FitsLine
<1>7. Before(p, <<x, y>>)
  BY <1>1, <1>4, <1>3 DEF Before
<1>8. Reads(sc_putch(f, x, y, c), p)
  BY <1>2, <1>4, <1>3, <1>6, <1>7, CharacterStays
<1> QED BY <1>1, <1>3, <1>8 DEF Extends

\* A character put behind a legible text, or over a character that is covered
\* by it, leaves a legible text.
LEMMA LegibleStays ==
  ASSUME ConstantsAssumption, ColorsRight, XResolution % GlyphWidth = 0,
         NEW f, Pixels(f), NEW s, NEW e, NEW t, Extends(s, e, t),
         InColumns(s), e[1] % GlyphWidth = 0,
         Legible(f, s), Clear(s, e) \/ Ending(s, e)
  PROVE  Legible(sc_putch(f, e[1], e[2], e[3]), t)
<1> DEFINE after == sc_putch(f, e[1], e[2], e[3])
<1>3. Reads(after, t[Len(t)])
  BY ReadsNew
<1>4. ASSUME NEW i \in 1 .. Len(s), Before(s[i], e), Reads(f, s[i])
      PROVE  Reads(after, t[i])
  BY <1>4, ReadsStay
<1>5. ASSUME NEW i \in 1 .. Len(s), Covered(s, i)
      PROVE  Covered(t, i)
  BY <1>5 DEF Covered, Extends
<1>6. ASSUME NEW i \in 1 .. Len(s)
      PROVE  Reads(after, t[i]) \/ Covered(t, i)
  <2>1. Reads(f, s[i]) \/ Covered(s, i)
    BY DEF Legible, Extends
  <2>2. CASE Covered(s, i)
    BY <1>5, <2>2
  <2>3. CASE Reads(f, s[i]) /\ Before(s[i], e)
    BY <1>4, <2>3
  <2>4. CASE ~Before(s[i], e)
    <3>1. Ending(s, e) /\ i = Len(s)
      BY <2>4 DEF Clear, Ending, Extends
    <3>2. Covered(t, i)
      BY <3>1 DEF Ending, Covered, Extends
    <3> QED BY <3>2
  <2> QED BY <2>1, <2>2, <2>3, <2>4
<1>7. DOMAIN t = 1 .. Len(t) /\ Len(t) = Len(s) + 1 /\ Len(s) \in Nat
  BY DEF Extends
<1> HIDE DEF after
<1>8. ASSUME NEW i \in DOMAIN t
      PROVE  Reads(after, t[i]) \/ Covered(t, i)
  <2>1. CASE i = Len(t)
    BY <1>3, <2>1
  <2>2. CASE i # Len(t)
    <3>1. i \in 1 .. Len(s)
      BY <1>7, <2>2
    <3> QED BY <1>6, <3>1
  <2> QED BY <2>1, <2>2
<1> QED BY <1>8 DEF Legible, after

\* If nothing is covered, nothing becomes so.
LEMMA AllRead ==
  ASSUME ConstantsAssumption, ColorsRight, XResolution % GlyphWidth = 0,
         NEW f, Pixels(f), NEW s, NEW e, NEW t, Extends(s, e, t),
         InColumns(s), e[1] % GlyphWidth = 0,
         \A i \in DOMAIN s : Reads(f, s[i]), Clear(s, e)
  PROVE  \A i \in DOMAIN t : Reads(sc_putch(f, e[1], e[2], e[3]), t[i])
<1> DEFINE after == sc_putch(f, e[1], e[2], e[3])
<1>1. Reads(after, t[Len(t)])
  BY ReadsNew
<1>2. DOMAIN t = 1 .. Len(t) /\ Len(t) = Len(s) + 1 /\ Len(s) \in Nat /\ DOMAIN s = 1 .. Len(s)
  BY DEF Extends
<1>3. ASSUME NEW i \in 1 .. Len(s)
      PROVE  Reads(after, t[i])
  <2>1. Before(s[i], e) /\ Reads(f, s[i])
    BY <1>2 DEF Clear
  <2> QED BY <2>1, ReadsStay
<1> HIDE DEF after
<1>4. ASSUME NEW i \in DOMAIN t
      PROVE  Reads(after, t[i])
  <2>1. CASE i = Len(t)
    BY <1>1, <2>1
  <2>2. CASE i # Len(t)
    <3>1. i \in 1 .. Len(s)
      BY <1>2, <2>2
    <3> QED BY <1>3, <3>1
  <2> QED BY <2>1, <2>2
<1> QED BY <1>4 DEF after

\* Behind an entry added all is clear, also what was covered by it;
LEMMA ClearBehind ==
  ASSUME ConstantsAssumption, NEW s, NEW e, NEW t, Extends(s, e, t),
         Clear(s, e) \/ Ending(s, e), NEW q, q[1] \in Nat, q[2] \in Nat, Before(e, q)
  PROVE  Clear(t, q)
<1>1. ASSUME NEW i \in 1 .. Len(s)
      PROVE  Before(s[i], q)
  <2>1. s[i] \in Places /\ e \in Places
    BY DEF Extends
  <2>2. s[i][1] \in Nat /\ s[i][2] \in Nat /\ e[1] \in Nat /\ e[2] \in Nat
    BY <2>1, PlaceIs
  <2>3. CASE Before(s[i], e)
    <3>1. PICK p : p = s[i]
      OBVIOUS
    <3>2. Before(p, q)
      BY <2>2, <2>3, <3>1, BeforeAll, Sizes
    <3> QED BY <3>1, <3>2
  <2>4. CASE ~Before(s[i], e)
    <3>1. Ending(s, e) /\ i = Len(s)
      BY <2>4 DEF Clear, Ending, Extends
    <3> QED BY <3>1 DEF Ending, Before
  <2> QED BY <2>3, <2>4
<1> QED BY <1>1 DEF Clear, Extends

\* and at an entry that is alone at the start of the line after its predecessor's.
LEMMA EndingAt ==
  ASSUME ConstantsAssumption, NEW s, NEW e, NEW t, Extends(s, e, t), Clear(s, e), Len(s) >= 1,
         e[1] = 0, e[2] = s[Len(s)][2] + GlyphHeight
  PROVE  Ending(t, e)
<1>1. /\ Len(s) \in Nat /\ Len(t) = Len(s) + 1 /\ DOMAIN s = 1 .. Len(s)
      /\ \A i \in 1 .. Len(s) : t[i] = s[i]
      /\ t[Len(t)] = e
  BY DEF Extends
<1>2. Len(t) - 1 = Len(s)
  BY <1>1
<1> QED BY <1>1, <1>2 DEF Clear, Ending

------------------------------------------------------------------------------
\* The invariant.

SetUpRight ==
  /\ mode \in {"off", "ready", "print", "hex", "rhex", "done"}
  /\ DOMAIN font = DOMAIN FontFile
  /\ foreground_color \in PixelValues /\ background_color \in PixelValues
  /\ mode # "off" => /\ foreground_color \in Colors /\ background_color \in Colors
                     /\ foreground_color # background_color
  /\ cursor \in (0 .. (XResolution - 1)) \X Nat
  /\ mode \in {"off", "ready"} => frame = <<>> /\ shown = <<>>

FrameRight == Pixels(frame) /\ shown \in Seq(Places)

\* A text loop is on the screen and draws into the buffer.
TextRuns ==
  mode \in {"print", "hex", "rhex"} =>
    /\ mode = "print" => call[1] = "sc_print" /\ rest \in Seq(DOMAIN FontFile)
    /\ mode = "hex" => call[1] = "sc_print_hex" /\ rest \in Seq(0 .. 255)
    /\ mode = "rhex" => call[1] = "sc_print_rhex" /\ rest \in Seq(0 .. 255)
    /\ cursor[2] < YResolution
    /\ \A o \in DOMAIN frame : InBuffer(o)
    /\ shown = <<>> => frame = <<>>

\* How many of the first k characters are not line feeds.
Visible(string, k) == Cardinality({j \in 1 .. k : string[j] # 10})

\* n characters of the string are done.
Progress(n) ==
  /\ Len(shown) = Visible(call[3], n)
  /\ \A k \in 1 .. n : call[3][k] # 10 =>
       Visible(call[3], k) \in DOMAIN shown /\ shown[Visible(call[3], k)][3] = call[3][k]
  /\ mode = "print" => /\ Len(rest) = Len(call[3]) - n
                       /\ \A i \in 1 .. Len(rest) : rest[i] = call[3][n + i]
  /\ mode = "done" => n = Len(call[3]) \/ OffBottom(cursor)

Plain == \A i \in DOMAIN call[3] : isprint(call[3][i]) \/ call[3][i] = 10

\* In order and readable, each character before the cursor.
Printed ==
  mode \in {"print", "done"} /\ call[1] = "sc_print" /\ Aligned /\ Plain =>
    /\ InColumns(shown) /\ \A i \in DOMAIN shown : Reads(frame, shown[i])
    /\ mode = "print" => cursor[1] % GlyphWidth = 0 /\ Clear(shown, cursor)
    /\ call[3] \in Strings /\ \E n \in 0 .. Len(call[3]) : Progress(n)

\* In order and readable, but for covered digits.
Dumped ==
  mode \in {"hex", "rhex", "done"} /\ call[1] \in {"sc_print_hex", "sc_print_rhex"} /\ Aligned =>
    /\ InColumns(shown) /\ Legible(frame, shown)
    /\ mode \in {"hex", "rhex"} => cursor[1] % GlyphWidth = 0
    /\ mode = "hex" => Clear(shown, cursor)
    /\ mode = "rhex" => Clear(shown, cursor) \/ Ending(shown, cursor)

ScreenInv ==
  /\ SetUpRight /\ FrameRight /\ TextRuns /\ Printed /\ Dumped
  /\ StaysInside /\ ShapesRight

\* Once the driver is set up, both colours are opaque.
LEMMA ColorsOpaque ==
  ASSUME ConstantsAssumption, SetUpRight, mode # "off"
  PROVE  ColorsRight
BY DEF ConstantsAssumption, SetUpRight, ColorsRight, Opaque

\* The texts and dumps it is called with.
LEMMA TextsTyped ==
  ASSUME ConstantsAssumption
  PROVE  Strings \subseteq Seq(DOMAIN FontFile) /\ Dumps \subseteq Seq(0 .. 255)
BY DEF ConstantsAssumption

\* Nothing drawn, nothing shown.
LEMMA NoPixels == DOMAIN <<>> = {} /\ Pixels(<<>>) /\ <<>> \in Seq(Places) /\ Len(<<>>) = 0
BY DEF Pixels

\* Where the cursor goes.
LEMMA Advanced ==
  ASSUME ConstantsAssumption, NEW at \in (0 .. (XResolution - 1)) \X Nat, NEW n \in {1, 2}
  PROVE  /\ Advance(at, n) \in (0 .. (XResolution - 1)) \X Nat
         /\ XResolution % GlyphWidth = 0 /\ at[1] % GlyphWidth = 0 =>
              Advance(at, n)[1] % GlyphWidth = 0 /\ Before(at, Advance(at, n))
<1>1. PICK x \in 0 .. (XResolution - 1), y \in Nat : at = <<x, y>> /\ x = at[1] /\ y = at[2]
  OBVIOUS
<1>2. PICK w \in Nat : w = n * GlyphWidth /\ (w = GlyphWidth \/ w = GlyphWidth + GlyphWidth)
  BY Sizes
<1>3. Advance(at, n) = IF x + w >= XResolution THEN <<0, y + GlyphHeight>> ELSE <<x + w, y>>
  BY <1>1, <1>2 DEF Advance
<1>4. GlyphHeight \in Nat \ {0} /\ GlyphWidth \in Nat \ {0} /\ XResolution \in Nat \ {0}
  BY Sizes
<1>5. Advance(at, n) \in (0 .. (XResolution - 1)) \X Nat
  <2>1. CASE x + w >= XResolution
    BY <1>3, <1>4, <2>1
  <2>2. CASE x + w < XResolution
    BY <1>2, <1>3, <1>4, <2>2
  <2> QED BY <1>2, <1>4, <2>1, <2>2
<1>6. ASSUME XResolution % GlyphWidth = 0, at[1] % GlyphWidth = 0
      PROVE  Advance(at, n)[1] % GlyphWidth = 0 /\ Before(at, Advance(at, n))
  <2>1. 0 % GlyphWidth = 0 /\ (x + w) % GlyphWidth = 0
    <3> x \in Nat /\ x % GlyphWidth = 0 /\ x + GlyphWidth \in Nat
      BY <1>1, <1>4, <1>6
    <3>1. (x + GlyphWidth) % GlyphWidth = 0 /\ 0 % GlyphWidth = 0
      BY <1>4, <1>6, Columns
    <3>2. ((x + GlyphWidth) + GlyphWidth) % GlyphWidth = 0
      BY <1>4, <1>6, <3>1, Columns
    <3>3. (x + GlyphWidth) + GlyphWidth = x + (GlyphWidth + GlyphWidth)
      BY <1>4
    <3> QED BY <1>2, <3>1, <3>2, <3>3
  <2>2. CASE x + w >= XResolution
    BY <1>1, <1>3, <1>4, <2>1, <2>2 DEF Before
  <2>3. CASE x + w < XResolution
    <3>1. Advance(at, n) = <<x + w, y>>
      BY <1>2, <1>3, <1>4, <2>3
    <3> QED BY <1>1, <1>2, <1>4, <2>1, <3>1 DEF Before
  <2> QED BY <1>2, <1>4, <2>2, <2>3
<1> QED BY <1>5, <1>6

\* What "Readable", "Straddles" and the counter of TextReadable are, and that the
\* set-up they refer to stays.
LEMMA SameReads ==
  ASSUME UNCHANGED setUpVars, NEW STATE f, NEW STATE p
  PROVE  Reads(f, p)' <=> Reads(f', p')
BY DEF setUpVars, Reads

\* What is said of shapes, while there are none.
LEMMA NoShape ==
  ASSUME mode' # "done" \/ call[1]' \in {"sc_print", "sc_print_hex", "sc_print_rhex"}
  PROVE  ShapesRight'
<1>1. /\ ~Done("sc_clear")' /\ ~Done("sc_fill")' /\ ~Done("sc_box")' /\ ~Done("sc_line")'
      /\ ~Done("sc_putimg")' /\ ~Done("sc_putimg_masked")' /\ ~Done("sc_setpixel")'
  BY DEF Done
<1>2. RectanglesExact'
  BY <1>1, Zenon DEF RectanglesExact
<1>3. LineStraight'
  BY <1>1, Zenon DEF LineStraight
<1>4. ImagesUpright'
  BY <1>1, Zenon DEF ImagesUpright
<1>5. BlendBetween'
  BY <1>1, Zenon DEF BlendBetween
<1> QED BY <1>2, <1>3, <1>4, <1>5 DEF ShapesRight

\* A step of a text loop that puts up to three characters keeps everything but
\* their order (lines 69-172).
LEMMA TextStep ==
  ASSUME ConstantsAssumption, SetUpRight, FrameRight, TextRuns,
         mode \in {"print", "hex", "rhex"}, mode' \in {mode, "done"}, UNCHANGED <<setUpVars, call>>,
         \/ UNCHANGED <<frame, shown>>
         \/ \E puts \in Seq(Places) : Len(puts) \in 1 .. 3 /\ Put(puts),
         cursor' \in (0 .. (XResolution - 1)) \X Nat,
         mode' = mode => cursor'[2] < YResolution /\ rest' = Tail(rest) /\ rest # <<>>
  PROVE  SetUpRight' /\ FrameRight' /\ TextRuns' /\ StaysInside' /\ ShapesRight'
<1>1. ColorsRight
  BY ColorsOpaque
<1>2. /\ Pixels(frame) /\ \A o \in DOMAIN frame : InBuffer(o)
      /\ shown \in Seq(Places) /\ (shown = <<>> => frame = <<>>)
      /\ call[1] \in {"sc_print", "sc_print_hex", "sc_print_rhex"}
  BY DEF FrameRight, TextRuns
<1>3. /\ Pixels(frame') /\ \A o \in DOMAIN frame' : InBuffer(o)
      /\ shown' \in Seq(Places) /\ (shown' = <<>> => frame' = <<>>)
  <2>1. CASE UNCHANGED <<frame, shown>>
    BY <1>2, <2>1 DEF Pixels
  <2>2. ASSUME NEW puts \in Seq(Places), Len(puts) \in 1 .. 3, Put(puts)
        PROVE  /\ Pixels(frame') /\ \A o \in DOMAIN frame' : InBuffer(o)
               /\ shown' \in Seq(Places) /\ shown' # <<>>
    <3>1. Pixels(frame') /\ \A o \in DOMAIN frame' : InBuffer(o)
      <4>1. Len(puts) \in 0 .. 3
        BY <2>2
      <4> QED BY <1>1, <1>2, <2>2, <4>1, PutTyped
    <3>2. shown' = shown \o puts
      BY <2>2 DEF Put
    <3>3. shown \o puts \in Seq(Places) /\ Len(shown \o puts) = Len(shown) + Len(puts)
      BY <1>2, ConcatProperties
    <3>4. Len(shown) \in Nat /\ Len(puts) > 0
      <4>1. Len(shown) \in Nat
        BY <1>2, LenProperties
      <4>2. Len(puts) > 0
        <5>1. \A k \in 1 .. 3 : k > 0
          OBVIOUS
        <5> QED BY <2>2, <5>1
      <4> QED BY <4>1, <4>2
    <3>5. Len(shown') > 0
      BY <2>2, <3>2, <3>3, <3>4
    <3> QED BY <3>1, <3>2, <3>3, <3>5
  <2> QED BY <2>1, <2>2
<1>4. SetUpRight'
  BY DEF SetUpRight, setUpVars
<1>5. FrameRight'
  BY <1>3 DEF FrameRight, Pixels
<1>6. TextRuns'
  <2>1. ASSUME mode' = mode
        PROVE  rest' = Tail(rest) /\ rest # <<>> /\ cursor'[2] < YResolution
    BY <2>1
  <2>2. \A S : rest \in Seq(S) /\ rest # <<>> => Tail(rest) \in Seq(S)
    BY HeadTailProperties
  <2> QED BY <1>3, <2>1, <2>2 DEF TextRuns, InBuffer
<1>7. StaysInside'
  <2>1. CASE shown' = <<>>
    <3>1. DOMAIN frame' = {}
      BY <1>3, <2>1, NoPixels
    <3> QED BY <3>1 DEF StaysInside
  <2>2. CASE shown' # <<>>
    <3>1. Len(shown') > 0
      BY <1>3, <2>2, EmptySeq
    <3> QED BY <1>3, <3>1 DEF StaysInside, InBuffer
  <2> QED BY <2>1, <2>2
<1>8. ShapesRight'
  BY <1>2, NoShape
<1> QED BY <1>4, <1>5, <1>6, <1>7, <1>8

\* Where GoOn leaves the loop, and when it ends it (lines 73-97).
LEMMA Went ==
  ASSUME ConstantsAssumption, mode \in {"print", "hex", "rhex"}, rest # <<>>,
         NEW at \in (0 .. (XResolution - 1)) \X Nat, GoOn(at)
  PROVE  /\ mode' \in {mode, "done"} /\ cursor' \in (0 .. (XResolution - 1)) \X Nat /\ cursor' = at
         /\ mode' = mode => cursor'[2] < YResolution /\ rest' = Tail(rest) /\ rest # <<>>
         /\ mode' = "done" => OffBottom(at)
         /\ OffBottom(at) => mode' = "done"
<1>1. YResolution \in Nat /\ at[2] \in Nat
  BY Sizes
<1> QED BY <1>1 DEF GoOn, OffBottom

\* One character: the history is longer by it, the frame holds it.
LEMMA PutOne ==
  ASSUME FrameRight, NEW e \in Places, Put(<<e>>)
  PROVE  /\ frame' = sc_putch(frame, e[1], e[2], e[3])
         /\ Extends(shown, e, shown')
<1> DEFINE puts == <<e>>
<1>1. puts \in Seq(Places) /\ Len(puts) = 1 /\ puts[1] = e
  OBVIOUS
<1>2. shown' = shown \o puts
  BY DEF Put
<1> HIDE DEF puts
<1>3. Put(puts)
  BY DEF puts
<1>4. PICK after :
        /\ after[0] = frame /\ frame' = after[Len(puts)]
        /\ \A n \in 1 .. Len(puts) :
             after[n] = sc_putch(after[n - 1], puts[n][1], puts[n][2], puts[n][3])
  <2>1. Len(puts) \in 0 .. 3
    BY <1>1
  <2> QED BY <1>3, <2>1, Frames
<1>5. frame' = sc_putch(frame, e[1], e[2], e[3])
  <2>1. 1 \in 1 .. Len(puts) /\ 1 - 1 = 0
    BY <1>1
  <2>2. after[1] = sc_putch(after[1 - 1], puts[1][1], puts[1][2], puts[1][3])
    BY <1>4, <2>1
  <2> QED BY <1>1, <1>4, <2>1, <2>2
<1>6. Extends(shown, e, shown')
  <2>1. /\ shown \in Seq(Places) /\ shown' \in Seq(Places) /\ Len(shown') = Len(shown) + 1
        /\ \A i \in 1 .. Len(shown') : shown'[i] = IF i <= Len(shown) THEN shown[i]
                                                  ELSE puts[i - Len(shown)]
    <3>1. shown \in Seq(Places) /\ puts \in Seq(Places)
      BY <1>1 DEF FrameRight
    <3>2. /\ shown \o puts \in Seq(Places) /\ Len(shown \o puts) = Len(shown) + Len(puts)
          /\ \A i \in 1 .. (Len(shown) + Len(puts)) :
               (shown \o puts)[i] = IF i <= Len(shown) THEN shown[i] ELSE puts[i - Len(shown)]
      BY <3>1, ConcatProperties
    <3> QED BY <1>1, <1>2, <3>1, <3>2
  <2>2. Len(shown) \in Nat
    BY <2>1, LenProperties
  <2>3. shown'[Len(shown')] = e
    BY <1>1, <2>1, <2>2
  <2>4. \A i \in 1 .. Len(shown) : shown'[i] = shown[i]
    BY <2>1, <2>2
  <2> QED BY <2>1, <2>3, <2>4 DEF Extends
<1> QED BY <1>5, <1>6

\* Visible characters are counted one by one;
LEMMA VisibleNext ==
  ASSUME NEW string, NEW n \in Nat
  PROVE  /\ Visible(string, n) \in Nat
         /\ string[n + 1] = 10 => Visible(string, n + 1) = Visible(string, n)
         /\ string[n + 1] # 10 => Visible(string, n + 1) = Visible(string, n) + 1
<1> DEFINE S(k) == {j \in 1 .. k : string[j] # 10}
<1>1. \A k \in Nat : IsFiniteSet(S(k))
  <2> SUFFICES ASSUME NEW k \in Nat PROVE IsFiniteSet(S(k))
    OBVIOUS
  <2>1. IsFiniteSet(1 .. k)
    BY FS_Interval
  <2>2. S(k) \subseteq 1 .. k
    OBVIOUS
  <2> HIDE DEF S
  <2> QED BY <2>1, <2>2, FS_Subset
<1>2. Cardinality(S(n)) \in Nat
  <2> HIDE DEF S
  <2> QED BY <1>1, FS_CardinalityType
<1>3. string[n + 1] = 10 => S(n + 1) = S(n)
  OBVIOUS
<1>4. string[n + 1] # 10 => S(n + 1) = S(n) \cup {n + 1} /\ n + 1 \notin S(n)
  OBVIOUS
<1>5. string[n + 1] # 10 => Cardinality(S(n + 1)) = Cardinality(S(n)) + 1
  <2> HIDE DEF S
  <2> QED BY <1>1, <1>4, FS_AddElement
<1> HIDE DEF S
<1>6. \A k : Visible(string, k) = Cardinality(S(k))
  BY DEF Visible, S
<1> QED BY <1>2, <1>3, <1>5, <1>6

\* their number grows,
LEMMA VisibleGrows ==
  ASSUME NEW string, NEW m \in Nat, NEW n \in Nat, m <= n
  PROVE  Visible(string, m) <= Visible(string, n)
<1> DEFINE P == {k \in Nat : Visible(string, m) <= Visible(string, m + k)}
<1>1. 0 \in P
  <2>1. Visible(string, m) \in Nat /\ m + 0 = m
    BY VisibleNext
  <2> QED BY <2>1
<1>2. ASSUME NEW k \in P
      PROVE  k + 1 \in P
  <2>1. k \in Nat /\ Visible(string, m) <= Visible(string, m + k)
    OBVIOUS
  <2>2. m + k \in Nat /\ (m + k) + 1 = m + (k + 1)
    BY <2>1
  <2>3. /\ Visible(string, m) \in Nat /\ Visible(string, m + k) \in Nat
        /\ \/ Visible(string, (m + k) + 1) = Visible(string, m + k)
           \/ Visible(string, (m + k) + 1) = Visible(string, m + k) + 1
    BY <2>2, VisibleNext
  <2>4. Visible(string, m) <= Visible(string, m + (k + 1))
    BY <2>1, <2>2, <2>3
  <2> QED BY <2>1, <2>4
<1>3. P = Nat
  <2> HIDE DEF P
  <2>1. P \in SUBSET Nat
    BY DEF P
  <2> QED BY <1>1, <1>2, <2>1, ByInduction
<1>4. PICK d \in Nat : n = m + d
  <2>1. n - m \in Nat /\ n = m + (n - m)
    OBVIOUS
  <2> QED BY <2>1
<1>5. d \in P
  BY <1>3
<1> QED BY <1>4, <1>5

\* and each visible one has a place of its own.
LEMMA VisiblePlace ==
  ASSUME NEW string, NEW k \in Nat \ {0}, string[k] # 10
  PROVE  /\ Visible(string, k) \in Nat \ {0}
         /\ \A n \in Nat : n < k => Visible(string, n) < Visible(string, k)
<1>1. k - 1 \in Nat /\ (k - 1) + 1 = k
  OBVIOUS
<1>2. Visible(string, k) = Visible(string, k - 1) + 1 /\ Visible(string, k - 1) \in Nat
  <2>1. PICK j \in Nat : j = k - 1 /\ j + 1 = k
    BY <1>1
  <2>2. Visible(string, j + 1) = Visible(string, j) + 1 /\ Visible(string, j) \in Nat
    BY <2>1, VisibleNext
  <2> QED BY <2>1, <2>2
<1>3. ASSUME NEW n \in Nat, n < k
      PROVE  Visible(string, n) < Visible(string, k)
  <2>1. n <= k - 1
    BY <1>3
  <2>2. Visible(string, n) <= Visible(string, k - 1) /\ Visible(string, n) \in Nat
    BY <1>1, <2>1, VisibleGrows, VisibleNext
  <2> QED BY <1>2, <2>2
<1> QED BY <1>2, <1>3

\* One character of sc_print (lines 69-98): the text stays readable, and no
\* visible character is left out.
LEMMA PrintStep ==
  ASSUME ConstantsAssumption, ScreenInv, PrintChar
  PROVE  ScreenInv'
<1> DEFINE c == Head(rest)
           x == cursor[1]
           y == cursor[2]
           below == <<x, y + GlyphHeight>>
           e == <<x, y, c>>
           next == Advance(cursor, 1)
<1>1. /\ SetUpRight /\ FrameRight /\ TextRuns /\ mode = "print" /\ rest # <<>>
      /\ UNCHANGED setUpVars /\ UNCHANGED call /\ UNCHANGED <<setUpVars, call>>
  BY DEF ScreenInv, PrintChar
<1>2. /\ x \in 0 .. (XResolution - 1) /\ y \in 0 .. (YResolution - 1)
      /\ cursor \in (0 .. (XResolution - 1)) \X Nat
      /\ rest \in Seq(DOMAIN FontFile) /\ call[1] = "sc_print"
  BY <1>1, Sizes DEF SetUpRight, TextRuns
<1>3. /\ c \in DOMAIN FontFile /\ Len(rest) \in Nat \ {0} /\ c = rest[1]
      /\ Len(Tail(rest)) = Len(rest) - 1
      /\ \A i \in 1 .. Len(Tail(rest)) : Tail(rest)[i] = rest[i + 1]
  BY <1>1, <1>2, HeadTailProperties, EmptySeq
<1>4. e \in Places /\ e[1] = x /\ e[2] = y /\ e[3] = c
  BY <1>2, <1>3 DEF Places
<1>5. /\ next \in (0 .. (XResolution - 1)) \X Nat
      /\ below \in (0 .. (XResolution - 1)) \X Nat /\ <<0, y>> \in (0 .. (XResolution - 1)) \X Nat
  <2>1. next \in (0 .. (XResolution - 1)) \X Nat
    BY <1>2, Advanced
  <2>2. XResolution \in Nat \ {0} /\ YResolution \in Nat \ {0} /\ GlyphHeight \in Nat
    BY Sizes
  <2>3. y \in Nat /\ y + GlyphHeight \in Nat /\ 0 \in 0 .. (XResolution - 1)
    BY <1>2, <2>2
  <2> QED BY <1>2, <2>1, <2>3
<1> HIDE DEF next, c, e
<1>6. \/ c = 10 /\ GoOn(below) /\ UNCHANGED <<frame, shown>>
      \/ c = 13 /\ cursor' = <<0, y>> /\ rest' = Tail(rest) /\ UNCHANGED <<frame, shown, mode>>
      \/ c \notin {10, 13} /\ Put(<<e>>) /\ isprint(c) /\ GoOn(next)
      \/ /\ c \notin {10, 13} /\ Put(<<e>>) /\ ~isprint(c)
         /\ rest' = Tail(rest) /\ UNCHANGED <<cursor, mode>>
  BY DEF PrintChar, c, e, next
<1>7. ASSUME NEW at \in (0 .. (XResolution - 1)) \X Nat, GoOn(at)
      PROVE  /\ mode' \in {mode, "done"} /\ cursor' = at
             /\ mode' = mode => cursor'[2] < YResolution /\ rest' = Tail(rest)
             /\ mode' = "done" => OffBottom(cursor')
  BY <1>1, <1>7, Went
<1>8. /\ mode' \in {mode, "done"} /\ cursor' \in (0 .. (XResolution - 1)) \X Nat
      /\ mode' = mode => cursor'[2] < YResolution /\ rest' = Tail(rest) /\ rest # <<>>
      /\ mode' = "done" => OffBottom(cursor')
  <2>1. CASE c = 10 /\ GoOn(below)
    BY <1>1, <1>5, <1>7, <2>1
  <2>2. CASE cursor' = <<0, y>> /\ rest' = Tail(rest) /\ UNCHANGED mode
    <3>1. mode' = mode /\ mode' # "done" /\ rest' = Tail(rest) /\ rest # <<>> /\ cursor' = <<0, y>>
      BY <1>1, <2>2
    <3>2. <<0, y>>[2] < YResolution
      BY <1>2, Sizes
    <3> QED BY <1>5, <3>1, <3>2
  <2>3. CASE GoOn(next)
    BY <1>1, <1>5, <1>7, <2>3
  <2>4. CASE rest' = Tail(rest) /\ UNCHANGED <<cursor, mode>>
    <3>1. mode' = mode /\ mode' # "done" /\ rest' = Tail(rest) /\ rest # <<>> /\ cursor' = cursor
      BY <1>1, <2>4
    <3>2. y < YResolution
      BY <1>2, Sizes
    <3> QED BY <1>2, <3>1, <3>2
  <2> QED BY <1>6, <2>1, <2>2, <2>3, <2>4
<1>9. \/ UNCHANGED <<frame, shown>>
      \/ \E puts \in Seq(Places) : Len(puts) \in 1 .. 3 /\ Put(puts)
  <2>1. <<e>> \in Seq(Places) /\ Len(<<e>>) = 1
    BY <1>4
  <2> QED BY <1>6, <2>1
<1>10. SetUpRight' /\ FrameRight' /\ TextRuns' /\ StaysInside' /\ ShapesRight'
  BY <1>1, <1>8, <1>9, TextStep
<1>11. ASSUME Aligned, Plain
       PROVE  /\ InColumns(shown') /\ \A i \in DOMAIN shown' : Reads(frame', shown'[i])
              /\ mode' = "print" => cursor'[1] % GlyphWidth = 0 /\ Clear(shown', cursor')
              /\ call[3] \in Strings /\ \E n \in 0 .. Len(call[3]) : Progress(n)'
  <2>1. /\ InColumns(shown) /\ \A i \in DOMAIN shown : Reads(frame, shown[i])
        /\ x % GlyphWidth = 0 /\ Clear(shown, cursor) /\ call[3] \in Strings
        /\ \E n \in 0 .. Len(call[3]) : Progress(n)
    BY <1>1, <1>2, <1>11 DEF ScreenInv, Printed
  <2>2. PICK n \in 0 .. Len(call[3]) : Progress(n)
    BY <2>1
  <2>3. /\ Len(shown) = Visible(call[3], n)
        /\ \A k \in 1 .. n : call[3][k] # 10 =>
             Visible(call[3], k) \in DOMAIN shown /\ shown[Visible(call[3], k)][3] = call[3][k]
        /\ Len(rest) = Len(call[3]) - n
        /\ \A i \in 1 .. Len(rest) : rest[i] = call[3][n + i]
    BY <1>1, <2>2 DEF Progress
  <2>4. call[3] \in Seq(DOMAIN FontFile) /\ Len(call[3]) \in Nat /\ DOMAIN call[3] = 1 .. Len(call[3])
    BY <2>1, TextsTyped
  <2>5. n \in Nat /\ n + 1 \in 1 .. Len(call[3]) /\ call[3][n + 1] = c
    BY <1>3, <2>3, <2>4
  <2>6. c = 10 \/ (isprint(c) /\ c # 13 /\ c # 10)
    BY <1>11, <2>4, <2>5 DEF Plain, isprint
  <2>7. shown \in Seq(Places) /\ DOMAIN shown = 1 .. Len(shown) /\ Len(shown) \in Nat
    BY <1>1 DEF FrameRight
  <2>8. CASE c = 10
    <3>1. GoOn(below) /\ UNCHANGED <<frame, shown>>
      BY <1>6, <2>8
    <3>2. cursor' = below /\ below = <<x, y + GlyphHeight>>
      BY <1>5, <1>7, <3>1
    <3>3. Clear(shown', cursor')
      <4>1. ASSUME NEW i \in DOMAIN shown
            PROVE  Before(shown[i], below)
        <5>1. shown[i] \in Places
          BY <2>7
        <5>2. shown[i][1] \in Nat /\ shown[i][2] \in Nat
          BY <5>1, PlaceIs
        <5>3. Before(shown[i], cursor)
          BY <2>1 DEF Clear
        <5>4. /\ GlyphHeight \in Nat \ {0} /\ GlyphWidth \in Nat /\ y \in Nat
              /\ cursor[2] = y /\ below[2] = y + GlyphHeight
          BY <1>2, <3>2, Sizes
        <5> HIDE DEF below, y
        <5>5. shown[i][2] + GlyphHeight <= below[2]
          BY <5>2, <5>3, <5>4 DEF Before
        <5> QED BY <5>5 DEF Before
      <4> QED BY <3>1, <3>2, <4>1 DEF Clear
    <3>4. Progress(n + 1)'
      <4>1. Visible(call[3], n + 1) = Visible(call[3], n)
        BY <2>5, <2>8, VisibleNext
      <4>2. ASSUME NEW k \in 1 .. (n + 1), call[3][k] # 10
            PROVE  Visible(call[3], k) \in DOMAIN shown /\ shown[Visible(call[3], k)][3] = call[3][k]
        <5>1. k \in 1 .. n
          BY <2>5, <2>8, <4>2
        <5> QED BY <2>3, <4>2, <5>1
      <4>3. Len(Tail(rest)) = Len(call[3]) - (n + 1)
        BY <1>3, <2>3, <2>4, <2>5
      <4>4. ASSUME NEW i \in 1 .. Len(Tail(rest))
            PROVE  Tail(rest)[i] = call[3][(n + 1) + i]
        <5>1. Tail(rest)[i] = rest[i + 1] /\ i + 1 \in 1 .. Len(rest)
          BY <1>3
        <5>2. n + (i + 1) = (n + 1) + i
          BY <1>3, <2>5
        <5> QED BY <2>3, <5>1, <5>2
      <4> QED BY <1>1, <1>8, <2>3, <3>1, <4>1, <4>2, <4>3, <4>4 DEF Progress
    <3>5. cursor'[1] % GlyphWidth = 0
      BY <2>1, <3>2
    <3>6. n + 1 \in 0 .. Len(call[3])
      BY <2>4, <2>5
    <3> QED BY <2>1, <3>1, <3>3, <3>4, <3>5, <3>6
  <2>9. CASE isprint(c) /\ c \notin {10, 13}
    <3>1. Put(<<e>>) /\ GoOn(next)
      BY <1>6, <2>9
    <3>2. cursor' = next
      BY <1>5, <1>7, <3>1
    <3>3. frame' = sc_putch(frame, e[1], e[2], e[3]) /\ Extends(shown, e, shown')
      BY <1>1, <1>4, <3>1, PutOne
    <3>4. XResolution % GlyphWidth = 0 /\ e[1] % GlyphWidth = 0 /\ Pixels(frame) /\ ColorsRight
      BY <1>1, <1>4, <1>11, <2>1, ColorsOpaque DEF Aligned, FrameRight
    <3>5. Clear(shown, e)
      BY <1>4, <2>1 DEF Clear, Before
    <3>6. \A i \in DOMAIN shown' : Reads(frame', shown'[i])
      BY <2>1, <3>3, <3>4, <3>5, AllRead
    <3>7. next[1] % GlyphWidth = 0 /\ Before(e, next)
      <4>1. next[1] % GlyphWidth = 0 /\ Before(cursor, next)
        BY <1>2, <2>1, <3>4, Advanced DEF next
      <4> QED BY <1>4, <4>1 DEF Before
    <3>8. Clear(shown', next)
      <4>1. next[1] \in Nat /\ next[2] \in Nat
        BY <1>5
      <4> QED BY <3>3, <3>5, <3>7, <4>1, ClearBehind
    <3>9. InColumns(shown')
      BY <2>1, <2>7, <3>3, <3>4 DEF InColumns, Extends
    <3>10. Progress(n + 1)'
      <4>1. Visible(call[3], n + 1) = Len(shown) + 1
        BY <2>3, <2>5, <2>9, VisibleNext
      <4>2. Len(shown') = Len(shown) + 1 /\ shown'[Len(shown) + 1] = e /\ DOMAIN shown' = 1 .. Len(shown')
            /\ \A i \in 1 .. Len(shown) : shown'[i] = shown[i]
        BY <3>3 DEF Extends
      <4>3. ASSUME NEW k \in 1 .. (n + 1), call[3][k] # 10
            PROVE  /\ Visible(call[3], k) \in DOMAIN shown'
                   /\ shown'[Visible(call[3], k)][3] = call[3][k]
        <5>1. CASE k = n + 1
          BY <1>4, <2>5, <2>7, <4>1, <4>2, <5>1
        <5>2. CASE k # n + 1
          <6>1. k \in 1 .. n
            BY <2>5, <4>3, <5>2
          <6>2. Visible(call[3], k) \in DOMAIN shown /\ shown[Visible(call[3], k)][3] = call[3][k]
            BY <2>3, <4>3, <6>1
          <6> QED BY <2>7, <4>2, <6>2
        <5> QED BY <5>1, <5>2
      <4>4. Len(Tail(rest)) = Len(call[3]) - (n + 1)
        BY <1>3, <2>3, <2>4, <2>5
      <4>5. ASSUME NEW i \in 1 .. Len(Tail(rest))
            PROVE  Tail(rest)[i] = call[3][(n + 1) + i]
        <5>1. Tail(rest)[i] = rest[i + 1] /\ i + 1 \in 1 .. Len(rest)
          BY <1>3
        <5>2. n + (i + 1) = (n + 1) + i
          BY <1>3, <2>5
        <5> QED BY <2>3, <5>1, <5>2
      <4> QED BY <1>1, <1>8, <4>1, <4>2, <4>3, <4>4, <4>5 DEF Progress
    <3>11. n + 1 \in 0 .. Len(call[3])
      BY <2>4, <2>5
    <3> QED BY <2>1, <3>2, <3>6, <3>7, <3>8, <3>9, <3>10, <3>11
  <2> QED BY <2>6, <2>8, <2>9
<1>12. Printed'
  <2>1. Aligned' => Aligned
    BY <1>1 DEF Aligned
  <2>2. Plain' => Plain
    BY <1>1 DEF Plain
  <2>3. ASSUME NEW i, Reads(frame', shown'[i])
        PROVE  Reads(frame, shown[i])'
    BY <1>1, <2>3 DEF Reads, setUpVars
  <2> QED BY <1>1, <1>11, <2>1, <2>2, <2>3 DEF Printed, InColumns, Clear, Before
<1>13. Dumped'
  BY <1>1, <1>2 DEF Dumped
<1> QED BY <1>10, <1>12, <1>13 DEF ScreenInv

------------------------------------------------------------------------------
\* Dumps.

\* A history with one entry more extends it.
LEMMA Extended ==
  ASSUME NEW s \in Seq(Places), NEW e \in Places
  PROVE  Extends(s, e, Append(s, e)) /\ Append(s, e) \in Seq(Places)
BY AppendProperties DEF Extends

\* What is in a history after others were put behind it.
LEMMA Concatenated ==
  ASSUME NEW s \in Seq(Places), NEW puts \in Seq(Places)
  PROVE  /\ s \o puts \in Seq(Places) /\ Len(s) \in Nat /\ Len(s \o puts) = Len(s) + Len(puts)
         /\ \A i \in 1 .. Len(s) : (s \o puts)[i] = s[i]
         /\ \A i \in 1 .. Len(puts) : (s \o puts)[Len(s) + i] = puts[i]
<1> DEFINE t == s \o puts
<1>1. /\ t \in Seq(Places) /\ Len(t) = Len(s) + Len(puts)
      /\ \A i \in 1 .. Len(s) + Len(puts) : t[i] = IF i <= Len(s) THEN s[i] ELSE puts[i - Len(s)]
  BY ConcatProperties
<1>2. Len(s) \in Nat /\ Len(puts) \in Nat
  BY LenProperties
<1> HIDE DEF t
<1>3. \A i \in 1 .. Len(s) : t[i] = s[i]
  BY <1>1, <1>2
<1>4. ASSUME NEW i \in 1 .. Len(puts)
      PROVE  t[Len(s) + i] = puts[i]
  <2>1. Len(s) + i \in 1 .. Len(s) + Len(puts) /\ ~(Len(s) + i <= Len(s)) /\ (Len(s) + i) - Len(s) = i
    BY <1>2
  <2> QED BY <1>1, <2>1
<1> QED BY <1>1, <1>2, <1>3, <1>4 DEF t

\* Two characters,
LEMMA PutTwo ==
  ASSUME FrameRight, NEW e1 \in Places, NEW e2 \in Places, Put(<<e1, e2>>)
  PROVE  \E s1, f1 : /\ Extends(shown, e1, s1) /\ Extends(s1, e2, shown')
                     /\ f1 = sc_putch(frame, e1[1], e1[2], e1[3])
                     /\ frame' = sc_putch(f1, e2[1], e2[2], e2[3])
<1> DEFINE puts == <<e1, e2>>
           s1 == Append(shown, e1)
<1>1. puts \in Seq(Places) /\ Len(puts) = 2 /\ puts[1] = e1 /\ puts[2] = e2
  OBVIOUS
<1>2. shown' = shown \o puts
  BY DEF Put
<1> HIDE DEF puts
<1>3. Put(puts)
  BY DEF puts
<1>4. PICK after :
        /\ after[0] = frame /\ frame' = after[Len(puts)]
        /\ \A n \in 1 .. Len(puts) :
             after[n] = sc_putch(after[n - 1], puts[n][1], puts[n][2], puts[n][3])
  <2>1. Len(puts) \in 0 .. 3
    BY <1>1
  <2> QED BY <1>3, <2>1, Frames
<1>5. after[1] = sc_putch(frame, e1[1], e1[2], e1[3])
  <2>1. 1 \in 1 .. Len(puts) /\ 1 - 1 = 0
    BY <1>1
  <2>2. after[1] = sc_putch(after[1 - 1], puts[1][1], puts[1][2], puts[1][3])
    BY <1>4, <2>1
  <2> QED BY <1>1, <1>4, <2>1, <2>2
<1>6. frame' = sc_putch(after[1], e2[1], e2[2], e2[3])
  <2>1. 2 \in 1 .. Len(puts) /\ 2 - 1 = 1
    BY <1>1
  <2>2. after[2] = sc_putch(after[2 - 1], puts[2][1], puts[2][2], puts[2][3])
    BY <1>4, <2>1
  <2> QED BY <1>1, <1>4, <2>1, <2>2
<1>7. Extends(shown, e1, s1) /\ s1 \in Seq(Places)
  BY Extended DEF FrameRight
<1>8. Extends(s1, e2, shown')
  <2>1. /\ shown' \in Seq(Places) /\ Len(shown) \in Nat /\ Len(shown') = Len(shown) + Len(puts)
        /\ \A i \in 1 .. Len(shown) : shown'[i] = shown[i]
        /\ \A i \in 1 .. Len(puts) : shown'[Len(shown) + i] = puts[i]
    <3>1. shown \in Seq(Places)
      BY DEF FrameRight
    <3> QED BY <1>1, <1>2, <3>1, Concatenated
  <2>2. /\ Len(shown') = Len(shown) + 2 /\ shown'[Len(shown) + 1] = e1 /\ shown'[Len(shown) + 2] = e2
    BY <1>1, <2>1
  <2>3. /\ Len(s1) = Len(shown) + 1 /\ s1[Len(shown) + 1] = e1 /\ s1 \in Seq(Places)
        /\ \A i \in 1 .. Len(shown) : s1[i] = shown[i]
    BY <1>7 DEF Extends
  <2> HIDE DEF s1
  <2> QED BY <2>1, <2>2, <2>3 DEF Extends
<1> QED BY <1>5, <1>6, <1>7, <1>8

\* and three.
LEMMA PutThree ==
  ASSUME FrameRight, NEW e1 \in Places, NEW e2 \in Places, NEW e3 \in Places, Put(<<e1, e2, e3>>)
  PROVE  \E s1, s2, f1, f2 :
           /\ Extends(shown, e1, s1) /\ Extends(s1, e2, s2) /\ Extends(s2, e3, shown')
           /\ f1 = sc_putch(frame, e1[1], e1[2], e1[3])
           /\ f2 = sc_putch(f1, e2[1], e2[2], e2[3])
           /\ frame' = sc_putch(f2, e3[1], e3[2], e3[3])
<1> DEFINE puts == <<e1, e2, e3>>
           s1 == Append(shown, e1)
           s2 == Append(s1, e2)
<1>1. puts \in Seq(Places) /\ Len(puts) = 3 /\ puts[1] = e1 /\ puts[2] = e2 /\ puts[3] = e3
  OBVIOUS
<1>2. shown' = shown \o puts
  BY DEF Put
<1> HIDE DEF puts
<1>3. Put(puts)
  BY DEF puts
<1>4. PICK after :
        /\ after[0] = frame /\ frame' = after[Len(puts)]
        /\ \A n \in 1 .. Len(puts) :
             after[n] = sc_putch(after[n - 1], puts[n][1], puts[n][2], puts[n][3])
  <2>1. Len(puts) \in 0 .. 3
    BY <1>1
  <2> QED BY <1>3, <2>1, Frames
<1>5. after[1] = sc_putch(frame, e1[1], e1[2], e1[3])
  <2>1. 1 \in 1 .. Len(puts) /\ 1 - 1 = 0
    BY <1>1
  <2>2. after[1] = sc_putch(after[1 - 1], puts[1][1], puts[1][2], puts[1][3])
    BY <1>4, <2>1
  <2> QED BY <1>1, <1>4, <2>1, <2>2
<1>6. after[2] = sc_putch(after[1], e2[1], e2[2], e2[3])
  <2>1. 2 \in 1 .. Len(puts) /\ 2 - 1 = 1
    BY <1>1
  <2>2. after[2] = sc_putch(after[2 - 1], puts[2][1], puts[2][2], puts[2][3])
    BY <1>4, <2>1
  <2> QED BY <1>1, <1>4, <2>1, <2>2
<1>7. frame' = sc_putch(after[2], e3[1], e3[2], e3[3])
  <2>1. 3 \in 1 .. Len(puts) /\ 3 - 1 = 2
    BY <1>1
  <2>2. after[3] = sc_putch(after[3 - 1], puts[3][1], puts[3][2], puts[3][3])
    BY <1>4, <2>1
  <2> QED BY <1>1, <1>4, <2>1, <2>2
<1>8. Extends(shown, e1, s1) /\ s1 \in Seq(Places)
  BY Extended DEF FrameRight
<1>9. Extends(s1, e2, s2) /\ s2 \in Seq(Places)
  <2> HIDE DEF s1
  <2> QED BY <1>8, Extended
<1>10. Extends(s2, e3, shown')
  <2>1. /\ shown' \in Seq(Places) /\ Len(shown) \in Nat /\ Len(shown') = Len(shown) + Len(puts)
        /\ \A i \in 1 .. Len(shown) : shown'[i] = shown[i]
        /\ \A i \in 1 .. Len(puts) : shown'[Len(shown) + i] = puts[i]
    <3>1. shown \in Seq(Places)
      BY DEF FrameRight
    <3> QED BY <1>1, <1>2, <3>1, Concatenated
  <2> HIDE DEF s1, s2
  <2>2. /\ Len(shown) \in Nat /\ Len(s2) = Len(shown) + 2 /\ s2[Len(shown) + 2] = e2
        /\ s2[Len(shown) + 1] = e1 /\ \A i \in 1 .. Len(shown) : s2[i] = shown[i]
    <3>1. /\ Len(shown) \in Nat /\ Len(s1) = Len(shown) + 1 /\ s1[Len(shown) + 1] = e1
          /\ \A i \in 1 .. Len(shown) : s1[i] = shown[i]
      BY <1>8, <2>1 DEF Extends
    <3>2. /\ Len(s2) = Len(s1) + 1 /\ s2[Len(s1) + 1] = e2 /\ \A i \in 1 .. Len(s1) : s2[i] = s1[i]
      BY <1>9 DEF Extends
    <3> QED BY <3>1, <3>2
  <2>3. /\ shown'[Len(shown) + 3] = e3 /\ shown'[Len(shown) + 2] = e2 /\ shown'[Len(shown) + 1] = e1
        /\ \A i \in 1 .. Len(shown) : shown'[i] = shown[i]
        /\ Len(shown') = Len(shown) + 3
    BY <1>1, <2>1
  <2>4. ASSUME NEW i \in 1 .. Len(s2)
        PROVE  shown'[i] = s2[i]
    <3>1. i \in 1 .. Len(shown) \/ i = Len(shown) + 1 \/ i = Len(shown) + 2
      BY <2>2
    <3> QED BY <2>2, <2>3, <3>1
  <2>5. Len(shown') = Len(s2) + 1 /\ shown'[Len(shown')] = e3
    BY <2>2, <2>3
  <2> QED BY <1>9, <2>1, <2>4, <2>5 DEF Extends
<1> QED BY <1>5, <1>6, <1>7, <1>8, <1>9, <1>10

\* A legible text in columns.
Dump(f, s) == Pixels(f) /\ InColumns(s) /\ Legible(f, s)

Open(s, at) == Clear(s, at) \/ Ending(s, at)

\* A dump stays one with a character that does not go over what is to stay.
LEMMA DumpGrows ==
  ASSUME ConstantsAssumption, ColorsRight, XResolution % GlyphWidth = 0,
         NEW f, NEW s, Dump(f, s), NEW e, NEW t, Extends(s, e, t), e[1] % GlyphWidth = 0, Open(s, e)
  PROVE  Dump(sc_putch(f, e[1], e[2], e[3]), t)
<1>1. Pixels(f) /\ InColumns(s) /\ Legible(f, s) /\ (Clear(s, e) \/ Ending(s, e))
  BY DEF Dump, Open
<1>2. Legible(sc_putch(f, e[1], e[2], e[3]), t)
  BY <1>1, LegibleStays
<1>3. InColumns(t)
  BY <1>1 DEF InColumns, Extends
<1>4. Pixels(sc_putch(f, e[1], e[2], e[3]))
  <2>1. PICK x \in 0 .. (XResolution - 1), y \in 0 .. (YResolution - 1), c \in DOMAIN FontFile :
          x = e[1] /\ y = e[2] /\ c = e[3]
    BY DEF Extends, Places
  <2>2. Pixels(sc_putch(f, x, y, c))
    BY <1>1, CharacterPut
  <2> QED BY <2>1, <2>2
<1> QED BY <1>2, <1>3, <1>4 DEF Dump

\* "Open" and "Before" are about places only.
LEMMA SamePlace ==
  ASSUME NEW s, NEW p, NEW q, p[1] = q[1], p[2] = q[2]
  PROVE  Open(s, p) <=> Open(s, q)
BY DEF Open, Clear, Ending, Before

\* The digits of a byte leave the text open where the cursor goes: either behind
\* them, or on the second one, at the start of a line (lines 134, 161).
LEMMA TwoDigits ==
  ASSUME ConstantsAssumption, ColorsRight, XResolution % GlyphWidth = 0,
         NEW f, NEW s, Dump(f, s), NEW at \in (0 .. (XResolution - 1)) \X Nat, at[1] % GlyphWidth = 0,
         Open(s, at),
         NEW e1, NEW e2, NEW s1, NEW s2, Extends(s, e1, s1), Extends(s1, e2, s2),
         e1[1] = at[1], e1[2] = at[2],
         e2[1] = Advance(at, 1)[1], e2[2] = Advance(at, 1)[2],
         NEW f1, f1 = sc_putch(f, e1[1], e1[2], e1[3])
  PROVE  /\ Dump(sc_putch(f1, e2[1], e2[2], e2[3]), s2)
         /\ Open(s2, Advance(at, 2))
<1> DEFINE next == Advance(at, 1)
           space == Advance(at, 2)
<1>1. /\ next \in (0 .. (XResolution - 1)) \X Nat /\ next[1] % GlyphWidth = 0 /\ Before(at, next)
      /\ space \in (0 .. (XResolution - 1)) \X Nat
  BY Advanced
<1>2. \/ Before(next, space)
      \/ next = space /\ next[1] = 0 /\ next[2] = at[2] + GlyphHeight
  <2>1. PICK x \in 0 .. (XResolution - 1), y \in Nat : at = <<x, y>> /\ x = at[1] /\ y = at[2]
    OBVIOUS
  <2>2. /\ next = IF x + GlyphWidth >= XResolution THEN <<0, y + GlyphHeight>> ELSE <<x + GlyphWidth, y>>
        /\ space = IF (x + GlyphWidth) + GlyphWidth >= XResolution THEN <<0, y + GlyphHeight>>
                   ELSE <<(x + GlyphWidth) + GlyphWidth, y>>
    <3>1. 1 * GlyphWidth = GlyphWidth /\ x + 2 * GlyphWidth = (x + GlyphWidth) + GlyphWidth
      BY Sizes
    <3> QED BY <2>1, <3>1 DEF Advance
  <2> HIDE DEF next, space
  <2>3. GlyphHeight \in Nat \ {0} /\ GlyphWidth \in Nat \ {0} /\ XResolution \in Nat \ {0}
    BY Sizes
  <2>4. CASE x + GlyphWidth >= XResolution
    <3>1. next = <<0, y + GlyphHeight>> /\ space = <<0, y + GlyphHeight>>
      BY <2>2, <2>3, <2>4
    <3> QED BY <2>1, <3>1
  <2>5. CASE x + GlyphWidth < XResolution
    <3>1. next = <<x + GlyphWidth, y>>
      BY <2>2, <2>3, <2>5
    <3>2. space = <<0, y + GlyphHeight>> \/ space = <<(x + GlyphWidth) + GlyphWidth, y>>
      BY <2>2
    <3> QED BY <2>1, <2>3, <3>1, <3>2 DEF Before
  <2> QED BY <2>1, <2>3, <2>4, <2>5
<1> HIDE DEF next, space
<1>3. e1[1] % GlyphWidth = 0 /\ e2[1] % GlyphWidth = 0
  BY <1>1 DEF next
<1>4. Open(s, e1)
  BY SamePlace
<1>5. Dump(f1, s1)
  BY <1>3, <1>4, DumpGrows
<1>6. Clear(s1, next)
  <2>1. Before(e1, next)
    BY <1>1 DEF Before
  <2>2. next[1] \in Nat /\ next[2] \in Nat
    BY <1>1
  <2> QED BY <1>4, <2>1, <2>2, ClearBehind DEF Open
<1>7. Clear(s1, e2)
  BY <1>6 DEF Clear, Before, next
<1>8. Dump(sc_putch(f1, e2[1], e2[2], e2[3]), s2)
  <2>1. Open(s1, e2)
    BY <1>7 DEF Open
  <2> QED BY <1>3, <1>5, <2>1, DumpGrows
<1>9. CASE Before(next, space)
  <2>1. Before(e2, space)
    BY <1>9 DEF Before, next
  <2>2. space[1] \in Nat /\ space[2] \in Nat
    BY <1>1
  <2>3. Clear(s2, space)
    BY <1>7, <2>1, <2>2, ClearBehind
  <2> QED BY <1>8, <2>3 DEF Open, space
<1>10. CASE next = space /\ next[1] = 0 /\ next[2] = at[2] + GlyphHeight
  <2>1. Len(s1) >= 1 /\ s1[Len(s1)] = e1
    BY DEF Extends
  <2>2. e2[1] = 0 /\ e2[2] = s1[Len(s1)][2] + GlyphHeight
    BY <1>10, <2>1 DEF next
  <2>3. Ending(s2, e2)
    BY <1>7, <2>1, <2>2, EndingAt
  <2>4. Open(s2, e2)
    BY <2>3 DEF Open
  <2>5. e2[1] = space[1] /\ e2[2] = space[2]
    BY <1>10 DEF next
  <2>6. Open(s2, space)
    BY <2>4, <2>5, SamePlace
  <2> QED BY <1>8, <2>6 DEF space
<1> QED BY <1>2, <1>9, <1>10

\* The font has the digits of every byte, and the space.
LEMMA DigitsShown ==
  ASSUME ConstantsAssumption, NEW b \in 0 .. 255
  PROVE  hextoasc(b \div 16) \in DOMAIN FontFile /\ hextoasc(b % 16) \in DOMAIN FontFile
<1>1. (48 .. 57) \cup (65 .. 70) \cup {32} \subseteq DOMAIN FontFile
  BY DEF ConstantsAssumption
<1>2. b \div 16 \in 0 .. 15 /\ b % 16 \in 0 .. 15
  OBVIOUS
<1>3. ASSUME NEW d \in 0 .. 15
      PROVE  hextoasc(d) \in DOMAIN FontFile
  BY <1>1 DEF hextoasc
<1> QED BY <1>2, <1>3

\* The font has a space.
LEMMA SpaceShown ==
  ASSUME ConstantsAssumption
  PROVE  32 \in DOMAIN FontFile
BY DEF ConstantsAssumption

\* A character above the bottom is an entry of "shown".
LEMMA PlaceAt ==
  ASSUME ConstantsAssumption, NEW at \in (0 .. (XResolution - 1)) \X Nat, ~OffBottom(at),
         NEW c \in DOMAIN FontFile
  PROVE  <<at[1], at[2], c>> \in Places
<1>1. at[1] \in 0 .. (XResolution - 1) /\ at[2] \in 0 .. (YResolution - 1)
  BY Sizes DEF OffBottom
<1> QED BY <1>1 DEF Places

\* The sequences that HexByte puts together.
LEMMA Together ==
  ASSUME NEW e1, NEW e2, NEW e3
  PROVE  /\ <<e1>> \o <<>> = <<e1>> /\ <<e1, e2>> \o <<>> = <<e1, e2>>
         /\ <<e1, e2>> \o <<e3>> = <<e1, e2, e3>>
<1> DEFINE S == {e1, e2, e3}
           t == <<e1, e2>> \o <<e3>>
<1>1. /\ <<e1>> \in Seq(S) /\ <<e1, e2>> \in Seq(S) /\ <<e3>> \in Seq(S) /\ <<e1, e2, e3>> \in Seq(S)
  OBVIOUS
<1>2. <<e1>> \o <<>> = <<e1>> /\ <<e1, e2>> \o <<>> = <<e1, e2>>
  BY <1>1, ConcatEmptySeq
<1>3. /\ t \in Seq(S) /\ Len(t) = 3
      /\ \A i \in 1 .. 3 : t[i] = IF i <= 2 THEN <<e1, e2>>[i] ELSE <<e3>>[i - 2]
  <2>1. Len(<<e1, e2>>) = 2 /\ Len(<<e3>>) = 1 /\ 2 + 1 = 3
    OBVIOUS
  <2> QED BY <1>1, <2>1, ConcatProperties
<1> HIDE DEF t
<1>4. t[1] = e1 /\ t[2] = e2 /\ t[3] = e3
  BY <1>3
<1>5. t = <<e1, e2, e3>>
  BY <1>1, <1>3, <1>4
<1> QED BY <1>2, <1>5 DEF t

\* Below the last line there is nothing: one column or two further is the same.
LEMMA AdvancedOff ==
  ASSUME ConstantsAssumption, NEW at \in (0 .. (XResolution - 1)) \X Nat, at[2] < YResolution,
         OffBottom(Advance(at, 1))
  PROVE  Advance(at, 2) = Advance(at, 1)
<1>1. /\ XResolution \in Nat /\ YResolution \in Nat /\ GlyphWidth \in Nat /\ at[1] \in Nat /\ at[2] \in Nat
      /\ 1 * GlyphWidth = GlyphWidth /\ 2 * GlyphWidth = GlyphWidth + GlyphWidth
  BY Sizes
<1>2. at[1] + 1 * GlyphWidth >= XResolution
  BY <1>1 DEF Advance, OffBottom
<1>3. at[1] + 2 * GlyphWidth >= XResolution
  BY <1>1, <1>2
<1> QED BY <1>2, <1>3, Zenon DEF Advance

\* What the dump is before and after a byte.
LEMMA DumpBefore ==
  ASSUME ScreenInv, mode \in {"hex", "rhex"}, Aligned
  PROVE  /\ Dump(frame, shown) /\ cursor[1] % GlyphWidth = 0 /\ XResolution % GlyphWidth = 0
         /\ Open(shown, cursor) /\ (mode = "hex" => Clear(shown, cursor))
<1>1. call[1] \in {"sc_print_hex", "sc_print_rhex"}
  BY DEF ScreenInv, TextRuns
<1> QED BY <1>1 DEF ScreenInv, Dumped, FrameRight, Dump, Open, Aligned

\* Dumped in the next state, from what the frame and the cursor are there.
LEMMA DumpAfter ==
  ASSUME UNCHANGED <<setUpVars, call>>, mode \in {"hex", "rhex"}, mode' \in {mode, "done"},
         Aligned => /\ Dump(frame', shown')
                    /\ mode' = "hex" => cursor'[1] % GlyphWidth = 0 /\ Clear(shown', cursor')
                    /\ mode' = "rhex" => cursor'[1] % GlyphWidth = 0 /\ Open(shown', cursor')
  PROVE  Dumped'
<1>1. Aligned' => Aligned
  BY DEF Aligned
<1>2. Legible(frame', shown') => Legible(frame, shown)'
  BY DEF Legible, Reads, setUpVars
<1> QED BY <1>1, <1>2 DEF Dumped, Dump, Open, Clear, Ending, InColumns, Before

\* One byte of sc_print_rhex (lines 151-172): only a digit at the end of a line can
\* be covered.
LEMMA RhexStep ==
  ASSUME ConstantsAssumption, ScreenInv, RhexByte
  PROVE  ScreenInv'
<1> DEFINE b == Head(rest)
           next == Advance(cursor, 1)
           space == Advance(cursor, 2)
           e1 == <<cursor[1], cursor[2], hextoasc(b \div 16)>>
           e2 == <<next[1], next[2], hextoasc(b % 16)>>
<1>1. /\ SetUpRight /\ FrameRight /\ TextRuns /\ mode = "rhex" /\ rest # <<>>
      /\ UNCHANGED <<setUpVars, call>> /\ GoOn(space)
  BY DEF ScreenInv, RhexByte
<1>2. /\ cursor \in (0 .. (XResolution - 1)) \X Nat /\ cursor[2] < YResolution
      /\ rest \in Seq(0 .. 255) /\ call[1] = "sc_print_rhex"
  BY <1>1, Sizes DEF SetUpRight, TextRuns
<1>3. b \in 0 .. 255
  BY <1>1, <1>2, HeadTailProperties
<1>4. /\ next \in (0 .. (XResolution - 1)) \X Nat /\ space \in (0 .. (XResolution - 1)) \X Nat
  BY <1>2, Advanced
<1>5. IF OffBottom(next) THEN Put(<<e1>>) ELSE Put(<<e1, e2>>)
  BY DEF RhexByte, sc_print_byte
<1> HIDE DEF b, next, space
<1>6. e1 \in Places /\ (~OffBottom(next) => e2 \in Places)
  <2>1. hextoasc(b \div 16) \in DOMAIN FontFile /\ hextoasc(b % 16) \in DOMAIN FontFile
    BY <1>3, DigitsShown
  <2>2. ~OffBottom(cursor)
    BY <1>2, Sizes DEF OffBottom
  <2> QED BY <1>2, <1>4, <2>1, <2>2, PlaceAt
<1>7. /\ e1[1] = cursor[1] /\ e1[2] = cursor[2] /\ e1[3] = hextoasc(b \div 16)
      /\ e2[1] = next[1] /\ e2[2] = next[2] /\ e2[3] = hextoasc(b % 16)
  OBVIOUS
<1> HIDE DEF e1, e2
<1>8. /\ mode' \in {mode, "done"} /\ cursor' \in (0 .. (XResolution - 1)) \X Nat /\ cursor' = space
      /\ mode' = mode => cursor'[2] < YResolution /\ rest' = Tail(rest) /\ rest # <<>>
      /\ OffBottom(space) => mode' = "done"
  BY <1>1, <1>4, Went
<1>9. \E puts \in Seq(Places) : Len(puts) \in 1 .. 3 /\ Put(puts)
  <2>1. <<e1>> \in Seq(Places) /\ Len(<<e1>>) = 1
    BY <1>6
  <2>2. ~OffBottom(next) => <<e1, e2>> \in Seq(Places) /\ Len(<<e1, e2>>) = 2
    BY <1>6
  <2>3. CASE OffBottom(next)
    <3>1. 1 \in 1 .. 3
      OBVIOUS
    <3>2. Put(<<e1>>)
      BY <1>5, <2>3
    <3> QED BY <2>1, <3>1, <3>2, Zenon
  <2>4. CASE ~OffBottom(next)
    <3>1. 2 \in 1 .. 3
      OBVIOUS
    <3> QED BY <1>5, <2>2, <2>4, <3>1, Zenon
  <2> QED BY <2>3, <2>4
<1>10. SetUpRight' /\ FrameRight' /\ TextRuns' /\ StaysInside' /\ ShapesRight'
  BY <1>1, <1>8, <1>9, TextStep
<1>11. ASSUME Aligned
       PROVE  Dump(frame', shown') /\ (mode' = "rhex" => cursor'[1] % GlyphWidth = 0 /\ Open(shown', cursor'))
  <2>1. Dump(frame, shown) /\ cursor[1] % GlyphWidth = 0 /\ XResolution % GlyphWidth = 0 /\ Open(shown, cursor)
    BY <1>1, <1>11, DumpBefore
  <2>2. ColorsRight /\ space[1] % GlyphWidth = 0
    BY <1>1, <1>2, <2>1, ColorsOpaque, Advanced DEF space
  <2>3. CASE OffBottom(next)
    <3>1. frame' = sc_putch(frame, e1[1], e1[2], e1[3]) /\ Extends(shown, e1, shown')
      BY <1>1, <1>5, <1>6, <2>3, PutOne
    <3>2. Open(shown, e1) /\ e1[1] % GlyphWidth = 0
      BY <1>7, <2>1, SamePlace
    <3>3. Dump(frame', shown')
      BY <2>1, <2>2, <3>1, <3>2, DumpGrows
    <3>4. mode' = "done"
      BY <1>2, <1>8, <2>3, AdvancedOff DEF next, space
    <3> QED BY <3>3, <3>4
  <2>4. CASE ~OffBottom(next)
    <3>1. PICK s1, f1 : /\ Extends(shown, e1, s1) /\ Extends(s1, e2, shown')
                        /\ f1 = sc_putch(frame, e1[1], e1[2], e1[3])
                        /\ frame' = sc_putch(f1, e2[1], e2[2], e2[3])
      BY <1>1, <1>5, <1>6, <2>4, PutTwo
    <3>2. e2[1] = Advance(cursor, 1)[1] /\ e2[2] = Advance(cursor, 1)[2]
      BY <1>7 DEF next
    <3>3. /\ Dump(sc_putch(f1, e2[1], e2[2], e2[3]), shown')
          /\ Open(shown', Advance(cursor, 2))
      BY <1>2, <1>7, <2>1, <2>2, <3>1, <3>2, TwoDigits
    <3> QED BY <1>8, <2>2, <3>1, <3>3 DEF space
  <2> QED BY <2>3, <2>4
<1>12. Dumped'
  BY <1>1, <1>8, <1>11, DumpAfter
<1>13. Printed'
  BY <1>1, <1>2 DEF Printed
<1> QED BY <1>10, <1>12, <1>13 DEF ScreenInv

\* One byte of sc_print_hex (lines 124-149): the space may cover the second digit.
LEMMA HexStep ==
  ASSUME ConstantsAssumption, ScreenInv, HexByte
  PROVE  ScreenInv'
<1> DEFINE b == Head(rest)
           next == Advance(cursor, 1)
           space == Advance(cursor, 2)
           end == IF OffBottom(space) THEN space ELSE Advance(space, 1)
           e1 == <<cursor[1], cursor[2], hextoasc(b \div 16)>>
           e2 == <<next[1], next[2], hextoasc(b % 16)>>
           e3 == <<space[1], space[2], 32>>
<1>1. /\ SetUpRight /\ FrameRight /\ TextRuns /\ mode = "hex" /\ rest # <<>>
      /\ UNCHANGED <<setUpVars, call>> /\ GoOn(end)
  BY DEF ScreenInv, HexByte
<1>2. /\ cursor \in (0 .. (XResolution - 1)) \X Nat /\ cursor[2] < YResolution
      /\ rest \in Seq(0 .. 255) /\ call[1] = "sc_print_hex"
  BY <1>1, Sizes DEF SetUpRight, TextRuns
<1>3. b \in 0 .. 255
  BY <1>1, <1>2, HeadTailProperties
<1>4. /\ next \in (0 .. (XResolution - 1)) \X Nat /\ space \in (0 .. (XResolution - 1)) \X Nat
      /\ end \in (0 .. (XResolution - 1)) \X Nat
  <2>1. next \in (0 .. (XResolution - 1)) \X Nat /\ space \in (0 .. (XResolution - 1)) \X Nat
    BY <1>2, Advanced
  <2>2. Advance(space, 1) \in (0 .. (XResolution - 1)) \X Nat
    BY <2>1, Advanced
  <2> QED BY <2>1, <2>2
<1>5. OffBottom(next) => OffBottom(space)
  BY <1>2, AdvancedOff
<1>6. /\ OffBottom(next) => Put(<<e1>>)
      /\ ~OffBottom(next) /\ OffBottom(space) => Put(<<e1, e2>>)
      /\ ~OffBottom(next) /\ ~OffBottom(space) => Put(<<e1, e2, e3>>)
  <2>1. <<e1>> \o <<>> = <<e1>> /\ <<e1, e2>> \o <<>> = <<e1, e2>> /\ <<e1, e2>> \o <<e3>> = <<e1, e2, e3>>
    <3> HIDE DEF e1, e2, e3
    <3> QED BY Together
  <2>2. Put((IF OffBottom(next) THEN <<e1>> ELSE <<e1, e2>>) \o IF OffBottom(space) THEN <<>> ELSE <<e3>>)
    BY DEF HexByte, sc_print_byte, Blank
  <2> HIDE DEF e1, e2, e3
  <2> QED BY <1>5, <2>1, <2>2
<1> HIDE DEF b, next, space
<1>7. /\ e1 \in Places /\ (~OffBottom(next) => e2 \in Places) /\ (~OffBottom(space) => e3 \in Places)
  <2>1. hextoasc(b \div 16) \in DOMAIN FontFile /\ hextoasc(b % 16) \in DOMAIN FontFile
    BY <1>3, DigitsShown
  <2>2. ~OffBottom(cursor)
    BY <1>2, Sizes DEF OffBottom
  <2> QED BY <1>2, <1>4, <2>1, <2>2, PlaceAt, SpaceShown
<1>8. /\ e1[1] = cursor[1] /\ e1[2] = cursor[2] /\ e1[3] = hextoasc(b \div 16)
      /\ e2[1] = next[1] /\ e2[2] = next[2] /\ e2[3] = hextoasc(b % 16)
      /\ e3[1] = space[1] /\ e3[2] = space[2]
  OBVIOUS
<1> HIDE DEF e1, e2, e3
<1>9. /\ mode' \in {mode, "done"} /\ cursor' \in (0 .. (XResolution - 1)) \X Nat /\ cursor' = end
      /\ mode' = mode => cursor'[2] < YResolution /\ rest' = Tail(rest) /\ rest # <<>>
      /\ OffBottom(space) => mode' = "done"
  <2> HIDE DEF end
  <2>1. /\ mode' \in {mode, "done"} /\ cursor' \in (0 .. (XResolution - 1)) \X Nat /\ cursor' = end
        /\ mode' = mode => cursor'[2] < YResolution /\ rest' = Tail(rest) /\ rest # <<>>
        /\ OffBottom(end) => mode' = "done"
    BY <1>1, <1>4, Went
  <2> QED BY <2>1 DEF end
<1>10. \E puts \in Seq(Places) : Len(puts) \in 1 .. 3 /\ Put(puts)
  <2>1. <<e1>> \in Seq(Places) /\ Len(<<e1>>) = 1
    BY <1>7
  <2>2. ~OffBottom(next) => <<e1, e2>> \in Seq(Places) /\ Len(<<e1, e2>>) = 2
    BY <1>7
  <2>3. ~OffBottom(next) /\ ~OffBottom(space) => <<e1, e2, e3>> \in Seq(Places) /\ Len(<<e1, e2, e3>>) = 3
    BY <1>7
  <2>4. 1 \in 1 .. 3 /\ 2 \in 1 .. 3 /\ 3 \in 1 .. 3
    OBVIOUS
  <2>5. CASE OffBottom(next)
    BY <1>6, <2>1, <2>4, <2>5, Zenon
  <2>6. CASE ~OffBottom(next) /\ OffBottom(space)
    BY <1>6, <2>2, <2>4, <2>6, Zenon
  <2>7. CASE ~OffBottom(next) /\ ~OffBottom(space)
    BY <1>6, <2>3, <2>4, <2>7, Zenon
  <2> QED BY <2>5, <2>6, <2>7
<1>11. SetUpRight' /\ FrameRight' /\ TextRuns' /\ StaysInside' /\ ShapesRight'
  BY <1>1, <1>9, <1>10, TextStep
<1>12. ASSUME Aligned
       PROVE  Dump(frame', shown') /\ (mode' = "hex" => cursor'[1] % GlyphWidth = 0 /\ Clear(shown', cursor'))
  <2>1. Dump(frame, shown) /\ cursor[1] % GlyphWidth = 0 /\ XResolution % GlyphWidth = 0 /\ Open(shown, cursor)
    BY <1>1, <1>12, DumpBefore
  <2>2. ColorsRight /\ space[1] % GlyphWidth = 0
    BY <1>1, <1>2, <2>1, ColorsOpaque, Advanced DEF space
  <2>3. CASE OffBottom(next)
    <3>1. frame' = sc_putch(frame, e1[1], e1[2], e1[3]) /\ Extends(shown, e1, shown')
      BY <1>1, <1>6, <1>7, <2>3, PutOne
    <3>2. Open(shown, e1) /\ e1[1] % GlyphWidth = 0
      BY <1>8, <2>1, SamePlace
    <3>3. Dump(frame', shown')
      BY <2>1, <2>2, <3>1, <3>2, DumpGrows
    <3> QED BY <1>5, <1>9, <2>3, <3>3
  <2>4. ASSUME ~OffBottom(next), NEW s1, NEW s2, NEW f1, NEW f2,
               Extends(shown, e1, s1), Extends(s1, e2, s2), f1 = sc_putch(frame, e1[1], e1[2], e1[3]),
               f2 = sc_putch(f1, e2[1], e2[2], e2[3])
        PROVE  Dump(f2, s2) /\ Open(s2, space)
    <3>1. e2[1] = Advance(cursor, 1)[1] /\ e2[2] = Advance(cursor, 1)[2]
      BY <1>8 DEF next
    <3>2. /\ Dump(sc_putch(f1, e2[1], e2[2], e2[3]), s2)
          /\ Open(s2, Advance(cursor, 2))
      BY <1>2, <1>8, <2>1, <2>2, <2>4, <3>1, TwoDigits
    <3> QED BY <2>4, <3>2 DEF space
  <2>5. CASE ~OffBottom(next) /\ OffBottom(space)
    <3>1. PICK s1, f1 : /\ Extends(shown, e1, s1) /\ Extends(s1, e2, shown')
                        /\ f1 = sc_putch(frame, e1[1], e1[2], e1[3])
                        /\ frame' = sc_putch(f1, e2[1], e2[2], e2[3])
      BY <1>1, <1>6, <1>7, <2>5, PutTwo
    <3>2. Dump(frame', shown')
      BY <2>4, <2>5, <3>1
    <3> QED BY <1>9, <2>5, <3>2
  <2>6. CASE ~OffBottom(next) /\ ~OffBottom(space)
    <3>1. PICK s1, s2, f1, f2 :
            /\ Extends(shown, e1, s1) /\ Extends(s1, e2, s2) /\ Extends(s2, e3, shown')
            /\ f1 = sc_putch(frame, e1[1], e1[2], e1[3])
            /\ f2 = sc_putch(f1, e2[1], e2[2], e2[3])
            /\ frame' = sc_putch(f2, e3[1], e3[2], e3[3])
      BY <1>1, <1>6, <1>7, <2>6, PutThree
    <3>2. Dump(f2, s2) /\ Open(s2, space)
      BY <2>4, <2>6, <3>1
    <3>3. Open(s2, e3) /\ e3[1] % GlyphWidth = 0
      BY <1>8, <2>2, <3>2, SamePlace
    <3>4. Dump(frame', shown')
      BY <2>1, <2>2, <3>1, <3>2, <3>3, DumpGrows
    <3>5. cursor' = Advance(space, 1)
      BY <1>9, <2>6
    <3>6. PICK q : q = Advance(space, 1)
      OBVIOUS
    <3>7. q[1] % GlyphWidth = 0 /\ Before(space, q) /\ q[1] \in Nat /\ q[2] \in Nat
      BY <1>4, <2>1, <2>2, <3>6, Advanced
    <3>8. Before(e3, q)
      BY <1>8, <3>7 DEF Before
    <3>9. Clear(shown', q)
      BY <3>1, <3>3, <3>7, <3>8, ClearBehind DEF Open
    <3> QED BY <3>4, <3>5, <3>6, <3>7, <3>9
  <2> QED BY <2>3, <2>5, <2>6
<1>13. Dumped'
  BY <1>1, <1>9, <1>12, DumpAfter
<1>14. Printed'
  BY <1>1, <1>2 DEF Printed
<1> QED BY <1>11, <1>13, <1>14 DEF ScreenInv

------------------------------------------------------------------------------
\* The other steps.

\* The invariant holds before the driver is set up.
LEMMA ScreenInit ==
  ASSUME ConstantsAssumption, Init
  PROVE  ScreenInv
<1>1. /\ frame = <<>> /\ shown = <<>> /\ mode = "off" /\ cursor = <<0, 0>>
      /\ foreground_color = Black /\ background_color = Black
      /\ DOMAIN font = DOMAIN FontFile
  BY DEF Init
<1>2. Black \in PixelValues
  BY DEF Black, PixelValues
<1>3. SetUpRight
  <2>1. <<0, 0>> \in (0 .. (XResolution - 1)) \X Nat
    BY Sizes
  <2> QED BY <1>1, <1>2, <2>1 DEF SetUpRight
<1>4. FrameRight /\ TextRuns /\ Printed /\ Dumped
  BY <1>1, NoPixels DEF FrameRight, TextRuns, Printed, Dumped
<1>5. StaysInside
  BY <1>1, NoPixels DEF StaysInside
<1>6. \A name : ~Done(name)
  BY <1>1 DEF Done
<1>7. RectanglesExact /\ LineStraight /\ ImagesUpright /\ BlendBetween
  BY <1>6, Zenon DEF RectanglesExact, LineStraight, ImagesUpright, BlendBetween
<1> QED BY <1>3, <1>4, <1>5, <1>7 DEF ScreenInv, ShapesRight

\* A step without text and shapes.
LEMMA SetUpStep ==
  ASSUME ConstantsAssumption, ScreenInv, mode \in {"off", "ready"}, mode' = "ready",
         UNCHANGED <<frame, textVars, call>>, font' \in {font, FontFile},
         foreground_color' \in Colors, background_color' \in Colors,
         foreground_color' # background_color'
  PROVE  ScreenInv'
<1>1. /\ SetUpRight /\ FrameRight /\ frame = <<>> /\ shown = <<>>
      /\ frame' = <<>> /\ shown' = <<>> /\ cursor' = cursor
  BY DEF ScreenInv, SetUpRight, textVars
<1>2. SetUpRight'
  <2>1. Colors \subseteq PixelValues
    BY DEF ConstantsAssumption
  <2> QED BY <1>1, <2>1 DEF SetUpRight
<1>3. FrameRight' /\ TextRuns' /\ Printed' /\ Dumped'
  BY <1>1, NoPixels DEF FrameRight, Pixels, TextRuns, Printed, Dumped
<1>4. StaysInside'
  BY <1>1, NoPixels DEF StaysInside
<1>5. ShapesRight'
  BY NoShape
<1> QED BY <1>2, <1>3, <1>4, <1>5 DEF ScreenInv

\* A text is begun (lines 69, 124, 151).
LEMMA StartStep ==
  ASSUME ConstantsAssumption, ScreenInv, NEW at \in Corners, NEW name, NEW kind, NEW text,
         StartText(name, kind, at, text),
         \/ name = "sc_print" /\ kind = "print" /\ text \in Strings
         \/ name = "sc_print_hex" /\ kind = "hex" /\ text \in Seq(0 .. 255)
         \/ name = "sc_print_rhex" /\ kind = "rhex" /\ text \in Seq(0 .. 255)
  PROVE  ScreenInv'
<1>1. /\ SetUpRight /\ FrameRight /\ mode = "ready" /\ frame = <<>> /\ shown = <<>>
      /\ frame' = <<>> /\ shown' = <<>> /\ UNCHANGED setUpVars
      /\ mode' = kind /\ cursor' = at /\ rest' = text
      /\ call'[1] = name /\ call'[2] = at /\ call'[3] = text
  BY DEF ScreenInv, SetUpRight, StartText
<1>2. at \in (0 .. (XResolution - 1)) \X (0 .. (YResolution - 1))
  BY DEF ConstantsAssumption
<1>3. at \in (0 .. (XResolution - 1)) \X Nat /\ at[2] < YResolution
  BY <1>2, Sizes
<1>4. SetUpRight'
  BY <1>1, <1>3 DEF SetUpRight, setUpVars
<1>5. FrameRight'
  BY <1>1, NoPixels DEF FrameRight, Pixels
<1>6. DOMAIN <<>> = {}
  BY NoPixels
<1>7. TextRuns'
  BY <1>1, <1>3, <1>6, TextsTyped DEF TextRuns
<1>8. StaysInside'
  BY <1>1, <1>6 DEF StaysInside
<1>9. ShapesRight'
  BY <1>1, NoShape
<1>10. Printed'
  <2>1. CASE name = "sc_print" /\ kind = "print" /\ text \in Strings
    <3>1. Aligned' => at[1] % GlyphWidth = 0
      BY <1>1 DEF Aligned
    <3>2. text \in Seq(DOMAIN FontFile) /\ Len(text) \in Nat
      BY <2>1, TextsTyped
    <3>3. Visible(text, 0) = 0
      <4>1. {j \in 1 .. 0 : text[j] # 10} = {}
        OBVIOUS
      <4> QED BY <4>1, FS_EmptySet DEF Visible
    <3>4. Progress(0)'
      <4>1. /\ Len(shown') = Visible(call'[3], 0) /\ mode' # "done"
            /\ Len(rest') = Len(call'[3]) - 0
            /\ \A i \in 1 .. Len(rest') : rest'[i] = call'[3][0 + i]
        BY <1>1, <2>1, <3>2, <3>3, NoPixels
      <4>2. 1 .. 0 = {}
        OBVIOUS
      <4> QED BY <4>1, <4>2 DEF Progress
    <3>5. 0 \in 0 .. Len(call'[3])
      BY <1>1, <3>2
    <3> QED BY <1>1, <1>6, <2>1, <3>1, <3>4, <3>5 DEF Printed, InColumns, Clear
  <2>2. CASE name # "sc_print"
    BY <1>1, <2>2 DEF Printed
  <2> QED BY <2>1, <2>2
<1>11. Dumped'
  <2>1. Aligned' => at[1] % GlyphWidth = 0
    BY <1>1 DEF Aligned
  <2> QED BY <1>1, <1>6, <2>1 DEF Dumped, InColumns, Legible, Clear
<1> QED BY <1>4, <1>5, <1>7, <1>8, <1>9, <1>10, <1>11 DEF ScreenInv

\* A text has no characters left.
LEMMA EndStep ==
  ASSUME ConstantsAssumption, ScreenInv, EndText
  PROVE  ScreenInv'
<1>1. /\ SetUpRight /\ FrameRight /\ TextRuns /\ mode \in {"print", "hex", "rhex"} /\ mode' = "done"
      /\ UNCHANGED <<frame, font, foreground_color, background_color, cursor, rest, shown, call>>
      /\ rest = <<>> /\ UNCHANGED setUpVars
  BY DEF ScreenInv, EndText, setUpVars, textVars
<1>2. SetUpRight' /\ FrameRight' /\ TextRuns'
  BY <1>1 DEF SetUpRight, FrameRight, Pixels, TextRuns
<1>3. StaysInside'
  BY <1>1 DEF ScreenInv, StaysInside, OnScreen, BorderFits
<1>4. ShapesRight'
  <2>1. call'[1] \in {"sc_print", "sc_print_hex", "sc_print_rhex"}
    BY <1>1 DEF TextRuns
  <2> QED BY <2>1, NoShape
<1>5. Aligned' => Aligned
  BY <1>1 DEF Aligned
<1>6. \A i : Reads(frame, shown[i])' <=> Reads(frame, shown[i])
  BY <1>1 DEF Reads
<1>7. Printed'
  <2> SUFFICES ASSUME call[1] = "sc_print", Aligned, Plain'
               PROVE  /\ InColumns(shown)' /\ \A i \in DOMAIN shown : Reads(frame, shown[i])
                      /\ call[3] \in Strings /\ \E n \in 0 .. Len(call[3]) : Progress(n)'
    BY <1>1, <1>5, <1>6 DEF Printed
  <2>1. mode = "print" /\ Plain
    BY <1>1 DEF TextRuns, Plain
  <2>2. /\ InColumns(shown) /\ \A i \in DOMAIN shown : Reads(frame, shown[i])
        /\ call[3] \in Strings /\ \E n \in 0 .. Len(call[3]) : Progress(n)
    BY <2>1 DEF ScreenInv, Printed
  <2>3. PICK n \in 0 .. Len(call[3]) : Progress(n)
    BY <2>2
  <2>4. n = Len(call[3])
    <3>1. Len(rest) = Len(call[3]) - n /\ Len(rest) = 0
      BY <1>1, <2>1, <2>3, NoPixels DEF Progress
    <3>2. Len(call[3]) \in Nat
      BY <2>2, TextsTyped
    <3> QED BY <3>1, <3>2
  <2>5. Progress(n)'
    BY <1>1, <2>3, <2>4 DEF Progress
  <2> QED BY <1>1, <2>2, <2>5 DEF InColumns
<1>8. Dumped'
  BY <1>1, <1>5, <1>6 DEF ScreenInv, TextRuns, Dumped, InColumns, Legible
<1> QED BY <1>2, <1>3, <1>4, <1>7, <1>8 DEF ScreenInv

------------------------------------------------------------------------------
\* What the invariant says of texts that are done.

\* The invariant implies the types.
LEMMA IsTyped ==
  ASSUME ScreenInv
  PROVE  TypeOK
<1>1. /\ SetUpRight /\ FrameRight
  BY DEF ScreenInv
<1>2. \A i \in DOMAIN shown : shown[i][3] \in DOMAIN font
  <2>1. \A i \in DOMAIN shown : shown[i] \in Places
    BY <1>1 DEF FrameRight
  <2> QED BY <1>1, <2>1, PlaceIs DEF SetUpRight
<1> QED BY <1>1, <1>2 DEF SetUpRight, FrameRight, Pixels, TypeOK

\* What reads is readable.
LEMMA ReadsReadable ==
  ASSUME NEW p, Reads(frame, p)
  PROVE  Readable(p)
BY DEF Reads, Readable

\* A text that is done is one that all characters of the string were visited of.
LEMMA IsTextReadable ==
  ASSUME ScreenInv, ConstantsAssumption
  PROVE  TextReadable
<1> SUFFICES ASSUME Done("sc_print"), Aligned, Plain
             PROVE  /\ \A i \in DOMAIN shown : Readable(shown[i])
                    /\ \A k \in DOMAIN call[3] : call[3][k] # 10 /\ Visible(call[3], k) <= Len(shown) =>
                         shown[Visible(call[3], k)][3] = call[3][k]
                    /\ \/ Len(shown) = Visible(call[3], Len(call[3]))
                       \/ Len(shown) < Visible(call[3], Len(call[3])) /\ OffBottom(cursor)
  BY Zenon DEF TextReadable, Plain, Visible
<1>1. /\ \A i \in DOMAIN shown : Reads(frame, shown[i])
      /\ call[3] \in Strings /\ \E n \in 0 .. Len(call[3]) : Progress(n)
  BY DEF ScreenInv, Printed, Done
<1>2. PICK n \in 0 .. Len(call[3]) : Progress(n)
  BY <1>1
<1>3. call[3] \in Seq(DOMAIN FontFile) /\ Len(call[3]) \in Nat /\ DOMAIN call[3] = 1 .. Len(call[3])
  BY <1>1, TextsTyped
<1>4. /\ Len(shown) = Visible(call[3], n)
      /\ \A k \in 1 .. n : call[3][k] # 10 => shown[Visible(call[3], k)][3] = call[3][k]
      /\ n = Len(call[3]) \/ OffBottom(cursor)
  BY <1>2 DEF Progress, Done
<1>5. ASSUME NEW k \in DOMAIN call[3], call[3][k] # 10, Visible(call[3], k) <= Len(shown)
      PROVE  shown[Visible(call[3], k)][3] = call[3][k]
  <2>1. k \in Nat \ {0} /\ n \in Nat
    BY <1>3
  <2>2. k \in 1 .. n
    <3>1. ASSUME n < k
          PROVE  FALSE
      <4>1. /\ Visible(call[3], k) \in Nat /\ Visible(call[3], n) \in Nat
            /\ Visible(call[3], n) < Visible(call[3], k)
        BY <1>5, <2>1, <3>1, VisiblePlace, VisibleNext
      <4> QED BY <1>4, <1>5, <4>1
    <3> QED BY <2>1, <3>1
  <2> QED BY <1>4, <1>5, <2>2
<1>6. \/ Len(shown) = Visible(call[3], Len(call[3]))
      \/ Len(shown) < Visible(call[3], Len(call[3])) /\ OffBottom(cursor)
  <2>1. CASE n = Len(call[3])
    BY <1>4, <2>1
  <2>2. CASE OffBottom(cursor)
    <3>1. n \in Nat /\ n <= Len(call[3])
      BY <1>3
    <3>2. /\ Visible(call[3], n) <= Visible(call[3], Len(call[3]))
          /\ Visible(call[3], n) \in Nat /\ Visible(call[3], Len(call[3])) \in Nat
      BY <1>3, <3>1, VisibleGrows, VisibleNext
    <3> QED BY <1>4, <2>2, <3>2
  <2> QED BY <1>4, <2>1, <2>2
<1>7. \A i \in DOMAIN shown : Readable(shown[i])
  BY <1>1, ReadsReadable
<1> QED BY <1>5, <1>6, <1>7

\* A dump that is done: only digits that something else went over are lost.
LEMMA IsDumpReadable ==
  ASSUME ScreenInv, ConstantsAssumption
  PROVE  DumpReadable
<1> SUFFICES ASSUME Done("sc_print_hex") \/ Done("sc_print_rhex"), Aligned, NEW i \in DOMAIN shown
             PROVE  /\ Straddles(i) /\ ~Alike(shown[i], shown[i + 1]) => ~Readable(shown[i])
                    /\ ~Straddles(i) => Readable(shown[i])
  BY Zenon DEF DumpReadable
<1>1. Legible(frame, shown) /\ mode = "done"
  BY DEF ScreenInv, Dumped, Done
<1>2. foreground_color # background_color /\ shown \in Seq(Places) /\ DOMAIN shown = 1 .. Len(shown)
  BY <1>1 DEF ScreenInv, SetUpRight, FrameRight
<1>3. Straddles(i) <=> Covered(shown, i)
  BY Zenon DEF Straddles, Covered
<1>4. ASSUME ~Straddles(i)
      PROVE  Readable(shown[i])
  BY <1>1, <1>3, <1>4, ReadsReadable DEF Legible
<1>5. ASSUME Straddles(i), ~Alike(shown[i], shown[i + 1]), Readable(shown[i])
      PROVE  FALSE
  <2>1. /\ i + 1 \in DOMAIN shown /\ i \in Nat
        /\ shown[i + 1][1] = shown[i][1] /\ shown[i + 1][2] = shown[i][2]
    BY <1>2, <1>5 DEF Straddles
  <2>2. shown[i] \in Places
    BY <1>2
  <2>3. shown[i][2] \in Nat
    BY <2>2, PlaceIs
  <2>4. ~Covered(shown, i + 1)
    <3>1. (i + 1) - 1 = i
      BY <2>1
    <3>2. shown[i][2] # shown[i][2] + GlyphHeight
      BY <2>3, Sizes
    <3> QED BY <2>1, <3>1, <3>2 DEF Covered
  <2>5. Reads(frame, shown[i + 1])
    BY <1>1, <2>1, <2>4 DEF Legible
  <2>6. PICK l \in 0 .. (GlyphHeight - 1), r \in 0 .. (GlyphWidth - 1) :
          /\ InBuffer(Offset(shown[i][1] + r, shown[i][2] + l))
          /\ ~(<<l, r>> \in font[shown[i][3]] <=> <<l, r>> \in font[shown[i + 1][3]])
    BY <1>5 DEF Alike
  <2>7. PICK o : o = Offset(shown[i][1] + r, shown[i][2] + l)
    OBVIOUS
  <2>8. frame[o] = IF <<l, r>> \in font[shown[i + 1][3]] THEN foreground_color ELSE background_color
    BY <2>1, <2>5, <2>6, <2>7 DEF Reads
  <2>9. frame[o] = IF <<l, r>> \in font[shown[i][3]] THEN foreground_color ELSE background_color
    BY <1>5, <2>6, <2>7 DEF Readable
  <2> QED BY <1>2, <2>6, <2>8, <2>9
<1> QED BY <1>4, <1>5

------------------------------------------------------------------------------
\* Shapes.

\* A shape is drawn: everything but its form.
LEMMA ShapeStep ==
  ASSUME ConstantsAssumption, ScreenInv, NEW made, NEW f, Draw(made, f),
         made[1] \notin {"sc_print", "sc_print_hex", "sc_print_rhex"},
         Pixels(f), DOMAIN f \subseteq OnScreen
                      \/ (made[1] = "sc_box" /\ ~BorderFits(made[2], made[3], made[4])),
         ShapesRight'
  PROVE  ScreenInv'
<1>1. /\ SetUpRight /\ FrameRight /\ mode = "ready" /\ mode' = "done" /\ frame' = f /\ call' = made
      /\ UNCHANGED <<font, foreground_color, background_color, cursor, rest, shown>>
  BY DEF ScreenInv, Draw, setUpVars, textVars
<1>2. SetUpRight'
  BY <1>1 DEF SetUpRight
<1>3. FrameRight'
  BY <1>1 DEF FrameRight, Pixels
<1>4. TextRuns' /\ Printed' /\ Dumped'
  BY <1>1 DEF TextRuns, Printed, Dumped
<1>5. StaysInside'
  BY <1>1 DEF StaysInside, OnScreen, BorderFits
<1> QED BY <1>2, <1>3, <1>4, <1>5 DEF ScreenInv

\* Which shape it is.
LEMMA OneShape ==
  ASSUME NEW made, NEW f, Draw(made, f)
  PROVE  /\ mode' = "done" /\ call' = made /\ frame' = f
         /\ UNCHANGED <<font, foreground_color, background_color, shown>>
         /\ made[1] \notin {"sc_clear", "sc_fill", "sc_box"} => RectanglesExact'
         /\ made[1] # "sc_line" => LineStraight'
         /\ made[1] \notin {"sc_putimg", "sc_putimg_masked"} => ImagesUpright'
         /\ made[1] # "sc_setpixel" => BlendBetween'
<1>1. /\ mode' = "done" /\ call' = made /\ frame' = f
      /\ UNCHANGED <<font, foreground_color, background_color, shown>>
  BY DEF Draw, setUpVars, textVars
<1>2. \A name : Done(name)' => made[1] = name
  BY <1>1 DEF Done
<1>3. made[1] \notin {"sc_clear", "sc_fill", "sc_box"} =>
        ~Done("sc_clear")' /\ ~Done("sc_fill")' /\ ~Done("sc_box")'
  BY <1>2
<1>4. made[1] \notin {"sc_putimg", "sc_putimg_masked"} => ~Done("sc_putimg")' /\ ~Done("sc_putimg_masked")'
  BY <1>2
<1>5. made[1] # "sc_line" => ~Done("sc_line")'
  BY <1>2
<1>6. made[1] # "sc_setpixel" => ~Done("sc_setpixel")'
  BY <1>2
<1>7. made[1] \notin {"sc_clear", "sc_fill", "sc_box"} => RectanglesExact'
  BY <1>3, Zenon DEF RectanglesExact
<1>8. made[1] # "sc_line" => LineStraight'
  BY <1>5, Zenon DEF LineStraight
<1>9. made[1] \notin {"sc_putimg", "sc_putimg_masked"} => ImagesUpright'
  BY <1>4, Zenon DEF ImagesUpright
<1>10. made[1] # "sc_setpixel" => BlendBetween'
  BY <1>6, Zenon DEF BlendBetween
<1> QED BY <1>1, <1>7, <1>8, <1>9, <1>10

\* Before a shape is drawn there is nothing.
LEMMA Nothing ==
  ASSUME ConstantsAssumption, ScreenInv, mode = "ready"
  PROVE  /\ DOMAIN frame = {} /\ Pixels(frame) /\ ColorsRight
         /\ foreground_color \in Colors /\ background_color \in Colors
<1>1. SetUpRight /\ frame = <<>> /\ foreground_color \in Colors /\ background_color \in Colors
  BY DEF ScreenInv, SetUpRight
<1> QED BY <1>1, NoPixels, ColorsOpaque

\* Colours are opaque pixels.
LEMMA ColorTyped ==
  ASSUME ConstantsAssumption, NEW c \in Colors
  PROVE  c \in PixelValues /\ Opaque(c)
BY DEF ConstantsAssumption, Opaque

\* The values to be blended are pixels that are not opaque.
LEMMA MixedTyped ==
  ASSUME ConstantsAssumption, NEW c \in Mixed
  PROVE  c \in PixelValues /\ ~Opaque(c)
<1>1. c \in PixelValues /\ c.blue < 255
  BY DEF ConstantsAssumption
<1> QED BY <1>1 DEF Opaque, PixelValues

\* Corners are on the screen.
LEMMA CornerTyped ==
  ASSUME ConstantsAssumption, NEW p \in Corners
  PROVE  p[1] \in 0 .. (XResolution - 1) /\ p[2] \in 0 .. (YResolution - 1) /\ p[1] \in Nat /\ p[2] \in Nat
<1>1. p \in (0 .. (XResolution - 1)) \X (0 .. (YResolution - 1))
  BY DEF ConstantsAssumption
<1> QED BY <1>1, Sizes

\* A rectangle filled: its pixels are added (lines 205-216).
LEMMA Filled ==
  ASSUME NEW f, NEW color \in PixelValues,
         NEW x1 \in Nat, NEW y1 \in Nat, NEW x2 \in Int, NEW y2 \in Int,
         ConstantsAssumption, Pixels(f)
  PROVE  Pixels(Fill(f, x1, y1, x2, y2, color))
<1> DEFINE values == [o \in Area(x1, y1, x2, y2) |-> color]
<1>1. Fill(f, x1, y1, x2, y2, color) = Paint(f, values)
  BY DEF Fill, Area
<1>2. \A o \in Area(x1, y1, x2, y2) : o \in Nat
  <2>1. \A x \in x1 .. x2, y \in y1 .. y2 : x \in Nat /\ y \in Nat
    OBVIOUS
  <2> SUFFICES ASSUME NEW x \in x1 .. x2, NEW y \in y1 .. y2
               PROVE  Offset(x, y) \in Nat
    BY DEF Area
  <2> QED BY <2>1, OffsetsTyped
<1>3. Pixels(values)
  BY <1>2 DEF Pixels
<1>4. DOMAIN values = Area(x1, y1, x2, y2)
  OBVIOUS
<1> HIDE DEF values
<1> QED BY <1>1, <1>3, <1>4, PaintedPixels

\* A filled rectangle is drawn in addition to what was.
LEMMA FilledWhere ==
  ASSUME NEW f, NEW color, NEW x1, NEW y1, NEW x2, NEW y2
  PROVE  DOMAIN Fill(f, x1, y1, x2, y2, color) = DOMAIN f \cup Area(x1, y1, x2, y2)
<1> DEFINE values == [o \in Area(x1, y1, x2, y2) |-> color]
<1>1. Fill(f, x1, y1, x2, y2, color) = Paint(f, values)
  BY DEF Fill, Area
<1>2. DOMAIN values = Area(x1, y1, x2, y2)
  OBVIOUS
<1> HIDE DEF values
<1> QED BY <1>1, <1>2, PaintedWhere

\* A call of sc_fill keeps the invariant (lines 210-217).
LEMMA FillStep ==
  ASSUME ConstantsAssumption, ScreenInv, NEW from \in Corners, NEW to \in Corners, NEW c \in Colors,
         sc_fill(from, to, c)
  PROVE  ScreenInv'
<1> DEFINE made == <<"sc_fill", from, to, c>>
           f == Fill(frame, from[1], from[2], to[1], to[2], c)
<1>1. Draw(made, f) /\ mode = "ready"
  BY DEF sc_fill, Draw
<1>2. made[1] = "sc_fill" /\ made[2] = from /\ made[3] = to
  OBVIOUS
<1> HIDE DEF made
<1>3. PICK x1 \in 0 .. (XResolution - 1), y1 \in 0 .. (YResolution - 1),
           x2 \in 0 .. (XResolution - 1), y2 \in 0 .. (YResolution - 1) :
        x1 = from[1] /\ y1 = from[2] /\ x2 = to[1] /\ y2 = to[2]
  BY CornerTyped
<1>4. /\ Pixels(f) /\ DOMAIN f = Area(x1, y1, x2, y2)
  <2>1. x1 \in Nat /\ y1 \in Nat /\ x2 \in Int /\ y2 \in Int
    BY Sizes
  <2>2. DOMAIN frame = {} /\ Pixels(frame) /\ c \in PixelValues
    BY <1>1, Nothing, ColorTyped
  <2>3. f = Fill(frame, x1, y1, x2, y2, c)
    BY <1>3
  <2> HIDE DEF f
  <2>4. Pixels(f)
    BY <2>1, <2>2, <2>3, Filled
  <2>5. DOMAIN f = DOMAIN frame \cup Area(x1, y1, x2, y2)
    BY <2>3, FilledWhere
  <2> QED BY <2>2, <2>4, <2>5
<1>5. Area(x1, y1, x2, y2) \subseteq OnScreen
  BY Sizes DEF Area, OnScreen
<1> HIDE DEF f
<1>6. RectanglesExact'
  <2>1. Done("sc_fill")' /\ ~Done("sc_clear")' /\ ~Done("sc_box")'
    BY <1>1, <1>2, OneShape DEF Done
  <2>2. DOMAIN frame' = Area(call'[2][1], call'[2][2], call'[3][1], call'[3][2])
    BY <1>1, <1>2, <1>3, <1>4, OneShape
  <2> QED BY <2>1, <2>2, Zenon DEF RectanglesExact
<1>7. ShapesRight'
  BY <1>1, <1>2, <1>6, OneShape DEF ShapesRight
<1> QED BY <1>1, <1>2, <1>4, <1>5, <1>7, ShapeStep

\* A call of sc_clear keeps the invariant (lines 205-208).
LEMMA ClearStep ==
  ASSUME ConstantsAssumption, ScreenInv, sc_clear
  PROVE  ScreenInv'
<1> DEFINE made == <<"sc_clear">>
           f == Fill(frame, 0, 0, XResolution - 1, YResolution - 1, background_color)
<1>1. Draw(made, f) /\ mode = "ready"
  BY DEF sc_clear, Draw
<1>2. made[1] = "sc_clear"
  OBVIOUS
<1> HIDE DEF made
<1>3. Pixels(f) /\ DOMAIN f = OnScreen
  <2>1. 0 \in Nat /\ XResolution - 1 \in Int /\ YResolution - 1 \in Int
    BY Sizes
  <2>2. DOMAIN f = DOMAIN frame \cup Area(0, 0, XResolution - 1, YResolution - 1)
    BY FilledWhere
  <2>4. Pixels(f)
    <3>1. Pixels(frame) /\ background_color \in PixelValues
      BY <1>1, Nothing, ColorTyped
    <3> QED BY <2>1, <3>1, Filled
  <2>3. Area(0, 0, XResolution - 1, YResolution - 1) = OnScreen
    BY DEF Area, OnScreen
  <2> HIDE DEF f
  <2> QED BY <1>1, <2>2, <2>3, <2>4, Nothing
<1> HIDE DEF f
<1>4. RectanglesExact'
  <2>1. Done("sc_clear")' /\ ~Done("sc_fill")' /\ ~Done("sc_box")'
    BY <1>1, <1>2, OneShape DEF Done
  <2>2. DOMAIN frame' = OnScreen
    BY <1>1, <1>3, OneShape
  <2> QED BY <2>1, <2>2, Zenon DEF RectanglesExact
<1>5. ShapesRight'
  BY <1>1, <1>2, <1>4, OneShape DEF ShapesRight
<1> QED BY <1>1, <1>2, <1>3, <1>5, ShapeStep

\* The least and the greatest of two numbers.
LEMMA LeastOfTwo ==
  ASSUME NEW x \in Int, NEW y \in Int
  PROVE  /\ Min({x, y}) \in {x, y} /\ Min({x, y}) <= x /\ Min({x, y}) <= y
         /\ Max({x, y}) \in {x, y} /\ x <= Max({x, y}) /\ y <= Max({x, y})
<1>1. \E m \in {x, y} : \A k \in {x, y} : m <= k
  OBVIOUS
<1>2. \E m \in {x, y} : \A k \in {x, y} : m >= k
  OBVIOUS
<1>3. Min({x, y}) \in {x, y} /\ \A k \in {x, y} : Min({x, y}) <= k
  BY <1>1, Zenon DEF Min
<1>4. Max({x, y}) \in {x, y} /\ \A k \in {x, y} : Max({x, y}) >= k
  BY <1>2, Zenon DEF Max
<1> QED BY <1>3, <1>4

\* A pixel is set, and set again to a value that is not opaque (lines 56-67).
LEMMA PixelStep ==
  ASSUME ConstantsAssumption, ScreenInv, NEW under \in Colors \cup Mixed, NEW c \in Mixed,
         SetPixelTwice(<<0, 0>>, under, c)
  PROVE  ScreenInv'
<1> DEFINE at == <<0, 0>>
           o == Offset(at[1], at[2])
           first == [x \in {o} |-> under]
           second == [x \in {o} |-> c]
           g == Paint(frame, first)
           f == Paint(g, second)
           made == <<"sc_setpixel", at, under, c>>
<1>1. Draw(made, f) /\ mode = "ready"
  BY DEF SetPixelTwice, Draw
<1>2. made[1] = "sc_setpixel" /\ made[2] = at /\ made[3] = under /\ made[4] = c
  OBVIOUS
<1>3. under \in PixelValues /\ c \in PixelValues /\ ~Opaque(c)
  BY ColorTyped, MixedTyped
<1>4. o \in Nat /\ o \in OnScreen
  <2>1. o = Offset(0, 0) /\ 0 \in Nat /\ 0 \in 0 .. (XResolution - 1) /\ 0 \in 0 .. (YResolution - 1)
    BY Sizes
  <2> QED BY <2>1, OffsetsTyped DEF OnScreen
<1> HIDE DEF made, o
<1>5. DOMAIN first = {o} /\ DOMAIN second = {o} /\ first[o] = under /\ second[o] = c
  OBVIOUS
<1>6. Pixels(first) /\ Pixels(second)
  BY <1>3, <1>4 DEF Pixels
<1> HIDE DEF first, second
<1>7. Pixels(frame) /\ DOMAIN frame = {}
  BY <1>1, Nothing
<1>8. Pixels(g)
  BY <1>6, <1>7, PaintedPixels
<1>9. DOMAIN g = {o}
  <2>1. DOMAIN g = DOMAIN frame \cup DOMAIN first
    BY PaintedWhere
  <2> QED BY <1>5, <1>7, <2>1
<1>10. g[o] = sc_setpixel(Black, under)
  <2>1. Pixel(frame, o) = Black
    BY <1>7 DEF Pixel
  <2>2. g[o] = sc_setpixel(Pixel(frame, o), first[o])
    BY <1>5, PaintedSet
  <2> QED BY <1>5, <2>1, <2>2
<1>11. g[o] \in PixelValues
  BY <1>8, <1>9 DEF Pixels
<1> HIDE DEF g
<1>12. Pixels(f)
  BY <1>6, <1>8, PaintedPixels
<1>13. DOMAIN f = {o}
  <2>1. DOMAIN f = DOMAIN g \cup DOMAIN second
    BY PaintedWhere
  <2> QED BY <1>5, <1>9, <2>1
<1>14. f[o] = sc_setpixel(g[o], c)
  <2>1. Pixel(g, o) = g[o]
    BY <1>9 DEF Pixel
  <2>2. f[o] = sc_setpixel(Pixel(g, o), second[o])
    BY <1>5, PaintedSet
  <2> QED BY <1>5, <2>1, <2>2
<1> HIDE DEF f
<1>15. Left' = f[o] /\ Under' = g[o] /\ call'[4] = c
  <2>1. call' = made /\ frame' = f
    BY <1>1, OneShape
  <2>2. Left' = f[o]
    BY <1>2, <2>1 DEF Left, o
  <2>3. Under' = g[o]
    BY <1>2, <1>10, <2>1 DEF Under
  <2> QED BY <1>2, <2>1, <2>2, <2>3
<1>16. ASSUME NEW color \in {"red", "green", "blue"}
       PROVE  f[o][color] \in (Min({g[o][color], c[color]}) - 1) .. Max({g[o][color], c[color]})
  <2>1. PICK prev \in PixelValues : prev = g[o]
    BY <1>11
  <2>2. prev[color] \in 0 .. 255 /\ c[color] \in 0 .. 255 /\ c.alpha \in 0 .. 255
    BY <1>3 DEF PixelValues
  <2>3. PICK p \in 0 .. 255, v \in 0 .. 255, a \in 0 .. 255 :
          p = prev[color] /\ v = c[color] /\ a = c.alpha
    BY <2>2
  <2>4. f[o][color] = Mix(p, v, a)
    <3>1. f[o] = sc_setpixel(prev, c)
      BY <1>14, <2>1
    <3>2. sc_setpixel(prev, c)[color] = Mix(prev[color], c[color], c.alpha)
      BY <1>3, SetPixel
    <3> QED BY <2>3, <3>1, <3>2, Zenon
  <2>5. p \in Int /\ v \in Int
    OBVIOUS
  <2>6. /\ Min({p, v}) \in {p, v} /\ Min({p, v}) <= p /\ Min({p, v}) <= v
        /\ Max({p, v}) \in {p, v} /\ p <= Max({p, v}) /\ v <= Max({p, v})
    BY <2>5, LeastOfTwo, Zenon
  <2>7. PICK low \in 0 .. 255, high \in 0 .. 255 : low = Min({p, v}) /\ high = Max({p, v})
    BY <2>6
  <2>8. low <= p /\ low <= v /\ p <= high /\ v <= high
    BY <2>6, <2>7
  <2>9. Mix(p, v, a) \in (low - 1) .. high
    BY <2>8, Mixture, Zenon
  <2> QED BY <2>1, <2>3, <2>4, <2>7, <2>9, Zenon
<1>17. BlendBetween'
  BY <1>15, <1>16, Zenon DEF BlendBetween
<1>18. ShapesRight'
  BY <1>1, <1>2, <1>17, OneShape DEF ShapesRight
<1>19. DOMAIN f \subseteq OnScreen
  BY <1>4, <1>13
<1> QED BY <1>1, <1>2, <1>12, <1>18, <1>19, ShapeStep

\* Coordinates wrap.
LEMMA Wrapped ==
  ASSUME NEW p \in Nat \ {0}, NEW n \in Int
  PROVE  /\ n % p \in Nat
         /\ n \in 0 .. (p - 1) => n % p = n
<1>1. n % p \in Nat
  BY SMT
<1>2. n \in 0 .. (p - 1) => n % p = n
  BY SMT
<1> QED BY <1>1, <1>2

\* The pixels of a rectangle, by their coordinates.
LEMMA AreaHas ==
  ASSUME NEW x1 \in Nat, NEW y1 \in Nat, NEW x2 \in Int, NEW y2 \in Int, NEW x, NEW y,
         ConstantsAssumption, x2 < Pitch, x \in 0 .. (Pitch - 1), y \in Nat
  PROVE  Offset(x, y) \in Area(x1, y1, x2, y2) <=> x1 <= x /\ x <= x2 /\ y1 <= y /\ y <= y2
<1>1. ASSUME Offset(x, y) \in Area(x1, y1, x2, y2)
      PROVE  x1 <= x /\ x <= x2 /\ y1 <= y /\ y <= y2
  <2>1. PICK v \in x1 .. x2, w \in y1 .. y2 : Offset(x, y) = Offset(v, w)
    BY <1>1 DEF Area
  <2>2. v \in 0 .. (Pitch - 1) /\ w \in Nat
    BY Sizes
  <2>3. x = v /\ y = w
    BY <2>1, <2>2, OnePixel
  <2> QED BY <2>3
<1>2. ASSUME x1 <= x, x <= x2, y1 <= y, y <= y2
      PROVE  Offset(x, y) \in Area(x1, y1, x2, y2)
  <2>1. x \in x1 .. x2 /\ y \in y1 .. y2
    BY <1>2
  <2> QED BY <2>1 DEF Area
<1> QED BY <1>1, <1>2

InRows == {Offset(x, y) : x \in 0 .. (Pitch - 1), y \in Nat}

\* A rectangle that ends on its line is made of pixels in rows.
LEMMA AreaIn ==
  ASSUME NEW x1 \in Nat, NEW y1 \in Nat, NEW x2 \in Int, NEW y2 \in Int,
         ConstantsAssumption, x2 < Pitch
  PROVE  Area(x1, y1, x2, y2) \subseteq InRows
<1> SUFFICES ASSUME NEW v \in x1 .. x2, NEW w \in y1 .. y2
             PROVE  Offset(v, w) \in InRows
  BY DEF Area
<1>1. v \in 0 .. (Pitch - 1) /\ w \in Nat
  BY Sizes
<1> QED BY <1>1 DEF InRows

\* A border of t pixels, of the four rectangles it is filled with.
Sides(x1, y1, x2, y2, b) ==
  Area(x1, y1, x2, y1 + b) \cup Area(x1, y1, x1 + b, y2)
    \cup Area(x2 - b, y1, x2, y2) \cup Area(x1, y2 - b, x2, y2)

Hollow(x1, y1, x2, y2, t) ==
  Area(x1, y1, x2, y2) \ Area(x1 + t, y1 + t, x2 - t, y2 - t)

\* The four rectangles of a box are the box without what is inside (lines 219-226).
LEMMA BorderIs ==
  ASSUME NEW x1 \in Nat, NEW y1 \in Nat, NEW x2 \in Nat, NEW y2 \in Nat, NEW b \in Nat, NEW t \in Nat,
         ConstantsAssumption, x2 < Pitch, t = b + 1, x1 <= x2 - b, y1 <= y2 - b
  PROVE  Sides(x1, y1, x2, y2, b) = Hollow(x1, y1, x2, y2, t)
<1>1. PICK bx \in Nat, by \in Nat, rx \in Nat, ry \in Nat :
        bx = x1 + b /\ by = y1 + b /\ rx = x2 - b /\ ry = y2 - b
  <2>1. x1 + b \in Nat /\ y1 + b \in Nat /\ x2 - b \in Nat /\ y2 - b \in Nat
    OBVIOUS
  <2> QED BY <2>1
<1>2. PICK ix \in Nat, iy \in Nat, ex \in Int, ey \in Int :
        ix = x1 + t /\ iy = y1 + t /\ ex = x2 - t /\ ey = y2 - t
  OBVIOUS
<1> DEFINE four == Area(x1, y1, x2, by) \cup Area(x1, y1, bx, y2)
                     \cup Area(rx, y1, x2, y2) \cup Area(x1, ry, x2, y2)
           whole == Area(x1, y1, x2, y2)
           inner == Area(ix, iy, ex, ey)
<1>3. /\ bx < Pitch /\ ex < Pitch /\ Pitch \in Nat
      /\ x2 \in Int /\ y2 \in Int /\ bx \in Int /\ by \in Int
  BY <1>1, <1>2, Sizes
<1>4. ASSUME NEW x \in 0 .. (Pitch - 1), NEW y \in Nat
      PROVE  Offset(x, y) \in four <=> Offset(x, y) \in whole \ inner
  <2>1. Offset(x, y) \in Area(x1, y1, x2, by) <=> x1 <= x /\ x <= x2 /\ y1 <= y /\ y <= by
    BY <1>3, AreaHas, Zenon
  <2>2. Offset(x, y) \in Area(x1, y1, bx, y2) <=> x1 <= x /\ x <= bx /\ y1 <= y /\ y <= y2
    BY <1>3, AreaHas, Zenon
  <2>3. Offset(x, y) \in Area(rx, y1, x2, y2) <=> rx <= x /\ x <= x2 /\ y1 <= y /\ y <= y2
    BY <1>3, AreaHas, Zenon
  <2>4. Offset(x, y) \in Area(x1, ry, x2, y2) <=> x1 <= x /\ x <= x2 /\ ry <= y /\ y <= y2
    BY <1>3, AreaHas, Zenon
  <2>5. Offset(x, y) \in whole <=> x1 <= x /\ x <= x2 /\ y1 <= y /\ y <= y2
    BY <1>3, AreaHas, Zenon
  <2>6. Offset(x, y) \in inner <=> ix <= x /\ x <= ex /\ iy <= y /\ y <= ey
    BY <1>3, AreaHas, Zenon
  <2> HIDE DEF whole, inner
  <2>7. Offset(x, y) \in four <=>
          \/ Offset(x, y) \in Area(x1, y1, x2, by) \/ Offset(x, y) \in Area(x1, y1, bx, y2)
          \/ Offset(x, y) \in Area(rx, y1, x2, y2) \/ Offset(x, y) \in Area(x1, ry, x2, y2)
    OBVIOUS
  <2> HIDE DEF four
  <2> QED BY <1>1, <1>2, <1>3, <2>1, <2>2, <2>3, <2>4, <2>5, <2>6, <2>7
<1>5. four \subseteq InRows /\ whole \subseteq InRows
  <2>1. Area(x1, y1, x2, by) \subseteq InRows
    BY <1>3, AreaIn, Zenon
  <2>2. Area(x1, y1, bx, y2) \subseteq InRows
    BY <1>3, AreaIn, Zenon
  <2>3. Area(rx, y1, x2, y2) \subseteq InRows
    BY <1>3, AreaIn, Zenon
  <2>4. Area(x1, ry, x2, y2) \subseteq InRows
    BY <1>3, AreaIn, Zenon
  <2>5. whole \subseteq InRows
    BY <1>3, AreaIn, Zenon
  <2> QED BY <2>1, <2>2, <2>3, <2>4, <2>5
<1>6. four = whole \ inner
  <2> HIDE DEF four, whole, inner
  <2> QED BY <1>4, <1>5 DEF InRows
<1> QED BY <1>1, <1>2, <1>6 DEF Sides, Hollow

\* A box is drawn (lines 218-226).
LEMMA BoxStep ==
  ASSUME ConstantsAssumption, ScreenInv, NEW from \in Corners, NEW to \in Corners,
         NEW thickness \in Thicknesses, NEW c \in Colors, sc_box(from, to, thickness, c)
  PROVE  ScreenInv'
<1>1. PICK x1 \in 0 .. (XResolution - 1), y1 \in 0 .. (YResolution - 1),
           x2 \in 0 .. (XResolution - 1), y2 \in 0 .. (YResolution - 1) :
        x1 = from[1] /\ y1 = from[2] /\ x2 = to[1] /\ y2 = to[2]
  BY CornerTyped
<1>2. /\ thickness \in Nat /\ x1 \in Nat /\ y1 \in Nat /\ x2 \in Nat /\ y2 \in Nat
      /\ x2 < Pitch /\ Word \in Nat \ {0} /\ x2 < Word /\ y2 < Word
  <2>1. thickness \in Nat
    BY DEF ConstantsAssumption
  <2> QED BY <2>1, Sizes
<1> DEFINE t == thickness - 1
           rx == (x2 - t) % Word
           ry == (y2 - t) % Word
           top == Fill(frame, x1, y1, x2, y1 + t, c)
           left == Fill(top, x1, y1, x1 + t, y2, c)
           right == Fill(left, rx, y1, x2, y2, c)
           bottom == Fill(right, x1, ry, x2, y2, c)
           f == IF thickness = 0 THEN frame ELSE bottom
           made == <<"sc_box", from, to, thickness, c>>
<1>3. Draw(made, f) /\ mode = "ready"
  BY <1>1 DEF sc_box, Border, Draw
<1>4. made[1] = "sc_box" /\ made[2] = from /\ made[3] = to /\ made[4] = thickness
  OBVIOUS
<1> HIDE DEF made
<1>5. DOMAIN frame = {} /\ Pixels(frame) /\ c \in PixelValues
  BY <1>3, Nothing, ColorTyped
<1>6. ASSUME thickness # 0
      PROVE  t \in Nat /\ x1 + t \in Int /\ y1 + t \in Int /\ rx \in Nat /\ ry \in Nat
  <2>1. t \in Nat /\ x1 + t \in Int /\ y1 + t \in Int /\ x2 - t \in Int /\ y2 - t \in Int
    BY <1>2, <1>6
  <2> HIDE DEF t
  <2> QED BY <1>2, <2>1, Wrapped
<1>7. ASSUME thickness # 0
      PROVE  Pixels(bottom)
  <2> HIDE DEF t, rx, ry
  <2>1. x2 \in Int /\ y2 \in Int
    BY <1>2
  <2>2. Pixels(top)
    BY <1>2, <1>5, <1>6, <1>7, Filled
  <2> HIDE DEF top
  <2>3. Pixels(left)
    BY <1>2, <1>5, <1>6, <1>7, <2>1, <2>2, Filled
  <2> HIDE DEF left
  <2>4. Pixels(right)
    BY <1>2, <1>5, <1>6, <1>7, <2>1, <2>3, Filled
  <2> HIDE DEF right
  <2> QED BY <1>2, <1>5, <1>6, <1>7, <2>1, <2>4, Filled
<1>8. DOMAIN bottom = Area(x1, y1, x2, y1 + t) \cup Area(x1, y1, x1 + t, y2)
                        \cup Area(rx, y1, x2, y2) \cup Area(x1, ry, x2, y2)
  <2> HIDE DEF t, rx, ry
  <2>1. DOMAIN top = DOMAIN frame \cup Area(x1, y1, x2, y1 + t)
    BY FilledWhere
  <2> HIDE DEF top
  <2>2. DOMAIN left = DOMAIN top \cup Area(x1, y1, x1 + t, y2)
    BY FilledWhere
  <2> HIDE DEF left
  <2>3. DOMAIN right = DOMAIN left \cup Area(rx, y1, x2, y2)
    BY FilledWhere
  <2> HIDE DEF right
  <2>4. DOMAIN bottom = DOMAIN right \cup Area(x1, ry, x2, y2)
    BY FilledWhere
  <2> HIDE DEF bottom
  <2> QED BY <1>5, <2>1, <2>2, <2>3, <2>4
<1>9. ASSUME thickness <= x2 - x1 + 1, thickness <= y2 - y1 + 1
      PROVE  DOMAIN f = Area(x1, y1, x2, y2)
                          \ Area(x1 + thickness, y1 + thickness, x2 - thickness, y2 - thickness)
  <2>1. CASE thickness = 0
    <3>1. f = frame
      BY <2>1
    <3>2. x1 + thickness = x1 /\ y1 + thickness = y1 /\ x2 - thickness = x2 /\ y2 - thickness = y2
      BY <1>2, <2>1
    <3> HIDE DEF f
    <3> QED BY <1>5, <3>1, <3>2
  <2>2. CASE thickness # 0
    <3>1. t \in Nat /\ x2 - t \in 0 .. (Word - 1) /\ y2 - t \in 0 .. (Word - 1)
      BY <1>2, <1>9, <2>2
    <3>2. rx = x2 - t /\ ry = y2 - t
      <4> HIDE DEF t
      <4>1. x2 - t \in Int /\ y2 - t \in Int
        BY <1>2, <3>1
      <4> QED BY <1>2, <3>1, <4>1, Wrapped
    <3>3. f = bottom
      BY <2>2
    <3> HIDE DEF f, bottom, rx, ry
    <3>4. DOMAIN f = Area(x1, y1, x2, y1 + t) \cup Area(x1, y1, x1 + t, y2)
                       \cup Area(x2 - t, y1, x2, y2) \cup Area(x1, y2 - t, x2, y2)
      BY <1>8, <3>2, <3>3
    <3> HIDE DEF t
    <3>5. thickness \in Nat \ {0} /\ t = thickness - 1
      BY <1>2, <2>2 DEF t
    <3>6. thickness = t + 1
      BY <1>2, <3>5
    <3>7. Sides(x1, y1, x2, y2, t) = Hollow(x1, y1, x2, y2, thickness)
      <4>1. x1 <= x2 - t /\ y1 <= y2 - t
        BY <1>2, <1>9, <3>1, <3>6
      <4>2. PICK b \in Nat : b = t
        BY <3>1
      <4>3. Sides(x1, y1, x2, y2, b) = Hollow(x1, y1, x2, y2, thickness)
        BY <1>2, <3>6, <4>1, <4>2, BorderIs
      <4> QED BY <4>2, <4>3
    <3> QED BY <3>4, <3>7, Zenon DEF Sides, Hollow
  <2> QED BY <2>1, <2>2
<1>10. Pixels(f)
  BY <1>5, <1>7
<1> HIDE DEF f
<1>11. RectanglesExact'
  <2>1. Done("sc_box")' /\ ~Done("sc_clear")' /\ ~Done("sc_fill")'
    BY <1>3, <1>4, OneShape DEF Done
  <2>2. frame' = f /\ call' = made
    BY <1>3, OneShape
  <2>3. \A from_, to_, t_ : from_ = call'[2] /\ to_ = call'[3] /\ t_ = call'[4] =>
          (t_ <= to_[1] - from_[1] + 1 /\ t_ <= to_[2] - from_[2] + 1 =>
             DOMAIN frame' = Area(from_[1], from_[2], to_[1], to_[2])
                               \ Area(from_[1] + t_, from_[2] + t_, to_[1] - t_, to_[2] - t_))
    BY <1>1, <1>4, <1>9, <2>2
  <2> QED BY <2>1, <2>3, Zenon DEF RectanglesExact, BorderFits
<1>12. ShapesRight'
  BY <1>3, <1>4, <1>11, OneShape DEF ShapesRight
<1>13. DOMAIN f \subseteq OnScreen \/ (made[1] = "sc_box" /\ ~BorderFits(made[2], made[3], made[4]))
  <2>1. Area(x1, y1, x2, y2) \subseteq OnScreen
    BY Sizes DEF Area, OnScreen
  <2>2. ASSUME BorderFits(made[2], made[3], made[4])
        PROVE  DOMAIN f \subseteq OnScreen
    <3>1. thickness <= x2 - x1 + 1 /\ thickness <= y2 - y1 + 1
      BY <1>1, <1>4, <2>2 DEF BorderFits
    <3> QED BY <1>9, <2>1, <3>1
  <2> QED BY <1>4, <2>2
<1> QED BY <1>3, <1>4, <1>10, <1>12, <1>13, ShapeStep

------------------------------------------------------------------------------
\* Lines.

\* What one step of Bresenham's loop does to the other coordinate and D.
Stepped(major, minor, p) ==
  IF p[2] > 0 THEN <<p[1] + 1, p[2] - 2 * major + 2 * minor>> ELSE <<p[1], p[2] + 2 * minor>>

\* The walk step by step, with numbers in every step.
LEMMA WalkIs ==
  ASSUME NEW major \in Int, NEW minor \in Int
  PROVE  /\ Walk(major, minor)[0] = <<0, 2 * minor - major>>
         /\ \A i \in Nat : /\ Walk(major, minor)[i] \in Int \X Int
                           /\ Walk(major, minor)[i + 1] = Stepped(major, minor, Walk(major, minor)[i])
<1> DEFINE a == <<0, 2 * minor - major>>
           step(g, i) == IF i = 0 THEN a
                         ELSE LET D == g[i - 1][2]
                              IN  IF D > 0 THEN <<g[i - 1][1] + 1, D - 2 * major + 2 * minor>>
                                           ELSE <<g[i - 1][1], D + 2 * minor>>
           Law(g) == g = [i \in Nat |-> step(g, i)]
           w == CHOOSE g : Law(g)
           G == [p \in Int \X Int |-> Stepped(major, minor, p)]
<1>1. Walk(major, minor) = w
  BY Zenon DEF Walk
<1>2. a \in Int \X Int /\ G \in [Int \X Int -> Int \X Int]
  <2>1. a \in Int \X Int
    OBVIOUS
  <2>2. ASSUME NEW p \in Int \X Int
        PROVE  Stepped(major, minor, p) \in Int \X Int
    BY DEF Stepped
  <2> QED BY <2>1, <2>2
<1>3. ASSUME NEW g, NEW i \in Nat, i # 0
      PROVE  step(g, i) = Stepped(major, minor, g[i - 1])
  BY <1>3, Zenon DEF Stepped
<1> HIDE DEF a
<1>4. PICK f \in [Nat -> Int \X Int] : f[0] = a /\ \A n \in Nat : f[n + 1] = G[f[n]]
  <2> HIDE DEF G
  <2>1. PICK S : S = Int \X Int
    OBVIOUS
  <2>2. a \in S /\ G \in [S -> S]
    BY <1>2, <2>1
  <2>3. \E f \in [Nat -> S] : f[0] = a /\ \A n \in Nat : f[n + 1] = G[f[n]]
    BY <2>2, Iterated
  <2> QED BY <2>1, <2>3
<1>5. Law(f)
  <2>1. ASSUME NEW i \in Nat
        PROVE  f[i] = step(f, i)
    <3>1. CASE i = 0
      BY <1>4, <3>1
    <3>2. CASE i # 0
      <4>1. PICK k \in Nat : i = k + 1 /\ k = i - 1
        <5>1. i - 1 \in Nat /\ i = (i - 1) + 1
          BY <3>2
        <5> QED BY <5>1
      <4>2. f[k] \in Int \X Int
        BY <1>4
      <4>3. f[i] = Stepped(major, minor, f[k])
        BY <1>4, <4>1, <4>2
      <4>4. step(f, i) = Stepped(major, minor, f[i - 1])
        BY <1>3, <3>2, Zenon
      <4> HIDE DEF step
      <4> QED BY <4>1, <4>3, <4>4
    <3> QED BY <3>1, <3>2
  <2> HIDE DEF step
  <2> QED BY <1>4, <2>1
<1>6. Law(w)
  <2> HIDE DEF Law
  <2> QED BY <1>5, Zenon
<1>7. ASSUME NEW i \in Nat
      PROVE  w[i] = step(w, i)
  <2> HIDE DEF w, step
  <2> QED BY <1>6
<1> HIDE DEF w
<1>8. w[0] = a
  BY <1>7
<1>9. ASSUME NEW i \in Nat
      PROVE  w[i + 1] = Stepped(major, minor, w[i])
  <2>1. PICK k \in Nat : k = i + 1 /\ k # 0 /\ k - 1 = i
    OBVIOUS
  <2>2. step(w, k) = Stepped(major, minor, w[k - 1])
    BY <1>3, <2>1, Zenon
  <2> HIDE DEF step
  <2> QED BY <1>7, <2>1, <2>2
<1> DEFINE Typed == {i \in Nat : w[i] \in Int \X Int}
<1>10. Typed = Nat
  <2>1. 0 \in Typed
    BY <1>2, <1>8
  <2>2. ASSUME NEW i \in Typed
        PROVE  i + 1 \in Typed
    <3>1. i \in Nat /\ w[i] \in Int \X Int
      OBVIOUS
    <3>2. Stepped(major, minor, w[i]) \in Int \X Int
      BY <3>1 DEF Stepped
    <3> QED BY <1>9, <3>1, <3>2
  <2> HIDE DEF Typed
  <2>3. Typed \in SUBSET Nat
    BY DEF Typed
  <2> QED BY <2>1, <2>2, <2>3, ByInduction
<1> QED BY <1>1, <1>8, <1>9, <1>10 DEF a

\* A step down or up at most every step to the side: the coordinate is the ideal
\* one, but for half a pixel, and D says how far it is off.
LEMMA WalkNear ==
  ASSUME NEW major \in Nat, NEW minor \in Nat, minor <= major, NEW n \in Nat
  PROVE  /\ Walk(major, minor)[n][1] \in Nat
         /\ 2 * (Walk(major, minor)[n][1] * major - n * minor) \in -major .. major
<1> DEFINE w == Walk(major, minor)
           Near == {i \in Nat :
             /\ w[i][1] \in Nat
             /\ 2 * (w[i][1] * major - i * minor) \in -major .. major
             /\ w[i][2] = 2 * minor - major - 2 * (w[i][1] * major - i * minor)}
<1>1. /\ w[0] = <<0, 2 * minor - major>>
      /\ \A i \in Nat : w[i] \in Int \X Int /\ w[i + 1] = Stepped(major, minor, w[i])
  <2>1. major \in Int /\ minor \in Int
    OBVIOUS
  <2> HIDE DEF w
  <2> QED BY <2>1, WalkIs DEF w
<1> HIDE DEF w
<1>2. 0 \in Near
  <2>1. 0 * major = 0 /\ 0 * minor = 0
    BY SMT
  <2>2. 2 * (0 - 0) \in -major .. major /\ 2 * minor - major = 2 * minor - major - 2 * (0 - 0)
    OBVIOUS
  <2>3. w[0][1] = 0 /\ w[0][2] = 2 * minor - major
    BY <1>1
  <2>4. /\ w[0][1] \in Nat
        /\ 2 * (w[0][1] * major - 0 * minor) \in -major .. major
        /\ w[0][2] = 2 * minor - major - 2 * (w[0][1] * major - 0 * minor)
    <3>1. w[0][1] * major = 0
      BY <2>1, <2>3
    <3> QED BY <2>1, <2>2, <2>3, <3>1
  <2> QED BY <2>4
<1>3. ASSUME NEW i \in Near
      PROVE  i + 1 \in Near
  <2>1. PICK y \in Nat, D \in Int : w[i] = <<y, D>>
    <3>1. w[i] \in Int \X Int /\ w[i][1] \in Nat
      BY <1>1
    <3> QED BY <3>1
  <2>2. PICK ya \in Nat, im \in Nat : ya = y * major /\ im = i * minor
    <3>1. y * major \in Nat /\ i * minor \in Nat
      BY SMT
    <3> QED BY <3>1
  <2>3. w[i][1] = y /\ w[i][2] = D /\ i \in Nat
    BY <2>1
  <2>4. D = 2 * minor - major - 2 * (ya - im) /\ 2 * (ya - im) \in -major .. major
    BY <2>2, <2>3, Zenon
  <2>5. (y + 1) * major = ya + major /\ (i + 1) * minor = im + minor
    BY <2>2, <2>3, SMT
  <2>6. w[i + 1] = Stepped(major, minor, <<y, D>>)
    BY <1>1, <2>1, <2>3
  <2>7. CASE D > 0
    <3>1. w[i + 1] = <<y + 1, D - 2 * major + 2 * minor>>
      BY <2>6, <2>7 DEF Stepped
    <3>2. w[i + 1][1] = y + 1 /\ w[i + 1][2] = D - 2 * major + 2 * minor
      BY <3>1
    <3>3. 2 * ((ya + major) - (im + minor)) \in -major .. major
      BY <2>4, <2>7
    <3>4. D - 2 * major + 2 * minor = 2 * minor - major - 2 * ((ya + major) - (im + minor))
      BY <2>4
    <3>5. y + 1 \in Nat /\ i + 1 \in Nat
      BY <2>3
    <3>6. 2 * ((y + 1) * major - (i + 1) * minor) = 2 * ((ya + major) - (im + minor))
      BY <2>5
    <3> QED BY <3>2, <3>3, <3>4, <3>5, <3>6
  <2>8. CASE ~(D > 0)
    <3>1. w[i + 1] = <<y, D + 2 * minor>>
      BY <2>6, <2>8 DEF Stepped
    <3>2. w[i + 1][1] = y /\ w[i + 1][2] = D + 2 * minor
      BY <3>1
    <3>3. 2 * (ya - (im + minor)) \in -major .. major
      BY <2>4, <2>8
    <3>4. D + 2 * minor = 2 * minor - major - 2 * (ya - (im + minor))
      BY <2>4
    <3> QED BY <2>2, <2>3, <2>5, <3>2, <3>3, <3>4
  <2> QED BY <2>7, <2>8
<1>4. Near = Nat
  <2> HIDE DEF Near
  <2>1. Near \in SUBSET Nat
    BY DEF Near
  <2> QED BY <1>2, <1>3, <2>1, ByInduction
<1>5. n \in Near
  BY <1>4
<1> QED BY <1>5 DEF w

\* Before its end a line does not leave the rectangle of its corners.
LEMMA WalkInside ==
  ASSUME NEW major \in Nat, NEW minor \in Nat, minor <= major, NEW n \in 0 .. (major - 1)
  PROVE  Walk(major, minor)[n][1] \in 0 .. minor
<1>1. PICK y \in Nat : y = Walk(major, minor)[n][1] /\ 2 * (y * major - n * minor) \in -major .. major
  <2>1. n \in Nat
    OBVIOUS
  <2> QED BY <2>1, WalkNear
<1>2. SUFFICES ASSUME minor + 1 <= y
               PROVE  FALSE
  BY <1>1
<1>3. (minor + 1) * major <= y * major
  <2>1. minor + 1 \in Nat
    OBVIOUS
  <2> QED BY <1>2, <2>1, ProductsGrow
<1>4. n * minor <= major * minor
  <2>1. n \in Nat /\ n <= major
    OBVIOUS
  <2> QED BY <2>1, ProductsGrow
<1>5. (minor + 1) * major = major * minor + major
  BY SMT
<1>6. PICK p \in Nat, ya \in Nat, im \in Nat : p = major * minor /\ ya = y * major /\ im = n * minor
  <2>1. major * minor \in Nat /\ y * major \in Nat /\ n * minor \in Nat
    <3>1. n \in Nat
      OBVIOUS
    <3> QED BY <3>1, Multiples, ProductsGrow
  <2> QED BY <2>1
<1>7. p + major <= ya /\ im <= p /\ 2 * (ya - im) <= major /\ major > 0
  <2>1. 2 * (ya - im) \in -major .. major
    BY <1>1, <1>6, Zenon
  <2>2. p + major <= ya
    BY <1>3, <1>5, <1>6
  <2>3. im <= p
    BY <1>4, <1>6
  <2> QED BY <2>1, <2>2, <2>3
<1> QED BY <1>7

\* In the other directions it is level or upright.
LEMMA WalkLevel ==
  ASSUME NEW major \in Nat, NEW minor \in Int, minor < 0, NEW n \in Nat
  PROVE  Walk(major, minor)[n][1] = 0
<1> DEFINE w == Walk(major, minor)
           Level == {i \in Nat : w[i][1] = 0 /\ w[i][2] < 0}
<1>1. /\ w[0] = <<0, 2 * minor - major>>
      /\ \A i \in Nat : w[i] \in Int \X Int /\ w[i + 1] = Stepped(major, minor, w[i])
  <2>1. major \in Int /\ minor \in Int
    OBVIOUS
  <2> HIDE DEF w
  <2> QED BY <2>1, WalkIs DEF w
<1> HIDE DEF w
<1>2. 0 \in Level
  <2>1. 2 * minor - major < 0
    OBVIOUS
  <2> QED BY <1>1, <2>1
<1>3. ASSUME NEW i \in Level
      PROVE  i + 1 \in Level
  <2>1. PICK D \in Int : w[i] = <<0, D>> /\ D < 0
    <3>1. w[i] \in Int \X Int /\ w[i][1] = 0 /\ w[i][2] < 0 /\ i \in Nat
      BY <1>1
    <3> QED BY <3>1
  <2>2. w[i + 1] = Stepped(major, minor, <<0, D>>) /\ i + 1 \in Nat
    BY <1>1, <2>1
  <2>3. w[i + 1] = <<0, D + 2 * minor>>
    BY <2>1, <2>2 DEF Stepped
  <2>4. D + 2 * minor < 0
    BY <2>1
  <2> QED BY <2>2, <2>3, <2>4
<1>4. Level = Nat
  <2> HIDE DEF Level
  <2>1. Level \in SUBSET Nat
    BY DEF Level
  <2> QED BY <1>2, <1>3, <2>1, ByInduction
<1> QED BY <1>4 DEF w

\* What a line of n pixels is, to the right (g says how far it is down) or down
\* (g says how far it is to the right).
Flat(n, g) == {<<i, g[i]>> : i \in 0 .. (n - 1)}
Steep(n, g) == {<<g[i], i>> : i \in 0 .. (n - 1)}

\* It has n pixels, one in each column or row.
LEMMA OneEach ==
  ASSUME NEW n \in Nat, NEW g
  PROVE  /\ Cardinality(Flat(n, g)) = n /\ {p[1] : p \in Flat(n, g)} = 0 .. (n - 1)
         /\ Cardinality(Steep(n, g)) = n /\ {p[2] : p \in Steep(n, g)} = 0 .. (n - 1)
<1>1. IsFiniteSet(0 .. (n - 1)) /\ Cardinality(0 .. (n - 1)) = n
  <2>1. 0 \in Int /\ n - 1 \in Int
    OBVIOUS
  <2>2. /\ IsFiniteSet(0 .. (n - 1))
        /\ Cardinality(0 .. (n - 1)) = IF 0 > n - 1 THEN 0 ELSE (n - 1) - 0 + 1
    BY <2>1, FS_Interval
  <2> QED BY <2>2
<1> DEFINE flat == [i \in 0 .. (n - 1) |-> <<i, g[i]>>]
           steep == [i \in 0 .. (n - 1) |-> <<g[i], i>>]
<1>2. flat \in Bijection(0 .. (n - 1), Flat(n, g))
  BY DEF Bijection, Injection, Surjection, IsInjective, Flat
<1>3. steep \in Bijection(0 .. (n - 1), Steep(n, g))
  BY DEF Bijection, Injection, Surjection, IsInjective, Steep
<1>4. Cardinality(Flat(n, g)) = n
  <2>1. ExistsBijection(0 .. (n - 1), Flat(n, g))
    BY <1>2 DEF ExistsBijection
  <2> QED BY <1>1, <2>1, FS_Bijection
<1>5. Cardinality(Steep(n, g)) = n
  <2>1. ExistsBijection(0 .. (n - 1), Steep(n, g))
    BY <1>3 DEF ExistsBijection
  <2> QED BY <1>1, <2>1, FS_Bijection
<1>6. {p[1] : p \in Flat(n, g)} = 0 .. (n - 1)
  <2>1. \A i \in 0 .. (n - 1) : <<i, g[i]>> \in Flat(n, g) /\ <<i, g[i]>>[1] = i
    BY DEF Flat
  <2>2. \A p \in Flat(n, g) : p[1] \in 0 .. (n - 1)
    BY DEF Flat
  <2> QED BY <2>1, <2>2
<1>7. {p[2] : p \in Steep(n, g)} = 0 .. (n - 1)
  <2>1. \A i \in 0 .. (n - 1) : <<g[i], i>> \in Steep(n, g) /\ <<g[i], i>>[2] = i
    BY DEF Steep
  <2>2. \A p \in Steep(n, g) : p[2] \in 0 .. (n - 1)
    BY DEF Steep
  <2> QED BY <2>1, <2>2
<1> QED BY <1>4, <1>5, <1>6, <1>7

\* The dots of a set of offsets, relative to x and y.
DotsOf(offsets, x, y) == {<<(o % Pitch) - x, (o \div Pitch) - y>> : o \in offsets}

\* A pixel on the screen is told by its offset.
LEMMA DotIs ==
  ASSUME ConstantsAssumption, NEW x \in 0 .. (XResolution - 1), NEW y \in 0 .. (YResolution - 1)
  PROVE  /\ Offset(x, y) % Pitch = x /\ Offset(x, y) \div Pitch = y
         /\ Offset(x, y) \in Nat /\ Offset(x, y) \in OnScreen
<1>1. x \in 0 .. (Pitch - 1) /\ y \in Nat
  BY Sizes
<1>2. Offset(x, y) \in OnScreen
  BY DEF OnScreen
<1> QED BY <1>1, <1>2, Offsets

\* A line to the right whose pixels are on the screen.
FlatLine(n, g, x, y) == {Offset(x + i, y + g[i]) : i \in 0 .. (n - 1)}

FlatFits(n, g, x, y) ==
  \A i \in 0 .. (n - 1) : /\ g[i] \in Nat
                          /\ x + i \in 0 .. (XResolution - 1) /\ y + g[i] \in 0 .. (YResolution - 1)

\* Its dots are those it is made of.
LEMMA FlatDots ==
  ASSUME ConstantsAssumption, NEW n \in Nat, NEW g, NEW x \in Nat, NEW y \in Nat, FlatFits(n, g, x, y)
  PROVE  /\ FlatLine(n, g, x, y) \subseteq OnScreen /\ FlatLine(n, g, x, y) \subseteq Nat
         /\ DotsOf(FlatLine(n, g, x, y), x, y) = Flat(n, g)
<1> USE DEF FlatFits
<1> DEFINE offsets == {Offset(x + i, y + g[i]) : i \in 0 .. (n - 1)}
<1>1. ASSUME NEW i \in 0 .. (n - 1)
      PROVE  /\ (Offset(x + i, y + g[i]) % Pitch) - x = i /\ (Offset(x + i, y + g[i]) \div Pitch) - y = g[i]
             /\ Offset(x + i, y + g[i]) \in Nat /\ Offset(x + i, y + g[i]) \in OnScreen
  <2>1. PICK v \in 0 .. (XResolution - 1), w \in 0 .. (YResolution - 1) : v = x + i /\ w = y + g[i]
    OBVIOUS
  <2>2. /\ Offset(v, w) % Pitch = v /\ Offset(v, w) \div Pitch = w
        /\ Offset(v, w) \in Nat /\ Offset(v, w) \in OnScreen
    BY DotIs
  <2>3. v - x = i /\ w - y = g[i]
    BY <2>1
  <2> QED BY <2>1, <2>2, <2>3
<1>2. offsets \subseteq OnScreen /\ offsets \subseteq Nat
  BY <1>1
<1>3. DotsOf(offsets, x, y)
        = {<<(Offset(x + i, y + g[i]) % Pitch) - x, (Offset(x + i, y + g[i]) \div Pitch) - y>> : i \in 0 .. (n - 1)}
  BY Zenon DEF DotsOf
<1>4. DotsOf(offsets, x, y) = Flat(n, g)
  BY <1>1, <1>3 DEF Flat
<1> QED BY <1>2, <1>4 DEF FlatLine

\* A line down whose pixels are on the screen.
SteepLine(n, g, x, y) == {Offset(x + g[i], y + i) : i \in 0 .. (n - 1)}

SteepFits(n, g, x, y) ==
  \A i \in 0 .. (n - 1) : /\ g[i] \in Nat
                          /\ x + g[i] \in 0 .. (XResolution - 1) /\ y + i \in 0 .. (YResolution - 1)

\* Its dots are those it is made of.
LEMMA SteepDots ==
  ASSUME ConstantsAssumption, NEW n \in Nat, NEW g, NEW x \in Nat, NEW y \in Nat, SteepFits(n, g, x, y)
  PROVE  /\ SteepLine(n, g, x, y) \subseteq OnScreen /\ SteepLine(n, g, x, y) \subseteq Nat
         /\ DotsOf(SteepLine(n, g, x, y), x, y) = Steep(n, g)
<1> USE DEF SteepFits
<1> DEFINE offsets == {Offset(x + g[i], y + i) : i \in 0 .. (n - 1)}
<1>1. ASSUME NEW i \in 0 .. (n - 1)
      PROVE  /\ (Offset(x + g[i], y + i) % Pitch) - x = g[i] /\ (Offset(x + g[i], y + i) \div Pitch) - y = i
             /\ Offset(x + g[i], y + i) \in Nat /\ Offset(x + g[i], y + i) \in OnScreen
  <2>1. PICK v \in 0 .. (XResolution - 1), w \in 0 .. (YResolution - 1) : v = x + g[i] /\ w = y + i
    OBVIOUS
  <2>2. /\ Offset(v, w) % Pitch = v /\ Offset(v, w) \div Pitch = w
        /\ Offset(v, w) \in Nat /\ Offset(v, w) \in OnScreen
    BY DotIs
  <2>3. v - x = g[i] /\ w - y = i
    BY <2>1
  <2> QED BY <2>1, <2>2, <2>3
<1>2. offsets \subseteq OnScreen /\ offsets \subseteq Nat
  BY <1>1
<1>3. DotsOf(offsets, x, y)
        = {<<(Offset(x + g[i], y + i) % Pitch) - x, (Offset(x + g[i], y + i) \div Pitch) - y>> : i \in 0 .. (n - 1)}
  BY Zenon DEF DotsOf
<1>4. DotsOf(offsets, x, y) = Steep(n, g)
  BY <1>1, <1>3 DEF Steep
<1> QED BY <1>2, <1>4 DEF SteepLine

\* What LineStraight says of the dots of a line that goes dx to the right and dy down.
LineOf(dots, dx, dy) ==
  CASE dx > dy /\ dy >= 0 ->
         /\ {p[1] : p \in dots} = 0 .. (dx - 1) /\ Cardinality(dots) = dx
         /\ \A p \in dots : 2 * (p[2] * dx - p[1] * dy) \in -dx .. dx
    [] dy >= dx /\ dx >= 0 ->
         /\ {p[2] : p \in dots} = 0 .. (dy - 1) /\ Cardinality(dots) = dy
         /\ \A p \in dots : 2 * (p[1] * dy - p[2] * dx) \in -dy .. dy
    [] OTHER -> (\A p \in dots : p[1] = 0) \/ (\A p \in dots : p[2] = 0)

\* A line that is flatter than it is long, by the first case of LineOf.
LEMMA LineFlat ==
  ASSUME NEW dots, NEW dx \in Int, NEW dy \in Int, dx > dy, dy >= 0,
         {p[1] : p \in dots} = 0 .. (dx - 1), Cardinality(dots) = dx,
         \A p \in dots : 2 * (p[2] * dx - p[1] * dy) \in -dx .. dx
  PROVE  LineOf(dots, dx, dy)
<1>1. ~(dy >= dx /\ dx >= 0)
  OBVIOUS
<1> QED BY <1>1, Zenon DEF LineOf

\* A line that is steeper, by its second case.
LEMMA LineSteep ==
  ASSUME NEW dots, NEW dx \in Int, NEW dy \in Int, dy >= dx, dx >= 0,
         {p[2] : p \in dots} = 0 .. (dy - 1), Cardinality(dots) = dy,
         \A p \in dots : 2 * (p[1] * dy - p[2] * dx) \in -dy .. dy
  PROVE  LineOf(dots, dx, dy)
<1>1. ~(dx > dy /\ dy >= 0)
  OBVIOUS
<1> QED BY <1>1, Zenon DEF LineOf

\* A line that goes to the left or up, by its last case.
LEMMA LineElse ==
  ASSUME NEW dots, NEW dx \in Int, NEW dy \in Int, dx < 0 \/ dy < 0,
         (\A p \in dots : p[1] = 0) \/ (\A p \in dots : p[2] = 0)
  PROVE  LineOf(dots, dx, dy)
<1>1. ~(dx > dy /\ dy >= 0) /\ ~(dy >= dx /\ dx >= 0)
  OBVIOUS
<1> QED BY <1>1, Zenon DEF LineOf

\* The offsets of a line between two corners (lines 174-203).
LEMMA LineDots ==
  ASSUME ConstantsAssumption, NEW from, NEW to,
         NEW x \in 0 .. (XResolution - 1), NEW y \in 0 .. (YResolution - 1),
         NEW v \in 0 .. (XResolution - 1), NEW w \in 0 .. (YResolution - 1),
         x = from[1], y = from[2], v = to[1], w = to[2]
  PROVE  LET offsets == {Offset(p[1], p[2]) : p \in LinePixels(from, to)}
         IN  /\ offsets \subseteq OnScreen /\ offsets \subseteq Nat
             /\ LineOf(DotsOf(offsets, x, y), v - x, w - y)
<1> DEFINE offsets == {Offset(p[1], p[2]) : p \in LinePixels(from, to)}
<1>1. PICK dx \in Int, dy \in Int : dx = v - x /\ dy = w - y
  BY Sizes
<1>2. x \in Nat /\ y \in Nat /\ XResolution \in Nat /\ YResolution \in Nat
  BY Sizes
<1>3. CASE dx > dy /\ dx > -dy
  <2> DEFINE g == [i \in 0 .. (dx - 1) |-> Walk(dx, dy)[i][1]]
             line == {Offset(x + i, y + g[i]) : i \in 0 .. (dx - 1)}
  <2>1. LinePixels(from, to) = {<<x + i, y + Walk(dx, dy)[i][1]>> : i \in 0 .. (dx - 1)}
    <3>1. dx = to[1] - from[1] /\ dy = to[2] - from[2]
      BY <1>1
    <3> QED BY <1>3, <3>1, Zenon DEF LinePixels
  <2>2. offsets = line
    <3> DEFINE At(i) == <<x + i, y + g[i]>>
    <3>1. LinePixels(from, to) = {<<x + i, y + g[i]>> : i \in 0 .. (dx - 1)}
      BY <2>1
    <3> HIDE DEF g
    <3>2. \A p : p \in LinePixels(from, to) <=> \E i \in 0 .. (dx - 1) : p = At(i)
      BY <3>1
    <3>3. \A o : o \in offsets <=> \E p \in LinePixels(from, to) : o = Offset(p[1], p[2])
      OBVIOUS
    <3>4. \A o : o \in line <=> \E i \in 0 .. (dx - 1) : o = Offset(At(i)[1], At(i)[2])
      OBVIOUS
    <3> HIDE DEF offsets, line, At
    <3>5. ASSUME NEW o
          PROVE  o \in offsets <=> o \in line
      BY <3>2, <3>3, <3>4, Zenon
    <3> QED BY <3>5
  <2>3. dx \in Nat
    BY <1>3
  <2>4. ASSUME NEW i \in 0 .. (dx - 1)
        PROVE  /\ g[i] \in Nat /\ y + g[i] \in 0 .. (YResolution - 1)
               /\ x + i \in 0 .. (XResolution - 1)
               /\ dy >= 0 => 2 * (g[i] * dx - i * dy) \in -dx .. dx
               /\ dy < 0 => g[i] = 0
    <3>1. i \in Nat /\ x + i \in 0 .. (XResolution - 1) /\ g[i] = Walk(dx, dy)[i][1]
      BY <1>1, <1>2, <2>3
    <3> HIDE DEF g
    <3>2. CASE dy >= 0
      <4>1. dy \in Nat /\ dy <= dx
        BY <1>3, <3>2
      <4>2. g[i] \in 0 .. dy
        BY <2>3, <3>1, <4>1, WalkInside
      <4>3. y + g[i] \in 0 .. (YResolution - 1)
        BY <1>1, <1>2, <4>1, <4>2
      <4>4. 2 * (g[i] * dx - i * dy) \in -dx .. dx
        BY <2>3, <3>1, <4>1, WalkNear
      <4> QED BY <3>1, <3>2, <4>1, <4>2, <4>3, <4>4
    <3>3. CASE dy < 0
      <4>1. g[i] = 0
        BY <2>3, <3>1, <3>3, WalkLevel
      <4> QED BY <1>2, <3>1, <3>3, <4>1
    <3> QED BY <3>2, <3>3
  <2> HIDE DEF g
  <2>5. line \subseteq OnScreen /\ line \subseteq Nat /\ DotsOf(line, x, y) = Flat(dx, g)
    <3>1. FlatFits(dx, g, x, y)
      BY <2>4 DEF FlatFits
    <3>2. line = FlatLine(dx, g, x, y)
      BY DEF FlatLine
    <3> HIDE DEF line
    <3>3. FlatLine(dx, g, x, y) \subseteq OnScreen
      BY <1>2, <2>3, <3>1, FlatDots
    <3>4. FlatLine(dx, g, x, y) \subseteq Nat
      BY <1>2, <2>3, <3>1, FlatDots
    <3>5. DotsOf(FlatLine(dx, g, x, y), x, y) = Flat(dx, g)
      BY <1>2, <2>3, <3>1, FlatDots
    <3> QED BY <3>2, <3>3, <3>4, <3>5
  <2> HIDE DEF line
  <2>6. LineOf(Flat(dx, g), dx, dy)
    <3>1. CASE dy >= 0
      <4>1. \A p \in Flat(dx, g) : 2 * (p[2] * dx - p[1] * dy) \in -dx .. dx
        BY <2>4, <3>1 DEF Flat
      <4> QED BY <1>3, <2>3, <3>1, <4>1, OneEach, LineFlat
    <3>2. CASE dy < 0
      <4>1. \A p \in Flat(dx, g) : p[2] = 0
        BY <2>4, <3>2 DEF Flat
      <4> QED BY <3>2, <4>1, LineElse
    <3> QED BY <3>1, <3>2
  <2> HIDE DEF offsets
  <2> QED BY <1>1, <2>2, <2>5, <2>6 DEF offsets
<1>4. CASE ~(dx > dy /\ dx > -dy)
  <2> DEFINE g == [i \in 0 .. (dy - 1) |-> Walk(dy, dx)[i][1]]
             line == {Offset(x + g[i], y + i) : i \in 0 .. (dy - 1)}
  <2>1. LinePixels(from, to) = {<<x + Walk(dy, dx)[i][1], y + i>> : i \in 0 .. (dy - 1)}
    <3>1. dx = to[1] - from[1] /\ dy = to[2] - from[2]
      BY <1>1
    <3> QED BY <1>4, <3>1, Zenon DEF LinePixels
  <2>2. offsets = line
    <3> DEFINE At(i) == <<x + g[i], y + i>>
    <3>1. LinePixels(from, to) = {<<x + g[i], y + i>> : i \in 0 .. (dy - 1)}
      BY <2>1
    <3> HIDE DEF g
    <3>2. \A p : p \in LinePixels(from, to) <=> \E i \in 0 .. (dy - 1) : p = At(i)
      BY <3>1
    <3>3. \A o : o \in offsets <=> \E p \in LinePixels(from, to) : o = Offset(p[1], p[2])
      OBVIOUS
    <3>4. \A o : o \in line <=> \E i \in 0 .. (dy - 1) : o = Offset(At(i)[1], At(i)[2])
      OBVIOUS
    <3> HIDE DEF offsets, line, At
    <3>5. ASSUME NEW o
          PROVE  o \in offsets <=> o \in line
      BY <3>2, <3>3, <3>4, Zenon
    <3> QED BY <3>5
  <2>3. CASE dy >= 0
    <3>1. dy \in Nat /\ (dx >= 0 => dx \in Nat /\ dx <= dy)
      BY <1>4, <2>3
    <3>2. ASSUME NEW i \in 0 .. (dy - 1)
          PROVE  /\ g[i] \in Nat /\ x + g[i] \in 0 .. (XResolution - 1)
                 /\ y + i \in 0 .. (YResolution - 1)
                 /\ dx >= 0 => 2 * (g[i] * dy - i * dx) \in -dy .. dy
                 /\ dx < 0 => g[i] = 0
      <4>1. i \in Nat /\ y + i \in 0 .. (YResolution - 1) /\ g[i] = Walk(dy, dx)[i][1]
        BY <1>1, <1>2, <3>1
      <4> HIDE DEF g
      <4>2. CASE dx >= 0
        <5>1. dx \in Nat /\ dx <= dy
          BY <3>1, <4>2
        <5>2. g[i] \in 0 .. dx
          BY <3>1, <4>1, <5>1, WalkInside
        <5>3. x + g[i] \in 0 .. (XResolution - 1)
          BY <1>1, <1>2, <5>1, <5>2
        <5>4. 2 * (g[i] * dy - i * dx) \in -dy .. dy
          BY <3>1, <4>1, <5>1, WalkNear
        <5> QED BY <4>1, <4>2, <5>1, <5>2, <5>3, <5>4
      <4>3. CASE dx < 0
        <5>1. g[i] = 0
          BY <3>1, <4>1, <4>3, WalkLevel
        <5> QED BY <1>2, <4>1, <4>3, <5>1
      <4> QED BY <4>2, <4>3
    <3> HIDE DEF g
    <3>3. line \subseteq OnScreen /\ line \subseteq Nat /\ DotsOf(line, x, y) = Steep(dy, g)
      <4>1. SteepFits(dy, g, x, y)
        BY <3>2 DEF SteepFits
      <4>2. line = SteepLine(dy, g, x, y)
        BY DEF SteepLine
      <4> HIDE DEF line
      <4>3. dy \in Nat
        BY <3>1
      <4>4. SteepLine(dy, g, x, y) \subseteq OnScreen
        BY <1>2, <4>1, <4>3, SteepDots
      <4>5. SteepLine(dy, g, x, y) \subseteq Nat
        BY <1>2, <4>1, <4>3, SteepDots
      <4>6. DotsOf(SteepLine(dy, g, x, y), x, y) = Steep(dy, g)
        BY <1>2, <4>1, <4>3, SteepDots
      <4> QED BY <4>2, <4>4, <4>5, <4>6
    <3> HIDE DEF line
    <3>4. LineOf(Steep(dy, g), dx, dy)
      <4>1. CASE dx >= 0
        <5>1. \A p \in Steep(dy, g) : 2 * (p[1] * dy - p[2] * dx) \in -dy .. dy
          BY <3>2, <4>1 DEF Steep
        <5>2. dy >= dx
          BY <3>1, <4>1
        <5> QED BY <3>1, <4>1, <5>1, <5>2, OneEach, LineSteep
      <4>2. CASE dx < 0
        <5>1. \A p \in Steep(dy, g) : p[1] = 0
          BY <3>2, <4>2 DEF Steep
        <5> QED BY <4>2, <5>1, LineElse
      <4> QED BY <4>1, <4>2
    <3> QED BY <1>1, <2>2, <3>3, <3>4
  <2>4. CASE dy < 0
    <3>1. line = {}
      <4>1. 0 .. (dy - 1) = {}
        BY <2>4
      <4> QED BY <4>1
    <3> HIDE DEF line
    <3>2. DotsOf(offsets, x, y) = {}
      BY <2>2, <3>1 DEF DotsOf
    <3>3. LineOf(DotsOf(offsets, x, y), dx, dy)
      BY <2>4, <3>2, LineElse
    <3> HIDE DEF offsets
    <3> QED BY <1>1, <2>2, <3>1, <3>3 DEF offsets
  <2> QED BY <2>3, <2>4
<1> QED BY <1>3, <1>4

\* A line is drawn.
LEMMA LineStep ==
  ASSUME ConstantsAssumption, ScreenInv, NEW from \in Corners, NEW to \in Corners, NEW c \in Colors,
         sc_line(from, to, c)
  PROVE  ScreenInv'
<1>1. PICK x \in 0 .. (XResolution - 1), y \in 0 .. (YResolution - 1),
           v \in 0 .. (XResolution - 1), w \in 0 .. (YResolution - 1) :
        x = from[1] /\ y = from[2] /\ v = to[1] /\ w = to[2]
  BY CornerTyped
<1> DEFINE offsets == {Offset(p[1], p[2]) : p \in LinePixels(from, to)}
           values == [o \in offsets |-> c]
           f == Paint(frame, values)
           made == <<"sc_line", from, to, c>>
<1>2. Draw(made, f) /\ mode = "ready"
  BY DEF sc_line, Draw
<1>3. made[1] = "sc_line" /\ made[2] = from /\ made[3] = to
  OBVIOUS
<1>4. from[1] = x /\ from[2] = y /\ to[1] = v /\ to[2] = w
  BY <1>1
<1> HIDE DEF made
<1>5. /\ offsets \subseteq OnScreen /\ offsets \subseteq Nat
      /\ LineOf(DotsOf(offsets, x, y), v - x, w - y)
  BY <1>1, LineDots
<1> HIDE DEF offsets
<1>6. DOMAIN frame = {} /\ Pixels(frame) /\ c \in PixelValues
  BY <1>2, Nothing, ColorTyped
<1>7. Pixels(values) /\ DOMAIN values = offsets
  BY <1>5, <1>6 DEF Pixels
<1> HIDE DEF values
<1>8. Pixels(f)
  BY <1>6, <1>7, PaintedPixels
<1>9. DOMAIN f = offsets
  <2>1. DOMAIN f = DOMAIN frame \cup DOMAIN values
    BY PaintedWhere
  <2> QED BY <1>6, <1>7, <2>1
<1> HIDE DEF f
<1>10. LineStraight'
  <2>1. frame' = f /\ call' = made
    BY <1>2, OneShape
  <2>2. {<<(o % Pitch) - call'[2][1], (o \div Pitch) - call'[2][2]>> : o \in DOMAIN frame'} = DotsOf(offsets, x, y)
    BY <1>3, <1>4, <1>9, <2>1, Zenon DEF DotsOf
  <2>3. LineOf({<<(o % Pitch) - call'[2][1], (o \div Pitch) - call'[2][2]>> : o \in DOMAIN frame'},
               call'[3][1] - call'[2][1], call'[3][2] - call'[2][2])
    BY <1>3, <1>4, <1>5, <2>1, <2>2, Zenon
  <2> QED BY <2>3, Zenon DEF LineStraight, LineOf
<1>11. ShapesRight'
  BY <1>2, <1>3, <1>10, OneShape DEF ShapesRight
<1> QED BY <1>2, <1>3, <1>5, <1>8, <1>9, <1>11, ShapeStep

------------------------------------------------------------------------------
\* Images.

\* An image is drawn pixel by pixel: the value of each is where it belongs.
\* The offset of pixel k of an image.
PixelOfImage(at, width, k) == Offset(at[1] + (k % width), at[2] + (k \div width))

\* An image inside the screen is drawn at its place, each value at its pixel (lines 228-253).
LEMMA ImageDrawn ==
  ASSUME ConstantsAssumption, NEW at,
         at[1] \in 0 .. (XResolution - 1), at[2] \in 0 .. (YResolution - 1),
         NEW width \in Nat, NEW height \in Nat,
         at[1] + width <= XResolution, at[2] + height <= YResolution,
         NEW value, \A k \in 0 .. (width * height - 1) : value[k] \in PixelValues
  PROVE  LET values == ImagePixels(at, width, height, value)
         IN  /\ Pixels(values) /\ DOMAIN values \subseteq OnScreen
             /\ \A k \in 0 .. (width * height - 1) :
                  /\ PixelOfImage(at, width, k) \in DOMAIN values
                  /\ values[PixelOfImage(at, width, k)] = value[k]
<1> DEFINE x == at[1]
           y == at[2]
           values == ImagePixels(at, width, height, value)
           offsets == {Offset(x + i, y + j) : i \in 0 .. (width - 1), j \in 0 .. (height - 1)}
           index(o) == (((o - Offset(x, y)) \div Pitch) * width) + ((o - Offset(x, y)) % Pitch)
<1>1. values = [o \in offsets |-> value[index(o)]]
  BY DEF ImagePixels
<1>8. /\ x \in 0 .. (XResolution - 1) /\ y \in 0 .. (YResolution - 1)
      /\ x + width <= XResolution /\ y + height <= YResolution
  OBVIOUS
<1> HIDE DEF x, y
<1>2. ASSUME NEW i \in 0 .. (width - 1), NEW j \in 0 .. (height - 1)
      PROVE  /\ Offset(x + i, y + j) \in OnScreen /\ Offset(x + i, y + j) \in Nat
             /\ index(Offset(x + i, y + j)) = i + j * width
             /\ i + j * width \in 0 .. (width * height - 1)
  <2>1. /\ i \in Nat /\ j \in Nat /\ x \in Nat /\ y \in Nat /\ width \in Nat \ {0}
        /\ i \in 0 .. (Pitch - 1)
        /\ x + i \in 0 .. (XResolution - 1) /\ y + j \in 0 .. (YResolution - 1)
    BY <1>8, Sizes
  <2>2. Offset(x + i, y + j) \in OnScreen /\ Offset(x + i, y + j) \in Nat
    BY <2>1, DotIs
  <2>3. Offset(x + i, y + j) - Offset(x, y) = i + j * Pitch
    <3>1. (y + j) * Pitch = y * Pitch + j * Pitch /\ y * Pitch \in Nat /\ j * Pitch \in Nat
      BY <2>1, Sizes, Multiples
    <3> QED BY <2>1, <3>1 DEF Offset
  <2>4. (i + j * Pitch) \div Pitch = j /\ (i + j * Pitch) % Pitch = i
    BY <2>1, Sizes, Divided
  <2>5. index(Offset(x + i, y + j)) = (j * width) + i
    BY <2>3, <2>4, Zenon
  <2>6. j * width \in Nat /\ j * width + width <= height * width /\ height * width \in Nat
    BY <2>1, Multiples
  <2>7. width * height = height * width
    BY SMT
  <2> QED BY <2>1, <2>2, <2>5, <2>6, <2>7
<1> HIDE DEF values, index
<1>3. DOMAIN values = offsets
  BY <1>1
<1>4. ASSUME NEW i \in 0 .. (width - 1), NEW j \in 0 .. (height - 1)
      PROVE  /\ Offset(x + i, y + j) \in DOMAIN values
             /\ values[Offset(x + i, y + j)] = value[i + j * width]
             /\ values[Offset(x + i, y + j)] \in PixelValues
  <2>1. Offset(x + i, y + j) \in offsets
    OBVIOUS
  <2> HIDE DEF offsets
  <2>2. PICK k \in 0 .. (width * height - 1) : k = i + j * width
    BY <1>2
  <2> QED BY <1>1, <1>2, <2>1, <2>2
<1>5. Pixels(values)
  <2>1. ASSUME NEW i \in 0 .. (width - 1), NEW j \in 0 .. (height - 1)
        PROVE  Offset(x + i, y + j) \in Nat /\ values[Offset(x + i, y + j)] \in PixelValues
    BY <1>2, <1>4
  <2> QED BY <1>3, <2>1 DEF Pixels
<1>6. DOMAIN values \subseteq OnScreen
  BY <1>2, <1>3
<1>7. ASSUME NEW k \in 0 .. (width * height - 1)
      PROVE  /\ Offset(x + (k % width), y + (k \div width)) \in DOMAIN values
             /\ values[Offset(x + (k % width), y + (k \div width))] = value[k]
  <2>1. PICK n \in Nat : n = width * height
    <3>1. width * height \in Nat
      BY SMT
    <3> QED BY <3>1
  <2>2. k \in Nat /\ k < n
    BY <2>1
  <2>3. width # 0
    <3>1. width = 0 => width * height = 0
      BY SMT
    <3> QED BY <2>1, <2>2, <3>1
  <2>4. PICK i \in 0 .. (width - 1), j \in Nat : i = k % width /\ j = k \div width /\ k = i + j * width
    BY <2>2, <2>3, Euclid
  <2>5. j \in 0 .. (height - 1)
    <3>1. SUFFICES ASSUME height <= j
                   PROVE  FALSE
      OBVIOUS
    <3>2. height * width <= j * width /\ j * width \in Nat
      BY <3>1, ProductsGrow
    <3>3. height * width = n
      BY <2>1, SMT
    <3> QED BY <2>2, <2>4, <3>2, <3>3
  <2> QED BY <1>4, <2>4, <2>5
<1> QED BY <1>5, <1>6, <1>7, Zenon DEF values, x, y, PixelOfImage

\* What sc_putimg and sc_putimg_masked have in common.
LEMMA ImageShown ==
  ASSUME ConstantsAssumption, ScreenInv, mode = "ready", NEW at \in Corners,
         NEW width \in Nat, NEW height \in Nat,
         at[1] + width <= XResolution, at[2] + height <= YResolution,
         NEW value, \A k \in 0 .. (width * height - 1) : value[k] \in PixelValues /\ Opaque(value[k])
  PROVE  LET f == Paint(frame, ImagePixels(at, width, height, value))
         IN  /\ Pixels(f) /\ DOMAIN f \subseteq OnScreen
             /\ \A k \in 0 .. (width * height - 1) :
                  f[PixelOfImage(at, width, k)] = value[k]
<1> DEFINE values == ImagePixels(at, width, height, value)
           f == Paint(frame, values)
<1>1. at[1] \in 0 .. (XResolution - 1) /\ at[2] \in 0 .. (YResolution - 1)
  BY CornerTyped
<1>2. /\ Pixels(values) /\ DOMAIN values \subseteq OnScreen
      /\ \A k \in 0 .. (width * height - 1) :
           /\ PixelOfImage(at, width, k) \in DOMAIN values
           /\ values[PixelOfImage(at, width, k)] = value[k]
  <2>1. \A k \in 0 .. (width * height - 1) : value[k] \in PixelValues
    OBVIOUS
  <2> QED BY <1>1, <2>1, ImageDrawn
<1> HIDE DEF values
<1>3. Pixels(frame) /\ DOMAIN frame = {}
  BY Nothing
<1>4. Pixels(f)
  BY <1>2, <1>3, PaintedPixels
<1>5. DOMAIN f \subseteq OnScreen
  <2>1. DOMAIN f = DOMAIN frame \cup DOMAIN values
    BY PaintedWhere
  <2> QED BY <1>2, <1>3, <2>1
<1>6. ASSUME NEW k \in 0 .. (width * height - 1)
      PROVE  f[PixelOfImage(at, width, k)] = value[k]
  <2>1. PICK o : o = PixelOfImage(at, width, k)
    OBVIOUS
  <2>2. o \in DOMAIN values /\ values[o] = value[k]
    BY <1>1, <1>2, <2>1
  <2>3. Opaque(values[o])
    BY <2>2
  <2>4. f[o] = values[o]
    BY <2>2, <2>3, PaintedOpaque
  <2> QED BY <2>1, <2>2, <2>4
<1> HIDE DEF f
<1> QED BY <1>4, <1>5, <1>6, Zenon DEF f, values

\* Powers of 2 are what they should be,
LEMMA Bits ==
  /\ Bit[0] = 1
  /\ \A k \in Nat : Bit[k] \in Nat \ {0} /\ Bit[k + 1] = 2 * Bit[k]
<1> DEFINE step(g, k) == IF k = 0 THEN 1 ELSE 2 * g[k - 1]
           Law(g) == g = [k \in Nat |-> step(g, k)]
           w == CHOOSE g : Law(g)
           G == [n \in Nat |-> 2 * n]
<1>1. Bit = w
  BY Zenon DEF Bit
<1>2. 1 \in Nat /\ G \in [Nat -> Nat]
  OBVIOUS
<1>3. PICK f \in [Nat -> Nat] : f[0] = 1 /\ \A n \in Nat : f[n + 1] = G[f[n]]
  <2> HIDE DEF G
  <2>1. PICK S, a : S = Nat /\ a = 1
    OBVIOUS
  <2>2. a \in S /\ G \in [S -> S]
    BY <1>2, <2>1
  <2>3. \E f \in [Nat -> S] : f[0] = a /\ \A n \in Nat : f[n + 1] = G[f[n]]
    BY <2>2, Iterated
  <2> QED BY <2>1, <2>3
<1>4. Law(f)
  <2>1. ASSUME NEW k \in Nat
        PROVE  f[k] = step(f, k)
    <3>1. CASE k = 0
      BY <1>3, <3>1
    <3>2. CASE k # 0
      <4>1. PICK n \in Nat : k = n + 1 /\ n = k - 1
        <5>1. k - 1 \in Nat /\ k = (k - 1) + 1
          BY <3>2
        <5> QED BY <5>1
      <4>2. f[k] = 2 * f[n]
        BY <1>3, <4>1
      <4> QED BY <3>2, <4>1, <4>2
    <3> QED BY <3>1, <3>2
  <2> HIDE DEF step
  <2> QED BY <1>3, <2>1
<1>5. Law(w)
  <2> HIDE DEF Law
  <2> QED BY <1>4, Zenon
<1>6. ASSUME NEW k \in Nat
      PROVE  w[k] = step(w, k)
  <2> HIDE DEF w, step
  <2> QED BY <1>5
<1> HIDE DEF w
<1>7. w[0] = 1
  BY <1>6
<1>8. ASSUME NEW k \in Nat
      PROVE  w[k + 1] = 2 * w[k]
  <2>1. PICK n \in Nat : n = k + 1 /\ n # 0 /\ n - 1 = k
    OBVIOUS
  <2>2. w[n] = 2 * w[n - 1]
    BY <1>6, <2>1
  <2> QED BY <2>1, <2>2
<1> DEFINE Typed == {k \in Nat : w[k] \in Nat \ {0}}
<1>9. Typed = Nat
  <2>1. 0 \in Typed
    BY <1>7
  <2>2. ASSUME NEW k \in Typed
        PROVE  k + 1 \in Typed
    <3>1. k \in Nat /\ w[k] \in Nat \ {0}
      OBVIOUS
    <3>2. 2 * w[k] \in Nat \ {0}
      BY <3>1
    <3> QED BY <1>8, <3>1, <3>2
  <2> HIDE DEF Typed
  <2>3. Typed \in SUBSET Nat
    BY DEF Typed
  <2> QED BY <2>1, <2>2, <2>3, ByInduction
<1>10. \A k \in Nat : w[k] \in Nat \ {0}
  BY <1>9
<1> HIDE DEF Typed
<1> QED BY <1>1, <1>7, <1>8, <1>10

\* and grow.
LEMMA BitsGrow ==
  ASSUME NEW m \in Nat, NEW n \in Nat, m < n
  PROVE  Bit[m] < Bit[n]
<1> DEFINE Above == {d \in Nat : Bit[m] < Bit[m + 1 + d]}
<1>1. 0 \in Above
  <2>1. Bit[m + 1] = 2 * Bit[m] /\ Bit[m] \in Nat \ {0} /\ m + 1 + 0 = m + 1
    BY Bits
  <2> QED BY <2>1
<1>2. ASSUME NEW d \in Above
      PROVE  d + 1 \in Above
  <2>1. PICK e \in Nat : e = m + 1 + d /\ m + 1 + (d + 1) = e + 1
    OBVIOUS
  <2>2. Bit[e + 1] = 2 * Bit[e] /\ Bit[e] \in Nat \ {0} /\ Bit[m] \in Nat
    BY Bits
  <2>3. Bit[m] < Bit[e]
    BY <2>1
  <2>4. Bit[m] < Bit[e + 1]
    BY <2>2, <2>3
  <2> QED BY <2>1, <2>4
<1>3. Above = Nat
  <2> HIDE DEF Above
  <2>1. Above \in SUBSET Nat
    BY DEF Above
  <2> QED BY <1>1, <1>2, <2>1, ByInduction
<1>4. PICK d \in Nat : n = m + 1 + d
  <2>1. n - (m + 1) \in Nat /\ n = m + 1 + (n - (m + 1))
    OBVIOUS
  <2> QED BY <2>1
<1> QED BY <1>3, <1>4

\* The bit and the word of the next pixel.
NextBit(m) ==
  LET r == (2 * m.r) % Bit[WordBits]
  IN  IF r = 0 THEN [r |-> 1, word |-> m.word + 1] ELSE [r |-> r, word |-> m.word]

\* The walk over the mask step by step.
LEMMA MaskSteps ==
  ASSUME ConstantsAssumption
  PROVE  /\ MaskWalk[0] = [r |-> 1, word |-> 1]
         /\ \A k \in Nat : MaskWalk[k + 1] = NextBit(MaskWalk[k])
<1> DEFINE S == [r : Nat, word : Nat]
           a == [r |-> 1, word |-> 1]
           step(g, k) == IF k = 0 THEN a
                         ELSE LET r == (2 * g[k - 1].r) % Bit[WordBits]
                              IN  IF r = 0 THEN [r |-> 1, word |-> g[k - 1].word + 1]
                                           ELSE [g[k - 1] EXCEPT !.r = r]
           Law(g) == g = [k \in Nat |-> step(g, k)]
           w == CHOOSE g : Law(g)
           G == [m \in S |-> NextBit(m)]
<1>1. MaskWalk = w
  BY Zenon DEF MaskWalk
<1>2. ASSUME NEW m \in S
      PROVE  /\ NextBit(m) \in S
             /\ ((2 * m.r) % Bit[WordBits] # 0 =>
                  NextBit(m) = [m EXCEPT !.r = (2 * m.r) % Bit[WordBits]])
             /\ ((2 * m.r) % Bit[WordBits] = 0 => NextBit(m) = [r |-> 1, word |-> m.word + 1])
  <2>1. Bit[WordBits] \in Nat \ {0}
    BY Bits, Sizes
  <2>2. 2 * m.r \in Int
    OBVIOUS
  <2>3. PICK r \in Nat : r = (2 * m.r) % Bit[WordBits]
    BY <2>1, <2>2, Wrapped
  <2>4. NextBit(m) = IF r = 0 THEN [r |-> 1, word |-> m.word + 1] ELSE [r |-> r, word |-> m.word]
    BY <2>3, Zenon DEF NextBit
  <2>5. [m EXCEPT !.r = r] = [r |-> r, word |-> m.word]
    OBVIOUS
  <2> QED BY <2>3, <2>4, <2>5
<1>3. a \in S /\ G \in [S -> S]
  BY <1>2
<1>4. PICK f \in [Nat -> S] : f[0] = a /\ \A n \in Nat : f[n + 1] = G[f[n]]
  <2> HIDE DEF G, S, a
  <2> QED BY <1>3, Iterated
<1>5. Law(f)
  <2>1. ASSUME NEW k \in Nat
        PROVE  f[k] = step(f, k)
    <3>1. CASE k = 0
      BY <1>4, <3>1
    <3>2. CASE k # 0
      <4>1. PICK n \in Nat : k = n + 1 /\ n = k - 1
        <5>1. k - 1 \in Nat /\ k = (k - 1) + 1
          BY <3>2
        <5> QED BY <5>1
      <4>2. PICK m \in S : m = f[n]
        BY <1>4
      <4>3. f[k] = NextBit(m)
        BY <1>4, <4>1, <4>2
      <4>4. step(f, k) = IF (2 * m.r) % Bit[WordBits] = 0 THEN [r |-> 1, word |-> m.word + 1]
                         ELSE [m EXCEPT !.r = (2 * m.r) % Bit[WordBits]]
        BY <3>2, <4>1, <4>2, Zenon
      <4> HIDE DEF step, S
      <4> QED BY <1>2, <4>3, <4>4
    <3> QED BY <3>1, <3>2
  <2> HIDE DEF step
  <2> QED BY <1>4, <2>1
<1>6. Law(w)
  <2> HIDE DEF Law
  <2> QED BY <1>5, Zenon
<1>7. ASSUME NEW k \in Nat
      PROVE  w[k] = step(w, k)
  <2> HIDE DEF w, step
  <2> QED BY <1>6
<1> HIDE DEF w
<1>8. w[0] = a
  BY <1>7
<1> DEFINE Right == {k \in Nat : w[k] \in S}
<1>9. ASSUME NEW k \in Nat, w[k] \in S
      PROVE  w[k + 1] = NextBit(w[k])
  <2>1. PICK n \in Nat : n = k + 1 /\ n # 0 /\ n - 1 = k
    OBVIOUS
  <2>2. PICK m \in S : m = w[k]
    BY <1>9
  <2>3. w[n] = step(w, n)
    BY <1>7
  <2>4. step(w, n) = IF (2 * m.r) % Bit[WordBits] = 0 THEN [r |-> 1, word |-> m.word + 1]
                     ELSE [m EXCEPT !.r = (2 * m.r) % Bit[WordBits]]
    BY <2>1, <2>2, Zenon
  <2> HIDE DEF step, S
  <2> QED BY <1>2, <2>1, <2>2, <2>3, <2>4
<1>10. Right = Nat
  <2>1. 0 \in Right
    BY <1>8
  <2>2. ASSUME NEW k \in Right
        PROVE  k + 1 \in Right
    <3>1. PICK m \in S : m = w[k]
      OBVIOUS
    <3>2. k \in Nat /\ NextBit(m) \in S
      BY <1>2
    <3> HIDE DEF S
    <3> QED BY <1>9, <3>1, <3>2
  <2> HIDE DEF Right
  <2>3. Right \in SUBSET Nat
    BY DEF Right
  <2> QED BY <2>1, <2>2, <2>3, ByInduction
<1> HIDE DEF S
<1> QED BY <1>1, <1>8, <1>9, <1>10 DEF Right

\* The walk along the mask finds bit k % WordBits of word k \div WordBits.
LEMMA MaskFinds ==
  ASSUME ConstantsAssumption, NEW n \in Nat
  PROVE  MaskWalk[n] = [r |-> Bit[n % WordBits], word |-> 1 + (n \div WordBits)]
<1> DEFINE Found == {k \in Nat : MaskWalk[k] = [r |-> Bit[k % WordBits], word |-> 1 + (k \div WordBits)]}
<1>1. PICK B \in Nat \ {0} : B = WordBits
  BY Sizes
<1>2. 0 \in Found
  <2>1. 0 % B = 0 /\ 0 \div B = 0
    <3>1. 0 \in 0 .. (B - 1) /\ 0 + 0 * B = 0
      BY SMT
    <3> QED BY <3>1, Divided
  <2> QED BY <1>1, <2>1, Bits, MaskSteps
<1>3. ASSUME NEW k \in Found
      PROVE  k + 1 \in Found
  <2>1. PICK s \in 0 .. (B - 1), q \in Nat : s = k % B /\ q = k \div B /\ k = s + q * B
    BY Euclid
  <2>2. PICK p \in Nat : p = q * B
    BY Multiples
  <2>3. MaskWalk[k] = [r |-> Bit[s], word |-> 1 + q]
    BY <1>1, <2>1
  <2>4. k \in Nat /\ MaskWalk[k + 1] = NextBit([r |-> Bit[s], word |-> 1 + q])
    BY <2>3, MaskSteps
  <2>5. s \in Nat /\ s + 1 \in Nat /\ Bit[s + 1] = 2 * Bit[s] /\ Bit[s + 1] \in Nat \ {0} /\ Bit[B] \in Nat \ {0}
    BY Bits
  <2>6. PICK v \in Nat \ {0}, all \in Nat \ {0} : v = 2 * Bit[s] /\ v = Bit[s + 1] /\ all = Bit[B]
    BY <2>5
  <2>7. NextBit([r |-> Bit[s], word |-> 1 + q])
          = IF v % all = 0 THEN [r |-> 1, word |-> 1 + q + 1] ELSE [r |-> v % all, word |-> 1 + q]
    <3>1. \A b, c : [r |-> b, word |-> c].r = b /\ [r |-> b, word |-> c].word = c
      OBVIOUS
    <3> QED BY <1>1, <2>6, <3>1, Zenon DEF NextBit
  <2>8. CASE s + 1 < B
    <3>1. v \in 0 .. (all - 1)
      BY <2>5, <2>6, <2>8, BitsGrow
    <3>2. v % all = v
      BY <3>1, Wrapped
    <3>3. MaskWalk[k + 1] = [r |-> Bit[s + 1], word |-> 1 + q]
      BY <2>4, <2>6, <2>7, <3>2
    <3>4. (k + 1) % B = s + 1 /\ (k + 1) \div B = q
      <4>1. s + 1 \in 0 .. (B - 1) /\ k + 1 = (s + 1) + q * B
        BY <2>1, <2>2, <2>8
      <4> QED BY <4>1, Divided
    <3> QED BY <1>1, <2>4, <3>3, <3>4
  <2>9. CASE s + 1 = B
    <3>1. v % all = 0
      <4>1. v = all
        BY <2>6, <2>9
      <4>2. 0 \in 0 .. (all - 1) /\ v = 0 + 1 * all
        BY <4>1
      <4> QED BY <4>2, Divided
    <3>2. MaskWalk[k + 1] = [r |-> 1, word |-> 1 + q + 1]
      BY <2>4, <2>7, <3>1
    <3>3. (k + 1) % B = 0 /\ (k + 1) \div B = q + 1
      <4>1. (q + 1) * B = q * B + 1 * B /\ 1 * B = B
        BY Multiples
      <4>2. 0 \in 0 .. (B - 1) /\ k + 1 = 0 + (q + 1) * B /\ q + 1 \in Nat
        BY <2>1, <2>2, <2>9, <4>1
      <4>3. (0 + (q + 1) * B) % B = 0 /\ (0 + (q + 1) * B) \div B = q + 1
        BY <4>2, Divided
      <4> QED BY <4>2, <4>3
    <3>4. 1 + q + 1 = 1 + (q + 1)
      OBVIOUS
    <3> QED BY <1>1, <2>4, <3>2, <3>3, <3>4, Bits
  <2> QED BY <2>1, <2>8, <2>9
<1>4. Found = Nat
  <2> HIDE DEF Found
  <2>1. Found \in SUBSET Nat
    BY DEF Found
  <2> QED BY <1>2, <1>3, <2>1, ByInduction
<1> QED BY <1>4

\* An image of Images, typed.
LEMMA ImageTyped ==
  ASSUME ConstantsAssumption, NEW image \in Images
  PROVE  /\ image.width \in Nat /\ image.height \in Nat
         /\ \A k \in 0 .. (image.width * image.height - 1) :
              image.data[k + 1] \in PixelValues /\ Opaque(image.data[k + 1])
<1>1. /\ image.width \in Nat /\ image.height \in Nat
      /\ image.data \in [1 .. (image.width * image.height) -> {c \in PixelValues : c.blue = 255}]
  BY DEF ConstantsAssumption
<1>2. PICK n \in Nat : n = image.width * image.height
  <2>1. image.width * image.height \in Nat
    BY <1>1, SMT
  <2> QED BY <2>1
<1>3. ASSUME NEW k \in 0 .. (n - 1)
      PROVE  image.data[k + 1] \in PixelValues /\ Opaque(image.data[k + 1])
  <2>1. k + 1 \in 1 .. n
    OBVIOUS
  <2>2. image.data[k + 1] \in {c \in PixelValues : c.blue = 255}
    BY <1>1, <1>2, <2>1
  <2> QED BY <2>2 DEF Opaque
<1> QED BY <1>1, <1>2, <1>3

\* An image is drawn (lines 228-237).
LEMMA ImageStep ==
  ASSUME ConstantsAssumption, ScreenInv, NEW at \in Corners, NEW image \in Images,
         at[1] + image.width <= XResolution, at[2] + image.height <= YResolution,
         sc_putimg(at, image)
  PROVE  ScreenInv'
<1> DEFINE value == [k \in 0 .. (image.width * image.height - 1) |-> image.data[k + 1]]
           f == Paint(frame, ImagePixels(at, image.width, image.height, value))
           made == <<"sc_putimg", at, image>>
<1>1. Draw(made, f) /\ mode = "ready"
  BY Zenon DEF sc_putimg, Draw
<1>2. made[1] = "sc_putimg" /\ made[2] = at /\ made[3] = image
  OBVIOUS
<1> HIDE DEF made
<1>3. /\ image.width \in Nat /\ image.height \in Nat
      /\ \A k \in 0 .. (image.width * image.height - 1) : value[k] \in PixelValues /\ Opaque(value[k])
      /\ \A k \in 0 .. (image.width * image.height - 1) : value[k] = image.data[k + 1]
  BY ImageTyped
<1> HIDE DEF value
<1>4. /\ Pixels(f) /\ DOMAIN f \subseteq OnScreen
      /\ \A k \in 0 .. (image.width * image.height - 1) : f[PixelOfImage(at, image.width, k)] = value[k]
  BY <1>1, <1>3, ImageShown
<1> HIDE DEF f
<1>5. ImagesUpright'
  <2>1. frame' = f /\ call' = made /\ ~Done("sc_putimg_masked")'
    BY <1>1, <1>2, OneShape DEF Done
  <2>2. \A k \in 0 .. (call'[3].width * call'[3].height - 1) :
          frame'[Offset(call'[2][1] + (k % call'[3].width), call'[2][2] + (k \div call'[3].width))]
            = call'[3].data[k + 1]
    <3>1. ASSUME NEW k \in 0 .. (image.width * image.height - 1)
          PROVE  f[Offset(at[1] + (k % image.width), at[2] + (k \div image.width))] = image.data[k + 1]
      BY <1>3, <1>4, Zenon DEF PixelOfImage
    <3> QED BY <1>2, <2>1, <3>1, Zenon
  <2> QED BY <2>1, <2>2, Zenon DEF ImagesUpright
<1>6. ShapesRight'
  BY <1>1, <1>2, <1>5, OneShape DEF ShapesRight
<1> QED BY <1>1, <1>2, <1>4, <1>6, ShapeStep

\* An image is drawn in two colours (lines 239-253).
LEMMA MaskedStep ==
  ASSUME ConstantsAssumption, ScreenInv, NEW at \in Corners, NEW image \in Images,
         at[1] + image.width <= XResolution, at[2] + image.height <= YResolution,
         NEW c1 \in Colors, NEW c2 \in Colors, sc_putimg_masked(at, image, c1, c2)
  PROVE  ScreenInv'
<1> DEFINE bit(m) == (image.mask[m.word] \div m.r) % 2
           value == [k \in 0 .. (image.width * image.height - 1) |-> IF bit(MaskWalk[k]) = 1 THEN c1 ELSE c2]
           f == Paint(frame, ImagePixels(at, image.width, image.height, value))
           made == <<"sc_putimg_masked", at, image, c1, c2>>
           masked(k) == (image.mask[1 + (k \div WordBits)] \div Bit[k % WordBits]) % 2
<1>1. Draw(made, f) /\ mode = "ready"
  BY Zenon DEF sc_putimg_masked, Draw
<1>2. made[1] = "sc_putimg_masked" /\ made[2] = at /\ made[3] = image /\ made[4] = c1 /\ made[5] = c2
  OBVIOUS
<1> HIDE DEF made
<1>3. c1 \in PixelValues /\ Opaque(c1) /\ c2 \in PixelValues /\ Opaque(c2)
  BY ColorTyped
<1>4. image.width \in Nat /\ image.height \in Nat
  BY ImageTyped
<1>5. ASSUME NEW k \in 0 .. (image.width * image.height - 1)
      PROVE  value[k] = IF masked(k) = 1 THEN c1 ELSE c2
  <2>1. k \in Nat
    OBVIOUS
  <2>2. PICK r, word : /\ MaskWalk[k] = [r |-> r, word |-> word]
                       /\ r = Bit[k % WordBits] /\ word = 1 + (k \div WordBits)
    BY <2>1, MaskFinds
  <2>3. MaskWalk[k].r = r /\ MaskWalk[k].word = word
    BY <2>2
  <2>4. bit(MaskWalk[k]) = masked(k)
    BY <2>2, <2>3, Zenon
  <2>5. value[k] = IF bit(MaskWalk[k]) = 1 THEN c1 ELSE c2
    OBVIOUS
  <2> HIDE DEF bit, masked, value
  <2> QED BY <2>4, <2>5
<1> HIDE DEF masked
<1>6. \A k \in 0 .. (image.width * image.height - 1) : value[k] \in PixelValues /\ Opaque(value[k])
  <2> HIDE DEF value
  <2> QED BY <1>3, <1>5
<1> HIDE DEF value
<1>7. /\ Pixels(f) /\ DOMAIN f \subseteq OnScreen
      /\ \A k \in 0 .. (image.width * image.height - 1) : f[PixelOfImage(at, image.width, k)] = value[k]
  BY <1>1, <1>4, <1>6, ImageShown
<1> HIDE DEF f
<1>8. ImagesUpright'
  <2>1. frame' = f /\ call' = made /\ ~Done("sc_putimg")'
    BY <1>1, <1>2, OneShape DEF Done
  <2>2. \A k \in 0 .. (call'[3].width * call'[3].height - 1) :
          frame'[Offset(call'[2][1] + (k % call'[3].width), call'[2][2] + (k \div call'[3].width))]
            = IF (call'[3].mask[1 + (k \div WordBits)] \div Bit[k % WordBits]) % 2 = 1
              THEN call'[4] ELSE call'[5]
    <3>1. ASSUME NEW k \in 0 .. (image.width * image.height - 1)
          PROVE  f[Offset(at[1] + (k % image.width), at[2] + (k \div image.width))]
                   = IF (image.mask[1 + (k \div WordBits)] \div Bit[k % WordBits]) % 2 = 1 THEN c1 ELSE c2
      BY <1>5, <1>7, Zenon DEF PixelOfImage, masked
    <3> QED BY <1>2, <2>1, <3>1, Zenon
  <2> QED BY <2>1, <2>2, Zenon DEF ImagesUpright
<1>9. ShapesRight'
  BY <1>1, <1>2, <1>8, OneShape DEF ShapesRight
<1> QED BY <1>1, <1>2, <1>7, <1>9, ShapeStep

------------------------------------------------------------------------------
\* All steps.

\* A dump from its end is a sequence of bytes too.
LEMMA Reversed ==
  ASSUME NEW S, NEW s \in Seq(S)
  PROVE  [i \in DOMAIN s |-> s[Len(s) + 1 - i]] \in Seq(S)
<1>1. PICK n \in Nat : n = Len(s) /\ DOMAIN s = 1 .. n /\ \A i \in 1 .. n : s[i] \in S
  OBVIOUS
<1>2. \A i \in 1 .. n : n + 1 - i \in 1 .. n
  OBVIOUS
<1>3. [i \in 1 .. n |-> s[n + 1 - i]] \in [1 .. n -> S]
  BY <1>1, <1>2
<1>4. \A f \in [1 .. n -> S] : f \in Seq(S)
  BY SeqDef
<1>5. [i \in 1 .. n |-> s[n + 1 - i]] \in Seq(S)
  BY <1>3, <1>4
<1> QED BY <1>1, <1>5

\* Setting up and changing colours keeps the invariant (lines 16-34).
LEMMA SetUpSteps ==
  ASSUME ConstantsAssumption, ScreenInv,
         \/ \E found \in BOOLEAN : initialize_vbe(found, White, OpaqueBlack)
         \/ \E c \in Colors \ {background_color} : sc_set_foreground(c)
         \/ \E c \in Colors \ {foreground_color} : sc_set_background(c)
  PROVE  ScreenInv'
<1>1. SetUpRight
  BY DEF ScreenInv
<1>2. ASSUME NEW found \in BOOLEAN, initialize_vbe(found, White, OpaqueBlack)
      PROVE  ScreenInv'
  <2>1. White \in Colors /\ OpaqueBlack \in Colors
    BY DEF ConstantsAssumption
  <2>2. White # OpaqueBlack
    BY DEF White, OpaqueBlack
  <2>3. /\ mode = "off" /\ mode' = "ready" /\ font' \in {font, FontFile}
        /\ foreground_color' = White /\ background_color' = OpaqueBlack
        /\ UNCHANGED <<frame, textVars, call>>
    BY <1>2 DEF initialize_vbe
  <2> QED BY <2>1, <2>2, <2>3, SetUpStep
<1>3. ASSUME NEW c \in Colors \ {background_color}, sc_set_foreground(c)
      PROVE  ScreenInv'
  <2>1. /\ mode = "ready" /\ mode' = "ready" /\ font' \in {font, FontFile}
        /\ foreground_color' = c /\ background_color' = background_color
        /\ UNCHANGED <<frame, textVars, call>>
    BY <1>3 DEF sc_set_foreground
  <2>2. background_color \in Colors
    BY <1>1, <2>1 DEF SetUpRight
  <2> QED BY <2>1, <2>2, SetUpStep
<1>4. ASSUME NEW c \in Colors \ {foreground_color}, sc_set_background(c)
      PROVE  ScreenInv'
  <2>1. /\ mode = "ready" /\ mode' = "ready" /\ font' \in {font, FontFile}
        /\ foreground_color' = foreground_color /\ background_color' = c
        /\ UNCHANGED <<frame, textVars, call>>
    BY <1>4 DEF sc_set_background
  <2>2. foreground_color \in Colors
    BY <1>1, <2>1 DEF SetUpRight
  <2> QED BY <2>1, <2>2, SetUpStep
<1> QED BY <1>2, <1>3, <1>4

\* So does the start of a text or a dump.
LEMMA TextStarts ==
  ASSUME ConstantsAssumption, ScreenInv, NEW at \in Corners
  PROVE  /\ \A s \in Strings : sc_print(at, s) => ScreenInv'
         /\ \A b \in Dumps : sc_print_hex(at, b) \/ sc_print_rhex(at, b) => ScreenInv'
<1>1. ASSUME NEW s \in Strings, sc_print(at, s)
      PROVE  ScreenInv'
  <2>1. PICK name, kind : name = "sc_print" /\ kind = "print"
    OBVIOUS
  <2>2. StartText(name, kind, at, s)
    BY <1>1, <2>1 DEF sc_print
  <2> QED BY <2>1, <2>2, StartStep
<1>2. ASSUME NEW b \in Dumps, sc_print_hex(at, b)
      PROVE  ScreenInv'
  <2>1. PICK name, kind : name = "sc_print_hex" /\ kind = "hex"
    OBVIOUS
  <2>2. StartText(name, kind, at, b)
    BY <1>2, <2>1 DEF sc_print_hex
  <2>3. b \in Seq(0 .. 255)
    BY TextsTyped
  <2> QED BY <2>1, <2>2, <2>3, StartStep
<1>3. ASSUME NEW b \in Dumps, sc_print_rhex(at, b)
      PROVE  ScreenInv'
  <2>1. PICK name, kind, text :
          name = "sc_print_rhex" /\ kind = "rhex" /\ text = [i \in DOMAIN b |-> b[Len(b) + 1 - i]]
    OBVIOUS
  <2>2. StartText(name, kind, at, text)
    BY <1>3, <2>1 DEF sc_print_rhex
  <2>3. b \in Seq(0 .. 255)
    BY TextsTyped
  <2>4. text \in Seq(0 .. 255)
    BY <2>1, <2>3, Reversed
  <2> QED BY <2>1, <2>2, <2>4, StartStep
<1> QED BY <1>1, <1>2, <1>3

\* So does drawing an image (lines 228-253).
LEMMA ImageSteps ==
  ASSUME ConstantsAssumption, ScreenInv,
         \E at \in Corners, image \in Images :
           /\ at[1] + image.width <= XResolution /\ at[2] + image.height <= YResolution
           /\ \/ sc_putimg(at, image)
              \/ \E c1, c2 \in Colors : c1 # c2 /\ sc_putimg_masked(at, image, c1, c2)
  PROVE  ScreenInv'
BY ImageStep, MaskedStep

\* So does every step.
LEMMA ScreenSteps ==
  ASSUME ConstantsAssumption, ScreenInv, Next
  PROVE  ScreenInv'
<1>1. CASE \/ \E found \in BOOLEAN : initialize_vbe(found, White, OpaqueBlack)
           \/ \E c \in Colors \ {background_color} : sc_set_foreground(c)
           \/ \E c \in Colors \ {foreground_color} : sc_set_background(c)
  BY <1>1, SetUpSteps
<1>2. CASE \E at \in Corners, s \in Strings : sc_print(at, s)
  BY <1>2, TextStarts
<1>3. CASE \E at \in Corners, b \in Dumps : sc_print_hex(at, b) \/ sc_print_rhex(at, b)
  BY <1>3, TextStarts
<1>4. CASE PrintChar
  BY <1>4, PrintStep
<1>5. CASE HexByte
  BY <1>5, HexStep
<1>6. CASE RhexByte
  BY <1>6, RhexStep
<1>7. CASE EndText
  BY <1>7, EndStep
<1>8. CASE sc_clear
  BY <1>8, ClearStep
<1>9. CASE \E under \in Colors \cup Mixed, c \in Mixed : SetPixelTwice(<<0, 0>>, under, c)
  BY <1>9, PixelStep
<1>10. CASE \E from, to \in Corners, c \in Colors :
              \/ sc_line(from, to, c)
              \/ sc_fill(from, to, c)
              \/ \E thickness \in Thicknesses : sc_box(from, to, thickness, c)
  <2>1. PICK from \in Corners, to \in Corners, c \in Colors :
              \/ sc_line(from, to, c)
              \/ sc_fill(from, to, c)
              \/ \E thickness \in Thicknesses : sc_box(from, to, thickness, c)
    BY <1>10
  <2>2. CASE sc_line(from, to, c)
    BY <2>2, LineStep
  <2>3. CASE sc_fill(from, to, c)
    BY <2>3, FillStep
  <2>4. CASE \E thickness \in Thicknesses : sc_box(from, to, thickness, c)
    BY <2>4, BoxStep
  <2> QED BY <2>1, <2>2, <2>3, <2>4
<1>11. CASE \E at \in Corners, image \in Images :
              /\ at[1] + image.width <= XResolution /\ at[2] + image.height <= YResolution
              /\ \/ sc_putimg(at, image)
                 \/ \E c1, c2 \in Colors : c1 # c2 /\ sc_putimg_masked(at, image, c1, c2)
  BY <1>11, ImageSteps
<1> QED BY <1>1, <1>2, <1>3, <1>4, <1>5, <1>6, <1>7, <1>8, <1>9, <1>10, <1>11, Zenon DEF Next

\* So does a step of somebody else.
LEMMA ScreenStutters ==
  ASSUME ScreenInv, UNCHANGED vars
  PROVE  ScreenInv'
<1>1. /\ frame' = frame /\ font' = font /\ foreground_color' = foreground_color
      /\ background_color' = background_color /\ mode' = mode /\ cursor' = cursor /\ rest' = rest
      /\ shown' = shown /\ call' = call
  BY DEF vars
<1>2. SetUpRight' /\ FrameRight' /\ TextRuns' /\ StaysInside'
  BY <1>1 DEF ScreenInv, SetUpRight, FrameRight, Pixels, TextRuns, StaysInside, OnScreen,
     BorderFits
<1>3. Printed' /\ Dumped'
  <2>1. (Aligned' <=> Aligned) /\ (Plain' <=> Plain) /\ (\A n : Progress(n)' <=> Progress(n))
    BY <1>1 DEF Aligned, Plain, Progress
  <2>2. \A f, p : Reads(f, p)' <=> Reads(f, p)
    BY <1>1 DEF Reads
  <2> QED BY <1>1, <2>1, <2>2 DEF ScreenInv, Printed, Dumped, InColumns, Legible
<1>4. ShapesRight'
  <2>1. \A name : Done(name)' <=> Done(name)
    BY <1>1 DEF Done
  <2>2. RectanglesExact'
    BY <1>1, <2>1, Zenon DEF ScreenInv, ShapesRight, RectanglesExact
  <2>3. LineStraight'
    BY <1>1, <2>1, Zenon DEF ScreenInv, ShapesRight, LineStraight
  <2>4. ImagesUpright'
    BY <1>1, <2>1, Zenon DEF ScreenInv, ShapesRight, ImagesUpright
  <2>5. BlendBetween'
    BY <1>1, <2>1, Zenon DEF ScreenInv, ShapesRight, BlendBetween, Left, Under
  <2> QED BY <2>2, <2>3, <2>4, <2>5 DEF ShapesRight
<1> QED BY <1>2, <1>3, <1>4 DEF ScreenInv

\* The invariant, for every screen, font, text and image (vbe_driver.c).
THEOREM Invariance == ConstantsAssumption => (Spec => []ScreenInv)
<1> SUFFICES ASSUME ConstantsAssumption
             PROVE  Spec => []ScreenInv
  OBVIOUS
<1>1. Init => ScreenInv
  BY ScreenInit
<1>2. ScreenInv /\ [Next]_vars => ScreenInv'
  BY ScreenSteps, ScreenStutters
<1> QED BY <1>1, <1>2, PTL DEF Spec

\* Text in columns comes out readable and whole, a dump loses no digit but the one
\* its cursor wraps over, and what is drawn stays on the screen or, for text,
\* in its buffer (lines 69-172).
THEOREM TextStaysRight == ConstantsAssumption => (Spec => []TextRight)
<1> SUFFICES ASSUME ConstantsAssumption
             PROVE  Spec => []TextRight
  OBVIOUS
<1>1. ScreenInv => TextRight
  BY IsTyped, IsTextReadable, IsDumpReadable DEF ScreenInv, TextRight
<1> QED BY <1>1, Invariance, PTL

\* Rectangles, boxes and images are exact, lines are nowhere more than half a
\* pixel off, blended channels lie between what is blended (lines 56-67, 174-253).
THEOREM ShapesStayRight == ConstantsAssumption => (Spec => []ShapesRight)
<1> SUFFICES ASSUME ConstantsAssumption
             PROVE  Spec => []ShapesRight
  OBVIOUS
<1>1. ScreenInv => ShapesRight
  BY DEF ScreenInv
<1> QED BY <1>1, Invariance, PTL
=============================================================================
