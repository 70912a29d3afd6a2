------------------------------- MODULE MCServices -------------------------------
(***************************************************************************)
(* The services with small constants.  The memory functions work on four   *)
(* bytes: regions overlap by up to three.                                  *)
(***************************************************************************)
EXTENDS Services

------------------------------------------------------------------------------
\* A screen of four columns and three lines of glyphs, 2 by 3 pixels each; the
\* size of a row leaves the same remainder by three glyphs as that of the 1280
\* by 720 mode the loader asks for.

Pixel(a, r, g, b) == [alpha |-> a, red |-> r, green |-> g, blue |-> b]

MCColors == {Pixel(255, 255, 255, 255), Pixel(0, 0, 0, 255), Pixel(2, 163, 226, 255)}
MCMixed == {Pixel(a, r, 255, b) : a \in {0, 128, 255}, r \in {7, 255}, b \in {0, 254}}

Letters == {1, 10, 13, 32, 65, 66} \cup 48 .. 57 \cup 65 .. 70

\* Every character its own pattern.
MCFontFile == [c \in Letters |->
  {p \in (0 .. 2) \X (0 .. 1) : (c \div 2 ^ (2 * p[1] + p[2])) % 2 = 1}]

MCCorners == {<<0, 0>>, <<2, 0>>, <<4, 3>>, <<6, 5>>, <<7, 8>>, <<1, 6>>, <<0, 8>>}

MCStrings == {<<65, 66>>, <<65, 10, 66, 66, 65, 66, 65>>, <<65, 13, 66>>, <<65, 1, 66>>,
              [n \in 1 .. 13 |-> 65 + (n % 2)]}

MCDumps == {<<18, 175>>, <<18, 52, 86, 120, 154, 188>>}

MCImages == {[width |-> w, height |-> h,
              data |-> [n \in 1 .. (w * h) |-> Pixel(0, n, 0, 255)],
              mask |-> [n \in 1 .. (1 + ((w * h) \div 3)) |-> (n + m) % 8]] :
               w \in {1, 3, 5}, h \in 1 .. 3, m \in {0, 3}}

\* Frequencies on both sides of the special cases, one of each quarter of
\* either byte of the divisor, and multiples of 65536.
MCFrequencies == {0, 1, 18, 19, 25, 36, 50, 60, 72, 73, 90, 100, 146, 1000, 4660, 18643,
                  65535, 65536, 65537, 131072}

\* Left control, both shift keys, s, c, \ and the plain key a.
MCKeys == {29, 30, 31, 42, 43, 46, 54}
==============================================================================
