------------------------------ MODULE Graphics ------------------------------
(***************************************************************************)
(* Drawing (graphics.c): the shapes a button is made of, drawn one after   *)
(* the other over whatever the screen shows already.  The drawing chip     *)
(* draws lines; a circle is the program's own: an outline by the midpoint  *)
(* algorithm, then a flood fill from the centre that reads the screen back *)
(* and stops at pixels of its own colour.  So what a circle becomes        *)
(* depends on what was drawn there before.                                 *)
(*                                                                         *)
(* screen is a window on the part of the screen the shapes may touch.  One *)
(* step is one shape, or one turn of fill's main loop.                     *)
(***************************************************************************)
EXTENDS Integers, Sequences, SequencesExt, FiniteSetsExt

VARIABLES
  screen,    \* screen[y][x]: the colour of a pixel
  todo,      \* shapes still to be drawn
  XYStack,   \* the pixels from which fill has still to go on
  filling    \* the colour fill is filling with, or NoColour

graphicsVars == <<screen, todo, XYStack, filling>>

BLACK == 0
WHITE == 63
RED == 48
LIME == 12
YELLOW == 60
CYAN == 15
FORESTGREEN == 8
MAROON == 32
GREY == 42
NoColour == -1

-----------------------------------------------------------------------------
(* The shapes.                                                             *)

Circle(x0, y0, radius, c) == [op |-> "circle", x0 |-> x0, y0 |-> y0, radius |-> radius, c |-> c]

Rectangle(x1, y1, x2, y2, c) ==
  [op |-> "rectangle", x1 |-> x1, y1 |-> y1, x2 |-> x2, y2 |-> y2, c |-> c]

Triangle(way, x1, y1, height, c) ==
  [op |-> "triangle", way |-> way, x1 |-> x1, y1 |-> y1, half |-> height \div 2, c |-> c]

\* Characters of font 1 in a row; their glyphs are abstracted to the boxes they lie in.
Text(xs, y) == [op |-> "text", xs |-> xs, y |-> y, c |-> BLACK]

Lines(S) == [op |-> "lines", ends |-> S, c |-> BLACK]

Between(a, b) == IF a <= b THEN a .. b ELSE b .. a

\* n / d to the nearest integer, d > 0.
Nearest(n, d) == (2 * n + d) \div (2 * d)

\* The chip's straight line: one pixel for each step along its longer side.
LinePixels(l) ==
  LET dx == l[3] - l[1]
      dy == l[4] - l[2]
      Size(d) == IF d < 0 THEN -d ELSE d
      Sign(d) == IF d < 0 THEN -1 ELSE 1
  IN IF Size(dx) >= Size(dy)
     THEN {<<l[1] + Sign(dx) * k, l[2] + Nearest(dy * k, Size(dx))>> : k \in 0 .. Size(dx)}
     ELSE {<<l[1] + Nearest(dx * k, Size(dy)), l[2] + Sign(dy) * k>> : k \in 0 .. Size(dy)}

\* Row y2 is not drawn.
RectanglePixels(s) == Between(s.x1, s.x2) \X (s.y1 .. s.y2 - 1)

\* Lines that get longer, then shorter; the second half begins on the last line
\* of the first, and is two pixels longer in the triangles to the left and up.
TrianglePixels(s) ==
  LET Shrunk(i) == IF s.way \in {"right", "down"} THEN s.half - i - 1 ELSE s.half - i + 1
      Strokes == UNION {{<<i, i>>, <<s.half + i - 1, Shrunk(i)>>} : i \in 0 .. s.half - 1}
      At(a, b) == CASE s.way = "right" -> <<s.x1 + b, s.y1 + a>>
                    [] s.way = "left"  -> <<s.x1 - b, s.y1 + a>>
                    [] s.way = "down"  -> <<s.x1 + a, s.y1 + b>>
                    [] s.way = "up"    -> <<s.x1 + a, s.y1 - b>>
  IN UNION {{At(k[1], b) : b \in 0 .. k[2]} : k \in Strokes}

\* One turn of circle's loop.
NextOctantPixel(p) ==
  LET down == IF p.err <= 0 THEN [p EXCEPT !.y = @ + 1, !.err = @ + 2 * (p.y + 1) + 1] ELSE p
  IN IF down.err > 0 THEN [down EXCEPT !.x = @ - 1, !.err = @ - (2 * (down.x - 1) + 1)] ELSE down

\* The outline: an eighth of it by the midpoint algorithm, and its reflections.
OutlinePixels(s) ==
  LET turn[n \in 0 .. s.radius] ==
        IF n = 0 THEN [x |-> s.radius, y |-> 0, err |-> 0] ELSE NextOctantPixel(turn[n - 1])
      Eighth == {turn[n] : n \in {m \in 0 .. s.radius : turn[m].x >= turn[m].y}}
  IN UNION {{<<s.x0 + i * p.x, s.y0 + j * p.y>>, <<s.x0 + i * p.y, s.y0 + j * p.x>>} :
              i \in {-1, 1}, j \in {-1, 1}, p \in Eighth}

\* What drawing a shape writes at once; a circle's inside is filled afterwards.
Pixels(s) ==
  CASE s.op = "circle"    -> OutlinePixels(s)
    [] s.op = "rectangle" -> RectanglePixels(s)
    [] s.op = "triangle"  -> TrianglePixels(s)
    [] s.op = "lines"     -> UNION {LinePixels(l) : l \in s.ends}
    [] s.op = "text"      -> UNION {(x .. x + 4) \X (s.y .. s.y + 6) : x \in s.xs}

\* Pixels outside the window are none of the button's.
Painted(scr, S, c) ==
  [y \in DOMAIN scr |-> [x \in DOMAIN scr[y] |-> IF <<x, y>> \in S THEN c ELSE scr[y][x]]]

-----------------------------------------------------------------------------
\* Shape s, whose pixels are S, is drawn; a circle is filled after its outline.
DrawShape(s, S) ==
  /\ filling = NoColour
  /\ screen' = Painted(screen, S, s.c)
  /\ IF s.op = "circle" THEN XYStack' = <<<<s.x0, s.y0>>>> /\ filling' = s.c
                        ELSE UNCHANGED <<XYStack, filling>>
  /\ todo' = Tail(todo)

\* The span of row around x up to pixels of colour c.
XRight(row, x, c) == Min({i \in DOMAIN row : i > x /\ row[i] = c}) - 1
XLeft(row, x, c) == Max({i \in DOMAIN row : i < x /\ row[i] = c}) + 1

\* Mutant: only rows of one parity are looked at.
MutSeeds(row, y, left, right, c) ==
  IF y % 2 = 0 THEN <<>>
  ELSE SelectSeq([k \in 1 .. right - left + 1 |-> <<left + k - 1, y>>],
                 LAMBDA p : row[p[1]] # c /\ (p[1] < right => row[p[1] + 1] = c))

\* Where to go on in a row above or below the span from left to right: the
\* right end of each run of pixels that are not of colour c yet.
Seeds(row, y, left, right, c) ==
  SelectSeq([k \in 1 .. right - left + 1 |-> <<left + k - 1, y>>],
            LAMBDA p : row[p[1]] # c /\ (p[1] < right => row[p[1] + 1] = c))

\* Mutant: the top of the stack is read but not removed.
Mut_pop_pixel(s) == s

pop_pixel(s) == Front(s)

\* One turn of fill's loop, for pixel <<x, y>> of the stack.
fill(x, y, c) ==
  \E left \in {XLeft(screen[y], x, c)}, right \in {XRight(screen[y], x, c)} :
    /\ screen' = [screen EXCEPT ![y] = [i \in DOMAIN @ |-> IF i \in left .. right THEN c ELSE @[i]]]
    /\ XYStack' = pop_pixel(XYStack) \o Seeds(screen[y + 1], y + 1, left, right, c)
                                     \o Seeds(screen[y - 1], y - 1, left, right, c)
    /\ filling' = IF XYStack' = <<>> THEN NoColour ELSE c
    /\ UNCHANGED todo

Idle == filling = NoColour /\ todo = <<>>
=============================================================================
