------------------------------ MODULE MCScreen ------------------------------
(* A display of a few character cells for Screen, two fonts, two commands  *)
(* that Tab completes to inputs of two and of three rows.                  *)
EXTENDS Screen

CONSTANTS a, b

SmallCommands == {<<a, b, b, a, a, b, b, a, b, b>>, <<b, a, a, b>>}

\* seven rows of the small font, with padding, whose width the large font does
\* not divide; five rows of the large font, whose height the small one does not
SmallDisplays == {[width |-> 5, stride |-> 6, height |-> 21],
                  [width |-> 4, stride |-> 4, height |-> 20]}

TwoFonts == <<[w |-> 1, px |-> 2, pitch |-> 3], [w |-> 2, px |-> 3, pitch |-> 4]>>

Moves == {<<1, 3>>, <<-1, 7>>}
==============================================================================
