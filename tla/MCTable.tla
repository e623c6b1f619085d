------------------------------- MODULE MCTable -------------------------------
(***************************************************************************)
(* Files of all shapes: some a few cells large; one, 2900 x 3950, whose    *)
(* grid of 150 pieces is another after the downscale; one, 3000 x 1000,    *)
(* with the pixels for 1000 pieces only before the downscale; one without  *)
(* the pixels for 4 pieces, by one; one of each fault.                     *)
(***************************************************************************)
EXTENDS TableProps

File(w, h, f) == [width |-> w, height |-> h, fault |-> f]

SomeFiles ==
  {File(100, 50, "none"), File(100, 100, "none"), File(100, 99, "none"), File(50, 150, "none"),
   File(200, 50, "none"), File(150, 100, "none"), File(1000, 1000, "none"), File(2900, 3950, "none"), File(3000, 1000, "none"),
   File(1920, 1080, "none"), File(100, 100, "unfit"), File(100, 100, "corrupt")}

Upright ==
  [style |-> "varied", height |-> 3000, half |-> 2000, centre |-> 0, neck |-> 50,
   lean |-> 0, skew |-> 0, shoulder |-> 20, crown |-> 90]

\* An upright tab, one that leans, and the same leaning the other way.
SomeTabs == {Upright, [Upright EXCEPT !.lean = 12], [Upright EXCEPT !.lean = -12]}

Phone == [width |-> 375, height |-> 667]
Laptop == [width |-> 1280, height |-> 720]
Sideways == [width |-> 667, height |-> 375]
SomeViewports == {Phone, Laptop, Sideways}
=============================================================================
