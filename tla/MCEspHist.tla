----------------------------- MODULE MCEspHist -----------------------------
(* Values of the constants of EspHist for TLC: snapshots whose columns,    *)
(* taken in one order or another, stand still, rise steadily, rise ever    *)
(* faster and jump, by one byte and by two; none, one, two, three and four *)
(* cells; a negative capacity.                                             *)
EXTENDS EspHist

Snap(current, remain, time, cells) ==
  [bat_current |-> current, cap_remain |-> remain, time |-> time, cell_mv |-> cells]
MCSamples ==
  {Snap(0, 300, 100, <<>>), Snap(70, 300, 101, <<30, 33, 35>>), Snap(141, 299, 102, <<31, 34, 36>>),
   Snap(213, 298, 103, <<32, 35, 37, 99>>), Snap(-1, -5, 90, <<300, 20>>)}
=============================================================================
