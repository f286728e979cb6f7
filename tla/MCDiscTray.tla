----------------------------- MODULE MCDiscTray -----------------------------
(* The drive and the tray with a program area of three sectors, the middle  *)
(* one audio, and room for one sector.                                      *)
EXTENDS DiscTray

MCPlays == {[start |-> 2, end |-> 4, repeat |-> 1], [start |-> 1, end |-> 3, repeat |-> Forever]}
MCAudio == {3}
=============================================================================
