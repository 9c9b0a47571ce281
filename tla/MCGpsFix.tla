----------------------------- MODULE MCGpsFix -----------------------------
(* GpsFix as TLC checks it: a day of three hours, and where its two        *)
(* intervals start: the second before the first, and both together.        *)
EXTENDS GpsFix

Mornings == {<<2, 1>>, <<1, 1>>}
=============================================================================
