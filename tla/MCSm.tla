-------------------------------- MODULE MCSm --------------------------------
(* A small thing and two registrations.  MCSm.cfg: ids 0, 1 and 3 of a pool *)
(* of four, so a pass has two fragments, a gap and the end.                 *)
(* MCSmTornWipe.cfg: ids 0 and 2 of three.                                  *)
EXTENDS Sm
=============================================================================
