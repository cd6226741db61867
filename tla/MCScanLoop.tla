----------------------------- MODULE MCScanLoop -----------------------------
(***************************************************************************)
(* ScanLoop for TLC, in units of half a second or so: two beams in a scan, *)
(* two scans in an hour and in a block, three blocks in a day, so that a   *)
(* day is longer than any scan and a block.  tv overflows in the second    *)
(* scan of an hour.  The program begins at a boundary, late in the first   *)
(* beam of a scan, after its last beam, and where tv overflows.            *)
(***************************************************************************)
EXTENDS ScanLoop

MCDur == {2, 3}
MCBegins == {0, 4, 9, 19}
MCBeam == {0, 1}
MCXcfEdit == {0, 1}
=============================================================================
