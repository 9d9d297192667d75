------------------------- MODULE MCBackfillCapture --------------------------
(* Model values and bounds for checking BackfillCapture with TLC.          *)
EXTENDS BackfillCapture

(* Three keys and a chunk of two rows: a full table takes two chunks, the  *)
(* second one short.                                                       *)
MCKeys == 1..3

=============================================================================
