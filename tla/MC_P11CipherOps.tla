--------------------------- MODULE MC_P11CipherOps ---------------------------
(***************************************************************************)
(* Model-checking values for P11CipherOps.                                 *)
(***************************************************************************)
EXTENDS P11CipherOps

\* A block of two units: an update of one unit outputs nothing and keeps
\* it buffered, one of two outputs a block, so doFinal can have both an
\* update part and a final part.
MCBLK == 2

\* Arrays of 0 or 2 units; offsets and lengths from -1 (rejected) to 2, so
\* regions inside, at the end of and past the end of an array all occur,
\* and an output_off of 1 exceeds an empty output array.
MCArrLens == {0, 2}
MCOffs == -1..1
MCLens == -1..2

\* Three units per operation: one buffered unit plus a two-unit block.
MCMaxIn == 3

\* CK_ULONG narrowed to 4 bits: a wrap of ulOutputLen -= output_off shows
\* as a capacity of 15 against arrays of at most 2 units.
MCW == 4

\* Only arrays the handlers read from inside their bounds, for the runs
\* that show a fault does not need an out-of-bounds region.
MCInBoundsArrLens == {2}
MCInBoundsOffs == {0}
MCInBoundsLens == 0..2
=============================================================================
