---------------------------- MODULE MC_P11SignOps ----------------------------
(***************************************************************************)
(* Model-checking values for P11SignOps.                                   *)
(***************************************************************************)
EXTENDS P11SignOps

\* The sign handlers do not depend on the block size; one unit suffices.
MCBLK == 1

\* Arrays of 0 or 2 units; offsets and lengths from -1 (rejected) to 2, so
\* regions inside, at the end of and past the end of an array all occur,
\* and off > len passes the checks of signUpdateNative and signNative.
MCArrLens == {0, 2}
MCOffs == -1..1
MCLens == -1..2

\* Three units per operation: an array update of two and a byte update, in
\* either order.
MCMaxIn == 3
=============================================================================
