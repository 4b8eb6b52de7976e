--------------------------- MODULE MC_P11Registry ---------------------------
(***************************************************************************)
(* Model-checking values for P11Registry.                                  *)
(***************************************************************************)
EXTENDS P11Registry, TLC

CONSTANTS a1, a2

\* Two heap blocks, so that a module and a slot, or two modules, are live at
\* once and a freed block is reused.
MCAddrs == {a1, a2}

CONSTANTS t1, t2, none

\* Two tokens: t2 supports more mechanisms than t1, so that a token swapped
\* between the two C_GetMechanismList calls changes the count.
MCTokens == {t1, t2}
MCMechsOf == t1 :> <<1>> @@ t2 :> <<1, 2>>

\* 3-byte label fields (32 in the code): one with a trailing space run,
\* one of spaces only, which trims to nothing.
MCLabelOf == t1 :> <<65, 32, 32>> @@ t2 :> <<32, 32, 32>>

\* t2 reports a minimum PIN length above its maximum.
MCPinOf == t1 :> [min |-> 4, max |-> 8] @@ t2 :> [min |-> 9, max |-> 8]
=============================================================================
