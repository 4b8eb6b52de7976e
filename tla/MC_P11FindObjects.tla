-------------------------- MODULE MC_P11FindObjects --------------------------
(***************************************************************************)
(* Model-checking values for P11FindObjects.                               *)
(***************************************************************************)
EXTENDS P11FindObjects, TLC

CONSTANTS o1, o2, o3, o4, a1, a2

\* Batches of two handles.  a1 is carried by all four objects, so its
\* search returns two full batches and an empty one; a2 by two objects, a
\* full batch and an empty one; <<a1, a2>> matches two objects but a1 four.
MCObjects == {o1, o2, o3, o4}
MCAttrs == {a1, a2}
MCHas == (o1 :> {a1, a2}) @@ (o2 :> {a1}) @@ (o3 :> {a1}) @@ (o4 :> {a1, a2})
MCBLOCK == 2

\* Filters of one attribute, and one with a null element.
MCFilters == {<<a1>>, <<a2>>, <<NullAttr>>}

\* A filter of two attributes.
MCFilters2 == {<<a1, a2>>}

\* For the run about a template read from memory the filter did not fill:
\* a2's value is not 8 bytes long, and the empty filter.
MCShort == {a2}
MCFiltersGarbage == {<<a2>>, <<>>}
=============================================================================
