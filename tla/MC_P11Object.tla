---------------------------- MODULE MC_P11Object ----------------------------
(***************************************************************************)
(* Model-checking values for P11Object.  Byte lengths are scaled down:    *)
(* sizeof(CK_ULONG) and sizeof(CK_MECHANISM_TYPE) are 2, and jint has 4   *)
(* bits, so that a CK_ULONG wider than a jint fits TLC's integers.        *)
(***************************************************************************)
EXTENDS P11Object, TLC

CONSTANTS xb, xm, xf, Attr1

\* xb: a byte attribute whose length changes (1 or 2 bytes) or which the
\* token will not reveal; xm: CKA_ALLOWED_MECHANISMS, one or two
\* mechanisms; xf: a CK_BBOOL.
MCTypes == {xb, xm, xf}

MCValsOf ==
  (xb :> {[len |-> 1, data |-> 1], [len |-> 2, data |-> 2], Sensitive}) @@
  (xm :> {[len |-> 2, data |-> 3], [len |-> 4, data |-> 4]}) @@
  (xf :> {[len |-> 1, data |-> 0], [len |-> 1, data |-> 1]})

\* For the jint cfg: xb may also hold a CK_ULONG of 2 bytes whose value
\* does not fit a 4-bit jint.
MCValsOfWide == [MCValsOf EXCEPT ![xb] = @ \cup {[len |-> 2, data |-> 9]}]

\* Arrays of one attribute, and one with a null element.
MCTemplates == {<<Attr1>>, <<NullAttr>>}
=============================================================================
