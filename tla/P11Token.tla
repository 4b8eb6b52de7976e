------------------------------ MODULE P11Token ------------------------------
(***************************************************************************)
(* The cipher part of a PKCS#11 token, as the PKCS#11 v2.x contract        *)
(* describes it: the library reached through mod->method by the JNI        *)
(* handlers.  It is not code of this repository; P11CipherOps calls it.    *)
(*                                                                         *)
(* A session holds at most one active operation.  Data is a sequence of   *)
(* units; a block cipher outputs whole blocks of BLK units and keeps the   *)
(* rest buffered until the final call.  Each call is a set of possible     *)
(* results [rv, n, out, t]: the return value, the length reported in       *)
(* *pulOutputLen, the units written to the output buffer and the token's   *)
(* state afterwards.                                                       *)
(***************************************************************************)
EXTENDS Integers, Sequences, FiniteSets

LOCAL INSTANCE SequencesExt

CONSTANT BLK            \* block size of the mechanism, in units

ASSUME BLK \in Nat \ {0}

\* pOutputPart == NULL_PTR: the call only reports the length it needs.
QUERY == -1

Idle == [op |-> "none", buf |-> 0, tin |-> <<>>, tout |-> 0]

TokenType ==
  [op : {"none", "encrypt", "decrypt", "sign", "verify"}, buf : 0..(BLK - 1),
   tin : Seq(Nat), tout : Nat]

Res(rv, n, out, t) == [rv |-> rv, n |-> n, out |-> out, t |-> t]

\* Every error except CKR_BUFFER_TOO_SMALL terminates the active operation.
Failed(t) == Res("CKR_FUNCTION_FAILED", 0, <<>>, [t EXCEPT !.op = "none"])

NotInitialized(t) == Res("CKR_OPERATION_NOT_INITIALIZED", 0, <<>>, t)

\* The output convention of every call that returns data: a NULL buffer
\* only reports m; a buffer of fewer than m units gets CKR_BUFFER_TOO_SMALL
\* and nothing changes; otherwise the call takes effect (state t2, output
\* out).  Neither of the first two ends the operation.
Deliver(t, m, cap, out, t2) ==
  IF cap = QUERY THEN Res("CKR_OK", m, <<>>, t)
  ELSE IF cap < m THEN Res("CKR_BUFFER_TOO_SMALL", m, <<>>, t)
  ELSE Res("CKR_OK", m, out, t2)

\* C_EncryptInit / C_DecryptInit / C_SignInit / C_VerifyInit
C_CryptInit(t, kind) ==
  IF t.op # "none"
  THEN {Res("CKR_OPERATION_ACTIVE", 0, <<>>, t)}
  ELSE {Res("CKR_OK", 0, <<>>, [Idle EXCEPT !.op = kind]), Failed(t)}

\* C_EncryptUpdate / C_DecryptUpdate with input d and capacity cap.
C_CryptUpdate(t, kind, d, cap) ==
  LET m  == ((t.buf + Len(d)) \div BLK) * BLK
      t2 == [t EXCEPT !.tin = @ \o d, !.buf = (t.buf + Len(d)) % BLK,
                      !.tout = @ + m]
  IN  IF t.op # kind THEN {NotInitialized(t)}
      ELSE {Failed(t),
            Deliver(t, m, cap, SubSeq(t2.tin, t.tout + 1, t.tout + m), t2)}

\* C_EncryptFinal / C_DecryptFinal: the buffered rest, and the end.
C_CryptFinal(t, kind, cap) ==
  LET t2 == [t EXCEPT !.op = "none", !.buf = 0, !.tout = @ + t.buf]
  IN  IF t.op # kind THEN {NotInitialized(t)}
      ELSE {Failed(t),
            Deliver(t, t.buf, cap,
                    SubSeq(t.tin, t.tout + 1, t.tout + t.buf), t2)}

\* C_Encrypt / C_Decrypt: the whole input in one call, and the end.
C_Crypt(t, kind, d, cap) ==
  LET m  == t.buf + Len(d)
      t2 == [t EXCEPT !.op = "none", !.tin = @ \o d, !.buf = 0,
                      !.tout = @ + m]
  IN  IF t.op # kind THEN {NotInitialized(t)}
      ELSE {Failed(t),
            Deliver(t, m, cap, SubSeq(t2.tin, t.tout + 1, t.tout + m), t2)}

\* The C_ function a handler calls, by the name of its step.
C_Call(fn, t, kind, d, cap) ==
  CASE fn = "update" -> C_CryptUpdate(t, kind, d, cap)
    [] fn = "final"  -> C_CryptFinal(t, kind, cap)
    [] fn = "single" -> C_Crypt(t, kind, d, cap)

-----------------------------------------------------------------------------
(* Signing and verifying.  A signature is modelled by the data it covers: *)
(* C_SignFinal outputs the units signed, and C_VerifyFinal accepts a      *)
(* signature exactly when it covers the units the operation consumed.     *)
(* A signature takes SIGLEN bytes.                                        *)

SIGLEN == 1

\* C_SignUpdate / C_VerifyUpdate: the data is absorbed, nothing output.
C_AbsorbUpdate(t, kind, d) ==
  IF t.op # kind THEN {NotInitialized(t)}
  ELSE {Failed(t), Res("CKR_OK", 0, <<>>, [t EXCEPT !.tin = @ \o d])}

\* C_SignFinal, and C_Sign with the whole data d in one call.
C_SignFinal(t, d, cap) ==
  LET t2 == [t EXCEPT !.op = "none", !.tin = @ \o d]
  IN  IF t.op # "sign" THEN {NotInitialized(t)}
      ELSE {Failed(t), Deliver(t, SIGLEN, cap, t2.tin, t2)}

\* C_VerifyFinal with signature s, and C_Verify with the whole data d.
C_VerifyFinal(t, d, s) ==
  LET t2 == [t EXCEPT !.op = "none", !.tin = @ \o d]
  IN  IF t.op # "verify" THEN {NotInitialized(t)}
      ELSE {Failed(t),
            Res(IF s = t2.tin THEN "CKR_OK" ELSE "CKR_SIGNATURE_INVALID",
                0, <<>>, t2)}

-----------------------------------------------------------------------------
(* Object search.  A search holds the matching objects not yet returned;  *)
(* C_FindObjects hands out up to max of them, in an order the token       *)
(* chooses, and only C_FindObjectsFinal ends the search: unlike the       *)
(* cryptographic operations, a failed C_FindObjects leaves it active.     *)

NoSearch == [active |-> FALSE, left |-> {}]

\* C_FindObjectsInit with the objects that match the template.
C_FindObjectsInit(s, matching) ==
  IF s.active THEN {Res("CKR_OPERATION_ACTIVE", 0, <<>>, s)}
  ELSE {Res("CKR_OK", 0, <<>>, [active |-> TRUE, left |-> matching]),
        Res("CKR_FUNCTION_FAILED", 0, <<>>, s)}

\* C_FindObjects(hsession, phObject, max, &count).
C_FindObjects(s, max) ==
  LET n == IF Cardinality(s.left) < max THEN Cardinality(s.left) ELSE max
  IN  IF ~s.active THEN {NotInitialized(s)}
      ELSE {Res("CKR_FUNCTION_FAILED", 0, <<>>, s)} \cup
           {Res("CKR_OK", n, SetToSeq(b), [s EXCEPT !.left = @ \ b]) :
              b \in {b \in SUBSET s.left : Cardinality(b) = n}}

C_FindObjectsFinal(s) ==
  IF ~s.active THEN {NotInitialized(s)}
  ELSE {Res("CKR_OK", 0, <<>>, NoSearch), Res("CKR_FUNCTION_FAILED", 0, <<>>, s)}

-----------------------------------------------------------------------------
(* Object attributes.  A value is [len, data]: its length in bytes and    *)
(* what it holds; Sensitive stands for an attribute the token will not     *)
(* reveal.  C_GetAttributeValue with one template entry of capacity cap.   *)

\* CK_UNAVAILABLE_INFORMATION, (CK_ULONG)~0, as a length.
UNAVAILABLE == -2

Sensitive == [len |-> UNAVAILABLE, data |-> -1]

C_GetAttributeValue(v, cap) ==
  {Res("CKR_OBJECT_HANDLE_INVALID", 0, <<>>, v)} \cup
  IF v = Sensitive THEN {Res("CKR_ATTRIBUTE_SENSITIVE", UNAVAILABLE, <<>>, v)}
  ELSE IF cap = QUERY THEN {Res("CKR_OK", v.len, <<>>, v)}
  ELSE IF cap < v.len THEN {Res("CKR_BUFFER_TOO_SMALL", UNAVAILABLE, <<>>, v)}
  ELSE {Res("CKR_OK", v.len, v, v)}

=============================================================================
