----------------------------- MODULE P11SignOps -----------------------------
(***************************************************************************)
(* The JNI sign and verify handlers of one PKCS#11 session:               *)
(*   PKCS11Session.c       sign/verify Init, Update, UpdateByte, Final and *)
(*                         the single-part signNative/verifyNative;        *)
(*   PKCS11SignatureSpi.c  initSign/initVerify, updateSign/updateVerify,   *)
(*                         their one-byte variants, signNative and         *)
(*                         verifyNative (the final calls).                 *)
(* Each action is one whole handler, over the token of P11Token.  Handles  *)
(* are valid here (see P11Registry).                                       *)
(*                                                                         *)
(* History variables give Java's view: sent, the units of the calls that  *)
(* returned without exception since the last init; sig, the signature     *)
(* Java got, modelled by the units it covers.                              *)
(***************************************************************************)
EXTENDS P11Jni, P11Token

LOCAL SeqX == INSTANCE SequencesExt

CONSTANTS
  ArrLens,       \* lengths of the Java arrays handed to a handler
  Offs,          \* values passed for off
  Lens,          \* values passed for len
  MaxIn,         \* bound: units one operation may consume
  AllocMayFail   \* whether NewByteArray may return NULL

ASSUME /\ ArrLens \subseteq Nat /\ Offs \subseteq Int /\ Lens \subseteq Int
       /\ MaxIn \in Nat /\ AllocMayFail \in BOOLEAN

VARIABLES
  tok,     \* the token's state of this session (P11Token)
  sent,    \* units of the calls that returned to Java without exception
  sig,     \* the signature Java received: [got, over]
  last     \* the last handler: kind, outcome, verdict, rv and signature

vars == <<tok, sent, sig, last>>

Units == 1..MaxIn
Kinds == {"sign", "verify"}
Inputs == [arr : ArrLens \cup {NULL}, off : Offs, len : Lens]
NoInput == [arr |-> 0, off |-> 0, len |-> 0]
Allocs == IF AllocMayFail THEN BOOLEAN ELSE {TRUE}
NoSig == [got |-> FALSE, over |-> <<>>]

\* The signature array a verify handler is given: null or an array.
SigArgs == {"null", "array"}
Forged == <<MaxIn + 1>>

\* The signatures Java may hold for a message msg, each modelled by the
\* units it covers: the genuine one, one over msg with units missing (a
\* signature the token accepts if it lost those units), or a forged one.
SignatureArgs(msg) == SeqX!AllSubSeqs(msg) \cup {Forged}

JavaDataOffByOne(a) == [i \in 1..a.len |-> Len(sent) + i + 1]

\* The units Java hands over in a region, and what the copy holds.
JavaData(a) == [i \in 1..a.len |-> Len(sent) + i]
Data(a) == IF OutOfBounds(a) THEN [i \in 1..a.len |-> G] ELSE JavaData(a)

WithinBound(n) == Len(tok.tin) + n <= MaxIn /\ Len(sent) + n <= MaxIn

Call(h, kind) ==
  [h |-> h, kind |-> kind, ok |-> TRUE, verdict |-> FALSE, rv |-> "none",
   arg |-> <<>>]

\* The handler returns: Java sees an exception unless the call went well
\* and the copy of the input left none pending; then Java has sent jd and
\* holds the signature s.
Done(c, jd, pending, ok, t, s) ==
  LET good == ok /\ ~pending
  IN  /\ tok' = t
      /\ sent' = IF good THEN sent \o jd ELSE sent
      /\ sig' = IF good THEN s ELSE sig
      /\ last' = [c EXCEPT !.ok = good]

Reject(c) == Done(c, <<>>, FALSE, FALSE, tok, sig)

-----------------------------------------------------------------------------
(* The handlers.                                                           *)

\* signInitNative / verifyInitNative (PKCS11Session.c) and initSignNative /
\* initVerifyNative (PKCS11SignatureSpi.c): C_XInit, an exception if it
\* fails.  Java starts a new message.
AbsorbInit(kind) ==
  \E r \in C_CryptInit(tok, kind) :
    IF r.rv = "CKR_OK"
    THEN /\ tok' = r.t
         /\ sent' = <<>>
         /\ sig' = NoSig
         /\ last' = Call("init", kind)
    ELSE Done(Call("init", kind), <<>>, FALSE, FALSE, r.t, sig)

SpiAbsorbInit(kind) == AbsorbInit(kind)

\* signUpdateNative (PKCS11Session.c, strict FALSE), verifyUpdateNative
\* (PKCS11Session.c, strict TRUE) and updateSignNative / updateVerifyNative
\* (PKCS11SignatureSpi.c, strict TRUE): the checks, the copy, C_XUpdate.
AbsorbUpdate(kind, a, strict) ==
  \/ InputRejected(a, strict) /\ Reject(Call("update", kind))
  \/ /\ ~InputRejected(a, strict)
     /\ WithinBound(a.len)
     /\ \E r \in C_AbsorbUpdate(tok, kind, Data(a)) :
          Done(Call("update", kind), JavaData(a), OutOfBounds(a),
               r.rv = "CKR_OK", r.t, sig)

SpiAbsorbUpdate(kind, a) == AbsorbUpdate(kind, a, TRUE)

ByteDataEmpty == <<>>

\* bb = (CK_BYTE)b; C_XUpdate(hsession, &bb, 1): Java's next unit.
ByteData == <<Len(sent) + 1>>

\* signUpdateByteNative / verifyUpdateByteNative (PKCS11Session.c) and
\* updateSignNative1 / updateVerifyNative1 (PKCS11SignatureSpi.c).
AbsorbByte(kind) ==
  /\ WithinBound(1)
  /\ \E r \in C_AbsorbUpdate(tok, kind, ByteData) :
       Done(Call("update", kind), <<Len(sent) + 1>>, FALSE,
            r.rv = "CKR_OK", r.t, sig)

SpiAbsorbByte(kind) == AbsorbByte(kind)

\* signFinalNative (PKCS11Session.c) and signNative (PKCS11SignatureSpi.c)
\* with d = <<>>; signNative of PKCS11Session.c (C_Sign) with the region a.
\* Two-phase: C_X with pSignature = NULL for the length, alloca, C_X
\* again, NewByteArray and the signature back to Java.
SignTwoPhase(h, a) ==
  LET c == Call(h, "sign")
  IN  \E r0 \in C_SignFinal(tok, Data(a), QUERY) :
        IF r0.rv # "CKR_OK"
        THEN Done(c, JavaData(a), OutOfBounds(a), FALSE, r0.t, sig)
        ELSE \E r1 \in C_SignFinal(r0.t, Data(a), r0.n), alloc \in Allocs :
               Done(c, JavaData(a), OutOfBounds(a), r1.rv = "CKR_OK" /\ alloc,
                    r1.t, [got |-> TRUE, over |-> r1.out])

\* signFinalNative (PKCS11Session.c) and signNative (PKCS11SignatureSpi.c).
SignFinal == SignTwoPhase("final", NoInput)

SpiSignFinal == SignFinal

\* signNative (PKCS11Session.c): the checks (off < 0 only), the copy, the
\* two-phase C_Sign.
SignSingle(a) ==
  \/ InputRejected(a, FALSE) /\ Reject(Call("single", "sign"))
  \/ /\ ~InputRejected(a, FALSE)
     /\ WithinBound(a.len)
     /\ SignTwoPhase("single", a)

VerdictInvalidAccepted(rv) == rv \in {"CKR_OK", "CKR_SIGNATURE_INVALID"}

\* switch (rv): CKR_SIGNATURE_INVALID -> JNI_FALSE; CKR_OK -> JNI_TRUE;
\* default -> exception and JNI_FALSE.
Verdict(rv) == rv = "CKR_OK"

\* The call of C_VerifyFinal / C_Verify with the signature array and what
\* Java gets: a verdict, or an exception for any other return value.
VerifyCall(h, a) ==
  LET c == Call(h, "verify")
  IN  \E arg \in SignatureArgs(sent \o JavaData(a)) :
      \E r \in C_VerifyFinal(tok, Data(a), arg) :
        Done([c EXCEPT !.verdict = Verdict(r.rv), !.rv = r.rv, !.arg = arg],
             JavaData(a), OutOfBounds(a),
             r.rv \in {"CKR_OK", "CKR_SIGNATURE_INVALID"}, r.t, sig)

\* verifyFinalNative (PKCS11Session.c) and verifyNative
\* (PKCS11SignatureSpi.c): data == NULL is rejected, else C_VerifyFinal.
VerifyFinal(s) ==
  \/ s = "null" /\ Reject(Call("final", "verify"))
  \/ s # "null" /\ VerifyCall("final", NoInput)

SpiVerifyFinal(s) == VerifyFinal(s)

\* verifyNative (PKCS11Session.c): the checks (off < 0 only), the copy of
\* the message, then data == NULL, then C_Verify.
VerifySingle(a, s) ==
  \/ InputRejected(a, FALSE) /\ Reject(Call("single", "verify"))
  \/ ~InputRejected(a, FALSE) /\ s = "null" /\ Reject(Call("single", "verify"))
  \/ /\ ~InputRejected(a, FALSE) /\ s # "null"
     /\ WithinBound(a.len)
     /\ VerifyCall("single", a)

-----------------------------------------------------------------------------
(* The specification.                                                      *)

Init ==
  /\ tok = Idle
  /\ sent = <<>>
  /\ sig = NoSig
  /\ last = Call("none", "none")

\* Java calls the handlers of a session one at a time (a Signature object
\* is not shared between threads; spec.md: one session, one thread).
Next ==
  \/ \E kind \in Kinds :
       \/ AbsorbInit(kind)
       \/ SpiAbsorbInit(kind)
       \/ AbsorbByte(kind)
       \/ SpiAbsorbByte(kind)
       \/ \E a \in Inputs : \/ AbsorbUpdate(kind, a, kind = "verify")
                            \/ SpiAbsorbUpdate(kind, a)
  \/ SignFinal
  \/ SpiSignFinal
  \/ \E a \in Inputs : SignSingle(a)
  \/ \E s \in SigArgs : \/ VerifyFinal(s)
                        \/ SpiVerifyFinal(s)
                        \/ \E a \in Inputs : VerifySingle(a, s)

Spec == Init /\ [][Next]_vars

-----------------------------------------------------------------------------
(* Properties.                                                             *)

TypeOK ==
  /\ tok \in TokenType
  /\ sent \in Seq(Units)
  /\ sig \in [got : BOOLEAN, over : Seq(Units \cup {G})]
  /\ last \in [h : {"none", "init", "update", "final", "single"},
               kind : Kinds \cup {"none"}, ok : BOOLEAN, verdict : BOOLEAN,
               rv : STRING, arg : Seq(Nat)]

NotG(u) == u # G

\* A signature Java receives covers, apart from uninitialised units, exactly
\* the units of the sign calls that returned without exception since the
\* init, in order: no update (array, byte or single-part) lost, doubled or
\* reordered, whatever failed in between.
SignatureCoversSent == sig.got => SelectSeq(sig.over, NotG) = sent

\* Java is told a signature is valid only when it covers exactly the units
\* Java handed over since verify init: every verify update (array, byte or
\* single-part) reached the token whole and in order, whatever failed in
\* between, so a signature over less than the message is refused
\* (spec.md P4: true exactly on native success).
VerifyOnlyGenuine == [][last'.verdict => last'.arg = sent']_vars

\* A signature Java receives covers only data Java handed over (the copy
\* of an out-of-bounds region leaves the buffer uninitialised and
\* signUpdateNative still calls C_SignUpdate).
SignedOnlyJavaData == sig.got => \A i \in 1..Len(sig.over) : sig.over[i] # G

=============================================================================
