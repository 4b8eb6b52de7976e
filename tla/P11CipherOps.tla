---------------------------- MODULE P11CipherOps ----------------------------
(***************************************************************************)
(* The JNI cipher handlers of one PKCS#11 session:                        *)
(*   PKCS11Session.c    decrypt/encrypt Init, Update, UpdateOff, Final and *)
(*                      the single-part decryptNative/encryptNative;       *)
(*   PKCS11CipherSpi.c  init, update, updateOff, doFinal, doFinalOff,      *)
(*                      doDecrypt/doEncrypt and their Off variants.        *)
(* Each action is one whole handler: its argument checks, the copy of the  *)
(* Java input, every call it makes into the token (P11Token) and what it   *)
(* hands back to Java.  The decrypt and encrypt twins differ only in the   *)
(* C_ function they call, so one action with a parameter kind stands for   *)
(* both.  Handle lookups (pkcs11_module_from_jhandle, ...) are modelled    *)
(* in P11Registry; here the handles are valid.                             *)
(*                                                                         *)
(* Java's view of the operation is kept in two history variables: sent,    *)
(* the units of every call that returned without an exception, and recv,   *)
(* the units Java got back.  Java's units are numbered 1, 2, ... in the   *)
(* order Java hands them over; G is a unit of uninitialised memory.        *)
(***************************************************************************)
EXTENDS P11Jni, P11Token

CONSTANTS
  ArrLens,       \* lengths of the Java arrays handed to a handler
  Offs,          \* values passed for off and output_off
  Lens,          \* values passed for len
  MaxIn,         \* bound: units one operation may consume
  W,             \* bit width of CK_ULONG
  AllocMayFail   \* whether NewByteArray may return NULL

ASSUME /\ ArrLens \subseteq Nat /\ Offs \subseteq Int /\ Lens \subseteq Int
       /\ MaxIn \in Nat /\ W \in Nat \ {0} /\ AllocMayFail \in BOOLEAN

VARIABLES
  tok,       \* the token's state of this session (P11Token)
  sent,      \* units of the calls that returned to Java without exception
  recv,      \* units Java received, in the order received
  last,      \* the last handler: kind, outcome, capacity and room passed
  crashed    \* the VM has died inside a handler

vars == <<tok, sent, recv, last, crashed>>

Units == 1..MaxIn
Kinds == {"encrypt", "decrypt"}
Inputs == [arr : ArrLens \cup {NULL}, off : Offs, len : Lens]
Outputs == [arr : ArrLens \cup {NULL}, off : Offs]
NoInput == [arr |-> 0, off |-> 0, len |-> 0]
Allocs == IF AllocMayFail THEN BOOLEAN ELSE {TRUE}

\* The units the token has output in the current operation.
Produced == SubSeq(tok.tin, 1, tok.tout)

-----------------------------------------------------------------------------
(* Argument checks and the copy of the input array.                        *)

\* The copy of the input region; G where GetByteArrayRegion failed.
DataOffByOne(a) ==
  [i \in 1..a.len |-> IF OutOfBounds(a) THEN G ELSE Len(sent) + i - 1]

Data(a) == [i \in 1..a.len |-> IF OutOfBounds(a) THEN G ELSE Len(sent) + i]

\* ulOutputLen = GetArrayLength(output); ulOutputLen -= output_off, in
\* CK_ULONG arithmetic.
Room(o) == (o.arr - o.off) % (2 ^ W)

OutputRejectedNoUpper(o) == o.off < 0

\* output_off < 0 || output_off > ulOutputLen
OutputRejected(o) == o.off < 0 \/ o.off > o.arr

WithinBound(a) == Len(tok.tin) + a.len <= MaxIn /\ Len(sent) + a.len <= MaxIn

-----------------------------------------------------------------------------
(* Returning to Java.                                                      *)

\* What a handler records of itself: which handler and, for the Off
\* variants, the capacity it gave the token and the room in the array.
Plain(h) == [h |-> h, ok |-> TRUE, cap |-> 0, room |-> 0]
OffCall(h, o) == [h |-> h, ok |-> TRUE, cap |-> Room(o), room |-> o.arr - o.off]

\* The handler returns; Java sees an exception unless the calls went well
\* and no exception was left pending by the copy of the input.
Done(c, a, ok, out, t) ==
  LET good == ok /\ ~OutOfBounds(a)
  IN  /\ tok' = t
      /\ sent' = IF good THEN sent \o Data(a) ELSE sent
      /\ recv' = IF good THEN recv \o out ELSE recv
      /\ last' = [c EXCEPT !.ok = good]
      /\ UNCHANGED crashed

\* A check failed: jnixThrowException and return, nothing called.
Reject(c) == Done(c, NoInput, FALSE, <<>>, tok)

\* ret = NewByteArray(env, ulOutputLen); if (ret) SetByteArrayRegion(...).
\* A NULL ret leaves an OutOfMemoryError pending.  decrypt/encryptFinalNative
\* return null, no array, when the length is 0.
Returned(c, a, out, t, emptyIsNull) ==
  IF emptyIsNull /\ out = <<>> THEN Done(c, a, TRUE, out, t)
  ELSE \E alloc \in Allocs : Done(c, a, alloc, out, t)

\* The two-phase call of PKCS11Session.c and of the non-Off CipherSpi
\* handlers: C_X with pOutputPart = 0 for the length, alloca of that
\* length, C_X again, the array back to Java.
TwoPhase(c, a, kind, emptyIsNull) ==
  \E r0 \in C_Call(c.h, tok, kind, Data(a), QUERY) :
    IF r0.rv # "CKR_OK" THEN Done(c, a, FALSE, <<>>, r0.t)
    ELSE \E r1 \in C_Call(c.h, r0.t, kind, Data(a), r0.n) :
           IF r1.rv # "CKR_OK" THEN Done(c, a, FALSE, <<>>, r1.t)
           ELSE Returned(c, a, r1.out, r1.t, emptyIsNull)

-----------------------------------------------------------------------------
(* The handlers.                                                           *)

\* decryptInitNative / encryptInitNative (PKCS11Session.c) and
\* initDecryptNative / initEncryptNative (PKCS11CipherSpi.c): C_XInit and an
\* exception if it fails.  Java starts a fresh stream with a new operation.
CryptInit(kind) ==
  \E r \in C_CryptInit(tok, kind) :
    IF r.rv = "CKR_OK"
    THEN /\ tok' = r.t
         /\ sent' = <<>>
         /\ recv' = <<>>
         /\ last' = Plain("init")
         /\ UNCHANGED crashed
    ELSE Done(Plain("init"), NoInput, FALSE, <<>>, r.t)

SpiInitCrypt(kind) == CryptInit(kind)

\* decryptUpdateNative / encryptUpdateNative (PKCS11Session.c, strict
\* FALSE) and updateDecryptNative / updateEncryptNative (PKCS11CipherSpi.c,
\* strict TRUE): the checks, the copy, the two-phase C_XUpdate.
CryptUpdate(kind, a, strict) ==
  \/ InputRejected(a, strict) /\ Reject(Plain("update"))
  \/ /\ ~InputRejected(a, strict)
     /\ WithinBound(a)
     /\ TwoPhase(Plain("update"), a, kind, FALSE)

SpiUpdateCrypt(kind, a) == CryptUpdate(kind, a, TRUE)

\* decryptUpdateOffNative / encryptUpdateOffNative (PKCS11Session.c) and
\* updateDecryptNativeOff / updateEncryptNativeOff (PKCS11CipherSpi.c): one
\* C_XUpdate into a buffer of the room after output_off, then
\* SetByteArrayRegion(output, output_off, ulOutputLen).
CryptUpdateOff(kind, a, o, strict) ==
  \/ /\ InputRejected(a, strict) \/ o.arr = NULL
        \/ (o.arr # NULL /\ OutputRejected(o))
     /\ Reject(Plain("update"))
  \/ /\ ~InputRejected(a, strict) /\ o.arr # NULL /\ ~OutputRejected(o)
     /\ WithinBound(a)
     /\ \E r \in C_CryptUpdate(tok, kind, Data(a), Room(o)) :
          Done(OffCall("update", o), a, r.rv = "CKR_OK", r.out, r.t)

SpiUpdateCryptOff(kind, a, o) == CryptUpdateOff(kind, a, o, TRUE)

\* decryptFinalNative / encryptFinalNative (PKCS11Session.c): the
\* two-phase C_XFinal; null rather than an empty array when nothing is left.
CryptFinal(kind) ==
  TwoPhase(Plain("final"), NoInput, kind, TRUE)

\* decryptNative / encryptNative (PKCS11Session.c, strict FALSE) and
\* doDecryptNative / doEncryptNative (PKCS11CipherSpi.c, strict TRUE): the
\* two-phase single-part C_X.
CryptSingle(kind, a, strict) ==
  \/ InputRejected(a, strict) /\ Reject(Plain("single"))
  \/ /\ ~InputRejected(a, strict)
     /\ WithinBound(a)
     /\ TwoPhase(Plain("single"), a, kind, FALSE)

SpiDoCrypt(kind, a) == CryptSingle(kind, a, TRUE)

\* doDecryptNativeOff / doEncryptNativeOff (PKCS11CipherSpi.c): one C_X
\* into the room after output_off.
SpiDoCryptOff(kind, a, o) ==
  \/ /\ InputRejected(a, TRUE) \/ o.arr = NULL
        \/ (o.arr # NULL /\ OutputRejected(o))
     /\ Reject(Plain("single"))
  \/ /\ ~InputRejected(a, TRUE) /\ o.arr # NULL /\ ~OutputRejected(o)
     /\ WithinBound(a)
     /\ \E r \in C_Crypt(tok, kind, Data(a), Room(o)) :
          Done(OffCall("single", o), a, r.rv = "CKR_OK", r.out, r.t)

JoinedSwapped(out0, out1) == out1 \o out0

\* The array doFinal returns: pOutputPart0 at 0, pOutputPart1 after it.
Joined(out0, out1) == out0 \o out1

\* doFinalDecryptNative / doFinalEncryptNative (PKCS11CipherSpi.c):
\* C_XUpdate for the length, a second C_XUpdate only "if (ulOutputLen0)",
\* C_XFinal for the length, a second C_XFinal only "if (ulOutputLen1)".
SpiDoFinal(kind, a) ==
  LET c == Plain("final")
      Upd(t, cap) == C_CryptUpdate(t, kind, Data(a), cap)
      Fin(t, cap) == C_CryptFinal(t, kind, cap)
      Skipped(t) == {Res("CKR_OK", 0, <<>>, t)}
  IN
  \/ InputRejected(a, TRUE) /\ Reject(c)
  \/ /\ ~InputRejected(a, TRUE)
     /\ WithinBound(a)
     /\ \E r0 \in Upd(tok, QUERY) :
        IF r0.rv # "CKR_OK" THEN Done(c, a, FALSE, <<>>, r0.t) ELSE
        \E r1 \in IF r0.n # 0 THEN Upd(r0.t, r0.n) ELSE Skipped(r0.t) :
        IF r1.rv # "CKR_OK" THEN Done(c, a, FALSE, <<>>, r1.t) ELSE
        \E r2 \in Fin(r1.t, QUERY) :
        IF r2.rv # "CKR_OK" THEN Done(c, a, FALSE, <<>>, r2.t) ELSE
        \E r3 \in IF r2.n # 0 THEN Fin(r2.t, r2.n) ELSE Skipped(r2.t) :
        IF r3.rv # "CKR_OK" THEN Done(c, a, FALSE, <<>>, r3.t)
        ELSE Returned(c, a, Joined(r1.out, r3.out), r3.t, FALSE)

\* doFinalDecryptNativeOff / doFinalEncryptNativeOff (PKCS11CipherSpi.c):
\* no "output == NULL" check, so GetArrayLength(env, NULL) kills the VM;
\* C_XUpdate into the room after output_off, then C_XFinal into what the
\* update left of it.
SpiDoFinalOff(kind, a, o) ==
  LET c == OffCall("final", o)
  IN
  \/ InputRejected(a, TRUE) /\ Reject(Plain("final"))
  \/ /\ ~InputRejected(a, TRUE) /\ o.arr = NULL
     /\ crashed' = TRUE
     /\ UNCHANGED <<tok, sent, recv, last>>
  \/ /\ ~InputRejected(a, TRUE) /\ o.arr # NULL /\ OutputRejected(o)
     /\ Reject(Plain("final"))
  \/ /\ ~InputRejected(a, TRUE) /\ o.arr # NULL /\ ~OutputRejected(o)
     /\ WithinBound(a)
     /\ \E r0 \in C_CryptUpdate(tok, kind, Data(a), Room(o)) :
        IF r0.rv # "CKR_OK" THEN Done(c, a, FALSE, <<>>, r0.t) ELSE
        \E r1 \in C_CryptFinal(r0.t, kind, Room(o) - r0.n) :
          Done(c, a, r1.rv = "CKR_OK", Joined(r0.out, r1.out), r1.t)

-----------------------------------------------------------------------------
(* The specification.                                                      *)

Init ==
  /\ tok = Idle
  /\ sent = <<>>
  /\ recv = <<>>
  /\ last = [h |-> "none", ok |-> TRUE, cap |-> 0, room |-> 0]
  /\ crashed = FALSE

\* After the VM has died nothing happens any more.
Halted == crashed /\ UNCHANGED vars

\* Java calls any handler of the session, one at a time (a Cipher object
\* is not shared between threads).
Next ==
  \/ /\ ~crashed
     /\ \E kind \in Kinds :
          \/ CryptInit(kind)
          \/ SpiInitCrypt(kind)
          \/ CryptFinal(kind)
          \/ \E a \in Inputs :
               \/ CryptUpdate(kind, a, FALSE)
               \/ SpiUpdateCrypt(kind, a)
               \/ CryptSingle(kind, a, FALSE)
               \/ SpiDoCrypt(kind, a)
               \/ SpiDoFinal(kind, a)
               \/ \E o \in Outputs :
                    \/ CryptUpdateOff(kind, a, o, FALSE)
                    \/ SpiUpdateCryptOff(kind, a, o)
                    \/ SpiDoCryptOff(kind, a, o)
                    \/ SpiDoFinalOff(kind, a, o)
  \/ Halted

Spec == Init /\ [][Next]_vars

-----------------------------------------------------------------------------
(* Properties.                                                             *)

\* Types: Java hands over only its own units; the token may hold G.
TypeOK ==
  /\ tok \in TokenType
  /\ Len(tok.tin) <= MaxIn
  /\ sent \in Seq(Units)
  /\ recv \in Seq(Units \cup {G})
  /\ last \in [h : {"none", "init", "update", "final", "single"},
               ok : BOOLEAN, cap : Nat, room : Int]
  /\ crashed \in BOOLEAN

\* The Off handlers never tell the token it may write more than the Java
\* output array holds after output_off (the CK_ULONG subtraction
\* ulOutputLen -= output_off must not wrap).
CapacityWithinOutputArray == last.cap <= last.room

\* Java receives the token's output in order, each unit at most once and
\* nothing the token did not output: doFinal's two parts and doFinalOff's
\* update and final parts are joined in the right order.
OutputInOrder == Embeds(recv, Produced)

\* A doFinal or single-part handler that returns normally has ended the
\* token's operation (PKCS#11: a call to C_XFinal that does not return a
\* length or CKR_BUFFER_TOO_SMALL terminates it).
FinalEndsOperationStep ==
  (last'.h \in {"final", "single"} /\ last'.ok) => tok'.op = "none"

\* In every behaviour, as above (CipherSpi doFinal only queries C_XFinal
\* when the query says 0 bytes are left).
FinalEndsOperation == [][FinalEndsOperationStep]_vars

\* Every unit of a call that returned without exception reached the token,
\* in order (doFinal skips its C_XUpdate when the length query says 0).
InputReachesToken == Embeds(sent, tok.tin)

\* The token never consumes memory the handler did not fill from the Java
\* array (GetByteArrayRegion out of bounds, not checked).
NoUninitialisedInput == \A i \in 1..Len(tok.tin) : tok.tin[i] # G

\* While the operation is active, Java has received everything the token
\* output (doFinalOff throws away the update's part when C_XFinal says
\* CKR_BUFFER_TOO_SMALL, and the operation goes on).
OutputNotLost == tok.op # "none" => recv = Produced

\* No handler kills the VM (doFinalOff with a null output array).
NoCrash == ~crashed

\* Every cipher handler call either throws, or returns normally having
\* done its part: the operation stays whole (every input unit reaches the
\* token, Java holds every output unit while the operation is active, and
\* a doFinal that returns normally has ended it), the token consumes only data
\* Java handed over, and no call kills the VM (the region copies never
\* check off + len; doFinalOff never checks its output array for null).
CipherCallsFaithful ==
  [][/\ FinalEndsOperationStep /\ InputReachesToken' /\ OutputNotLost'
     /\ NoUninitialisedInput' /\ NoCrash']_vars

=============================================================================
