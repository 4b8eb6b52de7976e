------------------------------ MODULE P11Object ------------------------------
(***************************************************************************)
(* The rest of PKCS11Object.c, and PKCS11KeyPairGenerator.c: the attribute *)
(* getters, createObjectNative and generateKeyPairNative.  They share no  *)
(* state with the enumeration (P11FindObjects) but the token.              *)
(*                                                                         *)
(* getAttributeNative and getAllowedMechanismsNative ask the token for the *)
(* length of a value, alloca that much, and ask again for the value.  The  *)
(* two calls are not atomic: another session may change the attribute      *)
(* between them (TokenChangesAttribute).  A getter is split at its second *)
(* call.  The fixed-width getters make one call.                           *)
(***************************************************************************)
EXTENDS P11Token

CONSTANTS
  Types,        \* the attribute types Java asks for
  CKA_ALLOWED_MECHANISMS, \* the one getAllowedMechanismsNative reads
  ValsOf,       \* ValsOf[x]: the values attribute x may take, [len, data]
  ULONG_LEN,    \* sizeof(CK_ULONG)
  BBOOL_LEN,    \* sizeof(CK_BBOOL)
  MECH_LEN,     \* sizeof(CK_MECHANISM_TYPE)
  JINT_BITS,    \* the width of jint
  BrokenToken,  \* whether the library may answer CKR_OK with ulValueLen ~0
  Templates,    \* the attribute arrays Java passes, sequences of Attr / NullAttr
  Attr,         \* a non-null element of a Java attribute array
  NullAttr,     \* a null element of a Java attribute array
  AllocMayFail, \* whether NewByteArray and NewLongArray may fail
  MaxMade       \* bound: objects the token creates

ASSUME /\ ValsOf \in [Types -> SUBSET ([len : Nat, data : Nat] \cup {Sensitive})]
       /\ CKA_ALLOWED_MECHANISMS \in Types
       /\ BrokenToken \in BOOLEAN /\ MaxMade \in Nat /\ AllocMayFail \in BOOLEAN

VARIABLES
  attr,      \* attr[x]: the value of attribute x of the object Java reads
  gpc,       \* the running getter: idle, or fill between its two calls
  gfn,       \* which getter: bytes (getAttributeNative) or mechs
  gx,        \* the attribute it reads
  glen,      \* templ.ulValueLen after the first call
  held,      \* history: the values attr[gx] has had since the first call
  got,       \* the last answer Java got: [fn, res, val], val a [len, data]
  made,      \* objects the token created for createObject or generateKeyPair
  reported   \* the handles of them Java got

vars == <<attr, gpc, gfn, gx, glen, held, got, made, reported>>

Allocs == IF AllocMayFail THEN BOOLEAN ELSE {TRUE}

\* Garbage: bytes of the alloca'd buffer the token did not write.
Garbage == -1

Answer(fn, res, val) == got' = [fn |-> fn, res |-> res, val |-> val]

\* What Java gets with an exception, a null or a 0.
NoVal == [len |-> 0, data |-> 0]

\* The first call may also get CKR_OK with ~0 from a broken library.
FirstCall(v) ==
  C_GetAttributeValue(v, QUERY) \cup
  IF BrokenToken THEN {Res("CKR_OK", UNAVAILABLE, <<>>, v)} ELSE {}

SentinelIgnored(n) == FALSE

\* if (templ.ulValueLen == ~((CK_ULONG)0)): the library is broken.
SentinelRejected(n) == n = UNAVAILABLE

ResultLenFirst(r) == glen

\* NewByteArray(templ.ulValueLen): the length the second call reported.
ResultLen(r) == r.n

\* n_mechanisms = templ.ulValueLen/sizeof(CK_MECHANISM_TYPE), in bytes.
MechBytes(n) == (n \div MECH_LEN) * MECH_LEN

\* What Java gets of the buffer: for bytes, SetByteArrayRegion of
\* ResultLen bytes; for mechs, the mechanisms it holds.  Bytes past those
\* the token wrote are garbage.
Copied(fn, r) ==
  LET k == IF fn = "mechs" THEN MechBytes(ResultLen(r)) ELSE ResultLen(r)
  IN  IF k = r.out.len THEN r.out ELSE [len |-> k, data |-> Garbage]

\* pkcs11_slot_make_jmechanisms: whether every C_GetMechanismInfo succeeds;
\* one failure throws and returns 0.
MechanismInfos(fn) == IF fn = "mechs" THEN BOOLEAN ELSE {TRUE}

\* (jint) of a CK_ULONG: the low JINT_BITS bits, as a signed number.
JInt(n) == ((n + 2^(JINT_BITS - 1)) % 2^JINT_BITS) - 2^(JINT_BITS - 1)

-----------------------------------------------------------------------------
(* The handlers.                                                           *)

\* getAttributeNative / getAllowedMechanismsNative up to the second call:
\* both handles, templ with pValue NULL, the first C_GetAttributeValue, its
\* checks, and alloca(templ.ulValueLen).
GetStart(fn, x) ==
  /\ gpc = "idle"
  /\ \E r \in FirstCall(attr[x]) :
       CASE r.rv # "CKR_OK" -> Answer(fn, "exc", NoVal) /\ UNCHANGED <<gpc, glen, held>>
         [] SentinelRejected(r.n) -> Answer(fn, "malformed", NoVal) /\ UNCHANGED <<gpc, glen, held>>
         [] OTHER -> /\ gpc' = "fill" /\ glen' = r.n /\ held' = {attr[x]}
                     /\ UNCHANGED got
  /\ gfn' = fn
  /\ gx' = x
  /\ UNCHANGED <<attr, made, reported>>

\* The second C_GetAttributeValue with the buffer, its checks, then for
\* bytes NewByteArray and the copy, for mechs the division by
\* sizeof(CK_MECHANISM_TYPE) and pkcs11_slot_make_jmechanisms, whose
\* C_GetMechanismInfo for any one mechanism may fail.  A failed
\* NewObjectArray or NewObject returns 0 with the exception pending; the
\* result of NewByteArray is not checked, and SetByteArrayRegion on NULL
\* with an exception pending is undefined: the VM aborts (crash).
GetFill ==
  /\ gpc = "fill"
  /\ gpc' = "idle"
  /\ \E r \in C_GetAttributeValue(attr[gx], glen), ok \in Allocs,
         info \in MechanismInfos(gfn) :
       CASE r.rv # "CKR_OK" -> Answer(gfn, "exc", NoVal)
         [] SentinelRejected(r.n) -> Answer(gfn, "malformed", NoVal)
         [] ~ok -> Answer(gfn, IF gfn = "bytes" THEN "crash" ELSE "exc", NoVal)
         [] ~info -> Answer(gfn, "exc", NoVal)
         [] OTHER -> Answer(gfn, "value", Copied(gfn, r))
  /\ UNCHANGED <<attr, gfn, gx, glen, held, made, reported>>

\* getULongAttributeNative / getBooleanAttributeNative: one call with a
\* buffer of the fixed width; a length other than that width throws; the
\* value goes back to Java as a jint / a jboolean.
GetFixed(fn, x) ==
  LET w == IF fn = "ulong" THEN ULONG_LEN ELSE BBOOL_LEN
  IN  /\ gpc = "idle"
      /\ \E r \in C_GetAttributeValue(attr[x], w) :
           CASE r.rv # "CKR_OK" -> Answer(fn, "exc", NoVal)
             [] r.n # w -> Answer(fn, "malformed", NoVal)
             [] OTHER -> Answer(fn, "value",
                                [len |-> w, data |-> IF fn = "ulong" THEN JInt(r.out.data)
                                                     ELSE r.out.data])
      /\ UNCHANGED <<attr, gpc, gfn, gx, glen, held, made, reported>>

\* Another session changes the attribute (C_SetAttributeValue on the token).
TokenChangesAttribute(x, v) ==
  /\ attr' = [attr EXCEPT ![x] = v]
  /\ held' = IF gpc = "fill" /\ gx = x THEN held \cup {v} ELSE held
  /\ UNCHANGED <<gpc, gfn, gx, glen, got, made, reported>>

\* The handle checks and the copy of a Java attribute array: a null element
\* returns 0 with no exception.
NullElement(tp) == \E i \in 1..Len(tp) : tp[i] = NullAttr

\* createObjectNative: the array copied, C_CreateObject, the handle to Java.
CreateObject(tp) ==
  /\ gpc = "idle"
  /\ IF NullElement(tp) THEN Answer("create", "zero", NoVal) /\ UNCHANGED <<made, reported>>
     ELSE \E ok \in BOOLEAN :
            IF ok /\ Cardinality(made) < MaxMade
            THEN LET o == Cardinality(made) + 1
                 IN  /\ made' = made \cup {o}
                     /\ reported' = reported \cup {o}
                     /\ Answer("create", "handle", [len |-> 1, data |-> o])
            ELSE Answer("create", "exc", NoVal) /\ UNCHANGED <<made, reported>>
  /\ UNCHANGED <<attr, gpc, gfn, gx, glen, held>>

\* generateKeyPairNative: both arrays copied, C_GenerateKeyPair, then
\* NewLongArray(2) with both handles; if it fails, 0 with the exception.
GenerateKeyPair(pub, priv) ==
  /\ gpc = "idle"
  /\ IF NullElement(pub) \/ NullElement(priv)
     THEN Answer("keypair", "zero", NoVal) /\ UNCHANGED <<made, reported>>
     ELSE \E ok \in BOOLEAN, arr \in Allocs :
            IF ok /\ Cardinality(made) + 2 <= MaxMade
            THEN LET n == Cardinality(made)
                 IN  /\ made' = made \cup {n + 1, n + 2}
                     /\ reported' = IF arr THEN reported \cup {n + 1, n + 2} ELSE reported
                     /\ IF arr THEN Answer("keypair", "handle", [len |-> 2, data |-> n + 1])
                        ELSE Answer("keypair", "exc", NoVal)
            ELSE Answer("keypair", "exc", NoVal) /\ UNCHANGED <<made, reported>>
  /\ UNCHANGED <<attr, gpc, gfn, gx, glen, held>>

Values == UNION {ValsOf[x] : x \in Types}

\* The attribute values the object may hold.
AttrStates == {a \in [Types -> Values] : \A x \in Types : a[x] \in ValsOf[x]}

-----------------------------------------------------------------------------
(* The specification.                                                      *)

Init ==
  /\ attr \in AttrStates
  /\ gpc = "idle"
  /\ gfn = "bytes"
  /\ gx = CKA_ALLOWED_MECHANISMS
  /\ glen = 0
  /\ held = {}
  /\ got = [fn |-> "none", res |-> "none", val |-> NoVal]
  /\ made = {}
  /\ reported = {}

\* One Java call at a time; other sessions change attributes at any time.
Next ==
  \/ \E x \in Types : GetStart("bytes", x)
  \/ GetStart("mechs", CKA_ALLOWED_MECHANISMS)
  \/ GetFill
  \/ \E fn \in {"ulong", "bool"}, x \in Types : GetFixed(fn, x)
  \/ \E x \in Types : \E v \in ValsOf[x] \ {attr[x]} : TokenChangesAttribute(x, v)
  \/ \E tp \in Templates : CreateObject(tp)
  \/ \E pub, priv \in Templates : GenerateKeyPair(pub, priv)

Spec == Init /\ [][Next]_vars

-----------------------------------------------------------------------------
(* Properties.                                                             *)

\* The length the first call reported and alloca was given is a real
\* length, never the sentinel ~0 (spec.md 9, scenario D).
TypeOK ==
  /\ attr \in AttrStates
  /\ gpc \in {"idle", "fill"}
  /\ gx \in Types
  /\ glen \in Nat
  /\ held \subseteq Values
  /\ got.res \in {"none", "exc", "malformed", "value", "zero", "handle", "crash"}
  /\ made \subseteq 1..MaxMade /\ reported \subseteq made

\* Every value getAttributeNative or getAllowedMechanismsNative hands Java
\* is one the attribute held between the two C_GetAttributeValue calls,
\* whole: a change of its length between them gives an error, never bytes
\* the token did not write (spec.md 5: a shrink/grow race between phase 1
\* and phase 2 must give an error, never a buffer overrun).
ValueHeld ==
  [][gpc = "fill" /\ gpc' = "idle" /\ got'.res = "value" => got'.val \in held]_vars

\* getULongAttributeNative hands Java the number the attribute holds.
ULongExactStep ==
  \A x \in Types :
       GetFixed("ulong", x) /\ got'.res = "value" => got'.val.data = attr[x].data

\* In every behaviour, as above.
ULongExact == [][ULongExactStep]_vars

\* Every object the token creates for Java is reported to Java: its
\* handle reaches Java, so that Java can use or destroy it.
ObjectsReported == made \subseteq reported

\* No handler aborts the VM: getAttributeNative never calls
\* SetByteArrayRegion on the NULL a failed NewByteArray returns.
NoAbort == got.res # "crash"

\* Every result the token produced reaches Java intact: the number a
\* CK_ULONG attribute holds, the handle of every object the token created
\* for Java (generateKeyPairNative drops both when NewLongArray fails), and
\* the bytes of a value without the VM aborting on the way.
ResultsReachJava == [][ULongExactStep /\ ObjectsReported' /\ NoAbort']_vars

=============================================================================
