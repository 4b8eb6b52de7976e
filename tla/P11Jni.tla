------------------------------- MODULE P11Jni -------------------------------
(***************************************************************************)
(* What the PKCS#11 JNI handlers share: the checks of a Java input region *)
(* (array, off, len) and what the jnix.h copy macros make of it.           *)
(* A Java array is abstracted to its length; a unit of Java data is a     *)
(* number 1, 2, ..., and G is a unit of uninitialised stack memory.        *)
(***************************************************************************)
EXTENDS Integers, Sequences

CONSTANT NULL        \* a null jbyteArray

G == 0

\* r is a subsequence of s: its units occur in s, in the same order.
Embeds(r, s) ==
  \E f \in [1..Len(r) -> 1..Len(s)] :
    \A i \in 1..Len(r) : r[i] = s[f[i]] /\ (i > 1 => f[i - 1] < f[i])

\* The check before every copy: len < 0, input == NULL, off < 0, and in
\* PKCS11CipherSpi.c, PKCS11SignatureSpi.c and the Session
\* verifyUpdateNative also off > len (strict).  The end of the region,
\* off + len, is compared with nothing.
InputRejected(a, strict) ==
  a.len < 0 \/ a.arr = NULL \/ a.off < 0 \/ (strict /\ a.off > a.len)

\* allocaCArrayFromJByteArrayOffLen: GetByteArrayRegion on a region past
\* the end of the array copies nothing and leaves an exception pending;
\* the handler does not look and passes the uninitialised alloca'd buffer.
OutOfBounds(a) == a.off + a.len > a.arr

=============================================================================
