--------------------------- MODULE P11FindObjects ---------------------------
(***************************************************************************)
(* enumObjectsNative (PKCS11Object.c): the filter template, the search    *)
(* of the token (P11Token) and the batch loop that collects the handles   *)
(* in a growing heap array.  The handler is split at its C_ calls, so     *)
(* that pc says where it is; nothing else runs on the session meanwhile.  *)
(* It is shown to implement the atomic enumeration of P11FindObjectsAbs.  *)
(***************************************************************************)
EXTENDS P11Token

CONSTANTS
  Objects,               \* the token's objects
  Has,                   \* Has[o]: the attributes object o carries
  Attrs,                 \* the attributes (type and value) of the model
  Short,                 \* attributes whose value is not 8 bytes long
  Junk,                  \* an attribute read from uninitialised memory
  Filters,               \* the filter arrays Java passes
  NullAttr,              \* a null element of the Java attribute array
  ENUM_HANDLES_BLOCK_SZ, \* the batch size of C_FindObjects
  AllocMayFail           \* whether malloc and realloc may fail

ASSUME /\ Has \in [Objects -> SUBSET Attrs] /\ Short \subseteq Attrs
       /\ Junk \notin Attrs /\ ENUM_HANDLES_BLOCK_SZ \in Nat \ {0}
       /\ AllocMayFail \in BOOLEAN

VARIABLES
  srch,   \* the session's object search in the token
  pc,     \* where enumObjectsNative is: idle, init, find, grow, final
  flt,    \* the filter of the running call
  tmpl,   \* the attribute the token was given as template
  ret,    \* ret_obj_ids[0 .. nobjs-1]
  cap,    \* ret_obj_ids_sz
  cnt,    \* count, the size of the last batch
  last    \* the last answer Java got: [f, res]

vars == <<srch, pc, flt, tmpl, ret, cap, cnt, last>>

Allocs == IF AllocMayFail THEN BOOLEAN ELSE {TRUE}

\* The objects the token finds for a one-attribute template.
Matching(x) == {o \in Objects : x \in Has[o]}

\* pAttributes is alloca'd for ulAttributeCount entries, every ulValueLen
\* is overwritten with 8 ("TODO HACK"), and C_FindObjectsInit is passed a
\* count of 1: the token sees the first attribute only, with a value read
\* as 8 bytes, and for an empty filter an uninitialised entry.
Template(f) ==
  IF f = <<>> \/ f[1] \in Short THEN Attrs \cup {Junk} ELSE {f[1]}

Return(res, arr) == pc' = "idle" /\ last' = [f |-> flt, res |-> res, arr |-> arr]

\* goto failed: free(ret_obj_ids); return 0 with the exception pending.
Fail == Return("exc", <<>>)

-----------------------------------------------------------------------------
(* The steps of enumObjectsNative.                                         *)

\* The handle checks, the copy of the attribute array (a null element
\* returns 0 at once) and malloc of the first block.
EnumStart(f) ==
  /\ pc = "idle"
  /\ flt' = f
  /\ IF \E i \in 1..Len(f) : f[i] = NullAttr
     THEN /\ last' = [f |-> f, res |-> "null", arr |-> <<>>]
          /\ UNCHANGED <<srch, pc, tmpl, ret, cap, cnt>>
     ELSE \E x \in Template(f), ok \in Allocs :
            /\ tmpl' = x
            /\ ret' = <<>>
            /\ cap' = ENUM_HANDLES_BLOCK_SZ
            /\ cnt' = 0
            /\ IF ok THEN pc' = "init" /\ UNCHANGED <<srch, last>>
               ELSE /\ last' = [f |-> f, res |-> "exc", arr |-> <<>>]
                    /\ UNCHANGED <<srch, pc>>

\* rv = C_FindObjectsInit(hsession, pAttributes, 1).
EnumFindInit ==
  /\ pc = "init"
  /\ \E r \in C_FindObjectsInit(srch, Matching(tmpl)) :
       /\ srch' = r.t
       /\ IF r.rv = "CKR_OK" THEN pc' = "find" /\ UNCHANGED last ELSE Fail
  /\ UNCHANGED <<flt, tmpl, ret, cap, cnt>>

CopyBatchOffByOne(ids, count) == [i \in 1..(count - 1) |-> ids[i]]

\* for (i = 0; i < count; ++i) ret_obj_ids[nobjs++] = obj_ids[i];
CopyBatch(ids, count) == [i \in 1..count |-> ids[i]]

\* while (count == ENUM_HANDLES_BLOCK_SZ)
LoopAgain(count) == count = ENUM_HANDLES_BLOCK_SZ

\* C_FindObjects(hsession, obj_ids, ENUM_HANDLES_BLOCK_SZ, &count), the copy
\* of the batch, and the loop test; both call sites of the loop.
EnumFindBatch ==
  /\ pc = "find"
  /\ \E r \in C_FindObjects(srch, ENUM_HANDLES_BLOCK_SZ) :
       /\ srch' = r.t
       /\ IF r.rv = "CKR_OK"
          THEN /\ ret' = ret \o CopyBatch(r.out, r.n)
               /\ cnt' = r.n
               /\ pc' = IF LoopAgain(r.n) THEN "grow" ELSE "final"
               /\ UNCHANGED last
          ELSE Fail /\ UNCHANGED <<ret, cnt>>
  /\ UNCHANGED <<flt, tmpl, cap>>

GrowBackwards(sz) == sz - ENUM_HANDLES_BLOCK_SZ

\* ret_obj_ids_sz += ENUM_HANDLES_BLOCK_SZ
Grow(sz) == sz + ENUM_HANDLES_BLOCK_SZ

\* The growth of the array and its realloc before the next batch.
EnumGrow ==
  /\ pc = "grow"
  /\ cap' = Grow(cap)
  /\ \E ok \in Allocs :
       IF ok THEN pc' = "find" /\ UNCHANGED last ELSE Fail
  /\ UNCHANGED <<srch, flt, tmpl, ret, cnt>>

\* C_FindObjectsFinal, then NewLongArray(nobjs) and the handles to Java.
EnumFinal ==
  /\ pc = "final"
  /\ \E r \in C_FindObjectsFinal(srch) :
       /\ srch' = r.t
       /\ IF r.rv = "CKR_OK" THEN Return("array", ret) ELSE Fail
  /\ UNCHANGED <<flt, tmpl, ret, cap, cnt>>

-----------------------------------------------------------------------------
(* The specification.                                                      *)

Init ==
  /\ srch = NoSearch
  /\ pc = "idle"
  /\ flt = <<>>
  /\ tmpl = Junk
  /\ ret = <<>>
  /\ cap = 0
  /\ cnt = 0
  /\ last = [f |-> <<>>, res |-> "none", arr |-> <<>>]

\* One Java thread enumerates on the session at a time.
Next ==
  \/ \E f \in Filters : EnumStart(f)
  \/ EnumFindInit
  \/ EnumFindBatch
  \/ EnumGrow
  \/ EnumFinal

Spec == Init /\ [][Next]_vars

-----------------------------------------------------------------------------
(* Properties.                                                             *)

TypeOK ==
  /\ srch \in [active : BOOLEAN, left : SUBSET Objects]
  /\ pc \in {"idle", "init", "find", "grow", "final"}
  /\ flt \in Filters \cup {<<>>}
  /\ tmpl \in Attrs \cup {Junk}
  /\ ret \in Seq(Objects)
  /\ cap \in Nat
  /\ cnt \in 0..ENUM_HANDLES_BLOCK_SZ

Abs == INSTANCE P11FindObjectsAbs
         WITH Objects <- Objects, Has <- Has, Filters <- Filters,
              NullAttr <- NullAttr, last <- last

\* Every array Java gets is a listing of exactly the objects that match the
\* whole filter, each once, across any batch boundaries, failures and
\* earlier calls (spec.md 4.4: no loss and no duplication).
EnumImplementsAbstract == Abs!Spec

\* When enumObjectsNative returns, the session has no active search
\* (spec.md 4.6: the search is finalised even on an error mid-loop).
SearchEndedOnReturn == pc = "idle" => ~srch.active

=============================================================================
