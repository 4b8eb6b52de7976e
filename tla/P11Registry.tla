---------------------------- MODULE P11Registry ----------------------------
(***************************************************************************)
(* Module and slot handles (pkcs11_module.c, pkcs11_slot.c and the        *)
(* handlers of PKCS11Provider.c and PKCS11Slot.c that create, validate    *)
(* and destroy them), over a heap whose freed blocks malloc may reuse.    *)
(*                                                                         *)
(* A handle Java holds is the block's address.  The only check made of a  *)
(* handle is its block's _magic field.  destroy_* clears the block before *)
(* free; the failure paths of new_pkcs11_module and new_pkcs11_slot free  *)
(* it with _magic still set.  A block is identified by its allocation     *)
(* (obj), a history field the code never reads.                           *)
(*                                                                         *)
(* The token library is one shared object: libRefs is its dlopen count,   *)
(* libInit whether C_Initialize has run without a C_Finalize since.  When  *)
(* the count drops to 0 the library may or may not be unloaded (dlclose    *)
(* promises nothing more); unloading resets its state.                    *)
(*                                                                         *)
(* The session manager (openNative, closeNative, loginNative, logoutNative *)
(* of PKCS11Session.c) runs over the same handles and library: the        *)
(* library's open sessions and its login state, which PKCS#11 makes one   *)
(* for all sessions of the application.  C_Finalize, and unloading the    *)
(* library, end every session.                                             *)
(*                                                                         *)
(* The slot and token directory: the library has one slot, into which a   *)
(* token may be inserted and from which it may be removed at any time.    *)
(* new_pkcs11_slot copies the slot's and the token's descriptors into the *)
(* block; the accessors of PKCS11Slot.c read that copy, never the slot.   *)
(***************************************************************************)
EXTENDS Naturals, Sequences, FiniteSets

CONSTANTS
  Addrs,       \* addresses of heap blocks
  MaxAllocs,   \* bound: blocks allocated
  StaleCalls,  \* whether Java may pass a handle it has destroyed
  SessIds,     \* the session handles the token library hands out
  Tokens,      \* the tokens that may be in the slot
  NoToken,     \* no token in the slot; a token descriptor all 0
  MaxEvents,   \* bound: token insertions and removals
  MechsOf,     \* MechsOf[t]: the mechanism list of token t
  LabelOf,     \* LabelOf[t]: the label field of token t, space padded
  PinOf,       \* PinOf[t]: [min, max], ulMinPinLen and ulMaxPinLen of t
  JINT_MAX     \* 0x7fffffff, scaled down

ASSUME MaxAllocs \in Nat /\ StaleCalls \in BOOLEAN /\ SessIds \subseteq Nat \ {0}
ASSUME NoToken \notin Tokens /\ MaxEvents \in Nat /\ JINT_MAX \in Nat

MODULE_MAGIC == "0xd0bed0be"
SLOT_MAGIC == "0x0bed0bed"
\* A _magic field of 0: memory cleared by memset or never written.
Zeroed == "0"

Blocks == [live : BOOLEAN, magic : {Zeroed, MODULE_MAGIC, SLOT_MAGIC}, obj : 0..MaxAllocs]
Handles == [magic : {MODULE_MAGIC, SLOT_MAGIC}, addr : Addrs, obj : 1..MaxAllocs]

\* How far new_pkcs11_module gets before it fails, or "ok".
Stages == {"jni", "dlopen", "dlsym", "getlist", "init", "getinfo", "ok"}

\* The stages at which dlopen has succeeded.
Opened == Stages \ {"jni", "dlopen"}

VARIABLES
  mem,      \* mem[a]: the block at address a
  nobj,     \* blocks allocated so far
  libRefs,  \* dlopen references to the token library
  libInit,  \* the token library is C_Initialize'd
  handles,  \* the handles Java has been given
  gone,     \* the handles Java has destroyed
  last,     \* of the last call: the handles it accepted, with the block read
  open,     \* the sessions open in the token library
  loggedIn, \* the library's login state, shared by all its sessions
  jsess,    \* Java's sessions not closed: [id, m, s, ev], with their
            \* handles and the token events before the open
  token,    \* the token in the slot, or NoToken
  events,   \* token insertions and removals so far
  pending,  \* the slot changed since C_WaitForSlotEvent last reported it
  info,     \* info[a]: the descriptors new_pkcs11_slot copied into block a
  mq,       \* the getMechanismsNative calls between their two
            \* C_GetMechanismList calls: [s, n], slot handle, n_mechanisms
  got       \* what the last token-scoped accessor did and handed Java

vars == <<mem, nobj, libRefs, libInit, handles, gone, last, open, loggedIn, jsess,
          token, events, pending, info, mq, got>>

sessVars == <<open, loggedIn, jsess>>

slotVars == <<token, events, pending, info, mq>>

\* got after a call that is not a token-scoped accessor.
NoGot == [fn |-> "none", res |-> "none", val |-> <<>>, from |-> <<>>, present |-> FALSE]

\* The descriptors of a block: the slot's CKF_TOKEN_PRESENT flag and the
\* token whose CK_TOKEN_INFO was copied.  A block memset to 0 has neither.
Infos == [present : BOOLEAN, tok : Tokens \cup {NoToken}]
ZeroInfo == [present |-> FALSE, tok |-> NoToken]

\* The handles a Java call may pass.
Callable(magic) ==
  {j \in handles : j.magic = magic /\ (StaleCalls \/ j \notin gone)}

\* pkcs11_module_from_jhandle / pkcs11_slot_from_jhandle: the handle is
\* accepted when the memory it points to holds the magic number.
Valid(j) == mem[j.addr].magic = j.magic

Accepted(js) == {[h |-> j, blk |-> mem[j.addr]] : j \in js}

\* pkcs11_module_from_jhandle, then pkcs11_slot_from_jhandle: the handles
\* accepted by a handler that checks both.
Checked(m, s) == IF Valid(m) THEN Accepted({m} \cup IF Valid(s) THEN {s} ELSE {}) ELSE {}

\* malloc: a block not in use, allocation number nobj + 1.
Malloc(a) == ~mem[a].live /\ nobj < MaxAllocs

\* What dlclose does to the library's state: when the last reference goes
\* the library may be unloaded, and its state with it.
Dlclose(refs, init) == IF refs = 0 THEN {init, FALSE} ELSE {init}

\* C_Initialize: CKR_CRYPTOKI_ALREADY_INITIALIZED if the library is, else
\* success or failure.
InitializeOutcomes(init) == IF init THEN {"init"} ELSE {"init", "getinfo", "ok"}

LibAfterFailureFinalizing(stage, init) ==
  IF stage \in {"init", "getinfo"} THEN {FALSE} ELSE Dlclose(libRefs, init)

\* The library's state after 'failed:' in new_pkcs11_module: no C_Finalize,
\* even when C_Initialize succeeded; dlclose when dlopen did.
LibAfterFailure(stage, init) ==
  IF stage \in Opened THEN Dlclose(libRefs, init) ELSE {init}

\* The library's sessions and login state after a step: a library that is
\* not initialised (finalised, or unloaded by dlclose) has neither.
SessionsKept == open' = (IF libInit' THEN open ELSE {}) /\ loggedIn' = (loggedIn /\ libInit')

FinalizeSkipped(init) == init

\* mod->method->C_Finalize(NULL): the library's state after it.
Finalize(init) == FALSE

ToJHandleTruncated(a) == Zeroed

\* pkcs11_module_to_jhandle, pkcs11_slot_to_jhandle: the block's address,
\* (jlong)(size_t)mod.
ToJHandle(a) == a

-----------------------------------------------------------------------------
(* The handlers.                                                           *)

\* loadNativePKCS11Module: new_pkcs11_module.  malloc, _magic set, the
\* file name from Java, dlopen, dlsym of C_GetFunctionList, its call,
\* C_Initialize and C_GetInfo; on failure free the name, dlclose and free
\* the block, _magic left in it.
LoadModule(a) ==
  /\ Malloc(a)
  /\ nobj' = nobj + 1
  /\ \E stage \in (Stages \ {"getinfo", "ok"}) \cup InitializeOutcomes(libInit) :
       LET init == libInit \/ stage \in {"getinfo", "ok"}
           h == [magic |-> MODULE_MAGIC, addr |-> ToJHandle(a), obj |-> nobj + 1]
       IN  /\ mem' = [mem EXCEPT ![a] = [live |-> stage = "ok",
                                         magic |-> MODULE_MAGIC, obj |-> nobj + 1]]
           /\ IF stage = "ok"
              THEN /\ libRefs' = libRefs + 1
                   /\ libInit' = init
                   /\ handles' = handles \cup {h}
              ELSE /\ libInit' \in LibAfterFailure(stage, init)
                   /\ UNCHANGED <<libRefs, handles>>
  /\ last' = {}
  /\ SessionsKept
  /\ UNCHANGED <<gone, jsess>>
  /\ UNCHANGED slotVars /\ got' = NoGot

\* unloadPKCS11Module: pkcs11_module_from_jhandle, then destroy_pkcs11_module:
\* C_Finalize, dlclose, free the name, memset the block to 0 and free it.
UnloadModule(j) ==
  /\ \/ /\ ~Valid(j)
        /\ last' = {}
        /\ UNCHANGED <<mem, libRefs, libInit, gone>>
     \/ /\ Valid(j)
        /\ last' = Accepted({j})
        /\ libRefs' = IF libRefs > 0 THEN libRefs - 1 ELSE 0
        /\ libInit' \in Dlclose(libRefs', Finalize(libInit))
        /\ mem' = [mem EXCEPT ![j.addr] = [live |-> FALSE, magic |-> Zeroed, obj |-> @.obj]]
        /\ gone' = gone \cup {j}
  /\ SessionsKept
  /\ UNCHANGED <<nobj, handles, jsess>>
  /\ UNCHANGED slotVars /\ got' = NoGot

\* What new_pkcs11_slot has written into the block when it returns: the
\* memset; C_GetSlotInfo fails, or gives the token-present flag; with a
\* token, C_GetTokenInfo fails, or copies the token's descriptor.
SlotInfoOutcomes ==
  {[ok |-> FALSE, info |-> ZeroInfo]} \cup
  IF token = NoToken
  THEN {[ok |-> TRUE, info |-> ZeroInfo]}
  ELSE {[ok |-> FALSE, info |-> [present |-> TRUE, tok |-> NoToken]],
        [ok |-> TRUE, info |-> [present |-> TRUE, tok |-> token]]}

\* initSlotNative: the module handle, then new_pkcs11_slot: malloc, memset,
\* _magic, C_GetSlotInfo and, with a token present, C_GetTokenInfo; on a
\* failure free the block, _magic and the descriptors left in it.
InitSlot(m, a) ==
  /\ \/ /\ ~Valid(m)
        /\ last' = {}
        /\ UNCHANGED <<mem, nobj, handles, info>>
     \/ /\ Valid(m)
        /\ Malloc(a)
        /\ last' = Accepted({m})
        /\ nobj' = nobj + 1
        /\ \E r \in SlotInfoOutcomes :
             /\ mem' = [mem EXCEPT ![a] = [live |-> r.ok, magic |-> SLOT_MAGIC, obj |-> nobj + 1]]
             /\ info' = [info EXCEPT ![a] = r.info]
             /\ handles' = IF r.ok THEN handles \cup {[magic |-> SLOT_MAGIC, addr |-> ToJHandle(a), obj |-> nobj + 1]}
                           ELSE handles
  /\ UNCHANGED <<libRefs, libInit, gone>>
  /\ UNCHANGED <<sessVars, token, events, pending, mq>>
  /\ got' = NoGot

\* destroySlotNative: both handles, then destroy_pkcs11_slot: memset to 0
\* and free.
DestroySlot(m, s) ==
  /\ \/ /\ ~(Valid(m) /\ Valid(s))
        /\ last' = IF Valid(m) THEN Accepted({m}) ELSE {}
        /\ UNCHANGED <<mem, gone>>
     \/ /\ Valid(m) /\ Valid(s)
        /\ last' = Accepted({m, s})
        /\ mem' = [mem EXCEPT ![s.addr] = [live |-> FALSE, magic |-> Zeroed, obj |-> @.obj]]
        /\ gone' = gone \cup {s}
  /\ info' = IF Valid(m) /\ Valid(s) THEN [info EXCEPT ![s.addr] = ZeroInfo] ELSE info
  /\ UNCHANGED <<nobj, libRefs, libInit, handles>>
  /\ UNCHANGED <<sessVars, token, events, pending, mq>>
  /\ got' = NoGot

\* The slot-scoped accessors (isTokenPresentNative, isRemovableDeviceNative,
\* isHardwareDeviceNative, getManufacturerNative, getDescriptionNative,
\* the version accessors): both handles, then reads of the slot
\* descriptor in the block.
SlotQuery(m, s) ==
  /\ last' = Checked(m, s)
  /\ UNCHANGED <<mem, nobj, libRefs, libInit, handles, gone>>
  /\ UNCHANGED <<sessVars, slotVars>> /\ got' = NoGot

\* enumerateSlotsNative: the module handle, then the two C_GetSlotList
\* calls over the library's one slot, and the ids to Java.
ModuleQuery(m) ==
  /\ last' = IF Valid(m) THEN Accepted({m}) ELSE {}
  /\ UNCHANGED <<mem, nobj, libRefs, libInit, handles, gone>>
  /\ UNCHANGED <<sessVars, slotVars>> /\ got' = NoGot

\* waitForSlotNative: the module handle, then C_WaitForSlotEvent in
\* blocking mode.  It returns the slot once the slot has changed since it
\* last reported it, or fails (a library not initialised, or one without
\* slot events); it does not refresh a slot block's descriptors.
WaitForSlot(m) ==
  /\ last' = IF Valid(m) THEN Accepted({m}) ELSE {}
  /\ \/ /\ Valid(m) /\ libInit /\ pending
        /\ pending' = FALSE
     \/ UNCHANGED pending
  /\ UNCHANGED <<mem, nobj, libRefs, libInit, handles, gone>>
  /\ UNCHANGED <<sessVars, token, events, info, mq>>
  /\ got' = NoGot

\* loadNativePKCS11Module when malloc fails: an exception, and 0 to Java.
LoadModuleOutOfMemory ==
  /\ last' = {}
  /\ UNCHANGED <<mem, nobj, libRefs, libInit, handles, gone>>
  /\ UNCHANGED <<sessVars, slotVars>> /\ got' = NoGot

-----------------------------------------------------------------------------
(* The session manager.  The token library's contract: a session handle  *)
(* not open gives CKR_SESSION_HANDLE_INVALID; C_Login while logged in     *)
(* gives CKR_USER_ALREADY_LOGGED_IN; any call may also fail for reasons   *)
(* of the device (a wrong PIN, CKR_DEVICE_ERROR, CKR_SESSION_COUNT); a    *)
(* session that fails to close stays open; closing the last session logs *)
(* the application out; C_OpenSession needs a token in the slot.          *)

\* CK_INVALID_HANDLE: no session, and what openNative returns on failure.
CK_INVALID_HANDLE == 0

\* The handle C_OpenSession gives, or CK_INVALID_HANDLE when it fails.
OpenOutcomes ==
  {CK_INVALID_HANDLE} \cup IF libInit /\ token # NoToken THEN SessIds \ open ELSE {}

CloseOutcomes(id) == {"fail"} \cup IF id \in open THEN {"ok"} ELSE {}

LoginOutcomes(id) == {"fail"} \cup IF id \in open /\ ~loggedIn THEN {"ok"} ELSE {}

LogoutOutcomes(id) == {"fail"} \cup IF id \in open /\ loggedIn THEN {"ok"} ELSE {}

\* Java's sessions it may call with: their handles not destroyed, and not
\* ended by a token removal (whose handle the library may have reused).
JavaSessions ==
  {js \in jsess : StaleCalls \/ ({js.m, js.s} \cap gone = {} /\ js.ev = events)}

\* The handler validates both handles, then makes its call.
SessionCall(m, s, call) ==
  /\ last' = Checked(m, s)
  /\ IF Valid(m) /\ Valid(s) THEN call ELSE UNCHANGED sessVars
  /\ UNCHANGED <<mem, nobj, libRefs, libInit, handles, gone>>
  /\ UNCHANGED slotVars /\ got' = NoGot

\* openNative: C_OpenSession for the slot (read-only or read-write); the
\* session handle to Java, or the exception.
OpenSession(m, s) ==
  SessionCall(m, s,
    \E r \in OpenOutcomes :
      /\ open' = IF r = CK_INVALID_HANDLE THEN open ELSE open \cup {r}
      /\ jsess' = IF r = CK_INVALID_HANDLE THEN jsess ELSE jsess \cup {[id |-> r, m |-> m, s |-> s, ev |-> events]}
      /\ UNCHANGED loggedIn)

\* closeNative: C_CloseSession; a failure is only logged, and the call
\* returns normally either way, so Java drops the session.
CloseSession(js) ==
  SessionCall(js.m, js.s,
    \E r \in CloseOutcomes(js.id) :
      /\ open' = IF r = "ok" THEN open \ {js.id} ELSE open
      /\ loggedIn' = (loggedIn /\ open' # {})
      /\ jsess' = jsess \ {js})

\* loginNative: the PIN copied from Java (or NULL), then C_Login.
Login(js) ==
  SessionCall(js.m, js.s,
    \E r \in LoginOutcomes(js.id) :
      /\ loggedIn' = (loggedIn \/ r = "ok")
      /\ UNCHANGED <<open, jsess>>)

\* logoutNative: C_Logout; a failure is only logged.
Logout(js) ==
  SessionCall(js.m, js.s,
    \E r \in LogoutOutcomes(js.id) :
      /\ loggedIn' = (loggedIn /\ r # "ok")
      /\ UNCHANGED <<open, jsess>>)

-----------------------------------------------------------------------------
(* The token and the token-scoped accessors.                               *)

\* A byte of a text field: the padding space, and NUL of a field memset
\* to 0.
PAD == 32
NUL == 0

\* The label field of a token descriptor.
Label(i) ==
  IF i.tok = NoToken THEN [k \in 1..Len(LabelOf[CHOOSE t \in Tokens : TRUE]) |-> NUL]
  ELSE LabelOf[i.tok]

\* ulMinPinLen and ulMaxPinLen of a token descriptor.
Pins(i) == IF i.tok = NoToken THEN [min |-> 0, max |-> 0] ELSE PinOf[i.tok]

RECURSIVE TrimLenKeepOne(_, _)
TrimLenKeepOne(f, l) == IF l > 1 /\ f[l] = PAD THEN TrimLenKeepOne(f, l - 1) ELSE l

\* while (l > 0 && field[l-1] == ' ') --l;
RECURSIVE TrimLen(_, _)
TrimLen(f, l) == IF l > 0 /\ f[l] = PAD THEN TrimLen(f, l - 1) ELSE l

\* The bytes the token text accessors hand Java: the field up to its
\* trailing spaces.
Trim(f) == SubSeq(f, 1, TrimLen(f, Len(f)))

\* The attempt of the library's user to insert or remove the token: a
\* removal ends every session with the token, and the login.
TokenEvent ==
  /\ events < MaxEvents
  /\ token' \in IF token = NoToken THEN Tokens ELSE {NoToken}
  /\ events' = events + 1
  /\ pending' = TRUE
  /\ IF token' = NoToken THEN open' = {} /\ loggedIn' = FALSE
     ELSE UNCHANGED <<open, loggedIn>>
  /\ UNCHANGED <<mem, nobj, libRefs, libInit, handles, gone, last, jsess, info, mq>>
  /\ got' = NoGot

\* What a token-scoped accessor hands Java when a handle check throws.
Refused(fn, s) ==
  [fn |-> fn, res |-> "exc", val |-> <<>>, from |-> <<>>, present |-> info[s.addr].present]

\* getTokenLabelNative (and getTokenManufacturerNative, getTokenModelNative,
\* getTokenSerialNumberNative) and getTokenMinPinLenNative (and
\* getTokenMaxPinLenNative, hasTokenProtectedAuthPathNative): both handles;
\* without the token-present flag an exception is thrown and the accessor
\* goes on.  A text accessor trims the field and calls NewByteArray and
\* SetByteArrayRegion, which with the exception pending is undefined: the
\* VM may abort.  The PIN accessor throws on a length above 0x7fffffff or
\* a minimum above the maximum, and returns ulMinPinLen.
TokenQuery(m, s, fn) ==
  LET i == info[s.addr]
      bad == ~i.present \/ Pins(i).min > JINT_MAX \/ Pins(i).min > Pins(i).max
  IN  /\ last' = Checked(m, s)
      /\ IF Valid(m) /\ Valid(s)
         THEN IF fn = "label"
              THEN \E r \in IF i.present THEN {"value"} ELSE {"exc", "crash"} :
                     got' = [fn |-> fn, res |-> r, val |-> Trim(Label(i)),
                             from |-> Label(i), present |-> i.present]
              ELSE got' = [fn |-> fn, res |-> IF bad THEN "exc" ELSE "value",
                           val |-> <<Pins(i).min>>, from |-> <<Pins(i).min, Pins(i).max>>,
                           present |-> i.present]
         ELSE got' = Refused(fn, s)
      /\ UNCHANGED <<mem, nobj, libRefs, libInit, handles, gone>>
      /\ UNCHANGED <<sessVars, token, events, pending, info, mq>>

\* getMechanismsNative up to the second C_GetMechanismList: both handles,
\* then C_GetMechanismList(slot->id, NULL, &n_mechanisms), which fails
\* without a token.  On success the call waits for its alloca and second
\* call, and the slot may change meanwhile.
MechList(m, s) ==
  /\ last' = Checked(m, s)
  /\ \/ /\ got' = Refused("mechs", s)
        /\ UNCHANGED mq
     \/ /\ Valid(m) /\ Valid(s) /\ token # NoToken
        /\ mq' = mq \cup {[s |-> s, n |-> Len(MechsOf[token])]}
        /\ got' = NoGot
  /\ UNCHANGED <<mem, nobj, libRefs, libInit, handles, gone>>
  /\ UNCHANGED <<sessVars, token, events, pending, info>>

MechResultStaleCount(n, l) == l \o [k \in 1..(n - Len(l)) |-> NUL]

\* The list pkcs11_slot_make_jmechanisms is given: the second call sets
\* n_mechanisms to the length it wrote.
MechResult(n, l) == l

\* The second C_GetMechanismList(slot->id, mechanisms, &n_mechanisms):
\* CKR_TOKEN_NOT_PRESENT without a token, CKR_BUFFER_TOO_SMALL when the
\* list outgrew the first answer; then pkcs11_slot_make_jmechanisms, whose
\* C_GetMechanismInfo or NewObject for any mechanism may fail.
MechFill(q) ==
  /\ mq' = mq \ {q}
  /\ \/ got' = Refused("mechs", q.s)
     \/ /\ token # NoToken /\ Len(MechsOf[token]) <= q.n
        /\ got' = [fn |-> "mechs", res |-> "value",
                   val |-> MechResult(q.n, MechsOf[token]), from |-> MechsOf[token],
                   present |-> info[q.s.addr].present]
  /\ UNCHANGED <<mem, nobj, libRefs, libInit, handles, gone, last>>
  /\ UNCHANGED <<sessVars, token, events, pending, info>>

-----------------------------------------------------------------------------
(* The specification.                                                      *)

Init ==
  /\ mem = [a \in Addrs |-> [live |-> FALSE, magic |-> Zeroed, obj |-> 0]]
  /\ nobj = 0
  /\ libRefs = 0
  /\ libInit = FALSE
  /\ handles = {}
  /\ gone = {}
  /\ last = {}
  /\ open = {}
  /\ loggedIn = FALSE
  /\ jsess = {}
  /\ token \in Tokens \cup {NoToken}
  /\ events = 0
  /\ pending = FALSE
  /\ info = [a \in Addrs |-> ZeroInfo]
  /\ mq = {}
  /\ got = NoGot

Next ==
  \/ \E a \in Addrs : LoadModule(a)
  \/ LoadModuleOutOfMemory
  \/ \E j \in Callable(MODULE_MAGIC) :
       \/ UnloadModule(j)
       \/ ModuleQuery(j)
       \/ WaitForSlot(j)
       \/ \E a \in Addrs : InitSlot(j, a)
       \/ \E s \in Callable(SLOT_MAGIC) :
            \/ DestroySlot(j, s) \/ SlotQuery(j, s) \/ OpenSession(j, s)
            \/ MechList(j, s)
            \/ \E fn \in {"label", "pin"} : TokenQuery(j, s, fn)
  \/ \E q \in mq : MechFill(q)
  \/ TokenEvent
  \/ \E js \in JavaSessions : CloseSession(js) \/ Login(js) \/ Logout(js)

Spec == Init /\ [][Next]_vars

-----------------------------------------------------------------------------
(* Properties.                                                             *)

TypeOK ==
  /\ mem \in [Addrs -> Blocks]
  /\ nobj \in 0..MaxAllocs
  /\ libRefs \in Nat
  /\ libInit \in BOOLEAN
  /\ handles \subseteq Handles
  /\ gone \subseteq handles
  /\ last \subseteq [h : Handles, blk : Blocks]
  /\ open \subseteq SessIds /\ loggedIn \in BOOLEAN
  /\ jsess \subseteq [id : SessIds, m : Handles, s : Handles, ev : 0..MaxEvents]
  /\ token \in Tokens \cup {NoToken} /\ events \in 0..MaxEvents /\ pending \in BOOLEAN
  /\ info \in [Addrs -> Infos]
  /\ mq \subseteq [s : Handles, n : Nat]
  /\ got.fn \in {"none", "label", "pin", "mechs"}
  /\ got.res \in {"none", "exc", "crash", "value"} /\ got.present \in BOOLEAN

\* The blocks in use that hold a module.
LiveModules == {a \in Addrs : mem[a].live /\ mem[a].magic = MODULE_MAGIC}

\* Every loaded module's token library is initialised: no failed load and
\* no unload of another module has run C_Finalize under it.
LiveModuleInitialised == LiveModules # {} => libInit

\* The token library is initialised only while a loaded module holds it:
\* every C_Initialize that succeeded is matched by a C_Finalize.
InitialisedOnlyWhenHeld == libInit => LiveModules # {}

\* Every handle the magic-number check accepts points at the live block Java
\* was given it for (spec.md 3: the magic number is the defence against
\* stale or forged handles).
HandleValidationSound ==
  \A v \in last : v.blk.live /\ v.blk.obj = v.h.obj

\* Every session Java opened through a module it has not unloaded, with
\* the token still in the slot, is still open in the token library: no
\* failed load of the same library, and no slot creation or destruction,
\* ends it under Java.
SessionsOpenWhileModuleLoaded ==
  \A js \in jsess : js.m \notin gone /\ js.ev = events => js.id \in open

\* The token library has sessions open only while a module holds it:
\* unloadPKCS11Module's C_Finalize ends every session opened through it.
SessionsEndWithModule == open # {} => LiveModules # {}

\* Once Java has closed every session of the loaded modules without an
\* exception, the token is no longer logged in (closeNative and
\* logoutNative report success whatever C_CloseSession answered).
NoLoginLeftBehind == {js \in jsess : js.m \notin gone} = {} => ~loggedIn

\* Every session open in the token is one Java holds with handles it can
\* still close it with.
NoOrphanSessions ==
  \A id \in open : \E js \in jsess : js.id = id /\ {js.m, js.s} \cap gone = {}

\* getMechanismsNative hands Java exactly the mechanism list of the token
\* in the slot at its second C_GetMechanismList, even when the token was
\* changed after the first call sized the buffer.
MechanismsHeld ==
  got.fn = "mechs" /\ got.res = "value" => got.val = MechsOf[token]

\* The reference trim: the shortest prefix of f after which f holds only
\* spaces.
TrimRef(f) ==
  LET cut == {k \in 0..Len(f) : \A j \in (k + 1)..Len(f) : f[j] = PAD}
  IN  SubSeq(f, 1, CHOOSE k \in cut : \A k2 \in cut : k <= k2)

\* The label Java gets is the token's label field without its trailing
\* spaces, and nothing else (spec.md 4.2): the longest prefix that does not
\* end in a space.
LabelTrimmed ==
  got.fn = "label" /\ got.res = "value" => got.val = TrimRef(got.from)

\* A token-scoped accessor on a slot whose cached descriptor has the
\* token-present flag clear answers TokenNotPresent, and never reads the
\* unpopulated token descriptor (spec.md 8, P5).
TokenAbsentGuarded ==
  got.fn \in {"label", "pin"} /\ ~got.present => got.res = "exc" /\ got.from = <<>>

\* What Java sees of the registry agrees with the native state: a handle
\* is accepted only for the block it was given for; the library's
\* initialisation, the login and every open session last only as long as
\* Java holds a module, a session, and the handles to end them with; and a
\* token-scoped accessor on a slot without a token only throws.
JavaCallsFaithful ==
  /\ HandleValidationSound /\ InitialisedOnlyWhenHeld
  /\ NoLoginLeftBehind /\ NoOrphanSessions /\ TokenAbsentGuarded

=============================================================================
