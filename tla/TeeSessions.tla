---------------------------- MODULE TeeSessions ----------------------------
(***************************************************************************)
(* The session and operation handlers of LibteeWrapper.cpp: the JNI face  *)
(* of the GlobalPlatform TEE Client API, called by Java threads at once.  *)
(*                                                                         *)
(* Two global tables are shared by every thread, with no lock:             *)
(*   sessions_map    Java session id -> TEEC_Session*, always the address  *)
(*                   of the one static teec_session of teecOpenSession;    *)
(*   operations_map  opHashCodeWithPid -> TEEC_Operation*, the address of  *)
(*                   a TEEC_Operation on the stack of the calling thread;  *)
(*   sharedmemory_map  Java shared memory id -> TEEC_SharedMemory*, a      *)
(*                   block malloc'd by teecRegisterSharedMemory.           *)
(* A handler that calls into the TEE is split at that call: another       *)
(* thread may run while this one waits for the TEE.  Each table operation  *)
(* (find, emplace, erase) is one atomic step.                              *)
(***************************************************************************)
EXTENDS Naturals, FiniteSets, Bags

CONSTANTS
  Threads,     \* the Java threads calling the wrapper
  Sids,        \* Java session ids
  Hashes,      \* opHashCodeWithPid values
  SmIds,       \* Java shared memory ids
  NoShm,       \* an operation without a registered memory reference
  MaxCalls,    \* bound: TEE calls per thread
  NoSession,   \* what the static TEEC_Session holds before any open
  NoFrame      \* no entry in operations_map, no session

ASSUME MaxCalls \in Nat /\ NoSession # NoFrame /\ NoShm \notin SmIds

\* The only TEEC_Session* sessions_map ever holds.
StaticSession == "teec_session"
NoPtr == "end"

\* A call of a thread: the thread and which of its calls.  It names the
\* TEEC_Operation on that call's stack, and the TEE session a successful
\* TEEC_OpenSession call creates, and the TEEC_SharedMemory a
\* teecRegisterSharedMemory call mallocs.
Frames == [t : Threads, g : 1..MaxCalls]

VARIABLES
  pc,            \* per thread: idle, open or invoke (in the TEE), cancel
  arg,           \* per thread: [sid, op, h, m, p] of the running call
  gen,           \* per thread: TEE calls started, names its stack frames
  ptr,           \* per thread: the TEEC_Operation* a cancel has found, or
                 \* the TEEC_SharedMemory* a release has found
  ctx,           \* g_contextRecord is initialised
  sessions_map,
  operations_map,
  sharedmemory_map,
  freed,         \* bag: how often each TEEC_SharedMemory block was freed
  malloced,      \* the TEEC_SharedMemory blocks teecRegisterSharedMemory
                 \* malloc'd
  teec_session,  \* the TEE session the static teec_session holds
  teeOpen,       \* the sessions open in the TEE
  opened         \* history: opened[sid], the TEE session Java got for sid

vars == <<pc, arg, gen, ptr, ctx, sessions_map, operations_map,
          sharedmemory_map, freed, malloced, teec_session, teeOpen, opened>>

shmVars == <<sharedmemory_map, freed, malloced>>

\* The current call of thread t.
Call(t) == [t |-> t, g |-> gen[t]]

\* The stack frame of thread t's call is live while the call runs.
Live(f) == pc[f.t] \in {"open", "invoke"} /\ gen[f.t] = f.g /\ arg[f.t].op

\* operations_map.emplace(h, &teec_operation): no change if h is a key.
Emplace(m, h, f) == IF m[h] = NoFrame THEN [m EXCEPT ![h] = f] ELSE m

EraseNever(m, t) == m

\* operations_map.erase(opHashCodeWithPid), when the call had an operation.
EraseOp(m, t) == IF arg[t].op THEN [m EXCEPT ![arg[t].h] = NoFrame] ELSE m

NewFrameStale(t) == [t |-> t, g |-> gen[t]]

\* The TEEC_Operation teec_operation of the call thread t starts.
NewFrame(t) == [t |-> t, g |-> gen[t] + 1]

\* The memory references an operation may carry: none, or one to a shared
\* memory id.
MemRefs(op) == IF op THEN SmIds \cup {NoShm} ELSE {NoShm}

\* transfer_opString_to_TEEC_Operation: find_sharedmemory_by_id gives the
\* memref's parent; an id not found ends the parse with no memref.
Parent(m) == IF m = NoShm THEN NoFrame ELSE sharedmemory_map[m]

\* The start of a call with an operation: parse it into a TEEC_Operation
\* on the stack and emplace its address.
StartCall(t, sid, op, h, m, where) ==
  /\ gen[t] < MaxCalls
  /\ gen' = [gen EXCEPT ![t] = @ + 1]
  /\ arg' = [arg EXCEPT ![t] = [sid |-> sid, op |-> op, h |-> h, m |-> m,
                                p |-> Parent(m)]]
  /\ operations_map' =
       IF op THEN Emplace(operations_map, h, NewFrame(t))
       ELSE operations_map
  /\ pc' = [pc EXCEPT ![t] = where]

-----------------------------------------------------------------------------
(* The handlers.                                                           *)

\* teecInitializeContext: TEEC_InitializeContext(name, &g_contextRecord),
\* which the TEE may refuse.
InitializeContext(t) ==
  /\ pc[t] = "idle"
  /\ \E ok \in BOOLEAN : ctx' = (ctx \/ ok)
  /\ UNCHANGED <<pc, arg, gen, ptr, sessions_map, operations_map,
                 teec_session, teeOpen, opened, shmVars>>

\* teecFinalizeContext, clean_sharedmemory_buffer: free the buffer and the
\* block of every entry of sharedmemory_map, without
\* TEEC_ReleaseSharedMemory and without erasing it.  (The loop is one step:
\* the models have one shared memory id, so it is one iteration.)
FinalizeContextClean(t) ==
  /\ pc[t] = "idle"
  /\ freed' = freed (+) SetToBag({sharedmemory_map[i] : i \in SmIds} \ {NoFrame})
  /\ pc' = [pc EXCEPT ![t] = "finclean"]
  /\ UNCHANGED <<arg, gen, ptr, ctx, sessions_map, operations_map,
                 sharedmemory_map, malloced, teec_session, teeOpen, opened>>

\* The rest of teecFinalizeContext: sharedmemory_map.clear(),
\* sessions_map.clear() without closing a session, TEEC_FinalizeContext and
\* g_contextRecord = {0}.
FinalizeContext(t) ==
  /\ pc[t] = "finclean"
  /\ sharedmemory_map' = [i \in SmIds |-> NoFrame]
  /\ sessions_map' = [s \in Sids |-> NoPtr]
  /\ ctx' = FALSE
  /\ pc' = [pc EXCEPT ![t] = "idle"]
  /\ UNCHANGED <<arg, gen, ptr, operations_map, freed, malloced, teec_session,
                 teeOpen, opened>>

\* teecOpenSession up to TEEC_OpenSession(&g_contextRecord, &teec_session,
\* ...): the UUID conversion and, with an operation, its emplace.
OpenSessionStart(t, sid, op, h, m) ==
  /\ pc[t] = "idle"
  /\ StartCall(t, sid, op, h, m, "open")
  /\ UNCHANGED <<ptr, ctx, sessions_map, teec_session, teeOpen, opened, shmVars>>

\* TEEC_OpenSession returns, on an initialised context possibly with a new
\* session in the static teec_session; the operation is erased; on success
\* sessions_map.emplace(sid, &teec_session), which leaves an existing entry
\* alone.
OpenSessionEnd(t) ==
  LET sid == arg[t].sid
  IN  /\ pc[t] = "open"
      /\ \E ok \in IF ctx THEN BOOLEAN ELSE {FALSE} :
           /\ teec_session' = IF ok THEN Call(t) ELSE teec_session
           /\ teeOpen' = IF ok THEN teeOpen \cup {Call(t)} ELSE teeOpen
           /\ IF ok /\ sessions_map[sid] = NoPtr
              THEN /\ sessions_map' = [sessions_map EXCEPT ![sid] = StaticSession]
                   /\ opened' = [opened EXCEPT ![sid] = Call(t)]
              ELSE UNCHANGED <<sessions_map, opened>>
      /\ operations_map' = EraseOp(operations_map, t)
      /\ pc' = [pc EXCEPT ![t] = "idle"]
      /\ UNCHANGED <<arg, gen, ptr, ctx, shmVars>>

\* teecInvokeCommand up to TEEC_InvokeCommand: find_session_by_id finds
\* the id (else TEEC_ERROR_BAD_PARAMETERS goes to Java, no state changes),
\* and with an operation its emplace.
InvokeCommandStart(t, sid, op, h, m) ==
  /\ pc[t] = "idle"
  /\ sessions_map[sid] # NoPtr
  /\ StartCall(t, sid, op, h, m, "invoke")
  /\ UNCHANGED <<ptr, ctx, sessions_map, teec_session, teeOpen, opened, shmVars>>

\* TEEC_InvokeCommand returns, having run on the session the static
\* teec_session holds now; the operation is erased.
InvokeCommandEnd(t) ==
  /\ pc[t] = "invoke"
  /\ operations_map' = EraseOp(operations_map, t)
  /\ pc' = [pc EXCEPT ![t] = "idle"]
  /\ UNCHANGED <<arg, gen, ptr, ctx, sessions_map, teec_session, teeOpen,
                 opened, shmVars>>

\* teecCloseSession: find, then TEEC_CloseSession(sessionWithId->second),
\* which closes the session the static teec_session holds; the entry stays
\* in sessions_map.
CloseSession(t, sid) ==
  /\ pc[t] = "idle"
  /\ sessions_map[sid] # NoPtr
  /\ teeOpen' = teeOpen \ {teec_session}
  /\ UNCHANGED <<pc, arg, gen, ptr, ctx, sessions_map, operations_map,
                 teec_session, opened, shmVars>>

\* teecRequestCancellation: operations_map.find(opHashCodeWithPid); not
\* found ("Maybe it is already finished") returns.
RequestCancellationFind(t, h) ==
  /\ pc[t] = "idle"
  /\ operations_map[h] # NoFrame
  /\ ptr' = [ptr EXCEPT ![t] = operations_map[h]]
  /\ pc' = [pc EXCEPT ![t] = "cancel"]
  /\ UNCHANGED <<arg, gen, ctx, sessions_map, operations_map,
                 teec_session, teeOpen, opened, shmVars>>

\* TEEC_RequestCancellation(iOp->second), with the pointer found before.
RequestCancellationSend(t) ==
  /\ pc[t] = "cancel"
  /\ pc' = [pc EXCEPT ![t] = "idle"]
  /\ UNCHANGED <<arg, gen, ptr, ctx, sessions_map, operations_map,
                 teec_session, teeOpen, opened, shmVars>>

\* The outcomes of teecRegisterSharedMemory past its parse: the malloc of
\* the TEEC_SharedMemory fails; the malloc of its buffer fails; or
\* TEEC_RegisterSharedMemory, which fails on a context not initialised,
\* refuses or registers the block.
RegisterOutcomes ==
  {"struct_oom", "buffer_oom", "refused"} \cup IF ctx THEN {"registered"} ELSE {}

\* teecRegisterSharedMemory: malloc of a TEEC_SharedMemory and its buffer,
\* TEEC_RegisterSharedMemory on g_contextRecord; on success
\* sharedmemory_map.emplace(jSmId, block), which leaves an existing entry
\* alone.  No path frees the block: not a failed buffer malloc, not a
\* refused registration.
RegisterSharedMemory(t, id) ==
  /\ pc[t] = "idle"
  /\ gen[t] < MaxCalls
  /\ gen' = [gen EXCEPT ![t] = @ + 1]
  /\ \E rv \in RegisterOutcomes :
       /\ malloced' = IF rv = "struct_oom" THEN malloced
                      ELSE malloced \cup {NewFrame(t)}
       /\ sharedmemory_map' = IF rv = "registered"
                              THEN Emplace(sharedmemory_map, id, NewFrame(t))
                              ELSE sharedmemory_map
  /\ UNCHANGED <<pc, arg, ptr, ctx, sessions_map, operations_map, freed,
                 teec_session, teeOpen, opened>>

\* teecReleaseSharedMemory up to TEEC_ReleaseSharedMemory(sm):
\* find_sharedmemory_by_id; an id not found returns.
ReleaseSharedMemoryFind(t, id) ==
  /\ pc[t] = "idle"
  /\ sharedmemory_map[id] # NoFrame
  /\ ptr' = [ptr EXCEPT ![t] = sharedmemory_map[id]]
  /\ arg' = [arg EXCEPT ![t].m = id]
  /\ pc' = [pc EXCEPT ![t] = "relfind"]
  /\ UNCHANGED <<gen, ctx, sessions_map, operations_map, teec_session,
                 teeOpen, opened, shmVars>>

\* TEEC_ReleaseSharedMemory(sm), with the pointer found before; the thread
\* waits for the TEE.
ReleaseSharedMemoryCall(t) ==
  /\ pc[t] = "relfind"
  /\ pc' = [pc EXCEPT ![t] = "release"]
  /\ UNCHANGED <<arg, gen, ptr, ctx, sessions_map, operations_map,
                 teec_session, teeOpen, opened, shmVars>>

\* The TEE call returns; remove_sharedmemory_by_id(jsmId) begins with
\* find_sharedmemory_by_id, which finds the id again or returns false.
ReleaseSharedMemoryRemove(t) ==
  LET sm == sharedmemory_map[arg[t].m]
  IN  /\ pc[t] = "release"
      /\ ptr' = [ptr EXCEPT ![t] = sm]
      /\ pc' = [pc EXCEPT ![t] = IF sm = NoFrame THEN "idle" ELSE "remfree"]
      /\ UNCHANGED <<arg, gen, ctx, sessions_map, operations_map,
                     teec_session, teeOpen, opened, shmVars>>

\* free(sm->buffer); free(sm): the block remove_sharedmemory_by_id found.
ReleaseSharedMemoryFree(t) ==
  /\ pc[t] = "remfree"
  /\ freed' = freed (+) SetToBag({ptr[t]})
  /\ pc' = [pc EXCEPT ![t] = "remerase"]
  /\ UNCHANGED <<arg, gen, ptr, ctx, sessions_map, operations_map,
                 sharedmemory_map, malloced, teec_session, teeOpen, opened>>

\* sharedmemory_map.erase(smid).
ReleaseSharedMemoryErase(t) ==
  /\ pc[t] = "remerase"
  /\ sharedmemory_map' = [sharedmemory_map EXCEPT ![arg[t].m] = NoFrame]
  /\ pc' = [pc EXCEPT ![t] = "idle"]
  /\ UNCHANGED <<arg, gen, ptr, ctx, sessions_map, operations_map, freed,
                 malloced, teec_session, teeOpen, opened>>

-----------------------------------------------------------------------------
(* The specification.                                                      *)

Init ==
  /\ pc = [t \in Threads |-> "idle"]
  /\ arg = [t \in Threads |-> [sid |-> CHOOSE s \in Sids : TRUE, op |-> FALSE,
                               h |-> CHOOSE h \in Hashes : TRUE, m |-> NoShm,
                               p |-> NoFrame]]
  /\ gen = [t \in Threads |-> 0]
  /\ ptr = [t \in Threads |-> NoFrame]
  /\ ctx = FALSE
  /\ sessions_map = [s \in Sids |-> NoPtr]
  /\ operations_map = [h \in Hashes |-> NoFrame]
  /\ sharedmemory_map = [i \in SmIds |-> NoFrame]
  /\ freed = EmptyBag
  /\ malloced = {}
  /\ teec_session = NoSession
  /\ teeOpen = {}
  /\ opened = [s \in Sids |-> NoFrame]

\* Any thread may call any handler at any time; nothing serialises them.
Next ==
  \E t \in Threads :
    \/ InitializeContext(t)
    \/ FinalizeContextClean(t)
    \/ FinalizeContext(t)
    \/ \E sid \in Sids, op \in BOOLEAN, h \in Hashes : \E m \in MemRefs(op) :
         \/ OpenSessionStart(t, sid, op, h, m)
         \/ InvokeCommandStart(t, sid, op, h, m)
    \/ OpenSessionEnd(t)
    \/ InvokeCommandEnd(t)
    \/ \E sid \in Sids : CloseSession(t, sid)
    \/ \E h \in Hashes : RequestCancellationFind(t, h)
    \/ RequestCancellationSend(t)
    \/ \E id \in SmIds :
         \/ RegisterSharedMemory(t, id)
         \/ ReleaseSharedMemoryFind(t, id)
    \/ ReleaseSharedMemoryCall(t)
    \/ ReleaseSharedMemoryRemove(t)
    \/ ReleaseSharedMemoryFree(t)
    \/ ReleaseSharedMemoryErase(t)

Spec == Init /\ [][Next]_vars

-----------------------------------------------------------------------------
(* Properties.                                                             *)

TypeOK ==
  /\ pc \in [Threads -> {"idle", "open", "invoke", "cancel", "relfind", "release",
                         "remfree", "remerase", "finclean"}]
  /\ gen \in [Threads -> 0..MaxCalls]
  /\ ptr \in [Threads -> Frames \cup {NoFrame}]
  /\ ctx \in BOOLEAN
  /\ sessions_map \in [Sids -> {StaticSession, NoPtr}]
  /\ operations_map \in [Hashes -> Frames \cup {NoFrame}]
  /\ sharedmemory_map \in [SmIds -> Frames \cup {NoFrame}]
  /\ IsABag(freed) /\ BagToSet(freed) \subseteq Frames
  /\ malloced \subseteq Frames
  /\ teec_session \in Frames \cup {NoSession}
  /\ teeOpen \subseteq Frames
  /\ opened \in [Sids -> Frames \cup {NoFrame}]

\* Every TEEC_Operation* in operations_map points into the stack frame of a
\* call still running: each call erases its key before it returns, and a
\* key emplaced by another call with the same hash is never overwritten.
OperationsMapLive ==
  \A h \in Hashes : operations_map[h] # NoFrame => Live(operations_map[h])

\* A thread that ends TEEC_InvokeCommand ...
InvokeEnds(t) == pc[t] = "invoke" /\ pc'[t] = "idle"

\* ... has reached the TEE session Java was given for the id it passed
\* (teecInvokeCommand through find_session_by_id).
InvokeReachesOwnSessionStep ==
  \A t \in Threads : InvokeEnds(t) => teec_session = opened[arg[t].sid]

\* In every behaviour, as above.
InvokeReachesOwnSession == [][InvokeReachesOwnSessionStep]_vars

\* find_session_by_id only finds an id whose session is still open in the
\* TEE: teecCloseSession does not leave a closed session to be invoked.
InvokeFindsOpenSessionStep ==
  \A t \in Threads :
       pc[t] = "idle" /\ pc'[t] = "invoke" => opened[arg'[t].sid] \in teeOpen

\* In every behaviour, as above.
InvokeFindsOpenSession == [][InvokeFindsOpenSessionStep]_vars

\* teecInvokeCommand runs the command on the session Java opened under the
\* id it passes, and that session is still open: both of the above.
InvokeReachesOpenSession == [][InvokeFindsOpenSessionStep /\ InvokeReachesOwnSessionStep]_vars

\* No TEEC_SharedMemory is freed twice.  remove_sharedmemory_by_id finds
\* the id, frees, then erases, all without a lock, and
\* clean_sharedmemory_buffer frees every block before
\* sharedmemory_map.clear(): two threads releasing one id, or a release
\* racing teecFinalizeContext, can both free one block.
ShmFreedOnce == \A b \in BagToSet(freed) : CopiesIn(b, freed) = 1

\* TEEC_RequestCancellation is only given a TEEC_Operation that is still
\* on the stack of its running call.
CancelTargetsLiveOperationStep ==
  \A t \in Threads : pc[t] = "cancel" /\ pc'[t] = "idle" => Live(ptr[t])

\* In every behaviour, as above.
CancelTargetsLiveOperation == [][CancelTargetsLiveOperationStep]_vars

\* The shared memory an operation references is not freed before its
\* TEEC_OpenSession or TEEC_InvokeCommand returns and
\* transfer_TEEC_Operation_to_op reads it back; the TEEC_SharedMemory
\* teecReleaseSharedMemory passes is not freed.
ShmUsedWhileAllocatedStep ==
  \A t \in Threads :
       /\ pc[t] = "relfind" /\ pc'[t] = "release" => ptr[t] \notin BagToSet(freed)
       /\ pc[t] \in {"open", "invoke"} /\ pc'[t] = "idle"
            => arg[t].p \notin BagToSet(freed)

\* In every behaviour, as above.
ShmUsedWhileAllocated == [][ShmUsedWhileAllocatedStep]_vars

\* Every TEEC_SharedMemory teecRegisterSharedMemory malloc'd is either
\* freed or still in sharedmemory_map, where teecReleaseSharedMemory and
\* teecFinalizeContext can free it (a failed registration, or an emplace
\* under an id already in the map, loses the block).
ShmNotLeaked ==
  \A b \in malloced : b \in BagToSet(freed) \/ \E i \in SmIds : sharedmemory_map[i] = b

\* The wrapper manages the memory it shares with the TEE soundly: a block
\* is freed neither while a TEE call may still use it, nor never.
TeeMemorySound ==
  [][CancelTargetsLiveOperationStep /\ ShmUsedWhileAllocatedStep /\ ShmNotLeaked']_vars

\* Every TEE call of the wrapper reaches what Java named and only memory
\* that is live: teecInvokeCommand reaches the session Java opened under
\* the id, cancellation and registered memory pass live pointers, and no
\* block teecRegisterSharedMemory malloc'd is lost.
TeeCallsSound ==
  [][/\ InvokeFindsOpenSessionStep /\ InvokeReachesOwnSessionStep
     /\ CancelTargetsLiveOperationStep /\ ShmUsedWhileAllocatedStep
     /\ ShmNotLeaked' /\ ShmFreedOnce']_vars

=============================================================================
