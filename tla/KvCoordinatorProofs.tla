------------------------- MODULE KvCoordinatorProofs -------------------------
(***************************************************************************)
(* Proofs about KvCoordinator, for any sessions, models, configuration,    *)
(* calls and faults: its types, that a save in progress covers its owner,  *)
(* that a ready manifest has its file, that the lease is a line, and that  *)
(* no owner is evicted unsaved.  Then, with the faults that each can bear: *)
(* whose conversation the slot and the snapshots hold, that every unsaved  *)
(* turn is in the slot, and that a snapshot holds what it is said to.      *)
(***************************************************************************)
EXTENDS KvCoordinator, SequenceTheorems, TLAPS

\* The operations that really enter the line: those about a session name one,
\* a request names a model, and the trigger "shutdown" is that of the final
\* flush only.  The host makes no other calls than those of the instance.
LeasedOperations ==
    {op \in Operations :
        /\ op.kind \in Calls \union {"flush", "idle"}
        /\ op.kind \notin {"auxiliary", "flush"} => op.session \in Sessions
        /\ op.kind = "request" => op.model \in Models
        /\ op.trigger = "shutdown" => op.kind = "flush" /\ "shutdown" \in Triggers}

\* Phases of a head that prepares the slot for its session.
PreparePhases == {"find", "restore", "markInvalid", "erase", "eraseFallback"}

\* The head of the line fits the await it is suspended at.
HeadFits ==
    /\ phase = "free" <=> line = <<>>
    /\ phase \in PreparePhases =>
          Running.kind \in {"request", "restoreNow"} /\ wanted \in Models
    /\ phase \in {"save", "put", "saved"} /\ Running.kind \in {"request", "restoreNow"} =>
          wanted \in Models
    /\ phase = "stream" => Running.kind \in {"request", "auxiliary"}
    /\ phase \in {"eraseOwned", "manifests"} => Running.kind \in {"invalidate", "purge"}

HolderInv ==
    /\ line \in Seq(LeasedOperations)
    /\ phase \in Phases
    /\ saving \in Saves
    /\ wanted \in Models \union {NoModel}
    /\ HeadFits

\* A save in progress has a session and a model, and covers the slot's owner.
SaveInv ==
    /\ SaveCoversOwner
    /\ phase \in {"save", "put"} =>
          saving.session \in Sessions /\ saving.model \in Models

\* Between the two steps of a save the file is already there.
FileInv ==
    /\ ReadyHasFile
    /\ phase = "put" => SavedFile \in written

\* The types of everything that is not the line.
StateInv ==
    /\ known \subseteq Sessions
    /\ runtime \in [Sessions -> Runtimes]
    /\ owner \in Sessions \union {NoSession}
    /\ slotState \in SlotStates
    /\ failures \in 0 .. MaxFailures
    /\ isOpen \in BOOLEAN
    /\ idleTimer \in Sessions \union {NoSession}
    /\ disposal \in {"running", "flushing", "settled", "abandoned"}
    /\ runtimeKey \in RuntimeKeys
    /\ turns \in [Sessions -> Nat]
    /\ calls \in Nat /\ faults \in Nat /\ restarts \in Nat

ServerInv ==
    /\ manifests \in [Snapshots -> Manifests]
    /\ cell \in Contents
    /\ written \subseteq Snapshots
    /\ files \in [Snapshots -> Contents]
    /\ late \subseteq [kind : {"save", "restore", "erase"}, file : Snapshots]

IInv == HolderInv /\ StateInv /\ ServerInv /\ SaveInv /\ FileInv

------------------------------------------------------------------------------
(* Facts about the data and the line.                                      *)

\* A configuration has a model, a limit and keys that are not the empty ones.
LEMMA Constants ==
    /\ AnyModel \in Models
    /\ NewRuntime(AnyModel) \in Runtimes
    /\ \A m \in Models : NewRuntime(m) \in Runtimes
    /\ NoSave \in Saves /\ EmptyKv \in Contents /\ AuxiliaryKv \in Contents
    /\ NoManifest \in Manifests
    /\ MaxFailures \in Nat \ {0}
<1>1. AnyModel \in Models
    BY ConstantsAssumption DEF AnyModel
<1>2. \A m \in Models : NewRuntime(m) \in Runtimes
    BY DEF NewRuntime, Runtimes
<1>3. EmptyKv \in Contents /\ AuxiliaryKv \in Contents
    BY DEF EmptyKv, AuxiliaryKv, Contents
<1>4. NoSave \in Saves /\ NoManifest \in Manifests
    BY DEF NoSave, Saves, NoManifest, Manifests
<1> QED BY <1>1, <1>2, <1>3, <1>4, ConstantsAssumption

\* Joining a sequence at the end, leaving it at the front.
LEMMA SequenceFacts ==
    ASSUME NEW S, NEW q \in Seq(S)
    PROVE  /\ \A e \in S : /\ Append(q, e) \in Seq(S) /\ Append(q, e) # <<>>
                            /\ q # <<>> => Head(Append(q, e)) = Head(q)
           /\ q # <<>> => /\ Head(q) \in S /\ Tail(q) \in Seq(S)
                           /\ Tail(q) = <<>> <=> Len(q) = 1
<1>1. ASSUME NEW e \in S
      PROVE  /\ Append(q, e) \in Seq(S) /\ Append(q, e) # <<>>
             /\ q # <<>> => Head(Append(q, e)) = Head(q)
  <2>1. /\ Append(q, e) \in Seq(S) /\ Len(Append(q, e)) = Len(q) + 1
        /\ \A i \in 1 .. Len(q) : Append(q, e)[i] = q[i]
      OBVIOUS
  <2>2. Len(q) \in Nat /\ (q # <<>> => Len(q) > 0)
      BY EmptySeq, LenProperties
  <2>3. Append(q, e) # <<>>
      BY <2>1, <2>2, EmptySeq
  <2>4. q # <<>> => Head(q) = q[1] /\ Head(Append(q, e)) = Append(q, e)[1]
      OBVIOUS
  <2> QED BY <2>1, <2>2, <2>3, <2>4
<1>2. ASSUME q # <<>>
      PROVE  /\ Head(q) \in S /\ Tail(q) \in Seq(S)
             /\ Tail(q) = <<>> <=> Len(q) = 1
  <2>1. /\ Head(q) \in S /\ Tail(q) \in Seq(S)
        /\ Len(Tail(q)) = Len(q) - 1 /\ Len(q) \in Nat
      BY <1>2, HeadTailProperties, LenProperties
  <2>2. Tail(q) = <<>> <=> Len(Tail(q)) = 0
      BY <2>1, EmptySeq
  <2> QED BY <2>1, <2>2
<1> QED BY <1>1, <1>2

\* The holder of the lease is one of the operations that enter the line.
LEMMA RunningIsLeased ==
    ASSUME HolderInv, phase # "free"
    PROVE  /\ line # <<>>
           /\ Running \in LeasedOperations
           /\ Running.session \in Sessions \union {NoSession}
           /\ Running.kind \notin {"auxiliary", "flush"} => Running.session \in Sessions
           /\ Running.kind = "request" => Running.model \in Models
<1>1. line # <<>> /\ line \in Seq(LeasedOperations)
    BY DEF HolderInv, HeadFits
<1>2. Running \in LeasedOperations
    BY <1>1, SequenceFacts DEF Running
<1> QED BY <1>1, <1>2 DEF LeasedOperations, Operations

\* What calls and the idle timer put in the line may be put there.
LEMMA CallsAreLeased ==
    /\ \A s \in Sessions, m \in Models :
          CallRequest(s, m) => Operation("request", s, m, "manual") \in LeasedOperations
    /\ \A op \in PlainOperations : CallOperation(op) => op \in LeasedOperations
    /\ "shutdown" \in Triggers =>
          Operation("flush", NoSession, NoModel, "shutdown") \in LeasedOperations
    /\ \A s \in Sessions : Operation("idle", s, NoModel, "idle") \in LeasedOperations
<1>1. ASSUME NEW s \in Sessions, NEW m \in Models, CallRequest(s, m)
      PROVE  Operation("request", s, m, "manual") \in LeasedOperations
    BY <1>1 DEF CallRequest, Call, Operation, LeasedOperations, Operations, CallKinds
<1>2. ASSUME NEW op \in PlainOperations, CallOperation(op)
      PROVE  op \in LeasedOperations
  <2>1. op.kind \in Calls
      BY <1>2 DEF CallOperation, Call
  <2>2. op \in Operations /\ op.trigger # "shutdown"
      BY ConstantsAssumption DEF PlainOperations, Operation, Operations, CallKinds, AllTriggers
  <2>3. /\ op.kind \notin {"auxiliary", "flush"} => op.session \in Sessions
        /\ op.kind # "request"
      BY DEF PlainOperations, Operation
  <2> QED BY <2>1, <2>2, <2>3 DEF LeasedOperations
<1>3. "shutdown" \in Triggers =>
          Operation("flush", NoSession, NoModel, "shutdown") \in LeasedOperations
    BY DEF Operation, LeasedOperations, Operations, CallKinds, AllTriggers
<1>4. \A s \in Sessions : Operation("idle", s, NoModel, "idle") \in LeasedOperations
    BY DEF Operation, LeasedOperations, Operations, CallKinds, AllTriggers
<1> QED BY <1>1, <1>2, <1>3, <1>4

\* A call that takes its place in the line leaves the head where it is.
LEMMA EnqueueKeeps ==
    ASSUME HolderInv, NEW op \in LeasedOperations, Enqueue(op)
    PROVE  /\ HolderInv'
           /\ phase' # phase => phase = "free" /\ phase' = "granted"
           /\ phase # "free" => Running' = Running
           /\ saving' = saving /\ wanted' = wanted
<1>1. line' \in Seq(LeasedOperations) /\ line' # <<>>
    BY SequenceFacts DEF Enqueue, HolderInv
<1>2. CASE line = <<>>
  <2>1. phase' = "granted" /\ phase = "free"
      BY <1>2 DEF Enqueue, HolderInv, HeadFits
  <2>2. HeadFits'
      BY <1>1, <2>1 DEF HeadFits, PreparePhases
  <2> QED BY <1>1, <2>1, <2>2 DEF Enqueue, HolderInv, Phases
<1>3. CASE line # <<>>
  <2>1. phase' = phase /\ phase # "free" /\ wanted' = wanted
      BY <1>3 DEF Enqueue, HolderInv, HeadFits
  <2>2. Running' = Running
      BY <1>3, SequenceFacts DEF Enqueue, HolderInv, Running
  <2>3. HeadFits'
      BY <1>1, <2>1, <2>2 DEF HeadFits, HolderInv
  <2> QED BY <1>1, <2>1, <2>2, <2>3 DEF Enqueue, HolderInv
<1> QED BY <1>2, <1>3

\* The head that gives the lease back leaves no trace of its work.
LEMMA ReleaseKeeps ==
    ASSUME HolderInv, phase # "free", Release
    PROVE  HolderInv' /\ phase' \in {"free", "granted"}
<1>1. line # <<>> /\ line \in Seq(LeasedOperations) /\ line' = Tail(line)
    BY RunningIsLeased DEF Release, HolderInv
<1>2. line' \in Seq(LeasedOperations) /\ (line' = <<>> <=> Len(line) = 1)
    BY <1>1, SequenceFacts
<1>3. phase' \in {"free", "granted"} /\ (phase' = "free" <=> line' = <<>>)
    BY <1>2 DEF Release
<1>4. HeadFits'
    BY <1>3 DEF HeadFits, PreparePhases
<1> QED BY <1>2, <1>3, <1>4, Constants DEF Release, HolderInv, Phases

\* The head goes on to an await that fits it.
LEMMA GoToKeeps ==
    ASSUME HolderInv, phase # "free", NEW p \in Phases \ {"free"}, GoTo(p),
           p \in PreparePhases =>
              Running.kind \in {"request", "restoreNow"} /\ wanted \in Models,
           p \in {"save", "put", "saved"} /\ Running.kind \in {"request", "restoreNow"} =>
              wanted \in Models,
           p = "stream" => Running.kind \in {"request", "auxiliary"},
           p \in {"eraseOwned", "manifests"} => Running.kind \in {"invalidate", "purge"}
    PROVE  HolderInv' /\ phase' = p /\ UNCHANGED <<line, saving, wanted>>
<1>1. phase' = p /\ UNCHANGED <<line, saving, wanted>> /\ Running' = Running
    BY DEF GoTo, Running
<1>2. HeadFits'
    BY <1>1, RunningIsLeased DEF HeadFits
<1> QED BY <1>1, <1>2 DEF HolderInv

------------------------------------------------------------------------------
(* Each group of actions preserves the invariant.                          *)

\* A new coordinator: an empty line, an empty map of sessions.
LEMMA InitInv == Init => IInv
<1> SUFFICES ASSUME Init PROVE IInv
    OBVIOUS
<1>1. HolderInv
    BY Constants, EmptySeq DEF Init, HolderInv, HeadFits, Phases, PreparePhases
<1>2. StateInv
  <2>1. runtime \in [Sessions -> Runtimes] /\ turns \in [Sessions -> Nat]
      BY Constants DEF Init
  <2>2. failures \in 0 .. MaxFailures
      BY Constants DEF Init
  <2> QED BY <2>1, <2>2 DEF Init, StateInv, SlotStates
<1>3. ServerInv
    BY Constants DEF Init, ServerInv
<1>4. SaveInv /\ FileInv
    BY DEF Init, SaveInv, SaveCoversOwner, FileInv, ReadyHasFile, NoManifest
<1> QED BY <1>1, <1>2, <1>3, <1>4 DEF IInv

\* Where no save is in progress afterwards and neither the manifests nor the
\* files change, nothing is to be shown about them.
LEMMA NoSaveAfter ==
    ASSUME IInv, phase' \notin {"save", "put"}, UNCHANGED <<manifests, serverVars>>
    PROVE  ServerInv' /\ SaveInv' /\ FileInv'
BY DEF IInv, ServerInv, serverVars, SaveInv, SaveCoversOwner, FileInv, ReadyHasFile

\* Calls join the line; a request that finds its session known changes the
\* session's route only.
LEMMA ArrivalKeeps == IInv /\ Arrival => IInv'
<1> SUFFICES ASSUME IInv, Arrival PROVE IInv'
    OBVIOUS
<1>0. UNCHANGED <<owner, slotState, failures, isOpen, runtimeKey, manifests, cell,
                  written, files, late, turns, faults, restarts>>
    BY DEF Arrival, slotVars, breakerVars, serverVars
<1>1. ASSUME NEW s \in Sessions, NEW m \in Models, CallRequest(s, m) PROVE IInv'
  <2>1. Operation("request", s, m, "manual") \in LeasedOperations
      BY <1>1, CallsAreLeased
  <2>2. HolderInv' /\ saving' = saving /\ (phase' # phase => phase' = "granted")
      BY <1>1, <2>1, EnqueueKeeps DEF CallRequest, IInv
  <2>3. /\ known \subseteq known' /\ known' \subseteq Sessions
        /\ runtime' \in [Sessions -> Runtimes]
        /\ \A r \in known : runtime'[r].dirtyRevision = runtime[r].dirtyRevision
      BY <1>1, Constants DEF CallRequest, EnsureRuntime, IInv, StateInv, Runtimes
  <2>4. StateInv'
      BY <1>0, <1>1, <2>3 DEF CallRequest, Call, IInv, StateInv
  <2>5. ServerInv' /\ FileInv'
      BY <1>0, <2>2 DEF IInv, ServerInv, FileInv, ReadyHasFile, SavedFile
  <2>6. SaveInv'
      BY <1>0, <2>2, <2>3 DEF IInv, SaveInv, SaveCoversOwner
  <2> QED BY <2>2, <2>4, <2>5, <2>6 DEF IInv
<1>2. ASSUME UNCHANGED sessionVars, StateInv',
             HolderInv', saving' = saving, phase' # phase => phase' = "granted"
      PROVE  IInv'
  <2>1. ServerInv' /\ FileInv'
      BY <1>0, <1>2 DEF IInv, ServerInv, FileInv, ReadyHasFile, SavedFile
  <2>2. SaveInv'
      BY <1>0, <1>2 DEF IInv, SaveInv, SaveCoversOwner, sessionVars
  <2> QED BY <1>2, <2>1, <2>2 DEF IInv
<1>3. ASSUME NEW op \in PlainOperations, CallOperation(op) PROVE IInv'
  <2>1. op \in LeasedOperations
      BY <1>3, CallsAreLeased
  <2>2. HolderInv' /\ saving' = saving /\ (phase' # phase => phase' = "granted")
      BY <1>3, <2>1, EnqueueKeeps DEF CallOperation, IInv
  <2>3. StateInv' /\ UNCHANGED sessionVars
      BY <1>0, <1>3 DEF CallOperation, Call, IInv, StateInv, sessionVars
  <2> QED BY <1>2, <2>2, <2>3
<1>4. ASSUME Dispose PROVE IInv'
  <2>2. HolderInv' /\ saving' = saving /\ (phase' # phase => phase' = "granted")
    <3>1. CASE /\ "shutdown" \in Triggers
               /\ Enqueue(Operation("flush", NoSession, NoModel, "shutdown"))
        BY <3>1, CallsAreLeased, EnqueueKeeps DEF IInv
    <3>2. CASE UNCHANGED <<line, holderVars>>
        BY <3>2 DEF IInv, HolderInv, HeadFits, Running, holderVars
    <3> QED BY <1>4, <3>1, <3>2 DEF Dispose
  <2>3. StateInv' /\ UNCHANGED sessionVars
      BY <1>0, <1>4 DEF Dispose, Call, IInv, StateInv, sessionVars
  <2> QED BY <1>2, <2>2, <2>3
<1> QED BY <1>1, <1>3, <1>4 DEF Arrival

\* The timers touch the line and their own state.
LEMMA TimersKeep == IInv /\ (IdleTimerFires \/ GraceExpires) => IInv'
<1> SUFFICES ASSUME IInv, IdleTimerFires \/ GraceExpires PROVE IInv'
    OBVIOUS
<1>0. UNCHANGED <<known, runtime, owner, slotState, failures, isOpen, runtimeKey, manifests,
                  cell, written, files, late, turns, calls, faults, restarts>>
    BY DEF IdleTimerFires, GraceExpires, sessionVars, slotVars, breakerVars, outside,
           serverVars, boundVars
<1>1. HolderInv' /\ saving' = saving /\ (phase' # phase => phase' = "granted")
  <2>1. CASE IdleTimerFires
    <3>1. Operation("idle", idleTimer, NoModel, "idle") \in LeasedOperations
        BY <2>1, CallsAreLeased DEF IdleTimerFires, IInv, StateInv
    <3> QED BY <2>1, <3>1, EnqueueKeeps DEF IdleTimerFires, IInv
  <2>2. CASE GraceExpires
      BY <2>2 DEF GraceExpires, IInv, HolderInv, HeadFits, Running, holderVars
  <2> QED BY <2>1, <2>2
<1>2. StateInv'
    BY <1>0 DEF IdleTimerFires, GraceExpires, IInv, StateInv
<1>3. ServerInv' /\ FileInv'
    BY <1>0, <1>1 DEF IInv, ServerInv, FileInv, ReadyHasFile, SavedFile
<1>4. SaveInv'
    BY <1>0, <1>1 DEF IInv, SaveInv, SaveCoversOwner
<1> QED BY <1>1, <1>2, <1>3, <1>4 DEF IInv

\* A save begins for the owner, with the revision its runtime has.
LEMMA BeginSaveKeeps ==
    ASSUME IInv, phase # "free", NEW trigger, ShouldCheckpoint(owner, trigger),
           BeginSave(owner), UNCHANGED sessionVars,
           wanted' \in Models \union {NoModel},
           Running.kind \in {"request", "restoreNow"} => wanted' \in Models
    PROVE  HolderInv' /\ SaveInv' /\ phase' = "save" /\ owner' = owner
           /\ slotState' \in SlotStates
<1>1. owner \in known /\ owner \in Sessions /\ runtime[owner] \in Runtimes
    BY DEF ShouldCheckpoint, IInv, StateInv
<1>2. saving' \in Saves /\ saving'.session = owner /\ saving'.model \in Models
      /\ saving'.generation = runtime[owner].dirtyRevision
    BY <1>1 DEF BeginSave, Saves, Runtimes
<1>3. phase' = "save" /\ line' = line /\ owner' = owner /\ slotState' \in SlotStates
    BY DEF BeginSave, SlotStates
<1>4. HeadFits'
    BY <1>3, RunningIsLeased DEF HeadFits, PreparePhases, Running, IInv
<1>5. HolderInv'
    BY <1>2, <1>3, <1>4 DEF HolderInv, IInv, Phases
<1>6. SaveInv'
    BY <1>1, <1>2, <1>3 DEF SaveInv, SaveCoversOwner, sessionVars
<1> QED BY <1>3, <1>5, <1>6

\* At its end a preparation opens a stream or releases the lease.
LEMMA EndPreparationKeeps ==
    ASSUME HolderInv, phase # "free", Running.kind \in {"request", "restoreNow"},
           NEW state \in SlotStates, EndPreparation(state)
    PROVE  HolderInv' /\ phase' \notin {"save", "put"} /\ slotState' \in SlotStates
<1>1. CASE Running.kind = "request" /\ slotState' = "inference" /\ GoTo("stream")
    BY <1>1, GoToKeeps DEF Phases, PreparePhases, SlotStates
<1>2. CASE Running.kind = "restoreNow" /\ slotState' = state /\ Release
    BY <1>2, ReleaseKeeps
<1> QED BY <1>1, <1>2 DEF EndPreparation

\* The preparation up to its first await.
LEMMA PrepareKeeps ==
    ASSUME IInv, phase # "free", Running.kind \in {"request", "restoreNow"},
           NEW m \in Models, Prepare(Running.session, m), UNCHANGED <<sessionVars, outside>>
    PROVE  HolderInv' /\ SaveInv' /\ FileInv' /\ ServerInv'
           /\ owner' = owner /\ slotState' \in SlotStates
<1> DEFINE s == Running.session
<1>0. UNCHANGED <<manifests, serverVars>> /\ slotState \in SlotStates
    BY DEF outside, IInv, StateInv
<1>1. CASE Resident(s) /\ EndPreparation(slotState) /\ UNCHANGED owner
    BY <1>0, <1>1, EndPreparationKeeps, NoSaveAfter DEF IInv
<1>2. CASE ~Resident(s) /\ MustSaveFirst(s) /\ BeginSave(owner) /\ wanted' = m
  <2>1. HolderInv' /\ SaveInv' /\ phase' = "save" /\ owner' = owner /\ slotState' \in SlotStates
      BY <1>2, BeginSaveKeeps DEF MustSaveFirst
  <2>2. ServerInv' /\ FileInv'
      BY <1>0, <2>1 DEF IInv, ServerInv, FileInv, ReadyHasFile, serverVars
  <2> QED BY <2>1, <2>2
<1>3. CASE /\ ~Resident(s) /\ ~MustSaveFirst(s)
           /\ phase' = LookUp /\ wanted' = m
           /\ UNCHANGED <<line, saving, slotVars>>
  <2>1. phase' \in {"find", "erase"} /\ Running' = Running
      BY <1>3 DEF LookUp, Running
  <2>2. HeadFits'
      BY <1>3, <2>1, RunningIsLeased DEF HeadFits, PreparePhases, IInv
  <2>3. HolderInv'
      BY <1>3, <2>1, <2>2 DEF HolderInv, IInv, Phases
  <2> QED BY <1>0, <1>3, <2>1, <2>3, NoSaveAfter DEF slotVars
<1> QED BY <1>1, <1>2, <1>3 DEF Prepare

\* What a step under the lease leaves to show once the line, the slot and the
\* sessions are known to be in order.
LEMMA AdmissionFrame ==
    ASSUME IInv, UNCHANGED <<breakerVars, runtimeKey, outside>>,
           known' \subseteq Sessions, runtime' \in [Sessions -> Runtimes],
           owner' \in Sessions \union {NoSession}, slotState' \in SlotStates,
           idleTimer' \in Sessions \union {NoSession},
           disposal' \in {"running", "flushing", "settled", "abandoned"}
    PROVE  StateInv' /\ UNCHANGED <<manifests, serverVars>>
BY DEF IInv, StateInv, breakerVars, outside, boundVars

\* A session is forgotten only when its lease ends, and never while it is saved.
LEMMA EndSessionKeeps ==
    ASSUME IInv, phase # "free", Running.kind = "disposed", EndSession,
           disposal' = disposal, UNCHANGED <<breakerVars, runtimeKey, outside>>
    PROVE  IInv'
<1>1. HolderInv' /\ phase' \notin {"save", "put"}
    BY ReleaseKeeps DEF EndSession, IInv
<1>2. owner' \in Sessions \union {NoSession} /\ slotState' \in SlotStates
    BY DEF EndSession, ClearOwner, slotVars, IInv, StateInv, SlotStates
<1>3. known' \subseteq Sessions /\ runtime' \in [Sessions -> Runtimes]
    BY Constants DEF EndSession, Forget, IInv, StateInv
<1>4. idleTimer' \in Sessions \union {NoSession}
    BY DEF EndSession, IInv, StateInv
<1>5. StateInv' /\ UNCHANGED <<manifests, serverVars>>
    BY <1>2, <1>3, <1>4, AdmissionFrame DEF IInv, StateInv
<1> QED BY <1>1, <1>5, NoSaveAfter DEF IInv

\* Requests, checkpoints and removals from the lease to their first await, and
\* from the end of their save on.
LEMMA AdmissionKeeps == IInv /\ Admission => IInv'
<1> SUFFICES ASSUME IInv, Admission PROVE IInv'
    OBVIOUS
<1>0. UNCHANGED <<breakerVars, runtimeKey, outside>>
    BY DEF Admission
<1> DEFINE SessionsKept == /\ UNCHANGED sessionVars
                           /\ idleTimer' \in {idleTimer, NoSession}
                           /\ disposal' \in {disposal, "settled"}
<1>1. ASSUME SessionsKept, HolderInv', phase' \notin {"save", "put"},
             owner' \in Sessions \union {NoSession}, slotState' \in SlotStates
      PROVE  IInv'
  <2>1. StateInv' /\ UNCHANGED <<manifests, serverVars>>
      BY <1>0, <1>1, AdmissionFrame DEF sessionVars, IInv, StateInv
  <2> QED BY <1>1, <2>1, NoSaveAfter DEF IInv
<1>2. ASSUME SessionsKept, HolderInv', SaveInv', phase' = "save",
             owner' \in Sessions \union {NoSession}, slotState' \in SlotStates
      PROVE  IInv'
  <2>1. StateInv' /\ UNCHANGED <<manifests, serverVars>>
      BY <1>0, <1>2, AdmissionFrame DEF sessionVars, IInv, StateInv
  <2>2. ServerInv' /\ FileInv'
      BY <1>2, <2>1 DEF IInv, ServerInv, FileInv, ReadyHasFile, serverVars
  <2> QED BY <1>2, <2>1, <2>2 DEF IInv
<1>3. owner \in Sessions \union {NoSession} /\ slotState \in SlotStates
    BY DEF IInv, StateInv
<1>4. CASE RefuseRequest
  <2>1. phase # "free" /\ SessionsKept /\ UNCHANGED slotVars /\ Release
      BY <1>4 DEF RefuseRequest, Granted
  <2> QED BY <1>1, <1>3, <2>1, ReleaseKeeps DEF IInv, slotVars
<1>5. CASE BypassRequest
  <2>1. /\ phase # "free" /\ SessionsKept /\ LoseSlotTracking /\ GoTo("stream")
        /\ Running.kind \in {"request", "auxiliary"}
      BY <1>5 DEF BypassRequest, Welcome, Granted
  <2>2. HolderInv' /\ phase' = "stream"
      BY <2>1, GoToKeeps DEF IInv, Phases, PreparePhases
  <2> QED BY <1>1, <2>1, <2>2 DEF LoseSlotTracking, SlotStates
<1>6. CASE LoseRequest
  <2>1. phase # "free" /\ SessionsKept /\ UNCHANGED slotVars /\ Release
      BY <1>6 DEF LoseRequest, Welcome, Granted
  <2> QED BY <1>1, <1>3, <2>1, ReleaseKeeps DEF IInv, slotVars
<1>7. CASE AdmitRequest
  <2>1. /\ phase # "free" /\ SessionsKept /\ Running.kind = "request"
        /\ Prepare(Running.session, Running.model)
      BY <1>7 DEF AdmitRequest, Welcome, Granted
  <2>2. Running.model \in Models
      BY <2>1, RunningIsLeased DEF IInv
  <2>3. HolderInv' /\ SaveInv' /\ FileInv' /\ ServerInv'
        /\ owner' = owner /\ slotState' \in SlotStates
      BY <1>0, <2>1, <2>2, PrepareKeeps
  <2>4. StateInv'
      BY <1>0, <1>3, <2>1, <2>3, AdmissionFrame DEF sessionVars, IInv, StateInv
  <2> QED BY <2>3, <2>4 DEF IInv
<1>8. CASE AdmitRestoreNow
  <2>1. phase # "free" /\ SessionsKept /\ Running.kind = "restoreNow"
      BY <1>8 DEF AdmitRestoreNow, Granted
  <2>2. CASE Release /\ UNCHANGED slotVars
      BY <1>1, <1>3, <2>1, <2>2, ReleaseKeeps DEF IInv, slotVars
  <2>3. CASE Running.session \in known /\ Prepare(Running.session, runtime[Running.session].model)
    <3>1. runtime[Running.session].model \in Models
        BY <2>3 DEF IInv, StateInv, Runtimes
    <3>2. HolderInv' /\ SaveInv' /\ FileInv' /\ ServerInv'
          /\ owner' = owner /\ slotState' \in SlotStates
        BY <1>0, <2>1, <2>3, <3>1, PrepareKeeps
    <3>3. StateInv'
        BY <1>0, <1>3, <2>1, <3>2, AdmissionFrame DEF sessionVars, IInv, StateInv
    <3> QED BY <3>2, <3>3 DEF IInv
  <2> QED BY <1>8, <2>2, <2>3 DEF AdmitRestoreNow
<1>9. CASE AdmitAuxiliary
  <2>1. phase # "free" /\ SessionsKept /\ Running.kind = "auxiliary"
      BY <1>9 DEF AdmitAuxiliary, Welcome, Granted
  <2>2. CASE owner = NoSession /\ GoTo("stream") /\ UNCHANGED slotVars
    <3>1. HolderInv' /\ phase' = "stream"
        BY <2>1, <2>2, GoToKeeps DEF IInv, Phases, PreparePhases
    <3> QED BY <1>1, <1>3, <2>1, <2>2, <3>1 DEF slotVars
  <2>3. CASE MustSaveFirst(NoSession) /\ BeginSave(owner) /\ UNCHANGED wanted
    <3>1. HolderInv' /\ SaveInv' /\ phase' = "save" /\ owner' = owner /\ slotState' \in SlotStates
        BY <2>1, <2>3, BeginSaveKeeps DEF MustSaveFirst, IInv, HolderInv
    <3> QED BY <1>2, <1>3, <2>1, <3>1
  <2>4. CASE owner # NoSession /\ ~MustSaveFirst(NoSession) /\ ClearOwner /\ GoTo("stream")
    <3>1. HolderInv' /\ phase' = "stream"
        BY <2>1, <2>4, GoToKeeps DEF IInv, Phases, PreparePhases
    <3> QED BY <1>1, <2>1, <2>4, <3>1 DEF ClearOwner, SlotStates
  <2> QED BY <1>9, <2>2, <2>3, <2>4 DEF AdmitAuxiliary
<1>10. ASSUME Running.kind \in CheckpointKinds, phase # "free", EndCheckpoint,
              UNCHANGED <<sessionVars, idleTimer>>
       PROVE  IInv'
    BY <1>1, <1>3, <1>10, ReleaseKeeps DEF EndCheckpoint, IInv, slotVars
<1>11. CASE AdmitCheckpoint
  <2>1. phase # "free" /\ Running.kind \in CheckpointKinds /\ UNCHANGED <<sessionVars, idleTimer>>
      BY <1>11 DEF AdmitCheckpoint, Granted
  <2>2. CASE CheckpointSaves /\ BeginSave(owner) /\ UNCHANGED <<wanted, disposal>>
    <3>1. HolderInv' /\ SaveInv' /\ phase' = "save" /\ owner' = owner /\ slotState' \in SlotStates
        BY <2>1, <2>2, BeginSaveKeeps DEF CheckpointSaves, CheckpointKinds, IInv, HolderInv
    <3> QED BY <1>2, <1>3, <2>1, <2>2, <3>1
  <2> QED BY <1>10, <1>11, <2>1, <2>2 DEF AdmitCheckpoint
<1>12. CASE AdmitDisposed
  <2>1. phase # "free" /\ Running.kind = "disposed" /\ disposal' = disposal
      BY <1>12 DEF AdmitDisposed, Granted
  <2>2. CASE DisposalSaves /\ BeginSave(owner) /\ UNCHANGED <<wanted, sessionVars, idleTimer>>
    <3>1. HolderInv' /\ SaveInv' /\ phase' = "save" /\ owner' = owner /\ slotState' \in SlotStates
        BY <2>1, <2>2, BeginSaveKeeps DEF DisposalSaves, IInv, HolderInv
    <3> QED BY <1>2, <1>3, <2>1, <2>2, <3>1
  <2>3. CASE EndSession
      BY <1>0, <2>1, <2>3, EndSessionKeeps
  <2> QED BY <1>12, <2>2, <2>3 DEF AdmitDisposed
<1>13. CASE AdmitRemoval
  <2>1. /\ phase # "free" /\ SessionsKept /\ UNCHANGED slotVars
        /\ Running.kind \in {"invalidate", "purge"}
        /\ \/ GoTo("eraseOwned") \/ GoTo("manifests")
      BY <1>13 DEF AdmitRemoval, Granted
  <2>2. HolderInv' /\ phase' \in {"eraseOwned", "manifests"}
      BY <2>1, GoToKeeps DEF IInv, Phases, PreparePhases
  <2> QED BY <1>1, <1>3, <2>1, <2>2 DEF slotVars
<1>14. CASE ResumePrepare
  <2>1. /\ phase = "saved" /\ SessionsKept /\ UNCHANGED slotVars
        /\ Running.kind \in {"request", "restoreNow"} /\ wanted \in Models
        /\ \/ GoTo("find") \/ GoTo("erase")
      BY <1>14 DEF ResumePrepare, LookUp, IInv, HolderInv, HeadFits
  <2>2. HolderInv' /\ phase' \in {"find", "erase"}
      BY <2>1, GoToKeeps DEF IInv, Phases
  <2> QED BY <1>1, <1>3, <2>1, <2>2 DEF slotVars
<1>15. CASE ResumeAuxiliary
  <2>1. /\ phase # "free" /\ SessionsKept /\ ClearOwner /\ GoTo("stream")
        /\ Running.kind = "auxiliary"
      BY <1>15 DEF ResumeAuxiliary
  <2>2. HolderInv' /\ phase' = "stream"
      BY <2>1, GoToKeeps DEF IInv, Phases, PreparePhases
  <2> QED BY <1>1, <2>1, <2>2 DEF ClearOwner, SlotStates
<1>16. CASE ResumeDisposed
    BY <1>0, <1>16, EndSessionKeeps DEF ResumeDisposed
<1>17. CASE ResumeCheckpoint
    BY <1>10, <1>17 DEF ResumeCheckpoint
<1> QED BY <1>4, <1>5, <1>6, <1>7, <1>8, <1>9, <1>11, <1>12, <1>13, <1>14, <1>15, <1>16, <1>17
        DEF Admission

\* The breaker's counter stays within its limit.
LEMMA BreakerFacts ==
    ASSUME StateInv
    PROVE  /\ \A n \in Nat : RecordFailures(n) => failures' \in 0 .. MaxFailures /\ isOpen' \in BOOLEAN
           /\ RecordSuccess => failures' \in 0 .. MaxFailures /\ isOpen' \in BOOLEAN
<1>1. MaxFailures \in Nat /\ failures \in Nat
    BY Constants DEF StateInv
<1>2. ASSUME NEW n \in Nat, RecordFailures(n)
      PROVE  failures' \in 0 .. MaxFailures /\ isOpen' \in BOOLEAN
  <2>1. failures' = IF failures + n < MaxFailures THEN failures + n ELSE MaxFailures
      BY <1>2 DEF RecordFailures
  <2>2. isOpen' = (failures + n >= MaxFailures)
      BY <1>2 DEF RecordFailures
  <2>3. failures' \in 0 .. MaxFailures
      BY <1>1, <2>1
  <2>4. isOpen' \in BOOLEAN
      BY <2>2
  <2> QED BY <2>3, <2>4
<1>3. ASSUME RecordSuccess PROVE failures' \in 0 .. MaxFailures /\ isOpen' \in BOOLEAN
  <2>1. failures' = 0 /\ isOpen' = FALSE
      BY <1>3 DEF RecordSuccess
  <2>2. 0 \in 0 .. MaxFailures
      BY <1>1
  <2> QED BY <2>1, <2>2
<1> QED BY <1>2, <1>3

\* The server's answer to a save, the manifest's write, or a failure of either.
LEMMA SavingKeeps == IInv /\ Saving => IInv'
<1> SUFFICES ASSUME IInv, Saving PROVE IInv'
    OBVIOUS
<1>0. UNCHANGED <<known, owner, idleTimer, disposal, runtimeKey, cell, turns, calls, restarts>>
    BY DEF Saving, lifeVars
<1>1. /\ phase \in {"save", "put"} /\ saving.session \in Sessions /\ saving.model \in Models
      /\ SavedFile \in Snapshots /\ saving \in Saves
      /\ Running.kind \in {"request", "restoreNow"} => wanted \in Models
    BY DEF Saving, SaveSlotReturns, PutReturns, SaveFails, IInv, SaveInv, SavedFile, Snapshots,
           HolderInv, HeadFits
<1>2. CASE SaveSlotReturns
  <2>1. HolderInv' /\ phase' = "put" /\ saving' = saving
      BY <1>1, <1>2, GoToKeeps DEF SaveSlotReturns, IInv, Phases, PreparePhases
  <2>2. StateInv'
      BY <1>0, <1>2 DEF SaveSlotReturns, IInv, StateInv, breakerVars
  <2>3. ServerInv'
      BY <1>0, <1>1, <1>2 DEF SaveSlotReturns, IInv, ServerInv
  <2>4. SaveInv'
      BY <1>0, <1>1, <1>2, <2>1 DEF SaveSlotReturns, IInv, SaveInv, SaveCoversOwner
  <2>5. FileInv'
      BY <1>2, <2>1 DEF SaveSlotReturns, IInv, FileInv, ReadyHasFile, SavedFile
  <2> QED BY <2>1, <2>2, <2>3, <2>4, <2>5 DEF IInv
<1>3. CASE PutReturns
  <2>1. HolderInv' /\ phase' = "saved"
      BY <1>1, <1>3, GoToKeeps DEF PutReturns, IInv, Phases, PreparePhases
  <2>2. runtime' \in [Sessions -> Runtimes]
      BY <1>1, <1>3 DEF PutReturns, IInv, StateInv, Runtimes, Saves
  <2>3. StateInv'
      BY <1>0, <1>3, <2>2, BreakerFacts DEF PutReturns, IInv, StateInv, SlotStates
  <2>4. manifests' \in [Snapshots -> Manifests]
      BY <1>1, <1>3 DEF PutReturns, IInv, ServerInv, StateInv, Manifests
  <2>5. ServerInv' /\ SaveInv'
      BY <1>0, <1>3, <2>1, <2>4 DEF PutReturns, IInv, ServerInv, SaveInv, SaveCoversOwner
  <2>6. FileInv'
      BY <1>1, <1>3, <2>1 DEF PutReturns, IInv, ServerInv, FileInv, ReadyHasFile
  <2> QED BY <2>1, <2>3, <2>5, <2>6 DEF IInv
<1>4. CASE SaveFails
  <2>1. HolderInv' /\ phase' = "saved"
      BY <1>1, <1>4, GoToKeeps DEF SaveFails, IInv, Phases, PreparePhases
  <2>2. UNCHANGED <<runtime, manifests, written, files>> /\ RecordFailures(1)
        /\ faults' \in Nat /\ slotState' \in SlotStates
      BY <1>4 DEF SaveFails, BackendFault, Fault, IInv, StateInv, SlotStates
  <2>3. late' \subseteq [kind : {"save", "restore", "erase"}, file : Snapshots]
      BY <1>1, <1>4 DEF SaveFails, BackendFault, IInv, ServerInv
  <2>4. StateInv'
      BY <1>0, <2>2, BreakerFacts DEF IInv, StateInv
  <2>5. ServerInv' /\ SaveInv' /\ FileInv'
      BY <1>0, <2>1, <2>2, <2>3
      DEF IInv, ServerInv, SaveInv, SaveCoversOwner, FileInv, ReadyHasFile
  <2> QED BY <2>1, <2>4, <2>5 DEF IInv
<1> QED BY <1>2, <1>3, <1>4 DEF Saving

\* Erasing changes nothing but the server and the counted faults.
LEMMA EraseFacts ==
    ASSUME IInv, Running.session \in Sessions, EraseSlot
    PROVE  /\ cell' \in Contents /\ faults' \in Nat /\ EraseFailures \in {0, 1}
           /\ late' \subseteq [kind : {"save", "restore", "erase"}, file : Snapshots]
<1>1. <<Running.session, AnyModel>> \in Snapshots
    BY Constants DEF Snapshots
<1>2. CASE cell' = EmptyKv /\ UNCHANGED <<late, faults>>
    BY <1>2, Constants DEF IInv, ServerInv, StateInv, EraseFailures
<1>3. CASE BackendFault("erase", <<Running.session, AnyModel>>) /\ UNCHANGED cell
    BY <1>1, <1>3 DEF BackendFault, Fault, IInv, ServerInv, StateInv, EraseFailures
<1> QED BY <1>2, <1>3 DEF EraseSlot

\* A step under the lease that is not a save: it leaves the sessions and the
\* files alone and makes no manifest ready.
LEMMA QuietStep ==
    ASSUME IInv, HolderInv', phase' \notin {"save", "put"},
           UNCHANGED <<lifeVars, written, files, turns, calls, restarts>>,
           known' \subseteq Sessions, runtime' \in [Sessions -> Runtimes],
           owner' \in Sessions \union {NoSession}, slotState' \in SlotStates,
           failures' \in 0 .. MaxFailures, isOpen' \in BOOLEAN,
           manifests' \in [Snapshots -> Manifests],
           \A f \in Snapshots : manifests'[f].state = "ready" => manifests[f].state = "ready",
           cell' \in Contents, faults' \in Nat,
           late' \subseteq [kind : {"save", "restore", "erase"}, file : Snapshots]
    PROVE  IInv'
<1>1. StateInv' /\ ServerInv'
    BY DEF IInv, StateInv, ServerInv, lifeVars
<1>2. SaveInv' /\ FileInv'
    BY DEF IInv, SaveInv, SaveCoversOwner, FileInv, ReadyHasFile
<1> QED BY <1>1, <1>2 DEF IInv

\* Looking up, restoring, erasing and assigning the slot.
LEMMA PreparingKeeps == IInv /\ Preparing => IInv'
<1> SUFFICES ASSUME IInv, Preparing PROVE IInv'
    OBVIOUS
<1>0. /\ UNCHANGED <<sessionVars, lifeVars, written, files, turns, calls, restarts>>
      /\ known' \subseteq Sessions /\ runtime' \in [Sessions -> Runtimes]
    BY DEF Preparing, sessionVars, IInv, StateInv
<1>1. /\ phase \in PreparePhases
      /\ Running.kind \in {"request", "restoreNow"} /\ Running.session \in Sessions
      /\ wanted \in Models /\ WantedFile \in Snapshots
  <2>1. phase \in PreparePhases
      BY DEF Preparing, FindsSnapshot, FindsNone, RestoreReturns, RestoreFails,
             MarkInvalidReturns, EraseReturns, EraseFallbackReturns, PreparePhases
  <2>2. Running.kind \in {"request", "restoreNow"} /\ wanted \in Models
      BY <2>1 DEF IInv, HolderInv, HeadFits
  <2>3. Running.session \in Sessions
      BY <2>1, <2>2, RunningIsLeased DEF IInv, PreparePhases
  <2> QED BY <2>1, <2>2, <2>3 DEF WantedFile, Snapshots
<1>2. phase # "free"
    BY <1>1 DEF PreparePhases
<1>3. /\ owner \in Sessions \union {NoSession} /\ slotState \in SlotStates
      /\ failures \in 0 .. MaxFailures /\ isOpen \in BOOLEAN
      /\ manifests \in [Snapshots -> Manifests] /\ cell \in Contents /\ faults \in Nat
      /\ late \subseteq [kind : {"save", "restore", "erase"}, file : Snapshots]
    BY DEF IInv, StateInv, ServerInv
<1>4. ASSUME NEW p \in PreparePhases, GoTo(p)
      PROVE  HolderInv' /\ phase' \notin {"save", "put"}
    BY <1>1, <1>2, <1>4, GoToKeeps DEF IInv, Phases, PreparePhases
<1>5. CASE FindsSnapshot
  <2>1. HolderInv' /\ phase' \notin {"save", "put"}
      BY <1>4, <1>5 DEF FindsSnapshot, PreparePhases
  <2> QED BY <1>0, <1>3, <1>5, <2>1, QuietStep DEF FindsSnapshot, breakerVars, SlotStates
<1>6. CASE FindsNone
  <2>1. HolderInv' /\ phase' \notin {"save", "put"}
      BY <1>4, <1>6 DEF FindsNone, PreparePhases
  <2>2. /\ manifests' \in [Snapshots -> Manifests]
        /\ \A f \in Snapshots : manifests'[f].state = "ready" => manifests[f].state = "ready"
      BY <1>1, <1>3, <1>6 DEF FindsNone, Manifests
  <2>3. faults' \in Nat
      BY <1>3, <1>6 DEF FindsNone, Fault
  <2> QED BY <1>0, <1>3, <1>6, <2>1, <2>2, <2>3, QuietStep DEF FindsNone, breakerVars, slotVars
<1>7. CASE RestoreReturns
  <2>1. HolderInv' /\ phase' \notin {"save", "put"} /\ slotState' \in SlotStates
      BY <1>1, <1>2, <1>7, EndPreparationKeeps DEF RestoreReturns, SlotStates, IInv
  <2>2. cell' \in Contents /\ failures' \in 0 .. MaxFailures /\ isOpen' \in BOOLEAN
      BY <1>1, <1>7, BreakerFacts DEF RestoreReturns, IInv, ServerInv
  <2> QED BY <1>0, <1>1, <1>3, <1>7, <2>1, <2>2, QuietStep DEF RestoreReturns
<1>8. CASE RestoreFails
  <2>1. HolderInv' /\ phase' \notin {"save", "put"}
      BY <1>4, <1>8 DEF RestoreFails, PreparePhases
  <2>2. cell' \in Contents /\ faults' \in Nat
      BY <1>3, <1>8, Constants DEF RestoreFails, BackendFault, Fault
  <2>3. late' \subseteq [kind : {"save", "restore", "erase"}, file : Snapshots]
      BY <1>1, <1>3, <1>8 DEF RestoreFails, BackendFault
  <2> QED BY <1>0, <1>3, <1>8, <2>1, <2>2, <2>3, QuietStep DEF RestoreFails, breakerVars, slotVars
<1>9. CASE MarkInvalidReturns
  <2>1. HolderInv' /\ phase' \notin {"save", "put"}
      BY <1>4, <1>9 DEF MarkInvalidReturns, PreparePhases
  <2>2. /\ manifests' \in [Snapshots -> Manifests]
        /\ \A f \in Snapshots : manifests'[f].state = "ready" => manifests[f].state = "ready"
      BY <1>1, <1>3, <1>9 DEF MarkInvalidReturns, Manifests
  <2>3. faults' \in Nat
      BY <1>3, <1>9 DEF MarkInvalidReturns, Fault
  <2> QED BY <1>0, <1>3, <1>9, <2>1, <2>2, <2>3, QuietStep
          DEF MarkInvalidReturns, breakerVars, slotVars
<1>10. CASE EraseReturns
  <2>1. HolderInv' /\ phase' \notin {"save", "put"} /\ slotState' \in SlotStates
      BY <1>1, <1>2, <1>10, EndPreparationKeeps DEF EraseReturns, SlotStates, IInv
  <2>2. /\ cell' \in Contents /\ faults' \in Nat
        /\ late' \subseteq [kind : {"save", "restore", "erase"}, file : Snapshots]
      BY <1>1, <1>10, EraseFacts DEF EraseReturns
  <2>3. failures' \in 0 .. MaxFailures /\ isOpen' \in BOOLEAN
      BY <1>3, <1>10, BreakerFacts DEF EraseReturns, breakerVars, IInv
  <2> QED BY <1>0, <1>1, <1>3, <1>10, <2>1, <2>2, <2>3, QuietStep DEF EraseReturns
<1>11. CASE EraseFallbackReturns
  <2>1. HolderInv' /\ phase' \notin {"save", "put"} /\ slotState' \in SlotStates
    <3>1. CASE EndPreparation("idle")
        BY <1>1, <1>2, <3>1, EndPreparationKeeps DEF SlotStates, IInv
    <3>2. CASE slotState' = "idle" /\ Release
        BY <1>2, <3>2, ReleaseKeeps DEF SlotStates, IInv
    <3> QED BY <1>11, <3>1, <3>2 DEF EraseFallbackReturns
  <2>2. /\ cell' \in Contents /\ faults' \in Nat /\ EraseFailures \in {0, 1}
        /\ late' \subseteq [kind : {"save", "restore", "erase"}, file : Snapshots]
      BY <1>1, <1>11, EraseFacts DEF EraseFallbackReturns
  <2>3. failures' \in 0 .. MaxFailures /\ isOpen' \in BOOLEAN
    <3>1. 1 + EraseFailures \in Nat /\ RecordFailures(1 + EraseFailures)
        BY <1>11, <2>2 DEF EraseFallbackReturns
    <3> QED BY <3>1, BreakerFacts DEF IInv
  <2> QED BY <1>0, <1>1, <1>3, <1>11, <2>1, <2>2, <2>3, QuietStep DEF EraseFallbackReturns
<1> QED BY <1>5, <1>6, <1>7, <1>8, <1>9, <1>10, <1>11 DEF Preparing

\* A stream counts its session's turn and gives the lease back.
LEMMA StreamingKeeps == IInv /\ Streaming => IInv'
<1> SUFFICES ASSUME IInv, Streaming PROVE IInv'
    OBVIOUS
<1>1. /\ phase = "stream" /\ Release
      /\ UNCHANGED <<known, owner, failures, isOpen, disposal, runtimeKey, manifests, written,
                     files, late, calls, faults, restarts>>
    BY DEF Streaming, AuxiliaryStreamSucceeds, StreamSucceeds, StreamFails, breakerVars, boundVars
<1>2. HolderInv' /\ phase' \notin {"save", "put"}
    BY <1>1, ReleaseKeeps DEF IInv
<1>3. ASSUME Running.kind = "request", NEW n \in Nat
      PROVE  ConversationKv(n) \in Contents /\ Running.session \in Sessions
    BY <1>1, <1>3, RunningIsLeased DEF ConversationKv, Contents, IInv, StateInv
<1>4. Running.kind \in {"request", "auxiliary"}
    BY <1>1 DEF IInv, HolderInv, HeadFits
<1>5. CASE AuxiliaryStreamSucceeds
  <2>1. StateInv' /\ ServerInv'
      BY <1>1, <1>5, Constants DEF AuxiliaryStreamSucceeds, IInv, StateInv, ServerInv
  <2> QED BY <1>1, <1>2, <2>1 DEF IInv, SaveInv, SaveCoversOwner, FileInv, ReadyHasFile
<1>6. CASE StreamSucceeds
  <2> DEFINE s == Running.session
  <2>1. Running.kind = "request" /\ turns[s] + 1 \in Nat /\ s \in Sessions
      BY <1>3, <1>6 DEF StreamSucceeds, IInv, StateInv
  <2>2. /\ cell' \in Contents
        /\ turns' \in [Sessions -> Nat] /\ runtime' \in [Sessions -> Runtimes]
        /\ slotState' \in SlotStates /\ idleTimer' \in Sessions \union {NoSession}
    <3>1. cell' \in Contents
        BY <1>3, <1>6, <2>1 DEF StreamSucceeds
    <3>2. turns' \in [Sessions -> Nat] /\ runtime' \in [Sessions -> Runtimes]
        BY <1>6, <2>1 DEF StreamSucceeds, IInv, StateInv, Runtimes
    <3>3. slotState' \in SlotStates /\ idleTimer' \in Sessions \union {NoSession}
        BY <1>6, <2>1 DEF StreamSucceeds, IInv, StateInv, SlotStates
    <3> QED BY <3>1, <3>2, <3>3
  <2>3. StateInv' /\ ServerInv'
      BY <1>1, <2>2 DEF IInv, StateInv, ServerInv
  <2> QED BY <1>1, <1>2, <2>3 DEF IInv, SaveInv, SaveCoversOwner, FileInv, ReadyHasFile
<1>7. CASE StreamFails
  <2>1. PartialKv \in Contents
    <3>1. CASE Running.kind = "auxiliary"
        BY <3>1, Constants DEF PartialKv
    <3>2. CASE Running.kind = "request"
      <4>1. cell.turns \in Nat
          BY DEF IInv, ServerInv, Contents
      <4> QED BY <1>3, <3>2, <4>1 DEF PartialKv
    <3> QED BY <1>4, <3>1, <3>2
  <2>2. cell' \in Contents
      BY <1>7, <2>1 DEF StreamFails, IInv, ServerInv
  <2>3. StateInv' /\ ServerInv'
      BY <1>1, <1>7, <2>2 DEF StreamFails, IInv, StateInv, ServerInv
  <2> QED BY <1>1, <1>2, <2>3 DEF IInv, SaveInv, SaveCoversOwner, FileInv, ReadyHasFile
<1> QED BY <1>5, <1>6, <1>7 DEF Streaming

\* Invalidation and purge make no manifest ready.
LEMMA RemovingKeeps == IInv /\ Removing => IInv'
<1> SUFFICES ASSUME IInv, Removing PROVE IInv'
    OBVIOUS
<1>0. UNCHANGED <<lifeVars, written, files, turns, calls, restarts>>
    BY DEF Removing
<1>1. phase \in {"eraseOwned", "manifests"} /\ Running.kind \in {"invalidate", "purge"}
    BY DEF Removing, EraseOwnedReturns, ManifestsReturn, ManifestsFail, IInv, HolderInv, HeadFits
<1>2. phase # "free" /\ Running.session \in Sessions
    BY <1>1, RunningIsLeased DEF IInv
<1>3. /\ owner \in Sessions \union {NoSession} /\ slotState \in SlotStates
      /\ failures \in 0 .. MaxFailures /\ isOpen \in BOOLEAN
      /\ manifests \in [Snapshots -> Manifests] /\ cell \in Contents /\ faults \in Nat
      /\ late \subseteq [kind : {"save", "restore", "erase"}, file : Snapshots]
      /\ known \subseteq Sessions /\ runtime \in [Sessions -> Runtimes]
    BY DEF IInv, StateInv, ServerInv
<1>4. ASSUME NEW fs
      PROVE  /\ Removed(fs) \in [Snapshots -> Manifests]
             /\ \A f \in Snapshots :
                    Removed(fs)[f].state = "ready" => manifests[f].state = "ready"
    BY <1>3, Constants DEF Removed, Manifests, NoManifest
<1>5. CASE EraseOwnedReturns
  <2>1. HolderInv' /\ phase' = "manifests"
      BY <1>1, <1>2, <1>5, GoToKeeps DEF EraseOwnedReturns, IInv, Phases, PreparePhases
  <2>2. /\ cell' \in Contents /\ faults' \in Nat
        /\ late' \subseteq [kind : {"save", "restore", "erase"}, file : Snapshots]
      BY <1>2, <1>5, EraseFacts DEF EraseOwnedReturns
  <2>3. failures' \in 0 .. MaxFailures /\ isOpen' \in BOOLEAN
      BY <1>3, <1>5, BreakerFacts DEF EraseOwnedReturns, breakerVars, IInv
  <2> QED BY <1>0, <1>3, <1>5, <2>1, <2>2, <2>3, QuietStep
          DEF EraseOwnedReturns, ClearOwner, SlotStates, sessionVars
<1>6. CASE ManifestsReturn
  <2>1. HolderInv' /\ phase' \notin {"save", "put"}
      BY <1>2, <1>6, ReleaseKeeps DEF ManifestsReturn, IInv
  <2>2. known' \subseteq Sessions /\ runtime' \in [Sessions -> Runtimes]
      BY <1>3, <1>6, Constants DEF ManifestsReturn, Forget, sessionVars
  <2> QED BY <1>0, <1>3, <1>4, <1>6, <2>1, <2>2, QuietStep
          DEF ManifestsReturn, slotVars, breakerVars
<1>7. CASE ManifestsFail
  <2>1. HolderInv' /\ phase' \notin {"save", "put"}
      BY <1>2, <1>7, ReleaseKeeps DEF ManifestsFail, IInv
  <2>2. faults' \in Nat
      BY <1>3, <1>7 DEF ManifestsFail, Fault
  <2> QED BY <1>0, <1>3, <1>4, <1>7, <2>1, <2>2, QuietStep
          DEF ManifestsFail, slotVars, breakerVars, sessionVars
<1> QED BY <1>5, <1>6, <1>7 DEF Removing

\* The clock, the probe and the server do not touch the lease; a late save
\* only adds files.
LEMMA BesideKeeps == IInv /\ Beside => IInv'
<1> SUFFICES ASSUME IInv, Beside PROVE IInv'
    OBVIOUS
<1>1. UNCHANGED <<line, holderVars, sessionVars, slotVars, lifeVars, manifests, turns, calls,
                  restarts>>
    BY DEF Beside
<1>2. HolderInv' /\ SaveInv'
    BY <1>1 DEF IInv, HolderInv, HeadFits, Running, SaveInv, SaveCoversOwner, holderVars,
                sessionVars, slotVars
<1>3. ASSUME failures' \in 0 .. MaxFailures, isOpen' \in BOOLEAN, faults' \in Nat
      PROVE  StateInv'
    BY <1>1, <1>3 DEF IInv, StateInv, sessionVars, slotVars, lifeVars
<1>4. ASSUME ServerInv', written \subseteq written' PROVE FileInv'
    BY <1>1, <1>4 DEF IInv, FileInv, ReadyHasFile, SavedFile, holderVars
<1>5. CASE CooldownExpires
  <2>1. StateInv'
      BY <1>3, <1>5 DEF CooldownExpires, IInv, StateInv
  <2>2. ServerInv' /\ written \subseteq written'
      BY <1>1, <1>5 DEF CooldownExpires, serverVars, IInv, ServerInv
  <2> QED BY <1>2, <1>4, <2>1, <2>2 DEF IInv
<1>6. CASE ProbeSucceeds
  <2>1. StateInv'
      BY <1>3, <1>6, BreakerFacts DEF ProbeSucceeds, IInv, StateInv
  <2>2. ServerInv' /\ written \subseteq written'
      BY <1>1, <1>6 DEF ProbeSucceeds, serverVars, IInv, ServerInv
  <2> QED BY <1>2, <1>4, <2>1, <2>2 DEF IInv
<1>7. CASE LateOperation
  <2>1. PICK o \in late : LateOperation!(o)
      BY <1>7 DEF LateOperation
  <2>2. o.file \in Snapshots
      BY DEF IInv, ServerInv
  <2>3. StateInv'
      BY <1>3, <2>1 DEF IInv, StateInv, breakerVars
  <2>4. ServerInv' /\ written \subseteq written'
      BY <1>1, <2>1, <2>2, Constants DEF IInv, ServerInv
  <2> QED BY <1>2, <1>4, <2>3, <2>4 DEF IInv
<1>8. CASE ServerRestarts
  <2>1. StateInv'
      BY <1>3, <1>8 DEF ServerRestarts, Fault, breakerVars, IInv, StateInv
  <2>2. ServerInv' /\ written \subseteq written'
      BY <1>1, <1>8, Constants DEF ServerRestarts, IInv, ServerInv
  <2> QED BY <1>2, <1>4, <2>1, <2>2 DEF IInv
<1> QED BY <1>5, <1>6, <1>7, <1>8 DEF Beside

\* A process that dies loses its line and its beliefs, and leaves at most the
\* slot operation in flight behind.
LEMMA RestartKeeps == IInv /\ Restart => IInv'
<1> SUFFICES ASSUME IInv, Restart PROVE IInv'
    OBVIOUS
<1>1. UNCHANGED <<manifests, cell, written, files, turns, calls, faults>>
    BY DEF Restart
<1>2. HolderInv'
    BY Constants, EmptySeq DEF Restart, HolderInv, HeadFits, Phases, PreparePhases
<1>3. StateInv'
  <2>1. runtime' \in [Sessions -> Runtimes]
      BY Constants DEF Restart
  <2>2. failures' \in 0 .. MaxFailures
      BY Constants DEF Restart
  <2>3. restarts' \in Nat
      BY DEF Restart, IInv, StateInv
  <2>4. /\ known' \subseteq Sessions
        /\ owner' \in Sessions \union {NoSession}
        /\ idleTimer' \in Sessions \union {NoSession}
        /\ runtimeKey' \in RuntimeKeys
      BY DEF Restart
  <2>5. /\ slotState' \in SlotStates
        /\ disposal' \in {"running", "flushing", "settled", "abandoned"}
      BY DEF Restart, SlotStates
  <2>6. isOpen' \in BOOLEAN
      BY DEF Restart
  <2>7. turns' \in [Sessions -> Nat] /\ calls' \in Nat /\ faults' \in Nat
      BY <1>1 DEF IInv, StateInv
  <2> QED BY <2>1, <2>2, <2>3, <2>4, <2>5, <2>6, <2>7 DEF StateInv
<1>4. InFlight \subseteq [kind : {"save", "restore", "erase"}, file : Snapshots]
  <2>1. CASE phase = "save"
    <3>1. SavedFile \in Snapshots
        BY <2>1 DEF IInv, SaveInv, SavedFile, Snapshots
    <3> QED BY <2>1, <3>1 DEF InFlight
  <2>2. CASE phase = "restore"
    <3>1. WantedFile \in Snapshots
        BY <2>2, RunningIsLeased DEF IInv, HolderInv, HeadFits, PreparePhases, WantedFile, Snapshots
    <3> QED BY <2>2, <3>1 DEF InFlight
  <2>3. CASE phase \in {"erase", "eraseFallback", "eraseOwned"}
    <3>1. <<Running.session, AnyModel>> \in Snapshots
        BY <2>3, RunningIsLeased, Constants DEF IInv, HolderInv, HeadFits, PreparePhases, Snapshots
    <3> QED BY <2>3, <3>1 DEF InFlight
  <2>4. CASE phase \notin {"save", "restore", "erase", "eraseFallback", "eraseOwned"}
      BY <2>4 DEF InFlight
  <2> QED BY <2>1, <2>2, <2>3, <2>4
<1>5. ServerInv'
    BY <1>1, <1>4 DEF Restart, IInv, ServerInv
<1>6. SaveInv' /\ FileInv'
    BY <1>1 DEF Restart, IInv, SaveInv, SaveCoversOwner, FileInv, ReadyHasFile
<1> QED BY <1>2, <1>3, <1>5, <1>6 DEF IInv

\* A step that changes nothing.
LEMMA StutterKeeps == IInv /\ UNCHANGED vars => IInv'
<1> SUFFICES ASSUME IInv, UNCHANGED vars PROVE IInv'
    OBVIOUS
<1>1. UNCHANGED <<line, phase, saving, wanted, known, runtime, owner, slotState, failures,
                  isOpen, idleTimer, disposal, runtimeKey, manifests, cell, written, files,
                  late, turns, calls, faults, restarts>>
    BY DEF vars, holderVars, sessionVars, slotVars, breakerVars, lifeVars, outside, serverVars,
           boundVars
<1>2. HolderInv' /\ SaveInv' /\ FileInv'
    BY <1>1 DEF IInv, HolderInv, HeadFits, Running, SaveInv, SaveCoversOwner, FileInv,
                ReadyHasFile, SavedFile
<1>3. StateInv' /\ ServerInv'
    BY <1>1 DEF IInv, StateInv, ServerInv
<1> QED BY <1>2, <1>3 DEF IInv

------------------------------------------------------------------------------
(* The theorems.                                                           *)

\* Everything the coordinator and its environment do keeps the invariant.
THEOREM Invariance == Spec => []IInv
<1>1. Init => IInv
    BY InitInv
<1>2. IInv /\ [Next]_vars => IInv'
    BY ArrivalKeeps, TimersKeep, AdmissionKeeps, SavingKeeps, PreparingKeeps, StreamingKeeps,
       RemovingKeeps, BesideKeeps, RestartKeeps, StutterKeeps DEF Next
<1> QED BY <1>1, <1>2, PTL DEF Spec

\* The coordinator's fields, the manifests and the server's state have their
\* types, the breaker's counter its limit.
THEOREM TypeCorrect == Spec => []TypeOK
<1>1. IInv => TypeOK
  <2> SUFFICES ASSUME IInv PROVE TypeOK
      OBVIOUS
  <2>1. LeasedOperations \subseteq Operations
      BY DEF LeasedOperations
  <2>2. line \in Seq(Operations)
      BY <2>1, SeqMonotonic DEF IInv, HolderInv
  <2> QED BY <2>2 DEF IInv, HolderInv, StateInv, ServerInv, TypeOK
<1> QED BY <1>1, Invariance, PTL

\* #saveOwnedSession marks the generation persisted that the slot's owner has:
\* neither a new request, a disposal nor a purge comes between, whatever fails.
THEOREM SaveIsOfOwner == Spec => []SaveCoversOwner
<1>1. IInv => SaveCoversOwner
    BY DEF IInv, SaveInv
<1> QED BY <1>1, Invariance, PTL

\* A manifest the coordinator may restore from has a file on the server, across
\* failures, late operations and restarts.
THEOREM ReadyIsWritten == Spec => []ReadyHasFile
<1>1. IInv => ReadyHasFile
    BY DEF IInv, FileInv
<1> QED BY <1>1, Invariance, PTL

------------------------------------------------------------------------------
(* The lease of the coordinator is the line of LeaseQueue.                 *)

\* Appending is joining behind everybody.
LEMMA AppendJoins ==
    ASSUME NEW S, NEW q \in Seq(S), NEW e \in S
    PROVE  Len(Append(q, e)) = Len(q) + 1 /\ SubSeq(Append(q, e), 1, Len(q)) = q
<1>1. /\ Append(q, e) \in Seq(S) /\ Len(Append(q, e)) = Len(q) + 1 /\ Len(q) \in Nat
      /\ \A i \in 1 .. Len(q) : Append(q, e)[i] = q[i] /\ q[i] \in S
    BY LenProperties, ElementOfSeq
<1>2. /\ SubSeq(Append(q, e), 1, Len(q)) \in Seq(S)
      /\ Len(SubSeq(Append(q, e), 1, Len(q))) = Len(q)
      /\ \A i \in 1 .. Len(q) : SubSeq(Append(q, e), 1, Len(q))[i] = q[i]
    BY <1>1, SubSeqProperties
<1> QED BY <1>1, <1>2, SeqEqual

\* A call joins at the back.
LEMMA EnqueueJoins ==
    ASSUME HolderInv, NEW op \in LeasedOperations, Enqueue(op)
    PROVE  Line!Join
BY AppendJoins DEF Enqueue, Line!Join, HolderInv

\* Only the head leaves.
LEMMA ReleaseLeaves ==
    ASSUME HolderInv, phase # "free", Release
    PROVE  Line!Leave
BY RunningIsLeased DEF Release, Line!Leave

\* Every step leaves the line alone, appends to it, removes its head or, with
\* the process, drops it.
LEMMA LineSteps ==
    ASSUME IInv, Next
    PROVE  \/ line' = line
           \/ \E op \in LeasedOperations : Enqueue(op)
           \/ phase # "free" /\ Release
           \/ line' = <<>>
<1>1. CASE Arrival
  <2>1. ASSUME NEW s \in Sessions, NEW m \in Models, CallRequest(s, m)
        PROVE  \E op \in LeasedOperations : Enqueue(op)
    <3>1. Operation("request", s, m, "manual") \in LeasedOperations
        BY <2>1, CallsAreLeased
    <3> QED BY <2>1, <3>1 DEF CallRequest
  <2>2. ASSUME NEW op \in PlainOperations, CallOperation(op)
        PROVE  \E o \in LeasedOperations : Enqueue(o)
    <3>1. op \in LeasedOperations
        BY <2>2, CallsAreLeased
    <3> QED BY <2>2, <3>1 DEF CallOperation
  <2>3. ASSUME Dispose
        PROVE  line' = line \/ \E o \in LeasedOperations : Enqueue(o)
      BY <2>3, CallsAreLeased DEF Dispose
  <2> QED BY <1>1, <2>1, <2>2, <2>3 DEF Arrival
<1>2. CASE IdleTimerFires
  <2>1. Operation("idle", idleTimer, NoModel, "idle") \in LeasedOperations
      BY <1>2, CallsAreLeased DEF IdleTimerFires, IInv, StateInv
  <2> QED BY <1>2, <2>1 DEF IdleTimerFires
<1>3. CASE Admission
    BY <1>3 DEF Admission, RefuseRequest, BypassRequest, LoseRequest, AdmitRequest,
                AdmitRestoreNow, AdmitAuxiliary, AdmitCheckpoint, AdmitDisposed, AdmitRemoval,
                ResumePrepare, ResumeAuxiliary, ResumeDisposed, ResumeCheckpoint, Welcome,
                Granted, Prepare, EndPreparation, EndSession, EndCheckpoint, BeginSave, GoTo
<1>4. CASE Saving \/ Preparing \/ Streaming \/ Removing
    BY <1>4 DEF Saving, SaveSlotReturns, PutReturns, SaveFails,
                Preparing, FindsSnapshot, FindsNone, RestoreReturns, RestoreFails,
                MarkInvalidReturns, EraseReturns, EraseFallbackReturns, EndPreparation,
                Streaming, AuxiliaryStreamSucceeds, StreamSucceeds, StreamFails,
                Removing, EraseOwnedReturns, ManifestsReturn, ManifestsFail, GoTo
<1>5. CASE GraceExpires \/ Beside \/ Restart
    BY <1>5 DEF GraceExpires, Beside, Restart
<1> QED BY <1>1, <1>2, <1>3, <1>4, <1>5 DEF Next

\* Slot operations are served in the order in which they asked for the lease,
\* one at a time: no entry point overtakes and none leaves from the middle.
THEOREM Refinement == Spec => ImplementsLine
<1>1. Init => Line!Init
    BY DEF Init, Line!Init
<1>2. IInv /\ [Next]_vars => [Line!Next \/ Line!Vanish]_line
  <2> SUFFICES ASSUME IInv, [Next]_vars PROVE [Line!Next \/ Line!Vanish]_line
      OBVIOUS
  <2>1. CASE Next
    <3>1. ASSUME NEW op \in LeasedOperations, Enqueue(op) PROVE Line!Next
        BY <3>1, EnqueueJoins DEF IInv, Line!Next
    <3>2. ASSUME phase # "free", Release PROVE Line!Next
        BY <3>2, ReleaseLeaves DEF IInv, Line!Next
    <3>3. ASSUME line' = <<>> PROVE Line!Vanish
        BY <3>3 DEF Line!Vanish
    <3> QED BY <2>1, <3>1, <3>2, <3>3, LineSteps
  <2>2. CASE UNCHANGED vars
      BY <2>2 DEF vars
  <2> QED BY <2>1, <2>2
<1> QED BY <1>1, <1>2, Invariance, PTL DEF Spec, ImplementsLine, Line!MortalSpec
------------------------------------------------------------------------------
(* What the head may rely on between two awaits, whatever fails: the slot's  *)
(* owner is the one it looked at, and is saved or needs no save.             *)

\* Nobody has persisted more than it has, or anything without a runtime.
RevisionInv ==
    \A s \in Sessions :
        /\ runtime[s].persistedRevision <= runtime[s].dirtyRevision
        /\ s \notin known => runtime[s].dirtyRevision = 0

\* The owner in the phases that act on it.
OwnerInv ==
    /\ phase = "stream" =>
          owner = NoSession \/ (Running.kind = "request" /\ owner = Running.session)
    /\ phase = "eraseOwned" => owner = Running.session
    /\ slotState = "unknown" => owner = NoSession
    /\ phase = "restore" => Compatible(WantedFile)
    /\ phase \in {"find", "restore"} => RestoreEnabled

\* The save the head has tried is of the last generation of the slot's owner.
SavingIsOwner ==
    /\ owner = saving.session /\ owner \in known
    /\ saving.generation = runtime[owner].dirtyRevision

EvictInv ==
    /\ phase = "saved" => SavingIsOwner
    /\ phase \in PreparePhases => ~MustSaveFirst(Running.session) \/ SavingIsOwner

HeldInv == RevisionInv /\ OwnerInv /\ EvictInv

\* A session that is dirty has a runtime.
LEMMA DirtyIsKnown ==
    ASSUME StateInv, RevisionInv, NEW s \in Sessions, Dirty(s) PROVE s \in known
<1>1. runtime[s].persistedRevision \in Nat /\ runtime[s].dirtyRevision \in Nat
    BY DEF StateInv, Runtimes
<1> QED BY <1>1 DEF RevisionInv, Dirty

\* Outside the phases that act on the owner there is little to show.
LEMMA PlainPhase ==
    ASSUME RevisionInv', phase' \in {"free", "granted", "save", "put", "manifests"},
           slotState' = "unknown" => owner' = NoSession
    PROVE  HeldInv'
BY DEF HeldInv, OwnerInv, EvictInv, PreparePhases

\* Sessions that keep their runtimes keep their revisions.
LEMMA RevisionsKept == RevisionInv /\ UNCHANGED sessionVars => RevisionInv'
BY DEF RevisionInv, sessionVars

\* A forgotten session has no revisions.
LEMMA ForgetRevisions ==
    ASSUME StateInv, RevisionInv, NEW s \in Sessions, Forget(s)
    PROVE  RevisionInv'
BY DEF StateInv, RevisionInv, Forget, NewRuntime

\* A head that goes on, with the same slot and the same sessions, has the
\* owner it had.
LEMMA SlotKept ==
    ASSUME UNCHANGED <<saving, owner, sessionVars>>, Running' = Running
    PROVE  /\ SavingIsOwner' <=> SavingIsOwner
           /\ MustSaveFirst(Running.session)' <=> MustSaveFirst(Running.session)
BY DEF SavingIsOwner, MustSaveFirst, ShouldCheckpoint, Dirty, sessionVars

\* What calls, timers and the environment do not touch.
LEMMA CallFacts ==
    ASSUME IInv, RevisionInv, Arrival \/ IdleTimerFires \/ GraceExpires
    PROVE  /\ UNCHANGED <<saving, wanted, slotVars, breakerVars, runtimeKey, manifests,
                          serverVars, turns, faults, restarts>>
           /\ \/ phase' = phase /\ (phase # "free" => Running' = Running)
              \/ phase = "free" /\ phase' = "granted"
           /\ known \subseteq known' /\ known' \subseteq Sessions
           /\ \A s \in Sessions :
                 /\ runtime'[s].dirtyRevision = runtime[s].dirtyRevision
                 /\ runtime'[s].persistedRevision = runtime[s].persistedRevision
<1>0. StateInv /\ HolderInv
    BY DEF IInv
<1>1. ASSUME NEW op \in LeasedOperations, Enqueue(op)
      PROVE  /\ UNCHANGED <<saving, wanted>>
             /\ \/ phase' = phase /\ (phase # "free" => Running' = Running)
                \/ phase = "free" /\ phase' = "granted"
  <2>1. /\ phase' # phase => phase = "free" /\ phase' = "granted"
        /\ phase # "free" => Running' = Running
        /\ saving' = saving /\ wanted' = wanted
      BY <1>0, <1>1, EnqueueKeeps
  <2> QED BY <2>1
<1>2. ASSUME UNCHANGED sessionVars
      PROVE  /\ known \subseteq known' /\ known' \subseteq Sessions
             /\ \A s \in Sessions :
                   /\ runtime'[s].dirtyRevision = runtime[s].dirtyRevision
                   /\ runtime'[s].persistedRevision = runtime[s].persistedRevision
    BY <1>0, <1>2 DEF sessionVars, StateInv
<1>3. CASE Arrival
  <2>0. UNCHANGED <<slotVars, breakerVars, runtimeKey, manifests, serverVars, turns,
                    faults, restarts>>
      BY <1>3 DEF Arrival
  <2>1. ASSUME NEW s \in Sessions, NEW m \in Models, CallRequest(s, m)
        PROVE  /\ known \subseteq known' /\ known' \subseteq Sessions
               /\ \A r \in Sessions :
                     /\ runtime'[r].dirtyRevision = runtime[r].dirtyRevision
                     /\ runtime'[r].persistedRevision = runtime[r].persistedRevision
    <3>1. known' = known \union {s}
        BY <2>1 DEF CallRequest, EnsureRuntime
    <3>2. runtime \in [Sessions -> Runtimes] /\ known \subseteq Sessions
        BY <1>0 DEF StateInv
    <3>3. CASE s \in known
      <4>1. runtime' = [runtime EXCEPT ![s].model = m]
          BY <2>1, <3>3 DEF CallRequest, EnsureRuntime
      <4> QED BY <3>1, <3>2, <4>1 DEF Runtimes
    <3>4. CASE s \notin known
      <4>1. runtime' = [runtime EXCEPT ![s] = NewRuntime(m)]
          BY <2>1, <3>4 DEF CallRequest, EnsureRuntime
      <4>2. /\ runtime[s].dirtyRevision \in Nat /\ runtime[s].persistedRevision \in Nat
            /\ runtime[s].persistedRevision <= runtime[s].dirtyRevision
            /\ runtime[s].dirtyRevision = 0
          BY <3>2, <3>4 DEF RevisionInv, Runtimes
      <4>3. runtime[s].dirtyRevision = 0 /\ runtime[s].persistedRevision = 0
          BY <4>2
      <4> QED BY <3>1, <3>2, <4>1, <4>3 DEF NewRuntime
    <3> QED BY <3>3, <3>4
  <2>2. CASE \E s \in Sessions, m \in Models : CallRequest(s, m)
    <3>1. PICK s \in Sessions, m \in Models : CallRequest(s, m)
        BY <2>2
    <3>2. \E op \in LeasedOperations : Enqueue(op)
        BY <3>1, CallsAreLeased DEF CallRequest
    <3> QED BY <1>1, <2>0, <2>1, <3>1, <3>2
  <2>3. CASE \E op \in PlainOperations : CallOperation(op)
    <3>1. UNCHANGED sessionVars /\ \E op \in LeasedOperations : Enqueue(op)
        BY <2>3, CallsAreLeased DEF CallOperation
    <3> QED BY <1>1, <1>2, <2>0, <3>1
  <2>4. CASE Dispose
    <3>1. UNCHANGED sessionVars
        BY <2>4 DEF Dispose
    <3>2. CASE UNCHANGED <<line, holderVars>>
        BY <1>2, <2>0, <3>1, <3>2 DEF holderVars, Running
    <3>3. CASE \E op \in LeasedOperations : Enqueue(op)
        BY <1>1, <1>2, <2>0, <3>1, <3>3
    <3> QED BY <2>4, <3>2, <3>3, CallsAreLeased DEF Dispose
  <2> QED BY <1>3, <2>2, <2>3, <2>4 DEF Arrival
<1>4. CASE IdleTimerFires
  <2>1. /\ UNCHANGED <<sessionVars, slotVars, breakerVars, runtimeKey, outside>>
        /\ \E op \in LeasedOperations : Enqueue(op)
      BY <1>0, <1>4, CallsAreLeased DEF IdleTimerFires, StateInv
  <2> QED BY <1>1, <1>2, <2>1 DEF outside, boundVars
<1>5. CASE GraceExpires
  <2>1. UNCHANGED <<line, holderVars, sessionVars, slotVars, breakerVars, runtimeKey, outside>>
      BY <1>5 DEF GraceExpires
  <2> QED BY <1>2, <2>1 DEF outside, boundVars, holderVars, Running
<1> QED BY <1>3, <1>4, <1>5

\* Calls and timers: a head that is suspended does not notice them.
LEMMA HeldAfterCall ==
    ASSUME IInv, HeldInv, Arrival \/ IdleTimerFires \/ GraceExpires
    PROVE  HeldInv'
<1>0. StateInv /\ RevisionInv
    BY DEF IInv, HeldInv
<1>1. /\ UNCHANGED <<saving, wanted, owner, slotState, runtimeKey, manifests>>
      /\ \/ phase' = phase /\ (phase # "free" => Running' = Running)
         \/ phase' = "granted"
      /\ known \subseteq known'
      /\ \A s \in Sessions :
            /\ runtime'[s].dirtyRevision = runtime[s].dirtyRevision
            /\ runtime'[s].persistedRevision = runtime[s].persistedRevision
    BY <1>0, CallFacts DEF slotVars
<1>2. RevisionInv'
    BY <1>0, <1>1 DEF RevisionInv
<1>3. CASE phase' = "granted"
    BY <1>1, <1>2, <1>3, PlainPhase DEF HeldInv, OwnerInv
<1>4. CASE phase' = phase /\ phase = "free"
    BY <1>1, <1>2, <1>4, PlainPhase DEF HeldInv, OwnerInv
<1>5. CASE phase' = phase /\ Running' = Running
  <2>1. OwnerInv'
      BY <1>1, <1>5 DEF HeldInv, OwnerInv, Compatible, WantedFile
  <2>2. owner \in Sessions \union {NoSession}
      BY <1>0 DEF StateInv
  <2>3. SavingIsOwner /\ owner \in Sessions => SavingIsOwner'
      BY <1>1 DEF SavingIsOwner
  <2>4. SavingIsOwner => owner \in Sessions
      BY <1>0 DEF SavingIsOwner, StateInv
  <2>5. owner \in Sessions => (Dirty(owner)' <=> Dirty(owner))
      BY <1>1 DEF Dirty
  <2>6. MustSaveFirst(Running.session)' => MustSaveFirst(Running.session)
    <3> SUFFICES ASSUME MustSaveFirst(Running.session)'
                 PROVE  MustSaveFirst(Running.session)
        OBVIOUS
    <3>1. /\ owner \notin {Running.session, NoSession} /\ TriggerEnabled("switch")
          /\ Dirty(owner)'
        BY <1>1, <1>5 DEF MustSaveFirst, ShouldCheckpoint, TriggerEnabled
    <3>2. owner \in Sessions /\ Dirty(owner)
        BY <2>2, <2>5, <3>1
    <3>3. owner \in known
        BY <1>0, <3>2, DirtyIsKnown
    <3> QED BY <3>1, <3>2, <3>3 DEF MustSaveFirst, ShouldCheckpoint
  <2>7. EvictInv'
      BY <1>5, <2>3, <2>4, <2>6 DEF HeldInv, EvictInv
  <2> QED BY <1>2, <2>1, <2>7 DEF HeldInv
<1> QED BY <1>1, <1>3, <1>4, <1>5

\* The preparation looks at the owner, and at the revision to be saved, in the
\* step in which it decides.
LEMMA HeldAfterPrepare ==
    ASSUME IInv, HeldInv, phase # "free", Running.kind \in {"request", "restoreNow"},
           NEW m, Prepare(Running.session, m), UNCHANGED sessionVars
    PROVE  HeldInv'
<1> DEFINE s == Running.session
<1>0. RevisionInv'
    BY RevisionsKept DEF HeldInv
<1>1. CASE Resident(s) /\ EndPreparation(slotState) /\ UNCHANGED owner
  <2>1. CASE slotState' = "inference" /\ GoTo("stream") /\ Running.kind = "request"
    <3>1. phase' = "stream" /\ Running' = Running /\ owner' = s
        BY <1>1, <2>1 DEF GoTo, Running, Resident
    <3> QED BY <1>0, <2>1, <3>1 DEF HeldInv, OwnerInv, EvictInv, PreparePhases
  <2>2. CASE slotState' = slotState /\ Release
    <3>1. phase' \in {"free", "granted"} /\ slotState' # "unknown"
        BY <1>1, <2>2, ReleaseKeeps DEF IInv, Resident
    <3> QED BY <1>0, <3>1, PlainPhase
  <2> QED BY <1>1, <2>1, <2>2 DEF EndPreparation
<1>2. CASE MustSaveFirst(s) /\ BeginSave(owner)
    BY <1>0, <1>2, PlainPhase DEF BeginSave
<1>3. CASE /\ ~MustSaveFirst(s) /\ phase' = LookUp
           /\ UNCHANGED <<line, saving, slotVars>>
  <2>1. Running' = Running /\ owner' = owner /\ phase' \in {"find", "erase"}
        /\ (phase' = "find" => RestoreEnabled)
      BY <1>3 DEF Running, slotVars, LookUp
  <2>2. ~MustSaveFirst(Running.session)'
      BY <1>3, <2>1, SlotKept
  <2> QED BY <1>0, <1>3, <2>1, <2>2 DEF HeldInv, OwnerInv, EvictInv, slotVars
<1> QED BY <1>1, <1>2, <1>3 DEF Prepare

\* From the lease to the first await, and from the end of the save on.
LEMMA HeldAfterAdmission ==
    ASSUME IInv, HeldInv, Admission PROVE HeldInv'
<1>0. /\ RevisionInv /\ HolderInv /\ StateInv
      /\ UNCHANGED sessionVars => RevisionInv'
      /\ slotState = "unknown" => owner = NoSession
    BY RevisionsKept DEF HeldInv, OwnerInv, IInv
<1>1. ASSUME UNCHANGED <<sessionVars, slotVars>>, phase # "free", Release
      PROVE  HeldInv'
    BY <1>0, <1>1, ReleaseKeeps, PlainPhase DEF slotVars
<1>2. ASSUME UNCHANGED sessionVars, NEW s, BeginSave(s)
      PROVE  HeldInv'
    BY <1>0, <1>2, PlainPhase DEF BeginSave
<1>3. ASSUME UNCHANGED sessionVars, GoTo("stream"), owner' = NoSession
      PROVE  HeldInv'
    BY <1>0, <1>3 DEF GoTo, HeldInv, OwnerInv, EvictInv, PreparePhases
<1>4. ASSUME phase # "free", Running.kind = "disposed", EndSession
      PROVE  HeldInv'
  <2>1. Running.session \in Sessions
      BY <1>0, <1>4, RunningIsLeased
  <2>2. RevisionInv'
      BY <1>0, <1>4, <2>1, ForgetRevisions DEF EndSession
  <2>3. phase' \in {"free", "granted"}
      BY <1>0, <1>4, ReleaseKeeps DEF EndSession
  <2>4. slotState' = "unknown" => owner' = NoSession
      BY <1>0, <1>4 DEF EndSession, ClearOwner, slotVars
  <2> QED BY <2>2, <2>3, <2>4, PlainPhase
<1>5. CASE RefuseRequest
    BY <1>1, <1>5 DEF RefuseRequest, Granted
<1>6. CASE BypassRequest
    BY <1>3, <1>6 DEF BypassRequest, LoseSlotTracking
<1>7. CASE LoseRequest
    BY <1>1, <1>7 DEF LoseRequest, Welcome, Granted
<1>8. CASE AdmitRequest
    BY <1>8, HeldAfterPrepare DEF AdmitRequest, Welcome, Granted
<1>9. CASE AdmitRestoreNow
  <2>1. phase # "free" /\ Running.kind = "restoreNow" /\ UNCHANGED sessionVars
      BY <1>9 DEF AdmitRestoreNow, Granted
  <2>2. CASE Release /\ UNCHANGED slotVars
      BY <1>1, <2>1, <2>2
  <2>3. CASE Prepare(Running.session, runtime[Running.session].model)
      BY <2>1, <2>3, HeldAfterPrepare
  <2> QED BY <1>9, <2>2, <2>3 DEF AdmitRestoreNow
<1>10. CASE AdmitAuxiliary
  <2>1. UNCHANGED sessionVars
      BY <1>10 DEF AdmitAuxiliary
  <2>2. CASE owner = NoSession /\ GoTo("stream") /\ UNCHANGED slotVars
      BY <1>3, <2>1, <2>2 DEF slotVars
  <2>3. CASE BeginSave(owner)
      BY <1>2, <2>1, <2>3
  <2>4. CASE ClearOwner /\ GoTo("stream")
      BY <1>3, <2>1, <2>4 DEF ClearOwner
  <2> QED BY <1>10, <2>2, <2>3, <2>4 DEF AdmitAuxiliary
<1>11. CASE AdmitCheckpoint
    BY <1>1, <1>2, <1>11 DEF AdmitCheckpoint, EndCheckpoint, Granted
<1>12. CASE AdmitDisposed
    BY <1>2, <1>4, <1>12 DEF AdmitDisposed, Granted
<1>13. CASE AdmitRemoval
  <2>1. /\ UNCHANGED <<sessionVars, slotVars>> /\ Running' = Running
        /\ \/ phase' = "manifests"
           \/ phase' = "eraseOwned" /\ owner = Running.session
      BY <1>13 DEF AdmitRemoval, GoTo, Running
  <2>2. CASE phase' = "manifests"
      BY <1>0, <2>1, <2>2, PlainPhase DEF slotVars
  <2>3. CASE phase' = "eraseOwned" /\ owner = Running.session
      BY <1>0, <2>1, <2>3 DEF HeldInv, OwnerInv, EvictInv, PreparePhases, slotVars
  <2> QED BY <2>1, <2>2, <2>3
<1>14. CASE ResumePrepare
  <2>1. /\ phase = "saved" /\ UNCHANGED <<sessionVars, slotVars, saving>>
        /\ Running' = Running /\ phase' \in {"find", "erase"}
        /\ phase' = "find" => RestoreEnabled
      BY <1>14 DEF ResumePrepare, GoTo, Running, LookUp
  <2>2. SavingIsOwner'
      BY <2>1, SlotKept DEF HeldInv, EvictInv, slotVars
  <2> QED BY <1>0, <2>1, <2>2 DEF HeldInv, OwnerInv, EvictInv, slotVars
<1>15. CASE ResumeAuxiliary
    BY <1>3, <1>15 DEF ResumeAuxiliary, ClearOwner
<1>16. CASE ResumeDisposed
    BY <1>4, <1>16 DEF ResumeDisposed
<1>17. CASE ResumeCheckpoint
    BY <1>1, <1>17 DEF ResumeCheckpoint, EndCheckpoint
<1> QED BY <1>5, <1>6, <1>7, <1>8, <1>9, <1>10, <1>11, <1>12, <1>13, <1>14, <1>15, <1>16,
           <1>17 DEF Admission

\* The save is of the owner's last generation until it is over, and covers no
\* more than there is.
LEMMA HeldAfterSaving ==
    ASSUME IInv, HeldInv, Saving PROVE HeldInv'
<1>0. /\ RevisionInv /\ StateInv /\ UNCHANGED <<known, owner>>
      /\ slotState = "unknown" => owner = NoSession
    BY DEF HeldInv, OwnerInv, IInv, Saving
<1>1. /\ owner = saving.session /\ saving.session \in known /\ saving.session \in Sessions
      /\ saving.generation = runtime[saving.session].dirtyRevision
    BY DEF Saving, SaveSlotReturns, PutReturns, SaveFails, IInv, SaveInv, SaveCoversOwner
<1>2. slotState' = "unknown" => owner' = NoSession
    BY <1>0 DEF Saving, SaveSlotReturns, PutReturns, SaveFails
<1>3. CASE SaveSlotReturns
  <2>1. phase' = "put" /\ runtime' = runtime
      BY <1>3 DEF SaveSlotReturns, GoTo
  <2> QED BY <1>0, <1>2, <2>1, PlainPhase DEF RevisionInv
<1>4. ASSUME RevisionInv', phase' = "saved", saving' = saving,
             runtime'[owner].dirtyRevision = runtime[owner].dirtyRevision
      PROVE  HeldInv'
    BY <1>0, <1>1, <1>2, <1>4
    DEF HeldInv, OwnerInv, EvictInv, SavingIsOwner, PreparePhases
<1>5. CASE PutReturns
  <2>1. /\ phase' = "saved" /\ saving' = saving
        /\ runtime' = [runtime EXCEPT ![saving.session].persistedRevision =
                          IF @ < saving.generation THEN saving.generation ELSE @]
      BY <1>5 DEF PutReturns, GoTo
  <2>2. runtime \in [Sessions -> Runtimes]
      BY <1>0 DEF StateInv
  <2>3. \A r \in Sessions : runtime'[r].dirtyRevision = runtime[r].dirtyRevision
      BY <1>1, <2>1, <2>2 DEF Runtimes
  <2>4. \A r \in Sessions \ {saving.session} : runtime'[r] = runtime[r]
      BY <1>1, <2>1, <2>2
  <2>5. runtime'[saving.session].persistedRevision \in
            {runtime[saving.session].persistedRevision, saving.generation}
      BY <1>1, <2>1, <2>2 DEF Runtimes
  <2>6. runtime[saving.session].dirtyRevision \in Nat
      BY <1>1, <2>2 DEF Runtimes
  <2>7. runtime'[saving.session].persistedRevision <= runtime[saving.session].dirtyRevision
      BY <1>0, <1>1, <2>5, <2>6 DEF RevisionInv
  <2>8. RevisionInv'
      BY <1>0, <1>1, <2>3, <2>4, <2>7 DEF RevisionInv
  <2> QED BY <1>1, <1>4, <2>1, <2>3, <2>8
<1>6. CASE SaveFails
  <2>1. phase' = "saved" /\ saving' = saving /\ runtime' = runtime
      BY <1>6 DEF SaveFails, GoTo
  <2> QED BY <1>0, <1>4, <2>1 DEF RevisionInv
<1> QED BY <1>3, <1>5, <1>6 DEF Saving

\* Until the preparation ends, the owner is the one it looked at.
LEMMA HeldAfterPreparing ==
    ASSUME IInv, HeldInv, Preparing PROVE HeldInv'
<1>0. /\ RevisionInv' /\ HolderInv
      /\ UNCHANGED <<sessionVars, runtimeKey>>
      /\ slotState = "unknown" => owner = NoSession
    BY RevisionsKept DEF HeldInv, OwnerInv, IInv, Preparing, lifeVars
<1>1. phase \in PreparePhases /\ phase # "free"
    BY DEF Preparing, FindsSnapshot, FindsNone, RestoreReturns, RestoreFails,
           MarkInvalidReturns, EraseReturns, EraseFallbackReturns, PreparePhases
<1>2. Running.kind \in {"request", "restoreNow"} /\ Running.session \in Sessions
    BY <1>0, <1>1, RunningIsLeased DEF HolderInv, HeadFits
<1>3. ASSUME NEW p \in {"markInvalid", "eraseFallback", "erase"}, GoTo(p), UNCHANGED slotVars
      PROVE  HeldInv'
  <2>1. phase' = p /\ saving' = saving /\ Running' = Running /\ owner' = owner
      BY <1>3 DEF GoTo, Running, slotVars
  <2>2. EvictInv'
      BY <1>0, <1>1, <1>3, <2>1, SlotKept DEF HeldInv, EvictInv
  <2> QED BY <1>0, <1>3, <2>1, <2>2 DEF HeldInv, OwnerInv, slotVars
<1>4. ASSUME NEW state \in {"ready", "idle"}, EndPreparation(state), owner' = Running.session
      PROVE  HeldInv'
  <2>1. CASE Running.kind = "request" /\ slotState' = "inference" /\ GoTo("stream")
    <3>1. phase' = "stream" /\ Running' = Running
        BY <2>1 DEF GoTo, Running
    <3> QED BY <1>0, <1>4, <2>1, <3>1 DEF HeldInv, OwnerInv, EvictInv, PreparePhases
  <2>2. CASE slotState' = state /\ Release
      BY <1>0, <1>1, <2>2, ReleaseKeeps, PlainPhase
  <2> QED BY <1>4, <2>1, <2>2 DEF EndPreparation
<1>5. CASE FindsSnapshot
  <2>1. /\ phase = "find" /\ phase' = "restore" /\ slotState' = "restoring"
        /\ Compatible(WantedFile)
        /\ UNCHANGED <<line, saving, wanted, owner, manifests>> /\ Running' = Running
      BY <1>5 DEF FindsSnapshot, GoTo, Running
  <2>2. EvictInv'
      BY <1>0, <1>1, <2>1, SlotKept DEF HeldInv, EvictInv
  <2>3. OwnerInv'
      BY <1>0, <2>1 DEF HeldInv, OwnerInv, Compatible, WantedFile
  <2> QED BY <1>0, <2>2, <2>3 DEF HeldInv
<1>6. CASE FindsNone
    BY <1>3, <1>6 DEF FindsNone
<1>7. CASE RestoreReturns
    BY <1>4, <1>7 DEF RestoreReturns
<1>8. CASE RestoreFails
    BY <1>3, <1>8 DEF RestoreFails
<1>9. CASE MarkInvalidReturns
    BY <1>3, <1>9 DEF MarkInvalidReturns
<1>10. CASE EraseReturns
    BY <1>4, <1>10 DEF EraseReturns
<1>11. CASE EraseFallbackReturns
  <2>1. CASE EndPreparation("idle")
      BY <1>4, <1>11, <2>1 DEF EraseFallbackReturns
  <2>2. CASE slotState' = "idle" /\ Release
      BY <1>0, <1>1, <2>2, ReleaseKeeps, PlainPhase
  <2> QED BY <1>11, <2>1, <2>2 DEF EraseFallbackReturns
<1> QED BY <1>5, <1>6, <1>7, <1>8, <1>9, <1>10, <1>11 DEF Preparing

\* A stream counts a turn of a session that has a runtime, and no other.
LEMMA HeldAfterStreaming ==
    ASSUME IInv, HeldInv, Streaming PROVE HeldInv'
<1>1. /\ phase = "stream" /\ Release /\ HolderInv /\ UNCHANGED <<known, owner>>
      /\ slotState = "unknown" => owner = NoSession
    BY DEF Streaming, AuxiliaryStreamSucceeds, StreamSucceeds, StreamFails, IInv, HeldInv,
           OwnerInv
<1>2. phase' \in {"free", "granted"} /\ slotState' \in {slotState, "dirty"}
    BY <1>1, ReleaseKeeps
    DEF Streaming, AuxiliaryStreamSucceeds, StreamSucceeds, StreamFails
<1>3. RevisionInv'
  <2>1. RevisionInv /\ runtime \in [Sessions -> Runtimes]
      BY DEF HeldInv, IInv, StateInv
  <2>2. CASE runtime' = runtime
      BY <1>1, <2>1, <2>2 DEF RevisionInv
  <2>3. ASSUME NEW s \in known,
               runtime' = [runtime EXCEPT ![s].dirtyRevision = @ + 1]
        PROVE  RevisionInv'
    <3>1. \A r \in Sessions \ {s} : runtime'[r] = runtime[r]
        BY <2>1, <2>3
    <3>2. s \in Sessions
        BY DEF IInv, StateInv
    <3>3. /\ runtime'[s].dirtyRevision = runtime[s].dirtyRevision + 1
          /\ runtime'[s].persistedRevision = runtime[s].persistedRevision
          /\ runtime[s].dirtyRevision \in Nat /\ runtime[s].persistedRevision \in Nat
        BY <2>1, <2>3, <3>2 DEF Runtimes
    <3>4. runtime'[s].persistedRevision <= runtime'[s].dirtyRevision
        BY <2>1, <3>2, <3>3 DEF RevisionInv
    <3> QED BY <1>1, <2>1, <3>1, <3>4 DEF RevisionInv
  <2> QED BY <2>2, <2>3 DEF Streaming, AuxiliaryStreamSucceeds, StreamSucceeds, StreamFails
<1>4. slotState' = "unknown" => owner' = NoSession
    BY <1>1, <1>2
<1> QED BY <1>2, <1>3, <1>4, PlainPhase

\* A removal forgets its session, or nobody.
LEMMA HeldAfterRemoving ==
    ASSUME IInv, HeldInv, Removing PROVE HeldInv'
<1>0. /\ RevisionInv /\ HolderInv /\ StateInv
      /\ UNCHANGED sessionVars => RevisionInv'
      /\ slotState = "unknown" => owner = NoSession
    BY RevisionsKept DEF HeldInv, OwnerInv, IInv
<1>1. CASE EraseOwnedReturns
    BY <1>0, <1>1, PlainPhase DEF EraseOwnedReturns, GoTo, ClearOwner
<1>2. ASSUME phase = "manifests", Release, UNCHANGED slotVars, RevisionInv'
      PROVE  HeldInv'
    BY <1>0, <1>2, ReleaseKeeps, PlainPhase DEF slotVars
<1>3. CASE ManifestsReturn
  <2>1. Running.session \in Sessions
      BY <1>0, <1>3, RunningIsLeased DEF ManifestsReturn, HolderInv, HeadFits
  <2>2. RevisionInv'
      BY <1>0, <1>3, <2>1, ForgetRevisions DEF ManifestsReturn
  <2> QED BY <1>2, <1>3, <2>2 DEF ManifestsReturn
<1>4. CASE ManifestsFail
    BY <1>0, <1>2, <1>4 DEF ManifestsFail
<1> QED BY <1>1, <1>3, <1>4 DEF Removing

\* What is beside the lease, a restart, or nothing.
LEMMA HeldAfterOthers ==
    ASSUME IInv, HeldInv, Beside \/ Restart \/ UNCHANGED vars PROVE HeldInv'
<1>1. CASE Beside \/ UNCHANGED vars
  <2>1. UNCHANGED <<line, holderVars, sessionVars, slotVars, runtimeKey, manifests>>
      BY <1>1 DEF Beside, vars, lifeVars, outside
  <2>2. /\ UNCHANGED <<line, phase, saving, wanted, owner, slotState, runtimeKey, manifests>>
        /\ Running' = Running
      BY <2>1 DEF holderVars, slotVars, Running
  <2>3. RevisionInv' /\ EvictInv'
      BY <2>1, <2>2, RevisionsKept, SlotKept DEF HeldInv, EvictInv
  <2>4. OwnerInv'
      BY <2>2 DEF HeldInv, OwnerInv, Compatible, WantedFile
  <2> QED BY <2>3, <2>4 DEF HeldInv
<1>2. CASE Restart
  <2>1. RevisionInv'
      BY <1>2 DEF Restart, RevisionInv, NewRuntime
  <2> QED BY <1>2, <2>1, PlainPhase DEF Restart
<1> QED BY <1>1, <1>2

\* A new coordinator owns no slot and has no runtimes.
LEMMA HeldAtStart == Init => HeldInv
BY DEF Init, HeldInv, RevisionInv, OwnerInv, EvictInv, PreparePhases, NewRuntime

\* The second invariant: whatever fails, what the head looked at is still so.
THEOREM HeldInvariance == Spec => []HeldInv
<1>1. IInv /\ HeldInv /\ [Next]_vars => HeldInv'
    BY HeldAfterCall, HeldAfterAdmission, HeldAfterSaving, HeldAfterPreparing,
       HeldAfterStreaming, HeldAfterRemoving, HeldAfterOthers DEF Next
<1> QED BY <1>1, HeldAtStart, Invariance, PTL DEF Spec

\* When a session that owns the slot may lose it: after a restart, while the
\* breaker is open, by its own removal, or because it needs no save or the head
\* has tried its last generation.
LEMMA OwnerLeaves ==
    ASSUME IInv, HeldInv, [Next]_vars, owner \in Sessions, owner' # owner
    PROVE  \/ restarts' # restarts
           \/ isOpen
           \/ SavingIsOwner
           \/ Running.kind \in {"invalidate", "purge"}
           \/ ~ShouldCheckpoint(owner, "switch")
<1>0. StateInv /\ HolderInv /\ RevisionInv /\ owner # NoSession
    BY ConstantsAssumption DEF IInv, HeldInv
<1>1. CASE Arrival \/ IdleTimerFires \/ GraceExpires \/ Beside \/ UNCHANGED vars
  <2>1. UNCHANGED owner
      BY <1>1 DEF Arrival, IdleTimerFires, GraceExpires, Beside, vars, slotVars
  <2> QED BY <2>1
<1>2. CASE Admission
  <2>1. CASE RefuseRequest \/ LoseRequest \/ AdmitRemoval \/ ResumePrepare
             \/ ResumeCheckpoint \/ AdmitCheckpoint
      BY <2>1 DEF RefuseRequest, LoseRequest, AdmitRemoval, ResumePrepare, ResumeCheckpoint,
                  AdmitCheckpoint, EndCheckpoint, BeginSave, slotVars
  <2>2. CASE AdmitRequest \/ AdmitRestoreNow
      BY <2>2 DEF AdmitRequest, AdmitRestoreNow, Prepare, BeginSave, slotVars
  <2>3. CASE BypassRequest
      BY <2>3 DEF BypassRequest
  <2>4. CASE AdmitAuxiliary
      BY <1>0, <2>4 DEF AdmitAuxiliary, BeginSave, slotVars, MustSaveFirst
  <2>5. CASE AdmitDisposed
    <3>1. CASE BeginSave(owner)
        BY <3>1 DEF BeginSave
    <3>2. CASE ~DisposalSaves /\ owner = Running.session
      <4>1. \/ isOpen
            \/ ~ShouldCheckpoint(owner, "session-disposed")
          BY <3>2 DEF DisposalSaves
      <4>2. TriggerEnabled("switch") => TriggerEnabled("session-disposed")
          BY DEF TriggerEnabled
      <4> QED BY <4>1, <4>2 DEF ShouldCheckpoint
    <3>3. CASE EndSession /\ owner # Running.session
        BY <3>3 DEF EndSession, slotVars
    <3> QED BY <2>5, <3>1, <3>2, <3>3 DEF AdmitDisposed
  <2>6. CASE ResumeAuxiliary \/ ResumeDisposed
      BY <2>6 DEF ResumeAuxiliary, ResumeDisposed, HeldInv, EvictInv
  <2> QED BY <1>2, <2>1, <2>2, <2>3, <2>4, <2>5, <2>6 DEF Admission
<1>3. CASE Saving \/ Streaming
    BY <1>3 DEF Saving, Streaming
<1>4. CASE Preparing
  <2>1. phase \in PreparePhases
      BY <1>4 DEF Preparing, FindsSnapshot, FindsNone, RestoreReturns, RestoreFails,
             MarkInvalidReturns, EraseReturns, EraseFallbackReturns, PreparePhases
  <2>2. owner' \in {owner, Running.session}
      BY <1>4 DEF Preparing, FindsSnapshot, FindsNone, RestoreReturns, RestoreFails,
             MarkInvalidReturns, EraseReturns, EraseFallbackReturns, slotVars
  <2>3. owner \notin {Running.session, NoSession}
      BY <1>0, <2>2
  <2> QED BY <2>1, <2>3 DEF HeldInv, EvictInv, MustSaveFirst
<1>5. CASE Removing
  <2>1. Running.kind \in {"invalidate", "purge"}
      BY <1>5 DEF Removing, EraseOwnedReturns, ManifestsReturn, ManifestsFail, IInv, HolderInv,
                  HeadFits
  <2> QED BY <2>1
<1>6. CASE Restart
  <2>1. restarts \in Nat /\ restarts' = restarts + 1
      BY <1>0, <1>6 DEF Restart, StateInv
  <2>2. restarts' # restarts
      BY <2>1
  <2> QED BY <2>2
<1> QED BY <1>1, <1>2, <1>3, <1>4, <1>5, <1>6 DEF Next

\* A dirty owner never loses the slot without a save of its last generation
\* having been tried under the same lease (#prepareSession, #runAuxiliary,
\* handleSessionDisposed): the open breaker, an explicit removal and the end of
\* the process are the only other ways, for every fault.
THEOREM SavedBeforeEviction == Spec => SaveBeforeEvict
<1> DEFINE Eviction ==
             \A s \in known :
                 owner = s /\ owner' # s /\ Dirty(s) /\ "switch" \in Triggers
                   => \/ restarts' # restarts
                      \/ isOpen
                      \/ /\ saving.session = s
                         /\ saving.generation = runtime[s].dirtyRevision
                      \/ Running.kind \in {"invalidate", "purge"}
<1>1. IInv /\ HeldInv /\ [Next]_vars => Eviction
  <2> SUFFICES ASSUME IInv, HeldInv, [Next]_vars, NEW s \in known,
                      owner = s, owner' # s, Dirty(s), "switch" \in Triggers
               PROVE  \/ restarts' # restarts
                      \/ isOpen
                      \/ /\ saving.session = s
                         /\ saving.generation = runtime[s].dirtyRevision
                      \/ Running.kind \in {"invalidate", "purge"}
      OBVIOUS
  <2>1. ShouldCheckpoint(owner, "switch") /\ owner \in Sessions
      BY DEF ShouldCheckpoint, TriggerEnabled, IInv, StateInv
  <2> QED BY <2>1, OwnerLeaves DEF SavingIsOwner
<1>2. IInv /\ HeldInv /\ [Next]_vars => [Eviction]_vars
    BY <1>1
<1> QED BY <1>2, Invariance, HeldInvariance, PTL DEF Spec, SaveBeforeEvict

\* dispose() reports its final checkpoint as done only if the slot's owner needs
\* no save, or its save was tried, or the breaker is open.
THEOREM SettledSaved == Spec => SettledIsSaved
<1> DEFINE Settled ==
             disposal = "flushing" /\ disposal' = "settled" /\ owner # NoSession
               => \/ ~Dirty(owner) \/ isOpen \/ saving.session = owner
<1>1. IInv /\ HeldInv /\ [Next]_vars => Settled
  <2> SUFFICES ASSUME IInv, HeldInv, [Next]_vars, disposal = "flushing",
                      disposal' = "settled", owner # NoSession
               PROVE  ~Dirty(owner) \/ isOpen \/ saving.session = owner
      OBVIOUS
  <2>0. StateInv /\ HolderInv /\ RevisionInv /\ owner \in Sessions
      BY DEF IInv, HeldInv, StateInv
  <2>1. ((AdmitCheckpoint /\ ~CheckpointSaves) \/ ResumeCheckpoint) /\ EndCheckpoint
    <3>1. CASE Admission
        BY <3>1 DEF Admission, RefuseRequest, BypassRequest, LoseRequest, AdmitRequest,
                    AdmitRestoreNow, AdmitAuxiliary, AdmitCheckpoint, AdmitDisposed,
                    AdmitRemoval, ResumePrepare, ResumeAuxiliary, ResumeDisposed,
                    ResumeCheckpoint
    <3>2. CASE Arrival \/ IdleTimerFires \/ GraceExpires
        BY <3>2 DEF Arrival, CallRequest, CallOperation, Dispose, Disposed, IdleTimerFires,
                    GraceExpires
    <3>3. CASE Saving \/ Preparing \/ Streaming \/ Removing \/ Beside \/ Restart
               \/ UNCHANGED vars
        BY <3>3 DEF Saving, Preparing, Streaming, Removing, Beside, Restart, vars, lifeVars
    <3> QED BY <3>1, <3>2, <3>3 DEF Next
  <2>2. Running.trigger = "shutdown" /\ phase # "free"
      BY <2>1 DEF EndCheckpoint, AdmitCheckpoint, ResumeCheckpoint, Granted
  <2>3. Running.kind = "flush" /\ "shutdown" \in Triggers
      BY <2>0, <2>2, RunningIsLeased DEF LeasedOperations
  <2>4. CASE ~CheckpointSaves
    <3>1. Checkpointed = owner
        BY <2>3 DEF Checkpointed
    <3>2. ~ShouldCheckpoint(owner, "shutdown") \/ isOpen
        BY <2>2, <2>3, <2>4, <3>1 DEF CheckpointSaves
    <3>3. Dirty(owner) => ShouldCheckpoint(owner, "shutdown")
        BY <2>0, <2>3, DirtyIsKnown DEF ShouldCheckpoint, TriggerEnabled
    <3> QED BY <3>2, <3>3
  <2>5. CASE ResumeCheckpoint
      BY <2>5 DEF ResumeCheckpoint, HeldInv, EvictInv, SavingIsOwner
  <2> QED BY <2>1, <2>4, <2>5
<1>2. IInv /\ HeldInv /\ [Next]_vars => [Settled]_vars
    BY <1>1
<1> QED BY <1>2, Invariance, HeldInvariance, PTL DEF Spec, SettledIsSaved

------------------------------------------------------------------------------
(* Requests.  Only a disposal or a purge takes the runtime of a session away *)
(* from a request that waits behind it.                                      *)

NothingForgotten == Calls \cap {"disposed", "purge"} = {}

WaitingIsKnown ==
    \A i \in 1 .. Len(line) : line[i].kind = "request" => line[i].session \in known

\* A line that loses its head is neither as it was nor longer.
LEMMA TailIsShorter ==
    ASSUME NEW S, NEW q \in Seq(S), q # <<>>
    PROVE  Tail(q) # q /\ \A e \in S : Append(q, e) # Tail(q)
<1>1. Len(q) \in Nat /\ Len(Tail(q)) = Len(q) - 1
    BY HeadTailProperties, LenProperties
<1>2. Len(Tail(q)) # Len(q)
  <2>1. \A n \in Nat : n - 1 # n
      OBVIOUS
  <2> QED BY <1>1, <2>1, Zenon
<1>3. Tail(q) # q
    BY <1>2, Zenon
<1>4. ASSUME NEW e \in S PROVE Append(q, e) # Tail(q)
  <2>1. Len(Append(q, e)) = Len(q) + 1
      OBVIOUS
  <2>2. \A n \in Nat : n + 1 # n - 1
      OBVIOUS
  <2>3. Len(Append(q, e)) # Len(Tail(q))
      BY <1>1, <2>1, <2>2, Zenon
  <2> QED BY <2>3, Zenon
<1> QED BY <1>3, <1>4

\* Whatever fails, a request that leaves the line was served, was refused by
\* dispose(), went with the process, has no runtime, or was failed by strict mode
\* after a failed restore.
LEMMA ServedOrLost ==
    ASSUME IInv, [Next]_vars, line # <<>>, line' = Tail(line),
           Running.kind \in {"request", "auxiliary"}
    PROVE  \/ phase = "stream" \/ Disposed \/ SessionHasEnded \/ restarts' # restarts
           \/ Strict /\ phase = "eraseFallback"
<1>0. HolderInv /\ StateInv /\ line' # line
      /\ \A op \in LeasedOperations : ~Enqueue(op)
    BY TailIsShorter DEF IInv, HolderInv, Enqueue
<1>1. CASE Arrival \/ IdleTimerFires \/ GraceExpires
  <2>1. line' = line \/ \E op \in LeasedOperations : Enqueue(op)
      BY <1>0, <1>1, CallsAreLeased DEF Arrival, CallRequest, CallOperation, Dispose,
                  IdleTimerFires, GraceExpires, StateInv
  <2> QED BY <1>0, <2>1
<1>2. CASE Admission
  <2>1. CASE RefuseRequest
      BY <2>1 DEF RefuseRequest, Welcome
  <2>2. CASE LoseRequest
      BY <2>2 DEF LoseRequest, Welcome, Granted, SessionHasEnded
  <2>3. CASE AdmitRestoreNow \/ AdmitCheckpoint \/ AdmitDisposed \/ AdmitRemoval
             \/ ResumeDisposed \/ ResumeCheckpoint
      BY <2>3 DEF AdmitRestoreNow, AdmitCheckpoint, AdmitDisposed, AdmitRemoval,
                  ResumeDisposed, ResumeCheckpoint, Granted, CheckpointKinds
  <2>4. CASE BypassRequest \/ AdmitAuxiliary \/ ResumePrepare \/ ResumeAuxiliary
      BY <1>0, <2>4 DEF BypassRequest, AdmitAuxiliary, ResumePrepare, ResumeAuxiliary, GoTo,
                        BeginSave
  <2>5. CASE AdmitRequest
      BY <1>0, <2>5 DEF AdmitRequest, Welcome, Granted, Prepare, EndPreparation, BeginSave, GoTo
  <2> QED BY <1>2, <2>1, <2>2, <2>3, <2>4, <2>5 DEF Admission
<1>3. CASE Saving
    BY <1>0, <1>3 DEF Saving, SaveSlotReturns, PutReturns, SaveFails, GoTo
<1>4. CASE Preparing
    BY <1>0, <1>4 DEF Preparing, FindsSnapshot, FindsNone, RestoreReturns, RestoreFails,
             MarkInvalidReturns, EraseReturns, EraseFallbackReturns, EndPreparation,
             FailsRequest, GoTo
<1>5. CASE Streaming
    BY <1>5 DEF Streaming, AuxiliaryStreamSucceeds, StreamSucceeds, StreamFails
<1>6. CASE Removing
    BY <1>6 DEF Removing, EraseOwnedReturns, ManifestsReturn, ManifestsFail, HolderInv,
                HeadFits, IInv
<1>7. CASE Beside \/ UNCHANGED vars
    BY <1>0, <1>7 DEF Beside, vars
<1>8. CASE Restart
  <2>1. restarts \in Nat /\ restarts' = restarts + 1
      BY <1>0, <1>8 DEF Restart, StateInv
  <2>2. restarts' # restarts
      BY <2>1
  <2> QED BY <2>2
<1> QED BY <1>1, <1>2, <1>3, <1>4, <1>5, <1>6, <1>7, <1>8 DEF Next

\* A step that takes no runtime away, and adds no request without one.
LEMMA WaitingKept ==
    ASSUME HolderInv, WaitingIsKnown, known \subseteq known',
           \/ line' = line
           \/ phase # "free" /\ Release
           \/ \E op \in LeasedOperations :
                 Enqueue(op) /\ (op.kind = "request" => op.session \in known')
    PROVE  WaitingIsKnown'
<1>1. CASE line' = line
    BY <1>1 DEF WaitingIsKnown
<1>2. CASE phase # "free" /\ Release
  <2>1. line # <<>> /\ line' = Tail(line) /\ line \in Seq(LeasedOperations)
      BY <1>2, RunningIsLeased DEF Release, HolderInv
  <2>2. /\ Len(line) \in Nat /\ Len(line') = Len(line) - 1
        /\ \A i \in 1 .. Len(line') : line'[i] = line[i + 1]
      BY <2>1
  <2>3. ASSUME NEW i \in 1 .. Len(line'), line'[i].kind = "request"
        PROVE  line'[i].session \in known'
    <3>1. i + 1 \in 1 .. Len(line) /\ line'[i] = line[i + 1]
        BY <2>2
    <3> QED BY <2>3, <3>1 DEF WaitingIsKnown
  <2> QED BY <2>3 DEF WaitingIsKnown
<1>3. ASSUME NEW op \in LeasedOperations, Enqueue(op),
             op.kind = "request" => op.session \in known'
      PROVE  WaitingIsKnown'
  <2>1. /\ Len(line) \in Nat /\ Len(line') = Len(line) + 1
        /\ \A i \in 1 .. Len(line) : line'[i] = line[i]
        /\ line'[Len(line) + 1] = op
      BY <1>3 DEF Enqueue, HolderInv
  <2>2. ASSUME NEW i \in 1 .. Len(line'), line'[i].kind = "request"
        PROVE  line'[i].session \in known'
    <3>1. CASE i \in 1 .. Len(line)
        BY <2>1, <2>2, <3>1 DEF WaitingIsKnown
    <3>2. CASE i = Len(line) + 1
        BY <1>3, <2>1, <2>2, <3>2
    <3> QED BY <2>1, <3>1, <3>2
  <2> QED BY <2>2 DEF WaitingIsKnown
<1> QED BY <1>1, <1>2, <1>3

\* Where sessions are neither disposed of nor purged, a runtime stays for as
\* long as the process.
LEMMA WaitingStep ==
    ASSUME NothingForgotten, IInv, RevisionInv, WaitingIsKnown, [Next]_vars
    PROVE  WaitingIsKnown'
<1>0. HolderInv /\ StateInv
    BY DEF IInv
<1>1. phase # "free" => Running.kind \notin {"disposed", "purge"}
    BY <1>0, RunningIsLeased DEF LeasedOperations, NothingForgotten
<1>2. CASE Arrival \/ IdleTimerFires \/ GraceExpires
  <2>1. known \subseteq known'
      BY <1>0, <1>2, CallFacts DEF IInv
  <2>2. \/ line' = line
        \/ \E op \in LeasedOperations :
              Enqueue(op) /\ (op.kind = "request" => op.session \in known')
    <3>1. ASSUME NEW s \in Sessions, NEW m \in Models, CallRequest(s, m)
          PROVE  \E op \in LeasedOperations :
                    Enqueue(op) /\ (op.kind = "request" => op.session \in known')
      <4>1. s \in known'
          BY <3>1 DEF CallRequest, EnsureRuntime
      <4> QED BY <3>1, <4>1, CallsAreLeased DEF CallRequest, Operation
    <3>2. ASSUME NEW op \in PlainOperations, CallOperation(op)
          PROVE  Enqueue(op) /\ op.kind # "request" /\ op \in LeasedOperations
        BY <3>2, CallsAreLeased DEF CallOperation, PlainOperations, Operation
    <3>3. CASE Dispose
        BY <3>3, CallsAreLeased DEF Dispose, Operation
    <3>4. CASE IdleTimerFires \/ GraceExpires
        BY <1>0, <3>4, CallsAreLeased DEF IdleTimerFires, GraceExpires, Operation, StateInv
    <3> QED BY <1>2, <3>1, <3>2, <3>3, <3>4 DEF Arrival
  <2> QED BY <1>0, <2>1, <2>2, WaitingKept
<1>3. ASSUME UNCHANGED known, Next, ~Arrival, ~IdleTimerFires, ~Restart PROVE WaitingIsKnown'
  <2>1. line' = line \/ (phase # "free" /\ Release)
    <3>1. CASE Admission
        BY <3>1 DEF Admission, RefuseRequest, BypassRequest, LoseRequest, AdmitRequest,
                AdmitRestoreNow, AdmitAuxiliary, AdmitCheckpoint, AdmitDisposed, AdmitRemoval,
                ResumePrepare, ResumeAuxiliary, ResumeDisposed, ResumeCheckpoint, Welcome,
                Granted, Prepare, EndPreparation, EndSession, EndCheckpoint, BeginSave, GoTo
    <3>2. CASE Saving \/ Preparing \/ Streaming \/ Removing
        BY <3>2 DEF Saving, SaveSlotReturns, PutReturns, SaveFails,
                Preparing, FindsSnapshot, FindsNone, RestoreReturns, RestoreFails,
                MarkInvalidReturns, EraseReturns, EraseFallbackReturns, EndPreparation,
                Streaming, AuxiliaryStreamSucceeds, StreamSucceeds, StreamFails,
                Removing, EraseOwnedReturns, ManifestsReturn, ManifestsFail, GoTo
    <3>3. CASE GraceExpires \/ Beside
        BY <3>3 DEF GraceExpires, Beside
    <3> QED BY <1>3, <3>1, <3>2, <3>3 DEF Next
  <2> QED BY <1>0, <1>3, <2>1, WaitingKept
<1>4. CASE Admission \/ Saving \/ Preparing \/ Streaming \/ Removing \/ Beside
  <2>1. UNCHANGED known
    <3>1. CASE Admission
        BY <1>1, <3>1 DEF Admission, RefuseRequest, BypassRequest, LoseRequest, AdmitRequest,
                AdmitRestoreNow, AdmitAuxiliary, AdmitCheckpoint, AdmitDisposed, AdmitRemoval,
                ResumePrepare, ResumeAuxiliary, ResumeDisposed, ResumeCheckpoint, Granted,
                sessionVars
    <3>2. CASE Removing
        BY <1>1, <3>2 DEF Removing, EraseOwnedReturns, ManifestsReturn, ManifestsFail,
                sessionVars
    <3>3. CASE Saving \/ Preparing \/ Streaming \/ Beside
        BY <3>3 DEF Saving, Preparing, Streaming, Beside, sessionVars
    <3> QED BY <1>4, <3>1, <3>2, <3>3
  <2>2. CASE Arrival \/ IdleTimerFires
      BY <1>2, <2>2
  <2>3. CASE Restart
      BY <2>3 DEF Restart, WaitingIsKnown
  <2> QED BY <1>3, <1>4, <2>1, <2>2, <2>3 DEF Next
<1>5. CASE Restart
    BY <1>5 DEF Restart, WaitingIsKnown
<1>6. CASE UNCHANGED vars
    BY <1>0, <1>6, WaitingKept DEF vars, sessionVars
<1> QED BY <1>2, <1>4, <1>5, <1>6 DEF Next

\* Persistence fails no request, whatever fails in it (runSessionRequest): a
\* request that was let into the line is served, unless dispose() refuses it, its
\* session was ended in front of it, or strict mode fails it after a restore that
\* failed.
THEOREM Served == Spec => RequestsAreServed
<1> DEFINE Answered ==
             line # <<>> /\ line' = Tail(line) /\ Running.kind \in {"request", "auxiliary"}
               => \/ phase = "stream" \/ Disposed \/ SessionHasEnded \/ restarts' # restarts
                  \/ Strict /\ phase = "eraseFallback"
<1>1. IInv /\ [Next]_vars => [Answered]_vars
    BY ServedOrLost
<1> QED BY <1>1, Invariance, PTL DEF Spec, RequestsAreServed

\* Where sessions are neither disposed of nor purged, every request that waits for
\* the lease has its runtime (#requireRuntime does not throw): none is lost behind
\* the end of its session.
THEOREM WaitingAreKnown == ASSUME NothingForgotten PROVE Spec => []WaitingIsKnown
<1>1. Init => WaitingIsKnown
    BY DEF Init, WaitingIsKnown
<1>2. IInv /\ HeldInv /\ WaitingIsKnown /\ [Next]_vars => WaitingIsKnown'
    BY WaitingStep DEF HeldInv
<1> QED BY <1>1, <1>2, Invariance, HeldInvariance, PTL DEF Spec

------------------------------------------------------------------------------
(* What the slot and the files hold, while the server answers every slot     *)
(* operation in time.  Manifests may fail, streams break, the host and the   *)
(* server restart.                                                           *)

ServerAnswers == Faults \cap {"backend", "late"} = {}

OwnInv ==
    /\ late = {}
    /\ owner # NoSession => cell.session \in {owner, NoSession}
    /\ \A f \in Snapshots : files[f].session \in {f[1], NoSession}

\* An erased slot, one with an auxiliary request's leftovers, or a conversation's.
LEMMA KvSessions ==
    /\ EmptyKv.session = NoSession
    /\ AuxiliaryKv.session = Auxiliary
    /\ \A n : ConversationKv(n).session = Running.session
    /\ Running.kind # "auxiliary" => PartialKv.session = Running.session
BY DEF EmptyKv, AuxiliaryKv, ConversationKv, PartialKv

\* With an answering server erasing erases.
LEMMA EraseErases ==
    ASSUME ServerAnswers, EraseSlot
    PROVE  cell' = EmptyKv /\ UNCHANGED <<late, faults>> /\ EraseFailures = 0
BY DEF ServerAnswers, EraseSlot, BackendFault, Fault, EraseFailures

\* Where the slot and the files stay as they are, so does what they hold; the
\* slot may be given up.
LEMMA OwnKept ==
    ASSUME OwnInv, UNCHANGED <<cell, files, late>>, owner' \in {owner, NoSession}
    PROVE  OwnInv'
BY DEF OwnInv

\* What the slot holds follows what the coordinator believes, step by step.
LEMMA OwnStep ==
    ASSUME ServerAnswers, IInv, HeldInv, OwnInv, [Next]_vars
    PROVE  OwnInv'
<1>0. HolderInv /\ StateInv /\ ServerInv /\ OwnerInv
    BY DEF IInv, HeldInv
<1>1. CASE Arrival \/ IdleTimerFires \/ GraceExpires \/ UNCHANGED vars
  <2>1. UNCHANGED <<cell, files, late, owner>>
      BY <1>1 DEF Arrival, IdleTimerFires, GraceExpires, vars, outside, serverVars, slotVars
  <2> QED BY <2>1, OwnKept
<1>2. CASE Admission
  <2>1. UNCHANGED <<cell, files, late>>
      BY <1>2 DEF Admission, outside, serverVars
  <2>2. owner' \in {owner, NoSession}
      BY <1>2 DEF Admission, RefuseRequest, BypassRequest, LoseRequest, AdmitRequest,
                AdmitRestoreNow, AdmitAuxiliary, AdmitCheckpoint, AdmitDisposed, AdmitRemoval,
                ResumePrepare, ResumeAuxiliary, ResumeDisposed, ResumeCheckpoint, Prepare,
                EndSession, EndCheckpoint, BeginSave, ClearOwner, LoseSlotTracking, slotVars
  <2> QED BY <2>1, <2>2, OwnKept
<1>3. CASE Saving
  <2>1. UNCHANGED <<owner, cell, late>>
      BY <1>3 DEF Saving, SaveSlotReturns, PutReturns, SaveFails, BackendFault, Fault,
                  ServerAnswers
  <2>2. CASE files' = files
      BY <2>1, <2>2, OwnKept
  <2>3. CASE SaveSlotReturns
    <3>1. owner = saving.session /\ saving.session \in Sessions /\ SavedFile \in Snapshots
          /\ SavedFile[1] = saving.session
        BY <2>3 DEF SaveSlotReturns, IInv, SaveInv, SaveCoversOwner, SavedFile, Snapshots
    <3>2. cell.session \in {SavedFile[1], NoSession}
        BY <3>1, ConstantsAssumption DEF OwnInv
    <3>3. files' = [files EXCEPT ![SavedFile] = cell] /\ files \in [Snapshots -> Contents]
        BY <1>0, <2>3 DEF SaveSlotReturns, ServerInv
    <3>4. \A f \in Snapshots : files'[f].session \in {f[1], NoSession}
        BY <3>1, <3>2, <3>3 DEF OwnInv
    <3> QED BY <2>1, <3>4 DEF OwnInv
  <2> QED BY <1>3, <2>2, <2>3 DEF Saving, PutReturns, SaveFails
<1>4. ASSUME cell' = EmptyKv, UNCHANGED <<files, late>>
      PROVE  OwnInv'
    BY <1>4, KvSessions DEF OwnInv
<1>5. CASE Preparing
  <2>0. UNCHANGED files
      BY <1>5 DEF Preparing
  <2>1. CASE FindsSnapshot \/ FindsNone \/ MarkInvalidReturns
      BY <2>0, <2>1, OwnKept DEF FindsSnapshot, FindsNone, MarkInvalidReturns, slotVars
  <2>2. CASE RestoreReturns
    <3>1. WantedFile \in Snapshots /\ WantedFile[1] = Running.session
        BY <1>0, <2>2, RunningIsLeased DEF RestoreReturns, HolderInv, HeadFits, PreparePhases,
           WantedFile, Snapshots
    <3>2. owner' = Running.session /\ cell' = files[WantedFile] /\ late' = late
        BY <2>2 DEF RestoreReturns
    <3> QED BY <2>0, <3>1, <3>2 DEF OwnInv
  <2>3. CASE RestoreFails
    <3>1. UNCHANGED <<late, owner>> /\ cell' \in {cell, EmptyKv}
        BY <2>3 DEF RestoreFails, BackendFault, Fault, ServerAnswers, slotVars
    <3> QED BY <1>4, <2>0, <3>1, OwnKept
  <2>4. CASE EraseReturns \/ EraseFallbackReturns
      BY <1>4, <2>0, <2>4, EraseErases DEF EraseReturns, EraseFallbackReturns
  <2> QED BY <1>5, <2>1, <2>2, <2>3, <2>4 DEF Preparing
<1>6. CASE Streaming
  <2>0. UNCHANGED <<owner, files, late>> /\ phase = "stream"
      BY <1>6 DEF Streaming, AuxiliaryStreamSucceeds, StreamSucceeds, StreamFails
  <2>1. owner = NoSession \/ (Running.kind = "request" /\ owner = Running.session)
      BY <1>0, <2>0 DEF OwnerInv
  <2>2. CASE owner = NoSession
      BY <2>0, <2>2 DEF OwnInv
  <2>3. CASE Running.kind = "request" /\ owner = Running.session
    <3>1. cell' = cell \/ cell'.session = Running.session
        BY <1>6, <2>3, KvSessions DEF Streaming, AuxiliaryStreamSucceeds, StreamSucceeds,
           StreamFails
    <3> QED BY <2>0, <2>3, <3>1 DEF OwnInv
  <2> QED BY <2>1, <2>2, <2>3
<1>7. CASE Removing
  <2>1. CASE EraseOwnedReturns
      BY <1>4, <1>7, <2>1, EraseErases DEF EraseOwnedReturns, Removing
  <2>2. CASE ManifestsReturn \/ ManifestsFail
      BY <1>7, <2>2, OwnKept DEF ManifestsReturn, ManifestsFail, slotVars, Removing
  <2> QED BY <1>7, <2>1, <2>2 DEF Removing
<1>8. CASE Beside
  <2>1. owner' = owner
      BY <1>8 DEF Beside, slotVars
  <2>2. CASE CooldownExpires \/ ProbeSucceeds
      BY <2>1, <2>2, OwnKept DEF CooldownExpires, ProbeSucceeds, serverVars
  <2>3. CASE LateOperation
      BY <2>3 DEF LateOperation, OwnInv
  <2>4. CASE ServerRestarts
      BY <2>1, <2>4, KvSessions DEF ServerRestarts, OwnInv
  <2> QED BY <1>8, <2>2, <2>3, <2>4 DEF Beside
<1>9. CASE Restart
    BY <1>9, OwnKept DEF Restart, ServerAnswers
<1> QED BY <1>1, <1>2, <1>3, <1>5, <1>6, <1>7, <1>8, <1>9 DEF Next

\* The invariant that an answering server keeps.
THEOREM OwnInvariance == ASSUME ServerAnswers PROVE Spec => []OwnInv
<1>1. Init => OwnInv
    BY KvSessions DEF Init, OwnInv
<1>2. IInv /\ HeldInv /\ OwnInv /\ [Next]_vars => OwnInv'
    BY OwnStep
<1> QED BY <1>1, <1>2, Invariance, HeldInvariance, PTL DEF Spec

\* A conversation is never continued on the KV of another one, and no auxiliary
\* request's KV is taken for a conversation's, if the server answers: the owner
\* changes in the step in which the slot is erased, restored or given away.
THEOREM SlotIsOfOwner == ASSUME ServerAnswers PROVE Spec => []OwnerIsInSlot
<1>1. OwnInv => OwnerIsInSlot
    BY DEF OwnInv, OwnerIsInSlot
<1> QED BY <1>1, OwnInvariance, PTL

\* Every snapshot file holds the conversation that it is named after, ready or
\* not: the slot is saved under the name of the owner it really has
\* (#saveOwnedSession).
THEOREM SnapshotsOwn == ASSUME ServerAnswers PROVE Spec => []SnapshotsHoldOwnSession
<1>1. OwnInv => SnapshotsHoldOwnSession
    BY DEF OwnInv, SnapshotsHoldOwnSession
<1> QED BY <1>1, OwnInvariance, PTL

------------------------------------------------------------------------------
(* The bookkeeping, while nothing fails but streams: then every turn that is *)
(* not saved is in the slot.                                                 *)

\* No fault but a broken stream, no explicit invalidation, and the checkpoint
\* before a switch enabled.
OnlyStreamsBreak ==
    /\ Faults \subseteq {"abort"}
    /\ "invalidate" \notin Calls
    /\ "switch" \in Triggers

OwnerDirty == owner \in Sessions /\ Dirty(owner)

\* Every session with unsaved turns is in the slot, or just being purged.
DirtyInSlot ==
    \A s \in Sessions :
        Dirty(s) => owner = s \/ (phase = "manifests" /\ Running.session = s)

CalmInv ==
    /\ isOpen = FALSE
    /\ DirtyInSlot
    /\ OwnerDirty => cell.session = owner
    /\ \A f \in written : files[f].session = f[1]
    /\ phase \in {"save", "put"} => OwnerDirty
    /\ phase \in PreparePhases \union {"saved"} => ~OwnerDirty
    /\ phase \notin {"markInvalid", "eraseFallback"}
    /\ phase = "stream" /\ Running.kind = "request" => owner = Running.session

\* What cannot happen then.
LEMMA NoFaults ==
    ASSUME OnlyStreamsBreak
    PROVE  /\ ServerAnswers
           /\ \A k \in {"backend", "metadata", "serverRestart"} : ~Fault(k)
           /\ \A k, f : ~BackendFault(k, f)
           /\ HolderInv /\ phase # "free" => Running.kind # "invalidate"
<1>1. \A k \in {"backend", "metadata", "serverRestart"} : ~Fault(k)
    BY DEF OnlyStreamsBreak, Fault
<1>2. ServerAnswers
    BY DEF OnlyStreamsBreak, ServerAnswers
<1>3. HolderInv /\ phase # "free" => Running.kind # "invalidate"
    BY RunningIsLeased DEF OnlyStreamsBreak, LeasedOperations
<1> QED BY <1>1, <1>2, <1>3 DEF BackendFault

\* The policy asks for a checkpoint of exactly the dirty owner.
LEMMA OwnerPolicy ==
    ASSUME OnlyStreamsBreak, StateInv, RevisionInv
    PROVE  /\ \A t : ShouldCheckpoint(owner, t) => OwnerDirty
           /\ OwnerDirty => ShouldCheckpoint(owner, "switch")
<1>1. known \subseteq Sessions
    BY DEF StateInv
<1>2. TriggerEnabled("switch")
    BY DEF OnlyStreamsBreak, TriggerEnabled
<1>3. OwnerDirty => owner \in known
    BY DirtyIsKnown DEF OwnerDirty
<1> QED BY <1>1, <1>2, <1>3 DEF ShouldCheckpoint, OwnerDirty

\* Sessions that keep their runtimes are as dirty as they were.
LEMMA DirtyKept ==
    ASSUME \A s \in Sessions :
              /\ runtime'[s].dirtyRevision = runtime[s].dirtyRevision
              /\ runtime'[s].persistedRevision = runtime[s].persistedRevision
    PROVE  \A s \in Sessions : Dirty(s)' <=> Dirty(s)
BY DEF Dirty

\* A step that leaves the dirty sessions, the slot and the files alone, and goes
\* to an await that asks nothing more.
LEMMA CalmKept ==
    ASSUME CalmInv, isOpen' = FALSE, UNCHANGED <<owner, cell, written, files>>,
           \A s \in Sessions : Dirty(s)' <=> Dirty(s),
           phase = "manifests" =>
              (phase' = "manifests" /\ Running' = Running) \/ ~Dirty(Running.session),
           phase' \in {"save", "put"} => OwnerDirty,
           phase' \in PreparePhases \union {"saved"} => ~OwnerDirty,
           phase' \notin {"markInvalid", "eraseFallback"},
           (phase = "stream" /\ Running.kind = "request" => owner = Running.session)'
    PROVE  CalmInv'
<1>1. OwnerDirty' <=> OwnerDirty
    BY DEF OwnerDirty
<1>2. DirtyInSlot'
    BY DEF CalmInv, DirtyInSlot
<1> QED BY <1>1, <1>2 DEF CalmInv

\* The end of an operation.
LEMMA CalmReleased ==
    ASSUME isOpen' = FALSE, phase' \in {"free", "granted"},
           \A s \in Sessions : Dirty(s)' => owner' = s,
           OwnerDirty' => cell'.session = owner',
           \A f \in written' : files'[f].session = f[1]
    PROVE  CalmInv'
BY DEF CalmInv, DirtyInSlot, PreparePhases

\* Calls and timers.
LEMMA CalmAfterCall ==
    ASSUME IInv, HeldInv, CalmInv, Arrival \/ IdleTimerFires \/ GraceExpires
    PROVE  CalmInv'
<1>1. /\ UNCHANGED <<owner, isOpen, cell, written, files>>
      /\ \/ phase' = phase /\ (phase # "free" => Running' = Running)
         \/ phase = "free" /\ phase' = "granted"
      /\ \A s \in Sessions :
            /\ runtime'[s].dirtyRevision = runtime[s].dirtyRevision
            /\ runtime'[s].persistedRevision = runtime[s].persistedRevision
    BY CallFacts DEF HeldInv, slotVars, breakerVars, serverVars
<1>2. \A s \in Sessions : Dirty(s)' <=> Dirty(s)
    BY <1>1, DirtyKept
<1>3. CASE phase' = phase /\ (phase # "free" => Running' = Running)
    BY <1>1, <1>2, <1>3, CalmKept DEF CalmInv, PreparePhases
<1>4. CASE phase = "free" /\ phase' = "granted"
    BY <1>1, <1>2, <1>4, CalmKept DEF CalmInv, PreparePhases
<1> QED BY <1>1, <1>3, <1>4

\* A preparation saves the dirty owner, or finds none to save.
LEMMA CalmAfterPrepare ==
    ASSUME OnlyStreamsBreak, IInv, HeldInv, CalmInv, phase = "granted",
           Running.kind \in {"request", "restoreNow"},
           NEW m, Prepare(Running.session, m), UNCHANGED <<sessionVars, isOpen, outside>>
    PROVE  CalmInv'
<1> DEFINE s == Running.session
<1>0. /\ UNCHANGED <<cell, written, files>> /\ isOpen' = FALSE
      /\ \A r \in Sessions : Dirty(r)' <=> Dirty(r)
    BY DirtyKept DEF outside, serverVars, sessionVars, CalmInv
<1>1. CASE Resident(s) /\ EndPreparation(slotState) /\ UNCHANGED owner
  <2>1. CASE GoTo("stream")
    <3>1. phase' = "stream" /\ Running' = Running /\ owner = s
        BY <1>1, <2>1 DEF GoTo, Running, Resident
    <3> QED BY <1>0, <1>1, <3>1, CalmKept DEF PreparePhases
  <2>2. CASE Release
    <3>1. phase' \in {"free", "granted"}
        BY <2>2, ReleaseKeeps DEF IInv
    <3> QED BY <1>0, <1>1, <3>1, CalmKept DEF PreparePhases
  <2> QED BY <1>1, <2>1, <2>2 DEF EndPreparation
<1>2. CASE MustSaveFirst(s) /\ BeginSave(owner)
  <2>1. OwnerDirty /\ phase' = "save" /\ owner' = owner
      BY <1>2, OwnerPolicy DEF MustSaveFirst, BeginSave, IInv, HeldInv
  <2> QED BY <1>0, <2>1, CalmKept DEF PreparePhases
<1>3. CASE ~Resident(s) /\ ~MustSaveFirst(s) /\ phase' = LookUp /\ UNCHANGED slotVars
  <2>1. owner' = owner /\ phase' \in {"find", "erase"}
      BY <1>3 DEF slotVars, LookUp
  <2>2. s \in Sessions
      BY RunningIsLeased DEF IInv
  <2>3. owner # s
      BY <1>3, <2>2, ConstantsAssumption DEF Resident, HeldInv, OwnerInv
  <2>4. ~OwnerDirty
      BY <1>3, <2>3, OwnerPolicy, ConstantsAssumption
      DEF MustSaveFirst, OwnerDirty, IInv, HeldInv
  <2> QED BY <1>0, <2>1, <2>4, CalmKept
<1> QED BY <1>1, <1>2, <1>3 DEF Prepare

\* From the lease to the first await, and from the end of the save on.
LEMMA CalmAfterAdmission ==
    ASSUME OnlyStreamsBreak, IInv, HeldInv, CalmInv, Admission
    PROVE  CalmInv'
<1>0. /\ UNCHANGED <<isOpen, outside, cell, written, files>> /\ isOpen' = FALSE
      /\ phase \in {"granted", "saved"} /\ HolderInv /\ StateInv /\ RevisionInv
      /\ \A s \in Sessions : Dirty(s) => owner = s
      /\ OwnerDirty => cell.session = owner
      /\ \A f \in written : files[f].session = f[1]
  <2>1. /\ UNCHANGED <<isOpen, outside>>
        /\ phase \in {"granted", "saved"}
      BY DEF Admission, breakerVars, Granted, Welcome, RefuseRequest, BypassRequest,
             LoseRequest, AdmitRequest, AdmitRestoreNow, AdmitAuxiliary, AdmitCheckpoint,
             AdmitDisposed, AdmitRemoval, ResumePrepare, ResumeAuxiliary, ResumeDisposed,
             ResumeCheckpoint
  <2> QED BY <2>1 DEF outside, serverVars, CalmInv, DirtyInSlot, IInv, HeldInv
<1>1. ASSUME UNCHANGED sessionVars
      PROVE  \A s \in Sessions : Dirty(s)' <=> Dirty(s)
    BY <1>1, DirtyKept DEF sessionVars
<1>2. ASSUME UNCHANGED sessionVars, Release, owner' = owner \/ ~OwnerDirty
      PROVE  CalmInv'
  <2>1. phase' \in {"free", "granted"}
      BY <1>0, <1>2, ReleaseKeeps
  <2>2. \A s \in Sessions : Dirty(s)' => owner' = s
      BY <1>0, <1>1, <1>2 DEF OwnerDirty
  <2>3. OwnerDirty' => cell'.session = owner'
      BY <1>0, <1>1, <1>2 DEF OwnerDirty
  <2> QED BY <1>0, <2>1, <2>2, <2>3, CalmReleased
<1>3. ASSUME UNCHANGED sessionVars, OwnerDirty, BeginSave(owner)
      PROVE  CalmInv'
    BY <1>0, <1>1, <1>3, CalmKept DEF BeginSave, PreparePhases
<1>4. ASSUME UNCHANGED sessionVars, GoTo("stream"), Running.kind = "auxiliary",
             ~OwnerDirty, owner' = NoSession
      PROVE  CalmInv'
  <2>1. phase' = "stream" /\ Running' = Running
      BY <1>4 DEF GoTo, Running
  <2>2. \A s \in Sessions : ~Dirty(s)'
      BY <1>0, <1>1, <1>4 DEF OwnerDirty
  <2> QED BY <1>0, <1>4, <2>1, <2>2 DEF CalmInv, DirtyInSlot, OwnerDirty, PreparePhases
<1>5. ASSUME Running.kind = "disposed", EndSession
      PROVE  CalmInv'
  <2>1. Running.session \in Sessions
      BY <1>0, <1>5, RunningIsLeased
  <2>2. phase' \in {"free", "granted"}
      BY <1>0, <1>5, ReleaseKeeps DEF EndSession
  <2>3. \A s \in Sessions :
            Dirty(s)' => s # Running.session /\ Dirty(s)
      BY <1>0, <1>5, <2>1 DEF EndSession, Forget, NewRuntime, Dirty, StateInv
  <2>4. owner' = owner \/ (owner = Running.session /\ owner' = NoSession)
      BY <1>5 DEF EndSession, ClearOwner, slotVars
  <2>5. \A s \in Sessions : Dirty(s)' => owner' = s
      BY <1>0, <2>3, <2>4
  <2>6. OwnerDirty' => cell'.session = owner'
      BY <1>0, <2>3, <2>4, ConstantsAssumption DEF OwnerDirty
  <2> QED BY <1>0, <2>2, <2>5, <2>6, CalmReleased
<1>6. CASE RefuseRequest \/ LoseRequest
    BY <1>2, <1>6 DEF RefuseRequest, LoseRequest, slotVars
<1>7. CASE BypassRequest
    BY <1>7 DEF BypassRequest, CalmInv
<1>8. CASE AdmitRequest
    BY <1>0, <1>8, CalmAfterPrepare DEF AdmitRequest, Welcome, Granted
<1>9. CASE AdmitRestoreNow
  <2>1. CASE Release /\ UNCHANGED slotVars
      BY <1>2, <1>9, <2>1 DEF AdmitRestoreNow, slotVars
  <2>2. CASE Prepare(Running.session, runtime[Running.session].model)
      BY <1>0, <1>9, <2>2, CalmAfterPrepare DEF AdmitRestoreNow, Granted
  <2> QED BY <1>9, <2>1, <2>2 DEF AdmitRestoreNow
<1>10. CASE AdmitAuxiliary
  <2>0. UNCHANGED sessionVars /\ Running.kind = "auxiliary"
      BY <1>10 DEF AdmitAuxiliary, Welcome, Granted
  <2>1. CASE owner = NoSession /\ GoTo("stream") /\ UNCHANGED slotVars
      BY <1>4, <2>0, <2>1, ConstantsAssumption DEF slotVars, OwnerDirty
  <2>2. CASE MustSaveFirst(NoSession) /\ BeginSave(owner)
      BY <1>0, <1>3, <2>0, <2>2, OwnerPolicy DEF MustSaveFirst
  <2>3. CASE ~MustSaveFirst(NoSession) /\ ClearOwner /\ GoTo("stream")
    <3>1. ~OwnerDirty
        BY <1>0, <2>3, OwnerPolicy, ConstantsAssumption DEF MustSaveFirst, OwnerDirty
    <3> QED BY <1>4, <2>0, <2>3, <3>1 DEF ClearOwner
  <2> QED BY <1>10, <2>1, <2>2, <2>3 DEF AdmitAuxiliary
<1>11. CASE AdmitCheckpoint
  <2>1. CASE CheckpointSaves /\ BeginSave(owner)
      BY <1>0, <1>3, <1>11, <2>1, OwnerPolicy DEF AdmitCheckpoint, CheckpointSaves
  <2>2. CASE EndCheckpoint
      BY <1>2, <1>11, <2>2 DEF AdmitCheckpoint, EndCheckpoint, slotVars
  <2> QED BY <1>11, <2>1, <2>2 DEF AdmitCheckpoint
<1>12. CASE AdmitDisposed
  <2>1. CASE DisposalSaves /\ BeginSave(owner) /\ UNCHANGED sessionVars
      BY <1>0, <1>3, <2>1, OwnerPolicy DEF DisposalSaves
  <2>2. CASE EndSession
      BY <1>5, <1>12, <2>2 DEF AdmitDisposed, Granted
  <2> QED BY <1>12, <2>1, <2>2 DEF AdmitDisposed
<1>13. CASE AdmitRemoval
  <2>1. UNCHANGED <<sessionVars, owner>> /\ phase' \in {"eraseOwned", "manifests"}
        /\ phase = "granted"
      BY <1>13 DEF AdmitRemoval, GoTo, slotVars, Granted
  <2> QED BY <1>0, <1>1, <2>1, CalmKept DEF PreparePhases
<1>14. CASE ResumePrepare
  <2>1. UNCHANGED <<sessionVars, owner>> /\ phase' \in {"find", "erase"} /\ phase = "saved"
      BY <1>14 DEF ResumePrepare, GoTo, LookUp, slotVars
  <2>2. ~OwnerDirty
      BY <2>1 DEF CalmInv
  <2> QED BY <1>0, <1>1, <2>1, <2>2, CalmKept
<1>15. CASE ResumeAuxiliary
    BY <1>4, <1>15 DEF ResumeAuxiliary, ClearOwner, CalmInv
<1>16. CASE ResumeDisposed
    BY <1>5, <1>16 DEF ResumeDisposed
<1>17. CASE ResumeCheckpoint
    BY <1>2, <1>17 DEF ResumeCheckpoint, EndCheckpoint, slotVars
<1> QED BY <1>6, <1>7, <1>8, <1>9, <1>10, <1>11, <1>12, <1>13, <1>14, <1>15, <1>16,
           <1>17 DEF Admission

\* The save puts the owner's conversation in the owner's file, and the manifest
\* makes it clean.
LEMMA CalmAfterSaving ==
    ASSUME OnlyStreamsBreak, IInv, HeldInv, CalmInv, Saving
    PROVE  CalmInv'
<1>0. /\ phase \in {"save", "put"} /\ UNCHANGED <<owner, cell, known>>
      /\ owner = saving.session /\ owner \in Sessions /\ OwnerDirty
      /\ saving.generation = runtime[owner].dirtyRevision
      /\ cell.session = owner
      /\ \A s \in Sessions : Dirty(s) => owner = s
      /\ runtime \in [Sessions -> Runtimes]
  <2>1. phase \in {"save", "put"} /\ UNCHANGED <<owner, cell, known>>
      BY NoFaults DEF Saving, SaveSlotReturns, PutReturns, SaveFails
  <2>2. owner = saving.session /\ saving.generation = runtime[owner].dirtyRevision
      BY <2>1 DEF IInv, SaveInv, SaveCoversOwner
  <2>3. OwnerDirty /\ cell.session = owner
      BY <2>1 DEF CalmInv
  <2> QED BY <2>1, <2>2, <2>3 DEF CalmInv, DirtyInSlot, OwnerDirty, IInv, StateInv
<1>1. CASE SaveSlotReturns
  <2>1. /\ phase' = "put" /\ isOpen' = FALSE
        /\ \A s \in Sessions : Dirty(s)' <=> Dirty(s)
      BY <1>1, DirtyKept DEF SaveSlotReturns, GoTo, breakerVars, CalmInv
  <2>2. /\ written' = written \union {SavedFile}
        /\ files' = [files EXCEPT ![SavedFile] = cell]
        /\ SavedFile[1] = owner
        /\ written \subseteq Snapshots /\ files \in [Snapshots -> Contents]
      BY <1>0, <1>1 DEF SaveSlotReturns, SavedFile, IInv, ServerInv
  <2>3. SavedFile \in Snapshots
      BY <1>0 DEF SavedFile, Snapshots, IInv, SaveInv
  <2>4. \A f \in written' : files'[f].session = f[1]
      BY <1>0, <2>2, <2>3 DEF CalmInv
  <2> QED BY <1>0, <2>1, <2>4 DEF CalmInv, DirtyInSlot, OwnerDirty, PreparePhases
<1>2. CASE PutReturns
  <2>1. /\ phase' = "saved" /\ isOpen' = FALSE /\ UNCHANGED <<written, files>>
        /\ runtime' = [runtime EXCEPT ![owner].persistedRevision =
                          IF @ < saving.generation THEN saving.generation ELSE @]
      BY <1>0, <1>2 DEF PutReturns, GoTo, RecordSuccess
  <2>2. \A s \in Sessions \ {owner} : Dirty(s)' <=> Dirty(s)
      BY <1>0, <2>1 DEF Dirty
  <2>3. ~Dirty(owner)'
    <3>1. /\ runtime'[owner].dirtyRevision = runtime[owner].dirtyRevision
          /\ runtime'[owner].persistedRevision = saving.generation
          /\ runtime[owner].dirtyRevision \in Nat
        BY <1>0, <2>1 DEF Runtimes, OwnerDirty, Dirty
    <3> QED BY <1>0, <3>1 DEF Dirty
  <2>4. \A s \in Sessions : ~Dirty(s)'
      BY <1>0, <2>2, <2>3
  <2> QED BY <1>0, <2>1, <2>4 DEF CalmInv, DirtyInSlot, OwnerDirty, PreparePhases
<1>3. ~SaveFails
    BY NoFaults DEF SaveFails
<1> QED BY <1>1, <1>2, <1>3 DEF Saving

\* Nobody has unsaved turns while the slot changes hands, and a restore puts the
\* session's own conversation in it.
LEMMA CalmAfterPreparing ==
    ASSUME OnlyStreamsBreak, IInv, HeldInv, CalmInv, Preparing
    PROVE  CalmInv'
<1>0. /\ phase \in PreparePhases /\ isOpen = FALSE /\ HolderInv /\ phase # "free"
      /\ UNCHANGED <<written, files>>
      /\ \A s \in Sessions : ~Dirty(s)'
      /\ \A f \in written : files[f].session = f[1]
  <2>1. phase \in PreparePhases /\ UNCHANGED <<sessionVars, written, files>>
      BY DEF Preparing, FindsSnapshot, FindsNone, RestoreReturns, RestoreFails,
             MarkInvalidReturns, EraseReturns, EraseFallbackReturns, PreparePhases
  <2>2. \A s \in Sessions : ~Dirty(s)
      BY <2>1 DEF CalmInv, DirtyInSlot, OwnerDirty, PreparePhases
  <2>3. \A s \in Sessions : Dirty(s)' <=> Dirty(s)
      BY <2>1, DirtyKept DEF sessionVars
  <2> QED BY <2>1, <2>2, <2>3 DEF CalmInv, IInv, PreparePhases
<1>1. ASSUME phase' \in {"restore", "erase"}, isOpen' = FALSE
      PROVE  CalmInv'
    BY <1>0, <1>1 DEF CalmInv, DirtyInSlot, OwnerDirty
<1>2. ASSUME NEW state, EndPreparation(state), owner' = Running.session, isOpen' = FALSE
      PROVE  CalmInv'
  <2>1. \/ phase' = "stream" /\ Running' = Running
        \/ phase' \in {"free", "granted"}
      BY <1>0, <1>2, ReleaseKeeps DEF EndPreparation, GoTo, Running
  <2> QED BY <1>0, <1>2, <2>1 DEF CalmInv, DirtyInSlot, OwnerDirty, PreparePhases
<1>3. CASE FindsSnapshot \/ FindsNone
    BY <1>0, <1>1, <1>3 DEF FindsSnapshot, FindsNone, GoTo, breakerVars
<1>4. CASE RestoreReturns
    BY <1>2, <1>4 DEF RestoreReturns, RecordSuccess
<1>5. ~RestoreFails
  <2> SUFFICES ASSUME phase = "restore" PROVE Restorable(WantedFile)
      BY NoFaults DEF RestoreFails
  <2>1. manifests[WantedFile].state = "ready"
      BY DEF HeldInv, OwnerInv, Compatible
  <2>2. WantedFile \in Snapshots /\ Running.session \in Sessions
      BY <1>0, RunningIsLeased DEF HolderInv, HeadFits, PreparePhases, WantedFile, Snapshots
  <2>3. WantedFile \in written
      BY <2>1, <2>2 DEF IInv, FileInv, ReadyHasFile
  <2>4. files[WantedFile].session \in Sessions
      BY <1>0, <2>2, <2>3 DEF WantedFile
  <2> QED BY <2>3, <2>4, KvSessions, ConstantsAssumption DEF Restorable
<1>6. ~MarkInvalidReturns /\ ~EraseFallbackReturns
    BY DEF MarkInvalidReturns, EraseFallbackReturns, CalmInv
<1>7. CASE EraseReturns
  <2>1. isOpen' = FALSE
      BY <1>0, <1>7, NoFaults, EraseErases DEF EraseReturns, breakerVars
  <2> QED BY <1>2, <1>7, <2>1 DEF EraseReturns
<1> QED BY <1>3, <1>4, <1>5, <1>6, <1>7 DEF Preparing

\* A completed turn is of the slot's owner.
LEMMA CalmAfterStreaming ==
    ASSUME IInv, HeldInv, CalmInv, Streaming
    PROVE  CalmInv'
<1>0. /\ phase = "stream" /\ Release /\ UNCHANGED <<owner, known, isOpen, written, files>>
      /\ \A s \in Sessions : Dirty(s) => owner = s
      /\ runtime \in [Sessions -> Runtimes]
    BY DEF Streaming, AuxiliaryStreamSucceeds, StreamSucceeds, StreamFails, breakerVars,
           CalmInv, DirtyInSlot, IInv, StateInv
<1>1. phase' \in {"free", "granted"} /\ isOpen' = FALSE
    BY <1>0, ReleaseKeeps DEF IInv, CalmInv
<1>2. \A f \in written' : files'[f].session = f[1]
    BY <1>0 DEF CalmInv
<1>3. CASE StreamSucceeds
  <2>1. owner = Running.session /\ cell'.session = Running.session
      BY <1>0, <1>3, KvSessions DEF StreamSucceeds, CalmInv
  <2>2. \A s \in Sessions \ {owner} : runtime'[s] = runtime[s]
      BY <1>0, <1>3, <2>1 DEF StreamSucceeds
  <2>3. \A s \in Sessions : Dirty(s)' => owner' = s
      BY <1>0, <2>2 DEF Dirty
  <2> QED BY <1>0, <1>1, <1>2, <2>1, <2>3, CalmReleased
<1>4. CASE AuxiliaryStreamSucceeds \/ StreamFails
  <2>1. \A s \in Sessions : Dirty(s)' <=> Dirty(s)
      BY <1>4, DirtyKept DEF AuxiliaryStreamSucceeds, StreamFails
  <2>2. \A s \in Sessions : Dirty(s)' => owner' = s
      BY <1>0, <2>1
  <2>3. OwnerDirty' => OwnerDirty
      BY <1>0, <2>1 DEF OwnerDirty
  <2>4. OwnerDirty => Running.kind = "request" /\ owner = Running.session
      BY <1>0, ConstantsAssumption DEF HeldInv, OwnerInv, OwnerDirty
  <2>5. OwnerDirty => cell'.session = owner
      BY <1>4, <2>4, KvSessions DEF AuxiliaryStreamSucceeds, StreamFails, CalmInv
  <2> QED BY <1>0, <1>1, <1>2, <2>2, <2>3, <2>5, CalmReleased
<1> QED BY <1>3, <1>4 DEF Streaming

\* A purge forgets the session whose turns leave the slot.
LEMMA CalmAfterRemoving ==
    ASSUME OnlyStreamsBreak, IInv, HeldInv, CalmInv, Removing
    PROVE  CalmInv'
<1>0. /\ phase \in {"eraseOwned", "manifests"} /\ HolderInv /\ StateInv
      /\ UNCHANGED <<written, files>>
      /\ Running.kind = "purge" /\ Running.session \in Sessions
      /\ isOpen = FALSE /\ DirtyInSlot
      /\ OwnerDirty => cell.session = owner
      /\ \A f \in written : files[f].session = f[1]
  <2>1. phase \in {"eraseOwned", "manifests"} /\ UNCHANGED <<written, files>>
      BY DEF Removing, EraseOwnedReturns, ManifestsReturn, ManifestsFail
  <2>2. Running.kind = "purge" /\ Running.session \in Sessions
      BY <2>1, NoFaults, RunningIsLeased DEF IInv, HolderInv, HeadFits
  <2> QED BY <2>1, <2>2 DEF CalmInv, IInv
<1>1. CASE EraseOwnedReturns
  <2>1. /\ phase' = "manifests" /\ Running' = Running /\ owner' = NoSession
        /\ phase = "eraseOwned" /\ UNCHANGED sessionVars
      BY <1>1 DEF EraseOwnedReturns, GoTo, Running, ClearOwner
  <2>2. isOpen' = FALSE
      BY <1>0, <1>1, NoFaults, EraseErases DEF EraseOwnedReturns, breakerVars
  <2>3. owner = Running.session
      BY <2>1 DEF HeldInv, OwnerInv
  <2>4. \A s \in Sessions : Dirty(s)' <=> Dirty(s)
      BY <2>1, DirtyKept DEF sessionVars
  <2>5. DirtyInSlot'
      BY <1>0, <2>1, <2>3, <2>4 DEF DirtyInSlot
  <2> QED BY <1>0, <2>1, <2>2, <2>5, ConstantsAssumption DEF CalmInv, OwnerDirty, PreparePhases
<1>2. CASE ManifestsReturn
  <2>1. /\ phase = "manifests" /\ Forget(Running.session) /\ Release
        /\ UNCHANGED <<owner, isOpen, cell>>
      BY <1>0, <1>2 DEF ManifestsReturn, slotVars, breakerVars
  <2>2. phase' \in {"free", "granted"}
      BY <1>0, <2>1, ReleaseKeeps
  <2>3. \A s \in Sessions : Dirty(s)' => s # Running.session /\ Dirty(s)
      BY <1>0, <2>1 DEF Forget, NewRuntime, Dirty, StateInv
  <2>4. \A s \in Sessions : Dirty(s)' => owner' = s
      BY <1>0, <2>1, <2>3 DEF DirtyInSlot
  <2>5. OwnerDirty' => cell'.session = owner'
      BY <1>0, <2>1, <2>3 DEF OwnerDirty
  <2> QED BY <1>0, <2>1, <2>2, <2>4, <2>5, CalmReleased
<1>3. ~ManifestsFail
    BY NoFaults DEF ManifestsFail
<1> QED BY <1>1, <1>2, <1>3 DEF Removing

\* The probe, a restart of the host, or nothing.
LEMMA CalmAfterOthers ==
    ASSUME OnlyStreamsBreak, IInv, OwnInv, CalmInv, Beside \/ Restart \/ UNCHANGED vars
    PROVE  CalmInv'
<1>1. CASE Beside \/ UNCHANGED vars
  <2>1. UNCHANGED <<line, phase, sessionVars, owner, cell, written, files>> /\ isOpen' = FALSE
    <3>1. ~CooldownExpires /\ ~LateOperation /\ ~ServerRestarts
        BY NoFaults DEF CooldownExpires, LateOperation, ServerRestarts, CalmInv, OwnInv
    <3> QED BY <1>1, <3>1
            DEF Beside, ProbeSucceeds, RecordSuccess, vars, holderVars, slotVars, breakerVars,
                serverVars, outside, CalmInv
  <2>2. Running' = Running /\ \A s \in Sessions : Dirty(s)' <=> Dirty(s)
      BY <2>1, DirtyKept DEF Running, sessionVars
  <2> QED BY <2>1, <2>2, CalmKept DEF CalmInv, PreparePhases
<1>2. CASE Restart
  <2>1. /\ phase' = "free" /\ isOpen' = FALSE /\ owner' = NoSession
        /\ UNCHANGED <<written, files>>
        /\ \A s \in Sessions : ~Dirty(s)'
      BY <1>2 DEF Restart, NewRuntime, Dirty
  <2> QED BY <2>1 DEF CalmInv, DirtyInSlot, OwnerDirty, PreparePhases
<1> QED BY <1>1, <1>2

\* The fourth invariant: the bookkeeping is right while only streams break.
THEOREM CalmInvariance == ASSUME OnlyStreamsBreak PROVE Spec => []CalmInv
<1>1. Init => CalmInv
    BY DEF Init, CalmInv, DirtyInSlot, OwnerDirty, PreparePhases, Dirty, NewRuntime
<1>2. IInv /\ HeldInv /\ OwnInv /\ CalmInv /\ [Next]_vars => CalmInv'
    BY CalmAfterCall, CalmAfterAdmission, CalmAfterSaving, CalmAfterPreparing,
       CalmAfterStreaming, CalmAfterRemoving, CalmAfterOthers DEF Next
<1>3. ServerAnswers
    BY NoFaults
<1> QED BY <1>1, <1>2, <1>3, Invariance, HeldInvariance, OwnInvariance, PTL DEF Spec

\* In any order of requests, checkpoints, restores, disposals and purges, with
\* streams that break and restarts of the host: the owner's conversation is in
\* the slot, and so is every turn that no snapshot covers.  The hypotheses are
\* needed: after a failed save or an open breaker the code gives the slot away
\* with unsaved turns, and an invalidation erases them.
THEOREM SlotBelieved == ASSUME OnlyStreamsBreak PROVE Spec => []SlotIsAsBelieved
<1>1. IInv /\ CalmInv => UnsavedIsInSlot
    BY DEF IInv, StateInv, CalmInv, DirtyInSlot, UnsavedIsInSlot
<1>2. ServerAnswers
    BY NoFaults
<1> QED BY <1>1, <1>2, Invariance, CalmInvariance, SlotIsOfOwner, PTL DEF SlotIsAsBelieved

------------------------------------------------------------------------------
(* What the snapshots are worth: a clean session's last turn is in its file, *)
(* and, with one model, a restore meets its own runtime key.                 *)

\* Every route leads to the same model.
OneModel == \A m, n \in Models : m = n

\* No stream breaks under another model than the one before it.
BrokenKeepsModel == OneModel \/ "abort" \notin Faults

\* What is still to be saved is in the slot, computed as it will be restored.
SlotTurns ==
    /\ OwnerDirty => cell.turns = turns[owner] /\ cell.key = runtimeKey
    /\ cell.session \in Sessions => cell.model \in Models
    /\ \A f \in written : files[f].model \in Models

\* Between the two steps of a save the file holds it.
FileTurns ==
    phase = "put" =>
        files[SavedFile].turns = turns[owner] /\ files[SavedFile].key = runtimeKey

CleanCovered ==
    \A s \in known :
        runtime[s].persistedRevision > 0 /\ ~Dirty(s)
            => \E m \in Models : Compatible(<<s, m>>) /\ files[<<s, m>>].turns = turns[s]

\* A manifest tells its file's key, across restarts with another one: whoever
\* gets the slot has first had its manifest of another key made invalid.
KeyInv ==
    OneModel /\ RestoreEnabled =>
        /\ \A f \in Snapshots : manifests[f].state = "ready" => files[f].key = manifests[f].key
        /\ owner # NoSession =>
              \A m \in Models : manifests[<<owner, m>>].state = "ready" => Compatible(<<owner, m>>)
        /\ phase = "erase" /\ manifests[WantedFile].state = "ready" => Compatible(WantedFile)

CoverInv == SlotTurns /\ FileTurns /\ CleanCovered /\ KeyInv

\* A step in which the sessions keep what covers them.
LEMMA CleanKept ==
    ASSUME CleanCovered, UNCHANGED <<runtimeKey, turns>>,
           \A s \in known' :
              runtime'[s].persistedRevision > 0 /\ ~Dirty(s)' =>
                 /\ s \in known /\ runtime[s].persistedRevision > 0 /\ ~Dirty(s)
                 /\ \A m \in Models :
                       Compatible(<<s, m>>) =>
                          /\ manifests'[<<s, m>>] = manifests[<<s, m>>]
                          /\ files'[<<s, m>>] = files[<<s, m>>]
    PROVE  CleanCovered'
BY DEF CleanCovered, Compatible

\* A step that leaves the server, the manifests and the turns alone.
LEMMA CoverKept ==
    ASSUME CoverInv, CleanCovered',
           UNCHANGED <<runtimeKey, manifests, cell, written, files, turns>>,
           owner' \in {owner, NoSession},
           OwnerDirty' => owner' = owner /\ OwnerDirty,
           phase' = "put" => phase = "put" /\ saving' = saving /\ owner' = owner,
           RestoreEnabled /\ phase' = "erase" => phase = "erase" /\ WantedFile' = WantedFile
    PROVE  CoverInv'
<1>1. SlotTurns'
    BY DEF CoverInv, SlotTurns
<1>2. FileTurns'
    BY DEF CoverInv, FileTurns, SavedFile
<1>3. KeyInv'
    BY DEF CoverInv, KeyInv, Compatible
<1> QED BY <1>1, <1>2, <1>3 DEF CoverInv

\* Calls and timers.
LEMMA CoverAfterCall ==
    ASSUME IInv, HeldInv, CoverInv, Arrival \/ IdleTimerFires \/ GraceExpires
    PROVE  CoverInv'
<1>1. /\ UNCHANGED <<saving, wanted, owner, runtimeKey, manifests, cell, written, files, turns>>
      /\ \/ phase' = phase /\ (phase # "free" => Running' = Running)
         \/ phase = "free" /\ phase' = "granted"
      /\ known' \subseteq Sessions
      /\ \A s \in Sessions :
            /\ runtime'[s].dirtyRevision = runtime[s].dirtyRevision
            /\ runtime'[s].persistedRevision = runtime[s].persistedRevision
    BY CallFacts DEF HeldInv, slotVars, breakerVars, serverVars
<1>2. \A s \in Sessions : Dirty(s)' <=> Dirty(s)
    BY <1>1, DirtyKept
<1>3. \A s \in Sessions : runtime[s].persistedRevision > 0 => s \in known
    BY DEF HeldInv, RevisionInv, IInv, StateInv, Runtimes
<1>4. CleanCovered'
    BY <1>1, <1>2, <1>3, CleanKept DEF CoverInv
<1>5. OwnerDirty' => OwnerDirty
    BY <1>1, <1>2 DEF OwnerDirty
<1>6. phase' = "erase" => phase = "erase" /\ WantedFile' = WantedFile
    BY <1>1 DEF WantedFile
<1> QED BY <1>1, <1>4, <1>5, <1>6, CoverKept

\* From the lease to the first await nobody gets the slot and nobody gets dirty.
LEMMA AdmissionGives ==
    ASSUME IInv, Admission
    PROVE  /\ UNCHANGED <<runtimeKey, manifests, cell, written, files, turns>>
           /\ phase' # "put" /\ (RestoreEnabled => phase' # "erase")
           /\ owner' \in {owner, NoSession}
           /\ \A s \in known' : s \in known /\ runtime'[s] = runtime[s]
           /\ \A s \in Sessions : Dirty(s)' => Dirty(s)
<1>0. UNCHANGED <<runtimeKey, manifests, cell, written, files, turns>>
    BY DEF Admission, outside, serverVars
<1>1. Release => phase' \in {"free", "granted"}
    BY DEF Release
<1>2. ASSUME UNCHANGED sessionVars
      PROVE  /\ \A s \in known' : s \in known /\ runtime'[s] = runtime[s]
             /\ \A s \in Sessions : Dirty(s)' => Dirty(s)
    BY <1>2, DirtyKept DEF sessionVars
<1>3. ASSUME NEW m, Prepare(Running.session, m)
      PROVE  phase' # "put" /\ (RestoreEnabled => phase' # "erase") /\ owner' = owner
    BY <1>1, <1>3 DEF Prepare, EndPreparation, GoTo, BeginSave, LookUp, slotVars
<1>4. ASSUME phase # "free", Running.kind = "disposed", EndSession
      PROVE  /\ phase' \in {"free", "granted"}
             /\ owner' \in {owner, NoSession}
             /\ \A s \in known' : s \in known /\ runtime'[s] = runtime[s]
             /\ \A s \in Sessions : Dirty(s)' => Dirty(s)
  <2>1. Running.session \in Sessions /\ runtime \in [Sessions -> Runtimes]
        /\ known \subseteq Sessions
      BY <1>4, RunningIsLeased DEF IInv, StateInv
  <2>2. /\ known' = known \ {Running.session}
        /\ runtime' = [runtime EXCEPT ![Running.session] = NewRuntime(AnyModel)]
      BY <1>4 DEF EndSession, Forget
  <2>3. \A s \in Sessions \ {Running.session} : runtime'[s] = runtime[s]
      BY <2>1, <2>2
  <2>4. \A s \in Sessions : s = Running.session => ~Dirty(s)'
      BY <2>1, <2>2 DEF Dirty, NewRuntime
  <2>5. \A s \in Sessions : Dirty(s)' => Dirty(s)
      BY <2>3, <2>4 DEF Dirty
  <2>6. phase' \in {"free", "granted"} /\ owner' \in {owner, NoSession}
      BY <1>1, <1>4 DEF EndSession, ClearOwner, slotVars
  <2> QED BY <2>1, <2>2, <2>3, <2>5, <2>6
<1>5. CASE RefuseRequest \/ BypassRequest \/ LoseRequest
    BY <1>0, <1>1, <1>2, <1>5
    DEF RefuseRequest, BypassRequest, LoseRequest, GoTo, LoseSlotTracking, slotVars
<1>6. CASE AdmitRequest
    BY <1>0, <1>2, <1>3, <1>6 DEF AdmitRequest
<1>7. CASE AdmitRestoreNow
    BY <1>0, <1>1, <1>2, <1>3, <1>7 DEF AdmitRestoreNow, slotVars
<1>8. CASE AdmitAuxiliary
    BY <1>0, <1>2, <1>8 DEF AdmitAuxiliary, GoTo, BeginSave, ClearOwner, slotVars
<1>9. CASE AdmitCheckpoint
    BY <1>0, <1>1, <1>2, <1>9 DEF AdmitCheckpoint, BeginSave, EndCheckpoint, slotVars
<1>10. CASE AdmitDisposed
  <2>1. CASE BeginSave(owner) /\ UNCHANGED sessionVars
      BY <1>0, <1>2, <2>1 DEF BeginSave
  <2>2. CASE EndSession
      BY <1>0, <1>4, <1>10, <2>2 DEF AdmitDisposed, Granted
  <2> QED BY <1>10, <2>1, <2>2 DEF AdmitDisposed
<1>11. CASE AdmitRemoval
    BY <1>0, <1>2, <1>11 DEF AdmitRemoval, GoTo, slotVars
<1>12. CASE ResumePrepare
    BY <1>0, <1>2, <1>12 DEF ResumePrepare, GoTo, LookUp, slotVars
<1>13. CASE ResumeAuxiliary
    BY <1>0, <1>2, <1>13 DEF ResumeAuxiliary, GoTo, ClearOwner
<1>14. CASE ResumeDisposed
    BY <1>0, <1>4, <1>14 DEF ResumeDisposed
<1>15. CASE ResumeCheckpoint
    BY <1>0, <1>1, <1>2, <1>15 DEF ResumeCheckpoint, EndCheckpoint, slotVars
<1> QED BY <1>5, <1>6, <1>7, <1>8, <1>9, <1>10, <1>11, <1>12, <1>13, <1>14, <1>15
        DEF Admission

LEMMA CoverAfterAdmission ==
    ASSUME IInv, CoverInv, Admission PROVE CoverInv'
<1>1. CleanCovered'
  <2>1. \A s \in known' : ~Dirty(s)' => ~Dirty(s)
      BY AdmissionGives DEF Dirty
  <2> QED BY <2>1, AdmissionGives, CleanKept DEF CoverInv
<1>2. OwnerDirty' => owner' = owner /\ OwnerDirty
    BY AdmissionGives, ConstantsAssumption DEF OwnerDirty
<1> QED BY <1>1, <1>2, AdmissionGives, CoverKept

\* The save writes the turns it marks as saved.
LEMMA CoverAfterSaving ==
    ASSUME OnlyStreamsBreak, IInv, HeldInv, CalmInv, CoverInv, Saving
    PROVE  CoverInv'
<1>0. /\ phase \in {"save", "put"}
      /\ UNCHANGED <<owner, cell, known, runtimeKey, turns>>
      /\ owner = saving.session /\ owner \in Sessions /\ Dirty(owner) /\ owner \in known
      /\ saving.generation = runtime[owner].dirtyRevision
      /\ SavedFile = <<owner, saving.model>> /\ saving.model \in Models
      /\ SavedFile \in Snapshots
      /\ cell.session = owner /\ cell.turns = turns[owner] /\ cell.key = runtimeKey
      /\ written \subseteq Snapshots /\ files \in [Snapshots -> Contents]
      /\ manifests \in [Snapshots -> Manifests] /\ runtime \in [Sessions -> Runtimes]
  <2>1. phase \in {"save", "put"} /\ UNCHANGED <<owner, cell, known, runtimeKey, turns>>
      BY NoFaults DEF Saving, SaveSlotReturns, PutReturns, SaveFails, lifeVars
  <2>2. /\ owner = saving.session /\ saving.generation = runtime[owner].dirtyRevision
        /\ saving.model \in Models /\ owner \in known
      BY <2>1 DEF IInv, SaveInv, SaveCoversOwner
  <2>3. OwnerDirty /\ cell.session = owner
      BY <2>1 DEF CalmInv
  <2>4. cell.turns = turns[owner] /\ cell.key = runtimeKey
      BY <2>3 DEF CoverInv, SlotTurns
  <2> QED BY <2>1, <2>2, <2>3, <2>4 DEF OwnerDirty, SavedFile, Snapshots, IInv, ServerInv, StateInv
<1>1. CASE SaveSlotReturns
  <2>1. /\ phase' = "put" /\ SavedFile' = SavedFile /\ UNCHANGED <<runtime, manifests>>
        /\ written' = written \union {SavedFile}
        /\ files' = [files EXCEPT ![SavedFile] = cell]
      BY <1>1 DEF SaveSlotReturns, GoTo, SavedFile
  <2>2. files'[SavedFile] = cell /\ \A f \in Snapshots \ {SavedFile} : files'[f] = files[f]
      BY <1>0, <2>1
  <2>3. \A s \in Sessions : Dirty(s)' <=> Dirty(s)
      BY <2>1, DirtyKept
  <2>4. SlotTurns'
    <3>1. cell.model \in Models
        BY <1>0 DEF CoverInv, SlotTurns
    <3>2. \A f \in written' : files'[f].model \in Models
        BY <1>0, <2>1, <2>2, <3>1 DEF CoverInv, SlotTurns
    <3> QED BY <1>0, <3>1, <3>2 DEF SlotTurns
  <2>5. FileTurns'
      BY <1>0, <2>1, <2>2 DEF FileTurns
  <2>6. CleanCovered'
    <3>1. \A s \in known, m \in Models : ~Dirty(s) => files'[<<s, m>>] = files[<<s, m>>]
        BY <1>0, <2>2 DEF IInv, StateInv, Snapshots
    <3> QED BY <1>0, <2>1, <2>3, <3>1, CleanKept DEF CoverInv, IInv, StateInv
  <2>7. KeyInv'
    <3> SUFFICES ASSUME OneModel, RestoreEnabled PROVE KeyInv'
        BY DEF KeyInv
    <3>1. manifests[SavedFile].state = "ready" => manifests[SavedFile].key = runtimeKey
        BY <1>0, ConstantsAssumption DEF CoverInv, KeyInv, Compatible
    <3>2. \A f \in Snapshots :
              manifests'[f].state = "ready" => files'[f].key = manifests'[f].key
        BY <1>0, <2>1, <2>2, <3>1 DEF CoverInv, KeyInv
    <3> QED BY <1>0, <2>1, <3>2 DEF CoverInv, KeyInv, Compatible
  <2> QED BY <2>4, <2>5, <2>6, <2>7 DEF CoverInv
<1>2. CASE PutReturns
  <2>1. /\ phase' = "saved" /\ UNCHANGED <<written, files>> /\ phase = "put"
        /\ manifests' = [manifests EXCEPT ![SavedFile] =
                            [state |-> "ready", key |-> runtimeKey]]
        /\ runtime' = [runtime EXCEPT ![owner].persistedRevision =
                          IF @ < saving.generation THEN saving.generation ELSE @]
      BY <1>0, <1>2 DEF PutReturns, GoTo
  <2>2. /\ manifests'[SavedFile] = [state |-> "ready", key |-> runtimeKey]
        /\ \A f \in Snapshots \ {SavedFile} : manifests'[f] = manifests[f]
      BY <1>0, <2>1
  <2>3. files[SavedFile].turns = turns[owner] /\ files[SavedFile].key = runtimeKey
      BY <2>1 DEF CoverInv, FileTurns
  <2>4. \A s \in Sessions \ {owner} :
            /\ runtime'[s] = runtime[s]
            /\ \A m \in Models : manifests'[<<s, m>>] = manifests[<<s, m>>]
      BY <1>0, <2>1, <2>2 DEF Snapshots
  <2>5. CleanCovered'
    <3> SUFFICES ASSUME NEW s \in known', runtime'[s].persistedRevision > 0, ~Dirty(s)'
                 PROVE  \E m \in Models :
                           Compatible(<<s, m>>)' /\ files'[<<s, m>>].turns = turns'[s]
        BY DEF CleanCovered
    <3>1. CASE s = owner
        BY <1>0, <2>1, <2>2, <2>3, <3>1 DEF Compatible
    <3>2. CASE s # owner
      <4>1. s \in known /\ s \in Sessions /\ runtime[s].persistedRevision > 0 /\ ~Dirty(s)
          BY <1>0, <2>4, <3>2 DEF Dirty, IInv, StateInv
      <4>2. PICK m \in Models : Compatible(<<s, m>>) /\ files[<<s, m>>].turns = turns[s]
          BY <4>1 DEF CoverInv, CleanCovered
      <4>3. manifests'[<<s, m>>] = manifests[<<s, m>>]
          BY <2>4, <3>2, <4>1
      <4> QED BY <1>0, <2>1, <4>2, <4>3 DEF Compatible
    <3> QED BY <3>1, <3>2
  <2>6. SlotTurns'
      BY <1>0, <2>1 DEF CoverInv, SlotTurns
  <2>7. KeyInv'
    <3> SUFFICES ASSUME OneModel, RestoreEnabled PROVE KeyInv'
        BY DEF KeyInv
    <3>1. \A f \in Snapshots :
              manifests'[f].state = "ready" => files'[f].key = manifests'[f].key
        BY <2>1, <2>2, <2>3 DEF CoverInv, KeyInv
    <3>2. \A m \in Models :
              manifests'[<<owner, m>>].state = "ready" => Compatible(<<owner, m>>)'
      <4> SUFFICES ASSUME NEW m \in Models, manifests'[<<owner, m>>].state = "ready"
                   PROVE  Compatible(<<owner, m>>)'
          BY <1>0
      <4>1. <<owner, m>> \in Snapshots
          BY <1>0 DEF Snapshots
      <4>2. CASE <<owner, m>> = SavedFile
          BY <1>0, <2>2, <4>2 DEF Compatible
      <4>3. CASE <<owner, m>> # SavedFile
          BY <1>0, <2>2, <4>1, <4>3, ConstantsAssumption DEF CoverInv, KeyInv, Compatible
      <4> QED BY <4>2, <4>3
    <3> QED BY <1>0, <2>1, <3>1, <3>2 DEF KeyInv
  <2> QED BY <2>1, <2>5, <2>6, <2>7 DEF CoverInv, FileTurns
<1>3. ~SaveFails
    BY NoFaults DEF SaveFails
<1> QED BY <1>1, <1>2, <1>3 DEF Saving

\* Finding, restoring and erasing: a clean session's manifest is compatible, so
\* it is not flipped, and the one of another key is, before the slot is given.
LEMMA CoverAfterPreparing ==
    ASSUME OnlyStreamsBreak, IInv, HeldInv, CalmInv, CoverInv, Preparing
    PROVE  CoverInv'
<1>0. /\ phase \in PreparePhases \ {"markInvalid", "eraseFallback"}
      /\ UNCHANGED <<known, runtime, runtimeKey, written, files, turns>>
      /\ Running.session \in Sessions /\ wanted \in Models /\ WantedFile \in Snapshots
      /\ WantedFile = <<Running.session, wanted>>
      /\ manifests \in [Snapshots -> Manifests] /\ known \subseteq Sessions
      /\ \A s \in Sessions : Dirty(s)' <=> Dirty(s)
      /\ \A s \in Sessions : ~Dirty(s)'
  <2>1. /\ phase \in PreparePhases \ {"markInvalid", "eraseFallback"}
        /\ UNCHANGED <<known, runtime, runtimeKey, written, files, turns>>
      BY DEF Preparing, FindsSnapshot, FindsNone, RestoreReturns, RestoreFails,
             MarkInvalidReturns, EraseReturns, EraseFallbackReturns, PreparePhases,
             sessionVars, lifeVars, CalmInv
  <2>2. wanted \in Models /\ Running.session \in Sessions
      BY <2>1, RunningIsLeased DEF IInv, HolderInv, HeadFits, PreparePhases
  <2>3. \A s \in Sessions : ~Dirty(s)
      BY <2>1 DEF CalmInv, DirtyInSlot, OwnerDirty, PreparePhases
  <2>4. \A s \in Sessions : Dirty(s)' <=> Dirty(s)
      BY <2>1, DirtyKept
  <2> QED BY <2>1, <2>2, <2>3, <2>4 DEF WantedFile, Snapshots, IInv, ServerInv, StateInv
<1>1. ASSUME UNCHANGED manifests PROVE CleanCovered'
    BY <1>0, <1>1, CleanKept DEF CoverInv
<1>2. ASSUME cell'.session \in Sessions => cell'.model \in Models PROVE SlotTurns'
    BY <1>0, <1>2 DEF CoverInv, SlotTurns, OwnerDirty
<1>3. ASSUME NEW state, EndPreparation(state), owner' = Running.session, UNCHANGED manifests,
             OneModel /\ RestoreEnabled /\ manifests[WantedFile].state = "ready"
                => Compatible(WantedFile)
      PROVE  FileTurns' /\ KeyInv'
  <2>1. phase' \in {"stream", "free", "granted"}
      BY <1>3 DEF EndPreparation, GoTo, Release
  <2>2. ASSUME OneModel, RestoreEnabled, NEW m \in Models,
               manifests[<<owner', m>>].state = "ready"
        PROVE  Compatible(<<owner', m>>)
    <3>1. <<owner', m>> = WantedFile
        BY <1>0, <1>3, <2>2 DEF OneModel
    <3> QED BY <1>3, <2>2, <3>1
  <2>3. KeyInv'
      BY <1>0, <1>3, <2>1, <2>2 DEF CoverInv, KeyInv, Compatible
  <2> QED BY <2>1, <2>3 DEF FileTurns
<1>4. CASE FindsSnapshot
  <2>1. phase' = "restore" /\ UNCHANGED <<owner, manifests, cell>>
      BY <1>4 DEF FindsSnapshot, GoTo
  <2>2. SlotTurns'
      BY <1>2, <2>1 DEF CoverInv, SlotTurns
  <2>3. FileTurns' /\ KeyInv'
      BY <1>0, <2>1 DEF CoverInv, FileTurns, KeyInv, Compatible
  <2> QED BY <1>1, <2>1, <2>2, <2>3 DEF CoverInv
<1>5. CASE FindsNone
  <2>1. /\ phase' = "erase" /\ WantedFile' = WantedFile /\ UNCHANGED <<owner, cell>>
        /\ ~Compatible(WantedFile)
        /\ manifests' = IF manifests[WantedFile].state = "ready"
                        THEN [manifests EXCEPT ![WantedFile].state = "invalid"]
                        ELSE manifests
      BY <1>5, NoFaults DEF FindsNone, GoTo, slotVars, WantedFile, Running
  <2>2. /\ \A f \in Snapshots \ {WantedFile} : manifests'[f] = manifests[f]
        /\ manifests'[WantedFile].state # "ready"
      BY <1>0, <2>1 DEF Manifests
  <2>3. SlotTurns'
      BY <1>2, <2>1 DEF CoverInv, SlotTurns
  <2>4. CleanCovered'
    <3>1. \A s \in known, m \in Models :
              Compatible(<<s, m>>) => manifests'[<<s, m>>] = manifests[<<s, m>>]
        BY <1>0, <2>1, <2>2 DEF Snapshots
    <3> QED BY <1>0, <3>1, CleanKept DEF CoverInv
  <2>5. KeyInv'
    <3> SUFFICES ASSUME OneModel, RestoreEnabled PROVE KeyInv'
        BY DEF KeyInv
    <3>1. \A f \in Snapshots :
              manifests'[f].state = "ready" =>
                  manifests'[f] = manifests[f] /\ f # WantedFile
        BY <2>2
    <3>2. ASSUME owner # NoSession, NEW m \in Models, manifests'[<<owner, m>>].state = "ready"
          PROVE  Compatible(<<owner, m>>)'
      <4>1. <<owner, m>> \in Snapshots
          BY <3>2 DEF IInv, StateInv, Snapshots
      <4>2. manifests'[<<owner, m>>] = manifests[<<owner, m>>]
          BY <3>1, <3>2, <4>1
      <4>3. Compatible(<<owner, m>>)
          BY <3>2, <4>2 DEF CoverInv, KeyInv
      <4> QED BY <1>0, <2>1, <4>2, <4>3 DEF Compatible
    <3>3. \A f \in Snapshots : manifests'[f].state = "ready" => files'[f].key = manifests'[f].key
        BY <1>0, <3>1 DEF CoverInv, KeyInv
    <3> QED BY <2>1, <2>2, <3>2, <3>3 DEF KeyInv
  <2> QED BY <2>1, <2>3, <2>4, <2>5 DEF CoverInv, FileTurns
<1>6. CASE RestoreReturns
  <2>1. /\ UNCHANGED manifests /\ cell' = files[WantedFile] /\ WantedFile \in written
        /\ owner' = Running.session /\ EndPreparation("ready") /\ phase = "restore"
      BY <1>6 DEF RestoreReturns, Restorable
  <2>2. Compatible(WantedFile)
      BY <2>1 DEF HeldInv, OwnerInv
  <2>3. cell'.model \in Models
      BY <2>1 DEF CoverInv, SlotTurns
  <2> QED BY <1>1, <1>2, <1>3, <2>1, <2>2, <2>3 DEF CoverInv
<1>7. ~RestoreFails
    BY <1>0, CalmAfterPreparing DEF RestoreFails, CalmInv, GoTo
<1>8. CASE EraseReturns
  <2>1. /\ UNCHANGED manifests /\ cell' = EmptyKv /\ phase = "erase"
        /\ owner' = Running.session /\ EndPreparation("idle")
      BY <1>8, NoFaults, EraseErases DEF EraseReturns
  <2>2. OneModel /\ RestoreEnabled /\ manifests[WantedFile].state = "ready"
            => Compatible(WantedFile)
      BY <2>1 DEF CoverInv, KeyInv
  <2>3. cell'.session \notin Sessions
      BY <2>1, KvSessions, ConstantsAssumption
  <2> QED BY <1>1, <1>2, <1>3, <2>1, <2>2, <2>3 DEF CoverInv
<1> QED BY <1>0, <1>4, <1>5, <1>6, <1>7, <1>8
        DEF Preparing, MarkInvalidReturns, EraseFallbackReturns

\* A completed turn is in the slot as a whole, and a broken one takes nothing
\* that was there.
LEMMA CoverAfterStreaming ==
    ASSUME BrokenKeepsModel, IInv, HeldInv, CalmInv, CoverInv, Streaming
    PROVE  CoverInv'
<1>0. /\ phase = "stream"
      /\ UNCHANGED <<known, owner, runtimeKey, manifests, written, files>>
      /\ phase' \in {"free", "granted"}
      /\ runtime \in [Sessions -> Runtimes] /\ turns \in [Sessions -> Nat]
      /\ known \subseteq Sessions
    BY DEF Streaming, AuxiliaryStreamSucceeds, StreamSucceeds, StreamFails, Release,
           IInv, StateInv
<1>1. FileTurns' /\ KeyInv'
    BY <1>0 DEF CoverInv, FileTurns, KeyInv, Compatible
<1>2. Running.kind = "request" => Running.model \in Models /\ Running.session \in Sessions
    BY <1>0, RunningIsLeased DEF IInv, LeasedOperations
<1>3. CASE StreamSucceeds
  <2>1. /\ owner = Running.session /\ Running.kind = "request"
        /\ cell' = ConversationKv(turns[owner] + 1)
        /\ turns' = [turns EXCEPT ![owner] = @ + 1]
        /\ runtime' = IF owner \in known
                      THEN [runtime EXCEPT ![owner].dirtyRevision = @ + 1] ELSE runtime
      BY <1>0, <1>3 DEF StreamSucceeds, CalmInv
  <2>2. \A s \in Sessions \ {owner} : runtime'[s] = runtime[s] /\ turns'[s] = turns[s]
      BY <1>0, <2>1
  <2>3. SlotTurns'
    <3>1. turns'[owner] = turns[owner] + 1
        BY <1>0, <1>2, <2>1
    <3>2. /\ cell'.turns = turns[owner] + 1 /\ cell'.key = runtimeKey
          /\ cell'.model \in Models
        BY <1>2, <2>1 DEF ConversationKv
    <3> QED BY <1>0, <3>1, <3>2 DEF CoverInv, SlotTurns
  <2>4. CleanCovered'
    <3>1. owner \in known => Dirty(owner)'
      <4>1. owner \in known =>
              /\ runtime'[owner].dirtyRevision = runtime[owner].dirtyRevision + 1
              /\ runtime'[owner].persistedRevision = runtime[owner].persistedRevision
              /\ runtime[owner].dirtyRevision \in Nat
              /\ runtime[owner].persistedRevision \in Nat
          BY <1>0, <1>2, <2>1 DEF Runtimes
      <4>2. runtime[owner].persistedRevision <= runtime[owner].dirtyRevision
          BY <1>2, <2>1 DEF HeldInv, RevisionInv
      <4> QED BY <1>0, <4>1, <4>2 DEF Dirty
    <3> SUFFICES ASSUME NEW s \in known', runtime'[s].persistedRevision > 0, ~Dirty(s)'
                 PROVE  \E m \in Models :
                           Compatible(<<s, m>>)' /\ files'[<<s, m>>].turns = turns'[s]
        BY DEF CleanCovered
    <3>2. s # owner /\ s \in known /\ s \in Sessions
        BY <1>0, <3>1
    <3>3. runtime[s].persistedRevision > 0 /\ ~Dirty(s)
        BY <2>2, <3>2 DEF Dirty
    <3>4. PICK m \in Models : Compatible(<<s, m>>) /\ files[<<s, m>>].turns = turns[s]
        BY <3>2, <3>3 DEF CoverInv, CleanCovered
    <3> QED BY <1>0, <2>2, <3>2, <3>4 DEF Compatible
  <2> QED BY <1>1, <2>3, <2>4 DEF CoverInv
<1>4. CASE AuxiliaryStreamSucceeds \/ StreamFails
  <2>0. UNCHANGED <<runtime, turns>>
      BY <1>4 DEF AuxiliaryStreamSucceeds, StreamFails
  <2>1. \A s \in Sessions : Dirty(s)' <=> Dirty(s)
      BY <2>0, DirtyKept
  <2>2. CleanCovered'
      BY <1>0, <2>0, <2>1, CleanKept DEF CoverInv
  <2>3. OwnerDirty' => OwnerDirty
      BY <1>0, <2>1 DEF OwnerDirty
  <2>4. OwnerDirty =>
          /\ Running.kind = "request" /\ owner = Running.session /\ cell.session = owner
          /\ cell.turns = turns[owner] /\ cell.key = runtimeKey
      BY <1>0, ConstantsAssumption
      DEF HeldInv, OwnerInv, OwnerDirty, CalmInv, CoverInv, SlotTurns
  <2>5. /\ OwnerDirty => cell'.turns = turns[owner] /\ cell'.key = runtimeKey
        /\ cell'.session \in Sessions => cell'.model \in Models
    <3>1. CASE cell' = AuxiliaryKv /\ Running.kind = "auxiliary"
        BY <2>4, <3>1, KvSessions, ConstantsAssumption
    <3>2. CASE cell' = cell
        BY <2>4, <3>2 DEF CoverInv, SlotTurns
    <3>3. CASE StreamFails /\ cell' = PartialKv /\ Running.kind = "request"
      <4>1. cell'.model \in Models /\ cell'.key = runtimeKey
          BY <1>2, <3>3 DEF PartialKv, ConversationKv
      <4>2. OwnerDirty => cell.model = Running.model
        <5>1. OneModel
            BY <3>3 DEF BrokenKeepsModel, StreamFails
        <5> QED BY <1>2, <2>4, <5>1 DEF CoverInv, SlotTurns, OneModel, OwnerDirty
      <4>3. OwnerDirty => cell'.turns = turns[owner]
          BY <2>4, <3>3, <4>2 DEF PartialKv, ConversationKv
      <4> QED BY <4>1, <4>3
    <3> QED BY <1>0, <1>4, <3>1, <3>2, <3>3
            DEF AuxiliaryStreamSucceeds, StreamFails, PartialKv, IInv, HolderInv, HeadFits
  <2> QED BY <1>0, <1>1, <2>0, <2>2, <2>3, <2>5 DEF CoverInv, SlotTurns
<1> QED BY <1>3, <1>4 DEF Streaming

\* A purge removes only what covers the session it forgets.
LEMMA CoverAfterRemoving ==
    ASSUME OnlyStreamsBreak, IInv, HeldInv, CalmInv, CoverInv, Removing
    PROVE  CoverInv'
<1>0. /\ phase \in {"eraseOwned", "manifests"}
      /\ UNCHANGED <<runtimeKey, written, files, turns>>
      /\ Running.kind = "purge" /\ Running.session \in Sessions
      /\ manifests \in [Snapshots -> Manifests] /\ known \subseteq Sessions
      /\ runtime \in [Sessions -> Runtimes] /\ owner \in Sessions \union {NoSession}
  <2>1. phase \in {"eraseOwned", "manifests"} /\ UNCHANGED <<runtimeKey, written, files, turns>>
      BY DEF Removing, EraseOwnedReturns, ManifestsReturn, ManifestsFail, lifeVars
  <2>2. Running.kind = "purge" /\ Running.session \in Sessions
      BY <2>1, NoFaults, RunningIsLeased DEF IInv, HolderInv, HeadFits
  <2> QED BY <2>1, <2>2 DEF IInv, ServerInv, StateInv
<1>1. CASE EraseOwnedReturns
  <2>1. /\ phase' = "manifests" /\ owner' = NoSession /\ cell' = EmptyKv
        /\ UNCHANGED <<known, runtime, manifests>>
      BY <1>1, NoFaults, EraseErases DEF EraseOwnedReturns, GoTo, ClearOwner, sessionVars
  <2>2. SlotTurns'
      BY <1>0, <2>1, KvSessions, ConstantsAssumption DEF CoverInv, SlotTurns, OwnerDirty
  <2>3. CleanCovered'
      BY <1>0, <2>1, CleanKept DEF CoverInv, Dirty
  <2>4. KeyInv'
      BY <1>0, <2>1 DEF CoverInv, KeyInv
  <2> QED BY <2>1, <2>2, <2>3, <2>4 DEF CoverInv, FileTurns
<1>2. CASE ManifestsReturn
  <2>1. /\ phase' \in {"free", "granted"} /\ UNCHANGED <<owner, cell>>
        /\ known' = known \ {Running.session}
        /\ runtime' = [runtime EXCEPT ![Running.session] = NewRuntime(AnyModel)]
      BY <1>0, <1>2 DEF ManifestsReturn, Release, Forget, slotVars
  <2>2. \A f \in Snapshots :
            \/ manifests'[f] = manifests[f]
            \/ f[1] = Running.session /\ manifests'[f].state # "ready"
      BY <1>0, <1>2 DEF ManifestsReturn, Removed, SessionSnapshots, NoManifest
  <2>3. \A s \in Sessions \ {Running.session} : runtime'[s] = runtime[s]
      BY <1>0, <2>1
  <2>4. OwnerDirty' => OwnerDirty
      BY <1>0, <2>1, <2>3 DEF OwnerDirty, Dirty, NewRuntime
  <2>5. SlotTurns'
      BY <1>0, <2>1, <2>4 DEF CoverInv, SlotTurns
  <2>6. CleanCovered'
    <3>1. ASSUME NEW s \in known', NEW m \in Models
          PROVE  manifests'[<<s, m>>] = manifests[<<s, m>>]
      <4>1. s \in Sessions /\ s # Running.session /\ <<s, m>> \in Snapshots
          BY <1>0, <2>1, <3>1 DEF Snapshots
      <4> QED BY <2>2, <4>1
    <3>2. \A s \in known' : s \in known /\ (Dirty(s)' <=> Dirty(s)) /\ runtime'[s] = runtime[s]
        BY <1>0, <2>1, <2>3 DEF Dirty
    <3> QED BY <1>0, <3>1, <3>2, CleanKept DEF CoverInv
  <2>7. KeyInv'
    <3> SUFFICES ASSUME OneModel, RestoreEnabled PROVE KeyInv'
        BY DEF KeyInv
    <3>1. \A f \in Snapshots :
              manifests'[f].state = "ready" => manifests'[f] = manifests[f]
        BY <2>2
    <3>2. ASSUME owner # NoSession, NEW m \in Models, manifests'[<<owner, m>>].state = "ready"
          PROVE  Compatible(<<owner, m>>)'
      <4>1. manifests'[<<owner, m>>] = manifests[<<owner, m>>]
          BY <1>0, <3>1, <3>2 DEF Snapshots
      <4>2. Compatible(<<owner, m>>)
          BY <3>2, <4>1 DEF CoverInv, KeyInv
      <4> QED BY <1>0, <2>1, <4>1, <4>2 DEF Compatible
    <3>3. \A f \in Snapshots : manifests'[f].state = "ready" => files'[f].key = manifests'[f].key
        BY <1>0, <3>1 DEF CoverInv, KeyInv
    <3> QED BY <2>1, <3>2, <3>3 DEF KeyInv
  <2> QED BY <2>1, <2>5, <2>6, <2>7 DEF CoverInv, FileTurns
<1>3. ~ManifestsFail
    BY NoFaults DEF ManifestsFail
<1> QED BY <1>1, <1>2, <1>3 DEF Removing

\* The probe, a restart with any runtime key, or nothing.
LEMMA CoverAfterOthers ==
    ASSUME OnlyStreamsBreak, IInv, OwnInv, CalmInv, CoverInv,
           Beside \/ Restart \/ UNCHANGED vars
    PROVE  CoverInv'
<1>1. CASE Beside \/ UNCHANGED vars
  <2>1. UNCHANGED <<line, phase, saving, wanted, known, runtime, owner, runtimeKey, manifests,
                    cell, written, files, turns>>
    <3>1. ~CooldownExpires /\ ~LateOperation /\ ~ServerRestarts
        BY NoFaults DEF CooldownExpires, LateOperation, ServerRestarts, CalmInv, OwnInv
    <3> QED BY <1>1, <3>1
            DEF Beside, ProbeSucceeds, vars, holderVars, sessionVars, slotVars, lifeVars,
                serverVars, outside
  <2>2. CleanCovered'
      BY <2>1, CleanKept DEF CoverInv, Dirty
  <2>3. WantedFile' = WantedFile /\ (OwnerDirty' <=> OwnerDirty)
      BY <2>1 DEF WantedFile, Running, OwnerDirty, Dirty
  <2> QED BY <2>1, <2>2, <2>3, CoverKept
<1>2. CASE Restart
  <2>1. /\ phase' = "free" /\ owner' = NoSession /\ known' = {}
        /\ UNCHANGED <<manifests, cell, written, files>>
      BY <1>2 DEF Restart
  <2> QED BY <2>1, ConstantsAssumption
          DEF CoverInv, SlotTurns, FileTurns, CleanCovered, KeyInv, OwnerDirty
<1> QED BY <1>1, <1>2

\* The fifth invariant: what the snapshots are worth.
THEOREM CoverInvariance ==
    ASSUME OnlyStreamsBreak, BrokenKeepsModel PROVE Spec => []CoverInv
<1>1. Init => CoverInv
    BY ConstantsAssumption
    DEF Init, CoverInv, SlotTurns, FileTurns, CleanCovered, KeyInv, OwnerDirty, EmptyKv,
        NoManifest
<1>2. IInv /\ HeldInv /\ OwnInv /\ CalmInv /\ CoverInv /\ [Next]_vars => CoverInv'
    BY CoverAfterCall, CoverAfterAdmission, CoverAfterSaving, CoverAfterPreparing,
       CoverAfterStreaming, CoverAfterRemoving, CoverAfterOthers DEF Next
<1>3. ServerAnswers
    BY NoFaults
<1> QED BY <1>1, <1>2, <1>3, Invariance, HeldInvariance, OwnInvariance, CalmInvariance, PTL
        DEF Spec

\* A session without unsaved turns has a ready snapshot with its last completed
\* turn, whatever was aborted, restored, purged or restarted between.
\* With two models and broken streams, an aborted request of the other model cuts
\* the slot's turns before they are saved (BrokenKeepsModel).
THEOREM Covered ==
    ASSUME OnlyStreamsBreak, BrokenKeepsModel PROVE Spec => []PersistedIsCovered
<1>1. ASSUME CleanCovered, NEW s \in known, runtime[s].persistedRevision > 0, ~Dirty(s)
      PROVE  \E m \in Models : /\ manifests[<<s, m>>].state = "ready"
                               /\ files[<<s, m>>].turns = turns[s]
  <2>1. PICK m \in Models : Compatible(<<s, m>>) /\ files[<<s, m>>].turns = turns[s]
      BY <1>1 DEF CleanCovered
  <2>2. manifests[<<s, m>>].state = "ready"
      BY <2>1 DEF Compatible
  <2> QED BY <2>1, <2>2
<1>2. CoverInv => PersistedIsCovered
    BY <1>1 DEF CoverInv, PersistedIsCovered
<1> QED BY <1>2, CoverInvariance, PTL

\* What a restore puts in the slot was computed under the runtime key of this
\* process, also after restarts with other keys: design.md, Invariant 4, which
\* the code keeps while all routes lead to one model.
THEOREM OwnRuntime == ASSUME OnlyStreamsBreak, OneModel PROVE Spec => RestoresOwnRuntime
<1>1. IInv /\ HeldInv /\ OwnInv /\ CalmInv /\ CoverInv /\ [Next]_vars =>
        [phase = "restore" /\ cell' # cell /\ owner' = Running.session
            => cell'.model = wanted /\ cell'.key = runtimeKey]_vars
  <2> SUFFICES ASSUME IInv, HeldInv, OwnInv, CalmInv, CoverInv, [Next]_vars,
                      phase = "restore", cell' # cell, owner' = Running.session
               PROVE  cell'.model = wanted /\ cell'.key = runtimeKey
      OBVIOUS
  <2>1. RestoreReturns
    <3>1. ~Arrival /\ ~IdleTimerFires /\ ~GraceExpires /\ ~Admission /\ ~Saving
          /\ ~Streaming /\ ~Removing /\ ~Restart /\ ~UNCHANGED vars
        BY CallFacts, AdmissionGives
        DEF serverVars, HeldInv, Saving, Streaming, AuxiliaryStreamSucceeds, StreamSucceeds,
            StreamFails, Removing, EraseOwnedReturns, ManifestsReturn, ManifestsFail, Restart,
            vars, outside
    <3>2. ~Beside
        BY NoFaults
        DEF Beside, CooldownExpires, ProbeSucceeds, LateOperation, ServerRestarts, OwnInv,
            serverVars
    <3>3. Preparing
        BY <3>1, <3>2 DEF Next
    <3>4. ~RestoreFails
        BY <3>3, CalmAfterPreparing DEF RestoreFails, CalmInv, GoTo
    <3> QED BY <3>3, <3>4
            DEF Preparing, FindsSnapshot, FindsNone, MarkInvalidReturns, EraseReturns,
                EraseFallbackReturns
  <2>2. /\ WantedFile \in written /\ cell' = files[WantedFile]
        /\ Compatible(WantedFile) /\ RestoreEnabled /\ wanted \in Models
        /\ WantedFile \in Snapshots
      BY <2>1 DEF RestoreReturns, Restorable, HeldInv, OwnerInv, IInv, HolderInv, HeadFits,
                  PreparePhases, ServerInv
  <2>3. cell'.model \in Models
      BY <2>2 DEF CoverInv, SlotTurns
  <2>4. cell'.key = runtimeKey
      BY <2>2 DEF CoverInv, KeyInv, Compatible
  <2> QED BY <2>2, <2>3, <2>4 DEF OneModel
<1>2. ServerAnswers /\ BrokenKeepsModel
    BY NoFaults DEF BrokenKeepsModel
<1> QED BY <1>1, <1>2, Invariance, HeldInvariance, OwnInvariance, CalmInvariance,
           CoverInvariance, PTL DEF Spec, RestoresOwnRuntime
=============================================================================
