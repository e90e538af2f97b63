# A formal model of dsh-plugins

TLA+ specifications of the parts of this repository that keep state under
concurrency and failure, checked by TLC on small instances and, where a result
matters for every size, proved with TLAPS.

- [The system](#the-system)
- [Modules](#modules)
- [The slot lease](#the-slot-lease)
- [The KV coordinator](#the-kv-coordinator)
- [The draft store](#the-draft-store)
- [The composer](#the-composer)
- [The browser sessions](#the-browser-sessions)
- [The memory queue](#the-memory-queue)
- [The integration API](#the-integration-api)
- [Runs](#runs)
- [Proofs](#proofs)
- [What the checks found](#what-the-checks-found)
- [Limits](#limits)
- [Plan](#plan)

## The system

The repository is a monorepo of 29 plugins for one host (DSH, a coding agent
with a desktop interface), 7 shared packages and the tooling around them.  A
plugin registers with the host: services, tools, hooks on requests and events
(`session/disposed`, `turn/end`, `context/usage`, ...).  Plugins hardly talk to
each other; what they share is the host process, its event order and the disk.
So each plugin is a component of its own, and what is hard about one is the
order of the host's calls, the awaits inside its handlers, and what survives a
failure of the disk, of a server or of the process.

| component | state it keeps | operations | what is hard | what makes it correct |
|---|---|---|---|---|
| **kv-persist: slot lease** (`coordinator/slot-lease.ts`) | a chain of promises, a depth counter | acquire, release, runExclusive | repeated release, a release that never comes | one holder, first in first out, everybody served |
| **kv-persist: coordinator** (`coordinator/*.ts`) | which session owns the slot, each session's dirty and persisted generation, idle timer, breaker | request, auxiliary request, checkpoint, session disposed, flush, save, restore, invalidate, purge, probe, dispose | all operations queue on one lease and find another state than when they were called; server calls time out and are executed anyway; restarts | no turn is lost while a snapshot could have saved it; a snapshot is what its manifest says; persistence never fails a request |
| **kv-persist: repository** (`snapshots/*.ts`) | one manifest per session and route | put, findCompatible, markInvalid, invalidate, remove | file and manifest live on two machines and are written one after the other | ready implies the file exists and holds that session |
| **draft-sessions: store** (`host/store.ts`) | the table of drafts in memory, the same in one file, a queue of calls | list, create, update, rebind, delete | a commit fails before or after the rename, restarts, browsers that change one draft at once | an atomic register with revisions: a revision names one content, nothing shown is lost, nothing deleted returns |
| **draft-sessions: composer** (`client/composer.ts`, rows of `client/sidebar.ts`) | the draft shown, its text on the way and pending, a queue of saves, one of navigations | edit, autosave, flush, open, close, detach | edits, saves and navigations at once; other browsers and the sidebar change the same draft; calls get lost | no text crosses drafts, none is left unsaved without notice, what is restored is current, navigations end |
| **draft-sessions: lifecycle** (`client/lifecycle.ts`, `shortcut.ts`) | a queue of finalizations, drafts being materialized | create, ensureShell, materialize, finalize, delete | a session created and not bound, finalization against autosave | a draft becomes at most one session, the draft of an accepted session goes |
| **user-correction-miner** | watermark per session, a queue of snapshots, stored corrections | live events, historical scan, eviction, dispose | live and historical scans of one session overlap | each turn analysed once, the watermark never goes back |
| **cas-results** | objects and metadata on disk | put, read, stat, touch, gc | gc between a put's check and its use; rename races | what a put returned can be read until its time is over |
| **tool-offload** | budget of running workers | offload, timeout, fallback | late answers | the budget is given back exactly once |
| **answer-review-gate** | rounds of review per turn | review, rewrite, give up | a new turn during a review | the rounds end, only reviewed text replaces an answer |
| **qa-browser: sessions, tabs and control** (`host/session/*.ts`, `providers/playwright.ts`) | the shared browser, a context and tabs per session, a queue per tab, who holds the control | ensureSession, tool calls, panel calls, newTab, closeTab, acquire and release the control, idle close, crash, dispose | calls queued under one driver and run under another, a session created while it is closed, lost or disposed of | two drivers never write to one page, no call is stuck or forgotten, no context is left behind, dispose returns |
| **openviking-memory: pending queue** (`runtime.ts`, `openviking/pending-queue.ts`) | files of writes the server did not take, a latch, a write chain per session | capture, commit, session end, drain, replay, claim, retry, expiry | several processes replay one directory, crashes between two renames, outages that end | nothing queued is lost, nothing is sent twice at once, the queue empties and the latch opens |
| **qa-surface: integration API** (`integration/*.ts`, `admin/session-log.ts`) | questions in flight, a window per chat over its log | ask, leave, time-out, abandon, transcript page | several questions in one chat, callers that leave, a log of which memory and storage each have a part | each caller gets its own answer, only abandoned turns are stopped, slots come back, no message is missed unannounced |
| **model-safety-gate** | verdicts of a stream in progress | prompt, chunk, tool call | verdict arrives after the chunk | nothing blocked is shown |

The other components are listed in `PROJECT.json` with the reason why they are
left out: most are pure transformations of text, user interface, adapters of an
external service, or build tooling.

**What is modelled now** are five parts, chosen because each keeps state across
awaits and its tests drive one interleaving each: kv-persist, the store and the
composer of draft-sessions, the sessions of qa-browser, the pending queue of
openviking-memory, and the integration API of qa-surface.  They share no state
with each other, so each has modules of its own; inside each, the parts are composed
in one state (coordinator, repository and server; composer, sidebar and host table;
manager, provider and panels; runtime, directory and server; service, runner, agent and
log).

## Modules

| module | what it is | models |
|---|---|---|
| `LeaseQueue` | abstract specification: a first-in first-out line whose head is served | what the lease promises |
| `SlotMutex` | the lease as the code builds it from promises | `slot-lease.ts` |
| `SlotMutexProofs` | theorems about `SlotMutex` | |
| `KvCoordinator` | the coordinator, its policy and breaker, the manifests, the server | `coordinator.ts`, `checkpoint-policy.ts`, `circuit-breaker.ts`, `state-machine.ts`, `repository.ts`, `client.ts`, the wiring in `service.ts` |
| `MCKvCoordinator` | model values and symmetry for TLC | |
| `KvCoordinatorProofs` | theorems about `KvCoordinator` | |
| `DraftRegister` | abstract specification: a table of drafts, mutated atomically | what the draft store promises |
| `DraftStore` | the store: queue, table in memory, file | `dsh-draft-sessions/src/host/store.ts` |
| `DraftStoreProofs` | theorems about `DraftStore` | |
| `DraftComposer` | one browser's composer over the host's drafts | `dsh-draft-sessions/src/client/composer.ts`, parts of `sidebar.ts` and `workspace-contribution.ts` |
| `DraftComposerProofs` | theorems about `DraftComposer` | |
| `BrowserSessions` | the browser runtime: sessions, contexts, tabs, queues, control | `dsh-qa-browser/src/host/session/*.ts`, `providers/playwright.ts` |
| `BrowserProofs` | theorems about `BrowserSessions` | |
| `MemoryQueue` | the pending queue, the host that fills and empties it, other processes | `dsh-openviking-memory/src/runtime.ts`, `openviking/pending-queue.ts` |
| `MemoryProofs` | theorems about `MemoryQueue` | |
| `QaAsks` | questions in one chat, its agent and its log | `dsh-qa-surface/src/integration/service.ts`, `host-runner.ts`, `answer.ts` |
| `QaAsksProofs` | theorems about `QaAsks` | |
| `QaTranscript` | the pages of one chat, the windows and the reads behind them | `integration/transcript-reader.ts`, `transcript.ts`, `admin/session-log.ts` |
| `QaTranscriptProofs` | theorems about `QaTranscript` | |

`SlotMutex` and `KvCoordinator` both implement `LeaseQueue` (`ImplementsLine` in
each; the coordinator's process may die, so it implements `MortalSpec`, in which
the line may vanish).  That is how they compose: the coordinator does not repeat the promise
chain, it has a sequence `line` and the property that this sequence behaves as
the lease does.

## The slot lease

`acquire` (slot-lease.ts:34) takes the promise at the tail of the chain, puts a
new one there and waits for the old one.  In `SlotMutex` a promise is its position in the
chain: `callers` is the chain (who created which promise), `ticket` a caller's
own promise, `resolved` the promises that are resolved, `depth` is `#depth`.
`Acquire` runs to the await, `Granted` is the await's return, `Release` the
first call of the release function and `ReleaseAgain` every later one (the
stream wrapper's `finally` and the caller's `catch` may both call it).  The
refinement maps the abstract line to the part of the chain that is not resolved.

## The KV coordinator

A llama.cpp server has one slot that holds the KV cache of one conversation.
The coordinator saves that cache to a file of the server when another
conversation takes the slot, and restores it when the conversation comes back.

State and code:

| variable | code |
|---|---|
| `line`, `phase` | the operations on the lease and the await the head is suspended at |
| `saving` | the locals of `#saveOwnedSession` that live across its awaits: session, identity, generation |
| `wanted` | the identity computed in `#prepareSession` |
| `known`, `runtime` | `#sessions` and its `SessionRuntime`: route, dirty and persisted generation |
| `owner`, `slotState` | `#slot` |
| `failures`, `isOpen` | the circuit breaker; `CooldownExpires` is its clock |
| `idleTimer` | `#idleTimer`, by the session it was set for |
| `disposal` | how far `dispose()` got: running, waiting for its checkpoint, settled, or given up after the grace |
| `runtimeKey` | the configuration of this process |
| `manifests` | the metadata directory: per session and route, none / ready / invalid and the runtime key |
| `cell`, `written`, `files`, `late` | external: the content of the slot, the snapshot files, operations that timed out and may still be executed |
| `turns` | history: turns completed per session |

JavaScript runs each handler from one await to the next without interruption,
so one action is the code between two awaits, and what happens between two
actions is what may happen during an await.  An entry point has a synchronous
prefix before it waits for the lease (`Arrival`): for a request this prefix
already writes the session's route into its runtime (`EnsureRuntime`).  With the
lease granted, `Admission` takes the operation to its first await: it checks
for `dispose()` again, asks the breaker, decides whether the owner must be
saved first.  `Saving` is `#saveOwnedSession`; `Preparing` is `#prepareSession`
with the look-up, the restore and the cold assignment; `Streaming` ends the
inference; `Removing` is invalidate and purge.  `Beside` happens without the
lease: the clock of the breaker, the probe, the server executing a call that had
timed out, the server restarting.  `Restart` is a new host process.

The KV content is a record (whose conversation, which model, under which
runtime key, how many turns) because the properties compare exactly these four
things with what a manifest and a session's runtime claim.

Left out: metrics, logs, health reports and timestamps (no guard reads them);
the digest and the path of a file (two different identities never share one);
parsing of server responses; the breaker's `allows` and `reset`, which nothing
in `src/` calls on these paths.

## The draft store

All calls of all browsers go through one queue in the host (`enqueue`,
store.ts:266).  `memory` is the field `drafts`, `NotLoaded` until the first call
has read the file; `file` is `drafts.json`; `queue` holds the calls, the head is
the one that runs, and `phase` says at which await: reading the file (`load`),
writing the temporary file (`write`), renaming it (`rename`), unlinking the
temporary name (`unlink`).  `target` and `next` are its locals: the draft and the
table it is about to commit.  `Begin` is everything up to the first await of
`commit`, with every rejection (`Targets`: limit, unknown id, stale revision);
`Committed` is the end of `commit` and the answer.  `CommitFails` may happen at
each await, also at the last one: then the file is new, the table in memory is
not, and the caller is told of an error.  `Restart` ends the process anywhere.

A draft is a record of its workspace, its text, its session (`shell`) and its
revision.  Titles, pins, order, timestamps and the `state` field are treated by
`update` exactly as the text is and are left out; so are the sorting of `list`
and its filter by workspace (a caller that sees less constrains the store less).
The
ids come from `randomUUID` and are never used twice (`used`).  Browsers are not
modelled one by one: any browser may call with any revision that some answer has
shown (`seen`), however old.

`DraftRegister` says what this amounts to.  A mutation happens at once
(`Acknowledge`) or not at all, with one exception that the code really has: a
mutation whose call failed after the rename is on the disk and not in memory.  It
is without effect until a restart, which may bring it to light (`doubt`), or
until a later mutation replaces it.

## The composer

A browser shows one draft at a time.  `open` makes an object `ActiveDraft` for it
and follows the input of its session; a later `open` detaches the object, but a
save that was started for it goes on.  So `views` is the sequence of all such
objects and `active` the current one.  A view has the draft, `known` (its field
`draft`: the record the host answered last), `pending` and `saving`
(`pendingText`, `savingText`), `armed` (its timer is set); `notified` is what
the user saw: the last save failed and nothing was typed since.

`saves` is `saveQueue`: drains in the order of `flush()`, each with the view it
was called for and whether a navigation waits for it.  `wire` is the update call
of the running drain.  `trips` is `navigationQueue`, `leg` the await of its head:
the flush, then the session's `ready`.  `Edit` is `inputChanged`; `PauseEnds` the
timer; `Ask`, `SaveAccepted` and `SaveRefused` are the loop of `drain`; `Depart`,
`Flushed` and `Arrive` the parts of `open` and `close` between their awaits;
`Finalized` is the detachment when the draft's prompt was accepted.  `row` is what
the sidebar shows: `open` is called with that record, which may be old by the
time it runs.

The host is the table of `DraftRegister`, which `DraftStore` implements: an
update replaces the record at the revision expected, or nothing (`HostUpdates`).
`EditElsewhere` is another browser, `Rename` the sidebar of this one.  An error of
the store and a lost call look alike to the composer; `WireFails` covers both, with
the update done or not.

A text is named by the draft it was typed into and a number, so that
`NoTextCrosses` can tell where it came from.  Left out: the materialization that
`open` starts when a draft's session is missing, and the end of the plugin, which
detaches as a finalization does.  The user types only into the draft that is shown.

## The browser sessions

The plugin starts one browser process and gives every session a context of its
own.  `link`, `contexts`, `alive` and `closing` are the provider: the process, its
map of contexts, the contexts that exist in the process, the `close()` calls that
have not returned.  `creation` is `kernel.creating` with the await of
`createSession` it is at, `current` is `kernel.sessions`; a record and its
context are one number, and `status`, `tabs`, `shut`, `queue`, `active`,
`control` are the fields of the record and its tabs.  `disposal` is `dispose()`:
joining the creations, closing what is left, stopping the browser.

`call` is what each caller has under way: `queued` behind others on its tab
(`tab.queue.then`), `waiting` for its turn although the control was already
checked, `working`, or reading the title of a new tab.  `ActionStarts` is
the turn of a queued action, where `enqueueMutation` and `enqueueHuman` ask for
the control again; `ActionRefused` the turn that finds its tab closed or its
driver replaced.  `Acquire` covers the heartbeat, which is an acquisition by
the owner; it is refused while a mutation of the agent is at work.
`LeaseLapses` is the clock.

A call that would join a creation under way is an `EnsureSession` that comes when
it has ended.  A browser that crashes and one whose connection is lost are one
event (`Crash`).  Titles, element refs and revisions, navigation history, the
selected tab, viewport and refusals are left out.

## The memory queue

A write the memory server did not take becomes a file of a directory that all
processes of the user share.  `json` and `claimed` are the files by the write they
hold and their retry count; a claim renames a file, a retry writes it under the
next count and removes the old name.  A claim is `stale` when its file was written
ten minutes ago; any listing then takes it back.  `rep` holds each replayer with the
await it is at and its locals: the host's drainer, the initialization of a
session, and replayers of other processes, which may stop at any step.  `op` is
the operation on the session's write chain: a captured message, a commit, or the
final commit when the session ends.  `latch` is `hasPendingWrites`, which
sends every later write to the queue without asking the server.

One action is one file operation or one answer of the server, so that another
process or a crash may come between any two; except for a listing (`List`), which takes
back the stale claims, a rename each, and reads the directory in one step.  Files are written atomically in the
model.  One session is modelled; accounts, toggles and what a profile contains are
left out, and an initialization ends before its session is opened again.

## The integration API

`QaAsks` is a question from `ask()` (service.ts:173) to its answer.  `step` is the
await it is at: the attestation of the chat, the log read for its `floor`,
the prompt, the moment after it, the wait for the agent (`waiting`), the log read
for the answer.  `left` and `expired` are the two abort signals, the caller's and
the budget's.  A wait that ends by either ends the question; if it was the
caller's, `abandonTurn` begins and is not waited for (`stop`): it reads the log
(`StopReads`) and later cancels what then runs (`Stops`); `looked` is history, how much
of the log it had read.  The agent is external: it
queues prompts and runs one turn at a time, each with a start, the prompt's row, a
message and an end in `log`; `stored` is how much of it storage has, and a read
returns either what is stored or what is in memory (`Readable`).  All questions
continue one chat, where they meet; a question that opens a chat meets nobody.
Tokens, rate limit, attachments, provenance and the cutting of long answers are left
out, and a turn has one message.

`QaTranscript` is the reader of pages.  A message is its number, so the log is
`1..written`, `stored` of it in storage, and from `from` on in the memory of this
process if it holds the session (`held`).  `window` is the entry of `windows`: the
newest messages, the newest number left out below them, and whether it is younger
than 30 seconds.  `AskWindow` answers from it (trusted when nobody here writes,
merged with memory when somebody does), `AskLog` begins a read of the log, whose
answer may be as old as the call (`since`); `Remember` makes the new window.
`ReadFails` covers both the time-out, after which memory is taken for the log, and a
log that cannot be parsed.  `doubt` is history: some window was made or extended from
a memory that began later than it had to.  Other chats matter only because they push
this one's window out (`Evict`).

## Runs

| run | instance | shows |
|---|---|---|
| `slot_mutex` | 3 callers, 6 acquisitions | one holder at a time, in the order of the calls (`ImplementsLine`), and every caller is served |
| `kv_faults` | 2 sessions, strict mode, 3 calls of every kind, 3 operations in the line, 1 fault of any kind (which opens the breaker), 1 restart, streams that may break or stay open | whatever fails: a save covers its owner's last turn, a ready manifest has its file, a dirty owner is not evicted without an attempt to save it, persistence fails no request that strict mode does not fail; the lease is given back on every path; `dispose()` returns; what the idle checkpoint waits for is saved, given up with its session, left to a fault or the final checkpoint, or left behind by a stream that broke off |
| `kv_calls` | 2 sessions, 2 runtime keys, 4 calls of every kind but invalidate, up to 4 operations in the line, 2 restarts, streams may abort | no order of calls strands an unsaved turn outside the slot, and the slot holds whom it is said to hold (`SlotIsAsBelieved`); a session said to be persisted has its last turn in a snapshot of its own; `dispose()` settles with nothing unsaved; nothing computed under another runtime key is restored; the line is first-in first-out |
| `draft_store` | 2 drafts, 2 workspaces, 4 calls of any kind and revision, queue of 2, 2 failing file operations, 1 restart, limit 1 | the store implements `DraftRegister`; a revision names one content for everybody; what was shown is on the disk; what was deleted stays so; the limit holds; every call is answered |
| `draft_composer` | 2 drafts, 3 navigations, 2 texts typed here or in another browser, 1 rename or finalization, 1 lost call | text is stored only with the draft it was typed into; unsaved text is on its way or its failure is shown; a navigation leaves a draft only when its text is accepted; navigations end and edits settle |
| `browser_sessions` | 1 session with 2 contexts in its life, 1 tab, 1 tool call, 1 panel | the agent yields to the panel, queues hold exactly the calls not answered, no context is left behind by a failed creation, a crash or a dispose, and `dispose()` returns |
| `memory_queue` | 1 message and the commits, 1 retry, replays of 1 entry, 1 other process, 1 event (outage, crash, session end or start of the other) | a queued message keeps a file until it is settled; two replayers send it at once only after a claim was taken back as stale; after the outage the queue empties and the latch opens |
| `qa_asks` | 2 questions in one chat, both in flight, 1 failing call, storage behind memory at will | a question is answered with its own turn if the log read has its row; a turn is cancelled only for a caller who left and whose own turn was running at the end of the log read, and it is that turn if the log is still complete; the slots come back though no turn ends; the turn of a caller who left ends |
| `qa_transcript` | 2 callers, 3 messages, window of 2, pages of 1 and 3, 1 failing read | a page misses nothing without saying so and never says so in vain; who goes on asking sees every message (both unless `doubt`) |
| `kv_model_switch`, `kv_idle_abort`, `draft_reopen` | the smallest instances that show it | three of the disagreements below |

The type invariants of the modules are not among the runs' properties: they are
theorems of all modules.

Bounds.  Two sessions are what every eviction needs: one in the slot and one
that wants it; a third would be in the place of one of the two, and the proofs
hold for any number.  Calls, line length, faults and restarts are bounded by
`MaxCalls`, `MaxLine`, `MaxFaults`, `MaxRestarts`, each a conjunct of one guard
(`Call`, `Fault`, `Restart`).  Four calls are enough for a session to be
saved, evicted, restored and disposed with a second one between each (`kv_calls`).  With
faults, three calls of any kind and one fault reach each failing path from a slot that
is free, owned or dirty; with a limit of one this fault also opens the breaker, so every
bypass is reached.  Two faults, the failure of a fallback after the failure it answers, are
beyond `kv_faults`; there the proofs take over: its invariants and action properties hold
for all bounds.  Only its three liveness properties rest on one fault.  The counter of
the breaker stops at its limit (the code counts on, but asks only whether the limit is
reached).  Two sessions are symmetric where only safety is checked.

For the draft store four calls are a creation, a change, a second change at the
same or a stale revision and a deletion; two faults let a call fail after the
rename and the next one before it, and the restart may come between them.  One
text is enough, because `rebind` changes the content too; a limit of one makes
the second creation in a workspace the interesting one.  For the composer three
navigations open a draft, leave it and come back; two texts let one be typed while
the other is being saved, here or in another browser.

For the browser one tool call and one panel are two drivers on one tab, with a
queue of two; the second context is the session opened again after a close or a
crash.  For the memory queue one message meets a commit, a drainer, an
initialization and a stranger, so that three replayers compete for two files; one
retry makes the rename of a retry and the drop of an exhausted entry happen.  Two
questions fill the chat's agent and one of its places in the queue; the limit of
slots is not reached by two, but `SlotsComeBack` asks for each of them.  Three
messages over a window of two leave one below it, and let a memory begin at, above or
beyond what a window has covered.

Deadlock is not checked in these runs: once the bounded calls are
made the model really may stop.  `slot_mutex` checks it.

Fairness.  Nothing forces the host to call, a fault to happen or the process to
restart.  `OpenStreamSpec` is weakly fair to the awaits of the head: calls of the
server have a timeout (client.ts:94), file operations settle, and the JavaScript
event loop runs what has settled; and to the two timers.  It is not fair to
streams, since a consumer may keep one open.  The draft
store's `FairSpec` is weakly fair to the steps of the head (`Serve`): a file
operation settles, with or without an error.  The composer's is weakly fair to its
timer, to its drains and navigations, and to the host's answer (`HostUpdates`): a
remote call is answered or rejects, which the gateway between them promises.
`BrowserSessions` is weakly fair to what the browser answers (launch, creation,
close: Playwright's calls have time-outs), to the calls at work and to `dispose()`;
nobody has to call, to acquire or to release.  `MemoryQueue` is weakly fair to the
drainer's timer, the host's replayers and write chain, the clock and the return of
the server (an outage ends); the replayers of other processes may stop anywhere.
`QaAsks` is weakly fair to the calls of the host that `run()` awaits, to the budget's timer, to an
`abandonTurn` that has begun, and to the end of a turn that was cancelled; not to a turn that
was not, nor to callers leaving.  `QaTranscript` is weakly fair to the flush, to the
30 seconds, and to each caller's asking and being answered.

## Proofs

All theorems are for any finite or infinite set of callers, sessions, models and
keys and for every value of the bounds.

`SlotMutexProofs`.  The property `MutualExclusion` is not inductive: nothing in
it says why the promise somebody awaits is unresolved.  `IInv` adds the shape of
the chain: the resolved promises are an initial segment of it, a caller inside
owns exactly one unresolved promise of the chain and every unresolved promise is
owned by a caller inside.  The holder's promise is then the first unresolved one,
so there is one holder (`Exclusion`), and a release extends the segment by one, which
is `Tail` of the abstract line (`Refinement`).  `CounterIsExact` needs in
addition that the set of callers inside is finite, which `CounterInvariance`
carries along.  The assumption is `MaxTicketsNat`.

`KvCoordinatorProofs`.  `IInv` is the conjunction of five parts: `HolderInv` (the
phase fits the kind of the head, which has the arguments that kind has),
`StateInv` and `ServerInv` (types), `SaveInv` (during a save the head's `saving`
is the owner's current route and generation) and `FileInv` (ready manifests and
the manifest about to be written have their file).  `SaveCoversOwner` is not
inductive alone: that no arrival changes the generation under way follows from
who may write it (only the end of a stream, and the head is not streaming), and
that the session stays known from the fact that only the head forgets it.
`ReadyHasFile` needs that a `put` follows a successful save of the same file.
The assumption is `ConstantsAssumption`: the special values are not members of
the sets they are special for, and there is a model and a runtime key.  One
lemma per group of actions, one step per action.

On `IInv` stand four more invariants, each with the faults that it bears.  They are
in this order because each uses those before it.

- `HeldInv`, for every configuration and every fault: what the head saw of the owner
  is still so after an await.  `RevisionInv` (nothing is persisted that was not
  completed), `OwnerInv` (the owner while a stream runs, a slot is erased or a snapshot
  is restored) and `EvictInv` (a head that prepares the slot either needs no save or
  has tried one of the owner's last generation).  `SaveBeforeEvict` is then the list of the
  steps in which an owner leaves (`OwnerLeaves`), and `SettledIsSaved` the end of a
  flush.  `RequestsAreServed` is the list of the steps in which a request leaves
  the line without a stream, each with its reason (`ServedOrLost`).  One reason is that
  its session ended while it waited (below); `WaitingAreKnown` shows that nothing else
  takes the runtime of a waiting request: if no call deletes sessions (`NothingForgotten`),
  it is there.
- `OwnInv`, if the server answers slot operations in time (`ServerAnswers`; metadata
  may fail, streams may break, both sides may restart): the owner changes in the step in
  which the slot does, so slot and files never hold another conversation.  From it
  `SlotIsOfOwner` and `SnapshotsOwn`.  With a failed erase, or a late save, both are false.
- `CalmInv`, if only streams break and nobody invalidates (`OnlyStreamsBreak`, as in
  `kv_calls`; the checkpoint before a switch is enabled): whoever has unsaved turns owns
  the slot and has its conversation there, nobody has any once the slot is about to
  change hands, and no restore fails.  From it `SlotBelieved`.  One failed manifest or one
  `invalidate` refutes it.
- `CoverInv`, under the same and `BrokenKeepsModel` (one model, or no stream breaks): the slot of a dirty owner holds all its turns
  under this process's runtime key, a file about to get its manifest too (`FileTurns`), a
  clean session's manifest is compatible and its file complete (`CleanCovered`), and, for
  one model, a ready manifest tells its file's key (`KeyInv`).  The last is what a restart with another
  runtime key could break: a file overwritten under the new key, with the old manifest
  still ready for a later process with the old key.  It cannot, because `find` makes
  that manifest invalid before its session gets the slot.  From it `Covered` and
  `OwnRuntime`.  Both hypotheses are needed: `kv_model_switch` refutes
  `RestoresOwnRuntime` for two models, and an aborted request of a second model leaves
  fewer turns in the slot than the next save says it covers.

TLC checked each of these invariants before it was proved: all of them on the instance of
`kv_calls`, `HeldInv` and `OwnInv` also with the faults they bear on that of `kv_faults`,
and `CleanCovered` with two models and no broken streams.

`DraftStoreProofs`.  `RevisionNamesContent` is not inductive: it must know that no
answer still to come can show an old revision with another content.  `IInv` adds
that the table callers are answered from is `Covered`, that is, it has every
record that was shown, or a later revision of it, or nothing where a deletion was
asked for; that the file is this table or one mutation ahead of it (`DiskInv`),
and so is the table the head is about to commit (`HeadInv`); and that an id not
yet used is nowhere (`UsedInv`).  One mutation of a covered table is a covered
table (`FollowsCovers`), which is why it does not matter where the failure or
the restart comes.  `Limited` counts: the drafts of a workspace in the tables that
memory and file have, and the head's if it is to be committed, are at most `Limit`;
only a creation adds one, and it has counted the table it starts from, which no other
operation changes before its commit.  The refinement follows: a rename is `Waver`, the end of
`commit` is `Acknowledge`, a restart is `Recover`, everything else stutters.

`DraftComposerProofs`.  `Typed` carries for every record, view, navigation and answer
on the wire whose draft it is; `NoTextCrosses` follows from it, because a drain
keeps the view it was called for and the wire belongs to the drain in front.
`UnsavedIsOnItsWay` needs three more facts, together `FlowInv`: the input is what the
current view has pending, or else what it expects the host to have (`InputIsKnown`); a
view that is saving is the one the call on the wire belongs to (`SavingIsAsked`); and
a drain that a navigation waits for is the only such one, for the current view
(`TripsWait`).  `LeavesNothingUnsaved` is the step in which that drain ends.

`BrowserProofs`.  `IInv` has the types and three parts.  `QueueInv`: a call names a
record and a tab (`CallsArePlaced`) and the one at work is in front (`OneAtWork`); this
keeps a queue without repetitions when a call joins or leaves it.  `YieldInv`: a mutation
of the agent at work is counted by its record (`Counted`), which is what an acquisition
looks at, and records once used are not used again.  `LeftInv`: a creation past
its context owns it (`CreationOwns`), no context lives without the browser
(`LostIsDead`), and the sweep of a dispose leaves no session (`SweptIsOver`), without
which a creation that fails after the sweep could leave its context.

`MemoryProofs`.  `QueuedIsKept` says nothing about the moment between the two files of a
retry or about an entry in a replayer's hands; `KeptInv` adds that an answered
message is settled before its file goes (`AnsweredIsSettled`), that a retry's new
file is written before the old one goes (`RetryIsWritten`), that what is claimed has
retries left, and that a message not yet queued has no file.  `SoleInv`, for messages no claim
of which was taken back: one replayer has it in hand, then no file of it can be claimed,
and there is at most one file that can.

`QaAsksProofs`.  `AnswersOwn` speaks of the newest turn before a row, found again by a
search of the log, so it must be known that the row is the only one of its question and stays
where it is.  `AskedOnce` carries each question from its call to the queue of the agent and
its row in the log, once; `TurnsInOrder` says that each row follows the start of its turn and
that turns are numbered upwards.  `TurnIs` then makes the searches explicit (the turn of a row is
that of the event before it) and `AnsweredOwn` is the inductive form of the property.
`StopsOnlyAbandoned` stands on two more invariants.  `TurnsEnd`: a turn's end comes after
its start and before the next one's, and the turn that runs is the last that began.  With
the order of the turns, `ownTurnStillRunning()`, which looks for another start and for its own
end after the row, then amounts to: nothing began or ended after the row (`OwnTurnRuns`).
`RanWhenRead` carries this for the part of the log that was read to the moment of the
cancel, while the log grows; `RanAtIs` is the same as the search in `RanAt`.  `Counted` is why the number of
questions in flight is never negative.

`QaTranscriptProofs`.  A window is exact if it has all messages above what it left out
(`Exact`, up to its newest, `Top`); that is the invariant, unless `doubt`.  `OverExact` and
`MergedExact` are what `integrationMessageWindow()` and `merge()` do to it.  The merge of a
window with more than it can hold would leave a gap, and the proof is that such a merge never
fits (`NoRoom`): it has `WindowSize` new messages and an old one.  `PageIsExact` concludes,
for every cursor and page size, by counting the messages above the cursor.

The assumptions are those of the modules: `DistinctNames`, `QueueAssumption`, `AsksAssumption`,
`TranscriptAssumption`, `WindowAssumption`, and for `DraftComposer` and `DraftStore` that the
special values are no drafts or texts.

| theorem | states |
|---|---|
| `SlotMutexProofs!TypeCorrect`, `Exclusion`, `CounterIsExact` | `TypeOK`, `MutualExclusion`, `DepthCountsLeases` |
| `SlotMutexProofs!Refinement` | the promise chain implements `LeaseQueue` |
| `KvCoordinatorProofs!TypeCorrect`, `SaveIsOfOwner`, `ReadyIsWritten` | `TypeOK`, `SaveCoversOwner`, `ReadyHasFile` |
| `KvCoordinatorProofs!Refinement` | the coordinator's line implements `LeaseQueue` |
| `KvCoordinatorProofs!SavedBeforeEviction`, `SettledSaved` | `SaveBeforeEvict`, `SettledIsSaved`, whatever fails |
| `KvCoordinatorProofs!Served`, `WaitingAreKnown` | `RequestsAreServed`, whatever fails; `WaitingIsKnown`, without disposals and purges |
| `KvCoordinatorProofs!SlotIsOfOwner`, `SnapshotsOwn` | `OwnerIsInSlot`, `SnapshotsHoldOwnSession`, if the server answers |
| `KvCoordinatorProofs!SlotBelieved` | `SlotIsAsBelieved`, if only streams break |
| `KvCoordinatorProofs!Covered` | `PersistedIsCovered`, if only streams break, and those only with one model |
| `KvCoordinatorProofs!OwnRuntime` | `RestoresOwnRuntime`, if only streams break, for one model |
| `DraftStoreProofs!TypeCorrect`, `RevisionNames`, `Deleted`, `Durable`, `Limited` | `TypeOK`, `RevisionNamesContent`, `DeletedIsGone`, `ShownIsDurable`, `LimitHolds` |
| `DraftStoreProofs!Refinement` | the draft store implements `DraftRegister` |
| `DraftComposerProofs!TypeCorrect`, `NoCrossing`, `OnItsWay`, `Leaves` | `TypeOK`, `NoTextCrosses`, `UnsavedIsOnItsWay`, `LeavesNothingUnsaved` |
| `BrowserProofs!TypeCorrect`, `Yields`, `QueuesHold`, `LeavesNothing` | `TypeOK`, `AgentYields`, `QueuesHoldTheirCalls`, `NothingIsLeftBehind` |
| `MemoryProofs!TypeCorrect`, `Kept`, `OneSends` | `TypeOK`, `QueuedIsKept`, `OneSender` |
| `QaAsksProofs!TypeCorrect`, `Own`, `StopsAbandoned` | `TypeOK`, `AnswersOwn`, `StopsOnlyAbandoned` |
| `QaTranscriptProofs!TypeCorrect`, `PagesExact` | `TypeOK`, `PagesAreExact` |

Only model-checked: liveness (`EveryCallerIsServed`, `LineMoves`,
`KvCoordinator!DisposeReturns`, `DirtySlotIsSaved`, `CallsSettle`, `NavigationsEnd`, `EditsSettle`,
`BrowserSessions!DisposeReturns`, `OutageEnds`, `SlotsComeBack`, `AbandonedTurnEnds`,
`CallersCatchUp`), which the prover cannot do under fairness.  Every safety invariant, every
action property and every refinement that a passing run checks is also a theorem; those of
`KvCoordinator` with the hypotheses of the table.

## What the checks found

- `kv_model_switch`: a request writes its new route into the session's runtime
  before it has the lease (coordinator.ts:143).  A save that another request
  triggers in the meantime stores the KV of the old model under the identity of
  the new one, and the queued request restores it.
- `draft_reopen`: with two navigations queued behind an autosave, the second,
  back to the draft just left, restores the record its caller had read before the
  autosave was answered (composer.ts:115): the input shows superseded text, and
  every later save of it is refused as stale.
- `kv_idle_abort`: each request cancels the idle timer and only a stream that succeeds
  sets it again (coordinator.ts:148, 382).  A turn is unsaved in the slot, the next
  request of its session breaks off, and the turn stays unsaved however long the host is
  idle, although the `idle` checkpoint is to "save dirty state after N seconds without
  another request" (docs/specs/design.md:1144).  It is saved when another request comes or
  at the end of the process if that is orderly.  `UnsavedIsSaved` is refuted by this
  alone: `DirtySlotIsSaved`, which adds `BrokenOff` to the ways the wait may end, holds.

More was met while modelling.  These are in the modules, and the properties are stated
so as not to claim the contrary; a run of their own would need only the condition
removed:

- A request that waits behind the disposal or the purge of its own session finds no
  runtime and throws (coordinator.ts:223) instead of running cold, although "every
  persistence failure degrades to cold inference" (coordinator.ts:7).  `RequestsAreServed`
  excepts it by name (`SessionHasEnded`).  The request has also cancelled the idle timer of
  the slot before it throws, so `DirtySlotIsSaved` excepts the lost request too.
- `abandonTurn` decides by the log that its turn is running and cancels, an await
  later, whatever turn then runs (host-runner.ts:251-255).  If its own has ended
  meanwhile, or storage had not seen the end, the turn of another caller is cancelled,
  although "A turn this request did not open is not this request's to stop".
  `StopsOnlyAbandoned` says what remains true: the own turn was running at the end of the
  log read (`RanAt`), and it is the one cancelled if nothing was missing there and nothing
  has been written since.
- A question whose row the log read does not have yet takes the answer after the newest
  prompt it finds (host-runner.ts:347), which may be another question's, although it is
  chosen "so no earlier turn can be read as this one's answer".  `AnswersOwn` speaks of
  the questions in `reached`.
- A caller who leaves while its prompt still waits in the agent's queue finds no row of
  its own; its turn is not stopped then and runs later for nobody.
- When storage does not answer in time, memory is taken for the whole log
  (session-log.ts:377), although the reader's header says that a window is never
  replaced by an in-memory snapshot because that "may hold only part of its history"
  (transcript-reader.ts:41).  Pages then miss messages and do not say so, and a cursor
  may pass over a stored message for ever.  The same happens when another process wrote
  to a chat that is then resumed here with only the end of its history in memory.
  Both properties of `QaTranscript` are stated for the rest (`doubt`).

## Limits

Some things one might expect are false of the code, and are therefore not
claimed:

- A save that timed out and is executed after the slot changed hands overwrites a
  ready snapshot with another conversation.  `SnapshotsHoldOwnSession` and
  `SlotIsAsBelieved` are checked with a server that does what it answered.
- A request of another model that is aborted may leave its session's slot with fewer
  turns than were completed, while the session is still dirty: the next save marks
  all of them persisted.  `PersistedIsCovered` is checked for one model, and proved for
  more if no stream breaks.
- `invalidate` erases the slot of a dirty session and leaves its revisions as
  they were, so a later save of an empty slot marks the lost turn persisted.
  `SlotIsAsBelieved` and `PersistedIsCovered` are checked without it.
- The breaker is asked once per operation; if the save in front of a switch opens
  it, the same operation still talks to the server (circuit-breaker.ts:49).
- A consumer that never pulls from the stream it was given keeps the lease
  (coordinator.ts:358).
- A manifest that cannot be parsed makes every later save of its session fail
  (repository.ts:89).
- In the browser, two concurrent `newTab` may both pass the limit of tabs
  (agent-actions.ts:75); a crash between the first page and its title is overwritten
  by the status "ready" (lifecycle.ts:162); a lease that lapses while the panel's
  action is at work lets the agent's actions on other tabs begin (kernel.ts:141); and
  `closeSession` does not mark the tabs as closed, so that what is queued runs on a
  page that is going away (lifecycle.ts:64).  The model has these races.  The
  selected tab (agent-actions.ts:82) and the refs of elements (registry.ts:79) are not
  in it.
- In the memory queue a commit is not queued while its predecessor is being replayed,
  so what was queued in between may stay uncommitted (pending-queue.ts:363); the latch is
  derived from a listing that may be old, so a later message may overtake a queued one
  (runtime.ts:604); `enqueue` does not write to a temporary file first, so a crash may leave
  half an entry (pending-queue.ts:369); and an entry without an account stops each
  replay at itself (runtime.ts:631).  No property about the order of messages is claimed.
- A page may show a message that is only in memory.  If the host dies before it is
  flushed, its number is used again, and a caller's cursor is past it; crashes are not in
  `QaTranscript`.

In the composer a refused save stays refused: the view keeps the revision it has,
so after a lost answer, or a rename of the draft shown, its saves and all navigations
fail until the old text is put back.  The properties hold, because the user is told
each time; that they ever succeed again is not claimed.

Only one coordinator exists at a time in the model: a reload that overlaps an
abandoned final checkpoint of its predecessor is not modelled.

Not modelled are the components listed so in `PROJECT.json`.  Of those with state of
their own: the lifecycle of drafts, the correction miner, the result store, the offload
budget, the review gate, the safety gate and the rest of qa-surface.  The others are text, interface,
adapters and tooling.

## Plan

In order:

1. **qa-surface: integration API**: the opening of a chat with its reservation.
2. **draft-sessions**: `DraftLifecycle`: materialize, recover, finalize and delete, composed
   with the composer's views and the register; a draft becomes at most one
   session, the draft of an accepted session goes (an autosave during a finalization,
   lifecycle.ts:214; a session created and not bound, lifecycle.ts:254).
3. **kv-persist**.  A reload that overlaps its predecessor (service.ts:333).  Which of
   the hypotheses of `SlotBelieved` can be weakened to what the code does after a
   fault: the turns lost are those of the owner at the fault, and no others.
4. **cas-results**: put, read, touch, gc and the orphan sweep on a small disk;
   what a put returned stays readable until it expires; only then `gc` takes it.
5. **user-correction-miner**: two scans over one queue, watermarks, dispose.
6. **tool-offload**, **answer-review-gate**, **model-safety-gate**, the accounts and runs
   of **qa-surface**: after reading them in depth.
