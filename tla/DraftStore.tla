------------------------------ MODULE DraftStore ------------------------------
(***************************************************************************)
(* The host's store of unsent drafts, plugins/dsh-draft-sessions/src/host/ *)
(* store.ts: a table in memory, one file, and one queue in which all calls *)
(* of all browsers are served one after the other.                         *)
(*                                                                         *)
(* `phase` is the await at which the call at the head of the queue is      *)
(* suspended.  A mutation writes the new table to a temporary file,        *)
(* renames that over the file, unlinks the temporary name, and only then   *)
(* replaces the table in memory; each of these steps may fail, and the     *)
(* host may die between any two of them.                                   *)
(***************************************************************************)
EXTENDS Naturals, Sequences, FiniteSets

CONSTANTS
    Drafts,         \* ids a draft may get, each at most once
    Workspaces, Texts, Shells,
    NoDraft,        \* where a table has no record
    NoShell,        \* sessionId null
    NotLoaded,      \* the table in memory before the file has been read
    Limit,          \* maxDraftsPerWorkspace
    MaxCalls,       \* bound: calls in a behaviour
    MaxQueue,       \* bound: calls waiting or running at a time
    MaxFaults,      \* bound: failing file operations in a behaviour
    MaxRestarts     \* bound: restarts of the host

Records ==
    [workspace : Workspaces, text : Texts, shell : Shells \union {NoShell},
     revision : Nat]

Tables == [Drafts -> Records \union {NoDraft}]

ASSUME ConstantsAssumption ==
    /\ NoDraft \notin Records
    /\ NotLoaded \notin Tables
    /\ NoShell \notin Shells
    /\ Limit \in Nat \ {0}
    /\ {MaxCalls, MaxQueue, MaxFaults, MaxRestarts} \subseteq Nat

VARIABLES
    memory,         \* DraftStore.drafts
    file,           \* the table in drafts.json; no file is the empty table
    queue,          \* the calls in the order of enqueue(); the head runs
    phase,          \* where the head is suspended
    target,         \* the draft the head is about to commit
    next,           \* the table the head is about to commit
    used,           \* ids that have been given to a draft
    seen,           \* history: the records that answers have shown
    deleting,       \* history: drafts some call asked to delete
    deleted,        \* history: drafts whose deletion was acknowledged
    calls, faults, restarts     \* bound counters

historyVars == <<seen, deleting, deleted>>
boundVars == <<calls, faults, restarts>>
vars == <<memory, file, queue, phase, target, next, used, historyVars, boundVars>>

Empty == [d \in Drafts |-> NoDraft]

Init ==
    /\ memory = NotLoaded
    /\ file = Empty
    /\ queue = <<>>
    /\ phase = "load"
    /\ target = NoDraft /\ next = Empty
    /\ used = {}
    /\ seen = {} /\ deleting = {} /\ deleted = {}
    /\ calls = 0 /\ faults = 0 /\ restarts = 0

------------------------------------------------------------------------------
(* Calls.  A browser that changes a draft passes a revision it has been    *)
(* shown; a deletion may come without (0).                                 *)

\* enqueue(): the operation runs when everything before it has settled.
Call(r) ==
    /\ calls < MaxCalls /\ Len(queue) < MaxQueue
    /\ calls' = calls + 1
    /\ queue' = Append(queue, r)
    /\ deleting' = IF r.kind = "delete" THEN deleting \union {r.draft} ELSE deleting
    /\ UNCHANGED <<memory, file, phase, target, next, used, seen, deleted,
                   faults, restarts>>

Creation(w, x, s) == [kind |-> "create", workspace |-> w, text |-> x, shell |-> s]
Update(d, n, x) == [kind |-> "update", draft |-> d, expected |-> n, text |-> x]
Rebinding(d, n, s) == [kind |-> "rebind", draft |-> d, expected |-> n, shell |-> s]
Deletion(d, n) == [kind |-> "delete", draft |-> d, expected |-> n]

Arrival ==
    \/ Call([kind |-> "list"])
    \/ \E w \in Workspaces, x \in Texts, s \in Shells \union {NoShell} :
            Call(Creation(w, x, s))
    \/ \E e \in seen, x \in Texts : Call(Update(e.draft, e.record.revision, x))
    \/ \E e \in seen, s \in Shells \union {NoShell} :
            Call(Rebinding(e.draft, e.record.revision, s))
    \/ \E e \in seen : \E n \in {0, e.record.revision} : Call(Deletion(e.draft, n))

------------------------------------------------------------------------------
(* How the head of the queue begins and ends.                              *)

Running == Head(queue)

\* The head settles, with a result or an error; the next call may run.
Settle == queue' = Tail(queue) /\ phase' = "load" /\ target' = NoDraft /\ next' = Empty

\* Mutant: the chain continues only when the call before it succeeded.
SettleWithErrorStuck == phase' = "failed" /\ UNCHANGED <<queue, target, next>>

\* The queue's catch: an error settles the head like a result.
SettleWithError == Settle

Fault == faults < MaxFaults /\ faults' = faults + 1

Show(d, record) == [draft |-> d, record |-> record]

------------------------------------------------------------------------------
(* The effect of a call on table t.                                        *)

Existing(t) == {d \in Drafts : t[d] # NoDraft}

\* find and expectRevision: the draft exists, at the revision expected.
Current(t, r) ==
    /\ r.draft \in Existing(t)
    /\ r.expected \in {0, t[r.draft].revision}

\* Mutant: the limit is compared as if the new draft were counted already.
RoomOffByOne(t, w) == Cardinality({d \in Existing(t) : t[d].workspace = w}) <= Limit

Room(t, w) == Cardinality({d \in Existing(t) : t[d].workspace = w}) < Limit

Advanced(record) == [record EXCEPT !.revision = @ + 1]

\* Mutant: a rebind leaves the revision as it is.
ReboundSilently(record, shell) == [record EXCEPT !.shell = shell]

Rebound(record, shell) == Advanced([record EXCEPT !.shell = shell])

\* The draft that the call is about, if it is not rejected: one with a fresh id,
\* or the current one of that id.
Targets(t, r) ==
    CASE r.kind = "create" -> {d \in Drafts \ used : Room(t, r.workspace)}
      [] r.kind \in {"update", "rebind", "delete"} -> {d \in {r.draft} : Current(t, r)}
      [] OTHER -> {}

\* The record that the call leaves of draft d.
Outcome(t, r, d) ==
    CASE r.kind = "create" -> [workspace |-> r.workspace, text |-> r.text,
                               shell |-> r.shell, revision |-> 1]
      [] r.kind = "update" -> Advanced([t[d] EXCEPT !.text = r.text])
      [] r.kind = "rebind" -> Rebound(t[d], r.shell)
      [] r.kind = "delete" -> NoDraft

------------------------------------------------------------------------------
(* The steps of the head.                                                  *)

\* loaded() and the body up to the first await of commit: the table is read
\* from the file if it is not in memory, and the new table is computed.
Begin ==
    LET table == IF memory = NotLoaded THEN file ELSE memory IN
    /\ queue # <<>> /\ phase = "load"
    /\ memory' = table
    /\ \/ \E d \in Targets(table, Running) :
            /\ target' = d
            /\ next' = [table EXCEPT ![d] = Outcome(table, Running, d)]
            /\ used' = used \union {d}
            /\ phase' = "write"
            /\ UNCHANGED <<queue, seen>>
       \/ /\ Running.kind = "list"
          /\ seen' = seen \union {Show(d, table[d]) : d \in Existing(table)}
          /\ Settle
          /\ UNCHANGED used
       \/ /\ Running.kind # "list" /\ Targets(table, Running) = {}
          /\ SettleWithError
          /\ UNCHANGED <<used, seen>>
    /\ UNCHANGED <<file, deleting, deleted, boundVars>>

\* readFile fails: the call fails, the next one tries to load again.
LoadFails ==
    /\ queue # <<>> /\ phase = "load" /\ memory = NotLoaded
    /\ Fault
    /\ SettleWithError
    /\ UNCHANGED <<memory, file, used, historyVars, calls, restarts>>

\* Mutant: the table in memory is replaced before the file.
TemporaryWrittenLate ==
    /\ phase = "write" /\ phase' = "rename"
    /\ memory' = next
    /\ UNCHANGED <<file, queue, target, next, used, historyVars, boundVars>>

\* mkdir and writeFile of the temporary file.
TemporaryWritten ==
    /\ phase = "write" /\ phase' = "rename"
    /\ UNCHANGED <<memory, file, queue, target, next, used, historyVars, boundVars>>

Renamed ==
    /\ phase = "rename" /\ phase' = "unlink"
    /\ file' = next
    /\ UNCHANGED <<memory, queue, target, next, used, historyVars, boundVars>>

\* Mutant: the error is swallowed, and the call goes on as if committed.
CommitFailsSilently ==
    /\ phase \in {"write", "rename", "unlink"}
    /\ Fault
    /\ memory' = next
    /\ seen' = seen \union {Show(d, next[d]) : d \in {target} \cap Existing(next)}
    /\ deleted' = deleted \union ({target} \ Existing(next))
    /\ Settle
    /\ UNCHANGED <<file, used, deleting, calls, restarts>>

\* The temporary file cannot be written, renamed, or (after the rename!) its
\* name cannot be unlinked: the call fails and the table in memory stays.
CommitFails ==
    /\ phase \in {"write", "rename", "unlink"}
    /\ Fault
    /\ SettleWithError
    /\ UNCHANGED <<memory, file, used, historyVars, calls, restarts>>

\* The end of commit: the table in memory is replaced, the call answers with
\* the draft it made or changed, or with `true`.
Committed ==
    /\ phase = "unlink"
    /\ memory' = next
    /\ seen' = seen \union {Show(d, next[d]) : d \in {target} \cap Existing(next)}
    /\ deleted' = deleted \union ({target} \ Existing(next))
    /\ Settle
    /\ UNCHANGED <<file, used, deleting, boundVars>>

\* The host process dies: the table and the queue are gone, nobody answers.
Restart ==
    /\ restarts < MaxRestarts /\ restarts' = restarts + 1
    /\ memory' = NotLoaded
    /\ queue' = <<>> /\ phase' = "load" /\ target' = NoDraft /\ next' = Empty
    /\ UNCHANGED <<file, used, historyVars, calls, faults>>

Serve == Begin \/ TemporaryWritten \/ Renamed \/ Committed

Next == Arrival \/ Serve \/ LoadFails \/ CommitFails \/ Restart

Spec == Init /\ [][Next]_vars

\* File operations settle, one way or the other.
FairSpec == Spec /\ WF_vars(Serve)

------------------------------------------------------------------------------
(* Properties.                                                             *)

TypeOK ==
    /\ memory \in Tables \union {NotLoaded}
    /\ file \in Tables
    /\ phase \in {"load", "write", "rename", "unlink"}
    /\ target \in Drafts \union {NoDraft}
    /\ next \in Tables
    /\ used \subseteq Drafts
    /\ seen \subseteq [draft : Drafts, record : Records]
    /\ deleting \subseteq Drafts /\ deleted \subseteq Drafts
    /\ calls \in Nat /\ faults \in Nat /\ restarts \in Nat

\* The table a caller is answered from: the one in memory, or the file that
\* the next call will load.
Table == IF memory = NotLoaded THEN file ELSE memory

\* A revision names one content of its draft, whoever was shown it and
\* whatever failed or restarted in between (shared/types.ts:27, "Optimistic
\* concurrency token, incremented after every mutation"): an update that
\* passes the revision check was made by somebody who had seen what it
\* replaces.
RevisionNamesContent ==
    \A a, b \in seen :
        a.draft = b.draft /\ a.record.revision = b.record.revision => a = b

\* What a browser has been shown is on the disk, in that revision or a later
\* one, unless somebody asked for the draft's deletion: no answer is lost by a
\* failure in the middle of a later commit or by a restart.
ShownIsDurable ==
    \A s \in seen :
        \/ file[s.draft] # NoDraft /\ file[s.draft].revision >= s.record.revision
        \/ s.draft \in deleting

\* A draft whose deletion was acknowledged does not come back, neither from a
\* table in memory nor from the file.
DeletedIsGone == \A d \in deleted : Table[d] = NoDraft /\ file[d] = NoDraft

\* No workspace has more drafts than the limit, in the file as in memory.
LimitHolds ==
    \A w \in Workspaces, t \in {Table, file} :
        Cardinality({d \in Existing(t) : t[d].workspace = w}) <= Limit

\* Every call settles, whatever fails in it or in front of it; only the end of
\* the process takes it away unanswered.
CallsSettle == (queue # <<>>) ~> (queue = <<>>)

\* The store is an atomic register: its table is the one callers are answered
\* from; in doubt is what is on the disk and not in memory.
Register == INSTANCE DraftRegister
              WITH drafts <- Table,
                   doubt <- IF file = Table THEN {} ELSE {file}

ImplementsRegister == Register!Spec
=============================================================================
