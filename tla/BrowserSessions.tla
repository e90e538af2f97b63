--------------------------- MODULE BrowserSessions ---------------------------
(* The browser runtime of dsh-qa-browser: one shared Chromium, one isolated *)
(* context per session, tabs with a queue of actions each, and a lease that *)
(* decides whether the agent or a panel drives.  An action here is what     *)
(* runs between two awaits of the host.                                     *)
(*                                                                          *)
(* A record of the session map and its context are named by one value of    *)
(* Contexts, a page of a context by one of Tabs; a page's value is used     *)
(* again once nothing refers to it any more, where the code takes a random  *)
(* id.                                                                      *)
EXTENDS Naturals, Sequences, FiniteSets

CONSTANTS Sessions,  \* ids of DSH sessions
          MaxContexts, \* bound: contexts made in the life of the manager
          Tabs,      \* pages of one context that are referred to at one time
          Agents,    \* concurrent tool calls of the agent
          Panels,    \* browser panels of users
          Agent,     \* the agent as the owner of the control
          NoContext, NoTab,
          MaxTabs    \* session.maxTabs

ASSUME DistinctNames ==
    /\ Agents \cap Panels = {} /\ Agent \notin Panels
    /\ MaxContexts \in Nat /\ NoContext \notin Nat /\ NoTab \notin Tabs

VARIABLES
    link,      \* the provider's browser: "down", "starting" or "up"
    contexts,  \* the provider's map of contexts
    alive,     \* the contexts that exist in the browser process
    closing,   \* contexts whose close() has not returned
    creation,  \* session -> the creation under way (kernel.creating)
    current,   \* session -> its record (kernel.sessions)
    status,    \* record -> status
    tabs,      \* record -> its tabs
    shut,      \* record -> pages whose tab has the status "closed"
    queue,     \* record -> tab -> the calls on the tab's queue
    active,    \* record -> the calls its activeActions counts
    control,   \* record -> who drives, the agent again once a lease is over
    call,      \* caller -> its call
    disposal   \* dispose(): its step and the contexts it closes

providerVars == <<link, contexts, alive, closing>>
recordVars   == <<status, tabs, shut, queue, active, control>>
vars == <<providerVars, creation, current, recordVars, call, disposal>>

Contexts == 1..MaxContexts
Callers  == Agents \cup Panels
NoCall   == [op |-> "none", step |-> "idle", context |-> NoContext, tab |-> NoTab]
Calls    == [op : {"none", "mutate", "observe", "open", "closeTab"},
             step : {"idle", "queued", "waiting", "working", "titling"},
             context : Contexts \cup {NoContext}, tab : Tabs \cup {NoTab}]

NoCreation == [step |-> "none", context |-> NoContext]
Creations  == [step : {"none", "start", "context", "doomed", "page", "title", "closing"},
               context : Contexts \cup {NoContext}]

TypeOK ==
    /\ link \in {"down", "starting", "up"}
    /\ contexts \in SUBSET Contexts /\ alive \in SUBSET Contexts
    /\ closing \in SUBSET Contexts
    /\ creation \in [Sessions -> Creations]
    /\ current \in [Sessions -> Contexts \cup {NoContext}]
    /\ status \in [Contexts -> {"unused", "starting", "ready", "lost", "closed"}]
    /\ tabs \in [Contexts -> SUBSET Tabs] /\ shut \in [Contexts -> SUBSET Tabs]
    /\ queue \in [Contexts -> [Tabs -> Seq(Callers)]]
    /\ active \in [Contexts -> SUBSET Callers]
    /\ control \in [Contexts -> Panels \cup {Agent}]
    /\ call \in [Callers -> Calls]
    /\ disposal \in [step : {"no", "joining", "closing", "stopping", "done"},
                     contexts : SUBSET Contexts]

Init ==
    /\ link = "down" /\ contexts = {} /\ alive = {} /\ closing = {}
    /\ creation = [s \in Sessions |-> NoCreation]
    /\ current = [s \in Sessions |-> NoContext]
    /\ status = [c \in Contexts |-> "unused"]
    /\ tabs = [c \in Contexts |-> {}] /\ shut = [c \in Contexts |-> {}]
    /\ queue = [c \in Contexts |-> [t \in Tabs |-> <<>>]]
    /\ active = [c \in Contexts |-> {}]
    /\ control = [c \in Contexts |-> Agent]
    /\ call = [p \in Callers |-> NoCall]
    /\ disposal = [step |-> "no", contexts |-> {}]

-----------------------------------------------------------------------------
(* Questions the code asks.                                                 *)

\* assertAgentControl(), assertHumanControl().  Like every reader of the control
\* they ask currentControl(), which takes back a lease that is over.
MayDrive(p, c) == control[c] = IF p \in Agents THEN Agent ELSE p

\* requireSession().
Usable(s) == current[s] # NoContext /\ status[current[s]] # "lost"

\* Random ids: the next context, and a page nothing refers to any more.
FreshContext(c) ==
    status[c] = "unused" /\ \A d \in Contexts : d < c => status[d] # "unused"

FreshTab(c, t) ==
    t \notin tabs[c] /\ \A p \in Callers : call[p].context # c \/ call[p].tab # t

-----------------------------------------------------------------------------
(* Creating a session.                                                      *)

\* ensureSession(): forgets a lost record and begins a creation, unless one is
\* under way.  A caller that joins one is a caller of what it waits for later.
EnsureSession(s) ==
    /\ disposal.step = "no"
    /\ current[s] # NoContext => status[current[s]] = "lost"
    /\ current' = [current EXCEPT ![s] = NoContext]
    /\ IF creation[s] = NoCreation
         THEN /\ link' = IF link = "up" THEN "up" ELSE "starting"
              /\ creation' = [creation EXCEPT ![s].step =
                                IF link = "up" THEN "context" ELSE "start"]
         ELSE UNCHANGED <<link, creation>>
    /\ UNCHANGED <<contexts, alive, closing, recordVars, call, disposal>>

\* provider.start() returns to every creation that waits for it.
Launched(step) ==
    creation' = [s \in Sessions |-> IF creation[s].step = "start"
                                      THEN [creation[s] EXCEPT !.step = step]
                                      ELSE creation[s]]

LaunchReturns ==
    /\ link = "starting"
    /\ \/ link' = "up" /\ Launched("context")
       \/ link' = "down" /\ Launched("none")
    /\ UNCHANGED <<contexts, alive, closing, current, recordVars, call, disposal>>

\* The context exists and its record is registered before its first page.
ContextBuilt(s, c) ==
    /\ creation[s].step = "context" /\ FreshContext(c)
    /\ contexts' = contexts \cup {c} /\ alive' = alive \cup {c}
    /\ creation' = [creation EXCEPT ![s] = [step |-> "page", context |-> c]]
    /\ current' = [current EXCEPT ![s] = c]
    /\ status' = [status EXCEPT ![c] = "starting"]
    /\ tabs' = [tabs EXCEPT ![c] = {}] /\ shut' = [shut EXCEPT ![c] = {}]
    /\ active' = [active EXCEPT ![c] = {}]
    /\ control' = [control EXCEPT ![c] = Agent]
    /\ UNCHANGED <<link, closing, queue, call, disposal>>

ContextFails(s) ==
    /\ creation[s].step \in {"context", "doomed"}
    /\ creation' = [creation EXCEPT ![s] = NoCreation]
    /\ UNCHANGED <<providerVars, current, recordVars, call, disposal>>

\* createTab() of the session's first tab.
FirstPageOpens(s, t) ==
    LET c == creation[s].context IN
    /\ creation[s].step = "page" /\ c \in alive
    /\ tabs' = [tabs EXCEPT ![c] = {t}]
    /\ creation' = [creation EXCEPT ![s].step = "title"]
    /\ UNCHANGED <<providerVars, current, status, shut, queue, active, control, call, disposal>>

\* provider.closeContext(): the entry goes at once, the context later.
CloseContext(c) ==
    /\ contexts' = contexts \ {c}
    /\ closing' = IF c \in contexts THEN closing \cup {c} ELSE closing

\* Mutant: the failed creation forgets its context.
FirstPageFailsForgotten(s) ==
    LET c == creation[s].context IN
    /\ creation[s].step = "page"
    /\ current' = [current EXCEPT ![s] = NoContext]
    /\ creation' = [creation EXCEPT ![s] = NoCreation]
    /\ UNCHANGED <<providerVars, recordVars, call, disposal>>

\* A session that could not open its first tab is taken back.
FirstPageFails(s) ==
    LET c == creation[s].context IN
    /\ creation[s].step = "page"
    /\ current' = [current EXCEPT ![s] = NoContext]
    /\ CloseContext(c)
    /\ creation' = [creation EXCEPT ![s] =
                      IF c \in contexts THEN [step |-> "closing", context |-> c]
                                        ELSE NoCreation]
    /\ UNCHANGED <<link, alive, recordVars, call, disposal>>

\* A title that cannot be read counts as empty, so the session becomes ready
\* whatever happened to the page meanwhile.
FirstTitleRead(s) ==
    /\ creation[s].step = "title"
    /\ status' = [status EXCEPT ![creation[s].context] = "ready"]
    /\ creation' = [creation EXCEPT ![s] = NoCreation]
    /\ UNCHANGED <<providerVars, current, tabs, shut, queue, active, control, call, disposal>>

\* Mutant: the creation that waits for the close is not told.
CloseReturnsUntold(c) ==
    /\ c \in closing
    /\ closing' = closing \ {c} /\ alive' = alive \ {c}
    /\ UNCHANGED <<link, contexts, creation, current, recordVars, call, disposal>>

\* The browser has closed the context.
CloseReturns(c) ==
    /\ c \in closing
    /\ closing' = closing \ {c} /\ alive' = alive \ {c}
    /\ creation' = [s \in Sessions |->
                      IF creation[s] = [step |-> "closing", context |-> c]
                        THEN NoCreation ELSE creation[s]]
    /\ UNCHANGED <<link, contexts, current, recordVars, call, disposal>>

-----------------------------------------------------------------------------
(* Ending sessions.                                                         *)

\* closeSession() once no creation of the session is under way.  The tabs are
\* dropped without being marked closed.
CloseSession(s) ==
    LET c == current[s] IN
    /\ creation[s] = NoCreation /\ c # NoContext
    /\ current' = [current EXCEPT ![s] = NoContext]
    /\ status' = [status EXCEPT ![c] = "closed"]
    /\ tabs' = [tabs EXCEPT ![c] = {}]
    /\ CloseContext(c)
    /\ UNCHANGED <<link, alive, creation, shut, queue, active, control, call,
                   disposal>>

\* closeIdleSessions() on a record that is idle for long enough.
IdleCloses(s) ==
    /\ CloseSession(s)
    /\ active[current[s]] = {} /\ control[current[s]] = Agent

\* The browser's "disconnected" event: every context is gone, and every record
\* the manager holds is lost with its tabs.
Crash ==
    LET lost == IF disposal.step = "no" THEN {current[s] : s \in Sessions} ELSE {}
    IN
    /\ link = "up"
    /\ link' = "down" /\ contexts' = {} /\ alive' = {}
    /\ creation' = [s \in Sessions |-> IF creation[s].step = "context"
                                         THEN [creation[s] EXCEPT !.step = "doomed"]
                                         ELSE creation[s]]
    /\ status' = [c \in Contexts |-> IF c \in lost THEN "lost" ELSE status[c]]
    /\ shut' = [c \in Contexts |-> IF c \in lost THEN shut[c] \cup tabs[c] ELSE shut[c]]
    /\ tabs' = [c \in Contexts |-> IF c \in lost THEN {} ELSE tabs[c]]
    /\ UNCHANGED <<closing, current, queue, active, control, call, disposal>>

\* dispose() refuses new sessions and joins the creations under way.
Dispose ==
    /\ disposal.step = "no"
    /\ disposal' = [disposal EXCEPT !.step = "joining"]
    /\ UNCHANGED <<providerVars, creation, current, recordVars, call>>

\* Then it closes every session it finds.
DisposeSweeps ==
    LET found == {current[s] : s \in Sessions} \ {NoContext}
        open  == found \cap contexts
    IN
    /\ disposal.step = "joining" /\ \A s \in Sessions : creation[s] = NoCreation
    /\ disposal' = [step |-> "closing", contexts |-> open]
    /\ current' = [s \in Sessions |-> NoContext]
    /\ status' = [c \in Contexts |-> IF c \in found THEN "closed" ELSE status[c]]
    /\ tabs' = [c \in Contexts |-> IF c \in found THEN {} ELSE tabs[c]]
    /\ contexts' = contexts \ open /\ closing' = closing \cup open
    /\ UNCHANGED <<link, alive, creation, shut, queue, active, control, call>>

\* And stops the provider: once nothing is being launched or built, it closes
\* what is left and the browser itself.
DisposeStops ==
    /\ disposal.step = "closing" /\ disposal.contexts \cap closing = {}
    /\ link # "starting"
    /\ \A s \in Sessions : creation[s].step \notin {"context", "doomed"}
    /\ link' = "down" /\ contexts' = {}
    /\ disposal' = [step |-> "stopping", contexts |-> {}]
    /\ UNCHANGED <<alive, closing, creation, current, recordVars, call>>

StopReturns ==
    /\ disposal.step = "stopping"
    /\ alive' = {}
    /\ disposal' = [disposal EXCEPT !.step = "done"]
    /\ UNCHANGED <<link, contexts, closing, creation, current, recordVars, call>>

-----------------------------------------------------------------------------
(* Calls on a session.                                                      *)

Place(p, op, step, c, t) ==
    call' = [call EXCEPT ![p] = [op |-> op, step |-> step, context |-> c, tab |-> t]]

JoinQueue(p, c, t) == queue' = [queue EXCEPT ![c][t] = Append(@, p)]
Leave(c, t) == queue' = [queue EXCEPT ![c][t] = Tail(@)]

\* The call is at the front of its tab's queue.
InFront(p) ==
    LET q == queue[call[p].context][call[p].tab] IN q # <<>> /\ Head(q) = p

\* enqueue(): snapshot and wait observe, everything else mutates; a panel only
\* mutates.
Enqueue(p, op, s, t) ==
    LET c == current[s] IN
    /\ call[p] = NoCall /\ Usable(s) /\ t \in tabs[c]
    /\ op = "mutate" \/ (op = "observe" /\ p \in Agents)
    /\ JoinQueue(p, c, t) /\ Place(p, op, "queued", c, t)
    /\ UNCHANGED <<providerVars, creation, current, status, tabs, shut, active,
                   control, disposal>>

\* Mutant: control is asked when the call is queued, not when its turn comes.
ActionStartsUnchecked(p) ==
    LET c == call[p].context  t == call[p].tab IN
    /\ call[p].step = "queued" /\ InFront(p) /\ t \notin shut[c]
    /\ active' = [active EXCEPT ![c] = @ \cup {p}]
    /\ Place(p, call[p].op, "working", c, t)
    /\ UNCHANGED <<providerVars, creation, current, status, tabs, shut, queue,
                   control, disposal>>

\* Its turn comes: a mutation asks again who drives.
ActionStarts(p) ==
    LET c == call[p].context  t == call[p].tab IN
    /\ call[p].step = "queued" /\ InFront(p) /\ t \notin shut[c]
    /\ call[p].op = "observe" \/ MayDrive(p, c)
    /\ active' = [active EXCEPT ![c] = @ \cup {p}]
    /\ Place(p, call[p].op, "working", c, t)
    /\ UNCHANGED <<providerVars, creation, current, status, tabs, shut, queue,
                   control, disposal>>

\* Mutant: a refused call stays on the tab's queue.
ActionRefusedStays(p) ==
    LET c == call[p].context  t == call[p].tab IN
    /\ call[p].step = "queued" /\ InFront(p)
    /\ t \in shut[c] \/ (call[p].op = "mutate" /\ ~MayDrive(p, c))
    /\ call' = [call EXCEPT ![p] = NoCall]
    /\ UNCHANGED <<providerVars, creation, current, status, tabs, shut, queue,
                   active, control, disposal>>

\* The tab was closed meanwhile, or somebody else drives.
ActionRefused(p) ==
    LET c == call[p].context  t == call[p].tab IN
    /\ call[p].step = "queued" /\ InFront(p)
    /\ t \in shut[c] \/ (call[p].op = "mutate" /\ ~MayDrive(p, c))
    /\ Leave(c, t) /\ call' = [call EXCEPT ![p] = NoCall]
    /\ UNCHANGED <<providerVars, creation, current, status, tabs, shut, active,
                   control, disposal>>

\* newTab(), humanNewTab(): asks once who drives, and compares with the limit.
\* A call that began before dispose() may come here after it.
OpenTab(p, s) ==
    LET c == current[s] IN
    /\ call[p] = NoCall /\ disposal.step \in {"no", "joining"}
    /\ c # NoContext /\ status[c] = "ready"
    /\ MayDrive(p, c)
    /\ Cardinality(tabs[c]) < MaxTabs
    /\ active' = [active EXCEPT ![c] = @ \cup {p}]
    /\ Place(p, "open", "working", c, NoTab)
    /\ UNCHANGED <<providerVars, creation, current, status, tabs, shut, queue,
                   control, disposal>>

\* The new page is registered before its title is read.
PageOpens(p, t) ==
    LET c == call[p].context IN
    /\ call[p].op = "open" /\ call[p].step = "working"
    /\ c \in alive /\ FreshTab(c, t)
    /\ tabs' = [tabs EXCEPT ![c] = @ \cup {t}]
    /\ shut' = [shut EXCEPT ![c] = @ \ {t}]
    /\ Place(p, "open", "titling", c, t)
    /\ UNCHANGED <<providerVars, creation, current, status, queue, active,
                   control, disposal>>

\* closeTab(), humanCloseTab(): asks once, then waits for what is on the queue.
CloseTab(p, s, t) ==
    LET c == current[s] IN
    /\ call[p] = NoCall /\ Usable(s)
    /\ MayDrive(p, c)
    /\ t \in tabs[c]
    /\ active' = [active EXCEPT ![c] = @ \cup {p}]
    /\ JoinQueue(p, c, t) /\ Place(p, "closeTab", "waiting", c, t)
    /\ UNCHANGED <<providerVars, creation, current, status, tabs, shut, control, disposal>>

\* The tab is closed before the calls queued behind get their turn.
TabCloses(p) ==
    LET c == call[p].context  t == call[p].tab IN
    /\ call[p].step = "waiting" /\ InFront(p)
    /\ Leave(c, t)
    /\ shut' = [shut EXCEPT ![c] = @ \cup {t}]
    /\ tabs' = [tabs EXCEPT ![c] = @ \ {t}]
    /\ Place(p, "closeTab", "working", c, t)
    /\ UNCHANGED <<providerVars, creation, current, status, active, control, disposal>>

\* The work of a call ends, well or badly.
CallReturns(p) ==
    LET c == call[p].context  t == call[p].tab IN
    /\ call[p].step \in {"working", "titling"}
    /\ IF call[p].op \in {"mutate", "observe"} THEN Leave(c, t) ELSE UNCHANGED queue
    /\ active' = [active EXCEPT ![c] = @ \ {p}]
    /\ call' = [call EXCEPT ![p] = NoCall]
    /\ UNCHANGED <<providerVars, creation, current, status, tabs, shut, control, disposal>>

\* onPageClosed(): a page closes by itself.
PageCloses(c, t) ==
    /\ c \in alive /\ t \in tabs[c]
    /\ tabs' = [tabs EXCEPT ![c] = @ \ {t}]
    /\ shut' = [shut EXCEPT ![c] = @ \cup {t}]
    /\ UNCHANGED <<providerVars, creation, current, status, queue, active,
                   control, call, disposal>>

-----------------------------------------------------------------------------
(* The lease.                                                               *)

Lease(c, p) ==
    /\ control' = [control EXCEPT ![c] = p]
    /\ UNCHANGED <<providerVars, creation, current, status, tabs, shut, queue,
                   active, call, disposal>>

\* Mutant: a panel takes over without waiting for the agent's action.
AcquireAtOnce(p, s) ==
    /\ Usable(s)
    /\ control[current[s]] \in {Agent, p}
    /\ Lease(current[s], p)

\* acquireHumanControl(): not from another panel, and not while a call is at
\* work under the agent's control.  heartbeatHumanControl() by the owner renews
\* the lease, which changes nothing but its time.
Acquire(p, s) ==
    /\ Usable(s)
    /\ control[current[s]] \in {Agent, p}
    /\ control[current[s]] = Agent => active[current[s]] = {}
    /\ Lease(current[s], p)

\* releaseHumanControl().
Release(p, s) == Usable(s) /\ control[current[s]] = p /\ Lease(current[s], Agent)

\* The lease was not renewed in time.
LeaseLapses(c) == control[c] \in Panels /\ Lease(c, Agent)

-----------------------------------------------------------------------------
Creating(s) ==
    \/ \E c \in Contexts : ContextBuilt(s, c)
    \/ ContextFails(s)
    \/ \E t \in Tabs : FirstPageOpens(s, t)
    \/ FirstPageFails(s)
    \/ FirstTitleRead(s)

\* A call on its way to its end.
Working(p) ==
    \/ ActionStarts(p) \/ ActionRefused(p) \/ TabCloses(p) \/ CallReturns(p)

Disposing == DisposeSweeps \/ DisposeStops \/ StopReturns

Controlling ==
    \/ \E p \in Panels, s \in Sessions : Acquire(p, s) \/ Release(p, s)
    \/ \E c \in Contexts : LeaseLapses(c)

Calling ==
    \/ \E p \in Callers, s \in Sessions :
          \/ OpenTab(p, s)
          \/ \E t \in Tabs : \/ CloseTab(p, s, t)
                             \/ \E op \in {"mutate", "observe"} : Enqueue(p, op, s, t)
    \/ \E p \in Callers, t \in Tabs : PageOpens(p, t)

Next ==
    \/ \E s \in Sessions :
          EnsureSession(s) \/ Creating(s) \/ CloseSession(s) \/ IdleCloses(s)
    \/ LaunchReturns
    \/ \E c \in Contexts : CloseReturns(c) \/ \E t \in Tabs : PageCloses(c, t)
    \/ Crash \/ Dispose \/ Disposing
    \/ Calling \/ Controlling
    \/ \E p \in Callers : Working(p)

\* Every operation of the browser returns (Playwright's timeouts), and a
\* promise that is settled runs what waits for it.
Spec ==
    /\ Init /\ [][Next]_vars
    /\ WF_vars(LaunchReturns)
    /\ \A s \in Sessions : WF_vars(Creating(s))
    /\ \A c \in Contexts : WF_vars(CloseReturns(c))
    /\ \A p \in Callers : WF_vars(Working(p))
    /\ WF_vars(Disposing)

-----------------------------------------------------------------------------
(* Properties.                                                              *)

\* The agent's call is changing the session, or has been let in to do so.
Driving(p) ==
    \/ call[p].step = "waiting"
    \/ call[p].step \in {"working", "titling"} /\ call[p].op # "observe"

\* While a panel holds the control, no mutation of the agent is under way in
\* that session: neither one that waited on a queue, nor one that was working
\* when the panel took over (panel-actions.ts: "the two drivers never write to
\* one page at once").
AgentYields ==
    \A p \in Agents, c \in Contexts :
        Driving(p) /\ call[p].context = c => control[c] = Agent

\* A context that exists is reachable by the provider or being closed, and
\* belongs to a session, a creation or a close; and a manager that has been
\* disposed of leaves neither a context nor a browser behind.
NothingIsLeftBehind ==
    /\ \A c \in alive :
          \/ c \in closing \/ disposal.step = "stopping"
          \/ c \in contexts /\ \E s \in Sessions : current[s] = c
    /\ disposal.step = "done" => alive = {} /\ link = "down"

\* The call has a place on the queue of its tab until it is answered.
OnQueue(p) ==
    \/ call[p].step \in {"queued", "waiting"}
    \/ call[p].step = "working" /\ call[p].op \in {"mutate", "observe"}

\* A tab's queue holds the calls that wait for it or are at work on it, each
\* once, and nothing else: no call is forgotten, and none waits behind one that
\* has been answered.
QueuesHoldTheirCalls ==
    \A c \in Contexts, t \in Tabs :
        LET q == queue[c][t] IN
        /\ \A i, j \in DOMAIN q : q[i] = q[j] => i = j
        /\ \A p \in Callers :
              (\E i \in DOMAIN q : q[i] = p)
                <=> OnQueue(p) /\ call[p].context = c /\ call[p].tab = t

\* dispose() returns, whatever is being created, closed or crashing meanwhile.
DisposeReturns == disposal.step = "joining" ~> disposal.step = "done"
=============================================================================
