---------------------------- MODULE DraftComposer ----------------------------
(***************************************************************************)
(* The composer of one browser, plugins/dsh-draft-sessions/src/client/     *)
(* composer.ts: it shows one draft at a time, saves edits to the host after *)
(* a pause, and saves what is left before another draft is shown.          *)
(*                                                                         *)
(* Three queues run at once: the user's edits, the saves (one update call  *)
(* of the host at a time) and the navigations.  Other browsers and the     *)
(* sidebar change the same drafts.  The host is the register that          *)
(* DraftRegister describes, seen through compare-and-set on revisions.     *)
(* Every draft has its session already; materializing one is not modelled. *)
(***************************************************************************)
EXTENDS Naturals, Sequences, FiniteSets

CONSTANTS
    Drafts,
    NoText,         \* undefined
    NoDraft,        \* a navigation that opens nothing: close()
    MaxEdits,       \* bound: edits, here or in another browser
    MaxTrips,       \* bound: navigations
    MaxOthers,      \* bound: renames, reorders and finalizations
    MaxLosses       \* bound: calls that fail on the wire, sessions that do not get ready

\* A text is named by the draft it was typed into and by its number.
Texts == [of : Drafts, n : Nat]

Records == [text : Texts, revision : Nat]

ASSUME ConstantsAssumption ==
    /\ NoText \notin Texts
    /\ NoDraft \notin Drafts
    /\ {MaxEdits, MaxTrips, MaxOthers, MaxLosses} \subseteq Nat

VARIABLES
    host,           \* the record of each draft in the host's store
    row,            \* the record of each draft in the sidebar
    live,           \* the text in the input of each draft's session
    views,          \* the ActiveDraft objects, in the order of their creation
    active,         \* the position of the current one; 0 is none
    saves,          \* saveQueue: drains in the order of flush(); the head runs
    wire,           \* the update call of the running drain
    trips,          \* navigationQueue; the head runs
    leg,            \* the await at which the head is suspended
    accepted,       \* history: last revision the host answered to a save
    edits, opened, others, losses      \* bound counters

boundVars == <<edits, opened, others, losses>>
vars == <<host, row, live, views, active, saves, wire, trips, leg, accepted, boundVars>>

First(d) == [text |-> [of |-> d, n |-> 0], revision |-> 1]
Idle == [kind |-> "idle"]

Init ==
    /\ host = [d \in Drafts |-> First(d)]
    /\ row = host
    /\ live = [d \in Drafts |-> First(d).text]
    /\ views = <<>> /\ active = 0
    /\ saves = <<>> /\ wire = Idle
    /\ trips = <<>> /\ leg = "queued"
    /\ accepted = [d \in Drafts |-> 0]
    /\ edits = 0 /\ opened = 0 /\ others = 0 /\ losses = 0

------------------------------------------------------------------------------
(* The user's edits and the pause after them.                              *)

\* What the input is compared with: the text on its way, else the text saved.
Expected(view) == IF view.saving # NoText THEN view.saving ELSE view.known.text

\* inputChanged(): the edit waits for the pause, unless it undoes itself.
Edited(view, text) ==
    LET changed == text # Expected(view) IN
    [view EXCEPT !.pending = IF changed THEN text ELSE NoText,
                 !.armed = changed, !.notified = FALSE]

\* A text nobody has typed before.
NewText(d) == [of |-> d, n |-> edits + 1]

\* The user types into the draft shown, or goes back to the text saved last.
Edit ==
    /\ active # 0 /\ edits < MaxEdits /\ edits' = edits + 1
    /\ LET view == views[active] IN
       \E text \in {NewText(view.draft), view.known.text} \ {live[view.draft]} :
            /\ live' = [live EXCEPT ![view.draft] = text]
            /\ views' = [views EXCEPT ![active] = Edited(view, text)]
    /\ UNCHANGED <<host, row, active, saves, wire, trips, leg, accepted,
                   opened, others, losses>>

\* The pause is over: flush(), whose error is shown by drain().
PauseEnds ==
    /\ active # 0 /\ views[active].armed
    /\ views' = [views EXCEPT ![active].armed = FALSE]
    /\ saves' = Append(saves, [view |-> active, trip |-> FALSE])
    /\ UNCHANGED <<host, row, live, active, wire, trips, leg, accepted, boundVars>>

------------------------------------------------------------------------------
(* Drains.                                                                 *)

Draining == Head(saves)

\* Mutant: the draft is read from the field `active` instead of the argument.
AskForCurrent ==
    /\ saves # <<>> /\ wire = Idle
    /\ LET view == views[Draining.view]
           current == IF active = 0 THEN view ELSE views[active] IN
       /\ view.pending # NoText
       /\ views' = [views EXCEPT ![Draining.view] =
                        [view EXCEPT !.pending = NoText, !.saving = view.pending]]
       /\ wire' = [kind |-> "asked", draft |-> current.draft,
                   expected |-> current.known.revision, text |-> view.pending]
    /\ UNCHANGED <<host, row, live, active, saves, trips, leg, accepted, boundVars>>

\* drain(): as long as something is pending, it is sent.
Ask ==
    /\ saves # <<>> /\ wire = Idle
    /\ LET view == views[Draining.view] IN
       /\ view.pending # NoText
       /\ views' = [views EXCEPT ![Draining.view] =
                        [view EXCEPT !.pending = NoText, !.saving = view.pending]]
       /\ wire' = [kind |-> "asked", draft |-> view.draft,
                   expected |-> view.known.revision, text |-> view.pending]
    /\ UNCHANGED <<host, row, live, active, saves, trips, leg, accepted, boundVars>>

\* The host's update: the text replaces the revision expected, or nothing.
HostUpdates ==
    /\ wire.kind = "asked"
    /\ LET record == host[wire.draft]
           new == [text |-> wire.text, revision |-> record.revision + 1] IN
       IF record.revision = wire.expected
       THEN /\ host' = [host EXCEPT ![wire.draft] = new]
            /\ wire' = [kind |-> "accepted", record |-> new]
       ELSE /\ wire' = [kind |-> "refused"]
            /\ UNCHANGED host
    /\ UNCHANGED <<row, live, views, active, saves, trips, leg, accepted, boundVars>>

\* The call or its answer is lost: the composer's call rejects.
WireFails ==
    /\ wire.kind \in {"asked", "accepted"}
    /\ losses < MaxLosses /\ losses' = losses + 1
    /\ wire' = [kind |-> "refused"]
    /\ UNCHANGED <<host, row, live, views, active, saves, trips, leg, accepted,
                   edits, opened, others>>

\* The view after its save was accepted: what changed meanwhile is pending.
Saved(view, record) ==
    [view EXCEPT !.known = record, !.saving = NoText,
                 !.pending = IF @ = NoText /\ live[view.draft] # record.text
                             THEN live[view.draft] ELSE @]

\* Mutant: the error result of the call is not looked at.
UnsavedSilently(view) == [view EXCEPT !.saving = NoText]

\* The view after its save was refused: all is pending, and the error is shown.
Unsaved(view) ==
    [view EXCEPT !.saving = NoText, !.pending = live[view.draft], !.notified = TRUE]

\* The drain goes on with the answer; its loop turns.
SaveAccepted ==
    /\ wire.kind = "accepted" /\ wire' = Idle
    /\ LET view == views[Draining.view] IN
       /\ views' = [views EXCEPT ![Draining.view] = Saved(view, wire.record)]
       /\ row' = [row EXCEPT ![view.draft] = wire.record]
       /\ accepted' = [accepted EXCEPT ![view.draft] = wire.record.revision]
    /\ UNCHANGED <<host, live, active, saves, trips, leg, boundVars>>

\* A navigation settles, and leaves the queue to the next.
TripEnds == trips' = Tail(trips) /\ leg' = "queued"

\* Mutant: the chain continues only when the navigation before it succeeded.
TripFailsStuck == leg' = "failed" /\ UNCHANGED trips

\* The chain's catch: it continues after a failure as after a success.
TripFails == TripEnds

\* The drain rejects, and with it the navigation that waits for it.
SaveRefused ==
    /\ wire.kind = "refused" /\ wire' = Idle
    /\ views' = [views EXCEPT ![Draining.view] = Unsaved(@)]
    /\ saves' = Tail(saves)
    /\ IF Draining.trip THEN TripFails ELSE UNCHANGED <<trips, leg>>
    /\ UNCHANGED <<host, row, live, active, accepted, boundVars>>

\* Nothing is pending: a drain nobody waits for is done.
DrainEnds ==
    /\ saves # <<>> /\ wire = Idle
    /\ ~Draining.trip /\ views[Draining.view].pending = NoText
    /\ saves' = Tail(saves)
    /\ UNCHANGED <<host, row, live, views, active, wire, trips, leg, accepted, boundVars>>

------------------------------------------------------------------------------
(* Navigations.                                                            *)

\* open(draft) with the sidebar's record, or close().
Navigate ==
    /\ opened < MaxTrips /\ opened' = opened + 1
    /\ \/ \E d \in Drafts : trips' = Append(trips, [draft |-> d, record |-> row[d]])
       \/ trips' = Append(trips, [draft |-> NoDraft, record |-> NoText])
    /\ UNCHANGED <<host, row, live, views, active, saves, wire, leg, accepted,
                   edits, others, losses>>

Trip == Head(trips)

\* detach(): the current view no longer follows its input.
Detach ==
    /\ active' = 0
    /\ views' = IF active = 0 THEN views ELSE [views EXCEPT ![active].armed = FALSE]

\* open() past its flush, with the record to restore; close() is done.
Proceed(record) ==
    IF Trip.draft = NoDraft THEN TripEnds
    ELSE trips' = <<[Trip EXCEPT !.record = record]>> \o Tail(trips) /\ leg' = "session"

\* A navigation begins: the current draft is flushed first.
Depart ==
    /\ trips # <<>> /\ leg = "queued"
    /\ \/ /\ active # 0
          /\ views' = [views EXCEPT ![active].armed = FALSE]
          /\ saves' = Append(saves, [view |-> active, trip |-> TRUE])
          /\ leg' = "flush"
          /\ UNCHANGED <<active, trips>>
       \/ /\ active = 0
          /\ Proceed(Trip.record)
          /\ UNCHANGED <<active, views, saves>>
    /\ UNCHANGED <<host, row, live, wire, accepted, boundVars>>

\* Mutant: drain() saves once and does not look at what came meanwhile.
FlushedOnce ==
    /\ saves # <<>> /\ wire = Idle
    /\ Draining.trip /\ views[Draining.view].saving = NoText
    /\ saves' = Tail(saves)
    /\ Detach
    /\ LET view == views[Draining.view] IN
       Proceed(IF view.draft = Trip.draft THEN view.known ELSE Trip.record)
    /\ UNCHANGED <<host, row, live, wire, accepted, boundVars>>

\* The flush is done, and its draft is detached.  If it is the draft to be
\* opened, the record just saved is restored, and else the caller's.
Flushed ==
    /\ saves # <<>> /\ wire = Idle
    /\ Draining.trip /\ views[Draining.view].pending = NoText
    /\ saves' = Tail(saves)
    /\ Detach
    /\ LET view == views[Draining.view] IN
       Proceed(IF view.draft = Trip.draft THEN view.known ELSE Trip.record)
    /\ UNCHANGED <<host, row, live, wire, accepted, boundVars>>

\* The session is ready: its input gets the text, and is followed from now on.
Arrive ==
    /\ trips # <<>> /\ leg = "session"
    /\ live' = [live EXCEPT ![Trip.draft] = Trip.record.text]
    /\ views' = Append(views, [draft |-> Trip.draft, known |-> Trip.record,
                               pending |-> NoText, saving |-> NoText,
                               armed |-> FALSE, notified |-> FALSE])
    /\ active' = Len(views) + 1
    /\ TripEnds
    /\ UNCHANGED <<host, row, saves, wire, accepted, boundVars>>

\* The session does not get ready, or has no scope.
SessionFails ==
    /\ trips # <<>> /\ leg = "session"
    /\ losses < MaxLosses /\ losses' = losses + 1
    /\ TripFails
    /\ UNCHANGED <<host, row, live, views, active, saves, wire, accepted,
                   edits, opened, others>>

------------------------------------------------------------------------------
(* What others do.                                                         *)

\* The prompt of the current draft was accepted: its view is detached.
Finalized ==
    /\ active # 0 /\ others < MaxOthers /\ others' = others + 1
    /\ Detach
    /\ UNCHANGED <<host, row, live, saves, wire, trips, leg, accepted,
                   edits, opened, losses>>

\* A rename or a reorder in the sidebar, at the revision the sidebar has.
Rename(d) ==
    /\ others < MaxOthers /\ others' = others + 1
    /\ row[d].revision = host[d].revision
    /\ host' = [host EXCEPT ![d].revision = @ + 1]
    /\ row' = [row EXCEPT ![d] = host'[d]]
    /\ UNCHANGED <<live, views, active, saves, wire, trips, leg, accepted,
                   edits, opened, losses>>

\* Another browser saves a text of its own.
EditElsewhere(d) ==
    /\ edits < MaxEdits /\ edits' = edits + 1
    /\ host' = [host EXCEPT ![d] = [text |-> NewText(d), revision |-> @.revision + 1]]
    /\ UNCHANGED <<row, live, views, active, saves, wire, trips, leg, accepted,
                   opened, others, losses>>

\* The sidebar reads the list again.
Refresh ==
    /\ row # host /\ row' = host
    /\ UNCHANGED <<host, live, views, active, saves, wire, trips, leg, accepted, boundVars>>

------------------------------------------------------------------------------

Drain == Ask \/ SaveAccepted \/ SaveRefused \/ DrainEnds \/ Flushed

Travel == Depart \/ Arrive

Others == Finalized \/ Refresh \/ \E d \in Drafts : Rename(d) \/ EditElsewhere(d)

Next ==
    \/ Edit \/ Navigate \/ PauseEnds
    \/ Drain \/ HostUpdates \/ WireFails
    \/ Travel \/ SessionFails
    \/ Others

Spec == Init /\ [][Next]_vars

\* Timers fire, calls are answered or fail, sessions get ready or fail.
FairSpec ==
    /\ Spec
    /\ WF_vars(PauseEnds) /\ WF_vars(Drain) /\ WF_vars(HostUpdates) /\ WF_vars(Travel)

------------------------------------------------------------------------------
(* Properties.                                                             *)

Views ==
    [draft : Drafts, known : Records,
     pending : Texts \union {NoText}, saving : Texts \union {NoText},
     armed : BOOLEAN, notified : BOOLEAN]

TypeOK ==
    /\ host \in [Drafts -> Records] /\ row \in [Drafts -> Records]
    /\ live \in [Drafts -> Texts]
    /\ views \in Seq(Views) /\ active \in 0 .. Len(views)
    /\ saves \in Seq([view : 1 .. Len(views), trip : BOOLEAN])
    /\ wire.kind \in {"idle", "asked", "accepted", "refused"}
    /\ leg \in {"queued", "flush", "session"}
    /\ accepted \in [Drafts -> Nat]

\* A text is shown and stored only with the draft it was typed into
\* (architecture.md:47, "so text from two drafts cannot cross").
NoTextCrosses == \A d \in Drafts : live[d].of = d /\ host[d].text.of = d

\* What is in the input and not in the host's store is on its way: the pause
\* is running, or a drain of it is queued or running; or the user has been
\* shown that it could not be saved.
UnsavedIsOnItsWay ==
    active # 0 =>
        LET view == views[active] IN
        \/ live[view.draft] = view.known.text
        \/ view.armed \/ view.notified
        \/ \E i \in 1 .. Len(saves) : saves[i].view = active

\* A navigation leaves a draft only when the host has accepted its text
\* ("Persist every pending edit before navigation continues", composer.ts:160).
LeavesNothingUnsaved ==
    [][ active # 0 /\ active' = 0 /\ saves' # saves
            => live[views[active].draft] = views[active].known.text ]_vars

\* Nothing that was shown to the user when the draft was opened is older than
\* what the host has accepted from this composer before (composer.ts:107-110,
\* "restoring from it would repaint the composer with superseded text and aim
\* the next save at a revision the Host has already moved past").
RestoresAccepted ==
    [][ active' # active /\ active' # 0
            => views'[active'].known.revision >= accepted[views'[active'].draft] ]_vars

\* Every navigation ends, whatever fails in it or in front of it.
NavigationsEnd == (trips # <<>>) ~> (trips = <<>>)

\* What the user types is saved in the end, or the user is told, or leaves.
EditsSettle ==
    \A i \in 1 .. MaxTrips :
        (active = i /\ live[views[i].draft] # views[i].known.text)
            ~> (\/ active # i
                \/ live[views[i].draft] = views[i].known.text
                \/ views[i].notified)
=============================================================================
