------------------------- MODULE DraftComposerProofs -------------------------
(* What TLAPS proves of DraftComposer, for any drafts and any bounds.        *)
EXTENDS DraftComposer, SequenceTheorems, TLAPS

\* What is known to be of a draft: records, views and navigations whose texts
\* were typed into it.
RecordsOf(d) == {r \in Records : r.text.of = d}

OwnViews ==
    {v \in Views : /\ v.known \in RecordsOf(v.draft)
                   /\ v.pending # NoText => v.pending.of = v.draft
                   /\ v.saving # NoText => v.saving.of = v.draft}

OwnTrips ==
    {t \in [draft : Drafts \cup {NoDraft}, record : Records \cup {NoText}] :
        t.draft # NoDraft => t.record \in RecordsOf(t.draft)}

SavesFor(n) == [view : 1..n, trip : BOOLEAN]

\* The call on the wire is that of the drain in front.
WireTyped ==
    /\ wire.kind \in {"idle", "asked", "accepted", "refused"}
    /\ wire.kind = "idle" => wire = Idle
    /\ wire.kind # "idle" => saves # <<>>
    /\ wire.kind = "asked" =>
          /\ wire.draft = views[Head(saves).view].draft
          /\ wire.text \in Texts /\ wire.text.of = wire.draft
    /\ wire.kind = "accepted" => wire.record \in RecordsOf(views[Head(saves).view].draft)

TripsTyped ==
    /\ trips \in Seq(OwnTrips) /\ leg \in {"queued", "flush", "session"}
    /\ leg # "queued" => trips # <<>>
    /\ leg = "session" => Head(trips).draft # NoDraft

Typed ==
    /\ host \in [Drafts -> Records] /\ row \in [Drafts -> Records]
    /\ live \in [Drafts -> Texts]
    /\ \A d \in Drafts : host[d].text.of = d /\ row[d].text.of = d /\ live[d].of = d
    /\ views \in Seq(OwnViews) /\ active \in 0..Len(views)
    /\ saves \in Seq(SavesFor(Len(views)))
    /\ accepted \in [Drafts -> Nat] /\ edits \in Nat
    /\ WireTyped /\ TripsTyped

\* A drain that a navigation waits for: it is the only one, and its view the
\* current one, unless that was detached.
TripsWait ==
    \A i \in 1..Len(saves) : saves[i].trip =>
        /\ leg = "flush" /\ (active = 0 \/ saves[i].view = active)
        /\ \A j \in 1..Len(saves) : saves[j].trip => i = j

\* Sequences.
LEMMA Put ==
    ASSUME NEW S, NEW q \in Seq(S), NEW k \in 1..Len(q), NEW x \in S
    PROVE  LET r == [q EXCEPT ![k] = x] IN
           /\ r \in Seq(S) /\ Len(r) = Len(q)
           /\ \A i \in 1..Len(q) : r[i] = IF i = k THEN x ELSE q[i]
<1>1. [q EXCEPT ![k] = x] \in Seq(S) /\ Len([q EXCEPT ![k] = x]) = Len(q)
    BY ExceptSeq
<1> QED BY <1>1, LenProperties

LEMMA Elements ==
    ASSUME NEW S, NEW q \in Seq(S)
    PROVE  /\ Len(q) \in Nat /\ \A i \in 1..Len(q) : q[i] \in S
           /\ q # <<>> => /\ Len(q) > 0 /\ Head(q) = q[1] /\ Head(q) \in S
                          /\ Tail(q) \in Seq(S) /\ Len(Tail(q)) = Len(q) - 1
                          /\ \A i \in 1..Len(Tail(q)) : Tail(q)[i] = q[i + 1]
BY LenProperties, ElementOfSeq, HeadTailProperties, EmptySeq

LEMMA Joined ==
    ASSUME NEW S, NEW q \in Seq(S), NEW x \in S
    PROVE  LET a == Append(q, x) IN
           /\ a \in Seq(S) /\ Len(a) = Len(q) + 1 /\ a # <<>>
           /\ \A i \in 1..Len(q) : a[i] = q[i]
           /\ a[Len(q) + 1] = x
           /\ Head(a) = IF q = <<>> THEN x ELSE Head(q)
BY AppendProperties, HeadTailAppend

LEMMA MoreViews ==
    ASSUME NEW n \in Nat, NEW m \in Nat, n <= m, NEW q \in Seq(SavesFor(n))
    PROVE  q \in Seq(SavesFor(m))
<1>1. SavesFor(n) \subseteq SavesFor(m)
    BY DEF SavesFor
<1>2. Len(q) \in Nat /\ q = [i \in 1..Len(q) |-> q[i]] /\ \A i \in 1..Len(q) : q[i] \in SavesFor(m)
    BY <1>1, Elements, LenProperties
<1> QED BY <1>2, IsASeq

\* One view is replaced by another of the same draft.
LEMMA PutView ==
    ASSUME Typed, NEW k \in 1..Len(views), NEW v \in OwnViews, v.draft = views[k].draft,
           views' = [views EXCEPT ![k] = v]
    PROVE  /\ views' \in Seq(OwnViews) /\ Len(views') = Len(views) /\ views'[k] = v
           /\ \A i \in 1..Len(views) : views'[i] = IF i = k THEN v ELSE views[i]
           /\ \A i \in 1..Len(views) : views'[i].draft = views[i].draft
           /\ saves # <<>> => views'[Head(saves).view].draft = views[Head(saves).view].draft
<1>1. /\ views' \in Seq(OwnViews) /\ Len(views') = Len(views)
      /\ \A i \in 1..Len(views) : views'[i] = IF i = k THEN v ELSE views[i]
    BY Put DEF Typed
<1>2. saves # <<>> => Head(saves).view \in 1..Len(views)
  <2>1. saves # <<>> => Head(saves) \in SavesFor(Len(views))
    BY Elements DEF Typed
  <2> QED BY <2>1 DEF SavesFor
<1> QED BY <1>1, <1>2

LEMMA TypedInit == Init => Typed
<1> SUFFICES ASSUME Init PROVE Typed
    OBVIOUS
<1>1. \A d \in Drafts : First(d) \in Records /\ First(d).text.of = d /\ First(d).text \in Texts
    BY DEF First, Records, Texts
<1>2. views \in Seq(OwnViews) /\ saves \in Seq(SavesFor(Len(views))) /\ trips \in Seq(OwnTrips)
      /\ active \in 0..Len(views)
    BY EmptySeq DEF Init
<1>3. WireTyped /\ leg = "queued" /\ leg \in {"queued", "flush", "session"}
    BY DEF Init, WireTyped, Idle
<1>4. /\ host \in [Drafts -> Records] /\ row \in [Drafts -> Records] /\ live \in [Drafts -> Texts]
      /\ \A d \in Drafts : host[d].text.of = d /\ row[d].text.of = d /\ live[d].of = d
    BY <1>1 DEF Init
<1>5. accepted \in [Drafts -> Nat] /\ edits \in Nat
    BY DEF Init
<1> QED BY <1>2, <1>3, <1>4, <1>5 DEF Typed, TripsTyped

\* What a drain in front and a current view are.
LEMMA Fronts ==
    ASSUME Typed
    PROVE  /\ Len(views) \in Nat
           /\ active # 0 => active \in 1..Len(views)
           /\ \A i \in 1..Len(views) : views[i] \in OwnViews
           /\ saves # <<>> => /\ Head(saves) \in SavesFor(Len(views))
                              /\ Head(saves).view \in 1..Len(views)
                              /\ Tail(saves) \in Seq(SavesFor(Len(views)))
           /\ trips # <<>> => Head(trips) \in OwnTrips /\ Tail(trips) \in Seq(OwnTrips)
           /\ \A v \in OwnViews : /\ v \in Views /\ v.draft \in Drafts
                                  /\ v.known \in RecordsOf(v.draft)
<1>1. /\ Len(views) \in Nat /\ \A i \in 1..Len(views) : views[i] \in OwnViews
      /\ saves # <<>> => /\ Head(saves) \in SavesFor(Len(views))
                         /\ Tail(saves) \in Seq(SavesFor(Len(views)))
      /\ trips # <<>> => Head(trips) \in OwnTrips /\ Tail(trips) \in Seq(OwnTrips)
    BY Elements DEF Typed, TripsTyped
<1>2. saves # <<>> => Head(saves).view \in 1..Len(views)
    BY <1>1 DEF SavesFor
<1>3. active # 0 => active \in 1..Len(views)
    BY <1>1 DEF Typed
<1>4. \A v \in OwnViews : v \in Views /\ v.draft \in Drafts /\ v.known \in RecordsOf(v.draft)
    BY DEF OwnViews, Views
<1> QED BY <1>1, <1>2, <1>3, <1>4

\* What leaves views, drains and the wire alone, or replaces views of their own.
LEMMA WireStays ==
    ASSUME Typed, UNCHANGED wire, saves # <<>> => saves' # <<>> /\ Head(saves') = Head(saves),
           saves # <<>> => views'[Head(saves).view].draft = views[Head(saves).view].draft
    PROVE  WireTyped'
BY DEF Typed, WireTyped

LEMMA TripsEnd ==
    ASSUME Typed, trips # <<>>, TripEnds
    PROVE  TripsTyped'
BY Fronts DEF TripEnds, TripsTyped, Typed

LEMMA Proceeds ==
    ASSUME Typed, trips # <<>>, NEW record,
           Trip.draft # NoDraft => record \in RecordsOf(Trip.draft), Proceed(record)
    PROVE  TripsTyped'
<1>1. Trip \in OwnTrips /\ Tail(trips) \in Seq(OwnTrips)
    BY Fronts DEF Trip
<1>2. CASE Trip.draft = NoDraft
    BY <1>2, TripsEnd DEF Proceed
<1>3. CASE Trip.draft # NoDraft
  <2> DEFINE x == [Trip EXCEPT !.record = record]
  <2>1. /\ x \in OwnTrips /\ x.draft # NoDraft
        /\ trips' = <<x>> \o Tail(trips) /\ leg' = "session"
    BY <1>1, <1>3 DEF Proceed, OwnTrips, RecordsOf
  <2>2. trips' \in Seq(OwnTrips) /\ trips' # <<>> /\ Head(trips') = x
    <3> HIDE DEF x
    <3> QED BY <1>1, <2>1
  <2> QED BY <2>1, <2>2 DEF TripsTyped
<1> QED BY <1>2, <1>3

LEMMA Detaches ==
    ASSUME Typed, Detach
    PROVE  /\ views' \in Seq(OwnViews) /\ Len(views') = Len(views) /\ active' = 0
           /\ saves # <<>> => views'[Head(saves).view].draft = views[Head(saves).view].draft
           /\ active' \in 0..Len(views')
<1>1. CASE active = 0
    BY <1>1, Fronts DEF Detach, Typed
<1>2. CASE active # 0
  <2> DEFINE v == [views[active] EXCEPT !.armed = FALSE]
  <2>1. active \in 1..Len(views) /\ views[active] \in OwnViews
    BY <1>2, Fronts
  <2>2. v \in OwnViews /\ v.draft = views[active].draft
    BY <2>1 DEF OwnViews, Views
  <2>3. views' = [views EXCEPT ![active] = v] /\ active' = 0
    BY <1>2 DEF Detach
  <2> HIDE DEF v
  <2>4. /\ views' \in Seq(OwnViews) /\ Len(views') = Len(views)
        /\ saves # <<>> => views'[Head(saves).view].draft = views[Head(saves).view].draft
    BY <2>1, <2>2, <2>3, PutView
  <2>5. active' \in 0..Len(views')
    BY <2>3, <2>4, Fronts
  <2> QED BY <2>3, <2>4, <2>5
<1> QED BY <1>1, <1>2

LEMMA EditsTyped ==
    ASSUME Typed, Edit \/ PauseEnds
    PROVE  Typed'
<1>1. active \in 1..Len(views) /\ views[active] \in OwnViews
    BY Fronts DEF Edit, PauseEnds
<1>2. CASE Edit
  <2> DEFINE view == views[active]
  <2>1. PICK text \in {NewText(view.draft), view.known.text} \ {live[view.draft]} :
            /\ live' = [live EXCEPT ![view.draft] = text]
            /\ views' = [views EXCEPT ![active] = Edited(view, text)]
    BY <1>2 DEF Edit
  <2>2. view.draft \in Drafts /\ text \in Texts /\ text.of = view.draft
    <3>1. view.draft \in Drafts /\ view.known \in RecordsOf(view.draft)
      BY <1>1, Fronts
    <3>2. view.known.text \in Texts /\ view.known.text.of = view.draft
      BY <3>1 DEF RecordsOf, Records
    <3>3. NewText(view.draft) \in Texts /\ NewText(view.draft).of = view.draft
      BY <3>1 DEF NewText, Texts, Typed
    <3> QED BY <2>1, <3>1, <3>2, <3>3
  <2>3. Edited(view, text) \in OwnViews /\ Edited(view, text).draft = view.draft
    BY <1>1, <2>2 DEF Edited, OwnViews, Views
  <2> HIDE DEF view
  <2>4. /\ views' \in Seq(OwnViews) /\ Len(views') = Len(views)
        /\ saves # <<>> => views'[Head(saves).view].draft = views[Head(saves).view].draft
    BY <1>1, <2>1, <2>3, PutView DEF view
  <2>5. WireTyped' /\ TripsTyped'
    BY <1>2, <2>4, WireStays DEF Edit, Typed, TripsTyped
  <2>6. live' \in [Drafts -> Texts] /\ \A d \in Drafts : live'[d].of = d
    BY <2>1, <2>2 DEF Typed
  <2>7. edits' \in Nat
    BY <1>2 DEF Edit, Typed
  <2> QED BY <1>2, <2>4, <2>5, <2>6, <2>7 DEF Edit, Typed
<1>3. CASE PauseEnds
  <2> DEFINE v == [views[active] EXCEPT !.armed = FALSE]
             x == [view |-> active, trip |-> FALSE]
  <2>1. v \in OwnViews /\ v.draft = views[active].draft
    BY <1>1 DEF OwnViews, Views
  <2>2. views' = [views EXCEPT ![active] = v] /\ saves' = Append(saves, x)
    BY <1>3 DEF PauseEnds
  <2>3. x \in SavesFor(Len(views))
    BY <1>1 DEF SavesFor
  <2> HIDE DEF v, x
  <2>4. /\ views' \in Seq(OwnViews) /\ Len(views') = Len(views)
        /\ saves # <<>> => views'[Head(saves).view].draft = views[Head(saves).view].draft
    BY <1>1, <2>1, <2>2, PutView
  <2>5. /\ saves' \in Seq(SavesFor(Len(views'))) /\ saves' # <<>>
        /\ saves # <<>> => Head(saves') = Head(saves)
    <3>1. saves \in Seq(SavesFor(Len(views)))
      BY DEF Typed
    <3> QED BY <2>2, <2>3, <2>4, <3>1, Joined
  <2>6. WireTyped' /\ TripsTyped'
    BY <1>3, <2>4, <2>5, WireStays DEF PauseEnds, Typed, TripsTyped
  <2> QED BY <1>3, <2>4, <2>5, <2>6 DEF PauseEnds, Typed, boundVars
<1> QED BY <1>2, <1>3

LEMMA DrainsTyped ==
    ASSUME Typed, TripsWait, Ask \/ SaveAccepted \/ SaveRefused \/ DrainEnds \/ Flushed
                  \/ HostUpdates \/ WireFails
    PROVE  Typed'
<1> DEFINE k == Draining.view
           view == views[k]
<1>1. wire # Idle => saves # <<>>
    BY DEF Typed, WireTyped
<1>2. /\ saves # <<>> => /\ k \in 1..Len(views) /\ view \in OwnViews
                         /\ Tail(saves) \in Seq(SavesFor(Len(views)))
      /\ view \in OwnViews => view \in Views /\ view.draft \in Drafts
    BY Fronts DEF Draining, OwnViews
<1>3. CASE Ask
  <2> DEFINE v == [view EXCEPT !.pending = NoText, !.saving = view.pending]
  <2>1. /\ saves # <<>> /\ view.pending # NoText /\ views' = [views EXCEPT ![k] = v]
        /\ wire' = [kind |-> "asked", draft |-> view.draft,
                    expected |-> view.known.revision, text |-> view.pending]
    BY <1>3 DEF Ask
  <2>2. v \in OwnViews /\ v.draft = view.draft
    BY <1>2, <2>1 DEF OwnViews, Views
  <2>3. view.pending \in Texts /\ view.pending.of = view.draft
    BY <1>2, <2>1 DEF OwnViews, Views
  <2> HIDE DEF v
  <2>4. /\ views' \in Seq(OwnViews) /\ Len(views') = Len(views) /\ views'[k].draft = view.draft
    BY <1>2, <2>1, <2>2, PutView
  <2>5. WireTyped'
    BY <1>3, <2>1, <2>3, <2>4 DEF Ask, WireTyped, Draining
  <2>6. TripsTyped'
    BY <1>3 DEF Ask, Typed, TripsTyped
  <2> QED BY <1>3, <2>4, <2>5, <2>6 DEF Ask, Typed, boundVars
<1>4. CASE SaveAccepted
  <2>1. /\ saves # <<>> /\ wire.record \in RecordsOf(view.draft) /\ wire.kind = "accepted"
        /\ view \in OwnViews /\ view.draft \in Drafts /\ wire' = Idle
        /\ views' = [views EXCEPT ![k] = Saved(view, wire.record)]
        /\ row' = [row EXCEPT ![view.draft] = wire.record]
        /\ accepted' = [accepted EXCEPT ![view.draft] = wire.record.revision]
    BY <1>1, <1>2, <1>4 DEF SaveAccepted, Typed, WireTyped, Draining, Idle
  <2>2. Saved(view, wire.record) \in OwnViews /\ Saved(view, wire.record).draft = view.draft
    BY <2>1 DEF Saved, OwnViews, Views, RecordsOf, Typed
  <2>3. /\ views' \in Seq(OwnViews) /\ Len(views') = Len(views)
    BY <1>2, <2>1, <2>2, PutView
  <2>4. WireTyped' /\ TripsTyped'
    BY <1>4, <2>1 DEF SaveAccepted, Typed, WireTyped, TripsTyped, Idle
  <2>5. /\ row' \in [Drafts -> Records] /\ accepted' \in [Drafts -> Nat]
        /\ \A d \in Drafts : row'[d].text.of = d
    BY <2>1 DEF Typed, RecordsOf, Records
  <2> QED BY <1>4, <2>3, <2>4, <2>5 DEF SaveAccepted, Typed, boundVars
<1>5. CASE SaveRefused
  <2>1. /\ saves # <<>> /\ view \in OwnViews /\ view.draft \in Drafts /\ wire' = Idle
        /\ views' = [views EXCEPT ![k] = Unsaved(view)] /\ saves' = Tail(saves)
    BY <1>1, <1>2, <1>5 DEF SaveRefused, Idle
  <2>2. Unsaved(view) \in OwnViews /\ Unsaved(view).draft = view.draft
    BY <2>1 DEF Unsaved, OwnViews, Views, Typed
  <2>3. views' \in Seq(OwnViews) /\ Len(views') = Len(views)
    BY <1>2, <2>1, <2>2, PutView
  <2>4. WireTyped'
    BY <2>1 DEF WireTyped, Idle
  <2>5. TripsTyped'
    <3>1. CASE Draining.trip
      <4>1. trips # <<>>
        BY <2>1, <3>1 DEF TripsWait, Draining, Typed, TripsTyped
      <4> QED BY <1>5, <3>1, <4>1, TripsEnd DEF SaveRefused, TripFails
    <3>2. CASE ~Draining.trip
      BY <1>5, <3>2 DEF SaveRefused, Typed, TripsTyped
    <3> QED BY <3>1, <3>2
  <2> QED BY <1>2, <1>5, <2>1, <2>3, <2>4, <2>5 DEF SaveRefused, Typed, boundVars
<1>6. CASE DrainEnds
  <2>1. WireTyped' /\ TripsTyped' /\ saves # <<>> /\ saves' = Tail(saves)
    BY <1>6 DEF DrainEnds, Typed, WireTyped, TripsTyped, Idle
  <2> QED BY <1>2, <1>6, <2>1 DEF DrainEnds, Typed, boundVars
<1>7. CASE Flushed
  <2> DEFINE record == IF view.draft = Trip.draft THEN view.known ELSE Trip.record
  <2>1. /\ saves # <<>> /\ saves' = Tail(saves) /\ wire = Idle /\ UNCHANGED wire
        /\ Detach /\ Proceed(record) /\ Draining.trip
    BY <1>7 DEF Flushed
  <2>2. trips # <<>> /\ view.known \in RecordsOf(view.draft)
    BY <1>2, <2>1, Fronts DEF TripsWait, Draining, Typed, TripsTyped
  <2>3. Trip \in OwnTrips
    BY <2>2, Fronts DEF Trip
  <2>4. Trip.draft # NoDraft => record \in RecordsOf(Trip.draft)
    BY <2>2, <2>3 DEF OwnTrips
  <2> HIDE DEF record
  <2>5. TripsTyped'
    BY <2>1, <2>2, <2>4, Proceeds
  <2>6. WireTyped'
    BY <2>1 DEF WireTyped, Idle
  <2>7. /\ views' \in Seq(OwnViews) /\ Len(views') = Len(views) /\ active' \in 0..Len(views')
    BY <2>1, Detaches
  <2> QED BY <1>2, <1>7, <2>1, <2>5, <2>6, <2>7 DEF Flushed, Typed, boundVars
<1>8. CASE HostUpdates
  <2> DEFINE record == host[wire.draft]
             new == [text |-> wire.text, revision |-> record.revision + 1]
  <2>1. /\ wire.kind = "asked" /\ saves # <<>> /\ wire.draft = view.draft /\ wire.draft \in Drafts
        /\ wire.text \in Texts /\ wire.text.of = wire.draft
    BY <1>2, <1>8 DEF HostUpdates, Typed, WireTyped, Draining
  <2>2. new \in Records /\ new.text.of = view.draft
    BY <2>1 DEF Typed, Records
  <2>3. CASE wire' = [kind |-> "refused"] /\ UNCHANGED host
    <3>1. WireTyped' /\ TripsTyped'
      BY <1>8, <2>1, <2>3 DEF HostUpdates, Typed, WireTyped, TripsTyped, Idle
    <3> QED BY <1>8, <2>3, <3>1 DEF HostUpdates, Typed, boundVars
  <2>4. CASE host' = [host EXCEPT ![wire.draft] = new] /\ wire' = [kind |-> "accepted", record |-> new]
    <3>1. host' \in [Drafts -> Records] /\ \A d \in Drafts : host'[d].text.of = d
      BY <2>1, <2>2, <2>4 DEF Typed
    <3>2. new \in RecordsOf(views[Head(saves).view].draft)
      BY <2>2 DEF RecordsOf, Draining
    <3> HIDE DEF new
    <3>3. WireTyped' /\ TripsTyped'
      BY <1>8, <2>1, <2>4, <3>2 DEF HostUpdates, Typed, WireTyped, TripsTyped, Idle
    <3> QED BY <1>8, <3>1, <3>3 DEF HostUpdates, Typed, boundVars
  <2> QED BY <1>8, <2>3, <2>4 DEF HostUpdates
<1>9. CASE WireFails
  <2>1. WireTyped' /\ TripsTyped'
    BY <1>9 DEF WireFails, Typed, WireTyped, TripsTyped, Idle
  <2> QED BY <1>9, <2>1 DEF WireFails, Typed
<1> QED BY <1>3, <1>4, <1>5, <1>6, <1>7, <1>8, <1>9

LEMMA TravelsTyped ==
    ASSUME Typed, Navigate \/ Depart \/ Arrive \/ SessionFails
    PROVE  Typed'
<1>1. CASE Navigate
  <2>1. \A d \in Drafts : [draft |-> d, record |-> row[d]] \in OwnTrips
    BY DEF OwnTrips, RecordsOf, Typed
  <2>2. [draft |-> NoDraft, record |-> NoText] \in OwnTrips
    BY DEF OwnTrips
  <2>3. PICK x \in OwnTrips : trips' = Append(trips, x)
    BY <1>1, <2>1, <2>2 DEF Navigate
  <2>4. TripsTyped'
    BY <1>1, <2>3, Joined DEF Navigate, Typed, TripsTyped
  <2>5. WireTyped'
    BY <1>1, WireStays DEF Navigate
  <2> QED BY <1>1, <2>4, <2>5 DEF Navigate, Typed
<1>2. CASE Depart
  <2>1. CASE active # 0
    <3> DEFINE v == [views[active] EXCEPT !.armed = FALSE]
               x == [view |-> active, trip |-> TRUE]
    <3>1. /\ active \in 1..Len(views) /\ views[active] \in OwnViews /\ x \in SavesFor(Len(views))
      BY <2>1, Fronts DEF SavesFor
    <3>2. v \in OwnViews /\ v.draft = views[active].draft
      BY <3>1 DEF OwnViews, Views
    <3>3. /\ views' = [views EXCEPT ![active] = v] /\ saves' = Append(saves, x) /\ leg' = "flush"
          /\ UNCHANGED <<active, trips, host, row, live, wire, accepted, boundVars>> /\ trips # <<>>
      BY <1>2, <2>1 DEF Depart
    <3> HIDE DEF v, x
    <3>4. /\ views' \in Seq(OwnViews) /\ Len(views') = Len(views)
          /\ saves # <<>> => views'[Head(saves).view].draft = views[Head(saves).view].draft
      BY <3>1, <3>2, <3>3, PutView
    <3>5. /\ saves' \in Seq(SavesFor(Len(views'))) /\ saves' # <<>>
          /\ saves # <<>> => Head(saves') = Head(saves)
      <4>1. saves \in Seq(SavesFor(Len(views)))
        BY DEF Typed
      <4> QED BY <3>1, <3>3, <3>4, <4>1, Joined
    <3>6. WireTyped' /\ TripsTyped'
      BY <3>3, <3>4, <3>5, WireStays DEF Typed, TripsTyped
    <3> QED BY <3>3, <3>4, <3>5, <3>6 DEF Typed, boundVars
  <2>2. CASE active = 0
    <3>1. /\ trips # <<>> /\ Proceed(Trip.record)
          /\ UNCHANGED <<active, views, saves, host, row, live, wire, accepted, boundVars>>
      BY <1>2, <2>2 DEF Depart
    <3>2. Trip.draft # NoDraft => Trip.record \in RecordsOf(Trip.draft)
      BY <3>1, Fronts DEF Trip, OwnTrips
    <3>3. TripsTyped' /\ WireTyped'
      BY <3>1, <3>2, Proceeds, WireStays
    <3> QED BY <3>1, <3>3 DEF Typed, boundVars
  <2> QED BY <2>1, <2>2
<1>3. CASE Arrive
  <2> DEFINE v == [draft |-> Trip.draft, known |-> Trip.record, pending |-> NoText,
                   saving |-> NoText, armed |-> FALSE, notified |-> FALSE]
  <2>1. Trip \in OwnTrips /\ Trip.draft \in Drafts /\ Trip.record \in RecordsOf(Trip.draft)
    BY <1>3, Fronts DEF Arrive, Trip, OwnTrips, Typed, TripsTyped
  <2>2. v \in OwnViews
    BY <2>1 DEF OwnViews, Views, RecordsOf
  <2>3. views' = Append(views, v) /\ active' = Len(views) + 1 /\ TripEnds /\ trips # <<>>
    BY <1>3 DEF Arrive
  <2> HIDE DEF v
  <2>4. /\ views' \in Seq(OwnViews) /\ Len(views') = Len(views) + 1 /\ Len(views) \in Nat
        /\ \A i \in 1..Len(views) : views'[i] = views[i]
    BY <2>2, <2>3, Joined, Fronts DEF Typed
  <2>5. active' \in 0..Len(views')
    BY <2>3, <2>4
  <2>6. saves' \in Seq(SavesFor(Len(views')))
    BY <1>3, <2>4, MoreViews DEF Arrive, Typed
  <2>7. WireTyped'
    BY <1>3, <2>4, WireStays, Fronts DEF Arrive
  <2>8. TripsTyped'
    BY <2>3, TripsEnd
  <2>9. live' \in [Drafts -> Texts] /\ \A d \in Drafts : live'[d].of = d
    BY <1>3, <2>1 DEF Arrive, Typed, RecordsOf, Records
  <2> QED BY <1>3, <2>4, <2>5, <2>6, <2>7, <2>8, <2>9 DEF Arrive, Typed, boundVars
<1>4. CASE SessionFails
  <2>1. TripsTyped' /\ WireTyped'
    BY <1>4, TripsEnd, WireStays DEF SessionFails, TripFails
  <2> QED BY <1>4, <2>1 DEF SessionFails, Typed
<1> QED BY <1>1, <1>2, <1>3, <1>4

LEMMA OthersTyped ==
    ASSUME Typed, Others
    PROVE  Typed'
<1>1. CASE Finalized
  <2>1. /\ views' \in Seq(OwnViews) /\ Len(views') = Len(views) /\ active' \in 0..Len(views')
        /\ WireTyped' /\ TripsTyped'
    BY <1>1, Detaches, WireStays DEF Finalized, Typed, TripsTyped
  <2> QED BY <1>1, <2>1 DEF Finalized, Typed
<1>2. CASE Refresh
  <2>1. WireTyped' /\ TripsTyped'
    BY <1>2, WireStays DEF Refresh, Typed, TripsTyped
  <2> QED BY <1>2, <2>1 DEF Refresh, Typed, boundVars
<1>3. ASSUME NEW d \in Drafts, Rename(d) PROVE Typed'
  <2>1. WireTyped' /\ TripsTyped'
    BY <1>3, WireStays DEF Rename, Typed, TripsTyped
  <2> DEFINE x == [host[d] EXCEPT !.revision = host[d].revision + 1]
  <2>2. host[d] \in Records /\ host[d].text.of = d
    BY DEF Typed
  <2>3. x \in Records /\ x.text.of = d
    BY <2>2 DEF Records
  <2>4. host' = [host EXCEPT ![d] = x]
    BY <1>3 DEF Rename, Typed
  <2> HIDE DEF x
  <2>5. host' \in [Drafts -> Records] /\ \A e \in Drafts : host'[e].text.of = e
    BY <2>3, <2>4 DEF Typed
  <2>6. row' \in [Drafts -> Records] /\ \A e \in Drafts : row'[e].text.of = e
    BY <1>3, <2>5 DEF Rename, Typed
  <2> QED BY <1>3, <2>1, <2>5, <2>6 DEF Rename, Typed
<1>4. ASSUME NEW d \in Drafts, EditElsewhere(d) PROVE Typed'
  <2> DEFINE x == [text |-> NewText(d), revision |-> host[d].revision + 1]
  <2>1. WireTyped' /\ TripsTyped'
    BY <1>4, WireStays DEF EditElsewhere, Typed, TripsTyped
  <2>2. x \in Records /\ x.text.of = d
    BY DEF Typed, Records, NewText, Texts
  <2>3. host' = [host EXCEPT ![d] = x] /\ edits' \in Nat
    BY <1>4 DEF EditElsewhere, Typed
  <2> HIDE DEF x
  <2>4. host' \in [Drafts -> Records] /\ \A e \in Drafts : host'[e].text.of = e
    BY <2>2, <2>3 DEF Typed
  <2> QED BY <1>4, <2>1, <2>3, <2>4 DEF EditElsewhere, Typed
<1> QED BY <1>1, <1>2, <1>3, <1>4 DEF Others

------------------------------------------------------------------------------
(* What flows from the input to the host.                                    *)

\* The input shows what the current view is about to save, else what it has
\* saved: the composer knows of every edit.
InputIsKnown ==
    active # 0 =>
        LET view == views[active] IN
        live[view.draft] = IF view.pending # NoText THEN view.pending ELSE Expected(view)

\* A text on its way is that of the drain in front, whose call is on the wire.
SavingIsAsked ==
    \A i \in 1..Len(views) : views[i].saving # NoText =>
        wire # Idle /\ saves # <<>> /\ Head(saves).view = i

FlowInv == TripsWait /\ InputIsKnown /\ SavingIsAsked /\ UnsavedIsOnItsWay

LEMMA FlowInit == Init => FlowInv
<1> SUFFICES ASSUME Init PROVE FlowInv
    OBVIOUS
<1>1. Len(views) = 0 /\ Len(saves) = 0 /\ active = 0
    BY DEF Init
<1> QED BY <1>1 DEF FlowInv, TripsWait, InputIsKnown, SavingIsAsked, UnsavedIsOnItsWay

\* What leaves the input, the views and the drains alone.
LEMMA FlowStays ==
    ASSUME FlowInv, UNCHANGED <<live, views, active, saves>>, wire # Idle => wire' # Idle,
           leg' = leg \/ leg # "flush"
    PROVE  FlowInv'
<1>1. TripsWait'
    BY DEF FlowInv, TripsWait
<1>2. InputIsKnown' /\ UnsavedIsOnItsWay'
    BY DEF FlowInv, InputIsKnown, UnsavedIsOnItsWay, Expected
<1>3. SavingIsAsked'
    BY DEF FlowInv, SavingIsAsked
<1> QED BY <1>1, <1>2, <1>3 DEF FlowInv

\* What joins the line of drains: only one that a navigation waits for changes
\* who waits.
LEMMA Joins ==
    ASSUME Typed, TripsWait, NEW x \in SavesFor(Len(views)), saves' = Append(saves, x),
           active' = active, x.trip => leg # "flush" /\ leg' = "flush" /\ x.view = active,
           ~x.trip => leg' = leg
    PROVE  TripsWait'
<1>1. /\ Len(saves) \in Nat /\ Len(saves') = Len(saves) + 1
      /\ \A i \in 1..Len(saves) : saves'[i] = saves[i]
      /\ saves'[Len(saves) + 1] = x
    BY Elements, Joined DEF Typed
<1>2. CASE x.trip
  <2>1. \A i \in 1..Len(saves) : ~saves[i].trip
    BY <1>2 DEF TripsWait
  <2> QED BY <1>1, <1>2, <2>1 DEF TripsWait
<1>3. CASE ~x.trip
    BY <1>1, <1>3 DEF TripsWait
<1> QED BY <1>2, <1>3

\* What leaves the line of drains in front.
LEMMA LeavesLine ==
    ASSUME Typed, TripsWait, saves # <<>>, saves' = Tail(saves),
           active' = active \/ active' = 0, leg' = leg \/ Draining.trip
    PROVE  TripsWait'
<1>1. /\ Len(saves) \in Nat /\ Len(saves) > 0 /\ Head(saves) = saves[1] /\ Len(saves') = Len(saves) - 1
      /\ \A i \in 1..Len(saves') : saves'[i] = saves[i + 1]
    BY Elements DEF Typed
<1>2. CASE Draining.trip
  <2>1. \A j \in 1..Len(saves) : saves[j].trip => j = 1
    BY <1>1, <1>2 DEF TripsWait, Draining
  <2>2. \A i \in 1..Len(saves') : ~saves'[i].trip
    BY <1>1, <2>1
  <2> QED BY <2>2 DEF TripsWait
<1>3. CASE ~Draining.trip
  <2>1. leg' = leg
    BY <1>3
  <2> SUFFICES ASSUME NEW i \in 1..Len(saves'), saves'[i].trip
               PROVE  /\ leg' = "flush" /\ (active' = 0 \/ saves'[i].view = active')
                      /\ \A j \in 1..Len(saves') : saves'[j].trip => i = j
    BY DEF TripsWait
  <2>2. i + 1 \in 1..Len(saves) /\ saves[i + 1].trip /\ saves'[i] = saves[i + 1]
    BY <1>1
  <2>3. \A j \in 1..Len(saves') : saves'[j].trip => i + 1 = j + 1
    BY <1>1, <2>2 DEF TripsWait
  <2> QED BY <2>1, <2>2, <2>3 DEF TripsWait
<1> QED BY <1>2, <1>3

\* The drains behind the one in front are still in the line without it.
LEMMA Behind ==
    ASSUME Typed, saves # <<>>, saves' = Tail(saves), NEW i \in 1..Len(saves),
           saves[i].view # Head(saves).view
    PROVE  \E j \in 1..Len(saves') : saves'[j].view = saves[i].view
<1>1. /\ Len(saves) \in Nat /\ Len(saves) > 0 /\ Head(saves) = saves[1] /\ Len(saves') = Len(saves) - 1
      /\ \A j \in 1..Len(saves') : saves'[j] = saves[j + 1]
    BY Elements DEF Typed
<1>2. i # 1 /\ i \in Nat
    BY <1>1
<1>3. i - 1 \in 1..Len(saves') /\ saves'[i - 1] = saves[i]
    BY <1>1, <1>2
<1> QED BY <1>3

LEMMA EditsFlow ==
    ASSUME Typed, FlowInv, Edit \/ PauseEnds
    PROVE  FlowInv'
<1>1. active \in 1..Len(views) /\ views[active] \in OwnViews /\ active # 0 /\ Len(views) \in Nat
    BY Fronts DEF Edit, PauseEnds
<1>2. CASE Edit
  <2> DEFINE view == views[active]
  <2>1. PICK text \in {NewText(view.draft), view.known.text} \ {live[view.draft]} :
            /\ live' = [live EXCEPT ![view.draft] = text]
            /\ views' = [views EXCEPT ![active] = Edited(view, text)]
    BY <1>2 DEF Edit
  <2>2. view.draft \in Drafts
    BY <1>1, Fronts
  <2>3. /\ views'[active] = Edited(view, text) /\ Len(views') = Len(views)
        /\ \A i \in 1..Len(views) : i # active => views'[i] = views[i]
    BY <1>1, <2>1 DEF Typed
  <2>4. live'[view.draft] = text
    BY <2>1, <2>2 DEF Typed
  <2>5. TripsWait'
    BY <1>2 DEF Edit, FlowInv, TripsWait
  <2>6. /\ Edited(view, text).draft = view.draft /\ Edited(view, text).saving = view.saving
        /\ Edited(view, text).known = view.known
        /\ Edited(view, text).pending = IF text # Expected(view) THEN text ELSE NoText
        /\ Edited(view, text).armed = (text # Expected(view))
    BY <1>1 DEF Edited, OwnViews, Views
  <2>7. text # NoText
    <3>1. view.known.text \in Texts /\ NewText(view.draft) \in Texts
      <4>1. view.known \in Records
        BY <1>1 DEF OwnViews, Views
      <4>2. view.known.text \in Texts
        BY <4>1 DEF Records
      <4>3. NewText(view.draft) \in Texts
        BY <2>2 DEF NewText, Texts, Typed
      <4> QED BY <4>2, <4>3
    <3> QED BY <2>1, <3>1, ConstantsAssumption
  <2>8. active' = active /\ wire' = wire /\ saves' = saves
    BY <1>2 DEF Edit
  <2>9. InputIsKnown'
    BY <2>3, <2>4, <2>6, <2>7, <2>8 DEF InputIsKnown, Expected
  <2>10. SavingIsAsked'
    BY <1>1, <2>3, <2>6, <2>8 DEF FlowInv, SavingIsAsked
  <2>11. UnsavedIsOnItsWay'
    <3>1. CASE text # Expected(view)
      BY <2>3, <2>6, <2>8, <3>1 DEF UnsavedIsOnItsWay
    <3>2. CASE text = Expected(view) /\ view.saving = NoText
      BY <2>3, <2>4, <2>6, <2>8, <3>2 DEF UnsavedIsOnItsWay, Expected
    <3>3. CASE view.saving # NoText
      <4>1. saves # <<>> /\ Head(saves).view = active
        BY <1>1, <3>3 DEF FlowInv, SavingIsAsked
      <4>2. 1 \in 1..Len(saves) /\ saves[1].view = active
        BY <4>1, Elements DEF Typed
      <4> QED BY <2>8, <4>2 DEF UnsavedIsOnItsWay
    <3> QED BY <3>1, <3>2, <3>3
  <2> QED BY <2>5, <2>9, <2>10, <2>11 DEF FlowInv
<1>3. CASE PauseEnds
  <2> DEFINE x == [view |-> active, trip |-> FALSE]
  <2>1. /\ views' = [views EXCEPT ![active].armed = FALSE] /\ saves' = Append(saves, x)
        /\ UNCHANGED <<live, active, wire, leg>>
    BY <1>3 DEF PauseEnds
  <2>2. x \in SavesFor(Len(views)) /\ x.view = active /\ ~x.trip
    BY <1>1 DEF SavesFor
  <2> HIDE DEF x
  <2>3. TripsWait'
    BY <2>1, <2>2, Joins DEF FlowInv
  <2>4. /\ Len(views') = Len(views)
        /\ \A i \in 1..Len(views) : /\ views'[i].draft = views[i].draft
                                    /\ views'[i].pending = views[i].pending
                                    /\ views'[i].saving = views[i].saving
                                    /\ views'[i].known = views[i].known
    BY <1>1, <2>1 DEF Typed, OwnViews, Views
  <2>5. /\ Len(saves) \in Nat /\ Len(saves') = Len(saves) + 1 /\ saves'[Len(saves) + 1] = x
        /\ saves' # <<>> /\ saves # <<>> => Head(saves') = Head(saves)
    BY <2>1, <2>2, Elements, Joined DEF Typed
  <2>6. InputIsKnown'
    BY <1>1, <2>1, <2>4 DEF FlowInv, InputIsKnown, Expected
  <2>7. SavingIsAsked'
    BY <2>1, <2>4, <2>5 DEF FlowInv, SavingIsAsked
  <2>8. UnsavedIsOnItsWay'
    <3>1. Len(saves) + 1 \in 1..Len(saves') /\ saves'[Len(saves) + 1].view = active'
      BY <2>1, <2>2, <2>5
    <3> QED BY <3>1 DEF UnsavedIsOnItsWay
  <2> QED BY <2>3, <2>6, <2>7, <2>8 DEF FlowInv
<1> QED BY <1>2, <1>3

\* A view that is detached keeps what it was saving.
LEMMA DetachKeepsSaving ==
    ASSUME Typed, Detach
    PROVE  /\ Len(views') = Len(views)
           /\ \A i \in 1..Len(views) : views'[i].saving = views[i].saving
<1>1. CASE active = 0
    BY <1>1 DEF Detach
<1>2. CASE active # 0
    BY <1>2, Fronts DEF Detach, Typed, OwnViews, Views
<1> QED BY <1>1, <1>2

LEMMA DrainsFlow ==
    ASSUME Typed, FlowInv, Ask \/ SaveAccepted \/ SaveRefused \/ DrainEnds \/ Flushed
    PROVE  FlowInv'
<1> DEFINE k == Draining.view
           view == views[k]
<1>1. saves # <<>> /\ k \in 1..Len(views) /\ view \in OwnViews /\ view.draft \in Drafts
    <2>1. saves # <<>>
      BY DEF Ask, SaveAccepted, SaveRefused, DrainEnds, Flushed, Typed, WireTyped, Idle
    <2> QED BY <2>1, Fronts DEF Draining
<1>2. /\ Len(views) \in Nat /\ Len(saves) \in Nat /\ 1 \in 1..Len(saves) /\ saves[1].view = k
      /\ active # 0 => active \in 1..Len(views)
    BY <1>1, Fronts, Elements DEF Typed, Draining
<1>3. wire = Idle => \A i \in 1..Len(views) : views[i].saving = NoText
    BY DEF FlowInv, SavingIsAsked
<1>4. \A i \in 1..Len(views) : i # k => views[i].saving = NoText
    BY DEF FlowInv, SavingIsAsked, Draining
<1>5. CASE Ask
  <2> DEFINE v == [view EXCEPT !.pending = NoText, !.saving = view.pending]
  <2>1. /\ view.pending # NoText /\ views' = [views EXCEPT ![k] = v] /\ wire = Idle /\ wire' # Idle
        /\ UNCHANGED <<live, active, saves, leg>>
    BY <1>5 DEF Ask, Idle
  <2>2. /\ v.draft = view.draft /\ v.pending = NoText /\ v.saving = view.pending /\ v.known = view.known
        /\ v.armed = view.armed /\ v.notified = view.notified
    BY <1>1 DEF OwnViews, Views
  <2> HIDE DEF v
  <2>3. /\ Len(views') = Len(views) /\ views'[k] = v
        /\ \A i \in 1..Len(views) : i # k => views'[i] = views[i]
    BY <1>1, <2>1 DEF Typed
  <2>4. TripsWait'
    BY <2>1 DEF FlowInv, TripsWait
  <2>5. InputIsKnown'
    BY <1>2, <2>1, <2>2, <2>3 DEF FlowInv, InputIsKnown, Expected
  <2>6. SavingIsAsked'
    BY <1>1, <1>3, <2>1, <2>2, <2>3 DEF SavingIsAsked, Draining
  <2>7. UnsavedIsOnItsWay'
    BY <1>2, <2>1, <2>2, <2>3 DEF FlowInv, UnsavedIsOnItsWay
  <2> QED BY <2>4, <2>5, <2>6, <2>7 DEF FlowInv
<1>6. CASE SaveAccepted
  <2> DEFINE v == Saved(view, wire.record)
  <2>1. /\ views' = [views EXCEPT ![k] = v] /\ wire' = Idle
        /\ UNCHANGED <<live, active, saves, leg>>
    BY <1>6 DEF SaveAccepted
  <2>2. /\ v.draft = view.draft /\ v.known = wire.record /\ v.saving = NoText
        /\ v.pending = IF view.pending = NoText /\ live[view.draft] # wire.record.text
                       THEN live[view.draft] ELSE view.pending
        /\ v.armed = view.armed /\ v.notified = view.notified
    BY <1>1 DEF Saved, OwnViews, Views
  <2> HIDE DEF v
  <2>3. /\ Len(views') = Len(views) /\ views'[k] = v
        /\ \A i \in 1..Len(views) : i # k => views'[i] = views[i]
    BY <1>1, <2>1 DEF Typed
  <2>4. TripsWait'
    BY <2>1 DEF FlowInv, TripsWait
  <2>5. InputIsKnown'
    <3>1. live[view.draft] # NoText
      BY <1>1, ConstantsAssumption DEF Typed
    <3> QED BY <1>2, <2>1, <2>2, <2>3, <3>1 DEF FlowInv, InputIsKnown, Expected
  <2>6. SavingIsAsked'
    BY <1>4, <2>2, <2>3 DEF SavingIsAsked
  <2>7. UnsavedIsOnItsWay'
    BY <1>2, <2>1, <2>2, <2>3 DEF FlowInv, UnsavedIsOnItsWay
  <2> QED BY <2>4, <2>5, <2>6, <2>7 DEF FlowInv
<1>7. CASE SaveRefused
  <2> DEFINE v == Unsaved(view)
  <2>1. /\ views' = [views EXCEPT ![k] = v] /\ wire' = Idle /\ saves' = Tail(saves)
        /\ UNCHANGED <<live, active>> /\ (leg' = leg \/ Draining.trip)
    BY <1>7 DEF SaveRefused
  <2>2. /\ v.draft = view.draft /\ v.saving = NoText /\ v.pending = live[view.draft]
        /\ v.notified = TRUE
    BY <1>1 DEF Unsaved, OwnViews, Views
  <2> HIDE DEF v
  <2>3. /\ Len(views') = Len(views) /\ views'[k] = v
        /\ \A i \in 1..Len(views) : i # k => views'[i] = views[i]
    BY <1>1, <2>1 DEF Typed
  <2>4. TripsWait'
    BY <1>1, <2>1, LeavesLine DEF FlowInv
  <2>5. InputIsKnown'
    <3>1. live[view.draft] # NoText
      BY <1>1, ConstantsAssumption DEF Typed
    <3> QED BY <1>2, <2>1, <2>2, <2>3, <3>1 DEF FlowInv, InputIsKnown, Expected
  <2>6. SavingIsAsked'
    BY <1>4, <2>2, <2>3 DEF SavingIsAsked
  <2>7. UnsavedIsOnItsWay'
    <3>1. CASE active = k
      BY <2>1, <2>2, <2>3, <3>1 DEF UnsavedIsOnItsWay
    <3>2. CASE active # 0 /\ active # k
      <4>1. views'[active] = views[active]
        BY <1>2, <2>3, <3>2
      <4>2. \A i \in 1..Len(saves) : saves[i].view = active
                => \E j \in 1..Len(saves') : saves'[j].view = active
        BY <1>1, <2>1, <3>2, Behind DEF Draining
      <4> QED BY <2>1, <3>2, <4>1, <4>2 DEF FlowInv, UnsavedIsOnItsWay
    <3> QED BY <2>1, <3>1, <3>2 DEF UnsavedIsOnItsWay
  <2> QED BY <2>4, <2>5, <2>6, <2>7 DEF FlowInv
<1>8. CASE DrainEnds
  <2>1. /\ wire = Idle /\ view.pending = NoText /\ saves' = Tail(saves)
        /\ UNCHANGED <<live, views, active, wire, leg>>
    BY <1>8 DEF DrainEnds
  <2>2. TripsWait'
    BY <1>1, <2>1, LeavesLine DEF FlowInv
  <2>3. InputIsKnown'
    BY <2>1 DEF FlowInv, InputIsKnown, Expected
  <2>4. SavingIsAsked'
    BY <1>3, <2>1 DEF SavingIsAsked
  <2>5. UnsavedIsOnItsWay'
    <3>1. CASE active = k
      <4>1. live[view.draft] = view.known.text
        BY <1>1, <1>2, <1>3, <2>1, <3>1 DEF FlowInv, InputIsKnown, Expected
      <4> QED BY <2>1, <3>1, <4>1 DEF UnsavedIsOnItsWay
    <3>2. CASE active # k
      <4>1. \A i \in 1..Len(saves) : saves[i].view = active
                => \E j \in 1..Len(saves') : saves'[j].view = active
        BY <1>1, <2>1, <3>2, Behind DEF Draining
      <4> QED BY <2>1, <4>1 DEF FlowInv, UnsavedIsOnItsWay
    <3> QED BY <3>1, <3>2
  <2> QED BY <2>2, <2>3, <2>4, <2>5 DEF FlowInv
<1>9. CASE Flushed
  <2>1. /\ wire = Idle /\ saves' = Tail(saves) /\ Draining.trip /\ Detach /\ UNCHANGED <<live, wire>>
    BY <1>9 DEF Flushed
  <2>2. TripsWait'
    BY <1>1, <2>1, LeavesLine DEF FlowInv, Detach
  <2>3. SavingIsAsked'
    BY <1>3, <2>1, DetachKeepsSaving DEF SavingIsAsked
  <2> QED BY <2>1, <2>2, <2>3 DEF FlowInv, InputIsKnown, UnsavedIsOnItsWay, Detach
<1> QED BY <1>5, <1>6, <1>7, <1>8, <1>9

LEMMA TravelsFlow ==
    ASSUME Typed, FlowInv, Depart \/ Arrive
    PROVE  FlowInv'
<1>1. CASE Depart /\ active # 0
  <2> DEFINE x == [view |-> active, trip |-> TRUE]
  <2>1. /\ views' = [views EXCEPT ![active].armed = FALSE] /\ saves' = Append(saves, x)
        /\ leg = "queued" /\ leg' = "flush" /\ UNCHANGED <<live, active, wire>>
    BY <1>1 DEF Depart
  <2>2. /\ active \in 1..Len(views) /\ x \in SavesFor(Len(views)) /\ x.view = active /\ x.trip
    BY <1>1, Fronts DEF SavesFor
  <2> HIDE DEF x
  <2>3. TripsWait'
    BY <2>1, <2>2, Joins DEF FlowInv
  <2>4. /\ Len(views') = Len(views)
        /\ \A i \in 1..Len(views) : /\ views'[i].draft = views[i].draft
                                    /\ views'[i].pending = views[i].pending
                                    /\ views'[i].saving = views[i].saving
                                    /\ views'[i].known = views[i].known
    BY <2>1, <2>2, Fronts DEF Typed, OwnViews, Views
  <2>5. /\ Len(saves) \in Nat /\ Len(saves') = Len(saves) + 1 /\ saves'[Len(saves) + 1] = x
        /\ saves' # <<>> /\ saves # <<>> => Head(saves') = Head(saves)
    BY <2>1, <2>2, Elements, Joined DEF Typed
  <2>6. InputIsKnown'
    BY <2>1, <2>2, <2>4 DEF FlowInv, InputIsKnown, Expected
  <2>7. SavingIsAsked'
    BY <2>1, <2>4, <2>5 DEF FlowInv, SavingIsAsked
  <2>8. UnsavedIsOnItsWay'
    <3>1. Len(saves) + 1 \in 1..Len(saves') /\ saves'[Len(saves) + 1].view = active'
      BY <2>1, <2>2, <2>5
    <3> QED BY <3>1 DEF UnsavedIsOnItsWay
  <2> QED BY <2>3, <2>6, <2>7, <2>8 DEF FlowInv
<1>2. CASE Depart /\ active = 0
  <2>1. leg # "flush" /\ UNCHANGED <<live, views, active, saves, wire>>
    BY <1>2 DEF Depart
  <2> QED BY <2>1, FlowStays
<1>3. CASE Arrive
  <2> DEFINE v == [draft |-> Trip.draft, known |-> Trip.record, pending |-> NoText,
                   saving |-> NoText, armed |-> FALSE, notified |-> FALSE]
  <2>1. /\ leg = "session" /\ live' = [live EXCEPT ![Trip.draft] = Trip.record.text]
        /\ views' = Append(views, v) /\ active' = Len(views) + 1 /\ UNCHANGED <<saves, wire>>
    BY <1>3 DEF Arrive
  <2>2. Trip.draft \in Drafts
    BY <1>3, Fronts DEF Arrive, Trip, OwnTrips, Typed, TripsTyped
  <2>3. /\ Len(views) \in Nat /\ Len(views') = Len(views) + 1 /\ views'[Len(views) + 1] = v
        /\ \A i \in 1..Len(views) : views'[i] = views[i]
    BY <2>1, Fronts DEF Typed
  <2>4. live'[Trip.draft] = Trip.record.text
    BY <2>1, <2>2 DEF Typed
  <2>5. TripsWait'
    BY <2>1 DEF FlowInv, TripsWait
  <2>6. InputIsKnown' /\ UnsavedIsOnItsWay'
    BY <2>1, <2>3, <2>4 DEF InputIsKnown, UnsavedIsOnItsWay, Expected
  <2>7. SavingIsAsked'
    BY <2>1, <2>3 DEF FlowInv, SavingIsAsked
  <2> QED BY <2>5, <2>6, <2>7 DEF FlowInv
<1> QED BY <1>1, <1>2, <1>3

LEMMA OthersFlow ==
    ASSUME Typed, FlowInv,
           Finalized \/ Refresh \/ Navigate \/ HostUpdates \/ WireFails \/ SessionFails
             \/ \E d \in Drafts : Rename(d) \/ EditElsewhere(d)
    PROVE  FlowInv'
<1>1. CASE Finalized
  <2>1. Detach /\ UNCHANGED <<saves, wire, leg>>
    BY <1>1 DEF Finalized
  <2>2. TripsWait'
    BY <2>1 DEF FlowInv, TripsWait, Detach
  <2>3. SavingIsAsked'
    BY <2>1, DetachKeepsSaving DEF FlowInv, SavingIsAsked
  <2> QED BY <2>1, <2>2, <2>3 DEF FlowInv, InputIsKnown, UnsavedIsOnItsWay, Detach
<1>2. CASE SessionFails
  <2>1. leg # "flush" /\ UNCHANGED <<live, views, active, saves, wire>>
    BY <1>2 DEF SessionFails
  <2> QED BY <2>1, FlowStays
<1>3. CASE HostUpdates \/ WireFails
  <2>1. wire' # Idle /\ UNCHANGED <<live, views, active, saves, leg>>
    BY <1>3 DEF HostUpdates, WireFails, Idle
  <2> QED BY <2>1, FlowStays
<1>4. CASE Refresh \/ Navigate \/ \E d \in Drafts : Rename(d) \/ EditElsewhere(d)
  <2>1. UNCHANGED <<live, views, active, saves, wire, leg>>
    BY <1>4 DEF Refresh, Navigate, Rename, EditElsewhere
  <2> QED BY <2>1, FlowStays
<1> QED BY <1>1, <1>2, <1>3, <1>4

------------------------------------------------------------------------------
(* The theorems.                                                             *)

LEMMA Inductive == Init /\ [][Next]_vars => [](Typed /\ FlowInv)
<1>1. Init => Typed /\ FlowInv
    BY TypedInit, FlowInit
<1>2. Typed /\ FlowInv /\ [Next]_vars => (Typed /\ FlowInv)'
  <2> SUFFICES ASSUME Typed, FlowInv, [Next]_vars PROVE Typed' /\ FlowInv'
      OBVIOUS
  <2>1. CASE Edit \/ PauseEnds
    BY <2>1, EditsTyped, EditsFlow
  <2>2. CASE Drain
    BY <2>2, DrainsTyped, DrainsFlow DEF Drain, FlowInv
  <2>3. CASE HostUpdates \/ WireFails
    BY <2>3, DrainsTyped, OthersFlow DEF FlowInv
  <2>4. CASE Navigate \/ SessionFails
    BY <2>4, TravelsTyped, OthersFlow
  <2>5. CASE Travel
    BY <2>5, TravelsTyped, TravelsFlow DEF Travel
  <2>6. CASE Others
    BY <2>6, OthersTyped, OthersFlow DEF Others
  <2>7. CASE UNCHANGED vars
    <3>1. Typed'
      BY <2>7 DEF vars, boundVars, Typed, WireTyped, TripsTyped
    <3>2. FlowInv'
      BY <2>7, FlowStays DEF vars
    <3> QED BY <3>1, <3>2
  <2> QED BY <2>1, <2>2, <2>3, <2>4, <2>5, <2>6, <2>7 DEF Next
<1> QED BY <1>1, <1>2, PTL

\* The state of composer.ts keeps its type, the saves and navigations queued
\* included.
THEOREM TypeCorrect == Spec => []TypeOK
<1>1. Typed => TypeOK
  <2> SUFFICES ASSUME Typed PROVE TypeOK
      OBVIOUS
  <2>1. OwnViews \subseteq Views
    BY DEF OwnViews
  <2>2. views \in Seq(Views)
    BY <2>1 DEF Typed
  <2> QED BY <2>2 DEF Typed, TypeOK, WireTyped, TripsTyped, SavesFor
<1> QED BY <1>1, Inductive, PTL DEF Spec

\* Whatever is typed, saved, navigated and done elsewhere, the text of one
\* draft is never shown or stored with another (open() and drain() of
\* composer.ts, each on the view it was called for).
THEOREM NoCrossing == Spec => []NoTextCrosses
<1>1. Typed => NoTextCrosses
    BY DEF Typed, NoTextCrosses
<1> QED BY <1>1, Inductive, PTL DEF Spec

\* An edit that the host does not have is waiting for its pause, in the line
\* of drains, or reported to the user: inputChanged(), flush() and drain().
THEOREM OnItsWay == Spec => []UnsavedIsOnItsWay
<1>1. FlowInv => UnsavedIsOnItsWay
    BY DEF FlowInv
<1> QED BY <1>1, Inductive, PTL DEF Spec

\* A navigation leaves a draft only with its text accepted by the host: flush()
\* before detach() in open() and close() of composer.ts.
THEOREM Leaves == Spec => LeavesNothingUnsaved
<1>1. Typed /\ FlowInv /\ [Next]_vars =>
        (active # 0 /\ active' = 0 /\ saves' # saves
            => live[views[active].draft] = views[active].known.text)
  <2> SUFFICES ASSUME Typed, FlowInv, [Next]_vars, active # 0, active' = 0, saves' # saves
               PROVE  live[views[active].draft] = views[active].known.text
      OBVIOUS
  <2>1. Flushed
    <3>1. Len(views) + 1 # 0
      BY Fronts
    <3> QED BY <3>1 DEF Next, Drain, Travel, Others, vars, Edit, Navigate, PauseEnds, Ask,
               SaveAccepted, SaveRefused, DrainEnds, HostUpdates, WireFails, Depart, Arrive,
               SessionFails, Finalized, Refresh, Rename, EditElsewhere
  <2>2. saves # <<>> /\ wire = Idle /\ Draining.trip /\ views[Draining.view].pending = NoText
    BY <2>1 DEF Flushed
  <2>3. 1 \in 1..Len(saves) /\ saves[1] = Draining
    BY <2>2, Elements DEF Typed, Draining
  <2>4. Draining.view = active
    BY <2>2, <2>3 DEF FlowInv, TripsWait
  <2>5. active \in 1..Len(views)
    BY Fronts
  <2>6. views[active].saving = NoText
    BY <2>2, <2>5 DEF FlowInv, SavingIsAsked
  <2> QED BY <2>2, <2>4, <2>6 DEF FlowInv, InputIsKnown, Expected
<1> QED BY <1>1, Inductive, PTL DEF Spec, LeavesNothingUnsaved
=============================================================================
