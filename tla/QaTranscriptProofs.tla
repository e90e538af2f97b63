------------------------- MODULE QaTranscriptProofs -------------------------
(* What TLAPS proves of QaTranscript, for any callers, page sizes, sizes of  *)
(* a window and bounds.                                                      *)
EXTENDS QaTranscript, FiniteSetTheorems, TLAPS

\* The newest message of a window is h.
Top(w, h) ==
    /\ h \in Nat /\ w.messages \subseteq 1..h
    /\ h # 0 => h \in w.messages

\* The window has all messages above below, up to h.
Exact(w, h) ==
    /\ w.messages = (w.below + 1)..h
    /\ w.below = 0 \/ w.below < h

WindowInv ==
    window # NoWindow =>
        \E h \in 0..written : Top(window, h) /\ (~doubt => Exact(window, h))

IInv == TypeOK /\ WindowInv

-----------------------------------------------------------------------------
(* Windows.                                                                 *)

\* covered() is the newest message of a window.
LEMMA TopIsCovered ==
    ASSUME NEW w, NEW h, Top(w, h)
    PROVE  Covered(w) = h
<1>1. CASE h = 0
  <2>1. w.messages = {}
      BY <1>1 DEF Top
  <2> QED BY <1>1, <2>1 DEF Covered
<1>2. CASE h # 0
  <2>1. h \in w.messages /\ \A x \in w.messages : x \in Nat /\ x <= h
      BY <1>2 DEF Top
  <2>2. \A m \in w.messages : (\A x \in w.messages : x <= m) => m = h
      BY <2>1 DEF Top
  <2>3. w.messages # {}
      BY <2>1
  <2> DEFINE P(m) == \A x \in w.messages : x <= m
             c    == CHOOSE m \in w.messages : P(m)
  <2>4. h \in w.messages /\ P(h)
      BY <2>1
  <2>5. c \in w.messages /\ P(c)
      BY <2>4
  <2>6. c = h
      BY <2>2, <2>5
  <2> QED BY <2>3, <2>6 DEF Covered
<1> QED BY <1>1, <1>2

\* What integrationMessageWindow() takes from the messages lo..hi.
LEMMA OverType ==
    ASSUME NEW lo \in Nat \ {0}, NEW hi \in 0..MaxMessages
    PROVE  /\ WindowOver(lo, hi) \in Windows
           /\ Top(WindowOver(lo, hi), IF lo <= hi THEN hi ELSE 0)
           /\ WindowOver(lo, hi).below # 0 =>
                 /\ WindowOver(lo, hi).below = hi - WindowSize
                 /\ hi - WindowSize >= lo
<1> USE TranscriptAssumption
<1> DEFINE ms == {m \in lo..hi : m > hi - WindowSize}
           b  == IF hi - WindowSize >= lo THEN hi - WindowSize ELSE 0
<1>1. WindowOver(lo, hi) = [messages |-> ms, below |-> b, fresh |-> TRUE]
    BY DEF WindowOver
<1>2. ms \subseteq Messages /\ ms \subseteq lo..hi
    BY DEF Messages
<1>3. b \in 0..MaxMessages
    OBVIOUS
<1>4. lo <= hi => hi \in ms
    OBVIOUS
<1>5. lo > hi => ms = {}
    OBVIOUS
<1>6. ms \subseteq 1..hi
    OBVIOUS
<1>7. WindowOver(lo, hi).messages = ms /\ WindowOver(lo, hi).below = b
    BY <1>1
<1> HIDE DEF ms
<1>8. WindowOver(lo, hi) \in Windows
    BY <1>1, <1>2, <1>3 DEF Windows
<1>9. Top(WindowOver(lo, hi), IF lo <= hi THEN hi ELSE 0)
  <2>1. CASE lo <= hi
      BY <2>1, <1>4, <1>6, <1>7 DEF Top
  <2>2. CASE lo > hi
      BY <2>2, <1>5, <1>7 DEF Top
  <2> QED BY <2>1, <2>2
<1> QED BY <1>7, <1>8, <1>9

\* ... and of a whole log it takes an exact window.
LEMMA OverExact ==
    ASSUME NEW hi \in 0..MaxMessages
    PROVE  Exact(WindowOver(1, hi), hi) /\ Top(WindowOver(1, hi), hi)
<1> USE TranscriptAssumption
<1>1. Top(WindowOver(1, hi), hi)
    BY OverType DEF Top
<1>2. Exact(WindowOver(1, hi), hi)
  <2>1. CASE hi - WindowSize >= 1
      BY <2>1 DEF Exact, WindowOver
  <2>2. CASE hi - WindowSize < 1
      BY <2>2 DEF Exact, WindowOver
  <2> QED BY <2>1, <2>2
<1> QED BY <1>1, <1>2

\* merge() of what memory has above c.
LEMMA MergedType ==
    ASSUME TypeOK, NEW w \in Windows, NEW h, Top(w, h), NEW c \in 0..written, h <= c
    PROVE  /\ Merged(w, c) \in Windows
           /\ \E g \in 0..written : Top(Merged(w, c), g)
<1> USE TranscriptAssumption
<1> DEFINE delta == WindowOver(From(c), written)
<1>1. From(c) \in Nat \ {0} /\ written \in 0..MaxMessages /\ From(c) > c
    BY DEF TypeOK, From
<1>2. /\ delta \in Windows
      /\ Top(delta, IF From(c) <= written THEN written ELSE 0)
    BY <1>1, OverType
<1>3. Merged(w, c) = [messages |-> w.messages \cup delta.messages,
                      below |-> IF delta.below # 0 THEN delta.below ELSE w.below,
                      fresh |-> TRUE]
    BY DEF Merged
<1> HIDE DEF delta
<1>4. Merged(w, c) \in Windows
    BY <1>2, <1>3 DEF Windows
<1>5. CASE From(c) <= written
  <2>1. Top(Merged(w, c), written)
      BY <1>1, <1>2, <1>3, <1>5 DEF Top, TypeOK
  <2> QED BY <1>1, <1>4, <2>1
<1>6. CASE From(c) > written
  <2>1. delta.messages = {}
      BY <1>1, <1>2, <1>6 DEF Top
  <2>2. Top(Merged(w, c), h) /\ h \in 0..written
      BY <1>3, <2>1 DEF Top, TypeOK
  <2> QED BY <1>4, <2>2
<1> QED BY <1>1, <1>5, <1>6

\* One message more than a window holds does not fit.
LEMMA NoRoom ==
    ASSUME NEW b \in Nat, NEW n \in Nat, NEW S, IsFiniteSet(S), NEW h \in S, h \notin (b + 1)..n,
           (b + 1)..n \subseteq S, n - b = WindowSize
    PROVE  Cardinality(S) > WindowSize
<1> DEFINE I == (b + 1)..n
<1>1. IsFiniteSet(I) /\ Cardinality(I) = WindowSize
    BY FS_Interval, TranscriptAssumption
<1>2. IsFiniteSet(I \cup {h}) /\ Cardinality(I \cup {h}) = WindowSize + 1
    BY <1>1, FS_AddElement
<1>3. I \cup {h} \in SUBSET S
    OBVIOUS
<1>4. Cardinality(I \cup {h}) <= Cardinality(S) /\ Cardinality(S) \in Nat
    BY <1>3, FS_Subset, FS_CardinalityType
<1> QED BY <1>2, <1>4, TranscriptAssumption

\* merge() of all that memory has above an exact window gives one, if it fits:
\* otherwise more than WindowSize new messages would, besides an old one.
LEMMA MergedExact ==
    ASSUME TypeOK, NEW w \in Windows, NEW h \in 0..written, Exact(w, h), Top(w, h),
           ~BeginsLate(h), Fits(w, h)
    PROVE  Exact(Merged(w, h), written) /\ Top(Merged(w, h), written)
<1> USE TranscriptAssumption
<1>1. From(h) = h + 1 /\ written \in 0..MaxMessages /\ w.below \in Nat
    BY DEF From, BeginsLate, TypeOK, Windows
<1> DEFINE n     == written
           ms    == {m \in (h + 1)..n : m > n - WindowSize}
           b     == IF n - WindowSize >= h + 1 THEN n - WindowSize ELSE 0
           all   == w.messages \cup ms
           below == IF b # 0 THEN b ELSE w.below
<1>2. Merged(w, h) = [messages |-> all, below |-> below, fresh |-> TRUE]
    BY <1>1 DEF Merged, WindowOver
<1>3. Merged(w, h).messages = all /\ Merged(w, h).below = below
    BY <1>2
<1>4. w.messages = (w.below + 1)..h /\ (w.below = 0 \/ w.below < h)
    BY DEF Exact
<1>5. CASE n - WindowSize < h + 1
  <2>1. ms = (h + 1)..n /\ below = w.below
      BY <1>1, <1>5
  <2>2. all = (below + 1)..n
      BY <1>1, <1>4, <2>1
  <2>3. below = 0 \/ below < n
      BY <1>1, <1>4, <2>1
  <2> QED BY <1>1, <1>3, <2>1, <2>2, <2>3 DEF Exact, Top
<1>6. CASE n - WindowSize >= h + 1
  <2>1. b = n - WindowSize /\ b \in Nat /\ below = b /\ b < n /\ b >= h + 1
      BY <1>1, <1>6
  <2>2. ms = (b + 1)..n
      BY <1>1, <2>1
  <2>3. h = 0
    <3> SUFFICES ASSUME h # 0 PROVE FALSE
        OBVIOUS
    <3>1. h \in w.messages
        BY DEF Top
    <3>2. all \subseteq 1..n
        BY <1>1, <1>4
    <3>3. IsFiniteSet(all)
      <4>1. IsFiniteSet(1..n)
          BY <1>1, FS_Interval
      <4>2. all \in SUBSET (1..n)
          BY <3>2
      <4> HIDE DEF all
      <4> QED BY <4>1, <4>2, FS_Subset
    <3>4. h \notin (b + 1)..n /\ (b + 1)..n \subseteq all /\ h \in all
        BY <1>1, <2>1, <2>2, <3>1
    <3>5. n - b = WindowSize /\ n \in Nat
        BY <1>1, <2>1
    <3> HIDE DEF all
    <3>6. Cardinality(all) > WindowSize
        BY <2>1, <3>3, <3>4, <3>5, NoRoom
    <3>7. Cardinality(all) <= WindowSize
        BY <1>3 DEF Fits
    <3>8. Cardinality(all) \in Nat
        BY <3>3, FS_CardinalityType
    <3> QED BY <3>6, <3>7, <3>8
  <2>4. w.messages = {}
      BY <1>1, <1>4, <2>3
  <2>5. all = (below + 1)..n
      BY <2>1, <2>2, <2>4
  <2> QED BY <1>1, <1>3, <2>1, <2>5 DEF Exact, Top
<1> QED BY <1>1, <1>5, <1>6

-----------------------------------------------------------------------------
\* Every page of an exact window is exact.
LEMMA PageIsExact ==
    ASSUME NEW w \in Windows, NEW h \in Nat, Top(w, h), Exact(w, h),
           NEW after \in Nat, NEW limit \in Limits
    PROVE  LET p == PageOf(w, after, limit) IN
           p.truncated <=> ((after + 1)..p.last) \ p.messages # {}
<1> USE TranscriptAssumption
<1> DEFINE inside == {m \in w.messages : m > after}
           k      == IF limit < WindowSize THEN limit ELSE WindowSize
           last   == IF h > after THEN h ELSE after
           kept   == Newest(k, inside)
           gap    == ((after + 1)..last) \ kept
           L      == IF w.below > after THEN w.below ELSE after
<1>1. /\ PageOf(w, after, limit).messages = kept
      /\ PageOf(w, after, limit).last = last
      /\ PageOf(w, after, limit).truncated = (w.below > after \/ Cardinality(inside) > k)
    BY TopIsCovered DEF PageOf
<1>2. w.below \in Nat /\ k \in Nat /\ k > 0
    BY DEF Windows
<1>3. w.messages = (w.below + 1)..h /\ (w.below = 0 \/ w.below < h)
    BY DEF Exact
<1>4. inside = (L + 1)..h /\ L \in Nat
    BY <1>2, <1>3
<1>5. IsFiniteSet(inside) /\ Cardinality(inside) = (IF L + 1 > h THEN 0 ELSE h - L)
  <2> HIDE DEF L
  <2>1. L + 1 \in Int /\ h \in Int
      BY <1>4
  <2>2. /\ IsFiniteSet((L + 1)..h)
        /\ Cardinality((L + 1)..h) = IF L + 1 > h THEN 0 ELSE h - (L + 1) + 1
      BY <2>1, FS_Interval
  <2>3. h - (L + 1) + 1 = h - L
      BY <1>4
  <2>4. inside = (L + 1)..h
      BY <1>4
  <2> HIDE DEF inside
  <2> QED BY <2>2, <2>3, <2>4
<1> HIDE DEF inside, k
<1>6. CASE h <= after
  <2>1. L + 1 > h /\ ~(w.below > after) /\ last = after
      BY <1>2, <1>3, <1>6
  <2>2. ~(Cardinality(inside) > k)
      BY <1>2, <1>5, <2>1
  <2>3. gap = {}
      BY <2>1
  <2> QED BY <1>1, <2>1, <2>2, <2>3
<1>7. CASE h > after /\ h - L <= k
  <2>1. last = h /\ L < h
      BY <1>2, <1>3, <1>7
  <2>2. ~(Cardinality(inside) > k)
      BY <1>2, <1>4, <1>5, <1>7
  <2>3. \A m \in inside : Cardinality({x \in inside : x >= m}) <= k
    <3> TAKE m \in inside
    <3> DEFINE T == {x \in inside : x >= m}
    <3>1. T \in SUBSET inside
        OBVIOUS
    <3> HIDE DEF T
    <3>2. Cardinality(T) <= Cardinality(inside) /\ Cardinality(T) \in Nat
        BY <1>5, <3>1, FS_Subset, FS_CardinalityType
    <3>3. Cardinality(T) <= k
        BY <1>2, <1>4, <1>5, <1>7, <3>2
    <3> QED BY <3>3 DEF T
  <2>4. kept = inside
      BY <2>3 DEF Newest
  <2>5. gap = ((after + 1)..h) \ ((L + 1)..h)
      BY <1>4, <2>1, <2>4
  <2> HIDE DEF kept, gap
  <2>6. gap # {} <=> w.below > after
    <3>1. CASE w.below > after
      <4>1. after + 1 \in gap
          BY <1>2, <1>4, <1>7, <2>5, <3>1
      <4> QED BY <3>1, <4>1
    <3>2. CASE ~(w.below > after)
      <4>1. L = after
          BY <3>2
      <4> QED BY <2>5, <3>2, <4>1
    <3> QED BY <3>1, <3>2
  <2> QED BY <1>1, <2>2, <2>6 DEF gap, kept
<1>8. CASE h > after /\ h - L > k
  <2>1. last = h /\ L + 1 \in inside
      BY <1>2, <1>4, <1>8
  <2>2. Cardinality(inside) > k
      BY <1>2, <1>4, <1>5, <1>8
  <2>3. {x \in inside : x >= L + 1} = inside
      BY <1>4
  <2>4. L + 1 \notin kept
    <3> SUFFICES ASSUME L + 1 \in kept PROVE FALSE
        OBVIOUS
    <3> HIDE DEF L
    <3>1. Cardinality({x \in inside : x >= L + 1}) <= k
        BY DEF Newest
    <3>2. Cardinality(inside) <= k
        BY <2>3, <3>1
    <3>3. Cardinality(inside) \in Nat
        BY <1>5, FS_CardinalityType
    <3> QED BY <1>2, <2>2, <3>2, <3>3
  <2>5. L + 1 \in (after + 1)..h
      BY <1>2, <1>4, <1>8
  <2>6. L + 1 \in gap
      BY <2>1, <2>4, <2>5
  <2> QED BY <1>1, <2>2, <2>6
<1> QED BY <1>2, <1>4, <1>6, <1>7, <1>8


-----------------------------------------------------------------------------
(* Steps.                                                                   *)

\* A window with a newest message keeps what is said of it when the log grows.
LEMMA SameWindow ==
    ASSUME IInv, UNCHANGED <<window, doubt>>, written' \in Nat, written' >= written
    PROVE  WindowInv'
<1>1. 0..written \subseteq 0..(written')
    BY DEF IInv, TypeOK
<1> QED BY <1>1 DEF IInv, WindowInv

\* The cursor of an answer is a message of the log.
LEMMA AnswerType ==
    ASSUME TypeOK, UNCHANGED logVars, NEW c \in Callers, Answer(c),
           NEW h \in 0..written, Top(window', h)
    PROVE  /\ cursor' \in [Callers -> 0..written']
           /\ call' \in [Callers -> Calls]
<1> DEFINE w    == window'
           last == PageOf(w, cursor[c], 1).last
<1>1. last = IF h > cursor[c] THEN h ELSE cursor[c]
    BY TopIsCovered DEF PageOf
<1>2. cursor[c] \in 0..written /\ written' = written
    BY DEF TypeOK, logVars
<1>3. last \in 0..written
    BY <1>1, <1>2
<1>4. cursor' = [cursor EXCEPT ![c] = last]
    BY DEF Answer
<1> HIDE DEF last
<1>5. cursor' \in [Callers -> 0..written']
    BY <1>2, <1>3, <1>4 DEF TypeOK
<1>6. NoCall \in Calls
    BY TranscriptAssumption DEF NoCall, Calls
<1> QED BY <1>5, <1>6 DEF Answer, TypeOK

\* readLog() leaves a window of the log: an exact one, unless memory that begins
\* too late was taken for it.
LEMMA RememberKeeps ==
    ASSUME IInv, UNCHANGED logVars, NEW c \in Callers,
           NEW lo \in Nat \ {0}, NEW hi \in 0..written, Remember(c, lo, hi)
    PROVE  /\ window' \in Windows /\ doubt' \in BOOLEAN
           /\ cursor' \in [Callers -> 0..written'] /\ call' \in [Callers -> Calls]
           /\ WindowInv'
<1> DEFINE base == WindowOver(lo, hi)
           h    == IF lo <= hi THEN hi ELSE 0
           more == held /\ Fits(base, hi)
<1>1. hi \in 0..MaxMessages /\ written \in Nat
    BY TranscriptAssumption DEF IInv, TypeOK
<1>2. base \in Windows /\ Top(base, h)
    BY <1>1, OverType
<1>3. h \in 0..written /\ h <= hi
    BY <1>1
<1>4. window' = IF more THEN Merged(base, hi) ELSE base
    BY DEF Remember
<1>5. ~doubt' => lo = 1 /\ ~doubt /\ (more => ~BeginsLate(hi))
  <2>1. ~doubt' => ~(lo > 1) /\ ~doubt /\ (more => ~BeginsLate(hi))
      BY Zenon DEF Remember
  <2>2. ~(lo > 1) => lo = 1
      OBVIOUS
  <2> QED BY <2>1, <2>2
<1>6. doubt' \in BOOLEAN
    BY DEF Remember
<1>7. Answer(c)
    BY DEF Remember
<1>8. /\ window' \in Windows
      /\ \E g \in 0..written : Top(window', g)
  <2>1. CASE more
    <3>1. Merged(base, hi) \in Windows /\ \E g \in 0..written : Top(Merged(base, hi), g)
        BY <1>2, <1>3, MergedType DEF IInv
    <3> QED BY <1>4, <2>1, <3>1
  <2>2. CASE ~more
    <3> HIDE DEF base, h, more
    <3> QED BY <1>2, <1>3, <1>4, <2>2
  <2> QED BY <2>1, <2>2
<1>9. cursor' \in [Callers -> 0..written'] /\ call' \in [Callers -> Calls]
    BY <1>7, <1>8, AnswerType DEF IInv
<1>10. ~doubt' => \E g \in 0..written : Top(window', g) /\ Exact(window', g)
  <2> SUFFICES ASSUME ~doubt' PROVE \E g \in 0..written : Top(window', g) /\ Exact(window', g)
      OBVIOUS
  <2>1. Exact(base, hi) /\ Top(base, hi)
      BY <1>1, <1>5, OverExact
  <2>2. CASE more
    <3>1. ~BeginsLate(hi) /\ Fits(base, hi)
        BY <1>5, <2>2
    <3>2. Exact(Merged(base, hi), written) /\ Top(Merged(base, hi), written)
        BY <1>2, <2>1, <3>1, MergedExact DEF IInv
    <3>3. written \in 0..written
        BY <1>1
    <3> QED BY <1>4, <2>2, <3>2, <3>3
  <2>3. CASE ~more
      BY <1>4, <2>1, <2>3
  <2> QED BY <2>2, <2>3
<1>11. written' = written
    BY DEF logVars
<1>12. WindowInv'
    BY <1>8, <1>10, <1>11 DEF WindowInv
<1> QED BY <1>6, <1>8, <1>9, <1>12

\* A page from the window: what memory adds to it keeps it exact.
LEMMA AskWindowKeeps ==
    ASSUME IInv, NEW c \in Callers, AskWindow(c)
    PROVE  IInv'
<1>1. UNCHANGED logVars /\ faults' = faults /\ window # NoWindow
    BY DEF AskWindow
<1>2. window \in Windows
    BY <1>1 DEF IInv, TypeOK
<1>3. PICK h \in 0..written : Top(window, h) /\ (~doubt => Exact(window, h))
    BY <1>1 DEF IInv, WindowInv
<1>4. Covered(window) = h
    BY <1>3, TopIsCovered
<1>5. written' = written /\ stored' = stored /\ held' = held /\ from' = from
    BY <1>1 DEF logVars
<1>6. ASSUME window' = window, doubt' = doubt, Answer(c) PROVE IInv'
  <2>1. Top(window', h)
      BY <1>3, <1>6
  <2>2. cursor' \in [Callers -> 0..written'] /\ call' \in [Callers -> Calls]
      BY <1>1, <1>6, <2>1, AnswerType DEF IInv
  <2>3. WindowInv'
      BY <1>5, <1>6 DEF IInv, WindowInv
  <2> QED BY <1>1, <1>5, <1>6, <2>2, <2>3 DEF IInv, TypeOK
<1>7. ASSUME Fits(window, h), window' = Merged(window, h),
             doubt' = (doubt \/ BeginsLate(h)), Answer(c)
      PROVE  IInv'
  <2>1. Merged(window, h) \in Windows /\ \E g \in 0..written : Top(Merged(window, h), g)
      BY <1>2, <1>3, MergedType DEF IInv, TypeOK
  <2>2. window' \in Windows /\ \E g \in 0..written : Top(window', g)
      BY <1>7, <2>1
  <2>3. cursor' \in [Callers -> 0..written'] /\ call' \in [Callers -> Calls]
      BY <1>1, <1>7, <2>2, AnswerType DEF IInv
  <2>4. ~doubt' => \E g \in 0..written : Top(window', g) /\ Exact(window', g)
    <3> SUFFICES ASSUME ~doubt' PROVE \E g \in 0..written : Top(window', g) /\ Exact(window', g)
        OBVIOUS
    <3>1. ~doubt /\ ~BeginsLate(h)
        BY <1>7
    <3>2. Exact(Merged(window, h), written) /\ Top(Merged(window, h), written)
        BY <1>2, <1>3, <1>7, <3>1, MergedExact DEF IInv
    <3>3. written \in 0..written
        BY DEF IInv, TypeOK
    <3> QED BY <1>7, <3>2, <3>3
  <2>5. WindowInv'
      BY <1>5, <2>2, <2>4 DEF WindowInv
  <2>6. doubt' \in BOOLEAN
      BY <1>7
  <2> QED BY <1>1, <1>5, <2>2, <2>3, <2>5, <2>6 DEF IInv, TypeOK
<1> QED BY <1>4, <1>6, <1>7 DEF AskWindow

\* A read that the window goes with, or that memory answers.
LEMMA ReadKeeps ==
    ASSUME IInv, NEW c \in Callers, ReadReturns(c) \/ ReadIsEmpty(c) \/ ReadFails(c)
    PROVE  IInv'
<1>1. /\ UNCHANGED logVars
      /\ faults' \in 0..MaxFaults
  <2>1. faults \in 0..MaxFaults
      BY DEF IInv, TypeOK
  <2>2. CASE ReadReturns(c) \/ ReadIsEmpty(c)
      BY <2>1, <2>2 DEF ReadReturns, ReadIsEmpty
  <2>3. CASE ReadFails(c)
    <3>1. UNCHANGED logVars /\ faults < MaxFaults /\ faults' = faults + 1
        BY <2>3, Zenon DEF ReadFails
    <3> QED BY <2>1, <3>1, TranscriptAssumption
  <2> QED BY <2>2, <2>3
<1>2. written' = written /\ stored' = stored /\ held' = held /\ from' = from
    BY <1>1 DEF logVars
<1>3. ASSUME NEW lo \in Nat \ {0}, NEW hi \in 0..written, Remember(c, lo, hi) PROVE IInv'
  <2>1. /\ window' \in Windows /\ doubt' \in BOOLEAN
        /\ cursor' \in [Callers -> 0..written'] /\ call' \in [Callers -> Calls]
        /\ WindowInv'
      BY <1>1, <1>3, RememberKeeps
  <2> QED BY <1>1, <1>2, <2>1 DEF IInv, TypeOK
<1>4. ASSUME FromMemory(c) PROVE IInv'
  <2>1. from \in Nat \ {0} /\ written \in 0..written
      BY DEF IInv, TypeOK
  <2> QED BY <1>3, <1>4, <2>1 DEF FromMemory
<1>5. ASSUME window' = NoWindow, UNCHANGED <<cursor, doubt>>,
             call' = [call EXCEPT ![c] = NoCall]
      PROVE  IInv'
  <2>1. NoCall \in Calls
      BY TranscriptAssumption DEF NoCall, Calls
  <2>2. call' \in [Callers -> Calls]
      BY <1>5, <2>1 DEF IInv, TypeOK
  <2>3. WindowInv'
      BY <1>5 DEF WindowInv
  <2> QED BY <1>1, <1>2, <1>5, <2>2, <2>3 DEF IInv, TypeOK
<1>6. ASSUME ReadReturns(c) PROVE IInv'
  <2>1. PICK k \in call[c].since..stored : Remember(c, 1, k)
      BY <1>6 DEF ReadReturns
  <2>2. call[c].since \in Nat /\ stored \in Nat /\ written \in Nat /\ stored <= written
      BY DEF IInv, TypeOK, Calls
  <2>3. k \in 0..written /\ 1 \in Nat \ {0}
      BY <2>1, <2>2
  <2> QED BY <1>3, <2>1, <2>3
<1>7. CASE ReadIsEmpty(c)
    BY <1>4, <1>5, <1>7 DEF ReadIsEmpty
<1>8. CASE ReadFails(c)
    BY <1>4, <1>5, <1>8 DEF ReadFails
<1> QED BY <1>6, <1>7, <1>8

\* The inductive invariant.
THEOREM WindowsKeep == Spec => []IInv
<1> USE TranscriptAssumption
<1>1. Init => IInv
  <2> SUFFICES ASSUME Init PROVE IInv
      OBVIOUS
  <2>1. TypeOK
    <3>1. NoCall \in Calls
        BY DEF NoCall, Calls
    <3>2. written = 0 /\ stored = 0 /\ held = FALSE /\ from = 1 /\ faults = 0 /\ doubt = FALSE
        BY DEF Init
    <3>3. call \in [Callers -> Calls] /\ cursor \in [Callers -> 0..written]
        BY <3>1, <3>2 DEF Init
    <3>4. window = NoWindow
        BY DEF Init
    <3>5. held \in BOOLEAN /\ doubt \in BOOLEAN
        BY <3>2, Zenon
    <3>6. /\ written \in 0..MaxMessages /\ stored \in 0..written
          /\ from \in 1..(written + 1) /\ faults \in 0..MaxFaults
      <4>1. written = 0 /\ stored = 0 /\ from = 1 /\ faults = 0
          BY <3>2, Zenon
      <4> QED BY <4>1
    <3> QED BY <3>3, <3>4, <3>5, <3>6 DEF TypeOK
  <2>2. WindowInv
      BY DEF Init, WindowInv
  <2> QED BY <2>1, <2>2 DEF IInv
<1>2. IInv /\ [Next]_vars => IInv'
  <2> SUFFICES ASSUME IInv, [Next]_vars PROVE IInv'
      OBVIOUS
  <2>1. CASE Log
    <3>1. /\ window' = window /\ doubt' = doubt /\ call' = call /\ cursor' = cursor
          /\ faults' = faults
        BY <2>1 DEF Log, Append, Flush, AppendElsewhere, Resume, LetGo
    <3>2. /\ written' \in 0..MaxMessages /\ written' >= written /\ stored' \in 0..written'
          /\ held' \in BOOLEAN /\ from' \in 1..(written' + 1)
      <4>1. /\ written \in 0..MaxMessages /\ stored \in 0..written
            /\ held \in BOOLEAN /\ from \in 1..(written + 1)
          BY DEF IInv, TypeOK
      <4>2. CASE Append
          BY <4>1, <4>2 DEF Append, OneMore
      <4>3. CASE Flush
          BY <4>1, <4>3 DEF Flush
      <4>4. CASE AppendElsewhere
          BY <4>1, <4>4 DEF AppendElsewhere, OneMore
      <4>5. CASE Resume
          BY <4>1, <4>5 DEF Resume
      <4>6. CASE LetGo
        <5>1. held' = FALSE
            BY <4>6, Zenon DEF LetGo
        <5>2. written' = written /\ stored' = stored /\ from' = from
            BY <4>6, Zenon DEF LetGo
        <5>3. held' \in BOOLEAN
            BY <5>1, Zenon
        <5>4. /\ written' \in 0..MaxMessages /\ written' >= written
              /\ stored' \in 0..written' /\ from' \in 1..(written' + 1)
          <6>1. /\ written \in 0..MaxMessages /\ stored \in 0..written
                /\ from \in 1..(written + 1)
              BY <4>1, Zenon
          <6> QED BY <5>2, <6>1
        <5> QED BY <5>3, <5>4
      <4> QED BY <2>1, <4>2, <4>3, <4>4, <4>5, <4>6 DEF Log
    <3>3. cursor' \in [Callers -> 0..written']
      <4>1. 0..written \subseteq 0..written'
          BY <3>2 DEF IInv, TypeOK
      <4> QED BY <3>1, <4>1 DEF IInv, TypeOK
    <3>4. WindowInv'
        BY <3>1, <3>2, SameWindow
    <3> QED BY <3>1, <3>2, <3>3, <3>4 DEF IInv, TypeOK
  <2>2. CASE Ages
    <3>1. window # NoWindow /\ window \in Windows
        BY <2>2 DEF Ages, IInv, TypeOK
    <3>2. /\ window' = [window EXCEPT !.fresh = FALSE]
          /\ UNCHANGED <<logVars, call, cursor, faults, doubt>>
        BY <2>2 DEF Ages
    <3>3. /\ window' \in Windows /\ window'.messages = window.messages
          /\ window'.below = window.below
        BY <3>1, <3>2 DEF Windows
    <3>4. WindowInv'
        BY <3>1, <3>2, <3>3 DEF IInv, WindowInv, Top, Exact, logVars
    <3> QED BY <3>2, <3>3, <3>4 DEF IInv, TypeOK, logVars
  <2>3. CASE Evict
      BY <2>3 DEF Evict, IInv, TypeOK, WindowInv, logVars
  <2>4. ASSUME NEW c \in Callers, AskLog(c) PROVE IInv'
    <3>1. call' \in [Callers -> Calls]
        BY <2>4 DEF AskLog, IInv, TypeOK, Calls
    <3> QED BY <2>4, <3>1 DEF AskLog, IInv, TypeOK, WindowInv, logVars
  <2>5. CASE UNCHANGED vars
      BY <2>5 DEF vars, logVars, IInv, TypeOK, WindowInv
  <2> QED BY <2>1, <2>2, <2>3, <2>4, <2>5, AskWindowKeeps, ReadKeeps
          DEF Next, Ask, Return
<1> QED BY <1>1, <1>2, PTL DEF Spec

\* Every state is of the types the reader's fields have: a window is one that
\* integrationMessageWindow() or merge() can build, and no caller holds a cursor
\* that is ahead of the log.
THEOREM TypeCorrect == Spec => []TypeOK
<1>1. IInv => TypeOK
    BY DEF IInv
<1> QED BY <1>1, WindowsKeep, PTL

\* Until memory that began too late was taken for the log, pageOf() flags a page
\* as truncated if and only if messages between the cursors are missing from it.
THEOREM PagesExact == Spec => []PagesAreExact
<1>1. IInv => PagesAreExact
  <2> SUFFICES ASSUME IInv, window # NoWindow, ~doubt,
                      NEW after \in 0..MaxMessages, NEW limit \in Limits
               PROVE  LET p == PageOf(window, after, limit) IN
                      p.truncated <=> ((after + 1)..p.last) \ p.messages # {}
      BY DEF PagesAreExact
  <2>1. PICK h \in 0..written : Top(window, h) /\ Exact(window, h)
      BY DEF IInv, WindowInv
  <2>2. window \in Windows /\ h \in Nat /\ after \in Nat
      BY TranscriptAssumption DEF IInv, TypeOK
  <2> QED BY <2>1, <2>2, PageIsExact
<1> QED BY <1>1, WindowsKeep, PTL

=============================================================================
