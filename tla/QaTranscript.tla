---------------------------- MODULE QaTranscript ----------------------------
(* Reading a conversation back through the integration API of               *)
(* dsh-qa-surface: the windows that transcript-reader.ts keeps between the  *)
(* pages of one chat, over a session log that is longer in memory than in   *)
(* storage, or in storage than in memory.                                   *)
(*                                                                          *)
(* A published message is its number; events that are not published are     *)
(* left out, so the log is 1..written.  One chat is modelled, since chats   *)
(* share nothing but the bound on the number of windows (Evict).            *)
EXTENDS Integers, FiniteSets

CONSTANTS Callers,     \* page calls that may be under way at one time
          WindowSize,  \* QA_INTEGRATION_MAX_TRANSCRIPT_MESSAGES
          Limits,      \* page sizes the callers ask for
          NoWindow,
          MaxMessages, \* bound: messages written
          MaxFaults    \* bound: reads that time out or fail

ASSUME TranscriptAssumption ==
    /\ WindowSize \in Nat \ {0} /\ Limits \subseteq Nat \ {0}
    /\ MaxMessages \in Nat /\ MaxFaults \in Nat

VARIABLES
    written,  \* messages of the log
    stored,   \* ... of them in storage
    held,     \* this process holds the session
    from,     \* ... from this message on
    window,   \* the reader's window of the chat
    call,     \* caller -> its page call
    cursor,   \* caller -> the lastSeq of its last page
    faults,   \* reads that failed so far
    doubt     \* history: memory that began too late was taken for the log

logVars == <<written, stored, held, from>>
vars    == <<logVars, window, call, cursor, faults, doubt>>

Messages == 1..MaxMessages
Windows  == [messages : SUBSET Messages, below : 0..MaxMessages, fresh : BOOLEAN]
Calls    == [step : {"idle", "read"}, since : 0..MaxMessages]
NoCall   == [step |-> "idle", since |-> 0]

ASSUME WindowAssumption == NoWindow \notin Windows

TypeOK ==
    /\ written \in 0..MaxMessages /\ stored \in 0..written
    /\ held \in BOOLEAN /\ from \in 1..(written + 1)
    /\ window \in Windows \cup {NoWindow}
    /\ call \in [Callers -> Calls] /\ cursor \in [Callers -> 0..written]
    /\ faults \in 0..MaxFaults /\ doubt \in BOOLEAN

Init ==
    /\ written = 0 /\ stored = 0 /\ held = FALSE /\ from = 1
    /\ window = NoWindow
    /\ call = [c \in Callers |-> NoCall] /\ cursor = [c \in Callers |-> 0]
    /\ faults = 0 /\ doubt = FALSE

-----------------------------------------------------------------------------
(* The log, as the host writes it.                                          *)

OneMore == written < MaxMessages /\ written' = written + 1

\* A turn of the session this process holds.
Append ==
    /\ held /\ OneMore
    /\ UNCHANGED <<stored, held, from, window, call, cursor, faults, doubt>>

Flush ==
    /\ stored < written /\ stored' = written
    /\ UNCHANGED <<written, held, from, window, call, cursor, faults, doubt>>

\* Another process writes to the same storage.
AppendElsewhere ==
    /\ ~held /\ stored = written /\ OneMore /\ stored' = written + 1
    /\ UNCHANGED <<held, from, window, call, cursor, faults, doubt>>

\* The session is resumed here, with all or part of its history in memory.
Resume ==
    /\ ~held /\ held' = TRUE /\ from' \in 1..(written + 1)
    /\ UNCHANGED <<written, stored, window, call, cursor, faults, doubt>>

LetGo ==
    /\ held /\ stored = written /\ held' = FALSE
    /\ UNCHANGED <<written, stored, from, window, call, cursor, faults, doubt>>

-----------------------------------------------------------------------------
(* Windows and pages.                                                       *)

\* integrationMessageWindow() over the messages lo..hi: the newest of them and
\* the newest it leaves out.
WindowOver(lo, hi) ==
    [messages |-> {m \in lo..hi : m > hi - WindowSize},
     below    |-> IF hi - WindowSize >= lo THEN hi - WindowSize ELSE 0,
     fresh    |-> TRUE]

\* covered(); the window before a first message has covered nothing.
Covered(w) == IF w.messages = {} THEN 0 ELSE CHOOSE m \in w.messages : \A x \in w.messages : x <= m

\* What memory has above a cursor begins here, which may be too late.
From(after)       == IF from > after THEN from ELSE after + 1
BeginsLate(after) == from > after + 1

\* merge(): a window that has covered the log up to a message, with what memory
\* has above it, if that fits.
Merged(w, covered) ==
    LET delta == WindowOver(From(covered), written) IN
    [messages |-> w.messages \cup delta.messages,
     below    |-> IF delta.below # 0 THEN delta.below ELSE w.below,
     fresh    |-> TRUE]

Fits(w, covered) == Cardinality(Merged(w, covered).messages) <= WindowSize

\* The newest k of a set of messages.
Newest(k, S) == {m \in S : Cardinality({x \in S : x >= m}) <= k}

\* Mutant: what lies below the window is forgotten.
PageOfShallow(w, after, limit) ==
    LET inside == {m \in w.messages : m > after}
        k      == IF limit < WindowSize THEN limit ELSE WindowSize
    IN
    [messages |-> Newest(k, inside), last |-> IF Covered(w) > after THEN Covered(w) ELSE after,
     truncated |-> Cardinality(inside) > k]

\* pageOf(): the page for a cursor and a page size.
PageOf(w, after, limit) ==
    LET inside == {m \in w.messages : m > after}
        k      == IF limit < WindowSize THEN limit ELSE WindowSize
    IN
    [messages |-> Newest(k, inside), last |-> IF Covered(w) > after THEN Covered(w) ELSE after,
     truncated |-> w.below > after \/ Cardinality(inside) > k]

\* The call ends with a page of the window as it is then, of which the caller
\* keeps the cursor (the same for every page size).
Answer(c) ==
    /\ cursor' = [cursor EXCEPT ![c] = PageOf(window', @, 1).last]
    /\ call' = [call EXCEPT ![c] = NoCall]

-----------------------------------------------------------------------------
(* The reader.                                                              *)

\* Mutant: a window is trusted however old it is.
TrustedForEver(w) == ~held

\* The window answers as it is: nobody here writes to the chat, and the window
\* is young.
Trusted(w) == ~held /\ w.fresh

\* page() from the window.
AskWindow(c) ==
    /\ call[c] = NoCall /\ window # NoWindow
    /\ \/ /\ Trusted(window)
          /\ UNCHANGED <<window, doubt>> /\ Answer(c)
       \/ /\ held /\ Fits(window, Covered(window))
          /\ window' = Merged(window, Covered(window))
          /\ doubt' = (doubt \/ BeginsLate(Covered(window)))
          /\ Answer(c)
    /\ UNCHANGED <<logVars, faults>>

\* page() that has to read the log.
AskLog(c) ==
    /\ call[c] = NoCall
    /\ window # NoWindow => ~Trusted(window) /\ ~(held /\ Fits(window, Covered(window)))
    /\ call' = [call EXCEPT ![c] = [step |-> "read", since |-> stored]]
    /\ UNCHANGED <<logVars, window, cursor, faults, doubt>>

\* readLog() once it has read the messages lo..hi: what memory has above them is
\* added if it fits, and the window is remembered.
Remember(c, lo, hi) ==
    LET base == WindowOver(lo, hi) IN
    /\ window' = IF held /\ Fits(base, hi) THEN Merged(base, hi) ELSE base
    /\ doubt' = (doubt \/ lo > 1 \/ (held /\ Fits(base, hi) /\ BeginsLate(hi)))
    /\ Answer(c)

\* Storage answers with what it had at some time since it was asked, which may be
\* events without a message: an empty window is remembered as well.
ReadReturns(c) ==
    /\ call[c].step = "read"
    /\ \E k \in call[c].since..stored : Remember(c, 1, k)
    /\ UNCHANGED <<logVars, faults>>

\* read() takes what memory holds for the log.
FromMemory(c) == held /\ Remember(c, from, written)

\* Storage has nothing of the chat.  If memory has not either it is an empty
\* conversation, of which nothing is remembered.
ReadIsEmpty(c) ==
    /\ call[c].step = "read" /\ call[c].since = 0
    /\ \/ FromMemory(c)
       \/ /\ ~held /\ window' = NoWindow /\ UNCHANGED <<cursor, doubt>>
          /\ call' = [call EXCEPT ![c] = NoCall]
    /\ UNCHANGED <<logVars, faults>>

\* Storage does not answer in time: memory does, if the session is held.
\* Otherwise, and when the log cannot be parsed, the call fails and the window
\* goes.
ReadFails(c) ==
    /\ call[c].step = "read"
    /\ faults < MaxFaults /\ faults' = faults + 1
    /\ \/ FromMemory(c)
       \/ /\ window' = NoWindow
          /\ call' = [call EXCEPT ![c] = NoCall]
          /\ UNCHANGED <<cursor, doubt>>
    /\ UNCHANGED logVars

\* QA_INTEGRATION_TRANSCRIPT_TTL_MS have passed.
Ages ==
    /\ window # NoWindow /\ window.fresh
    /\ window' = [window EXCEPT !.fresh = FALSE]
    /\ UNCHANGED <<logVars, call, cursor, faults, doubt>>

\* remember() of another chat.
Evict ==
    /\ window # NoWindow /\ window' = NoWindow
    /\ UNCHANGED <<logVars, call, cursor, faults, doubt>>

\* page() for a caller that goes on from its last page.
Ask(c) == AskWindow(c) \/ AskLog(c)

Return(c) == ReadReturns(c) \/ ReadIsEmpty(c)

Log == Append \/ Flush \/ AppendElsewhere \/ Resume \/ LetGo

Next ==
    \/ Log \/ Ages \/ Evict
    \/ \E c \in Callers : Ask(c) \/ Return(c) \/ ReadFails(c)

Spec == Init /\ [][Next]_vars

\* The host flushes, time passes, a read returns or fails, and the callers go on
\* asking.
FairSpec ==
    /\ Spec /\ WF_vars(Flush) /\ WF_vars(Ages)
    /\ \A c \in Callers : WF_vars(Ask(c) \/ Return(c))

-----------------------------------------------------------------------------
(* Properties.                                                              *)

\* Whatever the cursor and the page size, between the cursor it asked with and
\* the one it gets a caller has every message of the log or is told that some
\* are missing, and is told so only if some are (transcript-reader.ts:
\* truncation is "exact rather than a guess").
PagesAreExact ==
    window # NoWindow /\ ~doubt =>
        \A after \in 0..MaxMessages, limit \in Limits :
            LET p == PageOf(window, after, limit) IN
            p.truncated <=> ((after + 1)..p.last) \ p.messages # {}

\* A caller that goes on asking gets to every message that is written.
CallersCatchUp ==
    \A c \in Callers, m \in Messages : written >= m ~> cursor[c] >= m \/ doubt
=============================================================================
