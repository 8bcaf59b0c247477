--------------------------- MODULE SessionHistory ---------------------------
(***************************************************************************)
(* get_session beside the append path of SessionSegments.                  *)
(*                                                                         *)
(* A reader batch-reads the session record, seeds the process's cache of   *)
(* `cur' and walks the segments cur..0, one read each, while appends go    *)
(* on.  Its process may crash; a failed read raises and has no result.     *)
(***************************************************************************)
EXTENDS SessionSegments, SequencesExt

CONSTANTS
    Readers,        \* get_session coroutines
    ReaderHost,     \* ReaderHost[r]: the process reader r runs in
    Configs,        \* the GetSessionConfigs callers pass
    Exclusive       \* TRUE: callers run one operation at a time

ASSUME ReadersAssumption ==
    /\ ReaderHost \in [Readers -> Procs]
    /\ Configs \subseteq [recent : Nat \cup {None}, after : Nat \cup {None}]
    /\ Exclusive \in BOOLEAN
    /\ Events \subseteq Nat     \* event ids are ordered

VARIABLES
    rpc,        \* rpc[r]: where reader r is
    config,     \* config[r]: num_recent_events and after_timestamp, or None
    gidx,       \* gidx[r]: cur as read, then the segment to read next
    tsBin,      \* tsBin[r]: writer of the ts bin of the session record read
    collected,  \* collected[r]: keys of the events read, newest to oldest
    acked       \* history: acked[r] is what had been appended at the start

readerVars == <<rpc, config, gidx, tsBin, collected, acked>>
hvars      == <<vars, readerVars>>

Reading(r) == rpc[r] \in {"opened", "walk"}

HTypeOK ==
    /\ TypeOK
    /\ rpc \in [Readers -> {"idle", "opened", "walk", "done", "failed"}]
    /\ config \in [Readers -> Configs \cup {None}]
    /\ gidx \in [Readers -> Nat]
    /\ tsBin \in [Readers -> Keys \cup {None}]
    /\ collected \in [Readers -> Seq(Keys)]
    /\ acked \in [Readers -> SUBSET Events]

-----------------------------------------------------------------------------

\* Key order of a MAP_KEY_ORDERED map: zero-padded microseconds, then id.
Newer(j, k) == j[1] > k[1] \/ (j[1] = k[1] /\ j[2] > k[2])

\* Keys S in reverse key order: the j-th has j - 1 newer ones.
NewestFirst(S) ==
    [j \in 1..Cardinality(S) |->
        CHOOSE k \in S : Cardinality({x \in S : Newer(x, k)}) = j - 1]

\* At most n of them, when there is an n.
Take(s, n) == IF n = None \/ n >= Len(s) THEN s ELSE SubSeq(s, 1, n)

\* Mutant: a cutoff that leaves out its own microsecond.
StrictlyAfter(S, a) == {k \in S : a = None \/ k[1] > a}

\* The cutoff key "{after_ts}:" sorts before every key of that microsecond.
After(S, a) == {k \in S : a = None \/ k[1] >= a}

\* _read_segment_entries, newest first: the key range from after_timestamp,
\* else the last `need' entries, else all.
SegmentEntries(g, need, a) ==
    LET entries == NewestFirst(After(Seg(g), a))
    IN  IF a # None THEN entries ELSE Take(entries, need)

-----------------------------------------------------------------------------

\* One operation at a time, if the callers keep to that.
Quiet == (\A t \in Tasks : pc[t] = "idle") /\ (\A r \in Readers : ~Reading(r))
MayStart == Exclusive => Quiet

\* The batch_read of the session record.
OpenSession(r, c) ==
    /\ ~Reading(r)
    /\ MayStart
    /\ rpc' = [rpc EXCEPT ![r] = "opened"]
    /\ config' = [config EXCEPT ![r] = c]
    /\ gidx' = [gidx EXCEPT ![r] = cur]
    /\ tsBin' = [tsBin EXCEPT ![r] = state["session"]]
    /\ collected' = [collected EXCEPT ![r] = <<>>]
    /\ acked' = [acked EXCEPT ![r] = {e \in Events : outcome[e] = "ok"}]
    /\ UNCHANGED vars

\* The reply: get_session caches cur; _load_events returns at once for
\* num_recent_events == 0.
SeedCache(r) ==
    /\ rpc[r] = "opened"
    /\ cache' = [cache EXCEPT ![ReaderHost[r]] = gidx[r]]
    /\ rpc' = [rpc EXCEPT ![r] = IF config[r].recent = 0 THEN "done" ELSE "walk"]
    /\ UNCHANGED <<db, taskVars, late, outcome, faults>>
    /\ UNCHANGED <<config, gidx, tsBin, collected, acked>>

\* Mutant: loops that end one segment early, or one late.
OldestIsOne(g) == g <= 1
OldestIsMinusOne(g) == g + 1 = 0
\* range(cur, -1, -1) ends at segment 0.
Oldest(g) == g = 0

\* Mutant: an empty segment ends every walk.
CutoffAlways(c, entries) == entries = <<>>
\* With a cutoff, a segment without entries ends the walk.
Cutoff(c, entries) == c.after # None /\ entries = <<>>

\* One round of the loop of _load_events over range(cur, -1, -1).
LoadSegment(r) ==
    LET n       == config[r].recent
        need    == IF n = None THEN None ELSE n - Len(collected[r])
        entries == SegmentEntries(gidx[r], need, config[r].after)
        all     == collected[r] \o Take(entries, need)
        enough  == n # None /\ Len(all) >= n
        stop    == enough \/ Cutoff(config[r], entries) \/ Oldest(gidx[r])
    IN  /\ rpc[r] = "walk"
        /\ collected' = [collected EXCEPT ![r] = all]
        /\ \/ /\ stop
              /\ rpc' = [rpc EXCEPT ![r] = "done"]
              /\ gidx' = gidx
           \/ /\ ~stop
              /\ gidx' = [gidx EXCEPT ![r] = @ - 1]
              /\ rpc' = rpc
        /\ UNCHANGED <<vars, config, tsBin, acked>>

\* A read of get_session raises: the caller gets no session.
ReadFails(r) ==
    /\ Reading(r)
    /\ MayFail /\ CountFault
    /\ rpc' = [rpc EXCEPT ![r] = "failed"]
    /\ UNCHANGED <<db, cache, taskVars, late, outcome>>
    /\ UNCHANGED <<config, gidx, tsBin, collected, acked>>

\* The readers of a process that crashes die with it.
ReadersDie(p) ==
    /\ rpc' = [r \in Readers |->
         IF ReaderHost[r] = p /\ Reading(r) THEN "failed" ELSE rpc[r]]
    /\ UNCHANGED <<config, gidx, tsBin, collected, acked>>

HInit ==
    /\ Init
    /\ rpc = [r \in Readers |-> "idle"]
    /\ config = [r \in Readers |-> None]
    /\ gidx = [r \in Readers |-> 0]
    /\ tsBin = [r \in Readers |-> None]
    /\ collected = [r \in Readers |-> <<>>]
    /\ acked = [r \in Readers |-> {}]

ReaderStep(r) == SeedCache(r) \/ LoadSegment(r) \/ ReadFails(r)

HNext ==
    \/ \E t \in Tasks, e \in Events :
        MayStart /\ StartAppend(t, e) /\ UNCHANGED readerVars
    \/ \E t \in Tasks : Step(t) /\ UNCHANGED readerVars
    \/ \E q \in late : ApplyLate(q) /\ UNCHANGED readerVars
    \/ \E p \in Procs : Crash(p) /\ ReadersDie(p)
    \/ \E r \in Readers, c \in Configs : OpenSession(r, c)
    \/ \E r \in Readers : ReaderStep(r)

HSpec == HInit /\ [][HNext]_hvars

-----------------------------------------------------------------------------
(* What get_session returns.                                               *)

Done(r) == rpc[r] = "done"
Plain(r) == config[r].recent = None /\ config[r].after = None
EventsRead(r) == {k[2] : k \in ToSet(collected[r])}

\* The ts bin: written at creation, time 0 here, and with a session delta.
TsBin(r) == IF tsBin[r] = None THEN 0 ELSE tsBin[r][1]

\* Mutant: last_update_time from the session record alone.
LastUpdateFromRecord(r) == TsBin(r)

\* last_update_time: events[-1].timestamp, else the ts bin.
LastUpdate(r) ==
    IF collected[r] # <<>> /\ Ts[collected[r][1][2]] # 0
    THEN Ts[collected[r][1][2]] ELSE TsBin(r)

\* get_session without filters returns every event whose append had returned
\* when it started, whatever rolls over during the walk.
FullReadSeesAcked ==
    \A r \in Readers : Done(r) /\ Plain(r) => acked[r] \subseteq EventsRead(r)

\* num_recent_events = n yields n events, or all when there are fewer, however
\* the events are spread over the segments.
RecentReadFull ==
    \A r \in Readers : Done(r) /\ config[r].recent # None
                               /\ config[r].after = None =>
        /\ Len(collected[r]) <= config[r].recent
        /\ \/ Len(collected[r]) = config[r].recent
           \/ acked[r] \subseteq EventsRead(r)

\* after_timestamp yields every event from the cutoff on whose append had
\* returned when the read started.
AfterReadComplete ==
    \A r \in Readers : Done(r) /\ config[r].after # None
                               /\ config[r].recent = None =>
        {e \in acked[r] : Ts[e] >= config[r].after} \subseteq EventsRead(r)

\* The stored events from the cutoff on, whatever segments they are in.
Wanted(c) == {k \in {p[2] : p \in stored} : c.after # None => k[1] >= c.after}

\* What a read must return, as a definition without segments: the newest of
\* all stored events from the cutoff on.
Reference(c) == Take(NewestFirst(Wanted(c)), c.recent)

\* The events of a session come back in the order of their timestamps.
Chronological ==
    \A r \in Readers : Done(r) =>
        \A i, j \in DOMAIN collected[r] :
            i < j => Newer(collected[r][i], collected[r][j])

\* When one process serves the session and the caller runs one operation at a
\* time, the walk over the segments computes the reference for every config,
\* even after calls that failed; with a cutoff only if none did, since a roll
\* whose event was then not stored leaves an empty segment, which ends the walk.
ReadMatchesReference ==
    \A r \in Readers :
        /\ Done(r) /\ Quiet /\ acked[r] = {p[2][2] : p \in stored}
        /\ faults = 0 \/ config[r].after = None
        => collected[r] = Reference(config[r])

\* Sequential use, failures or not: the events come back in the order of their
\* timestamps, whatever the config, and last_update_time of a full read is not
\* older than any event appended before.
ReadsInOrder ==
    /\ Chronological
    /\ \A r \in Readers : Done(r) /\ Plain(r) =>
          \A e \in acked[r] : LastUpdate(r) >= Ts[e]
=============================================================================
