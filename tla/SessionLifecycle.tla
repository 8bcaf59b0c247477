-------------------------- MODULE SessionLifecycle --------------------------
(***************************************************************************)
(* AerospikeSessionService: the life of the sessions of one user.          *)
(*                                                                         *)
(* create_session, delete_session, list_sessions, get_session and          *)
(* append_event on the session records, the segments and the manifest,     *)
(* with the caches of several processes; every database call is a step.    *)
(* Appends are those of SessionSegments reduced to what matters for        *)
(* lifecycles: which records they write.  Every event fits into an empty   *)
(* segment.                                                                *)
(***************************************************************************)
EXTENDS Naturals, FiniteSets

CONSTANTS
    Creators, Deleters, Listers, Getters, Appenders,    \* calls
    Sids,           \* session ids of the user
    Processes,      \* service instances
    Sid,            \* Sid[t]: the session of call t (not of a list)
    Proc,           \* Proc[t]: the process that runs call t
    Delta,          \* the appends that carry a session state delta
    Capacity,       \* events that a segment holds
    Casts,          \* the sets of calls that a behaviour may consist of
    Sequential,     \* sessions whose callers run one call at a time, and
                    \* append only while the session exists
    Recreate,       \* sessions that callers may create anew after a deletion
    Late,           \* sessions whose unanswered writes may be applied later
    MaxFaults,      \* bound on failed calls
    None            \* no record, no value

OnSession == Creators \cup Deleters \cup Getters \cup Appenders
Tasks     == OnSession \cup Listers

ASSUME LifecycleAssumption ==
    /\ Creators \cap (Deleters \cup Getters \cup Appenders) = {}
    /\ Deleters \cap (Getters \cup Appenders) = {}
    /\ Getters \cap Appenders = {} /\ Listers \cap OnSession = {}
    /\ Sid \in [OnSession -> Sids] /\ Proc \in [Tasks -> Processes]
    /\ Delta \subseteq Appenders
    /\ Capacity \in Nat \ {0} /\ MaxFaults \in Nat
    /\ Casts \subseteq SUBSET Tasks
    /\ Sequential \subseteq Sids /\ Recreate \subseteq Sids /\ Late \subseteq Sids
    /\ None \notin Nat \cup Creators \cup [cur : Nat \cup {None}, owner : Creators \cup {None}]

VARIABLES
    rec,        \* rec[s]: bin cur of the session record and the create that
                \* wrote its identity bins, None for what is missing
    segs,       \* events in segment records: session, segment, append
    manifest,   \* manifest[s]: entries of the user's list that name session s
    cache,      \* cache[p][s]: _cur_cache of process p
    pc,         \* pc[t]: the call t waits for, or how it ended
    at,         \* at[t]: the segment index t has in hand
    top,        \* top[d]: the highest segment that delete d removes
    ids,        \* ids[l][s]: manifest entries that list l has yet to look up
    listed,     \* listed[l]: sessions that list l returns
    stale,      \* stale[l][s]: stale entries that list l has yet to remove
    seen,       \* history: calls (on its session) that had ended when t began
    late,       \* requests without an answer that the server may yet apply
    unread,     \* history: sessions whose record some list failed to read
    faults      \* failed calls so far

db   == <<rec, segs, manifest>>
own  == <<top, ids, listed, stale>>
past == <<unread, faults>>
vars == <<db, cache, pc, at, own, seen, late, past>>

Entries  == [Sids -> Nat]
Records  == [cur : Nat \cup {None}, owner : Creators \cup {None}]
Events   == [sid : Sids, gidx : Nat, ev : Appenders]
Ops      == {"create", "add", "segment", "record", "unlist", "put", "state", "bump"}
Requests == [op : Ops, sid : Sids, gidx : Nat, by : Tasks]
Ended    == {"created", "exists", "deleted", "listed", "got", "none", "acked", "failed"}
Idle     == {"start", "absent"}
Labels   == Ended \cup Idle \cup
    {"seed", "add", "segments", "record", "pop", "unlist",
     "rows", "prune", "selected", "batch", "state", "put", "size", "placed", "roll",
     "reread", "rolled"}

\* Every variable keeps its type; a call that names a segment has its index.
TypeOK ==
    /\ rec \in [Sids -> Records \cup {None}]
    /\ segs \subseteq Events
    /\ manifest \in Entries
    /\ cache \in [Processes -> [Sids -> Nat \cup {None}]]
    /\ pc \in [Tasks -> Labels]
    /\ at \in [Tasks -> Nat]
    /\ top \in [Deleters -> Nat]
    /\ ids \in [Listers -> Entries]
    /\ listed \in [Listers -> SUBSET Sids]
    /\ stale \in [Listers -> Entries]
    /\ seen \in [Tasks -> SUBSET Tasks]
    /\ late \subseteq Requests
    /\ unread \subseteq Sids
    /\ faults \in 0..MaxFaults

-----------------------------------------------------------------------------
(* The server.                                                             *)

\* bins.get("cur", default)
CurOr(r, default) == IF r.cur = None THEN default ELSE r.cur

\* The record has the app_name and user_id of the user.
Identified(r) == r # None /\ r.owner # None

Segment(s, g) == {x \in segs : x.sid = s /\ x.gidx = g}
Accepts(s, g, e) ==
    e \in {x.ev : x \in Segment(s, g)} \/ Cardinality(Segment(s, g)) < Capacity

SetRec(s, r) == rec' = [rec EXCEPT ![s] = r] /\ UNCHANGED <<segs, manifest>>

\* An upsert of a state bin writes a record that is not there.
WriteState(s) ==
    IF rec[s] = None THEN SetRec(s, [cur |-> None, owner |-> None]) ELSE UNCHANGED db

\* The increment under the guard cur = n.  A missing record has no bin that
\* fails the guard: the server may write it anew.
Bump(s, n) ==
    \/ rec[s] # None /\ rec[s].cur = n /\ SetRec(s, [cur |-> n + 1, owner |-> rec[s].owner])
    \/ rec[s] = None /\ SetRec(s, [cur |-> 1, owner |-> None])

\* list_append adds an entry, list_remove_by_value removes all that name s.
SetEntries(s, n) == manifest' = [manifest EXCEPT ![s] = n] /\ UNCHANGED <<rec, segs>>

RemoveSegment(s, g) == segs' = segs \ Segment(s, g) /\ UNCHANGED <<rec, manifest>>

map_put(s, g, e) ==
    /\ Accepts(s, g, e)
    /\ segs' = segs \cup {[sid |-> s, gidx |-> g, ev |-> e]}
    /\ UNCHANGED <<rec, manifest>>

Apply(q) ==
    \/ q.op = "create"  /\ rec[q.sid] = None /\ SetRec(q.sid, [cur |-> 0, owner |-> q.by])
    \/ q.op = "add"     /\ SetEntries(q.sid, manifest[q.sid] + 1)
    \/ q.op = "unlist"  /\ SetEntries(q.sid, 0)
    \/ q.op = "segment" /\ RemoveSegment(q.sid, q.gidx)
    \/ q.op = "record"  /\ SetRec(q.sid, None)
    \/ q.op = "state"   /\ WriteState(q.sid)
    \/ q.op = "put"     /\ map_put(q.sid, q.gidx, q.by)
    \/ q.op = "bump"    /\ Bump(q.sid, q.gidx)

\* The sessions that a list of entries names.
Named(entries) == {s \in Sids : entries[s] > 0}
NoEntries      == [s \in Sids |-> 0]

Req(t, op, s) == [op |-> op, sid |-> s, gidx |-> at[t], by |-> t]

\* The writes that t may be waiting for: of which kind, and of which session.
Waits(t, op) ==
    \/ op = "create"  /\ pc[t] = "start" /\ t \in Creators
    \/ op = "add"     /\ pc[t] = "add"
    \/ op = "segment" /\ pc[t] = "segments"
    \/ op = "record"  /\ pc[t] = "record"
    \/ op = "unlist"  /\ pc[t] \in {"unlist", "prune"}
    \/ op = "put"     /\ pc[t] \in {"put", "batch"}
    \/ op = "state"   /\ pc[t] \in {"state", "batch"}
    \/ op = "bump"    /\ pc[t] = "roll"
Target(t) == IF t \in Listers THEN Named(stale[t]) ELSE {Sid[t]}

InFlight(t) == {Req(t, op, s) : op \in {o \in Ops : Waits(t, o)}, s \in Target(t)}

-----------------------------------------------------------------------------

Goto(t, l) == pc' = [pc EXCEPT ![t] = l]

\* A call begins.
Begin(t) ==
    /\ pc[t] = "start"
    /\ t \in OnSession /\ Sid[t] \in Sequential =>
          \A u \in OnSession \ {t} : Sid[u] = Sid[t] => pc[u] \in Ended \cup Idle
    /\ seen' = [seen EXCEPT ![t] =
          {u \in OnSession : pc[u] \in Ended /\ (t \in OnSession => Sid[u] = Sid[t])}]

SetCache(t, c) == cache' = [cache EXCEPT ![Proc[t]] = [@ EXCEPT ![Sid[t]] = c]]

\* The coroutine resumes after a reply and writes the index it got into the
\* cache of its process.
CacheWrite(t, from, to) ==
    /\ pc[t] = from
    /\ SetCache(t, at[t])
    /\ Goto(t, to)
    /\ UNCHANGED <<db, at, own, seen, late, past>>

(* create_session                                                          *)

MayCreate(s) == s \in Recreate \/ \A d \in Deleters : Sid[d] = s => pc[d] \in Idle

CreatePut(c) ==
    /\ Begin(c) /\ MayCreate(Sid[c])
    /\ \/ Apply(Req(c, "create", Sid[c])) /\ Goto(c, "seed")
       \/ rec[Sid[c]] # None /\ Goto(c, "exists") /\ UNCHANGED db
    /\ at' = [at EXCEPT ![c] = 0]
    /\ UNCHANGED <<cache, own, late, past>>

CreateSeed(c) == c \in Creators /\ CacheWrite(c, "seed", "add")

\* Mutant: the list is put with the new id, not appended to.
manifest_put(c) ==
    /\ pc[c] = "add"
    /\ manifest' = [NoEntries EXCEPT ![Sid[c]] = 1] /\ UNCHANGED <<rec, segs>>
    /\ Goto(c, "created")
    /\ UNCHANGED <<cache, at, own, seen, late, past>>

\* The app and user state that is merged before, and the read that follows,
\* touch other records; when they fail, so does the create.
manifest_add(c) ==
    /\ pc[c] = "add"
    /\ Apply(Req(c, "add", Sid[c]))
    /\ Goto(c, "created")
    /\ UNCHANGED <<cache, at, own, seen, late, past>>

(* delete_session                                                          *)

\* Mutant: a record without the bin cur.
DeleteGetNoDefault(d) ==
    /\ Begin(d)
    /\ \/ rec[Sid[d]] = None /\ Goto(d, "deleted") /\ UNCHANGED top
       \/ /\ rec[Sid[d]] # None
          /\ top' = [top EXCEPT ![d] = rec[Sid[d]].cur]
          /\ Goto(d, "segments")
    /\ at' = [at EXCEPT ![d] = 0]
    /\ UNCHANGED <<db, cache, ids, listed, stale, late, past>>

\* Mutant: segments are counted from one.
DeleteGetFromOne(d) ==
    /\ Begin(d)
    /\ \/ rec[Sid[d]] = None /\ Goto(d, "deleted") /\ UNCHANGED top
       \/ /\ rec[Sid[d]] # None
          /\ top' = [top EXCEPT ![d] = CurOr(rec[Sid[d]], 0) + 1]
          /\ Goto(d, "segments")
    /\ at' = [at EXCEPT ![d] = 1]
    /\ UNCHANGED <<db, cache, ids, listed, stale, late, past>>

DeleteGet(d) ==
    /\ Begin(d)
    /\ \/ rec[Sid[d]] = None /\ Goto(d, "deleted") /\ UNCHANGED top
       \/ /\ rec[Sid[d]] # None
          /\ top' = [top EXCEPT ![d] = CurOr(rec[Sid[d]], 0) + 1]
          /\ Goto(d, "segments")
    /\ at' = [at EXCEPT ![d] = 0]
    /\ UNCHANGED <<db, cache, ids, listed, stale, late, past>>

\* Mutant: segments are removed up to the first one only.
DeleteSegmentOnce(d) ==
    /\ pc[d] = "segments"
    /\ Apply(Req(d, "segment", Sid[d]))
    /\ Goto(d, "record")
    /\ UNCHANGED <<cache, at, own, seen, late, past>>

DeleteSegment(d) ==
    /\ pc[d] = "segments"
    /\ Apply(Req(d, "segment", Sid[d]))
    /\ at' = [at EXCEPT ![d] = @ + 1]
    /\ Goto(d, IF at[d] = top[d] THEN "record" ELSE "segments")
    /\ UNCHANGED <<cache, own, seen, late, past>>

DeleteRecord(d) ==
    /\ pc[d] = "record"
    /\ Apply(Req(d, "record", Sid[d]))
    /\ Goto(d, "pop")
    /\ UNCHANGED <<cache, at, own, seen, late, past>>

\* Mutant: the cache keeps its entry.
DeleteKeepCache(d) ==
    /\ pc[d] = "pop"
    /\ Goto(d, "unlist")
    /\ UNCHANGED <<db, cache, at, own, seen, late, past>>

DeletePop(d) ==
    /\ pc[d] = "pop"
    /\ SetCache(d, None)
    /\ Goto(d, "unlist")
    /\ UNCHANGED <<db, at, own, seen, late, past>>

DeleteUnlist(d) ==
    /\ pc[d] = "unlist"
    /\ Apply(Req(d, "unlist", Sid[d]))
    /\ Goto(d, "deleted")
    /\ UNCHANGED <<cache, at, own, seen, late, past>>

(* list_sessions with a user id                                            *)

ListManifest(l) ==
    /\ Begin(l)
    /\ ids' = [ids EXCEPT ![l] = manifest]
    /\ Goto(l, IF Named(manifest) = {} THEN "listed" ELSE "rows")
    /\ UNCHANGED <<db, cache, at, top, listed, stale, late, past>>

AfterRows(l, left, old) ==
    Goto(l, IF Named(left) # {} THEN "rows" ELSE IF Named(old) # {} THEN "prune" ELSE "listed")

\* The entries that name s are listed, or they are stale; rows has one record
\* for all of them.
LookUp(l, s, live) ==
    /\ pc[l] = "rows" /\ ids[l][s] > 0
    /\ ids' = [ids EXCEPT ![l] = [@ EXCEPT ![s] = 0]]
    /\ listed' = IF live THEN [listed EXCEPT ![l] = @ \cup {s}] ELSE listed
    /\ stale' = IF live THEN stale ELSE [stale EXCEPT ![l] = [@ EXCEPT ![s] = ids[l][s]]]
    /\ AfterRows(l, ids'[l], stale'[l])

\* Mutant: any record counts as a session.
ListRowAny(l) ==
    /\ \E s \in Sids : LookUp(l, s, rec[s] # None)
    /\ UNCHANGED <<db, cache, at, top, seen, late, past>>

\* The batch read answers for one record after the other; an entry whose
\* record is missing or is not of this user is stale.
ListRow(l) ==
    /\ \E s \in Sids : LookUp(l, s, Identified(rec[s]))
    /\ UNCHANGED <<db, cache, at, top, seen, late, past>>

\* _manifest_remove_stale
Prune(l) ==
    /\ pc[l] = "prune"
    /\ \E s \in Named(stale[l]) :
        /\ Apply(Req(l, "unlist", s))
        /\ stale' = [stale EXCEPT ![l] = [@ EXCEPT ![s] = stale[l][s] - 1]]
    /\ AfterRows(l, NoEntries, stale'[l])
    /\ UNCHANGED <<cache, at, top, ids, listed, seen, late, past>>

(* get_session, as far as it touches the cache                             *)

GetRead(g) ==
    /\ Begin(g)
    /\ \/ rec[Sid[g]] = None /\ Goto(g, "none") /\ UNCHANGED at
       \/ /\ rec[Sid[g]] # None
          /\ at' = [at EXCEPT ![g] = CurOr(rec[Sid[g]], 0)]
          /\ Goto(g, "seed")
    /\ UNCHANGED <<db, cache, own, late, past>>

GetSeed(g) == g \in Getters /\ CacheWrite(g, "seed", "got")

(* append_event                                                            *)

Writes(t) == IF t \in Delta THEN "batch" ELSE "put"

\* append_event takes a Session that create_session or get_session returned.
Handed(s) ==
    \/ \E c \in Creators : Sid[c] = s /\ pc[c] = "created"
    \/ \E g \in Getters : Sid[g] = s /\ pc[g] = "got"

\* _current_segment: the cache, or the record, which counts as 0 if missing.
CurrentSegment(t) ==
    LET cached == cache[Proc[t]][Sid[t]] IN
    /\ Begin(t)
    /\ Handed(Sid[t])
    /\ Sid[t] \in Sequential => Identified(rec[Sid[t]])
    /\ \/ cached # None /\ at' = [at EXCEPT ![t] = cached] /\ Goto(t, Writes(t))
       \/ /\ cached = None
          /\ at' = [at EXCEPT ![t] =
                IF rec[Sid[t]] = None THEN 0 ELSE CurOr(rec[Sid[t]], 0)]
          /\ Goto(t, "selected")
    /\ UNCHANGED <<db, cache, own, late, past>>

CacheSelected(t) == CacheWrite(t, "selected", Writes(t))

\* The records of a batch are written in either order.
BatchState(t) ==
    /\ \/ pc[t] = "batch" /\ Goto(t, "put")
       \/ pc[t] = "state" /\ Goto(t, "placed")
    /\ Apply(Req(t, "state", Sid[t]))
    /\ UNCHANGED <<cache, at, own, seen, late, past>>

\* A put into a full segment: _place_event asks for the size of the segment, and
\* rolls over at once when the put was part of the batch (after_overflow).
PutEvent(t) ==
    /\ \/ /\ Apply(Req(t, "put", Sid[t]))
          /\ \/ pc[t] = "put" /\ Goto(t, "placed")
             \/ pc[t] = "batch" /\ Goto(t, "state")
       \/ /\ pc[t] = "put" /\ ~Accepts(Sid[t], at[t], t)
          /\ Goto(t, "size") \/ (t \in Delta /\ Goto(t, "roll"))
          /\ UNCHANGED db
    /\ UNCHANGED <<cache, at, own, seen, late, past>>

\* _segment_size: RecordTooBig is raised again for a segment that is empty, here
\* one that a delete has removed since: an event fits into an empty segment.
SegmentSize(t) ==
    /\ pc[t] = "size"
    /\ \/ Segment(Sid[t], at[t]) = {} /\ Goto(t, "failed")
       \/ Segment(Sid[t], at[t]) # {} /\ Goto(t, "roll")
    /\ UNCHANGED <<db, cache, at, own, seen, late, past>>

CachePlaced(t) == CacheWrite(t, "placed", "acked")

\* _roll_over: the bump, which the guard may refuse.
RollBump(t) ==
    /\ pc[t] = "roll"
    /\ \/ /\ Apply(Req(t, "bump", Sid[t]))
          /\ at' = [at EXCEPT ![t] = rec'[Sid[t]].cur]
          /\ Goto(t, "rolled")
       \/ /\ rec[Sid[t]] # None => rec[Sid[t]].cur # at[t]
          /\ Goto(t, "reread") /\ UNCHANGED <<db, at>>
    /\ UNCHANGED <<cache, own, seen, late, past>>

\* FilteredOut: the select, which raises for a missing record.
RollReread(t) ==
    /\ pc[t] = "reread"
    /\ \/ /\ rec[Sid[t]] # None
          /\ at' = [at EXCEPT ![t] = CurOr(rec[Sid[t]], at[t] + 1)]
          /\ Goto(t, "rolled")
       \/ rec[Sid[t]] = None /\ Goto(t, "failed") /\ UNCHANGED at
    /\ UNCHANGED <<db, cache, own, seen, late, past>>

CacheRolled(t) == CacheWrite(t, "rolled", "put")

(* Failures                                                                *)

\* A write that is not answered is lost, was applied or is applied later.
Unanswered(t) ==
    /\ faults < MaxFaults
    /\ faults' = faults + 1
    /\ \/ UNCHANGED <<db, late>>
       \/ \E q \in InFlight(t) : Apply(q) /\ UNCHANGED late
       \/ /\ late' \in {late \cup {q} : q \in {r \in InFlight(t) : r.sid \in Late}}
          /\ UNCHANGED db

\* _batch_read, _batch_read_bins: a record that is not read, whatever its error
\* code, counts as one that is not there.
RecordUnread(t) ==
    /\ faults < MaxFaults
    /\ faults' = faults + 1
    /\ \/ /\ t \in Listers
          /\ \E s \in Sids : LookUp(t, s, FALSE) /\ unread' = unread \cup {s}
          /\ UNCHANGED seen
       \/ /\ t \in Getters /\ Begin(t) /\ Goto(t, "none")
          /\ UNCHANGED <<ids, listed, stale, unread>>
    /\ UNCHANGED <<db, cache, at, top, late>>

\* A call of t raises, or its process dies, and the operation ends.
CallFails(t) ==
    /\ \/ pc[t] \notin Ended \cup Idle /\ UNCHANGED seen
       \/ t \in Creators /\ Begin(t) /\ MayCreate(Sid[t])
    /\ Unanswered(t)
    /\ Goto(t, "failed")
    /\ UNCHANGED <<cache, at, own, unread>>

\* A write of an append times out and is sent again.
Retry(t) ==
    /\ pc[t] \in {"put", "batch", "roll"}
    /\ Unanswered(t)
    /\ UNCHANGED <<cache, pc, at, own, seen, unread>>

ApplyLate(q) ==
    /\ Apply(q)
    /\ late' = late \ {q}
    /\ UNCHANGED <<cache, pc, at, own, seen, past>>

Init ==
    /\ rec = [s \in Sids |-> None]
    /\ segs = {}
    /\ manifest = NoEntries
    /\ cache = [p \in Processes |-> [s \in Sids |-> None]]
    /\ \E S \in Casts : pc = [t \in Tasks |-> IF t \in S THEN "start" ELSE "absent"]
    /\ at = [t \in Tasks |-> 0]
    /\ top = [d \in Deleters |-> 0]
    /\ ids = [l \in Listers |-> NoEntries]
    /\ listed = [l \in Listers |-> {}]
    /\ stale = [l \in Listers |-> NoEntries]
    /\ seen = [t \in Tasks |-> {}]
    /\ late = {}
    /\ unread = {}
    /\ faults = 0

Create(c) == CreatePut(c) \/ CreateSeed(c) \/ manifest_add(c)
Delete(d) == DeleteGet(d) \/ DeleteSegment(d) \/ DeleteRecord(d) \/ DeletePop(d)
             \/ DeleteUnlist(d)
List(l)   == ListManifest(l) \/ ListRow(l) \/ Prune(l)
Get(g)    == GetRead(g) \/ GetSeed(g)
AppendEvent(t) == CurrentSegment(t) \/ CacheSelected(t) \/ BatchState(t) \/ PutEvent(t)
                  \/ SegmentSize(t) \/ CachePlaced(t) \/ RollBump(t) \/ RollReread(t) \/ CacheRolled(t)

Next ==
    \/ \E c \in Creators : Create(c)
    \/ \E d \in Deleters : Delete(d)
    \/ \E l \in Listers : List(l)
    \/ \E g \in Getters : Get(g)
    \/ \E t \in Appenders : AppendEvent(t) \/ Retry(t)
    \/ \E t \in Tasks : RecordUnread(t) \/ CallFails(t)
    \/ \E q \in late : ApplyLate(q)

Spec == Init /\ [][Next]_vars

-----------------------------------------------------------------------------

\* list_sessions returns every session whose create had returned before the
\* list began, unless a delete of it has begun since the create did, or its
\* record could not be read.
ListComplete ==
    \A l \in Listers : pc[l] = "listed" =>
        \A c \in Creators :
            /\ c \in seen[l] /\ pc[c] = "created" /\ Sid[c] \notin unread
            /\ \A d \in Deleters : Sid[d] = Sid[c] => pc[d] \in Idle \/ d \in seen[c]
            => Sid[c] \in listed[l]

\* list_sessions does not return a session whose delete had returned before it
\* began, although appends may write records of a session that is gone and a
\* delete may have failed between the record and the manifest.
ListSound ==
    \A l \in Listers : pc[l] = "listed" =>
        \A d \in Deleters :
            /\ d \in seen[l] /\ pc[d] = "deleted"
            /\ \A c \in Creators : Sid[c] = Sid[d] =>
                  pc[c] # "failed" /\ (pc[c] \in Idle \/ c \in seen[d])
            => Sid[d] \notin listed[l]

\* An acknowledged event of a session whose calls follow each other is where
\* get_session looks for it, unless a delete of the session has begun since the
\* append did, or failed (before it forgot the cached index).
AckedVisible ==
    \A t \in Appenders :
        /\ pc[t] = "acked" /\ Sid[t] \in Sequential
        /\ \A d \in Deleters : Sid[d] = Sid[t] =>
              pc[d] \in Idle \/ (d \in seen[t] /\ pc[d] # "failed")
        => /\ rec[Sid[t]] # None
           /\ \E x \in segs : x.ev = t /\ x.sid = Sid[t] /\ x.gidx <= CurOr(rec[Sid[t]], 0)

\* A session that is created anew shows no event of an append that had ended
\* before, unless a delete of it failed (before it forgot the cached index) or a
\* write without an answer is applied after its call has ended.
FreshEmpty ==
    \A x \in segs :
        /\ Identified(rec[x.sid]) /\ x.gidx <= CurOr(rec[x.sid], 0)
        /\ x.sid \notin Late
        /\ \A d \in Deleters : Sid[d] = x.sid => pc[d] # "failed"
        => x.ev \notin seen[rec[x.sid].owner]

\* The first delete of a session removes every event that was acknowledged
\* before it began, whatever appends run beside it (a put that timed out, was
\* sent again and is applied after the delete would bring its event back).
DeleteRemovesAcked ==
    \A d \in Deleters :
        /\ pc[d] = "deleted" /\ Sid[d] \notin Late
        /\ \A e \in Deleters \ {d} : Sid[e] = Sid[d] => pc[e] \in Idle
        => \A x \in segs : ~(pc[x.ev] = "acked" /\ x.ev \in seen[d])

\* "Stale manifest entries (missing session row) are removed on read"
\* (docs/data-model.md): the entry of a session that was created and not deleted
\* is not stale.
ListedWhileLive ==
    \A c \in Creators :
        /\ pc[c] = "created"
        /\ \A d \in Deleters : Sid[d] = Sid[c] => pc[d] \in Idle
        => Sid[c] \in Named(manifest)

\* "Delete cascades to all segment records" (README.md): when nothing is under
\* way, a session that was deleted and not created since has no segments.
DeleteCascades ==
    \A d \in Deleters :
        /\ pc[d] = "deleted" /\ late = {}
        /\ \A t \in Tasks : pc[t] \in Ended \cup Idle
        /\ \A c \in Creators : Sid[c] = Sid[d] => pc[c] \in Idle \/ c \in seen[d]
        => \A x \in segs : x.sid # Sid[d]
=============================================================================
