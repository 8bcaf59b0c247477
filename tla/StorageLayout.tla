--------------------------- MODULE StorageLayout ---------------------------
(***************************************************************************)
(* The three services of several applications and users on one namespace:  *)
(* which records their operations read and write, in which order, with     *)
(* which bins, through which indexes and under which client policies.      *)
(*                                                                         *)
(* An operation is a sequence of stages, a stage a set of requests that    *)
(* the client sends together and that the server applies one by one.       *)
(* Segments do not roll over and posting lists are not trimmed here: see   *)
(* SessionSegments and MemoryPostings.                                     *)
(***************************************************************************)
EXTENDS Layout, FiniteSets

CONSTANTS
    Jobs, Job,      \* calls; Job[j]: operation, tenant, arguments, process
    Processes,      \* processes, with one instance of each service they use
    Ensures,        \* the processes that construct them with ensure_indexes
    Override,       \* the policies given to the client
    Casts,          \* the sets of calls that a behaviour may consist of
    MaxVersion,     \* bound on the versions of a file
    MaxFaults       \* bound on failures

Operations == {"create_session", "append_event", "get_session", "list_sessions",
               "delete_session", "save_artifact", "list_artifact_keys",
               "add_events_to_memory"}

Calls == [op : Operations, proc : Processes, app : Name, user : Name, sid : Name,
          keys : SUBSET Name, file : Name, event : Name, token : Name]

ASSUME LayoutAssumption ==
    /\ Job \in [Jobs -> Calls]
    /\ Casts \subseteq SUBSET Jobs
    /\ Ensures \subseteq Processes
    /\ MaxFaults \in Nat /\ MaxVersion \in Nat

Numbers == 0..MaxVersion \cup {0, 1}   \* of segments and of versions

\* Numbers are told apart by their digits, and from the suffix of a head.
ASSUME PadAssumption ==
    /\ \A n \in Numbers : Pad(n) \in Word /\ Pad(n) # "__head__"
    /\ \A m, n \in Numbers : Pad(m) = Pad(n) => m = n

VARIABLES
    store,      \* the records: primary key to bins
    touched,    \* history: places that a request named
    indexes,    \* secondary indexes: set and bin
    up,         \* services that were constructed: process and service
    status,     \* status[j]: absent, start, busy, done, failed or noindex
    at,         \* at[j]: the stage of j
    left,       \* left[j]: requests of the stage that were not applied
    ver,        \* ver[j]: the version that a save was given
    got,        \* got[j]: records that j read, by primary key
    before,     \* history: before[j], the calls that had ended when j began
    unread,     \* history: calls that took an unreadable record for missing
    unsure,     \* history: calls that a write of went unanswered
    late,       \* writes without an answer that the server may yet apply
    faults

db   == <<store, touched>>
svc  == <<indexes, up>>
call == <<at, left, ver, got>>
hist == <<unread, unsure, late, faults>>
vars == <<db, svc, status, call, before, hist>>

ServiceOf(op) ==
    CASE op \in {"save_artifact", "list_artifact_keys"} -> "artifacts"
      [] op = "add_events_to_memory"                    -> "memory"
      [] OTHER                                          -> "sessions"

policies == _merge_policies(_default_policies, Override)
-----------------------------------------------------------------------------
(* Places: the primary key of a record, its kind, and what it is for.      *)

Place(set, key, kind, what) == [pk |-> <<set, key>>, kind |-> kind, what |-> what]

SessionPlace(c) ==
    Place("sessions", session_key(c.app, c.user, c.sid), "session_record",
          <<"session", c.app, c.user, c.sid>>)
SegmentPlace(c, n) ==
    Place("sessions", segment_key(c.app, c.user, c.sid, n), "segment_record",
          <<"segment", c.app, c.user, c.sid, <<Pad(n)>> >>)
ManifestPlace(c) ==
    Place("sessions", session_manifest_key(c.app, c.user), "session_record",
          <<"manifest", c.app, c.user>>)
AppPlace(c) == Place("app_state", app_state_key(c.app), "app_state_row", <<"app", c.app>>)
UserPlace(c) ==
    Place("user_state", user_state_key(c.app, c.user), "user_state_row",
          <<"user", c.app, c.user>>)
ScopeOf(c) == artifact_scope_id(c.file, c.sid)
HeadPlace(c) ==
    Place("artifacts", artifact_head_key(c.app, c.user, ScopeOf(c), c.file),
          "artifact_record", <<"head", c.app, c.user, ScopeOf(c), c.file>>)
ArtifactPlace(c, n) ==
    Place("artifacts", artifact_key(c.app, c.user, ScopeOf(c), c.file, n),
          "artifact_record", <<"artifact", c.app, c.user, ScopeOf(c), c.file, <<Pad(n)>> >>)
MemoryPlace(c) ==
    Place("memory", memory_key(c.app, c.user, c.sid, c.event), "memory_record",
          <<"memory", c.app, c.user, c.sid, c.event>>)
PostingPlace(c) ==
    Place("memory", memory_posting_key(c.app, c.user, c.token), "memory_record",
          <<"posting", c.app, c.user, c.token>>)
-----------------------------------------------------------------------------
(* Requests.  What the properties do not tell apart is the name of the     *)
(* call that wrote it.                                                     *)

Req(do, place, bins) == [do |-> do, place |-> place, bins |-> bins]
NoBins == [b \in {} |-> b]
Read(place)   == Req("read", place, NoBins)
Remove(place) == Req("remove", place, NoBins)
Query(set, bin, value) == Req("query", Place(set, <<>>, "any", <<bin>>), [equals |-> value])

\* again: when the service itself sends the stage again; cls: the policy of
\* the client.
Stage(cls, again, reqs) == <<[cls |-> cls, again |-> again, reqs |-> reqs]>>
When(condition, stages) == IF condition THEN stages ELSE <<>>

Delta(j) == [k \in Job[j].keys |-> j]
Parts(j) == _partition_state(Delta(j))
Given(part) == DOMAIN part # {}
PutItems(place, part) == Req("write", place, [state |-> part])

_merge_scoped_state(place, part) ==
    When(Given(part), Stage("operate", "never", {PutItems(place, part)}))

_merge_state_for_read(c) == Stage("batch", "never", {Read(AppPlace(c)), Read(UserPlace(c))})

create_session(j) ==
    LET c == Job[j] IN
    Stage("write", "rejected",
          {Req("create", SessionPlace(c),
               [app |-> c.app, uid |-> c.user, sid |-> c.sid, state |-> Parts(j).session,
                ts |-> j, cur |-> 0])})
    \o _merge_scoped_state(AppPlace(c), Parts(j).app)
    \o _merge_scoped_state(UserPlace(c), Parts(j).user)
    \o Stage("operate", "never",
             {Req("write", ManifestPlace(c), [sman |-> <<[value |-> c.sid, by |-> j]>>])})
    \o _merge_state_for_read(c)

append_event(j) ==
    LET c == Job[j]
        parts == Parts(j)
        states == {w \in {Req("write", SessionPlace(c), [state |-> parts.session, ts |-> j]),
                          PutItems(AppPlace(c), parts.app),
                          PutItems(UserPlace(c), parts.user)} : Given(w.bins.state)}
    IN Stage(IF states = {} THEN "operate" ELSE "batch", "always",
             {Req("write", SegmentPlace(c, 0), [events |-> {j}])} \cup states)

get_session(j) ==
    Stage("batch", "never",
          {Read(SessionPlace(Job[j])), Read(AppPlace(Job[j])), Read(UserPlace(Job[j]))})

delete_session(j) ==
    LET c == Job[j]
        One(place) == Stage("remove", "never", {Remove(place)})
    IN Stage("read", "never", {Read(SessionPlace(c))})
       \o One(SegmentPlace(c, 0)) \o One(SegmentPlace(c, 1)) \o One(SessionPlace(c))
       \o Stage("operate", "never", {Req("unlist", ManifestPlace(c), [sman |-> c.sid])})

list_sessions(j) == Stage("query", "never", {Query("sessions", "app", Job[j].app)})

save_artifact(j, n) ==
    LET c == Job[j] IN
    Stage("operate", "never", {Req("increment", HeadPlace(c), [ver |-> 1])})
    \o Stage("write", "never",
             {Req("create", ArtifactPlace(c, n),
                  [app |-> c.app, uid |-> c.user, sid |-> ScopeOf(c),
                   aus |-> scope_tuple(c.app, c.user, ScopeOf(c)), fname |-> c.file,
                   ver |-> n, mime |-> j, data |-> j, ctime |-> j, cmeta |-> j])})

_filenames_for(c, scope) ==
    Stage("query", "never", {Query("artifacts", "aus", scope_tuple(c.app, c.user, scope))})
list_artifact_keys(j) ==
    _filenames_for(Job[j], USER_SCOPE_SID) \o _filenames_for(Job[j], Job[j].sid)

_upsert_memory(j) ==
    LET c == Job[j] IN
    Stage("write", "never",
          {Req("write", MemoryPlace(c),
               [app |-> c.app, uid |-> c.user, sid |-> c.sid,
                aus |-> scope_tuple(c.app, c.user, c.sid), eid |-> c.event, text |-> j,
                keywords |-> {c.token}, author |-> j, ts |-> j, content |-> j])})
    \o Stage("operate", "never",
             {Req("write", PostingPlace(c),
                  [mpl |-> <<[value |-> <<c.event, c.sid>>, by |-> j]>>])})
add_events_to_memory(j) ==
    Stage("batch", "never", {Read(MemoryPlace(Job[j]))}) \o _upsert_memory(j)

Stages(j, n) ==
    CASE Job[j].op = "create_session"       -> create_session(j)
      [] Job[j].op = "append_event"         -> append_event(j)
      [] Job[j].op = "get_session"          -> get_session(j)
      [] Job[j].op = "delete_session"       -> delete_session(j)
      [] Job[j].op = "list_sessions"        -> list_sessions(j)
      [] Job[j].op = "save_artifact"        -> save_artifact(j, n)
      [] Job[j].op = "list_artifact_keys"   -> list_artifact_keys(j)
      [] Job[j].op = "add_events_to_memory" -> add_events_to_memory(j)

\* Stages for every version, computed once.
Plan == [j \in Jobs |-> [n \in 0..MaxVersion |-> Stages(j, n)]]
Now(j) == Plan[j][ver[j]][at[j]]

\* delete_session finds no session; add_events_to_memory finds its event.
EarlyReturn(j, recs) ==
    /\ at[j] = 1
    /\ \/ Job[j].op = "delete_session" /\ DOMAIN recs = {}
       \/ Job[j].op = "add_events_to_memory" /\ DOMAIN recs # {}

\* The state that a create or a get returns.
StateIn(recs, place) ==
    IF place.pk \in DOMAIN recs /\ "state" \in DOMAIN recs[place.pk]
    THEN recs[place.pk].state ELSE NoBins
Found(j) ==
    Job[j].op = "get_session" => SessionPlace(Job[j]).pk \in DOMAIN got[j]
StateOf(j) ==
    IF ~Found(j) THEN NoBins
    ELSE _merge_state(StateIn(got[j], AppPlace(Job[j])), StateIn(got[j], UserPlace(Job[j])),
                      IF Job[j].op = "create_session" THEN Parts(j).session
                      ELSE StateIn(got[j], SessionPlace(Job[j])))

\* What a list returns.
SessionsIn(j) ==
    {<<got[j][p].uid, got[j][p].sid>> : p \in {q \in DOMAIN got[j] : got[j][q].app = Job[j].app}}
FilesIn(j) == {got[j][p].fname : p \in DOMAIN got[j]}
-----------------------------------------------------------------------------
(* The server.                                                             *)

Merged(old, new) ==
    LET Both(b) == CASE b = "state"          -> Over(old[b], new[b])
                     [] b = "events"         -> old[b] \cup new[b]
                     [] b \in {"sman", "mpl"} -> old[b] \o new[b]
                     [] OTHER                -> new[b]
    IN [b \in DOMAIN old \cup DOMAIN new |->
            IF b \in DOMAIN old \cap DOMAIN new THEN Both(b)
            ELSE IF b \in DOMAIN old THEN old[b] ELSE new[b]]

Bins(pk) == IF pk \in DOMAIN store THEN store[pk] ELSE NoBins
Put(pk, bins) == Over(store, [p \in {pk} |-> bins])

\* A create-only put meets a record.
Refused(q) == q.do = "create" /\ q.place.pk \in DOMAIN store

Unlisted(bins, sid) ==
    IF "sman" \notin DOMAIN bins THEN bins
    ELSE LET list == bins["sman"]
             kept == {i \in DOMAIN list : list[i].value # sid}
             Nth(n) == CHOOSE i \in kept : Cardinality({k \in kept : k <= i}) = n
         IN [bins EXCEPT !["sman"] = [n \in 1..Cardinality(kept) |-> list[Nth(n)]]]

\* The records after request q.
After(q) ==
    LET pk == q.place.pk IN
    CASE q.do = "create" -> IF Refused(q) THEN store ELSE Put(pk, q.bins)
      [] q.do = "write"  -> Put(pk, Merged(Bins(pk), q.bins))
      [] q.do = "increment" ->
            Put(pk, [ver |-> (IF pk \in DOMAIN store THEN store[pk].ver ELSE 0) + q.bins.ver])
      [] q.do = "unlist" ->
            IF pk \in DOMAIN store THEN Put(pk, Unlisted(store[pk], q.bins.sman)) ELSE store
      [] q.do = "remove" -> [p \in DOMAIN store \ {pk} |-> store[p]]
      [] OTHER           -> store

\* Record p is one that q returns.
Gives(q, p, bins) ==
    \/ q.do = "read"  /\ p = q.place.pk
    \/ q.do = "query" /\ p[1] = q.place.pk[1]
                      /\ LET bin == q.place.what[1] IN
                         bin \in DOMAIN bins /\ bins[bin] = q.bins.equals
Answered(q) == [p \in {r \in DOMAIN store : Gives(q, r, store[r])} |-> store[p]]

Names(q) == IF q.do = "query" THEN {} ELSE {q.place}
IsWrite(q) == q.do \notin {"read", "query"}
Indexed(q) == q.do = "query" => <<q.place.pk[1], q.place.what[1]>> \in indexes
-----------------------------------------------------------------------------
(* Services.                                                               *)

Needed(p, s) ==
    \E j \in Jobs : status[j] # "absent" /\ Job[j].proc = p /\ ServiceOf(Job[j].op) = s

\* What the constructor creates.  A build that goes on in the background is
\* taken to be over before the first query: "the build completes in
\* milliseconds" (indexes.py).
IndexesMade(p, s) == IF p \in Ensures THEN IndexesOf(s) ELSE {}

\* The constructor; an index that exists already is passed over.
Construct(p, s) ==
    /\ Needed(p, s) /\ <<p, s>> \notin up
    /\ indexes' = indexes \cup IndexesMade(p, s)
    /\ up' = up \cup {<<p, s>>}
    /\ UNCHANGED <<db, status, call, before, hist>>

\* It raises part-way: the caller has no service and may construct another.
ConstructFails(p, s) ==
    /\ Needed(p, s) /\ <<p, s>> \notin up /\ faults < MaxFaults
    /\ \E made \in SUBSET IndexesMade(p, s) : indexes' = indexes \cup made
    /\ faults' = faults + 1
    /\ UNCHANGED <<db, up, status, call, before, unread, unsure, late>>
-----------------------------------------------------------------------------
(* Calls.                                                                  *)

SameSession(i, j) ==
    Job[i].app = Job[j].app /\ Job[i].user = Job[j].user /\ Job[i].sid = Job[j].sid

\* Callers append to a session that a create returned.
Handed(j) ==
    Job[j].op = "append_event" =>
        \E c \in Jobs : Job[c].op = "create_session" /\ SameSession(c, j) /\ status[c] = "done"

Ended == {"done", "failed", "noindex"}
End(j, how) == status' = [status EXCEPT ![j] = how]
Send(j, reqs) == left' = [left EXCEPT ![j] = reqs]

Begin(j) ==
    /\ status[j] = "start" /\ <<Job[j].proc, ServiceOf(Job[j].op)>> \in up /\ Handed(j)
    /\ End(j, "busy")
    /\ before' = [before EXCEPT ![j] = {i \in Jobs : status[i] \in Ended}]
    /\ at' = [at EXCEPT ![j] = 1]
    /\ Send(j, Plan[j][0][1].reqs)
    /\ UNCHANGED <<db, svc, ver, got, hist>>

\* The records and the version that j has once q is applied.
Receive(j, q) ==
    /\ got' = [got EXCEPT ![j] = Over(@, Answered(q))]
    /\ ver' = IF q.do = "increment" /\ q.place.pk \in DOMAIN store
              THEN [ver EXCEPT ![j] = store[q.place.pk].ver] ELSE ver

\* Files have no more versions than MaxVersion allows for.
InBound(q) ==
    q.do = "increment" /\ q.place.pk \in DOMAIN store => store[q.place.pk].ver <= MaxVersion

\* The server applies q, and other requests of the stage are still under way.
Apply(j, q) ==
    /\ status[j] = "busy" /\ q \in left[j] /\ left[j] # {q} /\ Indexed(q) /\ ~Refused(q) /\ InBound(q)
    /\ store' = After(q) /\ touched' = touched \cup Names(q)
    /\ Receive(j, q)
    /\ Send(j, left[j] \ {q})
    /\ UNCHANGED <<svc, status, at, before, hist>>

\* The stage is complete: the next one, or the end of the call.
Proceed(j) ==
    IF at[j] = Len(Plan[j][ver'[j]]) \/ EarlyReturn(j, got'[j])
    THEN End(j, "done") /\ Send(j, {}) /\ UNCHANGED at
    ELSE /\ at' = [at EXCEPT ![j] = @ + 1]
         /\ Send(j, Plan[j][ver'[j]][at[j] + 1].reqs)
         /\ UNCHANGED status

\* It applies the last one, and the client has the answer.
Answer(j, q) ==
    /\ status[j] = "busy" /\ left[j] = {q} /\ Indexed(q) /\ ~Refused(q) /\ InBound(q)
    /\ store' = After(q) /\ touched' = touched \cup Names(q)
    /\ Receive(j, q)
    /\ Proceed(j)
    /\ UNCHANGED <<svc, before, hist>>

\* RecordExistsError, or a query without its index: the call raises.
Raise(j, q) ==
    /\ status[j] = "busy" /\ q \in left[j] /\ (Refused(q) \/ ~Indexed(q))
    /\ End(j, IF Indexed(q) THEN "failed" ELSE "noindex")
    /\ Send(j, {}) /\ touched' = touched \cup Names(q)
    /\ UNCHANGED <<store, svc, at, ver, got, before, hist>>
-----------------------------------------------------------------------------
(* Failures.                                                               *)

\* No answer: the server has applied one more request or none, and the writes
\* that it has not applied are lost or still under way.
Loses(j) ==
    /\ faults < MaxFaults /\ faults' = faults + 1
    /\ \E done \in {{}} \cup {{q} : q \in left[j]} :
          /\ store' = IF done = {} THEN store ELSE After(CHOOSE q \in done : TRUE)
          /\ touched' = touched \cup UNION {Names(q) : q \in done}
          /\ late' \in {late, late \cup {q \in left[j] \ done : IsWrite(q)}}
    /\ unsure' = IF \E q \in Now(j).reqs : IsWrite(q) THEN unsure \cup {j} ELSE unsure
    /\ UNCHANGED unread

\* The client sends again what its policy lets it, the service what it knows
\* to be idempotent or to have been rejected.
MayResend(j) ==
    \/ policies[Now(j).cls].max_retries > 0
    \/ Now(j).again = "always"
    \/ Now(j).again = "rejected" /\ store' = store /\ late' = late

\* The records that came from other stages.
Except(recs, reqs) ==
    [p \in {r \in DOMAIN recs : \A q \in reqs : ~Gives(q, r, recs[r])} |-> recs[p]]

Resend(j) ==
    /\ status[j] = "busy" /\ Loses(j) /\ MayResend(j)
    /\ Send(j, Now(j).reqs)
    /\ got' = [got EXCEPT ![j] = Except(@, Now(j).reqs)]
    /\ UNCHANGED <<svc, status, at, ver, before>>

\* Mutant: what was under way is forgotten about.
FailBusy(j) ==
    /\ status[j] = "busy" /\ Loses(j)
    /\ End(j, "failed")
    /\ UNCHANGED <<svc, call, before>>

\* Any other error, or the last attempt: the call raises.
Fail(j) ==
    /\ status[j] = "busy" /\ Loses(j)
    /\ End(j, "failed") /\ Send(j, {})
    /\ UNCHANGED <<svc, at, ver, got, before>>

\* _batch_read takes a record with an error code for a missing one.
Unread(j, q) ==
    /\ status[j] = "busy" /\ q \in left[j] /\ q.do = "read" /\ Now(j).cls = "batch"
    /\ faults < MaxFaults /\ faults' = faults + 1 /\ unread' = unread \cup {j}
    /\ UNCHANGED <<ver, got>>
    /\ IF left[j] = {q} THEN Proceed(j) ELSE Send(j, left[j] \ {q}) /\ UNCHANGED <<status, at>>
    /\ UNCHANGED <<db, svc, before, unsure, late>>

ApplyLate(q) ==
    /\ q \in late /\ late' = late \ {q}
    /\ store' = After(q) /\ touched' = touched \cup Names(q)
    /\ UNCHANGED <<svc, status, call, before, unread, unsure, faults>>
-----------------------------------------------------------------------------
Init ==
    /\ store = NoBins /\ touched = {} /\ indexes = {} /\ up = {}
    /\ \E cast \in Casts :
          status = [j \in Jobs |-> IF j \in cast THEN "start" ELSE "absent"]
    /\ at = [j \in Jobs |-> 0] /\ left = [j \in Jobs |-> {}]
    /\ ver = [j \in Jobs |-> 0] /\ got = [j \in Jobs |-> NoBins]
    /\ before = [j \in Jobs |-> {}]
    /\ unread = {} /\ unsure = {} /\ late = {} /\ faults = 0

Next ==
    \/ \E p \in Processes, s \in Services : Construct(p, s) \/ ConstructFails(p, s)
    \/ \E j \in Jobs : Begin(j) \/ Resend(j) \/ Fail(j)
    \/ \E j \in Jobs : \E q \in left[j] : Apply(j, q) \/ Answer(j, q) \/ Raise(j, q) \/ Unread(j, q)
    \/ \E q \in late : ApplyLate(q)

Spec == Init /\ [][Next]_vars
-----------------------------------------------------------------------------
(* Properties.                                                             *)

Asked(q) == q.do \in {"create", "write", "increment", "unlist", "remove", "read", "query"}

\* Every variable keeps its type, and only a call that is under way waits for
\* requests, those of its stage.
TypeOK ==
    /\ DOMAIN store \subseteq {x.pk : x \in touched}
    /\ indexes \subseteq StorageSet \X BinName
    /\ up \subseteq Processes \X Services
    /\ status \in [Jobs -> {"absent", "start", "busy"} \cup Ended]
    /\ at \in [Jobs -> 0..5] /\ ver \in [Jobs -> 0..MaxVersion]
    /\ \A j \in Jobs : left[j] # {} => status[j] = "busy" /\ left[j] \subseteq Now(j).reqs
    /\ \A j \in Jobs : DOMAIN got[j] \subseteq {x.pk : x \in touched}
    /\ before \in [Jobs -> SUBSET Jobs]
    /\ unread \subseteq Jobs /\ unsure \subseteq Jobs
    /\ \A q \in late : Asked(q)
    /\ faults \in 0..MaxFaults

\* No two things share a record, and a record has only the bins that the
\* registry of the schema gives to its set and kind (keys.py, BIN_REGISTRY).
\* Names may hold reserved words and file names separators, but not every name
\* is safe: a session called "sl" or "kw" shares a record with the manifest or
\* with a posting list of its user (ReservedSessionId.cfg), and so may
\* identifiers with separators in them.
RecordsConform ==
    /\ \A x, y \in touched : x.pk = y.pk => x = y
    /\ \A x \in touched :
          x.pk \in DOMAIN store => DOMAIN store[x.pk] \subseteq BinsOf(x.pk[1], x.kind)

Scoped(k) == StartsWith(k, "app") \/ StartsWith(k, "user")
Wrote(w, k) == /\ Job[w].op \in {"create_session", "append_event"}
               /\ k \in Job[w].keys /\ ~StartsWith(k, "temp")
Shares(r, w, k) ==
    /\ Job[r].app = Job[w].app
    /\ StartsWith(k, "app") \/ Job[r].user = Job[w].user
    /\ Scoped(k) \/ Job[r].sid = Job[w].sid
Returned(r) == status[r] = "done" /\ Job[r].op \in {"create_session", "get_session"}

\* State never leaves its scope: every entry of a state that create_session or
\* get_session returns was written under that very key, by a call of the same
\* application, user or session as the prefix of the key demands, and no
\* "temp:" entry is ever returned.
StateScoped ==
    \A r \in Jobs : Returned(r) =>
        \A k \in DOMAIN StateOf(r) :
            LET w == StateOf(r)[k] IN
            Wrote(w, k) /\ Shares(r, w, k) /\ status[w] \notin {"absent", "start"}

Deleted(j) ==
    \E d \in Jobs : /\ Job[d].op = "delete_session" /\ SameSession(d, j)
                    /\ status[d] \notin {"absent", "start"}

\* The session of r was created before, and nobody has begun to delete it.
Exists(r) ==
    /\ ~Deleted(r)
    /\ Job[r].op = "get_session" =>
          \E c \in before[r] : /\ Job[c].op = "create_session" /\ SameSession(c, r)
                               /\ status[c] = "done"

\* State is neither lost nor reverted: what a call wrote that had returned
\* before is in the state that a later call returns, or a value that no older
\* call left behind, although batches are sent again in part and calls fail
\* half-way.  The older value can come back only from a call one of whose
\* writes went unanswered.
StateFresh ==
    \A r \in Jobs : Returned(r) /\ Exists(r) /\ r \notin unread =>
        \A w \in before[r] : \A k \in Job[w].keys :
            status[w] = "done" /\ Wrote(w, k) /\ Shares(r, w, k) =>
                /\ k \in DOMAIN StateOf(r)
                /\ StateOf(r)[k] \in before[w] => StateOf(r)[k] \in unsure

\* The sessions and the files that a list should return.
Visible(l, w) ==
    /\ Job[l].app = Job[w].app
    /\ \/ Job[l].op = "list_sessions" /\ Job[w].op = "create_session"
       \/ /\ Job[l].op = "list_artifact_keys" /\ Job[w].op = "save_artifact"
          /\ Job[l].user = Job[w].user
          /\ StartsWith(Job[w].file, "user") \/ Job[l].sid = Job[w].sid
NamesOf(l, ws) ==
    IF Job[l].op = "list_sessions" THEN {<<Job[w].user, Job[w].sid>> : w \in ws}
    ELSE {Job[w].file : w \in ws}

\* A query returns its tenant's records: list_sessions(app) every session of the
\* application that was created before and not deleted, list_artifact_keys every
\* file of the user and of the session, and neither anything of another
\* application, user or session.  It misses its index only in a process that
\* left ensure_indexes out, whatever constructors failed before.
QueryExact ==
    \A l \in Jobs : Job[l].op \in {"list_sessions", "list_artifact_keys"} =>
        /\ status[l] = "noindex" => Job[l].proc \notin Ensures
        /\ status[l] = "done" =>
              LET found == IF Job[l].op = "list_sessions" THEN SessionsIn(l) ELSE FilesIn(l)
                  begun == {w \in Jobs : Visible(l, w) /\ status[w] \notin {"absent", "start"}}
                  owed  == {w \in before[l] \cap begun : status[w] = "done" /\ ~Deleted(w)}
              IN NamesOf(l, owed) \subseteq found /\ found \subseteq NamesOf(l, begun)

Entries(bins) ==
    IF "sman" \in DOMAIN bins THEN bins.sman ELSE IF "mpl" \in DOMAIN bins THEN bins.mpl ELSE <<>>

\* A call appends to a manifest or a posting list at most once: list_append is
\* not idempotent, and under the policies of the client nobody sends it again.
AppendedOnce ==
    \A p \in DOMAIN store : \A m, n \in DOMAIN Entries(store[p]) :
        Entries(store[p])[m].by = Entries(store[p])[n].by => m = n
=============================================================================
