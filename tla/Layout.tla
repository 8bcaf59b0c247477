------------------------------- MODULE Layout -------------------------------
(***************************************************************************)
(* Where the three services keep what: primary keys (_internal/keys.py),   *)
(* sets, bins and record kinds (_internal/schema.py), secondary indexes    *)
(* (_internal/indexes.py), policies (_internal/client.py) and the scopes   *)
(* of session state (sessions/service.py).                                 *)
(*                                                                         *)
(* A name is the sequence of its parts between the separators ":", so that *)
(* joining names with ":" is concatenation and a prefix that ends in ":"   *)
(* is a first part.  Wire names stand for themselves.                      *)
(***************************************************************************)
EXTENDS Naturals, Sequences

CONSTANTS
    Word,       \* what stands between two separators: any string
    Pad(_)      \* Pad(n): n with eight digits, "{n:08d}"

ASSUME WordAssumption == {"g", "sl", "kw", "__head__", "app", "user", "temp"} \subseteq Word

Name == Seq(Word) \ {<<>>}

-----------------------------------------------------------------------------
(* Keys.                                                                   *)

session_key(app, user, sid) == app \o user \o sid

\* Mutant: the suffix that keeps segments apart from their session.
segment_key_bare(app, user, sid, n) == app \o user \o sid

segment_key(app, user, sid, n) == app \o user \o sid \o <<"g", Pad(n)>>
app_state_key(app) == app

\* Mutant: the user is enough.
user_state_key_bare(app, user) == user

user_state_key(app, user) == app \o user
session_manifest_key(app, user) == app \o user \o <<"sl">>
artifact_key(app, user, sid, file, n) == app \o user \o sid \o file \o <<Pad(n)>>
artifact_head_key(app, user, sid, file) == app \o user \o sid \o file \o <<"__head__">>
memory_key(app, user, sid, event) == app \o user \o sid \o event
memory_posting_key(app, user, token) == app \o user \o <<"kw">> \o token

\* Mutant: the application is not part of the indexed value.
scope_tuple_bare(app, user, scope) == user \o scope

scope_tuple(app, user, scope) == app \o user \o scope

StartsWith(name, prefix) == Len(name) > 1 /\ Head(name) = prefix
USER_SCOPE_SID == <<"user">>

\* Without a session id a file that is not the user's has no scope: the
\* ValueError reaches the caller before any request, so that such calls leave
\* no trace and every call here has one.
artifact_scope_id(file, sid) == IF StartsWith(file, "user") THEN USER_SCOPE_SID ELSE sid

-----------------------------------------------------------------------------
(* Sets, bins, record kinds.                                               *)

StorageSet == {"sessions", "app_state", "user_state", "artifacts", "memory"}
RecordKind == {"session_record", "segment_record", "app_state_row", "user_state_row",
               "artifact_record", "memory_record", "inline_event_map"}

Bin(sets, kinds) == [sets |-> sets, kinds |-> kinds]
Row(set, kind) == Bin({set}, {kind})
OfTenant == Bin({"sessions", "artifacts", "memory"},
                {"session_record", "artifact_record", "memory_record"})

BIN_REGISTRY ==
    [app |-> OfTenant, uid |-> OfTenant, sid |-> OfTenant,
     aus |-> Bin({"artifacts", "memory"}, {"artifact_record", "memory_record"}),
     state |-> Bin({"sessions", "app_state", "user_state"},
                   {"session_record", "app_state_row", "user_state_row"}),
     ts |-> Bin({"sessions", "memory"}, {"session_record", "memory_record"}),
     author |-> Row("memory", "memory_record"),
     content |-> Row("memory", "memory_record"),
     actions |-> Bin({}, {"inline_event_map"}),
     branch |-> Bin({}, {"inline_event_map"}),
     fname |-> Row("artifacts", "artifact_record"),
     ver |-> Row("artifacts", "artifact_record"),
     mime |-> Row("artifacts", "artifact_record"),
     data |-> Row("artifacts", "artifact_record"),
     ctime |-> Row("artifacts", "artifact_record"),
     cmeta |-> Row("artifacts", "artifact_record"),
     eid |-> Row("memory", "memory_record"),
     text |-> Row("memory", "memory_record"),
     keywords |-> Row("memory", "memory_record"),
     mpl |-> Row("memory", "memory_record"),
     sman |-> Row("sessions", "session_record"),
     events |-> Row("sessions", "segment_record"),
     cur |-> Row("sessions", "session_record"),
     gidx |-> Row("sessions", "segment_record")]

BinName == DOMAIN BIN_REGISTRY

\* The bins that a record of this kind may have in this set.
BinsOf(set, kind) ==
    {b \in BinName : set \in BIN_REGISTRY[b].sets /\ kind \in BIN_REGISTRY[b].kinds}

-----------------------------------------------------------------------------
(* Secondary indexes: the set and the bin of each, by service.             *)

ensure_session_indexes  == {<<"sessions", "uid">>, <<"sessions", "app">>}
ensure_artifact_indexes == {<<"artifacts", "aus">>, <<"artifacts", "fname">>}
ensure_memory_indexes   == {<<"memory", "aus">>}

Services == {"sessions", "artifacts", "memory"}
IndexesOf(service) ==
    CASE service = "sessions"  -> ensure_session_indexes
      [] service = "artifacts" -> ensure_artifact_indexes
      [] service = "memory"    -> ensure_memory_indexes

-----------------------------------------------------------------------------
(* Policies, as far as they decide how often the client sends a request.   *)

Policy(timeout, retries) == [total_timeout |-> timeout, max_retries |-> retries]

\* Mutant: operate is retried like a batch.
_default_policies_operate ==
    [read |-> Policy(1000, 2), write |-> Policy(1000, 0), operate |-> Policy(1000, 2),
     remove |-> Policy(1000, 0), query |-> Policy(10000, 2), batch |-> Policy(1000, 2)]

_default_policies ==
    [read |-> Policy(1000, 2), write |-> Policy(1000, 0), operate |-> Policy(1000, 0),
     remove |-> Policy(1000, 0), query |-> Policy(10000, 2), batch |-> Policy(1000, 2)]

\* Overrides apply setting by setting within a class.
Over(base, override) ==
    [x \in DOMAIN base \cup DOMAIN override |->
        IF x \in DOMAIN override THEN override[x] ELSE base[x]]
_merge_policies(base, override) ==
    [c \in DOMAIN base \cup DOMAIN override |->
        IF c \notin DOMAIN override THEN base[c]
        ELSE IF c \notin DOMAIN base THEN override[c]
        ELSE Over(base[c], override[c])]

-----------------------------------------------------------------------------
(* State.  A state is a function from keys, which are names, to values.    *)

With(prefix, state) == {k \in DOMAIN state : StartsWith(k, prefix)}
Bare(state) ==
    DOMAIN state \ (With("app", state) \cup With("user", state) \cup With("temp", state))
Stripped(prefix, state) ==
    [k \in {Tail(l) : l \in With(prefix, state)} |-> state[<<prefix>> \o k]]

\* Mutant: keys keep their prefix on the way to the database.
_partition_state_prefixed(state) ==
    [session |-> [k \in Bare(state) |-> state[k]],
     app     |-> [k \in With("app", state) |-> state[k]],
     user    |-> [k \in With("user", state) |-> state[k]]]

_partition_state(state) ==
    [session |-> [k \in Bare(state) |-> state[k]],
     app     |-> Stripped("app", state),
     user    |-> Stripped("user", state)]

Prefixed(prefix, state) ==
    [k \in {<<prefix>> \o l : l \in DOMAIN state} |-> state[Tail(k)]]
_merge_state(app, user, session) ==
    Over(Over(Prefixed("app", app), Prefixed("user", user)), session)
=============================================================================
