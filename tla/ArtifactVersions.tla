-------------------------- MODULE ArtifactVersions --------------------------
(***************************************************************************)
(* AerospikeArtifactService: versions of artifacts.                        *)
(*                                                                         *)
(* A file (app, user, scope, filename) has a head record that counts its   *)
(* versions and one record per version.  Coroutines of any number of       *)
(* processes save, load and delete; every database call is a step.         *)
(* Nothing is retried: a call that fails ends its operation, and when it   *)
(* timed out the server may still apply it once.  A crash of a process is  *)
(* such a failure of each of its operations.  A query is answered in one   *)
(* step.                                                                   *)
(***************************************************************************)
EXTENDS Naturals, FiniteSets

CONSTANTS
    Savers,         \* save_artifact calls
    Loaders,        \* load_artifact calls
    Deleters,       \* delete_artifact calls
    Files,          \* (app, user, scope, filename)
    File,           \* File[t]: the file of call t
    Part,           \* Part[s]: the part that s saves
    Want,           \* Want[l]: the version l asks for, or None
    Mimes,          \* MIME types
    TextPlain,      \* the MIME type text/plain
    Blobs,          \* bytes, text and URIs
    Utf8,           \* the blobs that are valid UTF-8
    MaxFaults,      \* bound on failed calls
    None            \* no record, no version, nothing returned

Tasks == Savers \cup Loaders \cup Deleters

\* A genai Part: which field is set, the MIME type and the bytes, text or URI.
PartType == [kind : {"inline", "text", "file", "other"}, mime : Mimes, data : Blobs]

ASSUME CallsAssumption ==
    /\ Savers \cap Loaders = {} /\ Savers \cap Deleters = {}
    /\ Loaders \cap Deleters = {}
    /\ File \in [Tasks -> Files]
    /\ Want \in [Loaders -> Nat \cup {None}]
    /\ MaxFaults \in Nat
    /\ None \notin Nat

ASSUME PartsAssumption ==
    /\ DOMAIN Part = Savers
    /\ \A s \in Savers : Part[s] \in PartType
    /\ \A s \in Savers : Part[s].kind \in {"text", "file"} => Part[s].data \in Utf8
    /\ TextPlain \in Mimes
    /\ None \notin PartType

VARIABLES
    head,       \* head[f]: bin ver of the head record of f, None if absent
    rows,       \* version records: file, version and the save that wrote it
    pc,         \* pc[t]: the call t makes next, or how it ended
    ver,        \* ver[t]: the version t allocated, or loads
    todo,       \* todo[d]: versions that delete d has yet to remove
    got,        \* got[l]: what load l returned
    owed,       \* history: saves of the file that had returned when t started
    late,       \* requests without an answer that the server may yet apply
    faults      \* failed calls so far

db   == <<head, rows>>
vars == <<db, pc, ver, todo, got, owed, late, faults>>

Rows     == [file : Files, ver : Nat, by : Savers]
Requests == [op : {"bump", "put", "remove", "drop"}, by : Tasks, ver : Nat \cup {None}]
Labels   == {"start", "put", "get", "remove", "head", "saved", "exists",
             "rejected", "loaded", "undecodable", "deleted", "failed"}
Working  == {"start", "put", "get", "remove", "head"}

\* Every variable keeps its type; a save that puts has a version.
TypeOK ==
    /\ head \in [Files -> Nat \cup {None}]
    /\ rows \subseteq Rows
    /\ pc \in [Tasks -> Labels]
    /\ ver \in [Tasks -> Nat \cup {None}]
    /\ todo \in [Deleters -> SUBSET Nat]
    /\ got \in [Loaders -> PartType \cup {None}]
    /\ owed \in [Tasks -> SUBSET Savers]
    /\ late \subseteq Requests
    /\ faults \in 0..MaxFaults
    /\ \A t \in Tasks : pc[t] \in {"put", "saved", "get"} => ver[t] \in Nat

-----------------------------------------------------------------------------
(* Conversions of the content.                                             *)

mime_for_part(p) == IF p.kind = "text" THEN TextPlain ELSE p.mime
Supported(p) == p.kind # "other"

\* data.decode of a record with MIME type text/plain succeeds.
Decodes(mime, data) == mime = TextPlain => data \in Utf8

\* Mutant: every record is loaded as a text part.
TextFromBins(mime, data) == [kind |-> "text", mime |-> TextPlain, data |-> data]

part_from_bins(mime, data) ==
    IF mime = TextPlain THEN [kind |-> "text", mime |-> mime, data |-> data]
                           ELSE [kind |-> "inline", mime |-> mime, data |-> data]

-----------------------------------------------------------------------------
(* The server.                                                             *)

RowsFor(f) == {r \in rows : r.file = f}
VersionsFor(f) == {r.ver : r \in RowsFor(f)}
NextVersion(f) == IF head[f] = None THEN 0 ELSE head[f]

Bump(f) == head' = [head EXCEPT ![f] = NextVersion(f) + 1] /\ UNCHANGED rows

\* put with POLICY_EXISTS_CREATE.
Create(s, v) ==
    /\ v \notin VersionsFor(File[s])
    /\ rows' = rows \cup {[file |-> File[s], ver |-> v, by |-> s]}
    /\ UNCHANGED head

Remove(f, v) == rows' = {r \in rows : r.file # f \/ r.ver # v} /\ UNCHANGED head
Drop(f)      == head' = [head EXCEPT ![f] = None] /\ UNCHANGED rows

\* The writes task t may be waiting for.
Request(t, op, v) == [op |-> op, by |-> t, ver |-> v]
InFlight(t) ==
    CASE pc[t] = "start" /\ t \in Savers -> {Request(t, "bump", None)}
      [] pc[t] = "put"    -> {Request(t, "put", ver[t])}
      [] pc[t] = "remove" -> {Request(t, "remove", v) : v \in todo[t]}
      [] pc[t] = "head"   -> {Request(t, "drop", None)}
      [] OTHER -> {}

-----------------------------------------------------------------------------

Goto(t, l) == pc' = [pc EXCEPT ![t] = l]
Saved(f) == {s \in Savers : pc[s] = "saved" /\ File[s] = f}
Begin(t) == owed' = [owed EXCEPT ![t] = Saved(File[t])]

\* Mutant: the next version is looked up in the version records.
AllocateFromRows(s) ==
    /\ pc[s] = "start"
    /\ Begin(s)
    /\ ver' = [ver EXCEPT ![s] = Cardinality(VersionsFor(File[s]))]
    /\ Goto(s, IF Supported(Part[s]) THEN "put" ELSE "rejected")
    /\ UNCHANGED <<db, todo, got, late, faults>>

\* Mutant: the counter is read and not incremented.
AllocateNoIncrement(s) ==
    /\ pc[s] = "start"
    /\ Begin(s)
    /\ ver' = [ver EXCEPT ![s] = NextVersion(File[s])]
    /\ Goto(s, IF Supported(Part[s]) THEN "put" ELSE "rejected")
    /\ UNCHANGED <<db, todo, got, late, faults>>

\* Mutant: the counter of a new head record is returned as it was read.
AllocateNone(s) ==
    /\ pc[s] = "start"
    /\ Begin(s)
    /\ Bump(File[s])
    /\ ver' = [ver EXCEPT ![s] = head[File[s]]]
    /\ Goto(s, IF Supported(Part[s]) THEN "put" ELSE "rejected")
    /\ UNCHANGED <<todo, got, late, faults>>

\* save_artifact: _allocate_version, then _mime_for_part, which raises for a
\* part it does not support when the version is already taken.
Allocate(s) ==
    /\ pc[s] = "start"
    /\ Begin(s)
    /\ Bump(File[s])
    /\ ver' = [ver EXCEPT ![s] = NextVersion(File[s])]
    /\ Goto(s, IF Supported(Part[s]) THEN "put" ELSE "rejected")
    /\ UNCHANGED <<todo, got, late, faults>>

\* save_artifact: the put; RecordExistsError reaches the caller.
Put(s) ==
    /\ pc[s] = "put"
    /\ \/ Create(s, ver[s]) /\ Goto(s, "saved")
       \/ ver[s] \in VersionsFor(File[s]) /\ Goto(s, "exists") /\ UNCHANGED db
    /\ UNCHANGED <<ver, todo, got, owed, late, faults>>

\* Mutant: the oldest version is taken.
Oldest(V) == {v \in V : \A w \in V : v <= w}

\* max(versions)
Latest(V) == {v \in V : \A w \in V : w <= v}

\* load_artifact without a version: the query of _versions_for.
LoadLatest(l) ==
    LET V == VersionsFor(File[l]) IN
    /\ pc[l] = "start" /\ Want[l] = None
    /\ Begin(l)
    /\ \/ V = {} /\ Goto(l, "loaded") /\ UNCHANGED ver
       \/ \E v \in Latest(V) : Goto(l, "get") /\ ver' = [ver EXCEPT ![l] = v]
    /\ UNCHANGED <<db, todo, got, late, faults>>

\* load_artifact with a version goes straight to the get.
LoadVersion(l) ==
    /\ pc[l] = "start" /\ Want[l] # None
    /\ Begin(l)
    /\ ver' = [ver EXCEPT ![l] = Want[l]]
    /\ Goto(l, "get")
    /\ UNCHANGED <<db, todo, got, late, faults>>

\* The get and _part_from_bins, which raises for a text record that is not
\* UTF-8; a record that is not there yields None.
Get(l) ==
    /\ pc[l] = "get"
    /\ \/ \E r \in RowsFor(File[l]) :
            LET mime == mime_for_part(Part[r.by])
                data == Part[r.by].data
            IN  /\ r.ver = ver[l]
                /\ \/ /\ Decodes(mime, data)
                      /\ got' = [got EXCEPT ![l] = part_from_bins(mime, data)]
                      /\ Goto(l, "loaded")
                   \/ ~Decodes(mime, data) /\ Goto(l, "undecodable") /\ UNCHANGED got
       \/ ver[l] \notin VersionsFor(File[l]) /\ Goto(l, "loaded") /\ UNCHANGED got
    /\ UNCHANGED <<db, ver, todo, owed, late, faults>>

\* Mutant: only the latest version is deleted.
DeleteLatest(d) ==
    LET V == VersionsFor(File[d]) IN
    /\ pc[d] = "start"
    /\ Begin(d)
    /\ todo' = [todo EXCEPT ![d] = Latest(V)]
    /\ Goto(d, IF V = {} THEN "head" ELSE "remove")
    /\ UNCHANGED <<db, ver, got, late, faults>>

\* delete_artifact: the query of _versions_for ...
DeleteQuery(d) ==
    LET V == VersionsFor(File[d]) IN
    /\ pc[d] = "start"
    /\ Begin(d)
    /\ todo' = [todo EXCEPT ![d] = V]
    /\ Goto(d, IF V = {} THEN "head" ELSE "remove")
    /\ UNCHANGED <<db, ver, got, late, faults>>

\* ... one remove per version found, in the order of the query ...
DeleteVersion(d) ==
    /\ pc[d] = "remove"
    /\ \E v \in todo[d] :
        /\ Remove(File[d], v)
        /\ todo' = [todo EXCEPT ![d] = @ \ {v}]
        /\ Goto(d, IF todo[d] = {v} THEN "head" ELSE "remove")
    /\ UNCHANGED <<ver, got, owed, late, faults>>

\* ... and the remove of the head record.
DeleteHead(d) ==
    /\ pc[d] = "head"
    /\ Drop(File[d])
    /\ Goto(d, "deleted")
    /\ UNCHANGED <<ver, todo, got, owed, late, faults>>

\* A call of t raises; a write may have been applied or may be applied later.
CallFails(t) ==
    /\ pc[t] \in Working
    /\ faults < MaxFaults
    /\ faults' = faults + 1
    /\ late' \in {late} \cup {late \cup {q} : q \in InFlight(t)}
    /\ Goto(t, "failed")
    /\ UNCHANGED <<db, ver, todo, got, owed>>

ApplyLate(q) ==
    /\ \/ q.op = "bump" /\ Bump(File[q.by])
       \/ q.op = "put" /\ Create(q.by, q.ver)
       \/ q.op = "remove" /\ Remove(File[q.by], q.ver)
       \/ q.op = "drop" /\ Drop(File[q.by])
    /\ late' = late \ {q}
    /\ UNCHANGED <<pc, ver, todo, got, owed, faults>>

Init ==
    /\ head = [f \in Files |-> None]
    /\ rows = {}
    /\ pc = [t \in Tasks |-> "start"]
    /\ ver = [t \in Tasks |-> None]
    /\ todo = [d \in Deleters |-> {}]
    /\ got = [l \in Loaders |-> None]
    /\ owed = [t \in Tasks |-> {}]
    /\ late = {}
    /\ faults = 0

Next ==
    \/ \E s \in Savers : Allocate(s) \/ Put(s)
    \/ \E l \in Loaders : LoadLatest(l) \/ LoadVersion(l) \/ Get(l)
    \/ \E d \in Deleters : DeleteQuery(d) \/ DeleteVersion(d) \/ DeleteHead(d)
    \/ \E t \in Tasks : CallFails(t)
    \/ \E q \in late : ApplyLate(q)

Spec == Init /\ [][Next]_vars

-----------------------------------------------------------------------------

\* No delete of f has begun: until then the counter and the records of f stay.
Undeleted(f) == \A d \in Deleters : File[d] = f => pc[d] = "start"

\* A save that begins when another has returned gets a higher version, although
\* versions are lost to failed saves and to parts that are not supported.
SaveMonotonic ==
    \A s \in Savers : pc[s] \in {"put", "saved"} /\ Undeleted(File[s]) =>
        \A r \in owed[s] : ver[r] < ver[s]

\* "Concurrent save_artifact calls allocate distinct versions" (CHANGELOG.md):
\* two saves of a file never hold the same version at the same time.
ConcurrentVersionsDistinct ==
    \A s, r \in Savers :
        s # r /\ File[s] = File[r] /\ pc[s] = "put" /\ pc[r] = "put" =>
            ver[s] # ver[r]

\* No save meets the version record of another save, whatever calls failed
\* before and arrive late, and whatever is deleted of other files.
SaveNeverExists == \A s \in Savers : Undeleted(File[s]) => pc[s] # "exists"

\* load_artifact without a version returns an artifact at least as new as
\* every save that had returned before the load began.
LoadSeesSaved ==
    \A l \in Loaders : pc[l] = "loaded" /\ Want[l] = None /\ Undeleted(File[l]) =>
        \A s \in owed[l] : got[l] # None /\ ver[l] >= ver[s]

\* Parts that come back as the same kind of part: text, and inline data of any
\* MIME type but text/plain.
Symmetric(p) == p.kind = "text" \/ (p.kind = "inline" /\ p.mime # TextPlain)

\* q has the MIME type and the bytes of what save s was given.
Restored(s, q) ==
    /\ q # None
    /\ mime_for_part(q) = mime_for_part(Part[s])
    /\ q.data = Part[s].data
    /\ Symmetric(Part[s]) => q.kind = Part[s].kind

\* Inline data of type text/plain that is not UTF-8.
Unreadable(s) ==
    Part[s].kind = "inline" /\ Part[s].mime = TextPlain /\ Part[s].data \notin Utf8

\* A version that a save returned loads with that save's MIME type and bytes,
\* whatever runs beside the load.  Only inline text/plain data that is not
\* UTF-8 cannot be read back (against LoadDecodes below), and only file_data
\* (against LoadKeepsKind) and inline text/plain become another kind of part.
LoadKeepsContent ==
    \A l \in Loaders : Undeleted(File[l]) =>
        \A s \in owed[l] : ver[s] = ver[l] =>
            /\ pc[l] = "loaded" => Restored(s, got[l])
            /\ pc[l] = "undecodable" => Unreadable(s)

\* "We store the URI; loading reconstructs the file_data part"
\* (_bytes_for_part): what is loaded is the kind of part that was saved.
LoadKeepsKind ==
    \A l \in Loaders : pc[l] = "loaded" =>
        \A s \in owed[l] : ver[s] = ver[l] /\ got[l] # None =>
            got[l].kind = Part[s].kind

\* "mime == "text/plain" -> text Part (write side encoded UTF-8 bytes)"
\* (_part_from_bins): what a save accepted can be decoded by a load.
LoadDecodes == \A l \in Loaders : pc[l] # "undecodable"

\* A delete that returns has removed every version whose save had returned
\* before it, whatever other saves and deletes ran beside it.
DeleteRemovesSaved ==
    \A d \in Deleters : pc[d] = "deleted" =>
        \A r \in rows : r.by \notin owed[d]
=============================================================================
