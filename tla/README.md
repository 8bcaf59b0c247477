# adk-aerospike in TLA+

`adk-aerospike` stores the sessions, artifacts and memories of ADK agents in
Aerospike. The services keep almost no state of their own: they are sets of
coroutines that issue single-record calls to a database other processes use at
the same time. What is hard about them is therefore what happens *between*
calls: other writers, timeouts whose write was applied after all, crashes,
stale caches, batches that succeed in part.

Paths below are relative to `src/src/adk_aerospike/`.

## Inventory

| Component | State | Operations | Interacts through |
|---|---|---|---|
| Session append path (`sessions/service.py`) | session record (`cur`, `state`, `ts`), segment records `g:0..cur` (key-ordered maps of events), app and user state records, `_cur_cache` of each process | `append_event`, `_append_event_record`, `_batch_write_with_retry`, `_write_retrying_overload`, `_place_event`, `_segment_size`, `_roll_over`, `_current_segment` | shared records; the cache is shared by the coroutines of a process |
| Session read path (same file) | none (reads), seeds `_cur_cache` | `get_session`, `_load_events`, `_read_segment_entries`, `_merge_state` | reads the records appends write, one call per segment |
| Session lifecycle (same file) | session record, segments, manifest list per user, `_cur_cache` | `create_session`, `delete_session`, `list_sessions`, `_manifest_add/remove`, pruning of stale ids | shared records and manifest |
| Artifact service (`artifacts/service.py`) | head record (version counter) and one record per version | `save_artifact`, `load_artifact`, `list_*`, `get_artifact_version`, `delete_artifact` | shared records, secondary-index queries |
| Memory service (`memory/service.py`) | memory rows, posting lists per token | `add_session_to_memory`, `add_events_to_memory`, `search_memory`, purge, trim | shared records, secondary-index queries |
| Keys, schema, state scopes (`_internal/keys.py`, `schema.py`; `_partition_state`, `_merge_state`) | none | pure functions | decide which records the services of all applications and users share |
| Event codec (`_internal/codec.py`) | none | pure functions | used by sessions and memories |
| Client policies, indexes, construction (`_internal/client.py`, `indexes.py`, constructors) | secondary indexes of the namespace | `make_client`, `ensure_*_indexes` | every request is sent, and sent again, under a policy; queries need their index |
| URI, registry (`_internal/uri.py`, `registry.py`) | connection settings | set-up | one client per service |

Hard behaviours: coroutines of several processes interleave at every database
call; a write that times out may be applied later or never and is sent again;
`batch_write` is not atomic across records; `cur` is read, cached and used
later; a process may die between two calls of an operation. `PROJECT.json`
lists these hazards at the lines where they bite.

## Modules

| Module | Models | State |
|---|---|---|
| `SessionSegments` | append path on one live session | `cur`, `stored`, `state`, `wrote`; `cache` per process; per task `pc`, `key`, `at`, `retries`, `rolls`, `res`; `late` requests; `outcome` per event; `faults` |
| `SessionHistory` | `get_session` beside it (EXTENDS `SessionSegments`) | per reader `rpc`, `config`, `gidx`, `tsBin`, `collected`, `acked` |
| `SessionLifecycle` | `create_session`, `delete_session`, `list_sessions` of several sessions of a user, and the steps of reads and appends that touch the same records and caches | `rec`, `segs`, `manifest`; `cache` per process; per call `pc`, `at`, `top`, `ids`, `listed`, `stale`; `late`, `faults` |
| `ArtifactVersions` | the artifact service | `head`, `rows`; per call `pc`, `ver`, `todo`, `got`; `late`, `faults` |
| `MemoryPostings` | the memory service, one user | `row`, `postings`; per call `pc`, `todo`, `input`, `item`, `left`, `excess`, `cand`, `scored`, `result`; `late`, `faults`; history `seen`, `unread`, `struck` |
| `Layout` | keys, sets, bins, kinds, indexes, policies and scopes of state: pure definitions | |
| `StorageLayout` | the operations of the three services of several applications and users on one store, through those definitions (EXTENDS `Layout`) | `store`, `indexes`, `up`; per call `status`, `at`, `left`, `ver`, `got`; `late`, `faults`; history `touched`, `before`, `unread`, `unsure` |
| `SessionLog` | what `append_event` promises: the abstract specification that `SessionSegments` implements | `log`, `parts`, `answer` |
| `SessionSafetyProofs` | type correctness of the append path, what a step may write, the inductive invariant and six safety theorems | |
| `SessionOnceProofs` | the invariant behind at-most-once storage, two theorems | |
| `SessionLogProofs` | `SessionSegments` implements `SessionLog` | |
| `SessionHistoryProofs` | the invariants of a read beside appends, and of sequential use; five theorems | |
| `ArtifactProofs` | type correctness of the artifact service, what a delete removes, versions and loads of files that no delete has touched | |
| `SessionLifecycleProofs` | the inductive invariants of the lifecycle, six theorems | |
| `MemoryProofs` | the inductive invariants of the memory service, three theorems | |
| `StorageLayoutProofs` | the requests and plans of all operations, and the invariants of the shared store; six theorems | |
| `MC...` | values of the constants for TLC | |

`SessionHistory` composes the read path with the append path. The artifact and
memory services share no records with them and are modules of their own, and
`StorageLayout` composes all three to show just that.
`SessionLifecycle` has a coarser append path, because deletes and re-creation
concern which segment an append has in hand, not how its call is retried. An event fits
into an empty segment there; `SegmentSize` finds an empty one only when a delete
has removed it in between.

### SessionSegments

A *task* is one `append_event` coroutine, a *process* one service instance with
its `_cur_cache`. `pc[t]` names the call task `t` waits for:

| `pc` | Code | Actions |
|---|---|---|
| `select`, `selected` | `_current_segment`, cache miss | `CurrentSegmentRead`, `CurrentSegmentCached` |
| `put`, `reply` | `operate(map_put)` in `_place_event` | `PutOk`, `PutReply`, `PutTooBig`, `WriteFault` |
| `size` | `_segment_size` | `SegmentSize` |
| `roll`, `reread`, `rolled` | `_roll_over` | `RollBump`, `RollFiltered`, `RollReread`, `RollDone`, `WriteFault` |
| `batch` | `batch_write` and its loop | `BatchWrite`, `BatchRecordFault`, `BatchFault`, `BatchRetry`, `BatchAck`, `BatchOverflow`, `BatchError` |

A call and its reply are one step, except where the task writes the shared
cache after the reply: there the reply is a step of its own, because another
task may write the cache in between. An event is the pair of its timestamp in
microseconds and its id (`event_map_key`); when the timestamp is falsy the time
of the call is chosen from `Clock`. `Fits` is the record limit of the server:
any predicate that an empty record satisfies and that is closed under removing
entries. The records of a batch are written one by one in any order.

Failures: `WriteFault` and `BatchFault` are rejections and timeouts, which the
loops retry; after a timeout the request is in `late` and the server may apply
it at any later moment, more than once (each retry leaves a copy), or never.
`BatchRecordFault` fails one record. `CallFails` is any other error: it ends the
append. `Crash` ends all tasks of a process, forgets its cache and leaves their
requests in flight. `MaxFaults` bounds failures, except under `Outage`, where
calls may fail for ever.

`outcome[e]` is what the caller of `append_event` learnt: `ok`, `toobig`
(`_place_event` re-raised `RecordTooBig`), `transient` (back-pressure after the
last retry), `diverged`, `error` (any other exception, `RecordTooBig` of a state
record included) or `crashed`.

### SessionLog

The promise of `append_event` without segments, retries or processes: events
enter a log and never leave it, only after somebody has appended them; state
parts are written; an append is confirmed only when its event and all parts are
there; a failed append promises nothing and may be called again. `SessionSegments`
implements it (`ImplementsLog`) with `log` mapped to the events in the segments
up to `cur`, which is what a reader walks, `parts` to `wrote` and `answer` to what
`outcome` told the caller. That `log` is a set leaves duplicates to `StoredOnce`.

### SessionHistory

`OpenSession` is the batch read, `SeedCache` the write of `_cur_cache`,
`LoadSegment` one round of `_load_events`. `collected` holds keys from newest to
oldest, as the code's list does before its final reversal. Callers of the
sequential runs start one operation at a time (`Exclusive`).

### SessionLifecycle

One action per call: `CreatePut`, `CreateSeed`, `manifest_add` for
`create_session`; `DeleteGet`, `DeleteSegment`, `DeleteRecord`, `DeletePop`,
`DeleteUnlist` for `delete_session`; `ListManifest`, `ListRow` (one record of
the batch read), `Prune` (one `list_remove_by_value`) for `list_sessions`;
`GetRead`, `GetSeed` for what `get_session` does to the cache; the remaining
actions for an append. `rec[s]` is the pair of the bin `cur` and the create
that wrote the identity bins; a state delta or a bump of `cur` that meets no
record creates one without identity, as Aerospike does. The manifest is a list
whose order nothing depends on: `manifest[s]` counts the entries that name `s`,
`list_append` adds one and `list_remove_by_value` removes all; a list of
sessions copies the counts, looks each name up once, as the dictionary of its
batch read does, and removes a stale one as often as it was there. `seen[t]` is history:
which calls had ended when `t` began. `Sequential` makes callers use a session
from one call at a time, `Recreate` lets them create a deleted session again,
`Late` lets requests arrive after their timeout; each is a set of sessions, so
that one run has sessions of every kind. `Casts` are the sets of calls a
behaviour may consist of. `RecordUnread` is a record of a batch read with an
error code, which `_batch_read` and `_batch_read_bins` take for a missing one.

### ArtifactVersions

`Allocate` is the atomic increment of the head record followed by the
validation of the part, `Put` the create-only write; `LoadLatest`,
`LoadVersion` and `Get` are `load_artifact`; `DeleteQuery`, `DeleteVersion` and
`DeleteHead` are `delete_artifact`. A part is its kind, its MIME type and its
bytes; `mime_for_part` and `part_from_bins` are the two conversions, and
`Utf8` the blobs that decode. The conversions are not inverse to each other:
`LoadKeepsContent` says that MIME type and bytes come back, that text and inline
data other than `text/plain` also keep their kind, and that only inline
`text/plain` data that is not UTF-8 cannot be loaded. The service retries nothing: `CallFails` ends the
operation and may leave its request in flight, which `ApplyLate` applies.

### MemoryPostings

A row is keyed by session and event and holds its keywords and timestamp, a
posting list holds refs in the order they were appended. `PurgeQuery`, `Unref`
and `RemoveRow` are the purge of `add_session_to_memory`; `IngestStart` and
`Check` belong to `add_events_to_memory`; `UpsertRow`, `Post` and `Trim` are
`_upsert_memory` and `_append_posting_ref`; `SearchStart`, `SearchRead` (one
posting list) and `SearchRow` (one memory row) are `search_memory`. Words are
model values; `Tokenize` maps them to lower case and drops stopwords.
`RecordUnread` is a record of a batch with an error code, which `_batch_read`
does not tell from a missing one. `Only` filters a list by positions: the events
with text, and what `list_remove_by_value` leaves. `CallFails` ends an operation; its write
is lost or in `late`, and `ApplyLate` applies it at once or long afterwards, when
the caller has added the session again. `struck` is history: the calls of a
session that had begun, after or beside the sender, when a late request arrived
(`Overtaken`). Such a request really undoes a replacement (`LateMemoryWrite.cfg`),
so that the properties of a replaced session speak of calls that are not struck,
and `NoDanglingRef` of sessions with no such call. The
lists of a search are merged in the order in which they are read. `Serial`
says that callers write one session from one call at a time.

### Layout and StorageLayout

A name is the sequence of its parts between the separators ":", so that joining
with ":" is concatenation and a prefix such as `user:` is a first part; file
names may have several parts, identifiers of applications, users and sessions
have one (`keys.py` says so of ADK). `Layout` holds the key functions, the bin
registry, `ensure_*_indexes`, the policies, `_partition_state` and
`_merge_state` under their own names.

In `StorageLayout` an operation is a sequence of *stages*, and a stage a set of
requests sent together (`batch_read`, `batch_write`) or a single one. A request
names a *place*: primary key, record kind and what the record is for, so that
two places with one key are a collision. `Begin` starts a call, `Apply` and
`Answer` are the server, `Raise` a create-only put that meets a record or a query
without its index. A failure (`Loses`) leaves requests applied, lost or late;
then `Resend` sends the stage again, when the policy of the client or the loop of
the service says so, or `Fail` ends the call. `Unread` is a record of a batch
with an error code. `Construct` and `ConstructFails` are the constructors: in the
processes of `Ensures` they create the indexes of the service, in the others
(`ensure_indexes=False`) none, and a query of those may miss its index. An index
is usable when its creation returns, although `indexes.py` says that the build
may go on in the background. `artifact_scope_id` raises before any request when a
file that is not the user's comes without a session id; such calls are left out. A value in a record is the call that wrote it, so that the
properties can ask who wrote what they see. Segments do not roll over here and
posting lists are not trimmed: the modules above do that. `Word` is the set of
parts, any strings among which the literals of `keys.py` are; `Pad` writes numbers
with eight digits; a file has at most `MaxVersion + 1` versions (`InBound`).

## Runs

`MaxRetries` stands for `_OVERLOAD_MAX_RETRIES` (10), `MaxAttempts` for
`max_attempts` (64), `MaxPostings` for `_MAX_POSTING_LIST_SIZE` (2048),
`MaxCandidates` for `_MAX_SEARCH_CANDIDATES` (512) and `TopK` for `top_k` (10);
the runs use small values so that the limits are reached. `MaxFaults` bounds
the calls that fail.

| Run | Instance | Shows |
|---|---|---|
| `AppendFaults` | 2 processes, 3 events of sizes 1, 1, 2 with room for 2, one with a state delta, 2 faults, 1 retry, 2 attempts | the safety invariants of the append path, type correctness |
| `AppendOutage` | 2 tasks of one process, calls may fail for ever | every append terminates |
| `ReadSequential` | 4 events over up to 3 segments, 12 configs, 2 faults, one operation at a time | histories are in the order of the timestamps and `last_update_time` is the newest; the walk equals a definition without segments |
| `ReadConcurrent` | 2 writers, 1 reader, 1 fault; two events fill a record each, the third exceeds one and has a state delta | reads see what was acknowledged before; refusals are genuine |
| `Lifecycle` | five casts over four sessions: two sessions listed while one is created, appended to and deleted twice, with late requests; one deleted under two appends that fill a segment each; one created again by another process between three appends, with two deletes and a read, one call at a time; 1 fault | lists are complete and sound, a delete removes what was acknowledged before it, a session that is created again is empty, and appends reach it |
| `ArtifactFaults` | one file with 3 saves (binary data, `text/plain` that is not UTF-8, an unsupported part), a load and a delete; another with 2 saves (`file_data`, text) and a load of version 0; 1 fault | versions, loads with the content of every kind of part, and deletes of artifacts |
| `MemoryService` | a session added twice, 2 sessions ingested, a search, lists of at most 2, top 1, 1 fault whose request may arrive at any later moment | completeness of searches, exact replacement, consistent and bounded lists |
| `StorageLayout` | twelve casts of 3 or 4 calls over 2 applications, 2 users, 2 processes, with the state keys `k`, `app:k`, `user:k`, `temp:k` and the files `x`, `user:x`, `x:00000000`; one process ensures indexes, the other does not; 1 fault | no collisions, no foreign bins, scoped and fresh state, exact queries, no entry twice |

Three events and a capacity of two force a rollover with a writer on either
side of it, two faults allow a timeout whose request arrives late and a crash
or a second timeout, and one retry separates "retried" from "gave up". Two
deletes let the second meet what a failed first one left. Three refs and a
limit of two let two writers trim one list at the same time. The casts of
`StorageLayout` pair the calls that meet on a kind of record; collisions and
leaks are between two names, so that two of each suffice, a file called
`x:00000000` meets the versions of `x`, and two saves of one file meet on its head.
`CHECK_DEADLOCK FALSE`: when all calls have ended the system stops.

What the properties leave out, because the code does not do it: `AckedVisible`
speaks of sessions no delete of which failed (a delete that fails after it
removed the record leaves the cached index behind) and the run has the appends
in one process (see `StaleCacheRecreate`). `FreshEmpty` leaves out such sessions
too, and those with writes that arrive after their call has ended.
`RefsReplaced` is about keywords whose lists are not trimmed: the instance keeps
those of the replaced session short. `SearchComplete` is about tokens, not words:
`_tokenize` drops stopwords from both sides (`StopwordSearch`). `RowsReplaced`,
`RefsReplaced` and `NoDanglingRef` leave out what a late request of an earlier call
of the session has met (`LateMemoryWrite`). `RecordsConform` is checked with names
that avoid the reserved `sl` and `kw` (`ReservedSessionId`). `StateFresh` lets an older value come
back from a call one of whose writes went unanswered, since a batch that is sent
again, or arrives late, brings it (`StateReapplied`), and exempts reads that
took an unreadable record for a missing one. `ReadMatchesReference` needs, for a
read with a cutoff, that no call failed, since a crash between the bump of `cur`
and the put leaves the gap of `AfterReadGap`. The artifact properties of saves
and loads speak of files of which no delete has begun.

Runs that expect a violation state what a comment or document of the
repository says and the code does not do:

| Run | Statement | Counterexample |
|---|---|---|
| `ReappendDuplicates` | a retried append never duplicates an event | timeout, rollover, re-append: the event is in two segments |
| `AfterReadGap` | an empty segment under the cutoff means all older ones are older | the reader meets the new segment before its first put |
| `UnreadPruned` | manifest entries that a list removes are stale | a record that could not be read counts as missing: the entry of a live session is removed |
| `StaleCacheRecreate` | a stale cache self-heals | another process deletes and re-creates the session; the cached index lies above the new `cur`, and an acknowledged event is invisible |

Further configurations show, with `tlc -config X.cfg M`, where a property stops
holding. They are not among the runs of `PROJECT.json`:

| Configuration | Module | Counterexample |
|---|---|---|
| `StaleCacheOrder` | `MCSessionHistory` | a stale cache puts a newer, smaller event into an older segment: histories are out of order |
| `OversizedSkips` | `MCSessionSegments` | an oversized event with a delta rolls over from an empty segment |
| `StateReapplied` | `MCSessionSegments` | the retried batch brings an older state value back |
| `UnstampedReappend` | `MCSessionSegments` | timestamp 0: the key holds the time of the call |
| `ReservedSessionId` | `MCStorageLayout` | a session called `sl` shares the record of its user's manifest |
| `RetriedOperate` | `MCStorageLayout` | a client whose `operate` policy allows retries appends a session id to the manifest twice |
| `PruneRacesCreate` | `MCSessionLifecycle` | a list removes the manifest entry of a session that was created again since it looked |
| `AppendRacesDelete` | `MCSessionLifecycle` | an append that is under way leaves a segment after a delete |
| `DeleteRacesSave` | `MCArtifactVersions` | a delete resets the counter while a save holds a version from it: two saves hold the same one |
| `FileDataReload` | `MCArtifactVersions` | a `file_data` part comes back as inline data whose bytes are the URI |
| `BinaryTextReload` | `MCArtifactVersions` | `text/plain` bytes that are not UTF-8 are saved and cannot be loaded |
| `TrimConcurrently` | `MCMemoryPostings` | two writers trim a list for the same excess and drop more than the oldest refs |
| `IngestTwice` | `MCMemoryPostings` | two ingests of one event both find it missing and append its ref twice |
| `IngestRetry` | `MCMemoryPostings` | an ingest fails between row and refs, its retry passes the event over: no search finds it |
| `LateMemoryWrite` | `MCMemoryPostings` | a row that `add_session_to_memory` wrote without an answer arrives after the session was added again: the old memory is back beside the new ones, against "must replace prior memories" (`tests/test_memory.py`) |
| `StopwordSearch` | `MCMemoryPostings` | an event that shares only a stopword with the query is not found, although `design.md:631` calls the tokenizer identical to that of `InMemoryMemoryService`, `memory/service.py:5` says that it mirrors its semantics, and `docs/data-model.md:565` knows no stopwords |

Every property of a passing run has a mutant in `PROJECT.json`: an operator
defined before the one it replaces, under a comment that begins with "Mutant".
They are not part of the specifications.

## Fairness

`FairSpec` assumes weak fairness of `Step(t)` for each task: a call returns,
with an answer, an error or a timeout (the client's `total_timeout`), and the
event loop resumes the coroutine. Nothing is assumed of callers, of crashes or
of late requests. `AppendTerminates` holds although failures may repeat without
end, because the loops are bounded.

## Proofs

The theorems hold for any sets of processes, calls, sessions, events and words
and any bounds that satisfy the `ASSUME` of the module, and any record limit
satisfying `FitsAssumption`. Hypotheses beyond those are named below. The
instances that TLC checks satisfy them, with one exception: `ListsComplete`
assumes that no id is used again after a delete, and one cast of `Lifecycle` does
use one again, beside no list.

* `SessionSafetyProofs`: for `TypeCorrect`, `TypeInv` strengthens `TypeOK` by the
  fact that a task that is not idle has an event in hand. `StepEffects` then says
  what any step of a task can do to the records: put its own key into the segment
  `at[t]`, bump `cur` from `at[t]`, or write state. `RefusalIsStable`: segments
  only grow, so a full segment stays full. `SafetyInv` relates the program
  counter of a task to the records: `at[t] <= cur`; a task about to roll over has met a refusal
  there; a result code `ok` means that the record was written; requests in
  `late` obey the same facts as their senders did; every outcome is justified
  (`Told`). None of the six properties is inductive without it: the
  acknowledgement of a batch, for example, relies on result codes written
  several steps before, and a bump applied late on a refusal seen by a sender
  that no longer exists.
* `SessionOnceProofs`: without re-appends by callers, `MayHold(n, k)` - key `k`
  is in segment `n`, or a task or a late request may still put it there - holds
  for at most one segment per event. The step that needs it is a rollover: the
  task leaves the old segment only after a refusal, and since refusals are
  stable the copies of its put that are still under way cannot succeed any
  more.
* `SessionHistoryProofs`: `ReaderInv` says that what a read has yet to find lies
  ahead of it: an event that was acknowledged when it began is among those read
  or in a segment that the walk has still to visit. Appends and rollovers beside
  it only add to the segments, so that this is stable, and a walk that ends has
  nothing ahead, or has as many events as were asked for. The lemmas before it say
  what a segment read returns: `NewestFirst` lists a finite set of keys without
  loss, in order, and segments are finite. `HistoryTypes`, `FullReadsComplete` and
  `RecentReadsFull` follow, with no hypothesis: any readers, configs, faults.
  `ReadsOrdered` assumes `Sequential`: one process, one operation at a time,
  appends in the order of their timestamps, which differ and are not 0, no
  re-appends. `OrderInv` then extends `OnceInv` to the slots an event has or may
  yet have: newer events have no older segments (`SlotOrder`), because the
  index that the next append will use, cached or just read, is above all slots
  (`TopInv`) and its event is newer than all before (`TimeInv`). Late requests
  and crashes open no slot. `WalkOrder` carries that order into the list that a walk
  collects. `StaleCacheOrder` shows why one process is needed. `ReadsExact` is about
  the same use and assumes `Placeable` as well: every event fits into a record by
  itself, and `MaxAttempts` leaves room for one rollover. (An event that no record
  can hold leaves an empty segment, which ends a read with a cutoff although no
  call failed.) `CalmInv`: before the first failure only the segment that the
  append under way is about to fill may be empty. `ExactInv`: a walk has collected
  what the config wants of the segments above `gidx`, and one that ended has
  everything wanted, or as many as were asked for, and nothing it left out is
  newer. That a list with the elements and the order of the reference is the
  reference follows by counting the keys above each element (`Above`), so that no
  induction over lists is needed.
* `SessionLogProofs`: `LogImplemented`, the refinement. `Init` maps to `Init`; for
  a step, one lemma per kind of effect says what it does to the mapped state.
  `PutStores`: a put into a segment up to `cur` adds its event. `BumpKeepsLog`: a
  bump of `cur` adds nothing, because `SafetyInv` has no segment above `cur`.
  `LogInv` ties what is in flight to the log: one task per event, the outcome of
  a running task's event is pending, and a late request is of an event that was
  appended and writes a part of that event's delta. `Confirm` is where the
  safety invariant is needed most: the result codes an acknowledgement relies on
  mean that event and parts are there. A crash is `Fail` of a set of events.
* `ArtifactProofs`: `ControlInv` says which calls wrote the records and the
  requests in flight: a record was written by a save that returned or failed, a
  late put carries the version of a save that failed.
  `DeleteRemovesSavedAlways` needs in addition that a delete's list of versions
  still holds every record it owes, although other deletes and late requests
  remove and create records beside it. The theorems about saves and loads:
  versions in use lie below the counter of their file, saves of one file have
  different versions, a save that returned has its record, and a load in flight
  has a version that is there and as new as what it answers for. `FileStays`
  shows that steps of deletes of other files, late ones included, leave the
  counter and the records of a file alone.
* `SessionLifecycleProofs`: `LifeInv` is inductive without any hypothesis. Its
  parts: the types and what each label of a call implies (`ControlInv`); the
  identity of a record was written by a create that has reached its `add`
  (`BornInv`); segments lie at most one above the index of the session, also in
  requests that are under way (`IndexInv`); what a list has yet to look up, has
  listed and has found stale comes from the manifest that it read (`ListInv`,
  `SoundInv`); a created session that no delete touched is in the manifest
  (`CreateInv`); a delete has yet to remove every segment with an event that was
  acknowledged before it began (`DeleteInv`). From it follow `LifecycleTypes`,
  `DeletesRemoveAcked`, `ListsSound` and, when nobody re-creates a deleted session
  (`PruneRacesCreate` shows why), `ListsComplete`. `SequentialInv` adds, for the
  sessions in `Sequential`, that one call at a time is under way
  (`ExclusiveInv`) and that between calls the cached indexes, the record and the
  segments agree (`SerialInv`): in every process that may append, the cache is
  empty or not above `cur`. It needs that the deletes of a session that is
  created again run in the process that appends to it and reads it
  (`DeletesAtHome`): otherwise that process keeps a stale index, which is
  `StaleCacheRecreate`. `AckedEventsVisible` and `RecreatedEmpty` follow; they
  assume that no write of those sessions arrives late, and that sessions which
  are created again are used by one call at a time.
* `MemoryProofs`: `ControlInv` has the types, for each kind of call the labels
  it reaches, and which failed call sent each request in `late`. `ListsBounded`
  needs in addition that late appends are no more than the calls that failed:
  whoever appends beyond the limit becomes a trimmer of that list in the same
  step, and a trimmer leaves the list shorter or empty. `Stage(t)` is the label of a
  call, or the operation of the request that it left behind: a failed call whose
  write is still under way stands where it was. `WorkInv` is what a writer knows of
  its session as long as it is *sure* of it: alone there (every other call of the
  session had ended when it began, or has not begun) and not struck by a late
  request. While it purges, its item and `todo` are the rows of the session;
  while it writes, the rows are those of its events, and those missing are in its
  input. A late request of an earlier call either arrives before the writer has
  begun, or strikes it. `SessionReplaced` follows and assumes `UniqueIds`: the
  events of a call with equal ids are equal. For `RefsLeadToRows`, `RefInv` adds
  where rows come from (`SourceInv`), that the tokens a purge has done with no longer
  refer to the row (`UnrefInv`), and that a writer is alone (`Serial`), for the
  sessions in which nothing was struck. It also assumes
  `IngestedUnchanged`: an ingest whose read of the row failed puts the row anew,
  so that an event edited since would leave old refs behind.
* `StorageLayoutProofs`: for any calls of any applications, users and processes, in
  any order and with any faults. `Requests(j)` is the set of requests that a call
  may send, by its operation; `PlanFacts` says that the stages contain those and no
  others, and `Turns` what a step does to a call. `LayoutTypes` rests on them
  (`ControlInv`). `RecordsApart` assumes `WellNamed`: identifiers of applications,
  users, sessions, events and tokens are one part, and no session is called `sl` or
  `kw` (`ReservedSessionId` shows why); file names are free. `KeysUnique` then tells
  any two places apart by their keys, although the keys of a set have different
  lengths and file names have any. `StateInScope` uses that a record reached by a key
  is the one meant, and follows each entry of a state from the call that wrote it
  through the store and late requests into what a call reads (`StateInv`).
  `EntriesOnce` needs no naming, but that `operate` is not retried by the client
  (`OperateOnce`, true of the default policies by `DefaultsOnce`): the entry of a call
  is ahead of it, under way after a lost answer, or in its list, and never two of
  these (`OneOfThree`). `ListsExact` assumes in addition that no session is called
  `user` (`NoUserSession`), which would share the scope of the user's files. The
  services that a process of `Ensures` has constructed have their indexes (`IndexInv`), a record with a
  tag comes from a call that wrote it (`TraceInv`), what was stored stays while
  nobody begins to delete it (`KeptInv`), and a list has what it owes once its query
  is past (`SeenInv`), also when the query is sent again. `StateStaysFresh` assumes
  `WellNamed` alone. Calls that had ended when another began stay ended (`EndedInv`),
  and one whose writes were all answered leaves nothing behind: the requests that
  may arrive late are of calls in `unsure` (`UnsureInv`). Hence the part of a state that a call is past having
  written stands in its record, with no value of calls that ended before it except
  those of `unsure` calls, while nobody begins to delete the record (`LandInv`), and
  later calls read it so (`ReadInv`). A create returns its own session part and not
  one it read: it cannot succeed while the session is there (`FirstInv`).

`NoSegmentSkippedAlways` assumes that every event is storable, which
`OversizedSkips` shows to be needed, and `StoredOnceAlways` that callers do not
re-append, which `ReappendDuplicates` shows to be needed. The artifact theorems
speak of files no delete of which has begun, which `DeleteRacesSave` shows to
be needed.

Only model-checked: liveness (fairness and ENABLED are beyond the prover); of the
memory service `SearchComplete` and its `TypeOK`, because the candidates of a
search are a fold over a list, which needs induction over data, and
`RefsReplaced`, which is true of an instance with short lists and not in
general.

## Plan

Left to do: index builds that go on after the constructor has returned.

## Not modelled

* `list_versions`, `list_artifact_versions` and `get_artifact_version` only read,
  with the query or the get that `ArtifactVersions` already contains.
* A query is one step on the records as they are; index builds that are still
  under way are not modelled.
* `event_to_inline_dict` and `event_from_inline_dict` copy an event field by field
  through Pydantic, older formats included: an event is one value here.
* URI parsing, registration, TLS, authentication and closing of clients:
  configuration, without state that the operations depend on.
* Bin `gidx`, which the registry calls the discriminator of segment records
  (`schema.py:404`), is written nowhere: no operation of `StorageLayout` has it.
* Expiry of records (TTL) and server-side replication and migration.
* The texts, authors and contents of memories and events, which are stored and
  returned unchanged.
* Benchmarks, examples and scripts drive the services and are not part of them.
