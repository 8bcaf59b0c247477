-------------------------- MODULE SessionSegments --------------------------
(***************************************************************************)
(* The append path of AerospikeSessionService on one live session.         *)
(*                                                                         *)
(* A session's events live in a chain of segment records 0..cur; the       *)
(* session record's bin `cur' names the segment appends go to.  A task is  *)
(* one append_event coroutine; it runs in a service instance (a process),  *)
(* whose tasks share the in-process cache _cur_cache of `cur'.  Every      *)
(* database call is a step: the server acts and the reply reaches the      *)
(* task.  Where the task then writes the shared cache, the reply is a step *)
(* of its own, because other tasks may write the cache in between.         *)
(*                                                                         *)
(* A call may be rejected (DeviceOverload, MaxErrorRateExceeded), may time *)
(* out, in which case the server may apply it at any later moment or       *)
(* never, or may fail with another error.  A process may crash between any *)
(* two steps; its requests in flight may still be applied.                 *)
(***************************************************************************)
EXTENDS Naturals, FiniteSets

CONSTANTS
    Procs,          \* service instances, each with its own _cur_cache
    Tasks,          \* append_event coroutines
    Host,           \* Host[t]: the process task t runs in
    Events,         \* the events callers append (event ids)
    Ts,             \* Ts[e]: event.timestamp in microseconds, 0 when falsy
    Clock,          \* the values time.time() may return
    Delta,          \* Delta[e]: scopes with a non-empty part of state_delta
    Fits(_),        \* do these entries fit in one record (max-record-size)?
    MaxRetries,     \* _OVERLOAD_MAX_RETRIES
    MaxAttempts,    \* max_attempts of _place_event
    MaxFaults,      \* bound on failed calls and crashes
    Outage,         \* TRUE: calls may keep failing past that bound
    Resend,         \* TRUE: a caller re-appends an event whose append raised
    InOrder,        \* TRUE: callers append in timestamp order
    None            \* no cached value, no event in hand, no state yet

Scopes == {"session", "app", "user"}

\* The keys event_map_key can give event e: its timestamp, or the time of the
\* call when event.timestamp is falsy, then the event id.
event_map_key(e) == {<<now, e>> : now \in IF Ts[e] # 0 THEN {Ts[e]} ELSE Clock}

Keys == UNION {event_map_key(e) : e \in Events}

ASSUME ConstantsAssumption ==
    /\ Host \in [Tasks -> Procs]
    /\ Ts \in [Events -> Nat]
    /\ Clock \subseteq Nat
    /\ Delta \in [Events -> SUBSET Scopes]
    /\ MaxRetries \in Nat
    /\ MaxAttempts \in Nat \ {0}
    /\ MaxFaults \in Nat
    /\ {Outage, Resend, InOrder} \subseteq BOOLEAN
    /\ Outage => MaxFaults > MaxRetries
    /\ None \notin Nat \cup Keys

\* A record that fits still fits with entries taken away.
ASSUME FitsAssumption ==
    /\ Fits({})
    /\ \A S \in SUBSET Keys : Fits(S) \in BOOLEAN
    /\ \A S \in SUBSET Keys : \A R \in SUBSET S : Fits(S) => Fits(R)

VARIABLES
    cur,        \* session record: bin cur
    stored,     \* segment records: the pairs <<segment, key>> that exist
    state,      \* state records: per scope, the key of the last writer
    wrote,      \* history: the <<scope, event>> state writes that happened
    cache,      \* cache[p]: _cur_cache of process p for this session
    pc,         \* pc[t]: where task t is
    key,        \* key[t]: ev_key of the event in hand
    at,         \* at[t]: the local variable cur of the append path
    retries,    \* retries[t]: failed tries of the write under way
    rolls,      \* rolls[t]: iterations _place_event has used up
    res,        \* res[t]: result codes of the batch under way
    late,       \* requests without an answer that the server may yet apply
    outcome,    \* outcome[e]: what the caller knows of the append of e
    faults      \* failed calls and crashes so far

db       == <<cur, stored, state, wrote>>
taskVars == <<pc, key, at, retries, rolls, res>>
vars     == <<db, cache, taskVars, late, outcome, faults>>

Labels   == {"idle", "select", "selected", "put", "size", "roll", "reread",
             "rolled", "reply", "batch"}
Outcomes == {"new", "pending", "ok", "toobig", "transient", "error",
             "diverged", "crashed"}
Failed   == {"transient", "error", "diverged", "crashed"}
Codes    == {"none", "ok", "toobig", "overload", "error"}
Records  == {"seg"} \cup Scopes
NoResult == [r \in Records |-> "none"]

Requests == [rec : Records \cup {"cur"}, n : Nat, key : Keys]

DbOK ==
    /\ cur \in Nat
    /\ stored \subseteq Nat \X Keys
    /\ state \in [Scopes -> Keys \cup {None}]
    /\ wrote \subseteq Scopes \X Events

TaskOK ==
    /\ pc \in [Tasks -> Labels]
    /\ key \in [Tasks -> Keys \cup {None}]
    /\ at \in [Tasks -> Nat]
    /\ retries \in [Tasks -> 0..MaxRetries]
    /\ rolls \in [Tasks -> 0..MaxAttempts]
    /\ res \in [Tasks -> [Records -> Codes]]

\* Every variable keeps its type; in particular the loop counters of the
\* backoff loops and of _place_event stay within their bounds.
TypeOK ==
    /\ DbOK
    /\ TaskOK
    /\ cache \in [Procs -> Nat \cup {None}]
    /\ late \subseteq Requests
    /\ outcome \in [Events -> Outcomes]
    /\ faults \in 0..MaxFaults

-----------------------------------------------------------------------------
(* The server.                                                             *)

Seg(n) == {k \in Keys : <<n, k>> \in stored}

\* map_put of key k in segment n; the server refuses a record past its limit.
Accepts(n, k) == Fits(Seg(n) \cup {k})

\* Mutant: the map is written anew, not put into.
SegmentPutAnew(n, k) ==
    /\ Accepts(n, k)
    /\ stored' = {p \in stored : p[1] # n} \cup {<<n, k>>}
    /\ UNCHANGED <<cur, state, wrote>>

SegmentPut(n, k) ==
    /\ Accepts(n, k)
    /\ stored' = stored \cup {<<n, k>>}
    /\ UNCHANGED <<cur, state, wrote>>

\* Mutant: the increment without its filter expression.
CurBumpUnguarded(n) ==
    /\ cur' = cur + 1
    /\ UNCHANGED <<stored, state, wrote>>

\* increment of cur under the filter expression cur == n.
CurBump(n) ==
    /\ cur = n
    /\ cur' = cur + 1
    /\ UNCHANGED <<stored, state, wrote>>

\* map_put_items of the part of an event's state_delta that belongs to scope s.
StatePut(s, k) ==
    /\ state' = [state EXCEPT ![s] = k]
    /\ wrote' = wrote \cup {<<s, k[2]>>}
    /\ UNCHANGED <<cur, stored>>

\* The record writes task t is waiting for: the map_put of _place_event, the
\* increment of _roll_over, or the writes of the batch without a result yet.
BatchRecords(t) == {"seg"} \cup Delta[key[t][2]]
Unanswered(t) ==
    {r \in Records \cup {"cur"} :
        \/ pc[t] = "put"  /\ r = "seg"
        \/ pc[t] = "roll" /\ r = "cur"
        \/ pc[t] = "batch" /\ r \in BatchRecords(t) /\ res[t][r] = "none"}
Request(t, r) == [rec |-> r, n |-> at[t], key |-> key[t]]
InFlight(t) == {Request(t, r) : r \in Unanswered(t)}

-----------------------------------------------------------------------------
(* Steps of a task share these.                                            *)

MayFail == Outage \/ faults < MaxFaults
CountFault == faults' = IF faults < MaxFaults THEN faults + 1 ELSE faults

\* Task t goes on to the call at label l, aimed at segment n.
Move(t, l, n) ==
    /\ pc' = [pc EXCEPT ![t] = l]
    /\ at' = [at EXCEPT ![t] = n]
    /\ retries' = [retries EXCEPT ![t] = 0]
    /\ UNCHANGED key

\* append_event of task t returns ("ok") or raises.
Finish(t, o) ==
    /\ pc' = [pc EXCEPT ![t] = "idle"]
    /\ key' = [key EXCEPT ![t] = None]
    /\ at' = [at EXCEPT ![t] = 0]
    /\ retries' = [retries EXCEPT ![t] = 0]
    /\ rolls' = [rolls EXCEPT ![t] = 0]
    /\ res' = [res EXCEPT ![t] = NoResult]
    /\ outcome' = [outcome EXCEPT ![key[t][2]] = o]

SetCache(t) == cache' = [cache EXCEPT ![Host[t]] = at[t]]

\* Mutant: one try too many, one too few.
RetriesLeftOneMore(t) == retries[t] <= MaxRetries
RetriesLeftOneLess(t) == retries[t] + 1 < MaxRetries

\* Mutant: a retry that is not counted.
TryAgainUncounted(t) ==
    /\ res' = [res EXCEPT ![t] = NoResult]
    /\ UNCHANGED <<pc, key, at, retries, rolls, outcome>>

\* Mutant: a retry that picks up the current segment.
TryAgainAtCur(t) ==
    /\ retries' = [retries EXCEPT ![t] = @ + 1]
    /\ res' = [res EXCEPT ![t] = NoResult]
    /\ at' = [at EXCEPT ![t] = cur]
    /\ UNCHANGED <<pc, key, rolls, outcome>>

\* The backoff loop: one more try of the same write, or the error is raised.
RetriesLeft(t) == retries[t] < MaxRetries
TryAgain(t) ==
    /\ retries' = [retries EXCEPT ![t] = @ + 1]
    /\ res' = [res EXCEPT ![t] = NoResult]
    /\ UNCHANGED <<pc, key, at, rolls, outcome>>

-----------------------------------------------------------------------------
(* append_event up to its first write.                                     *)

\* _append_event_record: no state delta, one operate; any, one batch_write.
FirstWrite(k) == IF Delta[k[2]] = {} THEN "put" ELSE "batch"

MayAppend(e) ==
    /\ outcome[e] = "new" \/ (Resend /\ outcome[e] \in Failed)
    /\ InOrder => \A d \in Events : Ts[d] < Ts[e] => outcome[d] # "new"

\* append_event and _current_segment up to the first await.  A partial event is
\* returned at once and changes nothing: Events are the others.
StartAppend(t, e) ==
    /\ pc[t] = "idle"
    /\ MayAppend(e)
    /\ outcome' = [outcome EXCEPT ![e] = "pending"]
    /\ \E k \in event_map_key(e) :
        /\ key' = [key EXCEPT ![t] = k]
        /\ \/ /\ cache[Host[t]] # None
              /\ pc' = [pc EXCEPT ![t] = FirstWrite(k)]
              /\ at' = [at EXCEPT ![t] = cache[Host[t]]]
           \/ /\ cache[Host[t]] = None
              /\ pc' = [pc EXCEPT ![t] = "select"]
              /\ at' = at
    /\ UNCHANGED <<db, cache, retries, rolls, res, late, faults>>

\* _current_segment: the server answers the select ...
CurrentSegmentRead(t) ==
    /\ pc[t] = "select"
    /\ Move(t, "selected", cur)
    /\ UNCHANGED <<db, cache, rolls, res, late, outcome, faults>>

\* ... and the task caches the answer, whatever the cache holds by then.
CurrentSegmentCached(t) ==
    /\ pc[t] = "selected"
    /\ SetCache(t)
    /\ Move(t, FirstWrite(key[t]), at[t])
    /\ UNCHANGED <<db, rolls, res, late, outcome, faults>>

-----------------------------------------------------------------------------
(* _place_event and _roll_over.                                            *)

PutOk(t) ==
    /\ pc[t] = "put"
    /\ SegmentPut(at[t], key[t])
    /\ Move(t, "reply", at[t])
    /\ UNCHANGED <<cache, rolls, res, late, outcome, faults>>

PutReply(t) ==
    /\ pc[t] = "reply"
    /\ SetCache(t)
    /\ Finish(t, "ok")
    /\ UNCHANGED <<db, late, faults>>

PutTooBig(t) ==
    /\ pc[t] = "put"
    /\ ~Accepts(at[t], key[t])
    /\ Move(t, "size", at[t])
    /\ UNCHANGED <<db, cache, rolls, res, late, outcome, faults>>

\* Mutant: RecordTooBig is re-raised without looking at the segment.
SegmentSizeIgnored(t) ==
    /\ pc[t] = "size"
    /\ Finish(t, "toobig")
    /\ UNCHANGED <<db, cache, late, faults>>

\* RecordTooBig on an empty segment is re-raised, on any other it is full.
SegmentSize(t) ==
    /\ pc[t] = "size"
    /\ \/ /\ Seg(at[t]) = {}
          /\ Finish(t, "toobig")
       \/ /\ Seg(at[t]) # {}
          /\ Move(t, "roll", at[t])
          /\ rolls' = [rolls EXCEPT ![t] = @ + 1]
          /\ UNCHANGED <<res, outcome>>
    /\ UNCHANGED <<db, cache, late, faults>>

RollBump(t) ==
    /\ pc[t] = "roll"
    /\ CurBump(at[t])
    /\ Move(t, "rolled", at[t] + 1)
    /\ UNCHANGED <<cache, rolls, res, late, outcome, faults>>

RollFiltered(t) ==
    /\ pc[t] = "roll"
    /\ cur # at[t]
    /\ Move(t, "reread", at[t])
    /\ UNCHANGED <<db, cache, rolls, res, late, outcome, faults>>

\* Mutant: a filtered rollover keeps the old index.
RollRereadStale(t) ==
    /\ pc[t] = "reread"
    /\ Move(t, "rolled", at[t])
    /\ UNCHANGED <<db, cache, rolls, res, late, outcome, faults>>

RollReread(t) ==
    /\ pc[t] = "reread"
    /\ Move(t, "rolled", cur)
    /\ UNCHANGED <<db, cache, rolls, res, late, outcome, faults>>

\* _roll_over caches the new index; _place_event tries the put there unless
\* its iterations are used up.
RollDone(t) ==
    /\ pc[t] = "rolled"
    /\ SetCache(t)
    /\ \/ /\ rolls[t] = MaxAttempts
          /\ Finish(t, "diverged")
       \/ /\ rolls[t] < MaxAttempts
          /\ Move(t, "put", at[t])
          /\ UNCHANGED <<rolls, res, outcome>>
    /\ UNCHANGED <<db, late, faults>>

\* _write_retrying_overload: the write is rejected, or it times out.
WriteFault(t) ==
    /\ pc[t] \in {"put", "roll"}
    /\ MayFail /\ CountFault
    /\ \E lost \in {{}, InFlight(t)} : late' = late \cup lost
    /\ \/ RetriesLeft(t) /\ TryAgain(t)
       \/ ~RetriesLeft(t) /\ Finish(t, "transient")
    /\ UNCHANGED <<db, cache>>

-----------------------------------------------------------------------------
(* The batch_write of an event with a state delta.                         *)

\* The server applies one record of the batch.  There is no order among them.
BatchWrite(t, r) ==
    /\ pc[t] = "batch"
    /\ r \in Unanswered(t)
    /\ \/ /\ r = "seg" /\ SegmentPut(at[t], key[t])
          /\ res' = [res EXCEPT ![t][r] = "ok"]
       \/ /\ r = "seg" /\ ~Accepts(at[t], key[t])
          /\ res' = [res EXCEPT ![t][r] = "toobig"]
          /\ UNCHANGED db
       \/ /\ r \in Scopes /\ StatePut(r, key[t])
          /\ res' = [res EXCEPT ![t][r] = "ok"]
    /\ UNCHANGED <<cache, pc, key, at, retries, rolls, late, outcome, faults>>

\* One record of the batch is rejected, or fails with an error that may hide
\* a write that was or will be applied.
BatchRecordFault(t, r) ==
    /\ pc[t] = "batch"
    /\ r \in Unanswered(t)
    /\ MayFail /\ CountFault
    /\ \/ /\ res' = [res EXCEPT ![t][r] = "overload"]
          /\ late' = late
       \/ /\ res' = [res EXCEPT ![t][r] = "error"]
          /\ \E lost \in {{}, {Request(t, r)}} : late' = late \cup lost
    /\ UNCHANGED <<db, cache, pc, key, at, retries, rolls, outcome>>

\* The batch as a whole is rejected or times out.
BatchFault(t) ==
    /\ pc[t] = "batch"
    /\ MayFail /\ CountFault
    /\ \E lost \in {{}, InFlight(t)} : late' = late \cup lost
    /\ \/ RetriesLeft(t) /\ TryAgain(t)
       \/ ~RetriesLeft(t) /\ Finish(t, "transient")
    /\ UNCHANGED <<db, cache>>

\* Mutant: result codes of the sibling records are not looked at.
SiblingsIgnored(t) == TRUE

\* batch_write returned: every record has a result code.
Answered(t) == pc[t] = "batch" /\ Unanswered(t) = {}
Overloaded(t) == \E r \in BatchRecords(t) : res[t][r] = "overload"
SiblingsOk(t) == \A s \in Delta[key[t][2]] : res[t][s] = "ok"

BatchRetry(t) ==
    /\ Answered(t)
    /\ Overloaded(t)
    /\ RetriesLeft(t) /\ TryAgain(t)
    /\ UNCHANGED <<db, cache, late, faults>>

\* _append_event_record reads the result codes _batch_write_with_retry returns.
BatchReturns(t) == Answered(t) /\ (Overloaded(t) => ~RetriesLeft(t))

\* Mutant: any segment code but RecordTooBig counts as success.
BatchAckAnyCode(t) ==
    /\ BatchReturns(t)
    /\ SiblingsOk(t)
    /\ res[t]["seg"] # "toobig"
    /\ SetCache(t)
    /\ Finish(t, "ok")
    /\ UNCHANGED <<db, late, faults>>

BatchAck(t) ==
    /\ BatchReturns(t)
    /\ SiblingsOk(t)
    /\ res[t]["seg"] = "ok"
    /\ SetCache(t)
    /\ Finish(t, "ok")
    /\ UNCHANGED <<db, late, faults>>

\* Mutant: any non-zero segment code counts as overflow.
BatchOverflowAnyCode(t) ==
    /\ BatchReturns(t)
    /\ SiblingsOk(t)
    /\ res[t]["seg"] # "ok"
    /\ Move(t, "roll", at[t])
    /\ res' = [res EXCEPT ![t] = NoResult]
    /\ UNCHANGED <<db, cache, rolls, late, outcome, faults>>

\* State is committed; _place_event starts with a rollover (after_overflow).
BatchOverflow(t) ==
    /\ BatchReturns(t)
    /\ SiblingsOk(t)
    /\ res[t]["seg"] = "toobig"
    /\ Move(t, "roll", at[t])
    /\ res' = [res EXCEPT ![t] = NoResult]
    /\ UNCHANGED <<db, cache, rolls, late, outcome, faults>>

\* A failing sibling is reported before the segment's own code.
RaisedFrom(t) ==
    IF SiblingsOk(t) THEN {"seg"} ELSE {s \in Delta[key[t][2]] : res[t][s] # "ok"}

BatchError(t) ==
    /\ BatchReturns(t)
    /\ \E r \in RaisedFrom(t) :
        \/ res[t][r] = "overload" /\ Finish(t, "transient")
        \/ res[t][r] = "error"    /\ Finish(t, "error")
    /\ UNCHANGED <<db, cache, late, faults>>

-----------------------------------------------------------------------------
(* Errors that are not retried, crashes, and requests applied late.        *)

\* A read fails, or a write fails with an error that is not back-pressure.
CallFails(t) ==
    /\ pc[t] \in {"select", "put", "size", "roll", "reread", "batch"}
    /\ MayFail /\ CountFault
    /\ \E lost \in {{}, InFlight(t)} : late' = late \cup lost
    /\ Finish(t, "error")
    /\ UNCHANGED <<db, cache>>

\* Process p dies with its cache and its tasks, and starts again.
Crash(p) ==
    /\ faults < MaxFaults /\ CountFault
    /\ LET dead == {t \in Tasks : Host[t] = p /\ pc[t] # "idle"} IN
        /\ pc' = [t \in Tasks |-> IF t \in dead THEN "idle" ELSE pc[t]]
        /\ key' = [t \in Tasks |-> IF t \in dead THEN None ELSE key[t]]
        /\ at' = [t \in Tasks |-> IF t \in dead THEN 0 ELSE at[t]]
        /\ retries' = [t \in Tasks |-> IF t \in dead THEN 0 ELSE retries[t]]
        /\ rolls' = [t \in Tasks |-> IF t \in dead THEN 0 ELSE rolls[t]]
        /\ res' = [t \in Tasks |-> IF t \in dead THEN NoResult ELSE res[t]]
        /\ outcome' = [e \in Events |->
             IF \E t \in dead : key[t][2] = e THEN "crashed" ELSE outcome[e]]
        /\ late' = late \cup UNION {InFlight(t) : t \in dead}
    /\ cache' = [cache EXCEPT ![p] = None]
    /\ UNCHANGED db

\* The server applies a request whose sender no longer waits for it.  The
\* request stays: the sender's retries may have left several copies of it.
ApplyLate(q) ==
    /\ \/ q.rec = "seg" /\ SegmentPut(q.n, q.key)
       \/ q.rec = "cur" /\ CurBump(q.n)
       \/ q.rec \in Scopes /\ StatePut(q.rec, q.key)
    /\ UNCHANGED <<cache, taskVars, late, outcome, faults>>

-----------------------------------------------------------------------------

\* A live session: cur = 0, the creating process may have seeded its cache.
Init ==
    /\ cur = 0
    /\ stored = {}
    /\ state = [s \in Scopes |-> None]
    /\ wrote = {}
    /\ cache \in [Procs -> {None, 0}]
    /\ pc = [t \in Tasks |-> "idle"]
    /\ key = [t \in Tasks |-> None]
    /\ at = [t \in Tasks |-> 0]
    /\ retries = [t \in Tasks |-> 0]
    /\ rolls = [t \in Tasks |-> 0]
    /\ res = [t \in Tasks |-> NoResult]
    /\ late = {}
    /\ outcome = [e \in Events |-> "new"]
    /\ faults = 0

\* The steps an append that has started takes until it returns or raises.
Step(t) ==
    \/ CurrentSegmentRead(t)
    \/ CurrentSegmentCached(t)
    \/ PutOk(t)
    \/ PutReply(t)
    \/ PutTooBig(t)
    \/ SegmentSize(t)
    \/ RollBump(t)
    \/ RollFiltered(t)
    \/ RollReread(t)
    \/ RollDone(t)
    \/ WriteFault(t)
    \/ \E r \in Records : BatchWrite(t, r)
    \/ \E r \in Records : BatchRecordFault(t, r)
    \/ BatchFault(t)
    \/ BatchRetry(t)
    \/ BatchAck(t)
    \/ BatchOverflow(t)
    \/ BatchError(t)
    \/ CallFails(t)

Next ==
    \/ \E t \in Tasks, e \in Events : StartAppend(t, e)
    \/ \E t \in Tasks : Step(t)
    \/ \E q \in late : ApplyLate(q)
    \/ \E p \in Procs : Crash(p)

Spec == Init /\ [][Next]_vars

\* A call returns, with an answer or with a timeout, and the event loop
\* resumes the task; nothing makes a caller append or a lost request arrive.
FairSpec == Spec /\ \A t \in Tasks : WF_vars(Step(t))
-----------------------------------------------------------------------------
(* Safety.                                                                 *)

Storable(k) == Fits({k})

\* An event whose append_event returned is in a segment that a reader walking
\* cur..0 visits, whichever process rolled over, timed out or crashed since.
AckedReachable ==
    \A e \in Events : outcome[e] = "ok" =>
        \E p \in stored : p[1] <= cur /\ p[2][2] = e

\* Everything in an event's state_delta was written when append_event returns,
\* also after a retried batch and after a rollover.
AckedStateWritten ==
    \A e \in Events : outcome[e] = "ok" =>
        \A s \in Delta[e] : <<s, e>> \in wrote

\* No event is in two places: "a timed-out-then-retried append can never
\* duplicate an event" (module docstring of sessions/service.py).
StoredOnce ==
    \A p, q \in stored : p[2][2] = q[2][2] => p = q

\* cur moves past a segment only once some event did not fit there; segments
\* only grow, so it stays that way.
RolledSegmentsFull ==
    \A g \in 0..cur : g < cur => \E k \in Keys : ~Accepts(g, k)

\* _roll_over: "no segment is skipped".  Every segment below cur has events.
NoSegmentSkipped ==
    \A g \in 0..cur : g < cur => Seg(g) # {}

\* _place_event raises RecordTooBig only for an event no segment could hold,
\* and then the event is in none.
TooBigIsGenuine ==
    \A e \in Events : outcome[e] = "toobig" =>
        /\ \E k \in event_map_key(e) : ~Storable(k)
        /\ \A p \in stored : p[2][2] # e

\* Back-pressure reaches the caller only after more failed calls than the
\* backoff loop retries.
BackPressureMasked ==
    \A e \in Events : outcome[e] = "transient" => faults > MaxRetries

\* A re-append reaches the slot the first append wrote: "a retried append
\* recomputes the identical key" (event_map_key).
OneKeyPerEvent ==
    \A p, q \in stored : p[2][2] = q[2][2] => p[2] = q[2]

\* _place_event gives up only when cur has moved on that many times.
DivergedOnlyAfterRolls ==
    \A e \in Events : outcome[e] = "diverged" => cur >= MaxAttempts

\* The idempotence the retry loops rest on ("a re-apply is a no-op"): no write
\* brings back a state value that a later write has replaced.
ReapplyIsNoop ==
    [][\A s \in Scopes : state'[s] # state[s] =>
        <<s, state'[s][2]>> \notin wrote]_vars

-----------------------------------------------------------------------------
(* Refinement.                                                             *)

\* The log: the events in the segments a reader walks, 0..cur.
Reached == {p[2][2] : p \in {q \in stored : q[1] <= cur}}

\* What the outcome of an append tells its caller.
AnswerOf(o) ==
    CASE o = "new"     -> "none"
      [] o = "pending" -> "open"
      [] o = "ok"      -> "stored"
      [] OTHER         -> "failed"
Answers == [e \in Events |-> AnswerOf(outcome[e])]

Log == INSTANCE SessionLog WITH
    log    <- Reached,
    parts  <- wrote,
    answer <- Answers

\* The append path implements the session log: through rollovers, retries,
\* crashes and late writes no event leaves what a reader finds, none appears that
\* nobody appended, and append_event returns only when all of it is written.
ImplementsLog == Log!Spec

-----------------------------------------------------------------------------
(* Liveness.                                                               *)

\* Every append_event that has started returns or raises, even when calls keep
\* failing: both backoff loops and the loop of _place_event are bounded.
AppendTerminates ==
    \A t \in Tasks : pc[t] # "idle" ~> pc[t] = "idle"
=============================================================================
