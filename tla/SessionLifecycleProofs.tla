----------------------- MODULE SessionLifecycleProofs -----------------------
(***************************************************************************)
(* Proofs about SessionLifecycle, for any number of calls, sessions,       *)
(* processes and faults.                                                   *)
(***************************************************************************)
EXTENDS SessionLifecycle, TLAPS

Active(t) == pc[t] \notin Ended \cup Idle

\* No delete of session s has begun.
Alive(s) == \A d \in Deleters : Sid[d] = s => pc[d] \in Idle

-----------------------------------------------------------------------------
(* The inductive invariant, in parts.                                      *)

\* Calls follow the steps of their operation.
PhaseInv ==
    /\ \A c \in Creators : pc[c] \in Idle \cup {"seed", "add", "created", "exists", "failed"}
    /\ \A d \in Deleters : pc[d] \in Idle \cup
          {"segments", "record", "pop", "unlist", "deleted", "failed"}
    /\ \A l \in Listers : pc[l] \in Idle \cup {"rows", "prune", "listed", "failed"}
    /\ \A g \in Getters : pc[g] \in Idle \cup {"seed", "got", "none", "failed"}
    /\ \A t \in Appenders : pc[t] \in Idle \cup
          {"selected", "batch", "state", "put", "size", "placed", "roll", "reread", "rolled",
           "acked", "failed"}

\* What a call has seen had ended; calls on a session have seen calls on it.
SeenInv ==
    /\ \A t \in Tasks : \A u \in seen[t] : u \in OnSession /\ pc[u] \in Ended
    /\ \A t \in OnSession : \A u \in seen[t] : Sid[u] = Sid[t]
    /\ \A t \in Tasks : pc[t] \in Idle => seen[t] = {}
    /\ \A l \in Listers : pc[l] \in Idle => listed[l] = {} /\ stale[l] = NoEntries

\* Records and segments belong to the calls that wrote them.
OwnerInv ==
    /\ \A s \in Sids : Identified(rec[s]) => rec[s].cur \in Nat /\ Sid[rec[s].owner] = s
    /\ \A x \in segs : Sid[x.ev] = x.sid

\* A request in flight belongs to a call that could send it.
Sent(q) ==
    /\ q.sid \in Late
    /\ q.op \in {"create", "add"} =>
          q.by \in Creators /\ Sid[q.by] = q.sid /\ pc[q.by] = "failed"
    /\ q.op \in {"segment", "record"} =>
          q.by \in Deleters /\ Sid[q.by] = q.sid /\ pc[q.by] = "failed"
    /\ q.op = "unlist" =>
          \/ q.by \in Deleters /\ Sid[q.by] = q.sid /\ pc[q.by] = "failed"
          \/ q.by \in Listers
    /\ q.op \in {"put", "state", "bump"} =>
          q.by \in Appenders /\ Sid[q.by] = q.sid /\ pc[q.by] \notin Idle
LateInv == \A q \in late : Sent(q)

ControlInv == TypeOK /\ PhaseInv /\ SeenInv /\ OwnerInv /\ LateInv

\* There are traces of session s.
Traces(s) ==
    \/ rec[s] # None \/ manifest[s] > 0
    \/ \E x \in segs : x.sid = s
    \/ \E p \in Processes : cache[p][s] # None
    \/ \E l \in Listers : ids[l][s] > 0
    \/ \E c \in Creators : Sid[c] = s /\ pc[c] \in {"seed", "add", "created"}
    \/ \E g \in Getters : Sid[g] = s /\ pc[g] \in {"seed", "got"}
    \/ \E t \in Appenders : Sid[t] = s /\ pc[t] \notin Idle
    \/ \E q \in late : q.sid = s /\ q.op = "add"

\* Before the first delete of a session, what there is of it has its record.
BornInv == \A s \in Sids : Alive(s) /\ Traces(s) => Identified(rec[s])

\* Until then no segment index that is stored, cached or in hand exceeds cur.
IndexInv ==
    \A s \in Sids \ Late : Alive(s) =>
        /\ \A x \in segs : x.sid = s => x.gidx <= rec[s].cur
        /\ \A p \in Processes : cache[p][s] # None => cache[p][s] <= rec[s].cur
        /\ \A t \in OnSession : Sid[t] = s /\ Active(t) => at[t] <= rec[s].cur

\* ... and the entry of a session is not stale, unless its record was not read.
ListInv ==
    \A s \in Sids \ unread : Alive(s) =>
        /\ \A l \in Listers : stale[l][s] = 0
        /\ \A q \in late : ~(q.op = "unlist" /\ q.sid = s)
        /\ \A c \in Creators : Sid[c] = s /\ pc[c] = "created" =>
              /\ manifest[s] > 0
              /\ \A l \in Listers : c \in seen[l] /\ pc[l] # "failed" =>
                    s \in listed[l] \/ (pc[l] = "rows" /\ ids[l][s] > 0)

\* Creates of a session that is not created anew have seen no delete, and the
\* one that wrote the record no append.
CreateInv ==
    /\ \A c \in Creators : Sid[c] \notin Recreate => seen[c] \cap Deleters = {}
    /\ \A s \in Sids : Identified(rec[s]) => pc[rec[s].owner] \notin Idle
    /\ \A s \in Sids \ (Recreate \cup Late) :
          Identified(rec[s]) => seen[rec[s].owner] \cap Appenders = {}

\* No create has failed or begun since delete d did.
NoneSince(d) ==
    \A c \in Creators : Sid[c] = Sid[d] =>
        pc[c] # "failed" /\ (pc[c] \in Idle \/ c \in seen[d])

\* What delete d has removed does not come back.
SoundInv ==
    \A d \in Deleters : pc[d] \in {"pop", "unlist", "deleted"} /\ NoneSince(d) =>
        /\ ~Identified(rec[Sid[d]])
        /\ \A l \in Listers : d \in seen[l] => Sid[d] \notin listed[l]

\* The events that delete d, the first of its session, has to remove.
Owed(d) == {x \in segs : pc[x.ev] = "acked" /\ x.ev \in seen[d]}

DeleteInv ==
    \A d \in Deleters :
        /\ Sid[d] \notin Late
        /\ \A e \in Deleters \ {d} : Sid[e] = Sid[d] => pc[e] \in Idle
        => /\ pc[d] = "segments" => \A x \in Owed(d) : at[d] <= x.gidx /\ x.gidx <= top[d]
           /\ pc[d] \in {"record", "pop", "unlist", "deleted"} => Owed(d) = {}

-----------------------------------------------------------------------------
(* Sessions whose calls follow each other.                                 *)

\* Deletes of sessions that are created anew run in the process of the calls
\* that cache an index above 0.
DeletesAtHome ==
    \A d \in Deleters, t \in Getters \cup Appenders :
        Sid[d] = Sid[t] /\ Sid[t] \in Sequential \cap Recreate => Proc[d] = Proc[t]

NoneFailed(s) == \A d \in Deleters : Sid[d] = s => pc[d] # "failed"

\* One call at a time.
ExclusiveInv ==
    \A t, u \in OnSession :
        Sid[t] = Sid[u] /\ Sid[t] \in Sequential /\ Active(t) /\ Active(u) => t = u

\* Processes that delete nothing of s only know the first segment.
AwayInv ==
    /\ \A c \in Creators : at[c] = 0
    /\ \A d \in Deleters, p \in Processes :
          Sid[d] \in Sequential \cap Recreate /\ p # Proc[d] => cache[p][Sid[d]] \in {None, 0}

\* Events and indices of session s are those of its record.
DataPart(s) ==
    /\ rec[s] # None => Identified(rec[s])
    /\ \A x \in segs : x.sid = s =>
          /\ Identified(rec[s]) /\ x.gidx <= rec[s].cur
          /\ x.ev \notin seen[rec[s].owner]

\* ... and so are the cached ones, unless a delete is about to forget them.
CachePart(s) ==
    \A p \in Processes : cache[p][s] # None =>
        /\ rec[s] # None => cache[p][s] <= rec[s].cur
        /\ /\ rec[s] = None /\ s \in Recreate
           /\ \A d \in Deleters : Sid[d] = s => pc[d] # "pop"
           => cache[p][s] = 0

CallPart(s) ==
    /\ \A t \in OnSession \ Deleters : Sid[t] = s /\ Active(t) =>
          Identified(rec[s]) /\ at[t] <= rec[s].cur
    /\ \A t \in Appenders : Sid[t] = s /\ pc[t] \in {"placed", "state"} =>
          [sid |-> s, gidx |-> at[t], ev |-> t] \in segs
    /\ \A d \in Deleters : Sid[d] = s =>
          /\ pc[d] = "segments" =>
               /\ Identified(rec[s]) /\ top[d] = rec[s].cur + 1
               /\ \A x \in segs : x.sid = s => at[d] <= x.gidx
          /\ pc[d] = "record" => \A x \in segs : x.sid # s
          /\ pc[d] \in {"pop", "unlist"} => rec[s] = None

SerialPart(s) == DataPart(s) /\ CachePart(s) /\ CallPart(s)

SerialInv == \A s \in Sequential \ Late : NoneFailed(s) => SerialPart(s)

\* No delete of the session has begun since append t did, and none failed.
Kept(t) ==
    \A d \in Deleters : Sid[d] = Sid[t] =>
        pc[d] \in Idle \/ (d \in seen[t] /\ pc[d] # "failed")

AckedInv ==
    \A t \in Appenders :
        pc[t] = "acked" /\ Sid[t] \in Sequential \ Late /\ Kept(t) =>
            [sid |-> Sid[t], gidx |-> at[t], ev |-> t] \in segs

-----------------------------------------------------------------------------
(* Steps.                                                                  *)

\* A step of call t.
Step(t) ==
    \/ t \in Creators /\ Create(t)
    \/ t \in Deleters /\ Delete(t)
    \/ t \in Listers /\ List(t)
    \/ t \in Getters /\ Get(t)
    \/ t \in Appenders /\ (AppendEvent(t) \/ Retry(t))
    \/ RecordUnread(t) \/ CallFails(t)

LEMMA NextSteps ==
    [Next]_vars => \/ \E t \in Tasks : Step(t)
                   \/ \E q \in late : ApplyLate(q)
                   \/ UNCHANGED vars
  BY DEF Next, Step, Tasks, OnSession

\* A call is of one kind.
LEMMA Kinds ==
    /\ \A c \in Creators : c \in OnSession /\ c \notin Deleters \cup Getters \cup Appenders \cup Listers
    /\ \A d \in Deleters : d \in OnSession /\ d \notin Creators \cup Getters \cup Appenders \cup Listers
    /\ \A g \in Getters : g \in OnSession /\ g \notin Creators \cup Deleters \cup Appenders \cup Listers
    /\ \A t \in Appenders : t \in OnSession /\ t \notin Creators \cup Deleters \cup Getters \cup Listers
    /\ \A l \in Listers : l \in Tasks /\ l \notin OnSession
    /\ \A t \in OnSession : t \in Tasks /\ Sid[t] \in Sids
    /\ \A t \in Tasks : Proc[t] \in Processes
    /\ \A t \in Tasks : t \in Creators \cup Deleters \cup Getters \cup Appenders \cup Listers
  BY LifecycleAssumption DEF OnSession, Tasks

LEMMA NoneFacts ==
    /\ None \notin Nat /\ None \notin Creators /\ None \notin Records
    /\ \A r \in Records : r # None /\ r.cur \in Nat \cup {None} /\ r.owner \in Creators \cup {None}
  BY LifecycleAssumption DEF Records

\* The kinds of writes a request stands for.
LEMMA ApplyCases ==
    ASSUME NEW q, Apply(q)
    PROVE  \/ q.op = "create" /\ rec[q.sid] = None /\ SetRec(q.sid, [cur |-> 0, owner |-> q.by])
           \/ q.op = "add" /\ SetEntries(q.sid, manifest[q.sid] + 1)
           \/ q.op = "unlist" /\ SetEntries(q.sid, 0)
           \/ q.op = "segment" /\ RemoveSegment(q.sid, q.gidx)
           \/ q.op = "record" /\ SetRec(q.sid, None)
           \/ q.op = "state" /\ WriteState(q.sid)
           \/ q.op = "put" /\ map_put(q.sid, q.gidx, q.by)
           \/ q.op = "bump" /\ Bump(q.sid, q.gidx)
  BY DEF Apply

DbOK ==
    /\ rec \in [Sids -> Records \cup {None}]
    /\ segs \subseteq Events
    /\ manifest \in Entries

\* What the server holds after any write is of the right type.
LEMMA ApplyTypes ==
    ASSUME DbOK, NEW q \in Requests, Apply(q),
           q.op = "create" => q.by \in Creators,
           q.op = "put" => q.by \in Appenders
    PROVE  DbOK'
  <1>0. q.sid \in Sids /\ q.gidx \in Nat
    BY DEF Requests
  <1>1. CASE q.op = "create" /\ SetRec(q.sid, [cur |-> 0, owner |-> q.by])
    BY <1>0, <1>1 DEF DbOK, SetRec, Records
  <1>2. CASE \E n \in Nat : SetEntries(q.sid, n)
    BY <1>0, <1>2 DEF DbOK, SetEntries, Entries
  <1>3. CASE RemoveSegment(q.sid, q.gidx)
    BY <1>3 DEF DbOK, RemoveSegment
  <1>4. CASE SetRec(q.sid, None)
    BY <1>0, <1>4 DEF DbOK, SetRec
  <1>5. CASE WriteState(q.sid)
    BY <1>0, <1>5 DEF DbOK, WriteState, SetRec, Records, db
  <1>6. CASE q.op = "put" /\ map_put(q.sid, q.gidx, q.by)
    BY <1>0, <1>6 DEF DbOK, map_put, Events
  <1>7. CASE Bump(q.sid, q.gidx)
    BY <1>0, <1>7, NoneFacts DEF DbOK, Bump, SetRec, Records
  <1>8. manifest[q.sid] + 1 \in Nat
    BY <1>0 DEF DbOK, Entries
  <1> QED BY <1>1, <1>2, <1>3, <1>4, <1>5, <1>6, <1>7, <1>8, ApplyCases

\* The requests that a call may have sent.
LEMMA InFlightFacts ==
    ASSUME TypeOK, PhaseInv, NEW t \in Tasks, NEW q \in InFlight(t)
    PROVE  /\ q \in Requests /\ q.by = t /\ q.gidx = at[t]
           /\ t \in OnSession => q.sid = Sid[t]
           /\ t \in Creators => \/ pc[t] = "start" /\ q.op = "create"
                                \/ pc[t] = "add" /\ q.op = "add"
           /\ t \in Deleters => \/ pc[t] = "segments" /\ q.op = "segment"
                                \/ pc[t] = "record" /\ q.op = "record"
                                \/ pc[t] = "unlist" /\ q.op = "unlist"
           /\ t \in Listers => pc[t] = "prune" /\ q.op = "unlist" /\ stale[t][q.sid] > 0
           /\ t \notin Getters
           /\ t \in Appenders => \/ pc[t] \in {"put", "batch"} /\ q.op = "put"
                                 \/ pc[t] \in {"batch", "state"} /\ q.op = "state"
                                 \/ pc[t] = "roll" /\ q.op = "bump"
  <1>1. PICK op \in Ops, s \in Target(t) : Waits(t, op) /\ q = Req(t, op, s)
    BY DEF InFlight
  <1>2. q.op = op /\ q.sid = s /\ q.gidx = at[t] /\ q.by = t
    BY <1>1 DEF Req
  <1>3. s \in Sids /\ (t \in OnSession => s = Sid[t]) /\ (t \in Listers => stale[t][s] > 0)
    BY Kinds DEF Target, Named, Tasks
  <1>4. q \in Requests
    BY <1>1, <1>2, <1>3 DEF Req, Requests, TypeOK
  <1>5. CASE t \in Creators
    BY <1>1, <1>2, <1>3, <1>4, <1>5, Kinds DEF Waits, PhaseInv, Idle
  <1>6. CASE t \in Deleters
    BY <1>1, <1>2, <1>3, <1>4, <1>6, Kinds DEF Waits, PhaseInv, Idle
  <1>7. CASE t \in Listers
    BY <1>1, <1>2, <1>3, <1>4, <1>7, Kinds DEF Waits, PhaseInv, Idle
  <1>8. CASE t \in Getters
    BY <1>1, <1>8, Kinds DEF Waits, PhaseInv, Idle
  <1>9. CASE t \in Appenders
    BY <1>1, <1>2, <1>3, <1>4, <1>9, Kinds DEF Waits, PhaseInv, Idle
  <1> QED BY <1>5, <1>6, <1>7, <1>8, <1>9, Kinds

\* What a step of t leaves alone: the variables of other calls, and the cached
\* index of other processes and sessions.
Frame(t) ==
    /\ \A u \in Tasks \ {t} : pc'[u] = pc[u] /\ at'[u] = at[u] /\ seen'[u] = seen[u]
    /\ \A d \in Deleters \ {t} : top'[d] = top[d]
    /\ \A l \in Listers \ {t} : ids'[l] = ids[l] /\ listed'[l] = listed[l] /\ stale'[l] = stale[l]
    /\ \A p \in Processes, s \in Sids :
          cache'[p][s] = cache[p][s] \/ (t \in OnSession /\ p = Proc[t] /\ s = Sid[t])

\* Calls begin once, and have not ended before they end.
Control(t) ==
    /\ pc[t] \notin Ended /\ pc'[t] \notin Idle
    /\ pc[t] \in Idle => Begin(t)
    /\ pc[t] \notin Idle => seen'[t] = seen[t]

\* A step applies at most one request of its call, or leaves one for later.
Effect(t) ==
    /\ UNCHANGED db \/ \E q \in InFlight(t) : Apply(q)
    /\ \/ late' = late
       \/ \E q \in InFlight(t) :
            /\ q.sid \in Late /\ late' = late \cup {q} /\ UNCHANGED db
            /\ pc'[t] = "failed" \/ (t \in Appenders /\ pc'[t] = pc[t])
    /\ unread \subseteq unread'

Types ==
    /\ cache \in [Processes -> [Sids -> Nat \cup {None}]]
    /\ pc \in [Tasks -> Labels]
    /\ at \in [Tasks -> Nat]
    /\ top \in [Deleters -> Nat]
    /\ ids \in [Listers -> Entries]
    /\ listed \in [Listers -> SUBSET Sids]
    /\ stale \in [Listers -> Entries]
    /\ seen \in [Tasks -> SUBSET Tasks]
    /\ unread \subseteq Sids
    /\ faults \in 0..MaxFaults

LEMMA BeginFacts ==
    ASSUME TypeOK, NEW t \in Tasks, Begin(t)
    PROVE  /\ pc[t] = "start" /\ seen' \in [Tasks -> SUBSET Tasks]
           /\ \A u \in Tasks \ {t} : seen'[u] = seen[u]
           /\ \A u \in seen'[t] : u \in OnSession /\ pc[u] \in Ended
                                  /\ (t \in OnSession => Sid[u] = Sid[t])
           /\ \A u \in OnSession : pc[u] \in Ended /\ (t \in OnSession => Sid[u] = Sid[t]) =>
                u \in seen'[t]
  BY DEF Begin, TypeOK, Tasks

LEMMA InFlightReq ==
    ASSUME NEW t \in OnSession, NEW op \in Ops, Waits(t, op)
    PROVE  Req(t, op, Sid[t]) \in InFlight(t)
  BY Kinds DEF InFlight, Target

\* What a step does to the variables of its call, by kind of call.
LEMMA CreatorStep ==
    ASSUME TypeOK, PhaseInv, NEW c \in Creators, Create(c)
    PROVE  /\ Frame(c) /\ Control(c) /\ Effect(c) /\ Types' /\ late' = late
           /\ UNCHANGED <<top, ids, listed, stale, unread>>
           /\ \/ /\ pc[c] = "start" /\ Begin(c) /\ MayCreate(Sid[c])
                 /\ at'[c] = 0 /\ UNCHANGED cache
                 /\ \/ pc'[c] = "seed" /\ rec[Sid[c]] = None
                       /\ SetRec(Sid[c], [cur |-> 0, owner |-> c])
                    \/ pc'[c] = "exists" /\ UNCHANGED db
              \/ /\ pc[c] = "seed" /\ pc'[c] = "add" /\ at'[c] = at[c]
                 /\ cache'[Proc[c]][Sid[c]] = at[c] /\ UNCHANGED db
              \/ /\ pc[c] = "add" /\ pc'[c] = "created" /\ UNCHANGED <<at, cache>>
                 /\ SetEntries(Sid[c], manifest[Sid[c]] + 1)
  <1>0. c \in OnSession /\ c \in Tasks /\ Sid[c] \in Sids /\ Proc[c] \in Processes
    BY Kinds
  <1>1. CASE CreatePut(c)
    <2>1. /\ pc[c] = "start" /\ Begin(c) /\ MayCreate(Sid[c])
          /\ at' = [at EXCEPT ![c] = 0]
          /\ UNCHANGED <<cache, top, ids, listed, stale, unread, faults, late>>
          /\ \/ Apply(Req(c, "create", Sid[c])) /\ Goto(c, "seed")
             \/ Goto(c, "exists") /\ UNCHANGED db
      BY <1>1 DEF CreatePut, Begin, own, past
    <2>2. CASE Apply(Req(c, "create", Sid[c])) /\ Goto(c, "seed")
      <3>1. rec[Sid[c]] = None /\ SetRec(Sid[c], [cur |-> 0, owner |-> c])
        BY <2>2 DEF Req, Apply
      <3>2. Req(c, "create", Sid[c]) \in InFlight(c)
        BY <1>0, <2>1, InFlightReq DEF Ops, Waits
      <3> QED
        BY <1>0, <2>1, <2>2, <3>1, <3>2, BeginFacts
        DEF Frame, Control, Effect, Types, TypeOK, Goto, Labels, Ended, Idle
    <2>3. CASE Goto(c, "exists") /\ UNCHANGED db
      BY <1>0, <2>1, <2>3, BeginFacts
      DEF Frame, Control, Effect, Types, TypeOK, Goto, Labels, Ended, Idle
    <2> QED BY <2>1, <2>2, <2>3
  <1>2. CASE CreateSeed(c)
    BY <1>0, <1>2
    DEF CreateSeed, CacheWrite, SetCache, Frame, Control, Effect, Types, TypeOK, Goto,
        Labels, Ended, Idle, own, past
  <1>3. CASE manifest_add(c)
    <2>1. SetEntries(Sid[c], manifest[Sid[c]] + 1) /\ Apply(Req(c, "add", Sid[c]))
      BY <1>3 DEF manifest_add, Req, Apply
    <2>2. Req(c, "add", Sid[c]) \in InFlight(c)
      BY <1>0, <1>3, InFlightReq DEF Ops, Waits, manifest_add
    <2> QED
      BY <1>0, <1>3, <2>1, <2>2
      DEF manifest_add, Frame, Control, Effect, Types, TypeOK, Goto, Labels, Ended, Idle,
          own, past
  <1> QED BY <1>1, <1>2, <1>3 DEF Create

LEMMA DeleterStep ==
    ASSUME TypeOK, PhaseInv, NEW d \in Deleters, Delete(d)
    PROVE  /\ Frame(d) /\ Control(d) /\ Effect(d) /\ Types' /\ late' = late
           /\ UNCHANGED <<ids, listed, stale, unread>>
           /\ \/ /\ pc[d] = "start" /\ Begin(d) /\ at'[d] = 0 /\ UNCHANGED <<db, cache>>
                 /\ \/ pc'[d] = "deleted" /\ rec[Sid[d]] = None
                    \/ /\ pc'[d] = "segments" /\ rec[Sid[d]] # None
                       /\ top'[d] = CurOr(rec[Sid[d]], 0) + 1
              \/ /\ pc[d] = "segments" /\ RemoveSegment(Sid[d], at[d])
                 /\ at'[d] = at[d] + 1 /\ UNCHANGED <<cache, top>>
                 /\ pc'[d] = IF at[d] = top[d] THEN "record" ELSE "segments"
              \/ /\ pc[d] = "record" /\ pc'[d] = "pop" /\ SetRec(Sid[d], None)
                 /\ UNCHANGED <<cache, at, top>>
              \/ /\ pc[d] = "pop" /\ pc'[d] = "unlist" /\ UNCHANGED <<db, at, top>>
                 /\ cache'[Proc[d]][Sid[d]] = None
              \/ /\ pc[d] = "unlist" /\ pc'[d] = "deleted" /\ SetEntries(Sid[d], 0)
                 /\ UNCHANGED <<cache, at, top>>
  <1>0. /\ d \in OnSession /\ d \in Tasks /\ Sid[d] \in Sids /\ Proc[d] \in Processes
        /\ d \notin Listers /\ d \notin Appenders
    BY Kinds
  <1>1. CASE DeleteGet(d)
    <2>1. CurOr(rec[Sid[d]], 0) + 1 \in Nat \/ rec[Sid[d]] = None
      BY <1>0, NoneFacts DEF TypeOK, CurOr
    <2>2. top' \in [Deleters -> Nat] /\ \A e \in Deleters \ {d} : top'[e] = top[e]
      BY <1>0, <1>1, <2>1 DEF DeleteGet, TypeOK
    <2> QED
      BY <1>0, <1>1, <2>1, <2>2, BeginFacts
      DEF DeleteGet, Frame, Control, Effect, Types, TypeOK, Goto, Labels, Ended, Idle, past
  <1>2. CASE DeleteSegment(d)
    <2>1. RemoveSegment(Sid[d], at[d]) /\ Apply(Req(d, "segment", Sid[d]))
      BY <1>2 DEF DeleteSegment, Req, Apply
    <2>2. Req(d, "segment", Sid[d]) \in InFlight(d)
      BY <1>0, <1>2, InFlightReq DEF Ops, Waits, DeleteSegment
    <2> QED
      BY <1>0, <1>2, <2>1, <2>2
      DEF DeleteSegment, Frame, Control, Effect, Types, TypeOK, Goto, Labels, Ended, Idle,
          own, past
  <1>3. CASE DeleteRecord(d)
    <2>1. SetRec(Sid[d], None) /\ Apply(Req(d, "record", Sid[d]))
      BY <1>3 DEF DeleteRecord, Req, Apply
    <2>2. Req(d, "record", Sid[d]) \in InFlight(d)
      BY <1>0, <1>3, InFlightReq DEF Ops, Waits, DeleteRecord
    <2> QED
      BY <1>0, <1>3, <2>1, <2>2
      DEF DeleteRecord, Frame, Control, Effect, Types, TypeOK, Goto, Labels, Ended, Idle,
          own, past
  <1>4. CASE DeletePop(d)
    BY <1>0, <1>4
    DEF DeletePop, SetCache, Frame, Control, Effect, Types, TypeOK, Goto, Labels, Ended,
        Idle, own, past
  <1>5. CASE DeleteUnlist(d)
    <2>1. SetEntries(Sid[d], 0) /\ Apply(Req(d, "unlist", Sid[d]))
      BY <1>5 DEF DeleteUnlist, Req, Apply
    <2>2. Req(d, "unlist", Sid[d]) \in InFlight(d)
      BY <1>0, <1>5, InFlightReq DEF Ops, Waits, DeleteUnlist
    <2> QED
      BY <1>0, <1>5, <2>1, <2>2
      DEF DeleteUnlist, Frame, Control, Effect, Types, TypeOK, Goto, Labels, Ended, Idle,
          own, past
  <1> QED BY <1>1, <1>2, <1>3, <1>4, <1>5 DEF Delete

\* One entry is looked up: it is listed or stale.
LookedUp(l, s, live) ==
    /\ pc[l] = "rows" /\ ids[l][s] > 0
    /\ ids'[l] = [ids[l] EXCEPT ![s] = 0]
    /\ listed'[l] = IF live THEN listed[l] \cup {s} ELSE listed[l]
    /\ stale'[l] = IF live THEN stale[l] ELSE [stale[l] EXCEPT ![s] = ids[l][s]]
    /\ pc'[l] \in {"rows", "prune", "listed"}
    /\ pc'[l] # "rows" => Named(ids'[l]) = {}

LEMMA LookUpStep ==
    ASSUME TypeOK, PhaseInv, NEW l \in Listers, NEW s \in Sids, NEW live \in BOOLEAN,
           LookUp(l, s, live),
           UNCHANGED <<db, cache, at, top, seen, late>>,
           unread \subseteq unread', unread' \subseteq Sids, faults' \in 0..MaxFaults
    PROVE  Frame(l) /\ Control(l) /\ Effect(l) /\ Types' /\ LookedUp(l, s, live)
  <1>0. l \in Tasks /\ l \notin OnSession
    BY Kinds
  <1>1. ids[l][s] \in Nat /\ ids[l] \in Entries /\ stale[l] \in Entries
    BY DEF TypeOK, Entries
  <1>2. /\ ids' = [ids EXCEPT ![l] = [ids[l] EXCEPT ![s] = 0]]
        /\ listed' = IF live THEN [listed EXCEPT ![l] = listed[l] \cup {s}] ELSE listed
        /\ stale' = IF live THEN stale
                    ELSE [stale EXCEPT ![l] = [stale[l] EXCEPT ![s] = ids[l][s]]]
    BY DEF LookUp
  <1>3. ids' \in [Listers -> Entries] /\ stale' \in [Listers -> Entries]
        /\ listed' \in [Listers -> SUBSET Sids]
    BY <1>1, <1>2 DEF TypeOK, Entries
  <1>4. LookedUp(l, s, live)
    BY <1>0, <1>2 DEF LookUp, AfterRows, Goto, LookedUp, TypeOK
  <1>5. pc[l] = "rows" /\ pc'[l] \in {"rows", "prune", "listed"}
        /\ \A u \in Tasks \ {l} : pc'[u] = pc[u]
    BY <1>0 DEF LookUp, AfterRows, Goto, TypeOK
  <1>6. pc' \in [Tasks -> Labels]
    BY <1>0 DEF LookUp, AfterRows, Goto, TypeOK, Labels, Ended
  <1> QED
    BY <1>0, <1>2, <1>3, <1>4, <1>5, <1>6 DEF Frame, Control, Effect, Types, TypeOK, Ended, Idle

LEMMA ListerStep ==
    ASSUME TypeOK, PhaseInv, NEW l \in Listers, List(l)
    PROVE  /\ Frame(l) /\ Control(l) /\ Effect(l) /\ Types' /\ late' = late
           /\ UNCHANGED <<cache, at, top, unread>>
           /\ \/ /\ pc[l] = "start" /\ Begin(l) /\ UNCHANGED <<db, listed, stale>>
                 /\ ids'[l] = manifest
                 /\ \/ pc'[l] = "listed" /\ Named(manifest) = {}
                    \/ pc'[l] = "rows"
              \/ /\ UNCHANGED <<db, seen>>
                 /\ \E s \in Sids : LookedUp(l, s, Identified(rec[s]))
              \/ /\ pc[l] = "prune" /\ pc'[l] \in {"prune", "listed"}
                 /\ UNCHANGED <<seen, ids, listed>>
                 /\ \E s \in Sids :
                      /\ stale[l][s] > 0 /\ SetEntries(s, 0)
                      /\ stale'[l] = [stale[l] EXCEPT ![s] = stale[l][s] - 1]
  <1>0. l \in Tasks /\ l \notin OnSession
    BY Kinds
  <1>1. CASE ListManifest(l)
    BY <1>0, <1>1, BeginFacts
    DEF ListManifest, Frame, Control, Effect, Types, TypeOK, Goto, Labels, Ended, Idle, past
  <1>2. CASE ListRow(l)
    <2>1. PICK s \in Sids : LookUp(l, s, Identified(rec[s]))
      BY <1>2 DEF ListRow
    <2>2. Identified(rec[s]) \in BOOLEAN
      BY DEF Identified
    <2>3. UNCHANGED <<db, cache, at, top, seen, late, unread, faults>>
      BY <1>2 DEF ListRow, past
    <2> QED BY <2>1, <2>2, <2>3, LookUpStep DEF TypeOK
  <1>3. CASE Prune(l)
    <2>1. PICK s \in Named(stale[l]) :
             /\ Apply(Req(l, "unlist", s))
             /\ stale' = [stale EXCEPT ![l] = [stale[l] EXCEPT ![s] = stale[l][s] - 1]]
      BY <1>3 DEF Prune
    <2>2. /\ pc[l] = "prune" /\ AfterRows(l, NoEntries, stale'[l])
          /\ UNCHANGED <<cache, at, top, ids, listed, seen, late, unread, faults>>
      BY <1>3 DEF Prune, past
    <2>3. s \in Sids /\ stale[l][s] > 0 /\ stale[l] \in Entries
      BY DEF Named, TypeOK
    <2>4. SetEntries(s, 0)
      BY <2>1 DEF Req, Apply
    <2>5. stale' \in [Listers -> Entries]
      BY <2>1, <2>3 DEF TypeOK, Entries
    <2>6. Named(NoEntries) = {}
      BY DEF Named, NoEntries
    <2>7. pc' = [pc EXCEPT ![l] = IF Named(stale'[l]) # {} THEN "prune" ELSE "listed"]
      BY <2>2, <2>6 DEF AfterRows, Goto
    <2>8. Req(l, "unlist", s) \in InFlight(l)
      BY <2>2 DEF InFlight, Target, Ops, Waits
    <2>9. pc' \in [Tasks -> Labels]
      BY <1>0, <2>7 DEF TypeOK, Labels, Ended
    <2>10. stale'[l] = [stale[l] EXCEPT ![s] = stale[l][s] - 1]
      BY <2>1 DEF TypeOK
    <2>11. Frame(l) /\ Control(l) /\ Effect(l) /\ Types'
      BY <1>0, <2>1, <2>2, <2>5, <2>7, <2>8, <2>9
      DEF Frame, Control, Effect, Types, TypeOK, Ended, Idle
    <2> QED BY <1>0, <2>2, <2>3, <2>4, <2>7, <2>10, <2>11 DEF TypeOK
  <1> QED BY <1>1, <1>2, <1>3 DEF List

LEMMA GetterStep ==
    ASSUME TypeOK, PhaseInv, NEW g \in Getters, Get(g)
    PROVE  /\ Frame(g) /\ Control(g) /\ Effect(g) /\ Types' /\ late' = late
           /\ UNCHANGED <<db, top, ids, listed, stale, unread>>
           /\ \/ /\ pc[g] = "start" /\ Begin(g) /\ UNCHANGED cache
                 /\ \/ pc'[g] = "none" /\ UNCHANGED at
                    \/ /\ pc'[g] = "seed" /\ rec[Sid[g]] # None
                       /\ at'[g] = CurOr(rec[Sid[g]], 0)
              \/ /\ pc[g] = "seed" /\ pc'[g] = "got" /\ UNCHANGED at
                 /\ cache'[Proc[g]][Sid[g]] = at[g]
  <1>0. g \in OnSession /\ g \in Tasks /\ Sid[g] \in Sids /\ Proc[g] \in Processes
    BY Kinds
  <1>1. CASE GetRead(g)
    <2>1. CurOr(rec[Sid[g]], 0) \in Nat \/ rec[Sid[g]] = None
      BY <1>0, NoneFacts DEF TypeOK, CurOr
    <2>2. at' \in [Tasks -> Nat] /\ \A u \in Tasks \ {g} : at'[u] = at[u]
      BY <1>0, <1>1, <2>1 DEF GetRead, TypeOK
    <2> QED
      BY <1>0, <1>1, <2>1, <2>2, BeginFacts
      DEF GetRead, Frame, Control, Effect, Types, TypeOK, Goto, Labels, Ended, Idle, own, past
  <1>2. CASE GetSeed(g)
    BY <1>0, <1>2
    DEF GetSeed, CacheWrite, SetCache, Frame, Control, Effect, Types, TypeOK, Goto,
        Labels, Ended, Idle, own, past
  <1> QED BY <1>1, <1>2 DEF Get

LEMMA BumpFacts ==
    ASSUME TypeOK, NEW s \in Sids, NEW n \in Nat, Bump(s, n)
    PROVE  /\ rec' = [rec EXCEPT ![s] = rec'[s]] /\ UNCHANGED <<segs, manifest>>
           /\ \/ rec[s] # None /\ rec[s].cur = n /\ rec'[s] = [cur |-> n + 1, owner |-> rec[s].owner]
              \/ rec[s] = None /\ rec'[s] = [cur |-> 1, owner |-> None]
  BY DEF TypeOK, Bump, SetRec

\* The coroutine of an append writes the cache.
LEMMA CacheWriteStep ==
    ASSUME TypeOK, NEW t \in Appenders, NEW from \in Labels \ (Ended \cup Idle),
           NEW to \in Labels \ Idle, CacheWrite(t, from, to)
    PROVE  /\ Frame(t) /\ Control(t) /\ Effect(t) /\ Types' /\ late' = late
           /\ UNCHANGED <<top, ids, listed, stale, unread>>
           /\ pc[t] = from /\ pc'[t] = to /\ UNCHANGED <<db, at>>
           /\ cache'[Proc[t]][Sid[t]] = at[t]
  <1>0. t \in OnSession /\ t \in Tasks /\ Sid[t] \in Sids /\ Proc[t] \in Processes
    BY Kinds
  <1> QED
    BY <1>0 DEF CacheWrite, SetCache, Frame, Control, Effect, Types, TypeOK, Goto, own, past

AppenderMoves(t) ==
    \/ /\ pc[t] = "start" /\ Begin(t) /\ Handed(Sid[t]) /\ UNCHANGED <<db, cache>>
       /\ Sid[t] \in Sequential => Identified(rec[Sid[t]])
       /\ \/ /\ pc'[t] \in {"put", "batch"}
             /\ cache[Proc[t]][Sid[t]] # None /\ at'[t] = cache[Proc[t]][Sid[t]]
          \/ /\ pc'[t] = "selected"
             /\ at'[t] = IF rec[Sid[t]] = None THEN 0 ELSE CurOr(rec[Sid[t]], 0)
    \/ /\ \/ pc[t] \in {"selected", "rolled"} /\ pc'[t] \in {"put", "batch"}
          \/ pc[t] = "placed" /\ pc'[t] = "acked"
       /\ UNCHANGED <<db, at>> /\ cache'[Proc[t]][Sid[t]] = at[t]
    \/ /\ \/ pc[t] = "batch" /\ pc'[t] = "put"
          \/ pc[t] = "state" /\ pc'[t] = "placed"
       /\ WriteState(Sid[t]) /\ UNCHANGED <<at, cache>>
    \/ /\ \/ pc[t] = "put" /\ pc'[t] = "placed"
          \/ pc[t] = "batch" /\ pc'[t] = "state"
       /\ map_put(Sid[t], at[t], t) /\ UNCHANGED <<at, cache>>
    \/ pc[t] = "put" /\ pc'[t] \in {"size", "roll"} /\ UNCHANGED <<db, at, cache>>
    \/ pc[t] = "size" /\ pc'[t] \in {"roll", "failed"} /\ UNCHANGED <<db, at, cache>>
    \/ /\ pc[t] = "roll" /\ pc'[t] = "rolled" /\ Bump(Sid[t], at[t])
       /\ at'[t] = rec'[Sid[t]].cur /\ UNCHANGED cache
    \/ pc[t] = "roll" /\ pc'[t] = "reread" /\ UNCHANGED <<db, at, cache>>
    \/ /\ pc[t] = "reread" /\ UNCHANGED <<db, cache>>
       /\ \/ pc'[t] = "rolled" /\ rec[Sid[t]] # None /\ at'[t] = CurOr(rec[Sid[t]], at[t] + 1)
          \/ pc'[t] = "failed" /\ UNCHANGED at

LEMMA AppenderStep ==
    ASSUME TypeOK, PhaseInv, NEW t \in Appenders, AppendEvent(t)
    PROVE  /\ Frame(t) /\ Control(t) /\ Effect(t) /\ Types' /\ late' = late
           /\ UNCHANGED <<top, ids, listed, stale, unread>>
           /\ AppenderMoves(t)
  <1>0. /\ t \in OnSession /\ t \in Tasks /\ Sid[t] \in Sids /\ Proc[t] \in Processes
        /\ t \notin Listers /\ t \notin Deleters
    BY Kinds
  <1>w. Writes(t) \in {"put", "batch"}
    BY DEF Writes
  <1>c. rec[Sid[t]] # None => /\ CurOr(rec[Sid[t]], 0) \in Nat
                              /\ CurOr(rec[Sid[t]], at[t] + 1) \in Nat
    BY <1>0, NoneFacts DEF TypeOK, CurOr
  <1>1. CASE CurrentSegment(t)
    <2>1. /\ pc[t] = "start" /\ Begin(t) /\ Handed(Sid[t])
          /\ Sid[t] \in Sequential => Identified(rec[Sid[t]])
          /\ UNCHANGED <<db, cache, top, ids, listed, stale, late, unread, faults>>
      BY <1>1 DEF CurrentSegment, Begin, own, past
    <2>2. PICK n : /\ at' = [at EXCEPT ![t] = n]
                   /\ \/ /\ cache[Proc[t]][Sid[t]] # None /\ n = cache[Proc[t]][Sid[t]]
                         /\ Goto(t, Writes(t))
                      \/ /\ n = IF rec[Sid[t]] = None THEN 0 ELSE CurOr(rec[Sid[t]], 0)
                         /\ Goto(t, "selected")
      BY <1>1 DEF CurrentSegment
    <2>3. n \in Nat
      BY <1>0, <1>c, <2>2 DEF TypeOK
    <2>4. pc' = [pc EXCEPT ![t] = pc'[t]] /\ pc'[t] \in {"put", "batch", "selected"}
      BY <1>0, <1>w, <2>2 DEF Goto, TypeOK
    <2>5. AppenderMoves(t)
      BY <1>0, <1>w, <2>1, <2>2 DEF AppenderMoves, Goto, TypeOK
    <2> QED
      BY <1>0, <2>1, <2>2, <2>3, <2>4, <2>5, BeginFacts
      DEF Frame, Control, Effect, Types, TypeOK, Labels, Ended, Idle
  <1>2. CASE CacheSelected(t)
    BY <1>2, <1>w, CacheWriteStep DEF CacheSelected, Labels, Ended, Idle, AppenderMoves
  <1>3. CASE BatchState(t)
    <2>1. /\ Apply(Req(t, "state", Sid[t]))
          /\ \/ pc[t] = "batch" /\ Goto(t, "put")
             \/ pc[t] = "state" /\ Goto(t, "placed")
          /\ UNCHANGED <<cache, at, top, ids, listed, stale, seen, late, unread, faults>>
      BY <1>3 DEF BatchState, own, past
    <2>2. Req(t, "state", Sid[t]) \in InFlight(t)
      BY <1>0, <2>1, InFlightReq DEF Ops, Waits
    <2>3. WriteState(Sid[t])
      BY <2>1 DEF Apply, Req
    <2> QED
      BY <1>0, <2>1, <2>2, <2>3
      DEF AppenderMoves, Goto, Frame, Control, Effect, Types, TypeOK, Labels, Ended, Idle
  <1>4. CASE PutEvent(t)
    <2>1. UNCHANGED <<cache, at, top, ids, listed, stale, seen, late, unread, faults>>
      BY <1>4 DEF PutEvent, own, past
    <2>2. CASE /\ Apply(Req(t, "put", Sid[t]))
               /\ \/ pc[t] = "put" /\ Goto(t, "placed")
                  \/ pc[t] = "batch" /\ Goto(t, "state")
      <3>1. Req(t, "put", Sid[t]) \in InFlight(t)
        BY <1>0, <2>2, InFlightReq DEF Ops, Waits
      <3>2. map_put(Sid[t], at[t], t)
        BY <2>2 DEF Apply, Req
      <3> QED
        BY <1>0, <2>1, <2>2, <3>1, <3>2
        DEF AppenderMoves, Goto, Frame, Control, Effect, Types, TypeOK, Labels, Ended, Idle
    <2>3. CASE pc[t] = "put" /\ (Goto(t, "size") \/ Goto(t, "roll")) /\ UNCHANGED db
      BY <1>0, <2>1, <2>3
      DEF AppenderMoves, Goto, Frame, Control, Effect, Types, TypeOK, Labels, Ended, Idle
    <2> QED BY <1>4, <2>2, <2>3 DEF PutEvent
  <1>5. CASE CachePlaced(t)
    BY <1>5, CacheWriteStep DEF CachePlaced, Labels, Ended, Idle, AppenderMoves
  <1>6. CASE RollBump(t)
    <2>1. /\ pc[t] = "roll"
          /\ UNCHANGED <<cache, top, ids, listed, stale, seen, late, unread, faults>>
      BY <1>6 DEF RollBump, own, past
    <2>2. CASE /\ Apply(Req(t, "bump", Sid[t])) /\ at' = [at EXCEPT ![t] = rec'[Sid[t]].cur]
               /\ Goto(t, "rolled")
      <3>1. Req(t, "bump", Sid[t]) \in InFlight(t)
        BY <1>0, <2>1, InFlightReq DEF Ops, Waits
      <3>2. Bump(Sid[t], at[t])
        BY <2>2 DEF Apply, Req
      <3>3. rec'[Sid[t]].cur \in Nat
        <4>1. at[t] \in Nat
          BY <1>0 DEF TypeOK
        <4>2. \/ rec'[Sid[t]] = [cur |-> at[t] + 1, owner |-> rec[Sid[t]].owner]
              \/ rec'[Sid[t]] = [cur |-> 1, owner |-> None]
          BY <1>0, <3>2, <4>1, BumpFacts
        <4> QED BY <4>1, <4>2
      <3> QED
        BY <1>0, <2>1, <2>2, <3>1, <3>2, <3>3
        DEF AppenderMoves, Goto, Frame, Control, Effect, Types, TypeOK, Labels, Ended, Idle
    <2>3. CASE Goto(t, "reread") /\ UNCHANGED <<db, at>>
      BY <1>0, <2>1, <2>3
      DEF AppenderMoves, Goto, Frame, Control, Effect, Types, TypeOK, Labels, Ended, Idle
    <2> QED BY <1>6, <2>2, <2>3 DEF RollBump
  <1>7. CASE RollReread(t)
    <2>1. /\ pc[t] = "reread"
          /\ UNCHANGED <<db, cache, top, ids, listed, stale, seen, late, unread, faults>>
      BY <1>7 DEF RollReread, own, past
    <2>2. CASE /\ rec[Sid[t]] # None /\ at' = [at EXCEPT ![t] = CurOr(rec[Sid[t]], at[t] + 1)]
               /\ Goto(t, "rolled")
      BY <1>0, <1>c, <2>1, <2>2
      DEF AppenderMoves, Goto, Frame, Control, Effect, Types, TypeOK, Labels, Ended, Idle
    <2>3. CASE Goto(t, "failed") /\ UNCHANGED at
      BY <1>0, <2>1, <2>3
      DEF AppenderMoves, Goto, Frame, Control, Effect, Types, TypeOK, Labels, Ended, Idle
    <2> QED BY <1>7, <2>2, <2>3 DEF RollReread
  <1>8. CASE CacheRolled(t)
    BY <1>8, CacheWriteStep DEF CacheRolled, Labels, Ended, Idle, AppenderMoves
  <1>9. CASE SegmentSize(t)
    <2>1. /\ pc[t] = "size" /\ (Goto(t, "failed") \/ Goto(t, "roll"))
          /\ UNCHANGED <<db, at, cache, top, ids, listed, stale, seen, late, unread, faults>>
      BY <1>9 DEF SegmentSize, own, past
    <2> QED
      BY <1>0, <2>1
      DEF AppenderMoves, Goto, Frame, Control, Effect, Types, TypeOK, Labels, Ended, Idle
  <1> QED
    BY <1>1, <1>2, <1>3, <1>4, <1>5, <1>6, <1>7, <1>8, <1>9 DEF AppendEvent

\* A call fails, with or without the effect of its request.
Fails(t) ==
    /\ pc'[t] = "failed" /\ UNCHANGED <<cache, at, top, ids, listed, stale, unread>>
    /\ \/ pc[t] \notin Idle /\ UNCHANGED seen
       \/ t \in Creators /\ Begin(t) /\ MayCreate(Sid[t])

LEMMA UnansweredEffect ==
    ASSUME NEW t, Unanswered(t)
    PROVE  /\ UNCHANGED db \/ \E q \in InFlight(t) : Apply(q)
           /\ \/ late' = late
              \/ \E q \in InFlight(t) :
                    q.sid \in Late /\ late' = late \cup {q} /\ UNCHANGED db
           /\ faults < MaxFaults /\ faults' = faults + 1
  BY DEF Unanswered

LEMMA FailStep ==
    ASSUME TypeOK, PhaseInv, NEW t \in Tasks, CallFails(t)
    PROVE  Frame(t) /\ Control(t) /\ Effect(t) /\ Types' /\ Fails(t)
  <1>1. /\ \/ pc[t] \notin Ended \cup Idle /\ UNCHANGED seen
           \/ t \in Creators /\ Begin(t) /\ MayCreate(Sid[t])
        /\ pc' = [pc EXCEPT ![t] = "failed"]
        /\ UNCHANGED <<cache, at, top, ids, listed, stale, unread>>
    BY DEF CallFails, Goto, own
  <1>2. Unanswered(t)
    BY DEF CallFails
  <1>3. faults' \in 0..MaxFaults
    BY <1>2, UnansweredEffect, LifecycleAssumption DEF TypeOK
  <1>4. Begin(t) => pc[t] = "start"
    BY DEF Begin
  <1>5. Effect(t)
    BY <1>1, <1>2, UnansweredEffect DEF Effect, TypeOK
  <1> QED
    BY <1>1, <1>3, <1>4, <1>5, BeginFacts
    DEF Fails, Frame, Control, Types, TypeOK, Labels, Ended, Idle

LEMMA RetryStep ==
    ASSUME TypeOK, PhaseInv, NEW t \in Appenders, Retry(t)
    PROVE  /\ Frame(t) /\ Control(t) /\ Effect(t) /\ Types'
           /\ UNCHANGED <<cache, pc, at, top, ids, listed, stale, seen, unread>>
           /\ pc[t] \in {"put", "batch", "roll"}
  <1>0. t \in Tasks
    BY Kinds
  <1>1. /\ UNCHANGED <<cache, pc, at, top, ids, listed, stale, seen, unread>>
        /\ pc[t] \in {"put", "batch", "roll"} /\ Unanswered(t)
    BY DEF Retry, own
  <1>2. faults' \in 0..MaxFaults
    BY <1>1, UnansweredEffect, LifecycleAssumption DEF TypeOK
  <1>3. Effect(t)
    BY <1>1, UnansweredEffect DEF Effect
  <1> QED
    BY <1>0, <1>1, <1>2, <1>3 DEF Frame, Control, Types, TypeOK, Ended, Idle

LEMMA UnreadStep ==
    ASSUME TypeOK, PhaseInv, NEW t \in Tasks, RecordUnread(t)
    PROVE  /\ Frame(t) /\ Control(t) /\ Effect(t) /\ Types' /\ late' = late
           /\ UNCHANGED <<db, cache, at, top>>
           /\ \/ /\ t \in Listers /\ UNCHANGED seen
                 /\ \E s \in Sids : LookedUp(t, s, FALSE) /\ unread' = unread \cup {s}
              \/ /\ t \in Getters /\ Begin(t) /\ pc'[t] = "none"
                 /\ UNCHANGED <<ids, listed, stale, unread>>
  <1>1. UNCHANGED <<db, cache, at, top, late>> /\ faults' \in 0..MaxFaults
    BY LifecycleAssumption DEF RecordUnread, TypeOK
  <1>2. CASE t \in Listers /\ UNCHANGED seen
             /\ \E s \in Sids : LookUp(t, s, FALSE) /\ unread' = unread \cup {s}
    <2>1. PICK s \in Sids : LookUp(t, s, FALSE) /\ unread' = unread \cup {s}
      BY <1>2
    <2>2. unread \subseteq unread' /\ unread' \subseteq Sids
      BY <2>1 DEF TypeOK
    <2>3. Frame(t) /\ Control(t) /\ Effect(t) /\ Types' /\ LookedUp(t, s, FALSE)
      BY <1>1, <1>2, <2>1, <2>2, LookUpStep
    <2> QED BY <1>1, <1>2, <2>1, <2>3
  <1>3. CASE t \in Getters /\ Begin(t) /\ Goto(t, "none") /\ UNCHANGED <<ids, listed, stale, unread>>
    <2>1. pc[t] = "start" /\ pc' = [pc EXCEPT ![t] = "none"] /\ t \notin Appenders
      BY <1>3, Kinds DEF Begin, Goto
    <2>2. pc'[t] = "none" /\ Frame(t) /\ Types'
      BY <1>1, <1>3, <2>1, BeginFacts DEF Frame, Types, TypeOK, Labels, Ended
    <2> QED BY <1>1, <1>3, <2>1, <2>2 DEF Control, Effect, Ended, Idle
  <1> QED BY <1>2, <1>3 DEF RecordUnread

LEMMA StepFrame ==
    ASSUME TypeOK, PhaseInv, NEW t \in Tasks, Step(t)
    PROVE  Frame(t) /\ Control(t) /\ Effect(t) /\ Types'
  BY CreatorStep, DeleterStep, ListerStep, GetterStep, AppenderStep, RetryStep, FailStep,
     UnreadStep DEF Step

-----------------------------------------------------------------------------
(* Types and control.                                                      *)

LEMMA TypeParts == TypeOK <=> DbOK /\ Types /\ late \subseteq Requests
  BY DEF TypeOK, DbOK, Types

\* A request that calls of its kind send.
Wellformed(q) ==
    /\ q \in Requests
    /\ q.op = "create" => q.by \in Creators /\ Sid[q.by] = q.sid
    /\ q.op = "put" => q.by \in Appenders /\ Sid[q.by] = q.sid

LEMMA RequestsWellformed ==
    ASSUME TypeOK, PhaseInv
    PROVE  /\ \A t \in Tasks : \A q \in InFlight(t) : Wellformed(q)
           /\ LateInv => \A q \in late : Wellformed(q)
  <1>1. ASSUME NEW t \in Tasks, NEW q \in InFlight(t) PROVE Wellformed(q)
    BY InFlightFacts, Kinds DEF Wellformed
  <1>2. ASSUME LateInv, NEW q \in late PROVE Wellformed(q)
    BY <1>2 DEF LateInv, Sent, Wellformed, TypeOK
  <1> QED BY <1>1, <1>2

\* Records keep their owner until they are removed.
LEMMA ApplyOwner ==
    ASSUME DbOK, OwnerInv, NEW q, Wellformed(q), Apply(q)
    PROVE  DbOK' /\ OwnerInv'
  <1>0. q \in Requests /\ q.sid \in Sids /\ q.gidx \in Nat
    BY DEF Wellformed, Requests
  <1>1. DbOK'
    BY <1>0, ApplyTypes DEF Wellformed
  <1>2. CASE q.op = "create" /\ SetRec(q.sid, [cur |-> 0, owner |-> q.by])
    BY <1>0, <1>1, <1>2 DEF SetRec, OwnerInv, Wellformed, DbOK, Identified
  <1>3. CASE \E n \in Nat : SetEntries(q.sid, n)
    BY <1>1, <1>3 DEF SetEntries, OwnerInv
  <1>4. CASE RemoveSegment(q.sid, q.gidx)
    BY <1>1, <1>4 DEF RemoveSegment, OwnerInv
  <1>5. CASE SetRec(q.sid, None)
    BY <1>0, <1>1, <1>5 DEF SetRec, OwnerInv, DbOK, Identified
  <1>6. CASE WriteState(q.sid)
    BY <1>0, <1>1, <1>6 DEF WriteState, SetRec, OwnerInv, DbOK, Identified, db
  <1>7. CASE q.op = "put" /\ map_put(q.sid, q.gidx, q.by)
    BY <1>1, <1>7 DEF map_put, OwnerInv, Wellformed
  <1>8. CASE Bump(q.sid, q.gidx)
    BY <1>0, <1>1, <1>8 DEF Bump, SetRec, OwnerInv, DbOK, Identified
  <1>9. manifest[q.sid] + 1 \in Nat
    BY <1>0 DEF DbOK, Entries
  <1> QED BY <1>1, <1>2, <1>3, <1>4, <1>5, <1>6, <1>7, <1>8, <1>9, ApplyCases

LEMMA PhaseStep ==
    ASSUME TypeOK, PhaseInv, NEW t \in Tasks, Step(t)
    PROVE  PhaseInv'
  <1>1. \A u \in Tasks \ {t} : pc'[u] = pc[u]
    BY StepFrame DEF Frame
  <1>2. CASE t \in Creators
    <2>1. pc'[t] \in {"seed", "add", "created", "exists", "failed"}
      BY <1>2, Kinds, CreatorStep, FailStep, UnreadStep DEF Step, Fails
    <2> QED BY <1>1, <1>2, <2>1, Kinds DEF PhaseInv
  <1>3. CASE t \in Deleters
    <2>1. pc'[t] \in {"segments", "record", "pop", "unlist", "deleted", "failed"}
      BY <1>3, Kinds, DeleterStep, FailStep, UnreadStep DEF Step, Fails
    <2> QED BY <1>1, <1>3, <2>1, Kinds DEF PhaseInv
  <1>4. CASE t \in Listers
    <2>1. pc'[t] \in {"rows", "prune", "listed", "failed"}
      BY <1>4, Kinds, ListerStep, FailStep, UnreadStep DEF Step, Fails, LookedUp
    <2> QED BY <1>1, <1>4, <2>1, Kinds DEF PhaseInv
  <1>5. CASE t \in Getters
    <2>1. pc'[t] \in {"seed", "got", "none", "failed"}
      BY <1>5, Kinds, GetterStep, FailStep, UnreadStep DEF Step, Fails
    <2> QED BY <1>1, <1>5, <2>1, Kinds DEF PhaseInv
  <1>6. CASE t \in Appenders
    <2>1. AppendEvent(t) \/ Retry(t) \/ CallFails(t)
      BY <1>6, Kinds DEF Step, RecordUnread
    <2>2. pc'[t] \in {"selected", "batch", "state", "put", "size", "placed", "roll", "reread", "rolled",
                      "acked", "failed"}
      BY <1>6, <2>1, AppenderStep, RetryStep, FailStep DEF AppenderMoves, Fails
    <2> QED BY <1>1, <1>6, <2>2, Kinds DEF PhaseInv
  <1> QED BY <1>2, <1>3, <1>4, <1>5, <1>6, Kinds

LEMMA ControlInit == Init => ControlInv
  <1> SUFFICES ASSUME Init PROVE ControlInv
    OBVIOUS
  <1>1. TypeOK
    BY LifecycleAssumption
    DEF Init, TypeOK, NoEntries, Entries, Labels, Idle
  <1>2. \A t \in Tasks : pc[t] \in Idle
    BY DEF Init, Idle
  <1>3. PhaseInv
    BY <1>2, Kinds DEF PhaseInv
  <1> QED
    BY <1>1, <1>3, Kinds DEF Init, ControlInv, SeenInv, OwnerInv, LateInv, Identified

LEMMA ControlStep ==
    ASSUME ControlInv, NEW t \in Tasks, Step(t)
    PROVE  ControlInv'
  <1>0. TypeOK /\ PhaseInv /\ SeenInv /\ OwnerInv /\ LateInv
    BY DEF ControlInv
  <1>1. Frame(t) /\ Control(t) /\ Effect(t) /\ Types'
    BY <1>0, StepFrame
  <1>2. DbOK' /\ OwnerInv'
    <2>1. CASE UNCHANGED db
      BY <1>0, <2>1, TypeParts DEF db, DbOK, OwnerInv
    <2>2. CASE \E q \in InFlight(t) : Apply(q)
      BY <1>0, <2>2, TypeParts, RequestsWellformed, ApplyOwner
    <2> QED BY <1>1, <2>1, <2>2 DEF Effect
  <1>3. TypeOK'
    <2>1. late' \subseteq Requests
      BY <1>0, <1>1, InFlightFacts, TypeParts DEF Effect
    <2> QED BY <1>1, <1>2, <2>1 DEF TypeOK, DbOK, Types
  <1>4. PhaseInv'
    BY <1>0, PhaseStep
  <1>5. /\ \A u \in Tasks : pc[u] \in Ended => pc'[u] = pc[u]
        /\ \A u \in Tasks : pc'[u] \in Idle => u # t /\ pc[u] \in Idle
    BY <1>1 DEF Frame, Control
  <1>6. SeenInv'
    <2>1. \A u \in Tasks : u # t \/ pc[t] \notin Idle => seen'[u] = seen[u]
      BY <1>1 DEF Frame, Control
    <2>2. pc[t] \in Idle => \A u \in seen'[t] : u \in OnSession /\ pc[u] \in Ended
                                                /\ (t \in OnSession => Sid[u] = Sid[t])
      BY <1>0, <1>1, BeginFacts DEF Control
    <2>3. \A u \in Tasks : \A v \in seen'[u] : v \in OnSession /\ pc[v] \in Ended
                                               /\ (u \in OnSession => Sid[v] = Sid[u])
      BY <1>0, <2>1, <2>2 DEF SeenInv
    <2>4. \A u \in Tasks : \A v \in seen'[u] : pc'[v] \in Ended
      BY <1>5, <2>3, Kinds
    <2>5. \A l \in Listers : pc'[l] \in Idle => listed'[l] = {} /\ stale'[l] = NoEntries
      BY <1>0, <1>1, <1>5, Kinds DEF SeenInv, Frame
    <2>6. \A u \in Tasks : pc'[u] \in Idle => seen'[u] = {}
      BY <1>0, <1>5, <2>1 DEF SeenInv
    <2> QED BY <2>3, <2>4, <2>5, <2>6, Kinds DEF SeenInv, NoEntries
  <1>7. LateInv'
    <2>1. ASSUME NEW q \in late PROVE Sent(q)'
      <3>1. Sent(q) /\ q.by \in Tasks
        BY <1>0 DEF LateInv, TypeOK, Requests
      <3> QED BY <1>5, <3>1 DEF Sent, Ended
    <2>2. ASSUME NEW q \in InFlight(t), q.sid \in Late,
                 pc'[t] = "failed" \/ (t \in Appenders /\ pc'[t] = pc[t])
          PROVE  Sent(q)'
      <3>1. pc'[t] \notin Idle
        BY <1>1 DEF Control
      <3> QED
        BY <1>0, <2>2, <3>1, InFlightFacts, Kinds DEF Sent
    <2> QED BY <1>1, <2>1, <2>2 DEF LateInv, Effect
  <1> QED BY <1>2, <1>3, <1>4, <1>6, <1>7 DEF ControlInv

LEMMA ControlLate ==
    ASSUME ControlInv, NEW q \in late, ApplyLate(q)
    PROVE  ControlInv'
  <1>0. TypeOK /\ PhaseInv /\ SeenInv /\ OwnerInv /\ LateInv
    BY DEF ControlInv
  <1>1. /\ Apply(q) /\ late' = late \ {q}
        /\ UNCHANGED <<cache, pc, at, top, ids, listed, stale, seen, unread, faults>>
    BY DEF ApplyLate, own, past
  <1>2. DbOK' /\ OwnerInv'
    BY <1>0, <1>1, RequestsWellformed, ApplyOwner, TypeParts
  <1>3. TypeOK'
    BY <1>0, <1>1, <1>2 DEF TypeOK, DbOK, Types
  <1>4. PhaseInv' /\ SeenInv'
    BY <1>0, <1>1 DEF PhaseInv, SeenInv, NoEntries
  <1>5. LateInv'
    BY <1>0, <1>1 DEF LateInv, Sent
  <1> QED BY <1>2, <1>3, <1>4, <1>5 DEF ControlInv

LEMMA ControlNext == ControlInv /\ [Next]_vars => ControlInv'
  <1>1. ControlInv /\ UNCHANGED vars => ControlInv'
    BY DEF ControlInv, vars, db, own, past, TypeOK, PhaseInv, SeenInv, OwnerInv, LateInv, Sent,
           NoEntries
  <1> QED BY <1>1, NextSteps, ControlStep, ControlLate

LEMMA ControlCorrect == Spec => []ControlInv
  BY ControlInit, ControlNext, PTL DEF Spec

\* Every variable keeps its type, for any number of calls and faults.
THEOREM LifecycleTypes == Spec => []TypeOK
  <1>1. ControlInv => TypeOK
    BY DEF ControlInv
  <1> QED BY <1>1, ControlCorrect, PTL

-----------------------------------------------------------------------------
(* What a step may do to a session.                                        *)

\* A request that the server may apply, at once or late.
Allowed(q) ==
    /\ Wellformed(q)
    /\ q.op \in {"create", "add"} => q.by \in Creators /\ Sid[q.by] = q.sid
    /\ q.op \in {"segment", "record"} =>
          q.by \in Deleters /\ Sid[q.by] = q.sid /\ pc[q.by] \notin Idle
    /\ q.op = "unlist" =>
          \/ q.by \in Deleters /\ Sid[q.by] = q.sid /\ pc[q.by] \notin Idle
          \/ q.by \in Listers
    /\ q.op \in {"put", "state", "bump"} =>
          q.by \in Appenders /\ Sid[q.by] = q.sid /\ pc[q.by] \notin Idle

LEMMA RequestsAllowed ==
    ASSUME ControlInv
    PROVE  /\ \A t \in Tasks : \A q \in InFlight(t) : Allowed(q)
           /\ \A q \in late : Allowed(q)
  <1>0. TypeOK /\ PhaseInv /\ LateInv
    BY DEF ControlInv
  <1>1. ASSUME NEW t \in Tasks, NEW q \in InFlight(t) PROVE Allowed(q)
    <2>1. Wellformed(q)
      BY <1>0, RequestsWellformed
    <2> QED BY <1>0, <2>1, InFlightFacts, Kinds DEF Allowed, Idle
  <1>2. ASSUME NEW q \in late PROVE Allowed(q)
    <2>1. Wellformed(q)
      BY <1>0, RequestsWellformed
    <2> QED BY <1>0, <1>2, <2>1 DEF Allowed, LateInv, Sent, Idle
  <1> QED BY <1>1, <1>2

\* A request touches its session only.
LEMMA ApplyElsewhere ==
    ASSUME DbOK, NEW q \in Requests, Apply(q), NEW s \in Sids, s # q.sid
    PROVE  /\ rec'[s] = rec[s] /\ manifest'[s] = manifest[s]
           /\ \A x : x.sid = s => (x \in segs' <=> x \in segs)
  <1>0. q.sid \in Sids
    BY DEF Requests
  <1>1. CASE SetRec(q.sid, [cur |-> 0, owner |-> q.by]) \/ SetRec(q.sid, None)
    BY <1>0, <1>1 DEF SetRec, DbOK
  <1>2. CASE SetEntries(q.sid, manifest[q.sid] + 1) \/ SetEntries(q.sid, 0)
    BY <1>0, <1>2 DEF SetEntries, DbOK, Entries
  <1>3. CASE RemoveSegment(q.sid, q.gidx)
    BY <1>3 DEF RemoveSegment, Segment
  <1>4. CASE WriteState(q.sid)
    BY <1>0, <1>4 DEF WriteState, SetRec, DbOK, db
  <1>5. CASE map_put(q.sid, q.gidx, q.by)
    BY <1>5 DEF map_put
  <1>6. CASE Bump(q.sid, q.gidx)
    BY <1>0, <1>6 DEF Bump, SetRec, DbOK
  <1> QED BY <1>1, <1>2, <1>3, <1>4, <1>5, <1>6, ApplyCases

\* What the service knows of session s, its manifest entries aside, is as before.
Same(s) ==
    /\ rec'[s] = rec[s]
    /\ \A x : x.sid = s => (x \in segs' <=> x \in segs)
    /\ \A p \in Processes : cache'[p][s] = cache[p][s]
    /\ \A u \in OnSession : Sid[u] = s => pc'[u] = pc[u] /\ at'[u] = at[u] /\ seen'[u] = seen[u]
    /\ \A d \in Deleters : Sid[d] = s => top'[d] = top[d]

LEMMA StepElsewhere ==
    ASSUME ControlInv, NEW t \in OnSession, Step(t), NEW s \in Sids, s # Sid[t]
    PROVE  /\ Same(s) /\ manifest'[s] = manifest[s]
           /\ \A q : q.sid = s => (q \in late' <=> q \in late)
           /\ UNCHANGED <<ids, listed, stale>>
  <1>0. TypeOK /\ PhaseInv /\ t \in Tasks /\ t \notin Listers /\ DbOK
    BY Kinds, TypeParts DEF ControlInv
  <1>1. Frame(t) /\ Effect(t)
    BY <1>0, StepFrame
  <1>2. \A q \in InFlight(t) : q \in Requests /\ q.sid = Sid[t]
    BY <1>0, InFlightFacts
  <1>3. /\ rec'[s] = rec[s] /\ manifest'[s] = manifest[s]
        /\ \A x : x.sid = s => (x \in segs' <=> x \in segs)
    BY <1>0, <1>1, <1>2, ApplyElsewhere DEF Effect, db
  <1>4. \A q : q.sid = s => (q \in late' <=> q \in late)
    BY <1>1, <1>2 DEF Effect
  <1>5. UNCHANGED <<ids, listed, stale>>
    BY <1>0, Kinds, CreatorStep, DeleterStep, GetterStep, AppenderStep, RetryStep, FailStep,
       UnreadStep DEF Step, Fails
  <1>6. \A u \in OnSession : Sid[u] = s => pc'[u] = pc[u] /\ at'[u] = at[u] /\ seen'[u] = seen[u]
    BY <1>1, Kinds DEF Frame
  <1>7. \A d \in Deleters : Sid[d] = s => top'[d] = top[d]
    BY <1>1 DEF Frame
  <1>8. \A p \in Processes : cache'[p][s] = cache[p][s]
    BY <1>1 DEF Frame
  <1> QED BY <1>3, <1>4, <1>5, <1>6, <1>7, <1>8 DEF Same

\* A list changes manifest entries at most.
LEMMA ListSame ==
    ASSUME ControlInv, NEW l \in Listers, Step(l)
    PROVE  /\ UNCHANGED <<rec, segs, cache, at, top>>
           /\ \A s \in Sids : Same(s)
           /\ \A u \in OnSession : pc'[u] = pc[u] /\ seen'[u] = seen[u]
  <1>0. TypeOK /\ PhaseInv /\ l \in Tasks /\ l \notin OnSession
    BY Kinds DEF ControlInv
  <1>1. Frame(l) /\ Effect(l)
    BY <1>0, StepFrame
  <1>2. UNCHANGED <<rec, segs>>
    <2>1. ASSUME NEW q \in InFlight(l), Apply(q) PROVE UNCHANGED <<rec, segs>>
      <3>1. q.op = "unlist"
        BY <1>0, InFlightFacts
      <3> QED BY <2>1, <3>1, ApplyCases DEF SetEntries
    <2> QED BY <1>1, <2>1 DEF Effect, db
  <1>3. UNCHANGED <<cache, at, top>>
    BY <1>0, Kinds, ListerStep, FailStep, UnreadStep DEF Step, Fails
  <1>4. \A u \in OnSession : pc'[u] = pc[u] /\ seen'[u] = seen[u]
    BY <1>0, <1>1, Kinds DEF Frame
  <1> QED BY <1>2, <1>3, <1>4 DEF Same

\* So does a late request of another session.
LEMMA LateElsewhere ==
    ASSUME ControlInv, NEW q \in late, ApplyLate(q), NEW s \in Sids, s # q.sid
    PROVE  Same(s) /\ manifest'[s] = manifest[s]
  <1>0. DbOK /\ q \in Requests
    BY TypeParts DEF ControlInv, TypeOK
  <1>1. Apply(q) /\ UNCHANGED <<cache, pc, at, seen, top>>
    BY DEF ApplyLate, own
  <1> QED BY <1>0, <1>1, ApplyElsewhere DEF Same

\* A session is alive only if it was alive before, and its deletes do nothing.
LEMMA AliveStep ==
    ASSUME ControlInv, NEW t \in Tasks, Step(t), NEW s \in Sids, Alive(s)'
    PROVE  Alive(s) /\ ~(t \in Deleters /\ Sid[t] = s)
  <1>1. Frame(t) /\ Control(t)
    BY StepFrame DEF ControlInv
  <1> QED BY <1>1, Kinds DEF Alive, Frame, Control

\* The record of a session that is alive stays, and its cur never decreases.
LEMMA AliveRecord ==
    ASSUME DbOK, OwnerInv, NEW q, Allowed(q), Apply(q), NEW s \in Sids, Alive(s),
           Identified(rec[s])
    PROVE  /\ Identified(rec'[s]) /\ rec'[s].owner = rec[s].owner
           /\ rec[s].cur \in Nat /\ rec'[s].cur \in Nat /\ rec[s].cur <= rec'[s].cur
  <1>0. q \in Requests /\ q.sid \in Sids /\ q.gidx \in Nat /\ rec[s].cur \in Nat
    BY DEF Allowed, Wellformed, Requests, OwnerInv
  <1>1. CASE s # q.sid
    BY <1>0, <1>1, ApplyElsewhere
  <1>2. CASE s = q.sid
    <2>1. q.op # "record"
      BY <1>2 DEF Allowed, Alive
    <2>2. CASE SetEntries(q.sid, manifest[q.sid] + 1) \/ SetEntries(q.sid, 0)
               \/ RemoveSegment(q.sid, q.gidx) \/ map_put(q.sid, q.gidx, q.by)
      BY <1>0, <2>2 DEF SetEntries, RemoveSegment, map_put
    <2>3. CASE WriteState(q.sid)
      BY <1>0, <1>2, <2>3 DEF WriteState, db, Identified
    <2>4. CASE Bump(q.sid, q.gidx)
      <3>1. /\ rec[s].cur = q.gidx
            /\ rec' = [rec EXCEPT ![s] = [cur |-> q.gidx + 1, owner |-> rec[s].owner]]
        BY <1>2, <2>4 DEF Bump, SetRec, Identified
      <3>2. rec'[s] = [cur |-> q.gidx + 1, owner |-> rec[s].owner]
        BY <3>1 DEF DbOK
      <3>3. rec'[s] # None
        BY <1>0, <3>2, NoneFacts DEF DbOK, Records, Identified
      <3>4. rec'[s].cur = q.gidx + 1 /\ rec'[s].owner = rec[s].owner
        BY <3>2
      <3> QED BY <1>0, <3>1, <3>3, <3>4 DEF Identified
    <2> QED BY <1>2, <2>1, <2>2, <2>3, <2>4, ApplyCases DEF Identified
  <1> QED BY <1>1, <1>2

-----------------------------------------------------------------------------
(* Before the first delete.                                                *)

\* A session without traces gets its first one from a create.
LEMMA FirstTrace ==
    ASSUME ControlInv, NEW t \in Tasks, Step(t), NEW s \in Sids, Alive(s)', ~Traces(s),
           Traces(s)'
    PROVE  Identified(rec'[s])
  <1>0. TypeOK /\ PhaseInv /\ DbOK /\ SeenInv /\ LateInv
    BY TypeParts DEF ControlInv
  <1>1. Alive(s) /\ ~(t \in Deleters /\ Sid[t] = s)
    BY AliveStep
  <1>2. Frame(t) /\ Effect(t) /\ Control(t) /\ Types'
    BY <1>0, StepFrame
  <1>3. /\ rec[s] = None /\ manifest[s] = 0 /\ \A x \in segs : x.sid # s
        /\ \A p \in Processes : cache[p][s] = None
        /\ \A l \in Listers : ids[l][s] = 0
        /\ \A c \in Creators : Sid[c] = s => pc[c] \notin {"seed", "add", "created"}
        /\ \A g \in Getters : Sid[g] = s => pc[g] \notin {"seed", "got"}
        /\ \A u \in Appenders : Sid[u] = s => pc[u] \in Idle
        /\ \A q \in late : ~(q.sid = s /\ q.op = "add")
    BY <1>0 DEF Traces, TypeOK, Entries
  <1>4. CASE t \in OnSession /\ Sid[t] # s
    <2>1. /\ Same(s) /\ manifest'[s] = manifest[s]
          /\ \A q : q.sid = s => (q \in late' <=> q \in late)
          /\ UNCHANGED <<ids, listed, stale>>
      BY <1>4, StepElsewhere
    <2> QED BY <1>3, <2>1, Kinds DEF Traces, Same
  <1>5. CASE t \in Listers
    <2>1. /\ Same(s)
      BY <1>5, ListSame
    <2>2. manifest'[s] = 0
      <3>1. ASSUME NEW q \in InFlight(t), Apply(q) PROVE manifest'[s] = 0
        <4>1. q \in Requests /\ q.op = "unlist"
          BY <1>0, <1>5, InFlightFacts
        <4>2. SetEntries(q.sid, 0)
          BY <3>1, <4>1, ApplyCases
        <4> QED BY <1>0, <1>3, <4>2 DEF SetEntries, DbOK, Entries
      <3> QED BY <1>2, <1>3, <3>1 DEF Effect, db
    <2>3. ids'[t][s] = 0
      <3>1. CASE ids'[t] = manifest \/ ids'[t] = ids[t]
        BY <1>3, <1>5, <3>1
      <3>2. CASE \E r \in Sids, b \in BOOLEAN : LookedUp(t, r, b)
        BY <1>0, <1>3, <1>5, <3>2 DEF LookedUp, TypeOK, Entries
      <3>3. \A r : Identified(rec[r]) \in BOOLEAN
        BY DEF Identified
      <3>4. List(t) \/ RecordUnread(t) \/ CallFails(t)
        BY <1>5, Kinds DEF Step
      <3>5. CASE List(t)
        BY <1>0, <1>5, <3>1, <3>2, <3>3, <3>5, ListerStep
      <3>6. CASE RecordUnread(t)
        BY <1>0, <1>5, <3>2, <3>6, Kinds, UnreadStep
      <3>7. CASE CallFails(t)
        BY <1>0, <3>1, <3>7, FailStep DEF Fails
      <3> QED BY <3>4, <3>5, <3>6, <3>7
    <2>4. \A l \in Listers : ids'[l][s] = 0
      BY <1>2, <1>3, <2>3 DEF Frame
    <2>5. \A q \in late' : ~(q.sid = s /\ q.op = "add")
      BY <1>0, <1>2, <1>3, <1>5, InFlightFacts DEF Effect
    <2> QED BY <1>3, <2>1, <2>2, <2>4, <2>5, Kinds DEF Traces, Same
  <1>6. CASE t \in Creators /\ Sid[t] = s
    <2>1. CASE rec'[s] = [cur |-> 0, owner |-> t]
      BY <1>6, <2>1, NoneFacts DEF Identified, Records
    <2>2. CASE UNCHANGED <<db, cache, ids>> /\ pc'[t] \in {"exists", "failed"}
               /\ \A q \in late' : ~(q.sid = s /\ q.op = "add")
      BY <1>2, <1>3, <1>6, <2>2, Kinds DEF Traces, Frame, db
    <2>3. pc[t] \notin {"seed", "add"}
      BY <1>3, <1>6
    <2>4. CASE Create(t)
      <3>1. \/ SetRec(Sid[t], [cur |-> 0, owner |-> t])
            \/ pc'[t] = "exists" /\ UNCHANGED <<db, cache, ids>> /\ late' = late
        BY <1>0, <1>6, <2>3, <2>4, CreatorStep
      <3> QED BY <1>0, <1>3, <1>6, <2>1, <2>2, <3>1 DEF SetRec, DbOK
    <2>5. CASE CallFails(t)
      <3>1. pc'[t] = "failed" /\ UNCHANGED <<cache, ids>>
        BY <1>0, <2>5, FailStep DEF Fails
      <3>2. \A q \in InFlight(t) : q.op = "create" /\ q.sid = s /\ q.by = t
        BY <1>0, <1>6, <2>3, Kinds, InFlightFacts
      <3>3. CASE \E q \in InFlight(t) : Apply(q)
        BY <1>0, <1>6, <2>1, <3>2, <3>3, ApplyCases DEF SetRec, DbOK
      <3>4. \A q \in late' : ~(q.sid = s /\ q.op = "add")
        BY <1>2, <1>3, <3>2 DEF Effect
      <3> QED BY <1>2, <2>2, <3>1, <3>3, <3>4 DEF Effect
    <2> QED BY <1>6, <2>4, <2>5, Kinds DEF Step, RecordUnread
  <1>7. CASE t \in Getters /\ Sid[t] = s
    <2>1. UNCHANGED <<db, cache, ids>> /\ pc'[t] \in {"none", "failed"} /\ late' = late
      <3>1. InFlight(t) = {}
        BY <1>0, <1>7, InFlightFacts
      <3>2. UNCHANGED db /\ late' = late
        BY <1>2, <3>1 DEF Effect
      <3> QED
        BY <1>0, <1>3, <1>7, <3>2, Kinds, GetterStep, FailStep, UnreadStep DEF Step, Fails
    <2> QED BY <1>2, <1>3, <1>7, <2>1, Kinds DEF Traces, Frame, db
  <1>8. CASE t \in Appenders /\ Sid[t] = s
    <2>1. ~Handed(s)
      BY <1>3 DEF Handed
    <2>2. pc[t] \in Idle
      BY <1>3, <1>8
    <2>3. FALSE
      BY <1>0, <1>8, <2>1, <2>2, Kinds, AppenderStep, RetryStep, FailStep, UnreadStep
      DEF Step, Fails, AppenderMoves, Idle
    <2> QED BY <2>3
  <1> QED BY <1>1, <1>4, <1>5, <1>6, <1>7, <1>8, Kinds

LEMMA BornStep ==
    ASSUME ControlInv, BornInv, NEW t \in Tasks, Step(t)
    PROVE  BornInv'
  <1> SUFFICES ASSUME NEW s \in Sids, Alive(s)', Traces(s)'
               PROVE  Identified(rec'[s])
    BY DEF BornInv
  <1>0. TypeOK /\ PhaseInv /\ DbOK /\ OwnerInv
    BY TypeParts DEF ControlInv
  <1>1. Alive(s)
    BY AliveStep
  <1>2. CASE Traces(s)
    <2>1. Identified(rec[s])
      BY <1>1, <1>2 DEF BornInv
    <2>2. UNCHANGED db \/ \E q \in InFlight(t) : Apply(q)
      BY <1>0, StepFrame DEF Effect
    <2> QED BY <1>0, <1>1, <2>1, <2>2, RequestsAllowed, AliveRecord DEF db
  <1> QED BY <1>2, FirstTrace

LEMMA BornLate ==
    ASSUME ControlInv, BornInv, NEW q \in late, ApplyLate(q)
    PROVE  BornInv'
  <1> SUFFICES ASSUME NEW s \in Sids, Alive(s)', Traces(s)'
               PROVE  Identified(rec'[s])
    BY DEF BornInv
  <1>0. TypeOK /\ DbOK /\ OwnerInv /\ Allowed(q) /\ q \in Requests
    BY TypeParts, RequestsAllowed DEF ControlInv, TypeOK
  <1>1. /\ Apply(q) /\ late' = late \ {q}
        /\ UNCHANGED <<cache, pc, at, top, ids, listed, stale, seen>>
    BY DEF ApplyLate, own
  <1>2. Alive(s)
    BY <1>1 DEF Alive
  <1>3. CASE Traces(s)
    BY <1>0, <1>1, <1>2, <1>3, AliveRecord DEF BornInv
  <1>4. CASE ~Traces(s) /\ s # q.sid
    BY <1>1, <1>4, LateElsewhere DEF Traces, Same
  <1>5. CASE ~Traces(s) /\ s = q.sid
    <2>1. q.op \notin {"add", "put", "state", "bump", "segment", "record"}
      BY <1>0, <1>2, <1>5 DEF Traces, Allowed, Alive
    <2>2. CASE SetEntries(q.sid, 0)
      BY <1>0, <1>1, <1>5, <2>2 DEF SetEntries, DbOK, Entries, Traces
    <2>3. CASE q.op = "create" /\ SetRec(q.sid, [cur |-> 0, owner |-> q.by])
      <3>1. rec'[s] = [cur |-> 0, owner |-> q.by] /\ q.by \in Creators
        BY <1>0, <1>5, <2>3 DEF SetRec, DbOK, Allowed
      <3> QED BY <3>1, NoneFacts DEF Identified, Records
    <2> QED BY <1>1, <2>1, <2>2, <2>3, ApplyCases
  <1> QED BY <1>3, <1>4, <1>5

\* The indices of a session are bounded by cur before its first delete.
Bounded(s) ==
    /\ \A x \in segs : x.sid = s => x.gidx <= rec[s].cur
    /\ \A p \in Processes : cache[p][s] # None => cache[p][s] <= rec[s].cur
    /\ \A t \in OnSession : Sid[t] = s /\ Active(t) => at[t] <= rec[s].cur

LEMMA BoundedSame ==
    ASSUME NEW s \in Sids, Bounded(s), Same(s)
    PROVE  Bounded(s)'
  BY DEF Bounded, Same, Active

\* Nothing of a session is bounded by anything while there is nothing of it.
LEMMA NothingBounded ==
    ASSUME ControlInv, BornInv, NEW s \in Sids, Alive(s), ~Identified(rec[s])
    PROVE  /\ \A x \in segs : x.sid # s
           /\ \A p \in Processes : cache[p][s] = None
           /\ \A t \in OnSession : Sid[t] = s => ~Active(t)
  <1>1. ~Traces(s)
    BY DEF BornInv
  <1>2. ASSUME NEW t \in OnSession, Sid[t] = s PROVE ~Active(t)
    BY <1>1, <1>2, Kinds DEF Traces, Alive, Active, ControlInv, PhaseInv, Ended, OnSession
  <1> QED BY <1>1, <1>2 DEF Traces

\* A call caches the index it has in hand, and takes the one it goes on with from
\* the cache or from the record.
LEMMA CacheMoves ==
    ASSUME TypeOK, PhaseInv, NEW t \in OnSession \ Deleters, Step(t)
    PROVE  \/ cache'[Proc[t]][Sid[t]] = cache[Proc[t]][Sid[t]]
           \/ Active(t) /\ cache'[Proc[t]][Sid[t]] = at[t]
  <1>0. t \in Tasks
    BY Kinds
  <1>1. CASE Create(t) /\ t \in Creators
    BY <1>1, CreatorStep DEF Active, Ended, Idle
  <1>2. CASE Get(t) /\ t \in Getters
    BY <1>2, GetterStep DEF Active, Ended, Idle
  <1>3. CASE AppendEvent(t) /\ t \in Appenders
    BY <1>3, AppenderStep DEF AppenderMoves, Active, Ended, Idle
  <1>4. CASE UNCHANGED cache
    BY <1>4
  <1> QED
    BY <1>0, <1>1, <1>2, <1>3, <1>4, Kinds, RetryStep, FailStep, UnreadStep DEF Step, Fails

LEMMA IndexMoves ==
    ASSUME TypeOK, PhaseInv, NEW t \in OnSession \ Deleters, Step(t),
           rec[Sid[t]] # None, rec[Sid[t]].cur \in Nat, rec'[Sid[t]].cur \in Nat,
           rec[Sid[t]].cur <= rec'[Sid[t]].cur,
           cache[Proc[t]][Sid[t]] # None => cache[Proc[t]][Sid[t]] <= rec[Sid[t]].cur,
           Active(t) => at[t] <= rec[Sid[t]].cur
    PROVE  Active(t)' => at'[t] <= rec'[Sid[t]].cur
  <1> DEFINE s == Sid[t]
  <1>0. t \in Tasks /\ s \in Sids /\ Proc[t] \in Processes /\ at[t] \in Nat
    BY Kinds DEF TypeOK
  <1>1. CASE at'[t] = at[t] /\ Active(t)
    BY <1>0, <1>1
  <1>2. CASE at'[t] \in {0, rec[s].cur, rec'[s].cur}
    BY <1>2
  <1>3. CASE pc'[t] \in Ended
    BY <1>3 DEF Active
  <1>4. CASE cache[Proc[t]][s] # None /\ at'[t] = cache[Proc[t]][s]
    <2>1. cache[Proc[t]][s] \in Nat
      BY <1>0, <1>4 DEF TypeOK
    <2> QED BY <1>4, <2>1
  <1>5. CurOr(rec[s], 0) = rec[s].cur /\ CurOr(rec[s], at[t] + 1) = rec[s].cur
    BY NoneFacts DEF CurOr
  <1>6. CASE Create(t) /\ t \in Creators
    <2>1. at'[t] = 0 \/ (at'[t] = at[t] /\ Active(t))
      BY <1>6, CreatorStep DEF Active, Ended, Idle
    <2> QED BY <1>1, <1>2, <2>1
  <1>7. CASE Get(t) /\ t \in Getters
    <2>1. at'[t] = rec[s].cur \/ pc'[t] \in Ended
      BY <1>5, <1>7, GetterStep DEF Ended
    <2> QED BY <1>2, <1>3, <2>1
  <1>8. CASE AppendEvent(t) /\ t \in Appenders
    <2>1. AppenderMoves(t)
      BY <1>8, AppenderStep
    <2>2. CASE pc[t] = "start"
      BY <1>2, <1>4, <1>5, <2>1, <2>2 DEF AppenderMoves
    <2>3. CASE pc[t] # "start"
      BY <1>1, <1>2, <1>3, <1>5, <2>1, <2>3 DEF AppenderMoves, Active, Ended, Idle
    <2> QED BY <2>2, <2>3
  <1>9. CASE Retry(t) /\ t \in Appenders
    BY <1>1, <1>9, RetryStep DEF Active, Ended, Idle
  <1> QED
    BY <1>0, <1>3, <1>6, <1>7, <1>8, <1>9, Kinds, FailStep, UnreadStep DEF Step, Fails, Ended

LEMMA BoundedStep ==
    ASSUME ControlInv, BornInv, NEW t \in OnSession, Step(t), Alive(Sid[t])',
           Sid[t] \notin Late, Bounded(Sid[t])
    PROVE  Bounded(Sid[t])'
  <1> DEFINE s == Sid[t]
  <1>0. /\ TypeOK /\ PhaseInv /\ DbOK /\ OwnerInv /\ ControlInv' /\ BornInv'
        /\ t \in Tasks /\ s \in Sids /\ Proc[t] \in Processes
    BY Kinds, TypeParts, ControlStep, BornStep DEF ControlInv
  <1>1. Alive(s) /\ t \notin Deleters
    BY <1>0, AliveStep
  <1>2. Frame(t) /\ Effect(t) /\ Control(t) /\ Types'
    BY <1>0, StepFrame
  <1>3. \A u \in OnSession \ {t} : Active(u)' = Active(u) /\ at'[u] = at[u]
    BY <1>2, Kinds DEF Frame, Active
  <1>4. \A p \in Processes \ {Proc[t]} : cache'[p][s] = cache[p][s]
    BY <1>0, <1>2 DEF Frame
  <1>5. CASE ~Identified(rec[s])
    <2>1. /\ \A x \in segs : x.sid # s
          /\ \A p \in Processes : cache[p][s] = None
          /\ \A u \in OnSession : Sid[u] = s => ~Active(u)
      BY <1>0, <1>1, <1>5, NothingBounded
    <2>2. CASE ~Identified(rec'[s])
      <3>1. ~Traces(s)'
        BY <1>0, <2>2 DEF BornInv
      <3>2. ASSUME NEW u \in OnSession, Sid[u] = s PROVE ~Active(u)'
        BY <1>0, <3>1, <3>2, Kinds
        DEF Traces, Alive, Active, ControlInv, PhaseInv, Ended, OnSession
      <3> QED BY <3>1, <3>2 DEF Bounded, Traces
    <2>3. CASE Identified(rec'[s])
      <3>1. pc[t] \in Idle /\ pc[t] = "start"
        BY <1>2, <2>1 DEF Active, Control, Begin
      <3>2. t \in Creators
        <4>1. CASE t \in Getters
          <5>1. InFlight(t) = {}
            BY <1>0, <4>1, InFlightFacts
          <5> QED BY <1>2, <1>5, <2>3, <5>1 DEF Effect, db
        <4>2. CASE t \in Appenders
          <5>1. InFlight(t) = {}
            BY <1>0, <3>1, <4>2, InFlightFacts
          <5> QED BY <1>2, <1>5, <2>3, <5>1 DEF Effect, db
        <4> QED BY <1>1, <4>1, <4>2 DEF OnSession
      <3>3. rec'[s].cur \in Nat
        BY <1>0, <2>3 DEF ControlInv, OwnerInv
      <3>4. segs' = segs /\ cache' = cache
        <4>1. CASE Create(t)
          BY <1>0, <3>1, <3>2, <4>1, CreatorStep DEF SetRec, db
        <4>2. CASE CallFails(t)
          <5>1. \A q \in InFlight(t) : q.op = "create"
            BY <1>0, <3>1, <3>2, Kinds, InFlightFacts
          <5> QED
            BY <1>0, <1>2, <4>2, <5>1, ApplyCases, FailStep DEF Effect, db, SetRec, Fails
        <4> QED BY <3>2, <4>1, <4>2, Kinds DEF Step, RecordUnread
      <3>5. Active(t)' => at'[t] = 0
        <4>1. CASE Create(t)
          BY <1>0, <3>1, <3>2, <4>1, CreatorStep
        <4>2. CASE CallFails(t)
          BY <1>0, <4>2, FailStep DEF Fails, Active, Ended
        <4> QED BY <3>2, <4>1, <4>2, Kinds DEF Step, RecordUnread
      <3>6. ASSUME NEW u \in OnSession, Sid[u] = s, Active(u)'
            PROVE  at'[u] <= rec'[s].cur
        BY <1>3, <2>1, <3>3, <3>5, <3>6
      <3> QED BY <2>1, <3>4, <3>6 DEF Bounded
    <2> QED BY <2>2, <2>3
  <1>6. CASE Identified(rec[s])
    <2>1. /\ Identified(rec'[s]) /\ rec[s].cur \in Nat /\ rec'[s].cur \in Nat
          /\ rec[s].cur <= rec'[s].cur
      <3>1. \A q \in InFlight(t) : Allowed(q)
        BY <1>0, RequestsAllowed
      <3> QED BY <1>0, <1>1, <1>2, <1>6, <3>1, AliveRecord DEF Effect, db, OwnerInv
    <2>2. at[t] \in Nat /\ at'[t] \in Nat /\ \A p \in Processes : cache[p][s] \in Nat \cup {None}
      BY <1>0 DEF TypeOK, ControlInv
    <2>3. ASSUME NEW x \in segs', x.sid = s PROVE x.gidx <= rec'[s].cur
      <3>1. x \in segs \/ (pc[t] \notin Idle \cup Ended /\ x.gidx = at[t])
        <4>1. ASSUME NEW q \in InFlight(t), Apply(q), x \notin segs
              PROVE  q.op = "put" /\ x.gidx = at[t]
          <5>1. q.gidx = at[t]
            BY <1>0, InFlightFacts
          <5>2. CASE q.op = "put" /\ map_put(q.sid, q.gidx, q.by)
            BY <2>3, <4>1, <5>1, <5>2 DEF map_put
          <5>3. CASE segs' \subseteq segs
            BY <2>3, <4>1, <5>3
          <5>4. WriteState(q.sid) \/ Bump(q.sid, q.gidx) => segs' = segs
            BY DEF WriteState, Bump, SetRec, db
          <5> QED BY <4>1, <5>2, <5>3, <5>4, ApplyCases DEF SetRec, SetEntries, RemoveSegment
        <4>2. \A q \in InFlight(t) : q.op = "put" => pc[t] \notin Idle \cup Ended
          BY <1>0, InFlightFacts, Kinds DEF Idle, Ended
        <4> QED BY <1>2, <4>1, <4>2 DEF Effect, db
      <3>2. x.gidx \in Nat
        BY <1>0, <2>3 DEF ControlInv, TypeOK, Events
      <3> QED BY <1>0, <2>1, <2>2, <2>3, <3>1, <3>2 DEF Bounded, Active
    <2>4. cache'[Proc[t]][s] = cache[Proc[t]][s] \/ (Active(t) /\ cache'[Proc[t]][s] = at[t])
      BY <1>0, <1>1, CacheMoves
    <2>5. ASSUME NEW p \in Processes, cache'[p][s] # None PROVE cache'[p][s] <= rec'[s].cur
      BY <1>0, <1>4, <2>1, <2>2, <2>4, <2>5 DEF Bounded
    <2>6. Active(t)' => at'[t] <= rec'[s].cur
      BY <1>0, <1>1, <1>6, <2>1, IndexMoves DEF Bounded, Identified
    <2>7. ASSUME NEW u \in OnSession, Sid[u] = s, Active(u)' PROVE at'[u] <= rec'[s].cur
      <3>1. CASE u # t
        <4>1. at[u] \in Nat /\ at'[u] = at[u] /\ at[u] <= rec[s].cur
          BY <1>0, <1>3, <2>7, <3>1, Kinds DEF TypeOK, Bounded
        <4> QED BY <2>1, <4>1
      <3> QED BY <2>6, <2>7, <3>1
    <2> QED BY <2>3, <2>5, <2>7 DEF Bounded
  <1> QED BY <1>5, <1>6

LEMMA IndexBounded == IndexInv <=> \A s \in Sids \ Late : Alive(s) => Bounded(s)
  BY DEF IndexInv, Bounded

LEMMA IndexStep ==
    ASSUME ControlInv, BornInv, IndexInv, NEW t \in Tasks, Step(t)
    PROVE  IndexInv'
  <1> SUFFICES ASSUME NEW s \in Sids \ Late, Alive(s)' PROVE Bounded(s)'
    BY DEF IndexInv, Bounded
  <1>1. Alive(s) /\ Bounded(s)
    BY AliveStep, IndexBounded
  <1>2. CASE t \in OnSession /\ Sid[t] = s
    BY <1>1, <1>2, BoundedStep
  <1>3. CASE t \in OnSession /\ Sid[t] # s
    BY <1>1, <1>3, StepElsewhere, BoundedSame
  <1>4. CASE t \in Listers
    BY <1>1, <1>4, ListSame, BoundedSame
  <1> QED BY <1>2, <1>3, <1>4 DEF Tasks

LEMMA IndexLate ==
    ASSUME ControlInv, IndexInv, NEW q \in late, ApplyLate(q)
    PROVE  IndexInv'
  <1> SUFFICES ASSUME NEW s \in Sids \ Late, Alive(s)' PROVE Bounded(s)'
    BY DEF IndexInv, Bounded
  <1>1. Alive(s) /\ s # q.sid
    BY DEF ApplyLate, Alive, ControlInv, LateInv, Sent
  <1> QED BY <1>1, LateElsewhere, BoundedSame, IndexBounded

\* A step adds the event of a call that is under way.
LEMMA EventAdded ==
    ASSUME ControlInv, NEW t \in Tasks, Step(t), NEW x \in segs', x \notin segs
    PROVE  t \in Appenders /\ x.ev = t /\ x.gidx = at[t] /\ pc[t] \in {"put", "batch"}
  <1>0. TypeOK /\ PhaseInv /\ Effect(t)
    BY StepFrame DEF ControlInv
  <1>1. PICK q \in InFlight(t) : Apply(q)
    BY <1>0 DEF Effect, db
  <1>2. q.by = t /\ q.gidx = at[t]
    BY <1>0, InFlightFacts
  <1>3. WriteState(q.sid) \/ Bump(q.sid, q.gidx) => segs' = segs
    BY DEF WriteState, Bump, SetRec, db
  <1>4. q.op = "put" /\ map_put(q.sid, q.gidx, q.by)
    BY <1>1, <1>3, ApplyCases DEF SetRec, SetEntries, RemoveSegment
  <1>5. x = [sid |-> q.sid, gidx |-> q.gidx, ev |-> q.by]
    BY <1>4 DEF map_put
  <1>6. q.op = "put" => t \in Appenders /\ pc[t] \in {"put", "batch"}
    BY <1>0, InFlightFacts, Kinds
  <1> QED BY <1>2, <1>4, <1>5, <1>6

\* Once a delete has begun, it owes nothing more.
LEMMA OwedStep ==
    ASSUME ControlInv, NEW t \in Tasks, Step(t), NEW d \in Deleters, pc[d] \notin Idle
    PROVE  Owed(d)' \subseteq Owed(d)
  <1>1. Frame(t) /\ Control(t) /\ d \in Tasks
    BY StepFrame, Kinds DEF ControlInv
  <1>2. seen'[d] = seen[d]
    BY <1>1 DEF Frame, Control
  <1>3. ASSUME NEW x \in Owed(d)' PROVE x \in Owed(d)
    <2>1. x \in segs' /\ x.ev \in seen[d] /\ pc[x.ev] \in Ended /\ x.ev \in Tasks
      BY <1>1, <1>2, <1>3, Kinds DEF Owed, ControlInv, SeenInv
    <2>2. x.ev # t /\ pc'[x.ev] = pc[x.ev]
      BY <1>1, <2>1 DEF Frame, Control
    <2>3. x \in segs
      BY <2>1, <2>2, EventAdded
    <2> QED BY <1>2, <1>3, <2>2, <2>3 DEF Owed
  <1> QED BY <1>3

LEMMA DeleteStep ==
    ASSUME ControlInv, BornInv, IndexInv, DeleteInv, NEW t \in Tasks, Step(t)
    PROVE  DeleteInv'
  <1> SUFFICES ASSUME NEW d \in Deleters, Sid[d] \notin Late,
                      \A e \in Deleters \ {d} : Sid[e] = Sid[d] => pc'[e] \in Idle
               PROVE  /\ pc'[d] = "segments" =>
                            \A x \in Owed(d)' : at'[d] <= x.gidx /\ x.gidx <= top'[d]
                      /\ pc'[d] \in {"record", "pop", "unlist", "deleted"} => Owed(d)' = {}
    BY DEF DeleteInv
  <1>0. TypeOK /\ PhaseInv /\ SeenInv /\ OwnerInv /\ ControlInv' /\ d \in Tasks /\ d \in OnSession
        /\ Sid[d] \in Sids
    BY ControlStep, Kinds DEF ControlInv
  <1>1. Frame(t) /\ Control(t)
    BY <1>0, StepFrame
  <1>2. \A e \in Deleters \ {d} : Sid[e] = Sid[d] => pc[e] \in Idle
    BY <1>1, Kinds DEF Frame, Control
  <1>3. /\ pc[d] = "segments" => \A x \in Owed(d) : at[d] <= x.gidx /\ x.gidx <= top[d]
        /\ pc[d] \in {"record", "pop", "unlist", "deleted"} => Owed(d) = {}
    BY <1>2 DEF DeleteInv
  <1>4. pc[d] \notin Idle => Owed(d)' \subseteq Owed(d)
    BY OwedStep
  <1>5. \A x \in Owed(d)' : x \in segs' /\ x.sid = Sid[d] /\ x.gidx \in Nat
    BY <1>0 DEF Owed, ControlInv, SeenInv, OwnerInv, TypeOK, Events
  <1>6. at[d] \in Nat /\ top[d] \in Nat
    BY <1>0 DEF TypeOK
  <1>7. CASE t # d
    <2>1. pc'[d] = pc[d] /\ at'[d] = at[d] /\ top'[d] = top[d]
      BY <1>0, <1>1, <1>7 DEF Frame
    <2> QED BY <1>3, <1>4, <2>1 DEF Idle
  <1>8. CASE t = d /\ Delete(d)
    <2>1. CASE pc[d] = "start"
      <3>1. UNCHANGED db
        BY <1>0, <1>8, <2>1, DeleterStep
      <3>2. Alive(Sid[d])
        BY <1>2, <2>1 DEF Alive, Idle
      <3>3. CASE rec[Sid[d]] = None
        <4>1. \A x \in segs : x.sid # Sid[d]
          BY <1>0, <3>2, <3>3, NothingBounded DEF Identified
        <4>2. Owed(d)' = {}
          BY <1>5, <3>1, <4>1 DEF db
        <4> QED BY <4>2
      <3>4. CASE rec[Sid[d]] # None
        <4>1. Identified(rec[Sid[d]])
          BY <1>0, <3>2, <3>4 DEF BornInv, Traces
        <4>2. rec[Sid[d]].cur \in Nat
          BY <1>0, <4>1 DEF OwnerInv
        <4>3. \A x \in segs : x.sid = Sid[d] => x.gidx <= rec[Sid[d]].cur
          BY <1>0, <3>2 DEF IndexInv
        <4>4. CurOr(rec[Sid[d]], 0) = rec[Sid[d]].cur
          BY <4>2, NoneFacts DEF CurOr
        <4>5. pc'[d] = "segments" /\ at'[d] = 0 /\ top'[d] = rec[Sid[d]].cur + 1
          BY <1>0, <1>8, <2>1, <3>4, <4>4, DeleterStep
        <4>6. \A x \in Owed(d)' : at'[d] <= x.gidx /\ x.gidx <= top'[d]
          BY <1>5, <3>1, <4>2, <4>3, <4>5 DEF db
        <4> QED BY <4>5, <4>6
      <3> QED BY <3>3, <3>4
    <2>2. CASE pc[d] = "segments"
      <3>1. /\ RemoveSegment(Sid[d], at[d]) /\ at'[d] = at[d] + 1 /\ top'[d] = top[d]
            /\ pc'[d] = IF at[d] = top[d] THEN "record" ELSE "segments"
        BY <1>0, <1>8, <2>2, DeleterStep
      <3>2. \A x \in Owed(d)' : at[d] <= x.gidx /\ x.gidx <= top[d]
        BY <1>3, <1>4, <2>2 DEF Idle
      <3>3. \A x \in Owed(d)' : x.gidx # at[d]
        BY <1>5, <3>1 DEF RemoveSegment, Segment
      <3> QED BY <1>5, <1>6, <3>1, <3>2, <3>3
    <2>3. CASE pc[d] \in {"record", "pop", "unlist"}
      <3>1. pc'[d] # "segments"
        BY <1>0, <1>8, <2>3, DeleterStep
      <3> QED BY <1>3, <1>4, <2>3, <3>1 DEF Idle
    <2> QED BY <1>0, <1>8, <2>1, <2>2, <2>3, DeleterStep
  <1>9. CASE t = d /\ CallFails(d)
    BY <1>0, <1>9, FailStep DEF Fails
  <1> QED BY <1>7, <1>8, <1>9, Kinds DEF Step, RecordUnread

LEMMA DeleteLate ==
    ASSUME ControlInv, DeleteInv, NEW q \in late, ApplyLate(q)
    PROVE  DeleteInv'
  <1> SUFFICES ASSUME NEW d \in Deleters, Sid[d] \notin Late,
                      \A e \in Deleters \ {d} : Sid[e] = Sid[d] => pc'[e] \in Idle
               PROVE  /\ pc'[d] = "segments" =>
                            \A x \in Owed(d)' : at'[d] <= x.gidx /\ x.gidx <= top'[d]
                      /\ pc'[d] \in {"record", "pop", "unlist", "deleted"} => Owed(d)' = {}
    BY DEF DeleteInv
  <1>0. Sid[d] \in Sids /\ d \in OnSession /\ Sid[d] # q.sid /\ ControlInv'
    BY Kinds, ControlLate DEF ControlInv, LateInv, Sent
  <1>1. UNCHANGED <<pc, at, top, seen>>
    BY DEF ApplyLate, own
  <1>2. \A x : x.sid = Sid[d] => (x \in segs' <=> x \in segs)
    BY <1>0, LateElsewhere DEF Same
  <1>3. \A x \in Owed(d)' : x \in segs' /\ x.sid = Sid[d]
    BY <1>0 DEF Owed, ControlInv, SeenInv, OwnerInv
  <1>4. Owed(d)' \subseteq Owed(d)
    BY <1>1, <1>2, <1>3 DEF Owed
  <1> QED BY <1>1, <1>4 DEF DeleteInv

-----------------------------------------------------------------------------
(* Lists.                                                                  *)

\* The part of ListInv about session s.
Findable(s) ==
    /\ \A l \in Listers : stale[l][s] = 0
    /\ \A q \in late : ~(q.op = "unlist" /\ q.sid = s)
    /\ \A c \in Creators : Sid[c] = s /\ pc[c] = "created" =>
          /\ manifest[s] > 0
          /\ \A l \in Listers : c \in seen[l] /\ pc[l] # "failed" =>
                s \in listed[l] \/ (pc[l] = "rows" /\ ids[l][s] > 0)

\* What a list does to an entry that is not stale.
LEMMA ListKeeps ==
    ASSUME ControlInv, NEW l \in Listers, Step(l), NEW s \in Sids \ unread', stale[l][s] = 0,
           ids[l][s] > 0 => Identified(rec[s])
    PROVE  /\ stale'[l][s] = 0 /\ manifest'[s] = manifest[s]
           /\ late' = late \/ \E q \in InFlight(l) : late' = late \cup {q} /\ q.sid # s
           /\ pc[l] = "start" /\ manifest[s] > 0 => pc'[l] = "rows" /\ ids'[l][s] > 0
           /\ s \in listed[l] => s \in listed'[l]
           /\ pc[l] = "rows" /\ ids[l][s] > 0 /\ pc'[l] # "failed" =>
                 s \in listed'[l] \/ (pc'[l] = "rows" /\ ids'[l][s] > 0)
  <1>0. TypeOK /\ PhaseInv /\ DbOK /\ l \in Tasks /\ l \notin OnSession /\ Effect(l) /\ Control(l)
    BY Kinds, TypeParts, StepFrame DEF ControlInv
  <1>1. \A q \in InFlight(l) : q.op = "unlist" /\ q.sid # s /\ q \in Requests
    BY <1>0, InFlightFacts
  <1>2. manifest'[s] = manifest[s]
    BY <1>0, <1>1, ApplyElsewhere DEF Effect, db
  <1>3. late' = late \/ \E q \in InFlight(l) : late' = late \cup {q} /\ q.sid # s
    BY <1>0, <1>1 DEF Effect
  <1>4. stale[l] \in Entries /\ ids[l] \in Entries /\ manifest[s] \in Nat
    BY <1>0 DEF TypeOK, Entries
  <1>5. CASE \E r \in Sids, b \in BOOLEAN : LookedUp(l, r, b) /\ (r = s => b)
    <2>1. PICK r \in Sids, b \in BOOLEAN : LookedUp(l, r, b) /\ (r = s => b)
      BY <1>5
    <2>2. stale'[l][s] = 0
      BY <1>4, <2>1 DEF LookedUp, Entries
    <2>3. s \in listed[l] \/ r = s => s \in listed'[l]
      BY <2>1 DEF LookedUp
    <2>4. r # s /\ ids[l][s] > 0 => ids'[l][s] > 0
      BY <1>4, <2>1 DEF LookedUp, Entries
    <2>5. ids'[l][s] > 0 => pc'[l] = "rows"
      BY <2>1 DEF LookedUp, Named
    <2> QED BY <1>2, <1>3, <2>1, <2>2, <2>3, <2>4, <2>5 DEF LookedUp
  <1>6. CASE List(l)
    <2>1. CASE pc[l] = "start"
      <3>1. /\ UNCHANGED <<listed, stale>> /\ ids'[l] = manifest
            /\ \/ Named(manifest) = {}
               \/ pc'[l] = "rows"
        BY <1>0, <1>6, <2>1, ListerStep DEF LookedUp
      <3> QED BY <1>2, <1>3, <2>1, <3>1 DEF Named
    <2>2. CASE \E r \in Sids : LookedUp(l, r, Identified(rec[r]))
      <3>1. \A r : Identified(rec[r]) \in BOOLEAN
        BY DEF Identified
      <3>2. \A r \in Sids : LookedUp(l, r, Identified(rec[r])) /\ r = s => Identified(rec[r])
        BY DEF LookedUp
      <3> QED BY <1>5, <2>2, <3>1, <3>2
    <2>3. CASE pc[l] = "prune"
      <3>1. UNCHANGED listed
        BY <1>0, <1>6, <2>3, ListerStep DEF LookedUp
      <3>2. PICK r \in Sids : /\ stale[l][r] > 0
                              /\ stale'[l] = [stale[l] EXCEPT ![r] = stale[l][r] - 1]
        BY <1>0, <1>6, <2>3, ListerStep DEF LookedUp
      <3>3. r # s
        BY <3>2
      <3>4. stale'[l][s] = 0
        BY <1>4, <3>2, <3>3 DEF Entries
      <3> QED BY <1>2, <1>3, <2>3, <3>1, <3>4
    <2> QED BY <1>0, <1>6, <2>1, <2>2, <2>3, ListerStep
  <1>7. CASE RecordUnread(l)
    <2>1. PICK r \in Sids : LookedUp(l, r, FALSE) /\ unread' = unread \cup {r}
      BY <1>0, <1>7, UnreadStep DEF OnSession
    <2> QED BY <1>5, <2>1
  <1>8. CASE CallFails(l)
    <2>1. pc'[l] = "failed" /\ UNCHANGED <<listed, stale>> /\ pc[l] # "start"
      BY <1>0, <1>8, Kinds, FailStep DEF Fails, Idle
    <2> QED BY <1>2, <1>3, <2>1
  <1> QED BY <1>6, <1>7, <1>8, Kinds DEF Step

LEMMA ListStep ==
    ASSUME ControlInv, BornInv, ListInv, NEW t \in Tasks, Step(t)
    PROVE  ListInv'
  <1> SUFFICES ASSUME NEW s \in Sids \ unread', Alive(s)' PROVE Findable(s)'
    BY DEF ListInv, Findable
  <1>0. TypeOK /\ PhaseInv /\ SeenInv /\ LateInv /\ DbOK /\ Frame(t) /\ Control(t) /\ Effect(t)
    BY TypeParts, StepFrame DEF ControlInv
  <1>1. Alive(s) /\ ~(t \in Deleters /\ Sid[t] = s) /\ s \notin unread
    BY <1>0, AliveStep DEF Effect
  <1>2. Findable(s)
    BY <1>1 DEF ListInv, Findable
  <1>3. \A l \in Listers : ids[l][s] > 0 => Identified(rec[s])
    BY <1>1 DEF BornInv, Traces
  <1>4. CASE t \in OnSession /\ Sid[t] # s
    <2>1. /\ Same(s) /\ manifest'[s] = manifest[s]
          /\ \A q : q.sid = s => (q \in late' <=> q \in late)
          /\ UNCHANGED <<ids, listed, stale>>
      BY <1>4, StepElsewhere
    <2>2. \A l \in Listers : pc'[l] = pc[l] /\ seen'[l] = seen[l]
      BY <1>0, <1>4, Kinds DEF Frame
    <2>3. \A c \in Creators : Sid[c] = s => pc'[c] = pc[c]
      BY <2>1, Kinds DEF Same
    <2> QED BY <1>2, <2>1, <2>2, <2>3 DEF Findable
  <1>5. CASE t \in OnSession /\ Sid[t] = s
    <2>1. UNCHANGED <<ids, listed, stale>>
      BY <1>0, <1>1, <1>5, Kinds, CreatorStep, GetterStep, AppenderStep, RetryStep, FailStep,
         UnreadStep DEF Step, Fails
    <2>2. \A l \in Listers : pc'[l] = pc[l] /\ seen'[l] = seen[l]
      BY <1>0, <1>5, Kinds DEF Frame
    <2>3. \A q \in InFlight(t) : q.op # "unlist" /\ q \in Requests /\ q.sid = s
      BY <1>0, <1>1, <1>5, Kinds, InFlightFacts
    <2>4. \A q \in late' : ~(q.op = "unlist" /\ q.sid = s)
      BY <1>0, <1>2, <2>3 DEF Findable, Effect
    <2>5. manifest'[s] \in {manifest[s], manifest[s] + 1} /\ manifest[s] \in Nat
      <3>1. ASSUME NEW q \in InFlight(t), Apply(q)
            PROVE  manifest'[s] \in {manifest[s], manifest[s] + 1}
        <4>1. CASE SetEntries(q.sid, manifest[q.sid] + 1)
          BY <1>0, <2>3, <4>1 DEF SetEntries, DbOK, Entries
        <4>2. WriteState(q.sid) \/ Bump(q.sid, q.gidx) => UNCHANGED manifest
          BY DEF WriteState, Bump, SetRec, db
        <4> QED
          BY <2>3, <3>1, <4>1, <4>2, ApplyCases DEF SetRec, RemoveSegment, map_put
      <3>2. manifest[s] \in Nat
        BY <1>0 DEF DbOK, Entries
      <3> QED BY <1>0, <3>1, <3>2 DEF Effect, db
    <2>6. ASSUME NEW c \in Creators, Sid[c] = s, pc'[c] = "created"
          PROVE  /\ manifest'[s] > 0
                 /\ \A l \in Listers : c \in seen'[l] /\ pc'[l] # "failed" =>
                       s \in listed'[l] \/ (pc'[l] = "rows" /\ ids'[l][s] > 0)
      <3>1. CASE pc[c] = "created"
        BY <1>2, <2>1, <2>2, <2>5, <2>6, <3>1 DEF Findable
      <3>2. CASE pc[c] # "created"
        <4>1. t = c
          BY <1>0, <2>6, <3>2, Kinds DEF Frame
        <4>2. pc[c] = "add" /\ SetEntries(Sid[c], manifest[Sid[c]] + 1)
          BY <1>0, <2>6, <4>1, Kinds, CreatorStep, FailStep, UnreadStep DEF Step, Fails
        <4>3. manifest'[s] > 0
          BY <1>0, <2>6, <4>2 DEF SetEntries, DbOK, Entries
        <4>4. \A l \in Listers : c \notin seen[l]
          BY <1>0, <4>2, Kinds DEF SeenInv, Ended
        <4> QED BY <2>2, <4>3, <4>4
      <3> QED BY <3>1, <3>2
    <2> QED BY <1>2, <2>1, <2>4, <2>6 DEF Findable
  <1>6. CASE t \in Listers
    <2>1. /\ stale'[t][s] = 0 /\ manifest'[s] = manifest[s]
          /\ late' = late \/ \E q \in InFlight(t) : late' = late \cup {q} /\ q.sid # s
          /\ pc[t] = "start" /\ manifest[s] > 0 => pc'[t] = "rows" /\ ids'[t][s] > 0
          /\ s \in listed[t] => s \in listed'[t]
          /\ pc[t] = "rows" /\ ids[t][s] > 0 /\ pc'[t] # "failed" =>
                s \in listed'[t] \/ (pc'[t] = "rows" /\ ids'[t][s] > 0)
      BY <1>2, <1>3, <1>6, ListKeeps DEF Findable
    <2>2. \A l \in Listers \ {t} :
             /\ pc'[l] = pc[l] /\ seen'[l] = seen[l]
             /\ ids'[l] = ids[l] /\ listed'[l] = listed[l] /\ stale'[l] = stale[l]
      BY <1>0, Kinds DEF Frame
    <2>3. \A c \in Creators : pc'[c] = pc[c]
      BY <1>6, ListSame, Kinds
    <2>4. pc[t] \in Idle => pc[t] = "start"
      BY <1>0 DEF Control, Begin
    <2>5. pc[t] \notin Idle => seen'[t] = seen[t] /\ pc[t] # "failed"
      BY <1>0 DEF Control, Ended
    <2>6. ASSUME NEW c \in Creators, Sid[c] = s, pc'[c] = "created",
                 NEW l \in Listers, c \in seen'[l], pc'[l] # "failed"
          PROVE  s \in listed'[l] \/ (pc'[l] = "rows" /\ ids'[l][s] > 0)
      <3>1. /\ manifest[s] > 0
            /\ c \in seen[l] /\ pc[l] # "failed" =>
                  s \in listed[l] \/ (pc[l] = "rows" /\ ids[l][s] > 0)
        BY <1>2, <2>3, <2>6 DEF Findable
      <3>2. CASE l # t
        BY <2>2, <2>6, <3>1, <3>2
      <3>3. CASE l = t
        BY <2>1, <2>4, <2>5, <2>6, <3>1, <3>3
      <3> QED BY <3>2, <3>3
    <2>7. \A l \in Listers : stale'[l][s] = 0
      BY <1>2, <2>1, <2>2 DEF Findable
    <2>8. \A q \in late' : ~(q.op = "unlist" /\ q.sid = s)
      BY <1>2, <2>1 DEF Findable
    <2>9. \A c \in Creators : Sid[c] = s /\ pc'[c] = "created" => manifest'[s] > 0
      BY <1>2, <2>1, <2>3 DEF Findable
    <2> QED BY <2>6, <2>7, <2>8, <2>9 DEF Findable
  <1> QED BY <1>4, <1>5, <1>6 DEF Tasks

LEMMA ListLate ==
    ASSUME ControlInv, ListInv, NEW q \in late, ApplyLate(q)
    PROVE  ListInv'
  <1> SUFFICES ASSUME NEW s \in Sids \ unread', Alive(s)' PROVE Findable(s)'
    BY DEF ListInv, Findable
  <1>0. DbOK /\ Allowed(q) /\ q \in Requests
    BY TypeParts, RequestsAllowed DEF ControlInv, TypeOK
  <1>1. /\ Apply(q) /\ late' = late \ {q}
        /\ UNCHANGED <<cache, pc, at, top, ids, listed, stale, seen, unread>>
    BY DEF ApplyLate, own, past
  <1>2. Alive(s) /\ Findable(s)
    BY <1>1 DEF Alive, ListInv, Findable
  <1>3. manifest'[s] \in {manifest[s], manifest[s] + 1} /\ manifest[s] \in Nat
    <2>1. CASE s # q.sid
      BY <1>0, <1>1, <2>1, ApplyElsewhere DEF DbOK, Entries
    <2>2. CASE s = q.sid
      <3>1. q.op # "unlist"
        BY <1>2, <2>2 DEF Findable
      <3>2. CASE SetEntries(q.sid, manifest[q.sid] + 1)
        BY <1>0, <2>2, <3>2 DEF SetEntries, DbOK, Entries
      <3>3. WriteState(q.sid) \/ Bump(q.sid, q.gidx) => UNCHANGED manifest
        BY DEF WriteState, Bump, SetRec, db
      <3>4. CASE UNCHANGED manifest
        BY <1>0, <3>4 DEF DbOK, Entries
      <3> QED BY <1>1, <3>1, <3>2, <3>3, <3>4, ApplyCases DEF SetRec, RemoveSegment, map_put
    <2> QED BY <2>1, <2>2
  <1>4. \A c \in Creators : Sid[c] = s /\ pc[c] = "created" => manifest'[s] > 0
    BY <1>2, <1>3 DEF Findable
  <1> QED BY <1>1, <1>2, <1>4 DEF Findable

\* Only a create makes a record that has an owner.
LEMMA OwnerChange ==
    ASSUME DbOK, NEW q, Wellformed(q), Apply(q), NEW s \in Sids, Identified(rec'[s])
    PROVE  \/ Identified(rec[s]) /\ rec'[s].owner = rec[s].owner
           \/ q.op = "create" /\ q.sid = s /\ rec[s] = None /\ rec'[s].owner = q.by
  <1>0. q \in Requests /\ q.sid \in Sids /\ q.gidx \in Nat
    BY DEF Wellformed, Requests
  <1>1. CASE s # q.sid
    BY <1>0, <1>1, ApplyElsewhere
  <1>2. CASE s = q.sid
    <2>1. CASE q.op = "create" /\ rec[q.sid] = None /\ SetRec(q.sid, [cur |-> 0, owner |-> q.by])
      BY <1>2, <2>1 DEF SetRec, DbOK
    <2>2. CASE UNCHANGED rec
      BY <2>2
    <2>3. CASE SetRec(q.sid, None)
      BY <1>2, <2>3 DEF SetRec, DbOK, Identified
    <2>4. CASE WriteState(q.sid)
      BY <1>2, <2>4 DEF WriteState, SetRec, DbOK, Identified, db
    <2>5. CASE Bump(q.sid, q.gidx)
      <3>1. CASE rec[s] = None
        BY <1>2, <2>5, <3>1 DEF Bump, SetRec, DbOK, Identified
      <3>2. CASE rec[s] # None
        <4>1. rec'[s] = [cur |-> q.gidx + 1, owner |-> rec[s].owner]
          BY <1>2, <2>5, <3>2 DEF Bump, SetRec, DbOK
        <4>2. rec'[s].owner = rec[s].owner
          BY <4>1
        <4> QED BY <3>2, <4>2 DEF Identified
      <3> QED BY <3>1, <3>2
    <2> QED
      BY <2>1, <2>2, <2>3, <2>4, <2>5, ApplyCases DEF SetEntries, RemoveSegment, map_put
  <1> QED BY <1>1, <1>2

LEMMA CreateStep ==
    ASSUME ControlInv, BornInv, CreateInv, NEW t \in Tasks, Step(t)
    PROVE  CreateInv'
  <1>0. TypeOK /\ PhaseInv /\ SeenInv /\ OwnerInv /\ DbOK /\ Frame(t) /\ Control(t) /\ Effect(t)
    BY TypeParts, StepFrame DEF ControlInv
  <1>1. t \in Creators /\ pc[t] \in Idle =>
           /\ Begin(t) /\ MayCreate(Sid[t])
           /\ \A u \in seen'[t] : pc[u] \in Ended /\ Sid[u] = Sid[t] /\ u \in OnSession
    <2>1. t \in Creators /\ pc[t] \in Idle => Begin(t) /\ MayCreate(Sid[t])
      BY <1>0, Kinds, CreatorStep, FailStep DEF Step, Fails, RecordUnread, Idle
    <2> QED BY <1>0, <2>1, Kinds, BeginFacts
  <1>2. \A u \in Tasks : u # t \/ pc[u] \notin Idle => seen'[u] = seen[u]
    BY <1>0 DEF Frame, Control
  <1>3. ASSUME NEW c \in Creators, Sid[c] \notin Recreate PROVE seen'[c] \cap Deleters = {}
    <2>1. CASE c = t /\ pc[t] \in Idle
      <3>1. \A d \in Deleters : Sid[d] = Sid[c] => pc[d] \notin Ended
        BY <1>1, <1>3, <2>1 DEF MayCreate, Idle, Ended
      <3> QED BY <1>1, <2>1, <3>1
    <2>2. CASE c # t \/ pc[c] \notin Idle
      BY <1>2, <1>3, <2>2, Kinds DEF CreateInv
    <2> QED BY <2>1, <2>2
  <1>4. ASSUME NEW s \in Sids, Identified(rec'[s])
        PROVE  \/ Identified(rec[s]) /\ rec'[s].owner = rec[s].owner
               \/ /\ rec[s] = None /\ rec'[s].owner = t /\ t \in Creators /\ Sid[t] = s
                  /\ pc[t] \in Idle
    <2>1. \A q \in InFlight(t) :
             /\ Wellformed(q) /\ q.by = t
             /\ q.op = "create" => t \in Creators /\ q.sid = Sid[t] /\ pc[t] \in Idle
      BY <1>0, RequestsWellformed, InFlightFacts, Kinds DEF Idle
    <2>2. CASE UNCHANGED db
      BY <1>4, <2>2 DEF db
    <2>3. CASE \E q \in InFlight(t) : Apply(q)
      BY <1>0, <1>4, <2>1, <2>3, OwnerChange
    <2> QED BY <1>0, <2>2, <2>3 DEF Effect
  <1>5. \A s \in Sids : Identified(rec[s]) => rec[s].owner \in Tasks /\ pc[rec[s].owner] \notin Idle
    BY <1>0, NoneFacts, Kinds DEF CreateInv, Identified, DbOK
  <1>6. ASSUME NEW s \in Sids, Identified(rec'[s]) PROVE pc'[rec'[s].owner] \notin Idle
    BY <1>0, <1>4, <1>5, <1>6 DEF Frame, Control
  <1>7. ASSUME NEW s \in Sids \ (Recreate \cup Late), Identified(rec'[s])
        PROVE  seen'[rec'[s].owner] \cap Appenders = {}
    <2>1. CASE Identified(rec[s]) /\ rec'[s].owner = rec[s].owner
      BY <1>2, <1>5, <2>1 DEF CreateInv
    <2>2. CASE /\ rec[s] = None /\ rec'[s].owner = t /\ t \in Creators /\ Sid[t] = s
               /\ pc[t] \in Idle
      <3>1. Alive(s)
        BY <1>1, <1>7, <2>2 DEF MayCreate, Alive
      <3>2. ~Traces(s)
        BY <2>2, <3>1 DEF BornInv, Identified
      <3>3. \A u \in Appenders : Sid[u] = s => pc[u] \notin Ended
        BY <3>2 DEF Traces, Ended, Idle
      <3> QED BY <1>1, <2>2, <3>3
    <2> QED BY <1>4, <1>7, <2>1, <2>2
  <1> QED BY <1>3, <1>6, <1>7 DEF CreateInv

LEMMA CreateLate ==
    ASSUME ControlInv, CreateInv, NEW q \in late, ApplyLate(q)
    PROVE  CreateInv'
  <1>0. TypeOK /\ PhaseInv /\ DbOK /\ LateInv /\ Wellformed(q)
    BY TypeParts, RequestsWellformed DEF ControlInv
  <1>1. Apply(q) /\ UNCHANGED <<pc, seen>>
    BY DEF ApplyLate
  <1>2. ASSUME NEW s \in Sids, Identified(rec'[s])
        PROVE  \/ Identified(rec[s]) /\ rec'[s].owner = rec[s].owner
               \/ s \in Late /\ pc[rec'[s].owner] = "failed"
    BY <1>0, <1>1, <1>2, OwnerChange DEF LateInv, Sent
  <1>3. ASSUME NEW s \in Sids, Identified(rec'[s]) PROVE pc'[rec'[s].owner] \notin Idle
    BY <1>1, <1>2, <1>3 DEF CreateInv, Idle
  <1>4. ASSUME NEW s \in Sids \ (Recreate \cup Late), Identified(rec'[s])
        PROVE  seen'[rec'[s].owner] \cap Appenders = {}
    BY <1>1, <1>2, <1>4 DEF CreateInv
  <1> QED BY <1>1, <1>3, <1>4 DEF CreateInv

\* If none has begun since the delete, then none had in the state before.
LEMMA NoneSinceStep ==
    ASSUME ControlInv, NEW t \in Tasks, Step(t), NEW d \in Deleters, pc[d] \notin Idle,
           NoneSince(d)'
    PROVE  NoneSince(d)
  <1>1. Frame(t) /\ Control(t) /\ d \in Tasks
    BY StepFrame, Kinds DEF ControlInv
  <1>2. seen'[d] = seen[d]
    BY <1>1 DEF Frame, Control
  <1>3. \A c \in Creators : /\ pc[c] = "failed" => pc'[c] = "failed"
                            /\ pc'[c] \in Idle => pc[c] \in Idle
    BY <1>1, Kinds DEF Frame, Control, Ended
  <1> QED BY <1>2, <1>3 DEF NoneSince

LEMMA SoundStep ==
    ASSUME ControlInv, SoundInv, NEW t \in Tasks, Step(t)
    PROVE  SoundInv'
  <1> SUFFICES ASSUME NEW d \in Deleters, pc'[d] \in {"pop", "unlist", "deleted"}, NoneSince(d)'
               PROVE  /\ ~Identified(rec'[Sid[d]])
                      /\ \A l \in Listers : d \in seen'[l] => Sid[d] \notin listed'[l]
    BY DEF SoundInv
  <1> DEFINE s == Sid[d]
  <1>0. /\ TypeOK /\ PhaseInv /\ SeenInv /\ DbOK /\ Frame(t) /\ Control(t) /\ Effect(t)
        /\ ControlInv' /\ d \in Tasks /\ d \in OnSession /\ s \in Sids
    BY TypeParts, StepFrame, ControlStep, Kinds DEF ControlInv
  <1>1. \A l \in Listers : d \in seen'[l] => pc[d] \in Ended
    <2>1. \A l \in Listers : l # t \/ pc[l] \notin Idle => seen'[l] = seen[l]
      BY <1>0, Kinds DEF Frame, Control
    <2>2. t \in Listers /\ pc[t] \in Idle => \A u \in seen'[t] : pc[u] \in Ended
      BY <1>0, BeginFacts DEF Control
    <2> QED BY <1>0, <2>1, <2>2, Kinds DEF SeenInv
  <1>2. CASE t = d /\ pc[d] \in {"start", "record"}
    <2>1. Delete(d)
      BY <1>0, <1>2, Kinds, FailStep DEF Step, RecordUnread, Fails
    <2>2. rec'[s] = None
      <3>1. \/ UNCHANGED db /\ rec[s] = None
            \/ SetRec(s, None)
        BY <1>0, <1>2, <2>1, DeleterStep
      <3> QED BY <1>0, <3>1 DEF SetRec, DbOK, db
    <2>3. pc[d] \notin Ended
      BY <1>2 DEF Ended
    <2> QED BY <1>1, <2>2, <2>3 DEF Identified
  <1>3. CASE pc[d] \in {"pop", "unlist", "deleted"}
    <2>1. NoneSince(d)
      BY <1>3, NoneSinceStep DEF Idle
    <2>2. /\ ~Identified(rec[s])
          /\ \A l \in Listers : d \in seen[l] => s \notin listed[l]
      BY <1>3, <2>1 DEF SoundInv
    <2>3. ~Identified(rec'[s])
      <3>1. ASSUME NEW q \in InFlight(t), Apply(q), Identified(rec'[s]) PROVE FALSE
        <4>1. Wellformed(q)
          BY <1>0, RequestsWellformed
        <4>2. q.op = "create" /\ q.sid = s
          BY <1>0, <2>2, <3>1, <4>1, OwnerChange
        <4>3. t \in Creators /\ Sid[t] = s /\ pc[t] \in Idle
          BY <1>0, <4>2, InFlightFacts, Kinds DEF Idle
        <4>4. t \in seen'[d] /\ seen'[d] = seen[d]
          BY <1>0, <1>3, <4>3, Kinds DEF NoneSince, Control, Frame, Idle
        <4> QED BY <1>0, <4>3, <4>4 DEF SeenInv, Idle, Ended
      <3> QED BY <1>0, <2>2, <3>1 DEF Effect, db
    <2>4. ASSUME NEW l \in Listers, d \in seen'[l] PROVE s \notin listed'[l]
      <3>1. CASE l # t
        BY <1>0, <2>2, <2>4, <3>1, Kinds DEF Frame
      <3>2. CASE l = t
        <4>1. s \notin listed[l]
          BY <1>0, <2>2, <2>4, <3>2, Kinds DEF Control, SeenInv
        <4>2. CASE listed'[l] = listed[l]
          BY <4>1, <4>2
        <4>3. CASE \E r \in Sids : LookedUp(l, r, Identified(rec[r]))
          <5>1. PICK r \in Sids : LookedUp(l, r, Identified(rec[r]))
            BY <4>3
          <5> QED BY <2>2, <4>1, <5>1 DEF LookedUp
        <4>4. CASE \E r \in Sids : LookedUp(l, r, FALSE)
          <5>1. PICK r \in Sids : LookedUp(l, r, FALSE)
            BY <4>4
          <5> QED BY <4>1, <5>1 DEF LookedUp
        <4>5. List(l) \/ RecordUnread(l) \/ CallFails(l)
          BY <3>2, Kinds DEF Step
        <4>6. CASE List(l)
          BY <1>0, <4>2, <4>3, <4>6, ListerStep
        <4>7. CASE RecordUnread(l)
          BY <1>0, <4>4, <4>7, Kinds, UnreadStep
        <4>8. CASE CallFails(l)
          BY <1>0, <4>2, <4>8, Kinds, FailStep DEF Fails
        <4> QED BY <4>5, <4>6, <4>7, <4>8
      <3> QED BY <3>1, <3>2
    <2> QED BY <2>3, <2>4
  <1>4. pc[d] \in {"pop", "unlist", "deleted"} \/ (t = d /\ pc[d] \in {"start", "record"})
    <2>1. CASE t # d
      BY <1>0, <2>1 DEF Frame
    <2>2. CASE t = d
      <3>1. Delete(d)
        BY <1>0, <2>2, Kinds, FailStep DEF Step, RecordUnread, Fails
      <3> QED BY <1>0, <2>2, <3>1, DeleterStep
    <2> QED BY <2>1, <2>2
  <1> QED BY <1>2, <1>3, <1>4

LEMMA SoundLate ==
    ASSUME ControlInv, SoundInv, NEW q \in late, ApplyLate(q)
    PROVE  SoundInv'
  <1> SUFFICES ASSUME NEW d \in Deleters, pc'[d] \in {"pop", "unlist", "deleted"}, NoneSince(d)'
               PROVE  /\ ~Identified(rec'[Sid[d]])
                      /\ \A l \in Listers : d \in seen'[l] => Sid[d] \notin listed'[l]
    BY DEF SoundInv
  <1>0. TypeOK /\ PhaseInv /\ DbOK /\ LateInv /\ Wellformed(q) /\ Sid[d] \in Sids
    BY TypeParts, RequestsWellformed, Kinds DEF ControlInv
  <1>1. Apply(q) /\ UNCHANGED <<pc, seen, listed>>
    BY DEF ApplyLate, own
  <1>2. NoneSince(d)
    BY <1>1 DEF NoneSince
  <1>3. /\ ~Identified(rec[Sid[d]])
        /\ \A l \in Listers : d \in seen[l] => Sid[d] \notin listed[l]
    BY <1>1, <1>2 DEF SoundInv
  <1>4. ~Identified(rec'[Sid[d]])
    BY <1>0, <1>1, <1>2, <1>3, OwnerChange DEF LateInv, Sent, NoneSince
  <1> QED BY <1>1, <1>3, <1>4

-----------------------------------------------------------------------------
(* Lists and deletes, for every value of the constants.                    *)

LifeInv ==
    /\ ControlInv
    /\ BornInv /\ IndexInv /\ ListInv /\ CreateInv /\ SoundInv /\ DeleteInv

LEMMA LifeInit == Init => LifeInv
  <1> SUFFICES ASSUME Init PROVE LifeInv
    OBVIOUS
  <1>0. ControlInv
    BY ControlInit
  <1>1. /\ rec = [s \in Sids |-> None] /\ segs = {} /\ manifest = [s \in Sids |-> 0]
        /\ cache = [p \in Processes |-> [s \in Sids |-> None]]
        /\ \A t \in Tasks : pc[t] \in Idle
        /\ ids = [l \in Listers |-> [s \in Sids |-> 0]]
        /\ stale = [l \in Listers |-> [s \in Sids |-> 0]]
        /\ listed = [l \in Listers |-> {}] /\ seen = [t \in Tasks |-> {}] /\ late = {}
    BY DEF Init, NoEntries, Idle
  <1>2. \A t \in Tasks : pc[t] \notin {"seed", "add", "created", "got", "pop", "unlist", "deleted",
                                      "segments", "record"}
    BY <1>1 DEF Idle
  <1>3. \A s \in Sids : ~Traces(s)
    BY <1>1, <1>2, Kinds DEF Traces
  <1>4. BornInv /\ CreateInv
    BY <1>1, <1>3, Kinds DEF BornInv, CreateInv, Identified
  <1>5. IndexInv
    BY <1>1, Kinds DEF IndexInv, Active
  <1>6. ListInv
    BY <1>1, <1>2, Kinds DEF ListInv
  <1>7. SoundInv /\ DeleteInv
    BY <1>1, <1>2, Kinds DEF SoundInv, DeleteInv, Owed
  <1> QED BY <1>0, <1>4, <1>5, <1>6, <1>7 DEF LifeInv

LEMMA LifeNext == LifeInv /\ [Next]_vars => LifeInv'
  <1>1. LifeInv /\ UNCHANGED vars => LifeInv'
    <2> SUFFICES ASSUME LifeInv, UNCHANGED vars PROVE LifeInv'
      OBVIOUS
    <2>1. ControlInv'
      BY ControlNext DEF LifeInv
    <2>2. UNCHANGED <<rec, segs, manifest, cache, pc, at, top, ids, listed, stale, seen, late,
                      unread>>
      BY DEF vars, db, own, past
    <2>3. BornInv' /\ CreateInv'
      BY <2>2 DEF LifeInv, BornInv, Alive, Traces, CreateInv
    <2>4. IndexInv' /\ ListInv'
      BY <2>2 DEF LifeInv, IndexInv, Alive, Active, ListInv
    <2>5. SoundInv' /\ DeleteInv'
      BY <2>2 DEF LifeInv, SoundInv, NoneSince, DeleteInv, Owed
    <2> QED BY <2>1, <2>3, <2>4, <2>5 DEF LifeInv
  <1>2. ASSUME LifeInv, NEW t \in Tasks, Step(t) PROVE LifeInv'
    BY <1>2, ControlStep, BornStep, IndexStep, ListStep, CreateStep, SoundStep, DeleteStep
    DEF LifeInv
  <1>3. ASSUME LifeInv, NEW q \in late, ApplyLate(q) PROVE LifeInv'
    BY <1>3, ControlLate, BornLate, IndexLate, ListLate, CreateLate, SoundLate, DeleteLate
    DEF LifeInv
  <1> QED BY <1>1, <1>2, <1>3, NextSteps

LEMMA LifeCorrect == Spec => []LifeInv
  BY LifeInit, LifeNext, PTL DEF Spec

\* A delete that returned has removed every event that was acknowledged before
\* it began, whatever appends, timeouts and retries ran beside it, as long as
\* no other delete of the session has begun and no write of the session is
\* applied after its call ended (delete_session, sessions/service.py).
THEOREM DeletesRemoveAcked == Spec => []DeleteRemovesAcked
  <1>1. DeleteInv => DeleteRemovesAcked
    BY DEF DeleteInv, DeleteRemovesAcked, Owed
  <1> QED BY <1>1, LifeCorrect, PTL DEF LifeInv

\* list_sessions never returns a session whose delete had returned before the
\* list began, unless it was created anew or a create failed, although appends
\* may write records of a session that is gone.
THEOREM ListsSound == Spec => []ListSound
  <1>1. SoundInv => ListSound
    BY DEF SoundInv, ListSound, NoneSince
  <1> QED BY <1>1, LifeCorrect, PTL DEF LifeInv

\* list_sessions returns every session whose create had returned before the
\* list began, while its session ids are not used again after a delete: the
\* prune of a list that read the old record would remove the new entry.
THEOREM ListsComplete ==
    ASSUME Recreate = {}
    PROVE  Spec => []ListComplete
  <1>1. ListInv /\ CreateInv => ListComplete
    <2> SUFFICES ASSUME ListInv, CreateInv, NEW l \in Listers, pc[l] = "listed",
                        NEW c \in Creators, c \in seen[l], pc[c] = "created",
                        Sid[c] \notin unread,
                        \A d \in Deleters : Sid[d] = Sid[c] => pc[d] \in Idle \/ d \in seen[c]
                 PROVE  Sid[c] \in listed[l]
      BY DEF ListComplete
    <2>1. Alive(Sid[c]) /\ Sid[c] \in Sids
      BY Kinds DEF CreateInv, Alive
    <2> QED BY <2>1 DEF ListInv
  <1> QED BY <1>1, LifeCorrect, PTL DEF LifeInv

-----------------------------------------------------------------------------
(* Sessions whose calls follow each other.                                 *)

LEMMA ExclusiveStep ==
    ASSUME ControlInv, ExclusiveInv, NEW v \in Tasks, Step(v)
    PROVE  ExclusiveInv'
  <1>1. Frame(v) /\ Control(v)
    BY StepFrame DEF ControlInv
  <1>2. \A u \in OnSession \ {v} : Active(u)' = Active(u)
    BY <1>1, Kinds DEF Frame, Active
  <1>3. ASSUME v \in OnSession, Sid[v] \in Sequential, NEW u \in OnSession \ {v}, Sid[u] = Sid[v]
        PROVE  ~Active(u)
    BY <1>1, <1>3 DEF ExclusiveInv, Active, Control, Begin
  <1> SUFFICES ASSUME NEW t \in OnSession, NEW u \in OnSession, Sid[t] = Sid[u],
                      Sid[t] \in Sequential, Active(t)', Active(u)'
               PROVE  t = u
    BY DEF ExclusiveInv
  <1>4. CASE v \notin {t, u}
    BY <1>2, <1>4 DEF ExclusiveInv
  <1>5. CASE v = t
    BY <1>2, <1>3, <1>5
  <1>6. CASE v = u
    BY <1>2, <1>3, <1>6
  <1> QED BY <1>4, <1>5, <1>6

\* The other calls of the session stand still.
LEMMA Alone ==
    ASSUME ControlInv, ExclusiveInv, NEW t \in OnSession, Step(t), Sid[t] \in Sequential
    PROVE  \A u \in OnSession \ {t} : Sid[u] = Sid[t] =>
              /\ ~Active(u) /\ ~Active(u)'
              /\ pc'[u] = pc[u] /\ at'[u] = at[u] /\ seen'[u] = seen[u]
  <1>1. Frame(t) /\ Control(t)
    BY StepFrame, Kinds DEF ControlInv
  <1>2. \A u \in OnSession \ {t} : pc'[u] = pc[u] /\ at'[u] = at[u] /\ seen'[u] = seen[u]
    BY <1>1, Kinds DEF Frame
  <1> QED BY <1>1, <1>2 DEF ExclusiveInv, Active, Control, Begin

LEMMA AwayStep ==
    ASSUME ControlInv, DeletesAtHome, AwayInv, NEW t \in Tasks, Step(t)
    PROVE  AwayInv'
  <1>0. TypeOK /\ PhaseInv /\ Frame(t)
    BY StepFrame DEF ControlInv
  <1>1. ASSUME NEW c \in Creators PROVE at'[c] = 0
    <2>1. at[c] = 0 /\ c \in Tasks
      BY Kinds DEF AwayInv
    <2>2. CASE c # t
      BY <1>0, <2>1, <2>2 DEF Frame
    <2>3. CASE c = t
      BY <1>0, <1>1, <2>1, <2>3, Kinds, CreatorStep, FailStep DEF Step, Fails, RecordUnread
    <2> QED BY <2>2, <2>3
  <1>2. ASSUME NEW d \in Deleters, NEW p \in Processes, Sid[d] \in Sequential \cap Recreate,
               p # Proc[d]
        PROVE  cache'[p][Sid[d]] \in {None, 0}
    <2>1. cache[p][Sid[d]] \in {None, 0} /\ Sid[d] \in Sids
      BY <1>2, Kinds DEF AwayInv
    <2>2. CASE t \in OnSession /\ p = Proc[t] /\ Sid[d] = Sid[t]
      <3>1. t \notin Getters \cup Appenders
        BY <1>2, <2>2 DEF DeletesAtHome
      <3>2. CASE t \in Creators
        <4>1. at[t] = 0
          BY <3>2 DEF AwayInv
        <4> QED BY <1>0, <2>1, <2>2, <3>2, <4>1, CacheMoves, Kinds
      <3>3. CASE t \in Deleters
        <4>1. CASE Delete(t)
          BY <1>0, <2>1, <2>2, <3>3, <4>1, DeleterStep
        <4>2. CASE CallFails(t)
          BY <1>0, <2>1, <4>2, FailStep DEF Fails
        <4> QED BY <3>3, <4>1, <4>2, Kinds DEF Step, RecordUnread
      <3> QED BY <2>2, <3>1, <3>2, <3>3 DEF OnSession
    <2> QED BY <1>0, <2>1, <2>2 DEF Frame
  <1> QED BY <1>1, <1>2 DEF AwayInv

LEMMA SerialSame ==
    ASSUME ControlInv, NEW s \in Sids, SerialPart(s), Same(s)
    PROVE  SerialPart(s)'
  <1>1. Identified(rec[s]) => rec[s].owner \in OnSession /\ Sid[rec[s].owner] = s
    BY TypeParts, NoneFacts, Kinds DEF ControlInv, OwnerInv, Identified, DbOK
  <1>2. DataPart(s)'
    BY <1>1 DEF SerialPart, DataPart, Same
  <1>3. CachePart(s)'
    BY Kinds DEF SerialPart, CachePart, Same
  <1>4. CallPart(s)'
    <2>1. \A t \in OnSession : Sid[t] = s => Active(t)' = Active(t)
      BY DEF Same, Active
    <2>2. \A t \in Appenders : Sid[t] = s =>
             ([sid |-> s, gidx |-> at[t], ev |-> t] \in segs' <=>
              [sid |-> s, gidx |-> at[t], ev |-> t] \in segs)
      BY DEF Same
    <2> QED BY <2>1, <2>2, Kinds DEF SerialPart, CallPart, Same
  <1> QED BY <1>2, <1>3, <1>4 DEF SerialPart

\* A call that is no delete, on a session that has its record.
LEMMA LiveStep ==
    ASSUME ControlInv, NEW t \in OnSession \ Deleters, Step(t), Identified(rec[Sid[t]])
    PROVE  /\ Identified(rec'[Sid[t]]) /\ rec'[Sid[t]].owner = rec[Sid[t]].owner
           /\ rec[Sid[t]].cur \in Nat /\ rec'[Sid[t]].cur \in Nat
           /\ rec[Sid[t]].cur <= rec'[Sid[t]].cur
           /\ segs \subseteq segs'
  <1> DEFINE s == Sid[t]
  <1>0. /\ TypeOK /\ PhaseInv /\ DbOK /\ OwnerInv /\ Effect(t) /\ s \in Sids /\ t \in Tasks
        /\ rec[s].cur \in Nat
    BY TypeParts, StepFrame, Kinds DEF ControlInv, OwnerInv
  <1>1. CASE UNCHANGED db
    BY <1>0, <1>1 DEF db
  <1>2. CASE \E q \in InFlight(t) : Apply(q)
    <2>1. PICK q \in InFlight(t) : Apply(q)
      BY <1>2
    <2>2. q.sid = s /\ q.gidx \in Nat /\ q.op \notin {"segment", "record", "unlist"}
      BY <1>0, InFlightFacts, Kinds DEF TypeOK
    <2>3. CASE SetEntries(s, manifest[s] + 1) \/ map_put(s, q.gidx, q.by)
      BY <1>0, <2>3 DEF SetEntries, map_put
    <2>4. CASE WriteState(s)
      BY <1>0, <2>4 DEF WriteState, db, Identified
    <2>5. CASE Bump(s, q.gidx)
      <3>1. /\ rec[s].cur = q.gidx /\ segs' = segs
            /\ rec'[s] = [cur |-> q.gidx + 1, owner |-> rec[s].owner]
        BY <1>0, <2>2, <2>5, BumpFacts DEF Identified
      <3>2. rec'[s] # None
        BY <2>2, <3>1, NoneFacts, <1>0 DEF Records, DbOK, Identified
      <3>3. rec'[s].cur = q.gidx + 1 /\ rec'[s].owner = rec[s].owner
        BY <3>1
      <3> QED BY <2>2, <3>1, <3>2, <3>3 DEF Identified
    <2> QED BY <2>1, <2>2, <2>3, <2>4, <2>5, ApplyCases DEF Identified
  <1> QED BY <1>0, <1>1, <1>2 DEF Effect

LEMMA SerialLive ==
    ASSUME ControlInv, CreateInv, ExclusiveInv, NEW t \in OnSession \ Deleters, Step(t),
           Sid[t] \in Sequential, SerialPart(Sid[t]), Identified(rec[Sid[t]])
    PROVE  SerialPart(Sid[t])'
  <1> DEFINE s == Sid[t]
  <1>0. /\ TypeOK /\ PhaseInv /\ SeenInv /\ OwnerInv /\ Frame(t) /\ Control(t) /\ ControlInv'
        /\ t \in Tasks /\ s \in Sids /\ Proc[t] \in Processes
    BY StepFrame, ControlStep, Kinds DEF ControlInv
  <1>1. \A u \in OnSession \ {t} : Sid[u] = s =>
           ~Active(u) /\ ~Active(u)' /\ pc'[u] = pc[u] /\ at'[u] = at[u] /\ seen'[u] = seen[u]
    BY Alone
  <1>2. /\ Identified(rec'[s]) /\ rec'[s].owner = rec[s].owner
        /\ rec[s].cur \in Nat /\ rec'[s].cur \in Nat /\ rec[s].cur <= rec'[s].cur
        /\ segs \subseteq segs'
    BY LiveStep
  <1>3. at[t] \in Nat /\ \A p \in Processes : cache[p][s] \in Nat \cup {None}
    BY <1>0 DEF TypeOK
  <1>4. Active(t) => at[t] <= rec[s].cur
    BY DEF SerialPart, CallPart
  <1>5. \A p \in Processes : cache[p][s] # None => cache[p][s] <= rec[s].cur
    BY DEF SerialPart, CachePart, Identified
  <1>6. DataPart(s)'
    <2>1. rec[s].owner \in Tasks /\ seen'[rec[s].owner] = seen[rec[s].owner]
      <3>1. rec[s].owner \in Tasks /\ pc[rec[s].owner] \notin Idle
        BY <1>0, NoneFacts, Kinds DEF CreateInv, Identified, TypeOK
      <3> QED BY <1>0, <3>1 DEF Frame, Control
    <2>2. ASSUME NEW x \in segs', x.sid = s
          PROVE  x.gidx <= rec'[s].cur /\ x.ev \notin seen[rec[s].owner]
      <3>1. x.gidx \in Nat
        BY <1>0 DEF ControlInv, TypeOK, Events
      <3>2. CASE x \in segs
        BY <1>2, <2>2, <3>1, <3>2 DEF SerialPart, DataPart
      <3>3. CASE x \notin segs
        <4>1. x.ev = t /\ x.gidx = at[t] /\ pc[t] \in {"put", "batch"}
          BY <1>0, <3>3, EventAdded
        <4>2. x.gidx <= rec'[s].cur
          BY <1>2, <1>3, <1>4, <4>1 DEF Active, Ended, Idle
        <4>3. t \notin seen[rec[s].owner]
          BY <1>0, <2>1, <4>1 DEF SeenInv, Ended
        <4> QED BY <4>1, <4>2, <4>3
      <3> QED BY <3>2, <3>3
    <2> QED BY <1>2, <2>1, <2>2 DEF DataPart
  <1>7. CachePart(s)'
    <2>1. ASSUME NEW p \in Processes, cache'[p][s] # None PROVE cache'[p][s] <= rec'[s].cur
      <3>1. CASE p = Proc[t]
        <4>1. cache'[p][s] = cache[p][s] \/ (Active(t) /\ cache'[p][s] = at[t])
          BY <1>0, <3>1, CacheMoves
        <4> QED BY <1>2, <1>3, <1>4, <1>5, <2>1, <4>1
      <3>2. CASE p # Proc[t]
        <4>1. cache'[p][s] = cache[p][s]
          BY <1>0, <3>2 DEF Frame
        <4> QED BY <1>2, <1>3, <1>5, <2>1, <4>1
      <3> QED BY <3>1, <3>2
    <2> QED BY <1>2, <2>1 DEF CachePart, Identified
  <1>8. CallPart(s)'
    <2>1. Active(t)' => at'[t] <= rec'[s].cur
      BY <1>0, <1>2, <1>4, <1>5, IndexMoves DEF Identified
    <2>2. t \in Appenders /\ pc'[t] \in {"placed", "state"} =>
             [sid |-> s, gidx |-> at'[t], ev |-> t] \in segs'
      <3> SUFFICES ASSUME t \in Appenders, pc'[t] \in {"placed", "state"}
                   PROVE  [sid |-> s, gidx |-> at'[t], ev |-> t] \in segs'
        OBVIOUS
      <3>1. AppendEvent(t)
        BY <1>0, Kinds, RetryStep, FailStep DEF Step, RecordUnread, Fails
      <3>2. at'[t] = at[t] /\ (pc[t] = "state" \/ map_put(Sid[t], at[t], t))
        BY <1>0, <3>1, AppenderStep DEF AppenderMoves
      <3>3. CASE pc[t] = "state"
        BY <1>2, <3>2, <3>3 DEF SerialPart, CallPart
      <3>4. CASE map_put(Sid[t], at[t], t)
        BY <3>2, <3>4 DEF map_put
      <3> QED BY <3>2, <3>3, <3>4
    <2>3. \A u \in OnSession \ {t} : Sid[u] = s => pc'[u] \in Ended \cup Idle
      BY <1>1 DEF Active
    <2>4. \A u \in OnSession \ {t} : Sid[u] = s =>
             pc'[u] \notin {"placed", "state", "segments", "record", "pop", "unlist"}
      BY <2>3 DEF Ended, Idle
    <2> QED BY <1>1, <1>2, <2>1, <2>2, <2>4, Kinds DEF CallPart
  <1> QED BY <1>6, <1>7, <1>8 DEF SerialPart

\* A call that is no delete, on a session without a record.
LEMMA SerialBirth ==
    ASSUME ControlInv, BornInv, ExclusiveInv, NEW t \in OnSession \ Deleters, Step(t),
           Sid[t] \in Sequential, SerialPart(Sid[t]), ~Identified(rec[Sid[t]])
    PROVE  SerialPart(Sid[t])'
  <1> DEFINE s == Sid[t]
  <1>0. /\ TypeOK /\ PhaseInv /\ DbOK /\ Frame(t) /\ Control(t) /\ Effect(t) /\ t \in Tasks /\ s \in Sids
    BY StepFrame, Kinds, TypeParts DEF ControlInv
  <1>1. \A u \in OnSession \ {t} : Sid[u] = s =>
           ~Active(u) /\ ~Active(u)' /\ pc'[u] = pc[u] /\ at'[u] = at[u] /\ seen'[u] = seen[u]
    BY Alone
  <1>2. rec[s] = None /\ \A x \in segs : x.sid # s
    BY DEF SerialPart, DataPart
  <1>3. pc[t] = "start" /\ Begin(t)
    <2>1. ~Active(t)
      BY DEF SerialPart, CallPart
    <2> QED BY <1>0, <2>1 DEF Active, Control, Begin
  <1>4. segs' = segs /\ cache' = cache
        /\ \/ rec'[s] = None /\ pc'[t] \in Ended
           \/ /\ t \in Creators /\ rec'[s] = [cur |-> 0, owner |-> t] /\ MayCreate(s)
              /\ Active(t)' => at'[t] = 0
    <2>1. CASE t \in Creators /\ Create(t)
      <3>1. MayCreate(s) /\ at'[t] = 0 /\ UNCHANGED cache
            /\ \/ SetRec(s, [cur |-> 0, owner |-> t])
               \/ pc'[t] = "exists" /\ UNCHANGED db
        BY <1>0, <1>3, <2>1, CreatorStep
      <3> QED BY <1>0, <1>2, <2>1, <3>1 DEF SetRec, db, DbOK, Ended
    <2>2. CASE t \in Creators /\ CallFails(t)
      <3>1. pc'[t] = "failed" /\ UNCHANGED cache /\ MayCreate(s)
        BY <1>0, <1>3, <2>2, FailStep DEF Fails, Idle
      <3>2. \A q \in InFlight(t) : q.op = "create" /\ q.sid = s /\ q.by = t
        BY <1>0, <1>3, <2>2, InFlightFacts, Kinds
      <3>3. CASE UNCHANGED db
        BY <1>2, <3>1, <3>3 DEF db, Ended
      <3>4. CASE \E q \in InFlight(t) : Apply(q)
        <4>1. SetRec(s, [cur |-> 0, owner |-> t])
          BY <3>2, <3>4, ApplyCases
        <4> QED BY <1>0, <2>2, <3>1, <4>1 DEF SetRec, DbOK, Active, Ended
      <3> QED BY <1>0, <3>3, <3>4 DEF Effect
    <2>3. CASE t \in Getters
      <3>1. Get(t) \/ RecordUnread(t)
        BY <1>0, <1>3, <2>3, Kinds, FailStep DEF Step, Fails, Idle
      <3>2. UNCHANGED <<db, cache>> /\ pc'[t] \in {"none"}
        BY <1>0, <1>2, <1>3, <2>3, <3>1, Kinds, GetterStep, UnreadStep
      <3> QED BY <1>2, <3>2 DEF db, Ended
    <2>4. CASE t \in Appenders
      <3>1. FALSE
        BY <1>0, <1>3, <2>4, Kinds, AppenderStep, RetryStep, FailStep
        DEF Step, RecordUnread, Fails, AppenderMoves, Idle
      <3> QED BY <3>1
    <2> QED BY <2>1, <2>2, <2>3, <2>4, Kinds DEF Step, RecordUnread, OnSession
  <1>5. \A u \in OnSession \ {t} : Sid[u] = s =>
           /\ pc[u] \notin {"placed", "state", "segments", "record", "pop", "unlist"}
           /\ pc'[u] \notin {"placed", "state", "segments", "record", "pop", "unlist"}
    BY <1>1 DEF Active, Ended, Idle
  <1>6. CASE rec'[s] = None /\ pc'[t] \in Ended
    <2>1. CachePart(s)'
      BY <1>2, <1>4, <1>5, <1>6, Kinds DEF SerialPart, CachePart
    <2>2. CallPart(s)'
      <3>1. ~Active(t)' /\ pc'[t] \notin {"placed", "state"}
        BY <1>6 DEF Active, Ended
      <3> QED BY <1>1, <1>5, <1>6, <3>1, Kinds DEF CallPart
    <2> QED BY <1>2, <1>4, <1>6, <2>1, <2>2 DEF SerialPart, DataPart
  <1>7. CASE /\ t \in Creators /\ rec'[s] = [cur |-> 0, owner |-> t] /\ MayCreate(s)
             /\ Active(t)' => at'[t] = 0
    <2>1. Identified(rec'[s]) /\ rec'[s].cur = 0 /\ rec'[s] # None
      BY <1>7, NoneFacts DEF Identified, Records
    <2>2. \A p \in Processes : cache[p][s] \in {None, 0}
      <3>1. CASE s \in Recreate
        BY <1>2, <1>5, <3>1, Kinds DEF SerialPart, CachePart
      <3>2. CASE s \notin Recreate
        <4>1. Alive(s)
          BY <1>7, <3>2 DEF MayCreate, Alive
        <4> QED BY <1>0, <4>1, NothingBounded
      <3> QED BY <3>1, <3>2
    <2>3. CachePart(s)'
      BY <1>4, <2>1, <2>2 DEF CachePart
    <2>4. CallPart(s)'
      BY <1>1, <1>5, <1>7, <2>1, Kinds DEF CallPart
    <2>5. DataPart(s)'
      BY <1>2, <1>4, <2>1 DEF DataPart
    <2> QED BY <2>3, <2>4, <2>5 DEF SerialPart
  <1> QED BY <1>4, <1>6, <1>7

LEMMA SerialDelete ==
    ASSUME ControlInv, CreateInv, ExclusiveInv, AwayInv, NEW d \in Deleters, Step(d),
           Sid[d] \in Sequential, SerialPart(Sid[d]), pc'[d] # "failed"
    PROVE  SerialPart(Sid[d])'
  <1> DEFINE s == Sid[d]
  <1>0. /\ TypeOK /\ PhaseInv /\ DbOK /\ OwnerInv /\ Frame(d) /\ Control(d)
        /\ d \in Tasks /\ d \in OnSession /\ s \in Sids /\ Proc[d] \in Processes /\ ControlInv'
    BY StepFrame, Kinds, TypeParts, ControlStep DEF ControlInv
  <1>1. \A u \in OnSession \ {d} : Sid[u] = s =>
           ~Active(u) /\ ~Active(u)' /\ pc'[u] = pc[u] /\ at'[u] = at[u] /\ seen'[u] = seen[u]
    BY <1>0, Alone
  <1>2. \A u \in OnSession \ {d} : Sid[u] = s =>
           /\ pc[u] \notin {"placed", "state", "segments", "record", "pop", "unlist"}
           /\ pc'[u] \notin {"placed", "state", "segments", "record", "pop", "unlist"}
    BY <1>1 DEF Active, Ended, Idle
  <1>3. Delete(d)
    BY <1>0, Kinds, FailStep DEF Step, RecordUnread, Fails
  <1>4. Identified(rec[s]) => /\ seen'[rec[s].owner] = seen[rec[s].owner] /\ rec[s].cur \in Nat
    <2>1. Identified(rec[s]) => rec[s].owner \in Tasks /\ pc[rec[s].owner] \notin Idle
      BY <1>0, NoneFacts, Kinds DEF CreateInv, Identified, TypeOK
    <2> QED BY <1>0, <2>1 DEF Frame, Control, OwnerInv
  <1>5. \A u \in OnSession \ Deleters : Sid[u] = s => ~Active(u)' /\ pc'[u] \notin {"placed", "state"}
    BY <1>1, <1>2
  <1>6. at[d] \in Nat /\ top[d] \in Nat /\ \A x \in segs : x.gidx \in Nat
    BY <1>0 DEF TypeOK, Events
  <1>7. CASE pc[d] = "start"
    <2>1. UNCHANGED <<db, cache>> /\ at'[d] = 0
          /\ \/ pc'[d] = "deleted"
             \/ /\ pc'[d] = "segments" /\ rec[s] # None
                /\ top'[d] = CurOr(rec[s], 0) + 1
      BY <1>0, <1>3, <1>7, DeleterStep
    <2>2. pc'[d] = "segments" => Identified(rec[s]) /\ top'[d] = rec[s].cur + 1
      BY <1>4, <2>1, NoneFacts DEF SerialPart, DataPart, CurOr
    <2>3. DataPart(s)'
      BY <1>4, <2>1 DEF SerialPart, DataPart, db
    <2>4. CachePart(s)'
      BY <1>2, <1>7, <2>1, Kinds DEF SerialPart, CachePart, db
    <2>5. CallPart(s)'
      BY <1>2, <1>5, <1>6, <2>1, <2>2, Kinds DEF CallPart, db
    <2> QED BY <2>3, <2>4, <2>5 DEF SerialPart
  <1>8. CASE pc[d] = "segments"
    <2>1. /\ RemoveSegment(s, at[d]) /\ at'[d] = at[d] + 1 /\ UNCHANGED <<cache, top>>
          /\ pc'[d] = IF at[d] = top[d] THEN "record" ELSE "segments"
      BY <1>0, <1>3, <1>8, DeleterStep
    <2>2. /\ rec' = rec /\ segs' \subseteq segs
          /\ \A x \in segs' : x.sid = s => x.gidx # at[d]
      BY <2>1 DEF RemoveSegment, Segment
    <2>3. /\ Identified(rec[s]) /\ top[d] = rec[s].cur + 1
          /\ \A x \in segs : x.sid = s => at[d] <= x.gidx /\ x.gidx <= rec[s].cur
      BY <1>8 DEF SerialPart, CallPart, DataPart
    <2>4. DataPart(s)'
      BY <1>4, <2>2 DEF SerialPart, DataPart
    <2>5. CachePart(s)'
      BY <2>1, <2>2, <2>3 DEF SerialPart, CachePart, Identified
    <2>6. \A x \in segs' : x.sid = s => at[d] + 1 <= x.gidx /\ at[d] # top[d]
      BY <1>4, <1>6, <2>2, <2>3
    <2>7. CallPart(s)'
      BY <1>2, <1>5, <2>1, <2>2, <2>3, <2>6, Kinds DEF CallPart
    <2> QED BY <2>4, <2>5, <2>7 DEF SerialPart
  <1>9. CASE pc[d] = "record"
    <2>1. pc'[d] = "pop" /\ SetRec(s, None) /\ UNCHANGED cache
      BY <1>0, <1>3, <1>9, DeleterStep
    <2>2. rec'[s] = None /\ segs' = segs /\ \A x \in segs : x.sid # s
      BY <1>0, <1>9, <2>1 DEF SetRec, DbOK, SerialPart, CallPart
    <2>3. CachePart(s)'
      BY <2>1, <2>2 DEF CachePart
    <2>4. CallPart(s)'
      BY <1>2, <1>5, <2>1, <2>2, Kinds DEF CallPart
    <2> QED BY <2>2, <2>3, <2>4 DEF SerialPart, DataPart
  <1>10. CASE pc[d] \in {"pop", "unlist"}
    <2>1. rec[s] = None /\ \A x \in segs : x.sid # s
      BY <1>10 DEF SerialPart, CallPart, DataPart, Identified
    <2>2. rec' = rec /\ segs' = segs /\ pc'[d] \in {"unlist", "deleted"}
      BY <1>0, <1>3, <1>10, DeleterStep DEF SetEntries, db
    <2>3. s \in Recreate => \A p \in Processes : cache'[p][s] \in {None, 0}
      <3>1. CASE pc[d] = "pop"
        <4>1. cache'[Proc[d]][s] = None
          BY <1>0, <1>3, <3>1, DeleterStep
        <4>2. ASSUME s \in Recreate, NEW p \in Processes, p # Proc[d]
              PROVE  cache'[p][s] \in {None, 0}
          BY <1>0, <4>2 DEF Frame, AwayInv
        <4> QED BY <4>1, <4>2
      <3>2. CASE pc[d] = "unlist"
        <4>1. cache' = cache
          BY <1>0, <1>3, <3>2, DeleterStep
        <4> QED BY <1>2, <2>1, <3>2, <4>1, Kinds DEF SerialPart, CachePart
      <3> QED BY <1>10, <3>1, <3>2
    <2>4. CachePart(s)'
      BY <2>1, <2>2, <2>3 DEF CachePart
    <2>5. CallPart(s)'
      BY <1>2, <1>5, <2>1, <2>2, Kinds DEF CallPart
    <2> QED BY <2>1, <2>2, <2>4, <2>5 DEF SerialPart, DataPart
  <1> QED BY <1>0, <1>3, <1>7, <1>8, <1>9, <1>10, DeleterStep

LEMMA SerialStep ==
    ASSUME ControlInv, BornInv, CreateInv, ExclusiveInv, AwayInv, SerialInv,
           NEW t \in Tasks, Step(t)
    PROVE  SerialInv'
  <1> SUFFICES ASSUME NEW s \in Sequential \ Late, NoneFailed(s)'
               PROVE  SerialPart(s)'
    BY DEF SerialInv
  <1>0. Frame(t) /\ Control(t) /\ s \in Sids
    BY StepFrame, LifecycleAssumption DEF ControlInv
  <1>1. NoneFailed(s)
    BY <1>0, Kinds DEF NoneFailed, Frame, Control, Ended
  <1>2. SerialPart(s)
    BY <1>1 DEF SerialInv
  <1>3. CASE t \in Listers
    BY <1>0, <1>2, <1>3, ListSame, SerialSame
  <1>4. CASE t \in OnSession /\ Sid[t] # s
    BY <1>0, <1>2, <1>4, StepElsewhere, SerialSame
  <1>5. CASE t \in OnSession \ Deleters /\ Sid[t] = s
    BY <1>2, <1>5, SerialLive, SerialBirth
  <1>6. CASE t \in Deleters /\ Sid[t] = s
    BY <1>2, <1>6, SerialDelete DEF NoneFailed
  <1> QED BY <1>3, <1>4, <1>5, <1>6 DEF Tasks

LEMMA SerialLate ==
    ASSUME ControlInv, SerialInv, NEW q \in late, ApplyLate(q)
    PROVE  SerialInv'
  <1> SUFFICES ASSUME NEW s \in Sequential \ Late, NoneFailed(s)'
               PROVE  SerialPart(s)'
    BY DEF SerialInv
  <1>1. s \in Sids /\ s # q.sid /\ NoneFailed(s)
    BY LifecycleAssumption DEF ControlInv, LateInv, Sent, ApplyLate, NoneFailed
  <1> QED BY <1>1, LateElsewhere, SerialSame DEF SerialInv

LEMMA AckedStep ==
    ASSUME ControlInv, SerialInv, AckedInv, NEW u \in Tasks, Step(u)
    PROVE  AckedInv'
  <1> SUFFICES ASSUME NEW t \in Appenders, pc'[t] = "acked", Sid[t] \in Sequential \ Late,
                      Kept(t)'
               PROVE  [sid |-> Sid[t], gidx |-> at'[t], ev |-> t] \in segs'
    BY DEF AckedInv
  <1> DEFINE x == [sid |-> Sid[t], gidx |-> at[t], ev |-> t]
  <1>0. /\ TypeOK /\ PhaseInv /\ SeenInv /\ Frame(u) /\ Control(u) /\ Effect(u)
        /\ t \in Tasks /\ t \in OnSession /\ Sid[t] \in Sids
    BY StepFrame, Kinds DEF ControlInv
  <1>1. CASE t = u
    <2>1. AppendEvent(t)
      BY <1>0, <1>1, Kinds, RetryStep, FailStep DEF Step, RecordUnread, Fails
    <2>2. pc[t] = "placed" /\ at'[t] = at[t] /\ UNCHANGED db
      BY <1>0, <2>1, AppenderStep DEF AppenderMoves
    <2>3. NoneFailed(Sid[t])
      BY <1>0, <1>1, Kinds DEF Kept, NoneFailed, Frame, Idle
    <2>4. x \in segs
      BY <2>2, <2>3 DEF SerialInv, SerialPart, CallPart
    <2> QED BY <2>2, <2>4 DEF db
  <1>2. CASE t # u
    <2>1. pc[t] = "acked" /\ at'[t] = at[t] /\ seen'[t] = seen[t]
      BY <1>0, <1>2 DEF Frame
    <2>2. Kept(t)
      BY <1>0, <2>1, Kinds DEF Kept, Frame, Control, Ended
    <2>3. x \in segs
      BY <2>1, <2>2 DEF AckedInv
    <2>4. ASSUME NEW q \in InFlight(u), Apply(q) PROVE x \in segs'
      <3>1. CASE q.op = "segment"
        <4>1. q.sid # Sid[t]
          <5>1. u \in Deleters /\ pc[u] = "segments" /\ q.sid = Sid[u]
            BY <1>0, <3>1, InFlightFacts, Kinds
          <5>2. Sid[u] = Sid[t] => u \in seen[t]
            BY <2>2, <5>1 DEF Kept, Idle
          <5> QED BY <1>0, <5>1, <5>2 DEF SeenInv, Ended
        <4> QED BY <2>3, <2>4, <3>1, <4>1, ApplyCases DEF RemoveSegment, Segment
      <3>2. CASE q.op # "segment"
        <4>1. WriteState(q.sid) \/ Bump(q.sid, q.gidx) => segs' = segs
          BY DEF WriteState, Bump, SetRec, db
        <4> QED BY <2>3, <2>4, <3>2, <4>1, ApplyCases DEF SetRec, SetEntries, map_put
      <3> QED BY <3>1, <3>2
    <2> QED BY <1>0, <2>1, <2>3, <2>4 DEF Effect, db
  <1> QED BY <1>1, <1>2

LEMMA AckedLate ==
    ASSUME ControlInv, AckedInv, NEW q \in late, ApplyLate(q)
    PROVE  AckedInv'
  <1> SUFFICES ASSUME NEW t \in Appenders, pc'[t] = "acked", Sid[t] \in Sequential \ Late,
                      Kept(t)'
               PROVE  [sid |-> Sid[t], gidx |-> at'[t], ev |-> t] \in segs'
    BY DEF AckedInv
  <1>1. UNCHANGED <<pc, at, seen>> /\ Sid[t] \in Sids /\ Sid[t] # q.sid
    BY Kinds DEF ApplyLate, ControlInv, LateInv, Sent
  <1>2. [sid |-> Sid[t], gidx |-> at[t], ev |-> t] \in segs
    BY <1>1 DEF AckedInv, Kept
  <1> QED BY <1>1, <1>2, LateElsewhere DEF Same

SequentialInv == LifeInv /\ ExclusiveInv /\ AwayInv /\ SerialInv /\ AckedInv

LEMMA SequentialInit == Init => SequentialInv
  <1> SUFFICES ASSUME Init PROVE SequentialInv
    OBVIOUS
  <1>0. LifeInv
    BY LifeInit
  <1>1. /\ rec = [s \in Sids |-> None] /\ segs = {} /\ at = [t \in Tasks |-> 0]
        /\ cache = [p \in Processes |-> [s \in Sids |-> None]]
        /\ \A t \in Tasks : pc[t] \in Idle
    BY DEF Init, Idle
  <1>2. \A t \in Tasks : ~Active(t) /\ pc[t] \notin {"placed", "state", "segments", "record", "pop",
                                                    "unlist", "acked"}
    BY <1>1 DEF Active, Idle
  <1>3. ExclusiveInv /\ AckedInv
    BY <1>2, Kinds DEF ExclusiveInv, AckedInv
  <1>4. AwayInv
    BY <1>1, Kinds DEF AwayInv
  <1>5. ASSUME NEW s \in Sids PROVE SerialPart(s)
    BY <1>1, <1>2, Kinds DEF SerialPart, DataPart, CachePart, CallPart
  <1>6. SerialInv
    BY <1>5, LifecycleAssumption DEF SerialInv
  <1> QED BY <1>0, <1>3, <1>4, <1>6 DEF SequentialInv

LEMMA SequentialNext ==
    ASSUME DeletesAtHome
    PROVE  SequentialInv /\ [Next]_vars => SequentialInv'
  <1>0. SequentialInv /\ [Next]_vars => LifeInv'
    BY LifeNext DEF SequentialInv
  <1>1. SequentialInv /\ UNCHANGED vars => SequentialInv'
    <2> SUFFICES ASSUME SequentialInv, UNCHANGED vars PROVE SequentialInv'
      OBVIOUS
    <2>1. UNCHANGED <<rec, segs, cache, pc, at, top, seen>>
      BY DEF vars, db, own
    <2>2. ExclusiveInv' /\ AwayInv' /\ AckedInv'
      BY <2>1 DEF SequentialInv, ExclusiveInv, Active, AwayInv, AckedInv, Kept
    <2>3. \A s : SerialPart(s) => SerialPart(s)'
      BY <2>1 DEF SerialPart, DataPart, CachePart, CallPart, Active
    <2>4. SerialInv'
      BY <2>1, <2>3 DEF SequentialInv, SerialInv, NoneFailed
    <2> QED BY <1>0, <2>2, <2>4 DEF SequentialInv
  <1>2. ASSUME SequentialInv, NEW t \in Tasks, Step(t)
        PROVE  ExclusiveInv' /\ AwayInv' /\ SerialInv' /\ AckedInv'
    BY <1>2, ExclusiveStep, AwayStep, SerialStep, AckedStep DEF SequentialInv, LifeInv
  <1>3. ASSUME SequentialInv, NEW q \in late, ApplyLate(q)
        PROVE  ExclusiveInv' /\ AwayInv' /\ SerialInv' /\ AckedInv'
    <2>1. UNCHANGED <<cache, pc, at>>
      BY <1>3 DEF ApplyLate
    <2>2. ExclusiveInv' /\ AwayInv'
      BY <1>3, <2>1 DEF SequentialInv, ExclusiveInv, Active, AwayInv
    <2> QED BY <1>3, <2>2, SerialLate, AckedLate DEF SequentialInv, LifeInv
  <1> QED BY <1>0, <1>1, <1>2, <1>3, NextSteps DEF SequentialInv

LEMMA SequentialCorrect ==
    ASSUME DeletesAtHome
    PROVE  Spec => []SequentialInv
  BY SequentialInit, SequentialNext, PTL DEF Spec

\* An acknowledged event of a session whose calls follow each other is where
\* get_session looks for it, across deletes and creations anew, timeouts and
\* retries, if sessions that are created anew are deleted in the process that
\* cached their segment index and no write is applied after its call ended.
THEOREM AckedEventsVisible ==
    ASSUME DeletesAtHome, Sequential \cap Late = {}
    PROVE  Spec => []AckedVisible
  <1>1. SequentialInv => AckedVisible
    <2> SUFFICES ASSUME SequentialInv, NEW t \in Appenders, pc[t] = "acked",
                        Sid[t] \in Sequential, Kept(t)
                 PROVE  /\ rec[Sid[t]] # None
                        /\ \E x \in segs : /\ x.ev = t /\ x.sid = Sid[t]
                                           /\ x.gidx <= CurOr(rec[Sid[t]], 0)
      BY DEF AckedVisible, Kept
    <2>1. Sid[t] \in Sequential \ Late
      OBVIOUS
    <2>2. [sid |-> Sid[t], gidx |-> at[t], ev |-> t] \in segs
      BY <2>1 DEF SequentialInv, AckedInv
    <2>3. SerialPart(Sid[t])
      BY <2>1 DEF SequentialInv, SerialInv, NoneFailed, Kept, Idle
    <2>4. Identified(rec[Sid[t]]) /\ at[t] <= rec[Sid[t]].cur
      BY <2>2, <2>3 DEF SerialPart, DataPart
    <2>5. rec[Sid[t]].cur \in Nat
      BY <2>4, Kinds DEF SequentialInv, LifeInv, ControlInv, OwnerInv
    <2>6. CurOr(rec[Sid[t]], 0) = rec[Sid[t]].cur
      BY <2>5, NoneFacts DEF CurOr
    <2> QED BY <2>2, <2>4, <2>6 DEF Identified
  <1> QED BY <1>1, SequentialCorrect, PTL

\* A session that is created anew shows no event of an append that had ended
\* before the create began, if callers use an id again only where one call
\* follows the other and delete in the process that cached the segment index.
THEOREM RecreatedEmpty ==
    ASSUME DeletesAtHome, Recreate \subseteq Sequential
    PROVE  Spec => []FreshEmpty
  <1>1. SequentialInv => FreshEmpty
    <2> SUFFICES ASSUME SequentialInv, NEW x \in segs, Identified(rec[x.sid]), x.sid \notin Late,
                        NoneFailed(x.sid)
                 PROVE  x.ev \notin seen[rec[x.sid].owner]
      BY DEF FreshEmpty, NoneFailed
    <2>1. x.sid \in Sids /\ x.ev \in Appenders
      BY DEF SequentialInv, LifeInv, ControlInv, TypeOK, Events
    <2>2. CASE x.sid \in Recreate
      BY <2>2 DEF SequentialInv, SerialInv, SerialPart, DataPart
    <2>3. CASE x.sid \notin Recreate
      BY <2>1, <2>3 DEF SequentialInv, LifeInv, CreateInv
    <2> QED BY <2>2, <2>3
  <1> QED BY <1>1, SequentialCorrect, PTL
=============================================================================
