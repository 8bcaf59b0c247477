------------------------ MODULE StorageLayoutProofs ------------------------
(***************************************************************************)
(* What holds of StorageLayout for every value of its constants: any calls *)
(* of any applications, users and processes, in any order, with any        *)
(* failures.                                                               *)
(***************************************************************************)
EXTENDS StorageLayout, FiniteSetTheorems, SequenceTheorems, TLAPS

-----------------------------------------------------------------------------
(* The requests of a call, by its operation.                               *)

SessionCreate(j) ==
    Req("create", SessionPlace(Job[j]),
        [app |-> Job[j].app, uid |-> Job[j].user, sid |-> Job[j].sid,
         state |-> Parts(j).session, ts |-> j, cur |-> 0])
SessionWrite(j) == Req("write", SessionPlace(Job[j]), [state |-> Parts(j).session, ts |-> j])
AppWrite(j)     == PutItems(AppPlace(Job[j]), Parts(j).app)
UserWrite(j)    == PutItems(UserPlace(Job[j]), Parts(j).user)
ManifestAdd(j) ==
    Req("write", ManifestPlace(Job[j]), [sman |-> <<[value |-> Job[j].sid, by |-> j]>>])
ManifestRemove(j) == Req("unlist", ManifestPlace(Job[j]), [sman |-> Job[j].sid])
EventWrite(j)     == Req("write", SegmentPlace(Job[j], 0), [events |-> {j}])
HeadIncrement(j)  == Req("increment", HeadPlace(Job[j]), [ver |-> 1])
VersionCreate(j, n) ==
    LET c == Job[j] IN
    Req("create", ArtifactPlace(c, n),
        [app |-> c.app, uid |-> c.user, sid |-> ScopeOf(c),
         aus |-> scope_tuple(c.app, c.user, ScopeOf(c)), fname |-> c.file,
         ver |-> n, mime |-> j, data |-> j, ctime |-> j, cmeta |-> j])
RowWrite(j) ==
    LET c == Job[j] IN
    Req("write", MemoryPlace(c),
        [app |-> c.app, uid |-> c.user, sid |-> c.sid,
         aus |-> scope_tuple(c.app, c.user, c.sid), eid |-> c.event, text |-> j,
         keywords |-> {c.token}, author |-> j, ts |-> j, content |-> j])
PostingAdd(j) ==
    Req("write", PostingPlace(Job[j]),
        [mpl |-> <<[value |-> <<Job[j].event, Job[j].sid>>, by |-> j]>>])
SessionsQuery(j) == Query("sessions", "app", Job[j].app)
FilesQuery(j, scope) ==
    Query("artifacts", "aus", scope_tuple(Job[j].app, Job[j].user, scope))

CreateReqs(j) == {SessionCreate(j), AppWrite(j), UserWrite(j), ManifestAdd(j),
                  Read(AppPlace(Job[j])), Read(UserPlace(Job[j]))}
AppendReqs(j) == {EventWrite(j), SessionWrite(j), AppWrite(j), UserWrite(j)}
GetReqs(j)    == {Read(SessionPlace(Job[j])), Read(AppPlace(Job[j])), Read(UserPlace(Job[j]))}
DeleteReqs(j) == {Read(SessionPlace(Job[j])), Remove(SegmentPlace(Job[j], 0)),
                  Remove(SegmentPlace(Job[j], 1)), Remove(SessionPlace(Job[j])),
                  ManifestRemove(j)}
ListReqs(j)   == {SessionsQuery(j)}
SaveReqs(j)   == {HeadIncrement(j)} \cup {VersionCreate(j, n) : n \in 0..MaxVersion}
FilesReqs(j)  == {FilesQuery(j, USER_SCOPE_SID), FilesQuery(j, Job[j].sid)}
IngestReqs(j) == {Read(MemoryPlace(Job[j])), RowWrite(j), PostingAdd(j)}

IfOp(j, op, reqs) == IF Job[j].op = op THEN reqs ELSE {}
Requests(j) ==
    IfOp(j, "create_session", CreateReqs(j)) \cup IfOp(j, "append_event", AppendReqs(j))
    \cup IfOp(j, "get_session", GetReqs(j)) \cup IfOp(j, "delete_session", DeleteReqs(j))
    \cup IfOp(j, "list_sessions", ListReqs(j)) \cup IfOp(j, "save_artifact", SaveReqs(j))
    \cup IfOp(j, "list_artifact_keys", FilesReqs(j))
    \cup IfOp(j, "add_events_to_memory", IngestReqs(j))

\* A request that no service may send twice: it is alone in its stage.
Delicate(q) ==
    q.do = "increment" \/ (q.do = "write" /\ ("sman" \in DOMAIN q.bins \/ "mpl" \in DOMAIN q.bins))
Alone(st) ==
    \A q \in st.reqs : Delicate(q) => st.reqs = {q} /\ st.cls = "operate" /\ st.again = "never"
Classes == {"read", "write", "operate", "remove", "query", "batch"}
Again == {"never", "always", "rejected"}
StagesOf(j) ==
    {st \in [cls : Classes, again : Again, reqs : SUBSET Requests(j)] : Alone(st)}

Quiet(j) == {st \in StagesOf(j) : \A q \in st.reqs : ~Delicate(q)}

\* A plan: its stages, of which at most one has a delicate request.
PlanShape(j, plan) ==
    /\ plan \in Seq(StagesOf(j)) /\ Len(plan) \in 1..5
    /\ \A m, n \in 1..Len(plan) : \A q \in plan[m].reqs, r \in plan[n].reqs :
          Delicate(q) /\ Delicate(r) => m = n

LEMMA JobType == ASSUME NEW j \in Jobs PROVE Job[j] \in Calls
  BY LayoutAssumption

LEMMA OneOperation ==
    ASSUME NEW j \in Jobs
    PROVE  \/ Job[j].op = "create_session" /\ Requests(j) = CreateReqs(j)
           \/ Job[j].op = "append_event" /\ Requests(j) = AppendReqs(j)
           \/ Job[j].op = "get_session" /\ Requests(j) = GetReqs(j)
           \/ Job[j].op = "delete_session" /\ Requests(j) = DeleteReqs(j)
           \/ Job[j].op = "list_sessions" /\ Requests(j) = ListReqs(j)
           \/ Job[j].op = "save_artifact" /\ Requests(j) = SaveReqs(j)
           \/ Job[j].op = "list_artifact_keys" /\ Requests(j) = FilesReqs(j)
           \/ Job[j].op = "add_events_to_memory" /\ Requests(j) = IngestReqs(j)
<1>1. Job[j].op \in Operations
  BY JobType DEF Calls
<1> QED
  BY <1>1 DEF Operations, Requests, IfOp

LEMMA StageIn ==
    ASSUME NEW j \in Jobs, NEW cls \in Classes, NEW again \in Again,
           NEW reqs \in SUBSET Requests(j),
           \A q \in reqs : Delicate(q) => reqs = {q} /\ cls = "operate" /\ again = "never"
    PROVE  /\ Stage(cls, again, reqs) \in Seq(StagesOf(j)) /\ Len(Stage(cls, again, reqs)) = 1
           /\ Stage(cls, again, reqs)[1].reqs = reqs
           /\ (\A q \in reqs : ~Delicate(q)) => Stage(cls, again, reqs) \in Seq(Quiet(j))
<1> DEFINE st == [cls |-> cls, again |-> again, reqs |-> reqs]
<1>1. st \in [cls : Classes, again : Again, reqs : SUBSET Requests(j)]
  OBVIOUS
<1>2. st.reqs = reqs /\ st.cls = cls /\ st.again = again
  OBVIOUS
<1>3. st \in StagesOf(j)
  BY <1>1, <1>2 DEF StagesOf, Alone
<1>4. (\A q \in reqs : ~Delicate(q)) => st \in Quiet(j)
  BY <1>2, <1>3 DEF Quiet
<1>5. Stage(cls, again, reqs) = <<st>>
  BY DEF Stage
<1> HIDE DEF st
<1>6. <<st>> \in Seq(StagesOf(j)) /\ Len(<<st>>) = 1 /\ <<st>>[1] = st
  BY <1>3
<1>7. st \in Quiet(j) => <<st>> \in Seq(Quiet(j))
  OBVIOUS
<1> QED
  BY <1>2, <1>4, <1>5, <1>6, <1>7

LEMMA SingleIn ==
    ASSUME NEW j \in Jobs, NEW q \in Requests(j)
    PROVE  /\ Stage("operate", "never", {q}) \in Seq(StagesOf(j))
           /\ Len(Stage("operate", "never", {q})) = 1
<1>1. {q} \in SUBSET Requests(j)
  OBVIOUS
<1>2. \A r \in {q} : Delicate(r) => {q} = {r}
  OBVIOUS
<1>3. "operate" \in Classes /\ "never" \in Again
  BY DEF Classes, Again
<1> QED
  BY <1>1, <1>2, <1>3, StageIn

\* A stage of one request, and of two.
LEMMA PlainIn ==
    ASSUME NEW j \in Jobs, NEW cls \in Classes, NEW again \in Again,
           NEW q \in Requests(j), NEW r \in Requests(j), ~Delicate(q), ~Delicate(r)
    PROVE  /\ Stage(cls, again, {q}) \in Seq(Quiet(j)) /\ Len(Stage(cls, again, {q})) = 1
           /\ Stage(cls, again, {q, r}) \in Seq(Quiet(j))
           /\ Len(Stage(cls, again, {q, r})) = 1
<1>1. {q} \in SUBSET Requests(j) /\ \A x \in {q} : ~Delicate(x)
  OBVIOUS
<1>2. {q, r} \in SUBSET Requests(j) /\ \A x \in {q, r} : ~Delicate(x)
  OBVIOUS
<1>3. Stage(cls, again, {q}) \in Seq(Quiet(j)) /\ Len(Stage(cls, again, {q})) = 1
  BY <1>1, StageIn
<1>4. Stage(cls, again, {q, r}) \in Seq(Quiet(j)) /\ Len(Stage(cls, again, {q, r})) = 1
  BY <1>2, StageIn
<1> QED
  BY <1>3, <1>4

LEMMA Joined ==
    ASSUME NEW S, NEW s \in Seq(S), NEW t \in Seq(S)
    PROVE  /\ s \o t \in Seq(S) /\ Len(s \o t) = Len(s) + Len(t)
           /\ \A i \in 1..Len(s) : (s \o t)[i] = s[i]
           /\ \A i \in 1..Len(t) : (s \o t)[Len(s) + i] = t[i]
           /\ Len(s) \in Nat /\ Len(t) \in Nat
<1>1. Len(s) \in Nat /\ Len(t) \in Nat
  OBVIOUS
<1>2. /\ s \o t \in Seq(S) /\ Len(s \o t) = Len(s) + Len(t)
      /\ \A i \in 1..Len(s) + Len(t) :
            (s \o t)[i] = IF i <= Len(s) THEN s[i] ELSE t[i - Len(s)]
  BY ConcatProperties
<1>3. ASSUME NEW i \in 1..Len(t) PROVE (s \o t)[Len(s) + i] = t[i]
  <2>1. Len(s) + i \in 1..Len(s) + Len(t) /\ ~(Len(s) + i <= Len(s)) /\ (Len(s) + i) - Len(s) = i
    BY <1>1
  <2> QED
    BY <1>2, <2>1
<1>4. ASSUME NEW i \in 1..Len(s) PROVE (s \o t)[i] = s[i]
  <2>1. i \in 1..Len(s) + Len(t) /\ i <= Len(s)
    BY <1>1
  <2> QED
    BY <1>2, <2>1
<1> QED
  BY <1>1, <1>2, <1>3, <1>4

\* Lengths of plans.
LEMMA Sums ==
    \A x, y : /\ x = 3 /\ y = 1 => x + y = 4
              /\ x = 4 /\ y = 1 => x + y = 5
              /\ x \in 1..3 /\ y = 1 => x + y \in 0..4
  OBVIOUS

LEMMA QuietShape ==
    ASSUME NEW j \in Jobs, NEW plan \in Seq(Quiet(j)), Len(plan) \in 1..5
    PROVE  PlanShape(j, plan)
<1>1. plan \in Seq(StagesOf(j))
  <2>1. \A n \in 1..Len(plan) : plan[n] \in Quiet(j)
    OBVIOUS
  <2>2. \A n \in 1..Len(plan) : plan[n] \in StagesOf(j)
    BY <2>1 DEF Quiet
  <2> QED
    BY <2>2
<1>2. \A n \in 1..Len(plan) : \A q \in plan[n].reqs : ~Delicate(q)
  BY DEF Quiet
<1> QED
  BY <1>1, <1>2 DEF PlanShape

\* Quiet stages, a single request, and quiet stages again.
LEMMA AroundShape ==
    ASSUME NEW j \in Jobs, NEW s \in Seq(Quiet(j)), NEW t \in Seq(Quiet(j)),
           NEW q \in Requests(j), Len(s) + Len(t) \in 0..4
    PROVE  /\ PlanShape(j, s \o Stage("operate", "never", {q}) \o t)
           /\ Len(s \o Stage("operate", "never", {q}) \o t) = Len(s) + 1 + Len(t)
<1> DEFINE d == Stage("operate", "never", {q})
           sd == s \o d
           plan == sd \o t
           S == StagesOf(j)
<1>1. d \in Seq(S) /\ Len(d) = 1
  BY SingleIn
<1>2. s \in Seq(S) /\ t \in Seq(S)
  <2>1. Quiet(j) \subseteq S
    BY DEF Quiet
  <2>2. \A x \in Seq(Quiet(j)) : x \in Seq(S)
    BY <2>1
  <2> QED
    BY <2>2
<1> HIDE DEF d, S
<1>3. /\ sd \in Seq(S) /\ Len(sd) = Len(s) + 1 /\ Len(s) \in Nat
      /\ \A n \in 1..Len(s) : sd[n] = s[n]
  BY <1>1, <1>2, Joined
<1> HIDE DEF sd
<1>4. /\ plan \in Seq(S) /\ Len(plan) = Len(sd) + Len(t) /\ Len(t) \in Nat
      /\ \A n \in 1..Len(sd) : plan[n] = sd[n]
      /\ \A n \in 1..Len(t) : plan[Len(sd) + n] = t[n]
  BY <1>2, <1>3, Joined
<1> HIDE DEF plan
<1>5. ASSUME NEW n \in 1..Len(plan), NEW r \in plan[n].reqs, Delicate(r)
      PROVE  n = Len(s) + 1
  <2>1. CASE n \in 1..Len(s)
    <3>1. n \in 1..Len(sd)
      BY <1>3, <2>1
    <3>2. plan[n] = s[n]
      BY <1>3, <1>4, <2>1, <3>1
    <3>3. s[n] \in Quiet(j)
      BY <2>1
    <3> QED
      BY <3>2, <3>3, <1>5 DEF Quiet
  <2>2. CASE n > Len(s) + 1
    <3> DEFINE k == n - Len(sd)
    <3>1. k \in 1..Len(t) /\ n = Len(sd) + k
      BY <1>3, <1>4, <2>2
    <3>2. plan[n] = t[k]
      BY <1>4, <3>1
    <3>3. t[k] \in Quiet(j)
      BY <3>1
    <3> QED
      BY <3>2, <3>3, <1>5 DEF Quiet
  <2> QED
    BY <2>1, <2>2, <1>3
<1>6. Len(plan) = Len(s) + 1 + Len(t) /\ Len(plan) \in 1..5
  BY <1>3, <1>4
<1>7. PlanShape(j, plan)
  BY <1>4, <1>5, <1>6 DEF PlanShape, S
<1> QED
  BY <1>6, <1>7 DEF plan, sd, d

\* What is not delicate.
LEMMA Harmless ==
    ASSUME NEW place, NEW bins, NEW part, NEW set, NEW bin, NEW value
    PROVE  /\ ~Delicate(Read(place)) /\ ~Delicate(Remove(place))
           /\ ~Delicate(Query(set, bin, value)) /\ ~Delicate(Req("create", place, bins))
           /\ ~Delicate(PutItems(place, part))
<1>1. \A do, b : Req(do, place, b).do = do /\ Req(do, place, b).bins = b
  BY DEF Req
<1>2. "sman" \notin DOMAIN [state |-> part] /\ "mpl" \notin DOMAIN [state |-> part]
  OBVIOUS
<1>3. Query(set, bin, value).do = "query"
  BY DEF Query, Req
<1> QED
  BY <1>1, <1>2, <1>3 DEF Delicate, Read, Remove, PutItems

LEMMA HarmlessWrites ==
    ASSUME NEW j \in Jobs
    PROVE  /\ ~Delicate(EventWrite(j)) /\ ~Delicate(SessionWrite(j)) /\ ~Delicate(RowWrite(j))
           /\ ~Delicate(AppWrite(j)) /\ ~Delicate(UserWrite(j)) /\ ~Delicate(SessionCreate(j))
           /\ \A n : ~Delicate(VersionCreate(j, n))
<1>1. ~Delicate(EventWrite(j))
  BY DEF Delicate, Req, EventWrite
<1>2. ~Delicate(SessionWrite(j))
  BY DEF Delicate, Req, SessionWrite
<1>3. ~Delicate(RowWrite(j))
  BY DEF Delicate, Req, RowWrite
<1> QED
  BY <1>1, <1>2, <1>3, Harmless DEF AppWrite, UserWrite, SessionCreate, VersionCreate

LEMMA CreatePlan ==
    ASSUME NEW j \in Jobs, Job[j].op = "create_session"
    PROVE  PlanShape(j, create_session(j)) /\ create_session(j)[1].reqs = {SessionCreate(j)}
<1> DEFINE a == Stage("write", "rejected", {SessionCreate(j)})
           b == _merge_scoped_state(AppPlace(Job[j]), Parts(j).app)
           c == _merge_scoped_state(UserPlace(Job[j]), Parts(j).user)
           d == Stage("operate", "never", {ManifestAdd(j)})
           e == _merge_state_for_read(Job[j])
           S == Quiet(j)
<1>1. Requests(j) = CreateReqs(j)
  BY OneOperation
<1>2. create_session(j) = a \o b \o c \o d \o e
  BY DEF create_session, SessionCreate, ManifestAdd
<1>3. a \in Seq(S) /\ Len(a) = 1
  <2>1. SessionCreate(j) \in Requests(j)
    BY <1>1 DEF CreateReqs
  <2> QED
    BY <2>1, HarmlessWrites, PlainIn DEF Classes, Again
<1>4. b \in Seq(S) /\ Len(b) \in 0..1
  <2>0. AppWrite(j) \in Requests(j)
    BY <1>1 DEF CreateReqs
  <2>1. Stage("operate", "never", {AppWrite(j)}) \in Seq(S)
        /\ Len(Stage("operate", "never", {AppWrite(j)})) = 1
    BY <2>0, HarmlessWrites, PlainIn DEF Classes, Again
  <2>2. <<>> \in Seq(S) /\ Len(<<>>) = 0
    OBVIOUS
  <2> QED
    BY <2>1, <2>2 DEF _merge_scoped_state, When, AppWrite
<1>5. c \in Seq(S) /\ Len(c) \in 0..1
  <2>0. UserWrite(j) \in Requests(j)
    BY <1>1 DEF CreateReqs
  <2>1. Stage("operate", "never", {UserWrite(j)}) \in Seq(S)
        /\ Len(Stage("operate", "never", {UserWrite(j)})) = 1
    BY <2>0, HarmlessWrites, PlainIn DEF Classes, Again
  <2>2. <<>> \in Seq(S) /\ Len(<<>>) = 0
    OBVIOUS
  <2> QED
    BY <2>1, <2>2 DEF _merge_scoped_state, When, UserWrite
<1>6. ManifestAdd(j) \in Requests(j)
  BY <1>1 DEF CreateReqs
<1>7. e \in Seq(S) /\ Len(e) = 1
  <2>1. Read(AppPlace(Job[j])) \in Requests(j) /\ Read(UserPlace(Job[j])) \in Requests(j)
    BY <1>1 DEF CreateReqs
  <2>2. ~Delicate(Read(AppPlace(Job[j]))) /\ ~Delicate(Read(UserPlace(Job[j])))
    BY Harmless
  <2> QED
    BY <2>1, <2>2, PlainIn DEF _merge_state_for_read, Classes, Again
<1>12. a[1].reqs = {SessionCreate(j)}
  BY DEF Stage
<1> HIDE DEF a, b, c, e, S
<1>8. a \o b \in Seq(S) /\ Len(a \o b) \in 1..2 /\ (a \o b)[1] = a[1]
  <2>1. 1 \in 1..Len(a)
    BY <1>3
  <2>2. /\ a \o b \in Seq(S) /\ Len(a \o b) = Len(a) + Len(b)
        /\ \A i \in 1..Len(a) : (a \o b)[i] = a[i]
    BY <1>3, <1>4, Joined
  <2>3. (a \o b)[1] = a[1]
    BY <2>1, <2>2
  <2>4. \A x, y : x = 1 /\ y \in 0..1 => x + y \in 1..2
    OBVIOUS
  <2>5. Len(a) + Len(b) \in 1..2
    BY <1>3, <1>4, <2>4
  <2> QED
    BY <2>2, <2>3, <2>5
<1> DEFINE r == a \o b
           s == r \o c
<1> HIDE DEF r
<1>9. s \in Seq(S) /\ Len(s) \in 1..3 /\ s[1] = a[1]
  <2>0. r \in Seq(S) /\ Len(r) \in 1..2 /\ r[1] = a[1]
    BY <1>8 DEF r
  <2>1. 1 \in 1..Len(r)
    BY <2>0
  <2> QED
    BY <2>0, <2>1, <1>5, Joined
<1> HIDE DEF s
<1>13. (s \o d \o e)[1] = a[1]
  <2> DEFINE T == StagesOf(j)
             t == s \o d
  <2>1. S \subseteq T
    BY DEF S, Quiet
  <2>2. s \in Seq(T) /\ e \in Seq(T)
    BY <1>7, <1>9, <2>1
  <2>3. d \in Seq(T) /\ Len(d) = 1
    BY <1>6, SingleIn
  <2> HIDE DEF T, d
  <2>4. 1 \in 1..Len(s)
    BY <1>9
  <2>8. /\ s \o d \in Seq(T) /\ Len(s \o d) = Len(s) + Len(d)
        /\ \A i \in 1..Len(s) : (s \o d)[i] = s[i]
    BY <2>2, <2>3, Joined
  <2>5. t \in Seq(T) /\ Len(t) = Len(s) + Len(d) /\ t[1] = s[1]
    BY <2>4, <2>8
  <2> HIDE DEF t
  <2>6. 1 \in 1..Len(t)
    BY <1>9, <2>3, <2>5
  <2>7. (t \o e)[1] = t[1]
    BY <2>2, <2>5, <2>6, Joined
  <2> QED
    BY <1>9, <2>5, <2>7 DEF t
<1>10. Len(s) + Len(e) \in 0..4
  BY <1>9, <1>7, Sums
<1>11. PlanShape(j, s \o d \o e)
  BY <1>6, <1>7, <1>9, <1>10, AroundShape DEF S
<1> QED
  BY <1>2, <1>11, <1>12, <1>13 DEF s, r

LEMMA AppendPlan ==
    ASSUME NEW j \in Jobs, Job[j].op = "append_event"
    PROVE  PlanShape(j, append_event(j))
<1> DEFINE states == {w \in {SessionWrite(j), AppWrite(j), UserWrite(j)} : Given(w.bins.state)}
           cls == IF states = {} THEN "operate" ELSE "batch"
           reqs == {EventWrite(j)} \cup states
<1>1. Requests(j) = AppendReqs(j)
  BY OneOperation
<1>2. append_event(j) = Stage(cls, "always", reqs)
  BY DEF append_event, SessionWrite, AppWrite, UserWrite, EventWrite
<1>3. reqs \in SUBSET Requests(j)
  BY <1>1 DEF AppendReqs
<1>4. \A q \in reqs : ~Delicate(q)
  BY HarmlessWrites
<1>5. cls \in Classes /\ "always" \in Again
  BY DEF Classes, Again
<1> HIDE DEF cls, reqs
<1>6. Stage(cls, "always", reqs) \in Seq(Quiet(j)) /\ Len(Stage(cls, "always", reqs)) = 1
  BY <1>3, <1>4, <1>5, StageIn
<1> QED
  BY <1>2, <1>6, QuietShape

LEMMA GetPlan ==
    ASSUME NEW j \in Jobs, Job[j].op = "get_session"
    PROVE  PlanShape(j, get_session(j))
<1>1. Requests(j) = GetReqs(j)
  BY OneOperation
<1>2. get_session(j) = Stage("batch", "never", GetReqs(j))
  BY DEF get_session, GetReqs
<1>3. GetReqs(j) \in SUBSET Requests(j)
  BY <1>1
<1>4. \A q \in GetReqs(j) : ~Delicate(q)
  BY Harmless DEF GetReqs
<1>5. "batch" \in Classes /\ "never" \in Again
  BY DEF Classes, Again
<1>6. /\ Stage("batch", "never", GetReqs(j)) \in Seq(Quiet(j))
      /\ Len(Stage("batch", "never", GetReqs(j))) = 1
  BY <1>3, <1>4, <1>5, StageIn
<1> QED
  BY <1>2, <1>6, QuietShape

LEMMA DeletePlan ==
    ASSUME NEW j \in Jobs, Job[j].op = "delete_session"
    PROVE  PlanShape(j, delete_session(j))
<1> DEFINE a == Stage("read", "never", {Read(SessionPlace(Job[j]))})
           b == Stage("remove", "never", {Remove(SegmentPlace(Job[j], 0))})
           c == Stage("remove", "never", {Remove(SegmentPlace(Job[j], 1))})
           d == Stage("remove", "never", {Remove(SessionPlace(Job[j]))})
           e == Stage("operate", "never", {ManifestRemove(j)})
           S == Quiet(j)
<1>1. /\ Read(SessionPlace(Job[j])) \in Requests(j)
      /\ Remove(SegmentPlace(Job[j], 0)) \in Requests(j)
      /\ Remove(SegmentPlace(Job[j], 1)) \in Requests(j)
      /\ Remove(SessionPlace(Job[j])) \in Requests(j)
      /\ ManifestRemove(j) \in Requests(j)
  BY OneOperation DEF DeleteReqs
<1>2. delete_session(j) = a \o b \o c \o d \o e
  BY DEF delete_session, ManifestRemove
<1>3. ~Delicate(ManifestRemove(j))
  BY DEF Delicate, ManifestRemove, Req
<1>4. /\ ~Delicate(Read(SessionPlace(Job[j]))) /\ ~Delicate(Remove(SegmentPlace(Job[j], 0)))
      /\ ~Delicate(Remove(SegmentPlace(Job[j], 1))) /\ ~Delicate(Remove(SessionPlace(Job[j])))
  BY Harmless
<1>5. /\ "read" \in Classes /\ "remove" \in Classes /\ "operate" \in Classes
      /\ "never" \in Again
  BY DEF Classes, Again
<1>6. /\ a \in Seq(S) /\ Len(a) = 1 /\ b \in Seq(S) /\ Len(b) = 1 /\ c \in Seq(S) /\ Len(c) = 1
      /\ d \in Seq(S) /\ Len(d) = 1 /\ e \in Seq(S) /\ Len(e) = 1
  BY <1>1, <1>3, <1>4, <1>5, PlainIn
<1> HIDE DEF a, b, c, d, e, S
<1>7. a \o b \in Seq(S) /\ Len(a \o b) = 2
  BY <1>6, Joined
<1>8. (a \o b) \o c \in Seq(S) /\ Len((a \o b) \o c) = 3
  BY <1>6, <1>7, Joined
<1> DEFINE f == (a \o b) \o c
<1> HIDE DEF f
<1>9. f \in Seq(S) /\ Len(f) = 3
  BY <1>8 DEF f
<1>10. f \o d \in Seq(S) /\ Len(f \o d) = 4
  <2>1. Len(f) + Len(d) = 4
    BY <1>6, <1>9, Sums
  <2>2. f \in Seq(S) /\ d \in Seq(S)
    BY <1>6, <1>9
  <2>3. f \o d \in Seq(S) /\ Len(f \o d) = Len(f) + Len(d)
    BY <2>2, Joined
  <2> QED
    BY <2>1, <2>3
<1> DEFINE g == f \o d
<1> HIDE DEF g
<1>11. g \in Seq(S) /\ Len(g) = 4
  BY <1>10 DEF g
<1>12. g \o e \in Seq(S) /\ Len(g \o e) = 5
  <2>1. Len(g) + Len(e) = 5
    BY <1>6, <1>11, Sums
  <2>2. g \in Seq(S) /\ e \in Seq(S)
    BY <1>6, <1>11
  <2>3. g \o e \in Seq(S) /\ Len(g \o e) = Len(g) + Len(e)
    BY <2>2, Joined
  <2> QED
    BY <2>1, <2>3
<1>13. delete_session(j) = g \o e
  BY <1>2 DEF g, f
<1>14. delete_session(j) \in Seq(Quiet(j)) /\ Len(delete_session(j)) \in 1..5
  <2>1. 5 \in 1..5
    OBVIOUS
  <2> QED
    BY <2>1, <1>12, <1>13 DEF S
<1> QED
  BY <1>14, QuietShape

LEMMA QueryPlans ==
    ASSUME NEW j \in Jobs
    PROVE  /\ Job[j].op = "list_sessions" => PlanShape(j, list_sessions(j))
           /\ Job[j].op = "list_artifact_keys" => PlanShape(j, list_artifact_keys(j))
<1>1. "query" \in Classes /\ "never" \in Again
  BY DEF Classes, Again
<1>2. CASE Job[j].op = "list_sessions"
  <2>1. SessionsQuery(j) \in Requests(j)
    BY <1>2, OneOperation DEF ListReqs
  <2>2. ~Delicate(SessionsQuery(j))
    BY Harmless DEF SessionsQuery
  <2>3. list_sessions(j) = Stage("query", "never", {SessionsQuery(j)})
    BY DEF list_sessions, SessionsQuery
  <2>4. list_sessions(j) \in Seq(Quiet(j)) /\ Len(list_sessions(j)) = 1
    BY <1>1, <2>1, <2>2, <2>3, PlainIn
  <2> QED
    BY <1>2, <2>4, QuietShape
<1>3. CASE Job[j].op = "list_artifact_keys"
  <2> DEFINE a == Stage("query", "never", {FilesQuery(j, USER_SCOPE_SID)})
             b == Stage("query", "never", {FilesQuery(j, Job[j].sid)})
             S == Quiet(j)
  <2>1. FilesQuery(j, USER_SCOPE_SID) \in Requests(j) /\ FilesQuery(j, Job[j].sid) \in Requests(j)
    BY <1>3, OneOperation DEF FilesReqs
  <2>2. ~Delicate(FilesQuery(j, USER_SCOPE_SID)) /\ ~Delicate(FilesQuery(j, Job[j].sid))
    BY Harmless DEF FilesQuery
  <2>3. list_artifact_keys(j) = a \o b
    BY DEF list_artifact_keys, _filenames_for, FilesQuery
  <2>4. a \in Seq(S) /\ Len(a) = 1 /\ b \in Seq(S) /\ Len(b) = 1
    BY <1>1, <2>1, <2>2, PlainIn
  <2> HIDE DEF a, b, S
  <2>5. a \o b \in Seq(S) /\ Len(a \o b) = 2
    BY <2>4, Joined
  <2>6. list_artifact_keys(j) \in Seq(Quiet(j)) /\ Len(list_artifact_keys(j)) \in 1..5
    <3>1. 2 \in 1..5
      OBVIOUS
    <3> QED
      BY <3>1, <2>3, <2>5 DEF S
  <2> QED
    BY <1>3, <2>6, QuietShape
<1> QED
  BY <1>2, <1>3

LEMMA SavePlan ==
    ASSUME NEW j \in Jobs, Job[j].op = "save_artifact", NEW n \in 0..MaxVersion
    PROVE  PlanShape(j, save_artifact(j, n)) /\ Len(save_artifact(j, n)) = 2
<1> DEFINE a == Stage("operate", "never", {HeadIncrement(j)})
           b == Stage("write", "never", {VersionCreate(j, n)})
           S == Quiet(j)
<1>1. HeadIncrement(j) \in Requests(j) /\ VersionCreate(j, n) \in Requests(j)
  BY OneOperation DEF SaveReqs
<1>2. save_artifact(j, n) = a \o b
  BY DEF save_artifact, HeadIncrement, VersionCreate
<1>3. "write" \in Classes /\ "never" \in Again
  BY DEF Classes, Again
<1>4. b \in Seq(S) /\ Len(b) = 1
  BY <1>1, <1>3, HarmlessWrites, PlainIn
<1>5. <<>> \in Seq(S) /\ Len(<<>>) = 0
  OBVIOUS
<1>6. a \in Seq(StagesOf(j)) /\ Len(a) = 1
  BY <1>1, SingleIn
<1>7. <<>> \o a = a
  BY <1>6
<1> HIDE DEF b, S
<1>8. PlanShape(j, <<>> \o a \o b) /\ Len(<<>> \o a \o b) = 0 + 1 + 1
  <2>1. 0 + Len(b) \in 0..4
    BY <1>4
  <2> QED
    BY <1>1, <1>4, <1>5, <2>1, AroundShape DEF S
<1> QED
  BY <1>2, <1>7, <1>8

LEMMA IngestPlan ==
    ASSUME NEW j \in Jobs, Job[j].op = "add_events_to_memory"
    PROVE  PlanShape(j, add_events_to_memory(j))
<1> DEFINE a == Stage("batch", "never", {Read(MemoryPlace(Job[j]))})
           b == Stage("write", "never", {RowWrite(j)})
           c == Stage("operate", "never", {PostingAdd(j)})
           S == Quiet(j)
<1>1. /\ Read(MemoryPlace(Job[j])) \in Requests(j) /\ RowWrite(j) \in Requests(j)
      /\ PostingAdd(j) \in Requests(j)
  BY OneOperation DEF IngestReqs
<1>2. add_events_to_memory(j) = a \o (b \o c)
  BY DEF add_events_to_memory, _upsert_memory, RowWrite, PostingAdd
<1>3. "write" \in Classes /\ "batch" \in Classes /\ "never" \in Again
  BY DEF Classes, Again
<1>4. ~Delicate(Read(MemoryPlace(Job[j])))
  BY Harmless
<1>5. a \in Seq(S) /\ Len(a) = 1 /\ b \in Seq(S) /\ Len(b) = 1
  BY <1>1, <1>3, <1>4, HarmlessWrites, PlainIn
<1>6. c \in Seq(StagesOf(j)) /\ Len(c) = 1
  BY <1>1, SingleIn
<1>7. a \in Seq(StagesOf(j)) /\ b \in Seq(StagesOf(j))
  <2>1. \A s \in Seq(Quiet(j)) : s \in Seq(StagesOf(j))
    BY DEF Quiet
  <2> QED
    BY <1>5, <2>1
<1> HIDE DEF a, b, S
<1>8. a \o b \in Seq(S) /\ Len(a \o b) = 2
  BY <1>5, Joined
<1>9. <<>> \in Seq(S) /\ Len(<<>>) = 0
  OBVIOUS
<1> DEFINE s == a \o b
<1> HIDE DEF s
<1>10. PlanShape(j, s \o c \o <<>>)
  <2>1. s \in Seq(S) /\ Len(s) + 0 \in 0..4
    BY <1>8 DEF s
  <2> QED
    BY <1>1, <1>9, <2>1, AroundShape DEF S
<1> DEFINE t == s \o c
<1>11. t \in Seq(StagesOf(j))
  <2>1. s \in Seq(StagesOf(j))
    BY <1>7, Joined DEF s
  <2> QED
    BY <2>1, <1>6, Joined
<1> HIDE DEF t
<1>12. t \o <<>> = t
  BY <1>11
<1>13. a \o (b \o c) = (a \o b) \o c
  BY <1>6, <1>7, ConcatAssociative
<1> QED
  BY <1>2, <1>10, <1>12, <1>13 DEF s, t

\* Every plan has this shape, and its length does not depend on the version.
LEMMA PlanFacts ==
    ASSUME NEW j \in Jobs, NEW n \in 0..MaxVersion
    PROVE  /\ PlanShape(j, Plan[j][n]) /\ Len(Plan[j][n]) = Len(Plan[j][0])
           /\ Job[j].op # "save_artifact" => Plan[j][n] = Plan[j][0]
<1>1. 0 \in 0..MaxVersion
  BY LayoutAssumption
<1>2. \A m \in 0..MaxVersion : Plan[j][m] = Stages(j, m)
  BY DEF Plan
<1>3. Job[j].op \in Operations
  BY JobType DEF Calls
<1>4. CASE Job[j].op = "save_artifact"
  <2>1. \A m \in 0..MaxVersion : Stages(j, m) = save_artifact(j, m)
    BY <1>4 DEF Stages
  <2> QED
    BY <1>1, <1>2, <1>4, <2>1, SavePlan
<1>5. CASE Job[j].op # "save_artifact"
  <2>1. Stages(j, n) = Stages(j, 0)
    BY <1>3, <1>5 DEF Stages, Operations
  <2>2. PlanShape(j, Stages(j, n))
    <3>1. CASE Job[j].op = "create_session"
      BY <3>1, CreatePlan DEF Stages
    <3>2. CASE Job[j].op = "append_event"
      BY <3>2, AppendPlan DEF Stages
    <3>3. CASE Job[j].op = "get_session"
      BY <3>3, GetPlan DEF Stages
    <3>4. CASE Job[j].op = "delete_session"
      BY <3>4, DeletePlan DEF Stages
    <3>5. CASE Job[j].op = "list_sessions"
      BY <3>5, QueryPlans DEF Stages
    <3>6. CASE Job[j].op = "list_artifact_keys"
      BY <3>6, QueryPlans DEF Stages
    <3>7. CASE Job[j].op = "add_events_to_memory"
      BY <3>7, IngestPlan DEF Stages
    <3> QED
      BY <1>3, <1>5, <3>1, <3>2, <3>3, <3>4, <3>5, <3>6, <3>7 DEF Operations
  <2> QED
    BY <1>1, <1>2, <2>1, <2>2
<1> QED
  BY <1>4, <1>5

-----------------------------------------------------------------------------
(* What a request is.                                                      *)

Places(j) ==
    {SessionPlace(Job[j]), ManifestPlace(Job[j]), AppPlace(Job[j]), UserPlace(Job[j]),
     HeadPlace(Job[j]), MemoryPlace(Job[j]), PostingPlace(Job[j])}
    \cup {SegmentPlace(Job[j], n) : n \in {0, 1}}
    \cup {ArtifactPlace(Job[j], n) : n \in 0..MaxVersion}
Queries(j) == {SessionsQuery(j), FilesQuery(j, USER_SCOPE_SID), FilesQuery(j, Job[j].sid)}
StateOps == {"create_session", "append_event"}

Reads(j, q)    == \E x \in Places(j) : q = Read(x)
Removes(j, q)  == \E x \in Places(j) : /\ q = Remove(x) /\ x.pk[1] = "sessions"
                                       /\ Job[j].op = "delete_session"
Creates(j, q)  == q = SessionCreate(j) /\ Job[j].op = "create_session"
Updates(j, q)  == Job[j].op \in StateOps /\ q \in {AppWrite(j), UserWrite(j), SessionWrite(j)}
Lists(j, q)    == q = ManifestAdd(j) /\ Job[j].op = "create_session"
Unlists(j, q)  == q = ManifestRemove(j) /\ Job[j].op = "delete_session"
Events(j, q)   == q = EventWrite(j) /\ Job[j].op = "append_event"
Counts(j, q)   == q = HeadIncrement(j) /\ Job[j].op = "save_artifact"
Versions(j, q) == Job[j].op = "save_artifact" /\ \E n \in 0..MaxVersion : q = VersionCreate(j, n)
Rows(j, q)     == q = RowWrite(j) /\ Job[j].op = "add_events_to_memory"
Posts(j, q)    == q = PostingAdd(j) /\ Job[j].op = "add_events_to_memory"

LEMMA PlaceSets ==
    ASSUME NEW j \in Jobs
    PROVE  /\ \A n : SegmentPlace(Job[j], n).pk[1] = "sessions"
           /\ SessionPlace(Job[j]).pk[1] = "sessions" /\ ManifestPlace(Job[j]).pk[1] = "sessions"
           /\ AppPlace(Job[j]).pk[1] = "app_state" /\ UserPlace(Job[j]).pk[1] = "user_state"
           /\ HeadPlace(Job[j]).pk[1] = "artifacts"
           /\ \A n : ArtifactPlace(Job[j], n).pk[1] = "artifacts"
           /\ MemoryPlace(Job[j]).pk[1] = "memory" /\ PostingPlace(Job[j]).pk[1] = "memory"
  BY DEF Place, SegmentPlace, SessionPlace, ManifestPlace, AppPlace, UserPlace, HeadPlace,
         ArtifactPlace, MemoryPlace, PostingPlace

LEMMA Kinds ==
    ASSUME NEW j \in Jobs, NEW q \in Requests(j)
    PROVE  \/ Reads(j, q) \/ Removes(j, q) \/ q \in Queries(j) \/ Creates(j, q) \/ Updates(j, q)
           \/ Lists(j, q) \/ Unlists(j, q) \/ Events(j, q) \/ Counts(j, q) \/ Versions(j, q)
           \/ Rows(j, q) \/ Posts(j, q)
<1>1. CASE Job[j].op = "create_session"
  <2>1. q \in CreateReqs(j)
    BY <1>1, OneOperation
  <2> QED
    BY <1>1, <2>1 DEF CreateReqs, Creates, Updates, Lists, Reads, Places, StateOps
<1>2. CASE Job[j].op = "append_event"
  <2>1. q \in AppendReqs(j)
    BY <1>2, OneOperation
  <2> QED
    BY <1>2, <2>1 DEF AppendReqs, Updates, Events, StateOps
<1>3. CASE Job[j].op = "get_session"
  <2>1. q \in GetReqs(j)
    BY <1>3, OneOperation
  <2> QED
    BY <1>3, <2>1 DEF GetReqs, Reads, Places
<1>4. CASE Job[j].op = "delete_session"
  <2>1. q \in DeleteReqs(j)
    BY <1>4, OneOperation
  <2>2. SegmentPlace(Job[j], 0) \in Places(j) /\ SegmentPlace(Job[j], 1) \in Places(j)
        /\ SessionPlace(Job[j]) \in Places(j)
    BY DEF Places
  <2>3. \/ q = Read(SessionPlace(Job[j])) \/ q = Remove(SegmentPlace(Job[j], 0))
        \/ q = Remove(SegmentPlace(Job[j], 1)) \/ q = Remove(SessionPlace(Job[j]))
        \/ q = ManifestRemove(j)
    BY <2>1 DEF DeleteReqs
  <2> QED
    BY <1>4, <2>2, <2>3, PlaceSets DEF Reads, Removes, Unlists
<1>5. CASE Job[j].op = "list_sessions"
  BY <1>5, OneOperation DEF ListReqs, Queries
<1>6. CASE Job[j].op = "save_artifact"
  <2>1. q \in SaveReqs(j)
    BY <1>6, OneOperation
  <2> QED
    BY <1>6, <2>1 DEF SaveReqs, Counts, Versions
<1>7. CASE Job[j].op = "list_artifact_keys"
  BY <1>7, OneOperation DEF FilesReqs, Queries
<1>8. CASE Job[j].op = "add_events_to_memory"
  <2>1. q \in IngestReqs(j)
    BY <1>8, OneOperation
  <2> QED
    BY <1>8, <2>1 DEF IngestReqs, Rows, Posts, Reads, Places
<1> QED
  BY <1>1, <1>2, <1>3, <1>4, <1>5, <1>6, <1>7, <1>8, OneOperation

LEMMA ReqFields ==
    \A do, place, bins : /\ Req(do, place, bins).do = do /\ Req(do, place, bins).place = place
                         /\ Req(do, place, bins).bins = bins
  BY DEF Req

\* The operation, the place and the bins of a request of each kind.
LEMMA RequestParts ==
    ASSUME NEW j \in Jobs, NEW q
    PROVE  /\ Reads(j, q) => q.do = "read" /\ q.place \in Places(j)
           /\ Removes(j, q) => q.do = "remove" /\ q.place \in Places(j) /\ q.place.pk[1] = "sessions"
           /\ q \in Queries(j) => q.do = "query"
           /\ Creates(j, q) => q.do = "create" /\ q.place = SessionPlace(Job[j])
           /\ Updates(j, q) => q.do = "write" /\ q.place \in
                 {SessionPlace(Job[j]), AppPlace(Job[j]), UserPlace(Job[j])}
           /\ Lists(j, q) => q.do = "write" /\ q.place = ManifestPlace(Job[j])
           /\ Unlists(j, q) => q.do = "unlist" /\ q.place = ManifestPlace(Job[j])
           /\ Events(j, q) => q.do = "write" /\ q.place = SegmentPlace(Job[j], 0)
           /\ Counts(j, q) => /\ q.do = "increment" /\ q.place = HeadPlace(Job[j])
                              /\ q.bins = [ver |-> 1]
           /\ Versions(j, q) => /\ q.do = "create" /\ q.bins.ver \in 0..MaxVersion
                                /\ q.place = ArtifactPlace(Job[j], q.bins.ver)
                                /\ "ver" \in DOMAIN q.bins
           /\ Rows(j, q) => q.do = "write" /\ q.place = MemoryPlace(Job[j])
           /\ Posts(j, q) => q.do = "write" /\ q.place = PostingPlace(Job[j])
<1>1. Reads(j, q) => q.do = "read" /\ q.place \in Places(j)
  BY ReqFields DEF Reads, Read
<1>2. Removes(j, q) => q.do = "remove" /\ q.place \in Places(j) /\ q.place.pk[1] = "sessions"
  BY ReqFields DEF Removes, Remove
<1>3. q \in Queries(j) => q.do = "query"
  BY ReqFields DEF Queries, SessionsQuery, FilesQuery, Query
<1>4. Creates(j, q) => q.do = "create" /\ q.place = SessionPlace(Job[j])
  BY ReqFields DEF Creates, SessionCreate
<1>5. Updates(j, q) => q.do = "write" /\ q.place \in
                 {SessionPlace(Job[j]), AppPlace(Job[j]), UserPlace(Job[j])}
  BY ReqFields DEF Updates, SessionWrite, AppWrite, UserWrite, PutItems
<1>6. Lists(j, q) => q.do = "write" /\ q.place = ManifestPlace(Job[j])
  BY ReqFields DEF Lists, ManifestAdd
<1>7. Unlists(j, q) => q.do = "unlist" /\ q.place = ManifestPlace(Job[j])
  BY ReqFields DEF Unlists, ManifestRemove
<1>8. Events(j, q) => q.do = "write" /\ q.place = SegmentPlace(Job[j], 0)
  BY ReqFields DEF Events, EventWrite
<1>9. Counts(j, q) => q.do = "increment" /\ q.place = HeadPlace(Job[j]) /\ q.bins = [ver |-> 1]
  BY ReqFields DEF Counts, HeadIncrement
<1>10. ASSUME Versions(j, q)
       PROVE  /\ q.do = "create" /\ q.bins.ver \in 0..MaxVersion
              /\ q.place = ArtifactPlace(Job[j], q.bins.ver) /\ "ver" \in DOMAIN q.bins
  <2>1. PICK n \in 0..MaxVersion : q = VersionCreate(j, n)
    BY <1>10 DEF Versions
  <2> DEFINE bins == [app |-> Job[j].app, uid |-> Job[j].user, sid |-> ScopeOf(Job[j]),
                      aus |-> scope_tuple(Job[j].app, Job[j].user, ScopeOf(Job[j])),
                      fname |-> Job[j].file, ver |-> n, mime |-> j, data |-> j, ctime |-> j,
                      cmeta |-> j]
  <2>2. q = Req("create", ArtifactPlace(Job[j], n), bins)
    BY <2>1 DEF VersionCreate
  <2>3. bins.ver = n /\ "ver" \in DOMAIN bins
    OBVIOUS
  <2> HIDE DEF bins
  <2> QED
    BY <2>2, <2>3, ReqFields
<1>11. Rows(j, q) => q.do = "write" /\ q.place = MemoryPlace(Job[j])
  BY ReqFields DEF Rows, RowWrite
<1>12. Posts(j, q) => q.do = "write" /\ q.place = PostingPlace(Job[j])
  BY ReqFields DEF Posts, PostingAdd
<1> QED
  BY <1>1, <1>2, <1>3, <1>4, <1>5, <1>6, <1>7, <1>8, <1>9, <1>10, <1>11, <1>12

LEMMA RequestFacts ==
    ASSUME NEW j \in Jobs, NEW q \in Requests(j)
    PROVE  /\ Asked(q) /\ (q.do # "query" => q.place \in Places(j))
           /\ q.do = "increment" => Counts(j, q) /\ q.place.pk[1] = "artifacts"
           /\ IsWrite(q) /\ q.place.pk[1] = "artifacts" => Counts(j, q) \/ Versions(j, q)
<1>1. /\ SessionPlace(Job[j]) \in Places(j) /\ ManifestPlace(Job[j]) \in Places(j)
      /\ AppPlace(Job[j]) \in Places(j) /\ UserPlace(Job[j]) \in Places(j)
      /\ HeadPlace(Job[j]) \in Places(j) /\ MemoryPlace(Job[j]) \in Places(j)
      /\ PostingPlace(Job[j]) \in Places(j) /\ SegmentPlace(Job[j], 0) \in Places(j)
      /\ \A n \in 0..MaxVersion : ArtifactPlace(Job[j], n) \in Places(j)
  BY DEF Places
<1>2. CASE Reads(j, q)
  BY <1>2, RequestParts DEF Asked, IsWrite
<1>3. CASE Removes(j, q)
  BY <1>3, RequestParts DEF Asked
<1>4. CASE q \in Queries(j)
  BY <1>4, RequestParts DEF Asked, IsWrite
<1>5. CASE Creates(j, q)
  BY <1>5, <1>1, RequestParts, PlaceSets DEF Asked
<1>6. CASE Updates(j, q)
  BY <1>6, <1>1, RequestParts, PlaceSets DEF Asked
<1>7. CASE Lists(j, q)
  BY <1>7, <1>1, RequestParts, PlaceSets DEF Asked
<1>8. CASE Unlists(j, q)
  BY <1>8, <1>1, RequestParts, PlaceSets DEF Asked
<1>9. CASE Events(j, q)
  BY <1>9, <1>1, RequestParts, PlaceSets DEF Asked
<1>10. CASE Counts(j, q)
  BY <1>10, <1>1, RequestParts, PlaceSets DEF Asked
<1>11. CASE Versions(j, q)
  BY <1>11, <1>1, RequestParts DEF Asked
<1>12. CASE Rows(j, q)
  BY <1>12, <1>1, RequestParts, PlaceSets DEF Asked
<1>13. CASE Posts(j, q)
  BY <1>13, <1>1, RequestParts, PlaceSets DEF Asked
<1> QED
  BY <1>2, <1>3, <1>4, <1>5, <1>6, <1>7, <1>8, <1>9, <1>10, <1>11, <1>12, <1>13, Kinds

-----------------------------------------------------------------------------
(* What a request does to the records.                                     *)

LEMMA OverFacts ==
    ASSUME NEW f, NEW g
    PROVE  /\ DOMAIN Over(f, g) = DOMAIN f \cup DOMAIN g
           /\ \A x \in DOMAIN g : Over(f, g)[x] = g[x]
           /\ \A x \in DOMAIN f \ DOMAIN g : Over(f, g)[x] = f[x]
  BY DEF Over

LEMMA PutFacts ==
    ASSUME NEW pk, NEW bins
    PROVE  /\ DOMAIN Put(pk, bins) = DOMAIN store \cup {pk} /\ Put(pk, bins)[pk] = bins
           /\ \A p \in DOMAIN store \ {pk} : Put(pk, bins)[p] = store[p]
<1>1. Put(pk, bins) = [p \in DOMAIN store \cup {pk} |-> IF p = pk THEN bins ELSE store[p]]
  BY DEF Put, Over
<1> QED
  BY <1>1

\* The record at pk after request q, which is not a removal.
Becomes(q, pk, bins) ==
    \/ pk \in DOMAIN store /\ bins = store[pk]
    \/ q.do = "create" /\ bins = q.bins /\ pk \notin DOMAIN store
    \/ q.do = "write" /\ bins = Merged(Bins(pk), q.bins)
    \/ q.do = "increment" /\ bins =
          [ver |-> (IF pk \in DOMAIN store THEN store[pk].ver ELSE 0) + q.bins.ver]
    \/ q.do = "unlist" /\ pk \in DOMAIN store /\ bins = Unlisted(store[pk], q.bins.sman)

\* recs are the records after request q.
Effect(q, pk, recs) ==
    /\ ~IsWrite(q) => recs = store
    /\ \A p \in DOMAIN recs : p # pk => p \in DOMAIN store /\ recs[p] = store[p]
    /\ \A p \in DOMAIN store : p # pk => p \in DOMAIN recs
    /\ pk \in DOMAIN recs => Becomes(q, pk, recs[pk])
    /\ pk \in DOMAIN store /\ q.do # "remove" => pk \in DOMAIN recs
    /\ q.do \in {"create", "write", "increment"} => pk \in DOMAIN recs

LEMMA PutEffect ==
    ASSUME NEW q, NEW pk, NEW bins, Becomes(q, pk, bins), IsWrite(q)
    PROVE  Effect(q, pk, Put(pk, bins))
<1>1. DOMAIN Put(pk, bins) = DOMAIN store \cup {pk}
  BY PutFacts
<1>2. Put(pk, bins)[pk] = bins
  BY PutFacts
<1>3. \A p \in DOMAIN store \ {pk} : Put(pk, bins)[p] = store[p]
  BY PutFacts
<1> QED
  BY <1>1, <1>2, <1>3 DEF Effect

LEMMA AfterFacts == ASSUME NEW q, Asked(q) PROVE Effect(q, q.place.pk, After(q))
<1> DEFINE pk == q.place.pk
<1>1. CASE q.do = "create"
  <2>1. After(q) = IF Refused(q) THEN store ELSE Put(pk, q.bins)
    BY <1>1 DEF After
  <2>2. Refused(q) <=> pk \in DOMAIN store
    BY <1>1 DEF Refused
  <2>3. IsWrite(q)
    BY <1>1 DEF IsWrite
  <2>4. CASE pk \in DOMAIN store
    BY <1>1, <2>1, <2>2, <2>3, <2>4 DEF Becomes, Effect
  <2>5. CASE pk \notin DOMAIN store
    <3>1. After(q) = Put(pk, q.bins)
      BY <2>1, <2>2, <2>5
    <3>2. Becomes(q, pk, q.bins)
      BY <1>1, <2>5 DEF Becomes
    <3> QED
      BY <2>3, <3>1, <3>2, PutEffect
  <2> QED
    BY <2>4, <2>5
<1>2. CASE q.do = "write"
  <2>1. After(q) = Put(pk, Merged(Bins(pk), q.bins))
    BY <1>2 DEF After
  <2>2. IsWrite(q)
    BY <1>2 DEF IsWrite
  <2>3. Becomes(q, pk, Merged(Bins(pk), q.bins))
    BY <1>2 DEF Becomes
  <2> QED
    BY <2>1, <2>2, <2>3, PutEffect
<1>3. CASE q.do = "increment"
  <2> DEFINE bins == [ver |-> (IF pk \in DOMAIN store THEN store[pk].ver ELSE 0) + q.bins.ver]
  <2>1. After(q) = Put(pk, bins)
    BY <1>3 DEF After
  <2>2. IsWrite(q)
    BY <1>3 DEF IsWrite
  <2>3. Becomes(q, pk, bins)
    BY <1>3 DEF Becomes
  <2> HIDE DEF bins
  <2> QED
    BY <2>1, <2>2, <2>3, PutEffect
<1>4. CASE q.do = "unlist"
  <2>1. After(q) = IF pk \in DOMAIN store THEN Put(pk, Unlisted(store[pk], q.bins.sman)) ELSE store
    BY <1>4 DEF After
  <2>2. IsWrite(q)
    BY <1>4 DEF IsWrite
  <2>3. CASE pk \in DOMAIN store
    <3>1. After(q) = Put(pk, Unlisted(store[pk], q.bins.sman))
      BY <2>1, <2>3
    <3>2. Becomes(q, pk, Unlisted(store[pk], q.bins.sman))
      BY <1>4, <2>3 DEF Becomes
    <3> QED
      BY <2>2, <3>1, <3>2, PutEffect
  <2>4. CASE pk \notin DOMAIN store
    BY <1>4, <2>1, <2>2, <2>4 DEF Effect
  <2> QED
    BY <2>3, <2>4
<1>5. CASE q.do = "remove"
  <2>1. After(q) = [p \in DOMAIN store \ {pk} |-> store[p]]
    BY <1>5 DEF After
  <2>2. IsWrite(q)
    BY <1>5 DEF IsWrite
  <2>3. DOMAIN After(q) = DOMAIN store \ {pk} /\ \A p \in DOMAIN store \ {pk} : After(q)[p] = store[p]
    BY <2>1
  <2> QED
    BY <1>5, <2>2, <2>3 DEF Effect
<1>6. CASE q.do \in {"read", "query"}
  <2>1. After(q) = store
    BY <1>6 DEF After
  <2>2. q.do \notin {"create", "write", "increment"}
    BY <1>6
  <2> QED
    BY <1>6, <2>1, <2>2 DEF Becomes, Effect
<1> QED
  BY <1>1, <1>2, <1>3, <1>4, <1>5, <1>6 DEF Asked

-----------------------------------------------------------------------------
(* Control: which requests are under way.                                  *)

ReqInv ==
    /\ left = [j \in Jobs |-> left[j]] /\ got = [j \in Jobs |-> got[j]]
    /\ \A j \in Jobs : status[j] \in {"absent", "start"} => ver[j] = 0 /\ at[j] = 0
    /\ \A j \in Jobs : status[j] = "busy" => at[j] \in 1..Len(Plan[j][0])
    /\ \A q \in late : IsWrite(q) /\ \E j \in Jobs : q \in Requests(j)
    /\ \A p \in DOMAIN store : p[1] = "artifacts" => store[p].ver \in Nat

ControlInv == TypeOK /\ ReqInv

\* The stage of a call that is under way.
LEMMA NowFacts ==
    ASSUME ControlInv, NEW j \in Jobs, status[j] = "busy"
    PROVE  /\ Now(j) \in StagesOf(j) /\ Now(j).reqs \subseteq Requests(j)
           /\ left[j] \subseteq Now(j).reqs /\ ver[j] \in 0..MaxVersion
           /\ at[j] \in 1..Len(Plan[j][ver[j]]) /\ Plan[j][ver[j]] \in Seq(StagesOf(j))
<1>1. ver[j] \in 0..MaxVersion
  BY DEF ControlInv, TypeOK
<1>2. /\ Plan[j][ver[j]] \in Seq(StagesOf(j)) /\ Len(Plan[j][ver[j]]) = Len(Plan[j][0])
  BY <1>1, PlanFacts DEF PlanShape
<1>3. at[j] \in 1..Len(Plan[j][ver[j]])
  BY <1>2 DEF ControlInv, ReqInv
<1>4. Now(j) \in StagesOf(j)
  BY <1>2, <1>3 DEF Now
<1>5. Now(j).reqs \subseteq Requests(j)
  BY <1>4 DEF StagesOf
<1>6. left[j] \subseteq Now(j).reqs
  BY DEF ControlInv, TypeOK
<1> QED
  BY <1>1, <1>2, <1>3, <1>4, <1>5, <1>6

\* A request of the stage of j is one of its requests.
LEMMA LeftFacts ==
    ASSUME ControlInv, NEW j \in Jobs, NEW q \in left[j]
    PROVE  /\ status[j] = "busy" /\ q \in Now(j).reqs /\ q \in Requests(j) /\ Asked(q)
           /\ q.do = "increment" => left[j] = {q}
<1>1. status[j] = "busy"
  BY DEF ControlInv, TypeOK
<1>2. q \in Now(j).reqs /\ q \in Requests(j) /\ Now(j) \in StagesOf(j)
  BY <1>1, NowFacts
<1>3. Asked(q)
  BY <1>2, RequestFacts
<1>4. Alone(Now(j))
  BY <1>2 DEF StagesOf
<1>5. q.do = "increment" => Now(j).reqs = {q}
  BY <1>2, <1>4 DEF Alone, Delicate
<1> QED
  BY <1>1, <1>2, <1>3, <1>5, NowFacts

\* What request q of j does to the records keeps their invariants.
LEMMA StoreTyped ==
    ASSUME ControlInv, NEW j \in Jobs, NEW q \in Requests(j)
    PROVE  /\ DOMAIN After(q) \subseteq {x.pk : x \in touched \cup Names(q)}
           /\ \A p \in DOMAIN After(q) : p[1] = "artifacts" => After(q)[p].ver \in Nat
<1> DEFINE pk == q.place.pk
<1>1. Asked(q)
  BY RequestFacts
<1>2. Effect(q, pk, After(q))
  BY <1>1, AfterFacts
<1>3. /\ DOMAIN store \subseteq {x.pk : x \in touched}
      /\ \A p \in DOMAIN store : p[1] = "artifacts" => store[p].ver \in Nat
  BY DEF ControlInv, TypeOK, ReqInv
<1>4. CASE ~IsWrite(q)
  BY <1>2, <1>3, <1>4 DEF Effect
<1>5. CASE IsWrite(q)
  <2>1. Names(q) = {q.place}
    BY <1>5 DEF IsWrite, Names
  <2>2. DOMAIN After(q) \subseteq DOMAIN store \cup {pk}
    BY <1>2 DEF Effect
  <2>3. DOMAIN After(q) \subseteq {x.pk : x \in touched \cup Names(q)}
    BY <1>3, <2>1, <2>2
  <2>4. ASSUME NEW p \in DOMAIN After(q), p[1] = "artifacts"
        PROVE  After(q)[p].ver \in Nat
    <3>1. CASE p # pk
      BY <1>2, <1>3, <2>4, <3>1 DEF Effect
    <3>2. CASE p = pk
      <4>1. Becomes(q, pk, After(q)[pk])
        BY <1>2, <2>4, <3>2 DEF Effect
      <4>2. Counts(j, q) \/ Versions(j, q)
        BY <1>5, <2>4, <3>2, RequestFacts
      <4>3. CASE Versions(j, q)
        <5>1. q.do = "create" /\ q.bins.ver \in Nat
          BY <4>3, RequestParts
        <5>2. \/ pk \in DOMAIN store /\ After(q)[pk] = store[pk]
              \/ After(q)[pk] = q.bins
          BY <4>1, <5>1 DEF Becomes
        <5> QED
          BY <1>3, <2>4, <3>2, <5>1, <5>2
      <4>4. CASE Counts(j, q)
        <5>1. q.do = "increment" /\ q.bins.ver = 1
          BY <4>4, RequestParts
        <5> DEFINE n == (IF pk \in DOMAIN store THEN store[pk].ver ELSE 0) + q.bins.ver
        <5>2. \/ pk \in DOMAIN store /\ After(q)[pk] = store[pk]
              \/ After(q)[pk] = [ver |-> n]
          BY <4>1, <5>1 DEF Becomes
        <5>3. n \in Nat
          BY <1>3, <2>4, <3>2, <5>1
        <5> HIDE DEF n
        <5>4. [ver |-> n].ver = n
          OBVIOUS
        <5> QED
          BY <1>3, <2>4, <3>2, <5>2, <5>3, <5>4
      <4> QED
        BY <4>2, <4>3, <4>4
    <3> QED
      BY <3>1, <3>2
  <2> QED
    BY <2>3, <2>4
<1> QED
  BY <1>4, <1>5

\* The answer to a request of j.
LEMMA ReceiveFacts ==
    ASSUME ControlInv, NEW j \in Jobs, NEW q \in left[j], InBound(q), Receive(j, q)
    PROVE  /\ ver' \in [Jobs -> 0..MaxVersion] /\ \A i \in Jobs \ {j} : ver'[i] = ver[i]
           /\ left[j] # {q} => ver' = ver
           /\ got' = [i \in Jobs |-> got'[i]] /\ \A i \in Jobs \ {j} : got'[i] = got[i]
           /\ got'[j] = Over(got[j], Answered(q)) /\ DOMAIN Answered(q) \subseteq DOMAIN store
<1>1. ver \in [Jobs -> 0..MaxVersion] /\ MaxVersion \in Nat
  BY LayoutAssumption DEF ControlInv, TypeOK
<1>2. got = [i \in Jobs |-> got[i]]
  BY DEF ControlInv, ReqInv
<1>3. got' = [got EXCEPT ![j] = Over(got[j], Answered(q))]
  BY DEF Receive
<1>4. /\ got' = [i \in Jobs |-> got'[i]] /\ \A i \in Jobs \ {j} : got'[i] = got[i]
      /\ got'[j] = Over(got[j], Answered(q))
  BY <1>2, <1>3
<1>5. DOMAIN Answered(q) \subseteq DOMAIN store
  BY DEF Answered
<1>6. CASE q.do = "increment" /\ q.place.pk \in DOMAIN store
  <2> DEFINE n == store[q.place.pk].ver
  <2>1. q \in Requests(j) /\ left[j] = {q}
    BY <1>6, LeftFacts
  <2>2. q.place.pk[1] = "artifacts"
    BY <1>6, <2>1, RequestFacts
  <2>3. n \in Nat
    BY <1>6, <2>2 DEF ControlInv, ReqInv
  <2>4. n <= MaxVersion
    BY <1>6 DEF InBound
  <2>5. ver' = [ver EXCEPT ![j] = n]
    BY <1>6 DEF Receive
  <2>6. n \in 0..MaxVersion
    BY <1>1, <2>3, <2>4
  <2> HIDE DEF n
  <2>7. ver' \in [Jobs -> 0..MaxVersion] /\ \A i \in Jobs \ {j} : ver'[i] = ver[i]
    BY <1>1, <2>5, <2>6
  <2> QED
    BY <1>4, <1>5, <2>1, <2>7
<1>7. CASE ~(q.do = "increment" /\ q.place.pk \in DOMAIN store)
  <2>1. ver' = ver
    BY <1>7 DEF Receive
  <2> QED
    BY <1>1, <1>4, <1>5, <2>1
<1> QED
  BY <1>6, <1>7

\* A failure: at most one request of the stage is applied, others may be later.
LEMMA LosesFacts ==
    ASSUME ControlInv, NEW j \in Jobs, status[j] = "busy", Loses(j)
    PROVE  /\ \/ /\ store' = store /\ touched' = touched
                 /\ late' \in {late, late \cup {r \in left[j] : IsWrite(r)}}
              \/ \E q \in left[j] :
                    /\ store' = After(q) /\ touched' = touched \cup Names(q)
                    /\ late' \in {late, late \cup {r \in left[j] \ {q} : IsWrite(r)}}
           /\ faults' \in 0..MaxFaults /\ unread' = unread /\ unsure' \subseteq unsure \cup {j}
<1>1. faults \in 0..MaxFaults /\ MaxFaults \in Nat
  BY LayoutAssumption DEF ControlInv, TypeOK
<1>2. faults' \in 0..MaxFaults
  BY <1>1 DEF Loses
<1>3. unread' = unread /\ unsure' \subseteq unsure \cup {j}
  BY DEF Loses
<1>4. PICK done \in {{}} \cup {{q} : q \in left[j]} :
          /\ store' = IF done = {} THEN store ELSE After(CHOOSE q \in done : TRUE)
          /\ touched' = touched \cup UNION {Names(q) : q \in done}
          /\ late' \in {late, late \cup {q \in left[j] \ done : IsWrite(q)}}
  BY DEF Loses
<1>5. CASE done = {}
  <2>1. store' = store
    BY <1>4, <1>5
  <2>2. touched' = touched
    BY <1>4, <1>5
  <2>3. left[j] \ done = left[j]
    BY <1>5
  <2> QED
    BY <1>2, <1>3, <1>4, <2>1, <2>2, <2>3
<1>6. ASSUME NEW q \in left[j], done = {q}
      PROVE  /\ store' = After(q) /\ touched' = touched \cup Names(q)
             /\ late' \in {late, late \cup {r \in left[j] \ {q} : IsWrite(r)}}
  <2>1. (CHOOSE r \in done : TRUE) = q
    BY <1>6
  <2>2. UNION {Names(r) : r \in done} = Names(q)
    BY <1>6
  <2> QED
    BY <1>4, <1>6, <2>1, <2>2
<1> QED
  BY <1>2, <1>3, <1>4, <1>5, <1>6

\* What a step does to the records: nothing, or what one request does.
Served ==
    \/ store' = store /\ touched \subseteq touched'
    \/ \E j \in Jobs : \E q \in Requests(j) :
          store' = After(q) /\ touched' = touched \cup Names(q)

LEMMA ServedTyped ==
    ASSUME ControlInv, Served
    PROVE  /\ DOMAIN store' \subseteq {x.pk : x \in touched'} /\ touched \subseteq touched'
           /\ \A p \in DOMAIN store' : p[1] = "artifacts" => store'[p].ver \in Nat
<1>1. CASE store' = store /\ touched \subseteq touched'
  <2>1. /\ DOMAIN store \subseteq {x.pk : x \in touched}
        /\ \A p \in DOMAIN store : p[1] = "artifacts" => store[p].ver \in Nat
    BY DEF ControlInv, TypeOK, ReqInv
  <2> QED
    BY <1>1, <2>1
<1>2. ASSUME NEW j \in Jobs, NEW q \in Requests(j), store' = After(q),
             touched' = touched \cup Names(q)
      PROVE  /\ DOMAIN store' \subseteq {x.pk : x \in touched'} /\ touched \subseteq touched'
             /\ \A p \in DOMAIN store' : p[1] = "artifacts" => store'[p].ver \in Nat
  BY <1>2, StoreTyped
<1> QED
  BY <1>1, <1>2 DEF Served

\* The part of the control that belongs to one call.
CallInv(j) ==
    /\ left[j] # {} => status[j] = "busy" /\ left[j] \subseteq Now(j).reqs
    /\ DOMAIN got[j] \subseteq {x.pk : x \in touched}
    /\ status[j] \in {"absent", "start"} => ver[j] = 0 /\ at[j] = 0
    /\ status[j] = "busy" => at[j] \in 1..Len(Plan[j][0])

SharedInv ==
    /\ DOMAIN store \subseteq {x.pk : x \in touched}
    /\ indexes \subseteq StorageSet \X BinName
    /\ up \subseteq Processes \X Services
    /\ status \in [Jobs -> {"absent", "start", "busy"} \cup Ended]
    /\ at \in [Jobs -> 0..5] /\ ver \in [Jobs -> 0..MaxVersion]
    /\ before \in [Jobs -> SUBSET Jobs]
    /\ unread \subseteq Jobs /\ unsure \subseteq Jobs
    /\ \A q \in late : Asked(q)
    /\ faults \in 0..MaxFaults
    /\ left = [j \in Jobs |-> left[j]] /\ got = [j \in Jobs |-> got[j]]
    /\ \A q \in late : IsWrite(q) /\ \E j \in Jobs : q \in Requests(j)
    /\ \A p \in DOMAIN store : p[1] = "artifacts" => store[p].ver \in Nat

CallsInv == \A j \in Jobs : CallInv(j)

LEMMA ControlSplit == ControlInv <=> SharedInv /\ CallsInv
  BY DEF ControlInv, TypeOK, ReqInv, SharedInv, CallInv, CallsInv

LEMMA ControlParts == ControlInv => SharedInv /\ \A j \in Jobs : CallInv(j)
  BY ControlSplit DEF CallsInv

LEMMA OneMore ==
    \A a, n : n \in 1..5 /\ a \in 1..n /\ a # n => a + 1 \in 1..n /\ a + 1 \in 0..5
  OBVIOUS

\* A call that a step leaves alone.
LEMMA CallStays ==
    ASSUME ControlInv, NEW j \in Jobs, touched \subseteq touched', status'[j] = status[j],
           at'[j] = at[j], left'[j] = left[j], ver'[j] = ver[j], got'[j] = got[j]
    PROVE  CallInv(j)'
<1>1. CallInv(j)
  BY ControlParts
<1>2. Now(j)' = Now(j)
  BY DEF Now
<1> QED
  BY <1>1, <1>2 DEF CallInv

LEMMA ConstructControl ==
    ASSUME ControlInv, NEW p \in Processes, NEW s \in Services,
           Construct(p, s) \/ ConstructFails(p, s)
    PROVE  ControlInv'
<1>1. SharedInv
  BY ControlParts
<1>2. IndexesOf(s) \subseteq StorageSet \X BinName
  <2>1. /\ "uid" \in BinName /\ "app" \in BinName /\ "aus" \in BinName /\ "fname" \in BinName
    BY DEF BinName, BIN_REGISTRY
  <2>2. "sessions" \in StorageSet /\ "artifacts" \in StorageSet /\ "memory" \in StorageSet
    BY DEF StorageSet
  <2>3. \/ IndexesOf(s) = ensure_session_indexes \/ IndexesOf(s) = ensure_artifact_indexes
        \/ IndexesOf(s) = ensure_memory_indexes
    BY DEF IndexesOf, Services
  <2> QED
    BY <2>1, <2>2, <2>3 DEF ensure_session_indexes, ensure_artifact_indexes, ensure_memory_indexes
<1>3. /\ store' = store /\ touched' = touched /\ status' = status /\ at' = at /\ left' = left
      /\ ver' = ver /\ got' = got /\ before' = before /\ unread' = unread /\ unsure' = unsure
      /\ late' = late
  BY DEF Construct, ConstructFails, db, call, hist
<1>4. indexes' \subseteq StorageSet \X BinName
  BY <1>1, <1>2 DEF SharedInv, Construct, ConstructFails, IndexesMade
<1>5. up' \subseteq Processes \X Services
  BY <1>1 DEF SharedInv, Construct, ConstructFails
<1>6. faults' \in 0..MaxFaults
  BY <1>1, LayoutAssumption DEF SharedInv, Construct, ConstructFails, hist
<1>7. SharedInv'
  BY <1>1, <1>3, <1>4, <1>5, <1>6 DEF SharedInv
<1>8. \A j \in Jobs : CallInv(j)'
  BY <1>3, CallStays
<1>9. CallsInv'
  BY <1>8 DEF CallsInv
<1> QED
  BY <1>7, <1>9, ControlSplit, PTL

LEMMA BeginControl ==
    ASSUME ControlInv, NEW j \in Jobs, Begin(j)
    PROVE  ControlInv'
<1>1. SharedInv /\ CallInv(j)
  BY ControlParts
<1>2. /\ store' = store /\ touched' = touched /\ ver' = ver /\ got' = got /\ unread' = unread
      /\ unsure' = unsure /\ late' = late /\ indexes' = indexes /\ up' = up /\ faults' = faults
  BY DEF Begin, db, svc, hist
<1>3. /\ status' = [status EXCEPT ![j] = "busy"] /\ at' = [at EXCEPT ![j] = 1]
      /\ left' = [left EXCEPT ![j] = Plan[j][0][1].reqs]
      /\ before' = [before EXCEPT ![j] = {i \in Jobs : status[i] \in Ended}]
      /\ status[j] = "start"
  BY DEF Begin, End, Send
<1>4. /\ status' \in [Jobs -> {"absent", "start", "busy"} \cup Ended] /\ at' \in [Jobs -> 0..5]
      /\ left' = [i \in Jobs |-> left'[i]] /\ before' \in [Jobs -> SUBSET Jobs]
  <2>1. status' \in [Jobs -> {"absent", "start", "busy"} \cup Ended]
    BY <1>1, <1>3 DEF SharedInv
  <2>2. at' \in [Jobs -> 0..5]
    BY <1>1, <1>3 DEF SharedInv
  <2>3. left' = [i \in Jobs |-> left'[i]]
    BY <1>1, <1>3 DEF SharedInv
  <2>4. before' \in [Jobs -> SUBSET Jobs]
    BY <1>1, <1>3 DEF SharedInv
  <2> QED
    BY <2>1, <2>2, <2>3, <2>4
<1>5. SharedInv'
  BY <1>1, <1>2, <1>4 DEF SharedInv
<1>6. ASSUME NEW i \in Jobs, i # j PROVE CallInv(i)'
  <2>1. status'[i] = status[i] /\ at'[i] = at[i] /\ left'[i] = left[i]
    BY <1>1, <1>3, <1>6 DEF SharedInv
  <2> QED
    BY <1>2, <2>1, CallStays
<1>7. CallInv(j)'
  <2>1. ver[j] = 0
    BY <1>1, <1>3 DEF CallInv
  <2>2. status'[j] = "busy" /\ at'[j] = 1 /\ left'[j] = Plan[j][0][1].reqs
    BY <1>1, <1>3 DEF SharedInv
  <2>3. Now(j)' = Plan[j][0][1]
    BY <1>2, <2>1, <2>2 DEF Now
  <2>4. 1 \in 1..Len(Plan[j][0])
    <3>1. Len(Plan[j][0]) \in 1..5
      BY LayoutAssumption, PlanFacts DEF PlanShape
    <3>2. \A k : k \in 1..5 => 1 \in 1..k
      OBVIOUS
    <3> QED
      BY <3>1, <3>2
  <2> QED
    BY <1>1, <1>2, <2>2, <2>3, <2>4 DEF CallInv
<1>8. CallsInv'
  BY <1>6, <1>7 DEF CallsInv
<1> QED
  BY <1>5, <1>8, ControlSplit, PTL

\* The next stage, or the end.  The answer may have changed the version.
LEMMA ProceedFacts ==
    ASSUME ControlInv, NEW j \in Jobs, status[j] = "busy", Proceed(j),
           ver' \in [Jobs -> 0..MaxVersion], \A i \in Jobs \ {j} : ver'[i] = ver[i]
    PROVE  /\ status' \in [Jobs -> {"absent", "start", "busy"} \cup Ended]
           /\ at' \in [Jobs -> 0..5] /\ left' = [i \in Jobs |-> left'[i]]
           /\ \A i \in Jobs \ {j} : status'[i] = status[i] /\ at'[i] = at[i] /\ left'[i] = left[i]
           /\ \/ status'[j] = "done" /\ left'[j] = {} /\ at'[j] = at[j]
              \/ /\ status'[j] = "busy" /\ at'[j] = at[j] + 1 /\ left'[j] = Now(j)'.reqs
                 /\ at'[j] \in 1..Len(Plan[j][0])
<1>1. SharedInv
  BY ControlParts
<1>2. Len(Plan[j][ver'[j]]) = Len(Plan[j][0]) /\ Len(Plan[j][0]) \in 1..5
  BY LayoutAssumption, PlanFacts DEF PlanShape
<1>3. at[j] \in 1..Len(Plan[j][0])
  BY DEF ControlInv, ReqInv
<1>4. CASE at[j] = Len(Plan[j][ver'[j]]) \/ EarlyReturn(j, got'[j])
  <2>1. status' = [status EXCEPT ![j] = "done"] /\ left' = [left EXCEPT ![j] = {}] /\ at' = at
    BY <1>4 DEF Proceed, End, Send
  <2>2. status' \in [Jobs -> {"absent", "start", "busy"} \cup Ended]
    BY <1>1, <2>1 DEF SharedInv, Ended
  <2>3. at' \in [Jobs -> 0..5] /\ left' = [i \in Jobs |-> left'[i]]
    BY <1>1, <2>1 DEF SharedInv
  <2>4. \A i \in Jobs \ {j} : status'[i] = status[i] /\ at'[i] = at[i] /\ left'[i] = left[i]
    BY <1>1, <2>1 DEF SharedInv
  <2>5. status'[j] = "done" /\ left'[j] = {} /\ at'[j] = at[j]
    BY <1>1, <2>1 DEF SharedInv
  <2> QED
    BY <2>2, <2>3, <2>4, <2>5
<1>5. CASE ~(at[j] = Len(Plan[j][ver'[j]]) \/ EarlyReturn(j, got'[j]))
  <2>1. /\ at' = [at EXCEPT ![j] = at[j] + 1] /\ status' = status
        /\ left' = [left EXCEPT ![j] = Plan[j][ver'[j]][at[j] + 1].reqs]
    BY <1>5 DEF Proceed, Send
  <2>2. at[j] + 1 \in 1..Len(Plan[j][0]) /\ at[j] + 1 \in 0..5
    <3>1. at[j] # Len(Plan[j][0])
      BY <1>2, <1>5
    <3> QED
      BY <1>2, <1>3, <3>1, OneMore
  <2>3. at' \in [Jobs -> 0..5] /\ at'[j] = at[j] + 1 /\ \A i \in Jobs \ {j} : at'[i] = at[i]
    BY <1>1, <2>1, <2>2 DEF SharedInv
  <2>4. /\ left' = [i \in Jobs |-> left'[i]] /\ \A i \in Jobs \ {j} : left'[i] = left[i]
        /\ left'[j] = Plan[j][ver'[j]][at[j] + 1].reqs
    BY <1>1, <2>1 DEF SharedInv
  <2>5. left'[j] = Now(j)'.reqs
    BY <2>3, <2>4 DEF Now
  <2>6. status' \in [Jobs -> {"absent", "start", "busy"} \cup Ended]
    BY <1>1, <2>1 DEF SharedInv
  <2> QED
    BY <2>1, <2>2, <2>3, <2>4, <2>5, <2>6
<1> QED
  BY <1>4, <1>5

LEMMA AnswerControl ==
    ASSUME ControlInv, NEW j \in Jobs, NEW q \in left[j], Apply(j, q) \/ Answer(j, q)
    PROVE  ControlInv'
<1>1. SharedInv /\ CallInv(j)
  BY ControlParts
<1>2. /\ status[j] = "busy" /\ q \in Requests(j) /\ InBound(q) /\ Receive(j, q)
      /\ store' = After(q) /\ touched' = touched \cup Names(q)
  BY LeftFacts DEF Apply, Answer
<1>3. /\ indexes' = indexes /\ up' = up /\ before' = before /\ unread' = unread
      /\ unsure' = unsure /\ late' = late /\ faults' = faults
  BY DEF Apply, Answer, svc, hist
<1>4. /\ ver' \in [Jobs -> 0..MaxVersion] /\ \A i \in Jobs \ {j} : ver'[i] = ver[i]
      /\ left[j] # {q} => ver' = ver
      /\ got' = [i \in Jobs |-> got'[i]] /\ \A i \in Jobs \ {j} : got'[i] = got[i]
      /\ got'[j] = Over(got[j], Answered(q)) /\ DOMAIN Answered(q) \subseteq DOMAIN store
  BY <1>2, ReceiveFacts
<1>5. /\ DOMAIN store' \subseteq {x.pk : x \in touched'} /\ touched \subseteq touched'
      /\ \A p \in DOMAIN store' : p[1] = "artifacts" => store'[p].ver \in Nat
  BY <1>2, ServedTyped DEF Served
<1>6. DOMAIN got'[j] \subseteq {x.pk : x \in touched'}
  <2>1. DOMAIN got'[j] \subseteq DOMAIN got[j] \cup DOMAIN store
    <3>1. DOMAIN Over(got[j], Answered(q)) = DOMAIN got[j] \cup DOMAIN Answered(q)
      BY OverFacts
    <3> QED
      BY <1>4, <3>1
  <2>2. DOMAIN got[j] \subseteq {x.pk : x \in touched} /\ DOMAIN store \subseteq {x.pk : x \in touched}
    BY <1>1 DEF SharedInv, CallInv
  <2> QED
    BY <1>5, <2>1, <2>2
<1>7. /\ status' \in [Jobs -> {"absent", "start", "busy"} \cup Ended]
      /\ at' \in [Jobs -> 0..5] /\ left' = [i \in Jobs |-> left'[i]]
      /\ \A i \in Jobs \ {j} : status'[i] = status[i] /\ at'[i] = at[i] /\ left'[i] = left[i]
      /\ \/ status'[j] = "done" /\ left'[j] = {}
         \/ status'[j] = "busy" /\ at'[j] \in 1..Len(Plan[j][0]) /\ left'[j] \subseteq Now(j)'.reqs
  <2>1. CASE Answer(j, q)
    BY <1>2, <1>4, <2>1, ProceedFacts DEF Answer
  <2>2. CASE Apply(j, q)
    <3>1. status' = status /\ at' = at /\ ver' = ver /\ left' = [left EXCEPT ![j] = left[j] \ {q}]
      BY <1>4, <2>2 DEF Apply, Send
    <3>2. /\ left' = [i \in Jobs |-> left'[i]] /\ left'[j] = left[j] \ {q}
          /\ \A i \in Jobs \ {j} : left'[i] = left[i]
      BY <1>1, <3>1 DEF SharedInv
    <3>3. Now(j)' = Now(j)
      BY <3>1 DEF Now
    <3>4. left[j] \subseteq Now(j).reqs /\ at[j] \in 1..Len(Plan[j][0])
      BY <1>1, <1>2 DEF CallInv
    <3> QED
      BY <1>1, <1>2, <3>1, <3>2, <3>3, <3>4 DEF SharedInv
  <2> QED
    BY <2>1, <2>2
<1>8. SharedInv'
  BY <1>1, <1>3, <1>4, <1>5, <1>7 DEF SharedInv
<1>9. ASSUME NEW i \in Jobs, i # j PROVE CallInv(i)'
  BY <1>4, <1>5, <1>7, <1>9, CallStays
<1>10. CallInv(j)'
  BY <1>6, <1>7 DEF CallInv
<1>11. CallsInv'
  BY <1>9, <1>10 DEF CallsInv
<1> QED
  BY <1>8, <1>11, ControlSplit, PTL

LEMMA RaiseControl ==
    ASSUME ControlInv, NEW j \in Jobs, NEW q \in left[j], Raise(j, q)
    PROVE  ControlInv'
<1>1. SharedInv /\ CallInv(j)
  BY ControlParts
<1>2. /\ store' = store /\ touched \subseteq touched' /\ indexes' = indexes /\ up' = up
      /\ at' = at /\ ver' = ver /\ got' = got /\ before' = before /\ unread' = unread
      /\ unsure' = unsure /\ late' = late /\ faults' = faults
  BY DEF Raise, svc, hist
<1>3. /\ \E how \in {"failed", "noindex"} : status' = [status EXCEPT ![j] = how]
      /\ left' = [left EXCEPT ![j] = {}]
  BY DEF Raise, End, Send
<1>4. status' \in [Jobs -> {"absent", "start", "busy"} \cup Ended]
  BY <1>1, <1>3 DEF SharedInv, Ended
<1>5. /\ left' = [i \in Jobs |-> left'[i]] /\ left'[j] = {} /\ status'[j] \in {"failed", "noindex"}
      /\ \A i \in Jobs \ {j} : status'[i] = status[i] /\ left'[i] = left[i]
  BY <1>1, <1>3 DEF SharedInv
<1>6. DOMAIN store' \subseteq {x.pk : x \in touched'}
  BY <1>1, <1>2 DEF SharedInv
<1>7. SharedInv'
  BY <1>1, <1>2, <1>4, <1>5, <1>6 DEF SharedInv
<1>8. ASSUME NEW i \in Jobs, i # j PROVE CallInv(i)'
  BY <1>2, <1>5, <1>8, CallStays
<1>9. CallInv(j)'
  BY <1>1, <1>2, <1>5 DEF CallInv
<1>10. CallsInv'
  BY <1>8, <1>9 DEF CallsInv
<1> QED
  BY <1>7, <1>10, ControlSplit, PTL

LEMMA LosesControl ==
    ASSUME ControlInv, NEW j \in Jobs, Resend(j) \/ Fail(j)
    PROVE  ControlInv'
<1>1. SharedInv /\ CallInv(j)
  BY ControlParts
<1>2. status[j] = "busy" /\ Loses(j)
  BY DEF Resend, Fail
<1>3. /\ indexes' = indexes /\ up' = up /\ at' = at /\ ver' = ver /\ before' = before
  BY DEF Resend, Fail, svc
<1>4. /\ \/ /\ store' = store /\ touched' = touched
            /\ late' \in {late, late \cup {r \in left[j] : IsWrite(r)}}
         \/ \E q \in left[j] :
               /\ store' = After(q) /\ touched' = touched \cup Names(q)
               /\ late' \in {late, late \cup {r \in left[j] \ {q} : IsWrite(r)}}
      /\ faults' \in 0..MaxFaults /\ unread' = unread /\ unsure' \subseteq unsure \cup {j}
  BY <1>2, LosesFacts
<1>5. Served
  <2>1. \A q \in left[j] : q \in Requests(j)
    BY LeftFacts
  <2> QED
    BY <1>4, <2>1 DEF Served
<1>6. /\ DOMAIN store' \subseteq {x.pk : x \in touched'} /\ touched \subseteq touched'
      /\ \A p \in DOMAIN store' : p[1] = "artifacts" => store'[p].ver \in Nat
  BY <1>5, ServedTyped
<1>7. \A q \in late' : Asked(q) /\ IsWrite(q) /\ \E i \in Jobs : q \in Requests(i)
  <2>1. \A q \in late' : q \in late \/ (q \in left[j] /\ IsWrite(q))
    BY <1>4
  <2>2. \A q \in left[j] : Asked(q) /\ q \in Requests(j)
    BY LeftFacts
  <2> QED
    BY <1>1, <2>1, <2>2 DEF SharedInv
<1>8. /\ status' \in [Jobs -> {"absent", "start", "busy"} \cup Ended]
      /\ left' = [i \in Jobs |-> left'[i]] /\ got' = [i \in Jobs |-> got'[i]]
      /\ \A i \in Jobs \ {j} : status'[i] = status[i] /\ left'[i] = left[i] /\ got'[i] = got[i]
      /\ DOMAIN got'[j] \subseteq DOMAIN got[j]
      /\ \/ status'[j] = "failed" /\ left'[j] = {}
         \/ status'[j] = "busy" /\ left'[j] = Now(j).reqs
  <2>1. CASE Resend(j)
    <3>1. /\ status' = status /\ left' = [left EXCEPT ![j] = Now(j).reqs]
          /\ got' = [got EXCEPT ![j] = Except(got[j], Now(j).reqs)]
      BY <2>1 DEF Resend, Send
    <3>2. DOMAIN Except(got[j], Now(j).reqs) \subseteq DOMAIN got[j]
      BY DEF Except
    <3>3. /\ left' = [i \in Jobs |-> left'[i]] /\ left'[j] = Now(j).reqs
          /\ \A i \in Jobs \ {j} : left'[i] = left[i]
      BY <1>1, <3>1 DEF SharedInv
    <3>4. /\ got' = [i \in Jobs |-> got'[i]] /\ got'[j] = Except(got[j], Now(j).reqs)
          /\ \A i \in Jobs \ {j} : got'[i] = got[i]
      BY <1>1, <3>1 DEF SharedInv
    <3>5. status' \in [Jobs -> {"absent", "start", "busy"} \cup Ended]
      BY <1>1, <3>1 DEF SharedInv
    <3> QED
      BY <1>2, <3>1, <3>2, <3>3, <3>4, <3>5
  <2>2. CASE Fail(j)
    <3>1. /\ status' = [status EXCEPT ![j] = "failed"] /\ left' = [left EXCEPT ![j] = {}]
          /\ got' = got
      BY <2>2 DEF Fail, Send, End
    <3>2. status' \in [Jobs -> {"absent", "start", "busy"} \cup Ended]
      BY <1>1, <3>1 DEF SharedInv, Ended
    <3>3. /\ left' = [i \in Jobs |-> left'[i]] /\ left'[j] = {} /\ status'[j] = "failed"
          /\ \A i \in Jobs \ {j} : left'[i] = left[i] /\ status'[i] = status[i]
      BY <1>1, <3>1 DEF SharedInv
    <3> QED
      BY <1>1, <3>1, <3>2, <3>3 DEF SharedInv
  <2> QED
    BY <2>1, <2>2
<1>9. SharedInv'
  <2>1. unread' \subseteq Jobs /\ unsure' \subseteq Jobs
    BY <1>1, <1>4 DEF SharedInv
  <2>2. faults' \in 0..MaxFaults
    BY <1>4
  <2> QED
    BY <1>1, <1>3, <1>6, <1>7, <1>8, <2>1, <2>2 DEF SharedInv
<1>10. ASSUME NEW i \in Jobs, i # j PROVE CallInv(i)'
  BY <1>3, <1>6, <1>8, <1>10, CallStays
<1>11. CallInv(j)'
  <2>1. Now(j)' = Now(j)
    BY <1>3 DEF Now
  <2>2. DOMAIN got'[j] \subseteq {x.pk : x \in touched'}
    BY <1>1, <1>6, <1>8 DEF CallInv
  <2>3. at'[j] = at[j] /\ at[j] \in 1..Len(Plan[j][0])
    BY <1>1, <1>2, <1>3 DEF CallInv
  <2> QED
    BY <1>8, <2>1, <2>2, <2>3 DEF CallInv
<1>12. CallsInv'
  BY <1>10, <1>11 DEF CallsInv
<1> QED
  BY <1>9, <1>12, ControlSplit, PTL

LEMMA UnreadControl ==
    ASSUME ControlInv, NEW j \in Jobs, NEW q \in left[j], Unread(j, q)
    PROVE  ControlInv'
<1>1. SharedInv /\ CallInv(j)
  BY ControlParts
<1>2. /\ store' = store /\ touched' = touched /\ indexes' = indexes /\ up' = up /\ ver' = ver
      /\ got' = got /\ before' = before /\ unsure' = unsure /\ late' = late
      /\ unread' = unread \cup {j} /\ faults < MaxFaults /\ faults' = faults + 1
      /\ status[j] = "busy"
  BY DEF Unread, db, svc
<1>3. faults' \in 0..MaxFaults
  <2>1. faults \in 0..MaxFaults /\ MaxFaults \in Nat
    BY <1>1, LayoutAssumption DEF SharedInv
  <2> QED
    BY <1>2, <2>1
<1>4. /\ status' \in [Jobs -> {"absent", "start", "busy"} \cup Ended]
      /\ at' \in [Jobs -> 0..5] /\ left' = [i \in Jobs |-> left'[i]]
      /\ \A i \in Jobs \ {j} : status'[i] = status[i] /\ at'[i] = at[i] /\ left'[i] = left[i]
      /\ \/ status'[j] = "done" /\ left'[j] = {}
         \/ status'[j] = "busy" /\ at'[j] \in 1..Len(Plan[j][0]) /\ left'[j] \subseteq Now(j)'.reqs
  <2>1. CASE left[j] = {q}
    <3>1. Proceed(j)
      BY <2>1 DEF Unread
    <3>2. ver' \in [Jobs -> 0..MaxVersion] /\ \A i \in Jobs \ {j} : ver'[i] = ver[i]
      BY <1>1, <1>2 DEF SharedInv
    <3> QED
      BY <1>2, <3>1, <3>2, ProceedFacts
  <2>2. CASE left[j] # {q}
    <3>1. status' = status /\ at' = at /\ left' = [left EXCEPT ![j] = left[j] \ {q}]
      BY <2>2 DEF Unread, Send
    <3>2. /\ left' = [i \in Jobs |-> left'[i]] /\ left'[j] = left[j] \ {q}
          /\ \A i \in Jobs \ {j} : left'[i] = left[i]
      BY <1>1, <3>1 DEF SharedInv
    <3>3. Now(j)' = Now(j)
      BY <1>2, <3>1 DEF Now
    <3>4. left[j] \subseteq Now(j).reqs /\ at[j] \in 1..Len(Plan[j][0])
      BY <1>1, <1>2 DEF CallInv
    <3> QED
      BY <1>1, <1>2, <3>1, <3>2, <3>3, <3>4 DEF SharedInv
  <2> QED
    BY <2>1, <2>2
<1>5. SharedInv'
  BY <1>1, <1>2, <1>3, <1>4 DEF SharedInv
<1>6. ASSUME NEW i \in Jobs, i # j PROVE CallInv(i)'
  BY <1>2, <1>4, <1>6, CallStays
<1>7. CallInv(j)'
  BY <1>1, <1>2, <1>4 DEF CallInv
<1>8. CallsInv'
  BY <1>6, <1>7 DEF CallsInv
<1> QED
  BY <1>5, <1>8, ControlSplit, PTL

LEMMA LateControl ==
    ASSUME ControlInv, NEW q \in late, ApplyLate(q)
    PROVE  ControlInv'
<1>1. SharedInv
  BY ControlParts
<1>2. /\ store' = After(q) /\ touched' = touched \cup Names(q) /\ indexes' = indexes /\ up' = up
      /\ status' = status /\ at' = at /\ left' = left /\ ver' = ver /\ got' = got
      /\ before' = before /\ unread' = unread /\ unsure' = unsure /\ faults' = faults
      /\ late' = late \ {q}
  BY DEF ApplyLate, svc, call
<1>3. Served
  BY <1>1, <1>2 DEF SharedInv, Served
<1>4. /\ DOMAIN store' \subseteq {x.pk : x \in touched'} /\ touched \subseteq touched'
      /\ \A p \in DOMAIN store' : p[1] = "artifacts" => store'[p].ver \in Nat
  BY <1>3, ServedTyped
<1>5. SharedInv'
  BY <1>1, <1>2, <1>4 DEF SharedInv
<1>6. \A j \in Jobs : CallInv(j)'
  BY <1>2, <1>4, CallStays
<1>7. CallsInv'
  BY <1>6 DEF CallsInv
<1> QED
  BY <1>5, <1>7, ControlSplit, PTL

LEMMA ControlInit == Init => ControlInv
<1> SUFFICES ASSUME Init PROVE ControlInv
  OBVIOUS
<1>1. /\ DOMAIN store = {} /\ touched = {} /\ indexes = {} /\ up = {}
      /\ at = [j \in Jobs |-> 0] /\ left = [j \in Jobs |-> {}] /\ ver = [j \in Jobs |-> 0]
      /\ before = [j \in Jobs |-> {}] /\ unread = {} /\ unsure = {} /\ late = {} /\ faults = 0
      /\ got = [j \in Jobs |-> NoBins]
  BY DEF Init, NoBins
<1>2. status \in [Jobs -> {"absent", "start"}]
  BY DEF Init
<1>3. DOMAIN NoBins = {}
  BY DEF NoBins
<1>4. SharedInv
  <2>1. at \in [Jobs -> 0..5] /\ ver \in [Jobs -> 0..MaxVersion] /\ faults \in 0..MaxFaults
    BY <1>1, LayoutAssumption
  <2>2. left = [j \in Jobs |-> left[j]] /\ got = [j \in Jobs |-> got[j]]
    BY <1>1
  <2>3. status \in [Jobs -> {"absent", "start", "busy"} \cup Ended]
    BY <1>2
  <2> QED
    BY <1>1, <2>1, <2>2, <2>3 DEF SharedInv
<1>5. CallsInv
  BY <1>1, <1>2, <1>3 DEF CallsInv, CallInv
<1> QED
  BY <1>4, <1>5, ControlSplit

LEMMA ControlNext == ControlInv /\ [Next]_vars => ControlInv'
<1> SUFFICES ASSUME ControlInv, [Next]_vars PROVE ControlInv'
  OBVIOUS
<1>1. CASE UNCHANGED vars
  <2>1. SharedInv /\ CallsInv
    BY ControlSplit
  <2>2. SharedInv'
    BY <1>1, <2>1 DEF SharedInv, vars, db, svc, call, hist
  <2>3. CallsInv'
    BY <1>1, CallStays DEF CallsInv, vars, db, svc, call, hist
  <2> QED
    BY <2>2, <2>3, ControlSplit, PTL
<1>2. CASE Next
  BY <1>2, ConstructControl, BeginControl, LosesControl, AnswerControl, RaiseControl,
     UnreadControl, LateControl DEF Next
<1> QED
  BY <1>1, <1>2

LEMMA ControlAlways == Spec => []ControlInv
  BY ControlInit, ControlNext, PTL DEF Spec

\* Whatever the calls and the failures: the variables keep their types, a call
\* waits only while it is under way, and only for requests of its stage.
THEOREM LayoutTypes == Spec => []TypeOK
<1>1. ControlInv => TypeOK
  BY DEF ControlInv
<1> QED
  BY <1>1, ControlAlways, PTL

-----------------------------------------------------------------------------
(* Keys.                                                                   *)

\* ADK's identifiers hold no separator (_internal/keys.py), and a session is
\* not called by a word that the keys reserve.  File names are free.
WellNamed ==
    \A j \in Jobs :
        /\ Len(Job[j].app) = 1 /\ Len(Job[j].user) = 1 /\ Len(Job[j].sid) = 1
        /\ Len(Job[j].event) = 1 /\ Len(Job[j].token) = 1
        /\ Job[j].sid[1] \notin {"sl", "kw"}

Single(s) == s \in Seq(Word) /\ Len(s) = 1
Triple(k, a, b, c) ==
    k \in Seq(Word) /\ Len(k) = 3 /\ k[1] = a[1] /\ k[2] = b[1] /\ k[3] = c[1]
\* k continues the three parts of s with t.
Longer(k, s, t) ==
    /\ k \in Seq(Word) /\ Len(k) = 3 + Len(t)
    /\ k[1] = s[1] /\ k[2] = s[2] /\ k[3] = s[3]
    /\ \A i \in 1..Len(t) : k[3 + i] = t[i]
\* The key of a version or of a head: three parts, the file, and a suffix.
FileParts(k, a, b, c, f, z) ==
    /\ k \in Seq(Word) /\ Len(k) = (3 + Len(f)) + 1
    /\ k[1] = a[1] /\ k[2] = b[1] /\ k[3] = c[1]
    /\ \A i \in 1..Len(f) : k[3 + i] = f[i]
    /\ k[Len(k)] = z

Pair(k, a, b) == k[1] = a[1] /\ k[2] = b[1]
Quad(k, a, b, c, d) == Pair(k, a, b) /\ k[3] = c[1] /\ k[4] = d[1]
\* The key of a segment: three parts, "g" and the number.
Numbered(k, a, b, c, w) == Len(k) = 5 /\ Pair(k, a, b) /\ k[3] = c[1] /\ k[5] = w

LEMMA SameItems ==
    ASSUME NEW S, NEW f \in Seq(S), NEW h \in Seq(S), Len(f) = Len(h),
           \A i \in 1..Len(f) : f[i] = h[i]
    PROVE  f = h
  OBVIOUS

LEMMA SingleName == ASSUME NEW s, NEW t, Single(s), Single(t), s[1] = t[1] PROVE s = t
  BY DEF Single

LEMMA SuffixName == ASSUME NEW w \in Word PROVE Single(<<w>>) /\ <<w>>[1] = w
  BY DEF Single

LEMMA JoinAt ==
    ASSUME NEW s \in Seq(Word), NEW t \in Seq(Word), NEW m \in Nat, Len(s) = m
    PROVE  /\ s \o t \in Seq(Word) /\ Len(s \o t) = m + Len(t)
           /\ \A i \in 1..m : (s \o t)[i] = s[i]
           /\ \A i \in 1..Len(t) : (s \o t)[m + i] = t[i]
<1>1. s \o t \in Seq(Word) /\ Len(s \o t) = Len(s) + Len(t)
  BY Joined
<1>2. \A i \in 1..Len(s) : (s \o t)[i] = s[i]
  BY Joined
<1>3. \A i \in 1..Len(t) : (s \o t)[Len(s) + i] = t[i]
  BY Joined
<1> QED
  BY <1>1, <1>2, <1>3, Zenon

LEMMA OneAndOne ==
    ASSUME NEW s, NEW t, Single(s), Single(t)
    PROVE  /\ s \o t \in Seq(Word) /\ Len(s \o t) = 2 /\ (s \o t)[1] = s[1] /\ (s \o t)[2] = t[1]
<1>0. s \in Seq(Word) /\ Len(s) = 1 /\ t \in Seq(Word) /\ Len(t) = 1 /\ 1 \in Nat
  BY DEF Single
<1>1. /\ s \o t \in Seq(Word) /\ Len(s \o t) = 1 + Len(t)
      /\ \A i \in 1..1 : (s \o t)[i] = s[i]
      /\ \A i \in 1..Len(t) : (s \o t)[1 + i] = t[i]
  BY <1>0, JoinAt
<1>2. \A n : n = 1 => 1 + n = 2 /\ 1 \in 1..n /\ 1 \in 1..1
  OBVIOUS
<1>3. 1 + Len(t) = 2 /\ 1 \in 1..Len(t) /\ 1 \in 1..1
  BY <1>0, <1>2
<1>4. (s \o t)[1 + 1] = t[1]
  BY <1>1, <1>3
<1> QED
  BY <1>1, <1>3, <1>4

LEMMA PairKey == ASSUME NEW s, NEW t, Single(s), Single(t) PROVE Pair(s \o t, s, t)
  BY OneAndOne DEF Pair

LEMMA TwoAndOne ==
    ASSUME NEW s, NEW t, s \in Seq(Word), Len(s) = 2, Single(t)
    PROVE  /\ s \o t \in Seq(Word) /\ Len(s \o t) = 3
           /\ (s \o t)[1] = s[1] /\ (s \o t)[2] = s[2] /\ (s \o t)[3] = t[1]
<1>0. t \in Seq(Word) /\ Len(t) = 1 /\ 2 \in Nat
  BY DEF Single
<1>1. /\ s \o t \in Seq(Word) /\ Len(s \o t) = 2 + Len(t)
      /\ \A i \in 1..2 : (s \o t)[i] = s[i]
      /\ \A i \in 1..Len(t) : (s \o t)[2 + i] = t[i]
  BY <1>0, JoinAt, Zenon
<1>2. \A n : n = 1 => 2 + n = 3 /\ 1 \in 1..n /\ 1 \in 1..2 /\ 2 \in 1..2
  OBVIOUS
<1>3. 2 + Len(t) = 3 /\ 1 \in 1..Len(t) /\ 1 \in 1..2 /\ 2 \in 1..2
  BY <1>0, <1>2
<1>4. (s \o t)[2 + 1] = t[1]
  BY <1>1, <1>3
<1> QED
  BY <1>1, <1>3, <1>4

LEMMA TripleKey ==
    ASSUME NEW a, NEW b, NEW c, Single(a), Single(b), Single(c)
    PROVE  Triple(a \o b \o c, a, b, c)
<1> DEFINE s == a \o b
<1>1. s \in Seq(Word) /\ Len(s) = 2 /\ s[1] = a[1] /\ s[2] = b[1]
  BY OneAndOne
<1> HIDE DEF s
<1>2. /\ s \o c \in Seq(Word) /\ Len(s \o c) = 3
      /\ (s \o c)[1] = s[1] /\ (s \o c)[2] = s[2] /\ (s \o c)[3] = c[1]
  BY <1>1, TwoAndOne
<1>3. Triple(s \o c, a, b, c)
  BY <1>1, <1>2 DEF Triple
<1> QED
  BY <1>3 DEF s

LEMMA LongerKey ==
    ASSUME NEW s \in Seq(Word), NEW t \in Seq(Word), Len(s) = 3
    PROVE  Longer(s \o t, s, t)
<1>1. /\ s \o t \in Seq(Word) /\ Len(s \o t) = 3 + Len(t)
      /\ \A i \in 1..3 : (s \o t)[i] = s[i]
      /\ \A i \in 1..Len(t) : (s \o t)[3 + i] = t[i]
  <2>1. 3 \in Nat
    OBVIOUS
  <2> QED
    BY <2>1, JoinAt, Zenon
<1>2. 1 \in 1..3 /\ 2 \in 1..3 /\ 3 \in 1..3
  OBVIOUS
<1> QED
  BY <1>1, <1>2 DEF Longer

LEMMA FileKey ==
    ASSUME NEW a, NEW b, NEW c, Single(a), Single(b), Single(c), NEW f \in Seq(Word), NEW z \in Word
    PROVE  FileParts(a \o b \o c \o f \o <<z>>, a, b, c, f, z)
<1> DEFINE s == a \o b \o c
           t == s \o f
           m == 3 + Len(f)
           k == t \o <<z>>
<1>1. Triple(s, a, b, c)
  BY TripleKey
<1> HIDE DEF s
<1>2. Longer(t, s, f)
  BY <1>1, LongerKey DEF Triple
<1> HIDE DEF t
<1>3. <<z>> \in Seq(Word) /\ Len(<<z>>) = 1 /\ <<z>>[1] = z
  BY SuffixName DEF Single
<1>4. Len(f) \in Nat
  OBVIOUS
<1>5. /\ m \in Nat /\ 1 \in 1..m /\ 2 \in 1..m /\ 3 \in 1..m /\ \A i \in 1..Len(f) : 3 + i \in 1..m
  BY <1>4
<1>6. Len(t) = m /\ t \in Seq(Word)
  BY <1>2 DEF Longer
<1> HIDE DEF m
<1>7. /\ k \in Seq(Word) /\ Len(k) = m + Len(<<z>>)
      /\ \A i \in 1..m : k[i] = t[i]
      /\ \A i \in 1..Len(<<z>>) : k[m + i] = <<z>>[i]
  <2>1. m \in Nat
    BY <1>5
  <2>2. <<z>> \in Seq(Word)
    BY <1>3
  <2> QED
    BY <1>6, <2>1, <2>2, JoinAt, Zenon
<1> HIDE DEF k
<1>8. \A n : n = 1 => 1 \in 1..n
  OBVIOUS
<1>9. /\ k \in Seq(Word) /\ Len(k) = m + 1 /\ k[m + 1] = z /\ \A i \in 1..m : k[i] = t[i]
  BY <1>3, <1>7, <1>8
<1>10. k[1] = a[1] /\ k[2] = b[1] /\ k[3] = c[1]
  BY <1>1, <1>2, <1>5, <1>9 DEF Triple, Longer
<1>11. \A i \in 1..Len(f) : k[3 + i] = f[i]
  BY <1>2, <1>5, <1>9 DEF Longer
<1>12. FileParts(k, a, b, c, f, z)
  BY <1>9, <1>10, <1>11 DEF FileParts, m
<1> QED
  BY <1>12 DEF k, t, s

LEMMA SameLength == \A m, n \in Nat : (3 + m) + 1 = (3 + n) + 1 => m = n
  OBVIOUS

\* It tells all of them.
LEMMA FileKeyUnique ==
    ASSUME NEW k, NEW a, NEW b, NEW c, Single(a), Single(b), Single(c), NEW f \in Seq(Word), NEW y,
           NEW d, NEW e, NEW g, Single(d), Single(e), Single(g), NEW h \in Seq(Word), NEW z,
           FileParts(k, a, b, c, f, y), FileParts(k, d, e, g, h, z)
    PROVE  a = d /\ b = e /\ c = g /\ f = h /\ y = z
<1>1. /\ Len(k) = (3 + Len(f)) + 1 /\ k[1] = a[1] /\ k[2] = b[1] /\ k[3] = c[1]
      /\ (\A i \in 1..Len(f) : k[3 + i] = f[i]) /\ k[Len(k)] = y
  BY DEF FileParts
<1>2. /\ Len(k) = (3 + Len(h)) + 1 /\ k[1] = d[1] /\ k[2] = e[1] /\ k[3] = g[1]
      /\ (\A i \in 1..Len(h) : k[3 + i] = h[i]) /\ k[Len(k)] = z
  BY DEF FileParts
<1>3. a = d /\ b = e /\ c = g
  BY <1>1, <1>2, SingleName
<1>4. Len(f) = Len(h)
  <2>1. Len(f) \in Nat /\ Len(h) \in Nat
    OBVIOUS
  <2>2. (3 + Len(f)) + 1 = (3 + Len(h)) + 1
    BY <1>1, <1>2
  <2> QED
    BY <2>1, <2>2, SameLength
<1>5. \A i \in 1..Len(f) : f[i] = h[i]
  BY <1>1, <1>2, <1>4
<1>6. f = h
  BY <1>4, <1>5, SameItems
<1> QED
  BY <1>1, <1>2, <1>3, <1>6

LEMMA FourKey ==
    ASSUME NEW a, NEW b, NEW c, NEW d, Single(a), Single(b), Single(c), Single(d)
    PROVE  Quad(a \o b \o c \o d, a, b, c, d)
<1> DEFINE s == a \o b \o c
           k == s \o d
<1>1. Triple(s, a, b, c)
  BY TripleKey
<1> HIDE DEF s
<1>2. Longer(k, s, d)
  BY <1>1, LongerKey DEF Triple, Single
<1> HIDE DEF k
<1>3. \A n : n = 1 => 1 \in 1..n
  OBVIOUS
<1>4. k[3 + 1] = d[1]
  BY <1>2, <1>3 DEF Longer, Single
<1>5. Quad(k, a, b, c, d)
  BY <1>1, <1>2, <1>4 DEF Triple, Longer, Quad, Pair
<1> QED
  BY <1>5 DEF k, s

LEMMA SegmentKey ==
    ASSUME NEW a, NEW b, NEW c, NEW w \in Word, Single(a), Single(b), Single(c)
    PROVE  Numbered(a \o b \o c \o <<"g", w>>, a, b, c, w)
<1> DEFINE s == a \o b \o c
           t == <<"g", w>>
           k == s \o t
<1>1. Triple(s, a, b, c)
  BY TripleKey
<1> HIDE DEF s
<1>2. t \in Seq(Word) /\ Len(t) = 2 /\ t[2] = w
  BY WordAssumption
<1> HIDE DEF t
<1>3. Longer(k, s, t)
  BY <1>1, <1>2, LongerKey DEF Triple
<1> HIDE DEF k
<1>4. \A n : n = 2 => 2 \in 1..n /\ 3 + n = 5
  OBVIOUS
<1>5. Len(k) = 5 /\ k[3 + 2] = t[2]
  BY <1>2, <1>3, <1>4 DEF Longer
<1>6. Numbered(k, a, b, c, w)
  BY <1>1, <1>2, <1>3, <1>5 DEF Triple, Longer, Numbered, Pair
<1> QED
  BY <1>6 DEF k, t, s

LEMMA NameFacts ==
    ASSUME WellNamed, NEW j \in Jobs
    PROVE  /\ Single(Job[j].app) /\ Single(Job[j].user) /\ Single(Job[j].sid)
           /\ Single(Job[j].event) /\ Single(Job[j].token) /\ Single(ScopeOf(Job[j]))
           /\ Job[j].file \in Seq(Word)
           /\ Job[j].sid[1] # "sl" /\ Job[j].sid[1] # "kw"
<1>1. /\ Job[j].app \in Seq(Word) /\ Job[j].user \in Seq(Word) /\ Job[j].sid \in Seq(Word)
      /\ Job[j].event \in Seq(Word) /\ Job[j].token \in Seq(Word) /\ Job[j].file \in Seq(Word)
  BY JobType DEF Calls, Name
<1>2. Single(Job[j].app) /\ Single(Job[j].user) /\ Single(Job[j].sid)
      /\ Single(Job[j].event) /\ Single(Job[j].token)
  BY <1>1 DEF WellNamed, Single
<1>3. Single(<<"user">>)
  <2>1. "user" \in Word
    BY WordAssumption
  <2> QED
    BY <2>1, SuffixName
<1>4. ScopeOf(Job[j]) = <<"user">> \/ ScopeOf(Job[j]) = Job[j].sid
  BY DEF ScopeOf, artifact_scope_id, USER_SCOPE_SID
<1> QED
  BY <1>1, <1>2, <1>3, <1>4 DEF WellNamed

\* The key of each place.
LEMMA PlaceKeys ==
    ASSUME WellNamed, NEW j \in Jobs
    PROVE  LET c == Job[j] IN
           /\ Triple(SessionPlace(c).pk[2], c.app, c.user, c.sid)
           /\ Triple(ManifestPlace(c).pk[2], c.app, c.user, <<"sl">>)
           /\ AppPlace(c).pk[2] = c.app
           /\ UserPlace(c).pk[2] = c.app \o c.user
           /\ FileParts(HeadPlace(c).pk[2], c.app, c.user, ScopeOf(c), c.file, "__head__")
           /\ \A n \in Numbers :
                 FileParts(ArtifactPlace(c, n).pk[2], c.app, c.user, ScopeOf(c), c.file, Pad(n))
           /\ MemoryPlace(c).pk[2] = c.app \o c.user \o c.sid \o c.event
           /\ PostingPlace(c).pk[2] = c.app \o c.user \o <<"kw">> \o c.token
           /\ \A n : SegmentPlace(c, n).pk[2] = c.app \o c.user \o c.sid \o <<"g", Pad(n)>>
<1> DEFINE c == Job[j]
<1>1. Single(c.app) /\ Single(c.user) /\ Single(c.sid) /\ Single(ScopeOf(c)) /\ c.file \in Seq(Word)
  BY NameFacts
<1>2. "sl" \in Word /\ "__head__" \in Word /\ \A n \in Numbers : Pad(n) \in Word
  BY WordAssumption, PadAssumption
<1>3. \A set, key, kind, what : Place(set, key, kind, what).pk[2] = key
  BY DEF Place
<1>4. /\ SessionPlace(c).pk[2] = session_key(c.app, c.user, c.sid)
      /\ ManifestPlace(c).pk[2] = session_manifest_key(c.app, c.user)
      /\ AppPlace(c).pk[2] = app_state_key(c.app)
      /\ UserPlace(c).pk[2] = user_state_key(c.app, c.user)
      /\ HeadPlace(c).pk[2] = artifact_head_key(c.app, c.user, ScopeOf(c), c.file)
      /\ \A n : ArtifactPlace(c, n).pk[2] = artifact_key(c.app, c.user, ScopeOf(c), c.file, n)
      /\ MemoryPlace(c).pk[2] = memory_key(c.app, c.user, c.sid, c.event)
      /\ PostingPlace(c).pk[2] = memory_posting_key(c.app, c.user, c.token)
      /\ \A n : SegmentPlace(c, n).pk[2] = segment_key(c.app, c.user, c.sid, n)
  BY <1>3 DEF SessionPlace, ManifestPlace, AppPlace, UserPlace, HeadPlace, ArtifactPlace,
              MemoryPlace, PostingPlace, SegmentPlace
<1>5. ManifestPlace(c).pk[2] = c.app \o c.user \o <<"sl">>
  BY <1>4, Zenon DEF session_manifest_key
<1>6. AppPlace(c).pk[2] = c.app
  BY <1>4 DEF app_state_key
<1>7. UserPlace(c).pk[2] = c.app \o c.user
  BY <1>4, Zenon DEF user_state_key
<1>8. HeadPlace(c).pk[2] = c.app \o c.user \o ScopeOf(c) \o c.file \o <<"__head__">>
  BY <1>4, Zenon DEF artifact_head_key
<1>9. \A n : ArtifactPlace(c, n).pk[2] = c.app \o c.user \o ScopeOf(c) \o c.file \o <<Pad(n)>>
  BY <1>4, Zenon DEF artifact_key
<1>10. MemoryPlace(c).pk[2] = c.app \o c.user \o c.sid \o c.event
  BY <1>4, Zenon DEF memory_key
<1>11. PostingPlace(c).pk[2] = c.app \o c.user \o <<"kw">> \o c.token
  BY <1>4, Zenon DEF memory_posting_key
<1>12. \A n : SegmentPlace(c, n).pk[2] = c.app \o c.user \o c.sid \o <<"g", Pad(n)>>
  BY <1>4, Zenon DEF segment_key
<1>13. Triple(SessionPlace(c).pk[2], c.app, c.user, c.sid)
  BY <1>1, <1>4, TripleKey, Zenon DEF session_key
<1>14. Triple(ManifestPlace(c).pk[2], c.app, c.user, <<"sl">>)
  BY <1>1, <1>2, <1>5, TripleKey, SuffixName
<1>15. FileParts(HeadPlace(c).pk[2], c.app, c.user, ScopeOf(c), c.file, "__head__")
  BY <1>1, <1>2, <1>8, FileKey
<1>16. \A n \in Numbers :
          FileParts(ArtifactPlace(c, n).pk[2], c.app, c.user, ScopeOf(c), c.file, Pad(n))
  BY <1>1, <1>2, <1>9, FileKey
<1> QED
  BY <1>6, <1>7, <1>10, <1>11, <1>12, <1>13, <1>14, <1>15, <1>16

LEMMA SegmentParts ==
    ASSUME WellNamed, NEW j \in Jobs, NEW n \in Numbers
    PROVE  Numbered(SegmentPlace(Job[j], n).pk[2], Job[j].app, Job[j].user, Job[j].sid, Pad(n))
<1>1. SegmentPlace(Job[j], n).pk[2] = Job[j].app \o Job[j].user \o Job[j].sid \o <<"g", Pad(n)>>
  BY PlaceKeys
<1>2. Single(Job[j].app) /\ Single(Job[j].user) /\ Single(Job[j].sid) /\ Pad(n) \in Word
  BY NameFacts, PadAssumption
<1> QED
  BY <1>1, <1>2, SegmentKey, Zenon

LEMMA RowParts ==
    ASSUME WellNamed, NEW j \in Jobs
    PROVE  LET c == Job[j] IN
           /\ Quad(MemoryPlace(c).pk[2], c.app, c.user, c.sid, c.event)
           /\ Quad(PostingPlace(c).pk[2], c.app, c.user, <<"kw">>, c.token)
           /\ Pair(UserPlace(c).pk[2], c.app, c.user)
<1> DEFINE c == Job[j]
<1>1. /\ Single(c.app) /\ Single(c.user) /\ Single(c.sid) /\ Single(c.event) /\ Single(c.token)
  BY NameFacts
<1>2. Single(<<"kw">>)
  BY WordAssumption, SuffixName
<1>3. /\ MemoryPlace(c).pk[2] = c.app \o c.user \o c.sid \o c.event
      /\ PostingPlace(c).pk[2] = c.app \o c.user \o <<"kw">> \o c.token
      /\ UserPlace(c).pk[2] = c.app \o c.user
  BY PlaceKeys
<1>4. Quad(MemoryPlace(c).pk[2], c.app, c.user, c.sid, c.event)
  BY <1>1, <1>3, FourKey, Zenon
<1>5. Quad(PostingPlace(c).pk[2], c.app, c.user, <<"kw">>, c.token)
  BY <1>1, <1>2, <1>3, FourKey, Zenon
<1>6. Pair(c.app \o c.user, c.app, c.user)
  BY <1>1, PairKey, Zenon
<1> QED
  BY <1>3, <1>4, <1>5, <1>6, Zenon

SamePlace(x, y) == x.pk = y.pk => x = y

\* Two places of one set are the same if they have the same key.
LEMMA SessionsUnique ==
    ASSUME WellNamed, NEW i \in Jobs, NEW j \in Jobs, NEW m \in {0, 1}, NEW n \in {0, 1}
    PROVE  /\ SamePlace(SessionPlace(Job[i]), SessionPlace(Job[j]))
           /\ SamePlace(ManifestPlace(Job[i]), ManifestPlace(Job[j]))
           /\ SamePlace(SegmentPlace(Job[i], m), SegmentPlace(Job[j], n))
           /\ SessionPlace(Job[i]).pk # ManifestPlace(Job[j]).pk
           /\ SessionPlace(Job[i]).pk # SegmentPlace(Job[j], n).pk
           /\ ManifestPlace(Job[i]).pk # SegmentPlace(Job[j], n).pk
<1>1. m \in Numbers /\ n \in Numbers
  BY DEF Numbers
<1>2. \A k \in Jobs : /\ Single(Job[k].app) /\ Single(Job[k].user) /\ Single(Job[k].sid)
                      /\ Job[k].sid[1] # "sl"
  BY NameFacts
<1>3. \A k \in Jobs : /\ Triple(SessionPlace(Job[k]).pk[2], Job[k].app, Job[k].user, Job[k].sid)
                      /\ Triple(ManifestPlace(Job[k]).pk[2], Job[k].app, Job[k].user, <<"sl">>)
  BY PlaceKeys
<1>4. \A k \in Jobs, l \in Numbers :
         Numbered(SegmentPlace(Job[k], l).pk[2], Job[k].app, Job[k].user, Job[k].sid, Pad(l))
  BY SegmentParts
<1>5. <<"sl">>[1] = "sl"
  OBVIOUS
<1>6. SamePlace(SessionPlace(Job[i]), SessionPlace(Job[j]))
  <2>1. SUFFICES ASSUME SessionPlace(Job[i]).pk = SessionPlace(Job[j]).pk
                 PROVE  SessionPlace(Job[i]) = SessionPlace(Job[j])
    BY DEF SamePlace
  <2>2. Job[i].app[1] = Job[j].app[1] /\ Job[i].user[1] = Job[j].user[1]
        /\ Job[i].sid[1] = Job[j].sid[1]
    BY <1>3, <2>1 DEF Triple
  <2>3. Job[i].app = Job[j].app /\ Job[i].user = Job[j].user /\ Job[i].sid = Job[j].sid
    BY <1>2, <2>2, SingleName
  <2> QED
    BY <2>3, Zenon DEF SessionPlace
<1>7. SamePlace(ManifestPlace(Job[i]), ManifestPlace(Job[j]))
  <2>1. SUFFICES ASSUME ManifestPlace(Job[i]).pk = ManifestPlace(Job[j]).pk
                 PROVE  ManifestPlace(Job[i]) = ManifestPlace(Job[j])
    BY DEF SamePlace
  <2>2. Job[i].app[1] = Job[j].app[1] /\ Job[i].user[1] = Job[j].user[1]
    BY <1>3, <2>1 DEF Triple
  <2>3. Job[i].app = Job[j].app /\ Job[i].user = Job[j].user
    BY <1>2, <2>2, SingleName
  <2> QED
    BY <2>3, Zenon DEF ManifestPlace
<1>8. SamePlace(SegmentPlace(Job[i], m), SegmentPlace(Job[j], n))
  <2>1. SUFFICES ASSUME SegmentPlace(Job[i], m).pk = SegmentPlace(Job[j], n).pk
                 PROVE  SegmentPlace(Job[i], m) = SegmentPlace(Job[j], n)
    BY DEF SamePlace
  <2>2. Job[i].app[1] = Job[j].app[1] /\ Job[i].user[1] = Job[j].user[1]
        /\ Job[i].sid[1] = Job[j].sid[1] /\ Pad(m) = Pad(n)
    BY <1>1, <1>4, <2>1 DEF Numbered, Pair
  <2>3. Job[i].app = Job[j].app /\ Job[i].user = Job[j].user /\ Job[i].sid = Job[j].sid /\ m = n
    BY <1>1, <1>2, <2>2, SingleName, PadAssumption
  <2> QED
    BY <2>3, Zenon DEF SegmentPlace
<1>9. SessionPlace(Job[i]).pk # ManifestPlace(Job[j]).pk
  BY <1>2, <1>3, <1>5 DEF Triple
<1>10. \A k : ~(Len(k) = 3 /\ Len(k) = 5)
  OBVIOUS
<1>11. SessionPlace(Job[i]).pk # SegmentPlace(Job[j], n).pk
  BY <1>1, <1>3, <1>4, <1>10 DEF Triple, Numbered
<1>12. ManifestPlace(Job[i]).pk # SegmentPlace(Job[j], n).pk
  BY <1>1, <1>3, <1>4, <1>10 DEF Triple, Numbered
<1> QED
  BY <1>6, <1>7, <1>8, <1>9, <1>11, <1>12

LEMMA StatesUnique ==
    ASSUME WellNamed, NEW i \in Jobs, NEW j \in Jobs
    PROVE  /\ SamePlace(AppPlace(Job[i]), AppPlace(Job[j]))
           /\ SamePlace(UserPlace(Job[i]), UserPlace(Job[j]))
<1>1. ASSUME AppPlace(Job[i]).pk = AppPlace(Job[j]).pk
      PROVE  AppPlace(Job[i]) = AppPlace(Job[j])
  <2>1. Job[i].app = Job[j].app
    BY <1>1, PlaceKeys
  <2> QED
    BY <2>1, Zenon DEF AppPlace
<1>2. ASSUME UserPlace(Job[i]).pk = UserPlace(Job[j]).pk
      PROVE  UserPlace(Job[i]) = UserPlace(Job[j])
  <2>1. Job[i].app[1] = Job[j].app[1] /\ Job[i].user[1] = Job[j].user[1]
    BY <1>2, RowParts DEF Pair
  <2>2. Job[i].app = Job[j].app /\ Job[i].user = Job[j].user
    BY <2>1, NameFacts, SingleName
  <2> QED
    BY <2>2, Zenon DEF UserPlace
<1> QED
  BY <1>1, <1>2 DEF SamePlace

LEMMA FilesUnique ==
    ASSUME WellNamed, NEW i \in Jobs, NEW j \in Jobs,
           NEW m \in 0..MaxVersion, NEW n \in 0..MaxVersion
    PROVE  /\ SamePlace(HeadPlace(Job[i]), HeadPlace(Job[j]))
           /\ SamePlace(ArtifactPlace(Job[i], m), ArtifactPlace(Job[j], n))
           /\ HeadPlace(Job[i]).pk # ArtifactPlace(Job[j], n).pk
<1>1. m \in Numbers /\ n \in Numbers
  BY DEF Numbers
<1>2. \A k \in Jobs : /\ Single(Job[k].app) /\ Single(Job[k].user) /\ Single(ScopeOf(Job[k]))
                      /\ Job[k].file \in Seq(Word)
  BY NameFacts
<1>3. \A k \in Jobs : FileParts(HeadPlace(Job[k]).pk[2], Job[k].app, Job[k].user, ScopeOf(Job[k]),
                                Job[k].file, "__head__")
  BY PlaceKeys
<1>4. \A k \in Jobs, l \in Numbers :
         FileParts(ArtifactPlace(Job[k], l).pk[2], Job[k].app, Job[k].user, ScopeOf(Job[k]),
                   Job[k].file, Pad(l))
  BY PlaceKeys
<1>5. ASSUME HeadPlace(Job[i]).pk = HeadPlace(Job[j]).pk
      PROVE  HeadPlace(Job[i]) = HeadPlace(Job[j])
  <2>1. /\ Job[i].app = Job[j].app /\ Job[i].user = Job[j].user
        /\ ScopeOf(Job[i]) = ScopeOf(Job[j]) /\ Job[i].file = Job[j].file
    BY <1>2, <1>3, <1>5, FileKeyUnique
  <2> QED
    BY <2>1, Zenon DEF HeadPlace
<1>6. ASSUME ArtifactPlace(Job[i], m).pk = ArtifactPlace(Job[j], n).pk
      PROVE  ArtifactPlace(Job[i], m) = ArtifactPlace(Job[j], n)
  <2>1. /\ Job[i].app = Job[j].app /\ Job[i].user = Job[j].user
        /\ ScopeOf(Job[i]) = ScopeOf(Job[j]) /\ Job[i].file = Job[j].file /\ Pad(m) = Pad(n)
    BY <1>1, <1>2, <1>4, <1>6, FileKeyUnique
  <2>2. m = n
    BY <1>1, <2>1, PadAssumption
  <2> QED
    BY <2>1, <2>2, Zenon DEF ArtifactPlace
<1>7. ASSUME HeadPlace(Job[i]).pk = ArtifactPlace(Job[j], n).pk
      PROVE  FALSE
  <2>1. Pad(n) = "__head__"
    BY <1>1, <1>2, <1>3, <1>4, <1>7, FileKeyUnique
  <2> QED
    BY <1>1, <2>1, PadAssumption
<1> QED
  BY <1>5, <1>6, <1>7 DEF SamePlace

LEMMA RowsUnique ==
    ASSUME WellNamed, NEW i \in Jobs, NEW j \in Jobs
    PROVE  /\ SamePlace(MemoryPlace(Job[i]), MemoryPlace(Job[j]))
           /\ SamePlace(PostingPlace(Job[i]), PostingPlace(Job[j]))
           /\ MemoryPlace(Job[i]).pk # PostingPlace(Job[j]).pk
<1>1. \A k \in Jobs : /\ Single(Job[k].app) /\ Single(Job[k].user) /\ Single(Job[k].sid)
                      /\ Single(Job[k].event) /\ Single(Job[k].token) /\ Job[k].sid[1] # "kw"
  BY NameFacts
<1>2. \A k \in Jobs :
         /\ Quad(MemoryPlace(Job[k]).pk[2], Job[k].app, Job[k].user, Job[k].sid, Job[k].event)
         /\ Quad(PostingPlace(Job[k]).pk[2], Job[k].app, Job[k].user, <<"kw">>, Job[k].token)
  BY RowParts
<1>3. <<"kw">>[1] = "kw"
  OBVIOUS
<1>4. ASSUME MemoryPlace(Job[i]).pk = MemoryPlace(Job[j]).pk
      PROVE  MemoryPlace(Job[i]) = MemoryPlace(Job[j])
  <2>1. Job[i].app[1] = Job[j].app[1] /\ Job[i].user[1] = Job[j].user[1]
        /\ Job[i].sid[1] = Job[j].sid[1] /\ Job[i].event[1] = Job[j].event[1]
    BY <1>2, <1>4 DEF Quad, Pair
  <2>2. Job[i].app = Job[j].app /\ Job[i].user = Job[j].user /\ Job[i].sid = Job[j].sid
        /\ Job[i].event = Job[j].event
    BY <1>1, <2>1, SingleName
  <2> QED
    BY <2>2, Zenon DEF MemoryPlace
<1>5. ASSUME PostingPlace(Job[i]).pk = PostingPlace(Job[j]).pk
      PROVE  PostingPlace(Job[i]) = PostingPlace(Job[j])
  <2>1. Job[i].app[1] = Job[j].app[1] /\ Job[i].user[1] = Job[j].user[1]
        /\ Job[i].token[1] = Job[j].token[1]
    BY <1>2, <1>5 DEF Quad, Pair
  <2>2. Job[i].app = Job[j].app /\ Job[i].user = Job[j].user /\ Job[i].token = Job[j].token
    BY <1>1, <2>1, SingleName
  <2> QED
    BY <2>2, Zenon DEF PostingPlace
<1>6. MemoryPlace(Job[i]).pk # PostingPlace(Job[j]).pk
  BY <1>1, <1>2, <1>3 DEF Quad
<1> QED
  BY <1>4, <1>5, <1>6 DEF SamePlace

InSessions(j, x)  == \/ x = SessionPlace(Job[j]) \/ x = ManifestPlace(Job[j])
                     \/ \E n \in {0, 1} : x = SegmentPlace(Job[j], n)
InArtifacts(j, x) == \/ x = HeadPlace(Job[j]) \/ \E n \in 0..MaxVersion : x = ArtifactPlace(Job[j], n)
InMemory(j, x)    == x = MemoryPlace(Job[j]) \/ x = PostingPlace(Job[j])

LEMMA PlacesBySet ==
    ASSUME NEW j \in Jobs, NEW x \in Places(j)
    PROVE  \/ InSessions(j, x) /\ x.pk[1] = "sessions"
           \/ x = AppPlace(Job[j]) /\ x.pk[1] = "app_state"
           \/ x = UserPlace(Job[j]) /\ x.pk[1] = "user_state"
           \/ InArtifacts(j, x) /\ x.pk[1] = "artifacts"
           \/ InMemory(j, x) /\ x.pk[1] = "memory"
<1>1. \/ InSessions(j, x) \/ x = AppPlace(Job[j]) \/ x = UserPlace(Job[j]) \/ InArtifacts(j, x)
      \/ InMemory(j, x)
  BY DEF Places, InSessions, InArtifacts, InMemory
<1>2. InSessions(j, x) => x.pk[1] = "sessions"
  BY PlaceSets DEF InSessions
<1>3. InArtifacts(j, x) => x.pk[1] = "artifacts"
  BY PlaceSets DEF InArtifacts
<1>4. InMemory(j, x) => x.pk[1] = "memory"
  BY PlaceSets DEF InMemory
<1> QED
  BY <1>1, <1>2, <1>3, <1>4, PlaceSets

\* No two places have the same primary key.
LEMMA KeysUnique ==
    ASSUME WellNamed, NEW i \in Jobs, NEW j \in Jobs, NEW x \in Places(i), NEW y \in Places(j)
    PROVE  SamePlace(x, y)
<1> SUFFICES ASSUME x.pk = y.pk PROVE x = y
  BY DEF SamePlace
<1>0. x.pk[1] = y.pk[1]
  OBVIOUS
<1>1. CASE InSessions(i, x) /\ InSessions(j, y)
  <2>1. \A k, l \in Jobs : \A m, n \in {0, 1} :
           /\ SamePlace(SessionPlace(Job[k]), SessionPlace(Job[l]))
           /\ SamePlace(ManifestPlace(Job[k]), ManifestPlace(Job[l]))
           /\ SamePlace(SegmentPlace(Job[k], m), SegmentPlace(Job[l], n))
           /\ SessionPlace(Job[k]).pk # ManifestPlace(Job[l]).pk
           /\ SessionPlace(Job[k]).pk # SegmentPlace(Job[l], n).pk
           /\ ManifestPlace(Job[k]).pk # SegmentPlace(Job[l], n).pk
    BY SessionsUnique
  <2> QED
    BY <1>1, <2>1 DEF InSessions, SamePlace
<1>2. CASE x = AppPlace(Job[i]) /\ y = AppPlace(Job[j])
  BY <1>2, StatesUnique DEF SamePlace
<1>3. CASE x = UserPlace(Job[i]) /\ y = UserPlace(Job[j])
  BY <1>3, StatesUnique DEF SamePlace
<1>4. CASE InArtifacts(i, x) /\ InArtifacts(j, y)
  <2>0. 0 \in 0..MaxVersion
    BY LayoutAssumption
  <2>1. \A k, l \in Jobs : \A m, n \in 0..MaxVersion :
           /\ SamePlace(HeadPlace(Job[k]), HeadPlace(Job[l]))
           /\ SamePlace(ArtifactPlace(Job[k], m), ArtifactPlace(Job[l], n))
           /\ HeadPlace(Job[k]).pk # ArtifactPlace(Job[l], n).pk
    BY FilesUnique
  <2> QED
    BY <1>4, <2>0, <2>1 DEF InArtifacts, SamePlace
<1>5. CASE InMemory(i, x) /\ InMemory(j, y)
  <2>1. \A k, l \in Jobs :
           /\ SamePlace(MemoryPlace(Job[k]), MemoryPlace(Job[l]))
           /\ SamePlace(PostingPlace(Job[k]), PostingPlace(Job[l]))
           /\ MemoryPlace(Job[k]).pk # PostingPlace(Job[l]).pk
    BY RowsUnique
  <2> QED
    BY <1>5, <2>1 DEF InMemory, SamePlace
<1>6. \/ InSessions(i, x) /\ x.pk[1] = "sessions"
      \/ x = AppPlace(Job[i]) /\ x.pk[1] = "app_state"
      \/ x = UserPlace(Job[i]) /\ x.pk[1] = "user_state"
      \/ InArtifacts(i, x) /\ x.pk[1] = "artifacts"
      \/ InMemory(i, x) /\ x.pk[1] = "memory"
  BY PlacesBySet
<1>7. \/ InSessions(j, y) /\ y.pk[1] = "sessions"
      \/ y = AppPlace(Job[j]) /\ y.pk[1] = "app_state"
      \/ y = UserPlace(Job[j]) /\ y.pk[1] = "user_state"
      \/ InArtifacts(j, y) /\ y.pk[1] = "artifacts"
      \/ InMemory(j, y) /\ y.pk[1] = "memory"
  BY PlacesBySet
<1> QED
  BY <1>0, <1>1, <1>2, <1>3, <1>4, <1>5, <1>6, <1>7

-----------------------------------------------------------------------------
(* The steps, by the request that they serve.                              *)

Due(j, q) == q \in Requests(j) /\ (q \in left[j] \/ q \in late)
Serves ==
    \/ store' = store /\ touched' = touched
    \/ \E j \in Jobs : \E q \in Requests(j) :
          Due(j, q) /\ store' \in {store, After(q)} /\ touched' = touched \cup Names(q)

LEMMA NextServes == ASSUME ControlInv, [Next]_vars PROVE Serves
<1>0. \A j \in Jobs : \A q \in left[j] : Due(j, q) /\ q \in Requests(j) /\ status[j] = "busy"
  BY LeftFacts DEF Due
<1>1. CASE UNCHANGED vars
  BY <1>1 DEF Serves, vars, db
<1>2. ASSUME NEW p \in Processes, NEW s \in Services, Construct(p, s) \/ ConstructFails(p, s)
      PROVE  Serves
  BY <1>2 DEF Construct, ConstructFails, Serves, db
<1>3. ASSUME NEW j \in Jobs, Begin(j) PROVE Serves
  BY <1>3 DEF Begin, Serves, db
<1>4. ASSUME NEW j \in Jobs, Resend(j) \/ Fail(j) PROVE Serves
  <2>1. status[j] = "busy" /\ Loses(j)
    BY <1>4 DEF Resend, Fail
  <2>2. \/ store' = store /\ touched' = touched
        \/ \E q \in left[j] : store' = After(q) /\ touched' = touched \cup Names(q)
    BY <2>1, LosesFacts
  <2> QED
    BY <1>0, <2>2 DEF Serves
<1>5. ASSUME NEW j \in Jobs, NEW q \in left[j], Apply(j, q) \/ Answer(j, q) \/ Raise(j, q)
      PROVE  Serves
  <2>1. store' \in {store, After(q)} /\ touched' = touched \cup Names(q)
    BY <1>5 DEF Apply, Answer, Raise
  <2> QED
    BY <1>0, <2>1 DEF Serves
<1>6. ASSUME NEW j \in Jobs, NEW q \in left[j], Unread(j, q) PROVE Serves
  BY <1>6 DEF Unread, Serves, db
<1>7. ASSUME NEW q \in late, ApplyLate(q) PROVE Serves
  <2>1. PICK j \in Jobs : q \in Requests(j)
    BY DEF ControlInv, ReqInv
  <2>2. Due(j, q)
    BY <2>1 DEF Due
  <2>3. store' \in {store, After(q)} /\ touched' = touched \cup Names(q)
    BY <1>7 DEF ApplyLate
  <2> QED
    BY <2>1, <2>2, <2>3 DEF Serves
<1> QED
  BY <1>1, <1>2, <1>3, <1>4, <1>5, <1>6, <1>7 DEF Next

-----------------------------------------------------------------------------
(* The bins of records.                                                    *)

LEMMA Registry ==
    /\ {"app", "uid", "sid", "state", "ts", "cur", "sman"} \subseteq BinsOf("sessions", "session_record")
    /\ {"events"} \subseteq BinsOf("sessions", "segment_record")
    /\ {"state"} \subseteq BinsOf("app_state", "app_state_row")
    /\ {"state"} \subseteq BinsOf("user_state", "user_state_row")
    /\ {"app", "uid", "sid", "aus", "fname", "ver", "mime", "data", "ctime", "cmeta"} \subseteq
          BinsOf("artifacts", "artifact_record")
    /\ {"app", "uid", "sid", "aus", "eid", "text", "keywords", "author", "ts", "content", "mpl"}
          \subseteq BinsOf("memory", "memory_record")
  BY DEF BinsOf, BinName, BIN_REGISTRY, OfTenant, Row, Bin

\* The bins of place x.
Allowed(x) == BinsOf(x.pk[1], x.kind)

LEMMA AllowedBins ==
    ASSUME NEW j \in Jobs
    PROVE  LET c == Job[j] IN
           /\ {"app", "uid", "sid", "state", "ts", "cur"} \subseteq Allowed(SessionPlace(c))
           /\ {"sman"} \subseteq Allowed(ManifestPlace(c))
           /\ \A n : {"events"} \subseteq Allowed(SegmentPlace(c, n))
           /\ {"state"} \subseteq Allowed(AppPlace(c)) /\ {"state"} \subseteq Allowed(UserPlace(c))
           /\ {"ver"} \subseteq Allowed(HeadPlace(c))
           /\ \A n : {"app", "uid", "sid", "aus", "fname", "ver", "mime", "data", "ctime", "cmeta"}
                 \subseteq Allowed(ArtifactPlace(c, n))
           /\ {"app", "uid", "sid", "aus", "eid", "text", "keywords", "author", "ts", "content"}
                 \subseteq Allowed(MemoryPlace(c))
           /\ {"mpl"} \subseteq Allowed(PostingPlace(c))
<1> DEFINE c == Job[j]
<1>1. \A set, key, kind, what : Allowed(Place(set, key, kind, what)) = BinsOf(set, kind)
  BY DEF Allowed, Place
<1>2. /\ Allowed(SessionPlace(c)) = BinsOf("sessions", "session_record")
      /\ Allowed(ManifestPlace(c)) = BinsOf("sessions", "session_record")
      /\ \A n : Allowed(SegmentPlace(c, n)) = BinsOf("sessions", "segment_record")
      /\ Allowed(AppPlace(c)) = BinsOf("app_state", "app_state_row")
      /\ Allowed(UserPlace(c)) = BinsOf("user_state", "user_state_row")
      /\ Allowed(HeadPlace(c)) = BinsOf("artifacts", "artifact_record")
      /\ \A n : Allowed(ArtifactPlace(c, n)) = BinsOf("artifacts", "artifact_record")
      /\ Allowed(MemoryPlace(c)) = BinsOf("memory", "memory_record")
      /\ Allowed(PostingPlace(c)) = BinsOf("memory", "memory_record")
  BY <1>1 DEF SessionPlace, ManifestPlace, SegmentPlace, AppPlace, UserPlace, HeadPlace,
              ArtifactPlace, MemoryPlace, PostingPlace
<1> QED
  BY <1>2, Registry

Stores(q) == q.do \in {"create", "write", "increment"}

LEMMA Storing ==
    ASSUME NEW j \in Jobs, NEW q \in Requests(j), Stores(q)
    PROVE  Creates(j, q) \/ Updates(j, q) \/ Lists(j, q) \/ Events(j, q) \/ Counts(j, q)
           \/ Versions(j, q) \/ Rows(j, q) \/ Posts(j, q)
  BY Kinds, RequestParts DEF Stores

\* The bins of the requests that store some.
LEMMA RequestBins ==
    ASSUME NEW j \in Jobs, NEW q
    PROVE  LET c == Job[j] IN
           /\ Creates(j, q) => DOMAIN q.bins = {"app", "uid", "sid", "state", "ts", "cur"}
           /\ Updates(j, q) => \/ q.place = SessionPlace(c) /\ DOMAIN q.bins = {"state", "ts"}
                               \/ q.place = AppPlace(c) /\ DOMAIN q.bins = {"state"}
                               \/ q.place = UserPlace(c) /\ DOMAIN q.bins = {"state"}
           /\ Lists(j, q) => DOMAIN q.bins = {"sman"}
           /\ Events(j, q) => DOMAIN q.bins = {"events"}
           /\ Counts(j, q) => DOMAIN q.bins = {"ver"}
           /\ Versions(j, q) => DOMAIN q.bins =
                 {"app", "uid", "sid", "aus", "fname", "ver", "mime", "data", "ctime", "cmeta"}
           /\ Rows(j, q) => DOMAIN q.bins =
                 {"app", "uid", "sid", "aus", "eid", "text", "keywords", "author", "ts", "content"}
           /\ Posts(j, q) => DOMAIN q.bins = {"mpl"}
<1>1. Creates(j, q) => DOMAIN q.bins = {"app", "uid", "sid", "state", "ts", "cur"}
  BY DEF Creates, SessionCreate, Req
<1>2. Updates(j, q) => \/ q.place = SessionPlace(Job[j]) /\ DOMAIN q.bins = {"state", "ts"}
                       \/ q.place = AppPlace(Job[j]) /\ DOMAIN q.bins = {"state"}
                       \/ q.place = UserPlace(Job[j]) /\ DOMAIN q.bins = {"state"}
  BY DEF Updates, AppWrite, UserWrite, SessionWrite, PutItems, Req
<1>3. Lists(j, q) => DOMAIN q.bins = {"sman"}
  BY DEF Lists, ManifestAdd, Req
<1>4. Events(j, q) => DOMAIN q.bins = {"events"}
  BY DEF Events, EventWrite, Req
<1>5. Counts(j, q) => DOMAIN q.bins = {"ver"}
  BY DEF Counts, HeadIncrement, Req
<1>6. Versions(j, q) => DOMAIN q.bins =
                 {"app", "uid", "sid", "aus", "fname", "ver", "mime", "data", "ctime", "cmeta"}
  BY DEF Versions, VersionCreate, Req
<1>7. Rows(j, q) => DOMAIN q.bins =
                 {"app", "uid", "sid", "aus", "eid", "text", "keywords", "author", "ts", "content"}
  BY DEF Rows, RowWrite, Req
<1>8. Posts(j, q) => DOMAIN q.bins = {"mpl"}
  BY DEF Posts, PostingAdd, Req
<1> QED
  BY <1>1, <1>2, <1>3, <1>4, <1>5, <1>6, <1>7, <1>8

\* A request writes only bins that its place may have.
LEMMA BinsAllowed ==
    ASSUME NEW j \in Jobs, NEW q \in Requests(j), Stores(q)
    PROVE  DOMAIN q.bins \subseteq Allowed(q.place)
<1>1. CASE Creates(j, q)
  BY <1>1, RequestBins, RequestParts, AllowedBins
<1>2. CASE Updates(j, q)
  BY <1>2, RequestBins, AllowedBins
<1>3. CASE Lists(j, q)
  BY <1>3, RequestBins, RequestParts, AllowedBins
<1>4. CASE Events(j, q)
  BY <1>4, RequestBins, RequestParts, AllowedBins
<1>5. CASE Counts(j, q)
  BY <1>5, RequestBins, RequestParts, AllowedBins
<1>6. CASE Versions(j, q)
  BY <1>6, RequestBins, RequestParts, AllowedBins
<1>7. CASE Rows(j, q)
  BY <1>7, RequestBins, RequestParts, AllowedBins
<1>8. CASE Posts(j, q)
  BY <1>8, RequestBins, RequestParts, AllowedBins
<1> QED
  BY <1>1, <1>2, <1>3, <1>4, <1>5, <1>6, <1>7, <1>8, Storing

\* The bins that a write, an increment and a removal from a list leave.
LEMMA MergedBins == ASSUME NEW old, NEW new PROVE DOMAIN Merged(old, new) = DOMAIN old \cup DOMAIN new
  BY Zenon DEF Merged

LEMMA UnlistedBins == ASSUME NEW bins, NEW sid PROVE DOMAIN Unlisted(bins, sid) = DOMAIN bins
  BY DEF Unlisted

LEMMA UnlistedOther ==
    ASSUME NEW bins, NEW sid, NEW b \in DOMAIN bins, b # "sman"
    PROVE  Unlisted(bins, sid)[b] = bins[b]
  BY DEF Unlisted

LEMMA NewBins ==
    ASSUME NEW j \in Jobs, NEW q \in Requests(j), NEW pk, NEW bins, Becomes(q, pk, bins),
           pk = q.place.pk
    PROVE  \/ pk \in DOMAIN store /\ DOMAIN bins = DOMAIN store[pk]
           \/ Stores(q) /\ DOMAIN bins \subseteq DOMAIN q.bins
           \/ Stores(q) /\ pk \in DOMAIN store /\ DOMAIN bins \subseteq DOMAIN store[pk] \cup DOMAIN q.bins
<1>1. CASE q.do = "create" /\ bins = q.bins
  BY <1>1 DEF Stores
<1>2. CASE q.do = "write" /\ bins = Merged(Bins(pk), q.bins)
  <2>1. DOMAIN bins = DOMAIN Bins(pk) \cup DOMAIN q.bins
    BY <1>2, MergedBins
  <2>2. CASE pk \in DOMAIN store
    BY <1>2, <2>1, <2>2 DEF Bins, Stores
  <2>3. CASE pk \notin DOMAIN store
    <3>1. Bins(pk) = NoBins /\ DOMAIN NoBins = {}
      BY <2>3 DEF Bins, NoBins
    <3> QED
      BY <1>2, <2>1, <3>1 DEF Stores
  <2> QED
    BY <2>2, <2>3
<1>3. CASE q.do = "increment" /\ bins =
          [ver |-> (IF pk \in DOMAIN store THEN store[pk].ver ELSE 0) + q.bins.ver]
  <2>1. DOMAIN bins = {"ver"}
    BY <1>3
  <2>2. q.bins = [ver |-> 1]
    BY <1>3, RequestFacts, RequestParts
  <2> QED
    BY <1>3, <2>1, <2>2 DEF Stores
<1>4. CASE q.do = "unlist" /\ pk \in DOMAIN store /\ bins = Unlisted(store[pk], q.bins.sman)
  BY <1>4, UnlistedBins
<1> QED
  BY <1>1, <1>2, <1>3, <1>4 DEF Becomes

PlacesInv == \A x \in touched : \E j \in Jobs : x \in Places(j)
BinsInv ==
    \A j \in Jobs : \A x \in Places(j) :
        x.pk \in DOMAIN store => DOMAIN store[x.pk] \subseteq Allowed(x)
ConformInv == PlacesInv /\ BinsInv

LEMMA ConformInit == Init => ConformInv
<1>1. DOMAIN NoBins = {}
  BY DEF NoBins
<1> QED
  BY <1>1 DEF Init, ConformInv, PlacesInv, BinsInv

LEMMA ConformNext ==
    ASSUME WellNamed, ControlInv, ConformInv, [Next]_vars
    PROVE  ConformInv'
<1>1. CASE store' = store /\ touched' = touched
  BY <1>1 DEF ConformInv, PlacesInv, BinsInv
<1>2. ASSUME NEW i \in Jobs, NEW q \in Requests(i), store' \in {store, After(q)},
             touched' = touched \cup Names(q)
      PROVE  ConformInv'
  <2>1. Asked(q) /\ (q.do # "query" => q.place \in Places(i))
    BY RequestFacts
  <2>2. PlacesInv'
    <3>1. \A x \in Names(q) : x \in Places(i)
      BY <2>1 DEF Names
    <3> QED
      BY <1>2, <3>1 DEF ConformInv, PlacesInv
  <2>3. ASSUME NEW j \in Jobs, NEW x \in Places(j), x.pk \in DOMAIN After(q)
        PROVE  DOMAIN After(q)[x.pk] \subseteq Allowed(x)
    <3>1. Effect(q, q.place.pk, After(q))
      BY <2>1, AfterFacts
    <3>2. x.pk \in DOMAIN store => DOMAIN store[x.pk] \subseteq Allowed(x)
      BY DEF ConformInv, BinsInv
    <3>3. CASE ~IsWrite(q)
      BY <2>3, <3>1, <3>2, <3>3 DEF Effect
    <3>4. CASE x.pk # q.place.pk
      BY <2>3, <3>1, <3>2, <3>4 DEF Effect
    <3>5. CASE IsWrite(q) /\ x.pk = q.place.pk
      <4>1. q.place \in Places(i)
        BY <2>1, <3>5 DEF IsWrite
      <4>2. x = q.place
        BY <3>5, <4>1, KeysUnique DEF SamePlace
      <4>3. Becomes(q, x.pk, After(q)[x.pk])
        BY <2>3, <3>1, <3>5 DEF Effect
      <4> DEFINE bins == After(q)[x.pk]
      <4>4. \/ x.pk \in DOMAIN store /\ DOMAIN bins = DOMAIN store[x.pk]
            \/ Stores(q) /\ DOMAIN bins \subseteq DOMAIN q.bins
            \/ Stores(q) /\ x.pk \in DOMAIN store
               /\ DOMAIN bins \subseteq DOMAIN store[x.pk] \cup DOMAIN q.bins
        BY <3>5, <4>3, NewBins
      <4>5. Stores(q) => DOMAIN q.bins \subseteq Allowed(x)
        BY <4>2, BinsAllowed
      <4> QED
        BY <3>2, <4>4, <4>5
    <3> QED
      BY <3>3, <3>4, <3>5
  <2>4. BinsInv'
    BY <1>2, <2>3 DEF ConformInv, BinsInv
  <2> QED
    BY <2>2, <2>4 DEF ConformInv
<1> QED
  BY <1>1, <1>2, NextServes DEF Serves

LEMMA ConformAlways == ASSUME WellNamed PROVE Spec => []ConformInv
<1>1. ConformInv /\ ControlInv /\ [Next]_vars => ConformInv'
  BY ConformNext
<1> QED
  BY <1>1, ConformInit, ControlAlways, PTL DEF Spec

LEMMA ConformGoal == ASSUME WellNamed, ConformInv PROVE RecordsConform
<1>1. ASSUME NEW x \in touched, NEW y \in touched, x.pk = y.pk PROVE x = y
  <2>1. PICK i \in Jobs : x \in Places(i)
    BY DEF ConformInv, PlacesInv
  <2>2. PICK j \in Jobs : y \in Places(j)
    BY DEF ConformInv, PlacesInv
  <2> QED
    BY <1>1, <2>1, <2>2, KeysUnique DEF SamePlace
<1>2. ASSUME NEW x \in touched, x.pk \in DOMAIN store
      PROVE  DOMAIN store[x.pk] \subseteq BinsOf(x.pk[1], x.kind)
  <2>1. PICK j \in Jobs : x \in Places(j)
    BY DEF ConformInv, PlacesInv
  <2> QED
    BY <1>2, <2>1 DEF ConformInv, BinsInv, Allowed
<1> QED
  BY <1>1, <1>2 DEF RecordsConform

\* Whatever the calls: no two things share a record (keys.py), and every record
\* has only the bins that BIN_REGISTRY gives to its set and kind, as long as
\* identifiers have no separator and sessions no reserved name.
THEOREM RecordsApart == ASSUME WellNamed PROVE Spec => []RecordsConform
<1>1. ConformInv => RecordsConform
  BY ConformGoal
<1> QED
  BY <1>1, ConformAlways, PTL

-----------------------------------------------------------------------------
(* Lists: the manifest of a user and the postings of a word.               *)

Items == {[value |-> Job[j].sid, by |-> j] : j \in Jobs}
         \cup {[value |-> <<Job[j].event, Job[j].sid>>, by |-> j] : j \in Jobs}
ListBins == {"sman", "mpl"}

GoodList(l) == l \in Seq(Items) /\ \A m, n \in DOMAIN l : l[m].by = l[n].by => m = n
Holds(l, j) == \E n \in DOMAIN l : l[n].by = j

LEMMA SingleList ==
    ASSUME NEW e \in Items
    PROVE  GoodList(<<e>>) /\ \A i : Holds(<<e>>, i) => i = e.by
<1>1. <<e>> \in Seq(Items) /\ DOMAIN <<e>> = {1} /\ <<e>>[1] = e
  OBVIOUS
<1> QED
  BY <1>1 DEF GoodList, Holds

LEMMA LongerList ==
    ASSUME NEW l, GoodList(l), NEW e \in Items, ~Holds(l, e.by)
    PROVE  GoodList(l \o <<e>>) /\ \A i : Holds(l \o <<e>>, i) => Holds(l, i) \/ i = e.by
<1> DEFINE k == l \o <<e>>
<1>1. l \in Seq(Items) /\ Len(l) \in Nat /\ DOMAIN l = 1..Len(l)
  BY DEF GoodList
<1>2. k = Append(l, e)
  BY <1>1
<1>3. k \in Seq(Items) /\ DOMAIN k = 1..(Len(l) + 1)
  BY <1>1, <1>2
<1>4. k[Len(l) + 1] = e /\ \A n \in 1..Len(l) : k[n] = l[n]
  BY <1>1, <1>2
<1> HIDE DEF k
<1>5. \A n \in DOMAIN k : (n \in DOMAIN l /\ k[n] = l[n]) \/ (n = Len(l) + 1 /\ k[n] = e)
  BY <1>1, <1>3, <1>4
<1>6. \A n \in DOMAIN l : l[n].by # e.by
  BY DEF Holds
<1>7. GoodList(k)
  BY <1>3, <1>5, <1>6 DEF GoodList
<1>8. \A i : Holds(k, i) => Holds(l, i) \/ i = e.by
  BY <1>5 DEF Holds
<1> QED
  BY <1>7, <1>8 DEF k

\* The places of a list that are kept are counted without gaps.
LEMMA KeptPlaces ==
    ASSUME NEW n \in Nat, NEW kept \in SUBSET (1..n)
    PROVE  /\ Cardinality(kept) \in Nat
           /\ \A j \in 1..Cardinality(kept) :
                 \E i \in kept : Cardinality({k \in kept : k <= i}) = j
<1> DEFINE Upto(i) == {k \in kept : k <= i}
           N == Cardinality(kept)
           rank == [i \in kept |-> Cardinality(Upto(i))]
<1>1. IsFiniteSet(1..n)
  BY FS_Interval
<1>2. IsFiniteSet(kept) /\ N \in Nat
  BY <1>1, FS_Subset, FS_CardinalityType
<1>3. ASSUME NEW i \in kept
      PROVE  IsFiniteSet(Upto(i)) /\ Cardinality(Upto(i)) \in 1..N
  <2>1. Upto(i) \in SUBSET kept
    OBVIOUS
  <2>2. IsFiniteSet(Upto(i)) /\ Cardinality(Upto(i)) <= N
    BY <1>2, <2>1, FS_Subset
  <2>3. Cardinality(Upto(i)) \in Nat
    BY <2>2, FS_CardinalityType
  <2>4. i \in Upto(i)
    OBVIOUS
  <2>5. Cardinality(Upto(i)) # 0
    BY <2>2, <2>4, FS_EmptySet
  <2> QED
    BY <2>2, <2>3, <2>5, <1>2
<1>4. ASSUME NEW i \in kept, NEW j \in kept, i < j
      PROVE  Cardinality(Upto(i)) # Cardinality(Upto(j))
  <2>0. \A k \in kept : k <= i => k <= j
    <3>1. \A k \in kept : k \in Nat
      OBVIOUS
    <3> QED
      BY <1>4, <3>1
  <2>1. Upto(i) \in SUBSET Upto(j)
    BY <2>0
  <2>2. j \in Upto(j) /\ j \notin Upto(i)
    BY <1>4
  <2> QED
    BY <1>3, <2>1, <2>2, FS_Subset
<1>5. rank \in [kept -> 1..N]
  BY <1>3
<1>6. ASSUME NEW i \in kept, NEW j \in kept, rank[i] = rank[j]
      PROVE  i = j
  <2>1. i < j \/ j < i \/ i = j
    OBVIOUS
  <2> QED
    BY <1>4, <1>6, <2>1
<1>7. rank \in Injection(kept, 1..N)
  BY <1>5, <1>6 DEF Injection, IsInjective
<1>8. rank \in Surjection(kept, 1..N)
  BY <1>2, <1>7, FS_Interval, FS_Injection
<1> QED
  BY <1>2, <1>8 DEF Surjection

\* A removal from the manifest keeps the order and the entries of the others.
LEMMA ShorterList ==
    ASSUME NEW bins, NEW sid, "sman" \in DOMAIN bins, GoodList(bins["sman"])
    PROVE  LET l == Unlisted(bins, sid)["sman"] IN
           GoodList(l) /\ \A i : Holds(l, i) => Holds(bins["sman"], i)
<1> DEFINE list == bins["sman"]
           kept == {i \in DOMAIN list : list[i].value # sid}
           Rank(i) == Cardinality({k \in kept : k <= i})
           Nth(n) == CHOOSE i \in kept : Rank(i) = n
           N == Cardinality(kept)
           l == [n \in 1..N |-> list[Nth(n)]]
<1>1. Unlisted(bins, sid) = [bins EXCEPT !["sman"] = l]
  BY DEF Unlisted
<1>2. Unlisted(bins, sid)["sman"] = l
  BY <1>1
<1>3. list \in Seq(Items) /\ Len(list) \in Nat /\ DOMAIN list = 1..Len(list)
  BY DEF GoodList
<1>4. N \in Nat /\ \A n \in 1..N : \E i \in kept : Rank(i) = n
  BY <1>3, KeptPlaces
<1>5. \A n \in 1..N : Nth(n) \in kept /\ Rank(Nth(n)) = n
  BY <1>4
<1>6. \A n \in 1..N : Nth(n) \in DOMAIN list
  BY <1>5
<1> HIDE DEF Rank, Nth, N, kept
<1>7. l \in Seq(Items) /\ DOMAIN l = 1..N /\ \A n \in 1..N : l[n] = list[Nth(n)]
  BY <1>3, <1>4, <1>6
<1>8. \A m, n \in 1..N : Nth(m) = Nth(n) => m = n
  BY <1>5
<1> HIDE DEF l
<1>9. GoodList(l)
  BY <1>6, <1>7, <1>8 DEF GoodList
<1>10. \A i : Holds(l, i) => Holds(list, i)
  BY <1>6, <1>7 DEF Holds
<1> QED
  BY <1>2, <1>9, <1>10

\* A request that appends to a list, and its entry.
Appends(j, q) == Lists(j, q) \/ Posts(j, q)
Entry(j, q, b, e) ==
    /\ b \in ListBins /\ DOMAIN q.bins = {b} /\ q.bins[b] = <<e>>
    /\ e \in Items /\ e.by = j

LEMMA AppendsFacts ==
    ASSUME NEW j \in Jobs, NEW q, Appends(j, q)
    PROVE  /\ q.do = "write" /\ Delicate(q) /\ \E b, e : Entry(j, q, b, e)
           /\ Job[j].op \in {"create_session", "add_events_to_memory"}
<1>1. CASE Lists(j, q)
  <2> DEFINE e == [value |-> Job[j].sid, by |-> j]
  <2>1. q.do = "write" /\ DOMAIN q.bins = {"sman"} /\ q.bins["sman"] = <<e>>
    BY <1>1 DEF Lists, ManifestAdd, Req
  <2>2. e \in Items /\ e.by = j
    BY DEF Items
  <2> HIDE DEF e
  <2>3. Entry(j, q, "sman", e)
    BY <2>1, <2>2 DEF Entry, ListBins
  <2> QED
    BY <1>1, <2>1, <2>3 DEF Lists, Delicate
<1>2. CASE Posts(j, q)
  <2> DEFINE e == [value |-> <<Job[j].event, Job[j].sid>>, by |-> j]
  <2>1. q.do = "write" /\ DOMAIN q.bins = {"mpl"} /\ q.bins["mpl"] = <<e>>
    BY <1>2 DEF Posts, PostingAdd, Req
  <2>2. e \in Items /\ e.by = j
    BY DEF Items
  <2> HIDE DEF e
  <2>3. Entry(j, q, "mpl", e)
    BY <2>1, <2>2 DEF Entry, ListBins
  <2> QED
    BY <1>2, <2>1, <2>3 DEF Posts, Delicate
<1> QED
  BY <1>1, <1>2 DEF Appends

\* Nothing else touches a list.
LEMMA OtherBins ==
    ASSUME NEW j \in Jobs, NEW q \in Requests(j), Stores(q), ~Appends(j, q)
    PROVE  ListBins \cap DOMAIN q.bins = {}
<1>1. Creates(j, q) \/ Updates(j, q) \/ Events(j, q) \/ Counts(j, q) \/ Versions(j, q) \/ Rows(j, q)
  BY Storing DEF Appends
<1>2. \/ DOMAIN q.bins = {"app", "uid", "sid", "state", "ts", "cur"}
      \/ DOMAIN q.bins = {"state", "ts"} \/ DOMAIN q.bins = {"state"}
      \/ DOMAIN q.bins = {"events"} \/ DOMAIN q.bins = {"ver"}
      \/ DOMAIN q.bins =
            {"app", "uid", "sid", "aus", "fname", "ver", "mime", "data", "ctime", "cmeta"}
      \/ DOMAIN q.bins =
            {"app", "uid", "sid", "aus", "eid", "text", "keywords", "author", "ts", "content"}
  BY <1>1, RequestBins
<1> QED
  BY <1>2 DEF ListBins

\* Whose request it is.
LEMMA AppendsOwner ==
    ASSUME NEW i \in Jobs, NEW j \in Jobs, NEW q \in Requests(j), Appends(i, q)
    PROVE  i = j /\ Appends(j, q)
<1>1. PICK b, e : Entry(i, q, b, e)
  BY AppendsFacts
<1>2. Stores(q)
  BY AppendsFacts DEF Stores
<1>3. Appends(j, q)
  BY <1>1, <1>2, OtherBins DEF Entry
<1>4. PICK c, f : Entry(j, q, c, f)
  BY <1>3, AppendsFacts
<1>5. b = c
  BY <1>1, <1>4 DEF Entry
<1>6. <<e>> = <<f>>
  BY <1>1, <1>4, <1>5 DEF Entry
<1>7. e = f
  BY <1>6
<1> QED
  BY <1>1, <1>3, <1>4, <1>7 DEF Entry

LEMMA AppendsOne ==
    ASSUME NEW j \in Jobs, NEW q, NEW r, Appends(j, q), Appends(j, r)
    PROVE  q = r
  BY DEF Appends, Lists, Posts

LEMMA MergedList ==
    ASSUME NEW old, NEW new, NEW b \in ListBins, b \in DOMAIN old, b \in DOMAIN new
    PROVE  Merged(old, new)[b] = old[b] \o new[b]
<1>1. b \in {"sman", "mpl"} /\ b # "state" /\ b # "events"
  BY DEF ListBins
<1> QED
  BY <1>1, Zenon DEF Merged

LEMMA MergedOld ==
    ASSUME NEW old, NEW new, NEW b, b \in DOMAIN old, b \notin DOMAIN new
    PROVE  Merged(old, new)[b] = old[b]
  BY Zenon DEF Merged

LEMMA MergedNew ==
    ASSUME NEW old, NEW new, NEW b, b \in DOMAIN new, b \notin DOMAIN old
    PROVE  Merged(old, new)[b] = new[b]
  BY Zenon DEF Merged

\* The list in bin b of the record at pk, if there is one.
HasList(pk, b) == pk \in DOMAIN store /\ b \in DOMAIN store[pk]
\* What can become of it.
ListStep(j, q, pk, b, l) ==
    \/ HasList(pk, b) /\ l = store[pk][b]
    \/ Appends(j, q) /\ \E e \in Items : /\ e.by = j
                                         /\ l = <<e>> \/ (HasList(pk, b) /\ l = store[pk][b] \o <<e>>)
    \/ b = "sman" /\ HasList(pk, b) /\ \E sid : l = Unlisted(store[pk], sid)["sman"]

LEMMA NewList ==
    ASSUME NEW j \in Jobs, NEW q \in Requests(j), NEW pk, NEW bins, Becomes(q, pk, bins),
           NEW b \in ListBins, b \in DOMAIN bins
    PROVE  ListStep(j, q, pk, b, bins[b])
<1>1. CASE pk \in DOMAIN store /\ bins = store[pk]
  BY <1>1 DEF ListStep, HasList
<1>2. CASE q.do = "create" /\ bins = q.bins
  <2>1. ~Appends(j, q) /\ Stores(q)
    BY <1>2, AppendsFacts DEF Stores
  <2> QED
    BY <1>2, <2>1, OtherBins
<1>3. CASE q.do = "write" /\ bins = Merged(Bins(pk), q.bins)
  <2>1. DOMAIN bins = DOMAIN Bins(pk) \cup DOMAIN q.bins
    BY <1>3, MergedBins
  <2>2. b \in DOMAIN Bins(pk) => HasList(pk, b) /\ Bins(pk) = store[pk]
    <3>1. DOMAIN NoBins = {}
      BY DEF NoBins
    <3> QED
      BY <3>1 DEF Bins, HasList
  <2>3. Stores(q)
    BY <1>3 DEF Stores
  <2>4. CASE b \notin DOMAIN q.bins
    <3>1. bins[b] = Bins(pk)[b]
      BY <1>3, <2>1, <2>4, MergedOld
    <3> QED
      BY <2>1, <2>2, <2>4, <3>1 DEF ListStep
  <2>5. CASE b \in DOMAIN q.bins
    <3>1. Appends(j, q)
      BY <2>3, <2>5, OtherBins
    <3>2. PICK c, e : Entry(j, q, c, e)
      BY <3>1, AppendsFacts
    <3>3. q.bins[b] = <<e>> /\ e \in Items /\ e.by = j
      BY <2>5, <3>2 DEF Entry
    <3>4. CASE b \in DOMAIN Bins(pk)
      <4>1. Merged(Bins(pk), q.bins)[b] = Bins(pk)[b] \o q.bins[b]
        BY <2>5, <3>4, MergedList, Zenon
      <4>2. bins[b] = store[pk][b] \o <<e>> /\ HasList(pk, b)
        BY <1>3, <2>2, <3>3, <3>4, <4>1
      <4> QED
        BY <3>1, <3>3, <4>2 DEF ListStep
    <3>5. CASE b \notin DOMAIN Bins(pk)
      <4>1. Merged(Bins(pk), q.bins)[b] = q.bins[b]
        BY <2>5, <3>5, MergedNew
      <4>2. bins[b] = <<e>>
        BY <1>3, <3>3, <4>1
      <4> QED
        BY <3>1, <3>3, <4>2 DEF ListStep
    <3> QED
      BY <3>4, <3>5
  <2> QED
    BY <2>4, <2>5
<1>4. CASE q.do = "increment" /\ bins =
          [ver |-> (IF pk \in DOMAIN store THEN store[pk].ver ELSE 0) + q.bins.ver]
  <2>1. DOMAIN bins = {"ver"}
    BY <1>4
  <2> QED
    BY <2>1 DEF ListBins
<1>5. CASE q.do = "unlist" /\ pk \in DOMAIN store /\ bins = Unlisted(store[pk], q.bins.sman)
  <2>1. b \in DOMAIN store[pk]
    BY <1>5, UnlistedBins
  <2>2. CASE b = "sman"
    BY <1>5, <2>1, <2>2 DEF ListStep, HasList
  <2>3. CASE b # "sman"
    <3>1. bins[b] = store[pk][b]
      BY <1>5, <2>1, <2>3, UnlistedOther
    <3> QED
      BY <1>5, <2>1, <3>1 DEF ListStep, HasList
  <2> QED
    BY <2>2, <2>3
<1> QED
  BY <1>1, <1>2, <1>3, <1>4, <1>5 DEF Becomes

ListsInv == \A pk \in DOMAIN store : \A b \in ListBins \cap DOMAIN store[pk] : GoodList(store[pk][b])

\* Where the entry of call j is: to be sent, under way although the call has
\* failed, or in a list.
Present(j) == \E pk \in DOMAIN store : \E b \in ListBins \cap DOMAIN store[pk] : Holds(store[pk][b], j)
Waiting(j) == \E q \in late : Appends(j, q)
Stated(j, n) == \E q \in Plan[j][0][n].reqs : Appends(j, q)
Ahead(j) ==
    \/ status[j] \in {"absent", "start"}
    \/ status[j] = "busy" /\ \E n \in at[j]..Len(Plan[j][0]) : Stated(j, n)

OneOfThree(j) ==
    /\ ~(Present(j) /\ Waiting(j)) /\ ~(Present(j) /\ Ahead(j)) /\ ~(Waiting(j) /\ Ahead(j))
OnceInv == ListsInv /\ \A j \in Jobs : OneOfThree(j)

\* What request q of j makes of the lists.
LEMMA ListsAfter ==
    ASSUME ListsInv, NEW j \in Jobs, NEW q \in Requests(j), store' = After(q),
           Appends(j, q) => ~Present(j)
    PROVE  /\ ListsInv'
           /\ \A i \in Jobs : Present(i)' => Present(i) \/ (i = j /\ Appends(j, q))
<1>1. Effect(q, q.place.pk, After(q))
  BY RequestFacts, AfterFacts
<1>2. ASSUME NEW pk \in DOMAIN After(q), NEW b \in ListBins, b \in DOMAIN After(q)[pk]
      PROVE  ListStep(j, q, pk, b, After(q)[pk][b])
  <2>1. CASE pk # q.place.pk
    BY <1>1, <1>2, <2>1 DEF Effect, ListStep, HasList
  <2>2. CASE pk = q.place.pk
    <3>1. Becomes(q, pk, After(q)[pk])
      BY <1>1, <1>2, <2>2 DEF Effect
    <3> QED
      BY <1>2, <3>1, NewList
  <2> QED
    BY <2>1, <2>2
<1>3. ASSUME NEW pk, NEW b \in ListBins, NEW l, ListStep(j, q, pk, b, l)
      PROVE  /\ GoodList(l)
             /\ \A i \in Jobs : Holds(l, i) =>
                   (HasList(pk, b) /\ Holds(store[pk][b], i)) \/ (i = j /\ Appends(j, q))
  <2>0. HasList(pk, b) => GoodList(store[pk][b])
    BY DEF HasList, ListsInv
  <2>1. CASE HasList(pk, b) /\ l = store[pk][b]
    BY <2>0, <2>1
  <2>2. ASSUME Appends(j, q), NEW e \in Items, e.by = j, l = <<e>>
        PROVE  GoodList(l) /\ \A i \in Jobs : Holds(l, i) => i = j
    BY <2>2, SingleList
  <2>3. ASSUME Appends(j, q), NEW e \in Items, e.by = j, HasList(pk, b), l = store[pk][b] \o <<e>>
        PROVE  GoodList(l) /\ \A i \in Jobs : Holds(l, i) => Holds(store[pk][b], i) \/ i = j
    <3>1. ~Holds(store[pk][b], e.by)
      BY <2>3 DEF Present, HasList
    <3> QED
      BY <2>0, <2>3, <3>1, LongerList, Zenon
  <2>4. ASSUME b = "sman", HasList(pk, b), NEW sid, l = Unlisted(store[pk], sid)["sman"]
        PROVE  GoodList(l) /\ \A i \in Jobs : Holds(l, i) => Holds(store[pk][b], i)
    BY <2>0, <2>4, ShorterList DEF HasList
  <2> QED
    BY <1>3, <2>1, <2>2, <2>3, <2>4 DEF ListStep
<1>4. ListsInv'
  BY <1>2, <1>3 DEF ListsInv
<1>5. ASSUME NEW i \in Jobs, Present(i)'
      PROVE  Present(i) \/ (i = j /\ Appends(j, q))
  <2>1. PICK pk \in DOMAIN After(q) : \E b \in ListBins \cap DOMAIN After(q)[pk] : Holds(After(q)[pk][b], i)
    BY <1>5 DEF Present
  <2>2. PICK b \in ListBins \cap DOMAIN After(q)[pk] : Holds(After(q)[pk][b], i)
    BY <2>1
  <2>3. (HasList(pk, b) /\ Holds(store[pk][b], i)) \/ (i = j /\ Appends(j, q))
    BY <1>2, <1>3, <2>2
  <2> QED
    BY <2>3 DEF Present, HasList
<1> QED
  BY <1>4, <1>5

\* The client does not send list appends again.
OperateOnce == policies["operate"].max_retries = 0

\* A call's entry goes on, or stays where it is.
Shed(i) == (Ahead(i)' => Ahead(i)) /\ (Waiting(i)' => Waiting(i) \/ (Ahead(i) /\ ~Ahead(i)'))

LEMMA OnceKeep ==
    ASSUME OnceInv, \A i \in Jobs : Shed(i),
           \/ store' = store
           \/ \E j \in Jobs : \E q \in Requests(j) : store' = After(q) /\ ~Appends(j, q)
    PROVE  OnceInv'
<1>1. ListsInv' /\ \A i \in Jobs : Present(i)' => Present(i)
  <2>1. CASE store' = store
    BY <2>1 DEF OnceInv, ListsInv, Present
  <2>2. ASSUME NEW j \in Jobs, NEW q \in Requests(j), store' = After(q), ~Appends(j, q)
        PROVE  ListsInv' /\ \A i \in Jobs : Present(i)' => Present(i)
    BY <2>2, ListsAfter DEF OnceInv
  <2> QED
    BY <2>1, <2>2
<1>2. ASSUME NEW i \in Jobs PROVE OneOfThree(i)'
  <2>1. OneOfThree(i) /\ Shed(i) /\ (Present(i)' => Present(i))
    BY <1>1 DEF OnceInv
  <2> QED
    BY <2>1 DEF OneOfThree, Shed
<1> QED
  BY <1>1, <1>2 DEF OnceInv

LEMMA OnceAppend ==
    ASSUME OnceInv, NEW j \in Jobs, NEW q \in Requests(j), store' = After(q), Appends(j, q),
           Ahead(j) \/ Waiting(j), ~Ahead(j)', ~Waiting(j)', \A i \in Jobs \ {j} : Shed(i)
    PROVE  OnceInv'
<1>1. ~Present(j)
  BY DEF OnceInv, OneOfThree
<1>2. ListsInv' /\ \A i \in Jobs : Present(i)' => Present(i) \/ i = j
  BY <1>1, ListsAfter DEF OnceInv
<1>3. ASSUME NEW i \in Jobs \ {j} PROVE OneOfThree(i)'
  <2>1. OneOfThree(i) /\ Shed(i) /\ (Present(i)' => Present(i))
    BY <1>2 DEF OnceInv
  <2> QED
    BY <2>1 DEF OneOfThree, Shed
<1>4. OneOfThree(j)'
  BY DEF OneOfThree
<1> QED
  BY <1>2, <1>3, <1>4 DEF OnceInv

LEMMA AheadStays ==
    ASSUME NEW i \in Jobs, status'[i] = status[i], at'[i] = at[i]
    PROVE  Ahead(i)' <=> Ahead(i)
  BY DEF Ahead, Stated

\* A stage with an append is alone in that.
LEMMA NowStated ==
    ASSUME ControlInv, NEW j \in Jobs, status[j] = "busy", NEW q \in Now(j).reqs, Appends(j, q)
    PROVE  /\ Stated(j, at[j]) /\ Ahead(j) /\ Now(j).reqs = {q}
           /\ Now(j).cls = "operate" /\ Now(j).again = "never"
<1>1. Now(j) \in StagesOf(j) /\ ver[j] \in 0..MaxVersion /\ at[j] \in 1..Len(Plan[j][ver[j]])
  BY NowFacts
<1>2. Job[j].op # "save_artifact" /\ Delicate(q)
  BY AppendsFacts
<1>3. Plan[j][ver[j]] = Plan[j][0]
  BY <1>1, <1>2, PlanFacts
<1>4. Stated(j, at[j])
  BY <1>3 DEF Stated, Now
<1>5. at[j] \in at[j]..Len(Plan[j][0])
  BY <1>1, <1>3
<1>6. Ahead(j)
  BY <1>4, <1>5 DEF Ahead
<1>7. Alone(Now(j))
  BY <1>1 DEF StagesOf
<1> QED
  BY <1>2, <1>4, <1>6, <1>7 DEF Alone

\* Call j ends, or enters its next stage.
Moves(j) ==
    status'[j] \in Ended \/ (status'[j] = "busy" /\ at'[j] = at[j] + 1 /\ at'[j] \in 1..Len(Plan[j][0]))

LEMMA AheadMoves ==
    ASSUME ControlInv, NEW j \in Jobs, status[j] = "busy", Moves(j)
    PROVE  (Ahead(j)' => Ahead(j)) /\ (Stated(j, at[j]) => ~Ahead(j)')
<1>0. Len(Plan[j][0]) \in 1..5 /\ at[j] \in 1..Len(Plan[j][0])
  BY LayoutAssumption, PlanFacts DEF PlanShape, ControlInv, ReqInv
<1>1. CASE status'[j] \in Ended
  BY <1>1 DEF Ended, Ahead
<1>2. CASE status'[j] = "busy" /\ at'[j] = at[j] + 1 /\ at'[j] \in 1..Len(Plan[j][0])
  <2>1. \A n \in at'[j]..Len(Plan[j][0]) :
           n \in at[j]..Len(Plan[j][0]) /\ n \in 1..Len(Plan[j][0]) /\ n # at[j]
    BY <1>0, <1>2
  <2>2. Ahead(j)' <=> \E n \in at'[j]..Len(Plan[j][0]) : Stated(j, n)
    BY <1>2 DEF Ahead, Stated
  <2>3. Ahead(j)' => Ahead(j)
    BY <2>1, <2>2 DEF Ahead
  <2>4. ASSUME Stated(j, at[j]), NEW n \in at'[j]..Len(Plan[j][0]), Stated(j, n)
        PROVE  FALSE
    <3>1. PICK q \in Plan[j][0][at[j]].reqs : Appends(j, q)
      BY <2>4 DEF Stated
    <3>2. PICK r \in Plan[j][0][n].reqs : Appends(j, r)
      BY <2>4 DEF Stated
    <3>3. Delicate(q) /\ Delicate(r)
      BY <3>1, <3>2, AppendsFacts
    <3>4. PlanShape(j, Plan[j][0])
      BY LayoutAssumption, PlanFacts
    <3> QED
      BY <1>0, <2>1, <3>3, <3>4 DEF PlanShape
  <2> QED
    BY <2>2, <2>3, <2>4
<1> QED
  BY <1>1, <1>2 DEF Moves

LEMMA ShedStays ==
    ASSUME NEW i \in Jobs, status'[i] = status[i], at'[i] = at[i], Waiting(i)' => Waiting(i)
    PROVE  Shed(i)
  BY AheadStays DEF Shed

\* Steps that leave late alone, and move on one call at most.
LEMMA ShedOthers ==
    ASSUME late' = late, NEW j \in Jobs,
           \A i \in Jobs \ {j} : status'[i] = status[i] /\ at'[i] = at[i], Ahead(j)' => Ahead(j)
    PROVE  \A i \in Jobs : Shed(i)
<1>1. \A i \in Jobs : Waiting(i)' <=> Waiting(i)
  BY DEF Waiting
<1>2. \A i \in Jobs \ {j} : Shed(i)
  BY <1>1, ShedStays
<1>3. Shed(j)
  BY <1>1 DEF Shed
<1> QED
  BY <1>2, <1>3

LEMMA OnceProceed ==
    ASSUME ControlInv, OnceInv, NEW j \in Jobs, NEW q \in left[j], Answer(j, q)
    PROVE  OnceInv'
<1>1. status[j] = "busy" /\ q \in Now(j).reqs /\ q \in Requests(j)
  BY LeftFacts
<1>2. /\ store' = After(q) /\ Receive(j, q) /\ Proceed(j) /\ InBound(q) /\ late' = late
  BY DEF Answer, hist
<1>3. ver' \in [Jobs -> 0..MaxVersion] /\ \A i \in Jobs \ {j} : ver'[i] = ver[i]
  BY <1>2, ReceiveFacts
<1>4. /\ \A i \in Jobs \ {j} : status'[i] = status[i] /\ at'[i] = at[i]
      /\ \/ status'[j] = "done"
         \/ status'[j] = "busy" /\ at'[j] = at[j] + 1 /\ at'[j] \in 1..Len(Plan[j][0])
  BY <1>1, <1>2, <1>3, ProceedFacts
<1>5. Moves(j)
  BY <1>4 DEF Moves, Ended
<1>6. (Ahead(j)' => Ahead(j)) /\ (Stated(j, at[j]) => ~Ahead(j)')
  BY <1>1, <1>5, AheadMoves
<1>7. \A i \in Jobs : Shed(i)
  BY <1>2, <1>4, <1>6, ShedOthers
<1>8. CASE ~Appends(j, q)
  BY <1>1, <1>2, <1>7, <1>8, OnceKeep
<1>9. CASE Appends(j, q)
  <2>1. Stated(j, at[j]) /\ Ahead(j)
    BY <1>1, <1>9, NowStated
  <2>2. ~Ahead(j)'
    BY <1>6, <2>1
  <2>3. ~Waiting(j)'
    <3>1. ~Waiting(j)
      BY <2>1 DEF OnceInv, OneOfThree
    <3> QED
      BY <1>2, <3>1 DEF Waiting
  <2> QED
    BY <1>1, <1>2, <1>7, <1>9, <2>1, <2>2, <2>3, OnceAppend
<1> QED
  BY <1>8, <1>9

LEMMA OnceApply ==
    ASSUME ControlInv, OnceInv, NEW j \in Jobs, NEW q \in left[j], Apply(j, q)
    PROVE  OnceInv'
<1>1. status[j] = "busy" /\ q \in Now(j).reqs /\ q \in Requests(j)
  BY LeftFacts
<1>2. store' = After(q) /\ late' = late /\ status' = status /\ at' = at /\ left[j] # {q}
  BY DEF Apply, hist
<1>3. ~Appends(j, q)
  <2>1. left[j] \subseteq Now(j).reqs
    BY <1>1, NowFacts
  <2> QED
    BY <1>1, <1>2, <2>1, NowStated
<1>4. \A i \in Jobs : Shed(i)
  BY <1>2, ShedOthers, AheadStays
<1> QED
  BY <1>1, <1>2, <1>3, <1>4, OnceKeep

LEMMA OnceRaise ==
    ASSUME ControlInv, OnceInv, NEW j \in Jobs, NEW q \in left[j], Raise(j, q)
    PROVE  OnceInv'
<1>1. status[j] = "busy"
  BY LeftFacts
<1>2. store' = store /\ late' = late /\ at' = at
  BY DEF Raise, hist
<1>3. status \in [Jobs -> {"absent", "start", "busy"} \cup Ended]
  BY DEF ControlInv, TypeOK
<1>4. status'[j] \in Ended /\ \A i \in Jobs \ {j} : status'[i] = status[i]
  BY <1>3 DEF Raise, End, Ended
<1>5. Ahead(j)' => Ahead(j)
  BY <1>1, <1>4, AheadMoves DEF Moves
<1>6. \A i \in Jobs : Shed(i)
  BY <1>2, <1>4, <1>5, ShedOthers
<1> QED
  BY <1>2, <1>6, OnceKeep

LEMMA OnceUnread ==
    ASSUME ControlInv, OnceInv, NEW j \in Jobs, NEW q \in left[j], Unread(j, q)
    PROVE  OnceInv'
<1>1. status[j] = "busy" /\ ver \in [Jobs -> 0..MaxVersion]
  BY LeftFacts DEF ControlInv, TypeOK
<1>2. store' = store /\ late' = late /\ ver' = ver
  BY DEF Unread, db
<1>3. CASE left[j] = {q}
  <2>1. Proceed(j)
    BY <1>3 DEF Unread
  <2>2. /\ \A i \in Jobs \ {j} : status'[i] = status[i] /\ at'[i] = at[i]
        /\ \/ status'[j] = "done"
           \/ status'[j] = "busy" /\ at'[j] = at[j] + 1 /\ at'[j] \in 1..Len(Plan[j][0])
    BY <1>1, <1>2, <2>1, ProceedFacts
  <2>3. Moves(j)
    BY <2>2 DEF Moves, Ended
  <2>4. Ahead(j)' => Ahead(j)
    BY <1>1, <2>3, AheadMoves
  <2>5. \A i \in Jobs : Shed(i)
    BY <1>2, <2>2, <2>4, ShedOthers
  <2> QED
    BY <1>2, <2>5, OnceKeep
<1>4. CASE left[j] # {q}
  <2>1. status' = status /\ at' = at
    BY <1>4 DEF Unread
  <2>2. \A i \in Jobs : Shed(i)
    BY <1>2, <2>1, ShedOthers, AheadStays
  <2> QED
    BY <1>2, <2>2, OnceKeep
<1> QED
  BY <1>3, <1>4

LEMMA OnceBegin ==
    ASSUME ControlInv, OnceInv, NEW j \in Jobs, Begin(j)
    PROVE  OnceInv'
<1>1. status[j] = "start" /\ store' = store /\ late' = late
  BY DEF Begin, db, hist
<1>2. status' = [status EXCEPT ![j] = "busy"] /\ at' = [at EXCEPT ![j] = 1]
  BY DEF Begin, End
<1>3. /\ status \in [Jobs -> {"absent", "start", "busy"} \cup Ended] /\ at \in [Jobs -> 0..5]
  BY DEF ControlInv, TypeOK
<1>4. \A i \in Jobs \ {j} : status'[i] = status[i] /\ at'[i] = at[i]
  BY <1>2, <1>3
<1>5. Ahead(j)
  BY <1>1 DEF Ahead
<1>6. \A i \in Jobs : Shed(i)
  BY <1>1, <1>4, <1>5, ShedOthers
<1> QED
  BY <1>1, <1>6, OnceKeep

LEMMA OnceLate ==
    ASSUME ControlInv, OnceInv, NEW q \in late, ApplyLate(q)
    PROVE  OnceInv'
<1>1. PICK j \in Jobs : q \in Requests(j)
  BY DEF ControlInv, ReqInv
<1>2. store' = After(q) /\ late' = late \ {q} /\ status' = status /\ at' = at
  BY DEF ApplyLate, call
<1>3. \A i \in Jobs : Shed(i)
  <2>1. \A i \in Jobs : Waiting(i)' => Waiting(i)
    BY <1>2 DEF Waiting
  <2> QED
    BY <1>2, <2>1, ShedStays
<1>4. CASE ~Appends(j, q)
  BY <1>1, <1>2, <1>3, <1>4, OnceKeep
<1>5. CASE Appends(j, q)
  <2>1. Waiting(j)
    BY <1>5 DEF Waiting
  <2>2. ~Ahead(j)'
    <3>1. ~Ahead(j)
      BY <2>1 DEF OnceInv, OneOfThree
    <3> QED
      BY <1>2, <3>1, AheadStays
  <2>3. ~Waiting(j)'
    BY <1>2, <1>5, AppendsOne DEF Waiting
  <2> QED
    BY <1>1, <1>2, <1>3, <1>5, <2>1, <2>2, <2>3, OnceAppend
<1> QED
  BY <1>4, <1>5

\* Only an append of j itself can come from the requests of j.
LEMMA NewWaiting ==
    ASSUME ControlInv, NEW j \in Jobs, NEW S, S \subseteq left[j], late' \subseteq late \cup S,
           NEW i \in Jobs, Waiting(i)', ~Waiting(i)
    PROVE  i = j /\ \E r \in S : Appends(j, r)
<1>1. PICK r \in late' : Appends(i, r)
  BY DEF Waiting
<1>2. r \in S
  BY <1>1 DEF Waiting
<1>3. r \in Requests(j)
  BY <1>2, LeftFacts
<1> QED
  BY <1>1, <1>2, <1>3, AppendsOwner

LEMMA OnceFail ==
    ASSUME ControlInv, OnceInv, NEW j \in Jobs, Fail(j)
    PROVE  OnceInv'
<1>1. status[j] = "busy" /\ Loses(j) /\ at' = at
  BY DEF Fail
<1>2. status \in [Jobs -> {"absent", "start", "busy"} \cup Ended]
  BY DEF ControlInv, TypeOK
<1>3. status'[j] = "failed" /\ \A i \in Jobs \ {j} : status'[i] = status[i]
  BY <1>2 DEF Fail, End
<1>4. ~Ahead(j)'
  BY <1>3 DEF Ahead
<1>5. ASSUME NEW S, S \subseteq left[j], late' \subseteq late \cup S PROVE \A i \in Jobs : Shed(i)
  <2>1. ASSUME NEW i \in Jobs \ {j} PROVE Shed(i)
    <3>1. Waiting(i)' => Waiting(i)
      BY <1>5, NewWaiting
    <3> QED
      BY <1>1, <1>3, <3>1, ShedStays
  <2>2. ASSUME Waiting(j)', ~Waiting(j) PROVE Ahead(j)
    <3>1. PICK r \in S : Appends(j, r)
      BY <1>5, <2>2, NewWaiting
    <3>2. r \in Now(j).reqs
      BY <1>5, LeftFacts
    <3> QED
      BY <1>1, <3>1, <3>2, NowStated
  <2>3. Shed(j)
    BY <1>4, <2>2 DEF Shed
  <2> QED
    BY <2>1, <2>3
<1>6. CASE store' = store /\ late' \in {late, late \cup {r \in left[j] : IsWrite(r)}}
  <2>1. late' \subseteq late \cup left[j]
    BY <1>6
  <2>2. \A i \in Jobs : Shed(i)
    BY <1>5, <2>1
  <2> QED
    BY <1>6, <2>2, OnceKeep
<1>7. ASSUME NEW q \in left[j], store' = After(q),
             late' \in {late, late \cup {r \in left[j] \ {q} : IsWrite(r)}}
      PROVE  OnceInv'
  <2>1. late' \subseteq late \cup (left[j] \ {q})
    BY <1>7
  <2>2. \A i \in Jobs : Shed(i)
    BY <1>5, <2>1
  <2>3. q \in Requests(j) /\ q \in Now(j).reqs
    BY LeftFacts
  <2>4. CASE ~Appends(j, q)
    BY <1>7, <2>2, <2>3, <2>4, OnceKeep
  <2>5. CASE Appends(j, q)
    <3>1. Ahead(j) /\ Now(j).reqs = {q}
      BY <1>1, <2>3, <2>5, NowStated
    <3>2. left[j] \ {q} = {}
      BY <1>1, <3>1, NowFacts
    <3>3. ~Waiting(j)
      BY <3>1 DEF OnceInv, OneOfThree
    <3>4. ~Waiting(j)'
      BY <2>1, <3>2, <3>3, NewWaiting
    <3> QED
      BY <1>4, <1>7, <2>2, <2>3, <2>5, <3>1, <3>4, OnceAppend
  <2> QED
    BY <2>4, <2>5
<1> QED
  BY <1>1, <1>6, <1>7, LosesFacts

LEMMA OnceResend ==
    ASSUME OperateOnce, ControlInv, OnceInv, NEW j \in Jobs, Resend(j)
    PROVE  OnceInv'
<1>1. status[j] = "busy" /\ Loses(j) /\ MayResend(j) /\ at' = at /\ status' = status
  BY DEF Resend
<1>2. ASSUME NEW q \in left[j], Appends(j, q) PROVE FALSE
  <2>1. q \in Now(j).reqs
    BY LeftFacts
  <2>2. Now(j).cls = "operate" /\ Now(j).again = "never"
    BY <1>1, <1>2, <2>1, NowStated
  <2>3. policies[Now(j).cls].max_retries = 0
    BY <2>2 DEF OperateOnce
  <2> QED
    BY <1>1, <2>2, <2>3 DEF MayResend
<1>3. late' \subseteq late \cup left[j]
  BY <1>1, LosesFacts
<1>4. \A i \in Jobs : Waiting(i)' => Waiting(i)
  BY <1>2, <1>3, NewWaiting
<1>5. \A i \in Jobs : Shed(i)
  BY <1>1, <1>4, ShedStays
<1>6. \/ store' = store
      \/ \E q \in left[j] : store' = After(q)
  BY <1>1, LosesFacts
<1>7. \A q \in left[j] : q \in Requests(j)
  BY LeftFacts
<1> QED
  BY <1>2, <1>5, <1>6, <1>7, OnceKeep

LEMMA OnceInit == Init => OnceInv
<1> SUFFICES ASSUME Init PROVE OnceInv
  OBVIOUS
<1>1. DOMAIN store = {} /\ late = {}
  BY DEF Init, NoBins
<1>2. \A j \in Jobs : ~Present(j) /\ ~Waiting(j)
  BY <1>1 DEF Present, Waiting
<1>3. ListsInv
  BY <1>1 DEF ListsInv
<1> QED
  BY <1>2, <1>3 DEF OnceInv, OneOfThree

LEMMA OnceNext ==
    ASSUME OperateOnce, ControlInv, OnceInv, [Next]_vars
    PROVE  OnceInv'
<1>1. ASSUME store' = store, late' = late, status' = status, at' = at PROVE OnceInv'
  <2>1. \A i \in Jobs : Waiting(i)' => Waiting(i)
    BY <1>1 DEF Waiting
  <2>2. \A i \in Jobs : Shed(i)
    BY <1>1, <2>1, ShedStays
  <2> QED
    BY <1>1, <2>2, OnceKeep
<1>2. CASE UNCHANGED vars
  BY <1>1, <1>2 DEF vars, db, call, hist
<1>3. ASSUME NEW p \in Processes, NEW s \in Services, Construct(p, s) \/ ConstructFails(p, s)
      PROVE  OnceInv'
  BY <1>1, <1>3 DEF Construct, ConstructFails, db, call, hist
<1> QED
  BY <1>2, <1>3, OnceBegin, OnceResend, OnceFail, OnceApply, OnceProceed, OnceRaise, OnceUnread,
     OnceLate DEF Next

LEMMA OnceAlways == ASSUME OperateOnce PROVE Spec => []OnceInv
<1>1. OnceInv /\ ControlInv /\ [Next]_vars => OnceInv'
  BY OnceNext
<1> QED
  BY <1>1, OnceInit, ControlAlways, PTL DEF Spec

LEMMA OnceGoal == OnceInv => AppendedOnce
<1> SUFFICES ASSUME OnceInv, NEW p \in DOMAIN store, NEW m \in DOMAIN Entries(store[p]),
                    NEW n \in DOMAIN Entries(store[p]),
                    Entries(store[p])[m].by = Entries(store[p])[n].by
             PROVE  m = n
  BY DEF AppendedOnce
<1>1. \A b \in ListBins \cap DOMAIN store[p] : GoodList(store[p][b])
  BY DEF OnceInv, ListsInv
<1>2. CASE "sman" \in DOMAIN store[p]
  <2>1. Entries(store[p]) = store[p]["sman"] /\ GoodList(store[p]["sman"])
    BY <1>1, <1>2 DEF Entries, ListBins
  <2> QED
    BY <2>1 DEF GoodList
<1>3. CASE "sman" \notin DOMAIN store[p] /\ "mpl" \in DOMAIN store[p]
  <2>1. Entries(store[p]) = store[p]["mpl"] /\ GoodList(store[p]["mpl"])
    BY <1>1, <1>3 DEF Entries, ListBins
  <2> QED
    BY <2>1 DEF GoodList
<1>4. CASE "sman" \notin DOMAIN store[p] /\ "mpl" \notin DOMAIN store[p]
  <2>1. Entries(store[p]) = <<>> /\ DOMAIN <<>> = {}
    BY <1>4 DEF Entries
  <2> QED
    BY <2>1
<1> QED
  BY <1>2, <1>3, <1>4

\* Whatever the names, the calls and the failures: under client policies that
\* do not retry operate, as the default ones do not, a call's entry is in a
\* manifest or a posting list at most once (list_append, _internal/client.py).
THEOREM EntriesOnce == ASSUME OperateOnce PROVE Spec => []AppendedOnce
  BY OnceAlways, OnceGoal, PTL

\* The policies of the client keep to that unless they are overridden.
LEMMA DefaultsOnce ==
    ASSUME "operate" \in DOMAIN Override => "max_retries" \notin DOMAIN Override["operate"]
    PROVE  OperateOnce
<1>1. policies = [c \in DOMAIN _default_policies \cup DOMAIN Override |->
                    IF c \notin DOMAIN Override THEN _default_policies[c]
                    ELSE IF c \notin DOMAIN _default_policies THEN Override[c]
                    ELSE Over(_default_policies[c], Override[c])]
  BY DEF policies, _merge_policies
<1> DEFINE p == _default_policies["operate"]
<1>2. "operate" \in DOMAIN _default_policies /\ "max_retries" \in DOMAIN p /\ p["max_retries"] = 0
  BY DEF _default_policies, Policy
<1> HIDE DEF p
<1>3. \/ policies["operate"] = p
      \/ "operate" \in DOMAIN Override /\ policies["operate"] = Over(p, Override["operate"])
  BY <1>1, <1>2 DEF p
<1>4. ASSUME "operate" \in DOMAIN Override
      PROVE  Over(p, Override["operate"])["max_retries"] = 0
  <2>1. \A x \in DOMAIN p \ DOMAIN Override["operate"] : Over(p, Override["operate"])[x] = p[x]
    BY OverFacts
  <2> QED
    BY <1>2, <1>4, <2>1
<1> QED
  BY <1>2, <1>3, <1>4 DEF OperateOnce

-----------------------------------------------------------------------------
(* State: where an entry comes from.                                       *)

LEMMA NameTail ==
    ASSUME NEW l \in Name, NEW w \in Word, StartsWith(l, w)
    PROVE  Tail(l) \in Seq(Word) /\ <<w>> \o Tail(l) = l
<1>1. l \in Seq(Word) /\ l # <<>> /\ Head(l) = w
  BY DEF Name, StartsWith
<1>2. Tail(l) \in Seq(Word) /\ Len(l) \in Nat /\ Len(Tail(l)) = Len(l) - 1 /\ Len(l) >= 1
  BY <1>1
<1>3. \A i \in 1..Len(Tail(l)) : Tail(l)[i] = l[i + 1]
  BY <1>1, <1>2
<1>4. <<w>> \in Seq(Word) /\ Len(<<w>>) = 1 /\ <<w>>[1] = w
  BY SuffixName DEF Single
<1> DEFINE k == <<w>> \o Tail(l)
<1>5. /\ k \in Seq(Word) /\ Len(k) = 1 + Len(Tail(l)) /\ \A i \in 1..1 : k[i] = <<w>>[i]
      /\ \A i \in 1..Len(Tail(l)) : k[1 + i] = Tail(l)[i]
  <2>1. 1 \in Nat
    OBVIOUS
  <2> QED
    BY <1>2, <1>4, <2>1, JoinAt, Zenon
<1> HIDE DEF k
<1>6. Len(k) = Len(l)
  BY <1>2, <1>5
<1>7. k[1] = l[1]
  BY <1>1, <1>4, <1>5
<1>8. ASSUME NEW i \in 1..Len(l) PROVE k[i] = l[i]
  <2>1. CASE i = 1
    BY <1>7, <2>1
  <2>2. CASE i # 1
    <3>1. i - 1 \in 1..Len(Tail(l)) /\ 1 + (i - 1) = i /\ (i - 1) + 1 = i
      BY <1>2, <2>2
    <3>2. k[1 + (i - 1)] = Tail(l)[i - 1] /\ Tail(l)[i - 1] = l[(i - 1) + 1]
      BY <1>3, <1>5, <3>1
    <3> QED
      BY <3>1, <3>2
  <2> QED
    BY <2>1, <2>2
<1>9. k = l
  BY <1>1, <1>5, <1>6, <1>8, SameItems
<1> QED
  BY <1>2, <1>9 DEF k

LEMMA TailOfPrefixed ==
    ASSUME NEW w \in Word, NEW l \in Seq(Word)
    PROVE  Tail(<<w>> \o l) = l
<1>1. <<w>> \in Seq(Word) /\ <<w>> # <<>>
  OBVIOUS
<1>2. Tail(<<w>>) = <<>>
  OBVIOUS
<1> QED
  BY <1>1, <1>2

\* The entries of the partitions of what j gives.
PartKey(j, w, k) == k \in Seq(Word) /\ <<w>> \o k \in Job[j].keys /\ StartsWith(<<w>> \o k, w)
PlainKey(j, k) ==
    k \in Job[j].keys /\ \A w \in {"app", "user", "temp"} : ~StartsWith(k, w)

LEMMA StrippedFacts ==
    ASSUME NEW j \in Jobs, NEW w \in Word, NEW k \in DOMAIN Stripped(w, Delta(j))
    PROVE  PartKey(j, w, k) /\ Stripped(w, Delta(j))[k] = j
<1>1. Job[j].keys \subseteq Name
  BY JobType DEF Calls
<1>2. DOMAIN Delta(j) = Job[j].keys /\ \A l \in Job[j].keys : Delta(j)[l] = j
  BY DEF Delta
<1>3. PICK l \in With(w, Delta(j)) : k = Tail(l)
  BY DEF Stripped
<1>4. l \in Job[j].keys /\ StartsWith(l, w)
  BY <1>2, <1>3 DEF With
<1>5. Tail(l) \in Seq(Word) /\ <<w>> \o Tail(l) = l
  BY <1>1, <1>4, NameTail
<1>6. Stripped(w, Delta(j))[k] = Delta(j)[<<w>> \o k]
  BY DEF Stripped
<1> QED
  BY <1>2, <1>3, <1>4, <1>5, <1>6 DEF PartKey

LEMMA PartsFacts ==
    ASSUME NEW j \in Jobs
    PROVE  /\ \A k \in DOMAIN Parts(j).app : PartKey(j, "app", k) /\ Parts(j).app[k] = j
           /\ \A k \in DOMAIN Parts(j).user : PartKey(j, "user", k) /\ Parts(j).user[k] = j
           /\ \A k \in DOMAIN Parts(j).session : PlainKey(j, k) /\ Parts(j).session[k] = j
<1>1. /\ Parts(j).app = Stripped("app", Delta(j)) /\ Parts(j).user = Stripped("user", Delta(j))
      /\ Parts(j).session = [k \in Bare(Delta(j)) |-> Delta(j)[k]]
  BY DEF Parts, _partition_state
<1>2. "app" \in Word /\ "user" \in Word
  BY WordAssumption
<1>3. DOMAIN Delta(j) = Job[j].keys /\ \A l \in Job[j].keys : Delta(j)[l] = j
  BY DEF Delta
<1>4. \A k \in Bare(Delta(j)) : PlainKey(j, k)
  BY <1>3 DEF Bare, With, PlainKey
<1>5. \A k \in DOMAIN Parts(j).session : PlainKey(j, k) /\ Parts(j).session[k] = j
  BY <1>1, <1>3, <1>4 DEF PlainKey
<1> QED
  BY <1>1, <1>2, <1>5, StrippedFacts

Begun(j) == status[j] \notin {"absent", "start"}

\* Call w wrote entry k of a state that is kept at pk.
Sourced(pk, w, k) ==
    /\ w \in Jobs /\ Job[w].op \in StateOps
    /\ \/ pk = AppPlace(Job[w]).pk /\ PartKey(w, "app", k)
       \/ pk = UserPlace(Job[w]).pk /\ PartKey(w, "user", k)
       \/ pk = SessionPlace(Job[w]).pk /\ PlainKey(w, k)

\* The entries of the record at pk are the ones of calls in B.
Known(pk, bins, B) ==
    "state" \in DOMAIN bins =>
        \A k \in DOMAIN bins["state"] :
            Sourced(pk, bins["state"][k], k) /\ bins["state"][k] \in B

BegunJobs == {j \in Jobs : Begun(j)}
StateInv ==
    /\ \A q \in late : \E j \in BegunJobs : q \in Requests(j)
    /\ \A pk \in DOMAIN store : Known(pk, store[pk], BegunJobs)
    /\ \A j \in Jobs : \A pk \in DOMAIN got[j] : Known(pk, got[j][pk], BegunJobs)

\* What a request writes is the call's own.
LEMMA RequestKnown ==
    ASSUME NEW j \in Jobs, NEW q \in Requests(j), Stores(q), NEW B, j \in B
    PROVE  Known(q.place.pk, q.bins, B)
<1>1. CASE Creates(j, q)
  <2>1. q.bins["state"] = Parts(j).session /\ q.place = SessionPlace(Job[j])
    BY <1>1 DEF Creates, SessionCreate, Req
  <2>2. Job[j].op \in StateOps
    BY <1>1 DEF Creates, StateOps
  <2> QED
    BY <2>1, <2>2, PartsFacts DEF Known, Sourced
<1>2. CASE Updates(j, q)
  <2>1. \/ q.bins["state"] = Parts(j).session /\ q.place = SessionPlace(Job[j])
        \/ q.bins["state"] = Parts(j).app /\ q.place = AppPlace(Job[j])
        \/ q.bins["state"] = Parts(j).user /\ q.place = UserPlace(Job[j])
    BY <1>2 DEF Updates, AppWrite, UserWrite, SessionWrite, PutItems, Req
  <2>2. Job[j].op \in StateOps
    BY <1>2 DEF Updates
  <2> QED
    BY <2>1, <2>2, PartsFacts DEF Known, Sourced
<1>3. CASE Lists(j, q) \/ Events(j, q) \/ Counts(j, q) \/ Versions(j, q) \/ Rows(j, q) \/ Posts(j, q)
  <2>1. "state" \notin DOMAIN q.bins
    BY <1>3, RequestBins
  <2> QED
    BY <2>1 DEF Known
<1> QED
  BY <1>1, <1>2, <1>3, Storing

LEMMA MergedState ==
    ASSUME NEW old, NEW new, "state" \in DOMAIN old, "state" \in DOMAIN new
    PROVE  Merged(old, new)["state"] = Over(old["state"], new["state"])
  BY Zenon DEF Merged

\* Entries stay known when records are merged.
LEMMA MergedKnown ==
    ASSUME NEW pk, NEW old, NEW new, NEW B, Known(pk, old, B), Known(pk, new, B)
    PROVE  Known(pk, Merged(old, new), B)
<1>0. DOMAIN Merged(old, new) = DOMAIN old \cup DOMAIN new
  BY MergedBins
<1>1. CASE "state" \in DOMAIN old /\ "state" \in DOMAIN new
  <2>1. Merged(old, new)["state"] = Over(old["state"], new["state"])
    BY <1>1, MergedState
  <2> DEFINE f == old["state"]
             g == new["state"]
  <2>2. /\ DOMAIN Over(f, g) = DOMAIN f \cup DOMAIN g
        /\ \A x \in DOMAIN g : Over(f, g)[x] = g[x]
        /\ \A x \in DOMAIN f \ DOMAIN g : Over(f, g)[x] = f[x]
    BY OverFacts
  <2>3. /\ \A k \in DOMAIN f : Sourced(pk, f[k], k) /\ f[k] \in B
        /\ \A k \in DOMAIN g : Sourced(pk, g[k], k) /\ g[k] \in B
    BY <1>1 DEF Known
  <2>4. \A k \in DOMAIN Over(f, g) : Sourced(pk, Over(f, g)[k], k) /\ Over(f, g)[k] \in B
    BY <2>2, <2>3
  <2> QED
    BY <2>1, <2>4 DEF Known
<1>2. CASE "state" \in DOMAIN old /\ "state" \notin DOMAIN new
  <2>1. Merged(old, new)["state"] = old["state"]
    BY <1>2, MergedOld
  <2> QED
    BY <1>2, <2>1 DEF Known
<1>3. CASE "state" \notin DOMAIN old /\ "state" \in DOMAIN new
  <2>1. Merged(old, new)["state"] = new["state"]
    BY <1>3, MergedNew
  <2> QED
    BY <1>3, <2>1 DEF Known
<1>4. CASE "state" \notin DOMAIN old /\ "state" \notin DOMAIN new
  BY <1>0, <1>4 DEF Known
<1> QED
  BY <1>1, <1>2, <1>3, <1>4

LEMMA BecomesKnown ==
    ASSUME NEW j \in Jobs, NEW q \in Requests(j), NEW bins, NEW B, j \in B,
           Becomes(q, q.place.pk, bins),
           q.place.pk \in DOMAIN store => Known(q.place.pk, store[q.place.pk], B)
    PROVE  Known(q.place.pk, bins, B)
<1> DEFINE pk == q.place.pk
<1>1. CASE pk \in DOMAIN store /\ bins = store[pk]
  BY <1>1
<1>2. CASE q.do = "create" /\ bins = q.bins
  BY <1>2, RequestKnown DEF Stores
<1>3. CASE q.do = "write" /\ bins = Merged(Bins(pk), q.bins)
  <2>1. Known(pk, q.bins, B)
    BY <1>3, RequestKnown DEF Stores
  <2>2. DOMAIN NoBins = {}
    BY DEF NoBins
  <2>3. Known(pk, Bins(pk), B)
    BY <2>2 DEF Bins, Known
  <2> QED
    BY <1>3, <2>1, <2>3, MergedKnown
<1>4. CASE q.do = "increment" /\ bins =
          [ver |-> (IF pk \in DOMAIN store THEN store[pk].ver ELSE 0) + q.bins.ver]
  <2>1. DOMAIN bins = {"ver"}
    BY <1>4
  <2> QED
    BY <2>1 DEF Known
<1>5. CASE q.do = "unlist" /\ pk \in DOMAIN store /\ bins = Unlisted(store[pk], q.bins.sman)
  <2>1. DOMAIN bins = DOMAIN store[pk]
    BY <1>5, UnlistedBins
  <2>2. "state" \in DOMAIN bins => bins["state"] = store[pk]["state"]
    BY <1>5, <2>1, UnlistedOther
  <2> QED
    BY <1>5, <2>1, <2>2 DEF Known
<1> QED
  BY <1>1, <1>2, <1>3, <1>4, <1>5 DEF Becomes

LEMMA StoreKnown ==
    ASSUME NEW j \in Jobs, NEW q \in Requests(j), NEW B, j \in B,
           \A pk \in DOMAIN store : Known(pk, store[pk], B)
    PROVE  \A pk \in DOMAIN After(q) : Known(pk, After(q)[pk], B)
<1>1. Effect(q, q.place.pk, After(q))
  BY RequestFacts, AfterFacts
<1>2. ASSUME NEW pk \in DOMAIN After(q), pk # q.place.pk PROVE Known(pk, After(q)[pk], B)
  BY <1>1, <1>2 DEF Effect
<1>3. ASSUME q.place.pk \in DOMAIN After(q) PROVE Known(q.place.pk, After(q)[q.place.pk], B)
  <2>1. Becomes(q, q.place.pk, After(q)[q.place.pk])
    BY <1>1, <1>3 DEF Effect
  <2> QED
    BY <2>1, BecomesKnown
<1> QED
  BY <1>2, <1>3

\* A call that has begun stays so; what it got, it had or asked for; what is late
\* was so or comes from a call that has begun.
GotStep ==
    \A j \in Jobs : \A pk \in DOMAIN got'[j] :
        \/ pk \in DOMAIN got[j] /\ got'[j][pk] = got[j][pk]
        \/ /\ pk \in DOMAIN store /\ got'[j][pk] = store[pk]
           /\ \E q \in Requests(j) : Gives(q, pk, got'[j][pk])
LateStep ==
    \A q \in late' : q \in late \/ \E j \in BegunJobs : q \in left[j] /\ q \in Requests(j)

LEMMA BegunNext == ASSUME ControlInv, [Next]_vars PROVE BegunJobs \subseteq BegunJobs'
<1>0. status \in [Jobs -> {"absent", "start", "busy"} \cup Ended]
  BY DEF ControlInv, TypeOK
<1>1. ASSUME NEW j \in Jobs, NEW how \in {"busy"} \cup Ended, End(j, how)
      PROVE  BegunJobs \subseteq BegunJobs'
  BY <1>0, <1>1 DEF End, BegunJobs, Begun, Ended
<1>2. ASSUME status' = status PROVE BegunJobs \subseteq BegunJobs'
  BY <1>2 DEF BegunJobs, Begun
<1>3. CASE UNCHANGED vars
  BY <1>2, <1>3 DEF vars
<1>4. ASSUME NEW p \in Processes, NEW s \in Services, Construct(p, s) \/ ConstructFails(p, s)
      PROVE  BegunJobs \subseteq BegunJobs'
  BY <1>2, <1>4 DEF Construct, ConstructFails
<1>5. ASSUME NEW j \in Jobs, Begin(j) \/ Fail(j) PROVE BegunJobs \subseteq BegunJobs'
  BY <1>1, <1>5 DEF Begin, Fail, Ended
<1>6. ASSUME NEW j \in Jobs, Resend(j) PROVE BegunJobs \subseteq BegunJobs'
  BY <1>2, <1>6 DEF Resend
<1>7. ASSUME NEW j \in Jobs, Proceed(j) PROVE BegunJobs \subseteq BegunJobs'
  BY <1>1, <1>2, <1>7 DEF Proceed, Ended
<1>8. ASSUME NEW j \in Jobs, NEW q \in left[j], Apply(j, q) \/ Answer(j, q) \/ Raise(j, q) \/ Unread(j, q)
      PROVE  BegunJobs \subseteq BegunJobs'
  <2>1. CASE Apply(j, q)
    BY <1>2, <2>1 DEF Apply
  <2>2. CASE Answer(j, q)
    BY <1>7, <2>2 DEF Answer
  <2>3. CASE Raise(j, q)
    BY <1>1, <2>3 DEF Raise, Ended
  <2>4. CASE Unread(j, q)
    BY <1>2, <1>7, <2>4 DEF Unread
  <2> QED
    BY <1>8, <2>1, <2>2, <2>3, <2>4
<1>9. ASSUME NEW q \in late, ApplyLate(q) PROVE BegunJobs \subseteq BegunJobs'
  BY <1>2, <1>9 DEF ApplyLate
<1> QED
  BY <1>3, <1>4, <1>5, <1>6, <1>8, <1>9 DEF Next

LEMMA GotNext == ASSUME ControlInv, [Next]_vars PROVE GotStep
<1>0. got = [i \in Jobs |-> got[i]]
  BY DEF ControlInv, ReqInv
<1>1. ASSUME got' = got PROVE GotStep
  BY <1>1 DEF GotStep
<1>2. CASE UNCHANGED vars
  BY <1>1, <1>2 DEF vars, call
<1>3. ASSUME NEW p \in Processes, NEW s \in Services, Construct(p, s) \/ ConstructFails(p, s)
      PROVE  GotStep
  BY <1>1, <1>3 DEF Construct, ConstructFails, call
<1>4. ASSUME NEW j \in Jobs, Begin(j) \/ Fail(j) PROVE GotStep
  BY <1>1, <1>4 DEF Begin, Fail
<1>5. ASSUME NEW j \in Jobs, Resend(j) PROVE GotStep
  <2>1. got' = [got EXCEPT ![j] = Except(got[j], Now(j).reqs)]
    BY <1>5 DEF Resend
  <2>2. got'[j] = Except(got[j], Now(j).reqs) /\ \A i \in Jobs \ {j} : got'[i] = got[i]
    BY <1>0, <2>1
  <2>3. \A pk \in DOMAIN got'[j] : pk \in DOMAIN got[j] /\ got'[j][pk] = got[j][pk]
    BY <2>2 DEF Except
  <2> QED
    BY <2>2, <2>3 DEF GotStep
<1>6. ASSUME NEW j \in Jobs, NEW q \in Requests(j), Receive(j, q) PROVE GotStep
  <2>1. got' = [got EXCEPT ![j] = Over(got[j], Answered(q))]
    BY <1>6 DEF Receive
  <2>2. got'[j] = Over(got[j], Answered(q)) /\ \A i \in Jobs \ {j} : got'[i] = got[i]
    BY <1>0, <2>1
  <2>3. \A pk \in DOMAIN Answered(q) :
           /\ pk \in DOMAIN store /\ Answered(q)[pk] = store[pk]
           /\ Gives(q, pk, Answered(q)[pk])
    BY DEF Answered
  <2>4. \A pk \in DOMAIN got'[j] :
           \/ pk \in DOMAIN got[j] /\ got'[j][pk] = got[j][pk]
           \/ /\ pk \in DOMAIN store /\ got'[j][pk] = store[pk]
              /\ Gives(q, pk, got'[j][pk])
    <3> DEFINE f == got[j]
               g == Answered(q)
    <3>1. /\ DOMAIN Over(f, g) = DOMAIN f \cup DOMAIN g
          /\ \A x \in DOMAIN g : Over(f, g)[x] = g[x]
          /\ \A x \in DOMAIN f \ DOMAIN g : Over(f, g)[x] = f[x]
      BY OverFacts
    <3> QED
      BY <2>2, <2>3, <3>1
  <2> QED
    BY <2>2, <2>4 DEF GotStep
<1>7. ASSUME NEW j \in Jobs, NEW q \in left[j], Apply(j, q) \/ Answer(j, q) \/ Raise(j, q) \/ Unread(j, q)
      PROVE  GotStep
  BY <1>1, <1>6, <1>7, LeftFacts DEF Apply, Answer, Raise, Unread
<1>8. ASSUME NEW q \in late, ApplyLate(q) PROVE GotStep
  BY <1>1, <1>8 DEF ApplyLate, call
<1> QED
  BY <1>2, <1>3, <1>4, <1>5, <1>7, <1>8 DEF Next

LEMMA LateNext == ASSUME ControlInv, [Next]_vars PROVE LateStep
<1>0. \A j \in Jobs : \A q \in left[j] : q \in Requests(j) /\ j \in BegunJobs
  BY LeftFacts DEF BegunJobs, Begun
<1>1. ASSUME late' \subseteq late PROVE LateStep
  BY <1>1 DEF LateStep
<1>2. CASE UNCHANGED vars
  BY <1>1, <1>2 DEF vars, hist
<1>3. ASSUME NEW p \in Processes, NEW s \in Services, Construct(p, s) \/ ConstructFails(p, s)
      PROVE  LateStep
  BY <1>1, <1>3 DEF Construct, ConstructFails, hist
<1>4. ASSUME NEW j \in Jobs, Begin(j) PROVE LateStep
  BY <1>1, <1>4 DEF Begin, hist
<1>5. ASSUME NEW j \in Jobs, Fail(j) \/ Resend(j) PROVE LateStep
  <2>1. status[j] = "busy" /\ Loses(j)
    BY <1>5 DEF Fail, Resend
  <2>2. late' \subseteq late \cup left[j]
    BY <2>1, LosesFacts
  <2> QED
    BY <1>0, <2>2 DEF LateStep
<1>6. ASSUME NEW j \in Jobs, NEW q \in left[j], Apply(j, q) \/ Answer(j, q) \/ Raise(j, q) \/ Unread(j, q)
      PROVE  LateStep
  BY <1>1, <1>6 DEF Apply, Answer, Raise, Unread, hist
<1>7. ASSUME NEW q \in late, ApplyLate(q) PROVE LateStep
  BY <1>1, <1>7 DEF ApplyLate
<1> QED
  BY <1>2, <1>3, <1>4, <1>5, <1>6, <1>7 DEF Next

LEMMA KnownMore ==
    ASSUME NEW pk, NEW bins, NEW B, NEW C, Known(pk, bins, B), B \subseteq C
    PROVE  Known(pk, bins, C)
  BY DEF Known

LEMMA StateInit == Init => StateInv
<1>1. DOMAIN NoBins = {}
  BY DEF NoBins
<1> QED
  BY <1>1 DEF Init, StateInv

LEMMA StateNext == ASSUME ControlInv, StateInv, [Next]_vars PROVE StateInv'
<1> DEFINE B == BegunJobs
           C == BegunJobs'
<1>0. B \subseteq C /\ GotStep /\ LateStep /\ Serves
  BY BegunNext, GotNext, LateNext, NextServes
<1>1. ASSUME NEW q \in late' PROVE \E j \in C : q \in Requests(j)
  BY <1>0 DEF LateStep, StateInv
<1>2. \A pk \in DOMAIN store : Known(pk, store[pk], B)
  BY DEF StateInv
<1>3. ASSUME NEW pk \in DOMAIN store' PROVE Known(pk, store'[pk], C)
  <2>1. CASE store' = store
    BY <1>0, <1>2, <1>3, <2>1, KnownMore
  <2>2. ASSUME NEW j \in Jobs, NEW q \in Requests(j), Due(j, q), store' = After(q)
        PROVE  Known(pk, store'[pk], C)
    <3>1. PICK i \in B : q \in Requests(i)
      <4>1. CASE q \in left[j]
        BY <2>2, <4>1, LeftFacts DEF BegunJobs, Begun
      <4>2. CASE q \in late
        BY <4>2 DEF StateInv
      <4> QED
        BY <2>2, <4>1, <4>2 DEF Due
    <3>2. i \in Jobs
      BY DEF BegunJobs
    <3>3. \A p \in DOMAIN After(q) : Known(p, After(q)[p], B)
      BY <1>2, <3>1, <3>2, StoreKnown
    <3> QED
      BY <1>0, <1>3, <2>2, <3>3, KnownMore
  <2> QED
    BY <1>0, <2>1, <2>2 DEF Serves
<1>4. ASSUME NEW j \in Jobs, NEW pk \in DOMAIN got'[j] PROVE Known(pk, got'[j][pk], C)
  <2>1. Known(pk, got'[j][pk], B)
    BY <1>0, <1>2, <1>4 DEF GotStep, StateInv
  <2> QED
    BY <1>0, <2>1, KnownMore
<1> QED
  BY <1>1, <1>3, <1>4 DEF StateInv

LEMMA StateAlways == Spec => []StateInv
  BY StateInit, StateNext, ControlAlways, PTL DEF Spec

\* Entry k of a state that r returns was written by w, as it should be.
Proper(r, w, k) == w \in BegunJobs /\ Wrote(w, k) /\ Shares(r, w, k)

LEMMA FromApp ==
    ASSUME WellNamed, NEW r \in Jobs, NEW w, NEW k, Sourced(AppPlace(Job[r]).pk, w, k), w \in BegunJobs
    PROVE  k \in Seq(Word) /\ Proper(r, w, <<"app">> \o k)
<1>1. w \in Jobs /\ Job[w].op \in StateOps
  BY DEF Sourced
<1>2. AppPlace(Job[r]).pk = AppPlace(Job[w]).pk /\ PartKey(w, "app", k)
  BY <1>1, PlaceSets DEF Sourced
<1>3. Job[r].app = Job[w].app
  BY <1>1, <1>2, PlaceKeys
<1> DEFINE l == <<"app">> \o k
<1>4. k \in Seq(Word) /\ l \in Job[w].keys /\ StartsWith(l, "app")
  BY <1>2 DEF PartKey
<1> HIDE DEF l
<1>5. ~StartsWith(l, "temp")
  BY <1>4 DEF StartsWith
<1>6. Wrote(w, l)
  BY <1>1, <1>4, <1>5 DEF Wrote, StateOps
<1>7. Shares(r, w, l)
  BY <1>3, <1>4 DEF Shares, Scoped
<1>8. Proper(r, w, l)
  BY <1>6, <1>7 DEF Proper
<1> QED
  BY <1>4, <1>8 DEF l

LEMMA FromUser ==
    ASSUME WellNamed, NEW r \in Jobs, NEW w, NEW k, Sourced(UserPlace(Job[r]).pk, w, k), w \in BegunJobs
    PROVE  k \in Seq(Word) /\ Proper(r, w, <<"user">> \o k)
<1>1. w \in Jobs /\ Job[w].op \in StateOps
  BY DEF Sourced
<1>2. UserPlace(Job[r]).pk = UserPlace(Job[w]).pk /\ PartKey(w, "user", k)
  BY <1>1, PlaceSets DEF Sourced
<1>3. Job[r].app = Job[w].app /\ Job[r].user = Job[w].user
  <2>1. Job[r].app[1] = Job[w].app[1] /\ Job[r].user[1] = Job[w].user[1]
    BY <1>1, <1>2, RowParts DEF Pair
  <2> QED
    BY <1>1, <2>1, NameFacts, SingleName
<1> DEFINE l == <<"user">> \o k
<1>4. k \in Seq(Word) /\ l \in Job[w].keys /\ StartsWith(l, "user")
  BY <1>2 DEF PartKey
<1> HIDE DEF l
<1>5. ~StartsWith(l, "temp")
  BY <1>4 DEF StartsWith
<1>6. Wrote(w, l)
  BY <1>1, <1>4, <1>5 DEF Wrote, StateOps
<1>7. Shares(r, w, l)
  BY <1>3, <1>4 DEF Shares, Scoped
<1>8. Proper(r, w, l)
  BY <1>6, <1>7 DEF Proper
<1> QED
  BY <1>4, <1>8 DEF l

LEMMA FromSession ==
    ASSUME WellNamed, NEW r \in Jobs, NEW w, NEW k, Sourced(SessionPlace(Job[r]).pk, w, k),
           w \in BegunJobs
    PROVE  Proper(r, w, k)
<1>1. w \in Jobs /\ Job[w].op \in StateOps
  BY DEF Sourced
<1>2. SessionPlace(Job[r]).pk = SessionPlace(Job[w]).pk /\ PlainKey(w, k)
  BY <1>1, PlaceSets DEF Sourced
<1>3. Job[r].app = Job[w].app /\ Job[r].user = Job[w].user /\ Job[r].sid = Job[w].sid
  <2>0. /\ Triple(SessionPlace(Job[r]).pk[2], Job[r].app, Job[r].user, Job[r].sid)
        /\ Triple(SessionPlace(Job[w]).pk[2], Job[w].app, Job[w].user, Job[w].sid)
    BY <1>1, PlaceKeys
  <2>1. /\ Job[r].app[1] = Job[w].app[1] /\ Job[r].user[1] = Job[w].user[1]
        /\ Job[r].sid[1] = Job[w].sid[1]
    BY <1>2, <2>0 DEF Triple
  <2> QED
    BY <1>1, <2>1, NameFacts, SingleName
<1>4. Wrote(w, k)
  BY <1>1, <1>2 DEF Wrote, StateOps, PlainKey
<1>5. Shares(r, w, k)
  BY <1>3 DEF Shares
<1> QED
  BY <1>4, <1>5 DEF Proper

LEMMA PrefixedFacts ==
    ASSUME NEW w \in Word, NEW f, \A l \in DOMAIN f : l \in Seq(Word),
           NEW k \in DOMAIN Prefixed(w, f)
    PROVE  \E l \in DOMAIN f : k = <<w>> \o l /\ Prefixed(w, f)[k] = f[l]
<1>1. PICK l \in DOMAIN f : k = <<w>> \o l
  BY DEF Prefixed
<1>2. Prefixed(w, f)[k] = f[Tail(k)]
  BY DEF Prefixed
<1>3. Tail(<<w>> \o l) = l
  BY TailOfPrefixed
<1> QED
  BY <1>1, <1>2, <1>3, Zenon

LEMMA StateGoal == ASSUME WellNamed, StateInv PROVE StateScoped
<1> SUFFICES ASSUME NEW r \in Jobs, Returned(r), NEW k \in DOMAIN StateOf(r)
             PROVE  Proper(r, StateOf(r)[k], k)
  BY DEF StateScoped, Proper, BegunJobs, Begun
<1> DEFINE A == StateIn(got[r], AppPlace(Job[r]))
           U == StateIn(got[r], UserPlace(Job[r]))
           S == IF Job[r].op = "create_session" THEN Parts(r).session
                ELSE StateIn(got[r], SessionPlace(Job[r]))
           PA == Prefixed("app", A)
           PU == Prefixed("user", U)
<1>0. DOMAIN NoBins = {}
  BY DEF NoBins
<1>1. StateOf(r) = Over(Over(PA, PU), S)
  BY <1>0 DEF StateOf, _merge_state
<1>2. ASSUME NEW x, NEW l \in DOMAIN StateIn(got[r], x)
      PROVE  /\ Sourced(x.pk, StateIn(got[r], x)[l], l)
             /\ StateIn(got[r], x)[l] \in BegunJobs
  <2>1. /\ x.pk \in DOMAIN got[r] /\ "state" \in DOMAIN got[r][x.pk]
        /\ StateIn(got[r], x) = got[r][x.pk]["state"]
    BY <1>0, <1>2 DEF StateIn
  <2>2. Known(x.pk, got[r][x.pk], BegunJobs)
    BY <2>1 DEF StateInv
  <2> QED
    BY <1>2, <2>1, <2>2 DEF Known
<1>3. \A l \in DOMAIN A : l \in Seq(Word) /\ Proper(r, A[l], <<"app">> \o l)
  BY <1>2, FromApp
<1>4. \A l \in DOMAIN U : l \in Seq(Word) /\ Proper(r, U[l], <<"user">> \o l)
  BY <1>2, FromUser
<1>5. ASSUME NEW l \in DOMAIN S PROVE Proper(r, S[l], l)
  <2>1. CASE Job[r].op = "create_session"
    <3>1. S[l] = r /\ PlainKey(r, l)
      BY <1>5, <2>1, PartsFacts
    <3>2. Wrote(r, l) /\ Shares(r, r, l)
      BY <2>1, <3>1 DEF Wrote, Shares, PlainKey
    <3>3. r \in BegunJobs
      BY DEF Returned, BegunJobs, Begun
    <3> QED
      BY <3>1, <3>2, <3>3 DEF Proper
  <2>2. CASE Job[r].op # "create_session"
    BY <1>2, <1>5, <2>2, FromSession
  <2> QED
    BY <2>1, <2>2
<1> HIDE DEF A, U, S
<1>6. "app" \in Word /\ "user" \in Word
  BY WordAssumption
<1>7. ASSUME NEW l \in DOMAIN PA PROVE Proper(r, PA[l], l)
  <2>1. PICK m \in DOMAIN A : l = <<"app">> \o m /\ PA[l] = A[m]
    BY <1>3, <1>6, <1>7, PrefixedFacts
  <2> QED
    BY <1>3, <2>1, Zenon
<1>8. ASSUME NEW l \in DOMAIN PU PROVE Proper(r, PU[l], l)
  <2>1. PICK m \in DOMAIN U : l = <<"user">> \o m /\ PU[l] = U[m]
    BY <1>4, <1>6, <1>8, PrefixedFacts
  <2> QED
    BY <1>4, <2>1, Zenon
<1> HIDE DEF PA, PU
<1> DEFINE P == Over(PA, PU)
<1>9. /\ DOMAIN P = DOMAIN PA \cup DOMAIN PU /\ \A x \in DOMAIN PU : P[x] = PU[x]
      /\ \A x \in DOMAIN PA \ DOMAIN PU : P[x] = PA[x]
  BY OverFacts
<1> HIDE DEF P
<1>10. \A l \in DOMAIN P : Proper(r, P[l], l)
  BY <1>7, <1>8, <1>9
<1>11. /\ DOMAIN Over(P, S) = DOMAIN P \cup DOMAIN S /\ \A x \in DOMAIN S : Over(P, S)[x] = S[x]
       /\ \A x \in DOMAIN P \ DOMAIN S : Over(P, S)[x] = P[x]
  BY OverFacts
<1>12. StateOf(r) = Over(P, S)
  BY <1>1 DEF P
<1> QED
  BY <1>5, <1>10, <1>11, <1>12

\* Whatever the calls and the failures: state never leaves its scope
\* (_partition_state, _merge_state), as long as identifiers have no separator
\* and sessions no reserved name.
THEOREM StateInScope == ASSUME WellNamed PROVE Spec => []StateScoped
<1>1. StateInv => StateScoped
  BY StateGoal
<1> QED
  BY <1>1, StateAlways, PTL

-----------------------------------------------------------------------------
(* Queries: their stages, and the indexes that they need.                  *)

LEMMA TwoStages ==
    ASSUME NEW cls, NEW again, NEW reqs, NEW cls2, NEW again2, NEW reqs2
    PROVE  LET s == Stage(cls, again, reqs) \o Stage(cls2, again2, reqs2) IN
           Len(s) = 2 /\ s[1].reqs = reqs /\ s[2].reqs = reqs2
<1> DEFINE a == [cls |-> cls, again |-> again, reqs |-> reqs]
           b == [cls |-> cls2, again |-> again2, reqs |-> reqs2]
<1>1. a.reqs = reqs /\ b.reqs = reqs2
  OBVIOUS
<1>2. Stage(cls, again, reqs) = <<a>> /\ Stage(cls2, again2, reqs2) = <<b>>
  BY DEF Stage
<1> HIDE DEF a, b
<1> DEFINE S == {a, b}
           t == <<a>>
           u == <<b>>
<1>3. t \in Seq(S) /\ u \in Seq(S) /\ Len(t) = 1 /\ Len(u) = 1 /\ t[1] = a /\ u[1] = b
  OBVIOUS
<1> HIDE DEF S, t, u
<1>4. /\ Len(t \o u) = Len(t) + Len(u)
      /\ \A i \in 1..Len(t) : (t \o u)[i] = t[i]
      /\ \A i \in 1..Len(u) : (t \o u)[Len(t) + i] = u[i]
  BY <1>3, Joined
<1>5. \A m, n : m = 1 /\ n = 1 => m + n = 2 /\ m + 1 = 2 /\ 1 \in 1..m /\ 1 \in 1..n
  OBVIOUS
<1>6. Len(t \o u) = 2 /\ (t \o u)[1] = a /\ (t \o u)[2] = b
  BY <1>3, <1>4, <1>5
<1>7. Stage(cls, again, reqs) \o Stage(cls2, again2, reqs2) = t \o u
  BY <1>2, Zenon DEF t, u
<1> QED
  BY <1>1, <1>6, <1>7

\* The stages of the calls that queries are about.
LEMMA ExactPlans ==
    ASSUME NEW j \in Jobs, NEW v \in 0..MaxVersion
    PROVE  LET plan == Plan[j][v] IN
           /\ Job[j].op = "list_sessions" =>
                 Len(plan) = 1 /\ plan[1].reqs = {SessionsQuery(j)}
           /\ Job[j].op = "list_artifact_keys" =>
                 /\ Len(plan) = 2 /\ plan[1].reqs = {FilesQuery(j, USER_SCOPE_SID)}
                 /\ plan[2].reqs = {FilesQuery(j, Job[j].sid)}
           /\ Job[j].op = "save_artifact" =>
                 Len(plan) = 2 /\ plan[2].reqs = {VersionCreate(j, v)}
           /\ Job[j].op = "create_session" => plan[1].reqs = {SessionCreate(j)}
<1>1. Plan[j][v] = Stages(j, v)
  BY DEF Plan
<1>2. CASE Job[j].op = "list_sessions"
  <2>1. Stages(j, v) = list_sessions(j)
    BY <1>2 DEF Stages
  <2>2. list_sessions(j) = Stage("query", "never", {SessionsQuery(j)})
    BY DEF list_sessions, SessionsQuery
  <2>3. Len(list_sessions(j)) = 1 /\ list_sessions(j)[1].reqs = {SessionsQuery(j)}
    BY <2>2 DEF Stage
  <2> QED
    BY <1>1, <1>2, <2>1, <2>3
<1>3. CASE Job[j].op = "list_artifact_keys"
  <2>1. Stages(j, v) = list_artifact_keys(j)
    BY <1>3 DEF Stages
  <2>2. list_artifact_keys(j) = Stage("query", "never", {FilesQuery(j, USER_SCOPE_SID)})
                                \o Stage("query", "never", {FilesQuery(j, Job[j].sid)})
    BY DEF list_artifact_keys, _filenames_for, FilesQuery
  <2>3. /\ Len(list_artifact_keys(j)) = 2
        /\ list_artifact_keys(j)[1].reqs = {FilesQuery(j, USER_SCOPE_SID)}
        /\ list_artifact_keys(j)[2].reqs = {FilesQuery(j, Job[j].sid)}
    BY <2>2, TwoStages
  <2> QED
    BY <1>1, <1>3, <2>1, <2>3
<1>4. CASE Job[j].op = "save_artifact"
  <2>1. Stages(j, v) = save_artifact(j, v)
    BY <1>4 DEF Stages
  <2>2. save_artifact(j, v) = Stage("operate", "never", {HeadIncrement(j)})
                              \o Stage("write", "never", {VersionCreate(j, v)})
    BY DEF save_artifact, HeadIncrement, VersionCreate
  <2>3. Len(save_artifact(j, v)) = 2 /\ save_artifact(j, v)[2].reqs = {VersionCreate(j, v)}
    BY <2>2, TwoStages
  <2> QED
    BY <1>1, <1>4, <2>1, <2>3
<1>5. CASE Job[j].op = "create_session"
  <2>1. Stages(j, v) = create_session(j)
    BY <1>5 DEF Stages
  <2> QED
    BY <1>1, <1>5, <2>1, CreatePlan
<1> QED
  BY <1>2, <1>3, <1>4, <1>5

ListOps == {"list_sessions", "list_artifact_keys"}
Ensured(j) == Job[j].op \in ListOps /\ Job[j].proc \in Ensures
IndexInv ==
    /\ \A p \in Ensures, s \in Services : <<p, s>> \in up => IndexesOf(s) \subseteq indexes
    /\ \A j \in BegunJobs : <<Job[j].proc, ServiceOf(Job[j].op)>> \in up
    /\ \A j \in Jobs : Ensured(j) => status[j] # "noindex"

LEMMA ServiceFacts ==
    ASSUME NEW j \in Jobs
    PROVE  Job[j].proc \in Processes /\ ServiceOf(Job[j].op) \in Services
<1>1. Job[j].proc \in Processes /\ Job[j].op \in Operations
  BY JobType DEF Calls
<1>2. CASE Job[j].op \in {"save_artifact", "list_artifact_keys"}
  BY <1>1, <1>2, Zenon DEF ServiceOf, Services
<1>3. CASE Job[j].op = "add_events_to_memory"
  BY <1>1, <1>3 DEF ServiceOf, Services
<1>4. CASE Job[j].op \notin {"save_artifact", "list_artifact_keys", "add_events_to_memory"}
  BY <1>1, <1>4 DEF ServiceOf, Services
<1> QED
  BY <1>1, <1>2, <1>3, <1>4

\* A query of a service uses an index that its constructor makes.
LEMMA QueryIndexed ==
    ASSUME IndexInv, NEW j \in BegunJobs, NEW q \in Requests(j), Ensured(j)
    PROVE  Indexed(q)
<1>1. j \in Jobs
  BY DEF BegunJobs
<1>2. \A set, bin, value : LET r == Query(set, bin, value) IN
                           r.place.pk[1] = set /\ r.place.what[1] = bin
  BY DEF Query, Req, Place
<1>3. CASE Job[j].op = "list_sessions"
  <2>1. q = Query("sessions", "app", Job[j].app)
    BY <1>1, <1>3, OneOperation DEF ListReqs, SessionsQuery
  <2>2. ServiceOf(Job[j].op) = "sessions"
    BY <1>3 DEF ServiceOf
  <2>3. IndexesOf("sessions") = ensure_session_indexes
    BY DEF IndexesOf
  <2>4. <<"sessions", "app">> \in ensure_session_indexes
    BY DEF ensure_session_indexes
  <2>5. <<"sessions", "app">> \in indexes
    BY <1>1, <2>2, <2>3, <2>4, ServiceFacts DEF IndexInv, Ensured
  <2> QED
    BY <1>2, <2>1, <2>5 DEF Indexed
<1>4. CASE Job[j].op = "list_artifact_keys"
  <2>1. \E value : q = Query("artifacts", "aus", value)
    BY <1>1, <1>4, OneOperation DEF FilesReqs, FilesQuery
  <2>2. ServiceOf(Job[j].op) = "artifacts"
    BY <1>4 DEF ServiceOf
  <2>3. IndexesOf("artifacts") = ensure_artifact_indexes
    BY DEF IndexesOf
  <2>4. <<"artifacts", "aus">> \in ensure_artifact_indexes
    BY DEF ensure_artifact_indexes
  <2>5. <<"artifacts", "aus">> \in indexes
    BY <1>1, <2>2, <2>3, <2>4, ServiceFacts DEF IndexInv, Ensured
  <2> QED
    BY <1>2, <2>1, <2>5 DEF Indexed
<1> QED
  BY <1>3, <1>4 DEF ListOps, Ensured


\* A step of another call, or a step of this one.
Idle(w) ==
    /\ status'[w] = status[w] /\ at'[w] = at[w] /\ ver'[w] = ver[w] /\ got'[w] = got[w]
    /\ left'[w] = left[w] /\ before'[w] = before[w]
Turn(w) ==
    \/ Idle(w) \/ Begin(w) \/ Resend(w) \/ Fail(w)
    \/ \E q \in left[w] : Apply(w, q) \/ Answer(w, q) \/ Raise(w, q) \/ Unread(w, q)

LEMMA Turns == ASSUME ControlInv, [Next]_vars, NEW w \in Jobs PROVE Turn(w)
<1>0. /\ status = [i \in Jobs |-> status[i]] /\ at = [i \in Jobs |-> at[i]]
      /\ ver = [i \in Jobs |-> ver[i]] /\ got = [i \in Jobs |-> got[i]]
      /\ before = [i \in Jobs |-> before[i]] /\ left = [i \in Jobs |-> left[i]]
  BY DEF ControlInv, TypeOK, ReqInv
<1>1. CASE UNCHANGED vars
  BY <1>1 DEF vars, call, Turn, Idle
<1>2. ASSUME NEW p \in Processes, NEW s \in Services, Construct(p, s) \/ ConstructFails(p, s)
      PROVE  Turn(w)
  BY <1>2 DEF Construct, ConstructFails, call, Turn, Idle
<1>3. ASSUME NEW j \in Jobs, j # w, Begin(j) PROVE Idle(w)
  <2>1. /\ status' = [status EXCEPT ![j] = "busy"] /\ at' = [at EXCEPT ![j] = 1]
        /\ before' = [before EXCEPT ![j] = {i \in Jobs : status[i] \in Ended}]
        /\ ver' = ver /\ got' = got /\ left' = [left EXCEPT ![j] = Plan[j][0][1].reqs]
    BY <1>3 DEF Begin, End, Send
  <2> QED
    BY <1>0, <1>3, <2>1 DEF Idle
<1>4. ASSUME NEW j \in Jobs, j # w, Resend(j) PROVE Idle(w)
  <2>1. /\ status' = status /\ at' = at /\ before' = before /\ ver' = ver
        /\ got' = [got EXCEPT ![j] = Except(got[j], Now(j).reqs)]
        /\ left' = [left EXCEPT ![j] = Now(j).reqs]
    BY <1>4 DEF Resend, Send
  <2> QED
    BY <1>0, <1>4, <2>1 DEF Idle
<1>5. ASSUME NEW j \in Jobs, j # w, NEW how, End(j, how) PROVE status'[w] = status[w]
  BY <1>0, <1>5 DEF End
<1>6. ASSUME NEW j \in Jobs, j # w, NEW reqs, Send(j, reqs) PROVE left'[w] = left[w]
  BY <1>0, <1>6 DEF Send
<1>7. ASSUME NEW j \in Jobs, j # w, Fail(j) PROVE Idle(w)
  BY <1>5, <1>7, <1>6 DEF Fail, Idle
<1>8. ASSUME NEW j \in Jobs, j # w, NEW q, Raise(j, q) PROVE Idle(w)
  BY <1>5, <1>8, <1>6 DEF Raise, Idle
<1>9. ASSUME NEW j \in Jobs, j # w, Proceed(j)
      PROVE  status'[w] = status[w] /\ at'[w] = at[w] /\ left'[w] = left[w]
  <2>0. left'[w] = left[w]
    BY <1>9, <1>6 DEF Proceed
  <2>1. CASE at[j] = Len(Plan[j][ver'[j]]) \/ EarlyReturn(j, got'[j])
    BY <1>5, <1>9, <2>0, <2>1 DEF Proceed
  <2>2. CASE ~(at[j] = Len(Plan[j][ver'[j]]) \/ EarlyReturn(j, got'[j]))
    <3>1. at' = [at EXCEPT ![j] = at[j] + 1] /\ status' = status
      BY <1>9, <2>2 DEF Proceed
    <3> QED
      BY <1>0, <1>9, <2>0, <3>1
  <2> QED
    BY <2>1, <2>2
<1>10. ASSUME NEW j \in Jobs, j # w, NEW q, Receive(j, q)
      PROVE  ver'[w] = ver[w] /\ got'[w] = got[w]
  <2>1. got' = [got EXCEPT ![j] = Over(got[j], Answered(q))]
    BY <1>10 DEF Receive
  <2>2. got'[w] = got[w]
    BY <1>0, <1>10, <2>1
  <2>3. ver' = ver \/ ver' = [ver EXCEPT ![j] = store[q.place.pk].ver]
    BY <1>10 DEF Receive
  <2>4. ver'[w] = ver[w]
    BY <1>0, <1>10, <2>3
  <2> QED
    BY <2>2, <2>4
<1>11. ASSUME NEW j \in Jobs, j # w, NEW q, Apply(j, q) PROVE Idle(w)
  BY <1>10, <1>11, <1>6 DEF Apply, Idle
<1>12. ASSUME NEW j \in Jobs, j # w, NEW q, Answer(j, q) PROVE Idle(w)
  BY <1>9, <1>10, <1>12 DEF Answer, Idle
<1>13. ASSUME NEW j \in Jobs, j # w, NEW q, Unread(j, q) PROVE Idle(w)
  BY <1>9, <1>13, <1>6 DEF Unread, Idle
<1>14. ASSUME NEW q \in late, ApplyLate(q) PROVE Turn(w)
  BY <1>14 DEF ApplyLate, call, Turn, Idle
<1>15. ASSUME NEW j \in Jobs, Begin(j) \/ Resend(j) \/ Fail(j) PROVE Turn(w)
  BY <1>3, <1>4, <1>7, <1>15 DEF Turn
<1>16. ASSUME NEW j \in Jobs, NEW q \in left[j], Apply(j, q) \/ Answer(j, q) \/ Raise(j, q) \/ Unread(j, q)
       PROVE  Turn(w)
  BY <1>8, <1>11, <1>12, <1>13, <1>16 DEF Turn
<1> QED
  BY <1>1, <1>2, <1>14, <1>15, <1>16 DEF Next

\* How a call moves on.
LEMMA TurnFacts ==
    ASSUME ControlInv, NEW w \in Jobs, Turn(w)
    PROVE  \/ Idle(w)
           \/ Begin(w) /\ status[w] = "start" /\ status'[w] = "busy" /\ at'[w] = 1
           \/ /\ status[w] = "busy" /\ before'[w] = before[w]
              /\ \/ status'[w] = "busy" /\ at'[w] = at[w]
                 \/ status'[w] \in {"failed", "noindex"}
                 \/ \E q \in left[w] : left[w] = {q} /\ Proceed(w) /\ (Answer(w, q) \/ Unread(w, q))
<1>0. /\ status = [i \in Jobs |-> status[i]] /\ at = [i \in Jobs |-> at[i]]
      /\ before = [i \in Jobs |-> before[i]]
  BY DEF ControlInv, TypeOK
<1>1. CASE Begin(w)
  <2>1. status[w] = "start" /\ status' = [status EXCEPT ![w] = "busy"] /\ at' = [at EXCEPT ![w] = 1]
    BY <1>1 DEF Begin, End
  <2> QED
    BY <1>0, <1>1, <2>1
<1>2. CASE Resend(w)
  BY <1>2 DEF Resend
<1>3. CASE Fail(w)
  <2>1. status[w] = "busy" /\ status' = [status EXCEPT ![w] = "failed"] /\ before' = before
    BY <1>3 DEF Fail, End
  <2> QED
    BY <1>0, <2>1
<1>4. ASSUME NEW q \in left[w], Raise(w, q)
      PROVE  status[w] = "busy" /\ status'[w] \in {"failed", "noindex"} /\ before' = before
  <2>1. /\ status[w] = "busy" /\ before' = before
        /\ \/ status' = [status EXCEPT ![w] = "failed"] \/ status' = [status EXCEPT ![w] = "noindex"]
    BY <1>4 DEF Raise, End
  <2> QED
    BY <1>0, <2>1
<1>5. ASSUME NEW q \in left[w], Apply(w, q)
      PROVE  status[w] = "busy" /\ status' = status /\ at' = at /\ before' = before
  BY <1>5 DEF Apply
<1>6. ASSUME NEW q \in left[w], Answer(w, q)
      PROVE  status[w] = "busy" /\ left[w] = {q} /\ Proceed(w) /\ before' = before
  BY <1>6 DEF Answer
<1>7. ASSUME NEW q \in left[w], Unread(w, q)
      PROVE  /\ status[w] = "busy" /\ before' = before
             /\ (left[w] = {q} /\ Proceed(w)) \/ (status' = status /\ at' = at)
  BY <1>7 DEF Unread
<1> QED
  BY <1>1, <1>2, <1>3, <1>4, <1>5, <1>6, <1>7 DEF Turn


LEMMA IndexInit == Init => IndexInv
<1> SUFFICES ASSUME Init PROVE IndexInv
  OBVIOUS
<1>1. \A j \in Jobs : status[j] \in {"absent", "start"}
  BY DEF Init
<1>2. up = {}
  BY DEF Init
<1> QED
  BY <1>1, <1>2 DEF IndexInv, BegunJobs, Begun

\* Services stay up, and their indexes stay.
LEMMA IndexStep ==
    ASSUME IndexInv, [Next]_vars
    PROVE  /\ up \subseteq up' /\ indexes \subseteq indexes'
           /\ \A p \in Ensures, s \in Services : <<p, s>> \in up' => IndexesOf(s) \subseteq indexes'
<1> DEFINE Goal == /\ up \subseteq up' /\ indexes \subseteq indexes'
                   /\ \A p \in Ensures, s \in Services :
                         <<p, s>> \in up' => IndexesOf(s) \subseteq indexes'
<1>0. \A p \in Ensures, s \in Services : <<p, s>> \in up => IndexesOf(s) \subseteq indexes
  BY DEF IndexInv
<1>1. ASSUME UNCHANGED svc PROVE Goal
  BY <1>0, <1>1 DEF svc
<1>2. CASE UNCHANGED vars
  BY <1>1, <1>2 DEF vars
<1>3. ASSUME NEW p \in Processes, NEW s \in Services, Construct(p, s) PROVE Goal
  BY <1>0, <1>3 DEF Construct, IndexesMade
<1>4. ASSUME NEW p \in Processes, NEW s \in Services, ConstructFails(p, s) PROVE Goal
  BY <1>0, <1>4 DEF ConstructFails
<1>5. ASSUME NEW j \in Jobs, Begin(j) \/ Resend(j) \/ Fail(j) PROVE Goal
  BY <1>1, <1>5 DEF Begin, Resend, Fail
<1>6. ASSUME NEW j \in Jobs, NEW q \in left[j], Apply(j, q) \/ Answer(j, q) \/ Raise(j, q) \/ Unread(j, q)
      PROVE  Goal
  BY <1>1, <1>6 DEF Apply, Answer, Raise, Unread
<1>7. ASSUME NEW q \in late, ApplyLate(q) PROVE Goal
  BY <1>1, <1>7 DEF ApplyLate
<1> QED
  BY <1>2, <1>3, <1>4, <1>5, <1>6, <1>7 DEF Next

LEMMA IndexNext == ASSUME ControlInv, IndexInv, [Next]_vars PROVE IndexInv'
<1>1. /\ up \subseteq up' /\ indexes \subseteq indexes'
      /\ \A p \in Ensures, s \in Services : <<p, s>> \in up' => IndexesOf(s) \subseteq indexes'
  BY IndexStep
<1>2. ASSUME NEW j \in Jobs
      PROVE  /\ Begun(j)' => <<Job[j].proc, ServiceOf(Job[j].op)>> \in up'
             /\ Ensured(j) => status'[j] # "noindex"
  <2>0. Turn(j)
    BY Turns
  <2>1. /\ Begun(j) => <<Job[j].proc, ServiceOf(Job[j].op)>> \in up
        /\ Ensured(j) => status[j] # "noindex"
    BY DEF IndexInv, BegunJobs
  <2>2. CASE Idle(j)
    BY <1>1, <2>1, <2>2 DEF Idle, Begun
  <2>3. CASE Begin(j) /\ status'[j] = "busy"
    BY <1>1, <2>3 DEF Begin
  <2>4. CASE status[j] = "busy"
    <3>1. Begun(j)
      BY <2>4 DEF Begun
    <3>2. ASSUME Ensured(j) PROVE status'[j] # "noindex"
      <4>1. j \in BegunJobs
        BY <3>1 DEF BegunJobs
      <4>2. \A q \in left[j] : Indexed(q)
        BY <3>2, <4>1, LeftFacts, QueryIndexed
      <4>3. ASSUME NEW q \in left[j], Raise(j, q) PROVE status'[j] # "noindex"
        <5>1. status' = [status EXCEPT ![j] = "failed"]
          BY <4>2, <4>3 DEF Raise, End
        <5>2. status \in [Jobs -> {"absent", "start", "busy"} \cup Ended]
          BY DEF ControlInv, TypeOK
        <5> QED
          BY <5>1, <5>2
      <4>4. CASE Fail(j)
        <5>1. status' = [status EXCEPT ![j] = "failed"]
          BY <4>4 DEF Fail, End
        <5>2. status \in [Jobs -> {"absent", "start", "busy"} \cup Ended]
          BY DEF ControlInv, TypeOK
        <5> QED
          BY <5>1, <5>2
      <4>5. CASE Resend(j) \/ \E q \in left[j] : Apply(j, q)
        BY <2>4, <4>5 DEF Resend, Apply
      <4>6. ASSUME Proceed(j) PROVE status'[j] # "noindex"
        <5>1. status' = status \/ status' = [status EXCEPT ![j] = "done"]
          BY <4>6 DEF Proceed, End
        <5>2. status \in [Jobs -> {"absent", "start", "busy"} \cup Ended]
          BY DEF ControlInv, TypeOK
        <5> QED
          BY <2>4, <5>1, <5>2
      <4>7. CASE \E q \in left[j] : Answer(j, q) \/ Unread(j, q)
        BY <2>4, <4>6, <4>7 DEF Answer, Unread
      <4> QED
        BY <2>0, <2>2, <2>4, <3>2, <4>3, <4>4, <4>5, <4>7 DEF Turn, Begin
    <3> QED
      BY <1>1, <2>1, <3>1, <3>2
  <2> QED
    BY <2>0, <2>2, <2>3, <2>4, TurnFacts
<1> QED
  BY <1>1, <1>2 DEF IndexInv, BegunJobs

LEMMA IndexAlways == Spec => []IndexInv
  BY IndexInit, IndexNext, ControlAlways, PTL DEF Spec


-----------------------------------------------------------------------------
(* Where the records that a query finds come from.                         *)

\* Call w stored record p, and a list takes w's names from its bins.
Origin(w, p, bins) ==
    \/ /\ Job[w].op = "create_session" /\ p = SessionPlace(Job[w]).pk
       /\ {"app", "uid", "sid"} \subseteq DOMAIN bins
       /\ bins["app"] = Job[w].app /\ bins["uid"] = Job[w].user /\ bins["sid"] = Job[w].sid
    \/ /\ Job[w].op = "save_artifact"
       /\ \E n \in 0..MaxVersion : p = ArtifactPlace(Job[w], n).pk
       /\ {"aus", "fname"} \subseteq DOMAIN bins /\ bins["fname"] = Job[w].file
       /\ bins["aus"] = scope_tuple(Job[w].app, Job[w].user, ScopeOf(Job[w]))

\* Record p has the bin that a query of its set looks at.
Tagged(p, bins) ==
    (p[1] = "sessions" /\ "app" \in DOMAIN bins) \/ (p[1] = "artifacts" /\ "aus" \in DOMAIN bins)
Traced(p, bins, B) == Tagged(p, bins) => \E w \in B : Origin(w, p, bins)

TraceInv ==
    /\ \A p \in DOMAIN store : Traced(p, store[p], BegunJobs)
    /\ \A j \in Jobs : \A p \in DOMAIN got[j] :
          /\ Traced(p, got[j][p], BegunJobs)
          /\ \E q \in Requests(j) : Gives(q, p, got[j][p])

LEMMA CreateTraced ==
    ASSUME NEW j \in Jobs, NEW q, Creates(j, q)
    PROVE  Origin(j, q.place.pk, q.bins)
<1>1. /\ q.bins["app"] = Job[j].app /\ q.bins["uid"] = Job[j].user /\ q.bins["sid"] = Job[j].sid
      /\ q.place = SessionPlace(Job[j]) /\ Job[j].op = "create_session"
  BY DEF Creates, SessionCreate, Req
<1>2. {"app", "uid", "sid"} \subseteq DOMAIN q.bins
  BY RequestBins
<1> QED
  BY <1>1, <1>2 DEF Origin

LEMMA VersionTraced ==
    ASSUME NEW j \in Jobs, NEW q, Versions(j, q)
    PROVE  Origin(j, q.place.pk, q.bins)
<1>1. PICK n \in 0..MaxVersion : q = VersionCreate(j, n)
  BY DEF Versions
<1>2. /\ q.bins["aus"] = scope_tuple(Job[j].app, Job[j].user, ScopeOf(Job[j]))
      /\ q.bins["fname"] = Job[j].file /\ q.place = ArtifactPlace(Job[j], n)
  BY <1>1 DEF VersionCreate, Req
<1>3. {"aus", "fname"} \subseteq DOMAIN q.bins
  BY RequestBins
<1>4. Job[j].op = "save_artifact"
  BY DEF Versions
<1> QED
  BY <1>2, <1>3, <1>4 DEF Origin

\* Writes keep clear of the bins that queries look at, but for rows of memory.
LEMMA WriteBins ==
    ASSUME NEW j \in Jobs, NEW q \in Requests(j), q.do = "write"
    PROVE  \/ q.place.pk[1] = "memory"
           \/ \A b \in {"app", "uid", "sid", "aus", "fname"} : b \notin DOMAIN q.bins
<1>1. Updates(j, q) \/ Lists(j, q) \/ Events(j, q) \/ Rows(j, q) \/ Posts(j, q)
  BY Storing, RequestParts DEF Stores
<1>2. CASE Updates(j, q) \/ Lists(j, q) \/ Events(j, q)
  BY <1>2, RequestBins
<1>3. CASE Rows(j, q) \/ Posts(j, q)
  BY <1>3, RequestParts, PlaceSets
<1> QED
  BY <1>1, <1>2, <1>3

\* A record whose bins of that kind are the old ones has the old origin.
LEMMA TracedSame ==
    ASSUME NEW p, NEW old, NEW new, NEW B, Traced(p, old, B),
           \A b \in {"app", "uid", "sid", "aus", "fname"} :
              /\ b \in DOMAIN new <=> b \in DOMAIN old
              /\ b \in DOMAIN old => new[b] = old[b]
    PROVE  Traced(p, new, B)
<1> SUFFICES ASSUME Tagged(p, new) PROVE \E w \in B : Origin(w, p, new)
  BY DEF Traced
<1>1. Tagged(p, old)
  BY DEF Tagged
<1>2. PICK w \in B : Origin(w, p, old)
  BY <1>1 DEF Traced
<1>3. Origin(w, p, new)
  BY <1>2 DEF Origin
<1> QED
  BY <1>3

LEMMA BecomesTraced ==
    ASSUME NEW j \in Jobs, NEW q \in Requests(j), NEW bins, NEW B, j \in B,
           Becomes(q, q.place.pk, bins),
           q.place.pk \in DOMAIN store => Traced(q.place.pk, store[q.place.pk], B)
    PROVE  Traced(q.place.pk, bins, B)
<1> DEFINE pk == q.place.pk
<1>1. CASE pk \in DOMAIN store /\ bins = store[pk]
  BY <1>1
<1>2. CASE q.do = "create" /\ bins = q.bins
  <2>1. Creates(j, q) \/ Versions(j, q)
    BY <1>2, Storing, RequestParts DEF Stores
  <2>2. Origin(j, pk, bins)
    BY <1>2, <2>1, CreateTraced, VersionTraced
  <2> QED
    BY <2>2 DEF Traced
<1>3. CASE q.do = "write" /\ bins = Merged(Bins(pk), q.bins)
  <2>1. CASE pk[1] = "memory"
    BY <2>1 DEF Traced, Tagged
  <2>2. CASE \A b \in {"app", "uid", "sid", "aus", "fname"} : b \notin DOMAIN q.bins
    <3>1. DOMAIN NoBins = {}
      BY DEF NoBins
    <3>2. Traced(pk, Bins(pk), B)
      BY <3>1 DEF Bins, Traced, Tagged
    <3>3. DOMAIN bins = DOMAIN Bins(pk) \cup DOMAIN q.bins
      BY <1>3, MergedBins
    <3>4. \A b \in {"app", "uid", "sid", "aus", "fname"} : b \in DOMAIN Bins(pk) => bins[b] = Bins(pk)[b]
      BY <1>3, <2>2, MergedOld
    <3> QED
      BY <2>2, <3>2, <3>3, <3>4, TracedSame
  <2> QED
    BY <1>3, <2>1, <2>2, WriteBins
<1>4. CASE q.do = "increment" /\ bins =
          [ver |-> (IF pk \in DOMAIN store THEN store[pk].ver ELSE 0) + q.bins.ver]
  <2>1. DOMAIN bins = {"ver"}
    BY <1>4
  <2> QED
    BY <2>1 DEF Traced, Tagged
<1>5. CASE q.do = "unlist" /\ pk \in DOMAIN store /\ bins = Unlisted(store[pk], q.bins.sman)
  <2>1. DOMAIN bins = DOMAIN store[pk]
    BY <1>5, UnlistedBins
  <2>2. \A b \in {"app", "uid", "sid", "aus", "fname"} : b \in DOMAIN store[pk] => bins[b] = store[pk][b]
    BY <1>5, UnlistedOther
  <2> QED
    BY <1>5, <2>1, <2>2, TracedSame
<1> QED
  BY <1>1, <1>2, <1>3, <1>4, <1>5 DEF Becomes

LEMMA StoreTraced ==
    ASSUME NEW j \in Jobs, NEW q \in Requests(j), NEW B, j \in B,
           \A p \in DOMAIN store : Traced(p, store[p], B)
    PROVE  \A p \in DOMAIN After(q) : Traced(p, After(q)[p], B)
<1>1. Effect(q, q.place.pk, After(q))
  BY RequestFacts, AfterFacts
<1>2. ASSUME NEW p \in DOMAIN After(q), p # q.place.pk PROVE Traced(p, After(q)[p], B)
  BY <1>1, <1>2 DEF Effect
<1>3. ASSUME q.place.pk \in DOMAIN After(q) PROVE Traced(q.place.pk, After(q)[q.place.pk], B)
  <2>1. Becomes(q, q.place.pk, After(q)[q.place.pk])
    BY <1>1, <1>3 DEF Effect
  <2> QED
    BY <2>1, BecomesTraced
<1> QED
  BY <1>2, <1>3

\* The request that a step serves is one of a call that has begun.
ServesBegun ==
    store' = store \/ \E j \in BegunJobs : \E q \in Requests(j) : store' = After(q)

LEMMA BegunServes == ASSUME ControlInv, StateInv, [Next]_vars PROVE ServesBegun
<1>1. ASSUME NEW j \in Jobs, NEW q \in Requests(j), Due(j, q), store' = After(q) PROVE ServesBegun
  <2>1. CASE q \in left[j]
    BY <1>1, <2>1, LeftFacts DEF BegunJobs, Begun, ServesBegun
  <2>2. CASE q \in late
    BY <1>1, <2>2 DEF StateInv, ServesBegun
  <2> QED
    BY <1>1, <2>1, <2>2 DEF Due
<1> QED
  BY <1>1, NextServes DEF Serves, ServesBegun

LEMMA TracedMore ==
    ASSUME NEW p, NEW bins, NEW B, NEW C, Traced(p, bins, B), B \subseteq C
    PROVE  Traced(p, bins, C)
  BY DEF Traced

LEMMA TraceInit == Init => TraceInv
<1>1. DOMAIN NoBins = {}
  BY DEF NoBins
<1> QED
  BY <1>1 DEF Init, TraceInv

LEMMA TraceNext == ASSUME ControlInv, StateInv, TraceInv, [Next]_vars PROVE TraceInv'
<1> DEFINE B == BegunJobs
           C == BegunJobs'
<1>0. B \subseteq C /\ GotStep /\ ServesBegun
  BY BegunNext, GotNext, BegunServes
<1>1. \A p \in DOMAIN store : Traced(p, store[p], B)
  BY DEF TraceInv
<1>2. ASSUME NEW p \in DOMAIN store' PROVE Traced(p, store'[p], C)
  <2>1. CASE store' = store
    BY <1>0, <1>1, <1>2, <2>1, TracedMore
  <2>2. ASSUME NEW j \in B, NEW q \in Requests(j), store' = After(q)
        PROVE  Traced(p, store'[p], C)
    <3>1. j \in Jobs
      BY DEF BegunJobs
    <3>2. \A r \in DOMAIN After(q) : Traced(r, After(q)[r], B)
      BY <1>1, <3>1, StoreTraced
    <3> QED
      BY <1>0, <1>2, <2>2, <3>2, TracedMore
  <2> QED
    BY <1>0, <2>1, <2>2 DEF ServesBegun
<1>3. ASSUME NEW j \in Jobs, NEW p \in DOMAIN got'[j]
      PROVE  Traced(p, got'[j][p], C) /\ \E q \in Requests(j) : Gives(q, p, got'[j][p])
  <2>1. Traced(p, got'[j][p], B) /\ \E q \in Requests(j) : Gives(q, p, got'[j][p])
    BY <1>0, <1>1, <1>3 DEF GotStep, TraceInv
  <2> QED
    BY <1>0, <2>1, TracedMore
<1> QED
  BY <1>2, <1>3 DEF TraceInv

LEMMA TraceAlways == Spec => []TraceInv
  BY TraceInit, TraceNext, ControlAlways, StateAlways, PTL DEF Spec


-----------------------------------------------------------------------------
(* What queries must find: the records of calls that have returned.        *)

\* No session has the name that stands for the user's own scope.
NoUserSession == \A j \in Jobs : Job[j].sid # USER_SCOPE_SID

LEMMA OwnSession ==
    ASSUME WellNamed, NEW v \in Jobs, NEW w \in Jobs, NEW bins,
           Origin(v, SessionPlace(Job[w]).pk, bins)
    PROVE  /\ {"app", "uid", "sid"} \subseteq DOMAIN bins
           /\ bins["app"] = Job[w].app /\ bins["uid"] = Job[w].user /\ bins["sid"] = Job[w].sid
<1>1. \A n : ArtifactPlace(Job[v], n).pk[1] = "artifacts"
  BY PlaceSets
<1>2. SessionPlace(Job[w]).pk[1] = "sessions"
  BY PlaceSets
<1>3. \A n \in 0..MaxVersion : SessionPlace(Job[w]).pk # ArtifactPlace(Job[v], n).pk
  BY <1>1, <1>2
<1>4. /\ SessionPlace(Job[w]).pk = SessionPlace(Job[v]).pk
      /\ {"app", "uid", "sid"} \subseteq DOMAIN bins
      /\ bins["app"] = Job[v].app /\ bins["uid"] = Job[v].user /\ bins["sid"] = Job[v].sid
  BY <1>3 DEF Origin
<1>5. SessionPlace(Job[w]) = SessionPlace(Job[v])
  BY <1>4, KeysUnique DEF SamePlace, Places
<1>6. SessionPlace(Job[w]).what = SessionPlace(Job[v]).what
  BY <1>5
<1>7. Job[w].app = Job[v].app /\ Job[w].user = Job[v].user /\ Job[w].sid = Job[v].sid
  BY <1>6 DEF SessionPlace, Place
<1> QED
  BY <1>4, <1>7

LEMMA OwnFile ==
    ASSUME WellNamed, NEW v \in Jobs, NEW w \in Jobs, NEW bins, NEW n \in 0..MaxVersion,
           Origin(v, ArtifactPlace(Job[w], n).pk, bins)
    PROVE  /\ {"aus", "fname"} \subseteq DOMAIN bins /\ bins["fname"] = Job[w].file
           /\ bins["aus"] = scope_tuple(Job[w].app, Job[w].user, ScopeOf(Job[w]))
<1>1. ArtifactPlace(Job[w], n).pk[1] = "artifacts" /\ SessionPlace(Job[v]).pk[1] = "sessions"
  BY PlaceSets
<1>2. ArtifactPlace(Job[w], n).pk # SessionPlace(Job[v]).pk
  BY <1>1
<1>3. /\ \E m \in 0..MaxVersion : ArtifactPlace(Job[w], n).pk = ArtifactPlace(Job[v], m).pk
      /\ {"aus", "fname"} \subseteq DOMAIN bins /\ bins["fname"] = Job[v].file
      /\ bins["aus"] = scope_tuple(Job[v].app, Job[v].user, ScopeOf(Job[v]))
  BY <1>2 DEF Origin
<1>4. PICK m \in 0..MaxVersion : ArtifactPlace(Job[w], n).pk = ArtifactPlace(Job[v], m).pk
  BY <1>3
<1>5. ArtifactPlace(Job[w], n) \in Places(w) /\ ArtifactPlace(Job[v], m) \in Places(v)
  BY DEF Places
<1>6. ArtifactPlace(Job[w], n) = ArtifactPlace(Job[v], m)
  BY <1>4, <1>5, KeysUnique DEF SamePlace
<1>7. ArtifactPlace(Job[w], n).what = ArtifactPlace(Job[v], m).what
  BY <1>6
<1>8. /\ Job[w].app = Job[v].app /\ Job[w].user = Job[v].user
      /\ ScopeOf(Job[w]) = ScopeOf(Job[v]) /\ Job[w].file = Job[v].file
  BY <1>7 DEF ArtifactPlace, Place
<1> QED
  BY <1>3, <1>8

LEMMA ScopesDiffer ==
    ASSUME NEW a, NEW b, NEW c, NEW d, NEW e, NEW f, Single(a), Single(b), Single(c),
           Single(d), Single(e), Single(f), scope_tuple(a, b, c) = scope_tuple(d, e, f)
    PROVE  a = d /\ b = e /\ c = f
<1> DEFINE k == scope_tuple(a, b, c)
           l == scope_tuple(d, e, f)
<1>1. Triple(k, a, b, c)
  BY TripleKey, Zenon DEF scope_tuple
<1>2. Triple(l, d, e, f)
  BY TripleKey, Zenon DEF scope_tuple
<1>3. k = l
  OBVIOUS
<1> HIDE DEF k, l
<1>4. a[1] = d[1] /\ b[1] = e[1] /\ c[1] = f[1]
  BY <1>1, <1>2, <1>3 DEF Triple
<1> QED
  BY <1>4, SingleName


\* The records that a list can find.
Findable(w, x) ==
    x = SessionPlace(Job[w]) \/ \E n \in 0..MaxVersion : x = ArtifactPlace(Job[w], n)

\* Only the deletion of its session takes such a record away.
LEMMA RemovesNone ==
    ASSUME WellNamed, NEW j \in BegunJobs, NEW q \in Requests(j), NEW w \in Jobs, ~Deleted(w),
           NEW x, Findable(w, x), q.do = "remove"
    PROVE  x.pk # q.place.pk
<1>0. j \in Jobs /\ Begun(j)
  BY DEF BegunJobs
<1>1. Removes(j, q)
  BY <1>0, Kinds, RequestParts
<1>2. Job[j].op = "delete_session" /\ q.place.pk[1] = "sessions"
  BY <1>0, <1>1, RequestParts DEF Removes
<1>3. q \in DeleteReqs(j)
  BY <1>0, <1>2, OneOperation
<1>4. q.place \in {SegmentPlace(Job[j], 0), SegmentPlace(Job[j], 1), SessionPlace(Job[j])}
  <2>1. \A y : Read(y).do = "read" /\ Remove(y).place = y
    BY DEF Read, Remove, Req
  <2>2. ManifestRemove(j).do = "unlist"
    BY DEF ManifestRemove, Req
  <2> QED
    BY <1>3, <2>1, <2>2 DEF DeleteReqs
<1>5. CASE x = SessionPlace(Job[w])
  <2>1. x.pk # SegmentPlace(Job[j], 0).pk /\ x.pk # SegmentPlace(Job[j], 1).pk
    BY <1>0, <1>5, SessionsUnique
  <2>2. ASSUME x.pk = SessionPlace(Job[j]).pk PROVE FALSE
    <3>1. SessionPlace(Job[w]) = SessionPlace(Job[j])
      BY <1>0, <1>5, <2>2, KeysUnique DEF SamePlace, Places
    <3>2. SessionPlace(Job[w]).what = SessionPlace(Job[j]).what
      BY <3>1
    <3>3. Job[w].app = Job[j].app /\ Job[w].user = Job[j].user /\ Job[w].sid = Job[j].sid
      BY <3>2 DEF SessionPlace, Place
    <3>4. Deleted(w)
      BY <1>0, <1>2, <3>3 DEF Deleted, SameSession, Begun
    <3> QED
      BY <3>4
  <2> QED
    BY <1>4, <2>1, <2>2
<1>6. CASE \E n \in 0..MaxVersion : x = ArtifactPlace(Job[w], n)
  <2>1. x.pk[1] = "artifacts"
    BY <1>6, PlaceSets
  <2> QED
    BY <1>2, <2>1
<1> QED
  BY <1>5, <1>6 DEF Findable

LEMMA CountsNone ==
    ASSUME WellNamed, NEW j \in Jobs, NEW q \in Requests(j), NEW w \in Jobs,
           NEW x, Findable(w, x), q.do = "increment"
    PROVE  x.pk # q.place.pk
<1>1. q.place = HeadPlace(Job[j])
  BY RequestFacts, RequestParts
<1>2. CASE x = SessionPlace(Job[w])
  <2>1. x.pk[1] = "sessions" /\ q.place.pk[1] = "artifacts"
    BY <1>1, <1>2, PlaceSets
  <2> QED
    BY <2>1
<1>3. ASSUME NEW n \in 0..MaxVersion, x = ArtifactPlace(Job[w], n) PROVE x.pk # q.place.pk
  BY <1>1, <1>3, FilesUnique
<1> QED
  BY <1>2, <1>3 DEF Findable

LEMMA StoreKeeps ==
    ASSUME WellNamed, NEW j \in BegunJobs, NEW q \in Requests(j), NEW w \in Jobs, ~Deleted(w),
           NEW x, Findable(w, x), x.pk \in DOMAIN store, Tagged(x.pk, store[x.pk])
    PROVE  x.pk \in DOMAIN After(q) /\ Tagged(x.pk, After(q)[x.pk])
<1> DEFINE p == x.pk
           new == After(q)[p]
<1>0. j \in Jobs
  BY DEF BegunJobs
<1>1. Effect(q, q.place.pk, After(q))
  BY <1>0, RequestFacts, AfterFacts
<1>2. CASE p # q.place.pk
  BY <1>1, <1>2 DEF Effect
<1>3. CASE p = q.place.pk
  <2>1. q.do # "remove" /\ q.do # "increment"
    BY <1>0, <1>3, RemovesNone, CountsNone
  <2>2. p \in DOMAIN After(q) /\ Becomes(q, p, new)
    BY <1>1, <1>3, <2>1 DEF Effect
  <2>3. DOMAIN store[p] \subseteq DOMAIN new
    <3>1. CASE new = store[p]
      BY <3>1
    <3>2. CASE new = Merged(Bins(p), q.bins)
      <4>1. DOMAIN new = DOMAIN Bins(p) \cup DOMAIN q.bins
        BY <3>2, MergedBins
      <4> QED
        BY <4>1 DEF Bins
    <3>3. CASE new = Unlisted(store[p], q.bins.sman)
      BY <3>3, UnlistedBins
    <3> QED
      BY <2>1, <2>2, <3>1, <3>2, <3>3 DEF Becomes
  <2> QED
    BY <2>2, <2>3 DEF Tagged
<1> QED
  BY <1>2, <1>3


\* The record of a call that stores one for lists to find, and when it has.
RecordOf(w) ==
    IF Job[w].op = "create_session" THEN SessionPlace(Job[w]) ELSE ArtifactPlace(Job[w], ver[w])
Stored(w) ==
    /\ Job[w].op \in {"create_session", "save_artifact"}
    /\ \/ status[w] = "done"
       \/ Job[w].op = "create_session" /\ status[w] = "busy" /\ at[w] # 1
Held(x) == x.pk \in DOMAIN store /\ Tagged(x.pk, store[x.pk])
KeptInv == \A w \in Jobs : Stored(w) /\ ~Deleted(w) => Held(RecordOf(w))

LEMMA RecordFindable == ASSUME ControlInv, NEW w \in Jobs PROVE Findable(w, RecordOf(w))
<1>1. ver[w] \in 0..MaxVersion
  BY DEF ControlInv, TypeOK
<1> QED
  BY <1>1 DEF RecordOf, Findable

LEMMA DeletedNext == ASSUME ControlInv, [Next]_vars, NEW w \in Jobs, Deleted(w) PROVE Deleted(w)'
<1>1. PICK d \in Jobs : /\ Job[d].op = "delete_session" /\ SameSession(d, w)
                        /\ status[d] \notin {"absent", "start"}
  BY DEF Deleted
<1>2. d \in BegunJobs
  BY <1>1 DEF BegunJobs, Begun
<1>3. status'[d] \notin {"absent", "start"}
  BY <1>2, BegunNext DEF BegunJobs, Begun
<1> QED
  BY <1>1, <1>3 DEF Deleted, SameSession

LEMMA HeldNext ==
    ASSUME WellNamed, ControlInv, StateInv, [Next]_vars, NEW w \in Jobs, ~Deleted(w),
           NEW x, Findable(w, x), Held(x)
    PROVE  x.pk \in DOMAIN store' /\ Tagged(x.pk, store'[x.pk])
<1>1. CASE store' = store
  BY <1>1 DEF Held
<1>2. ASSUME NEW j \in BegunJobs, NEW q \in Requests(j), store' = After(q)
      PROVE  x.pk \in DOMAIN store' /\ Tagged(x.pk, store'[x.pk])
  <2>1. x.pk \in DOMAIN After(q) /\ Tagged(x.pk, After(q)[x.pk])
    BY StoreKeeps DEF Held
  <2> QED
    BY <1>2, <2>1
<1> QED
  BY <1>1, <1>2, BegunServes DEF ServesBegun

\* A create that is not refused puts its record.
LEMMA Created ==
    ASSUME NEW q, q.do = "create", ~Refused(q)
    PROVE  q.place.pk \in DOMAIN After(q) /\ After(q)[q.place.pk] = q.bins
<1>1. Effect(q, q.place.pk, After(q))
  BY AfterFacts DEF Asked
<1>2. q.place.pk \in DOMAIN After(q) /\ Becomes(q, q.place.pk, After(q)[q.place.pk])
  BY <1>1 DEF Effect
<1> QED
  BY <1>2 DEF Becomes, Refused

LEMMA SessionStored ==
    ASSUME ControlInv, NEW w \in Jobs, Job[w].op = "create_session", status[w] = "busy",
           at[w] = 1, NEW q \in left[w], Answer(w, q) \/ Unread(w, q)
    PROVE  /\ SessionPlace(Job[w]).pk \in DOMAIN store'
           /\ Tagged(SessionPlace(Job[w]).pk, store'[SessionPlace(Job[w]).pk])
<1>1. ver[w] \in 0..MaxVersion /\ q \in Now(w).reqs
  BY NowFacts
<1>2. q = SessionCreate(w)
  BY <1>1, ExactPlans DEF Now
<1>3. Creates(w, q)
  BY <1>2 DEF Creates
<1>4. q.do = "create" /\ q.place = SessionPlace(Job[w])
  BY <1>3, RequestParts
<1>5. store' = After(q) /\ ~Refused(q)
  BY <1>4 DEF Answer, Unread
<1>6. q.place.pk \in DOMAIN store' /\ store'[q.place.pk] = q.bins
  BY <1>4, <1>5, Created
<1>7. "app" \in DOMAIN q.bins
  BY <1>3, RequestBins
<1> QED
  BY <1>4, <1>6, <1>7, PlaceSets DEF Tagged

LEMMA VersionStored ==
    ASSUME ControlInv, NEW w \in Jobs, Job[w].op = "save_artifact", status[w] = "busy",
           NEW q \in left[w], Answer(w, q) \/ Unread(w, q), left[w] = {q}, Proceed(w),
           status'[w] = "done"
    PROVE  /\ ver'[w] = ver[w] /\ ArtifactPlace(Job[w], ver[w]).pk \in DOMAIN store'
           /\ Tagged(ArtifactPlace(Job[w], ver[w]).pk, store'[ArtifactPlace(Job[w], ver[w]).pk])
<1>1. ver[w] \in 0..MaxVersion /\ q \in Now(w).reqs
  BY NowFacts
<1>2. ver'[w] \in 0..MaxVersion
  <2>1. CASE Unread(w, q)
    BY <1>1, <2>1 DEF Unread
  <2>2. CASE Answer(w, q)
    BY <2>2, ReceiveFacts DEF Answer
  <2> QED
    BY <2>1, <2>2
<1>3. at[w] = 2
  <2>1. ~EarlyReturn(w, got'[w])
    BY DEF EarlyReturn
  <2>2. at[w] = Len(Plan[w][ver'[w]])
    BY <2>1 DEF Proceed
  <2> QED
    BY <1>2, <2>2, ExactPlans
<1>4. q = VersionCreate(w, ver[w])
  BY <1>1, <1>3, ExactPlans DEF Now
<1>5. Versions(w, q)
  BY <1>1, <1>4 DEF Versions
<1>6. q.do = "create"
  BY <1>5, RequestParts
<1>7. q.place = ArtifactPlace(Job[w], ver[w])
  BY <1>4 DEF VersionCreate, Req
<1>8. store' = After(q) /\ ~Refused(q) /\ ver' = ver
  BY <1>6 DEF Answer, Unread, Receive
<1>9. q.place.pk \in DOMAIN store' /\ store'[q.place.pk] = q.bins
  BY <1>6, <1>8, Created
<1>10. "aus" \in DOMAIN q.bins
  BY <1>5, RequestBins
<1> QED
  BY <1>7, <1>8, <1>9, <1>10, PlaceSets DEF Tagged


LEMMA KeptInit == Init => KeptInv
<1> SUFFICES ASSUME Init PROVE KeptInv
  OBVIOUS
<1>1. \A j \in Jobs : status[j] \in {"absent", "start"}
  BY DEF Init
<1> QED
  BY <1>1 DEF KeptInv, Stored

LEMMA KeptNext ==
    ASSUME WellNamed, ControlInv, StateInv, KeptInv, [Next]_vars
    PROVE  KeptInv'
<1> SUFFICES ASSUME NEW w \in Jobs, Stored(w)', ~(Deleted(w)') PROVE Held(RecordOf(w))'
  BY DEF KeptInv
<1>0. ~Deleted(w)
  BY DeletedNext
<1>1. ASSUME Stored(w), RecordOf(w)' = RecordOf(w) PROVE Held(RecordOf(w))'
  <2>1. Held(RecordOf(w))
    BY <1>0, <1>1 DEF KeptInv
  <2>2. LET x == RecordOf(w) IN x.pk \in DOMAIN store' /\ Tagged(x.pk, store'[x.pk])
    BY <1>0, <2>1, RecordFindable, HeldNext
  <2> QED
    BY <1>1, <2>2 DEF Held
<1>2. CASE Idle(w)
  <2>1. Stored(w) /\ RecordOf(w)' = RecordOf(w)
    BY <1>2 DEF Idle, Stored, RecordOf
  <2> QED
    BY <1>1, <2>1
<1>3. CASE Begin(w) /\ status'[w] = "busy" /\ at'[w] = 1
  BY <1>3 DEF Stored
<1>4. CASE status[w] = "busy" /\ status'[w] = "busy" /\ at'[w] = at[w]
  <2>1. Stored(w) /\ RecordOf(w)' = RecordOf(w)
    BY <1>4 DEF Stored, RecordOf
  <2> QED
    BY <1>1, <2>1
<1>5. CASE status'[w] \in {"failed", "noindex"}
  BY <1>5 DEF Stored
<1>6. ASSUME NEW q \in left[w], left[w] = {q}, Proceed(w), Answer(w, q) \/ Unread(w, q),
             status[w] = "busy"
      PROVE  Held(RecordOf(w))'
  <2>1. CASE Job[w].op = "create_session" /\ at[w] = 1
    <3>1. RecordOf(w)' = SessionPlace(Job[w])
      BY <2>1 DEF RecordOf
    <3>2. /\ SessionPlace(Job[w]).pk \in DOMAIN store'
          /\ Tagged(SessionPlace(Job[w]).pk, store'[SessionPlace(Job[w]).pk])
      BY <1>6, <2>1, SessionStored
    <3> QED
      BY <3>1, <3>2 DEF Held
  <2>2. CASE Job[w].op = "create_session" /\ at[w] # 1
    <3>1. Stored(w) /\ RecordOf(w)' = RecordOf(w)
      BY <1>6, <2>2 DEF Stored, RecordOf
    <3> QED
      BY <1>1, <3>1
  <2>3. CASE Job[w].op = "save_artifact"
    <3>1. status'[w] = "done"
      BY <2>3 DEF Stored
    <3>2. /\ ver'[w] = ver[w] /\ ArtifactPlace(Job[w], ver[w]).pk \in DOMAIN store'
          /\ Tagged(ArtifactPlace(Job[w], ver[w]).pk, store'[ArtifactPlace(Job[w], ver[w]).pk])
      BY <1>6, <2>3, <3>1, VersionStored
    <3>3. RecordOf(w)' = ArtifactPlace(Job[w], ver[w])
      BY <2>3, <3>2 DEF RecordOf
    <3> QED
      BY <3>2, <3>3 DEF Held
  <2> QED
    BY <2>1, <2>2, <2>3 DEF Stored
<1> QED
  BY <1>2, <1>3, <1>4, <1>5, <1>6, Turns, TurnFacts

LEMMA KeptAlways == ASSUME WellNamed PROVE Spec => []KeptInv
<1>1. KeptInv /\ ControlInv /\ StateInv /\ [Next]_vars => KeptInv'
  BY KeptNext
<1> QED
  BY <1>1, KeptInit, ControlAlways, StateAlways, PTL DEF Spec


\* A call that has ended stays as it is.
LEMMA EndedStays ==
    ASSUME ControlInv, [Next]_vars, NEW w \in Jobs, status[w] \in Ended
    PROVE  Idle(w)
<1>1. status[w] # "start" /\ status[w] # "busy"
  BY DEF Ended
<1> QED
  BY <1>1, Turns, TurnFacts

\* The bins of a record of w that lists look at are w's.
LEMMA RecordFields ==
    ASSUME WellNamed, ControlInv, NEW w \in Jobs, NEW bins, Tagged(RecordOf(w).pk, bins),
           Traced(RecordOf(w).pk, bins, BegunJobs)
    PROVE  /\ Job[w].op = "create_session" =>
                 /\ {"app", "uid", "sid"} \subseteq DOMAIN bins
                 /\ bins["app"] = Job[w].app /\ bins["uid"] = Job[w].user /\ bins["sid"] = Job[w].sid
           /\ Job[w].op = "save_artifact" =>
                 /\ {"aus", "fname"} \subseteq DOMAIN bins /\ bins["fname"] = Job[w].file
                 /\ bins["aus"] = scope_tuple(Job[w].app, Job[w].user, ScopeOf(Job[w]))
<1>1. PICK v \in BegunJobs : Origin(v, RecordOf(w).pk, bins)
  BY DEF Traced
<1>2. v \in Jobs /\ ver[w] \in 0..MaxVersion
  BY DEF BegunJobs, ControlInv, TypeOK
<1>3. CASE Job[w].op = "create_session"
  <2>1. RecordOf(w) = SessionPlace(Job[w])
    BY <1>3 DEF RecordOf
  <2> QED
    BY <1>1, <1>2, <1>3, <2>1, OwnSession
<1>4. CASE Job[w].op = "save_artifact"
  <2>1. RecordOf(w) = ArtifactPlace(Job[w], ver[w])
    BY <1>4 DEF RecordOf
  <2> QED
    BY <1>1, <1>2, <1>4, <2>1, OwnFile
<1> QED
  BY <1>3, <1>4

LEMMA QueryParts ==
    ASSUME NEW set, NEW bin, NEW value, NEW p, NEW bins
    PROVE  Gives(Query(set, bin, value), p, bins) <=>
              p[1] = set /\ bin \in DOMAIN bins /\ bins[bin] = value
<1> DEFINE q == Query(set, bin, value)
<1>1. q.do = "query" /\ q.place.pk[1] = set /\ q.place.what[1] = bin /\ q.bins.equals = value
  BY DEF Query, Req, Place
<1> HIDE DEF q
<1>2. Gives(q, p, bins) <=> p[1] = set /\ bin \in DOMAIN bins /\ bins[bin] = value
  BY <1>1 DEF Gives
<1> QED
  BY <1>2 DEF q

\* A query of l finds the record of w.
LEMMA FindsSession ==
    ASSUME WellNamed, ControlInv, NEW l \in Jobs, NEW w \in Jobs, NEW bins,
           Tagged(RecordOf(w).pk, bins), Traced(RecordOf(w).pk, bins, BegunJobs),
           Job[w].op = "create_session", Job[l].app = Job[w].app
    PROVE  Gives(SessionsQuery(l), RecordOf(w).pk, bins)
<1>1. RecordOf(w).pk[1] = "sessions"
  BY PlaceSets DEF RecordOf
<1>2. "app" \in DOMAIN bins /\ bins["app"] = Job[l].app
  BY RecordFields
<1> QED
  BY <1>1, <1>2, QueryParts DEF SessionsQuery

LEMMA FindsFile ==
    ASSUME WellNamed, ControlInv, NEW l \in Jobs, NEW w \in Jobs, NEW bins,
           Tagged(RecordOf(w).pk, bins), Traced(RecordOf(w).pk, bins, BegunJobs),
           Job[w].op = "save_artifact", Job[l].app = Job[w].app, Job[l].user = Job[w].user
    PROVE  Gives(FilesQuery(l, ScopeOf(Job[w])), RecordOf(w).pk, bins)
<1>1. RecordOf(w).pk[1] = "artifacts"
  BY PlaceSets DEF RecordOf
<1>2. /\ "aus" \in DOMAIN bins
      /\ bins["aus"] = scope_tuple(Job[l].app, Job[l].user, ScopeOf(Job[w]))
  BY RecordFields
<1> QED
  BY <1>1, <1>2, QueryParts DEF FilesQuery

LEMMA FindsScope ==
    ASSUME WellNamed, NEW l \in Jobs, NEW w \in Jobs, NEW s, Single(s), NEW p, NEW bins,
           bins["aus"] = scope_tuple(Job[w].app, Job[w].user, ScopeOf(Job[w])),
           Gives(FilesQuery(l, s), p, bins)
    PROVE  Job[l].app = Job[w].app /\ Job[l].user = Job[w].user /\ s = ScopeOf(Job[w])
<1>1. bins["aus"] = scope_tuple(Job[l].app, Job[l].user, s)
  BY QueryParts DEF FilesQuery
<1>2. /\ Single(Job[w].app) /\ Single(Job[w].user) /\ Single(ScopeOf(Job[w]))
      /\ Single(Job[l].app) /\ Single(Job[l].user)
  BY NameFacts
<1>3. scope_tuple(Job[l].app, Job[l].user, s) = scope_tuple(Job[w].app, Job[w].user, ScopeOf(Job[w]))
  BY <1>1, Zenon
<1> QED
  BY <1>2, <1>3, ScopesDiffer


\* What list l owes its caller, and whether it has asked for it.
Owed(l, w) == Visible(l, w) /\ status[w] = "done" /\ ~Deleted(w)
Passed(l, w) ==
    \/ status[l] = "done"
    \/ /\ Job[l].op = "list_artifact_keys" /\ status[l] = "busy" /\ at[l] # 1
       /\ StartsWith(Job[w].file, "user")
Seen(l, w) ==
    /\ status[w] \in Ended
    /\ Job[l].op \in ListOps /\ Owed(l, w) /\ Passed(l, w) => RecordOf(w).pk \in DOMAIN got[l]
SeenInv == \A l \in Jobs : \A w \in before[l] : Seen(l, w)

LEMMA GotGrows ==
    ASSUME ControlInv, NEW l \in Jobs, NEW q \in left[l],
           Apply(l, q) \/ Answer(l, q) \/ Unread(l, q)
    PROVE  /\ DOMAIN got[l] \subseteq DOMAIN got'[l]
           /\ Answer(l, q) => DOMAIN Answered(q) \subseteq DOMAIN got'[l]
<1>1. CASE Unread(l, q) /\ ~Answer(l, q)
  BY <1>1 DEF Unread
<1>2. CASE Apply(l, q) \/ Answer(l, q)
  <2>1. InBound(q) /\ Receive(l, q)
    BY <1>2 DEF Apply, Answer
  <2>2. got'[l] = Over(got[l], Answered(q))
    BY <2>1, ReceiveFacts
  <2> DEFINE f == got[l]
             g == Answered(q)
  <2>3. DOMAIN Over(f, g) = DOMAIN f \cup DOMAIN g
    BY OverFacts
  <2> QED
    BY <2>2, <2>3
<1> QED
  BY <1>1, <1>2

\* The stage of a list: one query.
LEMMA ListStage ==
    ASSUME ControlInv, NEW l \in Jobs, Job[l].op \in ListOps, status[l] = "busy"
    PROVE  /\ Job[l].op = "list_sessions" => Now(l).reqs = {SessionsQuery(l)}
           /\ Job[l].op = "list_artifact_keys" /\ at[l] = 1 =>
                 Now(l).reqs = {FilesQuery(l, USER_SCOPE_SID)}
           /\ Job[l].op = "list_artifact_keys" /\ at[l] # 1 =>
                 at[l] = 2 /\ Now(l).reqs = {FilesQuery(l, Job[l].sid)}
           /\ \A q \in left[l] : q \in Now(l).reqs /\ q.do = "query"
<1>1. ver[l] \in 0..MaxVersion /\ at[l] \in 1..Len(Plan[l][ver[l]]) /\ left[l] \subseteq Now(l).reqs
  BY NowFacts
<1>2. \A n, a : /\ n = 1 /\ a \in 1..n => a = 1
                /\ n = 2 /\ a \in 1..n => a = 1 \/ a = 2
  OBVIOUS
<1>3. CASE Job[l].op = "list_sessions"
  <2>1. at[l] = 1 /\ Plan[l][ver[l]][1].reqs = {SessionsQuery(l)}
    BY <1>1, <1>2, <1>3, ExactPlans
  <2>2. Now(l).reqs = {SessionsQuery(l)}
    BY <2>1 DEF Now
  <2> QED
    BY <1>1, <1>3, <2>2, RequestParts DEF Queries
<1>4. CASE Job[l].op = "list_artifact_keys"
  <2>1. at[l] = 1 \/ at[l] = 2
    BY <1>1, <1>2, <1>4, ExactPlans
  <2>2. /\ Plan[l][ver[l]][1].reqs = {FilesQuery(l, USER_SCOPE_SID)}
        /\ Plan[l][ver[l]][2].reqs = {FilesQuery(l, Job[l].sid)}
    BY <1>1, <1>4, ExactPlans
  <2>3. /\ at[l] = 1 => Now(l).reqs = {FilesQuery(l, USER_SCOPE_SID)}
        /\ at[l] = 2 => Now(l).reqs = {FilesQuery(l, Job[l].sid)}
    BY <2>2 DEF Now
  <2> QED
    BY <1>1, <1>4, <2>1, <2>3, RequestParts DEF Queries
<1> QED
  BY <1>3, <1>4 DEF ListOps

\* A list that asks again keeps what an earlier query found.
LEMMA ResendKeeps ==
    ASSUME WellNamed, NoUserSession, ControlInv, TraceInv, NEW l \in Jobs, NEW w \in Jobs,
           Resend(l), Job[l].op = "list_artifact_keys", at[l] # 1, Visible(l, w),
           StartsWith(Job[w].file, "user"), RecordOf(w).pk \in DOMAIN got[l]
    PROVE  RecordOf(w).pk \in DOMAIN got'[l]
<1> DEFINE p == RecordOf(w).pk
           bins == got[l][p]
           q == FilesQuery(l, Job[l].sid)
<1>1. Job[w].op = "save_artifact" /\ ScopeOf(Job[w]) = USER_SCOPE_SID
  BY DEF Visible, ScopeOf, artifact_scope_id
<1>2. status[l] = "busy" /\ got' = [got EXCEPT ![l] = Except(got[l], Now(l).reqs)]
  BY DEF Resend
<1>3. Now(l).reqs = {q}
  BY <1>2, ListStage DEF ListOps
<1>4. got'[l] = Except(got[l], {q})
  <2>1. got = [i \in Jobs |-> got[i]]
    BY DEF ControlInv, ReqInv
  <2> QED
    BY <1>2, <1>3, <2>1
<1>5. Traced(p, bins, BegunJobs) /\ Tagged(p, bins)
  <2>1. Traced(p, bins, BegunJobs) /\ \E r \in Requests(l) : Gives(r, p, bins)
    BY DEF TraceInv
  <2>2. PICK r \in Requests(l) : Gives(r, p, bins)
    BY <2>1
  <2>3. r \in FilesReqs(l)
    BY OneOperation
  <2>4. PICK s : r = FilesQuery(l, s)
    BY <2>3 DEF FilesReqs
  <2>5. Tagged(p, bins)
    BY <2>2, <2>4, QueryParts DEF FilesQuery, Tagged
  <2> QED
    BY <2>1, <2>5
<1>6. bins["aus"] = scope_tuple(Job[w].app, Job[w].user, ScopeOf(Job[w]))
  BY <1>1, <1>5, RecordFields
<1>7. ~Gives(q, p, bins)
  <2>1. Single(Job[l].sid) /\ Job[l].sid # ScopeOf(Job[w])
    BY <1>1, NameFacts DEF NoUserSession
  <2> QED
    BY <1>6, <2>1, FindsScope
<1> HIDE DEF p, q
<1>8. p \in DOMAIN Except(got[l], {q})
  BY <1>7 DEF Except, p
<1> QED
  BY <1>4, <1>8 DEF p


\* The answer to a query has the records that the query is for.
LEMMA AnswerSees ==
    ASSUME WellNamed, ControlInv, TraceInv, KeptInv, NEW l \in Jobs, NEW w \in Jobs,
           Job[l].op \in ListOps, status[l] = "busy", Owed(l, w), ~Passed(l, w),
           NEW q \in left[l], left[l] = {q}, Proceed(l), Answer(l, q) \/ Unread(l, q),
           Passed(l, w)'
    PROVE  RecordOf(w).pk \in DOMAIN got'[l]
<1> DEFINE p == RecordOf(w).pk
           bins == store[p]
<1>0. Visible(l, w) /\ status[w] = "done" /\ ~Deleted(w)
  BY DEF Owed
<1>1. q \in Now(l).reqs /\ q.do = "query"
  BY ListStage
<1>2. Answer(l, q)
  BY <1>1 DEF Unread
<1>3. Held(RecordOf(w))
  <2>1. Stored(w)
    BY <1>0 DEF Visible, Stored
  <2> QED
    BY <1>0, <2>1 DEF KeptInv
<1>4. p \in DOMAIN store /\ Tagged(p, bins) /\ Traced(p, bins, BegunJobs)
  BY <1>3 DEF Held, TraceInv
<1>5. Gives(q, p, bins)
  <2>1. CASE Job[l].op = "list_sessions"
    <3>1. q = SessionsQuery(l)
      BY <1>1, <2>1, ListStage
    <3>2. Job[w].op = "create_session" /\ Job[l].app = Job[w].app
      BY <1>0, <2>1 DEF Visible
    <3> QED
      BY <1>4, <3>1, <3>2, FindsSession
  <2>2. CASE Job[l].op = "list_artifact_keys"
    <3>1. Job[w].op = "save_artifact" /\ Job[l].app = Job[w].app /\ Job[l].user = Job[w].user
      BY <1>0, <2>2 DEF Visible
    <3>2. CASE at[l] = 1
      <4>1. q = FilesQuery(l, USER_SCOPE_SID)
        BY <1>1, <2>2, <3>2, ListStage
      <4>2. status'[l] # "done"
        <5>1. ver'[l] \in 0..MaxVersion
          BY <1>2, ReceiveFacts DEF Answer
        <5>2. Len(Plan[l][ver'[l]]) = 2
          BY <2>2, <5>1, ExactPlans
        <5>3. ~EarlyReturn(l, got'[l])
          BY <2>2 DEF EarlyReturn
        <5>4. \A a : a = 1 => a # 2
          OBVIOUS
        <5>5. status' = status
          BY <3>2, <5>2, <5>3, <5>4 DEF Proceed
        <5> QED
          BY <5>5
      <4>3. StartsWith(Job[w].file, "user")
        BY <4>2 DEF Passed
      <4>4. ScopeOf(Job[w]) = USER_SCOPE_SID
        BY <4>3 DEF ScopeOf, artifact_scope_id
      <4> QED
        BY <1>4, <3>1, <4>1, <4>4, FindsFile
    <3>3. CASE at[l] # 1
      <4>1. q = FilesQuery(l, Job[l].sid)
        BY <1>1, <2>2, <3>3, ListStage
      <4>2. ~StartsWith(Job[w].file, "user")
        BY <2>2, <3>3 DEF Passed
      <4>3. ScopeOf(Job[w]) = Job[l].sid
        BY <1>0, <2>2, <4>2 DEF Visible, ScopeOf, artifact_scope_id
      <4> QED
        BY <1>4, <3>1, <4>1, <4>3, FindsFile
    <3> QED
      BY <3>2, <3>3
  <2> QED
    BY <2>1, <2>2 DEF ListOps
<1>6. p \in DOMAIN Answered(q)
  BY <1>4, <1>5 DEF Answered
<1> QED
  BY <1>2, <1>6, GotGrows

LEMMA SeenInit == Init => SeenInv
  BY DEF Init, SeenInv

LEMMA SeenNext ==
    ASSUME WellNamed, NoUserSession, ControlInv, TraceInv, KeptInv, SeenInv, [Next]_vars
    PROVE  SeenInv'
<1> SUFFICES ASSUME NEW l \in Jobs, NEW w \in before'[l] PROVE Seen(l, w)'
  BY DEF SeenInv
<1>0. before \in [Jobs -> SUBSET Jobs]
  BY DEF ControlInv, TypeOK
<1>1. CASE Begin(l) /\ status'[l] = "busy" /\ at'[l] = 1
  <2>1. before' = [before EXCEPT ![l] = {i \in Jobs : status[i] \in Ended}]
    BY <1>1 DEF Begin
  <2>2. w \in Jobs /\ status[w] \in Ended
    BY <1>0, <2>1
  <2>3. status'[w] = status[w]
    BY <2>2, EndedStays DEF Idle
  <2>4. ~(Passed(l, w)')
    BY <1>1 DEF Passed
  <2> QED
    BY <2>2, <2>3, <2>4 DEF Seen
<1>2. CASE before'[l] = before[l]
  <2>0. w \in Jobs /\ Seen(l, w)
    BY <1>0, <1>2 DEF SeenInv
  <2>1. status[w] \in Ended
    BY <2>0 DEF Seen
  <2>2. status'[w] = status[w] /\ ver'[w] = ver[w]
    BY <2>0, <2>1, EndedStays DEF Idle
  <2>3. ASSUME Job[l].op \in ListOps, Owed(l, w)', Passed(l, w)'
        PROVE  RecordOf(w)'.pk \in DOMAIN got'[l]
    <3>1. RecordOf(w)' = RecordOf(w)
      BY <2>2 DEF RecordOf
    <3>2. Owed(l, w) /\ Visible(l, w)
      <4>1. ~Deleted(w)
        BY <2>0, <2>3, DeletedNext DEF Owed
      <4> QED
        BY <2>2, <2>3, <4>1 DEF Owed, Visible
    <3>3. Passed(l, w) => RecordOf(w).pk \in DOMAIN got[l]
      BY <2>0, <2>3, <3>2 DEF Seen
    <3>4. Turn(l)
      BY Turns
    <3>5. CASE Idle(l)
      <4>1. Passed(l, w)
        BY <2>3, <3>5 DEF Idle, Passed
      <4> QED
        BY <3>1, <3>3, <3>5, <4>1 DEF Idle
    <3>6. CASE Begin(l) \/ Fail(l) \/ \E q \in left[l] : Raise(l, q)
      <4>1. status'[l] \in {"failed", "noindex"} \/ (status'[l] = "busy" /\ at'[l] = 1)
        <5>1. status = [i \in Jobs |-> status[i]] /\ at = [i \in Jobs |-> at[i]]
          BY DEF ControlInv, TypeOK
        <5>2. \/ status' = [status EXCEPT ![l] = "failed"] \/ status' = [status EXCEPT ![l] = "noindex"]
              \/ status' = [status EXCEPT ![l] = "busy"] /\ at' = [at EXCEPT ![l] = 1]
          BY <3>6 DEF Begin, Fail, Raise, End
        <5> QED
          BY <5>1, <5>2
      <4> QED
        BY <2>3, <4>1 DEF Passed
    <3>7. CASE Resend(l)
      <4>1. status[l] = "busy" /\ status' = status /\ at' = at
        BY <3>7 DEF Resend
      <4>2. Passed(l, w)
        BY <2>3, <4>1 DEF Passed
      <4>3. Job[l].op = "list_artifact_keys" /\ at[l] # 1 /\ StartsWith(Job[w].file, "user")
        BY <4>1, <4>2 DEF Passed
      <4> QED
        BY <2>0, <3>1, <3>2, <3>3, <3>7, <4>2, <4>3, ResendKeeps
    <3>8. ASSUME NEW q \in left[l], Apply(l, q) \/ Answer(l, q) \/ Unread(l, q)
          PROVE  RecordOf(w)'.pk \in DOMAIN got'[l]
      <4>1. CASE Passed(l, w)
        BY <3>1, <3>3, <3>8, <4>1, GotGrows
      <4>2. CASE ~Passed(l, w)
        <5>0. status[l] = "busy"
          BY <3>8 DEF Apply, Answer, Unread
        <5>1. ~(status' = status /\ at' = at)
          BY <2>3, <4>2 DEF Passed
        <5>2. left[l] = {q} /\ Proceed(l) /\ (Answer(l, q) \/ Unread(l, q))
          BY <3>8, <5>1 DEF Apply, Answer, Unread
        <5>3. RecordOf(w).pk \in DOMAIN got'[l]
          BY <2>0, <2>3, <3>2, <4>2, <5>0, <5>2, AnswerSees
        <5> QED
          BY <3>1, <5>3
      <4> QED
        BY <4>1, <4>2
    <3> QED
      BY <3>4, <3>5, <3>6, <3>7, <3>8 DEF Turn
  <2> QED
    BY <2>1, <2>2, <2>3 DEF Seen
<1> QED
  BY <1>1, <1>2, Turns, TurnFacts DEF Idle


LEMMA SeenAlways == ASSUME WellNamed, NoUserSession PROVE Spec => []SeenInv
<1>1. SeenInv /\ ControlInv /\ TraceInv /\ KeptInv /\ [Next]_vars => SeenInv'
  BY SeenNext
<1> QED
  BY <1>1, SeenInit, ControlAlways, TraceAlways, KeptAlways, PTL DEF Spec

\* A record that l got, and the call that stored it.
LEMMA ListedRecord ==
    ASSUME WellNamed, NoUserSession, TraceInv, NEW l \in Jobs, Job[l].op \in ListOps,
           NEW p \in DOMAIN got[l]
    PROVE  LET bins == got[l][p] IN
           /\ Tagged(p, bins) /\ Traced(p, bins, BegunJobs)
           /\ \E w \in BegunJobs :
                 /\ Visible(l, w)
                 /\ Job[l].op = "list_sessions" =>
                       bins["uid"] = Job[w].user /\ bins["sid"] = Job[w].sid
                 /\ Job[l].op = "list_artifact_keys" => bins["fname"] = Job[w].file
<1> DEFINE bins == got[l][p]
<1>1. Traced(p, bins, BegunJobs) /\ \E q \in Requests(l) : Gives(q, p, bins)
  BY DEF TraceInv
<1>2. PICK q \in Requests(l) : Gives(q, p, bins)
  BY <1>1
<1> HIDE DEF bins
<1>3. CASE Job[l].op = "list_sessions"
  <2>1. q = SessionsQuery(l)
    BY <1>3, OneOperation DEF ListReqs
  <2>2. p[1] = "sessions" /\ "app" \in DOMAIN bins /\ bins["app"] = Job[l].app
    BY <1>2, <2>1, QueryParts DEF SessionsQuery
  <2>3. Tagged(p, bins)
    BY <2>2 DEF Tagged
  <2>4. PICK w \in BegunJobs : Origin(w, p, bins)
    BY <1>1, <2>3 DEF Traced
  <2>5. w \in Jobs
    BY DEF BegunJobs
  <2>6. /\ Job[w].op = "create_session" /\ bins["app"] = Job[w].app
        /\ bins["uid"] = Job[w].user /\ bins["sid"] = Job[w].sid
    BY <2>2, <2>4, <2>5, PlaceSets DEF Origin
  <2>7. Visible(l, w)
    BY <1>3, <2>2, <2>6 DEF Visible
  <2> QED
    BY <1>1, <1>3, <2>3, <2>6, <2>7 DEF bins
<1>4. CASE Job[l].op = "list_artifact_keys"
  <2>1. PICK s \in {USER_SCOPE_SID, Job[l].sid} : q = FilesQuery(l, s)
    BY <1>4, OneOperation DEF FilesReqs
  <2>2. p[1] = "artifacts" /\ "aus" \in DOMAIN bins
    BY <1>2, <2>1, QueryParts DEF FilesQuery
  <2>3. Tagged(p, bins)
    BY <2>2 DEF Tagged
  <2>4. PICK w \in BegunJobs : Origin(w, p, bins)
    BY <1>1, <2>3 DEF Traced
  <2>5. w \in Jobs
    BY DEF BegunJobs
  <2>6. /\ Job[w].op = "save_artifact" /\ bins["fname"] = Job[w].file
        /\ bins["aus"] = scope_tuple(Job[w].app, Job[w].user, ScopeOf(Job[w]))
    BY <2>2, <2>4, <2>5, PlaceSets DEF Origin
  <2>7. Single(s)
    <3>1. Single(<<"user">>)
      BY WordAssumption, SuffixName
    <3> QED
      BY <2>1, <3>1, NameFacts DEF USER_SCOPE_SID
  <2>8. Job[l].app = Job[w].app /\ Job[l].user = Job[w].user /\ s = ScopeOf(Job[w])
    BY <1>2, <2>1, <2>5, <2>6, <2>7, FindsScope
  <2>9. StartsWith(Job[w].file, "user") \/ Job[l].sid = Job[w].sid
    BY <2>1, <2>5, <2>8 DEF ScopeOf, artifact_scope_id, NoUserSession
  <2>10. Visible(l, w)
    BY <1>4, <2>6, <2>8, <2>9 DEF Visible
  <2> QED
    BY <1>1, <1>4, <2>3, <2>6, <2>10 DEF bins
<1> QED
  BY <1>3, <1>4 DEF ListOps

LEMMA QueryGoal ==
    ASSUME WellNamed, NoUserSession, ControlInv, IndexInv, TraceInv, SeenInv
    PROVE  QueryExact
<1> SUFFICES ASSUME NEW l \in Jobs, Job[l].op \in ListOps
             PROVE  /\ status[l] = "noindex" => Job[l].proc \notin Ensures
                    /\ status[l] = "done" =>
                          LET found == IF Job[l].op = "list_sessions" THEN SessionsIn(l)
                                       ELSE FilesIn(l)
                              begun == {w \in Jobs : Visible(l, w)
                                                     /\ status[w] \notin {"absent", "start"}}
                              owed  == {w \in before[l] \cap begun :
                                           status[w] = "done" /\ ~Deleted(w)}
                          IN NamesOf(l, owed) \subseteq found /\ found \subseteq NamesOf(l, begun)
  BY DEF QueryExact, ListOps
<1>1. status[l] = "noindex" => Job[l].proc \notin Ensures
  BY DEF IndexInv, Ensured
<1> SUFFICES ASSUME status[l] = "done"
             PROVE  LET found == IF Job[l].op = "list_sessions" THEN SessionsIn(l) ELSE FilesIn(l)
                        begun == {w \in Jobs : Visible(l, w)
                                               /\ status[w] \notin {"absent", "start"}}
                        owed  == {w \in before[l] \cap begun : status[w] = "done" /\ ~Deleted(w)}
                    IN NamesOf(l, owed) \subseteq found /\ found \subseteq NamesOf(l, begun)
  BY <1>1
<1> DEFINE begun == {w \in Jobs : Visible(l, w) /\ status[w] \notin {"absent", "start"}}
           owed  == {w \in before[l] \cap begun : status[w] = "done" /\ ~Deleted(w)}
<1>2. ASSUME NEW w \in owed
      PROVE  /\ w \in Jobs /\ Visible(l, w) /\ RecordOf(w).pk \in DOMAIN got[l]
             /\ Tagged(RecordOf(w).pk, got[l][RecordOf(w).pk])
             /\ Traced(RecordOf(w).pk, got[l][RecordOf(w).pk], BegunJobs)
  <2>1. w \in Jobs /\ Owed(l, w) /\ Passed(l, w) /\ w \in before[l] /\ Visible(l, w)
    BY DEF Owed, Passed
  <2>2. RecordOf(w).pk \in DOMAIN got[l]
    BY <2>1 DEF SeenInv, Seen
  <2> QED
    BY <2>1, <2>2, ListedRecord
<1>3. ASSUME NEW w \in BegunJobs, Visible(l, w) PROVE w \in begun
  BY <1>3 DEF BegunJobs, Begun
<1> HIDE DEF begun, owed
<1>4. CASE Job[l].op = "list_sessions"
  <2>1. ASSUME NEW w \in owed PROVE <<Job[w].user, Job[w].sid>> \in SessionsIn(l)
    <3> DEFINE p == RecordOf(w).pk
    <3>1. w \in Jobs /\ Job[w].op = "create_session" /\ Job[l].app = Job[w].app
      BY <1>2, <1>4 DEF Visible
    <3>2. /\ got[l][p]["app"] = Job[l].app /\ got[l][p]["uid"] = Job[w].user
          /\ got[l][p]["sid"] = Job[w].sid
      BY <1>2, <3>1, RecordFields
    <3>3. p \in DOMAIN got[l]
      BY <1>2
    <3> QED
      BY <3>2, <3>3 DEF SessionsIn
  <2>2. ASSUME NEW f \in SessionsIn(l) PROVE f \in {<<Job[w].user, Job[w].sid>> : w \in begun}
    <3>1. PICK p \in DOMAIN got[l] : f = <<got[l][p].uid, got[l][p].sid>>
      BY DEF SessionsIn
    <3>2. PICK w \in BegunJobs : /\ Visible(l, w)
                                 /\ got[l][p]["uid"] = Job[w].user /\ got[l][p]["sid"] = Job[w].sid
      BY <1>4, ListedRecord
    <3> QED
      BY <1>3, <3>1, <3>2
  <2>3. \A ws : NamesOf(l, ws) = {<<Job[w].user, Job[w].sid>> : w \in ws}
    BY <1>4 DEF NamesOf
  <2>4. NamesOf(l, owed) \subseteq SessionsIn(l) /\ SessionsIn(l) \subseteq NamesOf(l, begun)
    BY <2>1, <2>2, <2>3
  <2> QED
    BY <1>4, <2>4 DEF begun, owed
<1>5. CASE Job[l].op = "list_artifact_keys"
  <2>1. ASSUME NEW w \in owed PROVE Job[w].file \in FilesIn(l)
    <3> DEFINE p == RecordOf(w).pk
    <3>1. w \in Jobs /\ Job[w].op = "save_artifact"
      BY <1>2, <1>5 DEF Visible
    <3>2. got[l][p]["fname"] = Job[w].file
      BY <1>2, <3>1, RecordFields
    <3>3. p \in DOMAIN got[l]
      BY <1>2
    <3> QED
      BY <3>2, <3>3 DEF FilesIn
  <2>2. ASSUME NEW f \in FilesIn(l) PROVE f \in {Job[w].file : w \in begun}
    <3>1. PICK p \in DOMAIN got[l] : f = got[l][p].fname
      BY DEF FilesIn
    <3>2. PICK w \in BegunJobs : Visible(l, w) /\ got[l][p]["fname"] = Job[w].file
      BY <1>5, ListedRecord
    <3> QED
      BY <1>3, <3>1, <3>2
  <2>3. \A ws : NamesOf(l, ws) = {Job[w].file : w \in ws}
    BY <1>5 DEF NamesOf
  <2>4. NamesOf(l, owed) \subseteq FilesIn(l) /\ FilesIn(l) \subseteq NamesOf(l, begun)
    BY <2>1, <2>2, <2>3
  <2> QED
    BY <1>5, <2>4 DEF begun, owed
<1> QED
  BY <1>4, <1>5 DEF ListOps

\* Whatever the calls and the failures: a list finds its index, in a process that
\* ensures indexes, and returns the sessions or the files of its tenant, all that
\* were there before and none of anybody else (list_sessions,
\* list_artifact_keys), as long as identifiers have no separator and no session
\* is called by a reserved name or "user".
THEOREM ListsExact == ASSUME WellNamed, NoUserSession PROVE Spec => []QueryExact
<1>1. ControlInv /\ IndexInv /\ TraceInv /\ SeenInv => QueryExact
  BY QueryGoal
<1> QED
  BY <1>1, ControlAlways, IndexAlways, TraceAlways, SeenAlways, PTL


-----------------------------------------------------------------------------
(* Fresh state: the stages that write and read it.                         *)

Occurs(s, q) == \E n \in 1..Len(s) : q \in s[n].reqs
Lone(s) == Len(s) = 1
Readless(s) == \A n \in 1..Len(s) : \A q \in s[n].reqs : q.do # "read"

LEMMA OccursJoined ==
    ASSUME NEW S, NEW s \in Seq(S), NEW t \in Seq(S), NEW q, Occurs(s, q) \/ Occurs(t, q)
    PROVE  Occurs(s \o t, q)
<1>1. /\ Len(s \o t) = Len(s) + Len(t)
      /\ \A i \in 1..Len(s) : (s \o t)[i] = s[i]
      /\ \A i \in 1..Len(t) : (s \o t)[Len(s) + i] = t[i]
      /\ Len(s) \in Nat /\ Len(t) \in Nat
  BY Joined
<1>2. \A m, k \in Nat : /\ \A i \in 1..m : i \in 1..m + k
                        /\ \A i \in 1..k : m + i \in 1..m + k
  OBVIOUS
<1>3. ASSUME NEW n \in 1..Len(s), q \in s[n].reqs PROVE Occurs(s \o t, q)
  <2>1. n \in 1..Len(s \o t) /\ (s \o t)[n] = s[n]
    BY <1>1, <1>2
  <2> QED
    BY <1>3, <2>1 DEF Occurs
<1>4. ASSUME NEW n \in 1..Len(t), q \in t[n].reqs PROVE Occurs(s \o t, q)
  <2>1. Len(s) + n \in 1..Len(s \o t) /\ (s \o t)[Len(s) + n] = t[n]
    BY <1>1, <1>2
  <2> QED
    BY <1>4, <2>1 DEF Occurs
<1> QED
  BY <1>3, <1>4 DEF Occurs

LEMMA ReadlessJoined ==
    ASSUME NEW S, NEW s \in Seq(S), NEW t \in Seq(S), Readless(s), Readless(t)
    PROVE  Readless(s \o t)
<1>1. /\ Len(s \o t) = Len(s) + Len(t)
      /\ \A i \in 1..Len(s) : (s \o t)[i] = s[i]
      /\ \A i \in 1..Len(t) : (s \o t)[Len(s) + i] = t[i]
      /\ Len(s) \in Nat /\ Len(t) \in Nat
  BY Joined
<1>2. \A m, k \in Nat : \A i \in 1..m + k : i \in 1..m \/ \E l \in 1..k : i = m + l
  <2>1. ASSUME NEW m \in Nat, NEW k \in Nat, NEW i \in 1..m + k, i \notin 1..m
        PROVE  i - m \in 1..k /\ i = m + (i - m)
    BY <2>1
  <2> QED
    BY <2>1
<1>3. ASSUME NEW n \in 1..Len(s \o t), NEW q \in (s \o t)[n].reqs PROVE q.do # "read"
  <2>1. CASE n \in 1..Len(s)
    BY <1>1, <1>3, <2>1 DEF Readless
  <2>2. ASSUME NEW l \in 1..Len(t), n = Len(s) + l PROVE q.do # "read"
    <3>1. (s \o t)[n] = t[l]
      BY <1>1, <2>2
    <3> QED
      BY <1>3, <3>1 DEF Readless
  <2> QED
    BY <1>1, <1>2, <2>1, <2>2
<1> QED
  BY <1>3 DEF Readless

\* The last stage of two parts, of which the second has one.
LEMMA LastJoined ==
    ASSUME NEW S, NEW s \in Seq(S), NEW t \in Seq(S), Lone(t), Readless(s)
    PROVE  /\ (s \o t)[Len(s \o t)] = t[1]
           /\ \A n \in 1..Len(s \o t) : (\E q \in (s \o t)[n].reqs : q.do = "read") => n = Len(s \o t)
<1>1. /\ Len(s \o t) = Len(s) + Len(t)
      /\ \A i \in 1..Len(s) : (s \o t)[i] = s[i]
      /\ \A i \in 1..Len(t) : (s \o t)[Len(s) + i] = t[i]
      /\ Len(s) \in Nat
  BY Joined
<1>2. \A k : k = 1 => 1 \in 1..k
  OBVIOUS
<1>3. Len(s \o t) = Len(s) + 1 /\ (s \o t)[Len(s) + 1] = t[1]
  BY <1>1, <1>2 DEF Lone
<1>4. \A m \in Nat : \A i \in 1..m + 1 : i # m + 1 => i \in 1..m
  OBVIOUS
<1>5. ASSUME NEW n \in 1..Len(s \o t), NEW q \in (s \o t)[n].reqs, q.do = "read", n # Len(s \o t)
      PROVE  FALSE
  <2>1. n \in 1..Len(s)
    BY <1>1, <1>3, <1>4, <1>5
  <2> QED
    BY <1>1, <1>5, <2>1 DEF Readless
<1> QED
  BY <1>3, <1>5

LEMMA OneStage ==
    ASSUME NEW cls, NEW again, NEW reqs
    PROVE  /\ Len(Stage(cls, again, reqs)) = 1 /\ Stage(cls, again, reqs)[1].reqs = reqs
           /\ \A q \in reqs : Occurs(Stage(cls, again, reqs), q)
           /\ (\A q \in reqs : q.do # "read") => Readless(Stage(cls, again, reqs))
<1> DEFINE s == Stage(cls, again, reqs)
<1>1. Len(s) = 1 /\ s[1].reqs = reqs
  BY DEF Stage
<1> HIDE DEF s
<1>2. \A k : k = 1 => 1 \in 1..k /\ \A n \in 1..k : n = 1
  OBVIOUS
<1>3. 1 \in 1..Len(s) /\ \A n \in 1..Len(s) : n = 1
  BY <1>1, <1>2
<1>4. /\ \A q \in reqs : Occurs(s, q)
      /\ (\A q \in reqs : q.do # "read") => Readless(s)
  BY <1>1, <1>3 DEF Occurs, Readless
<1> QED
  BY <1>1, <1>4 DEF s


AnyStage(j) == [cls : Classes, again : Again, reqs : SUBSET Requests(j)]

LEMMA StageSeq ==
    ASSUME NEW j \in Jobs, NEW cls \in Classes, NEW again \in Again, NEW reqs \in SUBSET Requests(j)
    PROVE  Stage(cls, again, reqs) \in Seq(AnyStage(j))
<1> DEFINE st == [cls |-> cls, again |-> again, reqs |-> reqs]
<1>1. st \in AnyStage(j)
  BY DEF AnyStage
<1>2. Stage(cls, again, reqs) = <<st>>
  BY DEF Stage
<1> HIDE DEF st
<1> QED
  BY <1>1, <1>2

LEMMA ScopedStage ==
    ASSUME NEW j \in Jobs, NEW place, NEW part, PutItems(place, part) \in Requests(j)
    PROVE  LET s == _merge_scoped_state(place, part) IN
           /\ s \in Seq(AnyStage(j)) /\ Readless(s)
           /\ Given(part) => Occurs(s, PutItems(place, part))
<1> DEFINE q == PutItems(place, part)
           t == Stage("operate", "never", {q})
<1>1. q.do # "read"
  BY DEF PutItems, Req
<1> HIDE DEF q
<1>2. t \in Seq(AnyStage(j))
  <2>1. {q} \in SUBSET Requests(j)
    BY DEF q
  <2> QED
    BY <2>1, StageSeq DEF Classes, Again
<1>3. Occurs(t, q) /\ Readless(t)
  BY <1>1, OneStage
<1>4. <<>> \in Seq(AnyStage(j)) /\ Readless(<<>>)
  BY DEF Readless
<1>5. _merge_scoped_state(place, part) = IF Given(part) THEN t ELSE <<>>
  BY DEF _merge_scoped_state, When, q
<1> HIDE DEF t
<1> QED
  BY <1>2, <1>3, <1>4, <1>5 DEF q

LEMMA CreateStages ==
    ASSUME NEW j \in Jobs, Job[j].op = "create_session"
    PROVE  LET plan == create_session(j) IN
           /\ Occurs(plan, SessionCreate(j))
           /\ Given(Parts(j).app) => Occurs(plan, AppWrite(j))
           /\ Given(Parts(j).user) => Occurs(plan, UserWrite(j))
           /\ plan[Len(plan)].reqs = {Read(AppPlace(Job[j])), Read(UserPlace(Job[j]))}
           /\ \A n \in 1..Len(plan) : (\E q \in plan[n].reqs : q.do = "read") => n = Len(plan)
<1> DEFINE S == AnyStage(j)
           reads == {Read(AppPlace(Job[j])), Read(UserPlace(Job[j]))}
           a == Stage("write", "rejected", {SessionCreate(j)})
           b == _merge_scoped_state(AppPlace(Job[j]), Parts(j).app)
           c == _merge_scoped_state(UserPlace(Job[j]), Parts(j).user)
           d == Stage("operate", "never", {ManifestAdd(j)})
           e == Stage("batch", "never", reads)
<1>1. Requests(j) = CreateReqs(j)
  BY OneOperation
<1>2. create_session(j) = a \o b \o c \o d \o e
  BY DEF create_session, SessionCreate, ManifestAdd, _merge_state_for_read
<1>3. /\ {SessionCreate(j)} \in SUBSET Requests(j) /\ {ManifestAdd(j)} \in SUBSET Requests(j)
      /\ reads \in SUBSET Requests(j) /\ AppWrite(j) \in Requests(j) /\ UserWrite(j) \in Requests(j)
  BY <1>1 DEF CreateReqs
<1>4. SessionCreate(j).do # "read" /\ ManifestAdd(j).do # "read"
  BY DEF SessionCreate, ManifestAdd, Req
<1> HIDE DEF reads
<1>5. a \in Seq(S) /\ Occurs(a, SessionCreate(j)) /\ Readless(a)
  BY <1>3, <1>4, StageSeq, OneStage DEF Classes, Again
<1>6. b \in Seq(S) /\ Readless(b) /\ (Given(Parts(j).app) => Occurs(b, AppWrite(j)))
  BY <1>3, ScopedStage DEF AppWrite
<1>7. c \in Seq(S) /\ Readless(c) /\ (Given(Parts(j).user) => Occurs(c, UserWrite(j)))
  BY <1>3, ScopedStage DEF UserWrite
<1>8. d \in Seq(S) /\ Readless(d)
  BY <1>3, <1>4, StageSeq, OneStage DEF Classes, Again
<1>9. e \in Seq(S) /\ Lone(e) /\ e[1].reqs = reads
  BY <1>3, StageSeq, OneStage DEF Classes, Again, Lone
<1> HIDE DEF a, b, c, d, e, S
<1> DEFINE ab == a \o b
<1>10. /\ ab \in Seq(S) /\ Readless(ab) /\ Occurs(ab, SessionCreate(j))
       /\ Given(Parts(j).app) => Occurs(ab, AppWrite(j))
  BY <1>5, <1>6, Joined, ReadlessJoined, OccursJoined
<1> HIDE DEF ab
<1> DEFINE abc == ab \o c
<1>11. /\ abc \in Seq(S) /\ Readless(abc) /\ Occurs(abc, SessionCreate(j))
       /\ Given(Parts(j).app) => Occurs(abc, AppWrite(j))
       /\ Given(Parts(j).user) => Occurs(abc, UserWrite(j))
  BY <1>7, <1>10, Joined, ReadlessJoined, OccursJoined
<1> HIDE DEF abc
<1> DEFINE abcd == abc \o d
<1>12. /\ abcd \in Seq(S) /\ Readless(abcd) /\ Occurs(abcd, SessionCreate(j))
       /\ Given(Parts(j).app) => Occurs(abcd, AppWrite(j))
       /\ Given(Parts(j).user) => Occurs(abcd, UserWrite(j))
  BY <1>8, <1>11, Joined, ReadlessJoined, OccursJoined
<1> HIDE DEF abcd
<1> DEFINE plan == abcd \o e
<1>13. /\ Occurs(plan, SessionCreate(j))
       /\ Given(Parts(j).app) => Occurs(plan, AppWrite(j))
       /\ Given(Parts(j).user) => Occurs(plan, UserWrite(j))
  BY <1>9, <1>12, OccursJoined
<1>14. /\ plan[Len(plan)] = e[1]
       /\ \A n \in 1..Len(plan) : (\E q \in plan[n].reqs : q.do = "read") => n = Len(plan)
  BY <1>9, <1>12, LastJoined
<1> HIDE DEF plan
<1>15. create_session(j) = plan
  BY <1>2 DEF plan, abcd, abc, ab
<1> QED
  BY <1>9, <1>13, <1>14, <1>15 DEF reads

LEMMA AppendStages ==
    ASSUME NEW j \in Jobs, Job[j].op = "append_event"
    PROVE  LET plan == append_event(j) IN
           /\ Given(Parts(j).session) => Occurs(plan, SessionWrite(j))
           /\ Given(Parts(j).app) => Occurs(plan, AppWrite(j))
           /\ Given(Parts(j).user) => Occurs(plan, UserWrite(j))
<1> DEFINE states == {w \in {SessionWrite(j), AppWrite(j), UserWrite(j)} : Given(w.bins.state)}
           cls == IF states = {} THEN "operate" ELSE "batch"
           reqs == {EventWrite(j)} \cup states
<1>1. append_event(j) = Stage(cls, "always", reqs)
  BY DEF append_event, SessionWrite, AppWrite, UserWrite, EventWrite
<1>2. /\ SessionWrite(j).bins.state = Parts(j).session /\ AppWrite(j).bins.state = Parts(j).app
      /\ UserWrite(j).bins.state = Parts(j).user
  BY DEF SessionWrite, AppWrite, UserWrite, PutItems, Req
<1>3. /\ Given(Parts(j).session) => SessionWrite(j) \in reqs
      /\ Given(Parts(j).app) => AppWrite(j) \in reqs
      /\ Given(Parts(j).user) => UserWrite(j) \in reqs
  BY <1>2
<1> HIDE DEF cls, reqs
<1>4. \A q \in reqs : Occurs(Stage(cls, "always", reqs), q)
  BY OneStage
<1> QED
  BY <1>1, <1>3, <1>4


TurnOps == {"create_session", "append_event", "get_session"}

\* The stages that concern state: every part that is given is written, and
\* whatever is read is read in the last stage.
LEMMA StatePlans ==
    ASSUME NEW j \in Jobs, Job[j].op \in TurnOps
    PROVE  LET plan == Plan[j][0] IN
           /\ \A v \in 0..MaxVersion : Plan[j][v] = plan
           /\ Job[j].op = "create_session" => Occurs(plan, SessionCreate(j))
           /\ Job[j].op = "append_event" /\ Given(Parts(j).session) => Occurs(plan, SessionWrite(j))
           /\ Job[j].op \in StateOps /\ Given(Parts(j).app) => Occurs(plan, AppWrite(j))
           /\ Job[j].op \in StateOps /\ Given(Parts(j).user) => Occurs(plan, UserWrite(j))
           /\ Job[j].op # "append_event" =>
                 /\ Occurs(plan, Read(AppPlace(Job[j]))) /\ Occurs(plan, Read(UserPlace(Job[j])))
                 /\ \A n \in 1..Len(plan) :
                       (\E q \in plan[n].reqs : q.do = "read") => n = Len(plan)
           /\ Job[j].op = "get_session" => Occurs(plan, Read(SessionPlace(Job[j])))
<1>0. 0 \in 0..MaxVersion
  BY LayoutAssumption
<1>1. \A v \in 0..MaxVersion : Plan[j][v] = Stages(j, v)
  BY DEF Plan
<1>2. CASE Job[j].op = "create_session"
  <2>1. \A v : Stages(j, v) = create_session(j)
    BY <1>2 DEF Stages
  <2>2. \A v \in 0..MaxVersion : Plan[j][v] = create_session(j)
    BY <1>1, <2>1
  <2>3. Plan[j][0] = create_session(j)
    BY <1>0, <2>2
  <2> DEFINE plan == create_session(j)
             reads == {Read(AppPlace(Job[j])), Read(UserPlace(Job[j]))}
  <2>4. /\ Occurs(plan, SessionCreate(j))
        /\ Given(Parts(j).app) => Occurs(plan, AppWrite(j))
        /\ Given(Parts(j).user) => Occurs(plan, UserWrite(j))
        /\ plan[Len(plan)].reqs = reads
        /\ \A n \in 1..Len(plan) : (\E q \in plan[n].reqs : q.do = "read") => n = Len(plan)
    BY <1>2, CreateStages
  <2>5. Len(plan) \in 1..Len(plan)
    <3>1. Len(plan) \in 1..5
      BY <1>0, <2>3, PlanFacts DEF PlanShape
    <3>2. \A k : k \in 1..5 => k \in 1..k
      OBVIOUS
    <3> QED
      BY <3>1, <3>2
  <2> HIDE DEF plan
  <2>6. \A q \in reads : Occurs(plan, q)
    BY <2>4, <2>5 DEF Occurs
  <2>7. /\ Occurs(plan, Read(AppPlace(Job[j]))) /\ Occurs(plan, Read(UserPlace(Job[j])))
    BY <2>6
  <2> HIDE DEF reads
  <2>8. Plan[j][0] = plan /\ \A v \in 0..MaxVersion : Plan[j][v] = plan
    BY <2>2, <2>3 DEF plan
  <2> QED
    BY <1>2, <2>4, <2>7, <2>8 DEF StateOps
<1>3. CASE Job[j].op = "append_event"
  <2>1. \A v : Stages(j, v) = append_event(j)
    BY <1>3 DEF Stages
  <2>2. \A v \in 0..MaxVersion : Plan[j][v] = append_event(j)
    BY <1>1, <2>1
  <2>3. Plan[j][0] = append_event(j)
    BY <1>0, <2>2
  <2> QED
    BY <1>3, <2>2, <2>3, AppendStages DEF StateOps
<1>4. CASE Job[j].op = "get_session"
  <2>1. \A v : Stages(j, v) = get_session(j)
    BY <1>4 DEF Stages
  <2>2. \A v \in 0..MaxVersion : Plan[j][v] = get_session(j)
    BY <1>1, <2>1
  <2>3. Plan[j][0] = get_session(j)
    BY <1>0, <2>2
  <2> DEFINE reads == GetReqs(j)
             plan == get_session(j)
  <2>4. plan = Stage("batch", "never", reads)
    BY DEF get_session, GetReqs
  <2>5. /\ Occurs(plan, Read(AppPlace(Job[j]))) /\ Occurs(plan, Read(UserPlace(Job[j])))
        /\ Occurs(plan, Read(SessionPlace(Job[j])))
    BY <2>4, OneStage DEF GetReqs
  <2>6. Lone(plan)
    BY <2>4, OneStage DEF Lone
  <2> HIDE DEF plan
  <2>7. \A k : k = 1 => \A n \in 1..k : n = k
    OBVIOUS
  <2>8. \A n \in 1..Len(plan) : n = Len(plan)
    BY <2>6, <2>7 DEF Lone
  <2>9. Plan[j][0] = plan /\ \A v \in 0..MaxVersion : Plan[j][v] = plan
    BY <2>2, <2>3 DEF plan
  <2> QED
    BY <1>4, <2>5, <2>8, <2>9 DEF StateOps
<1> QED
  BY <1>2, <1>3, <1>4 DEF TurnOps

\* Call w is past request q of its stage n: the request was applied, or read
\* what it could.
Past(w, n, q) ==
    /\ n \in 1..Len(Plan[w][0]) /\ q \in Plan[w][0][n].reqs
    /\ \/ status[w] = "done"
       \/ status[w] = "busy" /\ (n < at[w] \/ (n = at[w] /\ q \notin left[w]))

LEMMA ProceedPast ==
    ASSUME ControlInv, NEW w \in Jobs, Job[w].op \in TurnOps, NEW n, NEW q, NEW r \in left[w],
           status[w] = "busy", left[w] = {r}, Proceed(w), ver'[w] \in 0..MaxVersion, Past(w, n, q)'
    PROVE  Past(w, n, q) \/ q = r
<1> DEFINE plan == Plan[w][0]
<1>0. /\ status = [i \in Jobs |-> status[i]] /\ at = [i \in Jobs |-> at[i]]
      /\ left = [i \in Jobs |-> left[i]]
  BY DEF ControlInv, TypeOK, ReqInv
<1>1. Plan[w][ver'[w]] = plan
  BY StatePlans
<1>2. ~EarlyReturn(w, got'[w])
  BY DEF EarlyReturn, TurnOps
<1>3. n \in 1..Len(plan) /\ q \in plan[n].reqs
  BY DEF Past
<1>4. at[w] \in 1..Len(plan) /\ Len(plan) \in Nat
  <2>1. 0 \in 0..MaxVersion
    BY LayoutAssumption
  <2>2. Len(plan) \in 1..5
    BY <2>1, PlanFacts DEF PlanShape
  <2> QED
    BY <2>2 DEF ControlInv, ReqInv
<1>5. ASSUME n <= at[w] PROVE Past(w, n, q) \/ q = r
  <2>1. n < at[w] \/ n = at[w]
    BY <1>3, <1>4, <1>5
  <2> QED
    BY <1>3, <2>1 DEF Past
<1>6. CASE at[w] = Len(plan)
  BY <1>3, <1>4, <1>5, <1>6
<1>7. CASE at[w] # Len(plan)
  <2>1. /\ at' = [at EXCEPT ![w] = at[w] + 1] /\ status' = status
        /\ left' = [left EXCEPT ![w] = plan[at[w] + 1].reqs]
    BY <1>1, <1>2, <1>7 DEF Proceed, Send
  <2>2. at'[w] = at[w] + 1 /\ left'[w] = plan[at[w] + 1].reqs
    BY <1>0, <2>1
  <2>3. n < at[w] + 1 \/ (n = at[w] + 1 /\ q \notin plan[at[w] + 1].reqs)
    BY <2>1, <2>2 DEF Past
  <2>4. n < at[w] + 1
    BY <1>3, <2>3
  <2> QED
    BY <1>3, <1>4, <1>5, <2>4
<1> QED
  BY <1>6, <1>7

\* A call gets past a request when the request is served.
LEMMA NewlyPast ==
    ASSUME ControlInv, [Next]_vars, NEW w \in Jobs, Job[w].op \in TurnOps, NEW n, NEW q, Past(w, n, q)'
    PROVE  \/ Past(w, n, q) /\ (Resend(w) => n < at[w])
           \/ q \in left[w] /\ (Apply(w, q) \/ Answer(w, q) \/ Unread(w, q))
<1> DEFINE plan == Plan[w][0]
<1>0. /\ status = [i \in Jobs |-> status[i]] /\ at = [i \in Jobs |-> at[i]]
      /\ left = [i \in Jobs |-> left[i]]
  BY DEF ControlInv, TypeOK, ReqInv
<1>1. n \in 1..Len(plan) /\ q \in plan[n].reqs /\ status'[w] \in {"done", "busy"}
  BY DEF Past
<1>a. CASE Resend(w)
  <2>1. status[w] = "busy" /\ status' = status /\ at' = at /\ left' = [left EXCEPT ![w] = Now(w).reqs]
    BY <1>a DEF Resend, Send
  <2>2. left'[w] = plan[at[w]].reqs
    <3>1. ver[w] \in 0..MaxVersion
      BY DEF ControlInv, TypeOK
    <3>2. Plan[w][ver[w]] = plan
      BY <3>1, StatePlans
    <3> QED
      BY <1>0, <2>1, <3>2 DEF Now
  <2> QED
    BY <1>1, <2>1, <2>2 DEF Past
<1>b. CASE ~Resend(w)
  <2>1. CASE Idle(w)
    BY <1>b, <2>1 DEF Idle, Past
  <2>2. CASE Begin(w)
    <3>1. /\ status' = [status EXCEPT ![w] = "busy"] /\ at' = [at EXCEPT ![w] = 1]
          /\ left' = [left EXCEPT ![w] = plan[1].reqs]
      BY <2>2 DEF Begin, End, Send
    <3>2. status'[w] = "busy" /\ at'[w] = 1 /\ left'[w] = plan[1].reqs
      BY <1>0, <3>1
    <3>3. n < 1 \/ (n = 1 /\ q \notin plan[1].reqs)
      BY <3>2 DEF Past
    <3> QED
      BY <1>1, <3>3
  <2>3. CASE Fail(w) \/ \E r \in left[w] : Raise(w, r)
    <3>1. \/ status' = [status EXCEPT ![w] = "failed"] \/ status' = [status EXCEPT ![w] = "noindex"]
      BY <2>3 DEF Fail, Raise, End
    <3> QED
      BY <1>0, <1>1, <3>1
  <2>4. ASSUME NEW r \in left[w], status' = status, at' = at, left' = [left EXCEPT ![w] = left[w] \ {r}]
        PROVE  Past(w, n, q) \/ q = r
    <3>1. left'[w] = left[w] \ {r}
      BY <1>0, <2>4
    <3> QED
      BY <2>4, <3>1 DEF Past
  <2>5. ASSUME NEW r \in left[w], Apply(w, r) PROVE Past(w, n, q) \/ q = r
    BY <2>4, <2>5 DEF Apply, Send
  <2>6. ASSUME NEW r \in left[w], Answer(w, r) PROVE Past(w, n, q) \/ q = r
    <3>1. status[w] = "busy" /\ left[w] = {r} /\ Proceed(w) /\ InBound(r) /\ Receive(w, r)
      BY <2>6 DEF Answer
    <3>2. ver'[w] \in 0..MaxVersion
      BY <3>1, ReceiveFacts
    <3> QED
      BY <3>1, <3>2, ProceedPast
  <2>7. ASSUME NEW r \in left[w], Unread(w, r) PROVE Past(w, n, q) \/ q = r
    <3>1. CASE left[w] # {r}
      BY <2>4, <2>7, <3>1 DEF Unread, Send
    <3>2. CASE left[w] = {r}
      <4>1. status[w] = "busy" /\ Proceed(w) /\ ver' = ver
        BY <2>7, <3>2 DEF Unread
      <4>2. ver'[w] \in 0..MaxVersion
        BY <4>1 DEF ControlInv, TypeOK
      <4> QED
        BY <3>2, <4>1, <4>2, ProceedPast
    <3> QED
      BY <3>1, <3>2
  <2> QED
    BY <1>b, <2>1, <2>2, <2>3, <2>5, <2>6, <2>7, Turns DEF Turn
<1> QED
  BY <1>a, <1>b


-----------------------------------------------------------------------------
(* Fresh state: whose writes may follow those of an earlier call.          *)

\* Calls that had ended when another began have ended, and what arrives late
\* is of a call that knows that a write of it went unanswered.
EndedInv == \A l \in Jobs : \A w \in before[l] : w \in Jobs /\ status[w] \in Ended
UnsureInv == \A q \in late : \E j \in unsure \cap BegunJobs : q \in Requests(j)

LEMMA EndedInit == Init => EndedInv
  BY DEF Init, EndedInv

LEMMA EndedNext == ASSUME ControlInv, EndedInv, [Next]_vars PROVE EndedInv'
<1> SUFFICES ASSUME NEW l \in Jobs, NEW w \in before'[l] PROVE w \in Jobs /\ status'[w] \in Ended
  BY DEF EndedInv
<1>0. before \in [Jobs -> SUBSET Jobs]
  BY DEF ControlInv, TypeOK
<1>1. w \in Jobs /\ status[w] \in Ended
  <2>1. CASE Begin(l)
    <3>1. before' = [before EXCEPT ![l] = {i \in Jobs : status[i] \in Ended}]
      BY <2>1 DEF Begin
    <3> QED
      BY <1>0, <3>1
  <2>2. CASE before'[l] = before[l]
    BY <2>2 DEF EndedInv
  <2> QED
    BY <2>1, <2>2, Turns, TurnFacts DEF Idle
<1> QED
  BY <1>1, EndedStays DEF Idle

LEMMA EndedAlways == Spec => []EndedInv
<1>1. EndedInv /\ ControlInv /\ [Next]_vars => EndedInv'
  BY EndedNext
<1> QED
  BY <1>1, EndedInit, ControlAlways, PTL DEF Spec

LEMMA LosesUnsure ==
    ASSUME ControlInv, NEW j \in Jobs, status[j] = "busy", Loses(j)
    PROVE  /\ unsure \subseteq unsure' /\ unread' = unread
           /\ \A q \in late' : q \in late \/ (q \in Requests(j) /\ j \in unsure')
<1>1. unsure' = IF \E q \in Now(j).reqs : IsWrite(q) THEN unsure \cup {j} ELSE unsure
  BY DEF Loses
<1>2. ASSUME NEW q \in late', q \notin late PROVE q \in left[j] /\ IsWrite(q)
  BY <1>2 DEF Loses
<1>3. left[j] \subseteq Now(j).reqs /\ Now(j).reqs \subseteq Requests(j)
  BY NowFacts
<1>4. ASSUME NEW q \in late', q \notin late PROVE q \in Requests(j) /\ j \in unsure'
  BY <1>1, <1>2, <1>3, <1>4
<1>5. unsure \subseteq unsure' /\ unread' = unread
  BY <1>1 DEF Loses
<1> QED
  BY <1>4, <1>5

\* Nobody becomes sure again, and no failed read is forgotten.
HistoryStep ==
    /\ unsure \subseteq unsure' /\ unread \subseteq unread'
    /\ \A r \in Jobs : \A q \in left[r] : Unread(r, q) => r \in unread'
    /\ \A q \in late' : q \in late \/ \E j \in Jobs : status[j] = "busy" /\ q \in Requests(j) /\ j \in unsure'

LEMMA HistoryNext == ASSUME ControlInv, [Next]_vars PROVE HistoryStep
<1>0. \A r \in Jobs : \A q \in left[r] : Unread(r, q) => r \in unread'
  BY DEF Unread
<1>1. ASSUME unsure' = unsure, late' \subseteq late, unread \subseteq unread' PROVE HistoryStep
  BY <1>0, <1>1 DEF HistoryStep
<1>2. CASE UNCHANGED vars
  BY <1>1, <1>2 DEF vars, hist
<1>3. ASSUME NEW p \in Processes, NEW s \in Services, Construct(p, s) \/ ConstructFails(p, s)
      PROVE  HistoryStep
  BY <1>1, <1>3 DEF Construct, ConstructFails, hist
<1>4. ASSUME NEW j \in Jobs, Begin(j) PROVE HistoryStep
  BY <1>1, <1>4 DEF Begin, hist
<1>5. ASSUME NEW j \in Jobs, Fail(j) \/ Resend(j) PROVE HistoryStep
  <2>1. status[j] = "busy" /\ Loses(j)
    BY <1>5 DEF Fail, Resend
  <2> QED
    BY <1>0, <2>1, LosesUnsure DEF HistoryStep
<1>6. ASSUME NEW j \in Jobs, NEW q \in left[j], Apply(j, q) \/ Answer(j, q) \/ Raise(j, q)
      PROVE  HistoryStep
  BY <1>1, <1>6 DEF Apply, Answer, Raise, hist
<1>7. ASSUME NEW j \in Jobs, NEW q \in left[j], Unread(j, q) PROVE HistoryStep
  BY <1>1, <1>7 DEF Unread
<1>8. ASSUME NEW q \in late, ApplyLate(q) PROVE HistoryStep
  BY <1>1, <1>8 DEF ApplyLate
<1> QED
  BY <1>2, <1>3, <1>4, <1>5, <1>6, <1>7, <1>8 DEF Next

LEMMA UnsureInit == Init => UnsureInv
  BY DEF Init, UnsureInv

LEMMA UnsureNext == ASSUME ControlInv, UnsureInv, [Next]_vars PROVE UnsureInv'
<1> SUFFICES ASSUME NEW q \in late' PROVE \E j \in unsure' \cap BegunJobs' : q \in Requests(j)
  BY DEF UnsureInv, Requests, IfOp
<1>1. HistoryStep /\ BegunJobs \subseteq BegunJobs'
  BY HistoryNext, BegunNext
<1>2. CASE q \in late
  BY <1>1, <1>2 DEF UnsureInv, HistoryStep
<1>3. ASSUME NEW j \in Jobs, status[j] = "busy", q \in Requests(j), j \in unsure'
      PROVE  \E i \in unsure' \cap BegunJobs' : q \in Requests(i)
  <2>1. j \in BegunJobs
    BY <1>3 DEF BegunJobs, Begun
  <2> QED
    BY <1>1, <1>3, <2>1
<1> QED
  BY <1>1, <1>2, <1>3 DEF HistoryStep

LEMMA UnsureAlways == Spec => []UnsureInv
<1>1. UnsureInv /\ ControlInv /\ [Next]_vars => UnsureInv'
  BY UnsureNext
<1> QED
  BY <1>1, UnsureInit, ControlAlways, PTL DEF Spec

\* What a call may count on not to be written after its own: the values of calls
\* that had ended before it began, except of those with an unanswered write.
Old(w) == before[w] \ unsure

\* A step leaves the records alone or serves a request of a call whose values
\* are not old for anybody.
ServesFresh ==
    store' = store \/
    \E j \in BegunJobs : \E p \in Requests(j) : store' = After(p) /\ \A w \in Jobs : j \notin Old(w)

LEMMA FreshServes == ASSUME ControlInv, EndedInv, UnsureInv, [Next]_vars PROVE ServesFresh
<1>1. ASSUME NEW j \in Jobs, NEW p \in Requests(j), Due(j, p), store' = After(p) PROVE ServesFresh
  <2>1. CASE p \in left[j]
    <3>1. status[j] = "busy" /\ j \in BegunJobs
      BY <2>1, LeftFacts DEF BegunJobs, Begun
    <3>2. \A w \in Jobs : j \notin Old(w)
      BY <3>1 DEF Old, EndedInv, Ended
    <3> QED
      BY <1>1, <3>1, <3>2 DEF ServesFresh
  <2>2. CASE p \in late
    <3>1. PICK i \in unsure \cap BegunJobs : p \in Requests(i)
      BY <2>2 DEF UnsureInv
    <3>2. \A w \in Jobs : i \notin Old(w)
      BY <3>1 DEF Old
    <3> QED
      BY <1>1, <3>1, <3>2 DEF ServesFresh
  <2> QED
    BY <1>1, <2>1, <2>2 DEF Due
<1> QED
  BY <1>1, NextServes DEF Serves, ServesFresh


-----------------------------------------------------------------------------
(* Fresh state: what a call wrote stays, or newer values are there.        *)

StateReq(q) == Stores(q) /\ "state" \in DOMAIN q.bins

\* The record has the entries that q writes, with values that are not in O.
Fresh(bins, q, O) ==
    /\ "state" \in DOMAIN bins
    /\ \A k \in DOMAIN q.bins["state"] : k \in DOMAIN bins["state"] /\ bins["state"][k] \notin O
Landed(recs, q, O) == q.place.pk \in DOMAIN recs /\ Fresh(recs[q.place.pk], q, O)

\* Nobody has begun to remove the record.
Standing(w, x) == x = SessionPlace(Job[w]) => ~Deleted(w)

LEMMA StatePlace ==
    ASSUME NEW w \in Jobs, NEW q \in Requests(w), StateReq(q)
    PROVE  /\ Job[w].op \in StateOps /\ q.do \in {"create", "write"}
           /\ q.place \in {SessionPlace(Job[w]), AppPlace(Job[w]), UserPlace(Job[w])}
           /\ \A k \in DOMAIN q.bins["state"] : q.bins["state"][k] = w
<1>1. Stores(q) /\ "state" \in DOMAIN q.bins
  BY DEF StateReq
<1>2. Creates(w, q) \/ Updates(w, q)
  <2>1. Lists(w, q) \/ Events(w, q) \/ Counts(w, q) \/ Versions(w, q) \/ Rows(w, q) \/ Posts(w, q)
        => "state" \notin DOMAIN q.bins
    BY RequestBins
  <2> QED
    BY <1>1, <2>1, Storing
<1>3. q.do \in {"create", "write"}
      /\ q.place \in {SessionPlace(Job[w]), AppPlace(Job[w]), UserPlace(Job[w])}
  BY <1>2, RequestParts
<1>4. Job[w].op \in StateOps
  BY <1>2 DEF Creates, Updates, StateOps
<1>5. Known(q.place.pk, q.bins, {w})
  BY <1>1, RequestKnown
<1>6. \A k \in DOMAIN q.bins["state"] : q.bins["state"][k] = w
  BY <1>1, <1>5 DEF Known
<1> QED
  BY <1>3, <1>4, <1>6

LEMMA MergedFresh ==
    ASSUME NEW old, NEW new, NEW q, NEW O, Fresh(old, q, O),
           "state" \in DOMAIN new => \A k \in DOMAIN new["state"] : new["state"][k] \notin O
    PROVE  Fresh(Merged(old, new), q, O)
<1>0. DOMAIN Merged(old, new) = DOMAIN old \cup DOMAIN new /\ "state" \in DOMAIN old
  BY MergedBins DEF Fresh
<1>1. CASE "state" \notin DOMAIN new
  <2>1. Merged(old, new)["state"] = old["state"]
    BY <1>0, <1>1, MergedOld
  <2> QED
    BY <1>0, <2>1 DEF Fresh
<1>2. CASE "state" \in DOMAIN new
  <2>1. Merged(old, new)["state"] = Over(old["state"], new["state"])
    BY <1>0, <1>2, MergedState
  <2> DEFINE f == old["state"]
             g == new["state"]
  <2>2. /\ DOMAIN Over(f, g) = DOMAIN f \cup DOMAIN g
        /\ \A x \in DOMAIN g : Over(f, g)[x] = g[x]
        /\ \A x \in DOMAIN f \ DOMAIN g : Over(f, g)[x] = f[x]
    BY OverFacts
  <2>3. \A k \in DOMAIN q.bins["state"] : k \in DOMAIN f /\ f[k] \notin O
    BY DEF Fresh
  <2>4. \A k \in DOMAIN q.bins["state"] : k \in DOMAIN Over(f, g) /\ Over(f, g)[k] \notin O
    BY <1>2, <2>2, <2>3
  <2> QED
    BY <1>0, <2>1, <2>4 DEF Fresh
<1> QED
  BY <1>1, <1>2

LEMMA MergedOwn ==
    ASSUME NEW old, NEW q, NEW O, "state" \in DOMAIN q.bins,
           \A k \in DOMAIN q.bins["state"] : q.bins["state"][k] \notin O
    PROVE  Fresh(Merged(old, q.bins), q, O)
<1>0. DOMAIN Merged(old, q.bins) = DOMAIN old \cup DOMAIN q.bins
  BY MergedBins
<1>1. CASE "state" \notin DOMAIN old
  <2>1. Merged(old, q.bins)["state"] = q.bins["state"]
    BY <1>1, MergedNew
  <2> QED
    BY <1>0, <2>1 DEF Fresh
<1>2. CASE "state" \in DOMAIN old
  <2>1. Merged(old, q.bins)["state"] = Over(old["state"], q.bins["state"])
    BY <1>2, MergedState
  <2> DEFINE f == old["state"]
             g == q.bins["state"]
  <2>2. /\ DOMAIN Over(f, g) = DOMAIN f \cup DOMAIN g
        /\ \A x \in DOMAIN g : Over(f, g)[x] = g[x]
        /\ \A x \in DOMAIN f \ DOMAIN g : Over(f, g)[x] = f[x]
    BY OverFacts
  <2> QED
    BY <1>0, <2>1, <2>2 DEF Fresh
<1> QED
  BY <1>1, <1>2

\* A request of another call takes nothing away and puts nothing old.
LEMMA StoreLands ==
    ASSUME WellNamed, NEW w \in Jobs, NEW q \in Requests(w), StateReq(q), Standing(w, q.place),
           NEW j \in BegunJobs, NEW p \in Requests(j), NEW O, j \notin O, Landed(store, q, O)
    PROVE  Landed(After(p), q, O)
<1> DEFINE pk == q.place.pk
           new == After(p)[pk]
<1>0. j \in Jobs /\ pk \in DOMAIN store /\ Fresh(store[pk], q, O)
  BY DEF BegunJobs, Landed
<1>1. Effect(p, p.place.pk, After(p))
  BY <1>0, RequestFacts, AfterFacts
<1>2. q.place \in {SessionPlace(Job[w]), AppPlace(Job[w]), UserPlace(Job[w])}
  BY StatePlace
<1>3. CASE p.place.pk # pk
  BY <1>0, <1>1, <1>3 DEF Effect, Landed
<1>4. CASE p.place.pk = pk
  <2>1. p.do # "remove"
    <3>1. CASE q.place = SessionPlace(Job[w])
      BY <1>0, <1>4, <3>1, RemovesNone DEF Standing, Findable
    <3>2. CASE q.place \in {AppPlace(Job[w]), UserPlace(Job[w])}
      <4>1. pk[1] # "sessions"
        BY <3>2, PlaceSets
      <4>2. p.do = "remove" => Removes(j, p)
        BY <1>0, Kinds, RequestParts
      <4> QED
        BY <1>0, <1>4, <4>1, <4>2, RequestParts
    <3> QED
      BY <1>2, <3>1, <3>2
  <2>2. p.do # "increment"
    <3>1. pk[1] # "artifacts"
      BY <1>2, PlaceSets
    <3> QED
      BY <1>0, <1>4, <3>1, RequestFacts
  <2>3. pk \in DOMAIN After(p) /\ Becomes(p, pk, new)
    BY <1>0, <1>1, <1>4, <2>1 DEF Effect
  <2>4. CASE new = store[pk]
    BY <1>0, <2>3, <2>4 DEF Landed
  <2>5. CASE p.do = "write" /\ new = Merged(Bins(pk), p.bins)
    <3>1. Bins(pk) = store[pk]
      BY <1>0 DEF Bins
    <3>2. "state" \in DOMAIN p.bins => \A k \in DOMAIN p.bins["state"] : p.bins["state"][k] \notin O
      BY <1>0, <2>5, StatePlace DEF StateReq, Stores
    <3>3. Fresh(Merged(store[pk], p.bins), q, O)
      BY <1>0, <3>2, MergedFresh
    <3> QED
      BY <2>3, <2>5, <3>1, <3>3 DEF Landed
  <2>6. CASE new = Unlisted(store[pk], p.bins.sman)
    <3>0. "state" \in DOMAIN store[pk]
      BY <1>0 DEF Fresh
    <3>1. DOMAIN new = DOMAIN store[pk]
      BY <2>6, UnlistedBins
    <3>2. new["state"] = store[pk]["state"]
      BY <2>6, <3>0, UnlistedOther
    <3> QED
      BY <1>0, <2>3, <3>0, <3>1, <3>2 DEF Landed, Fresh
  <2> QED
    BY <1>0, <2>2, <2>3, <2>4, <2>5, <2>6 DEF Becomes
<1> QED
  BY <1>3, <1>4

\* A request that is applied puts its entries.
LEMMA StateLands ==
    ASSUME NEW w \in Jobs, NEW q \in Requests(w), StateReq(q), ~Refused(q), NEW O, w \notin O
    PROVE  Landed(After(q), q, O)
<1> DEFINE pk == q.place.pk
<1>1. /\ q.do \in {"create", "write"} /\ "state" \in DOMAIN q.bins
      /\ \A k \in DOMAIN q.bins["state"] : q.bins["state"][k] = w
  BY StatePlace DEF StateReq
<1>2. CASE q.do = "create"
  <2>1. pk \in DOMAIN After(q) /\ After(q)[pk] = q.bins
    BY <1>2, Created
  <2> QED
    BY <1>1, <2>1 DEF Landed, Fresh
<1>3. CASE q.do = "write"
  <2> DEFINE bins == Merged(Bins(pk), q.bins)
  <2>1. After(q) = Put(pk, bins)
    BY <1>3 DEF After
  <2>2. Fresh(bins, q, O)
    BY <1>1, MergedOwn
  <2> HIDE DEF bins
  <2>3. /\ DOMAIN Put(pk, bins) = DOMAIN store \cup {pk} /\ Put(pk, bins)[pk] = bins
        /\ \A p \in DOMAIN store \ {pk} : Put(pk, bins)[p] = store[p]
    BY PutFacts
  <2> QED
    BY <2>1, <2>2, <2>3 DEF Landed
<1> QED
  BY <1>1, <1>2, <1>3

LEMMA LandedLess ==
    ASSUME NEW recs, NEW q, NEW O, NEW P, Landed(recs, q, O), P \subseteq O
    PROVE  Landed(recs, q, P)
  BY DEF Landed, Fresh

\* Call w is past the request q, which writes a state record that stands.
Wrought(w, n, q) == StateReq(q) /\ Past(w, n, q) /\ Standing(w, q.place)
LandInv ==
    \A w \in Jobs : Job[w].op \in StateOps =>
        \A n \in 1..Len(Plan[w][0]) : \A q \in Plan[w][0][n].reqs :
            Wrought(w, n, q) => Landed(store, q, Old(w))

LEMMA PlannedRequest ==
    ASSUME NEW w \in Jobs, NEW n \in 1..Len(Plan[w][0]), NEW q \in Plan[w][0][n].reqs
    PROVE  q \in Requests(w)
<1>1. 0 \in 0..MaxVersion
  BY LayoutAssumption
<1>2. Plan[w][0] \in Seq(StagesOf(w))
  BY <1>1, PlanFacts DEF PlanShape
<1>3. Plan[w][0][n] \in StagesOf(w)
  BY <1>2
<1> QED
  BY <1>3 DEF StagesOf

\* Calls that are past a request have begun before.
LEMMA OldShrinks ==
    ASSUME ControlInv, [Next]_vars, NEW w \in Jobs, status[w] # "start"
    PROVE  before'[w] = before[w] /\ Old(w)' \subseteq Old(w)
<1>1. before'[w] = before[w]
  BY Turns, TurnFacts DEF Idle
<1>2. unsure \subseteq unsure'
  BY HistoryNext DEF HistoryStep
<1> QED
  BY <1>1, <1>2 DEF Old

LEMMA LandInit == Init => LandInv
<1> SUFFICES ASSUME Init PROVE LandInv
  OBVIOUS
<1>1. \A j \in Jobs : status[j] \in {"absent", "start"}
  BY DEF Init
<1> QED
  BY <1>1 DEF LandInv, Wrought, Past

LEMMA LandNext ==
    ASSUME WellNamed, ControlInv, EndedInv, UnsureInv, LandInv, [Next]_vars
    PROVE  LandInv'
<1> SUFFICES ASSUME NEW w \in Jobs, Job[w].op \in StateOps, NEW n \in 1..Len(Plan[w][0]),
                    NEW q \in Plan[w][0][n].reqs, Wrought(w, n, q)'
             PROVE  Landed(store', q, Old(w)')
  BY DEF LandInv, Landed, Fresh
<1>0. Job[w].op \in TurnOps /\ q \in Requests(w)
  BY PlannedRequest DEF StateOps, TurnOps
<1>1. StateReq(q) /\ Past(w, n, q)' /\ Standing(w, q.place)
  BY DeletedNext DEF Wrought, StateReq, Stores, Standing
<1>2. CASE Past(w, n, q)
  <2>1. Landed(store, q, Old(w))
    BY <1>1, <1>2 DEF LandInv, Wrought
  <2>2. Landed(store', q, Old(w))
    <3>1. ASSUME NEW j \in BegunJobs, NEW p \in Requests(j), store' = After(p), j \notin Old(w)
          PROVE  Landed(store', q, Old(w))
      <4>1. Landed(After(p), q, Old(w))
        BY <1>0, <1>1, <2>1, <3>1, StoreLands
      <4> QED
        BY <3>1, <4>1
    <3> QED
      BY <2>1, <3>1, FreshServes DEF ServesFresh
  <2>3. status[w] # "start"
    BY <1>2 DEF Past
  <2> QED
    BY <2>2, <2>3, OldShrinks, LandedLess
<1>3. CASE q \in left[w] /\ (Apply(w, q) \/ Answer(w, q) \/ Unread(w, q))
  <2>1. q.do # "read" /\ status[w] = "busy"
    BY <1>0, <1>1, <1>3, LeftFacts DEF StateReq, Stores
  <2>2. store' = After(q) /\ ~Refused(q)
    BY <1>3, <2>1 DEF Apply, Answer, Unread
  <2>3. w \notin Old(w)
    BY <2>1 DEF Old, EndedInv, Ended
  <2>4. Landed(After(q), q, Old(w))
    BY <1>0, <1>1, <2>2, <2>3, StateLands
  <2>5. Landed(store', q, Old(w))
    BY <2>2, <2>4
  <2> QED
    BY <2>1, <2>5, OldShrinks, LandedLess
<1> QED
  BY <1>0, <1>1, <1>2, <1>3, NewlyPast

LEMMA LandAlways == ASSUME WellNamed PROVE Spec => []LandInv
<1>1. LandInv /\ ControlInv /\ EndedInv /\ UnsureInv /\ [Next]_vars => LandInv'
  BY LandNext
<1> QED
  BY <1>1, LandInit, ControlAlways, EndedAlways, UnsureAlways, PTL DEF Spec


-----------------------------------------------------------------------------
(* Fresh state: what a later call reads.                                   *)

ReadOps == {"create_session", "get_session"}

\* Among what a call has read is what earlier calls had written.
ReadFresh(r, x) ==
    \A w \in before[r] : Job[w].op \in StateOps /\ status[w] = "done" =>
        \A n \in 1..Len(Plan[w][0]) : \A p \in Plan[w][0][n].reqs :
            Wrought(w, n, p) /\ p.place.pk = x => Landed(got[r], p, Old(w))
ReadInv ==
    \A r \in Jobs : Job[r].op \in ReadOps /\ r \notin unread =>
        \A n \in 1..Len(Plan[r][0]) : \A q \in Plan[r][0][n].reqs :
            q.do = "read" /\ Past(r, n, q) => ReadFresh(r, q.place.pk)

\* A record that is there stays so, as it was read or as it is, when another
\* answer arrives.
LEMMA GotKeeps ==
    ASSUME ControlInv, [Next]_vars, NEW r \in Jobs, ~Resend(r)
    PROVE  \A pk \in DOMAIN got[r] :
               /\ pk \in DOMAIN got'[r]
               /\ \/ got'[r][pk] = got[r][pk]
                  \/ pk \in DOMAIN store /\ got'[r][pk] = store[pk]
<1>1. DOMAIN got[r] \subseteq DOMAIN got'[r]
  <2>1. CASE Idle(r)
    BY <2>1 DEF Idle
  <2>2. CASE Begin(r) \/ Fail(r) \/ \E q \in left[r] : Raise(r, q)
    BY <2>2 DEF Begin, Fail, Raise
  <2> QED
    BY <2>1, <2>2, Turns, GotGrows DEF Turn
<1> QED
  BY <1>1, GotNext DEF GotStep

\* The answer to a read is the record.
LEMMA ReadGets ==
    ASSUME ControlInv, NEW r \in Jobs, NEW q \in left[r], q.do = "read", q.place.pk \in DOMAIN store,
           Apply(r, q) \/ Answer(r, q)
    PROVE  q.place.pk \in DOMAIN got'[r] /\ got'[r][q.place.pk] = store[q.place.pk]
<1>1. InBound(q) /\ Receive(r, q)
  BY DEF Apply, Answer
<1>2. got'[r] = Over(got[r], Answered(q))
  BY <1>1, ReceiveFacts
<1>3. q.place.pk \in DOMAIN Answered(q) /\ Answered(q)[q.place.pk] = store[q.place.pk]
  BY DEF Answered, Gives
<1> DEFINE f == got[r]
           g == Answered(q)
<1>4. /\ DOMAIN Over(f, g) = DOMAIN f \cup DOMAIN g
      /\ \A x \in DOMAIN g : Over(f, g)[x] = g[x]
      /\ \A x \in DOMAIN f \ DOMAIN g : Over(f, g)[x] = f[x]
  BY OverFacts
<1> QED
  BY <1>2, <1>3, <1>4

LEMMA ReadInit == Init => ReadInv
<1> SUFFICES ASSUME Init PROVE ReadInv
  OBVIOUS
<1>1. \A j \in Jobs : status[j] \in {"absent", "start"}
  BY DEF Init
<1> QED
  BY <1>1 DEF ReadInv, Past

LEMMA ReadNext ==
    ASSUME WellNamed, ControlInv, EndedInv, LandInv, ReadInv, [Next]_vars
    PROVE  ReadInv'
<1> SUFFICES ASSUME NEW r \in Jobs, Job[r].op \in ReadOps, r \notin unread',
                    NEW n \in 1..Len(Plan[r][0]), NEW q \in Plan[r][0][n].reqs,
                    q.do = "read", Past(r, n, q)'
             PROVE  ReadFresh(r, q.place.pk)'
  BY DEF ReadInv
<1>0. Job[r].op \in TurnOps /\ Job[r].op # "append_event" /\ r \notin unread
  BY HistoryNext DEF ReadOps, TurnOps, HistoryStep
<1>1. status[r] # "start"
  <2>1. CASE Past(r, n, q)
    BY <2>1 DEF Past
  <2>2. CASE q \in left[r]
    BY <2>2, LeftFacts
  <2> QED
    BY <1>0, <2>1, <2>2, NewlyPast
<1>2. SUFFICES ASSUME NEW w \in before'[r], Job[w].op \in StateOps, status'[w] = "done",
                      NEW m \in 1..Len(Plan[w][0]), NEW p \in Plan[w][0][m].reqs,
                      Wrought(w, m, p)', p.place.pk = q.place.pk
               PROVE  Landed(got'[r], p, Old(w)')
  BY DEF ReadFresh, Landed, Fresh
<1>3. w \in before[r] /\ w \in Jobs /\ status[w] = "done" /\ Old(w)' \subseteq Old(w)
  <2>1. w \in before[r]
    BY <1>1, OldShrinks
  <2>2. w \in Jobs /\ status[w] \in Ended
    BY <2>1 DEF EndedInv
  <2>3. status'[w] = status[w] /\ status[w] # "start"
    BY <2>2, EndedStays DEF Idle, Ended
  <2> QED
    BY <1>2, <2>1, <2>2, <2>3, OldShrinks
<1>4. Wrought(w, m, p)
  BY <1>2, <1>3, DeletedNext DEF Wrought, StateReq, Stores, Standing, Past
<1>5. Landed(store, p, Old(w))
  BY <1>2, <1>3, <1>4 DEF LandInv
<1>6. CASE q \in left[r] /\ (Apply(r, q) \/ Answer(r, q) \/ Unread(r, q))
  <2>1. Apply(r, q) \/ Answer(r, q)
    BY <1>6, HistoryNext DEF HistoryStep
  <2>2. q.place.pk \in DOMAIN store
    BY <1>2, <1>5 DEF Landed
  <2>3. q.place.pk \in DOMAIN got'[r] /\ got'[r][q.place.pk] = store[q.place.pk]
    BY <1>6, <2>1, <2>2, ReadGets
  <2>4. Landed(got'[r], p, Old(w))
    BY <1>2, <1>5, <2>3 DEF Landed
  <2> QED
    BY <1>3, <2>4, LandedLess
<1>7. CASE Past(r, n, q) /\ (Resend(r) => n < at[r])
  <2>1. ~Resend(r)
    <3>1. n = Len(Plan[r][0])
      BY <1>0, StatePlans
    <3>2. status[r] = "busy" => at[r] \in 1..Len(Plan[r][0])
      BY DEF ControlInv, ReqInv
    <3>3. Len(Plan[r][0]) \in Nat
      <4>1. 0 \in 0..MaxVersion
        BY LayoutAssumption
      <4>2. Len(Plan[r][0]) \in 1..5
        BY <4>1, PlanFacts DEF PlanShape
      <4> QED
        BY <4>2
    <3>4. \A k \in Nat : \A a \in 1..k : ~(k < a)
      OBVIOUS
    <3>5. Resend(r) => status[r] = "busy"
      BY DEF Resend
    <3> QED
      BY <1>7, <3>1, <3>2, <3>3, <3>4, <3>5
  <2>2. Landed(got[r], p, Old(w))
    <3>1. ReadFresh(r, q.place.pk)
      BY <1>0, <1>7 DEF ReadInv
    <3> QED
      BY <1>2, <1>3, <1>4, <3>1 DEF ReadFresh
  <2> DEFINE pk == p.place.pk
  <2>3. pk \in DOMAIN got[r]
    BY <2>2 DEF Landed
  <2>4. /\ pk \in DOMAIN got'[r]
        /\ got'[r][pk] = got[r][pk] \/ (pk \in DOMAIN store /\ got'[r][pk] = store[pk])
    BY <2>1, <2>3, GotKeeps
  <2>5. Landed(got'[r], p, Old(w))
    BY <1>5, <2>2, <2>4 DEF Landed
  <2> QED
    BY <1>3, <2>5, LandedLess
<1> QED
  BY <1>0, <1>6, <1>7, NewlyPast

LEMMA ReadAlways == ASSUME WellNamed PROVE Spec => []ReadInv
<1>1. ReadInv /\ ControlInv /\ EndedInv /\ LandInv /\ [Next]_vars => ReadInv'
  BY ReadNext
<1> QED
  BY <1>1, ReadInit, ControlAlways, EndedAlways, LandAlways, PTL DEF Spec

-----------------------------------------------------------------------------
(* Fresh state: a create does not meet a session that exists.              *)

Creator(c, w) == Job[c].op = "create_session" /\ SameSession(c, w) /\ status[c] = "done"
HandedInv ==
    \A w \in Jobs : Job[w].op = "append_event" /\ Begun(w) => \E c \in Jobs : Creator(c, w)

LEMMA HandedInit == Init => HandedInv
<1> SUFFICES ASSUME Init PROVE HandedInv
  OBVIOUS
<1>1. \A j \in Jobs : status[j] \in {"absent", "start"}
  BY DEF Init
<1> QED
  BY <1>1 DEF HandedInv, Begun

LEMMA HandedNext == ASSUME ControlInv, HandedInv, [Next]_vars PROVE HandedInv'
<1> SUFFICES ASSUME NEW w \in Jobs, Job[w].op = "append_event", Begun(w)'
             PROVE  \E c \in Jobs : Creator(c, w)'
  BY DEF HandedInv
<1>1. \E c \in Jobs : Creator(c, w)
  <2>1. CASE Begin(w)
    <3>1. Handed(w)
      BY <2>1 DEF Begin
    <3> QED
      BY <3>1 DEF Handed, Creator
  <2>2. CASE ~Begin(w)
    <3>1. Begun(w)
      BY <2>2, Turns, TurnFacts DEF Idle, Begun
    <3> QED
      BY <3>1 DEF HandedInv
  <2> QED
    BY <2>1, <2>2
<1>2. PICK c \in Jobs : Creator(c, w)
  BY <1>1
<1>3. status'[c] = "done"
  BY <1>2, EndedStays DEF Creator, Ended, Idle
<1>4. Creator(c, w)'
  BY <1>2, <1>3 DEF Creator, SameSession
<1> QED
  BY <1>4

LEMMA HandedAlways == Spec => []HandedInv
<1>1. HandedInv /\ ControlInv /\ [Next]_vars => HandedInv'
  BY HandedNext
<1> QED
  BY <1>1, HandedInit, ControlAlways, PTL DEF Spec

Earlier(w, r) ==
    w \in before[r] /\ Job[w].op \in StateOps /\ SameSession(w, r) /\ status[w] = "done"
FirstInv ==
    \A r \in Jobs : Job[r].op = "create_session" /\ ~Deleted(r) =>
        \A w \in Jobs : Earlier(w, r) => ~Stored(r)

LEMMA SessionThere ==
    ASSUME KeptInv, HandedInv, NEW r \in Jobs, ~Deleted(r), NEW w \in Jobs, Earlier(w, r)
    PROVE  SessionPlace(Job[r]).pk \in DOMAIN store
<1>1. PICK c \in Jobs : Creator(c, w)
  <2>1. CASE Job[w].op = "create_session"
    BY <2>1 DEF Creator, SameSession, Earlier
  <2>2. CASE Job[w].op = "append_event"
    BY <2>2 DEF HandedInv, Begun, Earlier
  <2> QED
    BY <2>1, <2>2 DEF Earlier, StateOps
<1>2. SameSession(c, r)
  BY <1>1 DEF Creator, SameSession, Earlier
<1>3. ~Deleted(c)
  BY <1>2 DEF Deleted, SameSession
<1>4. Stored(c) /\ RecordOf(c) = SessionPlace(Job[c])
  BY <1>1 DEF Creator, Stored, RecordOf
<1>5. Held(SessionPlace(Job[c]))
  BY <1>3, <1>4 DEF KeptInv
<1>6. SessionPlace(Job[c]).pk = SessionPlace(Job[r]).pk
  BY <1>2 DEF SameSession, SessionPlace, Place, session_key
<1> QED
  BY <1>5, <1>6 DEF Held

LEMMA FirstInit == Init => FirstInv
  BY DEF Init, FirstInv, Earlier

LEMMA FirstNext ==
    ASSUME ControlInv, EndedInv, KeptInv, HandedInv, FirstInv, [Next]_vars
    PROVE  FirstInv'
<1> SUFFICES ASSUME NEW r \in Jobs, Job[r].op = "create_session", ~(Deleted(r)'),
                    NEW w \in Jobs, Earlier(w, r)', Stored(r)'
             PROVE  FALSE
  BY DEF FirstInv
<1>0. ~Deleted(r)
  BY DeletedNext
<1>1. ASSUME before'[r] = before[r] PROVE Earlier(w, r) /\ ~Stored(r)
  <2>1. w \in before[r] /\ Job[w].op \in StateOps /\ SameSession(w, r) /\ status'[w] = "done"
    BY <1>1 DEF Earlier, SameSession
  <2>2. status[w] = "done"
    BY <2>1, EndedStays DEF EndedInv, Idle
  <2>3. Earlier(w, r)
    BY <2>1, <2>2 DEF Earlier
  <2> QED
    BY <1>0, <2>3 DEF FirstInv
<1>2. CASE Idle(r)
  BY <1>1, <1>2 DEF Idle, Stored
<1>3. CASE Begin(r) /\ status'[r] = "busy" /\ at'[r] = 1
  BY <1>3 DEF Stored
<1>4. CASE status[r] = "busy" /\ before'[r] = before[r] /\ status'[r] = "busy" /\ at'[r] = at[r]
  BY <1>1, <1>4 DEF Stored
<1>5. CASE status'[r] \in {"failed", "noindex"}
  BY <1>5 DEF Stored
<1>6. ASSUME NEW q \in left[r], status[r] = "busy", before'[r] = before[r], Answer(r, q) \/ Unread(r, q)
      PROVE  FALSE
  <2>1. at[r] = 1
    BY <1>1, <1>6 DEF Stored
  <2>2. ver[r] \in 0..MaxVersion /\ q \in Now(r).reqs
    BY <1>6, NowFacts
  <2>3. q = SessionCreate(r)
    BY <2>1, <2>2, ExactPlans DEF Now
  <2>4. q.do = "create" /\ q.place = SessionPlace(Job[r])
    BY <2>3 DEF SessionCreate, Req
  <2>5. ~Refused(q)
    BY <1>6, <2>4 DEF Answer, Unread
  <2>6. SessionPlace(Job[r]).pk \in DOMAIN store
    BY <1>0, <1>1, <1>6, SessionThere
  <2> QED
    BY <2>4, <2>5, <2>6 DEF Refused
<1> QED
  BY <1>2, <1>3, <1>4, <1>5, <1>6, Turns, TurnFacts

LEMMA FirstAlways == ASSUME WellNamed PROVE Spec => []FirstInv
<1>1. FirstInv /\ ControlInv /\ EndedInv /\ KeptInv /\ HandedInv /\ [Next]_vars => FirstInv'
  BY FirstNext
<1> QED
  BY <1>1, FirstInit, ControlAlways, EndedAlways, KeptAlways, HandedAlways, PTL DEF Spec


-----------------------------------------------------------------------------
(* Fresh state: what a call returns.                                       *)

LEMMA ReadLanded ==
    ASSUME ReadInv, EndedInv, NEW r \in Jobs, Job[r].op \in ReadOps, status[r] = "done", r \notin unread,
           NEW w \in before[r], Job[w].op \in StateOps, status[w] = "done",
           NEW q, StateReq(q), Occurs(Plan[w][0], q), Standing(w, q.place),
           NEW x, Occurs(Plan[r][0], Read(x)), q.place.pk = x.pk
    PROVE  Landed(got[r], q, Old(w))
<1>1. PICK m \in 1..Len(Plan[w][0]) : q \in Plan[w][0][m].reqs
  BY DEF Occurs
<1>2. Wrought(w, m, q)
  BY <1>1 DEF Wrought, Past
<1>3. PICK n \in 1..Len(Plan[r][0]) : Read(x) \in Plan[r][0][n].reqs
  BY DEF Occurs
<1>4. Past(r, n, Read(x))
  BY <1>3 DEF Past
<1>5. Read(x).do = "read" /\ Read(x).place = x
  BY DEF Read, Req
<1>6. ReadFresh(r, x.pk)
  BY <1>3, <1>4, <1>5 DEF ReadInv
<1> QED
  BY <1>1, <1>2, <1>6 DEF ReadFresh

LEMMA LandedState ==
    ASSUME NEW recs, NEW q, NEW O, Landed(recs, q, O), NEW x, q.place.pk = x.pk,
           NEW l \in DOMAIN q.bins["state"]
    PROVE  l \in DOMAIN StateIn(recs, x) /\ StateIn(recs, x)[l] \notin O
<1>1. x.pk \in DOMAIN recs /\ "state" \in DOMAIN recs[x.pk]
  BY DEF Landed, Fresh
<1>2. StateIn(recs, x) = recs[x.pk]["state"]
  BY <1>1 DEF StateIn
<1> QED
  BY <1>2 DEF Landed, Fresh

\* k is l with the prefix p.
Under(p, l, k) == k = <<p>> \o l

\* A key that a call gives is in the part that its prefix says.
LEMMA PartGiven ==
    ASSUME NEW w \in Jobs, NEW k \in Job[w].keys, ~StartsWith(k, "temp")
    PROVE  /\ StartsWith(k, "app") => Tail(k) \in DOMAIN Parts(w).app /\ Under("app", Tail(k), k)
           /\ StartsWith(k, "user") => Tail(k) \in DOMAIN Parts(w).user /\ Under("user", Tail(k), k)
           /\ ~Scoped(k) => k \in DOMAIN Parts(w).session
<1>1. DOMAIN Delta(w) = Job[w].keys
  BY DEF Delta
<1>2. /\ Parts(w).app = Stripped("app", Delta(w)) /\ Parts(w).user = Stripped("user", Delta(w))
      /\ Parts(w).session = [l \in Bare(Delta(w)) |-> Delta(w)[l]]
  BY DEF Parts, _partition_state
<1>3. ASSUME NEW p \in {"app", "user"}, StartsWith(k, p)
      PROVE  Tail(k) \in DOMAIN Stripped(p, Delta(w)) /\ Under(p, Tail(k), k)
  <2>1. k \in Name /\ p \in Word
    BY JobType, WordAssumption DEF Calls
  <2>2. <<p>> \o Tail(k) = k
    BY <1>3, <2>1, NameTail
  <2>3. k \in With(p, Delta(w))
    BY <1>1, <1>3 DEF With
  <2>4. DOMAIN Stripped(p, Delta(w)) = {Tail(l) : l \in With(p, Delta(w))}
    BY DEF Stripped
  <2>5. Under(p, Tail(k), k)
    BY <2>2 DEF Under
  <2> QED
    BY <2>3, <2>4, <2>5
<1>4. ~Scoped(k) => k \in Bare(Delta(w))
  BY <1>1 DEF Bare, With, Scoped
<1> QED
  BY <1>2, <1>3, <1>4

\* An entry of a part is found under its prefix.
LEMMA PrefixedHas ==
    ASSUME NEW p \in Word, NEW f, NEW l \in DOMAIN f, l \in Seq(Word), NEW k, Under(p, l, k)
    PROVE  k \in DOMAIN Prefixed(p, f) /\ Prefixed(p, f)[k] = f[l]
<1>0. k = <<p>> \o l
  BY DEF Under
<1>1. k \in {<<p>> \o m : m \in DOMAIN f}
  BY <1>0
<1>2. DOMAIN Prefixed(p, f) = {<<p>> \o m : m \in DOMAIN f}
  BY DEF Prefixed
<1>3. Prefixed(p, f)[k] = f[Tail(k)]
  BY <1>1 DEF Prefixed
<1>4. Tail(<<p>> \o l) = l
  BY TailOfPrefixed
<1> QED
  BY <1>0, <1>1, <1>2, <1>3, <1>4, Zenon

\* The parts of a state that a call returns do not overlap.
LEMMA PartsDisjoint ==
    ASSUME StateInv, NEW r \in Jobs
    PROVE  /\ \A l \in DOMAIN StateIn(got[r], AppPlace(Job[r])) : l \in Seq(Word)
           /\ \A l \in DOMAIN StateIn(got[r], UserPlace(Job[r])) :
                 l \in Seq(Word) /\ StartsWith(<<"user">> \o l, "user")
           /\ \A l \in DOMAIN StateIn(got[r], SessionPlace(Job[r])) : ~Scoped(l)
<1>0. DOMAIN NoBins = {}
  BY DEF NoBins
<1>1. ASSUME NEW x, NEW l \in DOMAIN StateIn(got[r], x)
      PROVE  Sourced(x.pk, StateIn(got[r], x)[l], l)
  <2>1. /\ x.pk \in DOMAIN got[r] /\ "state" \in DOMAIN got[r][x.pk]
        /\ StateIn(got[r], x) = got[r][x.pk]["state"]
    BY <1>0, <1>1 DEF StateIn
  <2>2. Known(x.pk, got[r][x.pk], BegunJobs)
    BY <2>1 DEF StateInv
  <2> QED
    BY <1>1, <2>1, <2>2 DEF Known
<1>2. ASSUME NEW v, NEW l, Sourced(AppPlace(Job[r]).pk, v, l) PROVE PartKey(v, "app", l)
  BY <1>2, PlaceSets DEF Sourced
<1>3. ASSUME NEW v, NEW l, Sourced(UserPlace(Job[r]).pk, v, l) PROVE PartKey(v, "user", l)
  BY <1>3, PlaceSets DEF Sourced
<1>4. ASSUME NEW v, NEW l, Sourced(SessionPlace(Job[r]).pk, v, l) PROVE PlainKey(v, l)
  BY <1>4, PlaceSets DEF Sourced
<1>5. \A l \in DOMAIN StateIn(got[r], AppPlace(Job[r])) : l \in Seq(Word)
  BY <1>1, <1>2 DEF PartKey
<1>6. \A l \in DOMAIN StateIn(got[r], UserPlace(Job[r])) :
         l \in Seq(Word) /\ StartsWith(<<"user">> \o l, "user")
  BY <1>1, <1>3 DEF PartKey
<1>7. \A l \in DOMAIN StateIn(got[r], SessionPlace(Job[r])) : ~Scoped(l)
  BY <1>1, <1>4 DEF PlainKey, Scoped
<1> QED
  BY <1>5, <1>6, <1>7


\* What a call returns under a key is the entry of the part that is meant.
LEMMA StateLookup ==
    ASSUME StateInv, NEW r \in Jobs, Found(r), NEW k, NEW l
    PROVE  LET A == StateIn(got[r], AppPlace(Job[r]))
               U == StateIn(got[r], UserPlace(Job[r]))
               S == IF Job[r].op = "create_session" THEN Parts(r).session
                    ELSE StateIn(got[r], SessionPlace(Job[r]))
           IN /\ StartsWith(k, "app") /\ l \in DOMAIN A /\ Under("app", l, k) =>
                    k \in DOMAIN StateOf(r) /\ StateOf(r)[k] = A[l]
              /\ StartsWith(k, "user") /\ l \in DOMAIN U /\ Under("user", l, k) =>
                    k \in DOMAIN StateOf(r) /\ StateOf(r)[k] = U[l]
              /\ k \in DOMAIN S => k \in DOMAIN StateOf(r) /\ StateOf(r)[k] = S[k]
<1> DEFINE A == StateIn(got[r], AppPlace(Job[r]))
           U == StateIn(got[r], UserPlace(Job[r]))
           S == IF Job[r].op = "create_session" THEN Parts(r).session
                ELSE StateIn(got[r], SessionPlace(Job[r]))
           PA == Prefixed("app", A)
           PU == Prefixed("user", U)
           P == Over(PA, PU)
<1>1. StateOf(r) = Over(P, S)
  BY DEF StateOf, _merge_state
<1>2. "app" \in Word /\ "user" \in Word
  BY WordAssumption
<1>3. /\ \A m \in DOMAIN A : m \in Seq(Word)
      /\ \A m \in DOMAIN U : m \in Seq(Word) /\ StartsWith(<<"user">> \o m, "user")
  BY PartsDisjoint
<1>4. \A m \in DOMAIN S : ~Scoped(m)
  <2>1. CASE Job[r].op = "create_session"
    BY <2>1, PartsFacts DEF PlainKey, Scoped
  <2>2. CASE Job[r].op # "create_session"
    BY <2>2, PartsDisjoint
  <2> QED
    BY <2>1, <2>2
<1> HIDE DEF A, U, S
<1>5. \A m \in DOMAIN PU : StartsWith(m, "user")
  <2>1. ASSUME NEW m \in DOMAIN PU PROVE StartsWith(m, "user")
    <3>1. PICK n \in DOMAIN U : m = <<"user">> \o n
      BY <1>2, <1>3, <2>1, PrefixedFacts
    <3> QED
      BY <1>3, <3>1, Zenon
  <2> QED
    BY <2>1
<1>6. ASSUME l \in DOMAIN A, Under("app", l, k) PROVE k \in DOMAIN PA /\ PA[k] = A[l]
  <2>1. l \in Seq(Word)
    BY <1>3, <1>6
  <2> QED
    BY <1>2, <1>6, <2>1, PrefixedHas
<1>7. ASSUME l \in DOMAIN U, Under("user", l, k) PROVE k \in DOMAIN PU /\ PU[k] = U[l]
  <2>1. l \in Seq(Word)
    BY <1>3, <1>7
  <2> QED
    BY <1>2, <1>7, <2>1, PrefixedHas
<1> HIDE DEF PA, PU
<1>8. /\ DOMAIN P = DOMAIN PA \cup DOMAIN PU /\ \A x \in DOMAIN PU : P[x] = PU[x]
      /\ \A x \in DOMAIN PA \ DOMAIN PU : P[x] = PA[x]
  BY OverFacts
<1> HIDE DEF P
<1>9. /\ DOMAIN Over(P, S) = DOMAIN P \cup DOMAIN S /\ \A x \in DOMAIN S : Over(P, S)[x] = S[x]
      /\ \A x \in DOMAIN P \ DOMAIN S : Over(P, S)[x] = P[x]
  BY OverFacts
<1>10. ASSUME StartsWith(k, "app") PROVE k \notin DOMAIN PU /\ k \notin DOMAIN S
  <2>1. ~StartsWith(k, "user")
    BY <1>10 DEF StartsWith
  <2> QED
    BY <1>4, <1>5, <1>10, <2>1 DEF Scoped
<1>11. ASSUME StartsWith(k, "user") PROVE k \notin DOMAIN S
  BY <1>4, <1>11 DEF Scoped
<1>12. ASSUME StartsWith(k, "app"), l \in DOMAIN A, Under("app", l, k)
       PROVE  k \in DOMAIN StateOf(r) /\ StateOf(r)[k] = A[l]
  <2>1. k \in DOMAIN PA /\ PA[k] = A[l] /\ k \notin DOMAIN PU /\ k \notin DOMAIN S
    BY <1>6, <1>10, <1>12
  <2> QED
    BY <1>1, <1>8, <1>9, <2>1
<1>13. ASSUME StartsWith(k, "user"), l \in DOMAIN U, Under("user", l, k)
       PROVE  k \in DOMAIN StateOf(r) /\ StateOf(r)[k] = U[l]
  <2>1. k \in DOMAIN PU /\ PU[k] = U[l] /\ k \notin DOMAIN S
    BY <1>7, <1>11, <1>13
  <2> QED
    BY <1>1, <1>8, <1>9, <2>1
<1>14. ASSUME k \in DOMAIN S PROVE k \in DOMAIN StateOf(r) /\ StateOf(r)[k] = S[k]
  BY <1>1, <1>9, <1>14
<1> QED
  BY <1>12, <1>13, <1>14 DEF A, U, S

\* The writes of a call, by the part of the key.
LEMMA WriteParts ==
    ASSUME NEW w \in Jobs
    PROVE  /\ StateReq(AppWrite(w)) /\ AppWrite(w).place = AppPlace(Job[w])
           /\ AppWrite(w).bins["state"] = Parts(w).app
           /\ StateReq(UserWrite(w)) /\ UserWrite(w).place = UserPlace(Job[w])
           /\ UserWrite(w).bins["state"] = Parts(w).user
           /\ StateReq(SessionWrite(w)) /\ SessionWrite(w).place = SessionPlace(Job[w])
           /\ SessionWrite(w).bins["state"] = Parts(w).session
           /\ StateReq(SessionCreate(w)) /\ SessionCreate(w).place = SessionPlace(Job[w])
           /\ SessionCreate(w).bins["state"] = Parts(w).session
<1>1. /\ StateReq(AppWrite(w)) /\ AppWrite(w).place = AppPlace(Job[w])
      /\ AppWrite(w).bins["state"] = Parts(w).app
  BY DEF StateReq, Stores, AppWrite, PutItems, Req
<1>2. /\ StateReq(UserWrite(w)) /\ UserWrite(w).place = UserPlace(Job[w])
      /\ UserWrite(w).bins["state"] = Parts(w).user
  BY DEF StateReq, Stores, UserWrite, PutItems, Req
<1>3. /\ StateReq(SessionWrite(w)) /\ SessionWrite(w).place = SessionPlace(Job[w])
      /\ SessionWrite(w).bins["state"] = Parts(w).session
  BY DEF StateReq, Stores, SessionWrite, Req
<1>4. /\ StateReq(SessionCreate(w)) /\ SessionCreate(w).place = SessionPlace(Job[w])
      /\ SessionCreate(w).bins["state"] = Parts(w).session
  BY DEF StateReq, Stores, SessionCreate, Req
<1> QED
  BY <1>1, <1>2, <1>3, <1>4

LEMMA SameSessionPlace ==
    ASSUME NEW w \in Jobs, NEW r \in Jobs, SameSession(w, r)
    PROVE  SessionPlace(Job[w]).pk = SessionPlace(Job[r]).pk /\ (~Deleted(r) => ~Deleted(w))
<1>1. SessionPlace(Job[w]).pk = SessionPlace(Job[r]).pk
  BY DEF SameSession, SessionPlace, Place, session_key
<1>2. Deleted(w) => Deleted(r)
  BY DEF SameSession, Deleted
<1> QED
  BY <1>1, <1>2

LEMMA FreshGoal ==
    ASSUME StateInv, EndedInv, ReadInv, FirstInv
    PROVE  StateFresh
<1> SUFFICES ASSUME NEW r \in Jobs, Returned(r), Exists(r), r \notin unread, NEW w \in before[r],
                    NEW k \in Job[w].keys, status[w] = "done", Wrote(w, k), Shares(r, w, k)
             PROVE  k \in DOMAIN StateOf(r) /\ StateOf(r)[k] \notin Old(w)
  BY DEF StateFresh, Old
<1> DEFINE A == StateIn(got[r], AppPlace(Job[r]))
           U == StateIn(got[r], UserPlace(Job[r]))
           S == IF Job[r].op = "create_session" THEN Parts(r).session
                ELSE StateIn(got[r], SessionPlace(Job[r]))
<1>0. /\ w \in Jobs /\ Job[w].op \in StateOps /\ Job[w].op \in TurnOps /\ ~StartsWith(k, "temp")
      /\ Job[r].op \in ReadOps /\ Job[r].op \in TurnOps /\ status[r] = "done" /\ ~Deleted(r)
      /\ Job[r].op # "append_event" /\ Job[r].app = Job[w].app
  BY DEF EndedInv, Wrote, StateOps, TurnOps, Returned, ReadOps, Exists, Shares
<1>1. /\ Occurs(Plan[r][0], Read(AppPlace(Job[r]))) /\ Occurs(Plan[r][0], Read(UserPlace(Job[r])))
      /\ Job[r].op = "get_session" => Occurs(Plan[r][0], Read(SessionPlace(Job[r])))
  BY <1>0, StatePlans
<1>2. Found(r)
  <2> SUFFICES ASSUME Job[r].op = "get_session" PROVE SessionPlace(Job[r]).pk \in DOMAIN got[r]
    BY DEF Found
  <2>1. PICK c \in before[r] : /\ Job[c].op = "create_session" /\ SameSession(c, r)
                               /\ status[c] = "done"
    BY DEF Exists
  <2>2. c \in Jobs /\ Job[c].op \in StateOps /\ Job[c].op \in TurnOps
    BY <2>1 DEF EndedInv, StateOps, TurnOps
  <2> DEFINE q == SessionCreate(c)
  <2>3. StateReq(q) /\ q.place = SessionPlace(Job[c])
    BY <2>2, WriteParts
  <2>4. Occurs(Plan[c][0], q)
    BY <2>1, <2>2, StatePlans
  <2>5. q.place.pk = SessionPlace(Job[r]).pk /\ Standing(c, q.place)
    BY <1>0, <2>1, <2>2, <2>3, SameSessionPlace DEF Standing
  <2> HIDE DEF q
  <2>6. Landed(got[r], q, Old(c))
    BY <1>0, <1>1, <2>1, <2>2, <2>3, <2>4, <2>5, ReadLanded
  <2> QED
    BY <2>5, <2>6 DEF Landed
<1>3. CASE StartsWith(k, "app")
  <2> DEFINE q == AppWrite(w)
             l == Tail(k)
  <2>1. l \in DOMAIN Parts(w).app /\ Under("app", l, k)
    BY <1>0, <1>3, PartGiven
  <2>2. StateReq(q) /\ q.place = AppPlace(Job[w]) /\ q.bins["state"] = Parts(w).app
    BY <1>0, WriteParts
  <2>3. Occurs(Plan[w][0], q)
    BY <1>0, <2>1, StatePlans DEF Given
  <2>4. q.place.pk = AppPlace(Job[r]).pk /\ Standing(w, q.place)
    <3>1. AppPlace(Job[w]).pk = AppPlace(Job[r]).pk
      BY <1>0 DEF AppPlace, Place, app_state_key
    <3>2. AppPlace(Job[w]) # SessionPlace(Job[w])
      BY <1>0, PlaceSets
    <3> QED
      BY <2>2, <3>1, <3>2 DEF Standing
  <2> HIDE DEF q, l
  <2>5. Landed(got[r], q, Old(w))
    BY <1>0, <1>1, <2>2, <2>3, <2>4, ReadLanded
  <2>6. l \in DOMAIN A /\ A[l] \notin Old(w)
    BY <2>1, <2>2, <2>4, <2>5, LandedState
  <2>7. k \in DOMAIN StateOf(r) /\ StateOf(r)[k] = A[l]
    BY <1>2, <1>3, <2>1, <2>6, StateLookup
  <2> QED
    BY <2>6, <2>7
<1>4. CASE StartsWith(k, "user")
  <2> DEFINE q == UserWrite(w)
             l == Tail(k)
  <2>1. l \in DOMAIN Parts(w).user /\ Under("user", l, k)
    BY <1>0, <1>4, PartGiven
  <2>2. StateReq(q) /\ q.place = UserPlace(Job[w]) /\ q.bins["state"] = Parts(w).user
    BY <1>0, WriteParts
  <2>3. Occurs(Plan[w][0], q)
    BY <1>0, <2>1, StatePlans DEF Given
  <2>4. q.place.pk = UserPlace(Job[r]).pk /\ Standing(w, q.place)
    <3>0. Job[r].user = Job[w].user
      BY <1>4 DEF Shares, StartsWith
    <3>1. UserPlace(Job[w]).pk = UserPlace(Job[r]).pk
      BY <1>0, <3>0 DEF UserPlace, Place, user_state_key
    <3>2. UserPlace(Job[w]) # SessionPlace(Job[w])
      BY <1>0, PlaceSets
    <3> QED
      BY <2>2, <3>1, <3>2 DEF Standing
  <2> HIDE DEF q, l
  <2>5. Landed(got[r], q, Old(w))
    BY <1>0, <1>1, <2>2, <2>3, <2>4, ReadLanded
  <2>6. l \in DOMAIN U /\ U[l] \notin Old(w)
    BY <2>1, <2>2, <2>4, <2>5, LandedState
  <2>7. k \in DOMAIN StateOf(r) /\ StateOf(r)[k] = U[l]
    BY <1>2, <1>4, <2>1, <2>6, StateLookup
  <2> QED
    BY <2>6, <2>7
<1>5. CASE ~Scoped(k)
  <2>0. SameSession(w, r)
    BY <1>5 DEF Shares, SameSession, Scoped
  <2>1. Job[r].op = "get_session"
    <3>1. ASSUME Job[r].op = "create_session" PROVE FALSE
      <4>1. Earlier(w, r) /\ Stored(r)
        BY <1>0, <2>0, <3>1 DEF Earlier, Stored
      <4> QED
        BY <1>0, <3>1, <4>1 DEF FirstInv
    <3> QED
      BY <1>0, <3>1 DEF ReadOps
  <2>2. k \in DOMAIN Parts(w).session
    BY <1>0, <1>5, PartGiven
  <2>3. PICK q : /\ StateReq(q) /\ q.place = SessionPlace(Job[w]) /\ q.bins["state"] = Parts(w).session
                 /\ Occurs(Plan[w][0], q)
    <3>1. CASE Job[w].op = "create_session"
      <4>1. Occurs(Plan[w][0], SessionCreate(w))
        BY <1>0, <3>1, StatePlans
      <4> QED
        BY <1>0, <4>1, WriteParts
    <3>2. CASE Job[w].op = "append_event"
      <4>1. Occurs(Plan[w][0], SessionWrite(w))
        BY <1>0, <2>2, <3>2, StatePlans DEF Given
      <4> QED
        BY <1>0, <4>1, WriteParts
    <3> QED
      BY <1>0, <3>1, <3>2 DEF StateOps
  <2>4. q.place.pk = SessionPlace(Job[r]).pk /\ Standing(w, q.place)
    BY <1>0, <2>0, <2>3, SameSessionPlace DEF Standing
  <2>5. Landed(got[r], q, Old(w))
    BY <1>0, <1>1, <2>1, <2>3, <2>4, ReadLanded
  <2>6. k \in DOMAIN S /\ S[k] \notin Old(w)
    <3>1. k \in DOMAIN StateIn(got[r], SessionPlace(Job[r]))
          /\ StateIn(got[r], SessionPlace(Job[r]))[k] \notin Old(w)
      BY <2>2, <2>3, <2>4, <2>5, LandedState
    <3> QED
      BY <2>1, <3>1
  <2>7. k \in DOMAIN StateOf(r) /\ StateOf(r)[k] = S[k]
    BY <1>2, <2>6, StateLookup
  <2> QED
    BY <2>6, <2>7
<1> QED
  BY <1>3, <1>4, <1>5 DEF Scoped

\* Whatever the calls and the failures: what create_session or append_event
\* wrote is in the state that a later create_session or get_session returns, and
\* no older value of a call whose writes were all answered has come back.
THEOREM StateStaysFresh == ASSUME WellNamed PROVE Spec => []StateFresh
<1>1. StateInv /\ EndedInv /\ ReadInv /\ FirstInv => StateFresh
  BY FreshGoal
<1> QED
  BY <1>1, StateAlways, EndedAlways, ReadAlways, FirstAlways, PTL

=============================================================================
