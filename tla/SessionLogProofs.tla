-------------------------- MODULE SessionLogProofs --------------------------
(***************************************************************************)
(* The append path implements the session log, with or without re-appends  *)
(* by the caller.  On top of SafetyInv the refinement needs to know who    *)
(* may still touch an event: one task at most holds it, its append is then *)
(* open, and whatever is under way was appended by someone.                *)
(***************************************************************************)
EXTENDS SessionOnceProofs

LogInv ==
    /\ OneTask
    /\ \A t \in Tasks : pc[t] # "idle" => outcome[key[t][2]] = "pending"
    /\ \A q \in late : outcome[q.key[2]] # "new"
    /\ \A q \in late : q.rec \in Scopes => q.rec \in Delta[q.key[2]]

LEMMA LogInvInit == Init => LogInv
  BY DEF Init, LogInv, OneTask

\* What task t has in flight is its event, and only the parts of its delta.
LEMMA InFlightOwn ==
    ASSUME TypeInv, NEW t \in Tasks, pc[t] # "idle", NEW q \in InFlight(t)
    PROVE  q.key = key[t] /\ (q.rec \in Scopes => q.rec \in Delta[q.key[2]])
  <1>1. PICK r \in Unanswered(t) : q = Request(t, r)
    BY DEF InFlight
  <1>2. q.key = key[t] /\ q.rec = r
    BY <1>1 DEF Request
  <1>3. r \in Scopes => r \in Delta[key[t][2]]
    BY <1>1 DEF Unanswered, BatchRecords, Scopes
  <1> QED BY <1>2, <1>3

\* Only the end of append_event changes what its caller knows.
LEMMA LogInvStep ==
    ASSUME SafetyInv, LogInv, NEW t \in Tasks, Step(t)
    PROVE  LogInv'
  <1>0. TypeInv /\ LocalInv(t)
    BY DEF SafetyInv
  <1>1. Control(t) /\ key[t] \in Keys /\ pc[t] # "idle" /\ late' \subseteq late \cup InFlight(t)
    BY <1>0, StepControl, StepEffects
  <1>2. key[t][2] \in Events /\ outcome[key[t][2]] = "pending"
    BY <1>1, KeyFacts DEF LogInv
  <1>3. \A u \in Tasks : u # t => pc'[u] = pc[u] /\ key'[u] = key[u]
    BY <1>0, StepIsLocal
  <1>4. \A u \in Tasks : pc'[u] # "idle" => pc[u] # "idle" /\ key'[u] = key[u]
    BY <1>1, <1>3 DEF Control
  <1>5. OneTask'
    BY <1>4 DEF LogInv, OneTask
  <1>6. ASSUME NEW u \in Tasks, pc'[u] # "idle" PROVE outcome'[key'[u][2]] = "pending"
    <2>1. pc[u] # "idle" /\ key'[u] = key[u] /\ key[u] \in Keys /\ key[u][2] \in Events
      BY <1>0, <1>4, <1>6, KeyFacts DEF TypeInv, TaskInv
    <2>2. CASE pc'[t] = "idle"
      <3>1. u # t /\ key[u][2] # key[t][2]
        BY <1>1, <1>6, <2>1, <2>2 DEF LogInv, OneTask
      <3> QED BY <1>0, <1>1, <2>1, <2>2, <3>1 DEF Control, LogInv, TypeInv, TypeOK
    <2>3. CASE pc'[t] # "idle"
      BY <1>1, <2>1, <2>3 DEF Control, LogInv
    <2> QED BY <2>2, <2>3
  <1>7. \A e \in Events : outcome[e] # "new" => outcome'[e] # "new"
    BY <1>0, <1>1, <1>2 DEF Control, TypeInv, TypeOK
  <1>8. ASSUME NEW q \in late'
        PROVE  /\ outcome'[q.key[2]] # "new"
               /\ q.rec \in Scopes => q.rec \in Delta[q.key[2]]
    <2>1. CASE q \in late
      <3>1. q.key \in Keys /\ q.key[2] \in Events
        BY <1>0, <2>1, KeyFacts DEF TypeInv, TypeOK, Requests
      <3> QED BY <1>7, <2>1, <3>1 DEF LogInv
    <2>2. CASE q \in InFlight(t)
      BY <1>0, <1>1, <1>2, <1>7, <2>2, InFlightOwn
    <2> QED BY <1>1, <2>1, <2>2
  <1> QED BY <1>5, <1>6, <1>8 DEF LogInv

LEMMA LogInvNext == SafetyInv /\ LogInv /\ [Next]_vars => LogInv'
  <1> SUFFICES ASSUME SafetyInv, LogInv, [Next]_vars PROVE LogInv'
    OBVIOUS
  <1>0. TypeInv
    BY DEF SafetyInv
  <1>q. \A q \in late : q.key[2] \in Events
    BY <1>0, KeyFacts DEF TypeInv, TypeOK, Requests
  <1>1. ASSUME NEW t \in Tasks, NEW e \in Events, StartAppend(t, e) PROVE LogInv'
    <2>1. PICK k \in event_map_key(e) : key' = [key EXCEPT ![t] = k]
      BY <1>1 DEF StartAppend
    <2>2. k[2] = e /\ outcome[e] # "pending" /\ pc[t] = "idle"
      BY <1>1, KeyFacts DEF StartAppend, MayAppend, Failed
    <2>3. /\ key'[t] = k /\ UNCHANGED late
          /\ outcome' = [outcome EXCEPT ![e] = "pending"]
          /\ \A u \in Tasks : u # t => pc'[u] = pc[u] /\ key'[u] = key[u]
      BY <1>0, <1>1, <2>1 DEF StartAppend, TypeInv, TypeOK, TaskOK
    <2>4. ASSUME NEW u \in Tasks, u # t, pc[u] # "idle"
          PROVE  key[u][2] # e /\ key[u][2] \in Events
      BY <1>0, <2>2, <2>4, KeyFacts DEF LogInv, TypeInv, TaskInv
    <2>5. OneTask'
      BY <2>2, <2>3, <2>4 DEF LogInv, OneTask
    <2>6. ASSUME NEW u \in Tasks, pc'[u] # "idle" PROVE outcome'[key'[u][2]] = "pending"
      BY <1>0, <2>2, <2>3, <2>4, <2>6 DEF LogInv, TypeInv, TypeOK
    <2>7. \A q \in late' : outcome'[q.key[2]] # "new"
      BY <1>0, <1>q, <2>3 DEF LogInv, TypeInv, TypeOK
    <2> QED BY <2>3, <2>5, <2>6, <2>7 DEF LogInv
  <1>2. ASSUME NEW t \in Tasks, Step(t) PROVE LogInv'
    BY <1>2, LogInvStep
  <1>3. ASSUME NEW q \in late, ApplyLate(q) PROVE LogInv'
    BY <1>3 DEF ApplyLate, taskVars, LogInv, OneTask
  <1>4. ASSUME NEW p \in Procs, Crash(p) PROVE LogInv'
    <2> DEFINE dead == {t \in Tasks : Host[t] = p /\ pc[t] # "idle"}
    <2>1. late' = late \cup UNION {InFlight(t) : t \in dead}
      BY <1>4 DEF Crash
    <2>2. \A u \in Tasks : pc'[u] # "idle" =>
            u \notin dead /\ pc'[u] = pc[u] /\ key'[u] = key[u]
      BY <1>4 DEF Crash
    <2>3. \A d \in Events :
            \/ outcome'[d] = outcome[d]
            \/ outcome'[d] = "crashed" /\ \E t \in dead : key[t][2] = d
      BY <1>4 DEF Crash
    <2>4. OneTask'
      BY <2>2 DEF LogInv, OneTask
    <2>5. ASSUME NEW u \in Tasks, pc'[u] # "idle" PROVE outcome'[key'[u][2]] = "pending"
      <3>1. u \notin dead /\ pc[u] # "idle" /\ key'[u] = key[u] /\ key[u][2] \in Events
        BY <1>0, <2>2, <2>5, KeyFacts DEF TypeInv, TaskInv
      <3>2. \A t \in dead : key[t][2] # key[u][2]
        BY <3>1 DEF LogInv, OneTask
      <3> QED BY <2>3, <3>1, <3>2 DEF LogInv
    <2>6. ASSUME NEW q \in late'
          PROVE  /\ outcome'[q.key[2]] # "new"
                 /\ q.rec \in Scopes => q.rec \in Delta[q.key[2]]
      <3>1. CASE q \in late
        BY <1>q, <2>3, <3>1 DEF LogInv
      <3>2. CASE \E t \in dead : q \in InFlight(t)
        <4>1. PICK t \in dead : q \in InFlight(t)
          BY <3>2
        <4>2. key[t][2] \in Events /\ outcome[key[t][2]] = "pending"
          BY <1>0, KeyFacts DEF TypeInv, TaskInv, LogInv
        <4> QED BY <1>0, <2>3, <4>1, <4>2, InFlightOwn
      <3> QED BY <2>1, <3>1, <3>2
    <2> QED BY <2>4, <2>5, <2>6 DEF LogInv
  <1>5. CASE UNCHANGED vars
    BY <1>5 DEF vars, taskVars, LogInv, OneTask
  <1> QED BY <1>1, <1>2, <1>3, <1>4, <1>5 DEF Next

LEMMA LogInvCorrect == Spec => []LogInv
  BY LogInvInit, LogInvNext, SafetyCorrect, PTL DEF Spec

-----------------------------------------------------------------------------
(* Steps of the append path as steps of the log.                           *)

\* A write of segment n <= cur adds its event to what a reader finds.
LEMMA PutStores ==
    ASSUME TypeInv, NEW n \in Nat, NEW k \in Keys, n <= cur, SegmentPut(n, k)
    PROVE  Reached' = Reached \cup {k[2]} /\ wrote' = wrote
  <1>1. cur' = cur /\ stored' = stored \cup {<<n, k>>} /\ wrote' = wrote
    BY DEF SegmentPut
  <1>2. {q \in stored' : q[1] <= cur'} = {q \in stored : q[1] <= cur} \cup {<<n, k>>}
    BY <1>1
  <1> DEFINE walked == {r \in stored : r[1] <= cur}
             new == <<n, k>>
  <1>3. new[2][2] = k[2]
    OBVIOUS
  <1>4. Reached' = {q[2][2] : q \in walked \cup {new}} /\ Reached = {q[2][2] : q \in walked}
    BY <1>2 DEF Reached
  <1> HIDE DEF walked, new
  <1> QED BY <1>1, <1>3, <1>4

\* A rollover moves cur past segments that a reader walks already.
LEMMA BumpKeepsLog ==
    ASSUME SafetyInv, NEW n \in Nat, CurBump(n)
    PROVE  Reached' = Reached /\ wrote' = wrote
  <1>1. cur \in Nat /\ cur' = cur + 1 /\ stored' = stored /\ wrote' = wrote
    BY DEF CurBump, SafetyInv, TypeInv, TypeOK, DbOK
  <1>2. \A q \in stored : q[1] \in Nat /\ q[1] <= cur
    BY DEF SafetyInv, ServerInv, RecordInv, TypeInv, TypeOK, DbOK
  <1>3. {q \in stored' : q[1] <= cur'} = {q \in stored : q[1] <= cur}
    BY <1>1, <1>2
  <1> QED BY <1>1, <1>3 DEF Reached

\* A task either writes or ends; it writes parts of its own delta only.
LEMMA StepSplits ==
    ASSUME TypeInv, NEW t \in Tasks, Step(t)
    PROVE  \/ UNCHANGED db
           \/ /\ outcome' = outcome
              /\ \/ SegmentPut(at[t], key[t])
                 \/ CurBump(at[t])
                 \/ \E s \in Delta[key[t][2]] : StatePut(s, key[t])
  <1>1. CASE PutOk(t) \/ RollBump(t)
    BY <1>1 DEF PutOk, RollBump
  <1>2. ASSUME NEW r \in Records, BatchWrite(t, r)
        PROVE  \/ UNCHANGED db
               \/ /\ outcome' = outcome
                  /\ \/ SegmentPut(at[t], key[t])
                     \/ \E s \in Delta[key[t][2]] : StatePut(s, key[t])
    <2>1. r \in Scopes => r \in Delta[key[t][2]]
      BY <1>2 DEF BatchWrite, Unanswered, BatchRecords, Scopes
    <2> QED BY <1>2, <2>1 DEF BatchWrite
  <1>3. CASE ~(PutOk(t) \/ RollBump(t) \/ \E r \in Records : BatchWrite(t, r))
    BY <1>3 DEF Step, CurrentSegmentRead, CurrentSegmentCached, PutReply,
       PutTooBig, SegmentSize, RollFiltered, RollReread, RollDone,
       WriteFault, BatchRecordFault, BatchFault, BatchRetry,
       BatchAck, BatchOverflow, BatchError, CallFails
  <1> QED BY <1>1, <1>2, <1>3

\* A write aimed at a segment a reader walks, of an event someone appended, is
\* a step of the log or leaves it as it is.
LEMMA EffectRefines ==
    ASSUME SafetyInv, NEW n \in Nat, NEW k \in Keys, n <= cur, UNCHANGED outcome,
           outcome[k[2]] # "new",
           \/ SegmentPut(n, k)
           \/ CurBump(n)
           \/ \E s \in Delta[k[2]] : StatePut(s, k)
    PROVE  [Log!Next]_(Log!vars)
  <1>1. k[2] \in Events /\ Answers' = Answers /\ TypeInv
    BY KeyFacts DEF Answers, SafetyInv
  <1>2. Answers[k[2]] # "none"
    BY <1>1 DEF Answers, AnswerOf, TypeInv, TypeOK, Outcomes
  <1>3. CASE SegmentPut(n, k)
    <2>1. Log!Store(k[2])
      BY <1>1, <1>2, <1>3, PutStores DEF Log!Store
    <2> QED BY <1>1, <2>1 DEF Log!Next
  <1>4. CASE CurBump(n)
    BY <1>1, <1>4, BumpKeepsLog DEF Log!vars
  <1>5. ASSUME NEW s \in Delta[k[2]], StatePut(s, k) PROVE Log!Next
    <2>1. Reached' = Reached /\ wrote' = wrote \cup {<<s, k[2]>>}
      BY <1>5 DEF StatePut, Reached
    <2>2. Log!WritePart(s, k[2])
      BY <1>1, <1>2, <2>1 DEF Log!WritePart
    <2> QED BY <1>1, <2>2 DEF Log!Next
  <1> QED BY <1>3, <1>4, <1>5

LEMMA StepRefines ==
    ASSUME SafetyInv, SafetyInv', LogInv, NEW t \in Tasks, Step(t)
    PROVE  [Log!Next]_(Log!vars)
  <1>1. /\ TypeInv /\ TypeInv' /\ LocalInv(t) /\ Control(t)
        /\ key[t] \in Keys /\ pc[t] # "idle"
    BY StepControl, StepEffects DEF SafetyInv
  <1>2. key[t][2] \in Events /\ outcome[key[t][2]] = "pending"
    BY <1>1, KeyFacts DEF LogInv
  <1>3. CASE ~UNCHANGED db
    <2>1. at[t] \in Nat /\ at[t] <= cur
      BY <1>1 DEF TypeInv, TypeOK, TaskOK, LocalInv
    <2> QED BY <1>1, <1>2, <1>3, <2>1, StepSplits, EffectRefines
  <1>4. CASE UNCHANGED db /\ outcome' = outcome
    BY <1>4 DEF db, Log!vars, Reached, Answers
  <1>5. CASE UNCHANGED db /\ pc'[t] = "idle"
    <2> DEFINE e == key[t][2]
    <2>1. PICK o \in Outcomes \ {"new", "pending"} : outcome' = [outcome EXCEPT ![e] = o]
      BY <1>1, <1>5 DEF Control
    <2>2. Reached' = Reached /\ wrote' = wrote
      BY <1>5 DEF db, Reached
    <2>3. Answers[e] = "open"
      BY <1>2 DEF Answers, AnswerOf
    <2>4. Answers' = [Answers EXCEPT ![e] = AnswerOf(o)]
      BY <1>1, <1>2, <2>1 DEF Answers, TypeInv, TypeOK
    <2>5. CASE o = "ok"
      <3>1. outcome'[e] = "ok"
        BY <1>1, <1>2, <2>1, <2>5 DEF TypeInv, TypeOK
      <3>2. /\ \E p \in stored : p[2][2] = e
            /\ \A s \in Delta[e] : <<s, e>> \in wrote
        BY <1>2, <1>5, <3>1 DEF SafetyInv, OutcomeInv, Told, db
      <3>3. e \in Reached
        BY <3>2 DEF Reached, SafetyInv, ServerInv, RecordInv
      <3>4. AnswerOf(o) = "stored"
        BY <2>5 DEF AnswerOf
      <3>5. Log!Confirm(e)
        BY <2>2, <2>3, <2>4, <3>2, <3>3, <3>4 DEF Log!Confirm
      <3> QED BY <1>2, <3>5 DEF Log!Next
    <2>6. CASE o # "ok"
      <3>1. AnswerOf(o) = "failed"
        BY <2>1, <2>6 DEF AnswerOf
      <3>2. Answers' = [d \in Events |-> IF d \in {e} THEN "failed" ELSE Answers[d]]
        BY <2>4, <3>1 DEF Answers
      <3>3. Log!Fail({e})
        BY <2>2, <2>3, <3>2 DEF Log!Fail
      <3> QED BY <1>2, <3>3 DEF Log!Next
    <2> QED BY <2>5, <2>6
  <1> QED BY <1>1, <1>3, <1>4, <1>5 DEF Control

LEMMA NextRefines ==
    SafetyInv /\ SafetyInv' /\ LogInv /\ [Next]_vars => [Log!Next]_(Log!vars)
  <1> SUFFICES ASSUME SafetyInv, SafetyInv', LogInv, [Next]_vars
               PROVE  [Log!Next]_(Log!vars)
    OBVIOUS
  <1>0. TypeInv
    BY DEF SafetyInv
  <1>1. ASSUME NEW t \in Tasks, NEW e \in Events, StartAppend(t, e) PROVE Log!Next
    <2>1. /\ outcome[e] \in {"new"} \cup Failed /\ UNCHANGED db
          /\ outcome' = [outcome EXCEPT ![e] = "pending"]
      BY <1>1 DEF StartAppend, MayAppend
    <2>2. Answers[e] \in {"none", "failed"}
      BY <2>1 DEF Answers, AnswerOf, Failed
    <2>3. Answers' = [Answers EXCEPT ![e] = "open"]
      BY <1>0, <2>1 DEF Answers, AnswerOf, TypeInv, TypeOK
    <2>4. Log!Call(e)
      BY <2>1, <2>2, <2>3 DEF Log!Call, Reached, db
    <2> QED BY <2>4 DEF Log!Next
  <1>2. ASSUME NEW t \in Tasks, Step(t) PROVE [Log!Next]_(Log!vars)
    BY <1>2, StepRefines
  <1>3. ASSUME NEW q \in late, ApplyLate(q) PROVE [Log!Next]_(Log!vars)
    <2>1. /\ q.n \in Nat /\ q.key \in Keys /\ q.n <= cur
          /\ outcome[q.key[2]] # "new" /\ UNCHANGED outcome
      BY <1>3 DEF TypeInv, TypeOK, Requests, SafetyInv, ServerInv, LateInv, LogInv,
         ApplyLate
    <2>2. \/ SegmentPut(q.n, q.key)
          \/ CurBump(q.n)
          \/ \E s \in Delta[q.key[2]] : StatePut(s, q.key)
      BY <1>3 DEF ApplyLate, LogInv
    <2> QED BY <2>1, <2>2, EffectRefines
  <1>4. ASSUME NEW p \in Procs, Crash(p) PROVE Log!Next
    <2> DEFINE dead == {t \in Tasks : Host[t] = p /\ pc[t] # "idle"}
               S == {e \in Events : \E t \in dead : key[t][2] = e}
    <2>1. /\ UNCHANGED db
          /\ outcome' = [e \in Events |-> IF e \in S THEN "crashed" ELSE outcome[e]]
      BY <1>4 DEF Crash
    <2>2. \A e \in S : outcome[e] = "pending"
      BY DEF LogInv
    <2>3. \A e \in S : Answers[e] = "open"
      BY <2>2 DEF Answers, AnswerOf
    <2>4. \A e \in Events : Answers'[e] = IF e \in S THEN "failed" ELSE Answers[e]
      BY <2>1 DEF Answers, AnswerOf
    <2>5. Answers' = [e \in Events |-> IF e \in S THEN "failed" ELSE Answers[e]]
      BY <2>4 DEF Answers
    <2>6. Log!Fail(S)
      BY <2>1, <2>3, <2>5 DEF Log!Fail, Reached, db
    <2> QED BY <2>6 DEF Log!Next
  <1>5. CASE UNCHANGED vars
    BY <1>5 DEF vars, db, Log!vars, Reached, Answers
  <1> QED BY <1>1, <1>2, <1>3, <1>4, <1>5 DEF Next

\* The append path implements the session log: whatever rolls over, is retried,
\* crashes or is applied late, a reader of the whole session loses no event and
\* finds none that nobody appended, and append_event returns only when the
\* event and all of its state delta are written.
THEOREM LogImplemented == Spec => ImplementsLog
  <1>1. Init => Log!Init
    BY DEF Init, Log!Init, Reached, Answers, AnswerOf
  <1>2. Spec => [](SafetyInv /\ LogInv)
    BY SafetyCorrect, LogInvCorrect, PTL
  <1> QED BY <1>1, <1>2, NextRefines, PTL DEF Spec, ImplementsLog, Log!Spec
=============================================================================
