------------------------ MODULE SessionSafetyProofs ------------------------
(***************************************************************************)
(* Theorems about the append path, for any number of processes, tasks and  *)
(* events, any record size limit, any retry bounds and any faults: types,  *)
(* what a step may write, and the safety invariants.                       *)
(*                                                                         *)
(* SafetyInv is the inductive strengthening of the latter: what every task *)
(* knows of the records at each label (LocalInv), what holds of records,   *)
(* caches and requests (ServerInv), and what the caller was told           *)
(* (OutcomeInv).  All of it is stable under growth of the records, so a    *)
(* step has to be looked at only for the task that takes it.               *)
(***************************************************************************)
EXTENDS SessionSegments, TLAPS

-----------------------------------------------------------------------------
(* Facts about the constants and the helpers.                              *)

\* A key is the stamp of an event and its id.
LEMMA KeyFacts ==
    /\ \A k \in Keys : k[2] \in Events /\ k[1] \in Nat
    /\ \A e \in Events : event_map_key(e) \subseteq Keys
    /\ \A e \in Events : \A k \in event_map_key(e) : k[2] = e
  <1>1. \A e \in Events : \A k \in event_map_key(e) : k[2] = e /\ k[1] \in Nat
    BY ConstantsAssumption DEF event_map_key
  <1> QED BY <1>1 DEF Keys

\* A first write goes to one of two labels.
LEMMA FirstWriteLabel == \A k \in Keys : FirstWrite(k) \in {"put", "batch"}
  BY DEF FirstWrite

\* The requests of a task with an event in hand are well formed.
LEMMA InFlightTyped ==
    ASSUME TypeOK, NEW t \in Tasks, key[t] \in Keys
    PROVE  /\ InFlight(t) \subseteq Requests
           /\ \A r \in Records : Request(t, r) \in Requests
  BY DEF TypeOK, TaskOK, InFlight, Unanswered, Request, Requests, Records

\* Server operations keep the records well formed.
LEMMA ServerTyped ==
    ASSUME DbOK, NEW n \in Nat, NEW k \in Keys,
           \/ SegmentPut(n, k)
           \/ CurBump(n)
           \/ \E s \in Scopes : StatePut(s, k)
    PROVE  DbOK'
  <1>1. CASE SegmentPut(n, k)
    BY <1>1 DEF SegmentPut, DbOK
  <1>2. CASE CurBump(n)
    BY <1>2 DEF CurBump, DbOK
  <1>3. CASE \E s \in Scopes : StatePut(s, k)
    BY <1>3, KeyFacts DEF StatePut, DbOK
  <1> QED BY <1>1, <1>2, <1>3

\* So do the updates of a task's local variables.
LEMMA MoveTyped ==
    ASSUME TaskOK, NEW t \in Tasks, NEW l \in Labels, NEW n \in Nat, Move(t, l, n)
    PROVE  /\ pc' \in [Tasks -> Labels]
           /\ key' \in [Tasks -> Keys \cup {None}]
           /\ at' \in [Tasks -> Nat]
           /\ retries' \in [Tasks -> 0..MaxRetries]
  BY ConstantsAssumption DEF TaskOK, Move

LEMMA FinishTyped ==
    ASSUME TypeOK, NEW t \in Tasks, NEW o \in Outcomes, Finish(t, o)
    PROVE  TaskOK' /\ outcome' \in [Events -> Outcomes]
  <1>1. outcome' \in [Events -> Outcomes]
    BY DEF TypeOK, Finish
  <1>2. NoResult \in [Records -> Codes] /\ "idle" \in Labels
    BY DEF NoResult, Codes, Labels
  <1>3. TaskOK'
    BY <1>2, ConstantsAssumption DEF TypeOK, TaskOK, Finish
  <1> QED BY <1>1, <1>3

LEMMA TryAgainTyped ==
    ASSUME TypeOK, NEW t \in Tasks, RetriesLeft(t), TryAgain(t)
    PROVE  TaskOK' /\ outcome' \in [Events -> Outcomes]
  BY ConstantsAssumption
  DEF TypeOK, TaskOK, TryAgain, RetriesLeft, NoResult, Records, Codes

LEMMA CacheTyped ==
    ASSUME TypeOK, NEW t \in Tasks, SetCache(t)
    PROVE  cache' \in [Procs -> Nat \cup {None}]
  BY ConstantsAssumption DEF TypeOK, TaskOK, SetCache

LEMMA FaultTyped ==
    ASSUME TypeOK, CountFault
    PROVE  faults' \in 0..MaxFaults
  BY ConstantsAssumption DEF TypeOK, CountFault

-----------------------------------------------------------------------------
(* Type correctness.                                                       *)

\* A busy task has an event in hand, and an iteration of _place_event left
\* whenever it is about to put.
TaskInv ==
    \A t \in Tasks :
        /\ pc[t] # "idle" => key[t] \in Keys
        /\ pc[t] \in {"idle", "select", "selected", "batch"} => rolls[t] = 0
        /\ pc[t] \in {"put", "size"} => rolls[t] < MaxAttempts
        /\ pc[t] # "batch" => res[t] = NoResult

TypeInv == TypeOK /\ TaskInv

LEMMA TypeInit == Init => TypeInv
  BY ConstantsAssumption DEF Init, TypeInv, TypeOK, DbOK, TaskOK, TaskInv,
     Labels, NoResult, Records, Codes, Outcomes

LEMMA TypeStart ==
    ASSUME TypeInv, NEW t \in Tasks, NEW e \in Events, StartAppend(t, e)
    PROVE  TypeInv'
  <1> USE ConstantsAssumption DEF TypeInv
  <1>1. PICK k \in event_map_key(e) :
          /\ key' = [key EXCEPT ![t] = k]
          /\ \/ /\ cache[Host[t]] # None
                /\ pc' = [pc EXCEPT ![t] = FirstWrite(k)]
                /\ at' = [at EXCEPT ![t] = cache[Host[t]]]
             \/ /\ cache[Host[t]] = None
                /\ pc' = [pc EXCEPT ![t] = "select"]
                /\ at' = at
    BY DEF StartAppend
  <1>2. k \in Keys /\ FirstWrite(k) \in {"put", "batch"}
    BY KeyFacts, FirstWriteLabel
  <1>a. pc' \in [Tasks -> Labels] /\ key' \in [Tasks -> Keys \cup {None}]
    BY <1>1, <1>2 DEF TypeOK, TaskOK, Labels
  <1>b. at' \in [Tasks -> Nat]
    BY <1>1 DEF TypeOK, TaskOK
  <1>c. outcome' \in [Events -> Outcomes]
    BY DEF StartAppend, TypeOK, Outcomes
  <1>3. TypeOK'
    BY <1>a, <1>b, <1>c DEF StartAppend, TypeOK, DbOK, TaskOK, db
  <1>4. TaskInv'
    BY <1>1, <1>2 DEF StartAppend, TaskInv, TypeOK, TaskOK
  <1> QED BY <1>3, <1>4

LEMMA TypeStep ==
    ASSUME TypeInv, NEW t \in Tasks, Step(t)
    PROVE  TypeInv'
  <1> USE ConstantsAssumption DEF TypeInv
  <1>k. pc[t] # "idle" => key[t] \in Keys
    BY DEF TaskInv
  <1>1. CASE CurrentSegmentRead(t)
    <2>1. cur \in Nat /\ "selected" \in Labels
      BY DEF TypeOK, DbOK, Labels
    <2>2. TypeOK'
      BY <1>1, <2>1, MoveTyped DEF CurrentSegmentRead, TypeOK, TaskOK, DbOK, db
    <2>3. TaskInv'
      BY <1>1 DEF CurrentSegmentRead, TaskInv, Move, TypeOK, TaskOK
    <2> QED BY <2>2, <2>3
  <1>2. CASE CurrentSegmentCached(t)
    <2>1. at[t] \in Nat /\ FirstWrite(key[t]) \in {"put", "batch"} /\ FirstWrite(key[t]) \in Labels
      BY <1>2, <1>k, FirstWriteLabel DEF CurrentSegmentCached, TypeOK, TaskOK, Labels
    <2>2. TypeOK'
      BY <1>2, <2>1, MoveTyped, CacheTyped
      DEF CurrentSegmentCached, TypeOK, TaskOK, DbOK, db
    <2>3. TaskInv'
      BY <1>2, <2>1 DEF CurrentSegmentCached, TaskInv, Move, TypeOK, TaskOK
    <2> QED BY <2>2, <2>3
  <1>3. CASE PutOk(t)
    <2>1. at[t] \in Nat /\ key[t] \in Keys /\ "reply" \in Labels
      BY <1>3, <1>k DEF PutOk, TypeOK, TaskOK, Labels
    <2>2. DbOK'
      BY <1>3, <2>1, ServerTyped DEF PutOk, TypeOK
    <2>3. TypeOK'
      BY <1>3, <2>1, <2>2, MoveTyped DEF PutOk, TypeOK, TaskOK
    <2>4. TaskInv'
      BY <1>3 DEF PutOk, TaskInv, Move, TypeOK, TaskOK
    <2> QED BY <2>3, <2>4
  <1>4. CASE PutReply(t)
    <2>1. TypeOK'
      BY <1>4, FinishTyped, CacheTyped DEF PutReply, TypeOK, DbOK, db, Outcomes
    <2>2. TaskInv'
      BY <1>4 DEF PutReply, Finish, TaskInv, TypeOK, TaskOK
    <2> QED BY <2>1, <2>2
  <1>5. CASE PutTooBig(t)
    <2>1. at[t] \in Nat /\ "size" \in Labels
      BY DEF TypeOK, TaskOK, Labels
    <2>2. TypeOK'
      BY <1>5, <2>1, MoveTyped DEF PutTooBig, TypeOK, TaskOK, DbOK, db
    <2>3. TaskInv'
      BY <1>5 DEF PutTooBig, TaskInv, Move, TypeOK, TaskOK
    <2> QED BY <2>2, <2>3
  <1>6. CASE SegmentSize(t)
    <2>1. at[t] \in Nat /\ "roll" \in Labels
      BY DEF TypeOK, TaskOK, Labels
    <2>2. CASE Finish(t, "toobig")
      <3>1. TypeOK'
        BY <1>6, <2>2, FinishTyped DEF SegmentSize, TypeOK, DbOK, db, Outcomes
      <3>2. TaskInv'
        BY <1>6, <2>2 DEF Finish, TaskInv, TypeOK, TaskOK
      <3> QED BY <3>1, <3>2
    <2>3. CASE /\ Move(t, "roll", at[t])
               /\ rolls' = [rolls EXCEPT ![t] = @ + 1]
               /\ UNCHANGED <<res, outcome>>
      <3>1. rolls' \in [Tasks -> 0..MaxAttempts]
        BY <1>6, <2>3 DEF SegmentSize, TaskInv, TypeOK, TaskOK
      <3>2. TypeOK'
        BY <1>6, <2>1, <2>3, <3>1, MoveTyped DEF SegmentSize, TypeOK, TaskOK, DbOK, db
      <3>3. TaskInv'
        BY <1>6, <2>3 DEF SegmentSize, TaskInv, Move, TypeOK, TaskOK
      <3> QED BY <3>2, <3>3
    <2> QED BY <1>6, <2>2, <2>3 DEF SegmentSize
  <1>7. CASE RollBump(t)
    <2>1. at[t] \in Nat /\ at[t] + 1 \in Nat /\ key[t] \in Keys /\ "rolled" \in Labels
      BY <1>7, <1>k DEF RollBump, TypeOK, TaskOK, Labels
    <2>2. DbOK'
      BY <1>7, <2>1, ServerTyped DEF RollBump, TypeOK
    <2>3. TypeOK'
      BY <1>7, <2>1, <2>2, MoveTyped DEF RollBump, TypeOK, TaskOK
    <2>4. TaskInv'
      BY <1>7 DEF RollBump, TaskInv, Move, TypeOK, TaskOK
    <2> QED BY <2>3, <2>4
  <1>8. CASE RollFiltered(t)
    <2>1. at[t] \in Nat /\ "reread" \in Labels
      BY DEF TypeOK, TaskOK, Labels
    <2>2. TypeOK'
      BY <1>8, <2>1, MoveTyped DEF RollFiltered, TypeOK, TaskOK, DbOK, db
    <2>3. TaskInv'
      BY <1>8 DEF RollFiltered, TaskInv, Move, TypeOK, TaskOK
    <2> QED BY <2>2, <2>3
  <1>9. CASE RollReread(t)
    <2>1. cur \in Nat /\ "rolled" \in Labels
      BY DEF TypeOK, DbOK, Labels
    <2>2. TypeOK'
      BY <1>9, <2>1, MoveTyped DEF RollReread, TypeOK, TaskOK, DbOK, db
    <2>3. TaskInv'
      BY <1>9 DEF RollReread, TaskInv, Move, TypeOK, TaskOK
    <2> QED BY <2>2, <2>3
  <1>10. CASE RollDone(t)
    <2>1. at[t] \in Nat /\ "put" \in Labels
      BY DEF TypeOK, TaskOK, Labels
    <2>2. CASE Finish(t, "diverged")
      <3>1. TypeOK'
        BY <1>10, <2>2, FinishTyped, CacheTyped DEF RollDone, TypeOK, DbOK, db, Outcomes
      <3>2. TaskInv'
        BY <1>10, <2>2 DEF Finish, TaskInv, TypeOK, TaskOK
      <3> QED BY <3>1, <3>2
    <2>3. CASE /\ rolls[t] < MaxAttempts
               /\ Move(t, "put", at[t])
               /\ UNCHANGED <<rolls, res, outcome>>
      <3>1. TypeOK'
        BY <1>10, <2>1, <2>3, MoveTyped, CacheTyped
        DEF RollDone, TypeOK, TaskOK, DbOK, db
      <3>2. TaskInv'
        BY <1>10, <2>3 DEF RollDone, TaskInv, Move, TypeOK, TaskOK
      <3> QED BY <3>1, <3>2
    <2> QED BY <1>10, <2>2, <2>3 DEF RollDone
  <1>11. CASE WriteFault(t)
    <2>1. late' \subseteq Requests /\ DbOK' /\ cache' = cache
      BY <1>11, <1>k, InFlightTyped DEF WriteFault, TypeOK, DbOK, db
    <2>2. faults' \in 0..MaxFaults
      BY <1>11, FaultTyped DEF WriteFault
    <2>3. CASE RetriesLeft(t) /\ TryAgain(t)
      <3>1. TypeOK'
        BY <2>1, <2>2, <2>3, TryAgainTyped DEF TypeOK
      <3>2. TaskInv'
        BY <2>3 DEF TryAgain, TaskInv
      <3> QED BY <3>1, <3>2
    <2>4. CASE Finish(t, "transient")
      <3>1. TypeOK'
        BY <2>1, <2>2, <2>4, FinishTyped DEF TypeOK, Outcomes
      <3>2. TaskInv'
        BY <2>4 DEF Finish, TaskInv, TypeOK, TaskOK
      <3> QED BY <3>1, <3>2
    <2> QED BY <1>11, <2>3, <2>4 DEF WriteFault
  <1>12. ASSUME NEW r \in Records, BatchWrite(t, r) PROVE TypeInv'
    <2>1. at[t] \in Nat /\ key[t] \in Keys
      BY <1>12, <1>k DEF BatchWrite, TypeOK, TaskOK
    <2>2. DbOK'
      BY <1>12, <2>1, ServerTyped DEF BatchWrite, TypeOK, DbOK, db
    <2>3. \E c \in Codes : res' = [res EXCEPT ![t][r] = c]
      BY <1>12 DEF BatchWrite, Codes
    <2>4. res' \in [Tasks -> [Records -> Codes]]
      BY <2>3 DEF TypeOK, TaskOK
    <2>5. TypeOK'
      BY <1>12, <2>2, <2>4 DEF BatchWrite, TypeOK, TaskOK
    <2>6. TaskInv'
      BY <1>12 DEF BatchWrite, TaskInv, TypeOK, TaskOK
    <2> QED BY <2>5, <2>6
  <1>13. ASSUME NEW r \in Records, BatchRecordFault(t, r) PROVE TypeInv'
    <2>1. Request(t, r) \in Requests
      BY <1>13, <1>k, InFlightTyped DEF BatchRecordFault
    <2>2. late' \subseteq Requests /\ faults' \in 0..MaxFaults
      BY <1>13, <2>1, FaultTyped DEF BatchRecordFault, TypeOK
    <2>3. \E c \in Codes : res' = [res EXCEPT ![t][r] = c]
      BY <1>13 DEF BatchRecordFault, Codes
    <2>4. res' \in [Tasks -> [Records -> Codes]]
      BY <2>3 DEF TypeOK, TaskOK
    <2>5. TypeOK'
      BY <1>13, <2>2, <2>4 DEF BatchRecordFault, TypeOK, TaskOK, DbOK, db
    <2>6. TaskInv'
      BY <1>13 DEF BatchRecordFault, TaskInv, TypeOK, TaskOK
    <2> QED BY <2>5, <2>6
  <1>14. CASE BatchFault(t)
    <2>1. late' \subseteq Requests /\ DbOK' /\ cache' = cache
      BY <1>14, <1>k, InFlightTyped DEF BatchFault, TypeOK, DbOK, db
    <2>2. faults' \in 0..MaxFaults
      BY <1>14, FaultTyped DEF BatchFault
    <2>3. CASE RetriesLeft(t) /\ TryAgain(t)
      <3>1. TypeOK'
        BY <2>1, <2>2, <2>3, TryAgainTyped DEF TypeOK
      <3>2. TaskInv'
        BY <2>3 DEF TryAgain, TaskInv
      <3> QED BY <3>1, <3>2
    <2>4. CASE Finish(t, "transient")
      <3>1. TypeOK'
        BY <2>1, <2>2, <2>4, FinishTyped DEF TypeOK, Outcomes
      <3>2. TaskInv'
        BY <2>4 DEF Finish, TaskInv, TypeOK, TaskOK
      <3> QED BY <3>1, <3>2
    <2> QED BY <1>14, <2>3, <2>4 DEF BatchFault
  <1>15. CASE BatchRetry(t)
    <2>1. TypeOK'
      BY <1>15, TryAgainTyped DEF BatchRetry, TypeOK, DbOK, db
    <2>2. TaskInv'
      BY <1>15 DEF BatchRetry, TryAgain, TaskInv
    <2> QED BY <2>1, <2>2
  <1>16. CASE BatchAck(t)
    <2>1. TypeOK'
      BY <1>16, FinishTyped, CacheTyped DEF BatchAck, TypeOK, DbOK, db, Outcomes
    <2>2. TaskInv'
      BY <1>16 DEF BatchAck, Finish, TaskInv, TypeOK, TaskOK
    <2> QED BY <2>1, <2>2
  <1>17. CASE BatchOverflow(t)
    <2>1. at[t] \in Nat /\ "roll" \in Labels
      BY DEF TypeOK, TaskOK, Labels
    <2>2. res' \in [Tasks -> [Records -> Codes]]
      BY <1>17 DEF BatchOverflow, TypeOK, TaskOK, NoResult, Codes
    <2>3. TypeOK'
      BY <1>17, <2>1, <2>2, MoveTyped DEF BatchOverflow, TypeOK, TaskOK, DbOK, db
    <2>4. TaskInv'
      BY <1>17 DEF BatchOverflow, BatchReturns, Answered, TaskInv, Move, TypeOK, TaskOK
    <2> QED BY <2>3, <2>4
  <1>18. CASE BatchError(t)
    <2>1. PICK o \in {"transient", "error"} : Finish(t, o)
      BY <1>18 DEF BatchError
    <2>2. TypeOK'
      BY <1>18, <2>1, FinishTyped DEF BatchError, TypeOK, DbOK, db, Outcomes
    <2>3. TaskInv'
      BY <2>1 DEF Finish, TaskInv, TypeOK, TaskOK
    <2> QED BY <2>2, <2>3
  <1>19. CASE CallFails(t)
    <2>1. late' \subseteq Requests /\ DbOK' /\ cache' = cache
      BY <1>19, <1>k, InFlightTyped DEF CallFails, TypeOK, DbOK, db
    <2>2. TypeOK'
      BY <1>19, <2>1, FinishTyped, FaultTyped DEF CallFails, TypeOK, Outcomes
    <2>3. TaskInv'
      BY <1>19 DEF CallFails, Finish, TaskInv, TypeOK, TaskOK
    <2> QED BY <2>2, <2>3
  <1> QED BY <1>1, <1>2, <1>3, <1>4, <1>5, <1>6, <1>7, <1>8, <1>9, <1>10,
             <1>11, <1>12, <1>13, <1>14, <1>15, <1>16, <1>17, <1>18, <1>19
          DEF Step

LEMMA TypeCrash ==
    ASSUME TypeInv, NEW p \in Procs, Crash(p)
    PROVE  TypeInv'
  <1> USE ConstantsAssumption DEF TypeInv
  <1> DEFINE dead == {t \in Tasks : Host[t] = p /\ pc[t] # "idle"}
  <1>1. late' = late \cup UNION {InFlight(t) : t \in dead}
    BY DEF Crash
  <1>2. \A t \in dead : InFlight(t) \subseteq Requests
    BY InFlightTyped DEF TaskInv
  <1>3. late' \subseteq Requests
    BY <1>1, <1>2 DEF TypeOK
  <1>r. NoResult \in [Records -> Codes] /\ "idle" \in Labels
    BY DEF NoResult, Codes, Labels
  <1>t. /\ pc' = [t \in Tasks |-> IF t \in dead THEN "idle" ELSE pc[t]]
        /\ key' = [t \in Tasks |-> IF t \in dead THEN None ELSE key[t]]
        /\ at' = [t \in Tasks |-> IF t \in dead THEN 0 ELSE at[t]]
        /\ retries' = [t \in Tasks |-> IF t \in dead THEN 0 ELSE retries[t]]
        /\ rolls' = [t \in Tasks |-> IF t \in dead THEN 0 ELSE rolls[t]]
        /\ res' = [t \in Tasks |-> IF t \in dead THEN NoResult ELSE res[t]]
    BY DEF Crash
  <1> HIDE DEF dead
  <1>4. TaskOK'
    BY <1>r, <1>t DEF TypeOK, TaskOK
  <1> USE DEF dead
  <1>5. outcome' \in [Events -> Outcomes]
    BY DEF Crash, TypeOK, Outcomes
  <1>6. cache' \in [Procs -> Nat \cup {None}] /\ faults' \in 0..MaxFaults /\ DbOK'
    BY FaultTyped DEF Crash, TypeOK, DbOK, db
  <1>7. TypeOK'
    BY <1>3, <1>4, <1>5, <1>6 DEF TypeOK
  <1>8. TaskInv'
    BY DEF Crash, TaskInv
  <1> QED BY <1>7, <1>8

LEMMA TypeLate ==
    ASSUME TypeInv, NEW q \in late, ApplyLate(q)
    PROVE  TypeInv'
  <1> USE DEF TypeInv
  <1>1. q.n \in Nat /\ q.key \in Keys
    BY DEF TypeOK, Requests
  <1>2. DbOK'
    BY <1>1, ServerTyped DEF ApplyLate, TypeOK
  <1> QED BY <1>2 DEF ApplyLate, TypeOK, TaskOK, TaskInv, taskVars

LEMMA TypeNext == TypeInv /\ [Next]_vars => TypeInv'
  <1> SUFFICES ASSUME TypeInv, [Next]_vars PROVE TypeInv'
    OBVIOUS
  <1>1. CASE UNCHANGED vars
    BY <1>1 DEF TypeInv, TypeOK, DbOK, TaskOK, TaskInv, vars, db, taskVars
  <1> QED BY <1>1, TypeStart, TypeStep, TypeCrash, TypeLate DEF Next

\* Every variable keeps its type: the counters of the backoff loops and of
\* _place_event stay within their bounds, requests and keys are well formed.
THEOREM TypeCorrect == Spec => []TypeOK
  <1>1. TypeInv => TypeOK
    BY DEF TypeInv
  <1> QED BY <1>1, TypeInit, TypeNext, PTL DEF Spec

-----------------------------------------------------------------------------
(* What a step can do to the records, the caches and the requests.         *)

\* Records only grow, and the fault count with them.
Grows ==
    /\ stored \subseteq stored'
    /\ cur' >= cur
    /\ wrote \subseteq wrote'
    /\ faults' >= faults

\* A segment that refused an entry refuses it for ever.
LEMMA RefusalIsStable ==
    ASSUME DbOK, DbOK', Grows, NEW n, NEW k \in Keys, ~Accepts(n, k)
    PROVE  ~Accepts(n, k)'
  <1>1. Seg(n) \cup {k} \subseteq Seg(n)' \cup {k}
    BY DEF Seg, Grows
  <1>2. Seg(n)' \cup {k} \in SUBSET Keys
    BY DEF Seg
  <1>3. ~Fits(Seg(n)' \cup {k})
    BY <1>1, <1>2, FitsAssumption DEF Accepts
  <1> QED BY <1>3 DEF Accepts

\* The effects of a step of task t on what it shares with the others.
LEMMA StepEffects ==
    ASSUME TypeInv, NEW t \in Tasks, Step(t)
    PROVE  /\ \/ UNCHANGED db
              \/ pc[t] \in {"put", "batch"} /\ SegmentPut(at[t], key[t])
              \/ pc[t] = "roll" /\ CurBump(at[t])
              \/ \E s \in Scopes : StatePut(s, key[t])
           /\ late' \subseteq late \cup InFlight(t)
           /\ cache' = cache \/ SetCache(t)
           /\ faults' >= faults
           /\ pc[t] # "idle" /\ key[t] \in Keys
  <1>1. pc[t] # "idle"
    BY DEF Step, CurrentSegmentRead, CurrentSegmentCached, PutOk, PutReply,
       PutTooBig, SegmentSize, RollBump, RollFiltered, RollReread, RollDone,
       WriteFault, BatchWrite, BatchRecordFault, BatchFault, BatchRetry,
       BatchAck, BatchOverflow, BatchError, BatchReturns, Answered, CallFails
  <1>2. key[t] \in Keys
    BY <1>1 DEF TypeInv, TaskInv
  <1>3. \/ UNCHANGED db
        \/ pc[t] \in {"put", "batch"} /\ SegmentPut(at[t], key[t])
        \/ pc[t] = "roll" /\ CurBump(at[t])
        \/ \E s \in Scopes : StatePut(s, key[t])
    BY DEF Step, CurrentSegmentRead, CurrentSegmentCached, PutOk, PutReply,
       PutTooBig, SegmentSize, RollBump, RollFiltered, RollReread, RollDone,
       WriteFault, BatchWrite, BatchRecordFault, BatchFault, BatchRetry,
       BatchAck, BatchOverflow, BatchError, CallFails
  <1>4. late' \subseteq late \cup InFlight(t)
    BY DEF Step, CurrentSegmentRead, CurrentSegmentCached, PutOk, PutReply,
       PutTooBig, SegmentSize, RollBump, RollFiltered, RollReread, RollDone,
       WriteFault, BatchWrite, BatchRecordFault, BatchFault, BatchRetry,
       BatchAck, BatchOverflow, BatchError, CallFails, InFlight
  <1>5. cache' = cache \/ SetCache(t)
    BY DEF Step, CurrentSegmentRead, CurrentSegmentCached, PutOk, PutReply,
       PutTooBig, SegmentSize, RollBump, RollFiltered, RollReread, RollDone,
       WriteFault, BatchWrite, BatchRecordFault, BatchFault, BatchRetry,
       BatchAck, BatchOverflow, BatchError, CallFails
  <1>6. faults' >= faults
    <2>1. faults' = faults \/ CountFault
      BY DEF Step, CurrentSegmentRead, CurrentSegmentCached, PutOk, PutReply,
         PutTooBig, SegmentSize, RollBump, RollFiltered, RollReread, RollDone,
         WriteFault, BatchWrite, BatchRecordFault, BatchFault, BatchRetry,
         BatchAck, BatchOverflow, BatchError, CallFails
    <2> QED BY <2>1, ConstantsAssumption DEF CountFault, TypeInv, TypeOK
  <1> QED BY <1>1, <1>2, <1>3, <1>4, <1>5, <1>6

\* A step of task t leaves the local variables of the other tasks alone.
LEMMA StepIsLocal ==
    ASSUME TypeInv, NEW t \in Tasks, Step(t), NEW u \in Tasks, u # t
    PROVE  /\ pc'[u] = pc[u] /\ key'[u] = key[u] /\ at'[u] = at[u]
           /\ retries'[u] = retries[u] /\ rolls'[u] = rolls[u] /\ res'[u] = res[u]
  BY DEF TypeInv, TypeOK, TaskOK, Step, CurrentSegmentRead,
     CurrentSegmentCached, PutOk, PutReply, PutTooBig, SegmentSize, RollBump,
     RollFiltered, RollReread, RollDone, WriteFault, BatchWrite,
     BatchRecordFault, BatchFault, BatchRetry, BatchAck, BatchOverflow,
     BatchError, CallFails, Move, Finish, TryAgain

-----------------------------------------------------------------------------
(* The safety invariants.                                                  *)

LocalInv(t) ==
    /\ at[t] <= cur
    /\ pc[t] \in {"size", "roll"} => ~Accepts(at[t], key[t])
    /\ pc[t] = "reread" => at[t] < cur
    /\ pc[t] = "reply" => <<at[t], key[t]>> \in stored
    /\ pc[t] = "batch" /\ res[t]["seg"] = "toobig" => ~Accepts(at[t], key[t])
    /\ pc[t] = "batch" /\ res[t]["seg"] = "ok" => <<at[t], key[t]>> \in stored
    /\ pc[t] = "batch" =>
        \A s \in Scopes : res[t][s] = "ok" => <<s, key[t][2]>> \in wrote
    /\ pc[t] \notin {"idle", "select", "selected", "batch"} =>
        \A s \in Delta[key[t][2]] : <<s, key[t][2]>> \in wrote
    /\ pc[t] \in {"roll", "reread"} => rolls[t] <= at[t] + 1
    /\ pc[t] \notin {"roll", "reread"} => rolls[t] <= at[t]
    /\ retries[t] <= faults
    /\ pc[t] = "batch" /\ (\E r \in Records : res[t][r] = "overload") =>
        retries[t] < faults

RecordInv ==
    /\ \A p \in stored : p[1] <= cur
    /\ \A n \in Nat : Fits(Seg(n))
    /\ \A g \in Nat : g < cur => \E k \in Keys : ~Accepts(g, k)

CacheInv == \A p \in Procs : cache[p] # None => cache[p] <= cur

LateInv ==
    /\ \A q \in late : q.n <= cur
    /\ \A q \in late : q.rec = "cur" => ~Accepts(q.n, q.key)

ServerInv == RecordInv /\ CacheInv /\ LateInv

Told(e) ==
    /\ outcome[e] = "ok" => \E p \in stored : p[2][2] = e
    /\ outcome[e] = "ok" => \A s \in Delta[e] : <<s, e>> \in wrote
    /\ outcome[e] = "toobig" => \E k \in event_map_key(e) : ~Storable(k)
    /\ outcome[e] = "transient" => faults > MaxRetries
    /\ outcome[e] = "diverged" => cur >= MaxAttempts

OutcomeInv == \A e \in Events : Told(e)

SafetyInv == TypeInv /\ (\A t \in Tasks : LocalInv(t)) /\ ServerInv /\ OutcomeInv

LEMMA SafetyInit == Init => SafetyInv
  <1> SUFFICES ASSUME Init PROVE SafetyInv
    OBVIOUS
  <1>1. TypeInv
    BY TypeInit
  <1>2. \A t \in Tasks : LocalInv(t)
    BY ConstantsAssumption DEF Init, LocalInv
  <1>3. \A n \in Nat : Seg(n) = {}
    BY DEF Init, Seg
  <1>4. ServerInv
    BY <1>3, FitsAssumption, ConstantsAssumption 
    DEF Init, ServerInv, RecordInv, CacheInv, LateInv
  <1>5. OutcomeInv
    BY DEF Init, OutcomeInv, Told
  <1> QED BY <1>1, <1>2, <1>4, <1>5 DEF SafetyInv

-----------------------------------------------------------------------------
(* Stability under growth.                                                 *)

LEMMA LocalStable ==
    ASSUME TypeInv, TypeInv', Grows, NEW u \in Tasks, LocalInv(u),
           pc'[u] = pc[u], key'[u] = key[u], at'[u] = at[u],
           retries'[u] = retries[u], rolls'[u] = rolls[u], res'[u] = res[u]
    PROVE  LocalInv(u)'
  <1>1. DbOK /\ DbOK' /\ (pc[u] # "idle" => key[u] \in Keys)
    BY DEF TypeInv, TypeOK, TaskInv
  <1>2. \A n : \A k \in Keys : ~Accepts(n, k) => ~Accepts(n, k)'
    BY <1>1, RefusalIsStable
  <1>3. pc[u] # "idle" /\ ~Accepts(at[u], key[u]) => ~Accepts(at[u], key[u])'
    BY <1>1, <1>2 DEF Accepts, Seg
  <1> QED BY <1>1, <1>3 DEF LocalInv, Grows, TypeInv, TypeOK, DbOK, TaskOK
\* The database effects a step can have, aimed at segment n for key k.
Effect(n, k) ==
    \/ UNCHANGED db
    \/ SegmentPut(n, k)
    \/ ~Accepts(n, k) /\ CurBump(n)
    \/ \E s \in Scopes : StatePut(s, k)

LEMMA EffectGrows ==
    ASSUME DbOK, NEW n \in Nat, NEW k \in Keys, Effect(n, k)
    PROVE  stored \subseteq stored' /\ cur' >= cur /\ wrote \subseteq wrote'
  BY DEF Effect, SegmentPut, CurBump, StatePut, DbOK, db

LEMMA EffectKeepsRecords ==
    ASSUME DbOK, DbOK', Grows, RecordInv, NEW n \in Nat, NEW k \in Keys,
           n <= cur, Effect(n, k)
    PROVE  RecordInv'
  <1>1. \A g : \A j \in Keys : ~Accepts(g, j) => ~Accepts(g, j)'
    BY RefusalIsStable
  <1>2. \A p \in stored' : p[1] <= cur'
    BY DEF RecordInv, Effect, SegmentPut, CurBump, StatePut, DbOK, db
  <1>3. ASSUME NEW m \in Nat PROVE Fits(Seg(m)')
    <2>1. CASE SegmentPut(n, k) /\ m = n
      <3>1. Seg(m)' = Seg(n) \cup {k}
        BY <2>1 DEF SegmentPut, Seg
      <3> QED BY <2>1, <3>1 DEF SegmentPut, Accepts
    <2>2. CASE ~(SegmentPut(n, k) /\ m = n)
      <3>1. Seg(m)' = Seg(m)
        BY <2>2 DEF Effect, SegmentPut, CurBump, StatePut, db, Seg
      <3> QED BY <3>1 DEF RecordInv
    <2> QED BY <2>1, <2>2
  <1>4. ASSUME NEW g \in Nat, g < cur' PROVE \E j \in Keys : ~Accepts(g, j)'
    <2>1. CASE g < cur
      BY <1>1, <2>1 DEF RecordInv
    <2>2. CASE ~(g < cur)
      <3>1. g = n /\ ~Accepts(n, k)
        BY <1>4, <2>2 DEF Effect, SegmentPut, CurBump, StatePut, DbOK, db
      <3> QED BY <1>1, <3>1
    <2> QED BY <2>1, <2>2
  <1> QED BY <1>2, <1>3, <1>4 DEF RecordInv

LEMMA LateStable ==
    ASSUME TypeInv, TypeInv', Grows, LateInv, \A t \in Tasks : LocalInv(t),
           \A q \in late' : \/ q \in late
                            \/ \E t \in Tasks : pc[t] # "idle" /\ q \in InFlight(t)
    PROVE  LateInv'
  <1>1. \A g : \A j \in Keys : ~Accepts(g, j) => ~Accepts(g, j)'
    BY RefusalIsStable DEF TypeInv, TypeOK
  <1>2. ASSUME NEW t \in Tasks, pc[t] # "idle", NEW q \in InFlight(t)
        PROVE  q.n <= cur /\ (q.rec = "cur" => ~Accepts(q.n, q.key))
    <2>1. PICK r \in Unanswered(t) : q = Request(t, r)
      BY <1>2 DEF InFlight
    <2>2. q.n = at[t] /\ q.key = key[t] /\ q.rec = r
      BY <2>1 DEF Request
    <2>3. key[t] \in Keys
      BY <1>2 DEF TypeInv, TaskInv
    <2>4. r = "cur" => pc[t] = "roll"
      BY <2>1, <2>3, ConstantsAssumption, KeyFacts
      DEF Unanswered, BatchRecords, Scopes
    <2> QED BY <2>2, <2>4 DEF LocalInv
  <1>3. ASSUME NEW q \in late'
        PROVE  /\ q.n \in Nat /\ q.n <= cur /\ q.key \in Keys
               /\ q.rec = "cur" => ~Accepts(q.n, q.key)
    BY <1>2 DEF LateInv, TypeInv, TypeOK, Requests
  <1>4. \A q \in late' : q.n <= cur'
    BY <1>3 DEF Grows, TypeInv, TypeOK, DbOK
  <1>5. \A q \in late' : q.rec = "cur" => ~Accepts(q.n, q.key)'
    BY <1>1, <1>3
  <1> QED BY <1>4, <1>5 DEF LateInv

LEMMA OutcomeStable ==
    ASSUME TypeInv, TypeInv', Grows, NEW e \in Events, Told(e),
           \/ outcome'[e] = outcome[e]
           \/ outcome'[e] \in {"pending", "error", "crashed"}
    PROVE  Told(e)'
  BY ConstantsAssumption DEF Told, Grows, TypeInv, TypeOK, DbOK

-----------------------------------------------------------------------------
(* A step of a task.                                                       *)

\* Both backoff loops leave the count of failures ahead of the retries.
LEMMA FaultCounted ==
    ASSUME TypeInv, NEW t \in Tasks, LocalInv(t), MayFail, CountFault
    PROVE  retries[t] < faults'
  BY ConstantsAssumption
  DEF TypeInv, TypeOK, TaskOK, LocalInv, MayFail, CountFault

\* A task that ends knows nothing.
LEMMA FinishLocal ==
    ASSUME TypeInv, TypeInv', NEW t \in Tasks, NEW o, Finish(t, o)
    PROVE  LocalInv(t)'
  <1>1. /\ pc'[t] = "idle" /\ at'[t] = 0 /\ rolls'[t] = 0 /\ retries'[t] = 0
    BY DEF Finish, TypeInv, TypeOK, TaskOK
  <1>2. cur' \in Nat /\ faults' \in Nat
    BY DEF TypeInv, TypeOK, DbOK
  <1> QED BY <1>1, <1>2 DEF LocalInv

\* A task that tries a put or an increment again knows what it knew.
LEMMA TryAgainLocal ==
    ASSUME TypeInv, TypeInv', NEW t \in Tasks, LocalInv(t), TryAgain(t),
           UNCHANGED db, faults' >= faults, retries[t] < faults'
    PROVE  LocalInv(t)'
  <1>1. /\ pc'[t] = pc[t] /\ at'[t] = at[t] /\ key'[t] = key[t]
        /\ rolls'[t] = rolls[t] /\ retries'[t] = retries[t] + 1
        /\ \A r \in Records : res'[t][r] = "none"
    BY DEF TryAgain, NoResult, TypeInv, TypeOK, TaskOK
  <1>2. Accepts(at[t], key[t])' <=> Accepts(at[t], key[t])
    BY <1>1 DEF db, Accepts, Seg
  <1>3. retries'[t] <= faults'
    BY <1>1 DEF TypeInv, TypeOK, TaskOK
  <1> QED BY <1>1, <1>2, <1>3 DEF LocalInv, db, Records, Scopes

LEMMA LocalStep ==
    ASSUME TypeInv, TypeInv', Grows, NEW t \in Tasks, LocalInv(t), Step(t),
           CacheInv
    PROVE  LocalInv(t)'
  <1>k. key[t] \in Keys /\ pc[t] # "idle" /\ DbOK /\ DbOK'
    BY StepEffects DEF TypeInv, TypeOK
  <1>s. \A n : \A k \in Keys : ~Accepts(n, k) => ~Accepts(n, k)'
    BY <1>k, RefusalIsStable
  <1>n. /\ cur \in Nat /\ cur' \in Nat /\ at[t] \in Nat /\ faults' \in Nat
        /\ cur' >= cur
    BY DEF TypeInv, TypeOK, DbOK, TaskOK, Grows
  <1>d. key[t][2] \in Events /\ Delta[key[t][2]] \subseteq Scopes
    BY <1>k, KeyFacts, ConstantsAssumption
  <1>1. CASE CurrentSegmentRead(t)
    BY <1>1, <1>n DEF CurrentSegmentRead, Move, LocalInv, TypeInv, TypeOK, TaskOK, TaskInv, db
  <1>2. CASE CurrentSegmentCached(t)
    <2>1. /\ pc'[t] = FirstWrite(key[t]) /\ key'[t] = key[t] /\ at'[t] = at[t]
          /\ retries'[t] = 0 /\ rolls'[t] = 0 /\ res'[t] = res[t]
      BY <1>2 DEF CurrentSegmentCached, Move, TypeInv, TypeOK, TaskOK, TaskInv
    <2>2. UNCHANGED db /\ faults' = faults /\ pc[t] = "selected"
      BY <1>2 DEF CurrentSegmentCached
    <2>3. FirstWrite(key[t]) = "put" => Delta[key[t][2]] = {}
      BY DEF FirstWrite
    <2>4. res[t] = NoResult
      BY <2>2 DEF TypeInv, TaskInv
    <2>5. FirstWrite(key[t]) \in {"put", "batch"}
      BY <1>k, FirstWriteLabel
    <2> QED BY <1>n, <2>1, <2>2, <2>3, <2>4, <2>5 DEF LocalInv, NoResult, Records
  <1>3. CASE PutOk(t)
    BY <1>3, <1>n DEF PutOk, SegmentPut, Move, LocalInv, TypeInv, TypeOK, TaskOK
  <1>4. CASE PutReply(t)
    BY <1>4, FinishLocal DEF PutReply
  <1>5. CASE PutTooBig(t)
    <2>1. /\ pc'[t] = "size" /\ key'[t] = key[t] /\ at'[t] = at[t]
          /\ retries'[t] = 0 /\ rolls'[t] = rolls[t]
      BY <1>5 DEF PutTooBig, Move, TypeInv, TypeOK, TaskOK
    <2>2. UNCHANGED db /\ pc[t] = "put"
      BY <1>5 DEF PutTooBig
    <2>3. ~Accepts(at[t], key[t])'
      BY <1>5, <2>1, <2>2 DEF PutTooBig, db, Accepts, Seg
    <2> QED BY <1>n, <2>1, <2>2, <2>3 DEF LocalInv, db
  <1>6. CASE SegmentSize(t)
    <2>1. CASE Finish(t, "toobig")
      BY <2>1, FinishLocal
    <2>2. CASE Move(t, "roll", at[t]) /\ rolls' = [rolls EXCEPT ![t] = @ + 1]
      <3>1. /\ pc'[t] = "roll" /\ key'[t] = key[t] /\ at'[t] = at[t]
            /\ retries'[t] = 0 /\ rolls'[t] = rolls[t] + 1
        BY <2>2 DEF Move, TypeInv, TypeOK, TaskOK
      <3>2. UNCHANGED db /\ pc[t] = "size"
        BY <1>6 DEF SegmentSize
      <3>3. ~Accepts(at[t], key[t])'
        BY <3>1, <3>2 DEF LocalInv, db, Accepts, Seg
      <3>4. rolls'[t] <= at'[t] + 1
        BY <3>1, <3>2, <1>n DEF LocalInv, TypeInv, TypeOK, TaskOK
      <3> QED BY <1>n, <3>1, <3>2, <3>3, <3>4 DEF LocalInv, db
    <2> QED BY <1>6, <2>1, <2>2 DEF SegmentSize
  <1>7. CASE RollBump(t)
    BY <1>7, <1>n DEF RollBump, CurBump, Move, LocalInv, TypeInv, TypeOK, TaskOK
  <1>8. CASE RollFiltered(t)
    <2>1. /\ pc'[t] = "reread" /\ key'[t] = key[t] /\ at'[t] = at[t]
          /\ retries'[t] = 0 /\ rolls'[t] = rolls[t]
      BY <1>8 DEF RollFiltered, Move, TypeInv, TypeOK, TaskOK
    <2>2. UNCHANGED db /\ pc[t] = "roll" /\ cur # at[t]
      BY <1>8 DEF RollFiltered
    <2> QED BY <1>n, <2>1, <2>2 DEF LocalInv, db
  <1>9. CASE RollReread(t)
    BY <1>9, <1>n DEF RollReread, Move, LocalInv, TypeInv, TypeOK, TaskOK, db
  <1>10. CASE RollDone(t)
    BY <1>10, <1>n, FinishLocal DEF RollDone, Move, LocalInv, TypeInv, TypeOK, TaskOK, db
  <1>11. CASE WriteFault(t)
    BY <1>11, FaultCounted, FinishLocal, TryAgainLocal DEF WriteFault, Grows
  <1>12. ASSUME NEW r \in Records, BatchWrite(t, r) PROVE LocalInv(t)'
    <2>1. /\ pc[t] = "batch" /\ pc' = pc /\ key' = key /\ at' = at
          /\ retries' = retries /\ rolls' = rolls /\ faults' = faults
      BY <1>12 DEF BatchWrite
    <2>2. \A q \in Records : q # r => res'[t][q] = res[t][q]
      BY <1>12 DEF BatchWrite, TypeInv, TypeOK, TaskOK
    <2>3. CASE r = "seg" /\ SegmentPut(at[t], key[t]) /\ res' = [res EXCEPT ![t][r] = "ok"]
      <3>1. res'[t]["seg"] = "ok" /\ \A q \in Scopes : res'[t][q] = res[t][q]
        BY <2>2, <2>3 DEF TypeInv, TypeOK, TaskOK, Records, Scopes
      <3>2. <<at[t], key[t]>> \in stored' /\ wrote' = wrote /\ cur' = cur
        BY <2>3 DEF SegmentPut
      <3> QED BY <2>1, <3>1, <3>2 DEF LocalInv, Records
    <2>4. CASE /\ r = "seg" /\ ~Accepts(at[t], key[t]) /\ UNCHANGED db
               /\ res' = [res EXCEPT ![t][r] = "toobig"]
      <3>1. res'[t]["seg"] = "toobig" /\ \A q \in Scopes : res'[t][q] = res[t][q]
        BY <2>2, <2>4 DEF TypeInv, TypeOK, TaskOK, Records, Scopes
      <3>2. ~Accepts(at[t], key[t])'
        BY <2>1, <2>4 DEF db, Accepts, Seg
      <3> QED BY <2>1, <2>4, <3>1, <3>2 DEF LocalInv, Records, db
    <2>5. CASE r \in Scopes /\ StatePut(r, key[t]) /\ res' = [res EXCEPT ![t][r] = "ok"]
      <3>1. res'[t][r] = "ok" /\ \A q \in Records : q # r => res'[t][q] = res[t][q]
        BY <2>2, <2>5 DEF TypeInv, TypeOK, TaskOK
      <3>2. /\ stored' = stored /\ cur' = cur
            /\ wrote' = wrote \cup {<<r, key[t][2]>>}
        BY <2>5 DEF StatePut
      <3>3. r # "seg" /\ "seg" \in Records /\ Scopes \subseteq Records
        BY <2>5 DEF Scopes, Records
      <3>4. Accepts(at[t], key[t])' <=> Accepts(at[t], key[t])
        BY <2>1, <3>2 DEF Accepts, Seg
      <3> QED BY <2>1, <3>1, <3>2, <3>3, <3>4 DEF LocalInv
    <2> QED BY <1>12, <2>3, <2>4, <2>5 DEF BatchWrite
  <1>13. ASSUME NEW r \in Records, BatchRecordFault(t, r) PROVE LocalInv(t)'
    <2>1. /\ pc[t] = "batch" /\ pc' = pc /\ key' = key /\ at' = at
          /\ retries' = retries /\ rolls' = rolls /\ UNCHANGED db
      BY <1>13 DEF BatchRecordFault
    <2>2. PICK c \in {"overload", "error"} : res' = [res EXCEPT ![t][r] = c]
      BY <1>13 DEF BatchRecordFault
    <2>3. res'[t][r] = c /\ \A q \in Records : q # r => res'[t][q] = res[t][q]
      BY <2>2 DEF TypeInv, TypeOK, TaskOK
    <2>4. retries'[t] < faults' /\ retries'[t] <= faults'
      BY <1>13, <2>1, <1>n, FaultCounted DEF BatchRecordFault, TypeInv, TypeOK, TaskOK
    <2>5. Accepts(at[t], key[t])' <=> Accepts(at[t], key[t])
      BY <2>1 DEF db, Accepts, Seg
    <2>6. "seg" \in Records /\ Scopes \subseteq Records
      BY DEF Records
    <2> QED BY <2>1, <2>2, <2>3, <2>4, <2>5, <2>6 DEF LocalInv, db
  <1>14. CASE BatchFault(t)
    BY <1>14, FaultCounted, FinishLocal, TryAgainLocal DEF BatchFault, Grows
  <1>15. CASE BatchRetry(t)
    <2>1. retries[t] < faults
      BY <1>15, <1>d DEF BatchRetry, Answered, Overloaded, BatchRecords, LocalInv, Records
    <2>2. UNCHANGED db /\ faults' = faults /\ TryAgain(t)
      BY <1>15 DEF BatchRetry
    <2> QED BY <2>1, <2>2, TryAgainLocal DEF TypeInv, TypeOK
  <1>16. CASE BatchAck(t)
    BY <1>16, FinishLocal DEF BatchAck
  <1>17. CASE BatchOverflow(t)
    <2>1. /\ pc'[t] = "roll" /\ key'[t] = key[t] /\ at'[t] = at[t]
          /\ retries'[t] = 0 /\ rolls'[t] = rolls[t]
      BY <1>17 DEF BatchOverflow, Move, TypeInv, TypeOK, TaskOK
    <2>2. UNCHANGED db /\ pc[t] = "batch" /\ res[t]["seg"] = "toobig" /\ SiblingsOk(t)
      BY <1>17 DEF BatchOverflow, BatchReturns, Answered
    <2>3. ~Accepts(at[t], key[t])'
      BY <2>1, <2>2 DEF LocalInv, db, Accepts, Seg
    <2>4. \A s \in Delta[key[t][2]] : <<s, key[t][2]>> \in wrote
      BY <2>2, <1>d DEF SiblingsOk, LocalInv
    <2>5. rolls[t] = 0
      BY <2>2 DEF TypeInv, TaskInv
    <2> QED BY <1>n, <2>1, <2>2, <2>3, <2>4, <2>5 DEF LocalInv, db
  <1>18. CASE BatchError(t)
    BY <1>18, FinishLocal DEF BatchError
  <1>19. CASE CallFails(t)
    BY <1>19, FinishLocal DEF CallFails
  <1> QED BY <1>1, <1>2, <1>3, <1>4, <1>5, <1>6, <1>7, <1>8, <1>9, <1>10,
             <1>11, <1>12, <1>13, <1>14, <1>15, <1>16, <1>17, <1>18, <1>19
          DEF Step

\* What the caller is told when append_event of task t ends with o.
LEMMA FinishOutcome ==
    ASSUME TypeInv, TypeInv', Grows, OutcomeInv, NEW t \in Tasks, key[t] \in Keys,
           NEW o \in Outcomes, Finish(t, o),
           o = "ok" => /\ <<at[t], key[t]>> \in stored
                       /\ \A s \in Delta[key[t][2]] : <<s, key[t][2]>> \in wrote,
           o = "toobig" => ~Storable(key[t]),
           o = "transient" => faults' > MaxRetries,
           o = "diverged" => cur >= MaxAttempts
    PROVE  OutcomeInv'
  <1> SUFFICES ASSUME NEW e \in Events PROVE Told(e)'
    BY DEF OutcomeInv
  <1>1. CASE e # key[t][2]
    <2>1. outcome'[e] = outcome[e]
      BY <1>1 DEF Finish, TypeInv, TypeOK
    <2> QED BY <2>1, OutcomeStable DEF OutcomeInv
  <1>2. CASE e = key[t][2]
    <2>1. outcome'[e] = o
      BY <1>2 DEF Finish, TypeInv, TypeOK
    <2>2. key[t] \in event_map_key(e)
      BY <1>2, KeyFacts DEF Keys
    <2>3. o = "ok" => /\ \E p \in stored' : p[2][2] = e
                      /\ \A s \in Delta[e] : <<s, e>> \in wrote'
      BY <1>2 DEF Grows
    <2>4. o = "diverged" => cur' >= MaxAttempts
      BY ConstantsAssumption DEF Grows, TypeInv, TypeOK, DbOK
    <2> QED BY <2>1, <2>2, <2>3, <2>4 DEF Told
  <1> QED BY <1>1, <1>2

LEMMA OutcomeStep ==
    ASSUME TypeInv, TypeInv', Grows, NEW t \in Tasks, LocalInv(t), Step(t),
           OutcomeInv
    PROVE  OutcomeInv'
  <1>k. key[t] \in Keys /\ pc[t] # "idle"
    BY StepEffects
  <1>d. key[t][2] \in Events /\ Delta[key[t][2]] \subseteq Scopes
    BY <1>k, KeyFacts, ConstantsAssumption
  <1>o. {"ok", "toobig", "transient", "diverged", "error"} \subseteq Outcomes
    BY DEF Outcomes
  <1>f. MayFail /\ CountFault /\ ~RetriesLeft(t) => faults' > MaxRetries
    BY FaultCounted, ConstantsAssumption DEF RetriesLeft, TypeInv, TypeOK, TaskOK
  <1>1. CASE outcome' = outcome
    BY <1>1, OutcomeStable DEF OutcomeInv
  <1>2. CASE PutReply(t)
    BY <1>2, <1>k, <1>o, FinishOutcome DEF PutReply, LocalInv
  <1>3. CASE SegmentSize(t)
    <2>1. CASE Seg(at[t]) = {} /\ Finish(t, "toobig")
      <3>1. Seg(at[t]) \cup {key[t]} = {key[t]}
        BY <2>1
      <3>2. ~Storable(key[t])
        BY <1>3, <3>1 DEF SegmentSize, LocalInv, Accepts, Storable
      <3> QED BY <1>k, <1>o, <2>1, <3>2, FinishOutcome
    <2> QED BY <1>1, <1>3, <2>1 DEF SegmentSize
  <1>4. CASE RollDone(t)
    <2>1. CASE rolls[t] = MaxAttempts /\ Finish(t, "diverged")
      <3>1. cur >= MaxAttempts
        BY <1>4, <2>1, ConstantsAssumption
        DEF RollDone, LocalInv, TypeInv, TypeOK, TaskOK, DbOK
      <3> QED BY <1>k, <1>o, <2>1, <3>1, FinishOutcome
    <2> QED BY <1>1, <1>4, <2>1 DEF RollDone
  <1>5. CASE WriteFault(t) \/ BatchFault(t)
    <2>1. CASE ~RetriesLeft(t) /\ Finish(t, "transient")
      BY <1>5, <1>k, <1>o, <1>f, <2>1, FinishOutcome DEF WriteFault, BatchFault
    <2>2. CASE TryAgain(t)
      BY <2>2, <1>1 DEF TryAgain
    <2> QED BY <1>5, <2>1, <2>2 DEF WriteFault, BatchFault
  <1>6. CASE BatchAck(t)
    <2>1. pc[t] = "batch" /\ res[t]["seg"] = "ok" /\ SiblingsOk(t) /\ Finish(t, "ok")
      BY <1>6 DEF BatchAck, BatchReturns, Answered
    <2>2. /\ <<at[t], key[t]>> \in stored
          /\ \A s \in Delta[key[t][2]] : <<s, key[t][2]>> \in wrote
      BY <1>d, <2>1 DEF SiblingsOk, LocalInv
    <2> QED BY <1>k, <1>o, <2>1, <2>2, FinishOutcome
  <1>7. CASE BatchError(t)
    <2>1. PICK r \in RaisedFrom(t) :
            \/ res[t][r] = "overload" /\ Finish(t, "transient")
            \/ res[t][r] = "error" /\ Finish(t, "error")
      BY <1>7 DEF BatchError
    <2>2. r \in BatchRecords(t) /\ r \in Records
      BY <1>d, <2>1 DEF RaisedFrom, BatchRecords, Records
    <2>3. CASE res[t][r] = "overload" /\ Finish(t, "transient")
      <3>1. pc[t] = "batch" /\ ~RetriesLeft(t) /\ faults' = faults
        BY <1>7, <2>2, <2>3 DEF BatchError, BatchReturns, Answered, Overloaded
      <3>2. faults' > MaxRetries
        BY <2>2, <2>3, <3>1, ConstantsAssumption
        DEF LocalInv, RetriesLeft, TypeInv, TypeOK, TaskOK
      <3> QED BY <1>k, <1>o, <2>3, <3>2, FinishOutcome
    <2>4. CASE Finish(t, "error")
      BY <1>k, <1>o, <2>4, FinishOutcome
    <2> QED BY <2>1, <2>3, <2>4
  <1>8. CASE CallFails(t)
    BY <1>8, <1>k, <1>o, FinishOutcome DEF CallFails
  <1> QED BY <1>1, <1>2, <1>3, <1>4, <1>5, <1>6, <1>7, <1>8
          DEF Step, CurrentSegmentRead, CurrentSegmentCached, PutOk, PutTooBig,
          RollBump, RollFiltered, RollReread, BatchWrite, BatchRecordFault,
          BatchRetry, BatchOverflow, TryAgain

-----------------------------------------------------------------------------
(* The inductive invariant.                                                *)

LEMMA SafetyNext == SafetyInv /\ [Next]_vars => SafetyInv'
  <1> SUFFICES ASSUME SafetyInv, [Next]_vars PROVE SafetyInv'
    OBVIOUS
  <1> USE DEF SafetyInv
  <1>t. TypeInv'
    BY TypeNext
  <1>d. DbOK /\ DbOK'
    BY <1>t DEF TypeInv, TypeOK
  <1>1. ASSUME NEW t \in Tasks, NEW e \in Events, StartAppend(t, e)
        PROVE  SafetyInv'
    <2>1. UNCHANGED <<db, cache, retries, rolls, res, late, faults>>
      BY <1>1 DEF StartAppend
    <2>2. Grows
      BY <2>1, <1>t DEF Grows, db, TypeInv, TypeOK, DbOK
    <2>3. LocalInv(t)'
      <3>1. PICK k \in event_map_key(e) :
              \/ /\ cache[Host[t]] # None
                 /\ pc' = [pc EXCEPT ![t] = FirstWrite(k)]
                 /\ at' = [at EXCEPT ![t] = cache[Host[t]]]
                 /\ key' = [key EXCEPT ![t] = k]
              \/ /\ pc' = [pc EXCEPT ![t] = "select"]
                 /\ at' = at
        BY <1>1 DEF StartAppend
      <3>2. /\ pc[t] = "idle" /\ rolls[t] = 0 /\ res[t] = NoResult
            /\ retries[t] <= faults
        BY <1>1 DEF StartAppend, TypeInv, TaskInv, LocalInv
      <3>3. at'[t] <= cur' /\ at'[t] \in Nat
        <4>1. cur' = cur /\ at' \in [Tasks -> Nat] /\ at \in [Tasks -> Nat]
          BY <2>1, <1>t DEF db, TypeInv, TypeOK, TaskOK
        <4>2. Host[t] \in Procs
          BY ConstantsAssumption
        <4>3. cache[Host[t]] # None => cache[Host[t]] <= cur
          BY <4>2 DEF ServerInv, CacheInv
        <4>4. at[t] <= cur
          BY DEF LocalInv
        <4> QED BY <3>1, <4>1, <4>3, <4>4
      <3>4. \/ pc'[t] = "select"
            \/ pc'[t] = FirstWrite(k) /\ key'[t] = k
        BY <3>1 DEF TypeInv, TypeOK, TaskOK
      <3>5. FirstWrite(k) = "batch" \/ (FirstWrite(k) = "put" /\ Delta[k[2]] = {})
        BY DEF FirstWrite
      <3> QED BY <2>1, <3>2, <3>3, <3>4, <3>5 DEF LocalInv, NoResult, Records
    <2>4. ASSUME NEW u \in Tasks, u # t PROVE LocalInv(u)'
      <3>1. pc'[u] = pc[u] /\ key'[u] = key[u] /\ at'[u] = at[u]
        BY <1>1, <2>4 DEF StartAppend, TypeInv, TypeOK, TaskOK
      <3> QED BY <1>t, <2>1, <2>2, <3>1, LocalStable
    <2>5. ServerInv'
      BY <2>1 DEF ServerInv, RecordInv, CacheInv, LateInv, Accepts, Seg, db
    <2>6. ASSUME NEW d \in Events PROVE Told(d)'
      <3>1. outcome'[d] = outcome[d] \/ outcome'[d] = "pending"
        BY <1>1 DEF StartAppend, TypeInv, TypeOK
      <3> QED BY <1>t, <2>2, <3>1, OutcomeStable DEF OutcomeInv
    <2> QED BY <1>t, <2>3, <2>4, <2>5, <2>6 DEF OutcomeInv
  <1>2. ASSUME NEW t \in Tasks, Step(t) PROVE SafetyInv'
    <2>1. at[t] \in Nat /\ key[t] \in Keys /\ pc[t] # "idle" /\ at[t] <= cur
      BY <1>2, StepEffects DEF TypeInv, TypeOK, TaskOK, LocalInv
    <2>2. Effect(at[t], key[t])
      BY <1>2, StepEffects DEF Effect, LocalInv
    <2>3. Grows
      BY <1>2, <1>d, <2>1, <2>2, StepEffects, EffectGrows DEF Grows
    <2>4. LocalInv(t)'
      BY <1>2, <1>t, <2>3, LocalStep DEF ServerInv
    <2>5. ASSUME NEW u \in Tasks, u # t PROVE LocalInv(u)'
      BY <1>2, <1>t, <2>3, <2>5, StepIsLocal, LocalStable
    <2>6. RecordInv'
      BY <1>d, <2>1, <2>2, <2>3, EffectKeepsRecords DEF ServerInv
    <2>7. CacheInv'
      <3>1. cache' = cache \/ cache' = [cache EXCEPT ![Host[t]] = at[t]]
        BY <1>2, StepEffects DEF SetCache
      <3> QED BY <2>1, <2>3, <3>1, <1>t
          DEF Grows, ServerInv, CacheInv, TypeInv, TypeOK, DbOK
    <2>8. LateInv'
      <3>1. \A q \in late' : q \in late \/ q \in InFlight(t)
        BY <1>2, StepEffects
      <3> QED BY <1>t, <2>1, <2>3, <3>1, LateStable DEF ServerInv
    <2>9. OutcomeInv'
      BY <1>2, <1>t, <2>3, OutcomeStep
    <2> QED BY <1>t, <2>4, <2>5, <2>6, <2>7, <2>8, <2>9 DEF ServerInv
  <1>3. ASSUME NEW q \in late, ApplyLate(q) PROVE SafetyInv'
    <2>1. q.n \in Nat /\ q.key \in Keys /\ q.n <= cur
      BY DEF TypeInv, TypeOK, Requests, ServerInv, LateInv
    <2>2. Effect(q.n, q.key)
      BY <1>3 DEF ApplyLate, Effect, ServerInv, LateInv
    <2>3. UNCHANGED <<cache, taskVars, late, outcome, faults>>
      BY <1>3 DEF ApplyLate
    <2>4. Grows
      BY <1>d, <1>t, <2>1, <2>2, <2>3, EffectGrows DEF Grows, TypeInv, TypeOK
    <2>5. ASSUME NEW u \in Tasks PROVE LocalInv(u)'
      BY <1>t, <2>3, <2>4, LocalStable DEF taskVars
    <2>6. RecordInv'
      BY <1>d, <2>1, <2>2, <2>4, EffectKeepsRecords DEF ServerInv
    <2>7. CacheInv'
      BY <2>3, <2>4, <1>t DEF Grows, ServerInv, CacheInv, TypeInv, TypeOK, DbOK
    <2>8. LateInv'
      BY <1>t, <2>3, <2>4, LateStable DEF ServerInv
    <2>9. ASSUME NEW d \in Events PROVE Told(d)'
      BY <1>t, <2>3, <2>4, OutcomeStable DEF OutcomeInv
    <2> QED BY <1>t, <2>5, <2>6, <2>7, <2>8, <2>9 DEF ServerInv, OutcomeInv
  <1>4. ASSUME NEW p \in Procs, Crash(p) PROVE SafetyInv'
    <2> DEFINE dead == {t \in Tasks : Host[t] = p /\ pc[t] # "idle"}
    <2>1. /\ UNCHANGED db /\ cache' = [cache EXCEPT ![p] = None]
          /\ late' = late \cup UNION {InFlight(t) : t \in dead}
      BY <1>4 DEF Crash
    <2>2. Grows
      BY <1>4, <1>t, <2>1, ConstantsAssumption
      DEF Crash, CountFault, Grows, db, TypeInv, TypeOK, DbOK
    <2>3. ASSUME NEW u \in Tasks PROVE LocalInv(u)'
      <3>1. CASE u \in dead
        <4>1. pc'[u] = "idle" /\ at'[u] = 0 /\ rolls'[u] = 0 /\ retries'[u] = 0
          BY <1>4, <3>1 DEF Crash
        <4>2. cur' \in Nat /\ faults' \in Nat
          BY <1>t DEF TypeInv, TypeOK, DbOK
        <4> QED BY <4>1, <4>2 DEF LocalInv
      <3>2. CASE u \notin dead
        <4>1. /\ pc'[u] = pc[u] /\ key'[u] = key[u] /\ at'[u] = at[u]
              /\ retries'[u] = retries[u] /\ rolls'[u] = rolls[u]
              /\ res'[u] = res[u]
          BY <1>4, <3>2 DEF Crash
        <4> QED BY <1>t, <2>2, <4>1, LocalStable
      <3> QED BY <3>1, <3>2
    <2>4. RecordInv'
      BY <2>1 DEF ServerInv, RecordInv, Accepts, Seg, db
    <2>5. CacheInv'
      BY <2>1 DEF ServerInv, CacheInv, TypeInv, TypeOK, db
    <2>6. LateInv'
      <3>1. \A q \in late' : \/ q \in late
                             \/ \E t \in Tasks : pc[t] # "idle" /\ q \in InFlight(t)
        BY <2>1
      <3> QED BY <1>t, <2>2, <3>1, LateStable DEF ServerInv
    <2>7. ASSUME NEW d \in Events PROVE Told(d)'
      <3>1. outcome'[d] = outcome[d] \/ outcome'[d] = "crashed"
        BY <1>4 DEF Crash
      <3> QED BY <1>t, <2>2, <3>1, OutcomeStable DEF OutcomeInv
    <2> QED BY <1>t, <2>3, <2>4, <2>5, <2>6, <2>7 DEF ServerInv, OutcomeInv
  <1>5. CASE UNCHANGED vars
    <2>1. Grows /\ UNCHANGED <<db, cache, taskVars, late, outcome, faults>>
      BY <1>5 DEF vars, Grows, db, TypeInv, TypeOK, DbOK
    <2>2. ASSUME NEW u \in Tasks PROVE LocalInv(u)'
      BY <1>t, <2>1, LocalStable DEF taskVars
    <2>3. ServerInv'
      BY <2>1 DEF ServerInv, RecordInv, CacheInv, LateInv, Accepts, Seg, db
    <2>4. ASSUME NEW d \in Events PROVE Told(d)'
      BY <1>t, <2>1, OutcomeStable DEF OutcomeInv
    <2> QED BY <1>t, <2>2, <2>3, <2>4 DEF OutcomeInv
  <1> QED BY <1>1, <1>2, <1>3, <1>4, <1>5 DEF Next

LEMMA SafetyCorrect == Spec => []SafetyInv
  BY SafetyInit, SafetyNext, PTL DEF Spec

-----------------------------------------------------------------------------
(* The safety properties.                                                  *)

\* An event whose append_event returned is in a segment at or below cur, where
\* get_session looks, whatever rollovers, timeouts and crashes followed.
THEOREM AckedReachableAlways == Spec => []AckedReachable
  <1>1. SafetyInv => AckedReachable
    BY DEF SafetyInv, OutcomeInv, Told, ServerInv, RecordInv, AckedReachable
  <1> QED BY <1>1, SafetyCorrect, PTL

\* The whole state_delta of an event whose append_event returned was written,
\* also when its batch was retried or its event moved on to a new segment.
THEOREM AckedStateWrittenAlways == Spec => []AckedStateWritten
  <1>1. SafetyInv => AckedStateWritten
    BY DEF SafetyInv, OutcomeInv, Told, AckedStateWritten
  <1> QED BY <1>1, SafetyCorrect, PTL

\* The guarded increment of _roll_over, retried or applied late or not, never
\* moves cur past a segment that still had room for every event.
THEOREM RolledSegmentsFullAlways == Spec => []RolledSegmentsFull
  <1>1. SafetyInv => RolledSegmentsFull
    BY DEF SafetyInv, ServerInv, RecordInv, RolledSegmentsFull
  <1> QED BY <1>1, SafetyCorrect, PTL

\* If every event fits in a record by itself, _roll_over skips no segment.
THEOREM NoSegmentSkippedAlways ==
    ASSUME \A k \in Keys : Storable(k)
    PROVE  Spec => []NoSegmentSkipped
  <1>1. SafetyInv => NoSegmentSkipped
    <2> SUFFICES ASSUME SafetyInv, NEW g \in 0..cur, g < cur, Seg(g) = {}
                 PROVE  FALSE
      BY DEF NoSegmentSkipped
    <2>1. PICK k \in Keys : ~Accepts(g, k)
      BY DEF SafetyInv, ServerInv, RecordInv
    <2>2. Seg(g) \cup {k} = {k}
      OBVIOUS
    <2> QED BY <2>1, <2>2 DEF Accepts, Storable
  <1> QED BY <1>1, SafetyCorrect, PTL

\* Back-pressure surfaces only after more failures than a loop retries.
THEOREM BackPressureMaskedAlways == Spec => []BackPressureMasked
  <1>1. SafetyInv => BackPressureMasked
    BY DEF SafetyInv, OutcomeInv, Told, BackPressureMasked
  <1> QED BY <1>1, SafetyCorrect, PTL

\* "append did not converge" is raised only when other appends have rolled the
\* session over as often as _place_event tries.
THEOREM DivergedOnlyAfterRollsAlways == Spec => []DivergedOnlyAfterRolls
  <1>1. SafetyInv => DivergedOnlyAfterRolls
    BY DEF SafetyInv, OutcomeInv, Told, DivergedOnlyAfterRolls
  <1> QED BY <1>1, SafetyCorrect, PTL
=============================================================================
