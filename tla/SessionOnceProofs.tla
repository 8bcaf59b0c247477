------------------------- MODULE SessionOnceProofs -------------------------
(***************************************************************************)
(* Without re-appends by the caller no event is ever stored twice.  The    *)
(* strengthening speaks of every slot that holds an event or may yet come  *)
(* to hold it: a stored entry, a request in flight that would still fit,   *)
(* the slot a task is writing.  An event has at most one such slot, and    *)
(* none while its task looks for the next segment.                         *)
(***************************************************************************)
EXTENDS SessionSafetyProofs

Writing(t) == pc[t] \in {"put", "batch"}
Seeking(t) == pc[t] \in {"select", "selected", "size", "roll", "reread", "rolled"}

MayHold(n, k) ==
    \/ <<n, k>> \in stored
    \/ Accepts(n, k) /\ \E q \in late : q.rec = "seg" /\ q.n = n /\ q.key = k
    \/ \E t \in Tasks : Writing(t) /\ at[t] = n /\ key[t] = k

\* No slot holds event e, nor ever will by what is under way.
Nowhere(e) == \A n \in Nat : \A k \in Keys : MayHold(n, k) => k[2] # e

OneSlot ==
    \A n, m \in Nat : \A j, k \in Keys :
        MayHold(n, j) /\ MayHold(m, k) /\ j[2] = k[2] => n = m /\ j = k

OneTask ==
    \A t, u \in Tasks :
        pc[t] # "idle" /\ pc[u] # "idle" /\ key[t][2] = key[u][2] => t = u

OnceInv ==
    /\ OneSlot
    /\ OneTask
    /\ \A t \in Tasks : pc[t] # "idle" => outcome[key[t][2]] = "pending"
    /\ \A t \in Tasks : Seeking(t) => Nowhere(key[t][2])
    /\ \A e \in Events : outcome[e] \in {"new", "toobig"} => Nowhere(e)

LEMMA OnceInit == Init => OnceInv
  BY DEF Init, OnceInv, OneSlot, OneTask, Nowhere, MayHold, Writing, Seeking

-----------------------------------------------------------------------------
(* How slots come and go.                                                  *)

Shrinks == \A n \in Nat : \A k \in Keys : MayHold(n, k)' => MayHold(n, k)
GrowsAt(t) ==
    \A n \in Nat : \A k \in Keys :
        MayHold(n, k)' => MayHold(n, k) \/ (n = at'[t] /\ k = key'[t])

\* A step of task t opens no slot but the one t writes after it.
LEMMA StepSlots ==
    ASSUME TypeInv, TypeInv', Grows, NEW t \in Tasks, Step(t)
    PROVE  /\ GrowsAt(t)
           /\ (Writing(t)' => Writing(t) /\ at'[t] = at[t] /\ key'[t] = key[t])
                => Shrinks
  <1>1. \A n : \A k \in Keys : Accepts(n, k)' => Accepts(n, k)
    BY RefusalIsStable DEF TypeInv, TypeOK
  <1>2. \A n \in Nat : \A k \in Keys : <<n, k>> \in stored' =>
          <<n, k>> \in stored \/ (Writing(t) /\ n = at[t] /\ k = key[t])
    BY StepEffects DEF SegmentPut, CurBump, StatePut, db, Writing
  <1>3. ASSUME NEW q \in late', q.rec = "seg"
        PROVE  q \in late \/ (Writing(t) /\ q.n = at[t] /\ q.key = key[t])
    <2>1. q \in late \/ q \in InFlight(t)
      BY StepEffects
    <2>2. ASSUME NEW r \in Unanswered(t), q = Request(t, r)
          PROVE  Writing(t) /\ q.n = at[t] /\ q.key = key[t]
      <3>1. q.n = at[t] /\ q.key = key[t] /\ r = "seg"
        BY <1>3, <2>2 DEF Request
      <3>2. Writing(t)
        BY <2>2, <3>1 DEF Unanswered, Writing
      <3> QED BY <3>1, <3>2
    <2> QED BY <2>1, <2>2 DEF InFlight
  <1>4. ASSUME NEW u \in Tasks, u # t
        PROVE  (Writing(u)' <=> Writing(u)) /\ at'[u] = at[u] /\ key'[u] = key[u]
    BY <1>4, StepIsLocal DEF Writing
  <1>5. ASSUME NEW n \in Nat, NEW k \in Keys, MayHold(n, k)'
        PROVE  MayHold(n, k) \/ (Writing(t)' /\ n = at'[t] /\ k = key'[t])
    <2>1. CASE <<n, k>> \in stored'
      BY <1>2, <2>1 DEF MayHold
    <2>2. CASE Accepts(n, k)' /\ \E q \in late' : q.rec = "seg" /\ q.n = n /\ q.key = k
      BY <1>1, <1>3, <2>2 DEF MayHold
    <2>3. CASE \E u \in Tasks : Writing(u)' /\ at'[u] = n /\ key'[u] = k
      BY <1>4, <2>3 DEF MayHold
    <2> QED BY <1>5, <2>1, <2>2, <2>3 DEF MayHold
  <1>6. GrowsAt(t)
    BY <1>5 DEF GrowsAt
  <1>7. ASSUME Writing(t)' => Writing(t) /\ at'[t] = at[t] /\ key'[t] = key[t]
        PROVE  Shrinks
    BY <1>5, <1>7 DEF Shrinks, MayHold
  <1> QED BY <1>6, <1>7

\* A step of task t keeps its event in hand until it ends; it starts writing
\* from a seeking label and stops for want of room or because it ends.
Control(t) ==
    /\ pc'[t] # "idle" => key'[t] = key[t] /\ outcome' = outcome
    /\ pc'[t] = "idle" => \E o \in Outcomes \ {"new", "pending"} :
         /\ outcome' = [outcome EXCEPT ![key[t][2]] = o]
         /\ o = "toobig" => pc[t] = "size"
    /\ Writing(t)' => Seeking(t) \/ (Writing(t) /\ at'[t] = at[t])
    /\ Seeking(t)' => Seeking(t) \/ (Writing(t) /\ ~Accepts(at[t], key[t]))

\* append_event of task t ends.
LEMMA FinishControl ==
    ASSUME TypeInv, NEW t \in Tasks, NEW o \in Outcomes \ {"new", "pending"},
           Finish(t, o), o = "toobig" => pc[t] = "size"
    PROVE  Control(t)
  <1>1. pc'[t] = "idle"
    BY DEF Finish, TypeInv, TypeOK, TaskOK
  <1>2. ~Writing(t)' /\ ~Seeking(t)'
    BY <1>1 DEF Writing, Seeking
  <1>3. outcome' = [outcome EXCEPT ![key[t][2]] = o]
    BY DEF Finish
  <1> QED BY <1>1, <1>2, <1>3 DEF Control

\* append_event of task t goes on with the same event.
LEMMA OnControl ==
    ASSUME TypeInv, NEW t \in Tasks, pc'[t] # "idle", key' = key,
           outcome' = outcome,
           Writing(t)' => Seeking(t) \/ (Writing(t) /\ at'[t] = at[t]),
           Seeking(t)' => Seeking(t) \/ (Writing(t) /\ ~Accepts(at[t], key[t]))
    PROVE  Control(t)
  BY DEF Control

LEMMA StepControl ==
    ASSUME TypeInv, NEW t \in Tasks, LocalInv(t), Step(t)
    PROVE  Control(t)
  <1> USE DEF TypeInv, TypeOK, TaskOK, Writing, Seeking
  <1>f. ASSUME NEW o \in {"ok", "diverged", "transient", "error"}, Finish(t, o)
        PROVE  Control(t)
    BY <1>f, FinishControl DEF Outcomes
  <1>1. CASE CurrentSegmentRead(t)
    BY <1>1, OnControl DEF CurrentSegmentRead, Move
  <1>2. CASE CurrentSegmentCached(t)
    <2>1. FirstWrite(key[t]) \in {"put", "batch"}
      BY DEF FirstWrite
    <2> QED BY <1>2, <2>1, OnControl DEF CurrentSegmentCached, Move
  <1>3. CASE PutOk(t)
    BY <1>3, OnControl DEF PutOk, Move
  <1>4. CASE PutReply(t)
    BY <1>4, <1>f DEF PutReply
  <1>5. CASE PutTooBig(t)
    BY <1>5, OnControl DEF PutTooBig, Move
  <1>6. CASE SegmentSize(t)
    <2>0. pc[t] = "size"
      BY <1>6 DEF SegmentSize
    <2>1. CASE Finish(t, "toobig")
      BY <2>0, <2>1, FinishControl DEF Outcomes
    <2>2. CASE Move(t, "roll", at[t]) /\ outcome' = outcome
      BY <2>0, <2>2, OnControl DEF Move
    <2> QED BY <1>6, <2>1, <2>2 DEF SegmentSize
  <1>7. CASE RollBump(t) \/ RollFiltered(t) \/ RollReread(t)
    BY <1>7, OnControl DEF RollBump, RollFiltered, RollReread, Move
  <1>8. CASE RollDone(t)
    <2>0. pc[t] = "rolled"
      BY <1>8 DEF RollDone
    <2>2. CASE Move(t, "put", at[t]) /\ outcome' = outcome
      BY <2>0, <2>2, OnControl DEF Move
    <2> QED BY <1>8, <1>f, <2>2 DEF RollDone
  <1>9. CASE WriteFault(t) \/ BatchFault(t) \/ BatchRetry(t)
    <2>0. pc[t] \in {"put", "roll", "batch"}
      BY <1>9 DEF WriteFault, BatchFault, BatchRetry, Answered
    <2>1. CASE TryAgain(t)
      BY <2>0, <2>1, OnControl DEF TryAgain
    <2> QED BY <1>9, <1>f, <2>1 DEF WriteFault, BatchFault, BatchRetry
  <1>10. CASE \E r \in Records : BatchWrite(t, r) \/ BatchRecordFault(t, r)
    <2>1. pc' = pc /\ key' = key /\ at' = at /\ outcome' = outcome /\ pc[t] = "batch"
      BY <1>10 DEF BatchWrite, BatchRecordFault
    <2> QED BY <2>1, OnControl
  <1>11. CASE BatchAck(t) \/ BatchError(t) \/ CallFails(t)
    <2>1. \E o \in {"ok", "transient", "error"} : Finish(t, o)
      BY <1>11 DEF BatchAck, BatchError, CallFails
    <2> QED BY <2>1, <1>f
  <1>12. CASE BatchOverflow(t)
    <2>1. ~Accepts(at[t], key[t]) /\ pc[t] = "batch"
      BY <1>12 DEF BatchOverflow, BatchReturns, Answered, LocalInv
    <2> QED BY <1>12, <2>1, OnControl DEF BatchOverflow, Move
  <1> QED BY <1>1, <1>2, <1>3, <1>4, <1>5, <1>6, <1>7, <1>8, <1>9, <1>10,
             <1>11, <1>12 DEF Step

\* A refused put closes the only slot of its event.
LEMMA RefusedIsNowhere ==
    ASSUME SafetyInv, SafetyInv', Grows, OneSlot, OneTask, Shrinks,
           NEW t \in Tasks, Step(t), Writing(t), ~Accepts(at[t], key[t]),
           ~Writing(t)', key'[t] = key[t]
    PROVE  Nowhere(key[t][2])'
  <1> SUFFICES ASSUME NEW n \in Nat, NEW k \in Keys, MayHold(n, k)',
                      k[2] = key[t][2]
               PROVE  FALSE
    BY DEF Nowhere
  <1>1. at[t] \in Nat /\ key[t] \in Keys /\ pc[t] # "idle"
    BY DEF SafetyInv, TypeInv, TypeOK, TaskOK, TaskInv, Writing
  <1>2. MayHold(n, k) /\ MayHold(at[t], key[t])
    BY DEF Shrinks, MayHold
  <1>3. n = at[t] /\ k = key[t]
    BY <1>1, <1>2 DEF OneSlot
  <1>4. ~Accepts(n, k)'
    BY <1>3, RefusalIsStable DEF SafetyInv, TypeInv, TypeOK, Accepts, Seg
  <1>5. CASE <<n, k>> \in stored'
    <2>1. Seg(n)' \cup {k} = Seg(n)'
      BY <1>5 DEF Seg
    <2>2. Fits(Seg(n)')
      BY DEF SafetyInv, ServerInv, RecordInv
    <2> QED BY <1>4, <2>1, <2>2 DEF Accepts
  <1>6. CASE \E u \in Tasks : Writing(u)' /\ at'[u] = n /\ key'[u] = k
    <2>1. PICK u \in Tasks : Writing(u)' /\ key'[u] = k
      BY <1>6
    <2>2. u # t
      BY <2>1
    <2>3. Writing(u) /\ key[u] = k
      BY <2>1, <2>2, StepIsLocal DEF Writing, SafetyInv
    <2> QED BY <1>1, <1>3, <2>2, <2>3 DEF OneTask, Writing
  <1> QED BY <1>4, <1>5, <1>6 DEF MayHold

LEMMA OnceStep ==
    ASSUME SafetyInv, SafetyInv', Grows, OnceInv, NEW t \in Tasks, Step(t)
    PROVE  OnceInv'
  <1> DEFINE e == key[t][2]
  <1>1. key[t] \in Keys /\ pc[t] # "idle" /\ e \in Events /\ LocalInv(t)
    BY StepEffects, KeyFacts DEF SafetyInv
  <1>2. \A u \in Tasks : u # t => pc'[u] = pc[u] /\ key'[u] = key[u]
    BY StepIsLocal DEF SafetyInv
  <1>3. \A u \in Tasks : pc'[u] # "idle" => pc[u] # "idle" /\ key'[u] = key[u]
    BY <1>1, <1>2, StepControl DEF Control, SafetyInv
  <1>4. OneTask'
    BY <1>3 DEF OnceInv, OneTask
  <1>5. \A d \in Events : d # e => outcome'[d] = outcome[d]
    BY <1>1, StepControl DEF Control, SafetyInv, TypeInv, TypeOK
  <1>6. ASSUME NEW u \in Tasks, pc'[u] # "idle"
        PROVE  outcome'[key'[u][2]] = "pending"
    <2>1. CASE u = t
      BY <1>1, <1>6, <2>1, StepControl DEF Control, SafetyInv, OnceInv
    <2>2. CASE u # t
      <3>1. pc[u] # "idle" /\ key'[u] = key[u] /\ key[u] \in Keys
        BY <1>3, <1>6 DEF SafetyInv, TypeInv, TaskInv
      <3>2. key[u][2] # e /\ key[u][2] \in Events
        BY <1>1, <2>2, <3>1, KeyFacts DEF OnceInv, OneTask
      <3> QED BY <1>5, <3>1, <3>2 DEF OnceInv
    <2> QED BY <2>1, <2>2
  <1>7. outcome'[e] \in {"new", "toobig"} => pc[t] = "size" /\ pc'[t] = "idle"
    BY <1>1, StepControl DEF Control, SafetyInv, TypeInv, TypeOK, OnceInv
  <1>8. CASE Writing(t)' /\ Seeking(t)
    <2>1. Nowhere(e) /\ key'[t] = key[t] /\ outcome' = outcome
      BY <1>1, <1>8, StepControl DEF Control, OnceInv, SafetyInv, Writing
    <2>2. GrowsAt(t)
      BY StepSlots DEF SafetyInv
    <2>3. \A d \in Events : d # e /\ Nowhere(d) => Nowhere(d)'
      BY <2>1, <2>2 DEF GrowsAt, Nowhere
    <2>4. OneSlot'
      BY <1>1, <2>1, <2>2 DEF OnceInv, OneSlot, GrowsAt, Nowhere
    <2>5. ASSUME NEW u \in Tasks, Seeking(u)' PROVE Nowhere(key[u][2])'
      <3>1. u # t
        BY <1>8, <2>5 DEF Seeking, Writing
      <3>2. Seeking(u) /\ pc[u] # "idle" /\ key[u] \in Keys /\ key'[u] = key[u]
        BY <1>2, <2>5, <3>1 DEF Seeking, SafetyInv, TypeInv, TaskInv
      <3>3. key[u][2] # e /\ key[u][2] \in Events
        BY <1>1, <3>1, <3>2, KeyFacts DEF OnceInv, OneTask
      <3>4. Nowhere(key[u][2])
        BY <3>2 DEF OnceInv
      <3> QED BY <2>3, <3>2, <3>3, <3>4 DEF Nowhere
    <2>6. ASSUME NEW d \in Events, outcome'[d] \in {"new", "toobig"}
          PROVE  Nowhere(d)'
      BY <1>1, <2>1, <2>3, <2>6 DEF OnceInv
    <2> QED BY <1>4, <1>6, <2>4, <2>5, <2>6 DEF OnceInv
  <1>9. CASE ~(Writing(t)' /\ Seeking(t))
    <2>1. Writing(t)' => Writing(t) /\ at'[t] = at[t] /\ key'[t] = key[t]
      BY <1>1, <1>9, StepControl DEF Control, SafetyInv, Writing
    <2>2. Shrinks
      BY <2>1, StepSlots DEF SafetyInv
    <2>3. \A d \in Events : Nowhere(d) => Nowhere(d)'
      BY <2>2 DEF Shrinks, Nowhere
    <2>4. OneSlot'
      BY <2>2 DEF OnceInv, OneSlot, Shrinks
    <2>5. ASSUME NEW u \in Tasks, Seeking(u)' PROVE Nowhere(key[u][2])'
      <3>1. pc[u] # "idle" /\ key'[u] = key[u] /\ key[u] \in Keys
        BY <1>3, <2>5 DEF Seeking, SafetyInv, TypeInv, TaskInv
      <3>2. CASE Seeking(u)
        <4>1. Nowhere(key[u][2]) /\ key[u][2] \in Events
          BY <3>1, <3>2, KeyFacts DEF OnceInv
        <4> QED BY <2>3, <3>1, <4>1 DEF Nowhere
      <3>3. CASE ~Seeking(u)
        <4>1. u = t
          BY <1>2, <2>5, <3>3 DEF Seeking
        <4>2. Writing(t) /\ ~Accepts(at[t], key[t])
          BY <1>1, <2>5, <3>3, <4>1, StepControl DEF Control, SafetyInv
        <4>3. ~Writing(t)'
          BY <2>5, <4>1 DEF Seeking, Writing
        <4> QED BY <2>2, <3>1, <4>1, <4>2, <4>3, RefusedIsNowhere DEF OnceInv
      <3> QED BY <3>2, <3>3
    <2>6. ASSUME NEW d \in Events, outcome'[d] \in {"new", "toobig"}
          PROVE  Nowhere(d)'
      <3>1. CASE d # e
        BY <1>5, <2>3, <2>6, <3>1 DEF OnceInv
      <3>2. CASE d = e
        BY <1>1, <1>7, <2>3, <2>6, <3>2 DEF OnceInv, Seeking
      <3> QED BY <3>1, <3>2
    <2> QED BY <1>4, <1>6, <2>4, <2>5, <2>6 DEF OnceInv
  <1> QED BY <1>8, <1>9

\* A start opens at most the slot that it writes at once.
LEMMA StartSlots ==
    ASSUME SafetyInv, NEW t \in Tasks, NEW e \in Events, StartAppend(t, e)
    PROVE  GrowsAt(t) /\ (~Writing(t)' => Shrinks)
  <1>1. /\ pc[t] = "idle" /\ UNCHANGED <<db, late>>
        /\ \A u \in Tasks : u # t => /\ pc'[u] = pc[u] /\ key'[u] = key[u]
                                     /\ at'[u] = at[u]
    BY DEF StartAppend, SafetyInv, TypeInv, TypeOK, TaskOK
  <1>2. GrowsAt(t)
    BY <1>1 DEF GrowsAt, MayHold, Writing, Accepts, Seg, db
  <1>3. ~Writing(t)' => Shrinks
    BY <1>1 DEF Shrinks, MayHold, Writing, Accepts, Seg, db
  <1> QED BY <1>2, <1>3

LEMMA OnceStart ==
    ASSUME SafetyInv, SafetyInv', OnceInv, ~Resend,
           NEW t \in Tasks, NEW e \in Events, StartAppend(t, e)
    PROVE  OnceInv'
  <1>1. PICK k \in event_map_key(e) : key' = [key EXCEPT ![t] = k]
    BY DEF StartAppend
  <1>2. k \in Keys /\ k[2] = e /\ outcome[e] = "new" /\ pc[t] = "idle" /\ Nowhere(e)
    BY KeyFacts DEF StartAppend, MayAppend, OnceInv
  <1>3. /\ \A u \in Tasks : u # t => /\ pc'[u] = pc[u] /\ key'[u] = key[u]
                                     /\ at'[u] = at[u]
        /\ key'[t] = k /\ pc'[t] # "idle"
    <2>1. FirstWrite(k) # "idle"
      BY DEF FirstWrite
    <2> QED BY <1>1, <2>1 DEF StartAppend, SafetyInv, TypeInv, TypeOK, TaskOK, FirstWrite
  <1>4. UNCHANGED <<db, late>> /\ outcome' = [outcome EXCEPT ![e] = "pending"]
    BY DEF StartAppend
  <1>5. ASSUME NEW u \in Tasks, u # t, pc[u] # "idle"
        PROVE  key[u][2] # e /\ key[u][2] \in Events
    <2>1. key[u] \in Keys /\ outcome[key[u][2]] = "pending"
      BY <1>5 DEF SafetyInv, TypeInv, TaskInv, OnceInv
    <2> QED BY <1>2, <2>1, KeyFacts
  <1>6. GrowsAt(t)
    BY StartSlots
  <1>7. \A d \in Events : d # e /\ Nowhere(d) => Nowhere(d)'
    BY <1>2, <1>3, <1>6 DEF GrowsAt, Nowhere
  <1>8. OneSlot'
    BY <1>2, <1>3, <1>6 DEF OnceInv, OneSlot, GrowsAt, Nowhere
  <1>9. OneTask'
    BY <1>2, <1>3, <1>5 DEF OnceInv, OneTask
  <1>10. ASSUME NEW u \in Tasks, pc'[u] # "idle"
         PROVE  outcome'[key'[u][2]] = "pending"
    BY <1>2, <1>3, <1>4, <1>5, <1>10 DEF OnceInv, SafetyInv, TypeInv, TypeOK
  <1>11. ASSUME NEW u \in Tasks, Seeking(u)' PROVE Nowhere(key[u][2])'
    <2>1. CASE u = t
      <3>1. ~Writing(t)' /\ pc'[t] = "select"
        BY <2>1, <1>11 DEF StartAppend, FirstWrite, Seeking, Writing, SafetyInv, TypeInv, TypeOK, TaskOK
      <3>2. Shrinks
        BY <3>1, StartSlots
      <3> QED BY <1>2, <1>3, <2>1, <3>2 DEF Shrinks, Nowhere
    <2>2. CASE u # t
      <3>1. Seeking(u) /\ pc[u] # "idle" /\ key'[u] = key[u]
        BY <1>3, <1>11, <2>2 DEF Seeking
      <3>2. Nowhere(key[u][2]) /\ key[u][2] # e /\ key[u][2] \in Events
        BY <1>5, <2>2, <3>1 DEF OnceInv
      <3> QED BY <1>7, <3>1, <3>2 DEF Nowhere
    <2> QED BY <2>1, <2>2
  <1>12. ASSUME NEW d \in Events, outcome'[d] \in {"new", "toobig"}
         PROVE  Nowhere(d)'
    <2>1. d # e /\ outcome[d] = outcome'[d]
      BY <1>4, <1>12 DEF SafetyInv, TypeInv, TypeOK
    <2> QED BY <1>7, <1>12, <2>1 DEF OnceInv
  <1> QED BY <1>8, <1>9, <1>10, <1>11, <1>12 DEF OnceInv

\* Steps after which no task has moved on and no slot has opened.
LEMMA OnceStable ==
    ASSUME SafetyInv, SafetyInv', OnceInv, Shrinks,
           \A u \in Tasks : pc'[u] # "idle" => pc'[u] = pc[u] /\ key'[u] = key[u],
           \A u \in Tasks : pc'[u] # "idle" =>
               outcome'[key[u][2]] = outcome[key[u][2]],
           \A d \in Events : outcome'[d] \in {"new", "toobig"} =>
               outcome'[d] = outcome[d]
    PROVE  OnceInv'
  <1>1. \A d : Nowhere(d) => Nowhere(d)'
    BY DEF Shrinks, Nowhere
  <1>2. OneSlot'
    BY DEF OnceInv, OneSlot, Shrinks
  <1>3. OneTask'
    BY DEF OnceInv, OneTask
  <1>4. ASSUME NEW u \in Tasks, Seeking(u)' PROVE Nowhere(key[u][2])'
    <2>1. Seeking(u) /\ key'[u] = key[u]
      BY <1>4 DEF Seeking
    <2> QED BY <1>1, <2>1 DEF OnceInv, Nowhere
  <1>5. \A d \in Events : outcome'[d] \in {"new", "toobig"} => Nowhere(d)'
    BY <1>1 DEF OnceInv
  <1>6. \A u \in Tasks : pc'[u] # "idle" => outcome'[key'[u][2]] = "pending"
    BY DEF OnceInv
  <1> QED BY <1>2, <1>3, <1>4, <1>5, <1>6 DEF OnceInv

\* A request that arrives late takes a slot that was open for it.
LEMMA LateSlots ==
    ASSUME SafetyInv, SafetyInv', NEW q \in late, ApplyLate(q)
    PROVE  Shrinks
  <1>d. DbOK /\ DbOK' /\ TypeInv /\ TypeInv'
    BY DEF SafetyInv, TypeInv, TypeOK
  <1>1. UNCHANGED <<cache, taskVars, late, outcome, faults>>
    BY DEF ApplyLate
  <1>2. q.n \in Nat /\ q.key \in Keys /\ Effect(q.n, q.key)
    BY DEF ApplyLate, Effect, SafetyInv, ServerInv, LateInv, TypeInv,
       TypeOK, Requests
  <1>3. Grows
    BY <1>d, <1>1, <1>2, EffectGrows DEF Grows, TypeInv, TypeOK
  <1>4. \A n : \A k \in Keys : Accepts(n, k)' => Accepts(n, k)
    BY <1>d, <1>3, RefusalIsStable
  <1>5. \A n \in Nat : \A k \in Keys : <<n, k>> \in stored' =>
          \/ <<n, k>> \in stored
          \/ Accepts(n, k) /\ q.rec = "seg" /\ q.n = n /\ q.key = k
    BY DEF ApplyLate, SegmentPut, CurBump, StatePut, Scopes
  <1>6. Shrinks
    BY <1>1, <1>4, <1>5 DEF Shrinks, MayHold, Writing, taskVars
  <1> QED BY <1>6

\* A crash leaves requests in flight only for slots that were open.
LEMMA CrashSlots ==
    ASSUME NEW p \in Procs, Crash(p)
    PROVE  Shrinks
  <1> DEFINE dead == {t \in Tasks : Host[t] = p /\ pc[t] # "idle"}
  <1>1. UNCHANGED db /\ late' = late \cup UNION {InFlight(t) : t \in dead}
    BY DEF Crash
  <1>2. \A u \in Tasks : pc'[u] # "idle" =>
          u \notin dead /\ pc'[u] = pc[u] /\ key'[u] = key[u] /\ at'[u] = at[u]
    BY DEF Crash
  <1>3. ASSUME NEW q \in late', q.rec = "seg"
        PROVE  q \in late \/ MayHold(q.n, q.key)
    <2>1. CASE q \in late
      BY <2>1
    <2>2. CASE \E t \in dead : q \in InFlight(t)
      <3>0. PICK t \in dead : q \in InFlight(t)
        BY <2>2
      <3>1. PICK r \in Unanswered(t) : q = Request(t, r)
        BY <3>0 DEF InFlight
      <3>2. r = "seg" /\ q.n = at[t] /\ q.key = key[t]
        BY <1>3, <3>1 DEF Request
      <3>3. Writing(t)
        BY <3>1, <3>2 DEF Unanswered, Writing
      <3> QED BY <3>0, <3>2, <3>3 DEF MayHold
    <2> QED BY <1>1, <2>1, <2>2
  <1>4. Shrinks
    <2> SUFFICES ASSUME NEW n \in Nat, NEW k \in Keys, MayHold(n, k)'
                 PROVE  MayHold(n, k)
      BY DEF Shrinks
    <2>1. CASE <<n, k>> \in stored'
      BY <1>1, <2>1 DEF MayHold, db
    <2>2. CASE Accepts(n, k)' /\ \E q \in late' : q.rec = "seg" /\ q.n = n /\ q.key = k
      <3>1. Accepts(n, k)
        BY <1>1, <2>2 DEF Accepts, Seg, db
      <3> QED BY <1>3, <2>2, <3>1 DEF MayHold
    <2>3. CASE \E u \in Tasks : Writing(u)' /\ at'[u] = n /\ key'[u] = k
      BY <1>2, <2>3 DEF MayHold, Writing
    <2> QED BY <2>1, <2>2, <2>3 DEF MayHold
  <1> QED BY <1>4

LEMMA OnceNext ==
    ASSUME ~Resend
    PROVE  SafetyInv /\ SafetyInv' /\ OnceInv /\ [Next]_vars => OnceInv'
  <1> SUFFICES ASSUME SafetyInv, SafetyInv', OnceInv, [Next]_vars PROVE OnceInv'
    OBVIOUS
  <1>d. DbOK /\ DbOK' /\ TypeInv /\ TypeInv'
    BY DEF SafetyInv, TypeInv, TypeOK
  <1>1. ASSUME NEW t \in Tasks, Step(t) PROVE OnceInv'
    <2>1. at[t] \in Nat /\ key[t] \in Keys /\ Effect(at[t], key[t])
      BY <1>1, StepEffects
      DEF Effect, LocalInv, SafetyInv, TypeInv, TypeOK, TaskOK
    <2>2. Grows
      BY <1>d, <1>1, <2>1, StepEffects, EffectGrows DEF Grows
    <2> QED BY <1>1, <2>2, OnceStep
  <1>2. ASSUME NEW q \in late, ApplyLate(q) PROVE OnceInv'
    <2>1. UNCHANGED <<cache, taskVars, late, outcome, faults>>
      BY <1>2 DEF ApplyLate
    <2>5. Shrinks
      BY <1>2, LateSlots
    <2> QED BY <2>1, <2>5, OnceStable DEF taskVars
  <1>3. ASSUME NEW p \in Procs, Crash(p) PROVE OnceInv'
    <2> DEFINE dead == {t \in Tasks : Host[t] = p /\ pc[t] # "idle"}
    <2>1. UNCHANGED db /\ late' = late \cup UNION {InFlight(t) : t \in dead}
      BY <1>3 DEF Crash
    <2>2. \A u \in Tasks : pc'[u] # "idle" =>
            u \notin dead /\ pc'[u] = pc[u] /\ key'[u] = key[u] /\ at'[u] = at[u]
      BY <1>3 DEF Crash
    <2>3. \A d \in Events :
            \/ outcome'[d] = outcome[d]
            \/ outcome'[d] = "crashed" /\ \E t \in dead : key[t][2] = d
      BY <1>3 DEF Crash
    <2>4. ASSUME NEW u \in Tasks, pc'[u] # "idle"
          PROVE  outcome'[key[u][2]] = outcome[key[u][2]]
      <3>1. u \notin dead /\ pc[u] # "idle" /\ key[u][2] \in Events
        BY <2>2, <2>4, KeyFacts DEF SafetyInv, TypeInv, TaskInv
      <3> QED BY <2>3, <3>1 DEF OnceInv, OneTask
    <2>5. Shrinks
      BY <1>3, CrashSlots
    <2> QED BY <2>2, <2>3, <2>4, <2>5, OnceStable
  <1>4. CASE UNCHANGED vars
    <2>1. UNCHANGED <<db, taskVars, late, outcome>>
      BY <1>4 DEF vars
    <2>2. Shrinks
      BY <2>1 DEF Shrinks, MayHold, Writing, Accepts, Seg, db, taskVars
    <2> QED BY <2>1, <2>2, OnceStable DEF taskVars
  <1> QED BY <1>1, <1>2, <1>3, <1>4, OnceStart DEF Next

LEMMA OnceCorrect ==
    ASSUME ~Resend
    PROVE  Spec => []OnceInv
  BY OnceInit, OnceNext, SafetyCorrect, PTL DEF Spec

-----------------------------------------------------------------------------

\* The idempotent-append promise of the service for the retries it makes by
\* itself: however calls time out, arrive late and repeat, however processes
\* crash and segments roll over, an event that its caller appends once is in
\* at most one segment, once.
THEOREM StoredOnceAlways ==
    ASSUME ~Resend
    PROVE  Spec => []StoredOnce
  <1>1. SafetyInv /\ OnceInv => StoredOnce
    <2> SUFFICES ASSUME SafetyInv, OnceInv, NEW p \in stored, NEW q \in stored,
                        p[2][2] = q[2][2]
                 PROVE  p = q
      BY DEF StoredOnce
    <2>1. PICK n \in Nat, j \in Keys : p = <<n, j>>
      BY DEF SafetyInv, TypeInv, TypeOK, DbOK
    <2>2. PICK m \in Nat, k \in Keys : q = <<m, k>>
      BY DEF SafetyInv, TypeInv, TypeOK, DbOK
    <2>3. MayHold(n, j) /\ MayHold(m, k) /\ j[2] = k[2]
      BY <2>1, <2>2 DEF MayHold
    <2> QED BY <2>1, <2>2, <2>3 DEF OnceInv, OneSlot
  <1> QED BY <1>1, SafetyCorrect, OnceCorrect, PTL

\* RecordTooBig reaches the caller only for an event that no segment can hold,
\* and such an event is stored nowhere, neither now nor later.
THEOREM TooBigIsGenuineAlways ==
    ASSUME ~Resend
    PROVE  Spec => []TooBigIsGenuine
  <1>1. SafetyInv /\ OnceInv => TooBigIsGenuine
    <2> SUFFICES ASSUME SafetyInv, OnceInv, NEW e \in Events,
                        outcome[e] = "toobig"
                 PROVE  /\ \E k \in event_map_key(e) : ~Storable(k)
                        /\ \A p \in stored : p[2][2] # e
      BY DEF TooBigIsGenuine
    <2>1. \E k \in event_map_key(e) : ~Storable(k)
      BY DEF SafetyInv, OutcomeInv, Told
    <2>2. ASSUME NEW p \in stored PROVE p[2][2] # e
      <3>1. PICK n \in Nat, k \in Keys : p = <<n, k>>
        BY DEF SafetyInv, TypeInv, TypeOK, DbOK
      <3> QED BY <3>1 DEF OnceInv, Nowhere, MayHold
    <2> QED BY <2>1, <2>2
  <1> QED BY <1>1, SafetyCorrect, OnceCorrect, PTL
=============================================================================
