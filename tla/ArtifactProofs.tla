--------------------------- MODULE ArtifactProofs ---------------------------
(***************************************************************************)
(* Proofs about ArtifactVersions, for any number of calls and files: type  *)
(* correctness, what a delete removes, and, for files that no delete has   *)
(* touched yet, that versions are never shared, that they grow, and that   *)
(* loads see what was saved.                                               *)
(***************************************************************************)
EXTENDS ArtifactVersions, TLAPS

\* Calls follow the steps of their operation; a save that has not started has
\* no version.
PhaseInv ==
    /\ \A s \in Savers : pc[s] \in {"start", "put", "saved", "exists", "rejected", "failed"}
    /\ \A l \in Loaders : pc[l] \in {"start", "get", "loaded", "undecodable", "failed"}
    /\ \A d \in Deleters : pc[d] \in {"start", "remove", "head", "deleted", "failed"}
    /\ \A s \in Savers : pc[s] = "start" => ver[s] = None

\* What the calls of a file are compared with are saves of that file.
OwedInv ==
    \A t \in Tasks : \A s \in owed[t] : File[s] = File[t] /\ pc[s] = "saved"

\* A record was written by a save that returned, or that failed.
RowInv ==
    \A r \in rows : r.file = File[r.by] /\ pc[r.by] \in {"saved", "failed"}

\* A request in flight was sent by a call of the right kind; a late put by a
\* save that failed, for the version it had.
LateInv ==
    \A q \in late :
        /\ q.op = "bump" => q.by \in Savers
        /\ q.op = "put" => /\ q.by \in Savers /\ pc[q.by] = "failed"
                           /\ q.ver = ver[q.by] /\ ver[q.by] \in Nat
        /\ q.op \in {"remove", "drop"} => q.by \in Deleters
        /\ q.op = "remove" => q.ver \in Nat

ControlInv == TypeOK /\ PhaseInv /\ OwedInv /\ RowInv /\ LateInv

USE CallsAssumption

LEMMA ControlInit == Init => ControlInv
  BY DEF Init, ControlInv, TypeOK, PhaseInv, OwedInv, RowInv, LateInv, Tasks, Labels

\* What the server holds after any of its writes is of the right type.
LEMMA DbTypes ==
    ASSUME head \in [Files -> Nat \cup {None}], rows \subseteq Rows
    PROVE  /\ \A f \in Files : NextVersion(f) \in Nat
           /\ \A f \in Files : VersionsFor(f) \subseteq Nat
           /\ \A f \in Files : Bump(f) \/ Drop(f) =>
                head' \in [Files -> Nat \cup {None}] /\ rows' \subseteq Rows
           /\ \A s \in Savers : \A v \in Nat : Create(s, v) =>
                head' \in [Files -> Nat \cup {None}] /\ rows' \subseteq Rows
           /\ \A f \in Files : \A v \in Nat : Remove(f, v) =>
                head' \in [Files -> Nat \cup {None}] /\ rows' \subseteq Rows
  <1>1. \A f \in Files : NextVersion(f) \in Nat
    BY DEF NextVersion
  <1>2. \A f \in Files : VersionsFor(f) \subseteq Nat
    BY DEF VersionsFor, RowsFor, Rows
  <1>3. \A f \in Files : Bump(f) \/ Drop(f) =>
            head' \in [Files -> Nat \cup {None}] /\ rows' \subseteq Rows
    BY <1>1 DEF Bump, Drop
  <1>4. ASSUME NEW s \in Savers, NEW v \in Nat, Create(s, v)
        PROVE  head' \in [Files -> Nat \cup {None}] /\ rows' \subseteq Rows
    BY <1>4 DEF Create, Rows, Tasks
  <1>5. ASSUME NEW f \in Files, NEW v \in Nat, Remove(f, v)
        PROVE  head' \in [Files -> Nat \cup {None}] /\ rows' \subseteq Rows
    BY <1>5 DEF Remove
  <1> QED BY <1>1, <1>2, <1>3, <1>4, <1>5

\* Steps of a load or a delete, and of a save that takes or loses its version,
\* keep what is known of saves that ended.
LEMMA EndedKept ==
    ASSUME ControlInv, rows' \subseteq rows, late' = late,
           NEW t \in Tasks,
           \A u \in Tasks : u # t =>
               pc'[u] = pc[u] /\ ver'[u] = ver[u] /\ owed'[u] = owed[u],
           t \in Savers => pc[t] \in {"start", "put"},
           owed'[t] = owed[t] \/ owed'[t] = Saved(File[t])
    PROVE  OwedInv' /\ RowInv' /\ LateInv'
  <1> USE DEF ControlInv
  <1>1. \A s \in Savers : pc[s] \in {"saved", "failed"} =>
            pc'[s] = pc[s] /\ ver'[s] = ver[s]
    BY DEF Tasks
  <1>2. \A u \in Tasks : \A s \in owed'[u] :
            s \in Savers /\ File[s] = File[u] /\ pc[s] = "saved"
    BY DEF Saved, OwedInv, TypeOK
  <1>3. OwedInv'
    BY <1>1, <1>2 DEF OwedInv
  <1>4. RowInv'
    BY <1>1 DEF RowInv, TypeOK, Rows
  <1>5. LateInv'
    BY <1>1 DEF LateInv
  <1> QED BY <1>3, <1>4, <1>5

LEMMA ControlNext == ControlInv /\ [Next]_vars => ControlInv'
  <1> SUFFICES ASSUME ControlInv, [Next]_vars PROVE ControlInv'
    OBVIOUS
  <1> USE DEF ControlInv
  <1>t. /\ Savers \subseteq Tasks /\ Loaders \subseteq Tasks /\ Deleters \subseteq Tasks
        /\ \A t \in Tasks : File[t] \in Files
        /\ head \in [Files -> Nat \cup {None}] /\ rows \subseteq Rows
    BY DEF Tasks, TypeOK
  <1>1. ASSUME NEW s \in Savers, Allocate(s) PROVE ControlInv'
    <2>1. Bump(File[s]) /\ NextVersion(File[s]) \in Nat
      BY <1>1, <1>t, DbTypes DEF Allocate
    <2>2. head' \in [Files -> Nat \cup {None}] /\ rows' = rows
      BY <1>t, <2>1, DbTypes DEF Bump
    <2>3. TypeOK'
      BY <1>1, <1>t, <2>1, <2>2 DEF TypeOK, Allocate, Goto, Begin, Saved, Labels
    <2>4. \A t \in Tasks : t # s => pc'[t] = pc[t] /\ ver'[t] = ver[t] /\ owed'[t] = owed[t]
      BY <1>1, <1>t DEF TypeOK, Allocate, Goto, Begin
    <2>5. /\ pc[s] = "start" /\ pc'[s] \in {"put", "rejected"} /\ late' = late
          /\ owed'[s] = Saved(File[s])
      BY <1>1, <1>t DEF TypeOK, Allocate, Goto, Begin
    <2>6. PhaseInv'
      BY <1>t, <2>4, <2>5 DEF PhaseInv
    <2> QED BY <1>t, <2>2, <2>3, <2>4, <2>5, <2>6, EndedKept
  <1>2. ASSUME NEW s \in Savers, Put(s) PROVE ControlInv'
    <2>1. pc[s] = "put" /\ ver[s] \in Nat
      BY <1>2, <1>t DEF TypeOK, Put
    <2>2. UNCHANGED <<ver, todo, got, owed, late, faults>>
      BY <1>2 DEF Put
    <2>3. \A t \in Tasks : t # s => pc'[t] = pc[t]
      BY <1>2, <1>t DEF TypeOK, Put, Goto
    <2>4. CASE Create(s, ver[s]) /\ Goto(s, "saved")
      <3>1. pc'[s] = "saved" /\ pc' \in [Tasks -> Labels]
        BY <2>4, <1>t DEF TypeOK, Goto, Labels
      <3>2. head' \in [Files -> Nat \cup {None}] /\ rows' \subseteq Rows
        BY <1>t, <2>1, <2>4, DbTypes
      <3>3. TypeOK'
        BY <1>t, <2>1, <2>2, <2>3, <3>1, <3>2 DEF TypeOK
      <3>4. \A r \in rows' : r \in rows \/ (r.by = s /\ r.file = File[s])
        BY <2>4 DEF Create
      <3>5. PhaseInv' /\ OwedInv' /\ LateInv'
        BY <1>t, <2>1, <2>2, <2>3, <3>1 DEF PhaseInv, OwedInv, LateInv, TypeOK
      <3>6. RowInv'
        BY <1>t, <2>3, <3>1, <3>4 DEF RowInv, Rows
      <3> QED BY <3>3, <3>5, <3>6
    <2>5. CASE Goto(s, "exists") /\ UNCHANGED db
      <3>1. pc'[s] = "exists" /\ pc' \in [Tasks -> Labels] /\ UNCHANGED <<head, rows>>
        BY <2>5, <1>t DEF TypeOK, Goto, Labels, db
      <3>2. TypeOK'
        BY <1>t, <2>1, <2>2, <2>3, <3>1 DEF TypeOK
      <3>3. PhaseInv'
        BY <1>t, <2>2, <2>3, <3>1 DEF PhaseInv
      <3> QED BY <1>t, <2>1, <2>2, <2>3, <3>1, <3>2, <3>3, EndedKept
    <2> QED BY <1>2, <2>4, <2>5 DEF Put
  <1>3. ASSUME NEW l \in Loaders, LoadLatest(l) \/ LoadVersion(l) \/ Get(l)
        PROVE  ControlInv'
    <2>1. UNCHANGED <<head, rows, todo, late, faults>>
      BY <1>3 DEF LoadLatest, LoadVersion, Get, db
    <2>2. \A t \in Tasks : t # l => pc'[t] = pc[t] /\ ver'[t] = ver[t] /\ owed'[t] = owed[t]
      BY <1>3, <1>t DEF TypeOK, LoadLatest, LoadVersion, Get, Goto, Begin
    <2>3. pc'[l] \in {"get", "loaded", "undecodable"} /\ (owed'[l] = owed[l] \/ owed'[l] = Saved(File[l]))
      BY <1>3, <1>t DEF TypeOK, LoadLatest, LoadVersion, Get, Goto, Begin
    <2>4. ver'[l] \in Nat \cup {None} /\ (pc'[l] = "get" => ver'[l] \in Nat)
      <3>1. VersionsFor(File[l]) \subseteq Nat
        BY <1>t, DbTypes
      <3>2. CASE LoadLatest(l)
        BY <3>1, <3>2, <1>t DEF TypeOK, LoadLatest, Goto, Latest
      <3>3. CASE LoadVersion(l)
        BY <3>3, <1>t DEF TypeOK, LoadVersion, Goto
      <3>4. CASE Get(l)
        BY <3>4, <1>t DEF TypeOK, Get, Goto
      <3> QED BY <1>3, <3>2, <3>3, <3>4
    <2>5. /\ pc' = [pc EXCEPT ![l] = pc'[l]] /\ ver' = [ver EXCEPT ![l] = ver'[l]]
          /\ owed' = [owed EXCEPT ![l] = owed'[l]]
      BY <1>3, <1>t DEF TypeOK, LoadLatest, LoadVersion, Get, Goto, Begin
    <2>6. got' \in [Loaders -> PartType \cup {None}]
      <3>1. \A s \in Savers :
              part_from_bins(mime_for_part(Part[s]), Part[s].data) \in PartType
        <4> SUFFICES ASSUME NEW s \in Savers
                     PROVE  part_from_bins(mime_for_part(Part[s]), Part[s].data) \in PartType
          OBVIOUS
        <4>1. Part[s].mime \in Mimes /\ Part[s].data \in Blobs
          BY PartsAssumption DEF PartType
        <4>2. mime_for_part(Part[s]) \in Mimes
          BY <4>1, PartsAssumption DEF mime_for_part
        <4> QED BY <4>1, <4>2 DEF part_from_bins, PartType
      <3>2. \A r \in RowsFor(File[l]) : r.by \in Savers
        BY <1>t DEF RowsFor, Rows
      <3>3. got \in [Loaders -> PartType \cup {None}]
        BY DEF TypeOK
      <3>4. CASE Get(l)
        BY <3>1, <3>2, <3>3, <3>4 DEF Get
      <3> QED BY <1>3, <3>3, <3>4 DEF LoadLatest, LoadVersion
    <2>7. TypeOK'
      BY <1>t, <2>1, <2>2, <2>3, <2>4, <2>5, <2>6 DEF TypeOK, Labels, Saved
    <2>8. PhaseInv'
      BY <1>t, <2>2, <2>3 DEF PhaseInv
    <2>9. l \notin Savers
      OBVIOUS
    <2> QED BY <1>t, <2>1, <2>2, <2>3, <2>7, <2>8, <2>9, EndedKept
  <1>4. ASSUME NEW d \in Deleters, DeleteQuery(d) \/ DeleteVersion(d) \/ DeleteHead(d)
        PROVE  ControlInv'
    <2>1. UNCHANGED <<ver, got, late, faults>>
      BY <1>4 DEF DeleteQuery, DeleteVersion, DeleteHead
    <2>2. \A t \in Tasks : t # d => pc'[t] = pc[t] /\ owed'[t] = owed[t]
      BY <1>4, <1>t DEF TypeOK, DeleteQuery, DeleteVersion, DeleteHead, Goto, Begin
    <2>3. /\ pc'[d] \in {"remove", "head", "deleted"}
          /\ owed'[d] = owed[d] \/ owed'[d] = Saved(File[d])
      BY <1>4, <1>t DEF TypeOK, DeleteQuery, DeleteVersion, DeleteHead, Goto, Begin
    <2>4. head' \in [Files -> Nat \cup {None}] /\ rows' \subseteq rows
      <3>1. CASE DeleteQuery(d)
        BY <1>t, <3>1 DEF DeleteQuery, db
      <3>2. CASE DeleteVersion(d)
        BY <1>t, <3>2 DEF DeleteVersion, Remove
      <3>3. CASE DeleteHead(d)
        BY <3>3, <1>t, DbTypes DEF DeleteHead, Drop
      <3> QED BY <1>4, <3>1, <3>2, <3>3
    <2>5. todo' \in [Deleters -> SUBSET Nat]
      <3>1. VersionsFor(File[d]) \subseteq Nat
        BY <1>t, DbTypes
      <3> QED BY <1>4, <3>1 DEF TypeOK, DeleteQuery, DeleteVersion, DeleteHead
    <2>6. pc' \in [Tasks -> Labels] /\ owed' \in [Tasks -> SUBSET Savers]
      <3>1. /\ pc' = [pc EXCEPT ![d] = pc'[d]]
            /\ owed' = [owed EXCEPT ![d] = owed'[d]]
        BY <1>4, <1>t DEF TypeOK, DeleteQuery, DeleteVersion, DeleteHead, Goto, Begin
      <3> QED BY <1>t, <2>3, <3>1 DEF TypeOK, Labels, Saved
    <2>7. TypeOK'
      BY <1>t, <2>1, <2>2, <2>3, <2>4, <2>5, <2>6 DEF TypeOK
    <2>8. PhaseInv'
      BY <1>t, <2>1, <2>2, <2>3 DEF PhaseInv
    <2>9. d \notin Savers
      OBVIOUS
    <2> QED BY <1>t, <2>1, <2>2, <2>3, <2>4, <2>7, <2>8, <2>9, EndedKept
  <1>5. ASSUME NEW t \in Tasks, CallFails(t) PROVE ControlInv'
    <2>1. UNCHANGED <<head, rows, ver, todo, got, owed>> /\ pc' = [pc EXCEPT ![t] = "failed"]
      BY <1>5 DEF CallFails, db, Goto
    <2>2. pc[t] \in Working /\ faults' \in 0..MaxFaults
      BY <1>5 DEF TypeOK, CallFails
    <2>3. \A q \in late' : q \in late \/ q \in InFlight(t)
      BY <1>5 DEF CallFails
    <2>4. ASSUME NEW q \in InFlight(t)
          PROVE  /\ q \in Requests /\ q.by = t
                 /\ q.op = "bump" => t \in Savers
                 /\ q.op = "put" => t \in Savers /\ q.ver = ver[t] /\ ver[t] \in Nat
                 /\ q.op \in {"remove", "drop"} => t \in Deleters
                 /\ q.op = "remove" => q.ver \in Nat
      <3>1. CASE pc[t] = "start"
        BY <2>4, <3>1 DEF InFlight, Request, Requests
      <3>2. CASE pc[t] = "put"
        <4>1. t \in Savers /\ ver[t] \in Nat
          BY <3>2 DEF TypeOK, PhaseInv, Tasks
        <4> QED BY <2>4, <3>2, <4>1 DEF InFlight, Request, Requests
      <3>3. CASE pc[t] = "remove"
        <4>1. t \in Deleters /\ todo[t] \subseteq Nat
          BY <3>3 DEF TypeOK, PhaseInv, Tasks
        <4> QED BY <2>4, <3>3, <4>1 DEF InFlight, Request, Requests
      <3>4. CASE pc[t] = "head"
        <4>1. t \in Deleters
          BY <3>4 DEF PhaseInv, Tasks
        <4> QED BY <2>4, <3>4, <4>1 DEF InFlight, Request, Requests
      <3>5. CASE pc[t] = "get"
        BY <2>4, <3>5 DEF InFlight
      <3> QED BY <2>2, <3>1, <3>2, <3>3, <3>4, <3>5 DEF Working
    <2>5. pc'[t] = "failed" /\ \A u \in Tasks : u # t => pc'[u] = pc[u]
      BY <2>1 DEF TypeOK
    <2>6. TypeOK'
      BY <2>1, <2>2, <2>3, <2>4, <2>5 DEF TypeOK, Labels
    <2>7. \A s \in Savers : pc[s] \in {"saved", "failed"} => pc'[s] = pc[s]
      BY <1>t, <2>2, <2>5 DEF Working
    <2>8. PhaseInv'
      BY <1>t, <2>1, <2>5 DEF PhaseInv
    <2>9. OwedInv'
      BY <2>1, <2>7 DEF OwedInv, TypeOK
    <2>10. RowInv'
      BY <2>1, <2>7 DEF RowInv, TypeOK, Rows
    <2>11. LateInv'
      BY <2>1, <2>3, <2>4, <2>5, <2>7 DEF LateInv
    <2> QED BY <2>6, <2>8, <2>9, <2>10, <2>11
  <1>6. ASSUME NEW q \in late, ApplyLate(q) PROVE ControlInv'
    <2>1. UNCHANGED <<pc, ver, todo, got, owed, faults>> /\ late' \subseteq late
      BY <1>6 DEF ApplyLate
    <2>2. head' \in [Files -> Nat \cup {None}] /\ rows' \subseteq Rows
      <3>1. CASE q.op = "bump" /\ Bump(File[q.by])
        BY <3>1, <1>t, DbTypes DEF LateInv
      <3>2. CASE q.op = "put" /\ Create(q.by, q.ver)
        BY <3>2, <1>t, DbTypes DEF LateInv
      <3>3. CASE q.op = "remove" /\ Remove(File[q.by], q.ver)
        BY <3>3, <1>t, DbTypes DEF LateInv
      <3>4. CASE q.op = "drop" /\ Drop(File[q.by])
        BY <3>4, <1>t, DbTypes DEF LateInv
      <3> QED BY <1>6, <3>1, <3>2, <3>3, <3>4 DEF ApplyLate
    <2>3. \A r \in rows' : r \in rows \/
            (r.by \in Savers /\ r.file = File[r.by] /\ pc[r.by] = "failed")
      BY <1>6 DEF LateInv, ApplyLate, Bump, Create, Remove, Drop
    <2>4. TypeOK'
      BY <2>1, <2>2 DEF TypeOK
    <2>5. PhaseInv' /\ OwedInv' /\ LateInv'
      BY <2>1 DEF PhaseInv, OwedInv, LateInv
    <2>6. RowInv'
      BY <2>1, <2>3 DEF RowInv
    <2> QED BY <2>4, <2>5, <2>6
  <1>7. CASE UNCHANGED vars
    BY <1>7 DEF vars, db, TypeOK, PhaseInv, OwedInv, RowInv, LateInv
  <1> QED BY <1>1, <1>2, <1>3, <1>4, <1>5, <1>6, <1>7 DEF Next

\* Type correctness; a save that puts and a load that gets have a version.
THEOREM ArtifactTypes == Spec => []TypeOK
  <1>1. ControlInv => TypeOK
    BY DEF ControlInv
  <1> QED BY <1>1, ControlInit, ControlNext, PTL DEF Spec
-----------------------------------------------------------------------------
(* What a delete removes.                                                  *)

\* The saves a delete answers for are gone, or still on its list.
DeleteInv ==
    \A d \in Deleters : pc[d] \in {"remove", "head", "deleted"} =>
        \A r \in rows : r.by \in owed[d] => pc[d] = "remove" /\ r.ver \in todo[d]

\* Records appear only for saves that have not returned.
LEMMA NewRows ==
    ASSUME ControlInv, [Next]_vars
    PROVE  \A r \in rows' : r \in rows \/ (r.by \in Savers /\ pc[r.by] \in {"put", "failed"})
  <1>1. ASSUME NEW s \in Savers, Put(s)
        PROVE  \A r \in rows' : r \in rows \/ (r.by = s /\ pc[s] = "put")
    BY <1>1 DEF Put, Create, db
  <1>2. ASSUME NEW q \in late, ApplyLate(q)
        PROVE  \A r \in rows' : r \in rows \/ (r.by \in Savers /\ pc[r.by] = "failed")
    BY <1>2 DEF ControlInv, LateInv, ApplyLate, Bump, Create, Remove, Drop
  <1>3. ASSUME NEW s \in Savers, Allocate(s) PROVE rows' = rows
    BY <1>3 DEF Allocate, Bump
  <1>4. ASSUME NEW l \in Loaders, LoadLatest(l) \/ LoadVersion(l) \/ Get(l)
        PROVE  rows' = rows
    BY <1>4 DEF LoadLatest, LoadVersion, Get, db
  <1>5. ASSUME NEW d \in Deleters, DeleteQuery(d) \/ DeleteVersion(d) \/ DeleteHead(d)
        PROVE  rows' \subseteq rows
    BY <1>5 DEF DeleteQuery, DeleteVersion, DeleteHead, Remove, Drop, db
  <1>6. ASSUME NEW t \in Tasks, CallFails(t) PROVE rows' = rows
    BY <1>6 DEF CallFails, db
  <1>7. CASE UNCHANGED vars
    BY <1>7 DEF vars, db
  <1> QED BY <1>1, <1>2, <1>3, <1>4, <1>5, <1>6, <1>7 DEF Next

LEMMA DeleteNext == ControlInv /\ DeleteInv /\ [Next]_vars => DeleteInv'
  <1> SUFFICES ASSUME ControlInv, DeleteInv, [Next]_vars,
                      NEW d \in Deleters, pc'[d] \in {"remove", "head", "deleted"},
                      NEW r \in rows', r.by \in owed'[d]
               PROVE  pc'[d] = "remove" /\ r.ver \in todo'[d]
    BY DEF DeleteInv
  <1>t. d \in Tasks /\ pc \in [Tasks -> Labels] /\ owed \in [Tasks -> SUBSET Savers]
        /\ todo \in [Deleters -> SUBSET Nat]
    BY DEF ControlInv, TypeOK, Tasks
  <1>1. CASE DeleteQuery(d)
    <2>1. r \in rows /\ r.by \in Saved(File[d])
      BY <1>1, <1>t DEF DeleteQuery, Begin, db
    <2>2. r.ver \in VersionsFor(File[d])
      BY <2>1 DEF ControlInv, RowInv, Saved, VersionsFor, RowsFor
    <2> QED BY <1>1, <1>t, <2>2 DEF DeleteQuery, Goto
  <1>2. CASE DeleteVersion(d)
    <2>1. PICK v \in todo[d] : /\ Remove(File[d], v)
                               /\ todo' = [todo EXCEPT ![d] = @ \ {v}]
                               /\ Goto(d, IF todo[d] = {v} THEN "head" ELSE "remove")
      BY <1>2 DEF DeleteVersion
    <2>2. pc[d] = "remove" /\ owed' = owed
      BY <1>2 DEF DeleteVersion
    <2>3. r \in rows /\ r.ver \in todo[d] /\ r.file = File[d]
      BY <2>1, <2>2, <1>t DEF Remove, DeleteInv, ControlInv, RowInv, OwedInv
    <2>4. r.ver # v
      BY <2>1, <2>3 DEF Remove
    <2> QED BY <2>1, <2>3, <2>4, <1>t DEF Goto
  <1>3. CASE DeleteHead(d)
    <2>1. pc[d] = "head" /\ owed' = owed /\ rows' = rows
      BY <1>3 DEF DeleteHead, Drop
    <2> QED BY <2>1 DEF DeleteInv
  <1>4. CASE pc'[d] = pc[d] /\ owed'[d] = owed[d] /\ todo'[d] = todo[d]
    <2>1. pc[r.by] = "saved"
      BY <1>4, <1>t DEF ControlInv, OwedInv
    <2>2. r \in rows
      BY <2>1, NewRows
    <2> QED BY <1>4, <2>2 DEF DeleteInv
  <1>5. CASE CallFails(d)
    BY <1>5, <1>t DEF CallFails, Goto
  <1>6. ASSUME NEW t \in Tasks, t # d,
               \/ t \in Savers /\ (Allocate(t) \/ Put(t))
               \/ t \in Loaders /\ (LoadLatest(t) \/ LoadVersion(t) \/ Get(t))
               \/ t \in Deleters /\ (DeleteQuery(t) \/ DeleteVersion(t) \/ DeleteHead(t))
               \/ CallFails(t)
        PROVE  pc'[d] = pc[d] /\ owed'[d] = owed[d] /\ todo'[d] = todo[d]
    BY <1>6, <1>t DEF Allocate, Put, LoadLatest, LoadVersion, Get, DeleteQuery,
       DeleteVersion, DeleteHead, CallFails, Goto, Begin
  <1>7. ASSUME NEW q \in late, ApplyLate(q)
        PROVE  pc'[d] = pc[d] /\ owed'[d] = owed[d] /\ todo'[d] = todo[d]
    BY <1>7 DEF ApplyLate
  <1>8. CASE UNCHANGED vars
    BY <1>4, <1>8 DEF vars
  <1> QED BY <1>1, <1>2, <1>3, <1>4, <1>5, <1>6, <1>7, <1>8 DEF Next, Tasks

\* delete_artifact that returns has removed every version whose save had
\* returned before it began, whatever saves, deletes, failures and late
\* requests there are beside it.
THEOREM DeleteRemovesSavedAlways == Spec => []DeleteRemovesSaved
  <1>1. Init => DeleteInv
    BY DEF Init, DeleteInv
  <1>2. DeleteInv => DeleteRemovesSaved
    BY DEF DeleteInv, DeleteRemovesSaved
  <1> QED BY <1>1, <1>2, ControlInit, ControlNext, DeleteNext, PTL DEF Spec

-----------------------------------------------------------------------------
(* Files that no delete has touched yet, whatever is deleted of others.    *)
(* The run DeleteRacesSave shows that the condition is needed: the head    *)
(* record is removed with the artifact, and versions start again from 0.   *)

\* The saves of files that no delete has touched.
Live == {s \in Savers : Undeleted(File[s])}

\* Versions in use lie below the counter of their file.
CounterInv ==
    \A s \in Live : ver[s] # None =>
        head[File[s]] \in Nat /\ ver[s] < head[File[s]]

\* Saves of one file have different versions.
DistinctInv ==
    \A s, r \in Live : File[s] = File[r] /\ ver[s] # None /\ ver[s] = ver[r] => s = r

\* A record holds its save's version, and a save that returned has its record.
StoredInv ==
    /\ \A r \in rows : r.ver = ver[r.by]
    /\ \A s \in Live : pc[s] = "saved" => \E r \in rows : r.by = s

\* A delete that has a request in flight has begun.
BegunInv == \A q \in late : q.op \in {"remove", "drop"} => pc[q.by] # "start"

\* A load that looked up the latest version has one that is there and as new
\* as the saves it answers for.
LookupInv ==
    \A l \in Loaders : pc[l] = "get" /\ Want[l] = None /\ Undeleted(File[l]) =>
        /\ ver[l] \in VersionsFor(File[l])
        /\ \A s \in owed[l] : ver[s] <= ver[l]

\* A part that is put is one that _mime_for_part accepts.
SupportedInv ==
    \A s \in Savers : pc[s] \in {"put", "saved"} => Supported(Part[s])

VersionInv == CounterInv /\ DistinctInv /\ StoredInv /\ SaveNeverExists /\ SaveMonotonic
LoadInv    == LookupInv /\ LoadSeesSaved /\ LoadKeepsContent

USE CallsAssumption

-----------------------------------------------------------------------------
(* What deletes leave alone.                                               *)

\* No call goes back to its start.
LEMMA NeverRestarted ==
    ASSUME ControlInv, [Next]_vars, NEW t \in Tasks, pc[t] # "start"
    PROVE  pc'[t] # "start"
  <1>t. pc \in [Tasks -> Labels]
    BY DEF ControlInv, TypeOK
  <1>1. ASSUME NEW s \in Savers, Allocate(s) \/ Put(s) PROVE pc'[t] # "start"
    BY <1>1, <1>t DEF Allocate, Put, Goto
  <1>2. ASSUME NEW l \in Loaders, LoadLatest(l) \/ LoadVersion(l) \/ Get(l)
        PROVE  pc'[t] # "start"
    BY <1>2, <1>t DEF LoadLatest, LoadVersion, Get, Goto
  <1>3. ASSUME NEW d \in Deleters, DeleteQuery(d) \/ DeleteVersion(d) \/ DeleteHead(d)
        PROVE  pc'[t] # "start"
    BY <1>3, <1>t DEF DeleteQuery, DeleteVersion, DeleteHead, Goto
  <1>4. ASSUME NEW u \in Tasks, CallFails(u) PROVE pc'[t] # "start"
    BY <1>4, <1>t DEF CallFails, Goto
  <1>5. ASSUME NEW q \in late, ApplyLate(q) PROVE pc'[t] # "start"
    BY <1>5 DEF ApplyLate
  <1>6. CASE UNCHANGED vars
    BY <1>6 DEF vars
  <1> QED BY <1>1, <1>2, <1>3, <1>4, <1>5, <1>6 DEF Next

LEMMA BegunNext ==
    ASSUME ControlInv, BegunInv, [Next]_vars
    PROVE  BegunInv'
  <1>t. /\ pc \in [Tasks -> Labels] /\ Deleters \subseteq Tasks
        /\ \A q \in late : q.by \in Tasks
    BY DEF ControlInv, TypeOK, Tasks, Requests
  <1>1. \A q \in late : q.op \in {"remove", "drop"} => pc'[q.by] # "start"
    BY <1>t, NeverRestarted DEF BegunInv
  <1>2. CASE late' \subseteq late
    BY <1>1, <1>2 DEF BegunInv
  <1>3. ASSUME NEW t \in Tasks, CallFails(t) PROVE BegunInv'
    <2>1. pc'[t] = "failed"
      BY <1>3, <1>t DEF CallFails, Goto
    <2>2. \A q \in InFlight(t) : q.by = t
      BY DEF InFlight, Request
    <2>3. \A q \in late' : q \in late \/ q.by = t
      BY <1>3, <2>2 DEF CallFails
    <2> QED BY <1>1, <2>1, <2>3 DEF BegunInv
  <1>4. (\E t \in Tasks : CallFails(t)) \/ late' \subseteq late
    BY DEF Next, Allocate, Put, LoadLatest, LoadVersion, Get, DeleteQuery, DeleteVersion,
       DeleteHead, ApplyLate, vars
  <1> QED BY <1>2, <1>3, <1>4

\* Until a delete of a file begins, its records stay and its counter grows.
LEMMA FileStays ==
    ASSUME ControlInv, BegunInv, [Next]_vars, NEW f \in Files, Undeleted(f)'
    PROVE  /\ Undeleted(f)
           /\ \A r \in rows : r.file = f => r \in rows'
           /\ head[f] \in Nat => head'[f] \in Nat /\ head'[f] >= head[f]
  <1>t. /\ head \in [Files -> Nat \cup {None}] /\ pc \in [Tasks -> Labels]
        /\ \A t \in Tasks : File[t] \in Files
        /\ Savers \subseteq Tasks /\ Deleters \subseteq Tasks
        /\ \A q \in late : q.by \in Tasks
    BY DEF ControlInv, TypeOK, Tasks, Requests
  <1>u. Undeleted(f)
    BY <1>t, NeverRestarted DEF Undeleted
  <1>d. DEFINE Stays == /\ \A r \in rows : r.file = f => r \in rows'
                        /\ head[f] \in Nat => head'[f] \in Nat /\ head'[f] >= head[f]
  <1>b. ASSUME NEW g \in Files, Bump(g) PROVE Stays
    BY <1>b, <1>t DEF Bump, NextVersion
  <1>k. ASSUME UNCHANGED db PROVE Stays
    BY <1>k, <1>t DEF db
  <1>c. ASSUME NEW s \in Savers, NEW v, Create(s, v) PROVE Stays
    BY <1>c, <1>t DEF Create
  <1>r. ASSUME NEW g \in Files, g # f, NEW v, Remove(g, v) \/ Drop(g) PROVE Stays
    BY <1>r, <1>t DEF Remove, Drop
  <1>1. ASSUME NEW s \in Savers, Allocate(s) \/ Put(s) PROVE Stays
    <2>1. Bump(File[s]) \/ Create(s, ver[s]) \/ UNCHANGED db
      BY <1>1 DEF Allocate, Put
    <2> HIDE DEF Stays
    <2> QED BY <1>b, <1>c, <1>k, <1>t, <2>1
  <1>2. ASSUME NEW l \in Loaders, LoadLatest(l) \/ LoadVersion(l) \/ Get(l) PROVE Stays
    <2>1. UNCHANGED db
      BY <1>2 DEF LoadLatest, LoadVersion, Get
    <2> HIDE DEF Stays
    <2> QED BY <1>k, <2>1
  <1>3. ASSUME NEW d \in Deleters, DeleteQuery(d) \/ DeleteVersion(d) \/ DeleteHead(d)
        PROVE  Stays
    <2>1. pc'[d] # "start"
      BY <1>3, <1>t DEF DeleteQuery, DeleteVersion, DeleteHead, Goto
    <2>2. File[d] # f
      BY <2>1 DEF Undeleted
    <2>3. UNCHANGED db \/ (\E v : Remove(File[d], v)) \/ Drop(File[d])
      BY <1>3 DEF DeleteQuery, DeleteVersion, DeleteHead
    <2> HIDE DEF Stays
    <2> QED BY <1>k, <1>r, <1>t, <2>2, <2>3
  <1>4. ASSUME NEW t \in Tasks, CallFails(t) PROVE Stays
    <2>1. UNCHANGED db
      BY <1>4 DEF CallFails
    <2> HIDE DEF Stays
    <2> QED BY <1>k, <2>1
  <1>5. ASSUME NEW q \in late, ApplyLate(q) PROVE Stays
    <2>1. CASE q.op = "bump" /\ Bump(File[q.by])
      <3> HIDE DEF Stays
      <3> QED BY <1>b, <1>t, <2>1
    <2>2. CASE q.op = "put" /\ Create(q.by, q.ver)
      <3>1. q.by \in Savers
        BY <2>2 DEF ControlInv, LateInv
      <3> HIDE DEF Stays
      <3> QED BY <1>c, <2>2, <3>1
    <2>3. CASE q.op \in {"remove", "drop"} /\ (Remove(File[q.by], q.ver) \/ Drop(File[q.by]))
      <3>1. q.by \in Deleters /\ pc[q.by] # "start"
        BY <2>3 DEF ControlInv, LateInv, BegunInv
      <3>2. File[q.by] # f
        BY <1>u, <3>1 DEF Undeleted
      <3> HIDE DEF Stays
      <3> QED BY <1>r, <1>t, <2>3, <3>2
    <2> HIDE DEF Stays
    <2> QED BY <1>5, <2>1, <2>2, <2>3 DEF ApplyLate
  <1>6. ASSUME UNCHANGED vars PROVE Stays
    <2>1. UNCHANGED db
      BY <1>6 DEF vars
    <2> HIDE DEF Stays
    <2> QED BY <1>k, <2>1
  <1>7. Stays
    <2>1. CASE Next
      <3> HIDE DEF Stays
      <3> QED BY <2>1, <1>1, <1>2, <1>3, <1>4, <1>5 DEF Next
    <2> QED BY <2>1, <1>6
  <1> QED BY <1>u, <1>7

\* Saves that are live after a step were so before it, and keep their records.
LEMMA LiveShrinks ==
    ASSUME ControlInv, BegunInv, [Next]_vars
    PROVE  /\ Live' \subseteq Live /\ Live \subseteq Savers
           /\ \A r \in rows : r.by \in Live' => r \in rows'
           /\ \A s \in Live' : head[File[s]] \in Nat =>
                  head'[File[s]] \in Nat /\ head'[File[s]] >= head[File[s]]
           /\ \A s, r \in Savers : File[s] = File[r] /\ s \in Live => r \in Live
  <1>1. \A s \in Savers : File[s] \in Files
    BY DEF Tasks
  <1>2. \A s \in Live' : s \in Savers /\ Undeleted(File[s])'
    BY DEF Live
  <1>3. \A r \in rows : r.file = File[r.by]
    BY DEF ControlInv, RowInv
  <1>4. Live' \subseteq Live /\ Live \subseteq Savers
    BY <1>1, <1>2, FileStays DEF Live
  <1>5. \A r \in rows : r.by \in Live' => r \in rows'
    BY <1>1, <1>2, <1>3, FileStays
  <1>6. \A s \in Live' : head[File[s]] \in Nat =>
            head'[File[s]] \in Nat /\ head'[File[s]] >= head[File[s]]
    BY <1>1, <1>2, FileStays
  <1>7. \A s, r \in Savers : File[s] = File[r] /\ s \in Live => r \in Live
    BY DEF Live
  <1> QED BY <1>4, <1>5, <1>6, <1>7

\* A save that returned keeps its version.
LEMMA SavedStays ==
    ASSUME ControlInv, [Next]_vars, NEW s \in Savers, pc[s] = "saved"
    PROVE  pc'[s] = "saved" /\ ver'[s] = ver[s]
  <1>t. s \in Tasks /\ pc \in [Tasks -> Labels] /\ ver \in [Tasks -> Nat \cup {None}]
    BY DEF ControlInv, TypeOK, Tasks
  <1>1. ASSUME NEW r \in Savers, Allocate(r) \/ Put(r) PROVE pc'[s] = "saved" /\ ver'[s] = ver[s]
    BY <1>1, <1>t DEF Allocate, Put, Goto
  <1>2. ASSUME NEW l \in Loaders, LoadLatest(l) \/ LoadVersion(l) \/ Get(l)
        PROVE  pc'[s] = "saved" /\ ver'[s] = ver[s]
    BY <1>2, <1>t DEF LoadLatest, LoadVersion, Get, Goto
  <1>3. ASSUME NEW d \in Deleters, DeleteQuery(d) \/ DeleteVersion(d) \/ DeleteHead(d)
        PROVE  pc'[s] = "saved" /\ ver'[s] = ver[s]
    BY <1>3, <1>t DEF DeleteQuery, DeleteVersion, DeleteHead, Goto
  <1>4. ASSUME NEW t \in Tasks, CallFails(t) PROVE pc'[s] = "saved" /\ ver'[s] = ver[s]
    BY <1>4, <1>t DEF CallFails, Goto, Working
  <1>5. ASSUME NEW q \in late, ApplyLate(q) PROVE pc'[s] = "saved" /\ ver'[s] = ver[s]
    BY <1>5 DEF ApplyLate
  <1>6. CASE UNCHANGED vars
    BY <1>6 DEF vars
  <1> QED BY <1>1, <1>2, <1>3, <1>4, <1>5, <1>6 DEF Next

\* A load changes only by its own steps.
LEMMA LoaderStep ==
    ASSUME ControlInv, [Next]_vars, NEW l \in Loaders
    PROVE  \/ LoadLatest(l) \/ LoadVersion(l) \/ Get(l)
           \/ pc'[l] = "failed"
           \/ pc'[l] = pc[l] /\ ver'[l] = ver[l] /\ owed'[l] = owed[l] /\ got'[l] = got[l]
  <1>t. /\ l \in Tasks /\ pc \in [Tasks -> Labels] /\ ver \in [Tasks -> Nat \cup {None}]
        /\ owed \in [Tasks -> SUBSET Savers] /\ got \in [Loaders -> PartType \cup {None}]
    BY DEF ControlInv, TypeOK, Tasks
  <1>d. DEFINE Same == pc'[l] = pc[l] /\ ver'[l] = ver[l] /\ owed'[l] = owed[l] /\ got'[l] = got[l]
  <1>1. ASSUME NEW s \in Savers, Allocate(s) \/ Put(s) PROVE Same
    BY <1>1, <1>t DEF Allocate, Put, Goto, Begin
  <1>2. ASSUME NEW m \in Loaders, m # l, LoadLatest(m) \/ LoadVersion(m) \/ Get(m)
        PROVE  Same
    <2>1. CASE LoadLatest(m) \/ LoadVersion(m)
      BY <1>2, <1>t, <2>1 DEF LoadLatest, LoadVersion, Goto, Begin
    <2>2. CASE Get(m)
      BY <1>2, <1>t, <2>2 DEF Get, Goto
    <2> QED BY <1>2, <2>1, <2>2
  <1>3. ASSUME NEW d \in Deleters, DeleteQuery(d) \/ DeleteVersion(d) \/ DeleteHead(d)
        PROVE  Same
    BY <1>3, <1>t DEF DeleteQuery, DeleteVersion, DeleteHead, Goto, Begin
  <1>4. ASSUME NEW t \in Tasks, CallFails(t) PROVE pc'[l] = "failed" \/ Same
    BY <1>4, <1>t DEF CallFails, Goto
  <1>5. ASSUME NEW q \in late, ApplyLate(q) PROVE Same
    BY <1>5 DEF ApplyLate
  <1>6. CASE UNCHANGED vars
    BY <1>6 DEF vars
  <1> QED BY <1>1, <1>2, <1>3, <1>4, <1>5, <1>6 DEF Next

-----------------------------------------------------------------------------
(* Versions.                                                               *)

\* The properties of saves, said of the live ones.
LEMMA LiveForm ==
    /\ SaveNeverExists <=> \A s \in Live : pc[s] # "exists"
    /\ SaveMonotonic <=> \A s \in Live : pc[s] \in {"put", "saved"} =>
                             \A r \in owed[s] : ver[r] < ver[s]
  BY DEF Live, SaveNeverExists, SaveMonotonic

\* A step that leaves versions and the records' saves as they are keeps what
\* is known of versions.
LEMMA VersionKept ==
    ASSUME ControlInv, BegunInv, VersionInv, [Next]_vars,
           \A s \in Savers : ver'[s] = ver[s],
           \A s \in Savers : pc'[s] = pc[s] \/ pc'[s] = "failed",
           \A s \in Savers : owed'[s] = owed[s],
           \A r \in rows' : r.by \in Savers /\ r.ver = ver[r.by]
    PROVE  VersionInv'
  <1>t. /\ \A s \in Savers : ver[s] \in Nat \cup {None}
        /\ \A s \in Savers : owed[s] \subseteq Savers
        /\ head \in [Files -> Nat \cup {None}]
    BY DEF ControlInv, TypeOK, Tasks
  <1>l. /\ Live' \subseteq Live /\ Live \subseteq Savers
        /\ \A r \in rows : r.by \in Live' => r \in rows'
        /\ \A s \in Live' : head[File[s]] \in Nat =>
               head'[File[s]] \in Nat /\ head'[File[s]] >= head[File[s]]
    BY LiveShrinks
  <1>1. CounterInv'
    BY <1>t, <1>l DEF VersionInv, CounterInv
  <1>2. DistinctInv'
    BY <1>l DEF VersionInv, DistinctInv
  <1>3. StoredInv'
    <2>1. ASSUME NEW s \in Live', pc'[s] = "saved" PROVE \E r \in rows' : r.by = s
      <3>1. pc[s] = "saved" /\ s \in Live
        BY <1>l, <2>1
      <3>2. PICK r \in rows : r.by = s
        BY <3>1 DEF VersionInv, StoredInv
      <3> QED BY <1>l, <2>1, <3>2
    <2> QED BY <2>1 DEF StoredInv
  <1>4. SaveNeverExists'
    <2>1. \A s \in Live' : pc'[s] # "exists"
      BY <1>l, LiveForm DEF VersionInv
    <2> QED BY <2>1 DEF Live, SaveNeverExists
  <1>5. SaveMonotonic'
    <2>1. ASSUME NEW s \in Live', pc'[s] \in {"put", "saved"}, NEW r \in owed'[s]
          PROVE  ver'[r] < ver'[s]
      <3>1. s \in Live /\ s \in Savers /\ pc[s] \in {"put", "saved"} /\ r \in owed[s] /\ r \in Savers
        BY <1>l, <1>t, <2>1
      <3> QED BY <3>1, LiveForm DEF VersionInv
    <2> QED BY <2>1 DEF Live, SaveMonotonic
  <1> QED BY <1>1, <1>2, <1>3, <1>4, <1>5 DEF VersionInv

LEMMA VersionNext ==
    ASSUME ControlInv, BegunInv, VersionInv, [Next]_vars
    PROVE  VersionInv'
  <1>t. /\ \A s \in Savers : File[s] \in Files /\ s \in Tasks
        /\ \A s \in Savers : ver[s] \in Nat \cup {None}
        /\ \A s \in Savers : owed[s] \subseteq Savers
        /\ head \in [Files -> Nat \cup {None}] /\ rows \subseteq Rows
        /\ pc \in [Tasks -> Labels] /\ ver \in [Tasks -> Nat \cup {None}]
        /\ owed \in [Tasks -> SUBSET Savers]
    BY DEF ControlInv, TypeOK, Tasks
  <1>r. \A r \in rows : r.by \in Savers /\ r.ver = ver[r.by]
    BY <1>t DEF Rows, VersionInv, StoredInv
  <1>l. /\ Live' \subseteq Live /\ Live \subseteq Savers
        /\ \A s \in Live' : head[File[s]] \in Nat =>
               head'[File[s]] \in Nat /\ head'[File[s]] >= head[File[s]]
        /\ \A s, r \in Savers : File[s] = File[r] /\ s \in Live => r \in Live
    BY LiveShrinks
  <1>i. /\ \A s \in Live : pc[s] # "exists"
        /\ \A s \in Live : pc[s] \in {"put", "saved"} => \A r \in owed[s] : ver[r] < ver[s]
    BY LiveForm DEF VersionInv
  <1>1. ASSUME NEW s \in Savers, Allocate(s) PROVE VersionInv'
    <2>d. DEFINE v == NextVersion(File[s])
    <2>1. /\ Bump(File[s]) /\ pc[s] = "start" /\ ver'[s] = v
          /\ pc'[s] \in {"put", "rejected"} /\ owed'[s] = Saved(File[s])
          /\ \A r \in Savers : r # s => pc'[r] = pc[r] /\ ver'[r] = ver[r] /\ owed'[r] = owed[r]
      BY <1>1, <1>t DEF Allocate, Goto, Begin
    <2>2. rows' = rows /\ v \in Nat /\ head'[File[s]] = v + 1
      BY <1>t, <2>1 DEF Bump, NextVersion
    <2>3. \A r \in Live : File[r] = File[s] /\ ver[r] # None => ver[r] < v
      BY DEF VersionInv, CounterInv, NextVersion
    <2>4. ver[s] = None
      BY <2>1 DEF ControlInv, PhaseInv
    <2>5. CounterInv'
      <3> SUFFICES ASSUME NEW r \in Live', ver'[r] # None
                   PROVE  head'[File[r]] \in Nat /\ ver'[r] < head'[File[r]]
        BY DEF CounterInv
      <3>1. CASE r = s
        <4> HIDE DEF v
        <4> QED BY <3>1, <2>1, <2>2
      <3>2. CASE r # s
        <4>1. r \in Live /\ r \in Savers /\ ver'[r] = ver[r]
          BY <3>2, <1>l, <2>1
        <4> QED BY <4>1, <1>l, <1>t DEF VersionInv, CounterInv
      <3> QED BY <3>1, <3>2
    <2>6. DistinctInv'
      <3> HIDE DEF v
      <3>1. \A r \in Live' : r # s /\ File[r] = File[s] => ver'[r] # ver'[s]
        BY <1>l, <1>t, <2>1, <2>2, <2>3
      <3> QED BY <3>1, <1>l, <2>1 DEF VersionInv, DistinctInv
    <2>7. StoredInv'
      <3>1. \A r \in rows' : r.ver = ver'[r.by]
        BY <1>r, <2>1, <2>2, <2>4 DEF ControlInv, RowInv
      <3>2. \A r \in Live' : pc'[r] = "saved" => r \in Live /\ pc[r] = "saved"
        BY <1>l, <2>1
      <3> QED BY <2>2, <3>1, <3>2 DEF VersionInv, StoredInv
    <2>8. SaveNeverExists'
      <3>1. \A r \in Live' : pc'[r] # "exists"
        BY <1>i, <1>l, <2>1
      <3> QED BY <3>1 DEF Live, SaveNeverExists
    <2>9. SaveMonotonic'
      <3>0. ASSUME NEW r \in Live', pc'[r] \in {"put", "saved"}, NEW u \in owed'[r]
            PROVE  ver'[u] < ver'[r]
        <4>r. r \in Live /\ r \in Savers
          BY <1>l, <3>0
        <4>1. CASE r = s
          <5>1. u \in Savers /\ pc[u] = "saved" /\ File[u] = File[s]
            BY <2>1, <4>1, <3>0 DEF Saved
          <5>2. u # s /\ ver[u] \in Nat /\ u \in Live
            BY <5>1, <2>1, <1>t, <1>l, <4>r, <4>1 DEF ControlInv, TypeOK
          <5>3. ver[u] < v
            <6> HIDE DEF v
            <6> QED BY <2>3, <5>1, <5>2
          <5> HIDE DEF v
          <5> QED BY <4>1, <2>1, <5>1, <5>2, <5>3
        <4>2. CASE r # s
          <5>1. u \in owed[r] /\ pc[u] = "saved" /\ u \in Savers
            BY <4>r, <4>2, <2>1, <1>t, <3>0 DEF ControlInv, OwedInv
          <5>2. pc[r] \in {"put", "saved"} /\ ver'[r] = ver[r] /\ ver'[u] = ver[u]
            BY <3>0, <4>r, <4>2, <5>1, <2>1
          <5> QED BY <1>i, <4>r, <5>1, <5>2
        <4> QED BY <4>1, <4>2
      <3> QED BY <3>0 DEF Live, SaveMonotonic
    <2> QED BY <2>5, <2>6, <2>7, <2>8, <2>9 DEF VersionInv
  <1>2. ASSUME NEW s \in Savers, Put(s) PROVE VersionInv'
    <2>1. /\ pc[s] = "put" /\ UNCHANGED <<ver, owed>> /\ ver[s] \in Nat
          /\ \A r \in Savers : r # s => pc'[r] = pc[r]
          /\ pc'[s] \in {"saved", "exists"}
      BY <1>2, <1>t DEF Put, Goto, ControlInv, TypeOK
    <2>2. s \in Live => ver[s] \notin VersionsFor(File[s])
      <3> SUFFICES ASSUME s \in Live, NEW r \in rows, r.file = File[s], r.ver = ver[s] PROVE FALSE
        BY DEF VersionsFor, RowsFor
      <3>1. r.by \in Savers /\ ver[r.by] = ver[s] /\ File[r.by] = File[s]
        BY <1>r DEF ControlInv, RowInv
      <3>2. r.by = s
        BY <1>l, <3>1, <2>1 DEF VersionInv, DistinctInv
      <3> QED BY <3>2, <2>1 DEF ControlInv, RowInv
    <2>3. s \in Live => pc'[s] = "saved"
      BY <1>2, <2>2, <1>t DEF Put, Goto
    <2>4. /\ head' = head /\ rows \subseteq rows'
          /\ \A r \in rows' : r.by \in Savers /\ r.ver = ver[r.by]
          /\ pc'[s] = "saved" => \E r \in rows' : r.by = s
      <3>1. CASE Create(s, ver[s]) /\ Goto(s, "saved")
        <4>1. head' = head /\ rows' = rows \cup {[file |-> File[s], ver |-> ver[s], by |-> s]}
          BY <3>1 DEF Create
        <4>2. [file |-> File[s], ver |-> ver[s], by |-> s] \in rows'
          BY <4>1
        <4>3. \A r \in rows' : r.by \in Savers /\ r.ver = ver[r.by]
          BY <1>r, <4>1
        <4>4. \E r \in rows' : r.by = s
          BY <4>2
        <4> QED BY <4>1, <4>3, <4>4
      <3>2. CASE Goto(s, "exists") /\ UNCHANGED db
        BY <1>r, <1>t, <3>2 DEF Goto, db
      <3> QED BY <1>2, <3>1, <3>2 DEF Put
    <2>5. CounterInv' /\ DistinctInv'
      BY <1>l, <2>1, <2>4 DEF VersionInv, CounterInv, DistinctInv
    <2>6. StoredInv'
      <3>1. \A u \in Live' : u # s /\ pc'[u] = "saved" => \E r \in rows' : r.by = u
        BY <1>l, <2>1, <2>4 DEF VersionInv, StoredInv
      <3> QED BY <3>1, <2>1, <2>4 DEF StoredInv
    <2>7. SaveNeverExists'
      <3>1. \A u \in Live' : pc'[u] # "exists"
        BY <1>i, <1>l, <2>1, <2>3
      <3> QED BY <3>1 DEF Live, SaveNeverExists
    <2>8. SaveMonotonic'
      <3>1. \A u \in Live' : pc'[u] \in {"put", "saved"} =>
                u \in Live /\ pc[u] \in {"put", "saved"}
        BY <1>l, <2>1
      <3>2. \A u \in Live' : pc'[u] \in {"put", "saved"} =>
                \A r \in owed'[u] : ver'[r] < ver'[u]
        BY <1>i, <2>1, <3>1
      <3> QED BY <3>2 DEF Live, SaveMonotonic
    <2> QED BY <2>5, <2>6, <2>7, <2>8 DEF VersionInv
  <1>3. ASSUME NEW l \in Loaders, LoadLatest(l) \/ LoadVersion(l) \/ Get(l) PROVE VersionInv'
    <2>1. UNCHANGED rows
      BY <1>3 DEF LoadLatest, LoadVersion, Get, db
    <2>2. \A s \in Savers : pc'[s] = pc[s] /\ ver'[s] = ver[s] /\ owed'[s] = owed[s]
      <3>1. \A s \in Savers : s # l
        OBVIOUS
      <3> QED BY <1>3, <1>t, <3>1 DEF LoadLatest, LoadVersion, Get, Goto, Begin
    <2> QED BY <1>r, <2>1, <2>2, VersionKept
  <1>4. ASSUME NEW d \in Deleters, DeleteQuery(d) \/ DeleteVersion(d) \/ DeleteHead(d)
        PROVE  VersionInv'
    <2>1. rows' \subseteq rows
      BY <1>4 DEF DeleteQuery, DeleteVersion, DeleteHead, Remove, Drop, db
    <2>2. \A s \in Savers : pc'[s] = pc[s] /\ ver'[s] = ver[s] /\ owed'[s] = owed[s]
      <3>1. \A s \in Savers : s # d
        OBVIOUS
      <3> QED BY <1>4, <1>t, <3>1 DEF DeleteQuery, DeleteVersion, DeleteHead, Goto, Begin
    <2> QED BY <1>r, <2>1, <2>2, VersionKept
  <1>5. ASSUME NEW t \in Tasks, CallFails(t) PROVE VersionInv'
    <2>1. UNCHANGED <<rows, ver, owed>>
      BY <1>5 DEF CallFails, db
    <2>2. \A s \in Savers : pc'[s] = pc[s] \/ pc'[s] = "failed"
      BY <1>5, <1>t DEF CallFails, Goto
    <2> QED BY <1>r, <2>1, <2>2, VersionKept
  <1>6. ASSUME NEW q \in late, ApplyLate(q) PROVE VersionInv'
    <2>1. UNCHANGED <<pc, ver, owed>>
      BY <1>6 DEF ApplyLate
    <2>2. \A r \in rows' : r.by \in Savers /\ r.ver = ver[r.by]
      <3>1. CASE q.op = "put" /\ Create(q.by, q.ver)
        <4>1. q.by \in Savers /\ q.ver = ver[q.by]
          BY <3>1 DEF ControlInv, LateInv
        <4> QED BY <1>r, <3>1, <4>1 DEF Create
      <3>2. CASE Bump(File[q.by]) \/ Remove(File[q.by], q.ver) \/ Drop(File[q.by])
        BY <1>r, <3>2 DEF Bump, Remove, Drop
      <3> QED BY <1>6, <3>1, <3>2 DEF ApplyLate
    <2> QED BY <2>1, <2>2, VersionKept
  <1>7. CASE UNCHANGED vars
    BY <1>7, <1>r, VersionKept DEF vars, db
  <1> QED BY <1>1, <1>2, <1>3, <1>4, <1>5, <1>6, <1>7 DEF Next

-----------------------------------------------------------------------------
(* Loads.                                                                  *)

\* What a load makes of the bins that a save wrote has the save's content.
LEMMA Conversions ==
    ASSUME NEW s \in Savers
    PROVE  LET p == part_from_bins(mime_for_part(Part[s]), Part[s].data) IN
           /\ p # None
           /\ Restored(s, p)
  <1>1. Part[s].mime \in Mimes /\ Part[s].data \in Blobs
    BY PartsAssumption DEF PartType
  <1>2. mime_for_part(Part[s]) \in Mimes
    BY <1>1, PartsAssumption DEF mime_for_part
  <1>3. ASSUME NEW m \in Mimes, NEW b \in Blobs
        PROVE  /\ part_from_bins(m, b) \in PartType
               /\ mime_for_part(part_from_bins(m, b)) = m
               /\ part_from_bins(m, b).data = b
    BY DEF part_from_bins, mime_for_part, PartType
  <1>4. Symmetric(Part[s]) =>
            part_from_bins(mime_for_part(Part[s]), Part[s].data).kind = Part[s].kind
    BY DEF Symmetric, part_from_bins, mime_for_part
  <1> QED BY <1>1, <1>2, <1>3, <1>4, PartsAssumption DEF Restored

\* The record that a load of version v finds is that of the save with version v.
LEMMA RecordOf ==
    ASSUME ControlInv, VersionInv, NEW s \in Live, pc[s] = "saved",
           NEW r \in RowsFor(File[s]), r.ver = ver[s]
    PROVE  r.by = s
  <1>1. r \in rows /\ r.by \in Savers /\ File[r.by] = File[s] /\ ver[r.by] = ver[s]
    BY DEF RowsFor, ControlInv, TypeOK, RowInv, Rows, VersionInv, StoredInv
  <1>2. ver[s] # None
    BY DEF ControlInv, TypeOK, Tasks, Live
  <1>3. r.by \in Live
    BY <1>1 DEF Live
  <1> QED BY <1>1, <1>2, <1>3 DEF VersionInv, DistinctInv

\* A save that returned is found by a query.
LEMMA SavedFound ==
    ASSUME ControlInv, VersionInv, NEW s \in Live, pc[s] = "saved"
    PROVE  ver[s] \in VersionsFor(File[s])
  <1>1. PICK r \in rows : r.by = s
    BY DEF VersionInv, StoredInv
  <1>2. r.file = File[s] /\ r.ver = ver[s]
    BY <1>1 DEF ControlInv, RowInv, VersionInv, StoredInv
  <1> QED BY <1>1, <1>2 DEF VersionsFor, RowsFor

\* A part that is not supported gets no further than its version.
LEMMA SupportedNext ==
    ASSUME ControlInv, SupportedInv, [Next]_vars
    PROVE  SupportedInv'
  <1> SUFFICES ASSUME NEW s \in Savers, pc'[s] \in {"put", "saved"}
               PROVE  Supported(Part[s])
    BY DEF SupportedInv
  <1>t. pc \in [Tasks -> Labels] /\ s \in Tasks
    BY DEF ControlInv, TypeOK, Tasks
  <1>1. ASSUME NEW r \in Savers, Allocate(r)
        PROVE  Supported(Part[s])
    BY <1>1, <1>t DEF Allocate, Goto, SupportedInv
  <1>2. ASSUME NEW r \in Savers, Put(r)
        PROVE  Supported(Part[s])
    BY <1>2, <1>t DEF Put, Goto, SupportedInv
  <1>3. CASE ~\E r \in Savers : Allocate(r) \/ Put(r)
    <2>1. pc'[s] = pc[s] \/ pc'[s] \notin {"put", "saved"}
      BY <1>3, <1>t, CallsAssumption
         DEF Next, LoadLatest, LoadVersion, Get, DeleteQuery, DeleteVersion, DeleteHead,
             CallFails, ApplyLate, Goto, vars
    <2> QED BY <2>1 DEF SupportedInv
  <1> QED BY <1>1, <1>2, <1>3

LEMMA LoadNext ==
    ASSUME ControlInv, BegunInv, SupportedInv, VersionInv, LoadInv, [Next]_vars
    PROVE  LoadInv'
  <1>d. DEFINE
          Lookup(l) == pc[l] = "get" /\ Want[l] = None =>
              ver[l] \in VersionsFor(File[l]) /\ \A s \in owed[l] : ver[s] <= ver[l]
          Sees(l) == pc[l] = "loaded" /\ Want[l] = None =>
              \A s \in owed[l] : got[l] # None /\ ver[l] >= ver[s]
          Keeps(l) == \A s \in owed[l] : ver[s] = ver[l] =>
              /\ pc[l] = "loaded" => Restored(s, got[l])
              /\ pc[l] = "undecodable" => Unreadable(s)
  <1> SUFFICES ASSUME NEW l \in Loaders, Undeleted(File[l])'
               PROVE  Lookup(l)' /\ Sees(l)' /\ Keeps(l)'
    BY DEF LoadInv, LookupInv, LoadSeesSaved, LoadKeepsContent
  <1>u. /\ Undeleted(File[l]) /\ File[l] \in Files
        /\ \A r \in rows : r.file = File[l] => r \in rows'
    BY FileStays DEF Tasks
  <1>h. Lookup(l) /\ Sees(l) /\ Keeps(l)
    BY <1>u DEF LoadInv, LookupInv, LoadSeesSaved, LoadKeepsContent
  <1>t. /\ l \in Tasks /\ File[l] \in Files /\ pc \in [Tasks -> Labels]
        /\ ver \in [Tasks -> Nat \cup {None}] /\ owed \in [Tasks -> SUBSET Savers]
        /\ got \in [Loaders -> PartType \cup {None}] /\ rows \subseteq Rows
        /\ \A s \in Savers : pc[s] = "saved" => ver[s] \in Nat
        /\ pc[l] = "get" => ver[l] \in Nat
    BY DEF ControlInv, TypeOK, Tasks
  <1>o. \A s \in owed[l] : s \in Savers /\ s \in Live /\ pc[s] = "saved"
                           /\ File[s] = File[l] /\ ver'[s] = ver[s]
    BY <1>t, <1>u, SavedStays DEF ControlInv, OwedInv, Live
  <1>n. \A s \in Saved(File[l]) :
            s \in Savers /\ s \in Live /\ pc[s] = "saved" /\ File[s] = File[l]
            /\ ver'[s] = ver[s] /\ ver[s] \in VersionsFor(File[l])
    <2>1. \A s \in Saved(File[l]) : s \in Savers /\ s \in Live /\ pc[s] = "saved" /\ File[s] = File[l]
      BY <1>u DEF Saved, Live
    <2> QED BY <2>1, SavedStays, SavedFound
  <1>f. VersionsFor(File[l]) \subseteq VersionsFor(File[l])'
    BY <1>u DEF VersionsFor, RowsFor
  <1>1. CASE LoadLatest(l)
    <2>d. DEFINE V == VersionsFor(File[l])
    <2>1. owed'[l] = Saved(File[l]) /\ UNCHANGED <<rows, got>>
      BY <1>1, <1>t DEF LoadLatest, Begin, db
    <2>2. CASE V = {} /\ Goto(l, "loaded") /\ UNCHANGED ver
      <3>1. owed'[l] = {} /\ pc'[l] = "loaded"
        BY <1>n, <1>t, <2>1, <2>2 DEF Goto
      <3> QED BY <3>1
    <2>3. CASE \E v \in Latest(V) : Goto(l, "get") /\ ver' = [ver EXCEPT ![l] = v]
      <3>1. PICK v \in Latest(V) : Goto(l, "get") /\ ver' = [ver EXCEPT ![l] = v]
        BY <2>3
      <3>2. v \in V /\ \A w \in V : w <= v
        BY DEF Latest
      <3>3. pc'[l] = "get" /\ ver'[l] = v
        BY <1>t, <3>1 DEF Goto
      <3>4. \A s \in owed'[l] : ver'[s] <= ver'[l]
        BY <1>n, <2>1, <3>2, <3>3
      <3>5. ver'[l] \in VersionsFor(File[l])'
        BY <1>f, <3>2, <3>3
      <3> QED BY <3>3, <3>4, <3>5
    <2> QED BY <1>1, <2>2, <2>3 DEF LoadLatest
  <1>2. CASE LoadVersion(l)
    BY <1>2, <1>t DEF LoadVersion, Goto
  <1>3. CASE Get(l)
    <2>1. pc[l] = "get" /\ UNCHANGED <<rows, ver, owed>> /\ ver[l] \in Nat
      BY <1>3, <1>t DEF Get, db
    <2>2. CASE ver[l] \notin VersionsFor(File[l]) /\ Goto(l, "loaded") /\ UNCHANGED got
      <3>1. pc'[l] = "loaded" /\ Want[l] # None
        BY <1>h, <1>t, <2>1, <2>2 DEF Goto
      <3>2. \A s \in owed[l] : ver[s] # ver[l]
        BY <1>o, <2>2, SavedFound
      <3> QED BY <2>1, <3>1, <3>2
    <2>3. ASSUME NEW r \in RowsFor(File[l]), r.ver = ver[l],
                 got' = [got EXCEPT ![l] =
                   part_from_bins(mime_for_part(Part[r.by]), Part[r.by].data)],
                 Goto(l, "loaded")
          PROVE  Lookup(l)' /\ Sees(l)' /\ Keeps(l)'
      <3>1. /\ pc'[l] = "loaded" /\ r.by \in Savers
            /\ got'[l] = part_from_bins(mime_for_part(Part[r.by]), Part[r.by].data)
        BY <1>t, <2>3 DEF Goto, RowsFor, Rows
      <3>2. got'[l] # None /\ Restored(r.by, got'[l])
        BY <3>1, Conversions
      <3>3. \A s \in owed[l] : ver[s] = ver[l] => r.by = s
        BY <1>o, <2>3, RecordOf
      <3>4. Sees(l)'
        BY <1>h, <1>o, <1>t, <2>1, <3>2
      <3>5. Keeps(l)'
        BY <2>1, <3>1, <3>2, <3>3
      <3> QED BY <3>1, <3>4, <3>5
    <2>4. ASSUME NEW r \in RowsFor(File[l]), r.ver = ver[l],
                 ~Decodes(mime_for_part(Part[r.by]), Part[r.by].data),
                 Goto(l, "undecodable")
          PROVE  Lookup(l)' /\ Sees(l)' /\ Keeps(l)'
      <3>1. pc'[l] = "undecodable" /\ r.by \in Savers
        BY <1>t, <2>4 DEF Goto, RowsFor, Rows
      <3>2. \A s \in owed[l] : ver[s] = ver[l] => r.by = s
        BY <1>o, <2>4, RecordOf
      <3>3. Supported(Part[r.by]) => Unreadable(r.by)
        BY <2>4, <3>1, PartsAssumption
           DEF Unreadable, Decodes, Supported, mime_for_part, PartType
      <3>4. \A s \in owed[l] : Supported(Part[s])
        BY <1>o DEF SupportedInv
      <3>5. Keeps(l)'
        BY <2>1, <3>1, <3>2, <3>3, <3>4
      <3> QED BY <3>1, <3>5
    <2> QED BY <1>3, <2>2, <2>3, <2>4 DEF Get
  <1>4. CASE pc'[l] = "failed"
    BY <1>4
  <1>5. CASE pc'[l] = pc[l] /\ ver'[l] = ver[l] /\ owed'[l] = owed[l] /\ got'[l] = got[l]
    BY <1>5, <1>h, <1>o, <1>f
  <1> QED BY <1>1, <1>2, <1>3, <1>4, <1>5, LoaderStep

LEMMA SavesCorrect == Spec => [](VersionInv /\ LoadInv)
  <1>1. Init => BegunInv /\ SupportedInv /\ VersionInv /\ LoadInv
    BY DEF Init, Tasks, Live, BegunInv, SupportedInv, VersionInv, LoadInv, CounterInv, DistinctInv, StoredInv,
       LookupInv, SaveNeverExists, SaveMonotonic, LoadSeesSaved, LoadKeepsContent
  <1>2. ControlInv /\ BegunInv /\ SupportedInv /\ VersionInv /\ LoadInv /\ [Next]_vars
            => (BegunInv /\ SupportedInv /\ VersionInv /\ LoadInv)'
    BY BegunNext, SupportedNext, VersionNext, LoadNext
  <1> QED BY <1>1, <1>2, ControlInit, ControlNext, PTL DEF Spec

\* Until a delete of its file begins, no save meets the version record of
\* another save, whatever calls failed before and arrive late.
THEOREM SaveNeverExistsAlways == Spec => []SaveNeverExists
  <1>1. VersionInv => SaveNeverExists
    BY DEF VersionInv
  <1> QED BY <1>1, SavesCorrect, PTL

\* Until a delete of its file begins, a save has a higher version than every
\* save that had returned before it began.
THEOREM SaveMonotonicAlways == Spec => []SaveMonotonic
  <1>1. VersionInv => SaveMonotonic
    BY DEF VersionInv
  <1> QED BY <1>1, SavesCorrect, PTL

\* Until a delete of its file begins, load_artifact without a version returns
\* one at least as new as every save that had returned before it began.
THEOREM LoadSeesSavedAlways == Spec => []LoadSeesSaved
  <1>1. LoadInv => LoadSeesSaved
    BY DEF LoadInv
  <1> QED BY <1>1, SavesCorrect, PTL

\* Until a delete of its file begins, a version that a save returned loads with
\* the MIME type and the bytes that were saved, unless it is inline text/plain
\* data that is not UTF-8, whose load raises; text, and inline data of another
\* type, also load as the same kind of part.
THEOREM LoadKeepsContentAlways == Spec => []LoadKeepsContent
  <1>1. LoadInv => LoadKeepsContent
    BY DEF LoadInv
  <1> QED BY <1>1, SavesCorrect, PTL
=============================================================================
