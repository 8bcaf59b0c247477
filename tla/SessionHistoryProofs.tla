------------------------ MODULE SessionHistoryProofs ------------------------
(***************************************************************************)
(* Theorems about get_session beside any number of appends, for any        *)
(* configs, any number of readers and any faults: a read loses nothing     *)
(* that lay ahead of it when it began (ReaderInv).  Then about sequential  *)
(* use: events lie in the segments in their order (OrderInv), so that a    *)
(* walk returns them in it (WalkOrder), and exactly those that the         *)
(* reference of the read names (ExactInv).                                 *)
(***************************************************************************)
EXTENDS SessionHistory, SessionOnceProofs, FiniteSetTheorems

-----------------------------------------------------------------------------
(* The order of keys, and the lists a segment read returns.                *)

\* Keys are ordered by time and id, and no two are level.
LEMMA NewerOrder ==
    /\ \A j, k \in Keys : Newer(j, k) \/ Newer(k, j) \/ j = k
    /\ \A k \in Keys : ~Newer(k, k)
    /\ \A i, j, k \in Keys : Newer(i, j) /\ Newer(j, k) => Newer(i, k)
  <1>1. \A k \in Keys : k = <<k[1], k[2]>> /\ k[1] \in Nat /\ k[2] \in Nat
    <2>1. \A e \in Events : \A k \in event_map_key(e) : k = <<k[1], k[2]>>
      BY DEF event_map_key
    <2>2. \A k \in Keys : k = <<k[1], k[2]>>
      BY <2>1 DEF Keys
    <2> QED BY <2>2, KeyFacts, ReadersAssumption
  <1>2. \A j, k \in Keys : j[1] = k[1] /\ j[2] = k[2] => j = k
    BY <1>1
  <1> HIDE <1>1
  <1>3. \A k \in Keys : k[1] \in Nat /\ k[2] \in Nat
    BY <1>1
  <1>4. \A j, k \in Keys : Newer(j, k) \/ Newer(k, j) \/ j = k
    BY <1>2, <1>3 DEF Newer
  <1>5. \A i, j, k \in Keys : Newer(i, j) /\ Newer(j, k) => Newer(i, k)
    BY <1>3 DEF Newer
  <1> QED BY <1>3, <1>4, <1>5 DEF Newer

\* How many keys of S are newer than k.
Above(S, k) == Cardinality({x \in S : Newer(x, k)})

\* It tells the keys of a finite set apart, in their order.
LEMMA AboveFacts ==
    ASSUME NEW S \in SUBSET Keys, IsFiniteSet(S)
    PROVE  /\ Cardinality(S) \in Nat
           /\ \A k \in S : Above(S, k) \in Nat /\ Above(S, k) < Cardinality(S)
           /\ \A j, k \in S : Newer(j, k) => Above(S, j) < Above(S, k)
           /\ \A j, k \in S : Above(S, j) = Above(S, k) => j = k
           /\ \A n \in 1..Cardinality(S) : \E k \in S : Above(S, k) = n - 1
  <1> DEFINE Set(k) == {x \in S : Newer(x, k)}
             N == Cardinality(S)
             rank == [k \in S |-> Above(S, k) + 1]
  <1>1. N \in Nat
    BY FS_CardinalityType
  <1>2. ASSUME NEW k \in S
        PROVE  IsFiniteSet(Set(k)) /\ Above(S, k) \in Nat /\ Above(S, k) < N
    <2>1. Set(k) \in SUBSET S /\ k \notin Set(k)
      BY NewerOrder
    <2>2. Set(k) # S
      BY <2>1
    <2>3. IsFiniteSet(Set(k)) /\ Cardinality(Set(k)) <= N /\ Cardinality(Set(k)) # N
      BY <2>1, <2>2, FS_Subset
    <2>4. Cardinality(Set(k)) \in Nat
      BY <2>3, FS_CardinalityType
    <2> QED BY <1>1, <2>3, <2>4 DEF Above
  <1>3. ASSUME NEW j \in S, NEW k \in S, Newer(j, k)
        PROVE  Above(S, j) < Above(S, k)
    <2>1. Set(j) \in SUBSET Set(k)
      BY <1>3, NewerOrder
    <2>2. Set(j) # Set(k)
      BY <1>3, NewerOrder
    <2>3. IsFiniteSet(Set(k))
      BY <1>2
    <2>4. Cardinality(Set(j)) <= Cardinality(Set(k)) /\ Cardinality(Set(j)) # Cardinality(Set(k))
      BY <2>1, <2>2, <2>3, FS_Subset
    <2>5. Above(S, j) <= Above(S, k) /\ Above(S, j) # Above(S, k)
      BY <2>4 DEF Above
    <2>6. Above(S, j) \in Nat /\ Above(S, k) \in Nat
      BY <1>2
    <2> QED BY <2>5, <2>6
  <1> HIDE DEF Set
  <1>4. rank \in [S -> 1..N]
    <2>1. \A k \in S : Above(S, k) + 1 \in 1..N
      BY <1>1, <1>2
    <2> QED BY <2>1
  <1>5. ASSUME NEW j \in S, NEW k \in S, Above(S, j) = Above(S, k)
        PROVE  j = k
    <2>1. ~Newer(j, k) /\ ~Newer(k, j)
      BY <1>2, <1>3, <1>5
    <2> QED BY <2>1, NewerOrder
  <1>6. rank \in Injection(S, 1..N)
    <2>1. ASSUME NEW j \in S, NEW k \in S, rank[j] = rank[k] PROVE j = k
      <3>1. Above(S, j) = Above(S, k)
        BY <1>2, <2>1
      <3> QED BY <1>5, <3>1
    <2> QED BY <1>4, <2>1 DEF Injection, IsInjective
  <1>7. IsFiniteSet(1..N) /\ Cardinality(1..N) = N
    BY <1>1, FS_Interval
  <1>8. rank \in Surjection(S, 1..N)
    BY <1>6, <1>7, FS_Injection
  <1>9. ASSUME NEW n \in 1..N PROVE \E k \in S : Above(S, k) = n - 1
    <2>1. PICK k \in S : rank[k] = n
      BY <1>8 DEF Surjection
    <2>2. Above(S, k) + 1 = n /\ n \in Nat
      BY <1>1, <2>1
    <2>3. Above(S, k) = n - 1
      BY <1>2, <2>2
    <2> QED BY <2>3
  <1> QED BY <1>1, <1>2, <1>3, <1>5, <1>9

\* NewestFirst lists every key of a finite set once, newest first.
LEMMA NewestFirstFacts ==
    ASSUME NEW S \in SUBSET Keys, IsFiniteSet(S)
    PROVE  /\ NewestFirst(S) \in Seq(S)
           /\ ToSet(NewestFirst(S)) = S
           /\ \A i, j \in 1..Len(NewestFirst(S)) :
                 i < j => Newer(NewestFirst(S)[i], NewestFirst(S)[j])
  <1> DEFINE N == Cardinality(S)
             Nth(n) == CHOOSE k \in S : Above(S, k) = n - 1
  <1>1. NewestFirst(S) = [n \in 1..N |-> Nth(n)]
    BY DEF NewestFirst, Above
  <1>2. \A n \in 1..N : Nth(n) \in S /\ Above(S, Nth(n)) = n - 1
    BY AboveFacts
  <1> HIDE DEF Nth
  <1>3. N \in Nat
    BY AboveFacts
  <1>4. NewestFirst(S) \in Seq(S) /\ Len(NewestFirst(S)) = N /\ DOMAIN NewestFirst(S) = 1..N
    <2> HIDE DEF N
    <2> QED BY <1>1, <1>2, <1>3
  <1>5. ASSUME NEW k \in S PROVE \E n \in 1..N : NewestFirst(S)[n] = k
    <2>1. Above(S, k) + 1 \in 1..N
      BY <1>3, AboveFacts
    <2>2. PICK n \in 1..N : n = Above(S, k) + 1
      BY <2>1
    <2>3. Above(S, Nth(n)) = Above(S, k)
      BY <1>2, <2>2, AboveFacts
    <2> QED BY <1>1, <1>2, <2>3, AboveFacts
  <1>6. ASSUME NEW i \in 1..N, NEW j \in 1..N, i < j
        PROVE  Newer(NewestFirst(S)[i], NewestFirst(S)[j])
    <2>1. Above(S, Nth(i)) < Above(S, Nth(j))
      <3>1. i \in Nat /\ j \in Nat /\ i > 0
        BY <1>3
      <3> QED BY <1>2, <1>6, <3>1
    <2>2. Nth(i) \in S /\ Nth(j) \in S
      BY <1>2
    <2>3. ~Newer(Nth(j), Nth(i)) /\ Nth(i) # Nth(j)
      BY <2>1, <2>2, AboveFacts
    <2>4. Newer(Nth(i), Nth(j))
      BY <2>2, <2>3, NewerOrder
    <2> QED BY <1>1, <2>4
  <1>7. ToSet(NewestFirst(S)) = S
    BY <1>1, <1>2, <1>4, <1>5 DEF ToSet
  <1> QED BY <1>4, <1>6, <1>7

\* Take returns a prefix, all of the list unless that is too long.
LEMMA TakeFacts ==
    ASSUME NEW S, NEW s \in Seq(S), NEW n \in Nat \cup {None}
    PROVE  /\ Take(s, n) \in Seq(S)
           /\ Len(Take(s, n)) <= Len(s)
           /\ \A i \in 1..Len(Take(s, n)) : Take(s, n)[i] = s[i]
           /\ n # None => Len(Take(s, n)) <= n
           /\ n = None \/ Len(Take(s, n)) < n => Take(s, n) = s
  <1>1. CASE n = None \/ n >= Len(s)
    <2>1. Take(s, n) = s
      BY <1>1 DEF Take
    <2> QED BY <1>1, <2>1
  <1>2. CASE ~(n = None \/ n >= Len(s))
    <2>1. Take(s, n) = SubSeq(s, 1, n) /\ n \in Nat /\ n < Len(s) /\ n # None
      BY <1>2 DEF Take
    <2>2. SubSeq(s, 1, n) \in Seq(S) /\ Len(SubSeq(s, 1, n)) = n
      BY <2>1
    <2>3. \A i \in 1..n : SubSeq(s, 1, n)[i] = s[i]
      BY <2>1
    <2> QED BY <2>1, <2>2, <2>3
  <1> QED BY <1>1, <1>2

LEMMA ToSetConcat ==
    ASSUME NEW S, NEW s \in Seq(S), NEW t \in Seq(S)
    PROVE  /\ s \o t \in Seq(S)
           /\ Len(s \o t) = Len(s) + Len(t)
           /\ ToSet(s \o t) = ToSet(s) \cup ToSet(t)
  <1>1. /\ s \o t \in Seq(S) /\ Len(s \o t) = Len(s) + Len(t)
        /\ \A i \in 1..(Len(s) + Len(t)) :
              (s \o t)[i] = IF i <= Len(s) THEN s[i] ELSE t[i - Len(s)]
    OBVIOUS
  <1>2. ToSet(s \o t) \subseteq ToSet(s) \cup ToSet(t)
    <2> SUFFICES ASSUME NEW i \in DOMAIN (s \o t)
                 PROVE  (s \o t)[i] \in ToSet(s) \cup ToSet(t)
      BY DEF ToSet
    <2>1. CASE i <= Len(s)
      BY <1>1, <2>1 DEF ToSet
    <2>2. CASE i > Len(s)
      <3>1. i - Len(s) \in DOMAIN t
        BY <1>1, <2>2
      <3> QED BY <1>1, <2>2, <3>1 DEF ToSet
    <2> QED BY <1>1, <2>1, <2>2
  <1>3. ToSet(s) \subseteq ToSet(s \o t)
    BY <1>1 DEF ToSet
  <1>4. ToSet(t) \subseteq ToSet(s \o t)
    <2> SUFFICES ASSUME NEW i \in DOMAIN t PROVE t[i] \in ToSet(s \o t)
      BY DEF ToSet
    <2>1. i + Len(s) \in DOMAIN (s \o t) /\ (s \o t)[i + Len(s)] = t[i]
      BY <1>1
    <2> QED BY <2>1 DEF ToSet
  <1> QED BY <1>1, <1>2, <1>3, <1>4

\* A finite number of events is in finite segments.
LEMMA SegmentFinite ==
    ASSUME DbOK, IsFiniteSet(stored), NEW n
    PROVE  IsFiniteSet(Seg(n)) /\ Seg(n) \in SUBSET Keys
  <1> DEFINE At == {p \in stored : p[1] = n}
             f == [p \in At |-> p[2]]
  <1>1. IsFiniteSet(At)
    BY FS_Subset
  <1>2. \A p \in At : p[2] \in Seg(n)
    BY DEF DbOK, Seg
  <1>3. \A k \in Seg(n) : <<n, k>> \in At
    BY DEF Seg
  <1>4. f \in Surjection(At, Seg(n))
    BY <1>2, <1>3 DEF Surjection
  <1>5. IsFiniteSet(Seg(n))
    BY <1>1, <1>4, FS_Surjection
  <1> QED BY <1>5 DEF Seg

\* A list of keys from the newest to the oldest.
Descending(s) == \A i, j \in 1..Len(s) : i < j => Newer(s[i], s[j])

\* A prefix of a list has its order and a part of its keys.
LEMMA TakePart ==
    ASSUME NEW s \in Seq(Keys), NEW n \in Nat \cup {None}, Descending(s)
    PROVE  /\ Take(s, n) \in Seq(Keys) /\ Descending(Take(s, n))
           /\ ToSet(Take(s, n)) \subseteq ToSet(s)
           /\ \A k \in ToSet(Take(s, n)), j \in ToSet(s) \ ToSet(Take(s, n)) : Newer(k, j)
           /\ n # None => Len(Take(s, n)) <= n
           /\ n = None \/ Len(Take(s, n)) < n => Take(s, n) = s
  <1> DEFINE t == Take(s, n)
  <1>1. /\ t \in Seq(Keys) /\ Len(t) <= Len(s)
        /\ \A i \in 1..Len(t) : t[i] = s[i]
        /\ n # None => Len(t) <= n
        /\ n = None \/ Len(t) < n => t = s
    BY TakeFacts
  <1> HIDE DEF t
  <1>2. \A i \in 1..Len(t) : i \in 1..Len(s)
    BY <1>1
  <1>3. Descending(t)
    BY <1>1, <1>2 DEF Descending
  <1>4. ToSet(t) \subseteq ToSet(s)
    BY <1>1, <1>2 DEF ToSet
  <1>5. ASSUME NEW k \in ToSet(t), NEW j \in ToSet(s) \ ToSet(t) PROVE Newer(k, j)
    <2>1. PICK i \in 1..Len(t) : t[i] = k
      BY <1>1 DEF ToSet
    <2>2. PICK m \in 1..Len(s) : s[m] = j
      BY DEF ToSet
    <2>3. m \notin 1..Len(t)
      BY <1>1, <2>2 DEF ToSet
    <2>4. i \in 1..Len(s) /\ i < m /\ s[i] = k
      BY <1>1, <1>2, <2>1, <2>3
    <2> QED BY <2>2, <2>4 DEF Descending
  <1> QED BY <1>1, <1>3, <1>4, <1>5 DEF t

LEMMA AfterFacts ==
    ASSUME NEW S, NEW a
    PROVE  After(S, a) \in SUBSET S /\ (a = None => After(S, a) = S)
  BY DEF After

\* What one round of the walk takes from segment g: the newest of its events
\* from the cutoff on.
LEMMA EntriesFacts ==
    ASSUME DbOK, IsFiniteSet(stored),
           NEW g, NEW need \in Nat \cup {None}, NEW a \in Nat \cup {None},
           NEW t, t = Take(SegmentEntries(g, need, a), need)
    PROVE  /\ t \in Seq(Keys) /\ Descending(t)
           /\ ToSet(t) \subseteq After(Seg(g), a)
           /\ \A k \in ToSet(t), j \in After(Seg(g), a) \ ToSet(t) : Newer(k, j)
           /\ need # None => Len(t) <= need
           /\ need = None \/ Len(t) < need => ToSet(t) = After(Seg(g), a)
           /\ a # None /\ SegmentEntries(g, need, a) = <<>> => After(Seg(g), a) = {}
  <1> DEFINE all == NewestFirst(After(Seg(g), a))
  <1>1. IsFiniteSet(Seg(g)) /\ Seg(g) \in SUBSET Keys
    BY SegmentFinite
  <1>2. After(Seg(g), a) \in SUBSET Seg(g)
    BY AfterFacts
  <1>3. IsFiniteSet(After(Seg(g), a)) /\ After(Seg(g), a) \in SUBSET Keys
    BY <1>1, <1>2, FS_Subset
  <1>4. /\ all \in Seq(After(Seg(g), a)) /\ ToSet(all) = After(Seg(g), a)
        /\ Descending(all)
    BY <1>3, NewestFirstFacts DEF Descending
  <1>5. all \in Seq(Keys)
    BY <1>3, <1>4
  <1>6. SegmentEntries(g, need, a) = IF a # None THEN all ELSE Take(all, need)
    BY DEF SegmentEntries
  <1> HIDE DEF all
  <1> DEFINE mid == SegmentEntries(g, need, a)
  <1>7. /\ mid \in Seq(Keys) /\ Descending(mid) /\ ToSet(mid) \subseteq ToSet(all)
        /\ a # None => mid = all
        /\ \A k \in ToSet(mid), j \in ToSet(all) \ ToSet(mid) : Newer(k, j)
        /\ a = None /\ (need = None \/ Len(mid) < need) => mid = all
    BY <1>4, <1>5, <1>6, TakePart
  <1> HIDE DEF mid
  <1>8. /\ t \in Seq(Keys) /\ Descending(t) /\ ToSet(t) \subseteq ToSet(mid)
        /\ \A k \in ToSet(t), j \in ToSet(mid) \ ToSet(t) : Newer(k, j)
        /\ need # None => Len(t) <= need
        /\ need = None \/ Len(t) < need => t = mid
    BY <1>7, TakePart DEF mid
  <1>9. mid = <<>> => ToSet(mid) = {}
    BY DEF ToSet
  <1>10. need = None \/ Len(t) < need => ToSet(t) = After(Seg(g), a)
    BY <1>4, <1>7, <1>8
  <1>11. \A k \in ToSet(t), j \in ToSet(all) \ ToSet(t) : Newer(k, j)
    BY <1>7, <1>8
  <1>12. a # None /\ mid = <<>> => After(Seg(g), a) = {}
    BY <1>4, <1>7, <1>9
  <1> QED BY <1>4, <1>7, <1>8, <1>10, <1>11, <1>12 DEF mid

-----------------------------------------------------------------------------
(* The invariant of a reader: what it has yet to find lies ahead of it.    *)

\* The events in the segments that the walk of r still reads.
Ahead(r) == {e \in Events : \E p \in stored : p[1] <= gidx[r] /\ p[2][2] = e}

ReaderInv(r) ==
    /\ rpc[r] # "idle" => config[r] \in Configs
    /\ Reading(r) => gidx[r] <= cur
    /\ rpc[r] = "opened" => collected[r] = <<>>
    /\ rpc[r] = "walk" /\ config[r].recent # None => Len(collected[r]) < config[r].recent
    /\ Reading(r) /\ config[r].after = None => acked[r] \subseteq EventsRead(r) \cup Ahead(r)
    /\ Done(r) /\ config[r].recent # None => Len(collected[r]) <= config[r].recent
    /\ Done(r) /\ config[r].after = None =>
          \/ acked[r] \subseteq EventsRead(r)
          \/ config[r].recent # None /\ Len(collected[r]) = config[r].recent

ReadInv ==
    /\ SafetyInv
    /\ HTypeOK
    /\ IsFiniteSet(stored)
    /\ \A r \in Readers : ReaderInv(r)

\* The records a read walks over only grow, by one entry at a time.
More ==
    /\ cur' >= cur
    /\ stored' = stored \/ \E p : stored' = stored \cup {p}

LEMMA NextMore == SafetyInv /\ [Next]_vars => More
  <1> SUFFICES ASSUME SafetyInv, [Next]_vars PROVE More
    OBVIOUS
  <1> USE DEF SafetyInv
  <1>d. DbOK
    BY DEF TypeInv, TypeOK
  <1>e. ASSUME NEW n \in Nat, NEW k \in Keys, Effect(n, k) PROVE More
    <2>1. cur' >= cur
      BY <1>d, <1>e DEF Effect, SegmentPut, CurBump, StatePut, DbOK, db
    <2>2. stored' = stored \/ stored' = stored \cup {<<n, k>>}
      BY <1>e DEF Effect, SegmentPut, CurBump, StatePut, db
    <2> QED BY <2>1, <2>2 DEF More
  <1>u. UNCHANGED db => More
    BY <1>d DEF db, More, DbOK
  <1>1. ASSUME NEW t \in Tasks, NEW e \in Events, StartAppend(t, e) PROVE More
    BY <1>1, <1>u DEF StartAppend
  <1>2. ASSUME NEW t \in Tasks, Step(t) PROVE More
    <2>1. at[t] \in Nat /\ key[t] \in Keys
      BY <1>2, StepEffects DEF TypeInv, TypeOK, TaskOK
    <2>2. Effect(at[t], key[t])
      BY <1>2, StepEffects DEF Effect, LocalInv
    <2> QED BY <1>e, <2>1, <2>2
  <1>3. ASSUME NEW q \in late, ApplyLate(q) PROVE More
    <2>1. q.n \in Nat /\ q.key \in Keys
      BY DEF TypeInv, TypeOK, Requests
    <2>2. Effect(q.n, q.key)
      BY <1>3 DEF ApplyLate, Effect, ServerInv, LateInv
    <2> QED BY <1>e, <2>1, <2>2
  <1>4. ASSUME NEW p \in Procs, Crash(p) PROVE More
    BY <1>4, <1>u DEF Crash
  <1>5. CASE UNCHANGED vars
    BY <1>5, <1>u DEF vars, db
  <1> QED BY <1>1, <1>2, <1>3, <1>4, <1>5 DEF Next

\* Steps of others leave a reader's invariant alone.
LEMMA ReaderStable ==
    ASSUME HTypeOK, HTypeOK', More, NEW r \in Readers, ReaderInv(r),
           rpc'[r] = rpc[r], config'[r] = config[r], gidx'[r] = gidx[r],
           collected'[r] = collected[r], acked'[r] = acked[r]
    PROVE  ReaderInv(r)'
  <1>1. Reading(r)' = Reading(r) /\ Done(r)' = Done(r) /\ EventsRead(r)' = EventsRead(r)
    BY DEF Reading, Done, EventsRead
  <1>2. Ahead(r) \subseteq Ahead(r)'
    BY DEF Ahead, More
  <1>3. gidx[r] <= cur => gidx[r] <= cur'
    BY DEF More, HTypeOK, TypeOK, DbOK
  <1> QED BY <1>1, <1>2, <1>3 DEF ReaderInv

\* A reader that fails has nothing to show.
LEMMA ReaderFails ==
    ASSUME NEW r \in Readers, ReaderInv(r), rpc[r] # "idle",
           rpc'[r] = "failed", config'[r] = config[r]
    PROVE  ReaderInv(r)'
  BY DEF ReaderInv, Reading, Done

-----------------------------------------------------------------------------
(* Steps of a reader.                                                      *)

\* The batch read: what was appended lies at or below cur.
LEMMA OpenStep ==
    ASSUME ReadInv, NEW r \in Readers, NEW c \in Configs, OpenSession(r, c)
    PROVE  HTypeOK' /\ ReaderInv(r)'
  <1>1. /\ rpc'[r] = "opened" /\ config'[r] = c /\ gidx'[r] = cur
        /\ collected'[r] = <<>> /\ acked'[r] = {e \in Events : outcome[e] = "ok"}
    BY DEF OpenSession, ReadInv, HTypeOK
  <1>2. UNCHANGED vars
    BY DEF OpenSession
  <1>3. TypeOK'
    BY <1>2 DEF ReadInv, HTypeOK, TypeOK, DbOK, TaskOK, vars, db, taskVars
  <1>4. /\ rpc' \in [Readers -> {"idle", "opened", "walk", "done", "failed"}]
        /\ config' \in [Readers -> Configs \cup {None}]
        /\ acked' \in [Readers -> SUBSET Events]
    BY DEF OpenSession, ReadInv, HTypeOK
  <1>5. /\ gidx' \in [Readers -> Nat] /\ collected' \in [Readers -> Seq(Keys)]
        /\ tsBin' \in [Readers -> Keys \cup {None}]
    <2>1. cur \in Nat /\ state["session"] \in Keys \cup {None} /\ <<>> \in Seq(Keys)
      BY DEF ReadInv, HTypeOK, TypeOK, DbOK, Scopes
    <2> QED BY <2>1 DEF OpenSession, ReadInv, HTypeOK
  <1>6. HTypeOK'
    BY <1>3, <1>4, <1>5 DEF HTypeOK
  <1>7. acked'[r] \subseteq Ahead(r)'
    <2>1. \A e \in Events : outcome[e] = "ok" => \E p \in stored : p[2][2] = e
      BY DEF ReadInv, SafetyInv, OutcomeInv, Told
    <2>2. \A p \in stored : p[1] <= cur
      BY DEF ReadInv, SafetyInv, ServerInv, RecordInv
    <2>3. stored' = stored
      BY <1>2 DEF vars, db
    <2> QED BY <1>1, <2>1, <2>2, <2>3 DEF Ahead
  <1>8. cur' = cur /\ cur \in Nat
    BY <1>2 DEF vars, db, ReadInv, HTypeOK, TypeOK, DbOK
  <1> QED BY <1>1, <1>6, <1>7, <1>8 DEF ReaderInv, Reading, Done

\* The reply: num_recent_events = 0 asks for nothing.
LEMMA SeedStep ==
    ASSUME ReadInv, NEW r \in Readers, SeedCache(r)
    PROVE  HTypeOK' /\ ReaderInv(r)' /\ SafetyInv'
  <1>1. /\ UNCHANGED <<db, taskVars, late, outcome, faults>>
        /\ UNCHANGED <<config, gidx, tsBin, collected, acked>>
        /\ rpc[r] = "opened"
        /\ cache' = [cache EXCEPT ![ReaderHost[r]] = gidx[r]]
        /\ rpc' = [rpc EXCEPT ![r] = IF config[r].recent = 0 THEN "done" ELSE "walk"]
    BY DEF SeedCache
  <1>2. /\ config[r] \in Configs /\ gidx[r] <= cur /\ gidx[r] \in Nat
        /\ ReaderHost[r] \in Procs
    BY <1>1, ReadersAssumption DEF ReadInv, ReaderInv, HTypeOK, Reading
  <1>3. cache' \in [Procs -> Nat \cup {None}]
    BY <1>1, <1>2 DEF ReadInv, HTypeOK, TypeOK
  <1>4. TypeOK'
    BY <1>1, <1>3 DEF ReadInv, HTypeOK, TypeOK, DbOK, TaskOK, db, taskVars
  <1>5. HTypeOK'
    BY <1>1, <1>4 DEF ReadInv, HTypeOK
  <1>6. SafetyInv'
    <2>1. TypeInv'
      BY <1>1, <1>4 DEF ReadInv, SafetyInv, TypeInv, TaskInv, taskVars
    <2>2. Grows
      BY <1>1 DEF Grows, db, ReadInv, HTypeOK, TypeOK, DbOK
    <2>3. ASSUME NEW u \in Tasks PROVE LocalInv(u)'
      BY <1>1, <2>1, <2>2, LocalStable DEF taskVars, ReadInv, SafetyInv
    <2>4. RecordInv' /\ LateInv'
      BY <1>1 DEF ReadInv, SafetyInv, ServerInv, RecordInv, LateInv, Accepts, Seg, db
    <2>5. CacheInv'
      <3>1. ASSUME NEW p \in Procs, cache'[p] # None PROVE cache'[p] <= cur'
        <4>1. cache'[p] = gidx[r] \/ cache'[p] = cache[p]
          BY <1>1 DEF ReadInv, HTypeOK, TypeOK
        <4>2. cache[p] # None => cache[p] <= cur
          BY DEF ReadInv, SafetyInv, ServerInv, CacheInv
        <4>3. cur' = cur
          BY <1>1 DEF db
        <4> QED BY <1>2, <3>1, <4>1, <4>2, <4>3
      <3> QED BY <3>1 DEF CacheInv
    <2>6. ASSUME NEW d \in Events PROVE Told(d)'
      BY <1>1, <2>1, <2>2, OutcomeStable DEF ReadInv, SafetyInv, OutcomeInv
    <2> QED BY <2>1, <2>3, <2>4, <2>5, <2>6 DEF SafetyInv, ServerInv, OutcomeInv
  <1>7. ReaderInv(r)'
    <2>1. /\ config'[r] = config[r] /\ collected'[r] = <<>> /\ gidx'[r] = gidx[r]
          /\ collected[r] = <<>> /\ acked'[r] = acked[r] /\ cur' = cur
          /\ EventsRead(r)' = EventsRead(r) /\ Ahead(r)' = Ahead(r)
      BY <1>1 DEF ReadInv, ReaderInv, EventsRead, Ahead, db
    <2>2. rpc'[r] = IF config[r].recent = 0 THEN "done" ELSE "walk"
      BY <1>1 DEF ReadInv, HTypeOK
    <2>3. config[r].recent \in Nat \cup {None} /\ None # 0 /\ Len(<<>>) = 0
      BY <1>2, ReadersAssumption, ConstantsAssumption
    <2>4. config[r].after = None => acked[r] \subseteq EventsRead(r) \cup Ahead(r)
      BY <1>1 DEF ReadInv, ReaderInv, Reading
    <2>5. CASE config[r].recent = 0
      BY <1>2, <2>1, <2>2, <2>3, <2>5 DEF ReaderInv, Reading, Done
    <2>6. CASE config[r].recent # 0
      <3>1. config[r].recent # None => 0 < config[r].recent
        BY <2>3, <2>6
      <3> QED BY <1>2, <2>1, <2>2, <2>3, <2>4, <2>6, <3>1 DEF ReaderInv, Reading, Done
    <2> QED BY <2>5, <2>6
  <1> QED BY <1>5, <1>6, <1>7

\* One round of the walk: it takes t from segment gidx[r] and stops, or goes on
\* to the next segment with room left.
LEMMA LoadFacts ==
    ASSUME ReadInv, NEW r \in Readers, LoadSegment(r)
    PROVE  \E t \in Seq(Keys) :
              /\ collected' = [collected EXCEPT ![r] = collected[r] \o t]
              /\ Descending(t)
              /\ ToSet(t) \subseteq After(Seg(gidx[r]), config[r].after)
              /\ \A k \in ToSet(t), j \in After(Seg(gidx[r]), config[r].after) \ ToSet(t) :
                    Newer(k, j)
              /\ config[r].recent # None => Len(collected[r]) + Len(t) <= config[r].recent
              /\ \/ ToSet(t) = After(Seg(gidx[r]), config[r].after)
                 \/ /\ config[r].recent # None
                    /\ Len(collected[r]) + Len(t) = config[r].recent
              /\ \/ /\ rpc' = [rpc EXCEPT ![r] = "done"] /\ gidx' = gidx
                    /\ \/ gidx[r] = 0
                       \/ /\ config[r].recent # None
                          /\ Len(collected[r]) + Len(t) = config[r].recent
                       \/ /\ config[r].after # None
                          /\ After(Seg(gidx[r]), config[r].after) = {}
                 \/ /\ rpc' = rpc /\ gidx' = [gidx EXCEPT ![r] = gidx[r] - 1] /\ gidx[r] # 0
                    /\ config[r].recent # None =>
                          Len(collected[r]) + Len(t) < config[r].recent
  <1> DEFINE n == config[r].recent
             a == config[r].after
             need == IF n = None THEN None ELSE n - Len(collected[r])
             entries == SegmentEntries(gidx[r], need, a)
             t == Take(entries, need)
             all == collected[r] \o t
             enough == n # None /\ Len(all) >= n
             stop == enough \/ Cutoff(config[r], entries) \/ Oldest(gidx[r])
  <1>1. rpc[r] = "walk" /\ config[r] \in Configs
    BY DEF LoadSegment, ReadInv, ReaderInv
  <1>2. n \in Nat \cup {None} /\ a \in Nat \cup {None} /\ None \notin Nat
    BY <1>1, ReadersAssumption, ConstantsAssumption
  <1>3. n # None => Len(collected[r]) < n
    BY <1>1 DEF ReadInv, ReaderInv
  <1>4. collected[r] \in Seq(Keys) /\ gidx[r] \in Nat
    BY DEF ReadInv, HTypeOK
  <1>5. need \in Nat \cup {None} /\ (need = None <=> n = None)
    <2>1. Len(collected[r]) \in Nat
      BY <1>4
    <2> QED BY <1>2, <1>3, <2>1
  <1>6. DbOK /\ IsFiniteSet(stored)
    BY DEF ReadInv, HTypeOK, TypeOK
  <1>7. /\ t \in Seq(Keys) /\ Descending(t) /\ ToSet(t) \subseteq After(Seg(gidx[r]), a)
        /\ \A k \in ToSet(t), j \in After(Seg(gidx[r]), a) \ ToSet(t) : Newer(k, j)
        /\ need # None => Len(t) <= need
        /\ need = None \/ Len(t) < need => ToSet(t) = After(Seg(gidx[r]), a)
        /\ a # None /\ entries = <<>> => After(Seg(gidx[r]), a) = {}
    <2> HIDE DEF need, n, a
    <2> QED BY <1>2, <1>5, <1>6, EntriesFacts
  <1>8. /\ collected' = [collected EXCEPT ![r] = all]
        /\ \/ stop /\ rpc' = [rpc EXCEPT ![r] = "done"] /\ gidx' = gidx
           \/ ~stop /\ gidx' = [gidx EXCEPT ![r] = gidx[r] - 1] /\ rpc' = rpc
    BY DEF LoadSegment
  <1>9. Cutoff(config[r], entries) => a # None /\ After(Seg(gidx[r]), a) = {}
    BY <1>7 DEF Cutoff
  <1>10. Oldest(gidx[r]) <=> gidx[r] = 0
    BY DEF Oldest
  <1> HIDE DEF t, entries
  <1>11. /\ Len(all) = Len(collected[r]) + Len(t) /\ Len(all) \in Nat
         /\ Len(collected[r]) \in Nat /\ Len(t) \in Nat
    BY <1>4, <1>7, ToSetConcat
  <1>12. /\ n # None => Len(collected[r]) + Len(t) <= n
         /\ n # None /\ Len(collected[r]) + Len(t) # n => Len(t) < need
         /\ enough => n # None /\ Len(collected[r]) + Len(t) = n
         /\ ~enough => (n # None => Len(collected[r]) + Len(t) < n)
    <2> HIDE DEF all
    <2> QED BY <1>2, <1>3, <1>5, <1>7, <1>11
  <1>13. \/ ToSet(t) = After(Seg(gidx[r]), a)
         \/ n # None /\ Len(collected[r]) + Len(t) = n
    <2> HIDE DEF need
    <2> QED BY <1>5, <1>7, <1>12
  <1>14. \/ /\ rpc' = [rpc EXCEPT ![r] = "done"] /\ gidx' = gidx
            /\ \/ gidx[r] = 0
               \/ n # None /\ Len(collected[r]) + Len(t) = n
               \/ a # None /\ After(Seg(gidx[r]), a) = {}
         \/ /\ rpc' = rpc /\ gidx' = [gidx EXCEPT ![r] = gidx[r] - 1] /\ gidx[r] # 0
            /\ n # None => Len(collected[r]) + Len(t) < n
    <2> HIDE DEF enough, need, all
    <2> QED BY <1>8, <1>9, <1>10, <1>12
  <1> HIDE DEF need
  <1> QED BY <1>7, <1>8, <1>12, <1>13, <1>14

LEMMA LoadStep ==
    ASSUME ReadInv, NEW r \in Readers, LoadSegment(r)
    PROVE  HTypeOK' /\ ReaderInv(r)'
  <1> DEFINE n == config[r].recent
             a == config[r].after
  <1>1. PICK t \in Seq(Keys) :
              /\ collected' = [collected EXCEPT ![r] = collected[r] \o t]
              /\ ToSet(t) \subseteq Seg(gidx[r]) /\ Descending(t)
              /\ n # None => Len(collected[r]) + Len(t) <= n
              /\ a = None => ToSet(t) = Seg(gidx[r]) \/ (n # None /\ Len(collected[r]) + Len(t) = n)
              /\ \/ /\ rpc' = [rpc EXCEPT ![r] = "done"] /\ gidx' = gidx
                    /\ a = None => gidx[r] = 0 \/ (n # None /\ Len(collected[r]) + Len(t) = n)
                 \/ /\ rpc' = rpc /\ gidx' = [gidx EXCEPT ![r] = gidx[r] - 1] /\ gidx[r] # 0
                    /\ n # None => Len(collected[r]) + Len(t) < n
    BY LoadFacts, AfterFacts
  <1>2. UNCHANGED <<vars, config, tsBin, acked>> /\ rpc[r] = "walk"
    BY DEF LoadSegment
  <1>3. /\ collected[r] \in Seq(Keys) /\ gidx[r] \in Nat /\ cur \in Nat
        /\ config[r] \in Configs /\ gidx[r] <= cur
    BY <1>2 DEF ReadInv, HTypeOK, TypeOK, DbOK, ReaderInv, Reading
  <1>4. /\ collected'[r] = collected[r] \o t /\ collected'[r] \in Seq(Keys)
        /\ Len(collected'[r]) = Len(collected[r]) + Len(t)
        /\ ToSet(collected'[r]) = ToSet(collected[r]) \cup ToSet(t)
    BY <1>1, <1>3, ToSetConcat DEF ReadInv, HTypeOK
  <1>5. HTypeOK'
    <2>1. TypeOK'
      BY <1>2 DEF ReadInv, HTypeOK, TypeOK, DbOK, TaskOK, vars, db, taskVars
    <2>2. gidx' \in [Readers -> Nat]
      BY <1>1, <1>3 DEF ReadInv, HTypeOK
    <2>3. collected' \in [Readers -> Seq(Keys)]
      BY <1>1, <1>4 DEF ReadInv, HTypeOK
    <2>4. rpc' \in [Readers -> {"idle", "opened", "walk", "done", "failed"}]
      BY <1>1 DEF ReadInv, HTypeOK
    <2> QED BY <1>2, <2>1, <2>2, <2>3, <2>4 DEF ReadInv, HTypeOK
  <1>6. config'[r] = config[r] /\ acked'[r] = acked[r] /\ cur' = cur /\ stored' = stored
    BY <1>2 DEF vars, db
  <1>7. EventsRead(r)' = EventsRead(r) \cup {k[2] : k \in ToSet(t)}
    BY <1>4 DEF EventsRead
  <1>8. a = None => acked[r] \subseteq EventsRead(r) \cup Ahead(r)
    BY <1>2 DEF ReadInv, ReaderInv, Reading
  \* What lay ahead was read now, or lies in an older segment.
  <1>9. ASSUME a = None, ToSet(t) = Seg(gidx[r])
        PROVE  \A e \in Ahead(r) : \/ e \in EventsRead(r)'
                                   \/ \E p \in stored : p[1] < gidx[r] /\ p[2][2] = e
    <2> TAKE e \in Ahead(r)
    <2>1. PICK p \in stored : p[1] <= gidx[r] /\ p[2][2] = e
      BY DEF Ahead
    <2>2. p = <<p[1], p[2]>> /\ p[1] \in Nat /\ p[2] \in Keys
      BY DEF ReadInv, HTypeOK, TypeOK, DbOK
    <2>3. CASE p[1] = gidx[r]
      <3>1. p[2] \in Seg(gidx[r])
        BY <2>2, <2>3 DEF Seg
      <3> QED BY <1>7, <1>9, <2>1, <3>1
    <2>4. CASE p[1] # gidx[r]
      BY <1>3, <2>1, <2>2, <2>4
    <2> QED BY <2>3, <2>4
  <1>10. CASE rpc' = [rpc EXCEPT ![r] = "done"] /\ gidx' = gidx
    <2>1. rpc'[r] = "done"
      BY <1>10 DEF ReadInv, HTypeOK
    <2>2. a = None => acked[r] \subseteq EventsRead(r)' \/ (n # None /\ Len(collected'[r]) = n)
      <3>1. ASSUME a = None, ~(n # None /\ Len(collected'[r]) = n)
            PROVE  acked[r] \subseteq EventsRead(r)'
        <4>1. ToSet(t) = Seg(gidx[r]) /\ gidx[r] = 0
          BY <1>1, <1>2, <1>4, <1>10, <2>1, <3>1
        <4>2. \A p \in stored : ~(p[1] < 0)
          BY DEF ReadInv, HTypeOK, TypeOK, DbOK
        <4> QED BY <1>7, <1>8, <1>9, <3>1, <4>1, <4>2
      <3> QED BY <3>1
    <2> QED BY <1>1, <1>3, <1>4, <1>5, <1>6, <2>1, <2>2 DEF ReaderInv, Reading, Done
  <1>11. CASE /\ rpc' = rpc /\ gidx' = [gidx EXCEPT ![r] = gidx[r] - 1] /\ gidx[r] # 0
              /\ n # None => Len(collected[r]) + Len(t) < n
    <2>1. rpc'[r] = "walk" /\ gidx'[r] = gidx[r] - 1 /\ gidx'[r] <= cur
      BY <1>2, <1>3, <1>11 DEF ReadInv, HTypeOK
    <2>2. a = None => acked[r] \subseteq EventsRead(r)' \cup Ahead(r)'
      <3>1. ASSUME a = None PROVE acked[r] \subseteq EventsRead(r)' \cup Ahead(r)'
        <4>1. ToSet(t) = Seg(gidx[r])
          <5>1. n # None => Len(collected[r]) + Len(t) # n
            <6>1. Len(collected[r]) + Len(t) \in Nat
              BY <1>3
            <6> QED BY <1>3, <1>11, <6>1, ReadersAssumption
          <5> QED BY <1>1, <3>1, <5>1
        <4>2. \A p \in stored : p[1] < gidx[r] => p[1] <= gidx'[r]
          BY <1>3, <2>1 DEF ReadInv, HTypeOK, TypeOK, DbOK
        <4>3. \A e \in Ahead(r) : e \in EventsRead(r)' \/ e \in Ahead(r)'
          BY <1>6, <1>9, <3>1, <4>1, <4>2 DEF Ahead
        <4> QED BY <1>7, <1>8, <3>1, <4>3
      <3> QED BY <3>1
    <2> QED BY <1>3, <1>4, <1>5, <1>6, <1>11, <2>1, <2>2 DEF ReaderInv, Reading, Done
  <1> QED BY <1>1, <1>10, <1>11

\* A read that raises counts as a fault of the process.
LEMMA FailStep ==
    ASSUME ReadInv, NEW r \in Readers, ReadFails(r)
    PROVE  HTypeOK' /\ ReaderInv(r)' /\ SafetyInv'
  <1>1. /\ UNCHANGED <<db, cache, taskVars, late, outcome>>
        /\ UNCHANGED <<config, gidx, tsBin, collected, acked>>
        /\ Reading(r) /\ CountFault /\ rpc' = [rpc EXCEPT ![r] = "failed"]
    BY DEF ReadFails
  <1>2. faults' \in 0..MaxFaults /\ faults' >= faults
    BY <1>1, ConstantsAssumption DEF ReadInv, HTypeOK, TypeOK, CountFault
  <1>3. TypeOK'
    BY <1>1, <1>2 DEF ReadInv, HTypeOK, TypeOK, DbOK, TaskOK, db, taskVars
  <1>4. HTypeOK'
    BY <1>1, <1>3 DEF ReadInv, HTypeOK
  <1>5. SafetyInv'
    <2>1. TypeInv'
      BY <1>1, <1>3 DEF ReadInv, SafetyInv, TypeInv, TaskInv, taskVars
    <2>2. Grows
      BY <1>1, <1>2 DEF Grows, db, ReadInv, HTypeOK, TypeOK, DbOK
    <2>3. ASSUME NEW u \in Tasks PROVE LocalInv(u)'
      BY <1>1, <2>1, <2>2, LocalStable DEF taskVars, ReadInv, SafetyInv
    <2>4. ServerInv'
      BY <1>1 DEF ReadInv, SafetyInv, ServerInv, RecordInv, CacheInv, LateInv, Accepts, Seg, db
    <2>5. ASSUME NEW d \in Events PROVE Told(d)'
      BY <1>1, <2>1, <2>2, OutcomeStable DEF ReadInv, SafetyInv, OutcomeInv
    <2> QED BY <2>1, <2>3, <2>4, <2>5 DEF SafetyInv, OutcomeInv
  <1>6. rpc'[r] = "failed" /\ rpc[r] # "idle" /\ config'[r] = config[r]
    BY <1>1 DEF ReadInv, HTypeOK, Reading
  <1> QED BY <1>4, <1>5, <1>6, ReaderFails DEF ReadInv

-----------------------------------------------------------------------------
(* The inductive invariant.                                                *)

LEMMA ReadInit == HInit => ReadInv
  <1> SUFFICES ASSUME HInit PROVE ReadInv
    OBVIOUS
  <1>1. SafetyInv /\ TypeOK
    BY SafetyInit DEF HInit, SafetyInv, TypeInv
  <1>2. IsFiniteSet(stored)
    BY FS_EmptySet DEF HInit, Init
  <1>3. HTypeOK
    <2>1. <<>> \in Seq(Keys)
      OBVIOUS
    <2> QED BY <1>1, <2>1 DEF HInit, HTypeOK
  <1>4. \A r \in Readers : ReaderInv(r)
    BY DEF HInit, ReaderInv, Reading, Done
  <1> QED BY <1>1, <1>2, <1>3, <1>4 DEF ReadInv

\* The steps of HNext, by what they do to the readers.
LEMMA HNextSplits ==
    ASSUME [HNext]_hvars
    PROVE  \/ [Next]_vars /\ UNCHANGED readerVars
           \/ \E p \in Procs : Crash(p) /\ ReadersDie(p)
           \/ \E r \in Readers, c \in Configs : OpenSession(r, c)
           \/ \E r \in Readers : SeedCache(r) \/ LoadSegment(r) \/ ReadFails(r)
  BY DEF HNext, Next, hvars, ReaderStep

\* A step of one reader leaves the others alone.
LEMMA ReaderLocal ==
    ASSUME HTypeOK, NEW r \in Readers, NEW u \in Readers, u # r,
           \/ \E c \in Configs : OpenSession(r, c)
           \/ SeedCache(r) \/ LoadSegment(r) \/ ReadFails(r)
    PROVE  /\ rpc'[u] = rpc[u] /\ config'[u] = config[u] /\ gidx'[u] = gidx[u]
           /\ collected'[u] = collected[u] /\ acked'[u] = acked[u] /\ UNCHANGED db
  BY DEF HTypeOK, OpenSession, SeedCache, LoadSegment, ReadFails, vars

LEMMA ReadNext == ReadInv /\ [HNext]_hvars => ReadInv'
  <1> SUFFICES ASSUME ReadInv, [HNext]_hvars PROVE ReadInv'
    OBVIOUS
  <1>1. CASE [Next]_vars /\ UNCHANGED readerVars
    <2>1. SafetyInv' /\ More
      BY <1>1, SafetyNext, NextMore DEF ReadInv
    <2>2. HTypeOK'
      BY <1>1, <2>1 DEF ReadInv, HTypeOK, SafetyInv, TypeInv, readerVars
    <2>3. IsFiniteSet(stored')
      BY <2>1, FS_AddElement DEF More, ReadInv
    <2>4. ASSUME NEW u \in Readers PROVE ReaderInv(u)'
      BY <1>1, <2>1, <2>2, ReaderStable DEF readerVars, ReadInv
    <2> QED BY <2>1, <2>2, <2>3, <2>4 DEF ReadInv
  <1>2. ASSUME NEW p \in Procs, Crash(p), ReadersDie(p) PROVE ReadInv'
    <2>1. SafetyInv' /\ More
      BY <1>2, SafetyNext, NextMore DEF ReadInv, Next
    <2>2. HTypeOK'
      BY <1>2, <2>1 DEF ReadInv, HTypeOK, SafetyInv, TypeInv, ReadersDie
    <2>3. IsFiniteSet(stored')
      BY <2>1, FS_AddElement DEF More, ReadInv
    <2>4. ASSUME NEW u \in Readers PROVE ReaderInv(u)'
      <3>1. /\ config'[u] = config[u] /\ gidx'[u] = gidx[u]
            /\ collected'[u] = collected[u] /\ acked'[u] = acked[u]
            /\ \/ rpc'[u] = rpc[u]
               \/ rpc[u] # "idle" /\ rpc'[u] = "failed"
        BY <1>2 DEF ReadersDie, Reading
      <3> QED BY <2>1, <2>2, <3>1, ReaderStable, ReaderFails DEF ReadInv
    <2> QED BY <2>1, <2>2, <2>3, <2>4 DEF ReadInv
  <1>3. ASSUME NEW r \in Readers,
               HTypeOK', SafetyInv', ReaderInv(r)',
               \/ \E c \in Configs : OpenSession(r, c)
               \/ SeedCache(r) \/ LoadSegment(r) \/ ReadFails(r)
        PROVE  ReadInv'
    <2>1. UNCHANGED db
      BY <1>3 DEF OpenSession, SeedCache, LoadSegment, ReadFails, vars
    <2>2. More /\ IsFiniteSet(stored')
      BY <2>1 DEF db, More, ReadInv, HTypeOK, TypeOK, DbOK
    <2>3. ASSUME NEW u \in Readers, u # r PROVE ReaderInv(u)'
      BY <1>3, <2>2, <2>3, ReaderLocal, ReaderStable DEF ReadInv
    <2> QED BY <1>3, <2>2, <2>3 DEF ReadInv
  <1>4. ASSUME NEW r \in Readers, NEW c \in Configs, OpenSession(r, c) PROVE ReadInv'
    <2>1. SafetyInv'
      BY <1>4, SafetyNext DEF OpenSession, ReadInv
    <2> QED BY <1>3, <1>4, <2>1, OpenStep
  <1>5. ASSUME NEW r \in Readers, LoadSegment(r) PROVE ReadInv'
    <2>1. SafetyInv'
      BY <1>5, SafetyNext DEF LoadSegment, ReadInv
    <2> QED BY <1>3, <1>5, <2>1, LoadStep
  <1>6. ASSUME NEW r \in Readers, SeedCache(r) \/ ReadFails(r) PROVE ReadInv'
    BY <1>3, <1>6, SeedStep, FailStep
  <1> QED BY <1>1, <1>2, <1>4, <1>5, <1>6, HNextSplits

LEMMA ReadCorrect == HSpec => []ReadInv
  BY ReadInit, ReadNext, PTL DEF HSpec

-----------------------------------------------------------------------------
(* The theorems.                                                           *)

\* Every variable of the read path keeps its type, whatever appends, failures
\* and crashes go on beside it; a walk never goes below segment 0.
THEOREM HistoryTypes == HSpec => []HTypeOK
  <1>1. ReadInv => HTypeOK
    BY DEF ReadInv
  <1> QED BY <1>1, ReadCorrect, PTL

\* get_session without filters returns every event whose append_event had
\* returned when it began, whatever rollovers and failures meet it on its way.
THEOREM FullReadsComplete == HSpec => []FullReadSeesAcked
  <1>1. ReadInv => FullReadSeesAcked
    BY DEF ReadInv, ReaderInv, FullReadSeesAcked, Plain
  <1> QED BY <1>1, ReadCorrect, PTL

\* get_session with num_recent_events returns that many events, or every one
\* that had been appended, however they are spread over the segments.
THEOREM RecentReadsFull == HSpec => []RecentReadFull
  <1>1. ReadInv => RecentReadFull
    BY DEF ReadInv, ReaderInv, RecentReadFull
  <1> QED BY <1>1, ReadCorrect, PTL

-----------------------------------------------------------------------------
(* Order.  One process, one operation at a time, appends in the order of   *)
(* the timestamps, which differ: then segments are in order too.           *)

\* Every slot that holds an event, or may yet come to, is in 0..n.
Below(n) == \A m \in Nat : \A k \in Keys : MayHold(m, k) => m <= n

\* Labels at which the segment of a task is the one that its process caches.
Settled == {"put", "size", "roll", "reread", "reply", "batch"}

AloneInv ==
    /\ \A t, u \in Tasks : pc[t] # "idle" /\ pc[u] # "idle" => t = u
    /\ \A t \in Tasks, r \in Readers : pc[t] # "idle" => ~Reading(r)

\* Whatever was appended is older than what was not, and the event in hand is
\* the newest.
TimeInv ==
    /\ \A d, e \in Events : outcome[d] # "new" /\ Ts[e] < Ts[d] => outcome[e] # "new"
    /\ \A t \in Tasks : pc[t] # "idle" =>
          \A e \in Events : outcome[e] # "new" => Ts[e] <= Ts[key[t][2]]

\* Newer events are in no older segments.
SlotOrder ==
    \A n, m \in Nat : \A j, k \in Keys :
        MayHold(n, j) /\ MayHold(m, k) /\ Newer(j, k) => n >= m

\* Where the next event will go lies above all that is there.
TopInv ==
    /\ \A p \in Procs : cache[p] # None => Below(cache[p])
    /\ \A t \in Tasks : pc[t] \in Settled => cache[Host[t]] = at[t]
    /\ \A t \in Tasks : pc[t] \in {"selected", "rolled"} => Below(at[t])
    /\ \A r \in Readers : rpc[r] = "opened" => Below(gidx[r])

OrderInv == OnceInv /\ AloneInv /\ TimeInv /\ SlotOrder /\ TopInv

\* The events that r has read are in order, and from segments above gidx.
WalkOrder(r) ==
    /\ Descending(collected[r])
    /\ rpc[r] = "walk" =>
          \A k \in ToSet(collected[r]) : \E n \in Nat : n > gidx[r] /\ <<n, k>> \in stored

\* How the caller uses the session.
Sequential ==
    /\ Exclusive /\ InOrder /\ ~Resend
    /\ \A p, q \in Procs : p = q
    /\ \A e \in Events : Ts[e] # 0
    /\ \A d, e \in Events : Ts[d] = Ts[e] => d = e

\* Keys are then ordered by the timestamps of their events.
LEMMA KeyTime ==
    ASSUME Sequential
    PROVE  /\ \A k \in Keys : k[1] = Ts[k[2]] /\ k[1] \in Nat
           /\ \A j, k \in Keys : Newer(j, k) => Ts[j[2]] > Ts[k[2]]
  <1>1. \A e \in Events : \A k \in event_map_key(e) : k[1] = Ts[k[2]]
    BY DEF Sequential, event_map_key
  <1>2. \A k \in Keys : k[1] = Ts[k[2]] /\ k[1] \in Nat /\ k[2] \in Events
    BY <1>1, KeyFacts DEF Keys
  <1>3. ASSUME NEW j \in Keys, NEW k \in Keys, Newer(j, k) PROVE Ts[j[2]] > Ts[k[2]]
    <2>1. CASE j[1] > k[1]
      BY <1>2, <2>1
    <2>2. CASE j[1] = k[1] /\ j[2] > k[2]
      <3>0. Ts[j[2]] = Ts[k[2]] /\ j[2] \in Events /\ k[2] \in Events
        BY <1>2, <2>2
      <3>1. j[2] = k[2] /\ j[2] \in Nat
        BY <3>0, ReadersAssumption DEF Sequential
      <3> QED BY <2>2, <3>1
    <2> QED BY <1>3, <2>1, <2>2 DEF Newer
  <1> QED BY <1>2, <1>3

\* No slot is above cur.
LEMMA BelowCur == SafetyInv => Below(cur)
  <1> SUFFICES ASSUME SafetyInv, NEW m \in Nat, NEW k \in Keys, MayHold(m, k) PROVE m <= cur
    BY DEF Below
  <1>1. CASE <<m, k>> \in stored
    BY <1>1 DEF SafetyInv, ServerInv, RecordInv
  <1>2. CASE \E q \in late : q.rec = "seg" /\ q.n = m /\ q.key = k
    BY <1>2 DEF SafetyInv, ServerInv, LateInv
  <1>3. CASE \E t \in Tasks : at[t] = m
    BY <1>3 DEF SafetyInv, LocalInv
  <1> QED BY <1>1, <1>2, <1>3 DEF MayHold

\* A step that opens no slot keeps order and bounds.
LEMMA ShrinkKeeps ==
    ASSUME Shrinks
    PROVE  /\ SlotOrder => SlotOrder'
           /\ \A n \in Nat : Below(n) => Below(n)'
  BY DEF Shrinks, SlotOrder, Below

\* The slot <<h, l>> opens, for the newest event, above all others.
LEMMA OpenKeeps ==
    ASSUME Sequential, OnceInv, SlotOrder, NEW h \in Nat, NEW l \in Keys, Below(h),
           \A n \in Nat : \A k \in Keys : MayHold(n, k)' => MayHold(n, k) \/ (n = h /\ k = l),
           \A e \in Events : outcome[e] # "new" => Ts[e] <= Ts[l[2]]
    PROVE  SlotOrder' /\ Below(h)'
  <1>1. Below(h)'
    BY DEF Below
  <1>2. ASSUME NEW m \in Nat, NEW k \in Keys, MayHold(m, k)
        PROVE  m <= h /\ ~Newer(k, l)
    <2>1. m <= h
      BY <1>2 DEF Below
    <2>2. k[2] \in Events /\ l[2] \in Events
      BY KeyFacts
    <2>3. outcome[k[2]] # "new"
      BY <1>2, <2>2 DEF OnceInv, Nowhere
    <2>4. Ts[k[2]] <= Ts[l[2]] /\ Ts[k[2]] \in Nat /\ Ts[l[2]] \in Nat
      BY <2>2, <2>3, ConstantsAssumption
    <2>5. ~(Ts[k[2]] > Ts[l[2]])
      BY <2>4
    <2> QED BY <2>1, <2>5, KeyTime
  <1>3. ~Newer(l, l)
    BY NewerOrder
  <1>4. ASSUME NEW n \in Nat, NEW m \in Nat, NEW j \in Keys, NEW k \in Keys,
               MayHold(n, j)', MayHold(m, k)', Newer(j, k)
        PROVE  n >= m
    <2>1. MayHold(n, j) \/ (n = h /\ j = l)
      BY <1>4
    <2>2. MayHold(m, k) \/ (m = h /\ k = l)
      BY <1>4
    <2> QED BY <1>2, <1>3, <1>4, <2>1, <2>2 DEF SlotOrder
  <1>5. SlotOrder'
    BY <1>4 DEF SlotOrder, Newer
  <1> QED BY <1>1, <1>5

-----------------------------------------------------------------------------
(* Steps of an append.                                                     *)

\* Where a step of task t goes on: it caches the segment it writes to next, and
\* a segment that it has yet to cache is cur.
Aim(t) ==
    /\ cache' = cache \/ (SetCache(t) /\ pc[t] \notin {"idle", "select"})
    /\ pc'[t] \in {"selected", "rolled"} => at'[t] = cur'
    /\ pc'[t] \in Settled =>
          \/ pc[t] \in {"selected", "rolled"} /\ SetCache(t) /\ at'[t] = at[t]
          \/ /\ pc[t] \in Settled /\ cache' = cache /\ at'[t] = at[t]
             /\ Writing(t)' => Writing(t)

LEMMA StepAim ==
    ASSUME TypeInv, NEW t \in Tasks, Step(t)
    PROVE  Aim(t)
  <1> USE DEF TypeInv, TypeOK, TaskOK, Settled, Writing
  <1>f. ASSUME NEW o, Finish(t, o),
               cache' = cache \/ (SetCache(t) /\ pc[t] \notin {"idle", "select"})
        PROVE  Aim(t)
    <2>1. pc'[t] = "idle"
      BY <1>f DEF Finish
    <2> QED BY <1>f, <2>1 DEF Aim
  <1>1. CASE CurrentSegmentRead(t)
    BY <1>1 DEF CurrentSegmentRead, Move, Aim, db
  <1>2. CASE CurrentSegmentCached(t)
    BY <1>2 DEF CurrentSegmentCached, Move, Aim, FirstWrite
  <1>3. CASE PutOk(t)
    BY <1>3 DEF PutOk, Move, Aim
  <1>4. CASE PutReply(t)
    BY <1>4, <1>f DEF PutReply
  <1>5. CASE PutTooBig(t)
    BY <1>5 DEF PutTooBig, Move, Aim
  <1>6. CASE SegmentSize(t)
    <2>1. CASE Finish(t, "toobig")
      BY <1>6, <1>f, <2>1 DEF SegmentSize
    <2>2. CASE Move(t, "roll", at[t])
      BY <1>6, <2>2 DEF SegmentSize, Move, Aim
    <2> QED BY <1>6, <2>1, <2>2 DEF SegmentSize
  <1>7. CASE RollBump(t)
    BY <1>7 DEF RollBump, CurBump, Move, Aim
  <1>8. CASE RollFiltered(t) \/ RollReread(t)
    BY <1>8 DEF RollFiltered, RollReread, Move, Aim, db
  <1>9. CASE RollDone(t)
    <2>1. CASE Finish(t, "diverged")
      BY <1>9, <1>f, <2>1 DEF RollDone
    <2>2. CASE Move(t, "put", at[t])
      BY <1>9, <2>2 DEF RollDone, Move, Aim
    <2> QED BY <1>9, <2>1, <2>2 DEF RollDone
  <1>10. CASE WriteFault(t) \/ BatchFault(t) \/ BatchRetry(t)
    <2>0. pc[t] \in {"put", "roll", "batch"} /\ cache' = cache
      BY <1>10 DEF WriteFault, BatchFault, BatchRetry, Answered
    <2>1. CASE TryAgain(t)
      BY <2>0, <2>1 DEF TryAgain, Aim
    <2> QED BY <1>10, <1>f, <2>0, <2>1 DEF WriteFault, BatchFault, BatchRetry
  <1>11. CASE \E r \in Records : BatchWrite(t, r) \/ BatchRecordFault(t, r)
    <2>1. pc' = pc /\ at' = at /\ cache' = cache /\ pc[t] = "batch"
      BY <1>11 DEF BatchWrite, BatchRecordFault
    <2> QED BY <2>1 DEF Aim
  <1>12. CASE BatchAck(t)
    BY <1>12, <1>f DEF BatchAck, BatchReturns, Answered
  <1>13. CASE BatchError(t) \/ CallFails(t)
    <2>1. cache' = cache /\ \E o \in {"transient", "error"} : Finish(t, o)
      BY <1>13 DEF BatchError, CallFails
    <2> QED BY <2>1, <1>f
  <1>14. CASE BatchOverflow(t)
    BY <1>14 DEF BatchOverflow, BatchReturns, Answered, Move, Aim
  <1> QED BY <1>1, <1>2, <1>3, <1>4, <1>5, <1>6, <1>7, <1>8, <1>9, <1>10,
             <1>11, <1>12, <1>13, <1>14 DEF Step

\* The event in hand is the newest of those appended, and stays it.
LEMMA TimeStep ==
    ASSUME SafetyInv, OnceInv, AloneInv, TimeInv, NEW t \in Tasks, Step(t),
           UNCHANGED readerVars
    PROVE  AloneInv' /\ TimeInv'
  <1>1. key[t] \in Keys /\ pc[t] # "idle" /\ key[t][2] \in Events /\ Control(t)
    BY StepEffects, StepControl, KeyFacts DEF SafetyInv
  <1>2. \A u \in Tasks : u # t => pc'[u] = pc[u] /\ key'[u] = key[u]
    BY StepIsLocal DEF SafetyInv
  <1>3. \A u \in Tasks : pc'[u] # "idle" => pc[u] # "idle" /\ key'[u] = key[u]
    BY <1>1, <1>2 DEF Control
  <1>4. AloneInv'
    BY <1>3 DEF AloneInv, Reading, readerVars
  <1>5. outcome[key[t][2]] = "pending"
    BY <1>1 DEF OnceInv
  <1>6. \A e \in Events : outcome'[e] # "new" <=> outcome[e] # "new"
    BY <1>1, <1>5 DEF Control, SafetyInv, TypeInv, TypeOK
  <1>7. TimeInv'
    BY <1>3, <1>6 DEF TimeInv
  <1> QED BY <1>4, <1>7

LEMMA OrderStep ==
    ASSUME Sequential, SafetyInv, SafetyInv', OrderInv, OnceInv', Grows,
           NEW t \in Tasks, Step(t), UNCHANGED readerVars
    PROVE  OrderInv'
  <1>1. key[t] \in Keys /\ pc[t] # "idle" /\ at[t] \in Nat /\ Host[t] \in Procs
    BY StepEffects, ConstantsAssumption DEF SafetyInv, TypeInv, TypeOK, TaskOK
  <1>2. \A u \in Tasks : u # t => pc'[u] = "idle"
    BY <1>1, StepIsLocal DEF OrderInv, AloneInv, SafetyInv
  <1>3. \A r \in Readers : rpc'[r] # "opened"
    BY <1>1 DEF OrderInv, AloneInv, Reading, readerVars
  <1>4. AloneInv' /\ TimeInv'
    BY TimeStep DEF OrderInv
  <1>5. Control(t) /\ Aim(t)
    BY StepControl, StepAim DEF SafetyInv
  <1>6. \A p \in Procs : p = Host[t]
    BY <1>1 DEF Sequential
  <1>7. cache \in [Procs -> Nat \cup {None}] /\ None \notin Nat
    BY ConstantsAssumption DEF SafetyInv, TypeInv, TypeOK
  <1>8. /\ cache[Host[t]] # None => Below(cache[Host[t]])
        /\ pc[t] \in Settled => cache[Host[t]] = at[t]
        /\ pc[t] \in {"selected", "rolled"} => Below(at[t])
    BY <1>1 DEF OrderInv, TopInv
  <1>9. pc[t] \notin {"idle", "select"} => Below(at[t])
    BY <1>1, <1>7, <1>8 DEF Settled, SafetyInv, TypeInv, TypeOK, TaskOK, Labels
  <1>10. Below(cur)'
    BY BelowCur, PTL
  <1>11. pc'[t] \in Settled => cache'[Host[t]] = at'[t]
    BY <1>1, <1>5, <1>7, <1>8 DEF Aim, SetCache
  <1>12. pc'[t] \in {"selected", "rolled"} => Below(at[t])'
    BY <1>5, <1>10 DEF Aim, Below
  <1>13. CASE Writing(t)' /\ Seeking(t)
    <2>1. /\ key'[t] = key[t] /\ at'[t] = at[t] /\ SetCache(t)
          /\ pc[t] \in {"selected", "rolled"}
      BY <1>5, <1>13 DEF Control, Aim, Writing, Seeking, Settled
    <2>2. GrowsAt(t)
      BY StepSlots DEF SafetyInv
    <2>3. \A e \in Events : outcome[e] # "new" => Ts[e] <= Ts[key[t][2]]
      BY <1>1 DEF OrderInv, TimeInv
    <2>4. \A n \in Nat : \A k \in Keys :
            MayHold(n, k)' => MayHold(n, k) \/ (n = at[t] /\ k = key[t])
      BY <2>1, <2>2 DEF GrowsAt
    <2>5. ASSUME NEW h \in Nat, NEW l \in Keys, h = at[t], l = key[t]
          PROVE  SlotOrder' /\ Below(h)'
      <3>1. Below(h)
        BY <1>8, <2>1, <2>5
      <3> QED BY <2>3, <2>4, <2>5, <3>1, OpenKeeps DEF OrderInv
    <2>6. ASSUME NEW h \in Nat, h = at[t]
          PROVE  Below(h)' /\ SlotOrder' /\ cache'[Host[t]] = h
      BY <1>1, <1>7, <2>1, <2>5, <2>6 DEF SetCache
    <2>7. TopInv'
      <3>1. ASSUME NEW p \in Procs PROVE Below(cache[p])'
        BY <1>1, <1>6, <2>6 DEF Below
      <3>2. pc'[t] \notin {"selected", "rolled"}
        BY <1>13 DEF Writing
      <3> QED BY <1>2, <1>3, <1>11, <3>1, <3>2 DEF TopInv, Settled
    <2> QED BY <1>1, <1>4, <2>6, <2>7 DEF OrderInv
  <1>14. CASE ~(Writing(t)' /\ Seeking(t))
    <2>1. Shrinks
      <3>1. Writing(t)' => Writing(t) /\ at'[t] = at[t] /\ key'[t] = key[t]
        BY <1>5, <1>14 DEF Control, Writing
      <3> QED BY <3>1, StepSlots DEF SafetyInv
    <2>2. SlotOrder' /\ \A h \in Nat : Below(h) => Below(h)'
      BY <2>1, ShrinkKeeps DEF OrderInv
    <2>3. ASSUME NEW p \in Procs, cache'[p] # None PROVE Below(cache[p])'
      <3>1. ASSUME NEW h \in Nat, h = cache'[p] PROVE Below(h)'
        <4>1. h = cache[p] \/ (h = at[t] /\ pc[t] \notin {"idle", "select"})
          BY <1>1, <1>5, <1>6, <1>7, <3>1 DEF Aim, SetCache
        <4>2. p = Host[t]
          BY <1>6
        <4> QED BY <1>7, <1>8, <1>9, <2>2, <4>1, <4>2
      <3>2. cache'[p] \in Nat
        BY <2>3 DEF SafetyInv, TypeInv, TypeOK
      <3> QED BY <3>1, <3>2 DEF Below
    <2> QED BY <1>2, <1>3, <1>4, <1>11, <1>12, <2>2, <2>3 DEF OrderInv, TopInv, Settled
  <1> QED BY <1>13, <1>14

\* A new append: nothing else runs, and its event is newer than all before.
LEMMA OrderStart ==
    ASSUME Sequential, SafetyInv, SafetyInv', OrderInv, OnceInv',
           NEW t \in Tasks, NEW e \in Events, MayStart, StartAppend(t, e),
           UNCHANGED readerVars
    PROVE  OrderInv'
  <1>1. Quiet /\ outcome[e] = "new" /\ Host[t] \in Procs
    BY ConstantsAssumption DEF Sequential, MayStart, StartAppend, MayAppend
  <1>2. \A d \in Events : Ts[d] < Ts[e] => outcome[d] # "new"
    BY DEF Sequential, StartAppend, MayAppend
  <1>3. \A d \in Events : outcome'[d] # "new" <=> d = e \/ outcome[d] # "new"
    BY DEF StartAppend, SafetyInv, TypeInv, TypeOK
  <1>4. \A d \in Events : Ts[d] \in Nat
    BY ConstantsAssumption
  <1>5. \A d \in Events : outcome[d] # "new" => Ts[d] <= Ts[e]
    BY <1>1, <1>4 DEF OrderInv, TimeInv
  <1>6. \A u \in Tasks : u # t => pc'[u] = "idle"
    BY <1>1 DEF Quiet, StartAppend, SafetyInv, TypeInv, TypeOK, TaskOK
  <1>7. PICK k \in event_map_key(e) : key' = [key EXCEPT ![t] = k]
    BY DEF StartAppend
  <1>8. key'[t] = k /\ k \in Keys /\ k[2] = e
    BY <1>7, KeyFacts DEF SafetyInv, TypeInv, TypeOK, TaskOK
  <1>9. AloneInv'
    BY <1>1, <1>6 DEF AloneInv, Quiet, Reading, readerVars
  <1>10. TimeInv'
    <2>1. ASSUME NEW c \in Events, NEW d \in Events, outcome'[d] # "new", Ts[c] < Ts[d]
          PROVE  outcome'[c] # "new"
      BY <1>2, <1>3, <2>1 DEF OrderInv, TimeInv
    <2>2. ASSUME NEW d \in Events, outcome'[d] # "new" PROVE Ts[d] <= Ts[e]
      BY <1>3, <1>4, <1>5, <2>2
    <2> QED BY <1>6, <1>8, <2>1, <2>2 DEF TimeInv
  <1>11. \A r \in Readers : rpc'[r] # "opened"
    BY <1>1 DEF Quiet, Reading, readerVars
  <1>12. cache' = cache /\ cache \in [Procs -> Nat \cup {None}] /\ None \notin Nat
    BY ConstantsAssumption DEF StartAppend, SafetyInv, TypeInv, TypeOK
  <1>13. \A p \in Procs : p = Host[t]
    BY <1>1 DEF Sequential
  <1>14. CASE cache[Host[t]] # None
    <2>1. pc'[t] \in {"put", "batch"} /\ at'[t] = cache[Host[t]] /\ cache[Host[t]] \in Nat
      BY <1>1, <1>12, <1>14 DEF StartAppend, FirstWrite, SafetyInv, TypeInv, TypeOK, TaskOK
    <2>2. \A n \in Nat : \A l \in Keys :
            MayHold(n, l)' => MayHold(n, l) \/ (n = cache[Host[t]] /\ l = k)
      BY <1>8, <2>1, StartSlots DEF GrowsAt
    <2>3. ASSUME NEW h \in Nat, h = cache[Host[t]] PROVE SlotOrder' /\ Below(h)'
      <3>1. Below(h)
        BY <1>1, <1>14, <2>3 DEF OrderInv, TopInv
      <3> QED BY <1>5, <1>8, <2>2, <2>3, <3>1, OpenKeeps DEF OrderInv
    <2>4. ASSUME NEW p \in Procs PROVE Below(cache[p])'
      BY <1>12, <1>13, <2>1, <2>3 DEF Below
    <2>5. TopInv'
      BY <1>6, <1>11, <1>12, <2>1, <2>4 DEF TopInv, Settled
    <2> QED BY <1>9, <1>10, <2>1, <2>3, <2>5 DEF OrderInv
  <1>15. CASE cache[Host[t]] = None
    <2>1. pc'[t] = "select"
      BY <1>15 DEF StartAppend, SafetyInv, TypeInv, TypeOK, TaskOK
    <2>2. Shrinks
      BY <2>1, StartSlots DEF Writing
    <2>3. SlotOrder'
      BY <2>2, ShrinkKeeps DEF OrderInv
    <2>4. TopInv'
      BY <1>6, <1>11, <1>12, <1>13, <1>15, <2>1 DEF TopInv, Settled
    <2> QED BY <1>9, <1>10, <2>3, <2>4 DEF OrderInv
  <1> QED BY <1>14, <1>15

-----------------------------------------------------------------------------
(* The other steps open no slot.                                           *)

\* A step that opens no slot, starts nothing and sets no cache.
LEMMA OrderStable ==
    ASSUME SafetyInv, SafetyInv', OrderInv, OnceInv', Shrinks,
           \A e \in Events : outcome'[e] # "new" <=> outcome[e] # "new",
           \A u \in Tasks : pc'[u] # "idle" =>
               pc'[u] = pc[u] /\ key'[u] = key[u] /\ at'[u] = at[u] /\ cache' = cache,
           \A p \in Procs : cache'[p] \in {cache[p], None},
           \A r \in Readers : Reading(r)' => Reading(r),
           \A r \in Readers : rpc'[r] = "opened" => rpc[r] = "opened" /\ gidx'[r] = gidx[r],
           gidx \in [Readers -> Nat]
    PROVE  OrderInv'
  <1>1. SlotOrder' /\ \A h \in Nat : Below(h) => Below(h)'
    BY ShrinkKeeps DEF OrderInv
  <1>2. AloneInv' /\ TimeInv'
    BY DEF OrderInv, AloneInv, TimeInv
  <1>3. /\ cache \in [Procs -> Nat \cup {None}] /\ at \in [Tasks -> Nat]
        /\ Host \in [Tasks -> Procs]
    BY ConstantsAssumption DEF SafetyInv, TypeInv, TypeOK, TaskOK
  <1>4. ASSUME NEW p \in Procs, cache'[p] # None PROVE Below(cache[p])'
    <2>1. cache'[p] = cache[p] /\ cache[p] \in Nat
      BY <1>3, <1>4
    <2>2. ASSUME NEW h \in Nat, h = cache[p] PROVE Below(h)'
      BY <1>1, <1>4, <2>1, <2>2 DEF OrderInv, TopInv
    <2> QED BY <2>1, <2>2 DEF Below
  <1>5. ASSUME NEW u \in Tasks, pc'[u] \in {"selected", "rolled"} PROVE Below(at[u])'
    <2>1. ASSUME NEW h \in Nat, h = at[u] PROVE Below(h)'
      BY <1>1, <1>5, <2>1 DEF OrderInv, TopInv
    <2> QED BY <1>3, <1>5, <2>1 DEF Below
  <1>6. ASSUME NEW r \in Readers, rpc'[r] = "opened" PROVE Below(gidx[r])'
    <2>1. ASSUME NEW h \in Nat, h = gidx[r] PROVE Below(h)'
      BY <1>1, <1>6, <2>1 DEF OrderInv, TopInv
    <2> QED BY <1>6, <2>1 DEF Below
  <1>7. ASSUME NEW u \in Tasks, pc'[u] \in Settled PROVE cache'[Host[u]] = at'[u]
    BY <1>7 DEF OrderInv, TopInv, Settled
  <1> QED BY <1>1, <1>2, <1>4, <1>5, <1>6, <1>7 DEF OrderInv, TopInv

\* A crash ends all that runs: there is one process.
LEMMA OrderCrash ==
    ASSUME Sequential, SafetyInv, SafetyInv', HTypeOK, OrderInv, OnceInv',
           NEW p \in Procs, Crash(p), ReadersDie(p)
    PROVE  OrderInv'
  <1>1. \A u \in Tasks : Host[u] = p /\ pc'[u] = "idle"
    BY ConstantsAssumption DEF Sequential, Crash
  <1>2. \A r \in Readers : ReaderHost[r] = p /\ ~Reading(r)'
    BY ReadersAssumption DEF Sequential, ReadersDie, Reading
  <1>3. ASSUME NEW e \in Events PROVE outcome'[e] # "new" <=> outcome[e] # "new"
    <2>1. \A u \in Tasks : pc[u] # "idle" => outcome[key[u][2]] = "pending"
      BY DEF OrderInv, OnceInv
    <2> QED BY <2>1 DEF Crash
  <1>4. \A q \in Procs : cache'[q] \in {cache[q], None}
    BY DEF Crash, SafetyInv, TypeInv, TypeOK
  <1>5. Shrinks
    BY CrashSlots
  <1>6. \A r \in Readers : rpc'[r] # "opened"
    BY <1>2 DEF Reading
  <1> QED BY <1>1, <1>2, <1>3, <1>4, <1>5, <1>6, OrderStable DEF HTypeOK

\* A read that opens the session is alone, and no slot is above its cur.
LEMMA OrderOpen ==
    ASSUME Sequential, SafetyInv, SafetyInv', HTypeOK, OrderInv, OnceInv',
           NEW r \in Readers, NEW c \in Configs, OpenSession(r, c)
    PROVE  OrderInv'
  <1>1. Quiet /\ UNCHANGED vars
    BY DEF Sequential, OpenSession, MayStart
  <1>2. UNCHANGED <<db, cache, taskVars, late, outcome, faults>>
    BY <1>1 DEF vars
  <1>3. \A u \in Tasks : pc'[u] = "idle"
    BY <1>1, <1>2 DEF Quiet, taskVars
  <1>4. \A n \in Nat : \A k \in Keys : MayHold(n, k)' <=> MayHold(n, k)
    BY <1>2 DEF MayHold, Writing, Accepts, Seg, db, taskVars
  <1>5. SlotOrder' /\ AloneInv' /\ TimeInv'
    BY <1>2, <1>3, <1>4 DEF OrderInv, SlotOrder, AloneInv, TimeInv
  <1>6. ASSUME NEW u \in Readers, rpc'[u] = "opened" PROVE Below(gidx[u])'
    <2>1. u = r /\ gidx'[u] = cur
      BY <1>1, <1>6 DEF Quiet, Reading, OpenSession, HTypeOK
    <2>2. Below(cur)
      BY BelowCur
    <2> QED BY <1>4, <2>1, <2>2 DEF Below
  <1>7. ASSUME NEW p \in Procs, cache'[p] # None PROVE Below(cache[p])'
    BY <1>2, <1>4, <1>7 DEF OrderInv, TopInv, Below
  <1>8. TopInv'
    BY <1>3, <1>6, <1>7 DEF TopInv, Settled
  <1> QED BY <1>5, <1>8 DEF OrderInv

\* What a read caches is what it opened with: nothing has run since.
LEMMA OrderSeed ==
    ASSUME Sequential, SafetyInv, HTypeOK, OrderInv, OnceInv',
           NEW r \in Readers, SeedCache(r)
    PROVE  OrderInv'
  <1>1. UNCHANGED <<db, taskVars, late, outcome, faults>> /\ gidx' = gidx
        /\ rpc[r] = "opened" /\ ReaderHost[r] \in Procs
    BY ReadersAssumption DEF SeedCache
  <1>2. \A u \in Tasks : pc'[u] = "idle"
    BY <1>1 DEF OrderInv, AloneInv, Reading, taskVars
  <1>3. \A n \in Nat : \A k \in Keys : MayHold(n, k)' <=> MayHold(n, k)
    BY <1>1 DEF MayHold, Writing, Accepts, Seg, db, taskVars
  <1>4. SlotOrder' /\ AloneInv' /\ TimeInv'
    BY <1>1, <1>2, <1>3 DEF OrderInv, SlotOrder, AloneInv, TimeInv
  <1>5. \A p \in Procs : cache'[p] = gidx[r]
    BY <1>1 DEF SeedCache, Sequential, SafetyInv, TypeInv, TypeOK
  <1>6. Below(gidx[r])
    BY <1>1 DEF OrderInv, TopInv
  <1>7. ASSUME NEW p \in Procs PROVE Below(cache[p])'
    BY <1>3, <1>5, <1>6 DEF Below
  <1>8. ASSUME NEW u \in Readers, rpc'[u] = "opened" PROVE Below(gidx[u])'
    <2>1. rpc[u] = "opened"
      BY <1>8 DEF SeedCache, HTypeOK
    <2> QED BY <1>1, <1>3, <2>1 DEF OrderInv, TopInv, Below
  <1>9. TopInv'
    BY <1>2, <1>7, <1>8 DEF TopInv, Settled
  <1> QED BY <1>4, <1>9 DEF OrderInv

LEMMA OrderNext ==
    ASSUME Sequential
    PROVE  ReadInv /\ ReadInv' /\ OrderInv /\ [HNext]_hvars => OrderInv'
  <1> SUFFICES ASSUME ReadInv, ReadInv', OrderInv, [HNext]_hvars PROVE OrderInv'
    OBVIOUS
  <1>1. SafetyInv /\ SafetyInv' /\ HTypeOK /\ OnceInv /\ ~Resend /\ gidx \in [Readers -> Nat]
    BY DEF ReadInv, OrderInv, Sequential, HTypeOK
  <1>2. [Next]_vars => OnceInv'
    BY <1>1, OnceNext
  <1>3. ASSUME NEW t \in Tasks, NEW e \in Events,
               MayStart, StartAppend(t, e), UNCHANGED readerVars
        PROVE  OrderInv'
    <2>1. OnceInv'
      BY <1>2, <1>3 DEF Next
    <2> QED BY <1>1, <1>3, <2>1, OrderStart
  <1>4. ASSUME NEW t \in Tasks, Step(t), UNCHANGED readerVars PROVE OrderInv'
    <2>1. OnceInv'
      BY <1>2, <1>4 DEF Next
    <2>2. Grows
      <3>1. at[t] \in Nat /\ key[t] \in Keys /\ Effect(at[t], key[t]) /\ DbOK
        BY <1>1, <1>4, StepEffects
        DEF Effect, LocalInv, SafetyInv, TypeInv, TypeOK, TaskOK
      <3> QED BY <1>1, <1>4, <3>1, StepEffects, EffectGrows DEF Grows, SafetyInv
    <2> QED BY <1>1, <1>4, <2>1, <2>2, OrderStep
  <1>5. ASSUME NEW q \in late, ApplyLate(q), UNCHANGED readerVars PROVE OrderInv'
    <2>1. OnceInv'
      BY <1>2, <1>5 DEF Next
    <2>2. UNCHANGED <<cache, taskVars, late, outcome, faults>>
      BY <1>5 DEF ApplyLate
    <2>3. Shrinks
      BY <1>1, <1>5, LateSlots
    <2> QED BY <1>1, <1>5, <2>1, <2>2, <2>3, OrderStable DEF taskVars, readerVars, Reading
  <1>6. ASSUME NEW p \in Procs, Crash(p), ReadersDie(p) PROVE OrderInv'
    <2>1. OnceInv'
      BY <1>2, <1>6 DEF Next
    <2> QED BY <1>1, <1>6, <2>1, OrderCrash
  <1>7. ASSUME NEW r \in Readers, NEW c \in Configs, OpenSession(r, c) PROVE OrderInv'
    <2>1. OnceInv'
      BY <1>2, <1>7 DEF OpenSession
    <2> QED BY <1>1, <1>7, <2>1, OrderOpen
  \* The other steps of a reader leave the slots, the tasks and outcome alone.
  <1>8. ASSUME UNCHANGED <<db, taskVars, late, outcome>> PROVE Shrinks /\ OnceInv'
    <2>1. Shrinks
      BY <1>8 DEF Shrinks, MayHold, Writing, Accepts, Seg, db, taskVars
    <2> QED BY <1>1, <1>8, <2>1, OnceStable DEF taskVars
  <1>9. ASSUME NEW r \in Readers, SeedCache(r) PROVE OrderInv'
    <2>1. OnceInv'
      BY <1>8, <1>9 DEF SeedCache
    <2> QED BY <1>1, <1>9, <2>1, OrderSeed
  <1>10. ASSUME NEW r \in Readers, LoadSegment(r) \/ ReadFails(r) PROVE OrderInv'
    <2>1. UNCHANGED <<db, cache, taskVars, late, outcome>>
      BY <1>10 DEF LoadSegment, ReadFails, vars
    <2>2. \A u \in Readers : rpc'[u] = rpc[u] \/ rpc'[u] \in {"done", "failed"}
      BY <1>1, <1>10 DEF LoadSegment, ReadFails, HTypeOK
    <2>3. ASSUME NEW u \in Readers, rpc'[u] = "opened"
          PROVE  rpc[u] = "opened" /\ gidx'[u] = gidx[u]
      BY <1>1, <1>10, <2>2, <2>3 DEF LoadSegment, ReadFails, HTypeOK
    <2> QED BY <1>1, <1>8, <2>1, <2>2, <2>3, OrderStable DEF taskVars, Reading
  <1>11. CASE UNCHANGED hvars
    <2>1. UNCHANGED <<db, cache, taskVars, late, outcome>> /\ UNCHANGED readerVars
      BY <1>11 DEF hvars, vars
    <2> QED BY <1>1, <1>8, <2>1, OrderStable DEF taskVars, readerVars, Reading
  <1> QED BY <1>3, <1>4, <1>5, <1>6, <1>7, <1>9, <1>10, <1>11 DEF HNext, ReaderStep

-----------------------------------------------------------------------------
(* The walk.                                                               *)

\* Two lists in order, the first newer than the second, are one in order.
LEMMA DescendingConcat ==
    ASSUME NEW s \in Seq(Keys), NEW t \in Seq(Keys), Descending(s), Descending(t),
           \A x \in ToSet(s), y \in ToSet(t) : Newer(x, y)
    PROVE  Descending(s \o t)
  <1>1. /\ Len(s) \in Nat /\ Len(t) \in Nat /\ Len(s \o t) = Len(s) + Len(t)
        /\ \A i \in 1..Len(s) : (s \o t)[i] = s[i]
        /\ \A i \in 1..(Len(s) + Len(t)) : i > Len(s) => (s \o t)[i] = t[i - Len(s)]
    OBVIOUS
  <1>2. \A i \in 1..Len(s) : s[i] \in ToSet(s)
    BY DEF ToSet
  <1>3. \A i \in 1..Len(t) : t[i] \in ToSet(t)
    BY DEF ToSet
  <1> SUFFICES ASSUME NEW i \in 1..(Len(s) + Len(t)), NEW j \in 1..(Len(s) + Len(t)), i < j
               PROVE  Newer((s \o t)[i], (s \o t)[j])
    BY <1>1 DEF Descending
  <1>4. CASE j <= Len(s)
    <2>1. i \in 1..Len(s) /\ j \in 1..Len(s)
      BY <1>1, <1>4
    <2> QED BY <1>1, <2>1 DEF Descending
  <1>5. CASE i <= Len(s) /\ j > Len(s)
    <2>1. i \in 1..Len(s) /\ j - Len(s) \in 1..Len(t)
      BY <1>1, <1>5
    <2>2. (s \o t)[i] = s[i] /\ (s \o t)[j] = t[j - Len(s)]
      BY <1>1, <1>5, <2>1
    <2> QED BY <1>2, <1>3, <2>1, <2>2
  <1>6. CASE i > Len(s)
    <2>1. i - Len(s) \in 1..Len(t) /\ j - Len(s) \in 1..Len(t) /\ i - Len(s) < j - Len(s)
      BY <1>1, <1>6
    <2>2. (s \o t)[i] = t[i - Len(s)] /\ (s \o t)[j] = t[j - Len(s)]
      BY <1>1, <1>6
    <2> QED BY <2>1, <2>2 DEF Descending
  <1> QED BY <1>1, <1>4, <1>5, <1>6

\* What was read before is newer than what is in the segment read now.
LEMMA WalkLoad ==
    ASSUME ReadInv, OrderInv, NEW r \in Readers, LoadSegment(r), WalkOrder(r)
    PROVE  WalkOrder(r)'
  <1>1. PICK t \in Seq(Keys) :
              /\ collected' = [collected EXCEPT ![r] = collected[r] \o t]
              /\ ToSet(t) \subseteq Seg(gidx[r]) /\ Descending(t)
              /\ \/ rpc' = [rpc EXCEPT ![r] = "done"] /\ gidx' = gidx
                 \/ rpc' = rpc /\ gidx' = [gidx EXCEPT ![r] = gidx[r] - 1] /\ gidx[r] # 0
    BY LoadFacts, AfterFacts
  <1>2. rpc[r] = "walk" /\ stored' = stored
    BY DEF LoadSegment, vars, db
  <1>3. collected[r] \in Seq(Keys) /\ gidx[r] \in Nat
    BY DEF ReadInv, HTypeOK
  <1>4. /\ collected'[r] = collected[r] \o t
        /\ ToSet(collected'[r]) = ToSet(collected[r]) \cup ToSet(t)
    BY <1>1, <1>3, ToSetConcat DEF ReadInv, HTypeOK
  <1>5. \A k \in ToSet(collected[r]) : \E n \in Nat : n > gidx[r] /\ <<n, k>> \in stored
    BY <1>2 DEF WalkOrder
  <1>6. \A k \in ToSet(t) : k \in Keys /\ <<gidx[r], k>> \in stored
    BY <1>1 DEF Seg
  <1>7. \A k \in ToSet(collected[r]) : k \in Keys
    BY <1>3 DEF ToSet
  <1>8. ASSUME NEW x \in ToSet(collected[r]), NEW y \in ToSet(t) PROVE Newer(x, y)
    <2>1. PICK n \in Nat : n > gidx[r] /\ <<n, x>> \in stored
      BY <1>5
    <2>2. x \in Keys /\ y \in Keys /\ MayHold(n, x) /\ MayHold(gidx[r], y)
      BY <1>6, <1>7, <2>1 DEF MayHold
    <2>3. n # gidx[r] /\ ~(gidx[r] >= n)
      BY <1>3, <2>1
    <2>4. x # y
      BY <1>3, <2>2, <2>3 DEF OrderInv, OnceInv, OneSlot
    <2>5. ~Newer(y, x)
      BY <1>3, <2>2, <2>3 DEF OrderInv, SlotOrder
    <2> QED BY <2>2, <2>4, <2>5, NewerOrder
  <1>9. Descending(collected[r] \o t)
    BY <1>1, <1>3, <1>8, DescendingConcat DEF WalkOrder
  <1>10. Descending(collected[r])'
    BY <1>4, <1>9 DEF Descending
  <1>11. ASSUME rpc'[r] = "walk", NEW k \in ToSet(collected'[r])
         PROVE  \E n \in Nat : n > gidx'[r] /\ <<n, k>> \in stored'
    <2>1. gidx'[r] = gidx[r] - 1
      BY <1>1, <1>11 DEF ReadInv, HTypeOK
    <2>2. \A n \in Nat : n >= gidx[r] => n > gidx[r] - 1
      BY <1>3
    <2>3. CASE k \in ToSet(t)
      BY <1>2, <1>3, <1>6, <2>1, <2>2, <2>3
    <2>4. CASE k \in ToSet(collected[r])
      <3>1. PICK n \in Nat : n > gidx[r] /\ <<n, k>> \in stored
        BY <1>5, <2>4
      <3>2. n >= gidx[r]
        BY <1>3, <3>1
      <3> QED BY <1>2, <2>1, <2>2, <3>1, <3>2
    <2> QED BY <1>4, <1>11, <2>3, <2>4
  <1> QED BY <1>10, <1>11 DEF WalkOrder

\* A step that leaves the walk of r alone, or ends it.
LEMMA WalkStable ==
    ASSUME NEW r \in Readers, WalkOrder(r), collected'[r] = collected[r],
           gidx'[r] = gidx[r], rpc'[r] = "walk" => rpc[r] = "walk",
           stored \subseteq stored'
    PROVE  WalkOrder(r)'
  BY DEF WalkOrder, Descending, ToSet

\* A walk starts with nothing.
LEMMA WalkFresh ==
    ASSUME NEW r \in Readers, collected'[r] = <<>>
    PROVE  WalkOrder(r)'
  <1>1. 1..Len(<<>>) = {} /\ ToSet(<<>>) = {}
    BY DEF ToSet
  <1>2. Descending(collected[r])'
    BY <1>1 DEF Descending
  <1>3. ToSet(collected'[r]) = {}
    BY <1>1
  <1> QED BY <1>2, <1>3 DEF WalkOrder

WalkInv == ReadInv /\ OrderInv /\ \A r \in Readers : WalkOrder(r)

LEMMA WalkInit == HInit => WalkInv
  <1> SUFFICES ASSUME HInit PROVE WalkInv
    OBVIOUS
  <1>1. ReadInv /\ OnceInv
    BY ReadInit, OnceInit DEF HInit
  <1>2. \A n \in Nat : \A k \in Keys : ~MayHold(n, k)
    BY DEF HInit, Init, MayHold, Writing
  <1>3. \A n : Below(n)
    BY <1>2 DEF Below
  <1>4. SlotOrder /\ TopInv
    BY <1>2, <1>3 DEF HInit, Init, SlotOrder, TopInv, Settled
  <1>5. AloneInv /\ TimeInv
    BY DEF HInit, Init, AloneInv, TimeInv
  <1>6. ASSUME NEW r \in Readers PROVE WalkOrder(r)
    <2>1. collected[r] = <<>> /\ rpc[r] = "idle" /\ 1..Len(<<>>) = {}
      BY DEF HInit
    <2> QED BY <2>1 DEF WalkOrder, Descending
  <1> QED BY <1>1, <1>4, <1>5, <1>6 DEF WalkInv, OrderInv

LEMMA WalkNext ==
    ASSUME Sequential
    PROVE  WalkInv /\ [HNext]_hvars => WalkInv'
  <1> SUFFICES ASSUME WalkInv, [HNext]_hvars PROVE WalkInv'
    OBVIOUS
  <1>1. ReadInv /\ OrderInv /\ HTypeOK /\ SafetyInv /\ \A r \in Readers : WalkOrder(r)
    BY DEF WalkInv, ReadInv
  <1>2. ReadInv' /\ OrderInv'
    BY <1>1, ReadNext, OrderNext
  <1>3. ASSUME NEW u \in Readers PROVE WalkOrder(u)'
    <2>1. CASE [Next]_vars /\ UNCHANGED readerVars
      <3>1. stored \subseteq stored'
        BY <1>1, <2>1, NextMore DEF More
      <3> QED BY <1>1, <2>1, <3>1, WalkStable DEF readerVars
    <2>2. ASSUME NEW p \in Procs, Crash(p), ReadersDie(p) PROVE WalkOrder(u)'
      <3>1. stored \subseteq stored'
        BY <2>2 DEF Crash, db
      <3>2. rpc'[u] = "walk" => rpc[u] = "walk"
        BY <2>2 DEF ReadersDie
      <3> QED BY <1>1, <2>2, <3>1, <3>2, WalkStable DEF ReadersDie
    <2>3. ASSUME NEW r \in Readers, r # u,
                 \/ \E c \in Configs : OpenSession(r, c)
                 \/ SeedCache(r) \/ LoadSegment(r) \/ ReadFails(r)
          PROVE  WalkOrder(u)'
      <3>1. rpc'[u] = rpc[u] /\ gidx'[u] = gidx[u] /\ collected'[u] = collected[u] /\ UNCHANGED db
        BY <1>1, <2>3, ReaderLocal
      <3> QED BY <1>1, <3>1, WalkStable DEF db
    <2>4. ASSUME NEW c \in Configs, OpenSession(u, c) PROVE WalkOrder(u)'
      <3>1. collected'[u] = <<>>
        BY <1>1, <2>4 DEF OpenSession, HTypeOK
      <3> QED BY <3>1, WalkFresh
    <2>5. CASE SeedCache(u)
      <3>1. collected'[u] = <<>>
        BY <1>1, <2>5 DEF SeedCache, ReadInv, ReaderInv
      <3> QED BY <3>1, WalkFresh
    <2>6. CASE LoadSegment(u)
      BY <1>1, <2>6, WalkLoad
    <2>7. CASE ReadFails(u)
      <3>1. rpc'[u] = "failed" /\ gidx'[u] = gidx[u] /\ collected'[u] = collected[u] /\ stored' = stored
        BY <1>1, <2>7 DEF ReadFails, HTypeOK, db
      <3> QED BY <1>1, <3>1, WalkStable
    <2> QED BY <2>1, <2>2, <2>3, <2>4, <2>5, <2>6, <2>7, HNextSplits
  <1> QED BY <1>2, <1>3 DEF WalkInv

LEMMA WalkCorrect ==
    ASSUME Sequential
    PROVE  HSpec => []WalkInv
  BY WalkInit, WalkNext, PTL DEF HSpec

\* Used by one process, one operation at a time, with appends in the order of
\* distinct timestamps and no re-appends, get_session returns events in that
\* order under any config, and last_update_time of a full read is not older than
\* any event appended before, whatever calls failed, arrived late or crashed.
THEOREM ReadsOrdered ==
    ASSUME Sequential
    PROVE  HSpec => []ReadsInOrder
  <1>1. ASSUME WalkInv PROVE ReadsInOrder
    <2>1. \A r \in Readers : collected[r] \in Seq(Keys) /\ Descending(collected[r])
      BY <1>1 DEF WalkInv, WalkOrder, ReadInv, HTypeOK
    <2>2. Chronological
      BY <2>1 DEF Chronological, Descending
    <2>3. ASSUME NEW r \in Readers, Done(r), Plain(r), NEW e \in acked[r]
          PROVE  LastUpdate(r) >= Ts[e]
      <3> DEFINE s == collected[r]
      <3>1. e \in EventsRead(r)
        BY <1>1, <2>3 DEF WalkInv, ReadInv, ReaderInv, Plain
      <3>2. PICK k \in ToSet(s) : k[2] = e
        BY <3>1 DEF EventsRead
      <3>3. PICK i \in 1..Len(s) : s[i] = k
        BY <2>1, <3>2 DEF ToSet
      <3>4. 1 \in 1..Len(s) /\ s # <<>> /\ s[1] \in Keys /\ k \in Keys
        BY <2>1, <3>3
      <3>5. s[1][2] \in Events /\ e \in Events
        BY <3>2, <3>4, KeyFacts
      <3>6. Ts[s[1][2]] \in Nat \ {0} /\ Ts[e] \in Nat
        BY <3>5, ConstantsAssumption DEF Sequential
      <3>7. LastUpdate(r) = Ts[s[1][2]]
        BY <3>4, <3>6 DEF LastUpdate
      <3>8. CASE i = 1
        BY <3>2, <3>3, <3>6, <3>7, <3>8
      <3>9. CASE i # 1
        <4>1. Newer(s[1], k)
          BY <2>1, <3>3, <3>4, <3>9 DEF Descending
        <4>2. Ts[s[1][2]] > Ts[e]
          BY <3>2, <3>4, <4>1, KeyTime
        <4> QED BY <3>6, <3>7, <4>2
      <3> QED BY <3>8, <3>9
    <2> QED BY <2>2, <2>3 DEF ReadsInOrder
  <1> QED BY <1>1, WalkCorrect, PTL

-----------------------------------------------------------------------------
(* The reference.  A list in order that leaves out no key newer than one   *)
(* it has is a prefix of all keys in order.                                *)

LEMMA NewestUnique ==
    ASSUME NEW S \in SUBSET Keys, IsFiniteSet(S), NEW s \in Seq(Keys), Descending(s),
           ToSet(s) \subseteq S,
           \A k \in ToSet(s), j \in S \ ToSet(s) : Newer(k, j),
           NEW n \in Nat \cup {None}, n # None => Len(s) <= n,
           S \subseteq ToSet(s) \/ (n # None /\ Len(s) = n)
    PROVE  s = Take(NewestFirst(S), n)
  <1> DEFINE q == NewestFirst(S)
             N == Cardinality(S)
  <1>0. N \in Nat /\ Len(s) \in Nat /\ None \notin Nat
    BY AboveFacts, ConstantsAssumption
  <1>1. \A i \in 1..Len(s) : s[i] \in ToSet(s) /\ s[i] \in S /\ s[i] \in Keys
    BY DEF ToSet
  <1>2. ASSUME NEW i \in 1..Len(s) PROVE Above(S, s[i]) = i - 1
    <2> DEFINE T == {x \in S : Newer(x, s[i])}
               D == 1..(i - 1)
               f == [m \in D |-> s[m]]
    <2>1. \A m \in D : m \in 1..Len(s) /\ m < i
      BY <1>0
    <2>2. \A m \in D : s[m] \in T
      BY <1>1, <2>1 DEF Descending
    <2>3. ASSUME NEW x \in T PROVE \E m \in D : s[m] = x
      <3>1. x \in S /\ x \in Keys /\ Newer(x, s[i]) /\ s[i] \in Keys
        BY <1>1
      <3>2. x \in ToSet(s)
        BY <1>1, <3>1, NewerOrder
      <3>3. PICK m \in 1..Len(s) : s[m] = x
        BY <3>2 DEF ToSet
      <3>4. m # i
        BY <3>1, <3>3, NewerOrder
      <3>5. ~(i < m)
        BY <1>1, <3>1, <3>3, NewerOrder DEF Descending
      <3>6. m \in D
        BY <1>0, <3>4, <3>5
      <3> QED BY <3>3, <3>6
    <2>4. \A a, b \in D : s[a] = s[b] => a = b
      <3> SUFFICES ASSUME NEW a \in D, NEW b \in D, a # b PROVE s[a] # s[b]
        OBVIOUS
      <3>1. a \in 1..Len(s) /\ b \in 1..Len(s) /\ (a < b \/ b < a)
        BY <2>1
      <3>2. Newer(s[a], s[b]) \/ Newer(s[b], s[a])
        BY <3>1 DEF Descending
      <3> QED BY <1>1, <3>1, <3>2, NewerOrder
    <2> HIDE DEF T, D
    <2>5. f \in Bijection(D, T)
      BY <2>2, <2>3, <2>4 DEF Bijection, Injection, Surjection, IsInjective
    <2>6. ExistsBijection(D, T)
      BY <2>5 DEF ExistsBijection
    <2>7. IsFiniteSet(D) /\ Cardinality(D) = i - 1
      <3>1. i - 1 \in Nat /\ 1 \in Int /\ i - 1 \in Int
        BY <1>0
      <3>2. IsFiniteSet(D) /\ Cardinality(D) = IF 1 > i - 1 THEN 0 ELSE (i - 1) - 1 + 1
        BY <3>1, FS_Interval DEF D
      <3> QED BY <3>1, <3>2
    <2>8. Cardinality(T) = i - 1
      BY <2>6, <2>7, FS_Bijection
    <2> QED BY <2>8 DEF Above, T
  <1>3. Len(s) <= N
    <2>1. CASE Len(s) = 0
      BY <1>0, <2>1
    <2>2. CASE Len(s) # 0
      <3>1. Len(s) \in 1..Len(s)
        BY <1>0, <2>2
      <3>2. Above(S, s[Len(s)]) = Len(s) - 1 /\ Above(S, s[Len(s)]) < N
        BY <1>1, <1>2, <3>1, AboveFacts
      <3> QED BY <1>0, <3>2
    <2> QED BY <2>1, <2>2
  <1>4. S \subseteq ToSet(s) => Len(s) = N
    <2> SUFFICES ASSUME S \subseteq ToSet(s), Len(s) < N PROVE FALSE
      BY <1>0, <1>3
    <2>1. PICK m \in 1..N : m = Len(s) + 1
      BY <1>0
    <2>2. PICK k \in S : Above(S, k) = m - 1
      BY AboveFacts
    <2>3. PICK i \in 1..Len(s) : s[i] = k
      BY DEF ToSet
    <2>4. Above(S, k) = i - 1
      BY <1>2, <2>3
    <2> QED BY <1>0, <2>1, <2>2, <2>4
  <1>5. q = [m \in 1..N |-> CHOOSE k \in S : Above(S, k) = m - 1]
    BY DEF NewestFirst, Above
  <1>6. ASSUME NEW i \in 1..Len(s) PROVE q[i] = s[i]
    <2>1. i \in 1..N
      BY <1>0, <1>3
    <2>2. q[i] = CHOOSE k \in S : Above(S, k) = i - 1
      BY <1>5, <2>1
    <2>3. s[i] \in S /\ Above(S, s[i]) = i - 1
      BY <1>1, <1>2
    <2>4. q[i] \in S /\ Above(S, q[i]) = i - 1
      BY <2>2, <2>3
    <2> QED BY <2>3, <2>4, AboveFacts
  <1>7. q \in Seq(S) /\ q \in Seq(Keys)
    BY NewestFirstFacts
  <1>8. DOMAIN q = 1..N
    BY <1>5
  <1>9. Len(q) = N
    BY <1>0, <1>7, <1>8
  <1> HIDE DEF q, N
  <1>10. CASE n = None \/ n >= Len(q)
    <2>1. Take(q, n) = q
      BY <1>10 DEF Take
    <2>2. Len(s) = N
      BY <1>0, <1>3, <1>4, <1>9, <1>10
    <2>3. s = q
      BY <1>6, <1>7, <1>9, <2>2
    <2> QED BY <2>1, <2>3 DEF q
  <1>11. CASE ~(n = None \/ n >= Len(q))
    <2>1. n \in Nat /\ n < N /\ Take(q, n) = SubSeq(q, 1, n)
      BY <1>9, <1>11 DEF Take
    <2>2. Len(s) = n
      BY <1>0, <1>4, <2>1
    <2>3. /\ SubSeq(q, 1, n) \in Seq(Keys) /\ Len(SubSeq(q, 1, n)) = n
          /\ \A i \in 1..n : SubSeq(q, 1, n)[i] = q[i]
      BY <1>7, <1>9, <2>1
    <2>4. s = SubSeq(q, 1, n)
      BY <1>6, <2>2, <2>3
    <2> QED BY <2>1, <2>4 DEF q
  <1> QED BY <1>10, <1>11

-----------------------------------------------------------------------------
(* Without failures no segment is empty but the one being rolled to.       *)

\* Every event fits in a record of its own, and _place_event may roll twice.
Placeable == (\A k \in Keys : Storable(k)) /\ MaxAttempts > 1

\* A task writes to cur; after a rollover it finds cur empty, so it rolls once.
CalmTask(t) ==
    /\ pc[t] \in Settled \cup {"selected", "rolled"} => at[t] = cur
    /\ pc[t] # "reread"
    /\ pc[t] = "size" => rolls[t] = 0
    /\ pc[t] \in {"roll", "rolled", "put"} => rolls[t] <= 1
    /\ pc[t] = "rolled" \/ (pc[t] = "put" /\ rolls[t] = 1) => Seg(cur) = {}

Calm ==
    /\ late = {}
    /\ \A p \in Procs : cache[p] \in {None, cur} \/ \E t \in Tasks : pc[t] = "rolled"
    /\ \A r \in Readers : rpc[r] = "opened" => gidx[r] = cur
    /\ \A t \in Tasks : CalmTask(t)
    /\ cur > 0 /\ Seg(cur) = {} => \E t \in Tasks : pc[t] \in {"rolled", "put"}

CalmInv == faults = 0 => Calm

\* A failed call or a crash is counted.
LEMMA FaultCounts ==
    ASSUME TypeOK, MayFail \/ faults < MaxFaults, CountFault
    PROVE  faults' # 0
  BY ConstantsAssumption DEF TypeOK, MayFail, CountFault

LEMMA RefusesNonempty ==
    ASSUME Placeable, NEW n, NEW k \in Keys, ~Accepts(n, k)
    PROVE  Seg(n) # {}
  <1>1. Seg(n) = {} => Seg(n) \cup {k} = {k}
    OBVIOUS
  <1> QED BY <1>1 DEF Accepts, Placeable, Storable

LEMMA CalmStep ==
    ASSUME Sequential, Placeable, SafetyInv, SafetyInv', AloneInv, Calm,
           NEW t \in Tasks, Step(t), faults' = 0, UNCHANGED readerVars
    PROVE  Calm'
  <1>1. key[t] \in Keys /\ pc[t] # "idle" /\ at[t] \in Nat /\ rolls[t] \in Nat /\ Host[t] \in Procs
    BY StepEffects, ConstantsAssumption DEF SafetyInv, TypeInv, TypeOK, TaskOK
  <1>2. \A u \in Tasks : u # t => pc[u] = "idle" /\ pc'[u] = "idle"
    BY <1>1, StepIsLocal DEF AloneInv, SafetyInv
  <1>3. \A r \in Readers : rpc'[r] # "opened"
    BY <1>1 DEF AloneInv, Reading, readerVars
  <1>4. ~(MayFail /\ CountFault)
    BY FaultCounts DEF SafetyInv, TypeInv
  <1>5. pc[t] \notin {"put", "rolled"} => cur = 0 \/ Seg(cur) # {}
    BY <1>2 DEF Calm, SafetyInv, TypeInv, TypeOK, DbOK
  <1>6. pc[t] # "rolled" => \A p \in Procs : cache[p] \in {None, cur}
    BY <1>2 DEF Calm
  <1>7. \A p \in Procs : p = Host[t]
    BY <1>1 DEF Sequential
  <1>8. CalmTask(t) /\ LocalInv(t) /\ late = {} /\ RecordInv /\ cur \in Nat
    BY DEF Calm, SafetyInv, ServerInv, TypeInv, TypeOK, DbOK
  <1>9. /\ pc \in [Tasks -> Labels] /\ at \in [Tasks -> Nat] /\ rolls \in [Tasks -> 0..MaxAttempts]
        /\ cache \in [Procs -> Nat \cup {None}]
        /\ pc[t] \in {"select", "selected", "batch"} => rolls[t] = 0
    BY DEF SafetyInv, TypeInv, TypeOK, TaskOK, TaskInv
  <1>10. SetCache(t) => \A p \in Procs : cache'[p] = at[t]
    BY <1>7, <1>9 DEF SetCache
  \* What is to be shown of each step.
  <1>s. ASSUME late' = late, CalmTask(t)',
               \A p \in Procs : cache'[p] \in {None, cur'} \/ pc'[t] = "rolled",
               cur' = 0 \/ Seg(cur)' # {} \/ pc'[t] \in {"rolled", "put"}
        PROVE  Calm'
    <2>1. \A u \in Tasks : CalmTask(u)'
      BY <1>2, <1>s DEF CalmTask, Settled
    <2> QED BY <1>3, <1>8, <1>s, <2>1 DEF Calm
  \* A step that leaves the records alone and goes on to label l.
  <1>m. ASSUME UNCHANGED <<db, late>>, pc'[t] \notin {"rolled", "put", "reread", "size", "roll"},
               pc'[t] \in Settled \cup {"selected"} => at'[t] = cur,
               cache' = cache \/ (SetCache(t) /\ at[t] = cur),
               pc[t] # "rolled", pc[t] # "put"
        PROVE  Calm'
    <2>1. cur' = cur /\ Seg(cur)' = Seg(cur)
      BY <1>m DEF db, Seg
    <2>2. CalmTask(t)'
      BY <1>m, <2>1 DEF CalmTask
    <2>3. \A p \in Procs : cache'[p] \in {None, cur'}
      BY <1>6, <1>10, <1>m, <2>1
    <2> QED BY <1>5, <1>m, <1>s, <2>1, <2>2, <2>3
  <1>11. CASE CurrentSegmentRead(t)
    BY <1>9, <1>11, <1>m DEF CurrentSegmentRead, Move, Settled
  <1>12. CASE CurrentSegmentCached(t)
    <2>1. /\ pc'[t] \in {"put", "batch"} /\ at'[t] = at[t] /\ at[t] = cur /\ UNCHANGED <<db, late>>
          /\ SetCache(t) /\ pc[t] = "selected" /\ rolls' = rolls /\ rolls[t] = 0
      BY <1>8, <1>9, <1>12 DEF CurrentSegmentCached, Move, FirstWrite, CalmTask
    <2>2. cur' = cur /\ Seg(cur)' = Seg(cur)
      BY <2>1 DEF db, Seg
    <2>3. CalmTask(t)'
      BY <2>1, <2>2 DEF CalmTask
    <2> QED BY <1>5, <1>10, <1>s, <2>1, <2>2, <2>3
  <1>13. CASE PutOk(t)
    <2>1. /\ pc[t] = "put" /\ at[t] = cur /\ pc'[t] = "reply" /\ at'[t] = at[t]
          /\ cache' = cache /\ late' = late /\ cur' = cur /\ <<cur, key[t]>> \in stored'
      BY <1>8, <1>9, <1>13 DEF PutOk, Move, SegmentPut, CalmTask, Settled
    <2>2. Seg(cur)' # {}
      BY <1>1, <2>1 DEF Seg
    <2>3. CalmTask(t)'
      BY <2>1 DEF CalmTask
    <2> QED BY <1>6, <1>s, <2>1, <2>2, <2>3
  <1>14. CASE PutReply(t)
    BY <1>8, <1>9, <1>14, <1>m DEF PutReply, Finish, CalmTask, Settled
  <1>15. CASE PutTooBig(t)
    <2>1. /\ pc[t] = "put" /\ at[t] = cur /\ pc'[t] = "size" /\ at'[t] = at[t] /\ rolls' = rolls
          /\ cache' = cache /\ late' = late /\ UNCHANGED db /\ ~Accepts(at[t], key[t])
      BY <1>8, <1>9, <1>15 DEF PutTooBig, Move, CalmTask, Settled
    <2>2. Seg(cur) # {}
      BY <1>1, <2>1, RefusesNonempty
    <2>3. cur' = cur /\ Seg(cur)' = Seg(cur)
      BY <2>1 DEF db, Seg
    <2>4. rolls[t] = 0
      BY <1>1, <1>8, <2>1, <2>2 DEF CalmTask
    <2>5. CalmTask(t)'
      BY <2>1, <2>3, <2>4 DEF CalmTask
    <2> QED BY <1>6, <1>s, <2>1, <2>2, <2>3, <2>5
  <1>16. CASE SegmentSize(t)
    <2>1. CASE Finish(t, "toobig")
      BY <1>9, <1>16, <1>m, <2>1 DEF SegmentSize, Finish, Settled
    <2>2. CASE Move(t, "roll", at[t]) /\ rolls' = [rolls EXCEPT ![t] = @ + 1]
      <3>1. /\ pc[t] = "size" /\ pc'[t] = "roll" /\ at'[t] = cur /\ rolls'[t] = 1
            /\ cache' = cache /\ late' = late /\ UNCHANGED db
        BY <1>8, <1>9, <1>16, <2>2 DEF SegmentSize, Move, CalmTask, Settled
      <3>2. cur' = cur /\ Seg(cur)' = Seg(cur)
        BY <3>1 DEF db, Seg
      <3>3. CalmTask(t)'
        BY <3>1, <3>2 DEF CalmTask
      <3> QED BY <1>5, <1>6, <1>s, <3>1, <3>2, <3>3
    <2> QED BY <1>16, <2>1, <2>2 DEF SegmentSize
  <1>17. CASE RollBump(t)
    <2>1. /\ pc[t] = "roll" /\ at[t] = cur /\ pc'[t] = "rolled" /\ at'[t] = cur + 1 /\ cur' = cur + 1
          /\ late' = late /\ rolls' = rolls /\ stored' = stored
      BY <1>8, <1>9, <1>17 DEF RollBump, Move, CurBump, CalmTask, Settled
    <2>2. \A p \in stored : p[1] # cur + 1
      BY <1>8 DEF RecordInv
    <2>3. Seg(cur)' = {}
      BY <2>1, <2>2 DEF Seg
    <2>4. CalmTask(t)'
      BY <1>8, <2>1, <2>3 DEF CalmTask
    <2> QED BY <1>s, <2>1, <2>4
  <1>18. CASE RollFiltered(t) \/ RollReread(t)
    BY <1>8, <1>18 DEF RollFiltered, RollReread, CalmTask, Settled
  <1>19. CASE RollDone(t)
    <2>1. /\ pc[t] = "rolled" /\ at[t] = cur /\ rolls[t] <= 1 /\ SetCache(t) /\ UNCHANGED <<db, late>>
          /\ Seg(cur) = {}
      BY <1>8, <1>19 DEF RollDone, CalmTask
    <2>2. rolls[t] # MaxAttempts
      BY <1>1, <2>1, ConstantsAssumption DEF Placeable
    <2>3. pc'[t] = "put" /\ at'[t] = at[t] /\ rolls' = rolls
      BY <1>9, <1>19, <2>2 DEF RollDone, Move
    <2>4. cur' = cur /\ Seg(cur)' = Seg(cur)
      BY <2>1 DEF db, Seg
    <2>5. CalmTask(t)'
      BY <2>1, <2>3, <2>4 DEF CalmTask
    <2> QED BY <1>10, <1>s, <2>1, <2>3, <2>4, <2>5
  <1>20. CASE WriteFault(t) \/ BatchFault(t) \/ CallFails(t)
    BY <1>4, <1>20 DEF WriteFault, BatchFault, CallFails
  <1>21. ASSUME NEW r \in Records, BatchWrite(t, r) \/ BatchRecordFault(t, r) PROVE Calm'
    <2>1. BatchWrite(t, r)
      BY <1>4, <1>21 DEF BatchRecordFault
    <2>2. /\ pc[t] = "batch" /\ pc' = pc /\ at' = at /\ at[t] = cur /\ cache' = cache /\ late' = late
          /\ cur' = cur /\ stored \subseteq stored'
      BY <1>8, <2>1 DEF BatchWrite, CalmTask, Settled, SegmentPut, StatePut, db
    <2>3. Seg(cur) \subseteq Seg(cur)'
      BY <2>2 DEF Seg
    <2>4. CalmTask(t)'
      BY <2>2 DEF CalmTask
    <2> QED BY <1>5, <1>6, <1>s, <2>2, <2>3, <2>4
  <1>22. CASE BatchRetry(t)
    <2>1. /\ pc[t] = "batch" /\ pc' = pc /\ at' = at /\ at[t] = cur /\ UNCHANGED <<db, late>>
          /\ cache' = cache
      BY <1>8, <1>22 DEF BatchRetry, Answered, TryAgain, CalmTask, Settled
    <2> QED BY <1>m, <2>1
  <1>23. CASE BatchAck(t)
    <2>1. pc[t] = "batch" /\ at[t] = cur /\ pc'[t] = "idle" /\ SetCache(t) /\ UNCHANGED <<db, late>>
      BY <1>8, <1>9, <1>23 DEF BatchAck, BatchReturns, Answered, Finish, CalmTask, Settled
    <2> QED BY <1>m, <2>1 DEF Settled
  <1>24. CASE BatchError(t)
    <2>1. pc[t] = "batch" /\ pc'[t] = "idle" /\ cache' = cache /\ UNCHANGED <<db, late>>
      BY <1>9, <1>24 DEF BatchError, BatchReturns, Answered, Finish
    <2> QED BY <1>m, <2>1 DEF Settled
  <1>25. CASE BatchOverflow(t)
    <2>1. /\ pc[t] = "batch" /\ pc'[t] = "roll" /\ at'[t] = cur /\ rolls' = rolls /\ rolls[t] = 0
          /\ cache' = cache /\ late' = late /\ UNCHANGED db
      BY <1>8, <1>9, <1>25
      DEF BatchOverflow, BatchReturns, Answered, Move, CalmTask, Settled
    <2>2. cur' = cur /\ Seg(cur)' = Seg(cur)
      BY <2>1 DEF db, Seg
    <2>3. CalmTask(t)'
      BY <2>1, <2>2 DEF CalmTask
    <2> QED BY <1>5, <1>6, <1>s, <2>1, <2>2, <2>3
  <1> QED BY <1>11, <1>12, <1>13, <1>14, <1>15, <1>16, <1>17, <1>18, <1>19, <1>20,
             <1>21, <1>22, <1>23, <1>24, <1>25 DEF Step

LEMMA CalmStart ==
    ASSUME Sequential, SafetyInv, Calm, NEW t \in Tasks, NEW e \in Events,
           MayStart, StartAppend(t, e), UNCHANGED readerVars
    PROVE  Calm'
  <1>1. Quiet /\ Host[t] \in Procs /\ pc[t] = "idle"
    BY ConstantsAssumption DEF Sequential, MayStart, StartAppend
  <1>2. \A u \in Tasks : u # t => pc'[u] = "idle"
    BY <1>1 DEF Quiet, StartAppend, SafetyInv, TypeInv, TypeOK, TaskOK
  <1>3. \A r \in Readers : rpc'[r] # "opened"
    BY <1>1 DEF Quiet, Reading, readerVars
  <1>4. UNCHANGED <<db, cache, rolls, late>>
    BY DEF StartAppend
  <1>5. cur' = cur /\ Seg(cur)' = Seg(cur)
    BY <1>4 DEF db, Seg
  <1>6. \A p \in Procs : cache[p] \in {None, cur}
    BY <1>1 DEF Calm, Quiet
  <1>7. cur > 0 => Seg(cur) # {}
    BY <1>1 DEF Calm, Quiet
  <1>8. /\ rolls[t] = 0
        /\ \/ pc'[t] = "select"
           \/ pc'[t] \in {"put", "batch"} /\ at'[t] = cur
    BY <1>1, <1>6
    DEF StartAppend, FirstWrite, SafetyInv, TypeInv, TypeOK, TaskOK, TaskInv
  <1>9. CalmTask(t)'
    BY <1>4, <1>5, <1>8 DEF CalmTask, Settled
  <1>10. \A u \in Tasks : CalmTask(u)'
    BY <1>2, <1>9 DEF CalmTask, Settled
  <1> QED BY <1>3, <1>4, <1>5, <1>6, <1>7, <1>10 DEF Calm

\* Where the records, the tasks and what is in flight stay as they are.
LEMMA CalmStable ==
    ASSUME Calm, UNCHANGED <<db, taskVars, late>>,
           \A p \in Procs : cache'[p] \in {cache[p], cur},
           \A r \in Readers : rpc'[r] = "opened" => gidx'[r] = cur
    PROVE  Calm'
  <1>1. cur' = cur /\ Seg(cur)' = Seg(cur) /\ pc' = pc /\ at' = at /\ rolls' = rolls /\ late' = late
    BY DEF db, taskVars, Seg
  <1>2. \A t \in Tasks : CalmTask(t)'
    BY <1>1 DEF Calm, CalmTask
  <1> QED BY <1>1, <1>2 DEF Calm

LEMMA CalmNext ==
    ASSUME Sequential, Placeable
    PROVE  WalkInv /\ WalkInv' /\ CalmInv /\ [HNext]_hvars => CalmInv'
  <1> SUFFICES ASSUME WalkInv, WalkInv', CalmInv, [HNext]_hvars, faults' = 0 PROVE Calm'
    BY DEF CalmInv
  <1>1. /\ SafetyInv /\ SafetyInv' /\ AloneInv /\ HTypeOK /\ TypeOK /\ faults \in Nat
        /\ rpc \in [Readers -> {"idle", "opened", "walk", "done", "failed"}]
        /\ gidx \in [Readers -> Nat]
    BY DEF WalkInv, ReadInv, OrderInv, HTypeOK, TypeOK
  <1>2. ~((MayFail \/ faults < MaxFaults) /\ CountFault)
    BY <1>1, FaultCounts
  <1>4. ASSUME NEW t \in Tasks, Step(t), UNCHANGED readerVars PROVE Calm'
    <2>1. faults' >= faults
      BY <1>1, <1>4, StepEffects DEF SafetyInv
    <2>2. Calm
      BY <1>1, <2>1 DEF CalmInv
    <2> QED BY <1>1, <1>4, <2>2, CalmStep
  <1>5. ASSUME NEW t \in Tasks, NEW e \in Events,
               MayStart, StartAppend(t, e), UNCHANGED readerVars
        PROVE  Calm'
    <2>1. Calm
      BY <1>5 DEF StartAppend, CalmInv
    <2> QED BY <1>1, <1>5, <2>1, CalmStart
  <1>6. ASSUME NEW q \in late, ApplyLate(q) PROVE Calm'
    BY <1>6 DEF ApplyLate, CalmInv, Calm
  <1>7. ASSUME NEW p \in Procs, Crash(p) PROVE Calm'
    BY <1>2, <1>7 DEF Crash
  <1>8. ASSUME UNCHANGED vars PROVE Calm /\ UNCHANGED <<db, taskVars, late, cache>>
    BY <1>8 DEF vars, CalmInv
  <1>9. ASSUME NEW r \in Readers, NEW c \in Configs, OpenSession(r, c) PROVE Calm'
    <2>1. Calm /\ UNCHANGED <<db, taskVars, late, cache>>
      BY <1>8, <1>9 DEF OpenSession
    <2>2. \A u \in Readers : rpc'[u] = "opened" => gidx'[u] = cur
      BY <1>1, <1>9, <2>1 DEF OpenSession, Calm
    <2> QED BY <2>1, <2>2, CalmStable
  <1>10. ASSUME NEW r \in Readers, SeedCache(r) PROVE Calm'
    <2>1. Calm /\ UNCHANGED <<db, taskVars, late>> /\ gidx[r] = cur /\ gidx' = gidx
      BY <1>10 DEF SeedCache, CalmInv, Calm
    <2>2. \A p \in Procs : cache'[p] \in {cache[p], cur}
      BY <1>1, <1>10, <2>1 DEF SeedCache, TypeOK
    <2>3. \A u \in Readers : rpc'[u] = "opened" => gidx'[u] = cur
      BY <1>1, <1>10, <2>1 DEF SeedCache, Calm
    <2> QED BY <2>1, <2>2, <2>3, CalmStable
  <1>11. ASSUME NEW r \in Readers, LoadSegment(r) PROVE Calm'
    <2>1. Calm /\ UNCHANGED <<db, taskVars, late, cache>> /\ rpc[r] = "walk"
      BY <1>8, <1>11 DEF LoadSegment
    <2>2. \A u \in Readers : u # r => rpc'[u] = rpc[u] /\ gidx'[u] = gidx[u]
      BY <1>1, <1>11, ReaderLocal
    <2>3. rpc'[r] # "opened"
      BY <1>1, <1>11, <2>1 DEF LoadSegment
    <2>4. \A u \in Readers : rpc'[u] = "opened" => gidx'[u] = cur
      BY <2>1, <2>2, <2>3 DEF Calm
    <2> QED BY <2>1, <2>4, CalmStable
  <1>12. ASSUME NEW r \in Readers, ReadFails(r) PROVE Calm'
    BY <1>2, <1>12 DEF ReadFails
  <1>13. CASE UNCHANGED hvars
    <2>1. Calm /\ UNCHANGED <<db, taskVars, late, cache>> /\ UNCHANGED readerVars
      BY <1>8, <1>13 DEF hvars
    <2> QED BY <2>1, CalmStable DEF Calm, readerVars
  <1> QED BY <1>4, <1>5, <1>6, <1>7, <1>9, <1>10, <1>11, <1>12, <1>13 DEF HNext, ReaderStep

LEMMA CalmInit == HInit => CalmInv
  BY DEF HInit, Init, CalmInv, Calm, CalmTask, Settled

\* Then a session at rest has no empty segment.
LEMMA CalmSegments ==
    ASSUME Placeable, SafetyInv, CalmInv, faults = 0, \A t \in Tasks : pc[t] = "idle",
           NEW g \in Nat, 0 < g, g <= cur
    PROVE  Seg(g) # {}
  <1>1. cur \in Nat
    BY DEF SafetyInv, TypeInv, TypeOK, DbOK
  <1>2. CASE g = cur
    BY <1>2 DEF CalmInv, Calm
  <1>3. CASE g < cur
    <2>1. PICK k \in Keys : ~Accepts(g, k)
      BY <1>3 DEF SafetyInv, ServerInv, RecordInv
    <2> QED BY <2>1, RefusesNonempty
  <1> QED BY <1>1, <1>2, <1>3

-----------------------------------------------------------------------------
(* What a walk has read, when nothing is stored but what had been appended *)
(* when it began.                                                          *)

StoredEvents == {p[2][2] : p \in stored}
Same(r) == acked[r] = StoredEvents

\* Nothing that a walk left out is newer than what it has, unless a failure
\* has left a segment empty that ended it.
ExactInv(r) ==
    /\ acked[r] \subseteq StoredEvents
    /\ rpc[r] # "idle" => ToSet(collected[r]) \subseteq Wanted(config[r])
    /\ rpc[r] = "walk" /\ Same(r) =>
          \A p \in stored : p[1] > gidx[r] /\ p[2] \in Wanted(config[r]) =>
              p[2] \in ToSet(collected[r])
    /\ Done(r) /\ Same(r) /\ (faults = 0 \/ config[r].after = None) =>
          /\ \A k \in ToSet(collected[r]), j \in Wanted(config[r]) \ ToSet(collected[r]) :
                Newer(k, j)
          /\ \/ Wanted(config[r]) \subseteq ToSet(collected[r])
             \/ config[r].recent # None /\ Len(collected[r]) = config[r].recent

\* An event is stored once: if those stored after a step had been appended
\* when the read began, then the step stored nothing.
LEMMA SameStays ==
    ASSUME HTypeOK', OnceInv', stored \subseteq stored', NEW r \in Readers,
           acked[r] \subseteq StoredEvents, acked'[r] = acked[r], Same(r)'
    PROVE  stored' = stored /\ Same(r)
  <1>1. ASSUME NEW p \in stored' PROVE p \in stored
    <2>1. p[2][2] \in acked[r]
      BY DEF Same, StoredEvents
    <2>2. PICK q \in stored : q[2][2] = p[2][2]
      BY <2>1 DEF StoredEvents
    <2>3. q \in stored'
      BY <2>2
    <2>4. /\ p = <<p[1], p[2]>> /\ p[1] \in Nat /\ p[2] \in Keys
          /\ q = <<q[1], q[2]>> /\ q[1] \in Nat /\ q[2] \in Keys
      BY <2>3 DEF HTypeOK, TypeOK, DbOK
    <2>5. ASSUME NEW n \in Nat, NEW m \in Nat, NEW j \in Keys, NEW k \in Keys,
                 <<n, j>> \in stored', <<m, k>> \in stored', j[2] = k[2]
          PROVE  n = m /\ j = k
      <3>1. MayHold(n, j)' /\ MayHold(m, k)'
        BY <2>5 DEF MayHold
      <3> QED BY <2>5, <3>1 DEF OnceInv, OneSlot
    <2>6. p = q
      BY <2>2, <2>3, <2>4, <2>5
    <2> QED BY <2>6
  <1>2. stored' = stored
    BY <1>1
  <1> QED BY <1>2 DEF Same, StoredEvents

\* Steps of others leave the result alone.
LEMMA ExactStable ==
    ASSUME HTypeOK', OnceInv', stored \subseteq stored', faults' = 0 => faults = 0,
           NEW r \in Readers, ExactInv(r),
           rpc'[r] = rpc[r] \/ (rpc[r] # "idle" /\ rpc'[r] = "failed"),
           config'[r] = config[r], gidx'[r] = gidx[r],
           collected'[r] = collected[r], acked'[r] = acked[r]
    PROVE  ExactInv(r)'
  <1>1. StoredEvents \subseteq StoredEvents'
    BY DEF StoredEvents
  <1>2. Wanted(config[r]) \subseteq Wanted(config[r])'
    BY DEF Wanted
  <1>3. acked'[r] \subseteq StoredEvents' /\ (rpc'[r] # "idle" =>
          ToSet(collected'[r]) \subseteq Wanted(config[r])')
    BY <1>1, <1>2 DEF ExactInv
  <1>4. CASE ~Same(r)' \/ rpc'[r] = "failed"
    BY <1>3, <1>4 DEF ExactInv, Done
  <1>5. CASE Same(r)' /\ rpc'[r] = rpc[r]
    <2>1. stored' = stored /\ Same(r)
      BY <1>5, SameStays DEF ExactInv
    <2>2. Wanted(config[r])' = Wanted(config[r])
      BY <2>1 DEF Wanted
    <2>3. Done(r)' = Done(r)
      BY <1>5 DEF Done
    <2> QED BY <1>3, <1>5, <2>1, <2>2, <2>3 DEF ExactInv
  <1> QED BY <1>4, <1>5

LEMMA ExactOpen ==
    ASSUME ReadInv, NEW r \in Readers, NEW c \in Configs, OpenSession(r, c)
    PROVE  ExactInv(r)'
  <1>1. /\ rpc'[r] = "opened" /\ collected'[r] = <<>>
        /\ acked'[r] = {e \in Events : outcome[e] = "ok"} /\ stored' = stored
    BY DEF OpenSession, ReadInv, HTypeOK, vars, db
  <1>2. acked'[r] \subseteq StoredEvents'
    BY <1>1 DEF StoredEvents, ReadInv, SafetyInv, OutcomeInv, Told
  <1>3. ToSet(collected'[r]) = {}
    BY <1>1 DEF ToSet
  <1> QED BY <1>1, <1>2, <1>3 DEF ExactInv, Done

LEMMA ExactSeed ==
    ASSUME ReadInv, OrderInv, NEW r \in Readers, ExactInv(r), SeedCache(r)
    PROVE  ExactInv(r)'
  <1>1. /\ rpc[r] = "opened" /\ stored' = stored /\ config' = config /\ gidx' = gidx
        /\ collected' = collected /\ acked' = acked /\ collected[r] = <<>>
        /\ rpc'[r] = IF config[r].recent = 0 THEN "done" ELSE "walk"
    BY DEF SeedCache, ReadInv, ReaderInv, HTypeOK, db
  <1>2. ToSet(collected[r]) = {} /\ Len(collected[r]) = 0
    BY <1>1 DEF ToSet
  <1>3. acked'[r] \subseteq StoredEvents'
    BY <1>1 DEF ExactInv, StoredEvents
  <1>4. \A p \in stored : ~(p[1] > gidx[r])
    <2>1. \A p \in stored : p = <<p[1], p[2]>> /\ p[1] \in Nat /\ p[2] \in Keys
      BY DEF ReadInv, HTypeOK, TypeOK, DbOK
    <2>2. \A p \in stored : MayHold(p[1], p[2])
      BY <2>1 DEF MayHold
    <2>3. Below(gidx[r]) /\ gidx[r] \in Nat
      BY <1>1 DEF OrderInv, TopInv, ReadInv, HTypeOK
    <2>4. \A p \in stored : p[1] <= gidx[r]
      BY <2>1, <2>2, <2>3 DEF Below
    <2> QED BY <2>1, <2>3, <2>4
  <1>5. 0 # None
    BY ConstantsAssumption
  <1> QED BY <1>1, <1>2, <1>3, <1>4, <1>5 DEF ExactInv, Done

\* One round of the walk: what it leaves in its segment is older than what it
\* takes, and older segments hold older events.
LEMMA ExactLoad ==
    ASSUME Placeable, Sequential, WalkInv, CalmInv, NEW r \in Readers, ExactInv(r), LoadSegment(r)
    PROVE  ExactInv(r)'
  <1> DEFINE n == config[r].recent
             a == config[r].after
             g == gidx[r]
             old == collected[r]
             W == Wanted(config[r])
  <1>0. ReadInv /\ OrderInv /\ SafetyInv /\ HTypeOK
    BY DEF WalkInv, ReadInv
  <1>1. PICK t \in Seq(Keys) :
              /\ collected' = [collected EXCEPT ![r] = old \o t]
              /\ ToSet(t) \subseteq After(Seg(g), a)
              /\ \A k \in ToSet(t), j \in After(Seg(g), a) \ ToSet(t) : Newer(k, j)
              /\ \/ ToSet(t) = After(Seg(g), a)
                 \/ n # None /\ Len(old) + Len(t) = n
              /\ \/ /\ rpc' = [rpc EXCEPT ![r] = "done"] /\ gidx' = gidx
                    /\ \/ g = 0
                       \/ n # None /\ Len(old) + Len(t) = n
                       \/ a # None /\ After(Seg(g), a) = {}
                 \/ /\ rpc' = rpc /\ gidx' = [gidx EXCEPT ![r] = g - 1] /\ g # 0
                    /\ n # None => Len(old) + Len(t) < n
    BY <1>0, LoadFacts
  <1>2. /\ rpc[r] = "walk" /\ config' = config /\ acked' = acked /\ stored' = stored
        /\ faults' = faults /\ pc' = pc
    BY DEF LoadSegment, vars, db, taskVars
  <1>3. /\ old \in Seq(Keys) /\ g \in Nat /\ cur \in Nat /\ g <= cur
        /\ \A p \in stored : p = <<p[1], p[2]>> /\ p[1] \in Nat /\ p[2] \in Keys
    BY <1>0, <1>2 DEF ReadInv, ReaderInv, Reading, HTypeOK, TypeOK, DbOK
  <1>4. /\ collected'[r] = old \o t
        /\ ToSet(old \o t) = ToSet(old) \cup ToSet(t)
        /\ Len(old \o t) = Len(old) + Len(t)
    BY <1>0, <1>1, <1>3, ToSetConcat DEF HTypeOK
  \* Segment g holds this much of what is wanted.
  <1>5. /\ \A k \in After(Seg(g), a) : k \in W /\ k \in Keys /\ <<g, k>> \in stored
        /\ \A p \in stored : p[1] = g /\ p[2] \in W => p[2] \in After(Seg(g), a)
    <2>1. ASSUME NEW k \in After(Seg(g), a)
          PROVE  k \in W /\ k \in Keys /\ <<g, k>> \in stored
      BY <2>1 DEF After, Wanted, Seg
    <2>2. ASSUME NEW p \in stored, p[1] = g, p[2] \in W PROVE p[2] \in After(Seg(g), a)
      BY <1>3, <2>2 DEF After, Wanted, Seg
    <2> QED BY <2>1, <2>2
  <1>6. ToSet(old) \subseteq W /\ \A j \in W : j \in Keys /\ \E p \in stored : p[2] = j
    BY <1>2, <1>3 DEF ExactInv, Wanted
  <1>7. acked'[r] \subseteq StoredEvents' /\ ToSet(old \o t) \subseteq W
    BY <1>1, <1>2, <1>4, <1>5, <1>6 DEF ExactInv, StoredEvents
  <1>8. Same(r)' = Same(r) /\ W' = W
    BY <1>2 DEF Same, StoredEvents, Wanted
  <1>9. Same(r) => \A p \in stored : p[1] > g /\ p[2] \in W => p[2] \in ToSet(old)
    BY <1>2 DEF ExactInv
  \* What is in an older segment is older.
  <1>10. ASSUME NEW p \in stored, NEW q \in stored, p[1] > q[1] PROVE Newer(p[2], q[2])
    <2>1. MayHold(p[1], p[2]) /\ MayHold(q[1], q[2])
      BY <1>3 DEF MayHold
    <2>2. ~(q[1] >= p[1]) /\ p[1] # q[1]
      BY <1>3, <1>10
    <2>3. ~Newer(q[2], p[2])
      BY <1>0, <1>3, <2>1, <2>2 DEF OrderInv, SlotOrder
    <2>4. p[2] # q[2]
      BY <1>0, <1>3, <2>1, <2>2 DEF OrderInv, OnceInv, OneSlot
    <2> QED BY <1>3, <2>3, <2>4, NewerOrder
  <1>11. \A k \in ToSet(old) : \E p \in stored : p[2] = k /\ p[1] > g
    BY <1>0, <1>2, <1>3 DEF WalkInv, WalkOrder
  <1>12. \A k \in ToSet(t) : <<g, k>> \in stored
    BY <1>1, <1>5
  <1>13. ASSUME Same(r), NEW k \in ToSet(old \o t), NEW j \in W \ ToSet(old \o t)
         PROVE  Newer(k, j)
    <2>1. PICK q \in stored : q[2] = j
      BY <1>6
    <2>2. j \notin ToSet(old) /\ j \notin ToSet(t)
      BY <1>4
    <2>3. ~(q[1] > g)
      BY <1>9, <1>13, <2>1, <2>2
    <2>4. CASE k \in ToSet(old)
      <3>1. PICK p \in stored : p[2] = k /\ p[1] > g
        BY <1>11, <2>4
      <3>2. p[1] > q[1]
        BY <1>3, <2>3, <3>1
      <3> QED BY <1>10, <2>1, <3>1, <3>2
    <2>5. CASE k \in ToSet(t) /\ q[1] = g
      BY <1>1, <1>5, <2>1, <2>2, <2>5
    <2>6. CASE k \in ToSet(t) /\ q[1] # g
      <3>1. <<g, k>> \in stored
        BY <1>12, <2>6
      <3>2. PICK p \in stored : p = <<g, k>>
        BY <3>1
      <3>3. p[1] = g /\ p[2] = k /\ p[1] > q[1]
        BY <1>3, <2>3, <2>6, <3>2
      <3> QED BY <1>10, <2>1, <3>3
    <2> QED BY <1>4, <2>4, <2>5, <2>6
  <1>14. ASSUME Same(r), ToSet(t) = After(Seg(g), a), NEW p \in stored, p[1] >= g, p[2] \in W
         PROVE  p[2] \in ToSet(old \o t)
    BY <1>3, <1>4, <1>5, <1>9, <1>14
  <1>15. CASE rpc' = rpc /\ gidx' = [gidx EXCEPT ![r] = g - 1] /\ g # 0
              /\ (n # None => Len(old) + Len(t) < n)
    <2>1. rpc'[r] = "walk" /\ gidx'[r] = g - 1
      BY <1>0, <1>2, <1>15 DEF HTypeOK
    <2>2. ToSet(t) = After(Seg(g), a)
      <3>1. n \in Nat \cup {None} /\ Len(old) + Len(t) \in Nat
        BY <1>0, <1>2, <1>3, ReadersAssumption DEF ReadInv, ReaderInv
      <3> QED BY <1>1, <1>15, <3>1
    <2>3. \A p \in stored : p[1] > g - 1 => p[1] >= g
      BY <1>3
    <2>4. Same(r) => \A p \in stored : p[1] > gidx'[r] /\ p[2] \in W => p[2] \in ToSet(old \o t)
      BY <1>14, <2>1, <2>2, <2>3
    <2> HIDE DEF W, n, a, g, old
    <2> QED BY <1>2, <1>4, <1>7, <1>8, <2>1, <2>4 DEF ExactInv, Done, W
  <1>16. CASE /\ rpc' = [rpc EXCEPT ![r] = "done"] /\ gidx' = gidx
              /\ \/ g = 0
                 \/ n # None /\ Len(old) + Len(t) = n
                 \/ a # None /\ After(Seg(g), a) = {}
    <2>1. rpc'[r] = "done"
      BY <1>0, <1>16 DEF HTypeOK
    <2>2. ASSUME Same(r), faults = 0 \/ a = None, ~(n # None /\ Len(old) + Len(t) = n),
                 NEW j \in W
          PROVE  j \in ToSet(old \o t)
      <3>1. PICK q \in stored : q[2] = j
        BY <1>6
      <3>2. ToSet(t) = After(Seg(g), a)
        BY <1>1, <2>2
      <3>3. CASE g = 0
        BY <1>3, <1>14, <2>2, <3>1, <3>2, <3>3
      <3>4. CASE q[1] >= g
        BY <1>14, <2>2, <3>1, <3>2, <3>4
      <3>5. CASE g # 0 /\ q[1] < g
        <4>1. After(Seg(g), a) = {} /\ a # None /\ faults = 0
          BY <1>16, <2>2, <3>5
        <4>2. \A u \in Tasks : pc[u] = "idle"
          BY <1>0, <1>2 DEF OrderInv, AloneInv, Reading
        <4>3. PICK k \in Keys : <<g, k>> \in stored
          <5>1. Seg(g) # {}
            BY <1>0, <1>3, <3>5, <4>1, <4>2, CalmSegments
          <5> QED BY <5>1 DEF Seg
        <4>4. k[1] \in Nat /\ j[1] \in Nat /\ a \in Nat
          <5>1. k[1] \in Nat /\ j[1] \in Nat
            BY <1>6, KeyTime
          <5>2. a \in Nat \cup {None}
            BY <1>0, <1>2, ReadersAssumption DEF ReadInv, ReaderInv
          <5> QED BY <4>1, <5>1, <5>2
        <4>5. ~(k[1] >= a)
          BY <4>1, <4>3 DEF After, Seg
        <4>6. j[1] >= a
          BY <4>1 DEF Wanted
        <4>7. Newer(k, j)
          <5>1. PICK p \in stored : p = <<g, k>>
            BY <4>3
          <5> QED BY <1>10, <3>1, <3>5, <5>1
        <4>8. k[1] >= j[1]
          BY <4>4, <4>7 DEF Newer
        <4> QED BY <4>4, <4>5, <4>6, <4>8
      <3> QED BY <1>3, <3>1, <3>3, <3>4, <3>5
    <2> HIDE DEF W, n, a, g, old
    <2>3. Same(r) /\ (faults = 0 \/ a = None) =>
            \/ W \subseteq ToSet(old \o t)
            \/ n # None /\ Len(old \o t) = n
      BY <1>4, <2>2
    <2> QED BY <1>2, <1>4, <1>7, <1>8, <1>13, <2>1, <2>3 DEF ExactInv, Done, W, n, a
  <1> QED BY <1>1, <1>15, <1>16

MatchInv == WalkInv /\ CalmInv /\ \A r \in Readers : ExactInv(r)

LEMMA MatchInit == HInit => MatchInv
  <1> SUFFICES ASSUME HInit PROVE MatchInv
    OBVIOUS
  <1>1. ASSUME NEW r \in Readers PROVE ExactInv(r)
    <2>1. rpc[r] = "idle" /\ acked[r] = {}
      BY DEF HInit
    <2> QED BY <2>1 DEF ExactInv, Done
  <1> QED BY <1>1, WalkInit, CalmInit DEF MatchInv

LEMMA MatchNext ==
    ASSUME Sequential, Placeable
    PROVE  MatchInv /\ [HNext]_hvars => MatchInv'
  <1> SUFFICES ASSUME MatchInv, [HNext]_hvars PROVE MatchInv'
    OBVIOUS
  <1>1. WalkInv /\ CalmInv /\ \A r \in Readers : ExactInv(r)
    BY DEF MatchInv
  <1>2. WalkInv' /\ CalmInv'
    BY <1>1, WalkNext, CalmNext
  <1>3. /\ ReadInv /\ OrderInv /\ SafetyInv /\ HTypeOK /\ faults \in 0..MaxFaults
        /\ HTypeOK' /\ OnceInv'
    BY <1>1, <1>2 DEF WalkInv, ReadInv, OrderInv, HTypeOK, TypeOK
  <1>4. CountFault => faults' >= faults
    BY <1>3, ConstantsAssumption DEF CountFault
  <1>5. ASSUME NEW u \in Readers PROVE ExactInv(u)'
    <2>1. CASE [Next]_vars /\ UNCHANGED readerVars
      <3>1. stored \subseteq stored'
        BY <1>3, <2>1, NextMore DEF More
      <3>2. faults' >= faults
        <4>1. CASE UNCHANGED vars
          BY <1>3, <4>1 DEF vars
        <4>2. ASSUME NEW t \in Tasks, Step(t) PROVE faults' >= faults
          BY <1>3, <4>2, StepEffects DEF SafetyInv
        <4>3. CASE \E t \in Tasks, e \in Events : StartAppend(t, e)
          BY <1>3, <4>3 DEF StartAppend
        <4>4. CASE \E q \in late : ApplyLate(q)
          BY <1>3, <4>4 DEF ApplyLate
        <4>5. CASE \E p \in Procs : Crash(p)
          BY <1>4, <4>5 DEF Crash
        <4> QED BY <2>1, <4>1, <4>2, <4>3, <4>4, <4>5 DEF Next
      <3>3. faults' = 0 => faults = 0
        BY <1>3, <3>2
      <3> QED BY <1>1, <1>3, <2>1, <3>1, <3>3, ExactStable DEF readerVars
    <2>2. ASSUME NEW p \in Procs, Crash(p), ReadersDie(p) PROVE ExactInv(u)'
      <3>1. stored' = stored /\ faults' >= faults
        BY <1>4, <2>2 DEF Crash, db
      <3>2. faults' = 0 => faults = 0
        BY <1>3, <3>1
      <3>3. /\ config'[u] = config[u] /\ gidx'[u] = gidx[u]
            /\ collected'[u] = collected[u] /\ acked'[u] = acked[u]
            /\ rpc'[u] = rpc[u] \/ (rpc[u] # "idle" /\ rpc'[u] = "failed")
        BY <2>2 DEF ReadersDie, Reading
      <3> QED BY <1>1, <1>3, <3>1, <3>2, <3>3, ExactStable
    <2>3. ASSUME NEW r \in Readers, r # u,
                 \/ \E c \in Configs : OpenSession(r, c)
                 \/ SeedCache(r) \/ LoadSegment(r) \/ ReadFails(r)
          PROVE  ExactInv(u)'
      <3>1. /\ rpc'[u] = rpc[u] /\ config'[u] = config[u] /\ gidx'[u] = gidx[u]
            /\ collected'[u] = collected[u] /\ acked'[u] = acked[u] /\ stored' = stored
        BY <1>3, <2>3, ReaderLocal DEF db
      <3>2. faults' = faults \/ CountFault
        BY <2>3 DEF OpenSession, SeedCache, LoadSegment, ReadFails, vars
      <3>3. faults' = 0 => faults = 0
        BY <1>3, <1>4, <3>2
      <3> QED BY <1>1, <1>3, <3>1, <3>3, ExactStable
    <2>4. ASSUME NEW c \in Configs, OpenSession(u, c) PROVE ExactInv(u)'
      BY <1>3, <2>4, ExactOpen
    <2>5. CASE SeedCache(u)
      BY <1>1, <1>3, <2>5, ExactSeed
    <2>6. CASE LoadSegment(u)
      BY <1>1, <2>6, ExactLoad
    <2>7. CASE ReadFails(u)
      <3>1. /\ config'[u] = config[u] /\ gidx'[u] = gidx[u] /\ stored' = stored
            /\ collected'[u] = collected[u] /\ acked'[u] = acked[u]
            /\ rpc[u] # "idle" /\ rpc'[u] = "failed" /\ CountFault
        BY <1>3, <2>7 DEF ReadFails, HTypeOK, Reading, db
      <3>2. faults' = 0 => faults = 0
        BY <1>3, <1>4, <3>1
      <3> QED BY <1>1, <1>3, <3>1, <3>2, ExactStable
    <2> QED BY <2>1, <2>2, <2>3, <2>4, <2>5, <2>6, <2>7, HNextSplits
  <1> QED BY <1>2, <1>5 DEF MatchInv

LEMMA MatchCorrect ==
    ASSUME Sequential, Placeable
    PROVE  HSpec => []MatchInv
  BY MatchInit, MatchNext, PTL DEF HSpec

\* In the same sequential use, when every event fits in a record by itself,
\* get_session returns under any config exactly the newest stored events from
\* the cutoff on, as if there were no segments; after failures too, unless there
\* is a cutoff, which an empty segment left by a failed append may cut short.
THEOREM ReadsExact ==
    ASSUME Sequential, Placeable
    PROVE  HSpec => []ReadMatchesReference
  <1>1. ASSUME MatchInv PROVE ReadMatchesReference
    <2> SUFFICES ASSUME NEW r \in Readers, Done(r), acked[r] = {p[2][2] : p \in stored},
                        faults = 0 \/ config[r].after = None
                 PROVE  collected[r] = Reference(config[r])
      BY DEF ReadMatchesReference
    <2> DEFINE W == Wanted(config[r])
               f == [p \in stored |-> p[2]]
               K == {p[2] : p \in stored}
    <2>1. Same(r) /\ ExactInv(r) /\ ReaderInv(r) /\ WalkOrder(r) /\ DbOK
      BY <1>1 DEF Same, StoredEvents, MatchInv, WalkInv, ReadInv, HTypeOK, TypeOK
    <2>2. f \in Surjection(stored, K) /\ IsFiniteSet(stored)
      BY <1>1 DEF Surjection, MatchInv, WalkInv, ReadInv
    <2>3. IsFiniteSet(K)
      BY <2>2, FS_Surjection
    <2>4. W \in SUBSET K /\ K \in SUBSET Keys
      BY <2>1 DEF Wanted, DbOK
    <2>5. IsFiniteSet(W) /\ W \in SUBSET Keys
      BY <2>3, <2>4, FS_Subset
    <2>6. config[r] \in Configs /\ collected[r] \in Seq(Keys) /\ Descending(collected[r])
      BY <1>1, <2>1 DEF ReaderInv, WalkOrder, Done, MatchInv, WalkInv, ReadInv, HTypeOK
    <2>7. config[r].recent \in Nat \cup {None}
      BY <2>6, ReadersAssumption
    <2>8. /\ ToSet(collected[r]) \subseteq W
          /\ \A k \in ToSet(collected[r]), j \in W \ ToSet(collected[r]) : Newer(k, j)
          /\ config[r].recent # None => Len(collected[r]) <= config[r].recent
          /\ \/ W \subseteq ToSet(collected[r])
             \/ config[r].recent # None /\ Len(collected[r]) = config[r].recent
      BY <2>1 DEF ExactInv, ReaderInv, Done
    <2> HIDE DEF W
    <2>9. collected[r] = Take(NewestFirst(W), config[r].recent)
      BY <2>5, <2>6, <2>7, <2>8, NewestUnique
    <2> QED BY <2>9 DEF Reference, W
  <1> QED BY <1>1, MatchCorrect, PTL
=============================================================================
