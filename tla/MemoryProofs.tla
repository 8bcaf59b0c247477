---------------------------- MODULE MemoryProofs ----------------------------
(***************************************************************************)
(* What holds of MemoryPostings for every value of its constants: posting  *)
(* lists are bounded, a session that is added replaces its rows, and, when *)
(* callers write a session from one call at a time, no ref dangles.        *)
(***************************************************************************)
EXTENDS MemoryPostings, FiniteSetTheorems, TLAPS

-----------------------------------------------------------------------------
(* Lists.                                                                  *)

\* Only counts its places: each one up to their number has an element.
LEMMA OnlyPlaces ==
    ASSUME NEW n \in Nat, NEW kept \in SUBSET (1..n)
    PROVE  /\ IsFiniteSet(kept) /\ Cardinality(kept) \in Nat /\ Cardinality(kept) <= n
           /\ \A j \in 1..Cardinality(kept) :
                 \E i \in kept : Cardinality({k \in kept : k <= i}) = j
<1> DEFINE Upto(i) == {k \in kept : k <= i}
           N == Cardinality(kept)
           rank == [i \in kept |-> Cardinality(Upto(i))]
<1>1. IsFiniteSet(1..n) /\ Cardinality(1..n) = n
  BY FS_Interval
<1>2. IsFiniteSet(kept) /\ N <= n
  BY <1>1, FS_Subset
<1>3. N \in Nat
  BY <1>2, FS_CardinalityType
<1>4. ASSUME NEW i \in kept
      PROVE  IsFiniteSet(Upto(i)) /\ Cardinality(Upto(i)) \in 1..N
  <2>1. Upto(i) \in SUBSET kept
    OBVIOUS
  <2>2. IsFiniteSet(Upto(i)) /\ Cardinality(Upto(i)) <= N
    BY <1>2, <2>1, FS_Subset
  <2>3. Cardinality(Upto(i)) \in Nat
    BY <2>2, FS_CardinalityType
  <2>4. i \in Upto(i)
    OBVIOUS
  <2>5. Cardinality(Upto(i)) # 0
    BY <2>2, <2>4, FS_EmptySet
  <2> QED
    BY <2>2, <2>3, <2>5, <1>3
<1>5. ASSUME NEW i \in kept, NEW j \in kept, i < j
      PROVE  Cardinality(Upto(i)) # Cardinality(Upto(j))
  <2>0. \A k \in kept : k <= i => k <= j
    <3>1. \A k \in kept : k \in Nat
      OBVIOUS
    <3> QED
      BY <1>5, <3>1
  <2>1. Upto(i) \in SUBSET Upto(j)
    BY <2>0
  <2>2. j \in Upto(j) /\ j \notin Upto(i)
    BY <1>5
  <2> QED
    BY <1>4, <2>1, <2>2, FS_Subset
<1>6. rank \in [kept -> 1..N]
  BY <1>4
<1>7. ASSUME NEW i \in kept, NEW j \in kept, rank[i] = rank[j]
      PROVE  i = j
  <2>1. i < j \/ j < i \/ i = j
    OBVIOUS
  <2> QED
    BY <1>5, <1>7, <2>1
<1>8. rank \in Injection(kept, 1..N)
  BY <1>6, <1>7 DEF Injection, IsInjective
<1>9. IsFiniteSet(1..N) /\ Cardinality(1..N) = N
  BY <1>3, FS_Interval
<1>10. rank \in Surjection(kept, 1..N)
  BY <1>8, <1>9, FS_Injection
<1>11. \A j \in 1..N : \E i \in kept : rank[i] = j
  BY <1>10 DEF Surjection
<1> QED
  BY <1>2, <1>3, <1>11

\* What Only returns: a list no longer, of the elements kept.
LEMMA OnlyFacts ==
    ASSUME NEW S, NEW list \in Seq(S), NEW kept \in SUBSET DOMAIN list
    PROVE  /\ Only(list, kept) \in Seq(S)
           /\ Len(Only(list, kept)) <= Len(list)
           /\ \A x \in ToSet(Only(list, kept)) : \E i \in kept : x = list[i]
<1> DEFINE N == Cardinality(kept)
           Place(j) == CHOOSE i \in kept : Cardinality({k \in kept : k <= i}) = j
<1>1. DOMAIN list = 1..Len(list) /\ Len(list) \in Nat
  OBVIOUS
<1>2. /\ N \in Nat /\ N <= Len(list)
      /\ \A j \in 1..N : \E i \in kept : Cardinality({k \in kept : k <= i}) = j
  BY <1>1, OnlyPlaces
<1>3. \A j \in 1..N : Place(j) \in kept
  BY <1>2
<1>4. Only(list, kept) = [j \in 1..N |-> list[Place(j)]]
  BY DEF Only
<1> HIDE DEF Place
<1>5. \A j \in 1..N : list[Place(j)] \in S
  BY <1>3, <1>1
<1>6. Only(list, kept) \in Seq(S) /\ Len(Only(list, kept)) = N
  BY <1>2, <1>4, <1>5
<1> QED
  BY <1>2, <1>3, <1>4, <1>6 DEF ToSet

\* The server's removals shorten a list and add nothing to it.
LEMMA WithoutFacts ==
    ASSUME NEW S, NEW list \in Seq(S), NEW x
    PROVE  /\ Without(list, x) \in Seq(S)
           /\ Len(Without(list, x)) <= Len(list)
           /\ ToSet(Without(list, x)) \subseteq ToSet(list) \ {x}
<1> DEFINE kept == {i \in DOMAIN list : list[i] # x}
<1>1. kept \in SUBSET DOMAIN list
  OBVIOUS
<1>2. Without(list, x) = Only(list, kept)
  BY DEF Without
<1>3. /\ Only(list, kept) \in Seq(S) /\ Len(Only(list, kept)) <= Len(list)
      /\ \A y \in ToSet(Only(list, kept)) : \E i \in kept : y = list[i]
  BY <1>1, OnlyFacts
<1>4. ASSUME NEW y \in ToSet(Only(list, kept)) PROVE y \in ToSet(list) \ {x}
  <2>1. PICK i \in kept : y = list[i]
    BY <1>3
  <2> QED
    BY <2>1 DEF ToSet
<1> QED
  BY <1>2, <1>3, <1>4

LEMMA TrimmedFacts ==
    ASSUME NEW S, NEW list \in Seq(S), NEW n \in Nat
    PROVE  LET l == SubSeq(list, n + 1, Len(list)) IN
           /\ l \in Seq(S)
           /\ Len(l) <= Len(list)
           /\ n > 0 => Len(l) = 0 \/ Len(l) < Len(list)
           /\ ToSet(l) \subseteq ToSet(list)
<1> DEFINE l == SubSeq(list, n + 1, Len(list))
<1>1. CASE n + 1 > Len(list)
  BY <1>1 DEF ToSet
<1>2. CASE n + 1 <= Len(list)
  <2>1. l \in Seq(S) /\ Len(l) = Len(list) - n
    BY <1>2
  <2>2. \A i \in 1..Len(l) : l[i] = list[n + i]
    BY <1>2
  <2> QED
    BY <1>2, <2>1, <2>2 DEF ToSet
<1> QED
  BY <1>1, <1>2

LEMMA AppendFacts ==
    ASSUME NEW S, NEW list \in Seq(S), NEW x \in S
    PROVE  /\ Append(list, x) \in Seq(S)
           /\ Len(Append(list, x)) = Len(list) + 1
           /\ ToSet(Append(list, x)) = ToSet(list) \cup {x}
<1> DEFINE l == Append(list, x)
<1>1. l \in Seq(S) /\ Len(l) = Len(list) + 1 /\ Len(list) \in Nat
  OBVIOUS
<1>2. l[Len(list) + 1] = x /\ \A i \in 1..Len(list) : l[i] = list[i]
  OBVIOUS
<1>3. DOMAIN list = 1..Len(list) /\ DOMAIN l = 1..(Len(list) + 1)
  BY <1>1
<1> HIDE DEF l
<1>4. ToSet(l) = {l[i] : i \in 1..(Len(list) + 1)} /\ ToSet(list) = {list[i] : i \in 1..Len(list)}
  BY <1>3 DEF ToSet
<1>5. \A i \in 1..(Len(list) + 1) : i \in 1..Len(list) \/ i = Len(list) + 1
  BY <1>1
<1>6. \A i \in 1..Len(list) : i \in 1..(Len(list) + 1)
  BY <1>1
<1>7. Len(list) + 1 \in 1..(Len(list) + 1)
  BY <1>1
<1>8. ToSet(l) = ToSet(list) \cup {x}
  BY <1>2, <1>4, <1>5, <1>6, <1>7
<1> QED
  BY <1>1, <1>8 DEF l

\* The events with text are events.
LEMMA TextsType ==
    ASSUME NEW t \in Writers
    PROVE  /\ Texts(t) \in Seq(EventType)
           /\ \A f \in ToSet(Texts(t)) : f \in EventType /\ f.eid \in Eids
<1> DEFINE kept == {i \in DOMAIN Input[t] : Input[t][i].text}
<1>1. Input[t] \in Seq(EventType)
  BY MemoryAssumption
<1>2. kept \in SUBSET DOMAIN Input[t]
  OBVIOUS
<1>3. Texts(t) \in Seq(EventType)
  BY <1>1, <1>2, OnlyFacts DEF Texts
<1>4. \A i \in DOMAIN Texts(t) : Texts(t)[i] \in EventType
  BY <1>3
<1>5. \A f \in ToSet(Texts(t)) : f \in EventType
  BY <1>4 DEF ToSet
<1> QED
  BY <1>3, <1>5 DEF EventType

\* The elements of a list are its head and those of its tail.
LEMMA HeadTail ==
    ASSUME NEW S, NEW list \in Seq(S), list # <<>>
    PROVE  /\ Head(list) \in S /\ Tail(list) \in Seq(S)
           /\ ToSet(list) = {Head(list)} \cup ToSet(Tail(list))
<1>1. Head(list) = list[1] /\ Len(list) \in Nat /\ Len(list) > 0
  OBVIOUS
<1>2. Tail(list) \in Seq(S) /\ Len(Tail(list)) = Len(list) - 1
  BY <1>1
<1>3. \A i \in 1..Len(Tail(list)) : Tail(list)[i] = list[i + 1]
  BY <1>1, <1>2
<1>4. \A i \in 2..Len(list) : i - 1 \in 1..Len(Tail(list)) /\ Tail(list)[i - 1] = list[i]
  BY <1>1, <1>2, <1>3
<1>5. ASSUME NEW x \in ToSet(list) PROVE x = Head(list) \/ x \in ToSet(Tail(list))
  <2>1. PICK i \in 1..Len(list) : x = list[i]
    BY DEF ToSet
  <2>2. CASE i = 1
    BY <1>1, <2>1, <2>2
  <2>3. CASE i \in 2..Len(list)
    <3>1. i - 1 \in DOMAIN Tail(list) /\ x = Tail(list)[i - 1]
      BY <1>2, <1>4, <2>1, <2>3
    <3> QED
      BY <3>1, Zenon DEF ToSet
  <2> QED
    BY <2>1, <2>2, <2>3
<1>6. ASSUME NEW x \in ToSet(Tail(list)) PROVE x \in ToSet(list)
  <2>1. PICK i \in 1..Len(Tail(list)) : x = Tail(list)[i]
    BY <1>2 DEF ToSet
  <2>2. i + 1 \in 1..Len(list) /\ x = list[i + 1]
    BY <1>1, <1>2, <1>3, <2>1
  <2> QED
    BY <2>2 DEF ToSet
<1>7. Head(list) \in ToSet(list)
  BY <1>1 DEF ToSet
<1> QED
  BY <1>1, <1>2, <1>5, <1>6, <1>7

-----------------------------------------------------------------------------
(* Types and control.                                                      *)

\* The labels of each kind of call, and those at which a writer has an item.
AdderLabels    == {"start", "unref", "remove", "put", "post", "trim", "added", "failed"}
IngesterLabels == {"start", "check", "put", "post", "trim", "added", "failed"}
SearcherLabels == {"start", "read", "rows", "found", "failed"}
Busy           == {"unref", "remove", "check", "put", "post", "trim"}

Excesses == [word : Words \cup {None}, n : Nat]

\* The types of what the writers read and write.
Types ==
    /\ row \in [Sids \X Eids -> RowType \cup {None}]
    /\ postings \in [Words -> Seq(Refs)]
    /\ todo \in [Writers -> SUBSET EventType]
    /\ input \in [Writers -> Seq(EventType)]
    /\ item \in [Writers -> EventType \cup {None}]
    /\ left \in [Tasks -> SUBSET Words]
    /\ excess \in [Writers -> Excesses]
    /\ late \subseteq [op : Writes, by : Writers, word : Words \cup {None}]
    /\ struck \subseteq Writers
    /\ seen \in [Tasks -> SUBSET Writers]
    /\ faults \in Nat

\* A call only reaches the labels of its kind, with what it needs there.
PhaseInv ==
    /\ pc \in [Tasks -> Labels]
    /\ \A t \in Adders : pc[t] \in AdderLabels
    /\ \A t \in Ingesters : pc[t] \in IngesterLabels
    /\ \A q \in Searchers : pc[q] \in SearcherLabels
    /\ \A t \in Writers : pc[t] \in Busy => item[t] \in EventType
    /\ \A t \in Writers : pc[t] = "trim" => excess[t].word \in Words /\ excess[t].n > 0

\* A late request is the write at which its call has failed.
LateInv ==
    /\ \A q \in late :
        /\ pc[q.by] = "failed" /\ item[q.by] \in EventType
        /\ q.op \in {"post", "unref"} => q.word \in left[q.by]
        /\ q.op = "trim" => q.word = excess[q.by].word /\ q.word \in Words /\ excess[q.by].n > 0
    /\ \A q, r \in late : q.by = r.by => q = r

ControlInv == Types /\ PhaseInv /\ LateInv

\* A step of a search, seen from the writers: it changes only what is its own.
Aside ==
    /\ UNCHANGED <<row, postings, todo, input, item, excess, late, struck>>
    /\ faults' \in Nat /\ faults' >= faults
    /\ \E q \in Searchers :
        /\ pc' = [pc EXCEPT ![q] = pc'[q]] /\ pc'[q] \in SearcherLabels
        /\ left' = [left EXCEPT ![q] = left'[q]] /\ left'[q] \subseteq Words
        /\ seen' = [seen EXCEPT ![q] = seen'[q]] /\ seen'[q] \subseteq Writers

\* A step of writer t changes of the writers' state only what is its own, and
\* the rows of its session; its write joins the late requests if its call fails.
Fails(t) ==
    /\ pc'[t] = "failed"
    /\ item'[t] = item[t] /\ left'[t] = left[t] /\ excess'[t] = excess[t]
    /\ \E q \in InFlight(t) : late' = late \cup {q}

Own(t) ==
    /\ pc[t] \notin Ended /\ pc'[t] # "start"
    /\ struck' = struck
    /\ late' = late \/ Fails(t)
    /\ pc' = [pc EXCEPT ![t] = pc'[t]]
    /\ todo' = [todo EXCEPT ![t] = todo'[t]]
    /\ input' = [input EXCEPT ![t] = input'[t]]
    /\ item' = [item EXCEPT ![t] = item'[t]]
    /\ left' = [left EXCEPT ![t] = left'[t]]
    /\ excess' = [excess EXCEPT ![t] = excess'[t]]
    /\ \A s \in Sids : \A e \in Eids : s # Session[t] => row'[<<s, e>>] = row[<<s, e>>]

\* Words become words, and events rows.
LEMMA TokenizeType ==
    ASSUME NEW W \in SUBSET Words
    PROVE  Tokenize(W) \subseteq Words
  BY MemoryAssumption DEF Tokenize

LEMMA ContentType ==
    ASSUME NEW e \in EventType
    PROVE  Content(e) \in RowType /\ Content(e) # None
<1>1. e.words \in SUBSET Words /\ e.ts \in Nat
  BY DEF EventType
<1>2. Tokenize(e.words) \in SUBSET Words
  BY <1>1, TokenizeType
<1>3. Content(e) \in RowType
  BY <1>1, <1>2 DEF Content, RowType
<1> QED
  BY <1>3, MemoryAssumption

\* The rows that the purge query returns are those of the session.
LEMMA RowsOfType ==
    ASSUME Types, NEW s \in Sids
    PROVE  RowsOf({s}) \subseteq EventType
<1>1. SUFFICES ASSUME NEW k \in {s} \X Eids, row[k] # None
               PROVE  [eid |-> k[2], words |-> row[k].words, ts |-> row[k].ts, text |-> TRUE]
                         \in EventType
  BY DEF RowsOf
<1>2. k \in Sids \X Eids /\ k[2] \in Eids
  OBVIOUS
<1>3. row[k] \in RowType
  BY <1>1, <1>2 DEF Types
<1> QED
  BY <1>2, <1>3 DEF EventType, RowType

\* What a write of the server does to the database.
LEMMA ApplyTypes ==
    ASSUME ControlInv, NEW t \in Writers, item[t] \in EventType,
           NEW op, NEW w, op \in {"post", "unref"} => w \in Words,
           op = "trim" => excess[t].word \in Words,
           Apply(t, op, w)
    PROVE  /\ row' \in [Sids \X Eids -> RowType \cup {None}]
           /\ postings' \in [Words -> Seq(Refs)]
           /\ \A s \in Sids : \A e \in Eids : s # Session[t] => row'[<<s, e>>] = row[<<s, e>>]
<1> DEFINE Typed == /\ row' \in [Sids \X Eids -> RowType \cup {None}]
                   /\ postings' \in [Words -> Seq(Refs)]
                   /\ \A s \in Sids : \A e \in Eids : s # Session[t] => row'[<<s, e>>] = row[<<s, e>>]
<1>1. item[t].eid \in Eids /\ item[t].ts \in Nat /\ Session[t] \in Sids
  BY MemoryAssumption DEF EventType
<1>2. row \in [Sids \X Eids -> RowType \cup {None}] /\ postings \in [Words -> Seq(Refs)]
  BY DEF ControlInv, Types
<1>3. RefOf(t) \in Refs
  BY <1>1 DEF RefOf, Refs
<1>4. ASSUME NEW r \in RowType \cup {None}, PutRow(Session[t], item[t].eid, r)
      PROVE  Typed
  BY <1>1, <1>2, <1>4 DEF PutRow
<1>5. ASSUME NEW v \in Words, NEW list \in Seq(Refs), SetList(v, list)
      PROVE  Typed
  BY <1>2, <1>5 DEF SetList
<1>6. CASE op = "put"
  BY <1>4, <1>6, ContentType DEF Apply
<1>7. CASE op = "remove"
  BY <1>4, <1>7 DEF Apply
<1>8. CASE op = "post"
  BY <1>2, <1>3, <1>5, <1>8, AppendFacts DEF Apply
<1>9. CASE op = "unref"
  BY <1>2, <1>5, <1>9, WithoutFacts DEF Apply
<1>10. CASE op = "trim"
  <2>1. excess[t].n \in Nat
    BY DEF ControlInv, Types, Excesses
  <2> QED
    BY <1>2, <1>5, <1>10, <2>1, TrimmedFacts DEF Apply
<1> QED
  BY <1>6, <1>7, <1>8, <1>9, <1>10 DEF Apply

\* The control of a writer between two events.
LEMMA NextEventTypes ==
    ASSUME ControlInv, NEW t \in Writers, NEW events \in Seq(EventType), NextEvent(t, events)
    PROVE  /\ input' = [input EXCEPT ![t] = input'[t]] /\ input'[t] \in Seq(EventType)
           /\ item' = [item EXCEPT ![t] = item'[t]] /\ item'[t] \in EventType \cup {None}
           /\ left' = [left EXCEPT ![t] = left'[t]] /\ left'[t] \subseteq Words
           /\ pc' = [pc EXCEPT ![t] = pc'[t]]
           /\ \/ pc'[t] = "added"
              \/ /\ pc'[t] = IF t \in Ingesters THEN "check" ELSE "put"
                 /\ item'[t] \in EventType
<1>1. t \in Tasks
  BY DEF Tasks
<1>2. CASE events = <<>>
  BY <1>1, <1>2 DEF NextEvent, Goto, ControlInv, Types, PhaseInv
<1>3. CASE events # <<>>
  <2>1. Head(events) \in EventType /\ Tail(events) \in Seq(EventType)
    BY <1>3, HeadTail
  <2>2. Tokenize(Head(events).words) \subseteq Words
    BY <2>1, TokenizeType DEF EventType
  <2> QED
    BY <1>1, <1>3, <2>1, <2>2 DEF NextEvent, Goto, ControlInv, Types, PhaseInv
<1> QED
  BY <1>2, <1>3

\* The control of a writer between two rows to purge.
LEMMA TakeTypes ==
    ASSUME ControlInv, NEW t \in Adders, NEW rows \in SUBSET EventType, Take(t, rows)
    PROVE  /\ todo' = [todo EXCEPT ![t] = todo'[t]] /\ todo'[t] \subseteq EventType
           /\ input' = [input EXCEPT ![t] = input'[t]] /\ input'[t] \in Seq(EventType)
           /\ item' = [item EXCEPT ![t] = item'[t]] /\ item'[t] \in EventType \cup {None}
           /\ left' = [left EXCEPT ![t] = left'[t]] /\ left'[t] \subseteq Words
           /\ pc' = [pc EXCEPT ![t] = pc'[t]]
           /\ \/ pc'[t] = "added"
              \/ pc'[t] \in {"unref", "remove", "put"} /\ item'[t] \in EventType
<1>1. t \in Writers /\ t \in Tasks /\ t \notin Ingesters
  BY MemoryAssumption DEF Writers, Tasks
<1>2. CASE NextEvent(t, Texts(t)) /\ UNCHANGED todo
  BY <1>1, <1>2, TextsType, NextEventTypes DEF ControlInv, Types
<1>3. CASE ~(NextEvent(t, Texts(t)) /\ UNCHANGED todo)
  <2>1. PICK x \in rows :
            /\ todo' = [todo EXCEPT ![t] = rows \ {x}]
            /\ item' = [item EXCEPT ![t] = x]
            /\ left' = [left EXCEPT ![t] = x.words]
            /\ pc' = [pc EXCEPT ![t] = IF x.words = {} THEN "remove" ELSE "unref"]
            /\ UNCHANGED input
    BY <1>3 DEF Take, Goto
  <2>2. x \in EventType /\ x.words \subseteq Words
    BY DEF EventType
  <2> QED
    BY <1>1, <2>1, <2>2 DEF ControlInv, Types, PhaseInv
<1> QED
  BY <1>2, <1>3

LEMMA AfterPostTypes ==
    ASSUME ControlInv, NEW t \in Writers, item[t] \in EventType,
           NEW words \in SUBSET Words, AfterPost(t, words)
    PROVE  /\ input' = [input EXCEPT ![t] = input'[t]] /\ input'[t] \in Seq(EventType)
           /\ item' = [item EXCEPT ![t] = item'[t]] /\ item'[t] \in EventType \cup {None}
           /\ left' = [left EXCEPT ![t] = left'[t]] /\ left'[t] \subseteq Words
           /\ pc' = [pc EXCEPT ![t] = pc'[t]]
           /\ \/ pc'[t] = "added"
              \/ /\ pc'[t] \in {"post", IF t \in Ingesters THEN "check" ELSE "put"}
                 /\ item'[t] \in EventType
<1>1. t \in Tasks /\ input[t] \in Seq(EventType)
  BY DEF Tasks, ControlInv, Types
<1>2. CASE NextEvent(t, input[t])
  BY <1>1, <1>2, NextEventTypes
<1>3. CASE ~NextEvent(t, input[t])
  BY <1>1, <1>3 DEF AfterPost, Goto, ControlInv, Types, PhaseInv
<1> QED
  BY <1>2, <1>3

\* A step of writer t that keeps the types of what is its own keeps them all.
LEMMA OwnTypes ==
    ASSUME ControlInv, NEW t \in Writers, Own(t),
           row' \in [Sids \X Eids -> RowType \cup {None}],
           postings' \in [Words -> Seq(Refs)],
           todo'[t] \subseteq EventType, input'[t] \in Seq(EventType),
           item'[t] \in EventType \cup {None}, left'[t] \subseteq Words,
           excess'[t] \in Excesses, faults' \in Nat,
           seen' \in [Tasks -> SUBSET Writers],
           t \in Adders => pc'[t] \in AdderLabels,
           t \in Ingesters => pc'[t] \in IngesterLabels,
           pc'[t] \in Busy => item'[t] \in EventType,
           pc'[t] = "trim" => excess'[t].word \in Words /\ excess'[t].n > 0
    PROVE  ControlInv'
<1>1. t \in Tasks /\ t \notin Searchers
  BY MemoryAssumption DEF Tasks
<1>2. Types'
  <2>1. \A q \in InFlight(t) : q \in [op : Writes, by : Writers, word : Words \cup {None}]
    <3> SUFFICES ASSUME NEW q \in InFlight(t)
                 PROVE  q \in [op : Writes, by : Writers, word : Words \cup {None}]
      OBVIOUS
    <3>1. pc[t] \in Writes
      BY DEF InFlight
    <3>2. PICK w \in (IF pc[t] \in {"post", "unref"} THEN left[t] ELSE {excess[t].word}) :
            q = [op |-> pc[t], by |-> t, word |-> w]
      BY <3>1 DEF InFlight
    <3>3. w \in Words \cup {None}
      BY <1>1 DEF ControlInv, Types, Excesses
    <3> QED
      BY <3>1, <3>2, <3>3
  <2>2. late' \subseteq [op : Writes, by : Writers, word : Words \cup {None}]
    BY <2>1 DEF Own, Fails, ControlInv, Types
  <2> QED
    BY <1>1, <2>2 DEF Own, ControlInv, Types
<1>3. pc'[t] \in Labels
  BY DEF Writers, AdderLabels, IngesterLabels, Labels, Ended
<1>4. \A u \in Tasks \ {t} : pc'[u] = pc[u]
  BY DEF Own, ControlInv, PhaseInv
<1>5. \A u \in Writers \ {t} : item'[u] = item[u] /\ excess'[u] = excess[u]
  BY DEF Own, ControlInv, Types
<1>6. pc' \in [Tasks -> Labels]
  BY <1>1, <1>3 DEF Own, ControlInv, PhaseInv
<1>7. PhaseInv'
  BY <1>1, <1>4, <1>5, <1>6 DEF ControlInv, PhaseInv, Writers, Tasks
<1>8. \A q \in late : /\ q.by \in Writers \ {t} /\ q.by \in Tasks
                      /\ left'[q.by] = left[q.by]
  BY DEF Own, Ended, ControlInv, LateInv, Types, Tasks
<1>9. ASSUME NEW q \in InFlight(t), Fails(t)
      PROVE  /\ q.by = t /\ pc'[t] = "failed" /\ item'[t] \in EventType
             /\ q.op \in {"post", "unref"} => q.word \in left'[t]
             /\ q.op = "trim" =>
                   q.word = excess'[t].word /\ q.word \in Words /\ excess'[t].n > 0
  <2>1. pc[t] \in Writes /\ pc[t] \in Busy
    BY <1>9 DEF InFlight, Writes, Busy
  <2>2. PICK w \in (IF pc[t] \in {"post", "unref"} THEN left[t] ELSE {excess[t].word}) :
          q = [op |-> pc[t], by |-> t, word |-> w]
    BY <2>1 DEF InFlight
  <2> QED
    BY <1>9, <2>1, <2>2 DEF Fails, ControlInv, PhaseInv
<1>10. LateInv'
  <2>1. \A q \in late :
          /\ pc'[q.by] = "failed" /\ item'[q.by] \in EventType
          /\ q.op \in {"post", "unref"} => q.word \in left'[q.by]
          /\ q.op = "trim" =>
                q.word = excess'[q.by].word /\ q.word \in Words /\ excess'[q.by].n > 0
    BY <1>4, <1>5, <1>8 DEF ControlInv, LateInv
  <2>2. \A q, r \in late : q.by = r.by => q = r
    BY DEF ControlInv, LateInv
  <2>3. CASE late' = late
    BY <2>1, <2>2, <2>3 DEF LateInv
  <2>4. CASE Fails(t)
    <3>1. PICK q \in InFlight(t) : late' = late \cup {q}
      BY <2>4 DEF Fails
    <3> QED
      BY <1>8, <1>9, <2>1, <2>2, <2>4, <3>1 DEF LateInv
  <2> QED
    BY <2>3, <2>4 DEF Own
<1> QED
  BY <1>2, <1>7, <1>10 DEF ControlInv

\* The same for a search.
LEMMA AsideTypes ==
    ASSUME ControlInv, Aside
    PROVE  /\ ControlInv'
           /\ \A u \in Writers : pc'[u] = pc[u] /\ left'[u] = left[u] /\ seen'[u] = seen[u]
<1>1. PICK q \in Searchers :
        /\ pc' = [pc EXCEPT ![q] = pc'[q]] /\ pc'[q] \in SearcherLabels
        /\ left' = [left EXCEPT ![q] = left'[q]] /\ left'[q] \subseteq Words
        /\ seen' = [seen EXCEPT ![q] = seen'[q]] /\ seen'[q] \subseteq Writers
  BY DEF Aside
<1>2. q \in Tasks /\ q \notin Writers
  BY MemoryAssumption DEF Tasks
<1>3. Types'
  BY <1>1, <1>2 DEF Aside, ControlInv, Types
<1>4. pc'[q] \in Labels
  BY <1>1 DEF SearcherLabels, Labels, Ended
<1>5. pc' \in [Tasks -> Labels] /\ \A u \in Tasks \ {q} : pc'[u] = pc[u]
  BY <1>1, <1>2, <1>4 DEF ControlInv, PhaseInv
<1>6. PhaseInv'
  BY <1>1, <1>2, <1>5 DEF Aside, ControlInv, PhaseInv, Writers, Tasks
<1>7. \A u \in Writers : u \in Tasks /\ u # q
  BY <1>2 DEF Tasks
<1>8. \A u \in Writers : left'[u] = left[u] /\ seen'[u] = seen[u]
  BY <1>1, <1>7 DEF ControlInv, Types
<1>9. \A r \in late : r.by \in Writers
  BY DEF ControlInv, Types
<1>10. LateInv'
  BY <1>5, <1>7, <1>8, <1>9 DEF Aside, ControlInv, LateInv
<1> QED
  BY <1>3, <1>5, <1>6, <1>7, <1>8, <1>10 DEF ControlInv

\* The steps of a writer and of a search.
WriterStep(t) ==
    \/ t \in Adders /\ (PurgeQuery(t) \/ Unref(t) \/ RemoveRow(t))
    \/ t \in Ingesters /\ (IngestStart(t) \/ Check(t))
    \/ UpsertRow(t) \/ Post(t) \/ Trim(t) \/ RecordUnread(t) \/ CallFails(t)

SearchStep(q) ==
    SearchStart(q) \/ SearchRead(q) \/ SearchRow(q) \/ RecordUnread(q) \/ CallFails(q)

LEMMA NextSteps ==
    ASSUME Next
    PROVE  \/ \E t \in Writers : WriterStep(t)
           \/ \E q \in Searchers : SearchStep(q)
           \/ \E q \in late : ApplyLate(q)
  BY DEF Next, Writers, Tasks, WriterStep, SearchStep, Upsert

\* A search leaves the writers alone.
LEMMA SearchAside ==
    ASSUME ControlInv, NEW q \in Searchers, SearchStep(q)
    PROVE  Aside
<1>1. q \in Tasks /\ q \notin Writers /\ pc[q] \in SearcherLabels
  BY MemoryAssumption DEF Tasks, ControlInv, PhaseInv
<1>2. faults \in Nat /\ left[q] \subseteq Words /\ seen[q] \subseteq Writers
  BY <1>1 DEF ControlInv, Types
<1>3. /\ pc = [pc EXCEPT ![q] = pc[q]] /\ left = [left EXCEPT ![q] = left[q]]
      /\ seen = [seen EXCEPT ![q] = seen[q]]
  BY <1>1 DEF ControlInv, Types, PhaseInv
<1>4. \A l : Goto(q, l) => pc' = [pc EXCEPT ![q] = l] /\ pc'[q] = l
  BY <1>1 DEF Goto, ControlInv, PhaseInv
<1>5. \A tokens, refs : AfterRead(q, tokens, refs) =>
          pc' = [pc EXCEPT ![q] = pc'[q]] /\ pc'[q] \in SearcherLabels
  BY <1>4 DEF AfterRead, SearcherLabels
<1>6. \A x, all : AfterRow(q, x, all) =>
          pc' = [pc EXCEPT ![q] = pc'[q]] /\ pc'[q] \in SearcherLabels
  BY <1>1, <1>3, <1>4 DEF AfterRow, SearcherLabels
<1>7. \A w : left' = [left EXCEPT ![q] = @ \ {w}] =>
          left' = [left EXCEPT ![q] = left'[q]] /\ left'[q] \subseteq Words
  BY <1>1, <1>2 DEF ControlInv, Types
<1>8. CASE SearchStart(q)
  <2>1. Tokenize(Query[q]) \subseteq Words
    BY TokenizeType, MemoryAssumption
  <2>2. pc' = [pc EXCEPT ![q] = pc'[q]] /\ pc'[q] \in SearcherLabels
    BY <1>4, <1>8 DEF SearchStart, SearcherLabels
  <2>3. left' = [left EXCEPT ![q] = left'[q]] /\ left'[q] \subseteq Words
    BY <1>1, <1>8, <2>1 DEF SearchStart, ControlInv, Types
  <2>4. seen' = [seen EXCEPT ![q] = seen'[q]] /\ seen'[q] \subseteq Writers
    BY <1>1, <1>8 DEF SearchStart, Begin, ControlInv, Types
  <2>5. UNCHANGED <<row, postings, todo, input, item, excess, late, struck, faults>>
    BY <1>8 DEF SearchStart, db
  <2> QED
    BY <1>2, <2>2, <2>3, <2>4, <2>5 DEF Aside
<1>9. CASE SearchRead(q)
  <2>1. PICK w \in left[q] : /\ left' = [left EXCEPT ![q] = @ \ {w}]
                             /\ \E refs : AfterRead(q, left[q] \ {w}, refs)
    BY <1>9, Zenon DEF SearchRead
  <2>2. pc' = [pc EXCEPT ![q] = pc'[q]] /\ pc'[q] \in SearcherLabels
    BY <1>5, <2>1
  <2>3. UNCHANGED <<row, postings, todo, input, item, excess, late, struck, seen, faults>>
    BY <1>9 DEF SearchRead, db, past
  <2>4. left' = [left EXCEPT ![q] = left'[q]] /\ left'[q] \subseteq Words
    BY <1>7, <2>1
  <2>5. seen' = [seen EXCEPT ![q] = seen'[q]] /\ seen'[q] \subseteq Writers
    BY <1>2, <1>3, <2>3
  <2> QED
    BY <1>2, <2>2, <2>3, <2>4, <2>5 DEF Aside
<1>10. CASE SearchRow(q)
  BY <1>2, <1>3, <1>6, <1>10 DEF SearchRow, Aside, db, work, past
<1>11. CASE RecordUnread(q)
  <2>1. pc[q] # "check"
    BY <1>1 DEF SearcherLabels
  <2>2. pc' = [pc EXCEPT ![q] = pc'[q]] /\ pc'[q] \in SearcherLabels
    BY <1>5, <1>6, <1>11, <2>1 DEF RecordUnread
  <2>3. left' = [left EXCEPT ![q] = left'[q]] /\ left'[q] \subseteq Words
    BY <1>2, <1>3, <1>7, <1>11, <2>1 DEF RecordUnread
  <2> QED
    BY <1>2, <1>3, <1>11, <2>2, <2>3 DEF RecordUnread, Aside, db
<1>12. CASE CallFails(q)
  <2>1. pc[q] \notin {"put", "remove", "post", "unref", "trim"}
    BY <1>1 DEF SearcherLabels
  <2>2. UNCHANGED <<row, postings, late, struck>>
    BY <1>12, <2>1 DEF CallFails, InFlight, Writes, db
  <2> QED
    BY <1>2, <1>3, <1>4, <1>12, <2>2 DEF CallFails, Aside, work, SearcherLabels
<1> QED
  BY <1>8, <1>9, <1>10, <1>11, <1>12 DEF SearchStep

\* A writer changes only what is its own, and keeps the types.
LEMMA WriterTypes ==
    ASSUME ControlInv, NEW t \in Writers, WriterStep(t)
    PROVE  Own(t) /\ ControlInv'
<1> DEFINE Good == Own(t) /\ ControlInv'
<1>1. t \in Tasks /\ t \notin Searchers /\ (t \in Adders \/ t \in Ingesters)
      /\ ~(t \in Adders /\ t \in Ingesters) /\ Session[t] \in Sids
  BY MemoryAssumption DEF Tasks, Writers
<1>2. /\ faults \in Nat /\ left[t] \subseteq Words /\ seen \in [Tasks -> SUBSET Writers]
      /\ todo[t] \subseteq EventType /\ input[t] \in Seq(EventType)
      /\ item[t] \in EventType \cup {None} /\ excess[t] \in Excesses
      /\ row \in [Sids \X Eids -> RowType \cup {None}] /\ postings \in [Words -> Seq(Refs)]
  BY <1>1 DEF ControlInv, Types
<1>3. /\ todo = [todo EXCEPT ![t] = todo[t]] /\ input = [input EXCEPT ![t] = input[t]]
      /\ item = [item EXCEPT ![t] = item[t]] /\ left = [left EXCEPT ![t] = left[t]]
      /\ excess = [excess EXCEPT ![t] = excess[t]]
  BY <1>1 DEF ControlInv, Types
<1>4. \A l : Goto(t, l) => pc' = [pc EXCEPT ![t] = l] /\ pc'[t] = l
  BY <1>1 DEF Goto, ControlInv, PhaseInv
<1>5. t \in Adders => pc[t] \in AdderLabels
  BY DEF ControlInv, PhaseInv
<1>6. t \in Ingesters => pc[t] \in IngesterLabels
  BY DEF ControlInv, PhaseInv
<1>7. pc[t] \in Busy => item[t] \in EventType
  BY DEF ControlInv, PhaseInv
<1>8. Begin(t) => pc[t] = "start" /\ seen' \in [Tasks -> SUBSET Writers]
  BY <1>1, <1>2 DEF Begin
<1>18. \/ PurgeQuery(t) \/ Unref(t) \/ RemoveRow(t) \/ IngestStart(t) \/ Check(t)
       \/ UpsertRow(t) \/ Post(t) \/ Trim(t) \/ RecordUnread(t)
       => late' = late /\ struck' = struck
  BY DEF PurgeQuery, Unref, RemoveRow, IngestStart, Check, UpsertRow, Post, Trim, RecordUnread,
         past
<1>9. CASE t \in Adders /\ PurgeQuery(t)
  <2>1. RowsOf({Session[t]}) \in SUBSET EventType
    BY <1>1, RowsOfType DEF ControlInv
  <2>2. /\ todo' = [todo EXCEPT ![t] = todo'[t]] /\ todo'[t] \subseteq EventType
        /\ input' = [input EXCEPT ![t] = input'[t]] /\ input'[t] \in Seq(EventType)
        /\ item' = [item EXCEPT ![t] = item'[t]] /\ item'[t] \in EventType \cup {None}
        /\ left' = [left EXCEPT ![t] = left'[t]] /\ left'[t] \subseteq Words
        /\ pc' = [pc EXCEPT ![t] = pc'[t]]
        /\ \/ pc'[t] = "added"
           \/ pc'[t] \in {"unref", "remove", "put"} /\ item'[t] \in EventType
    BY <1>9, <2>1, TakeTypes DEF PurgeQuery
  <2>3. UNCHANGED <<row, postings, excess, faults>>
    BY <1>9 DEF PurgeQuery, db
  <2>4. Own(t)
    BY <1>3, <1>8, <1>9, <1>18, <2>2, <2>3 DEF PurgeQuery, Own, Ended
  <2>5. pc'[t] \in AdderLabels /\ pc'[t] # "trim" /\ (pc'[t] \in Busy => item'[t] \in EventType)
    BY <2>2 DEF AdderLabels, Busy
  <2> QED
    BY <1>1, <1>2, <1>8, <1>9, <2>2, <2>3, <2>4, <2>5, OwnTypes DEF PurgeQuery
<1>10. CASE t \in Adders /\ Unref(t)
  <2>1. PICK w \in left[t] :
          /\ Apply(t, "unref", w) /\ left' = [left EXCEPT ![t] = left[t] \ {w}]
          /\ Goto(t, IF left[t] = {w} THEN "remove" ELSE "unref")
          /\ UNCHANGED <<todo, input, item, excess, seen, faults>>
    BY <1>10 DEF Unref, past
  <2>2. pc[t] = "unref" /\ item[t] \in EventType /\ w \in Words
    BY <1>2, <1>7, <1>10 DEF Unref, Busy
  <2>3. /\ row' \in [Sids \X Eids -> RowType \cup {None}] /\ postings' \in [Words -> Seq(Refs)]
        /\ \A s \in Sids : \A e \in Eids : s # Session[t] => row'[<<s, e>>] = row[<<s, e>>]
    BY <2>1, <2>2, ApplyTypes
  <2>4. pc' = [pc EXCEPT ![t] = pc'[t]] /\ pc'[t] \in {"unref", "remove"}
    BY <1>4, <2>1
  <2>5. left' = [left EXCEPT ![t] = left'[t]] /\ left'[t] \subseteq Words
    BY <1>1, <1>2, <2>1 DEF ControlInv, Types
  <2>6. Own(t)
    BY <1>3, <1>10, <1>18, <2>1, <2>2, <2>3, <2>4, <2>5 DEF Own, Ended
  <2>7. pc'[t] \in AdderLabels /\ pc'[t] # "trim" /\ item'[t] \in EventType
    BY <2>1, <2>2, <2>4 DEF AdderLabels
  <2> QED
    BY <1>1, <1>2, <1>10, <2>1, <2>3, <2>5, <2>6, <2>7, OwnTypes
<1>11. CASE t \in Adders /\ RemoveRow(t)
  <2>1. pc[t] = "remove" /\ item[t] \in EventType
    BY <1>7, <1>11 DEF RemoveRow, Busy
  <2>2. /\ todo' = [todo EXCEPT ![t] = todo'[t]] /\ todo'[t] \subseteq EventType
        /\ input' = [input EXCEPT ![t] = input'[t]] /\ input'[t] \in Seq(EventType)
        /\ item' = [item EXCEPT ![t] = item'[t]] /\ item'[t] \in EventType \cup {None}
        /\ left' = [left EXCEPT ![t] = left'[t]] /\ left'[t] \subseteq Words
        /\ pc' = [pc EXCEPT ![t] = pc'[t]]
        /\ \/ pc'[t] = "added"
           \/ pc'[t] \in {"unref", "remove", "put"} /\ item'[t] \in EventType
    BY <1>2, <1>11, TakeTypes DEF RemoveRow
  <2>3. /\ row' \in [Sids \X Eids -> RowType \cup {None}] /\ postings' \in [Words -> Seq(Refs)]
        /\ \A s \in Sids : \A e \in Eids : s # Session[t] => row'[<<s, e>>] = row[<<s, e>>]
    BY <1>11, <2>1, ApplyTypes DEF RemoveRow
  <2>4. UNCHANGED <<excess, seen, faults>>
    BY <1>11 DEF RemoveRow, past
  <2>5. Own(t)
    BY <1>3, <1>11, <1>18, <2>1, <2>2, <2>3, <2>4 DEF Own, Ended
  <2>6. pc'[t] \in AdderLabels /\ pc'[t] # "trim" /\ (pc'[t] \in Busy => item'[t] \in EventType)
    BY <2>2 DEF AdderLabels, Busy
  <2> QED
    BY <1>1, <1>2, <1>11, <2>2, <2>3, <2>4, <2>5, <2>6, OwnTypes
<1>12. CASE t \in Ingesters /\ IngestStart(t)
  <2>1. /\ input' = [input EXCEPT ![t] = input'[t]] /\ input'[t] \in Seq(EventType)
        /\ item' = [item EXCEPT ![t] = item'[t]] /\ item'[t] \in EventType \cup {None}
        /\ left' = [left EXCEPT ![t] = left'[t]] /\ left'[t] \subseteq Words
        /\ pc' = [pc EXCEPT ![t] = pc'[t]]
        /\ \/ pc'[t] = "added"
           \/ pc'[t] = "check" /\ item'[t] \in EventType
    BY <1>12, TextsType, NextEventTypes DEF IngestStart
  <2>2. UNCHANGED <<row, postings, todo, excess, faults>>
    BY <1>12 DEF IngestStart, db
  <2>3. Own(t)
    BY <1>3, <1>8, <1>12, <1>18, <2>1, <2>2 DEF IngestStart, Own, Ended
  <2>4. pc'[t] \in IngesterLabels /\ pc'[t] # "trim" /\ (pc'[t] \in Busy => item'[t] \in EventType)
    BY <2>1 DEF IngesterLabels, Busy
  <2> QED
    BY <1>1, <1>2, <1>8, <1>12, <2>1, <2>2, <2>3, <2>4, OwnTypes DEF IngestStart
<1>13. CASE t \in Ingesters /\ (Check(t) \/ RecordUnread(t))
  <2>1. pc[t] = "check" /\ item[t] \in EventType
    BY <1>6, <1>7, <1>13 DEF Check, RecordUnread, Busy, IngesterLabels
  <2>2. /\ input' = [input EXCEPT ![t] = input'[t]] /\ input'[t] \in Seq(EventType)
        /\ item' = [item EXCEPT ![t] = item'[t]] /\ item'[t] \in EventType \cup {None}
        /\ left' = [left EXCEPT ![t] = left'[t]] /\ left'[t] \subseteq Words
        /\ pc' = [pc EXCEPT ![t] = pc'[t]]
        /\ \/ pc'[t] = "added"
           \/ pc'[t] \in {"check", "put"} /\ item'[t] \in EventType
    <3>1. CASE NextEvent(t, input[t])
      BY <1>2, <1>13, <3>1, NextEventTypes
    <3>2. CASE Goto(t, "put") /\ UNCHANGED <<input, item, left>>
      BY <1>2, <1>3, <1>4, <2>1, <3>2
    <3> QED
      BY <1>13, <2>1, <3>1, <3>2 DEF Check, RecordUnread
  <2>3. UNCHANGED <<row, postings, todo, excess, seen>> /\ faults' \in Nat
    BY <1>2, <1>13 DEF Check, RecordUnread, db, past
  <2>4. Own(t)
    BY <1>3, <1>13, <1>18, <2>1, <2>2, <2>3 DEF Own, Ended
  <2>5. pc'[t] \in IngesterLabels /\ pc'[t] # "trim" /\ (pc'[t] \in Busy => item'[t] \in EventType)
    BY <2>2 DEF IngesterLabels, Busy
  <2> QED
    BY <1>1, <1>2, <1>13, <2>2, <2>3, <2>4, <2>5, OwnTypes
<1>14. CASE UpsertRow(t) \/ Trim(t)
  <2>1. pc[t] \in {"put", "trim"} /\ item[t] \in EventType
    BY <1>7, <1>14 DEF UpsertRow, Trim, Busy
  <2>2. pc[t] = "trim" => excess[t].word \in Words
    BY DEF ControlInv, PhaseInv
  <2>3. /\ row' \in [Sids \X Eids -> RowType \cup {None}] /\ postings' \in [Words -> Seq(Refs)]
        /\ \A s \in Sids : \A e \in Eids : s # Session[t] => row'[<<s, e>>] = row[<<s, e>>]
    BY <1>14, <2>1, <2>2, ApplyTypes DEF UpsertRow, Trim
  <2>4. AfterPost(t, left[t]) /\ UNCHANGED <<todo, excess, seen, faults>>
    BY <1>14 DEF UpsertRow, Trim, past
  <2>5. /\ input' = [input EXCEPT ![t] = input'[t]] /\ input'[t] \in Seq(EventType)
        /\ item' = [item EXCEPT ![t] = item'[t]] /\ item'[t] \in EventType \cup {None}
        /\ left' = [left EXCEPT ![t] = left'[t]] /\ left'[t] \subseteq Words
        /\ pc' = [pc EXCEPT ![t] = pc'[t]]
        /\ \/ pc'[t] = "added"
           \/ /\ pc'[t] \in {"post", IF t \in Ingesters THEN "check" ELSE "put"}
              /\ item'[t] \in EventType
    BY <1>2, <2>1, <2>4, AfterPostTypes
  <2>6. Own(t)
    BY <1>3, <1>14, <1>18, <2>1, <2>3, <2>4, <2>5 DEF Own, Ended
  <2>7. /\ t \in Adders => pc'[t] \in AdderLabels
        /\ t \in Ingesters => pc'[t] \in IngesterLabels
        /\ pc'[t] # "trim" /\ (pc'[t] \in Busy => item'[t] \in EventType)
    BY <1>1, <2>5 DEF AdderLabels, IngesterLabels, Busy
  <2> QED
    BY <1>1, <1>2, <2>3, <2>4, <2>5, <2>6, <2>7, OwnTypes
<1>15. CASE Post(t)
  <2>1. PICK w \in left[t] :
          /\ Apply(t, "post", w)
          /\ \/ AfterPost(t, left[t] \ {w}) /\ UNCHANGED excess
             \/ /\ Len(postings'[w]) > MaxPostings
                /\ excess' = [excess EXCEPT ![t] =
                      [word |-> w, n |-> Len(postings'[w]) - MaxPostings]]
                /\ left' = [left EXCEPT ![t] = left[t] \ {w}]
                /\ Goto(t, "trim") /\ UNCHANGED <<input, item>>
          /\ UNCHANGED <<todo, seen, faults>>
    BY <1>15 DEF Post, past
  <2>2. pc[t] = "post" /\ item[t] \in EventType /\ w \in Words /\ left[t] \ {w} \in SUBSET Words
    BY <1>2, <1>7, <1>15 DEF Post, Busy
  <2>3. /\ row' \in [Sids \X Eids -> RowType \cup {None}] /\ postings' \in [Words -> Seq(Refs)]
        /\ \A s \in Sids : \A e \in Eids : s # Session[t] => row'[<<s, e>>] = row[<<s, e>>]
    BY <2>1, <2>2, ApplyTypes
  <2>4. CASE AfterPost(t, left[t] \ {w}) /\ UNCHANGED excess
    <3>1. /\ input' = [input EXCEPT ![t] = input'[t]] /\ input'[t] \in Seq(EventType)
          /\ item' = [item EXCEPT ![t] = item'[t]] /\ item'[t] \in EventType \cup {None}
          /\ left' = [left EXCEPT ![t] = left'[t]] /\ left'[t] \subseteq Words
          /\ pc' = [pc EXCEPT ![t] = pc'[t]]
          /\ \/ pc'[t] = "added"
             \/ /\ pc'[t] \in {"post", IF t \in Ingesters THEN "check" ELSE "put"}
                /\ item'[t] \in EventType
      BY <2>2, <2>4, AfterPostTypes
    <3>2. Own(t)
      BY <1>3, <1>15, <1>18, <2>1, <2>2, <2>3, <2>4, <3>1 DEF Own, Ended
    <3>3. /\ t \in Adders => pc'[t] \in AdderLabels
          /\ t \in Ingesters => pc'[t] \in IngesterLabels
          /\ pc'[t] # "trim" /\ (pc'[t] \in Busy => item'[t] \in EventType)
      BY <1>1, <3>1 DEF AdderLabels, IngesterLabels, Busy
    <3> QED
      BY <1>1, <1>2, <2>1, <2>3, <2>4, <3>1, <3>2, <3>3, OwnTypes
  <2>5. CASE ~(AfterPost(t, left[t] \ {w}) /\ UNCHANGED excess)
    <3>1. Len(postings'[w]) \in Nat /\ Len(postings'[w]) > MaxPostings /\ MaxPostings \in Nat
      BY <2>1, <2>2, <2>3, <2>5, MemoryAssumption
    <3>2. /\ excess'[t] = [word |-> w, n |-> Len(postings'[w]) - MaxPostings]
          /\ excess' = [excess EXCEPT ![t] = excess'[t]]
      BY <2>1, <2>5 DEF ControlInv, Types
    <3>3. excess'[t] \in Excesses /\ excess'[t].word = w /\ excess'[t].n > 0
      BY <2>2, <3>1, <3>2 DEF Excesses
    <3>4. left' = [left EXCEPT ![t] = left'[t]] /\ left'[t] \subseteq Words
      BY <1>1, <2>1, <2>2, <2>5 DEF ControlInv, Types
    <3>5. pc' = [pc EXCEPT ![t] = pc'[t]] /\ pc'[t] = "trim"
      BY <1>4, <2>1, <2>5
    <3>6. Own(t)
      BY <1>3, <1>15, <1>18, <2>1, <2>2, <2>3, <2>5, <3>2, <3>4, <3>5 DEF Own, Ended
    <3>7. pc'[t] \in AdderLabels /\ pc'[t] \in IngesterLabels
      BY <3>5 DEF AdderLabels, IngesterLabels
    <3> QED
      BY <1>1, <1>2, <2>1, <2>2, <2>3, <2>5, <3>3, <3>4, <3>6, <3>7, OwnTypes
  <2> QED
    BY <2>4, <2>5
<1>16. CASE CallFails(t)
  <2>1. pc[t] \notin Ended /\ pc[t] # "start"
    BY <1>16 DEF CallFails
  <2>2. pc[t] \in Busy /\ item[t] \in EventType
    BY <1>1, <1>5, <1>6, <1>7, <2>1 DEF Busy, AdderLabels, IngesterLabels, Ended
  <2>3. /\ UNCHANGED <<row, postings, todo, input, item, left, excess, struck, seen>>
        /\ Goto(t, "failed") /\ faults' \in Nat
    BY <1>2, <1>16 DEF CallFails, db, work
  <2>4. late' = late \/ \E q \in InFlight(t) : late' = late \cup {q}
    BY <1>16 DEF CallFails
  <2>5. pc' = [pc EXCEPT ![t] = pc'[t]] /\ pc'[t] = "failed"
    BY <1>4, <2>3
  <2>6. Own(t)
    BY <1>3, <2>1, <2>3, <2>4, <2>5 DEF Own, Fails
  <2>7. pc'[t] \in AdderLabels /\ pc'[t] \in IngesterLabels /\ pc'[t] \notin Busy /\ pc'[t] # "trim"
    BY <2>5 DEF AdderLabels, IngesterLabels, Busy
  <2> QED
    BY <1>1, <1>2, <2>3, <2>6, <2>7, OwnTypes
<1>17. RecordUnread(t) => t \in Ingesters
  BY <1>1, <1>5 DEF RecordUnread, AdderLabels
<1> QED
  BY <1>9, <1>10, <1>11, <1>12, <1>13, <1>14, <1>15, <1>16, <1>17 DEF WriterStep

\* A late request changes the database only, and there what its call would have.
LEMMA LateTypes ==
    ASSUME ControlInv, NEW q \in late, ApplyLate(q)
    PROVE  /\ ControlInv' /\ q.by \in Writers /\ q.op \in Writes
           /\ Apply(q.by, q.op, q.word) /\ item[q.by] \in EventType
           /\ q.op \in {"post", "unref"} => q.word \in left[q.by] /\ q.word \in Words
           /\ q.op = "trim" => /\ q.word = excess[q.by].word /\ excess[q.by].word \in Words
                               /\ excess[q.by].n > 0
           /\ \A s \in Sids : \A e \in Eids :
                 s # Session[q.by] => row'[<<s, e>>] = row[<<s, e>>]
           /\ UNCHANGED <<pc, todo, input, item, left, excess, seen, faults>>
           /\ late' = late \ {q} /\ struck' = struck \cup Overtaken(q.by)
<1>1. /\ q.by \in Writers /\ q.by \in Tasks /\ q.op \in Writes
      /\ Apply(q.by, q.op, q.word) /\ item[q.by] \in EventType
      /\ q.op \in {"post", "unref"} => q.word \in left[q.by]
      /\ q.op = "trim" => /\ q.word = excess[q.by].word /\ excess[q.by].word \in Words
                          /\ excess[q.by].n > 0
  BY DEF ApplyLate, ControlInv, Types, LateInv, Tasks
<1>2. left[q.by] \subseteq Words
  BY <1>1 DEF ControlInv, Types
<1>3. /\ row' \in [Sids \X Eids -> RowType \cup {None}] /\ postings' \in [Words -> Seq(Refs)]
      /\ \A s \in Sids : \A e \in Eids : s # Session[q.by] => row'[<<s, e>>] = row[<<s, e>>]
  BY <1>1, <1>2, ApplyTypes
<1>4. /\ UNCHANGED <<pc, todo, input, item, left, excess, seen, faults>>
      /\ late' = late \ {q} /\ struck' = struck \cup Overtaken(q.by)
  BY DEF ApplyLate, work
<1>5. Types'
  BY <1>3, <1>4 DEF ControlInv, Types, Overtaken
<1>6. PhaseInv' /\ LateInv'
  BY <1>4 DEF ControlInv, PhaseInv, LateInv
<1> QED
  BY <1>1, <1>2, <1>3, <1>4, <1>5, <1>6 DEF ControlInv

LEMMA ControlInvariant == Spec => []ControlInv
<1>1. Init => ControlInv
  <2> SUFFICES ASSUME Init PROVE ControlInv
    OBVIOUS
  <2>1. \A t \in Writers : t \in Tasks
    BY DEF Tasks
  <2>2. Types
    <3>1. [word |-> None, n |-> 0] \in Excesses
      BY DEF Excesses
    <3> QED
      BY <3>1 DEF Init, Types
  <2>3. PhaseInv
    BY DEF Init, PhaseInv, Labels, Tasks, Writers, AdderLabels, IngesterLabels,
           SearcherLabels, Busy
  <2>4. LateInv
    BY DEF Init, LateInv
  <2> QED
    BY <2>2, <2>3, <2>4 DEF ControlInv
<1>2. ControlInv /\ [Next]_vars => ControlInv'
  <2> SUFFICES ASSUME ControlInv, [Next]_vars PROVE ControlInv'
    OBVIOUS
  <2>1. CASE Next
    BY <2>1, NextSteps, SearchAside, AsideTypes, WriterTypes, LateTypes
  <2>2. CASE UNCHANGED vars
    BY <2>2 DEF vars, db, work, past, ControlInv, Types, PhaseInv, LateInv
  <2> QED
    BY <2>1, <2>2
<1> QED
  BY <1>1, <1>2, PTL DEF Spec

-----------------------------------------------------------------------------
(* The length of the posting lists.                                        *)

\* The writers that are about to trim the list of w.
Trimmers(w) == {t \in Writers : pc[t] = "trim" /\ excess[t].word = w}

\* A step of writer t adds it to the trimmers of w, removes it or neither.
LEMMA TrimmersStep ==
    ASSUME ControlInv, NEW t \in Writers, Own(t), NEW w
    PROVE  /\ Cardinality(Trimmers(w)) \in Nat /\ Cardinality(Trimmers(w)') \in Nat
           /\ t \in Trimmers(w)' \/ t \notin Trimmers(w)
                 => Cardinality(Trimmers(w)') >= Cardinality(Trimmers(w))
           /\ t \in Trimmers(w)' /\ t \notin Trimmers(w)
                 => Cardinality(Trimmers(w)') = Cardinality(Trimmers(w)) + 1
           /\ t \in Trimmers(w) => /\ Cardinality(Trimmers(w)) > 0
                                   /\ Cardinality(Trimmers(w)') >= Cardinality(Trimmers(w)) - 1
<1>1. IsFiniteSet(Writers)
  BY MemoryAssumption
<1>2. Trimmers(w) \in SUBSET Writers /\ Trimmers(w)' \in SUBSET Writers
  BY DEF Trimmers
<1>3. IsFiniteSet(Trimmers(w)) /\ IsFiniteSet(Trimmers(w)')
  BY <1>1, <1>2, FS_Subset
<1>4. Cardinality(Trimmers(w)) \in Nat /\ Cardinality(Trimmers(w)') \in Nat
  BY <1>3, FS_CardinalityType
<1>5. \A u \in Writers \ {t} : u \in Trimmers(w)' <=> u \in Trimmers(w)
  <2>1. \A u \in Writers \ {t} : u \in Tasks /\ pc'[u] = pc[u] /\ excess'[u] = excess[u]
    BY DEF Own, ControlInv, Types, PhaseInv, Tasks
  <2> QED
    BY <2>1 DEF Trimmers
<1>6. CASE t \in Trimmers(w)' <=> t \in Trimmers(w)
  <2>1. Trimmers(w)' = Trimmers(w)
    BY <1>2, <1>5, <1>6
  <2>2. t \in Trimmers(w) => Cardinality(Trimmers(w)) # 0
    BY <1>3, FS_EmptySet
  <2> QED
    BY <1>4, <1>6, <2>1, <2>2
<1>7. CASE t \in Trimmers(w)' /\ t \notin Trimmers(w)
  <2>1. Trimmers(w)' = Trimmers(w) \cup {t}
    BY <1>2, <1>5, <1>7
  <2>2. Cardinality(Trimmers(w)') = Cardinality(Trimmers(w)) + 1
    BY <1>3, <1>7, <2>1, FS_AddElement
  <2> QED
    BY <1>4, <1>7, <2>2
<1>8. CASE t \notin Trimmers(w)' /\ t \in Trimmers(w)
  <2>1. Trimmers(w)' = Trimmers(w) \ {t}
    BY <1>2, <1>5, <1>8
  <2>2. Cardinality(Trimmers(w)') = Cardinality(Trimmers(w)) - 1
    BY <1>3, <1>8, <2>1, FS_RemoveElement
  <2>3. Cardinality(Trimmers(w)) # 0
    BY <1>3, <1>8, FS_EmptySet
  <2> QED
    BY <1>4, <1>8, <2>2, <2>3
<1> QED
  BY <1>6, <1>7, <1>8

\* What a write of the server does to the lengths of the lists.
LEMMA ApplyLengths ==
    ASSUME ControlInv, NEW t \in Writers, item[t] \in EventType,
           NEW op, NEW w, op \in {"post", "unref"} => w \in Words,
           op = "trim" => excess[t].word \in Words /\ excess[t].n > 0,
           Apply(t, op, w), NEW v \in Words
    PROVE  /\ Len(postings[v]) \in Nat /\ Len(postings'[v]) \in Nat
           /\ op # "post" \/ v # w => Len(postings'[v]) <= Len(postings[v])
           /\ op = "post" /\ v = w => Len(postings'[v]) = Len(postings[v]) + 1
           /\ op = "trim" /\ v = excess[t].word =>
                 Len(postings'[v]) = 0 \/ Len(postings'[v]) < Len(postings[v])
<1>1. postings \in [Words -> Seq(Refs)] /\ postings' \in [Words -> Seq(Refs)]
  BY ApplyTypes DEF ControlInv, Types
<1>2. Len(postings[v]) \in Nat /\ Len(postings'[v]) \in Nat
  BY <1>1
<1>3. CASE op \in {"put", "remove"}
  BY <1>1, <1>2, <1>3 DEF Apply, PutRow
<1>4. CASE op = "post"
  <2>1. postings' = [postings EXCEPT ![w] = Append(postings[w], RefOf(t))] /\ w \in Words
    BY <1>4 DEF Apply, SetList
  <2>2. RefOf(t) \in Refs
    BY MemoryAssumption DEF RefOf, Refs, EventType
  <2>3. Len(Append(postings[w], RefOf(t))) = Len(postings[w]) + 1
    BY <1>1, <2>1, <2>2, AppendFacts
  <2> QED
    BY <1>1, <1>2, <1>4, <2>1, <2>3
<1>5. CASE op = "unref"
  <2>1. postings' = [postings EXCEPT ![w] = Without(postings[w], RefOf(t))] /\ w \in Words
    BY <1>5 DEF Apply, SetList
  <2>2. Len(Without(postings[w], RefOf(t))) <= Len(postings[w])
    BY <1>1, <2>1, WithoutFacts
  <2> QED
    BY <1>1, <1>2, <1>5, <2>1, <2>2
<1>6. CASE op = "trim"
  <2> DEFINE l == SubSeq(postings[w], excess[t].n + 1, Len(postings[w]))
  <2>1. postings' = [postings EXCEPT ![w] = l] /\ w = excess[t].word /\ w \in Words
    BY <1>6 DEF Apply, SetList
  <2>2. excess[t].n \in Nat /\ excess[t].n > 0
    BY <1>6 DEF ControlInv, Types, Excesses
  <2>3. Len(l) <= Len(postings[w]) /\ (Len(l) = 0 \/ Len(l) < Len(postings[w]))
    BY <1>1, <2>1, <2>2, TrimmedFacts
  <2> HIDE DEF l
  <2> QED
    BY <1>1, <1>2, <1>6, <2>1, <2>3
<1> QED
  BY <1>3, <1>4, <1>5, <1>6 DEF Apply

\* The late requests that append to the list of w.
LatePosts(w) == {q \in late : q.op = "post" /\ q.word = w}

\* As many calls have failed as there are late requests.
FewLate == IsFiniteSet(late) /\ Cardinality(late) <= faults

LEMMA LateCounts ==
    ASSUME FewLate, faults \in Nat, NEW v
    PROVE  /\ IsFiniteSet(LatePosts(v)) /\ Cardinality(LatePosts(v)) \in Nat
           /\ Cardinality(late) \in Nat /\ Cardinality(LatePosts(v)) <= faults
<1>1. LatePosts(v) \in SUBSET late
  BY DEF LatePosts
<1>2. IsFiniteSet(LatePosts(v)) /\ Cardinality(LatePosts(v)) <= Cardinality(late)
  BY <1>1, FS_Subset DEF FewLate
<1>3. Cardinality(LatePosts(v)) \in Nat /\ Cardinality(late) \in Nat
  BY <1>2, FS_CardinalityType DEF FewLate
<1> QED
  BY <1>2, <1>3 DEF FewLate

\* A call that fails adds a request, or none.
LEMMA LateAdded ==
    ASSUME FewLate, faults \in Nat, NEW q, late' = late \cup {q}, faults' = faults + 1, NEW v
    PROVE  /\ FewLate'
           /\ Cardinality(LatePosts(v)') \in Nat
           /\ Cardinality(LatePosts(v)') <= Cardinality(LatePosts(v)) + 1
           /\ q.op # "post" => LatePosts(v)' = LatePosts(v)
<1>1. /\ IsFiniteSet(LatePosts(v)) /\ Cardinality(LatePosts(v)) \in Nat
      /\ Cardinality(late) \in Nat /\ Cardinality(late) <= faults
  BY LateCounts DEF FewLate
<1>2. IsFiniteSet(late') /\ Cardinality(late') \in Nat /\ Cardinality(late') <= Cardinality(late) + 1
  BY <1>1, FS_AddElement DEF FewLate
<1>3. FewLate'
  BY <1>1, <1>2 DEF FewLate
<1>4. q.op # "post" => LatePosts(v)' = LatePosts(v)
  BY DEF LatePosts
<1>5. LatePosts(v)' = LatePosts(v) \/ LatePosts(v)' = LatePosts(v) \cup {q}
  BY DEF LatePosts
<1>6. /\ Cardinality(LatePosts(v)') \in Nat
      /\ Cardinality(LatePosts(v)') <= Cardinality(LatePosts(v)) + 1
  BY <1>1, <1>5, FS_AddElement
<1> QED
  BY <1>3, <1>4, <1>6

\* A request that is applied is no longer late.
LEMMA LateRemoved ==
    ASSUME FewLate, faults \in Nat, NEW q \in late, late' = late \ {q}, faults' = faults, NEW v
    PROVE  /\ FewLate'
           /\ Cardinality(LatePosts(v)') \in Nat
           /\ Cardinality(LatePosts(v)') <= Cardinality(LatePosts(v))
           /\ q.op = "post" /\ q.word = v =>
                 Cardinality(LatePosts(v)') = Cardinality(LatePosts(v)) - 1
<1>1. /\ IsFiniteSet(LatePosts(v)) /\ Cardinality(LatePosts(v)) \in Nat
      /\ Cardinality(late) \in Nat /\ Cardinality(late) <= faults
  BY LateCounts DEF FewLate
<1>2. IsFiniteSet(late') /\ Cardinality(late') = Cardinality(late) - 1
  BY FS_RemoveElement DEF FewLate
<1>3. FewLate'
  BY <1>1, <1>2 DEF FewLate
<1>4. CASE q.op = "post" /\ q.word = v
  <2>1. LatePosts(v)' = LatePosts(v) \ {q} /\ q \in LatePosts(v)
    BY <1>4 DEF LatePosts
  <2>2. IsFiniteSet(LatePosts(v)') /\ Cardinality(LatePosts(v)') = Cardinality(LatePosts(v)) - 1
    BY <1>1, <2>1, FS_RemoveElement
  <2>3. Cardinality(LatePosts(v)') \in Nat
    BY <2>2, FS_CardinalityType
  <2> QED
    BY <1>1, <1>3, <2>2, <2>3
<1>5. CASE ~(q.op = "post" /\ q.word = v)
  <2>1. LatePosts(v)' = LatePosts(v)
    BY <1>5 DEF LatePosts
  <2> QED
    BY <1>1, <1>3, <1>5, <2>1
<1> QED
  BY <1>4, <1>5

\* A posting list exceeds its limit by no more than the trims that are pending
\* and the calls that failed, however late their requests arrive: a writer trims what it appended beyond the limit
\* (_append_posting_ref), however many writers do so at once.
THEOREM ListsBounded == Spec => []PostingsBounded
<1> DEFINE Bounded(v) == Len(postings[v]) + Cardinality(LatePosts(v))
                            <= MaxPostings + faults + Cardinality(Trimmers(v))
           BoundInv == FewLate /\ \A v \in Words : Bounded(v)
<1>0. \A l, k, m, f, c, l1, f1, c1 \in Nat : l + k <= m + f + c /\ f1 >= f =>
        /\ l1 <= l /\ c1 >= c => l1 + k <= m + f1 + c1
        /\ l1 <= m /\ k <= f => l1 + k <= m + f1 + c1
        /\ l1 = l + 1 /\ c1 = c + 1 => l1 + k <= m + f1 + c1
        /\ l1 < l /\ c1 >= c - 1 => l1 + k <= m + f1 + c1
  OBVIOUS
<1>6. \A l, k, m, f, c, l1, k1, c1 \in Nat : l + k <= m + f + c =>
        /\ k1 <= k + 1 /\ c1 >= c => l + k1 <= m + (f + 1) + c1
        /\ k1 = k /\ c1 >= c - 1 => l + k1 <= m + (f + 1) + c1
        /\ l1 = l + 1 /\ k1 = k - 1 => l1 + k1 <= m + f + c
        /\ l1 <= l /\ k1 <= k => l1 + k1 <= m + f + c
  OBVIOUS
<1>1. ASSUME ControlInv, BoundInv, NEW v \in Words
      PROVE  /\ Bounded(v) /\ MaxPostings \in Nat /\ faults \in Nat /\ Len(postings[v]) \in Nat
             /\ Cardinality(LatePosts(v)) \in Nat /\ Cardinality(LatePosts(v)) <= faults
             /\ Cardinality(Trimmers(v)) \in Nat
  <2>1. faults \in Nat /\ FewLate /\ Len(postings[v]) \in Nat
    BY <1>1 DEF ControlInv, Types
  <2>2. IsFiniteSet(Trimmers(v))
    BY FS_Subset, MemoryAssumption DEF Trimmers
  <2>3. Cardinality(Trimmers(v)) \in Nat
    BY <2>2, FS_CardinalityType
  <2> QED
    BY <1>1, <2>1, <2>3, LateCounts, MemoryAssumption
<1>2. ControlInv /\ BoundInv => PostingsBounded
  <2> SUFFICES ASSUME ControlInv, BoundInv, NEW v \in Words
               PROVE  Len(postings[v]) <= MaxPostings + faults + Cardinality(Trimmers(v))
    BY DEF PostingsBounded, Trimmers
  <2> QED
    BY <1>1
<1>3. Init => BoundInv
  <2> SUFFICES ASSUME Init PROVE BoundInv
    OBVIOUS
  <2>1. FewLate /\ Cardinality({}) = 0
    BY FS_EmptySet DEF Init, FewLate
  <2>2. ASSUME NEW v \in Words PROVE Bounded(v)
    <3>1. Trimmers(v) = {} /\ LatePosts(v) = {}
      BY DEF Init, Trimmers, LatePosts, Tasks
    <3> QED
      BY <2>1, <3>1, MemoryAssumption DEF Init
  <2> QED
    BY <2>1, <2>2
<1>4. ASSUME ControlInv, BoundInv, [Next]_vars
      PROVE  BoundInv'
  <2>0. FewLate /\ faults \in Nat
    BY <1>4 DEF ControlInv, Types
  <2>1. ASSUME NEW t \in Writers, WriterStep(t), ~CallFails(t) PROVE BoundInv'
    <3>1. Own(t) /\ late' = late /\ faults' \in Nat /\ faults' >= faults
      <4>1. Own(t) /\ ControlInv'
        BY <1>4, <2>1, WriterTypes
      <4>2. faults' = faults \/ faults' = faults + 1
        BY <2>1 DEF WriterStep, PurgeQuery, IngestStart, Unref, RemoveRow, Check, UpsertRow, Post,
                    Trim, RecordUnread, past
      <4>3. late' = late
        BY <2>1 DEF WriterStep, PurgeQuery, IngestStart, Unref, RemoveRow, Check, UpsertRow, Post,
                    Trim, RecordUnread, past
      <4> QED
        BY <2>0, <4>1, <4>2, <4>3
    <3>2. FewLate' /\ \A v : LatePosts(v)' = LatePosts(v)
      <4>1. Cardinality(late) \in Nat
        BY <2>0, FS_CardinalityType DEF FewLate
      <4> QED
        BY <2>0, <3>1, <4>1 DEF FewLate, LatePosts
    <3>3. ASSUME NEW v \in Words PROVE Bounded(v)'
      <4>0. /\ Bounded(v) /\ MaxPostings \in Nat /\ faults \in Nat /\ Len(postings[v]) \in Nat
            /\ Cardinality(LatePosts(v)) \in Nat /\ Cardinality(LatePosts(v)) <= faults
            /\ faults' \in Nat /\ faults' >= faults /\ LatePosts(v)' = LatePosts(v)
        BY <1>1, <1>4, <3>1, <3>2
      <4>2. /\ Cardinality(Trimmers(v)) \in Nat /\ Cardinality(Trimmers(v)') \in Nat
            /\ t \in Trimmers(v)' \/ t \notin Trimmers(v)
                  => Cardinality(Trimmers(v)') >= Cardinality(Trimmers(v))
            /\ t \in Trimmers(v)' /\ t \notin Trimmers(v)
                  => Cardinality(Trimmers(v)') = Cardinality(Trimmers(v)) + 1
            /\ t \in Trimmers(v) => /\ Cardinality(Trimmers(v)) > 0
                                    /\ Cardinality(Trimmers(v)') >= Cardinality(Trimmers(v)) - 1
        BY <1>4, <3>1, TrimmersStep
      <4>3. pc[t] \in Busy => item[t] \in EventType
        BY <1>4 DEF ControlInv, PhaseInv
      <4>4. pc[t] = "trim" => excess[t].word \in Words /\ excess[t].n > 0
        BY <1>4 DEF ControlInv, PhaseInv
      <4>5. left[t] \subseteq Words
        BY <1>4 DEF ControlInv, Types, Tasks
      <4>6. CASE UNCHANGED postings /\ pc[t] # "trim"
        <5>1. t \notin Trimmers(v)
          BY <4>6 DEF Trimmers
        <5>2. Cardinality(Trimmers(v)') >= Cardinality(Trimmers(v))
          BY <4>2, <5>1
        <5> QED
          BY <1>0, <4>0, <4>2, <4>6, <5>2
      <4>7. CASE Unref(t)
        <5>1. PICK w \in left[t] : Apply(t, "unref", w)
          BY <4>7 DEF Unref
        <5>2. pc[t] = "unref"
          BY <4>7 DEF Unref
        <5>3. Len(postings'[v]) \in Nat /\ Len(postings'[v]) <= Len(postings[v])
          BY <1>4, <4>3, <4>5, <5>1, <5>2, ApplyLengths DEF Busy
        <5>4. t \notin Trimmers(v)
          BY <5>2 DEF Trimmers
        <5>5. Cardinality(Trimmers(v)') >= Cardinality(Trimmers(v))
          BY <4>2, <5>4
        <5> QED
          BY <1>0, <4>0, <4>2, <5>3, <5>5
      <4>8. CASE Post(t)
        <5>1. PICK w \in left[t] :
                /\ Apply(t, "post", w)
                /\ \/ Len(postings'[w]) <= MaxPostings
                   \/ /\ excess' = [excess EXCEPT ![t] =
                            [word |-> w, n |-> Len(postings'[w]) - MaxPostings]]
                      /\ pc' = [pc EXCEPT ![t] = "trim"]
          BY <4>8 DEF Post, Goto
        <5>2. pc[t] = "post"
          BY <4>8 DEF Post
        <5>3. /\ Len(postings'[v]) \in Nat
              /\ v # w => Len(postings'[v]) <= Len(postings[v])
              /\ v = w => Len(postings'[v]) = Len(postings[v]) + 1
          BY <1>4, <4>3, <4>5, <5>1, <5>2, ApplyLengths DEF Busy
        <5>4. t \notin Trimmers(v)
          BY <5>2 DEF Trimmers
        <5>5. CASE v # w \/ Len(postings'[w]) <= MaxPostings
          <6>1. Len(postings'[v]) <= Len(postings[v]) \/ Len(postings'[v]) <= MaxPostings
            BY <5>3, <5>5
          <6>2. Cardinality(Trimmers(v)') >= Cardinality(Trimmers(v))
            BY <4>2, <5>4
          <6> QED
            BY <1>0, <4>0, <4>2, <5>3, <6>1, <6>2
        <5>6. CASE v = w /\ ~(Len(postings'[w]) <= MaxPostings)
          <6>1. pc'[t] = "trim" /\ excess'[t] = [word |-> w, n |-> Len(postings'[w]) - MaxPostings]
            BY <1>4, <5>1, <5>6 DEF ControlInv, Types, PhaseInv, Tasks
          <6>2. t \in Trimmers(v)'
            BY <5>6, <6>1 DEF Trimmers
          <6> QED
            <7>1. /\ Len(postings'[v]) = Len(postings[v]) + 1
                  /\ Cardinality(Trimmers(v)') = Cardinality(Trimmers(v)) + 1
              BY <4>2, <5>3, <5>4, <5>6, <6>2
            <7> QED
              BY <1>0, <4>0, <4>2, <5>3, <7>1
        <5> QED
          BY <5>5, <5>6
      <4>9. CASE Trim(t)
        <5>1. pc[t] = "trim" /\ Apply(t, "trim", excess[t].word)
          BY <4>9 DEF Trim
        <5>2. /\ Len(postings'[v]) \in Nat /\ Len(postings'[v]) <= Len(postings[v])
              /\ v = excess[t].word => Len(postings'[v]) = 0 \/ Len(postings'[v]) < Len(postings[v])
          BY <1>4, <4>3, <4>4, <5>1, ApplyLengths DEF Busy
        <5>3. CASE v # excess[t].word
          <6>1. t \notin Trimmers(v)
            BY <5>3 DEF Trimmers
          <6>2. Cardinality(Trimmers(v)') >= Cardinality(Trimmers(v))
            BY <4>2, <6>1
          <6> QED
            BY <1>0, <4>0, <4>2, <5>2, <6>2
        <5>4. CASE v = excess[t].word
          <6>1. t \in Trimmers(v)
            BY <5>1, <5>4 DEF Trimmers
          <6>2. /\ Cardinality(Trimmers(v)) \in Nat /\ Cardinality(Trimmers(v)') \in Nat
                /\ Cardinality(Trimmers(v)') >= Cardinality(Trimmers(v)) - 1
            BY <4>2, <6>1
          <6>3. CASE Len(postings'[v]) = 0
            <7>1. Len(postings'[v]) <= MaxPostings
              BY <4>0, <6>3
            <7> QED
              BY <1>0, <4>0, <5>2, <6>2, <7>1
          <6>4. CASE Len(postings'[v]) < Len(postings[v])
            BY <1>0, <4>0, <5>2, <6>2, <6>4
          <6> QED
            BY <5>2, <5>4, <6>3, <6>4
        <5> QED
          BY <5>3, <5>4
      <4>10. CASE PurgeQuery(t) \/ IngestStart(t)
        BY <4>6, <4>10 DEF PurgeQuery, IngestStart, Begin, db
      <4>11. CASE Check(t) \/ RemoveRow(t) \/ UpsertRow(t)
        BY <4>6, <4>11 DEF Check, RemoveRow, UpsertRow, Apply, PutRow, db
      <4>12. CASE RecordUnread(t)
        <5>1. pc[t] # "trim"
          BY <4>12 DEF RecordUnread
        <5> QED
          BY <4>6, <4>12, <5>1 DEF RecordUnread, db
      <4> QED
        BY <2>1, <4>7, <4>8, <4>9, <4>10, <4>11, <4>12 DEF WriterStep
    <3> QED
      BY <3>2, <3>3
  <2>2. ASSUME NEW t \in Writers, CallFails(t) PROVE BoundInv'
    <3>1. Own(t)
      BY <1>4, <2>2, WriterTypes DEF WriterStep
    <3>2. /\ postings' = postings /\ faults' = faults + 1
          /\ late' = late \/ \E q \in InFlight(t) : late' = late \cup {q}
      BY <2>2 DEF CallFails, db
    <3>3. \A q \in InFlight(t) : q.op = pc[t]
      BY DEF InFlight
    <3>4. /\ FewLate'
          /\ \A v : /\ Cardinality(LatePosts(v)') \in Nat
                    /\ Cardinality(LatePosts(v)') <= Cardinality(LatePosts(v)) + 1
                    /\ pc[t] # "post" => LatePosts(v)' = LatePosts(v)
      <4>1. CASE late' = late
        <5>1. Cardinality(late) \in Nat
          BY <2>0, FS_CardinalityType DEF FewLate
        <5>2. FewLate'
          BY <2>0, <3>2, <4>1, <5>1 DEF FewLate
        <5>3. \A v : LatePosts(v)' = LatePosts(v) /\ Cardinality(LatePosts(v)) \in Nat
          BY <2>0, <4>1, LateCounts DEF LatePosts
        <5> QED
          BY <5>2, <5>3
      <4>2. ASSUME NEW q \in InFlight(t), late' = late \cup {q}
            PROVE  /\ FewLate'
                   /\ \A v : /\ Cardinality(LatePosts(v)') \in Nat
                             /\ Cardinality(LatePosts(v)') <= Cardinality(LatePosts(v)) + 1
                             /\ q.op # "post" => LatePosts(v)' = LatePosts(v)
        BY <2>0, <3>2, <4>2, LateAdded
      <4> QED
        BY <3>2, <3>3, <4>1, <4>2
    <3>5. ASSUME NEW v \in Words PROVE Bounded(v)'
      <4>1. /\ Bounded(v) /\ MaxPostings \in Nat /\ faults \in Nat /\ Len(postings[v]) \in Nat
            /\ Cardinality(LatePosts(v)) \in Nat
        BY <1>1, <1>4
      <4>2. /\ Cardinality(Trimmers(v)) \in Nat /\ Cardinality(Trimmers(v)') \in Nat
            /\ t \notin Trimmers(v) => Cardinality(Trimmers(v)') >= Cardinality(Trimmers(v))
            /\ t \in Trimmers(v) => Cardinality(Trimmers(v)') >= Cardinality(Trimmers(v)) - 1
        BY <1>4, <3>1, TrimmersStep
      <4>3. CASE pc[t] = "trim"
        <5>1. /\ Cardinality(Trimmers(v)') >= Cardinality(Trimmers(v)) - 1
              /\ Cardinality(LatePosts(v)') = Cardinality(LatePosts(v))
          BY <3>4, <4>2, <4>3
        <5> QED
          BY <1>6, <3>2, <3>4, <4>1, <4>2, <5>1
      <4>4. CASE pc[t] # "trim"
        <5>1. t \notin Trimmers(v)
          BY <4>4 DEF Trimmers
        <5>2. Cardinality(Trimmers(v)') >= Cardinality(Trimmers(v))
          BY <4>2, <5>1
        <5> QED
          BY <1>6, <3>2, <3>4, <4>1, <4>2, <5>2
      <4> QED
        BY <4>3, <4>4
    <3> QED
      BY <3>4, <3>5
  <2>3. ASSUME NEW q \in late, ApplyLate(q) PROVE BoundInv'
    <3>1. /\ q.by \in Writers /\ q.op \in Writes
          /\ Apply(q.by, q.op, q.word) /\ item[q.by] \in EventType
          /\ q.op \in {"post", "unref"} => q.word \in left[q.by] /\ q.word \in Words
          /\ q.op = "trim" => excess[q.by].word \in Words /\ excess[q.by].n > 0
          /\ UNCHANGED <<pc, excess, faults>> /\ late' = late \ {q}
      BY <1>4, <2>3, LateTypes
    <3>2. /\ FewLate'
          /\ \A v : /\ Cardinality(LatePosts(v)') \in Nat
                    /\ Cardinality(LatePosts(v)') <= Cardinality(LatePosts(v))
                    /\ q.op = "post" /\ q.word = v =>
                          Cardinality(LatePosts(v)') = Cardinality(LatePosts(v)) - 1
      BY <2>0, <2>3, <3>1, LateRemoved
    <3>3. ASSUME NEW v \in Words PROVE Bounded(v)'
      <4>1. /\ Bounded(v) /\ MaxPostings \in Nat /\ faults \in Nat /\ Len(postings[v]) \in Nat
            /\ Cardinality(LatePosts(v)) \in Nat /\ Cardinality(Trimmers(v)) \in Nat
        BY <1>1, <1>4
      <4>2. Trimmers(v)' = Trimmers(v) /\ faults' = faults
        BY <3>1 DEF Trimmers
      <4>3. /\ Len(postings'[v]) \in Nat
            /\ q.op # "post" \/ v # q.word => Len(postings'[v]) <= Len(postings[v])
            /\ q.op = "post" /\ v = q.word => Len(postings'[v]) = Len(postings[v]) + 1
        BY <1>4, <3>1, ApplyLengths
      <4>4. CASE q.op = "post" /\ v = q.word
        BY <1>6, <3>2, <4>1, <4>2, <4>3, <4>4
      <4>5. CASE ~(q.op = "post" /\ v = q.word)
        BY <1>6, <3>2, <4>1, <4>2, <4>3, <4>5
      <4> QED
        BY <4>4, <4>5
    <3> QED
      BY <3>2, <3>3
  <2>4. ASSUME Aside PROVE BoundInv'
    <3>1. \A u \in Writers : pc'[u] = pc[u]
      BY <1>4, <2>4, AsideTypes
    <3>2. /\ postings' = postings /\ late' = late /\ excess' = excess
          /\ faults' \in Nat /\ faults' >= faults
      BY <2>4 DEF Aside
    <3>3. FewLate'
      <4>1. Cardinality(late) \in Nat
        BY <2>0, FS_CardinalityType DEF FewLate
      <4> QED
        BY <2>0, <3>2, <4>1 DEF FewLate
    <3>4. ASSUME NEW v \in Words PROVE Bounded(v)'
      <4>1. Trimmers(v)' = Trimmers(v) /\ LatePosts(v)' = LatePosts(v)
        BY <3>1, <3>2 DEF Trimmers, LatePosts
      <4> QED
        BY <1>1, <1>4, <3>2, <4>1
    <3> QED
      BY <3>3, <3>4
  <2>5. CASE Next
    <3>1. CASE \E t \in Writers : WriterStep(t)
      BY <2>1, <2>2, <3>1
    <3>2. CASE \E q \in Searchers : SearchStep(q)
      BY <1>4, <2>4, <3>2, SearchAside
    <3>3. CASE \E q \in late : ApplyLate(q)
      BY <2>3, <3>3
    <3> QED
      BY <2>5, <3>1, <3>2, <3>3, NextSteps
  <2>6. CASE UNCHANGED vars
    <3>1. /\ \A v : Trimmers(v)' = Trimmers(v) /\ LatePosts(v)' = LatePosts(v)
          /\ postings' = postings /\ late' = late /\ faults' = faults
      BY <2>6 DEF vars, db, work, past, Trimmers, LatePosts
    <3> QED
      BY <1>4, <3>1 DEF FewLate
  <2> QED
    BY <1>4, <2>5, <2>6
<1>5. Spec => []ControlInv
  BY ControlInvariant
<1> QED
  BY <1>2, <1>3, <1>4, <1>5, PTL DEF Spec

-----------------------------------------------------------------------------
(* The rows of a session that is replaced.                                 *)

Writing == {"check", "put", "post", "trim"}

\* The call that writer t waits for, or whose request is still under way.
Stage(t) == IF \E q \in late : q.by = t THEN (CHOOSE q \in late : q.by = t).op ELSE pc[t]

LEMMA StageFacts ==
    ASSUME ControlInv, NEW t \in Writers
    PROVE  /\ \A q \in late : q.by = t => Stage(t) = q.op /\ pc[t] = "failed"
           /\ (\A q \in late : q.by # t) => Stage(t) = pc[t]
<1>1. ASSUME NEW q \in late, q.by = t PROVE Stage(t) = q.op /\ pc[t] = "failed"
  <2>1. \A r \in late : r.by = t => r = q
    BY <1>1 DEF ControlInv, LateInv
  <2>2. (CHOOSE r \in late : r.by = t) = q
    BY <1>1, <2>1
  <2> QED
    BY <1>1, <2>2 DEF Stage, ControlInv, LateInv
<1> QED
  BY <1>1 DEF Stage

LEMMA StageFactsNext ==
    ASSUME ControlInv', NEW t \in Writers
    PROVE  /\ \A q \in late' : q.by = t => Stage(t)' = q.op
           /\ (\A q \in late' : q.by # t) => Stage(t)' = pc'[t]
<1>1. ASSUME NEW q \in late', q.by = t PROVE Stage(t)' = q.op
  <2>1. \A r \in late' : r.by = t => r = q
    BY <1>1 DEF ControlInv, LateInv
  <2>2. (CHOOSE r \in late' : r.by = t) = q
    BY <1>1, <2>1
  <2> QED
    BY <1>1, <2>2 DEF Stage
<1> QED
  BY <1>1 DEF Stage

\* A step of writer t takes t to the label it sets; if its call fails, the
\* request keeps its stage or is lost.
LEMMA StageStep ==
    ASSUME ControlInv, NEW t \in Writers, WriterStep(t)
    PROVE  /\ Stage(t) = pc[t]
           /\ ~CallFails(t) => Stage(t)' = pc'[t]
           /\ CallFails(t) => Stage(t)' \in {Stage(t), "failed"}
           /\ \A u \in Writers \ {t} : Stage(u)' = Stage(u) /\ pc'[u] = pc[u]
<1>1. Own(t) /\ ControlInv'
  BY WriterTypes
<1>2. \A u \in Writers : u \in Tasks
  BY DEF Tasks
<1>3. \A q \in late : q.by # t
  BY <1>1 DEF Own, ControlInv, LateInv, Ended
<1>4. Stage(t) = pc[t]
  BY <1>3, StageFacts
<1>5. \A u \in Writers \ {t} : pc'[u] = pc[u]
  BY <1>1, <1>2 DEF Own, ControlInv, PhaseInv
<1>6. \A q \in InFlight(t) : q.by = t /\ q.op = pc[t]
  BY DEF InFlight
<1>7. late' = late \/ \E q \in InFlight(t) : late' = late \cup {q}
  BY <1>1 DEF Own, Fails
<1>8. ASSUME NEW u \in Writers \ {t} PROVE Stage(u)' = Stage(u)
  <2>1. \A q : q \in late' /\ q.by = u <=> q \in late /\ q.by = u
    BY <1>6, <1>7
  <2>2. CASE \E q \in late : q.by = u
    <3>1. PICK q \in late : q.by = u
      BY <2>2
    <3>2. q \in late'
      BY <2>1, <3>1
    <3> QED
      BY <1>1, <3>1, <3>2, StageFacts, StageFactsNext
  <2>3. CASE \A q \in late : q.by # u
    <3>1. \A q \in late' : q.by # u
      BY <2>1, <2>3
    <3> QED
      BY <1>1, <1>5, <2>3, <3>1, StageFacts, StageFactsNext
  <2> QED
    BY <2>2, <2>3
<1>9. ASSUME ~CallFails(t) PROVE Stage(t)' = pc'[t]
  <2>1. late' = late
    BY <1>9 DEF WriterStep, PurgeQuery, IngestStart, Unref, RemoveRow, Check, UpsertRow, Post,
                Trim, RecordUnread, past
  <2> QED
    BY <1>1, <1>3, <2>1, StageFactsNext
<1>10. ASSUME CallFails(t) PROVE Stage(t)' \in {Stage(t), "failed"}
  <2>1. pc'[t] = "failed"
    BY <1>2, <1>10 DEF CallFails, Goto, ControlInv, PhaseInv
  <2>2. CASE late' = late
    BY <1>1, <1>3, <2>1, <2>2, StageFactsNext
  <2>3. ASSUME NEW q \in InFlight(t), late' = late \cup {q} PROVE Stage(t)' = Stage(t)
    BY <1>1, <1>4, <1>6, <2>3, StageFactsNext
  <2> QED
    BY <1>7, <2>2, <2>3
<1> QED
  BY <1>4, <1>5, <1>8, <1>9, <1>10

\* A late request that is applied leaves its call, and no other.
LEMMA StageLate ==
    ASSUME ControlInv, NEW q \in late, ApplyLate(q)
    PROVE  /\ Stage(q.by) = q.op /\ Stage(q.by)' = "failed"
           /\ \A u \in Writers \ {q.by} : Stage(u)' = Stage(u)
<1>1. ControlInv' /\ q.by \in Writers /\ late' = late \ {q} /\ pc' = pc
  BY LateTypes
<1>2. Stage(q.by) = q.op /\ pc[q.by] = "failed"
  BY <1>1, StageFacts
<1>3. \A r \in late' : r.by # q.by
  BY <1>1 DEF ControlInv, LateInv
<1>4. Stage(q.by)' = "failed"
  BY <1>1, <1>2, <1>3, StageFactsNext
<1>5. ASSUME NEW u \in Writers \ {q.by} PROVE Stage(u)' = Stage(u)
  <2>1. \A r : r \in late' /\ r.by = u <=> r \in late /\ r.by = u
    BY <1>1
  <2>2. CASE \E r \in late : r.by = u
    <3>1. PICK r \in late : r.by = u
      BY <2>2
    <3>2. r \in late'
      BY <2>1, <3>1
    <3> QED
      BY <1>1, <3>1, <3>2, StageFacts, StageFactsNext
  <2>3. CASE \A r \in late : r.by # u
    <3>1. \A r \in late' : r.by # u
      BY <2>1, <2>3
    <3> QED
      BY <1>1, <2>3, <3>1, StageFacts, StageFactsNext
  <2> QED
    BY <2>2, <2>3
<1> QED
  BY <1>2, <1>4, <1>5

\* What writer t writes is of its input.
LocalInv(t) ==
    /\ Stage(t) \in Writing =>
          /\ item[t] \in ToSet(Texts(t)) /\ ToSet(input[t]) \subseteq ToSet(Texts(t))
          /\ left[t] \subseteq Tokenize(item[t].words)
    /\ Stage(t) = "remove" => left[t] = {}

\* Event ids identify the events of one call.
UniqueIds ==
    \A t \in Writers : \A e, f \in ToSet(Texts(t)) : e.eid = f.eid => e = f

\* x is the row of its event id in session s, as the purge query returns it.
IsRow(s, x) == row[<<s, x.eid>>] = [words |-> x.words, ts |-> x.ts] /\ x.text = TRUE

\* While t purges: its item and todo are the rows of the session.
PurgeInv(t) ==
    /\ item[t] \notin todo[t]
    /\ \A x \in todo[t] \cup {item[t]} : IsRow(Session[t], x)
    /\ \A e \in Eids : row[<<Session[t], e>>] # None =>
          \E x \in todo[t] \cup {item[t]} : x.eid = e

\* While an adder writes: the rows of the session are those of its events, and
\* those that are missing are still to come.
ReplaceInv(t) ==
    /\ \A e \in Eids : row[<<Session[t], e>>] # None =>
          \E f \in ToSet(Texts(t)) : f.eid = e /\ row[<<Session[t], e>>] = Content(f)
    /\ \A f \in ToSet(Texts(t)) :
          \/ pc[t] # "added" /\ f \in ToSet(input[t])
          \/ Stage(t) = "put" /\ f = item[t]
          \/ row[<<Session[t], f.eid>>] = Content(f)

SessionInv(t) ==
    /\ Stage(t) \in {"unref", "remove"} => PurgeInv(t)
    /\ Stage(t) \in {"post", "trim"} => row[<<Session[t], item[t].eid>>] = Content(item[t])
    /\ t \in Adders /\ Stage(t) \in Writing \cup {"added"} => ReplaceInv(t)

\* Nothing else writes the session of t: no call beside it, and no late request
\* of an earlier one.
Sure(t) == Alone(t) /\ t \notin struck

\* What t knows of its session is true as long as nothing else writes it.
WorkInv ==
    /\ \A t \in Writers : \A u \in seen[t] : pc[u] \in Ended /\ t \notin seen[u]
    /\ \A t \in Writers : LocalInv(t)
    /\ \A t \in Writers : Sure(t) => SessionInv(t)

\* What a step of writer t changes of seen.
LEMMA SeenStep ==
    ASSUME ControlInv, NEW t \in Writers, WriterStep(t)
    PROVE  /\ \A u \in Writers \ {t} : seen'[u] = seen[u] /\ pc'[u] = pc[u]
           /\ pc[t] # "start" => seen' = seen
           /\ pc[t] = "start" => Begin(t) /\ (PurgeQuery(t) \/ IngestStart(t))
           /\ \A u \in seen'[t] : u \in seen[t] \/ pc[u] \in Ended
<1>1. \A u \in Writers : u \in Tasks
  BY DEF Tasks
<1>2. Own(t)
  BY WriterTypes
<1>3. \A u \in Writers \ {t} : pc'[u] = pc[u]
  BY <1>1, <1>2 DEF Own, ControlInv, PhaseInv
<1>4. CASE PurgeQuery(t) \/ IngestStart(t)
  <2>1. /\ pc[t] = "start" /\ Begin(t)
        /\ seen' = [seen EXCEPT ![t] = {u \in Writers :
              pc[u] \in Ended /\ (t \in Writers => Session[u] = Session[t])}]
    BY <1>4 DEF PurgeQuery, IngestStart, Begin
  <2> QED
    BY <1>1, <1>3, <1>4, <2>1 DEF ControlInv, Types
<1>5. CASE ~(PurgeQuery(t) \/ IngestStart(t))
  <2>1. seen' = seen
    BY <1>5 DEF WriterStep, Unref, RemoveRow, Check, UpsertRow, Post, Trim, RecordUnread,
                CallFails, past
  <2>2. pc[t] # "start"
    BY <1>5 DEF WriterStep, Unref, RemoveRow, Check, UpsertRow, Post, Trim, RecordUnread,
                CallFails
  <2> QED
    BY <1>3, <2>1, <2>2
<1> QED
  BY <1>4, <1>5

\* A writer that is still alone in its session was not disturbed by the step
\* of another.
LEMMA SureOthers ==
    ASSUME ControlInv, WorkInv, NEW t \in Writers, WriterStep(t), NEW u \in Writers \ {t},
           Sure(u)'
    PROVE  Sure(u) /\ Session[u] # Session[t]
<1>1. /\ seen'[u] = seen[u]
      /\ \A r \in Writers \ {t} : pc'[r] = pc[r]
  BY SeenStep
<1>2. Own(t)
  BY WriterTypes
<1>3. pc[t] \notin Ended /\ pc'[t] # "start" /\ struck' = struck
  BY <1>2 DEF Own
<1>4. t \notin seen[u]
  BY <1>3 DEF WorkInv
<1>5. Session[u] # Session[t]
  BY <1>1, <1>3, <1>4 DEF Sure, Alone
<1> QED
  BY <1>1, <1>3, <1>5 DEF Sure, Alone

\* The rows that the purge query returns are those of the session.
LEMMA RowsOfFacts ==
    ASSUME Types, NEW s \in Sids
    PROVE  /\ \A x \in RowsOf({s}) : IsRow(s, x) /\ x.eid \in Eids
           /\ \A e \in Eids : row[<<s, e>>] # None => \E x \in RowsOf({s}) : x.eid = e
<1> DEFINE R(k) == [eid |-> k[2], words |-> row[k].words, ts |-> row[k].ts, text |-> TRUE]
<1>1. RowsOf({s}) = {R(k) : k \in {j \in {s} \X Eids : row[j] # None}}
  BY DEF RowsOf
<1>2. ASSUME NEW x \in RowsOf({s}) PROVE IsRow(s, x) /\ x.eid \in Eids
  <2>1. PICK k \in {s} \X Eids : row[k] # None /\ x = R(k)
    BY <1>1
  <2>2. k = <<s, k[2]>> /\ k[2] \in Eids /\ k \in Sids \X Eids
    OBVIOUS
  <2>3. row[k] \in RowType
    BY <2>1, <2>2 DEF Types
  <2>4. row[k] = [words |-> row[k].words, ts |-> row[k].ts]
    BY <2>3 DEF RowType
  <2>5. x.eid = k[2] /\ x.words = row[k].words /\ x.ts = row[k].ts /\ x.text = TRUE
    BY <2>1
  <2> HIDE DEF R
  <2> QED
    BY <2>2, <2>4, <2>5 DEF IsRow
<1>3. ASSUME NEW e \in Eids, row[<<s, e>>] # None PROVE \E x \in RowsOf({s}) : x.eid = e
  <2>1. <<s, e>> \in {j \in {s} \X Eids : row[j] # None}
    BY <1>3
  <2>2. R(<<s, e>>) \in RowsOf({s})
    BY <1>1, <2>1
  <2>3. R(<<s, e>>).eid = e
    OBVIOUS
  <2> QED
    BY <2>2, <2>3
<1> QED
  BY <1>2, <1>3

\* The next event is of the input, and an adder that goes on to it keeps what
\* it has replaced so far.
LEMMA NextEventWork ==
    ASSUME ControlInv, NEW t \in Writers, NEW events \in Seq(EventType),
           ToSet(events) \subseteq ToSet(Texts(t)), NextEvent(t, events), Stage(t)' = pc'[t]
    PROVE  /\ LocalInv(t)'
           /\ pc'[t] \in {"added", "check", "put"} /\ (t \in Adders => pc'[t] # "check")
           /\ t \in Adders
              /\ (\A e \in Eids : row'[<<Session[t], e>>] # None =>
                    \E f \in ToSet(Texts(t)) : f.eid = e /\ row'[<<Session[t], e>>] = Content(f))
              /\ (\A f \in ToSet(Texts(t)) :
                    f \in ToSet(events) \/ row'[<<Session[t], f.eid>>] = Content(f))
              => ReplaceInv(t)'
<1>1. t \in Tasks /\ ~(t \in Adders /\ t \in Ingesters)
  BY MemoryAssumption DEF Tasks
<1>2. CASE events = <<>>
  <2>1. pc'[t] = "added" /\ ToSet(events) = {}
    BY <1>1, <1>2 DEF NextEvent, Goto, ControlInv, PhaseInv, ToSet
  <2>2. LocalInv(t)'
    BY <2>1 DEF LocalInv, Writing
  <2> QED
    BY <2>1, <2>2 DEF ReplaceInv
<1>3. CASE events # <<>>
  <2>1. /\ input'[t] = Tail(events) /\ item'[t] = Head(events)
        /\ left'[t] = Tokenize(Head(events).words)
        /\ pc'[t] = IF t \in Ingesters THEN "check" ELSE "put"
    BY <1>1, <1>3 DEF NextEvent, Goto, ControlInv, Types, PhaseInv
  <2>2. ToSet(events) = {item'[t]} \cup ToSet(input'[t])
    BY <1>3, <2>1, HeadTail
  <2>3. LocalInv(t)'
    BY <2>1, <2>2 DEF LocalInv
  <2>4. t \in Adders => pc'[t] = "put"
    BY <1>1, <2>1
  <2> QED
    BY <2>1, <2>2, <2>3, <2>4 DEF ReplaceInv
<1> QED
  BY <1>2, <1>3

\* The next row to purge is one of those that are left.
LEMMA TakeWork ==
    ASSUME ControlInv, NEW t \in Adders, NEW rows \in SUBSET EventType, Take(t, rows),
           Stage(t)' = pc'[t]
    PROVE  /\ LocalInv(t)'
           /\ (\A x \in rows : IsRow(Session[t], x)')
              /\ (\A e \in Eids : row'[<<Session[t], e>>] # None => \E x \in rows : x.eid = e)
              => SessionInv(t)'
<1>1. t \in Writers /\ t \in Tasks
  BY DEF Writers, Tasks
<1>2. CASE rows = {} /\ NextEvent(t, Texts(t))
  <2>1. /\ LocalInv(t)' /\ pc'[t] \in {"added", "put"}
        /\ (\A e \in Eids : row'[<<Session[t], e>>] # None =>
              \E f \in ToSet(Texts(t)) : f.eid = e /\ row'[<<Session[t], e>>] = Content(f))
           => ReplaceInv(t)'
    BY <1>1, <1>2, TextsType, NextEventWork
  <2> QED
    BY <1>2, <2>1 DEF SessionInv
<1>3. CASE ~(rows = {} /\ NextEvent(t, Texts(t)))
  <2>1. PICK x \in rows :
            /\ todo' = [todo EXCEPT ![t] = rows \ {x}]
            /\ item' = [item EXCEPT ![t] = x]
            /\ left' = [left EXCEPT ![t] = x.words]
            /\ pc' = [pc EXCEPT ![t] = IF x.words = {} THEN "remove" ELSE "unref"]
    BY <1>3 DEF Take, Goto
  <2>2. /\ todo'[t] = rows \ {x} /\ item'[t] = x /\ left'[t] = x.words
        /\ pc'[t] = IF x.words = {} THEN "remove" ELSE "unref"
    BY <1>1, <2>1 DEF ControlInv, Types, PhaseInv
  <2>3. LocalInv(t)'
    BY <2>2 DEF LocalInv, Writing
  <2>4. todo'[t] \cup {item'[t]} = rows /\ item'[t] \notin todo'[t]
    BY <2>2
  <2>5. pc'[t] \notin Writing \cup {"added"} /\ pc'[t] \notin {"post", "trim"}
    BY <2>2 DEF Writing
  <2> QED
    BY <2>3, <2>4, <2>5 DEF SessionInv, PurgeInv
<1> QED
  BY <1>2, <1>3

\* A row that is put or removed is the only one that changes.
LEMMA PutEffect ==
    ASSUME ControlInv, NEW t \in Writers, item[t] \in EventType, NEW op, NEW w,
           op \in {"put", "remove"}, Apply(t, op, w)
    PROVE  /\ postings' = postings
           /\ op = "put" => row'[<<Session[t], item[t].eid>>] = Content(item[t])
           /\ op = "remove" => row'[<<Session[t], item[t].eid>>] = None
           /\ \A s \in Sids : \A e \in Eids :
                 <<s, e>> # <<Session[t], item[t].eid>> => row'[<<s, e>>] = row[<<s, e>>]
<1>1. <<Session[t], item[t].eid>> \in Sids \X Eids
  BY MemoryAssumption DEF EventType
<1> QED
  BY <1>1 DEF Apply, PutRow, ControlInv, Types

LEMMA ListEffect ==
    ASSUME NEW t, NEW op, NEW w, op \in {"post", "unref", "trim"}, Apply(t, op, w)
    PROVE  row' = row
  BY DEF Apply, SetList

\* After a row or a ref the writer goes on with the rest.
LEMMA AfterPostWork ==
    ASSUME ControlInv, NEW t \in Writers, LocalInv(t), pc[t] \in Writing,
           NEW words \in SUBSET left[t], AfterPost(t, words),
           Stage(t) = pc[t], Stage(t)' = pc'[t]
    PROVE  /\ LocalInv(t)'
           /\ row'[<<Session[t], item[t].eid>>] = Content(item[t])
              /\ (t \in Adders =>
                    /\ \A e \in Eids : row'[<<Session[t], e>>] # None =>
                        \E f \in ToSet(Texts(t)) : f.eid = e /\ row'[<<Session[t], e>>] = Content(f)
                    /\ \A f \in ToSet(Texts(t)) :
                        f \in ToSet(input[t]) \/ row'[<<Session[t], f.eid>>] = Content(f))
              => SessionInv(t)'
<1>1. t \in Tasks /\ input[t] \in Seq(EventType) /\ ToSet(input[t]) \subseteq ToSet(Texts(t))
  BY DEF Tasks, ControlInv, Types, LocalInv
<1>2. CASE NextEvent(t, input[t])
  <2>1. /\ LocalInv(t)' /\ pc'[t] \in {"added", "check", "put"}
        /\ t \in Adders
           /\ (\A e \in Eids : row'[<<Session[t], e>>] # None =>
                 \E f \in ToSet(Texts(t)) : f.eid = e /\ row'[<<Session[t], e>>] = Content(f))
           /\ (\A f \in ToSet(Texts(t)) :
                 f \in ToSet(input[t]) \/ row'[<<Session[t], f.eid>>] = Content(f))
           => ReplaceInv(t)'
    BY <1>1, <1>2, NextEventWork
  <2> QED
    BY <2>1 DEF SessionInv
<1>3. CASE ~NextEvent(t, input[t])
  <2>1. /\ pc'[t] = "post" /\ left'[t] = words /\ item'[t] = item[t] /\ input'[t] = input[t]
    BY <1>1, <1>3 DEF AfterPost, Goto, ControlInv, Types, PhaseInv
  <2>2. LocalInv(t)'
    BY <2>1 DEF LocalInv, Writing
  <2> QED
    BY <2>1, <2>2 DEF SessionInv, ReplaceInv
<1> QED
  BY <1>2, <1>3

\* A writer that is alone in its session keeps what it knows of it.
LEMMA OwnWork ==
    ASSUME UniqueIds, ControlInv, WorkInv, NEW t \in Writers, WriterStep(t), ~CallFails(t)
    PROVE  LocalInv(t)' /\ (Sure(t)' => SessionInv(t)')
<1> DEFINE S == Session[t]
           T == ToSet(Texts(t))
<1>1. S \in Sids /\ t \in Tasks /\ ~(t \in Adders /\ t \in Ingesters)
  BY MemoryAssumption DEF Tasks
<1> Stage(t) = pc[t] /\ Stage(t)' = pc'[t]
  BY StageStep
<1>2. LocalInv(t) /\ (Sure(t) => SessionInv(t))
  BY DEF WorkInv
<1>3. pc[t] # "start" /\ Sure(t)' => Sure(t)
  <2>1. /\ \A u \in Writers \ {t} : pc'[u] = pc[u]
        /\ pc[t] # "start" => seen' = seen
    BY SeenStep
  <2>2. struck' = struck
    BY WriterTypes DEF Own
  <2> QED
    BY <2>1, <2>2 DEF Sure, Alone
<1>4. pc[t] \in Busy => item[t] \in EventType /\ item[t].eid \in Eids
  BY DEF ControlInv, PhaseInv, EventType
<1>5. /\ t \in Adders => pc[t] \in AdderLabels
      /\ t \in Ingesters => pc[t] \in IngesterLabels
  BY DEF ControlInv, PhaseInv
<1>6. \A f \in T : f \in EventType /\ f.eid \in Eids
  BY TextsType
<1>7. \A e, f \in T : e.eid = f.eid => e = f
  BY DEF UniqueIds
<1>8. CASE t \in Adders /\ PurgeQuery(t)
  <2>1. Take(t, RowsOf({S})) /\ row' = row /\ RowsOf({S}) \in SUBSET EventType
    BY <1>1, <1>8, RowsOfType DEF PurgeQuery, db, ControlInv
  <2>2. /\ \A x \in RowsOf({S}) : IsRow(S, x)
        /\ \A e \in Eids : row[<<S, e>>] # None => \E x \in RowsOf({S}) : x.eid = e
    BY <1>1, RowsOfFacts DEF ControlInv
  <2>3. \A x \in RowsOf({S}) : IsRow(S, x)'
    BY <2>1, <2>2 DEF IsRow
  <2> QED
    BY <1>8, <2>1, <2>2, <2>3, TakeWork
<1>9. CASE t \in Adders /\ Unref(t)
  <2>1. PICK w \in left[t] :
          /\ Apply(t, "unref", w) /\ left' = [left EXCEPT ![t] = left[t] \ {w}]
          /\ pc' = [pc EXCEPT ![t] = IF left[t] = {w} THEN "remove" ELSE "unref"]
          /\ UNCHANGED <<todo, item>> /\ pc[t] = "unref"
    BY <1>9 DEF Unref, Goto
  <2>2. /\ left'[t] = left[t] \ {w} /\ todo'[t] = todo[t] /\ item'[t] = item[t]
        /\ pc'[t] = IF left[t] = {w} THEN "remove" ELSE "unref"
    BY <1>1, <2>1 DEF ControlInv, Types, PhaseInv
  <2>3. row' = row
    BY <2>1, ListEffect
  <2>4. LocalInv(t)'
    BY <2>2 DEF LocalInv, Writing
  <2>5. ASSUME Sure(t)' PROVE SessionInv(t)'
    <3>1. PurgeInv(t)
      BY <1>2, <1>3, <2>1, <2>5 DEF SessionInv
    <3>2. PurgeInv(t)'
      BY <2>2, <2>3, <3>1 DEF PurgeInv, IsRow
    <3> QED
      BY <2>2, <3>2 DEF SessionInv, Writing
  <2> QED
    BY <2>4, <2>5
<1>10. CASE t \in Adders /\ RemoveRow(t)
  <2>1. pc[t] = "remove" /\ Take(t, todo[t]) /\ Apply(t, "remove", None)
    BY <1>10 DEF RemoveRow
  <2>2. todo[t] \in SUBSET EventType /\ item[t] \in EventType /\ item[t].eid \in Eids
    BY <1>4, <2>1 DEF ControlInv, Types, Busy
  <2>3. /\ row'[<<S, item[t].eid>>] = None
        /\ \A e \in Eids : e # item[t].eid => row'[<<S, e>>] = row[<<S, e>>]
    BY <1>1, <2>1, <2>2, PutEffect
  <2>4. ASSUME Sure(t)' PROVE SessionInv(t)'
    <3>1. PurgeInv(t)
      BY <1>2, <1>3, <2>1, <2>4 DEF SessionInv
    <3>2. \A x \in todo[t] : x.eid # item[t].eid /\ x.eid \in Eids
      <4> SUFFICES ASSUME NEW x \in todo[t], x.eid = item[t].eid PROVE FALSE
        BY <2>2 DEF EventType
      <4>1. IsRow(S, x) /\ IsRow(S, item[t]) /\ x # item[t]
        BY <3>1 DEF PurgeInv
      <4>2. [words |-> x.words, ts |-> x.ts] = [words |-> item[t].words, ts |-> item[t].ts]
        BY <4>1 DEF IsRow
      <4>3. x.words = item[t].words /\ x.ts = item[t].ts /\ x.text = item[t].text
        BY <4>1, <4>2 DEF IsRow
      <4>4. x \in EventType
        BY <2>2
      <4> QED
        BY <2>2, <4>1, <4>3, <4>4 DEF EventType
    <3>3. \A x \in todo[t] : IsRow(S, x)'
      BY <2>3, <3>1, <3>2 DEF PurgeInv, IsRow
    <3>4. \A e \in Eids : row'[<<S, e>>] # None => \E x \in todo[t] : x.eid = e
      BY <2>3, <3>1 DEF PurgeInv
    <3> QED
      BY <1>10, <2>1, <2>2, <3>3, <3>4, TakeWork
  <2> QED
    BY <1>10, <2>1, <2>2, <2>4, TakeWork
<1>11. CASE t \in Ingesters /\ IngestStart(t)
  <2>1. LocalInv(t)' /\ pc'[t] \in {"added", "check", "put"}
    BY <1>11, TextsType, NextEventWork DEF IngestStart
  <2> QED
    BY <1>1, <1>11, <2>1 DEF SessionInv
<1>12. CASE t \in Ingesters /\ (Check(t) \/ RecordUnread(t))
  <2>1. pc[t] = "check" /\ input[t] \in Seq(EventType) /\ ToSet(input[t]) \subseteq T
    BY <1>2, <1>5, <1>12 DEF Check, RecordUnread, IngesterLabels, LocalInv, Writing,
                             ControlInv, Types
  <2>2. CASE NextEvent(t, input[t])
    <3>1. LocalInv(t)' /\ pc'[t] \in {"added", "check", "put"}
      BY <2>1, <2>2, NextEventWork
    <3> QED
      BY <1>1, <1>12, <3>1 DEF SessionInv
  <2>3. CASE pc' = [pc EXCEPT ![t] = "put"] /\ UNCHANGED <<input, item, left>>
    <3>1. pc'[t] = "put"
      BY <1>1, <2>3 DEF ControlInv, PhaseInv
    <3>2. LocalInv(t)'
      BY <1>2, <2>1, <2>3, <3>1 DEF LocalInv, Writing
    <3> QED
      BY <1>1, <1>12, <3>1, <3>2 DEF SessionInv
  <2> QED
    BY <1>12, <2>1, <2>2, <2>3 DEF Check, RecordUnread, Goto
<1>13. CASE UpsertRow(t)
  <2>1. pc[t] = "put" /\ AfterPost(t, left[t]) /\ Apply(t, "put", None)
    BY <1>13 DEF UpsertRow
  <2>2. item[t] \in EventType /\ item[t].eid \in Eids /\ item[t] \in T
    BY <1>2, <1>4, <2>1 DEF Busy, LocalInv, Writing
  <2>3. /\ row'[<<S, item[t].eid>>] = Content(item[t])
        /\ \A e \in Eids : e # item[t].eid => row'[<<S, e>>] = row[<<S, e>>]
    BY <1>1, <2>1, <2>2, PutEffect
  <2>4. ASSUME Sure(t)', t \in Adders
        PROVE  /\ \A e \in Eids : row'[<<S, e>>] # None =>
                     \E f \in T : f.eid = e /\ row'[<<S, e>>] = Content(f)
               /\ \A f \in T : f \in ToSet(input[t]) \/ row'[<<S, f.eid>>] = Content(f)
    <3>1. ReplaceInv(t)
      BY <1>2, <1>3, <2>1, <2>4 DEF SessionInv, Writing
    <3>2. ASSUME NEW e \in Eids, row'[<<S, e>>] # None
          PROVE  \E f \in T : f.eid = e /\ row'[<<S, e>>] = Content(f)
      <4>1. CASE e = item[t].eid
        BY <2>2, <2>3, <4>1
      <4>2. CASE e # item[t].eid
        BY <2>3, <3>1, <3>2, <4>2 DEF ReplaceInv
      <4> QED
        BY <4>1, <4>2
    <3>3. ASSUME NEW f \in T
          PROVE  f \in ToSet(input[t]) \/ row'[<<S, f.eid>>] = Content(f)
      <4>1. CASE f.eid = item[t].eid
        <5>1. f = item[t]
          BY <1>7, <2>2, <4>1
        <5> QED
          BY <2>3, <5>1
      <4>2. CASE f.eid # item[t].eid
        <5>1. row'[<<S, f.eid>>] = row[<<S, f.eid>>] /\ f # item[t]
          BY <1>6, <2>3, <4>2
        <5> QED
          BY <3>1, <5>1 DEF ReplaceInv
      <4> QED
        BY <4>1, <4>2
    <3> QED
      BY <3>2, <3>3
  <2> QED
    BY <1>2, <2>1, <2>3, <2>4, AfterPostWork DEF Writing
<1>14. ASSUME pc[t] \in {"post", "trim"}, row' = row, Sure(t)'
       PROVE  /\ row'[<<S, item[t].eid>>] = Content(item[t])
              /\ t \in Adders =>
                    /\ \A e \in Eids : row'[<<S, e>>] # None =>
                          \E f \in T : f.eid = e /\ row'[<<S, e>>] = Content(f)
                    /\ \A f \in T : f \in ToSet(input[t]) \/ row'[<<S, f.eid>>] = Content(f)
  <2>1. SessionInv(t)
    BY <1>2, <1>3, <1>14
  <2>2. row[<<S, item[t].eid>>] = Content(item[t])
    BY <1>14, <2>1 DEF SessionInv
  <2>3. t \in Adders => ReplaceInv(t)
    BY <1>14, <2>1 DEF SessionInv, Writing
  <2> QED
    BY <1>14, <2>2, <2>3 DEF ReplaceInv
<1>15. CASE Post(t)
  <2>1. PICK w \in left[t] :
          /\ Apply(t, "post", w) /\ pc[t] = "post"
          /\ \/ AfterPost(t, left[t] \ {w})
             \/ /\ left' = [left EXCEPT ![t] = left[t] \ {w}]
                /\ pc' = [pc EXCEPT ![t] = "trim"] /\ UNCHANGED <<input, item>>
    BY <1>15 DEF Post, Goto
  <2>2. row' = row
    BY <2>1, ListEffect
  <2>3. CASE AfterPost(t, left[t] \ {w})
    BY <1>2, <1>14, <2>1, <2>2, <2>3, AfterPostWork DEF Writing
  <2>4. CASE ~AfterPost(t, left[t] \ {w})
    <3>1. /\ pc'[t] = "trim" /\ left'[t] = left[t] \ {w}
          /\ item'[t] = item[t] /\ input'[t] = input[t]
      BY <1>1, <2>1, <2>4 DEF ControlInv, Types, PhaseInv
    <3>2. LocalInv(t)'
      BY <1>2, <2>1, <3>1 DEF LocalInv, Writing
    <3>3. ASSUME Sure(t)' PROVE SessionInv(t)'
      BY <1>14, <2>1, <2>2, <3>1, <3>3 DEF SessionInv, ReplaceInv
    <3> QED
      BY <3>2, <3>3
  <2> QED
    BY <2>3, <2>4
<1>16. CASE Trim(t)
  <2>1. pc[t] = "trim" /\ AfterPost(t, left[t]) /\ Apply(t, "trim", excess[t].word)
    BY <1>16 DEF Trim
  <2>2. row' = row
    BY <2>1, ListEffect
  <2> QED
    BY <1>2, <1>14, <2>1, <2>2, AfterPostWork DEF Writing
<1>18. RecordUnread(t) => t \in Ingesters
  BY <1>5 DEF RecordUnread, AdderLabels, Writers
<1> QED
  BY <1>8, <1>9, <1>10, <1>11, <1>12, <1>13, <1>15, <1>16, <1>18 DEF WriterStep

\* A call that fails knows of its session what it knew when its request left.
LEMMA FailWork ==
    ASSUME ControlInv, WorkInv, NEW t \in Writers, CallFails(t)
    PROVE  LocalInv(t)' /\ (Sure(t)' => SessionInv(t)')
<1>1. WriterStep(t) /\ t \in Tasks
  BY DEF WriterStep, Tasks
<1>2. Stage(t) = pc[t] /\ Stage(t)' \in {Stage(t), "failed"}
  BY <1>1, StageStep
<1>3. UNCHANGED <<row, todo, input, item, left, seen, struck>>
  BY DEF CallFails, db, work
<1>4. /\ pc[t] # "start" /\ pc[t] # "added" /\ pc'[t] # "added"
      /\ \A u \in Writers \ {t} : pc'[u] = pc[u]
  BY <1>1, SeenStep DEF CallFails, Goto, ControlInv, PhaseInv, Ended
<1>5. LocalInv(t)'
  BY <1>2, <1>3 DEF WorkInv, LocalInv, Writing
<1>6. ASSUME Sure(t)' PROVE SessionInv(t)'
  <2>1. SessionInv(t)
    BY <1>3, <1>4, <1>6 DEF Sure, Alone, WorkInv
  <2>2. CASE Stage(t)' = "failed"
    BY <2>2 DEF SessionInv, Writing
  <2>3. CASE Stage(t)' = Stage(t)
    <3>1. PurgeInv(t) => PurgeInv(t)'
      BY <1>3 DEF PurgeInv, IsRow
    <3>2. ReplaceInv(t) => ReplaceInv(t)'
      BY <1>3, <1>4, <2>3 DEF ReplaceInv
    <3> QED
      BY <1>3, <2>1, <2>3, <3>1, <3>2 DEF SessionInv
  <2> QED
    BY <1>2, <2>2, <2>3
<1> QED
  BY <1>5, <1>6

LEMMA StageItem ==
    ASSUME ControlInv, NEW t \in Writers, Stage(t) \in Busy
    PROVE  item[t] \in EventType /\ item[t].eid \in Eids
<1>1. CASE \A q \in late : q.by # t
  BY <1>1, StageFacts DEF ControlInv, PhaseInv, EventType
<1>2. CASE \E q \in late : q.by = t
  BY <1>2 DEF ControlInv, LateInv, EventType
<1> QED
  BY <1>1, <1>2

\* What the others know of their sessions is not disturbed.
LEMMA OthersWork ==
    ASSUME ControlInv, WorkInv, NEW t \in Writers, WriterStep(t), NEW u \in Writers \ {t}
    PROVE  LocalInv(u)' /\ (Sure(u)' => SessionInv(u)')
<1>1. Own(t) /\ u \in Tasks /\ Session[u] \in Sids
  BY WriterTypes, MemoryAssumption DEF Tasks
<1>2. /\ pc'[u] = pc[u] /\ todo'[u] = todo[u] /\ input'[u] = input[u]
      /\ item'[u] = item[u] /\ left'[u] = left[u] /\ Stage(u)' = Stage(u)
  BY <1>1, StageStep DEF Own, ControlInv, Types, PhaseInv
<1>3. LocalInv(u) /\ (Sure(u) => SessionInv(u))
  BY DEF WorkInv
<1>4. LocalInv(u)'
  BY <1>2, <1>3 DEF LocalInv
<1>5. ASSUME Sure(u)' PROVE SessionInv(u)'
  <2>1. Sure(u) /\ Session[u] # Session[t]
    BY <1>5, SureOthers
  <2>2. \A e \in Eids : row'[<<Session[u], e>>] = row[<<Session[u], e>>]
    BY <1>1, <2>1 DEF Own
  <2>3. SessionInv(u)
    BY <1>3, <2>1
  <2>4. Stage(u) \in Busy => item[u] \in EventType /\ item[u].eid \in Eids
    BY StageItem
  <2>5. \A x \in todo[u] : x.eid \in Eids
    BY DEF ControlInv, Types, EventType
  <2>6. \A f \in ToSet(Texts(u)) : f.eid \in Eids
    BY TextsType
  <2>7. Stage(u) \in {"unref", "remove"} => PurgeInv(u)'
    BY <1>2, <2>2, <2>3, <2>4, <2>5 DEF SessionInv, PurgeInv, IsRow, Busy
  <2>8. u \in Adders /\ Stage(u) \in Writing \cup {"added"} => ReplaceInv(u)'
    BY <1>2, <2>2, <2>3, <2>6 DEF SessionInv, ReplaceInv
  <2>9. Stage(u) \in {"post", "trim"} => row'[<<Session[u], item'[u].eid>>] = Content(item'[u])
    BY <1>2, <2>2, <2>3, <2>4 DEF SessionInv, Busy
  <2> QED
    BY <1>2, <2>7, <2>8, <2>9 DEF SessionInv
<1> QED
  BY <1>4, <1>5

\* A late request meets no call that still relies on the session: a call that
\* began after its own is struck, one that had ended before is no longer alone.
LEMMA LateWork ==
    ASSUME ControlInv, WorkInv, NEW q \in late, ApplyLate(q)
    PROVE  WorkInv'
<1> DEFINE t == q.by
<1>1. /\ t \in Writers /\ struck' = struck \cup Overtaken(t)
      /\ \A s \in Sids : \A e \in Eids : s # Session[t] => row'[<<s, e>>] = row[<<s, e>>]
      /\ UNCHANGED <<pc, todo, input, item, left, seen>>
  BY LateTypes
<1>2. /\ Stage(t)' = "failed" /\ pc[t] = "failed"
      /\ \A u \in Writers \ {t} : Stage(u)' = Stage(u)
  BY <1>1, StageLate, StageFacts
<1> HIDE DEF t
<1>3. \A u \in Writers : LocalInv(u)'
  <2>1. LocalInv(t)'
    BY <1>2 DEF LocalInv, Writing
  <2>2. ASSUME NEW u \in Writers \ {t} PROVE LocalInv(u)'
    BY <1>1, <1>2 DEF WorkInv, LocalInv
  <2> QED
    BY <2>1, <2>2
<1>4. SessionInv(t)'
  BY <1>2 DEF SessionInv, Writing
<1>5. ASSUME NEW u \in Writers \ {t}, Sure(u)' PROVE SessionInv(u)'
  <2>1. Sure(u)
    BY <1>1, <1>5 DEF Sure, Alone
  <2>2. SessionInv(u)
    BY <2>1 DEF WorkInv
  <2>3. CASE Session[u] = Session[t]
    <3>1. t \in seen[u]
      BY <1>1, <1>2, <2>1, <2>3 DEF Sure, Alone
    <3>2. u \notin seen[t]
      BY <3>1 DEF WorkInv
    <3>3. pc[u] = "start"
      BY <1>1, <1>5, <2>3, <3>2 DEF Sure, Overtaken
    <3>4. Stage(u) = "start"
      BY <3>3, StageFacts
    <3> QED
      BY <1>2, <3>4 DEF SessionInv, Writing
  <2>4. CASE Session[u] # Session[t]
    <3>1. \A e \in Eids : row'[<<Session[u], e>>] = row[<<Session[u], e>>]
      BY <1>1, <2>4, MemoryAssumption
    <3>2. Stage(u) \in Busy => item[u] \in EventType /\ item[u].eid \in Eids
      BY StageItem
    <3>3. \A x \in todo[u] : x.eid \in Eids
      BY DEF ControlInv, Types, EventType
    <3>4. \A f \in ToSet(Texts(u)) : f.eid \in Eids
      BY TextsType
    <3>5. Stage(u) \in {"unref", "remove"} => PurgeInv(u)'
      BY <1>1, <2>2, <3>1, <3>2, <3>3 DEF SessionInv, PurgeInv, IsRow, Busy
    <3>6. u \in Adders /\ Stage(u) \in Writing \cup {"added"} => ReplaceInv(u)'
      BY <1>1, <1>2, <2>2, <3>1, <3>4 DEF SessionInv, ReplaceInv
    <3>7. Stage(u) \in {"post", "trim"} => row'[<<Session[u], item'[u].eid>>] = Content(item'[u])
      BY <1>1, <2>2, <3>1, <3>2 DEF SessionInv, Busy
    <3> QED
      BY <1>2, <3>5, <3>6, <3>7 DEF SessionInv
  <2> QED
    BY <2>3, <2>4
<1> QED
  BY <1>1, <1>3, <1>4, <1>5 DEF WorkInv

\* Each writer knows its session as long as nothing else writes it.
LEMMA WorkInvariant ==
    ASSUME UniqueIds
    PROVE  Spec => []WorkInv
<1>1. Init => WorkInv
  <2> SUFFICES ASSUME Init PROVE WorkInv
    OBVIOUS
  <2>1. \A t \in Writers : Stage(t) = "start" /\ seen[t] = {}
    BY DEF Init, Stage, Tasks
  <2> QED
    BY <2>1 DEF WorkInv, LocalInv, SessionInv, Writing
<1>2. ASSUME ControlInv, WorkInv, [Next]_vars PROVE WorkInv'
  <2>1. ASSUME NEW t \in Writers, WriterStep(t) PROVE WorkInv'
    <3>1. /\ pc[t] \notin Ended /\ \A u \in Writers \ {t} : seen'[u] = seen[u] /\ pc'[u] = pc[u]
          /\ \A u \in seen'[t] : u \in seen[t] \/ pc[u] \in Ended
      BY <1>2, <2>1, SeenStep, WriterTypes DEF Own
    <3>2. seen' \in [Tasks -> SUBSET Writers] /\ \A r \in Writers : r \in Tasks
      BY <1>2, <2>1, WriterTypes DEF ControlInv, Types, Tasks
    <3>3. ASSUME NEW r \in Writers, NEW u \in seen'[r] PROVE pc'[u] \in Ended /\ r \notin seen'[u]
      <4>1. pc[u] \in Ended /\ u \in Writers /\ u # t
        BY <1>2, <3>1, <3>2 DEF WorkInv
      <4>2. r = t => r \notin seen[u]
        BY <1>2, <3>1, <4>1 DEF WorkInv
      <4>3. r # t => r \notin seen[u]
        BY <1>2, <3>1 DEF WorkInv
      <4> QED
        BY <3>1, <4>1, <4>2, <4>3
    <3>4. \A u \in Writers : LocalInv(u)' /\ (Sure(u)' => SessionInv(u)')
      BY <1>2, <2>1, OwnWork, FailWork, OthersWork
    <3> QED
      BY <3>3, <3>4 DEF WorkInv
  <2>2. ASSUME Aside PROVE WorkInv'
    <3>1. \A u \in Writers : pc'[u] = pc[u] /\ left'[u] = left[u] /\ seen'[u] = seen[u]
      BY <1>2, <2>2, AsideTypes
    <3>2. /\ row' = row /\ todo' = todo /\ input' = input /\ item' = item
          /\ late' = late /\ struck' = struck
      BY <2>2 DEF Aside
    <3>7. \A u \in Writers : Stage(u)' = Stage(u)
      BY <3>1, <3>2 DEF Stage
    <3>3. \A r \in Writers : \A u \in seen[r] : u \in Writers
      BY <1>2 DEF ControlInv, Types, Tasks
    <3>4. \A r \in Writers : \A u \in seen'[r] : pc'[u] \in Ended /\ r \notin seen'[u]
      BY <1>2, <3>1, <3>3 DEF WorkInv
    <3>5. \A r \in Writers : LocalInv(r)'
      BY <1>2, <3>1, <3>2, <3>7 DEF WorkInv, LocalInv
    <3>6. ASSUME NEW r \in Writers, Sure(r)' PROVE SessionInv(r)'
      <4>1. Sure(r)
        BY <3>1, <3>2, <3>6 DEF Sure, Alone
      <4>2. SessionInv(r)
        BY <1>2, <4>1 DEF WorkInv
      <4> QED
        BY <3>1, <3>2, <3>7, <4>2 DEF SessionInv, PurgeInv, ReplaceInv, IsRow
    <3> QED
      BY <3>4, <3>5, <3>6 DEF WorkInv
  <2>5. ASSUME NEW q \in late, ApplyLate(q) PROVE WorkInv'
    BY <1>2, <2>5, LateWork
  <2>3. CASE Next
    BY <1>2, <2>1, <2>2, <2>3, <2>5, NextSteps, SearchAside
  <2>4. CASE UNCHANGED vars
    <3>1. UNCHANGED <<row, pc, todo, input, item, left, late, struck, seen>>
      BY <2>4 DEF vars, db, work, past
    <3>2. \A u : Stage(u)' = Stage(u)
      BY <3>1 DEF Stage
    <3> QED
      BY <1>2, <3>1, <3>2 DEF WorkInv, LocalInv, Sure, Alone, SessionInv, PurgeInv, ReplaceInv, IsRow
  <2> QED
    BY <1>2, <2>3, <2>4
<1> QED
  BY <1>1, <1>2, ControlInvariant, PTL DEF Spec

\* When add_session_to_memory returns, the rows of the session are exactly
\* those of its events: what earlier attempts left, complete or failed, is
\* purged (_purge_session_memories), and nothing that was purged is missing.
\* A request that an attempt had under way when it failed does no harm either,
\* unless it arrives after the call that returns has begun.
THEOREM SessionReplaced ==
    ASSUME UniqueIds
    PROVE  Spec => []RowsReplaced
<1>1. ASSUME ControlInv, WorkInv PROVE RowsReplaced
  <2> SUFFICES ASSUME NEW t \in Adders, pc[t] = "added", Sure(t)
               PROVE  RowsOf({Session[t]}) =
                        {[eid |-> e.eid, words |-> Tokenize(e.words), ts |-> e.ts, text |-> TRUE] :
                            e \in ToSet(Texts(t))}
    BY DEF RowsReplaced, Replaced, Sure
  <2> DEFINE S == Session[t]
             T == ToSet(Texts(t))
             R(k) == [eid |-> k[2], words |-> row[k].words, ts |-> row[k].ts, text |-> TRUE]
             M(e) == [eid |-> e.eid, words |-> Tokenize(e.words), ts |-> e.ts, text |-> TRUE]
  <2>1. t \in Writers /\ \A f \in T : f \in EventType /\ f.eid \in Eids
    BY TextsType DEF Writers
  <2>2. Stage(t) = "added" /\ ReplaceInv(t)
    BY <1>1, <2>1, StageFacts DEF WorkInv, SessionInv
  <2>3. RowsOf({S}) = {R(k) : k \in {j \in {S} \X Eids : row[j] # None}}
    BY DEF RowsOf
  <2>4. \A f : Content(f).words = Tokenize(f.words) /\ Content(f).ts = f.ts
    BY DEF Content
  <2>5. ASSUME NEW x \in RowsOf({S}) PROVE x \in {M(e) : e \in T}
    <3>1. PICK k \in {S} \X Eids : row[k] # None /\ x = R(k)
      BY <2>3
    <3>2. k = <<S, k[2]>> /\ k[2] \in Eids
      OBVIOUS
    <3>3. PICK f \in T : f.eid = k[2] /\ row[k] = Content(f)
      BY <2>2, <3>1, <3>2 DEF ReplaceInv
    <3>4. x = M(f)
      BY <2>4, <3>1, <3>3
    <3> QED
      BY <3>4
  <2>6. ASSUME NEW f \in T PROVE M(f) \in RowsOf({S})
    <3> DEFINE k == <<S, f.eid>>
    <3>1. row[k] = Content(f)
      BY <2>2 DEF ReplaceInv
    <3>2. Content(f) # None /\ k \in {S} \X Eids /\ k[2] = f.eid
      BY <2>1, ContentType
    <3>3. R(k) = M(f)
      BY <2>4, <3>1, <3>2
    <3> HIDE DEF k, R, M
    <3> QED
      BY <2>3, <3>1, <3>2, <3>3
  <2> HIDE DEF M, R
  <2>7. RowsOf({S}) = {M(e) : e \in T}
    BY <2>5, <2>6
  <2> QED
    BY <2>7 DEF M
<1> QED
  BY <1>1, ControlInvariant, WorkInvariant, PTL

-----------------------------------------------------------------------------
(* No ref dangles.                                                         *)

\* An event that is ingested is the same wherever it is written.
IngestedUnchanged ==
    \A t \in Ingesters : \A u \in Writers : Session[u] = Session[t] =>
        \A e \in ToSet(Texts(t)) : \A f \in ToSet(Texts(u)) :
            e.eid = f.eid => Content(e) = Content(f)

\* A row is that of an event of some writer of the session.
SourceInv ==
    \A s \in Sids : \A e \in Eids : row[<<s, e>>] # None =>
        \E u \in Writers : \E f \in ToSet(Texts(u)) :
            Session[u] = s /\ f.eid = e /\ row[<<s, e>>] = Content(f)

\* A session is written by one call at a time.
SerialInv == \A t \in Writers : pc[t] \in Busy => Alone(t)

\* The tokens that t has done with no longer refer to the row that it purges.
UnrefInv ==
    \A t \in Writers : Alone(t) /\ Unstruck(Session[t]) /\ Stage(t) \in {"unref", "remove"} =>
        \A w \in Words : w \in item[t].words /\ w \notin left[t] =>
            \A x \in ToSet(postings[w]) : ~(x.sid = Session[t] /\ x.eid = item[t].eid)

RefInv == SourceInv /\ SerialInv /\ UnrefInv /\ NoDanglingRef

\* What a step of writer t does to the database.
LEMMA StepApplies ==
    ASSUME ControlInv, NEW t \in Writers, WriterStep(t)
    PROVE  \/ row' = row /\ postings' = postings
           \/ /\ pc[t] \in {"put", "remove", "post", "unref", "trim"}
              /\ \E w : /\ Apply(t, pc[t], w)
                        /\ pc[t] \in {"post", "unref"} => w \in left[t]
                        /\ pc[t] = "trim" => w = excess[t].word /\ w \in Words
<1>1. CASE Unref(t) \/ RemoveRow(t) \/ UpsertRow(t)
  BY <1>1 DEF Unref, RemoveRow, UpsertRow
<1>2. CASE Post(t) \/ Trim(t)
  BY <1>2 DEF Post, Trim, ControlInv, PhaseInv
<1>3. CASE CallFails(t)
  BY <1>3 DEF CallFails, db
<1>4. CASE PurgeQuery(t) \/ IngestStart(t) \/ Check(t) \/ RecordUnread(t)
  BY <1>4 DEF PurgeQuery, IngestStart, Check, RecordUnread, db
<1> QED
  BY <1>1, <1>2, <1>3, <1>4 DEF WriterStep

\* ... to the rows, and to the lists: only a post adds a ref.
Effect(t, op) ==
    /\ \A s \in Sids : \A e \in Eids :
          \/ row'[<<s, e>>] = row[<<s, e>>]
          \/ /\ s = Session[t] /\ e = item[t].eid
             /\ \/ op = "put" /\ row'[<<s, e>>] = Content(item[t])
                \/ op = "remove" /\ row'[<<s, e>>] = None
    /\ \A v \in Words : \A x \in ToSet(postings'[v]) :
          \/ x \in ToSet(postings[v])
          \/ op = "post" /\ v \in left[t] /\ x = RefOf(t)

LEMMA ApplyEffect ==
    ASSUME ControlInv, NEW t \in Writers, item[t] \in EventType,
           NEW op, op \in Writes, NEW w, Apply(t, op, w),
           op \in {"post", "unref"} => w \in left[t],
           op = "trim" => w = excess[t].word /\ w \in Words
    PROVE  Effect(t, op)
<1>1. postings \in [Words -> Seq(Refs)] /\ left[t] \subseteq Words
  BY DEF ControlInv, Types, Tasks
<1>2. CASE op \in {"put", "remove"}
  <2>1. /\ postings' = postings
        /\ op = "put" => row'[<<Session[t], item[t].eid>>] = Content(item[t])
        /\ op = "remove" => row'[<<Session[t], item[t].eid>>] = None
        /\ \A s \in Sids : \A e \in Eids :
              <<s, e>> # <<Session[t], item[t].eid>> => row'[<<s, e>>] = row[<<s, e>>]
    BY <1>2, PutEffect
  <2>2. ASSUME NEW s \in Sids, NEW e \in Eids, row'[<<s, e>>] # row[<<s, e>>]
        PROVE  /\ s = Session[t] /\ e = item[t].eid
               /\ \/ op = "put" /\ row'[<<s, e>>] = Content(item[t])
                  \/ op = "remove" /\ row'[<<s, e>>] = None
    <3>1. <<s, e>> = <<Session[t], item[t].eid>>
      BY <2>1, <2>2
    <3> QED
      BY <1>2, <2>1, <3>1
  <2> QED
    BY <2>1, <2>2 DEF Effect
<1>3. CASE op \in {"post", "unref", "trim"}
  <2>1. row' = row
    BY <1>3, ListEffect
  <2>2. ASSUME NEW v \in Words, NEW x \in ToSet(postings'[v])
        PROVE  \/ x \in ToSet(postings[v])
               \/ op = "post" /\ v \in left[t] /\ x = RefOf(t)
    <3>1. CASE op = "post"
      <4>1. postings' = [postings EXCEPT ![w] = Append(postings[w], RefOf(t))] /\ w \in left[t]
        BY <3>1 DEF Apply, SetList
      <4>2. RefOf(t) \in Refs
        BY MemoryAssumption DEF RefOf, Refs, EventType
      <4>3. ToSet(Append(postings[w], RefOf(t))) = ToSet(postings[w]) \cup {RefOf(t)}
        BY <1>1, <4>1, <4>2, AppendFacts
      <4> QED
        BY <1>1, <2>2, <3>1, <4>1, <4>3
    <3>2. CASE op = "unref"
      <4>1. postings' = [postings EXCEPT ![w] = Without(postings[w], RefOf(t))] /\ w \in left[t]
        BY <3>2 DEF Apply, SetList
      <4>2. ToSet(Without(postings[w], RefOf(t))) \subseteq ToSet(postings[w])
        BY <1>1, <4>1, WithoutFacts
      <4> QED
        BY <1>1, <2>2, <4>1, <4>2
    <3>3. CASE op = "trim"
      <4> DEFINE l == SubSeq(postings[w], excess[t].n + 1, Len(postings[w]))
      <4>1. postings' = [postings EXCEPT ![w] = l] /\ w \in Words
        BY <3>3 DEF Apply, SetList
      <4>2. excess[t].n \in Nat
        BY DEF ControlInv, Types, Excesses
      <4>3. ToSet(l) \subseteq ToSet(postings[w])
        BY <1>1, <4>1, <4>2, TrimmedFacts
      <4> HIDE DEF l
      <4> QED
        BY <1>1, <2>2, <4>1, <4>3
    <3> QED
      BY <1>3, <3>1, <3>2, <3>3
  <2> QED
    BY <2>1, <2>2 DEF Effect
<1> QED
  BY <1>2, <1>3 DEF Writes

LEMMA StepEffect ==
    ASSUME ControlInv, NEW t \in Writers, WriterStep(t)
    PROVE  Effect(t, Stage(t))
<1>1. Stage(t) = pc[t]
  BY StageStep
<1>2. CASE row' = row /\ postings' = postings
  BY <1>2 DEF Effect
<1>3. CASE ~(row' = row /\ postings' = postings)
  <2>1. PICK w : /\ pc[t] \in Writes /\ Apply(t, pc[t], w)
                 /\ pc[t] \in {"post", "unref"} => w \in left[t]
                 /\ pc[t] = "trim" => w = excess[t].word /\ w \in Words
    BY <1>3, StepApplies DEF Writes
  <2>2. item[t] \in EventType
    BY <2>1 DEF ControlInv, PhaseInv, Busy, Writes
  <2> QED
    BY <1>1, <2>1, <2>2, ApplyEffect
<1> QED
  BY <1>2, <1>3

LEMMA LateEffect ==
    ASSUME ControlInv, NEW q \in late, ApplyLate(q)
    PROVE  Effect(q.by, Stage(q.by))
<1>1. /\ q.by \in Writers /\ q.op \in Writes /\ Apply(q.by, q.op, q.word)
      /\ item[q.by] \in EventType
      /\ q.op \in {"post", "unref"} => q.word \in left[q.by]
      /\ q.op = "trim" => q.word = excess[q.by].word /\ q.word \in Words
  BY LateTypes
<1>2. Stage(q.by) = q.op
  BY StageLate
<1> QED
  BY <1>1, <1>2, ApplyEffect

\* Refs are of sessions and events.
LEMMA RefTypes ==
    ASSUME ControlInv, NEW v \in Words, NEW x \in ToSet(postings[v])
    PROVE  x \in Refs /\ x.sid \in Sids /\ x.eid \in Eids
<1>1. postings[v] \in Seq(Refs)
  BY DEF ControlInv, Types
<1>2. \A i \in DOMAIN postings[v] : postings[v][i] \in Refs
  BY <1>1
<1>3. x \in Refs
  BY <1>2 DEF ToSet
<1> QED
  BY <1>3 DEF Refs

\* A row that is written is one of its writer's events.
LEMMA SourceKept ==
    ASSUME ControlInv, WorkInv, RefInv, NEW t \in Writers, Effect(t, Stage(t))
    PROVE  SourceInv'
<1> SUFFICES ASSUME NEW s \in Sids, NEW e \in Eids, row'[<<s, e>>] # None
             PROVE  \E u \in Writers : \E f \in ToSet(Texts(u)) :
                      Session[u] = s /\ f.eid = e /\ row'[<<s, e>>] = Content(f)
  BY DEF SourceInv
<1>1. CASE row'[<<s, e>>] = row[<<s, e>>]
  BY <1>1 DEF RefInv, SourceInv
<1>2. CASE row'[<<s, e>>] # row[<<s, e>>]
  <2>1. s = Session[t] /\ e = item[t].eid /\ Stage(t) = "put" /\ row'[<<s, e>>] = Content(item[t])
    BY <1>2 DEF Effect
  <2>2. item[t] \in ToSet(Texts(t))
    BY <2>1 DEF WorkInv, LocalInv, Writing
  <2> QED
    BY <2>1, <2>2
<1> QED
  BY <1>1, <1>2

\* A write of a call that is alone in its session keeps refs and rows together.
LEMMA RefKept ==
    ASSUME UniqueIds, IngestedUnchanged, ControlInv, WorkInv, RefInv,
           NEW t \in Writers, Effect(t, Stage(t)),
           NEW v \in Words, NEW x \in ToSet(postings'[v]), Unstruck(x.sid),
           x.sid = Session[t] /\ Stage(t) \in Busy => Alone(t)
    PROVE  /\ row'[<<x.sid, x.eid>>] # None /\ row'[<<x.sid, x.eid>>].ts = x.ts
           /\ v \in row'[<<x.sid, x.eid>>].words
<1> DEFINE S == Session[t]
<1>1. S \in Sids
  BY MemoryAssumption
<1>2. Stage(t) \in Busy => item[t] \in EventType /\ item[t].eid \in Eids
  BY StageItem
<1>3. Stage(t) \in Writing =>
        item[t] \in ToSet(Texts(t)) /\ left[t] \subseteq Tokenize(item[t].words)
  BY DEF WorkInv, LocalInv
<1>4. x.sid = S /\ Stage(t) \in Busy => Alone(t) /\ Unstruck(S) /\ SessionInv(t)
  BY DEF WorkInv, Sure, Unstruck
<1>5. CASE x \in ToSet(postings[v])
  <2>1. /\ row[<<x.sid, x.eid>>] # None /\ row[<<x.sid, x.eid>>].ts = x.ts
        /\ v \in row[<<x.sid, x.eid>>].words /\ x.sid \in Sids /\ x.eid \in Eids
    BY <1>5, RefTypes DEF RefInv, NoDanglingRef
  <2>2. SUFFICES row'[<<x.sid, x.eid>>] = row[<<x.sid, x.eid>>]
    BY <2>1
  <2>3. ASSUME Stage(t) = "put", x.sid = S, x.eid = item[t].eid
        PROVE  row[<<x.sid, x.eid>>] = Content(item[t])
    <3>1. item[t] \in ToSet(Texts(t))
      BY <1>3, <2>3 DEF Writing
    <3>2. CASE t \in Adders
      <4>1. ReplaceInv(t)
        BY <1>4, <2>3, <3>2 DEF SessionInv, Writing, Busy
      <4>2. PICK f \in ToSet(Texts(t)) : f.eid = x.eid /\ row[<<x.sid, x.eid>>] = Content(f)
        BY <2>1, <2>3, <4>1 DEF ReplaceInv
      <4>3. f = item[t]
        BY <2>3, <3>1, <4>2 DEF UniqueIds
      <4> QED
        BY <4>2, <4>3
    <3>3. CASE t \in Ingesters
      <4>1. PICK u \in Writers : \E f \in ToSet(Texts(u)) :
              Session[u] = x.sid /\ f.eid = x.eid /\ row[<<x.sid, x.eid>>] = Content(f)
        BY <2>1 DEF RefInv, SourceInv
      <4>2. PICK f \in ToSet(Texts(u)) :
              Session[u] = x.sid /\ f.eid = x.eid /\ row[<<x.sid, x.eid>>] = Content(f)
        BY <4>1
      <4>3. Content(item[t]) = Content(f)
        BY <2>3, <3>1, <3>3, <4>2 DEF IngestedUnchanged
      <4> QED
        BY <4>2, <4>3
    <3> QED
      BY <3>2, <3>3 DEF Writers
  <2>4. ASSUME Stage(t) = "remove", x.sid = S, x.eid = item[t].eid
        PROVE  FALSE
    <3>1. PurgeInv(t) /\ left[t] = {} /\ Alone(t) /\ Unstruck(S)
      BY <1>4, <2>4 DEF SessionInv, Busy, WorkInv, LocalInv
    <3>2. row[<<S, item[t].eid>>] = [words |-> item[t].words, ts |-> item[t].ts]
      BY <3>1 DEF PurgeInv, IsRow
    <3>3. row[<<x.sid, x.eid>>].words = item[t].words
      BY <2>4, <3>2
    <3> QED
      BY <1>5, <2>1, <2>4, <3>1, <3>3 DEF RefInv, UnrefInv
  <2> QED
    BY <2>1, <2>3, <2>4 DEF Effect
<1>6. CASE x \notin ToSet(postings[v])
  <2>1. Stage(t) = "post" /\ v \in left[t] /\ x = RefOf(t)
    BY <1>6 DEF Effect
  <2>2. x.sid = S /\ x.eid = item[t].eid /\ x.ts = item[t].ts
    BY <2>1 DEF RefOf
  <2>3. row[<<S, item[t].eid>>] = Content(item[t]) /\ item[t] \in EventType /\ item[t].eid \in Eids
    BY <1>2, <1>4, <2>1, <2>2 DEF SessionInv, Busy
  <2>4. row'[<<S, item[t].eid>>] = row[<<S, item[t].eid>>]
    BY <1>1, <2>1, <2>3 DEF Effect
  <2>5. Content(item[t]) # None /\ Content(item[t]).ts = item[t].ts
        /\ Content(item[t]).words = Tokenize(item[t].words)
    BY <2>3, ContentType DEF Content
  <2>6. v \in Tokenize(item[t].words)
    BY <1>3, <2>1 DEF Writing
  <2> QED
    BY <2>2, <2>3, <2>4, <2>5, <2>6
<1> QED
  BY <1>5, <1>6

\* While callers write a session from one call at a time, a step of one of
\* them keeps refs and rows together.
LEMMA RefStep ==
    ASSUME Serial, UniqueIds, IngestedUnchanged, ControlInv, WorkInv, RefInv,
           NEW t \in Writers, WriterStep(t)
    PROVE  RefInv'
<1> DEFINE S == Session[t]
<1>1. S \in Sids /\ t \in Tasks /\ \A u \in Writers : u \in Tasks /\ Session[u] \in Sids
  BY MemoryAssumption DEF Tasks
<1>2. Own(t) /\ ControlInv' /\ struck' = struck
  BY WriterTypes DEF Own
<1>3. Stage(t) = pc[t] /\ Effect(t, Stage(t))
  BY StageStep, StepEffect
<1>4. \A s : Unstruck(s)' <=> Unstruck(s)
  BY <1>2 DEF Unstruck
<1>7. pc[t] \in Busy => Alone(t) /\ (Unstruck(S) => SessionInv(t))
  BY DEF RefInv, SerialInv, WorkInv, Sure, Unstruck
<1>8. \A u \in Writers \ {t} : /\ pc'[u] = pc[u] /\ item'[u] = item[u] /\ left'[u] = left[u]
                               /\ seen'[u] = seen[u] /\ Stage(u)' = Stage(u)
  BY <1>1, <1>2, SeenStep, StageStep DEF Own, ControlInv, Types, PhaseInv
<1>9. \A u \in Writers \ {t} : pc[u] \in Busy => Session[u] # S
  <2> SUFFICES ASSUME NEW u \in Writers \ {t}, pc[u] \in Busy, Session[u] = S PROVE FALSE
    OBVIOUS
  <2>1. pc[t] \notin Ended
    BY <1>2 DEF Own
  <2>2. CASE pc[t] = "start"
    <3>1. \A r \in Writers \ {t} : Session[r] = Session[t] => pc[r] \in Ended \cup {"start"}
      BY <2>2, SeenStep DEF Begin
    <3> QED
      BY <3>1 DEF Busy, Ended
  <2>3. CASE pc[t] # "start"
    <3>1. Alone(u) /\ t \notin seen[u]
      BY <2>1 DEF RefInv, SerialInv, WorkInv
    <3> QED
      BY <2>3, <3>1 DEF Alone
  <2> QED
    BY <2>2, <2>3
<1>10. SourceInv'
  BY <1>3, SourceKept
<1>11. SerialInv'
  <2>1. ASSUME NEW u \in Writers \ {t}, pc'[u] \in Busy PROVE Alone(u)'
    <3>1. Alone(u) /\ Session[u] # S
      BY <1>8, <1>9, <2>1 DEF RefInv, SerialInv
    <3> QED
      BY <1>8, <3>1 DEF Alone
  <2>2. CASE pc[t] = "start"
    <3>1. /\ \A u \in Writers \ {t} : Session[u] = Session[t] => pc[u] \in Ended \cup {"start"}
          /\ seen' = [seen EXCEPT ![t] = {u \in Writers :
                pc[u] \in Ended /\ (t \in Writers => Session[u] = Session[t])}]
      BY <2>2, SeenStep DEF Begin
    <3>2. seen'[t] = {u \in Writers : pc[u] \in Ended /\ Session[u] = Session[t]}
      BY <1>1, <3>1 DEF ControlInv, Types
    <3>3. Alone(t)'
      BY <1>8, <3>1, <3>2 DEF Alone
    <3> QED
      BY <2>1, <3>3 DEF SerialInv
  <2>3. CASE pc[t] # "start"
    <3>1. pc[t] \in Busy
      BY <1>2, <2>3 DEF Own, ControlInv, PhaseInv, AdderLabels, IngesterLabels, Busy, Ended, Writers
    <3>2. seen' = seen
      BY <2>3, SeenStep
    <3>3. Alone(t)'
      BY <1>7, <1>8, <3>1, <3>2 DEF Alone
    <3> QED
      BY <2>1, <3>3 DEF SerialInv
  <2> QED
    BY <2>2, <2>3
<1>12. UnrefInv'
  <2>1. ASSUME NEW u \in Writers \ {t}, Alone(u)', Unstruck(Session[u])',
               Stage(u)' \in {"unref", "remove"},
               NEW w \in Words, w \in item'[u].words, w \notin left'[u],
               NEW x \in ToSet(postings'[w]), x.sid = Session[u], x.eid = item'[u].eid
        PROVE  FALSE
    <3>1. u \notin struck'
      BY <2>1 DEF Unstruck
    <3>2. Alone(u) /\ Session[u] # S
      BY <2>1, <3>1, SureOthers DEF Sure
    <3>3. x \notin ToSet(postings[w])
      BY <1>4, <1>8, <2>1, <3>2 DEF RefInv, UnrefInv
    <3>4. x = RefOf(t)
      BY <1>3, <2>1, <3>3 DEF Effect
    <3>5. x.sid = S
      BY <3>4 DEF RefOf
    <3> QED
      BY <2>1, <3>2, <3>5
  <2>3. ASSUME CallFails(t), Alone(t)', Unstruck(S)', Stage(t)' \in {"unref", "remove"},
               NEW w \in Words, w \in item'[t].words, w \notin left'[t],
               NEW x \in ToSet(postings'[w]), x.sid = S, x.eid = item'[t].eid
        PROVE  FALSE
    <3>1. UNCHANGED <<postings, item, left>> /\ Stage(t)' = Stage(t)
      BY <2>3, StageStep DEF CallFails, db, work
    <3>2. pc[t] \in Busy
      BY <1>3, <2>3, <3>1 DEF Busy
    <3> QED
      BY <1>4, <1>7, <2>3, <3>1, <3>2 DEF RefInv, UnrefInv
  <2>2. ASSUME ~CallFails(t), Unstruck(S)', pc'[t] \in {"unref", "remove"},
               NEW w \in Words, w \in item'[t].words, w \notin left'[t],
               NEW x \in ToSet(postings'[w]), x.sid = S, x.eid = item'[t].eid
        PROVE  FALSE
    <3>1. ASSUME NEW rows, Take(t, rows) PROVE left'[t] = item'[t].words
      <4>1. CASE NextEvent(t, Texts(t))
        <5>1. pc'[t] \in {"added", "check", "put"}
          BY <1>1, <4>1 DEF NextEvent, Goto, ControlInv, PhaseInv
        <5> QED
          BY <2>2, <5>1
      <4>2. CASE ~NextEvent(t, Texts(t))
        BY <1>1, <3>1, <4>2 DEF Take, ControlInv, Types
      <4> QED
        BY <4>1, <4>2
    <3>2. CASE PurgeQuery(t) \/ RemoveRow(t)
      BY <2>2, <3>1, <3>2 DEF PurgeQuery, RemoveRow
    <3>3. CASE Unref(t)
      <4>1. PICK v \in left[t] :
              /\ Apply(t, "unref", v) /\ left' = [left EXCEPT ![t] = left[t] \ {v}]
              /\ item' = item /\ pc[t] = "unref"
        BY <3>3 DEF Unref
      <4>2. left'[t] = left[t] \ {v} /\ v \in Words
        BY <1>1, <4>1 DEF ControlInv, Types
      <4>3. x \in ToSet(postings[w])
        BY <1>3, <2>2, <4>1 DEF Effect
      <4>6. Alone(t) /\ Unstruck(S) /\ SessionInv(t)
        BY <1>4, <1>7, <2>2, <4>1 DEF Busy
      <4>4. CASE w # v
        BY <1>3, <2>2, <4>1, <4>2, <4>3, <4>4, <4>6 DEF RefInv, UnrefInv
      <4>5. CASE w = v
        <5>1. PurgeInv(t)
          BY <1>3, <4>1, <4>6 DEF SessionInv
        <5>2. row[<<S, item[t].eid>>] = [words |-> item[t].words, ts |-> item[t].ts]
          BY <5>1 DEF PurgeInv, IsRow
        <5>3. row[<<x.sid, x.eid>>].ts = x.ts
          BY <2>2, <4>3, <4>6 DEF RefInv, NoDanglingRef
        <5>4. x.ts = item[t].ts /\ x.sid = Session[t] /\ x.eid = item[t].eid /\ x \in Refs
          BY <2>2, <4>1, <4>3, <5>2, <5>3, RefTypes
        <5>5. x = RefOf(t)
          BY <5>4 DEF Refs, RefOf
        <5>6. postings' = [postings EXCEPT ![v] = Without(postings[v], RefOf(t))]
          BY <4>1 DEF Apply, SetList
        <5>7. postings[v] \in Seq(Refs) /\ postings'[v] = Without(postings[v], RefOf(t))
          BY <4>2, <5>6 DEF ControlInv, Types
        <5>8. ToSet(postings'[v]) \subseteq ToSet(postings[v]) \ {RefOf(t)}
          BY <5>7, WithoutFacts
        <5> QED
          BY <2>2, <4>5, <5>5, <5>8
      <4> QED
        BY <4>4, <4>5
    <3>5. ASSUME NEW events, NextEvent(t, events) PROVE FALSE
      <4>1. pc'[t] \in {"added", "check", "put"}
        BY <1>1, <3>5 DEF NextEvent, Goto, ControlInv, PhaseInv
      <4> QED
        BY <2>2, <4>1
    <3>6. ASSUME NEW l, l \in {"put", "post", "trim"}, Goto(t, l) PROVE FALSE
      BY <1>1, <2>2, <3>6 DEF Goto, ControlInv, PhaseInv
    <3>7. ~UpsertRow(t) /\ ~Post(t) /\ ~Trim(t)
      BY <3>5, <3>6 DEF UpsertRow, Post, Trim, AfterPost
    <3>8. ~IngestStart(t) /\ ~Check(t)
      BY <3>5, <3>6 DEF IngestStart, Check
    <3>9. ~RecordUnread(t)
      BY <1>1, <2>2, <3>6 DEF RecordUnread, ControlInv, PhaseInv, AdderLabels, IngesterLabels,
                              Writers
    <3> QED
      BY <2>2, <3>2, <3>3, <3>7, <3>8, <3>9 DEF WriterStep
  <2>4. ~CallFails(t) => Stage(t)' = pc'[t]
    BY StageStep
  <2> QED
    BY <2>1, <2>2, <2>3, <2>4 DEF UnrefInv
<1>13. NoDanglingRef'
  <2> SUFFICES ASSUME NEW v \in Words, NEW x \in ToSet(postings'[v]), Unstruck(x.sid)'
               PROVE  /\ row'[<<x.sid, x.eid>>] # None /\ row'[<<x.sid, x.eid>>].ts = x.ts
                      /\ v \in row'[<<x.sid, x.eid>>].words
    BY DEF NoDanglingRef
  <2> QED
    BY <1>3, <1>4, <1>7, RefKept
<1> QED
  BY <1>10, <1>11, <1>12, <1>13 DEF RefInv

\* So does a late request of a call that is still alone in its session; the
\* others strike the session.
LEMMA RefLate ==
    ASSUME UniqueIds, IngestedUnchanged, ControlInv, WorkInv, RefInv, NEW q \in late, ApplyLate(q)
    PROVE  RefInv'
<1> DEFINE t == q.by
<1>1. /\ t \in Writers /\ struck' = struck \cup Overtaken(t)
      /\ UNCHANGED <<pc, item, left, seen>>
  BY LateTypes
<1>2. /\ Effect(t, Stage(t)) /\ Stage(t)' = "failed" /\ pc[t] = "failed"
      /\ \A u \in Writers \ {t} : Stage(u)' = Stage(u)
  BY <1>1, LateEffect, StageLate, StageFacts
<1> HIDE DEF t
<1>3. \A s : Unstruck(s)' => Unstruck(s)
  BY <1>1 DEF Unstruck
<1>4. Unstruck(Session[t])' => Alone(t)
  BY <1>1 DEF Unstruck, Overtaken, Alone
<1>5. SourceInv'
  BY <1>1, <1>2, SourceKept
<1>6. SerialInv'
  BY <1>1 DEF RefInv, SerialInv, Alone
<1>7. UnrefInv'
  <2> SUFFICES ASSUME NEW u \in Writers, Alone(u)', Unstruck(Session[u])',
                      Stage(u)' \in {"unref", "remove"},
                      NEW w \in Words, w \in item'[u].words, w \notin left'[u],
                      NEW x \in ToSet(postings'[w]), x.sid = Session[u], x.eid = item'[u].eid
               PROVE  FALSE
    BY DEF UnrefInv
  <2>1. u # t /\ Stage(u) \in {"unref", "remove"} /\ Alone(u) /\ Unstruck(Session[u])
    BY <1>1, <1>2, <1>3 DEF Alone
  <2>2. x \notin ToSet(postings[w])
    BY <1>1, <2>1 DEF RefInv, UnrefInv
  <2>3. x = RefOf(t)
    BY <1>2, <2>2 DEF Effect
  <2>4. Session[u] = Session[t]
    BY <2>3 DEF RefOf
  <2>5. t \in seen[u]
    BY <1>1, <1>2, <2>1, <2>4 DEF Alone
  <2>6. u \notin seen[t]
    BY <2>5 DEF WorkInv
  <2>7. pc[u] # "start"
    BY <2>1, StageFacts
  <2>8. u \in struck'
    BY <1>1, <2>1, <2>4, <2>6, <2>7 DEF Overtaken
  <2> QED
    BY <2>8 DEF Unstruck
<1>8. NoDanglingRef'
  <2> SUFFICES ASSUME NEW v \in Words, NEW x \in ToSet(postings'[v]), Unstruck(x.sid)'
               PROVE  /\ row'[<<x.sid, x.eid>>] # None /\ row'[<<x.sid, x.eid>>].ts = x.ts
                      /\ v \in row'[<<x.sid, x.eid>>].words
    BY DEF NoDanglingRef
  <2> QED
    BY <1>1, <1>2, <1>3, <1>4, RefKept
<1> QED
  BY <1>5, <1>6, <1>7, <1>8 DEF RefInv

\* Every ref leads to a row with its token and its timestamp, whatever calls
\* failed on the way and whenever their requests arrived, except in a session
\* where one arrived after a later call had begun: _upsert_memory writes the row before its refs,
\* _purge_session_memories removes it after them.  Callers write a session
\* from one call at a time, and what they ingest is not edited afterwards (an
\* ingest whose read of the row fails writes it anew over the old refs).
THEOREM RefsLeadToRows ==
    ASSUME Serial, UniqueIds, IngestedUnchanged
    PROVE  Spec => []NoDanglingRef
<1>1. Init => RefInv
  <2> SUFFICES ASSUME Init PROVE RefInv
    OBVIOUS
  <2>1. SourceInv /\ SerialInv /\ UnrefInv
    <3>1. \A t \in Writers : Stage(t) = "start"
      BY DEF Init, Stage, Tasks
    <3> QED
      BY <3>1 DEF Init, SourceInv, SerialInv, UnrefInv, Busy, Tasks
  <2>2. \A w \in Words : ToSet(postings[w]) = {}
    BY DEF Init, ToSet
  <2>3. NoDanglingRef
    BY <2>2 DEF NoDanglingRef
  <2> QED
    BY <2>1, <2>3 DEF RefInv
<1>2. ASSUME ControlInv, WorkInv, RefInv, [Next]_vars PROVE RefInv'
  <2>1. ASSUME Aside PROVE RefInv'
    <3>1. \A u \in Writers : pc'[u] = pc[u] /\ left'[u] = left[u] /\ seen'[u] = seen[u]
      BY <1>2, <2>1, AsideTypes
    <3>2. /\ row' = row /\ postings' = postings /\ item' = item
          /\ late' = late /\ struck' = struck
      BY <2>1 DEF Aside
    <3>6. \A u \in Writers : Stage(u)' = Stage(u)
      BY <3>1, <3>2 DEF Stage
    <3>3. SourceInv' /\ NoDanglingRef'
      BY <1>2, <3>2 DEF RefInv, SourceInv, NoDanglingRef, Unstruck
    <3>4. SerialInv'
      BY <1>2, <3>1 DEF RefInv, SerialInv, Alone
    <3>5. UnrefInv'
      BY <1>2, <3>1, <3>2, <3>6 DEF RefInv, UnrefInv, Alone, Unstruck
    <3> QED
      BY <3>3, <3>4, <3>5 DEF RefInv
  <2>2. CASE Next
    <3>1. CASE \E t \in Writers : WriterStep(t)
      BY <1>2, <3>1, RefStep
    <3>2. CASE \E q \in Searchers : SearchStep(q)
      BY <1>2, <2>1, <3>2, SearchAside
    <3>3. CASE \E q \in late : ApplyLate(q)
      BY <1>2, <3>3, RefLate
    <3> QED
      BY <2>2, <3>1, <3>2, <3>3, NextSteps
  <2>3. CASE UNCHANGED vars
    <3>1. UNCHANGED <<row, postings, pc, item, left, late, struck, seen>>
      BY <2>3 DEF vars, db, work, past
    <3>2. \A u : Stage(u)' = Stage(u)
      BY <3>1 DEF Stage
    <3> QED
      BY <1>2, <3>1, <3>2 DEF RefInv, SourceInv, SerialInv, Alone, UnrefInv, Unstruck, NoDanglingRef
  <2> QED
    BY <1>2, <2>2, <2>3
<1>3. RefInv => NoDanglingRef
  BY DEF RefInv
<1> QED
  BY <1>1, <1>2, <1>3, ControlInvariant, WorkInvariant, PTL DEF Spec
=============================================================================
