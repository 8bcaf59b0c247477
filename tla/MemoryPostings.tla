--------------------------- MODULE MemoryPostings ---------------------------
(***************************************************************************)
(* AerospikeMemoryService: memories of one user and their inverted index.  *)
(*                                                                         *)
(* A memory row per (session, event) and a posting list per token.         *)
(* add_session_to_memory replaces the rows of a session,                   *)
(* add_events_to_memory adds rows that are not there yet, search_memory    *)
(* reads the lists of the query's tokens and then the rows they refer to.  *)
(* Every database call is a step; the records of a batch are read one      *)
(* after the other; a query is answered in one step.                       *)
(***************************************************************************)
EXTENDS Naturals, Sequences, FiniteSets, SequencesExt

CONSTANTS
    Adders,         \* add_session_to_memory calls
    Ingesters,      \* add_events_to_memory calls
    Searchers,      \* search_memory calls
    Sids, Eids,     \* session and event ids
    Words,          \* words of texts and queries
    Lower,          \* Lower[w]: w in lower case
    Stopwords,      \* _STOPWORDS
    Session,        \* Session[t]: the session of writer t
    Input,          \* Input[t]: the events that writer t is given
    Query,          \* Query[q]: the words that search q asks for
    MaxPostings,    \* _MAX_POSTING_LIST_SIZE
    MaxCandidates,  \* _MAX_SEARCH_CANDIDATES
    TopK,           \* top_k
    Serial,         \* callers write one session from one call at a time
    MaxFaults,      \* bound on failed calls
    None            \* no row

Writers == Adders \cup Ingesters
Tasks   == Writers \cup Searchers

\* text is FALSE for an event without text parts.
EventType == [eid : Eids, words : SUBSET Words, ts : Nat, text : BOOLEAN]
RowType   == [words : SUBSET Words, ts : Nat]

ASSUME MemoryAssumption ==
    /\ Adders \cap Ingesters = {} /\ Writers \cap Searchers = {} /\ IsFiniteSet(Writers)
    /\ Lower \in [Words -> Words] /\ Stopwords \subseteq Words
    /\ Session \in [Writers -> Sids]
    /\ DOMAIN Input = Writers /\ \A t \in Writers : Input[t] \in Seq(EventType)
    /\ Query \in [Searchers -> SUBSET Words]
    /\ MaxPostings \in Nat \ {0} /\ MaxCandidates \in Nat \ {0} /\ TopK \in Nat
    /\ Serial \in BOOLEAN /\ MaxFaults \in Nat /\ None \notin RowType

VARIABLES
    row,        \* row[<<s, e>>]: keywords and timestamp of a memory row, or None
    postings,   \* postings[w]: the list of refs of token w
    pc,         \* pc[t]: the call t waits for, or how it ended
    todo,       \* todo[t]: rows that t has yet to purge
    input,      \* input[t]: events that t has yet to add
    item,       \* item[t]: the row or event that t works on
    left,       \* left[t]: tokens of the item, or of the query, still to do
    excess,     \* excess[t]: how many refs t trims from which list
    cand,       \* cand[q]: candidate refs of search q
    scored,     \* scored[q]: memories found, with their scores
    result,     \* result[q]: what search q returns
    seen,       \* history: the writers (of its session) that had ended when t began
    late,       \* requests without an answer that the server may yet apply
    struck,     \* history: calls that a late request of an earlier call overtook
    unread,     \* history: calls for which a record of a batch was not read
    faults      \* failed calls so far

db   == <<row, postings>>
work == <<todo, input, item, left, excess>>
find == <<cand, scored, result>>
past == <<late, struck, seen, unread, faults>>
vars == <<db, pc, work, find, past>>

Refs    == [sid : Sids, eid : Eids, ts : Nat]
Scores  == [sid : Sids, eid : Eids, ts : Nat, overlap : Nat]
Ended   == {"added", "found", "failed"}
Writes  == {"put", "remove", "post", "unref", "trim"}
Labels  == Ended \cup {"start", "unref", "remove", "check", "put", "post", "trim", "read", "rows"}

\* Every variable keeps its type.
TypeOK ==
    /\ row \in [Sids \X Eids -> RowType \cup {None}]
    /\ postings \in [Words -> Seq(Refs)]
    /\ pc \in [Tasks -> Labels]
    /\ \A t \in Writers : /\ todo[t] \subseteq EventType
                          /\ input[t] \in Seq(EventType)
                          /\ item[t] \in EventType \cup {None}
    /\ left \in [Tasks -> SUBSET Words]
    /\ \A t \in Writers : excess[t].word \in Words \cup {None} /\ excess[t].n \in Nat
    /\ cand \in [Searchers -> SUBSET Refs]
    /\ scored \in [Searchers -> SUBSET Scores]
    /\ result \in [Searchers -> SUBSET Scores]
    /\ late \subseteq [op : Writes, by : Writers, word : Words \cup {None}]
    /\ struck \subseteq Writers
    /\ seen \in [Tasks -> SUBSET Writers]
    /\ unread \subseteq Tasks
    /\ faults \in 0..MaxFaults
    /\ \A t \in Writers : pc[t] = "trim" => excess[t].n > 0

-----------------------------------------------------------------------------

\* _tokenize: distinct lower-case words without stopwords, in any order.
Tokenize(W) == {Lower[w] : w \in W} \ Stopwords

\* The row of an event.
Content(e) == [words |-> Tokenize(e.words), ts |-> e.ts]

RefOf(t) == [sid |-> Session[t], eid |-> item[t].eid, ts |-> item[t].ts]

\* The elements of list at the places in kept, in their order.
Only(list, kept) ==
    [j \in 1..Cardinality(kept) |->
        list[CHOOSE i \in kept : Cardinality({k \in kept : k <= i}) = j]]

\* list_remove_by_value: every element that equals x goes.
Without(list, x) == Only(list, {i \in DOMAIN list : list[i] # x})

(* The server's writes.                                                    *)

PutRow(s, e, r)  == row' = [row EXCEPT ![<<s, e>>] = r] /\ UNCHANGED postings
SetList(w, list) == postings' = [postings EXCEPT ![w] = list] /\ UNCHANGED row

Apply(t, op, w) ==
    \/ op = "put"    /\ PutRow(Session[t], item[t].eid, Content(item[t]))
    \/ op = "remove" /\ PutRow(Session[t], item[t].eid, None)
    \/ op = "post"   /\ SetList(w, Append(postings[w], RefOf(t)))
    \/ op = "unref"  /\ SetList(w, Without(postings[w], RefOf(t)))
    \/ /\ op = "trim" /\ w = excess[t].word
       /\ SetList(w, SubSeq(postings[w], excess[t].n + 1, Len(postings[w])))

-----------------------------------------------------------------------------
(* Control of the writers.                                                 *)

Goto(t, l) == pc' = [pc EXCEPT ![t] = l]

Begin(t) ==
    /\ pc[t] = "start"
    /\ Serial /\ t \in Writers => \A u \in Writers \ {t} :
          Session[u] = Session[t] => pc[u] \in Ended \cup {"start"}
    /\ seen' = [seen EXCEPT ![t] = {u \in Writers :
          pc[u] \in Ended /\ (t \in Writers => Session[u] = Session[t])}]

\* Events without text are passed over.
Texts(t) == Only(Input[t], {i \in DOMAIN Input[t] : Input[t][i].text})

\* The next event of the input, or the end.
NextEvent(t, events) ==
    \/ events = <<>> /\ Goto(t, "added") /\ UNCHANGED <<input, item, left>>
    \/ /\ events # <<>>
       /\ input' = [input EXCEPT ![t] = Tail(events)]
       /\ item' = [item EXCEPT ![t] = Head(events)]
       /\ left' = [left EXCEPT ![t] = Tokenize(Head(events).words)]
       /\ Goto(t, IF t \in Ingesters THEN "check" ELSE "put")

\* Mutant: posting lists are not purged.
TakeRowOnly(t, rows) ==
    \/ rows = {} /\ NextEvent(t, Texts(t)) /\ UNCHANGED todo
    \/ \E x \in rows :
        /\ todo' = [todo EXCEPT ![t] = rows \ {x}]
        /\ item' = [item EXCEPT ![t] = x]
        /\ left' = [left EXCEPT ![t] = {}]
        /\ Goto(t, "remove")
        /\ UNCHANGED input

\* The next row to purge, or the first event.
Take(t, rows) ==
    \/ rows = {} /\ NextEvent(t, Texts(t)) /\ UNCHANGED todo
    \/ \E x \in rows :
        /\ todo' = [todo EXCEPT ![t] = rows \ {x}]
        /\ item' = [item EXCEPT ![t] = x]
        /\ left' = [left EXCEPT ![t] = x.words]
        /\ Goto(t, IF x.words = {} THEN "remove" ELSE "unref")
        /\ UNCHANGED input

RowsOf(S) ==
    {[eid |-> k[2], words |-> row[k].words, ts |-> row[k].ts, text |-> TRUE] :
        k \in {j \in S \X Eids : row[j] # None}}

(* add_session_to_memory                                                   *)

\* Mutant: nothing is purged.
PurgeNothing(t) ==
    /\ Begin(t)
    /\ Take(t, {})
    /\ UNCHANGED <<db, excess, find, late, struck, unread, faults>>

PurgeQuery(t) ==
    /\ Begin(t)
    /\ Take(t, RowsOf({Session[t]}))
    /\ UNCHANGED <<db, excess, find, late, struck, unread, faults>>

\* _remove_posting_refs
Unref(t) ==
    /\ pc[t] = "unref"
    /\ \E w \in left[t] :
        /\ Apply(t, "unref", w)
        /\ left' = [left EXCEPT ![t] = @ \ {w}]
        /\ Goto(t, IF left[t] = {w} THEN "remove" ELSE "unref")
    /\ UNCHANGED <<todo, input, item, excess, find, past>>

RemoveRow(t) ==
    /\ pc[t] = "remove"
    /\ Apply(t, "remove", None)
    /\ Take(t, todo[t])
    /\ UNCHANGED <<excess, find, past>>

(* add_events_to_memory                                                    *)

IngestStart(t) ==
    /\ Begin(t)
    /\ NextEvent(t, Texts(t))
    /\ UNCHANGED <<db, todo, excess, find, late, struck, unread, faults>>

\* The read of the row; an event that has one is passed over.
Check(t) ==
    /\ pc[t] = "check"
    /\ \/ row[<<Session[t], item[t].eid>>] # None /\ NextEvent(t, input[t])
       \/ /\ row[<<Session[t], item[t].eid>>] = None
          /\ Goto(t, "put") /\ UNCHANGED <<input, item, left>>
    /\ UNCHANGED <<db, todo, excess, find, past>>

(* _upsert_memory                                                          *)

AfterPost(t, words) ==
    \/ words = {} /\ NextEvent(t, input[t])
    \/ /\ words # {} /\ Goto(t, "post")
       /\ left' = [left EXCEPT ![t] = words] /\ UNCHANGED <<input, item>>

UpsertRow(t) ==
    /\ pc[t] = "put"
    /\ Apply(t, "put", None)
    /\ AfterPost(t, left[t])
    /\ UNCHANGED <<todo, excess, find, past>>

\* Mutant: only the first token gets a ref.
PostFirst(t) ==
    /\ pc[t] = "post"
    /\ \E w \in left[t] :
        /\ Apply(t, "post", w)
        /\ \/ Len(postings'[w]) <= MaxPostings /\ AfterPost(t, {})
              /\ UNCHANGED excess
           \/ /\ Len(postings'[w]) > MaxPostings
              /\ excess' = [excess EXCEPT ![t] =
                    [word |-> w, n |-> Len(postings'[w]) - MaxPostings]]
              /\ left' = [left EXCEPT ![t] = {}]
              /\ Goto(t, "trim") /\ UNCHANGED <<input, item>>
    /\ UNCHANGED <<todo, find, past>>

\* Mutant: a list is trimmed one ref too late.
PostLate(t) ==
    /\ pc[t] = "post"
    /\ \E w \in left[t] :
        /\ Apply(t, "post", w)
        /\ \/ Len(postings'[w]) <= MaxPostings + 1 /\ AfterPost(t, left[t] \ {w})
              /\ UNCHANGED excess
           \/ /\ Len(postings'[w]) > MaxPostings + 1
              /\ excess' = [excess EXCEPT ![t] =
                    [word |-> w, n |-> Len(postings'[w]) - MaxPostings]]
              /\ left' = [left EXCEPT ![t] = @ \ {w}]
              /\ Goto(t, "trim") /\ UNCHANGED <<input, item>>
    /\ UNCHANGED <<todo, find, past>>

\* Mutant: trimming starts when the list is full.
PostEarly(t) ==
    /\ pc[t] = "post"
    /\ \E w \in left[t] :
        /\ Apply(t, "post", w)
        /\ \/ Len(postings'[w]) < MaxPostings /\ AfterPost(t, left[t] \ {w})
              /\ UNCHANGED excess
           \/ /\ Len(postings'[w]) >= MaxPostings
              /\ excess' = [excess EXCEPT ![t] =
                    [word |-> w, n |-> Len(postings'[w]) - MaxPostings]]
              /\ left' = [left EXCEPT ![t] = @ \ {w}]
              /\ Goto(t, "trim") /\ UNCHANGED <<input, item>>
    /\ UNCHANGED <<todo, find, past>>

\* _append_posting_ref: the append, which also returns the list.
Post(t) ==
    /\ pc[t] = "post"
    /\ \E w \in left[t] :
        /\ Apply(t, "post", w)
        /\ \/ Len(postings'[w]) <= MaxPostings /\ AfterPost(t, left[t] \ {w})
              /\ UNCHANGED excess
           \/ /\ Len(postings'[w]) > MaxPostings
              /\ excess' = [excess EXCEPT ![t] =
                    [word |-> w, n |-> Len(postings'[w]) - MaxPostings]]
              /\ left' = [left EXCEPT ![t] = @ \ {w}]
              /\ Goto(t, "trim") /\ UNCHANGED <<input, item>>
    /\ UNCHANGED <<todo, find, past>>

\* ... and the removal of as many refs as it was too long, from the front.
Trim(t) ==
    /\ pc[t] = "trim"
    /\ Apply(t, "trim", excess[t].word)
    /\ AfterPost(t, left[t])
    /\ UNCHANGED <<todo, excess, find, past>>

-----------------------------------------------------------------------------
(* search_memory                                                           *)

SearchStart(q) ==
    /\ Begin(q)
    /\ left' = [left EXCEPT ![q] = Tokenize(Query[q])]
    /\ Goto(q, IF Tokenize(Query[q]) = {} THEN "found" ELSE "read")
    /\ UNCHANGED <<db, todo, input, item, excess, find, late, struck, unread, faults>>

\* Candidates are kept by event id, the newest ref of each, up to the cap.
AddRef(refs, x) ==
    IF \/ Cardinality(refs) >= MaxCandidates
       \/ \E y \in refs : y.eid = x.eid /\ y.ts >= x.ts
    THEN refs
    ELSE {y \in refs : y.eid # x.eid} \cup {x}

AddRefs(refs, list) == FoldLeft(AddRef, refs, list)

AfterRead(q, tokens, refs) ==
    Goto(q, IF tokens # {} THEN "read" ELSE IF refs # {} THEN "rows" ELSE "found")

\* The read of one posting list.
SearchRead(q) ==
    /\ pc[q] = "read"
    /\ \E w \in left[q] :
        LET refs == AddRefs(cand[q], postings[w]) IN
        /\ cand' = [cand EXCEPT ![q] = refs]
        /\ left' = [left EXCEPT ![q] = @ \ {w}]
        /\ AfterRead(q, left[q] \ {w}, refs)
    /\ UNCHANGED <<db, todo, input, item, excess, scored, result, past>>

\* A memory that shares tokens with the query, under its candidate's timestamp.
Score(q, x) ==
    LET r == row[<<x.sid, x.eid>>]
        n == IF r = None THEN 0 ELSE Cardinality(r.words \cap Tokenize(Query[q]))
    IN  IF n = 0 THEN {}
        ELSE {[sid |-> x.sid, eid |-> x.eid, ts |-> x.ts, overlap |-> n]}

\* Mutant: the sort is ascending.
Below(x, y) == x.overlap < y.overlap \/ (x.overlap = y.overlap /\ x.ts < y.ts)

Above(x, y) == x.overlap > y.overlap \/ (x.overlap = y.overlap /\ x.ts > y.ts)

\* The first k by overlap and timestamp; ties fall in any order.
Best(k, S) ==
    {R \in SUBSET S :
        /\ Cardinality(R) = (IF Cardinality(S) < k THEN Cardinality(S) ELSE k)
        /\ \A x \in R : \A y \in S \ R : ~Above(y, x)}

\* After the last row the best are returned.
AfterRow(q, x, all) ==
    /\ cand' = [cand EXCEPT ![q] = @ \ {x}]
    /\ scored' = [scored EXCEPT ![q] = all]
    /\ \/ cand[q] # {x} /\ UNCHANGED <<pc, result>>
       \/ /\ cand[q] = {x} /\ Goto(q, "found")
          /\ \E R \in Best(TopK, all) : result' = [result EXCEPT ![q] = R]

\* The read of one memory row.
SearchRow(q) ==
    /\ pc[q] = "rows"
    /\ \E x \in cand[q] : AfterRow(q, x, scored[q] \cup Score(q, x))
    /\ UNCHANGED <<db, work, past>>

-----------------------------------------------------------------------------

\* _batch_read: a record that is not read counts as one that is not there.
RecordUnread(t) ==
    /\ faults < MaxFaults
    /\ faults' = faults + 1
    /\ unread' = unread \cup {t}
    /\ \/ pc[t] = "check" /\ Goto(t, "put") /\ UNCHANGED <<left, find>>
       \/ /\ pc[t] = "read"
          /\ \E w \in left[t] : /\ left' = [left EXCEPT ![t] = @ \ {w}]
                                /\ AfterRead(t, left[t] \ {w}, cand[t])
          /\ UNCHANGED find
       \/ /\ pc[t] = "rows"
          /\ \E x \in cand[t] : AfterRow(t, x, scored[t])
          /\ UNCHANGED left
    /\ UNCHANGED <<db, todo, input, item, excess, late, struck, seen>>

\* The write that t waits for, if it waits for one.
InFlight(t) ==
    IF pc[t] \notin Writes THEN {}
    ELSE {[op |-> pc[t], by |-> t, word |-> w] :
            w \in IF pc[t] \in {"post", "unref"} THEN left[t] ELSE {excess[t].word}}

\* The call t waits for raises and the operation ends; its request is lost or
\* still under way.
CallFails(t) ==
    /\ pc[t] \notin Ended \cup {"start"}
    /\ faults < MaxFaults
    /\ faults' = faults + 1
    /\ late' \in {late} \cup {late \cup {q} : q \in InFlight(t)}
    /\ Goto(t, "failed")
    /\ UNCHANGED <<db, work, find, struck, seen, unread>>

\* The calls that began in the session of t after t, or beside it.
Overtaken(t) ==
    {u \in Writers \ {t} :
        Session[u] = Session[t] /\ pc[u] # "start" /\ u \notin seen[t]}

\* The server applies a request, at once or long after its call has failed.
ApplyLate(q) ==
    /\ q \in late
    /\ Apply(q.by, q.op, q.word)
    /\ late' = late \ {q}
    /\ struck' = struck \cup Overtaken(q.by)
    /\ UNCHANGED <<pc, work, find, seen, unread, faults>>

Init ==
    /\ row = [k \in Sids \X Eids |-> None]
    /\ postings = [w \in Words |-> <<>>]
    /\ pc = [t \in Tasks |-> "start"]
    /\ todo = [t \in Writers |-> {}]
    /\ input = [t \in Writers |-> <<>>]
    /\ item = [t \in Writers |-> None]
    /\ left = [t \in Tasks |-> {}]
    /\ excess = [t \in Writers |-> [word |-> None, n |-> 0]]
    /\ cand = [q \in Searchers |-> {}]
    /\ scored = [q \in Searchers |-> {}]
    /\ result = [q \in Searchers |-> {}]
    /\ late = {}
    /\ struck = {}
    /\ seen = [t \in Tasks |-> {}]
    /\ unread = {}
    /\ faults = 0

Upsert(t) == UpsertRow(t) \/ Post(t) \/ Trim(t)

Next ==
    \/ \E t \in Adders : PurgeQuery(t) \/ Unref(t) \/ RemoveRow(t)
    \/ \E t \in Ingesters : IngestStart(t) \/ Check(t)
    \/ \E t \in Writers : Upsert(t)
    \/ \E q \in Searchers : SearchStart(q) \/ SearchRead(q) \/ SearchRow(q)
    \/ \E t \in Tasks : RecordUnread(t) \/ CallFails(t)
    \/ \E q \in late : ApplyLate(q)

Spec == Init /\ [][Next]_vars

-----------------------------------------------------------------------------

\* Nothing else writes the session of t at the same time, and what follows
\* does not replace it.
Undisturbed(t) ==
    \A u \in Writers \ {t} : Session[u] = Session[t] =>
        \/ pc[u] = "start" \/ u \in seen[t]
        \/ u \in Ingesters /\ t \in seen[u]

\* A memory of search q that ranks no lower than event e.
NoLower(q, x, e) ==
    LET n == Cardinality(Tokenize(e.words) \cap Tokenize(Query[q]))
    IN  x.overlap > n \/ (x.overlap = n /\ x.ts >= e.ts)

\* What add_session_to_memory and add_events_to_memory have added is found: a
\* search that could read every record returns every event that was added
\* before it and shares a token with the query (_tokenize: a word in lower case
\* that is no stopword), or top_k that rank no lower, whatever happens to other
\* sessions meanwhile.  Not so for a call whose refs a late request of an
\* earlier, failed call met.
SearchComplete ==
    \A q \in Searchers : pc[q] = "found" /\ q \notin unread =>
        \A t \in seen[q] \ struck : pc[t] = "added" /\ Undisturbed(t) =>
            \A e \in ToSet(Texts(t)) :
                Tokenize(e.words) \cap Tokenize(Query[q]) # {} =>
                    \/ e.eid \in {x.eid : x \in result[q]}
                    \/ Cardinality(result[q]) = TopK /\ \A x \in result[q] : NoLower(q, x, e)

\* "Tokenizer: [A-Za-z]+ lowercase + dedupe, identical to InMemoryMemoryService"
\* (design.md): an event that shares any word with the query, case aside, is
\* found, or top_k others.
SearchLikeADK ==
    \A q \in Searchers : pc[q] = "found" /\ q \notin unread =>
        \A t \in seen[q] \ struck : pc[t] = "added" /\ Undisturbed(t) =>
            \A e \in ToSet(Texts(t)) :
                {Lower[w] : w \in e.words} \cap {Lower[w] : w \in Query[q]} # {} =>
                    \/ e.eid \in {x.eid : x \in result[q]}
                    \/ Cardinality(result[q]) = TopK

\* Every other call of its session had ended when t began, or has not begun.
Alone(t) ==
    \A u \in Writers \ {t} : Session[u] = Session[t] => pc[u] = "start" \/ u \in seen[t]

\* The rows of the session of t are those of its events.
Replaced(t) ==
    RowsOf({Session[t]}) =
        {[eid |-> e.eid, words |-> Tokenize(e.words), ts |-> e.ts, text |-> TRUE] :
            e \in ToSet(Texts(t))}

\* add_session_to_memory replaces: when it returns, the rows of the session
\* are those of its events, whatever earlier attempts left behind and also
\* when what they had under way arrived after they failed; only a request that
\* arrives after the replacing call has begun can undo it.
RowsReplaced ==
    \A t \in Adders \ struck : pc[t] = "added" /\ Alone(t) => Replaced(t)

\* "Calling add_session_to_memory twice for the same session must replace prior
\* memories, not duplicate them" (tests/test_memory.py), also when the first
\* call timed out.
RetryReplaces ==
    \A t \in Adders : pc[t] = "added" /\ Alone(t) => Replaced(t)

\* ... and the list of every keyword of its events refers to them (for keywords
\* so rare that no list of theirs is trimmed).
RefsReplaced ==
    \A t \in Adders \ struck : pc[t] = "added" /\ Alone(t) =>
        \A e \in ToSet(Texts(t)) : \A w \in Tokenize(e.words) :
            [sid |-> Session[t], eid |-> e.eid, ts |-> e.ts] \in ToSet(postings[w])

\* Nothing in session s was overtaken by a late request.
Unstruck(s) == \A t \in struck : Session[t] # s

\* Every ref leads to a row with its token and its timestamp, also after calls
\* that failed: rows are written before their refs and removed after them.  A
\* request that arrives after a later call of its session has begun breaks
\* this, in its own session only.
NoDanglingRef ==
    \A w \in Words : \A x \in ToSet(postings[w]) :
        LET r == row[<<x.sid, x.eid>>]
        IN  Unstruck(x.sid) => r # None /\ r.ts = x.ts /\ w \in r.words

\* A posting list exceeds its limit by no more than the trims that are pending
\* and the calls that failed.
PostingsBounded ==
    \A w \in Words :
        Len(postings[w]) <= MaxPostings + faults
            + Cardinality({t \in Writers : pc[t] = "trim" /\ excess[t].word = w})

\* "List is trimmed server-side when it exceeds 2048 entries (oldest refs
\* dropped)" (docs/data-model.md): when nothing is under way and nothing
\* failed, a list is full if there are enough memories with its token.
TrimKeepsLimit ==
    faults = 0 /\ (\A t \in Writers : pc[t] \in Ended \cup {"start"}) =>
        \A w \in Words :
            LET n == Cardinality({k \in Sids \X Eids : row[k] # None /\ w \in row[k].words})
            IN  Len(postings[w]) >= (IF n < MaxPostings THEN n ELSE MaxPostings)

\* "incremental event ingest with dedupe by event id" (CHANGELOG.md): no list
\* holds the same ref twice.
RefsDistinct ==
    \A w \in Words : Cardinality(ToSet(postings[w])) = Len(postings[w])
=============================================================================
