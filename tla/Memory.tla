------------------------------- MODULE Memory -------------------------------
(***************************************************************************)
(* The memory framework (packages/memory): the manager over the in-memory  *)
(* provider and the chunk index, and the retriever that filters and ranks, *)
(* with its cache when a host enables it (the manager does not).           *)
(*                                                                         *)
(* store() and delete() change the provider at the call and the index one  *)
(* microtask later; `queue` holds those continuations, run in order.  A    *)
(* query reads the provider at the call and answers some microtasks later. *)
(* Contents are a length and the words found in them, importances tenths,  *)
(* scores parts of 3000, and a day passes from one store to the next: the  *)
(* i-th record is of day i, and day 0 is the one the program was loaded.   *)
(* Embeddings are left out: the ranking is given none.                     *)
(*                                                                         *)
(* Filters, eviction and the merging of scores are functions the package   *)
(* exports to hosts, the manager calls none of them: they are applied here *)
(* to whatever the manager has stored.                                     *)
(***************************************************************************)
EXTENDS Integers, Sequences, SequencesExt, FiniteSetsExt, SequenceFilters, TLC

CONSTANTS
    Inputs,         \* what may be stored: [scope, length, words, pluginId, userId,
                    \*                      projectId, tags, importance, readOnly]
    Policies,       \* what setPolicy() may set: [scope, importance]
    Askers,         \* who queries, one query at a time
    Cached,         \* those that do it through the retriever with the cache
    Queries,        \* what may be asked: [text, scopes, pluginIds, userId, projectId, tags,
                    \*    minImportance, minScore, includeReadOnly, maxResults]
    ChunkSize, ChunkOverlap,
    MaxRecords      \* bound: so many records are stored

Absent == "none"
Unset == -1      \* of the numbers: the caller names none

VARIABLES
    initialized, records,   \* of the provider, in the order of insertion
    chunks,                 \* of the indexer: the pieces of each id indexed
    queue,
    policy,                 \* of each scope, its default importance
    stored,                 \* how many ids have been given
    lost,                   \* the ids that close() took from the provider
    asked, cache

vars == <<initialized, records, chunks, queue, policy, stored, lost, asked, cache>>

store_ == <<initialized, records, stored, policy, lost>>

Scopes == {input.scope : input \in Inputs}

KnownScopes ==
    {"conversation", "project", "execution", "plugin", "user", "knowledge", "system"}

(* Policies are set for scopes that are used; a negative bound of a query   *)
(* would cut results off at the end.                                        *)
ASSUME MemoryAssumption ==
    /\ \A input \in Inputs :
          /\ input.scope \in KnownScopes /\ input.length \in Nat /\ input.importance \in Int
          /\ input.readOnly \in BOOLEAN
    /\ \A new \in Policies : new.scope \in Scopes /\ new.importance \in Int
    /\ \A q \in Queries :
          /\ q.minImportance \in Int /\ q.minScore \in Int
          /\ q.maxResults \in Nat \cup {Unset} /\ q.includeReadOnly \in BOOLEAN
    /\ ChunkSize \in Nat /\ ChunkOverlap \in Nat /\ ChunkOverlap < ChunkSize
    /\ MaxRecords \in Nat

DefaultPolicy(scope) ==
    CASE scope = "conversation" -> 5 [] scope = "project" -> 7 [] scope = "execution" -> 8
      [] scope = "plugin" -> 6       [] scope = "user" -> 9    [] scope = "knowledge" -> 8
      [] scope = "system" -> 10

(* In hours; no input names its own.                                        *)
DefaultTtl(scope) ==
    CASE scope \in {"conversation", "execution"} -> 1
      [] scope = "project" -> 24 * 7
      [] scope = "plugin" -> 24 * 30
      [] scope \in {"user", "knowledge"} -> 24 * 365
      [] scope = "system" -> Unset

-----------------------------------------------------------------------------
(* The index (MemoryIndexer.chunkContent)                                   *)

(* mutant: the next chunk starts an overlap too late                        *)
ChunksWithGaps(length) ==
    LET step == ChunkSize + ChunkOverlap
        count == (length + step - 1) \div step
    IN  IF length <= ChunkSize THEN <<<<0, length>>>>
        ELSE [i \in 1..count |-> <<(i - 1) * step, Min({(i - 1) * step + ChunkSize, length})>>]

(* Chunks are the half-open intervals they take of the content.             *)
ChunkContent(length) ==
    LET step == ChunkSize - ChunkOverlap
        count == (length + step - 1) \div step
    IN  IF length <= ChunkSize THEN <<<<0, length>>>>
        ELSE [i \in 1..count |-> <<(i - 1) * step, Min({(i - 1) * step + ChunkSize, length})>>]

-----------------------------------------------------------------------------
(* Filters and ranking                                                      *)

(* The filter of the provider's query().                                    *)
Matches(r, q) ==
    /\ q.scopes # {} => r.scope \in q.scopes
    /\ q.pluginIds # {} => r.pluginId \in q.pluginIds
    /\ q.userId # Absent => r.userId = q.userId
    /\ q.projectId # Absent => r.projectId = q.projectId
    /\ q.tags # {} => r.tags \cap q.tags # {}
    /\ q.minImportance # Unset => r.importance >= q.minImportance
    /\ q.includeReadOnly \/ ~r.readOnly

Matching(q) == KeepIn(records, {r \in Range(records) : Matches(r, q)})

(* The retriever's own, over what the provider found.                       *)
ApplyQueryFilters(found, q) ==
    IF q.text = Absent THEN found ELSE KeepIn(found, {r \in Range(found) : q.text \in r.words})

(* The filters for hosts, each over what the one before lets through.       *)
FilterByScope(found, scopes) ==
    IF scopes = {} THEN found ELSE KeepIn(found, {r \in Range(found) : r.scope \in scopes})

FilterByPluginId(found, ids) ==
    IF ids = {} THEN found ELSE KeepIn(found, {r \in Range(found) : r.pluginId \in ids})

FilterByUserId(found, id) == KeepIn(found, {r \in Range(found) : r.userId = id})

FilterByProjectId(found, id) == KeepIn(found, {r \in Range(found) : r.projectId = id})

FilterByTags(found, tags) ==
    IF tags = {} THEN found
    ELSE KeepIn(found, {r \in Range(found) : \E t \in r.tags : t \in tags})

FilterByImportance(found, least) == KeepIn(found, {r \in Range(found) : r.importance >= least})

ExcludeReadOnly(found) == KeepIn(found, {r \in Range(found) : ~r.readOnly})

ApplyFilter(found, q) ==
    LET placed == FilterByPluginId(FilterByScope(found, q.scopes), q.pluginIds)
        users == IF q.userId = Absent THEN placed ELSE FilterByUserId(placed, q.userId)
        project == IF q.projectId = Absent THEN users ELSE FilterByProjectId(users, q.projectId)
        tagged == FilterByTags(project, q.tags)
        weighty == IF q.minImportance = Unset THEN tagged
                   ELSE FilterByImportance(tagged, q.minImportance)
    IN  IF q.includeReadOnly THEN weighty ELSE ExcludeReadOnly(weighty)

SourcePriority(scope) ==
    CASE scope = "execution" -> 9 [] scope = "conversation" -> 8 [] scope = "project" -> 7
      [] scope = "knowledge" -> 6 [] scope = "user" -> 5 [] scope = "plugin" -> 4
      [] scope = "system" -> 3

(* In thirtieths, which a day takes one of: a record is worth more than     *)
(* one when it is younger than the `now` it is measured at.                 *)
Recency(r, now) == Max({0, 30 + r.day - now})

(* Without an embedding every record has relevance 0.5.                     *)
Score(r, now) ==
    600 + 90 * r.importance + 20 * Recency(r, now) + 30 * SourcePriority(r.scope)

(* The options' own `now` is the time the module was loaded, and the        *)
(* retriever passes no other.                                               *)
Loaded == 0

MinScore(q) == IF q.minScore = Unset THEN 0 ELSE q.minScore
ResultLimit(q) == IF q.maxResults = Unset THEN 10 ELSE q.maxResults

Fit(found, q) == KeepIn(found, {r \in Range(found) : Score(r, Loaded) >= MinScore(q)})

(* Places, the one with the greatest key first; the sorts are stable.       *)
Falling(key) ==
    {p \in (1..Len(key)) \X (1..Len(key)) :
        key[p[1]] > key[p[2]] \/ (key[p[1]] = key[p[2]] /\ p[1] < p[2])}

Better(fit) == Falling([i \in 1..Len(fit) |-> Score(fit[i], Loaded)])

RankMemories(found, q) ==
    LET fit == Fit(found, q)
        order == Ordering(Len(fit), Better(fit))
    IN  [i \in 1..Min({Len(fit), ResultLimit(q)}) |-> fit[order[i]]]

(* mutant: the score met first stays                                        *)
DeduplicateToFirst(scores) ==
    LET first(s) == \E i \in DOMAIN scores :
                       scores[i] = s /\ \A k \in 1..(i - 1) : scores[k].record.id # s.record.id
    IN  SetToSortSeq({s \in ToSet(scores) : first(s)},
                     LAMBDA s, t : s.score > t.score
                        \/ (s.score = t.score /\ s.record.id < t.record.id))

(* Scores are records with the score they were given: of each record the    *)
(* better score stays, in the place where the record was met first.         *)
DeduplicateScores(scores) ==
    LET same(k) == {m \in DOMAIN scores : scores[m].record.id = scores[k].record.id}
        first == KeepIn([k \in DOMAIN scores |-> k],
                        {k \in DOMAIN scores : \A m \in same(k) : k <= m})
        seen == [i \in 1..Len(first) |->
                    [record |-> scores[first[i]].record,
                     score |-> Max({scores[m].score : m \in same(first[i])})]]
        order == Ordering(Len(seen), Falling([i \in 1..Len(seen) |-> seen[i].score]))
    IN  [i \in 1..Len(seen) |-> seen[order[i]]]

-----------------------------------------------------------------------------
(* Retention                                                                *)

IsExpired(r, now) == r.ttl # Unset /\ 24 * (now - r.day) > r.ttl

FilterExpired(found, now) == KeepIn(found, {r \in Range(found) : ~IsExpired(r, now)})

CalculateEvictionCount(found, maxCount) == Max({0, Len(found) - maxCount})

LeastImportant(found) == Falling([i \in 1..Len(found) |-> -found[i].importance])

(* mutant: read-only records are not spared                                 *)
EvictAnyone(found, count) ==
    LET order == Ordering(Len(found), LeastImportant(found))
    IN  {found[order[i]] : i \in 1..Min({count, Len(found)})}

(* The least important, among them the oldest, and never one that is        *)
(* read-only.                                                               *)
SelectEvictionCandidates(found, count) ==
    LET evictable == ExcludeReadOnly(found)
        order == Ordering(Len(evictable), LeastImportant(evictable))
    IN  {evictable[order[i]] : i \in 1..Min({count, Len(evictable)})}

-----------------------------------------------------------------------------

Init ==
    /\ initialized = FALSE /\ records = <<>> /\ stored = 0 /\ lost = {}
    /\ chunks = <<>> /\ queue = <<>>
    /\ policy = [scope \in Scopes |-> DefaultPolicy(scope)]
    /\ asked = [a \in Askers |-> [pc |-> "idle", query |-> Absent, found |-> <<>>, answer |-> <<>>]]
    /\ cache = <<>>

Initialize ==
    /\ ~initialized /\ initialized' = TRUE
    /\ UNCHANGED <<records, stored, policy, lost, chunks, queue, asked, cache>>

SetPolicy(new) ==
    /\ policy' = [policy EXCEPT ![new.scope] = new.importance]
    /\ UNCHANGED <<initialized, records, stored, lost, chunks, queue, asked, cache>>

Record(input, importance, id) ==
    [id |-> id, day |-> id, ttl |-> DefaultTtl(input.scope), importance |-> importance,
     scope |-> input.scope, length |-> input.length, words |-> input.words,
     pluginId |-> input.pluginId, userId |-> input.userId, projectId |-> input.projectId,
     tags |-> input.tags, readOnly |-> input.readOnly]

(* A record without content or out of range is refused, and so is any       *)
(* before initialize().                                                     *)
Store(input) ==
    LET importance == IF input.importance = Unset THEN policy[input.scope] ELSE input.importance
        record == Record(input, importance, stored + 1)
    IN  /\ stored < MaxRecords
        /\ initialized /\ input.length > 0 /\ importance \in 0..10
        /\ records' = Append(records, record)
        /\ queue' = Append(queue, [does |-> "index", record |-> record])
        /\ stored' = stored + 1
        /\ UNCHANGED <<initialized, policy, lost, chunks, asked, cache>>

(* mutant: the index is told before the provider is                         *)
DeleteAtOnce(id) ==
    /\ initialized /\ \E r \in Range(records) : r.id = id
    /\ records' = KeepIn(records, {r \in Range(records) : r.id # id})
    /\ chunks' = [other \in DOMAIN chunks \ {id} |-> chunks[other]]
    /\ UNCHANGED <<initialized, policy, stored, lost, queue, asked, cache>>

Delete(id) ==
    /\ initialized
    /\ \E r \in Range(records) :
          r.id = id /\ queue' = Append(queue, [does |-> "remove", record |-> r])
    /\ records' = KeepIn(records, {r \in Range(records) : r.id # id})
    /\ UNCHANGED <<initialized, policy, stored, lost, chunks, asked, cache>>

(* The continuation of a store() or a delete().                             *)
Continue ==
    /\ queue # <<>>
    /\ LET id == Head(queue).record.id IN
       chunks' = IF Head(queue).does = "index"
                 THEN [other \in DOMAIN chunks \cup {id} |->
                          IF other = id THEN ChunkContent(Head(queue).record.length)
                          ELSE chunks[other]]
                 ELSE [other \in DOMAIN chunks \ {id} |-> chunks[other]]
    /\ queue' = Tail(queue)
    /\ UNCHANGED <<store_, asked, cache>>

(* close() empties the provider and leaves the index as it is.              *)
Close ==
    /\ initialized
    /\ initialized' = FALSE /\ records' = <<>>
    /\ lost' = lost \cup {r.id : r \in Range(records)}
    /\ UNCHANGED <<policy, stored, chunks, queue, asked, cache>>

-----------------------------------------------------------------------------
(* Queries                                                                  *)

(* mutant: the key leaves out whose memories are asked for                  *)
KeyWithoutUser(q) == <<q.text, q.scopes, q.pluginIds, q.projectId, q.tags, q.maxResults>>

(* The key has neither the two thresholds nor includeReadOnly.              *)
CacheKey(q) ==
    <<q.text, q.scopes, q.pluginIds, q.userId, q.projectId, q.tags, q.maxResults>>

CanAsk(a) == asked[a].pc # "asking"

HitsCache(a, q) == a \in Cached /\ CacheKey(q) \in DOMAIN cache

Asked(a, pc, q, found, answer) ==
    /\ asked' = [asked EXCEPT ![a] = [pc |-> pc, query |-> q, found |-> found,
                                      answer |-> answer]]
    /\ UNCHANGED <<store_, chunks, queue>>

AnswerFromCache(a, q) ==
    /\ CanAsk(a) /\ HitsCache(a, q)
    /\ Asked(a, "answered", q, <<>>, cache[CacheKey(q)])
    /\ UNCHANGED cache

(* Before initialize() the provider throws and the query fails.             *)
Ask(a, q) ==
    /\ CanAsk(a) /\ ~HitsCache(a, q)
    /\ IF initialized THEN Asked(a, "asking", q, Matching(q), <<>>)
       ELSE Asked(a, "failed", Absent, <<>>, <<>>)
    /\ UNCHANGED cache

(* What was found is remembered for the answers that must fit it exactly.   *)
AnswerWith(a, answer) ==
    LET key == CacheKey(asked[a].query) IN
    /\ Asked(a, "answered", asked[a].query, IF a \in Cached THEN <<>> ELSE asked[a].found, answer)
    /\ cache' = IF a \notin Cached THEN cache
                ELSE [k \in DOMAIN cache \cup {key} |-> IF k = key THEN answer ELSE cache[k]]

(* mutant: the bound of the query is not passed on                          *)
AnswerUnbounded(a) ==
    /\ asked[a].pc = "asking"
    /\ LET q == [asked[a].query EXCEPT !.maxResults = Unset]
       IN  AnswerWith(a, RankMemories(ApplyQueryFilters(asked[a].found, q), q))

Answer(a) ==
    /\ asked[a].pc = "asking"
    /\ LET q == asked[a].query
       IN  AnswerWith(a, RankMemories(ApplyQueryFilters(asked[a].found, q), q))

(* An entry is too old, or clearCache() is called.                          *)
Expire(key) ==
    /\ cache' = [k \in DOMAIN cache \ {key} |-> cache[k]]
    /\ UNCHANGED <<store_, chunks, queue, asked>>

ClearCache ==
    /\ cache # <<>> /\ cache' = <<>>
    /\ UNCHANGED <<store_, chunks, queue, asked>>

Next ==
    \/ Initialize \/ Continue \/ Close \/ ClearCache
    \/ \E input \in Inputs : Store(input)
    \/ \E new \in Policies : SetPolicy(new)
    \/ \E id \in 1..stored : Delete(id)
    \/ \E a \in Askers :
          Answer(a) \/ \E q \in Queries : Ask(a, q) \/ AnswerFromCache(a, q)
    \/ \E key \in DOMAIN cache : Expire(key)

Spec == Init /\ [][Next]_vars

-----------------------------------------------------------------------------

(* Records carry their ids in the order of storing, everything that waits   *)
(* or is indexed was stored, and the caches keep the shape of answers.      *)
TypeOK ==
    /\ initialized \in BOOLEAN /\ stored \in 0..MaxRecords
    /\ initialized \/ records = <<>>
    /\ \A i \in 1..Len(records) :
          records[i].id \in 1..stored /\ (i > 1 => records[i - 1].id < records[i].id)
    /\ DOMAIN chunks \subseteq 1..stored /\ lost \subseteq 1..stored
    /\ \A i \in 1..Len(queue) : queue[i].does \in {"index", "remove"}
    /\ \A a \in Askers : asked[a].pc \in {"idle", "asking", "answered", "failed"}

(* From end to end, each piece overlapping the next as configured.          *)
Covers(pieces, length) ==
    /\ pieces[1][1] = 0 /\ Last(pieces)[2] = length
    /\ \A k \in 1..(Len(pieces) - 1) :
          pieces[k][2] = Min({pieces[k + 1][1] + ChunkOverlap, length})

(* However stores, deletes and a close() interleave: once the continuations *)
(* have run every record of the provider is indexed, whatever else is       *)
(* indexed went with a close(), and the chunks of a record cover its        *)
(* content from end to end, each overlapping the next as configured         *)
(* (MemoryManager.store(), delete(), MemoryIndexer.chunkContent()).         *)
IndexFollowsTheRecords ==
    LET ids == {r.id : r \in Range(records)} IN
    /\ queue = <<>> => ids \subseteq DOMAIN chunks /\ DOMAIN chunks \ ids \subseteq lost
    /\ \A r \in Range(records) : r.id \in DOMAIN chunks => Covers(chunks[r.id], r.length)

(* The part of a query that its cache key holds.                            *)
FitsTheKey(answer, q) ==
    /\ Len(answer) <= ResultLimit(q)
    /\ \A i \in 1..Len(answer) :
          /\ q.scopes # {} => answer[i].scope \in q.scopes
          /\ q.userId # Absent => answer[i].userId = q.userId
          /\ q.projectId # Absent => answer[i].projectId = q.projectId
          /\ q.pluginIds # {} => answer[i].pluginId \in q.pluginIds
          /\ q.tags # {} => answer[i].tags \cap q.tags # {}
          /\ q.text # Absent => q.text \in answer[i].words
          /\ i > 1 => Score(answer[i - 1], Loaded) >= Score(answer[i], Loaded)

(* An answer, cached or not, keeps to the user, project, plugins, scopes,   *)
(* tags, text and number of results asked for, best first, so no cached     *)
(* answer shows a user another's memories; one found in the provider leaves *)
(* out no better record than it holds, and keeps to the thresholds and the  *)
(* read-only switch as well (MemoryRetriever.query(), rankMemories()).      *)
AnswersFitTheQuery ==
    \A a \in Askers : asked[a].pc = "answered" =>
        LET answer == asked[a].answer  q == asked[a].query IN
        /\ FitsTheKey(answer, q)
        /\ a \notin Cached =>
              /\ \A i \in 1..Len(answer) :
                    /\ q.includeReadOnly \/ ~answer[i].readOnly
                    /\ q.minImportance # Unset => answer[i].importance >= q.minImportance
              /\ \A r \in Range(asked[a].found) \ Range(answer) :
                    \/ Score(r, Loaded) < MinScore(q)
                    \/ q.text # Absent /\ q.text \notin r.words
                    \/ /\ Len(answer) = ResultLimit(q)
                       /\ \A i \in 1..Len(answer) :
                             Score(answer[i], Loaded) >= Score(r, Loaded)

(* A host that evicts what it computes to be over a limit brings the        *)
(* records down to it unless only read-only ones are left, loses no         *)
(* read-only one, and keeps no unimportant one for a weightier; a policy    *)
(* that is pinned spares nothing, though its memories are documented to     *)
(* survive eviction (MemoryTypes.ts, isPinned()); what it drops by age      *)
(* stays dropped the next day.  Two answers scored on different days merge  *)
(* into one score for each record, its best, in order; and the filters for  *)
(* hosts let through what the provider does (MemoryPolicies.ts,             *)
(* deduplicateScores(), applyFilter()).                                     *)
HousekeepingKeepsTheBest ==
    LET all == ToSet(records)
        scored(now) == [i \in 1..Len(records) |->
                           [record |-> records[i], score |-> Score(records[i], now)]]
        merged == DeduplicateScores(scored(stored) \o scored(Loaded))
    IN  /\ \A limit \in 0..Len(records) :
              LET gone == SelectEvictionCandidates(records, CalculateEvictionCount(records, limit))
              IN  /\ \A r \in gone : ~r.readOnly
                  /\ \/ Cardinality(all \ gone) = limit
                     \/ Cardinality(all \ gone) > limit /\ \A r \in all \ gone : r.readOnly
                  /\ \A r \in gone, other \in all \ gone :
                        other.readOnly \/ r.importance <= other.importance
        /\ \A now \in 0..(stored + 1) :
              ToSet(FilterExpired(records, now + 1)) \subseteq ToSet(FilterExpired(records, now))
        /\ Len(merged) = Len(records)
        /\ \A i \in 1..Len(merged) :
              /\ merged[i].score = Max({Score(merged[i].record, stored),
                                        Score(merged[i].record, Loaded)})
              /\ i > 1 => merged[i - 1].score >= merged[i].score
        /\ \A q \in Queries : ApplyFilter(records, q) = Matching(q)
=============================================================================
