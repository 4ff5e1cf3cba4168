----------------------------- MODULE Retrieval -----------------------------
(***************************************************************************)
(* How the evidence of a question is found: the planner, the lexical, dense *)
(* and graph branches, their fusion and the reranker, for the database      *)
(* (rag/paradedb/retrieval.py) and for the in-memory indexes                *)
(* (rag/retrieval.py). Chunks are numbers, in the order of their ids. db     *)
(* gives for each chunk its box (tenant and mailbox), its thread, how well  *)
(* it matches the words of the question (0: not at all), how near its       *)
(* vector is (0, in the database: it has none) and what the reranker makes  *)
(* of it; graph gives the entities, the chunks that mention them, the facts. *)
(***************************************************************************)
EXTENDS Orders, SequencesExt, FiniteSetsExt

CONSTANTS
  Mine,               \* the tenant and mailbox of the settings
  Nothing,            \* no thread, no status, no date
  CandidateLimit,     \* hybrid_candidate_limit
  FusedTopK,          \* fused_top_k
  EvidenceTopK,       \* evidence_top_k
  GraphLimit,         \* graph_candidate_limit
  TemporalLimit,      \* graph_temporal_candidate_limit
  MinSupport          \* min_chunk_support, in thousandths

ASSUME RetrievalAssumption ==
  {CandidateLimit, FusedTopK, EvidenceTopK, GraphLimit, TemporalLimit, MinSupport} \subseteq Nat \ {0}

K == 60             \* hybrid_rrf_k

Top(s, n) == SubSeq(s, 1, IF n < Len(s) THEN n ELSE Len(s))

\* ORDER BY key DESC, id ASC, of the ids that have a key.
Ordered(key) ==
  LET keyed == {<<key[c], c>> : c \in DOMAIN key}
      order == InOrder(keyed, {p \in keyed \X keyed :
                 p[1][1] > p[2][1] \/ (p[1][1] = p[2][1] /\ p[1][2] < p[2][2])})
  IN  [k \in DOMAIN order |-> order[k][2]]

\* A stable sort of s by falling score, score[i] that of s[i].
StableSort(s, score) ==
  LET order == Ordered(score)
  IN  [k \in DOMAIN order |-> s[order[k]]]

Rank(s, x) == LET at == {i \in DOMAIN s : s[i] = x} IN IF at = {} THEN 0 ELSE Min(at)

\* Scores of a list, spread over 0 .. 100; equal ones are all 100 or all 0.
Normalized(values) ==
  LET low == Min(ToSet(values))
      high == Max(ToSet(values))
  IN  [i \in DOMAIN values |-> IF low = high THEN IF high > 0 THEN 100 ELSE 0
                               ELSE ((values[i] - low) * 100) \div (high - low)]

-----------------------------------------------------------------------------
(* The planner, from what it sees in the question: the words in quotes or   *)
(* capitals, the other words, a date after "as of", a word like "current".  *)

Plan(question, enabled) ==
  LET temporal == IF question.asOf # Nothing THEN <<"as_of">>
                  ELSE IF question.current THEN <<"current">> ELSE << >>
      entity == IF question.entities = {} THEN << >> ELSE <<"entity">>
  IN  <<"hybrid">> \o (IF enabled THEN temporal \o entity ELSE << >>)

UsesGraph(plan) == \E i \in DOMAIN plan : plan[i] # "hybrid"

-----------------------------------------------------------------------------
(* The database.                                                           *)

InScope(db, thread, c) == db[c].box = Mine /\ thread \in {Nothing, db[c].thread}

\* LexicalRetriever.search.
Lexical(db, thread, limit) ==
  Top(Ordered([c \in {d \in DOMAIN db : InScope(db, thread, d) /\ db[d].words > 0} |-> db[c].words]),
      limit)

\* DenseRetriever.search.
Dense(db, thread, limit) ==
  Top(Ordered([c \in {d \in DOMAIN db : InScope(db, thread, d) /\ db[d].near > 0} |-> db[c].near]),
      limit)

EntitiesMatching(graph, names) == {e \in graph.entities : e.box = Mine /\ e.name \in names}

Ascending(ids, limit) == Top(Increasing(ids), limit)

\* entity_evidence_chunk_ids: mentions and ends of relations.
EntityEvidence(graph, entities, limit) ==
  Ascending({m.chunk : m \in {o \in graph.mentions : o.box = Mine /\ o.entity \in entities}}, limit)

\* fact_evidence_chunk_ids; no subjects means any subject.
FactEvidence(graph, subjects, status, asOf, limit) ==
  LET facts == {f \in graph.facts :
                 /\ f.box = Mine
                 /\ subjects = {} \/ f.subject \in subjects
                 /\ status \in {Nothing, f.status}
                 /\ asOf = Nothing \/ (f.effective # Nothing /\ f.effective <= asOf)}
  IN  Ascending(UNION {f.chunks : f \in facts}, limit)

\* collect_graph_chunk_ids: route by route, each chunk once.
CollectGraphChunkIds(graph, plan, question) ==
  LET Found(route) ==
        CASE route = "entity" ->
               LET entities == {e.entity : e \in EntitiesMatching(graph, question.entities)}
               IN  EntityEvidence(graph, entities, GraphLimit)
                     \o FactEvidence(graph, question.entities, Nothing, Nothing, GraphLimit)
          [] route = "current" ->
               FactEvidence(graph, question.subjects, "active", Nothing, TemporalLimit)
          [] route = "as_of" ->
               FactEvidence(graph, question.subjects, Nothing, question.asOf, TemporalLimit)
          [] OTHER -> << >>
      found == FlattenSeq([i \in DOMAIN plan |-> Found(plan[i])])
  IN  Those(found, {i \in DOMAIN found : Rank(found, found[i]) = i})

\* Mutant: the graph has done the scoping.
LoadedByBox(db, thread, ids) ==
  Those(ids, {i \in DOMAIN ids : ids[i] \in DOMAIN db /\ db[ids[i]].box = Mine})

\* _load_graph_chunks: those there are, in scope.
LoadGraphChunks(db, thread, ids) ==
  Those(ids, {i \in DOMAIN ids : ids[i] \in DOMAIN db /\ InScope(db, thread, ids[i])})

\* (K+1)(K+2)...(K+n).
Unit(n) ==
  LET product[i \in 0 .. n] == IF i = 0 THEN 1 ELSE product[i - 1] * (K + i)
  IN  product[n]

\* What branch b says for c, and all branches: weight / (K + rank), in units of 1 / Unit(n).
RrfPart(branches, b, c) ==
  LET n == Max({Len(branches[a].ids) : a \in DOMAIN branches} \cup {1})
      rank == Rank(branches[b].ids, c)
  IN  IF rank = 0 THEN 0 ELSE branches[b].weight * (Unit(n) \div (K + rank))

RrfScore(branches, c) ==
  LET sum[b \in 0 .. Len(branches)] == IF b = 0 THEN 0 ELSE sum[b - 1] + RrfPart(branches, b, c)
  IN  sum[Len(branches)]

\* weighted_rrf_multi.
WeightedRrf(branches) ==
  Ordered([c \in UNION {ToSet(branches[b].ids) : b \in DOMAIN branches} |-> RrfScore(branches, c)])

\* weighted_rrf, for two branches.
FusePair(words, dense) ==
  WeightedRrf(<<[ids |-> words, weight |-> 1], [ids |-> dense, weight |-> 1]>>)

\* HybridRetriever.search of the database: no graph and no reranker.
HybridSearch(db, thread, topK) ==
  LET limit == Max({CandidateLimit, 4 * topK})
      words == Lexical(db, thread, limit)
      dense == Dense(db, thread, limit)
  IN  [branches |-> <<words, dense>>, fused |-> Top(FusePair(words, dense), topK)]

\* The support of a hit, in thousandths.
Support(rerank, dense, words) == 5 * rerank + 3 * dense + 2 * words

\* CrossEncoderReranker.rerank: hits [chunk, dense, words], scores of the last two
\* normalised; liked[c] is the score of c.
Rerank(hits, liked, topK) ==
  LET norm == IF hits = << >> THEN << >> ELSE Normalized([i \in DOMAIN hits |-> liked[hits[i].chunk]])
      scored == [i \in DOMAIN hits |->
                  [chunk |-> hits[i].chunk, norm |-> norm[i],
                   support |-> Support(norm[i], hits[i].dense, hits[i].words)]]
  IN  Top(StableSort(scored, norm), topK)

Liked(db) == [c \in DOMAIN db |-> db[c].liked]

\* ParadeDBEngineRetriever.search. The hits given to the reranker carry the raw
\* scores of the branches, never the normalised ones.
SearchDatabase(db, graph, question, thread) ==
  LET limit == Max({CandidateLimit, 4 * FusedTopK})
      words == Lexical(db, thread, limit)
      dense == Dense(db, thread, limit)
      plan == Plan(question, TRUE)
      found == IF UsesGraph(plan)
                 THEN LoadGraphChunks(db, thread, CollectGraphChunkIds(graph, plan, question))
               ELSE << >>
      branches == <<[ids |-> words, weight |-> 1], [ids |-> dense, weight |-> 1]>>
                    \o (IF found = << >> THEN << >> ELSE <<[ids |-> found, weight |-> 1]>>)
      fused == Top(WeightedRrf(branches), FusedTopK)
      hits == [i \in DOMAIN fused |-> [chunk |-> fused[i], dense |-> 0, words |-> 0]]
  IN  [branches |-> [b \in DOMAIN branches |-> branches[b].ids], fused |-> fused,
       reranked |-> Rerank(hits, Liked(db), EvidenceTopK),
       fallback |-> UsesGraph(plan) /\ found = << >>]

-----------------------------------------------------------------------------
(* The in-memory indexes: one mailbox, and every chunk has a vector.        *)

InThread(db, thread) == {c \in DOMAIN db : thread \in {Nothing, db[c].thread}}

\* BM25Index.search: chunks without a word of the question are ranked too.
Bm25Search(db, thread, topK) == Top(Ordered([c \in InThread(db, thread) |-> db[c].words]), topK)

\* VectorIndex.search and _score_subset.
VectorSearch(db, thread, topK) == Top(Ordered([c \in InThread(db, thread) |-> db[c].near]), topK)

NormOf(ids, score, c) ==
  IF Rank(ids, c) = 0 THEN 0 ELSE Normalized([i \in DOMAIN ids |-> score[ids[i]]])[Rank(ids, c)]

\* reciprocal_rank_fusion: equal scores stay in the order of arrival.
ReciprocalRankFusion(words, dense) ==
  LET branches == <<[ids |-> words, weight |-> 1], [ids |-> dense, weight |-> 1]>>
      ids == words \o Those(dense, {i \in DOMAIN dense : Rank(words, dense[i]) = 0})
  IN  Top(StableSort(ids, [i \in DOMAIN ids |-> RrfScore(branches, ids[i])]), FusedTopK)

\* HybridRetriever.search; the hits keep the normalised scores of both searches.
SearchMemory(db, thread) ==
  LET words == Bm25Search(db, thread, CandidateLimit)
      dense == VectorSearch(db, thread, CandidateLimit)
      fused == ReciprocalRankFusion(words, dense)
      hits == [i \in DOMAIN fused |->
                [chunk |-> fused[i],
                 dense |-> NormOf(dense, [c \in DOMAIN db |-> db[c].near], fused[i]),
                 words |-> NormOf(words, [c \in DOMAIN db |-> db[c].words], fused[i])]]
  IN  [branches |-> <<words, dense>>, fused |-> fused,
       reranked |-> Rerank(hits, Liked(db), EvidenceTopK), fallback |-> FALSE]

\* _unique_hits, of the two searches of a comparison.
UniqueHits(hits) ==
  LET chunks == [i \in DOMAIN hits |-> hits[i].chunk]
  IN  Those(hits, {i \in DOMAIN hits : Rank(chunks, chunks[i]) = i})
=============================================================================
