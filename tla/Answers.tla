------------------------------ MODULE Answers ------------------------------
(***************************************************************************)
(* The deterministic answers: rag/answer.py drafts clauses from the hits of *)
(* a search, rag/citation_validator.py keeps those a hit supports and cites *)
(* it. A question is a sequence of words; a sentence has its set of words    *)
(* and its length. A hit: [id, kind, date, name, subject, sender, to, cc,   *)
(* text, finds, rank, support, norm]: text its sentences, finds[rule] the    *)
(* words a rule's pattern extracts from it, name "" in a mail.              *)
(***************************************************************************)
EXTENDS Integers, Sequences, SequencesExt, FiniteSetsExt

CONSTANTS
  Entities,       \* words the patterns take for amounts, dates, files and people
  FileNames       \* words with the ending of a file

Stopwords == {"attachment", "email", "when", "what", "to", "cc", "on"}
SourceWords == {"attachment", "pdf", "docx", "txt", "html"}
DateWord == <<"date1", "date2", "date3">>

Has(query, words) == \E i \in DOMAIN query : query[i] \in words
Content(words) == words \ Stopwords
Leading(s, n) == SubSeq(s, 1, IF n < Len(s) THEN n ELSE Len(s))
WordsOf(sentences) == UNION {sentences[i].words : i \in DOMAIN sentences}

\* sorted by a tuple of numbers, highest first; equal ones keep their order.
Higher(a, b) == \E k \in DOMAIN a : a[k] > b[k] /\ \A j \in 1 .. k - 1 : a[j] = b[j]
SortedBy(s, KeyAt(_)) ==
  LET order == SetToSortSeq(DOMAIN s, LAMBDA i, j :
                 Higher(KeyAt(i), KeyAt(j)) \/ (KeyAt(i) = KeyAt(j) /\ i < j))
  IN  [k \in DOMAIN order |-> s[order[k]]]

-----------------------------------------------------------------------------
(* What is asked.                                                          *)

IsComparison(query) ==
  \/ Has(query, {"compare", "difference", "changed", "vs"})
  \/ \E i, j \in DOMAIN query : i < j /\ \/ query[i] = "draft" /\ query[j] = "final"
                                         \/ query[i] = "earlier" /\ query[j] \in {"latest", "final"}

IsTimeline(query) ==
  \/ Has(query, {"timeline", "sequence", "chronology"})
  \/ Len(query) >= 2 /\ query[1] = "when" /\ query[2] = "did"

\* The pattern of a file name takes in the words before it.
Requested(query) ==
  LET files == {i \in DOMAIN query : query[i] \in FileNames}
  IN  IF files = {} THEN << >> ELSE SubSeq(query, 1, Max(files))

HasTargetedSourceHint(query) ==
  Requested(query) # << >> \/ Has(query, SourceWords \cup {"email", "message"})

Of(hits, kind) == SelectSeq(hits, LAMBDA hit : hit.kind = kind)

\* _preferred_hits_for_query.
PreferredHits(query, hits) ==
  LET Latest(s) == SortedBy(s, LAMBDA i : <<s[i].date>>)
      named == SelectSeq(hits, LAMBDA hit : hit.name # "" /\ <<hit.name>> = Requested(query))
      asksFile == Has(query, SourceWords \cup FileNames)
      asksMail == Has(query, {"email", "message"})
  IN  IF named # << >> THEN Latest(named)
      ELSE IF asksFile /\ Of(hits, "attachment") # << >> THEN Latest(Of(hits, "attachment"))
      ELSE IF asksMail /\ Of(hits, "email") # << >> THEN Of(hits, "email")
      ELSE hits

Bonuses ==
  {<<"topic", "topic", 4>>, <<"instruction", "instruction", 4>>, <<"deadline", "deadline", 4>>,
   <<"due", "due", 3>>, <<"company", "supply requests", 3>>,
   <<"territory", "service territories", 3>>}

\* _prioritize_hits_for_query.
PrioritizeHits(query, hits) ==
  LET Haystack(hit) == hit.subject \cup {hit.name} \cup WordsOf(hit.text)
      Score(hit) ==
        Cardinality(Content(ToSet(query)) \cap Content(Haystack(hit)))
          + MapThenSumSet(LAMBDA b : b[3], {b \in Bonuses : Has(query, {b[1]}) /\ b[2] \in Haystack(hit)})
  IN  SortedBy(hits, LAMBDA i : <<Score(hits[i]), IF hits[i].kind = "attachment" THEN -1 ELSE 0>>)

-----------------------------------------------------------------------------
(* Drafts: clauses [content, extra, hits, factual, dual]; extra are words of *)
(* the code's own that the validator takes for part of the clause.          *)

Clause(content, hits) ==
  [content |-> content, extra |-> {}, hits |-> hits, factual |-> TRUE, dual |-> FALSE]

CouldNotConfirm ==
  <<[content |-> {}, extra |-> {}, hits |-> << >>, factual |-> FALSE, dual |-> FALSE]>>

\* _best_sentence: the words of the sentence with most of the query's, or {}.
BestSentence(text, queryWords) ==
  LET Shared(s) == IF queryWords = {} THEN Cardinality(Content(s.words))
                   ELSE Cardinality(Content(s.words) \cap queryWords)
      best == SortedBy(text, LAMBDA i :
                <<Shared(text[i]), Cardinality(Content(text[i].words)), text[i].length>>)
  IN  IF text = << >> \/ (queryWords # {} /\ Shared(best[1]) = 0) THEN {} ELSE best[1].words

AsksSent(query) ==
  \E i \in 1 .. Len(query) - 1 :
    \/ <<query[i], query[i + 1]>> \in {<<"when", "sent">>, <<"sent", "date">>, <<"date", "sent">>}
    \/ /\ query[i] = "when" /\ query[i + 1] = "was"
       /\ \E j \in i + 2 .. Len(query) : query[j] = "sent"

\* The fields asked for, in the order of the answer, as the words of a mail.
AskedFields(query, Value(_)) ==
  LET asked == SelectSeq(<<"from", "to", "cc", "subject", "sent">>, LAMBDA field :
                 IF field = "sent" THEN AsksSent(query) ELSE Has(query, {field}))
  IN  SelectSeq([i \in DOMAIN asked |-> Value(asked[i])], LAMBDA clause : clause.content # {})

FieldOf(hit, field) ==
  CASE field = "from" -> {hit.sender} \ {""}
    [] field = "to" -> ToSet(hit.to)
    [] field = "cc" -> ToSet(hit.cc)
    [] field = "subject" -> hit.subject
    [] field = "sent" -> {DateWord[hit.date]}

\* Mutant: each field from the first mail that has it.
FieldsOfAnyMail(query, hits) ==
  LET mails == Of(hits, "email")
      Value(field) ==
        LET having == SelectSeq(mails, LAMBDA hit : FieldOf(hit, field) # {})
        IN  IF having = << >> THEN Clause({}, << >>) ELSE Clause(FieldOf(having[1], field), <<having[1]>>)
  IN  AskedFields(query, Value)

\* _build_email_metadata_answer: all from one mail; << >> for None.
MetadataAnswer(query, hits) ==
  LET mails == Of(hits, "email")
      mail == IF Has(query, {"latest", "final"})
                THEN SortedBy(mails, LAMBDA i : <<mails[i].date>>)[1]
              ELSE IF Has(query, {"earlier", "first", "original"}) \/ ~AsksSent(query)
                THEN SortedBy(mails, LAMBDA i : <<-mails[i].date>>)[1]
              ELSE mails[1]
  IN  IF mails = << >> THEN << >>
      ELSE AskedFields(query, LAMBDA field : Clause(FieldOf(mail, field), <<mail>>))

Temporal(query) == Has(query, {"when", "date", "sent"})

\* The rules of _build_structured_answer in their order: what the question must have.
Rules == <<"topic", "meeting", "instruction", "audience", "company", "territory", "month", "deadline">>

Applies(rule, query) ==
  CASE rule = "meeting" -> Temporal(query) /\ Has(query, {"meeting", "ferc"})
    [] rule = "instruction" -> ~Temporal(query) /\ Has(query, {"instruction"})
    [] rule = "company" -> Has(query, {"company", "requesting"})
    [] rule = "territory" -> Has(query, {"territory", "audience"})
    [] rule = "deadline" -> Has(query, {"deadline", "due", "when"})
    [] OTHER -> Has(query, {rule})

\* _extract_with_pattern: the hits in which the rule finds something, in order.
Extract(rule, query, hits) ==
  LET preferred == IF rule = "deadline" /\ Has(query, {"email"})
                     THEN SortedBy(hits, LAMBDA i : <<IF hits[i].kind = "email" THEN 1 ELSE 0, -hits[i].rank>>)
                   ELSE hits
  IN  SelectSeq(preferred, LAMBDA hit : rule \in DOMAIN hit.finds)

\* _build_structured_answer.
StructuredAnswer(query, hits) ==
  LET answering == SelectSeq(Rules, LAMBDA rule :
                     Applies(rule, query) /\ Extract(rule, query, hits) # << >>)
      hit == Extract(answering[1], query, hits)[1]
  IN  IF Has(query, {"hotel"}) THEN CouldNotConfirm
      ELSE IF answering = << >> THEN << >>
      ELSE <<Clause(hit.finds[answering[1]], <<hit>>)>>

Sentences(hits, queryWords, Extra(_)) ==
  LET clauses == [i \in DOMAIN hits |->
                   [Clause(BestSentence(hits[i].text, queryWords), <<hits[i]>>)
                      EXCEPT !.extra = Extra(hits[i])]]
      said == SelectSeq(clauses, LAMBDA clause : clause.content # {})
  IN  IF said = << >> THEN CouldNotConfirm ELSE said

\* build_direct.
BuildDirect(query, hits) ==
  LET selected == PrioritizeHits(query, PreferredHits(query, hits))
      metadata == MetadataAnswer(query, selected)
      structured == StructuredAnswer(query, selected)
      most == IF HasTargetedSourceHint(query) THEN 1 ELSE 2
  IN  IF selected = << >> THEN CouldNotConfirm
      ELSE IF metadata # << >> THEN metadata
      ELSE IF structured # << >> THEN structured
      ELSE Sentences(Leading(selected, most), Content(ToSet(query)), LAMBDA hit : {})

\* build_timeline: "On <date>, <sentence>".
BuildTimeline(hits) ==
  Sentences(Leading(SortedBy(hits, LAMBDA i : <<-hits[i].date>>), 3), {},
            LAMBDA hit : {"on", DateWord[hit.date]})

\* _select_comparison_hit.
SelectComparisonHit(hits, words) ==
  LET Named(hit) == (WordsOf(hit.text) \cup {hit.name} \cup hit.subject) \cap words # {}
      choices == <<SelectSeq(Of(hits, "attachment"), Named), SelectSeq(hits, Named),
                   Of(hits, "attachment"), hits>>
  IN  SelectSeq(choices, LAMBDA s : s # << >>)[1][1]

\* build_comparison.
BuildComparison(earlierHits, finalHits) ==
  LET earlier == SelectComparisonHit(earlierHits, {"draft", "earlier"})
      final == SelectComparisonHit(finalHits, {"final", "latest"})
      Said(hit) == BestSentence(hit.text, {})
  IN  IF earlierHits = << >> \/ finalHits = << >> THEN CouldNotConfirm
      ELSE <<Clause(Said(earlier), <<earlier>>), Clause(Said(final), <<final>>),
             [Clause(Said(earlier) \cup Said(final), <<earlier, final>>) EXCEPT !.dual = TRUE]>>

\* build_comparison_queries.
ComparisonQueries(query, slots) ==
  LET target == IF slots.correction # << >> THEN slots.correction
                ELSE IF slots.attachment # << >> THEN slots.attachment ELSE query
  IN  <<target \o <<"earlier", "draft">>, target \o <<"final", "version">>>>

-----------------------------------------------------------------------------
(* CitationValidator.                                                      *)

\* _support_text, as the word sets of its fragments.
SupportText(hit) ==
  [i \in DOMAIN hit.text |-> hit.text[i].words]
    \o SelectSeq(<<{hit.name} \ {""}, hit.subject,
                   IF hit.sender = "" THEN {} ELSE {"from", hit.sender}, {hit.sender} \ {""},
                   {DateWord[hit.date]},
                   IF hit.to = << >> THEN {} ELSE {"to"} \cup ToSet(hit.to),
                   IF hit.cc = << >> THEN {} ELSE {"cc"} \cup ToSet(hit.cc)>>,
                 LAMBDA words : words # {})

\* Two texts with one space between them: the last fragment runs into the next.
Joined(a, b) == Front(a) \o <<Last(a) \cup Head(b)>> \o Tail(b)

\* _token_overlap_f1, in ten-thousandths: the best fragment.
TokenOverlapF1(words, fragments) ==
  Max({0} \cup {(20000 * Cardinality(words \cap fragments[i]))
                  \div (Cardinality(words) + Cardinality(fragments[i])) : i \in DOMAIN fragments})

\* _entity_value_match.
EntityValueMatch(words, fragments) ==
  LET named == words \cap Entities
  IN  IF named = {} THEN 10000
      ELSE (10000 * Cardinality(named \cap UNION ToSet(fragments))) \div Cardinality(named)

SupportScore(words, fragments) ==
  (6 * TokenOverlapF1(words, fragments) + 4 * EntityValueMatch(words, fragments)) \div 10

SupportThreshold == 6500

\* The hits cited for a clause; << >> when it is not kept.
CitedFor(clause, defaultHits) ==
  LET words == clause.content \cup clause.extra
      candidates == IF clause.hits # << >> THEN clause.hits ELSE defaultHits
      Score(hit) == SupportScore(words, SupportText(hit))
      scored == SortedBy(candidates, LAMBDA i : <<Score(candidates[i])>>)
      supporting == SelectSeq(scored, LAMBDA hit : Score(hit) >= SupportThreshold)
      both == Joined(SupportText(scored[1]), SupportText(scored[2]))
  IN  IF ~clause.dual THEN Leading(supporting, 1)
      ELSE IF Len(scored) < 2 \/ SupportScore(words, both) < SupportThreshold THEN << >>
      ELSE Leading(scored, 2)

\* CitationValidator.validate: the clauses shown with their citations, or a refusal,
\* which comes with the citations of the clauses that were kept.
Validate(draft, defaultHits) ==
  LET factual == SelectSeq(draft, LAMBDA clause : clause.factual)
      kept == SelectSeq(factual, LAMBDA clause : CitedFor(clause, defaultHits) # << >>)
      shown == SelectSeq(draft, LAMBDA clause : ~clause.factual \/ clause \in ToSet(kept))
      Cited(clause) == IF clause.factual THEN CitedFor(clause, defaultHits) ELSE << >>
      refused == factual # << >> /\ 10 * Len(kept) < 7 * Len(factual)
  IN  [refused |-> refused,
       shown |-> IF refused THEN << >>
                 ELSE [i \in DOMAIN shown |-> [clause |-> shown[i], cites |-> Cited(shown[i])]],
       coverage |-> IF factual = << >> THEN 0 ELSE (100 * Len(kept)) \div Len(factual),
       citations |-> FlattenSeq([i \in DOMAIN kept |-> Cited(kept[i])])]

-----------------------------------------------------------------------------
(* The engine: rag/engine.py.                                              *)

\* _retrieve_and_answer, from the hits of its one or two searches.
RetrieveAndAnswer(query, comparison, hits, finalHits) ==
  LET all == hits \o finalHits
      ids == [i \in DOMAIN all |-> all[i].id]
      firsts == SelectSeq([i \in DOMAIN all |-> i], LAMBDA i : \A j \in 1 .. i - 1 : ids[j] # ids[i])
  IN  IF comparison
        THEN Validate(BuildComparison(hits, finalHits), [k \in DOMAIN firsts |-> all[firsts[k]]])
      ELSE Validate(IF IsTimeline(query) THEN BuildTimeline(hits) ELSE BuildDirect(query, hits), hits)

\* _outside_thread_reason, by the thresholds [chunks, support, rerank, coverage].
OutsideThreadReason(hits, validation, least) ==
  LET supported == {i \in DOMAIN hits : hits[i].support >= least.support}
      topRerank == Max({0} \cup {hits[i].norm : i \in DOMAIN hits})
  IN  CASE Cardinality(supported) < least.chunks -> "insufficient_supported_chunks"
        [] Cardinality(supported) >= least.chunks /\ topRerank < least.rerank ->
             "top_rerank_below_threshold"
        [] Cardinality(supported) >= least.chunks /\ topRerank >= least.rerank ->
             IF validation.coverage < least.coverage THEN "citation_coverage_below_threshold" ELSE "none"
=============================================================================
