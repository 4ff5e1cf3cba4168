------------------------------- MODULE Quotes -------------------------------
(***************************************************************************)
(* What the code believes of a model's output: rag/grounded_answer.py for   *)
(* the claims and quotes of an answer, graph/prompt.py and graph/extract.py *)
(* for entities, relations and facts. A text is a sequence of characters,   *)
(* offsets count from 0, and a span <<s, e>> is text[s:e].                  *)
(***************************************************************************)
EXTENDS Orders, SequencesExt, FiniteSetsExt

CONSTANTS
  None,        \* None, of Python
  Key             \* Key[name]: the name in normal form and folded case

\* None is told from the offsets of a passage.
ASSUME QuotesAssumption == None \notin Int \X Int

Break == "\n"
Space == {" ", Break}       \* what isspace or category Zs answers for
Cue == "now"                \* a word of UPDATE_CUE, as one character

-----------------------------------------------------------------------------
(* Python's slices and str.find.                                           *)

PySlice(text, s, e) ==
  LET n == Len(text)
      Clip(i) == IF i < 0 THEN Max({0, n + i}) ELSE Min({i, n})
  IN  SubSeq(text, Clip(s) + 1, Clip(e))

\* -1 when there is none.
Find(text, part) ==
  LET places == {i \in 0 .. Len(text) - Len(part) : SubSeq(text, i + 1, i + Len(part)) = part}
  IN  IF places = {} THEN -1 ELSE Min(places)

-----------------------------------------------------------------------------
(* Answers: rag/grounded_answer.py.                                        *)

\* build_evidence_pack: the ids of the chunks, each once, budget of them at most.
BuildEvidencePack(hits, budget) ==
  LET firsts == Increasing({i \in DOMAIN hits : \A j \in 1 .. i - 1 : hits[j] # hits[i]})
      n == Min({Len(firsts), Max({1, budget})})
  IN  [k \in 1 .. n |-> hits[firsts[k]]]

\* _normalize_ws: the places whose characters stay. The first of a run of spaces
\* stays (as a plain space) when there is text on both sides.
NormalizedPlaces(text) ==
  Increasing({i \in DOMAIN text :
    \/ text[i] \notin Space
    \/ i > 1 /\ text[i - 1] \notin Space /\ \E j \in i .. Len(text) : text[j] \notin Space})

NormalizeWs(text) ==
  LET places == NormalizedPlaces(text)
  IN  [k \in DOMAIN places |-> IF text[places[k]] \in Space THEN " " ELSE text[places[k]]]

\* Mutant: the place in the normalized text is taken for one of the text.
LocateUnmapped(text, quote) ==
  LET at == Find(text, quote)
      plain == NormalizeWs(quote)
      pos == Find(NormalizeWs(text), plain)
  IN  IF at # -1 THEN <<at, at + Len(quote)>>
      ELSE IF plain = << >> \/ pos = -1 THEN None
      ELSE <<pos, pos + Len(plain)>>

\* _locate_quote: exactly, or else up to white space.
LocateQuote(text, quote) ==
  LET at == Find(text, quote)
      plain == NormalizeWs(quote)
      pos == Find(NormalizeWs(text), plain)
      place == NormalizedPlaces(text)
  IN  IF at # -1 THEN <<at, at + Len(quote)>>
      ELSE IF plain = << >> \/ pos = -1 THEN None
      ELSE <<place[pos + 1] - 1, place[pos + Len(plain)]>>

\* A citation of the draft: [chunk, quote, start]; texts[c] is the text of chunk c.
\* What is wrong with it, if anything.
CitationFault(citation, pack, texts) ==
  CASE citation.quote = << >> -> "malformed_citation"
    [] citation.quote # << >> /\ citation.chunk \notin ToSet(pack) -> "invented_chunk_id"
    [] OTHER ->
       LET text == texts[citation.chunk]
           start == citation.start
       IN  IF start # None
             THEN IF PySlice(text, start, start + Len(citation.quote)) = citation.quote
                    THEN "none" ELSE "offset_mismatch"
           ELSE IF LocateQuote(text, citation.quote) = None THEN "quote_not_found" ELSE "none"

\* The citation that is kept: an offset of the model's stays what it said.
Resolved(citation, texts) ==
  LET text == texts[citation.chunk]
      span == IF citation.start # None
                THEN <<citation.start, citation.start + Len(citation.quote)>>
              ELSE LocateQuote(text, citation.quote)
  IN  [chunk |-> citation.chunk, span |-> span,
       quote |-> IF citation.start # None THEN citation.quote ELSE PySlice(text, span[1], span[2])]

Rejected(reason) == [ok |-> FALSE, reason |-> reason, citations |-> << >>]

\* validate_draft, for a draft [claims, flagged]; a claim is a sequence of citations.
ValidateDraft(draft, pack, texts) ==
  LET claims == draft.claims
      cited == FlattenSeq(claims)
      FaultOf(claim) ==
        IF claim = << >> THEN "uncited_claim"
        ELSE LET bad == {i \in DOMAIN claim : CitationFault(claim[i], pack, texts) # "none"}
             IN  IF bad = {} THEN "none" ELSE CitationFault(claim[Min(bad)], pack, texts)
      faulty == {i \in DOMAIN claims : FaultOf(claims[i]) # "none"}
  IN  IF claims = << >> THEN Rejected("no_claims")
      ELSE IF faulty # {} THEN Rejected(FaultOf(claims[Min(faulty)]))
      ELSE [ok |-> ~draft.flagged,
            reason |-> IF draft.flagged THEN "model_flagged_insufficient" ELSE "none",
            citations |-> [i \in DOMAIN cited |-> Resolved(cited[i], texts)]]

\* _dedup_citations.
DedupCitations(citations) ==
  LET Same(c, d) == c.chunk = d.chunk /\ c.span = d.span
  IN  Those(citations, {i \in DOMAIN citations :
                         \A j \in 1 .. i - 1 : ~Same(citations[j], citations[i])})

\* One attempt of GroundedAnswerEngine.answer: asked = [hits, budget, texts, draft], the
\* hits of the search and what the model makes of them.
Attempt(asked) ==
  LET pack == BuildEvidencePack(asked.hits, asked.budget)
      verdict == ValidateDraft(asked.draft, pack, asked.texts)
  IN  [pack |-> pack, ok |-> verdict.ok, reason |-> verdict.reason,
       citations |-> IF verdict.ok THEN DedupCitations(verdict.citations) ELSE << >>]

\* The words of a quote, whatever the white space.
Reading(text) == NormalizeWs(text)
Slice(text, span) == SubSeq(text, span[1] + 1, span[2])

\* Of the hits, as many different chunks as the budget allows, one at least.
PackIsFair(asked, pack) ==
  /\ ToSet(pack) \subseteq ToSet(asked.hits) /\ IsInjective(pack)
  /\ Len(pack) = Min({Max({1, asked.budget}), Cardinality(ToSet(asked.hits))})

\* c is what was asked for: it says where its chunk has the quote, word for word.
CitationIsReal(asked, pack, c) ==
  LET text == asked.texts[c.chunk]
  IN  /\ c.chunk \in ToSet(pack)
      /\ PySlice(text, c.span[1], c.span[2]) = c.quote
      /\ \E k \in DOMAIN asked.draft.claims : \E q \in ToSet(asked.draft.claims[k]) :
           /\ q.chunk = c.chunk /\ Reading(q.quote) = Reading(c.quote)
           /\ q.start = None => 0 <= c.span[1] /\ Slice(text, c.span) = c.quote

AnswerIsReal(asked, result) ==
  /\ PackIsFair(asked, result.pack)
  /\ result.ok => /\ asked.draft.claims # << >> /\ ~asked.draft.flagged
                  /\ \A k \in DOMAIN asked.draft.claims : asked.draft.claims[k] # << >>
                  /\ result.citations # << >>
  /\ \A i \in DOMAIN result.citations : CitationIsReal(asked, result.pack, result.citations[i])
  /\ \A i, j \in DOMAIN result.citations :
       i # j => result.citations[i].chunk # result.citations[j].chunk
                  \/ result.citations[i].span # result.citations[j].span

-----------------------------------------------------------------------------
(* The graph: graph/prompt.py and graph/extract.py.                        *)

EntityTypes == {"PERSON", "ORG"}
Predicates == {"APPROVED"}

\* str.strip: without the white space at both ends.
Stripped(text) ==
  LET inner == {i \in DOMAIN text : text[i] \notin Space}
  IN  IF inner = {} THEN << >> ELSE SubSeq(text, Min(inner), Max(inner))

\* _str, for the evidence. A name or type stands for what is left of it, None for a field
\* that is missing, no string, or white space only.
Trimmed(items) ==
  [i \in DOMAIN items |-> [items[i] EXCEPT !.evidence = Stripped(items[i].evidence)]]

Cleaned(raw) ==
  [entities |-> Trimmed(raw.entities), relations |-> Trimmed(raw.relations), facts |-> Trimmed(raw.facts)]

\* The items that have evidence and all these fields.
Filled(items, fields) ==
  {i \in DOMAIN items : items[i].evidence # << >> /\ \A field \in fields : items[i][field] # None}

\* validate_extraction: items that lack something are dropped, the rest stays.
ValidateExtraction(raw) ==
  LET said == Cleaned(raw)
  IN  [entities |-> Those(said.entities, {i \in Filled(said.entities, {"name"}) :
                                            said.entities[i].type \in EntityTypes}),
       relations |-> Those(said.relations, {i \in Filled(said.relations, {"subject", "object"}) :
                                              said.relations[i].predicate \in Predicates}),
       facts |-> Those(said.facts, Filled(said.facts, {"subject", "predicate", "object"}))]

\* locate_span: the first occurrence, exactly.
LocateSpan(text, evidence) ==
  LET at == Find(text, evidence)
  IN  IF evidence = << >> \/ at < 0 THEN None ELSE <<at, at + Len(evidence)>>

SourceOffsets(state, span) ==
  IF state.sourceStart = None THEN None
  ELSE <<state.sourceStart + span[1], state.sourceStart + span[2]>>

\* has_update_cue: a word of the evidence, whatever surrounds the evidence.
HasUpdateCue(evidence) ==
  \E i \in DOMAIN evidence :
    /\ evidence[i] = Cue
    /\ i = 1 \/ evidence[i - 1] \in Space
    /\ i = Len(evidence) \/ evidence[i + 1] \in Space

Person(address) == <<"PERSON", Key[address]>>

\* metadata_relations.
MetadataRelations(state) ==
  LET Edge(predicate, address) ==
        [subject |-> Person(state.sender), predicate |-> predicate, object |-> Person(address),
         kind |-> "metadata", span |-> None]
      To(predicate, addresses) == [i \in DOMAIN addresses |-> Edge(predicate, addresses[i])]
  IN  IF state.sender = None THEN << >>
      ELSE To("SENT", state.recipients) \o To("CC", state.cc)
             \o (IF state.inReplyTo /\ state.parentSender # None
                   THEN <<Edge("REPLY_TO", state.parentSender)>> ELSE << >>)

\* _match_entity_key goes through a set: any entity of that name, of any type.
MatchEntityKey(name, mentions) ==
  {mentions[i].key : i \in {j \in DOMAIN mentions : mentions[j].key[2] = Key[name]}}

\* resolve_extraction: the graphs it may return.
ResolveExtraction(raw, state) ==
  LET extraction == ValidateExtraction(raw)
      Located(items) == Those(items, {i \in DOMAIN items : LocateSpan(state.text, items[i].evidence) # None})
      Evidence(x) ==
        LET span == LocateSpan(state.text, x.evidence)
        IN  [span |-> span, source |-> SourceOffsets(state, span)]
      entities == Located(extraction.entities)
      mentions == [i \in DOMAIN entities |->
                    [key |-> <<entities[i].type, Key[entities[i].name]>>,
                     span |-> Evidence(entities[i]).span, source |-> Evidence(entities[i]).source]]
      stated == Located(extraction.relations)
      relations == Those(stated, {i \in DOMAIN stated :
                     /\ MatchEntityKey(stated[i].subject, mentions) # {}
                     /\ MatchEntityKey(stated[i].object, mentions) # {}})
      keys == {mentions[i].key : i \in DOMAIN mentions}
      choices == {f \in [(DOMAIN relations) \X {"subject", "object"} -> keys] :
                   \A i \in DOMAIN relations :
                     /\ f[<<i, "subject">>] \in MatchEntityKey(relations[i].subject, mentions)
                     /\ f[<<i, "object">>] \in MatchEntityKey(relations[i].object, mentions)}
      facts == Located(extraction.facts)
  IN  {[mentions |-> mentions,
        relations |->
          [i \in DOMAIN relations |->
            [subject |-> f[<<i, "subject">>], predicate |-> relations[i].predicate,
             object |-> f[<<i, "object">>], kind |-> "text", span |-> Evidence(relations[i]).span]]
          \o MetadataRelations(state),
        facts |-> [i \in DOMAIN facts |->
                    [span |-> Evidence(facts[i]).span, source |-> Evidence(facts[i]).source,
                     cue |-> HasUpdateCue(facts[i].evidence)]]] : f \in choices}

\* Where a chunk comes from, home = [body, end]: the authored text it was cut from, and the end
\* of the span that the chunk has there. Its text stands there, unless it is a window of
\* a paragraph over the limit: that has the start of the paragraph, and its words put together anew.
StandsInBody(state, home) ==
  state.text = Slice(home.body, <<state.sourceStart, state.sourceStart + Len(state.text)>>)

\* What x names is in the chunk; its place in the body is in the span of the chunk, and
\* holds the same characters when the chunk itself stands in the body.
IsPlaced(x, state, home) ==
  /\ 0 <= x.span[1] /\ x.span[1] < x.span[2] /\ x.span[2] <= Len(state.text)
  /\ (x.source = None) = (state.sourceStart = None)
  /\ x.source # None =>
       /\ state.sourceStart <= x.source[1] /\ x.source[2] <= home.end
       /\ StandsInBody(state, home) => Slice(home.body, x.source) = Slice(state.text, x.span)

\* Mentions, facts and relations of the text stand in the text, as the model quoted
\* them but for white space around the quote; relations of the headers have no place
\* and connect persons.
GraphIsReal(raw, state, home, graph) ==
  LET Quotes(items, span) ==
        \E i \in DOMAIN items : Stripped(items[i].evidence) = Slice(state.text, span)
      found == {graph.mentions[i].key : i \in DOMAIN graph.mentions}
  IN  /\ \A i \in DOMAIN graph.mentions :
           LET m == graph.mentions[i]
           IN  IsPlaced(m, state, home) /\ m.key[1] \in EntityTypes /\ Quotes(raw.entities, m.span)
      /\ \A i \in DOMAIN graph.facts :
           IsPlaced(graph.facts[i], state, home) /\ Quotes(raw.facts, graph.facts[i].span)
      /\ \A i \in DOMAIN graph.relations :
           LET r == graph.relations[i]
           IN  IF r.kind = "text"
                 THEN r.span # None /\ {r.subject, r.object} \subseteq found /\ Quotes(raw.relations, r.span)
                 ELSE r.span = None /\ r.subject[1] = "PERSON" /\ r.object[1] = "PERSON"
=============================================================================
