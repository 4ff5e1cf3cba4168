---------------------------- MODULE MCAnswering ----------------------------
(***************************************************************************)
(* The pure parts of indexing and answering, each evaluated on every input  *)
(* of a bounded set: an input is chosen, then the code's function runs on it *)
(* once. Areas names the functions; MC modules and cfgs give the inputs.    *)
(***************************************************************************)
EXTENDS MailText, Quotes, Retrieval, Answers, Dialogue, TLC

CONSTANTS Areas, Pending

VARIABLES area, input, result
vars == <<area, input, result>>

-----------------------------------------------------------------------------
(* Mail: every body of up to 4 lines, and longer ones of the lines that     *)
(* decide where signatures, paragraphs and windows are.                     *)

LineOf(kind) ==
  [sees |-> kind, words |-> CASE kind = "blank" -> << >> [] kind = "delimiter" -> <<0>> [] OTHER -> <<1>>]
LinesLike(kinds) == {LineOf(kind) : kind \in kinds}

\* Words of no token, one and two; lines of one word and two.
Prose == [sees : {"prose"}, words : {<<0>>, <<1>>, <<2>>, <<1, 1>>}]

Bodies == SeqOf(LinesLike(LineKinds), 4) \cup SeqOf(LinesLike({"prose", "blank", "signoff", "on"}), 5)
            \cup SeqOf(Prose \cup {Blank}, 6) \cup SeqOf(LinesLike({"prose", "blank"}), 9)

Pages == {page \in [words : SeqOf({"w1", "w2"}, 4), wide : SUBSET (1 .. 4)] :
            page.wide \subseteq DOMAIN page.words}

EvaluateMail ==
  /\ area = "mail" /\ result = Pending
  /\ result' = [segments |-> Segment(input), chunks |-> ChunkEmail(input, {"From", "Subject"})]
  /\ UNCHANGED <<area, input>>

EvaluatePage ==
  /\ area = "page" /\ result = Pending
  /\ result' = ChunkPage(input)
  /\ UNCHANGED <<area, input>>

\* Nothing of a mail is lost and no quoted history is indexed: the four segments hold
\* its lines in some order of their own, authored text, signature, disclaimer and
\* history, no line that starts history stands in the first three, and every line
\* of authored text is in a chunk. A chunk either has the lines of its span as they are,
\* with at most the overlap more tokens than the limit, or is a window: as many words
\* as the limit or fewer, in one piece, of one paragraph over the limit, whose span it
\* keeps; the windows of a paragraph leave no word of it out. The embed text ends with
\* the chunk. Of a page every word is in a chunk.
TextIsKept ==
  result # Pending =>
    /\ area = "mail" => MailIsKept(input, result.segments, result.chunks)
    /\ area = "page" => PageIsKept(input, result)

-----------------------------------------------------------------------------
(* Quotes: every short text with every short quote and offset; drafts of    *)
(* two claims; a model's extraction from every short text.                  *)

Letters == {"a", " ", Break}
Texts == SeqOf(Letters, 4)
Box == [c1 |-> <<"a", " ", Break, "a">>, c2 |-> <<"a">>, c3 |-> << >>]

Quote(chunk, quote, start) == [chunk |-> chunk, quote |-> quote, start |-> start]

OneQuote ==
  {[texts |-> [c1 |-> text], hits |-> <<"c1">>, budget |-> 1,
    draft |-> [claims |-> <<<<Quote("c1", quote, start)>>>>, flagged |-> FALSE]] :
     text \in Texts, quote \in SeqOf(Letters, 3), start \in {None} \cup -2 .. 2}

SomeQuotes ==
  {Quote("c1", <<"a", " ", "a">>, None), Quote("c1", <<"a">>, 3), Quote("c1", <<"a">>, -1),
   Quote("c2", <<"a", "a">>, None), Quote("c2", <<"a">>, None)}

Drafts ==
  {[texts |-> Box, hits |-> hits, budget |-> budget,
    draft |-> [claims |-> claims, flagged |-> flagged]] :
     hits \in SeqOf({"c1", "c2"}, 3), budget \in 0 .. 2, flagged \in BOOLEAN,
     claims \in SeqOf(SeqOf(SomeQuotes, 1), 2) \cup SeqOf(SeqOf(SomeQuotes, 2), 1)}

Tokens == {"a", " ", "now"}
Names == [ann |-> "ann", Ann |-> "ann", bob |-> "bob"]
Evidence ==
  {<< >>, <<" ">>, <<"a">>, <<"now">>, <<"a", "now">>, <<" ", "now">>, <<"a", " ", "now">>}
Headers ==
  {[sender |-> None, recipients |-> <<"bob">>, cc |-> << >>, inReplyTo |-> TRUE, parentSender |-> "bob"],
   [sender |-> "Ann", recipients |-> <<"bob">>, cc |-> <<"ann">>, inReplyTo |-> TRUE, parentSender |-> "bob"],
   [sender |-> "ann", recipients |-> << >>, cc |-> << >>, inReplyTo |-> TRUE, parentSender |-> None]}
Extracted ==
  {[name |-> "Ann", type |-> "PERSON", evidence |-> <<"a">>],
   [name |-> "ann", type |-> "ORG", evidence |-> <<"now">>],
   [name |-> "bob", type |-> "PERSON", evidence |-> <<"a", " ">>],
   [name |-> "bob", type |-> "PLACE", evidence |-> <<"a">>],
   [name |-> None, type |-> "PERSON", evidence |-> <<"a">>]}

Claim(subject, evidence) ==
  [subject |-> subject, predicate |-> "is", object |-> "a", evidence |-> evidence]

\* Two paragraphs, of which the second has two spaces between words.
Body == <<"a", " ", "now", Break, Break, "now", " ", "a", " ", " ", "now">>

\* Chunks: a short mail as it is; the paragraphs of Body, and windows of the second; a text
\* that has no place.
Chunk(text, start, body, end) == [text |-> text, start |-> start, home |-> [body |-> body, end |-> end]]
ChunksOfMails ==
  {Chunk(body, 0, body, Len(body)) : body \in SeqOf(Tokens, 3) \ {<< >>}}
    \cup {Chunk(PySlice(Body, span[1], span[2]), span[1], Body, span[2]) :
            span \in {<<0, 3>>, <<5, 11>>, <<0, 11>>}}
    \cup {Chunk(NormalizeWs(PySlice(Body, span[1], span[2])), 5, Body, 11) :
            span \in {<<5, 8>>, <<7, 11>>, <<10, 11>>}}
    \cup {Chunk(text, None, << >>, 0) : text \in SeqOf(Tokens, 2)}

Extractions ==
  {[raw |-> [entities |-> entities,
             relations |-> <<[subject |-> "ann", predicate |-> predicate, object |-> "bob",
                              evidence |-> evidence]>>,
             facts |-> <<Claim("ann", evidence), Claim(None, evidence)>>],
    state |-> [text |-> chunk.text, sourceStart |-> chunk.start, sender |-> h.sender,
               recipients |-> h.recipients, cc |-> h.cc, inReplyTo |-> h.inReplyTo,
               parentSender |-> h.parentSender],
    home |-> chunk.home] :
     entities \in SeqOf(Extracted, 2), predicate \in {"APPROVED", "LIKES"}, evidence \in Evidence,
     chunk \in ChunksOfMails, h \in Headers}

EvaluateDraft ==
  /\ area \in {"quote", "draft"} /\ result = Pending
  /\ result' = Attempt(input)
  /\ UNCHANGED <<area, input>>

EvaluateExtraction ==
  /\ area = "extraction" /\ result = Pending
  /\ result' \in ResolveExtraction(input.raw, input.state)
  /\ UNCHANGED <<area, input>>

\* Nothing a model quotes is believed unless it is there: an accepted answer has
\* a citation for every claim, each of a chunk of the pack, whose text holds the
\* quote character by character, at the offsets given with it when the model gave
\* none, and reads as the model wrote it; no passage is cited twice. Of an extraction, every
\* mention and fact is a quote of the model's, white space around it stripped, and
\* stands in the chunk where its offsets say; its place in the body is in the
\* chunk's span, and holds the quote if the chunk is a passage of the body (not of a window of
\* a long paragraph); a relation read from the text connects two entities found in the
\* text; one from the headers has no passage and connects persons.
QuotesAreReal ==
  result # Pending =>
    /\ area \in {"quote", "draft"} => AnswerIsReal(input, result)
    /\ area = "extraction" => GraphIsReal(input.raw, input.state, input.home, result)

-----------------------------------------------------------------------------
(* Searches: three chunks of two threads, the third perhaps of another      *)
(* mailbox; every choice of scores, each route of the planner.              *)

Places3 == {<<<<Mine, "t1">>, <<Mine, "t2">>, <<Mine, "t1">>>>,
            <<<<Mine, "t1">>, <<Mine, "t2">>, <<"other", "t1">>>>}

Databases ==
  {[c \in 1 .. 3 |-> [box |-> places[c][1], thread |-> places[c][2], words |-> words[c],
                      near |-> near[c], liked |-> liked[c]]] :
     places \in Places3, words \in [1 .. 3 -> 0 .. 2], near \in [1 .. 3 -> 0 .. 2],
     liked \in {<<0, 0, 0>>, <<0, 2, 1>>, <<2, 1, 0>>}}

Questions ==
  {[entities |-> {}, subjects |-> {"atlas"}, asOf |-> Nothing, current |-> FALSE],
   [entities |-> {"atlas"}, subjects |-> {"atlas"}, asOf |-> Nothing, current |-> TRUE],
   [entities |-> {"atlas"}, subjects |-> {}, asOf |-> 1, current |-> TRUE],
   [entities |-> {}, subjects |-> {}, asOf |-> Nothing, current |-> TRUE]}

Fact(box, subject, status, chunks) ==
  [box |-> box, subject |-> subject, status |-> status, effective |-> Nothing, chunks |-> chunks]

Graph(mentioned) ==
  [entities |-> {[box |-> Mine, name |-> "atlas", entity |-> "e1"],
                 [box |-> "other", name |-> "atlas", entity |-> "e2"]},
   mentions |-> {[box |-> Mine, entity |-> "e1", chunk |-> c] : c \in mentioned}
                  \cup {[box |-> "other", entity |-> "e2", chunk |-> 3]},
   facts |-> {Fact(Mine, "atlas", "superseded", {1}), Fact(Mine, "atlas", "active", {2}),
              Fact(Mine, "rent", "active", {1, 4}), Fact("other", "atlas", "active", {3})}]

Searches ==
  [db : Databases, question : Questions, mentioned : {{2}, {1, 2}}, thread : {Nothing, "t1"}]

EvaluateSearch ==
  /\ area = "search" /\ result = Pending
  /\ result' = [database |-> SearchDatabase(input.db, Graph(input.mentioned), input.question, input.thread),
                hybrid |-> HybridSearch(input.db, input.thread, FusedTopK),
                memory |-> SearchMemory(input.db, input.thread)]
  /\ UNCHANGED <<area, input>>

\* c is found wherever d is, and never behind it.
Dominates(branches, c, d) ==
  /\ \A b \in DOMAIN branches : Rank(branches[b], d) # 0 =>
       Rank(branches[b], c) # 0 /\ Rank(branches[b], c) < Rank(branches[b], d)
  /\ \E b \in DOMAIN branches : Rank(branches[b], d) # 0

\* Fusion returns each chunk once, from a branch, and keeps what all branches say.
WellFused(found) ==
  /\ IsInjective(found.fused)
  /\ \A d \in ToSet(found.fused) : \E b \in DOMAIN found.branches : d \in ToSet(found.branches[b])
  /\ \A b \in DOMAIN found.branches : \A c \in ToSet(found.branches[b]) : \A d \in ToSet(found.fused) :
       Dominates(found.branches, c, d) =>
         Rank(found.fused, c) # 0 /\ Rank(found.fused, c) < Rank(found.fused, d)

WellRanked(found) ==
  LET chunks == [i \in DOMAIN found.reranked |-> found.reranked[i].chunk]
  IN  /\ WellFused(found)
      /\ IsInjective(chunks)
      /\ ToSet(chunks) \subseteq ToSet(found.fused)
      /\ Len(chunks) = Min({EvidenceTopK, Len(found.fused)})
      /\ \A i, j \in DOMAIN chunks : i < j => found.reranked[i].norm >= found.reranked[j].norm

\* A search of the database returns chunks of this tenant, mailbox and, when one is
\* asked for, thread, whichever branch found them: a fact of the graph names chunks of
\* every thread. On both backends no chunk is returned twice, a chunk every branch puts
\* ahead of another is ahead of it after fusion, and the reranker's order is kept.
EvidenceIsInScope ==
  result # Pending /\ area = "search" =>
    /\ \A hit \in ToSet(result.database.reranked) :
         hit.chunk \in DOMAIN input.db /\ InScope(input.db, input.thread, hit.chunk)
    /\ \A c \in ToSet(result.hybrid.fused) : InScope(input.db, input.thread, c)
    /\ \A hit \in ToSet(result.memory.reranked) : hit.chunk \in InThread(input.db, input.thread)
    /\ WellRanked(result.database) /\ WellFused(result.hybrid) /\ WellRanked(result.memory)

\* rag/paradedb/retrieval.py:7-10: the adapter gives hits of the same shape, "so the
\* engine's answer/citation pipeline ... doesn't need to change at all". Then the hit
\* that both searches and the reranker put first is support for an answer on
\* either backend.
TopHitCounts ==
  result # Pending /\ area = "search" =>
    \A found \in {result.database, result.memory} : \A hit \in ToSet(found.reranked) :
      LET c == hit.chunk
      IN  /\ Rank(found.branches[1], c) = 1 /\ Rank(found.branches[2], c) = 1
          /\ input.db[c].words > 0 /\ input.db[c].near > 0
          /\ input.db[c].liked > 0 /\ found.reranked[1] = hit
          => hit.support >= MinSupport

-----------------------------------------------------------------------------
(* Answers: every question of up to three words about every two hits of     *)
(* six, two mails and an attachment said in different ways among them.      *)

Says(words, length) == [words |-> words, length |-> length]
NoRule == [rule \in {} |-> {}]

Mail(id, date, subject, sender, to, text, finds) ==
  [id |-> id, kind |-> "email", date |-> date, name |-> "", subject |-> subject, sender |-> sender,
   to |-> to, cc |-> << >>, text |-> text, finds |-> finds, rank |-> date, support |-> 600, norm |-> 50]

File(id, date, name, text, finds) ==
  [Mail(id, date, {}, "", << >>, text, finds) EXCEPT !.kind = "attachment", !.name = name]

Hits ==
  {Mail("m1", 1, {"bids"}, "ann", <<"bob">>, <<Says({"bids", "due", "friday"}, 20), Says({"bids"}, 5)>>,
        [rule \in {"deadline"} |-> {"friday"}]),
   Mail("m2", 2, {"bids", "final"}, "bob", << >>, <<Says({"topic", "storage", "rates", "$5"}, 30)>>,
        [rule \in {"topic"} |-> {"storage", "rates", "$5"}]),
   Mail("m3", 3, {}, "", <<"ann", "bob">>, << >>, NoRule),
   File("f1", 2, "a.pdf", <<Says({"draft", "bids", "due", "monday"}, 25)>>,
        [rule \in {"deadline"} |-> {"monday"}]),
   File("f2", 3, "b.pdf", <<Says({"territory", "north", "when"}, 15), Says({"final", "$5", "storage"}, 15)>>,
        [rule \in {"territory"} |-> {"north"}])}

QuestionWords ==
  {"bids", "storage", "from", "to", "subject", "when", "was", "sent", "did", "timeline", "topic", "due",
   "territory", "hotel", "email", "attachment", "a.pdf", "latest", "earlier"}

Questioned ==
  [query : SeqOf(QuestionWords, 2), hits : {h \in SeqOf(Hits, 2) : IsInjective(h)},
   final : {<< >>}]
  \cup [query : {<<"when", "was", "bids", "sent">>, <<"what", "a.pdf">>, <<"latest", "email", "from">>,
                 <<"email", "from", "to">>, <<"when", "email", "due">>, <<"from", "to", "subject">>},
        hits : {h \in SeqOf(Hits, 3) : IsInjective(h)}, final : {<< >>}]
  \cup [query : {<<"compare", "bids">>, <<"draft", "vs", "final">>},
        hits : {h \in SeqOf(Hits, 2) : IsInjective(h)}, final : {h \in SeqOf(Hits, 2) : IsInjective(h)}]

Least == [chunks |-> 2, support |-> MinSupport, rerank |-> 45, coverage |-> 70]

EvaluateAnswer ==
  /\ area = "answer" /\ result = Pending
  /\ LET answer == RetrieveAndAnswer(input.query, IsComparison(input.query), input.hits, input.final)
     IN  result' = [answer |-> answer, outside |-> OutsideThreadReason(input.hits, answer, Least)]
  /\ UNCHANGED <<area, input>>

SaidBy(hits) == UNION {UNION ToSet(SupportText(hit)) : hit \in ToSet(hits)}

\* A statement in an answer is one its citations make: every factual clause shown
\* cites as many hits as it needs, all of them found by the search, and each of its
\* words is in what they say; the fields of a mail shown together are those of one mail;
\* an answer that cannot confirm states nothing else and cites nothing. A question about
\* an attachment is answered from attachments when the search found any. Less than
\* seven clauses of ten supported is a refusal, and a reason to search outside the thread.
AnswersAreCited ==
  result # Pending /\ area = "answer" =>
    LET answer == result.answer
        shown == ToSet(answer.shown)
        found == ToSet(input.hits \o input.final)
        FieldsIn(said) ==
          {s \in said : s.clause.factual /\ \E field \in {"from", "to", "subject"} :
             Has(input.query, {field}) /\ s.clause.content = FieldOf(s.cites[1], field)}
        citing == UNION {ToSet(s.cites) : s \in shown}
    IN  /\ \A s \in shown : s.clause.factual =>
             /\ Len(s.cites) = (IF s.clause.dual THEN 2 ELSE 1)
             /\ ToSet(s.cites) \subseteq found
             /\ s.clause.content # {} /\ s.clause.content \subseteq SaidBy(s.cites)
        /\ (\E s \in shown : ~s.clause.factual) => Cardinality(shown) = 1 /\ answer.citations = << >>
        /\ answer.refused => answer.shown = << >> /\ result.outside # "none"
        /\ Cardinality(UNION {ToSet(s.cites) : s \in FieldsIn(shown)}) <= 1
        /\ /\ Has(input.query, {"attachment"}) /\ ~IsComparison(input.query)
           /\ ~IsTimeline(input.query) /\ \E hit \in found : hit.kind = "attachment"
           => \A hit \in citing : hit.kind = "attachment"

-----------------------------------------------------------------------------
(* Dialogue: every question after every two turns, or resets, of a session   *)
(* about the instructions for a meeting, with what a model makes of it.      *)

PiecesOf(word) ==
  CASE word \in FileNames -> {word, "pdf"}
    [] word = "instructions" -> {word, "instruction"}
    [] word = "topic" -> {word, "to"}
    [] OTHER -> {word}

StemOf(word) == IF word = "a.pdf" THEN "a" ELSE "b"

Thread == <<"meeting">>

Asked ==
  {<<"what", "were", "the", "instructions", "about">>, <<"and", "when">>, <<"and", "who">>,
   <<"compare", "it">>, <<"no,", "i", "meant", "the", "pdf">>, <<"not", "that", "budget">>,
   <<"what", "does", "a.pdf", "say">>, <<"the", "earlier", "email">>,
   <<"is", "that", "the", "final", "deadline">>, <<"topic", "of", "this">>}

Found(name, date, subject) == [name |-> name, date |-> date, subject |-> subject]

Replies ==
  {[hits |-> << >>, answer |-> <<"i", "don't", "have", "enough">>],
   [hits |-> <<Found(<< >>, 1, <<"instructions", "ferc">>)>>, answer |-> <<"instructions:", "access", "rules">>],
   [hits |-> <<Found(<<"b.pdf">>, 1, <<"bids">>), Found(<<"a.pdf">>, 2, << >>)>>,
    answer |-> <<"approved", "friday", ".", "later">>],
   [hits |-> <<Found(<< >>, 1, << >>)>>, answer |-> <<"i", "could", "not", "confirm", "that">>],
   [hits |-> <<Found(<<"b.pdf">>, 1, <<"bids">>)>>, answer |-> <<"see", "a.pdf", "first">>]}

Reset == [reset |-> TRUE]
Answered == {[reset |-> FALSE, text |-> text, hits |-> r.hits, answer |-> r.answer] : text \in Asked, r \in Replies}

Suggestions == {<<<< >>, << >>>>, <<<<"bids", "due">>, << >>>>, <<<<"memory:", "bids">>, <<"ferc", "topic">>>>}

Dialogues ==
  [turns : SeqOf(Answered \cup {Reset}, 2), text : Asked, suggested : {<<<< >>, << >>>>}]
    \cup [turns : SeqOf(Answered, 1), text : Asked, suggested : Suggestions]

EvaluateDialogue ==
  /\ area = "dialogue" /\ result = Pending
  /\ LET memory == HearQuestion(MemoryAfter(input.turns), input.text)
     IN  result' = [memory |-> memory,
                    query |-> Rewrite(input.text, memory, Thread, input.suggested[1], input.suggested[2])]
  /\ UNCHANGED <<area, input>>

SaidIn(turn) == ToSet(turn.text) \cup ToSet(turn.answer)
                  \cup UNION {ToSet(hit.name \o hit.subject) : hit \in ToSet(turn.hits)}

\* The words of the rewriter itself.
Forms == {"when", "was", "the", "ferc", "meeting", "mentioned", "in", "is", "deadline", "for", "compare",
          "earlier", "draft", "versus", "final", "version", "message", "who", "associated", "with",
          "focus", "on", "pdf"}

Occurs(part, text) == \E i \in 0 .. Len(text) : IsPrefix(part, After(text, i))

\* README.md:55, follow-ups and corrections "are resolved before retrieval": what the rules
\* search for names nothing from before a reset, from another session or of its own; a
\* question that leaves out what it is about becomes another one; what a user said was
\* meant is in every later search until something else is, a reset forgets it, or the
\* rule for one meeting applies. What a model suggests is searched for only with the
\* terms the question asked for, and without pieces of the prompt.
QueriesAreResolved ==
  result # Pending /\ area = "dialogue" =>
    LET since == SelectInSeq(Reverse(input.turns), LAMBDA turn : turn.reset)
        recent == IF since = 0 THEN input.turns ELSE After(input.turns, Len(input.turns) - since + 1)
        texts == Append([i \in DOMAIN recent |-> recent[i].text], input.text)
        said == ToSet(Thread) \cup ToSet(input.text) \cup UNION {SaidIn(turn) : turn \in ToSet(recent)}
        corrected == {i \in DOMAIN texts : StartsWith(texts[i], Meant \cup {<<"not", "that">>})}
        means == texts[Max(corrected)]
        Again(text) == Mentions(text, {"pdf"}) \/ text[1] = "the"
    IN  IF \E s \in ToSet(input.suggested) : IsUsable(s, input.text)
        THEN /\ \A anchor \in ToSet(Anchors) : Contains(input.text, anchor) => Mentions(result.query, {anchor})
             /\ ToSet(result.query) \cap Markers = {}
        ELSE /\ ToSet(result.query) \subseteq said \cup Forms \cup {StemOf(file) : file \in said \cap Files}
             /\ ToSet(input.text) \cap (Pronouns \cup {"and"}) # {} => result.query # input.text
             /\ corrected # {} /\ (\A i \in Max(corrected) + 1 .. Len(texts) : ~Again(texts[i])) =>
                  \/ Occurs(After(means, IF means[1] = "no," THEN 3 ELSE 2), result.query)
                  \/ AsksFerc(input.text, result.memory)

-----------------------------------------------------------------------------
Inputs(a) == CASE a = "mail" -> Bodies
               [] a = "page" -> Pages
               [] a = "quote" -> OneQuote
               [] a = "draft" -> Drafts
               [] a = "extraction" -> Extractions
               [] a = "search" -> Searches
               [] a = "answer" -> Questioned
               [] a = "dialogue" -> Dialogues

Init ==
  /\ area \in Areas
  /\ input \in Inputs(area)
  /\ result = Pending

Next ==
  EvaluateMail \/ EvaluatePage \/ EvaluateDraft \/ EvaluateExtraction
    \/ EvaluateSearch \/ EvaluateAnswer \/ EvaluateDialogue

Spec == Init /\ [][Next]_vars
=============================================================================
