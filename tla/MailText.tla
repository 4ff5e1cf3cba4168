------------------------------ MODULE MailText ------------------------------
(***************************************************************************)
(* From the body of a mail and the pages of an attachment to the chunks    *)
(* that are indexed and cited: rag/email_segmentation.py and               *)
(* rag/chunking.py. A body is a sequence of lines, each given by what the  *)
(* patterns see in it and by its words, the pieces of text.split(); a word *)
(* is given by how many tokens count_tokens finds in it: one in "rate",    *)
(* three in "a@b.com", none in "--". Indentation and the white space       *)
(* between the words of a line are left out, and so is the markup          *)
(* that normalize_body has BeautifulSoup take out of a body of HTML. A     *)
(* page is a sequence of words, some of which are followed by more than    *)
(* a single space.                                                         *)
(***************************************************************************)
EXTENDS Orders, SequencesExt, FiniteSetsExt

CONSTANTS
  MaxTokens,      \* MAX_CHUNK_TOKENS
  Overlap,        \* OVERLAP_TOKENS
  PageTokens,     \* chunk_size of an attachment
  PageOverlap

ASSUME MailTextAssumption ==
  /\ MaxTokens \in Nat \ {0} /\ PageTokens \in Nat \ {0}
  /\ Overlap \in Nat /\ PageOverlap \in Nat

\* "from" is a line "From: ...", "header" one of Sent, To, Date, Subject or Cc;
\* "on" starts an attribution, "wrote" ends one, "on wrote" is a whole one.
LineKinds ==
  {"prose", "blank", "quoted", "original", "from", "header", "on", "wrote", "on wrote",
   "delimiter", "signoff", "disclaimer"}

Line == [sees : LineKinds, words : Seq(Nat)]
Blank == [sees |-> "blank", words |-> << >>]

IsBlank(line) == line.words = << >>
Written(lines) == Those(lines, {i \in DOMAIN lines : ~IsBlank(lines[i])})
Until(lines, i) == IF i = 0 THEN lines ELSE SubSeq(lines, 1, i - 1)

\* strip(): no blank lines at either end.
Strip(lines) ==
  LET text == {i \in DOMAIN lines : ~IsBlank(lines[i])}
  IN  IF text = {} THEN << >> ELSE SubSeq(lines, Min(text), Max(text))

Onward(lines, i) == IF i = 0 THEN << >> ELSE Strip(SubSeq(lines, i, Len(lines)))

\* normalize_body: of several blank lines one stays, at the ends none.
NormalizeBody(lines) ==
  LET text == Strip(lines)
  IN  Those(text, {i \in DOMAIN text : ~(IsBlank(text[i]) /\ IsBlank(text[i - 1]))})

\* The patterns searched in a block of lines are anchored at its start, so only
\* the first line that is not blank can match.
Opening(lines, from, to) ==
  LET block == Written(SubSeq(lines, from, IF to < Len(lines) THEN to ELSE Len(lines)))
  IN  IF block = << >> THEN "blank" ELSE block[1].sees

\* Line i starts quoted history.
StartsQuote(lines, i) ==
  \/ lines[i].sees \in {"quoted", "original", "on wrote"}
  \/ lines[i].sees = "from" /\ Opening(lines, i + 1, i + 4) \in {"header", "quoted"}
  \/ /\ lines[i].sees = "on"
     /\ \E j \in DOMAIN lines : j \in i .. i + 2 /\ lines[j].sees \in {"wrote", "on wrote"}

FirstOf(indexes) == IF indexes = {} THEN 0 ELSE Min(indexes)

FindQuoteStart(lines) == FirstOf({i \in DOMAIN lines : StartsQuote(lines, i)})

\* A sign-off counts in the last six lines only.
FindSignatureStart(lines) ==
  LET delimiters == {i \in DOMAIN lines : lines[i].sees = "delimiter"}
      signoffs == {i \in DOMAIN lines : i > Len(lines) - 6 /\ lines[i].sees = "signoff"}
  IN  FirstOf(IF delimiters # {} THEN delimiters ELSE signoffs)

FindDisclaimerStart(lines) == FirstOf({i \in DOMAIN lines : lines[i].sees = "disclaimer"})

\* Mutant: what was quoted is restored too.
RestoresAny(authored, quote) == authored = << >>

\* Only what signature and disclaimer took from an unquoted mail is restored.
Restores(authored, quote) == authored = << >> /\ quote = 0

\* segment_email_body, of the normalised text.
SegmentText(text) ==
  LET quote == FindQuoteStart(text)
      head == Until(text, quote)
      notice == FindDisclaimerStart(head)
      rest == Until(head, notice)
      signature == FindSignatureStart(rest)
      authored == Strip(Until(rest, signature))
      quoted == Onward(text, quote)
  IN  IF Restores(authored, quote)
        THEN [authored |-> text, signature |-> << >>, disclaimer |-> << >>, quoted |-> quoted]
        ELSE [authored |-> authored, signature |-> Onward(rest, signature),
              disclaimer |-> Onward(head, notice), quoted |-> quoted]

Segment(body) == SegmentText(NormalizeBody(body))

\* part is what stands in lines a to b, but for blank lines around it.
Passage(text, a, b, part) ==
  \E f \in a .. b + 1, l \in a - 1 .. b :
    part = SubSeq(text, f, l) /\ \A i \in a .. b : i \notin f .. l => IsBlank(text[i])

\* The segments are passages that follow each other and leave nothing out, history
\* starts where it starts first, and a mail without history has a text of its own.
IsWhole(text, s) ==
  LET end == Len(text) + 1
  IN  \E signature \in 1 .. end : \E notice \in signature .. end : \E quote \in notice .. end :
        /\ Passage(text, 1, signature - 1, s.authored)
        /\ Passage(text, signature, notice - 1, s.signature)
        /\ Passage(text, notice, quote - 1, s.disclaimer)
        /\ Passage(text, quote, Len(text), s.quoted)
        /\ \A i \in 1 .. quote - 1 : ~StartsQuote(text, i)
        /\ quote \in DOMAIN text => StartsQuote(text, quote)
        /\ s.authored = << >> /\ quote = end => text = << >>

-----------------------------------------------------------------------------
(* Chunks of the authored text.                                            *)

\* _paragraph_spans: first and last line of each run of lines.
ParagraphSpans(lines) ==
  LET text == {i \in DOMAIN lines : ~IsBlank(lines[i])}
      starts == Increasing({i \in text : i - 1 \notin text})
      End(i) == Max({j \in text : i .. j \subseteq text})
  IN  [k \in DOMAIN starts |-> <<starts[k], End(starts[k])>>]

\* count_tokens: a token has a line, a word of it and a place in the word.
TokensOf(line) == UNION {{w} \X (1 .. line.words[w]) : w \in DOMAIN line.words}
TokensIn(lines, first, last) == Cardinality(UNION {{i} \X TokensOf(lines[i]) : i \in first .. last})

\* text.split(), and " ".join of what is left of it.
Words(text) == FlattenSeq([i \in DOMAIN text |-> text[i].words])
OneLine(words) == <<[sees |-> "prose", words |-> words]>>

\* overlap_chunks: the windows of n words, as first and last word.
Windows(n, size, overlap) ==
  LET step == Max({1, size - overlap})
      Reaches(m) == (m - 1) * step + size >= n
  IN  [k \in 1 .. Min({m \in 1 .. n : Reaches(m)}) |->
        <<(k - 1) * step + 1, Min({n, (k - 1) * step + size})>>]

\* A chunk: the lines it is said to come from, and the words of them it has when it
\* is a window; a chunk that is no window has the lines as they are.
WholeLines(first, last) == [span |-> <<first, last>>, window |-> << >>]
Window(span, window) == [span |-> span, window |-> window]

TextOf(lines, c) ==
  LET source == SubSeq(lines, c.span[1], c.span[2])
  IN  IF c.window = << >> THEN source
      ELSE OneLine(SubSeq(Words(source), c.window[1], c.window[2]))

Flush(chunks, first, last) == IF first = 0 THEN chunks ELSE Append(chunks, WholeLines(first, last))

\* A paragraph with too many tokens by itself is cut into windows of so many words,
\* which keep the span of the whole paragraph.
Cut(lines, span) ==
  LET windows == Windows(Len(Words(SubSeq(lines, span[1], span[2]))), MaxTokens, Overlap)
  IN  [k \in DOMAIN windows |-> Window(span, windows[k])]

\* The first line of the next chunk: the trailing paragraphs of the last one that
\* have Overlap tokens at most, and the paragraph that did not fit.
Seed(lines, first, span) ==
  LET starts == {p[1] : p \in {q \in ToSet(ParagraphSpans(lines)) : first <= q[1] /\ q[1] <= span[1]}}
  IN  Min({i \in starts : TokensIn(lines, i, span[1] - 1) <= Overlap})

\* One paragraph of EmailAwareChunker.split; first = 0 when no chunk is open.
AddParagraph(lines, state, span) ==
  LET size == TokensIn(lines, span[1], span[2])
      fits == state.first = 0 \/ TokensIn(lines, state.first, state.last) + size <= MaxTokens
  IN  IF size > MaxTokens
        THEN [chunks |-> Flush(state.chunks, state.first, state.last) \o Cut(lines, span),
              first |-> 0, last |-> 0]
      ELSE IF fits
        THEN [state EXCEPT !.first = IF @ = 0 THEN span[1] ELSE @, !.last = span[2]]
      ELSE [chunks |-> Flush(state.chunks, state.first, state.last),
            first |-> Seed(lines, state.first, span), last |-> span[2]]

\* EmailAwareChunker.split.
Split(lines) ==
  IF Written(lines) = << >> THEN << >>
  ELSE IF TokensIn(lines, 1, Len(lines)) <= MaxTokens THEN <<WholeLines(1, Len(lines))>>
  ELSE LET spans == ParagraphSpans(lines)
           state[k \in 0 .. Len(spans)] ==
             IF k = 0 THEN [chunks |-> << >>, first |-> 0, last |-> 0]
             ELSE AddParagraph(lines, state[k - 1], spans[k])
           end == state[Len(spans)]
       IN  Flush(end.chunks, end.first, end.last)

Fields == <<"From", "To", "Cc", "Date", "Subject", "Thread-ID", "In-Reply-To">>
Heading(field) == [sees |-> field, words |-> <<1, 1>>]

\* build_embed_text: the fields there are, the context, and the text.
EmbedText(text, present, context) ==
  LET fields == Those(Fields, {i \in DOMAIN Fields : Fields[i] \in present})
      headers == [k \in DOMAIN fields |-> Heading(fields[k])]
  IN  (IF headers = << >> THEN << >> ELSE Append(headers, Blank))
        \o (IF context = << >> THEN << >> ELSE Append(context, Blank)) \o text

\* chunk_email.
ChunkEmail(body, present) ==
  LET text == Segment(body).authored
      chunks == Split(text)
  IN  [k \in DOMAIN chunks |->
        LET lines == TextOf(text, chunks[k])
        IN  [text |-> lines, span |-> chunks[k].span, embed |-> EmbedText(lines, present, << >>)]]

\* Some of the words of the text, in one piece and not too many, joined again.
IsWindow(text, part) ==
  \E f, g \in DOMAIN Words(text) :
    f <= g /\ g - f < MaxTokens /\ part = OneLine(SubSeq(Words(text), f, g))

\* A chunk begins and ends with text and ends what is embedded. It is either the lines
\* of its span as they are, with at most the overlap more tokens than the limit, or
\* one window of a single paragraph that is over the limit.
ChunkIsCut(text, c) ==
  LET source == SubSeq(text, c.span[1], c.span[2])
      tokens == TokensIn(text, c.span[1], c.span[2])
  IN  /\ c.text # << >> /\ ~IsBlank(c.text[1]) /\ ~IsBlank(c.text[Len(c.text)])
      /\ \/ c.text = source /\ tokens <= MaxTokens + Overlap
         \/ /\ tokens > MaxTokens /\ \A i \in DOMAIN source : ~IsBlank(source[i])
            /\ IsWindow(source, c.text)
      /\ IsSuffix(c.text, c.embed)

\* Line i is in a chunk as it is, or each word of its paragraph is in a window.
Holds(lines, chunks, i) ==
  \E k \in DOMAIN chunks :
    LET span == chunks[k].span
    IN  /\ i \in span[1] .. span[2]
        /\ chunks[k].window = << >> \/
             \A w \in DOMAIN Words(SubSeq(lines, span[1], span[2])) : \E l \in DOMAIN chunks :
               /\ chunks[l].span = span /\ chunks[l].window # << >>
               /\ w \in chunks[l].window[1] .. chunks[l].window[2]

\* What segment_email_body and chunk_email make of a body loses none of it.
MailIsKept(body, s, chunks) ==
  LET own == s.authored \o s.signature \o s.disclaimer
  IN  /\ Written(own \o s.quoted) = Written(body)
      /\ \A line \in ToSet(own) : line.sees \notin {"quoted", "original", "on wrote"}
      /\ IsWhole(NormalizeBody(body), s)
      /\ \A i \in DOMAIN s.authored : IsBlank(s.authored[i]) \/ Holds(s.authored, Split(s.authored), i)
      /\ \A k \in DOMAIN chunks : ChunkIsCut(s.authored, chunks[k])
      /\ \A i, j \in DOMAIN chunks :
           i < j => chunks[i].span[1] <= chunks[j].span[1] /\ chunks[i].span[2] <= chunks[j].span[2]

-----------------------------------------------------------------------------
(* Chunks of a page: page.words, and page.wide, the words that are not     *)
(* followed by exactly one space.                                          *)

\* page.text.find of words joined by single spaces: the first place, or 0.
FindWords(page, words) ==
  FirstOf({i \in DOMAIN page.words :
    /\ i + Len(words) - 1 <= Len(page.words)
    /\ SubSeq(page.words, i, i + Len(words) - 1) = words
    /\ (i .. i + Len(words) - 2) \cap page.wide = {}})

\* chunk_attachment, for one page; a page without words has no chunks.
ChunkPage(page) ==
  LET windows == IF page.words = << >> THEN << >>
                 ELSE Windows(Len(page.words), PageTokens, PageOverlap)
  IN  [k \in DOMAIN windows |->
        LET words == SubSeq(page.words, windows[k][1], windows[k][2])
            at == FindWords(page, words)
        IN  [words |-> words,
             span |-> IF at = 0 THEN << >> ELSE <<at, at + Len(words) - 1>>]]

\* Every word of a page is in a chunk, no chunk is empty or larger than its size,
\* and a span that is given holds the words of its chunk.
PageIsKept(page, chunks) ==
  /\ \A i \in DOMAIN page.words : \E k \in DOMAIN chunks :
       LET step == Max({1, PageTokens - PageOverlap})
       IN  i \in (k - 1) * step + 1 .. (k - 1) * step + Len(chunks[k].words)
  /\ \A k \in DOMAIN chunks :
       LET c == chunks[k]
       IN  /\ 1 <= Len(c.words) /\ Len(c.words) <= PageTokens
           /\ c.span # << >> => SubSeq(page.words, c.span[1], c.span[2]) = c.words
=============================================================================
