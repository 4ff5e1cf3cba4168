------------------------------ MODULE Dialogue ------------------------------
(***************************************************************************)
(* From what is said in a session to the question that is searched for:    *)
(* rag/memory.py fills the session's slots from questions, hits and         *)
(* answers, rag/rewrite.py replaces what a question leaves out. A text is a *)
(* sequence of words in small letters, a slot a text, empty when not set.   *)
(* Of the slots those are kept that the rewriter's rules read; a hit is     *)
(* [name, date, subject], name << >> in a mail.                             *)
(***************************************************************************)
EXTENDS Integers, Sequences, SequencesExt, FiniteSetsExt

CONSTANTS
  Parts(_),        \* the pieces of a word that are looked for, the word itself one
  Stem(_),         \* a file's name up to its first dot
  Files,           \* words that end like a file
  MaxQueryWords    \* the length a model's rewrite may have

ASSUME DialogueAssumption == MaxQueryWords \in Nat \ {0}

Slots == {"correction", "focus", "answerFocus", "attachment", "subject", "decision",
          "comparison", "intent"}

\* A new session's memory, and that of one whose thread is switched or reset.
NoMemory == [slot \in Slots \cup {"files"} |-> << >>]

Set(value) == value # << >>
FirstSet(values) == LET set == SelectSeq(values, Set) IN IF set = << >> THEN << >> ELSE set[1]

Mentions(text, pieces) == \E i \in DOMAIN text : Parts(text[i]) \cap pieces # {}
StartsWith(text, phrases) == \E phrase \in phrases : IsPrefix(phrase, text)
After(text, n) == SubSeq(text, n + 1, Len(text))

-----------------------------------------------------------------------------
(* What a question says.                                                   *)

Meant == {<<"no,", "i", "meant">>, <<"i", "meant">>}
Changes == {"compare", "difference", "changed", "draft", "final"}

\* _is_follow_up.
IsFollowUp(text) ==
  \/ Len(text) > 1 /\ text[1] = "and"
  \/ StartsWith(text, Meant \cup {<<word, "about">> : word \in {"what", "when", "who"}})

\* detect_intent: the first of these that a piece of the text belongs to.
Intents ==
  <<<<"comparison", Changes>>, <<"instructions", {"instruction"}>>, <<"topic", {"topic"}>>,
    <<"audience", {"audience"}>>, <<"deadline", {"deadline", "due"}>>,
    <<"company", {"company"}>>, <<"territories", {"territor"}>>, <<"month", {"month"}>>,
    <<"metadata", {"from", "to", "cc", "subject"}>>, <<"time", {"when", "date", "sent"}>>>>

DetectIntent(text) ==
  LET found == SelectSeq(Intents, LAMBDA intent :
                 \/ Mentions(text, intent[2])
                 \/ intent[1] = "company" /\ \E i \in DOMAIN text :
                      IsPrefix(<<"who", "is", "requesting">>, After(text, i - 1)))
  IN  IF found = << >> THEN <<"general">> ELSE <<found[1][1]>>

\* The pattern of a file name takes in the words before it, up to a comma.
NamesIn(text) ==
  LET first == IF StartsWith(text, {<<"no,">>}) THEN 2 ELSE 1
      files == {i \in first .. Len(text) : text[i] \in Files}
  IN  IF files = {} THEN << >> ELSE <<SubSeq(text, first, Max(files))>>

\* _dedupe_keep_order: a name known already keeps its place.
Remember(names, more) ==
  FoldLeft(LAMBDA known, name : IF Contains(known, name) THEN known ELSE Append(known, name),
           names, more)

LastNamed(files, ending) ==
  LET ended == SelectSeq(files, LAMBDA name : ending \in Parts(name[Len(name)]))
  IN  IF ended = << >> THEN << >> ELSE ended[Len(ended)]

Retold == {<<"earlier", "attachment">>, <<"earlier", "email">>,
           <<"latest", "attachment">>, <<"final", "version">>}

\* detect_correction.
Correction(text, files) ==
  LET corrects == {p \in Meant \cup {<<"not", "that">>} : IsStrictPrefix(p, text)}
  IN  IF corrects # {} THEN After(text, Len(CHOOSE p \in corrects : TRUE))
      ELSE IF text # << >> /\ text[1] = "the" /\ Tail(text) \in Retold THEN Tail(text)
      ELSE IF Mentions(text, {"pdf"})
        THEN IF Set(LastNamed(files, "pdf")) THEN LastNamed(files, "pdf") ELSE <<"pdf">>
      ELSE IF Mentions(text, {"docx"}) THEN LastNamed(files, "docx")
      ELSE << >>

\* "what were the ... about": what stands between, from the first place it fits.
Between(text, phrase) ==
  LET starts == {i \in DOMAIN text : IsPrefix(phrase, After(text, i - 1)) /\ i + Len(phrase) < Len(text)}
  IN  IF starts = {} \/ Last(text) # "about" THEN << >>
      ELSE SubSeq(text, Min(starts) + Len(phrase), Len(text) - 1)

Documents == {"attachment", "email", "pdf", "docx", "document"}
AboutTerritories ==
  {<<"which", "territories", "are", "mentioned">>,
   <<"which", "territories", "are", "mentioned", "in", "the", "attachment">>}

\* extract_focus: of a question of a known form, or what follows its first "about".
ExtractFocus(text) ==
  LET document == {kind \in Documents : IsSuffix(<<"what", "does", "the", kind, "say">>, text)}
      about == {i \in DOMAIN text : text[i] \in {"about", "regarding", "for"} /\ i < Len(text)}
      known == FirstSet(<<Between(text, <<"what", "were", "the">>), Between(text, <<"what", "was", "the">>),
                          SetToSeq(document),
                          IF \E form \in AboutTerritories : IsSuffix(form, text)
                            THEN <<"territories">> ELSE << >> >>)
      leans == Len(text) > 1 /\ StartsWith(text, {<<"and">>, <<"when">>, <<"who">>, <<"what", "about">>})
  IN  IF Set(known) THEN known
      ELSE IF leans \/ about = {} THEN << >>
      ELSE After(text, Min(about))

\* update_from_user_text.
HearQuestion(memory, text) ==
  LET follows == IsFollowUp(text)
      intent == DetectIntent(text)
      files == Remember(memory.files, NamesIn(text))
      correction == Correction(text, files)
      focus == ExtractFocus(text)
  IN  [memory EXCEPT
        !.files = files,
        !.intent = IF follows /\ intent \in {<<"time">>, <<"general">>} /\ Set(@) THEN @ ELSE intent,
        !.comparison = IF Mentions(text, Changes) THEN text ELSE @,
        !.correction = IF Set(correction) THEN correction ELSE @,
        !.focus =
          IF Set(correction) THEN correction
          ELSE IF follows
            THEN FirstSet(<<memory.correction, memory.answerFocus, memory.attachment, memory.subject, @>>)
          ELSE IF Set(focus) THEN focus ELSE @]

-----------------------------------------------------------------------------
(* What the search and the answer add.                                     *)

\* update_from_hits.
LearnHits(memory, hits) ==
  LET named == SelectSeq(hits, LAMBDA hit : Set(hit.name))
      newest == CHOOSE i \in DOMAIN named :
                  /\ \A j \in DOMAIN named : named[j].date <= named[i].date
                  /\ \A j \in 1 .. i - 1 : named[j].date < named[i].date
      withFile == IF named = << >> THEN memory
                  ELSE [memory EXCEPT
                          !.attachment = named[newest].name,
                          !.focus = named[newest].name,
                          !.files = Remember(@, [i \in DOMAIN named |-> named[i].name])]
  IN  IF hits = << >> \/ ~Set(hits[1].subject) THEN withFile
      ELSE [withFile EXCEPT !.subject = hits[1].subject,
                            !.focus = IF Set(@) THEN @ ELSE hits[1].subject]

Decisions == {"approved", "rejected", "finalized", "signed off", "selected"}
Labels == {"instructions:", "topic:", "audience:", "company:", "territories:", "deadline:",
           "from:", "to:", "cc:", "subject:"}

\* Up to the first full stop, which a file's name has too.
FirstClause(answer) ==
  LET stops == {i \in DOMAIN answer : answer[i] = "." \/ answer[i] \in Files}
      end == Min(stops)
  IN  IF stops = {} THEN answer
      ELSE SubSeq(answer, 1, end - 1) \o (IF answer[end] = "." THEN << >> ELSE <<Stem(answer[end])>>)

\* extract_answer_focus.
AnswerFocus(answer) ==
  IF answer = << >> \/ StartsWith(answer, {<<"i", "could", "not", "confirm">>}) THEN << >>
  ELSE IF answer[1] \in Labels /\ Len(answer) > 1 THEN Tail(answer)
  ELSE FirstClause(answer)

\* update_from_answer.
LearnAnswer(memory, answer) ==
  LET decisions == SelectSeq(answer, LAMBDA word : word \in Decisions)
      focus == AnswerFocus(answer)
      decided == IF decisions = << >> THEN memory ELSE [memory EXCEPT !.decision = <<decisions[1]>>]
  IN  IF Set(focus) THEN [decided EXCEPT !.answerFocus = focus, !.focus = focus] ELSE decided

-----------------------------------------------------------------------------
(* The rewriter.                                                           *)

Pronouns == {"it", "that", "this", "those"}

Spelled(word) ==
  CASE word = "earlier" -> <<"earlier", "version">>
    [] word = "previous" -> <<"previous", "message">>
    [] word = "latest" -> <<"latest", "version">>
    [] word = "final" -> <<"final", "version">>
    [] OTHER -> <<word>>

InPlaceOf(words, text, meant) ==
  FlattenSeq([i \in DOMAIN text |-> IF text[i] \in words THEN meant ELSE <<text[i]>>])

\* Mutant: what was last talked about comes before what was corrected.
FocusFirst(memory, thread) ==
  FirstSet(<<memory.focus, memory.answerFocus, memory.attachment, memory.subject, memory.decision,
             memory.comparison, thread>>)

\* What "it" is; the thread's name is never empty.
Target(memory, thread) ==
  FirstSet(<<memory.correction, memory.focus, memory.answerFocus, memory.attachment,
             memory.subject, memory.decision, memory.comparison, thread>>)

\* The meeting of the demonstration's thread has a rule of its own.
AsksFerc(text, memory) ==
  /\ text = <<"and", "when">>
  /\ Mentions(memory.subject, {"instruction"})
  /\ Mentions(memory.focus \o memory.answerFocus \o memory.subject, {"ferc"})

\* _rule_based_rewrite.
RuleBasedRewrite(text, memory, thread) ==
  LET target == Target(memory, thread)
      place == FirstSet(<<memory.subject, thread>>)
      resolved == InPlaceOf(Pronouns, text, target)
      dated == FlattenSeq([i \in DOMAIN resolved |-> Spelled(resolved[i])])
  IN  IF AsksFerc(text, memory)
        THEN <<"when", "was", "the", "ferc", "meeting", "mentioned", "in">> \o memory.subject
      ELSE IF text = <<"and", "when">> /\ memory.intent = <<"deadline">>
        THEN <<"when", "is", "the", "deadline", "for">> \o target
      ELSE IF text = <<"and", "when">>
        THEN <<"when", "was">> \o target \o <<"mentioned", "in">> \o place
      ELSE IF text = <<"compare", "it">>
        THEN <<"compare">> \o target \o <<"earlier", "draft", "versus", "final", "version">>
      ELSE IF text = <<"and", "who">>
        THEN <<"who", "is", "associated", "with">> \o target \o <<"in">> \o place
      ELSE dated \o (IF Set(memory.correction) THEN <<"focus", "on">> \o memory.correction ELSE << >>)

Markers == {"question:", "memory:", "rewrite:", "user:"}

\* _is_usable_rewrite; a provider that is not there, fails or says nothing gives << >>.
IsUsable(suggested, text) ==
  /\ suggested # << >> /\ suggested # text
  /\ ToSet(suggested) \cap Markers = {}
  /\ Len(suggested) <= MaxQueryWords

Anchors == <<"instructions", "topic", "audience", "deadline", "due", "company", "territories", "month",
             "hotel", "from", "to", "cc", "subject", "attachment", "email", "pdf">>

\* A pattern of INTENT_ANCHORS looks for whole words; a dot in a name ends one.
Asks(text, anchor) ==
  \/ \E i \in DOMAIN text : text[i] = anchor \/ (text[i] \in Files /\ anchor = "pdf" /\ "pdf" \in Parts(text[i]))
  \/ anchor = "instructions" /\ Contains(text, "instruction")
  \/ anchor = "territories" /\ Contains(text, "territory")

\* Mutant: the model's words are searched for as they are.
AsSuggested(text, suggested) == suggested

\* _preserve_intent_anchors.
PreserveIntentAnchors(text, suggested) ==
  SelectSeq(Anchors, LAMBDA anchor : Asks(text, anchor) /\ ~Mentions(suggested, {anchor})) \o suggested

\* QueryRewriter.rewrite: the local model's rewrite, or the cloud's, or the rules'.
Rewrite(text, memory, thread, medha, gemini) ==
  IF IsUsable(medha, text) THEN PreserveIntentAnchors(text, medha)
  ELSE IF IsUsable(gemini, text) THEN PreserveIntentAnchors(text, gemini)
  ELSE RuleBasedRewrite(text, memory, thread)

-----------------------------------------------------------------------------
(* A session.                                                              *)

\* Mutant: switching the thread forgets the turns only.
KeepMemory(memory) == memory

\* switch_thread and reset.
Cleared(memory) == NoMemory

\* A turn of ask: question, search and answer; or a reset.
TakeTurn(memory, turn) ==
  IF turn.reset THEN Cleared(memory)
  ELSE LearnAnswer(LearnHits(HearQuestion(memory, turn.text), turn.hits), turn.answer)

MemoryAfter(turns) == FoldLeft(TakeTurn, NoMemory, turns)
=============================================================================
