------------------------------ MODULE AiOffline -----------------------------
(***************************************************************************)
(* What the AI tools of ai_service.py answer when no model provider does:   *)
(* the fallback of each tool, on the text of its request.                   *)
(***************************************************************************)
EXTENDS Text

CONSTANTS TweetCut,    \* characters of a tweet before its dots, 277 in the code
          SubjectCut   \* characters of an email's subject, 60 in the code

ASSUME CutAssumption == TweetCut \in Nat \ {0} /\ SubjectCut \in Nat

(* Phrases, one element each.                                               *)
Subject  == 1200001
Greeting == 1200002
Regards  == 1200003
TlDr     == 1200004
Section(i) == 1200100 + i
Ordinal(i) == 1200200 + i
Dots == <<46, 46, 46>>

FirstOf(s, n) == SubSeq(s, 1, IF Len(s) < n THEN Len(s) ELSE n)

\* re.split(r"(?<=[.!?])\s+", text.strip()): the white space that follows a mark.
SentenceMarks == {46, 33, 63}
InGap(s, i) ==
  s[i] \in Whitespace
    /\ \E j \in 2 .. i : s[j - 1] \in SentenceMarks /\ \A k \in j .. i : s[k] \in Whitespace
Sentences(text) ==
  LET s == Strip(text)
      cut == [i \in DOMAIN s |-> IF InGap(s, i) THEN -1 ELSE s[i]]
  IN NonEmpty(Map(Strip, Pieces(cut, LAMBDA c : c = -1)))

\* The last word goes, whole or cut, unless it is the only one.
TweetFallback(text) ==
  LET cut == FirstOf(text, TweetCut)
      spaces == {i \in DOMAIN cut : i > 1 /\ cut[i] = Space}
  IN (IF spaces = {} THEN cut ELSE SubSeq(cut, 1, Max(spaces) - 1)) \o Dots

EmailFallback(text) ==
  LET body == Strip(text)
  IN <<Subject>> \o FirstOf(Lines(body)[1], SubjectCut)
       \o <<Newline, Newline, Greeting, Newline, Newline>> \o body
       \o <<Newline, Newline, Regards>>

SummarizeFallback(text) ==
  LET all == Sentences(text)
  IN JoinWords(FirstOf(all, 3)) \o (IF Len(all) > 3 THEN Dots ELSE <<>>)

\* The first character, and each small letter that follows a mark and white space.
GrammarFallback(text) ==
  [i \in DOMAIN text |->
    IF i = 1 \/ (text[i] \in AsciiLower /\ InGap(text, i - 1))
    THEN UpperChar(text[i]) ELSE text[i]]

(* The words of _EMOTION_KEYWORDS are numbers, so many for each emotion of   *)
(* the table; "looking forward" is two words and never found.                *)
Emotions == 1 .. 10
WordsOf == <<13, 12, 12, 12, 10, 10, 9, 11, 8, 9>>
EmotionWord(e, k) == <<1300000 + 100 * e + k>>
Keywords(e) == {EmotionWord(e, k) : k \in 1 .. WordsOf[e]}
PositiveEmotions == {1, 5, 7, 8, 9}
NegativeEmotions == {2, 3, 4, 6}

SentimentFallback(text) ==
  LET words == ToSet(Words(Lower(text)))
      count == [e \in Emotions |-> Cardinality(words \cap Keywords(e))]
      score(es) == SumFunctionOnSet(count, es)
      sentiment == CASE score(PositiveEmotions) > score(NegativeEmotions) -> 43
                     [] score(NegativeEmotions) > score(PositiveEmotions) -> 45
                     [] OTHER -> 48
      detected == SelectSeq([e \in Emotions |-> e], LAMBDA e : count[e] > 0)
  IN <<sentiment>> \o FirstOf(Sorted(LAMBDA e, f : count[e] > count[f], detected), 3)

\* Sections of three sentences.
FormatHeadings(sentences) ==
  LET sections == (Len(sentences) + 2) \div 3
      part(i) == SubSeq(sentences, 3 * i - 2,
                        IF 3 * i < Len(sentences) THEN 3 * i ELSE Len(sentences))
  IN JoinLines(FlattenSeq([i \in 1 .. sections |->
       <<<<Section(i)>>, JoinWords(part(i)), <<>>>>]))

Bullet(s) == <<42, Space>> \o s
FormatFallback(text, fmt) ==
  LET all == Sentences(text) IN
  CASE fmt = "bullets"  -> JoinLines(Map(Bullet, all))
    [] fmt = "numbered" -> JoinLines([i \in DOMAIN all |-> <<Ordinal(i), Space>> \o all[i]])
    [] fmt = "paragraph-bullets" ->
         IF Len(all) > 1
         THEN all[1] \o <<Newline, Newline>> \o JoinLines(Map(Bullet, Tail(all))) ELSE text
    [] fmt = "tldr" -> <<TlDr>> \o all[1] \o <<Newline, Newline>> \o text
    [] fmt = "headings" -> FormatHeadings(all)
    [] OTHER -> JoinWords(all)

(* _AI_HANDLERS: ten tools have nothing to offer and answer 503, six are       *)
(* left to the keyword extractor, these have a fallback of their own, and      *)
(* the other 43 give the text back as it is.                                   *)
UnavailableTools == {"translate", "transliterate", "emojify", "detect-language", "paraphrase",
  "change-tone", "lengthen-text", "eli5", "proofread", "refactor-prompt"}
OfflineTools == {"shorten-for-tweet", "rewrite-email", "summarize", "fix-grammar",
                 "analyze-sentiment", "change-format"}

AiUnavailableFallback(text) == Raised
PassthroughFallback(text) == text

RunOffline(tool, text, arg) ==
  CASE tool = "shorten-for-tweet" -> TweetFallback(text)
    [] tool = "rewrite-email"     -> EmailFallback(text)
    [] tool = "summarize"         -> SummarizeFallback(text)
    [] tool = "fix-grammar"       -> GrammarFallback(text)
    [] tool = "analyze-sentiment" -> SentimentFallback(text)
    [] tool = "change-format"     -> FormatFallback(text, arg)
    [] tool \in UnavailableTools  -> AiUnavailableFallback(text)
    [] OTHER -> PassthroughFallback(text)
=============================================================================
