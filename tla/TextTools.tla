------------------------------ MODULE TextTools -----------------------------
(***************************************************************************)
(* A client of text-svc, and of ai-svc while it has no model provider,      *)
(* sends a text through a pipeline of tools: each request is validated, the *)
(* handler of its tool runs, and the result is the text of the next request.*)
(***************************************************************************)
EXTENDS TextCase, TextLines, TextClean, TextEscapes, TextCiphers, AiOffline

CONSTANT Workloads  \* records: the steps, and the characters and length of the text

VARIABLES
  work,      \* the workload
  original,  \* the text of the first request
  text,      \* the text of the next request, in the end the result
  done,      \* steps taken
  status     \* of the last response: "ok", or why the pipeline ended

vars == <<work, original, text, done, status>>

CaseTools == {"uppercase", "lowercase", "inversecase", "sentencecase", "titlecase",
  "upper-camel-case", "lower-camel-case", "snake-case", "kebab-case", "capitalize-words",
  "alternating-case", "inverse-word-case", "wide-text", "ap-title-case", "swap-word-case",
  "dot-case", "constant-case", "train-case", "path-case", "flat-case", "cobol-case",
  "strikethrough"}
CleanTools == {"remove-extra-spaces", "remove-all-spaces", "remove-line-breaks",
  "toggle-smart-quotes", "normalize-whitespace", "strip-non-ascii", "fix-line-endings",
  "trim-lines", "strip-empty-lines", "strip-emails", "normalize-punctuation",
  "strip-numbers", "strip-html", "strip-emoji", "strip-urls", "remove-accents",
  "strip-invisible"}
DecoderOf == [x \in {"base64-encode", "base32-encode", "hex-encode", "binary-encode",
                     "octal-encode", "decimal-encode", "url-encode", "morse-encode",
                     "brainfuck-encode", "ascii85-encode", "unicode-escape", "json-escape",
                     "html-escape"} |->
  CASE x = "base64-encode" -> "base64-decode"   [] x = "base32-encode" -> "base32-decode"
    [] x = "hex-encode" -> "hex-decode"         [] x = "binary-encode" -> "binary-decode"
    [] x = "octal-encode" -> "octal-decode"     [] x = "decimal-encode" -> "decimal-decode"
    [] x = "url-encode" -> "url-decode"         [] x = "morse-encode" -> "morse-decode"
    [] x = "brainfuck-encode" -> "brainfuck-decode"
    [] x = "ascii85-encode" -> "ascii85-decode" [] x = "unicode-escape" -> "unicode-unescape"
    [] x = "json-escape" -> "json-unescape"     [] x = "html-escape" -> "html-unescape"]
CodecTools == DOMAIN DecoderOf \cup {DecoderOf[x] : x \in DOMAIN DecoderOf}
EscapeTools == {"ascii85-encode", "ascii85-decode", "unicode-escape", "unicode-unescape",
  "json-escape", "json-unescape", "html-escape", "html-unescape"}
KeyTools == {"vigenere-encrypt", "vigenere-decrypt", "playfair-encrypt",
             "columnar-transposition"}
RailTools == {"rail-fence-encrypt", "rail-fence-decrypt"}
CipherTools == KeyTools \cup RailTools \cup {"atbash", "rot13", "caesar-cipher",
  "caesar-brute-force", "substitution-cipher", "nato-phonetic", "bacon-cipher"}
AiTools == OfflineTools \cup UnavailableTools
DataTools == {"csv-to-table", "sql-insert-gen"}

(* The results a handler may return; "shuffle-lines" returns any order.     *)
Results(step, s) ==
  CASE step.tool \in CaseTools   -> {RunCase(step.tool, s)}
    [] step.tool \in CleanTools  -> {RunClean(step.tool, s)}
    [] step.tool \in EscapeTools -> {RunEscape(step.tool, s)}
    [] step.tool \in CodecTools \ EscapeTools -> {RunCodec(step.tool, s)}
    [] step.tool \in CipherTools -> {RunCipher(step.tool, s, step.arg)}
    [] step.tool \in DataTools   -> {RunData(step.tool, s)}
    [] step.tool \in AiTools     -> {RunOffline(step.tool, s, step.arg)}
    [] step.tool = "shuffle-lines" -> {JoinLines(ls) : ls \in Shuffles(SplitLines(s))}
    [] OTHER -> {RunLines(step.tool, s, step.arg)}

\* The fields that the tool's request model adds to the text.
FieldsValid(step) ==
  CASE step.tool = "caesar-cipher" -> step.arg \in 1 .. 25
    [] step.tool \in RailTools -> step.arg \in 2 .. 10
    [] step.tool \in KeyTools -> Len(step.arg) \in 1 .. 100
    [] step.tool = "substitution-cipher" -> Len(step.arg) = 26
    [] step.tool = "truncate-lines" -> step.arg \in 5 .. 1000
    [] step.tool = "extract-nth-lines" -> step.arg[1] \in 2 .. 100 /\ step.arg[2] \in Nat
    [] step.tool \in {"filter-lines", "remove-lines"} -> Len(step.arg.pattern) \in 1 .. 200
    [] step.tool = "pad-lines" -> step.arg \in {"left", "right", "center"}
    [] OTHER -> TRUE

\* "Text must contain at least one non-whitespace character."
RequestValid(step, s) == ~IsBlank(s) /\ FieldsValid(step)

Init ==
  /\ work \in Workloads
  /\ original \in BoundedSeq(work.alphabet, work.most)
  /\ text = original
  /\ done = 0
  /\ status = "ok"

Step == work.steps[done + 1]

More == status = "ok" /\ done < Len(work.steps)

\* 422: nothing runs.
Refuse ==
  /\ More
  /\ ~RequestValid(Step, text)
  /\ status' = "refused"
  /\ UNCHANGED <<work, original, text, done>>

\* 200 with the result, 400 for a declared exception (503 from ai-svc), 500 for another.
Execute ==
  /\ More
  /\ RequestValid(Step, text)
  /\ \E result \in Results(Step, text) :
       IF result \in {Raised, Crashed}
       THEN /\ status' = IF result = Raised THEN "failed" ELSE "crashed"
            /\ UNCHANGED <<text, done>>
       ELSE /\ text' = result
            /\ done' = done + 1
            /\ UNCHANGED status
  /\ UNCHANGED <<work, original>>

Next == Refuse \/ Execute

Spec == Init /\ [][Next]_vars
-----------------------------------------------------------------------------
Tool(i) == work.steps[i].tool
Arg(i) == work.steps[i].arg
Finished == status = "ok" /\ done = Len(work.steps)
TwoSteps == Len(work.steps) = 2

(* What a decoder gives back: all of the text, but for Morse no small        *)
(* letters, unknown characters or repeated spaces; and the Brainfuck of a    *)
(* second line starts from the cell the first one left.                      *)
MorseWords(l) ==
  Words(SelectSeq(Upper(l), LAMBDA c : c = Space \/ c \in DOMAIN MorseMap))
Returned ==
  CASE Tool(1) = "morse-encode" -> Map(Words, Lines(text)) = Map(MorseWords, Lines(original))
    [] Tool(1) = "brainfuck-encode" -> Contains(original, Newline) \/ text = original
    [] OTHER -> text = original

\* What an encoder of text_service.py returns, its decoder turns back into the
\* text, for every text: no encoding is ambiguous, and none is refused.
DecodesBack ==
  TwoSteps /\ Tool(1) \in DOMAIN DecoderOf /\ Tool(2) = DecoderOf[Tool(1)] =>
    /\ status \notin {"failed", "crashed"}
    /\ Finished => Returned

(* Decryption on paper, for the ciphers the service only encrypts.          *)
PlayfairBack(s, key) ==
  LET square == Square(key)
      unpair(p) == CHOOSE q \in (AsciiUpper \X AsciiUpper) :
                     q[1] # 74 /\ q[2] # 74 /\ PlayfairPair(square, q) = p
  IN FlattenSeq(Map(unpair, Chunks(s, 2)))
ColumnarBack(s, key) ==
  LET rows == Len(s) \div Len(key)
      order == ColumnOrder(key)
      rank(c) == CHOOSE k \in DOMAIN order : order[k] = c
  IN [i \in DOMAIN s |-> s[rows * (rank(((i - 1) % Len(key)) + 1) - 1) + ((i - 1) \div Len(key)) + 1]]
BaconForm(l) ==
  Map(LAMBDA c : CASE c = 73 -> 74 [] c = 85 -> 86 [] OTHER -> c,
      SelectSeq(Upper(l), LAMBDA c : c \in AsciiUpper))

Deciphered ==
  CASE Tool(1) = "playfair-encrypt" ->
         PerLine(LAMBDA l : PlayfairBack(l, Arg(1)), text)
           = PerLine(LAMBDA l : FlattenSeq(Digrams(LettersOf(l))), original)
    [] Tool(1) = "columnar-transposition" ->
         PerLine(LAMBDA l : ColumnarBack(l, Arg(1)), text)
           = PerLine(LAMBDA l : PadTo(l, Len(Arg(1))), original)
    [] Tool(1) = "nato-phonetic" -> text = PerLine(Upper, original)
    [] Tool(1) = "bacon-cipher" -> Without({Space}, text) = PerLine(BaconForm, original)
    [] Tool(1) = "caesar-cipher" /\ Tool(2) = "caesar-brute-force" ->
         \A i \in DOMAIN Lines(original) :
           Lines(text)[26 * (i - 1) + Arg(1)]
             = Numeral(Arg(1)) \o <<58, Space>> \o Lines(original)[i]
    [] OTHER -> text = original

\* A text enciphered and deciphered is the text again: by the tool itself (Atbash,
\* ROT13, NATO, Bacon), by its counterpart with the same key (Vigenere, rail fence,
\* Caesar and its brute force), or on paper (Playfair, columnar transposition).
\* No text with a letter in it is enciphered to nothing.
CiphersInvert ==
  Tool(1) \in CipherTools =>
    /\ Finished => Deciphered
    /\ status = "refused" /\ done = 1 => ~\E i \in DOMAIN original : IsAlpha(original[i])

\* One naming convention turned into another gives what the text itself gives,
\* line by line: word boundaries survive a change of separator.
NamesAgree ==
  Finished /\ TwoSteps /\ Tool(1) \in CaseTools =>
    /\ text = RunCase(Tool(2), original)
    /\ Len(Lines(text)) = Len(Lines(original))

(* What the line tools keep.                                                *)
BagOfLines(ls) == [l \in ToSet(ls) |-> CountOf(l, ls)]
Matched(ls, arg) == SelectSeq(ls, LAMBDA l : LineMatches(l, arg.pattern, arg.caseSensitive))
IsOrdered(ls, Before(_, _)) == \A i, j \in DOMAIN ls : i < j => ~Before(ls[j], ls[i])

LinesKept(before, after) ==
  CASE Tool(1) \in {"sort-lines-asc", "sort-lines-desc", "sort-by-length", "sort-numeric",
                    "shuffle-lines", "reverse-lines"} ->
         BagOfLines(before) = BagOfLines(after)
    [] Tool(1) = "remove-duplicate-lines" ->
         /\ ToSet(before) = ToSet(after)
         /\ Cardinality(ToSet(after)) = Len(after)
    [] Tool(1) \in {"filter-lines", "remove-lines"} ->
         \* Each line is kept by exactly one of the two tools, whatever the case.
         LET other == IF Tool(1) = "filter-lines"
                      THEN RemoveLines(before, Arg(1).pattern, Arg(1).caseSensitive)
                      ELSE FilterLines(before, Arg(1).pattern, Arg(1).caseSensitive)
         IN /\ Len(NonEmpty(after)) + Len(NonEmpty(other)) = Len(NonEmpty(before))
            /\ ToSet(NonEmpty(after)) \cup ToSet(other) \subseteq ToSet(before)
            /\ Arg(1).caseSensitive \/ \A i, j \in DOMAIN before :
                 Lower(before[i]) = Lower(before[j]) =>
                   (before[i] \in ToSet(after) <=> before[j] \in ToSet(after))
    [] Tool(1) = "pad-lines" ->
         /\ \A i, j \in DOMAIN after : Len(after[i]) = Len(after[j])
         /\ Map(Strip, after) = Map(Strip, before)
    [] OTHER -> TRUE

(* What the AI tools keep without a model provider.                         *)
Letters(s) == SelectSeq(s, IsAlpha)
Again == RunOffline(Tool(1), text, Arg(1))
SentencesKept ==
  CASE Tool(1) = "change-format" ->
         /\ Letters(text) = (IF Arg(1) = "tldr" THEN Letters(Sentences(original)[1]) ELSE <<>>)
                              \o Letters(original)
         /\ Arg(1) = "paragraph" => \A f \in {"bullets", "numbered", "headings", "paragraph"} :
              RunOffline(Tool(1), text, f) = RunOffline(Tool(1), original, f)
    [] Tool(1) = "summarize" ->
         IsPrefix(Letters(text), Letters(original)) /\ Again = text
    [] Tool(1) = "fix-grammar" -> Lower(text) = Lower(original) /\ Again = text
    [] Tool(1) = "shorten-for-tweet" ->
         /\ IsPrefix(SubSeq(text, 1, Len(text) - Len(Dots)), original)
         /\ Len(text) <= TweetCut + Len(Dots)
    [] Tool(1) = "rewrite-email" -> Contained(Strip(original), text)
    [] Tool(1) = "analyze-sentiment" ->
         text = RunOffline(Tool(1), Reverse(original) \o <<Space>> \o original, Arg(1))
    [] OTHER -> TRUE

\* Sorting, shuffling and padding lose no line and invent none, sorted lines are in
\* order, duplicates go down to one, and "filter-lines" and "remove-lines" divide
\* the lines between them.  Without a model provider a change of format keeps the
\* sentences and their letters in order, and so does its own result; a summary is
\* their beginning and its own summary, grammar changes the case of letters only and
\* settles, a tweet is a beginning of the text, an email holds all of it, and the
\* order and number of its words do not change the sentiment.
LinesConserved ==
  Finished /\ done = 1 /\ Tool(1) \notin CaseTools \cup CleanTools \cup CodecTools
                                         \cup CipherTools \cup DataTools =>
    IF Tool(1) \in AiTools THEN SentencesKept ELSE
    LET before == SplitLines(original)
        after == Lines(text)
    IN /\ LinesKept(before, after)
       /\ Tool(1) = "sort-lines-asc" => IsOrdered(after, CaseFolded)
       /\ Tool(1) = "sort-lines-desc" => IsOrdered(Reverse(after), CaseFolded)

\* A cleaned text is clean: a cleanup tool applied to its own result changes
\* nothing more ("trim-lines" apart, which takes one final line end each time), and
\* the quotes it curls it straightens again.
CleanupSettles ==
  Finished /\ TwoSteps /\ Tool(1) \in CleanTools =>
    IF Tool(1) = "toggle-smart-quotes"
    THEN ~IsSmart(original) /\ IsSmart(RunClean(Tool(1), original)) => text = original
    ELSE LET once == RunClean(Tool(1), original)
         IN \/ Tool(1) = "trim-lines" /\ Last(once) = Newline
            \/ text = once

\* The values of a statement, its quotes in pairs; titles are not quoted.
QuotesClosed(l) ==
  LET values == KeepAt(LAMBDA i : \E j \in 1 .. i : l[j] = Values, l)
  IN Len(SelectSeq(values, LAMBDA c : c = Tick)) % 2 = 0

\* "csv-to-table" draws a rectangle with a line for each row, and a quote within a
\* cell never ends the SQL value that "sql-insert-gen" makes of it.
TablesHold ==
  Finished /\ Tool(1) \in DataTools =>
    LET ls == Lines(text) IN
    IF Tool(1) = "csv-to-table"
    THEN /\ Len(ls) = Len(CsvRows(original)) + 1
         /\ \A i \in DOMAIN ls : Len(ls[i]) = Len(ls[1])
    ELSE \A i \in DOMAIN ls : QuotesClosed(ls[i])
=============================================================================
