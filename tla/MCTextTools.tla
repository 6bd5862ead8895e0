---------------------------- MODULE MCTextTools -----------------------------
(* Short texts over the characters each tool tells apart.                   *)
EXTENDS TextTools

None == <<>>
Workload(steps, alphabet, most) == [steps |-> steps, alphabet |-> alphabet, most |-> most]
Once(tool, arg) == <<[tool |-> tool, arg |-> arg]>>
Pair(t, u) == <<[tool |-> t, arg |-> None], [tool |-> u, arg |-> None]>>
Keyed(t, x, u, y) == <<[tool |-> t, arg |-> x], [tool |-> u, arg |-> y]>>

Codecs ==
  {Workload(Pair(e, DecoderOf[e]), {65, 10, 0, 233, 8364}, 3) :
     e \in DOMAIN DecoderOf \ ({"morse-encode", "brainfuck-encode", "url-encode"} \cup EscapeTools)}
  \cup {Workload(Pair("url-encode", "url-decode"), {97, 37, 32, 10, 233, 8364}, 3),
        Workload(Pair("morse-encode", "morse-decode"), {101, 65, 47, 32, 10, 233}, 4),
        Workload(Pair("brainfuck-encode", "brainfuck-decode"), {1, 3, 4, 10}, 4),
        Workload(Pair("ascii85-encode", "ascii85-decode"), {0, 65, 10, 8364}, 5),
        Workload(Pair("unicode-escape", "unicode-unescape"), {92, 117, 65, 10, 233, 128512}, 3),
        Workload(Pair("json-escape", "json-unescape"), {34, 92, 117, 9, 47, 10, 8364, 128512}, 3),
        Workload(Pair("html-escape", "html-unescape"), {38, 60, 39, 108, 116, 59}, 4)}

\* Decoders on what no encoder wrote.
Decoders ==
  {Workload(Once("base64-decode", None), {81, 67, 61, 32}, 5),
   Workload(Once("base32-decode", None), {65, 50, 61, 32}, 4),
   Workload(Once("hex-decode", None), {52, 99, 51, 32, 103}, 4),
   Workload(Once("binary-decode", None), {48, 49, 32}, 4),
   Workload(Once("url-decode", None), {37, 67, 51, 57}, 5),
   Workload(Once("ascii85-decode", None), {117, 33, 122, 32}, 6),
   Workload(Once("unicode-unescape", None), {92, 120, 52, 110, 122}, 4),
   Workload(Once("json-unescape", None), {92, 34, 110, 47, 9}, 4),
   Workload(Once("brainfuck-decode", None), {43, 45, 91, 93, 62, 60, 44, 46}, 4)}

Ring == [i \in 1 .. 26 |-> 97 + ((i + 2) % 26)]
RingBack == [i \in 1 .. 26 |-> 97 + ((i + 22) % 26)]

Ciphers ==
  {Workload(Pair("atbash", "atbash"), {97, 77, 90, 46, 10}, 3),
   Workload(Pair("rot13", "rot13"), {97, 77, 90, 46, 10}, 3),
   Workload(Keyed("caesar-cipher", 3, "caesar-cipher", 23), {97, 121, 90, 46, 10}, 3),
   Workload(Keyed("caesar-cipher", 25, "caesar-brute-force", None), {97, 121, 90, 10}, 3),
   Workload(Once("caesar-cipher", 26), {97}, 1),
   Workload(Keyed("vigenere-encrypt", <<98, 90>>, "vigenere-decrypt", <<66, 122>>),
            {97, 121, 90, 46, 10}, 4),
   Workload(Once("vigenere-encrypt", <<98, 49>>), {97, 46}, 2),
   Workload(Keyed("substitution-cipher", Ring, "substitution-cipher", RingBack),
            {97, 121, 90, 46}, 3),
   Workload(Once("playfair-encrypt", <<120, 74, 97>>), {97, 88, 105, 74, 46, 10}, 4),
   Workload(Once("columnar-transposition", <<98, 65, 98>>), {97, 66, 32, 10}, 5),
   Workload(Pair("nato-phonetic", "nato-phonetic"), {97, 66, 57, 10}, 4),
   Workload(Pair("bacon-cipher", "bacon-cipher"), {65, 73, 117, 32, 10}, 5)}
  \cup {Workload(Keyed("rail-fence-encrypt", r, "rail-fence-decrypt", r), {97, 66, 10}, 6) :
          r \in {1, 2, 3}}

Separated == {"snake-case", "kebab-case", "dot-case", "path-case"}
Names ==
  {Workload(Pair(a, b), {97, 65, 66, 49, 95, 10}, 4) :
     a \in Separated \cup {"train-case"}, b \in Separated}
OtherCases ==
  {Workload(Once(t, None), {97, 65, 32, 46, 10}, 2) : t \in CaseTools}

LineTexts(step) == Workload(step, {97, 65, 10}, 5)
LineTools ==
  {LineTexts(Once(t, None)) :
     t \in {"reverse", "reverse-lines", "number-lines", "sort-lines-asc", "sort-lines-desc",
            "sort-by-length", "remove-duplicate-lines", "line-frequency"}}
  \cup {LineTexts(Once("shuffle-lines", None)),
        Workload(Once("sort-numeric", None), {97, 49, 50, 45, 10}, 5)}
  \cup {LineTexts(Once("pad-lines", a)) : a \in {"left", "right", "center"}}
  \cup {LineTexts(Once(t, [pattern |-> p, caseSensitive |-> c])) :
          t \in {"filter-lines", "remove-lines"}, p \in {<<97>>, <<65>>}, c \in BOOLEAN}
  \cup {Workload(Once("split-to-lines", d), {97, 44, 32}, 4) : d \in {<<>>, <<44>>, <<44, 97>>}}
  \cup {Workload(Once("join-lines", <<44>>), {97, 32, 10}, 4),
        Workload(Once("wrap-lines", <<<<60>>, <<62>>>>), {97, 10}, 4),
        Workload(Once("truncate-lines", 5), {97, 10}, 7),
        Workload(Once("extract-nth-lines", <<2, 1>>), {97, 98, 10}, 5)}

Settling == CleanTools \ {"normalize-punctuation", "strip-html", "strip-emoji", "strip-urls",
                          "toggle-smart-quotes"}
Cleanups ==
  {Workload(Pair(t, t), {97, 32, 10, 13, 49, 64}, 4) : t \in Settling}
  \cup {Workload(Pair("toggle-smart-quotes", "toggle-smart-quotes"), {97, 34, 39, 45, 46}, 5),
        Workload(Once("normalize-punctuation", None), {97, 32, 40, 41, 46, 44}, 4),
        Workload(Pair("strip-emoji", "strip-emoji"), {97, 32, Emoji}, 5),
        Workload(Pair("strip-urls", "strip-urls"), {97, 32, 10, Scheme, Www}, 5),
        Workload(Pair("strip-html", "strip-html"),
                 {97, 10, HeadStart, HeadEnd, ScriptStart, ScriptEnd, OtherTag}, 4)}

Tables ==
  {Workload(Once("csv-to-table", None), {97, 44, 32, 10}, 6),
   Workload(Once("sql-insert-gen", None), {97, 49, 44, 39, 10}, 5)}

Prose(step) == Workload(step, {97, 66, 46, 32, 10}, 5)
Formats == {"paragraph", "bullets", "numbered", "paragraph-bullets", "tldr", "headings"}
OfflineAnswers ==
  {Workload(Once("change-format", f), {97, 46, 32}, 7) : f \in Formats}
  \cup {Prose(Once(t, None)) : t \in {"summarize", "fix-grammar", "shorten-for-tweet"}}
  \cup {Workload(Once("rewrite-email", None), {97, 32, 10}, 4),
        Workload(Once("summarize", None), {97, 46, 32}, 8),
        Workload(Once("analyze-sentiment", None),
                 {EmotionWord(e, 1)[1] : e \in {1, 2, 10}} \cup {EmotionWord(3, 2)[1], 32}, 5),
        Workload(Once("translate", None), {97}, 1)}

MCWorkloads ==
  Codecs \cup Decoders \cup Ciphers \cup Names \cup OtherCases \cup LineTools \cup Cleanups
    \cup Tables \cup OfflineAnswers
=============================================================================
