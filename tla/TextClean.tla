----------------------------- MODULE TextClean ------------------------------
(* The cleanup and cleaning tools of text_service.py.                       *)
EXTENDS Text

Blank == {9, 11, 12, Space}
Quote == 34
Apostrophe == 39
Dot == 46

\* Each run of characters of the set becomes one space.
Squeeze(set, s) ==
  FoldLeft(LAMBDA r, i : IF s[i] \notin set THEN Append(r, s[i])
                         ELSE IF i > 1 /\ s[i - 1] \in set THEN r
                         ELSE Append(r, Space), <<>>, [i \in DOMAIN s |-> i])

Without(set, s) == SelectSeq(s, LAMBDA c : c \notin set)

ExtraSpacesLine(s) == JoinWords(Words(s))
AllSpacesLine(s)   == Without(Blank, s)
RemoveLineBreaks(s) == Strip(Squeeze({10, 13}, s))
NormalizeWhitespace(s) == Squeeze(Whitespace \ {Newline}, s)
StripNonAscii(s) == SelectSeq(s, LAMBDA c : c < 128)
StripNumbers(s) == Strip(Squeeze({Space}, Without(Digits, s)))
StripEmails(s) == JoinWords(SelectSeq(Words(s), LAMBDA w : ~Contains(w, 64)))
TrimLines(s) == JoinLines(Map(Strip, SplitLines(s)))
StripEmptyLines(s) == JoinLines(SelectSeq(SplitLines(s), LAMBDA l : ~IsBlank(l)))

FixLineEndings(s) ==
  Map(LAMBDA c : IF c = 13 THEN 10 ELSE c,
      KeepAt(LAMBDA i : ~(i > 1 /\ s[i] = 10 /\ s[i - 1] = 13), s))

(* strip_html, strip_emoji, strip_urls, remove_accents: a tag, an emoji or   *)
(* the prefix of an address is one symbol.                                   *)
HeadStart   == 3001
HeadEnd     == 3002
ScriptStart == 3003
ScriptEnd   == 3004
OtherTag    == 3005
Emoji       == 3006
Scheme      == 3007   \* "https://"
Www         == 3008   \* "www."
Tags == HeadStart .. OtherTag

\* _skip_depth
HtmlDepth(depth, tag) ==
  CASE tag \in {HeadStart, ScriptStart} -> depth + 1
    [] tag \in {HeadEnd, ScriptEnd} /\ depth > 0 -> depth - 1
    [] OTHER -> depth

\* Within a script the parser sees no tag but its end.
HtmlData(s) ==
  LET step(r, c) ==
        IF c \in Tags /\ (r.script => c = ScriptEnd)
        THEN [r EXCEPT !.depth = HtmlDepth(@, c), !.script = c = ScriptStart]
        ELSE IF r.depth = 0 THEN [r EXCEPT !.fed = Append(@, c)] ELSE r
  IN FoldLeft(step, [depth |-> 0, script |-> FALSE, fed |-> <<>>], s).fed

\* "\n\s*\n+" becomes two line ends.
NarrowGaps(s) ==
  LET blank(i, j) == \A k \in i .. j : s[k] \in Whitespace
      between(i) == /\ \E j \in 1 .. i - 1 : s[j] = Newline /\ blank(j, i)
                    /\ \E j \in i + 1 .. Len(s) : s[j] = Newline /\ blank(i, j)
  IN KeepAt(LAMBDA i : ~between(i), s)

StripHtml(s) == Strip(NarrowGaps(HtmlData(s)))

StripEmoji(s) == Strip(Squeeze({Space}, Without({Emoji}, s)))

\* An address is a prefix and every character up to the next white space.
DropAfter(prefix, s) ==
  LET within(i) == \E j \in 1 .. i : s[j] = prefix /\ j < Len(s)
                                     /\ \A k \in j .. (IF i = j THEN j + 1 ELSE i) :
                                          s[k] \notin Whitespace
  IN KeepAt(LAMBDA i : ~within(i), s)
StripUrls(s) == Strip(Squeeze({Space}, DropAfter(Www, DropAfter(Scheme, s))))

RemoveAccents(s) ==
  Map(LAMBDA c : CASE c = 233 -> 101 [] c = 201 -> 69 [] OTHER -> c, s)

\* Characters of category Cf: soft hyphen, zero-width and direction marks, BOM.
Invisible == {173, 65279} \cup 8203 .. 8207 \cup 8234 .. 8238
StripInvisible(s) == Without(Invisible, s)

(* toggle_smart_quotes                                                      *)
CurlySingle == {8216, 8217}
CurlyDouble == {8220, 8221}

\* Variant: a dash comes back as one hyphen.
Straighten_OneHyphen(c) ==
  CASE c \in CurlySingle -> <<Apostrophe>>
    [] c \in CurlyDouble -> <<Quote>>
    [] c \in {8211, 8212} -> <<45>>
    [] c = 8230 -> <<Dot, Dot, Dot>>
    [] OTHER -> <<c>>

Straighten(c) ==
  CASE c \in CurlySingle -> <<Apostrophe>>
    [] c \in CurlyDouble -> <<Quote>>
    [] c = 8211 -> <<45>>
    [] c = 8212 -> <<45, 45>>
    [] c = 8230 -> <<Dot, Dot, Dot>>
    [] OTHER -> <<c>>

\* The quotes of one kind open and close in turn, those that pass the test aside.
Curl(s, quote, open, close, Aside(_)) ==
  LET before(i) == Cardinality({j \in 1 .. i - 1 : s[j] = quote /\ ~Aside(j)}) IN
  [i \in DOMAIN s |->
    IF s[i] # quote THEN s[i]
    ELSE IF Aside(i) \/ before(i) % 2 = 1 THEN close ELSE open]

Within(s, i) == i > 1 /\ i < Len(s) /\ IsAlpha(s[i - 1]) /\ IsAlpha(s[i + 1])

\* Every three dots, from the left, are one ellipsis.
RunBefore(s, i) == Cardinality({j \in 1 .. i : \A k \in j .. i : s[k] = s[i]})
RunOf(s, i) == RunBefore(s, i) +
               Cardinality({j \in i + 1 .. Len(s) : \A k \in i .. j : s[k] = s[i]})

Ellipses(s) ==
  LET whole(i) == s[i] = Dot /\ RunBefore(s, i) <= 3 * (RunOf(s, i) \div 3) IN
  FlattenSeq([i \in DOMAIN s |->
    IF ~whole(i) THEN <<s[i]>> ELSE IF RunBefore(s, i) % 3 = 0 THEN <<8230>> ELSE <<>>])

\* Two hyphens, and no third next to them, are a dash.
Dashes(s) ==
  FlattenSeq([i \in DOMAIN s |->
    IF s[i] # 45 \/ RunOf(s, i) # 2 THEN <<s[i]>>
    ELSE IF RunBefore(s, i) = 1 THEN <<8212>> ELSE <<>>])

SmartQuotes(s) ==
  LET none(i) == FALSE
      doubles == Curl(s, Quote, 8220, 8221, none)
      inWord(i) == Within(doubles, i)
  IN Dashes(Ellipses(Curl(doubles, Apostrophe, 8216, 8217, inWord)))

IsSmart(s) == ToSet(s) \cap (CurlySingle \cup CurlyDouble) # {}

ToggleSmartQuotes(s) ==
  IF IsSmart(s) THEN FlattenSeq(Map(Straighten, s)) ELSE SmartQuotes(s)

(* normalize_punctuation: no white space before a closing mark or after a   *)
(* "(", a space after a mark, and two dots become one.                      *)
Marks == {33, 44, Dot, 58, 59, 63}
DropBlanks(s) ==
  LET solid == {i \in DOMAIN s : s[i] \notin {9, 10, 13, Space}}
  IN IF solid = {} THEN <<>> ELSE SubSeq(s, 1, Max(solid))

TightenMarks(s) ==
  FoldLeft(LAMBDA r, c :
      LET buf == IF c \in Marks \cup {41} THEN DropBlanks(r.buf) ELSE r.buf IN
      IF r.skip /\ c \in {9, 10, 13, Space} THEN [r EXCEPT !.buf = buf]
      ELSE [buf |-> Append(buf, c), skip |-> c = 40],
    [buf |-> <<>>, skip |-> FALSE], s).buf

\* A match takes the mark and the next character: matches do not overlap.
SpaceMarks(s) ==
  FoldLeft(LAMBDA r, i :
      IF ~r.used /\ i < Len(s) /\ s[i] \in Marks
           /\ s[i + 1] \notin Whitespace \cup Marks \cup Digits \cup {34, 39, 41, 93, 125}
      THEN [out |-> r.out \o <<s[i], Space>>, used |-> TRUE]
      ELSE [out |-> Append(r.out, s[i]), used |-> FALSE],
    [out |-> <<>>, used |-> FALSE], [i \in DOMAIN s |-> i]).out

\* Of a run of dots the last two become one: "(?!\.)" looks ahead only.
CollapseDots(s) ==
  KeepAt(LAMBDA i : ~(s[i] = Dot /\ RunOf(s, i) >= 2 /\ RunBefore(s, i) = RunOf(s, i)), s)

NormalizePunctuation(s) == CollapseDots(SpaceMarks(TightenMarks(s)))

(* The registered tools of categories "cleanup" and "cleaning".             *)
RunClean(tool, s) ==
  CASE tool = "remove-extra-spaces"   -> PerLine(ExtraSpacesLine, s)
    [] tool = "remove-all-spaces"     -> PerLine(AllSpacesLine, s)
    [] tool = "remove-line-breaks"    -> RemoveLineBreaks(s)
    [] tool = "strip-html"            -> StripHtml(s)
    [] tool = "remove-accents"        -> RemoveAccents(s)
    [] tool = "strip-invisible"       -> StripInvisible(s)
    [] tool = "strip-emoji"           -> StripEmoji(s)
    [] tool = "strip-urls"            -> StripUrls(s)
    [] tool = "toggle-smart-quotes"   -> ToggleSmartQuotes(s)
    [] tool = "normalize-whitespace"  -> NormalizeWhitespace(s)
    [] tool = "strip-non-ascii"       -> StripNonAscii(s)
    [] tool = "fix-line-endings"      -> FixLineEndings(s)
    [] tool = "trim-lines"            -> TrimLines(s)
    [] tool = "strip-empty-lines"     -> StripEmptyLines(s)
    [] tool = "strip-emails"          -> StripEmails(s)
    [] tool = "normalize-punctuation" -> NormalizePunctuation(s)
    [] tool = "strip-numbers"         -> StripNumbers(s)
=============================================================================
