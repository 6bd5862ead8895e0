----------------------------- MODULE TextEscapes ----------------------------
(* The escaping tools of text_service.py: Ascii85, Unicode, JSON and HTML.   *)
EXTENDS TextCodecs

(* What is read at a position: how many characters, and what they stand for. *)
Token(size, out) == [size |-> size, out |-> out]
BadToken == Token(1, Raised)

\* s read from the left, one token after another.
Scanned(s, TokenAt(_)) ==
  LET step(r, i) ==
        IF r.skip > 0 THEN [r EXCEPT !.skip = @ - 1]
        ELSE LET t == TokenAt(i) IN [skip |-> t.size - 1, outs |-> Append(r.outs, t.out)]
      outs == FoldLeft(step, [skip |-> 0, outs |-> <<>>], Run(1, Len(s))).outs
  IN IF Contains(outs, Raised) THEN Raised ELSE FlattenSeq(outs)

(* Ascii85: four bytes are five digits in base 85, by long division.         *)
DividedBy85(bytes) ==
  FoldLeft(LAMBDA r, b : [quotient |-> Append(r.quotient, (256 * r.rest + b) \div 85),
                          rest |-> (256 * r.rest + b) % 85],
           [quotient |-> <<>>, rest |-> 0], bytes)
DigitsBase85(bytes) ==
  FoldLeft(LAMBDA r, k : LET d == DividedBy85(r.left)
                         IN [left |-> d.quotient, ds |-> <<d.rest>> \o r.ds],
           [left |-> bytes, ds |-> <<>>], Run(1, 5)).ds

\* Four bytes times 85 and a digit; the carry is what does not fit.
TimesBase85(r, d) ==
  FoldRight(LAMBDA b, x : [carry |-> (85 * b + x.carry) \div 256,
                           bytes |-> <<(85 * b + x.carry) % 256>> \o x.bytes],
            r.bytes, [carry |-> d, bytes |-> <<>>])
BytesBase85(ds) ==
  LET step(r, d) == LET x == TimesBase85(r, d) IN [x EXCEPT !.carry = @ + r.carry]
      r == FoldLeft(step, [carry |-> 0, bytes |-> Fill(0, 4)], ds)
  IN IF r.carry > 0 THEN Raised ELSE r.bytes

Zeros == 122  \* "z" is a group of four zero bytes

\* The last group is completed with zero bytes, and shortened by as many digits.
Ascii85EncodeLine(s) ==
  LET short == Short(Len(Utf8(s)), 4)
      groups == Chunks(Utf8(s) \o Fill(0, short), 4)
      code(j) == IF groups[j] = Fill(0, 4) /\ ~(j = Len(groups) /\ short > 0) THEN <<Zeros>>
                 ELSE Map(LAMBDA d : 33 + d, DigitsBase85(groups[j]))
      out == FlattenSeq([j \in DOMAIN groups |-> code(j)])
  IN SubSeq(out, 1, Len(out) - short)

\* Four "u" complete the last group, and its bytes go as it was short of digits.
Ascii85DecodeLine(s) ==
  LET step(r, c) ==
        CASE c \in 33 .. 117 /\ Len(r.digits) < 4 -> [r EXCEPT !.digits = Append(@, c - 33)]
          [] c \in 33 .. 117 /\ Len(r.digits) = 4 ->
               [r EXCEPT !.digits = <<>>,
                         !.groups = Append(@, BytesBase85(Append(r.digits, c - 33)))]
          [] c = Zeros -> [r EXCEPT !.bad = @ \/ r.digits # <<>>,
                                    !.groups = Append(@, Fill(0, 4))]
          [] c \in {9, 11, 13, Space} -> r
          [] OTHER -> [r EXCEPT !.bad = TRUE]
      r == FoldLeft(step, [digits |-> <<>>, groups |-> <<>>, bad |-> FALSE],
                    Strip(s) \o Fill(117, 4))
      bytes == FlattenSeq(r.groups)
  IN IF r.bad \/ Contains(r.groups, Raised) THEN Raised
     ELSE FromUtf8(SubSeq(bytes, 1, Len(bytes) - (4 - Len(r.digits))))

(* Escapes of n hexadecimal digits, after a backslash and a letter.          *)
Backslash == 92
SmallU == 117
LargeU == 85
SmallX == 120
HexOf(c, n) == Map(LAMBDA d : HexLower[d + 1], DigitsOf(c, 16, n))
EscapedAt(s, i, letter, n) ==
  /\ i + 1 + n <= Len(s)
  /\ s[i] = Backslash /\ s[i + 1] = letter
  /\ \A j \in i + 2 .. i + 1 + n : IsHex(s[j])
CodeAt(s, i, n) == NumberOf(Map(HexValue, SubSeq(s, i + 2, i + 1 + n)), 16)

UnicodeEscapeLine(s) ==
  FlattenSeq(Map(LAMBDA c : <<Backslash>> \o (IF c <= 65535 THEN <<SmallU>> \o HexOf(c, 4)
                                              ELSE <<LargeU>> \o HexOf(c, 8)), s))

\* Backslash, quotes, and a, b, f, n, r, t, v.
OneLetter == (92 :> 92) @@ (39 :> 39) @@ (34 :> 34) @@ (97 :> 7) @@ (98 :> 8) @@ (102 :> 12)
             @@ (110 :> 10) @@ (114 :> 13) @@ (116 :> 9) @@ (118 :> 11)

\* The bytes of the line: other than escapes they are read as Latin-1, and an
\* escape that is none is left as it stands.
UnicodeUnescapeLine(s) ==
  LET bytes == Utf8(s)
      octal(i) == {n \in 1 .. 3 : i + n <= Len(bytes)
                                  /\ \A j \in i + 1 .. i + n : bytes[j] \in 48 .. 55}
      escape(i) ==
        CASE bytes[i + 1] \in DOMAIN OneLetter -> Token(2, <<OneLetter[bytes[i + 1]]>>)
          [] EscapedAt(bytes, i, SmallX, 2) -> Token(4, <<CodeAt(bytes, i, 2)>>)
          [] EscapedAt(bytes, i, SmallU, 4) -> Token(6, <<CodeAt(bytes, i, 4)>>)
          [] EscapedAt(bytes, i, LargeU, 8) ->
               IF CodeAt(bytes, i, 8) > 1114111 THEN BadToken
               ELSE Token(10, <<CodeAt(bytes, i, 8)>>)
          [] octal(i) # {} ->
               LET n == Max(octal(i))
                   digits == SubSeq(bytes, i + 1, i + n)
               IN Token(n + 1, <<NumberOf(Map(LAMBDA c : c - 48, digits), 8)>>)
          [] OTHER -> IF bytes[i + 1] \in {SmallX, SmallU, LargeU} THEN BadToken
                      ELSE Token(1, <<Backslash>>)
      at(i) == IF bytes[i] # Backslash THEN Token(1, <<bytes[i]>>)
               ELSE IF i = Len(bytes) THEN BadToken ELSE escape(i)
  IN Scanned(bytes, at)

(* JSON strings: what is not printable ASCII is escaped, beyond the first    *)
(* 65536 code points as a pair of surrogates.                                *)
DoubleQuote == 34
JsonLetter == (92 :> 92) @@ (34 :> 34) @@ (98 :> 8) @@ (102 :> 12) @@ (110 :> 10)
              @@ (114 :> 13) @@ (116 :> 9)
HighOf(c) == 55296 + ((c - 65536) \div 1024)
LowOf(c)  == 56320 + ((c - 65536) % 1024)

JsonEscapeChar(c) ==
  LET letter == {x \in DOMAIN JsonLetter : JsonLetter[x] = c}
      hex(n) == <<Backslash, SmallU>> \o HexOf(n, 4)
  IN CASE letter # {} -> <<Backslash>> \o SetToSeq(letter)
       [] letter = {} /\ c \in 32 .. 126 -> <<c>>
       [] letter = {} /\ c \notin 32 .. 126 /\ c < 65536 -> hex(c)
       [] OTHER -> hex(HighOf(c)) \o hex(LowOf(c))
JsonEscapeLine(s) == FlattenSeq(Map(JsonEscapeChar, s))

\* The line between quotes, as one JSON string: strict, and nothing after it.
JsonUnescapeLine(s) ==
  LET code(i) == CodeAt(s, i, 4)
      escape(i) ==
        CASE s[i + 1] \in DOMAIN JsonLetter -> Token(2, <<JsonLetter[s[i + 1]]>>)
          [] s[i + 1] = 47 -> Token(2, <<47>>)
          [] EscapedAt(s, i, SmallU, 4) ->
               IF code(i) \in 55296 .. 56319 /\ EscapedAt(s, i + 6, SmallU, 4)
                    /\ code(i + 6) \in 56320 .. 57343
               THEN Token(12, <<65536 + 1024 * (code(i) - 55296) + code(i + 6) - 56320>>)
               ELSE Token(6, <<code(i)>>)
          [] OTHER -> BadToken
      at(i) == CASE s[i] = Backslash -> IF i = Len(s) THEN BadToken ELSE escape(i)
                 [] s[i] = DoubleQuote \/ s[i] < 32 -> BadToken
                 [] OTHER -> Token(1, <<s[i]>>)
  IN Scanned(s, at)

(* HTML: of the references that html.unescape knows, those html.escape       *)
(* writes, &amp; &lt; &gt; &quot; and &#x27;                                  *)
HtmlReference ==
  (38 :> <<38, 97, 109, 112, 59>>) @@ (60 :> <<38, 108, 116, 59>>)
  @@ (62 :> <<38, 103, 116, 59>>) @@ (34 :> <<38, 113, 117, 111, 116, 59>>)
  @@ (39 :> <<38, 35, 120, 50, 55, 59>>)

HtmlEscape(s) ==
  FlattenSeq(Map(LAMBDA c : IF c \in DOMAIN HtmlReference THEN HtmlReference[c] ELSE <<c>>, s))

HtmlUnescape(s) ==
  LET read(i) == {c \in DOMAIN HtmlReference : IsPrefix(HtmlReference[c], SubSeq(s, i, Len(s)))}
      at(i) == IF read(i) = {} THEN Token(1, <<s[i]>>)
               ELSE LET c == CHOOSE x \in read(i) : TRUE IN Token(Len(HtmlReference[c]), <<c>>)
  IN Scanned(s, at)

(* The registered tools that escape and unescape.                            *)
RunEscape(tool, s) ==
  CASE tool = "ascii85-encode"   -> PerLine(Ascii85EncodeLine, s)
    [] tool = "ascii85-decode"   -> PerLine(Ascii85DecodeLine, s)
    [] tool = "unicode-escape"   -> PerLine(UnicodeEscapeLine, s)
    [] tool = "unicode-unescape" -> PerLine(UnicodeUnescapeLine, s)
    [] tool = "json-escape"      -> PerLine(JsonEscapeLine, s)
    [] tool = "json-unescape"    -> PerLine(JsonUnescapeLine, s)
    [] tool = "html-escape"      -> HtmlEscape(s)
    [] tool = "html-unescape"    -> HtmlUnescape(s)
=============================================================================
