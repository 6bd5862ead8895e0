----------------------------- MODULE TextCodecs -----------------------------
(* The encoding tools of text_service.py, line by line over UTF-8 bytes.    *)
EXTENDS Text

CONSTANTS TapeCells,   \* cells of the Brainfuck tape, 30000 in the code
          MaxSteps     \* its step limit, 1000000 in the code

ASSUME TapeAssumption == TapeCells \in Nat \ {0} /\ MaxSteps \in Nat

Replacement == 65533
Byte == 0 .. 255

Utf8Of(c) ==
  IF c < 128 THEN <<c>>
  ELSE IF c < 2048 THEN <<192 + (c \div 64), 128 + (c % 64)>>
  ELSE IF c < 65536 THEN <<224 + (c \div 4096), 128 + ((c \div 64) % 64), 128 + (c % 64)>>
  ELSE <<240 + (c \div 262144), 128 + ((c \div 4096) % 64), 128 + ((c \div 64) % 64),
         128 + (c % 64)>>
Utf8(s) == FlattenSeq(Map(Utf8Of, s))

(* A code point of the output and the bytes it still lacks.                 *)
Lead(b) ==
  CASE b < 128 -> [code |-> b, lacks |-> 0]
    [] b \in 194 .. 223 -> [code |-> b - 192, lacks |-> 1]
    [] b \in 224 .. 239 -> [code |-> b - 224, lacks |-> 2]
    [] b \in 240 .. 244 -> [code |-> b - 240, lacks |-> 3]
    [] OTHER -> [code |-> -1, lacks |-> 0]

Decoded(bytes, bad) ==
  LET step(gs, b) ==
        IF gs # <<>> /\ Last(gs).lacks > 0 /\ b \in 128 .. 191
        THEN Append(Front(gs), [code |-> 64 * Last(gs).code + b - 128,
                                lacks |-> Last(gs).lacks - 1])
        ELSE Append(gs, Lead(b))
      gs == FoldLeft(step, <<>>, bytes)
  IN Map(LAMBDA g : IF g.lacks > 0 \/ g.code = -1 THEN bad ELSE g.code, gs)

\* bytes.decode("utf-8"), strict.
FromUtf8(bytes) ==
  LET s == Decoded(bytes, -1) IN IF Contains(s, -1) THEN Raised ELSE s

(* Positional digits: the bits of the bytes regrouped.                      *)
DigitsOf(n, base, width) == [i \in 1 .. width |-> (n \div base ^ (width - i)) % base]
NumberOf(ds, base) == FoldLeft(LAMBDA n, d : base * n + d, 0, ds)
Chunks(s, k) == [j \in 1 .. Len(s) \div k |-> SubSeq(s, k * (j - 1) + 1, k * j)]
Fill(c, n) == [i \in 1 .. n |-> c]
Short(n, k) == (k - (n % k)) % k

Regroup(ns, from, to) ==
  LET bits == FlattenSeq(Map(LAMBDA n : DigitsOf(n, 2, from), ns))
  IN Map(LAMBDA ds : NumberOf(ds, 2), Chunks(bits, to))

\* The last symbol is completed with zero bits and the last group with "=".
BaseEncode(bytes, bits, group, symbols) ==
  LET all == FlattenSeq(Map(LAMBDA n : DigitsOf(n, 2, 8), bytes))
      full == all \o Fill(0, Short(Len(all), bits))
      out == Map(LAMBDA ds : symbols[NumberOf(ds, 2) + 1], Chunks(full, bits))
  IN out \o Fill(61, Short(Len(out), group))

ValueIn(symbols, c) == (CHOOSE i \in DOMAIN symbols : symbols[i] = c) - 1
Run(from, to) == [i \in 1 .. to - from + 1 |-> from + i - 1]
Base64Symbols == Run(65, 90) \o Run(97, 122) \o Run(48, 57) \o <<43, 47>>
Base32Symbols == Run(65, 90) \o Run(50, 55)

Base64EncodeLine(s) == BaseEncode(Utf8(s), 6, 4, Base64Symbols)

\* validate=False: other characters are skipped, "=" ends a group it completes.
Base64DecodeLine(s) ==
  LET step(r, c) ==
        CASE r.ended -> r
          [] ~r.ended /\ c = 61 ->
               [r EXCEPT !.pads = @ + 1,
                         !.ended = Len(r.ds) % 4 >= 2 /\ (Len(r.ds) % 4) + r.pads + 1 >= 4]
          [] ~r.ended /\ c \in ToSet(Base64Symbols) ->
               [r EXCEPT !.ds = Append(@, ValueIn(Base64Symbols, c)), !.pads = 0]
          [] OTHER -> r
      r == FoldLeft(step, [ds |-> <<>>, pads |-> 0, ended |-> FALSE], s)
  IN IF ~r.ended /\ Len(r.ds) % 4 # 0 THEN Raised ELSE FromUtf8(Regroup(r.ds, 6, 8))

Base32EncodeLine(s) == BaseEncode(Utf8(s), 5, 8, Base32Symbols)

Base32DecodeLine(s) ==
  LET stripped == Strip(s)
      padded == stripped \o Fill(61, Short(Len(stripped), 8))
      body == {i \in DOMAIN padded : \E j \in i .. Len(padded) : padded[j] # 61}
      ds == SubSeq(padded, 1, Cardinality(body))
  IN IF ~(ToSet(ds) \subseteq ToSet(Base32Symbols))
          \/ Len(padded) - Len(ds) \notin {0, 1, 3, 4, 6}
     THEN Raised
     ELSE FromUtf8(Regroup(Map(LAMBDA c : ValueIn(Base32Symbols, c), ds), 5, 8))

HexLower == Run(48, 57) \o Run(97, 102)
HexUpper == Run(48, 57) \o Run(65, 70)
IsHex(c) == c \in ToSet(HexLower \o HexUpper)
HexValue(c) == IF c \in ToSet(HexLower) THEN ValueIn(HexLower, c) ELSE ValueIn(HexUpper, c)
HexByte(b, symbols) == <<symbols[(b \div 16) + 1], symbols[(b % 16) + 1]>>

HexEncodeLine(s) == FlattenSeq(Map(LAMBDA b : HexByte(b, HexLower), Utf8(s)))

\* bytes.fromhex: white space may stand between bytes, not within one.
HexDecodeLine(s) ==
  LET step(r, c) ==
        IF IsHex(c) THEN [r EXCEPT !.half = ~@, !.ds = Append(@, HexValue(c))]
        ELSE [r EXCEPT !.bad = @ \/ r.half \/ c \notin Whitespace]
      r == FoldLeft(step, [half |-> FALSE, ds |-> <<>>, bad |-> FALSE], Strip(s))
  IN IF r.bad \/ r.half THEN Raised
     ELSE FromUtf8(Map(LAMBDA ds : NumberOf(ds, 16), Chunks(r.ds, 2)))

(* binary, octal and decimal: one number per byte, int(word, base) and      *)
(* bytes() raise on what is no number or no byte.                           *)
Width(n) == IF n < 10 THEN 1 ELSE IF n < 100 THEN 2 ELSE 3
NumberEncodeLine(s, base, width) ==
  JoinWords(Map(LAMBDA b :
      Map(LAMBDA d : 48 + d, DigitsOf(b, base, IF base = 10 THEN Width(b) ELSE width)),
    Utf8(s)))

NumberDecodeLine(s, base) ==
  LET number(w) == IF ToSet(w) \subseteq 48 .. 47 + base
                   THEN NumberOf(Map(LAMBDA c : c - 48, w), base) ELSE -1
      bytes == Map(number, Words(s))
  IN IF ToSet(bytes) \subseteq Byte THEN FromUtf8(bytes) ELSE Raised

(* quote(s, safe="") and unquote, which replaces what is no UTF-8.          *)
Unreserved == AsciiUpper \cup AsciiLower \cup Digits \cup {45, 46, 95, 126}
UrlEncodeLine(s) ==
  FlattenSeq(Map(LAMBDA b : IF b \in Unreserved THEN <<b>> ELSE <<37>> \o HexByte(b, HexUpper),
                 Utf8(s)))

Escape(s, i) == s[i] = 37 /\ i + 2 <= Len(s) /\ IsHex(s[i + 1]) /\ IsHex(s[i + 2])

\* A run of escapes and ASCII is bytes; a character beyond ASCII stands alone.
UrlDecodeLine(s) ==
  LET step(r, i) ==
        CASE r.skip > 0 -> [r EXCEPT !.skip = @ - 1]
          [] r.skip = 0 /\ Escape(s, i) ->
               [r EXCEPT !.skip = 2,
                         !.bytes = Append(@, 16 * HexValue(s[i + 1]) + HexValue(s[i + 2]))]
          [] r.skip = 0 /\ ~Escape(s, i) /\ s[i] < 128 ->
               [r EXCEPT !.bytes = Append(@, s[i])]
          [] OTHER -> [r EXCEPT !.out = @ \o Decoded(r.bytes, Replacement) \o <<s[i]>>,
                                !.bytes = <<>>]
      r == FoldLeft(step, [skip |-> 0, bytes |-> <<>>, out |-> <<>>], Run(1, Len(s)))
  IN r.out \o Decoded(r.bytes, Replacement)

(* Morse: the rows of _MORSE_MAP for the characters the texts draw on.      *)
Dit == 46
Dah == 45
Slash == 47
MorseMap ==
  (65 :> <<Dit, Dah>>) @@ (66 :> <<Dah, Dit, Dit, Dit>>) @@ (69 :> <<Dit>>)
  @@ (73 :> <<Dit, Dit>>) @@ (78 :> <<Dah, Dit>>) @@ (84 :> <<Dah>>)
  @@ (53 :> <<Dit, Dit, Dit, Dit, Dit>>) @@ (Slash :> <<Dah, Dit, Dit, Dah, Dit>>)

MorseEncodeLine(s) ==
  LET known == SelectSeq(Upper(s), LAMBDA c : c = Space \/ c \in DOMAIN MorseMap)
  IN JoinWords(Map(LAMBDA c : IF c = Space THEN <<Slash>> ELSE MorseMap[c], known))

MorseLetter(w) == {c \in DOMAIN MorseMap : MorseMap[c] = w}
MorseDecodeLine(s) ==
  JoinWords(Map(LAMBDA word : FlattenSeq(Map(LAMBDA w : SetToSeq(MorseLetter(w)), Words(word))),
                SplitBy(Strip(s), <<Space, Slash, Space>>)))

(* Brainfuck.  The cell is not cleared between characters.                  *)
Plus    == 43
Minus   == 45
RightOf == 62
LeftOf  == 60
Open    == 91
Close   == 93
Emit    == 46
Read    == 44

\* Variant: each character is counted from an empty cell.
BrainfuckEncodeLine_FromZero(s) ==
  FlattenSeq(Map(LAMBDA c : Append(Fill(Plus, c), Emit), s))

BrainfuckEncodeLine(s) ==
  FlattenSeq([i \in DOMAIN s |->
    LET diff == s[i] - (IF i = 1 THEN 0 ELSE s[i - 1])
    IN Append(IF diff > 0 THEN Fill(Plus, diff) ELSE Fill(Minus, -diff), Emit)])

\* The bracket that matches the one at i; 0 when there is none.
Depth(code, i, j) ==
  Cardinality({k \in i .. j : code[k] = Open}) - Cardinality({k \in i .. j : code[k] = Close})
MatchOf(code, i) ==
  LET ahead  == {j \in i .. Len(code) : Depth(code, i, j) = 0}
      behind == {j \in 1 .. i : Depth(code, j, i) = 0}
  IN IF code[i] = Open THEN (IF ahead = {} THEN 0 ELSE Min(ahead))
     ELSE IF behind = {} THEN 0 ELSE Max(behind)
Balanced(code) == \A i \in DOMAIN code : code[i] \in {Open, Close} => MatchOf(code, i) # 0

VmStep(code, m) ==
  LET ch == code[m.ip]
      cell == m.tape[m.ptr]
      next == [m EXCEPT !.ip = @ + 1]
  IN CASE ch = RightOf -> [next EXCEPT !.ptr = (@ + 1) % TapeCells]
       [] ch = LeftOf  -> [next EXCEPT !.ptr = (@ - 1) % TapeCells]
       [] ch = Plus    -> [next EXCEPT !.tape[m.ptr] = (@ + 1) % 256]
       [] ch = Minus   -> [next EXCEPT !.tape[m.ptr] = (@ - 1) % 256]
       [] ch = Emit    -> [next EXCEPT !.out = Append(@, cell)]
       [] ch = Read    -> [next EXCEPT !.tape[m.ptr] = 0]
       [] ch = Open /\ cell = 0 -> [m EXCEPT !.ip = MatchOf(code, m.ip) + 1]
       [] ch = Close /\ cell # 0 -> [m EXCEPT !.ip = MatchOf(code, m.ip) + 1]
       [] OTHER -> next

BrainfuckDecode(code) ==
  LET start == [ip |-> 1, ptr |-> 0, tape |-> [i \in 0 .. TapeCells - 1 |-> 0], out |-> <<>>]
      step(m, n) == IF m.ip > Len(code) THEN m ELSE VmStep(code, m)
      halted == FoldLeft(step, start, Run(1, MaxSteps))
  IN IF Balanced(code) /\ halted.ip > Len(code) THEN halted.out ELSE Raised

(* The registered tools of category "encoding".                             *)
RunCodec(tool, s) ==
  CASE tool = "base64-encode"    -> PerLine(Base64EncodeLine, s)
    [] tool = "base64-decode"    -> PerLine(Base64DecodeLine, s)
    [] tool = "base32-encode"    -> PerLine(Base32EncodeLine, s)
    [] tool = "base32-decode"    -> PerLine(Base32DecodeLine, s)
    [] tool = "hex-encode"       -> PerLine(HexEncodeLine, s)
    [] tool = "hex-decode"       -> PerLine(HexDecodeLine, s)
    [] tool = "binary-encode"    -> PerLine(LAMBDA l : NumberEncodeLine(l, 2, 8), s)
    [] tool = "binary-decode"    -> PerLine(LAMBDA l : NumberDecodeLine(l, 2), s)
    [] tool = "octal-encode"     -> PerLine(LAMBDA l : NumberEncodeLine(l, 8, 3), s)
    [] tool = "octal-decode"     -> PerLine(LAMBDA l : NumberDecodeLine(l, 8), s)
    [] tool = "decimal-encode"   -> PerLine(LAMBDA l : NumberEncodeLine(l, 10, 3), s)
    [] tool = "decimal-decode"   -> PerLine(LAMBDA l : NumberDecodeLine(l, 10), s)
    [] tool = "url-encode"       -> PerLine(UrlEncodeLine, s)
    [] tool = "url-decode"       -> PerLine(UrlDecodeLine, s)
    [] tool = "morse-encode"     -> PerLine(MorseEncodeLine, s)
    [] tool = "morse-decode"     -> PerLine(MorseDecodeLine, s)
    [] tool = "brainfuck-encode" -> PerLine(BrainfuckEncodeLine, s)
    [] tool = "brainfuck-decode" -> BrainfuckDecode(s)
=============================================================================
