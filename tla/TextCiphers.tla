---------------------------- MODULE TextCiphers -----------------------------
(* The cipher tools of text_service.py.                                     *)
EXTENDS Text

Shifted(c, n) ==
  CASE c \in AsciiLower -> 97 + ((c - 97 + n) % 26)
    [] c \in AsciiUpper -> 65 + ((c - 65 + n) % 26)
    [] OTHER -> c

Mirror(c) ==
  CASE c \in AsciiLower -> 219 - c [] c \in AsciiUpper -> 155 - c [] OTHER -> c

Atbash(s) == Map(Mirror, s)
Caesar(s, shift) == Map(LAMBDA c : Shifted(c, shift), s)
Rot13(s) == Caesar(s, 13)

(* The rows of every shift, the word "Shift" of each left out.               *)
Numeral(n) == IF n < 10 THEN <<Space, 48 + n>> ELSE <<48 + (n \div 10), 48 + (n % 10)>>
BruteForceLine(s) ==
  JoinLines([k \in 1 .. 25 |-> Numeral(k) \o <<58, Space>> \o Caesar(s, -k)])
CaesarBruteForce(s) == Join(<<Newline, Newline>>, Map(BruteForceLine, Lines(s)))

(* Vigenere: only letters use up the key.                                   *)
VigenereTurn(s, i) == Cardinality({j \in 1 .. i - 1 : IsAlpha(s[j])})

Vigenere(s, key, sign) ==
  LET k == Upper(key)
      base(c) == IF IsUpper(c) THEN 65 ELSE 97
      shift(i) == sign * (k[(VigenereTurn(s, i) % Len(k)) + 1] - 65)
  IN IF key = <<>> \/ \E i \in DOMAIN key : ~IsAlpha(key[i]) THEN Raised
     ELSE [i \in DOMAIN s |->
            IF IsAlpha(s[i]) THEN ((s[i] - base(s[i]) + shift(i)) % 26) + base(s[i]) ELSE s[i]]

(* Rail fence: the rail of each position, and the positions by rail.        *)
RailsOf(n, rails) ==
  LET walk(w, i) ==
        LET dir == CASE w.rail = 0 -> 1 [] w.rail = rails - 1 -> -1 [] OTHER -> w.dir
        IN [rail |-> w.rail + dir, dir |-> dir, path |-> Append(w.path, w.rail)]
  IN FoldLeft(walk, [rail |-> 0, dir |-> 1, path |-> <<>>], [i \in 1 .. n |-> i]).path

\* sorted(range(n), key = pattern): stable.
RailOrder(n, rails) ==
  LET path == RailsOf(n, rails)
  IN SortedPositions(n, LAMBDA i, j : path[i] < path[j])

RailEncryptLine(s, rails) ==
  LET path == RailsOf(Len(s), rails)
  IN FlattenSeq([r \in 1 .. rails |-> KeepAt(LAMBDA i : path[i] = r - 1, s)])

RailDecryptLine(s, rails) ==
  LET order == RailOrder(Len(s), rails)
  IN [i \in DOMAIN s |-> s[CHOOSE k \in DOMAIN s : order[k] = i]]

(* Playfair: a square of the key's letters, then the rest; J is I.          *)
Alphabet == [i \in 1 .. 25 |-> IF i < 10 THEN 64 + i ELSE 65 + i]
MergeJ(s) == Map(LAMBDA c : IF c = 74 THEN 73 ELSE c, Upper(s))
Square(key) ==
  LET all == MergeJ(key) \o Alphabet
  IN KeepAt(LAMBDA i : all[i] \in AsciiUpper /\ \A j \in 1 .. i - 1 : all[j] # all[i], all)

\* Digrams: a double letter and a last single letter are completed by X.
Digrams(letters) ==
  LET step(r, i) ==
        IF r.skip THEN [r EXCEPT !.skip = FALSE]
        ELSE IF i < Len(letters) /\ letters[i + 1] # letters[i]
        THEN [skip |-> TRUE, pairs |-> Append(r.pairs, <<letters[i], letters[i + 1]>>)]
        ELSE [skip |-> FALSE, pairs |-> Append(r.pairs, <<letters[i], 88>>)]
  IN FoldLeft(step, [skip |-> FALSE, pairs |-> <<>>], [i \in DOMAIN letters |-> i]).pairs

Place(square, c) == (CHOOSE i \in DOMAIN square : square[i] = c) - 1

PlayfairPair(square, p) ==
  LET at == Map(LAMBDA c : Place(square, c), p)
      row(k) == at[k] \div 5
      col(k) == at[k] % 5
      cell(r, c) == square[5 * (r % 5) + (c % 5) + 1]
  IN IF row(1) = row(2) THEN <<cell(row(1), col(1) + 1), cell(row(2), col(2) + 1)>>
     ELSE IF col(1) = col(2) THEN <<cell(row(1) + 1, col(1)), cell(row(2) + 1, col(2))>>
     ELSE <<cell(row(1), col(2)), cell(row(2), col(1))>>

LettersOf(s) ==
  MergeJ(SelectSeq(s, LAMBDA c : c \in AsciiUpper \cup AsciiLower))

PlayfairLine(s, key) ==
  LET square == Square(key)
  IN FlattenSeq(Map(LAMBDA p : PlayfairPair(square, p), Digrams(LettersOf(s))))

Substitute(s, mapping) ==
  IF Len(mapping) # 26 THEN Raised
  ELSE Map(LAMBDA c : CASE c \in AsciiLower -> LowerChar(Upper(mapping)[c - 96])
                        [] c \in AsciiUpper -> Upper(mapping)[c - 64]
                        [] OTHER -> c, s)

(* Columnar transposition: padded rows, read by columns in key order.       *)
PadTo(s, n) == s \o [i \in 1 .. ((n - (Len(s) % n)) % n) |-> Space]
ColumnOrder(key) ==
  LET k == Upper(key) IN SortedPositions(Len(k), LAMBDA i, j : k[i] < k[j])

ColumnarLine(s, key) ==
  LET padded == PadTo(s, Len(key))
      column(c) == KeepAt(LAMBDA i : (i - c) % Len(key) = 0, padded)
  IN FlattenSeq(Map(column, ColumnOrder(key)))

(* NATO: the word of a character is one symbol, spelled by no text here.    *)
NatoWord(c) == 1000 + c
SpaceWord == NatoWord(Space)
NatoLetters == AsciiUpper \cup Digits
IsNato(w) == Len(w) = 1 /\ w[1] - 1000 \in NatoLetters

NatoLine(s) ==
  LET ws == Words(s)
      word(c) == CASE c \in NatoLetters -> <<NatoWord(c)>>
                   [] c = Space -> <<SpaceWord>>
                   [] OTHER -> <<c>>
  IN IF \A i \in DOMAIN ws : IsNato(ws[i])
     THEN Map(LAMBDA w : w[1] - 1000, ws)
     ELSE JoinWords(Map(word, Upper(s)))

(* Bacon: five letters of A and B, I and J alike and U and V alike.         *)
BaconNumber(c) == c - 65 - (IF c >= 74 THEN 1 ELSE 0) - (IF c >= 86 THEN 1 ELSE 0)
BaconCode(c) == [i \in 1 .. 5 |-> 65 + ((BaconNumber(c) \div 2 ^ (5 - i)) % 2)]

\* Variant: any text of A and B is taken for ciphertext.
BaconCiphertext_AnyLength(s) ==
  s # <<>> /\ ToSet(s) \subseteq {65, 66, 97, 98}

BaconCiphertext(s) ==
  /\ Len(s) >= 5 /\ Len(s) % 5 = 0
  /\ ToSet(s) \subseteq {65, 66, 97, 98}

\* Of two letters with one code the reverse table keeps the later.
BaconLetters(code) ==
  LET same == {c \in AsciiUpper : BaconCode(c) = code}
  IN IF same = {} THEN <<>> ELSE <<Max(same)>>

BaconLine(s) ==
  LET cleaned == SelectSeq(Strip(s), LAMBDA c : c # Space)
      chunks == [j \in 1 .. Len(cleaned) \div 5 |-> SubSeq(Upper(cleaned), 5 * j - 4, 5 * j)]
      known == SelectSeq(Upper(s), LAMBDA c : c = Space \/ c \in AsciiUpper)
      coded == Map(LAMBDA c : IF c = Space THEN <<Space>> ELSE BaconCode(c), known)
  IN IF BaconCiphertext(cleaned) THEN FlattenSeq(Map(BaconLetters, chunks))
     ELSE IF Contains(known, Space) THEN FlattenSeq(coded) ELSE JoinWords(coded)

(* Each line is a message of its own.                                          *)
RailFenceEncrypt(s, rails) == PerLine(LAMBDA l : RailEncryptLine(l, rails), s)
RailFenceDecrypt(s, rails) == PerLine(LAMBDA l : RailDecryptLine(l, rails), s)
PlayfairEncrypt(s, key) == PerLine(LAMBDA l : PlayfairLine(l, key), s)
ColumnarTransposition(s, key) == PerLine(LAMBDA l : ColumnarLine(l, key), s)
NatoPhonetic(s) == PerLine(NatoLine, s)
BaconCipher(s) == PerLine(BaconLine, s)

(* The registered tools of category "cipher", and "rot13".                  *)
RunCipher(tool, s, arg) ==
  CASE tool = "atbash"                 -> Atbash(s)
    [] tool = "rot13"                  -> Rot13(s)
    [] tool = "caesar-cipher"          -> Caesar(s, arg)
    [] tool = "caesar-brute-force"     -> CaesarBruteForce(s)
    [] tool = "vigenere-encrypt"       -> Vigenere(s, arg, 1)
    [] tool = "vigenere-decrypt"       -> Vigenere(s, arg, -1)
    [] tool = "rail-fence-encrypt"     -> RailFenceEncrypt(s, arg)
    [] tool = "rail-fence-decrypt"     -> RailFenceDecrypt(s, arg)
    [] tool = "playfair-encrypt"       -> PlayfairEncrypt(s, arg)
    [] tool = "substitution-cipher"    -> Substitute(s, arg)
    [] tool = "columnar-transposition" -> ColumnarTransposition(s, arg)
    [] tool = "nato-phonetic"          -> NatoPhonetic(s)
    [] tool = "bacon-cipher"           -> BaconCipher(s)
=============================================================================
