----------------------------- MODULE TextProofs -----------------------------
(***************************************************************************)
(* What holds of the text tools for texts of every length.                 *)
(***************************************************************************)
EXTENDS TextTools, FiniteSetTheorems, FunctionTheorems, WellFoundedInduction, TLAPS

-----------------------------------------------------------------------------
(* Ciphers that replace letter by letter                                    *)

\* A place of the alphabet turned on by n and then by m.
LEMMA TurnedBack ==
  ASSUME NEW a \in 0 .. 25, NEW n \in Int, NEW m \in Int, (n + m) % 26 = 0
  PROVE  /\ ((a + n) % 26) \in 0 .. 25
         /\ (((a + n) % 26) + m) % 26 = a
<1>1. PICK k \in Int : n + m = 26 * k
  OBVIOUS
<1>2. PICK q \in Int, b \in 0 .. 25 : a + n = 26 * q + b /\ (a + n) % 26 = b
  OBVIOUS
<1>3. b + m = a + 26 * (k - q)
  BY <1>1, <1>2
<1>. QED  BY <1>2, <1>3

\* The letters are apart.
LEMMA LetterRanges ==
  ASSUME NEW c
  PROVE  /\ c \in AsciiLower <=> c \in 97 .. 122
         /\ c \in AsciiUpper <=> c \in 65 .. 90
         /\ c \in AsciiLower => c \notin AsciiUpper
BY DEF AsciiLower, AsciiUpper

LEMMA ShiftedCases ==
  ASSUME NEW c, NEW n
  PROVE  /\ c \in AsciiLower => Shifted(c, n) = 97 + ((c - 97 + n) % 26)
         /\ c \in AsciiUpper => Shifted(c, n) = 65 + ((c - 65 + n) % 26)
         /\ c \notin AsciiLower /\ c \notin AsciiUpper => Shifted(c, n) = c
<1>1. CASE c \in AsciiLower
  <2>1. c \notin AsciiUpper
    BY <1>1, LetterRanges
  <2>. QED  BY <1>1, <2>1, Zenon DEF Shifted
<1>2. CASE c \in AsciiUpper
  <2>1. c \notin AsciiLower
    BY <1>2, LetterRanges
  <2>. QED  BY <1>2, <2>1, Zenon DEF Shifted
<1>3. CASE c \notin AsciiLower /\ c \notin AsciiUpper
  BY <1>3, Zenon DEF Shifted
<1>. QED  BY <1>1, <1>2, <1>3

\* A shift and the shift back.
LEMMA ShiftedBack ==
  ASSUME NEW c \in Nat, NEW n \in Int, NEW m \in Int, (n + m) % 26 = 0
  PROVE  Shifted(Shifted(c, n), m) = c
<1>1. CASE c \in AsciiLower
  <2>. DEFINE d == (c - 97 + n) % 26
  <2>1. c - 97 \in 0 .. 25
    BY <1>1, LetterRanges
  <2>2. d \in 0 .. 25 /\ (d + m) % 26 = c - 97
    BY <2>1, TurnedBack
  <2>3. Shifted(c, n) = 97 + d
    BY <1>1, ShiftedCases
  <2>. HIDE DEF d
  <2>. DEFINE e == 97 + d
  <2>4. e \in AsciiLower /\ e - 97 + m = d + m
    BY <2>2, LetterRanges
  <2>5. Shifted(e, m) = 97 + ((e - 97 + m) % 26)
    <3>. HIDE DEF e
    <3>. QED  BY <2>4, ShiftedCases
  <2>. QED  BY <2>2, <2>3, <2>4, <2>5
<1>2. CASE c \in AsciiUpper
  <2>. DEFINE d == (c - 65 + n) % 26
  <2>1. c - 65 \in 0 .. 25
    BY <1>2, LetterRanges
  <2>2. d \in 0 .. 25 /\ (d + m) % 26 = c - 65
    BY <2>1, TurnedBack
  <2>3. Shifted(c, n) = 65 + d
    BY <1>2, ShiftedCases
  <2>. HIDE DEF d
  <2>. DEFINE e == 65 + d
  <2>4. e \in AsciiUpper /\ e - 65 + m = d + m
    BY <2>2, LetterRanges
  <2>5. Shifted(e, m) = 65 + ((e - 65 + m) % 26)
    <3>. HIDE DEF e
    <3>. QED  BY <2>4, ShiftedCases
  <2>. QED  BY <2>2, <2>3, <2>4, <2>5
<1>3. CASE c \notin AsciiLower /\ c \notin AsciiUpper
  <2>1. Shifted(c, n) = c /\ Shifted(c, m) = c
    BY <1>3, ShiftedCases
  <2>. QED  BY <2>1
<1>. QED  BY <1>1, <1>2, <1>3

\* A shift keeps to the characters, and a letter stays a letter.
LEMMA ShiftedType ==
  ASSUME NEW c \in Nat, NEW n \in Int
  PROVE  /\ Shifted(c, n) \in Nat
         /\ IsAlpha(c) => IsAlpha(Shifted(c, n))
<1>1. CASE c \in AsciiLower
  <2>1. Shifted(c, n) = 97 + ((c - 97 + n) % 26) /\ c \in 97 .. 122
    BY <1>1, ShiftedCases, LetterRanges
  <2>2. Shifted(c, n) \in 97 .. 122
    BY <2>1
  <2>. QED  BY <2>2 DEF IsAlpha, IsLower, AsciiLower
<1>2. CASE c \in AsciiUpper
  <2>1. Shifted(c, n) = 65 + ((c - 65 + n) % 26) /\ c \in 65 .. 90
    BY <1>2, ShiftedCases, LetterRanges
  <2>2. Shifted(c, n) \in 65 .. 90
    BY <2>1
  <2>. QED  BY <2>2 DEF IsAlpha, IsUpper, AsciiUpper
<1>3. CASE c \notin AsciiLower /\ c \notin AsciiUpper
  <2>1. Shifted(c, n) = c
    BY <1>3, ShiftedCases
  <2>. QED  BY <2>1
<1>. QED  BY <1>1, <1>2, <1>3

\* The mirrored alphabet.
LEMMA MirrorCases ==
  ASSUME NEW c
  PROVE  /\ c \in AsciiLower => Mirror(c) = 219 - c
         /\ c \in AsciiUpper => Mirror(c) = 155 - c
         /\ c \notin AsciiLower /\ c \notin AsciiUpper => Mirror(c) = c
<1>1. CASE c \in AsciiLower
  <2>1. c \notin AsciiUpper
    BY <1>1, LetterRanges
  <2>. QED  BY <1>1, <2>1, Zenon DEF Mirror
<1>2. CASE c \in AsciiUpper
  <2>1. c \notin AsciiLower
    BY <1>2, LetterRanges
  <2>. QED  BY <1>2, <2>1, Zenon DEF Mirror
<1>3. CASE c \notin AsciiLower /\ c \notin AsciiUpper
  BY <1>3, Zenon DEF Mirror
<1>. QED  BY <1>1, <1>2, <1>3

LEMMA MirrorBack ==
  ASSUME NEW c \in Nat
  PROVE  /\ Mirror(c) \in Nat
         /\ IsAlpha(c) => IsAlpha(Mirror(c))
         /\ Mirror(Mirror(c)) = c
<1>1. CASE c \in AsciiLower
  <2>1. Mirror(c) = 219 - c /\ 219 - c \in 97 .. 122
    BY <1>1, MirrorCases, LetterRanges
  <2>2. Mirror(219 - c) = 219 - (219 - c)
    BY <2>1, MirrorCases, LetterRanges
  <2>. QED  BY <2>1, <2>2 DEF IsAlpha, IsLower, AsciiLower
<1>2. CASE c \in AsciiUpper
  <2>1. Mirror(c) = 155 - c /\ 155 - c \in 65 .. 90
    BY <1>2, MirrorCases, LetterRanges
  <2>2. Mirror(155 - c) = 155 - (155 - c)
    BY <2>1, MirrorCases, LetterRanges
  <2>. QED  BY <2>1, <2>2 DEF IsAlpha, IsUpper, AsciiUpper
<1>3. CASE c \notin AsciiLower /\ c \notin AsciiUpper
  <2>1. Mirror(c) = c
    BY <1>3, MirrorCases
  <2>. QED  BY <2>1
<1>. QED  BY <1>1, <1>2, <1>3

\* What a cipher that can be undone does: letters stay letters, the rest
\* stays, and the second call gives the text back.
Undoes(s, cipher, back) ==
  /\ cipher \in Seq(Nat)
  /\ DOMAIN cipher = DOMAIN s
  /\ \A i \in DOMAIN s : IsAlpha(s[i]) => IsAlpha(cipher[i])
  /\ back = s

\* A text of the same length whose characters are undone one by one.
LEMMA UndoneEach ==
  ASSUME NEW s \in Seq(Nat), NEW t, NEW u,
         t = [i \in DOMAIN s |-> t[i]], u = [i \in DOMAIN t |-> u[i]],
         \A i \in DOMAIN s : /\ t[i] \in Nat
                             /\ IsAlpha(s[i]) => IsAlpha(t[i])
                             /\ u[i] = s[i]
  PROVE  Undoes(s, t, u)
<1>1. DOMAIN s = 1 .. Len(s) /\ Len(s) \in Nat /\ DOMAIN t = DOMAIN s
  OBVIOUS
<1>2. t \in Seq(Nat)
  <2>1. t \in [1 .. Len(s) -> Nat]
    BY <1>1
  <2>. QED  BY <2>1, <1>1
<1>3. s = [i \in DOMAIN s |-> s[i]]
  OBVIOUS
<1>4. [i \in DOMAIN t |-> u[i]] = [i \in DOMAIN s |-> s[i]]
  BY <1>1
<1>5. u = s
  BY <1>3, <1>4
<1>. QED  BY <1>1, <1>2, <1>5 DEF Undoes

LEMMA CaesarUndone ==
  ASSUME NEW s \in Seq(Nat), NEW n \in Int, NEW m \in Int, (n + m) % 26 = 0
  PROVE  Undoes(s, Caesar(s, n), Caesar(Caesar(s, n), m))
<1>. DEFINE t == Caesar(s, n)
            u == Caesar(t, m)
<1>0. \A v, k : Caesar(v, k) = [i \in DOMAIN v |-> Shifted(v[i], k)]
  BY DEF Caesar, Map
<1>. HIDE DEF t
<1>1. /\ t = [i \in DOMAIN s |-> Shifted(s[i], n)]
      /\ u = [i \in DOMAIN t |-> Shifted(t[i], m)]
  BY <1>0, Zenon DEF t
<1>. HIDE DEF u
<1>2. \A i \in DOMAIN s : s[i] \in Nat
  OBVIOUS
<1>3. \A i \in DOMAIN s : t[i] = Shifted(s[i], n) /\ u[i] = Shifted(t[i], m)
  BY <1>1
<1>4. \A i \in DOMAIN s : /\ t[i] \in Nat
                          /\ IsAlpha(s[i]) => IsAlpha(t[i])
                          /\ u[i] = s[i]
  <2>1. \A c \in Nat : /\ Shifted(c, n) \in Nat
                       /\ IsAlpha(c) => IsAlpha(Shifted(c, n))
                       /\ Shifted(Shifted(c, n), m) = c
    BY ShiftedBack, ShiftedType
  <2>. QED  BY <1>2, <1>3, <2>1
<1>5. t = [i \in DOMAIN s |-> t[i]] /\ u = [i \in DOMAIN t |-> u[i]]
  BY <1>1
<1>6. Undoes(s, t, u)
  BY <1>4, <1>5, UndoneEach
<1>. QED  BY <1>6 DEF t, u

LEMMA AtbashUndone ==
  ASSUME NEW s \in Seq(Nat)
  PROVE  Undoes(s, Atbash(s), Atbash(Atbash(s)))
<1>. DEFINE t == Atbash(s)
            u == Atbash(t)
<1>1. t = [i \in DOMAIN s |-> Mirror(s[i])] /\ u = [i \in DOMAIN t |-> Mirror(t[i])]
  BY DEF Atbash, Map
<1>. HIDE DEF t, u
<1>2. \A i \in DOMAIN s : s[i] \in Nat
  OBVIOUS
<1>3. \A i \in DOMAIN s : t[i] = Mirror(s[i]) /\ u[i] = Mirror(t[i])
  BY <1>1
<1>4. \A i \in DOMAIN s : /\ t[i] \in Nat
                          /\ IsAlpha(s[i]) => IsAlpha(t[i])
                          /\ u[i] = s[i]
  BY <1>2, <1>3, MirrorBack
<1>5. t = [i \in DOMAIN s |-> t[i]] /\ u = [i \in DOMAIN t |-> u[i]]
  BY <1>1
<1>6. Undoes(s, t, u)
  BY <1>4, <1>5, UndoneEach
<1>. QED  BY <1>6 DEF t, u

-----------------------------------------------------------------------------
(* The key of a substitution                                                *)

\* Two keys of 26 letters, the second the inverse of the first.
InverseKeys(k, l) ==
  /\ k \in Seq(Nat) /\ Len(k) = 26
  /\ l \in Seq(Nat) /\ Len(l) = 26
  /\ \A i \in 1 .. 26 :
       /\ Upper(k)[i] \in AsciiUpper
       /\ Upper(l)[Upper(k)[i] - 64] = 64 + i

\* The replacement of a character.
Replaced(c, k) ==
  CASE c \in AsciiLower -> LowerChar(Upper(k)[c - 96])
    [] c \in AsciiUpper -> Upper(k)[c - 64]
    [] OTHER -> c

LEMMA ReplacedCases ==
  ASSUME NEW c, NEW k
  PROVE  /\ c \in AsciiLower => Replaced(c, k) = LowerChar(Upper(k)[c - 96])
         /\ c \in AsciiUpper => Replaced(c, k) = Upper(k)[c - 64]
         /\ c \notin AsciiLower /\ c \notin AsciiUpper => Replaced(c, k) = c
<1>1. CASE c \in AsciiLower
  <2>1. c \notin AsciiUpper
    BY <1>1, LetterRanges
  <2>. QED  BY <1>1, <2>1, Zenon DEF Replaced
<1>2. CASE c \in AsciiUpper
  <2>1. c \notin AsciiLower
    BY <1>2, LetterRanges
  <2>. QED  BY <1>2, <2>1, Zenon DEF Replaced
<1>3. CASE c \notin AsciiLower /\ c \notin AsciiUpper
  BY <1>3, Zenon DEF Replaced
<1>. QED  BY <1>1, <1>2, <1>3

LEMMA ReplacedBack ==
  ASSUME NEW k, NEW l, InverseKeys(k, l), NEW c \in Nat
  PROVE  /\ Replaced(c, k) \in Nat
         /\ IsAlpha(c) => IsAlpha(Replaced(c, k))
         /\ Replaced(Replaced(c, k), l) = c
<1>1. \A i \in 1 .. 26 : Upper(k)[i] \in AsciiUpper /\ Upper(l)[Upper(k)[i] - 64] = 64 + i
  BY DEF InverseKeys
<1>2. CASE c \in AsciiLower
  <2>. DEFINE i == c - 96
              d == Upper(k)[i]
  <2>1. i \in 1 .. 26
    BY <1>2, LetterRanges
  <2>2. d \in 65 .. 90 /\ Upper(l)[d - 64] = 64 + i
    BY <1>1, <2>1, LetterRanges
  <2>3. Replaced(c, k) = LowerChar(d)
    BY <1>2, ReplacedCases
  <2>. HIDE DEF d
  <2>4. LowerChar(d) = d + 32 /\ LowerChar(64 + i) = c
    BY <2>1, <2>2 DEF LowerChar, IsUpper, AsciiUpper
  <2>. DEFINE e == d + 32
  <2>5. e \in AsciiLower /\ e - 96 = d - 64 /\ e \in Nat
    BY <2>2, LetterRanges
  <2>6. Replaced(e, l) = LowerChar(Upper(l)[e - 96])
    <3>. HIDE DEF e
    <3>. QED  BY <2>5, ReplacedCases
  <2>7. IsAlpha(e)
    BY <2>5 DEF IsAlpha, IsLower
  <2>. QED  BY <2>2, <2>3, <2>4, <2>5, <2>6, <2>7
<1>3. CASE c \in AsciiUpper
  <2>. DEFINE i == c - 64
              d == Upper(k)[i]
  <2>1. i \in 1 .. 26
    BY <1>3, LetterRanges
  <2>2. d \in AsciiUpper /\ d \in Nat /\ Upper(l)[d - 64] = 64 + i
    BY <1>1, <2>1 DEF AsciiUpper
  <2>3. Replaced(c, k) = d
    BY <1>3, ReplacedCases
  <2>. HIDE DEF d
  <2>4. Replaced(d, l) = Upper(l)[d - 64]
    BY <2>2, ReplacedCases, Zenon
  <2>5. IsAlpha(d)
    BY <2>2 DEF IsAlpha, IsUpper
  <2>. QED  BY <2>2, <2>3, <2>4, <2>5
<1>4. CASE c \notin AsciiLower /\ c \notin AsciiUpper
  <2>1. Replaced(c, k) = c /\ Replaced(c, l) = c
    BY <1>4, ReplacedCases
  <2>. QED  BY <2>1
<1>. QED  BY <1>2, <1>3, <1>4

\* The text with its characters replaced.
AllReplaced(s, k) == [i \in DOMAIN s |-> Replaced(s[i], k)]

LEMMA SubstituteUndone ==
  ASSUME NEW s \in Seq(Nat), NEW k, NEW l, InverseKeys(k, l)
  PROVE  Undoes(s, Substitute(s, k), Substitute(Substitute(s, k), l))
<1>. DEFINE t == Substitute(s, k)
            u == Substitute(t, l)
<1>0. \A v, r : Len(r) = 26 => Substitute(v, r) = AllReplaced(v, r)
  BY DEF Substitute, Map, Replaced, AllReplaced
<1>. HIDE DEF t
<1>1. /\ t = [i \in DOMAIN s |-> Replaced(s[i], k)]
      /\ u = [i \in DOMAIN t |-> Replaced(t[i], l)]
  <2>1. Len(k) = 26 /\ Len(l) = 26
    BY DEF InverseKeys
  <2>2. t = AllReplaced(s, k)
    BY <1>0, <2>1, Zenon DEF t
  <2>3. u = AllReplaced(t, l)
    BY <1>0, <2>1, Zenon
  <2>. QED  BY <2>2, <2>3 DEF AllReplaced
<1>. HIDE DEF u
<1>2. \A i \in DOMAIN s : s[i] \in Nat
  OBVIOUS
<1>3. \A i \in DOMAIN s : t[i] = Replaced(s[i], k) /\ u[i] = Replaced(t[i], l)
  BY <1>1
<1>4. \A i \in DOMAIN s : /\ t[i] \in Nat
                          /\ IsAlpha(s[i]) => IsAlpha(t[i])
                          /\ u[i] = s[i]
  <2>1. \A c \in Nat : /\ Replaced(c, k) \in Nat
                       /\ IsAlpha(c) => IsAlpha(Replaced(c, k))
                       /\ Replaced(Replaced(c, k), l) = c
    BY ReplacedBack
  <2>. QED  BY <1>2, <1>3, <2>1
<1>5. t = [i \in DOMAIN s |-> t[i]] /\ u = [i \in DOMAIN t |-> u[i]]
  BY <1>1
<1>6. Undoes(s, t, u)
  BY <1>4, <1>5, UndoneEach
<1>. QED  BY <1>6 DEF t, u

-----------------------------------------------------------------------------
(* Vigenere                                                                 *)

\* The key is of letters; a shift of Vigenere's is one of Caesar's for every
\* letter but E with an acute, which no shift brings back.
Plain == Nat \ {201, 233}

LEMMA PlainAlpha ==
  ASSUME NEW c \in Plain
  PROVE  /\ IsAlpha(c) <=> c \in AsciiUpper \cup AsciiLower
         /\ IsUpper(c) <=> c \in AsciiUpper
BY DEF Plain, IsAlpha, IsUpper, IsLower

\* The turn of the letter at i, by a key that is used up by letters only.
KeyShift(s, key, i) == Upper(key)[(VigenereTurn(s, i) % Len(Upper(key))) + 1] - 65

\* Texts with letters at the same places use up the key alike.
LEMMA SameTurns ==
  ASSUME NEW s \in Seq(Nat), NEW t \in Seq(Nat), DOMAIN t = DOMAIN s,
         \A i \in DOMAIN s : IsAlpha(s[i]) <=> IsAlpha(t[i]),
         NEW i \in DOMAIN s
  PROVE  VigenereTurn(t, i) = VigenereTurn(s, i) /\ VigenereTurn(s, i) \in Nat
<1>1. DOMAIN s = 1 .. Len(s) /\ Len(s) \in Nat
  OBVIOUS
<1>2. \A j \in 1 .. i - 1 : j \in DOMAIN s
  BY <1>1
<1>3. {j \in 1 .. i - 1 : IsAlpha(t[j])} = {j \in 1 .. i - 1 : IsAlpha(s[j])}
  BY <1>2
<1>4. Cardinality({j \in 1 .. i - 1 : IsAlpha(s[j])}) \in Nat
  <2>1. IsFiniteSet(1 .. i - 1)
    BY <1>1, FS_Interval
  <2>. QED  BY <2>1, FS_Subset, FS_CardinalityType
<1>. QED  BY <1>3, <1>4 DEF VigenereTurn

LEMMA KeyShiftType ==
  ASSUME NEW key \in Seq(Nat), key # <<>>, NEW s, NEW i, VigenereTurn(s, i) \in Nat
  PROVE  KeyShift(s, key, i) \in Int
<1>. DEFINE k == Upper(key)
<1>1. /\ DOMAIN key = 1 .. Len(key) /\ Len(key) \in Nat /\ Len(key) # 0
      /\ k = [j \in DOMAIN key |-> UpperChar(key[j])]
      /\ \A j \in DOMAIN key : key[j] \in Nat
  BY DEF Upper, Map
<1>. HIDE DEF k
<1>2. k \in Seq(Int) /\ Len(k) = Len(key)
  <2>1. \A j \in DOMAIN key : UpperChar(key[j]) \in Int
    BY <1>1 DEF UpperChar
  <2>2. k \in [1 .. Len(key) -> Int]
    BY <1>1, <2>1
  <2>. QED  BY <1>1, <2>2
<1>. DEFINE at == (VigenereTurn(s, i) % Len(k)) + 1
<1>3. at \in 1 .. Len(k)
  BY <1>1, <1>2
<1>4. k[at] \in Int
  BY <1>2, <1>3
<1>. QED  BY <1>4 DEF KeyShift, k

\* A call with a key of letters, with the sign of its direction.
VigenereText(s, key, sign) ==
  [i \in DOMAIN s |->
     IF IsAlpha(s[i])
     THEN ((s[i] - (IF IsUpper(s[i]) THEN 65 ELSE 97) + sign * KeyShift(s, key, i)) % 26)
            + (IF IsUpper(s[i]) THEN 65 ELSE 97)
     ELSE s[i]]

LEMMA VigenereValue ==
  ASSUME NEW key \in Seq(Nat), key # <<>>, \A i \in DOMAIN key : IsAlpha(key[i]),
         NEW s, NEW sign
  PROVE  Vigenere(s, key, sign) = VigenereText(s, key, sign)
BY Zenon DEF Vigenere, VigenereText, KeyShift

\* The characters of such a call are those of a shift.
LEMMA VigenereShifts ==
  ASSUME NEW c \in Plain, NEW n \in Int
  PROVE  (IF IsAlpha(c)
          THEN ((c - (IF IsUpper(c) THEN 65 ELSE 97) + n) % 26) + (IF IsUpper(c) THEN 65 ELSE 97)
          ELSE c) = Shifted(c, n)
<1>1. CASE c \in AsciiLower
  <2>1. IsAlpha(c) /\ ~IsUpper(c)
    BY <1>1, PlainAlpha, LetterRanges
  <2>2. Shifted(c, n) = 97 + ((c - 97 + n) % 26) /\ c - 97 + n \in Int
    BY <1>1, ShiftedCases DEF Plain
  <2>. QED  BY <2>1, <2>2
<1>2. CASE c \in AsciiUpper
  <2>1. IsAlpha(c) /\ IsUpper(c)
    BY <1>2, PlainAlpha
  <2>2. Shifted(c, n) = 65 + ((c - 65 + n) % 26) /\ c - 65 + n \in Int
    BY <1>2, ShiftedCases DEF Plain
  <2>. QED  BY <2>1, <2>2
<1>3. CASE c \notin AsciiLower /\ c \notin AsciiUpper
  BY <1>3, ShiftedCases, PlainAlpha
<1>. QED  BY <1>1, <1>2, <1>3

\* A shift of a plain character is plain, and a letter exactly if it is one.
LEMMA ShiftedPlain ==
  ASSUME NEW c \in Plain, NEW n \in Int
  PROVE  Shifted(c, n) \in Plain /\ (IsAlpha(c) <=> IsAlpha(Shifted(c, n)))
<1>1. CASE c \in AsciiLower
  <2>1. Shifted(c, n) = 97 + ((c - 97 + n) % 26) /\ c \in 97 .. 122
    BY <1>1, ShiftedCases, LetterRanges
  <2>2. Shifted(c, n) \in 97 .. 122
    BY <2>1
  <2>. QED  BY <1>1, <2>2 DEF IsAlpha, IsLower, AsciiLower, Plain
<1>2. CASE c \in AsciiUpper
  <2>1. Shifted(c, n) = 65 + ((c - 65 + n) % 26) /\ c \in 65 .. 90
    BY <1>2, ShiftedCases, LetterRanges
  <2>2. Shifted(c, n) \in 65 .. 90
    BY <2>1
  <2>. QED  BY <1>2, <2>2 DEF IsAlpha, IsUpper, AsciiUpper, Plain
<1>3. CASE c \notin AsciiLower /\ c \notin AsciiUpper
  <2>1. Shifted(c, n) = c
    BY <1>3, ShiftedCases
  <2>. QED  BY <2>1
<1>. QED  BY <1>1, <1>2, <1>3

\* A key of letters.
AlphaKey(key) == key \in Seq(Nat) /\ key # <<>> /\ \A i \in DOMAIN key : IsAlpha(key[i])

LEMMA VigenereUndone ==
  ASSUME NEW s \in Seq(Plain), NEW k, NEW l, AlphaKey(k), AlphaKey(l), Upper(k) = Upper(l)
  PROVE  Undoes(s, Vigenere(s, k, 1), Vigenere(Vigenere(s, k, 1), l, -1))
<1>. DEFINE t == Vigenere(s, k, 1)
            u == Vigenere(t, l, -1)
            n(i) == KeyShift(s, k, i)
<1>1. s \in Seq(Nat) /\ \A i \in DOMAIN s : s[i] \in Plain
  BY DEF Plain
<1>2. \A i \in DOMAIN s : n(i) \in Int /\ 1 * n(i) = n(i)
  <2>1. \A i \in DOMAIN s : VigenereTurn(s, i) \in Nat
    BY <1>1, SameTurns
  <2>2. \A i \in DOMAIN s : KeyShift(s, k, i) \in Int
    BY <2>1, KeyShiftType DEF AlphaKey
  <2>. QED  BY <2>2
<1>3. t = [i \in DOMAIN s |->
             IF IsAlpha(s[i])
             THEN ((s[i] - (IF IsUpper(s[i]) THEN 65 ELSE 97) + 1 * n(i)) % 26)
                    + (IF IsUpper(s[i]) THEN 65 ELSE 97)
             ELSE s[i]]
  <2>1. t = VigenereText(s, k, 1)
    BY VigenereValue DEF AlphaKey
  <2>. QED  BY <2>1, Zenon DEF VigenereText
<1>4. u = [i \in DOMAIN t |->
             IF IsAlpha(t[i])
             THEN ((t[i] - (IF IsUpper(t[i]) THEN 65 ELSE 97) + (-1) * KeyShift(t, l, i)) % 26)
                    + (IF IsUpper(t[i]) THEN 65 ELSE 97)
             ELSE t[i]]
  <2>. HIDE DEF t
  <2>1. u = VigenereText(t, l, -1)
    BY VigenereValue DEF AlphaKey
  <2>. QED  BY <2>1, Zenon DEF VigenereText
<1>. HIDE DEF t, u, n
<1>5. DOMAIN t = DOMAIN s /\ \A i \in DOMAIN s : t[i] = Shifted(s[i], n(i))
  <2>1. DOMAIN t = DOMAIN s
    BY <1>3
  <2>2. ASSUME NEW i \in DOMAIN s  PROVE t[i] = Shifted(s[i], n(i))
    <3>1. n(i) \in Int /\ 1 * n(i) = n(i) /\ s[i] \in Plain
      BY <1>1, <1>2
    <3>. QED  BY <1>3, <3>1, VigenereShifts
  <2>. QED  BY <2>1, <2>2
<1>6. \A i \in DOMAIN s : t[i] \in Plain /\ (IsAlpha(s[i]) <=> IsAlpha(t[i]))
  BY <1>1, <1>2, <1>5, ShiftedPlain
<1>7. t \in Seq(Nat)
  <2>1. DOMAIN s = 1 .. Len(s) /\ Len(s) \in Nat /\ t = [i \in DOMAIN s |-> t[i]]
    BY <1>3, <1>5
  <2>2. t \in [1 .. Len(s) -> Nat]
    BY <1>6, <2>1 DEF Plain
  <2>. QED  BY <2>1, <2>2
<1>8. \A i \in DOMAIN s : KeyShift(t, l, i) = n(i)
  BY <1>1, <1>5, <1>6, <1>7, SameTurns DEF KeyShift, n
<1>9. \A i \in DOMAIN s : u[i] = s[i]
  <2>. SUFFICES ASSUME NEW i \in DOMAIN s  PROVE u[i] = s[i]
    OBVIOUS
  <2>. DEFINE m == (-1) * n(i)
  <2>1. m \in Int /\ n(i) \in Int /\ (n(i) + m) % 26 = 0 /\ s[i] \in Nat
    BY <1>1, <1>2
  <2>2. u[i] = IF IsAlpha(t[i])
               THEN ((t[i] - (IF IsUpper(t[i]) THEN 65 ELSE 97) + m) % 26)
                      + (IF IsUpper(t[i]) THEN 65 ELSE 97)
               ELSE t[i]
    BY <1>4, <1>5, <1>8
  <2>. HIDE DEF m
  <2>3. u[i] = Shifted(t[i], m)
    BY <1>6, <2>1, <2>2, VigenereShifts
  <2>4. Shifted(Shifted(s[i], n(i)), m) = s[i]
    BY <2>1, ShiftedBack
  <2>. QED  BY <1>5, <2>3, <2>4
<1>10. Undoes(s, t, u)
  <2>1. \A i \in DOMAIN s : /\ t[i] \in Nat
                            /\ IsAlpha(s[i]) => IsAlpha(t[i])
                            /\ u[i] = s[i]
    BY <1>6, <1>9 DEF Plain
  <2>2. t = [i \in DOMAIN s |-> t[i]] /\ u = [i \in DOMAIN t |-> u[i]]
    BY <1>3, <1>4
  <2>. QED  BY <1>1, <2>1, <2>2, UndoneEach
<1>. QED  BY <1>10 DEF t, u

-----------------------------------------------------------------------------
(* Pipelines of a cipher and its inverse                                    *)

LetterTools == {"atbash", "rot13", "caesar-cipher", "vigenere-encrypt", "vigenere-decrypt",
                "substitution-cipher"}

\* A call that replaces letter by letter, and the call that undoes it.
InverseSteps(a, b) ==
  \/ a.tool = "atbash" /\ b.tool = "atbash"
  \/ a.tool = "rot13" /\ b.tool = "rot13"
  \/ /\ a.tool = "caesar-cipher" /\ b.tool = "caesar-cipher"
     /\ a.arg \in 1 .. 25 /\ b.arg = 26 - a.arg
  \/ /\ a.tool = "vigenere-encrypt" /\ b.tool = "vigenere-decrypt"
     /\ AlphaKey(a.arg) /\ AlphaKey(b.arg) /\ Upper(a.arg) = Upper(b.arg)
     /\ Len(b.arg) <= 100
  \/ /\ a.tool = "substitution-cipher" /\ b.tool = "substitution-cipher"
     /\ InverseKeys(a.arg, b.arg)

Letterwise ==
  /\ \E a, b : work.steps = <<a, b>> /\ InverseSteps(a, b)
  /\ work.alphabet \subseteq (IF Tool(1) = "vigenere-encrypt" THEN Plain ELSE Nat)
  /\ work.most \in Nat

\* None of these is the name of another kind of tool.
LEMMA LetterToolsApart ==
  ASSUME NEW x \in LetterTools
  PROVE  /\ x \notin CaseTools \cup CleanTools \cup EscapeTools \cup CodecTools
         /\ x \in CipherTools
         /\ x \notin DataTools \cup AiTools /\ x # "shuffle-lines"
<1>1. x \notin CaseTools
  BY DEF LetterTools, CaseTools
<1>2. x \notin CleanTools
  BY DEF LetterTools, CleanTools
<1>3. x \notin EscapeTools
  BY DEF LetterTools, EscapeTools
<1>4. x \notin DOMAIN DecoderOf
  BY DEF LetterTools, DecoderOf
<1>5. ASSUME NEW y \in DOMAIN DecoderOf  PROVE DecoderOf[y] # x
  BY DEF LetterTools, DecoderOf
<1>6. x \in CipherTools
  BY DEF LetterTools, CipherTools, KeyTools, RailTools
<1>7. x \notin DataTools \cup AiTools /\ x # "shuffle-lines"
  BY DEF LetterTools, DataTools, AiTools, OfflineTools, UnavailableTools
<1>. QED  BY <1>1, <1>2, <1>3, <1>4, <1>5, <1>6, <1>7 DEF CodecTools

LEMMA CipherResults ==
  ASSUME NEW step, step.tool \in LetterTools, NEW s
  PROVE  Results(step, s) = {RunCipher(step.tool, s, step.arg)}
<1>. DEFINE x == step.tool
<1>1. /\ x \notin CaseTools /\ x \notin CleanTools /\ x \notin EscapeTools
      /\ x \notin CodecTools \ EscapeTools /\ x \in CipherTools
      /\ x \notin DataTools /\ x \notin AiTools /\ x # "shuffle-lines"
  BY LetterToolsApart
<1>. QED  BY <1>1, Zenon DEF Results

\* The handler of each of these tools.
LEMMA CipherHandlers ==
  ASSUME NEW s, NEW arg
  PROVE  /\ RunCipher("atbash", s, arg) = Atbash(s)
         /\ RunCipher("rot13", s, arg) = Caesar(s, 13)
         /\ RunCipher("caesar-cipher", s, arg) = Caesar(s, arg)
         /\ RunCipher("vigenere-encrypt", s, arg) = Vigenere(s, arg, 1)
         /\ RunCipher("vigenere-decrypt", s, arg) = Vigenere(s, arg, -1)
         /\ RunCipher("substitution-cipher", s, arg) = Substitute(s, arg)
BY DEF RunCipher, Rot13

\* The cipher text of the first call.
Cipher == RunCipher(Tool(1), original, Arg(1))

LEMMA CaesarArgs ==
  ASSUME NEW k \in 1 .. 25, NEW l, l = 26 - k
  PROVE  k \in Int /\ l \in Int /\ l \in 1 .. 25 /\ (k + l) % 26 = 0
<1>1. k + l = 26
  OBVIOUS
<1>. QED  BY <1>1

LEMMA KeyLength ==
  ASSUME NEW k, AlphaKey(k), Len(k) <= 100
  PROVE  Len(k) \in 1 .. 100
<1>1. k \in Seq(Nat) /\ k # <<>>
  BY DEF AlphaKey
<1>. DEFINE n == Len(k)
<1>2. n \in Nat /\ n # 0 /\ n <= 100
  BY <1>1
<1>. HIDE DEF n
<1>3. n \in 1 .. 100
  BY <1>2
<1>. QED  BY <1>3 DEF n

LEMMA PairUndone ==
  ASSUME NEW a, NEW b, InverseSteps(a, b),
         NEW s \in Seq(IF a.tool = "vigenere-encrypt" THEN Plain ELSE Nat)
  PROVE  /\ Undoes(s, RunCipher(a.tool, s, a.arg),
                      RunCipher(b.tool, RunCipher(a.tool, s, a.arg), b.arg))
         /\ a.tool \in LetterTools /\ b.tool \in LetterTools
         /\ FieldsValid(b)
<1>1. s \in Seq(Nat)
  BY DEF Plain
<1>2. CASE a.tool = "atbash" /\ b.tool = "atbash"
  <2>1. Undoes(s, Atbash(s), Atbash(Atbash(s)))
    BY <1>1, AtbashUndone
  <2>2. FieldsValid(b)
    BY <1>2 DEF FieldsValid, RailTools, KeyTools
  <2>. QED  BY <1>2, <2>1, <2>2, CipherHandlers DEF LetterTools
<1>3. CASE a.tool = "rot13" /\ b.tool = "rot13"
  <2>1. Undoes(s, Caesar(s, 13), Caesar(Caesar(s, 13), 13))
    BY <1>1, CaesarUndone
  <2>2. FieldsValid(b)
    BY <1>3 DEF FieldsValid, RailTools, KeyTools
  <2>. QED  BY <1>3, <2>1, <2>2, CipherHandlers DEF LetterTools
<1>4. CASE /\ a.tool = "caesar-cipher" /\ b.tool = "caesar-cipher"
           /\ a.arg \in 1 .. 25 /\ b.arg = 26 - a.arg
  <2>1. Undoes(s, Caesar(s, a.arg), Caesar(Caesar(s, a.arg), b.arg))
    <3>1. a.arg \in Int /\ b.arg \in Int /\ (a.arg + b.arg) % 26 = 0
      BY <1>4, CaesarArgs
    <3>. QED  BY <1>1, <3>1, CaesarUndone
  <2>2. FieldsValid(b)
    <3>1. b.arg \in 1 .. 25
      BY <1>4, CaesarArgs
    <3>. QED  BY <1>4, <3>1, Zenon DEF FieldsValid, RailTools, KeyTools
  <2>. QED  BY <1>4, <2>1, <2>2, CipherHandlers DEF LetterTools
<1>5. CASE /\ a.tool = "vigenere-encrypt" /\ b.tool = "vigenere-decrypt"
           /\ AlphaKey(a.arg) /\ AlphaKey(b.arg) /\ Upper(a.arg) = Upper(b.arg)
           /\ Len(b.arg) <= 100
  <2>1. Undoes(s, Vigenere(s, a.arg, 1), Vigenere(Vigenere(s, a.arg, 1), b.arg, -1))
    BY <1>5, VigenereUndone
  <2>2. Len(b.arg) \in 1 .. 100
    BY <1>5, KeyLength
  <2>3. FieldsValid(b)
    BY <1>5, <2>2 DEF FieldsValid, RailTools, KeyTools
  <2>. QED  BY <1>5, <2>1, <2>3, CipherHandlers DEF LetterTools
<1>6. CASE /\ a.tool = "substitution-cipher" /\ b.tool = "substitution-cipher"
           /\ InverseKeys(a.arg, b.arg)
  <2>1. Undoes(s, Substitute(s, a.arg), Substitute(Substitute(s, a.arg), b.arg))
    BY <1>1, <1>6, SubstituteUndone
  <2>2. FieldsValid(b)
    <3>1. Len(b.arg) = 26
      BY <1>6 DEF InverseKeys
    <3>. QED  BY <1>6, <3>1 DEF FieldsValid, RailTools, KeyTools
  <2>. QED  BY <1>6, <2>1, <2>2, CipherHandlers DEF LetterTools
<1>. QED  BY <1>2, <1>3, <1>4, <1>5, <1>6 DEF InverseSteps

\* The invariant of a pipeline of two such calls: the text is the original,
\* its cipher, and the original again; and what is refused in between has no
\* letter.
PairInv ==
  /\ original \in Seq(Nat) /\ Undoes(original, Cipher, RunCipher(Tool(2), Cipher, Arg(2)))
  /\ done \in 0 .. 2
  /\ done = 0 => text = original
  /\ done = 1 => text = Cipher
  /\ done = 2 => text = original
  /\ status = "refused" /\ done = 1 => \A i \in DOMAIN original : ~IsAlpha(original[i])

CipherInv == Letterwise => PairInv

LEMMA CipherInit == Init => CipherInv
<1>. SUFFICES ASSUME Init, Letterwise  PROVE PairInv
  BY DEF CipherInv
<1>1. PICK a, b : work.steps = <<a, b>> /\ InverseSteps(a, b)
  BY DEF Letterwise
<1>2. Tool(1) = a.tool /\ Arg(1) = a.arg /\ Tool(2) = b.tool /\ Arg(2) = b.arg
  BY <1>1 DEF Tool, Arg
<1>. DEFINE S == IF Tool(1) = "vigenere-encrypt" THEN Plain ELSE Nat
<1>3. original \in Seq(S)
  <2>1. PICK m \in 0 .. work.most : original \in [1 .. m -> work.alphabet]
    BY DEF Init, BoundedSeq, SeqOf
  <2>2. m \in Nat /\ work.alphabet \subseteq S
    BY <2>1 DEF Letterwise
  <2>. HIDE DEF S
  <2>3. original \in [1 .. m -> S]
    BY <2>1, <2>2
  <2>. QED  BY <2>2, <2>3
<1>4. original \in Seq(Nat)
  BY <1>3 DEF Plain
<1>5. Undoes(original, Cipher, RunCipher(Tool(2), Cipher, Arg(2)))
  BY <1>1, <1>2, <1>3, PairUndone DEF Cipher
<1>. QED  BY <1>4, <1>5 DEF Init, PairInv

\* A text that is refused for having nothing but white space has no letter,
\* and neither has what it was ciphered from.
LEMMA BlankCipher ==
  ASSUME NEW s \in Seq(Nat), NEW t, NEW u, Undoes(s, t, u), IsBlank(t)
  PROVE  \A i \in DOMAIN s : ~IsAlpha(s[i])
<1>. SUFFICES ASSUME NEW i \in DOMAIN s, IsAlpha(s[i])  PROVE FALSE
  OBVIOUS
<1>1. IsAlpha(t[i]) /\ t[i] \in ToSet(t)
  BY DEF Undoes, ToSet
<1>2. t[i] \in Whitespace
  BY <1>1 DEF IsBlank
<1>3. \A c \in Nat : c \in Whitespace => ~IsAlpha(c)
  BY DEF Whitespace, IsAlpha, IsUpper, IsLower, AsciiUpper, AsciiLower
<1>4. t[i] \in Nat
  BY DEF Undoes
<1>. QED  BY <1>1, <1>2, <1>3, <1>4

LEMMA CipherStep ==
  ASSUME CipherInv, [Next]_vars
  PROVE  CipherInv'
<1>. SUFFICES ASSUME Letterwise'  PROVE PairInv'
  BY DEF CipherInv
<1>0. UNCHANGED <<work, original>>
  BY DEF Next, Refuse, Execute, vars
<1>1. Letterwise /\ PairInv
  <2>1. Letterwise
    BY <1>0 DEF Letterwise, Tool
  <2>. QED  BY <2>1 DEF CipherInv
<1>2. PICK a, b : work.steps = <<a, b>> /\ InverseSteps(a, b)
  BY <1>1 DEF Letterwise
<1>3. /\ Tool(1) = a.tool /\ Arg(1) = a.arg /\ Tool(2) = b.tool /\ Arg(2) = b.arg
      /\ Len(work.steps) = 2
  BY <1>2 DEF Tool, Arg
<1>4. /\ UNCHANGED <<Cipher, Tool(2), Arg(2), RunCipher(Tool(2), Cipher, Arg(2))>>
  BY <1>0 DEF Cipher, Tool, Arg
<1>5. original' = original /\ original \in Seq(Nat)
      /\ Undoes(original, Cipher, RunCipher(Tool(2), Cipher, Arg(2)))
  BY <1>0, <1>1 DEF PairInv
<1>6. a.tool \in LetterTools /\ b.tool \in LetterTools /\ FieldsValid(b)
  <2>1. <<>> \in Seq(IF a.tool = "vigenere-encrypt" THEN Plain ELSE Nat)
    OBVIOUS
  <2>. QED  BY <1>2, <2>1, PairUndone
<1>7. CASE Refuse
  <2>1. ASSUME done = 1  PROVE \A i \in DOMAIN original : ~IsAlpha(original[i])
    <3>1. Step = b /\ text = Cipher
      BY <1>1, <1>2, <2>1 DEF Step, PairInv
    <3>2. IsBlank(Cipher)
      BY <1>6, <1>7, <3>1 DEF Refuse, RequestValid
    <3>. QED  BY <1>5, <3>2, BlankCipher
  <2>. QED  BY <1>0, <1>1, <1>4, <1>7, <2>1 DEF Refuse, PairInv
<1>8. CASE Execute
  <2>1. done < 2 /\ status = "ok"
    BY <1>3, <1>8 DEF Execute, More
  <2>2. PICK result \in Results(Step, text) :
          IF result \in {Raised, Crashed}
          THEN status' = (IF result = Raised THEN "failed" ELSE "crashed")
               /\ UNCHANGED <<text, done>>
          ELSE text' = result /\ done' = done + 1 /\ UNCHANGED status
    BY <1>8 DEF Execute
  <2>3. CASE result \in {Raised, Crashed}
    <3>1. status' # "refused" /\ UNCHANGED <<text, done>>
      BY <2>2, <2>3
    <3>. QED  BY <1>0, <1>1, <1>4, <3>1 DEF PairInv
  <2>4. CASE result \notin {Raised, Crashed}
    <3>1. text' = result /\ done' = done + 1 /\ status' = "ok"
      BY <2>1, <2>2, <2>4
    <3>2. CASE done = 0
      <4>1. Step = a /\ text = original
        BY <1>1, <1>2, <3>2 DEF Step, PairInv
      <4>2. text' = Cipher
        BY <1>3, <1>6, <2>2, <3>1, <4>1, CipherResults DEF Cipher
      <4>. QED  BY <1>0, <1>1, <1>4, <3>1, <3>2, <4>2 DEF PairInv
    <3>3. CASE done = 1
      <4>1. Step = b /\ text = Cipher
        BY <1>1, <1>2, <3>3 DEF Step, PairInv
      <4>2. text' = RunCipher(Tool(2), Cipher, Arg(2))
        BY <1>3, <1>6, <2>2, <3>1, <4>1, CipherResults
      <4>3. text' = original
        BY <1>5, <4>2 DEF Undoes
      <4>. QED  BY <1>0, <1>1, <1>4, <3>1, <3>3, <4>3 DEF PairInv
    <3>. QED  BY <1>1, <2>1, <3>2, <3>3 DEF PairInv
  <2>. QED  BY <2>3, <2>4
<1>9. CASE UNCHANGED vars
  BY <1>1, <1>4, <1>9 DEF vars, PairInv
<1>. QED  BY <1>7, <1>8, <1>9 DEF Next

\* A text of any length that went through Atbash, ROT13, Caesar, Vigenere or
\* a substitution and then through the call with the inverse key is the text
\* again; the second request is refused only for a text without a letter.
\* Vigenere is without E and e with an acute (text_service.py, vigenere_encrypt),
\* which it takes for letters and shifts within A to Z.
THEOREM LetterCiphersInvert == Spec => [](Letterwise => CiphersInvert)
<1>1. Init => CipherInv
  BY CipherInit
<1>2. CipherInv /\ [Next]_vars => CipherInv'
  BY CipherStep
<1>3. CipherInv => (Letterwise => CiphersInvert)
  <2>. SUFFICES ASSUME Letterwise, PairInv  PROVE CiphersInvert
    BY DEF CipherInv
  <2>1. PICK a, b : work.steps = <<a, b>> /\ InverseSteps(a, b)
    BY DEF Letterwise
  <2>2. Tool(1) = a.tool /\ Tool(2) = b.tool /\ Len(work.steps) = 2
    BY <2>1 DEF Tool
  <2>3. Finished => text = original
    BY <2>2 DEF Finished, PairInv
  <2>4. Tool(1) \notin {"playfair-encrypt", "columnar-transposition", "nato-phonetic", "bacon-cipher"}
    BY <2>1, <2>2 DEF InverseSteps
  <2>5. ~(Tool(1) = "caesar-cipher" /\ Tool(2) = "caesar-brute-force")
    BY <2>1, <2>2 DEF InverseSteps
  <2>6. text = original => Deciphered
    BY <2>4, <2>5, Zenon DEF Deciphered
  <2>7. status = "refused" /\ done = 1 => ~\E i \in DOMAIN original : IsAlpha(original[i])
    BY DEF PairInv
  <2>. QED  BY <2>3, <2>6, <2>7 DEF CiphersInvert
<1>. QED  BY <1>1, <1>2, <1>3, PTL DEF Spec

-----------------------------------------------------------------------------
(* Sorting: the positions of a stable sort                                  *)

\* R is the order of the keys of positions: a strict order, in which keys that
\* are not apart from a third are not apart.
KeyOrder(R, n) ==
  /\ \A i, j \in 1 .. n : <<i, j>> \in R => <<j, i>> \notin R
  /\ \A i, j, k \in 1 .. n : <<i, k>> \in R => <<i, j>> \in R \/ <<j, k>> \in R

\* The position i comes before j: by its key, or by its place.
First(R, i, j) == <<i, j>> \in R \/ (<<j, i>> \notin R /\ i < j)

EarlierThan(R, n, i) == {j \in 1 .. n : j # i /\ First(R, j, i)}
PlaceOf(R, n) == [i \in 1 .. n |-> 1 + Cardinality(EarlierThan(R, n, i))]
Placing(R, n) == [k \in 1 .. n |-> CHOOSE i \in 1 .. n : PlaceOf(R, n)[i] = k]

LEMMA FirstOrder ==
  ASSUME NEW n \in Nat, NEW R, KeyOrder(R, n)
  PROVE  /\ \A i, j \in 1 .. n : i # j => First(R, i, j) \/ First(R, j, i)
         /\ \A i, j \in 1 .. n : First(R, i, j) => i # j /\ ~First(R, j, i)
         /\ \A i, j, k \in 1 .. n : First(R, i, j) /\ First(R, j, k) => First(R, i, k)
<1>1. ASSUME NEW i \in 1 .. n, NEW j \in 1 .. n, i # j
      PROVE  First(R, i, j) \/ First(R, j, i)
  <2>1. i < j \/ j < i
    BY <1>1
  <2>. QED  BY <2>1, Zenon DEF First
<1>2. ASSUME NEW i \in 1 .. n, NEW j \in 1 .. n, First(R, i, j)
      PROVE  i # j /\ ~First(R, j, i)
  <2>1. <<i, j>> \in R => <<j, i>> \notin R
    BY DEF KeyOrder
  <2>2. ~(i < j /\ j < i) /\ ~(i < i)
    OBVIOUS
  <2>. QED  BY <1>2, <2>1, <2>2, Zenon DEF First
<1>3. ASSUME NEW i \in 1 .. n, NEW j \in 1 .. n, NEW k \in 1 .. n,
             First(R, i, j), First(R, j, k)
      PROVE  First(R, i, k)
  <2>1. CASE <<i, j>> \in R
    BY <1>3, <2>1 DEF First, KeyOrder
  <2>2. CASE <<j, k>> \in R
    BY <1>3, <2>2 DEF First, KeyOrder
  <2>3. CASE <<i, j>> \notin R /\ <<j, k>> \notin R
    <3>1. <<j, i>> \notin R /\ <<k, j>> \notin R /\ i < k
      BY <1>3, <2>3 DEF First
    <3>. QED  BY <3>1 DEF First, KeyOrder
  <2>. QED  BY <2>1, <2>2, <2>3
<1>. QED  BY <1>1, <1>2, <1>3

\* The places are a numbering of the positions, in the order First.
LEMMA Places ==
  ASSUME NEW n \in Nat, NEW R, KeyOrder(R, n)
  PROVE  /\ PlaceOf(R, n) \in Bijection(1 .. n, 1 .. n)
         /\ \A i, j \in 1 .. n : First(R, i, j) => PlaceOf(R, n)[i] < PlaceOf(R, n)[j]
<1>. DEFINE E(i) == EarlierThan(R, n, i)
            place == PlaceOf(R, n)
<1>1. IsFiniteSet(1 .. n) /\ Cardinality(1 .. n) = n
  BY FS_Interval
<1>2. ASSUME NEW i \in 1 .. n
      PROVE  IsFiniteSet(E(i)) /\ Cardinality(E(i)) \in 0 .. n - 1
  <2>1. E(i) \in SUBSET ((1 .. n) \ {i})
    BY DEF EarlierThan
  <2>2. IsFiniteSet((1 .. n) \ {i}) /\ Cardinality((1 .. n) \ {i}) = n - 1
    BY <1>1, FS_RemoveElement
  <2>3. IsFiniteSet(E(i)) /\ Cardinality(E(i)) <= n - 1
    BY <2>1, <2>2, FS_Subset
  <2>4. Cardinality(E(i)) \in Nat
    BY <2>3, FS_CardinalityType
  <2>. QED  BY <2>3, <2>4
<1>3. place \in [1 .. n -> 1 .. n] /\ \A i \in 1 .. n : place[i] = 1 + Cardinality(E(i))
  BY <1>2 DEF PlaceOf
<1>4. ASSUME NEW i \in 1 .. n, NEW j \in 1 .. n, First(R, i, j)
      PROVE  place[i] < place[j]
  <2>1. E(i) \in SUBSET E(j) /\ i \in E(j) /\ i \notin E(i)
    BY <1>4, FirstOrder DEF EarlierThan
  <2>2. Cardinality(E(i)) < Cardinality(E(j))
    <3>1. Cardinality(E(i)) <= Cardinality(E(j)) /\ Cardinality(E(i)) # Cardinality(E(j))
      BY <1>2, <2>1, FS_Subset
    <3>. QED  BY <1>2, <3>1
  <2>. QED  BY <1>2, <1>3, <2>2
<1>. HIDE DEF place
<1>5. \A i, j \in 1 .. n : place[i] = place[j] => i = j
  <2>1. \A i, j \in 1 .. n : i # j => place[i] < place[j] \/ place[j] < place[i]
    BY <1>4, FirstOrder
  <2>2. \A i \in 1 .. n : place[i] \in Int
    BY <1>3
  <2>. QED  BY <2>1, <2>2
<1>6. place \in Injection(1 .. n, 1 .. n)
  BY <1>3, <1>5, Fun_IsInj
<1>7. place \in Surjection(1 .. n, 1 .. n)
  BY <1>1, <1>6, FS_Injection
<1>8. place \in Bijection(1 .. n, 1 .. n)
  BY <1>6, <1>7 DEF Bijection
<1>. QED  BY <1>4, <1>8 DEF place

\* In the order p of positions none is left out or taken twice, keys are in
\* order, and positions with the same key stay as they were.
Stable(p, R, n) ==
  /\ p \in Bijection(1 .. n, 1 .. n)
  /\ \A k, l \in 1 .. n : k < l =>
       /\ <<p[l], p[k]>> \notin R
       /\ <<p[k], p[l]>> \in R \/ p[k] < p[l]

LEMMA PlacingStable ==
  ASSUME NEW n \in Nat, NEW R, KeyOrder(R, n)
  PROVE  Stable(Placing(R, n), R, n)
<1>. DEFINE place == PlaceOf(R, n)
            p == Placing(R, n)
<1>1. /\ place \in [1 .. n -> 1 .. n]
      /\ \A k \in 1 .. n : \E i \in 1 .. n : place[i] = k
      /\ \A i, j \in 1 .. n : First(R, i, j) => place[i] < place[j]
  <2>1. place \in Bijection(1 .. n, 1 .. n)
        /\ \A i, j \in 1 .. n : First(R, i, j) => place[i] < place[j]
    BY Places
  <2>. HIDE DEF place
  <2>2. place \in [1 .. n -> 1 .. n] /\ place \in Surjection(1 .. n, 1 .. n)
    BY <2>1, Fun_BijectionProperties
  <2>3. \A k \in 1 .. n : \E i \in 1 .. n : place[i] = k
    <3>. DEFINE N == 1 .. n
    <3>1. place \in Surjection(N, N)
      BY <2>2
    <3>. HIDE DEF N
    <3>2. \A k \in N : \E i \in N : place[i] = k
      BY <3>1, Fun_SurjectionProperties, Zenon
    <3>. QED  BY <3>2 DEF N
  <2>. QED  BY <2>1, <2>2, <2>3
<1>2. \A k \in 1 .. n : p[k] \in 1 .. n /\ place[p[k]] = k
  <2>. HIDE DEF place
  <2>1. p = [k \in 1 .. n |-> CHOOSE i \in 1 .. n : place[i] = k]
    BY DEF Placing, place
  <2>. HIDE DEF p
  <2>. QED  BY <1>1, <2>1
<1>3. p \in [1 .. n -> 1 .. n]
  BY <1>2 DEF Placing
<1>. HIDE DEF place, p
<1>4. p \in Bijection(1 .. n, 1 .. n)
  <2>1. p \in Injection(1 .. n, 1 .. n)
    BY <1>2, <1>3, Fun_IsInj
  <2>2. IsFiniteSet(1 .. n)
    BY FS_Interval
  <2>3. p \in Surjection(1 .. n, 1 .. n)
    BY <2>1, <2>2, FS_Injection
  <2>. QED  BY <2>1, <2>3 DEF Bijection
<1>5. ASSUME NEW k \in 1 .. n, NEW l \in 1 .. n, k < l
      PROVE  First(R, p[k], p[l]) /\ ~First(R, p[l], p[k])
  <2>1. p[k] \in 1 .. n /\ p[l] \in 1 .. n /\ place[p[k]] < place[p[l]] /\ p[k] # p[l]
    BY <1>2, <1>5
  <2>2. ~First(R, p[l], p[k])
    <3>. SUFFICES ASSUME First(R, p[l], p[k])  PROVE FALSE
      OBVIOUS
    <3>1. place[p[l]] < place[p[k]]
      BY <1>1, <2>1
    <3>. QED  BY <1>2, <1>5, <3>1
  <2>. QED  BY <2>1, <2>2, FirstOrder
<1>6. Stable(p, R, n)
  BY <1>4, <1>5 DEF Stable, First
<1>. QED  BY <1>6 DEF p

-----------------------------------------------------------------------------
(* Sorting lines                                                            *)

\* The order of code points.
LEMMA PrefixAgrees ==
  ASSUME NEW s \in Seq(Nat), NEW t \in Seq(Nat), Len(s) <= Len(t)
  PROVE  IsPrefix(s, t) <=> \A k \in 1 .. Len(s) : s[k] = t[k]
<1>. DEFINE a == SubSeq(s, 1, Len(s))
            b == SubSeq(t, 1, Len(s))
<1>1. /\ Len(a) = Len(s) /\ a \in Seq(Nat)
      /\ Len(b) = Len(s) /\ b \in Seq(Nat)
      /\ \A k \in 1 .. Len(s) : a[k] = s[k] /\ b[k] = t[k]
  OBVIOUS
<1>2. IsPrefix(s, t) <=> a = b
  BY DEF IsPrefix
<1>. HIDE DEF a, b
<1>3. ASSUME \A k \in 1 .. Len(s) : a[k] = b[k]  PROVE a = b
  <2>1. a = [k \in 1 .. Len(s) |-> a[k]] /\ b = [k \in 1 .. Len(s) |-> b[k]]
    BY <1>1
  <2>. QED  BY <1>3, <2>1
<1>. QED  BY <1>1, <1>2, <1>3

\* The first place where two texts differ.
Differ(s, t, k) == s[k] # t[k] /\ \A j \in 1 .. k - 1 : s[j] = t[j]

LEMMA FirstDifference ==
  ASSUME NEW s \in Seq(Nat), NEW t \in Seq(Nat), NEW n \in Nat,
         \E k \in 1 .. n : s[k] # t[k]
  PROVE  \E k \in 1 .. n : Differ(s, t, k)
<1>. DEFINE S == {k \in 1 .. n : s[k] # t[k]}
<1>1. S \subseteq Nat /\ S # {}
  OBVIOUS
<1>2. \E k \in S : \A j \in S : ~(<<j, k>> \in OpToRel(<, Nat))
  <2>. HIDE DEF S
  <2>. QED  BY <1>1, NatLessThanWellFounded, WFMin
<1>3. PICK k \in S : \A j \in S : ~(<<j, k>> \in OpToRel(<, Nat))
  BY <1>2
<1>4. \A j \in S : ~(j < k)
  BY <1>1, <1>3 DEF OpToRel
<1>5. \A j \in 1 .. k - 1 : s[j] = t[j]
  BY <1>4
<1>. QED  BY <1>5 DEF Differ

LEMMA PrecedesForms ==
  ASSUME NEW s \in Seq(Nat), NEW t \in Seq(Nat)
  PROVE  Precedes(s, t) <=>
           \/ Len(s) < Len(t) /\ \A k \in 1 .. Len(s) : s[k] = t[k]
           \/ \E k \in 1 .. Len(s) :
                k <= Len(t) /\ s[k] < t[k] /\ \A j \in 1 .. k - 1 : s[j] = t[j]
<1>1. DOMAIN s = 1 .. Len(s) /\ DOMAIN t = 1 .. Len(t) /\ Len(s) \in Nat /\ Len(t) \in Nat
  OBVIOUS
<1>2. Len(s) < Len(t) => (IsPrefix(s, t) <=> \A k \in 1 .. Len(s) : s[k] = t[k])
  BY PrefixAgrees
<1>3. \A k : k \in DOMAIN s \cap DOMAIN t <=> k \in 1 .. Len(s) /\ k <= Len(t)
  BY <1>1
<1>. QED  BY <1>2, <1>3 DEF Precedes

\* It is a strict order of all texts.
LEMMA PrecedesOnce ==
  ASSUME NEW s \in Seq(Nat), NEW t \in Seq(Nat), Precedes(s, t)
  PROVE  ~Precedes(t, s)
<1>. SUFFICES ASSUME Precedes(t, s)  PROVE FALSE
  OBVIOUS
<1>0. Len(s) \in Nat /\ Len(t) \in Nat
  OBVIOUS
<1>1. \A k \in 1 .. Len(s) : s[k] \in Nat
  OBVIOUS
<1>2. \A k \in 1 .. Len(t) : t[k] \in Nat
  OBVIOUS
<1>3. CASE Len(s) < Len(t) /\ \A k \in 1 .. Len(s) : s[k] = t[k]
  <2>1. PICK k \in 1 .. Len(t) : k <= Len(s) /\ t[k] < s[k]
    BY <1>0, <1>3, PrecedesForms
  <2>. QED  BY <1>0, <1>1, <1>3, <2>1
<1>4. CASE \E k \in 1 .. Len(s) : k <= Len(t) /\ s[k] < t[k] /\ \A j \in 1 .. k - 1 : s[j] = t[j]
  <2>1. PICK k \in 1 .. Len(s) : k <= Len(t) /\ s[k] < t[k] /\ \A j \in 1 .. k - 1 : s[j] = t[j]
    BY <1>4
  <2>2. s[k] \in Nat /\ t[k] \in Nat /\ k \in 1 .. Len(t)
    BY <1>0, <1>1, <1>2, <2>1
  <2>3. CASE Len(t) < Len(s) /\ \A i \in 1 .. Len(t) : t[i] = s[i]
    BY <2>1, <2>2, <2>3
  <2>4. CASE \E i \in 1 .. Len(t) : i <= Len(s) /\ t[i] < s[i] /\ \A j \in 1 .. i - 1 : t[j] = s[j]
    <3>1. PICK i \in 1 .. Len(t) : i <= Len(s) /\ t[i] < s[i] /\ \A j \in 1 .. i - 1 : t[j] = s[j]
      BY <2>4
    <3>2. s[i] \in Nat /\ t[i] \in Nat
      BY <1>0, <1>1, <1>2, <3>1
    <3>3. CASE i = k
      BY <2>1, <2>2, <3>1, <3>3
    <3>4. CASE i < k
      BY <2>1, <3>1, <3>2, <3>4
    <3>5. CASE k < i
      BY <2>1, <2>2, <3>1, <3>5
    <3>. QED  BY <3>3, <3>4, <3>5
  <2>. QED  BY <2>3, <2>4, PrecedesForms
<1>. QED  BY <1>3, <1>4, PrecedesForms

LEMMA PrecedesTotal ==
  ASSUME NEW s \in Seq(Nat), NEW t \in Seq(Nat)
  PROVE  Precedes(s, t) \/ s = t \/ Precedes(t, s)
<1>0. /\ Len(s) \in Nat /\ Len(t) \in Nat
      /\ s = [k \in 1 .. Len(s) |-> s[k]] /\ t = [k \in 1 .. Len(t) |-> t[k]]
      /\ \A k \in 1 .. Len(s) : s[k] \in Nat
      /\ \A k \in 1 .. Len(t) : t[k] \in Nat
  OBVIOUS
<1>. DEFINE n == IF Len(s) <= Len(t) THEN Len(s) ELSE Len(t)
<1>1. n \in Nat /\ n <= Len(s) /\ n <= Len(t)
  BY <1>0
<1>2. CASE \E k \in 1 .. n : s[k] # t[k]
  <2>. HIDE DEF n
  <2>1. PICK k \in 1 .. n : Differ(s, t, k)
    BY <1>1, <1>2, FirstDifference
  <2>2. k \in 1 .. Len(s) /\ k <= Len(t) /\ k \in 1 .. Len(t) /\ k <= Len(s)
    BY <1>0, <1>1, <2>1
  <2>3. s[k] < t[k] \/ t[k] < s[k]
    BY <1>0, <2>1, <2>2 DEF Differ
  <2>4. CASE s[k] < t[k]
    BY <2>1, <2>2, <2>4, PrecedesForms DEF Differ
  <2>5. CASE t[k] < s[k]
    BY <2>1, <2>2, <2>5, PrecedesForms DEF Differ
  <2>. QED  BY <2>3, <2>4, <2>5
<1>3. CASE \A k \in 1 .. n : s[k] = t[k]
  <2>1. CASE Len(s) < Len(t)
    <3>1. \A k \in 1 .. Len(s) : s[k] = t[k]
      BY <1>0, <1>3, <2>1
    <3>. QED  BY <2>1, <3>1, PrecedesForms
  <2>2. CASE Len(t) < Len(s)
    <3>1. \A k \in 1 .. Len(t) : t[k] = s[k]
      BY <1>0, <1>3, <2>2
    <3>. QED  BY <2>2, <3>1, PrecedesForms
  <2>3. CASE Len(s) = Len(t)
    BY <1>0, <1>3, <2>3
  <2>4. Len(s) < Len(t) \/ Len(t) < Len(s) \/ Len(s) = Len(t)
    <3>1. Len(s) \in Nat /\ Len(t) \in Nat
      OBVIOUS
    <3>. QED  BY <3>1
  <2>. QED  BY <2>1, <2>2, <2>3, <2>4
<1>. QED  BY <1>2, <1>3

LEMMA PrecedesOn ==
  ASSUME NEW s \in Seq(Nat), NEW t \in Seq(Nat), NEW u \in Seq(Nat),
         Precedes(s, t), Precedes(t, u)
  PROVE  Precedes(s, u)
<1>0. /\ Len(s) \in Nat /\ Len(t) \in Nat /\ Len(u) \in Nat
      /\ \A k \in 1 .. Len(s) : s[k] \in Nat
      /\ \A k \in 1 .. Len(t) : t[k] \in Nat
      /\ \A k \in 1 .. Len(u) : u[k] \in Nat
  OBVIOUS
<1>1. CASE Len(s) < Len(t) /\ \A k \in 1 .. Len(s) : s[k] = t[k]
  <2>1. CASE Len(t) < Len(u) /\ \A k \in 1 .. Len(t) : t[k] = u[k]
    <3>1. Len(s) < Len(u) /\ \A k \in 1 .. Len(s) : s[k] = u[k]
      BY <1>0, <1>1, <2>1
    <3>. QED  BY <3>1, PrecedesForms
  <2>2. CASE \E k \in 1 .. Len(t) : k <= Len(u) /\ t[k] < u[k] /\ \A j \in 1 .. k - 1 : t[j] = u[j]
    <3>1. PICK k \in 1 .. Len(t) : k <= Len(u) /\ t[k] < u[k] /\ \A j \in 1 .. k - 1 : t[j] = u[j]
      BY <2>2
    <3>2. CASE k <= Len(s)
      <4>1. k \in 1 .. Len(s) /\ s[k] < u[k] /\ \A j \in 1 .. k - 1 : s[j] = u[j]
        BY <1>0, <1>1, <3>1, <3>2
      <4>. QED  BY <3>1, <4>1, PrecedesForms
    <3>3. CASE Len(s) < k
      <4>1. Len(s) < Len(u) /\ \A j \in 1 .. Len(s) : s[j] = u[j]
        BY <1>0, <1>1, <3>1, <3>3
      <4>. QED  BY <4>1, PrecedesForms
    <3>. QED  BY <1>0, <3>2, <3>3
  <2>. QED  BY <2>1, <2>2, PrecedesForms
<1>2. CASE \E k \in 1 .. Len(s) : k <= Len(t) /\ s[k] < t[k] /\ \A j \in 1 .. k - 1 : s[j] = t[j]
  <2>1. PICK k \in 1 .. Len(s) : k <= Len(t) /\ s[k] < t[k] /\ \A j \in 1 .. k - 1 : s[j] = t[j]
    BY <1>2
  <2>2. s[k] \in Nat /\ t[k] \in Nat /\ k \in 1 .. Len(t)
    BY <1>0, <2>1
  <2>3. CASE Len(t) < Len(u) /\ \A i \in 1 .. Len(t) : t[i] = u[i]
    <3>1. k <= Len(u) /\ s[k] < u[k] /\ \A j \in 1 .. k - 1 : s[j] = u[j]
      BY <1>0, <2>1, <2>2, <2>3
    <3>. QED  BY <3>1, PrecedesForms
  <2>4. CASE \E i \in 1 .. Len(t) : i <= Len(u) /\ t[i] < u[i] /\ \A j \in 1 .. i - 1 : t[j] = u[j]
    <3>1. PICK i \in 1 .. Len(t) : i <= Len(u) /\ t[i] < u[i] /\ \A j \in 1 .. i - 1 : t[j] = u[j]
      BY <2>4
    <3>2. CASE i <= k
      <4>1. i \in 1 .. Len(s) /\ i \in 1 .. Len(u)
        <5>1. Len(s) \in Nat /\ Len(u) \in Nat /\ i \in Nat /\ 1 <= i /\ i <= Len(u)
          BY <3>1
        <5>2. k \in Nat /\ k <= Len(s)
          BY <2>1
        <5>. QED  BY <3>2, <5>1, <5>2
      <4>2. s[i] \in Nat /\ t[i] \in Nat /\ u[i] \in Nat /\ t[i] < u[i]
        BY <1>0, <3>1, <4>1, Zenon
      <4>3. s[i] <= t[i]
        <5>1. CASE i = k
          BY <2>1, <2>2, <5>1
        <5>2. CASE i # k
          <6>1. i \in 1 .. k - 1
            BY <3>2, <5>2
          <6>. QED  BY <2>1, <4>2, <6>1
        <5>. QED  BY <5>1, <5>2
      <4>4. \A j \in 1 .. i - 1 : s[j] = u[j]
        <5>. SUFFICES ASSUME NEW j \in 1 .. i - 1  PROVE s[j] = u[j]
          OBVIOUS
        <5>1. j \in 1 .. k - 1
          BY <3>2
        <5>. QED  BY <2>1, <3>1, <5>1
      <4>5. s[i] < u[i] /\ i <= Len(u)
        <5>1. \A a, b, c \in Nat : a <= b /\ b < c => a < c
          OBVIOUS
        <5>. QED  BY <3>1, <4>2, <4>3, <5>1, Zenon
      <4>. QED  BY <4>1, <4>4, <4>5, PrecedesForms
    <3>3. CASE k < i
      <4>1. k \in 1 .. i - 1
        BY <3>3
      <4>2. t[k] = u[k] /\ s[k] < u[k]
        BY <2>1, <3>1, <4>1
      <4>3. k <= Len(u)
        <5>1. Len(u) \in Nat /\ i <= Len(u)
          BY <3>1
        <5>. QED  BY <3>3, <5>1
      <4>4. \A j \in 1 .. k - 1 : s[j] = u[j]
        <5>. SUFFICES ASSUME NEW j \in 1 .. k - 1  PROVE s[j] = u[j]
          OBVIOUS
        <5>1. j \in 1 .. i - 1
          BY <3>3
        <5>. QED  BY <2>1, <3>1, <5>1
      <4>. QED  BY <4>2, <4>3, <4>4, PrecedesForms
    <3>. QED  BY <3>2, <3>3
  <2>. QED  BY <2>3, <2>4, PrecedesForms
<1>. QED  BY <1>1, <1>2, PrecedesForms

LEMMA PrecedesApart ==
  ASSUME NEW s \in Seq(Nat), NEW t \in Seq(Nat), NEW u \in Seq(Nat), Precedes(s, u)
  PROVE  Precedes(s, t) \/ Precedes(t, u)
BY PrecedesTotal, PrecedesOn

\* The order of keys that a comparison of lines gives.
FoldedKeys(ls) ==
  {e \in (DOMAIN ls) \X (DOMAIN ls) : CaseFolded(ls[e[1]], ls[e[2]])}
FoldedKeysDown(ls) ==
  {e \in (DOMAIN ls) \X (DOMAIN ls) : CaseFolded(ls[e[2]], ls[e[1]])}
LengthKeys(ls) ==
  {e \in (DOMAIN ls) \X (DOMAIN ls) : Len(ls[e[1]]) < Len(ls[e[2]])}

LEMMA LowerType ==
  ASSUME NEW s \in Seq(Nat)
  PROVE  Lower(s) \in Seq(Nat)
<1>1. /\ DOMAIN s = 1 .. Len(s) /\ Len(s) \in Nat
      /\ Lower(s) = [i \in DOMAIN s |-> LowerChar(s[i])]
      /\ \A i \in DOMAIN s : s[i] \in Nat
  BY DEF Lower, Map
<1>2. \A i \in DOMAIN s : LowerChar(s[i]) \in Nat
  BY <1>1 DEF LowerChar
<1>3. Lower(s) \in [1 .. Len(s) -> Nat]
  BY <1>1, <1>2
<1>. QED  BY <1>1, <1>3

LEMMA FoldedOrder ==
  ASSUME NEW ls \in Seq(Seq(Nat))
  PROVE  KeyOrder(FoldedKeys(ls), Len(ls)) /\ KeyOrder(FoldedKeysDown(ls), Len(ls))
<1>. DEFINE n == Len(ls)
            before(i, j) == CaseFolded(ls[i], ls[j])
<1>1. DOMAIN ls = 1 .. n /\ \A i \in 1 .. n : ls[i] \in Seq(Nat)
  OBVIOUS
<1>2. \A i \in 1 .. n : Lower(ls[i]) \in Seq(Nat)
  BY <1>1, LowerType
<1>3. ASSUME NEW i \in 1 .. n, NEW j \in 1 .. n, before(i, j)  PROVE ~before(j, i)
  BY <1>2, <1>3, PrecedesOnce DEF CaseFolded
<1>4. ASSUME NEW i \in 1 .. n, NEW j \in 1 .. n, NEW k \in 1 .. n, before(i, k)
      PROVE  before(i, j) \/ before(j, k)
  BY <1>2, <1>4, PrecedesApart DEF CaseFolded
<1>5. \A i, j \in 1 .. n : /\ <<i, j>> \in FoldedKeys(ls) <=> before(i, j)
                           /\ <<i, j>> \in FoldedKeysDown(ls) <=> before(j, i)
  BY <1>1 DEF FoldedKeys, FoldedKeysDown
<1>. HIDE DEF before, n
<1>6. KeyOrder(FoldedKeys(ls), n) /\ KeyOrder(FoldedKeysDown(ls), n)
  BY <1>3, <1>4, <1>5, Zenon DEF KeyOrder
<1>. QED  BY <1>6 DEF n

LEMMA LengthOrder ==
  ASSUME NEW ls \in Seq(Seq(Nat))
  PROVE  KeyOrder(LengthKeys(ls), Len(ls))
<1>. DEFINE n == Len(ls)
            before(i, j) == Len(ls[i]) < Len(ls[j])
<1>1. DOMAIN ls = 1 .. n /\ \A i \in 1 .. n : Len(ls[i]) \in Nat
  OBVIOUS
<1>2. ASSUME NEW i \in 1 .. n, NEW j \in 1 .. n, before(i, j)  PROVE ~before(j, i)
  BY <1>1, <1>2
<1>3. ASSUME NEW i \in 1 .. n, NEW j \in 1 .. n, NEW k \in 1 .. n, before(i, k)
      PROVE  before(i, j) \/ before(j, k)
  BY <1>1, <1>3
<1>4. \A i, j \in 1 .. n : <<i, j>> \in LengthKeys(ls) <=> before(i, j)
  BY <1>1 DEF LengthKeys
<1>. HIDE DEF before, n
<1>5. KeyOrder(LengthKeys(ls), n)
  BY <1>2, <1>3, <1>4, Zenon DEF KeyOrder
<1>. QED  BY <1>5 DEF n

\* The three sorts of lines ("sort-lines-asc", "sort-lines-desc", "sort-by-length",
\* text_service.py) are stable sorts of any lines: no line is lost, invented or
\* taken twice, the keys are in order, and lines with the same key stay in their
\* order, in the reversed sort too.
THEOREM SortsAreStable ==
  ASSUME NEW ls \in Seq(Seq(Nat))
  PROVE  /\ \E p : /\ Stable(p, FoldedKeys(ls), Len(ls))
                   /\ SortAsc(ls) = [k \in 1 .. Len(ls) |-> ls[p[k]]]
         /\ \E p : /\ Stable(p, FoldedKeysDown(ls), Len(ls))
                   /\ SortDesc(ls) = [k \in 1 .. Len(ls) |-> ls[p[k]]]
         /\ \E p : /\ Stable(p, LengthKeys(ls), Len(ls))
                   /\ SortByLength(ls) = [k \in 1 .. Len(ls) |-> ls[p[k]]]
<1>. DEFINE n == Len(ls)
            N == 1 .. n
<1>1. n \in Nat /\ DOMAIN ls = N
  OBVIOUS
<1>2. SortAsc(ls) = [k \in N |-> ls[Placing(FoldedKeys(ls), n)[k]]]
  <2>. DEFINE before(i, j) == CaseFolded(ls[i], ls[j])
              E(i) == {j \in N : j # i /\ (before(j, i) \/ (~before(i, j) /\ j < i))}
              R == FoldedKeys(ls)
              rank == [i \in N |-> 1 + Cardinality(E(i))]
              order == [k \in N |-> CHOOSE i \in N : rank[i] = k]
  <2>1. SortAsc(ls) = [k \in DOMAIN order |-> ls[order[k]]]
    BY DEF SortAsc, Sorted, SortedPositions, Map
  <2>2. \A i, j \in N : <<i, j>> \in R <=> before(i, j)
    BY <1>1 DEF FoldedKeys
  <2>. HIDE DEF R, before
  <2>3. \A i \in N : E(i) = EarlierThan(R, n, i)
    <3>. SUFFICES ASSUME NEW i \in N  PROVE E(i) = EarlierThan(R, n, i)
      OBVIOUS
    <3>1. EarlierThan(R, n, i) = {j \in N : j # i /\ First(R, j, i)}
      BY DEF EarlierThan
    <3>. HIDE DEF N
    <3>2. \A j \in N : First(R, j, i) <=> before(j, i) \/ (~before(i, j) /\ j < i)
      BY <2>2 DEF First
    <3>. QED  BY <3>1, <3>2
  <2>. HIDE DEF E
  <2>4. rank = PlaceOf(R, n)
    BY <2>3 DEF PlaceOf
  <2>. HIDE DEF rank
  <2>5. order = Placing(R, n)
    BY <2>4 DEF Placing
  <2>6. DOMAIN order = N
    OBVIOUS
  <2>. HIDE DEF order, N, n
  <2>. QED  BY <2>1, <2>5, <2>6 DEF R
<1>3. SortDesc(ls) = [k \in N |-> ls[Placing(FoldedKeysDown(ls), n)[k]]]
  <2>. DEFINE before(i, j) == CaseFolded(ls[j], ls[i])
              E(i) == {j \in N : j # i /\ (before(j, i) \/ (~before(i, j) /\ j < i))}
              R == FoldedKeysDown(ls)
              rank == [i \in N |-> 1 + Cardinality(E(i))]
              order == [k \in N |-> CHOOSE i \in N : rank[i] = k]
  <2>1. SortDesc(ls) = [k \in DOMAIN order |-> ls[order[k]]]
    BY DEF SortDesc, Sorted, SortedPositions, Map
  <2>2. \A i, j \in N : <<i, j>> \in R <=> before(i, j)
    BY <1>1 DEF FoldedKeysDown
  <2>. HIDE DEF R, before
  <2>3. \A i \in N : E(i) = EarlierThan(R, n, i)
    <3>. SUFFICES ASSUME NEW i \in N  PROVE E(i) = EarlierThan(R, n, i)
      OBVIOUS
    <3>1. EarlierThan(R, n, i) = {j \in N : j # i /\ First(R, j, i)}
      BY DEF EarlierThan
    <3>. HIDE DEF N
    <3>2. \A j \in N : First(R, j, i) <=> before(j, i) \/ (~before(i, j) /\ j < i)
      BY <2>2 DEF First
    <3>. QED  BY <3>1, <3>2
  <2>. HIDE DEF E
  <2>4. rank = PlaceOf(R, n)
    BY <2>3 DEF PlaceOf
  <2>. HIDE DEF rank
  <2>5. order = Placing(R, n)
    BY <2>4 DEF Placing
  <2>6. DOMAIN order = N
    OBVIOUS
  <2>. HIDE DEF order, N, n
  <2>. QED  BY <2>1, <2>5, <2>6 DEF R
<1>4. SortByLength(ls) = [k \in N |-> ls[Placing(LengthKeys(ls), n)[k]]]
  <2>. DEFINE before(i, j) == Len(ls[i]) < Len(ls[j])
              E(i) == {j \in N : j # i /\ (before(j, i) \/ (~before(i, j) /\ j < i))}
              R == LengthKeys(ls)
              rank == [i \in N |-> 1 + Cardinality(E(i))]
              order == [k \in N |-> CHOOSE i \in N : rank[i] = k]
  <2>1. SortByLength(ls) = [k \in DOMAIN order |-> ls[order[k]]]
    BY DEF SortByLength, Sorted, SortedPositions, Map
  <2>2. \A i, j \in N : <<i, j>> \in R <=> before(i, j)
    BY <1>1 DEF LengthKeys
  <2>. HIDE DEF R, before
  <2>3. \A i \in N : E(i) = EarlierThan(R, n, i)
    <3>. SUFFICES ASSUME NEW i \in N  PROVE E(i) = EarlierThan(R, n, i)
      OBVIOUS
    <3>1. EarlierThan(R, n, i) = {j \in N : j # i /\ First(R, j, i)}
      BY DEF EarlierThan
    <3>. HIDE DEF N
    <3>2. \A j \in N : First(R, j, i) <=> before(j, i) \/ (~before(i, j) /\ j < i)
      BY <2>2 DEF First
    <3>. QED  BY <3>1, <3>2
  <2>. HIDE DEF E
  <2>4. rank = PlaceOf(R, n)
    BY <2>3 DEF PlaceOf
  <2>. HIDE DEF rank
  <2>5. order = Placing(R, n)
    BY <2>4 DEF Placing
  <2>6. DOMAIN order = N
    OBVIOUS
  <2>. HIDE DEF order, N, n
  <2>. QED  BY <2>1, <2>5, <2>6 DEF R
<1>. HIDE DEF n
<1>5. /\ Stable(Placing(FoldedKeys(ls), n), FoldedKeys(ls), n)
      /\ Stable(Placing(FoldedKeysDown(ls), n), FoldedKeysDown(ls), n)
      /\ Stable(Placing(LengthKeys(ls), n), LengthKeys(ls), n)
  <2>1. /\ KeyOrder(FoldedKeys(ls), n)
        /\ KeyOrder(FoldedKeysDown(ls), n)
        /\ KeyOrder(LengthKeys(ls), n)
    BY FoldedOrder, LengthOrder DEF n
  <2>. QED  BY <1>1, <2>1, PlacingStable
<1>. QED  BY <1>2, <1>3, <1>4, <1>5, Zenon DEF n

\* "columnar-transposition" reads the columns by the letters of its key.
LetterKeys(s) == {e \in (DOMAIN s) \X (DOMAIN s) : s[e[1]] < s[e[2]]}

\* Its order of the columns (_columnar_transposition_line, text_service.py) takes each
\* column once, by its letter without regard to case, and columns under the same
\* letter from the left: no part of a line is written twice, for a key of any letters.
THEOREM ColumnsAreStable ==
  ASSUME NEW key \in Seq(Nat)
  PROVE  Stable(ColumnOrder(key), LetterKeys(Upper(key)), Len(key))
<1>. DEFINE s == Upper(key)
            n == Len(s)
            N == 1 .. n
            R == LetterKeys(s)
            E(i) == {j \in N : j # i /\ (s[j] < s[i] \/ (~(s[i] < s[j]) /\ j < i))}
            rank == [i \in N |-> 1 + Cardinality(E(i))]
            order == [k \in N |-> CHOOSE i \in N : rank[i] = k]
<1>1. /\ n = Len(key) /\ n \in Nat /\ DOMAIN s = N
      /\ \A i \in N : s[i] \in Nat
  <2>1. /\ DOMAIN key = 1 .. Len(key) /\ Len(key) \in Nat
        /\ s = [i \in DOMAIN key |-> UpperChar(key[i])]
        /\ \A i \in DOMAIN key : key[i] \in Nat
    BY DEF Upper, Map
  <2>2. \A i \in DOMAIN key : UpperChar(key[i]) \in Nat
    <3>1. \A c \in Nat : UpperChar(c) \in Nat
      BY DEF UpperChar, IsLower, AsciiLower
    <3>. QED  BY <2>1, <3>1
  <2>3. s \in Seq(Nat) /\ DOMAIN s = DOMAIN key
    BY <2>1, <2>2
  <2>. HIDE DEF s
  <2>. QED  BY <2>1, <2>3
<1>2. ColumnOrder(key) = order
  BY DEF ColumnOrder, SortedPositions
<1>. HIDE DEF s, n
<1>3. \A i, j \in N : <<i, j>> \in R <=> s[i] < s[j]
  BY <1>1 DEF LetterKeys
<1>. HIDE DEF R
<1>4. KeyOrder(R, n)
  <2>1. \A i, j \in N : s[i] < s[j] => ~(s[j] < s[i])
    BY <1>1
  <2>2. \A i, j, k \in N : s[i] < s[k] => s[i] < s[j] \/ s[j] < s[k]
    BY <1>1
  <2>. QED  BY <1>3, <2>1, <2>2, Zenon DEF KeyOrder
<1>5. \A i \in N : E(i) = EarlierThan(R, n, i)
  <2>. SUFFICES ASSUME NEW i \in N  PROVE E(i) = EarlierThan(R, n, i)
    OBVIOUS
  <2>1. EarlierThan(R, n, i) = {j \in N : j # i /\ First(R, j, i)}
    BY DEF EarlierThan
  <2>. HIDE DEF N
  <2>2. \A j \in N : First(R, j, i) <=> s[j] < s[i] \/ (~(s[i] < s[j]) /\ j < i)
    BY <1>3 DEF First
  <2>. QED  BY <2>1, <2>2
<1>. HIDE DEF E
<1>6. rank = PlaceOf(R, n)
  BY <1>5 DEF PlaceOf
<1>. HIDE DEF rank
<1>7. order = Placing(R, n)
  BY <1>6 DEF Placing
<1>. HIDE DEF order
<1>8. Stable(order, R, n)
  BY <1>1, <1>4, <1>7, PlacingStable
<1>. QED  BY <1>1, <1>2, <1>8 DEF R, s

=============================================================================
