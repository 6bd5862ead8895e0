-------------------------------- MODULE Text --------------------------------
(***************************************************************************)
(* Python strings as text_service.py uses them: sequences of code points,  *)
(* with the character classes, splits, joins and sorts its tools share.    *)
(***************************************************************************)
EXTENDS Integers, SequencesExt

Newline == 10
Space   == 32

Whitespace == (9 .. 13) \cup (28 .. 32) \cup {133, 160}
LineBreaks == (10 .. 13) \cup (28 .. 30) \cup {133, 8232, 8233}

\* ASCII, and one letter beyond it: U+00C9 and U+00E9.
AsciiUpper == 65 .. 90
AsciiLower == 97 .. 122
Digits     == 48 .. 57
IsUpper(c) == c \in AsciiUpper \cup {201}
IsLower(c) == c \in AsciiLower \cup {233}
IsAlpha(c) == IsUpper(c) \/ IsLower(c)

UpperChar(c) == IF IsLower(c) THEN c - 32 ELSE c
LowerChar(c) == IF IsUpper(c) THEN c + 32 ELSE c

Map(Op(_), s) == [i \in DOMAIN s |-> Op(s[i])]
Upper(s) == Map(UpperChar, s)
Lower(s) == Map(LowerChar, s)
Capitalize(s) == [i \in DOMAIN s |-> IF i = 1 THEN UpperChar(s[i]) ELSE LowerChar(s[i])]

\* The elements of s at the positions that pass the test.
KeepAt(Test(_), s) ==
  LET kept == SelectSeq([i \in DOMAIN s |-> i], Test) IN Map(LAMBDA i : s[i], kept)

\* s cut at every separator: text.split(sep).
Pieces(s, Cut(_)) ==
  FoldLeft(LAMBDA ps, c : IF Cut(c) THEN Append(ps, <<>>)
                          ELSE [ps EXCEPT ![Len(ps)] = Append(@, c)],
           <<(<<>>)>>, s)

NonEmpty(ss) == SelectSeq(ss, LAMBDA w : w # <<>>)

Lines(s) == Pieces(s, LAMBDA c : c = Newline)
Words(s) == NonEmpty(Pieces(s, LAMBDA c : c \in Whitespace))

\* text.splitlines(): a final line break starts no line, "\r\n" is one break.
SplitLines(s) ==
  LET crlf == KeepAt(LAMBDA i : ~(i > 1 /\ s[i] = 10 /\ s[i - 1] = 13), s)
      ps == Pieces(crlf, LAMBDA c : c \in LineBreaks)
  IN IF Last(ps) = <<>> THEN Front(ps) ELSE ps

Join(sep, ss) ==
  IF ss = <<>> THEN <<>>
  ELSE FoldLeft(LAMBDA a, b : a \o sep \o b, Head(ss), Tail(ss))

JoinLines(ss) == Join(<<Newline>>, ss)
JoinWords(ss) == Join(<<Space>>, ss)

IsBlank(s) == ToSet(s) \subseteq Whitespace

Strip(s) ==
  LET solid == {i \in DOMAIN s : s[i] \notin Whitespace}
  IN IF solid = {} THEN <<>> ELSE SubSeq(s, Min(solid), Max(solid))

\* No text: the handler raised one of the exceptions its tool declares.
Raised == <<-1>>

\* "each line should be transformed as its own independent string"
PerLine(Op(_), s) ==
  LET ls == Map(Op, Lines(s)) IN IF Contains(ls, Raised) THEN Raised ELSE JoinLines(ls)

\* Neither: an exception the tool does not declare, which is the server's error.
Crashed == <<-2>>

\* text.split(part), of one or more characters, from the left.
SplitBy(s, part) ==
  LET here(i) == i + Len(part) - 1 <= Len(s) /\ SubSeq(s, i, i + Len(part) - 1) = part
      step(r, i) ==
        IF r.skip > 0 THEN [r EXCEPT !.skip = @ - 1]
        ELSE IF here(i) THEN [skip |-> Len(part) - 1, ps |-> Append(r.ps, <<>>)]
        ELSE [r EXCEPT !.ps[Len(r.ps)] = Append(@, s[i])]
  IN FoldLeft(step, [skip |-> 0, ps |-> <<(<<>>)>>], [i \in DOMAIN s |-> i]).ps

\* sorted(): stable, by a Boolean order; the positions 1 .. n in order.
SortedPositions(n, Before(_, _)) ==
  LET first(i, j) == Before(i, j) \/ (~Before(j, i) /\ i < j)
      rank == [i \in 1 .. n |-> 1 + Cardinality({j \in 1 .. n : j # i /\ first(j, i)})]
  IN [k \in 1 .. n |-> CHOOSE i \in 1 .. n : rank[i] = k]

Sorted(Before(_, _), s) ==
  Map(LAMBDA i : s[i], SortedPositions(Len(s), LAMBDA i, j : Before(s[i], s[j])))

\* Lexicographic order of code points, a proper prefix first.
Precedes(s, t) ==
  \/ Len(s) < Len(t) /\ IsPrefix(s, t)
  \/ \E k \in DOMAIN s \cap DOMAIN t :
       s[k] < t[k] /\ \A j \in 1 .. k - 1 : s[j] = t[j]

Contained(part, s) ==
  \E i \in 0 .. Len(s) - Len(part) : SubSeq(s, i + 1, i + Len(part)) = part
=============================================================================
