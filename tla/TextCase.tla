------------------------------ MODULE TextCase ------------------------------
(* The naming and case tools of text_service.py, on one line or a text.     *)
EXTENDS Text

\* lowercase or digit before uppercase, and the last capital of an acronym.
StartsWord(s, i) ==
  /\ i > 1
  /\ s[i] \in AsciiUpper
  /\ \/ s[i - 1] \in AsciiLower \cup Digits
     \/ s[i - 1] \in AsciiUpper /\ i < Len(s) /\ s[i + 1] \in AsciiLower

\* Variant: only the underscore parts words.
IsSeparator_Underscore(c) == c = 95

IsSeparator(c) == c \notin AsciiUpper \cup AsciiLower \cup Digits

SplitIdentifierWords(s) ==
  NonEmpty(FoldLeft(LAMBDA ws, i :
      IF IsSeparator(s[i]) THEN Append(ws, <<>>)
      ELSE IF StartsWord(s, i) THEN Append(ws, <<s[i]>>)
      ELSE [ws EXCEPT ![Len(ws)] = Append(@, s[i])],
    <<(<<>>)>>, [i \in DOMAIN s |-> i]))

\* An acronym, which str.isupper recognises, is left as it is.
SmartCapitalize(w) ==
  IF (\E i \in DOMAIN w : IsUpper(w[i])) /\ (\A i \in DOMAIN w : ~IsLower(w[i]))
  THEN w ELSE Capitalize(w)

UpperCamelLine(s) == FlattenSeq(Map(SmartCapitalize, SplitIdentifierWords(s)))

LowerCamelLine(s) ==
  LET ws == SplitIdentifierWords(s) IN
  IF ws = <<>> THEN <<>>
  ELSE Lower(Head(ws)) \o FlattenSeq(Map(SmartCapitalize, Tail(ws)))

SnakeLine(s)    == Join(<<95>>, Map(Lower, SplitIdentifierWords(s)))
KebabLine(s)    == Join(<<45>>, Map(Lower, SplitIdentifierWords(s)))
DotLine(s)      == Join(<<46>>, Map(Lower, SplitIdentifierWords(s)))
PathLine(s)     == Join(<<47>>, Map(Lower, SplitIdentifierWords(s)))
FlatLine(s)     == FlattenSeq(Map(Lower, SplitIdentifierWords(s)))
ConstantLine(s) == Join(<<95>>, Map(Upper, SplitIdentifierWords(s)))
CobolLine(s)    == Join(<<45>>, Map(Upper, SplitIdentifierWords(s)))
TrainLine(s)    == Join(<<45>>, Map(SmartCapitalize, SplitIdentifierWords(s)))

InverseCase(s) == Map(LAMBDA c : IF IsUpper(c) THEN LowerChar(c) ELSE UpperChar(c), s)

(* Each mark, and a missing last one, ends a sentence.                      *)
EndMarks == {46, 63, 33}
SentenceLine(s) ==
  LET t == Strip(s)
      marked == t # <<>> /\ Last(t) \in EndMarks
      parts == Pieces(IF marked THEN Front(t) ELSE t, LAMBDA c : c \in EndMarks)
      sentences == Map(Capitalize, NonEmpty(Map(Strip, parts)))
  IN IF t = <<>> THEN t
     ELSE Append(Join(<<46, Space>>, sentences), IF marked THEN Last(t) ELSE 46)

TitleLine(s) == JoinWords(Map(Capitalize, Words(s)))

FirstUp(w) == [i \in DOMAIN w |-> IF i = 1 THEN UpperChar(w[i]) ELSE w[i]]
CapitalizeWordsLine(s) ==
  JoinWords(Map(FirstUp, Pieces(s, LAMBDA c : c = Space)))

AlternatingCase(s) ==
  LET letters(i) == Cardinality({j \in 1 .. i - 1 : IsAlpha(s[j])}) IN
  [i \in DOMAIN s |-> IF letters(i) % 2 = 0 THEN LowerChar(s[i]) ELSE UpperChar(s[i])]

LastUp(w) == [i \in DOMAIN w |-> IF i = Len(w) THEN UpperChar(w[i]) ELSE LowerChar(w[i])]
InverseWordLine(s) == JoinWords(Map(LastUp, Pieces(s, LAMBDA c : c = Space)))

SwapWordLine(s) ==
  LET ws == Pieces(s, LAMBDA c : c = Space) IN
  JoinWords([i \in DOMAIN ws |-> IF i % 2 = 1 THEN Upper(ws[i]) ELSE Lower(ws[i])])

\* "a" stands for the small words of AP style.
ApTitleLine(s) ==
  LET ws == Words(s) IN
  JoinWords([i \in DOMAIN ws |->
    IF i \in {1, Len(ws)} \/ Lower(ws[i]) # <<97>> THEN Capitalize(ws[i]) ELSE Lower(ws[i])])

StrikeLine(s) ==
  IF IsBlank(s) THEN s ELSE <<60, 100, 101, 108, 62>> \o s \o <<60, 47, 100, 101, 108, 62>>

WideLine(s) == JoinWords(Map(LAMBDA c : <<c>>, s))

(* The registered tools of category "case".                                 *)
RunCase(tool, s) ==
  CASE tool = "uppercase"          -> Upper(s)
    [] tool = "lowercase"          -> Lower(s)
    [] tool = "inversecase"        -> InverseCase(s)
    [] tool = "sentencecase"       -> PerLine(SentenceLine, s)
    [] tool = "strikethrough"      -> PerLine(StrikeLine, s)
    [] tool = "titlecase"          -> PerLine(TitleLine, s)
    [] tool = "upper-camel-case"   -> PerLine(UpperCamelLine, s)
    [] tool = "lower-camel-case"   -> PerLine(LowerCamelLine, s)
    [] tool = "snake-case"         -> PerLine(SnakeLine, s)
    [] tool = "kebab-case"         -> PerLine(KebabLine, s)
    [] tool = "capitalize-words"   -> PerLine(CapitalizeWordsLine, s)
    [] tool = "alternating-case"   -> AlternatingCase(s)
    [] tool = "inverse-word-case"  -> PerLine(InverseWordLine, s)
    [] tool = "wide-text"          -> PerLine(WideLine, s)
    [] tool = "ap-title-case"      -> PerLine(ApTitleLine, s)
    [] tool = "swap-word-case"     -> PerLine(SwapWordLine, s)
    [] tool = "dot-case"           -> PerLine(DotLine, s)
    [] tool = "constant-case"      -> PerLine(ConstantLine, s)
    [] tool = "train-case"         -> PerLine(TrainLine, s)
    [] tool = "path-case"          -> PerLine(PathLine, s)
    [] tool = "flat-case"          -> PerLine(FlatLine, s)
    [] tool = "cobol-case"         -> PerLine(CobolLine, s)
=============================================================================
