----------------------------- MODULE TextLines ------------------------------
(* The line tools and the table tools of text_service.py.                   *)
EXTENDS Text

OnLines(Op(_), s) == JoinLines(Op(SplitLines(s)))

CaseFolded(s, t) == Precedes(Lower(s), Lower(t))

\* reverse=True keeps equal lines in their order.
SortAsc(ls)  == Sorted(CaseFolded, ls)
SortDesc(ls) == Sorted(LAMBDA s, t : CaseFolded(t, s), ls)
SortByLength(ls) == Sorted(LAMBDA s, t : Len(s) < Len(t), ls)

\* The first number of a line; lines without one come last.
NumberIn(s) ==
  LET at == {i \in DOMAIN s : s[i] \in Digits} IN
  IF at = {} THEN [some |-> FALSE, value |-> 0]
  ELSE LET from == Min(at)
           to == Max({j \in at : from .. j \subseteq at})
           n == FoldLeft(LAMBDA v, d : 10 * v + d - 48, 0, SubSeq(s, from, to))
       IN [some |-> TRUE,
           value |-> IF from > 1 /\ s[from - 1] = 45 THEN -n ELSE n]

SortNumeric(ls) ==
  Sorted(LAMBDA s, t :
    LET m == NumberIn(s)  n == NumberIn(t)
    IN m.some /\ (~n.some \/ m.value < n.value), ls)

\* Variant: a line is dropped when it equals the one before it.
RemoveDuplicates_Adjacent(ls) ==
  KeepAt(LAMBDA i : i = 1 \/ ls[i] # ls[i - 1], ls)

RemoveDuplicates(ls) ==
  KeepAt(LAMBDA i : \A j \in 1 .. i - 1 : ls[j] # ls[i], ls)

\* Counter.most_common: by count, then in order of first occurrence.
CountOf(l, ls) == Len(SelectSeq(ls, LAMBDA m : m = l))
MostCommon(ls) ==
  Map(LAMBDA l : <<CountOf(l, ls), l>>,
      Sorted(LAMBDA s, t : CountOf(s, ls) > CountOf(t, ls), RemoveDuplicates(ls)))

SplitToLines(s, delimiter) ==
  IF delimiter = <<>> THEN Crashed ELSE JoinLines(Map(Strip, SplitBy(s, delimiter)))

JoinedLines(s, separator) ==
  Join(separator, NonEmpty(Map(Strip, SplitLines(s))))

Blanks(n) == [i \in 1 .. n |-> Space]

\* str.center puts the odd blank on the left of an even line in an odd width.
PadLine(l, width, align) ==
  LET n == width - Len(l)
      left == CASE align = "left" -> 0
                [] align = "right" -> n
                [] align = "center" -> n \div 2 + (n % 2) * (width % 2)
  IN Blanks(left) \o l \o Blanks(n - left)

PadLines(ls, align) ==
  LET width == Max({0} \cup {Len(ls[i]) : i \in DOMAIN ls})
  IN Map(LAMBDA l : PadLine(l, width, align), ls)

WrapLines(ls, prefix, suffix) == Map(LAMBDA l : prefix \o l \o suffix, ls)

(* A pattern is literal here; a compiled one is the regex library's.        *)
LineMatches(l, pattern, caseSensitive) ==
  IF caseSensitive THEN Contained(pattern, l) ELSE Contained(Lower(pattern), Lower(l))

FilterLines(ls, pattern, caseSensitive) ==
  SelectSeq(ls, LAMBDA l : LineMatches(l, pattern, caseSensitive))
RemoveLines(ls, pattern, caseSensitive) ==
  SelectSeq(ls, LAMBDA l : ~LineMatches(l, pattern, caseSensitive))

Ellipsis == 8230
TruncateLine(l, most) ==
  IF Len(l) > most THEN Append(SubSeq(l, 1, most - 1), Ellipsis) ELSE l
TruncateLines(ls, most) == Map(LAMBDA l : TruncateLine(l, most), ls)

NthLines(ls, n, offset) ==
  KeepAt(LAMBDA i : i > offset /\ (i - 1 - offset) % n = 0, ls)

Decimal(n) == IF n < 10 THEN <<48 + n>> ELSE <<48 + (n \div 10), 48 + (n % 10)>>
NumberLines(ls) == [i \in DOMAIN ls |-> Decimal(i) \o <<46, Space>> \o ls[i]]

\* random.shuffle may return any order of the lines.
Shuffles(ls) ==
  {[i \in DOMAIN ls |-> ls[p[i]]] : p \in Bijection(DOMAIN ls, DOMAIN ls)}

(* The registered tools of category "text-tools"; arg holds the further     *)
(* fields of the request.                                                   *)
RunLines(tool, s, arg) ==
  CASE tool = "reverse"           -> Reverse(s)
    [] tool = "reverse-lines"     -> OnLines(Reverse, s)
    [] tool = "number-lines"      -> OnLines(NumberLines, s)
    [] tool = "sort-lines-asc"    -> OnLines(SortAsc, s)
    [] tool = "sort-lines-desc"   -> OnLines(SortDesc, s)
    [] tool = "sort-by-length"    -> OnLines(SortByLength, s)
    [] tool = "sort-numeric"      -> OnLines(SortNumeric, s)
    [] tool = "remove-duplicate-lines" -> OnLines(RemoveDuplicates, s)
    [] tool = "line-frequency"    ->
         OnLines(LAMBDA ls : Map(LAMBDA p : Decimal(p[1]) \o <<120, 32, 32>> \o p[2],
                                 MostCommon(ls)), s)
    [] tool = "split-to-lines"    -> SplitToLines(s, arg)
    [] tool = "join-lines"        -> JoinedLines(s, arg)
    [] tool = "pad-lines"         -> OnLines(LAMBDA ls : PadLines(ls, arg), s)
    [] tool = "wrap-lines"        -> OnLines(LAMBDA ls : WrapLines(ls, arg[1], arg[2]), s)
    [] tool = "filter-lines"      -> OnLines(LAMBDA ls : FilterLines(ls, arg.pattern, arg.caseSensitive), s)
    [] tool = "remove-lines"      -> OnLines(LAMBDA ls : RemoveLines(ls, arg.pattern, arg.caseSensitive), s)
    [] tool = "truncate-lines"    -> OnLines(LAMBDA ls : TruncateLines(ls, arg), s)
    [] tool = "extract-nth-lines" -> OnLines(LAMBDA ls : NthLines(ls, arg[1], arg[2]), s)

-----------------------------------------------------------------------------
(* The table tools, for CSV without quoted cells.                           *)

Comma == 44
Pipe  == 124
Tick  == 39

\* csv.reader: an empty line is a row without cells.
CsvRows(s) ==
  Map(LAMBDA l : IF l = <<>> THEN <<>> ELSE Pieces(l, LAMBDA c : c = Comma), SplitLines(s))

Cell(row, i) == IF i <= Len(row) THEN Strip(row[i]) ELSE <<>>

\* Variant: a column is as wide as its title.
ColumnWidth_Title(rows, i) == Len(Cell(rows[1], i))

ColumnWidth(rows, i) == Max({Len(Cell(rows[r], i)) : r \in DOMAIN rows})

TableLine(cells) == <<Pipe, Space>> \o Join(<<Space, Pipe, Space>>, cells) \o <<Space, Pipe>>

\* Cells beyond the titles are dropped, missing ones are empty.
CsvToTable(s) ==
  LET rows == CsvRows(s)
      columns == DOMAIN rows[1]
      padded(r, i) == Cell(r, i) \o [k \in 1 .. ColumnWidth(rows, i) - Len(Cell(r, i)) |-> Space]
      line(r) == TableLine([i \in columns |-> padded(r, i)])
      rule == TableLine([i \in columns |-> [k \in 1 .. ColumnWidth(rows, i) |-> 45]])
  IN JoinLines(<<line(rows[1]), rule>> \o Map(line, Tail(rows)))

(* One statement for each row; a key word of SQL is one symbol.             *)
InsertInto == 4001
Values     == 4002
Finish     == 4003

IsNumber(s) == s # <<>> /\ ToSet(s) \subseteq Digits

SqlValue(cell) ==
  IF IsNumber(cell) THEN cell
  ELSE <<Tick>> \o FlattenSeq(Map(LAMBDA c : IF c = Tick THEN <<c, c>> ELSE <<c>>, cell)) \o <<Tick>>

SqlInsert(titles, row) ==
  <<InsertInto>> \o Join(<<Comma, Space>>, Map(Strip, titles))
    \o <<Values>> \o Join(<<Comma, Space>>, Map(LAMBDA c : SqlValue(Strip(c)), row)) \o <<Finish>>

SqlInserts(s) ==
  LET rows == CsvRows(s)
  IN IF Len(rows) < 2 THEN Raised
     ELSE JoinLines(Map(LAMBDA r : SqlInsert(rows[1], r), Tail(rows)))

(* The registered tools "csv-to-table" and "sql-insert-gen".                *)
RunData(tool, s) ==
  CASE tool = "csv-to-table"   -> CsvToTable(s)
    [] tool = "sql-insert-gen" -> SqlInserts(s)
=============================================================================
