------------------------------ MODULE Viewers ------------------------------
(***************************************************************************)
(* What the previewers compute from a file (ComponentRegistry.tsx): the    *)
(* blocks of a Markdown document, the bars of a chart and the pages of a   *)
(* table, each with the reference definition it is checked against.        *)
(*                                                                         *)
(* A line of a document is what the parser tells apart, in the order of    *)
(* its tests.  "sep" is a table line without a cell other than dashes;     *)
(* "irule" is a line of dashes after four or more spaces, which is a rule  *)
(* or a line of code depending on where it stands; "empty" has no          *)
(* character at all, "blank" up to three spaces.                           *)
(***************************************************************************)
EXTENDS Integers, Sequences, FiniteSets, FiniteSetsExt, SequencesExt

CONSTANTS
  MaxLines,             \* length of the documents that are checked
  Unit,                 \* the numbers of a series are multiples of 1 / Unit:
  Points,               \* these, counted in that fraction,
  MaxPoints             \* and a series has at most so many

ASSUME ViewersAssumption ==
  /\ MaxLines \in Nat
  /\ Unit \in Nat \ {0} /\ Points \subseteq Int
  /\ MaxPoints \in Nat \ {0}

-----------------------------------------------------------------------------
(***************************************************************************)
(* MarkdownViewer.                                                         *)
(***************************************************************************)
Lines == {"fence", "heading", "rule", "quote", "item", "row", "sep",
          "indent", "irule", "empty", "blank", "text"}

Indented(line) == line \in {"indent", "irule"}      \* startsWith four spaces
InTable(line)  == line \in {"row", "sep"}           \* startsWith "|"

\* The first line from i on that is not P, or the end of the document.
End(doc, i, P(_)) ==
  Min({k \in i..(Len(doc) + 1) : k = Len(doc) + 1 \/ ~P(k)})

\* A construct yields the blocks it pushes and the line where parsing goes on.
Parsed(kind, lines, next) == [blocks |-> <<[kind |-> kind, lines |-> lines]>>, next |-> next]

\* Mutant: the closing fence is not consumed and opens the next block.
FencedCodeUnclosed(doc, i) ==
  LET e == End(doc, i + 1, LAMBDA k : doc[k] # "fence")
  IN  Parsed("code", (i + 1)..(e - 1), e)

FencedCode(doc, i) ==
  LET e == End(doc, i + 1, LAMBDA k : doc[k] # "fence")
  IN  Parsed("code", (i + 1)..(e - 1), e + 1)

UnorderedList(doc, i) ==
  LET e == End(doc, i, LAMBDA k : doc[k] = "item") IN Parsed("list", i..(e - 1), e)

Table(doc, i) ==
  LET e    == End(doc, i, LAMBDA k : InTable(doc[k]))
      rows == {k \in i..(e - 1) : doc[k] = "row"}
  IN  IF rows = {} THEN [blocks |-> <<>>, next |-> e] ELSE Parsed("table", rows, e)

\* An empty line stays in the block when an indented one follows.
IndentedCode(doc, i) ==
  LET e == End(doc, i, LAMBDA k : \/ Indented(doc[k])
                                  \/ doc[k] = "empty" /\ k < Len(doc) /\ Indented(doc[k + 1]))
  IN  Parsed("pre", i..(e - 1), e)

OneLine(doc, i) ==
  CASE doc[i] \in {"empty", "blank"} -> [blocks |-> <<>>, next |-> i + 1]
    [] doc[i] \in {"rule", "irule"}  -> Parsed("rule", {i}, i + 1)
    [] OTHER                         -> Parsed(doc[i], {i}, i + 1)

Construct(doc, i) ==
  CASE doc[i] = "fence"  -> FencedCode(doc, i)
    [] doc[i] = "item"   -> UnorderedList(doc, i)
    [] InTable(doc[i])   -> Table(doc, i)
    [] doc[i] = "indent" -> IndentedCode(doc, i)
    [] OTHER             -> OneLine(doc, i)

Blocks(doc) ==
  LET from[i \in 1..(Len(doc) + 2)] ==
        IF i > Len(doc) THEN <<>>
        ELSE LET c == Construct(doc, i) IN c.blocks \o from[c.next]
  IN  from[1]

\* The reference says of each line by itself how it is to be rendered.
Fenced(doc, i) ==
  doc[i] # "fence" /\ Cardinality({j \in 1..(i - 1) : doc[j] = "fence"}) % 2 = 1

InIndent(doc, i) ==
  \E j \in 1..i :
    /\ doc[j] = "indent" /\ ~Fenced(doc, j)
    /\ \A k \in j..i : \/ Indented(doc[k])
                       \/ doc[k] = "empty" /\ k < Len(doc) /\ Indented(doc[k + 1])

Rendering(doc, i) ==
  CASE Fenced(doc, i)                          -> "code"
    [] ~Fenced(doc, i) /\ InIndent(doc, i)     -> "pre"
    [] OTHER -> CASE doc[i] \in {"fence", "empty", "blank", "sep"} -> "none"
                  [] doc[i] = "irule" -> "rule"
                  [] doc[i] = "item"  -> "list"
                  [] doc[i] = "row"   -> "table"
                  [] OTHER            -> doc[i]

\* Two lines belong together when they are of one kind that groups lines and
\* only lines of the same run are between them.
Together(doc, i, j) ==
  LET kind == Rendering(doc, i) IN
  /\ kind = Rendering(doc, j) /\ kind \in {"code", "pre", "list", "table"}
  /\ \A k \in i..j : \/ Rendering(doc, k) = kind
                     \/ kind = "table" /\ doc[k] = "sep"

\* MarkdownViewer renders every line of a document as what it is, in order, and
\* once: no line is swallowed by an unclosed or a consecutive fence, by a table
\* of separators or by the empty lines inside indented code, and what belongs
\* together is one block.
MarkdownFaithful ==
  \A doc \in BoundedSeq(Lines, MaxLines) :
    LET blocks    == Blocks(doc)
        Where(i)  == {b \in DOMAIN blocks : i \in blocks[b].lines}
        placed    == {i \in DOMAIN doc : Rendering(doc, i) # "none"}
    IN  /\ \A i \in DOMAIN doc : Where(i) # {} <=> i \in placed
        /\ \A i \in placed : \E b \in DOMAIN blocks :
             Where(i) = {b} /\ blocks[b].kind = Rendering(doc, i)
        /\ \A i, j \in placed : i < j =>
             IF Together(doc, i, j) THEN Where(i) = Where(j)
             ELSE Min(Where(i)) < Min(Where(j))

-----------------------------------------------------------------------------
(***************************************************************************)
(* ChartView.                                                              *)
(***************************************************************************)
plotHeight == 144   \* h-36, in pixels
minHeight  == 2     \* of a bar

serMin(data) == Min(ToSet(data))
serMax(data) == Max(ToSet(data) \cup {Unit})

\* Mutant: the floor of the chart is rounded up.
baselineRoundedUp(data) ==
  IF 5 * serMin(data) > serMax(data)
  THEN Unit * ((4 * serMin(data) + 5 * Unit - 1) \div (5 * Unit)) ELSE 0

\* Math.floor takes 80 % of the minimum down to a whole number.
baseline(data) ==
  IF 5 * serMin(data) > serMax(data)
  THEN Max({0, Unit * ((4 * serMin(data)) \div (5 * Unit))}) ELSE 0

range(data) == Max({serMax(data) - baseline(data), Unit})

\* A bar's height in pixels, times range(data); the minimum height covers the
\* values below the baseline.
barHeight(data, i) ==
  Max({plotHeight * (data[i] - baseline(data)), minHeight * range(data)})

\* The smart baseline never misleads: no bar leaves the plot area, heights order
\* as the values do, and values that differ have bars that differ, unless both
\* are at the minimum of 2 px.  The maximum's bar reaches the top of the plot,
\* where the axis says it is; below 5, where the axis may be shorter than the
\* range of 1 it is drawn for, it reaches a quarter of it at least.
BarsFaithful ==
  \A data \in UNION {[1..n -> Points] : n \in 1..MaxPoints} :
    \A i, j \in DOMAIN data :
      /\ barHeight(data, i) <= plotHeight * range(data)
      /\ data[i] <= data[j] => barHeight(data, i) <= barHeight(data, j)
      /\ data[i] < data[j] /\ barHeight(data, j) > minHeight * range(data) =>
           barHeight(data, i) < barHeight(data, j)
      /\ data[i] = serMax(data) =>
           /\ 4 * barHeight(data, i) >= plotHeight * range(data)
           /\ data[i] >= 5 * Unit => barHeight(data, i) = plotHeight * range(data)

-----------------------------------------------------------------------------
(***************************************************************************)
(* The pages of DataGrid.                                                  *)
(***************************************************************************)
CONSTANT PAGE_SIZE

ASSUME PageAssumption == PAGE_SIZE \in Nat \ {0}

\* Mutant: the last, partly filled page is not counted.
pageCountRoundedDown(rows) == rows \div PAGE_SIZE

pageCount(rows) == (rows + PAGE_SIZE - 1) \div PAGE_SIZE

\* Rows page * PAGE_SIZE to (page + 1) * PAGE_SIZE - 1 are on a page.
pageRows(rows, page) ==
  {r \in 0..(rows - 1) : page * PAGE_SIZE <= r /\ r < (page + 1) * PAGE_SIZE}
=============================================================================
