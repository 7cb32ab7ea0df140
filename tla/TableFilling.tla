---------------------------- MODULE TableFilling ----------------------------
(***************************************************************************)
(* A plugin fills a table through a TableVisitor, describes it, reads it    *)
(* and has it written, in any order and as often as it likes:              *)
(* src/spine/Table.cpp and TableVisitor.cpp.  The table, the visitor and   *)
(* what the last call returned are the state.                              *)
(***************************************************************************)
EXTENDS Table

CONSTANTS CellText,     \* what a cell may hold
          MissingValue  \* ValueFormatter::missing()

ASSUME TextAssumption == {NoText, MissingValue} \subseteq CellText

VARIABLES table,    \* the Table
          visitor,  \* TableVisitor: current column and row, lonlat format
          told      \* what the last call gave: outcome, tokens and the request
fillingVars == <<table, visitor, told>>

\* The type of a value of the visitor, and the texts it has in it.
VisitorValue == [kind : {"none", "missingDouble", "notADateTime", "lonlat", "string", "double", "int", "dateTime"},
          text : CellText, latlon : CellText]

CellType == [i : Nat, j : Nat, value : CellText]

FillingTypeOK ==
  /\ table \in [list : Seq(CellType),
                mini : Nat, maxi : Nat, minj : Nat, maxj : Nat,
                built : BOOLEAN, array : {table.array}, startRow : Nat, maxResults : Nat,
                missing : CellText, title : SUBSET STRING, names : Seq(STRING), format : SUBSET STRING]
  /\ table.built => table.array \in [0 .. Width(table) * Height(table) - 1 -> CellText]
  /\ visitor \in [col : Nat, row : Nat, lonlat : {"LONLAT", "LATLON"}]

NoRequest == [format |-> "none"]
Nothing   == [outcome |-> "none", out |-> <<>>, request |-> NoRequest]
Thrown    == [outcome |-> "throw", out |-> <<>>, request |-> NoRequest]

FillingInit(col, row) ==
  /\ table = EmptyTable
  /\ visitor = [col |-> col, row |-> row, lonlat |-> "LONLAT"]
  /\ told = Nothing

\* The text for a value of each type a plugin can hand to the visitor.
VisitedText(x) ==
  CASE x.kind \in {"none", "missingDouble", "notADateTime"} -> MissingValue
    [] x.kind = "lonlat" -> IF visitor.lonlat = "LATLON" THEN x.latlon ELSE x.text
    [] OTHER -> x.text

\* operator()(value): set the cell of the current column and row; the row is
\* advanced before set() can refuse.
Visit(x) ==
  /\ visitor' = [visitor EXCEPT !.row = @ + 1]
  /\ IF MaySet(table)
     THEN /\ table' = SetCell(table, visitor.col, visitor.row, VisitedText(x))
          /\ told' = Nothing
     ELSE told' = Thrown /\ UNCHANGED table

\* setCurrentColumn() and setCurrentRow().
MoveTo(i, j) ==
  /\ visitor' = [visitor EXCEPT !.col = i, !.row = j]
  /\ told' = Nothing
  /\ UNCHANGED table

\* operator<<(LonLatFormat)
SetLonLat(f) ==
  /\ visitor.lonlat # f
  /\ visitor' = [visitor EXCEPT !.lonlat = f]
  /\ told' = Nothing
  /\ UNCHANGED table

\* The setters of the metadata and the paging, in any order at any time.
Describe(t) ==
  /\ t # table
  /\ table' = t
  /\ told' = Nothing
  /\ UNCHANGED visitor
SetPaging(p)      == Describe([table EXCEPT !.startRow = p[1], !.maxResults = p[2]])
SetNames(names)   == Describe([table EXCEPT !.names = names])
SetTitle(x)       == Describe([table EXCEPT !.title = {x}])
SetMissingText(x) == Describe([table EXCEPT !.missing = x])
SetDefault(f)     == Describe([table EXCEPT !.format = {f}])

\* What the table is read for is told; the first cell that is asked for, or
\* the first format that asks for the columns, builds the array.
GiveOut(answer, reads) ==
  /\ table' = IF reads THEN BuildArray(table) ELSE table
  /\ told' = answer
  /\ UNCHANGED visitor

\* get(i, j) and get(i, j, missing)
Cell(text) == [Nothing EXCEPT !.outcome = "cell", !.out = <<text>>]

ReadCell(i, j) ==
  IF MayGet(table, i, j) THEN GiveOut(Cell(Get(BuildArray(table), i, j)), TRUE) ELSE GiveOut(Thrown, FALSE)

ReadCellOr(i, j, miss) ==
  IF MayGetOr(table, i, j)
  THEN GiveOut(Cell(GetOr(BuildArray(table), i, j, miss)), MayGet(table, i, j))
  ELSE GiveOut(Thrown, FALSE)

\* Any call of a plugin, and a formatter's answer whatever it is.
FillingNext ==
  \/ \E x \in VisitorValue : Visit(x)
  \/ \E i, j \in Nat : MoveTo(i, j)
  \/ \E f \in {"LONLAT", "LATLON"} : SetLonLat(f)
  \/ \E p \in Nat \X Nat : SetPaging(p)
  \/ \E names \in Seq(STRING) : SetNames(names)
  \/ \E x \in STRING : SetTitle(x) \/ SetDefault(x)
  \/ \E x \in CellText : SetMissingText(x)
  \/ \E i, j \in Nat : ReadCell(i, j) \/ \E miss \in CellText : ReadCellOr(i, j, miss)
  \/ \E reads \in BOOLEAN : \E answer : GiveOut(answer, reads)

FillingSpec == (\E i, j \in Nat : FillingInit(i, j)) /\ [][FillingNext]_fillingVars

-----------------------------------------------------------------------------
\* A cell reads back as the last text set there, whatever the order in which
\* the cells were set and the bounds grew; a cell never set is empty.
CellsHoldTheLastSet ==
  table.built /\ ~IsEmpty(table) =>
    \A i \in Columns(table), j \in table.minj .. table.maxj :
      Get(table, i, j)
        = LastOf(table, {k \in DOMAIN table.list : table.list[k].i = i /\ table.list[k].j = j})

\* Paging loses and repeats no row: the pages of one size, each starting where
\* the last one ended, hold every row exactly once, and so does one page
\* without a limit.
PagesPartitionTheRows ==
  LET page(start, size) == PageRows([table EXCEPT !.startRow = start, !.maxResults = size])
      n == Cardinality(page(0, 0))
  IN /\ n = IF IsEmpty(table) THEN 0 ELSE Height(table)
     /\ \A size \in 1 .. n + 1 :
          LET pages == [k \in 0 .. n |-> page(k * size, size)]
          IN /\ UNION {pages[k] : k \in 0 .. n} = page(0, 0)
             /\ \A k, m \in 0 .. n : k # m => pages[k] \cap pages[m] = {}
             /\ \A k \in 0 .. n : page(k * size, 0) = UNION {pages[m] : m \in k .. n}

\* A table keeps what is put into it and gives all of it out.
CellsAreKept == CellsHoldTheLastSet /\ PagesPartitionTheRows

\* Once anything was read of a table its cells and its array are final.
FinalOnceRead == [][table.built => /\ table'.built
                                   /\ table'.array = table.array
                                   /\ table'.list = table.list]_fillingVars
=============================================================================
