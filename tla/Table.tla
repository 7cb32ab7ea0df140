------------------------------- MODULE Table -------------------------------
(***************************************************************************)
(* The table that a plugin fills and a formatter writes out:               *)
(* src/spine/Table.cpp.  A table is a record, a method an operator on it;  *)
(* the methods that are const in C++ but build the array return the table  *)
(* they leave behind.  Texts are opaque.  An optional value is a set of at *)
(* most one element.                                                       *)
(***************************************************************************)
EXTENDS Integers, Sequences, FiniteSets

Low(a, b)  == IF a < b THEN a ELSE b
High(a, b) == IF a > b THEN a ELSE b

NoText == ""  \* the empty string

EmptyTable ==
  [ list |-> <<>>, mini |-> 0, maxi |-> 0, minj |-> 0, maxj |-> 0,
    built |-> FALSE, array |-> <<>>, startRow |-> 0, maxResults |-> 0,
    missing |-> NoText, title |-> {}, names |-> <<>>, format |-> {} ]

IsEmpty(t) == t.list = <<>>

\* Fault: set() is never refused.
MaySetAlways(t) == TRUE

\* set(): refused once the array is built.
MaySet(t) == ~t.built

SetCell(t, i, j, v) ==
  [t EXCEPT !.list = Append(@, [i |-> i, j |-> j, value |-> v]),
            !.mini = IF IsEmpty(t) THEN i ELSE Low(@, i),
            !.maxi = IF IsEmpty(t) THEN i ELSE High(@, i),
            !.minj = IF IsEmpty(t) THEN j ELSE Low(@, j),
            !.maxj = IF IsEmpty(t) THEN j ELSE High(@, j)]

Width(t)  == t.maxi - t.mini + 1
Height(t) == t.maxj - t.minj + 1

\* Where cell (i, j) is in the flat array.
Position(t, i, j) == (j - t.minj) * Width(t) + (i - t.mini)

\* The elements of the list at a position, and the text of the last of some.
ElementsAt(t, p) == {k \in DOMAIN t.list : Position(t, t.list[k].i, t.list[k].j) = p}
LastOf(t, elements) ==
  IF elements = {} THEN NoText
  ELSE t.list[CHOOSE k \in elements : \A m \in elements : m <= k].value

\* Fault: the first of the elements with one position stays.
BuildArrayOfFirst(t) ==
  IF t.built THEN t
  ELSE [t EXCEPT !.built = TRUE,
                 !.array = [p \in 0 .. Width(t) * Height(t) - 1 |->
                              IF ElementsAt(t, p) = {} THEN NoText
                              ELSE t.list[CHOOSE k \in ElementsAt(t, p) :
                                            \A m \in ElementsAt(t, p) : k <= m].value]]

\* build_array(): of the elements with one position the last in the list
\* stays; a position without an element holds the empty text.
FlatArray(t) == [p \in 0 .. Width(t) * Height(t) - 1 |-> LastOf(t, ElementsAt(t, p))]
BuildArray(t) == IF t.built THEN t ELSE [t EXCEPT !.built = TRUE, !.array = FlatArray(t)]

\* get() throws for an empty table and outside the bounds.
MayGet(t, i, j) == ~IsEmpty(t) /\ i \in t.mini .. t.maxi /\ j \in t.minj .. t.maxj

\* get() of a table whose array is built.
Get(t, i, j) == t.array[Position(t, i, j)]

\* get() with a text for what is missing: a column outside the bounds is
\* missing too, a row outside them is still an error.
MayGetOr(t, i, j) == ~IsEmpty(t) /\ (i \in t.mini .. t.maxi => j \in t.minj .. t.maxj)

GetOr(t, i, j, missing) ==
  IF i \notin t.mini .. t.maxi \/ Get(t, i, j) = NoText THEN missing ELSE Get(t, i, j)

Columns(t) == IF IsEmpty(t) THEN {} ELSE t.mini .. t.maxi

\* rows(): the page that starts at startRow, counted from the first row
\* there is, and holds at most maxResults rows (0: all that follow).
PageRows(t) ==
  IF IsEmpty(t) THEN {}
  ELSE {j \in t.minj .. t.maxj :
          LET row == j - t.minj
          IN /\ row >= t.startRow
             /\ t.maxResults > 0 => row - t.startRow < t.maxResults}

\* getNames(): the caller's names, or the table's own when it has none.
NamesOf(t, override) == IF override = <<>> THEN t.names ELSE override

\* The check that JSON and PHP ask getNames() for.
NamesCover(t, names) == IsEmpty(t) \/ Len(names) >= t.maxi + 1

DefaultFormat(t) == IF t.format = {} THEN "debug" ELSE CHOOSE f \in t.format : TRUE

=============================================================================
