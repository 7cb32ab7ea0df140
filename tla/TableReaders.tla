--------------------------- MODULE TableReaders ---------------------------
(***************************************************************************)
(* How a client reads the output of the formatters: the reference against  *)
(* which Formatters is checked.  Nothing here translates code; a reader    *)
(* follows the grammar of its format (JSON, PHP source, PHP serialize(),   *)
(* elements with attributes, lines of cells) and either fails or returns   *)
(* what it read.                                                           *)
(***************************************************************************)
EXTENDS Formatters

CONSTANTS JsonNumbers,  \* the texts that are numbers in JSON
          With,         \* the texts with a character in them, for each that means
                        \* something to a format: quote, backslash, dollar, space,
                        \* comma, line end, and < for what begins markup (< and &)
          NoXmlName     \* the texts that cannot name an element or an attribute

WithAny(chars) == UNION {With[c] : c \in chars}

Fail == [ok |-> FALSE, node |-> <<>>, next |-> 0]
Read(node, next) == [ok |-> TRUE, node |-> node, next |-> next]

Kind(s, i) == IF i \in DOMAIN s THEN s[i][1] ELSE "end"

---------------------------------------------------------------------------
(* JSON and PHP source.  A group is a sequence of <<key, node>> pairs, with *)
(* "" for no key.  Of two texts under one key a reader keeps only one.      *)

TextNode(v)     == <<"text", v>>
GroupNode(s)    == <<"group", s>>

ReadableText(tok) ==
  CASE tok[1] = "quoted" -> tok[2] \notin WithAny({"\"", "\\", "\n"})
    [] tok[1] = "php"    -> tok[2] \notin WithAny({"\"", "\\", "$"})
    [] tok[1] = "bare"   -> tok[2] \in JsonNumbers
    [] OTHER             -> tok[1] \in {"escaped", "null"}

\* Whether one more entry with this key can be told from those already seen.
NewKey(key, seen) == \A k \in DOMAIN seen : seen[k][1] # key

RECURSIVE ReadValue(_, _), ReadEntries(_, _, _, _)
ReadValue(s, i) ==
  CASE Kind(s, i) = "open" -> ReadEntries(s, i + 1, s[i][2], <<>>)
    [] Kind(s, i) = "null" -> Read(TextNode("null"), i + 1)
    [] Kind(s, i) \in {"quoted", "php", "escaped", "bare"} ->
         IF ReadableText(s[i]) THEN Read(TextNode(s[i][2]), i + 1) ELSE Fail
    [] OTHER -> Fail
ReadEntries(s, i, bracket, seen) ==
  LET first == ReadValue(s, i)
      keyed == first.ok /\ Kind(s, first.next) = "colon"
      value == IF keyed THEN ReadValue(s, first.next + 1) ELSE first
      entry == <<IF keyed THEN first.node[2] ELSE "", value.node>>
      good  == /\ value.ok
               /\ keyed => first.node[1] = "text" /\ NewKey(first.node[2], seen)
               /\ bracket = "[" => ~keyed
               /\ bracket = "{" => keyed
  IN CASE seen = <<>> /\ Kind(s, i) = "close" /\ s[i][2] = bracket -> Read(GroupNode(<<>>), i + 1)
       [] ~good -> Fail
       [] Kind(s, value.next) = "comma" ->
            ReadEntries(s, value.next + 1, bracket, Append(seen, entry))
       [] Kind(s, value.next) = "close" /\ s[value.next][2] = bracket ->
            Read(GroupNode(Append(seen, entry)), value.next + 1)
       [] OTHER -> Fail

(* serialize(): a count says how many pairs follow, a size how long a text is. *)
RECURSIVE ReadSerial(_, _), ReadPairs(_, _, _, _)
ReadSerial(s, i) ==
  CASE Kind(s, i) = "size" /\ Kind(s, i + 1) = "quoted" /\ s[i][2] = s[i + 1][2] ->
         Read(TextNode(s[i][2]), i + 2)
    [] Kind(s, i) = "count" /\ Kind(s, i + 1) = "open" -> ReadPairs(s, i + 2, s[i][2], <<>>)
    [] OTHER -> Fail
ReadPairs(s, i, n, seen) ==
  LET indexed == Kind(s, i) = "index" /\ s[i][2] = Len(seen)
      key     == IF indexed THEN Read(TextNode(""), i + 1) ELSE ReadSerial(s, i)
      value   == IF key.ok THEN ReadSerial(s, key.next) ELSE Fail
  IN CASE n = Len(seen) -> IF Kind(s, i) = "close" THEN Read(GroupNode(seen), i + 1) ELSE Fail
       [] ~value.ok \/ key.node[1] # "text" -> Fail
       [] ~indexed /\ ~NewKey(key.node[2], seen) -> Fail
       [] OTHER -> ReadPairs(s, value.next, n, Append(seen, <<key.node[2], value.node>>))

ReadNested(f, s) ==
  LET whole == IF f = "serial" THEN ReadSerial(s, 1) ELSE ReadValue(s, 1)
  IN IF whole.ok /\ whole.next = Len(s) + 1 THEN whole ELSE Fail

\* The rows of a group: php and serial leave the array out around one row.
RowsOfGroup(node, plain) ==
  IF plain \/ (node[2] # <<>> /\ node[2][1][2][1] = "group")
  THEN [k \in DOMAIN node[2] |-> node[2][k][2]]
  ELSE <<node>>

\* What was read, as a sequence of <<path of attribute values, cells>>.
RECURSIVE Leaves(_, _, _, _)
Leaves(node, depth, path, plain) ==
  IF depth > 0
  THEN FlattenSeq([k \in DOMAIN node[2] |->
         Leaves(node[2][k][2], depth - 1, Append(path, node[2][k][1]), plain)])
  ELSE LET rows == RowsOfGroup(node, plain)
       IN [k \in DOMAIN rows |->
             <<path, [m \in DOMAIN rows[k][2] |-> <<rows[k][2][m][1], rows[k][2][m][2][2]>>]>>]

---------------------------------------------------------------------------
(* Elements.  An element is <<tag, items>>; an item is an element, or a    *)
(* token for text, an attribute or a parameter.                            *)

\* The texts of a token that is written with nothing, or only quotes, replaced.
RawTexts(tok) ==
  IF tok[1] \in {"asis", "quotefree", "bare", "about", "at", "param", "schema"}
  THEN {tok[k] : k \in 2 .. Len(tok)} ELSE {}

\* What a reader cannot take for a text: markup; in an attribute also a line
\* end, which becomes a space, and a quote, where the attribute ends.
BreaksMarkup(s, i) ==
  LET value == Kind(s, i - 1) = "attribute"
      inTag == value \/ Kind(s, i) \in {"about", "at", "param", "schema"}
      upset == {"<"} \cup (IF inTag THEN {"\n"} ELSE {})
                     \cup (IF inTag /\ Kind(s, i) # "quotefree" THEN {"\""} ELSE {})
  IN RawTexts(s[i]) \cap WithAny(upset) # {}

\* An attribute of no name, or the second of one name in one element.
BreaksAttributes(tok, seen) ==
  tok[1] = "attribute" /\ (tok[2] \in NoXmlName \/ \E k \in DOMAIN seen : seen[k] = tok)

RECURSIVE ReadItems(_, _, _, _)
ReadItems(s, i, tag, seen) ==
  CASE Kind(s, i) = "end" -> Fail
    [] Kind(s, i) = "close" -> IF s[i][2] = tag THEN Read(<<tag, seen>>, i + 1) ELSE Fail
    [] Kind(s, i) = "open" ->
         LET inner == ReadItems(s, i + 1, s[i][2], <<>>)
         IN IF inner.ok /\ s[i][2] \notin NoXmlName THEN ReadItems(s, inner.next, tag, Append(seen, inner.node))
            ELSE Fail
    [] BreaksMarkup(s, i) \/ BreaksAttributes(s[i], seen) -> Fail
    [] OTHER -> ReadItems(s, i + 1, tag, Append(seen, s[i]))

ReadElement(s) ==
  IF Kind(s, 1) # "open" \/ s[1][2] \in NoXmlName THEN Fail
  ELSE LET e == ReadItems(s, 2, s[1][2], <<>>)
       IN IF e.ok /\ e.next = Len(s) + 1 THEN e ELSE Fail

\* The items of an element that are elements of the given tag.
Inner(e, tag) == SelectSeq(e[2], LAMBDA x : x[1] = tag)

---------------------------------------------------------------------------
(* Lines of cells: the texts of a line, or nothing where a text holds what  *)
(* ends a cell or a line.  In csv a backslash keeps a quote from ending a   *)
(* cell, as escape_csv() means it, and so starts an escape wherever it is.  *)

LineEnds(s) == Ascending({k \in DOMAIN s : s[k] = EndLine})

ReadLine(line, sep) ==
  [k \in 1 .. (Len(line) + 1) \div 2 |-> line[2 * k - 1][2]]
UpsetsLine(kind, sep) ==
  CASE kind = "bare"    -> {IF sep = Comma THEN "," ELSE sep[2], "\n"}
    [] kind = "quoted"  -> {"\"", "\\"}
    [] kind = "escaped" -> {"\\"}
Alternates(line, sep) ==
  /\ Len(line) % 2 = 1 \/ line = <<>>
  /\ \A k \in DOMAIN line : (k % 2 = 0) <=> (line[k] = sep)
  /\ \A k \in DOMAIN line : line[k] # sep => line[k][2] \notin WithAny(UpsetsLine(line[k][1], sep))

ReadLines(s, sep) ==
  LET ends    == LineEnds(s)
      line(n) == SubSeq(s, IF n = 1 THEN 1 ELSE ends[n - 1] + 1, ends[n] - 1)
  IN IF \A n \in DOMAIN ends : Alternates(line(n), sep)
     THEN Read([n \in DOMAIN ends |-> ReadLine(line(n), sep)], Len(s) + 1)
     ELSE Fail

=============================================================================
