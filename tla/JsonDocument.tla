---------------------------- MODULE JsonDocument ----------------------------
(***************************************************************************)
(* How a JSON document is put together from files, references and request  *)
(* parameters: src/spine/Json.cpp.  A document is a function from the      *)
(* paths of its nodes to what the nodes are, a path the sequence of member *)
(* names and array indexes that leads there.  A pointer to a node is its   *)
(* path, as long as the node has not been destroyed.                       *)
(***************************************************************************)
EXTENDS Integers, Sequences, FiniteSets, SequencesExt, Functions, Letters

CONSTANTS Members,    \* names of members, in the order getMemberNames() has, and indexes
          Parses,     \* function from the texts jsoncpp parses to the documents they are
          Files       \* function from <<directory, name>> to the documents on disk

\* A node: an object, an array, null or a text; a text that starts with "ref:"
\* has the path it refers to, one that starts with "json:" the file it names.
Node(is, to) == [is |-> is, to |-> to]
ObjectNode == Node("object", <<>>)
NullNode   == Node("null", <<>>)
IsText(node)      == node.is \in {"text", "ref", "json"}
IsReference(node) == node.is \in {"ref", "json"}

Leaf(node) == [p \in {<<>>} |-> node]

Rank(name) == CHOOSE k \in DOMAIN Members : Members[k] = name

\* The order in which a recursive visit comes to the nodes.
Earlier(p, q) ==
  \/ IsStrictPrefix(p, q)
  \/ \E k \in DOMAIN p \cap DOMAIN q :
       Rank(p[k]) < Rank(q[k]) /\ SubSeq(p, 1, k - 1) = SubSeq(q, 1, k - 1)
VisitOrder(paths) == SetToSortSeq(paths, Earlier)

Below(doc, p) == {q \in DOMAIN doc : IsPrefix(p, q)}
From(p, q)    == SubSeq(q, Len(p) + 1, Len(q))
Subtree(doc, p) == [q \in {From(p, r) : r \in Below(doc, p)} |-> doc[p \o q]]

\* *(the node at p) = value
Assign(doc, p, value) ==
  LET new == {p \o q : q \in DOMAIN value}
  IN [q \in (DOMAIN doc \ Below(doc, p)) \cup new |->
        IF q \in new THEN value[From(p, q)] ELSE doc[q]]

\* What a function leaves behind: the document, and how it ended.  "undefined"
\* is a write through a pointer to a destroyed node, or recursion without end.
Done(doc)        == [doc |-> doc, ended |-> "ok"]
Ended(doc, how)  == [doc |-> doc, ended |-> how]

---------------------------------------------------------------------------
(* collect_qids: the objects that have a name of their own.                *)

Lowered(name, insensitive) == IF insensitive THEN Small(name) ELSE name

QidOwners(doc) ==
  {p \in DOMAIN doc : doc[p].is = "object" /\ Append(p, "qid") \in DOMAIN doc}
QidNode(doc, p) == doc[Append(p, "qid")]

\* A qid is a text that is not empty and has no dots.
QidsAcceptable(doc) ==
  \A p \in QidOwners(doc) :
    QidNode(doc, p).is = "text" /\ Len(QidNode(doc, p).to) = 1 /\ QidNode(doc, p).to # <<"">>

\* Fault: the first object of a name is kept.
CollectQidsFirst(doc, insensitive) ==
  LET qid(p) == Lowered(QidNode(doc, p).to[1], insensitive)
      owners == VisitOrder(QidOwners(doc))
  IN [name \in {qid(p) : p \in Range(owners)} |->
        owners[SelectInSeq(owners, LAMBDA p : qid(p) = name)]]

\* Of the objects of one name the last one visited is kept.
CollectQids(doc, insensitive) ==
  LET qid(p) == Lowered(QidNode(doc, p).to[1], insensitive)
      owners == VisitOrder(QidOwners(doc))
  IN [name \in {qid(p) : p \in Range(owners)} |->
        owners[SelectLastInSeq(owners, LAMBDA p : qid(p) = name)]]

---------------------------------------------------------------------------
(* parse_substitutions and replaceFromJsonMap.  A parameter is a name, as  *)
(* the sequence of its components, and a text; parameters come in the      *)
(* order of the map.                                                       *)

Substitute(text) == IF text \in DOMAIN Parses THEN Parses[text] ELSE Leaf(text)

\* Of several parameters of one name the map takes the first.
ParseSubstitutions(params) ==
  LET first(k) == \A m \in 1 .. k - 1 : params[m].name # params[k].name
      kept     == SelectSeq([k \in DOMAIN params |-> k], first)
  IN [k \in DOMAIN kept |-> [name |-> params[kept[k]].name,
                             value |-> Substitute(params[kept[k]].text)]]

\* References are replaced in one pass, everything else in another.
Processed(value, references) == references = IsReference(value[<<>>])

\* Where a parameter belongs: below the object its first component names, or
\* below the whole document.
Address(name, qids) ==
  IF name[1] \in DOMAIN qids
  THEN [base |-> qids[name[1]], path |-> Tail(name)]
  ELSE [base |-> <<>>, path |-> name]

\* The objects on the way are made where nothing, or null, is.
Reachable(doc, address) ==
  \A k \in 1 .. Len(address.path) :
    LET p == address.base \o SubSeq(address.path, 1, k - 1)
    IN p \in DOMAIN doc => doc[p].is \in {"object", "null"}

Store(doc, address, value) ==
  LET way  == {address.base \o SubSeq(address.path, 1, k - 1) : k \in 1 .. Len(address.path)}
      open == [q \in DOMAIN doc \cup way |-> IF q \in way THEN ObjectNode ELSE doc[q]]
  IN Assign(open, address.base \o address.path, value)

\* One parameter; lost holds the nodes the qids point to that are no more.
ReplaceOne(s, param, qids, insensitive, references) ==
  LET name    == [k \in DOMAIN param.name |-> Lowered(param.name[k], insensitive)]
      address == Address(name, qids)
      target  == address.base \o address.path
      fails   == Len(name) = 1 /\ name[1] \in DOMAIN qids
  IN CASE s.ended # "ok" \/ ~Processed(param.value, references) -> s
       [] OTHER ->
            CASE fails -> [s EXCEPT !.ended = "failed"]
              [] ~fails /\ address.base \in s.lost -> [s EXCEPT !.ended = "undefined"]
              [] ~fails /\ address.base \notin s.lost ->
                   IF ~Reachable(s.doc, address) THEN [s EXCEPT !.ended = "failed"]
                   ELSE [doc   |-> Store(s.doc, address, param.value),
                         ended |-> "ok",
                         lost  |-> s.lost \cup {p \in Range(qids) : IsStrictPrefix(target, p)}]

ReplaceFromJsonMap(doc, params, insensitive, references) ==
  LET qids == CollectQids(doc, insensitive)
      end  == FoldLeft(LAMBDA s, param : ReplaceOne(s, param, qids, insensitive, references),
                       [doc |-> doc, ended |-> "ok", lost |-> {}], params)
  IN IF ~QidsAcceptable(doc) THEN Ended(doc, "failed") ELSE Ended(end.doc, end.ended)

\* expand() with the parameters of a request, and with JSON values.
ExpandWith(doc, values, insensitive) == ReplaceFromJsonMap(doc, values, insensitive, FALSE)
Expand(doc, params, insensitive) == ExpandWith(doc, ParseSubstitutions(params), insensitive)

ReplaceReferences(doc, params, insensitive) ==
  ReplaceFromJsonMap(doc, ParseSubstitutions(params), insensitive, TRUE)

---------------------------------------------------------------------------
(* preprocess: a text "json:file" becomes the content of the file.         *)

Absent == <<"none", "">>

\* The directory of the document, unless the name starts with a slash; then
\* the root, its resources/layers and its resources.
FindFile(file) ==
  LET places == (IF file.absolute THEN <<>> ELSE <<"path">>) \o <<"root", "layers", "resources">>
      k == SelectInSeq(places, LAMBDA d : <<d, file.name>> \in DOMAIN Files)
  IN IF k = 0 THEN Absent ELSE <<places[k], file.name>>

FileNamed(node) == [absolute |-> node.to[1] = "/", name |-> node.to[Len(node.to)]]

\* within: the files whose content is being expanded.  A file in itself is
\* expanded without end.
RECURSIVE Include(_, _, _)
Include(s, p, within) ==
  LET file == FindFile(FileNamed(s.doc[p]))
      new  == Done(Assign(s.doc, p, Files[file]))
      inner(t, q) == IF t.ended = "ok" THEN Include(t, q, within \cup {file}) ELSE t
      texts == VisitOrder({q \in Below(new.doc, p) : new.doc[q].is = "json"})
  IN CASE file = Absent -> Ended(s.doc, "failed")
       [] file \in within -> Ended(s.doc, "undefined")
       [] OTHER -> FoldLeft(inner, new, texts)

Preprocess(doc) ==
  FoldLeft(LAMBDA s, p : IF s.ended = "ok" THEN Include(s, p, {}) ELSE s,
           Done(doc), VisitOrder({p \in DOMAIN doc : doc[p].is = "json"}))

---------------------------------------------------------------------------
(* dereference: a text "ref:path" becomes a copy of the node at the path,  *)
(* as it is by then; the copy itself is not looked into.                   *)

DereferenceOne(s, p) ==
  LET target == s.doc[p].to
  IN CASE s.ended # "ok" -> s
       [] s.ended = "ok" /\ (target \notin DOMAIN s.doc \/ s.doc[target] = NullNode) ->
            Ended(s.doc, "failed")
       [] OTHER -> Done(Assign(s.doc, p, Subtree(s.doc, target)))

Dereference(doc) ==
  FoldLeft(DereferenceOne, Done(doc),
           VisitOrder({p \in DOMAIN doc : doc[p].is = "ref"}))

=============================================================================
