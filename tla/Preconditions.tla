--------------------------- MODULE Preconditions ---------------------------
(***************************************************************************)
(* ETagFilter: whether a conditional request needs the whole response      *)
(* (src/spine/HTTP.cpp).  A header is the sequence of its characters, of   *)
(* which a quote, a comma, an asterisk, "W/" and a blank mean something.   *)
(* A header that is not there is the empty set, as a set of at most one.   *)
(***************************************************************************)
EXTENDS Integers, Sequences, SequencesExt

Quote     == "quote"
CommaMark == ","
Blank     == " "
Asterisk  == "*"
WeakMark  == "W/"

Character == {Quote, CommaMark, Blank, Asterisk, WeakMark} \cup STRING

Trim(s) ==
  LET inked == {k \in DOMAIN s : s[k] # Blank}
  IN IF inked = {} THEN <<>>
     ELSE SubSeq(s, CHOOSE k \in inked : \A m \in inked : k <= m,
                    CHOOSE k \in inked : \A m \in inked : m <= k)

\* Fault: a comma ends a tag, wherever it is.
ScanAtCommas(acc, c) ==
  IF c = CommaMark THEN [acc EXCEPT !.done = Append(@, acc.current), !.current = <<>>]
  ELSE [acc EXCEPT !.current = Append(@, c), !.quoted = (@ # (c = Quote))]

\* One character of a list: a comma between quotes does not end a tag.
Scan(acc, c) ==
  IF c = CommaMark /\ ~acc.quoted THEN [acc EXCEPT !.done = Append(@, acc.current), !.current = <<>>]
  ELSE [acc EXCEPT !.current = Append(@, c), !.quoted = (@ # (c = Quote))]

Unscanned == [done |-> <<>>, current |-> <<>>, quoted |-> FALSE]
Scanned(s) == FoldLeft(Scan, Unscanned, s)

SplitTagList(s) == Append(Scanned(s).done, Scanned(s).current)

\* "abc", W/"abc" or abc
Unquoted(s) ==
  IF Len(s) >= 2 /\ s[1] = Quote /\ s[Len(s)] = Quote THEN SubSeq(s, 2, Len(s) - 1) ELSE s

ParseTrimmed(tag) ==
  LET weak == tag # <<>> /\ tag[1] = WeakMark
  IN [weak |-> weak, opaque |-> Unquoted(IF weak THEN Trim(Tail(tag)) ELSE tag)]

ParseEntityTag(s) == ParseTrimmed(Trim(s))

\* The constructor: what a header asks for.
NonEmptyItems(list) == {Trim(list[k]) : k \in DOMAIN list} \ {<<>>}

AskedBy(header, items) ==
  [given |-> header # {},
   any   |-> <<Asterisk>> \in items,
   tags  |-> {ParseEntityTag(i) : i \in items \ {<<Asterisk>>}}]

Asked(header) == AskedBy(header, UNION {NonEmptyItems(SplitTagList(h)) : h \in header})

\* evaluate(): If-Match compares strongly, If-None-Match weakly.
Verdict(must, none, resource) ==
  LET strong == must.any \/ (~resource.weak /\ resource \in must.tags)
      weak   == none.any \/ \E t \in none.tags : t.opaque = resource.opaque
  IN CASE must.given /\ ~strong -> "precondition_failed"
       [] none.given /\ weak /\ (must.given => strong) -> "not_modified"
       [] OTHER -> "ok"

Evaluate(ifMatch, ifNoneMatch, etag) == Verdict(Asked(ifMatch), Asked(ifNoneMatch), ParseEntityTag(etag))

FullResponseRequired(ifMatch, ifNoneMatch, etag) == Evaluate(ifMatch, ifNoneMatch, etag) = "ok"

\* conditionalResponseStatus(): a frontend that only asks for the ETag decides
\* by itself.  The empty set is std::nullopt.
ConditionalResponseStatus(probing, ifMatch, ifNoneMatch, etag) ==
  IF probing \/ FullResponseRequired(ifMatch, ifNoneMatch, etag) THEN {}
  ELSE {Evaluate(ifMatch, ifNoneMatch, etag)}

=============================================================================
