--------------------------- MODULE RequestProofs ----------------------------
(***************************************************************************)
(* Proofs about HttpExchange, for any requests of clients that mean the    *)
(* length they declare, any edits, servers and parameters, and about       *)
(* PluginRequests, for any number of threads and requests, whether handlers*)
(* throw or not.                                                           *)
(***************************************************************************)
EXTENDS PluginRequests, HttpExchange, FiniteSetTheorems, TLAPS

(* Bags of parameters, a nameless one among them, and what is made of them. *)
AnyPair  == Pair \cup {Nameless}
PairBags == UNION {[D -> Nat \ {0}] : D \in SUBSET AnyPair}
Bodies   == [pairs : PairBags, plus : BOOLEAN]
Methods  == Method \cup {w.method : w \in Foreign}
Objects  == [method : Methods, form : BOOLEAN, declared : Nat \cup {None},
             params : PairBags, content : Bodies]

LEMMA PairBag ==
  \A B : B \in PairBags <=> IsABag(B) /\ DOMAIN B \subseteq AnyPair
<1>1. ASSUME NEW B, B \in PairBags
      PROVE  IsABag(B) /\ DOMAIN B \subseteq AnyPair
  <2>1. PICK D \in SUBSET AnyPair : B \in [D -> Nat \ {0}]
    BY <1>1 DEF PairBags
  <2>. QED  BY <2>1 DEF IsABag
<1>2. ASSUME NEW B, IsABag(B), DOMAIN B \subseteq AnyPair
      PROVE  B \in PairBags
  <2>1. B \in [DOMAIN B -> Nat \ {0}]
    BY <1>2 DEF IsABag
  <2>. QED  BY <1>2, <2>1 DEF PairBags
<1>. QED  BY <1>1, <1>2

LEMMA BagsOfPairs ==
  /\ EmptyBag \in PairBags
  /\ \A p \in AnyPair : SetToBag({p}) \in PairBags
  /\ \A A, B \in PairBags : A (+) B \in PairBags
  /\ \A B \in PairBags : \A name : Without(B, name) \in PairBags
<1>1. EmptyBag \in PairBags
  BY PairBag DEF EmptyBag, SetToBag, IsABag
<1>2. ASSUME NEW p \in AnyPair
      PROVE  SetToBag({p}) \in PairBags
  BY PairBag DEF SetToBag, IsABag
<1>3. ASSUME NEW A \in PairBags, NEW B \in PairBags
      PROVE  A (+) B \in PairBags
  <2>1. IsABag(A) /\ IsABag(B) /\ DOMAIN A \subseteq AnyPair /\ DOMAIN B \subseteq AnyPair
    BY PairBag
  <2>2. IsABag(A (+) B) /\ DOMAIN (A (+) B) = DOMAIN A \cup DOMAIN B
    BY <2>1 DEF IsABag, (+)
  <2>. QED  BY <2>1, <2>2, PairBag
<1>4. ASSUME NEW B \in PairBags, NEW name
      PROVE  Without(B, name) \in PairBags
  <2>1. IsABag(B) /\ DOMAIN B \subseteq AnyPair
    BY PairBag
  <2>2. IsABag(Without(B, name)) /\ DOMAIN Without(B, name) \subseteq DOMAIN B
    BY <2>1 DEF IsABag, Without
  <2>. QED  BY <2>1, <2>2, PairBag
<1>. QED  BY <1>1, <1>2, <1>3, <1>4

LEMMA NothingAdded ==
  ASSUME NEW B \in PairBags
  PROVE  EmptyBag (+) B = B /\ B (+) EmptyBag = B
<1>1. IsABag(B)
  BY PairBag
<1>. QED  BY <1>1 DEF EmptyBag, SetToBag, IsABag, (+)

(* A bag of parameters is finite, whatever their names.                     *)
LEMMA CopiesFinite ==
  ASSUME NEW B \in PairBags
  PROVE  IsFiniteSet(Copies(B))
<1>. DEFINE f == [p \in DOMAIN B |-> {p} \X (1 .. B[p])]
            S == {{p} \X (1 .. B[p]) : p \in DOMAIN B}
<1>1. IsABag(B) /\ DOMAIN B \subseteq AnyPair
  BY PairBag
<1>2. IsFiniteSet(DOMAIN B)
  <2>1. IsFiniteSet({"empty", "plain", "spaced", "joined"})
    <3>1. IsFiniteSet({"empty"} \cup {"plain"}) /\ IsFiniteSet({"spaced"} \cup {"joined"})
      BY FS_Singleton, FS_Union
    <3>2. {"empty", "plain", "spaced", "joined"} = ({"empty"} \cup {"plain"}) \cup ({"spaced"} \cup {"joined"})
      OBVIOUS
    <3>3. IsFiniteSet(({"empty"} \cup {"plain"}) \cup ({"spaced"} \cup {"joined"}))
      BY <3>1, FS_Union, ZenonT(60)
    <3>. QED  BY <3>2, <3>3
  <2>2. IsFiniteSet(Pair)
    BY <2>1, FS_Product, HttpExchangeAssumption DEF Pair
  <2>3. IsFiniteSet(AnyPair)
    BY <2>2, FS_Singleton, FS_Union DEF AnyPair
  <2>. QED  BY <1>1, <2>3, FS_Subset
<1>3. IsFiniteSet(S)
  <2>1. f \in Surjection(DOMAIN B, S)
    BY DEF Surjection
  <2>. QED  BY <1>2, <2>1, FS_Surjection
<1>4. ASSUME NEW T \in S
      PROVE  IsFiniteSet(T)
  <2>1. PICK p \in DOMAIN B : T = {p} \X (1 .. B[p])
    OBVIOUS
  <2>2. B[p] \in Int /\ 1 \in Int
    BY <1>1 DEF IsABag
  <2>. QED  BY <2>1, <2>2, FS_Singleton, FS_Interval, FS_Product
<1>. QED  BY <1>3, <1>4, FS_UNION DEF Copies

LEMMA LengthIsNat ==
  ASSUME NEW b \in Bodies
  PROVE  Length(b) \in Nat
<1>. DEFINE C == Copies(b.pairs)
            D == {c \in C : c[1][2] \in {"spaced", "joined"}}
<1>1. IsFiniteSet(C)
  BY CopiesFinite DEF Bodies
<1>2. IsFiniteSet(D)
  BY <1>1, FS_Subset
<1>3. Cardinality(C) \in Nat /\ Cardinality(D) \in Nat
  BY <1>1, <1>2, FS_CardinalityType
<1>. QED  BY <1>3 DEF Length

(* What names are read as is a name, and a pair that is cut is pairs.       *)
LEMMA PieceIsPair ==
  ASSUME NEW p \in AnyPair, NEW line \in BOOLEAN, ~Intact(p[1], line), NEW i \in DOMAIN CutAt[p[1]]
  PROVE  Piece(p, i, line) \in AnyPair
<1>1. p \in Pair /\ p[1] \in ParameterName /\ p[2] \in {"empty", "plain", "spaced", "joined"}
  <2>1. Nameless[1] = "" /\ Intact("", line)
    BY DEF Nameless, Intact
  <2>2. p # Nameless
    BY <2>1
  <2>3. p \in ParameterName \X {"empty", "plain", "spaced", "joined"}
    BY <2>2 DEF AnyPair, Pair
  <2>. QED  BY <2>3 DEF Pair
<1>2. CutAt[p[1]][i] \in ParameterName
  <2>1. CutAt[p[1]] \in Seq(ParameterName)
    BY <1>1, HttpExchangeAssumption
  <2>. QED  BY <2>1
<1>3. \A name \in ParameterName : Key(name, line) \in ParameterName
  BY HttpExchangeAssumption DEF Key
<1>4. Piece(p, i, line) \in Pair
  BY <1>1, <1>2, <1>3 DEF Piece, Pair
<1>. QED  BY <1>4 DEF AnyPair

LEMMA ReadBackIsBag ==
  ASSUME NEW pairs \in PairBags, NEW line \in BOOLEAN
  PROVE  ReadBack(pairs, line) \in PairBags
<1>. DEFINE intact == {p \in DOMAIN pairs : Intact(p[1], line)}
            cut    == {d \in Copies(pairs) : d[1] \notin intact}
            pieces == {{c} \X DOMAIN CutAt[c[1][1]] : c \in cut}
            torn   == UNION pieces
            read   == [t \in torn |-> Piece(t[1][1], t[2], line)]
            whole  == [p \in intact |-> pairs[p]]
            made   == [x \in {read[t] : t \in torn} |-> Cardinality({t \in torn : read[t] = x})]
<1>1. ReadBack(pairs, line) = whole (+) made
  BY Zenon DEF ReadBack
<1>2. IsABag(pairs) /\ DOMAIN pairs \subseteq AnyPair
  BY PairBag
<1>3. whole \in PairBags
  <2>1. IsABag(whole) /\ DOMAIN whole \subseteq AnyPair
    BY <1>2 DEF IsABag
  <2>. QED  BY <2>1, PairBag
<1>4. ASSUME NEW c \in cut
      PROVE  c[1] \in AnyPair /\ ~Intact(c[1][1], line) /\ c[1][1] \in ParameterName
  <2>1. PICK p \in DOMAIN pairs : c \in {p} \X (1 .. pairs[p])
    BY <1>4 DEF Copies
  <2>2. c[1] = p /\ p \in AnyPair
    BY <1>2, <2>1
  <2>3. ~Intact(p[1], line)
    BY <1>4, <2>1, <2>2
  <2>4. p[1] \in ParameterName
    <3>1. Nameless[1] = "" /\ Intact("", line)
      BY DEF Nameless, Intact
    <3>2. p \in ParameterName \X {"empty", "plain", "spaced", "joined"}
      BY <2>2, <2>3, <3>1 DEF AnyPair, Pair
    <3>. QED  BY <3>2
  <2>. QED  BY <2>2, <2>3, <2>4
<1>5. IsFiniteSet(torn)
  <2>1. IsFiniteSet(cut)
    BY CopiesFinite, FS_Subset
  <2>2. IsFiniteSet(pieces)
    <3>. DEFINE f == [c \in cut |-> {c} \X DOMAIN CutAt[c[1][1]]]
    <3>1. f \in Surjection(cut, pieces)
      BY DEF Surjection
    <3>. QED  BY <2>1, <3>1, FS_Surjection
  <2>3. ASSUME NEW T \in pieces
        PROVE  IsFiniteSet(T)
    <3>1. PICK c \in cut : T = {c} \X DOMAIN CutAt[c[1][1]]
      OBVIOUS
    <3>2. CutAt[c[1][1]] \in Seq(ParameterName)
      BY <1>4, HttpExchangeAssumption
    <3>3. DOMAIN CutAt[c[1][1]] = 1 .. Len(CutAt[c[1][1]]) /\ Len(CutAt[c[1][1]]) \in Nat
      BY <3>2
    <3>4. IsFiniteSet(1 .. Len(CutAt[c[1][1]]))
      BY <3>3, FS_Interval
    <3>. QED  BY <3>1, <3>3, <3>4, FS_Singleton, FS_Product
  <2>. QED  BY <2>2, <2>3, FS_UNION
<1>6. ASSUME NEW t \in torn
      PROVE  read[t] \in AnyPair
  <2>1. PICK c \in cut : t \in {c} \X DOMAIN CutAt[c[1][1]]
    OBVIOUS
  <2>2. t[1] = c /\ t[2] \in DOMAIN CutAt[c[1][1]] /\ c[1] \in AnyPair /\ ~Intact(c[1][1], line)
    BY <1>4, <2>1
  <2>3. Piece(c[1], t[2], line) \in AnyPair
    BY <2>2, PieceIsPair
  <2>. QED  BY <2>2, <2>3
<1>7. made \in PairBags
  <2>. HIDE DEF torn, read
  <2>1. ASSUME NEW x \in {read[t] : t \in torn}
        PROVE  Cardinality({t \in torn : read[t] = x}) \in Nat \ {0}
    <3>. DEFINE S == {t \in torn : read[t] = x}
    <3>1. IsFiniteSet(S) /\ S # {}
      BY <1>5, <2>1, FS_Subset
    <3>. QED  BY <3>1, FS_CardinalityType, FS_EmptySet
  <2>2. IsABag(made) /\ DOMAIN made \subseteq AnyPair
    BY <1>6, <2>1 DEF IsABag
  <2>. QED  BY <2>2, PairBag
<1>. QED  BY <1>1, <1>3, <1>7, BagsOfPairs, Zenon

(* Names that need no encoding are read as they were written.               *)
LEMMA IntactIsReadBack ==
  ASSUME NEW pairs \in PairBags, NEW line \in BOOLEAN, \A p \in DOMAIN pairs : Intact(p[1], line)
  PROVE  ReadBack(pairs, line) = pairs
<1>. DEFINE intact == {p \in DOMAIN pairs : Intact(p[1], line)}
            cut    == {d \in Copies(pairs) : d[1] \notin intact}
            torn   == UNION {{c} \X DOMAIN CutAt[c[1][1]] : c \in cut}
            read   == [t \in torn |-> Piece(t[1][1], t[2], line)]
            whole  == [p \in intact |-> pairs[p]]
            made   == [x \in {read[t] : t \in torn} |-> Cardinality({t \in torn : read[t] = x})]
<1>1. ReadBack(pairs, line) = whole (+) made
  BY Zenon DEF ReadBack
<1>2. IsABag(pairs) /\ intact = DOMAIN pairs
  BY PairBag
<1>3. whole = pairs
  BY <1>2 DEF IsABag
<1>4. cut = {}
  <2>1. ASSUME NEW c \in Copies(pairs)
        PROVE  c[1] \in DOMAIN pairs
    BY <2>1 DEF Copies
  <2>. QED  BY <1>2, <2>1
<1>5. torn = {}
  BY <1>4
<1>6. DOMAIN made = {} /\ made = [x \in {} |-> Cardinality({t \in torn : read[t] = x})]
  BY <1>5
<1>7. made = EmptyBag
  BY <1>6 DEF EmptyBag, SetToBag
<1>8. pairs (+) EmptyBag = pairs
  BY NothingAdded
<1>. HIDE DEF whole, made
<1>. QED  BY <1>1, <1>3, <1>7, <1>8, Zenon

(* What has arrived of a body is a body too.                                *)
LEMMA PartsAreBodies ==
  ASSUME NEW w, w.body \in Bodies, NEW n, NEW b \in Parts(w, n)
  PROVE  b \in Bodies
<1>1. CASE n = Total(w)
  BY <1>1 DEF Parts
<1>2. CASE n # Total(w)
  <2>1. b \in [pairs : SubBags(w.body.pairs), plus : {w.body.plus}]
    BY <1>2 DEF Parts
  <2>2. ASSUME NEW c \in SubBags(w.body.pairs)
        PROVE  c \in PairBags
    <3>1. PICK D \in SUBSET DOMAIN w.body.pairs : c \in [D -> 1 .. Cardinality(Copies(w.body.pairs))]
      BY DEF SubBags
    <3>2. w.body.pairs \in PairBags /\ DOMAIN w.body.pairs \subseteq AnyPair
      BY PairBag DEF Bodies
    <3>3. Cardinality(Copies(w.body.pairs)) \in Nat
      BY <3>2, CopiesFinite, FS_CardinalityType
    <3>4. IsABag(c) /\ DOMAIN c \subseteq AnyPair
      BY <3>1, <3>2, <3>3 DEF IsABag
    <3>. QED  BY <3>4, PairBag
  <2>. QED  BY <2>1, <2>2 DEF Bodies
<1>. QED  BY <1>1, <1>2

-----------------------------------------------------------------------------
LEMMA ExchangeBounds ==
  /\ MaxPairs \in Nat /\ MaxHops \in Nat /\ MaxSteps \in Nat /\ MaxBytes \in Nat
  /\ None \notin Nat /\ None \notin Status /\ Unknown \notin Nat
  /\ "ok" \in Status /\ "service_unavailable" \in Status /\ Custom \subseteq Status
BY HttpExchangeAssumption DEF Custom

Responses == [status : Status \cup {None}, kind : {"string", "vector", "stream"},
              size : Nat \cup {Unknown}, chunked : BOOLEAN, error : Custom \cup {None}]

Receiving == {"transit", "held", "failed"}
Phases    == Receiving \cup {"thrown", "answering", "sending", "sent", "lost", "closed", "broken"}

WireTypes(w) ==
  /\ w.method \in Methods /\ w.form \in BOOLEAN /\ w.declared \in Nat \cup {None}
  /\ w.query \in PairBags /\ w.body \in Bodies

RequestTypes ==
  /\ hop \in 0 .. MaxHops /\ arrived \in 0 .. Total(wire) /\ WireTypes(wire)
  /\ request \in Objects /\ edited \in BOOLEAN /\ altered \in BOOLEAN /\ meant \in PairBags

ResponseTypes ==
  /\ response \in Responses
  /\ response.size = Unknown => response.kind = "stream" /\ response.chunked
  /\ steps \in 0 .. MaxSteps /\ bytes \in 0 .. MaxBytes /\ handler \in BOOLEAN /\ log \in Seq(Nat)

(* What nobody has altered declares the length it has.                      *)
Declared ==
  ~altered => wire.declared \in {None, Length(wire.body)}

(* An object that its server has not edited says what was received.         *)
Held ==
  phase = "held" => /\ Parsing(wire, arrived) = "COMPLETE" /\ arrived # 0
                    /\ ~edited => \E b \in Parts(wire, arrived) : request = Parsed(wire, b)

Meant == phase \in {"transit", "held"} /\ Carried(wire) => Parameters(wire, wire.body) = meant

(* The entry of a stream is written by the handler, which is then unset.    *)
Entry == IF response.kind = "stream" THEN bytes ELSE response.size
Logged ==
  /\ phase \in Receiving \cup {"answering"} => ~handler /\ log = <<>>
  /\ phase = "sending" => IF response.kind = "stream" THEN handler /\ log = <<>>
                          ELSE ~handler /\ log = <<response.size>>
  /\ phase \in {"sent", "lost", "closed", "broken"} => ~handler /\ log = <<Entry>>
  /\ handler => response.kind = "stream"
  /\ Len(log) <= 1

RequestInv  == RequestTypes /\ Declared /\ Held /\ Meant /\ TakenWholeUnlessAltered
ResponseInv == ResponseTypes /\ Logged
ExchangeInv == phase \in Phases /\ RequestInv /\ ResponseInv

-----------------------------------------------------------------------------
LEMMA TotalIsNat ==
  ASSUME NEW w, WireTypes(w)
  PROVE  Length(w.body) \in Nat /\ Total(w) \in Nat /\ Total(w) = 1 + Length(w.body)
BY LengthIsNat DEF WireTypes, Total

LEMMA NoBodyIsBody == NoBody \in Bodies /\ Empty(NoBody)
BY BagsOfPairs DEF NoBody, Bodies, Empty

LEMMA WrittenTypes ==
  ASSUME NEW r \in Objects
  PROVE  WireTypes(Written(r))
<1>1. [pairs |-> r.params, plus |-> FALSE] \in Bodies /\ r.content \in Bodies
  BY DEF Objects, Bodies
<1>. QED  BY <1>1, BagsOfPairs, NoBodyIsBody DEF Objects, WireTypes, Written

LEMMA ParsedTypes ==
  ASSUME NEW w, WireTypes(w), NEW b \in Bodies
  PROVE  Parsed(w, b) \in Objects
<1>1. b.pairs \in PairBags /\ SetToBag({Nameless}) \in PairBags
  BY BagsOfPairs DEF Bodies, AnyPair
<1>2. FormPairs(b) \in PairBags
  BY <1>1 DEF FormPairs
<1>3. Parameters(w, b) \in PairBags
  BY <1>2, BagsOfPairs, ReadBackIsBag DEF Parameters, WireTypes
<1>. QED  BY <1>3 DEF Parsed, Objects, WireTypes

(* Parameters that are written where Carried says are read back the same.   *)
LEMMA WrittenIsReadBack ==
  ASSUME NEW r \in Objects, \A p \in DOMAIN r.params : Intact(p[1], ~r.form),
         IF r.form THEN r.method = "POST" /\ ~Empty(Written(r).body) /\ r.params # EmptyBag
                   ELSE r.method = "GET"
  PROVE  Parameters(Written(r), Written(r).body) = r.params
<1>. DEFINE w == Written(r)
<1>1. r.params \in PairBags /\ r.form \in BOOLEAN /\ w.form = r.form
  BY DEF Objects, Written
<1>2. CASE r.form
  <2>1. w.query = EmptyBag /\ w.body = IF FormBody(r) THEN [pairs |-> r.params, plus |-> FALSE] ELSE r.content
    BY <1>2 DEF Written
  <2>2. FormBody(r)
    BY <1>2, <2>1 DEF FormBody
  <2>3. w.body.pairs = r.params /\ FormPairs(w.body) = r.params
    BY <1>2, <2>1, <2>2 DEF FormPairs
  <2>4. ReadBack(EmptyBag, TRUE) = EmptyBag
    BY IntactIsReadBack, BagsOfPairs DEF EmptyBag, SetToBag
  <2>5. ReadBack(r.params, FALSE) = r.params
    BY <1>1, <1>2, IntactIsReadBack
  <2>. QED  BY <1>1, <1>2, <2>1, <2>3, <2>4, <2>5, NothingAdded DEF Parameters
<1>3. CASE ~r.form
  <2>1. w.query = r.params
    BY <1>3 DEF Written
  <2>2. ReadBack(r.params, TRUE) = r.params
    BY <1>1, <1>3, IntactIsReadBack
  <2>. QED  BY <1>1, <1>3, <2>1, <2>2, NothingAdded DEF Parameters
<1>. QED  BY <1>2, <1>3

-----------------------------------------------------------------------------
LEMMA ForeignTypes ==
  /\ WireTypes(NoWire)
  /\ \A w \in Foreign : WireTypes(w) /\ w.declared \in {None, Length(w.body)}
<1>1. WireTypes(NoWire)
  <2>1. "GET" \in Methods
    BY DEF Methods, Method
  <2>2. EmptyBag \in PairBags
    BY BagsOfPairs
  <2>. QED  BY <2>1, <2>2, NoBodyIsBody DEF NoWire, WireTypes
<1>2. ASSUME NEW w \in Foreign
      PROVE  WireTypes(w) /\ w.declared \in {None, Length(w.body)}
  <2>1. /\ w.method \in Methods /\ w.form \in BOOLEAN /\ w.declared \in {None, Length(w.body)}
        /\ w.body \in [pairs : {w.body.pairs}, plus : BOOLEAN]
        /\ IsABag(w.query) /\ IsABag(w.body.pairs)
        /\ DOMAIN w.query \subseteq Pair /\ DOMAIN w.body.pairs \subseteq Pair
    BY ForeignAssumption DEF Methods
  <2>2. w.query \in PairBags /\ w.body \in Bodies
    BY <2>1, PairBag DEF AnyPair, Bodies
  <2>. QED  BY <2>1, <2>2, LengthIsNat DEF WireTypes
<1>. QED  BY <1>1, <1>2

LEMMA ExchangeStart == ExchangeInit => ExchangeInv
<1>. SUFFICES ASSUME ExchangeInit
              PROVE  ExchangeInv
  OBVIOUS
<1>1. WireTypes(NoWire) /\ WireTypes(wire) /\ wire.declared \in {None, Length(wire.body)}
  BY ForeignTypes DEF ExchangeInit
<1>2. NothingParsed \in Objects
  BY <1>1, ParsedTypes, NoBodyIsBody DEF NothingParsed
<1>3. meant \in PairBags
  <2>1. Parsed(wire, wire.body) \in Objects
    BY <1>1, ParsedTypes DEF WireTypes
  <2>. QED  BY <2>1 DEF Parsed, Objects, ExchangeInit
<1>4. phase = "transit" /\ arrived = 0 /\ hop = 0 /\ 0 \in 0 .. MaxHops
  BY ExchangeBounds DEF ExchangeInit
<1>5. arrived \in 0 .. Total(wire) /\ arrived # Total(wire)
  BY <1>1, <1>4, TotalIsNat
<1>6. RequestInv
  BY <1>1, <1>2, <1>3, <1>4, <1>5
  DEF ExchangeInit, RequestInv, RequestTypes, Declared, Held, Meant, TakenWholeUnlessAltered
<1>7. ResponseInv
  <2>1. NoResponse \in Responses /\ NoResponse.size = 0 /\ 0 # Unknown
    BY ExchangeBounds DEF NoResponse, Responses
  <2>2. log \in Seq(Nat) /\ Len(log) <= 1
    BY DEF ExchangeInit
  <2>3. ResponseTypes
    <3>1. 0 \in 0 .. MaxSteps /\ 0 \in 0 .. MaxBytes
      BY ExchangeBounds
    <3>. QED  BY <2>1, <2>2, <3>1 DEF ExchangeInit, ResponseTypes
  <2>4. Logged
    BY <1>4, <2>2 DEF ExchangeInit, Logged
  <2>. QED  BY <2>3, <2>4 DEF ResponseInv
<1>. QED  BY <1>4, <1>6, <1>7 DEF ExchangeInv, Phases, Receiving

-----------------------------------------------------------------------------
(* Outside of the request's phases nothing is asked of it but its types.    *)
LEMMA RequestKept ==
  ASSUME RequestInv, UNCHANGED <<wire, arrived, request, edited, altered, meant>>,
         hop' \in 0 .. MaxHops, phase' \notin Receiving
  PROVE  RequestInv'
<1>1. RequestTypes' /\ Declared'
  BY DEF RequestInv, RequestTypes, Declared
<1>2. phase' # "transit" /\ phase' # "held" /\ phase' # "failed"
  BY DEF Receiving
<1>. QED  BY <1>1, <1>2 DEF RequestInv, Held, Meant, TakenWholeUnlessAltered

LEMMA ResponseKept ==
  ASSUME ResponseInv, phase \in Receiving, phase' \in Receiving \cup {"thrown", "answering"},
         UNCHANGED responseVars
  PROVE  ResponseInv'
<1>1. ResponseTypes'
  BY DEF ResponseInv, ResponseTypes, responseVars
<1>2. Logged'
  BY DEF ResponseInv, Logged, Receiving, responseVars
<1>. QED  BY <1>1, <1>2 DEF ResponseInv

LEMMA ReceiveKeeps ==
  ASSUME ExchangeInv, NEW n \in 1 .. Total(wire), Receive(n)
  PROVE  ExchangeInv'
<1>1. /\ phase = "transit" /\ arrived' = n /\ UNCHANGED <<hop, wire, altered, meant, responseVars>>
      /\ phase \in Receiving /\ WireTypes(wire)
  BY DEF Receive, Receiving, ExchangeInv, RequestInv, RequestTypes
<1>2. /\ Length(wire.body) \in Nat /\ Total(wire) = 1 + Length(wire.body) /\ n \in Nat /\ n # 0
      /\ n \in 0 .. Total(wire) /\ n <= Total(wire)
  BY <1>1, TotalIsNat
<1>3. Declared' /\ RequestInv /\ ResponseInv
  BY <1>1 DEF ExchangeInv, RequestInv, Declared
<1>4. CASE Parsing(wire, n) = "INCOMPLETE" /\ UNCHANGED <<phase, request, edited>>
  <2>1. RequestTypes'
    BY <1>1, <1>2, <1>3, <1>4 DEF RequestInv, RequestTypes
  <2>2. Meant' /\ Held'
    BY <1>1, <1>3, <1>4 DEF RequestInv, Meant, Carried, Held
  <2>3. n = Total(wire) => altered \/ Garbled(wire)
    BY <1>2, <1>3, <1>4 DEF RequestInv, Declared, Parsing
  <2>4. TakenWholeUnlessAltered'
    BY <1>1, <1>4, <2>3 DEF TakenWholeUnlessAltered
  <2>. QED  BY <1>1, <1>3, <1>4, <2>1, <2>2, <2>4, ResponseKept DEF ExchangeInv, RequestInv, Phases
<1>5. CASE Parsing(wire, n) = "FAILED" /\ phase' = "failed" /\ UNCHANGED <<request, edited>>
  <2>1. RequestTypes'
    BY <1>1, <1>2, <1>3, <1>5 DEF RequestInv, RequestTypes
  <2>2. Meant' /\ Held'
    BY <1>5 DEF Meant, Held
  <2>3. altered \/ Garbled(wire)
    BY <1>2, <1>3, <1>5 DEF RequestInv, Declared, Parsing
  <2>4. TakenWholeUnlessAltered'
    BY <1>1, <2>3 DEF TakenWholeUnlessAltered
  <2>. QED  BY <1>1, <1>3, <1>5, <2>1, <2>2, <2>4, ResponseKept DEF ExchangeInv, RequestInv, Phases, Receiving
<1>6. CASE /\ Parsing(wire, n) = "COMPLETE" /\ phase' = "held" /\ edited' = FALSE
           /\ \E body \in Parts(wire, n) : request' = Parsed(wire, body)
  <2>1. PICK body \in Parts(wire, n) : request' = Parsed(wire, body)
    BY <1>6
  <2>2. request' \in Objects
    BY <1>1, <2>1, PartsAreBodies, ParsedTypes DEF WireTypes
  <2>3. RequestTypes'
    BY <1>1, <1>2, <1>3, <1>6, <2>2 DEF RequestInv, RequestTypes
  <2>4. Held'
    BY <1>1, <1>2, <1>6 DEF Held
  <2>5. Meant'
    BY <1>1, <1>3 DEF RequestInv, Meant, Carried
  <2>6. wire.declared # None /\ n < Total(wire) => altered \/ Garbled(wire)
    BY <1>2, <1>3, <1>6 DEF RequestInv, Declared, Parsing
  <2>7. TakenWholeUnlessAltered'
    BY <1>1, <1>6, <2>6 DEF TakenWholeUnlessAltered
  <2>. QED  BY <1>1, <1>3, <1>6, <2>3, <2>4, <2>5, <2>7, ResponseKept DEF ExchangeInv, RequestInv, Phases, Receiving
<1>. QED  BY <1>4, <1>5, <1>6 DEF Receive

LEMMA EditKeeps ==
  ASSUME ExchangeInv, NEW r \in Objects, Edit(r)
  PROVE  ExchangeInv'
<1>1. /\ UNCHANGED <<phase, hop, wire, arrived, altered, meant, responseVars>> /\ request' = r /\ edited' = TRUE
      /\ phase = "held" /\ phase \in Receiving
  BY DEF Edit, Receiving
<1>2. RequestTypes' /\ Declared' /\ Meant' /\ Held' /\ TakenWholeUnlessAltered'
  BY <1>1 DEF ExchangeInv, RequestInv, RequestTypes, Declared, Meant, Carried, Held, TakenWholeUnlessAltered
<1>. QED  BY <1>1, <1>2, ResponseKept DEF ExchangeInv, RequestInv

LEMMA EditsKeep ==
  ASSUME ExchangeInv
  PROVE  /\ \A p \in Added : SetParameter(p) \/ AddParameter(p) => ExchangeInv'
         /\ \A name \in ParameterName : RemoveParameter(name) => ExchangeInv'
         /\ \A m \in Method : SetMethod(m) => ExchangeInv'
         /\ \A w \in Foreign : SetContent(w.body) \/ SetLength(w.declared) => ExchangeInv'
<1>1. request \in Objects /\ request.params \in PairBags
  BY DEF ExchangeInv, RequestInv, RequestTypes, Objects
<1>2. ASSUME NEW ps \in PairBags
      PROVE  [request EXCEPT !.params = ps] \in Objects
  BY <1>1 DEF Objects
<1>3. ASSUME NEW p \in Added, SetParameter(p) \/ AddParameter(p)
      PROVE  ExchangeInv'
  <2>1. SetToBag({p}) \in PairBags
    BY BagsOfPairs, HttpExchangeAssumption DEF AnyPair, Pair
  <2>2. Without(request.params, p[1]) (+) SetToBag({p}) \in PairBags /\ request.params (+) SetToBag({p}) \in PairBags
    BY <1>1, <2>1, BagsOfPairs
  <2>3. CASE SetParameter(p)
    BY <1>2, <2>2, <2>3, EditKeeps DEF SetParameter
  <2>4. CASE AddParameter(p)
    BY <1>2, <2>2, <2>4, EditKeeps DEF AddParameter
  <2>. QED  BY <1>3, <2>3, <2>4
<1>4. ASSUME NEW name \in ParameterName, RemoveParameter(name)
      PROVE  ExchangeInv'
  <2>1. Without(request.params, name) \in PairBags
    BY <1>1, BagsOfPairs
  <2>. QED  BY <1>2, <1>4, <2>1, EditKeeps DEF RemoveParameter
<1>5. ASSUME NEW m \in Method, SetMethod(m)
      PROVE  ExchangeInv'
  <2>1. [request EXCEPT !.method = m] \in Objects
    BY <1>1 DEF Objects, Methods
  <2>. QED  BY <1>5, <2>1, EditKeeps DEF SetMethod
<1>6. ASSUME NEW w \in Foreign, SetContent(w.body) \/ SetLength(w.declared)
      PROVE  ExchangeInv'
  <2>1. w.body \in Bodies /\ w.declared \in Nat \cup {None}
    BY ForeignTypes DEF WireTypes
  <2>2. [request EXCEPT !.content = w.body] \in Objects /\ [request EXCEPT !.declared = w.declared] \in Objects
    BY <1>1, <2>1 DEF Objects
  <2>. QED  BY <1>6, <2>2, EditKeeps DEF SetContent, SetLength
<1>. QED  BY <1>3, <1>4, <1>5, <1>6

LEMMA SendOnKeeps ==
  ASSUME ExchangeInv, SendOn
  PROVE  ExchangeInv'
<1>1. /\ phase = "held" /\ phase \in Receiving /\ UNCHANGED responseVars /\ RequestInv /\ ResponseInv
      /\ request \in Objects /\ WireTypes(wire) /\ hop < MaxHops
  BY DEF SendOn, Receiving, ExchangeInv, RequestInv, RequestTypes
<1>2. CASE Unwritable(request)
  <2>1. phase' = "thrown" /\ UNCHANGED requestVars
    BY <1>2 DEF SendOn
  <2>2. UNCHANGED <<wire, arrived, request, edited, altered, meant>> /\ hop' \in 0 .. MaxHops
    BY <1>1, <2>1 DEF requestVars, RequestInv, RequestTypes
  <2>. QED  BY <1>1, <2>1, <2>2, RequestKept, ResponseKept DEF ExchangeInv, Phases, Receiving
<1>3. CASE ~Unwritable(request)
  <2>1. /\ phase' = "transit" /\ hop' = hop + 1 /\ wire' = Written(request) /\ arrived' = 0
        /\ altered' = (altered \/ edited \/ ~SameBytes(wire'.body, request.content))
        /\ meant' = request.params /\ request' = request /\ edited' = edited
    BY <1>3 DEF SendOn
  <2>2. WireTypes(wire)' /\ Total(wire)' \in Nat /\ Total(wire)' >= 1
    <3>1. WireTypes(Written(request))
      BY <1>1, WrittenTypes
    <3>2. Total(Written(request)) \in Nat /\ Total(Written(request)) >= 1
      BY <3>1, TotalIsNat
    <3>. QED  BY <2>1, <3>1, <3>2 DEF WireTypes, Total
  <2>3. RequestTypes'
    <3>1. hop' \in 0 .. MaxHops /\ arrived' \in 0 .. Total(wire)' /\ meant' \in PairBags
      BY <1>1, <2>1, <2>2, ExchangeBounds DEF RequestInv, RequestTypes, Objects
    <3>. QED  BY <1>1, <2>1, <2>2, <3>1 DEF RequestInv, RequestTypes
  <2>4. Declared'
    <3>1. SUFFICES ASSUME ~altered'
                   PROVE  wire'.declared \in {None, Length(wire'.body)}
      BY DEF Declared, Length
    <3>2. /\ ~altered /\ ~edited /\ Length(wire'.body) = Length(request.content)
          /\ wire'.declared = request.declared
      BY <2>1, <3>1 DEF SameBytes, Written
    <3>3. PICK b \in Parts(wire, arrived) : request = Parsed(wire, b)
      BY <1>1, <3>2 DEF RequestInv, Held
    <3>4. request.declared = wire.declared /\ request.content = b
      BY <3>3 DEF Parsed
    <3>5. Parsing(wire, arrived) = "COMPLETE" /\ arrived # 0
      BY <1>1 DEF RequestInv, Held, Parsing
    <3>6. wire.declared \in {None, Length(wire.body)}
      BY <1>1, <3>2 DEF RequestInv, Declared
    <3>7. CASE wire.declared # None
      <4>1. /\ wire.declared = Length(wire.body) /\ Length(wire.body) \in Nat
            /\ Total(wire) = 1 + Length(wire.body) /\ arrived \in Nat
        BY <1>1, <3>6, <3>7, TotalIsNat DEF RequestInv, RequestTypes
      <4>2. arrived = Total(wire)
        BY <3>5, <3>7, <4>1 DEF Parsing
      <4>3. b = wire.body
        BY <4>2 DEF Parts
      <4>. QED  BY <3>2, <3>4, <4>1, <4>3
    <3>. QED  BY <3>2, <3>4, <3>7
  <2>5. Meant'
    <3>1. SUFFICES ASSUME Carried(wire)'
                   PROVE  Parameters(wire', wire'.body) = meant'
      BY DEF Meant, Parameters
    <3>2. \A p \in DOMAIN request.params : Intact(p[1], ~request.form)
      BY <2>1, <3>1 DEF Carried, Written
    <3>3. IF request.form THEN request.method = "POST" /\ ~Empty(Written(request).body) /\ request.params # EmptyBag
                          ELSE request.method = "GET"
      BY <2>1, <3>1 DEF Carried, Written
    <3>. QED  BY <1>1, <2>1, <3>2, <3>3, WrittenIsReadBack
  <2>6. Held' /\ TakenWholeUnlessAltered'
    <3>1. arrived' # Total(wire)'
      BY <2>1, <2>2
    <3>. QED  BY <2>1, <3>1 DEF Held, TakenWholeUnlessAltered
  <2>. QED  BY <1>1, <2>1, <2>3, <2>4, <2>5, <2>6, ResponseKept DEF ExchangeInv, RequestInv, Phases, Receiving
<1>. QED  BY <1>2, <1>3

LEMMA RespondKeeps ==
  ASSUME ExchangeInv, Respond
  PROVE  ExchangeInv'
<1>1. /\ phase = "held" /\ phase \in Receiving /\ phase' = "answering" /\ response' = NoResponse /\ steps' = 0
      /\ wire' = NoWire /\ arrived' = 0 /\ request' = NothingParsed /\ edited' = FALSE /\ altered' = FALSE
      /\ meant' = EmptyBag /\ hop' = hop /\ handler' = handler /\ bytes' = bytes /\ log' = log
  BY DEF Respond, Receiving
<1>2. NothingParsed \in Objects /\ WireTypes(NoWire) /\ EmptyBag \in PairBags /\ 0 \in 0 .. Total(NoWire)
  <2>1. WireTypes(NoWire) /\ NoBody \in Bodies
    BY ForeignTypes, NoBodyIsBody
  <2>2. Total(NoWire) \in Nat
    BY <2>1, TotalIsNat
  <2>. QED  BY <2>1, <2>2, ParsedTypes, BagsOfPairs DEF NothingParsed
<1>3. RequestTypes'
  <2>1. WireTypes(wire)' /\ Total(wire)' = Total(NoWire)
    BY <1>1, <1>2 DEF WireTypes, Total
  <2>. QED  BY <1>1, <1>2, <2>1 DEF ExchangeInv, RequestInv, RequestTypes
<1>4. Declared'
  <2>1. NoWire.declared = None
    BY DEF NoWire
  <2>. QED  BY <1>1, <2>1 DEF Declared
<1>5. Held' /\ Meant' /\ TakenWholeUnlessAltered'
  BY <1>1 DEF Held, Meant, TakenWholeUnlessAltered
<1>6. ResponseInv'
  <2>1. NoResponse \in Responses /\ NoResponse.size = 0 /\ 0 # Unknown /\ 0 \in 0 .. MaxSteps
    BY ExchangeBounds DEF NoResponse, Responses
  <2>2. ResponseTypes'
    BY <1>1, <2>1 DEF ExchangeInv, ResponseInv, ResponseTypes
  <2>3. Logged'
    BY <1>1 DEF ExchangeInv, ResponseInv, Logged
  <2>. QED  BY <2>2, <2>3 DEF ResponseInv
<1>. QED  BY <1>1, <1>3, <1>4, <1>5, <1>6 DEF ExchangeInv, RequestInv, Phases

-----------------------------------------------------------------------------
Sized(r) == r \in Responses /\ (r.size = Unknown => r.kind = "stream" /\ r.chunked)

LEMMA OperationKeeps ==
  ASSUME ExchangeInv, NEW r, Sized(r), Work(r)
  PROVE  ExchangeInv'
<1>1. /\ phase = "answering" /\ phase' = phase /\ steps < MaxSteps /\ steps' = steps + 1 /\ response' = r
      /\ UNCHANGED <<handler, bytes, log>> /\ UNCHANGED <<hop, wire, arrived, request, edited, altered, meant>>
  BY DEF Work, requestVars
<1>2. RequestInv'
  <2>1. hop' \in 0 .. MaxHops /\ phase' \notin Receiving
    BY <1>1 DEF ExchangeInv, RequestInv, RequestTypes, Receiving
  <2>. QED  BY <1>1, <2>1, RequestKept DEF ExchangeInv
<1>3. ResponseTypes'
  <2>1. steps' \in 0 .. MaxSteps
    BY <1>1, ExchangeBounds DEF ExchangeInv, ResponseInv, ResponseTypes
  <2>. QED  BY <1>1, <2>1 DEF ExchangeInv, ResponseInv, ResponseTypes, Sized
<1>4. Logged'
  BY <1>1 DEF ExchangeInv, ResponseInv, Logged
<1>. QED  BY <1>1, <1>2, <1>3, <1>4 DEF ExchangeInv, ResponseInv, Phases

LEMMA OperationsKeep ==
  ASSUME ExchangeInv
  PROVE  /\ \A s \in Status : SetStatus(s) \/ SetStatusAndContent(s) => ExchangeInv'
         /\ \A kind \in {"string", "vector"}, n \in {0, 1} : SetPlainContent(kind, n) => ExchangeInv'
         /\ SetStream(1) \/ SetStream(Unknown) \/ AppendContent \/ RemoveError => ExchangeInv'
<1>1. Sized(response)
  BY DEF ExchangeInv, ResponseInv, ResponseTypes, Sized
<1>2. 0 # Unknown /\ 1 # Unknown
  BY ExchangeBounds
<1>3. ASSUME NEW s \in Status, SetStatus(s) \/ SetStatusAndContent(s)
      PROVE  ExchangeInv'
  <2>1. Sized([response EXCEPT !.status = s])
    BY <1>1 DEF Sized, Responses
  <2>2. Sized([response EXCEPT !.status = s, !.kind = "string", !.size = IF s \in {"ok", "no_content"} THEN 0 ELSE 1])
    BY <1>1, <1>2 DEF Sized, Responses
  <2>. QED  BY <1>3, <2>1, <2>2, OperationKeeps DEF SetStatus, SetStatusAndContent
<1>4. ASSUME NEW kind \in {"string", "vector"}, NEW n \in {0, 1}, SetPlainContent(kind, n)
      PROVE  ExchangeInv'
  <2>1. n \in Nat /\ n # Unknown /\ kind \in {"string", "vector", "stream"}
    BY <1>2
  <2>2. Sized([response EXCEPT !.kind = kind, !.size = n])
    BY <1>1, <2>1 DEF Sized, Responses
  <2>. QED  BY <1>4, <2>2, OperationKeeps DEF SetPlainContent
<1>5. ASSUME NEW n \in {1, Unknown}, SetStream(n)
      PROVE  ExchangeInv'
  <2>. DEFINE c == response.chunked \/ n = Unknown
  <2>1. c \in BOOLEAN /\ (n = Unknown => c) /\ n \in Nat \cup {Unknown}
    BY <1>1 DEF Sized, Responses
  <2>2. Work([response EXCEPT !.kind = "stream", !.size = n, !.chunked = c])
    BY <1>5 DEF SetStream
  <2>. HIDE DEF c
  <2>3. Sized([response EXCEPT !.kind = "stream", !.size = n, !.chunked = c])
    BY <1>1, <2>1 DEF Sized, Responses
  <2>. QED  BY <2>2, <2>3, OperationKeeps
<1>6. ASSUME AppendContent
      PROVE  ExchangeInv'
  <2>1. response.kind = "string" /\ response.size \in Nat
    BY <1>1, <1>6 DEF AppendContent, Sized, Responses
  <2>2. response.size + 1 \in Nat /\ response.size + 1 # Unknown
    BY <2>1, ExchangeBounds
  <2>3. Sized([response EXCEPT !.size = @ + 1])
    BY <1>1, <2>2 DEF Sized, Responses
  <2>. QED  BY <1>6, <2>3, OperationKeeps DEF AppendContent
<1>7. ASSUME RemoveError
      PROVE  ExchangeInv'
  <2>1. Sized([response EXCEPT !.error = None])
    BY <1>1 DEF Sized, Responses
  <2>. QED  BY <1>7, <2>1, OperationKeeps DEF RemoveError
<1>. QED  BY <1>3, <1>4, <1>5, <1>6, <1>7

(* A step of the connection: the request is not touched.                    *)
LEMMA ConnectionStep ==
  ASSUME ExchangeInv, UNCHANGED requestVars, UNCHANGED <<response, steps>>,
         phase' \in Phases \ Receiving, bytes' \in 0 .. MaxBytes, handler' \in BOOLEAN,
         log' \in Seq(Nat), Logged'
  PROVE  ExchangeInv'
<1>1. RequestInv'
  <2>1. UNCHANGED <<wire, arrived, request, edited, altered, meant>> /\ hop' \in 0 .. MaxHops
    BY DEF requestVars, ExchangeInv, RequestInv, RequestTypes
  <2>. QED  BY <2>1, RequestKept DEF ExchangeInv
<1>2. ResponseTypes'
  BY DEF ExchangeInv, ResponseInv, ResponseTypes
<1>. QED  BY <1>1, <1>2 DEF ExchangeInv, ResponseInv

LEMMA SentSize ==
  ASSUME ExchangeInv
  PROVE  bytes \in Nat /\ (response.kind # "stream" => response.size \in Nat) /\ Entry \in Nat
BY ExchangeBounds DEF ExchangeInv, ResponseInv, ResponseTypes, Responses, Entry

LEMMA LogEntry ==
  ASSUME NEW n \in Nat
  PROVE  <<n>> \in Seq(Nat) /\ Len(<<n>>) = 1 /\ Append(<<>>, n) = <<n>>
OBVIOUS

LEMMA HandledKeeps ==
  ASSUME ExchangeInv, Handled
  PROVE  ExchangeInv'
<1>1. /\ phase = "answering" /\ bytes' = 0 /\ UNCHANGED requestVars /\ UNCHANGED <<response, steps>>
      /\ phase' \in {"thrown", "sending"}
      /\ IF response.kind = "stream" THEN handler' = TRUE /\ log' = <<>>
         ELSE handler' = FALSE /\ log' = <<response.size>>
  BY DEF Handled
<1>2. phase' \in Phases \ Receiving /\ bytes' \in 0 .. MaxBytes
  BY <1>1, ExchangeBounds DEF Phases, Receiving
<1>3. CASE response.kind = "stream"
  <2>1. Logged'
    BY <1>1, <1>3 DEF Logged, Receiving
  <2>. QED  BY <1>1, <1>2, <1>3, <2>1, ConnectionStep
<1>4. CASE response.kind # "stream"
  <2>1. log' \in Seq(Nat) /\ Len(log') = 1
    BY <1>1, <1>4, SentSize, LogEntry
  <2>2. Logged'
    BY <1>1, <1>4, <2>1 DEF Logged, Receiving
  <2>. QED  BY <1>1, <1>2, <1>4, <2>1, <2>2, ConnectionStep
<1>. QED  BY <1>3, <1>4

(* However the connection ends, there is one entry then.                    *)
LEMMA CompletionLogs ==
  ASSUME ExchangeInv, phase \in {"sending", "sent", "lost"},
         phase' \in {"sent", "lost", "closed", "broken"}, RunCompletion,
         UNCHANGED requestVars, UNCHANGED <<response, steps, bytes>>
  PROVE  ExchangeInv'
<1>1. log' = <<Entry>> /\ handler' = FALSE
  <2>1. CASE phase = "sending" /\ response.kind = "stream"
    BY <2>1, SentSize, LogEntry DEF ExchangeInv, ResponseInv, Logged, RunCompletion, Entry
  <2>2. CASE phase = "sending" /\ response.kind # "stream"
    BY <2>2 DEF ExchangeInv, ResponseInv, Logged, RunCompletion, Entry
  <2>3. CASE phase \in {"sent", "lost"}
    BY <2>3 DEF ExchangeInv, ResponseInv, Logged, RunCompletion
  <2>. QED  BY <2>1, <2>2, <2>3
<1>2. Entry' = Entry /\ log' \in Seq(Nat) /\ Len(log') = 1
  BY <1>1, SentSize, LogEntry DEF Entry
<1>3. Logged'
  BY <1>1, <1>2 DEF Logged, Receiving
<1>4. phase' \in Phases \ Receiving /\ bytes' \in 0 .. MaxBytes
  BY DEF Phases, Receiving, ExchangeInv, ResponseInv, ResponseTypes
<1>. QED  BY <1>1, <1>2, <1>3, <1>4, ConnectionStep

LEMMA SendChunkKeeps ==
  ASSUME ExchangeInv, SendChunk
  PROVE  ExchangeInv'
<1>1. /\ phase = "sending" /\ phase' = phase /\ bytes < MaxBytes /\ bytes' = bytes + 1 /\ response.kind = "stream"
      /\ UNCHANGED requestVars /\ UNCHANGED <<response, steps>> /\ handler' = handler /\ log' = log
  BY DEF SendChunk
<1>2. bytes' \in 0 .. MaxBytes /\ handler' \in BOOLEAN /\ log' \in Seq(Nat)
  BY <1>1, ExchangeBounds DEF ExchangeInv, ResponseInv, ResponseTypes
<1>3. Logged'
  BY <1>1 DEF ExchangeInv, ResponseInv, Logged, Receiving
<1>4. phase' \in Phases \ Receiving
  BY <1>1 DEF Phases, Receiving
<1>. QED  BY <1>1, <1>2, <1>3, <1>4, ConnectionStep

LEMMA RecoveredTypes ==
  ASSUME NEW r \in Responses
  PROVE  /\ Recovered(r) \in Responses /\ Recovered(r).size = 0 /\ Recovered(r).kind = "string"
         /\ \/ Recovered(r).status = r.status
            \/ r.status = "service_unavailable" /\ r.error # None
<1>. DEFINE error == IF Errors(r) = <<>> THEN None ELSE Head(Errors(r))
            status == IF Code(r) = "service_unavailable" /\ error # None THEN error ELSE Code(r)
<1>1. /\ r.status \in Status \cup {None} /\ r.error \in Custom \cup {None}
      /\ None \notin Custom /\ "service_unavailable" \in Status /\ "service_unavailable" \notin Custom
      /\ Custom \subseteq Status
  BY ExchangeBounds DEF Responses, Custom
<1>2. error = IF r.status \in Custom THEN r.status ELSE r.error
  <2>1. CASE r.status \in Custom /\ r.error # None
    BY <2>1 DEF Errors
  <2>2. CASE r.status \in Custom /\ r.error = None
    BY <2>2 DEF Errors
  <2>3. CASE r.status \notin Custom /\ r.error # None
    BY <2>3 DEF Errors
  <2>4. CASE r.status \notin Custom /\ r.error = None
    BY <2>4 DEF Errors
  <2>. QED  BY <2>1, <2>2, <2>3, <2>4
<1>. HIDE DEF error
<1>3. error \in Custom \cup {None} /\ status \in Status \cup {None}
  BY <1>1, <1>2 DEF Code
<1>4. status = r.status \/ (r.status = "service_unavailable" /\ r.error # None)
  BY <1>1, <1>2 DEF Code
<1>5. Recovered(r) = [NoResponse EXCEPT !.status = status, !.error = error]
  BY DEF Recovered, error
<1>6. NoResponse \in Responses /\ NoResponse.size = 0 /\ NoResponse.kind = "string"
  BY ExchangeBounds DEF NoResponse, Responses
<1>. HIDE DEF status
<1>. QED  BY <1>3, <1>4, <1>5, <1>6 DEF Responses

LEMMA GiveBackKeeps ==
  ASSUME ExchangeInv, GiveBack
  PROVE  ExchangeInv'
<1>. DEFINE n == IF response.kind = "stream" THEN bytes ELSE response.size
            r == IF phase = "broken" THEN NoResponse
                 ELSE IF n = 0 THEN Recovered(response)
                 ELSE [Recovered(response) EXCEPT !.kind = "vector", !.size = n]
<1>1. /\ phase' = "answering" /\ hop > 0 /\ hop' = hop - 1 /\ response' = r
      /\ steps' = 0 /\ handler' = FALSE /\ bytes' = 0 /\ log' = <<>>
      /\ UNCHANGED <<wire, arrived, request, edited, altered, meant>>
  BY DEF GiveBack
<1>2. n \in Nat /\ n # Unknown /\ 0 # Unknown
  BY SentSize, ExchangeBounds
<1>3. response \in Responses
  BY DEF ExchangeInv, ResponseInv, ResponseTypes
<1>4. Sized(r)
  <2>1. Sized(NoResponse)
    BY <1>2 DEF Sized, NoResponse, Responses
  <2>2. Sized(Recovered(response))
    BY <1>2, <1>3, RecoveredTypes DEF Sized
  <2>. HIDE DEF n
  <2>3. Sized([Recovered(response) EXCEPT !.kind = "vector", !.size = n])
    BY <1>2, <1>3, RecoveredTypes DEF Sized, Responses
  <2>. QED  BY <2>1, <2>2, <2>3
<1>. HIDE DEF r
<1>5. RequestInv'
  <2>1. hop' \in 0 .. MaxHops /\ phase' \notin Receiving
    BY <1>1, ExchangeBounds DEF ExchangeInv, RequestInv, RequestTypes, Receiving
  <2>. QED  BY <1>1, <2>1, RequestKept DEF ExchangeInv
<1>6. ResponseTypes'
  <2>1. 0 \in 0 .. MaxSteps /\ 0 \in 0 .. MaxBytes
    BY ExchangeBounds
  <2>2. log' \in Seq(Nat)
    <3>1. <<>> \in Seq(Nat)
      OBVIOUS
    <3>. QED  BY <1>1, <3>1, Zenon
  <2>. QED  BY <1>1, <1>4, <2>1, <2>2 DEF ResponseTypes, Sized
<1>7. Logged'
  BY <1>1 DEF Logged, Receiving
<1>. QED  BY <1>1, <1>5, <1>6, <1>7 DEF ExchangeInv, ResponseInv, Phases

-----------------------------------------------------------------------------
LEMMA ExchangeStep ==
  ASSUME ExchangeInv, [ExchangeNext]_exchangeVars
  PROVE  ExchangeInv'
<1>1. CASE RequestStep
  BY <1>1, ReceiveKeeps, EditsKeep, SendOnKeeps, RespondKeeps DEF RequestStep
<1>2. CASE ResponseStep
  <2>1. ASSUME Complete \/ Break
        PROVE  ExchangeInv'
    BY <2>1, CompletionLogs DEF Complete, Break
  <2>2. ASSUME TearDown
        PROVE  ExchangeInv'
    BY <2>2, CompletionLogs DEF TearDown
  <2>. QED  BY <1>2, <2>1, <2>2, OperationsKeep, HandledKeeps, SendChunkKeeps, GiveBackKeeps DEF ResponseStep
<1>3. CASE UNCHANGED exchangeVars
  <2>1. UNCHANGED <<phase, hop, wire, arrived, request, edited, altered, meant, response, steps, handler, bytes, log>>
    BY <1>3 DEF exchangeVars, requestVars, responseVars
  <2>2. RequestInv'
    BY <2>1 DEF ExchangeInv, RequestInv, RequestTypes, Declared, Held, Meant, Carried, TakenWholeUnlessAltered
  <2>3. ResponseInv'
    BY <2>1 DEF ExchangeInv, ResponseInv, ResponseTypes, Logged, Entry
  <2>. QED  BY <2>1, <2>2, <2>3 DEF ExchangeInv
<1>. QED  BY <1>1, <1>2, <1>3 DEF ExchangeNext

LEMMA ExchangeInvariant == ExchangeSpec => []ExchangeInv
<1>. QED  BY ExchangeStart, ExchangeStep, PTL DEF ExchangeSpec

(* The requests and responses under way and the objects made of them are of *)
(* their type, whatever is parsed, edited, written and given back.          *)
THEOREM ExchangeTypeCorrect == ExchangeSpec => []ExchangeTypeOK
<1>1. ExchangeInv => ExchangeTypeOK
  <2>. SUFFICES ASSUME ExchangeInv
                PROVE  ExchangeTypeOK
    OBVIOUS
  <2>1. /\ phase \in Phases /\ hop \in 0 .. MaxHops /\ arrived \in 0 .. Total(wire) /\ WireTypes(wire)
        /\ edited \in BOOLEAN /\ altered \in BOOLEAN /\ meant \in PairBags /\ ResponseTypes /\ Logged
        /\ WireTypes(Written(request))
    BY WrittenTypes DEF ExchangeInv, RequestInv, RequestTypes, ResponseInv
  <2>2. ASSUME NEW w, WireTypes(w)
        PROVE  /\ w.declared \in Nat \cup {None} /\ {w.form, w.body.plus} \subseteq BOOLEAN
               /\ IsABag(w.query) /\ IsABag(w.body.pairs)
               /\ DOMAIN w.query \cup DOMAIN w.body.pairs \subseteq Pair \cup {Nameless}
    <3>1. w.query \in PairBags /\ w.body.pairs \in PairBags /\ w.body.plus \in BOOLEAN
      BY <2>2 DEF WireTypes, Bodies
    <3>. QED  BY <2>2, <3>1, PairBag DEF WireTypes, AnyPair
  <2>3. IsABag(meant)
    BY <2>1, PairBag
  <2>4. /\ response.status \in Status \cup {None} /\ response.error \in Custom \cup {None}
        /\ response.kind \in {"string", "vector", "stream"} /\ response.size \in Nat \cup {Unknown}
        /\ response.size = Unknown => response.kind = "stream" /\ response.chunked
        /\ steps \in 0 .. MaxSteps /\ bytes \in 0 .. MaxBytes
        /\ handler \in BOOLEAN /\ (handler => response.kind = "stream") /\ log \in Seq(Nat)
    BY <2>1 DEF ResponseTypes, Responses, Logged
  <2>5. phase \in {"transit", "held", "failed", "thrown", "answering", "sending",
                  "sent", "lost", "closed", "broken"}
    BY <2>1 DEF Phases, Receiving
  <2>. QED  BY <2>1, <2>2, <2>3, <2>4, <2>5 DEF ExchangeTypeOK
<1>. QED  BY <1>1, ExchangeInvariant, PTL

(* However a request is cut up, parseRequest takes it only whole, rejects   *)
(* none and waits for no more than there is, as long as no server on the    *)
(* way has changed the body and kept its length, and no name is missing on  *)
(* the request line or has a blank: for any requests whose declared length  *)
(* is right, any edits and any number of servers.                           *)
THEOREM TakenWholeUnlessAlteredAlways == ExchangeSpec => []TakenWholeUnlessAltered
<1>1. ExchangeInv => TakenWholeUnlessAltered
  BY DEF ExchangeInv, RequestInv
<1>. QED  BY <1>1, ExchangeInvariant, PTL

(* What toString() writes of the parameters is what parseRequest() reads    *)
(* back, for every bag of parameters a server may have made whose names     *)
(* need no encoding.                                                        *)
THEOREM ParametersKeptAlways == ExchangeSpec => []ParametersKept
<1>1. ASSUME ExchangeInv, phase = "held", ~edited, arrived = Total(wire), Carried(wire)
      PROVE  request.params = meant
  <2>1. PICK b \in Parts(wire, arrived) : request = Parsed(wire, b)
    BY <1>1 DEF ExchangeInv, RequestInv, Held
  <2>2. b = wire.body
    BY <1>1, <2>1 DEF Parts
  <2>3. request.params = Parameters(wire, wire.body)
    BY <2>1, <2>2 DEF Parsed
  <2>. QED  BY <1>1, <2>3 DEF ExchangeInv, RequestInv, Meant
<1>2. ExchangeInv => ParametersKept
  BY <1>1 DEF ParametersKept
<1>. QED  BY <1>2, ExchangeInvariant, PTL

(* runStreamCompletionHandler() writes the entry of a stream once, and      *)
(* HandlerView::handle() that of anything else, whatever ends the           *)
(* connection and however many servers the response goes through.           *)
THEOREM LoggedOnceAlways == ExchangeSpec => []LoggedOnce
<1>1. ExchangeInv => LoggedOnce
  BY DEF ExchangeInv, ResponseInv, Logged, LoggedOnce, Entry
<1>. QED  BY <1>1, ExchangeInvariant, PTL

(* parseResponse() gives the status the server behind has set, but for a    *)
(* plain 503 over the header of an earlier custom status.                   *)
THEOREM StatusKeptUnlessLeftOverAlways == ExchangeSpec => StatusKeptUnlessLeftOver
<1>. DEFINE Kept == phase = "closed" /\ phase' = "answering" =>
                      \/ response'.status = response.status
                      \/ response.status = "service_unavailable" /\ response.error # None
<1>1. ASSUME ExchangeInv, [ExchangeNext]_exchangeVars
      PROVE  Kept
  <2>. SUFFICES ASSUME phase = "closed", phase' = "answering"
                PROVE  Kept
    OBVIOUS
  <2>1. GiveBack
    BY <1>1 DEF ExchangeNext, RequestStep, ResponseStep, Receive, SetParameter, AddParameter, RemoveParameter,
       SetMethod, SetContent, SetLength, Edit, SendOn, Respond, SetStatus, SetStatusAndContent, SetPlainContent,
       SetStream, AppendContent, RemoveError, Work, Handled, SendChunk, Complete, Break, TearDown, exchangeVars
  <2>2. response \in Responses
    BY <1>1 DEF ExchangeInv, ResponseInv, ResponseTypes
  <2>3. response'.status = Recovered(response).status
    <3>1. ASSUME NEW n
          PROVE  [Recovered(response) EXCEPT !.kind = "vector", !.size = n].status = Recovered(response).status
      BY <2>2, RecoveredTypes DEF Responses
    <3>. QED  BY <2>1, <3>1 DEF GiveBack
  <2>. QED  BY <2>2, <2>3, RecoveredTypes
<1>2. ExchangeSpec => [][Kept]_exchangeVars
  BY <1>1, ExchangeInvariant, PTL DEF ExchangeSpec
<1>. QED  BY <1>2 DEF StatusKeptUnlessLeftOver

-----------------------------------------------------------------------------
(* PluginRequests.                                                          *)
USE PluginRequestsAssumption DEF counters

Places == {"idle"} \cup InView \cup InPlugin
Handling == In({"handler", "answer"})

(* The two loops of the shutdown: every counted request is answered, lost   *)
(* to an exception, or still in its handler.                                *)
Accounted == responseCounter + Cardinality(Handling) <= requestCounter
SeenPast == seen <= responseCounter

LEMMA HandlingFinite ==
  /\ IsFiniteSet(Handling) /\ Cardinality(Handling) \in Nat
  /\ IsFiniteSet(Handling') /\ Cardinality(Handling') \in Nat
<1>1. Handling \subseteq Thread /\ Handling' \subseteq Thread
  BY DEF Handling, In
<1>. QED  BY <1>1, FS_Subset, FS_CardinalityType

(* Which step moves which variable.                                         *)
Types ==
  /\ requestCounter \in Nat /\ responseCounter \in Nat /\ seen \in Nat
  /\ at \in [Thread -> Places]

IInv == Types /\ Accounted /\ SeenPast

LEMMA AccountedInit == Init => IInv
<1>1. Init => Handling = {}
  BY DEF Init, Handling, In
<1>. QED  BY <1>1, FS_EmptySet DEF Init, IInv, Types, Places, Accounted, SeenPast

LEMMA AccountedStep ==
  ASSUME IInv, [Next]_vars
  PROVE  IInv'
<1>. USE DEF IInv, Types, Places, InView, InPlugin
<1>1. ASSUME NEW t \in Thread, Count(t)
      PROVE  IInv'
  <2>1. t \notin Handling /\ Handling' = Handling \cup {t}
    BY <1>1 DEF Count, Go, Handling, In
  <2>2. Cardinality(Handling') = Cardinality(Handling) + 1
    BY <2>1, HandlingFinite, FS_AddElement
  <2>. QED  BY <1>1, <2>2, HandlingFinite DEF Count, Go, Accounted, SeenPast
<1>2. ASSUME NEW t \in Thread, Throw(t) \/ Answer(t)
      PROVE  IInv'
  <2>1. t \in Handling /\ Handling' = Handling \ {t}
    BY <1>2 DEF Throw, Answer, Go, Handling, In
  <2>2. Cardinality(Handling') = Cardinality(Handling) - 1
    BY <2>1, HandlingFinite, FS_RemoveElement
  <2>. QED  BY <1>2, <2>2, HandlingFinite DEF Throw, Answer, Go, Accounted, SeenPast
<1>3. ASSUME NEW t \in Thread, Route(t) \/ Test(t) \/ Return(t) \/ Leave(t)
      PROVE  IInv'
  <2>1. Handling' = Handling
    BY <1>3 DEF Route, Test, Return, Leave, Go, Handling, In
  <2>2. at' \in [Thread -> Places]
    BY <1>3 DEF Route, Test, Return, Leave, Go
  <2>. QED  BY <1>3, <2>1, <2>2 DEF Route, Test, Return, Leave, Accounted, SeenPast
<1>4. CASE ReadResponses
  <2>1. Handling' = Handling
    BY <1>4 DEF ReadResponses, Handling, In
  <2>. QED  BY <1>4, <2>1 DEF ReadResponses, Accounted, SeenPast
<1>5. CASE UNCHANGED <<requestCounter, responseCounter, at, seen>>
  <2>1. Handling' = Handling
    BY <1>5 DEF Handling, In
  <2>. QED  BY <1>5, <2>1 DEF Accounted, SeenPast
<1>. QED
  BY <1>1, <1>2, <1>3, <1>4, <1>5 DEF Next, vars, Plugin, InitBegin, Register, InitEnd, InitFail, RequestShutdown,
    Serve, Shutdown, RemoveViews, ShutdownPlugin, Compare, Close

(* The drain never ends while a request is in its handler.                  *)
THEOREM DrainWaitsAlways == Spec => DrainWaits
<1>1. IInv /\ [Next]_vars => IInv'
  BY AccountedStep
<1>2. IInv /\ [Next]_vars => [drain = "compare" /\ drain' = "drained" => In({"handler", "answer"}) = {}]_vars
  <2>1. SUFFICES ASSUME IInv, Next, drain = "compare", drain' = "drained"
                 PROVE  Handling = {}
    BY DEF Handling
  <2>2. Compare
    BY <2>1 DEF Next, Plugin, InitBegin, Register, InitEnd, InitFail, RequestShutdown, Route, Serve, Test, Count,
      Return, Throw, Answer, Leave, Shutdown, RemoveViews, ShutdownPlugin, ReadResponses, Close
  <2>3. requestCounter <= seen
    BY <2>1, <2>2 DEF Compare, IInv, Types
  <2>4. Cardinality(Handling) = 0
    BY <2>1, <2>3, HandlingFinite DEF IInv, Types, Accounted, SeenPast
  <2>. QED  BY <2>4, HandlingFinite, FS_EmptySet
<1>. QED  BY AccountedInit, <1>1, <1>2, PTL DEF Spec, DrainWaits

-----------------------------------------------------------------------------
(* The initialisation is over before the views are removed, and does not    *)
(* start again.                                                             *)
InitOver == drain # "waiting" => init \in {"done", "failed", "dropped"}

(* Nothing is registered for a plugin whose views have been removed.        *)
THEOREM InitBeforeDrainAlways == Spec => []InitBeforeDrain
<1>1. Init => InitOver
  BY DEF Init, InitOver
<1>2. InitOver /\ [Next]_vars => InitOver'
  BY DEF InitOver, Next, vars, Plugin, InitBegin, Register, InitEnd, InitFail, RequestShutdown, Route, Serve, Test,
    Count, Return, Throw, Answer, Leave, Shutdown, RemoveViews, ShutdownPlugin, ReadResponses, Compare, Close
<1>3. InitOver => InitBeforeDrain
  BY DEF InitOver, InitBeforeDrain, InitActive
<1>. QED  BY <1>1, <1>2, <1>3, PTL DEF Spec

-----------------------------------------------------------------------------
(* Type correctness, with InitOver and the accounting as its support.       *)
Stages ==
  /\ init \in {"queued", "active", "registered", "done", "failed", "dropped"}
  /\ view \in {"none", "live", "freed"}
  /\ drain \in {"waiting", "views", "read", "compare", "drained", "closed"}
  /\ drain # "waiting" => down
  /\ view = "live" => drain = "waiting"

DownIs == down \in BOOLEAN

LEMMA DownStep ==
  ASSUME DownIs, [Next]_vars
  PROVE  DownIs'
BY DEF DownIs, Next, vars, Plugin, InitBegin, Register, InitEnd, InitFail, RequestShutdown, Route, Serve, Test, Count,
  Return, Throw, Answer, Leave, Shutdown, RemoveViews, ShutdownPlugin, ReadResponses, Compare, Close

LEMMA StagesStep ==
  ASSUME Stages, InitOver, [Next]_vars
  PROVE  Stages'
BY DEF Stages, InitOver, Next, vars, Plugin, InitBegin, Register, InitEnd, InitFail, RequestShutdown, Route, Serve,
  Test, Count, Return, Throw, Answer, Leave, Shutdown, RemoveViews, ShutdownPlugin, ReadResponses, Compare, Close

(* A plugin has no live view once its drain has begun, and never answers    *)
(* more requests than it has counted.                                       *)
THEOREM TypeCorrect == Spec => []TypeOK
<1>1. Init => IInv /\ InitOver /\ Stages /\ DownIs
  <2>1. Init => DownIs
    BY DEF Init, DownIs
  <2>. QED  BY <2>1, AccountedInit DEF Init, InitOver, Stages
<1>2. IInv /\ InitOver /\ Stages /\ DownIs /\ [Next]_vars => IInv' /\ InitOver' /\ Stages' /\ DownIs'
  <2>1. InitOver /\ [Next]_vars => InitOver'
    BY DEF InitOver, Next, vars, Plugin, InitBegin, Register, InitEnd, InitFail, RequestShutdown, Route, Serve,
      Test, Count, Return, Throw, Answer, Leave, Shutdown, RemoveViews, ShutdownPlugin, ReadResponses, Compare, Close
  <2>. QED  BY <2>1, AccountedStep, StagesStep, DownStep
<1>3. IInv => /\ requestCounter \in Nat /\ responseCounter \in Nat /\ seen \in Nat
              /\ responseCounter <= requestCounter
              /\ at \in [Thread -> {"idle"} \cup InView \cup InPlugin]
  BY HandlingFinite DEF IInv, Types, Accounted, Places
<1>4. IInv /\ Stages /\ DownIs => TypeOK
  BY <1>3, Zenon DEF Stages, DownIs, TypeOK
<1>. QED  BY <1>1, <1>2, <1>4, PTL DEF Spec

=============================================================================
