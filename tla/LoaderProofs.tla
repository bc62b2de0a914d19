----------------------------- MODULE LoaderProofs -----------------------------
(* Theorems about Loader, for any directory of mapping files, and about the  *)
(* delays it builds, for ints of any width and any unit.                     *)
EXTENDS Loader, Delay, FiniteSetTheorems, SequenceTheorems, WellFoundedInduction, TLAPS

(***************************************************************************)
(* Sequences whose elements have no type of their own                      *)
(***************************************************************************)
IsList(s) == \E S : s \in Seq(S)

LEMMA EmptyIsList == IsList(<<>>)
<1>1. <<>> \in Seq({})
  OBVIOUS
<1> QED
  BY <1>1 DEF IsList

LEMMA SeqDomain ==
    ASSUME NEW s, IsList(s)
    PROVE  Len(s) \in Nat /\ DOMAIN s = 1 .. Len(s)
<1>1. PICK S : s \in Seq(S)
  BY DEF IsList
<1> QED
  BY <1>1

LEMMA AppendFacts ==
    ASSUME NEW s, IsList(s), NEW e
    PROVE  /\ IsList(Append(s, e))
           /\ Len(Append(s, e)) = Len(s) + 1
           /\ \A k \in 1 .. Len(s) : Append(s, e)[k] = s[k]
           /\ Append(s, e)[Len(s) + 1] = e
<1>1. PICK S : s \in Seq(S)
  BY DEF IsList
<1>2. s \in Seq(S \cup {e}) /\ e \in S \cup {e}
  BY <1>1
<1>3. Append(s, e) \in Seq(S \cup {e})
  BY <1>2
<1> QED
  BY <1>2, <1>3 DEF IsList

LEMMA ConcatFacts ==
    ASSUME NEW s, IsList(s), NEW t, IsList(t)
    PROVE  /\ IsList(s \o t)
           /\ Len(s \o t) = Len(s) + Len(t)
           /\ \A k \in 1 .. Len(s) : (s \o t)[k] = s[k]
           /\ \A k \in 1 .. Len(t) : (s \o t)[Len(s) + k] = t[k]
<1>1. PICK S : s \in Seq(S)
  BY DEF IsList
<1>2. PICK T : t \in Seq(T)
  BY DEF IsList
<1>3. s \in Seq(S \cup T) /\ t \in Seq(S \cup T)
  BY <1>1, <1>2
<1>4. s \o t \in Seq(S \cup T)
  BY <1>3
<1> QED
  BY <1>3, <1>4 DEF IsList

(***************************************************************************)
(* What it means that a check found nothing                                *)
(***************************************************************************)
\* An error of an item is not one of a file.
ItemFields == Fields \ {"mappings", "file"}

LEMMA FailFacts ==
    ASSUME NEW ok, NEW field \in ItemFields
    PROVE  /\ Fail(ok, field) \in Seq(ItemFields)
           /\ Fail(ok, field) = <<>> => ok
<1>1. CASE ok
  BY <1>1 DEF Fail
<1>2. CASE ~ok
  <2>1. Fail(ok, field) = <<field>>
    BY <1>2 DEF Fail
  <2>2. <<field>> \in Seq(ItemFields) /\ <<field>> # <<>>
    OBVIOUS
  <2> QED
    BY <2>1, <2>2
<1> QED
  BY <1>1, <1>2

\* Two lists of errors together are a list of errors, empty if both are.
LEMMA Both ==
    ASSUME NEW s \in Seq(ItemFields), NEW t \in Seq(ItemFields)
    PROVE  /\ s \o t \in Seq(ItemFields)
           /\ s \o t = <<>> => s = <<>> /\ t = <<>>
  BY ConcatProperties, ConcatEqualIffEmpty

PlaceCheck(raw, p) == \A m \in raw.matchers : m.place = p => validateMatcher(m, Allowed(p))

\* A request without errors has its matchers checked in every place.
LEMMA RequestFacts ==
    ASSUME NEW raw
    PROVE  /\ RequestErrors(raw) \in Seq(ItemFields)
           /\ RequestErrors(raw) = <<>> =>
                raw # Nil /\ \A p \in Places : PlaceCheck(raw, p)
<1>1. CASE raw = Nil
  <2>1. RequestErrors(raw) = <<"request">>
    BY <1>1 DEF RequestErrors
  <2>2. "request" \in ItemFields
    BY DEF ItemFields, Fields
  <2> QED
    BY <2>1, <2>2
<1>2. CASE raw # Nil
  <2> DEFINE c1 == Fail(Cardinality(raw.urls) = 1, "url")
             c2 == Fail(raw.urls \subseteq {"urlPathPattern", "urlPattern", "urlPathTemplate"}
                           => raw.urlValid, "url")
             c3 == Fail(Cardinality(raw.auths) < 2, "basicAuth")
             c4 == Fail((\E m \in raw.matchers : m.place = "pathParameters")
                           => "urlPathTemplate" \in raw.urls, "pathParameters")
             p(q) == Fail(PlaceCheck(raw, q), q)
  <2>1. RequestErrors(raw) = c1 \o c2 \o c3 \o c4 \o p("headers") \o p("queryParameters")
                             \o p("cookies") \o p("pathParameters") \o p("bodyPatterns")
    BY <1>2 DEF RequestErrors, URLErrors, PlaceCheck, NamedPlaces
  <2>2. /\ c1 \in Seq(ItemFields) /\ c2 \in Seq(ItemFields) /\ c3 \in Seq(ItemFields) /\ c4 \in Seq(ItemFields)
    BY FailFacts DEF ItemFields, Fields, Places
  <2>3. \A q \in Places : p(q) \in Seq(ItemFields) /\ (p(q) = <<>> => PlaceCheck(raw, q))
    <3>1. Places \subseteq ItemFields
      BY DEF ItemFields, Fields, Places
    <3> QED
      BY <3>1, FailFacts
  <2>4. Places = {"headers", "queryParameters", "cookies", "pathParameters", "bodyPatterns"}
    BY DEF Places
  <2> HIDE DEF c1, c2, c3, c4, p
  <2>5. c1 \o c2 \o c3 \o c4 \in Seq(ItemFields)
    BY <2>2, Both
  <2> DEFINE r == c1 \o c2 \o c3 \o c4
  <2>6. r \o p("headers") \o p("queryParameters") \o p("cookies") \in Seq(ItemFields)
        /\ (r \o p("headers") \o p("queryParameters") \o p("cookies") = <<>> =>
              p("headers") = <<>> /\ p("queryParameters") = <<>> /\ p("cookies") = <<>>)
    <3> HIDE DEF r
    <3>1. r \in Seq(ItemFields)
      BY <2>5 DEF r
    <3> QED
      BY <3>1, <2>3, <2>4, Both
  <2> DEFINE t == r \o p("headers") \o p("queryParameters") \o p("cookies")
  <2>7. t \o p("pathParameters") \o p("bodyPatterns") \in Seq(ItemFields)
        /\ (t \o p("pathParameters") \o p("bodyPatterns") = <<>> =>
              t = <<>> /\ p("pathParameters") = <<>> /\ p("bodyPatterns") = <<>>)
    <3> HIDE DEF t
    <3>1. t \in Seq(ItemFields)
      BY <2>6 DEF t
    <3> QED
      BY <3>1, <2>3, <2>4, Both
  <2> QED
    BY <1>2, <2>1, <2>3, <2>4, <2>6, <2>7
<1> QED
  BY <1>1, <1>2

LEMMA ResponseFacts ==
    ASSUME NEW raw
    PROVE  /\ ResponseErrors(raw) \in Seq(ItemFields)
           /\ ResponseErrors(raw) = <<>> => raw.status \in 100 .. 599
<1>1. CASE raw.status = Nil
  <2>1. ResponseErrors(raw) = <<"status">>
    BY <1>1 DEF ResponseErrors
  <2>2. "status" \in ItemFields
    BY DEF ItemFields, Fields
  <2> QED
    BY <2>1, <2>2
<1>2. CASE raw.status # Nil
  <2> DEFINE c1 == Fail(raw.status \in 100 .. 599, "status")
             c2 == Fail(Cardinality(raw.bodies) < 2, "body")
             c3 == Fail(Cardinality(raw.delays) < 2 /\ raw.delayValid, "delay")
             c4 == Fail(raw.bodyValid, "body")
  <2>1. ResponseErrors(raw) = c1 \o c2 \o c3 \o c4
    BY <1>2 DEF ResponseErrors
  <2>2. /\ c1 \in Seq(ItemFields) /\ c2 \in Seq(ItemFields) /\ c3 \in Seq(ItemFields) /\ c4 \in Seq(ItemFields)
    BY FailFacts, ZenonT(40) DEF ItemFields, Fields
  <2>3. c1 = <<>> => raw.status \in 100 .. 599
    BY <<"status">> # <<>> DEF Fail
  <2> HIDE DEF c1, c2, c3, c4
  <2>4. /\ c1 \o c2 \in Seq(ItemFields) /\ c1 \o c2 \o c3 \in Seq(ItemFields)
        /\ c1 \o c2 \o c3 \o c4 \in Seq(ItemFields)
    BY <2>2, Both
  <2>5. c1 \o c2 \o c3 \o c4 = <<>> => c1 = <<>>
    BY <2>2, <2>4, Both
  <2> QED
    BY <2>1, <2>3, <2>4, <2>5
<1> QED
  BY <1>1, <1>2

LEMMA VariantFacts ==
    ASSUME NEW mode, NEW raw
    PROVE  /\ VariantErrors(mode, raw) \in Seq(ItemFields)
           /\ VariantErrors(mode, raw) = <<>> =>
                /\ raw.status \in 100 .. 599
                /\ mode = "weighted" => raw.weight > 0
<1> DEFINE c1 == Fail(mode = "weighted" => raw.weight > 0, "weight")
<1>1. c1 \in Seq(ItemFields) /\ (c1 = <<>> => (mode = "weighted" => raw.weight > 0))
  <2>1. "weight" \in ItemFields
    BY DEF ItemFields, Fields
  <2> QED
    BY <2>1, FailFacts
<1>2. VariantErrors(mode, raw) = ResponseErrors(raw) \o c1
  BY DEF VariantErrors
<1> HIDE DEF c1
<1> QED
  BY <1>1, <1>2, ResponseFacts, Both

\* A set of numbers that is not empty has a least one.
LEMMA Least ==
    ASSUME NEW S, S \subseteq Nat, S # {}
    PROVE  Min(S) \in S
<1> DEFINE Below == {1 .. n : n \in S}
<1>1. Below \subseteq FiniteSubsetsOf(Nat) /\ Below # {}
  <2>1. \A n \in S : 1 .. n \subseteq Nat /\ IsFiniteSet(1 .. n)
    BY FS_Interval
  <2> QED
    BY <2>1 DEF FiniteSubsetsOf
<1>2. IsWellFoundedOn(StrictSubsetOrdering(Nat), FiniteSubsetsOf(Nat))
  BY FS_StrictSubsetOrderingWellFounded
<1>3. PICK x \in Below : \A y \in Below : <<y, x>> \notin StrictSubsetOrdering(Nat)
  <2> HIDE DEF Below
  <2> QED
    BY <1>1, <1>2, WFMin
<1>4. PICK m \in S : x = 1 .. m
  OBVIOUS
<1>5. ASSUME NEW k \in S
      PROVE  m <= k
  <2> SUFFICES ASSUME k < m PROVE FALSE
    OBVIOUS
  <2>1. k \in Nat /\ m \in Nat
    OBVIOUS
  <2>2. 1 .. k \subseteq 1 .. m /\ m \in 1 .. m /\ m \notin 1 .. k
    BY <2>1
  <2>3. <<1 .. k, 1 .. m>> \in StrictSubsetOrdering(Nat)
    BY <2>1, <2>2 DEF StrictSubsetOrdering
  <2> QED
    BY <1>3, <1>4, <2>3
<1> QED
  BY <1>5 DEF Min

\* A set of responses without errors has a mode, a variant, and weights.
LEMMA SetFacts ==
    ASSUME NEW raw, raw.variants # <<>> => DOMAIN raw.variants \subseteq Nat
    PROVE  /\ ResponseSetErrors(raw) \in Seq(ItemFields)
           /\ ResponseSetErrors(raw) = <<>> =>
                /\ raw.mode \in {"sequential", "random", "weighted"}
                /\ raw.variants # <<>>
                /\ \A i \in DOMAIN raw.variants :
                      /\ raw.variants[i].status \in 100 .. 599
                      /\ raw.mode = "weighted" => raw.variants[i].weight > 0
<1> DEFINE errors(i) == VariantErrors(raw.mode, raw.variants[i])
           bad == {i \in DOMAIN raw.variants : errors(i) # <<>>}
           c1 == Fail(raw.mode \in {"sequential", "random", "weighted"}, "mode")
           c2 == Fail(raw.variants # <<>>, "variants")
           c3 == IF bad = {} THEN <<>> ELSE errors(Min(bad))
<1>1. ResponseSetErrors(raw) = c1 \o c2 \o c3
  BY DEF ResponseSetErrors
<1>2. c1 \in Seq(ItemFields) /\ (c1 = <<>> => raw.mode \in {"sequential", "random", "weighted"})
  <2>1. "mode" \in ItemFields
    BY DEF ItemFields, Fields
  <2> DEFINE known == raw.mode \in {"sequential", "random", "weighted"}
  <2>2. c1 = Fail(known, "mode")
    OBVIOUS
  <2>3. Fail(known, "mode") \in Seq(ItemFields) /\ (Fail(known, "mode") = <<>> => known)
    <3> HIDE DEF known
    <3> QED
      BY <2>1, FailFacts
  <2> QED
    BY <2>2, <2>3
<1>3. c2 \in Seq(ItemFields) /\ (c2 = <<>> => raw.variants # <<>>)
  <2>1. "variants" \in ItemFields
    BY DEF ItemFields, Fields
  <2> QED
    BY <2>1, FailFacts
<1>4. \A i : errors(i) \in Seq(ItemFields)
  BY VariantFacts
<1>5. c3 \in Seq(ItemFields)
  <2> HIDE DEF errors
  <2>1. <<>> \in Seq(ItemFields)
    OBVIOUS
  <2> QED
    BY <1>4, <2>1
<1>6. ASSUME c3 = <<>>, raw.variants # <<>>
      PROVE  \A i \in DOMAIN raw.variants : errors(i) = <<>>
  <2> SUFFICES ASSUME bad # {} PROVE FALSE
    OBVIOUS
  <2>1. bad \subseteq Nat
    BY <1>6
  <2>2. Min(bad) \in bad
    <3> HIDE DEF bad
    <3> QED
      BY <2>1, Least
  <2> QED
    BY <1>6, <2>2
<1>7. \A i \in DOMAIN raw.variants : errors(i) = <<>> =>
         /\ raw.variants[i].status \in 100 .. 599
         /\ raw.mode = "weighted" => raw.variants[i].weight > 0
  BY VariantFacts, ZenonT(40)
<1> HIDE DEF c1, c2, c3, errors
<1>8. c1 \o c2 \in Seq(ItemFields) /\ (c1 \o c2 = <<>> => c1 = <<>> /\ c2 = <<>>)
  BY <1>2, <1>3, Both
<1>9. /\ c1 \o c2 \o c3 \in Seq(ItemFields)
      /\ c1 \o c2 \o c3 = <<>> => c1 = <<>> /\ c2 = <<>> /\ c3 = <<>>
  BY <1>5, <1>8, Both
<1>10. ASSUME ResponseSetErrors(raw) = <<>>
       PROVE  /\ raw.mode \in {"sequential", "random", "weighted"}
              /\ raw.variants # <<>>
              /\ \A i \in DOMAIN raw.variants : errors(i) = <<>>
  BY <1>1, <1>2, <1>3, <1>6, <1>9, <1>10
<1> QED
  BY <1>1, <1>7, <1>9, <1>10

LEMMA MappingFacts ==
    ASSUME NEW raw, Decoded(raw)
    PROVE  /\ MappingErrors(raw) \in Seq(ItemFields)
           /\ MappingErrors(raw) = <<>> =>
                /\ RequestErrors(raw.request) = <<>>
                /\ raw.response # Nil => ResponseErrors(raw.response) = <<>>
                /\ raw.response = Nil => raw.responses # Nil /\ ResponseSetErrors(raw.responses) = <<>>
<1> DEFINE c == IF (raw.response = Nil) = (raw.responses = Nil) THEN <<"response">>
                ELSE IF raw.response # Nil THEN ResponseErrors(raw.response)
                ELSE ResponseSetErrors(raw.responses)
<1>1. MappingErrors(raw) = RequestErrors(raw.request) \o c
  BY DEF MappingErrors
<1>2. c \in Seq(ItemFields)
  <2>1. CASE (raw.response = Nil) = (raw.responses = Nil)
    <3>1. "response" \in ItemFields
      BY DEF ItemFields, Fields
    <3> QED
      BY <2>1, <3>1
  <2>2. CASE raw.response # Nil /\ raw.responses = Nil
    BY <2>2, ResponseFacts
  <2>3. CASE raw.response = Nil /\ raw.responses # Nil
    BY <2>3, SetFacts DEF Decoded
  <2> QED
    BY <2>1, <2>2, <2>3
<1>3. /\ c = <<>> /\ raw.response # Nil => ResponseErrors(raw.response) = <<>>
      /\ c = <<>> /\ raw.response = Nil => raw.responses # Nil /\ ResponseSetErrors(raw.responses) = <<>>
  OBVIOUS
<1> HIDE DEF c
<1> QED
  BY <1>1, <1>2, <1>3, RequestFacts, Both

(***************************************************************************)
(* Built mappings                                                          *)
(***************************************************************************)
LEMMA ServableBuilt ==
    ASSUME Decoded(Raw), MappingErrors(Raw) = <<>>, NEW chosen
    PROVE  Servable(buildMapping(chosen))
<1> DEFINE m == buildMapping(chosen)
<1>1. CASE Raw.response # Nil
  <2>1. m.mode = "single" /\ m.variants # <<>>
    BY <1>1 DEF buildMapping
  <2>2. DOMAIN m.variants = {1} /\ m.variants[1].status = Raw.response.status
    BY <1>1 DEF buildMapping
  <2>3. Raw.response.status \in 100 .. 599
    BY <1>1, MappingFacts, ResponseFacts
  <2> QED
    BY <2>1, <2>2, <2>3 DEF Servable, Modes
<1>2. CASE Raw.response = Nil
  <2>1. Raw.responses # Nil /\ ResponseSetErrors(Raw.responses) = <<>>
    BY <1>2, MappingFacts
  <2>2. Raw.responses.variants # <<>> => /\ DOMAIN Raw.responses.variants \subseteq Nat
                                        /\ 1 \in DOMAIN Raw.responses.variants
    BY <2>1 DEF Decoded
  <2>3. /\ Raw.responses.mode \in {"sequential", "random", "weighted"}
        /\ Raw.responses.variants # <<>>
        /\ \A i \in DOMAIN Raw.responses.variants :
              /\ Raw.responses.variants[i].status \in 100 .. 599
              /\ Raw.responses.mode = "weighted" => Raw.responses.variants[i].weight > 0
    BY <2>1, <2>2, SetFacts
  <2>4. /\ m.mode = Raw.responses.mode
        /\ m.variants = [i \in DOMAIN Raw.responses.variants |-> variant(Raw.responses.variants[i], i)]
    BY <1>2 DEF buildMapping
  <2> DEFINE built == [i \in DOMAIN Raw.responses.variants |-> variant(Raw.responses.variants[i], i)]
  <2>5. DOMAIN m.variants = DOMAIN Raw.responses.variants /\ m.variants # <<>>
    <3>1. DOMAIN built = DOMAIN Raw.responses.variants /\ 1 \in DOMAIN built
      BY <2>2, <2>3
    <3>2. built # <<>>
      <4> HIDE DEF built
      <4> QED
        BY <3>1
    <3> QED
      BY <2>4, <3>1, <3>2
  <2>6. ASSUME NEW i \in DOMAIN m.variants
        PROVE  /\ m.variants[i].weight = Raw.responses.variants[i].weight
               /\ m.variants[i].status = Raw.responses.variants[i].status
    <3>1. m.variants[i] = variant(Raw.responses.variants[i], i)
      BY <2>4, <2>5, <2>6
    <3> HIDE DEF m
    <3> QED
      BY <3>1 DEF variant
  <2>7. \A i \in DOMAIN m.variants :
           /\ m.variants[i].status \in 100 .. 599
           /\ m.mode = "weighted" => m.variants[i].weight > 0
    <3>1. m.mode = Raw.responses.mode
      BY <2>4
    <3> HIDE DEF m, built
    <3> QED
      BY <2>3, <2>5, <2>6, <3>1
  <2>8. m.mode \in Modes
    BY <2>3, <2>4 DEF Modes
  <2> HIDE DEF m
  <2>9. Servable(m)
    BY <2>5, <2>7, <2>8 DEF Servable
  <2> QED
    BY <2>9 DEF m
<1> QED
  BY <1>1, <1>2

\* What is allowed in a place is evaluated there.
LEMMA AllowedEvaluated ==
    ASSUME NEW place \in Places
    PROVE  Allowed(place) \subseteq Evaluated(place)
  BY DEF Places, Allowed, Evaluated, Operators, bodyOperators, headerQueryOperators,
         pathParameterOperators, nestedValueOperators

LEMMA NestedEvaluated == nestedValueOperators \subseteq Evaluated("nested")
  BY DEF Evaluated, Operators, nestedValueOperators

LEMMA UnderstoodBuilt ==
    ASSUME Decoded(Raw), MappingErrors(Raw) = <<>>,
           NEW chosen \in SUBSET UNION {buildMatcher(m) : m \in Raw.request.matchers}
    PROVE  Understood(buildMapping(chosen))
<1>1. buildMapping(chosen).matchers = chosen
  BY DEF buildMapping
<1>2. Raw.request # Nil /\ \A p \in Places : PlaceCheck(Raw.request, p)
  BY MappingFacts, RequestFacts
<1>3. ASSUME NEW c \in chosen
      PROVE  /\ c.of.names = {c.operator}
             /\ c.operator \in Evaluated(c.of.place)
             /\ \A nested \in c.nested :
                   Cardinality(nested.names) = 1 /\ nested.names \subseteq Evaluated("nested")
  <2>1. PICK m \in Raw.request.matchers : c \in buildMatcher(m)
    OBVIOUS
  <2>2. PICK name \in m.names :
          c = [of |-> m, operator |-> name, caseInsensitive |-> m.caseInsensitive = "true",
               nested |-> IF name \in {"hasExactly", "includes"} THEN m.nested ELSE {}]
    BY <2>1 DEF buildMatcher
  <2>3. c.of = m /\ c.operator = name
        /\ c.nested = IF name \in {"hasExactly", "includes"} THEN m.nested ELSE {}
    BY <2>2
  <2>4. m.place \in Places /\ IsFiniteSet(m.names)
    BY <1>2 DEF Decoded
  <2>5. validateMatcher(m, Allowed(m.place))
    BY <1>2, <2>4 DEF PlaceCheck
  <2>6. Cardinality(m.names) = 1 /\ m.names \subseteq Allowed(m.place)
    BY <2>5 DEF validateMatcher, validateOperator
  <2>7. m.names = {name}
    BY <2>4, <2>6, FS_Singleton
  <2>8. name \in Evaluated(m.place)
    BY <2>4, <2>6, AllowedEvaluated
  <2>9. ASSUME NEW nested \in c.nested
        PROVE  Cardinality(nested.names) = 1 /\ nested.names \subseteq Evaluated("nested")
    <3>1. name \in {"hasExactly", "includes"} /\ nested \in m.nested
      BY <2>3, <2>9
    <3>2. validateOperator(nested, nestedValueOperators)
      BY <2>5, <2>7, <3>1 DEF validateMatcher
    <3> QED
      BY <3>2, NestedEvaluated DEF validateOperator
  <2> QED
    BY <2>3, <2>7, <2>8, <2>9
<1> QED
  BY <1>1, <1>3 DEF Understood

(***************************************************************************)
(* The inductive invariant                                                 *)
(***************************************************************************)
MappingFiles == {n \in DOMAIN Names : MappingFile(n)}

ItemsOf(k) == disk[paths[k]].items

Types ==
    /\ disk \in Disks /\ file \in Nat /\ index \in Nat /\ done \in BOOLEAN
    /\ IsList(items) /\ IsList(mappings)

PathsSorted ==
    /\ Len(paths) \in Nat /\ DOMAIN paths = 1 .. Len(paths)
    /\ \A k \in DOMAIN paths : paths[k] \in MappingFiles
    /\ Increasing(paths)
    /\ file <= Len(paths) + 1
    /\ file > 0 => \A n \in MappingFiles : \E k \in DOMAIN paths : paths[k] = n
    /\ file = 0 => paths = <<>> /\ index = 0

\* Nothing is wrong in the files and items that are behind.
Scanned ==
    /\ \A k \in DOMAIN paths : k < file => Good(paths[k])
    /\ index > 0 =>
          /\ file \in DOMAIN paths /\ Decodes(File)
          /\ index <= Len(File.items) + 1
          /\ \A i \in DOMAIN File.items : i < index => MappingErrors(File.items[i]) = <<>>

AllBuilt ==
    /\ \A k \in DOMAIN items : Servable(items[k]) /\ Understood(items[k])
    /\ \A k \in DOMAIN mappings : Servable(mappings[k]) /\ Understood(mappings[k])

\* Where the mappings come from.
ItemsSourced ==
    index > 0 => /\ Len(items) = index - 1
                 /\ \A k \in 1 .. Len(items) : items[k].source = <<paths[file], k>>

FromBehind ==
    error = Nil => \A j \in 1 .. Len(mappings) :
        \E k \in DOMAIN paths : \E i \in DOMAIN ItemsOf(k) :
            k < file /\ mappings[j].source = <<paths[k], i>>

AllBehind ==
    error = Nil => \A k \in DOMAIN paths : k < file =>
        \A i \in DOMAIN ItemsOf(k) :
            \E j \in 1 .. Len(mappings) : mappings[j].source = <<paths[k], i>>

InOrder ==
    error = Nil => \A j, k \in 1 .. Len(mappings) :
        j < k => Before(mappings[j].source, mappings[k].source)

\* What is known of an error.
Reported ==
    error # Nil =>
        /\ done /\ mappings = <<>>
        /\ error.path # 0 =>
              /\ file \in DOMAIN paths /\ error.path = paths[file]
              /\ (error.field = "file") = ~Decodes(File)
              /\ error.item # 0 => error.item = index
              /\ Decodes(File) => /\ index \in DOMAIN File.items
                                  /\ MappingErrors(File.items[index]) # <<>>

Finished == done /\ error = Nil => file = Len(paths) + 1

Sourced == ItemsSourced /\ FromBehind /\ AllBehind /\ InOrder

IInv == /\ Types /\ PathsSorted /\ Scanned /\ AllBuilt
        /\ Sourced /\ Reported /\ Finished

LEMMA InitIInv == Init => IInv
<1> SUFFICES ASSUME Init PROVE IInv
  OBVIOUS
<1>0. /\ disk \in Disks /\ paths = <<>> /\ file = 0 /\ index = 0
      /\ items = <<>> /\ mappings = <<>> /\ error = Nil /\ done = FALSE
  BY DEF Init
<1>1. Types
  BY <1>0, EmptyIsList DEF Types
<1>2. PathsSorted
  BY <1>0 DEF PathsSorted, Increasing
<1>3. Scanned /\ AllBuilt
  BY <1>0 DEF Scanned, AllBuilt
<1>4. Sourced
  BY <1>0 DEF Sourced, ItemsSourced, FromBehind, AllBehind, InOrder
<1>5. Reported /\ Finished
  BY <1>0 DEF Reported, Finished
<1> QED
  BY <1>1, <1>2, <1>3, <1>4, <1>5 DEF IInv

\* The items of a file that is looked at, and where they are.
LEMMA FileFacts ==
    ASSUME Types, PathsSorted, NEW k \in DOMAIN paths
    PROVE  /\ paths[k] \in 1 .. Len(Names) /\ paths[k] \in Int
           /\ Len(ItemsOf(k)) \in Nat /\ DOMAIN ItemsOf(k) = 1 .. Len(ItemsOf(k))
           /\ \A i \in DOMAIN ItemsOf(k) : Decoded(ItemsOf(k)[i])
<1>1. paths[k] \in DOMAIN Names /\ disk[paths[k]].kind = "file"
  BY DEF PathsSorted, MappingFiles, MappingFile
<1> QED
  BY <1>1, LoaderAssumption DEF Types, ItemsOf

\* An error is reported, and nothing is returned.
LEMMA ReturnKeeps ==
    ASSUME IInv, ~done, UNCHANGED <<disk, paths, file, index, items>>,
           NEW item \in Nat, NEW field \in Fields, NEW path \in Nat,
           Return(path, item, field),
           path # 0 => /\ file \in DOMAIN paths /\ path = paths[file]
                       /\ (field = "file") = ~Decodes(File)
                       /\ item # 0 => item = index
                       /\ Decodes(File) => /\ index \in DOMAIN File.items
                                           /\ MappingErrors(File.items[index]) # <<>>
    PROVE  IInv'
<1>1. /\ disk' = disk /\ paths' = paths /\ file' = file /\ index' = index /\ items' = items
      /\ mappings' = <<>> /\ done' = TRUE
      /\ error' = [path |-> path, item |-> item, field |-> field]
  BY DEF Return
<1>2. error' # Nil /\ error'.path = path /\ error'.item = item /\ error'.field = field
  <2>1. error' \in Errors
    BY <1>1 DEF Errors
  <2>2. Nil \notin Errors
    BY LoaderAssumption
  <2> QED
    BY <1>1, <2>1, <2>2
<1>3. Types'
  BY <1>1, EmptyIsList DEF IInv, Types
<1>4. PathsSorted'
  BY <1>1 DEF IInv, PathsSorted, MappingFiles, MappingFile, Increasing
<1>5. Scanned'
  BY <1>1 DEF IInv, Scanned, Good, Decodes, File
<1>6. AllBuilt'
  BY <1>1 DEF IInv, AllBuilt
<1>7. Sourced'
  BY <1>1, <1>2 DEF IInv, Sourced, ItemsSourced, FromBehind, AllBehind, InOrder
<1>8. Reported'
  BY <1>1, <1>2 DEF Reported, Decodes, File
<1>9. Finished'
  BY <1>2 DEF Finished
<1> QED
  BY <1>3, <1>4, <1>5, <1>6, <1>7, <1>8, <1>9 DEF IInv

LEMMA mappingFilesKeeps ==
    ASSUME IInv, mappingFiles
    PROVE  IInv'
<1>1. /\ ~done /\ file = 0 /\ file' = 1
      /\ disk' = disk /\ index' = index /\ items' = items
      /\ mappings' = mappings /\ error' = error /\ done' = done
  BY DEF mappingFiles
<1>2. paths = <<>> /\ index = 0
  BY <1>1 DEF IInv, PathsSorted
<1>3. PICK n \in 0 .. Len(Names) : \E sorted \in [1 .. n -> DOMAIN Names] :
          /\ Range(sorted) = MappingFiles
          /\ Increasing(sorted)
          /\ paths' = sorted
  BY DEF mappingFiles, MappingFiles
<1>4. /\ paths' \in [1 .. n -> DOMAIN Names] /\ Range(paths') = MappingFiles
      /\ Increasing(paths)'
  BY <1>3 DEF Increasing
<1>5. n \in Nat
  BY LoaderAssumption
<1>6. paths' \in Seq(DOMAIN Names) /\ Len(paths') = n /\ DOMAIN paths' = 1 .. n
  BY <1>4, <1>5
<1>7. MappingFiles' = MappingFiles
  BY <1>1 DEF MappingFiles, MappingFile
<1>8. Types'
  BY <1>1 DEF IInv, Types
<1>9. PathsSorted'
  <2>1. \A k \in DOMAIN paths' : paths'[k] \in MappingFiles
    BY <1>4 DEF Range
  <2>2. \A f \in MappingFiles : \E k \in DOMAIN paths' : paths'[k] = f
    BY <1>4 DEF Range
  <2> QED
    BY <1>1, <1>4, <1>5, <1>6, <1>7, <2>1, <2>2 DEF PathsSorted
<1>10. Scanned'
  BY <1>1, <1>2, <1>5, <1>6 DEF Scanned
<1>11. AllBuilt'
  BY <1>1 DEF IInv, AllBuilt
<1>12. Sourced'
  <2>1. ItemsSourced'
    BY <1>1, <1>2 DEF ItemsSourced
  <2>2. FromBehind'
    <3>1. error = Nil => Len(mappings) < 1
      <4>1. Len(mappings) \in Nat
        BY SeqDomain DEF IInv, Types
      <4>2. DOMAIN paths = {}
        BY <1>2
      <4>3. error = Nil => ~ \E j \in 1 .. Len(mappings) : TRUE
        BY <4>2 DEF IInv, Sourced, FromBehind
      <4> QED
        BY <4>1, <4>3
    <3>2. Len(mappings) \in Nat
      BY SeqDomain DEF IInv, Types
    <3> QED
      BY <1>1, <3>1, <3>2 DEF FromBehind
  <2>3. AllBehind'
    BY <1>1, <1>6 DEF AllBehind
  <2>4. InOrder'
    BY <1>1 DEF IInv, Sourced, InOrder
  <2> QED
    BY <2>1, <2>2, <2>3, <2>4 DEF Sourced
<1>13. Reported' /\ Finished'
  BY <1>1 DEF IInv, Reported, Finished
<1> QED
  BY <1>8, <1>9, <1>10, <1>11, <1>12, <1>13 DEF IInv

LEMMA loadFileKeeps ==
    ASSUME IInv, loadFile
    PROVE  IInv'
<1>1. /\ ~done /\ file \in DOMAIN paths /\ index = 0 /\ Decodes(File)
      /\ index' = 1 /\ items' = <<>>
      /\ disk' = disk /\ paths' = paths /\ file' = file
      /\ mappings' = mappings /\ error' = error /\ done' = done
  BY DEF loadFile, Opening
<1>2. Types'
  BY <1>1, EmptyIsList DEF IInv, Types
<1>3. PathsSorted'
  BY <1>1 DEF IInv, PathsSorted, MappingFiles, MappingFile, Increasing
<1>4. Scanned'
  <2>1. \A k \in DOMAIN paths' : k < file' => Good(paths[k])'
    BY <1>1 DEF IInv, Scanned, Good, Decodes
  <2>2. File' = File /\ Decodes(File)' /\ Len(File.items) \in Nat /\ DOMAIN File.items = 1 .. Len(File.items)
    BY <1>1, FileFacts DEF IInv, File, Decodes, ItemsOf
  <2> QED
    BY <1>1, <2>1, <2>2 DEF Scanned
<1>5. AllBuilt'
  BY <1>1 DEF IInv, AllBuilt
<1>6. ItemsSourced'
  BY <1>1 DEF ItemsSourced
<1>7. FromBehind' /\ AllBehind' /\ InOrder'
  BY <1>1, ZenonT(40) DEF IInv, Sourced, FromBehind, AllBehind, InOrder, ItemsOf
<1>8. Reported' /\ Finished'
  BY <1>1 DEF IInv, Reported, Finished
<1> QED
  BY <1>2, <1>3, <1>4, <1>5, <1>6, <1>7, <1>8 DEF IInv, Sourced

LEMMA BuildItemKeeps ==
    ASSUME IInv, BuildItem
    PROVE  IInv'
<1>1. /\ ~done /\ file \in DOMAIN paths /\ index \in DOMAIN File.items
      /\ MappingErrors(Raw) = <<>> /\ index' = index + 1
      /\ disk' = disk /\ paths' = paths /\ file' = file
      /\ mappings' = mappings /\ error' = error /\ done' = done
  BY DEF BuildItem, Building
<1>2. PICK chosen \in SUBSET UNION {buildMatcher(m) : m \in Raw.request.matchers} :
          items' = Append(items, buildMapping(chosen))
  BY DEF BuildItem
<1>3. /\ Len(File.items) \in Nat /\ DOMAIN File.items = 1 .. Len(File.items)
      /\ Decoded(Raw)
  BY <1>1, FileFacts DEF IInv, File, Raw, ItemsOf
<1>4. index \in Nat /\ index > 0 /\ index <= Len(File.items)
  BY <1>1, <1>3
<1> DEFINE built == buildMapping(chosen)
<1>5. Servable(built) /\ Understood(built) /\ built.source = <<paths[file], index>>
  <2>1. built.source = <<paths[file], index>>
    BY DEF buildMapping
  <2> QED
    BY <1>1, <1>3, <2>1, ServableBuilt, UnderstoodBuilt
<1> HIDE DEF built
<1>6. items' = Append(items, built)
  BY <1>2 DEF built
<1>7. /\ IsList(items') /\ Len(items) \in Nat /\ Len(items') = Len(items) + 1
      /\ DOMAIN items = 1 .. Len(items) /\ DOMAIN items' = 1 .. Len(items) + 1
      /\ \A k \in 1 .. Len(items) : items'[k] = items[k]
      /\ items'[Len(items) + 1] = built
  <2>1. IsList(items)
    BY DEF IInv, Types
  <2>2. Len(items) \in Nat /\ DOMAIN items = 1 .. Len(items)
    BY <2>1, SeqDomain
  <2>3. /\ IsList(items') /\ Len(items') = Len(items) + 1
        /\ \A k \in 1 .. Len(items) : items'[k] = items[k]
        /\ items'[Len(items) + 1] = built
    BY <1>6, <2>1, AppendFacts
  <2>4. DOMAIN items' = 1 .. Len(items')
    BY <2>3, SeqDomain
  <2>5. DOMAIN items' = 1 .. Len(items) + 1
    BY <2>3, <2>4
  <2> QED
    BY <2>2, <2>3, <2>5
<1>8. Types'
  BY <1>1, <1>4, <1>7 DEF IInv, Types
<1>9. PathsSorted'
  BY <1>1, <1>4 DEF IInv, PathsSorted, MappingFiles, MappingFile, Increasing
<1>10. Scanned'
  <2>1. \A k \in DOMAIN paths' : k < file' => Good(paths[k])'
    BY <1>1 DEF IInv, Scanned, Good, Decodes
  <2>2. File' = File /\ Decodes(File)' = Decodes(File)
    BY <1>1 DEF File, Decodes
  <2>3. Decodes(File) /\ \A i \in DOMAIN File.items : i < index => MappingErrors(File.items[i]) = <<>>
    BY <1>4 DEF IInv, Scanned
  <2>4. \A i \in DOMAIN File.items : i < index + 1 => MappingErrors(File.items[i]) = <<>>
    BY <1>1, <1>3, <1>4, <2>3 DEF Raw
  <2> QED
    BY <1>1, <1>3, <1>4, <2>1, <2>2, <2>3, <2>4 DEF Scanned
<1>11. AllBuilt'
  <2>1. \A k \in DOMAIN items' : Servable(items'[k]) /\ Understood(items'[k])
    <3> SUFFICES ASSUME NEW k \in DOMAIN items' PROVE Servable(items'[k]) /\ Understood(items'[k])
      OBVIOUS
    <3>1. CASE k \in 1 .. Len(items)
      BY <1>7, <3>1 DEF IInv, AllBuilt
    <3>2. CASE k = Len(items) + 1
      BY <1>5, <1>7, <3>2
    <3> QED
      BY <1>7, <3>1, <3>2
  <2> QED
    BY <1>1, <2>1 DEF IInv, AllBuilt
<1>12. ItemsSourced'
  <2>1. /\ Len(items) = index - 1
        /\ \A k \in 1 .. Len(items) : items[k].source = <<paths[file], k>>
    BY <1>4 DEF IInv, Sourced, ItemsSourced
  <2>2. Len(items') = index' - 1
    BY <1>1, <1>4, <1>7, <2>1
  <2>3. ASSUME NEW k \in 1 .. Len(items') PROVE items'[k].source = <<paths[file], k>>
    <3>1. CASE k \in 1 .. Len(items)
      BY <1>7, <2>1, <3>1
    <3>2. CASE k = Len(items) + 1
      BY <1>4, <1>5, <1>7, <2>1, <3>2
    <3> QED
      BY <1>7, <2>3, <3>1, <3>2
  <2> QED
    BY <1>1, <2>2, <2>3 DEF ItemsSourced
<1>13. FromBehind' /\ AllBehind' /\ InOrder'
  BY <1>1 DEF IInv, Sourced, FromBehind, AllBehind, InOrder, ItemsOf
<1>14. Reported' /\ Finished'
  BY <1>1 DEF IInv, Reported, Finished
<1> QED
  BY <1>8, <1>9, <1>10, <1>11, <1>12, <1>13, <1>14 DEF IInv, Sourced

LEMMA FileLoadedKeeps ==
    ASSUME IInv, FileLoaded
    PROVE  IInv'
<1>1. /\ ~done /\ file \in DOMAIN paths /\ index = Len(File.items) + 1
      /\ mappings' = mappings \o items /\ file' = file + 1 /\ index' = 0
      /\ disk' = disk /\ paths' = paths /\ items' = items
      /\ error' = error /\ done' = done
  BY DEF FileLoaded
<1>2. Len(File.items) \in Nat /\ DOMAIN File.items = 1 .. Len(File.items)
  BY <1>1, FileFacts DEF IInv, File, ItemsOf
<1>3. file \in Nat /\ index \in Nat /\ index > 0 /\ Len(paths) \in Nat
      /\ file <= Len(paths) /\ file > 0
  BY <1>1, <1>2 DEF IInv, Types, PathsSorted
<1>4. /\ Len(items) = Len(File.items)
      /\ \A k \in 1 .. Len(items) : items[k].source = <<paths[file], k>>
  BY <1>1, <1>2, <1>3 DEF IInv, Sourced, ItemsSourced
<1>5. /\ Len(items) \in Nat /\ DOMAIN items = 1 .. Len(items)
      /\ Len(mappings) \in Nat /\ DOMAIN mappings = 1 .. Len(mappings)
      /\ IsList(mappings') /\ Len(mappings') = Len(mappings) + Len(items)
      /\ DOMAIN mappings' = 1 .. Len(mappings) + Len(items)
      /\ \A k \in 1 .. Len(mappings) : mappings'[k] = mappings[k]
      /\ \A k \in 1 .. Len(items) : mappings'[Len(mappings) + k] = items[k]
  <2>1. IsList(items) /\ IsList(mappings)
    BY DEF IInv, Types
  <2>2. /\ Len(items) \in Nat /\ DOMAIN items = 1 .. Len(items)
        /\ Len(mappings) \in Nat /\ DOMAIN mappings = 1 .. Len(mappings)
    BY <2>1, SeqDomain
  <2>3. /\ IsList(mappings') /\ Len(mappings') = Len(mappings) + Len(items)
        /\ \A k \in 1 .. Len(mappings) : mappings'[k] = mappings[k]
        /\ \A k \in 1 .. Len(items) : mappings'[Len(mappings) + k] = items[k]
    BY <1>1, <2>1, ConcatFacts
  <2>4. DOMAIN mappings' = 1 .. Len(mappings')
    BY <2>3, SeqDomain
  <2> QED
    BY <2>2, <2>3, <2>4
<1>6. \A j \in 1 .. Len(mappings') :
         j \in 1 .. Len(mappings) \/ \E i \in 1 .. Len(items) : j = Len(mappings) + i
  <2> TAKE j \in 1 .. Len(mappings')
  <2>1. j \in 1 .. Len(mappings) \/ (j - Len(mappings) \in 1 .. Len(items) /\ j = Len(mappings) + (j - Len(mappings)))
    BY <1>5
  <2> QED
    BY <2>1
<1>7. Types'
  BY <1>1, <1>3, <1>5 DEF IInv, Types
<1>8. PathsSorted'
  BY <1>1, <1>3 DEF IInv, PathsSorted, MappingFiles, MappingFile, Increasing
<1>9. Scanned'
  <2>1. Good(paths[file])
    BY <1>1, <1>2, <1>3 DEF IInv, Scanned, Good, File
  <2>2. \A k \in DOMAIN paths : k < file + 1 => Good(paths[k])
    BY <1>3, <2>1 DEF IInv, Scanned, PathsSorted
  <2> QED
    BY <1>1, <2>2 DEF Scanned, Good, Decodes
<1>10. AllBuilt'
  <2>1. \A k \in DOMAIN mappings' : Servable(mappings'[k]) /\ Understood(mappings'[k])
    <3>1. /\ \A k \in 1 .. Len(items) : Servable(items[k]) /\ Understood(items[k])
          /\ \A k \in 1 .. Len(mappings) : Servable(mappings[k]) /\ Understood(mappings[k])
      BY <1>5 DEF IInv, AllBuilt
    <3>2. \A k \in 1 .. Len(mappings) : Servable(mappings'[k]) /\ Understood(mappings'[k])
      BY <1>5, <3>1
    <3>3. \A k \in 1 .. Len(items) :
             Servable(mappings'[Len(mappings) + k]) /\ Understood(mappings'[Len(mappings) + k])
      BY <1>5, <3>1
    <3> QED
      BY <1>5, <1>6, <3>2, <3>3
  <2> QED
    BY <1>1, <2>1 DEF IInv, AllBuilt
<1>11. ItemsSourced'
  BY <1>1 DEF ItemsSourced
<1>12. FromBehind'
  <2> SUFFICES ASSUME error = Nil, NEW j \in 1 .. Len(mappings')
               PROVE  \E k \in DOMAIN paths : \E i \in DOMAIN ItemsOf(k) :
                         k < file + 1 /\ mappings'[j].source = <<paths[k], i>>
    BY <1>1 DEF FromBehind, ItemsOf
  <2>1. CASE j \in 1 .. Len(mappings)
    <3>1. PICK k \in DOMAIN paths : \E i \in DOMAIN ItemsOf(k) :
             k < file /\ mappings[j].source = <<paths[k], i>>
      BY <2>1 DEF IInv, Sourced, FromBehind
    <3>2. k < file + 1
      BY <1>3, <3>1 DEF IInv, PathsSorted
    <3> QED
      BY <1>5, <2>1, <3>1, <3>2
  <2>2. CASE \E i \in 1 .. Len(items) : j = Len(mappings) + i
    <3>1. PICK i \in 1 .. Len(items) : j = Len(mappings) + i
      BY <2>2
    <3>2. mappings'[j].source = <<paths[file], i>>
      BY <1>4, <1>5, <3>1
    <3>3. i \in DOMAIN ItemsOf(file) /\ file < file + 1
      BY <1>2, <1>3, <1>4, <3>1 DEF File, ItemsOf
    <3> QED
      BY <1>1, <3>2, <3>3
  <2> QED
    BY <1>6, <2>1, <2>2
<1>13. AllBehind'
  <2> SUFFICES ASSUME error = Nil, NEW k \in DOMAIN paths, k < file + 1,
                      NEW i \in DOMAIN ItemsOf(k)
               PROVE  \E j \in 1 .. Len(mappings') : mappings'[j].source = <<paths[k], i>>
    BY <1>1 DEF AllBehind, ItemsOf
  <2>1. CASE k < file
    <3>1. PICK j \in 1 .. Len(mappings) : mappings[j].source = <<paths[k], i>>
      BY <2>1 DEF IInv, Sourced, AllBehind
    <3>2. j \in 1 .. Len(mappings')
      BY <1>5
    <3> QED
      BY <1>5, <3>1, <3>2
  <2>2. CASE k = file
    <3>1. i \in 1 .. Len(items)
      BY <1>2, <1>4, <2>2 DEF File, ItemsOf
    <3>2. Len(mappings) + i \in 1 .. Len(mappings')
      BY <1>5, <3>1
    <3>3. mappings'[Len(mappings) + i].source = <<paths[k], i>>
      BY <1>4, <1>5, <2>2, <3>1
    <3> QED
      BY <3>2, <3>3
  <2> QED
    BY <1>3, <2>1, <2>2 DEF IInv, PathsSorted
<1>14. InOrder'
  <2> SUFFICES ASSUME error = Nil, NEW j \in 1 .. Len(mappings'), NEW k \in 1 .. Len(mappings'),
                      j < k
               PROVE  Before(mappings'[j].source, mappings'[k].source)
    BY <1>1 DEF InOrder
  <2>1. CASE k \in 1 .. Len(mappings)
    <3>1. j \in 1 .. Len(mappings)
      BY <1>5, <2>1
    <3> QED
      BY <1>5, <2>1, <3>1 DEF IInv, Sourced, InOrder
  <2>2. CASE \E i \in 1 .. Len(items) : k = Len(mappings) + i
    <3>1. PICK i \in 1 .. Len(items) : k = Len(mappings) + i
      BY <2>2
    <3>2. mappings'[k].source = <<paths[file], i>>
      BY <1>4, <1>5, <3>1
    <3>3. CASE j \in 1 .. Len(mappings)
      <4>1. PICK f \in DOMAIN paths : \E l \in DOMAIN ItemsOf(f) :
               f < file /\ mappings[j].source = <<paths[f], l>>
        BY <3>3 DEF IInv, Sourced, FromBehind
      <4>2. paths[f] < paths[file]
        BY <1>1, <4>1 DEF IInv, PathsSorted, Increasing
      <4> QED
        BY <1>5, <3>2, <3>3, <4>1, <4>2 DEF Before
    <3>4. CASE \E l \in 1 .. Len(items) : j = Len(mappings) + l
      <4>1. PICK l \in 1 .. Len(items) : j = Len(mappings) + l
        BY <3>4
      <4>2. mappings'[j].source = <<paths[file], l>>
        BY <1>4, <1>5, <4>1
      <4>3. l < i
        BY <1>5, <3>1, <4>1
      <4> QED
        BY <3>2, <4>2, <4>3 DEF Before
    <3> QED
      BY <1>6, <3>3, <3>4
  <2> QED
    BY <1>6, <2>1, <2>2
<1>15. Reported' /\ Finished'
  BY <1>1 DEF IInv, Reported, Finished
<1> QED
  BY <1>7, <1>8, <1>9, <1>10, <1>11, <1>12, <1>13, <1>14, <1>15 DEF IInv, Sourced

LEMMA NextIInv == IInv /\ [Next]_vars => IInv'
<1> SUFFICES ASSUME IInv, [Next]_vars PROVE IInv'
  OBVIOUS
<1>1. CASE mappingFilesFails
  <2>1. /\ ~done /\ Return(0, 0, "mappings") /\ UNCHANGED <<disk, paths, file, index, items>>
    BY <1>1 DEF mappingFilesFails
  <2>2. "mappings" \in Fields
    BY DEF Fields
  <2> QED
    BY <2>1, <2>2, ReturnKeeps
<1>2. CASE mappingFiles
  BY <1>2, mappingFilesKeeps
<1>3. CASE loadFileFails
  <2>1. /\ ~done /\ file \in DOMAIN paths /\ ~Decodes(File)
        /\ Return(paths[file], 0, "file") /\ UNCHANGED <<disk, paths, file, index, items>>
    BY <1>3 DEF loadFileFails, Opening
  <2>2. paths[file] \in Nat
    BY <2>1, FileFacts, LoaderAssumption DEF IInv
  <2>3. "file" \in Fields
    BY DEF Fields
  <2> QED
    BY <2>1, <2>2, <2>3, ReturnKeeps
<1>4. CASE loadFile
  BY <1>4, loadFileKeeps
<1>5. CASE BuildItem
  BY <1>5, BuildItemKeeps
<1>6. CASE ItemFails
  <2> DEFINE item  == IF File.array THEN index ELSE 0
             field == Head(MappingErrors(Raw))
  <2>1. /\ ~done /\ file \in DOMAIN paths /\ index \in DOMAIN File.items
        /\ MappingErrors(Raw) # <<>>
        /\ Return(paths[file], item, field) /\ UNCHANGED <<disk, paths, file, index, items>>
    BY <1>6 DEF ItemFails, Building
  <2>2. paths[file] \in Nat /\ index \in Nat
        /\ DOMAIN File.items = 1 .. Len(File.items) /\ Decoded(Raw)
    BY <2>1, FileFacts, LoaderAssumption DEF IInv, Types, File, Raw, ItemsOf
  <2>3. item \in Nat /\ (item # 0 => item = index) /\ index > 0
    BY <2>1, <2>2
  <2>4. field \in ItemFields
    <3>1. MappingErrors(Raw) \in Seq(ItemFields)
      BY <2>2, MappingFacts
    <3> QED
      BY <2>1, <3>1
  <2>5. field \in Fields /\ field # "file"
    BY <2>4 DEF ItemFields
  <2>6. Decodes(File)
    BY <2>3 DEF IInv, Scanned
  <2>7. MappingErrors(File.items[index]) # <<>>
    BY <2>1 DEF Raw
  <2> HIDE DEF item, field
  <2> QED
    BY <2>1, <2>2, <2>3, <2>5, <2>6, <2>7, ReturnKeeps
<1>7. CASE FileLoaded
  BY <1>7, FileLoadedKeeps
<1>8. CASE Loaded
  <2>1. /\ ~done /\ file = Len(paths) + 1 /\ done' = TRUE
        /\ disk' = disk /\ paths' = paths /\ file' = file /\ index' = index
        /\ items' = items /\ mappings' = mappings /\ error' = error
    BY <1>8 DEF Loaded
  <2>2. Types' /\ AllBuilt'
    BY <2>1 DEF IInv, Types, AllBuilt
  <2>3. PathsSorted'
    BY <2>1 DEF IInv, PathsSorted, MappingFiles, MappingFile, Increasing
  <2>4. Scanned'
    BY <2>1 DEF IInv, Scanned, Good, Decodes, File
  <2>5. Sourced'
    BY <2>1, ZenonT(40) DEF IInv, Sourced, ItemsSourced, FromBehind, AllBehind, InOrder, ItemsOf
  <2>6. Reported'
    BY <2>1 DEF IInv, Reported, Decodes, File
  <2>7. Finished'
    BY <2>1 DEF Finished
  <2> QED
    BY <2>2, <2>3, <2>4, <2>5, <2>6, <2>7 DEF IInv
<1>9. CASE UNCHANGED vars
  <2>1. /\ disk' = disk /\ paths' = paths /\ file' = file /\ index' = index
        /\ items' = items /\ mappings' = mappings /\ error' = error /\ done' = done
    BY <1>9 DEF vars
  <2>2. Types' /\ AllBuilt'
    BY <2>1 DEF IInv, Types, AllBuilt
  <2>3. PathsSorted'
    BY <2>1 DEF IInv, PathsSorted, MappingFiles, MappingFile, Increasing
  <2>4. Scanned'
    BY <2>1 DEF IInv, Scanned, Good, Decodes, File
  <2>5. Sourced'
    BY <2>1, ZenonT(40) DEF IInv, Sourced, ItemsSourced, FromBehind, AllBehind, InOrder, ItemsOf
  <2>6. Reported' /\ Finished'
    BY <2>1 DEF IInv, Reported, Finished, Decodes, File
  <2> QED
    BY <2>2, <2>3, <2>4, <2>5, <2>6 DEF IInv
<1> QED
  BY <1>1, <1>2, <1>3, <1>4, <1>5, <1>6, <1>7, <1>8, <1>9 DEF Next

LEMMA AlwaysIInv == Spec => []IInv
  BY InitIInv, NextIInv, PTL DEF Spec

(***************************************************************************)
(* What a load that returns has done                                       *)
(***************************************************************************)
\* The selector can be built and drawn from for every mapping a load returns
\* (newResponseSelector, selectWeighted): a mode that is known, a variant, and
\* weights above zero where they count.
THEOREM EveryLoadedIsServable == Spec => []LoadedServable
<1>1. IInv => LoadedServable
  BY DEF IInv, AllBuilt, LoadedServable
<1> QED
  BY <1>1, AlwaysIInv, PTL

\* A matcher that is returned keeps the one operator that was written, and the
\* request matcher evaluates it, although buildMatcher took whichever name its
\* map gave first and the validator only looked at the raw matcher.
THEOREM EveryLoadedIsUnderstood == Spec => []LoadedUnderstood
<1>1. IInv => LoadedUnderstood
  BY DEF IInv, AllBuilt, LoadedUnderstood
<1> QED
  BY <1>1, AlwaysIInv, PTL

\* LoadRoot stops at the first error in the order of the names and the items,
\* says where it is, and returns no mapping; without one it has looked at all.
THEOREM TheFirstErrorIsReported == Spec => []FirstErrorWins
<1>1. ASSUME IInv, done, error = Nil
      PROVE  \A n \in DOMAIN Names : MappingFile(n) => Good(n)
  <2> SUFFICES ASSUME NEW n \in MappingFiles PROVE Good(n)
    BY DEF MappingFiles
  <2>1. file = Len(paths) + 1 /\ Len(paths) \in Nat /\ DOMAIN paths = 1 .. Len(paths)
    BY <1>1 DEF IInv, Finished, PathsSorted
  <2>2. PICK k \in DOMAIN paths : paths[k] = n
    BY <1>1, <2>1 DEF IInv, PathsSorted
  <2> QED
    BY <1>1, <2>1, <2>2 DEF IInv, Scanned
<1>2. ASSUME IInv, error # Nil, error.path # 0
      PROVE  /\ MappingFile(error.path) /\ ~Good(error.path)
             /\ \A n \in 1 .. error.path - 1 : MappingFile(n) => Good(n)
             /\ (error.field = "file") = ~Decodes(disk[error.path])
             /\ error.item # 0 =>
                   /\ MappingErrors(disk[error.path].items[error.item]) # <<>>
                   /\ \A i \in 1 .. error.item - 1 :
                         MappingErrors(disk[error.path].items[i]) = <<>>
  <2>1. /\ file \in DOMAIN paths /\ error.path = paths[file]
        /\ (error.field = "file") = ~Decodes(File)
        /\ error.item # 0 => error.item = index
        /\ Decodes(File) => /\ index \in DOMAIN File.items
                            /\ MappingErrors(File.items[index]) # <<>>
    BY <1>2 DEF IInv, Reported
  <2>2. File = disk[error.path] /\ MappingFile(error.path)
    BY <1>2, <2>1 DEF IInv, PathsSorted, MappingFiles, File
  <2>3. ~Good(error.path)
    BY <2>1, <2>2 DEF Good
  <2>4. /\ Len(paths) \in Nat /\ DOMAIN paths = 1 .. Len(paths) /\ file > 0 /\ file <= Len(paths)
        /\ paths[file] \in 1 .. Len(Names) /\ Len(Names) \in Nat
        /\ DOMAIN Names = 1 .. Len(Names)
    BY <1>2, <2>1, FileFacts, LoaderAssumption DEF IInv, PathsSorted, Types
  <2>5. ASSUME NEW n \in 1 .. error.path - 1, MappingFile(n)
        PROVE  Good(n)
    <3>1. n \in MappingFiles /\ n < paths[file]
      BY <2>1, <2>4, <2>5 DEF MappingFiles
    <3>2. PICK k \in DOMAIN paths : paths[k] = n
      BY <1>2, <2>4, <3>1 DEF IInv, PathsSorted
    <3>3. k < file
      <4>1. k \in Nat /\ file \in Nat /\ n \in Nat
        BY <2>1, <2>4, <3>2
      <4>2. SUFFICES ASSUME file <= k PROVE FALSE
        BY <4>1
      <4>3. CASE file = k
        BY <3>1, <3>2, <4>1, <4>3
      <4>4. CASE file < k
        <5>1. paths[file] < paths[k]
          BY <1>2, <2>1, <4>4 DEF IInv, PathsSorted, Increasing
        <5> QED
          BY <2>4, <3>1, <3>2, <4>1, <5>1
      <4> QED
        BY <4>1, <4>2, <4>3, <4>4
    <3> QED
      BY <1>2, <3>2, <3>3 DEF IInv, Scanned
  <2>6. ASSUME error.item # 0
        PROVE  /\ MappingErrors(disk[error.path].items[error.item]) # <<>>
               /\ \A i \in 1 .. error.item - 1 :
                     MappingErrors(disk[error.path].items[i]) = <<>>
    <3>1. error.item = index /\ index \in Nat /\ index > 0
      BY <1>2, <2>1, <2>6 DEF IInv, Types
    <3>2. Decodes(File) /\ \A i \in DOMAIN File.items : i < index => MappingErrors(File.items[i]) = <<>>
      BY <1>2, <3>1 DEF IInv, Scanned
    <3>3. index \in DOMAIN File.items /\ DOMAIN File.items = 1 .. Len(File.items)
          /\ Len(File.items) \in Nat
      BY <1>2, <2>1, <3>2, FileFacts DEF IInv, File, ItemsOf
    <3> QED
      BY <2>1, <2>2, <3>1, <3>2, <3>3
  <2> QED
    BY <2>1, <2>2, <2>3, <2>5, <2>6
<1>3. IInv => FirstErrorWins
  BY <1>1, <1>2 DEF FirstErrorWins, IInv, Reported
<1> QED
  BY <1>3, AlwaysIInv, PTL

\* What LoadRoot returns is every item of every mapping file, once, in the
\* order of the files' names and of the items in a file.
THEOREM AllIsLoadedInOrder == Spec => []LoadedExactly
<1>1. ASSUME IInv, done, error = Nil
      PROVE  {m.source : m \in ToSet(mappings)} =
                UNION {{<<n, i>> : i \in DOMAIN disk[n].items} :
                         n \in {k \in DOMAIN Names : MappingFile(k)}}
  <2>1. file = Len(paths) + 1 /\ Len(paths) \in Nat /\ DOMAIN paths = 1 .. Len(paths)
    BY <1>1 DEF IInv, Finished, PathsSorted
  <2>2. DOMAIN mappings = 1 .. Len(mappings)
    BY <1>1, SeqDomain DEF IInv, Types
  <2>3. {m.source : m \in ToSet(mappings)} = {mappings[j].source : j \in 1 .. Len(mappings)}
    BY <2>2 DEF ToSet
  <2>4. ASSUME NEW j \in 1 .. Len(mappings)
        PROVE  \E n \in MappingFiles : \E i \in DOMAIN disk[n].items : mappings[j].source = <<n, i>>
    <3>1. PICK k \in DOMAIN paths : \E i \in DOMAIN ItemsOf(k) : mappings[j].source = <<paths[k], i>>
      BY <1>1 DEF IInv, Sourced, FromBehind
    <3>2. paths[k] \in MappingFiles
      BY <1>1 DEF IInv, PathsSorted
    <3> QED
      BY <3>1, <3>2 DEF ItemsOf
  <2>5. ASSUME NEW n \in MappingFiles, NEW i \in DOMAIN disk[n].items
        PROVE  \E j \in 1 .. Len(mappings) : mappings[j].source = <<n, i>>
    <3>1. PICK k \in DOMAIN paths : paths[k] = n
      BY <1>1, <2>1 DEF IInv, PathsSorted
    <3>2. k < file /\ i \in DOMAIN ItemsOf(k)
      BY <2>1, <3>1 DEF ItemsOf
    <3> QED
      BY <1>1, <3>1, <3>2 DEF IInv, Sourced, AllBehind
  <2>6. UNION {{<<n, i>> : i \in DOMAIN disk[n].items} : n \in MappingFiles}
           = {mappings[j].source : j \in 1 .. Len(mappings)}
    <3> DEFINE Left == UNION {{<<n, i>> : i \in DOMAIN disk[n].items} : n \in MappingFiles}
               Right == {mappings[j].source : j \in 1 .. Len(mappings)}
    <3>1. \A x : x \in Left <=> \E n \in MappingFiles : \E i \in DOMAIN disk[n].items : x = <<n, i>>
      OBVIOUS
    <3>2. \A x : x \in Right <=> \E j \in 1 .. Len(mappings) : x = mappings[j].source
      OBVIOUS
    <3> HIDE DEF Left, Right
    <3>3. ASSUME NEW x \in Left PROVE x \in Right
      <4>1. PICK n \in MappingFiles : \E i \in DOMAIN disk[n].items : x = <<n, i>>
        BY <3>1, <3>3
      <4>2. PICK i \in DOMAIN disk[n].items : x = <<n, i>>
        BY <4>1
      <4>3. PICK j \in 1 .. Len(mappings) : mappings[j].source = <<n, i>>
        BY <2>5
      <4> QED
        BY <3>2, <4>2, <4>3
    <3>4. ASSUME NEW x \in Right PROVE x \in Left
      <4>1. PICK j \in 1 .. Len(mappings) : x = mappings[j].source
        BY <3>2, <3>4
      <4> QED
        BY <2>4, <3>1, <4>1
    <3>5. Left = Right
      BY <3>3, <3>4
    <3> QED
      BY <3>5 DEF Left, Right
  <2> QED
    BY <2>3, <2>6 DEF MappingFiles
<1>2. ASSUME IInv, error = Nil
      PROVE  \A j, k \in DOMAIN mappings : j < k => Before(mappings[j].source, mappings[k].source)
  <2>1. DOMAIN mappings = 1 .. Len(mappings)
    BY <1>2, SeqDomain DEF IInv, Types
  <2> QED
    BY <1>2, <2>1 DEF IInv, Sourced, InOrder
<1>3. IInv => LoadedExactly
  BY <1>1, <1>2 DEF LoadedExactly
<1> QED
  BY <1>3, AlwaysIInv, PTL

(***************************************************************************)
(* Generated IDs                                                           *)
(***************************************************************************)
\* The ID that item i of file n of a disk is given.
IDOf(d, n, i) ==
    IF d[n].items[i].id # Nil THEN d[n].items[i].id
    ELSE IF d[n].array THEN mappingArrayItemID(Names[n].base, i, d[n].items[i].name)
    ELSE Names[n].base

Identified ==
    /\ index > 0 => \A k \in 1 .. Len(items) : items[k].id = IDOf(disk, paths[file], k)
    /\ \A j \in 1 .. Len(mappings) :
          mappings[j].id = IDOf(disk, mappings[j].source[1], mappings[j].source[2])

\* The index is a word of its own behind the base, which has the same length
\* in every ID of a file.
LEMMA IndexTellsApart ==
    ASSUME NEW base \in Seq(STRING), NEW a \in Seq(STRING), NEW b \in Seq(STRING),
           NEW i, i - 1 \in DOMAIN Itoa, NEW j, j - 1 \in DOMAIN Itoa,
           i \in Int, j \in Int, i # j
    PROVE  mappingArrayItemID(base, i, a) # mappingArrayItemID(base, j, b)
<1>1. \A d \in STRING : \A name \in Seq(STRING) :
         (base \o <<d>> \o name)[Len(base) + 1] = d
  <2> TAKE d \in STRING, name \in Seq(STRING)
  <2>1. IsList(base) /\ IsList(<<d>>) /\ IsList(name) /\ Len(<<d>>) = 1 /\ <<d>>[1] = d
    <3>1. <<d>> \in Seq({d})
      OBVIOUS
    <3> QED
      BY <3>1 DEF IsList
  <2>2. /\ IsList(base \o <<d>>) /\ Len(base \o <<d>>) = Len(base) + 1 /\ Len(base) \in Nat
        /\ (base \o <<d>>)[Len(base) + 1] = d
    <3>1. /\ IsList(base \o <<d>>) /\ Len(base \o <<d>>) = Len(base) + Len(<<d>>)
          /\ \A k \in 1 .. Len(<<d>>) : (base \o <<d>>)[Len(base) + k] = <<d>>[k]
      BY <2>1, ConcatFacts
    <3>2. 1 \in 1 .. Len(<<d>>) /\ Len(base) \in Nat
      BY <2>1, SeqDomain
    <3> QED
      BY <2>1, <3>1, <3>2
  <2> DEFINE s == base \o <<d>>
  <2>3. \A k \in 1 .. Len(s) : (s \o name)[k] = s[k]
    BY <2>1, <2>2, ConcatFacts
  <2>4. Len(base) + 1 \in 1 .. Len(s)
    BY <2>2
  <2> HIDE DEF s
  <2>5. (s \o name)[Len(base) + 1] = s[Len(base) + 1]
    BY <2>3, <2>4
  <2> QED
    BY <2>2, <2>5 DEF s
<1>2. Itoa[i - 1] \in STRING /\ Itoa[j - 1] \in STRING /\ Itoa[i - 1] # Itoa[j - 1]
  BY LoaderAssumption
<1>3. mappingArrayItemID(base, i, a)[Len(base) + 1] = Itoa[i - 1]
      /\ mappingArrayItemID(base, j, b)[Len(base) + 1] = Itoa[j - 1]
  BY <1>1, <1>2 DEF mappingArrayItemID
<1> QED
  BY <1>2, <1>3

LEMMA BuildItemIdentifies ==
    ASSUME IInv, Identified, BuildItem
    PROVE  Identified'
<1>1. /\ file \in DOMAIN paths /\ index \in DOMAIN File.items /\ index' = index + 1
      /\ disk' = disk /\ paths' = paths /\ file' = file /\ mappings' = mappings
  BY DEF BuildItem, Building
<1>2. PICK chosen : items' = Append(items, buildMapping(chosen))
  BY DEF BuildItem
<1>3. index \in Nat /\ index > 0
  BY <1>1, FileFacts DEF IInv, Types, File, ItemsOf
<1>4. buildMapping(chosen).id = IDOf(disk, paths[file], index)
  BY DEF buildMapping, mappingID, IDOf, Raw, File
<1>5. Len(items) = index - 1
  BY <1>3 DEF IInv, Sourced, ItemsSourced
<1>6. /\ Len(items') = Len(items) + 1
      /\ \A k \in 1 .. Len(items) : items'[k] = items[k]
      /\ items'[Len(items) + 1] = buildMapping(chosen)
  BY <1>2, AppendFacts DEF IInv, Types
<1>7. ASSUME NEW k \in 1 .. Len(items') PROVE items'[k].id = IDOf(disk, paths[file], k)
  <2>1. CASE k \in 1 .. Len(items)
    BY <1>3, <1>6, <2>1 DEF Identified
  <2>2. CASE k = index
    BY <1>3, <1>4, <1>5, <1>6, <2>2
  <2> QED
    BY <1>3, <1>5, <1>6, <2>1, <2>2
<1> QED
  BY <1>1, <1>7 DEF Identified

LEMMA FileLoadedIdentifies ==
    ASSUME IInv, Identified, FileLoaded
    PROVE  Identified'
<1>1. /\ file \in DOMAIN paths /\ index = Len(File.items) + 1
      /\ mappings' = mappings \o items /\ index' = 0 /\ disk' = disk
  BY DEF FileLoaded
<1>2. index \in Nat /\ index > 0
  BY <1>1, FileFacts DEF IInv, Types, File, ItemsOf
<1>3. \A k \in 1 .. Len(items) : /\ items[k].id = IDOf(disk, paths[file], k)
                                 /\ items[k].source = <<paths[file], k>>
  BY <1>2 DEF Identified, IInv, Sourced, ItemsSourced
<1>4. \A k \in 1 .. Len(items) : items[k].id = IDOf(disk, items[k].source[1], items[k].source[2])
  BY <1>3
<1>5. /\ Len(mappings) \in Nat /\ Len(items) \in Nat
      /\ Len(mappings') = Len(mappings) + Len(items)
      /\ \A k \in 1 .. Len(mappings) : mappings'[k] = mappings[k]
      /\ \A k \in 1 .. Len(items) : mappings'[Len(mappings) + k] = items[k]
  BY <1>1, SeqDomain, ConcatFacts DEF IInv, Types
<1>6. ASSUME NEW j \in 1 .. Len(mappings')
      PROVE  mappings'[j].id = IDOf(disk, mappings'[j].source[1], mappings'[j].source[2])
  <2>1. CASE j \in 1 .. Len(mappings)
    BY <1>5, <2>1 DEF Identified
  <2>2. CASE j \notin 1 .. Len(mappings)
    <3>1. PICK k \in 1 .. Len(items) : j = Len(mappings) + k
      <4>1. j - Len(mappings) \in 1 .. Len(items) /\ j = Len(mappings) + (j - Len(mappings))
        BY <1>5, <2>2
      <4> QED
        BY <4>1
    <3> QED
      BY <1>4, <1>5, <3>1
  <2> QED
    BY <2>1, <2>2
<1> QED
  BY <1>1, <1>6 DEF Identified

LEMMA StepIdentified == IInv /\ Identified /\ [Next]_vars => Identified'
<1> SUFFICES ASSUME IInv, Identified, [Next]_vars PROVE Identified'
  OBVIOUS
<1>0. ASSUME disk' = disk, mappings' = mappings,
             \/ index' = 0
             \/ Len(items') = 0
             \/ items' = items /\ paths' = paths /\ file' = file /\ index' = index
      PROVE  Identified'
  BY <1>0 DEF Identified
<1>1. CASE mappingFilesFails \/ loadFileFails \/ ItemFails
  BY <1>1 DEF mappingFilesFails, loadFileFails, ItemFails, Return, Identified
<1>2. CASE mappingFiles
  <2>1. index = 0
    BY <1>2 DEF mappingFiles, IInv, PathsSorted
  <2> QED
    BY <1>0, <1>2, <2>1 DEF mappingFiles
<1>3. CASE loadFile
  BY <1>0, <1>3, EmptySeq DEF loadFile
<1>4. CASE BuildItem
  BY <1>4, BuildItemIdentifies
<1>5. CASE FileLoaded
  BY <1>5, FileLoadedIdentifies
<1>6. CASE Loaded \/ UNCHANGED vars
  BY <1>0, <1>6 DEF Loaded, vars
<1> QED
  BY <1>1, <1>2, <1>3, <1>4, <1>5, <1>6 DEF Next

\* No two items of a mapping file are given the same ID by the loader,
\* whatever their names are made of.
THEOREM MadeUpIDsDiffer == Spec => []GeneratedIDsDiffer
<1>1. Init => Identified
  BY DEF Init, Identified
<1>2. ASSUME IInv, Identified PROVE GeneratedIDsDiffer
  <2> SUFFICES ASSUME NEW j \in DOMAIN mappings, NEW k \in DOMAIN mappings, j # k,
                      mappings[j].source[1] = mappings[k].source[1],
                      RawOf(mappings[j]).id = Nil, RawOf(mappings[k]).id = Nil
               PROVE  mappings[j].id # mappings[k].id
    BY DEF GeneratedIDsDiffer
  <2>1. DOMAIN mappings = 1 .. Len(mappings) /\ Len(mappings) \in Nat
    BY <1>2, SeqDomain DEF IInv, Types
  <2>2. error = Nil
    BY <1>2 DEF IInv, Reported
  <2>3. PICK f \in DOMAIN paths : \E i \in DOMAIN ItemsOf(f) : mappings[j].source = <<paths[f], i>>
    BY <1>2, <2>1, <2>2 DEF IInv, Sourced, FromBehind
  <2>4. PICK g \in DOMAIN paths : \E i \in DOMAIN ItemsOf(g) : mappings[k].source = <<paths[g], i>>
    BY <1>2, <2>1, <2>2 DEF IInv, Sourced, FromBehind
  <2>5. PICK i \in DOMAIN ItemsOf(f) : mappings[j].source = <<paths[f], i>>
    BY <2>3
  <2>6. PICK l \in DOMAIN ItemsOf(f) : mappings[k].source = <<paths[f], l>>
    BY <2>4, <2>5 DEF ItemsOf
  <2> DEFINE n == paths[f]
             base == Names[n].base
             a == disk[n].items[i]
             b == disk[n].items[l]
  <2>7. /\ n \in DOMAIN Names /\ disk[n].kind = "file" /\ n \in Int /\ disk \in Disks
        /\ i \in DOMAIN disk[n].items /\ l \in DOMAIN disk[n].items
        /\ DOMAIN disk[n].items = 1 .. Len(disk[n].items) /\ Len(disk[n].items) \in Nat
    BY <1>2, FileFacts DEF IInv, Types, PathsSorted, MappingFiles, MappingFile, ItemsOf
  <2>8. i # l
    <3>1. j < k \/ k < j
      BY <2>1
    <3>2. \/ Before(<<n, i>>, <<n, l>>) \/ Before(<<n, l>>, <<n, i>>)
      BY <1>2, <2>1, <2>2, <2>5, <2>6, <3>1 DEF IInv, Sourced, InOrder
    <3> QED
      BY <2>7, <3>2 DEF Before
  <2>9. a.id = Nil /\ b.id = Nil
    BY <2>5, <2>6 DEF RawOf
  <2>10. disk[n].array
    <3>1. ~disk[n].array => Len(disk[n].items) = 1
      BY <2>7, LoaderAssumption
    <3>2. \A size : i \in 1 .. size /\ l \in 1 .. size => size # 1
      BY <2>8
    <3>3. Len(disk[n].items) # 1
      BY <2>7, <3>2
    <3> QED
      BY <3>1, <3>3
  <2>11. /\ mappings[j].id = mappingArrayItemID(base, i, a.name)
         /\ mappings[k].id = mappingArrayItemID(base, l, b.name)
    <3>1. /\ mappings[j].id = IDOf(disk, n, i)
          /\ mappings[k].id = IDOf(disk, n, l)
      <4>1. /\ mappings[j].source[1] = n /\ mappings[j].source[2] = i
            /\ mappings[k].source[1] = n /\ mappings[k].source[2] = l
        BY <2>1, <2>5, <2>6
      <4> HIDE DEF n
      <4> QED
        BY <1>2, <2>1, <4>1 DEF Identified
    <3> HIDE DEF n
    <3>2. ~ (disk[n].items[i].id # Nil) /\ ~ (disk[n].items[l].id # Nil)
      BY <2>9
    <3> QED
      BY <2>10, <3>1, <3>2 DEF IDOf
  <2>12. /\ base \in Seq(STRING) /\ a.name \in Seq(STRING) /\ b.name \in Seq(STRING)
         /\ i - 1 \in DOMAIN Itoa /\ l - 1 \in DOMAIN Itoa
    BY <2>7, LoaderAssumption DEF Decoded
  <2> HIDE DEF n, base, a, b
  <2> QED
    BY <2>7, <2>8, <2>11, <2>12, IndexTellsApart
<1> QED
  BY <1>1, <1>2, StepIdentified, AlwaysIInv, PTL DEF Spec

(***************************************************************************)
(* Delays                                                                  *)
(***************************************************************************)
\* A remainder lies below its divisor, and a number below it is its own.
LEMMA Remainder ==
    ASSUME NEW a \in Int, NEW n \in Nat \ {0}
    PROVE  /\ a % n \in 0 .. n - 1
           /\ a \in 0 .. n - 1 => a % n = a
  OBVIOUS

\* Arithmetic stays in the range of an int, and is exact where that suffices.
LEMMA WrapWraps ==
    ASSUME NEW x \in Int
    PROVE  /\ Wrap(x) \in Ints
           /\ x \in Ints => Wrap(x) = x
<1> USE DelayAssumption
<1>1. 2 * Half \in Nat \ {0} /\ x + Half \in Int
  OBVIOUS
<1>2. (x + Half) % (2 * Half) \in 0 .. 2 * Half - 1
  BY <1>1, Remainder
<1>3. x \in Ints => x + Half \in 0 .. 2 * Half - 1
  BY DEF Ints
<1>4. x \in Ints => (x + Half) % (2 * Half) = x + Half
  BY <1>1, <1>3, Remainder
<1> QED
  BY <1>2, <1>4 DEF Wrap, Ints

(***************************************************************************)
(* The inductive invariant of a delay                                      *)
(***************************************************************************)
Convert(n) == IF InMilliseconds THEN Milliseconds(n) ELSE n

\* What was accepted has its converted numbers as bounds, in order.
Converted ==
    verdict = "accepted" =>
        /\ Configured /\ 0 <= setting.lower /\ 0 <= setting.upper
        /\ min = Convert(setting.lower) /\ max = Convert(setting.upper)
        /\ min <= max
        /\ type # "random" => min = max

Rejected ==
    verdict = "rejected" /\ Configured /\ 0 <= setting.lower =>
        Convert(setting.lower) > Convert(setting.upper) \/ setting.upper < 0

OneNumber == setting.kind \in {"fixedDelayMilliseconds", "fixed"} => setting.upper = setting.lower

OnlyAccepted == drawn # None \/ panicked => verdict = "accepted"

Between == Fits /\ drawn # None => min <= drawn /\ (drawn < max \/ drawn = min)

DelayInv == /\ DelayTypeOK /\ Converted /\ Rejected /\ OneNumber
        /\ OnlyAccepted /\ Between /\ PanicOnlyOnOverflow

\* Numbers are integers, and the exact product is one.
LEMMA RawNumbers ==
    ASSUME DelayTypeOK, Configured
    PROVE  /\ setting.lower \in Ints /\ setting.upper \in Ints
           /\ Exact(setting.lower) \in Int /\ Exact(setting.upper) \in Int
           /\ Convert(setting.lower) \in Ints /\ Convert(setting.upper) \in Ints
           /\ Fits => /\ Convert(setting.lower) = Exact(setting.lower)
                      /\ Convert(setting.upper) = Exact(setting.upper)
<1> USE DelayAssumption
<1>1. setting.lower \in Numbers /\ setting.upper \in Numbers
  BY DEF DelayTypeOK, Raws, Configured
<1>2. setting.lower \in Ints /\ setting.upper \in Ints
  BY <1>1 DEF Ints
<1>3. setting.lower \in Int /\ setting.upper \in Int
  BY <1>2 DEF Ints
<1>4. setting.lower * Millisecond \in Int /\ setting.upper * Millisecond \in Int
  BY <1>3
<1>5. Exact(setting.lower) \in Int /\ Exact(setting.upper) \in Int
  BY <1>3, <1>4 DEF Exact
<1>6. Convert(setting.lower) \in Ints /\ Convert(setting.upper) \in Ints
  BY <1>2, <1>4, WrapWraps DEF Convert, Milliseconds
<1>7. ASSUME Fits
      PROVE  Convert(setting.lower) = Exact(setting.lower) /\ Convert(setting.upper) = Exact(setting.upper)
  <2>1. CASE InMilliseconds
    <3>1. setting.lower * Millisecond \in Ints /\ setting.upper * Millisecond \in Ints
      BY <1>7, <2>1 DEF Fits, Configured, Exact
    <3> QED
      BY <2>1, <3>1, <1>4, WrapWraps DEF Convert, Exact, Milliseconds
  <2>2. CASE ~InMilliseconds
    BY <2>2 DEF Convert, Exact
  <2> QED
    BY <2>1, <2>2
<1> QED
  BY <1>2, <1>5, <1>6, <1>7

\* A bound that fits is not negative, and then a range is what it seems.
LEMMA SpanExact ==
    ASSUME DelayTypeOK, Converted, Fits, verdict = "accepted"
    PROVE  /\ min = Exact(setting.lower) /\ max = Exact(setting.upper)
           /\ 0 <= min
           /\ min < max => Span = max - min
<1> USE DelayAssumption
<1>1. min = Exact(setting.lower) /\ max = Exact(setting.upper)
  BY RawNumbers DEF Converted
<1>2. setting.lower \in Int /\ setting.lower >= 0
  BY RawNumbers DEF Converted, Ints
<1>3. setting.lower * Millisecond >= 0
  BY <1>2
<1>4. 0 <= min
  BY <1>1, <1>2, <1>3 DEF Exact
<1>5. ASSUME min < max
      PROVE  Span = max - min
  <2>1. max - min \in Ints /\ max - min \in Int
    BY <1>4, <1>5 DEF DelayTypeOK, Ints
  <2> QED
    BY <2>1, WrapWraps DEF Span
<1> QED
  BY <1>1, <1>4, <1>5

LEMMA InitDelay == DInit => DelayInv
<1> SUFFICES ASSUME DInit PROVE DelayInv
  OBVIOUS
<1> USE DelayAssumption
<1>1. DelayTypeOK
  <2>1. setting \in Raws
    BY DEF DInit
  <2>2. 0 \in Ints
    BY DEF Ints
  <2> QED
    BY <2>1, <2>2 DEF DInit, DelayTypeOK
<1>2. Converted /\ Rejected
  BY DEF DInit, Converted, Rejected
<1>3. OneNumber
  BY DEF DInit, OneNumber
<1>4. OnlyAccepted /\ Between /\ PanicOnlyOnOverflow
  BY DEF DInit, OnlyAccepted, Between, PanicOnlyOnOverflow
<1> QED
  BY <1>1, <1>2, <1>3, <1>4 DEF DelayInv

\* An accepted delay is stored as converted.
LEMMA AcceptKeeps ==
    ASSUME DelayInv, verdict = "none", NEW kind \in {"fixed", "random"},
           NonNegative, Convert(setting.lower) <= Convert(setting.upper),
           kind # "random" => Convert(setting.lower) = Convert(setting.upper),
           Accept(kind, Convert(setting.lower), Convert(setting.upper))
    PROVE  DelayInv'
<1> USE DelayAssumption
<1>1. Configured /\ UNCHANGED <<setting, drawn, panicked>>
  BY DEF NonNegative, Configured, Accept
<1>2. drawn = None /\ ~panicked
  BY DEF DelayInv, OnlyAccepted, DelayTypeOK
<1>3. Convert(setting.lower) \in Ints /\ Convert(setting.upper) \in Ints
  BY <1>1, RawNumbers DEF DelayInv
<1>4. DelayTypeOK'
  BY <1>1, <1>3 DEF DelayInv, DelayTypeOK, Accept
<1>5. Converted'
  <2>1. /\ Convert(setting.lower)' = Convert(setting.lower)
        /\ Convert(setting.upper)' = Convert(setting.upper)
    BY <1>1 DEF Convert, InMilliseconds, Milliseconds, Wrap
  <2>2. /\ min' = Convert(setting.lower) /\ max' = Convert(setting.upper) /\ type' = kind
        /\ setting' = setting
    BY DEF Accept
  <2>3. 0 <= setting.lower /\ 0 <= setting.upper
    BY <1>1, RawNumbers DEF DelayInv, NonNegative, Ints
  <2> QED
    BY <2>1, <2>2, <2>3, <1>1 DEF Converted, Configured
<1>6. Rejected' /\ OneNumber'
  BY <1>1 DEF Accept, Rejected, OneNumber, DelayInv
<1>7. OnlyAccepted' /\ Between' /\ PanicOnlyOnOverflow'
  BY <1>1, <1>2 DEF OnlyAccepted, Between, PanicOnlyOnOverflow
<1> QED
  BY <1>4, <1>5, <1>6, <1>7 DEF DelayInv

\* What is rejected is missing, negative or out of order.
LEMMA RejectKeeps ==
    ASSUME DelayInv, verdict = "none", Reject,
           NonNegative => Convert(setting.lower) > Convert(setting.upper)
    PROVE  DelayInv'
<1> USE DelayAssumption
<1>1. UNCHANGED <<setting, type, min, max, drawn, panicked>> /\ verdict' = "rejected"
  BY DEF Reject
<1>2. drawn = None /\ ~panicked
  BY DEF DelayInv, OnlyAccepted, DelayTypeOK
<1>3. DelayTypeOK' /\ Converted' /\ OneNumber'
  BY <1>1 DEF DelayInv, DelayTypeOK, Converted, OneNumber
<1>4. Rejected'
  <2>1. /\ Convert(setting.lower)' = Convert(setting.lower)
        /\ Convert(setting.upper)' = Convert(setting.upper)
        /\ Configured' = Configured
    BY <1>1 DEF Convert, InMilliseconds, Milliseconds, Wrap, Configured
  <2>2. ASSUME Configured, 0 <= setting.lower, ~(setting.upper < 0)
        PROVE  NonNegative
    BY <2>2, RawNumbers DEF NonNegative, Configured, DelayInv, Ints
  <2> QED
    BY <1>1, <2>1, <2>2 DEF Rejected
<1>5. OnlyAccepted' /\ Between' /\ PanicOnlyOnOverflow'
  BY <1>1, <1>2 DEF OnlyAccepted, Between, PanicOnlyOnOverflow
<1> QED
  BY <1>3, <1>4, <1>5 DEF DelayInv

\* A draw changes nothing of what was built.
LEMMA DrawKeeps ==
    ASSUME DelayInv, UNCHANGED <<setting, verdict, type, min, max>>
    PROVE  /\ Converted' /\ Rejected' /\ OneNumber'
           /\ Fits' = Fits
  BY DEF DelayInv, Converted, Rejected, OneNumber, Convert, InMilliseconds,
         Milliseconds, Wrap, Configured, Fits, Exact, Ints

LEMMA StepDelay == DelayInv /\ [DNext]_dvars => DelayInv'
<1> SUFFICES ASSUME DelayInv, [DNext]_dvars PROVE DelayInv'
  OBVIOUS
<1> USE DelayAssumption
<1>0. DelayTypeOK /\ OneNumber
  BY DEF DelayInv
<1>1. CASE fixedDelayMilliseconds
  <2>1. verdict = "none" /\ setting.upper = setting.lower /\ Convert(setting.lower) = Milliseconds(setting.lower)
    BY <1>0, <1>1 DEF fixedDelayMilliseconds, Unbuilt, OneNumber, Convert, InMilliseconds
  <2>2. CASE NonNegative
    <3>1. Convert(setting.lower) \in Int
      BY <1>0, <2>2, RawNumbers DEF NonNegative, Configured, Ints
    <3>2. Convert(setting.lower) <= Convert(setting.upper)
      BY <2>1, <3>1
    <3>3. Accept("fixed", Convert(setting.lower), Convert(setting.upper))
      BY <1>1, <2>1, <2>2 DEF fixedDelayMilliseconds
    <3> QED
      BY <2>1, <2>2, <3>2, <3>3, AcceptKeeps
  <2>3. CASE ~NonNegative
    BY <1>1, <2>1, <2>3, RejectKeeps DEF fixedDelayMilliseconds
  <2> QED
    BY <2>2, <2>3
<1>2. CASE uniformDelayDistribution
  <2>1. /\ verdict = "none"
        /\ Convert(setting.lower) = Milliseconds(setting.lower)
        /\ Convert(setting.upper) = Milliseconds(setting.upper)
    BY <1>2 DEF uniformDelayDistribution, Unbuilt, Convert, InMilliseconds
  <2>2. CASE NonNegative /\ Milliseconds(setting.lower) <= Milliseconds(setting.upper)
    <3>1. Accept("random", Convert(setting.lower), Convert(setting.upper))
      BY <1>2, <2>1, <2>2 DEF uniformDelayDistribution
    <3> QED
      BY <2>1, <2>2, <3>1, AcceptKeeps
  <2>3. CASE ~(NonNegative /\ Milliseconds(setting.lower) <= Milliseconds(setting.upper))
    <3>1. NonNegative => Convert(setting.lower) > Convert(setting.upper)
      BY <1>0, <2>1, <2>3, RawNumbers DEF NonNegative, Configured, Ints
    <3> QED
      BY <1>2, <2>1, <2>3, <3>1, RejectKeeps DEF uniformDelayDistribution
  <2> QED
    BY <2>2, <2>3
<1>3. CASE fixedDelay
  <2>1. verdict = "none" /\ setting.upper = setting.lower /\ Convert(setting.lower) = setting.lower
    BY <1>0, <1>3 DEF fixedDelay, Unbuilt, OneNumber, Convert, InMilliseconds
  <2>2. CASE NonNegative
    <3>1. Convert(setting.lower) \in Int
      BY <1>0, <2>2, RawNumbers DEF NonNegative, Configured, Ints
    <3>2. Convert(setting.lower) <= Convert(setting.upper)
      BY <2>1, <3>1
    <3>3. Accept("fixed", Convert(setting.lower), Convert(setting.upper))
      BY <1>3, <2>1, <2>2 DEF fixedDelay
    <3> QED
      BY <2>1, <2>2, <3>2, <3>3, AcceptKeeps
  <2>3. CASE ~NonNegative
    BY <1>3, <2>1, <2>3, RejectKeeps DEF fixedDelay
  <2> QED
    BY <2>2, <2>3
<1>4. CASE randomDelay
  <2>1. /\ verdict = "none"
        /\ Convert(setting.lower) = setting.lower /\ Convert(setting.upper) = setting.upper
    BY <1>4 DEF randomDelay, Unbuilt, Convert, InMilliseconds
  <2>2. CASE NonNegative /\ setting.lower <= setting.upper
    <3>1. Accept("random", Convert(setting.lower), Convert(setting.upper))
      BY <1>4, <2>1, <2>2 DEF randomDelay
    <3> QED
      BY <2>1, <2>2, <3>1, AcceptKeeps
  <2>3. CASE ~(NonNegative /\ setting.lower <= setting.upper)
    <3>1. NonNegative => Convert(setting.lower) > Convert(setting.upper)
      BY <1>0, <2>1, <2>3, RawNumbers DEF NonNegative, Configured, Ints
    <3> QED
      BY <1>4, <2>1, <2>3, <3>1, RejectKeeps DEF randomDelay
  <2> QED
    BY <2>2, <2>3
<1>5. CASE Certain
  <2>1. UNCHANGED <<setting, verdict, type, min, max, panicked>> /\ drawn' = min /\ verdict = "accepted"
    BY <1>5 DEF Certain, Drawing
  <2>2. DelayTypeOK'
    BY <1>0, <2>1 DEF DelayTypeOK
  <2>3. OnlyAccepted' /\ PanicOnlyOnOverflow'
    BY <2>1, DrawKeeps DEF DelayInv, OnlyAccepted, PanicOnlyOnOverflow
  <2>4. Between'
    BY <1>0, <2>1 DEF Between, DelayTypeOK, Ints
  <2> QED
    BY <2>1, <2>2, <2>3, <2>4, DrawKeeps DEF DelayInv
<1>6. CASE randomDuration
  <2>1. UNCHANGED <<setting, verdict, type, min, max, panicked>> /\ verdict = "accepted" /\ min < max
    BY <1>6 DEF randomDuration, Drawing
  <2>2. PICK n \in 0 .. Span - 1 : drawn' = Wrap(min + n)
    BY <1>6 DEF randomDuration
  <2>3. max - min \in Int /\ min \in Int /\ max \in Int
    BY <1>0 DEF DelayTypeOK, Ints
  <2>4. n \in Int
    BY <2>2, <2>3, WrapWraps DEF Span, Ints
  <2>5. DelayTypeOK'
    BY <1>0, <2>1, <2>2, <2>3, <2>4, WrapWraps DEF DelayTypeOK
  <2>6. OnlyAccepted' /\ PanicOnlyOnOverflow'
    BY <2>1, DrawKeeps DEF DelayInv, OnlyAccepted, PanicOnlyOnOverflow
  <2>7. ASSUME Fits
        PROVE  min <= drawn' /\ drawn' < max
    <3>1. Span = max - min /\ 0 <= min
      BY <1>0, <2>1, <2>7, SpanExact DEF DelayInv
    <3>2. n >= 0 /\ min + n < max
      BY <2>2, <2>3, <3>1
    <3>3. min + n \in Ints /\ min + n \in Int
      BY <1>0, <2>3, <2>4, <3>1, <3>2 DEF DelayTypeOK, Ints
    <3>4. drawn' = min + n
      BY <2>2, <3>3, WrapWraps
    <3> QED
      BY <3>2, <3>4, <2>3, <2>4
  <2>8. Between'
    BY <2>1, <2>7, DrawKeeps DEF Between
  <2> QED
    BY <2>1, <2>5, <2>6, <2>8, DrawKeeps DEF DelayInv
<1>7. CASE Int63nPanics
  <2>1. UNCHANGED <<setting, verdict, type, min, max, drawn>> /\ panicked' = TRUE /\ verdict = "accepted"
    BY <1>7 DEF Int63nPanics, Drawing
  <2>2. DelayTypeOK' /\ OnlyAccepted'
    BY <1>0, <2>1 DEF DelayTypeOK, OnlyAccepted
  <2>3. Between'
    BY <2>1, DrawKeeps DEF Between, DelayInv
  <2>4. ~Fits
    <3>1. SUFFICES ASSUME Fits PROVE FALSE
      OBVIOUS
    <3>2. min < max /\ Span <= 0
      BY <1>7 DEF Int63nPanics
    <3>3. Span = max - min
      BY <1>0, <2>1, <3>1, <3>2, SpanExact DEF DelayInv
    <3> QED
      BY <1>0, <3>2, <3>3 DEF DelayTypeOK, Ints
  <2>5. PanicOnlyOnOverflow'
    BY <2>1, <2>4, DrawKeeps DEF PanicOnlyOnOverflow
  <2> QED
    BY <2>1, <2>2, <2>3, <2>5, DrawKeeps DEF DelayInv
<1>8. CASE UNCHANGED dvars
  <2>1. UNCHANGED <<setting, verdict, type, min, max>> /\ UNCHANGED <<drawn, panicked>>
    BY <1>8 DEF dvars
  <2>2. DelayTypeOK' /\ OnlyAccepted'
    BY <1>0, <2>1 DEF DelayTypeOK, OnlyAccepted, DelayInv
  <2>3. Between' /\ PanicOnlyOnOverflow'
    BY <2>1, DrawKeeps DEF Between, PanicOnlyOnOverflow, DelayInv
  <2> QED
    BY <2>1, <2>2, <2>3, DrawKeeps DEF DelayInv
<1> QED
  BY <1>1, <1>2, <1>3, <1>4, <1>5, <1>6, <1>7, <1>8 DEF DNext

LEMMA AlwaysDelay == DSpec => []DelayInv
  BY InitDelay, StepDelay, PTL DEF DSpec

(***************************************************************************)
(* Theorems                                                                *)
(***************************************************************************)
\* The results of the arithmetic of delays are ints of the width it is done in.
THEOREM DelayTypeCorrect == DSpec => []DelayTypeOK
<1>1. DelayInv => DelayTypeOK
  BY DEF DelayInv
<1> QED
  BY <1>1, AlwaysDelay, PTL

\* A request waits for what was configured: not less than the lower bound, and
\* less than the upper bound unless the two are the same.
THEOREM DrawsWithinBounds == DSpec => []DrawnAsConfigured
<1>1. DelayInv => DrawnAsConfigured
  <2> SUFFICES ASSUME DelayInv, Fits, drawn # None
               PROVE  /\ Exact(setting.lower) <= drawn
                      /\ drawn < Exact(setting.upper) \/ drawn = Exact(setting.lower)
    BY DEF DrawnAsConfigured
  <2>1. verdict = "accepted" /\ min <= drawn /\ (drawn < max \/ drawn = min)
    BY DEF DelayInv, OnlyAccepted, Between
  <2> QED
    BY <2>1, SpanExact DEF DelayInv
<1> QED
  BY <1>1, AlwaysDelay, PTL

\* A draw panics in a request only where a multiplication overflowed.
THEOREM PanicsOnlyOnOverflow == DSpec => []PanicOnlyOnOverflow
<1>1. DelayInv => PanicOnlyOnOverflow
  BY DEF DelayInv
<1> QED
  BY <1>1, AlwaysDelay, PTL

\* The unit of delays keeps the order of numbers.
LEMMA Monotone ==
    ASSUME NEW a \in Int, NEW b \in Int, NEW u \in Nat \ {0}
    PROVE  a <= b <=> a * u <= b * u
  OBVIOUS

\* As long as the numbers fit, a delay is accepted if and only if it is
\* configured, not negative and in order.
THEOREM AcceptsExactly == DSpec => []AcceptedExactly
<1>1. DelayInv => AcceptedExactly
  <2> SUFFICES ASSUME DelayInv, Fits, verdict # "none"
               PROVE  (verdict = "accepted") = (Configured /\ 0 <= setting.lower /\ setting.lower <= setting.upper)
    BY DEF AcceptedExactly
  <2>1. CASE ~Configured
    BY <2>1 DEF DelayInv, Converted
  <2>2. CASE Configured
    <3>1. /\ setting.lower \in Int /\ setting.upper \in Int
          /\ Convert(setting.lower) = Exact(setting.lower)
          /\ Convert(setting.upper) = Exact(setting.upper)
      BY <2>2, RawNumbers DEF DelayInv, Ints
    <3>2. setting.lower <= setting.upper <=> Exact(setting.lower) <= Exact(setting.upper)
      BY <3>1, Monotone, DelayAssumption DEF Exact
    <3>3. Exact(setting.lower) \in Int /\ Exact(setting.upper) \in Int
      BY <2>2, RawNumbers DEF DelayInv
    <3>4. CASE verdict = "accepted"
      BY <2>2, <3>1, <3>2, <3>3, <3>4 DEF DelayInv, Converted
    <3>5. CASE verdict = "rejected"
      BY <2>2, <3>1, <3>2, <3>3, <3>5 DEF DelayInv, Rejected
    <3> QED
      BY <3>4, <3>5 DEF DelayInv, DelayTypeOK
  <2> QED
    BY <2>1, <2>2
<1> QED
  BY <1>1, AlwaysDelay, PTL
=============================================================================
