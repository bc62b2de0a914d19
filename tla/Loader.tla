------------------------------- MODULE Loader -------------------------------
(***************************************************************************)
(* LoadRoot of internal/configloader: the mapping files of a directory are *)
(* read in the order of their names, and every mapping in them is checked  *)
(* and built.  The first error of all stops the load, and then nothing is  *)
(* loaded.                                                                 *)
(*                                                                         *)
(* A raw mapping is reduced to what the checks ask of it.  An ID is the    *)
(* sequence of words that dashes join: "a-0-list" is <<"a", "0", "list">>. *)
(***************************************************************************)
EXTENDS Integers, FiniteSets, Sequences, SequencesExt

CONSTANTS
    Names,          \* the entries of mappings/, sorted: [base, supported] records
    Disks,          \* bound: what the entries may be, by the index of their names
    Strict,         \* NewLoader(strict): reject fields that are not known
    Itoa,           \* Itoa[n]: the digits of n, for every index that is met
    Nil             \* a field that is absent from the file

Operators == {"equalTo", "contains", "matches", "doesNotMatch", "doesNotContain",
              "absent", "hasExactly", "includes", "matchesJsonPath", "matchesXPath"}

\* The maps of named matchers in the order they are validated.
NamedPlaces == <<"headers", "queryParameters", "cookies", "pathParameters">>

Places == {"headers", "queryParameters", "cookies", "pathParameters", "bodyPatterns"}

\* What an error may be about.
Fields == Places \cup {"mappings", "file", "request", "url", "basicAuth", "response",
                      "mode", "variants", "status", "body", "delay", "weight"}

Errors == [path : Nat, item : Nat, field : Fields]

\* A raw mapping as decoded: the words of its name, maps of matchers, a list
\* of variants.
Decoded(raw) ==
    /\ raw.name \in Seq(STRING)
    /\ raw.request # Nil => \A m \in raw.request.matchers :
          /\ m.place \in Places /\ IsFiniteSet(m.names)
          /\ \A nested \in m.nested : IsFiniteSet(nested.names)
    /\ raw.responses # Nil /\ raw.responses.variants # <<>> =>
          /\ DOMAIN raw.responses.variants \subseteq Nat
          /\ \A i \in DOMAIN raw.responses.variants : i - 1 \in DOMAIN Itoa
          /\ 1 \in DOMAIN raw.responses.variants

ASSUME LoaderAssumption ==
    /\ Len(Names) \in Nat /\ DOMAIN Names = 1 .. Len(Names)
    /\ Strict \in BOOLEAN
    /\ Nil \notin Errors
    /\ \A n \in DOMAIN Names : Names[n].base \in Seq(STRING)
    /\ \A i, j \in DOMAIN Itoa : Itoa[i] \in STRING /\ (Itoa[i] = Itoa[j] => i = j)
    /\ \A d \in Disks : \A n \in DOMAIN Names :
          d[n].kind = "file" =>
              /\ Len(d[n].items) \in Nat /\ DOMAIN d[n].items = 1 .. Len(d[n].items)
              /\ \A i \in DOMAIN d[n].items : Decoded(d[n].items[i]) /\ i - 1 \in DOMAIN Itoa
              /\ ~d[n].array => Len(d[n].items) = 1

VARIABLES
    disk,           \* the entries, by the index of their names
    paths,          \* the names of the mapping files, sorted
    file,           \* the index of the file LoadRoot is at, 0 before ReadDir
    index,          \* the index of the item it is at, from 1; 0 before decoding
    items,          \* the mappings built from this file
    mappings,       \* the mappings of the files before it; what is returned
    error,          \* the error returned, or Nil
    done            \* LoadRoot has returned

vars == <<disk, paths, file, index, items, mappings, error, done>>

File == disk[paths[file]]
Raw == File.items[index]

(***************************************************************************)
(* Checks: the fields that are wrong, in the order they are looked at; the *)
(* first of them is the one reported.                                      *)
(***************************************************************************)
Fail(ok, field) == IF ok THEN <<>> ELSE <<field>>

\* supportsCaseInsensitive
IgnoresCase == {"equalTo", "contains", "doesNotContain"}

\* validateOperatorValue: a regex or an XPath must compile, a list be a list.
Parsed == {"hasExactly", "includes", "matches", "doesNotMatch", "matchesXPath"}

nestedValueOperators == {"equalTo", "contains", "matches", "doesNotMatch", "doesNotContain"}
pathParameterOperators == nestedValueOperators \cup {"absent"}
headerQueryOperators == pathParameterOperators \cup {"hasExactly", "includes"}
bodyOperators == nestedValueOperators \cup {"matchesJsonPath", "matchesXPath"}

Allowed(place) ==
    CASE place = "bodyPatterns"   -> bodyOperators
      [] place = "pathParameters" -> pathParameterOperators
      [] OTHER                    -> headerQueryOperators

\* Fault: an operator too many is accepted.
validateOperatorLoosely(raw, allowed) ==
    /\ raw.names # {} /\ raw.names \subseteq allowed
    /\ raw.caseInsensitive # "absent" =>
          raw.caseInsensitive \in {"true", "false"} /\ raw.names \subseteq IgnoresCase
    /\ raw.names \subseteq Parsed => raw.valid

\* One operator, of those allowed, with a value that fits it.
validateOperator(raw, allowed) ==
    /\ Cardinality(raw.names) = 1
    /\ raw.names \subseteq allowed
    /\ raw.caseInsensitive # "absent" =>
          raw.caseInsensitive \in {"true", "false"} /\ raw.names \subseteq IgnoresCase
    /\ raw.names \subseteq Parsed => raw.valid

validateMatcher(raw, allowed) ==
    /\ validateOperator(raw, allowed)
    /\ raw.names \subseteq {"hasExactly", "includes"} =>
          \A nested \in raw.nested : validateOperator(nested, nestedValueOperators)

\* urlMatcher: one URL, which compiles or has well-formed, distinct segments.
URLErrors(raw) ==
    Fail(Cardinality(raw.urls) = 1, "url")
    \o Fail(raw.urls \subseteq {"urlPathPattern", "urlPattern", "urlPathTemplate"}
               => raw.urlValid, "url")

\* urlMatcher and validateRequestOperators
RequestErrors(raw) ==
    LET place(p) == Fail(\A m \in raw.matchers : m.place = p => validateMatcher(m, Allowed(p)), p)
    IN  IF raw = Nil THEN <<"request">>
        ELSE URLErrors(raw)
          \o Fail(Cardinality(raw.auths) < 2, "basicAuth")
          \o Fail((\E m \in raw.matchers : m.place = "pathParameters")
                     => "urlPathTemplate" \in raw.urls, "pathParameters")
          \o place(NamedPlaces[1]) \o place(NamedPlaces[2])
          \o place(NamedPlaces[3]) \o place(NamedPlaces[4])
          \o place("bodyPatterns")

\* validateResponseShape, buildResponseDelay, decodeBase64Body, loadBodyFile
ResponseErrors(raw) ==
    IF raw.status = Nil THEN <<"status">>
    ELSE Fail(raw.status \in 100 .. 599, "status")
      \o Fail(Cardinality(raw.bodies) < 2, "body")
      \o Fail(Cardinality(raw.delays) < 2 /\ raw.delayValid, "delay")
      \o Fail(raw.bodyValid, "body")    \* the base64 decodes, the file can be read

\* Fault: a weight of zero will do.
VariantErrorsZero(mode, raw) ==
    ResponseErrors(raw) \o Fail(mode = "weighted" => raw.weight >= 0, "weight")

VariantErrors(mode, raw) ==
    ResponseErrors(raw) \o Fail(mode = "weighted" => raw.weight > 0, "weight")

\* responseMode and buildVariants, which stops at the first wrong variant.
ResponseSetErrors(raw) ==
    LET errors(i) == VariantErrors(raw.mode, raw.variants[i])
        bad       == {i \in DOMAIN raw.variants : errors(i) # <<>>}
    IN  Fail(raw.mode \in {"sequential", "random", "weighted"}, "mode")
     \o Fail(raw.variants # <<>>, "variants")
     \o IF bad = {} THEN <<>> ELSE errors(Min(bad))

\* buildRequest and attachResponses
MappingErrors(raw) ==
    RequestErrors(raw.request)
    \o IF (raw.response = Nil) = (raw.responses = Nil) THEN <<"response">>
       ELSE IF raw.response # Nil THEN ResponseErrors(raw.response)
       ELSE ResponseSetErrors(raw.responses)

(***************************************************************************)
(* Building                                                                *)
(***************************************************************************)
\* A raw operator is a map; the builder takes the first name its iteration
\* meets, which may be any, and does so before the operator is validated.
buildMatcher(raw) ==
    {[of |-> raw, operator |-> name, caseInsensitive |-> raw.caseInsensitive = "true",
      nested |-> IF name \in {"hasExactly", "includes"} THEN raw.nested ELSE {}]
        : name \in raw.names}

\* Fault: a name stands in for the index.
mappingArrayItemIDNamed(base, i, name) ==
    base \o (IF name = <<>> THEN <<Itoa[i - 1]>> ELSE name)

\* The slug of a name is its words.
mappingArrayItemID(base, i, name) == base \o <<Itoa[i - 1]>> \o name

mappingID ==
    IF Raw.id # Nil THEN Raw.id
    ELSE IF File.array THEN mappingArrayItemID(Names[paths[file]].base, index, Raw.name)
    ELSE Names[paths[file]].base

variant(raw, i) ==
    [name |-> IF raw.name = <<>> THEN <<"variant", Itoa[i - 1]>> ELSE raw.name,
     weight |-> raw.weight, status |-> raw.status]

\* A mapping with one response, or with a set of them.
buildMapping(matchers) ==
    [source   |-> <<paths[file], index>>,
     id       |-> mappingID,
     priority |-> IF Raw.priority = Nil THEN 5 ELSE Raw.priority,
     url      |-> CHOOSE kind \in Raw.request.urls : TRUE,
     auth     |-> Raw.request.auths # {},
     matchers |-> matchers,
     mode     |-> IF Raw.response # Nil THEN "single" ELSE Raw.responses.mode,
     variants |-> IF Raw.response # Nil
                  THEN <<[name |-> <<"default">>, weight |-> Raw.response.weight,
                          status |-> Raw.response.status]>>
                  ELSE [i \in DOMAIN Raw.responses.variants |->
                          variant(Raw.responses.variants[i], i)]]

(***************************************************************************)
(* LoadRoot                                                                *)
(***************************************************************************)
Init ==
    /\ disk \in Disks
    /\ paths = <<>> /\ file = 0 /\ index = 0
    /\ items = <<>> /\ mappings = <<>>
    /\ error = Nil /\ done = FALSE

\* return nil, err
Return(path, item, field) ==
    /\ error' = [path |-> path, item |-> item, field |-> field]
    /\ mappings' = <<>>
    /\ done' = TRUE

mappingFilesFails ==
    /\ ~done /\ file = 0
    /\ Return(0, 0, "mappings")
    /\ UNCHANGED <<disk, paths, file, index, items>>

MappingFile(n) == disk[n].kind = "file" /\ Names[n].supported

Increasing(s) == \A i, j \in DOMAIN s : i < j => s[i] < s[j]

\* supportedMappingFiles, sorted
mappingFiles ==
    /\ ~done /\ file = 0
    /\ \E n \in 0 .. Len(Names) : \E sorted \in [1 .. n -> DOMAIN Names] :
          /\ Range(sorted) = {k \in DOMAIN Names : MappingFile(k)}
          /\ Increasing(sorted)
          /\ paths' = sorted
    /\ file' = 1
    /\ UNCHANGED <<disk, index, items, mappings, error, done>>

Opening == ~done /\ file \in DOMAIN paths /\ index = 0

Decodes(f) == f.decodes /\ (Strict => ~f.unknown)

\* Fault: a file that cannot be decoded is passed over.
loadFileSkips ==
    /\ Opening /\ ~Decodes(File)
    /\ file' = file + 1
    /\ UNCHANGED <<disk, paths, index, items, mappings, error, done>>

loadFileFails ==
    /\ Opening /\ ~Decodes(File)
    /\ Return(paths[file], 0, "file")
    /\ UNCHANGED <<disk, paths, file, index, items>>

loadFile ==
    /\ Opening /\ Decodes(File)
    /\ index' = 1 /\ items' = <<>>
    /\ UNCHANGED <<disk, paths, file, mappings, error, done>>

Building == ~done /\ file \in DOMAIN paths /\ index \in DOMAIN File.items

BuildItem ==
    /\ Building /\ MappingErrors(Raw) = <<>>
    /\ \E chosen \in SUBSET UNION {buildMatcher(m) : m \in Raw.request.matchers} :
          /\ \A m \in Raw.request.matchers :
                Cardinality({c \in chosen : c.of = m}) = 1
          /\ items' = Append(items, buildMapping(chosen))
    /\ index' = index + 1
    /\ UNCHANGED <<disk, paths, file, mappings, error, done>>

\* Only an error in an array names the item.
ItemFails ==
    /\ Building /\ MappingErrors(Raw) # <<>>
    /\ Return(paths[file], IF File.array THEN index ELSE 0, Head(MappingErrors(Raw)))
    /\ UNCHANGED <<disk, paths, file, index, items>>

\* Fault: an array replaces what was loaded before it.
FileLoadedAnew ==
    /\ ~done /\ file \in DOMAIN paths /\ index = Len(File.items) + 1
    /\ mappings' = IF File.array THEN items ELSE mappings \o items
    /\ file' = file + 1 /\ index' = 0
    /\ UNCHANGED <<disk, paths, items, error, done>>

FileLoaded ==
    /\ ~done /\ file \in DOMAIN paths /\ index = Len(File.items) + 1
    /\ mappings' = mappings \o items
    /\ file' = file + 1 /\ index' = 0
    /\ UNCHANGED <<disk, paths, items, error, done>>

Loaded ==
    /\ ~done /\ file = Len(paths) + 1
    /\ done' = TRUE
    /\ UNCHANGED <<disk, paths, file, index, items, mappings, error>>

Next ==
    \/ mappingFilesFails \/ mappingFiles
    \/ loadFileFails \/ loadFile
    \/ BuildItem \/ ItemFails
    \/ FileLoaded \/ Loaded

Spec == Init /\ [][Next]_vars

(***************************************************************************)
(* Properties                                                              *)
(***************************************************************************)
Modes == {"single", "sequential", "random", "weighted"}

Good(n) == /\ Decodes(disk[n])
           /\ \A i \in DOMAIN disk[n].items : MappingErrors(disk[n].items[i]) = <<>>

\* A load that succeeds has found nothing wrong anywhere.  One that fails
\* returns nothing, and reports the first thing wrong: in the first file by
\* name that has an error, at its first item that has one ("Validation errors
\* include the source file, field, and reason", README.md:359).
FirstErrorWins ==
    done =>
        /\ error = Nil => \A n \in DOMAIN Names : MappingFile(n) => Good(n)
        /\ error # Nil => mappings = <<>>
        /\ error # Nil /\ error.path # 0 =>
              /\ MappingFile(error.path) /\ ~Good(error.path)
              /\ \A n \in 1 .. error.path - 1 : MappingFile(n) => Good(n)
              /\ (error.field = "file") = ~Decodes(disk[error.path])
              /\ error.item # 0 =>
                    /\ MappingErrors(disk[error.path].items[error.item]) # <<>>
                    /\ \A i \in 1 .. error.item - 1 :
                          MappingErrors(disk[error.path].items[i]) = <<>>

Before(a, b) == a[1] < b[1] \/ (a[1] = b[1] /\ a[2] < b[2])

\* What is loaded is every item of every mapping file, once, in the order of
\* the files' names and of the items in them.  (The order decides between
\* mappings with equal IDs, see Matching.)
LoadedExactly ==
    done /\ error = Nil =>
        /\ {m.source : m \in ToSet(mappings)} =
              UNION {{<<n, i>> : i \in DOMAIN disk[n].items} :
                       n \in {k \in DOMAIN Names : MappingFile(k)}}
        /\ \A j, k \in DOMAIN mappings :
              j < k => Before(mappings[j].source, mappings[k].source)

\* The raw mapping a loaded one was built from.
RawOf(m) == disk[m.source[1]].items[m.source[2]]

\* IDs made up for the items of one file differ, whatever the items' names.
GeneratedIDsDiffer ==
    \A j, k \in DOMAIN mappings :
        /\ j # k /\ mappings[j].source[1] = mappings[k].source[1]
        /\ RawOf(mappings[j]).id = Nil /\ RawOf(mappings[k]).id = Nil
        => mappings[j].id # mappings[k].id

\* What newResponseSelector, NewSet and WriteHeader need: a mapping that was
\* loaded never fails to select, the table of weights grows at every variant,
\* and every status is one that can be sent.
Servable(m) ==
    /\ m.mode \in Modes
    /\ m.variants # <<>>
    /\ \A i \in DOMAIN m.variants :
          /\ m.variants[i].status \in 100 .. 599
          /\ m.mode = "weighted" => m.variants[i].weight > 0

LoadedServable == \A k \in DOMAIN mappings : Servable(mappings[k])

\* The operators matchBodyPattern and matchValues have a case for.
Evaluated(place) ==
    IF place = "bodyPatterns" THEN Operators \ {"absent", "hasExactly", "includes"}
    ELSE Operators \ {"matchesJsonPath", "matchesXPath"}

\* The builder keeps one operator of a raw matcher, whichever its map yields
\* first.  A loaded matcher is nevertheless all of what was written, and one
\* that the matcher of requests evaluates in that place, nested ones too.
Understood(m) ==
    \A c \in m.matchers :
        /\ c.of.names = {c.operator}
        /\ c.operator \in Evaluated(c.of.place)
        /\ \A nested \in c.nested :
              Cardinality(nested.names) = 1 /\ nested.names \subseteq Evaluated("nested")

LoadedUnderstood == \A k \in DOMAIN mappings : Understood(mappings[k])
=============================================================================
