------------------------------ MODULE MCLoader ------------------------------
(* Mapping files that differ from a good one in one thing at a time. *)
EXTENDS Loader

MCNames == <<[base |-> <<"a", "0">>, supported |-> TRUE],
             [base |-> <<"a">>, supported |-> TRUE],
             [base |-> <<"b">>, supported |-> FALSE]>>

MCItoa == [n \in 0 .. 9 |-> ToString(n)]

Op(place, names) ==
    [place |-> place, names |-> names, caseInsensitive |-> "absent", valid |-> TRUE,
     nested |-> {}]
HasExactly(names) ==
    [Op("headers", {"hasExactly"}) EXCEPT
        !.nested = {[names |-> names, caseInsensitive |-> "absent", valid |-> TRUE]}]

Request == [urls |-> {"urlPath"}, urlValid |-> TRUE, auths |-> {}, matchers |-> {}]
Asking(matchers) == [Request EXCEPT !.matchers = matchers]

Requests == {
    Nil, Request,
    [Request EXCEPT !.urls = {}],
    [Request EXCEPT !.urls = {"url", "urlPath"}],
    [Request EXCEPT !.urls = {"urlPattern"}, !.urlValid = FALSE],
    [Request EXCEPT !.auths = {"basicAuth", "basicAuthCredentials"}],
    Asking({Op("pathParameters", {"equalTo"})}),
    [Asking({Op("pathParameters", {"absent"})}) EXCEPT !.urls = {"urlPathTemplate"}],
    Asking({Op("headers", {"equalTo", "contains"}), Op("cookies", {"absent"})}),
    Asking({Op("headers", {}), Op("queryParameters", {"matchesXPath"})}),
    Asking({Op("bodyPatterns", {"absent"})}),
    Asking({Op("bodyPatterns", {"matchesJsonPath"}), Op("queryParameters", {"includes"})}),
    Asking({[Op("headers", {"matches"}) EXCEPT !.valid = FALSE]}),
    Asking({[Op("headers", {"matches"}) EXCEPT !.caseInsensitive = "true"]}),
    Asking({[Op("headers", {"contains"}) EXCEPT !.caseInsensitive = "true"]}),
    Asking({[Op("headers", {"contains"}) EXCEPT !.caseInsensitive = "a number"]}),
    Asking({HasExactly({"equalTo"})}), Asking({HasExactly({"absent"})})}

Response == [name |-> <<>>, status |-> 200, weight |-> 0, bodies |-> {"body"},
             bodyValid |-> TRUE, delays |-> {}, delayValid |-> TRUE]

Responses == {
    [Response EXCEPT !.status = Nil], [Response EXCEPT !.status = 99],
    [Response EXCEPT !.status = 600],
    [Response EXCEPT !.bodies = {"body", "bodyFileName"}],
    [Response EXCEPT !.bodies = {"bodyFileName"}, !.bodyValid = FALSE],
    [Response EXCEPT !.delays = {"delay", "delayDistribution"}],
    [Response EXCEPT !.delays = {"delay"}, !.delayValid = FALSE]}

Set(mode, list) == [mode |-> mode, variants |-> list]

ResponseSets == {
    Set("sequential", <<>>), Set("rotate", <<Response>>),
    Set("random", <<Response, [Response EXCEPT !.name = <<"error">>]>>),
    Set("weighted", <<[Response EXCEPT !.weight = 1], Response>>),
    Set("weighted", <<[Response EXCEPT !.weight = 1], [Response EXCEPT !.status = Nil]>>),
    Set("weighted", <<[Response EXCEPT !.weight = 1]>>)}

Mapping == [id |-> Nil, name |-> <<>>, priority |-> Nil, request |-> Request,
            response |-> Response, responses |-> Nil]

Named == [Mapping EXCEPT !.name = <<"list">>]

Mappings ==
         {[Mapping EXCEPT !.request = r] : r \in Requests}
    \cup {[Mapping EXCEPT !.response = r] : r \in Responses}
    \cup {[Mapping EXCEPT !.response = Nil, !.responses = r] : r \in ResponseSets}
    \cup {[Mapping EXCEPT !.response = Nil], [Mapping EXCEPT !.responses = Set("random", <<Response>>)],
          [Mapping EXCEPT !.id = <<"a", "0">>, !.priority = 0]}

Wrong == [Mapping EXCEPT !.request = Nil]

F(array, list) == [kind |-> "file", decodes |-> TRUE, unknown |-> FALSE,
                    array |-> array, items |-> list]

Entries ==
         {[kind |-> "none"], [kind |-> "dir"],
          [F(FALSE, <<Mapping>>) EXCEPT !.decodes = FALSE],
          [F(FALSE, <<Mapping>>) EXCEPT !.unknown = TRUE],
          F(TRUE, <<>>), F(TRUE, <<Named, Named>>), F(TRUE, <<Mapping, Mapping, Wrong>>)}
    \cup {F(FALSE, <<m>>) : m \in Mappings}
    \cup {F(TRUE, <<Named, m>>) : m \in Mappings}

\* A file with another extension is there, with errors in it, or not.
MCDisks == {<<first, second, third>> : first \in Entries, second \in Entries,
               third \in {[kind |-> "none"], F(FALSE, <<Wrong>>)}}
=============================================================================
