----------------------------- MODULE MCMatching -----------------------------
(* Requests of mappings that differ in one thing at a time. *)
EXTENDS Matching

On(kind, holds) == [kind |-> kind, segments |-> 0, static |-> 0, holds |-> holds]
Template(segments, static) ==
    [kind |-> "urlPathTemplate", segments |-> segments, static |-> static, holds |-> TRUE]

MCRequests == {
    <<On("url", TRUE)>>,
    <<On("urlPath", TRUE)>>,
    <<On("method", TRUE), On("urlPath", TRUE)>>,
    <<On("method", TRUE), On("urlPath", TRUE), On("query", TRUE)>>,
    <<On("method", TRUE), On("urlPath", TRUE), On("body", FALSE)>>,
    <<On("urlPath", TRUE), On("header", TRUE), On("body", TRUE)>>,
    <<On("urlPattern", TRUE), On("body", TRUE)>>,
    <<Template(39, 39)>>,
    <<Template(3, 2)>>,
    <<Template(3, 1), On("pathParameter", TRUE), On("basicAuth", TRUE)>>,
    <<On("urlPattern", TRUE), On("header", FALSE)>>}
=============================================================================
