# GoMock in TLA+

GoMock is an HTTP mock server: it loads mapping files once, serves the configured response of the
mapping that matches a request, and exposes Prometheus metrics. This directory holds TLA+ modules of
its concurrent core and of the sequential parts around it, the TLC configurations that check them, and theorems about them that TLAPS checks.
Paths below are relative to the repository.

    tlc -config MCTraffic.cfg MCTraffic.tla        # a run
    tlapm HandlerProofs.tla                        # a proof

## 1. Inventory

| Component | Source | State it keeps | Operations | Modelled in |
|---|---|---|---|---|
| Process | `cmd/gomock/main.go`, `internal/app/app.go` | signal context, group context, the channel of results, `firstErr` | `run`, `Application.Run`, `runServers`, `waitForServers` | `Lifecycle` |
| HTTP server | `internal/server/http_server.go` | `errorsChan` of a server, `net/http` shutdown state | `Run`, `listen`, `shutdown` | `Lifecycle` |
| HTTP handler | `internal/server/handler.go` | per request: `requestMetricState`, the request context | `ServeHTTP`, `handleStub`, `dispatchStub`, `serveMatched`, `finishRequest` | `Handler` |
| Stub service | `internal/domain/stub/service.go` | selectors, built once | `Match`, `selectResponse` | `Handler` |
| Selectors | `internal/domain/selector` | `next` or a `math/rand` generator, behind a mutex | `Select` | `Selector` |
| Delay calculator | `internal/domain/delay` | a generator behind a mutex | `Duration` | `Delay`, `Handler` (the wait) |
| Metrics | `internal/observability` | a gauge, a counter vector, a histogram vector | `RequestStarted`, `RequestFinished` | `Metrics` |
| Matcher | `internal/domain/matcher` | none (a pure function of mappings and request) | `Select`, `Match`, `matchExactlyValues`, `matchIncludedValues` | `Matching`, `ValueMatch` |
| Regex | `internal/wiremockregex` | none; a timeout of the fallback engine | `Compile`, `MatchString` | data of `Matching` |
| Loader | `internal/configloader` | none outlives it; during the load the mappings so far and the position | `LoadRoot`, builders, validators | `Loader`, `Delay` |
| Resolver | `internal/files` | the root path | `Resolve`, `ReadBodyFile` | a body file is read or not (`Loader`) |
| Templates | `internal/responsetemplate` | none outlives it; the contexts of nested blocks | `RenderResponse` | `Template`; renders, fails or panics (`Handler`) |
| Traffic log | `internal/server/verbose.go` | per request: `requestLogState`, the captured response | `wrap`, `WriteHeader`, `Write`, `log` | `Traffic` |
| Configuration | `internal/app/config.go`, `config_file.go`, flags of `main.go` | none outlives it; the settings so far | `parseFlags`, `configPathFromArgs`, `LoadConfigFile`, `Validate` | `Config`; one step of `Lifecycle` |

**How they interact.** `main` loads the mappings and starts one goroutine per server; each of them starts
a second one that listens. They report over channels to `waitForServers`. `net/http` calls the handler in a
goroutine per connection. The handler asks the stub service for a match, which runs the (pure) matcher and
then one shared selector under its mutex; the handler renders, perhaps waits for a timer or the client's
departure, writes (through a recorder when traffic is logged in full), and a deferred call updates the shared
metrics and then writes the traffic record. Nothing is persisted, so there is no
recovery after a crash to model; the process reads its files once.

**What is hard.** Calls of one selector by many requests, and a panic inside its mutex; three separate metric
updates at the end of a request that may have failed, panicked or been abandoned at any point; a status that is
decided twice; a timer that races a cancelled context; a shutdown that races the start of a listener, or its
failure; the first error of one server and the results of the others; integers that overflow; an order of
mappings that must not depend on the order of files; blocks of templates that nest, shadow and cross; arguments
that are read twice, by two readers. `hazards` in `PROJECT.json` lists each at its line.

**What makes each part correct.** Selectors: exclusive, balanced, drawn by weight. Handler: every request
accounted for exactly once, under what the client was sent, and answered at most once. Process: no error is
lost, nobody still listens at the end, and it does end. Matcher: the selected mapping is determined by
priority, specificity and ID. Loader: all or nothing, in order, the first error named, and nothing accepted
that the selectors or the matcher cannot deal with. Delays: what was configured is what is waited for. Templates:
what nests is rendered to what it means, what does not is refused. Traffic log: one record for each request, which
agrees with the counters, and no body shown as whole that is not. Configuration: flags over file over defaults, and
the file that was asked for.

## 2. Modules

| Module | What it is |
|---|---|
| `Rotation` | Abstract: `N` variants answered in turn, or drawn with a number each, one atomic call at a time. |
| `Selector` | The mutex-level selector. One action per statement of `Select`: `Call`, `Lock`, `Read`, `Advance`, `Draw`, `Store`, `DrawPanics`, `Unlock`. |
| `Metrics` | The vectors of the Prometheus client, as functions from labels to counts. |
| `RequestLedger` | Abstract: a request enters, is labelled, counted, observed, released. |
| `Handler` | The handler with the stub service and metrics. One action per step that can fail or be seen by others. |
| `Traffic` | `Handler` with the traffic log around it: each of its steps as the recorder sees it, and the record at the end. |
| `Supervisor` | Abstract: a group of servers that stops as one. |
| `Lifecycle` | `main.run` to `os.Exit`, with all goroutines and channels. |
| `Matching` | `Select` and `Match`, the loops they are, and `candidate.less`. |
| `ValueMatch` | The loops of `hasExactly` and `includes`. |
| `Delay` | A delay from the numbers in the file to the duration drawn, in integers that wrap around. |
| `Loader` | `LoadRoot`: the files in order, every check of the builder and the validator, the built mappings. |
| `Template` | The renderer as a stack of contexts, and what it is to be well nested. |
| `TemplateMeaning` | What a template with nested blocks means, a recursive function of the place, the variables and `@last`: the reference of `RendersMeaning`. |
| `Config` | The command line, read for the config file and again for the flags, and the settings that result. |
| `MC*` | The instances for TLC. |
| `*Proofs` | The theorems of the module they are named after; `HandlerProofs` has those of `RequestLedger` and `Traffic` too, `LifecycleProofs` those of `Config`, `LoaderProofs` those of `Delay`, `TemplateProofs` those of `TemplateMeaning`. |
| `CountingTheorems` | Facts about least elements, the sizes of finite sets, ranks and sums that several of the proofs need. |

`Traffic` composes `Handler` with the log and implements it. `Handler` uses `Metrics` and takes a `Select` call as one step; `Selector` implements `Rotation`, which is what
justifies that step. Which mapping a request matches is chosen when it arrives, because `Matching` is a pure
function of the loaded mappings and the request. `Loader` ends with the mappings that `Selector`, `Matching` and
`Handler` start from: `LoadedServable` is what the first assumes of modes and weights, `LoadedUnderstood` what
the second assumes of operators. `Delay` says when the draw panics that `Handler` only allows for, and `Template`
when a rendering fails. `Config` is the first step of `Lifecycle`. `Lifecycle` sees a connection only as busy or not,
which is all that `Shutdown` sees of it.

### State and actions against the code

* **`Selector`**: `holder` is `mu`, `next` the cursor, `seen[t]` the local `response`, `answered` and `panicked`
  are counts of what the callers got. `weight` and `Cumulative` are the weighted selector's table; `Wrap` adds
  in an int whose largest value is `MaxInt`. `Draw` is any number below the bound, which is what callers of a generator may
  rely on. A `math/rand` generator is only as good as its state is, and is not safe for concurrent use: `Draw` reads that
  state (`source`, into `took[t]`) and `Store` puts the next one in its place, so two calls at once could be answered
  from one state. `Unlock` is the deferred call together with the return.
* **`Handler`**: `state[r]` is `requestMetricState`, `wire[r]` the status on the wire, `gone` the clients whose
  context is cancelled. `ReadBody*`, `Unmatched`, `SelectFails`, `SelectPanics`, `Matched` are the branches of
  `dispatchStub`; `Render*` (`RenderPanics` is `randomInt` over a range that overflows), `DelayPanics`, `TimerFires`, `DelayCancelled`, `WriteResponse` those of
  `serveMatched`; `CountRequest`, `ObserveLatency`, `LeaveFlight` the three statements of `RequestFinished`.
  A panic goes to the same accounting as a return because `finishRequest` is deferred; `net/http` recovers it
  and drops the connection. `SelectFails` is the error path of a selector that could not be built: the loader
  rejects such a mapping, but a `Service` built from other mappings takes it. `/metrics` on the main server is
  `ServeMetrics` when the metrics handler is mounted there and a stub request otherwise. `variantName` is the label of an
  answer: a single response goes by "default", whatever its name in the file.
* **`Lifecycle`**: `errs[s]` is the `errorsChan` of a server, `queue` the one of the group (the servers whose
  result is in it), `result[s]` what `Run` returns. `select` with both cases ready takes either. What `net/http`
  does is external: it refuses to listen after `Shutdown`, `Shutdown` waits for the accept loop and then polls.
  A listener's certificate is loaded after the address was bound, and fails like a bind.
* **`Matching`**: `at` and `step` are the two loop counters, `score` is `matchContext.score`, `candidates` and
  `unmatched` the two slices. The checks of a mapping come in the order of `match`, absent ones left out. IDs are
  numbers because only their order is used. `First` is what a stable sort puts first. `Exactness` orders the kinds of URL
  checks as the constants of `matcher.go` do, and serves the assumption and the properties.
* **`ValueMatch`**: a nested matcher is the set of values it accepts; `used` is the slice of marks.
* **`Traffic`**: `recorder[r]` is the `responseLogRecorder` of a request (the status, how much of the body is held, how
  much was seen), `read` the requests whose model is in their `requestLogState`, `probe` those whose path is never
  logged. A body is the widths of its runes and the place where a sensitive name ends in it. `Begin`, `KeepBody`,
  `Answer` and `Unseen` are all the steps of `Handler`, with the write that goes through the recorder; `Log` is the end
  of `finishRequest`, after `RequestFinished`. In summary mode the record has no bodies, and the properties look at
  none.
* **`Template`**: a frame is a call of `renderString`: its part of the template, its context, and, in the body of an
  each, the items left. `Each` and `Unless` push one, `NextItem` is the loop of `renderItems`, `BlockEnds` a return;
  `Fails` is every error of `renderAction`. `Depth` and `Ends` are `blockDepth` and `findBlock`, which count actions of
  one name and know nothing of the other. A template is a sequence of texts and actions, one body or one header;
  what a helper returns is a value of its expression.
* **`Config`**: `path` is the result of `configPathFromArgs` (`Scan*`), `config` the settings, as texts. `Load` puts
  what the file mentions over the defaults; `Parse*` is the flag package, external, as its documentation and
  the code of `newFlagSet` use it; `flags` is what it set. `Validate` is the end of `parseFlags` and the check in `app.New`;
  `-version` comes before it. `Valid` accepts a set of values for each setting, and the files of TLS only when it is on.
  Texts are taken up to spelling: "true" stands for everything `strconv.ParseBool` reads as true.
* **`Delay`**: `setting` is what the file has for a response, `type`, `min`, `max` the fields of `mapping.Delay` (a fixed
  delay has its `Value` in both), `Half` half the range of `int` and of `time.Duration`. Each builder of a delay is
  an action with the checks it makes; `Certain` and `randomDuration` are the ways through `Duration` that
  return, `Int63nPanics` the one that does not. A duration string is the number it parses to, or `None`.
* **`Loader`**: `file` and `index` are the positions of the two loops, `items` the slice of `buildMappingArray`,
  `mappings` that of `LoadRoot`. A file without an array is a file with one item, and its errors do not name the
  item. A raw mapping has what the checks look at: the set of URL fields that are not empty, the names in a
  matcher's map, whether a regex compiles, a duration is accepted or a body file can be read. The checks are
  operators that give the wrong fields in the order of the code; the first is the error. `BuildItem` is an item
  that passes, `ItemFails` one that does not. `buildMatcher` takes any name of the map, as its iteration may, and
  the choice is made before the map is validated. An unknown field is an outcome of decoding; in strict mode it
  is an error.

Definitions marked `\* Fault:` are planted bugs: each replaces the definition it precedes in one check of the
project, and the property named with it in `PROJECT.json` must then fail.

## 3. Runs

| Run | Bounds | What it shows |
|---|---|---|
| `selector` | 3 goroutines, 3 variants, weights 1, 2, 4 in a 4-bit int, 4 calls | safety of the three modes, the refinement of `Rotation` (turns, and a number of its own for each draw), `EveryCallEnds`; 4 calls are a round and a call of the next, and the weights both fit (sum at most 7) and overflow |
| `handler` | 2 requests; a sequential, a random, a delayed, an overflowing and a broken mapping; log off and full, a limit of 4 bytes, bodies shorter, longer, of wide runes, with a sensitive name kept or cut | accounting, truthfulness, one answer, the ledger, the records, `EveryRequestFinishes` |
| `lifecycle` | 2 servers, at most 2 busy connections each | safety, the refinement of `Supervisor`, `SignalStops`, `FailureStops` |
| `matching` | up to 3 mappings, 2 priorities, 2 IDs (so also equal ones), 11 requests, one with a template of 39 static segments | the selection, against its declarative definition; that more checks, or a more exact URL and no less else, do not lose |
| `value_match` | up to 3 nested matchers, any subsets of 3 values | `hasExactly` is sound, and complete where the nested matchers do not partly overlap |
| `value_match_greedy` | the same | expected to fail: `hasExactly` is not complete in general |
| `loader` | two mapping files and one with another extension; all pairs of 75 entries (absent, a directory, undecodable, good, wrong in one field; single or an array of up to three) | the first error is the one reported, all is loaded in order, and what is loaded can be served |
| `delay` | ints of 8 bits, 10 ns to a millisecond, 12 numbers at the edges | what is accepted, drawn, and panics |
| `delay_overflow` | the same | expected to fail: an accepted delay can be negative |
| `template` | every sequence of up to 4 of 10 tokens; every pair of blocks, nested, following or crossed, with at most one leaf in each place; lists of none, one and two items, one nested; `Values` is what these can be, with their items | nested templates are rendered to their meaning, others are refused |
| `config` | command lines of up to 4 of 15 arguments; 8 settings of all types; two config files and paths that are none | `Precedence`, `ScanAgrees` |
| `verbose_limit` | those of `handler` | expected to fail: more bytes are logged than the limit |

The bounds are enough for the cases that matter: two requests already give every interleaving of two metric
updates and every pair of ends of a request; one more goroutine than the mutex admits is two, and a third one
makes the waiters compete; the application never starts more than two servers; a busy bound of one already
blocks a shutdown. Two requests of the mapping with two variants are a whole round, also one whose first
answer failed or was cancelled. Two levels of blocks are what it takes to shadow a name, to lose `@last`, and to cross.
Four arguments are two flags with their values, or two config flags. Two files show which error is first and which mappings come first, and an array whose third
item is wrong shows items that were built for nothing. In 8 bits a product wraps once and twice, to a negative
and to a positive number. Deadlock checking is off where the behaviour ends by itself (the bounded calls are used up,
the process has exited, the loop is over); the liveness properties show that it does not stop earlier.

**Fairness.** `Selector`: a goroutine in the critical section goes on (weak); `Lock` is strong, because
`sync.Mutex` passes the lock to a waiter that has starved for a millisecond. `Handler`: goroutines run and
timers fire (weak); a body need never arrive, but reading from a closed connection returns. `Lifecycle`:
goroutines run, `net.Listen` returns and the shutdown timer fires (weak); nothing is assumed of clients, of the
length of requests, of signals or of failures.

**A limit of the score.** The points of a template grow with its segments, by five for a static one. Forty static segments
have the 900 points of an exact path, and from there on the template wins over the path. Nothing in the repository says otherwise, so
this is no finding; `MoreSpecificWins` names the limit (`LongTemplate`) and holds up to it.

**Findings.** (1) `hasExactly` deals values out greedily, so with overlapping nested matchers the answer depends on
their order (`value_match_greedy`). (2) A number of milliseconds is checked to be non-negative before it is multiplied,
so a large one becomes a negative delay, which does not delay (`delay_overflow`). (3) The limit of logged bodies is
described in bytes, and request bodies are cut at that many runes (`verbose_limit`); the mark of truncation compares
bytes, so such a body is shown whole and marked.

Observations without a run, because no text in the repository says otherwise: `main.run` calls every error of
`Application.Run` a failed start-up, a shutdown that timed out too (`main.go:46`). On command lines outside
`Plain`, the scan and the flag package disagree on the config file: `gomock foo -config x` and `gomock -root -config x` load
`x`, which the flag package does not take for one, and `gomock -root -- -config x` does not load it.

## 4. Proofs

Every theorem is for all values of the constants, under the module's named assumption.

* **`SelectorProofs`** (`SelectorAssumption`: at least one variant, positive weights). `TypeOK` and `Exclusive`
  are inductive together. `Balanced` is not: it forgets the cursor. The invariant `IInv` adds where the cursor is
  during a call (`CursorKnown`) and that the answers are whole rounds and a part of one that ends at the variant
  whose call takes effect next (`WholeRounds`). The same facts, with what a
  drawing call took from the generator (`GeneratorKnown`), give the refinement `ImplementsRotation`: only `Unlock` is
  a step of `Rotation`. For the weighted mode, a number below the total is in the share of exactly one
  variant, whose size is its weight (`CumulativeExact`, `IndexExact`), as long as no sum wrapped (`NoWrap`): that is
  `WeightedShareAlways`. The bound of a draw is positive then (`BoundPositive`), so a panic means an overflow
  (`PanicOnlyOnOverflowAlways`).
* **`CountingTheorems`**: what the sums of the models do. A fold over a finite set is a recursive function of its
  subsets (`TableExists`, `TablesAgree`), so a sum over a set with one more element, over a smaller set or over
  other names of the same elements is known (`SumAny`, `SumSubset`, `SumImage`, `SumOfParts`). The prover has no induction
  over data; these proofs look at a smallest counterexample instead. A finite set of numbers has one member of each rank
  up to its size, in order (`RankFacts`).
* **`HandlerProofs`** (`HandlerAssumption`). `IInv` adds to types and `TruthfulStatus` that a request in service
  has a mapping and a variant, and that nothing was sent before the end. With it every step is a step of the
  ledger or a stutter (`ImplementsLedger`), and `AccountingExact` (`InFlightExact` and `CountedOnce`) follows from
  the theorem about the ledger. `AnsweredOnce` is a fact about each step. `NothingIsDropped` needs the excuse of a
  request to be known from the step that takes it out of service without an answer to its end (`Excused`).
  The ledger itself keeps the three metrics exact for a finite set of requests (`LedgerAlwaysExact`), by an induction
  over its steps in which the cardinalities of the counted and observed sets move with the vectors.
  `RotationAlwaysInMetrics` follows turns: a sequential mapping has given `k + 1` of them to the variants before its cursor and `k`
  to the others (`TurnsTaken`), a turn stays in the label of its request (`Labelled`), and the labels of the
  requests that ended are what the metrics count (`TurnsCounted`).
  With the traffic log (`TrafficAssumption`) every step is a step of the handler or a stutter
  (`ImplementsHandler`), so every theorem about the handler holds under the log. `TheLogAgrees` uses the
  handler's invariant and three facts: what the recorder saw is the label from the answer on, and a label does not
  change any more (`Recorded`), a record repeats them (`Logged`), and there is one for each request that returned
  (`LoggedOnce`). `BodiesLoggedTruly` knows what a recorder holds of what was written (`RecorderInv`), what an entry has of
  that (`EntryInv`), and that a rune has at least a byte (`RunesHaveBytes`).
* **`ValueMatchProofs`** (`ValueMatchAssumption`). The invariant gives a way of dealing to the matchers so far that uses up
  exactly the marked values (`Given`): at the end it is the witness of `YesIsSound`. For `NoIsRightWithoutOverlap`, a
  matcher without a free value is one whose values all went to equal matchers before it (`NoneLeft`), so by the
  pigeonhole principle no dealing exists. `IncludesIsExact` needs only that every matcher so far accepts a value.
* **`MatchingProofs`** (`MatchingAssumption`). The invariant says that the score is that of the checks so far (`ScoreSoFar`)
  and that the candidates are the mappings so far that match, each with its full score (`CandidatesSound`,
  `CandidatesComplete`): `CandidatesExactAlways`. The order of candidates is total up to equal keys, so a least one
  exists (`SomeFirst`) and is what `BestFacts` says, whatever the order of the mappings (`DeterministicAlways`). A mapping
  with more checks has more points (`MoreChecksMorePoints`). The points of a mapping are those of its URL and a multiple
  of the numbers of its other checks (`SpecificityByKind`), and a more exact URL has more of them (`MoreExactMorePoints`,
  for templates below 40 segments): `MoreSpecificWinsAlways`.
* **`LifecycleProofs`** (`LifecycleAssumption`: finitely many servers). `Coherent` ties the two goroutines of one
  server together; `AllCounted` counts results; `NoErrorLost` keeps an error in the queue or in `firstErr`;
  `Caused` says that a shutdown has a cause. From these follow `NoErrorIsSwallowed`, `ExitsInOrder`
  (`GracefulExit`), and `ImplementsSupervisor`. For `Config` (`ConfigAssumption`), every setting is the flag's, the file's
  or the default, in this order, as far as the parser has come (`Layered`): `PrecedenceAlways`. The scan and the parser
  read the same arguments, each along a route of positions (`Route`); on a plain command line the parser stays
  on the route of the scan (`ParserOnRoute`), so both have the same last config file (`LastGrows`): `ScanAgreesAlways`.
* **`LoaderProofs`** (`LoaderAssumption`: the items of a file are a finite list, a raw matcher has finitely many
  names). The lemmas `RequestFacts` to `MappingFacts` say what is true of an item in which the checks found nothing;
  `ServableBuilt` and `UnderstoodBuilt` what follows for the mapping built from it. `IInv` says that the paths are all
  mapping files in order (`PathsSorted`), that nothing is wrong behind the position (`Scanned`), where each mapping so
  far came from (`Sourced`) and what is known of an error (`Reported`). Four properties of a load follow.
  `MadeUpIDsDiffer` needs that a made-up ID ends in the position of its item (`Identified`), which tells the items of a
  file apart (`IndexTellsApart`); that two numbers have different digits is an assumption about `Itoa`.
  For `Delay` (`DelayAssumption`: any width, any unit), `DelayInv` says that the bounds of an accepted delay are
  the wrapped products, in order, and where a drawn value lies. While the exact products fit, wrapping is
  the identity (`WrapWraps`, `SpanExact`), so draws are exact (`DrawsWithinBounds`), the difference of the bounds
  is positive (`PanicsOnlyOnOverflow`) and the comparison of products is that of the numbers (`AcceptsExactly`).
* **`TemplateProofs`** (`TemplateAssumption`: a template is a finite list of texts and actions; `MeaningAssumption`: the
  values are closed under taking the items of a list, and none is an error). A part of the template is
  walked from one action to the next, over each block (`Walk`); the parts that are ever rendered are the whole and the
  bodies of blocks on the walk of such a part (`Parts`). Both are least sets, so what holds at their start and goes on
  holds of all (`WalkWithin`, `PartsInduction`). The depth that `findBlock` counts changes by one, so the first place
  where it is zero is a closing action of the name, and the same one in every part that holds it (`EndFacts`).
  Two parts are the same, lie apart, or one lies in a block of the other (`PartsRelated`); hence any two blocks
  that may be rendered nest or follow each other (`BlocksNest`), although no step compares the two kinds. `IInv` says
  that each call is on the walk of its part and was made from the call below it (`IsStack`), which gives
  `TypeCorrect`, and that what was looked at are leaves and blocks with their ends (`IsPaired`). For
  `MisnestedRefusedAlways`, those indices are numbered by their ranks (`LookedMatches`), and a list in which
  every opening action has a partner, so that partners nest, is well nested by counting (`PartnerBalances`,
  `MatchedIsNested`).
  `RendersMeaningAlways` is the other direction: in a well nested template the end that `findBlock` counts to is the
  partner in the nesting (`EndIsPartner`), each part that is rendered is whole (`PartsAreWhole`), and so a call meets
  a closing action only behind the end of its part (`WalkedFacts`). The meaning at a place asks for meanings at
  later places only (`MeaningUses`), so it exists and is unique (`MeaningExists`, `MeaningIs`). A call has to write
  the meaning at its place and the bodies of the items it has left (`FrameMeans`), the stack what its calls have,
  the innermost first (`Owes`). The invariant `MInv` says that what was written, followed by what the stack owes,
  is the meaning of the template, that all variables and items are values (`InContext`), and that what was written has
  no error. Each step moves something from one side to the other (`OwesGoingOn`) or from a call into a new one
  (`OwesCalling`); behind the end of its part a call owes its items, one by one (`ItemMeans`).

Every invariant and every action property of the passing runs is proved. Only model-checked is liveness (`EveryCallEnds`,
`EveryRequestFinishes`, `SignalStops`, `FailureStops`), which is out of the prover's reach. The three properties that do
not hold have their counterexamples from TLC.

## 5. Not modelled, and the plan

Left out for good: formats of logs, decoding of JSON and YAML, what one regex, JSONPath or XPath says
of one value (libraries), the redaction of headers and queries (functions of one text), the containment of body files
(`internal/files`: a comparison of texts, whose outcome `Loader` has), build information metrics, the performance test.

What could be added:

1. Mappings that share an ID, which `Loader` accepts: each has its own selector, but they share labels in the metrics,
   so `RotationInMetrics` is about mappings and variants that are apart.
2. `PathTemplate`, the matching of a path by its segments, and the value operators.
3. Regex timeouts: the fallback engine gives up after 100 ms, so what `Matching` takes as data may differ between two
   equal requests.
4. The tokenizer of template expressions, whose quotes escape, against `matchingParen`, whose quotes do not.
