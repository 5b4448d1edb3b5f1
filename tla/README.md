# A TLA+ model of wsauthkit

wsauthkit authenticates WebSocket handshakes with JWTs and, once a connection is
open, re-checks its token and answers authorization questions. This directory
holds TLA+ modules for the parts whose correctness depends on interleavings,
cancellation, time or failure, TLC configurations that check them on small
instances, and proofs that TLAPS checks for every instance.

## Inventory

| Component | Source | State | Operations | Talks to |
|---|---|---|---|---|
| Fan-out batch check | `authorization.go:166-222` | jobs and results channels, wait group, derived context, the map under construction | one call; one `HasRelation` per resource | relation engine, caller's context |
| `AnyAuthorizer`, `ReBACAuthorizer` | `authorization.go:114-303` | the resources still undecided, the map under construction | `Authorize`, `AuthorizeBatch` | child authorizers, the fan-out |
| `RBACAuthorizer` | `authorization.go:60-112, 305-360` | role policies (constant) | `Authorize`, `AuthorizeBatch` | claims |
| Handshake | `auth.go`, `middleware.go` | none of its own | `Authenticate`, `Middleware`, `HandleError`, `Close` | origin validator, extractors, validator, Revoker, `OnAuthResult` |
| `Reverify` | `revocation.go` | ticker, the claims of one connection | a goroutine per connection | clock, Revoker, the connection's context, `onInvalid` |
| Token extraction | `extractor.go` | none | `ExtractToken` of each extractor and of the chain | the HTTP request |
| API Gateway adapter | `apigateway/` | none | `NewAuth`, `ExtractToken`, `Authenticate`, `UnauthorizedResponse`, `Close` | the validator, the connect handler |
| JWT validation | `validator.go` | allowlists, key source | `ValidateToken` | jwt library, JWKS |
| Claims | `claims.go`, `claimmap.go`, `context.go` | a claim map | normalisation, typed readers, `AsMap` | handlers |
| JWKS keys | `auth.go:59-85, 163-183`, `validator.go:127-168` | the key source, a background refresher and its context | `NewAuth`, `Close`, refresh | keyfunc library, identity provider, error handler |
| Origin check | `origin.go` | allowlist | `ValidateOrigin` | the handshake |
| Framework adapters | `adapters/` | none | `Middleware` for gin, echo, fiber | the handshake |
| Test doubles | `wsauthkittest/` | a builder's claims, revoked subjects | `Build`, `Revoke`, ... | consumers' tests |
| Examples, asset script | `examples/`, `scripts/` | - | - | - |

What is hard, and what makes each part correct:

- *Fan-out.* Up to eleven goroutines share two channels, a wait group and a
  context; the collector may return while all others run. Correct: nobody blocks
  on a channel nobody reads, nobody sends on a closed one, everything ends, a nil
  error under a live context answers the whole batch, and the call's own
  `cancel()` is never reported as the failure.
- *Authorizers.* Each child sees what the children before it left open. Correct:
  the batch says what `Authorize` says resource by resource, errors included.
- *Handshake and Reverify.* The clock and the revocation store move between any
  two steps; the store may fail; the connection may close at any moment; a `select`
  may find two cases ready. Correct: no admission and no check passes on an answer
  older than the check; a token that expires or is revoked is dropped within one
  interval; `onInvalid` is called once at most, with the true reason; the goroutine
  ends with its connection.
- *Keys.* The provider rotates, fails and hangs at its own time; construction may fail
  half-way; `Close` cancels and waits for nothing. Correct: one source stands behind an
  `Auth`, retired keys go and new ones come, a failure is reported, and neither `Close` nor
  a failed construction leaves a refresher behind.
- *Extraction, RBAC, origins.* Pure functions with many cases. Correct: two front ends find
  the same token; a permission means what its documentation says; an origin counts in every
  spelling, and no other origin with it; a handler sees the roles a decision was made on.

The hazards behind these, with their lines, are listed in `PROJECT.json`.

## Modules

| Module | What it is |
|---|---|
| `BatchCheck` | the abstract promise of a fan-out: one map or one error, in one step |
| `FanOut` | `fanOutRelationChecks`, one action per step at which a goroutine touches shared state |
| `FanOutInv` | its inductive invariant, shared by TLC and the proofs |
| `OrCheck` | the abstract promise of `AnyAuthorizer.AuthorizeBatch` |
| `AnyBatch` | `AnyAuthorizer.AuthorizeBatch` over all kinds of children; a fan-out child is an instance of `BatchCheck`, a nested batch authorizer one of `OrCheck`, which the module implements |
| `Supervision` | the abstract promise of an `Auth` to one connection: on what token it opens, for what reason it ends |
| `Session` | `Authenticate`, then `Reverify`, for several connections against clock, store and disconnects; implements `Supervision` |
| `Keys` | key sources, `NewAuth`, the JWKS refresher and `Close`, against a provider that rotates and fails |
| `Extraction` | the core's chain, configured or by default, and the API Gateway adapter's extraction, on one request |
| `Rbac` | `RBACAuthorizer`, the role claim and permission matching, `ClaimReader.Strings` on the same claim |
| `Validation` | `ValidateToken` and the normalisation of claims |
| `Adapters` | one handshake, origin check included, through `Middleware` of the core, gin, echo and fiber, and through the API Gateway adapter |
| `FanOutProofs`, `AnyBatchProofs`, `SessionProofs`, `KeysProofs`, `ExtractionProofs`, `RbacProofs`, `ValidationProofs`, `AdaptersProofs` | the inductive invariant of the module each is named after (for `FanOut` it is in `FanOutInv`), and its theorems |
| `MC*` | instances of these for TLC |

`AnyBatch` composes with `FanOut` through `BatchCheck`: `FanOut` is proved to implement
it, and `AnyBatch` takes its steps as those of the child. `AnyBatch` composes with itself
through `OrCheck`: it is proved to implement what it assumes of a nested one, so chains may be
nested to any depth.

### Correspondence

*FanOut.* `Feed` is the rendezvous on the unbuffered `jobs`; `FeederReturns` the end of
the feeder, by exhaustion or `ctx.Done()`, with its deferred `close(jobs)`; `HasRelation`
and `Interrupted` the two ways a call ends; `Send` the send into the buffered
`results`; `WorkerExits` the end of the range and `wg.Done`; `CloseResults` the goroutine
behind `wg.Wait`; `CollectAnswer`, `CollectError` and `ReturnMap` the collecting loop with the
deferred `cancel()`. A context is done when the caller's is or `cancel()` has run. An
engine may ignore the context, heed it, or hang until it is done, call by call.

*AnyBatch.* `child` is the loop's index, `remaining` and `out` the variables of that role
(`results` in the code). An RBAC or bulk child answers in one step, a fan-out
child by a step of `BatchCheck`, an application's authorizer one resource at a time. The
in-place filter of `remaining` is sequential code on a private array once the child has
returned, which `QuietOnSuccess` of `FanOut` guarantees: `remaining` is the set of positions
of the list that are left, and the filter takes positions away, which keeps the order. A child
asked one resource at a time is asked in that order (`asked` is how far it has come).
`Authorize` is an operator: the first child that allows or fails. A `"batch"` child is a
nested `AnyAuthorizer`, or an application's `BatchAuthorizer` that promises the same; it is
asked in one step of `OrCheck`. Its verdict on a resource may be `"torn"`: `Authorize` fails,
yet one of its own children allows, so a map cut short by the context may hold true.

*Session.* `Begin` is `authenticate` up to the Revoker, in the order origin, extraction,
validation; nothing in it blocks. `IsRevoked` takes three steps, the call, the store's
evaluation (`StoreAnswers`) and the return (`HandshakeReturns`, `CheckReturns`), so that
revocation and time fall between them. `TakesDone` and `TakesTick` are the two cases of
the `select`; `Notifies` is `onInvalid`, which cancels the context as the doc comment of
`Reverify` shows. An interval that is not positive becomes 30 s, and without an `Auth`, claims or callback
`Reverify` returns at once: `Interval` is the interval in force, and such a call leaves the state
as it is. `Tick` is the clock and every ticker, whose channel holds one tick.
`OnAuthResult` and the error handler are callbacks that change no state of the library.
The store is up, down (`IsRevoked` fails) or hung: then a call ends only with the
context it is given (`GivesUp`), which is what `Reverify` and `authenticate` pass on and what a
Revoker that heeds its context does; one that ignores it is not modelled. `Disconnect` may come
in the handshake, too. `Supervision` sees of all this a phase per connection, whether its
token was good when the checks in force began, is spent, or could not be checked.
`askedAt`, `faulted` and `lagged` are history variables: when the check in force began, whether
the store was down or the connection gone at some moment of it, and whether the clock has moved
while a goroutine or the store had work.

*Extraction.* A word is known by its prefix, with a blank behind it or not, and by the shape of its
dots and of what stands between them, which is all the code tells apart; letter case and the words themselves are abstracted. The two spellings
of a header name in an API Gateway event are one header. Where the code filters a list
(`splitHeaderList`, nil extractors), the entries left keep their positions: the first is the one
at the least. `Chain` is what `NewAuth` makes of
`Config.Extractors`: nil entries dropped, the default where nothing is left.

*Keys.* `Construct` is `NewJWTValidator` as far as keys go; `ConstructionFails` the `cancel()` on
the library's error, `Constructed` the return of the closer, which `Close` runs. The
refresher (`FirstFetch`, `Fetch`, `Answer`, `Store`, `Fail`, `End`) is the keyfunc library's,
which is not vendored here: it is modelled from what `newKeyFunc` passes to it and what
`Config`'s comments say of it (a first fetch, a context, a refresh interval, a timeout on each
fetch, an error handler called on failure), nothing more. Both outcomes of a construction
with an unreachable provider are allowed. A fetch in flight when the context ends may still
be stored or fail, and a tick that was due may still be taken.

*Rbac.* A string is the sequence of its segments between colons, each with or without
blanks in front; `TrimSpace` takes them off the first one only, so that a half joined untrimmed
keeps its blanks inside the string, where they count. Joining is concatenation, `strings.Cut` is
head and tail. The values of the
role claim are names with or without blanks around them, or no strings; their order and
repetition, which no decision depends on, are left out.

*Validation.* `iss`, `aud` and `exp` stand for the text, audience and date claims, which the code
treats alike. Times are in half seconds, so that a fraction
shows; the jwt library, like the code, cuts a date to the second. A raw claim is its Go type
and its content; a filtered audience keeps each string at its position, for only the order
counts.

*Adapters.* A request has faults, an origin and a token's claims; `Failing` are the checks of
`authenticate` in their order, `Authenticate` the call with its `OnAuthResult`. An origin
is a scheme, a host, whether more follows them (a path, a query, a user), and how it is spelled;
`normalizeOrigin` of a URL keeps scheme and host. Each front end rejects in its own steps:
`HandleError` writes to the writer of net/http or echo and the middleware returns; `HandleErrorOfGin`
writes, `Abort` tells the engine to stop, without which it calls the next handler by itself
(`EngineGoesOn`); `Record` writes to fiber's recorder, `CopyHeader` copies its headers, one
value a step, and `SendString` the body; `Respond` is the response the gateway's connect handler
returns (`examples/apigateway-lambda-oidc/main.go`). What the handler writes is kept in its order,
while Go goes over the keys in any order, and no property depends on it across keys. What has
reached the client is a set of lines, for no property counts equal ones. `RunNext` is the accepting
branch, the same in all of them.

Operators whose comment begins with "Mutant" are plausible errors in the definition that
follows. No specification uses them: put in its place, each breaks the properties that
`PROJECT.json` pairs it with.

## Runs

| Run | Question | Bounds |
|---|---|---|
| `fanout` | every safety property of a call, its inductive invariant, refinement of `BatchCheck`; does every call return, and all of it end; errors, cancellation and return with an engine that hangs until its context is done | two workers; batches of 1 to 3, with repetition; all verdicts |
| `fanout_partial` | does a nil error answer the whole batch (it does not) | two workers; batches of 2 and 3 |
| `anybatch_safety` | agreement of the batch with `Authorize`, refinement of `OrCheck` | all chains of at most 2 children, four of 3; two resources, repetition, the empty list |
| `anybatch_or` | agreement whatever the context does (it fails) | a fan-out child, alone and before RBAC |
| `session` | admission, checks, notices, refinement of `Supervision`; handshakes end, invalid tokens are dropped, within one interval while goroutines keep up, supervision ends | one connection, sound or with two faults; interval 2, leeway 2; clock to 6, then for ever |
| `extraction` | core against adapter, both ways; configured carriers only, each in its turn | every word; lists to three entries; four chains, two with cookies |
| `rbac` | decisions against the documented meaning, and against the roles a handler reads | eight grants in any combination, nine requests, twelve role claims |
| `validation` | what an accepted token names, its known expiry; no rightful token is refused | six allowlists for each of issuer and audience; every kind of claim; clock to 4 s, leeway 1 s |
| `keys` | one source, reported failures, a refresher that follows the provider and ends with `Close` | three keys, two rotations; all 64 combinations of settings |
| `adapters` | one decision in five front ends; who passes; what a rejected client gets | ten origins, four allowlists, eight sets of faults; up to three headers over two keys |
| `origin_exact` | is an origin matched exactly (it is not) | a URL with and without a path, in the request and in the allowlist |
| `fiber_headers` | does the whole response arrive through fiber (it does not) | up to two headers |

Why the bounds are enough. Two workers and up to three resources give batches below,
at and above the worker limit, a worker that takes a second job, and a repeated
resource; the proofs drop the bounds. Two children show every hand-over from one kind
to another; three show a settled resource passing two. Two rotations let a fetch cross one and
the next correct it; the third key tells a retired key from one not yet published. A
connection reads the clock and the store and writes to neither, so what holds of one holds of
each among many, for which the safety properties are proved; expiry and start range
over the whole clock, three intervals long, so every phase of the ticker occurs. The clock saturates at
`Horizon`, where tickers fire at every step, so liveness is not cut off by the bound;
an expiry of `Horizon` stands for one beyond the clock. In `validation` the clock passes every
expiry with its leeway, and the allowlists range over none, an empty string, one value and several.

Fairness. Every goroutine that can run is run (weak fairness per action of a
worker, the feeder, the closer, the collector; per connection for handshake and
Reverify), which is what the Go scheduler gives. `HasRelation` and `IsRevoked` are fair
where the engine or store answers, and an engine that hangs returns once its context is done.
`TakesDone` is strongly fair: with an interval shorter than a check a tick is pending at
every `select`, and only the select's random choice among ready cases ends the loop; with
weak fairness `EndsWithConnection` fails. A store that hangs is not fair: `HandshakeEnds` and
`InvalidIsDropped` assume that it does not hang over and over, `EndsWithConnection` assumes nothing
of it. In `keys` constructor and refresher are fair, and `End`, where the refresher takes notice of
its done context, strongly so: it waits for context and ticker in one select, which chooses at
random. `FollowsProvider` assumes that the provider is up from some time on, `Released` nothing of
it. Nothing in the environment (cancellation, disconnects, revocation, store failures) is fair. `DroppedWithinInterval` speaks of the
executions in which the clock has moved only when no goroutine had work (`~lagged`): it is about
the interval, not about scheduling delays.

Deadlock is not checked where the system is one call, which ends.

## What the runs found

- `fanout_partial`: a context that ends in mid-batch stops the feeder without leaving an
  error anywhere; if the calls under way answer, the call returns a partial map, perhaps
  an empty one, with a nil error (`authorization.go:201, 221`). README.md:376 shows an
  answer for each resource.
- `anybatch_or`: `AnyAuthorizer.AuthorizeBatch` turns the missing entries into a definite
  `false` with a nil error (`authorization.go:289, 298`), where its comment (247-251)
  promises the semantics of `Authorize`. `AgreesWhileLive` shows that this is the only way
  the two part, and `GrantsAreReal` that it never grants anything.
- `origin_exact`: of an origin that is a URL only scheme and host are compared
  (`origin.go:57-62`), on either side; a path, a query, a fragment and a user are dropped, where
  the comment (27-29) says that matching is exact but for letter case and a trailing slash. Browsers
  send none of these in an `Origin` header. `PassesIfRight` shows that an exact match always passes,
  and that nothing passes without a configured scheme and host.
- `fiber_headers`: the fiber adapter copies a header with several values by `c.Set`, which
  replaces, so only the last one reaches the client (`adapters/fiber/fiber.go:38-42`), where
  its comment says the response is the error handler's. `LastValuesArrive` shows that the
  last value always does.

## What is proved

Every safety property of a passing run is a theorem: it holds for every value of the
constants under the named assumption of its module, and TLC evaluates those assumptions in
the runs. Each proof rests on an inductive invariant `IInv`, that of `FanOut` being checked by
the run `fanout`; the others were checked with TLC on the runs' instances while they were
written, and being proved need no run of their own.

`FanOutProofs` holds for every set of resources, every set of non-empty batches, every
engine and every worker limit of at least one (`LimitAssumption`, `BatchesAssumption`;
`AuthorizeBatch` answers the empty list before it fans out).

- `TypeCorrect`: types, a part of `IInv`, which `fanout` checks, too.
- `Invariant`: `Spec => []IInv`. The properties are not inductive. That a worker never blocks
  needs a count (`InFlight`): busy workers and queued outcomes are no more than the
  resources given away. That the map is whole needs `Answers`, that no resource given away
  is lost, and `Lifecycle`, that the channel closes after the workers, the workers exit
  after the feeder, and the feeder stops early only under a done context. That errors are
  honest needs `Truths`, what each outcome in flight says of the engine, and that
  `cancel()` runs exactly when the collector returns.
- `Delivery`, `CloseIsLast`, `Complete`, `Honest`, `Quiet`: the safety properties, from it.
- `Refinement`: `Spec => Check!Spec`: only the caller's cancellation and the two returns are
  steps of `BatchCheck`; `MapIsWhole` is the heart of the second.

`AnyBatchProofs` holds for any chains of children, any lists of resources and any verdicts
the children can give (`ListsAssumption`, `ChainsAssumption`).

- `Invariant`: `Spec => []IInv`. `AgreesWhileLive` speaks of the returned map only; what carries
  it there is `Settled`, that under a live context a resource has an entry in `out` exactly if
  some earlier child allows it and all before that one deny it (`DeniedBefore`), and was denied by
  every child so far if it has none. `Partial` says what the child under way has
  answered so far, by its kind; `Filtered` that the positions left are those without an
  answer, repetitions included.
- `Agreement`, `NothingInvented`, `OpenOnly`: the safety properties.
- `Refinement`: `Spec => Or!Spec`. Since this is what the module assumes of a nested child, an
  `AnyAuthorizer` keeps its promise at any depth of nesting; and since `FanOutProofs` proves
  what it assumes of a fan-out child, the promise rests on nothing but the children's own words.

`SessionProofs` holds for any tokens, connections, interval, leeway and horizon
(`SessionAssumption`: the interval is positive, as `time.NewTicker` demands).

- `Invariant`: `Spec => []IInv`. The properties speak of the moment of admission or of a notice;
  what carries them there is, for each connection, `Answered` (an answer of the store that says
  "clean" means that the token was not revoked before the check asked), `Examined` (a handshake
  under check, or open and not yet supervised, has no fault, and began before its token had
  expired, leeway included, and if it is open, no later than a revocation) and `Noticed` (a notice
  is due for a reason, and none was given before; a failed check saw a fault of the store or of the connection). `Punctual` is for the bound: while nobody
  lags behind the clock (`~lagged`) a tick is taken at the multiple of the interval at which it
  came, so that the last check of a waiting connection is less than one interval old
  (`NextMultiple`, `NeverLate`).
- `Admission`, `OneHonestNotice`, `Dropped`: the safety properties. `FreshPass` is an action
  property: it needs the invariant before the step, for it is about the answer being used up.
- `Refinement`: `Spec => Promise!Spec` of `Supervision`, one lemma for each move of a
  connection.

`KeysProofs` holds for any keys, any provider and any bound on rotations.

- `Invariant`: `Spec => []IInv`. `OnlyHeldKeys` needs
  that no construction passes `validateConfig` with two sources, and that answers under way
  were published once.
- `HeldOnly`, `Reported`: the two safety properties, from it.

`AdaptersProofs` holds for any requests, allowlists, claims and error handlers, however many
lines a handler writes (`AdaptersAssumption`).

- `Invariant`: `Judged`, that the verdict is the first failing check of the request; `Course`, which
  way the handshake went; `Answered`, that the response is the rejection, for fiber as far as
  it has been copied: of the first `k` lines those no later one of them replaces, `k` being
  what the recorder no longer holds. `LineReplaced` is the step of that loop.
- `Decision`, `Passing`, `LastArrive`. `Passing` rests on what `normalizeOrigin` keeps: exact matches
  have the same normal form, and those of the same normal form have scheme and host in common.
- `WholeElsewhere`: what `fiber_headers` refutes for fiber holds of the other front ends.

`ExtractionProofs`, `RbacProofs` and `ValidationProofs` are about functions: their invariants say
that an answer is what the function yields on inputs that do not change, and the weight is in
lemmas about the operators.

- Extraction, for headers, chains and lists of any length: `FirstDecides` (a chain yields the
  outcome of its first entry that does not miss), `FoundByBoth` and `SameFirst` (if what the adapter
  takes first is three non-empty segments, the core takes the same, from that entry or from the
  keyword before it), `NoGap` (without empty segments it always is); from these `Header`, `Configured` and `Same`. Least positions exist because
  the natural numbers are well-founded (`Least`).
- RBAC, for strings of any number of colons: `Matching` (comparing heads and tails of the joined
  strings means what the documentation says of actions and resources, if the action has no
  colon or the grant no wildcard), `Counted` (which roles count); from these `Exactly` and `Shown`.
- Validation, for any allowlists and claims: `Allowed` (what `allowedValues` keeps), `OwnAudience`
  (an audience of the claims is an entry of the token's); from these `Named`; `NoneLost` (a
  configured value is never filtered away) is for `Rightful`; `Expiry` follows from the definitions.

Only model-checked: liveness (`NothingLeaks`, `FailsFast`, `CancelUnblocks`, `ReturnReleases`,
`HandshakeEnds`, `InvalidIsDropped`, `EndsWithConnection`, `Released`, `FollowsProvider`), since
fairness and ENABLED are out of the prover's reach. The specifications in the three refinements state no
fairness, so those are proved whole. The library's
`SelectSeq` is a recursive definition of which the prover knows nothing; filtered lists are
therefore kept by position, as said above.

## Not modelled

Signature checking, HTTP, the fetching of a JWKS and the frameworks are external; of the keyfunc
library only what `newKeyFunc` relies on is modelled, not its own extra fetches for unknown
key ids. Wording, formats and logging are left out. A Revoker or a local authorizer that never
returns even when its context is done, an application's own extractor, the typed readers of
one claim other than `Strings`, and a role claim of another name are not instances of these
modules. Fiber's translation of the request, whose error branch nothing in it reaches, is left
out. In `FanOut` a panic of the engine is not a step. `AsMap` builds a map that no code of
the library reads.

Known differences that no property covers: for an action that holds a colon of its own, a
wildcard may cover more or less than the documentation says (`read:*` covers the action
`read:all`), which `GrantsExactly` excludes; a role list that holds more than strings is read by
RBAC and not by `ClaimReader.Strings`, which `GrantsAreShown` excludes; the adapter takes an
entry with an empty segment and a query token, and passes over a useless Authorization header,
where the core does not, which `SameToken` names. An error notice of `Reverify` may come for a
connection that is gone already, if it went during the check: `HonestNotice` allows that and
no more.

`wsauthkittest` is left out: in-memory stubs without goroutines or failures, which promise
nothing about a builder used on after `Build`. The examples are configuration and I/O but for
the connect handler, and the asset script draws logos.

## Plan

1. Done: `BatchCheck`, `FanOut` and its proofs; `OrCheck` and `AnyBatch`; `Supervision` and
   `Session`; `Keys` and its proofs; `Extraction`; `Rbac`; `Validation`; `Adapters`.
2. Done: the safety properties of all eight modules and the three refinements, proved.
3. Next: leads-to properties broken into proved steps where that is possible without ENABLED
   (which step a waiting goroutine is due, and that no other step takes it away); that
   permission strings of actions without a colon determine action and resource.
