# Verification of sample-auth-sts

The repository is a sample of authentication by AWS identity. A workload signs
an STS `GetCallerIdentity` request and does not send it to AWS: it posts it to
a server, which checks what can be checked locally, forwards the request to
STS, and, if STS names an identity on its allow list, issues a token (a JWT) of
its own. The server never sees a secret key. There are a Go and a Python
implementation of the server and of the client.

This directory holds TLA+ modules translated from the Go server, the Go client
and, where it decides differently, the Python port of both, TLC configurations
that check them on small instances, and proofs that TLAPS checks for every value
of the constants. `PROJECT.json` maps each definition to the
lines it models.

## 1. The system

| Component | State | Operations | Talks to |
|---|---|---|---|
| Receiving adapter `adapter/inbound` | none between requests | `POST /auth`, `POST /verify`, `/healthz` | the core, by call |
| Domain core `domain` | none; reads policy and clock | `Authenticate` (steps 2 to 8), `VerifyToken` | policy, clock, verifier, issuer, inspector ports |
| STS adapter `adapter/outbound/sts` | allow list, HTTP client with a timer | `VerifyIdentity` | AWS STS, over HTTPS |
| Credential adapter `adapter/outbound/issuer` | secret, ttl, issuer, audience | `Load`, `IssueCredential`, `Inspect` | clock of its own |
| Policy and clock adapters | binding value, maximum age, ARNs | `Load`, accessors, `Now` | |
| Composition root `main.go` | the HTTP server | boot gate, serving, draining on SIGTERM | all of the above |
| Router, middleware, logging | attributes in a context | request id, access log | |
| Client (`config`, `proof`, `transport`, `main`) | one run | configure, sign, post, verify | server; AWS credentials |
| Demo STS (`mocksts`, `democert`) | a certificate per start | answers any request | stands in for STS |
| Python port (server and client) | as above | as above | |

The server is stateless across requests: what it decides is decided from the
envelope, the policy and the clock. Five things are nevertheless hard.

* **Two readers of one request.** The server decides on values it reads itself;
  STS checks the signature over what it is sent. Every decision is sound only
  if both read the same thing: header names in two spellings, headers outside
  the signed scope, repeated query parameters, two `Host` headers copied in the
  order of a Go map.
* **A slow step in the middle.** Between the local checks and the issuing lies
  a network call of up to ten seconds. In it time passes, clients disconnect,
  the timer fires, other requests and replays of the same envelope run, the
  process dies and another one starts with another policy.
* **Whole seconds.** Signing times, expiries and the times in a token are whole
  seconds, the clock is finer; tokens outlive the process that issued them and
  clocks are set back.
* **Two ends that must agree.** The client validates its configuration so that
  nothing it accepts is refused by the server for a reason the user cannot see;
  region, endpoint, expiry and clock each have two sides to it.
* **Two implementations of one contract.** Either client is meant to work with
  either server (`README.md` 103 of the repository), and no test runs them
  together. They rest on different libraries, which read URLs, queries, forms,
  JSON, numbers, dates and base64 text differently and send headers differently.

What makes each part correct:

* *receiving adapter*: it reads off a request STS would recognise exactly what
  its caller signed (`ExtractionFaithful`); every outcome is one of the
  documented answers (`TypeOK`);
* *core*: a token is issued only to a caller that signed for this server, asked
  for its identity, was inside its window and is on the allow list, all under
  one policy (`GrantJustified`, `ImplementsFederation`); a replayed envelope is
  admitted only within one window (`ReplayBounded`);
* *STS adapter*: nothing unvetted is sent (`DelegationGated`); a proof is called
  bad only on the word of STS (`AnswerExplained`); a silent STS holds nobody up
  (`EventuallyAnswered`);
* *credential adapter and verification*: a token lives exactly its ttl, up to
  the truncation to seconds, across restarts and clocks set back
  (`AcceptedOnlyInLife`, `HonouredInLife`, `BornAlive`), and nothing else is
  accepted (`StrangersRefused`);
* *composition root*: a process that is told to stop exits (`EventuallyStops`),
  its status is the truth (`CleanExit`), and no request that was waiting for STS
  when the signal came is cut off (`PromisesKept`);
* *demo STS*: a server trusts AWS or one demo STS and never nobody
  (`TrustsOneSide`; that it trusts the demo STS besides AWS, as some texts of the
  repository have it, is not so, see `demo_added`), and starting things in order
  works (`OrderlyStartTrusts`);
* *client*: whatever configuration it accepts, the server reads its envelope as
  it was meant (`WellReceived`) and refuses it only for a cause outside the
  client (`RefusalExplained`, `StaleExplained`); the command line decides about
  region and endpoint (`CommandLineDecides`); it always exits
  (`EventuallyExits`), and a token just granted passes the round trip
  (`RoundTrip`);
* *router, middleware, logging*: contexts derived side by side do not disturb
  each other (`ContextsIntact`), every line shows the one id its response carries
  (`LinesTraceable`), and no client has an answer the log does not know of
  (`AnswersLogged`);
* *the two implementations*: a proof of either client passes either server
  (`ProofsCross`), both give one message one answer (`ServersAgree`), and a
  token of either passes at both (`TokensCross`). The first two name the
  differences between the libraries that get in the way. They speak of the
  messages and endpoints `Interop` can express; its head lists the spellings it
  leaves out, and nothing is claimed about those.

The hazards behind these properties are listed, each at its line, in
`PROJECT.json`.

## 2. Modules

| Module | Models | Code |
|---|---|---|
| `WallClock` | ticks of the clock and whole seconds | `clock.go`, `time.Unix` |
| `HttpApi` | answers, body reading, errors to answers | `auth.go` 328-394, `verify.go` 71-93 |
| `Inbound` | from an envelope to the values decided on | `auth.go` 105-326, 396-491 |
| `StsAdapter` | endpoints, forwarded host, classification of answers; STS as an external | `sts.go` |
| `Core` | steps 2 to 4, the policy's boot gate | `service.go` 36-71, `config/config.go` |
| `Credential` | boot gate, claims, inspection, the decision on a token | `issuer/`, `verify_service.go` |
| `Federation` | abstract: what `/auth` promises | |
| `AuthServer` | concurrent `/auth` requests, composed as `main.go` composes them | all of the above |
| `TokenService` | a token from its issuing to its last presentation | `verify.go`, `issuer/`, `main.go` |
| `ClientConfig` | flags, environment, defaults; what is refused at the start | client `config.go` |
| `ClientProof` | what is signed and posted in either form | client `proof.go`, `envelope.go` |
| `Client` | one run of the client against a server | client `main.go`, `client.go` |
| `Lifecycle` | one server process, from boot to exit status, and its connections | `main.go` 42-108 |
| `DemoTrust` | servers, starts of the demo STS, and the file between them | `mocksts`, `democert.go`, `sts/config.go`, `internal/config` |
| `RequestLog` | the middlewares, request ids, log attributes in a heap | `router.go`, `middleware.go`, `internal/logging` |
| `Interop` | one message at a Go and a Python server, one token at both | `samplepython`: `config.py`, `proof.py`, `auth.py`, `sts.py`, `issuer.py` |
| `MCAuthServer`, `MCAuthInbound`, `MCTokenService`, `MCClient`, `MCDemoTrust`, `MCRequestLog`, `MCInterop` | instances for TLC | |
| `OperatorProofs` | lemmas on operators that several modules use | |
| `AuthServerProofs`, `TokenServiceProofs`, `ClientProofs`, `LifecycleProofs`, `DemoTrustProofs`, `RequestLogProofs`, `InteropProofs` | proofs | |

The first six and `ClientConfig`, `ClientProof` are pure: operators without
state, used by the state machines.

### AuthServer

An action is one run of a request's goroutine between two points where another
actor can intervene: reading the clock, the network, the timer.

| Stage `pc[r]` | Left by | Code |
|---|---|---|
| `idle` | `Arrive` | the router calls the handler |
| `received` | `Extract` | `Handler.Authenticate` up to the call of the core |
| `extracted` | `Admit` | steps 2 to 4; the core reads its clock |
| `admitted` | `Delegate` | `VerifyIdentity` up to `client.Do` |
| `delegating` | `Receive`, `Abort` | answer read and classified; timer or cancelled context |
| `identified` | `RefuseArn`, `Issue`, `IssueFails` | steps 7 and 8; the issuer reads its clock |
| `answered`, `lost` | | answer written; process died |

The rest of the state: `conf` (the policy of the running process, `Down`
between two), `env` (the posted envelope), `waited` (the timer of the HTTP
client), `reply` (the answer of STS), `gone` (closed connections), `answer`,
`minted`. `admission` and `delegated` are history variables: nothing the server
does depends on them. `Boot` starts a process only under a configuration that
every adapter's `Load` accepts, `Crash` ends it; there is no persistent state,
so a restart is nothing but a new `conf`.

An envelope keeps the control and abstracts the data. A header map is a function
from (name, spelling) to a sequence of values, so that two keys differing only
in case are two keys; the Authorization value is the set of signed names it
lists; dates are numbers of seconds or `Unparsable`; the form body is the
sequence of its Action values. What the caller signed travels in `signed`, which
the server never reads. STS is external: `Authentic` says when it recognises a
request, namely when everything the signature covers arrives as signed, and
`Meaning` what was signed. STS may also refuse, throttle, fail or stay silent at
will.

### TokenService

`Issue` and `Verify` are the two ends of a token's life, `Boot` and `Stop`
replace the jwt section in between, `Tick` and `SetBack` move the clock. Both
ends take the parameters from one `Load`, as `buildServices` does. `/verify`
keeps nothing: `verdict` is the last answer, so that properties can speak of it.
Signatures are ideal: one fits only the secret it was made with.

### Client

| `stage` | Left by | Code |
|---|---|---|
| `start` | `Load` | `config.Load`: `parse` and `validate` |
| `loaded` | `Retrieve`, `Expire` | `loadCredentials` under the deadline |
| `ready` | `PostAuth` | clock read, request signed, `/auth` posted |
| `posting` | `ReceiveToken`, `Expire` | `postJSON` |
| `verifying` | `ReceiveClaims`, `Expire` | `/verify` posted |
| `succeeded`, `failed` | | exit status |

`Fail` may end any stage: every step can return an error of its own. The server
is the one of the modules above, reduced to its decisions: `Check` is
everything up to the call of STS, `Federate` the rest, `AnswerVerify` the answer
of `/verify`; all of them use the operators of `Inbound`, `Core`, `StsAdapter`
and `Credential`, so that the two implementations of one wire format, the
client's and the server's, meet in one model. STS, beyond what it does in
`AuthServer`, knows that a standard host accepts signatures of its own region
only. `now` is the server's clock and the client reads `now + skew`.
`checkedOn` and `input` are history.

URLs are sequences of host labels with a scheme, a port and whether they parse;
`RegionForSTSHost` and `NormalizeEndpoint` look at these and nothing else.
Which strings are well-formed regions, and which are Chinese, is given by the
instance.

### Lifecycle

Three goroutines of `run` and what it relies on in `net/http`: `main` is the
goroutine of `run` itself (`Build`, then `SelectServeErr` or `SelectSignal`, then
`Poll` until `Shutdown` returns, or `DrainFails`), `serve` the one of
`ListenAndServe` (`Listen`, `ServeReturns`) with the one-place channel
`serveErr`, and each connection has its own (`Read`, `AnswerAtOnce`, `Delegate`,
`StsAnswers`, `TimeOut`). `Closable` is what `Shutdown` closes: connections
between two requests, or new and unused for longer than `NewGrace` (five
seconds in `net/http`); a request that was sent there and not read goes with
them. A signal while `Build` runs or `Listen` is due, and a failing listener
together with a signal, are steps like any other: `select` takes either, so a
listener that failed at the very moment of the signal is not reported in the
exit status.

The two timers are compared, so time matters here: the clock does not pass a
moment at which the process has something to do (`Urgent`), that is,
computation takes no time compared with a tick. Handlers are reduced to what a
drain can see of them: a body that arrives, an answer at once or a call of STS;
`AuthServer` has the rest, and its `Crash` is the exit of this module.

### DemoTrust

Each start of the demo STS makes a certificate (`Generate`), writes it
(`Truncate`, `Fill`: the two steps of `os.WriteFile`), listens (`Listen`) and
may end at any point (`Exit`). `Boot` and `Stop` are those of the server, as
far as `sts.ca_file` is concerned; `trust` is the set of those whose
certificate it accepts, `{Aws}` for the system's roots. `Delegate` is a request
that reaches the network. The two sides share the file and the port, nothing
else.

### RequestLog

`stage[r]` and `pos[r]` say where a request is in the chain of `NewRouter`:
`Enter` is the part of a middleware before `c.Next()`, `Leave` the part behind
it, `Panic` unwinds to `Recovery`, `Flush` is the moment at which net/http hands
the buffered answer to the network, `Crash` may come anywhere. A context is a
slice, an array of the heap all requests share and a length, so that the copying
in `AppendCtx` is a fact of the model and not of its data types: with the
`append` the comment of `AppendCtx` warns of (the mutant `AppendShared`) one
handler goroutine overwrites the attributes of another's context. In the code
of today only `RequestID` derives contexts, one per request; `ContextsIntact`
holds what the comment and the tests of `AppendCtx` promise to its other callers. `meant` is
history: what each context was derived to carry. gin is external. Two things it
does are visible: it redirects a path with a slash too many before any
middleware runs, so such a request has neither an id nor a line; and a 404 runs
through the chain like any other request.

### Interop

The port was written after the Go code, and most of it decides in the same
way; there the module uses the Go operators. Where the libraries make a
difference, an operator says which. A message is `[env, quirks]`: the envelope as
the more lenient server reads it, and the set of spellings that one of the two
reads or sends differently.

| Python | Go | Operator, quirk |
|---|---|---|
| `urlsplit` drops white space in front of a URL and looks neither at the port nor at escapes | `url.Parse` refuses white space, ports that are no digits and bad escapes (`LaxUrls`) | `Split`, `ReadUrl`, `ValidatesBy` |
| a port is a number, on the allow list and in what botocore signs: `0443` is `443` | a port is its text | `Numbered`, `AsPy`, `PySigned` |
| botocore signs the Host in lower case and without the default port; the envelope has it as it was typed | the signer signs what the envelope has; presigned: without the default port | `Lower` (`Lowered`), `PySigned`, `PyEnvelopeFromRequest` |
| the presigned URL is put together from its parts, without the white space | it goes out as it was written | `PyPresignedEnvelope` |
| the port property raises for a bad port, as no verdict: 502 | refused, 401 | `NormalizeRaises`, `PyDelegationError` |
| `parse_qs` keeps a pair with a `;` or a bad escape | the query lacks the pair, the form counts as empty | `GoQuery`, `GoReads`; `escaped`, a field's name |
| a form that is not UTF-8 counts as empty | its bytes are read | `PyReads`; `binary` |
| JSON: absent members are refused, names are exact; NaN passes | the reverse | `PyReads`, `GoReads`; `goJson`, `pyJson` |
| `int`, `strptime` take more spellings | `time.Parse` takes a fraction | `GoReads`, `PyReads`; `loose`, `fraction` |
| base64 with line breaks is refused | line breaks are ignored | `PyReads`; `wrapped` |
| httpx sends no header that is not ASCII: 502 | it is sent | `PyDelegationError`; `unsendable` (`Unsendable`, of a client's binding) |
| several values of a header are joined with `, ` | each is a line of its own | `Intact`; `repeated`, `joined` |
| of several spellings the last of Host is forwarded, the others in their order | any, in any order | `PyForwardedHosts`, `Intact`; `spelled` |
| without a Host httpx computes it, as botocore does | Go takes that of the URL | `PyForwardedHosts` |
| a token that is not ASCII text: 500 | 401 | `VerifyBy` |

One message, from either client or of another program, reaches both servers,
which have one configuration, each in its own time; STS answers or fails each of
them on its own. `StsRecognises` is that of `Client`, with the Host each server
forwards. `Verify` presents a token to both at once.

### Federation

The abstract specification knows sessions, policies and claims: a session is
admitted on a claim the policy in force accepts at that moment, attested by
somebody who made that very claim, granted to that caller under that policy,
or dropped. `AuthServer` implements it under the mapping `AbstractSession`
(`ImplementsFederation`, checked and proved).

## 3. Runs

| Run | Instance | What it asks |
|---|---|---|
| `concurrent` | two symmetric requests, three envelopes (header form, presigned, binding merely attached), two policies that differ in the allow list, ticks of half a second, windows of three ticks (the server's maximum age) and of two (the smaller expiry of the presigned envelope), clock to tick 6, timer of one tick | tokens justified, replays bounded, refinement, types |
| `inbound` | one request, all envelopes obtained from ten signed requests by one alteration, and by two for those where two interact; three configurations, two of which must not boot; eleven answers of STS and silence, timer of two ticks | extraction, gating, classification, the inductive invariant, every request is answered |
| `tokens` | one token and eight foreign ones, eight jwt sections of which two must not load (and a ttl of half a second, below the minimum), clock of nine half seconds that may be set back | the life of a token |
| `client_inputs` | 2 forms × (12 × 21 combinations of region and endpoint from flag and environment, 8 odd endpoints, 17 odd values); no skew, a deadline of one tick | what is accepted, what is sent, what is refused |
| `client_time` | both forms, two servers (windows of 1.5 and 2 s, ttls of 1 and 1.5 s), clocks apart by up to 1.5 s, a deadline of 2.5 s; server, STS and credential chain may stay silent | staleness, the round trip, the client exits |
| `client_port` | the inputs of `client_inputs` | *expected violation*, see below |
| `stop` | two connections, a drain and a call of three ticks, unused connections spared for one tick | the end of a process: status, cut-offs, busy clients, termination |
| `demo` | two starts on one or two ports, endpoints by a name of the certificate, by another name and at AWS, every way to set `sts.ca_file`, certificates that begin one tick early and last one | who is trusted by whom |
| `demo_added` | the same with one port | *expected violation*, see below |
| `demo_overlap` | the same with one port | *expected violation*, see below |
| `requests` | two requests, one of which derives up to two contexts, four kinds of `X-Request-Id` (none, the longest, one byte longer, unsafe), plain and derived loggers, a line each, panics and a crash anywhere | the log: contexts, ids, access lines |
| `interop` | 84 inputs of the clients (both forms, seventeen ways to write an endpoint), 307 messages of other programs, 209 of them with up to two quirks, two pairs of servers with different bindings, clock of half seconds from tick 8 or 9 to 13, window of 2 s, ttl of 1.5 s | two implementations of one contract |

`demo_overlap` shows a defect of the demo command. `mocksts` writes its
certificate over the CA file before it has got the port. Start it twice and the
second one fails, as it should, but the file now holds a certificate nobody
serves: a server booted from then on refuses the demo STS that is listening
(`TrustsWitnessed` is violated), although the file is what lets it trust it
(`mocksts/main.go` 3-4). As long as no two starts are alive at once all is well
(`OrderlyStartTrusts`, checked and proved).

`demo_added` shows two texts about one option at odds. The code replaces the
system's roots by the pool of `sts.ca_file` (`main.go` 154; `LoadCAPool` starts
from an empty pool), which is what `config.yaml` 48-49 and line 472 of the
repository's `README.md` say. `sts/config.go` 35 and 51, `config.yaml` 44 and
lines 173, 306 and 348 of the `README.md` say the CA is trusted *in addition*.
`CaIsAdded` states the latter and is violated: every delegation of such a server
to AWS fails. `TrustsOneSide` states the former and holds.

`client_port` shows a defect of the presigned form. For an endpoint that names
the default port, which `validate` accepts and the server's allow list takes for
the same endpoint, the envelope carries `host:443` while the signature covers
`host`: `HostIsSigned`, which is what `envelope.go` 11 says of that header, is
violated, and STS refuses the proof. The header form is right, because there the
signer changes the Host of the very request the envelope is made from;
`RefusalExplained` names the exception. In the Python client both forms have
this defect, see `ProofsCross`.

*Why the bounds are enough.* Requests share nothing but the clock, the policy
and the envelope, so every property relates one request to the environment or,
`ReplayBounded`, two requests; two are enough, and the proofs cover the rest.
The clock runs past the end of the longest window (signing time 1 s, maximum age
1.5 s, that is up to tick 5), with ticks before it that are in the future of the
signing time, so that both ends of the window are crossed while a call of STS
is under way; the presigned envelope's own expiry, 1 s, ends before the maximum
age, so both branches of the window decide. Half-second ticks are the coarsest in which truncation to seconds
loses something; ttls with and without a fraction are both present. `MaxTime`
stops the clock, not the timers; `TypeOK` names it, no guard of the code
depends on it. Envelopes are altered where the code looks: every disjunct of
both extractors and of `DelegationError`, every branch of `ReplyOutcome`, is
taken by some member. Symmetry exchanges the two requests and is used in
`concurrent` alone, which checks no liveness. Deadlock checking is on in every run of the server; the
client's runs end, so it is off there. The inputs of the client contain every
way each of its settings can be given and every reason `validate` refuses for;
standard hosts of each of the four shapes, hosts that tell no region, a trailing
dot, an explicit default port. The skews reach beyond the smaller window and
`TicksPerSecond` on either side, the deadline beyond the window and the ttl, so
proofs go stale for each of the two reasons, and tokens expire before they are
presented. Time is not followed beyond the client's deadline. In `stop` calls
begin before, with and after the signal, each with the longest and shorter
durations; the timers of drain and call are equal, as in the code, which is the
hardest case the assumption `StsTimeout <= ShutdownTimeout` allows. The process
ends, so deadlock checking is off. Connections do not interact except through
the drain, starts only in pairs. In `requests` (`MaxContexts`, `MaxLines`) three
contexts of one request are the least with two siblings, which is what sharing
an array takes; the other request is there for ids and lines of its own. Chains
end, so deadlock checking is off. `interop` starts at tick 8, where the proofs of
other programs are dated, and at 9, which is not a whole second; `Horizon` is
past the window and the ttl of what is granted at the start, and a message is
handled within it. Each exception that `ProofsCross` and `ServersAgree` name
occurs: without any one of them the run fails. That they are enough for any
inputs and messages of the model, with any number of quirks at once, is what the
proofs add.

*Fairness.* `EventuallyAnswered` assumes weak fairness of each request's
goroutine (the Go scheduler runs what is runnable) and of the clock. It assumes
nothing of STS, of clients or of the operator: the timer of the HTTP client
(`main.go` 39) alone must end a silent call, which is what the property is
about. It is checked in `inbound`, for every envelope; requests share nothing a
handler could wait for, so one is enough. `EventuallyExits` assumes that the client's own process runs and time
passes, nothing of the credential chain (`Retrieve` is not fair), the server or
STS; it is checked in `client_time`, under `FairSpec`, whose fairness takes no
behaviour of a prefix away from the other two properties. `EventuallyStops` assumes that building, the goroutine of `run`, timers and
the reading of requests that are there make progress; it assumes nothing of
clients, which may stop in the middle of a body, nor of STS, nor of the serving
goroutine. `TokenService` and the safety runs assume no fairness.

Each property has a mutant: a definition of the model changed the way a bug in
the code would change it (a binding read without looking at the signed names, a
tolerated negative age, an allow list not consulted, a missing timeout, exp from
two truncations, attributes appended in place, Recovery put in front). TLC finds the property violated under the same configuration.
The changed definitions stand next to the originals, marked *Mutant*.

## 4. Proofs

All for any number of requests, any envelopes, policies, answers of STS, any
resolution of the clock. Assumed are only the named assumptions on the constants
(model values are distinct, ages are numbers, an answer that vouches for nobody
is not one that names an identity, STS means what it says), which TLC evaluates
on each run.

* `AuthServerProofs`: `TypeCorrect`; then `BookkeepingHolds`. `GrantJustified`
  is not inductive: that a token is justified follows from what its request had
  established when it got to the issuer, so `Bookkeeping` says what each stage
  has established (`StageInv`: an extracted request passed the extraction, an
  identified one carries an answer of STS that identifies) and what the history
  variables record (`HistoryInv`: an admission is one the local checks allowed,
  at a time not in the future). From it `TokensJustified`, `DelegationsGated`
  and `ReplaysBounded`. `DecisionsFaithful` rests on the lemma
  `FaithfulExtraction` (below). This is the argument
  for the single-occurrence and signed-scope checks of `auth.go` 399-443.
  `AnswersExplained` adds `AnswersKept` to it (no request has an answer before
  it is answered; one that blames somebody has the reply of STS it needs next to
  it), because the reply, the timer and the cancelled context race for the same
  answer. It rests on `MeansWhatItSays`, a statement about AWS and not about the
  code: a refusal for good is a 4xx, a limit shows in 429 or in the error code.
  That is what `isTransientCode` takes for granted (`sts.go` 43-60); that the
  code then draws the right line is the lemma `Classified`.
  `Refinement` has one lemma per group of actions on what it does to the
  abstract sessions.
* `TokenServiceProofs`: well-formed tokens, then the four properties of a
  token's life. The arithmetic (truncation after adding the ttl loses less than
  a second, a ttl of at least a second leaves something) is proved for every
  resolution.

* `OperatorProofs`: truncation to seconds; `FaithfulExtraction`: for *every*
  envelope that passes the extractor and that STS recognises, what was
  extracted is what was signed; `Readable`: an envelope that carries what was
  signed (`Carried`) passes the extractor and is read as it was meant, in either
  form; `HostForwarded`: the Host such an envelope is forwarded with. The two
  clients' proofs share them.
* `ClientProofs`: `TypeCorrect` with the small invariant `Progress` (no envelope
  before `posting`, no answer before the server is done). What
  `Build` makes of a validated configuration is `Carried`, so `Readable`
  applies to it; this is where the checks of `validate` (whole seconds, upper
  bound, https, no white space) are used up. From it `EnvelopesReadable`,
  `RefusalsExplained` (with `StandardHostsUndotted`: normalising a standard host
  does not change its region) and `StalenessExplained`; `CommandLineObeyed` is
  about every region and every endpoint; `RoundTripsSucceed` carries the grant
  (`GrantHeld`) to `/verify`.
* `LifecycleProofs`: `LifecycleInv` in two parts, the process (`ProcessInv`) and
  its connections (`TrafficInv`), since most steps disturb only one of them.
  `PromisesKept` follows from a comparison the invariant carries along: a
  request whose call was under way when the signal came has been with STS for
  longer than the drain has lasted, so, `StsTimeout` being at most
  `ShutdownTimeout`, its timer is due first. `LifecycleAssumption` states that
  relation of the two constants of `main.go`.
* `RequestLogProofs`: `RequestLogInv`. A slice always covers the whole of its
  array (`Whole`) and arrays are never written again, so what a context carries
  cannot change when the heap grows (`ContextsKept`); inside `RequestID` each
  context shows the id once (`Identified`), because parts of handlers do not use
  that key (`RequestLogAssumption`); and from `requestLogger` on there is exactly
  one access line and it is the last (`LoggedOnce`), which is where the order of
  the chain is used.
* `DemoTrustProofs`: `DemoInv`; while starts take turns, the file holds the
  certificate of the one alive from the moment it is written.

* `InteropProofs`: the inductive invariant is `TypeOK` with `History`: the
  message is what its client builds of some input at some time, or what another
  program posted (`Posted`); each server that has looked decided on it as the
  operators say, at the time it looked, with what it may have forwarded
  (`Decided`); each grant is a token of the common configuration (`GrantsOwn`);
  each verdict is the one of now (`VerdictSaid`). None of the three properties
  is inductive without it: they relate two answers given at different times
  to a message sent at a third. `TokensCrossCorrect` follows from the arithmetic of
  `OwnToken`. For `ProofsCrossCorrect` the four pairs of client and server are
  one proof: both clients' messages are `IsPost`, both servers' readings of one
  are `Carried` (`PostRead`), and each stage has a lemma on how it may refuse a
  post (`PostExtracted`, `PostChecked`, `PostDelegated`, `PostRecognised`); the
  exceptions of the property are what is left over there. `ServersAgreeCorrect`
  is about any envelope with any quirks and goes stage by stage as well: the
  servers refuse alike or one refuses what only the other reads (`ExtractAgrees`);
  two readings that both pass differ in nothing but the action
  (`SameButAction`), which only the form or a dropped pair can do
  (`LocalChecksAgree`); they delegate alike or a port, an escape or a header is
  in the way (`DelegationAgrees`); they forward alike or what STS gets differs in
  the Host or in what became of the further headers (`FederationsAgree`). That Go
  allows no endpoint the port refuses (`PortAllows`), and what only the port
  allows (`OnlyPortAllows`), is proved for any allow list and any table of
  leading zeros and of hosts with capital letters.

`InteropAssumption` asks of the inputs and of the messages of other programs
that they have the fields of the model, of the token secret that nobody else
has it, of `""` and `443` that they are ports and have no leading zeros, of hosts
with capital letters that they have a name besides a dot, of a dropped pair that
there is one, and of the model values that they are values of nothing else. One conjunct is about the
code: a pair of servers is one that has started, and with an allow list for which
`_normalize_endpoint` raises the port does not start (`sts.py` 142-144).

Every safety invariant of the runs is thus proved, and the refinement. Only
model-checked are `EventuallyAnswered`, `EventuallyExits` and `EventuallyStops`,
because the prover handles neither fairness nor ENABLED. The three runs that
expect a violation are counterexamples. Also out of the prover's reach are
induction over data and RECURSIVE operators; the modules need neither. What
STS and the libraries do stays a premise of both: TLC and the proofs take
`StsRecognises`, `SignHTTP` or `Taken` as they are written.

## 5. Not modelled

Randomness of the jti and of request ids (identities are given), what a log line
says beyond the id and the status, HMAC and SigV4 themselves, JSON syntax beyond
its three outcomes, TLS beyond who trusts whom. Of log groups (`WithGroup`)
`logging.New` itself says that they must not be used. A panic in a handler has no
source in the modelled code; `RequestLog` has one all the same, since the
router prepares for it. Dates with a fraction of a second, which Go's parser
accepts, are not among the envelopes, except as the quirk `fraction` of `Interop`. Of what the client signs, the security
token of temporary credentials, the length of the body and the version of the
API are left out: server and signer pass them on. What the client prints is left
out as well.

`Interop` leaves out spellings whose fate depends on more than the two
programs: endpoints with user information (`https://user@host`), brackets, a colon
without a port or a query of their own; bad escapes in front of the fragment of a
URL, where the answer depends on how STS itself reads a path that httpx and
botocore have each quoted; control characters, and in URLs and names anything that
is not ASCII; JSON with one name twice; a Host that is no host; a region with a
line break behind it; headers that HTTP libraries act on (`Content-Length`).
`ProofsCross` and `ServersAgree` say nothing about these.

Of the Python port, `Interop` has what decides an answer. Not modelled are its
thread pool (40 calls of `/auth` that wait for STS keep `/verify` waiting), the
time limits of httpx, which hold for single operations and not, as the help of
`--timeout` says, for the run (`config.py` 98, `main.py` 76-77), its boot gate
(a bad port in the allow list raises there), its middleware and log context (a
dictionary in a `ContextVar`, copied by `append_ctx`), and its demo STS. Its classification of
answers of STS is a line by line translation of the Go code, which `AuthServer`
checks.

The Go files without a mapped line hold declarations only: the ports of the
core (`inbound.go`, `outbound.go`, `verify.go`), error types (`errors.go`) whose
values appear as the answers of `HttpApi`, and test support (`configtest`).

## 6. Plan

1. *Done*: the modules of section 2, their runs, and proofs of every safety
   invariant a run checks.
2. `Client` against the full `AuthServer` with several clients: granted but not
   reported, a client that gave up while its request went on.
3. `Lifecycle` composed with `AuthServer`: its exits as the crashes there.
4. An abstract specification for a token's life, implemented by `TokenService`
   and by either server of `Interop`.
