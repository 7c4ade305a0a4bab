# Verification of AIC-JWT

TLA+ models, TLC runs and TLAPS proofs for the OAuth profile of AIC-JWT
(`oauth.go`), its validation pipeline and the functions under it (`ts/`), the
WIT/WPT harness (`wit-wpt-interop/`) and the certificate-authority demo
(`demo/`). Paths below are relative to `src/`.

1. [The system](#1-the-system): inventory of the repository
2. [The modules](#2-the-modules): what models what, and how
3. [The runs](#3-the-runs): questions, bounds, answers
4. [The proofs](#4-the-proofs): what holds for every instance, and why
5. [Disagreements](#5-disagreements-between-code-and-documents) between code
   and documents
6. [Not modelled](#6-not-modelled), and [what could follow](#7-what-could-follow)

To repeat a run: `tlc -config <run>.cfg <module>`, with the module of the table
in section 3; to repeat a proof: `tlapm <module>Proofs.tla`.

## 1. The system

A **principal** signs a *delegation authorization* (DA): this agent may use
these capabilities, under these constraints, until then, once. An
**authorization server** (AS) turns a DA into a signed *outer token* that embeds
it. A **resource server** (RS) judges requests that present such tokens.

| component | state | operations | hard behaviour | correct when |
|---|---|---|---|---|
| token endpoint, `oauth.go` `Issuer` | nonce store (own mutex); code and status maps (`stateMu`) | jwt-bearer, short issuance, authorization code, token exchange, lightweight, `Revoke` | every call is a goroutine; two locks taken one after the other; failures after the nonce or the code is spent; clock readings taken before entry | a DA yields one token or none whatever the flow; a code is redeemed once and delivers its own DA; no chain of exchanges adds a capability or changes whose authority it is; what is issued is accepted |
| nonce store, DPoP replay store, `memNonceStore` | set of seen ids, in memory | `CheckAndAdd` | concurrent callers, unbounded growth, restart | test and record are one step |
| resource server, `ResourceServer.Check`, `VerifyDPoP` | replay store; reads the issuer's status map | `Check` | concurrent checks, proof spent before the token is judged, stale reads | a proof admits one check, a token any number; what is permitted is covered by the DA |
| claims and validation, `ts/aicjwt.ts` `validateDA`, `validate` | none (a nonce store is a parameter) | `validateDA`, `validate` | eleven steps over two nested claim sets; options that switch steps off | an accepted token never exceeds its DA |
| capability and parameter matching, `ts/aicjwt.ts` `matchPattern`, `paramsWithin` | none | `matchCapabilities`, `capabilitySubset` | wildcards that backtrack, scores that order, recursive JSON | a match is a partition of the target; within implies matches no more |
| constraint evaluators, `ts/aicjwt.ts` | `max-concurrent` reads a count from the context | `evaluateConstraints` | 32-bit masks, lengths that are no numbers, windows over midnight, unknown types | a conjunction, in any order, in which an unknown type neither ends the list nor hides another (it is rejected for strict callers only, and malformed lengths do not all fail closed: section 5) |
| JWS, JWK (`ts/aicjwt.ts`, `go/jose.go`) | none | sign, verify, thumbprints | encodings | library and format correctness |
| X.509 bridge (`ts/asn1.ts`, `ts/x509_bridge.ts`; `x509_bridge.go` re-exports) | none | certificate to claims and back | long and short forms, optional fields, defaults | the round trip keeps every field; a signature speaks for one set of claims, of the DA and of the token (but not its extensions: section 5) |
| WIT/WPT harness (`wit-wpt-interop/go`, mirrored in `ts`), WIT demo (`wit-demo/`) | replay store of a verifier | `Issue`, `MintWPT`, `Verify`, coverage | concurrent verification, jti spent before the last tests, an unset store; a second implementation of coverage | a jti passes once; permissions stay within the DA, or the PA it came with; the second implementation of coverage differs only in known ways |
| CA demo (`demo/`): page, human, CA, gateway | `ui`, the buttons, the cards; promises in flight | six buttons, `autoRun`, reset | handlers that interleave at their awaits over one `ui`, artefacts replaced meanwhile | no handler meets a missing artefact; a verdict is about one coherent chain |
| Go core (`github.com/varwof/types`) | | `ValidateDA`, `Validate`, `OAuthSubject` | not in the repository | as `ts/aicjwt.ts` |

Interactions: client → token endpoint (a DA, a code, an actor token); token
endpoint → client → RS (a token, any number of times, in any order); RS →
issuer (the status map, through `StatusCheckerFor`). All stores are shared by
goroutines; nothing is persisted. The demo's page calls its library (human, CA,
gateway) and through it `ts/aicjwt.ts`; the harness has matching code of its own.

## 2. The modules

```
AICClaims                    claim sets and the rules that judge them
├── TokenEndpoint            Issuer: calls, locks, stores
│   ├── TokenEndpointRefinement ──INSTANCE──> DelegationGrants
│   │   └── TokenEndpointProofs
│   └── AuthorizationSystem ──INSTANCE──> ResourceServer
│       └── AuthorizationSystemProofs
└── ResourceServer           Check, VerifyDPoP, replay store
    └── ResourceServerProofs
WorkloadIdentity             WIT/WPT issuance and verification
└── WorkloadIdentityProofs
DemoAuthority                human, CA, scenarios and gateway of the CA demo
└── DemoPage                 the page: buttons, handlers, autoRun
    └── DemoPageProofs
CapabilityMatching ── HarnessCoverage ─┐
ConstraintEvaluators ──────────────────┼── CoreFunctions   the functions, called
DerCodec, X509Bridge ──────────────────┘   │               once each, and their laws
                                           └── CapabilityProofs ── CarrierProofs ── CoreFunctionsProofs
MCTokenEndpoint, MCResourceServer, MCAuthorizationSystem, MCWorkloadIdentity,
MCDemoPage, MCCoreFunctions  instances for TLC
```

**AICClaims.** `Validate(t, o)` is `validate()` with one conjunct per step and
the option record `o` for `ValidateOptions`; `ValidDA` is `validateDA` up to the
nonce store, which is a state change of the caller. The rules are taken from
`ts/aicjwt.ts`: `oauth.go` calls the same functions in a Go module outside the
repository.

**TokenEndpoint.** One action per step of a call. The steps are cut where the
code takes or releases a lock:

```
idle --JwtBearer, ShortIssuance--------------> validate --ValidateDelegation--> sign --IssueToken--> granted
idle --ExchangeCode--> lock --FindCode--> locked --SpendCode--> validate
                       (takes stateMu)           (gives it back)
```

and every step except `ExchangeCode` can end in `refused`; after
`ValidateDelegation` the nonce is spent, and after `SpendCode` the code.
`stateMu` is the set of calls in the critical section: one at most, which is part
of what is proved (`LockKept`), and `FindCode`, `NewAuthCode` and `Revoke` wait
until it is empty. `FindCode` takes the lock and looks the code up, or unlocks and
refuses; `SpendCode` marks the code used, copies its DA, unlocks, and checks the
actor token against the call's own copy. `TokenExchange` and `IssueLightweight`
touch no shared state and are one step. `at` is the clock
reading the caller passed in, which lags behind `now`. `req[r]` holds the
locals of the goroutine, `tok[r]` what it returned.

**DelegationGrants, TokenEndpointRefinement.** The abstract promise: a grant
goes from fresh to claimed to minted or burnt and never back, a code from
unissued to open to spent. The server keeps neither map; `GrantOf` and
`TicketOf` read them off the nonce store, the code map and the calls in flight.

**ResourceServer.** A check is three steps: presenting, the proof with its
replay store, the decision with its read of the status map. The clock, the
status map and the tokens in circulation are variables it only reads.

**AuthorizationSystem.** Both, with `wire <- Issued`: what the endpoint has
returned may be presented.

**WorkloadIdentity.** `Issue` and `MintWPT` are one step each, each on a clock
of its caller's; a verification is two steps, up to the replay store and from
it on. `Configured` says whether `Verifier.Replay` was set. A PA says whose key it
is signed with (`signer`), which `Issue` compares with nothing.

**DemoAuthority, DemoPage.** A handler in flight is a record: the promise it
waits for, whether `autoRun` called it, the scenario, and `seen`, what it read
from `ui` before its first await. Each await cuts an action: `Click` or `Wake` is
the synchronous head of a handler, `HumanCreated`, `HumanChecked`, `Signed`, ...
what runs when the promise resolves, up to the next await or the end, with
`enableStepButtons` where the handler calls it. `autoRun` is a handler that goes
to a nap instead of ending. `Reset` reloads the page: state and promises go. A
key is the number of its generation, so that "signed by the human on the page"
and "signed by an earlier human" differ. `Checks` lists the tests of `validate()`
that the demo's artefacts can fail, in its order; `ClassifyFailure` is the
report's search for phrases in the error message.

**CapabilityMatching, HarnessCoverage, ConstraintEvaluators, DerCodec,
X509Bridge, CoreFunctions.** Pure functions, with the recursion of the code as
recursive functions over positions, lengths and nesting depths; `CoreFunctions`
calls each once with arguments out of the constants, and
states in another form what it must return. A pattern is a sequence of tokens, a
token the sequence of its characters; a capability begins with a scheme of one
word and a colon (`Tokenized`); a JSON value is a kind and its content; an
address has `Bits` bits, or is none (family 0), the prefix length of a range is what
`Number` makes of its text (digits, nothing, a fraction, a word), and a clock has
`Day` minutes; what the harness or `RegExp` turns down is the constant `Refused`; DER is octets in `DerCodec` and
trees of tagged elements in `X509Bridge`, where an AIC becomes the claims of the DA
and of the token around it (`MapToClaims`).

Abstractions common to the protocol modules:

- `intact` stands for everything that depends on an artefact's bytes only:
  encodings, headers, signatures, key hashes, the length of a nonce. A test that the
  code does not make is not in it: who signed a PA is a field of the PA.
- `Blank` is the empty string in an audience.
- The code, client and verifier of an `ExchangeCode` are chosen when the code is
  looked up and its actor token when it is checked, not at the entry: nothing
  reads them before.
- A key, its hash and its thumbprint are one value; hashes do not collide.
  128-bit random identifiers are distinct: a random `jti` is the name of the
  call that drew it.
- A capability is an atom; `Within`, `Matches` and `Covered` are the relations
  the matching code computes (CapabilityMatching, HarnessCoverage), `Routable`
  what the scheme plugins accept.
- A request context is the set of constraints it satisfies.
- Time is in whole seconds, and lifetimes of hours are one or two ticks.

Bounds: `MaxTime` (clock), `MaxLag` and `MaxCheckLag` (age of a clock reading),
`MaxSkew` (clocks of the harness's callers), and the finite sets of calls,
checks, codes and issuances, each used once; `MaxEffort`, what the user of the
page does in all (a click weighs 1, an `autoRun` `AutoWeight`). None is in the
code; the proofs hold for all of them.

## 3. The runs

| run | module | question | size |
|---|---|---|---|
| `TokenEndpoint_grants` | MCTokenEndpoint | Two calls race over two nonces (two DAs share one), a code and the lock before it, in three flows. `SingleUse`, `CodeSpentOnce`, `CodeDelivers`, the invariant `Accounts`; refinement of `DelegationGrants` with its fairness; `EveryCallAnswered` | 68 200 states |
| `TokenEndpoint_data` | MCTokenEndpoint | DAs of both modes and versions, a broken one, two agents, clients and keys, lifetimes in and out of range, audiences with and without an empty string, exchanges. `TypeOK`; `IssuedIsAcceptable`: issuer and verifier agree on every second of a token's life; `AuthorityTraced`: no exchange adds a capability or changes whose authority it is, and nothing but an exchange drops constraints | 930 000 |
| `ResourceServer_safety` | MCResourceServer | Two checks at once over six kinds of token and three proofs, while time passes and references are revoked. `RSTypeOK`; `ProofOnce`, where a denied check counts; `TokenReusable`, with proofs and without; `DelegationHonoured` | 765 000 |
| `System_safety` | MCAuthorizationSystem | Issuance, exchange and checks together. `OneTokenPerDA`; `EndToEndDelegation`: what is permitted goes back to one issuance and its DA | 688 000 |
| `WorkloadIdentity_safety` | MCWorkloadIdentity | Two issuances out of five DAs and three PAs, one of them signed by somebody else than it names, two verifications of one proof at two targets. `TypeOK`, `JtiPassesOnce`, `ProofOfHolder`, `SpentInPlace`, `WithinGrant` | 627 000 |
| `DemoPage_safety` | MCDemoPage | Two handlers in flight, eight clicks or two runs of `autoRun` among them, reloads. `NothingMissing`, `PermitCoherent` in all of it; `VerdictsAsAdvertised`, `ArtefactsAgree`, `NextStepOffered`, `AutoDelivers` for a user who only clicks or only watches; `OverreachRefused` | 354 000 |
| `CoreFunctions_laws` | MCCoreFunctions | Every call with arguments of the bounded sets against a reference or a law: `MatchingIsPartition`, `SubsetIsSomeGrant`, `GrantCoversFlatAgent`, `ParamsCompose`, `HarnessAgreesWithCore`, `CidrIsBlock`, `WindowIsArc`, `ConstraintsConjoin`, `DerReadsBack`, `SignatureFormsAgree`, `AICReadsBack`, `SignatureCoversDA` | 131 700 |
| `System_revoke`, `System_binding`, `System_pa`, `CoreFunctions_subset`, `WorkloadIdentity_replay` | | one property each, violated: section 5 | |

Why the instances are large enough: a race needs two calls on one nonce, one
code or one proof, and a third call adds no new kind of interleaving because
the calls interact through the stores alone, which only grow. An exchange of what
was issued needs two calls; longer chains, which TLC does not reach in these
instances, are covered by the proofs (`AuthorityTracedHolds`,
`EndToEndDelegationHolds`), whose invariants are inductive in the chain. In `TokenEndpoint_data` and `ResourceServer_safety` the
clock runs past the end of a DA, and in the former past that of an authorization
code; in `System_safety` it reaches the last second of the shorter DA, after which an exchange yields tokens
that would outlive it. In `WorkloadIdentity_safety` tokens and proofs come from
clocks ahead of and behind the verifier's, so that each end of each time test is
met. On the page, four steps and three verifications fit into eight clicks, two
`autoRun`s with one handler replacing what the other has read fit as well, and so
does a reload with handlers in flight; a third handler changes `ui` in no way two
cannot. The functions see patterns of up to five tokens over all kinds of
wildcard and ids of up to seven, every prefix length (and half a bit more, none at all, and no number), every window of a short clock, integers and
lengths on both sides of 127, 255 and 65535, and certificate extensions with
every combination of optional fields, with an extension named twice, and with a hash
algorithm that has no name.

Symmetry is declared on calls and on checks only, where the instance does not
name one of them in a value, and never in a run with a liveness property.
Deadlock checking is off in every run: each call and check is used once (and
the user of the page does a bounded number of things), and when all are answered
the instance stops.

Fairness: `FairSpec` has weak fairness of `Find(r)`, `Spend(r)`,
`ValidateDelegation(r)` and `IssueToken(r)` for each call that has entered: the Go
scheduler runs a runnable goroutine. A call that waits for `stateMu` can move only
while nobody holds it, and weak fairness is enough, because each other call takes it
once. That every path through `ExchangeCode` gives the lock back is not assumed, it
is what `EveryCallAnswered` checks: with a path that does not (`FindCodeKeepsLock`)
the calls behind it wait for ever. The mutex of the nonce store is taken and given
back within `CheckAndAdd`, one step. Nothing is assumed of clients, principals, the
clock or the network: no entry, consent or tick is fair. `EveryCallAnswered` and
the liveness half of `ImplementsGrantsFairly` rest on it.

For each property the project keeps a mutant, a plausible mistake in the code
such as a dropped test or a missing record (`...Unchecked`, `...Again`,
`...KeepsLock`), that makes TLC refute the property in the same run.

## 4. The proofs

All theorems hold for any constants that meet the named assumptions of the
modules: types, distinctness of the absent values, and that DA nonces and the
random identifiers of calls differ. Any number of calls, checks, DAs, codes and
clients may run, and clocks are unbounded.

*TokenEndpointProofs.* `SingleUse` is not inductive: that nobody else holds a
nonce follows from the nonce being in the store, and that it is there follows
from where the call stands. `Accounts` adds exactly this bookkeeping:

- `LocalsKept`, `UnderWay`: a call between entry and answer has a DA (and, in
  the short flow, a lifetime);
- `GrantsKept`: a call has a token exactly when it is granted, and that token
  bears its DA and its nonce (or, in the flows without a nonce, the identifier
  of the call);
- `NoncesKept`: the nonce of a call that holds it is in the store;
- `LockKept`: one call at a time is in the critical section of `ExchangeCode`, and the
  code it found there is unspent;
- `CodesKept`: the code of a call that left it is spent and stores the call's DA.

`InitialAccounts` and one lemma per action give `AccountsInvariant`; from it
follow `TypeCorrect`, `SingleUseHolds`, `CodeSpentOnceHolds` and
`CodeDeliversHolds`. `AuthorityTracedHolds` has an invariant of its own on top:
an exchange takes its actor from what was issued, so tracing back is inductive
in the chain. It says of the constraints what is so: they are those of the DA or the
consent, unless the token comes out of an exchange, which has none (section 5). TLC checks `Accounts` in `TokenEndpoint_grants`.

*TokenEndpointProofs, the grants.* `GrantsImplemented`: every step of the
endpoint is a step of one grant, or of one ticket, or leaves both maps alone.
Entries, exchanges, revocations and ticks move nothing; `NewAuthCode` opens a
ticket; a redemption spends it; `ValidateDelegation` claims a grant or refuses
a call that held none, `IssueToken` mints or burns it. `SingleUse` is what makes
the map well defined: if two calls held one nonce, minting one would leave the
grant claimed.

*TokenEndpointProofs, the tokens.* `IssuedIsAcceptableHolds` has no hypothesis on the
relation of capabilities. `Presentable`, in the property itself, asks for what has to
exist if the token is to be of use: an audience that validation accepts, and grants
within which the token's capabilities are (one with a character class or an
alternation is not within itself, section 5). Its invariant `SignedRight` says of every token signed from a DA which
fields come from the DA and how `iat` and `exp` lie to its `ts` and lifetime; that
`Validate` accepts it at every second until `exp` is then a matter of one conjunct
per step of `validate()`.

*ResourceServerProofs.* `RSTypeCorrect`, `ProofOnceHolds` and
`DelegationHonouredHolds` are about `RSSpec`, where the clock, the status map and
the wire change in any way between steps (`[]Surroundings` bounds only their
types): they do not depend on what the issuer does. `ProofOnceHolds` counts a check from the
moment its proof passed, whatever its verdict. `TokenReusableHolds` needs one
thing of it, `RevocationsStand`, that a revocation is never taken back: if it were, a
check refused for a revoked reference would disagree with a later one. `VerdictsStand`
is its invariant: what was permitted would pass with nothing revoked, and what was denied
fails against today's revocations too. A check with a proof is judged with the key of
that proof, so `ProvedAsMuch` compares checks with proofs by one key. A later check that fails where an
earlier one passed is then later than the token allows, or its token is revoked, since an
earlier second and fewer revocations turn no test from success to failure
(`ValidateMonotone`).

*AuthorizationSystemProofs.* `OneTokenPerDAHolds` composes: what was presented
was issued, `Accounts` holds of the endpoint inside the system, and so two
tokens under one nonce are one. `EndToEndDelegationHolds` goes
back from a decision to the principal in two halves. `Delegated`: what was decided was
judged against the DA in the token (`KeyedProofs`, every proof of possession has a key,
is used here). `Originated`: every token that embeds a DA goes back to one call that
redeemed that DA in person; an exchange copies the DA of its actor token and so its
origin, however long the chain, and a granted call stays granted (`GrantedStays`).
`SingleUse` makes that call the only one, and `DecisionGoesBack` puts the halves
together: what was asked is allowed by the token issued there.
`SystemImplementsResourceServer`: every behaviour of the system is one of `RSSpec`
with `RevocationsStand`, so all that is proved of the resource server holds in it.

*WorkloadIdentityProofs.* `WInv` ties each verification to its grant and proof,
which never change once they exist (`VerifierUndisturbed`), so that admission,
decided one step earlier, still holds at the replay store. `JtiPassesOnceHolds`
assumes `Configured`; `TypeCorrect`, `SpentInPlaceHolds`, `ProofOfHolderHolds` and
`WithinGrantHolds` need nothing. `WithinGrantHolds` relates a permission to the PA that
was shown at issuance, and says nothing of who signed it, since the code does not look.

*DemoPageProofs.* That no handler meets a missing artefact is not inductive: the
handler read `ui` some steps ago, and what lets it is a button another handler
enabled. `PageSound` says that artefacts presuppose each other (`Chain`), that an
enabled button has its artefacts (`ButtonsSound`), that a handler, by the promise
it waits for, has on the page what its next steps need and in `seen` what it works
on (`Supplied`, `Equipped`), and which keys and capabilities artefacts carry
(`Original`). Artefacts are replaced but never taken away while handlers are in
flight (`Extends`), which makes it inductive (`PageInvariant`). `NothingMissingHolds`
follows. For `PermitCoherentHolds` a second part evaluates the gateway: a verdict is
the row of the first of seven checks that fails (`PermitIffAll`), and in each
scenario but the happy one some check fails whatever world is presented
(`PermittedIsHappy`). `OverreachRefusedHolds` and that part rest on
`PolicyAssumption`, which says of the demo's constants which of them cover which.

*DemoPageProofs, the steps.* The properties of a user who only clicks, however fast, or who
only watches one `autoRun` (`Undisturbed`). Their invariant `Flow`: the artefacts
are in one of six stages (`Fresh`, `Named`, `Requested`, `Approved`, `Founded`,
`Certified`), the promise a handler waits for determines the stage (`Stage`), and
beside a handler that changes the page none is in flight, so what it read at its
start is still on the page (`InStep`). For clicks this holds because the buttons
wait for the busy handler (`Clicked`), for `autoRun` because it calls its steps
itself (`Automatic`). `FlowInvariant` keeps it as long as the user is undisturbed;
`NextStepOfferedHolds`, `ArtefactsAgreeHolds` and `AutoDeliversHolds` read off it.
`VerdictsAsAdvertisedHolds` needs one thing more: in the stage `Certified` each
scenario passes every check before its own and fails that one (`FailsAt`).

*CapabilityProofs.* For patterns and values of every size. Two things come first.
`Induction` follows from the least-number principle (the library's induction takes an
operator, which the provers cannot instantiate). `RecursiveFunctionExists`: a recursive
definition whose value at each argument depends only on values of smaller
measure defines a function; every recursive function of the model is unfolded with it.
The matcher backtracks twice, over characters inside a token and over tokens; both are
one argument. `SearchFindsCut`: a table whose cell (i, j) says that pieces from i on can
be laid out from j on is true at its first cell exactly when there is a cut, and
`CutIffLayout` turns a cut into the lengths `Splits` asks for. `MatchTokenIsPartition`
and `MatchPatternIsPartition` are its two instances. On them rest the order properties:

- `TokensCompose`: if one token matches another and that one a word, the first matches
  the word; `FlatCovers` lifts it to patterns, through the table, for agents without
  `**`; `PatternCovers` adds the scheme-level shortcuts.
- `CapabilitySubsetIsSome`: the loop that keeps the best score returns true exactly
  when some grant matches and admits the parameters.
- `WithinIsTransitive`: `paramsWithin` composes, by induction on `Depth`.

*CarrierProofs.* For AICs of any size, and DER elements with up to three octets of
length. A certificate extension is a list of fields of which some are optional, so that each
option shifts what follows. One lemma per structure (`AICLayout`, `TBSLayout`, ...) says
where every field stands whatever is present, and the reader looks there:
`CertificateReadsBack` takes any AIC. The signature does not compare the two AICs, it
compares what is encoded under it, so `SignatureSpeaks` needs that encoding to be
injective: `ReadTBS` is a left inverse of it, which finds the fields from both ends, and it
exists because a lifetime of at least one second is always written. `ClaimsWrittenOut`
spells out the claims of the DA and of the token, `ClaimsAreSigned` finds in what is
signed every field they are made of; the extensions alone are not there, so the theorem
compares the claims without them (`SignedClaims`, section 5). Octets:

- `DigitsAre`: the digits of a number, read from the left, are the number, by induction
  along division; `BytesCount` bounds how many there are;
- `ElementReads`: an element with up to three octets of length is read back wherever it
  stands; `DerIntReads`: so is an integer, whose top bit is never set;
- `ChildrenOne`, `ChildrenTwo`, `OneChild`: what the walk of `derChildren` finds;
  `DerToRawReads` is the DER form of a signature, with numbers of up to 60 octets,
  `RawStays` the raw form, at the length of the model's curve;
- `OidReadsBack`: the reader's state after each octet (`Decoded`) is what has been read and
  the arc begun; continued groups carry an arc on (`DecodedContinued`), the last ends it.

*CoreFunctionsProofs.* The laws of a call. `StepCalls` says what a step can have
called, with which arguments; each law is then a lemma about one operator:
`PrefixIsBits` (two addresses agree on a prefix of n bits exactly when their quotients
by 2^(Bits-n) are equal), `DroppedBits` and `CidrThrowsWhen` (which text after the slash leaves how many bits to
compare, and which throws), together `CidrBlock`;
`WindowArc` (a window, over midnight or not, is an arc, and where its ends are the same
minute, that minute), `ConstraintsAreConjoined` (the loop with its early returns is a
conjunction over what is found, the members of the prototype included), and those of
the two modules above.

What they assume: `WordsAssumption` (alternations and classes stand for sets of words, and neither `*` nor a separator is one of them), `AlternationAssumption` (a pattern is cut
at its separators first, so that no word of an alternation has one), `RefusedAssumption`
(the harness refuses neither `*` nor a separator), `ValuesAssumption` (`Depth`
measures the nesting of JSON values, which are well founded), `ArgumentsAssumption`
(arguments are what the tokenizer and the parsers return; AICs have the types of
`x509_bridge.ts:24-62`; sizes and integers have at most three octets, since the reader
assembles longer lengths in a signed number; the second arc of an object identifier is
below 40; a prefix length is one of the five kinds of text), `WidthAssumption`. What is
asked of the arguments inside a law is there because the claim is false without it:
`GrantCoversFlatAgent` needs an agent without `**` (section 5), grants that are `Regular`
and schemes that are words. `{a*,b}` matches the token `a*` and not what `a*` matches;
`s:***` matches the pattern `s:*`, which is scheme-level, and nothing with a slash; with a
wildcard for a scheme `*:x` would escape `*:*`, which stands for the scheme `*` alone.
`WindowIsArc` asks for times of the day, since the parser lets `99:99` through.

*CoreFunctionsProofs, core and harness.* `HarnessAgreesWithCoreHolds`, for ids of any
length, alternations and classes of any words (with dots, or refused), values of any depth and any list of
grants. The core lays a pattern out token by token; the harness runs a glob over the
characters of the id, separators among them. Both are tables filled from their ends, so
the proof relates cells:

- `GlobTableExists`: `Glob` reads the first cell of a table whose step is `GlobStep`;
- `IdOffsets` places the tokens of a tokenized pattern in its id, `SlashesAre` counts its
  slash tokens in the characters, by a bijection, so both sides agree on whether the
  segments are matched one by one or the whole string at once;
- forward: where the core matches a token against a word, `WordForward` carries the glob
  from the end of the token back to its beginning, and `IdForward` does so from token to
  token; `CoreThenHarness` is the result;
- backward: what a glob takes may cross a token's end. `TokenBackward` cuts it there: the
  rest of the glob starts at a separator and takes it literally (`SeparatorBackward`),
  since no `*` takes a slash and the id has no colon. `WordBackward` matches the word with
  the token; `IdBackward` and `HarnessThenCore` sum up;
- `PrefixStands` and `StandsPrefix`: a word of an alternation without a dot stands in the
  id exactly where it is a piece of it; `NoneRefused`: what is not `Stricter` has no
  character that the harness turns down;
- `CoreThenHarnessParams` and `HarnessThenCoreParams`: parameters, by induction on
  `Depth`; `CoreThenHarnessCovers` and `HarnessThenCoreCovers`: lists of grants.

The exceptions of the law (`Stricter`, `StricterParams`, `Laxer`, `LaxerParams`; section 5)
are the real differences: with any of them dropped TLC finds a counterexample in
`CoreFunctions_laws`. An earlier form of the law held in TLC's instance and was false for
other constants: it knew of no class that lists a slash, no `**` inside a token and no
extra member of an inner object.

Model-checked only: the liveness properties, and the fairness half of the refinement.
Liveness and `ENABLED` are outside the prover's reach. Every invariant that a passing run
checks is a theorem.

## 5. Disagreements between code and documents

Shown by a run that TLC refutes, with the lines quoted in `PROJECT.json`:

- **Revocation has no effect** (`System_revoke`). `Revoke` stores a `jti`;
  `StatusCheckerFor` looks up the URI of the token's status claim, which no flow
  writes.
- **`cnf` is not compared with the key binding without a proof**
  (`System_binding`). The draft requires the comparison before a version 3 token
  is accepted; the code compares both with the presenter key, when one is given.
- **PA constraints are not evaluated** (`System_pa`). The draft wants the
  conjunction of token and PA constraints.
- **A grant without `**` admits an agent capability with it**
  (`CoreFunctions_subset`). `capabilitySubset` matches the agent's pattern as if it
  were a request, in which `**` is an ordinary token: `s:a:*` admits `s:a:**`, which
  then allows `s:a:b:c`. The draft wants a subset. Without `**` in the agent's
  pattern the claim holds (`GrantCoversFlatAgent`).
- **An unset replay store remembers nothing** (`WorkloadIdentity_replay`).
  `Verify` makes a store per call; the TypeScript twin makes one per verifier.

Seen while modelling, without a run of their own. First those in which more is accepted
than a document asks for:

- **The signer of a PA is not compared with the principal it names**: issuance verifies
  the PA under the key in its own header and discards that key
  (`wit-wpt-interop/go/issuer.go:75`, `ts/src/issuer.ts:67`), where for a DA it compares
  the key's hash. A PA that anyone signed in the principal's name bounds the grant, which
  is all that `WithinGrant` claims.
- **Malformed prefix lengths do not all fail closed** (`ts/aicjwt.ts:663-673`). `Number`
  of nothing is 0, so the range `10.0.0.0/` admits every IPv4 address (and `::/` every
  IPv6 one); a word is NaN, which passes the guard and leaves the one address; a fraction
  is rounded up. In IPv6 the last two throw. `CidrIsBlock` states all of this.
- **A constraint of an unknown type is accepted** with a note in the audit unless the
  caller is strict (`ts/aicjwt.ts:731-736`); draft 972-977 says that it MUST be rejected,
  not ignored. `ConstraintsConjoin` states both callers' cases. The names of
  `Object.prototype` are not unknown: `constructor` and `toString` are found in the
  table (`ts/aicjwt.ts:730`) and pass, also for a strict caller and without a note; the
  others throw.
- **A time window whose ends are the same is one minute** (`ts/aicjwt.ts:704-714`); draft
  984-986 makes it the full 24 hours. `WindowIsArc` states the code's reading.
- **The token's extensions are not signed by the principal**: `mapToClaims` copies them
  from the certificate (`ts/x509_bridge.ts:309-314`), `encodeTBS` has no field for them.
  `SignatureCoversDA` is about all other claims, and false with them.
- The words of an alternation enter the TypeScript harness's RegExp unescaped
  (`wit-wpt-interop/ts/src/subset.ts:63-70`), so that in `{a.b,c}` the dot takes any
  character; the Go harness quotes them. A class with a reversed range (`[b-a]`), and an
  id or alternation with a character outside the list, covers nothing there.
- An audience that is empty, or has an empty string in it, is issued and then refused by
  `validate()` (`ts/aicjwt.ts:758-759`), after the DA's nonce is spent: hence
  `Presentable` in `IssuedIsAcceptable`.

And the others:


- Short issuance works once per DA: the comment at `oauth.go:193` promises a fresh
  token for every call, the nonce store refuses the second.
- The audit report labels a bad DA signature as row 1, the certificate's
  (`demo/src/lib/verify.ts:44-61`): no phrase of the pattern list fits its message.
- Two overlapping step-4 handlers leave a CA on the page that did not issue the
  certificate beside it; a step 4 that fails leaves no step button enabled.
  `ArtefactsAgree` is therefore about undisturbed users, `PermitCoherent` about all.
- `derToRawECDSA` pads to the longer half, not to the curve: when both halves are
  short the result is too, which is why `SignatureFormsAgree` asks for a full one. A raw
  signature whose first octets happen to read as a SEQUENCE header of its own length, in
  the short or the long form, and whose rest is not DER, makes it throw: the second `derChildren` (`x509_bridge.ts:394`) is
  outside the `try`, though the comment above says that both forms are accepted.
- In the TBS, mode and lifetime are optional integers side by side: with lifetime 0,
  outside the draft's range, two AICs have one encoding.
- `derOid` and `decodeOid` agree for second arcs below 40 only; `readElement`
  assembles lengths with signed 32-bit shifts.
- `subset.ts:25` says that the whole-string fallback lets `**` span segments, but
  `globToRegex` takes no pattern with a slash, so `a/**` never matches `a/b/c`.
- Core and harness differ in what they cover, and `HarnessAgreesWithCore` lists where. The
  harness refuses what the core admits: `s:*` does not reach over a slash, `**` spans
  none in a pattern that has one, a scheme is compared as it is, an empty array allows
  nothing. And it admits what the core refuses: `*` takes colons; `**` inside a token and a class
  that lists the slash take slashes; a dot in an alternation takes anything; members that the grant lacks are not looked at, at any depth; an
  array is an enumeration, of which one element will do; a null inside an object bounds
  nothing. Its parameter coverage is not transitive (the array `[5]` covers 5, and 5
  covers 3), so `ParamsCompose` is about the core. `[^a]` lists a caret and an a in the core
  and negates in the harness: such classes are left out of the model.
- `TokenExchange` drops the actor's constraints, which makes the result of
  exchanging a constrained DA token unacceptable to `validate()` and leaves an
  exchanged lightweight token unconstrained (`oauth.go:550`): wider than the consent it
  goes back to. `AuthorityTraced` says that this is the only way a token is wider.
- A DA whose `ts` lies ahead of the issuer's clock yields a token that lives longer
  than the requested lifetime and that `validate()` rejects (`oauth.go:171`), which
  is why `IssuedIsAcceptable` speaks of DAs signed in the past.
- A WIT issued for a representative DA carries the PA's grants as its entitlement,
  of which the DA may have asked for a part (`wit-wpt-interop/go/issuer.go:97`),
  which is why `WithinGrant` speaks of the PA in that mode.
- A scheme may be a wildcard: the draft forbids it (line 844), and nothing looks. `*:x`
  matches `x` under every scheme, `*:*` is a scheme-level grant for the scheme `*` alone.
- A capability with a character class or an alternation does not match itself, so
  the matching relation is reflexive on the others only.

## 6. Not modelled

- The Go core `github.com/varwof/types`: not in the repository. Its rules are
  modelled from the TypeScript implementation, `OAuthSubject` from its use.
- Cryptography, JSON, base64url, the text forms of addresses and times: formats and
  library calls. Malformed DER: the readers are given what the writers wrote.
- The TypeScript `verifyDPoP`: the Go one is modelled; nothing calls the other.
- The page of the WIT demo: it disables its button and awaits one scenario at a
  time. Its library is the harness's.
- The technical panel, the texts (`demo/src/lib/i18n.ts`) and the layout of the CA
  demo: display.
- The fixtures in `verify/`: input and output of third-party libraries.
- Restarts: all stores are in memory and start empty; a restart forgets every
  nonce, which the draft forbids and the code does not prevent.
- Pruning of nonces and proof ids: the code has none.
- `Replay` stores other than `MemoryReplayStore`, and several issuers.

## 7. What could follow

Restart actions for issuer and resource server, once a store that persists exists.
