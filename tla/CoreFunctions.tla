----------------------------- MODULE CoreFunctions -----------------------------
(***************************************************************************)
(* The pure functions of ts/ and of wit-wpt-interop/ts, each called once   *)
(* with some arguments: a behaviour is one call and its result.  What a    *)
(* function should return is stated beside it in another form, or as a law *)
(* that relates calls.                                                     *)
(***************************************************************************)
EXTENDS HarnessCoverage, ConstraintEvaluators, DerCodec, X509Bridge

CONSTANTS
  Patterns,    \* capability patterns
  Literals,    \* patterns without wildcards: what requests ask for
  GrantLists,  \* sequences of capabilities [pattern, params]
  AgentCaps,   \* capabilities [pattern, params]
  Cidrs,       \* ranges [family, addr, length]
  Addresses,   \* addresses [family, addr]
  Windows,     \* time windows [start, end]
  Lists,       \* sequences of constraints
  Contexts,    \* request contexts [ip, running, now]
  Sizes,       \* lengths and integers
  OIDs,        \* object identifiers
  Octets,      \* octets of raw signatures
  AICs,        \* certificate extensions
  SignedAICs,  \* those whose signatures are compared with each other
  Overrides,   \* bridge options [now, lifetime, audience]
  NoCall

\* What tokenize makes of "scheme:id", with a scheme of one word: words at the
\* odd places, separators between them and nowhere else.
Tokenized(p) ==
  /\ p \in Seq(Seq(STRING)) /\ Len(p) >= 3 /\ Len(p) % 2 = 1
  /\ \A n \in DOMAIN p : p[n] \in {Slash, Colon} <=> n % 2 = 0
  /\ \A n \in DOMAIN p : n % 2 = 1 => Range(p[n]) \cap {"/", ":"} = {}
  /\ p[2] = Colon

IsCapability(c) == Tokenized(c.pattern) /\ c.params \in Values

Lengths == {<<"none", 0>>, <<"empty", 0>>, <<"word", 0>>}
           \cup ({"digits", "half"} \X Int)

ASSUME ArgumentsAssumption ==
  /\ \A p \in Patterns \cup Literals : Tokenized(p)
  /\ \A c \in AgentCaps : IsCapability(c)
  /\ \A grants \in GrantLists :
       /\ Len(grants) \in Nat /\ DOMAIN grants = 1..Len(grants)
       /\ \A n \in DOMAIN grants : IsCapability(grants[n])
  /\ \A x \in Addresses \cup Cidrs : x.addr \in 0..(Pow2[Bits] - 1)
  /\ \A c \in Cidrs : c.length \in Lengths
  /\ \A cs \in Lists : Len(cs) \in Nat /\ DOMAIN cs = 1..Len(cs)
  /\ \A n \in Sizes : n \in Nat /\ n < 256 * 256 * 256  \* lengths of up to three octets
  /\ Octets \subseteq Nat
  /\ \A oid \in OIDs : oid \in Seq(Nat) /\ Len(oid) >= 2 /\ oid[2] < 40
  /\ AICs \cup SignedAICs \subseteq X509AIC

VARIABLE call

Called(fn, args, result) == call' = [fn |-> fn, args |-> args, result |-> result]

CallMatchPattern(p, t) ==
  Called("matchPattern", <<p, t>>, MatchPattern(p, t))

CallMatchToken(p, t) == Called("matchToken", <<p, t>>, MatchToken(p, t))

CallCapabilitySubset(agent, grants) ==
  Called("capabilitySubset", <<agent, grants>>,
         CapabilitySubset(agent, grants))

CallParamsWithinGrant(g, a) ==
  Called("paramsWithinGrant", <<g, a>>, ParamsWithinGrant(g, a))

\* What follows the scheme in "scheme:id".
IdOf(p) == FlattenSeq(SubSeq(p, 3, Len(p)))

ToHarness(c) == [scheme |-> c.pattern[1], id |-> IdOf(c.pattern),
                 params |-> c.params]

CallMatchID(p, t) == Called("matchID", <<p, t>>, MatchID(IdOf(p), IdOf(t)))

CallParamsSubset(a, g) == Called("paramsSubset", <<a, g>>, ParamsSubset(a, g))

CallHarnessCovers(agent, grants) ==
  Called("capabilitiesCovered", <<agent, grants>>,
         HarnessCovers(<<ToHarness(agent)>>,
                       [n \in DOMAIN grants |-> ToHarness(grants[n])]))

CallCidrContains(ip, cidr) ==
  Called("cidrContains", <<ip, cidr>>,
         [holds |-> CidrContains(ip, cidr), throws |-> CidrThrows(ip, cidr)])

CallTimeWindow(w, now) ==
  Called("evalTimeWindow", <<w, now>>, EvalTimeWindow(w, now))

CallConstraints(cs, ctx, strict) ==
  Called("evaluateConstraints", <<cs, ctx, strict>>,
         EvaluateConstraints(cs, ctx, strict))

CallReadElement(tag, size) ==
  LET content == [n \in 1..size |-> n % 256]
  IN  Called("readElement", <<tag, content>>,
             ReadElement(TL(tag, content) \o <<INTEGER>>, 1))

CallDerInt(n)   == Called("derInt", <<n>>, DerInt(n))
CallDerOid(oid) == Called("derOid", <<oid>>, DerOid(oid))

CallDerToRaw(r, s) ==
  LET der == TL(SEQUENCE, TL(INTEGER, DerInt(r)) \o TL(INTEGER, DerInt(s)))
  IN  Called("derToRawECDSA", <<r, s>>, DerToRawECDSA(der))

CallRawToRaw(raw) == Called("rawToRaw", <<raw>>, DerToRawECDSA(raw))

CallFindAIC(a) == Called("findAIC", <<a>>,
                         FindAIC(BuildAICCertificate(a, "spki")))

\* The signature over one AIC is presented with another.
CallVerifyDelegation(a, b) ==
  LET shown == [b EXCEPT !.auth.sig = Sign(a, "principal").auth.sig]
  IN  Called("verifyDelegation", <<a, b>>, VerifyDelegation(shown, "principal"))

Init == call = NoCall

Next ==
  /\ call = NoCall
  /\ \/ \E p \in Patterns, t \in Patterns \cup Literals :
          CallMatchPattern(p, t) \/ CallMatchID(p, t)
     \/ \E p \in UNION {Range(q) : q \in Patterns},
           t \in UNION {Range(q) : q \in Literals} : CallMatchToken(p, t)
     \/ \E agent \in AgentCaps, grants \in GrantLists :
          \/ CallCapabilitySubset(agent, grants)
          \/ CallHarnessCovers(agent, grants)
     \/ \E g \in Values, a \in Values :
          CallParamsWithinGrant(g, a) \/ CallParamsSubset(a, g)
     \/ \E ip \in Addresses, cidr \in Cidrs : CallCidrContains(ip, cidr)
     \/ \E w \in Windows, now \in 0..(Day - 1) : CallTimeWindow(w, now)
     \/ \E cs \in Lists, ctx \in Contexts, strict \in BOOLEAN :
          CallConstraints(cs, ctx, strict)
     \/ \E tag \in {SEQUENCE, INTEGER}, size \in Sizes : CallReadElement(tag, size)
     \/ \E n \in Sizes : CallDerInt(n)
     \/ \E oid \in OIDs : CallDerOid(oid)
     \/ \E r \in Sizes, s \in Sizes : CallDerToRaw(r, s)
     \/ \E raw \in [1..4 -> Octets] : CallRawToRaw(raw)
     \/ \E a \in AICs : CallFindAIC(a)
     \/ \E a \in SignedAICs, b \in SignedAICs : CallVerifyDelegation(a, b)

Spec == Init /\ [][Next]_call

Result(fn) == call # NoCall /\ call.fn = fn
Arg(n)     == call.args[n]

-----------------------------------------------------------------------------
(* Capability patterns and parameters.                                     *)

\* t is the concatenation of pieces of at least least elements, one for each
\* element of p, that fit it.
Splits(p, t, least, Fits(_, _)) ==
  \E len \in [DOMAIN p -> least..(Len(t) - least * (Len(p) - 1))] :
    LET end[n \in 0..Len(p)] == IF n = 0 THEN 0 ELSE end[n - 1] + len[n]
    IN  /\ end[Len(p)] = Len(t)
        /\ \A n \in DOMAIN p : Fits(p[n], SubSeq(t, end[n - 1] + 1, end[n]))

CharFits(c, piece) ==
  \/ c = "*"
  \/ c \in Alternations \cup Classes /\ piece \in Words[c]
  \/ c \notin Alternations \cup Classes /\ piece = <<c>>

TokenFits(p, piece) ==
  \/ p = Deep
  \/ p = One /\ piece \notin {<<Slash>>, <<Colon>>} /\ Len(piece) = 1
  \/ p \notin {Deep, One} /\ Len(piece) = 1
     /\ Splits(p, piece[1], 0, CharFits)

\* The backtracking matcher (07-capability, aicjwt.ts:439-493) finds a match
\* exactly when the target can be cut into pieces that fit the tokens of the
\* pattern one by one, ** taking at least one token.
MatchingIsPartition ==
  /\ Result("matchPattern") /\ ~SchemeLevel(Arg(1)) =>
       (call.result > 0)
         = (Len(Arg(1)) <= Len(Arg(2)) /\ Splits(Arg(1), Arg(2), 1, TokenFits))
  /\ Result("matchToken") => call.result = Splits(Arg(1), Arg(2), 0, CharFits)

\* The loop over the scores (aicjwt.ts:601-611) is order independent: an agent
\* capability is within the grants exactly when one of them matches its
\* pattern and admits its parameters, also when a better match does not.
SubsetIsSomeGrant ==
  Result("capabilitySubset") =>
    call.result = \E n \in DOMAIN Arg(2) :
                    /\ MatchPattern(Arg(2)[n].pattern, Arg(1).pattern) > 0
                    /\ ParamsWithinGrant(Arg(2)[n].params, Arg(1).params)

Covered(agent, grants) ==
  \A t \in Literals : MatchPattern(agent.pattern, t) > 0 =>
    \E n \in DOMAIN grants : MatchPattern(grants[n].pattern, t) > 0

Plain(word) == \A m \in DOMAIN word : word[m] \notin {"*"} \cup Special

\* No token matches a pattern and covers less than it: a word of an
\* alternation is no pattern itself ({a*,b} matches a* and nothing else of
\* it), and what matches the token * is * or ** (*** is one token to the end).
\* Draft section 6 allows no wildcard in a scheme, and the code does not look.
Regular(p) ==
  /\ Plain(p[1])
  /\ \A n \in DOMAIN p :
       /\ MatchToken(p[n], One) => p[n] \in {One, Deep}
       /\ \A m \in DOMAIN p[n] :
            p[n][m] \in Special => \A w \in Words[p[n][m]] : Plain(w)

\* What an agent may be delegated stays inside the grant it was matched with:
\* every request its pattern allows, some grant's pattern allows.  This holds
\* for agents without **, with a scheme that is a word, and regular grants;
\* GrantCoversAgent is the whole claim.
GrantCoversFlatAgent ==
  Result("capabilitySubset") /\ call.result
  /\ Plain(Arg(1).pattern[1]) /\ Deep \notin Range(Arg(1).pattern)
  /\ (\A n \in DOMAIN Arg(2) : Regular(Arg(2)[n].pattern)) =>
    Covered(Arg(1), Arg(2))

\* docs/draft-wei-aic-jwt-02.md:1027: "`C_agent` MUST be a subset of the
\* principal's current grants".
GrantCoversAgent ==
  Result("capabilitySubset") /\ call.result => Covered(Arg(1), Arg(2))

\* Narrowing composes (draft section 6.3): what is within the parameters of an
\* agent that is within a grant, is within the grant.
ParamsCompose ==
  Result("paramsWithinGrant") /\ call.result =>
    \A b \in Values :
      ParamsWithinGrant(Arg(2), b) => ParamsWithinGrant(Arg(1), b)

Leaves(v) ==
  LET leaves[u \in Values] ==
        IF u[1] = "obj" THEN UNION {leaves[u[2][k]] : k \in DOMAIN u[2]} ELSE {u}
  IN  leaves[v]

\* a nests the same members as g.
SameKeys(g, a) ==
  LET same[v \in Values] ==
        [u \in Values |->
           v[1] = "obj" =>
             /\ u[1] = "obj" /\ DOMAIN u[2] = DOMAIN v[2]
             /\ \A k \in DOMAIN v[2] : same[v[2][k]][u[2][k]]]
  IN  same[g][a]

\* Where the harness is known to be stricter: a scheme-level grant does not
\* reach over a slash, ** spans none in a pattern that has one, a scheme is
\* compared as it is, some characters, alternations and classes are refused,
\* and an empty array allows nothing.
Stricter(p) ==
  \/ SchemeLevel(p)
  \/ ~Plain(p[1])
  \/ Slash \in Range(p) /\ Deep \in Range(p)
  \/ \E n \in 3..Len(p) : Range(p[n]) \cap Refused # {}
StricterParams(g) == \E v \in Leaves(g) : v[1] = "arr" /\ v[2] = {}

\* Where it is known to be laxer: * takes colons; ** next to other characters,
\* and a class that lists the slash ([--9]), take slashes; a dot in a word of
\* an alternation ({a.b,c}) takes any character; a member that the
\* grant does not have is not looked at, at any depth; one element of an array
\* is as good as an array; and a null inside an object bounds nothing.
Laxer(p, t) ==
  \/ ~Plain(p[1])
  \/ Colon \in Range(Drop(t, 2))
  \/ \E n \in 3..Len(p) : \E m \in DOMAIN p[n] :
       \/ p[n][m] = "*" /\ m < Len(p[n]) /\ p[n][m + 1] = "*"
       \/ p[n][m] \in Special /\ \E w \in Words[p[n][m]] : "/" \in Range(w)
       \/ p[n][m] \in Alternations /\ \E w \in Words[p[n][m]] : "." \in Range(w)
LaxerParams(g, a) ==
  \/ \E v \in Leaves(g) : v \in Absent \/ v[1] = "arr"
  \/ ~SameKeys(g, a)

\* The two implementations of "C_agent is within the grants" agree but for what
\* is listed above: what the core takes for covered (ts/aicjwt.ts:601) the
\* issuance harness covers too (wit-wpt-interop/ts/src/subset.ts:194), and what
\* the harness covers the core does.  matchID compares what follows the scheme.
HarnessAgreesWithCore ==
  /\ Result("matchID") =>
       LET core == MatchPattern(Arg(1), Arg(2)) > 0
       IN  /\ core /\ ~Stricter(Arg(1)) => call.result
           /\ call.result /\ Arg(1)[1] = Arg(2)[1] /\ ~Laxer(Arg(1), Arg(2)) => core
  /\ Result("paramsSubset") =>
       LET core == ParamsWithinGrant(Arg(2), Arg(1))
       IN  /\ core /\ ~StricterParams(Arg(2)) => call.result
           /\ call.result /\ ~LaxerParams(Arg(2), Arg(1)) => core
  /\ Result("capabilitiesCovered") =>
       /\ (\E n \in DOMAIN Arg(2) :
             LET g == Arg(2)[n]
             IN  /\ CapabilitySubset(Arg(1), <<g>>)
                 /\ ~Stricter(g.pattern) /\ ~StricterParams(g.params))
            => call.result
       /\ call.result
          /\ (\A n \in DOMAIN Arg(2) :
                LET g == Arg(2)[n]
                IN  /\ ~Laxer(g.pattern, Arg(1).pattern)
                    /\ ~LaxerParams(g.params, Arg(1).params))
            => CapabilitySubset(Arg(1), Arg(2))

-----------------------------------------------------------------------------
(* Constraints.                                                            *)

\* The i-th bit from the top.
Bit(x, i) == (x \div Pow2[Bits - i]) % 2

\* How many bits of its address a range stands for, by what is written: a
\* fraction counts as the next whole number, and nothing as none.
BitsOf(length) ==
  CASE length[1] = "digits" -> length[2]
    [] length[1] = "half"   -> length[2] + 1
    [] length[1] = "empty"  -> 0
    [] OTHER                -> Bits

\* A range with a whole length, or without one, holds the addresses of its
\* family that agree with it bit by bit on its prefix: all of them for /0, one
\* for /32.  That a malformed length fails closed is not so: "10.0.0.0/" holds
\* every IPv4 address, a fraction is rounded up, and a word leaves the one
\* address; only IPv6 throws on the last two, which rejects the request.
CidrIsBlock ==
  Result("cidrContains") =>
    LET ip   == Arg(1)
        cidr == Arg(2)
        kind == cidr.length[1]
    IN  /\ call.result.throws =
             /\ ip.family = 6 /\ cidr.family = 6
             /\ kind = "word" \/ (kind = "half" /\ cidr.length[2] \in 0..(Bits - 1))
        /\ call.result.holds =
             /\ ip.family = cidr.family /\ ~call.result.throws
             /\ kind = "digits" => cidr.length[2] \in 0..Bits
             /\ kind = "half"   => cidr.length[2] \in 0..(Bits - 1)
             /\ \A i \in 1..BitsOf(cidr.length) : Bit(ip.addr, i) = Bit(cidr.addr, i)

\* A window whose ends differ is the arc of the clock from its start to its
\* end, both included, over midnight or not, if both are times of the day
\* (99:99 is parsed too).  One whose ends are the same minute is that minute;
\* the draft (docs/draft-wei-aic-jwt-02.md:984-986) makes it the full day.
WindowIsArc ==
  Result("evalTimeWindow")
  /\ Arg(1).start \in 0..(Day - 1) /\ Arg(1).end \in 0..(Day - 1) =>
    /\ Arg(1).start # Arg(1).end =>
         call.result = ((Arg(2) - Arg(1).start) % Day
                          <= (Arg(1).end - Arg(1).start) % Day)
    /\ Arg(1).start = Arg(1).end => call.result = (Arg(2) = Arg(1).start)

\* What is built in is a conjunction: each constraint has to hold, in any
\* order, and one of an unknown type neither saves nor hides another.  That one
\* itself is what the caller makes of it: a strict caller rejects it, as the
\* draft wants of everyone (docs/draft-wei-aic-jwt-02.md:972-977), and a
\* lenient one accepts it and is told, once for each.  The ids that
\* Object.prototype has are not unknown, and two of them hold (Returning).
ConstraintsConjoin ==
  Result("evaluateConstraints") =>
    LET cs == Arg(1)
        Holds(n) == /\ cs[n].known
                    /\ cs[n].id \in Found => Evaluate(cs[n], Arg(2))
                    /\ Arg(3) => cs[n].id \in Found
    IN  /\ call.result.ok = \A n \in DOMAIN cs : Holds(n)
        /\ call.result.ok =>
             call.result.notes
               = Cardinality({n \in DOMAIN cs : cs[n].id \notin Found})

-----------------------------------------------------------------------------
(* DER and the X.509 carrier.                                              *)

\* What the writer writes the reader reads back, over the boundaries of the
\* short and long forms, and it stops where the element ends.
DerReadsBack ==
  /\ Result("readElement") =>
       /\ call.result.ok
       /\ call.result.tag = Arg(1) /\ call.result.content = Arg(2)
       /\ call.result.next = Len(TL(Arg(1), Arg(2))) + 1
  /\ Result("derInt") =>
       DerIntValue(call.result) = Arg(1) /\ Head(call.result) < 128
  /\ Result("derOid") => DecodeOid(call.result) = Arg(1)

\* Length of r and of s on the curve of the model, in octets.
Curve == 2

\* x509_bridge.ts:383-384 accepts both forms of an ECDSA signature: a DER one
\* becomes r||s, and a raw one stays as it is.  The length of the halves is
\* taken from the longer one, so at least one has to fill the curve's; and a
\* raw one must not begin as a SEQUENCE of just its length does, in the short
\* or the long form.
SignatureFormsAgree ==
  /\ Result("derToRawECDSA")
     /\ (\A n \in {1, 2} : Len(Bytes(Arg(n))) <= Curve)
     /\ (\E n \in {1, 2} : Len(Bytes(Arg(n))) = Curve) =>
       call.result = PadTo(Bytes(Arg(1)), Curve) \o PadTo(Bytes(Arg(2)), Curve)
  /\ Result("rawToRaw")
     /\ SubSeq(Arg(1), 1, 2) # <<SEQUENCE, Len(Arg(1)) - 2>>
     /\ SubSeq(Arg(1), 1, 3) # <<SEQUENCE, 129, Len(Arg(1)) - 3>> =>
       call.result = Arg(1)

Canonical(a) ==
  [a EXCEPT !.uid.hashAlgo = IF @ = NoOid THEN Sha256 ELSE @]

\* The extension survives the certificate: whatever optional fields it has and
\* whichever defaults it relies on, parsing finds the fields that were encoded
\* (a missing hash algorithm is SHA-256).
AICReadsBack ==
  Result("findAIC") => call.result = <<Canonical(Arg(1))>>

\* The claims but the token's extensions, which encodeTBS leaves out: they are
\* the only ones the principal does not sign.
SignedClaims(claims) ==
  [n \in DOMAIN claims |-> [claims[n] EXCEPT !.outer.aic.extensions = <<>>]]

\* The principal's signature speaks for the claims: a signature that verifies
\* over another AIC, of a lifetime in the range the draft allows, gives the
\* claims of the DA and of the token around it that its principal signed, all
\* but the token's extensions.  (Mode and lifetime are optional integers side by
\* side: with lifetime 0 the encodings of two different AICs coincide.)
SignatureCoversDA ==
  Result("verifyDelegation") /\ call.result
  /\ Arg(1).auth.lifetime >= 1 /\ Arg(2).auth.lifetime >= 1 =>
    \A o \in Overrides : SignedClaims(MapToClaims(Arg(1), o))
                        = SignedClaims(MapToClaims(Arg(2), o))
=============================================================================
