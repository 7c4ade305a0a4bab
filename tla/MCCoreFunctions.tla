---------------------------- MODULE MCCoreFunctions ----------------------------
(***************************************************************************)
(* Arguments for the functions of CoreFunctions.                           *)
(***************************************************************************)
EXTENDS CoreFunctions

CONSTANTS sha256, sha512, md5, noOid, noParams

AB == "{a,b}"  \* an alternation, and a class of the same letters
AC == "[a-b]"
AD == "[--9]"  \* from - to 9: the slash lies between them
AE == "{a.b,c}"
AF == "[b-aa]" \* an empty range and a letter: RegExp throws

WordsOf ==
  [c \in {AB, AC} |-> {<<"a">>, <<"b">>}] @@ (AD :> {<<"-">>, <<"/">>})
  @@ (AE :> {<<"a", ".", "b">>, <<"c">>}) @@ (AF :> {<<"a">>})

Scheme == <<"s">>
Other  == <<"q">>
Names  == {<<"a">>, <<"b">>, <<"a", "b">>}
Wild   == {One, Deep, <<"a", "*">>, <<AB>>, <<AC, "b">>}
Double == <<"a", "*", "*">>

\* s:w, s:w:w' and s:w/w'.
Under(words) ==
  {<<Scheme, Colon, w>> : w \in words}
  \cup {<<Scheme, Colon, w, sep, v>> : w, v \in words, sep \in {Colon, Slash}}

\* The patterns with a second scheme, with a scheme that is a wildcard, with **
\* inside a token, with a class that lists the slash, with a dot in an
\* alternation, and with what the harness refuses.
OddPatterns ==
  {<<q, Colon, w>> : q \in {Other, One, <<AB>>}, w \in {<<"a">>, One, Deep}}
  \cup {<<Scheme, Colon, w>> : w \in {Double, <<"a", AD, "b">>, <<AE>>, <<AF>>, <<"@">>}}
  \cup {<<Scheme, Colon, Double, sep, w>> : sep \in {Colon, Slash}, w \in {<<"b">>, One}}
SomePatterns == Under(Names \cup Wild) \cup OddPatterns
LongRequests == {<<Scheme, Colon, <<"a">>, sep, <<"b">>, next, w>> :
                   sep, next \in {Colon, Slash}, w \in Names}
SomeLiterals == Under(Names) \cup LongRequests
  \cup {<<Scheme, Colon, w>> : w \in {<<"a", "x", "b">>, <<"a", ".", "b">>, <<"@">>}}

\* Objects in an object.
Nested ==
  {<<"obj", [of |-> v]>> :
     v \in {<<"obj", [max |-> <<"num", 1>>]>>, <<"obj", [max |-> <<"num", 2>>]>>,
           <<"obj", [max |-> <<"num", 1>>, in |-> <<"arr", {}>>]>>, <<"none">>}}

\* The values of kind obj, num, arr, str and the absent ones.
SomeValues ==
  {<<"none">>, <<"null">>, <<"num", 1>>, <<"num", 2>>, <<"str", "x">>,
   <<"arr", {}>>, <<"arr", {<<"num", 1>>}>>, <<"arr", {<<"num", 1>>, <<"str", "x">>}>>,
   <<"obj", <<>>>>, <<"obj", [max |-> <<"num", 1>>]>>,
   <<"obj", [max |-> <<"num", 2>>]>>, <<"obj", [max |-> <<"null">>]>>,
   <<"obj", [max |-> <<"num", 2>>, in |-> <<"arr", {<<"num", 1>>}>>]>>,
   <<"obj", [max |-> <<"num", 1>>, in |-> <<"arr", {}>>]>>}
  \cup Nested

DepthOf ==
  [v \in SomeValues |-> IF v \in Nested THEN 2 ELSE IF v[1] = "obj" THEN 1 ELSE 0]

FewParams == {<<"none">>, <<"num", 1>>, <<"num", 2>>}
GrantPatterns ==
  {<<Scheme, Colon, w>> : w \in {<<"a">>, One, Deep, <<"a", "*">>}}
  \cup {<<Scheme, Colon, <<"a">>, Colon, w>> : w \in {<<"b">>, One, Deep}}
  \cup {<<One, Colon, <<"a">>>>, <<Other, Colon, <<"a">>>>, <<Scheme, Colon, Double>>}
SomeAgents == [pattern: GrantPatterns, params: FewParams]
\* Grants that allow nothing, one value, and anything.
FewGrants == {<<"arr", {}>>, <<"arr", {<<"num", 1>>}>>, <<"null">>}
SomeGrants == {<<g>> : g \in SomeAgents \cup [pattern: GrantPatterns, params: FewGrants]}
  \cup {<<g, h>> : g, h \in [pattern: GrantPatterns, params: {<<"num", 1>>, <<"num", 2>>}]}

SomeAddresses == [family: {4, 6}, addr: 0..(2 ^ Bits - 1)]
\* Family 0 is a network that does not parse.
SomeCidrs     == [family: {0, 4, 6}, addr: {0, 2, 5, 7},
                  length: {<<"none", 0>>, <<"empty", 0>>, <<"word", 0>>}
                          \cup {"digits", "half"} \X (-1..(Bits + 1))]
SomeWindows   == [start: 0..(Day + 1), end: 0..(Day + 1)]

Constraint(id, params) == [known |-> TRUE, id |-> id, params |-> params]
Range4  == [family |-> 4, addr |-> 0, length |-> <<"digits", 1>>]
Range6  == [family |-> 6, addr |-> 0, length |-> <<"empty", 0>>]
Word6   == [family |-> 6, addr |-> 0, length |-> <<"word", 0>>]
Unknown == Constraint("other", <<"max", 0>>)
SomeConstraints ==
  {Constraint("max-concurrent", <<"max", 0>>),
   Constraint("max-concurrent", <<"max", 2>>),
   Constraint("time-window", <<"window", [start |-> 1, end |-> 2]>>),
   Constraint("allowed-cidr", <<"ranges", <<>>>>),
   Constraint("allowed-cidr", <<"ranges", <<Range4, Range6, Word6>>>>),
   Constraint("allowed-cidr", <<"ranges", <<Word6, Range4, Range6>>>>),
   Constraint("toString", <<"max", 0>>), Constraint("valueOf", <<"max", 0>>),
   Unknown,
   [known |-> FALSE, id |-> "max-concurrent", params |-> <<"max", 2>>]}
SomeLists == SeqOf(SomeConstraints, 2) \cup {<<Unknown, c, d>> : c, d \in SomeConstraints}
SomeContexts ==
  {[ip |-> [family |-> f, addr |-> a], running |-> r, now |-> t] :
     f \in {4, 6}, a \in {0, 7}, r \in {1, 2}, t \in {2, 3}}

SomeSizes == {0, 1, 127, 128, 255, 256, 300, 32767, 32768, 65535}
SomeOIDs ==
  {<<1, 3, 6, 1, 4, 1, 66257, 1, 1>>, <<2, 16, 840, 1, 101, 3, 4, 2, 1>>,
   <<1, 2, 840, 113549, 1, 1, 11>>, <<1, 3, 101, 112>>, <<2, 5, 29, 15>>,
   <<0, 9>>, <<1, 2, 0, 127, 128, 16383, 16384>>}

CapOf(id, params) == [scheme |-> "db", id |-> id, params |-> params]
SomeAICs ==
  {[version |-> v, agentId |-> "agent",
    uid |-> [realm |-> "org", id |-> "alice", keyHash |-> "k", hashAlgo |-> h],
    caps |-> caps, mode |-> m, constraints |-> cs,
    auth |-> [code |-> "JOB", desc |-> d, lifetime |-> l, ts |-> 5,
              nonce |-> "n", sigAlg |-> s, sig |-> <<"sig">>],
    extensions |-> ext] :
     v \in {1, 2}, h \in {noOid, sha512, md5},
     caps \in {<<CapOf("read", noParams)>>,
               <<CapOf("read", "p"), CapOf("drop", noParams)>>},
     m \in {0, 1}, cs \in {<<>>, <<CapOf("quota", "5")>>}, d \in {"x"},
     l \in {0, 1, 2}, s \in {noOid, "ecdsa"},
     ext \in {<<>>, <<[id |-> "e", critical |-> TRUE, value |-> "v"],
                      [id |-> "f", critical |-> FALSE, value |-> "w"],
                      [id |-> "e", critical |-> FALSE, value |-> "w"]>>}}
FewAICs ==
  {a \in SomeAICs :
     /\ a.auth.sigAlg # noOid
     /\ a.extensions # <<>> \/ a.uid.hashAlgo = md5 => a.mode = 0}
SomeHashAlgs  == {sha256, sha512}
SomeOverrides == [now: {0, 9}, lifetime: {0, 3}, audience: {"api"}]
=============================================================================
