--------------------------- MODULE CapabilityMatching ---------------------------
(***************************************************************************)
(* Capability patterns and parameters (ts/aicjwt.ts, draft section 6): the *)
(* matcher that decides whether a capability allows a request, and whether *)
(* an agent's capability is within a principal's grant.                    *)
(*                                                                         *)
(* A pattern "s:q/x*" is the sequence of its tokens, separators included,  *)
(* and a token the sequence of its characters.  An alternation {a,b} or a  *)
(* class [a-z] is one character that stands for a set of words.  A JSON    *)
(* value is a pair <<kind, value>>; an array is the set of its elements.   *)
(***************************************************************************)
EXTENDS Integers, SequencesExt

CONSTANTS
  Alternations,  \* {..,..} characters
  Classes,       \* [..-..] characters
  Words,         \* what each of them stands for: a set of words
  Values,        \* JSON values of parameters, and the members of objects
  Depth          \* how deep each value nests

Special == Alternations \cup Classes

ASSUME WordsAssumption ==
  /\ {"*", "/", ":"} \subseteq STRING \ Special
  /\ Words \in [Special -> SUBSET Seq(STRING)]

\* A pattern is cut at its separators before its braces are looked at.
ASSUME AlternationAssumption ==
  \A c \in Alternations : \A w \in Words[c] : Range(w) \cap {"/", ":"} = {}

\* The members of an object are values too and nest less deep.
ASSUME ValuesAssumption ==
  /\ Depth \in [Values -> Nat]
  /\ \A v \in Values :
       /\ v[1] = "num" => v[2] \in Int
       /\ v[1] = "obj" =>
            \A k \in DOMAIN v[2] : v[2][k] \in Values /\ Depth[v[2][k]] < Depth[v]

Colon == <<":">>
Slash == <<"/">>
One   == <<"*">>
Deep  == <<"*", "*">>

Drop(s, n) == SubSeq(s, n + 1, Len(s))

-----------------------------------------------------------------------------
(* Patterns.                                                               *)

\* at[i][j] is matchTokenAt on the rest of the pattern from i and the rest of
\* the target from j.  An embedded * takes any number of characters, none
\* included.
MatchToken(p, t) ==
  LET at[i \in 1..(Len(p) + 1)] ==
        [j \in 1..(Len(t) + 1) |->
           IF i > Len(p) THEN j > Len(t)
           ELSE \/ p[i] = "*" /\ \E k \in j..(Len(t) + 1) : at[i + 1][k]
                \/ /\ p[i] \in Special
                   /\ \E w \in Words[p[i]] :
                        IsPrefix(w, Drop(t, j - 1)) /\ at[i + 1][j + Len(w)]
                \/ /\ p[i] \notin {"*"} \cup Special
                   /\ j <= Len(t) /\ t[j] = p[i] /\ at[i + 1][j + 1]]
  IN  at[1][1]

\* Mutant: no backtracking, ** takes one token or all that are left.
MatchTokensOnce(p, t) ==
  LET from[i \in 1..(Len(p) + 1)] ==
        [j \in 1..(Len(t) + 1) |->
           IF i > Len(p) THEN j > Len(t)
           ELSE /\ j <= Len(t)
                /\ \/ p[i] = Deep /\ i = Len(p)
                   \/ /\ CASE p[i] = Deep -> TRUE
                           [] p[i] = One  -> t[j] \notin {Slash, Colon}
                           [] OTHER       -> MatchToken(p[i], t[j])
                      /\ from[i + 1][j + 1]]
  IN  from[1][1]

\* from[i][j] is matchTokens on the tokens of the pattern from i and those of
\* the target from j.  ** takes one token or more, separators included; *
\* takes one, no separator.
MatchTokens(p, t) ==
  LET from[i \in 1..(Len(p) + 1)] ==
        [j \in 1..(Len(t) + 1) |->
           IF i > Len(p) THEN j > Len(t)
           ELSE \/ p[i] = Deep /\ \E k \in (j + 1)..(Len(t) + 1) : from[i + 1][k]
                \/ /\ p[i] # Deep /\ j <= Len(t)
                   /\ IF p[i] = One THEN t[j] \notin {Slash, Colon}
                      ELSE MatchToken(p[i], t[j])
                   /\ from[i + 1][j + 1]]
  IN  from[1][1]

\* "scheme:*": everything under the scheme.
SchemeLevel(p) == Len(p) = 3 /\ p[2] = Colon /\ p[3] = One

PatternScore(p) ==
  LET Has(S) == \E n \in DOMAIN p : \E m \in DOMAIN p[n] : p[n][m] \in S
      Double == \E n \in DOMAIN p : \E m \in 1..(Len(p[n]) - 1) :
                  p[n][m] = "*" /\ p[n][m + 1] = "*"
  IN  CASE Double                     -> 4
        [] ~Double /\ Has({"*"})      -> 5
        [] ~Has({"*"}) /\ Has(Alternations) -> 3
        [] ~Has({"*"} \cup Alternations) /\ Has(Classes) -> 2
        [] OTHER                      -> 6

\* 0 when the pattern does not match.
MatchPattern(p, t) ==
  IF SchemeLevel(p)
  THEN IF Len(t) >= 3 /\ t[1] = p[1] /\ t[2] = Colon THEN 1 ELSE 0
  ELSE IF MatchTokens(p, t) THEN PatternScore(p) ELSE 0

\* The best score among the allowed patterns decides.
MatchCapabilities(allowed, target) ==
  LET best[n \in 0..Len(allowed)] ==
        IF n = 0 THEN 0
        ELSE LET s == MatchPattern(allowed[n].pattern, target)
             IN  IF s > best[n - 1] THEN s ELSE best[n - 1]
  IN  best[Len(allowed)] > 0

-----------------------------------------------------------------------------
(* Parameters.                                                             *)

Absent == {<<"none">>, <<"null">>}

ParamsWithin(g, a) ==
  LET within[v \in Values] ==
        [u \in Values |->
           CASE v[1] = "obj" -> /\ u[1] = "obj"
                                /\ DOMAIN u[2] = DOMAIN v[2]
                                /\ \A k \in DOMAIN v[2] : within[v[2][k]][u[2][k]]
             [] v[1] = "num" -> u[1] = "num" /\ u[2] <= v[2]
             [] v[1] = "arr" -> u[1] = "arr" /\ u[2] \subseteq v[2]
             [] OTHER        -> u = v]
  IN  within[g][a]

\* Mutant: an agent without parameters fits every grant.
ParamsWithinGrantLax(g, a) == g \in Absent \/ a \in Absent \/ ParamsWithin(g, a)

\* A grant without parameters bounds nothing; one with parameters wants them.
ParamsWithinGrant(g, a) ==
  g \in Absent \/ (a \notin Absent /\ ParamsWithin(g, a))

\* Mutant: the parameters of the best pattern decide.
CapabilitySubsetByBest(agent, grants) ==
  LET Score(n) == MatchPattern(grants[n].pattern, agent.pattern)
  IN  \E n \in DOMAIN grants :
        /\ Score(n) > 0
        /\ \A m \in DOMAIN grants : Score(m) <= Score(n)
        /\ ParamsWithinGrant(grants[n].params, agent.params)

\* Mutant: pattern and target are swapped.
CapabilitySubsetSwapped(agent, grants) ==
  \E n \in DOMAIN grants :
    /\ MatchPattern(agent.pattern, grants[n].pattern) > 0
    /\ ParamsWithinGrant(grants[n].params, agent.params)

\* A grant is passed over when its score is no better or its parameters do not
\* admit the agent's.
CapabilitySubset(agent, grants) ==
  LET best[n \in 0..Len(grants)] ==
        IF n = 0 THEN 0
        ELSE LET s == MatchPattern(grants[n].pattern, agent.pattern)
             IN  IF s > best[n - 1]
                    /\ ParamsWithinGrant(grants[n].params, agent.params)
                 THEN s ELSE best[n - 1]
  IN  best[Len(grants)] > 0
=============================================================================
