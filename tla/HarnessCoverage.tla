---------------------------- MODULE HarnessCoverage ----------------------------
(***************************************************************************)
(* Coverage of capabilities in the WIT/WPT harness (wit-wpt-interop/ts and *)
(* its copy for the browser): what an issuance may entitle an agent to,    *)
(* and what the policy of a resource server lets it ask for.               *)
(*                                                                         *)
(* An id is its characters; an alternation or a class is one of them, as   *)
(* in CapabilityMatching.  A pattern becomes a RegExp, and what no RegExp  *)
(* is made of (Refused) matches nothing.  A class means the same letters   *)
(* as in the core: [^a], which negates here and lists a caret there, is no *)
(* class of the model, nor is a line terminator, which . does not take, a  *)
(* character of an id.  The Go harness quotes the words of an alternation  *)
(* and refuses fewer characters (go/subset.go); this is the TypeScript.    *)
(***************************************************************************)
EXTENDS CapabilityMatching

CONSTANT Refused  \* what globToRegex turns down (@, an alternation {a@}) or
                  \* RegExp cannot compile (a class [b-a])

ASSUME RefusedAssumption == Refused \cap {"*", "/", ":"} = {}

Slashes(id) == Cardinality({n \in DOMAIN id : id[n] = "/"})

\* The characters of t from j to k - 1, none of them in stop.
Takes(t, j, k, stop) == \A n \in j..(k - 1) : t[n] \notin stop

\* The word w of the wildcard c stands in t from j on.  The words of an
\* alternation enter the RegExp unescaped, so that a dot of theirs takes any
\* character.
WordStands(c, w, t, j, stop) ==
  /\ j + Len(w) <= Len(t) + 1
  /\ \A n \in 1..Len(w) :
       \/ t[j + n - 1] = w[n]
       \/ c \in Alternations /\ w[n] = "." /\ t[j + n - 1] \notin stop

\* at[i][j]: the pattern from i matches the id from j.
Glob(p, t, stop) ==
  LET DeepAt(i) == p[i] = "*" /\ i < Len(p) /\ p[i + 1] = "*"
      at[i \in 1..(Len(p) + 1)] ==
        [j \in 1..(Len(t) + 1) |->
           IF i > Len(p) THEN j > Len(t)
           ELSE \/ DeepAt(i) /\ \E k \in j..(Len(t) + 1) :
                                  Takes(t, j, k, stop) /\ at[i + 2][k]
                \/ /\ p[i] = "*" /\ ~DeepAt(i)
                   /\ \E k \in j..(Len(t) + 1) :
                        Takes(t, j, k, {"/"}) /\ at[i + 1][k]
                \/ /\ p[i] \in Special
                   /\ \E w \in Words[p[i]] :
                        WordStands(p[i], w, t, j, stop) /\ at[i + 1][j + Len(w)]
                \/ /\ p[i] \notin {"*"} \cup Special
                   /\ j <= Len(t) /\ t[j] = p[i] /\ at[i + 1][j + 1]]
  IN  at[1][1]

\* Segment by segment when there are as many in the pattern as in the id; else
\* as a whole, where a pattern with a slash is no expression at all.
MatchID(p, id) ==
  /\ \A n \in 1..Len(p) : p[n] \notin Refused
  /\ IF Slashes(p) = Slashes(id) THEN Glob(p, id, {"/"})
     ELSE Slashes(p) = 0 /\ Glob(p, id, {})

\* Mutant: an array grant is compared as a whole with what the agent has.
ParamsSubsetWhole(a, g) ==
  LET within[v \in Values] ==
        [u \in Values |->
           CASE v \in Absent -> TRUE
             [] v[1] = "num" -> u[1] = "num" /\ u[2] <= v[2]
             [] v[1] = "arr" -> u \in v[2]
             [] v[1] = "obj" ->
                  /\ u[1] = "obj"
                  /\ \A k \in DOMAIN v[2] :
                       k \in DOMAIN u[2] /\ within[v[2][k]][u[2][k]]
             [] OTHER        -> u = v]
  IN  within[g][a]

\* An array is the set of the values it allows; an agent may have one of them
\* or an array of them.
ParamsSubset(a, g) ==
  LET within[v \in Values] ==
        [u \in Values |->
           CASE v \in Absent -> TRUE
             [] v[1] = "num" -> u[1] = "num" /\ u[2] <= v[2]
             [] v[1] = "arr" -> /\ v[2] # {}
                                /\ IF u[1] = "arr" THEN u[2] \subseteq v[2]
                                   ELSE u \in v[2]
             [] v[1] = "obj" ->
                  /\ u[1] = "obj"
                  /\ \A k \in DOMAIN v[2] :
                       k \in DOMAIN u[2] /\ within[v[2][k]][u[2][k]]
             [] OTHER        -> u = v]
  IN  within[g][a]

\* A capability of the harness is [scheme, id, params].
CapabilitySpecSubset(agent, grant) ==
  /\ agent.scheme = grant.scheme
  /\ MatchID(grant.id, agent.id)
  /\ ParamsSubset(agent.params, grant.params)

HarnessCovers(agent, grants) ==
  \A n \in DOMAIN agent : \E m \in DOMAIN grants :
    CapabilitySpecSubset(agent[n], grants[m])
=============================================================================
