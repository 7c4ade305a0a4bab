-------------------------- MODULE ConstraintEvaluators --------------------------
(***************************************************************************)
(* The built-in constraints of draft section 7 (ts/aicjwt.ts), each judged *)
(* against the context of one request.                                     *)
(*                                                                         *)
(* An address is a number of Bits bits (32 or 128 in the code) of family 4 *)
(* or 6, or of none where it does not parse.  A range is [family, addr,    *)
(* length]; its length is what is written after the slash, a pair:         *)
(*   <<"none", 0>>    no slash: a single address                           *)
(*   <<"digits", n>>  a whole number, of either sign                       *)
(*   <<"empty", 0>>   nothing, as in "10.0.0.0/"                           *)
(*   <<"half", n>>    a fraction, n and a half                             *)
(*   <<"word", 0>>    anything else: Number gives NaN                      *)
(* The time of day counts the Day minutes from midnight UTC.  Of other     *)
(* malformed parameters (no list, no max, a time that is no HH:MM) the     *)
(* code throws, which rejects the request like a failed test.              *)
(***************************************************************************)
EXTENDS Integers, Sequences

CONSTANTS
  Bits,  \* width of an address
  Day    \* minutes of a day (1440)

ASSUME WidthAssumption == Bits \in Nat \ {0} /\ Day \in Nat \ {0}

Pow2[n \in Nat] == IF n = 0 THEN 1 ELSE 2 * Pow2[n - 1]

-----------------------------------------------------------------------------
\* Number(lenS), counted in halves of a bit.
NaN(length) == length[1] = "word"
Halves(length) ==
  CASE length[1] = "empty" -> 0
    [] length[1] = "half"  -> 2 * length[2] + 1
    [] OTHER               -> 2 * length[2]

\* The guard len < 0 || len > 32: no comparison with NaN holds, so it passes.
LengthPasses(length) == NaN(length) \/ Halves(length) \in 0..(2 * Bits)

\* The low bits that the mask drops: << truncates its count, and takes NaN
\* for 0.
Dropped(length) == IF NaN(length) THEN 0 ELSE (2 * Bits - Halves(length)) \div 2

\* BigInt(128 - len) throws on what is no whole number; both addresses have
\* been parsed by then.
CidrThrows(ip, cidr) ==
  /\ ip.family = 6 /\ cidr.family = 6
  /\ cidr.length[1] # "none" /\ LengthPasses(cidr.length)
  /\ NaN(cidr.length) \/ Halves(cidr.length) % 2 = 1

\* Mutant: no test for a prefix of length 0.  The shift count of JavaScript is
\* taken modulo the width, so the mask keeps every bit.
CidrContainsShifted(ip, cidr) ==
  LET tail == Pow2[Dropped(cidr.length) % Bits]
  IN  /\ ip.family = cidr.family /\ ~CidrThrows(ip, cidr)
      /\ IF cidr.length[1] = "none" THEN ip.addr = cidr.addr
         ELSE LengthPasses(cidr.length) /\ ip.addr \div tail = cidr.addr \div tail

\* Network and address agree on the first len bits.  A range without a length
\* is compared as it is spelt; here every address has one spelling.
CidrContains(ip, cidr) ==
  LET tail == Pow2[Dropped(cidr.length)]
  IN  /\ ip.family = cidr.family /\ ~CidrThrows(ip, cidr)
      /\ IF cidr.length[1] = "none" THEN ip.addr = cidr.addr
         ELSE LengthPasses(cidr.length) /\ ip.addr \div tail = cidr.addr \div tail

\* The first range that holds the address ends the loop, and so does an error.
EvalAllowedCIDR(ranges, ip) ==
  \E n \in DOMAIN ranges :
    /\ CidrContains(ip, ranges[n])
    /\ \A m \in 1..(n - 1) : ~CidrThrows(ip, ranges[m])

\* The quota counts the requests that run already.
EvalMaxConcurrent(max, running) == max >= 1 /\ running < max

\* Mutant: an overnight window is read as the hours between its ends.
EvalTimeWindowPlain(w, now) == w.start <= now /\ now <= w.end

\* Both ends belong to the window; start > end is a window over midnight, and
\* start = end one minute.
EvalTimeWindow(w, now) ==
  IF w.start <= w.end THEN w.start <= now /\ now <= w.end
  ELSE w.start <= now \/ now <= w.end

\* Constraints are records [known, id, params], params a pair <<kind, value>>.
Builtin == {"allowed-cidr", "max-concurrent", "time-window"}

\* BUILTIN_CONSTRAINTS is an object literal, where an id finds the members of
\* Object.prototype too.  Called like an evaluator two of them return; the
\* others throw, having no this.
Returning == {"constructor", "toString"}
Throwing  == {"valueOf", "hasOwnProperty", "isPrototypeOf",
              "propertyIsEnumerable", "toLocaleString", "__proto__",
              "__defineGetter__", "__defineSetter__", "__lookupGetter__",
              "__lookupSetter__"}
Found == Builtin \cup Returning \cup Throwing

Evaluate(c, ctx) ==
  CASE c.id \in Returning -> TRUE
    [] c.id \in Throwing  -> FALSE
    [] c.id = "allowed-cidr"   -> EvalAllowedCIDR(c.params[2], ctx.ip)
    [] c.id = "max-concurrent" -> EvalMaxConcurrent(c.params[2], ctx.running)
    [] c.id = "time-window"    -> EvalTimeWindow(c.params[2], ctx.now)

\* Mutant: an unknown constraint ends the loop.
EvaluateConstraintsBreak(cs, ctx, strict) ==
  LET f[n \in 1..(Len(cs) + 1)] ==
        IF n = Len(cs) + 1 THEN [ok |-> TRUE, notes |-> 0]
        ELSE CASE ~cs[n].known -> [ok |-> FALSE, notes |-> 0]
               [] cs[n].known /\ cs[n].id \notin Found ->
                    [ok |-> ~strict, notes |-> IF strict THEN 0 ELSE 1]
               [] OTHER -> IF Evaluate(cs[n], ctx) THEN f[n + 1]
                           ELSE [ok |-> FALSE, notes |-> 0]
  IN  f[1]

\* The loop over the constraints, which throws at the first that fails.  known
\* says whether the scheme is varwof/constraint-v1.  Unless the caller is
\* strict, a constraint of an unknown type leaves a note in the audit.
EvaluateConstraints(cs, ctx, strict) ==
  LET f[n \in 1..(Len(cs) + 1)] ==
        IF n = Len(cs) + 1 THEN [ok |-> TRUE, notes |-> 0]
        ELSE CASE ~cs[n].known -> [ok |-> FALSE, notes |-> 0]
               [] cs[n].known /\ cs[n].id \notin Found ->
                    IF strict THEN [ok |-> FALSE, notes |-> 0]
                    ELSE [f[n + 1] EXCEPT !.notes =
                            IF f[n + 1].ok THEN @ + 1 ELSE 0]
               [] OTHER -> IF Evaluate(cs[n], ctx) THEN f[n + 1]
                           ELSE [ok |-> FALSE, notes |-> 0]
  IN  f[1]
=============================================================================
