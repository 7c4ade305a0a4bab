------------------------------- MODULE DemoPage -------------------------------
(***************************************************************************)
(* The page of the certificate-authority demo (demo/src/app/main.ts).  A   *)
(* click starts an asynchronous handler; so does "auto", which runs the    *)
(* four steps and a verification one after the other.  Handlers share the  *)
(* object ui and the buttons, and interleave wherever one awaits:          *)
(*                                                                         *)
(*   step 1  create human | check human            step 2  create agent    *)
(*   step 3  sign                                  step 4  create ca | issue*)
(*   verify  verify       refuse  refuse           auto    nap 1 .. nap 4   *)
(*                                                                         *)
(* A call's pc names the promise it waits for; what it read from ui before *)
(* the await is kept in seen.  The display is left out, except the verdict *)
(* card and the refusal card.                                              *)
(***************************************************************************)
EXTENDS DemoAuthority

CONSTANTS
  Calls,        \* handlers that can be in flight together
  MaxEffort,    \* bound on what the user does: a click weighs 1, a start of
  AutoWeight,   \* autoRun this much
  AutoScenario, \* the scenario autoRun selects: ?auto=..., or happy
  Nothing       \* no report, request, DA, certificate

ASSUME PageAssumption ==
  /\ MaxEffort \in Nat /\ AutoWeight \in Nat \ {0}
  /\ AutoScenario \in ScenarioId
ASSUME NothingAssumption ==
  /\ Nothing \notin DelegationRequest
  /\ Nothing \notin DAClaims
  /\ Nothing \notin Certificate
  /\ Nothing \notin [scenario: ScenarioId, row: 0..13]

VARIABLES
  ui,       \* the artefacts made so far
  enabled,  \* the enabled buttons; auto and reset always are
  calls,    \* the handlers in flight
  minted,   \* the keys and nonces generated so far
  shown,    \* the verdict card
  refusal,  \* the refusal card
  clicks,   \* clicks other than on auto, on this page and before
  autos     \* starts of autoRun on this page

vars == <<ui, enabled, calls, minted, shown, refusal, clicks, autos>>

Effort == clicks + AutoWeight * autos

UiState ==
  [human: Key \cup {None}, agent: Key \cup {None}, ca: Key \cup {None},
   request: DelegationRequest \cup {Nothing}, da: DAClaims \cup {Nothing},
   cert: Certificate \cup {Nothing}]

Empty == [human |-> None, agent |-> None, ca |-> None, request |-> Nothing,
          da |-> Nothing, cert |-> Nothing]

Buttons == {"btn1", "btn2", "btn3", "btn4", "verify", "refuse"}
Step    == <<"btn1", "btn2", "btn3", "btn4", "verify">>
Promise == [btn1 |-> "create human", btn2 |-> "create agent", btn3 |-> "sign",
            btn4 |-> "create ca", verify |-> "verify", refuse |-> "refuse"]
Nap     == <<"nap 1", "nap 2", "nap 3", "nap 4">>

Idle == [pc |-> "idle", auto |-> FALSE, scenario |-> "happy", seen |-> Empty]

\* Mutant: the second step does not wait for the first.
EnableStepButtonsEarly(u) ==
  {b \in Buttons :
     CASE b = "btn1" -> u.human = None
       [] b = "btn2" -> u.agent = None
       [] b = "btn3" -> u.agent # None /\ u.da = Nothing
       [] b = "btn4" -> u.da # Nothing /\ u.cert = Nothing
       [] OTHER      -> u.cert # Nothing}

EnableStepButtons(u) ==
  {b \in Buttons :
     CASE b = "btn1" -> u.human = None
       [] b = "btn2" -> u.human # None /\ u.agent = None
       [] b = "btn3" -> u.agent # None /\ u.da = Nothing
       [] b = "btn4" -> u.da # Nothing /\ u.cert = Nothing
       [] OTHER      -> u.cert # Nothing}

-----------------------------------------------------------------------------
(* The synchronous head of a handler: disable the own button, read ui.     *)

Enter(c, b, auto, id) ==
  calls' = [calls EXCEPT ![c] =
    [pc |-> Promise[b], auto |-> auto, scenario |-> id, seen |-> ui]]

\* Mutant: the button stays enabled while its handler runs.
ClickLeavesEnabled(c, b, id) ==
  /\ calls[c].pc = "idle"
  /\ b \in enabled
  /\ id # "happy" => b = "verify"
  /\ Effort < MaxEffort
  /\ clicks' = clicks + 1
  /\ Enter(c, b, FALSE, id)
  /\ refusal' = IF b = "refuse" THEN "none" ELSE refusal
  /\ UNCHANGED <<enabled, ui, minted, shown, autos>>

\* A step disables its button; verify and refuse stay enabled.
Click(c, b, id) ==
  /\ calls[c].pc = "idle"
  /\ b \in enabled
  /\ id # "happy" => b = "verify"
  /\ Effort < MaxEffort
  /\ clicks' = clicks + 1
  /\ Enter(c, b, FALSE, id)
  /\ enabled' = enabled \ ({b} \cap {"btn1", "btn2", "btn3", "btn4"})
  /\ refusal' = IF b = "refuse" THEN "none" ELSE refusal
  /\ UNCHANGED <<ui, minted, shown, autos>>

\* init() builds the page anew, with all six buttons disabled; ui is kept.
AutoRun(c) ==
  /\ calls[c].pc = "idle"
  /\ Effort + AutoWeight <= MaxEffort
  /\ autos' = autos + 1
  /\ Enter(c, "btn1", TRUE, AutoScenario)
  /\ enabled' = {}
  /\ shown' = Nothing
  /\ refusal' = "none"
  /\ UNCHANGED <<ui, minted, clicks>>

\* autoRun sleeps 300 ms after each step, then calls the next one.
Wake(c) ==
  \E n \in 1..4 :
    /\ calls[c].pc = Nap[n]
    /\ Enter(c, Step[n + 1], TRUE, calls[c].scenario)
    /\ enabled' = enabled \ ({Step[n + 1]} \cap {"btn2", "btn3", "btn4"})
    /\ UNCHANGED <<ui, minted, shown, refusal, clicks, autos>>

\* The reset button reloads the page: all its state and promises are gone.
Reset ==
  /\ Effort < MaxEffort
  /\ clicks' = clicks + 1
  /\ ui' = Empty
  /\ enabled' = EnableStepButtons(Empty)
  /\ calls' = [c \in Calls |-> Idle]
  /\ minted' = 0
  /\ shown' = Nothing
  /\ refusal' = "none"
  /\ autos' = 0

-----------------------------------------------------------------------------
(* The continuations, one per await.                                       *)

\* Mutant: a step ends the run it is part of.
ReturnAlways(c, n) == calls' = [calls EXCEPT ![c] = Idle]

\* A handler ends; autoRun goes on after a nap.
Return(c, n) ==
  calls' = [calls EXCEPT ![c] = IF @.auto THEN [@ EXCEPT !.pc = Nap[n]]
                                ELSE Idle]

HumanCreated(c) ==
  /\ calls[c].pc = "create human"
  /\ minted' = minted + 1
  /\ ui' = [ui EXCEPT !.human = minted + 1]
  /\ calls' = [calls EXCEPT ![c].pc = "check human"]
  /\ UNCHANGED <<enabled, shown, refusal, clicks, autos>>

\* verifyHumanCertificate was given a certificate and its own key.
HumanChecked(c) ==
  /\ calls[c].pc = "check human"
  /\ enabled' = EnableStepButtons(ui)
  /\ Return(c, 1)
  /\ UNCHANGED <<ui, minted, shown, refusal, clicks, autos>>

AgentCreated(c) ==
  /\ calls[c].pc = "create agent"
  /\ minted' = minted + 2
  /\ ui' = [ui EXCEPT
       !.agent = minted + 1,
       !.request = BuildDelegationRequest(minted + 1, minted + 2, AgentCaps)]
  /\ enabled' = EnableStepButtons(ui')
  /\ Return(c, 2)
  /\ UNCHANGED <<shown, refusal, clicks, autos>>

\* The human and the request are those read when the handler started.
Signed(c) ==
  /\ calls[c].pc = "sign"
  /\ ui' = [ui EXCEPT
       !.da = ApproveDelegation(calls[c].seen.human, calls[c].seen.request,
                                TRUE)]
  /\ enabled' = EnableStepButtons(ui')
  /\ Return(c, 3)
  /\ UNCHANGED <<minted, shown, refusal, clicks, autos>>

\* The CA is on the page before it has issued anything.
CACreated(c) ==
  /\ calls[c].pc = "create ca"
  /\ minted' = minted + 1
  /\ ui' = [ui EXCEPT !.ca = minted + 1]
  /\ calls' = [calls EXCEPT ![c].pc = "issue", ![c].seen = ui']
  /\ UNCHANGED <<enabled, shown, refusal, clicks, autos>>

\* A refusal rejects the handler, and autoRun with it: no button is enabled.
CertIssued(c) ==
  LET s == calls[c].seen
  IN  /\ calls[c].pc = "issue"
      /\ IF Issuable(s.human, s.da)
         THEN /\ ui' = [ui EXCEPT
                   !.cert = IssueAgentCertificate(s.ca, s.agent, s.da)]
              /\ enabled' = EnableStepButtons(ui')
              /\ Return(c, 4)
         ELSE /\ calls' = [calls EXCEPT ![c] = Idle]
              /\ UNCHANGED <<ui, enabled>>
      /\ UNCHANGED <<minted, shown, refusal, clicks, autos>>

Verified(c) ==
  LET s  == calls[c].seen
      id == calls[c].scenario
  IN  /\ calls[c].pc = "verify"
      /\ minted' = IF id = "spoofed" THEN minted + 1 ELSE minted
      /\ shown' = [scenario |-> id,
           row |-> VerifyAgentCertificate(Presentation(s, id, minted + 1), s)]
      /\ calls' = [calls EXCEPT ![c] = Idle]
      /\ UNCHANGED <<ui, enabled, refusal, clicks, autos>>

\* demonstrateOutOfScopeIssuance: a new agent asks for what nobody granted.
Refused(c) ==
  LET s  == calls[c].seen
      da == ApproveDelegation(s.human,
              BuildDelegationRequest(minted + 1, minted + 2, {DropCap}), FALSE)
  IN  /\ calls[c].pc = "refuse"
      /\ minted' = minted + 2
      /\ refusal' = IF Issuable(s.human, da) THEN "issued" ELSE "refused"
      /\ calls' = [calls EXCEPT ![c] = Idle]
      /\ UNCHANGED <<ui, enabled, shown, clicks, autos>>

-----------------------------------------------------------------------------
Init ==
  /\ ui = Empty
  /\ enabled = EnableStepButtons(Empty)
  /\ calls = [c \in Calls |-> Idle]
  /\ minted = 0
  /\ shown = Nothing
  /\ refusal = "none"
  /\ clicks = 0
  /\ autos = 0

Continue(c) ==
  \/ Wake(c)         \/ HumanCreated(c) \/ HumanChecked(c) \/ AgentCreated(c)
  \/ Signed(c)       \/ CACreated(c)    \/ CertIssued(c)
  \/ Verified(c)     \/ Refused(c)

Next ==
  \/ \E c \in Calls, b \in Buttons, id \in ScenarioId : Click(c, b, id)
  \/ \E c \in Calls : AutoRun(c)
  \/ Reset
  \/ \E c \in Calls : Continue(c)

Spec == Init /\ [][Next]_vars

-----------------------------------------------------------------------------
(* Properties.                                                             *)

World == {u \in UiState :
            None \notin {u.human, u.agent, u.ca}
            /\ Nothing \notin {u.request, u.da, u.cert}}

Call == [pc: {"idle", "check human", "issue"}
               \cup {Promise[b] : b \in Buttons} \cup {Nap[n] : n \in 1..4},
         auto: BOOLEAN, scenario: ScenarioId, seen: UiState]

Report == [scenario: ScenarioId, row: 0..13]

TypeOK ==
  /\ ui \in UiState
  /\ enabled \subseteq Buttons
  /\ calls \in [Calls -> Call]
  /\ minted \in Nat
  /\ shown \in Report \cup {Nothing}
  /\ refusal \in {"none", "refused", "issued"}
  /\ clicks \in Nat /\ autos \in Nat

\* No handler runs into an artefact that is missing: main.ts casts ui.human,
\* ui.request, ui.agent and ui.da to their types (lines 496-497, 525-529)
\* instead of testing them, and assembleWorld throws; that the buttons and
\* autoRun start the handlers in a safe order is all that prevents it.
NothingMissing ==
  \A c \in Calls :
    LET s == calls[c].seen
    IN  /\ calls[c].pc = "sign" => s.human # None /\ s.request # Nothing
        /\ calls[c].pc = "issue" =>
             /\ s.human # None /\ s.agent # None /\ s.ca # None
             /\ s.da # Nothing
        /\ calls[c].pc \in {"verify", "refuse"} => s \in World

\* However handlers interleave and whatever they replaced meanwhile, a PERMIT
\* stands for one coherent chain: the gateway's CA signed the certificate, the
\* world's human signed the DA in it, the agent that presented it holds its
\* key, and the scenario is the one that should pass.
CoherentWorld(w) ==
  /\ w.cert.ca = w.ca
  /\ w.cert.da.signer = w.human
  /\ w.cert.cnf = w.agent
  /\ CapsWithinGrants(w.cert.da.caps)

PermitCoherent ==
  [][\A c \in Calls :
       calls[c].pc = "verify" /\ Verified(c) /\ shown'.row = Permit =>
         shown'.scenario = "happy" /\ CoherentWorld(calls[c].seen)]_vars

\* A user who only clicks, or who only watches one autoRun.
Undisturbed == autos = 0 \/ (autos = 1 /\ clicks = 0)

\* README.md:56-63: the verdict and the failing row of each scenario.
Advertised ==
  [happy |-> Permit, overreach |-> 9, expired |-> 3, tampered |-> 1,
   spoofed |-> 12, concurrency |-> 7]

\* For that user every verdict is the advertised one, in whatever order, how
\* often and how concurrently the verifications run.
VerdictsAsAdvertised ==
  Undisturbed /\ shown # Nothing => shown.row = Advertised[shown.scenario]

\* For that user the artefacts on the page belong together: the certificate
\* was issued by this CA to the agent whose request the human approved.
ArtefactsAgree ==
  Undisturbed =>
    /\ ui.da # Nothing => /\ ui.da.signer = ui.human
                          /\ ui.da.nonce = ui.request.nonce
    /\ ui.cert # Nothing => /\ ui.cert.ca = ui.ca
                            /\ ui.cert.da = ui.da
                            /\ ui.cert.cnf = ui.request.agent

\* A user who only clicks is led through the steps one at a time: whenever
\* nothing is in flight, the next step, or else the verifications, are the
\* enabled buttons.
NextStepOffered ==
  autos = 0 /\ (\A c \in Calls : calls[c].pc = "idle") =>
    \/ \E n \in 1..4 : enabled = {Step[n]}
    \/ ui \in World /\ enabled = {"verify", "refuse"}

\* i18n refuse.*: the CA never issues the out-of-scope certificate.
OverreachRefused == refusal # "issued"

\* An autoRun nobody interferes with gets to its end, through every await, and
\* ends with the advertised verdict of its scenario.
AutoDelivers ==
  autos = 1 /\ clicks = 0 /\ (\A c \in Calls : calls[c].pc = "idle") =>
    shown # Nothing /\ shown.row = Advertised[AutoScenario]

=============================================================================
