----------------------------- MODULE DemoPageProofs -----------------------------
(***************************************************************************)
(* Proofs about the page of the certificate-authority demo, for any number *)
(* of handlers in flight, any number of clicks and any mixture of clicks   *)
(* and runs of autoRun.                                                    *)
(*                                                                         *)
(* The invariant says what the page, the buttons and each handler can rely *)
(* on.  An artefact may be replaced while handlers that read the old one   *)
(* are in flight, but none is ever taken away (a reload takes the handlers *)
(* away too), so whatever was present when a button was enabled is present *)
(* when its handler runs: Extends below.                                   *)
(***************************************************************************)
EXTENDS DemoPage, TLAPS

\* Artefacts presuppose each other in the order of the steps.
Chain(u) ==
  /\ u.agent # None => u.human # None /\ u.request # Nothing
  /\ u.da # Nothing => u.agent # None
  /\ u.cert # Nothing => u.da # Nothing /\ u.ca # None

\* Keys are among the first m generated; what is signed is what the agent
\* asked for, with its quota.
Original(u, m) ==
  /\ u.agent <= m
  /\ u.request # Nothing => u.request.caps = AgentCaps
  /\ u.da # Nothing => u.da.caps = AgentCaps /\ u.da.limited
  /\ u.cert # Nothing =>
       u.cert.cnf <= m /\ u.cert.da.caps = AgentCaps /\ u.cert.da.limited

UiSound(u, m) == u \in UiState /\ Chain(u) /\ Original(u, m)

\* What a handler at pc can rely on: the page has the artefacts that its next
\* steps need, and seen has those it works on.
Supplied(p, u) ==
  /\ p \in {"check human", "create agent", "nap 1"} => u.human # None
  /\ p \in {"sign", "nap 2"} => u.agent # None
  /\ p \in {"create ca", "nap 3"} => u.da # Nothing
  /\ p = "issue" => u.da # Nothing /\ u.ca # None
  /\ p = "nap 4" => u.cert # Nothing

Equipped(q) ==
  LET s == q.seen
  IN  /\ q.pc = "sign" => s.human # None /\ s.request # Nothing
      /\ q.pc = "issue" =>
           /\ s.human # None /\ s.agent # None /\ s.ca # None
           /\ s.da # Nothing
      /\ q.pc \in {"verify", "refuse"} => s \in World

CallSound(q, u, m) ==
  /\ q \in Call
  /\ Original(q.seen, m)
  /\ Supplied(q.pc, u)
  /\ Equipped(q)

ButtonsSound(e, u) ==
  /\ e \subseteq Buttons
  /\ "btn2" \in e => u.human # None
  /\ "btn3" \in e => u.agent # None
  /\ "btn4" \in e => u.da # Nothing
  /\ "verify" \in e \/ "refuse" \in e => u.cert # Nothing

\* The inductive invariant.
PageSound ==
  /\ minted \in Nat
  /\ UiSound(ui, minted)
  /\ ButtonsSound(enabled, ui)
  /\ calls \in [Calls -> Call]
  /\ \A c \in Calls : CallSound(calls[c], ui, minted)

\* No artefact of u is missing in v.
Extends(u, v) ==
  /\ u.human # None => v.human # None
  /\ u.agent # None => v.agent # None
  /\ u.da # Nothing => v.da # Nothing
  /\ u.ca # None => v.ca # None
  /\ u.cert # Nothing => v.cert # Nothing

-----------------------------------------------------------------------------
(* The page, the buttons and the handlers.                                 *)

\* Keys generated so far stay so.
LEMMA OriginalLater ==
  ASSUME NEW u \in UiState, NEW m \in Nat, NEW n \in Nat, m <= n,
         Original(u, m)
  PROVE  Original(u, n)
  <1>1. u.agent \in Nat
    BY DEF UiState, Key, None
  <1>2. u.cert # Nothing => u.cert.cnf \in Nat
    BY DEF UiState, Certificate, Key
  <1> QED
    BY <1>1, <1>2 DEF Original

\* A handler that was sound stays so on a page that lost nothing.
LEMMA SoundExtends ==
  ASSUME NEW q, NEW u, NEW v, NEW m \in Nat, NEW n \in Nat,
         CallSound(q, u, m), Extends(u, v), m <= n
  PROVE  CallSound(q, v, n)
  <1>1. q.seen \in UiState /\ Original(q.seen, m)
    BY DEF CallSound, Call
  <1>2. Original(q.seen, n)
    BY <1>1, OriginalLater
  <1>3. Supplied(q.pc, v)
    BY DEF CallSound, Supplied, Extends
  <1> QED
    BY <1>2, <1>3 DEF CallSound

\* The buttons that enableStepButtons enables are sound on the page it reads.
LEMMA EnabledSound ==
  ASSUME NEW u
  PROVE  ButtonsSound(EnableStepButtons(u), u)
  BY DEF ButtonsSound, EnableStepButtons, Buttons

\* Fewer buttons, or more artefacts, do no harm.
LEMMA ButtonsExtend ==
  ASSUME NEW e, NEW f, NEW u, NEW v,
         ButtonsSound(e, u), f \subseteq e, Extends(u, v)
  PROVE  ButtonsSound(f, v)
  BY DEF ButtonsSound, Extends

\* The step of one handler: the page grows, the handler becomes q, the buttons
\* stay, shrink or are computed anew.
LEMMA HandlerStep ==
  ASSUME PageSound, NEW c \in Calls, NEW q,
         calls' = [calls EXCEPT ![c] = q],
         minted' \in Nat, minted <= minted',
         UiSound(ui', minted'), Extends(ui, ui'),
         CallSound(q, ui', minted'),
         enabled' \subseteq enabled \/ enabled' = EnableStepButtons(ui')
  PROVE  PageSound'
  <1>1. \A d \in Calls : CallSound(calls[d], ui', minted')
    BY SoundExtends DEF PageSound
  <1>2. ButtonsSound(enabled', ui')
    BY EnabledSound, ButtonsExtend DEF PageSound
  <1>3. calls' \in [Calls -> Call]
    BY DEF PageSound, CallSound
  <1>4. \A d \in Calls : CallSound(calls'[d], ui', minted')
    BY <1>1 DEF PageSound
  <1>5. minted' \in Nat /\ UiSound(ui', minted')
    OBVIOUS
  <1> QED
    BY <1>2, <1>3, <1>4, <1>5 DEF PageSound

LEMMA ExtendsItself == ASSUME NEW u PROVE Extends(u, u)
  BY DEF Extends

\* A handler that was idle is sound again.
LEMMA IdleSound ==
  ASSUME NEW u, NEW m \in Nat
  PROVE  CallSound(Idle, u, m)
  BY DEF CallSound, Idle, Call, ScenarioId, UiState, Empty, Original, Supplied,
         Equipped, None

\* The naps of autoRun, one after each step.
LEMMA NapOf ==
  /\ Nap[1] = "nap 1" /\ Nap[2] = "nap 2"
  /\ Nap[3] = "nap 3" /\ Nap[4] = "nap 4"
  /\ \A n \in 1..4 : n = 1 \/ n = 2 \/ n = 3 \/ n = 4
  BY DEF Nap

\* A handler that ends naps or is idle; a nap needs what its step has made.
LEMMA ReturnSound ==
  ASSUME NEW c \in Calls, NEW n \in 1..4, NEW v, NEW m \in Nat,
         calls \in [Calls -> Call], CallSound(calls[c], v, m),
         Supplied(Nap[n], v), Return(c, n)
  PROVE  \E q : calls' = [calls EXCEPT ![c] = q] /\ CallSound(q, v, m)
  <1> DEFINE q == IF calls[c].auto THEN [calls[c] EXCEPT !.pc = Nap[n]] ELSE Idle
  <1>1. calls' = [calls EXCEPT ![c] = q]
    BY DEF Return
  <1>2. CASE calls[c].auto
    <2> DEFINE p == [calls[c] EXCEPT !.pc = Nap[n]]
    <2>0. Nap[n] \in {Nap[i] : i \in 1..4}
      OBVIOUS
    <2>1. /\ p \in Call /\ p.seen = calls[c].seen /\ p.pc = Nap[n]
      <3>1. calls[c] \in Call
        OBVIOUS
      <3> QED
        BY <2>0, <3>1 DEF Call
    <2>2. Nap[n] \in {"nap 1", "nap 2", "nap 3", "nap 4"}
      BY NapOf
    <2>3. CallSound(p, v, m)
      BY <2>1, <2>2 DEF CallSound, Equipped
    <2> QED
      BY <1>1, <1>2, <2>3
  <1>3. CASE ~calls[c].auto
    BY <1>1, <1>3, IdleSound
  <1> QED
    BY <1>2, <1>3

\* The promise each button's handler waits for first.
LEMMA PromiseOf ==
  /\ Promise["btn1"] = "create human" /\ Promise["btn2"] = "create agent"
  /\ Promise["btn3"] = "sign"         /\ Promise["btn4"] = "create ca"
  /\ Promise["verify"] = "verify"     /\ Promise["refuse"] = "refuse"
  BY DEF Promise

\* A handler starts sound on a page that supports its button.
LEMMA EnterSound ==
  ASSUME NEW b \in Buttons, NEW auto \in BOOLEAN, NEW id \in ScenarioId,
         NEW m \in Nat, NEW u, UiSound(u, m), ButtonsSound({b}, u)
  PROVE  CallSound([pc |-> Promise[b], auto |-> auto, scenario |-> id,
                    seen |-> u], u, m)
  <1> DEFINE q == [pc |-> Promise[b], auto |-> auto, scenario |-> id, seen |-> u]
  <1>0. Promise[b] \in {Promise[a] : a \in Buttons}
    OBVIOUS
  <1>1. q \in Call /\ q.pc = Promise[b] /\ q.seen = u
    BY <1>0 DEF Call, UiSound
  <1>2. Original(q.seen, m)
    BY <1>1 DEF UiSound
  <1>3. Supplied(Promise[b], u)
    BY PromiseOf DEF Supplied, Buttons, ButtonsSound
  <1>4. b \in {"verify", "refuse"} => u \in World
    BY DEF UiSound, ButtonsSound, Chain, World
  <1>5. b = "btn3" => u.human # None /\ u.request # Nothing
    BY DEF UiSound, ButtonsSound, Chain
  <1>6. Equipped(q)
    BY <1>1, <1>4, <1>5, PromiseOf DEF Equipped, Buttons
  <1>7. CallSound(q, u, m)
    BY <1>1, <1>2, <1>3, <1>6 DEF CallSound
  <1> QED
    BY <1>7
-----------------------------------------------------------------------------
(* The inductive invariant.                                                *)

\* The empty page, with its first button.
LEMMA FreshPage ==
  ASSUME ui' = Empty, enabled' \subseteq {"btn1"}, minted' = 0,
         calls' = [c \in Calls |-> Idle]
  PROVE  PageSound'
  <1>1. UiSound(Empty, 0)
    BY DEF UiSound, Empty, UiState, Chain, Original, None
  <1>2. ButtonsSound(enabled', Empty)
    BY DEF ButtonsSound, Buttons
  <1>3. Idle \in Call /\ CallSound(Idle, Empty, 0)
    BY IdleSound DEF CallSound
  <1> QED
    BY <1>1, <1>2, <1>3 DEF PageSound

LEMMA EmptyEnables == EnableStepButtons(Empty) \subseteq {"btn1"}
  BY DEF EnableStepButtons, Empty, Buttons, None

LEMMA InitPageSound == Init => PageSound
  <1> SUFFICES ASSUME Init PROVE PageSound
    OBVIOUS
  <1>1. UiSound(Empty, 0)
    BY DEF UiSound, Empty, UiState, Chain, Original, None
  <1>2. ButtonsSound(EnableStepButtons(Empty), Empty)
    BY EnabledSound
  <1>3. Idle \in Call /\ CallSound(Idle, Empty, 0)
    BY IdleSound DEF CallSound
  <1> QED
    BY <1>1, <1>2, <1>3 DEF PageSound, Init

\* A handler starts: by a click, by autoRun, or after a nap.
LEMMA EnterPage ==
  ASSUME PageSound, NEW c \in Calls, NEW b \in Buttons,
         NEW auto \in BOOLEAN, NEW id \in ScenarioId,
         Enter(c, b, auto, id), ButtonsSound({b}, ui),
         enabled' \subseteq enabled, UNCHANGED <<ui, minted>>
  PROVE  PageSound'
  <1> DEFINE q == [pc |-> Promise[b], auto |-> auto, scenario |-> id,
                   seen |-> ui]
  <1>1. CallSound(q, ui, minted)
    BY EnterSound DEF PageSound
  <1>2. calls' = [calls EXCEPT ![c] = q]
    BY DEF Enter
  <1> HIDE DEF q
  <1>3. /\ minted' \in Nat /\ minted <= minted'
        /\ UiSound(ui', minted') /\ Extends(ui, ui')
        /\ CallSound(q, ui', minted')
    BY <1>1, ExtendsItself DEF PageSound
  <1> QED
    BY <1>2, <1>3, HandlerStep

LEMMA ClickPage ==
  ASSUME PageSound, NEW c \in Calls, NEW b \in Buttons, NEW id \in ScenarioId,
         Click(c, b, id)
  PROVE  PageSound'
  <1>1. ButtonsSound({b}, ui)
    BY DEF Click, PageSound, ButtonsSound
  <1> QED
    BY <1>1, EnterPage DEF Click

LEMMA AutoRunPage ==
  ASSUME PageSound, NEW c \in Calls, AutoRun(c)
  PROVE  PageSound'
  <1>1. ButtonsSound({"btn1"}, ui) /\ "btn1" \in Buttons
    BY DEF ButtonsSound, Buttons
  <1> QED
    BY <1>1, EnterPage, PageAssumption DEF AutoRun

LEMMA WakePage ==
  ASSUME PageSound, NEW c \in Calls, Wake(c)
  PROVE  PageSound'
  <1>1. PICK n \in 1..4 :
          /\ calls[c].pc = Nap[n]
          /\ Enter(c, Step[n + 1], TRUE, calls[c].scenario)
          /\ enabled' \subseteq enabled /\ UNCHANGED <<ui, minted>>
    BY DEF Wake
  <1>2. /\ Step[2] = "btn2" /\ Step[3] = "btn3" /\ Step[4] = "btn4"
        /\ Step[5] = "verify"
    BY DEF Step
  <1>3. CallSound(calls[c], ui, minted) /\ calls[c].scenario \in ScenarioId
    BY DEF PageSound, Call
  <1>4. /\ n = 1 => ui.human # None /\ Step[n + 1] = "btn2"
        /\ n = 2 => ui.agent # None /\ Step[n + 1] = "btn3"
        /\ n = 3 => ui.da # Nothing /\ Step[n + 1] = "btn4"
        /\ n = 4 => ui.cert # Nothing /\ Step[n + 1] = "verify"
    <2>1. Supplied(Nap[n], ui)
      BY <1>1, <1>3 DEF CallSound
    <2>2. 1 + 1 = 2 /\ 2 + 1 = 3 /\ 3 + 1 = 4 /\ 4 + 1 = 5
      OBVIOUS
    <2>3. n = 1 => ui.human # None /\ Step[n + 1] = "btn2"
      BY <1>2, <2>1, <2>2, NapOf DEF Supplied
    <2>4. n = 2 => ui.agent # None /\ Step[n + 1] = "btn3"
      BY <1>2, <2>1, <2>2, NapOf DEF Supplied
    <2>5. n = 3 => ui.da # Nothing /\ Step[n + 1] = "btn4"
      BY <1>2, <2>1, <2>2, NapOf DEF Supplied
    <2>6. n = 4 => ui.cert # Nothing /\ Step[n + 1] = "verify"
      BY <1>2, <2>1, <2>2, NapOf DEF Supplied
    <2> QED
      BY <2>3, <2>4, <2>5, <2>6
  <1>5. Step[n + 1] \in Buttons /\ ButtonsSound({Step[n + 1]}, ui)
    BY <1>4, NapOf DEF ButtonsSound, Buttons
  <1> QED
    BY <1>1, <1>3, <1>5, EnterPage

LEMMA HumanCreatedPage ==
  ASSUME PageSound, NEW c \in Calls, HumanCreated(c)
  PROVE  PageSound'
  <1> DEFINE q == [calls[c] EXCEPT !.pc = "check human"]
             k == minted + 1
  <1>0. calls' = [calls EXCEPT ![c].pc = "check human"]
    BY DEF HumanCreated
  <1>1. /\ minted \in Nat /\ minted' = k /\ k \in Nat \ {0} /\ minted <= k
        /\ ui' = [ui EXCEPT !.human = k]
        /\ calls' = [calls EXCEPT ![c] = q] /\ enabled' = enabled
    <2>1. minted \in Nat
      BY DEF PageSound
    <2>2. minted' = k /\ ui' = [ui EXCEPT !.human = k] /\ enabled' = enabled
      BY DEF HumanCreated
    <2>3. calls' = [calls EXCEPT ![c] = q]
      BY <1>0
    <2>4. k \in Nat \ {0} /\ minted <= k
      BY <2>1
    <2> HIDE DEF k, q
    <2> QED
      BY <2>1, <2>2, <2>3, <2>4
  <1>2. k \in Key /\ k # None
    BY <1>1 DEF Key, None
  <1> HIDE DEF k
  <1>3. /\ ui' \in UiState /\ ui'.human = k /\ ui'.agent = ui.agent
        /\ ui'.ca = ui.ca /\ ui'.request = ui.request /\ ui'.da = ui.da
        /\ ui'.cert = ui.cert
    BY <1>1, <1>2 DEF PageSound, UiSound, UiState
  <1>4. Chain(ui') /\ Extends(ui, ui')
    BY <1>2, <1>3 DEF PageSound, UiSound, Chain, Extends
  <1>5. Original(ui', minted')
    BY <1>1, <1>3, OriginalLater DEF PageSound, UiSound, Original
  <1>6. CallSound(q, ui', minted')
    <2>1. CallSound(calls[c], ui', minted')
      BY <1>1, <1>4, SoundExtends DEF PageSound
    <2>2. calls[c] \in Call
      BY DEF PageSound
    <2>3. "check human" \in {"idle", "check human", "issue"}
      OBVIOUS
    <2>4. /\ q \in Call /\ q.pc = "check human" /\ q.seen = calls[c].seen
      BY <2>2, <2>3 DEF Call
    <2> QED
      BY <1>2, <1>3, <2>1, <2>4 DEF CallSound, Supplied, Equipped
  <1> HIDE DEF q
  <1> QED
    BY <1>1, <1>3, <1>4, <1>5, <1>6, HandlerStep DEF UiSound

\* A handler ends: the page has grown by what a nap after it relies on.
LEMMA ReturnPage ==
  ASSUME PageSound, NEW c \in Calls, NEW n \in 1..4, Return(c, n),
         minted' \in Nat, minted <= minted',
         UiSound(ui', minted'), Extends(ui, ui'), Supplied(Nap[n], ui'),
         enabled' = EnableStepButtons(ui')
  PROVE  PageSound'
  <1>1. calls \in [Calls -> Call] /\ minted \in Nat
        /\ CallSound(calls[c], ui, minted)
    BY DEF PageSound
  <1>2. CallSound(calls[c], ui', minted')
    BY <1>1, SoundExtends
  <1>3. PICK q : calls' = [calls EXCEPT ![c] = q] /\ CallSound(q, ui', minted')
    BY <1>1, <1>2, ReturnSound
  <1> QED
    BY <1>3, HandlerStep

\* A handler ends and leaves the page as it is.
LEMMA EndPage ==
  ASSUME PageSound, NEW c \in Calls, calls' = [calls EXCEPT ![c] = Idle],
         minted' \in Nat, minted <= minted', UNCHANGED <<ui, enabled>>
  PROVE  PageSound'
  <1>1. minted \in Nat /\ UiSound(ui, minted)
    BY DEF PageSound
  <1>2. UiSound(ui, minted') /\ Extends(ui, ui)
    BY <1>1, OriginalLater, ExtendsItself DEF UiSound
  <1>3. CallSound(Idle, ui, minted')
    BY IdleSound
  <1> QED
    BY <1>2, <1>3, HandlerStep

LEMMA HumanCheckedPage ==
  ASSUME PageSound, NEW c \in Calls, HumanChecked(c)
  PROVE  PageSound'
  <1>1. /\ ui' = ui /\ minted' = minted /\ Return(c, 1)
        /\ enabled' = EnableStepButtons(ui) /\ calls[c].pc = "check human"
    BY DEF HumanChecked
  <1>2. /\ minted \in Nat /\ minted <= minted /\ UiSound(ui, minted)
        /\ CallSound(calls[c], ui, minted)
    BY DEF PageSound
  <1>3. Supplied(Nap[1], ui)
    BY <1>1, <1>2, NapOf DEF CallSound, Supplied
  <1>4. 1 \in 1..4
    OBVIOUS
  <1> QED
    BY <1>1, <1>2, <1>3, <1>4, ReturnPage, ExtendsItself

LEMMA AgentCreatedPage ==
  ASSUME PageSound, NEW c \in Calls, AgentCreated(c)
  PROVE  PageSound'
  <1> DEFINE k == minted + 1
             r == BuildDelegationRequest(k, minted + 2, AgentCaps)
  <1>1. /\ calls[c].pc = "create agent" /\ minted' = minted + 2
        /\ ui' = [ui EXCEPT !.agent = k, !.request = r]
        /\ enabled' = EnableStepButtons(ui') /\ Return(c, 2)
    BY DEF AgentCreated
  <1>2. minted \in Nat /\ ui \in UiState /\ CallSound(calls[c], ui, minted)
    BY DEF PageSound, UiSound
  <1>3. k \in Key /\ k # None /\ minted + 2 \in Key /\ k <= minted'
        /\ minted' \in Nat /\ minted <= minted'
    <2>1. /\ minted + 1 \in Nat \ {0} /\ minted + 2 \in Nat \ {0}
          /\ minted + 1 <= minted + 2 /\ minted <= minted + 2
      BY <1>2
    <2>2. minted' = minted + 2
      BY <1>1
    <2> QED
      BY <2>1, <2>2 DEF Key, None
  <1>4. r \in DelegationRequest /\ r # Nothing /\ r.caps = AgentCaps
    BY <1>3, CapabilityAssumption, NothingAssumption
    DEF BuildDelegationRequest, DelegationRequest
  <1> HIDE DEF k, r
  <1>5. /\ ui' \in UiState /\ ui'.agent = k /\ ui'.request = r
        /\ ui'.human = ui.human /\ ui'.ca = ui.ca /\ ui'.da = ui.da
        /\ ui'.cert = ui.cert
    BY <1>1, <1>2, <1>3, <1>4 DEF UiState
  <1>6. ui.human # None
    BY <1>1, <1>2 DEF CallSound, Supplied
  <1>7. Chain(ui') /\ Extends(ui, ui')
    BY <1>3, <1>4, <1>5, <1>6 DEF PageSound, UiSound, Chain, Extends
  <1>8. Original(ui', minted')
    <2>1. Original(ui, minted')
      BY <1>2, <1>3, OriginalLater DEF PageSound, UiSound
    <2> QED
      BY <1>3, <1>4, <1>5, <2>1 DEF Original
  <1>9. Supplied(Nap[2], ui')
    BY <1>3, <1>5, NapOf DEF Supplied
  <1>10. 2 \in 1..4
    OBVIOUS
  <1> QED
    BY <1>1, <1>3, <1>5, <1>7, <1>8, <1>9, <1>10, ReturnPage DEF UiSound

LEMMA SignedPage ==
  ASSUME PageSound, NEW c \in Calls, Signed(c)
  PROVE  PageSound'
  <1> DEFINE s == calls[c].seen
             d == ApproveDelegation(s.human, s.request, TRUE)
  <1>1. /\ calls[c].pc = "sign" /\ minted' = minted
        /\ ui' = [ui EXCEPT !.da = d]
        /\ enabled' = EnableStepButtons(ui') /\ Return(c, 3)
    BY DEF Signed
  <1>2. /\ minted \in Nat /\ minted <= minted /\ ui \in UiState
        /\ CallSound(calls[c], ui, minted)
    BY DEF PageSound, UiSound
  <1>3. /\ s \in UiState /\ Original(s, minted)
        /\ s.human # None /\ s.request # Nothing /\ ui.agent # None
    BY <1>1, <1>2 DEF CallSound, Call, Equipped, Supplied
  <1>4. /\ s.human \in Key /\ s.request \in DelegationRequest
        /\ s.request.caps = AgentCaps
    BY <1>3 DEF UiState, Original
  <1>5. d \in DAClaims /\ d # Nothing /\ d.caps = AgentCaps /\ d.limited
    <2>1. /\ s.request.nonce \in Key /\ s.request.caps \in SUBSET Capabilities
      BY <1>4 DEF DelegationRequest
    <2>2. d \in DAClaims
      BY <1>4, <2>1 DEF ApproveDelegation, DAClaims
    <2>3. d.caps = AgentCaps /\ d.limited
      BY <1>4 DEF ApproveDelegation
    <2> HIDE DEF d
    <2> QED
      BY <2>2, <2>3, NothingAssumption
  <1> HIDE DEF s, d
  <1>6. /\ ui' \in UiState /\ ui'.da = d /\ ui'.agent = ui.agent
        /\ ui'.request = ui.request /\ ui'.human = ui.human
        /\ ui'.ca = ui.ca /\ ui'.cert = ui.cert
    BY <1>1, <1>2, <1>5 DEF UiState
  <1>7. Chain(ui') /\ Extends(ui, ui') /\ Original(ui', minted)
    BY <1>3, <1>5, <1>6 DEF PageSound, UiSound, Chain, Extends, Original
  <1>8. Supplied(Nap[3], ui')
    BY <1>5, <1>6, NapOf DEF Supplied
  <1>9. 3 \in 1..4
    OBVIOUS
  <1> QED
    BY <1>1, <1>2, <1>6, <1>7, <1>8, <1>9, ReturnPage DEF UiSound

LEMMA CACreatedPage ==
  ASSUME PageSound, NEW c \in Calls, CACreated(c)
  PROVE  PageSound'
  <1> DEFINE k == minted + 1
             q == [calls[c] EXCEPT !.pc = "issue", !.seen = ui']
  <1>1. /\ calls[c].pc = "create ca" /\ minted' = k
        /\ ui' = [ui EXCEPT !.ca = k] /\ enabled' = enabled
    BY DEF CACreated
  <1>2. calls' = [calls EXCEPT ![c].pc = "issue", ![c].seen = ui']
    BY DEF CACreated
  <1>3. calls' = [calls EXCEPT ![c] = q]
    BY <1>2 DEF PageSound
  <1>4. /\ minted \in Nat /\ ui \in UiState /\ calls[c] \in Call
        /\ CallSound(calls[c], ui, minted)
    BY DEF PageSound, UiSound
  <1>5. k \in Key /\ k # None /\ k \in Nat /\ minted <= k
    BY <1>4 DEF Key, None
  <1> HIDE DEF k
  <1>6. /\ ui' \in UiState /\ ui'.ca = k /\ ui'.agent = ui.agent
        /\ ui'.request = ui.request /\ ui'.human = ui.human
        /\ ui'.da = ui.da /\ ui'.cert = ui.cert
    BY <1>1, <1>4, <1>5 DEF UiState
  <1>7. Chain(ui') /\ Extends(ui, ui')
    BY <1>5, <1>6 DEF PageSound, UiSound, Chain, Extends
  <1>8. Original(ui', minted')
    <2>1. Original(ui, k)
      BY <1>4, <1>5, OriginalLater DEF PageSound, UiSound
    <2> QED
      BY <1>1, <1>6, <2>1 DEF Original
  <1>9. "issue" \in {"idle", "check human", "issue"}
    OBVIOUS
  <1>10. q \in Call /\ q.pc = "issue" /\ q.seen = ui'
    BY <1>4, <1>6, <1>9 DEF Call
  <1>11. ui.da # Nothing
    BY <1>1, <1>4 DEF CallSound, Supplied
  <1>12. CallSound(q, ui', minted')
    BY <1>5, <1>6, <1>7, <1>8, <1>10, <1>11
    DEF CallSound, Supplied, Equipped, Chain
  <1> HIDE DEF q
  <1> QED
    BY <1>1, <1>3, <1>5, <1>6, <1>7, <1>8, <1>12, HandlerStep DEF UiSound

LEMMA CertIssuedPage ==
  ASSUME PageSound, NEW c \in Calls, CertIssued(c)
  PROVE  PageSound'
  <1> DEFINE s == calls[c].seen
             x == IssueAgentCertificate(s.ca, s.agent, s.da)
  <1>1. calls[c].pc = "issue" /\ minted' = minted
    BY DEF CertIssued
  <1>2. /\ minted \in Nat /\ minted <= minted /\ ui \in UiState
        /\ CallSound(calls[c], ui, minted)
    BY DEF PageSound, UiSound
  <1>3. CASE Issuable(s.human, s.da)
    <2>1. /\ ui' = [ui EXCEPT !.cert = x]
          /\ enabled' = EnableStepButtons(ui') /\ Return(c, 4)
      BY <1>3 DEF CertIssued
    <2>2. /\ s \in UiState /\ Original(s, minted)
          /\ s.agent # None /\ s.ca # None /\ s.da # Nothing
          /\ ui.da # Nothing /\ ui.ca # None
      BY <1>1, <1>2 DEF CallSound, Call, Equipped, Supplied
    <2>3. /\ s.agent \in Key /\ s.ca \in Key /\ s.da \in DAClaims
          /\ s.agent <= minted /\ s.da.caps = AgentCaps /\ s.da.limited
      BY <2>2 DEF UiState, Original
    <2>4. /\ x \in Certificate /\ x # Nothing /\ x.cnf <= minted
          /\ x.da.caps = AgentCaps /\ x.da.limited
      <3>1. x \in Certificate
        BY <2>3 DEF IssueAgentCertificate, Certificate
      <3>2. x.cnf = s.agent /\ x.da = s.da
        BY DEF IssueAgentCertificate
      <3> HIDE DEF x
      <3> QED
        BY <2>3, <3>1, <3>2, NothingAssumption
    <2> HIDE DEF s, x
    <2>5. /\ ui' \in UiState /\ ui'.cert = x /\ ui'.agent = ui.agent
          /\ ui'.request = ui.request /\ ui'.human = ui.human
          /\ ui'.ca = ui.ca /\ ui'.da = ui.da
      BY <1>2, <2>1, <2>4 DEF UiState
    <2>6. Chain(ui') /\ Extends(ui, ui') /\ Original(ui', minted)
      BY <2>2, <2>4, <2>5 DEF PageSound, UiSound, Chain, Extends, Original
    <2>7. Supplied(Nap[4], ui')
      BY <2>4, <2>5, NapOf DEF Supplied
    <2>8. 4 \in 1..4
      OBVIOUS
    <2> QED
      BY <1>1, <1>2, <2>1, <2>5, <2>6, <2>7, <2>8, ReturnPage DEF UiSound
  <1>4. CASE ~Issuable(s.human, s.da)
    <2>1. calls' = [calls EXCEPT ![c] = Idle] /\ UNCHANGED <<ui, enabled>>
      BY <1>4 DEF CertIssued
    <2> QED
      BY <1>1, <1>2, <2>1, EndPage
  <1> QED
    BY <1>3, <1>4

\* One step, or none.
LEMMA NextPageSound == PageSound /\ [Next]_vars => PageSound'
  <1> SUFFICES ASSUME PageSound, [Next]_vars PROVE PageSound'
    OBVIOUS
  <1>1. ASSUME NEW c \in Calls, Verified(c) \/ Refused(c) PROVE PageSound'
    <2>1. /\ calls' = [calls EXCEPT ![c] = Idle] /\ UNCHANGED <<ui, enabled>>
          /\ minted' \in {minted, minted + 1, minted + 2}
      BY <1>1 DEF Verified, Refused
    <2>2. minted' \in Nat /\ minted <= minted'
      BY <2>1 DEF PageSound
    <2> QED
      BY <2>1, <2>2, EndPage
  <1>2. CASE Reset
    BY <1>2, FreshPage, EmptyEnables DEF Reset
  <1>3. CASE UNCHANGED vars
    <2>1. UNCHANGED <<ui, enabled, calls, minted>>
      BY <1>3 DEF vars
    <2> QED
      BY <2>1 DEF PageSound
  <1>4. CASE \E c \in Calls : Continue(c)
    BY <1>1, <1>4, WakePage, HumanCreatedPage, HumanCheckedPage,
       AgentCreatedPage, SignedPage, CACreatedPage, CertIssuedPage
    DEF Continue
  <1> QED
    BY <1>2, <1>3, <1>4, ClickPage, AutoRunPage DEF Next

-----------------------------------------------------------------------------
(* The gateway: the verdict is the row of the first check that fails.      *)

\* The row each failing check ends up in; the two that no pattern names, a bad
\* DA signature and capabilities beyond the grants, end up in the first row.
Row == <<1, 3, 1, 1, 7, 9, 12>>

\* The seven checks, and the domain they are numbered by.
LEMMA SevenChecks ==
  ASSUME NEW p, NEW w
  PROVE  /\ DOMAIN Checks(p, w) = 1..7
         /\ \A n \in 1..7 : \/ n = 1 \/ n = 2 \/ n = 3 \/ n = 4
                            \/ n = 5 \/ n = 6 \/ n = 7
         /\ Checks(p, w)[1].ok = (p.cert.sealed /\ p.cert.ca = w.ca)
         /\ Checks(p, w)[2].ok = ~p.cert.expired
         /\ Checks(p, w)[3].ok = (p.cert.da.signer = w.human)
         /\ Checks(p, w)[4].ok = CapsWithinGrants(p.cert.da.caps)
         /\ Checks(p, w)[5].ok =
              (p.cert.da.limited => p.running < MaxConcurrent)
         /\ Checks(p, w)[6].ok =
              \E c \in p.cert.da.caps : <<c, p.cap>> \in Matches
         /\ Checks(p, w)[7].ok = (p.presenter = p.cert.cnf)
  <1>1. DOMAIN Checks(p, w) = 1..7
    BY SMT DEF Checks
  <1>2. \A n \in 1..7 : \/ n = 1 \/ n = 2 \/ n = 3 \/ n = 4
                        \/ n = 5 \/ n = 6 \/ n = 7
    OBVIOUS
  <1>3. /\ Checks(p, w)[1].ok = (p.cert.sealed /\ p.cert.ca = w.ca)
        /\ Checks(p, w)[2].ok = ~p.cert.expired
        /\ Checks(p, w)[3].ok = (p.cert.da.signer = w.human)
    BY Zenon DEF Checks, Check
  <1>4. /\ Checks(p, w)[4].ok = CapsWithinGrants(p.cert.da.caps)
        /\ Checks(p, w)[5].ok =
             (p.cert.da.limited => p.running < MaxConcurrent)
        /\ Checks(p, w)[6].ok =
             \E c \in p.cert.da.caps : <<c, p.cap>> \in Matches
        /\ Checks(p, w)[7].ok = (p.presenter = p.cert.cnf)
    BY Zenon DEF Checks, Check
  <1> QED
    BY <1>1, <1>2, <1>3, <1>4

\* The patterns: their phrases, and the rows of the two that occur here.
LEMMA ElevenPatterns ==
  /\ DOMAIN Patterns = 1..11
  /\ Patterns[1][1] = 12 /\ Patterns[8][1] = 7
  /\ {i \in 1..11 : Patterns[i][2] \in {"cnf: presenter"}} = {1}
  /\ {i \in 1..11 : Patterns[i][2] \in {"max-concurrent"}} = {8}
  <1>1. DOMAIN Patterns = 1..11
    BY SMT DEF Patterns
  <1>2. Patterns[1][1] = 12 /\ Patterns[8][1] = 7
    BY SMT DEF Patterns
  <1>3. /\ Patterns[1][2] = "cnf: presenter" /\ Patterns[2][2] = "mismatch"
        /\ Patterns[3][2] = "kid"            /\ Patterns[4][2] = "expired"
        /\ Patterns[5][2] = "DA "            /\ Patterns[6][2] = "!="
        /\ Patterns[7][2] = "PA "            /\ Patterns[8][2] = "max-concurrent"
        /\ Patterns[9][2] = "max_depth"      /\ Patterns[10][2] = "not allowed"
        /\ Patterns[11][2] = "status"
    BY SMT DEF Patterns
  <1>4. \A i \in 1..11 : \/ i = 1 \/ i = 2 \/ i = 3 \/ i = 4 \/ i = 5 \/ i = 6
                         \/ i = 7 \/ i = 8 \/ i = 9 \/ i = 10 \/ i = 11
    OBVIOUS
  <1>5. 1 \in 1..11 /\ 8 \in 1..11
    OBVIOUS
  <1>6. {i \in 1..11 : Patterns[i][2] \in {"cnf: presenter"}} = {1}
    BY <1>3, <1>4, <1>5
  <1>7. {i \in 1..11 : Patterns[i][2] \in {"max-concurrent"}} = {8}
    BY <1>3, <1>4, <1>5
  <1> QED
    BY <1>1, <1>2, <1>6, <1>7

\* A failure whose message starts with its step's number.
LEMMA ClassifiedByNumber ==
  ASSUME NEW c, c.numbered
  PROVE  ClassifyFailure(c) = c.row
  BY DEF ClassifyFailure

\* A failure that no pattern fits.
LEMMA ClassifiedByDefault ==
  ASSUME NEW c, ~c.numbered, c.phrases = {}
  PROVE  ClassifyFailure(c) = 1
  BY DEF ClassifyFailure

\* A failure that pattern n fits, and no other.
LEMMA ClassifiedByPattern ==
  ASSUME NEW c, ~c.numbered, NEW n \in 1..11,
         {i \in 1..11 : Patterns[i][2] \in c.phrases} = {n}
  PROVE  ClassifyFailure(c) = Patterns[n][1]
  <1>1. DOMAIN Patterns = 1..11
    BY ElevenPatterns
  <1>2. (CHOOSE i \in {n} : \A m \in {n} : i <= m) = n
    OBVIOUS
  <1> QED
    BY <1>1, <1>2 DEF ClassifyFailure

LEMMA Classified ==
  ASSUME NEW p, NEW w, NEW n \in 1..7
  PROVE  ClassifyFailure(Checks(p, w)[n]) = Row[n]
  <1> DEFINE k == Checks(p, w)
  <1>1. /\ ~k[1].numbered /\ k[1].phrases = {}
        /\ k[2].numbered  /\ k[2].row = 3
        /\ ~k[3].numbered /\ k[3].phrases = {}
        /\ ~k[4].numbered /\ k[4].phrases = {}
        /\ ~k[5].numbered /\ k[5].phrases = {"max-concurrent"}
        /\ k[6].numbered  /\ k[6].row = 9
        /\ ~k[7].numbered /\ k[7].phrases = {"cnf: presenter"}
    BY DEF Checks, Check
  <1> HIDE DEF k
  <1>2. {i \in 1..11 : Patterns[i][2] \in {"max-concurrent"}} = {8}
        /\ Patterns[8][1] = 7
    BY ElevenPatterns
  <1>3. {i \in 1..11 : Patterns[i][2] \in {"cnf: presenter"}} = {1}
        /\ Patterns[1][1] = 12
    BY ElevenPatterns
  <1>4. /\ ClassifyFailure(k[1]) = 1 /\ ClassifyFailure(k[3]) = 1
        /\ ClassifyFailure(k[4]) = 1
    BY <1>1, ClassifiedByDefault
  <1>5. ClassifyFailure(k[2]) = 3 /\ ClassifyFailure(k[6]) = 9
    BY <1>1, ClassifiedByNumber
  <1>6. 8 \in 1..11 /\ 1 \in 1..11
    OBVIOUS
  <1>7. ClassifyFailure(k[5]) = 7
    <2>1. \A c : ~c.numbered /\ c.phrases = {"max-concurrent"}
                    => ClassifyFailure(c) = Patterns[8][1]
      <3>1. SUFFICES ASSUME NEW c, ~c.numbered, c.phrases = {"max-concurrent"}
                     PROVE  ClassifyFailure(c) = Patterns[8][1]
        OBVIOUS
      <3>2. {i \in 1..11 : Patterns[i][2] \in c.phrases} = {8}
        BY <3>1, <1>2
      <3> QED
        BY <3>1, <3>2, <1>6, ClassifiedByPattern
    <2> QED
      BY <1>1, <1>2, <2>1
  <1>8. ClassifyFailure(k[7]) = 12
    <2>1. \A c : ~c.numbered /\ c.phrases = {"cnf: presenter"}
                    => ClassifyFailure(c) = Patterns[1][1]
      <3>1. SUFFICES ASSUME NEW c, ~c.numbered, c.phrases = {"cnf: presenter"}
                     PROVE  ClassifyFailure(c) = Patterns[1][1]
        OBVIOUS
      <3>2. {i \in 1..11 : Patterns[i][2] \in c.phrases} = {1}
        BY <3>1, <1>3
      <3> QED
        BY <3>1, <3>2, <1>6, ClassifiedByPattern
    <2> QED
      BY <1>1, <1>3, <2>1
  <1>9. \/ n = 1 \/ n = 2 \/ n = 3 \/ n = 4 \/ n = 5 \/ n = 6 \/ n = 7
    OBVIOUS
  <1>10. /\ Row[1] = 1 /\ Row[2] = 3 /\ Row[3] = 1 /\ Row[4] = 1
         /\ Row[5] = 7 /\ Row[6] = 9 /\ Row[7] = 12
    BY DEF Row
  <1>11. ClassifyFailure(k[n]) = Row[n]
    BY <1>4, <1>5, <1>7, <1>8, <1>9, <1>10
  <1> QED
    BY <1>11 DEF k

\* The verdict when check n is the first to fail.
LEMMA FirstFailureDecides ==
  ASSUME NEW p, NEW w, NEW n \in 1..7, ~Checks(p, w)[n].ok,
         \A m \in 1..(n - 1) : Checks(p, w)[m].ok
  PROVE  VerifyAgentCertificate(p, w) = Row[n]
  <1> DEFINE k == Checks(p, w)
  <1>1. DOMAIN k = 1..7
    BY SevenChecks
  <1> HIDE DEF k
  <1>2. FirstFailure(k) = n
    <2>1. ~k[n].ok /\ \A m \in 1..(n - 1) : k[m].ok
      BY DEF k
    <2>2. ASSUME NEW i \in 1..7, ~k[i].ok, \A m \in 1..(i - 1) : k[m].ok
          PROVE  i = n
      <3>1. CASE i < n
        BY <2>1, <2>2, <3>1
      <3>2. CASE n < i
        BY <2>1, <2>2, <3>2
      <3> QED
        BY <3>1, <3>2
    <2> QED
      BY <1>1, <2>1, <2>2 DEF FirstFailure
  <1>3. ~Permits(k)
    BY <1>1 DEF Permits, k
  <1>4. VerifyAgentCertificate(p, w) = ClassifyFailure(k[n])
    BY <1>2, <1>3 DEF VerifyAgentCertificate, k
  <1> QED
    BY <1>4, Classified DEF k

\* The verdict is Permit when no check fails, and never otherwise.
LEMMA PermitIffAll ==
  ASSUME NEW p, NEW w
  PROVE  /\ VerifyAgentCertificate(p, w) \in 0..13
         /\ VerifyAgentCertificate(p, w) = Permit
              <=> \A n \in 1..7 : Checks(p, w)[n].ok
  <1> DEFINE k == Checks(p, w)
  <1>1. DOMAIN k = 1..7
    BY SevenChecks
  <1>2. CASE \A n \in 1..7 : k[n].ok
    BY <1>1, <1>2 DEF VerifyAgentCertificate, Permits, Permit
  <1>3. CASE ~ \A n \in 1..7 : k[n].ok
    <2> HIDE DEF k
    <2>1. \E n \in 1..7 : ~k[n].ok /\ \A m \in 1..(n - 1) : k[m].ok
      <3>1. \A n \in 1..7 : \/ n = 1 \/ n = 2 \/ n = 3 \/ n = 4
                            \/ n = 5 \/ n = 6 \/ n = 7
        OBVIOUS
      <3> DEFINE P(n) == ~k[n].ok /\ \A m \in 1..(n - 1) : k[m].ok
      <3>2. ~k[1].ok => P(1)
        OBVIOUS
      <3>3. k[1].ok /\ ~k[2].ok => P(2)
        OBVIOUS
      <3>4. k[1].ok /\ k[2].ok /\ ~k[3].ok => P(3)
        OBVIOUS
      <3>5. k[1].ok /\ k[2].ok /\ k[3].ok /\ ~k[4].ok => P(4)
        OBVIOUS
      <3>6. k[1].ok /\ k[2].ok /\ k[3].ok /\ k[4].ok /\ ~k[5].ok => P(5)
        OBVIOUS
      <3>7. k[1].ok /\ k[2].ok /\ k[3].ok /\ k[4].ok /\ k[5].ok /\ ~k[6].ok
              => P(6)
        OBVIOUS
      <3>8. k[1].ok /\ k[2].ok /\ k[3].ok /\ k[4].ok /\ k[5].ok /\ k[6].ok
              /\ ~k[7].ok => P(7)
        OBVIOUS
      <3> HIDE DEF P
      <3>9. \E n \in 1..7 : P(n)
        BY <1>3, <3>1, <3>2, <3>3, <3>4, <3>5, <3>6, <3>7, <3>8
      <3> QED
        BY <3>9 DEF P
    <2>2. PICK n \in 1..7 : ~k[n].ok /\ \A m \in 1..(n - 1) : k[m].ok
      BY <2>1
    <2>3. VerifyAgentCertificate(p, w) = Row[n]
      BY <2>2, FirstFailureDecides DEF k
    <2>4. Row[n] \in 1..13
      BY DEF Row
    <2> QED
      BY <1>3, <2>3, <2>4 DEF Permit, k
  <1> QED
    BY <1>2, <1>3

-----------------------------------------------------------------------------
(* The theorems.                                                           *)

\* main.ts never loses an artefact a handler in flight depends on.
THEOREM PageInvariant == Spec => []PageSound
  BY InitPageSound, NextPageSound, PTL DEF Spec

\* The casts of main.ts:496-497 and 525-529 never meet a missing artefact, for
\* any number of handlers, clicks and runs of autoRun.
THEOREM NothingMissingHolds == Spec => []NothingMissing
  <1>1. PageSound => NothingMissing
    BY DEF PageSound, CallSound, Equipped, NothingMissing
  <1> QED
    BY <1>1, PageInvariant, PTL

\* What is presented to the gateway in each scenario.
LEMMA Presented ==
  ASSUME NEW w, w.cert \in Certificate, NEW id \in ScenarioId, NEW x
  PROVE  LET p == Presentation(w, id, x)
         IN  /\ p.cert.da = w.cert.da /\ p.cert.cnf = w.cert.cnf
             /\ id = "expired" => p.cert.expired
             /\ id = "tampered" => ~p.cert.sealed
             /\ id \notin {"expired", "tampered"} => p.cert = w.cert
             /\ id = "spoofed" => p.presenter = x
             /\ id # "spoofed" => p.presenter = w.agent
             /\ id = "overreach" => p.cap = DropCap
             /\ id = "concurrency" => p.running = MaxConcurrent + 1
  <1> DEFINE p == Presentation(w, id, x)
             a == ExpiredCopy(w.cert, w.ca)
             b == TamperToken(w.cert)
  <1>1. a.da = w.cert.da /\ a.cnf = w.cert.cnf /\ a.expired
    BY DEF ExpiredCopy, Certificate
  <1>2. b.da = w.cert.da /\ b.cnf = w.cert.cnf /\ ~b.sealed
    BY DEF TamperToken, Certificate
  <1>3. /\ id = "expired" => p.cert = a
        /\ id = "tampered" => p.cert = b
        /\ id \notin {"expired", "tampered"} => p.cert = w.cert
    BY DEF Presentation
  <1>4. /\ id = "spoofed" => p.presenter = x
        /\ id # "spoofed" => p.presenter = w.agent
        /\ id = "overreach" => p.cap = DropCap
        /\ id = "concurrency" => p.running = MaxConcurrent + 1
    BY DEF Presentation
  <1> HIDE DEF p, a, b
  <1>5. p.cert.da = w.cert.da /\ p.cert.cnf = w.cert.cnf
    BY <1>1, <1>2, <1>3
  <1>6. /\ p.cert.da = w.cert.da /\ p.cert.cnf = w.cert.cnf
        /\ id = "expired" => p.cert.expired
        /\ id = "tampered" => ~p.cert.sealed
        /\ id \notin {"expired", "tampered"} => p.cert = w.cert
    BY <1>1, <1>2, <1>3, <1>5
  <1> QED
    BY <1>4, <1>6 DEF p

\* A permitted presentation is the happy one, of a coherent world: in every
\* other scenario one of the seven checks fails.
LEMMA PermittedIsHappy ==
  ASSUME NEW w \in World, NEW m \in Nat, Original(w, m), NEW id \in ScenarioId,
         VerifyAgentCertificate(Presentation(w, id, m + 1), w) = Permit
  PROVE  id = "happy" /\ CoherentWorld(w)
  <1> DEFINE p == Presentation(w, id, m + 1)
  <1>1. /\ w.cert \in Certificate /\ w.cert.cnf \in Nat /\ w.cert.cnf <= m
        /\ w.cert.da.caps = AgentCaps /\ w.cert.da.limited
    BY DEF World, UiState, Original, Certificate, Key
  <1>2. /\ p.cert.da = w.cert.da /\ p.cert.cnf = w.cert.cnf
        /\ id = "expired" => p.cert.expired
        /\ id = "tampered" => ~p.cert.sealed
        /\ id \notin {"expired", "tampered"} => p.cert = w.cert
        /\ id = "spoofed" => p.presenter = m + 1
        /\ id # "spoofed" => p.presenter = w.agent
        /\ id = "overreach" => p.cap = DropCap
        /\ id = "concurrency" => p.running = MaxConcurrent + 1
    BY <1>1, Presented
  <1>3. \A n \in 1..7 : Checks(p, w)[n].ok
    BY PermitIffAll
  <1> HIDE DEF p
  <1>4. /\ p.cert.sealed /\ p.cert.ca = w.ca
        /\ ~p.cert.expired
        /\ p.cert.da.signer = w.human
        /\ CapsWithinGrants(p.cert.da.caps)
        /\ p.cert.da.limited => p.running < MaxConcurrent
        /\ \E c \in p.cert.da.caps : <<c, p.cap>> \in Matches
        /\ p.presenter = p.cert.cnf
    <2>1. /\ 1 \in 1..7 /\ 2 \in 1..7 /\ 3 \in 1..7 /\ 4 \in 1..7
          /\ 5 \in 1..7 /\ 6 \in 1..7 /\ 7 \in 1..7
      OBVIOUS
    <2>2. /\ Checks(p, w)[1].ok /\ Checks(p, w)[2].ok /\ Checks(p, w)[3].ok
          /\ Checks(p, w)[4].ok /\ Checks(p, w)[5].ok /\ Checks(p, w)[6].ok
          /\ Checks(p, w)[7].ok
      BY <1>3, <2>1
    <2> QED
      BY <2>2, SevenChecks, Zenon
  <1>5. id # "expired" /\ id # "tampered"
    BY <1>2, <1>4
  <1>6. id # "overreach"
    BY <1>1, <1>2, <1>4, PolicyAssumption
  <1>7. id # "spoofed"
    <2>1. m + 1 # w.cert.cnf
      BY <1>1
    <2> QED
      BY <1>2, <1>4, <2>1
  <1>8. id # "concurrency"
    <2>1. ~(MaxConcurrent + 1 < MaxConcurrent)
      BY QuotaAssumption
    <2> QED
      BY <1>1, <1>2, <1>4, <2>1
  <1>9. id = "happy"
    BY <1>5, <1>6, <1>7, <1>8 DEF ScenarioId
  <1> QED
    BY <1>2, <1>4, <1>9 DEF CoherentWorld

\* Whatever handlers have replaced on the page meanwhile, the gateway permits
\* the scenario that should pass, and only on a coherent chain of artefacts.
THEOREM PermitCoherentHolds == Spec => PermitCoherent
  <1>1. ASSUME PageSound, [Next]_vars
        PROVE  \A c \in Calls :
                 calls[c].pc = "verify" /\ Verified(c) /\ shown'.row = Permit =>
                   shown'.scenario = "happy" /\ CoherentWorld(calls[c].seen)
    <2>1. SUFFICES ASSUME NEW c \in Calls, calls[c].pc = "verify", Verified(c),
                          shown'.row = Permit
                   PROVE  shown'.scenario = "happy"
                          /\ CoherentWorld(calls[c].seen)
      OBVIOUS
    <2> DEFINE s  == calls[c].seen
               id == calls[c].scenario
    <2>2. CallSound(calls[c], ui, minted) /\ calls[c] \in Call /\ minted \in Nat
      BY <1>1 DEF PageSound
    <2>3. s \in World /\ Original(s, minted) /\ id \in ScenarioId
      BY <2>1, <2>2 DEF CallSound, Equipped, Call
    <2>4. shown' = [scenario |-> id,
            row |-> VerifyAgentCertificate(Presentation(s, id, minted + 1), s)]
      BY <2>1 DEF Verified
    <2> HIDE DEF s, id
    <2>5. /\ shown'.scenario = id
          /\ VerifyAgentCertificate(Presentation(s, id, minted + 1), s) = Permit
      BY <2>1, <2>4
    <2>6. id = "happy" /\ CoherentWorld(s)
      BY <2>2, <2>3, <2>5, PermittedIsHappy
    <2> QED
      BY <2>5, <2>6 DEF s
  <1>2. PageSound /\ [Next]_vars =>
          [\A c \in Calls :
             calls[c].pc = "verify" /\ Verified(c) /\ shown'.row = Permit =>
               shown'.scenario = "happy" /\ CoherentWorld(calls[c].seen)]_vars
    BY <1>1
  <1> QED
    BY <1>2, PageInvariant, PTL DEF Spec, PermitCoherent

\* demonstrateOutOfScopeIssuance never gets a certificate out of the CA.
THEOREM OverreachRefusedHolds == Spec => []OverreachRefused
  <1>1. Init => OverreachRefused
    BY DEF Init, OverreachRefused
  <1>2. OverreachRefused /\ [Next]_vars => OverreachRefused'
    <2> SUFFICES ASSUME OverreachRefused, [Next]_vars PROVE OverreachRefused'
      OBVIOUS
    <2>1. ASSUME NEW c \in Calls, Refused(c) PROVE OverreachRefused'
      <3> DEFINE req == BuildDelegationRequest(minted + 1, minted + 2, {DropCap})
                 da  == ApproveDelegation(calls[c].seen.human, req, FALSE)
      <3>1. da.caps = {DropCap}
        BY DEF ApproveDelegation, BuildDelegationRequest
      <3>2. refusal' = IF Issuable(calls[c].seen.human, da)
                       THEN "issued" ELSE "refused"
        BY <2>1 DEF Refused
      <3> HIDE DEF da
      <3>3. ~Issuable(calls[c].seen.human, da)
        BY <3>1, PolicyAssumption DEF Issuable, CapsWithinGrants
      <3> QED
        BY <3>2, <3>3 DEF OverreachRefused
    <2>2. ASSUME NEW c \in Calls, Continue(c), ~Refused(c)
          PROVE  refusal' = refusal
      BY <2>2 DEF Continue, Wake, HumanCreated, HumanChecked, AgentCreated,
                  Signed, CACreated, CertIssued, Verified
    <2>3. ASSUME NEW c \in Calls, AutoRun(c) PROVE OverreachRefused'
      BY <2>3 DEF AutoRun, OverreachRefused
    <2>4. ASSUME NEW c \in Calls, NEW b \in Buttons, NEW id \in ScenarioId,
                 Click(c, b, id)
          PROVE  OverreachRefused'
      BY <2>4 DEF Click, OverreachRefused
    <2>5. CASE Reset
      BY <2>5 DEF Reset, OverreachRefused
    <2>6. CASE UNCHANGED vars
      BY <2>6 DEF vars, OverreachRefused
    <2> QED
      BY <2>1, <2>2, <2>3, <2>4, <2>5, <2>6 DEF Next, OverreachRefused
  <1> QED
    BY <1>1, <1>2, PTL DEF Spec

\* The cards and the counters have their types.
CardsOK ==
  /\ shown \in Report \cup {Nothing}
  /\ refusal \in {"none", "refused", "issued"}
  /\ clicks \in Nat /\ autos \in Nat

LEMMA NextCardsOK == PageSound /\ CardsOK /\ [Next]_vars => CardsOK'
  <1> SUFFICES ASSUME PageSound, CardsOK, [Next]_vars PROVE CardsOK'
    OBVIOUS
  <1>1. ASSUME NEW c \in Calls, Verified(c) PROVE CardsOK'
    <2> DEFINE s  == calls[c].seen
               id == calls[c].scenario
               r  == VerifyAgentCertificate(Presentation(s, id, minted + 1), s)
    <2>1. id \in ScenarioId
      BY DEF PageSound, Call
    <2>2. r \in 0..13
      BY PermitIffAll
    <2>3. shown' = [scenario |-> id, row |-> r]
          /\ UNCHANGED <<refusal, clicks, autos>>
      BY <1>1 DEF Verified
    <2> HIDE DEF id, r
    <2> QED
      BY <2>1, <2>2, <2>3 DEF CardsOK, Report
  <1>2. ASSUME NEW c \in Calls, Refused(c) PROVE CardsOK'
    <2>1. refusal' \in {"refused", "issued"}
          /\ UNCHANGED <<shown, clicks, autos>>
      BY <1>2 DEF Refused
    <2> QED
      BY <2>1 DEF CardsOK
  <1>3. ASSUME NEW c \in Calls, Continue(c), ~Verified(c), ~Refused(c)
        PROVE  CardsOK'
    <2>1. UNCHANGED <<shown, refusal, clicks, autos>>
      BY <1>3 DEF Continue, Wake, HumanCreated, HumanChecked, AgentCreated,
                  Signed, CACreated, CertIssued
    <2> QED
      BY <2>1 DEF CardsOK
  <1>4. ASSUME NEW c \in Calls, AutoRun(c) PROVE CardsOK'
    BY <1>4 DEF AutoRun, CardsOK
  <1>5. ASSUME NEW c \in Calls, NEW b \in Buttons, NEW id \in ScenarioId,
               Click(c, b, id)
        PROVE  CardsOK'
    BY <1>5 DEF Click, CardsOK
  <1>6. CASE Reset
    BY <1>6 DEF Reset, CardsOK
  <1>7. CASE UNCHANGED vars
    BY <1>7 DEF vars, CardsOK
  <1> QED
    BY <1>1, <1>2, <1>3, <1>4, <1>5, <1>6, <1>7 DEF Next

\* The page, the buttons, the handlers in flight and the cards keep their types.
THEOREM PageTypeCorrect == Spec => []TypeOK
  <1>1. Init => CardsOK
    BY DEF Init, CardsOK
  <1>2. PageSound /\ CardsOK => TypeOK
    BY DEF PageSound, CardsOK, TypeOK, UiSound, ButtonsSound
  <1> QED
    BY <1>1, <1>2, NextCardsOK, PageInvariant, PTL DEF Spec

-----------------------------------------------------------------------------
(***************************************************************************)
(* What the page promises to a user who only clicks, however fast, or who  *)
(* only watches one autoRun: the steps come one after the other, and every *)
(* verdict is the advertised one.                                          *)
(*                                                                         *)
(* For such a user the artefacts pass through six stages, and at most one  *)
(* handler that changes them is in flight; the stage follows from what it  *)
(* waits for.  Verifications run side by side in the last stage only.      *)
(***************************************************************************)

\* The stages, in the order of the steps; in Founded the CA has no certificate
\* to show yet.
Fresh(u) == u = Empty

Bare(u) == u.da = Nothing /\ u.ca = None /\ u.cert = Nothing

Named(u) ==
  /\ u.human # None /\ u.agent = None /\ u.request = Nothing /\ Bare(u)

Asked(u) ==
  /\ u.human # None /\ u.agent # None
  /\ u.request # Nothing /\ u.request.agent = u.agent

Requested(u) == Asked(u) /\ Bare(u)

Agreed(u) ==
  /\ Asked(u)
  /\ u.da # Nothing /\ u.da.signer = u.human /\ u.da.nonce = u.request.nonce

Approved(u) == Agreed(u) /\ u.ca = None /\ u.cert = Nothing

Founded(u) == Agreed(u) /\ u.ca # None /\ u.cert = Nothing

Certified(u) ==
  /\ Agreed(u)
  /\ u.ca # None /\ u.cert # Nothing
  /\ u.cert.ca = u.ca /\ u.cert.da = u.da /\ u.cert.cnf = u.agent
  /\ u.cert.sealed /\ ~u.cert.expired

Settled(u) ==
  Fresh(u) \/ Named(u) \/ Requested(u) \/ Approved(u) \/ Certified(u)

Agreeing(u) == Settled(u) \/ Founded(u)

Naps == {"nap 1", "nap 2", "nap 3", "nap 4"}

\* The stage while a handler waits at p.
Stage(p, u) ==
  /\ p = "create human" => Fresh(u)
  /\ p \in {"check human", "nap 1", "create agent"} => Named(u)
  /\ p \in {"nap 2", "sign"} => Requested(u)
  /\ p \in {"nap 3", "create ca"} => Approved(u)
  /\ p = "issue" => Founded(u)
  /\ p \in {"nap 4", "verify", "refuse"} => Certified(u)

\* A handler that changes the page, or that belongs to autoRun.
Busy(q) == q.auto \/ q.pc \notin {"idle", "verify", "refuse"}

Working == {"sign", "issue", "verify", "refuse"}

InStep(q, u) ==
  /\ Stage(q.pc, u)
  /\ q.pc \in Working => q.seen = u
  /\ q.auto => q.pc \notin {"idle", "refuse"}

\* By clicks: no part of autoRun, and the buttons wait for the busy handler.
Clicked ==
  /\ \A c \in Calls : ~calls[c].auto /\ calls[c].pc \notin Naps
  /\ (\E c \in Calls : Busy(calls[c])) => enabled = {}
  /\ (\A c \in Calls : ~Busy(calls[c])) =>
       Settled(ui) /\ enabled = EnableStepButtons(ui)
  /\ clicks = 0 => ui = Empty /\ \A c \in Calls : calls[c].pc = "idle"

\* By autoRun: one handler is in flight, or the verdict is there.
Automatic ==
  /\ \A c \in Calls : calls[c].pc # "idle" =>
       calls[c].auto /\ calls[c].scenario = AutoScenario
  /\ (\A c \in Calls : calls[c].pc = "idle") =>
       shown # Nothing /\ shown.scenario = AutoScenario

Flow ==
  /\ \A c \in Calls : InStep(calls[c], ui)
  /\ \A c \in Calls, d \in Calls :
       Busy(calls[c]) /\ c # d => calls[d].pc = "idle"
  /\ Agreeing(ui)
  /\ shown # Nothing => shown.row = Advertised[shown.scenario]
  /\ autos = 0 => Clicked
  /\ autos # 0 => Automatic

\* The inductive invariant; a user who does both has no promise.
FlowKept == Undisturbed => Flow

-----------------------------------------------------------------------------
(* Buttons and stages.                                                     *)

\* Each settled stage enables its own step.
LEMMA StageEnables ==
  ASSUME NEW u
  PROVE  /\ Fresh(u) => EnableStepButtons(u) = {"btn1"}
         /\ Named(u) => EnableStepButtons(u) = {"btn2"}
         /\ Requested(u) => EnableStepButtons(u) = {"btn3"}
         /\ Approved(u) => EnableStepButtons(u) = {"btn4"}
         /\ Certified(u) => EnableStepButtons(u) = {"verify", "refuse"}
  <1>1. ASSUME Fresh(u) PROVE EnableStepButtons(u) = {"btn1"}
    <2>1. u.human = None /\ u.agent = None /\ u.da = Nothing /\ u.cert = Nothing
      BY <1>1 DEF Fresh, Empty
    <2> QED
      BY <2>1 DEF EnableStepButtons, Buttons
  <1>2. ASSUME Named(u) PROVE EnableStepButtons(u) = {"btn2"}
    BY <1>2 DEF EnableStepButtons, Buttons, Named, Bare
  <1>3. ASSUME Requested(u) PROVE EnableStepButtons(u) = {"btn3"}
    BY <1>3 DEF EnableStepButtons, Buttons, Requested, Asked, Bare
  <1>4. ASSUME Approved(u) PROVE EnableStepButtons(u) = {"btn4"}
    BY <1>4 DEF EnableStepButtons, Buttons, Approved, Agreed, Asked
  <1>5. ASSUME Certified(u) PROVE EnableStepButtons(u) = {"verify", "refuse"}
    BY <1>5 DEF EnableStepButtons, Buttons, Certified, Agreed, Asked
  <1> QED
    BY <1>1, <1>2, <1>3, <1>4, <1>5

\* What is not in flight is in step with any page.
LEMMA IdleInStep ==
  ASSUME NEW q, q.pc = "idle", ~q.auto, NEW u
  PROVE  InStep(q, u) /\ ~Busy(q)
  BY DEF InStep, Busy, Stage, Working

\* Beside a busy handler nothing is in flight.
LEMMA Beside ==
  ASSUME Flow, NEW c \in Calls, Busy(calls[c])
  PROVE  /\ calls[c].pc # "idle"
         /\ \A d \in Calls : d # c =>
              calls[d].pc = "idle" /\ ~calls[d].auto /\ ~Busy(calls[d])
         /\ autos = 0 => ~calls[c].auto /\ enabled = {} /\ clicks # 0
         /\ autos # 0 => calls[c].auto /\ calls[c].scenario = AutoScenario
  <1>1. calls[c].pc # "idle"
    BY DEF Flow, InStep, Busy
  <1>2. ASSUME NEW d \in Calls, d # c
        PROVE  calls[d].pc = "idle" /\ ~calls[d].auto /\ ~Busy(calls[d])
    <2>1. calls[d].pc = "idle"
      BY <1>2 DEF Flow
    <2>2. ~calls[d].auto
      BY <2>1 DEF Flow, InStep
    <2> QED
      BY <2>1, <2>2 DEF Busy
  <1>3. autos = 0 => ~calls[c].auto /\ enabled = {} /\ clicks # 0
    BY <1>1 DEF Flow, Clicked
  <1>4. autos # 0 => calls[c].auto /\ calls[c].scenario = AutoScenario
    BY <1>1 DEF Flow, Automatic
  <1> QED
    BY <1>1, <1>2, <1>3, <1>4

\* The busy handler goes on.
LEMMA GoesOn ==
  ASSUME PageSound, Flow, NEW c \in Calls, Busy(calls[c]), NEW q,
         calls' = [calls EXCEPT ![c] = q],
         UNCHANGED <<shown, clicks, autos>>,
         q.auto = calls[c].auto, q.scenario = calls[c].scenario,
         q.pc # "idle", Busy(q), InStep(q, ui'), Agreeing(ui'),
         autos = 0 => q.pc \notin Naps /\ enabled' = enabled
  PROVE  Flow'
  <1>1. /\ calls'[c] = q
        /\ \A d \in Calls : d # c => calls'[d] = calls[d]
    BY DEF PageSound
  <1>2. \A d \in Calls : d # c =>
          /\ calls'[d].pc = "idle" /\ ~calls'[d].auto
          /\ InStep(calls'[d], ui') /\ ~Busy(calls'[d])
    BY <1>1, Beside, IdleInStep
  <1>3. autos = 0 => Clicked'
    BY <1>1, <1>2, Beside DEF Clicked, Naps
  <1>4. autos # 0 => Automatic'
    BY <1>1, <1>2, Beside DEF Automatic
  <1> QED
    BY <1>1, <1>2, <1>3, <1>4 DEF Flow

\* The busy handler of a click ends, and enables the next step.
LEMMA ClickEnds ==
  ASSUME PageSound, Flow, NEW c \in Calls, Busy(calls[c]), ~calls[c].auto,
         calls' = [calls EXCEPT ![c] = Idle],
         UNCHANGED <<shown, clicks, autos>>,
         Settled(ui'), enabled' = EnableStepButtons(ui')
  PROVE  Flow'
  <1>1. /\ calls'[c] = Idle
        /\ \A d \in Calls : d # c => calls'[d] = calls[d]
    BY DEF PageSound
  <1>2. Idle.pc = "idle" /\ ~Idle.auto
    BY DEF Idle
  <1>3. \A d \in Calls :
          /\ calls'[d].pc = "idle" /\ ~calls'[d].auto
          /\ InStep(calls'[d], ui') /\ ~Busy(calls'[d])
    BY <1>1, <1>2, Beside, IdleInStep
  <1>4. autos = 0 /\ clicks # 0
    BY Beside
  <1>5. Clicked'
    BY <1>3, <1>4 DEF Clicked, Naps
  <1> QED
    BY <1>3, <1>4, <1>5 DEF Flow, Agreeing

\* The end of a step, of a click or of autoRun.
LEMMA StepReturns ==
  ASSUME PageSound, Flow, NEW c \in Calls, NEW n \in 1..4, Return(c, n),
         calls[c].pc \notin {"idle", "verify", "refuse"},
         UNCHANGED <<shown, clicks, autos>>,
         Settled(ui'), Stage(Nap[n], ui'), enabled' = EnableStepButtons(ui')
  PROVE  Flow'
  <1>1. Busy(calls[c])
    BY DEF Busy
  <1>2. CASE ~calls[c].auto
    BY <1>1, <1>2, ClickEnds DEF Return
  <1>3. CASE calls[c].auto
    <2> DEFINE q == [calls[c] EXCEPT !.pc = Nap[n]]
    <2>1. calls' = [calls EXCEPT ![c] = q]
      BY <1>3 DEF Return
    <2>2. calls[c] \in Call
      BY DEF PageSound
    <2>3. /\ q.pc = Nap[n] /\ q.auto = calls[c].auto
          /\ q.scenario = calls[c].scenario
      BY <2>2 DEF Call
    <2> HIDE DEF q
    <2>4. Nap[n] \notin {"idle", "refuse"} \cup Working
      BY NapOf DEF Working
    <2>5. InStep(q, ui') /\ Busy(q) /\ q.pc # "idle"
      BY <1>3, <2>3, <2>4 DEF InStep, Busy
    <2>6. autos # 0
      BY <1>1, <1>3, Beside
    <2> QED
      BY <1>1, <2>1, <2>3, <2>5, <2>6, GoesOn DEF Agreeing
  <1> QED
    BY <1>2, <1>3

-----------------------------------------------------------------------------
(* The handlers.                                                           *)

LEMMA HumanCreatedFlow ==
  ASSUME PageSound, Flow, NEW c \in Calls, HumanCreated(c)
  PROVE  Flow'
  <1> DEFINE q == [calls[c] EXCEPT !.pc = "check human"]
  <1>1. /\ calls[c].pc = "create human" /\ calls[c] \in Call
        /\ calls' = [calls EXCEPT ![c].pc = "check human"]
        /\ ui' = [ui EXCEPT !.human = minted + 1]
        /\ UNCHANGED <<enabled, shown, clicks, autos>>
    BY DEF HumanCreated, PageSound
  <1>2. calls' = [calls EXCEPT ![c] = q]
    BY <1>1
  <1>3. q.pc = "check human" /\ q.auto = calls[c].auto
        /\ q.scenario = calls[c].scenario
    BY <1>1 DEF Call
  <1> HIDE DEF q
  <1>4. ui = Empty
    BY <1>1 DEF Flow, InStep, Stage, Fresh
  <1>5. minted + 1 # None
    BY DEF PageSound, None
  <1>6. /\ ui'.human = minted + 1 /\ ui'.agent = None /\ ui'.request = Nothing
        /\ ui'.da = Nothing /\ ui'.ca = None /\ ui'.cert = Nothing
    BY <1>1, <1>4 DEF Empty
  <1>7. Named(ui')
    BY <1>5, <1>6 DEF Named, Bare
  <1>8. InStep(q, ui') /\ Busy(q) /\ Busy(calls[c])
    BY <1>1, <1>3, <1>7 DEF InStep, Stage, Busy, Working
  <1> QED
    BY <1>1, <1>2, <1>3, <1>7, <1>8, GoesOn DEF Agreeing, Settled, Naps

LEMMA HumanCheckedFlow ==
  ASSUME PageSound, Flow, NEW c \in Calls, HumanChecked(c)
  PROVE  Flow'
  <1>1. /\ calls[c].pc = "check human" /\ Return(c, 1)
        /\ enabled' = EnableStepButtons(ui) /\ ui' = ui
        /\ UNCHANGED <<shown, clicks, autos>>
    BY DEF HumanChecked
  <1>2. Named(ui)
    BY <1>1 DEF Flow, InStep, Stage
  <1>3. Stage(Nap[1], ui)
    BY <1>2, NapOf DEF Stage
  <1>4. 1 \in 1..4
    OBVIOUS
  <1> QED
    BY <1>1, <1>2, <1>3, <1>4, StepReturns DEF Settled

LEMMA AgentCreatedFlow ==
  ASSUME PageSound, Flow, NEW c \in Calls, AgentCreated(c)
  PROVE  Flow'
  <1> DEFINE x == BuildDelegationRequest(minted + 1, minted + 2, AgentCaps)
  <1>1. /\ calls[c].pc = "create agent" /\ Return(c, 2)
        /\ ui' = [ui EXCEPT !.agent = minted + 1, !.request = x]
        /\ enabled' = EnableStepButtons(ui')
        /\ UNCHANGED <<shown, clicks, autos>>
    BY DEF AgentCreated
  <1>2. Named(ui) /\ ui \in UiState
    BY <1>1 DEF Flow, InStep, Stage, PageSound, UiSound
  <1>3. x.agent = minted + 1 /\ x # Nothing /\ minted + 1 # None
    <2>1. minted + 1 \in Key /\ minted + 2 \in Key /\ minted + 1 # None
      BY DEF PageSound, Key, None
    <2>2. x \in DelegationRequest /\ x.agent = minted + 1
      BY <2>1, CapabilityAssumption
      DEF BuildDelegationRequest, DelegationRequest
    <2> HIDE DEF x
    <2> QED
      BY <2>1, <2>2, NothingAssumption
  <1> HIDE DEF x
  <1>4. /\ ui'.human = ui.human /\ ui'.agent = minted + 1 /\ ui'.request = x
        /\ ui'.da = ui.da /\ ui'.ca = ui.ca /\ ui'.cert = ui.cert
    BY <1>1, <1>2 DEF UiState
  <1>5. Requested(ui')
    BY <1>2, <1>3, <1>4 DEF Named, Bare, Requested, Asked
  <1>6. Stage(Nap[2], ui')
    BY <1>5, NapOf DEF Stage
  <1>7. 2 \in 1..4
    OBVIOUS
  <1> QED
    BY <1>1, <1>5, <1>6, <1>7, StepReturns DEF Settled

LEMMA SignedFlow ==
  ASSUME PageSound, Flow, NEW c \in Calls, Signed(c)
  PROVE  Flow'
  <1> DEFINE x == ApproveDelegation(ui.human, ui.request, TRUE)
  <1>1. /\ calls[c].pc = "sign" /\ calls[c].seen = ui /\ Requested(ui)
    BY DEF Signed, Flow, InStep, Stage, Working
  <1>2. /\ ui' = [ui EXCEPT !.da = x] /\ Return(c, 3)
        /\ enabled' = EnableStepButtons(ui')
        /\ UNCHANGED <<shown, clicks, autos>>
    BY <1>1 DEF Signed
  <1>3. ui \in UiState
    BY DEF PageSound, UiSound
  <1>4. x.signer = ui.human /\ x.nonce = ui.request.nonce /\ x # Nothing
    <2>1. ui.human \in Key /\ ui.request \in DelegationRequest
      BY <1>1, <1>3 DEF Requested, Asked, UiState
    <2>2. x \in DAClaims
      BY <2>1 DEF ApproveDelegation, DAClaims, DelegationRequest
    <2>3. x.signer = ui.human /\ x.nonce = ui.request.nonce
      BY DEF ApproveDelegation
    <2> HIDE DEF x
    <2> QED
      BY <2>2, <2>3, NothingAssumption
  <1> HIDE DEF x
  <1>5. /\ ui'.human = ui.human /\ ui'.agent = ui.agent
        /\ ui'.request = ui.request /\ ui'.da = x
        /\ ui'.ca = ui.ca /\ ui'.cert = ui.cert
    BY <1>2, <1>3 DEF UiState
  <1>6. Approved(ui')
    BY <1>1, <1>4, <1>5 DEF Requested, Approved, Agreed, Asked, Bare
  <1>7. Stage(Nap[3], ui')
    BY <1>6, NapOf DEF Stage
  <1>8. 3 \in 1..4
    OBVIOUS
  <1> QED
    BY <1>1, <1>2, <1>6, <1>7, <1>8, StepReturns DEF Settled

LEMMA CACreatedFlow ==
  ASSUME PageSound, Flow, NEW c \in Calls, CACreated(c)
  PROVE  Flow'
  <1> DEFINE q == [calls[c] EXCEPT !.pc = "issue", !.seen = ui']
  <1>1. /\ calls[c].pc = "create ca" /\ calls[c] \in Call
        /\ calls' = [calls EXCEPT ![c].pc = "issue", ![c].seen = ui']
        /\ ui' = [ui EXCEPT !.ca = minted + 1]
        /\ UNCHANGED <<enabled, shown, clicks, autos>>
    BY DEF CACreated, PageSound
  <1>2. calls' = [calls EXCEPT ![c] = q]
    BY <1>1 DEF PageSound
  <1>3. q.pc = "issue" /\ q.seen = ui' /\ q.auto = calls[c].auto
        /\ q.scenario = calls[c].scenario
    BY <1>1 DEF Call
  <1> HIDE DEF q
  <1>4. Approved(ui) /\ ui \in UiState
    BY <1>1 DEF Flow, InStep, Stage, PageSound, UiSound
  <1>5. minted + 1 # None
    BY DEF PageSound, None
  <1>6. /\ ui'.human = ui.human /\ ui'.agent = ui.agent
        /\ ui'.request = ui.request /\ ui'.da = ui.da
        /\ ui'.ca = minted + 1 /\ ui'.cert = ui.cert
    BY <1>1, <1>4 DEF UiState
  <1>7. Founded(ui')
    BY <1>4, <1>5, <1>6 DEF Approved, Founded, Agreed, Asked
  <1>8. InStep(q, ui') /\ Busy(q) /\ Busy(calls[c])
    BY <1>1, <1>3, <1>7 DEF InStep, Stage, Busy, Working
  <1> QED
    BY <1>1, <1>2, <1>3, <1>7, <1>8, GoesOn DEF Agreeing, Naps

\* The DA on the page is signed by its human and within the grants.
LEMMA CertIssuedFlow ==
  ASSUME PageSound, Flow, NEW c \in Calls, CertIssued(c)
  PROVE  Flow'
  <1> DEFINE x == IssueAgentCertificate(ui.ca, ui.agent, ui.da)
  <1>1. /\ calls[c].pc = "issue" /\ calls[c].seen = ui /\ Founded(ui)
    BY DEF CertIssued, Flow, InStep, Stage, Working
  <1>2. ui \in UiState /\ ui.da.caps = AgentCaps
    BY <1>1 DEF PageSound, UiSound, Original, Founded, Agreed
  <1>3. Issuable(ui.human, ui.da)
    BY <1>1, <1>2, PolicyAssumption
    DEF Issuable, CapsWithinGrants, Founded, Agreed
  <1>4. /\ ui' = [ui EXCEPT !.cert = x] /\ Return(c, 4)
        /\ enabled' = EnableStepButtons(ui')
        /\ UNCHANGED <<shown, clicks, autos>>
    BY <1>1, <1>3 DEF CertIssued
  <1>5. /\ x.ca = ui.ca /\ x.da = ui.da /\ x.cnf = ui.agent
        /\ x.sealed /\ ~x.expired /\ x # Nothing
    <2>1. ui.ca \in Key /\ ui.agent \in Key /\ ui.da \in DAClaims
      BY <1>1, <1>2 DEF Founded, Agreed, Asked, UiState
    <2>2. x \in Certificate
      BY <2>1 DEF IssueAgentCertificate, Certificate
    <2>3. /\ x.ca = ui.ca /\ x.da = ui.da /\ x.cnf = ui.agent
          /\ x.sealed /\ ~x.expired
      BY DEF IssueAgentCertificate
    <2> HIDE DEF x
    <2> QED
      BY <2>2, <2>3, NothingAssumption
  <1> HIDE DEF x
  <1>6. /\ ui'.human = ui.human /\ ui'.agent = ui.agent
        /\ ui'.request = ui.request /\ ui'.da = ui.da
        /\ ui'.ca = ui.ca /\ ui'.cert = x
    BY <1>2, <1>4 DEF UiState
  <1>7. Certified(ui')
    BY <1>1, <1>5, <1>6 DEF Founded, Certified, Agreed, Asked
  <1>8. Stage(Nap[4], ui')
    BY <1>7, NapOf DEF Stage
  <1>9. 4 \in 1..4
    OBVIOUS
  <1> QED
    BY <1>1, <1>4, <1>7, <1>8, <1>9, StepReturns DEF Settled

\* autoRun calls its next step, on a page in the right stage.
LEMMA WakeFlow ==
  ASSUME PageSound, Flow, NEW c \in Calls, Wake(c)
  PROVE  Flow'
  <1>1. PICK n \in 1..4 :
          /\ calls[c].pc = Nap[n]
          /\ Enter(c, Step[n + 1], TRUE, calls[c].scenario)
          /\ UNCHANGED <<ui, shown, clicks, autos>>
    BY DEF Wake
  <1> DEFINE b == Step[n + 1]
             q == [pc |-> Promise[b], auto |-> TRUE,
                   scenario |-> calls[c].scenario, seen |-> ui]
  <1>2. calls' = [calls EXCEPT ![c] = q]
    BY <1>1 DEF Enter
  <1>3. /\ q.pc = Promise[b] /\ q.auto /\ q.seen = ui
        /\ q.scenario = calls[c].scenario
    OBVIOUS
  <1>4. /\ n = 1 => b = "btn2" /\ Named(ui)
        /\ n = 2 => b = "btn3" /\ Requested(ui)
        /\ n = 3 => b = "btn4" /\ Approved(ui)
        /\ n = 4 => b = "verify" /\ Certified(ui)
    <2>1. Stage(Nap[n], ui)
      BY <1>1 DEF Flow, InStep
    <2>2. /\ Step[1 + 1] = "btn2" /\ Step[2 + 1] = "btn3"
          /\ Step[3 + 1] = "btn4" /\ Step[4 + 1] = "verify"
      BY DEF Step
    <2>3. n = 1 => Named(ui)
      BY <2>1, NapOf DEF Stage
    <2>4. n = 2 => Requested(ui)
      BY <2>1, NapOf DEF Stage
    <2>5. n = 3 => Approved(ui)
      BY <2>1, NapOf DEF Stage
    <2>6. n = 4 => Certified(ui)
      BY <2>1, NapOf DEF Stage
    <2> QED
      BY <2>2, <2>3, <2>4, <2>5, <2>6
  <1> HIDE DEF q, b
  <1>5. Stage(q.pc, ui) /\ q.pc \notin {"idle", "refuse"}
    BY <1>3, <1>4, NapOf, PromiseOf DEF Stage
  <1>6. InStep(q, ui) /\ Busy(q)
    BY <1>3, <1>5 DEF InStep, Busy
  <1>7. Busy(calls[c]) /\ calls[c].auto /\ autos # 0
    <2>1. calls[c].pc \in Naps
      BY <1>1, NapOf DEF Naps
    <2>2. Busy(calls[c])
      BY <2>1 DEF Busy, Naps
    <2>3. autos # 0
      BY <2>1 DEF Flow, Clicked
    <2> QED
      BY <2>2, <2>3, Beside
  <1>8. Agreeing(ui)
    BY DEF Flow
  <1>9. q.auto = calls[c].auto
    <2>1. calls[c].auto = TRUE /\ q.auto = TRUE
      BY <1>7 DEF q, PageSound, Call
    <2> QED
      BY <2>1
  <1> QED
    BY <1>1, <1>2, <1>3, <1>5, <1>6, <1>7, <1>8, <1>9, GoesOn

\* While somebody clicks, nothing is busy when a button is enabled.
LEMMA EnabledSettled ==
  ASSUME Flow, autos = 0, enabled # {}
  PROVE  /\ \A c \in Calls : ~Busy(calls[c])
         /\ Settled(ui) /\ enabled = EnableStepButtons(ui)
  BY DEF Flow, Clicked

\* A click on a step: its handler is alone, since verifications need the last
\* stage, which has no next step.
LEMMA ClickStepFlow ==
  ASSUME PageSound, Flow, autos = 0, clicks \in Nat, NEW c \in Calls,
         NEW b \in Buttons, NEW id \in ScenarioId, Click(c, b, id),
         b \notin {"verify", "refuse"}
  PROVE  Flow'
  <1> DEFINE q == [pc |-> Promise[b], auto |-> FALSE, scenario |-> id,
                   seen |-> ui]
  <1>1. /\ calls' = [calls EXCEPT ![c] = q]
        /\ b \in enabled
        /\ enabled' = enabled \ ({b} \cap {"btn1", "btn2", "btn3", "btn4"})
        /\ clicks' = clicks + 1 /\ UNCHANGED <<ui, shown, autos>>
    BY DEF Click, Enter
  <1>2. /\ q.pc = Promise[b] /\ ~q.auto /\ q.seen = ui
    OBVIOUS
  <1> HIDE DEF q
  <1>3. /\ \A d \in Calls : ~Busy(calls[d])
        /\ Settled(ui) /\ enabled = EnableStepButtons(ui)
    BY <1>1, EnabledSettled
  <1>4. /\ enabled = {b}
        /\ b = "btn1" => Fresh(ui)
        /\ b = "btn2" => Named(ui)
        /\ b = "btn3" => Requested(ui)
        /\ b = "btn4" => Approved(ui)
        /\ ~Certified(ui)
    BY <1>1, <1>3, StageEnables DEF Settled, Buttons
  <1>5. b \in {"btn1", "btn2", "btn3", "btn4"}
    BY DEF Buttons
  <1>6. enabled' = {}
    BY <1>1, <1>4, <1>5
  <1>7. Stage(q.pc, ui) /\ q.pc \notin {"idle", "verify", "refuse"} \cup Naps
    BY <1>2, <1>4, <1>5, PromiseOf DEF Stage, Naps
  <1>8. InStep(q, ui) /\ Busy(q)
    BY <1>2, <1>7 DEF InStep, Busy
  <1>9. \A d \in Calls : calls[d].pc = "idle" /\ ~calls[d].auto
    BY <1>3, <1>4 DEF Busy, Flow, InStep, Stage
  <1>10. /\ calls'[c] = q
         /\ \A d \in Calls : d # c => calls'[d] = calls[d]
    BY <1>1 DEF PageSound
  <1>11. \A d \in Calls : d # c =>
           /\ calls'[d].pc = "idle" /\ ~calls'[d].auto
           /\ InStep(calls'[d], ui') /\ ~Busy(calls'[d])
    BY <1>9, <1>10, IdleInStep
  <1>12. clicks' # 0 /\ autos' = 0 /\ ui' = ui /\ shown' = shown
    BY <1>1
  <1>13. Clicked'
    BY <1>2, <1>6, <1>7, <1>8, <1>10, <1>11, <1>12 DEF Clicked, Naps
  <1> QED
    BY <1>8, <1>10, <1>11, <1>12, <1>13 DEF Flow

\* A click on verify or refuse: only handlers of that kind run beside it.
LEMMA ClickShowFlow ==
  ASSUME PageSound, Flow, autos = 0, clicks \in Nat, NEW c \in Calls,
         NEW b \in {"verify", "refuse"}, NEW id \in ScenarioId, Click(c, b, id)
  PROVE  Flow'
  <1> DEFINE q == [pc |-> Promise[b], auto |-> FALSE, scenario |-> id,
                   seen |-> ui]
  <1>1. /\ calls' = [calls EXCEPT ![c] = q]
        /\ b \in enabled /\ enabled' = enabled
        /\ clicks' = clicks + 1 /\ UNCHANGED <<ui, shown, autos>>
    BY DEF Click, Enter
  <1>2. q.pc \in {"verify", "refuse"} /\ ~q.auto /\ q.seen = ui
    BY PromiseOf
  <1> HIDE DEF q
  <1>3. /\ \A d \in Calls : ~Busy(calls[d])
        /\ Settled(ui) /\ enabled = EnableStepButtons(ui)
    BY <1>1, EnabledSettled
  <1>4. Certified(ui)
    BY <1>1, <1>3, StageEnables DEF Settled
  <1>5. InStep(q, ui) /\ ~Busy(q) /\ q.pc \notin Naps
    BY <1>2, <1>4 DEF InStep, Stage, Busy, Naps
  <1>6. /\ calls'[c] = q
        /\ \A d \in Calls : d # c => calls'[d] = calls[d]
    BY <1>1 DEF PageSound
  <1>7. \A d \in Calls :
          /\ InStep(calls'[d], ui') /\ ~Busy(calls'[d])
          /\ ~calls'[d].auto /\ calls'[d].pc \notin Naps
    BY <1>1, <1>2, <1>3, <1>5, <1>6 DEF Flow, Clicked
  <1>8. clicks' # 0 /\ autos' = 0
    BY <1>1
  <1>9. Clicked'
    BY <1>1, <1>3, <1>7, <1>8 DEF Clicked
  <1> QED
    BY <1>1, <1>7, <1>8, <1>9 DEF Flow

\* autoRun starts on a page nobody has touched.
LEMMA AutoRunFlow ==
  ASSUME PageSound, Flow, autos = 0, clicks = 0, NEW c \in Calls, AutoRun(c)
  PROVE  Flow'
  <1> DEFINE q == [pc |-> Promise["btn1"], auto |-> TRUE,
                   scenario |-> AutoScenario, seen |-> ui]
  <1>1. /\ calls' = [calls EXCEPT ![c] = q]
        /\ autos' = 1 /\ ui' = ui /\ shown' = Nothing
    BY DEF AutoRun, Enter
  <1>2. q.pc = "create human" /\ q.auto /\ q.scenario = AutoScenario
    BY PromiseOf
  <1> HIDE DEF q
  <1>3. ui = Empty /\ \A d \in Calls : calls[d].pc = "idle"
    BY DEF Flow, Clicked
  <1>4. \A d \in Calls : ~calls[d].auto
    BY DEF Flow, Clicked
  <1>5. InStep(q, ui')
    BY <1>1, <1>2, <1>3 DEF InStep, Stage, Fresh, Working
  <1>6. /\ calls'[c] = q
        /\ \A d \in Calls : d # c => calls'[d] = calls[d]
    BY <1>1 DEF PageSound
  <1>7. \A d \in Calls : d # c =>
          /\ calls'[d].pc = "idle"
          /\ InStep(calls'[d], ui') /\ ~Busy(calls'[d])
    BY <1>3, <1>4, <1>6, IdleInStep
  <1>8. Automatic'
    BY <1>2, <1>6, <1>7 DEF Automatic
  <1> QED
    BY <1>1, <1>3, <1>5, <1>6, <1>7, <1>8 DEF Flow, Agreeing, Settled, Fresh

\* A verification or a refusal that was clicked ends; the page stays.
LEMMA ShowEnds ==
  ASSUME PageSound, Flow, NEW c \in Calls, calls[c].pc \in {"verify", "refuse"},
         ~calls[c].auto, calls' = [calls EXCEPT ![c] = Idle],
         UNCHANGED <<ui, enabled, clicks, autos>>,
         shown' # shown => shown'.row = Advertised[shown'.scenario]
  PROVE  Flow'
  <1>1. autos = 0 /\ clicks # 0
    BY DEF Flow, Automatic, Clicked
  <1>2. \A d \in Calls : ~Busy(calls[d])
    BY DEF Flow, Busy
  <1>3. /\ calls'[c] = Idle /\ Idle.pc = "idle" /\ ~Idle.auto
        /\ \A d \in Calls : d # c => calls'[d] = calls[d]
    BY DEF PageSound, Idle
  <1>4. \A d \in Calls :
          /\ InStep(calls'[d], ui') /\ ~Busy(calls'[d])
          /\ ~calls'[d].auto /\ calls'[d].pc \notin Naps
    <2>1. InStep(Idle, ui') /\ ~Busy(Idle) /\ Idle.pc \notin Naps
      BY <1>3, IdleInStep DEF Naps
    <2> QED
      BY <1>1, <1>2, <1>3, <2>1 DEF Flow, Clicked
  <1>5. Clicked'
    BY <1>1, <1>2, <1>4 DEF Clicked, Flow
  <1> QED
    BY <1>1, <1>4, <1>5 DEF Flow

-----------------------------------------------------------------------------
(* The verdicts.                                                           *)

\* The check a scenario is made to fail; 8 for the one that passes.
Failing == [happy |-> 8, overreach |-> 6, expired |-> 2, tampered |-> 1,
            spoofed |-> 7, concurrency |-> 5]

LEMMA FailingRow ==
  ASSUME NEW id \in ScenarioId
  PROVE  /\ id = "happy" => Failing[id] = 8 /\ Advertised[id] = Permit
         /\ id # "happy" => /\ Failing[id] \in 1..7
                            /\ Row[Failing[id]] = Advertised[id]
         /\ Failing[id] = 1 <=> id = "tampered"
         /\ Failing[id] = 2 <=> id = "expired"
         /\ Failing[id] = 5 <=> id = "concurrency"
         /\ Failing[id] = 6 <=> id = "overreach"
         /\ Failing[id] = 7 <=> id = "spoofed"
         /\ Failing[id] \notin {3, 4}
  <1>1. /\ Failing["happy"] = 8       /\ Failing["overreach"] = 6
        /\ Failing["expired"] = 2     /\ Failing["tampered"] = 1
        /\ Failing["spoofed"] = 7     /\ Failing["concurrency"] = 5
    BY DEF Failing
  <1>2. /\ Advertised["happy"] = 0    /\ Advertised["overreach"] = 9
        /\ Advertised["expired"] = 3  /\ Advertised["tampered"] = 1
        /\ Advertised["spoofed"] = 12 /\ Advertised["concurrency"] = 7
    BY DEF Advertised, Permit
  <1>3. Row[1] = 1 /\ Row[2] = 3 /\ Row[5] = 7 /\ Row[6] = 9 /\ Row[7] = 12
    BY DEF Row
  <1>4. \/ id = "happy" \/ id = "overreach" \/ id = "expired"
        \/ id = "tampered" \/ id = "spoofed" \/ id = "concurrency"
    BY DEF ScenarioId
  <1> QED
    BY <1>1, <1>2, <1>3, <1>4 DEF Permit

\* What a scenario leaves as it is.
LEMMA PresentedAsIs ==
  ASSUME NEW w, w.cert \in Certificate, NEW id \in ScenarioId, NEW x
  PROVE  LET p == Presentation(w, id, x)
         IN  /\ id = "expired" => p.cert.sealed /\ p.cert.ca = w.ca
             /\ id # "overreach" => p.cap = QueryCap
             /\ id # "concurrency" => p.running = 1
  <1> DEFINE p == Presentation(w, id, x)
             a == ExpiredCopy(w.cert, w.ca)
  <1>1. a.sealed /\ a.ca = w.ca
    BY DEF ExpiredCopy, Certificate
  <1>2. /\ id = "expired" => p.cert = a
        /\ id # "overreach" => p.cap = QueryCap
        /\ id # "concurrency" => p.running = 1
    BY DEF Presentation
  <1> HIDE DEF p, a
  <1> QED
    BY <1>1, <1>2 DEF p

\* On the artefacts of the last stage each scenario fails exactly at its check.
LEMMA FailsAt ==
  ASSUME NEW w \in World, NEW m \in Nat, Original(w, m), Certified(w),
         NEW id \in ScenarioId, NEW n \in 1..7
  PROVE  LET ok == Checks(Presentation(w, id, m + 1), w)[n].ok
         IN  (n < Failing[id] => ok) /\ (n = Failing[id] => ~ok)
  <1> DEFINE p == Presentation(w, id, m + 1)
  <1>1. /\ w.cert \in Certificate /\ w.cert.cnf \in Nat /\ w.cert.cnf <= m
        /\ w.cert.da.caps = AgentCaps /\ w.cert.da.limited
    BY DEF World, UiState, Original, Certificate, Key
  <1>2. /\ w.cert.sealed /\ ~w.cert.expired /\ w.cert.ca = w.ca
        /\ w.cert.da.signer = w.human /\ w.cert.cnf = w.agent
    BY DEF Certified, Agreed
  <1>3. /\ p.cert.da = w.cert.da /\ p.cert.cnf = w.cert.cnf
        /\ id = "expired" =>
             p.cert.expired /\ p.cert.sealed /\ p.cert.ca = w.ca
        /\ id = "tampered" => ~p.cert.sealed
        /\ id \notin {"expired", "tampered"} => p.cert = w.cert
        /\ id = "spoofed" => p.presenter = m + 1
        /\ id # "spoofed" => p.presenter = w.agent
        /\ id = "overreach" => p.cap = DropCap
        /\ id # "overreach" => p.cap = QueryCap
        /\ id = "concurrency" => p.running = MaxConcurrent + 1
        /\ id # "concurrency" => p.running = 1
    BY <1>1, Presented, PresentedAsIs
  <1> HIDE DEF p
  <1> DEFINE k == Checks(p, w)
  <1>4. /\ k[1].ok <=> p.cert.sealed /\ p.cert.ca = w.ca
        /\ k[2].ok <=> ~p.cert.expired
        /\ k[3].ok <=> p.cert.da.signer = w.human
        /\ k[4].ok <=> CapsWithinGrants(p.cert.da.caps)
        /\ k[5].ok <=> (p.cert.da.limited => p.running < MaxConcurrent)
        /\ k[6].ok <=> \E c \in p.cert.da.caps : <<c, p.cap>> \in Matches
        /\ k[7].ok <=> p.presenter = p.cert.cnf
    <2>1. k[1].ok <=> p.cert.sealed /\ p.cert.ca = w.ca
      BY SevenChecks DEF Checks, Check
    <2>2. k[2].ok <=> ~p.cert.expired
      BY SevenChecks, Zenon
    <2>3. k[3].ok <=> p.cert.da.signer = w.human
      BY SevenChecks DEF Checks, Check
    <2>4. k[4].ok <=> CapsWithinGrants(p.cert.da.caps)
      BY SevenChecks DEF Checks, Check
    <2>5. k[5].ok <=> (p.cert.da.limited => p.running < MaxConcurrent)
      BY SevenChecks, Zenon
    <2>6. k[6].ok <=> \E c \in p.cert.da.caps : <<c, p.cap>> \in Matches
      BY SevenChecks, Zenon
    <2>7. k[7].ok <=> p.presenter = p.cert.cnf
      BY SevenChecks, Zenon
    <2> QED
      BY <2>1, <2>2, <2>3, <2>4, <2>5, <2>6, <2>7
  <1> HIDE DEF k
  <1>5. (id # "tampered" => k[1].ok) /\ (id = "tampered" => ~k[1].ok)
    BY <1>2, <1>3, <1>4
  <1>6. (id \notin {"tampered", "expired"} => k[2].ok)
        /\ (id = "expired" => ~k[2].ok)
    BY <1>2, <1>3, <1>4
  <1>7. k[3].ok
    BY <1>2, <1>3, <1>4
  <1>8. k[4].ok
    BY <1>1, <1>3, <1>4, PolicyAssumption DEF CapsWithinGrants
  <1>9. (id # "concurrency" => k[5].ok) /\ (id = "concurrency" => ~k[5].ok)
    <2>1. 1 < MaxConcurrent /\ ~(MaxConcurrent + 1 < MaxConcurrent)
      BY QuotaAssumption
    <2>2. (p.running < MaxConcurrent) => k[5].ok
      BY <1>4
    <2>3. ~(p.running < MaxConcurrent) => ~k[5].ok
      BY <1>1, <1>3, <1>4
    <2> QED
      BY <1>3, <2>1, <2>2, <2>3
  <1>10. (id # "overreach" => k[6].ok) /\ (id = "overreach" => ~k[6].ok)
    BY <1>1, <1>3, <1>4, PolicyAssumption
  <1>11. (id # "spoofed" => k[7].ok) /\ (id = "spoofed" => ~k[7].ok)
    <2>1. m + 1 # w.cert.cnf
      BY <1>1
    <2> QED
      BY <1>2, <1>3, <1>4, <2>1
  <1>12. (n < Failing[id] => k[n].ok) /\ (n = Failing[id] => ~k[n].ok)
    <2>1. \/ n = 1 \/ n = 2 \/ n = 3 \/ n = 4 \/ n = 5 \/ n = 6 \/ n = 7
      OBVIOUS
    <2>2. 2 < Failing[id] => id \notin {"tampered", "expired"}
      BY FailingRow
    <2> QED
      BY <1>5, <1>6, <1>7, <1>8, <1>9, <1>10, <1>11, <2>1, <2>2, FailingRow
  <1> QED
    BY <1>12 DEF k, p

\* The verdict of the gateway is the advertised one.
LEMMA AdvertisedVerdict ==
  ASSUME NEW w \in World, NEW m \in Nat, Original(w, m), Certified(w),
         NEW id \in ScenarioId
  PROVE  VerifyAgentCertificate(Presentation(w, id, m + 1), w) = Advertised[id]
  <1> DEFINE p == Presentation(w, id, m + 1)
             k == Checks(p, w)
  <1>1. \A n \in 1..7 : (n < Failing[id] => k[n].ok)
                        /\ (n = Failing[id] => ~k[n].ok)
    BY FailsAt
  <1>2. CASE id = "happy"
    <2>1. \A n \in 1..7 : n < 8
      OBVIOUS
    <2>2. \A n \in 1..7 : k[n].ok
      BY <1>1, <1>2, <2>1, FailingRow
    <2> QED
      BY <1>2, <2>2, PermitIffAll, FailingRow
  <1>3. CASE id # "happy"
    <2> DEFINE f == Failing[id]
    <2>1. f \in 1..7 /\ Row[f] = Advertised[id]
      BY <1>3, FailingRow
    <2> HIDE DEF f
    <2>2. \A n \in 1..(f - 1) : n \in 1..7 /\ n < f
      BY <2>1
    <2>3. ~k[f].ok /\ \A n \in 1..(f - 1) : k[n].ok
      BY <1>1, <2>1, <2>2 DEF f
    <2> HIDE DEF p
    <2>4. VerifyAgentCertificate(p, w) = Row[f]
      BY <2>1, <2>3, FirstFailureDecides
    <2> QED
      BY <2>1, <2>4 DEF p
  <1> QED
    BY <1>2, <1>3

\* A verification ends: of a click, or the last step of autoRun.
LEMMA VerifiedFlow ==
  ASSUME PageSound, Flow, NEW c \in Calls, Verified(c)
  PROVE  Flow'
  <1> DEFINE id == calls[c].scenario
             r  == VerifyAgentCertificate(Presentation(ui, id, minted + 1), ui)
  <1>1. /\ calls[c].pc = "verify" /\ calls[c].seen = ui /\ Certified(ui)
        /\ CallSound(calls[c], ui, minted) /\ calls[c] \in Call
        /\ minted \in Nat
    BY DEF Verified, Flow, InStep, Stage, Working, PageSound
  <1>2. ui \in World /\ Original(ui, minted) /\ id \in ScenarioId
    BY <1>1 DEF CallSound, Equipped, Call
  <1>3. /\ shown' = [scenario |-> id, row |-> r]
        /\ calls' = [calls EXCEPT ![c] = Idle]
        /\ UNCHANGED <<ui, enabled, clicks, autos>>
    BY <1>1 DEF Verified
  <1>4. r = Advertised[id] /\ r \in 0..13
    BY <1>1, <1>2, AdvertisedVerdict, PermitIffAll
  <1> HIDE DEF id, r
  <1>5. /\ shown'.scenario = id /\ shown'.row = Advertised[shown'.scenario]
        /\ shown' # Nothing
    <2>1. shown' \in [scenario: ScenarioId, row: 0..13]
      BY <1>2, <1>3, <1>4
    <2> QED
      BY <1>3, <1>4, <2>1, NothingAssumption
  <1>6. CASE ~calls[c].auto
    BY <1>1, <1>3, <1>5, <1>6, ShowEnds
  <1>7. CASE calls[c].auto
    <2>1. Busy(calls[c])
      BY <1>7 DEF Busy
    <2>2. autos # 0 /\ id = AutoScenario
      BY <1>7, <2>1, Beside DEF id
    <2>3. /\ calls'[c] = Idle /\ Idle.pc = "idle" /\ ~Idle.auto
          /\ \A d \in Calls : d # c => calls'[d] = calls[d]
      BY <1>3 DEF PageSound, Idle
    <2>4. \A d \in Calls :
            /\ calls'[d].pc = "idle"
            /\ InStep(calls'[d], ui') /\ ~Busy(calls'[d])
      BY <2>1, <2>3, Beside, IdleInStep
    <2>5. Automatic'
      BY <1>5, <2>2, <2>4 DEF Automatic
    <2> QED
      BY <1>3, <1>5, <2>2, <2>4, <2>5 DEF Flow
  <1> QED
    BY <1>6, <1>7

LEMMA RefusedFlow ==
  ASSUME PageSound, Flow, NEW c \in Calls, Refused(c)
  PROVE  Flow'
  <1>1. /\ calls[c].pc = "refuse" /\ calls' = [calls EXCEPT ![c] = Idle]
        /\ UNCHANGED <<ui, enabled, shown, clicks, autos>>
    BY DEF Refused
  <1>2. ~calls[c].auto
    BY <1>1 DEF Flow, InStep
  <1> QED
    BY <1>1, <1>2, ShowEnds
-----------------------------------------------------------------------------
(* The inductive invariant.                                                *)

\* The page as it is loaded: nothing made, nothing in flight, no verdict.
LEMMA FreshFlow ==
  ASSUME Init
  PROVE  Flow
  <1>1. /\ ui = Empty /\ enabled = EnableStepButtons(ui)
        /\ \A c \in Calls : calls[c] = Idle
        /\ shown = Nothing /\ autos = 0
    BY DEF Init
  <1>2. Idle.pc = "idle" /\ ~Idle.auto
    BY DEF Idle
  <1>3. \A c \in Calls :
          /\ calls[c].pc = "idle" /\ ~calls[c].auto
          /\ InStep(calls[c], ui) /\ ~Busy(calls[c])
    BY <1>1, <1>2, IdleInStep
  <1>4. Clicked
    BY <1>1, <1>3 DEF Clicked, Settled, Fresh, Naps
  <1> QED
    BY <1>1, <1>3, <1>4 DEF Flow, Agreeing, Settled, Fresh

LEMMA ResetFlow ==
  ASSUME Reset
  PROVE  Flow'
  <1>1. /\ ui' = Empty /\ enabled' = EnableStepButtons(ui')
        /\ \A c \in Calls : calls'[c] = Idle
        /\ shown' = Nothing /\ autos' = 0
    BY DEF Reset
  <1>2. Idle.pc = "idle" /\ ~Idle.auto
    BY DEF Idle
  <1>3. \A c \in Calls :
          /\ calls'[c].pc = "idle" /\ ~calls'[c].auto
          /\ InStep(calls'[c], ui') /\ ~Busy(calls'[c])
    BY <1>1, <1>2, IdleInStep
  <1>4. Clicked'
    BY <1>1, <1>3 DEF Clicked, Settled, Fresh, Naps
  <1> QED
    BY <1>1, <1>3, <1>4 DEF Flow, Agreeing, Settled, Fresh

\* A step of a handler in flight.
LEMMA ContinueFlow ==
  ASSUME PageSound, Flow, NEW c \in Calls, Continue(c)
  PROVE  Flow'
  BY WakeFlow, HumanCreatedFlow, HumanCheckedFlow, AgentCreatedFlow, SignedFlow,
     CACreatedFlow, CertIssuedFlow, VerifiedFlow, RefusedFlow DEF Continue

LEMMA StutterFlow ==
  ASSUME Flow, UNCHANGED vars
  PROVE  Flow'
  <1>1. (Clicked' <=> Clicked) /\ (Automatic' <=> Automatic)
    BY DEF vars, Clicked, Automatic
  <1> QED
    BY <1>1 DEF vars, Flow

LEMMA NextFlowKept ==
  PageSound /\ CardsOK /\ FlowKept /\ [Next]_vars => FlowKept'
  <1> SUFFICES ASSUME PageSound, CardsOK, FlowKept, [Next]_vars, Undisturbed'
               PROVE  Flow'
    BY DEF FlowKept
  <1>1. clicks \in Nat /\ autos \in Nat
    BY DEF CardsOK
  <1>2. ASSUME NEW c \in Calls, NEW b \in Buttons, NEW id \in ScenarioId,
               Click(c, b, id)
        PROVE  Flow'
    <2>1. clicks' = clicks + 1 /\ autos' = autos
      BY <1>2 DEF Click
    <2>2. autos = 0
      BY <1>1, <2>1 DEF Undisturbed
    <2>3. Flow
      BY <2>2 DEF FlowKept, Undisturbed
    <2> QED
      BY <1>1, <1>2, <2>2, <2>3, ClickStepFlow, ClickShowFlow
  <1>3. ASSUME NEW c \in Calls, AutoRun(c) PROVE Flow'
    <2>1. clicks' = clicks /\ autos' = autos + 1
      BY <1>3 DEF AutoRun
    <2>2. autos = 0 /\ clicks = 0
      BY <1>1, <2>1 DEF Undisturbed
    <2>3. Flow
      BY <2>2 DEF FlowKept, Undisturbed
    <2> QED
      BY <1>3, <2>2, <2>3, AutoRunFlow
  <1>4. CASE Reset
    BY <1>4, ResetFlow
  <1>5. ASSUME NEW c \in Calls, Continue(c) PROVE Flow'
    <2>1. UNCHANGED <<clicks, autos>>
      BY <1>5 DEF Continue, Wake, HumanCreated, HumanChecked, AgentCreated,
                  Signed, CACreated, CertIssued, Verified, Refused
    <2>2. Flow
      BY <2>1 DEF FlowKept, Undisturbed
    <2> QED
      BY <1>5, <2>2, ContinueFlow
  <1>6. CASE UNCHANGED vars
    <2>1. Flow
      BY <1>6 DEF vars, FlowKept, Undisturbed
    <2> QED
      BY <1>6, <2>1, StutterFlow
  <1> QED
    BY <1>2, <1>3, <1>4, <1>5, <1>6 DEF Next

-----------------------------------------------------------------------------
(* The theorems.                                                           *)

\* A user who only clicks, or only watches one autoRun, takes the artefacts
\* through the stages in order, whatever the interleaving of the handlers.
THEOREM FlowInvariant == Spec => [](PageSound /\ FlowKept)
  <1>1. Init => CardsOK /\ FlowKept
    BY FreshFlow DEF Init, CardsOK, FlowKept
  <1> QED
    BY <1>1, NextCardsOK, NextFlowKept, PageInvariant, PTL DEF Spec

\* For such a user the gateway's verdict is the one README.md:56-63 advertises
\* for the scenario, for any number of verifications side by side.
THEOREM VerdictsAsAdvertisedHolds == Spec => []VerdictsAsAdvertised
  <1>1. FlowKept => VerdictsAsAdvertised
    BY DEF FlowKept, Flow, VerdictsAsAdvertised
  <1> QED
    BY <1>1, FlowInvariant, PTL

\* For such a user the DA answers the request on the page, and the certificate
\* comes from the CA beside it.
THEOREM ArtefactsAgreeHolds == Spec => []ArtefactsAgree
  <1>1. ASSUME FlowKept, Undisturbed
        PROVE  /\ ui.da # Nothing => /\ ui.da.signer = ui.human
                                     /\ ui.da.nonce = ui.request.nonce
               /\ ui.cert # Nothing => /\ ui.cert.ca = ui.ca
                                       /\ ui.cert.da = ui.da
                                       /\ ui.cert.cnf = ui.request.agent
    <2>1. Agreeing(ui)
      BY <1>1 DEF FlowKept, Flow
    <2>2. \/ ui.da = Nothing /\ ui.cert = Nothing
          \/ Agreed(ui) /\ (ui.cert = Nothing \/ Certified(ui))
      BY <2>1 DEF Agreeing, Settled, Fresh, Empty, Named, Requested, Approved,
                  Founded, Certified, Bare
    <2> QED
      BY <2>2 DEF Agreed, Asked, Certified
  <1>2. FlowKept => ArtefactsAgree
    BY <1>1 DEF ArtefactsAgree
  <1> QED
    BY <1>2, FlowInvariant, PTL

\* A user who only clicks always finds the next step, or in the end the
\* verifications, enabled when nothing is in flight.
THEOREM NextStepOfferedHolds == Spec => []NextStepOffered
  <1>1. ASSUME PageSound, FlowKept, autos = 0,
               \A c \in Calls : calls[c].pc = "idle"
        PROVE  \/ \E n \in 1..4 : enabled = {Step[n]}
               \/ ui \in World /\ enabled = {"verify", "refuse"}
    <2>1. Flow
      BY <1>1 DEF FlowKept, Undisturbed
    <2>2. \A c \in Calls : ~Busy(calls[c])
      BY <1>1, <2>1 DEF Busy, Flow, Clicked
    <2>3. Settled(ui) /\ enabled = EnableStepButtons(ui)
      BY <1>1, <2>1, <2>2 DEF Flow, Clicked
    <2>4. /\ Step[1] = "btn1" /\ Step[2] = "btn2"
          /\ Step[3] = "btn3" /\ Step[4] = "btn4"
          /\ 1 \in 1..4 /\ 2 \in 1..4 /\ 3 \in 1..4 /\ 4 \in 1..4
      BY DEF Step
    <2>5. Certified(ui) => ui \in World
      BY <1>1 DEF Certified, Agreed, Asked, World, PageSound, UiSound
    <2> QED
      BY <2>3, <2>4, <2>5, StageEnables DEF Settled
  <1>2. PageSound /\ FlowKept => NextStepOffered
    BY <1>1 DEF NextStepOffered
  <1> QED
    BY <1>2, FlowInvariant, PTL

\* An autoRun left alone is over only when its verdict is on the page, and it
\* is the advertised one.
THEOREM AutoDeliversHolds == Spec => []AutoDelivers
  <1>1. FlowKept => AutoDelivers
    BY DEF FlowKept, Undisturbed, Flow, Automatic, AutoDelivers
  <1> QED
    BY <1>1, FlowInvariant, PTL
=============================================================================
