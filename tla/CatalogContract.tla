--------------------------- MODULE CatalogContract ---------------------------
(***************************************************************************)
(* The signed catalog: what the contract (packages/sdk-contracts) accepts, *)
(* how the browser SDK loads a catalog and what its policy then lets a     *)
(* journey do.  Ids name the parts of a catalog, a step of a journey is    *)
(* named within it, and a digest stands for the payload it was made from.  *)
(* Texts, sizes and formats of single fields are left out.                 *)
(***************************************************************************)
EXTENDS Naturals, Sequences, FiniteSets, Functions

CONSTANTS Envelopes,    \* signed catalogs in circulation: [payload, digest, key, signed]
          Sources,      \* bootstrap descriptors: [kind, of]; of is an envelope (inline) or [digest, key]
          Pins,         \* sessions: [version, role]
          TrustKeys,    \* keys of this installation
          LocalMaxRisk, \* SafetyOptions.maximumRisk
          MaxOpens,     \* bound: pages opened
          MaxNow        \* bound: the clock

VARIABLES client,  \* the page being set up: [pin, source, at, holds]
          cache,   \* CatalogCache: the envelopes kept, by key
          opens,
          now

contractVars == <<client, cache, opens, now>>

Read == 1                  \* RISKS: read, reversible_write, external_side_effect, destructive
ReversibleWrite == 2
ExternalSideEffect == 3
Nothing == "nothing"       \* an optional reference that is absent
Destructive == 4
LargerRisk(a, b) == IF a >= b THEN a ELSE b

ActionKinds == {"navigate", "click", "fill", "select", "scroll", "keypress", "hover", "drag", "wait", "tool_call"}
\* What checkSteps and checkTool look at field by field: an action has one of its kinds, a tool
\* call names its tool, and navigating, calling and approving are aimed at no control.
ShapedStep(n) ==
  /\ n.risk \in Read .. Destructive
  /\ n.kind = "action" <=> n.act \in ActionKinds
  /\ n.act = "tool_call" => n.tool # Nothing
  /\ n.act \in {"navigate", "tool_call"} \/ n.kind = "approval" => n.control = Nothing
Shaped(c) ==
  /\ \A t \in DOMAIN c.tools : c.tools[t].risk \in Read .. Destructive
  /\ \A i \in DOMAIN c.journeys :
       /\ c.journeys[i].wrisk \in Read .. Destructive
       /\ \A s \in DOMAIN c.journeys[i].steps : ShapedStep(c.journeys[i].steps[s])
ASSUME EnvelopesAssumption == \A e \in Envelopes : Shaped(e.payload)

-----------------------------------------------------------------------------
(* validateSdkCatalog *)

StepOk(j, s) ==
  LET n == j.steps[s]
  IN /\ n.class = "resumable" => n.kind = "action" /\ n.act = "navigate" /\ n.continuity
     /\ n.continuity => n.class = "resumable"
     /\ n.kind = "loop" => n.max \in 1 .. 20

\* Every step is listed once in journey.compatibility, with its own class.
Listed(j) ==
  /\ DOMAIN j.steps \subseteq DOMAIN j.listed
  /\ \A s \in DOMAIN j.listed :
       /\ s \in DOMAIN j.steps => j.listed[s] = j.steps[s].class
       /\ j.listed[s] = "resumable" => j.risk = Read

WorkflowOk(j) == Len(j.top) > 0 /\ \A s \in DOMAIN j.steps : StepOk(j, s)
JourneyOk(j) == j.roles # {} /\ WorkflowOk(j) /\ Listed(j)

ToolOk(t) == t.risk >= ExternalSideEffect => t.confirmation = "always"
ControlsOk(c) ==
  /\ \A k \in DOMAIN c.controls :
       /\ c.controls[k].screen \in DOMAIN c.screens
       /\ c.controls[k].within \in DOMAIN c.controls \cup {Nothing}
  /\ \A s \in DOMAIN c.screens : c.screens[s] \subseteq DOMAIN c.controls \cup {"route"}

\* Whatever a workflow names exists: controls, screens, tools.
Named(c, j) ==
  \A s \in DOMAIN j.steps :
    /\ j.steps[s].control \in DOMAIN c.controls \cup {Nothing}
    /\ j.steps[s].screen \in DOMAIN c.screens \cup {Nothing}
    /\ j.steps[s].tool \in DOMAIN c.tools \cup {Nothing}

TargetResolves(c, n) == n.inline \/ n.control \in {Nothing} \cup {k \in DOMAIN c.controls : c.controls[k].locators > 0}
ScreenResolves(c, n) == n.screen \in {Nothing} \cup {s \in DOMAIN c.screens : c.screens[s] # {}}

\* wrong: the walk stays on the top level
WalkedTop(j) == Range(j.top)
\* The steps a walk of the workflow reaches, nested ones included.
Walked(j) == DOMAIN j.steps

\* A step the SDK runs itself can find what it is aimed at.  Scrolling and
\* pressing a key are not looked at.
DirectOk(c, j) ==
  \A s \in Walked(j) : j.steps[s].class = "direct" =>
    LET n == j.steps[s]
    IN IF n.kind = "action" THEN
         n.act \in {"click", "fill", "select", "hover", "drag", "wait"} => TargetResolves(c, n) /\ ScreenResolves(c, n)
       ELSE n.kind # "approval" => TargetResolves(c, n) /\ ScreenResolves(c, n)

RiskOf(j, s) == LargerRisk(j.wrisk, j.steps[s].risk)
\* A step that calls a tool is at least as risky as the tool.
ToolStepsOk(c, j) ==
  \A s \in Walked(j) : j.steps[s].kind = "action" /\ j.steps[s].act = "tool_call" =>
    /\ j.steps[s].class # "direct"
    /\ j.steps[s].class = "tool" => RiskOf(j, s) >= c.tools[j.steps[s].tool].risk

Publishable(c, j) ==
  /\ c.channel = "production" => j.state = "approved" \/ (j.state = "verified" /\ j.handoff)
  /\ {c.role, "*"} \cap j.roles # {}

Unique(s) == \A i, k \in DOMAIN s : s[i] = s[k] => i = k
PlaylistOk(p, list) == Unique(list) /\ Range(list) \subseteq DOMAIN p.modules
ProfileOk(c, p) ==
  /\ \A m \in DOMAIN p.modules :
       /\ p.modules[m] \in DOMAIN c.journeys
       /\ c.journeys[p.modules[m]].state = "approved" /\ c.journeys[p.modules[m]].demoSafe
  /\ Cardinality(p.generic) = 2 /\ p.generic \subseteq p.questions
  /\ DOMAIN p.personaQuestion \subseteq p.personas /\ Range(p.personaQuestion) \subseteq p.questions
  /\ PlaylistOk(p, p.default)
  /\ DOMAIN p.playlists \subseteq p.personas /\ \A r \in Range(p.playlists) : PlaylistOk(p, r)
  /\ p.audio \subseteq c.audio

SalesPlayOk(c, y) ==
  /\ y.kind = "discovery_question" <=> y.captures
  /\ y.kind # "next_best_action" => y.suggests = Nothing /\ ~y.confirms
  /\ y.suggests # Nothing => y.confirms /\ y.suggests \in y.journeys
  /\ y.personas \subseteq c.profile.personas /\ y.journeys \subseteq DOMAIN c.journeys

Accepted(c) ==
  /\ ControlsOk(c)
  /\ \A t \in DOMAIN c.tools : ToolOk(c.tools[t])
  /\ \A i \in DOMAIN c.journeys :
       LET j == c.journeys[i]
       IN JourneyOk(j) /\ Publishable(c, j) /\ Named(c, j) /\ DirectOk(c, j) /\ ToolStepsOk(c, j)
          /\ j.audio \subseteq c.audio
  /\ ProfileOk(c, c.profile)
  /\ \A y \in c.plays : SalesPlayOk(c, y)

-----------------------------------------------------------------------------
(* SignedCatalogClient.load *)

NoPage == [at |-> "none"]
ContractInit == client = NoPage /\ cache = <<>> /\ opens = 0 /\ now = 0

KeyOf(src) == <<src.kind, IF src.kind = "inline" THEN src.of.payload.version ELSE src.of>>
Expired(c) == c.expires # 0 /\ c.expires =< now

\* verify: contract, digest, trust key, signature, SDK range, expiry, pin, scope.
Verified(e, pin) ==
  /\ Accepted(e.payload)
  /\ e.digest = e.payload
  /\ e.key \in TrustKeys /\ e.signed = e.payload
  /\ e.payload.sdk /\ ~Expired(e.payload)
  /\ e.payload.version = pin.version /\ e.payload.role = pin.role

OpenCatalog == \E pin \in Pins, src \in Sources :
  /\ client.at \in {"none", "ready", "failed"} /\ opens < MaxOpens
  /\ opens' = opens + 1
  /\ client' = [at |-> "lookup", pin |-> pin, source |-> src]
  /\ UNCHANGED <<cache, now>>

Ready(e) == client' = [at |-> "ready", pin |-> client.pin, source |-> client.source, holds |-> e]
Put(key, e) == [k \in DOMAIN cache \cup {key} |-> IF k = key THEN e ELSE cache[k]]

\* A cached copy is verified again; one that fails is dropped.
StillGood(e) == Verified(e, client.pin)

Lookup ==
  /\ client.at = "lookup"
  /\ LET key == KeyOf(client.source)
     IN \/ key \in DOMAIN cache /\ StillGood(cache[key]) /\ Ready(cache[key]) /\ UNCHANGED cache
        \/ /\ key \in DOMAIN cache => ~StillGood(cache[key])
           /\ cache' = Restrict(cache, DOMAIN cache \ {key})
           /\ client' = [client EXCEPT !.at = "fetch"]
  /\ UNCHANGED <<opens, now>>

\* The network answers with anything, or not at all.
Fetch ==
  /\ client.at = "fetch"
  /\ \/ client' = [at |-> "failed"] /\ UNCHANGED cache
     \/ \E e \in Envelopes :
          /\ IF client.source.kind = "inline" THEN e = client.source.of
             ELSE [digest |-> e.digest, key |-> e.key] = client.source.of
          /\ Verified(e, client.pin)
          /\ Ready(e) /\ cache' = Put(KeyOf(client.source), e)
  /\ UNCHANGED <<opens, now>>

Tick == now < MaxNow /\ now' = now + 1 /\ UNCHANGED <<client, cache, opens>>
ContractNext == OpenCatalog \/ Lookup \/ Fetch \/ Tick
ContractSpec == ContractInit /\ [][ContractNext]_contractVars

-----------------------------------------------------------------------------
(* What the browser does with the loaded catalog *)

\* runJourney.
Runnable(c, j) == j.state = "approved" /\ (j.roles = {} \/ c.role \in j.roles)
\* DeterministicSafetyPolicy.authorize, and the gate of runJourney on tools.
Allowed(c, j, s) ==
  LET n == j.steps[s]
  IN /\ n.class \in {"direct", "resumable", "tool"}
     /\ n.class = "resumable" => j.wrisk = Read /\ n.kind = "action" /\ n.act = "navigate" /\ n.continuity
     /\ n.class = "tool" => n.kind = "action" /\ n.act = "tool_call"
     /\ RiskOf(j, s) =< LocalMaxRisk
\* shouldConfirm.
Confirms(c, j, s) ==
  LET n == j.steps[s]
      tool == IF n.kind = "action" /\ n.act = "tool_call" THEN c.tools[n.tool].confirmation ELSE "policy"
  IN tool = "always" \/ RiskOf(j, s) >= ReversibleWrite

(***************************************************************************)
(* The contract and the local policy fit together.  Whatever the policy    *)
(* lets a runnable journey of a loaded catalog do, however deep it is      *)
(* nested, has a target that can be found, runs no tool that is riskier    *)
(* than the step admits, and asks a person before every tool that writes;  *)
(* and each module of the demo plays a journey that was approved as safe   *)
(* (validation.ts, safety.ts, runtime.ts).  Scrolling and keys have no     *)
(* target check, and "*" is a role to the contract but not to the SDK.     *)
(***************************************************************************)
AcceptedRuns ==
  client.at = "ready" =>
    LET c == client.holds.payload
    IN /\ \A i \in DOMAIN c.journeys : Runnable(c, c.journeys[i]) =>
            \A s \in {t \in DOMAIN c.journeys[i].steps : Allowed(c, c.journeys[i], t)} :
              LET j == c.journeys[i]
                  n == j.steps[s]
              IN /\ n.act \notin {"scroll", "keypress"} => TargetResolves(c, n)
                 /\ n.class = "tool" => /\ n.tool \in DOMAIN c.tools
                                        /\ c.tools[n.tool].risk =< RiskOf(j, s)
                                        /\ c.tools[n.tool].risk >= ReversibleWrite => Confirms(c, j, s)
       /\ \A m \in DOMAIN c.profile.modules :
            LET j == c.journeys[c.profile.modules[m]]
            IN j.demoSafe /\ j.state = "approved" /\ ("*" \notin j.roles => Runnable(c, j))
=============================================================================
