-------------------------- MODULE WorkflowExecutor --------------------------
(***************************************************************************)
(* The workflow executor of the browser SDK (packages/workflow-core).  A   *)
(* workflow is a tree of steps; the executor walks it, asks the policy and *)
(* a person, drives the page, and unwinds errors through the steps that    *)
(* enclose them.  One action is the code between two awaits.               *)
(***************************************************************************)
EXTENDS Naturals, Sequences, FiniteSets

CONSTANTS Workflows,     \* records [steps, top, risk, startAt, endAt, checked]
          MaxSteps,      \* options.maxExecutedSteps
          MaxLoop,       \* options.maxLoopIterations
          MaxRisk,       \* DefaultWorkflowPolicy.maximumRisk
          ConfirmAt      \* DefaultWorkflowPolicy.confirmationAtOrAbove

\* The steps of a workflow have a risk, and their blocks name steps of it.
WellFormed(w) ==
  /\ w.risk \in Nat /\ w.top \in Seq(DOMAIN w.steps)
  /\ w.startAt \in Nat /\ w.endAt \in Nat
  /\ \A s \in DOMAIN w.steps :
       /\ w.steps[s].risk \in Nat
       /\ w.steps[s].then \in Seq(DOMAIN w.steps) /\ w.steps[s].other \in Seq(DOMAIN w.steps)
\* A risk that asks for confirmation is one.
ASSUME WorkflowsAssumption == (\A w \in Workflows : WellFormed(w)) /\ MaxSteps \in Nat /\ ConfirmAt \in Nat \ {0}

VARIABLES wf,        \* the workflow being executed
          stack,     \* the open steps, the workflow itself at the bottom
          phase,     \* what the innermost open step awaits
          error,     \* the error being thrown: none, a plain one or AbortError
          executed,  \* executedSteps
          aborted,   \* the execution signal: aborted from outside or by the deadline
          stopped,   \* options.shouldStop()
          grants,    \* history: approvals given, by step execution
          effects,   \* history: actions handed to the driver
          result

vars == <<wf, stack, phase, error, executed, aborted, stopped, grants, effects, result>>

NoScope == 0
Awaiting == {"baseline", "pre", "start", "announce", "observe", "authorize", "ask", "consent",
             "act", "check", "report", "final", "post"}
Phases == Awaiting \cup {"next", "throw", "done"}
Kinds == {"action", "assert", "approval", "branch", "loop"}

Larger(a, b) == IF a >= b THEN a ELSE b
Smaller(a, b) == IF a =< b THEN a ELSE b
Top == stack[Len(stack)]
Step(f) == wf.steps[f.step]
InStep == Len(stack) > 1

\* What ensureActive throws: nothing, a plain error or an AbortError.
Inactive == IF stopped THEN "abort" ELSE IF executed > MaxSteps THEN "error" ELSE "none"

StepRisk(s) == Larger(wf.risk, wf.steps[s].risk)
Granted(f) == f.scope >= StepRisk(f.step)

\* DefaultWorkflowPolicy.authorize.
Allows(f) ==
  /\ Step(f).compat \in {"direct", "resumable", "tool"}
  /\ Step(f).compat = "tool" => Step(f).act = "tool_call"
  /\ Step(f).compat = "resumable" => wf.risk = 1 /\ Step(f).act = "navigate"
  /\ StepRisk(f.step) =< MaxRisk
NeedsApproval(f) == Step(f).kind # "approval" /\ ~Granted(f) /\ StepRisk(f.step) >= ConfirmAt

(***************************************************************************)
(* checkWorkflowStructure rejects a workflow before anything runs.         *)
(***************************************************************************)
Sound(w) ==
  /\ Len(w.top) > 0
  /\ \A s \in DOMAIN w.steps : w.steps[s].kind = "loop" => w.steps[s].max \in 1 .. MaxLoop

Base(w) ==
  LET from == Smaller(w.startAt, Len(w.top))
      to == Larger(from, Smaller(w.endAt, Len(w.top)))
  IN [step |-> "workflow", run |-> 0, scope |-> NoScope, block |-> SubSeq(w.top, from + 1, to),
      at |-> 1, turns |-> 0]
WholeEnd == Larger(Smaller(wf.startAt, Len(wf.top)), Smaller(wf.endAt, Len(wf.top))) = Len(wf.top)

Init ==
  /\ wf \in {w \in Workflows : Sound(w)}
  /\ stack = <<Base(wf)>>
  /\ phase = "baseline"
  /\ error = "none"
  /\ executed = 0
  /\ aborted = FALSE
  /\ stopped = FALSE
  /\ grants = {}
  /\ effects = {}
  /\ result = "running"

History == <<grants, effects>>
Signals == <<aborted, stopped>>

Throw(kind) == phase' = "throw" /\ error' = kind
Await(p) == IF Inactive = "none" THEN phase' = p /\ UNCHANGED error ELSE Throw(Inactive)

(***************************************************************************)
(* Before the first step: the baseline observation, the preconditions and  *)
(* the navigation to startUrl; a resumed run skips the last two.           *)
(***************************************************************************)
Prepare ==
  /\ phase \in {"baseline", "pre", "start"}
  /\ \/ Throw("error")
     \/ /\ phase = "baseline" /\ wf.startAt = 0 /\ wf.checked /\ Await("pre")
     \/ /\ phase = "baseline" /\ wf.startAt = 0 /\ ~wf.checked /\ Await("start")
     \/ /\ phase = "baseline" /\ wf.startAt > 0 /\ phase' = "next" /\ UNCHANGED error
     \/ /\ phase = "pre" /\ Await("start")
     \/ /\ phase = "start" /\ phase' = "next" /\ UNCHANGED error
  /\ UNCHANGED <<wf, stack, executed, Signals, History, result>>

NextStep ==
  /\ phase = "next" /\ Top.at =< Len(Top.block)
  /\ IF Inactive # "none"
     THEN Throw(Inactive) /\ UNCHANGED executed
     ELSE executed' = executed + 1 /\ phase' = "announce" /\ UNCHANGED error
  /\ UNCHANGED <<wf, stack, Signals, History, result>>

\* wrong: a step counts as approved at its own risk
ChildAtItsRisk == [step |-> Top.block[Top.at], run |-> executed, scope |-> StepRisk(Top.block[Top.at]),
                   block |-> <<>>, at |-> 1, turns |-> 0]
\* A child inherits the approval scope of the block it is in.
Child == [step |-> Top.block[Top.at], run |-> executed, scope |-> Top.scope,
          block |-> <<>>, at |-> 1, turns |-> 0]

\* onStep: its failure is thrown in the enclosing block.
Announce ==
  /\ phase = "announce"
  /\ \/ Throw("error") /\ UNCHANGED stack
     \/ /\ Inactive = "none"
        /\ stack' = Append(stack, Child)
        /\ phase' = "observe" /\ UNCHANGED error
     \/ Inactive # "none" /\ Throw(Inactive) /\ UNCHANGED stack
  /\ UNCHANGED <<wf, executed, Signals, History, result>>

Observe ==
  /\ phase = "observe"
  /\ Throw("error") \/ (phase' = "authorize" /\ UNCHANGED error)
  /\ UNCHANGED <<wf, stack, executed, Signals, History, result>>

\* Once authorized, a step of each kind begins its own work.  An action has no
\* ensureActive between the observation and the driver.
Perform ==
  \/ /\ Step(Top).kind = "action"
     /\ effects' = effects \cup {[step |-> Top.step, run |-> Top.run, stopped |-> stopped, aborted |-> aborted,
                                  within |-> {stack[i].run : i \in 1 .. Len(stack)}]}
     /\ phase' = "act" /\ UNCHANGED error
  \/ Step(Top).kind = "action" /\ Throw("error") /\ UNCHANGED effects     \* refused before the driver sees it
  \/ Step(Top).kind = "approval" /\ phase' = "consent" /\ UNCHANGED <<effects, error>>
  \/ Step(Top).kind \in {"assert", "branch", "loop"} /\ Await("check") /\ UNCHANGED effects

Authorize ==
  /\ phase = "authorize"
  /\ \/ ~Allows(Top) /\ Throw("error") /\ UNCHANGED effects
     \/ Allows(Top) /\ NeedsApproval(Top) /\ phase' = "ask" /\ UNCHANGED <<effects, error>>
     \/ Allows(Top) /\ ~NeedsApproval(Top) /\ Perform
  /\ UNCHANGED <<wf, stack, executed, Signals, grants, result>>

Grant == [step |-> Top.step, run |-> Top.run, risk |-> StepRisk(Top.step)]

\* The policy's own request: one approval for one execution of the step.
Ask ==
  /\ phase = "ask"
  /\ \/ Throw("error") /\ UNCHANGED <<grants, effects>>
     \/ grants' = grants \cup {Grant} /\ Perform
  /\ UNCHANGED <<wf, stack, executed, Signals, result>>

WithTop(f) == [stack EXCEPT ![Len(stack)] = f]
Open(block, scope, turns) ==
  WithTop([Top EXCEPT !.block = block, !.at = 1, !.scope = scope, !.turns = turns])

\* An approval step: one decision for the block it contains.
Consent ==
  /\ phase = "consent"
  /\ \/ Throw("error") /\ UNCHANGED <<grants, stack>>
     \/ /\ grants' = grants \cup {Grant}
        /\ stack' = Open(Step(Top).then, Larger(Top.scope, StepRisk(Top.step)), 0)
        /\ phase' = "next" /\ UNCHANGED error
  /\ UNCHANGED <<wf, executed, Signals, effects, result>>

\* The innermost step is over; its enclosing block goes on.
Closed == [SubSeq(stack, 1, Len(stack) - 1) EXCEPT ![Len(stack) - 1].at = @ + 1]
Complete ==
  /\ stack' = Closed
  /\ phase' = "report" /\ UNCHANGED error

Act ==
  /\ phase = "act"
  /\ Complete \/ (Throw("error") /\ UNCHANGED stack)
  /\ UNCHANGED <<wf, executed, Signals, grants, effects, result>>

Check ==
  /\ phase = "check"
  /\ \/ Throw("error") /\ UNCHANGED stack         \* failed assertion, spent loop, failing driver
     \/ Step(Top).kind \in {"assert", "loop"} /\ Complete
     \/ /\ Step(Top).kind = "branch"
        /\ \E b \in {Step(Top).then, Step(Top).other} : stack' = Open(b, Top.scope, 0)
        /\ phase' = "next" /\ UNCHANGED error
     \/ /\ Step(Top).kind = "loop" /\ Top.turns < Smaller(Step(Top).max, MaxLoop)
        /\ stack' = Open(Step(Top).then, Top.scope, Top.turns + 1)
        /\ phase' = "next" /\ UNCHANGED error
  /\ UNCHANGED <<wf, executed, Signals, grants, effects, result>>

BlockEnds ==
  /\ phase = "next" /\ Top.at > Len(Top.block)
  /\ \/ ~InStep /\ Await("final") /\ UNCHANGED stack
     \/ InStep /\ Step(Top).kind = "loop" /\ Await("check") /\ UNCHANGED stack
     \/ InStep /\ Step(Top).kind # "loop" /\ Complete
  /\ UNCHANGED <<wf, executed, Signals, grants, effects, result>>

\* onStepCompleted: outside the step's own try, so its failure hits the enclosing step.
Report ==
  /\ phase = "report"
  /\ Throw("error") \/ (phase' = "next" /\ UNCHANGED error)
  /\ UNCHANGED <<wf, stack, executed, Signals, History, result>>

Finish ==
  /\ phase \in {"final", "post"}
  /\ \/ Throw("error") /\ UNCHANGED result
     \/ phase = "final" /\ WholeEnd /\ wf.checked /\ Await("post") /\ UNCHANGED result
     \/ /\ phase = "final" => ~(WholeEnd /\ wf.checked)
        /\ phase' = "done" /\ result' = "ok" /\ UNCHANGED error
  /\ UNCHANGED <<wf, stack, executed, Signals, History>>

\* wrong: an optional step swallows every error
SkipsAlways(f) == Step(f).optional
\* An optional step swallows an error, but not an AbortError.
Skips(f) == Step(f).optional /\ error # "abort"

Catch ==
  /\ phase = "throw"
  /\ \/ /\ ~InStep
        /\ phase' = "done" /\ result' = "failed" /\ UNCHANGED <<stack, error>>
     \/ /\ InStep /\ Skips(Top)
        /\ stack' = Closed /\ phase' = "next" /\ error' = "none" /\ UNCHANGED result
     \/ /\ InStep /\ ~Skips(Top)
        /\ stack' = SubSeq(stack, 1, Len(stack) - 1) /\ UNCHANGED <<phase, error, result>>
  /\ UNCHANGED <<wf, executed, Signals, History>>

\* runWithTimeout: the timer of an open step abandons what is inside it and
\* becomes a plain error of that step.
Timeout ==
  /\ phase \in Awaiting
  /\ \E i \in 2 .. Len(stack) :
       /\ wf.steps[stack[i].step].timed
       /\ stack' = SubSeq(stack, 1, i)
  /\ Throw("error")
  /\ UNCHANGED <<wf, executed, Signals, History, result>>

\* The caller's signal or the deadline: every raced await rejects with AbortError.
Abort ==
  /\ phase \in Awaiting
  /\ aborted' = TRUE
  /\ Throw("abort")
  /\ UNCHANGED <<wf, stack, executed, stopped, History, result>>

\* shouldStop is only read by ensureActive.
Stop ==
  /\ phase \in Awaiting /\ ~stopped
  /\ stopped' = TRUE
  /\ UNCHANGED <<wf, stack, phase, error, executed, aborted, History, result>>

Next == Prepare \/ NextStep \/ Announce \/ Observe \/ Authorize \/ Ask \/ Consent \/ Act \/ Check
        \/ BlockEnds \/ Report \/ Finish \/ Catch \/ Timeout \/ Abort \/ Stop

Spec == Init /\ [][Next]_vars

-----------------------------------------------------------------------------
TypeOK ==
  /\ wf \in Workflows
  /\ phase \in Phases
  /\ error \in {"none", "error", "abort"}
  /\ executed \in 0 .. MaxSteps + 1
  /\ result \in {"running", "ok", "failed"}
  /\ \A i \in 2 .. Len(stack) : stack[i].step \in DOMAIN wf.steps /\ stack[i].run =< executed

(***************************************************************************)
(* Nothing risky reaches the page unapproved: an action at or above the    *)
(* confirmation risk was approved for that very execution, or inside the   *)
(* block of an approval step that was approved at that risk or above, in   *)
(* the same execution of that block (executor.ts authorize, runSteps).     *)
(***************************************************************************)
EffectsAreSanctioned ==
  \A e \in effects : StepRisk(e.step) >= ConfirmAt =>
    \E g \in grants :
      /\ g.risk >= StepRisk(e.step)
      /\ g.run = e.run \/ (wf.steps[g.step].kind = "approval" /\ g.run \in e.within)

(***************************************************************************)
(* A stop is heard through every optional step: nothing is handed to the   *)
(* driver after an abort, and after shouldStop at most the one action that *)
(* had already been observed for (executor.ts ensureActive, catch).        *)
(***************************************************************************)
StopIsHeard ==
  /\ \A e \in effects : ~e.aborted
  /\ Cardinality({e \in effects : e.stopped}) =< 1
  /\ aborted => result # "ok"
=============================================================================
