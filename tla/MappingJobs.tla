----------------------------- MODULE MappingJobs -----------------------------
(***************************************************************************)
(* Mapping jobs of the live-assist server: the job rows of PostgreSQL with *)
(* their leases, the Redis queue whose members stay while they are worked  *)
(* on, the Redis admission slots, the workers that run a job stage by      *)
(* stage (mapping/worker.ts, job-runner.ts) and the people who pause,      *)
(* resume and cancel jobs.                                                 *)
(*                                                                         *)
(* Every access to PostgreSQL or Redis is a step of its own: anything may  *)
(* happen between two of them, a crash of the worker included.  Time is    *)
(* abstract: a member of the queue may always be due, a lease and a slot   *)
(* may expire whenever nobody renews them.                                 *)
(***************************************************************************)
EXTENDS Integers, FiniteSets

CONSTANTS
  Jobs, Workers,
  NoJob, NoWorker,
  Limit,          \* MAX_MAPPINGS, the mappings admitted at a time
  MaxAttempts,    \* MAPPING_JOB_MAX_ATTEMPTS
  Faults,         \* what may go wrong: "crash", "slow", "stage", "local"
  FaultBudget,    \* bound: crashes, overlong stages and local refusals
  ControlBudget   \* bound: requests to pause, resume or cancel

ASSUME MappingAssumption ==
  /\ NoJob \notin Jobs /\ NoWorker \notin Workers
  /\ Limit \in Nat \ {0} /\ MaxAttempts \in Nat \ {0}
  /\ Faults \subseteq {"crash", "slow", "stage", "local"}
  /\ FaultBudget \in Nat /\ ControlBudget \in Nat

VARIABLES
  job,        \* the job rows
  queue,      \* members of the Redis queue
  announced,  \* jobs written but not yet put into the queue
  slots,      \* admission slots held, by the id of the job
  worker,     \* where each worker is, and the row it holds in memory
  mapped,     \* jobs with a mapped-catalog artifact
  persisted,  \* jobs whose mapping is in the draft catalog
  left        \* faults and control requests left

vars == <<job, queue, announced, slots, worker, mapped, persisted, left>>

(* Stages in their order; a row past the last one says "complete".         *)
Preflight == 1
MapStage == 2
PersistStage == 3
Complete == 4

Statuses ==
  {"absent", "queued", "running", "waiting_for_human", "completed", "failed", "cancelled"}
Settled == {"failed", "waiting_for_human", "cancelled", "completed"}
ControlKinds == {"none", "pause", "resume", "cancel"}

Absent ==
  [status |-> "absent", stage |-> Preflight, attempts |-> 0,
   owner |-> NoWorker, leased |-> FALSE, control |-> "none"]
Idle == [at |-> "poll", job |-> NoJob, stage |-> Preflight, attempts |-> 0]

Init ==
  /\ job = [j \in Jobs |-> Absent]
  /\ queue = {} /\ announced = {} /\ slots = {}
  /\ worker = [w \in Workers |-> Idle]
  /\ mapped = {} /\ persisted = {}
  /\ left = [faults |-> FaultBudget, controls |-> ControlBudget]

May(fault) == fault \in Faults /\ left.faults > 0 /\ left' = [left EXCEPT !.faults = @ - 1]

-----------------------------------------------------------------------------
(* The server's routes: the row first, then the queue.                     *)
Create(j) ==
  /\ job[j] = Absent
  /\ job' = [job EXCEPT ![j].status = "queued"]
  /\ announced' = announced \union {j}
  /\ UNCHANGED <<queue, slots, worker, mapped, persisted, left>>

Enqueue(j) ==
  /\ j \in announced
  /\ queue' = queue \union {j}
  /\ announced' = announced \ {j}
  /\ UNCHANGED <<job, slots, worker, mapped, persisted, left>>

Desired(action) ==
  CASE action = "pause" -> "waiting_for_human"
    [] action = "resume" -> "queued"
    [] action = "cancel" -> "cancelled"
Allowed(action) ==
  CASE action = "pause" -> {"queued", "running"}
    [] action = "resume" -> {"waiting_for_human"}
    [] action = "cancel" -> {"queued", "running", "waiting_for_human"}

(* A control takes the lease away from the worker that runs the job.       *)
Controlled(j, action) ==
  [job EXCEPT ![j] = [@ EXCEPT !.status = Desired(action), !.owner = NoWorker,
                               !.leased = FALSE, !.control = action]]

ControlJob(j, action) ==
  /\ left.controls > 0
  /\ j \notin announced
  /\ job[j].status \in Allowed(action)
  /\ left' = [left EXCEPT !.controls = @ - 1]
  /\ job' = Controlled(j, action)
  /\ announced' = IF action = "resume" THEN announced \union {j} ELSE announced
  /\ UNCHANGED <<queue, slots, worker, mapped, persisted>>

-----------------------------------------------------------------------------
(* MappingWorker.run: read the queue, take a slot, run, leave.             *)
At(w, where) == worker[w].at = where
Go(w, where) == worker' = [worker EXCEPT ![w].at = where]
Mine(w) == worker[w].job

Poll(w, j) ==
  /\ At(w, "poll")
  /\ j \in queue
  /\ worker' = [worker EXCEPT ![w] = [Idle EXCEPT !.at = "admit", !.job = j]]
  /\ UNCHANGED <<job, queue, announced, slots, mapped, persisted, left>>

(* ACQUIRE: a slot already held under this id is entered again.            *)
Admits(j) == j \in slots \/ Cardinality(slots) < Limit
Admit(w) ==
  /\ At(w, "admit")
  /\ IF Admits(Mine(w))
     THEN slots' = slots \union {Mine(w)} /\ Go(w, "claim")
     ELSE UNCHANGED slots /\ Go(w, "busy")
  /\ UNCHANGED <<job, queue, announced, mapped, persisted, left>>

(* The process itself is at its limit: the slot is given back.             *)
RefuseLocally(w) ==
  /\ At(w, "claim")
  /\ May("local")
  /\ slots' = slots \ {Mine(w)}
  /\ Go(w, "busy")
  /\ UNCHANGED <<job, queue, announced, mapped, persisted>>

(* At capacity, or failed: the member stays for a later poll.              *)
Defer(w) ==
  /\ At(w, "busy") \/ At(w, "defer")
  /\ queue' = queue \union {Mine(w)}
  /\ IF At(w, "busy") THEN worker' = [worker EXCEPT ![w] = Idle] ELSE Go(w, "leave")
  /\ UNCHANGED <<job, announced, slots, mapped, persisted, left>>

CompleteItemQuietly(w) ==    \* wrong: settled work stays in the queue
  /\ At(w, "done")
  /\ Go(w, "leave")
  /\ UNCHANGED <<job, queue, announced, slots, mapped, persisted, left>>
CompleteItem(w) ==
  /\ At(w, "done")
  /\ queue' = queue \ {Mine(w)}
  /\ Go(w, "leave")
  /\ UNCHANGED <<job, announced, slots, mapped, persisted, left>>

Leave(w) ==
  /\ At(w, "leave")
  /\ slots' = slots \ {Mine(w)}
  /\ worker' = [worker EXCEPT ![w] = Idle]
  /\ UNCHANGED <<job, queue, announced, mapped, persisted, left>>

(* The catch of run: a settled job leaves the queue, any other stays.      *)
RecoverForgetting(w) ==      \* wrong: a failed run always leaves the queue
  /\ At(w, "recover")
  /\ Go(w, "done")
  /\ UNCHANGED <<job, queue, announced, slots, mapped, persisted, left>>
Recover(w) ==
  /\ At(w, "recover")
  /\ Go(w, IF job[Mine(w)].status \in Settled THEN "done" ELSE "defer")
  /\ UNCHANGED <<job, queue, announced, slots, mapped, persisted, left>>

-----------------------------------------------------------------------------
(* MappingJobRunner.run on the repository.                                 *)
MayClaimQueuedOnly(w, r) ==  \* wrong: nobody takes over from a crashed worker
  r.status = "queued"
MayClaimAnyRunning(w, r) ==  \* wrong: a running job is taken from its owner
  r.status \in {"queued", "running"}
MayClaim(w, r) ==
  \/ r.status = "queued"
  \/ r.owner = w
  \/ r.status = "running" /\ ~r.leased

Claim(w) ==
  /\ At(w, "claim")
  /\ LET r == job[Mine(w)]
     IN  IF MayClaim(w, r)
         THEN /\ job' = [job EXCEPT ![Mine(w)] =
                           [@ EXCEPT !.status = "running", !.attempts = r.attempts + 1,
                                     !.owner = w, !.leased = TRUE]]
              /\ worker' = [worker EXCEPT ![w] =
                              [@ EXCEPT !.at = "begin", !.stage = r.stage,
                                        !.attempts = r.attempts + 1]]
         ELSE UNCHANGED job /\ Go(w, "recover")
  /\ UNCHANGED <<queue, announced, slots, mapped, persisted, left>>

(* A checkpoint is written only by the owner of the lease, and renews it.  *)
MayWriteAlways(w) == TRUE    \* wrong: a checkpoint of a worker that lost its lease
MayWrite(w) == job[Mine(w)].owner = w
Written(w, status, stage) ==
  [job EXCEPT ![Mine(w)] =
     [@ EXCEPT !.status = status, !.stage = stage, !.attempts = worker[w].attempts,
               !.owner = IF status = "running" THEN w ELSE NoWorker,
               !.leased = status = "running"]]

(* The first checkpoint of a run; an unknown stage starts from the first.  *)
Begin(w) ==
  /\ At(w, "begin")
  /\ LET stage == IF worker[w].stage = Complete THEN Preflight ELSE worker[w].stage
     IN  IF MayWrite(w)
         THEN /\ job' = Written(w, "running", stage)
              /\ worker' = [worker EXCEPT ![w] = [@ EXCEPT !.at = "work", !.stage = stage]]
         ELSE UNCHANGED job /\ Go(w, "caught")
  /\ UNCHANGED <<queue, announced, slots, mapped, persisted, left>>

(* A stage ends.  The map stage saves its output, persist needs it.        *)
EndStageSkipping(w) ==       \* wrong: an empty mapping is not an error
  /\ At(w, "work")
  /\ worker[w].stage = PersistStage => Mine(w) \in mapped
  /\ mapped' = mapped
  /\ persisted' = persisted \union (IF worker[w].stage = PersistStage THEN {Mine(w)} ELSE {})
  /\ Go(w, "advance")
  /\ UNCHANGED <<job, queue, announced, slots, left>>
EndStage(w) ==
  /\ At(w, "work")
  /\ worker[w].stage = PersistStage => Mine(w) \in mapped
  /\ mapped' = mapped \union (IF worker[w].stage = MapStage THEN {Mine(w)} ELSE {})
  /\ persisted' = persisted \union (IF worker[w].stage = PersistStage THEN {Mine(w)} ELSE {})
  /\ Go(w, "advance")
  /\ UNCHANGED <<job, queue, announced, slots, left>>

(* While mapping, progress is checkpointed; a lost lease ends the run.     *)
NoteProgress(w) ==
  /\ At(w, "work") /\ worker[w].stage = MapStage
  /\ IF MayWrite(w)
     THEN job' = Written(w, "running", MapStage) /\ UNCHANGED worker
     ELSE UNCHANGED job /\ Go(w, "caught")
  /\ UNCHANGED <<queue, announced, slots, mapped, persisted, left>>

FailStage(w) ==
  /\ At(w, "work")
  /\ "stage" \in Faults \/ (worker[w].stage = PersistStage /\ Mine(w) \notin mapped)
  /\ Go(w, "caught")
  /\ UNCHANGED <<job, queue, announced, slots, mapped, persisted, left>>

(* The checkpoints at the end of a stage and at the start of the next one  *)
(* write the same row.                                                     *)
Advance(w) ==
  /\ At(w, "advance")
  /\ LET next == worker[w].stage + 1
     IN  IF MayWrite(w)
         THEN /\ job' = Written(w, "running", next)
              /\ worker' = [worker EXCEPT ![w] =
                              [@ EXCEPT !.at = IF next = Complete THEN "finish" ELSE "work",
                                        !.stage = next]]
         ELSE UNCHANGED job /\ worker' = [worker EXCEPT ![w] =
                                            [@ EXCEPT !.at = "caught", !.stage = next]]
  /\ UNCHANGED <<queue, announced, slots, mapped, persisted, left>>

Finish(w) ==
  /\ At(w, "finish")
  /\ IF MayWrite(w) THEN job' = Written(w, "completed", Complete) /\ Go(w, "done")
     ELSE UNCHANGED job /\ Go(w, "caught")
  /\ UNCHANGED <<queue, announced, slots, mapped, persisted, left>>

(* The catch of the runner: a person's decision is respected, anything     *)
(* else is recorded for a retry or, after the last attempt, as a failure.  *)
Catch(w) ==
  /\ At(w, "caught")
  /\ Go(w, IF job[Mine(w)].status \in {"waiting_for_human", "cancelled"} THEN "done" ELSE "fail")
  /\ UNCHANGED <<job, queue, announced, slots, mapped, persisted, left>>

AfterFailure(w) == IF worker[w].attempts < MaxAttempts THEN "queued" ELSE "failed"
RecordFailure(w) ==
  /\ At(w, "fail")
  /\ job' = IF MayWrite(w) THEN Written(w, AfterFailure(w), worker[w].stage) ELSE job
  /\ Go(w, "recover")
  /\ UNCHANGED <<queue, announced, slots, mapped, persisted, left>>

-----------------------------------------------------------------------------
(* A worker process dies and is started again under its own name.          *)
Crash(w) ==
  /\ ~At(w, "poll")
  /\ May("crash")
  /\ worker' = [worker EXCEPT ![w] = Idle]
  /\ UNCHANGED <<job, queue, announced, slots, mapped, persisted>>

Running == {"begin", "work", "advance", "finish", "caught", "fail"}
RunBy(j) == {w \in Workers : worker[w].job = j /\ worker[w].at \in Running /\ job[j].owner = w}

(* A lease expires when its owner is gone, or writes nothing for too long. *)
ExpireLease(j) ==
  /\ job[j].leased
  /\ IF RunBy(j) = {} THEN UNCHANGED left ELSE May("slow")
  /\ job' = [job EXCEPT ![j].leased = FALSE]
  /\ UNCHANGED <<queue, announced, slots, worker, mapped, persisted>>

(* A slot expires when no worker renews it (heartbeat).                    *)
Renewing == Running \union {"claim", "recover", "defer", "done", "leave"}
Renewed(j) == \E w \in Workers : worker[w].job = j /\ worker[w].at \in Renewing
ExpireSlot(j) ==
  /\ j \in slots
  /\ ~Renewed(j)
  /\ slots' = slots \ {j}
  /\ UNCHANGED <<job, queue, announced, worker, mapped, persisted, left>>

WorkerStep(w) ==
  \/ Admit(w) \/ Defer(w) \/ CompleteItem(w) \/ Leave(w) \/ Recover(w)
  \/ Claim(w) \/ Begin(w) \/ EndStage(w) \/ NoteProgress(w) \/ FailStage(w)
  \/ Advance(w) \/ Finish(w) \/ Catch(w) \/ RecordFailure(w)

Next ==
  \/ \E j \in Jobs :
       \/ Create(j) \/ Enqueue(j) \/ ExpireLease(j) \/ ExpireSlot(j)
       \/ \E action \in ControlKinds \ {"none"} : ControlJob(j, action)
  \/ \E w \in Workers :
       \/ WorkerStep(w) \/ RefuseLocally(w) \/ Crash(w)
       \/ \E j \in Jobs : Poll(w, j)

Spec == Init /\ [][Next]_vars

(* Running processes take their steps, time passes, and every member of    *)
(* the queue is read again: a worker pushes what it defers behind the      *)
(* members that are due.                                                   *)
Fairness ==
  /\ \A w \in Workers : WF_vars(WorkerStep(w))
  /\ \A j \in Jobs :
       /\ WF_vars(Enqueue(j)) /\ WF_vars(ExpireSlot(j))
       /\ WF_vars(RunBy(j) = {} /\ ExpireLease(j))
       /\ SF_vars(\E w \in Workers : Poll(w, j))

FairSpec == Spec /\ Fairness

-----------------------------------------------------------------------------
(* Types.                                                                  *)
TypeOK ==
  /\ job \in [Jobs -> [status : Statuses, stage : Preflight..Complete, attempts : Nat,
                       owner : Workers \union {NoWorker}, leased : BOOLEAN,
                       control : ControlKinds]]
  /\ \A j \in Jobs : job[j].status = "running" <=> job[j].owner # NoWorker
  /\ \A j \in Jobs : job[j].leased => job[j].owner # NoWorker
  /\ queue \subseteq Jobs /\ announced \subseteq Jobs /\ slots \subseteq Jobs
  /\ worker \in [Workers -> [at : {"poll", "admit", "busy"} \union Renewing,
                             job : Jobs \union {NoJob}, stage : Preflight..Complete,
                             attempts : Nat]]
  /\ \A w \in Workers : At(w, "poll") <=> worker[w].job = NoJob
  /\ mapped \subseteq Jobs /\ persisted \subseteq Jobs
  /\ left \in [faults : 0..FaultBudget, controls : 0..ControlBudget]

(* A row never promises what its artifacts do not hold: a job at its       *)
(* persist stage has a mapped catalog, a completed job is in the draft     *)
(* catalog, whichever workers, retries and takeovers brought it there.     *)
OutputBacksProgress ==
  \A j \in Jobs :
    /\ job[j].stage \in {PersistStage, Complete} => j \in mapped
    /\ job[j].stage = Complete \/ job[j].status = "completed" => j \in persisted

(* Work is never forgotten: a job that waits or runs has its member in the *)
(* queue, or about to be there, so that a crash is survived.  A job that a *)
(* person resumed is excepted: the worker that saw the pause may still     *)
(* take its new member away.                                               *)
WorkIsQueued ==
  \A j \in Jobs :
    job[j].status \in {"queued", "running"} /\ job[j].control # "resume"
      => j \in queue \union announced

(* "Do not overwrite the human decision with the stale in-memory running   *)
(* job" (job-runner.ts): only a person takes a job out of a pause, and an  *)
(* ended job stays as it ended, although workers that lost their lease     *)
(* still hold it.                                                          *)
DecisionsStand ==
  [][\A j \in Jobs :
       /\ job[j].status \in {"cancelled", "completed", "failed"} => job'[j] = job[j]
       /\ job[j].status = "waiting_for_human" /\ job'[j] # job[j]
            => left'.controls < left.controls]_vars

(* A worker that lost its job to another one never writes over it: the row *)
(* of a running job changes hands only when its lease is gone, and its     *)
(* stage moves forward while it stays with its owner, except from the mark *)
(* of a run that crashed before its last write: no run knows that stage,   *)
(* and the next one starts over.                                           *)
OneHandAtATime ==
  [][\A j \in Jobs :
       job[j].status = "running" /\ job'[j].status = "running" =>
         /\ job'[j].owner # job[j].owner => ~job[j].leased
         /\ job'[j].stage >= job[j].stage \/ job[j].stage = Complete]_vars

(* Every job a person does not resume comes to an end or to a person:      *)
(* crashes, failing stages and lost leases do not leave it behind, and     *)
(* poison work does not loop.                                              *)
JobsSettle ==
  \A j \in Jobs :
    job[j].status \in {"queued", "running"}
      ~> job[j].status \in Settled \/ job[j].control = "resume"

(* What a job held comes back: no slot is kept for ever by a worker that   *)
(* died, and a job that has ended leaves the queue, even when a worker     *)
(* that could not claim it puts it back.                                   *)
EndedJobsLetGo ==
  \A j \in Jobs :
    /\ j \in slots ~> j \notin slots
    /\ job[j].status \in {"completed", "failed", "cancelled"} ~> j \notin queue

-----------------------------------------------------------------------------
(* What comments and tests say, and the code does not do.                  *)

(* "This coordinator prevents every replica from independently admitting   *)
(* up to the full fleet limit" (distributed-capacity.ts): no more mappings *)
(* run at a time than the limit.                                           *)
AdmissionLimit == Cardinality({w \in Workers : At(w, "work")}) <= Limit
=============================================================================
