----------------------------- MODULE ProductProofs -----------------------------
(***************************************************************************)
(* How a product is mapped and learned, for any number of jobs, workers,   *)
(* attempts and faults, for any number of goals, paths, people, runs and   *)
(* kept versions, and for any pages, signed actions and commands.          *)
(***************************************************************************)
EXTENDS MappingJobs, JourneyTraining, PageActions, FiniteSetTheorems, WellFoundedInduction, TLAPS

(* The artifacts a row at this stage relies on.                            *)
Backed(j, stage) ==
  /\ stage \in {PersistStage, Complete} => j \in mapped
  /\ stage = Complete => j \in persisted

(* The stage in a worker's memory has its artifacts, and at the end of a   *)
(* stage so does the next one.                                             *)
WorkersBacked ==
  \A w \in Workers :
    /\ worker[w].at \in Running => Backed(worker[w].job, worker[w].stage)
    /\ At(w, "work") => worker[w].stage # Complete
    /\ At(w, "advance") =>
         worker[w].stage # Complete /\ Backed(worker[w].job, worker[w].stage + 1)
    /\ At(w, "finish") => worker[w].stage = Complete

(* While a worker holds the lease, its memory and the row agree.           *)
InStep ==
  \A w \in Workers :
    worker[w].at \in Running /\ job[worker[w].job].owner = w
      => worker[w].stage = job[worker[w].job].stage

(* A worker about to take its member out of the queue has seen the job     *)
(* settled; only a resume can have changed that since.                     *)
DoneIsSettled ==
  \A w \in Workers :
    At(w, "done") =>
      job[worker[w].job].status \in Settled \/ job[worker[w].job].control = "resume"

(* The inductive invariant.                                                *)
MInv ==
  /\ TypeOK
  /\ WorkersBacked
  /\ InStep
  /\ DoneIsSettled
  /\ OutputBacksProgress
  /\ WorkIsQueued

(* The rows, and the memories of workers.                                  *)
Row ==
  [status : Statuses, stage : Preflight..Complete, attempts : Nat,
   owner : Workers \union {NoWorker}, leased : BOOLEAN, control : ControlKinds]
Memory ==
  [at : {"poll", "admit", "busy"} \union Renewing, job : Jobs \union {NoJob},
   stage : Preflight..Complete, attempts : Nat]

(* The row of j becomes r, and the memory of w becomes x.                  *)
RowBecomes(j, r) ==
  /\ job' \in [Jobs -> Row]
  /\ job'[j] = r
  /\ \A i \in Jobs : i # j => job'[i] = job[i]
MemoryBecomes(w, x) ==
  /\ worker' \in [Workers -> Memory]
  /\ worker'[w] = x
  /\ \A v \in Workers : v # w => worker'[v] = worker[v]

-----------------------------------------------------------------------------
(* Replacing one row or one memory by another of its kind.                 *)
LEMMA ReplaceRow ==
  ASSUME TypeOK, NEW j \in Jobs, NEW r \in Row, job' = [job EXCEPT ![j] = r]
  PROVE  RowBecomes(j, r)
  BY DEF TypeOK, Row, RowBecomes

\* One worker's memory is replaced as a whole.
LEMMA ReplaceMemory ==
  ASSUME TypeOK, NEW w \in Workers, NEW x \in Memory, worker' = [worker EXCEPT ![w] = x]
  PROVE  MemoryBecomes(w, x)
  BY DEF TypeOK, Memory, MemoryBecomes

(* A worker that goes elsewhere changes only its place.                    *)
LEMMA GoBecomes ==
  ASSUME TypeOK, NEW w \in Workers, NEW where \in Renewing \union {"poll", "admit", "busy"},
         Go(w, where)
  PROVE  MemoryBecomes(w, [worker[w] EXCEPT !.at = where])
<1>1. worker[w] \in Memory
  BY DEF TypeOK, Memory
<1>2. [worker[w] EXCEPT !.at = where] \in Memory
  BY <1>1 DEF Memory
<1>3. QED
  BY <1>2, ReplaceMemory DEF Go

(* Types, from the rows and the memories.                                  *)
LEMMA TypesFrom ==
  ASSUME job' \in [Jobs -> Row], worker' \in [Workers -> Memory],
         \A j \in Jobs :
           /\ job'[j].status = "running" <=> job'[j].owner # NoWorker
           /\ job'[j].leased => job'[j].owner # NoWorker,
         \A w \in Workers : worker'[w].at = "poll" <=> worker'[w].job = NoJob,
         queue' \subseteq Jobs, announced' \subseteq Jobs, slots' \subseteq Jobs,
         mapped' \subseteq Jobs, persisted' \subseteq Jobs,
         left' \in [faults : 0..FaultBudget, controls : 0..ControlBudget]
  PROVE  TypeOK'
  BY DEF TypeOK, Row, Memory, At

(* A worker that holds the lease of its job holds a running row, and what  *)
(* it writes keeps the invariant: it goes on with a stage whose artifacts  *)
(* are there, or ends its run.                                             *)
LEMMA WriteKeeps ==
  ASSUME MInv, NEW w \in Workers, worker[w].at \in Running, MayWrite(w),
         NEW status \in {"running", "completed", "queued", "failed"},
         NEW stage \in Preflight..Complete, NEW to \in {"work", "finish", "done", "recover"},
         job' = Written(w, status, stage),
         MemoryBecomes(w, [worker[w] EXCEPT !.at = to, !.stage = stage]),
         Backed(Mine(w), stage),
         status = "completed" => stage = Complete,
         to \in {"work", "finish"} => status = "running",
         to = "work" => stage # Complete,
         to = "finish" => stage = Complete,
         to = "done" => status = "completed",
         UNCHANGED <<queue, announced, slots, mapped, persisted, left>>
  PROVE  MInv'
<1> DEFINE j == Mine(w)
           r == [job[j] EXCEPT !.status = status, !.stage = stage,
                               !.attempts = worker[w].attempts,
                               !.owner = IF status = "running" THEN w ELSE NoWorker,
                               !.leased = status = "running"]
<1>1. /\ j \in Jobs /\ job[j] \in Row /\ worker[w] \in Memory
      /\ job[j].owner = w /\ job[j].status = "running" /\ w # NoWorker
  BY MappingAssumption DEF MInv, TypeOK, Row, Memory, Mine, MayWrite, Running, Renewing, At
<1>2. r \in Row
  BY <1>1 DEF Row, Memory, Statuses
<1>3. RowBecomes(j, r)
  BY <1>1, <1>2, ReplaceRow DEF MInv, Written
<1> HIDE DEF r
<1>4. /\ r.status = status /\ r.stage = stage /\ r.control = job[j].control
      /\ r.owner = IF status = "running" THEN w ELSE NoWorker
      /\ r.leased => status = "running"
  BY <1>1 DEF r, Row
<1>5. /\ worker'[w].at = to /\ worker'[w].stage = stage /\ worker'[w].job = j
      /\ \A v \in Workers : v # w => worker'[v] = worker[v]
  BY <1>1 DEF MemoryBecomes, Memory, Mine
<1> HIDE DEF j
<1>6. TypeOK'
  <2>1. \A i \in Jobs :
          /\ job'[i].status = "running" <=> job'[i].owner # NoWorker
          /\ job'[i].leased => job'[i].owner # NoWorker
    <3> SUFFICES ASSUME NEW i \in Jobs
                 PROVE  /\ job'[i].status = "running" <=> job'[i].owner # NoWorker
                        /\ job'[i].leased => job'[i].owner # NoWorker
      OBVIOUS
    <3>1. CASE i = j
      BY <1>1, <1>3, <1>4, <3>1 DEF RowBecomes
    <3>2. CASE i # j
      BY <1>3, <3>2 DEF RowBecomes, MInv, TypeOK
    <3>3. QED
      BY <3>1, <3>2
  <2>2. \A v \in Workers : worker'[v].at = "poll" <=> worker'[v].job = NoJob
    BY <1>1, <1>5, MappingAssumption DEF MInv, TypeOK, At
  <2>3. QED
    BY <1>3, <2>1, <2>2, TypesFrom DEF RowBecomes, MemoryBecomes, MInv, TypeOK
<1>7. WorkersBacked'
  BY <1>5 DEF MInv, WorkersBacked, Backed, At, Running, j
<1>8. InStep'
  <2> SUFFICES ASSUME NEW v \in Workers, worker'[v].at \in Running,
                      job'[worker'[v].job].owner = v
               PROVE  worker'[v].stage = job'[worker'[v].job].stage
    BY DEF InStep
  <2>1. CASE v = w
    BY <1>3, <1>4, <1>5, <2>1 DEF RowBecomes
  <2>2. CASE v # w
    <3>1. worker'[v] = worker[v] /\ worker[v].job \in Jobs
      BY <1>5, <2>2 DEF MInv, TypeOK, At, Running
    <3>2. worker[v].job # j
      BY <1>1, <1>3, <1>4, <2>2, <3>1, MappingAssumption DEF RowBecomes
    <3>3. QED
      BY <1>3, <3>1, <3>2 DEF RowBecomes, MInv, InStep
  <2>3. QED
    BY <2>1, <2>2
<1>9. DoneIsSettled'
  BY <1>1, <1>3, <1>4, <1>5 DEF MInv, DoneIsSettled, RowBecomes, At, Settled, TypeOK, Memory
<1>10. OutputBacksProgress'
  BY <1>1, <1>3, <1>4 DEF MInv, OutputBacksProgress, RowBecomes, Backed, j
<1>11. WorkIsQueued'
  BY <1>1, <1>3, <1>4 DEF MInv, WorkIsQueued, RowBecomes
<1>12. QED
  BY <1>6, <1>7, <1>8, <1>9, <1>10, <1>11 DEF MInv

(* A worker that finds its lease gone, or whose stage fails, goes to the   *)
(* error path and changes nothing but its own memory.                      *)
LEMMA CaughtKeeps ==
  ASSUME MInv, NEW w \in Workers, worker[w].at \in Running,
         NEW stage \in Preflight..Complete,
         MemoryBecomes(w, [worker[w] EXCEPT !.at = "caught", !.stage = stage]),
         Backed(Mine(w), stage),
         MayWrite(w) => stage = worker[w].stage,
         UNCHANGED <<job, queue, announced, slots, mapped, persisted, left>>
  PROVE  MInv'
<1>1. Mine(w) \in Jobs /\ worker[w] \in Memory
  BY DEF MInv, TypeOK, Memory, Mine, Running, Renewing, At
<1>2. /\ worker'[w].at = "caught" /\ worker'[w].stage = stage /\ worker'[w].job = Mine(w)
      /\ \A v \in Workers : v # w => worker'[v] = worker[v]
  BY <1>1 DEF MemoryBecomes, Memory, Mine
<1>3. TypeOK'
  <2>1. \A v \in Workers : worker'[v].at = "poll" <=> worker'[v].job = NoJob
    BY <1>1, <1>2, MappingAssumption DEF MInv, TypeOK, At
  <2>2. QED
    BY <2>1, TypesFrom DEF MemoryBecomes, MInv, TypeOK, Row
<1>4. WorkersBacked'
  BY <1>2 DEF MInv, WorkersBacked, Backed, At, Running
<1>5. InStep'
  BY <1>2 DEF MInv, InStep, MayWrite, Mine, Running
<1>6. DoneIsSettled'
  BY <1>2 DEF MInv, DoneIsSettled, At
<1>7. OutputBacksProgress' /\ WorkIsQueued'
  BY DEF MInv, OutputBacksProgress, WorkIsQueued
<1>8. QED
  BY <1>3, <1>4, <1>5, <1>6, <1>7 DEF MInv

(* The same when the stage in memory stays as it is.                       *)
LEMMA CaughtAsIs ==
  ASSUME MInv, NEW w \in Workers, worker[w] \in Memory, worker[w].at \in Running,
         MemoryBecomes(w, [worker[w] EXCEPT !.at = "caught"]),
         Backed(Mine(w), worker[w].stage),
         UNCHANGED <<job, queue, announced, slots, mapped, persisted, left>>
  PROVE  MInv'
<1>1. /\ worker[w].stage \in Preflight..Complete
      /\ [worker[w] EXCEPT !.at = "caught"]
           = [worker[w] EXCEPT !.at = "caught", !.stage = worker[w].stage]
  BY DEF Memory
<1>2. QED
  BY <1>1, CaughtKeeps

(* The first checkpoint of a run keeps the invariant.                      *)
LEMMA BeginKeeps ==
  ASSUME MInv, NEW w \in Workers, Begin(w)
  PROVE  MInv'
<1> DEFINE stage == IF worker[w].stage = Complete THEN Preflight ELSE worker[w].stage
<1>1. /\ worker[w] \in Memory /\ worker[w].at \in Running
      /\ stage \in Preflight..Complete /\ stage # Complete
      /\ Backed(Mine(w), stage) /\ Backed(Mine(w), worker[w].stage)
  BY DEF Begin, At, MInv, TypeOK, WorkersBacked, Backed, Memory, Running, Mine,
         Preflight, PersistStage, Complete
<1> HIDE DEF stage
<1>2. CASE MayWrite(w)
  <2>1. [worker[w] EXCEPT !.at = "work", !.stage = stage] \in Memory
    BY <1>1 DEF Memory, Renewing, Running
  <2>2. MemoryBecomes(w, [worker[w] EXCEPT !.at = "work", !.stage = stage])
    BY <1>2, <2>1, ReplaceMemory DEF Begin, MInv, stage
  <2>3. job' = Written(w, "running", stage)
    BY <1>2 DEF Begin, stage
  <2>4. QED
    BY <1>1, <1>2, <2>2, <2>3, WriteKeeps DEF Begin
<1>3. CASE ~MayWrite(w)
  <2>1. MemoryBecomes(w, [worker[w] EXCEPT !.at = "caught"])
    BY <1>3, GoBecomes DEF Begin, MInv, Renewing, Running
  <2>2. QED
    BY <1>1, <1>3, <2>1, CaughtAsIs DEF Begin
<1>4. QED
  BY <1>2, <1>3

(* A checkpoint during the map stage keeps the invariant.                  *)
LEMMA NoteProgressKeeps ==
  ASSUME MInv, NEW w \in Workers, NoteProgress(w)
  PROVE  MInv'
<1>1. /\ worker[w] \in Memory /\ worker[w].at = "work" /\ worker[w].at \in Running
      /\ worker[w].stage = MapStage /\ MapStage \in Preflight..Complete
      /\ MapStage # Complete /\ Backed(Mine(w), worker[w].stage)
  BY DEF NoteProgress, At, MInv, TypeOK, WorkersBacked, Backed, Memory, Running, Mine,
         Preflight, MapStage, PersistStage, Complete
<1>2. CASE MayWrite(w)
  <2>1. worker' = worker /\ [worker[w] EXCEPT !.at = "work", !.stage = MapStage] = worker[w]
    BY <1>1, <1>2 DEF NoteProgress, Memory
  <2>2. MemoryBecomes(w, [worker[w] EXCEPT !.at = "work", !.stage = MapStage])
    BY <1>1, <2>1 DEF MemoryBecomes, MInv, TypeOK, Memory
  <2>3. job' = Written(w, "running", MapStage)
    BY <1>2 DEF NoteProgress
  <2>4. QED
    BY <1>1, <1>2, <2>2, <2>3, WriteKeeps DEF NoteProgress
<1>3. CASE ~MayWrite(w)
  <2>1. MemoryBecomes(w, [worker[w] EXCEPT !.at = "caught"])
    BY <1>3, GoBecomes DEF NoteProgress, MInv, Renewing, Running
  <2>2. QED
    BY <1>1, <1>3, <2>1, CaughtAsIs DEF NoteProgress
<1>4. QED
  BY <1>2, <1>3

(* The checkpoint at the end of a stage keeps the invariant.               *)
LEMMA AdvanceKeeps ==
  ASSUME MInv, NEW w \in Workers, Advance(w)
  PROVE  MInv'
<1> DEFINE next == worker[w].stage + 1
           to == IF next = Complete THEN "finish" ELSE "work"
<1>1. /\ worker[w] \in Memory /\ worker[w].at \in Running
      /\ next \in Preflight..Complete /\ Backed(Mine(w), next)
  BY DEF Advance, At, MInv, TypeOK, WorkersBacked, Memory, Running, Mine,
         Preflight, PersistStage, Complete
<1> HIDE DEF next
<1>2. CASE MayWrite(w)
  <2>1. [worker[w] EXCEPT !.at = to, !.stage = next] \in Memory
    BY <1>1 DEF Memory, Renewing, Running
  <2>2. MemoryBecomes(w, [worker[w] EXCEPT !.at = to, !.stage = next])
    BY <1>2, <2>1, ReplaceMemory DEF Advance, MInv, next
  <2>3. job' = Written(w, "running", next)
    BY <1>2 DEF Advance, next
  <2>4. QED
    BY <1>1, <1>2, <2>2, <2>3, WriteKeeps DEF Advance
<1>3. CASE ~MayWrite(w)
  <2>1. [worker[w] EXCEPT !.at = "caught", !.stage = next] \in Memory
    BY <1>1 DEF Memory, Renewing, Running
  <2>2. MemoryBecomes(w, [worker[w] EXCEPT !.at = "caught", !.stage = next])
    BY <1>3, <2>1, ReplaceMemory DEF Advance, MInv, next
  <2>3. QED
    BY <1>1, <1>3, <2>2, CaughtKeeps DEF Advance
<1>4. QED
  BY <1>2, <1>3

(* The last write of a run keeps the invariant.                            *)
LEMMA FinishKeeps ==
  ASSUME MInv, NEW w \in Workers, Finish(w)
  PROVE  MInv'
<1>1. /\ worker[w] \in Memory /\ worker[w].at \in Running
      /\ worker[w].stage = Complete /\ Complete \in Preflight..Complete
      /\ Backed(Mine(w), worker[w].stage)
  BY DEF Finish, At, MInv, TypeOK, WorkersBacked, Memory, Running, Mine,
         Preflight, PersistStage, Complete
<1>2. CASE MayWrite(w)
  <2>1. MemoryBecomes(w, [worker[w] EXCEPT !.at = "done"])
    BY <1>2, GoBecomes DEF Finish, MInv, Renewing
  <2>2. [worker[w] EXCEPT !.at = "done"] = [worker[w] EXCEPT !.at = "done", !.stage = Complete]
    BY <1>1 DEF Memory
  <2>3. job' = Written(w, "completed", Complete)
    BY <1>2 DEF Finish
  <2>4. QED
    BY <1>1, <1>2, <2>1, <2>2, <2>3, WriteKeeps DEF Finish
<1>3. CASE ~MayWrite(w)
  <2>1. MemoryBecomes(w, [worker[w] EXCEPT !.at = "caught"])
    BY <1>3, GoBecomes DEF Finish, MInv, Renewing, Running
  <2>2. QED
    BY <1>1, <1>3, <2>1, CaughtAsIs DEF Finish
<1>4. QED
  BY <1>2, <1>3

(* Recording a failure, or failing to record it, keeps the invariant.      *)
LEMMA RecordFailureKeeps ==
  ASSUME MInv, NEW w \in Workers, RecordFailure(w)
  PROVE  MInv'
<1>1. /\ worker[w] \in Memory /\ worker[w].at \in Running
      /\ worker[w].stage \in Preflight..Complete
      /\ Backed(Mine(w), worker[w].stage)
  BY DEF RecordFailure, At, MInv, TypeOK, WorkersBacked, Memory, Running, Mine
<1>2. MemoryBecomes(w, [worker[w] EXCEPT !.at = "recover"])
  BY GoBecomes DEF RecordFailure, MInv, Renewing
<1>3. CASE MayWrite(w)
  <2>1. /\ [worker[w] EXCEPT !.at = "recover"]
              = [worker[w] EXCEPT !.at = "recover", !.stage = worker[w].stage]
        /\ AfterFailure(w) \in {"queued", "failed"}
    BY <1>1 DEF Memory, AfterFailure
  <2>2. job' = Written(w, AfterFailure(w), worker[w].stage)
    BY <1>3 DEF RecordFailure
  <2>3. QED
    BY <1>1, <1>2, <1>3, <2>1, <2>2, WriteKeeps DEF RecordFailure
<1>4. CASE ~MayWrite(w)
  <2>1. /\ worker'[w].at = "recover" /\ worker'[w].job = Mine(w) /\ Mine(w) \in Jobs
        /\ \A v \in Workers : v # w => worker'[v] = worker[v]
        /\ UNCHANGED <<job, queue, announced, slots, mapped, persisted, left>>
    BY <1>1, <1>2, <1>4
    DEF RecordFailure, MemoryBecomes, Memory, Mine, MInv, TypeOK, At, Running
  <2>2. TypeOK'
    <3>1. \A v \in Workers : worker'[v].at = "poll" <=> worker'[v].job = NoJob
      BY <2>1, MappingAssumption DEF MInv, TypeOK, At
    <3>2. QED
      BY <1>2, <2>1, <3>1, TypesFrom DEF MemoryBecomes, MInv, TypeOK, Row
  <2>3. WorkersBacked' /\ InStep' /\ DoneIsSettled'
    BY <2>1 DEF MInv, WorkersBacked, Backed, InStep, DoneIsSettled, At, Running
  <2>4. OutputBacksProgress' /\ WorkIsQueued'
    BY <2>1 DEF MInv, OutputBacksProgress, WorkIsQueued
  <2>5. QED
    BY <2>2, <2>3, <2>4 DEF MInv
<1>5. QED
  BY <1>3, <1>4

(* A new job is queued and about to be put into the queue.                 *)
LEMMA CreateKeeps ==
  ASSUME MInv, NEW j \in Jobs, Create(j)
  PROVE  MInv'
<1> DEFINE r == [job[j] EXCEPT !.status = "queued"]
<1>0. job[j] = Absent /\ job[j] \in Row
  BY DEF Create, MInv, TypeOK, Row
<1>1. /\ job[j] = Absent /\ r \in Row /\ r.status = "queued" /\ r.stage = Preflight
      /\ r.owner = NoWorker /\ ~r.leased
  <2>1. r \in Row
    BY <1>0 DEF Row, Statuses
  <2>2. r.status = "queued"
    BY <1>0 DEF Row
  <2>3. r.stage = Preflight /\ r.owner = NoWorker /\ ~r.leased
    BY <1>0 DEF Absent
  <2>4. QED
    BY <1>0, <2>1, <2>2, <2>3
<1>2. RowBecomes(j, r)
  <2>1. job' = [job EXCEPT ![j] = r]
    BY DEF Create
  <2>2. QED
    BY <1>1, <2>1, ReplaceRow DEF MInv
<1> HIDE DEF r
<1>3. TypeOK'
  <2>1. \A i \in Jobs :
          /\ job'[i].status = "running" <=> job'[i].owner # NoWorker
          /\ job'[i].leased => job'[i].owner # NoWorker
    BY <1>1, <1>2 DEF RowBecomes, MInv, TypeOK
  <2>2. QED
    BY <1>2, <2>1, TypesFrom DEF Create, RowBecomes, MInv, TypeOK, Memory, At
<1>4. WorkersBacked'
  BY DEF Create, MInv, WorkersBacked, Backed, At
<1>5. InStep'
  BY <1>1, <1>2, MappingAssumption
  DEF Create, MInv, TypeOK, InStep, RowBecomes, At, Running
<1>6. DoneIsSettled'
  BY <1>1, <1>2, MappingAssumption
  DEF Create, MInv, TypeOK, DoneIsSettled, RowBecomes, At, Absent, Settled
<1>7. OutputBacksProgress' /\ WorkIsQueued'
  BY <1>1, <1>2
  DEF Create, MInv, OutputBacksProgress, WorkIsQueued, RowBecomes,
      Preflight, PersistStage, Complete
<1>8. QED
  BY <1>3, <1>4, <1>5, <1>6, <1>7 DEF MInv

(* A person's decision takes the lease away; what the worker that held it  *)
(* knows no longer matters.                                                *)
LEMMA ControlJobKeeps ==
  ASSUME MInv, NEW j \in Jobs, NEW action \in ControlKinds \ {"none"}, ControlJob(j, action)
  PROVE  MInv'
<1> DEFINE r == [job[j] EXCEPT !.status = Desired(action), !.owner = NoWorker,
                               !.leased = FALSE, !.control = action]
<1>1. /\ Desired(action) \in {"waiting_for_human", "queued", "cancelled"}
      /\ Desired(action) = "queued" => action = "resume"
      /\ action = "resume" => job[j].status = "waiting_for_human"
      /\ action \in ControlKinds /\ job[j] \in Row
  BY DEF ControlJob, Desired, Allowed, ControlKinds, MInv, TypeOK, Row
<1>2. /\ r \in Row /\ r.status = Desired(action) /\ r.stage = job[j].stage
      /\ r.owner = NoWorker /\ ~r.leased /\ r.control = action
  BY <1>1 DEF Row, Statuses
<1>3. RowBecomes(j, r)
  BY <1>2, ReplaceRow DEF ControlJob, Controlled, MInv
<1> HIDE DEF r
<1>4. /\ announced' = IF action = "resume" THEN announced \union {j} ELSE announced
      /\ left' = [left EXCEPT !.controls = @ - 1] /\ left.controls > 0
      /\ UNCHANGED <<queue, slots, worker, mapped, persisted>>
  BY DEF ControlJob
<1>5. TypeOK'
  <2>1. \A i \in Jobs :
          /\ job'[i].status = "running" <=> job'[i].owner # NoWorker
          /\ job'[i].leased => job'[i].owner # NoWorker
    BY <1>1, <1>2, <1>3 DEF RowBecomes, MInv, TypeOK
  <2>2. left' \in [faults : 0..FaultBudget, controls : 0..ControlBudget]
    BY <1>4, MappingAssumption DEF MInv, TypeOK
  <2>3. QED
    BY <1>3, <1>4, <2>1, <2>2, TypesFrom DEF RowBecomes, MInv, TypeOK, Memory, At
<1>6. WorkersBacked'
  BY <1>4 DEF MInv, WorkersBacked, Backed, At
<1>7. InStep'
  BY <1>2, <1>3, <1>4, MappingAssumption DEF MInv, TypeOK, InStep, RowBecomes, At, Running
<1>8. DoneIsSettled'
  BY <1>1, <1>2, <1>3, <1>4, MappingAssumption
  DEF MInv, TypeOK, DoneIsSettled, RowBecomes, At, Settled
<1>9. OutputBacksProgress'
  BY <1>1, <1>2, <1>3, <1>4 DEF MInv, OutputBacksProgress, RowBecomes
<1>10. WorkIsQueued'
  BY <1>1, <1>2, <1>3, <1>4 DEF MInv, WorkIsQueued, RowBecomes
<1>11. QED
  BY <1>5, <1>6, <1>7, <1>8, <1>9, <1>10 DEF MInv

(* A worker that reads a member knows nothing of its row yet.              *)
LEMMA PollKeeps ==
  ASSUME MInv, NEW w \in Workers, NEW j \in Jobs, Poll(w, j)
  PROVE  MInv'
<1> DEFINE x == [Idle EXCEPT !.at = "admit", !.job = j]
<1>1. x \in Memory /\ x.at = "admit" /\ x.job = j /\ j # NoJob
  <2>1. Preflight \in Preflight..Complete
    BY DEF Preflight, Complete
  <2>2. Idle \in Memory
    BY <2>1 DEF Idle, Memory
  <2>3. QED
    BY <2>2, MappingAssumption DEF Memory, Renewing
<1>2. MemoryBecomes(w, x)
  <2>1. worker' = [worker EXCEPT ![w] = x]
    BY DEF Poll
  <2>2. QED
    BY <1>1, <2>1, ReplaceMemory DEF MInv
<1> HIDE DEF x
<1>3. TypeOK'
  <2>1. \A v \in Workers : worker'[v].at = "poll" <=> worker'[v].job = NoJob
    BY <1>1, <1>2 DEF MemoryBecomes, MInv, TypeOK, At
  <2>2. QED
    BY <1>2, <2>1, TypesFrom DEF Poll, MemoryBecomes, MInv, TypeOK, Row
<1>4. WorkersBacked' /\ InStep' /\ DoneIsSettled'
  BY <1>1, <1>2
  DEF Poll, MemoryBecomes, MInv, WorkersBacked, Backed, InStep, DoneIsSettled, At, Running
<1>5. OutputBacksProgress' /\ WorkIsQueued'
  BY DEF Poll, MInv, OutputBacksProgress, WorkIsQueued
<1>6. QED
  BY <1>3, <1>4, <1>5 DEF MInv

(* A worker that takes over a job reads the stage the row has reached.     *)
LEMMA ClaimKeeps ==
  ASSUME MInv, NEW w \in Workers, Claim(w)
  PROVE  MInv'
<1> DEFINE j == Mine(w)
           r == [job[j] EXCEPT !.status = "running", !.attempts = @ + 1,
                               !.owner = w, !.leased = TRUE]
           x == [worker[w] EXCEPT !.at = "begin", !.stage = job[j].stage,
                                  !.attempts = job[j].attempts + 1]
<1>1. /\ j \in Jobs /\ job[j] \in Row /\ worker[w] \in Memory /\ worker[w].job = j
      /\ worker[w].at = "claim" /\ w # NoWorker
  BY MappingAssumption DEF Claim, MInv, TypeOK, Row, Memory, Mine, At
<1> HIDE DEF j
<1>2. CASE MayClaim(w, job[j])
  <2>1. /\ r \in Row /\ r.status = "running" /\ r.stage = job[j].stage /\ r.owner = w
        /\ r.control = job[j].control
    <3>1. job[j].attempts + 1 \in Nat
      BY <1>1 DEF Row
    <3>2. r \in Row
      BY <1>1, <3>1 DEF Row, Statuses
    <3>3. QED
      BY <1>1, <3>2 DEF Row
  <2>2. /\ x \in Memory /\ x.at = "begin" /\ x.stage = job[j].stage /\ x.job = j
    <3>1. job[j].attempts + 1 \in Nat /\ job[j].stage \in Preflight..Complete
      BY <1>1 DEF Row
    <3>2. x \in Memory
      BY <1>1, <3>1 DEF Memory, Renewing, Running
    <3>3. QED
      BY <1>1, <3>2 DEF Memory
  <2>3. RowBecomes(j, r)
    <3>1. job' = [job EXCEPT ![j] = r]
      BY <1>1, <1>2 DEF Claim, j
    <3>2. QED
      BY <1>1, <2>1, <3>1, ReplaceRow DEF MInv
  <2>4. MemoryBecomes(w, x)
    <3>1. worker' = [worker EXCEPT ![w] = x]
      BY <1>1, <1>2 DEF Claim, j
    <3>2. QED
      BY <2>2, <3>1, ReplaceMemory DEF MInv
  <2>5. job[j].status \in {"queued", "running"}
    BY <1>1, <1>2 DEF MayClaim, MInv, TypeOK
  <2>6. UNCHANGED <<queue, announced, slots, mapped, persisted, left>>
    BY DEF Claim
  <2> HIDE DEF r, x
  <2>7. TypeOK'
    <3>1. \A i \in Jobs :
            /\ job'[i].status = "running" <=> job'[i].owner # NoWorker
            /\ job'[i].leased => job'[i].owner # NoWorker
      BY <1>1, <2>1, <2>3 DEF RowBecomes, MInv, TypeOK
    <3>2. \A v \in Workers : worker'[v].at = "poll" <=> worker'[v].job = NoJob
      BY <1>1, <2>2, <2>4, MappingAssumption DEF MemoryBecomes, MInv, TypeOK, At
    <3>3. QED
      BY <2>3, <2>4, <2>6, <3>1, <3>2, TypesFrom DEF RowBecomes, MemoryBecomes, MInv, TypeOK
  <2>8. WorkersBacked'
    BY <1>1, <2>2, <2>4, <2>6
    DEF MInv, WorkersBacked, OutputBacksProgress, Backed, MemoryBecomes, At, Running
  <2>9. InStep'
    <3> SUFFICES ASSUME NEW v \in Workers, worker'[v].at \in Running,
                        job'[worker'[v].job].owner = v
                 PROVE  worker'[v].stage = job'[worker'[v].job].stage
      BY DEF InStep
    <3>1. CASE v = w
      BY <1>1, <2>1, <2>2, <2>3, <2>4, <3>1 DEF RowBecomes, MemoryBecomes
    <3>2. CASE v # w
      <4>1. worker'[v] = worker[v] /\ worker[v].job \in Jobs
        BY <2>4, <3>2 DEF MemoryBecomes, MInv, TypeOK, At, Running
      <4>2. worker[v].job # j
        BY <2>1, <2>3, <3>2, <4>1 DEF RowBecomes
      <4>3. QED
        BY <2>3, <4>1, <4>2 DEF RowBecomes, MInv, InStep
    <3>3. QED
      BY <3>1, <3>2
  <2>10. DoneIsSettled'
    <3> SUFFICES ASSUME NEW v \in Workers, worker'[v].at = "done"
                 PROVE  \/ job'[worker'[v].job].status \in Settled
                        \/ job'[worker'[v].job].control = "resume"
      BY DEF DoneIsSettled, At
    <3>1. v # w /\ worker'[v] = worker[v] /\ worker[v].job \in Jobs
      BY <2>2, <2>4, MappingAssumption DEF MemoryBecomes, MInv, TypeOK, At
    <3>2. CASE worker[v].job = j
      BY <2>1, <2>3, <2>5, <3>1, <3>2
      DEF RowBecomes, MInv, DoneIsSettled, At, Settled
    <3>3. CASE worker[v].job # j
      BY <2>3, <3>1, <3>3 DEF RowBecomes, MInv, DoneIsSettled, At
    <3>4. QED
      BY <3>2, <3>3
  <2>11. OutputBacksProgress' /\ WorkIsQueued'
    BY <1>1, <2>1, <2>3, <2>5, <2>6
    DEF MInv, OutputBacksProgress, WorkIsQueued, RowBecomes
  <2>12. QED
    BY <2>7, <2>8, <2>9, <2>10, <2>11 DEF MInv
<1>3. CASE ~MayClaim(w, job[j])
  <2>1. MemoryBecomes(w, [worker[w] EXCEPT !.at = "recover"])
    BY <1>1, <1>3, GoBecomes DEF Claim, MInv, Renewing, j
  <2>2. /\ worker'[w].at = "recover" /\ worker'[w].job = j
        /\ \A v \in Workers : v # w => worker'[v] = worker[v]
        /\ UNCHANGED <<job, queue, announced, slots, mapped, persisted, left>>
    BY <1>1, <1>3, <2>1 DEF Claim, MemoryBecomes, Memory
  <2>3. TypeOK'
    <3>1. \A v \in Workers : worker'[v].at = "poll" <=> worker'[v].job = NoJob
      BY <1>1, <2>2, MappingAssumption DEF MInv, TypeOK, At
    <3>2. QED
      BY <2>1, <2>2, <3>1, TypesFrom DEF MemoryBecomes, MInv, TypeOK, Row
  <2>4. WorkersBacked' /\ InStep' /\ DoneIsSettled'
    BY <2>2 DEF MInv, WorkersBacked, Backed, InStep, DoneIsSettled, At, Running
  <2>5. OutputBacksProgress' /\ WorkIsQueued'
    BY <2>2 DEF MInv, OutputBacksProgress, WorkIsQueued
  <2>6. QED
    BY <2>3, <2>4, <2>5 DEF MInv
<1>4. QED
  BY <1>2, <1>3

(* An expired lease leaves the row with its owner.                         *)
LEMMA ExpireLeaseKeeps ==
  ASSUME MInv, NEW j \in Jobs, ExpireLease(j)
  PROVE  MInv'
<1> DEFINE r == [job[j] EXCEPT !.leased = FALSE]
<1>1. /\ r \in Row /\ r.status = job[j].status /\ r.stage = job[j].stage
      /\ r.owner = job[j].owner /\ ~r.leased /\ r.control = job[j].control
  BY DEF MInv, TypeOK, Row
<1>2. RowBecomes(j, r)
  BY <1>1, ReplaceRow DEF ExpireLease, MInv
<1> HIDE DEF r
<1>3. /\ UNCHANGED <<queue, announced, slots, worker, mapped, persisted>>
      /\ left' \in [faults : 0..FaultBudget, controls : 0..ControlBudget]
  BY MappingAssumption DEF ExpireLease, May, MInv, TypeOK
<1>4. TypeOK'
  <2>1. \A i \in Jobs :
          /\ job'[i].status = "running" <=> job'[i].owner # NoWorker
          /\ job'[i].leased => job'[i].owner # NoWorker
    BY <1>1, <1>2 DEF RowBecomes, MInv, TypeOK
  <2>2. QED
    BY <1>2, <1>3, <2>1, TypesFrom DEF RowBecomes, MInv, TypeOK, Memory, At
<1>5. WorkersBacked'
  BY <1>3 DEF MInv, WorkersBacked, Backed, At
<1>6. InStep' /\ DoneIsSettled'
  BY <1>1, <1>2, <1>3, MappingAssumption
  DEF MInv, TypeOK, InStep, DoneIsSettled, RowBecomes, At, Running
<1>7. OutputBacksProgress' /\ WorkIsQueued'
  BY <1>1, <1>2, <1>3 DEF MInv, OutputBacksProgress, WorkIsQueued, RowBecomes
<1>8. QED
  BY <1>4, <1>5, <1>6, <1>7 DEF MInv

-----------------------------------------------------------------------------
(* The invariant holds initially.                                          *)
LEMMA InitMInv == Init => MInv
  BY MappingAssumption
  DEF Init, MInv, TypeOK, WorkersBacked, InStep, DoneIsSettled, OutputBacksProgress,
      WorkIsQueued, Absent, Idle, At, Running, Renewing, Statuses, ControlKinds, Settled,
      Preflight, PersistStage, Complete

(* The route puts the new or resumed job into the queue.                   *)
LEMMA EnqueueKeeps ==
  ASSUME MInv, NEW j \in Jobs, Enqueue(j)
  PROVE  MInv'
<1> USE MappingAssumption DEF Enqueue, MInv, TypeOK, At
<1>1. TypeOK'
  BY DEF Statuses, ControlKinds, Preflight, MapStage, PersistStage, Complete, Renewing, Running
<1>2. WorkersBacked'
  BY DEF WorkersBacked, Backed, Running, Preflight, MapStage, PersistStage, Complete
<1>3. InStep'
  BY DEF InStep, Running, Preflight, MapStage, PersistStage, Complete
<1>4. DoneIsSettled'
  BY DEF DoneIsSettled, Settled, Running
<1>5. OutputBacksProgress'
  BY DEF OutputBacksProgress, Backed, Running, Preflight, MapStage, PersistStage, Complete
<1>6. WorkIsQueued'
  BY DEF WorkIsQueued, Settled
<1>7. QED
  BY <1>1, <1>2, <1>3, <1>4, <1>5, <1>6

(* A worker is admitted or told that the server is at capacity.            *)
LEMMA AdmitKeeps ==
  ASSUME MInv, NEW w \in Workers, Admit(w)
  PROVE  MInv'
<1> USE MappingAssumption DEF Admit, MInv, TypeOK, At, Go, Mine
<1>1. TypeOK'
  BY DEF Statuses, ControlKinds, Preflight, MapStage, PersistStage, Complete, Renewing, Running
<1>2. WorkersBacked'
  BY DEF WorkersBacked, Backed, Running, Preflight, MapStage, PersistStage, Complete
<1>3. InStep'
  BY DEF InStep, Running, Preflight, MapStage, PersistStage, Complete
<1>4. DoneIsSettled'
  BY DEF DoneIsSettled, Settled, Running
<1>5. OutputBacksProgress'
  BY DEF OutputBacksProgress, Backed, Running, Preflight, MapStage, PersistStage, Complete
<1>6. WorkIsQueued'
  BY DEF WorkIsQueued, Settled
<1>7. QED
  BY <1>1, <1>2, <1>3, <1>4, <1>5, <1>6

(* A refusal by the process gives the slot back.                           *)
LEMMA RefuseLocallyKeeps ==
  ASSUME MInv, NEW w \in Workers, RefuseLocally(w)
  PROVE  MInv'
<1> USE MappingAssumption DEF RefuseLocally, MInv, TypeOK, At, Go, Mine, May
<1>1. TypeOK'
  BY DEF Statuses, ControlKinds, Preflight, MapStage, PersistStage, Complete, Renewing, Running
<1>2. WorkersBacked'
  BY DEF WorkersBacked, Backed, Running, Preflight, MapStage, PersistStage, Complete
<1>3. InStep'
  BY DEF InStep, Running, Preflight, MapStage, PersistStage, Complete
<1>4. DoneIsSettled'
  BY DEF DoneIsSettled, Settled, Running
<1>5. OutputBacksProgress'
  BY DEF OutputBacksProgress, Backed, Running, Preflight, MapStage, PersistStage, Complete
<1>6. WorkIsQueued'
  BY DEF WorkIsQueued, Settled
<1>7. QED
  BY <1>1, <1>2, <1>3, <1>4, <1>5, <1>6

(* A deferred member is in the queue again.                                *)
LEMMA DeferKeeps ==
  ASSUME MInv, NEW w \in Workers, Defer(w)
  PROVE  MInv'
<1> USE MappingAssumption DEF Defer, MInv, TypeOK, At, Go, Mine, Idle
<1>1. TypeOK'
  BY DEF Statuses, ControlKinds, Preflight, MapStage, PersistStage, Complete, Renewing, Running
<1>2. WorkersBacked'
  BY DEF WorkersBacked, Backed, Running, Preflight, MapStage, PersistStage, Complete
<1>3. InStep'
  BY DEF InStep, Running, Preflight, MapStage, PersistStage, Complete
<1>4. DoneIsSettled'
  BY DEF DoneIsSettled, Settled, Running
<1>5. OutputBacksProgress'
  BY DEF OutputBacksProgress, Backed, Running, Preflight, MapStage, PersistStage, Complete
<1>6. WorkIsQueued'
  BY DEF WorkIsQueued, Settled
<1>7. QED
  BY <1>1, <1>2, <1>3, <1>4, <1>5, <1>6

(* A member taken out belongs to a job that needs no worker.               *)
LEMMA CompleteItemKeeps ==
  ASSUME MInv, NEW w \in Workers, CompleteItem(w)
  PROVE  MInv'
<1> USE MappingAssumption DEF CompleteItem, MInv, TypeOK, At, Go, Mine
<1>1. TypeOK'
  BY DEF Statuses, ControlKinds, Preflight, MapStage, PersistStage, Complete, Renewing, Running
<1>2. WorkersBacked'
  BY DEF WorkersBacked, Backed, Running, Preflight, MapStage, PersistStage, Complete
<1>3. InStep'
  BY DEF InStep, Running, Preflight, MapStage, PersistStage, Complete
<1>4. DoneIsSettled'
  BY DEF DoneIsSettled, Settled, Running
<1>5. OutputBacksProgress'
  BY DEF OutputBacksProgress, Backed, Running, Preflight, MapStage, PersistStage, Complete
<1>6. WorkIsQueued'
  <2> SUFFICES ASSUME NEW i \in Jobs, job[i].status \in {"queued", "running"},
                      job[i].control # "resume"
               PROVE  i \in queue' \union announced'
    BY DEF WorkIsQueued
  <2>1. i # worker[w].job
    BY DEF DoneIsSettled, Settled
  <2>2. QED
    BY <2>1 DEF WorkIsQueued
<1>7. QED
  BY <1>1, <1>2, <1>3, <1>4, <1>5, <1>6

(* The slot is given back and the worker forgets the job.                  *)
LEMMA LeaveKeeps ==
  ASSUME MInv, NEW w \in Workers, Leave(w)
  PROVE  MInv'
<1> USE MappingAssumption DEF Leave, MInv, TypeOK, At, Mine, Idle
<1>1. TypeOK'
  BY DEF Statuses, ControlKinds, Preflight, MapStage, PersistStage, Complete, Renewing, Running
<1>2. WorkersBacked'
  BY DEF WorkersBacked, Backed, Running, Preflight, MapStage, PersistStage, Complete
<1>3. InStep'
  BY DEF InStep, Running, Preflight, MapStage, PersistStage, Complete
<1>4. DoneIsSettled'
  BY DEF DoneIsSettled, Settled, Running
<1>5. OutputBacksProgress'
  BY DEF OutputBacksProgress, Backed, Running, Preflight, MapStage, PersistStage, Complete
<1>6. WorkIsQueued'
  BY DEF WorkIsQueued, Settled
<1>7. QED
  BY <1>1, <1>2, <1>3, <1>4, <1>5, <1>6

(* A worker takes a member out only of a job it reads as settled.          *)
LEMMA RecoverKeeps ==
  ASSUME MInv, NEW w \in Workers, Recover(w)
  PROVE  MInv'
<1> USE MappingAssumption DEF Recover, MInv, TypeOK, At, Go, Mine
<1>1. TypeOK'
  BY DEF Statuses, ControlKinds, Preflight, MapStage, PersistStage, Complete, Renewing, Running
<1>2. WorkersBacked'
  BY DEF WorkersBacked, Backed, Running, Preflight, MapStage, PersistStage, Complete
<1>3. InStep'
  BY DEF InStep, Running, Preflight, MapStage, PersistStage, Complete
<1>4. DoneIsSettled'
  BY DEF DoneIsSettled, Settled, Running
<1>5. OutputBacksProgress'
  BY DEF OutputBacksProgress, Backed, Running, Preflight, MapStage, PersistStage, Complete
<1>6. WorkIsQueued'
  BY DEF WorkIsQueued, Settled
<1>7. QED
  BY <1>1, <1>2, <1>3, <1>4, <1>5, <1>6

(* The end of a stage leaves its artifacts behind.                         *)
LEMMA EndStageKeeps ==
  ASSUME MInv, NEW w \in Workers, EndStage(w)
  PROVE  MInv'
<1> USE MappingAssumption DEF EndStage, MInv, TypeOK, At, Go, Mine
<1>1. TypeOK'
  BY DEF Statuses, ControlKinds, Preflight, MapStage, PersistStage, Complete, Renewing, Running
<1>2. WorkersBacked'
  BY DEF WorkersBacked, Backed, Running, Preflight, MapStage, PersistStage, Complete
<1>3. InStep'
  BY DEF InStep, Running, Preflight, MapStage, PersistStage, Complete
<1>4. DoneIsSettled'
  BY DEF DoneIsSettled, Settled, Running
<1>5. OutputBacksProgress'
  BY DEF OutputBacksProgress, Backed, Running, Preflight, MapStage, PersistStage, Complete
<1>6. WorkIsQueued'
  BY DEF WorkIsQueued, Settled
<1>7. QED
  BY <1>1, <1>2, <1>3, <1>4, <1>5, <1>6

(* A failed stage changes no artifact.                                     *)
LEMMA FailStageKeeps ==
  ASSUME MInv, NEW w \in Workers, FailStage(w)
  PROVE  MInv'
<1> USE MappingAssumption DEF FailStage, MInv, TypeOK, At, Go, Mine
<1>1. TypeOK'
  BY DEF Statuses, ControlKinds, Preflight, MapStage, PersistStage, Complete, Renewing, Running
<1>2. WorkersBacked'
  BY DEF WorkersBacked, Backed, Running, Preflight, MapStage, PersistStage, Complete
<1>3. InStep'
  BY DEF InStep, Running, Preflight, MapStage, PersistStage, Complete
<1>4. DoneIsSettled'
  BY DEF DoneIsSettled, Settled, Running
<1>5. OutputBacksProgress'
  BY DEF OutputBacksProgress, Backed, Running, Preflight, MapStage, PersistStage, Complete
<1>6. WorkIsQueued'
  BY DEF WorkIsQueued, Settled
<1>7. QED
  BY <1>1, <1>2, <1>3, <1>4, <1>5, <1>6

(* A person's decision ends the run without a write.                       *)
LEMMA CatchKeeps ==
  ASSUME MInv, NEW w \in Workers, Catch(w)
  PROVE  MInv'
<1> USE MappingAssumption DEF Catch, MInv, TypeOK, At, Go, Mine
<1>1. TypeOK'
  BY DEF Statuses, ControlKinds, Preflight, MapStage, PersistStage, Complete, Renewing, Running
<1>2. WorkersBacked'
  BY DEF WorkersBacked, Backed, Running, Preflight, MapStage, PersistStage, Complete
<1>3. InStep'
  BY DEF InStep, Running, Preflight, MapStage, PersistStage, Complete
<1>4. DoneIsSettled'
  BY DEF DoneIsSettled, Settled, Running
<1>5. OutputBacksProgress'
  BY DEF OutputBacksProgress, Backed, Running, Preflight, MapStage, PersistStage, Complete
<1>6. WorkIsQueued'
  BY DEF WorkIsQueued, Settled
<1>7. QED
  BY <1>1, <1>2, <1>3, <1>4, <1>5, <1>6

(* A crash forgets only what the worker had in memory.                     *)
LEMMA CrashKeeps ==
  ASSUME MInv, NEW w \in Workers, Crash(w)
  PROVE  MInv'
<1> USE MappingAssumption DEF Crash, MInv, TypeOK, At, May, Idle
<1>1. TypeOK'
  BY DEF Statuses, ControlKinds, Preflight, MapStage, PersistStage, Complete, Renewing, Running
<1>2. WorkersBacked'
  BY DEF WorkersBacked, Backed, Running, Preflight, MapStage, PersistStage, Complete
<1>3. InStep'
  BY DEF InStep, Running, Preflight, MapStage, PersistStage, Complete
<1>4. DoneIsSettled'
  BY DEF DoneIsSettled, Settled, Running
<1>5. OutputBacksProgress'
  BY DEF OutputBacksProgress, Backed, Running, Preflight, MapStage, PersistStage, Complete
<1>6. WorkIsQueued'
  BY DEF WorkIsQueued, Settled
<1>7. QED
  BY <1>1, <1>2, <1>3, <1>4, <1>5, <1>6

(* An expired slot touches no row.                                         *)
LEMMA ExpireSlotKeeps ==
  ASSUME MInv, NEW j \in Jobs, ExpireSlot(j)
  PROVE  MInv'
<1> USE MappingAssumption DEF ExpireSlot, MInv, TypeOK, At
<1>1. TypeOK'
  BY DEF Statuses, ControlKinds, Preflight, MapStage, PersistStage, Complete, Renewing, Running
<1>2. WorkersBacked'
  BY DEF WorkersBacked, Backed, Running, Preflight, MapStage, PersistStage, Complete
<1>3. InStep'
  BY DEF InStep, Running, Preflight, MapStage, PersistStage, Complete
<1>4. DoneIsSettled'
  BY DEF DoneIsSettled, Settled, Running
<1>5. OutputBacksProgress'
  BY DEF OutputBacksProgress, Backed, Running, Preflight, MapStage, PersistStage, Complete
<1>6. WorkIsQueued'
  BY DEF WorkIsQueued, Settled
<1>7. QED
  BY <1>1, <1>2, <1>3, <1>4, <1>5, <1>6

(* Every step keeps the invariant.                                         *)
LEMMA NextMInv ==
  ASSUME MInv, [Next]_vars
  PROVE  MInv'
<1>1. CASE \E j \in Jobs : Create(j)
  BY <1>1, CreateKeeps
<1>2. CASE \E j \in Jobs : Enqueue(j)
  BY <1>2, EnqueueKeeps
<1>3. CASE \E j \in Jobs : ExpireLease(j)
  BY <1>3, ExpireLeaseKeeps
<1>4. CASE \E j \in Jobs : ExpireSlot(j)
  BY <1>4, ExpireSlotKeeps
<1>5. CASE \E j \in Jobs, action \in ControlKinds \ {"none"} : ControlJob(j, action)
  BY <1>5, ControlJobKeeps
<1>6. CASE \E w \in Workers : WorkerStep(w)
  <2> SUFFICES ASSUME NEW w \in Workers, WorkerStep(w)
               PROVE  MInv'
    BY <1>6
  <2>1. CASE Admit(w)
    BY <2>1, AdmitKeeps
  <2>2. CASE Defer(w)
    BY <2>2, DeferKeeps
  <2>3. CASE CompleteItem(w)
    BY <2>3, CompleteItemKeeps
  <2>4. CASE Leave(w)
    BY <2>4, LeaveKeeps
  <2>5. CASE Recover(w)
    BY <2>5, RecoverKeeps
  <2>6. CASE Claim(w)
    BY <2>6, ClaimKeeps
  <2>7. CASE Begin(w)
    BY <2>7, BeginKeeps
  <2>8. CASE EndStage(w)
    BY <2>8, EndStageKeeps
  <2>9. CASE NoteProgress(w)
    BY <2>9, NoteProgressKeeps
  <2>10. CASE FailStage(w)
    BY <2>10, FailStageKeeps
  <2>11. CASE Advance(w)
    BY <2>11, AdvanceKeeps
  <2>12. CASE Finish(w)
    BY <2>12, FinishKeeps
  <2>13. CASE Catch(w)
    BY <2>13, CatchKeeps
  <2>14. CASE RecordFailure(w)
    BY <2>14, RecordFailureKeeps
  <2>15. QED
    BY <2>1, <2>2, <2>3, <2>4, <2>5, <2>6, <2>7, <2>8, <2>9, <2>10, <2>11, <2>12, <2>13, <2>14 DEF WorkerStep
<1>7. CASE \E w \in Workers : RefuseLocally(w)
  BY <1>7, RefuseLocallyKeeps
<1>8. CASE \E w \in Workers : Crash(w)
  BY <1>8, CrashKeeps
<1>9. CASE \E w \in Workers, j \in Jobs : Poll(w, j)
  BY <1>9, PollKeeps
<1>10. CASE UNCHANGED vars
  BY <1>10
  DEF vars, MInv, TypeOK, WorkersBacked, Backed, InStep, DoneIsSettled, OutputBacksProgress,
      WorkIsQueued, At
<1>11. QED
  BY <1>1, <1>2, <1>3, <1>4, <1>5, <1>6, <1>7, <1>8, <1>9, <1>10 DEF Next

-----------------------------------------------------------------------------
(* What one step may do to a row: nothing; what a person asked for; or     *)
(* what the worker that may write it does, and then a running row that     *)
(* goes on running keeps its owner while it is leased, and its stage.      *)
RowStep(j) ==
  \/ job'[j] = job[j]
  \/ /\ left'.controls < left.controls
     /\ job[j].status \in {"queued", "running", "waiting_for_human"}
     /\ job'[j].status # "running"
  \/ /\ job[j].status \in {"absent", "queued", "running"}
     /\ job[j].status = "running" /\ job'[j].status = "running" =>
          /\ job'[j].owner # job[j].owner => ~job[j].leased
          /\ job'[j].stage >= job[j].stage \/ job[j].stage = Complete

(* A checkpoint of the worker that owns the row is such a step.            *)
LEMMA WrittenStep ==
  ASSUME MInv, NEW j \in Jobs, NEW w \in Workers, worker[w].at \in Running, MayWrite(w),
         NEW status, NEW stage \in Preflight..Complete, job' = Written(w, status, stage),
         \/ stage >= worker[w].stage
         \/ worker[w].stage = Complete
         \/ status # "running"
  PROVE  RowStep(j)
<1>1. CASE j = Mine(w)
  <2>1. /\ job[j].status = "running" /\ job[j].owner = w /\ worker[w].stage = job[j].stage
    BY <1>1, MappingAssumption DEF MInv, TypeOK, InStep, MayWrite, Mine
  <2>2. /\ job'[j].status = status /\ job'[j].stage = stage
        /\ status = "running" => job'[j].owner = w
    BY <1>1 DEF MInv, TypeOK, Written
  <2>3. QED
    BY <2>1, <2>2 DEF RowStep
<1>2. CASE j # Mine(w)
  BY <1>2 DEF MInv, TypeOK, Written, RowStep
<1>3. QED
  BY <1>1, <1>2

(* Every step of the system is a step of each row.                         *)
LEMMA RowSteps ==
  ASSUME MInv, [Next]_vars, NEW j \in Jobs
  PROVE  RowStep(j)
<1>1. CASE UNCHANGED job
  BY <1>1 DEF RowStep
<1>2. CASE \E i \in Jobs : Create(i)
  BY <1>2 DEF Create, Absent, MInv, TypeOK, RowStep
<1>3. CASE \E i \in Jobs : ExpireLease(i)
  BY <1>3 DEF ExpireLease, MInv, TypeOK, RowStep, Preflight, Complete
<1>4. CASE \E i \in Jobs, action \in ControlKinds \ {"none"} : ControlJob(i, action)
  BY <1>4 DEF ControlJob, Controlled, Allowed, Desired, ControlKinds, MInv, TypeOK, RowStep
<1>5. CASE \E w \in Workers : WorkerStep(w)
  <2> SUFFICES ASSUME NEW w \in Workers, WorkerStep(w), ~UNCHANGED job
               PROVE  RowStep(j)
    BY <1>1, <1>5
  <2> USE DEF At, Running, Preflight, MapStage, PersistStage, Complete
  <2>1. worker[w].stage \in 1..4
    BY DEF MInv, TypeOK
  <2>2. CASE Claim(w)
    <3> DEFINE r == job[Mine(w)]
    <3>1. /\ MayClaim(w, r)
          /\ job' = [job EXCEPT ![Mine(w)] =
                       [@ EXCEPT !.status = "running", !.attempts = r.attempts + 1,
                                 !.owner = w, !.leased = TRUE]]
      BY <2>2 DEF Claim
    <3>2. CASE j # Mine(w)
      BY <3>1, <3>2 DEF MInv, TypeOK, RowStep
    <3>3. CASE j = Mine(w)
      <4>1. /\ job'[j].owner = w /\ job'[j].stage = job[j].stage /\ job[j].stage \in 1..4
        BY <3>1, <3>3 DEF MInv, TypeOK
      <4>2. /\ job[j].status \in {"queued", "running"}
            /\ job[j].status = "running" => job[j].owner = w \/ ~job[j].leased
        BY <3>1, <3>3, MappingAssumption DEF MayClaim, MInv, TypeOK
      <4>3. QED
        BY <4>1, <4>2 DEF RowStep
    <3>4. QED
      BY <3>2, <3>3
  <2>3. CASE Begin(w)
    BY <2>1, <2>3, WrittenStep DEF Begin
  <2>4. CASE NoteProgress(w)
    BY <2>1, <2>4, WrittenStep DEF NoteProgress
  <2>5. CASE Advance(w)
    BY <2>1, <2>5, WrittenStep DEF Advance, MInv, WorkersBacked
  <2>6. CASE Finish(w)
    BY <2>1, <2>6, WrittenStep DEF Finish
  <2>7. CASE RecordFailure(w)
    BY <2>1, <2>7, WrittenStep DEF RecordFailure, AfterFailure
  <2>8. CASE \/ Admit(w) \/ Defer(w) \/ CompleteItem(w) \/ Leave(w) \/ Recover(w)
             \/ EndStage(w) \/ FailStage(w) \/ Catch(w)
    BY <2>8 DEF Admit, Defer, CompleteItem, Leave, Recover, EndStage, FailStage, Catch
  <2>9. QED
    BY <2>2, <2>3, <2>4, <2>5, <2>6, <2>7, <2>8 DEF WorkerStep
<1>6. CASE \E i \in Jobs : Enqueue(i)
  BY <1>1, <1>6 DEF Enqueue
<1>7. CASE \E i \in Jobs : ExpireSlot(i)
  BY <1>1, <1>7 DEF ExpireSlot
<1>8. CASE \E w \in Workers : RefuseLocally(w)
  BY <1>1, <1>8 DEF RefuseLocally
<1>9. CASE \E w \in Workers : Crash(w)
  BY <1>1, <1>9 DEF Crash
<1>10. CASE \E w \in Workers, i \in Jobs : Poll(w, i)
  BY <1>1, <1>10 DEF Poll
<1>11. CASE UNCHANGED vars
  BY <1>1, <1>11 DEF vars
<1>12. QED
  BY <1>2, <1>3, <1>4, <1>5, <1>6, <1>7, <1>8, <1>9, <1>10, <1>11 DEF Next

-----------------------------------------------------------------------------
(* The inductive invariant holds of every reachable state, for any number  *)
(* of jobs, workers and faults.                                            *)
THEOREM Invariance == Spec => []MInv
<1>1. QED
  BY InitMInv, NextMInv, PTL DEF Spec

(* Type correctness: among other things exactly the running rows have an   *)
(* owner (the checks of claimJob and saveMappingJob rest on that).         *)
THEOREM TypeCorrect == Spec => []TypeOK
<1>1. MInv => TypeOK
  BY DEF MInv
<1>2. QED
  BY <1>1, Invariance, PTL

(* A row never promises what its artifacts do not hold, whichever crashes, *)
(* takeovers and retries led there.                                        *)
THEOREM OutputBacked == Spec => []OutputBacksProgress
<1>1. MInv => OutputBacksProgress
  BY DEF MInv
<1>2. QED
  BY <1>1, Invariance, PTL

(* A job that waits or runs has its member in the queue or about to be     *)
(* there, unless a person resumed it.                                      *)
THEOREM NothingForgotten == Spec => []WorkIsQueued
<1>1. MInv => WorkIsQueued
  BY DEF MInv
<1>2. QED
  BY <1>1, Invariance, PTL

(* No worker overwrites what a person decided, or reopens an ended job.    *)
THEOREM DecisionsStay == Spec => DecisionsStand
<1>1. ASSUME MInv, [Next]_vars
      PROVE  [\A j \in Jobs :
                /\ job[j].status \in {"cancelled", "completed", "failed"} => job'[j] = job[j]
                /\ job[j].status = "waiting_for_human" /\ job'[j] # job[j]
                     => left'.controls < left.controls]_vars
  BY <1>1, RowSteps DEF RowStep
<1>2. QED
  BY <1>1, Invariance, PTL DEF Spec, DecisionsStand

(* No worker writes over the work of the one that owns the lease.          *)
THEOREM OneHand == Spec => OneHandAtATime
<1>1. ASSUME MInv, [Next]_vars
      PROVE  [\A j \in Jobs :
                job[j].status = "running" /\ job'[j].status = "running" =>
                  /\ job'[j].owner # job[j].owner => ~job[j].leased
                  /\ job'[j].stage >= job[j].stage \/ job[j].stage = Complete]_vars
  <2>1. SUFFICES ASSUME NEW j \in Jobs, job[j].status = "running", job'[j].status = "running"
                 PROVE  /\ job'[j].owner # job[j].owner => ~job[j].leased
                        /\ job'[j].stage >= job[j].stage \/ job[j].stage = Complete
    OBVIOUS
  <2>2. RowStep(j)
    BY <1>1, RowSteps
  <2>3. job[j].stage \in Nat
    BY <1>1 DEF MInv, TypeOK, Preflight, Complete
  <2>4. QED
    BY <2>1, <2>2, <2>3 DEF RowStep
<1>2. QED
  BY <1>1, Invariance, PTL DEF Spec, OneHandAtATime

-----------------------------------------------------------------------------
(* What is known of the journeys of any copy of the graph *)

JourneyFields == {"path", "words", "needs", "status", "rev", "approval"}

\* With P replayed and R reviewed: a verified journey was replayed as it is, an
\* approved one reviewed as the approval has it.
Real(j) == DOMAIN j = JourneyFields /\ j.status \in {"verified", "broken"}
Sound(P, R, g, j) ==
  /\ Real(j)
  /\ Verified(j) => [goal |-> g, path |-> j.path] \in P
  /\ j.approval.state = "approved" => [goal |-> g, content |-> j.approval.content] \in R
Honest(P, R, G) == DOMAIN G = Goals /\ \A g \in Goals : G[g] = NoJourney \/ Sound(P, R, g, G[g])

ReviewedFlows(P, R, F) ==
  /\ DOMAIN F = Goals
  /\ \A g \in Goals : F[g] # NoContent => [goal |-> g, content |-> F[g]] \in R /\ [goal |-> g, path |-> F[g].path] \in P

RunFields == {"on", "nr", "cli", "paused", "cancel", "pc", "only", "left", "check", "demoted", "mem", "goal", "cand", "was"}
WithCandidate == {"verify", "minimize", "verifyShort", "verifyAgain", "describe", "stage"}
RunOK(P, R, r) ==
  /\ DOMAIN r = RunFields
  /\ Honest(P, R, r.mem)
  /\ r.only \subseteq Goals /\ r.left \subseteq Goals
  /\ r.pc = "recheck" => \A g \in r.check : g \in Goals /\ r.mem[g] # NoJourney
  /\ r.pc = "explore" => r.goal \in Goals
  /\ r.pc \in WithCandidate => r.goal \in Goals /\ Real(r.cand)
  /\ r.pc \in {"minimize", "describe", "stage"} /\ Verified(r.cand) => [goal |-> r.goal, path |-> r.cand.path] \in P

HandFields == {"pc", "mem", "goal", "rework"}
HandOK(P, R, x) ==
  /\ DOMAIN x = HandFields
  /\ Honest(P, R, x.mem)
  /\ x.rework \/ x.pc = "rework" => x.goal \in Goals
HandsOK(P, R, hs) == DOMAIN hs = Hands /\ \A h \in Hands : HandOK(P, R, hs[h])

KeptOK(P, R, vs) == vs \in Seq(Range(vs)) /\ \A G \in Range(vs) : Honest(P, R, G)

TrainingInv ==
  /\ Honest(proven, reviewed, graph)
  /\ KeptOK(proven, reviewed, versions)
  /\ ReviewedFlows(proven, reviewed, flows)
  /\ RunOK(proven, reviewed, run)
  /\ \A w \in waiting : w.goal \in Goals
  /\ HandsOK(proven, reviewed, hand)

-----------------------------------------------------------------------------
(* More is replayed and reviewed: nothing becomes unsound *)
LEMMA HonestGrows ==
  ASSUME NEW P, NEW R, NEW G, Honest(P, R, G), NEW Q, NEW S, P \subseteq Q, R \subseteq S
  PROVE  Honest(Q, S, G)
  BY DEF Honest, Sound

\* The kept versions stay honest.
LEMMA KeptGrows ==
  ASSUME NEW P, NEW R, NEW vs, KeptOK(P, R, vs), NEW Q, NEW S, P \subseteq Q, R \subseteq S
  PROVE  KeptOK(Q, S, vs)
  BY HonestGrows DEF KeptOK

\* What is live stays reviewed and replayed.
LEMMA FlowsGrow ==
  ASSUME NEW P, NEW R, NEW F, ReviewedFlows(P, R, F), NEW Q, NEW S, P \subseteq Q, R \subseteq S
  PROVE  ReviewedFlows(Q, S, F)
  BY DEF ReviewedFlows

\* The copy a run works on stays honest.
LEMMA RunGrows ==
  ASSUME NEW P, NEW R, NEW r, RunOK(P, R, r), NEW Q, NEW S, P \subseteq Q, R \subseteq S
  PROVE  RunOK(Q, S, r)
  BY HonestGrows DEF RunOK

\* So do the copies of the hands.
LEMMA HandsGrow ==
  ASSUME NEW P, NEW R, NEW hs, HandsOK(P, R, hs), NEW Q, NEW S, P \subseteq Q, R \subseteq S
  PROVE  HandsOK(Q, S, hs)
  BY HonestGrows DEF HandsOK, HandOK

-----------------------------------------------------------------------------
(* What is done to a copy *)

\* A graph without journeys claims nothing.
LEMMA EmptyHonest == ASSUME NEW P, NEW R PROVE Honest(P, R, NoGraph)
  BY DEF Honest, NoGraph

\* One journey of a graph is replaced by a sound one, or dropped.
LEMMA PutHonest ==
  ASSUME NEW P, NEW R, NEW G, Honest(P, R, G), NEW g \in Goals, NEW j, j = NoJourney \/ Sound(P, R, g, j)
  PROVE  Honest(P, R, [G EXCEPT ![g] = j])
  BY DEF Honest

\* Dropping what is no longer planned claims nothing new (explorer.ts persistGraph).
LEMMA PrunedHonest ==
  ASSUME NEW P, NEW R, NEW G, Honest(P, R, G)
  PROVE  Honest(P, R, Pruned(G))
  BY DEF Honest, Pruned

\* Deriving what a journey needs keeps its path and its approval (review deriveComposition).
LEMMA ComposedHonest ==
  ASSUME NEW P, NEW R, NEW G, Honest(P, R, G)
  PROVE  Honest(P, R, Composed(G))
  <1>1. ASSUME NEW g \in Goals, NEW N
        PROVE  Verified(G[g]) => Sound(P, R, g, [G[g] EXCEPT !.needs = N])
    BY DEF Honest, Sound, Real, Verified, NoJourney, JourneyFields
  <1>2. ASSUME NEW g \in Goals
        PROVE  Composed(G)[g] = G[g] \/ (Verified(G[g]) /\ \E N : Composed(G)[g] = [G[g] EXCEPT !.needs = N])
    BY DEF Composed
  <1>3. DOMAIN Composed(G) = Goals
    BY DEF Composed
  <1> QED BY <1>1, <1>2, <1>3 DEF Honest

\* What an honest graph publishes was reviewed as it is and replayed.
LEMMA PublishedReviewed ==
  ASSUME NEW P, NEW R, NEW G, Honest(P, R, G)
  PROVE  ReviewedFlows(P, R, Flows(G))
  <1>1. ASSUME NEW g \in Goals, Flows(G)[g] # NoContent
        PROVE  [goal |-> g, content |-> Flows(G)[g]] \in R /\ [goal |-> g, path |-> Flows(G)[g].path] \in P
    <2>1. Publishable(G[g]) /\ Flows(G)[g] = Content(G[g])
      BY <1>1 DEF Flows
    <2>2. Sound(P, R, g, G[g])
      BY <2>1 DEF Publishable, Verified, Honest, NoJourney
    <2> QED BY <2>1, <2>2 DEF Publishable, CurrentApproval, CurrentByRevision, Sound, Content
  <1> QED BY <1>1 DEF ReviewedFlows, Flows

\* Keeping the last versions only keeps them honest.
LEMMA Rotated ==
  ASSUME NEW P, NEW R, NEW vs, KeptOK(P, R, vs), NEW G, Honest(P, R, G), NEW from \in {1, 2}
  PROVE  KeptOK(P, R, SubSeq(Append(vs, G), from, Len(Append(vs, G))))
  <1> DEFINE S == Range(vs) \cup {G}
  <1> DEFINE kept == Append(vs, G)
  <1> DEFINE ws == SubSeq(kept, from, Len(kept))
  <1>1. vs \in Seq(S)
    BY DEF KeptOK
  <1>2. kept \in Seq(S)
    BY <1>1
  <1> HIDE DEF S, kept
  <1>3. ws \in Seq(S)
    BY <1>2
  <1> HIDE DEF ws
  <1>4. ws \in Seq(Range(ws)) /\ Range(ws) \subseteq S
    BY <1>3 DEF Range
  <1>5. \A H \in S : Honest(P, R, H)
    BY DEF S, KeptOK
  <1> QED BY <1>4, <1>5 DEF KeptOK, ws, kept

\* A save moves the graph before it among the kept versions.
LEMMA SavedKept ==
  ASSUME NEW P, NEW R, KeptOK(P, R, versions), Honest(P, R, graph), NEW G, Honest(P, R, G), SavedWith(G)
  PROVE  KeptOK(P, R, versions') /\ Honest(P, R, graph')
  <1>1. versions' = SubSeq(Append(versions, graph), IF Len(Append(versions, graph)) > KeepVersions THEN 2 ELSE 1, Len(Append(versions, graph)))
    BY DEF SavedWith
  <1> QED BY <1>1, Rotated DEF SavedWith

\* Without a save nothing of it changes.
LEMMA NotSavedKept ==
  ASSUME NEW P, NEW R, KeptOK(P, R, versions), Honest(P, R, graph), NotSaved
  PROVE  KeptOK(P, R, versions') /\ Honest(P, R, graph')
  BY DEF NotSaved

\* A verdict of the verifier is one a replay gave.
LEMMA JudgedSound ==
  ASSUME NEW P, NEW R, NEW g, NEW j, Sound(P, R, g, j), NEW ok \in BOOLEAN, NEW Q, P \subseteq Q, ok => [goal |-> g, path |-> j.path] \in Q
  PROVE  Sound(Q, R, g, Judged(j, ok))
  BY DEF Sound, Real, Judged, JourneyFields, Verified

\* A new revision drops the approval unless it carries the old content.
LEMMA PreparedSound ==
  ASSUME NEW P, NEW R, NEW g, NEW j, Real(j), Verified(j) => [goal |-> g, path |-> j.path] \in P, NEW previous
  PROVE  Sound(P, R, g, Prepared(j, previous))
  <1> DEFINE rev == IF previous.status = "none" THEN 1 ELSE previous.rev + 1
  <1> HIDE DEF rev
  <1> DEFINE a == [state |-> "pending", rev |-> rev, content |-> Content(j)]
  <1>1. a.state = "pending"
    OBVIOUS
  <1>2. Prepared(j, previous) = [j EXCEPT !.rev = rev, !.approval = a]
    BY DEF Prepared, rev
  <1> HIDE DEF a
  <1> QED BY <1>1, <1>2 DEF Sound, Real, JourneyFields, Verified

\* A decision of a person counts for the content it was made on.
LEMMA ReviewedSound ==
  ASSUME NEW P, NEW R, NEW g, NEW j, Sound(P, R, g, j), NEW state, NEW S, R \subseteq S,
         state = "approved" => [goal |-> g, content |-> Content(j)] \in S
  PROVE  Sound(P, S, g, Reviewed(j, state))
  <1> DEFINE a == [state |-> state, rev |-> j.rev, content |-> Content(j)]
  <1>1. a.state = state /\ a.content = Content(j)
    OBVIOUS
  <1>2. Reviewed(j, state) = [j EXCEPT !.approval = a]
    BY DEF Reviewed
  <1> HIDE DEF a
  <1> QED BY <1>1, <1>2 DEF Sound, Real, JourneyFields, Verified

\* A candidate is a journey that is not yet verified.
LEMMA CandidateReal == ASSUME NEW p PROVE Real(Candidate(p)) /\ Candidate(p).path = p /\ ~Verified(Candidate(p))
  BY DEF Real, Candidate, JourneyFields, Verified

\* A verdict keeps the path.
LEMMA JudgedReal == ASSUME NEW j, Real(j), NEW ok \in BOOLEAN PROVE Real(Judged(j, ok)) /\ Judged(j, ok).path = j.path /\ (Verified(Judged(j, ok)) <=> ok)
  BY DEF Real, Judged, JourneyFields, Verified

\* New words keep path and status: what was replayed stays replayed.
LEMMA NarratedReal ==
  ASSUME NEW j, Real(j), NEW k \in Narrated(j)
  PROVE  Real(k) /\ k.path = j.path /\ k.status = j.status
  <1>1. PICK w : k = [j EXCEPT !.words = w]
    BY DEF Narrated
  <1> QED BY <1>1 DEF Real, JourneyFields

-----------------------------------------------------------------------------
(* The run *)
RunActions == Onboard \/ Cancelled \/ FailsRun \/ Access \/ Ingest \/ Survey \/ Recheck \/ Rechecked \/ Plan \/ NextJob \/ Explore
              \/ Verify \/ Minimize \/ VerifyShort \/ Describe \/ Stage \/ Report \/ FinishRun \/ CompleteRun \/ Control \/ StartRework

\* A run in one of its steps: what the step leaves alone.
LEMMA RunMoves ==
  ASSUME NEW P, NEW R, NEW r, RunOK(P, R, r), NEW s, DOMAIN s = RunFields, s.mem = r.mem, s.only = r.only, s.left = r.left,
         s.pc \notin WithCandidate \cup {"recheck", "explore"}
  PROVE  RunOK(P, R, s)
  BY DEF RunOK, WithCandidate

\* A run that ended holds nothing.
LEMMA EndedOK == ASSUME NEW P, NEW R, NEW n PROVE RunOK(P, R, [NoRun EXCEPT !.nr = n])
  BY EmptyHonest DEF RunOK, NoRun, RunFields, WithCandidate

\* A run begins with an honest copy of the stored graph.
LEMMA StartedOK ==
  ASSUME NEW P, NEW R, RunOK(P, R, run), NEW only \in SUBSET Goals, NEW cli, Starts(only, cli)
  PROVE  RunOK(P, R, run')
  <1>1. CASE run' = run
    BY <1>1
  <1>2. CASE run' # run
    BY <1>2, EmptyHonest DEF Starts, RunOK, NoRun, RunFields, WithCandidate
  <1> QED BY <1>1, <1>2

\* Steps that save nothing, publish nothing and prove nothing.
Quietly == NotSaved /\ UNCHANGED <<flows, hand, proven, reviewed>>

\* A step that stores nothing keeps the invariant when its run does.
LEMMA QuietStep ==
  ASSUME TrainingInv, Quietly, RunOK(proven, reviewed, run'), \A w \in waiting' : w.goal \in Goals
  PROVE  TrainingInv'
  BY NotSavedKept DEF TrainingInv, Quietly, NotSaved

\* The stages of a run that store nothing.
LEMMA QuietRunStep ==
  ASSUME TrainingInv,
         Onboard \/ Cancelled \/ FailsRun \/ Access \/ Ingest \/ Plan \/ NextJob \/ Minimize \/ Describe \/ Report \/ CompleteRun \/ Control \/ StartRework
  PROVE  TrainingInv'
  <1> DEFINE P == proven
  <1> DEFINE R == reviewed
  <1>0. RunOK(P, R, run) /\ Honest(P, R, graph) /\ \A w \in waiting : w.goal \in Goals
    BY DEF TrainingInv
  <1> HIDE DEF P, R
  <1>1. CASE Onboard
    <2>1. RunOK(P, R, run')
      BY <1>0, <1>1, StartedOK DEF Onboard
    <2> QED BY <1>0, <1>1, <2>1, QuietStep DEF Onboard, Quietly, P, R, History
  <1>2. CASE Cancelled \/ FailsRun \/ CompleteRun
    <2>1. RunOK(P, R, run')
      BY <1>2, EndedOK DEF Cancelled, FailsRun, CompleteRun, Ends
    <2> QED BY <1>0, <1>2, <2>1, QuietStep DEF Cancelled, FailsRun, CompleteRun, Quietly, P, R, History
  <1>3. CASE Access \/ Report
    <2>1. RunOK(P, R, run')
      BY <1>0, <1>3 DEF Access, Report, To, RunOK, WithCandidate, RunFields
    <2> QED BY <1>0, <1>3, <2>1, QuietStep DEF Access, Report, Quietly, P, R, History
  <1>4. CASE Ingest
    <2>1. RunOK(P, R, run')
      BY <1>0, <1>4 DEF Ingest, RunOK, WithCandidate, RunFields
    <2> QED BY <1>0, <1>4, <2>1, QuietStep DEF Ingest, Quietly, P, R, History
  <1>5. CASE Plan
    <2>1. PICK goals \in SUBSET Goals : run' = [run EXCEPT !.left = goals, !.pc = "next"]
      BY <1>0, <1>5 DEF Plan, Proposals, RunOK
    <2>2. RunOK(P, R, run')
      BY <1>0, <2>1 DEF RunOK, WithCandidate, RunFields
    <2> QED BY <1>0, <1>5, <2>2, QuietStep DEF Plan, Quietly, P, R, History
  <1>6. CASE NextJob
    <2>1. PICK g \in run.left : run' = [run EXCEPT !.goal = g, !.left = @ \ {g}, !.pc = "explore"]
      BY <1>6 DEF NextJob
    <2>2. RunOK(P, R, run')
      BY <1>0, <2>1 DEF RunOK, WithCandidate, RunFields
    <2> QED BY <1>0, <1>6, <2>2, QuietStep DEF NextJob, Quietly, P, R, History
  <1>7. CASE Minimize
    <2>3. RunOK(P, R, run')
      <3>1. CASE run' = [run EXCEPT !.pc = "describe"]
        BY <1>0, <1>7, <3>1 DEF Minimize, Reaches, RunOK, WithCandidate, RunFields
      <3>2. ASSUME NEW p, run' = [run EXCEPT !.was = run.cand.path, !.cand.path = p, !.pc = "verifyShort"]
            PROVE  RunOK(P, R, run')
        <4>1. Real([run.cand EXCEPT !.path = p])
          BY <1>0, <1>7 DEF Minimize, Reaches, RunOK, WithCandidate, Real, JourneyFields
        <4>2. run'.cand = [run.cand EXCEPT !.path = p] /\ run'.pc = "verifyShort" /\ run'.goal = run.goal /\ run'.mem = run.mem
              /\ run'.only = run.only /\ run'.left = run.left /\ DOMAIN run' = RunFields
          BY <1>0, <3>2 DEF RunOK, RunFields
        <4> QED BY <1>0, <1>7, <4>1, <4>2 DEF Minimize, Reaches, RunOK, WithCandidate
      <3> QED BY <1>7, <3>1, <3>2 DEF Minimize, To
    <2> QED BY <1>0, <1>7, <2>3, QuietStep DEF Minimize, Quietly, P, R, History
  <1>8. CASE Describe
    <2>1. PICK j \in Narrated(run.cand) : run' = [run EXCEPT !.cand = j, !.pc = "stage"]
      BY <1>8 DEF Describe
    <2>2. run.goal \in Goals /\ Real(run.cand)
      BY <1>0, <1>8 DEF Describe, Reaches, RunOK, WithCandidate
    <2>3. Real(j) /\ j.path = run.cand.path /\ j.status = run.cand.status
      BY <2>2, NarratedReal
    <2>4. RunOK(P, R, run')
      BY <1>0, <1>8, <2>1, <2>2, <2>3 DEF Describe, Reaches, RunOK, WithCandidate, RunFields, Verified
    <2> QED BY <1>0, <1>8, <2>4, QuietStep DEF Describe, Quietly, P, R, History
  <1>9. CASE Control
    <2>1. RunOK(P, R, run')
      BY <1>0, <1>9 DEF Control, RunOK, WithCandidate, RunFields
    <2> QED BY <1>0, <1>9, <2>1, QuietStep DEF Control, Quietly, P, R, History
  <1>10. CASE StartRework
    <2>1. PICK w \in waiting : Starts({w.goal}, FALSE) /\ waiting' = waiting \ {w}
      BY <1>10 DEF StartRework
    <2>2. RunOK(P, R, run')
      BY <1>0, <2>1, StartedOK
    <2> QED BY <1>0, <1>10, <2>1, <2>2, QuietStep DEF StartRework, Quietly, P, R, History
  <1> QED BY <1>1, <1>2, <1>3, <1>4, <1>5, <1>6, <1>7, <1>8, <1>9, <1>10

\* The steps of a run that replay a journey of the graph or the candidate.
LEMMA ReplayStep ==
  ASSUME TrainingInv, Recheck \/ Verify \/ VerifyShort
  PROVE  TrainingInv'
  <1> DEFINE Q == proven'
  <1> DEFINE P == proven
  <1> DEFINE R == reviewed
  <1> HIDE DEF P, Q, R
  <1>0. RunOK(P, R, run) /\ P \subseteq Q /\ UNCHANGED <<graph, versions, flows, waiting, hand, reviewed>>
    BY DEF TrainingInv, Recheck, Verify, VerifyShort, Proves, NotSaved, P, Q, R
  <1>1. RunOK(Q, R, run)
    BY <1>0, RunGrows
  <1>2. RunOK(Q, R, run')
    <2>1. CASE Recheck
      <3>1. PICK g \in run.check, ok \in BOOLEAN :
              /\ run' = [run EXCEPT !.check = @ \ {g}, !.mem[g] = Judged(run.mem[g], ok), !.demoted = @ \/ ~ok]
              /\ Proves(g, run.mem[g], ok)
        BY <2>1 DEF Recheck
      <3>2. g \in Goals /\ Sound(P, R, g, run.mem[g]) /\ run.pc = "recheck"
        BY <1>0, <2>1 DEF Recheck, Reaches, RunOK, Honest
      <3>3. Sound(Q, R, g, Judged(run.mem[g], ok))
        BY <1>0, <3>1, <3>2, JudgedSound DEF Proves, Q, P
      <3> DEFINE x == Judged(run.mem[g], ok)
      <3> DEFINE G == [run.mem EXCEPT ![g] = x]
      <3>4. x # NoJourney
        BY <3>3 DEF Sound, Real, JourneyFields, NoJourney
      <3> HIDE DEF x
      <3>5. Honest(Q, R, G)
        BY <1>1, <3>2, <3>3, PutHonest DEF RunOK, x
      <3>6. \A h \in run.check : h \in Goals /\ G[h] # NoJourney
        BY <1>0, <3>2, <3>4 DEF RunOK, Honest
      <3>7. run'.mem = G /\ run'.pc = "recheck" /\ run'.check \subseteq run.check /\ run'.only = run.only /\ run'.left = run.left
            /\ DOMAIN run' = RunFields
        BY <1>0, <3>1, <3>2 DEF RunOK, RunFields, x
      <3> HIDE DEF G
      <3> QED BY <1>1, <3>5, <3>6, <3>7 DEF RunOK, WithCandidate
    <2>2. CASE Verify
      <3>1. PICK ok \in BOOLEAN :
              /\ run' = [run EXCEPT !.cand = Judged(run.cand, ok),
                                    !.pc = IF ~ok THEN "stage" ELSE IF Len(run.cand.path) > 1 THEN "minimize" ELSE "describe"]
              /\ Proves(run.goal, run.cand, ok)
        BY <2>2 DEF Verify
      <3>2. run.goal \in Goals /\ Real(run.cand)
        BY <1>0, <2>2 DEF Verify, Enters, Reaches, RunOK, WithCandidate
      <3>3. Real(Judged(run.cand, ok)) /\ Judged(run.cand, ok).path = run.cand.path /\ (Verified(Judged(run.cand, ok)) <=> ok)
        BY <3>2, JudgedReal
      <3>4. ok => [goal |-> run.goal, path |-> run.cand.path] \in Q
        BY <3>1 DEF Proves, Q
      <3>5. run'.cand = Judged(run.cand, ok) /\ run'.pc \in {"stage", "minimize", "describe"} /\ run'.goal = run.goal
            /\ run'.mem = run.mem /\ run'.only = run.only /\ run'.left = run.left /\ DOMAIN run' = RunFields
        BY <1>0, <3>1 DEF RunOK, RunFields
      <3> QED BY <1>1, <3>2, <3>3, <3>4, <3>5 DEF RunOK, WithCandidate
    <2>3. CASE VerifyShort
      <3>1. PICK ok \in BOOLEAN :
              /\ run' = IF ok \/ run.pc = "verifyAgain" THEN [run EXCEPT !.cand = Judged(run.cand, ok), !.was = <<>>, !.pc = "describe"]
                        ELSE [run EXCEPT !.cand.path = run.was, !.pc = "verifyAgain"]
              /\ Proves(run.goal, run.cand, ok)
        BY <2>3 DEF VerifyShort
      <3>2. run.goal \in Goals /\ Real(run.cand)
        BY <1>0, <2>3 DEF VerifyShort, RunOK, WithCandidate
      <3>3. Real(Judged(run.cand, ok)) /\ Judged(run.cand, ok).path = run.cand.path /\ (Verified(Judged(run.cand, ok)) <=> ok)
        BY <3>2, JudgedReal
      <3>4. ok => [goal |-> run.goal, path |-> run.cand.path] \in Q
        BY <3>1 DEF Proves, Q
      <3>5. DOMAIN run' = RunFields /\ run'.mem = run.mem /\ run'.only = run.only /\ run'.left = run.left /\ run'.goal = run.goal
        BY <1>0, <3>1 DEF RunOK, RunFields
      <3>6. CASE ok \/ run.pc = "verifyAgain"
        <4>1. run'.cand = Judged(run.cand, ok) /\ run'.pc = "describe"
          BY <1>0, <3>1, <3>6 DEF RunOK, RunFields
        <4> QED BY <1>1, <3>2, <3>3, <3>4, <3>5, <4>1 DEF RunOK, WithCandidate
      <3>7. CASE ~(ok \/ run.pc = "verifyAgain")
        <4>1. run'.cand = [run.cand EXCEPT !.path = run.was] /\ run'.pc = "verifyAgain"
          BY <1>0, <3>1, <3>7 DEF RunOK, RunFields
        <4>2. Real(run'.cand)
          BY <3>2, <4>1 DEF Real, JourneyFields
        <4> QED BY <1>1, <3>2, <3>5, <4>1, <4>2 DEF RunOK, WithCandidate
      <3> QED BY <3>6, <3>7
    <2> QED BY <2>1, <2>2, <2>3
  <1> QED BY <1>0, <1>2, HonestGrows, KeptGrows, FlowsGrow, HandsGrow DEF TrainingInv, P, Q, R

\* The stages of a run that write the graph back whole, whatever was stored in between.
LEMMA SavingStep ==
  ASSUME TrainingInv, Survey \/ Rechecked \/ Explore \/ Stage \/ FinishRun
  PROVE  TrainingInv'
  <1> DEFINE P == proven
  <1> DEFINE R == reviewed
  <1>0. RunOK(P, R, run) /\ Honest(P, R, graph) /\ KeptOK(P, R, versions) /\ Honest(P, R, run.mem) /\ ReviewedFlows(P, R, flows)
    BY DEF TrainingInv, RunOK
  <1>1. UNCHANGED <<waiting, hand, proven, reviewed>>
    BY DEF Survey, Rechecked, Explore, Stage, FinishRun, History
  <1> HIDE DEF P, R
  <1>2. ASSUME NEW G, Honest(P, R, G), SavedWith(G) \/ NotSaved
        PROVE  KeptOK(P, R, versions') /\ Honest(P, R, graph')
    BY <1>0, <1>2, SavedKept, NotSavedKept
  <1>3. KeptOK(P, R, versions') /\ Honest(P, R, graph') /\ ReviewedFlows(P, R, flows') /\ RunOK(P, R, run')
    <2>1. CASE Survey
      <3>1. KeptOK(P, R, versions') /\ Honest(P, R, graph')
        BY <1>0, <1>2, <2>1 DEF Survey
      <3>2. run'.check = {} \/ run'.check = {g \in Goals : Verified(run.mem[g])}
        BY <1>0, <2>1 DEF Survey, RunOK, RunFields
      <3>3. \A g \in run'.check : g \in Goals /\ run.mem[g] # NoJourney
        BY <3>2 DEF Verified, NoJourney
      <3>4. run'.pc = "recheck" /\ run'.mem = run.mem /\ run'.only = run.only /\ run'.left = run.left /\ DOMAIN run' = RunFields
        BY <1>0, <2>1 DEF Survey, RunOK, RunFields
      <3> QED BY <1>0, <2>1, <3>1, <3>3, <3>4 DEF Survey, RunOK, WithCandidate
    <2>2. CASE Rechecked
      <3>1. KeptOK(P, R, versions') /\ Honest(P, R, graph')
        BY <1>0, <1>2, <2>2 DEF Rechecked
      <3>2. RunOK(P, R, run')
        BY <1>0, <2>2 DEF Rechecked, RunOK, RunFields, WithCandidate
      <3> QED BY <1>0, <2>2, <3>1, <3>2 DEF Rechecked
    <2>3. CASE Explore
      <3>1. KeptOK(P, R, versions') /\ Honest(P, R, graph')
        BY <1>0, <1>2, <2>3 DEF Explore
      <3>2. CASE To("review")
        <4>1. RunOK(P, R, run')
          BY <1>0, <3>2 DEF To, RunOK, RunFields, WithCandidate
        <4> QED BY <1>0, <2>3, <3>1, <4>1 DEF Explore
      <3>3. CASE \E p \in FoundPaths[run.goal] : run' = [run EXCEPT !.cand = Candidate(p), !.pc = "verify"]
        <4>1. PICK p : run' = [run EXCEPT !.cand = Candidate(p), !.pc = "verify"]
          BY <3>3
        <4>2. Real(Candidate(p)) /\ run.goal \in Goals
          BY <1>0, <2>3, CandidateReal DEF Explore, Enters, Reaches, RunOK
        <4> DEFINE c == Candidate(p)
        <4> HIDE DEF c
        <4>3. RunOK(P, R, run')
          BY <1>0, <4>1, <4>2 DEF RunOK, RunFields, WithCandidate, c
        <4> QED BY <1>0, <2>3, <3>1, <4>3 DEF Explore
      <3> QED BY <2>3, <3>2, <3>3 DEF Explore
    <2>4. CASE Stage
      <3> DEFINE j == Prepared(run.cand, run.mem[run.goal])
      <3> DEFINE G == [run.mem EXCEPT ![run.goal] = j]
      <3>1. run.goal \in Goals /\ Sound(P, R, run.goal, j)
        BY <1>0, <2>4, PreparedSound DEF Stage, Reaches, RunOK, WithCandidate
      <3> HIDE DEF j
      <3>2. Honest(P, R, G)
        BY <1>0, <3>1, PutHonest
      <3>3. SavedWith(G) /\ run' = [run EXCEPT !.mem = G, !.cand = NoJourney, !.goal = "none", !.pc = "review"]
        BY <2>4 DEF Stage, j
      <3> HIDE DEF G
      <3>4. RunOK(P, R, run')
        BY <1>0, <3>2, <3>3 DEF RunOK, RunFields, WithCandidate
      <3> QED BY <1>0, <1>2, <2>4, <3>2, <3>3, <3>4 DEF Stage
    <2>5. CASE FinishRun
      <3> DEFINE G == Composed(Pruned(run.mem))
      <3>1. Honest(P, R, G)
        BY <1>0, PrunedHonest, ComposedHonest
      <3>2. SavedWith(G) /\ run' = [run EXCEPT !.mem = G, !.pc = "complete"] /\ flows' = (IF run.cli THEN Flows(G) ELSE flows)
        BY <2>5 DEF FinishRun
      <3> HIDE DEF G
      <3>3. RunOK(P, R, run')
        BY <1>0, <3>1, <3>2 DEF RunOK, RunFields, WithCandidate
      <3> QED BY <1>0, <1>2, <3>1, <3>2, <3>3, PublishedReviewed
    <2> QED BY <2>1, <2>2, <2>3, <2>4, <2>5
  <1> QED BY <1>1, <1>3 DEF TrainingInv, P, R

-----------------------------------------------------------------------------
(* People and the command line *)

\* A hand changes and says what it holds.
LEMMA HandDone ==
  ASSUME NEW P, NEW R, HandsOK(P, R, hand), NEW h \in Hands, NEW x, HandOK(P, R, x), Does(h, x)
  PROVE  HandsOK(P, R, hand')
  BY DEF HandsOK, Does

\* A hand that read the stored graph holds an honest copy.
LEMMA LoadedOK ==
  ASSUME NEW P, NEW R, NEW G, Honest(P, R, G), NEW pc \in {"restore", "publish", "demonstrated"}
  PROVE  HandOK(P, R, [IdleHand EXCEPT !.pc = pc, !.mem = G])
  BY DEF HandOK, IdleHand, HandFields

\* A hand at rest holds nothing.
LEMMA IdleOK == ASSUME NEW P, NEW R PROVE HandOK(P, R, IdleHand)
  BY EmptyHonest DEF HandOK, IdleHand, HandFields

\* What people and the command line do to the graph, beside any run.
LEMMA HandStep ==
  ASSUME TrainingInv, NEW h \in Hands,
         Review(h) \/ Restore(h) \/ PublishCommand(h) \/ Reverify(h) \/ Demonstrate(h) \/ Save(h) \/ Publish(h) \/ Rework(h)
  PROVE  TrainingInv'
  <1> DEFINE P == proven
  <1> DEFINE R == reviewed
  <1> DEFINE Q == proven'
  <1> DEFINE S == reviewed'
  <1>0. /\ RunOK(P, R, run) /\ Honest(P, R, graph) /\ KeptOK(P, R, versions) /\ ReviewedFlows(P, R, flows) /\ HandsOK(P, R, hand)
        /\ \A w \in waiting : w.goal \in Goals
    BY DEF TrainingInv
  <1>1. P \subseteq Q /\ R \subseteq S
    BY DEF Review, Restore, PublishCommand, Reverify, Demonstrate, Save, Publish, Rework, History
  <1> HIDE DEF P, Q, R, S
  <1>2. /\ RunOK(Q, S, run) /\ Honest(Q, S, graph) /\ KeptOK(Q, S, versions) /\ ReviewedFlows(Q, S, flows) /\ HandsOK(Q, S, hand)
        /\ Honest(Q, S, hand[h].mem)
    BY <1>0, <1>1, HonestGrows, KeptGrows, FlowsGrow, RunGrows, HandsGrow DEF HandsOK, HandOK
  <1>3. /\ RunOK(Q, S, run') /\ Honest(Q, S, graph') /\ KeptOK(Q, S, versions') /\ ReviewedFlows(Q, S, flows') /\ HandsOK(Q, S, hand')
        /\ \A w \in waiting' : w.goal \in Goals
    <2>1. CASE Review(h)
      <3>1. PICK g \in Goals, state \in {"approved", "rejected", "rework_requested"} :
              /\ graph[g].status # "none"
              /\ Does(h, [pc |-> "save", mem |-> [graph EXCEPT ![g] = Reviewed(graph[g], state)], goal |-> g, rework |-> state = "rework_requested"])
              /\ reviewed' = IF state = "approved" THEN reviewed \cup {[goal |-> g, content |-> Content(graph[g])]} ELSE reviewed
              /\ run' = IF state = "rework_requested" /\ run.on /\ ~run.cli THEN [run EXCEPT !.paused = TRUE] ELSE run
        BY <2>1 DEF Review
      <3>2. Sound(Q, S, g, graph[g])
        BY <1>2, <3>1 DEF Honest, NoJourney
      <3>3. state = "approved" => [goal |-> g, content |-> Content(graph[g])] \in S
        BY <3>1 DEF S
      <3> DEFINE x == Reviewed(graph[g], state)
      <3>4. Sound(Q, S, g, x)
        BY <3>2, <3>3, ReviewedSound
      <3> HIDE DEF x
      <3> DEFINE G == [graph EXCEPT ![g] = x]
      <3>5. Honest(Q, S, G)
        BY <1>2, <3>4, PutHonest
      <3> DEFINE rework == state = "rework_requested"
      <3> DEFINE y == [pc |-> "save", mem |-> G, goal |-> g, rework |-> rework]
      <3>6. Does(h, y)
        BY <3>1 DEF x
      <3> HIDE DEF G, rework
      <3>7. HandOK(Q, S, y)
        BY <3>5 DEF HandOK, HandFields
      <3>8. HandsOK(Q, S, hand')
        BY <1>2, <3>6, <3>7, HandDone
      <3>9. RunOK(Q, S, run')
        BY <1>2, <3>1 DEF RunOK, RunFields, WithCandidate
      <3> QED BY <1>0, <1>2, <2>1, <3>8, <3>9 DEF Review, NotSaved
    <2>2. CASE Restore(h)
      <3>1. PICK G \in Range(versions) : Loaded(h, G, "restore")
        BY <2>2 DEF Restore
      <3>2. Honest(Q, S, G)
        BY <1>2, <3>1 DEF KeptOK
      <3>3. HandsOK(Q, S, hand')
        BY <1>2, <3>1, <3>2, LoadedOK, HandDone DEF Loaded
      <3> QED BY <1>0, <1>2, <2>2, <3>3 DEF Restore, NotSaved, Others
    <2>8. CASE PublishCommand(h)
      <3>1. HandsOK(Q, S, hand')
        BY <1>2, <2>8, LoadedOK, HandDone DEF PublishCommand, Loaded
      <3> QED BY <1>0, <1>2, <2>8, <3>1 DEF PublishCommand, NotSaved, Others
    <2>3. CASE Reverify(h)
      <3>1. PICK ok \in [Goals -> BOOLEAN] :
              /\ Loaded(h, Composed(Pruned([g \in Goals |-> IF graph[g].status = "none" THEN NoJourney ELSE Judged(graph[g], ok[g])])), "restore")
              /\ proven' = proven \cup {[goal |-> g, path |-> graph[g].path] : g \in {k \in Goals : graph[k].status # "none" /\ ok[k]}}
        BY <2>3 DEF Reverify
      <3> DEFINE J == [g \in Goals |-> IF graph[g].status = "none" THEN NoJourney ELSE Judged(graph[g], ok[g])]
      <3>2. ASSUME NEW g \in Goals, graph[g].status # "none"
            PROVE  Sound(Q, S, g, Judged(graph[g], ok[g]))
        <4>1. Sound(Q, S, g, graph[g])
          BY <1>2, <3>2 DEF Honest, NoJourney
        <4>2. ok[g] \in BOOLEAN /\ (ok[g] => [goal |-> g, path |-> graph[g].path] \in Q)
          BY <3>1, <3>2 DEF Q
        <4> QED BY <4>1, <4>2, JudgedSound
      <3>3. Honest(Q, S, J)
        BY <3>2 DEF Honest
      <3>4. Loaded(h, Composed(Pruned(J)), "restore")
        BY <3>1
      <3> HIDE DEF J
      <3>5. HandsOK(Q, S, hand')
        BY <1>2, <3>3, <3>4, PrunedHonest, ComposedHonest, LoadedOK, HandDone DEF Loaded
      <3> QED BY <1>0, <1>2, <2>3, <3>5 DEF Reverify, NotSaved, Others
    <2>4. CASE Demonstrate(h)
      <3>0. PICK g \in Goals : \E p : \E k \in Narrated(Judged(Candidate(p), TRUE)) :
              /\ proven' = proven \cup {[goal |-> g, path |-> p]}
              /\ Loaded(h, Composed([graph EXCEPT ![g] = Prepared(k, graph[g])]), "demonstrated")
        BY <2>4 DEF Demonstrate
      <3>p. PICK p : \E k \in Narrated(Judged(Candidate(p), TRUE)) :
              /\ proven' = proven \cup {[goal |-> g, path |-> p]}
              /\ Loaded(h, Composed([graph EXCEPT ![g] = Prepared(k, graph[g])]), "demonstrated")
        BY <3>0
      <3>1. PICK j \in Narrated(Judged(Candidate(p), TRUE)) :
              /\ proven' = proven \cup {[goal |-> g, path |-> p]}
              /\ Loaded(h, Composed([graph EXCEPT ![g] = Prepared(j, graph[g])]), "demonstrated")
        BY <3>p
      <3>2. Real(j) /\ j.path = p
        BY <3>1, CandidateReal, JudgedReal, NarratedReal
      <3> DEFINE x == Prepared(j, graph[g])
      <3>3. Sound(Q, S, g, x)
        BY <3>1, <3>2, PreparedSound DEF Q
      <3>4. Loaded(h, Composed([graph EXCEPT ![g] = x]), "demonstrated")
        BY <3>1
      <3> HIDE DEF x
      <3> DEFINE G == [graph EXCEPT ![g] = x]
      <3>5. Honest(Q, S, G)
        BY <1>2, <3>3, PutHonest
      <3> HIDE DEF G
      <3>6. HandsOK(Q, S, hand')
        BY <1>2, <3>4, <3>5, ComposedHonest, LoadedOK, HandDone DEF Loaded, G
      <3> QED BY <1>0, <1>2, <2>4, <3>6 DEF Demonstrate, NotSaved, Others
    <2>5. CASE Save(h)
      <3>1. SavedWith(hand[h].mem) /\ HandOK(Q, S, hand[h]) /\ UNCHANGED <<run, waiting, flows>>
        BY <1>2, <2>5 DEF Save, HandsOK, Others
      <3>2. KeptOK(Q, S, versions') /\ Honest(Q, S, graph')
        BY <1>2, <3>1, SavedKept
      <3>3. HandOK(Q, S, [hand[h] EXCEPT !.pc = "publish"]) /\ (hand[h].rework => HandOK(Q, S, [hand[h] EXCEPT !.pc = "rework"]))
        BY <3>1 DEF HandOK, HandFields
      <3>4. HandsOK(Q, S, hand')
        BY <1>2, <2>5, <3>3, IdleOK, HandDone DEF Save
      <3> QED BY <1>0, <1>2, <3>1, <3>2, <3>4
    <2>6. CASE Publish(h)
      <3>1. HandOK(Q, S, hand[h]) /\ UNCHANGED <<run, waiting>> /\ NotSaved
        BY <1>2, <2>6 DEF Publish, HandsOK, Others
      <3>2. ReviewedFlows(Q, S, flows')
        BY <1>2, <2>6, PublishedReviewed DEF Publish
      <3>3. hand[h].rework => HandOK(Q, S, [hand[h] EXCEPT !.pc = "rework"])
        BY <3>1 DEF HandOK, HandFields
      <3>4. HandsOK(Q, S, hand')
        BY <1>2, <2>6, <3>3, IdleOK, HandDone DEF Publish
      <3> QED BY <1>0, <1>2, <3>1, <3>2, <3>4 DEF NotSaved
    <2>7. CASE Rework(h)
      <3>1. HandOK(Q, S, hand[h]) /\ hand[h].goal \in Goals
        BY <1>2, <2>7 DEF Rework, HandsOK, HandOK
      <3>2. HandsOK(Q, S, hand')
        BY <1>2, <2>7, IdleOK, HandDone DEF Rework
      <3>3. RunOK(Q, S, run')
        BY <1>2, <2>7 DEF Rework, RunOK, RunFields, WithCandidate
      <3>4. \A w \in waiting' : w.goal \in Goals
        BY <1>0, <2>7, <3>1 DEF Rework
      <3> QED BY <1>2, <2>7, <3>2, <3>3, <3>4 DEF Rework, NotSaved
    <2> QED BY <2>1, <2>2, <2>3, <2>4, <2>5, <2>6, <2>7, <2>8
  <1> QED BY <1>3 DEF TrainingInv, Q, S

-----------------------------------------------------------------------------

\* The empty site.
LEMMA TrainingInvInit == TrainingInit => TrainingInv
  <1> SUFFICES ASSUME TrainingInit PROVE TrainingInv
    OBVIOUS
  <1>1. Honest(proven, reviewed, graph)
    BY EmptyHonest DEF TrainingInit
  <1>2. KeptOK(proven, reviewed, versions)
    BY DEF TrainingInit, KeptOK, Range
  <1>3. ReviewedFlows(proven, reviewed, flows)
    BY DEF TrainingInit, ReviewedFlows
  <1>4. RunOK(proven, reviewed, run)
    BY EmptyHonest DEF TrainingInit, RunOK, NoRun, RunFields, WithCandidate
  <1>5. HandsOK(proven, reviewed, hand) /\ \A w \in waiting : w.goal \in Goals
    BY IdleOK DEF TrainingInit, HandsOK
  <1> QED BY <1>1, <1>2, <1>3, <1>4, <1>5 DEF TrainingInv

\* Every step keeps it.
LEMMA TrainingInvNext == TrainingInv /\ [TrainingNext]_trainingVars => TrainingInv'
  <1> SUFFICES ASSUME TrainingInv, [TrainingNext]_trainingVars PROVE TrainingInv'
    OBVIOUS
  <1>1. CASE UNCHANGED trainingVars
    BY <1>1 DEF trainingVars, TrainingInv
  <1> QED BY <1>1, QuietRunStep, ReplayStep, SavingStep, HandStep DEF TrainingNext

\* Whatever copies of one graph file two runs, reviewers and reworks hold and
\* write back whole (explorer.ts persistGraph, onboarding.ts, journey-review.ts),
\* each claims only what a replay or a person said.
THEOREM TrainingInvariance == TrainingSpec => []TrainingInv
  BY TrainingInvInit, TrainingInvNext, PTL DEF TrainingSpec

\* Every flow the product publishes was approved by a person with that very
\* content, and its path was replayed (publish.ts, journey-review.ts), for any
\* number of goals, paths, runs, hands and kept versions.
THEOREM OnlyReviewedGoesLive == TrainingSpec => []LiveIsReviewed
  <1>1. TrainingInv => LiveIsReviewed
    BY DEF TrainingInv, ReviewedFlows, LiveIsReviewed
  <1> QED BY <1>1, TrainingInvariance, PTL

-----------------------------------------------------------------------------
(***************************************************************************)
(* The driver on the page.  It looks three times: at the start, once the   *)
(* control is resolved, and once it has the focus.  The page may change in *)
(* between; the invariant says that a change the driver has not taken into *)
(* account is on its way to it as a newer version.                         *)
(***************************************************************************)
(* What the observer w holds.                                              *)
WatchOK(w) ==
  /\ w = [version |-> w.version, last |-> w.last, queue |-> w.queue, read |-> w.read]
  /\ w.version \in Nat /\ w.last \in DOMAIN Pages \cup {None} /\ w.read \in DOMAIN Pages \cup {None}
(* A page that is settled is the one read last.                            *)
ReadIsShown(g, rests, w) ==
  g.of \in DOMAIN Pages /\ rests \in BOOLEAN /\ (rests /\ w.read # None => g.of = w.read)

(* Since x was seen the observer has gone on, and has counted a page that  *)
(* does not look like it.                                                  *)
Followed(w, x) ==
  /\ x.page \in DOMAIN Pages /\ x.version \in Nat /\ w.last # None
  /\ x.version <= w.version
  /\ x.version = w.version => Fingerprint(w.last) = Fingerprint(x.page)
(* The next look will find that the page is not the one seen.              *)
Noticed(g, rests, w, x) ==
  \/ x.version < w.version
  \/ w.read # None /\ Fingerprint(w.read) # Fingerprint(w.last)
  \/ ~rests /\ w.read = None /\ Fingerprint(g.of) # Fingerprint(x.page)

(* The node is that of the only best match of the action's control on p.   *)
Fits(a, node, p) ==
  \E e \in Shown(p) : e.slot = node[1] /\ Best(a.control, p, Options(a.kind)) = {e}
MayBeTouched(t, read, node) ==
  \E e \in Shown(read) : e.slot = node[1] /\ ~e.private /\ ~e.own /\ (t # "scroll" => e.visible)

StepOK(s, g, rests, w) ==
  /\ "pc" \in DOMAIN s
  /\ s.pc = "deciding" => s.act \in Actions
  /\ s.pc \in {"decided", "looking"} =>
       s = [pc |-> s.pc, act |-> s.act, expected |-> s.expected] /\ s.act \in Actions /\ Followed(w, s.expected)
  /\ s.pc \in {"resolved", "focused"} =>
       /\ s = [pc |-> s.pc, act |-> s.act, expected |-> s.expected, node |-> s.node]
       /\ s.act \in Actions /\ s.act.kind \in Touching /\ Followed(w, s.expected)
       /\ \/ Fits(s.act, s.node, s.expected.page)
          \/ s.pc = "resolved" /\ Noticed(g, rests, w, s.expected)
  /\ s.pc = "commanded" => s.act.tool = "click" /\ MayBeTouched("click", s.read, s.node)

PageInv ==
  /\ WatchOK(watch) /\ ReadIsShown(page, settled, watch) /\ StepOK(step, page, settled, watch)
  /\ ActsOnWhatWasSeen

-----------------------------------------------------------------------------
(* Matches. *)
(* A best match is one of the page's elements, and fit for the action.     *)
LEMMA BestIsUsable ==
  ASSUME NEW c, NEW p, NEW opts, NEW e \in Best(c, p, opts)
  PROVE  e \in Shown(p) /\ Usable(e, opts)
BY Zenon DEF Best, Top

(* A page shows finitely many elements.                                    *)
LEMMA PagesFinite ==
  ASSUME NEW p \in DOMAIN Pages
  PROVE  IsFiniteSet(Shown(p))
<1> DEFINE els == Pages[p].els
<1>1. els \in Seq(Range(els))
  BY PagesAssumption
<1>2. IsFiniteSet(1..Len(els))
  BY <1>1, FS_Interval
<1>3. DOMAIN els = 1..Len(els) /\ els \in [1..Len(els) -> Range(els)]
  BY <1>1
<1>4. \A y \in Range(els) : \E x \in 1..Len(els) : els[x] = y
  BY <1>3 DEF Range
<1>5. els \in Surjection(1..Len(els), Range(els))
  BY <1>3, <1>4 DEF Surjection
<1>6. QED
  BY <1>2, <1>5, FS_Surjection DEF Shown

(* What a control resolves to is its only best match.                      *)
LEMMA ResolvedAlone ==
  ASSUME NEW c, NEW p \in DOMAIN Pages, NEW opts, NEW e \in Resolves(c, p, opts)
  PROVE  Best(c, p, opts) = {e} /\ e \in Shown(p)
<1>1. e \in Best(c, p, opts) /\ Cardinality(Best(c, p, opts)) = 1
  BY DEF Resolves
<1>2. Best(c, p, opts) \in SUBSET Shown(p)
  BY BestIsUsable
<1>3. IsFiniteSet(Best(c, p, opts))
  BY <1>2, PagesFinite, FS_Subset
<1>4. QED
  BY <1>1, <1>2, <1>3, FS_Singleton

(* The only best match is shown, enabled, public and the product's own.    *)
LEMMA FitsIsUsable ==
  ASSUME NEW a, NEW node, NEW p, Fits(a, node, p), a.kind \in Touching
  PROVE  \E e \in Shown(p) :
           /\ e.slot = node[1] /\ ~e.private /\ ~e.own /\ e.visible /\ (a.kind # "hover" => e.enabled)
           /\ Best(a.control, p, Options(a.kind)) = {e}
<1>1. PICK e \in Shown(p) : e.slot = node[1] /\ Best(a.control, p, Options(a.kind)) = {e}
  BY DEF Fits
<1>2. Usable(e, Options(a.kind))
  BY <1>1, BestIsUsable
<1>3. Options(a.kind).visible = TRUE /\ Options(a.kind).enabled = (a.kind # "hover")
  BY DEF Options, Touching
<1>4. ~e.private /\ ~e.own /\ e.visible /\ (a.kind # "hover" => e.enabled)
  BY <1>2, <1>3 DEF Usable, Able
<1>5. QED
  BY <1>1, <1>4

(* Pages that look alike fit alike.                                        *)
LEMMA FitsAlike ==
  ASSUME TellsApart, NEW a \in Actions, a.kind \in Touching, NEW node, NEW p \in DOMAIN Pages, NEW q \in DOMAIN Pages,
         Fingerprint(p) = Fingerprint(q), Fits(a, node, p)
  PROVE  Fits(a, node, q)
<1>1. PICK e \in Shown(p) : e.slot = node[1] /\ Best(a.control, p, Options(a.kind)) = {e}
  BY DEF Fits
<1>2. Best(a.control, q, Options(a.kind)) = {e}
  BY <1>1 DEF TellsApart
<1>3. e \in Shown(q)
  BY <1>2, BestIsUsable
<1>4. QED
  BY <1>1, <1>2, <1>3 DEF Fits

(* A set of naturals has a least element.                                  *)
LEMMA Least ==
  ASSUME NEW S \in SUBSET Nat, S # {}
  PROVE  \E x \in S : \A y \in S : x <= y
<1>1. IsWellFoundedOn(OpToRel(<, Nat), Nat)
  BY NatLessThanWellFounded
<1>2. PICK x \in S : \A y \in S : <<y, x>> \notin OpToRel(<, Nat)
  BY <1>1, WFMin
<1>3. ASSUME NEW y \in S PROVE ~(y < x)
  <2>1. <<y, x>> \notin OpToRel(<, Nat)
    BY <1>2
  <2>2. <<y, x>> \in Nat \X Nat
    OBVIOUS
  <2>3. QED
    BY <2>1, <2>2 DEF OpToRel
<1>4. QED
  BY <1>3

(* A description leads to an element of the page that is fit to be touched.*)
LEMMA DescribedOnce ==
  ASSUME NEW t, NEW p \in DOMAIN Pages, NEW opts, NEW e \in Described(t, p, opts)
  PROVE  e \in Shown(p) /\ ~e.private /\ ~e.own /\ (opts.visible => e.visible)
<1> DEFINE s == Signals(t, p, opts)
           at == {i \in DOMAIN s : s[i] # {}}
<1>1. \A i \in DOMAIN s : \A d \in s[i] : d \in Shown(p) /\ ~d.private /\ ~d.own /\ (opts.visible => d.visible)
  <2>1. \A i \in 1..7 : s[i] \subseteq {d \in Shown(p) : Usable(d, opts)} \/ s[i] \subseteq {d \in Shown(p) : ~d.private /\ ~d.own /\ d.visible}
    <3> DEFINE usable == {d \in Shown(p) : Usable(d, opts)}
               active == {d \in usable : d.interactive}
               shown == {d \in Shown(p) : ~d.private /\ ~d.own /\ d.visible}
               s1 == {d \in usable : t.testId # None /\ d.test_id = t.testId}
               s2 == {d \in usable : t.name # None /\ d.aria = t.name}
               s3 == {d \in active : t.name # None /\ t.role = d.role /\ d.look = t.name}
               s4 == {d \in active : t.name # None /\ d.look = t.name}
               s5 == {d \in active : t.name # None /\ d.text = t.name}
               s6 == {d \in shown : t.name # None /\ d.text = t.name}
               s7 == {d \in active : t.elementId # None /\ Cardinality(active) = 1}
    <3>1. s = <<s1, s2, s3, s4, s5, s6, s7>>
      BY Zenon DEF Signals
    <3>2. /\ s1 \subseteq usable /\ s2 \subseteq usable /\ s3 \subseteq usable /\ s4 \subseteq usable /\ s5 \subseteq usable
          /\ s6 \subseteq shown /\ s7 \subseteq usable
      OBVIOUS
    <3> HIDE DEF s, s1, s2, s3, s4, s5, s6, s7, usable, shown
    <3>3. \A i \in 1..7 : s[i] \subseteq usable \/ s[i] \subseteq shown
      BY <3>1, <3>2
    <3>4. QED
      BY <3>3 DEF usable, shown
  <2>2. DOMAIN s = 1..7
    BY DEF Signals
  <2> HIDE DEF s
  <2>3. QED
    BY <2>1, <2>2 DEF Usable, Able
<1>2. DOMAIN s = 1..7
  BY DEF Signals
<1> HIDE DEF s
<1>3. at # {} /\ e \in First(s[Min(at)])
  BY DEF Described, s
<1>4. Min(at) \in at
  <2>1. at \in SUBSET Nat
    BY <1>2
  <2>2. \E x \in at : \A y \in at : x <= y
    BY <1>3, <2>1, Least
  <2> HIDE DEF at
  <2>3. QED
    BY <2>2 DEF Min
<1> DEFINE es == s[Min(at)]
<1>5. es # {} /\ \A d \in es : d \in Shown(p) /\ ~d.private /\ ~d.own /\ (opts.visible => d.visible)
  BY <1>1, <1>4
<1> HIDE DEF es
<1>6. \E x \in es : \A d \in es : x.slot <= d.slot
  <2> DEFINE places == {d.slot : d \in es}
  <2>1. places \in SUBSET Nat /\ places # {}
    BY <1>5, PagesAssumption DEF Shown
  <2>2. PICK x \in places : \A y \in places : x <= y
    BY <2>1, Least
  <2>3. QED
    BY <2>2
<1>7. e \in es
  BY <1>3, <1>5, <1>6 DEF First, es
<1>8. QED
  BY <1>5, <1>7
-----------------------------------------------------------------------------
(* Looking. *)
(* An observation that is back becomes the last one; a page that looks     *)
(* different is a newer version.                                           *)
LEMMA Observing ==
  ASSUME WatchOK(watch), watch.read # None
  PROVE  /\ WatchOK(Observed) /\ Observed.last = watch.read /\ Observed.read = None
         /\ watch.version <= Observed.version
         /\ (watch.last = None \/ Fingerprint(watch.read) # Fingerprint(watch.last) => watch.version < Observed.version)
<1> DEFINE v == IF watch.last = None \/ Fingerprint(watch.read) # Fingerprint(watch.last) THEN watch.version + 1 ELSE watch.version
<1>a. Observed = [watch EXCEPT !.version = v, !.last = watch.read, !.read = None, !.queue = Tail(watch.queue)]
  BY DEF Observed
<1>2. v \in Nat /\ watch.version <= v /\ (watch.last = None \/ Fingerprint(watch.read) # Fingerprint(watch.last) => watch.version < v)
  BY DEF WatchOK
<1> HIDE DEF v
<1>1. Observed = [version |-> v, last |-> watch.read, queue |-> Tail(watch.queue), read |-> None]
  BY <1>a DEF WatchOK
<1>3. QED
  BY <1>1, <1>2 DEF WatchOK

(* Joining the queue changes nothing else of the observer.                 *)
LEMMA Queued ==
  ASSUME NEW w, WatchOK(w), NEW m
  PROVE  LET v == [w EXCEPT !.queue = Append(@, m)] IN WatchOK(v) /\ v.version = w.version /\ v.last = w.last /\ v.read = w.read
BY DEF WatchOK

(* What has been followed and noticed does not depend on the queue.        *)
LEMMA FollowedAlike ==
  ASSUME NEW w, NEW v, v.version = w.version, v.last = w.last, v.read = w.read, NEW x, NEW g, NEW rests
  PROVE  /\ Followed(w, x) => Followed(v, x)
         /\ Noticed(g, rests, w, x) => Noticed(g, rests, v, x)
BY DEF Followed, Noticed
(* Nor does what the driver knows.                                         *)
LEMMA StepAlike ==
  ASSUME NEW w, NEW v, v.version = w.version, v.last = w.last, v.read = w.read, NEW s, NEW g, NEW rests, StepOK(s, g, rests, w)
  PROVE  StepOK(s, g, rests, v)
BY FollowedAlike DEF StepOK

(* What was seen is still followed, and a change that was on its way is now*)
(* a newer version.                                                        *)
LEMMA FollowedOn ==
  ASSUME WatchOK(watch), watch.read # None, NEW x, Followed(watch, x)
  PROVE  Followed(Observed, x) /\ (Noticed(page, settled, watch, x) => x.version < Observed.version)
<1>1. x.version \in Nat /\ watch.version \in Nat /\ Observed.version \in Nat
  BY Observing DEF Followed, WatchOK
<1>2. CASE x.version = Observed.version
  BY <1>1, <1>2, Observing DEF Followed, Noticed, WatchOK
<1>3. CASE x.version # Observed.version
  BY <1>1, <1>3, Observing DEF Followed, Noticed, WatchOK
<1>4. QED
  BY <1>2, <1>3

(* Once a newer version is known, it stays known.                          *)
LEMMA StepFollows ==
  ASSUME WatchOK(watch), watch.read # None, NEW s, StepOK(s, page, settled, watch), NEW g, NEW rests
  PROVE  StepOK(s, g, rests, Observed)
<1>1. CASE s.pc \in {"resolved", "focused"}
  <2>1. Followed(watch, s.expected) /\ (Fits(s.act, s.node, s.expected.page) \/ (s.pc = "resolved" /\ Noticed(page, settled, watch, s.expected)))
    BY <1>1 DEF StepOK
  <2>2. Followed(Observed, s.expected) /\ (Fits(s.act, s.node, s.expected.page) \/ (s.pc = "resolved" /\ Noticed(g, rests, Observed, s.expected)))
    BY <2>1, FollowedOn DEF Noticed
  <2>3. QED
    BY <1>1, <2>2 DEF StepOK
<1>2. CASE s.pc \in {"decided", "looking"}
  BY <1>2, FollowedOn DEF StepOK
<1>3. CASE s.pc \notin {"resolved", "focused", "decided", "looking"}
  BY <1>3 DEF StepOK
<1>4. QED
  BY <1>1, <1>2, <1>3

(* A driver at rest claims nothing.                                        *)
LEMMA Resting == ASSUME NEW g, NEW rests, NEW w PROVE StepOK(Rest, g, rests, w)
BY DEF StepOK, Rest

-----------------------------------------------------------------------------
(* The page. *)
(* However the product reacts, what is shown is one of its pages.          *)
LEMMA Reacting ==
  ASSUME NEW w, ReadIsShown(page, settled, w), Reacts
  PROVE  ReadIsShown(page', settled', w)
<1>1. CASE UNCHANGED <<page, settled>>
  BY <1>1 DEF ReadIsShown
<1>2. CASE \E p \in DOMAIN Pages, fresh \in BOOLEAN : Becomes(p, fresh)
  <2>1. PICK p \in DOMAIN Pages, fresh \in BOOLEAN : Becomes(p, fresh)
    BY <1>2
  <2>2. settled' = FALSE /\ page'.of = p
    BY <2>1 DEF Becomes
  <2>3. QED
    BY <2>2 DEF ReadIsShown
<1>3. QED
  BY <1>1, <1>2 DEF Reacts

(* The product changes: what was noticed of the last page is noticed of the*)
(* next.                                                                   *)
LEMMA ChangesKeeps == ASSUME PageInv, Changes PROVE PageInv'
<1>1. settled = TRUE /\ settled' = FALSE /\ page'.of \in DOMAIN Pages /\ watch' = watch /\ step' = step /\ acted' = acted
  BY DEF Changes, Becomes, PageInv, ReadIsShown
<1>2. WatchOK(watch') /\ ReadIsShown(page', settled', watch')
  BY <1>1 DEF PageInv, ReadIsShown
<1>3. StepOK(step', page', settled', watch')
  <2>1. StepOK(step, page, TRUE, watch)
    BY <1>1 DEF PageInv
  <2>2. \A x : Noticed(page, TRUE, watch, x) => Noticed(page', FALSE, watch, x)
    BY DEF Noticed
  <2>3. StepOK(step, page', FALSE, watch)
    BY <2>1, <2>2 DEF StepOK
  <2>4. QED
    BY <1>1, <2>3
<1>4. ActsOnWhatWasSeen'
  BY <1>1 DEF PageInv, ActsOnWhatWasSeen
<1>5. QED
  BY <1>2, <1>3, <1>4 DEF PageInv

(* An observation joins the queue.                                         *)
LEMMA ScheduledKeeps == ASSUME PageInv, Scheduled PROVE PageInv'
<1>1. watch' = [watch EXCEPT !.queue = Append(@, "schedule")] /\ page' = page /\ settled' = settled /\ step' = step /\ acted' = acted
  BY DEF Scheduled, Enqueues
<1>2. WatchOK(watch') /\ watch'.version = watch.version /\ watch'.last = watch.last /\ watch'.read = watch.read
  BY <1>1, Queued DEF PageInv
<1>3. ReadIsShown(page', settled', watch')
  BY <1>1, <1>2 DEF PageInv, ReadIsShown
<1>4. StepOK(step', page', settled', watch')
  <2>1. StepOK(step, page, settled, watch)
    BY DEF PageInv
  <2>2. StepOK(step, page, settled, watch')
    BY <1>2, <2>1, StepAlike
  <2>3. QED
    BY <1>1, <2>2
<1>5. ActsOnWhatWasSeen'
  BY <1>1 DEF PageInv, ActsOnWhatWasSeen
<1>6. QED
  BY <1>2, <1>3, <1>4, <1>5 DEF PageInv

(* An observation reads the page: an unlike page is now in the reading.    *)
LEMMA ReadsKeeps == ASSUME PageInv, Reads PROVE PageInv'
<1>1. watch.read = None /\ watch' = [watch EXCEPT !.read = page.of] /\ settled' = TRUE /\ page' = page /\ step' = step /\ acted' = acted
  BY DEF Reads
<1>2. /\ WatchOK(watch') /\ ReadIsShown(page', settled', watch')
      /\ watch'.version = watch.version /\ watch'.last = watch.last /\ watch'.read = page.of /\ page.of # None
  BY <1>1, PagesAssumption DEF PageInv, WatchOK, ReadIsShown
<1>3. \A x : Followed(watch, x) => Followed(watch', x)
  BY <1>2 DEF Followed
<1>4. ASSUME NEW x, Followed(watch, x), Noticed(page, settled, watch, x)
      PROVE  Noticed(page', settled', watch', x)
  <2>1. x.version \in Nat /\ watch.version \in Nat
    BY <1>4 DEF Followed, PageInv, WatchOK
  <2>2. QED
    BY <1>1, <1>2, <1>4, <2>1 DEF Followed, Noticed
<1>5. StepOK(step', page', settled', watch')
  BY <1>1, <1>3, <1>4 DEF PageInv, StepOK
<1>6. ActsOnWhatWasSeen'
  BY <1>1 DEF PageInv, ActsOnWhatWasSeen
<1>7. QED
  BY <1>2, <1>5, <1>6 DEF PageInv

(* A scheduled observation is back.                                        *)
LEMMA NoticedKeeps == ASSUME PageInv, NoticedBySchedule PROVE PageInv'
<1>1. watch.read # None /\ watch' = Observed /\ page' = page /\ settled' = settled /\ step' = step /\ acted' = acted
  BY DEF NoticedBySchedule, Returned
<1>2. WatchOK(watch') /\ ReadIsShown(page', settled', watch')
  BY <1>1, Observing DEF PageInv, ReadIsShown
<1>3. StepOK(step', page', settled', watch')
  BY <1>1, StepFollows DEF PageInv
<1>4. ActsOnWhatWasSeen'
  BY <1>1 DEF PageInv, ActsOnWhatWasSeen
<1>5. QED
  BY <1>2, <1>3, <1>4 DEF PageInv
(* Without a reading, or with the same, the page shown is as it was.       *)
LEMMA Unheard ==
  ASSUME NEW g, NEW rests, NEW w, NEW v, ReadIsShown(g, rests, w), v.read = None \/ v.read = w.read
  PROVE  ReadIsShown(g, rests, v)
BY DEF ReadIsShown

-----------------------------------------------------------------------------
(* The driver. *)
(* A step is to be decided.                                                *)
LEMMA DecideKeeps == ASSUME PageInv, NEW a \in Actions, Decide(a) PROVE PageInv'
<1>1. /\ watch' = [watch EXCEPT !.queue = Append(@, "driver")] /\ step' = [pc |-> "deciding", act |-> a]
      /\ page' = page /\ settled' = settled /\ acted' = acted
  BY DEF Decide, Enqueues
<1>2. WatchOK(watch') /\ watch'.read = watch.read
  BY <1>1, Queued DEF PageInv
<1>3. ReadIsShown(page', settled', watch')
  BY <1>1, <1>2, Unheard DEF PageInv
<1>4. StepOK(step', page', settled', watch')
  BY <1>1 DEF StepOK
<1>5. ActsOnWhatWasSeen'
  BY <1>1 DEF PageInv, ActsOnWhatWasSeen
<1>6. QED
  BY <1>2, <1>3, <1>4, <1>5 DEF PageInv

(* The step is decided on the observation that is back.                    *)
LEMMA DecidedKeeps == ASSUME PageInv, Decided PROVE PageInv'
<1>1. /\ watch.read # None /\ watch' = Observed /\ step.pc = "deciding"
      /\ step' = [pc |-> "decided", act |-> step.act, expected |-> Seen]
      /\ page' = page /\ settled' = settled /\ acted' = acted
  BY DEF Decided, Returned
<1>2. WatchOK(watch') /\ watch'.last = watch.read /\ watch'.read = None
  BY <1>1, Observing DEF PageInv
<1>3. ReadIsShown(page', settled', watch')
  BY <1>1, <1>2, Unheard DEF PageInv
<1>4. Followed(watch', Seen)
  <2>1. Seen = [version |-> watch'.version, page |-> watch.read] /\ watch.read \in DOMAIN Pages
    BY <1>1 DEF Seen, PageInv, WatchOK
  <2>2. QED
    BY <1>1, <1>2, <2>1 DEF Followed, WatchOK
<1>5. step.act \in Actions
  BY <1>1 DEF PageInv, StepOK
<1>6. StepOK(step', page', settled', watch')
  BY <1>1, <1>4, <1>5 DEF StepOK
<1>7. ActsOnWhatWasSeen'
  BY <1>1 DEF PageInv, ActsOnWhatWasSeen
<1>8. QED
  BY <1>2, <1>3, <1>6, <1>7 DEF PageInv

(* The step begins, or is aborted.                                         *)
LEMMA PerformKeeps == ASSUME PageInv, Perform PROVE PageInv'
<1>1. step.pc = "decided" /\ page' = page /\ settled' = settled /\ acted' = acted
  BY DEF Perform
<1>2. ActsOnWhatWasSeen'
  BY <1>1 DEF PageInv, ActsOnWhatWasSeen
<1>3. CASE step' = [step EXCEPT !.pc = "looking"] /\ Enqueues("driver")
  <2>1. WatchOK(watch') /\ watch'.version = watch.version /\ watch'.last = watch.last /\ watch'.read = watch.read
    BY <1>3, Queued DEF PageInv, Enqueues
  <2>2. ReadIsShown(page', settled', watch')
    BY <1>1, <2>1, Unheard DEF PageInv
  <2>3. /\ step = [pc |-> "decided", act |-> step.act, expected |-> step.expected] /\ step.act \in Actions
        /\ Followed(watch, step.expected)
    BY <1>1 DEF PageInv, StepOK
  <2>4. Followed(watch', step.expected)
    BY <2>1, <2>3, FollowedAlike
  <2>5. step' = [pc |-> "looking", act |-> step.act, expected |-> step.expected]
    BY <1>3, <2>3
  <2>6. StepOK(step', page', settled', watch')
    BY <2>3, <2>4, <2>5 DEF StepOK
  <2>7. QED
    BY <1>2, <2>1, <2>2, <2>6 DEF PageInv
<1>4. CASE Fails /\ UNCHANGED watch
  BY <1>1, <1>2, <1>4, Resting DEF PageInv, Fails
<1>5. QED
  BY <1>3, <1>4 DEF Perform

(* The parts of what is seen.                                              *)
LEMMA SeenIs == ASSUME WatchOK(watch), watch.read # None PROVE Seen.version = Observed.version /\ Seen.page = watch.read /\ watch.read \in DOMAIN Pages
BY DEF Seen, WatchOK

(* The driver looks: the control it resolves fits the page shown, which    *)
(* looks as when the step was decided or will be noticed.                  *)
LEMMA LookedKeeps == ASSUME TellsApart, PageInv, Looked PROVE PageInv'
<1> DEFINE a == step.act
           same == Same(Seen, step.expected)
<1>1. /\ watch.read # None /\ step.pc = "looking"
      /\ step = [pc |-> "looking", act |-> step.act, expected |-> step.expected] /\ step.act \in Actions
      /\ Followed(watch, step.expected)
  BY DEF Looked, Returned, PageInv, StepOK
<1>2. /\ WatchOK(Observed) /\ Observed.read = None
      /\ Followed(Observed, step.expected) /\ ReadIsShown(page, settled, Observed)
  BY <1>1, Observing, FollowedOn, Unheard DEF PageInv
<1>3. CASE /\ a.kind = "wait" \/ (same /\ a.kind \in {"navigate", "tool_call"})
           /\ watch' = Observed
           /\ step' = [step EXCEPT !.pc = a.kind]
           /\ UNCHANGED <<page, settled, acted>>
  <2>1. a.kind \in {"wait", "navigate", "tool_call"} /\ step' = [pc |-> a.kind, act |-> step.act, expected |-> step.expected]
    BY <1>1, <1>3
  <2>2. StepOK(step', page', settled', watch')
    BY <2>1 DEF StepOK
  <2>3. ActsOnWhatWasSeen'
    BY <1>3 DEF PageInv, ActsOnWhatWasSeen
  <2>4. QED
    BY <1>2, <1>3, <2>2, <2>3 DEF PageInv
<1>4. CASE /\ a.kind = "scroll" /\ same /\ OnScreen(a, Seen.page)
           /\ watch' = Observed
           /\ \E e \in Resolves(a.control, page.of, Options("scroll")) : acted' = [Effect("scroll", Node(e, page.nodes)) EXCEPT !.read = page.of, !.expected = step.expected.page]
           /\ Fails /\ Reacts
  <2>1. acted'.by = "scroll"
    BY <1>4 DEF Effect
  <2>2. ActsOnWhatWasSeen'
    BY <2>1 DEF ActsOnWhatWasSeen
  <2>3. ReadIsShown(page', settled', watch')
    BY <1>2, <1>4, Reacting
  <2>4. StepOK(step', page', settled', watch')
    BY <1>4, Resting DEF Fails
  <2>5. QED
    BY <1>2, <1>4, <2>2, <2>3, <2>4 DEF PageInv
<1>5. CASE /\ a.kind \in Touching /\ same /\ OnScreen(a, Seen.page)
           /\ \E e \in Resolves(a.control, page.of, Options(a.kind)) :
                step' = [pc |-> "resolved", act |-> a, expected |-> step.expected, node |-> Node(e, page.nodes)]
           /\ watch' = [Observed EXCEPT !.queue = Append(@, "driver")]
           /\ UNCHANGED <<page, settled, acted>>
  <2>1. PICK e \in Resolves(a.control, page.of, Options(a.kind)) :
          step' = [pc |-> "resolved", act |-> a, expected |-> step.expected, node |-> Node(e, page.nodes)]
    BY <1>5
  <2>2. page.of \in DOMAIN Pages /\ settled \in BOOLEAN
    BY DEF PageInv, ReadIsShown
  <2>3. Fits(a, Node(e, page.nodes), page.of)
    BY <2>1, <2>2, ResolvedAlone DEF Fits, Node
  <2>4. Fingerprint(watch.read) = Fingerprint(step.expected.page) /\ step.expected.page \in DOMAIN Pages
    BY <1>1, <1>5, SeenIs DEF Same, PageInv, Followed
  <2>5. /\ WatchOK(watch') /\ watch'.version = Observed.version /\ watch'.last = Observed.last /\ watch'.read = None
    BY <1>2, <1>5, Queued
  <2>6. Followed(watch', step.expected)
    BY <1>2, <2>5, FollowedAlike
  <2>7. \/ Fits(a, Node(e, page.nodes), step.expected.page)
        \/ Noticed(page', settled', watch', step.expected)
    <3>1. CASE Fingerprint(page.of) = Fingerprint(step.expected.page)
      BY <1>1, <1>5, <2>2, <2>3, <2>4, <3>1, FitsAlike
    <3>2. CASE Fingerprint(page.of) # Fingerprint(step.expected.page)
      <4>1. ~settled
        BY <1>1, <2>4, <3>2 DEF PageInv, ReadIsShown
      <4>2. QED
        BY <1>5, <2>5, <3>2, <4>1 DEF Noticed
    <3>3. QED
      BY <3>1, <3>2
  <2>8. StepOK(step', page', settled', watch')
    BY <1>1, <1>5, <2>1, <2>6, <2>7 DEF StepOK
  <2>9. ReadIsShown(page', settled', watch')
    BY <1>2, <1>5, <2>5, Unheard
  <2>10. ActsOnWhatWasSeen'
    BY <1>5 DEF PageInv, ActsOnWhatWasSeen
  <2>11. QED
    BY <2>5, <2>8, <2>9, <2>10 DEF PageInv
<1>6. CASE watch' = Observed /\ Fails /\ UNCHANGED <<page, settled, acted>>
  <2>1. ActsOnWhatWasSeen'
    BY <1>6 DEF PageInv, ActsOnWhatWasSeen
  <2>2. QED
    BY <1>2, <1>6, <2>1, Resting DEF PageInv, Fails
<1>7. QED
  BY Zenon, <1>3, <1>4, <1>5, <1>6 DEF Looked

(* The control has the focus: nothing had changed when the driver looked   *)
(* again.                                                                  *)
LEMMA FocusesKeeps == ASSUME PageInv, Focuses PROVE PageInv'
<1>1. /\ watch.read # None /\ step.pc = "resolved" /\ acted' = acted
      /\ step = [pc |-> "resolved", act |-> step.act, expected |-> step.expected, node |-> step.node]
      /\ step.act \in Actions /\ step.act.kind \in Touching /\ Followed(watch, step.expected)
      /\ Fits(step.act, step.node, step.expected.page) \/ Noticed(page, settled, watch, step.expected)
  BY DEF Focuses, Returned, PageInv, StepOK
<1>2. /\ WatchOK(Observed) /\ Observed.read = None
      /\ Followed(Observed, step.expected) /\ ReadIsShown(page, settled, Observed)
      /\ Noticed(page, settled, watch, step.expected) => step.expected.version < Observed.version
  BY <1>1, Observing, FollowedOn, Unheard DEF PageInv
<1>3. ActsOnWhatWasSeen'
  BY <1>1 DEF PageInv, ActsOnWhatWasSeen
<1>4. CASE Same(Seen, step.expected) /\ Connected(step.node)
  <2>1. watch' = [Observed EXCEPT !.queue = Append(@, "driver")] /\ step' = [step EXCEPT !.pc = "focused"] /\ Reacts
    BY <1>4 DEF Focuses
  <2>2. /\ WatchOK(watch') /\ watch'.version = Observed.version /\ watch'.last = Observed.last /\ watch'.read = None
    BY <1>2, <2>1, Queued
  <2>3. ReadIsShown(page', settled', watch')
    BY <1>2, <2>1, <2>2, Unheard, Reacting
  <2>4. Fits(step.act, step.node, step.expected.page)
    <3>1. Observed.version = step.expected.version /\ Observed.version \in Nat
      BY <1>1, <1>2, <1>4, SeenIs DEF Same, PageInv, WatchOK
    <3>2. QED
      BY <1>1, <1>2, <3>1
  <2>5. step' = [pc |-> "focused", act |-> step.act, expected |-> step.expected, node |-> step.node]
    BY <1>1, <2>1
  <2>6. Followed(watch', step.expected)
    BY <1>2, <2>2, FollowedAlike
  <2>7. StepOK(step', page', settled', watch')
    BY <1>1, <2>4, <2>5, <2>6 DEF StepOK
  <2>8. QED
    BY <1>3, <2>2, <2>3, <2>7 DEF PageInv
<1>5. CASE ~(Same(Seen, step.expected) /\ Connected(step.node))
  <2>1. watch' = Observed /\ Fails /\ UNCHANGED <<page, settled>>
    BY <1>5 DEF Focuses
  <2>2. QED
    BY <1>2, <1>3, <2>1, Resting DEF PageInv, Fails
<1>6. QED
  BY <1>4, <1>5

(* The driver acts: the page read last looks as when the step was decided, *)
(* so the control still fits it.                                           *)
LEMMA ActsKeeps == ASSUME TellsApart, PageInv, Acts PROVE PageInv'
<1>1. /\ watch.read # None /\ watch' = Observed /\ Fails
      /\ step.pc = "focused" /\ step.act \in Actions /\ step.act.kind \in Touching /\ Followed(watch, step.expected)
      /\ Fits(step.act, step.node, step.expected.page)
  BY DEF Acts, Returned, PageInv, StepOK
<1>2. WatchOK(Observed) /\ Observed.read = None /\ ReadIsShown(page, settled, Observed)
  BY <1>1, Observing, Unheard DEF PageInv
<1>3. StepOK(step', page', settled', watch')
  BY <1>1, Resting DEF Fails
<1>4. CASE MayAct(Seen)
  <2>1. /\ acted' = [Effect("driver", step.node) EXCEPT !.read = Seen.page, !.expected = step.expected.page] /\ Reacts
    BY <1>4 DEF Acts
  <2>2. /\ Seen.page \in DOMAIN Pages /\ step.expected.page \in DOMAIN Pages
        /\ Fingerprint(Seen.page) = Fingerprint(step.expected.page)
    BY <1>1, <1>4, SeenIs DEF MayAct, Same, PageInv, Followed
  <2>3. Fits(step.act, step.node, Seen.page)
    BY <1>1, <2>2, FitsAlike
  <2>4. /\ acted'.by = "driver" /\ acted'.act = step.act /\ acted'.node = step.node
        /\ acted'.on = page.of /\ acted'.read = Seen.page /\ acted'.expected = step.expected.page
    BY <2>1 DEF Effect
  <2>5. \E e \in Shown(acted'.read) :
          /\ e.slot = acted'.node[1] /\ ~e.private /\ ~e.own /\ e.visible /\ (acted'.act.kind # "hover" => e.enabled)
          /\ Best(acted'.act.control, acted'.read, Options(acted'.act.kind)) = {e}
    BY <1>1, <2>3, <2>4, FitsIsUsable
  <2>6. ASSUME acted'.act.kind = "click", NEW e \in Shown(acted'.on), e.slot = acted'.node[1]
        PROVE  e.does \notin {"leave", "load", "submit"}
    <3>1. page.of \in DOMAIN Pages
      BY DEF PageInv, ReadIsShown
    <3>2. Current(step.node) = e
      <4>1. \A d \in Shown(page.of) : d.slot = step.node[1] => d = e
        BY <2>4, <2>6, <3>1, PagesAssumption DEF Shown
      <4>2. e \in Shown(page.of) /\ e.slot = step.node[1]
        BY <2>4, <2>6
      <4>3. QED
        BY <4>1, <4>2 DEF Current
    <3>3. ~Refused(step.act, e)
      BY <1>4, <3>2 DEF MayAct
    <3>4. QED
      BY <2>4, <2>6, <3>3 DEF Refused
  <2>7. ActsOnWhatWasSeen'
    BY <2>2, <2>4, <2>5, <2>6 DEF ActsOnWhatWasSeen
  <2>8. ReadIsShown(page', settled', watch')
    BY <1>1, <1>2, <2>1, Reacting
  <2>9. QED
    BY <1>1, <1>2, <1>3, <2>7, <2>8 DEF PageInv
<1>5. CASE ~MayAct(Seen)
  <2>1. UNCHANGED <<acted, page, settled>>
    BY <1>5 DEF Acts
  <2>2. ActsOnWhatWasSeen'
    BY <2>1 DEF PageInv, ActsOnWhatWasSeen
  <2>3. QED
    BY <1>1, <1>2, <1>3, <2>1, <2>2 DEF PageInv
<1>6. QED
  BY <1>4, <1>5

(* A navigation touches no control.                                        *)
LEMMA NavigatesKeeps == ASSUME PageInv, Navigates PROVE PageInv'
<1>1. Fails /\ watch' = watch
  BY DEF Navigates
<1>2. StepOK(step', page', settled', watch')
  BY <1>1, Resting DEF Fails
<1>3. CASE acted' = Effect("navigation", <<>>) /\ Reacts
  <2>1. acted'.by = "navigation"
    BY <1>3 DEF Effect
  <2>2. ActsOnWhatWasSeen'
    BY <2>1 DEF ActsOnWhatWasSeen
  <2>3. ReadIsShown(page', settled', watch')
    BY <1>1, <1>3, Reacting DEF PageInv
  <2>4. QED
    BY <1>1, <1>2, <2>2, <2>3 DEF PageInv
<1>4. CASE UNCHANGED <<acted, page, settled>>
  <2>1. ActsOnWhatWasSeen'
    BY <1>4 DEF PageInv, ActsOnWhatWasSeen
  <2>2. QED
    BY <1>1, <1>2, <1>4, <2>1 DEF PageInv
<1>5. QED
  BY <1>3, <1>4 DEF Navigates

(* Nothing is done to the page, and nothing is asked of the step that comes. *)
LEMMA IdleKeeps ==
  ASSUME PageInv, UNCHANGED <<page, settled, acted>>,
         watch' = watch \/ Enqueues("driver") \/ (watch.read # None /\ watch' = Observed),
         "pc" \in DOMAIN step', step'.pc \in {"rest", "wait", "asking", "tool"}
  PROVE  PageInv'
<1>1. WatchOK(watch') /\ ReadIsShown(page', settled', watch')
  <2>1. CASE watch' = watch
    BY <2>1 DEF PageInv
  <2>2. CASE Enqueues("driver")
    <3>1. watch' = [watch EXCEPT !.queue = Append(@, "driver")]
      BY <2>2 DEF Enqueues
    <3>2. WatchOK(watch') /\ watch'.read = watch.read
      BY <3>1, Queued DEF PageInv
    <3>3. QED
      BY <3>2, Unheard DEF PageInv
  <2>3. CASE watch.read # None /\ watch' = Observed
    BY <2>3, Observing, Unheard DEF PageInv
  <2>4. QED
    BY <2>1, <2>2, <2>3
<1>2. StepOK(step', page', settled', watch')
  BY DEF StepOK
<1>3. ActsOnWhatWasSeen'
  BY DEF PageInv, ActsOnWhatWasSeen
<1>4. QED
  BY <1>1, <1>2, <1>3 DEF PageInv

(* A step at another place is still a step.                                *)
LEMMA Put == ASSUME "pc" \in DOMAIN step, NEW x PROVE "pc" \in DOMAIN [step EXCEPT !.pc = x] /\ [step EXCEPT !.pc = x].pc = x
OBVIOUS

(* The condition is asked for, or the time is over.                        *)
LEMMA WaitsKeeps == ASSUME PageInv, Waits PROVE PageInv'
<1>1. "pc" \in DOMAIN step
  BY DEF PageInv, StepOK
<1>2. UNCHANGED <<page, settled, acted>> /\ (watch' = watch \/ Enqueues("driver")) /\ (step' = [step EXCEPT !.pc = "asking"] \/ step' = Rest)
  BY DEF Waits, Fails
<1>3. "pc" \in DOMAIN step' /\ step'.pc \in {"rest", "asking"}
  BY <1>1, <1>2, Put DEF Rest
<1>4. QED
  BY <1>2, <1>3, IdleKeeps

(* The condition is answered.                                              *)
LEMMA AskedKeeps == ASSUME PageInv, Asked PROVE PageInv'
<1>1. "pc" \in DOMAIN step
  BY DEF PageInv, StepOK
<1>2. UNCHANGED <<page, settled, acted>> /\ watch.read # None /\ watch' = Observed /\ (step' = [step EXCEPT !.pc = "wait"] \/ step' = Rest)
  BY DEF Asked, Fails, Returned
<1>3. "pc" \in DOMAIN step' /\ step'.pc \in {"rest", "wait"}
  BY <1>1, <1>2, Put DEF Rest
<1>4. QED
  BY <1>2, <1>3, IdleKeeps

(* A registered tool is called, or refused.                                *)
LEMMA CallsToolKeeps == ASSUME PageInv, CallsTool PROVE PageInv'
<1>1. "pc" \in DOMAIN step
  BY DEF PageInv, StepOK
<1>2. UNCHANGED <<page, settled, acted>> /\ watch' = watch /\ (step' = [step EXCEPT !.pc = "tool"] \/ step' = Rest)
  BY DEF CallsTool, Fails
<1>3. "pc" \in DOMAIN step' /\ step'.pc \in {"rest", "tool"}
  BY <1>1, <1>2, Put DEF Rest
<1>4. QED
  BY <1>2, <1>3, IdleKeeps

(* The tool answers, and may have changed the page.                        *)
LEMMA ToolAnswersKeeps == ASSUME PageInv, ToolAnswers PROVE PageInv'
<1>1. step' = Rest /\ Reacts /\ watch' = watch /\ acted' = acted
  BY DEF ToolAnswers, Fails
<1>2. ReadIsShown(page', settled', watch')
  BY <1>1, Reacting DEF PageInv
<1>3. ActsOnWhatWasSeen'
  BY <1>1 DEF PageInv, ActsOnWhatWasSeen
<1>4. QED
  BY <1>1, <1>2, <1>3, Resting DEF PageInv

-----------------------------------------------------------------------------
(* Dynamic tools. *)
(* A dynamic tool touches what was fit to be touched.                      *)
LEMMA TouchedByTool ==
  ASSUME PageInv, NEW c, NEW node, NEW read, ByTool(c, node, read), MayBeTouched(c.tool, read, node), watch' = watch, StepOK(step', page', settled', watch')
  PROVE  PageInv'
<1>1. acted' = [by |-> "tool", act |-> c, node |-> node, on |-> page.of, read |-> read, expected |-> read] /\ Reacts
  BY DEF ByTool
<1>2. ReadIsShown(page', settled', watch')
  BY <1>1, Reacting DEF PageInv
<1>3. acted'.by = "tool" /\ acted'.act = c /\ acted'.node = node /\ acted'.read = read
  BY <1>1
<1>4. ActsOnWhatWasSeen'
  BY <1>3 DEF ActsOnWhatWasSeen, MayBeTouched
<1>5. QED
  BY <1>2, <1>4 DEF PageInv

(* A command is resolved on the page shown.                                *)
LEMMA CommandKeeps == ASSUME PageInv, NEW c \in Commands, Command(c) PROVE PageInv'
<1> DEFINE opts == [visible |-> c.tool # "scroll", enabled |-> c.tool \in {"click", "fill", "select", "hover"}]
<1>1. step.pc = "rest" /\ watch' = watch
  BY DEF Command
<1>2. PICK e \in Described(c.target, page.of, opts) :
        IF c.tool = "click"
        THEN step' = [pc |-> "commanded", act |-> c, read |-> page.of, node |-> Node(e, page.nodes)] /\ UNCHANGED <<page, settled, acted>>
        ELSE UNCHANGED step /\ IF Unfit(c.tool, e) THEN UNCHANGED <<page, settled, acted>> ELSE ByTool(c, Node(e, page.nodes), page.of)
  BY DEF Command
<1>3. MayBeTouched(c.tool, page.of, Node(e, page.nodes))
  <2>1. page.of \in DOMAIN Pages
    BY DEF PageInv, ReadIsShown
  <2>2. e \in Shown(page.of) /\ ~e.private /\ ~e.own /\ (opts.visible => e.visible)
    BY <2>1, DescribedOnce
  <2>3. QED
    BY <2>2 DEF MayBeTouched, Node
<1>4. CASE c.tool = "click"
  <2>1. step' = [pc |-> "commanded", act |-> c, read |-> page.of, node |-> Node(e, page.nodes)] /\ UNCHANGED <<page, settled, acted>>
    BY <1>2, <1>4
  <2>2. StepOK(step', page', settled', watch')
    BY <1>3, <1>4, <2>1 DEF StepOK
  <2>3. ActsOnWhatWasSeen'
    BY <2>1 DEF PageInv, ActsOnWhatWasSeen
  <2>4. QED
    BY <1>1, <2>1, <2>2, <2>3 DEF PageInv
<1>5. CASE c.tool # "click"
  <2>1. step' = step /\ (UNCHANGED <<page, settled, acted>> \/ ByTool(c, Node(e, page.nodes), page.of))
    BY <1>2, <1>5
  <2>2. StepOK(step', page', settled', watch')
    BY <1>1, <2>1 DEF StepOK, PageInv
  <2>3. CASE UNCHANGED <<page, settled, acted>>
    <3>1. ActsOnWhatWasSeen'
      BY <2>3 DEF PageInv, ActsOnWhatWasSeen
    <3>2. QED
      BY <1>1, <2>2, <2>3, <3>1 DEF PageInv
  <2>4. CASE ByTool(c, Node(e, page.nodes), page.of)
    BY <1>1, <1>3, <2>2, <2>4, TouchedByTool
  <2>5. QED
    BY <2>1, <2>3, <2>4
<1>6. QED
  BY <1>4, <1>5

(* The click that was resolved is made.                                    *)
LEMMA ClicksKeeps == ASSUME PageInv, Clicks PROVE PageInv'
<1>1. step.pc = "commanded" /\ ByTool(step.act, step.node, step.read) /\ Fails /\ watch' = watch
  BY DEF Clicks
<1>2. step.act.tool = "click" /\ MayBeTouched("click", step.read, step.node)
  BY <1>1 DEF PageInv, StepOK
<1>3. StepOK(step', page', settled', watch')
  BY <1>1, Resting DEF Fails
<1>4. QED
  BY <1>1, <1>2, <1>3, TouchedByTool

-----------------------------------------------------------------------------
(* The initial states.                                                     *)
LEMMA PageStarts == PageInit => PageInv
<1> SUFFICES ASSUME PageInit PROVE PageInv
  OBVIOUS
<1>1. /\ page \in [of : DOMAIN Pages, nodes : {0}, changes : {0}] /\ settled = TRUE
      /\ watch = [version |-> 0, last |-> None, queue |-> <<>>, read |-> None] /\ step = Rest /\ acted = [by |-> None]
  BY DEF PageInit, NoAct
<1>2. WatchOK(watch) /\ ReadIsShown(page, settled, watch)
  BY <1>1 DEF WatchOK, ReadIsShown
<1>3. ActsOnWhatWasSeen
  BY <1>1 DEF ActsOnWhatWasSeen, None
<1>4. QED
  BY <1>1, <1>2, <1>3, Resting DEF PageInv

(* Every step.                                                             *)
LEMMA PageKeeps == ASSUME TellsApart PROVE PageInv /\ [PageNext]_pageVars => PageInv'
<1> SUFFICES ASSUME PageInv, [PageNext]_pageVars PROVE PageInv'
  OBVIOUS
<1>1. CASE UNCHANGED pageVars
  BY <1>1 DEF pageVars, PageInv, ActsOnWhatWasSeen
<1>2. CASE \E a \in Actions : Decide(a)
  BY <1>2, DecideKeeps
<1>3. CASE \E c \in Commands : Command(c)
  BY <1>3, CommandKeeps
<1>4. CASE Changes \/ Scheduled \/ Reads \/ NoticedBySchedule
  BY <1>4, ChangesKeeps, ScheduledKeeps, ReadsKeeps, NoticedKeeps
<1>5. CASE Decided \/ Perform \/ Looked \/ Focuses \/ Acts
  BY <1>5, DecidedKeeps, PerformKeeps, LookedKeeps, FocusesKeeps, ActsKeeps
<1>6. CASE Navigates \/ Waits \/ Asked \/ CallsTool \/ ToolAnswers \/ Clicks
  BY <1>6, NavigatesKeeps, WaitsKeeps, AskedKeeps, CallsToolKeeps, ToolAnswersKeeps, ClicksKeeps
<1>7. QED
  BY <1>1, <1>2, <1>3, <1>4, <1>5, <1>6 DEF PageNext

(* Where fingerprints tell pages apart for the signed controls, the driver *)
(* acts on what was seen when the step was decided, and a dynamic tool on  *)
(* what was fit to be touched.                                             *)
THEOREM ActsAsSeen == ASSUME TellsApart PROVE PageSpec => []ActsOnWhatWasSeen
<1>1. PageInv => ActsOnWhatWasSeen
  BY DEF PageInv
<1>2. PageInv /\ [PageNext]_pageVars => PageInv'
  BY PageKeeps
<1>3. QED
  BY PageStarts, <1>1, <1>2, PTL DEF PageSpec
=============================================================================
