----------------------------- MODULE BrainStore -----------------------------
(***************************************************************************)
(* The files a product's knowledge lives in (server/src/knowledge/) and    *)
(* the stores that keep copies of them: the server's registry has one per  *)
(* product, shared by all its sessions and requests; the command lines and *)
(* durable sessions have one of their own.  A store looks for a change on  *)
(* disk only when it is asked for, and remembers one modification time for *)
(* all its files.  Requests of one store interleave at every await, writes *)
(* of one store queue.                                                     *)
(***************************************************************************)
EXTENDS Naturals, Sequences, FiniteSets, FiniteSetsExt

CONSTANTS Requests,      \* names of requests
          StoreOf,       \* by request: the store it uses
          Registered,    \* the stores of the server's registry
          Kinds,         \* by request: what it may be
          Authored,      \* versions of the content folder: by version, its rows of flows.json
          Mapped,        \* what a publication may bring: sets of rows
          Failing,       \* whether a write may fail
          MaxStarts

VARIABLES disk,     \* by key: the file
          mtime,    \* by key: when it was last renamed into place
          store,    \* by store: [data, stamp, queue, broken]
          task,     \* by request: what it has still to do
          starts    \* bound

vars == <<disk, mtime, store, task, starts>>

Keys == {"docs", "flows", "sessions"}
Stores == {StoreOf[r] : r \in Requests}
Newest == Max({mtime[k] : k \in Keys})

-----------------------------------------------------------------------------
(* Flows: each writer replaces its own rows.  Of two rows of one name the   *)
(* one with the longer program stays, and the kept row if they are equal.   *)
ReplaceFlowsFrom(origin, rows, incoming) ==
  LET kept == {f \in rows : f.origin # origin}
  IN {f \in kept : \A i \in incoming : i.name = f.name => i.program <= f.program}
     \cup {i \in incoming : \A f \in kept : f.name = i.name => f.program < i.program}

\* What sessions get to see: authored rows, and mapped ones that were replayed and approved as they are.
Served(rows) == {f \in rows : f.origin = "authored" \/ f.approved}

NoVectors == 0
Contents == DOMAIN Authored
Content(v) == [version |-> v, vectors |-> NoVectors]

-----------------------------------------------------------------------------
Reading == <<"docs file", "docs read", "flows file", "flows read", "sessions file", "sessions read", "stamp", "heal">>
Todo(kind) ==
  CASE kind = "start" -> <<"open", "bind">>
    [] kind = "finish" -> <<"sessions file", "recall", "save sessions">>
    [] kind = "ingest" -> <<"open">> \o Reading \o <<"content", "authored", "embed", "embedded", "save all">>
    [] kind = "publish" -> <<"open", "mapped", "embed", "embedded", "save all">>
Idle == [kind |-> "none", todo |-> <<>>, got |-> {}, of |-> NoVectors, alone |-> TRUE]

Init ==
  /\ disk = [docs |-> [version |-> 1, vectors |-> 1], flows |-> Authored[1], sessions |-> {}]
  /\ mtime = [k \in Keys |-> 1]
  /\ store = [s \in Stores |-> [data |-> disk, stamp |-> 1, queue |-> <<>>, broken |-> FALSE]]
  /\ task = [r \in Requests |-> Idle]
  /\ starts = 0

Busy(r) == task[r].todo # <<>>
At(r, step) == Busy(r) /\ Head(task[r].todo) = step
Mine(r) == store[StoreOf[r]]
Goes(r, todo) == task' = [task EXCEPT ![r].todo = todo]
Continues(r) == Goes(r, Tail(task[r].todo))
Sets(r, key, value) == store' = [store EXCEPT ![StoreOf[r]].data[key] = value]

\* A request arrives; those in progress are no longer alone.
Arrives(r, kind) ==
  /\ ~Busy(r) /\ starts < MaxStarts
  /\ starts' = starts + 1
  /\ task' = [q \in Requests |-> IF q = r THEN [Idle EXCEPT !.kind = kind, !.todo = Todo(kind), !.alone = \A p \in Requests \ {r} : ~Busy(p)]
                                 ELSE [task[q] EXCEPT !.alone = FALSE]]
  /\ UNCHANGED <<disk, mtime, store>>

\* brainFor: a store of the registry is read again if a file is newer than what it remembers; another store reads at once.
Opens(r) ==
  /\ At(r, "open")
  /\ LET stale == StoreOf[r] \in Registered => Newest > Mine(r).stamp
     IN Goes(r, (IF stale THEN Reading ELSE <<>>) \o Tail(task[r].todo))
  /\ UNCHANGED <<disk, mtime, store, starts>>

\* load: file by file, the stamp last.  What was read replaces what is there when the read returns.
FileOf == [docs |-> "docs file", flows |-> "flows file", sessions |-> "sessions file"]
ReadOf == [docs |-> "docs read", flows |-> "flows read", sessions |-> "sessions read"]
Reads(r, key) ==
  /\ At(r, FileOf[key])
  /\ task' = [task EXCEPT ![r].todo = Tail(@), ![r].got = {disk[key]}]
  /\ UNCHANGED <<disk, mtime, store, starts>>
Loads(r, key) ==
  /\ At(r, ReadOf[key])
  /\ \E value \in task[r].got : Sets(r, key, value)
  /\ Continues(r)
  /\ UNCHANGED <<disk, mtime, starts>>
Stamps(r) ==
  /\ At(r, "stamp")
  /\ store' = [store EXCEPT ![StoreOf[r]].stamp = Newest]
  /\ Continues(r)
  /\ UNCHANGED <<disk, mtime, starts>>
\* selfHeal: documents without vectors get them, and are written back.
Heals(r) ==
  /\ At(r, "heal")
  /\ Goes(r, (IF Mine(r).data.docs.vectors = NoVectors THEN <<"embed", "embedded", "save all">> ELSE <<>>) \o Tail(task[r].todo))
  /\ UNCHANGED <<disk, mtime, store, starts>>

SetsDocs(r, v) == At(r, "content") /\ Sets(r, "docs", Content(v)) /\ task' = [task EXCEPT ![r].todo = Tail(@), ![r].of = v] /\ UNCHANGED <<disk, mtime, starts>>
SetsAuthored(r) ==
  /\ At(r, "authored")
  /\ Sets(r, "flows", ReplaceFlowsFrom("authored", Mine(r).data.flows, Authored[task[r].of]))
  /\ Continues(r)
  /\ UNCHANGED <<disk, mtime, starts>>
SetsMapped(r, rows) ==
  /\ At(r, "mapped")
  /\ Sets(r, "flows", ReplaceFlowsFrom("mapped", Mine(r).data.flows, rows))
  /\ Continues(r)
  /\ UNCHANGED <<disk, mtime, starts>>

\* buildEmbeddings: the vectors of the documents as they were are given to the documents as they are, if they are as many.
Embeds(r) ==
  /\ At(r, "embed")
  /\ task' = [task EXCEPT ![r].todo = Tail(@), ![r].of = Mine(r).data.docs.version]
  /\ UNCHANGED <<disk, mtime, store, starts>>
Embedded(r, came) ==
  /\ At(r, "embedded")
  /\ IF came THEN Sets(r, "docs", [Mine(r).data.docs EXCEPT !.vectors = task[r].of]) ELSE UNCHANGED store
  /\ Continues(r)
  /\ UNCHANGED <<disk, mtime, starts>>

\* logSession: the file's records join the store's, the new one is added.
Recalls(r) ==
  /\ At(r, "recall")
  /\ Sets(r, "sessions", Mine(r).data.sessions \cup UNION task[r].got \cup {r})
  /\ Continues(r)
  /\ UNCHANGED <<disk, mtime, starts>>

\* save: behind the writes of the store that wait.
Saves(r) ==
  /\ At(r, "save all") \/ At(r, "save sessions")
  /\ LET keys == IF At(r, "save sessions") THEN <<"sessions">> ELSE <<"docs", "flows">>
     IN store' = [store EXCEPT ![StoreOf[r]].queue = Append(@, [keys |-> keys, for |-> r])]
  /\ Goes(r, <<"written">> \o Tail(task[r].todo))
  /\ UNCHANGED <<disk, mtime, starts>>
\* What is in memory by then is renamed into place, key by key.
Writes(s) ==
  /\ ~store[s].broken /\ store[s].queue # <<>> /\ store[s].queue[1].keys # <<>>
  /\ LET key == Head(store[s].queue[1].keys)
     IN /\ disk' = [disk EXCEPT ![key] = store[s].data[key]]
        /\ mtime' = [mtime EXCEPT ![key] = Newest + 1]
  /\ store' = [store EXCEPT ![s].queue[1].keys = Tail(@)]
  /\ UNCHANGED <<task, starts>>
\* The stamp becomes that of the newest file, whoever wrote it.
Written(s) ==
  /\ ~store[s].broken /\ store[s].queue # <<>> /\ store[s].queue[1].keys = <<>>
  /\ store' = [store EXCEPT ![s].stamp = Newest, ![s].queue = Tail(@)]
  /\ task' = [task EXCEPT ![store[s].queue[1].for].todo = Tail(@)]
  /\ UNCHANGED <<disk, mtime, starts>>
\* A write that fails rejects the chain, and with it every later one: their requests fail.
WriteFails(s) ==
  /\ Failing /\ store[s].queue # <<>>
  /\ store[s].broken \/ store[s].queue[1].keys # <<>>
  /\ store' = [store EXCEPT ![s].broken = TRUE, ![s].queue = Tail(@)]
  /\ task' = [task EXCEPT ![store[s].queue[1].for] = Idle]
  /\ UNCHANGED <<disk, mtime, starts>>

\* The session is bound to what the store holds.
Binds(r) == At(r, "bind") /\ Continues(r) /\ UNCHANGED <<disk, mtime, store, starts>>

Next ==
  \/ \E r \in Requests : \/ \E k \in Kinds[r] : Arrives(r, k)
                         \/ Opens(r) \/ Stamps(r) \/ Heals(r) \/ SetsAuthored(r) \/ Embeds(r) \/ Recalls(r) \/ Saves(r) \/ Binds(r)
                         \/ \E k \in Keys : Reads(r, k) \/ Loads(r, k)
                         \/ \E v \in Contents : SetsDocs(r, v)
                         \/ \E rows \in Mapped : SetsMapped(r, rows)
                         \/ \E came \in BOOLEAN : Embedded(r, came)
  \/ \E s \in Stores : Writes(s) \/ Written(s) \/ WriteFails(s)
Spec == Init /\ [][Next]_vars

-----------------------------------------------------------------------------
(* A session that starts while nothing else goes on gets what is on disk:   *)
(* store.ts promises that an ingestion or a mapping of another process      *)
(* reaches the server without a restart.  The stamp breaks it: the record   *)
(* of any session that ends after the other process wrote moves the stamp   *)
(* past files the store has not read.                                       *)
UpdatesArrive ==
  [][\A r \in Requests : Binds(r) /\ task[r].alone => Mine(r).data.docs = disk.docs /\ Served(Mine(r).data.flows) = Served(disk.flows)]_vars

=============================================================================
