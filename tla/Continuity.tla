------------------------------ MODULE Continuity ------------------------------
(***************************************************************************)
(* One person's conversation across page loads, tabs and processes of the  *)
(* cloud runtime.  Each page load is a session with a control socket; the  *)
(* runtime keeps one record per person in its store, guarded by a          *)
(* revision, and each process remembers which session owns it.  The        *)
(* browser keeps a checkpoint per origin.  Transcripts are left out.       *)
(***************************************************************************)
EXTENDS Naturals, Sequences, FiniteSets

CONSTANTS Tabs,      \* page loads, 1 .. n
          Procs,     \* processes of the runtime, 1 .. m
          Origins,   \* "here" and the origins a handoff leads to
          JourneyTurns,  \* turns that run a resumable journey
          NavTurns,      \* turns that follow a catalog navigation plan
          MaxActs    \* bound: what people and clocks do

VARIABLES row,       \* the record in the store
          conn,      \* ControlState of each page load's socket
          owner,     \* continuityOwners of each process
          page,      \* the browser's side of each page load
          disk,      \* the checkpoint in the storage of each origin
          tokens,    \* handoffs
          ended,     \* history: turns stopped or finished by the writes that led to the record
          acts       \* [n, begun]

visitVars == <<row, conn, owner, page, disk, tokens, ended, acts>>

Nil == 0
ASSUME TurnsAreDistinct == Nil \notin Tabs \cup JourneyTurns \cup NavTurns /\ JourneyTurns \cap NavTurns = {} /\ "none" \notin Origins
NothingPending == [journey |-> Nil, nav |-> Nil, plan |-> Nil]
NoMark == [journey |-> Nil, nav |-> Nil]
NoRow == [rev |-> 0, pend |-> NothingPending, expired |-> FALSE, by |-> Nil, age |-> 0]
NoConn == [at |-> "none", up |-> FALSE, proc |-> Nil, prev |-> Nil, holds |-> FALSE, rev |-> 0, own |-> NoMark,
           auth |-> NoMark, plan |-> Nil, asked |-> NoMark, ends |-> {}, writes |-> <<>>, flying |-> FALSE, awaits |-> FALSE, tell |-> Nil,
           known |-> {}, age |-> 0, lost |-> FALSE, heirOf |-> Nil]
Unloaded == [at |-> "none", mem |-> NoMark, run |-> Nil]

VisitInit ==
  /\ row = NoRow
  /\ conn = [t \in Tabs |-> NoConn] /\ owner = [p \in Procs |-> Nil]
  /\ page = [t \in Tabs |-> Unloaded] /\ disk = [o \in Origins |-> NoMark] /\ tokens = {}
  /\ ended = {} /\ acts = [n |-> 0, begun |-> {}]

Counted == acts.n < MaxActs /\ acts' = [acts EXCEPT !.n = @ + 1]
Browser == <<page, disk, tokens>>
\* The next message of a socket is handled when the one before it is done.
Hearing(t) == conn[t].at = "live" /\ conn[t].tell = Nil /\ (conn[t].awaits => conn[t].writes = <<>>)
Live(t) == Hearing(t) /\ conn[t].up
Controls(p) == {t \in Tabs : conn[t].proc = p /\ conn[t].up}
With(t, c) == conn' = [conn EXCEPT ![t] = c]

-----------------------------------------------------------------------------
(* The store *)

Present == row.rev > 0 /\ ~row.expired
\* A put compares the revision, also with that of a record that has expired.
Matches(expected) == row.rev = expected

RecordExpires ==
  /\ Present /\ Counted
  /\ row' = [row EXCEPT !.expired = TRUE]
  /\ UNCHANGED <<conn, owner, Browser, ended>>

-----------------------------------------------------------------------------
(* persistContinuity: the value is captured now, and the writes of a socket *)
(* follow one another, also after it closed.                                *)

\* What a page runs hides what it was told by the record.
Kept(mine, told) == IF mine # Nil THEN mine ELSE told
Pend(c) == [journey |-> Kept(c.own.journey, c.auth.journey), nav |-> Kept(c.own.nav, c.auth.nav), plan |-> c.plan]
Save(c, wait) ==
  IF c.holds THEN [c EXCEPT !.writes = Append(@, [pend |-> Pend(c), ends |-> c.ends]), !.awaits = wait] ELSE c
Dropped(c) == [c EXCEPT !.writes = Tail(@), !.flying = FALSE]

StartWrite(t) ==
  /\ conn[t].writes # <<>> /\ ~conn[t].flying
  /\ With(t, IF conn[t].holds THEN [conn[t] EXCEPT !.flying = TRUE] ELSE Dropped(conn[t]))
  /\ UNCHANGED <<row, owner, Browser, ended, acts>>

PutRecord(t) ==
  /\ conn[t].flying
  /\ LET c == conn[t]
         w == Head(c.writes)
     IN \/ /\ Matches(c.rev)
           /\ LET chained == c.age = row.age      \* else the revision is one of before a logout
              IN /\ row' = [rev |-> c.rev + 1, pend |-> w.pend, expired |-> FALSE, by |-> t, age |-> IF chained THEN row.age ELSE row.age + 1]
                 /\ ended' = IF chained THEN ended \cup w.ends ELSE w.ends
           /\ With(t, [Dropped(c) EXCEPT !.rev = @ + 1, !.known = IF c.age = row.age THEN ended' ELSE @])
           /\ UNCHANGED page
        \/ /\ ~Matches(c.rev)                     \* CONTINUITY_STALE, and the SDK aborts what it runs
           /\ With(t, [Dropped(c) EXCEPT !.holds = FALSE, !.lost = TRUE, !.up = FALSE])
           /\ page' = [page EXCEPT ![t].run = Nil]
           /\ UNCHANGED <<row, ended>>
  /\ UNCHANGED <<owner, disk, tokens, acts>>

-----------------------------------------------------------------------------
(* A page loads *)

\* Pages and processes are alike: they are taken in their order.
NextLoad(t, p) ==
  /\ page[t].at = "none" /\ \A u \in Tabs : u < t => page[u].at # "none"
  /\ \A q \in Procs : q < p => \E u \in Tabs : conn[u].proc = q
Loaded(t, p, o, mark) ==
  /\ page' = [page EXCEPT ![t] = [at |-> o, mem |-> mark, run |-> Nil]]
  /\ disk' = [disk EXCEPT ![o] = mark]
  /\ With(t, [NoConn EXCEPT !.at = "open", !.up = TRUE, !.proc = p, !.asked = mark])
  /\ UNCHANGED <<row, owner, ended, acts>>

\* The destination page keeps a checkpoint, any other page clears it.
Load(t, p, o) ==
  /\ NextLoad(t, p)
  /\ \E mark \in {disk[o], NoMark} : Loaded(t, p, o, mark)
  /\ UNCHANGED tokens
\* The code is gone whoever presents it; the wrong person gets nothing for it.
Consumed(k) == k \in tokens /\ tokens' = tokens \ {k}
LoadWithToken(t, p, o) ==
  /\ NextLoad(t, p) /\ o # "here"
  /\ \E k \in tokens :
       /\ Consumed(k)
       /\ \E mark \in {[NoMark EXCEPT !.journey = k], disk[o]} : Loaded(t, p, o, mark)

\* restore_context: the session that owned the conversation here lets go of
\* it, and its writes end before the record is read.
Restore(t) ==
  /\ conn[t].at = "open"
  /\ LET p == conn[t].proc
         u == owner[p]
     IN IF u \in Controls(p) \ {t}
        THEN /\ conn' = [conn EXCEPT ![u].holds = FALSE, ![t].at = "await", ![t].prev = u,
                                     ![t].heirOf = IF conn[u].holds THEN u ELSE Nil]
             /\ UNCHANGED owner
        ELSE With(t, [conn[t] EXCEPT !.at = "read"]) /\ owner' = [owner EXCEPT ![p] = t]
  /\ UNCHANGED <<row, Browser, ended, acts>>
\* wrong: the record is read at once
WrittenAlways(u) == TRUE
Written(u) == conn[u].writes = <<>>
Claim(t) ==
  /\ conn[t].at = "await" /\ Written(conn[t].prev)
  /\ LET u == conn[t].prev
     IN /\ conn' = [conn EXCEPT ![t].at = "read", ![u].up = FALSE]      \* SESSION_REPLACED
        /\ page' = [page EXCEPT ![u].run = Nil]
  /\ owner' = [owner EXCEPT ![conn[t].proc] = t]
  /\ UNCHANGED <<row, disk, tokens, ended, acts>>

\* A checkpoint is believed when the record has the same journey pending.
Believed(auth, turn) == auth.journey = turn

\* What the record says wins over what the browser says.
Adopt(t) ==
  /\ conn[t].at = "read"
  /\ LET c == [conn[t] EXCEPT !.holds = TRUE, !.rev = IF Present THEN row.rev ELSE 0,
                              !.auth = IF Present THEN [journey |-> row.pend.journey, nav |-> row.pend.nav] ELSE @,
                              !.plan = IF Present THEN row.pend.plan ELSE @, !.age = row.age]
         j == c.asked.journey
     IN With(t, IF j # Nil /\ ~Believed(c.auth, j)
                THEN [c EXCEPT !.at = "live", !.asked = NoMark]       \* thrown: nothing is stored
                ELSE [Save(c, TRUE) EXCEPT !.at = "live"])
  /\ UNCHANGED <<row, owner, Browser, ended, acts>>

\* The record of the page is written through to the storage of its origin.
Mark(t, mark) ==
  /\ page' = [page EXCEPT ![t].mem = mark]
  /\ disk' = [disk EXCEPT ![page[t].at] = mark]

\* The first observation: a journey goes on after its navigation, a navigation
\* is finished or has more steps; a page that does not match drops either.
ResumeJourney(t) ==
  /\ Live(t) /\ conn[t].asked.journey # Nil
  /\ LET j == conn[t].asked.journey
         c == [conn[t] EXCEPT !.asked.journey = Nil]
     IN \/ /\ Believed(c.auth, j)
           /\ With(t, [c EXCEPT !.own.journey = j, !.auth.journey = Nil])
           /\ page' = [page EXCEPT ![t].run = j] /\ UNCHANGED disk
        \/ With(t, c) /\ Mark(t, [page[t].mem EXCEPT !.journey = Nil])
  /\ UNCHANGED <<row, owner, tokens, ended, acts>>
FinishNavigation(t) ==
  /\ Hearing(t) /\ conn[t].asked.nav # Nil
  /\ LET n == conn[t].asked.nav
         told == conn[t].auth.nav
         c == [conn[t] EXCEPT !.asked.nav = Nil, !.auth.nav = Nil]
     IN \/ told = n /\ With(t, Save([c EXCEPT !.plan = n], TRUE))
        \/ With(t, Save([c EXCEPT !.ends = @ \cup ({told} \ {Nil})], TRUE))
  /\ Mark(t, [page[t].mem EXCEPT !.nav = Nil])
  /\ UNCHANGED <<row, owner, tokens, ended, acts>>

-----------------------------------------------------------------------------
(* What people do *)

\* A journey or a navigation plan begins, or the next step of a plan; the
\* command follows the write.
Run(t, turn) ==
  /\ Live(t) /\ page[t].run = Nil
  /\ LET c == conn[t]
     IN \/ /\ turn \notin acts.begun
           /\ With(t, [Save(IF turn \in JourneyTurns THEN [c EXCEPT !.own.journey = turn] ELSE [c EXCEPT !.own.nav = turn], TRUE)
                       EXCEPT !.tell = turn])
        \/ /\ c.plan = turn
           /\ With(t, [Save([c EXCEPT !.own.nav = turn, !.plan = Nil], TRUE) EXCEPT !.tell = turn])
  /\ acts.n < MaxActs /\ acts' = [n |-> acts.n + 1, begun |-> acts.begun \cup {turn}]
  /\ UNCHANGED <<row, owner, Browser, ended>>
Tell(t) ==
  /\ conn[t].tell # Nil /\ Written(t)
  /\ page' = IF conn[t].up THEN [page EXCEPT ![t].run = conn[t].tell] ELSE page
  /\ With(t, [conn[t] EXCEPT !.tell = Nil])
  /\ UNCHANGED <<row, owner, disk, tokens, ended, acts>>

\* A message in the transcript: both sides store what they hold.
Chat(t) ==
  /\ Live(t) /\ Counted /\ Mark(t, page[t].mem)
  /\ With(t, Save(conn[t], FALSE))
  /\ UNCHANGED <<row, owner, tokens, ended>>

Pending(c) == {c.own.journey, c.own.nav, c.auth.journey, c.auth.nav, c.plan} \ {Nil}
Cleared(c) == [c EXCEPT !.own = NoMark, !.auth = NoMark, !.plan = Nil, !.asked = NoMark, !.ends = @ \cup Pending(c)]
StopAll(t) ==
  /\ Live(t) /\ Counted
  /\ With(t, IF Pending(conn[t]) = {} /\ conn[t].asked = NoMark THEN conn[t] ELSE Save(Cleared(conn[t]), TRUE))
  /\ page' = [page EXCEPT ![t].run = Nil, ![t].mem.journey = Nil]
  /\ disk' = [disk EXCEPT ![page[t].at] = page'[t].mem]
  /\ UNCHANGED <<row, owner, tokens, ended>>
Logout(t) ==
  /\ Live(t) /\ Written(t) /\ conn[t].holds /\ Counted
  /\ row' = [NoRow EXCEPT !.age = row.age + 1]
  /\ ended' = ended \cup Pending(conn[t])
  /\ With(t, [Cleared(conn[t]) EXCEPT !.holds = FALSE])
  /\ page' = [page EXCEPT ![t].run = Nil, ![t].mem = NoMark]
  /\ disk' = [disk EXCEPT ![page[t].at] = NoMark]
  /\ UNCHANGED <<owner, tokens>>

\* The run ends on the page it began on.
Result(t) ==
  /\ Live(t) /\ page[t].run # Nil
  /\ LET turn == page[t].run
         c == conn[t]
     IN With(t, IF turn \in JourneyTurns
                THEN Save([c EXCEPT !.own.journey = Nil, !.auth.journey = Nil, !.ends = @ \cup ({turn, c.auth.journey} \ {Nil})], FALSE)
                ELSE Save([c EXCEPT !.own.nav = Nil, !.auth.nav = Nil, !.ends = @ \cup ({turn, c.auth.nav} \ {Nil})], TRUE))
  /\ page' = [page EXCEPT ![t].run = Nil, ![t].mem.journey = Nil]
  /\ disk' = [disk EXCEPT ![page[t].at] = page'[t].mem]
  /\ UNCHANGED <<row, owner, tokens, ended, acts>>

Gone(t) ==
  /\ With(t, [conn[t] EXCEPT !.up = FALSE])
  /\ owner' = [p \in Procs |-> IF owner[p] = t /\ conn[t].holds THEN Nil ELSE owner[p]]
Leave(t) ==
  /\ conn[t].up /\ page[t].run = Nil /\ Counted /\ Gone(t)
  /\ UNCHANGED <<row, Browser, ended>>
\* A code is given for the journey the record holds.
Issued(turn) == turn \in JourneyTurns /\ Present /\ row.pend.journey = turn /\ tokens' = tokens \cup {turn}
\* prepareDocumentNavigation, run_catalog_navigation: checkpoint, then leave.
NavigateAway(t) ==
  /\ conn[t].up /\ page[t].run # Nil
  /\ page' = [page EXCEPT ![t].run = Nil, ![t].mem = IF page[t].run \in JourneyTurns THEN [@ EXCEPT !.journey = page[t].run]
                                                      ELSE [journey |-> Nil, nav |-> page[t].run]]
  /\ disk' = [disk EXCEPT ![page[t].at] = page'[t].mem]
  /\ Gone(t)
  /\ \/ UNCHANGED tokens
     \/ Issued(page[t].run)
  /\ UNCHANGED <<row, ended, acts>>

VisitNext ==
  \/ RecordExpires
  \/ \E t \in Tabs :
       \/ StartWrite(t) \/ PutRecord(t) \/ Restore(t) \/ Claim(t) \/ Adopt(t) \/ ResumeJourney(t) \/ FinishNavigation(t)
       \/ Tell(t) \/ Chat(t) \/ StopAll(t) \/ Logout(t) \/ Result(t) \/ Leave(t) \/ NavigateAway(t)
       \/ \E turn \in JourneyTurns \cup NavTurns : Run(t, turn)
       \/ \E p \in Procs, o \in Origins : Load(t, p, o) \/ LoadWithToken(t, p, o)
VisitSpec == VisitInit /\ [][VisitNext]_visitVars

-----------------------------------------------------------------------------
VisitTypes ==
  /\ row.pend.journey \in JourneyTurns \cup {Nil} /\ row.pend.nav \in NavTurns \cup {Nil}
  /\ \A t \in Tabs : conn[t].at \in {"none", "open", "await", "read", "live"} /\ page[t].run \in JourneyTurns \cup NavTurns \cup {Nil}
  /\ \A p \in Procs : owner[p] \in Tabs \cup {Nil}

(***************************************************************************)
(* Nothing runs again that was stopped or has finished: a page starts or   *)
(* resumes only a turn that no other tab or process had ended in a write   *)
(* before this page's own write, though checkpoints in storages, codes in  *)
(* URLs and tabs left open keep naming it (server.ts restore_context,      *)
(* persistContinuity).  A logout in between deletes the record, and with   *)
(* it the revisions this rests on.                                         *)
(***************************************************************************)
NothingEndedStarts ==
  \A t \in DOMAIN page : page'[t].run # page[t].run /\ page'[t].run # Nil => page'[t].run \notin conn[t].known

(***************************************************************************)
(* A page that takes a conversation over is not turned away because of a   *)
(* write of the very page it took it from (server.ts, the wait for         *)
(* previousOwner.continuityWrite).  A page that was still restoring itself *)
(* when it was replaced does go on to write, and is not covered.           *)
(***************************************************************************)
NoHeirTurnedAway ==
  \A t \in DOMAIN conn : conn'[t].lost /\ ~conn[t].lost /\ ~row.expired => conn[t].heirOf = Nil \/ row.by # conn[t].heirOf
TurnsChangeHandsCleanly == [][NothingEndedStarts /\ NoHeirTurnedAway]_visitVars
=============================================================================
