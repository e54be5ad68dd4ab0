---------------------------- MODULE VoiceChannel ----------------------------
(***************************************************************************)
(* Spoken narration and answers: the speech engine, the turn manager and   *)
(* the voice socket of the cloud runtime on one side, the microphone, the  *)
(* barge-in probe and the playback queue of the browser on the other.      *)
(* The two sockets of a session are two ordered channels up; one ordered   *)
(* channel down carries audio and speech events.  No message of this       *)
(* server carries a playback generation, so the generations of the browser *)
(* that count such messages stay at zero and are left out.                 *)
(***************************************************************************)
EXTENDS Integers, Sequences, FiniteSets

CONSTANTS Narrations,   \* utterances the browser waits for (journey steps)
          Answers,      \* utterances of the server's own turns
          MaxSpeech,    \* bound: events of the speech-to-text service
          MaxStarts     \* bound: times the microphone is opened or a turn is typed

VARIABLES client,       \* the browser: CloudVoiceClient
          waiters,      \* utteranceEnds, and what became of each
          engine,       \* the server: SpeechEngine, TurnManager, VoiceState
          downlink,     \* voice socket, server to browser
          uplink,       \* voice socket, browser to server
          session,      \* control socket, browser to server, with what the actor is doing
          heard,        \* history: the sequence last heard
          spent         \* bounds: speech events and microphone starts so far

voiceVars == <<client, waiters, engine, downlink, uplink, session, heard, spent>>

Utterances == Narrations \cup Answers
ASSUME UtterancesDiffer == Narrations \cap Answers = {} /\ "none" \notin Narrations \cup Answers
NoItem == [utt |-> "none", seq |-> 0]
Nothing == 0
Msg(kind) == [kind |-> kind, utt |-> "none", seq |-> 0]

VoiceInit ==
  /\ client = [mic |-> "off", listening |-> FALSE, player |-> NoItem, playing |-> FALSE, items |-> {},
          next |-> 0, played |-> 0, blocked |-> FALSE, wait |-> FALSE, pumpSoon |-> FALSE,
          barrier |-> FALSE, probe |-> "none", local |-> FALSE, committed |-> FALSE, restart |-> FALSE]
  /\ waiters = [u \in Narrations |-> [at |-> "idle", last |-> Nothing, ended |-> FALSE]]
  /\ engine = [gen |-> 0, seq |-> 0, tasks |-> <<>>, out |-> {}, turn |-> "idle", stt |-> FALSE]
  /\ downlink = <<>> /\ uplink = <<>>
  /\ session = [queue |-> <<>>, saying |-> "none", last |-> Nothing, said |-> {}]
  /\ heard = 0
  /\ spent = [speech |-> 0, starts |-> 0]

-----------------------------------------------------------------------------
(* The browser *)

\* pumpPlayback, up to the start of a player: the queue is sorted each time.
Earliest(items) == CHOOSE i \in items : \A k \in items : i.seq =< k.seq
Pumped(c) ==
  IF c.player # NoItem \/ c.blocked THEN c
  ELSE IF c.items = {} THEN [c EXCEPT !.wait = FALSE]
  ELSE LET head == Earliest(c.items)
           next == IF c.next = 0 THEN head.seq ELSE c.next
       IN IF head.seq > next THEN [c EXCEPT !.next = next, !.wait = TRUE]
          ELSE [c EXCEPT !.wait = FALSE, !.player = head, !.playing = FALSE, !.items = @ \ {head},
                         !.next = IF next > head.seq THEN next ELSE head.seq + 1]

Interrupted(w) == [u \in Narrations |-> IF w[u].at = "waiting" THEN [w[u] EXCEPT !.at = "interrupted"] ELSE w[u]]
Cancelled(c) == [c EXCEPT !.probe = "none", !.player = NoItem, !.playing = FALSE, !.items = {}, !.next = 0,
                          !.blocked = FALSE, !.wait = FALSE]

Ack(kind, seq) == [session EXCEPT !.queue = Append(@, [kind |-> kind, utt |-> "none", seq |-> seq])]
\* cancelPlayback tells the control socket what it cut off.
AckCancel == IF client.player # NoItem THEN Ack("cancelled", client.player.seq) ELSE session

\* wrong: the end of the stream is taken for the end of the audio
ResolvedEarly(w, u, played) ==
  IF u \in Narrations /\ w[u].at = "waiting" /\ w[u].ended THEN [w EXCEPT ![u].at = "completed"] ELSE w
Resolved(w, u, played) ==
  IF u \in Narrations /\ w[u].at = "waiting" /\ w[u].ended /\ (w[u].last = Nothing \/ played >= w[u].last)
  THEN [w EXCEPT ![u].at = "completed"] ELSE w

OpenMic ==                                    \* start: up to the permission prompt
  /\ client.mic = "off" /\ spent.starts < MaxStarts
  /\ client' = [Cancelled(client) EXCEPT !.barrier = FALSE, !.mic = "opening"]
  /\ waiters' = Interrupted(waiters)
  /\ session' = AckCancel
  /\ spent' = [spent EXCEPT !.starts = @ + 1]
  /\ UNCHANGED <<engine, downlink, uplink, heard>>

Fresh(c) == [c EXCEPT !.listening = TRUE, !.local = FALSE, !.committed = FALSE]
Begins(c) == c.mic = "on" /\ ~c.listening     \* beginUtterance
MicReady ==
  /\ client.mic = "opening"
  /\ \/ client' = Fresh([client EXCEPT !.mic = "on"]) /\ uplink' = Append(uplink, "start")
     \/ client' = [client EXCEPT !.mic = "off"] /\ UNCHANGED uplink
  /\ UNCHANGED <<waiters, engine, downlink, session, heard, spent>>

StopMic ==
  /\ client.mic = "on"
  /\ client' = [client EXCEPT !.mic = "off", !.listening = FALSE]
  /\ (client.listening /\ uplink' = Append(uplink, "cancel")) \/ UNCHANGED uplink     \* a flush only reaches the speech service
  /\ UNCHANGED <<waiters, engine, downlink, session, heard, spent>>

\* capture: loud sound under playback pauses the player; sound that goes on is reported.
LoudSound ==
  /\ client.mic = "on" /\ client.listening /\ client.player # NoItem /\ client.probe = "none" /\ ~client.local
  /\ client' = [client EXCEPT !.probe = "candidate"]
  /\ UNCHANGED <<waiters, engine, downlink, uplink, session, heard, spent>>
StillLoud ==
  /\ client.mic = "on" /\ client.listening /\ ~client.local /\ "barge" \notin {uplink[i] : i \in DOMAIN uplink}
  /\ client.probe # "none" \/ client.player = NoItem
  /\ spent.speech < MaxSpeech
  /\ client' = IF client.probe # "none" THEN [client EXCEPT !.probe = "confirmed", !.local = TRUE] ELSE client
  /\ uplink' = Append(uplink, "barge")
  /\ spent' = [spent EXCEPT !.speech = @ + 1]
  /\ UNCHANGED <<waiters, engine, downlink, session, heard>>

\* rejectBargeInProbe: the paused player goes on, or cannot.
Rejected(c) == [c EXCEPT !.probe = "none", !.local = FALSE, !.committed = FALSE]
ProbeExpires ==
  /\ client.probe # "none"
  /\ \/ client' = Rejected(client) /\ UNCHANGED <<waiters, session>>
     \/ client.player # NoItem /\ client' = Cancelled(Rejected(client)) /\ waiters' = Interrupted(waiters) /\ session' = AckCancel
  /\ UNCHANGED <<engine, downlink, uplink, heard, spent>>

Starts ==
  /\ client.player # NoItem /\ ~client.playing /\ client.probe = "none"
  /\ client' = [client EXCEPT !.playing = TRUE]
  /\ heard' = client.player.seq
  /\ UNCHANGED <<waiters, engine, downlink, uplink, session, spent>>

\* The audio ended, or the duration watchdog of the player fired.
Ended ==
  /\ client.player # NoItem
  /\ LET p == client.player
         played == IF p.seq > client.played THEN p.seq ELSE client.played
     IN /\ client' = [client EXCEPT !.player = NoItem, !.playing = FALSE, !.played = played, !.pumpSoon = TRUE]
        /\ waiters' = Resolved(waiters, p.utt, played)
        /\ session' = Ack("ended", p.seq)
  /\ UNCHANGED <<engine, downlink, uplink, heard, spent>>
PlaybackFails ==
  /\ client.player # NoItem
  /\ LET p == client.player
     IN /\ client' = [client EXCEPT !.player = NoItem, !.playing = FALSE, !.pumpSoon = TRUE]
        /\ waiters' = IF p.utt \in Narrations /\ waiters[p.utt].at = "waiting"
                    THEN [waiters EXCEPT ![p.utt].at = "failed"] ELSE waiters
        /\ session' = Ack("failed", p.seq)
  /\ UNCHANGED <<engine, downlink, uplink, heard, spent>>
\* Autoplay refused: the item goes back and the queue is blocked.
PlaybackBlocked ==
  /\ client.player # NoItem /\ ~client.playing
  /\ client' = [client EXCEPT !.player = NoItem, !.items = @ \cup {client.player}, !.blocked = TRUE,
                    !.next = IF client.player.seq < @ THEN client.player.seq ELSE @]
  /\ UNCHANGED <<waiters, engine, downlink, uplink, session, heard, spent>>
PumpAgain ==
  /\ client.pumpSoon
  /\ client' = Pumped([client EXCEPT !.pumpSoon = FALSE])
  /\ UNCHANGED <<waiters, engine, downlink, uplink, session, heard, spent>>
\* The six seconds for a missing sequence are over.
SkipMissing ==
  /\ client.wait
  /\ client' = Pumped([client EXCEPT !.wait = FALSE, !.next = Earliest(client.items).seq])
  /\ UNCHANGED <<waiters, engine, downlink, uplink, session, heard, spent>>

\* sendMessage: a typed turn leaves the playback alone; this installation speaks
\* its answers to typed turns as well.
TypeTurn ==
  /\ spent.starts < MaxStarts /\ spent' = [spent EXCEPT !.starts = @ + 1]
  /\ session' = Ack("turn", 0)
  /\ UNCHANGED <<client, waiters, engine, downlink, uplink, heard>>

\* waitForUtterance and the narration request of a finished step.
AskNarration(u) ==
  /\ waiters[u].at = "idle"
  /\ \A v \in Narrations : waiters[v].at # "waiting"
  /\ waiters' = [waiters EXCEPT ![u].at = "waiting"]
  /\ session' = [session EXCEPT !.queue = Append(@, [kind |-> "say", utt |-> u, seq |-> 0])]
  /\ UNCHANGED <<client, engine, downlink, uplink, heard, spent>>
\* wrong: a blocked queue counts as progress
ProgressingBlocked == client.player # NoItem \/ client.wait \/ client.items # {}
Progressing == client.player # NoItem \/ client.wait \/ (~client.blocked /\ client.items # {})
\* handleUtteranceInactivity; when the pipeline progresses the timer is set again.
Inactivity(u) ==
  /\ waiters[u].at = "waiting" /\ ~Progressing
  /\ waiters' = [waiters EXCEPT ![u].at = "failed"]
  /\ UNCHANGED <<client, engine, downlink, uplink, session, heard, spent>>

Restart ==                                    \* the delayed beginUtterance after an error
  /\ client.restart
  /\ client' = IF Begins(client) THEN Fresh([client EXCEPT !.restart = FALSE]) ELSE [client EXCEPT !.restart = FALSE]
  /\ uplink' = IF Begins(client) THEN Append(uplink, "start") ELSE uplink
  /\ UNCHANGED <<waiters, engine, downlink, session, heard, spent>>

Committed(c) == IF c.committed THEN c ELSE [Cancelled(c) EXCEPT !.committed = TRUE, !.barrier = TRUE]
\* completeServerUtterance rolls into a fresh utterance on the same microphone.
Rolled(c) == IF c.mic = "on" THEN Fresh(c) ELSE [c EXCEPT !.listening = FALSE, !.local = FALSE, !.committed = FALSE]

Receive ==
  /\ downlink # <<>> /\ downlink' = Tail(downlink)
  /\ LET m == Head(downlink)
         commits == m.kind \in {"cancel", "final"} /\ ~client.committed
         rolls == m.kind \in {"final", "no_speech"} /\ client.mic = "on"
         starts == rolls \/ (m.kind = "listen" /\ Begins(client))
     IN /\ client' = CASE m.kind = "chunk" -> IF client.barrier THEN client
                                         ELSE Pumped([client EXCEPT !.items = @ \cup {[utt |-> m.utt, seq |-> m.seq]}])
                  [] m.kind = "end" -> client
                  [] m.kind = "cancel" -> Committed(client)
                  [] m.kind = "final" -> Rolled(Committed(client))
                  [] m.kind = "no_speech" -> Rolled(Rejected(client))
                  [] m.kind = "listen" -> IF Begins(client) THEN Fresh(client) ELSE client
                  [] m.kind = "error" -> [Rejected(client) EXCEPT !.listening = FALSE, !.restart = client.mic = "on"]
        /\ waiters' = IF commits THEN Interrupted(waiters)
                    ELSE IF m.kind = "end" /\ m.utt \in Narrations /\ waiters[m.utt].at = "waiting"
                    THEN Resolved([waiters EXCEPT ![m.utt].ended = TRUE, ![m.utt].last = m.seq], m.utt, client.played)
                    ELSE waiters
        /\ uplink' = IF starts THEN Append(uplink, "start") ELSE uplink
        /\ LET acked == IF commits THEN AckCancel ELSE session
           IN session' = IF m.kind = "final"
                         THEN [acked EXCEPT !.queue = Append(@, [kind |-> "turn", utt |-> "none", seq |-> 0])]
                         ELSE acked
  /\ UNCHANGED <<engine, heard, spent>>

-----------------------------------------------------------------------------
(* The server *)

Say(u, chunks) == [utt |-> u, gen |-> engine.gen, left |-> chunks]
Silence(t) == [t EXCEPT !.gen = @ + 1]        \* SpeechEngine.interrupt

Without(q, i) == SubSeq(q, 1, i - 1) \o SubSeq(q, i + 1, Len(q))
\* Acknowledgements of playback are handled as they arrive, whatever the actor
\* is doing and whatever waits for it.
IsAck(m) == m.kind \in {"ended", "cancelled", "failed"}
Acknowledge ==
  /\ \E i \in DOMAIN session.queue :
       LET m == session.queue[i]
           out == IF m.kind = "ended" THEN engine.out \ {m.seq} ELSE {}
       IN /\ IsAck(m) /\ \A j \in 1 .. i - 1 : ~IsAck(session.queue[j])
          /\ engine' = [engine EXCEPT !.out = out, !.turn = IF out = {} /\ @ = "speaking" THEN "listening" ELSE @]
          /\ session' = [session EXCEPT !.queue = Without(@, i)]
  /\ UNCHANGED <<client, waiters, downlink, uplink, heard, spent>>

\* speakLines for a narration, the streamed sentences of an answer for a turn.
Hear ==
  /\ session.queue # <<>> /\ session.saying = "none"
  /\ LET m == Head(session.queue)
         rest == Tail(session.queue)
         fresh == {a \in Answers : a \notin session.said}
         speak(u, tasks) ==
           /\ engine' = [engine EXCEPT !.seq = @ + 2, !.tasks = @ \o tasks, !.turn = IF m.kind = "turn" THEN "thinking" ELSE @]
           /\ session' = [queue |-> rest, saying |-> u, last |-> Nothing, said |-> session.said \cup {u}]
     IN \/ /\ m.kind = "say" /\ speak(m.utt, <<Say(m.utt, <<engine.seq + 1, engine.seq + 2>>)>>)
           /\ downlink' = Append(downlink, Msg("listen"))
        \/ /\ m.kind = "turn"
           /\ \E a \in fresh : speak(a, <<Say(a, <<engine.seq + 1>>), Say(a, <<engine.seq + 2>>)>>)
           /\ UNCHANGED downlink
        \/ /\ m.kind = "turn" /\ fresh = {}
           /\ session' = [session EXCEPT !.queue = rest] /\ UNCHANGED <<engine, downlink>>
  /\ UNCHANGED <<client, waiters, uplink, heard, spent>>

\* The synthesis queue runs one say at a time; an interrupt starts a new queue.
MayRun(i) == \A j \in 1 .. i - 1 : engine.tasks[j].gen # engine.tasks[i].gen

Synthesize(i) ==
  /\ MayRun(i)
  /\ LET t == engine.tasks[i]
         stale == t.gen # engine.gen
     IN \/ /\ ~stale
           /\ engine' = [engine EXCEPT !.out = @ \cup {Head(t.left)}, !.turn = "speaking",
                             !.tasks = IF Len(t.left) = 1 THEN Without(@, i) ELSE [@ EXCEPT ![i].left = Tail(t.left)]]
           /\ downlink' = Append(downlink, [kind |-> "chunk", utt |-> t.utt, seq |-> Head(t.left)])
           /\ session' = IF Len(t.left) = 1 /\ session.saying = t.utt
                         THEN [session EXCEPT !.last = Head(t.left)] ELSE session
        \/ /\ stale
           /\ engine' = [engine EXCEPT !.tasks = Without(@, i)] /\ UNCHANGED <<downlink, session>>
        \/ /\ ~stale
           /\ engine' = [engine EXCEPT !.tasks = Without(@, i)]
           /\ downlink' = Append(downlink, Msg("error"))
           /\ session' = IF session.saying = t.utt THEN [session EXCEPT !.saying = "none"] ELSE session
  /\ UNCHANGED <<client, waiters, uplink, heard, spent>>

\* Every line of the utterance is over: tts.end, and the actor goes on.
EndUtterance ==
  /\ session.saying # "none" /\ \A i \in DOMAIN engine.tasks : engine.tasks[i].utt # session.saying
  /\ downlink' = Append(downlink, [kind |-> "end", utt |-> session.saying, seq |-> session.last])
  /\ session' = [session EXCEPT !.saying = "none"]
  /\ UNCHANGED <<client, waiters, engine, uplink, heard, spent>>

IsSpeaking == engine.turn = "speaking" \/ engine.out # {}
\* TurnManager.onUserVoice: stopAudio and cancelSpeech when the assistant is speaking.
Yielded(t) == IF IsSpeaking THEN [Silence(t) EXCEPT !.out = {}, !.turn = "listening"]
              ELSE IF t.turn = "thinking" THEN t ELSE [t EXCEPT !.turn = "listening"]
Yield == IF IsSpeaking THEN Append(downlink, Msg("cancel")) ELSE downlink

HearVoice ==
  /\ uplink # <<>> /\ uplink' = Tail(uplink)
  /\ LET m == Head(uplink)
     IN \/ m = "start" /\ engine' = [engine EXCEPT !.stt = TRUE] /\ UNCHANGED downlink
        \/ m = "start" /\ ~engine.stt /\ downlink' = Append(downlink, Msg("error")) /\ UNCHANGED engine
        \/ m = "barge" /\ engine' = Silence(Yielded(engine)) /\ downlink' = Yield
        \/ m = "cancel" /\ engine' = [engine EXCEPT !.stt = FALSE] /\ UNCHANGED downlink
  /\ UNCHANGED <<client, waiters, session, heard, spent>>

\* The speech-to-text service: speech start, a transcript that is accepted, one
\* that is our own echo or nothing, a failure.
Stt ==
  /\ engine.stt /\ spent.speech < MaxSpeech
  /\ spent' = [spent EXCEPT !.speech = @ + 1]
  /\ \/ engine' = Yielded(engine) /\ downlink' = Yield
     \/ \E kind \in {"final", "no_speech", "error"} :
          engine' = [engine EXCEPT !.stt = FALSE] /\ downlink' = Append(downlink, Msg(kind))
  /\ UNCHANGED <<client, waiters, uplink, session, heard>>

Person == OpenMic \/ StopMic \/ LoudSound \/ StillLoud \/ TypeTurn \/ Stt \/ \E u \in Narrations : AskNarration(u)
Browser == MicReady \/ ProbeExpires \/ Starts \/ Ended \/ PlaybackFails \/ PlaybackBlocked \/ PumpAgain
           \/ SkipMissing \/ Restart \/ Receive \/ \E u \in Narrations : Inactivity(u)
Server == Hear \/ Acknowledge \/ EndUtterance \/ HearVoice \/ \E i \in DOMAIN engine.tasks : Synthesize(i)
VoiceNext == Person \/ Browser \/ Server

\* Timers fire, sockets deliver and the provider answers; people do as they like.
Fairness ==
  /\ WF_voiceVars(Receive) /\ WF_voiceVars(Hear) /\ WF_voiceVars(Acknowledge) /\ WF_voiceVars(HearVoice) /\ WF_voiceVars(EndUtterance)
  /\ WF_voiceVars(\E i \in DOMAIN engine.tasks : Synthesize(i))
  /\ WF_voiceVars(Ended) /\ WF_voiceVars(PumpAgain) /\ WF_voiceVars(SkipMissing) /\ WF_voiceVars(ProbeExpires)
  /\ WF_voiceVars(Restart) /\ WF_voiceVars(MicReady)
  /\ \A u \in Narrations : WF_voiceVars(Inactivity(u))
VoiceSpec == VoiceInit /\ [][VoiceNext]_voiceVars /\ Fairness

-----------------------------------------------------------------------------
(***************************************************************************)
(* What a visitor hears is in the order it was written, whatever was       *)
(* cancelled, blocked, failed or interrupted on the way, and a narration   *)
(* reported complete is over: nothing of it is still playing or queued in  *)
(* the browser, so the next step of the journey does not run under it      *)
(* (engine.ts say; voice.ts pumpPlayback, resolveUtterance).  A narration  *)
(* the server gave up has no last sequence and is not covered.             *)
(***************************************************************************)
IsOver(u) == client.player.utt # u /\ \A i \in client.items : i.utt # u
HeardInOrder ==
  [][/\ heard' # heard => heard' > heard
     /\ \A u \in Narrations : waiters'[u].at = "completed" /\ waiters'[u].last # Nothing => IsOver(u)']_<<client, waiters, heard>>

(***************************************************************************)
(* A journey step never waits for its narration forever.                   *)
(***************************************************************************)
NarrationEnds == \A u \in Narrations : waiters[u].at = "waiting" ~> waiters[u].at # "waiting"

(***************************************************************************)
(* After a person's turn was accepted and is answered, the browser lets    *)
(* audio through again.  The runtime's test waits for tts.resume           *)
(* (test/server.test.ts:206); the runtime never sends one.                 *)
(***************************************************************************)
SpokenTurnIsHeard == client.barrier ~> ~client.barrier
=============================================================================
