------------------------------ MODULE ToolHistory ------------------------------
(***************************************************************************)
(* The conversation a hosted demo keeps with the model.  Turns of one demo *)
(* may overlap and share it: each appends its question, its answers with   *)
(* tool calls, and their results; before every request it is pruned and    *)
(* repaired, because a provider refuses a call without its result for      *)
(* ever.  Images, and what texts and arguments say, are left out.          *)
(***************************************************************************)
EXTENDS Naturals, Sequences, FiniteSets, SequencesExt

CONSTANTS Turns,        \* 1 .. n: the messages of the visitor
          MaxCalls,     \* tool calls of one answer
          MaxRounds,    \* requests of a turn (12)
          MaxMessages   \* AGENT_MAX_MESSAGES (24): a turn by itself has to fit, with one
                        \* question, and two messages for each round but the last

VARIABLES messages,   \* [role, text, calls, results]
          asking,     \* each turn: [at, round, made, calls, alone]
          did,        \* the calls whose action was carried out
          sent        \* the last request: [by, messages]

vars == <<messages, asking, did, sent>>

NoText == 0
Other == Cardinality(Turns) + 1    \* a text that is no question
Message == [role |-> "user", text |-> NoText, calls |-> <<>>, results |-> <<>>]
Question(t) == [Message EXCEPT !.text = t]
Said(text, calls) == [Message EXCEPT !.role = "assistant", !.text = text, !.calls = calls]
ResultsOf(rs) == [Message EXCEPT !.results = rs]

Init ==
  /\ messages = <<>>
  /\ asking = [t \in Turns |-> [at |-> "unsaid", round |-> 0, made |-> 0, calls |-> <<>>, alone |-> TRUE]]
  /\ did = {}
  /\ sent = [by |-> 0, messages |-> <<>>]

Push(m) == messages' = Append(messages, m)
Under == {t \in Turns : asking[t].at \notin {"unsaid", "over"}}

-----------------------------------------------------------------------------
(* normalizeToolHistory and pruneNeutralHistory *)

\* Every open call gets its result, or one that says it did not complete.
Close(acc, results) ==
  IF acc.open = <<>> THEN acc
  ELSE [open |-> <<>>,
        out |-> Append(acc.out, ResultsOf([i \in DOMAIN acc.open |->
                  [id |-> acc.open[i], done |-> \E r \in ToSet(results) : r.id = acc.open[i] /\ r.done]]))]
Take(acc, m) ==
  LET c == Close(acc, m.results)
      bare == [m EXCEPT !.results = <<>>]
  IN IF m.text = NoText /\ m.calls = <<>> THEN c
     ELSE [out |-> Append(c.out, bare), open |-> m.calls]
Repaired(ms) == FoldLeft(Take, [out |-> <<>>, open |-> <<>>], ms)
\* wrong: calls at the end of the conversation are taken for calls under way
NormalizedOpen(ms) == Repaired(ms).out
Normalized(ms) == Close(Repaired(ms), <<>>).out

\* The latest groups that fit, a call and its results being one; at least one.
Pruned(ms) ==
  LET n == Normalized(ms)
      starts == {i \in DOMAIN n : n[i].results = <<>>}
      fit == {i \in starts : Len(n) - i < MaxMessages}
      from == IF fit = {} THEN CHOOSE i \in starts : \A j \in starts : j =< i
              ELSE CHOOSE i \in fit : \A j \in fit : i =< j
  IN IF Len(n) =< MaxMessages THEN n ELSE SubSeq(n, from, Len(n))

-----------------------------------------------------------------------------
(* The turns *)

\* The turn before it is over, or did not end within 750 ms.
Ask(t) ==
  /\ asking[t].at = "unsaid" /\ \A u \in Turns : u < t => asking[u].at # "unsaid"
  /\ Push(Question(t))
  /\ asking' = [u \in Turns |->
       IF u = t THEN [asking[t] EXCEPT !.at = "asked", !.alone = Under = {}]
       ELSE IF u \in Under THEN [asking[u] EXCEPT !.alone = FALSE] ELSE asking[u]]
  /\ UNCHANGED <<did, sent>>

\* A verified flow run without the model, the note of an interruption, an error.
Done(t) == asking' = [asking EXCEPT ![t].at = "over"]
Shortcut(t) ==
  /\ asking[t].at = "asked" /\ Done(t)
  /\ \/ asking[t].round = 0 /\ Push(Said(Other, <<>>))
     \/ Push([Message EXCEPT !.text = Other])
     \/ UNCHANGED messages
  /\ UNCHANGED <<did, sent>>

Request(t) ==
  /\ asking[t].at = "asked" /\ asking[t].round < MaxRounds
  /\ messages' = Pruned(messages)
  /\ sent' = [by |-> t, messages |-> messages']
  /\ asking' = [asking EXCEPT ![t].at = "model", ![t].round = @ + 1]
  /\ UNCHANGED did

\* The answer, or an error that ends the turn.
Ids(t, n) == [i \in 1 .. n |-> <<t, asking[t].made + i>>]
Answer(t) ==
  /\ asking[t].at = "model"
  /\ \/ Done(t) /\ UNCHANGED messages
     \/ \E text \in {NoText, Other} : Push(Said(text, <<>>)) /\ Done(t)
     \/ \E n \in 1 .. MaxCalls :                 \* a text beside calls changes nothing
          /\ Push(Said(NoText, Ids(t, n)))
          /\ asking' = [asking EXCEPT ![t].at = "tools", ![t].made = @ + n, ![t].calls = Ids(t, n)]
  /\ UNCHANGED <<did, sent>>

\* However the tools end, each call gets one result; the turn goes on unless
\* it finished, failed or had its last round.
Results(t) ==
  /\ asking[t].at = "tools"
  /\ \E done \in SUBSET ToSet(asking[t].calls) :
       /\ did' = did \cup done
       /\ Push(ResultsOf([i \in DOMAIN asking[t].calls |-> [id |-> asking[t].calls[i], done |-> asking[t].calls[i] \in done]]))
  /\ \E at \in {"over"} \cup (IF asking[t].round < MaxRounds THEN {"asked"} ELSE {}) :
       asking' = [asking EXCEPT ![t].at = at, ![t].calls = <<>>]
  /\ UNCHANGED sent

Next == \E t \in Turns : Ask(t) \/ Shortcut(t) \/ Request(t) \/ Answer(t) \/ Results(t)
Spec == Init /\ [][Next]_vars

-----------------------------------------------------------------------------
TypeOK ==
  /\ \A i \in DOMAIN messages : messages[i].role \in {"user", "assistant"}
  /\ \A t \in Turns : asking[t].at \in {"unsaid", "asked", "model", "tools", "over"}

Answers(m) == [i \in DOMAIN m.results |-> m.results[i].id]
\* A call is followed at once by one result for each, and no result stands alone.
Paired(ms) ==
  \A i \in DOMAIN ms :
    /\ ms[i].calls # <<>> => i < Len(ms) /\ Answers(ms[i + 1]) = ms[i].calls
    /\ ms[i].results # <<>> => i > 1 /\ Answers(ms[i]) = ms[i - 1].calls /\ ms[i].text = NoText
\* A turn that no other turn met asks its own question, and its calls are
\* reported as they went.
Undisturbed(t, ms) ==
  /\ t = sent.by => \E i \in DOMAIN ms : ms[i].text = t
  /\ \A i \in DOMAIN ms : \A r \in ToSet(ms[i].results) : r.id[1] = t => (r.done <=> r.id \in did)

(***************************************************************************)
(* Whatever turns overlap, fail or are cut off, a request is one the       *)
(* provider accepts and is of bounded length; and pruning and repair take  *)
(* neither the question nor a result from a turn that had the conversation *)
(* to itself (brain.ts "Tool exchanges are atomic", agent.ts "EVERY        *)
(* tool_call must get a matching tool_result").                            *)
(***************************************************************************)
RequestsAreWhole ==
  /\ Paired(sent.messages)
  /\ Len(sent.messages) =< (IF MaxMessages > 2 THEN MaxMessages ELSE 2)
  /\ \A t \in Turns : asking[t].alone => Undisturbed(t, sent.messages)
=============================================================================
