----------------------------- MODULE Dashboard -----------------------------
(***************************************************************************)
(* The dashboard around one run: the HTTP server (handleRunEvents,         *)
(* handleGetRun and handleAnswer of routes.ts, over RunRegistry) and the   *)
(* browser tabs that watch the run and answer its questions                *)
(* (run-stream.ts, RunView.tsx, QuestionPanel.tsx).                        *)
(*                                                                         *)
(* Between them are three kinds of traffic that overtake each other: the   *)
(* event stream of a tab, its reads of the run's summary, and its POSTs of *)
(* answers with their replies.  Connections drop, requests and replies get *)
(* lost, tabs come and go, and the server, which keeps runs in memory      *)
(* only, may be started again.                                             *)
(***************************************************************************)
EXTENDS RunRegistry, FiniteSets

CONSTANTS
  Tabs,       \* tabs of a browser that have the run open, or not
  NoTab,      \* the sender of a request whose tab has left
  MaxVisits,  \* bound: times a tab opens the run
  MaxDrops    \* bound: connections, requests and replies the network loses

VARIABLES
  server,     \* "up"; "down"; "again" after a restart, which forgot the run
  tabs,       \* what each tab holds
  reads,      \* GET /api/runs/:id under way, each with its reply once it has one
  posts,      \* POST /api/runs/:id/answer under way, likewise
  visits,     \* times a tab opened the run so far
  drops       \* what the network lost so far

dashboardVars == <<command, events, asked, pending, resolved, finished,
                   server, tabs, reads, posts, visits, drops>>

(* INITIAL_STATE of a mounted screen and the EventSource it opens; `got`   *)
(* is the last event id the source handed over, `stream` what the server   *)
(* wrote to the open connection and the tab has not read.                  *)
Mounted ==
  [source |-> "connecting", got |-> 0, stream |-> <<>>, log |-> <<>>,
   status |-> "null", question |-> 0, answered |-> 0, error |-> FALSE, missing |-> FALSE]

Away == [Mounted EXCEPT !.source = "away"]

IsOpen(t) == tabs[t].source # "away"

NewRead(t) == [tab |-> t, reply |-> "none"]

DashboardInit ==
  /\ RunInit
  /\ server = "up"
  /\ tabs = [t \in Tabs |-> Away]
  /\ reads = {}
  /\ posts = {}
  /\ visits = 0
  /\ drops = 0

-----------------------------------------------------------------------------
(* The run, while the server lives.  emit hands a new event to every       *)
(* listener, in the step that adds it.                                     *)

Identified(first, last) == [i \in 1..(last + 1 - first) |-> [id |-> first + i - 1, event |-> events'[first + i - 1]]]

Emitted == Identified(Len(events) + 1, Len(events'))

Broadcast ==
  tabs' = [t \in Tabs |->
             IF tabs[t].source = "open"
             THEN [tabs[t] EXCEPT !.stream = @ \o Emitted] ELSE tabs[t]]

RunStep ==
  /\ server = "up"
  /\ RunNext
  /\ Broadcast
  /\ UNCHANGED <<server, reads, posts, visits, drops>>

-----------------------------------------------------------------------------
(* A tab mounts and unmounts the screen of the run.                        *)

OpenRun(t) ==
  /\ ~IsOpen(t)
  /\ visits < MaxVisits
  /\ visits' = visits + 1
  /\ tabs' = [tabs EXCEPT ![t] = Mounted]
  /\ reads' = reads \cup {NewRead(t)}
  /\ UNCHANGED <<runVars, server, posts, drops>>

(* Unmounting closes the source; replies still under way find no screen.   *)
LeaveRun(t) ==
  /\ IsOpen(t)
  /\ tabs' = [tabs EXCEPT ![t] = Away]
  /\ reads' = {r \in reads : r.tab # t}
  /\ posts' = {IF p.tab = t THEN [p EXCEPT !.tab = NoTab] ELSE p : p \in posts}
  /\ UNCHANGED <<runVars, server, visits, drops>>

-----------------------------------------------------------------------------
(* The event stream.                                                       *)

(* Weakened: subscribes without replaying what the tab has missed. *)
ConnectLive(t) ==
  /\ server = "up"
  /\ tabs[t].source = "connecting"
  /\ tabs' = [tabs EXCEPT ![t].source = "open", ![t].stream = <<>>]
  /\ UNCHANGED <<runVars, server, reads, posts, visits, drops>>

(* handleRunEvents: the events after Last-Event-ID, then the subscription, *)
(* with nothing between.  The EventSource repeats its GET until it is      *)
(* answered.                                                               *)
ConnectStream(t) ==
  /\ server = "up"
  /\ tabs[t].source = "connecting"
  /\ tabs' = [tabs EXCEPT ![t].source = "open",
                          ![t].stream = [i \in 1..(Len(events) - tabs[t].got) |->
                             [id |-> tabs[t].got + i, event |-> events[tabs[t].got + i]]]]
  /\ UNCHANGED <<runVars, server, reads, posts, visits, drops>>

(* A 404 ends the source for good; its error handler reads the summary.    *)
ConnectRefused(t) ==
  /\ server = "again"
  /\ tabs[t].source = "connecting"
  /\ tabs' = [tabs EXCEPT ![t].source = "closed"]
  /\ reads' = reads \cup {NewRead(t)}
  /\ UNCHANGED <<runVars, server, posts, visits, drops>>

(* The connection breaks: what was on its way is gone, the server          *)
(* unsubscribes the tab, and the source connects again.                    *)
DropStream(t) ==
  /\ tabs[t].source = "open"
  /\ drops < MaxDrops
  /\ drops' = drops + 1
  /\ tabs' = [tabs EXCEPT ![t].source = "connecting", ![t].stream = <<>>]
  /\ UNCHANGED <<runVars, server, reads, posts, visits>>

(* Weakened: a line clears the question, as the end of the run does. *)
ReducedByLine(tab, received) ==
  LET e == received.event
      next == [tab EXCEPT !.log = Append(@, received), !.error = FALSE, !.missing = FALSE]
  IN  IF \E i \in 1..Len(tab.log) : tab.log[i].id = received.id THEN tab
      ELSE IF e.kind = "question"
      THEN [next EXCEPT !.status = "waiting-input", !.question = e.about]
      ELSE [next EXCEPT !.status = IF e.kind = "done" THEN e.about ELSE "running", !.question = 0]

(* The reducer of onmessage. *)
Reduced(tab, received) ==
  LET e == received.event
      next == [tab EXCEPT !.log = Append(@, received), !.error = FALSE, !.missing = FALSE]
  IN  IF \E i \in 1..Len(tab.log) : tab.log[i].id = received.id THEN tab
      ELSE IF e.kind = "question"
      THEN [next EXCEPT !.status = "waiting-input", !.question = e.about]
      ELSE IF e.kind = "done"
      THEN [next EXCEPT !.status = e.about, !.question = 0]
      ELSE [next EXCEPT !.status = "running"]

(* The source hands the next event over. *)
Taken(tab) == [tab EXCEPT !.stream = Tail(@), !.got = Head(tab.stream).id]

Receive(t) ==
  /\ tabs[t].source = "open"
  /\ tabs[t].stream # <<>>
  /\ tabs' = [tabs EXCEPT ![t] = Reduced(Taken(@), Head(@.stream))]
  /\ UNCHANGED <<runVars, server, reads, posts, visits, drops>>

-----------------------------------------------------------------------------
(* The summary of the run (refresh).                                       *)

AnswerRead(r) ==
  /\ server # "down"
  /\ r.reply = "none"
  /\ reads' = (reads \ {r}) \cup
       {[r EXCEPT !.reply = IF server = "up" THEN RunStatus ELSE "404"]}
  /\ UNCHANGED <<runVars, server, tabs, posts, visits, drops>>

LoseRead(r) ==
  /\ drops < MaxDrops
  /\ r.reply \in {"none"} \cup Statuses
  /\ drops' = drops + 1
  /\ reads' = (reads \ {r}) \cup {[r EXCEPT !.reply = "lost"]}
  /\ UNCHANGED <<runVars, server, tabs, posts, visits>>

(* Weakened: every failed read says that there is no such run. *)
RefreshedMissing(tab, reply) ==
  IF reply \in Statuses
  THEN [tab EXCEPT !.status = IF @ = "null" THEN reply ELSE @]
  ELSE [tab EXCEPT !.error = TRUE, !.missing = TRUE]

(* Weakened: the reply's status replaces what the events said. *)
RefreshedOver(tab, reply) ==
  IF reply \in Statuses
  THEN [tab EXCEPT !.status = reply]
  ELSE [tab EXCEPT !.error = TRUE, !.missing = (reply = "404" /\ tab.log = <<>>)]

(* What refresh does with a reply: it fills a status no event has set, or  *)
(* shows the failure, as "no such run" only for a 404 before any event.    *)
Refreshed(tab, reply) ==
  IF reply \in Statuses
  THEN [tab EXCEPT !.status = IF @ = "null" THEN reply ELSE @]
  ELSE [tab EXCEPT !.error = TRUE, !.missing = (reply = "404" /\ tab.log = <<>>)]

ReadReply(r) ==
  /\ r.reply # "none"
  /\ reads' = reads \ {r}
  /\ tabs' = [tabs EXCEPT ![r.tab] = Refreshed(@, r.reply)]
  /\ UNCHANGED <<runVars, server, posts, visits, drops>>

-----------------------------------------------------------------------------
(* Answers.                                                                *)

(* The question a tab shows: the last one, unless this tab answered it. *)
Shown(t) == IF tabs[t].question = tabs[t].answered THEN 0 ELSE tabs[t].question

(* The panel of a question is disabled while its own POST is under way. *)
Submit(t) ==
  /\ Shown(t) # 0
  /\ ~ \E p \in posts : p.tab = t /\ p.question = Shown(t)
  /\ posts' = posts \cup {[tab |-> t, from |-> t, question |-> Shown(t), reply |-> "none"]}
  /\ UNCHANGED <<runVars, server, tabs, reads, visits, drops>>

Reply(p, reply) == posts' = (posts \ {p}) \cup {[p EXCEPT !.reply = reply]}

(* handleAnswer, 204: the run takes the answer. *)
AcceptAnswer(p) ==
  /\ server = "up"
  /\ p.reply = "none"
  /\ Accepts(p.question)
  /\ TakeAnswer([from |-> p.from, question |-> p.question])
  /\ Broadcast
  /\ Reply(p, "ok")
  /\ UNCHANGED <<server, reads, visits, drops>>

(* handleAnswer, 409 or 404. *)
RefuseAnswer(p) ==
  /\ server # "down"
  /\ p.reply = "none"
  /\ server = "up" => ~Accepts(p.question)
  /\ Reply(p, "refused")
  /\ UNCHANGED <<runVars, server, tabs, reads, visits, drops>>

(* The request or its reply is lost: the tab sees a failure either way. *)
LosePost(p) ==
  /\ drops < MaxDrops
  /\ p.reply \in {"none", "ok"}
  /\ drops' = drops + 1
  /\ Reply(p, "lost")
  /\ UNCHANGED <<runVars, server, tabs, reads, visits>>

PostReply(p) ==
  /\ p.reply # "none"
  /\ posts' = posts \ {p}
  /\ tabs' = IF p.tab # NoTab /\ p.reply = "ok"
             THEN [tabs EXCEPT ![p.tab].answered = p.question] ELSE tabs
  /\ UNCHANGED <<runVars, server, reads, visits, drops>>

-----------------------------------------------------------------------------
(* The server is stopped, with its runs and every connection, and may be   *)
(* started again.                                                          *)

Stop ==
  /\ server = "up"
  /\ server' = "down"
  /\ tabs' = [t \in Tabs |->
                IF tabs[t].source = "open"
                THEN [tabs[t] EXCEPT !.source = "connecting", !.stream = <<>>] ELSE tabs[t]]
  /\ reads' = {IF r.reply = "none" THEN [r EXCEPT !.reply = "lost"] ELSE r : r \in reads}
  /\ posts' = {IF p.reply = "none" THEN [p EXCEPT !.reply = "lost"] ELSE p : p \in posts}
  /\ UNCHANGED <<runVars, visits, drops>>

Restart ==
  /\ server = "down"
  /\ server' = "again"
  /\ UNCHANGED <<runVars, tabs, reads, posts, visits, drops>>

-----------------------------------------------------------------------------
DashboardNext ==
  \/ RunStep
  \/ \E t \in Tabs :
       \/ OpenRun(t) \/ LeaveRun(t) \/ Submit(t)
       \/ ConnectStream(t) \/ ConnectRefused(t) \/ DropStream(t) \/ Receive(t)
  \/ \E r \in reads : AnswerRead(r) \/ LoseRead(r) \/ ReadReply(r)
  \/ \E p \in posts : AcceptAnswer(p) \/ RefuseAnswer(p) \/ LosePost(p) \/ PostReply(p)
  \/ Stop
  \/ Restart

DashboardSpec == DashboardInit /\ [][DashboardNext]_dashboardVars

(* The network and the two event loops deliver what is not lost; users,    *)
(* commands and restarts owe nothing.                                      *)
DashboardFairness ==
  /\ \A t \in Tabs : WF_dashboardVars(ConnectStream(t)) /\ WF_dashboardVars(Receive(t))
  /\ WF_dashboardVars(\E r \in reads : AnswerRead(r))
  /\ WF_dashboardVars(\E r \in reads : ReadReply(r))
  /\ WF_dashboardVars(\E p \in posts : AcceptAnswer(p) \/ RefuseAnswer(p))

FairDashboardSpec == DashboardSpec /\ DashboardFairness

-----------------------------------------------------------------------------
(* The state has the shape the code gives it. *)
DashboardTypeOK ==
  /\ command \in {"queued", "working", "asking", "ended"}
  /\ asked \in 0..MaxQuestions
  /\ pending \in 0..asked
  /\ finished \in {"unset"} \cup EndStatuses
  /\ server \in {"up", "down", "again"}
  /\ \A i \in 1..Len(events) : events[i] \in Events
  /\ \A t \in Tabs : tabs[t].source \in {"away", "connecting", "open", "closed"}
  /\ visits \in 0..MaxVisits
  /\ drops \in 0..MaxDrops

(* What a tab has received is always a prefix of what the run wrote, each  *)
(* event under its own id: over reconnects, late subscriptions and events  *)
(* emitted in between nothing is missed, repeated or out of order          *)
(* (handleRunEvents: replay and subscribe in one synchronous section).     *)
LogIsPrefix ==
  \A t \in Tabs :
    /\ Len(tabs[t].log) <= Len(events)
    /\ \A i \in 1..Len(tabs[t].log) : tabs[t].log[i] = [id |-> i, event |-> events[i]]

(* The command never goes on with an answer meant for another question:    *)
(* the n-th promise is resolved once, by a tab that showed question n,     *)
(* whatever late, repeated and lost POSTs there are (WebReviewIO.answer).  *)
AnswersReachTheirQuestion ==
  /\ \A n \in 1..Len(resolved) : resolved[n].question = n
  /\ Len(resolved) = asked - (IF pending = 0 THEN 0 ELSE 1)

(* A tab says that there is no such run only when the server has none, and *)
(* never over output it received; any other failure leaves that open       *)
(* (run-stream.ts, `missing`).                                             *)
MissingMeansForgotten ==
  \A t \in Tabs : tabs[t].missing => server = "again" /\ tabs[t].log = <<>>

(* A question that nobody answers comes to be shown, and stays shown, in   *)
(* every tab that stays: not lost to a line that follows it, to a broken   *)
(* connection or to a late reply to another answer, for nobody else can    *)
(* set the command going (onmessage keeps pendingQuestion over lines).     *)
WaitingIsShown ==
  \A t \in Tabs, q \in 1..MaxQuestions :
    <>[](server = "up" /\ IsOpen(t) /\ pending = q) => <>[](Shown(t) = q)

(* The end of the run reaches every tab that stays, and no summary read    *)
(* before the end and delivered after it takes it back (refresh fills the  *)
(* status only while it is null).                                          *)
EndIsShown ==
  \A t \in Tabs :
    (server = "up" /\ IsOpen(t) /\ finished # "unset")
      ~> (server # "up" \/ ~IsOpen(t) \/ tabs[t].status = finished)
=============================================================================
