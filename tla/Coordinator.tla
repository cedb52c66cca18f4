----------------------------- MODULE Coordinator -----------------------------
(***************************************************************************)
(* What recording and replay share: the fetch adapter's requests to the    *)
(* Coordinator, the HTTP server that authenticates them and decides which  *)
(* process the session belongs to, and the way its finish() closes it.     *)
(*                                                                         *)
(* A handler is two steps, the part before `await readJsonBody` and the    *)
(* part after it: handlers of other requests run in between.  Each mode's  *)
(* module adds the second part and what the adapter does with the answer.  *)
(***************************************************************************)
EXTENDS SessionStore

CONSTANTS
  Calls,      \* calls of fetch, over the life of the session
  Adapters,   \* processes that inherited the External configuration
  Strangers,  \* clients of the port that do not hold the token
  NoProcess

ASSUME ProcessAssumption ==
  /\ Adapters \cap Strangers = {}
  /\ NoProcess \notin Adapters \cup Strangers

VARIABLES
  pc,          \* per call, where the adapter's fetch function is
  proc,        \* per call, the process that made it
  key,         \* per call, its match key
  wire,        \* per call, how far its current request to the Coordinator is
  endpoint,    \* per call, the path of that request
  reply,       \* per call, the answer to it
  writerId,    \* the process the session belongs to
  otherProcessCalls,
  server,      \* of the HTTP server
  finishAs     \* the status the first finish() asked for

callVars   == <<pc, proc, key>>
wireVars   == <<wire, endpoint, reply>>
claimVars  == <<writerId, otherProcessCalls>>
serverVars == <<server, finishAs>>
coordinatorVars == <<callVars, wireVars, claimVars, serverVars>>

Processes == Adapters \cup Strangers
Endpoints == {"/begin", "/complete", "/lookup"}
Settled   == {"returned", "threw", "dead"}
Replies   == {"ok", "AUTH_FORBIDDEN", "WRITER_CONFLICT", "CONCURRENT_MATCH",
              "SESSION_NOT_RUNNING", "INTERACTION_NOT_FOUND",
              "INTERACTION_ALREADY_COMPLETE", "REPLAY_MISS", "REPLAY_SOURCE_INVALID",
              "REQUEST_INVALID", "COORDINATOR_INTERNAL",
              "EXTERNAL_REDACTION_INVARIANT_VIOLATION"}

InFlight(c) == wire[c] \in {"sent", "reading"}

CoordinatorTypeOK ==
  /\ pc \in [Calls -> {"idle", "request", "fetch", "encode", "bypass"} \cup Settled]
  /\ proc \in [Calls -> Processes \cup {NoProcess}]
  /\ key \in [Calls -> MatchKeys]
  /\ wire \in [Calls -> {"none", "sent", "reading", "answered", "lost"}]
  /\ endpoint \in [Calls -> Endpoints \cup {"none"}]
  /\ reply \in [Calls -> Replies \cup {"none"}]
  /\ writerId \in Adapters \cup {NoProcess}
  /\ otherProcessCalls \in Nat
  /\ server \in {"refused", "listening", "closing", "closed", "killed"}
  /\ finishAs \in {"none", "completed", "failed"}

\* The engine is made before the server: without it nothing is started.
CoordinatorInit(engineMade) ==
  /\ pc = [c \in Calls |-> "idle"]
  /\ proc = [c \in Calls |-> NoProcess]
  /\ key \in [Calls -> MatchKeys]
  /\ wire = [c \in Calls |-> "none"]
  /\ endpoint = [c \in Calls |-> "none"]
  /\ reply = [c \in Calls |-> "none"]
  /\ writerId = NoProcess
  /\ otherProcessCalls = 0
  /\ server = IF engineMade THEN "listening" ELSE "refused"
  /\ finishAs = "none"

-----------------------------------------------------------------------------
(* The adapter's client, in a child.                                       *)

\* A connection is refused unless the server still listens.
Post(c, path) ==
  /\ wire' = [wire EXCEPT ![c] = IF server = "listening" THEN "sent" ELSE "lost"]
  /\ endpoint' = [endpoint EXCEPT ![c] = path]
  /\ reply' = [reply EXCEPT ![c] = "none"]

\* A process that died in one of its calls makes no other.
CanCall(c, p) ==
  /\ pc[c] = "idle"
  /\ server # "refused"
  /\ \A d \in Calls : proc[d] = p => pc[d] # "dead"

\* fetch() is called: the request is normalised and posted.
StartFetch(c, p, path) ==
  /\ CanCall(c, p)
  /\ pc' = [pc EXCEPT ![c] = "request"]
  /\ proc' = [proc EXCEPT ![c] = p]
  /\ Post(c, path)
  /\ UNCHANGED <<key, claimVars, serverVars>>

\* fetch() is called with more than a request may hold: nothing is sent.
FetchTooLarge(c, p) ==
  /\ CanCall(c, p)
  /\ pc' = [pc EXCEPT ![c] = "threw"]
  /\ proc' = [proc EXCEPT ![c] = p]
  /\ UNCHANGED <<key, wireVars, claimVars, serverVars>>

Answered(c, path) ==
  /\ pc[c] = "request"
  /\ wire[c] = "answered"
  /\ endpoint[c] = path

\* The client's request timer.  What was sent may still be handled.
RequestTimeout(c) ==
  /\ pc[c] = "request"
  /\ pc' = [pc EXCEPT ![c] = "threw"]
  /\ UNCHANGED <<proc, key, wireVars, claimVars, serverVars>>

\* Weakened: a connection that closes before the answer ended goes unnoticed.
UnavailableUnnoticed(c) == FALSE /\ UNCHANGED coordinatorVars

\* Refused, reset, or closed before the answer ended: COORDINATOR_UNAVAILABLE.
Unavailable(c) ==
  /\ pc[c] = "request"
  /\ wire[c] = "lost"
  /\ pc' = [pc EXCEPT ![c] = "threw"]
  /\ UNCHANGED <<proc, key, wireVars, claimVars, serverVars>>

\* A process of the server under test dies, with every call in it.
ProcessGone(p) ==
  /\ pc' = [c \in Calls |-> IF proc[c] = p /\ pc[c] \notin Settled THEN "dead" ELSE pc[c]]
  /\ UNCHANGED <<proc, key, wireVars, claimVars, serverVars>>

-----------------------------------------------------------------------------
(* The Coordinator, in the parent.                                         *)

Answer(c, r) ==
  /\ wire' = [wire EXCEPT ![c] = "answered"]
  /\ reply' = [reply EXCEPT ![c] = r]
  /\ UNCHANGED endpoint

\* Without the token a request is refused before anything is claimed.
RefuseStranger(c) ==
  /\ server \in {"listening", "closing"}
  /\ wire[c] = "sent"
  /\ proc[c] \in Strangers
  /\ Answer(c, "AUTH_FORBIDDEN")
  /\ UNCHANGED <<callVars, claimVars, serverVars>>

\* Weakened: the latest request takes the claim over.
ClaimByLatest(p) == p

\* The first authenticated request claims the session.
Claim(p) == IF writerId = NoProcess THEN p ELSE writerId

\* Weakened: a refused call is not counted.
CountedConflictsForgotten == otherProcessCalls

CountedConflicts == otherProcessCalls + 1

\* The part of the handler before the body is awaited.
HandleHead(c) ==
  /\ server \in {"listening", "closing"}
  /\ wire[c] = "sent"
  /\ proc[c] \in Adapters
  /\ writerId' = Claim(proc[c])
  /\ IF writerId' = proc[c]
       THEN /\ wire' = [wire EXCEPT ![c] = "reading"]
            /\ UNCHANGED <<endpoint, reply, otherProcessCalls>>
       ELSE /\ otherProcessCalls' = CountedConflicts
            /\ Answer(c, "WRITER_CONFLICT")
  /\ UNCHANGED <<callVars, serverVars>>

\* The body of a request to this endpoint has been read.
BodyRead(c, path) ==
  /\ server \in {"listening", "closing"}
  /\ wire[c] = "reading"
  /\ endpoint[c] = path

\* A body that cannot be read, is too large or malformed: a 4xx, no more.
RefuseBody(c) ==
  /\ BodyRead(c, endpoint[c])
  /\ Answer(c, "REQUEST_INVALID")
  /\ UNCHANGED <<callVars, claimVars, serverVars>>

\* A request whose client is gone, or that a closing server never accepted.
RequestLost(c) ==
  /\ \/ wire[c] = "sent" /\ server = "closing"
     \/ InFlight(c) /\ pc[c] \in {"threw", "dead"}
  /\ wire' = [wire EXCEPT ![c] = "lost"]
  /\ UNCHANGED <<callVars, endpoint, reply, claimVars, serverVars>>

-----------------------------------------------------------------------------
(* The end of the session, in the parent.                                  *)

\* finish(): the first call decides; a later one gets the first's promise.
CallFinish(s) ==
  /\ finishAs = "none"
  /\ server = "listening"
  /\ finishAs' = s
  /\ server' = "closing"
  /\ UNCHANGED <<callVars, wireVars, claimVars>>

\* Weakened: a connection that was once used is waited for, for ever.
ServerDrainedOfIdle == \A c \in Calls : wire[c] = "none"

\* server.close() calls back when the last connection has ended.
ServerDrained == \A c \in Calls : ~InFlight(c)

ServerClosed ==
  /\ server = "closing"
  /\ ServerDrained
  /\ server' = "closed"
  /\ UNCHANGED <<callVars, wireVars, claimVars, finishAs>>

\* The parent dies, and every connection with it.
ParentKilled ==
  /\ server \in {"listening", "closing"}
  /\ server' = "killed"
  /\ wire' = [c \in Calls |-> IF InFlight(c) THEN "lost" ELSE wire[c]]
  /\ UNCHANGED <<callVars, endpoint, reply, claimVars, finishAs>>
=============================================================================
