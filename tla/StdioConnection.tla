-------------------------- MODULE StdioConnection --------------------------
(***************************************************************************)
(* connectStdio: a server process is spawned, the protocol handshake is    *)
(* made over its pipes, and the caller gets a connection, or an error when *)
(* the process has been disposed of.  NodeControlledStdioTransport has a   *)
(* state of its own until the lifecycle controller has something to say.   *)
(***************************************************************************)
EXTENDS Lifecycle

VARIABLES
  own,       \* #state of the transport
  startP,    \* #startPromise
  connectP,  \* the promise of connectStdio
  cleanup,   \* the promise its catch clause waits for, as ForceAnswer names it
  failSeen   \* #transportFailureObserved

transportVars == <<own, startP, connectP, cleanup, failSeen>>
vars          == <<lc, child, told, own, startP, connectP, cleanup, failSeen>>

TypeOK ==
  /\ LifecycleTypeOK
  /\ own \in {"created", "starting", "handshaking", "open", "failed"}
  /\ startP \in {"none", "pending", "resolved", "rejected"}
  /\ connectP \in {"pending", "cleaning", "connected", "threw", "threwBoth"}
  /\ cleanup \in {"none", "force", "close", "terminal"}
  /\ failSeen \in BOOLEAN

Init ==
  /\ lc = NewController
  /\ child = "none"
  /\ told = {}
  /\ own = "created"
  /\ startP = "none"
  /\ connectP = "pending"
  /\ cleanup = "none"
  /\ failSeen = FALSE

\* get state()
TransportState == IF lc.state = "open" THEN own ELSE lc.state

Reject(p) == IF p = "pending" THEN "rejected" ELSE p

\* forceClose() of the transport first gives up a start that is under way.
AbandonStart == startP' = IF own = "starting" THEN Reject(startP) ELSE startP

-----------------------------------------------------------------------------
Start ==
  /\ own = "created"
  /\ own' = "starting" /\ startP' = "pending" /\ child' = "spawning"
  /\ UNCHANGED <<lc, told, connectP, cleanup, failSeen>>

\* spawn() throws: there is no process, and no controller.
StartThrows ==
  /\ own = "created"
  /\ own' = "failed" /\ startP' = "rejected"
  /\ UNCHANGED <<lc, child, told, connectP, cleanup, failSeen>>

\* The spawn event completes a start that was not given up meanwhile.
Spawned ==
  /\ child = "spawning"
  /\ child' = "running"
  /\ IF TransportState = "starting"
       THEN own' = "handshaking" /\ startP' = "resolved"
       ELSE UNCHANGED <<own, startP>>
  /\ UNCHANGED <<lc, told, connectP, cleanup, failSeen>>

\* The error event in place of spawn: no such command.
SpawnFails ==
  /\ child = "spawning"
  /\ child' = "exited"
  /\ startP' = Reject(startP)
  /\ lc' \in ForceCloseOutcomes(lc)
  /\ UNCHANGED <<told, own, connectP, cleanup, failSeen>>

\* #transportFailed: a broken pipe, a message too large or not JSON.
TransportFailed ==
  /\ child \in {"spawning", "running", "exited"}
  /\ ~failSeen /\ TransportState \notin {"closed", "failed"}
  /\ failSeen' = TRUE
  /\ AbandonStart
  /\ lc' \in ForceCloseOutcomes(lc)
  /\ UNCHANGED <<child, told, own, connectP, cleanup>>

-----------------------------------------------------------------------------
\* The server answered initialize, and markOpen() runs before anything else.
HandshakeOk ==
  /\ connectP = "pending" /\ startP = "resolved"
  /\ TransportState = "handshaking" /\ child # "spawning"
  /\ connectP' = "connected" /\ own' = "open"
  /\ UNCHANGED <<lc, child, told, startP, cleanup, failSeen>>

\* Weakened: the catch clause throws without closing.
CleanUpNothing == /\ connectP' = "threw"
                  /\ UNCHANGED <<lc, startP, told, cleanup>>

\* The catch clause of connectStdio: forceClose(), whose promise it awaits.
CleanUp ==
  /\ connectP' = "cleaning"
  /\ IF child = "none"
       THEN cleanup' = "terminal" /\ UNCHANGED <<lc, startP, told>>
       ELSE /\ AbandonStart
            /\ lc' \in ForceCloseOutcomes(lc)
            /\ cleanup' = ForceAnswer(lc')
            /\ told' = told \cup {ForceAnswer(lc')}

\* The start failed, the server refused, is gone, or the handshake timed out.
HandshakeFails ==
  /\ connectP = "pending" /\ startP \in {"resolved", "rejected"}
  /\ CleanUp
  /\ UNCHANGED <<child, own, failSeen>>

Awaited == Promised(lc, cleanup)

CleanUpEnds ==
  /\ connectP = "cleaning" /\ Awaited # "pending"
  /\ connectP' = IF Awaited = "resolved" THEN "threw" ELSE "threwBoth"
  /\ UNCHANGED <<lc, child, told, own, startP, cleanup, failSeen>>

-----------------------------------------------------------------------------
\* What the owner of the connection, its process and its timers do.
UserClose      == connectP = "connected" /\ CallClose      /\ UNCHANGED transportVars
UserForceClose == connectP = "connected" /\ CallForceClose /\ UNCHANGED transportVars
Hook           == HookEnds    /\ UNCHANGED transportVars
Timer          == TimerFires  /\ UNCHANGED transportVars
Exit           == ChildExits  /\ UNCHANGED transportVars
CloseEvent     == ChildClosed /\ UNCHANGED transportVars

Next ==
  \/ Start \/ StartThrows \/ Spawned \/ SpawnFails \/ TransportFailed
  \/ HandshakeOk \/ HandshakeFails \/ CleanUpEnds
  \/ UserClose \/ UserForceClose
  \/ Hook \/ Timer \/ Exit \/ CloseEvent

Spec == Init /\ [][Next]_vars

\* The node process runs: spawn() reports, a handshake has a time-out, timers
\* fire, and sdk.close(), the hook, ends.  Nothing is assumed of the server.
Fairness ==
  /\ WF_vars(Start \/ StartThrows)
  /\ WF_vars(Spawned \/ SpawnFails)
  /\ WF_vars(HandshakeOk \/ HandshakeFails)
  /\ WF_vars(CleanUpEnds)
  /\ WF_vars(Hook)
  /\ WF_vars(Timer)

FairSpec == Spec /\ Fairness

-----------------------------------------------------------------------------
(* An error of connectStdio that tells of no failed clean-up means that no *)
(* server process was left behind (index.ts, the catch of connectStdio).   *)
FailedConnectLeavesNothing == connectP = "threw" => child \in {"none", "closed"}
=============================================================================
