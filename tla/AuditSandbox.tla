---------------------------- MODULE AuditSandbox ----------------------------
(***************************************************************************)
(* An audit in a docker sandbox, from the first resource to the last: the  *)
(* backend makes a network, a volume and a gateway, the audit calls the    *)
(* tools of the server one by one and marks each phase in the gateway and  *)
(* in the trace, reads both once more after it closed the connection, and  *)
(* has the resources removed, whatever failed on the way.                  *)
(***************************************************************************)
EXTENDS SandboxGateway, SandboxTrace

CONSTANTS
  Tools,          \* how many tools the audit calls,
  CallsPerTool,   \* and how often each
  MaxEvents       \* bound: lines the server writes or removes, failures, and its
                  \* requests, which count twice

ASSUME AuditBounds ==
  /\ Tools \in Nat \ {0} /\ CallsPerTool \in Nat \ {0}
  /\ MaxEvents \in Nat

VARIABLES
  exists,    \* the resources there are
  present,   \* those the backend knows to be there
  untold,    \* history: made although docker's CLI gave up or the rest failed
  at,        \* where the audit is
  next,      \* the phase being marked
  todo,      \* resources the clean-up has before it
  gaps,      \* what was not read or not told: "trace", "gateway"
  hindered,  \* history: docker failed to remove something
  verdict,   \* "none", "unavailable", "error" or "report"
  told,      \* the resources the user is told are left
  faults

dockerVars == <<exists, present, untold, hindered>>
auditVars  == <<at, next, todo, gaps, verdict, told>>
vars == <<gatewayVars, fileVars, marksVars, dockerVars, auditVars, faults>>

(* Phases by rank: start, list, each call, list again and shutdown.        *)
FirstCall == 2
Relist    == FirstCall + Tools * CallsPerTool
Shutdown  == Relist + 1
Calls     == FirstCall..(Relist - 1)

Init ==
  /\ GatewayInit /\ TraceInit
  /\ exists = {} /\ present = {} /\ untold = {} /\ hindered = FALSE
  /\ at = "tmp" /\ next = 0 /\ todo = <<>> /\ gaps = {}
  /\ verdict = "none" /\ told = {} /\ faults = 0

Sent == {r \in Requests : reqs[r].st # "unsent"}

Leaves(n) == written + 2 * Cardinality(Sent) + faults + (IF touched THEN 1 ELSE 0) + n <= MaxEvents

(* Docker, the control port, a reading, the server or the baseline fails.  *)
Fault == Leaves(1) /\ faults' = faults + 1

-----------------------------------------------------------------------------
(* Weakened: the clean-up goes in the order of the start.                  *)
CleanupInOrderMade == <<"tmp", "network", "volume", "gateway", "target">>

(* Containers come first: they hold the network and the volume.            *)
CleanupOrder == <<"target", "gateway", "network", "volume", "tmp">>

EndAs(v) == at' = "cleanup" /\ todo' = CleanupOrder /\ verdict' = v

-----------------------------------------------------------------------------
(* start: one resource after the other.                                    *)

After == [tmp |-> "network", network |-> "volume", volume |-> "gateway", gateway |-> "boot"]

Make ==
  /\ at \in DOMAIN After
  /\ exists' = exists \union {at}
  /\ present' = present \union {at}
  /\ at' = After[at]
  /\ UNCHANGED <<gatewayVars, fileVars, marksVars, untold, hindered,
                 next, todo, gaps, verdict, told, faults>>

(* It was not made, or what was made before it is of no use.  The gateway  *)
(* is marked before it is made, and may be there by half.                  *)
StartFails ==
  /\ at \in DOMAIN After \union {"boot"}
  /\ Fault /\ EndAs("unavailable")
  /\ IF at = "gateway"
     THEN present' = present \union {at} /\ exists' \in {exists, exists \union {at}}
     ELSE UNCHANGED <<present, exists>>
  /\ UNCHANGED <<gatewayVars, fileVars, marksVars, untold, hindered,
                 next, gaps, told>>

(* It was made, and the CLI timed out before it said so; of the directory, *)
(* its mode could not be set.                                              *)
MadeUntold ==
  /\ at \in {"tmp", "network", "volume"}
  /\ Fault /\ EndAs("unavailable")
  /\ exists' = exists \union {at}
  /\ untold' = untold \union {at}
  /\ UNCHANGED <<gatewayVars, fileVars, marksVars, present, hindered,
                 next, gaps, told>>

Boot ==
  /\ at = "boot"
  /\ present' = present \union {"target"}
  /\ at' = "connect"
  /\ UNCHANGED <<gatewayVars, fileVars, marksVars, exists, untold, hindered,
                 next, todo, gaps, verdict, told, faults>>

(* The gateway does not take the session to replay: an error of the audit. *)
SessionRefused ==
  /\ at = "boot" /\ mode = "replay"
  /\ Fault /\ EndAs("error")
  /\ UNCHANGED <<gatewayVars, fileVars, marksVars, dockerVars, next, gaps, told>>

-----------------------------------------------------------------------------
(* connectAndInspect: docker run, the handshake, and the list.             *)

Launch ==
  /\ at = "connect"
  /\ exists' = exists \union {"target"}
  /\ at' = "handshake"
  /\ UNCHANGED <<gatewayVars, fileVars, marksVars, present, untold, hindered,
                 next, todo, gaps, verdict, told, faults>>

Mark(p) == at' = "tell" /\ next' = p

Connected ==
  /\ at = "handshake"
  /\ Mark(1)
  /\ UNCHANGED <<gatewayVars, fileVars, marksVars, dockerVars, todo, gaps, verdict, told, faults>>

ConnectFails ==
  /\ at \in {"connect", "handshake"}
  /\ exists' \in {exists, exists \union {"target"}}
  /\ Fault /\ EndAs("error")
  /\ UNCHANGED <<gatewayVars, fileVars, marksVars, present, untold, hindered,
                 next, gaps, told>>

-----------------------------------------------------------------------------
(* mark: tell the gateway, then read the trace.                            *)

Tell ==
  /\ at = "tell"
  /\ gate' = PhaseAfter(next)
  /\ at' = "read"
  /\ UNCHANGED <<mode, reqs, tape, fileVars, marksVars, dockerVars,
                 next, todo, gaps, verdict, told, faults>>

TellFails ==
  /\ at = "tell"
  /\ Fault
  /\ gate' \in {gate, PhaseAfter(next)}
  /\ gaps' = gaps \union {"gateway"}
  /\ at' = "read"
  /\ UNCHANGED <<mode, reqs, tape, fileVars, marksVars, dockerVars, next, todo, verdict, told>>

Marked == at' = IF next = Shutdown THEN "snapshot" ELSE "ask"

Read ==
  /\ at = "read"
  /\ ReadMark(next) /\ Marked
  /\ UNCHANGED <<gatewayVars, fileVars, dockerVars, next, todo, gaps, verdict, told, faults>>

(* The CLI fails, or is given up, and its container may live on.           *)
ReadFails ==
  /\ at = "read"
  /\ Fault
  /\ MissMark(next) /\ Marked
  /\ gaps' = gaps \union {"trace"}
  /\ UNCHANGED <<gatewayVars, fileVars, exists, present, untold, hindered,
                 next, todo, verdict, told>>

-----------------------------------------------------------------------------
(* What is asked of the server in each phase.                              *)

Asked(p) ==
  /\ at = "ask"
  /\ Mark(p)
  /\ UNCHANGED <<gatewayVars, fileVars, marksVars, dockerVars, todo, gaps, verdict, told, faults>>

(* The tools to call, or none by the policy or the list.                   *)
Listed == phase = 1 /\ \E p \in {FirstCall, Relist} : Asked(p)

(* The answer, an error of the protocol, or none in time.                  *)
CallEnds == phase \in Calls /\ Asked(phase + 1)

(* The tool's remaining calls are not made.                                *)
AfterBreak(call) == FirstCall + CallsPerTool * (((call - FirstCall) \div CallsPerTool) + 1)

CallBreaks == phase \in Calls /\ Asked(AfterBreak(phase))

(* relistHash takes a failure for no change.                               *)
Close ==
  /\ at = "ask" /\ phase = Relist
  /\ Mark(Shutdown)
  /\ UNCHANGED <<gatewayVars, fileVars, marksVars, dockerVars, todo, gaps, verdict, told, faults>>

(* The list cannot be had, or the connection not closed.                   *)
AskFails ==
  /\ at = "ask" /\ phase \in {1, Relist}
  /\ Fault /\ EndAs("error")
  /\ UNCHANGED <<gatewayVars, fileVars, marksVars, dockerVars, next, gaps, told>>

-----------------------------------------------------------------------------
(* snapshot, and the report, if the baseline can be had.                   *)

Snapshot ==
  /\ at = "snapshot"
  /\ ReadTail
  /\ EndAs("report")
  /\ UNCHANGED <<gatewayVars, fileVars, dockerVars, next, gaps, told, faults>>

SnapshotFails ==
  /\ at = "snapshot"
  /\ Fault
  /\ MissTail
  /\ gaps' = gaps \union {"trace"}
  /\ EndAs("report")
  /\ UNCHANGED <<gatewayVars, fileVars, exists, present, untold, hindered, next, told>>

BaselineFails ==
  /\ verdict = "report" /\ todo = CleanupOrder
  /\ Fault /\ EndAs("error")
  /\ UNCHANGED <<gatewayVars, fileVars, marksVars, dockerVars, next, gaps, told>>

-----------------------------------------------------------------------------
(* cleanup: each resource once, and on to the next when one stays.         *)

Held(res) ==
  \/ res = "network" /\ exists \intersect {"target", "gateway"} # {}
  \/ res = "volume" /\ "target" \in exists

(* A reader of the trace that outlived its CLI.                            *)
ReaderHolds(res) == res = "volume" /\ "trace" \in gaps

Removing == at = "cleanup" /\ todo # <<>>

Skip ==
  /\ Removing /\ Head(todo) \notin present
  /\ todo' = Tail(todo)
  /\ UNCHANGED <<gatewayVars, fileVars, marksVars, dockerVars, at, next, gaps, verdict, told, faults>>

Removes ==
  /\ Removing /\ Head(todo) \in present /\ ~Held(Head(todo))
  /\ exists' = exists \ {Head(todo)}
  /\ present' = present \ {Head(todo)}
  /\ todo' = Tail(todo)
  /\ UNCHANGED <<gatewayVars, fileVars, marksVars, untold, hindered,
                 at, next, gaps, verdict, told, faults>>

RemoveRefused ==
  /\ Removing /\ Head(todo) \in present \intersect exists
  /\ Held(Head(todo)) \/ ReaderHolds(Head(todo))
  /\ hindered' = (hindered \/ ReaderHolds(Head(todo)))
  /\ todo' = Tail(todo)
  /\ UNCHANGED <<gatewayVars, fileVars, marksVars, exists, present, untold,
                 at, next, gaps, verdict, told, faults>>

RemoveFails ==
  /\ Removing /\ Head(todo) \in present
  /\ Fault
  /\ exists' \in {exists, exists \ {Head(todo)}}
  /\ hindered' = TRUE
  /\ todo' = Tail(todo)
  /\ UNCHANGED <<gatewayVars, fileVars, marksVars, present, untold,
                 at, next, gaps, verdict, told>>

(* An error of the audit wins over what is left; a report, and the reason  *)
(* why there is no sandbox, say it.                                        *)
CleanedUp ==
  /\ at = "cleanup" /\ todo = <<>>
  /\ at' = "ended"
  /\ told' = IF verdict = "error" THEN {} ELSE present
  /\ UNCHANGED <<gatewayVars, fileVars, marksVars, dockerVars, next, todo, gaps, verdict, faults>>

-----------------------------------------------------------------------------
(* The server under audit, which may end and do nothing more, until nobody *)
(* looks.                                                                  *)

Acts == "target" \in exists /\ at \notin {"cleanup", "ended"}

Due == IF at \in {"tell", "read"} THEN {phase, next} ELSE {phase}

(* Only a reading looks at the file, so that what was written since the    *)
(* last one may as well be written when the next begins.                   *)
Unread == Acts /\ at \in {"read", "snapshot"}

ServerTraces == Unread /\ Leaves(1) /\ Trace /\ UNCHANGED <<gatewayVars, marksVars, dockerVars, auditVars, faults>>

ServerShortens == Unread /\ Leaves(1) /\ Shorten /\ UNCHANGED <<gatewayVars, marksVars, dockerVars, auditVars, faults>>

ServerAsks ==
  /\ Acts /\ Leaves(2) /\ \E r \in Requests : Arrive(r, Due)
  /\ UNCHANGED <<fileVars, marksVars, dockerVars, auditVars, faults>>

GatewayWorks ==
  /\ "gateway" \in exists /\ at \notin {"cleanup", "ended"} /\ GatewayStep
  /\ UNCHANGED <<fileVars, marksVars, dockerVars, auditVars, faults>>

AuditStep ==
  \/ Make \/ StartFails \/ MadeUntold \/ Boot \/ SessionRefused
  \/ Launch \/ Connected \/ ConnectFails
  \/ Tell \/ TellFails \/ Read \/ ReadFails
  \/ Listed \/ CallEnds \/ CallBreaks \/ Close \/ AskFails \/ Snapshot \/ SnapshotFails
  \/ BaselineFails
  \/ Skip \/ Removes \/ RemoveRefused \/ RemoveFails \/ CleanedUp

ServerStep == ServerTraces \/ ServerShortens \/ ServerAsks

Next == AuditStep \/ ServerStep \/ GatewayWorks

Spec == Init /\ [][Next]_vars

-----------------------------------------------------------------------------
(* A request is noted under the call it was made in, or, while a mark is   *)
(* under way, the call before or after it, even if others are in flight:   *)
(* or the report says that the gateway was not told (docker.ts mark,       *)
(* control.mjs POST /phase).                                               *)
RequestsFollowTheirCall ==
  \A r \in Requests :
    reqs[r].noted /\ "gateway" \notin gaps => reqs[r].at \in reqs[r].due

(* What the audit leaves on the machine it says, unless docker never did,  *)
(* or an error of the audit buries it; and it leaves nothing if docker     *)
(* does what it is asked, however the audit ends (audit.ts auditSandboxed, *)
(* docker.ts cleanup).                                                     *)
NothingLeftUnsaid ==
  at = "ended" =>
    /\ verdict # "error" => exists \subseteq told \union untold
    /\ ~hindered => exists \subseteq untold
=============================================================================
