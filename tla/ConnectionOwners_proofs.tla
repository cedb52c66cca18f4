------------------------ MODULE ConnectionOwners_proofs ------------------------
(***************************************************************************)
(* The promises of connectStdio, close() and forceClose(): what is known   *)
(* of the server process when they have settled, whoever owns the          *)
(* connection; and what the answer of a provider stands for, for every     *)
(* order of its events.                                                    *)
(***************************************************************************)
EXTENDS ConnectionOwners, Lifecycle_proofs

(* Until the caller has the connection nobody can have called close(), so  *)
(* what the catch clause waits for is forceClose(), or nothing is left.    *)
ConnectInv ==
  /\ own = "created" => connectP = "pending" /\ startP = "none" /\ child = "none"
  /\ child = "none" /\ own # "created" => own = "failed"
  /\ connectP # "connected" => Unclosed(lc)
  /\ connectP = "cleaning" => cleanup = "force" \/ child \in {"none", "closed"}
  /\ FailedConnectLeavesNothing

StdioInv == TypeOK /\ LifecycleInv /\ ConnectInv

-----------------------------------------------------------------------------
(* A fresh transport has no process.                                       *)
LEMMA StdioInvInit == Init => StdioInv
<1> SUFFICES ASSUME Init PROVE StdioInv
  OBVIOUS
<1>1. LifecycleInv /\ Unclosed(lc)
  BY NewIsSound
  DEF Init, LifecycleInv, Sound, LifecycleTypeOK, ResolvedMeansGone, NewController, Unclosed
<1>2. QED
  BY <1>1 DEF Init, StdioInv, TypeOK, ConnectInv, LifecycleInv, FailedConnectLeavesNothing

(* The controller is told of a failure of the transport, or forced.        *)
LEMMA ForcedKeeps ==
  ASSUME LifecycleInv, lc' \in ForceCloseOutcomes(lc),
         child' \in {child, "exited"}, child = "closed" => child' = "closed",
         told' \subseteq {"force", "close", "terminal"}
  PROVE  /\ LifecycleInv' /\ Keeps(lc, lc')
         /\ Unclosed(lc) => /\ Unclosed(lc')
                            /\ lc'.forceP # "none" \/ lc'.state = "closed"
<1>1. Sound(lc)
  BY DEF LifecycleInv
<1>2. Keeps(lc, lc') /\ NoNews(lc, lc')
  BY <1>1, ForceCloseKeeps
<1>3. LifecycleInv'
  BY <1>2 DEF LifecycleInv, Keeps, Sound, NoNews, LifecycleTypeOK, ResolvedMeansGone
<1>4. QED BY <1>1, <1>2, <1>3, UnclosedForce

(* The steps of the transport that leave the controller alone.             *)
LEMMA QuietKeeps ==
  ASSUME LifecycleInv, UNCHANGED <<lc, told>>, child = "closed" => child' = "closed",
         child' \in {"none", "spawning", "running", "exited", "closed"}
  PROVE  LifecycleInv' /\ Keeps(lc, lc')
  BY DEF LifecycleInv, Keeps, Sound, Follows, LifecycleTypeOK, ResolvedMeansGone

(* Every step keeps the invariant, and the controller's promises.          *)
LEMMA StdioInvNext == StdioInv /\ [Next]_vars => StdioInv' /\ Keeps(lc, lc')
<1> SUFFICES ASSUME StdioInv, [Next]_vars PROVE StdioInv' /\ Keeps(lc, lc')
  OBVIOUS
<1> USE DEF TransportState, transportVars
<1>1. TypeOK /\ LifecycleInv /\ ConnectInv
  BY DEF StdioInv
<1>2. ASSUME LifecycleInv', Keeps(lc, lc'), ConnectInv',
             own' \in {"created", "starting", "handshaking", "open", "failed"},
             startP' \in {"none", "pending", "resolved", "rejected"},
             connectP' \in {"pending", "cleaning", "connected", "threw", "threwBoth"},
             cleanup' \in {"none", "force", "close", "terminal"},
             failSeen' \in BOOLEAN
      PROVE  StdioInv' /\ Keeps(lc, lc')
  BY <1>2 DEF StdioInv, TypeOK, LifecycleInv
<1>3. CASE Start
  <2>1. LifecycleInv' /\ Keeps(lc, lc')
    BY <1>1, <1>3, QuietKeeps DEF Start, ConnectInv
  <2>2. ConnectInv'
    BY <1>1, <1>3 DEF Start, ConnectInv, FailedConnectLeavesNothing
  <2>3. QED BY <1>1, <1>2, <1>3, <2>1, <2>2 DEF Start, TypeOK
<1>4. CASE StartThrows
  <2>1. LifecycleInv' /\ Keeps(lc, lc')
    BY <1>1, <1>4, QuietKeeps DEF StartThrows, LifecycleInv, LifecycleTypeOK
  <2>2. ConnectInv'
    BY <1>1, <1>4 DEF StartThrows, ConnectInv, FailedConnectLeavesNothing
  <2>3. QED BY <1>1, <1>2, <1>4, <2>1, <2>2 DEF StartThrows, TypeOK
<1>5. CASE Spawned
  <2>1. LifecycleInv' /\ Keeps(lc, lc')
    BY <1>1, <1>5, QuietKeeps DEF Spawned
  <2>2. ConnectInv'
    BY <1>1, <1>5 DEF Spawned, ConnectInv, FailedConnectLeavesNothing
  <2>3. QED BY <1>1, <1>2, <1>5, <2>1, <2>2 DEF Spawned, TypeOK
<1>6. CASE SpawnFails
  <2>1. /\ LifecycleInv' /\ Keeps(lc, lc')
        /\ Unclosed(lc) => Unclosed(lc')
    BY <1>1, <1>6, ForcedKeeps DEF SpawnFails, LifecycleInv, LifecycleTypeOK
  <2>2. ConnectInv'
    BY <1>1, <1>6, <2>1 DEF SpawnFails, ConnectInv, FailedConnectLeavesNothing
  <2>3. QED BY <1>1, <1>2, <1>6, <2>1, <2>2 DEF SpawnFails, Reject, TypeOK
<1>7. CASE TransportFailed
  <2>1. /\ LifecycleInv' /\ Keeps(lc, lc')
        /\ Unclosed(lc) => Unclosed(lc')
    BY <1>1, <1>7, ForcedKeeps DEF TransportFailed, LifecycleInv, LifecycleTypeOK
  <2>2. ConnectInv'
    BY <1>1, <1>7, <2>1
    DEF TransportFailed, AbandonStart, ConnectInv, FailedConnectLeavesNothing
  <2>3. QED BY <1>1, <1>2, <1>7, <2>1, <2>2 DEF TransportFailed, AbandonStart, Reject, TypeOK
<1>8. CASE HandshakeOk
  <2>1. LifecycleInv' /\ Keeps(lc, lc')
    BY <1>1, <1>8, QuietKeeps DEF HandshakeOk, LifecycleInv, LifecycleTypeOK
  <2>2. ConnectInv'
    <3>1. own = "handshaking"
      BY <1>1, <1>8 DEF HandshakeOk, LifecycleInv, Sound, Controller, States
    <3>2. QED BY <1>1, <1>8, <3>1 DEF HandshakeOk, ConnectInv, FailedConnectLeavesNothing
  <2>3. QED BY <1>1, <1>2, <1>8, <2>1, <2>2 DEF HandshakeOk, TypeOK
<1>9. CASE HandshakeFails
  <2>1. own # "created"
    BY <1>1, <1>9 DEF HandshakeFails, ConnectInv
  <2>2. CASE child = "none"
    <3>1. LifecycleInv' /\ Keeps(lc, lc')
      BY <1>1, <1>9, <2>2, QuietKeeps DEF HandshakeFails, CleanUp, LifecycleInv, LifecycleTypeOK
    <3>2. ConnectInv'
      BY <1>1, <1>9, <2>1, <2>2
      DEF HandshakeFails, CleanUp, ConnectInv, FailedConnectLeavesNothing
    <3>3. QED BY <1>1, <1>2, <1>9, <2>2, <3>1, <3>2 DEF HandshakeFails, CleanUp, TypeOK
  <2>3. CASE child # "none"
    <3>1. /\ LifecycleInv' /\ Keeps(lc, lc') /\ Unclosed(lc')
          /\ lc'.forceP # "none" \/ lc'.state = "closed"
      BY <1>1, <1>9, <2>3, ForcedKeeps, AnswerNames
      DEF HandshakeFails, CleanUp, ConnectInv, LifecycleInv, LifecycleTypeOK
    <3>2. cleanup' = "force" \/ child' = "closed"
      BY <1>9, <2>3, <3>1 DEF HandshakeFails, CleanUp, ForceAnswer, LifecycleInv
    <3>3. ConnectInv'
      BY <1>1, <1>9, <2>1, <2>3, <3>1, <3>2
      DEF HandshakeFails, CleanUp, ConnectInv, FailedConnectLeavesNothing
    <3>4. QED
      BY <1>1, <1>2, <1>9, <2>3, <3>1, <3>3, AnswerNames
      DEF HandshakeFails, CleanUp, AbandonStart, Reject, TypeOK
  <2>4. QED BY <2>2, <2>3
<1>10. CASE CleanUpEnds
  <2>1. LifecycleInv' /\ Keeps(lc, lc')
    BY <1>1, <1>10, QuietKeeps DEF CleanUpEnds, LifecycleInv, LifecycleTypeOK
  <2>2. FailedConnectLeavesNothing'
    <3> SUFFICES ASSUME connectP' = "threw" PROVE child \in {"none", "closed"}
      BY <1>10 DEF CleanUpEnds, FailedConnectLeavesNothing
    <3>1. Promised(lc, cleanup) = "resolved"
      BY <1>10 DEF CleanUpEnds, Awaited
    <3>2. cleanup = "force" \/ child \in {"none", "closed"}
      BY <1>1, <1>10 DEF CleanUpEnds, ConnectInv
    <3>3. QED BY <1>1, <3>1, <3>2 DEF Promised, LifecycleInv, ResolvedMeansGone
  <2>3. ConnectInv'
    BY <1>1, <1>10, <2>2 DEF CleanUpEnds, ConnectInv
  <2>4. QED BY <1>1, <1>2, <1>10, <2>1, <2>3 DEF CleanUpEnds, TypeOK
<1>11. ASSUME LifecycleNext, UNCHANGED transportVars,
              connectP = "connected" \/ (Unclosed(lc) => Unclosed(lc'))
       PROVE  StdioInv' /\ Keeps(lc, lc')
  <2>1. LifecycleInv' /\ Keeps(lc, lc')
    BY <1>1, <1>11, LifecycleInvStep
  <2>2. /\ child \in {"none", "closed"} => child' = child
        /\ child # "none" => child' # "none"
    BY <1>11
    DEF LifecycleNext, CallClose, CallForceClose, HookEnds, TimerFires, ChildExits, ChildClosed
  <2>3. ConnectInv'
    BY <1>1, <1>11, <2>2 DEF ConnectInv, FailedConnectLeavesNothing
  <2>4. QED BY <1>1, <1>2, <1>11, <2>1, <2>3 DEF TypeOK
<1>12. CASE UNCHANGED vars
  <2>1. LifecycleInv' /\ Keeps(lc, lc')
    BY <1>1, <1>12, QuietKeeps DEF vars, LifecycleInv, LifecycleTypeOK
  <2>2. ConnectInv'
    BY <1>1, <1>12 DEF vars, ConnectInv, FailedConnectLeavesNothing
  <2>3. QED BY <1>1, <1>2, <1>12, <2>1, <2>2 DEF vars, TypeOK
<1>13. CASE UserClose \/ UserForceClose
  BY <1>11, <1>13 DEF UserClose, UserForceClose, LifecycleNext
<1>14. CASE Hook \/ Timer \/ Exit \/ CloseEvent
  <2>1. Unclosed(lc) => Unclosed(lc')
    BY <1>1, <1>14, UnclosedConnection DEF Hook, Timer, Exit, CloseEvent
  <2>2. QED BY <1>11, <1>14, <2>1 DEF Hook, Timer, Exit, CloseEvent, LifecycleNext
<1>15. QED
  BY <1>3, <1>4, <1>5, <1>6, <1>7, <1>8, <1>9, <1>10, <1>12, <1>13, <1>14 DEF Next

-----------------------------------------------------------------------------
(* The invariant of a connection (controlled-stdio.ts, lifecycle.ts).      *)
THEOREM StdioInvariant == Spec => []StdioInv
<1>1. StdioInv /\ [Next]_vars => StdioInv'
  BY StdioInvNext
<1>2. QED BY <1>1, StdioInvInit, PTL DEF Spec

(* Type correctness.                                                       *)
THEOREM StdioTypeOK == Spec => []TypeOK
<1>1. StdioInv => TypeOK
  BY DEF StdioInv
<1>2. QED BY <1>1, StdioInvariant, PTL

(* close() and forceClose() report success only when the process is gone.  *)
THEOREM StdioResolvedMeansGone == Spec => []ResolvedMeansGone
<1>1. StdioInv => ResolvedMeansGone
  BY DEF StdioInv, LifecycleInv
<1>2. QED BY <1>1, StdioInvariant, PTL

(* Nobody waits for a process that is known to be gone.                    *)
THEOREM StdioClosedSettlesAll == Spec => []ClosedSettlesAll
<1>1. StdioInv => ClosedSettlesAll
  BY DEF StdioInv, LifecycleInv, Sound, ClosedSettlesAll
<1>2. QED BY <1>1, StdioInvariant, PTL

(* An error of connectStdio that tells of no failed clean-up leaves none.  *)
THEOREM StdioFailedConnectLeavesNothing == Spec => []FailedConnectLeavesNothing
<1>1. StdioInv => FailedConnectLeavesNothing
  BY DEF StdioInv, ConnectInv
<1>2. QED BY <1>1, StdioInvariant, PTL

(* A failure is final, and the first error is the error.                   *)
THEOREM StdioFailureIsFinal == Spec => FailureIsFinal
<1>1. StdioInv /\ [Next]_vars =>
        [/\ lc.state = "failed" => lc'.state = "failed"
         /\ lc.closeP \notin {"none", "pending"} => lc'.closeP = lc.closeP
         /\ lc.forceP \notin {"none", "pending"} => lc'.forceP = lc.forceP]_lc
  BY StdioInvNext DEF Keeps, Follows
<1>2. QED BY <1>1, StdioInvariant, PTL DEF Spec, FailureIsFinal

-----------------------------------------------------------------------------
(* A provider's run.                                                       *)

(* Nothing is known of a CLI that was not spawned.                         *)
Unspawned ==
  /\ pChild \in {"running", "exited", "closed"} <=> pPc = "up"
  /\ pChild = "none" => pRun.reason = "none" /\ pRun.sent = {} /\ pReported = {}
  /\ pChild = "none" => ~pRun.timeout /\ ~pRun.kill /\ ~pRun.deadline
  /\ pPc \in {"called", "mkdtemp", "files"} => pRun.result = "none"

(* What was reported, sent or armed has left its reason, until the answer. *)
Reasoned ==
  /\ pRun.result = "none" /\ (pReported # {} \/ pRun.sent # {}) => pRun.reason # "none"
  /\ pRun.result = "none" /\ "abort" \in pReported => pRun.reason = "cancelled"
  /\ pRun.kill \/ pRun.deadline => pRun.reason # "none"
  /\ pRun.kill => pChild # "closed"

(* An answer before the close has a reason, the close answers, and only    *)
(* the kill timer outlives the answer.                                     *)
Answering ==
  /\ pRun.result # "none" /\ pChild \in {"running", "exited"} => pRun.reason # "none"
  /\ pChild = "closed" => pRun.result # "none"
  /\ pRun.result # "none" => ~pRun.timeout /\ ~pRun.deadline
  /\ pCode # "none" => pChild \in {"exited", "closed"}

ProviderInv ==
  /\ Provider!TypeOK /\ Unspawned /\ Reasoned /\ Answering
  /\ Provider!OkIsClean /\ Provider!HeardAbortWins

-----------------------------------------------------------------------------
(* What settle() leaves: a record of the handlers whose first answer       *)
(* stands and whose other fields, the two timers excepted, are unchanged.  *)
LEMMA SettledKeeps ==
  ASSUME NEW r \in Provider!Handlers, NEW answer \in Provider!Results
  PROVE  LET s == Provider!Settled(r, answer)
         IN  /\ s \in Provider!Handlers
             /\ s.reason = r.reason /\ s.sent = r.sent /\ s.kill = r.kill
             /\ s.result = (IF r.result = "none" THEN answer ELSE r.result)
             /\ r.result # "none" => s = r
             /\ r.result = "none" => ~s.timeout /\ ~s.deadline
  BY DEF Provider!Settled, Provider!Handlers, Provider!Results, Provider!Failures

(* What terminate() leaves: a reason, which an abort replaces, and the     *)
(* escalation, which only the first reason starts.                         *)
LEMMA TerminatedKeeps ==
  ASSUME NEW r \in Provider!Handlers, NEW next \in Provider!Failures
  PROVE  LET s == Provider!Terminated(r, next)
         IN  /\ s \in Provider!Handlers
             /\ s.result = r.result /\ s.timeout = r.timeout
             /\ s.reason # "none"
             /\ next = "cancelled" => s.reason = "cancelled"
             /\ r.reason = "cancelled" => s.reason = "cancelled"
             /\ r.reason # "none" =>
                  s.sent = r.sent /\ s.kill = r.kill /\ s.deadline = r.deadline
  BY DEF Provider!Terminated, Provider!Handlers, Provider!Failures

(* A run that has a CLI and no answer may be ended at any moment.          *)
LEMMA EndingKeepsInv ==
  ASSUME ProviderInv, NEW what \in {"abort", "fault"},
         NEW next \in Provider!Failures, NEW r \in Provider!Handlers,
         r = pRun \/ r = [pRun EXCEPT !.timeout = FALSE],
         pChild \in {"running", "exited"},
         pRun' = Provider!Terminated(r, next), Provider!Reported(what),
         what = "abort" => next = "cancelled",
         pAborted' \in BOOLEAN,
         UNCHANGED <<pPc, pDir, Provider!childVars>>
  PROVE  ProviderInv'
<1>1. /\ pRun' \in Provider!Handlers /\ pRun'.result = pRun.result /\ pRun'.reason # "none"
      /\ next = "cancelled" \/ pRun.reason = "cancelled" => pRun'.reason = "cancelled"
      /\ r.reason = pRun.reason /\ r.deadline = pRun.deadline
      /\ pRun'.timeout => pRun.timeout
      /\ pRun.reason # "none" => pRun'.deadline = pRun.deadline
  BY TerminatedKeeps DEF Provider!Handlers
<1>2. /\ pRun.result = "none" => pReported' = pReported \cup {what}
      /\ pRun.result # "none" => pReported' = pReported
  BY DEF Provider!Reported
<1>3. Provider!TypeOK'
  BY <1>1, <1>2 DEF ProviderInv, Provider!TypeOK, Provider!childVars
<1>4. Unspawned'
  BY DEF ProviderInv, Unspawned, Provider!childVars
<1>5. Reasoned'
  BY <1>1, <1>2 DEF ProviderInv, Reasoned, Provider!childVars
<1>6. Answering'
  BY <1>1 DEF ProviderInv, Answering, Provider!TypeOK, Provider!Handlers, Provider!childVars
<1>7. Provider!OkIsClean' /\ Provider!HeardAbortWins'
  BY <1>1, <1>2 DEF ProviderInv, Provider!OkIsClean, Provider!HeardAbortWins
<1>8. QED BY <1>3, <1>4, <1>5, <1>6, <1>7 DEF ProviderInv

-----------------------------------------------------------------------------
(* The model starts in the invariant.                                      *)
LEMMA ProviderInvInit == Provider!Init => ProviderInv
  BY DEF Provider!Init, Provider!NewRun, ProviderInv, Provider!TypeOK, Provider!Handlers, Provider!Results, Provider!Failures, Unspawned,
         Reasoned, Answering, Provider!OkIsClean, Provider!HeardAbortWins

(* The steps before there is a CLI.                                        *)
LEMMA PrepareKeepsInv ==
  ASSUME ProviderInv, Provider!Prepare
  PROVE  ProviderInv'
<1> USE DEF ProviderInv
<1>1. CASE Provider!Call
  BY <1>1, SettledKeeps DEF Provider!Call, Provider!childVars, Provider!TypeOK, Unspawned, Reasoned, Answering,
     Provider!OkIsClean, Provider!HeardAbortWins, Provider!Results, Provider!Failures
<1>2. CASE Provider!DirMade
  BY <1>2 DEF Provider!DirMade, Provider!childVars, Provider!TypeOK, Unspawned, Reasoned, Answering,
     Provider!OkIsClean, Provider!HeardAbortWins
<1>3. CASE Provider!DirFails
  BY <1>3, SettledKeeps DEF Provider!DirFails, Provider!childVars, Provider!TypeOK, Unspawned, Reasoned, Answering,
     Provider!OkIsClean, Provider!HeardAbortWins, Provider!Results, Provider!Failures
<1>4. ASSUME NEW failure \in {"internal", "providerUnavailable"}, Provider!StartFails(failure)
      PROVE  ProviderInv'
  BY <1>4, SettledKeeps DEF Provider!StartFails, Provider!childVars, Provider!TypeOK, Unspawned, Reasoned, Answering,
     Provider!OkIsClean, Provider!HeardAbortWins, Provider!Results, Provider!Failures
<1>5. CASE Provider!Spawn
  <2> DEFINE armed == [pRun EXCEPT !.timeout = TRUE]
  <2>1. armed \in Provider!Handlers /\ armed.result = "none" /\ armed.reason = "none"
    BY <1>5 DEF Provider!Spawn, Provider!TypeOK, Unspawned, Provider!Handlers
  <2>2. CASE pRun' = armed /\ UNCHANGED pReported
    BY <1>5, <2>1, <2>2 DEF Provider!Spawn, Provider!TypeOK, Provider!Handlers, Unspawned, Reasoned, Answering,
       Provider!OkIsClean, Provider!HeardAbortWins
  <2>3. CASE pRun' = Provider!Terminated(armed, "internal") /\ Provider!Reported("fault")
    <3>1. pRun' \in Provider!Handlers /\ pRun'.result = "none" /\ pRun'.reason # "none"
      BY <2>1, <2>3, TerminatedKeeps DEF Provider!Failures
    <3>2. pReported' = {"fault"}
      BY <1>5, <2>3 DEF Provider!Spawn, Provider!Reported, Unspawned, Provider!TypeOK
    <3>3. QED BY <1>5, <3>1, <3>2 DEF Provider!Spawn, Provider!TypeOK, Unspawned, Reasoned, Answering,
                 Provider!OkIsClean, Provider!HeardAbortWins
  <2>4. QED BY <1>5, <2>2, <2>3 DEF Provider!Spawn
<1>6. QED BY <1>1, <1>2, <1>3, <1>4, <1>5 DEF Provider!Prepare

(* A timer, an error or an abort.                                          *)
LEMMA InterruptKeepsInv ==
  ASSUME ProviderInv,
         Provider!Abort \/ Provider!TimeoutFires \/ Provider!KillFires \/ Provider!DeadlineFires \/ Provider!StdinError \/ Provider!ChildError
  PROVE  ProviderInv'
<1> USE DEF ProviderInv
<1>1. CASE Provider!Abort
  <2>1. CASE pChild \in {"running", "exited"}
    BY <1>1, <2>1, EndingKeepsInv DEF Provider!Abort, Provider!TypeOK, Provider!Failures
  <2>2. CASE pChild \notin {"running", "exited"}
    BY <1>1, <2>2 DEF Provider!Abort, Provider!childVars, Provider!TypeOK, Unspawned, Reasoned, Answering,
       Provider!OkIsClean, Provider!HeardAbortWins
  <2>3. QED BY <2>1, <2>2
<1>2. CASE Provider!TimeoutFires
  <2>1. pChild \in {"running", "exited"} /\ pAborted' \in BOOLEAN
    BY <1>2 DEF Provider!TimeoutFires, Provider!TypeOK, Unspawned, Answering
  <2>2. [pRun EXCEPT !.timeout = FALSE] \in Provider!Handlers
    BY DEF Provider!TypeOK, Provider!Handlers
  <2>3. QED BY <1>2, <2>1, <2>2, EndingKeepsInv DEF Provider!TimeoutFires, Provider!Failures
<1>3. CASE Provider!StdinError \/ Provider!ChildError
  BY <1>3, EndingKeepsInv DEF Provider!StdinError, Provider!ChildError, Provider!TypeOK, Provider!Failures
<1>4. CASE Provider!KillFires
  <2>1. /\ pRun' \in Provider!Handlers /\ pRun'.result = pRun.result /\ pRun'.reason = pRun.reason
        /\ pRun'.timeout = pRun.timeout /\ pRun'.deadline = pRun.deadline /\ ~pRun'.kill
    BY <1>4 DEF Provider!KillFires, Provider!TypeOK, Provider!Handlers
  <2>2. pRun.reason # "none" /\ pChild # "none" /\ pRun.result # "ok"
    <3>1. pRun.reason # "none" /\ pChild # "none"
      BY <1>4 DEF Provider!KillFires, Reasoned, Unspawned
    <3>2. QED BY <1>4, <3>1 DEF Provider!KillFires, Reasoned, Provider!OkIsClean
  <2>3. QED BY <1>4, <2>1, <2>2 DEF Provider!KillFires, Provider!childVars, Provider!TypeOK, Unspawned, Reasoned,
                 Answering, Provider!OkIsClean, Provider!HeardAbortWins
<1>5. CASE Provider!DeadlineFires
  <2> DEFINE r == [pRun EXCEPT !.deadline = FALSE]
  <2>1. /\ r \in Provider!Handlers /\ r.result = "none" /\ r.reason = pRun.reason
        /\ pRun.reason \in Provider!Failures /\ pChild # "none"
    BY <1>5 DEF Provider!DeadlineFires, Provider!TypeOK, Provider!Handlers, Reasoned, Answering, Unspawned
  <2>2. /\ pRun' \in Provider!Handlers /\ pRun'.result = pRun.reason /\ pRun'.reason = pRun.reason
        /\ ~pRun'.timeout /\ ~pRun'.deadline
    BY <1>5, <2>1, SettledKeeps DEF Provider!DeadlineFires, Provider!Results
  <2>3. QED BY <1>5, <2>1, <2>2 DEF Provider!DeadlineFires, Provider!childVars, Provider!TypeOK, Unspawned, Reasoned,
                 Answering, Provider!OkIsClean, Provider!HeardAbortWins, Provider!Failures
<1>6. QED BY <1>1, <1>2, <1>3, <1>4, <1>5

(* The CLI writes, ends and is closed.                                     *)
LEMMA ChildKeepsInv ==
  ASSUME ProviderInv,
         \/ Provider!Chunk \/ Provider!ChildExits \/ Provider!ChildClosed
         \/ \E failure \in {"outputLimitExceeded", "invalidUtf8"} : Provider!BadChunk(failure)
  PROVE  ProviderInv'
<1> USE DEF ProviderInv
<1>1. CASE Provider!Chunk
  BY <1>1 DEF Provider!Chunk, Provider!Listening, Provider!TypeOK, Unspawned, Reasoned, Answering,
     Provider!OkIsClean, Provider!HeardAbortWins
<1>2. CASE Provider!ChildExits
  BY <1>2 DEF Provider!ChildExits, Provider!TypeOK, Unspawned, Reasoned, Answering, Provider!OkIsClean, Provider!HeardAbortWins
<1>3. ASSUME NEW failure \in {"outputLimitExceeded", "invalidUtf8"}, Provider!BadChunk(failure)
      PROVE  ProviderInv'
  <2> DEFINE t == Provider!Terminated(pRun, failure)
  <2>1. t \in Provider!Handlers /\ t.result = "none" /\ t.reason # "none"
    BY <1>3, TerminatedKeeps DEF Provider!BadChunk, Provider!Listening, Provider!TypeOK, Provider!Failures
  <2>2. /\ pRun' \in Provider!Handlers /\ pRun'.result = failure /\ pRun'.reason # "none"
        /\ ~pRun'.timeout /\ ~pRun'.deadline
    BY <1>3, <2>1, SettledKeeps DEF Provider!BadChunk, Provider!Results, Provider!Failures
  <2>3. pReported = {}
    BY <1>3 DEF Provider!BadChunk, Provider!Listening, Reasoned
  <2>4. QED BY <1>3, <2>2, <2>3 DEF Provider!BadChunk, Provider!Listening, Provider!childVars, Provider!TypeOK, Unspawned,
                 Reasoned, Answering, Provider!OkIsClean, Provider!HeardAbortWins
<1>4. CASE Provider!ChildClosed
  <2> DEFINE r == [pRun EXCEPT !.kill = FALSE]
  <2>1. /\ r \in Provider!Handlers /\ r.result = pRun.result /\ r.reason = pRun.reason
        /\ r.sent = pRun.sent /\ ~r.kill
        /\ r.timeout = pRun.timeout /\ r.deadline = pRun.deadline
    BY DEF Provider!TypeOK, Provider!Handlers
  <2>2. Provider!Verdict \in Provider!Results
    BY DEF Provider!Verdict, Provider!TypeOK, Provider!Handlers, Provider!Results, Provider!Failures
  <2>3. Provider!Verdict = "ok" => pRun.reason = "none" /\ pCode = "zero" /\ pDecoded = "json"
    BY DEF Provider!Verdict, Provider!TypeOK, Provider!Handlers, Provider!Failures
  <2>4. pRun.reason # "none" => Provider!Verdict = pRun.reason
    BY DEF Provider!Verdict
  <2>5. /\ pRun' \in Provider!Handlers /\ pRun'.reason = pRun.reason /\ pRun'.sent = pRun.sent
        /\ pRun'.result = (IF pRun.result = "none" THEN Provider!Verdict ELSE pRun.result)
        /\ pRun'.result # "none" /\ ~pRun'.kill /\ ~pRun'.timeout /\ ~pRun'.deadline
    BY <1>4, <2>1, <2>2, SettledKeeps DEF Provider!ChildClosed, Answering, Provider!Results, Provider!Failures
  <2>6. Provider!OkIsClean' /\ Provider!HeardAbortWins'
    BY <1>4, <2>3, <2>4, <2>5 DEF Provider!ChildClosed, Reasoned, Provider!OkIsClean, Provider!HeardAbortWins, Provider!TypeOK
  <2>7. QED BY <1>4, <2>5, <2>6 DEF Provider!ChildClosed, Provider!TypeOK, Unspawned, Reasoned, Answering
<1>5. QED BY <1>1, <1>2, <1>3, <1>4

(* Every step keeps the invariant.                                         *)
THEOREM ProviderInvariant == Provider!Spec => []ProviderInv
<1>1. ProviderInv /\ [Provider!Next]_(Provider!vars) => ProviderInv'
  <2> SUFFICES ASSUME ProviderInv, [Provider!Next]_(Provider!vars) PROVE ProviderInv'
    OBVIOUS
  <2>1. CASE UNCHANGED Provider!vars
    BY <2>1 DEF Provider!vars, Provider!childVars, ProviderInv, Provider!TypeOK, Unspawned, Reasoned, Answering,
       Provider!OkIsClean, Provider!HeardAbortWins
  <2>2. CASE Provider!Next
    BY <2>2, PrepareKeepsInv, InterruptKeepsInv, ChildKeepsInv DEF Provider!Next
  <2>3. QED BY <2>1, <2>2
<1>2. QED BY <1>1, ProviderInvInit, PTL DEF Provider!Spec

(* The state of a provider's run has its type.                             *)
THEOREM ProviderTypeOK == Provider!Spec => []Provider!TypeOK
<1>1. ProviderInv => Provider!TypeOK
  BY DEF ProviderInv
<1>2. QED BY <1>1, ProviderInvariant, PTL

(* Only a CLI that ended by itself, with exit code 0, before anything was  *)
(* reported against the run, is an answer (provider-process.ts:246-302).   *)
THEOREM ProviderOkIsClean == Provider!Spec => []Provider!OkIsClean
<1>1. ProviderInv => Provider!OkIsClean
  BY DEF ProviderInv
<1>2. QED BY <1>1, ProviderInvariant, PTL

(* An abort heard before the answer is the answer                          *)
(* (provider-process.ts:192-216).                                          *)
THEOREM ProviderHeardAbortWins == Provider!Spec => []Provider!HeardAbortWins
<1>1. ProviderInv => Provider!HeardAbortWins
  BY DEF ProviderInv
<1>2. QED BY <1>1, ProviderInvariant, PTL

-----------------------------------------------------------------------------
(* The owners.                                                             *)

\* Whoever goes on after connectStdio has the connection.
OwnerHolds ==
  \/ proxy \in {"listing", "serving", "finishing", "closing", "forcing"}
  \/ gen \in {"preparing", "reviewing", "closing", "leaving", "forcing"}
  => connectP = "connected"

(* An owner closes nothing but a connection it was given, so what it does  *)
(* to the connection any caller may do.                                    *)
LEMMA OwnerStepIsCallerStep ==
  ASSUME OwnerHolds, [OwnersNext]_allVars
  PROVE  [Next]_vars
<1>. USE DEF ownedVars, transportVars
<1>1. ASSUME connectP = "connected", CloseAwaited
      PROVE  [Next]_vars
  <2>1. CallClose \/ lc' = lc
    BY <1>1 DEF CloseAwaited, CallClose
  <2>2. UNCHANGED <<child, told, transportVars>>
    BY <1>1 DEF CloseAwaited
  <2>. QED
    BY <1>1, <2>1, <2>2 DEF UserClose, Next, vars
<1>2. ASSUME connectP = "connected", ForceCloseAwaited
      PROVE  [Next]_vars
  BY <1>2 DEF ForceCloseAwaited, UserForceClose, Next
<1>3. CASE ConnectionStep \/ CallerStep
  BY <1>3 DEF ConnectionStep, CallerStep, Next
<1>4. CASE ProxyStep
  <2>1. \/ UNCHANGED vars
        \/ /\ proxy \in {"listing", "finishing", "closing"}
           /\ CloseAwaited \/ ForceCloseAwaited
    BY <1>4 DEF ProxyStep, UpstreamUnavailable, ListUpstream, Refuse, Serve, StdinEnds,
       UpstreamGone, Signal, ServerClosed, UpstreamClosed, UpstreamForced
  <2>. QED
    BY <1>1, <1>2, <2>1 DEF OwnerHolds
<1>5. CASE GenerateStep
  <2>1. \/ UNCHANGED vars
        \/ /\ gen \in {"preparing", "reviewing", "closing"}
           /\ CloseAwaited \/ ForceCloseAwaited
    BY <1>5 DEF GenerateStep, GenerateUnavailable, Prepare, PreparationFails, CloseEarly,
       ClosedEarly, Review, Ask, ProviderAnswers, Leave, Return
  <2>. QED
    BY <1>1, <1>2, <2>1 DEF OwnerHolds
<1>. QED
  BY <1>3, <1>4, <1>5 DEF OwnersNext, allVars

LEMMA OwnerHoldsNext == OwnerHolds /\ [OwnersNext]_allVars => OwnerHolds'
<1>. SUFFICES ASSUME OwnerHolds, [OwnersNext]_allVars
              PROVE  OwnerHolds'
  OBVIOUS
<1>. USE DEF OwnerHolds, ownedVars, transportVars, vars, proxyVars, genVars
<1>1. connectP = "connected" => connectP' = "connected"
  BY OwnerStepIsCallerStep
  DEF Next, Start, StartThrows, Spawned, SpawnFails, TransportFailed, HandshakeOk,
      HandshakeFails, CleanUpEnds, UserClose, UserForceClose, Hook, Timer, Exit, CloseEvent
<1>2. CASE ProxyStep /\ UNCHANGED genVars
  <2>1. proxy' \in {"listing", "serving", "finishing", "closing", "forcing"}
          => \/ proxy \in {"listing", "serving", "finishing", "closing", "forcing"}
             \/ connectP = "connected"
    BY <1>2 DEF ProxyStep, UpstreamUnavailable, ListUpstream, Refuse, Serve, StdinEnds,
       UpstreamGone, Signal, ServerClosed, UpstreamClosed, UpstreamForced, Finish, Ended
  <2>. QED
    BY <1>1, <1>2, <2>1
<1>3. CASE GenerateStep /\ UNCHANGED proxyVars
  <2>1. gen' \in {"preparing", "reviewing", "closing", "leaving", "forcing"}
          => \/ gen \in {"preparing", "reviewing", "closing", "leaving", "forcing"}
             \/ connectP = "connected"
    BY <1>3 DEF GenerateStep, GenerateUnavailable, Prepare, PreparationFails, CloseEarly,
       ClosedEarly, Review, Ask, ProviderAnswers, Leave, Return
  <2>. QED
    BY <1>1, <1>3, <2>1
<1>4. CASE UNCHANGED <<proxyVars, genVars>>
  BY <1>1, <1>4
<1>. QED
  BY <1>2, <1>3, <1>4 DEF OwnersNext, allVars

LEMMA OwnerInit == OwnersInit => Init /\ Provider!Init /\ OwnerHolds
BY DEF OwnersInit, ProxyInit, OwnerHolds

(* The proxy, the generate command and any other caller use the connection *)
(* as StdioConnection says it may be used: every behaviour of theirs is a  *)
(* behaviour of it (optimize/index.ts, generate-command.ts).               *)
THEOREM OwnersUseConnection == OwnersSpec => Spec
<1>1. OwnersInit => Init /\ OwnerHolds
  BY OwnerInit
<1>2. OwnerHolds /\ [OwnersNext]_allVars => OwnerHolds' /\ [Next]_vars
  BY OwnerHoldsNext, OwnerStepIsCallerStep
<1>. QED
  BY <1>1, <1>2, PTL DEF OwnersSpec, Spec

(* A provider that the generate command asks runs as ProviderProcess says, *)
(* whatever the command and its server do meanwhile.                       *)
THEOREM OwnersRunProvider == OwnersSpec => Provider!Spec
<1>1. OwnersInit => Provider!Init
  BY OwnerInit
<1>2. [OwnersNext]_allVars => [Provider!Next]_(Provider!vars)
  BY DEF OwnersNext, ProviderStep, allVars, providerVars, Provider!vars, Provider!childVars
<1>. QED
  BY <1>1, <1>2, PTL DEF OwnersSpec, Provider!Spec

(* What either was promised holds under every owner: close() and           *)
(* forceClose() report success only when the process is gone, ...          *)
THEOREM OwnersResolvedMeansGone == OwnersSpec => []ResolvedMeansGone
BY OwnersUseConnection, StdioResolvedMeansGone, PTL

(* ... a connection that failed leaves no process behind, ...              *)
THEOREM OwnersFailedConnectLeavesNothing == OwnersSpec => []FailedConnectLeavesNothing
BY OwnersUseConnection, StdioFailedConnectLeavesNothing, PTL

(* ... a failure of the connection is final, ...                           *)
THEOREM OwnersFailureIsFinal == OwnersSpec => FailureIsFinal
BY OwnersUseConnection, StdioFailureIsFinal, PTL

(* ... and an accepted answer is that of a CLI that ended by itself.       *)
THEOREM OwnersOkIsClean == OwnersSpec => []OkIsClean
<1>1. Provider!OkIsClean <=> OkIsClean
  BY DEF OkIsClean
<1>. QED
  BY OwnersRunProvider, ProviderOkIsClean, <1>1, PTL
=============================================================================
