-------------------------- MODULE Lifecycle_proofs --------------------------
(***************************************************************************)
(* What the methods of the controller keep, whoever calls them and when.   *)
(* The proofs go method by method: Keeps relates the controller before and *)
(* after one, and every action of Lifecycle is made of such methods.       *)
(***************************************************************************)
EXTENDS Lifecycle, TLAPS

Failures == {"CLOSE_FAILED", "FORCE_CLOSE_FAILED", "FORCE_CLOSE_TIMEOUT"}

\* SIGKILL has a promise, before it forceClose() was never called, and the
\* close event settled both promises.
Sound(l) ==
  /\ l \in Controller
  /\ l.stage = "kill" => l.forceP # "none"
  /\ l.state \in {"open", "closing"} => l.forceP = "none"
  /\ l.state = "open" => l.closeP = "none"
  /\ l.state = "forceClosing" => l.forceP # "none"
  /\ l.state = "closed" => "pending" \notin {l.closeP, l.forceP}

\* A promise is made once and settled once; with success only by Closed.
Follows(p, q) ==
  /\ p \notin {"none", "pending"} => q = p
  /\ p # "none" => q # "none"

Keeps(l, m) ==
  /\ Sound(m)
  /\ l.state = "failed" => m.state = "failed"
  /\ Follows(l.closeP, m.closeP)
  /\ Follows(l.forceP, m.forceP)

NoNews(l, m) ==
  /\ m.closeP = "resolved" => l.closeP = "resolved"
  /\ m.forceP = "resolved" => l.forceP = "resolved"
  /\ m.state = "closed" => l.state = "closed"

\* A connection that close() was never called on is open or force-closed.
Unclosed(l) ==
  /\ l.state # "closing" /\ l.closeP = "none"
  /\ l.stage \in {"none", "kill"} /\ l.hook # "pending"
  /\ l.state = "failed" => l.forceP # "none"

LifecycleInv ==
  /\ Sound(lc)
  /\ LifecycleTypeOK
  /\ ResolvedMeansGone
  /\ lc.state = "closed" => child = "closed"

-----------------------------------------------------------------------------
(* Both readers are destroyed.                                             *)
LEMMA TwoReaders == 2 \in 0..2
  OBVIOUS

(* Settling a promise with an error leaves a promise.                      *)
LEMMA SettleType ==
  \A p \in Promises : \A e \in Failures : Settle(p, e) \in Promises
  BY DEF Settle, Promises, Failures

(* Two methods in a row keep what each of them keeps.                      *)
LEMMA KeepsTwice ==
  ASSUME NEW l, NEW m, NEW k, Keeps(l, m), Keeps(m, k), NoNews(l, m), NoNews(m, k)
  PROVE  Keeps(l, k) /\ NoNews(l, k)
  BY DEF Keeps, Follows, NoNews

(* #beginForce is called once, and ends in forceClosing or in failed.      *)
LEMMA BeginForceKeeps ==
  ASSUME NEW l \in Controller, l.forceP = "none",
         NEW next \in {"forceClosing", "failed"}, l.state = "failed" => next = "failed",
         NEW m \in BeginForce(l, next)
  PROVE  Keeps(l, m) /\ NoNews(l, m)
<1> DEFINE begun == [l EXCEPT !.forceP = "pending", !.state = next, !.stage = "none"]
           killed == [begun EXCEPT !.readers = 2, !.killSent = TRUE, !.stage = "kill"]
           thrown(n) == [begun EXCEPT !.readers = n, !.state = "failed",
                                      !.forceP = "FORCE_CLOSE_FAILED"]
<1>1. CASE m = killed
  <2>1. /\ m \in Controller
        /\ m.state = next /\ m.stage = "kill" /\ m.closeP = l.closeP /\ m.forceP = "pending"
    BY <1>1, TwoReaders DEF Controller, States, Promises
  <2>2. QED BY <2>1 DEF Keeps, Sound, Follows, NoNews
<1>2. ASSUME NEW n \in 0..2, m = thrown(n) PROVE Keeps(l, m) /\ NoNews(l, m)
  BY <1>2 DEF Controller, States, Promises, Keeps, Sound, Follows, NoNews
<1>3. m = killed \/ \E n \in {2} \cup (l.readers + 1)..2 : m = thrown(n)
  BY DEF BeginForce
<1>4. {2} \cup (l.readers + 1)..2 \subseteq 0..2
  BY DEF Controller
<1>5. QED BY <1>1, <1>2, <1>3, <1>4

(* #failClose keeps the first error and begins the clean-up once.          *)
LEMMA FailCloseKeeps ==
  ASSUME NEW l, Sound(l), NEW m \in FailClose(l)
  PROVE  Keeps(l, m) /\ NoNews(l, m)
<1> DEFINE failed == [l EXCEPT !.state = "failed", !.closeP = Settle(@, "CLOSE_FAILED")]
<1>1. Keeps(l, failed) /\ NoNews(l, failed) /\ failed.forceP = l.forceP
      /\ failed \in Controller /\ failed.state = "failed"
  BY DEF Settle, Controller, States, Promises, Keeps, Sound, Follows, NoNews
<1> HIDE DEF failed
<1>2. CASE l.forceP = "none"
  <2>1. m \in BeginForce(failed, "failed")
    BY <1>2 DEF FailClose, failed
  <2>2. Keeps(failed, m) /\ NoNews(failed, m)
    BY <1>1, <1>2, <2>1, BeginForceKeeps
  <2>3. QED BY <1>1, <2>2, KeepsTwice
<1>3. CASE l.forceP # "none"
  BY <1>1, <1>3 DEF FailClose, failed
<1>4. QED BY <1>2, <1>3

(* #finishNormalClose does nothing once close() was overtaken.             *)
LEMMA FinishNormalCloseKeeps ==
  ASSUME NEW l, Sound(l), NEW m \in FinishNormalClose(l)
  PROVE  Keeps(l, m) /\ NoNews(l, m)
<1>1. CASE m = l
  BY <1>1 DEF Keeps, Follows, NoNews
<1>2. CASE l.state = "closing" /\ m = [l EXCEPT !.readers = 2, !.stage = "stdin"]
  <2>1. /\ m \in Controller /\ m.stage = "stdin"
        /\ m.state = l.state /\ m.closeP = l.closeP /\ m.forceP = l.forceP
    BY <1>2, TwoReaders DEF Sound, Controller
  <2>2. QED BY <2>1 DEF Keeps, Sound, Follows, NoNews
<1>3. ASSUME NEW n \in (l.readers + 1)..2, m \in FailClose([l EXCEPT !.readers = n])
      PROVE  Keeps(l, m) /\ NoNews(l, m)
  <2> DEFINE read == [l EXCEPT !.readers = n]
  <2>1. n \in 0..2
    BY DEF Sound, Controller
  <2>2. Keeps(l, read) /\ NoNews(l, read)
    BY <2>1 DEF Controller, States, Promises, Keeps, Sound, Follows, NoNews
  <2>3. Sound(read)
    BY <2>2 DEF Keeps
  <2> HIDE DEF read
  <2>4. Keeps(read, m) /\ NoNews(read, m)
    BY <1>3, <2>3, FailCloseKeeps DEF read
  <2>5. QED BY <2>2, <2>4, KeepsTwice
<1>4. QED BY <1>1, <1>2, <1>3 DEF FinishNormalClose

(* The end of the hook, whether it ends well or throws.                    *)
LEMMA HookKeeps ==
  ASSUME NEW l, Sound(l),
         NEW m \in FinishNormalClose([l EXCEPT !.hook = "done"]) \cup
                   FailClose([l EXCEPT !.hook = "done"])
  PROVE  Keeps(l, m) /\ NoNews(l, m)
<1> DEFINE ended == [l EXCEPT !.hook = "done"]
<1>1. Keeps(l, ended) /\ NoNews(l, ended) /\ Sound(ended)
  BY DEF Controller, States, Promises, Keeps, Sound, Follows, NoNews
<1> HIDE DEF ended
<1>2. m \in FinishNormalClose(ended) \cup FailClose(ended)
  BY DEF ended
<1>3. Keeps(ended, m) /\ NoNews(ended, m)
  BY <1>1, <1>2, FinishNormalCloseKeeps, FailCloseKeeps
<1>4. QED BY <1>1, <1>3, KeepsTwice

(* close() of the controller.                                              *)
LEMMA CloseKeeps ==
  ASSUME NEW l, Sound(l), NEW m \in CloseOutcomes(l)
  PROVE  Keeps(l, m) /\ NoNews(l, m)
<1> DEFINE closing == [l EXCEPT !.state = "closing", !.closeP = "pending"]
<1>1. CASE m = l
  BY <1>1 DEF Keeps, Follows, NoNews
<1>2. CASE l.state = "open" /\ l.closeP = "none" /\ m \in BeginClose(l)
  <2>1. Keeps(l, closing) /\ NoNews(l, closing) /\ Sound(closing)
    BY <1>2 DEF Controller, States, Promises, Keeps, Sound, Follows, NoNews
  <2> HIDE DEF closing
  <2>2. CASE m = [closing EXCEPT !.hook = "pending"]
    <3>1. Keeps(closing, m) /\ NoNews(closing, m)
      BY <2>1, <2>2 DEF Controller, States, Promises, Keeps, Sound, Follows, NoNews
    <3>2. QED BY <2>1, <3>1, KeepsTwice
  <2>3. CASE m \in FinishNormalClose([closing EXCEPT !.hook = "done"]) \cup
                   FailClose([closing EXCEPT !.hook = "done"])
    BY <2>1, <2>3, HookKeeps, KeepsTwice
  <2>4. QED BY <1>2, <2>2, <2>3 DEF BeginClose, closing
<1>3. QED BY <1>1, <1>2 DEF CloseOutcomes

(* forceClose() of the controller.                                         *)
LEMMA ForceCloseKeeps ==
  ASSUME NEW l, Sound(l), NEW m \in ForceCloseOutcomes(l)
  PROVE  Keeps(l, m) /\ NoNews(l, m)
<1>1. CASE m = l
  BY <1>1 DEF Keeps, Follows, NoNews
<1>2. CASE l.state \in {"open", "closing"} /\ m \in BeginForce(l, "forceClosing")
  BY <1>2, BeginForceKeeps DEF Sound
<1>3. QED BY <1>1, <1>2 DEF ForceCloseOutcomes

(* A deadline never undoes a failure, and never reports success.           *)
LEMMA DeadlineKeeps ==
  ASSUME NEW l, Sound(l), NEW m \in AtDeadline(l)
  PROVE  Keeps(l, m) /\ NoNews(l, m)
<1> DEFINE due == [l EXCEPT !.stage = "none"]
<1>1. Keeps(l, due) /\ NoNews(l, due) /\ Sound(due) /\ due.state = l.state /\ due.forceP = l.forceP
  BY DEF Controller, States, Promises, Keeps, Sound, Follows, NoNews
<1> HIDE DEF due
<1>2. CASE m = due
  BY <1>1, <1>2
<1>3. CASE l.state = "failed" /\ m = [due EXCEPT !.forceP = TimedOut(@)]
  <2>1. Keeps(due, m) /\ NoNews(due, m)
    BY <1>1, <1>3 DEF TimedOut, Settle, Controller, States, Promises, Keeps, Sound, Follows, NoNews
  <2>2. QED BY <1>1, <2>1, KeepsTwice
<1>4. ASSUME l.state # "failed", m = FailForce(due) PROVE Keeps(l, m) /\ NoNews(l, m)
  <2>1. /\ m \in Controller /\ m.state = "failed" /\ m.stage = due.stage
        /\ m.closeP = Settle(due.closeP, "FORCE_CLOSE_FAILED")
        /\ m.forceP = Settle(due.forceP, "FORCE_CLOSE_FAILED")
    BY <1>1, <1>4, SettleType DEF FailForce, Sound, Controller, States, Promises, Failures
  <2>2. Keeps(due, m) /\ NoNews(due, m)
    BY <1>1, <2>1 DEF Settle, Keeps, Sound, Follows, NoNews
  <2>3. QED BY <1>1, <2>2, KeepsTwice
<1>5. CASE l.state # "failed" /\ m \in SendTerm(due)
  <2>1. CASE m = [due EXCEPT !.termSent = TRUE, !.stage = "term"]
    <3>1. Keeps(due, m) /\ NoNews(due, m)
      BY <1>1, <2>1 DEF Controller, States, Promises, Keeps, Sound, Follows, NoNews
    <3>2. QED BY <1>1, <3>1, KeepsTwice
  <2>2. QED BY <1>4, <1>5, <2>1 DEF SendTerm
<1>6. CASE l.state # "failed" /\ m \in SendKill(due)
  <2> DEFINE killed == [due EXCEPT !.killSent = TRUE, !.state = "forceClosing",
                                   !.stage = "kill", !.forceP = EnsureForcePromise(@)]
  <2>1. CASE m = killed
    <3>1. /\ EnsureForcePromise(due.forceP) \in Promises
          /\ EnsureForcePromise(due.forceP) # "none"
          /\ Follows(due.forceP, EnsureForcePromise(due.forceP))
          /\ EnsureForcePromise(due.forceP) = "resolved" => due.forceP = "resolved"
      BY <1>1 DEF EnsureForcePromise, Follows, Sound, Controller, Promises
    <3>2. /\ m \in Controller /\ m.state = "forceClosing" /\ m.stage = "kill"
          /\ m.closeP = due.closeP /\ m.forceP = EnsureForcePromise(due.forceP)
      BY <1>1, <2>1, <3>1 DEF Sound, Controller, States
    <3>3. Keeps(due, m) /\ NoNews(due, m)
      BY <1>1, <1>6, <3>1, <3>2 DEF Keeps, Sound, Follows, NoNews
    <3>4. QED BY <1>1, <3>3, KeepsTwice
  <2>2. QED BY <1>4, <1>6, <2>1 DEF SendKill
<1>7. CASE l.state # "failed" /\ m \in GiveUp(due)
  <2>1. /\ m \in Controller /\ m.state = "failed" /\ m.stage = due.stage
        /\ m.closeP = TimedOut(due.closeP) /\ m.forceP = TimedOut(due.forceP)
    <3>1. m = [due EXCEPT !.state = "failed", !.forceP = TimedOut(@), !.closeP = TimedOut(@)]
      BY <1>7 DEF GiveUp
    <3>2. \A p \in Promises : TimedOut(p) \in Promises
      BY SettleType DEF TimedOut, Failures
    <3>3. QED BY <1>1, <3>1, <3>2 DEF Sound, Controller, States
  <2>2. Keeps(due, m) /\ NoNews(due, m)
    BY <1>1, <2>1 DEF TimedOut, Settle, Keeps, Sound, Follows, NoNews
  <2>3. QED BY <1>1, <2>2, KeepsTwice
<1>8. QED BY <1>2, <1>3, <1>5, <1>6, <1>7 DEF AtDeadline, due

(* The close event settles what is pending, a failure excepted.            *)
LEMMA ClosedKeeps ==
  ASSUME NEW l, Sound(l)
  PROVE  Keeps(l, Closed(l))
<1>1. CASE l.state = "failed"
  BY <1>1 DEF Closed, Settle, Controller, States, Promises, Keeps, Sound, Follows
<1>2. CASE l.state # "failed"
  BY <1>2 DEF Closed, Settle, Controller, States, Promises, Keeps, Sound, Follows
<1>3. QED BY <1>1, <1>2

(* A deadline that is due is dealt with before the close event.            *)
LEMMA ObserveCloseKeeps ==
  ASSUME NEW l, Sound(l), NEW m \in ObserveClose(l)
  PROVE  Keeps(l, m)
<1>1. ASSUME NEW d \in AtDeadline(l), m = Closed(d) PROVE Keeps(l, m)
  <2>1. Keeps(l, d) /\ Sound(d)
    BY DeadlineKeeps DEF Keeps
  <2>2. Keeps(d, m)
    BY <1>1, <2>1, ClosedKeeps
  <2>3. QED BY <2>1, <2>2 DEF Keeps, Follows
<1>2. QED BY <1>1, ClosedKeeps DEF ObserveClose

-----------------------------------------------------------------------------
(* A fresh controller is sound.                                            *)
LEMMA NewIsSound == Sound(NewController)
  BY DEF NewController, Sound, Controller, States, Promises

(* The names of the answers of forceClose().                               *)
LEMMA AnswerNames == \A l : ForceAnswer(l) \in {"force", "close", "terminal"}
  BY DEF ForceAnswer

(* Every step of the controller keeps its promises and reports success     *)
(* only with the close event (lifecycle.ts).                               *)
THEOREM LifecycleInvStep ==
  ASSUME LifecycleInv, LifecycleNext
  PROVE  LifecycleInv' /\ Keeps(lc, lc')
<1>1. Sound(lc) /\ LifecycleTypeOK /\ ResolvedMeansGone /\ (lc.state = "closed" => child = "closed")
  BY DEF LifecycleInv
<1>2. ASSUME Keeps(lc, lc'), NoNews(lc, lc'), child' = child,
             told' \subseteq {"force", "close", "terminal"}
      PROVE  LifecycleInv' /\ Keeps(lc, lc')
  BY <1>1, <1>2 DEF LifecycleInv, Keeps, Sound, NoNews, LifecycleTypeOK, ResolvedMeansGone
<1>3. CASE CallClose
  BY <1>1, <1>2, <1>3, CloseKeeps DEF CallClose, LifecycleTypeOK
<1>4. CASE CallForceClose
  BY <1>1, <1>2, <1>4, ForceCloseKeeps, AnswerNames DEF CallForceClose, LifecycleTypeOK
<1>5. CASE HookEnds
  BY <1>1, <1>2, <1>5, HookKeeps DEF HookEnds, LifecycleTypeOK
<1>6. CASE TimerFires
  BY <1>1, <1>2, <1>6, DeadlineKeeps DEF TimerFires, LifecycleTypeOK
<1>7. CASE ChildExits
  <2>1. Keeps(lc, lc')
    BY <1>1, <1>7 DEF ChildExits, Keeps, Follows
  <2>2. QED
    BY <1>1, <1>7, <2>1
    DEF ChildExits, LifecycleInv, Keeps, LifecycleTypeOK, ResolvedMeansGone
<1>8. CASE ChildClosed
  <2>1. Keeps(lc, lc')
    BY <1>1, <1>8, ObserveCloseKeeps DEF ChildClosed
  <2>2. QED
    BY <1>1, <1>8, <2>1
    DEF ChildClosed, LifecycleInv, Keeps, Sound, LifecycleTypeOK, ResolvedMeansGone
<1>9. QED BY <1>3, <1>4, <1>5, <1>6, <1>7, <1>8 DEF LifecycleNext

-----------------------------------------------------------------------------
(* forceClose() of a connection that was never closed has a promise.       *)
LEMMA UnclosedForce ==
  ASSUME NEW l, Sound(l), Unclosed(l), NEW m \in ForceCloseOutcomes(l)
  PROVE  Unclosed(m) /\ (m.forceP # "none" \/ m.state = "closed")
<1>1. CASE l.state \in {"open", "closing"}
  <2> DEFINE begun == [l EXCEPT !.forceP = "pending", !.state = "forceClosing", !.stage = "none"]
             killed == [begun EXCEPT !.readers = 2, !.killSent = TRUE, !.stage = "kill"]
             thrown(n) == [begun EXCEPT !.readers = n, !.state = "failed",
                                        !.forceP = "FORCE_CLOSE_FAILED"]
  <2>1. m = killed \/ \E n \in {2} \cup (l.readers + 1)..2 : m = thrown(n)
    BY <1>1 DEF ForceCloseOutcomes, BeginForce
  <2>2. CASE m = killed
    <3>1. /\ m.state = "forceClosing" /\ m.closeP = l.closeP /\ m.stage = "kill"
          /\ m.hook = l.hook /\ m.forceP = "pending"
      BY <2>2 DEF Sound, Controller
    <3>2. QED BY <3>1 DEF Unclosed
  <2>3. ASSUME NEW n \in {2} \cup (l.readers + 1)..2, m = thrown(n)
        PROVE  Unclosed(m) /\ m.forceP # "none"
    <3>1. /\ m.state = "failed" /\ m.closeP = l.closeP /\ m.stage = "none"
          /\ m.hook = l.hook /\ m.forceP = "FORCE_CLOSE_FAILED"
      BY <2>3 DEF Sound, Controller
    <3>2. QED BY <3>1 DEF Unclosed
  <2>4. QED BY <2>1, <2>2, <2>3
<1>2. CASE l.state \notin {"open", "closing"}
  BY <1>2 DEF ForceCloseOutcomes, Unclosed, Sound, Controller, States
<1>3. QED BY <1>1, <1>2

(* The end of the observation of SIGKILL.                                  *)
LEMMA UnclosedDeadline ==
  ASSUME NEW l, Sound(l), Unclosed(l), l.stage # "none", NEW m \in AtDeadline(l)
  PROVE  Unclosed(m)
<1>1. l.stage = "kill" /\ l.forceP # "none"
  BY DEF Unclosed, Sound
<1>2. TimedOut(l.forceP) # "none" /\ TimedOut(l.closeP) = l.closeP
  BY <1>1 DEF TimedOut, Settle, Unclosed
<1>3. \/ m = [l EXCEPT !.stage = "none"]
      \/ m = [[l EXCEPT !.stage = "none"] EXCEPT !.forceP = TimedOut(@)]
      \/ m = [[l EXCEPT !.stage = "none"] EXCEPT
                !.state = "failed", !.forceP = TimedOut(@), !.closeP = TimedOut(@)]
  BY <1>1 DEF AtDeadline, GiveUp
<1>4. /\ m.stage = "none" /\ m.hook = l.hook /\ m.closeP = l.closeP
      /\ m.forceP # "none" /\ m.state \in {l.state, "failed"}
  BY <1>1, <1>2, <1>3 DEF Sound, Controller
<1>5. QED BY <1>4 DEF Unclosed

(* The close event of a process that was never asked to close.             *)
LEMMA UnclosedClosed ==
  ASSUME NEW l, Sound(l), Unclosed(l)
  PROVE  Unclosed(Closed(l))
<1>1. /\ Closed(l).stage = "none" /\ Closed(l).hook = l.hook
      /\ Closed(l).closeP = Settle(l.closeP, "resolved") \/ Closed(l).closeP = l.closeP
      /\ Closed(l).forceP = Settle(l.forceP, "resolved")
      /\ Closed(l).state = IF l.state = "failed" THEN "failed" ELSE "closed"
  BY DEF Closed, Sound, Controller
<1>2. QED BY <1>1 DEF Settle, Unclosed

(* The connection by itself never begins to close.                         *)
LEMMA UnclosedConnection ==
  ASSUME LifecycleInv, Unclosed(lc), HookEnds \/ TimerFires \/ ChildExits \/ ChildClosed
  PROVE  Unclosed(lc')
<1>1. Sound(lc)
  BY DEF LifecycleInv
<1>2. CASE HookEnds
  BY <1>2 DEF HookEnds, Unclosed
<1>3. CASE TimerFires
  BY <1>1, <1>3, UnclosedDeadline DEF TimerFires
<1>4. CASE ChildExits
  BY <1>4 DEF ChildExits
<1>5. CASE ChildClosed
  <2>1. ASSUME NEW d \in AtDeadline(lc), lc.stage # "none" PROVE Unclosed(Closed(d))
    <3>1. Sound(d)
      BY <1>1, DeadlineKeeps DEF Keeps
    <3>2. Unclosed(d)
      BY <1>1, <2>1, UnclosedDeadline
    <3>3. QED BY <3>1, <3>2, UnclosedClosed
  <2>2. QED BY <1>1, <1>5, <2>1, UnclosedClosed DEF ChildClosed, ObserveClose
<1>6. QED BY <1>2, <1>3, <1>4, <1>5

(* A promise that was seen to resolve stays resolved.                      *)
LEMMA PromisedStays ==
  ASSUME NEW l, NEW m, Keeps(l, m), NEW name, Promised(l, name) = "resolved"
  PROVE  Promised(m, name) = "resolved"
  BY DEF Promised, Keeps, Follows
=============================================================================
