--------------------------- MODULE OptimizeProxy ---------------------------
(***************************************************************************)
(* startProxy of mcpeak optimize: a stdio server that stands before a      *)
(* stdio server, its upstream.  It compares tools/list with the overlay,   *)
(* then serves until the client closes stdin, a signal arrives or the      *)
(* upstream dies, and ends both sides.                                     *)
(***************************************************************************)
EXTENDS StdioConnection

VARIABLES
  awaits,     \* the promise the owner waits for, as CloseAnswer names it, or "none"
  proxy,      \* where the proxy is; "absent" when something else owns the connection
  why,        \* what ended it: `finish` is called once
  signalled   \* signals whose once-handler is spent

proxyVars == <<proxy, why, signalled>>
ownedVars == <<vars, awaits>>

Signals == {"SIGINT", "SIGTERM"}

ProxyInit ==
  /\ proxy \in {"absent", "connecting"}
  /\ why = "none"
  /\ signalled = {}

-----------------------------------------------------------------------------
(* An owner closes what connectStdio gave it, and waits for its promise.   *)
CloseAwaited ==
  /\ lc' \in CloseOutcomes(lc)
  /\ awaits' = CloseAnswer(lc)
  /\ UNCHANGED <<child, told, transportVars>>

ForceCloseAwaited ==
  /\ CallForceClose
  /\ awaits' = ForceAnswer(lc')
  /\ UNCHANGED transportVars

Settled == Promised(lc, awaits) # "pending"
Succeeded == Promised(lc, awaits) = "resolved"

-----------------------------------------------------------------------------
(* watchLifecycle has put its listeners in place. *)
Watching == proxy \in {"serving", "finishing", "closing", "forcing"} /\ why # "refused"

UpstreamUnavailable ==
  /\ proxy = "connecting" /\ connectP \in {"threw", "threwBoth"}
  /\ proxy' = "threw"
  /\ UNCHANGED <<ownedVars, why, signalled>>

(* connectStdio resolved: the proxy lists the upstream's tools. *)
ListUpstream ==
  /\ proxy = "connecting" /\ connectP = "connected"
  /\ proxy' = "listing"
  /\ UNCHANGED <<ownedVars, why, signalled>>

(* The listing fails, or its names are not the overlay's: closeQuietly. *)
Refuse ==
  /\ proxy = "listing"
  /\ CloseAwaited
  /\ proxy' = "closing" /\ why' = "refused"
  /\ UNCHANGED signalled

(* watchLifecycle; only an answer of the upstream gets here. *)
Serve ==
  /\ proxy = "listing" /\ lc.state = "open"
  /\ proxy' = "serving"
  /\ UNCHANGED <<ownedVars, why, signalled>>

-----------------------------------------------------------------------------
(* finish: the first end counts, later ones return at once. *)
Finish(reason) ==
  IF proxy = "serving" THEN proxy' = "finishing" /\ why' = reason ELSE UNCHANGED <<proxy, why>>

StdinEnds ==
  /\ proxy = "serving"
  /\ Finish("stdinEnd")
  /\ UNCHANGED <<ownedVars, signalled>>

(* A signal; its handler is there once, and only while the proxy watches:  *)
(* without it the signal ends the process.                                 *)
Signal(s) ==
  /\ proxy \notin {"absent", "exited", "killed", "threw"}
  /\ IF Watching /\ s \notin signalled
     THEN Finish(s) /\ signalled' = signalled \cup {s}
     ELSE proxy' = "killed" /\ UNCHANGED <<why, signalled>>
  /\ UNCHANGED ownedVars

(* The timer, or a failed call, finds that the upstream has exited. *)
UpstreamGone ==
  /\ proxy = "serving" /\ child \in {"exited", "closed"}
  /\ Finish("upstreamGone")
  /\ UNCHANGED <<ownedVars, signalled>>

(* Weakened: the upstream is left to its stdin. *)
LeavesUpstream(reason) == TRUE

(* Only an upstream that has exited is not closed. *)
UpstreamLeft(reason) == reason = "upstreamGone"

(* server.close() has ended, well or not. *)
ServerClosed ==
  /\ proxy = "finishing"
  /\ IF UpstreamLeft(why) THEN proxy' = "exited" /\ UNCHANGED ownedVars
                          ELSE proxy' = "closing" /\ CloseAwaited
  /\ UNCHANGED <<why, signalled>>

(* closeQuietly has ended: process.exit, or the error of the start. *)
Ended == proxy' = IF why = "refused" THEN "threw" ELSE "exited"

(* A close() that rejects is followed by forceClose(). *)
UpstreamClosed ==
  /\ proxy = "closing" /\ Settled
  /\ IF Succeeded THEN Ended /\ UNCHANGED ownedVars
                  ELSE proxy' = "forcing" /\ ForceCloseAwaited
  /\ UNCHANGED <<why, signalled>>

UpstreamForced ==
  /\ proxy = "forcing" /\ Settled
  /\ Ended
  /\ UNCHANGED <<ownedVars, why, signalled>>

ProxyStep ==
  \/ UpstreamUnavailable \/ ListUpstream \/ Refuse \/ Serve
  \/ StdinEnds \/ UpstreamGone \/ \E s \in Signals : Signal(s)
  \/ ServerClosed \/ UpstreamClosed \/ UpstreamForced

-----------------------------------------------------------------------------
ProxyEnds == \/ proxy \in {"finishing", "closing", "forcing"}
             \/ proxy = "serving" /\ child \in {"exited", "closed"}
=============================================================================
