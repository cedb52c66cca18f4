-------------------------- MODULE ConnectionOwners --------------------------
(***************************************************************************)
(* One stdio connection under its owner, chosen at the start: any program  *)
(* that may call close() and forceClose() in any order and at any time,    *)
(* the optimize proxy, or the generate command.  That command holds the    *)
(* connection while it asks a provider, whose CLI is a second process of   *)
(* its own and may outlive the answer.                                     *)
(***************************************************************************)
EXTENDS OptimizeProxy

VARIABLES
  gen,        \* where the generate command is; "absent" when something else owns the connection
  asks,       \* it awaits the answer of the provider
  pPc, pDir, pAborted, pChild, pCode, pDecoded, pRun, pReported   \* ProviderProcess

genVars      == <<gen, asks>>
providerVars == <<pPc, pDir, pAborted, pChild, pCode, pDecoded, pRun, pReported>>
allVars      == <<ownedVars, proxyVars, genVars, providerVars>>

Provider == INSTANCE ProviderProcess WITH
  pc <- pPc, dir <- pDir, aborted <- pAborted, child <- pChild, code <- pCode,
  decoded <- pDecoded, run <- pRun, reported <- pReported

OwnersInit ==
  /\ Init /\ awaits = "none"
  /\ ProxyInit
  /\ gen \in {"absent", "connecting"} /\ asks = FALSE
  /\ gen = "absent" \/ proxy = "absent"
  /\ Provider!Init
  /\ pAborted => gen = "connecting"

-----------------------------------------------------------------------------
(* runGenerateCommand and its connection.                                  *)

GenerateUnavailable ==
  /\ gen = "connecting" /\ connectP \in {"threw", "threwBoth"}
  /\ gen' = "returned"
  /\ UNCHANGED <<ownedVars, asks>>

(* The tools are listed, the baseline is made and filled in.               *)
Prepare ==
  /\ gen = "connecting" /\ connectP = "connected"
  /\ gen' = "preparing"
  /\ UNCHANGED <<ownedVars, asks>>

(* One of these fails: the catch clause calls forceClose().                *)
PreparationFails ==
  /\ gen = "preparing" /\ ~asks
  /\ ForceCloseAwaited
  /\ gen' = "forcing"
  /\ UNCHANGED asks

(* --baseline-only asks no provider and has no more use for the server.    *)
CloseEarly ==
  /\ gen = "preparing" /\ pPc = "called"
  /\ CloseAwaited
  /\ gen' = "closing"
  /\ UNCHANGED asks

ClosedEarly ==
  /\ gen = "closing" /\ Settled
  /\ IF Succeeded THEN gen' = "returned" /\ UNCHANGED ownedVars
                  ELSE gen' = "forcing" /\ ForceCloseAwaited
  /\ UNCHANGED asks

Review ==
  /\ gen = "preparing" /\ ~asks
  /\ gen' = "reviewing"
  /\ UNCHANGED <<ownedVars, asks>>

(* The provider is asked to fill in the baseline, or by the reviewer.      *)
(* Bound: once.                                                            *)
Ask ==
  /\ gen \in {"preparing", "reviewing"} /\ pPc = "called"
  /\ asks' = TRUE
  /\ UNCHANGED <<ownedVars, gen>>

ProviderAnswers ==
  /\ asks /\ pRun.result # "none"
  /\ asks' = FALSE
  /\ UNCHANGED <<ownedVars, gen>>

(* However the review ends, the connection is closed in a finally clause.  *)
Leave ==
  /\ gen = "reviewing" /\ ~asks
  /\ CloseAwaited
  /\ gen' = "leaving"
  /\ UNCHANGED asks

(* A close() that rejects is not looked at, a forceClose() neither.        *)
Return ==
  /\ gen \in {"leaving", "forcing"} /\ Settled
  /\ gen' = "returned"
  /\ UNCHANGED <<ownedVars, asks>>

GenerateStep ==
  \/ GenerateUnavailable \/ Prepare \/ PreparationFails \/ CloseEarly \/ ClosedEarly
  \/ Review \/ Ask \/ ProviderAnswers \/ Leave \/ Return

-----------------------------------------------------------------------------
ConnectionStep ==
  \/ Start \/ StartThrows \/ Spawned \/ SpawnFails \/ TransportFailed
  \/ HandshakeOk \/ HandshakeFails \/ CleanUpEnds
  \/ Hook \/ Timer \/ Exit \/ CloseEvent

CallerStep ==
  /\ gen = "absent" /\ proxy = "absent"
  /\ UserClose \/ UserForceClose

(* The caller's signal, which the command itself does not pass, included.  *)
ProviderStep ==
  /\ asks \/ pPc # "called"
  /\ Provider!Next

OwnersNext ==
  \/ (ConnectionStep \/ CallerStep) /\ UNCHANGED <<awaits, proxyVars, genVars, providerVars>>
  \/ ProxyStep /\ UNCHANGED <<genVars, providerVars>>
  \/ GenerateStep /\ UNCHANGED <<proxyVars, providerVars>>
  \/ ProviderStep /\ UNCHANGED <<ownedVars, proxyVars, genVars>>

OwnersSpec == OwnersInit /\ [][OwnersNext]_allVars

(* As in StdioConnection.  The file system answers and timers fire, while  *)
(* nothing is assumed of the CLI.  The proxy polls its upstream, and an    *)
(* owner goes on when what it awaits has settled.                          *)
OwnersFairness ==
  /\ Fairness
  /\ WF_providerVars(asks /\ Provider!Prepare)
  /\ WF_providerVars(Provider!TimeoutFires)
  /\ WF_providerVars(Provider!KillFires)
  /\ WF_providerVars(Provider!DeadlineFires)
  /\ WF_<<ownedVars, proxyVars>>(UpstreamGone \/ ServerClosed \/ UpstreamClosed \/ UpstreamForced)
  /\ WF_<<ownedVars, genVars>>(GenerateUnavailable \/ ClosedEarly \/ ProviderAnswers \/ Return)

FairOwnersSpec == OwnersSpec /\ OwnersFairness

-----------------------------------------------------------------------------
OkIsClean == Provider!OkIsClean

(* Whoever asks the provider goes on, whatever its CLI does and whatever   *)
(* becomes of the server meanwhile (runProviderProcess).                   *)
AskingEnds == asks ~> ~asks

OwnerEnds == ProxyEnds \/ gen \in {"closing", "leaving", "forcing"}

(* Once a client, a signal or the upstream has ended the proxy, its start  *)
(* was refused, or the generate command is done, the owner and its server  *)
(* come to an end, whatever else arrives meanwhile.  Only a kill that      *)
(* failed, or a second signal of a kind, which finds no handler, may leave *)
(* the server behind (watchLifecycle, runGenerateCommand).                 *)
BothSidesEnd ==
  OwnerEnds ~> \/ (proxy \in {"exited", "threw"} \/ gen = "returned") /\ child # "running"
               \/ proxy = "killed"
               \/ lc.state = "failed"
=============================================================================
