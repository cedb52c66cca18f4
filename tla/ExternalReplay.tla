--------------------------- MODULE ExternalReplay ---------------------------
(***************************************************************************)
(* Replay.  Each call the adapter intercepts does a /lookup; the replay    *)
(* engine behind the Coordinator serves, key by key, the next interaction  *)
(* of a completed session.  The store is opened read-only: what is in it   *)
(* never changes.  The real network is never called.                       *)
(***************************************************************************)
EXTENDS Coordinator

CONSTANT MaxSource    \* bound: interactions of the source session

ASSUME SourceAssumption == MaxSource \in Nat /\ 1..MaxSource \subseteq Outcomes

VARIABLES
  cursors,     \* per key, the occurrence its next lookup asks for
  consumedCount,
  misses,      \* what was looked up in vain, in order
  served,      \* per call, the interaction it was answered with (0: none)
  claimed,     \* the processes that take themselves for the writer
  summary      \* what the engine finished with

engineVars == <<cursors, consumedCount, misses, served>>
replayVars == <<engineVars, claimed, summary>>

NoSummary == [done |-> FALSE, consumed |-> 0, unused |-> 0, misses |-> <<>>, others |-> 0]

Miss == [key : MatchKeys, occurrence : Nat]

ReplayTypeOK ==
  /\ cursors \in [MatchKeys -> Nat]
  /\ consumedCount \in Nat
  /\ misses \in Seq(Miss)
  /\ served \in [Calls -> 0..Len(log)]
  /\ claimed \subseteq Adapters
  /\ summary \in [done : BOOLEAN, consumed : Nat, unused : Nat, misses : Seq(Miss), others : Nat]

-----------------------------------------------------------------------------
(* The source: what recordings leave behind.                               *)

\* The log of a recording that reserved interactions for these keys, in this
\* order, of which `open` were never completed.
RecordedLog(keys, open) ==
  [i \in DOMAIN keys |->
     [key        |-> keys[i],
      occurrence |-> Cardinality({j \in 1..(i - 1) : keys[j] = keys[i]}),
      outcome    |-> IF i \in open THEN NoOutcome ELSE i]]

\* Only the last interaction of a key can be open, and in a session that was
\* stored as completed none is.
SourceInit ==
  \E n \in 0..MaxSource : \E keys \in [1..n -> MatchKeys] : \E open \in SUBSET (1..n) :
    /\ \A i \in open, j \in 1..n : keys[i] = keys[j] => j <= i
    /\ log = RecordedLog(keys, open)
    /\ status \in IF open = {} THEN Statuses ELSE Statuses \ {"completed"}

\* createReplayEngine: only a completed session can be replayed.
SourceAccepted == status = "completed"

ReplayInit ==
  /\ SourceInit
  /\ CoordinatorInit(SourceAccepted)
  /\ cursors = [k \in MatchKeys |-> 0]
  /\ consumedCount = 0
  /\ misses = <<>>
  /\ served = [c \in Calls |-> 0]
  /\ claimed = {}
  /\ summary = NoSummary

-----------------------------------------------------------------------------
(* The fetch adapter, in a child.                                          *)

\* markClaimed: whatever ends a lookup, unless it is the writer conflict.
ClaimedBy(c, r) ==
  IF r # "WRITER_CONFLICT" /\ proc'[c] \in Adapters THEN claimed \cup {proc'[c]} ELSE claimed

\* A hit is restored, a response to return or an error to throw; an error of
\* the Coordinator is thrown, the writer conflict among them.
LookupAnswered(c) ==
  /\ Answered(c, "/lookup")
  /\ \E to \in IF reply[c] = "ok" THEN {"returned", "threw"} ELSE {"threw"} :
       pc' = [pc EXCEPT ![c] = to]
  /\ UNCHANGED <<proc, key, wireVars, claimVars, serverVars>>
  /\ claimed' = ClaimedBy(c, reply[c])

\* The client gives up without an answer; the adapter's catch does not ask why.
LookupUnanswered(c) ==
  /\ \/ \E p \in Adapters : FetchTooLarge(c, p)
     \/ RequestTimeout(c)
     \/ Unavailable(c)
  /\ claimed' = ClaimedBy(c, "none")

-----------------------------------------------------------------------------
(* The replay engine, behind the Coordinator.                              *)

\* The store's lookup: the complete interactions at this place.
Found(k, n) == {i \in SameKey(k) \ Incomplete : log[i].occurrence = n}

LookupVerdict(k) ==
  IF status # "completed" THEN "REPLAY_SOURCE_INVALID"
  ELSE IF Found(k, cursors[k]) = {} THEN "REPLAY_MISS"
  ELSE "ok"

\* Weakened: the cursor follows the hits of all keys.
NextCursorsOfAll(k) == [j \in MatchKeys |-> cursors[j] + 1]

\* Weakened: a repeated call is served the same interaction again.
NextCursorsStuck(k) == cursors

NextCursors(k) == [cursors EXCEPT ![k] = @ + 1]

Hit(c) ==
  /\ served' = [served EXCEPT ![c] = CHOOSE i \in Found(key[c], cursors[key[c]]) : TRUE]
  /\ cursors' = NextCursors(key[c])
  /\ consumedCount' = consumedCount + 1
  /\ UNCHANGED misses

RecordMiss(c) ==
  /\ misses' = Append(misses, [key |-> key[c], occurrence |-> cursors[key[c]]])
  /\ UNCHANGED <<cursors, consumedCount, served>>

HandleLookup(c) ==
  /\ BodyRead(c, "/lookup")
  /\ LET verdict == LookupVerdict(key[c])
     IN  /\ CASE verdict = "ok"          -> Hit(c)
              [] verdict = "REPLAY_MISS" -> RecordMiss(c)
              [] OTHER                   -> UNCHANGED engineVars
         /\ Answer(c, verdict)
  /\ UNCHANGED <<callVars, claimVars, serverVars, claimed, summary>>

EngineSummary ==
  [done     |-> TRUE,
   consumed |-> consumedCount,
   unused   |-> IF Len(log) > consumedCount THEN Len(log) - consumedCount ELSE 0,
   misses   |-> misses,
   others   |-> otherProcessCalls]

\* The server has closed: the engine makes its summary.
FinishEngine ==
  /\ ServerClosed
  /\ summary' = EngineSummary
  /\ UNCHANGED <<engineVars, claimed>>

-----------------------------------------------------------------------------
\* Steps that leave the engine and the adapter's claim alone.
CoordinatorStep ==
  /\ \/ \E c \in Calls, p \in Processes : StartFetch(c, p, "/lookup")
     \/ \E c \in Calls : RefuseStranger(c)
     \/ \E c \in Calls : HandleHead(c)
     \/ \E c \in Calls : RefuseBody(c)
     \/ \E c \in Calls : RequestLost(c)
     \/ ParentKilled
  /\ UNCHANGED replayVars

LookupStep ==
  \/ \E c \in Calls : LookupAnswered(c) /\ UNCHANGED <<engineVars, summary>>
  \/ \E c \in Calls : LookupUnanswered(c) /\ UNCHANGED <<engineVars, summary>>
  \/ \E c \in Calls : HandleLookup(c)

\* All steps but the end of a process and of the session, which ReplayObserver
\* adds; the store is only read.
ReplayStep ==
  /\ CoordinatorStep \/ LookupStep
  /\ UNCHANGED storeVars

-----------------------------------------------------------------------------
(* Every process that calls gets, key by key, the recorded interactions in *)
(* the order they were recorded, each served once, whatever the order in   *)
(* which concurrent lookups arrive, time out or are refused.               *)
ServedInRecordedOrder ==
  \A k \in MatchKeys :
    LET calls == {c \in Calls : served[c] # 0 /\ key[c] = k}
    IN  /\ {served[c] : c \in calls} = {i \in SameKey(k) : log[i].occurrence < cursors[k]}
        /\ \A c, d \in calls : served[c] = served[d] => c = d

(* A miss says that the recording of the key is used up: the occurrence it *)
(* names is the number of calls of that key that were recorded.            *)
MissMeansExhausted ==
  \A n \in DOMAIN misses : misses[n].occurrence = Cardinality(SameKey(misses[n].key))

(* Once a process holds the session, no other takes itself for the writer. *)
ClaimedIsWriter == writerId # NoProcess => claimed \subseteq {writerId}
=============================================================================
