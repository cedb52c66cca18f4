---------------------------- MODULE SessionFile ----------------------------
(***************************************************************************)
(* The SQLite file behind the session store, between the runs of the CLI   *)
(* that open it: recordings, which bring the schema, may bring a file of   *)
(* store version 1 to version 2 and create the one session of the file,    *)
(* and replays, which open it read-only.  Runs may overlap, each SQL       *)
(* statement is a transaction of its own, any may find the file locked,    *)
(* and a run may be killed between any two.                                *)
(*                                                                         *)
(* What reserve, complete and finish do to the rows of the session is      *)
(* SessionStore's; here they are a number.  A file that is not there and   *)
(* an empty one are the same.                                              *)
(***************************************************************************)
EXTENDS Naturals

CONSTANTS
  Runs,        \* of the CLI, on this file
  NoRun,
  MaxRows      \* bound: writes to the rows of the session

ASSUME RunsAssumption == NoRun \notin Runs /\ MaxRows \in Nat

VARIABLES
  file,          \* what is on the disk
  at,            \* where each run is
  fileVersion,   \* what each run takes for the version of the file
  added,         \* columns a run's migration has added
  creator,       \* history: the run that created the session
  found          \* history: the status of the session when a run opened the file

sessionFileVars == <<file, at, fileVersion, added, creator, found>>

\* tables: how many of meta, sessions and interactions, made in this order;
\* columns: how many of command, args_json and suite_path sessions has.
Files ==
  [tables : 0..3, columns : 0..3, version : {"none", "1", "2"},
   status : {"none", "running", "completed", "failed"}, rows : Nat]

Opening   == {"schema", "version", "opened", "checking", "altering", "upgrading", "inserting"}
Reading   == {"probing", "preparing", "reading"}
\* How a run ends: "refused" and the others are what it tells; "broken" is an
\* error of SQLite that nothing in the code foresees, "locked" one of the moment.
Ended     == {"refused", "unreadable", "invalid", "broken", "locked", "killed", "over"}

FileTypeOK ==
  /\ file \in Files
  /\ at \in [Runs -> {"idle", "recording", "replaying"} \cup Opening \cup Reading \cup Ended]
  /\ fileVersion \in [Runs -> {"none", "1", "2"}]
  /\ added \in [Runs -> 0..3]
  /\ creator \in Runs \cup {NoRun}
  /\ found \in [Runs -> {"none", "running", "completed", "failed"}]

EmptyFile == [tables |-> 0, columns |-> 0, version |-> "none", status |-> "none", rows |-> 0]

\* What an earlier release may have left behind.
FileOfVersion1(s) ==
  [tables |-> 3, columns |-> 0, version |-> "1", status |-> s, rows |-> 0]

FileInit ==
  /\ file \in {EmptyFile} \cup {FileOfVersion1(s) : s \in {"none", "running", "completed", "failed"}}
  /\ at = [r \in Runs |-> "idle"]
  /\ fileVersion = [r \in Runs |-> "none"]
  /\ added = [r \in Runs |-> 0]
  /\ creator = NoRun
  /\ found = [r \in Runs |-> "none"]

Goes(r, to) == at' = [at EXCEPT ![r] = to]

\* A statement that leaves the file alone.
Looks(r, to) == Goes(r, to) /\ UNCHANGED <<file, added, creator, found>>

-----------------------------------------------------------------------------
(* createSqliteSessionStore: a recording plants what is missing, and a     *)
(* statement that finds its table there does nothing.                      *)

OpenFile(r, mode) ==
  /\ at[r] = "idle"
  /\ Goes(r, mode)
  /\ found' = [found EXCEPT ![r] = file.status]
  /\ UNCHANGED <<file, fileVersion, added, creator>>

CreateTable(r) ==
  /\ at[r] = "schema" /\ file.tables < 3
  /\ file' = [file EXCEPT !.tables = @ + 1, !.columns = IF file.tables = 1 THEN 3 ELSE @]
  /\ UNCHANGED <<at, fileVersion, added, creator, found>>

SchemaReady(r) ==
  /\ at[r] = "schema" /\ file.tables = 3
  /\ Looks(r, "version")
  /\ UNCHANGED fileVersion

\* INSERT OR IGNORE.
InsertVersion(r) ==
  /\ at[r] = "version"
  /\ file' = IF file.version = "none" THEN [file EXCEPT !.version = "2"] ELSE file
  /\ Goes(r, "opened")
  /\ UNCHANGED <<fileVersion, added, creator, found>>

ReadVersion(r) ==
  /\ at[r] = "opened"
  /\ fileVersion' = [fileVersion EXCEPT ![r] = file.version]
  /\ Looks(r, "checking")

-----------------------------------------------------------------------------
(* createSession.                                                          *)

\* Weakened: the version is brought up when the file is opened.
AfterCheckMigrating(r) ==
  IF fileVersion[r] # "2" THEN "altering" ELSE IF file.status # "none" THEN "refused" ELSE "inserting"

\* The refusals come first; only then is the file touched.
AfterCheck(r) ==
  IF file.status # "none" THEN "refused" ELSE IF fileVersion[r] # "2" THEN "altering" ELSE "inserting"

CheckSession(r) ==
  /\ at[r] = "checking"
  /\ Looks(r, AfterCheck(r))
  /\ UNCHANGED fileVersion

\* Weakened: the version is brought up first.
AlterUpgraded(r) ==
  /\ at[r] = "altering"
  /\ file' = [file EXCEPT !.columns = added[r] + 1, !.version = "2"]
  /\ added' = [added EXCEPT ![r] = @ + 1]
  /\ Goes(r, IF added[r] = 2 THEN "upgrading" ELSE "altering")
  /\ UNCHANGED <<fileVersion, creator, found>>

\* ALTER TABLE ADD COLUMN, three times; a column that is there is an error.
Alter(r) ==
  /\ at[r] = "altering"
  /\ IF file.columns = added[r]
     THEN /\ file' = [file EXCEPT !.columns = @ + 1]
          /\ added' = [added EXCEPT ![r] = @ + 1]
          /\ Goes(r, IF added[r] = 2 THEN "upgrading" ELSE "altering")
     ELSE Goes(r, "broken") /\ UNCHANGED <<file, added>>
  /\ UNCHANGED <<fileVersion, creator, found>>

Upgrade(r) ==
  /\ at[r] = "upgrading"
  /\ file' = [file EXCEPT !.version = "2"]
  /\ fileVersion' = [fileVersion EXCEPT ![r] = "2"]
  /\ Goes(r, "inserting")
  /\ UNCHANGED <<added, creator, found>>

\* The primary key keeps a second session out, a missing column any.
InsertSession(r) ==
  /\ at[r] = "inserting"
  /\ IF file.status = "none" /\ file.columns = 3
     THEN file' = [file EXCEPT !.status = "running"] /\ creator' = r /\ Goes(r, "recording")
     ELSE Goes(r, "broken") /\ UNCHANGED <<file, creator>>
  /\ UNCHANGED <<fileVersion, added, found>>

-----------------------------------------------------------------------------
(* A recording: reserve, complete, and finish with the close of the file.  *)

Write(r) ==
  /\ at[r] = "recording" /\ file.status = "running" /\ file.rows < MaxRows
  /\ file' = [file EXCEPT !.rows = @ + 1]
  /\ UNCHANGED <<at, fileVersion, added, creator, found>>

Finish(r, s) ==
  /\ at[r] = "recording"
  /\ file' = IF file.status = "running" THEN [file EXCEPT !.status = s] ELSE file
  /\ Goes(r, "over")
  /\ UNCHANGED <<fileVersion, added, creator, found>>

-----------------------------------------------------------------------------
(* A replay: openReadOnly, the statements, and createReplayEngine.         *)

Probe(r) ==
  /\ at[r] = "probing"
  /\ Looks(r, IF file.version = "none" THEN "unreadable" ELSE "preparing")
  /\ UNCHANGED fileVersion

\* The version is read again.
PrepareStatements(r) ==
  /\ at[r] = "preparing"
  /\ fileVersion' = [fileVersion EXCEPT ![r] = file.version]
  /\ Looks(r, IF file.tables = 3 THEN "reading" ELSE "unreadable")

\* read() asks for the origin in a file of version 2 only.
AfterRead(r) ==
  IF file.status = "none" THEN "unreadable"
  ELSE IF fileVersion[r] = "2" /\ file.columns # 3 THEN "broken"
  ELSE IF file.status # "completed" THEN "invalid" ELSE "replaying"

ReadSource(r) ==
  /\ at[r] = "reading"
  /\ Looks(r, AfterRead(r))
  /\ UNCHANGED fileVersion

EndReplay(r) ==
  /\ at[r] = "replaying"
  /\ Looks(r, "over")
  /\ UNCHANGED fileVersion

-----------------------------------------------------------------------------
\* Another run holds the lock: the statement throws, and with it the start of
\* the run, or the finish of a recording.
Locked(r) ==
  /\ at[r] \in Opening \cup Reading \cup {"recording"}
  /\ Looks(r, "locked")
  /\ UNCHANGED fileVersion

Killed(r) ==
  /\ at[r] \notin {"idle"} \cup Ended
  /\ Looks(r, "killed")
  /\ UNCHANGED fileVersion

Record(r) ==
  \/ CreateTable(r) \/ SchemaReady(r) \/ InsertVersion(r) \/ ReadVersion(r)
  \/ CheckSession(r) \/ Alter(r) \/ Upgrade(r) \/ InsertSession(r)
  \/ Write(r) \/ \E s \in {"completed", "failed"} : Finish(r, s)

Replay(r) == Probe(r) \/ PrepareStatements(r) \/ ReadSource(r) \/ EndReplay(r)

FileNext ==
  \E r \in Runs :
    \/ \E mode \in {"schema", "probing"} : OpenFile(r, mode)
    \/ Record(r) \/ Replay(r)
    \/ Locked(r) \/ Killed(r)

FileSpec == FileInit /\ [][FileNext]_sessionFileVars

-----------------------------------------------------------------------------
(* A file that holds a session is changed only by the recording that       *)
(* created it, while it records: not by one that is refused, was overtaken *)
(* or finds the session of a run that was killed (createSession, #290).    *)
OnlyItsRecorder ==
  [][file.status # "none" /\ file' # file =>
       creator # NoRun /\ at[creator] = "recording"]_file

(* A recording that was once completed can be replayed ever after, from    *)
(* either version and whatever recordings were tried or killed meanwhile;  *)
(* and wherever a migration is cut short, a file is of version 2 only with *)
(* every column that its readers ask for (READABLE_STORE_VERSIONS).        *)
RecordingsStayReadable ==
  /\ file.version = "2" => file.columns = 3
  /\ \A r \in Runs : found[r] = "completed" => at[r] \notin {"unreadable", "invalid", "broken"}
=============================================================================
