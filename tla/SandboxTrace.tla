---------------------------- MODULE SandboxTrace ----------------------------
(***************************************************************************)
(* The system calls of the server under audit: strace writes them to a     *)
(* file, and each mark of the audit attaches the lines that are new to the *)
(* phase that ends.  strace splits a call in two when another process      *)
(* comes between, and the parser understands neither half alone.           *)
(***************************************************************************)
EXTENDS Naturals, Sequences, FiniteSets, SequencesExt

CONSTANTS
  Pids,       \* the processes of the server, numbered from 1
  MaxLines    \* bound: lines strace writes

VARIABLES
  file,       \* the complete lines of the file
  written,    \* how many were ever written; numbers them
  touched,    \* history: the server has shortened the file
  phase,      \* the phase the audit is in
  seen,       \* how many lines the file had when it was last read
  carried,    \* lines read and held back, for their other halves
  segments,   \* lines attached to a phase by each mark, in order
  tail,       \* what the last reading adds, for the phase it is in
  shrank      \* traceShrank

fileVars  == <<file, written, touched>>
marksVars == <<phase, seen, carried, segments, tail, shrank>>

TraceInit ==
  /\ file = <<>> /\ written = 0 /\ touched = FALSE
  /\ phase = 0 /\ seen = 0
  /\ carried = <<>> /\ segments = <<>> /\ tail = <<>>
  /\ shrank = FALSE

-----------------------------------------------------------------------------
(* strace, and the server that may remove what it wrote.                   *)

LineOf(pid, half) == [no |-> written + 1, pid |-> pid, half |-> half]

Answers(lines, i, j) ==     \* line j is the other half of line i
  /\ lines[i].half = "front" /\ lines[j].half = "back" /\ lines[i].pid = lines[j].pid
  /\ i < j
  /\ \A k \in (i + 1)..(j - 1) : lines[k].pid = lines[i].pid => lines[k].half = "whole"

IsOpen(lines, i) == lines[i].half = "front" /\ \A j \in DOMAIN lines : ~Answers(lines, i, j)

InCall == {file[i].pid : i \in {i \in DOMAIN file : IsOpen(file, i)}}

(* A process in a call has only the end of it to write.  Processes are     *)
(* numbered as they first appear.                                          *)
Trace ==
  /\ written < MaxLines
  /\ \E pid \in Pids, half \in {"whole", "front", "back"} :
       /\ \A p \in 1..(pid - 1) : \E i \in DOMAIN file : file[i].pid = p
       /\ pid \in InCall => half = "back"
       /\ half = "back" => pid \in InCall \/ touched
       /\ file' = Append(file, LineOf(pid, half))
  /\ written' = written + 1
  /\ UNCHANGED touched

Shorten ==
  /\ file # <<>> /\ ~touched
  /\ \E n \in 0..(Len(file) - 1) : file' = SubSeq(file, 1, n)
  /\ touched' = TRUE
  /\ UNCHANGED written

-----------------------------------------------------------------------------
(* attachable: how much of the pool goes to the phase that ends.           *)

(* The first half still unanswered, of each process, as the loop keeps it. *)
Waiting(pool) ==
  {i \in DOMAIN pool :
     /\ pool[i].half = "front"
     /\ \A j \in (i + 1)..Len(pool) : pool[j].pid = pool[i].pid => pool[j].half # "back"
     /\ \A h \in 1..(i - 1) : pool[h].pid = pool[i].pid /\ pool[h].half = "front"
          => \E b \in h..i : pool[b].pid = pool[i].pid /\ pool[b].half = "back"}

(* A half and the line that ends it: the first half since the last end.    *)
Pairs(pool) ==
  {p \in (DOMAIN pool) \X (DOMAIN pool) :
     /\ p[1] < p[2] /\ pool[p[1]].pid = pool[p[2]].pid
     /\ pool[p[1]].half = "front" /\ pool[p[2]].half = "back"
     /\ \A k \in (p[1] + 1)..(p[2] - 1) : pool[k].pid = pool[p[1]].pid => pool[k].half # "back"
     /\ \A h \in 1..(p[1] - 1) : pool[h].pid = pool[p[1]].pid /\ pool[h].half = "front"
          => \E b \in h..p[1] : pool[b].pid = pool[p[1]].pid /\ pool[b].half = "back"}

(* Weakened: pairs across the cut are not looked for.                      *)
CutsNothing(pool, cut) == TRUE

CutsNoPair(pool, cut) == \A p \in Pairs(pool) : ~(p[1] <= cut /\ cut < p[2])

(* A half that waits for its end holds back all that follows, unless it is *)
(* among the first `released` lines, which have been held back before.     *)
(* One pass over the pairs from the last end to the first finds the        *)
(* largest cut before it that divides none.                                *)
Attachable(pool, released) ==
  CHOOSE cut \in 0..Len(pool) :
    LET Fits(c) == CutsNoPair(pool, c) /\ \A i \in Waiting(pool) : i > released => c < i
    IN  Fits(cut) /\ \A c \in (cut + 1)..Len(pool) : ~Fits(c)

-----------------------------------------------------------------------------
New == SubSeq(file, seen + 1, Len(file))

(* Weakened: lines held back count as not seen.                            *)
SeenAttached(cut) == seen + cut

SeenAfter(cut) == Len(file)

(* mark, once the file is read: the new lines go to the phase that ends.   *)
ReadMark(next) ==
  LET pool == carried \o New
      cut  == Attachable(pool, Len(carried))
  IN  /\ shrank' = (shrank \/ Len(file) < seen)
      /\ segments' = IF cut = 0 THEN segments
                     ELSE Append(segments, [phase |-> phase, lines |-> SubSeq(pool, 1, cut),
                                            from |-> seen, upto |-> Len(file)])
      /\ carried' = SubSeq(pool, cut + 1, Len(pool))
      /\ seen' = SeenAfter(cut)
      /\ phase' = next
      /\ UNCHANGED tail

(* The file could not be read: its new lines are left to the next mark.    *)
MissMark(next) ==
  /\ phase' = next
  /\ UNCHANGED <<seen, carried, segments, tail, shrank>>

(* snapshot: nothing is held back any more, and nothing is changed.        *)
ReadTail ==
  /\ tail' = IF Len(file) < seen THEN carried ELSE carried \o New
  /\ shrank' = (shrank \/ Len(file) < seen)
  /\ UNCHANGED <<phase, seen, carried, segments>>

MissTail ==
  /\ tail' = carried
  /\ UNCHANGED <<phase, seen, carried, segments, shrank>>

-----------------------------------------------------------------------------
Attached == FlattenSeq([k \in DOMAIN segments |-> segments[k].lines])

InOrderOnce(lines) == \A i, j \in DOMAIN lines : i < j => lines[i].no < lines[j].no

(* No line is lost, repeated or moved by the marks, whatever is held back  *)
(* and whichever reading fails: a file the server left alone is read as it *)
(* was written, and one it shortened gives no line twice (docker.ts mark,  *)
(* snapshot).  Only a server that shortens its file is said to.            *)
TraceIsWhole ==
  /\ InOrderOnce(Attached \o carried)
  /\ InOrderOnce(Attached \o tail)
  /\ ~touched => Attached \o carried = SubSeq(file, 1, seen)
  /\ shrank => touched

(* A call whose two halves strace wrote reaches one phase whole: a mark    *)
(* takes the first half without the second only if it had been held back   *)
(* before and the second had still not been written (docker.ts:629-638).   *)
HalvesStayTogether ==
  ~touched =>
    \A k \in DOMAIN segments :
      LET taken == {segments[k].lines[x].no : x \in DOMAIN segments[k].lines}
      IN  \A i, j \in DOMAIN file :
            Answers(file, i, j) /\ i \in taken /\ j \notin taken
              => i <= segments[k].from /\ segments[k].upto < j
=============================================================================
