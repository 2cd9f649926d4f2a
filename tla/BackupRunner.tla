---------------------------- MODULE BackupRunner ----------------------------
(***************************************************************************)
(* The backup runner (server/backup/backup.go): the goroutine in Start,    *)
(* its ticker, Stop, and the copy that RunOnce makes of the database file, *)
(* page by page, while the database is in use.                             *)
(*                                                                         *)
(* External: SQLite in WAL mode on one connection.  A commit goes to the   *)
(* log; a checkpoint writes the last commit into the file, page by page.   *)
(***************************************************************************)
EXTENDS Integers, Sequences

CONSTANTS
  NPages,         \* pages of the database file
  MaxCommits      \* bound on the commits

ASSUME BackupAssumption == NPages \in Nat \ {0} /\ MaxCommits \in Nat

VARIABLES
  runner,         \* where Start is, "off" when no destination is configured
  tick,           \* ticker.C holds a tick
  stop,           \* r.stop holds a message
  stopped,        \* history: Stop has been called
  committed,      \* number of commits
  file,           \* file[g]: the commit that page g of the file is from
  written,        \* pages that the checkpoint under way has written
  copy            \* the last copy: its pages and how copyFile ended; history:
                  \* the commit that the file had in full when it began, and
                  \* whether it has met a checkpoint

backupVars == <<runner, tick, stop, stopped, committed, file, written, copy>>

NoCopy == [pages |-> <<>>, status |-> "none", from |-> 0, met |-> FALSE]

\* The runner and its channels, the file and its copy.
BackupTypeOK ==
  /\ runner \in {"off", "ready", "select", "copy", "returned"}
  /\ tick \in BOOLEAN /\ stop \in BOOLEAN /\ stopped \in BOOLEAN
  /\ committed \in 0 .. MaxCommits
  /\ file \in [1 .. NPages -> 0 .. committed]
  /\ written \in 0 .. NPages - 1
  /\ copy \in [pages : Seq(Nat), status : {"none", "copying", "ok", "error"},
               from : Nat, met : BOOLEAN]

BackupInit ==
  /\ runner = "off" /\ tick = FALSE /\ stop = FALSE /\ stopped = FALSE
  /\ committed = 0
  /\ file = [g \in 1 .. NPages |-> 0]
  /\ written = 0
  /\ copy = NoCopy

-----------------------------------------------------------------------------
\* External: the database

Commit ==
  /\ committed < MaxCommits /\ written = 0
  /\ committed' = committed + 1
  /\ UNCHANGED <<runner, tick, stop, stopped, file, written, copy>>

\* A copy and a checkpoint meet where the one has read and the other has
\* written the same pages, some but not all: from there either may be ahead.
CheckpointPage ==
  /\ written > 0 \/ file[NPages] < committed
  /\ file' = [file EXCEPT ![written + 1] = committed]
  /\ written' = IF written + 1 = NPages THEN 0 ELSE written + 1
  /\ copy' = [copy EXCEPT !.met =
                @ \/ (runner = "copy" /\ written' > 0 /\ written' = Len(copy.pages))]
  /\ UNCHANGED <<runner, tick, stop, stopped, committed>>

-----------------------------------------------------------------------------
\* Start, RunOnce and copyFile

\* The ticker drops a tick that finds its channel full.
Tick ==
  /\ runner \in {"select", "copy"}
  /\ ~tick /\ tick' = TRUE
  /\ UNCHANGED <<runner, stop, stopped, committed, file, written, copy>>

\* case <-ticker.C: RunOnce opens both files, or fails.
RunOnce ==
  /\ runner = "select" /\ tick
  /\ tick' = FALSE
  /\ \/ /\ runner' = "copy"
        /\ copy' = [NoCopy EXCEPT !.status = "copying", !.from = file[NPages]]
     \/ UNCHANGED <<runner, copy>>
  /\ UNCHANGED <<stop, stopped, committed, file, written>>

\* io.Copy reads the next page as it is now.
CopyPage ==
  /\ runner = "copy" /\ Len(copy.pages) < NPages
  /\ copy' = [copy EXCEPT !.pages = Append(@, file[Len(@) + 1]),
                          !.met = @ \/ Len(copy.pages) + 1 = written]
  /\ UNCHANGED <<runner, tick, stop, stopped, committed, file, written>>

\* Mutant of CopyEnds: the error of io.Copy is dropped.
CopyEndsAnyway ==
  /\ runner = "copy"
  /\ runner' = "select"
  /\ copy' = [copy EXCEPT !.status = "ok"]
  /\ UNCHANGED <<tick, stop, stopped, committed, file, written>>

\* copyFile returns.  A copy that failed stays under the name of a backup, and
\* Start drops the error.
CopyEnds ==
  /\ runner = "copy"
  /\ runner' = "select"
  /\ \/ Len(copy.pages) = NPages /\ copy' = [copy EXCEPT !.status = "ok"]
     \/ copy' = [copy EXCEPT !.status = "error"]
  /\ UNCHANGED <<tick, stop, stopped, committed, file, written>>

\* case <-r.stop
StartReturns ==
  /\ runner = "select" /\ stop
  /\ stop' = FALSE
  /\ runner' = "returned"
  /\ UNCHANGED <<tick, stopped, committed, file, written, copy>>

\* go br.Start() is scheduled.
Start ==
  /\ runner = "ready"
  /\ runner' = "select"
  /\ UNCHANGED <<tick, stop, stopped, committed, file, written, copy>>

\* Mutant of Stop: without a buffer, only a runner in its select is told.
StopUnbuffered ==
  /\ stopped' = TRUE
  /\ stop' = (stop \/ runner = "select")
  /\ UNCHANGED <<runner, tick, committed, file, written, copy>>

\* The channel holds one message, and a second one is dropped.
Stop ==
  /\ stopped' = TRUE
  /\ stop' = TRUE
  /\ UNCHANGED <<runner, tick, committed, file, written, copy>>

Runner == Start \/ Tick \/ RunOnce \/ CopyPage \/ CopyEnds \/ StartReturns

-----------------------------------------------------------------------------
\* A copy that copyFile reports as made is the database as one commit left it,
\* no older than the last checkpoint that had ended when it began, whatever
\* commits and checkpoints come in while it is made: all that can tear it is a
\* checkpoint that it meets half way (copyFile on a database in use).
BackupIsOneCommit ==
  copy.status = "ok" /\ ~copy.met =>
    \E c \in copy.from .. committed : copy.pages = [g \in 1 .. NPages |-> c]

\* Stop is not lost on a runner that is busy with a copy, or not yet scheduled.
StopIsKept == stopped /\ runner # "off" => stop \/ runner = "returned"

-----------------------------------------------------------------------------
\* What holds of the file and the copy in between: a checkpoint under way has
\* written its first pages, and the others are of one commit.
FileInv ==
  /\ \A g \in 1 .. NPages : g <= written => file[g] = committed
  /\ \A g \in 1 .. NPages : g > written => file[g] = file[NPages]

\* A copy that has met no checkpoint is ahead of the one under way, and what it
\* has left to read is of the same commit as what it has read; or it is behind,
\* and has read, as it will read, the commit that is being written.
CopyInv ==
  /\ runner = "copy" => copy.status = "copying" /\ copy.from <= file[NPages]
  /\ Len(copy.pages) <= NPages
  /\ copy.status = "ok" => Len(copy.pages) = NPages
  /\ copy.status \in {"copying", "ok"} /\ ~copy.met =>
       \A g \in 1 .. Len(copy.pages) :
         copy.pages[g] = copy.pages[1] /\ copy.pages[g] \in copy.from .. committed
  /\ runner = "copy" /\ ~copy.met /\ Len(copy.pages) \in 1 .. NPages - 1 =>
       \/ written < Len(copy.pages) /\ file[NPages] = copy.pages[1]
       \/ written > Len(copy.pages) /\ committed = copy.pages[1]
=============================================================================
