------------------------------- MODULE Server -------------------------------
(***************************************************************************)
(* The process: Run (server/server.go) under main (main.go), from          *)
(* start-up through a signal or an error of the listener to the exit, with *)
(* the requests that use the store (Datasets), the event streams, which    *)
(* last until their client leaves, and the backup runner.                  *)
(*                                                                         *)
(* External: http.Server, whose Shutdown closes the listener and returns   *)
(* when no connection is left or its context is over, and sql.DB, which    *)
(* fails every statement after Close.                                      *)
(***************************************************************************)
EXTENDS Datasets, BackupRunner

CONSTANT Beside     \* bound: the requests served while a backup runner is on

ASSUME ServerAssumption == Beside \subseteq Reqs

VARIABLES
  phase,          \* where Run is
  result,         \* what Run returns
  signalled,      \* ctx is cancelled
  stream          \* a connection to GET /events is open

vars == <<dataVars, backupVars, phase, result, signalled, stream>>

procVars == <<phase, result, signalled, stream>>

\* Where Run is, and the types of its parts.
TypeOK ==
  /\ DataTypeOK /\ BackupTypeOK
  /\ phase \in {"down", "up", "draining", "returning", "stopped",
               "closed", "exited"}
  /\ result \in {"none", "nil", "error"}
  /\ signalled \in BOOLEAN /\ stream \in BOOLEAN

Init ==
  /\ DataInit /\ BackupInit
  /\ phase = "down" /\ result = "none"
  /\ signalled = FALSE /\ stream = FALSE

\* main calls Run, which opens the store and starts the runner, if there is a
\* destination, and the listener.  Until then a signal changes nothing else.
StartUp ==
  /\ phase = "down"
  /\ phase' = "up"
  /\ runner' \in {"off", "ready"}
  /\ UNCHANGED <<dataVars, tick, stop, stopped, committed, file, written, copy,
                 result, signalled, stream>>

\* The configuration, the store or the templates cannot be read.
StartFails ==
  /\ phase = "down"
  /\ phase' = "exited" /\ result' = "error"
  /\ UNCHANGED <<dataVars, backupVars, signalled, stream>>

\* The process is gone, and its goroutines with it.
Gone ==
  /\ phase' = "exited"
  /\ call' = [r \in Reqs |-> NoCall]
  /\ runner' = "off" /\ stream' = FALSE /\ written' = 0
  /\ UNCHANGED <<tables, crr, rows, tick, stop, stopped, committed, file, copy, signalled>>

-----------------------------------------------------------------------------
\* Requests

\* External: connections that are open bring requests until Shutdown has seen
\* the last one idle and has closed it, also while it waits for others.
Serving == phase \notin {"down", "exited"} /\ result # "nil"

\* A handler calls the store.
Accept(r) ==
  /\ Serving /\ (runner = "off" \/ r \in Beside)
  /\ \E x \in Scopes : Begin(r, x)
  /\ UNCHANGED <<backupVars, procVars>>

\* A statement runs, or fails: always, once the store is closed.
Handle(r) ==
  /\ \/ phase # "closed" /\ Work(r)
     \/ StatementFails(r)
  /\ UNCHANGED <<backupVars, procVars>>

\* SSEHandler begins, and ends when the client leaves: Shutdown does not end it.
OpenStream ==
  /\ Serving /\ ~stream
  /\ stream' = TRUE
  /\ UNCHANGED <<dataVars, backupVars, phase, result, signalled>>

CloseStream ==
  /\ stream
  /\ stream' = FALSE
  /\ UNCHANGED <<dataVars, backupVars, phase, result, signalled>>

\* The runner, and the commits and checkpoints that a copy may meet, go on
\* until the process is gone.
Background ==
  /\ phase \notin {"down", "exited"} /\ runner # "off"
  /\ Runner \/ (phase # "closed" /\ (Commit \/ CheckpointPage))
  /\ UNCHANGED <<dataVars, procVars>>

-----------------------------------------------------------------------------
\* The end of Run

Signal ==
  /\ phase \in {"down", "up"} /\ ~signalled
  /\ signalled' = TRUE
  /\ UNCHANGED <<dataVars, backupVars, phase, result, stream>>

\* case err := <-errCh: whatever is running, Run returns.
ListenFails ==
  /\ phase = "up"
  /\ phase' = "returning" /\ result' = "error"
  /\ UNCHANGED <<dataVars, backupVars, signalled, stream>>

\* case <-ctx.Done(): Shutdown closes the listener ...
Shutdown ==
  /\ phase = "up" /\ signalled
  /\ phase' = "draining"
  /\ UNCHANGED <<dataVars, backupVars, result, signalled, stream>>

Idle == ~stream /\ \A r \in Reqs : call[r] = NoCall

\* Mutant of Drained: srv.Close() in place of Shutdown.
DrainedAtOnce ==
  /\ phase = "draining"
  /\ phase' = "returning" /\ result' = "nil"
  /\ UNCHANGED <<dataVars, backupVars, signalled, stream>>

\* ... and waits for the requests ...
Drained ==
  /\ phase = "draining" /\ Idle
  /\ phase' = "returning" /\ result' = "nil"
  /\ UNCHANGED <<dataVars, backupVars, signalled, stream>>

\* Mutant of Deadline: the context of Shutdown has no timeout.
DeadlineNever == FALSE /\ UNCHANGED vars

\* ... for ten seconds.
Deadline ==
  /\ phase = "draining"
  /\ phase' = "returning" /\ result' = "error"
  /\ UNCHANGED <<dataVars, backupVars, signalled, stream>>

\* The deferred calls, last one first: br.Stop, which does not wait, ...
DeferStop ==
  /\ phase = "returning"
  /\ phase' = "stopped"
  /\ IF runner = "off" THEN UNCHANGED backupVars ELSE Stop
  /\ UNCHANGED <<dataVars, result, signalled, stream>>

\* ... and store.Close, which waits for the statement that is running.
DeferClose ==
  /\ phase = "stopped" /\ written = 0
  /\ phase' = "closed"
  /\ UNCHANGED <<dataVars, backupVars, result, signalled, stream>>

\* main returns, or log.Fatal ends it.
Exit == phase = "closed" /\ Gone /\ UNCHANGED result

\* The process is killed.
Kill == phase \notin {"down", "exited"} /\ Gone /\ result' = "error"

Main == StartUp \/ StartFails \/ Shutdown \/ Drained \/ Deadline \/ DeferStop \/ DeferClose \/ Exit

Next ==
  \/ Signal \/ ListenFails \/ Main \/ Kill
  \/ \E r \in Reqs : Accept(r) \/ Handle(r)
  \/ OpenStream \/ CloseStream \/ Background

Spec == Init /\ [][Next]_vars

\* The goroutine of Run is scheduled, ten seconds pass, and a checkpoint that
\* has begun ends; no request, stream or backup need ever end.
FairSpec == Spec /\ WF_vars(Main) /\ WF_vars(CheckpointPage /\ Background)

-----------------------------------------------------------------------------
\* Run returns nil only if the store it closes is in nobody's hands: no request
\* is served and no event stream is open, although connections that were open
\* at the signal may have brought more of both in the meantime.
NothingCutOff == phase = "closed" /\ result = "nil" => Idle

\* After a signal the process ends, whatever its requests, its event streams
\* and a backup do.
Exits == signalled ~> phase = "exited"

-----------------------------------------------------------------------------
\* The inductive invariant.

\* Nothing is stopped before Run returns, and nothing is accepted once Shutdown
\* has returned without an error.
RunInv ==
  /\ phase = "down" => runner = "off" /\ ~stopped
  /\ phase \in {"down", "up", "draining"} => result = "none"
  /\ phase \in {"returning", "stopped", "closed"} /\ result = "nil" => Idle

ServerInv ==
  /\ TypeOK
  /\ EnsureInv /\ RowsAreReplicated /\ RowsInPlace
  /\ phase # "exited" => FileInv
  /\ CopyInv /\ StopIsKept
  /\ RunInv
=============================================================================
