---------------------------- MODULE Broadcaster ----------------------------
(***************************************************************************)
(* Push notifications: the Broadcaster and SSEHandler of                   *)
(* transport/http2/sse.go, the requests of one user that commit ops and    *)
(* call Notify (core/sync/engine.go), and the devices that listen.         *)
(*                                                                         *)
(* b.mu protects the list of channels; a channel holds one message.  What  *)
(* a device does with an event, pulling the log by POST /sync, is external.*)
(***************************************************************************)
EXTENDS Integers

CONSTANTS
  Conns,        \* connections to GET /events, one channel each
  Writers       \* requests of the same user that store ops

VARIABLES
  subs,         \* channels in b.subs
  buf,          \* buf[c]: the channel of c holds a message
  conn,         \* conn[c]: where the handler of c is
  gone,         \* connections that their clients have closed
  writer,       \* writer[w]: where request w is
  todo,         \* todo[w]: the channels Notify copied and has not tried yet
  version,      \* number of requests whose ops are committed
  event,        \* event[c]: the device has an event it has not acted on
  seen,         \* seen[c]: the version the device last pulled
  base          \* history: base[c], the version at Subscribe

vars == <<subs, buf, conn, gone, writer, todo, version, event, seen, base>>

\* Connections, requests and channels are where the code can be.
TypeOK ==
  /\ subs \in SUBSET Conns
  /\ buf \in [Conns -> BOOLEAN] /\ event \in [Conns -> BOOLEAN]
  /\ conn \in [Conns -> {"new", "open", "loop", "write", "closed"}]
  /\ gone \in SUBSET Conns
  /\ writer \in [Writers -> {"merge", "notify", "send", "done"}]
  /\ todo \in [Writers -> SUBSET Conns]
  /\ version \in Nat /\ seen \in [Conns -> Nat] /\ base \in [Conns -> Nat]

Init ==
  /\ subs = {}
  /\ buf = [c \in Conns |-> FALSE] /\ event = [c \in Conns |-> FALSE]
  /\ conn = [c \in Conns |-> "new"]
  /\ gone = {}
  /\ writer = [w \in Writers |-> "merge"]
  /\ todo = [w \in Writers |-> {}]
  /\ version = 0
  /\ seen = [c \in Conns |-> 0] /\ base = [c \in Conns |-> 0]

-----------------------------------------------------------------------------
\* SSEHandler

\* The response headers are flushed before the handler subscribes.
FlushHeaders(c) ==
  /\ conn[c] = "new"
  /\ conn' = [conn EXCEPT ![c] = "open"]
  /\ UNCHANGED <<subs, buf, gone, writer, todo, version, event, seen, base>>

Subscribe(c) ==
  /\ conn[c] = "open"
  /\ conn' = [conn EXCEPT ![c] = "loop"]
  /\ subs' = subs \cup {c}
  /\ base' = [base EXCEPT ![c] = version]
  /\ UNCHANGED <<buf, gone, writer, todo, version, event, seen>>

\* case msg := <-ch
Receive(c) ==
  /\ conn[c] = "loop" /\ buf[c]
  /\ conn' = [conn EXCEPT ![c] = "write"]
  /\ buf' = [buf EXCEPT ![c] = FALSE]
  /\ UNCHANGED <<subs, gone, writer, todo, version, event, seen, base>>

\* The event is written and flushed; the error of a write to a client that has
\* gone is dropped, and the loop goes on.
Write(c) ==
  /\ conn[c] = "write"
  /\ conn' = [conn EXCEPT ![c] = "loop"]
  /\ event' = [event EXCEPT ![c] = @ \/ c \notin gone]
  /\ UNCHANGED <<subs, buf, gone, writer, todo, version, seen, base>>

\* External: the client closes the connection, which cancels r.Context().
Leave(c) ==
  /\ conn[c] # "closed" /\ c \notin gone
  /\ gone' = gone \cup {c}
  /\ UNCHANGED <<subs, buf, conn, writer, todo, version, event, seen, base>>

\* case <-r.Context().Done(), and the deferred Unsubscribe.  A message that is
\* in the channel is dropped with it.
Unsubscribe(c) ==
  /\ conn[c] = "loop" /\ c \in gone
  /\ conn' = [conn EXCEPT ![c] = "closed"]
  /\ subs' = subs \ {c}
  /\ UNCHANGED <<buf, gone, writer, todo, version, event, seen, base>>

\* External: the device pulls because of an event and gets all that is stored.
Pull(c) ==
  /\ event[c]
  /\ event' = [event EXCEPT ![c] = FALSE]
  /\ seen' = [seen EXCEPT ![c] = version]
  /\ UNCHANGED <<subs, buf, conn, gone, writer, todo, version, base>>

-----------------------------------------------------------------------------
\* Engine.Sync and Notify

Commit(w) ==
  /\ writer[w] = "merge"
  /\ version' = version + 1
  /\ writer' = [writer EXCEPT ![w] = "notify"]
  /\ UNCHANGED <<subs, buf, conn, gone, todo, event, seen, base>>

\* The copy of the list, under b.mu.RLock.
CopySubs(w) ==
  /\ writer[w] = "notify"
  /\ todo' = [todo EXCEPT ![w] = subs]
  /\ writer' = [writer EXCEPT ![w] = "send"]
  /\ UNCHANGED <<subs, buf, conn, gone, version, event, seen, base>>

\* Mutant of Send: no default case, a full channel blocks.
SendBlocking(w, c) ==
  /\ writer[w] = "send" /\ c \in todo[w] /\ ~buf[c]
  /\ buf' = [buf EXCEPT ![c] = TRUE]
  /\ todo' = [todo EXCEPT ![w] = @ \ {c}]
  /\ UNCHANGED <<subs, conn, gone, writer, version, event, seen, base>>

\* Mutant of Send: Notify gives up at the first full channel.
SendUntilFull(w, c) ==
  /\ writer[w] = "send" /\ c \in todo[w]
  /\ buf' = [buf EXCEPT ![c] = TRUE]
  /\ todo' = [todo EXCEPT ![w] = IF buf[c] THEN {} ELSE @ \ {c}]
  /\ UNCHANGED <<subs, conn, gone, writer, version, event, seen, base>>

\* select { case ch <- "sync": default: }
Send(w, c) ==
  /\ writer[w] = "send" /\ c \in todo[w]
  /\ buf' = [buf EXCEPT ![c] = TRUE]
  /\ todo' = [todo EXCEPT ![w] = @ \ {c}]
  /\ UNCHANGED <<subs, conn, gone, writer, version, event, seen, base>>

NotifyReturn(w) ==
  /\ writer[w] = "send" /\ todo[w] = {}
  /\ writer' = [writer EXCEPT ![w] = "done"]
  /\ UNCHANGED <<subs, buf, conn, gone, todo, version, event, seen, base>>

Notify(w) == CopySubs(w) \/ (\E c \in Conns : Send(w, c)) \/ NotifyReturn(w)

Next ==
  \/ \E c \in Conns :
       \/ FlushHeaders(c) \/ Subscribe(c) \/ Receive(c) \/ Write(c)
       \/ Leave(c) \/ Unsubscribe(c) \/ Pull(c)
  \/ \E w \in Writers : Commit(w) \/ Notify(w)

Spec == Init /\ [][Next]_vars

\* A goroutine in Notify is scheduled; connections may hang for ever.
FairSpec == Spec /\ \A w \in Writers : WF_vars(Notify(w))

\* Handlers in their loop are scheduled, their writes return, and devices act on
\* events: what EventuallySeen needs and NotifyReturns does not.
ConnFairness ==
  \A c \in Conns : WF_vars(Receive(c)) /\ WF_vars(Write(c)) /\ WF_vars(Pull(c))

-----------------------------------------------------------------------------
\* The handler of c has subscribed, and its client is there.
Listens(c) == conn[c] \in {"loop", "write"} /\ c \notin gone

\* Request w will still put a message into the channel of c.
WillWake(w, c) == writer[w] = "notify" \/ (writer[w] = "send" /\ c \in todo[w])

\* A device is never left asleep: if something was committed since its handler
\* subscribed that it has not pulled, a message or an event is on its way,
\* although channels hold one message and further ones are dropped, also while
\* the handler is busy with the one before.
NoLostWakeup ==
  \A c \in Conns :
    Listens(c) /\ version > base[c] /\ version > seen[c] =>
      buf[c] \/ conn[c] = "write" \/ event[c] \/ \E w \in Writers : WillWake(w, c)

\* Notify returns whatever the connections do: a device that does not read,
\* or has gone, holds up no request (the default case of the select).
NotifyReturns == \A w \in Writers : writer[w] = "notify" ~> writer[w] = "done"

\* Where no connection hangs, every connected device has in the end pulled the
\* last commit made since it subscribed.
EventuallySeen ==
  ConnFairness =>
    \A c \in Conns :
      <>[](Listens(c) /\ version > base[c] => seen[c] = version)

\* The inductive form of NoLostWakeup: channels in the list belong to handlers
\* in their loop, and back.
WakeInv ==
  /\ TypeOK
  /\ \A c \in Conns : c \in subs <=> conn[c] \in {"loop", "write"}
  /\ NoLostWakeup
=============================================================================
