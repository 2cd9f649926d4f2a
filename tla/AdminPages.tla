----------------------------- MODULE AdminPages -----------------------------
(***************************************************************************)
(* The pages of the admin console that take two queries: the list of       *)
(* device keys with its counts (admin/handlers_devices.go), and the list   *)
(* of sync events, page by page (SyncPage in admin/handlers_misc.go), over *)
(* storage/crsqlite/adminstore.go.  Devices register, rotate and are       *)
(* revoked (DeviceKeys) and syncs write their events between the queries.  *)
(***************************************************************************)
EXTENDS DeviceKeys, Integers, FiniteSets, SequencesExt

CONSTANTS
  syncPageSize,
  MaxEvents     \* bound on the rows of sync_events

ASSUME PagesAssumption ==
  /\ IsFiniteSet(KeyIDs)  \* UUIDs
  /\ syncPageSize \in Nat \ {0} /\ MaxEvents \in Nat

VARIABLES
  events,       \* ids of sync_events in the order of the page, newest first
  view          \* what the administrator's browser shows or waits for

pageVars == <<vars, events, view>>

Blank == [pc |-> "blank"]

PagesInit ==
  /\ Init
  /\ events = <<>>
  /\ view = Blank

\* DeviceKeys goes on while the administrator looks.
Keys == Next /\ UNCHANGED <<events, view>>

\* AdminEventStore.WriteSyncEvent.  The page is ordered by synced_at, in whole
\* seconds of a clock that may be set back: the row may turn up anywhere.
WriteSyncEvent ==
  /\ Len(events) < MaxEvents
  /\ \E i \in 1 .. Len(events) + 1 : events' = InsertAt(events, i, Len(events) + 1)
  /\ view' = IF view.pc # "counted" THEN view
             ELSE [pc |-> "counted", page |-> view.page, total |-> view.total,
                   start |-> view.start, seen |-> view.seen, crossed |-> TRUE]
  /\ UNCHANGED vars

-----------------------------------------------------------------------------
\* GET /admin/devices

Statuses == {"", "active", "revoked"}

WithStatus(status) ==
  {k \in KeyIDs : keys[k] # NoRow /\ (status = "" \/ keys[k].status = status)}

\* COUNT(*) GROUP BY status, and the sum over all of them.
CountOf(status) == Cardinality(WithStatus(status))

\* ListDevices, the first query of the page.
ListDevices(status) ==
  /\ view.pc = "blank"
  /\ view' = [pc |-> "listed", tab |-> status, devices |-> WithStatus(status)]
  /\ UNCHANGED <<vars, events>>

\* Mutant of DeviceCounts: the rows of the tab are read after the counts.
CountedEarlier ==
  /\ view.pc = "listed"
  /\ view' = [pc |-> "devices", tab |-> view.tab, devices |-> WithStatus(view.tab),
              count |-> Cardinality(view.devices)]
  /\ UNCHANGED <<vars, events>>

\* DeviceCounts, the second query: one count for each status and their sum.
DeviceCounts ==
  /\ view.pc = "listed"
  /\ view' = [pc |-> "devices", tab |-> view.tab, devices |-> view.devices,
              count |-> CountOf(view.tab)]
  /\ UNCHANGED <<vars, events>>

\* DELETE /admin/devices/{id}, from a row of the page that is shown.
RevokeShown(k) ==
  /\ view.pc = "devices" /\ k \in view.devices
  /\ RevokeDevice(k)
  /\ UNCHANGED <<events, view>>

-----------------------------------------------------------------------------
\* GET /admin/sync

PageOf(n) ==
  SubSeq(events, (n - 1) * syncPageSize + 1,
         IF n * syncPageSize < Len(events) THEN n * syncPageSize ELSE Len(events))

\* Mutant of HasNext: the last event is taken to be shown.
HasNextShort(n, shown, total) == (n - 1) * syncPageSize + Len(shown) + 1 < total

\* to < total
HasNext(n, shown, total) == (n - 1) * syncPageSize + Len(shown) < total

\* The COUNT of ListSyncEvents, for the first page or one next to the page that
\* is shown.  start and seen: what there was at the first page, what was shown.
CountEvents(n) ==
  /\ \/ view.pc = "blank" /\ n = 1
     \/ view.pc = "events" /\ view.hasNext /\ n = view.page + 1
     \/ view.pc = "events" /\ n > 0 /\ n = view.page - 1
  /\ LET old == IF view.pc = "events" THEN view
                ELSE [start |-> ToSet(events), seen |-> {}, crossed |-> FALSE]
     IN  view' = [pc |-> "counted", page |-> n, total |-> Len(events),
                  start |-> old.start, seen |-> old.seen, crossed |-> old.crossed]
  /\ UNCHANGED <<vars, events>>

\* The SELECT with LIMIT and OFFSET, and the page.
SelectEvents ==
  /\ view.pc = "counted"
  /\ LET shown == PageOf(view.page)
     IN  view' = [pc |-> "events", page |-> view.page,
                  hasNext |-> HasNext(view.page, shown, view.total),
                  start |-> view.start, seen |-> view.seen \cup ToSet(shown),
                  crossed |-> view.crossed]
  /\ UNCHANGED <<vars, events>>

\* The browser leaves the page, or a query fails and an error is shown.
Leave ==
  /\ view # Blank
  /\ view' = Blank
  /\ UNCHANGED <<vars, events>>

PagesNext ==
  \/ Keys \/ WriteSyncEvent
  \/ (\E status \in Statuses : ListDevices(status)) \/ DeviceCounts
  \/ \E k \in KeyIDs : RevokeShown(k)
  \/ (\E n \in 1 .. MaxEvents : CountEvents(n)) \/ SelectEvents
  \/ Leave

PagesSpec == PagesInit /\ [][PagesNext]_pageVars

-----------------------------------------------------------------------------
\* The tab of all devices, and that of the revoked ones, never lists a key that
\* it does not count: no key goes away between the two queries, and a revoked
\* one is active again only where a rotation crossed its revocation.
ListedAreCounted ==
  view.pc = "devices" =>
    \/ view.tab = "active"
    \/ view.tab = "revoked" /\ raced \cap view.devices # {}
    \/ Cardinality(view.devices) <= view.count

\* An administrator who goes from the first page to the last has seen every
\* event there was at the start, although new ones move the others to later
\* pages, unless one came between the COUNT and the SELECT of a page.
WalkSeesAll ==
  view.pc = "events" /\ ~view.hasNext /\ ~view.crossed => view.start \subseteq view.seen

\* The events on the first n pages.
FirstPages(n) == {events[i] : i \in {j \in DOMAIN events : j <= n * syncPageSize}}

\* A row is revoked by a revocation and nothing else.
RevokedKnown == \A k \in KeyIDs : keys[k].status = "revoked" => k \in revoked

\* Between the queries of the devices page: what was listed is still there, and
\* still revoked if that was the tab.
ListedInv ==
  view.pc = "listed" =>
    /\ view.tab \in Statuses
    /\ view.devices \subseteq {k \in KeyIDs : keys[k] # NoRow}
    /\ view.tab = "revoked" => \A k \in view.devices \ raced : keys[k].status = "revoked"

\* During a walk over the events: those of the first page are still there, and
\* those of them on the pages up to the current one have been seen.
WalkInv ==
  /\ view.pc \in {"counted", "events"} =>
       view.page \in Nat \ {0} /\ view.start \subseteq ToSet(events)
  /\ view.pc = "counted" =>
       /\ ~view.crossed => view.total = Len(events)
       /\ view.start \cap FirstPages(view.page - 1) \subseteq view.seen
  /\ view.pc = "events" => view.start \cap FirstPages(view.page) \subseteq view.seen

\* The inductive form of the invariants above.
PagesInv ==
  /\ KeysInv
  /\ RevokedKnown
  /\ events \in Seq(Nat) /\ ToSet(events) \subseteq 1 .. Len(events)
  /\ ListedAreCounted /\ ListedInv
  /\ WalkSeesAll /\ WalkInv
=============================================================================
