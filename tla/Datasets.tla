------------------------------ MODULE Datasets ------------------------------
(***************************************************************************)
(* The tables of the datasets: datasetTable, sanitize and EnsureDataset    *)
(* (storage/crsqlite/data.go), which every method of Backend calls before  *)
(* its own statement.  EnsureDataset runs four statements, each on its own *)
(* and each of which may fail; requests interleave between them.  A failed *)
(* call leaves in the tables what the end of the process would leave.      *)
(*                                                                         *)
(* An identifier is a sequence of characters.  External: SQLite, which     *)
(* does not tell upper from lower case in the name of a table, and         *)
(* cr-sqlite, whose crsql_as_crr marks a table and may be called again.    *)
(***************************************************************************)
EXTENDS Integers, Sequences

CONSTANTS
  Reqs,           \* requests
  Scopes,         \* the (appID, userID, datasetID) that requests come with
  UserLen,        \* the form of the ids that Keycloak makes for users: their
  Hyphens         \* length and where their hyphens are, 36 and {9, 14, 19, 24}

\* What sanitize puts for other characters, and datasetTable between the parts.
Separator == "_"

Hyphen == "-"

Char == {"a", "b", "A", "0", Separator, Hyphen}

Identifier == Seq(Char)

ASSUME DatasetsAssumption ==
  Scopes \subseteq [app : Identifier, user : Identifier, dataset : Identifier]

\* Where the separators are in the name of a table, counted from the one before
\* the user's id to the one after it.
Frame == {0, UserLen + 1} \cup Hyphens

\* The form of a user's id does not overlap itself: moved by less than its
\* length, the frame does not fit, as the groups of a UUID have several lengths.
ASSUME UserFormAssumption ==
  /\ UserLen \in Nat /\ Hyphens \subseteq 1 .. UserLen
  /\ \A k \in 1 .. UserLen : \E j \in 0 .. UserLen + 1 - k :
       ~(j \in Frame <=> j + k \in Frame)

VARIABLES
  tables,         \* op_log tables, by the name that SQLite looks them up with
  crr,            \* clock tables, by the name in sqlite_master, case and all
  rows,           \* rows: <<table, the scope of the request that inserted it>>
  call            \* call[r]: where request r is, and its scope

dataVars == <<tables, crr, rows, call>>

Alphanumeric == {"a", "b", "A", "0"}

sanitize(s) == [i \in DOMAIN s |-> IF s[i] \in Alphanumeric THEN s[i] ELSE Separator]

\* External: names of tables that differ in case only are the same name.
Fold(s) == [i \in DOMAIN s |-> IF s[i] = "A" THEN "a" ELSE s[i]]

\* Mutant of datasetTable: the parts are joined without separators.
datasetTableJoined(x) == sanitize(x.app) \o sanitize(x.user) \o sanitize(x.dataset)

\* The prefix that all names have is left out.
datasetTable(x) ==
  sanitize(x.app) \o <<Separator>> \o sanitize(x.user) \o <<Separator>> \o sanitize(x.dataset)

\* The table that a statement with this name is about.
Table(x) == Fold(datasetTable(x))

\* External: a table is replicated once it has a clock table.
Replicated(t) == \E name \in crr : Fold(name) = t

NoCall == [pc |-> "none", scope |-> "none"]

Labels == {"table", "check", "mark", "statement"}

\* Tables are marked after they exist, and requests are where the code can be.
DataTypeOK ==
  /\ crr \subseteq {datasetTable(x) : x \in Scopes}
  /\ \A name \in crr : Fold(name) \in tables
  /\ tables \subseteq {Table(x) : x \in Scopes}
  /\ rows \subseteq tables \X Scopes
  /\ call \in [Reqs -> [pc : Labels, scope : Scopes] \cup {NoCall}]

\* External: the database of a new installation.
DataInit ==
  /\ tables = {}
  /\ crr = {}
  /\ rows = {}
  /\ call = [r \in Reqs |-> NoCall]

\* A method of Backend is called.
Begin(r, x) ==
  /\ call[r] = NoCall
  /\ call' = [call EXCEPT ![r] = [pc |-> "table", scope |-> x]]
  /\ UNCHANGED <<tables, crr, rows>>

At(r, label) == call[r].pc = label

Goto(r, label) == call' = [call EXCEPT ![r].pc = label]

Return(r) == call' = [call EXCEPT ![r] = NoCall]

\* Mutant of CreateTable: a table that is there already is taken to be marked.
CreateTableOrReturn(r) ==
  /\ At(r, "table")
  /\ Goto(r, IF Table(call[r].scope) \in tables THEN "statement" ELSE "check")
  /\ tables' = tables \cup {Table(call[r].scope)}
  /\ UNCHANGED <<crr, rows>>

\* CREATE TABLE IF NOT EXISTS, for the table snapshots, which all datasets
\* share and which is not modelled here, and for the dataset's own.
CreateTable(r) ==
  /\ At(r, "table")
  /\ tables' = tables \cup {Table(call[r].scope)}
  /\ Goto(r, "check")
  /\ UNCHANGED <<crr, rows>>

\* Is there a table <tbl>__crsql_clock?  The names in sqlite_master are compared
\* as they are, so a name that differs in case is marked once more.
CheckShadow(r) ==
  /\ At(r, "check")
  /\ Goto(r, IF datasetTable(call[r].scope) \in crr THEN "statement" ELSE "mark")
  /\ UNCHANGED <<tables, crr, rows>>

\* External: crsql_as_crr makes the clock table, unless SQLite finds it there.
AsCRR(r) ==
  /\ At(r, "mark")
  /\ crr' = IF Replicated(Table(call[r].scope)) THEN crr ELSE crr \cup {datasetTable(call[r].scope)}
  /\ Goto(r, "statement")
  /\ UNCHANGED <<tables, rows>>

\* The statement of the method: the transaction of InsertOps, or one that adds
\* no row.
Statement(r) ==
  /\ At(r, "statement")
  /\ rows' \in {rows, rows \cup {<<Table(call[r].scope), call[r].scope>>}}
  /\ Return(r)
  /\ UNCHANGED <<tables, crr>>

\* A statement fails, or the request's context is cancelled before it.
StatementFails(r) ==
  /\ call[r] # NoCall
  /\ Return(r)
  /\ UNCHANGED <<tables, crr, rows>>

Work(r) == CreateTable(r) \/ CheckShadow(r) \/ AsCRR(r) \/ Statement(r)

-----------------------------------------------------------------------------
\* A table that holds ops is replicated, wherever an earlier EnsureDataset
\* stopped between creating it and marking it.
RowsAreReplicated == \A row \in rows : Replicated(row[1])

\* An id as Keycloak makes them for its users, in lower case.
KeycloakID(s) ==
  /\ Len(s) = UserLen
  /\ \A i \in 1 .. UserLen :
       IF i \in Hyphens THEN s[i] = Hyphen ELSE s[i] \in Alphanumeric \ {"A"}

\* A scope whose user is one of Keycloak's own, and whose client id, hyphens and
\* all, is no longer than such an id.
Regular(x) == KeycloakID(x.user) /\ Len(x.app) <= UserLen

\* Names that are the same once sanitized, as SQLite takes them.
SameName(s, t) == Fold(sanitize(s)) = Fold(sanitize(t))

\* README.md:10, "app-level + user-level isolation", as far as datasetTable
\* keeps it: a query for a user of Keycloak's finds the ops of that user only,
\* and of no app and no dataset but those whose names sanitize makes the same.
\* Client ids and datasets may look like parts of other scopes' names.
OwnRowsOnly ==
  \A x \in Scopes, row \in rows :
    row[1] = Table(x) /\ Regular(x) /\ Regular(row[2]) =>
      /\ row[2].user = x.user
      /\ SameName(row[2].app, x.app) /\ SameName(row[2].dataset, x.dataset)

-----------------------------------------------------------------------------
\* How far EnsureDataset is, and what it has done by then.
EnsureInv ==
  \A r \in Reqs :
    /\ call[r].pc \in {"check", "mark"} => Table(call[r].scope) \in tables
    /\ call[r].pc = "statement" => Replicated(Table(call[r].scope))

\* A row is in the table of the scope that it was inserted for.
RowsInPlace == \A row \in rows : row[1] = Table(row[2])
=============================================================================
