----------------------------- MODULE Migrations -----------------------------
(***************************************************************************)
(* How the process sets its database up when it starts: Storage.__init__   *)
(* reads the version of the schema, creates the table that keeps it when   *)
(* it cannot, and runs the migrations between that version and the one of  *)
(* the code.  The connection is in autocommit mode: every statement stands *)
(* for itself, and a crash may come between any two.  The database is a    *)
(* Postgres one (SETUP.md: support for SQLite is not implemented).         *)
(***************************************************************************)
EXTENDS Naturals, Sequences, FiniteSets

CONSTANTS
  Releases,      \* versions of the code that are installed, oldest first
  Watched,       \* the tables whose data is followed
  MaxCrashes,    \* bound: crashes during a start
  SelectFails    \* may the first SELECT fail although the table is there?

ASSUME MigrationsAssumption ==
  /\ Releases \subseteq 1..15 /\ Releases # {}
  /\ MaxCrashes \in Nat
  /\ SelectFails \in BOOLEAN

-----------------------------------------------------------------------------
(* The statements.  A column, an index or a constraint that is added to a  *)
(* table is one of its parts; what a CREATE TABLE itself lists is left out.*)

Create(t) == [op |-> "create", table |-> t, part |-> ""]
Ensure(t) == [op |-> "create if not exists", table |-> t, part |-> ""]
DropTable(t) == [op |-> "drop", table |-> t, part |-> ""]
DropAny(t) == [op |-> "drop if exists", table |-> t, part |-> ""]
Add(t, p) == [op |-> "add", table |-> t, part |-> p]

\* Mutant: the first migration may run again.
Migration001Again == << Ensure("messages") >>

Migration001 == << Create("messages") >>
Migration002 == << DropTable("messages"), Create("messages") >>
Migration003 == << DropTable("messages"), Create("messages") >>
Migration004 == << Create("encrypted_events"), Add("encrypted_events", "session_id_idx") >>
Migration005 == << Add("encrypted_events", "user_id"), Add("encrypted_events", "user_id_idx") >>
Migration006 ==
  << DropAny("TimelineEvents"), DropAny("TicketsStaffRelation"), DropAny("Tickets"),
     DropAny("Users"), DropAny("Staff"),
     Ensure("Users"), Ensure("Staff"), Ensure("Tickets"),
     Ensure("TicketsStaffRelation"), Ensure("TimelineEvents"),
     Add("Tickets", "user_id_idx"), Add("TimelineEvents", "Tickets_id_idx"),
     Add("TicketsStaffRelation", "Tickets_id_idx"), Add("Tickets", "User_Tickets") >>
Migration007 == << Add("Users", "current_ticket_id"), Add("Users", "fk_Tickets_ticket_id") >>
\* Mutant: nothing creates Chats.
Migration008WithoutChats ==
  << Add("Users", "current_chat_room_id"), Add("Users", "fk_Chats_chat_id") >>

Migration008 ==
  << DropAny("ChatsStaffRelation"), DropAny("Chats"),
     Ensure("Chats"), Ensure("ChatsStaffRelation"),
     Add("Users", "current_chat_room_id"), Add("Users", "fk_Chats_chat_id") >>
Migration009 == << Ensure("IncomingEvents") >>
Migration010 == << Ensure("EventPairs"), Add("EventPairs", "room_ids_idx") >>
Migration011 == << Ensure("Support"), Ensure("TicketsSupportRelation") >>
Migration012 == << Add("Tickets", "raised_at"), Add("Tickets", "closed_at") >>
Migration013 == << Ensure("TicketLabels"), Ensure("TicketsTicketLabelsRelation") >>
Migration014 == << Add("Chats", "created_at"), Add("Chats", "closed_at"), Add("Chats", "status") >>
Migration015 == << Ensure("ChatsSupportRelation") >>

Statements ==
  << Migration001, Migration002, Migration003, Migration004, Migration005,
     Migration006, Migration007, Migration008, Migration009, Migration010,
     Migration011, Migration012, Migration013, Migration014, Migration015 >>

Tables == UNION {{Statements[v][i].table : i \in DOMAIN Statements[v]} : v \in 1..15}
Parts == UNION {{<<Statements[v][i].table, Statements[v][i].part>> :
                    i \in DOMAIN Statements[v]} : v \in 1..15}

-----------------------------------------------------------------------------
VARIABLES
  versioned,  \* is there a table migration_version?
  version,    \* its rows: one version, or none
  tables,     \* the other tables
  parts,      \* what was added to them
  data,       \* the watched tables the bot has written to: a history variable
  release,    \* latest_migration_version of the code installed
  phase,      \* what the process does
  failing,    \* is an exception on its way, to be raised again after finally?
  level,      \* current_migration_version
  at,         \* the statement of the next migration to execute
  crashes     \* crashes so far

db == <<versioned, version, tables, parts>>
process == <<phase, failing, level, at>>
vars == <<versioned, version, tables, parts, data, release, phase, failing, level, at, crashes>>

Phases == {"down", "creating", "inserting", "migrating", "serving"}

TypeOK ==
  /\ versioned \in BOOLEAN
  /\ version \subseteq 0..15 /\ Cardinality(version) <= 1
  /\ tables \subseteq Tables /\ parts \subseteq Parts /\ data \subseteq Tables
  /\ release \in Releases
  /\ phase \in Phases /\ failing \in BOOLEAN
  /\ level \in 0..15
  /\ at \in 1..20
  /\ crashes \in 0..MaxCrashes

Init ==
  /\ versioned = FALSE /\ version = {}
  /\ tables = {} /\ parts = {} /\ data = {}
  /\ release \in Releases
  /\ phase = "down" /\ failing = FALSE /\ level = 0 /\ at = 1
  /\ crashes = 0

Down ==
  /\ phase' = "down" /\ failing' = FALSE /\ level' = 0 /\ at' = 1

\* _run_migrations from a version, if there is one to run.
RunFrom(v) ==
  /\ level' = v /\ at' = 1
  /\ phase' = IF v < release THEN "migrating" ELSE "serving"

-----------------------------------------------------------------------------
(* Storage.__init__.                                                       *)

SelectVersion ==
  /\ phase = "down" /\ versioned /\ version # {}
  /\ \E v \in version : RunFrom(v)
  /\ UNCHANGED <<db, data, release, failing, crashes>>

\* No table, no row in it (row[0] of None), or an error of the database.
SelectRaises ==
  /\ phase = "down" /\ (versioned /\ version # {} => SelectFails)
  /\ phase' = "creating"
  /\ UNCHANGED <<db, data, release, failing, level, at, crashes>>

\* _initial_setup; the migrations are in a finally, and run also when it raises.
CreateVersionTable ==
  /\ phase = "creating"
  /\ versioned' = TRUE
  /\ failing' = versioned
  /\ phase' = IF versioned THEN "migrating" ELSE "inserting"
  /\ UNCHANGED <<version, tables, parts, data, release, level, at, crashes>>

InsertVersion ==
  /\ phase = "inserting"
  /\ version' = {0}
  /\ phase' = "migrating"
  /\ UNCHANGED <<versioned, tables, parts, data, release, failing, level, at, crashes>>

-----------------------------------------------------------------------------
(* _run_migrations.                                                        *)

\* The foreign keys that are added to a table, and the tables they refer to.
ForeignKeys ==
  {[part |-> <<"Users", "fk_Tickets_ticket_id">>, to |-> "Tickets"],
   [part |-> <<"Users", "fk_Chats_chat_id">>, to |-> "Chats"]}

\* Postgres does not drop a table that another one refers to.
Referenced(t) == \E k \in ForeignKeys : k.to = t /\ k.part \in parts

Works(s) ==
  CASE s.op = "create" -> s.table \notin tables
    [] s.op = "drop" -> s.table \in tables /\ ~Referenced(s.table)
    [] s.op = "drop if exists" -> ~Referenced(s.table)
    [] s.op = "add" -> s.table \in tables /\ <<s.table, s.part>> \notin parts
    [] s.op = "create if not exists" -> TRUE

\* A table goes with its parts.  (A table that refers to another one by its own
\* CREATE TABLE is dropped before that one.)
Apply(s) ==
  CASE s.op \in {"create", "create if not exists"} ->
         tables' = tables \cup {s.table} /\ UNCHANGED <<parts, data>>
    [] s.op \in {"drop", "drop if exists"} ->
         /\ tables' = tables \ {s.table}
         /\ parts' = {p \in parts : p[1] # s.table}
         /\ data' = data \ {s.table}
    [] s.op = "add" ->
         parts' = parts \cup {<<s.table, s.part>>} /\ UNCHANGED <<tables, data>>

Statement == Statements[level + 1][at]
Migrated == at > Len(Statements[level + 1])

Execute ==
  /\ phase = "migrating" /\ ~Migrated /\ Works(Statement)
  /\ Apply(Statement)
  /\ at' = at + 1
  /\ UNCHANGED <<versioned, version, release, phase, failing, level, crashes>>

\* The exception ends the process.
ExecuteRaises ==
  /\ phase = "migrating" /\ ~Migrated /\ ~Works(Statement)
  /\ Down
  /\ UNCHANGED <<db, data, release, crashes>>

\* Mutant: an INSERT instead of the UPDATE.
InsertsVersion ==
  /\ phase = "migrating" /\ Migrated
  /\ version' = version \cup {level + 1}
  /\ RunFrom(level + 1)
  /\ UNCHANGED <<versioned, tables, parts, data, release, failing, crashes>>

\* Mutant: the row gets the version of the code at once.
UpdateVersionToLatest ==
  /\ phase = "migrating" /\ Migrated
  /\ version' = IF version = {} THEN {} ELSE {release}
  /\ IF level + 1 = release /\ failing THEN Down
     ELSE RunFrom(level + 1) /\ UNCHANGED failing
  /\ UNCHANGED <<versioned, tables, parts, data, release, crashes>>

\* UPDATE migration_version, which changes no row when there is none; after the
\* last migration the exception of _initial_setup is raised again.
UpdateVersion ==
  /\ phase = "migrating" /\ Migrated
  /\ version' = IF version = {} THEN {} ELSE {level + 1}
  /\ IF level + 1 = release /\ failing THEN Down
     ELSE RunFrom(level + 1) /\ UNCHANGED failing
  /\ UNCHANGED <<versioned, tables, parts, data, release, crashes>>

-----------------------------------------------------------------------------
(* The environment.                                                        *)

Write(t) ==
  /\ phase = "serving" /\ t \in tables \cap Watched
  /\ data' = data \cup {t}
  /\ UNCHANGED <<db, release, process, crashes>>

Stop ==
  /\ phase = "serving"
  /\ Down
  /\ UNCHANGED <<db, data, release, crashes>>

Crash ==
  /\ phase \notin {"down", "serving"} /\ crashes < MaxCrashes
  /\ crashes' = crashes + 1
  /\ Down
  /\ UNCHANGED <<db, data, release>>

Upgrade ==
  /\ phase = "down"
  /\ \E r \in Releases : r > release /\ release' = r
  /\ UNCHANGED <<db, data, process, crashes>>

Starting ==
  \/ SelectVersion \/ SelectRaises \/ CreateVersionTable \/ InsertVersion
  \/ Execute \/ ExecuteRaises \/ UpdateVersion

Next ==
  \/ Starting
  \/ \E t \in Tables : Write(t)
  \/ Stop \/ Crash \/ Upgrade

Spec == Init /\ [][Next]_vars

\* A process that is down is started again, its start goes on, and the database
\* does not refuse the SELECT for ever.
FairSpec == Spec /\ WF_vars(Starting) /\ SF_vars(SelectVersion)

-----------------------------------------------------------------------------
(* Properties.                                                             *)

\* No start drops a table the bot has written to, whatever the SELECT answers
\* and wherever the last start was cut off: the migrations that recreate their
\* tables never run again once these are in use.
DataSurvives == [][data \subseteq data']_vars

\* What Storage and the repositories read and write.
UsedTables ==
  {"messages", "encrypted_events", "Users", "Staff", "Tickets", "TicketsStaffRelation",
   "Chats", "ChatsStaffRelation", "IncomingEvents", "EventPairs", "Support",
   "TicketsSupportRelation", "TicketLabels", "TicketsTicketLabelsRelation",
   "ChatsSupportRelation"}
UsedColumns ==
  {<<"encrypted_events", "user_id">>, <<"Users", "current_ticket_id">>,
   <<"Users", "current_chat_room_id">>, <<"Tickets", "raised_at">>,
   <<"Tickets", "closed_at">>, <<"Chats", "created_at">>, <<"Chats", "closed_at">>,
   <<"Chats", "status">>}

\* A bot of the last release that serves finds every table and column it uses,
\* although the starts before it were cut off.
ServesWholeSchema ==
  phase = "serving" /\ release = 15 =>
    UsedTables \subseteq tables /\ UsedColumns \subseteq parts

\* A process that is started again and again serves in the end.
ServesInTheEnd == []<>(phase = "serving")

\* It does unless a start was cut off: an upgrade always finds a schema its
\* migrations work on.
ServesUnlessCutOff == [](crashes = 0) => ServesInTheEnd
=============================================================================
