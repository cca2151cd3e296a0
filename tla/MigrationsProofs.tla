--------------------------- MODULE MigrationsProofs ---------------------------
(***************************************************************************)
(* What the starts of the process do to its database, for every choice of  *)
(* releases and any number of starts that are cut off.                     *)
(***************************************************************************)
EXTENDS Migrations, FiniteSetTheorems, TLAPS

Drops == {"drop", "drop if exists"}
Makes == {"create", "create if not exists"}

-----------------------------------------------------------------------------
(* What the fifteen migrations consist of.                                 *)

\* The statements of migration 1.
LEMMA Read1 ==
  /\ DOMAIN Statements[1] = 1..1 /\ Len(Statements[1]) = 1
  /\ Statements[1][1] = Create("messages")
<1>1. Statements[1] = Migration001
  BY DEF Statements
<1>2. DOMAIN Migration001 = 1..1 /\ Len(Migration001) = 1
  BY DEF Migration001
<1>3. Migration001[1] = Create("messages")
  BY DEF Migration001
<1> QED BY <1>1, <1>2, <1>3

\* The statements of migration 2.
LEMMA Read2 ==
  /\ DOMAIN Statements[2] = 1..2 /\ Len(Statements[2]) = 2
  /\ Statements[2][1] = DropTable("messages")
  /\ Statements[2][2] = Create("messages")
<1>1. Statements[2] = Migration002
  BY DEF Statements
<1>2. DOMAIN Migration002 = 1..2 /\ Len(Migration002) = 2
  BY DEF Migration002
<1>3. Migration002[1] = DropTable("messages")
  BY DEF Migration002
<1>4. Migration002[2] = Create("messages")
  BY DEF Migration002
<1> QED BY <1>1, <1>2, <1>3, <1>4

\* The statements of migration 3.
LEMMA Read3 ==
  /\ DOMAIN Statements[3] = 1..2 /\ Len(Statements[3]) = 2
  /\ Statements[3][1] = DropTable("messages")
  /\ Statements[3][2] = Create("messages")
<1>1. Statements[3] = Migration003
  BY DEF Statements
<1>2. DOMAIN Migration003 = 1..2 /\ Len(Migration003) = 2
  BY DEF Migration003
<1>3. Migration003[1] = DropTable("messages")
  BY DEF Migration003
<1>4. Migration003[2] = Create("messages")
  BY DEF Migration003
<1> QED BY <1>1, <1>2, <1>3, <1>4

\* The statements of migration 4.
LEMMA Read4 ==
  /\ DOMAIN Statements[4] = 1..2 /\ Len(Statements[4]) = 2
  /\ Statements[4][1] = Create("encrypted_events")
  /\ Statements[4][2] = Add("encrypted_events", "session_id_idx")
<1>1. Statements[4] = Migration004
  BY DEF Statements
<1>2. DOMAIN Migration004 = 1..2 /\ Len(Migration004) = 2
  BY DEF Migration004
<1>3. Migration004[1] = Create("encrypted_events")
  BY DEF Migration004
<1>4. Migration004[2] = Add("encrypted_events", "session_id_idx")
  BY DEF Migration004
<1> QED BY <1>1, <1>2, <1>3, <1>4

\* The statements of migration 5.
LEMMA Read5 ==
  /\ DOMAIN Statements[5] = 1..2 /\ Len(Statements[5]) = 2
  /\ Statements[5][1] = Add("encrypted_events", "user_id")
  /\ Statements[5][2] = Add("encrypted_events", "user_id_idx")
<1>1. Statements[5] = Migration005
  BY DEF Statements
<1>2. DOMAIN Migration005 = 1..2 /\ Len(Migration005) = 2
  BY DEF Migration005
<1>3. Migration005[1] = Add("encrypted_events", "user_id")
  BY DEF Migration005
<1>4. Migration005[2] = Add("encrypted_events", "user_id_idx")
  BY DEF Migration005
<1> QED BY <1>1, <1>2, <1>3, <1>4

\* The statements of migration 6.
LEMMA Read6 ==
  /\ DOMAIN Statements[6] = 1..14 /\ Len(Statements[6]) = 14
  /\ Statements[6][1] = DropAny("TimelineEvents")
  /\ Statements[6][2] = DropAny("TicketsStaffRelation")
  /\ Statements[6][3] = DropAny("Tickets")
  /\ Statements[6][4] = DropAny("Users")
  /\ Statements[6][5] = DropAny("Staff")
  /\ Statements[6][6] = Ensure("Users")
  /\ Statements[6][7] = Ensure("Staff")
  /\ Statements[6][8] = Ensure("Tickets")
  /\ Statements[6][9] = Ensure("TicketsStaffRelation")
  /\ Statements[6][10] = Ensure("TimelineEvents")
  /\ Statements[6][11] = Add("Tickets", "user_id_idx")
  /\ Statements[6][12] = Add("TimelineEvents", "Tickets_id_idx")
  /\ Statements[6][13] = Add("TicketsStaffRelation", "Tickets_id_idx")
  /\ Statements[6][14] = Add("Tickets", "User_Tickets")
<1>1. Statements[6] = Migration006
  BY DEF Statements
<1>2. DOMAIN Migration006 = 1..14 /\ Len(Migration006) = 14
  BY DEF Migration006
<1>3. Migration006[1] = DropAny("TimelineEvents")
  BY DEF Migration006
<1>4. Migration006[2] = DropAny("TicketsStaffRelation")
  BY DEF Migration006
<1>5. Migration006[3] = DropAny("Tickets")
  BY DEF Migration006
<1>6. Migration006[4] = DropAny("Users")
  BY DEF Migration006
<1>7. Migration006[5] = DropAny("Staff")
  BY DEF Migration006
<1>8. Migration006[6] = Ensure("Users")
  BY DEF Migration006
<1>9. Migration006[7] = Ensure("Staff")
  BY DEF Migration006
<1>10. Migration006[8] = Ensure("Tickets")
  BY DEF Migration006
<1>11. Migration006[9] = Ensure("TicketsStaffRelation")
  BY DEF Migration006
<1>12. Migration006[10] = Ensure("TimelineEvents")
  BY DEF Migration006
<1>13. Migration006[11] = Add("Tickets", "user_id_idx")
  BY DEF Migration006
<1>14. Migration006[12] = Add("TimelineEvents", "Tickets_id_idx")
  BY DEF Migration006
<1>15. Migration006[13] = Add("TicketsStaffRelation", "Tickets_id_idx")
  BY DEF Migration006
<1>16. Migration006[14] = Add("Tickets", "User_Tickets")
  BY DEF Migration006
<1> QED
  BY <1>1, <1>2, <1>3, <1>4, <1>5, <1>6, <1>7, <1>8, <1>9, <1>10, <1>11, <1>12,
     <1>13, <1>14, <1>15, <1>16

\* The statements of migration 7.
LEMMA Read7 ==
  /\ DOMAIN Statements[7] = 1..2 /\ Len(Statements[7]) = 2
  /\ Statements[7][1] = Add("Users", "current_ticket_id")
  /\ Statements[7][2] = Add("Users", "fk_Tickets_ticket_id")
<1>1. Statements[7] = Migration007
  BY DEF Statements
<1>2. DOMAIN Migration007 = 1..2 /\ Len(Migration007) = 2
  BY DEF Migration007
<1>3. Migration007[1] = Add("Users", "current_ticket_id")
  BY DEF Migration007
<1>4. Migration007[2] = Add("Users", "fk_Tickets_ticket_id")
  BY DEF Migration007
<1> QED BY <1>1, <1>2, <1>3, <1>4

\* The statements of migration 8.
LEMMA Read8 ==
  /\ DOMAIN Statements[8] = 1..6 /\ Len(Statements[8]) = 6
  /\ Statements[8][1] = DropAny("ChatsStaffRelation")
  /\ Statements[8][2] = DropAny("Chats")
  /\ Statements[8][3] = Ensure("Chats")
  /\ Statements[8][4] = Ensure("ChatsStaffRelation")
  /\ Statements[8][5] = Add("Users", "current_chat_room_id")
  /\ Statements[8][6] = Add("Users", "fk_Chats_chat_id")
<1>1. Statements[8] = Migration008
  BY DEF Statements
<1>2. DOMAIN Migration008 = 1..6 /\ Len(Migration008) = 6
  BY DEF Migration008
<1>3. Migration008[1] = DropAny("ChatsStaffRelation")
  BY DEF Migration008
<1>4. Migration008[2] = DropAny("Chats")
  BY DEF Migration008
<1>5. Migration008[3] = Ensure("Chats")
  BY DEF Migration008
<1>6. Migration008[4] = Ensure("ChatsStaffRelation")
  BY DEF Migration008
<1>7. Migration008[5] = Add("Users", "current_chat_room_id")
  BY DEF Migration008
<1>8. Migration008[6] = Add("Users", "fk_Chats_chat_id")
  BY DEF Migration008
<1> QED BY <1>1, <1>2, <1>3, <1>4, <1>5, <1>6, <1>7, <1>8

\* The statements of migration 9.
LEMMA Read9 ==
  /\ DOMAIN Statements[9] = 1..1 /\ Len(Statements[9]) = 1
  /\ Statements[9][1] = Ensure("IncomingEvents")
<1>1. Statements[9] = Migration009
  BY DEF Statements
<1>2. DOMAIN Migration009 = 1..1 /\ Len(Migration009) = 1
  BY DEF Migration009
<1>3. Migration009[1] = Ensure("IncomingEvents")
  BY DEF Migration009
<1> QED BY <1>1, <1>2, <1>3

\* The statements of migration 10.
LEMMA Read10 ==
  /\ DOMAIN Statements[10] = 1..2 /\ Len(Statements[10]) = 2
  /\ Statements[10][1] = Ensure("EventPairs")
  /\ Statements[10][2] = Add("EventPairs", "room_ids_idx")
<1>1. Statements[10] = Migration010
  BY DEF Statements
<1>2. DOMAIN Migration010 = 1..2 /\ Len(Migration010) = 2
  BY DEF Migration010
<1>3. Migration010[1] = Ensure("EventPairs")
  BY DEF Migration010
<1>4. Migration010[2] = Add("EventPairs", "room_ids_idx")
  BY DEF Migration010
<1> QED BY <1>1, <1>2, <1>3, <1>4

\* The statements of migration 11.
LEMMA Read11 ==
  /\ DOMAIN Statements[11] = 1..2 /\ Len(Statements[11]) = 2
  /\ Statements[11][1] = Ensure("Support")
  /\ Statements[11][2] = Ensure("TicketsSupportRelation")
<1>1. Statements[11] = Migration011
  BY DEF Statements
<1>2. DOMAIN Migration011 = 1..2 /\ Len(Migration011) = 2
  BY DEF Migration011
<1>3. Migration011[1] = Ensure("Support")
  BY DEF Migration011
<1>4. Migration011[2] = Ensure("TicketsSupportRelation")
  BY DEF Migration011
<1> QED BY <1>1, <1>2, <1>3, <1>4

\* The statements of migration 12.
LEMMA Read12 ==
  /\ DOMAIN Statements[12] = 1..2 /\ Len(Statements[12]) = 2
  /\ Statements[12][1] = Add("Tickets", "raised_at")
  /\ Statements[12][2] = Add("Tickets", "closed_at")
<1>1. Statements[12] = Migration012
  BY DEF Statements
<1>2. DOMAIN Migration012 = 1..2 /\ Len(Migration012) = 2
  BY DEF Migration012
<1>3. Migration012[1] = Add("Tickets", "raised_at")
  BY DEF Migration012
<1>4. Migration012[2] = Add("Tickets", "closed_at")
  BY DEF Migration012
<1> QED BY <1>1, <1>2, <1>3, <1>4

\* The statements of migration 13.
LEMMA Read13 ==
  /\ DOMAIN Statements[13] = 1..2 /\ Len(Statements[13]) = 2
  /\ Statements[13][1] = Ensure("TicketLabels")
  /\ Statements[13][2] = Ensure("TicketsTicketLabelsRelation")
<1>1. Statements[13] = Migration013
  BY DEF Statements
<1>2. DOMAIN Migration013 = 1..2 /\ Len(Migration013) = 2
  BY DEF Migration013
<1>3. Migration013[1] = Ensure("TicketLabels")
  BY DEF Migration013
<1>4. Migration013[2] = Ensure("TicketsTicketLabelsRelation")
  BY DEF Migration013
<1> QED BY <1>1, <1>2, <1>3, <1>4

\* The statements of migration 14.
LEMMA Read14 ==
  /\ DOMAIN Statements[14] = 1..3 /\ Len(Statements[14]) = 3
  /\ Statements[14][1] = Add("Chats", "created_at")
  /\ Statements[14][2] = Add("Chats", "closed_at")
  /\ Statements[14][3] = Add("Chats", "status")
<1>1. Statements[14] = Migration014
  BY DEF Statements
<1>2. DOMAIN Migration014 = 1..3 /\ Len(Migration014) = 3
  BY DEF Migration014
<1>3. Migration014[1] = Add("Chats", "created_at")
  BY DEF Migration014
<1>4. Migration014[2] = Add("Chats", "closed_at")
  BY DEF Migration014
<1>5. Migration014[3] = Add("Chats", "status")
  BY DEF Migration014
<1> QED BY <1>1, <1>2, <1>3, <1>4, <1>5

\* The statements of migration 15.
LEMMA Read15 ==
  /\ DOMAIN Statements[15] = 1..1 /\ Len(Statements[15]) = 1
  /\ Statements[15][1] = Ensure("ChatsSupportRelation")
<1>1. Statements[15] = Migration015
  BY DEF Statements
<1>2. DOMAIN Migration015 = 1..1 /\ Len(Migration015) = 1
  BY DEF Migration015
<1>3. Migration015[1] = Ensure("ChatsSupportRelation")
  BY DEF Migration015
<1> QED BY <1>1, <1>2, <1>3

-----------------------------------------------------------------------------
(* Facts about them.                                                       *)

Relations == {"TimelineEvents", "TicketsStaffRelation", "Tickets", "Users", "Staff"}
ChatTables == {"ChatsStaffRelation", "Chats"}

\* Statement i of migration k.  The third migration is the last to drop messages;
\* after it tables are dropped by the sixth and the eighth only, and the tables
\* these drop are touched by nothing before.
Sane(s, k, i) ==
  /\ s.op \in Drops \cup Makes \cup {"add"}
  /\ k <= 3 => s.table = "messages" /\ s.op # "add"
  /\ k > 3 => s.table # "messages"
  /\ s.op \in Drops /\ k > 3 =>
       \/ k = 6 /\ i <= 5 /\ s.table \in Relations
       \/ k = 8 /\ i <= 2 /\ s.table \in ChatTables
  /\ s.op \notin Drops =>
       /\ s.table \in Relations => k > 6 \/ (k = 6 /\ i > 5)
       /\ s.table \in ChatTables => k > 8 \/ (k = 8 /\ i > 2)

SaneMigration(k) ==
  /\ DOMAIN Statements[k] = 1..Len(Statements[k]) /\ Len(Statements[k]) \in 1..14
  /\ \A i \in 1..Len(Statements[k]) : Sane(Statements[k][i], k, i)

\* Each migration is as Sane says.
LEMMA Sanity == \A k \in 1..15 : SaneMigration(k)
<1>1. SaneMigration(1)
  <2>1. Sane(Create("messages"), 1, 1)
    BY DEF Sane, Drops, Makes, Relations, ChatTables, Create
  <2> QED
    BY <2>1, Read1 DEF SaneMigration
<1>2. SaneMigration(2)
  <2>1. Sane(DropTable("messages"), 2, 1)
    BY DEF Sane, Drops, Makes, Relations, ChatTables, DropTable
  <2>2. Sane(Create("messages"), 2, 2)
    BY DEF Sane, Drops, Makes, Relations, ChatTables, Create
  <2> QED
    BY <2>1, <2>2, Read2 DEF SaneMigration
<1>3. SaneMigration(3)
  <2>1. Sane(DropTable("messages"), 3, 1)
    BY DEF Sane, Drops, Makes, Relations, ChatTables, DropTable
  <2>2. Sane(Create("messages"), 3, 2)
    BY DEF Sane, Drops, Makes, Relations, ChatTables, Create
  <2> QED
    BY <2>1, <2>2, Read3 DEF SaneMigration
<1>4. SaneMigration(4)
  <2>1. Sane(Create("encrypted_events"), 4, 1)
    BY DEF Sane, Drops, Makes, Relations, ChatTables, Create
  <2>2. Sane(Add("encrypted_events", "session_id_idx"), 4, 2)
    BY DEF Sane, Drops, Makes, Relations, ChatTables, Add
  <2> QED
    BY <2>1, <2>2, Read4 DEF SaneMigration
<1>5. SaneMigration(5)
  <2>1. Sane(Add("encrypted_events", "user_id"), 5, 1)
    BY DEF Sane, Drops, Makes, Relations, ChatTables, Add
  <2>2. Sane(Add("encrypted_events", "user_id_idx"), 5, 2)
    BY DEF Sane, Drops, Makes, Relations, ChatTables, Add
  <2> QED
    BY <2>1, <2>2, Read5 DEF SaneMigration
<1>6. SaneMigration(6)
  <2>1. Sane(DropAny("TimelineEvents"), 6, 1)
    BY DEF Sane, Drops, Makes, Relations, ChatTables, DropAny
  <2>2. Sane(DropAny("TicketsStaffRelation"), 6, 2)
    BY DEF Sane, Drops, Makes, Relations, ChatTables, DropAny
  <2>3. Sane(DropAny("Tickets"), 6, 3)
    BY DEF Sane, Drops, Makes, Relations, ChatTables, DropAny
  <2>4. Sane(DropAny("Users"), 6, 4)
    BY DEF Sane, Drops, Makes, Relations, ChatTables, DropAny
  <2>5. Sane(DropAny("Staff"), 6, 5)
    BY DEF Sane, Drops, Makes, Relations, ChatTables, DropAny
  <2>6. Sane(Ensure("Users"), 6, 6)
    BY DEF Sane, Drops, Makes, Relations, ChatTables, Ensure
  <2>7. Sane(Ensure("Staff"), 6, 7)
    BY DEF Sane, Drops, Makes, Relations, ChatTables, Ensure
  <2>8. Sane(Ensure("Tickets"), 6, 8)
    BY DEF Sane, Drops, Makes, Relations, ChatTables, Ensure
  <2>9. Sane(Ensure("TicketsStaffRelation"), 6, 9)
    BY DEF Sane, Drops, Makes, Relations, ChatTables, Ensure
  <2>10. Sane(Ensure("TimelineEvents"), 6, 10)
    BY DEF Sane, Drops, Makes, Relations, ChatTables, Ensure
  <2>11. Sane(Add("Tickets", "user_id_idx"), 6, 11)
    BY DEF Sane, Drops, Makes, Relations, ChatTables, Add
  <2>12. Sane(Add("TimelineEvents", "Tickets_id_idx"), 6, 12)
    BY DEF Sane, Drops, Makes, Relations, ChatTables, Add
  <2>13. Sane(Add("TicketsStaffRelation", "Tickets_id_idx"), 6, 13)
    BY DEF Sane, Drops, Makes, Relations, ChatTables, Add
  <2>14. Sane(Add("Tickets", "User_Tickets"), 6, 14)
    BY DEF Sane, Drops, Makes, Relations, ChatTables, Add
  <2> QED
    BY <2>1, <2>2, <2>3, <2>4, <2>5, <2>6, <2>7, <2>8, <2>9, <2>10, <2>11, <2>12,
       <2>13, <2>14, Read6 DEF SaneMigration
<1>7. SaneMigration(7)
  <2>1. Sane(Add("Users", "current_ticket_id"), 7, 1)
    BY DEF Sane, Drops, Makes, Relations, ChatTables, Add
  <2>2. Sane(Add("Users", "fk_Tickets_ticket_id"), 7, 2)
    BY DEF Sane, Drops, Makes, Relations, ChatTables, Add
  <2> QED
    BY <2>1, <2>2, Read7 DEF SaneMigration
<1>8. SaneMigration(8)
  <2>1. Sane(DropAny("ChatsStaffRelation"), 8, 1)
    BY DEF Sane, Drops, Makes, Relations, ChatTables, DropAny
  <2>2. Sane(DropAny("Chats"), 8, 2)
    BY DEF Sane, Drops, Makes, Relations, ChatTables, DropAny
  <2>3. Sane(Ensure("Chats"), 8, 3)
    BY DEF Sane, Drops, Makes, Relations, ChatTables, Ensure
  <2>4. Sane(Ensure("ChatsStaffRelation"), 8, 4)
    BY DEF Sane, Drops, Makes, Relations, ChatTables, Ensure
  <2>5. Sane(Add("Users", "current_chat_room_id"), 8, 5)
    BY DEF Sane, Drops, Makes, Relations, ChatTables, Add
  <2>6. Sane(Add("Users", "fk_Chats_chat_id"), 8, 6)
    BY DEF Sane, Drops, Makes, Relations, ChatTables, Add
  <2> QED
    BY <2>1, <2>2, <2>3, <2>4, <2>5, <2>6, Read8 DEF SaneMigration
<1>9. SaneMigration(9)
  <2>1. Sane(Ensure("IncomingEvents"), 9, 1)
    BY DEF Sane, Drops, Makes, Relations, ChatTables, Ensure
  <2> QED
    BY <2>1, Read9 DEF SaneMigration
<1>10. SaneMigration(10)
  <2>1. Sane(Ensure("EventPairs"), 10, 1)
    BY DEF Sane, Drops, Makes, Relations, ChatTables, Ensure
  <2>2. Sane(Add("EventPairs", "room_ids_idx"), 10, 2)
    BY DEF Sane, Drops, Makes, Relations, ChatTables, Add
  <2> QED
    BY <2>1, <2>2, Read10 DEF SaneMigration
<1>11. SaneMigration(11)
  <2>1. Sane(Ensure("Support"), 11, 1)
    BY DEF Sane, Drops, Makes, Relations, ChatTables, Ensure
  <2>2. Sane(Ensure("TicketsSupportRelation"), 11, 2)
    BY DEF Sane, Drops, Makes, Relations, ChatTables, Ensure
  <2> QED
    BY <2>1, <2>2, Read11 DEF SaneMigration
<1>12. SaneMigration(12)
  <2>1. Sane(Add("Tickets", "raised_at"), 12, 1)
    BY DEF Sane, Drops, Makes, Relations, ChatTables, Add
  <2>2. Sane(Add("Tickets", "closed_at"), 12, 2)
    BY DEF Sane, Drops, Makes, Relations, ChatTables, Add
  <2> QED
    BY <2>1, <2>2, Read12 DEF SaneMigration
<1>13. SaneMigration(13)
  <2>1. Sane(Ensure("TicketLabels"), 13, 1)
    BY DEF Sane, Drops, Makes, Relations, ChatTables, Ensure
  <2>2. Sane(Ensure("TicketsTicketLabelsRelation"), 13, 2)
    BY DEF Sane, Drops, Makes, Relations, ChatTables, Ensure
  <2> QED
    BY <2>1, <2>2, Read13 DEF SaneMigration
<1>14. SaneMigration(14)
  <2>1. Sane(Add("Chats", "created_at"), 14, 1)
    BY DEF Sane, Drops, Makes, Relations, ChatTables, Add
  <2>2. Sane(Add("Chats", "closed_at"), 14, 2)
    BY DEF Sane, Drops, Makes, Relations, ChatTables, Add
  <2>3. Sane(Add("Chats", "status"), 14, 3)
    BY DEF Sane, Drops, Makes, Relations, ChatTables, Add
  <2> QED
    BY <2>1, <2>2, <2>3, Read14 DEF SaneMigration
<1>15. SaneMigration(15)
  <2>1. Sane(Ensure("ChatsSupportRelation"), 15, 1)
    BY DEF Sane, Drops, Makes, Relations, ChatTables, Ensure
  <2> QED
    BY <2>1, Read15 DEF SaneMigration
<1> QED
  BY <1>1, <1>2, <1>3, <1>4, <1>5, <1>6, <1>7, <1>8, <1>9, <1>10, <1>11, <1>12,
     <1>13, <1>14, <1>15

-----------------------------------------------------------------------------
(* The inductive invariant.                                                *)

\* What executing a statement leaves behind.
Effect(s) ==
  /\ s.op \in Makes => s.table \in tables
  /\ s.op = "add" => <<s.table, s.part>> \in parts

\* What the fourth and the later migrations before statement a of migration l + 1 did
\* is there.
Built(l, a) ==
  \A k \in 4..15 : \A i \in 1..Len(Statements[k]) :
    k <= l \/ (k = l + 1 /\ i < a) => Effect(Statements[k][i])

\* The messages table is there for good once the third migration has remade it.
Based(l, a) == l >= 3 \/ (l = 2 /\ a = 3) => "messages" \in tables

\* A version in the database is the only one, and its schema is complete.
VersionTrue ==
  /\ ~versioned => version = {}
  /\ \A v \in version : version = {v} /\ v <= release /\ Built(v, 1) /\ Based(v, 1)

\* The migrations go on from what is there, and the version follows them: only a
\* start whose SELECT failed goes back to the first, where it gets nowhere once
\* messages is there.
Migrating ==
  phase = "migrating" =>
    /\ level < release /\ at \in 1..(Len(Statements[level + 1]) + 1)
    /\ Built(level, at) /\ Based(level, at)
    /\ failing \/ version = {level}
    /\ \A v \in version : v = level \/ (level = 0 /\ failing /\ (v >= 3 => at = 1))

Starts ==
  /\ phase = "down" => ~failing
  /\ phase \in {"down", "creating", "inserting"} => level = 0 /\ at = 1 /\ ~failing
  /\ phase = "inserting" => versioned /\ version = {}
  /\ phase = "serving" => ~failing /\ \E v \in version : v >= release

\* Every table was made by a migration of the release installed.
MadeBy(k, t) == \E i \in 1..Len(Statements[k]) :
  Statements[k][i].op \in Makes /\ Statements[k][i].table = t
DroppedBy(k, t) == \E i \in 1..Len(Statements[k]) :
  Statements[k][i].op \in Drops /\ Statements[k][i].table = t
TablesMade == \A t \in tables : \E k \in 1..release : MadeBy(k, t)

\* The version is beyond every migration that drops a table with data.
DataKept ==
  data # {} => \E v \in version : v >= 3 /\ \A t \in data : \A k \in (v + 1)..15 : ~DroppedBy(k, t)

SchemaInv == TypeOK /\ VersionTrue /\ Migrating /\ Starts /\ TablesMade

-----------------------------------------------------------------------------
(* Lemmas about the order of the statements.                               *)

\* A statement of a migration.
LEMMA At ==
  ASSUME NEW k \in 1..15, NEW i \in 1..Len(Statements[k])
  PROVE  /\ Sane(Statements[k][i], k, i)
         /\ i \in 1..14 /\ Len(Statements[k]) \in 1..14
         /\ Statements[k][i].table \in Tables
         /\ <<Statements[k][i].table, Statements[k][i].part>> \in Parts
<1>1. SaneMigration(k)
  BY Sanity
<1>2. Sane(Statements[k][i], k, i) /\ i \in 1..14 /\ i \in DOMAIN Statements[k]
      /\ Len(Statements[k]) \in 1..14
  <2>1. Sane(Statements[k][i], k, i) /\ i \in DOMAIN Statements[k]
    BY <1>1 DEF SaneMigration
  <2>2. Len(Statements[k]) \in 1..14
    BY <1>1 DEF SaneMigration
  <2>3. PICK n \in 1..14 : n = Len(Statements[k])
    BY <2>2
  <2>4. i \in 1..n
    BY <2>3
  <2> QED
    BY <2>1, <2>3, <2>4, SMTT(30)
<1>3. Statements[k][i].table \in {Statements[k][n].table : n \in DOMAIN Statements[k]}
  BY <1>2
<1>4. <<Statements[k][i].table, Statements[k][i].part>> \in
        {<<Statements[k][n].table, Statements[k][n].part>> : n \in DOMAIN Statements[k]}
  BY <1>2
<1>5. Statements[k][i].table \in Tables
  BY <1>3 DEF Tables
<1>6. <<Statements[k][i].table, Statements[k][i].part>> \in Parts
  BY <1>4 DEF Parts
<1> QED
  BY <1>2, <1>5, <1>6

\* Two migrations make and drop a table in this order never.
LEMMA NotDroppedLater ==
  ASSUME NEW j \in 1..15, NEW k \in 4..15, NEW t, j < k, MadeBy(j, t)
  PROVE  ~DroppedBy(k, t)
<1> SUFFICES ASSUME DroppedBy(k, t) PROVE FALSE
  OBVIOUS
<1>1. PICK i \in 1..Len(Statements[j]) :
        Statements[j][i].op \in Makes /\ Statements[j][i].table = t
  BY DEF MadeBy
<1>2. PICK n \in 1..Len(Statements[k]) :
        Statements[k][n].op \in Drops /\ Statements[k][n].table = t
  BY DEF DroppedBy
<1> k \in 1..15
  OBVIOUS
<1>3. Sane(Statements[j][i], j, i) /\ Sane(Statements[k][n], k, n)
  BY At
<1>4. Statements[j][i].op \notin Drops
  BY <1>1 DEF Makes, Drops
<1>5. i \in 1..14 /\ n \in 1..14
  BY At
<1>6. k = 6 \/ k = 8
  BY <1>2, <1>3, SMTT(30) DEF Sane
<1>7. CASE k = 6
  BY <1>1, <1>2, <1>3, <1>4, <1>5, <1>7 DEF Sane, Relations, ChatTables
<1>8. CASE k = 8
  BY <1>1, <1>2, <1>3, <1>4, <1>5, <1>8 DEF Sane, Relations, ChatTables
<1> QED
  BY <1>6, <1>7, <1>8

\* Every migration has a first statement.
LEMMA First ==
  ASSUME NEW k \in 1..15
  PROVE  1 \in 1..(Len(Statements[k]) + 1)
<1>1. PICK n \in 1..14 : n = Len(Statements[k])
  BY Sanity DEF SaneMigration
<1>2. 1 \in 1..(n + 1)
  OBVIOUS
<1> QED
  BY <1>1, <1>2

-----------------------------------------------------------------------------
(* Executing a statement.                                                  *)

\* What is known of the statement that is executed.
LEMMA Current ==
  ASSUME Migrating, TypeOK, phase = "migrating", ~Migrated
  PROVE  /\ level + 1 \in 1..15 /\ at \in 1..Len(Statements[level + 1]) /\ at \in 1..14
         /\ Len(Statements[level + 1]) \in 1..14
         /\ Sane(Statement, level + 1, at)
         /\ Statement.table \in Tables
         /\ <<Statement.table, Statement.part>> \in Parts
<1>1. level + 1 \in 1..15
  BY MigrationsAssumption DEF Migrating, TypeOK
<1>2. /\ Len(Statements[level + 1]) \in 1..14
      /\ DOMAIN Statements[level + 1] = 1..Len(Statements[level + 1])
  BY <1>1, Sanity DEF SaneMigration
<1>3. at \in 1..Len(Statements[level + 1])
  BY <1>2 DEF Migrating, Migrated
<1> QED
  BY <1>1, <1>2, <1>3, At DEF Statement

\* The three things Apply does.
LEMMA Applied ==
  ASSUME NEW s, Apply(s), s.op \in Drops \cup Makes \cup {"add"}
  PROVE  \/ /\ s.op \in Makes /\ tables' = tables \cup {s.table}
            /\ parts' = parts /\ data' = data
         \/ /\ s.op \in Drops /\ tables' = tables \ {s.table}
            /\ parts' = {p \in parts : p[1] # s.table} /\ data' = data \ {s.table}
         \/ /\ s.op = "add" /\ parts' = parts \cup {<<s.table, s.part>>}
            /\ tables' = tables /\ data' = data
<1>1. CASE s.op \in Makes
  BY <1>1 DEF Apply, Makes
<1>2. CASE s.op \in Drops
  BY <1>2 DEF Apply, Drops
<1>3. CASE s.op = "add"
  BY <1>3 DEF Apply
<1> QED
  BY <1>1, <1>2, <1>3

\* What the statements before the one executed did stays.
LEMMA BuiltStays ==
  ASSUME Migrating, TypeOK, Execute, NEW l \in Nat, NEW a \in Nat,
         Built(l, a), l < level \/ (l = level /\ a <= at)
  PROVE  Built(l, a)'
<1> SUFFICES ASSUME NEW k \in 4..15, NEW i \in 1..Len(Statements[k]),
                    k <= l \/ (k = l + 1 /\ i < a)
             PROVE  Effect(Statements[k][i])'
  BY DEF Built
<1> k \in 1..15
  OBVIOUS
<1>0. PICK e : e = Statements[k][i]
  OBVIOUS
<1> SUFFICES Effect(e)'
  BY <1>0
<1>1. Effect(e)
  BY <1>0 DEF Built
<1>2. Sane(e, k, i) /\ i \in 1..14
  BY <1>0, At
<1>3. /\ level + 1 \in 1..15 /\ level \in 0..15 /\ at \in Nat
      /\ Sane(Statement, level + 1, at)
  BY Current DEF Execute, TypeOK
<1>4. Apply(Statement)
  BY DEF Execute
<1>5. k < level + 1 \/ (k = level + 1 /\ i < at)
  BY <1>2, <1>3
<1>6. CASE Statement.op \in Makes /\ tables' = tables \cup {Statement.table} /\ parts' = parts
  BY <1>1, <1>6 DEF Effect
<1>7. CASE /\ Statement.op = "add" /\ tables' = tables
           /\ parts' = parts \cup {<<Statement.table, Statement.part>>}
  BY <1>1, <1>7 DEF Effect
<1>8. CASE /\ Statement.op \in Drops /\ tables' = tables \ {Statement.table}
           /\ parts' = {p \in parts : p[1] # Statement.table}
  <2>1. CASE e.op \in Drops
    BY <2>1 DEF Effect, Makes, Drops
  <2>2. CASE e.op \notin Drops
    <3>1. e.table # Statement.table
      BY <1>2, <1>3, <1>5, <1>8, <2>2 DEF Sane
    <3>2. <<e.table, e.part>>[1] = e.table
      OBVIOUS
    <3> QED
      BY <1>1, <1>8, <3>1, <3>2 DEF Effect, Makes
  <2> QED
    BY <2>1, <2>2
<1>9. Statement.op \in Drops \cup Makes \cup {"add"}
  BY <1>3 DEF Sane
<1> QED
  BY <1>4, <1>6, <1>7, <1>8, <1>9, Applied

\* The statement executed leaves its effect.
LEMMA Effective ==
  ASSUME Migrating, TypeOK, Execute
  PROVE  LET s == Statement IN
         /\ s.op \in Makes => s.table \in tables'
         /\ s.op = "add" => <<s.table, s.part>> \in parts'
<1>1. Sane(Statement, level + 1, at) /\ Apply(Statement)
  BY Current DEF Execute
<1>2. Statement.op \in Drops \cup Makes \cup {"add"}
  BY <1>1 DEF Sane
<1> QED
  BY <1>1, <1>2, Applied DEF Drops, Makes

\* The messages table stays once it is there for good.
LEMMA BasedStays ==
  ASSUME Migrating, TypeOK, Execute, NEW l \in Nat, NEW a \in Nat,
         Based(l, a), l < level \/ (l = level /\ a <= at)
  PROVE  Based(l, a)'
<1>1. /\ level + 1 \in 1..15 /\ at \in 1..Len(Statements[level + 1])
      /\ Sane(Statement, level + 1, at) /\ Apply(Statement) /\ level \in 0..15
  BY Current DEF Execute, TypeOK
<1>2. Statement.op \in Drops \cup Makes \cup {"add"}
  BY <1>1 DEF Sane
<1>3. SUFFICES ASSUME l >= 3 \/ (l = 2 /\ a = 3) PROVE "messages" \in tables'
  BY DEF Based
<1>4. "messages" \in tables
  BY <1>3 DEF Based
<1>5. ~(level = 2 /\ at >= 3)
  <2>1. SUFFICES ASSUME level = 2 PROVE at < 3
    BY <1>1, At
  <2>2. level + 1 = 3 /\ Len(Statements[3]) = 2
    BY <2>1, Read3
  <2>3. at \in 1..2
    BY <1>1, <2>2
  <2> QED
    BY <2>3
<1>6. level + 1 > 3
  BY <1>1, <1>3, <1>5
<1>7. Statement.table # "messages"
  BY <1>1, <1>6 DEF Sane
<1> QED
  BY <1>1, <1>2, <1>4, <1>7, Applied

-----------------------------------------------------------------------------
(* The steps.                                                              *)

\* Nothing but the tables and their parts tells what is built.
LEMMA SameSchema ==
  ASSUME UNCHANGED <<tables, parts>>, NEW l, NEW a
  PROVE  (Built(l, a) => Built(l, a)') /\ (Based(l, a) => Based(l, a)')
  BY DEF Built, Based, Effect

\* Before the third migration nothing is claimed.
LEMMA NothingYet ==
  ASSUME NEW l \in 0..2
  PROVE  Built(l, 1)' /\ Based(l, 1)'
  BY DEF Built, Based

\* A version with one row has the cardinality of one.
LEMMA FewVersions ==
  ASSUME NEW S, S = {} \/ \E v : S = {v}
  PROVE  Cardinality(S) <= 1
<1>1. CASE S = {}
  BY <1>1, FS_EmptySet
<1>2. CASE \E v : S = {v}
  <2>1. PICK v : S = {v}
    BY <1>2
  <2>2. Cardinality({v}) = 1
    BY FS_Singleton
  <2> QED
    BY <2>1, <2>2
<1> QED
  BY <1>1, <1>2

\* An empty database is as the invariant says.
LEMMA InitSchema == Init => SchemaInv
<1> SUFFICES ASSUME Init PROVE SchemaInv
  OBVIOUS
<1>1. TypeOK
  <2>1. Cardinality(version) <= 1
    BY FewVersions DEF Init
  <2>2. 0 \in 0..MaxCrashes /\ 0 \in 0..15 /\ 1 \in 1..20
    BY MigrationsAssumption
  <2>3. version \subseteq 0..15 /\ tables \subseteq Tables /\ parts \subseteq Parts
    BY DEF Init
  <2>4. data \subseteq Tables /\ versioned \in BOOLEAN /\ failing \in BOOLEAN
    BY DEF Init
  <2> QED
    BY <2>1, <2>2, <2>3, <2>4 DEF Init, TypeOK, Phases
<1>2. VersionTrue /\ Starts /\ TablesMade
  BY DEF Init, VersionTrue, Starts, TablesMade
<1>3. Migrating
  BY DEF Init, Migrating
<1> QED
  BY <1>1, <1>2, <1>3 DEF SchemaInv

\* A step that leaves the database and the release alone keeps what is said of them.
LEMMA SameDatabase ==
  ASSUME VersionTrue, TablesMade, UNCHANGED <<db, release>>
  PROVE  VersionTrue' /\ TablesMade'
<1>1. VersionTrue'
  <2>1. ASSUME NEW v \in version'
        PROVE  version' = {v} /\ v <= release' /\ Built(v, 1)' /\ Based(v, 1)'
    BY SameSchema DEF VersionTrue, db
  <2> QED
    BY <2>1 DEF VersionTrue, db
<1>2. TablesMade'
  BY DEF TablesMade, db
<1> QED
  BY <1>1, <1>2

\* A start that reads the version goes on from it, as the schema has it.
LEMMA SelectVersionStep == SchemaInv /\ SelectVersion => SchemaInv'
<1> SUFFICES ASSUME SchemaInv, SelectVersion PROVE SchemaInv'
  OBVIOUS
<1> USE DEF SchemaInv
<1>1. PICK v \in version : RunFrom(v)
  BY DEF SelectVersion
<1>2. v \in 0..15 /\ version = {v} /\ Built(v, 1) /\ Based(v, 1) /\ release \in 1..15
  BY MigrationsAssumption DEF TypeOK, VersionTrue
<1>3. TypeOK'
  BY <1>1, <1>2 DEF TypeOK, SelectVersion, RunFrom, db, Phases
<1>4. VersionTrue' /\ TablesMade'
  BY SameDatabase DEF SelectVersion
<1>5. Migrating'
  <2>1. SUFFICES ASSUME v < release PROVE Migrating'
    BY <1>1, <1>2 DEF RunFrom, Migrating
  <2>2. level' = v /\ at' = 1 /\ version' = {v} /\ release' = release
    BY <1>1, <1>2 DEF RunFrom, SelectVersion, db
  <2>3. v + 1 \in 1..15
    BY <1>2, <2>1
  <2>4. 1 \in 1..(Len(Statements[v + 1]) + 1)
    BY <2>3, First
  <2>5. Built(v, 1)' /\ Based(v, 1)'
    BY <1>2, SameSchema DEF SelectVersion, db
  <2>6. Built(level, at)' /\ Based(level, at)'
    BY <2>2, <2>5 DEF Built, Based
  <2> QED
    BY <2>1, <2>2, <2>4, <2>6 DEF Migrating
<1>6. Starts'
  BY <1>1, <1>2 DEF Starts, SelectVersion, RunFrom, db
<1> QED
  BY <1>3, <1>4, <1>5, <1>6

\* A SELECT that fails changes nothing yet.
LEMMA SelectRaisesStep == SchemaInv /\ SelectRaises => SchemaInv'
<1> SUFFICES ASSUME SchemaInv, SelectRaises PROVE SchemaInv'
  OBVIOUS
<1> USE DEF SchemaInv
<1>1. TypeOK'
  BY DEF TypeOK, SelectRaises, db, Phases
<1>2. VersionTrue' /\ TablesMade'
  BY SameDatabase DEF SelectRaises
<1>3. Migrating' /\ Starts'
  BY DEF Migrating, Starts, SelectRaises, db
<1> QED
  BY <1>1, <1>2, <1>3

\* A table that is there already makes the start run from the first migration.
LEMMA CreateVersionTableStep == SchemaInv /\ CreateVersionTable => SchemaInv'
<1> SUFFICES ASSUME SchemaInv, CreateVersionTable PROVE SchemaInv'
  OBVIOUS
<1> USE DEF SchemaInv
<1>1. TypeOK'
  BY DEF TypeOK, CreateVersionTable, Phases
<1>2. level = 0 /\ at = 1 /\ level' = 0 /\ at' = 1 /\ release \in 1..15
  BY MigrationsAssumption DEF Starts, CreateVersionTable, TypeOK
<1>3. VersionTrue'
  <2>1. ASSUME NEW v \in version'
        PROVE  version' = {v} /\ v <= release' /\ Built(v, 1)' /\ Based(v, 1)'
    BY SameSchema DEF VersionTrue, CreateVersionTable
  <2> QED
    BY <2>1 DEF VersionTrue, CreateVersionTable
<1>4. TablesMade'
  BY DEF TablesMade, CreateVersionTable
<1>5. Migrating'
  <2>1. SUFFICES ASSUME versioned PROVE Migrating'
    BY DEF CreateVersionTable, Migrating
  <2>2. failing' = TRUE /\ release' = release
    BY <2>1 DEF CreateVersionTable
  <2>3. 1 \in 1..(Len(Statements[0 + 1]) + 1)
    <3>1. 0 + 1 \in 1..15
      OBVIOUS
    <3> QED
      BY <3>1, First
  <2>4. Built(0, 1)' /\ Based(0, 1)'
    BY NothingYet
  <2>5. Built(level, at)' /\ Based(level, at)'
    BY <1>2, <2>4 DEF Built, Based
  <2> QED
    BY <1>2, <2>2, <2>3, <2>5 DEF Migrating
<1>6. Starts'
  BY <1>2 DEF Starts, VersionTrue, CreateVersionTable, TypeOK
<1> QED
  BY <1>1, <1>3, <1>4, <1>5, <1>6

\* The first row is version 0, of which nothing is claimed.
LEMMA InsertVersionStep == SchemaInv /\ InsertVersion => SchemaInv'
<1> SUFFICES ASSUME SchemaInv, InsertVersion PROVE SchemaInv'
  OBVIOUS
<1> USE DEF SchemaInv
<1>1. level = 0 /\ at = 1 /\ level' = 0 /\ at' = 1 /\ release \in 1..15 /\ ~failing /\ versioned
  BY MigrationsAssumption DEF Starts, InsertVersion, TypeOK
<1>2. Built(0, 1)' /\ Based(0, 1)'
  BY NothingYet
<1>3. Cardinality(version') <= 1
  BY FewVersions DEF InsertVersion
<1>4. TypeOK'
  BY <1>3 DEF TypeOK, InsertVersion, Phases
<1>5. VersionTrue'
  BY <1>1, <1>2 DEF VersionTrue, InsertVersion
<1>6. TablesMade'
  BY DEF TablesMade, InsertVersion
<1>7. Migrating'
  <2>1. 1 \in 1..(Len(Statements[0 + 1]) + 1)
    <3>1. 0 + 1 \in 1..15
      OBVIOUS
    <3> QED
      BY <3>1, First
  <2>2. Built(level, at)' /\ Based(level, at)'
    BY <1>1, <1>2 DEF Built, Based
  <2> QED
    BY <1>1, <2>1, <2>2 DEF Migrating, InsertVersion
<1>8. Starts'
  BY <1>1 DEF Starts, InsertVersion
<1> QED
  BY <1>4, <1>5, <1>6, <1>7, <1>8

\* A start that failed to SELECT executes nothing once messages is there.
LEMMA GetsNowhere ==
  ASSUME SchemaInv, Execute, NEW v \in version, v >= 3
  PROVE  v = level
<1> USE DEF SchemaInv
<1>1. SUFFICES ASSUME level = 0, at = 1 PROVE FALSE
  BY DEF Migrating, Execute
<1>2. Statement = Create("messages")
  <2>1. level + 1 = 1
    BY <1>1
  <2> QED
    BY <1>1, <2>1, Read1 DEF Statement
<1>3. "messages" \in tables
  BY DEF VersionTrue, Based
<1> QED
  BY <1>2, <1>3 DEF Execute, Works, Create

\* Each statement builds on the ones before, and takes nothing from what is built.
LEMMA ExecuteStep == SchemaInv /\ Execute => SchemaInv'
<1> SUFFICES ASSUME SchemaInv, Execute PROVE SchemaInv'
  OBVIOUS
<1> USE DEF SchemaInv
<1>1. /\ level \in 0..15 /\ level + 1 \in 1..15 /\ release \in 1..15 /\ level < release
      /\ at \in 1..Len(Statements[level + 1]) /\ Len(Statements[level + 1]) \in 1..14
      /\ at \in 1..14
      /\ Sane(Statement, level + 1, at)
      /\ Statement.table \in Tables /\ <<Statement.table, Statement.part>> \in Parts
  BY Current, MigrationsAssumption DEF Execute, TypeOK, Migrating
<1>2. /\ at' = at + 1 /\ level' = level /\ phase' = "migrating" /\ version' = version
      /\ release' = release /\ failing' = failing /\ versioned' = versioned
      /\ Apply(Statement) /\ crashes' = crashes /\ phase = "migrating"
  BY DEF Execute
<1>3. Statement.op \in Drops \cup Makes \cup {"add"}
  BY <1>1 DEF Sane
<1>4. TypeOK'
  <2>1. tables' \subseteq Tables /\ parts' \subseteq Parts /\ data' \subseteq Tables
    BY <1>1, <1>2, <1>3, Applied DEF TypeOK
  <2>2. at \in 1..14 /\ at + 1 \in 1..20
    BY <1>1
  <2>3. at' \in 1..20
    BY <1>2, <2>2
  <2> QED
    BY <1>2, <2>1, <2>3 DEF TypeOK
<1>5. PICK L \in 0..15, A \in 1..14 : level = L /\ at = A
  <2>1. at \in 1..14
    BY <1>1
  <2> QED
    BY <1>1, <2>1
<1>6. Built(L, A) /\ Based(L, A)
  BY <1>2, <1>5 DEF Migrating
<1>7. Built(L, A + 1)'
  <2>1. Built(L, A)'
    BY <1>5, <1>6, BuiltStays
  <2>2. SUFFICES ASSUME NEW k \in 4..15, NEW i \in 1..Len(Statements[k]),
                        k <= L \/ (k = L + 1 /\ i < A + 1)
                 PROVE  Effect(Statements[k][i])'
    BY DEF Built
  <2>3. CASE k <= L \/ (k = L + 1 /\ i < A)
    BY <2>1, <2>3 DEF Built
  <2>4. CASE k = L + 1 /\ i = A
    <3>1. Statement = Statements[k][i]
      BY <1>5, <2>4 DEF Statement
    <3>2. PICK e : e = Statements[k][i]
      OBVIOUS
    <3>3. Effect(e)'
      BY <3>1, <3>2, Effective DEF Effect
    <3> QED
      BY <3>2, <3>3
  <2>5. i \in 1..14
    <3> k \in 1..15
      OBVIOUS
    <3> QED
      BY At
  <2> QED
    BY <1>5, <2>2, <2>3, <2>4, <2>5
<1>8. Based(L, A + 1)'
  <2>1. CASE L = 2 /\ A = 2
    <3>1. Statement = Create("messages")
      <4>1. level + 1 = 3 /\ at = 2
        BY <1>5, <2>1
      <4> QED
        BY <4>1, Read3 DEF Statement
    <3> QED
      BY <3>1, Effective DEF Based, Create, Makes
  <2>2. CASE ~(L = 2 /\ A = 2)
    <3>1. Based(L, A)'
      BY <1>5, <1>6, BasedStays
    <3> QED
      BY <1>5, <2>2, <3>1 DEF Based
  <2> QED
    BY <2>1, <2>2
<1>9. Migrating'
  <2>1. Built(level, at)' /\ Based(level, at)'
    BY <1>2, <1>5, <1>7, <1>8 DEF Built, Based
  <2>2. at' \in 1..(Len(Statements[level' + 1]) + 1)
    BY <1>1, <1>2
  <2>3. failing' \/ version' = {level'}
    BY <1>2 DEF Migrating
  <2>4. ASSUME NEW v \in version', ~(v = level' \/ (level' = 0 /\ failing' /\ (v >= 3 => at' = 1)))
        PROVE  FALSE
    BY <1>2, <2>4, GetsNowhere DEF Migrating
  <2> QED
    BY <1>1, <1>2, <2>1, <2>2, <2>3, <2>4 DEF Migrating
<1>10. VersionTrue'
  <2>1. ASSUME NEW v \in version'
        PROVE  version' = {v} /\ v <= release' /\ Built(v, 1)' /\ Based(v, 1)'
    <3>1. v \in version /\ v \in 0..15
      BY <1>2 DEF TypeOK
    <3>2. version = {v} /\ v <= release /\ Built(v, 1) /\ Based(v, 1)
      BY <3>1 DEF VersionTrue
    <3>3. CASE v <= 2
      BY <1>2, <3>1, <3>2, <3>3, NothingYet
    <3>4. CASE v >= 3
      <4>1. v = level
        BY <3>1, <3>4, GetsNowhere
      <4> QED
        BY <1>1, <1>2, <3>1, <3>2, <4>1, BuiltStays, BasedStays
    <3> QED
      BY <3>1, <3>3, <3>4
  <2> QED
    BY <1>2, <2>1 DEF VersionTrue
<1>11. TablesMade'
  <2>1. tables' \subseteq tables \cup (IF Statement.op \in Makes THEN {Statement.table} ELSE {})
    BY <1>2, <1>3, Applied
  <2>2. Statement.op \in Makes => MadeBy(level + 1, Statement.table)
    BY <1>1 DEF MadeBy, Statement
  <2>3. level + 1 \in 1..release
    BY <1>1
  <2> QED
    BY <1>2, <2>1, <2>2, <2>3 DEF TablesMade
<1>12. Starts'
  BY <1>2 DEF Starts
<1> QED
  BY <1>4, <1>9, <1>10, <1>11, <1>12

\* A step that ends the process and leaves the database alone.
LEMMA DownStep ==
  ASSUME SchemaInv, Down, UNCHANGED <<db, release>>,
         data' \subseteq Tables, crashes' \in 0..MaxCrashes
  PROVE  SchemaInv'
<1> USE DEF SchemaInv
<1>1. TypeOK'
  <2>1. level' \in 0..15 /\ at' \in 1..20 /\ failing' \in BOOLEAN /\ phase' \in Phases
    <3> 0 \in 0..15 /\ 1 \in 1..20
      OBVIOUS
    <3> QED
      BY DEF Down, Phases
  <2> QED
    BY <2>1 DEF TypeOK, db
<1>2. VersionTrue' /\ TablesMade'
  BY SameDatabase
<1>3. Migrating' /\ Starts'
  BY DEF Migrating, Starts, Down
<1> QED
  BY <1>1, <1>2, <1>3

\* A statement that fails ends the process.
LEMMA ExecuteRaisesStep == SchemaInv /\ ExecuteRaises => SchemaInv'
  BY DownStep DEF ExecuteRaises, SchemaInv, TypeOK, db

\* The version is one that is built when it is written.
LEMMA UpdateVersionStep == SchemaInv /\ UpdateVersion => SchemaInv'
<1> SUFFICES ASSUME SchemaInv, UpdateVersion PROVE SchemaInv'
  OBVIOUS
<1> USE DEF SchemaInv
<1>1. PICK L \in 0..14 : level = L
  BY MigrationsAssumption DEF UpdateVersion, Migrating, TypeOK
<1>2. /\ release \in 1..15 /\ L < release /\ L + 1 \in 1..15 /\ failing \in BOOLEAN
      /\ Len(Statements[L + 1]) \in 1..14
      /\ at \in 1..(Len(Statements[L + 1]) + 1) /\ at > Len(Statements[L + 1])
  <2>1. L + 1 \in 1..15
    BY <1>1
  <2>2. Len(Statements[L + 1]) \in 1..14
    BY <2>1, Sanity DEF SaneMigration
  <2> QED
    BY <1>1, <2>1, <2>2, MigrationsAssumption DEF UpdateVersion, Migrating, Migrated, TypeOK
<1>3. PICK A \in 2..15 : at = A /\ A = Len(Statements[L + 1]) + 1
  <2>1. PICK n \in 1..14 : n = Len(Statements[L + 1])
    BY <1>2
  <2>2. at \in 1..(n + 1) /\ at > n
    BY <1>2, <2>1
  <2>3. at = n + 1 /\ n + 1 \in 2..15
    BY <2>2
  <2> QED
    BY <2>1, <2>3
<1>4. /\ UNCHANGED <<versioned, tables, parts, data, release, crashes>>
      /\ version' = IF version = {} THEN {} ELSE {L + 1}
      /\ IF L + 1 = release /\ failing THEN Down
         ELSE RunFrom(L + 1) /\ UNCHANGED failing
  BY <1>1 DEF UpdateVersion
<1>5. Built(L + 1, 1) /\ Based(L + 1, 1)
  <2>1. Built(L, A) /\ Based(L, A)
    BY <1>1, <1>3 DEF UpdateVersion, Migrating
  <2>2. Built(L + 1, 1)
    <3>1. SUFFICES ASSUME NEW k \in 4..15, NEW i \in 1..Len(Statements[k]),
                          k <= L + 1 \/ (k = L + 1 + 1 /\ i < 1)
                   PROVE  Effect(Statements[k][i])
      BY DEF Built
    <3> k \in 1..15
      OBVIOUS
    <3>2. i \in 1..14
      BY At
    <3>3. CASE k <= L
      BY <2>1, <3>3 DEF Built
    <3>4. CASE k = L + 1
      <4>1. i < A
        BY <1>2, <1>3, <3>4
      <4> QED
        BY <2>1, <3>4, <4>1 DEF Built
    <3> QED
      BY <1>1, <3>1, <3>2, <3>3, <3>4
  <2>3. L = 2 => A = 3
    <3>1. L = 2 => L + 1 = 3
      OBVIOUS
    <3> QED
      BY <1>3, <3>1, Read3
  <2>4. Based(L + 1, 1)
    BY <1>1, <2>1, <2>3 DEF Based
  <2> QED
    BY <2>2, <2>4
<1>6. Built(L + 1, 1)' /\ Based(L + 1, 1)'
  BY <1>4, <1>5, SameSchema
<1>7. version' = {} \/ version' = {L + 1}
  BY <1>4
<1>8. TypeOK'
  <2>1. Cardinality(version') <= 1
    BY <1>7, FewVersions
  <2>2. L + 1 \in 0..15 /\ 0 \in 0..15 /\ 1 \in 1..20
    OBVIOUS
  <2>3. version' \subseteq 0..15
    BY <1>7, <2>2
  <2>4. CASE L + 1 = release /\ failing
    <3>1. Down
      BY <1>4, <2>4
    <3> QED
      BY <1>4, <2>1, <2>2, <2>3, <3>1 DEF TypeOK, Down, Phases
  <2>5. CASE ~(L + 1 = release /\ failing)
    <3>1. RunFrom(L + 1) /\ failing' = failing
      BY <1>4, <2>5
    <3>2. level' \in 0..15 /\ at' \in 1..20 /\ phase' \in Phases
      BY <2>2, <3>1 DEF RunFrom, Phases
    <3> QED
      BY <1>2, <1>4, <2>1, <2>3, <3>1, <3>2 DEF TypeOK
  <2> QED
    BY <2>4, <2>5
<1>9. VersionTrue'
  <2>1. ASSUME NEW v \in version'
        PROVE  version' = {v} /\ v <= release' /\ Built(v, 1)' /\ Based(v, 1)'
    <3>1. v = L + 1 /\ version' = {v} /\ v <= release'
      BY <1>2, <1>4, <1>7
    <3> QED
      BY <1>6, <3>1 DEF Built, Based
  <2>2. ~versioned' => version' = {}
    BY <1>4 DEF VersionTrue
  <2> QED
    BY <2>1, <2>2 DEF VersionTrue
<1>10. TablesMade'
  BY <1>4 DEF TablesMade
<1>11. Migrating'
  <2>1. SUFFICES ASSUME phase' = "migrating" PROVE Migrating'
    BY DEF Migrating
  <2>2. level' = L + 1 /\ at' = 1 /\ L + 1 < release /\ failing' = failing
    BY <1>2, <1>4, <2>1 DEF Down, RunFrom
  <2>3. L + 1 + 1 \in 1..15
    BY <1>2, <2>2
  <2>4. 1 \in 1..(Len(Statements[L + 1 + 1]) + 1)
    BY <2>3, First
  <2>5. Built(level, at)' /\ Based(level, at)'
    BY <1>6, <2>2 DEF Built, Based
  <2>6. failing \/ version = {L}
    BY <1>1 DEF UpdateVersion, Migrating
  <2>7. failing' \/ version' = {L + 1}
    BY <1>4, <2>2, <2>6
  <2>8. \A v \in version' : v = L + 1
    BY <1>7
  <2> QED
    BY <1>4, <2>2, <2>4, <2>5, <2>7, <2>8 DEF Migrating
<1>12. Starts'
  <2>1. CASE L + 1 = release /\ failing
    BY <1>4, <2>1 DEF Down, Starts
  <2>2. CASE L + 1 = release /\ ~failing
    <3>1. version = {L}
      BY <1>1, <2>2 DEF UpdateVersion, Migrating
    <3>2. version' = {L + 1}
      BY <1>4, <3>1
    <3> QED
      BY <1>2, <1>4, <2>2, <3>2 DEF RunFrom, Starts
  <2>3. CASE L + 1 < release
    BY <1>2, <1>4, <2>3 DEF RunFrom, Starts
  <2> QED
    BY <1>2, <2>1, <2>2, <2>3
<1> QED
  BY <1>8, <1>9, <1>10, <1>11, <1>12

\* Writing rows leaves the schema alone.
LEMMA WriteStep == ASSUME NEW t \in Tables PROVE SchemaInv /\ Write(t) => SchemaInv'
<1> SUFFICES ASSUME SchemaInv, Write(t) PROVE SchemaInv'
  OBVIOUS
<1> USE DEF SchemaInv
<1>1. TypeOK'
  BY DEF TypeOK, Write, db, process
<1>2. VersionTrue' /\ TablesMade'
  BY SameDatabase DEF Write
<1>3. Migrating' /\ Starts'
  BY DEF Migrating, Starts, Write, db, process
<1> QED
  BY <1>1, <1>2, <1>3

\* The bot is stopped.
LEMMA StopStep == SchemaInv /\ Stop => SchemaInv'
  BY DownStep DEF Stop, SchemaInv, TypeOK, db

\* A start is cut off.
LEMMA CrashStep == SchemaInv /\ Crash => SchemaInv'
<1> SUFFICES ASSUME SchemaInv, Crash PROVE SchemaInv'
  OBVIOUS
<1>1. crashes' \in 0..MaxCrashes
  BY MigrationsAssumption DEF SchemaInv, Crash, TypeOK
<1>2. data' \subseteq Tables /\ Down /\ UNCHANGED <<db, release>>
  BY DEF SchemaInv, Crash, TypeOK
<1> QED
  BY <1>1, <1>2, DownStep

\* A later release is installed.
LEMMA UpgradeStep == SchemaInv /\ Upgrade => SchemaInv'
<1> SUFFICES ASSUME SchemaInv, Upgrade PROVE SchemaInv'
  OBVIOUS
<1> USE DEF SchemaInv
<1>1. release \in 1..15 /\ release' \in Releases /\ release' \in 1..15 /\ release' > release
  BY MigrationsAssumption DEF Upgrade, TypeOK
<1>2. TypeOK'
  BY <1>1 DEF TypeOK, Upgrade, db, process
<1>3. VersionTrue'
  <2>1. ASSUME NEW v \in version'
        PROVE  version' = {v} /\ v <= release' /\ Built(v, 1)' /\ Based(v, 1)'
    <3>1. v \in version /\ v \in 0..15
      BY DEF Upgrade, db, TypeOK
    <3>2. version = {v} /\ v <= release /\ Built(v, 1) /\ Based(v, 1)
      BY <3>1 DEF VersionTrue
    <3>3. Built(v, 1)' /\ Based(v, 1)'
      BY <3>2, SameSchema DEF Upgrade, db
    <3> QED
      BY <1>1, <3>1, <3>2, <3>3 DEF Upgrade, db
  <2> QED
    BY <2>1 DEF VersionTrue, Upgrade, db
<1>4. TablesMade'
  BY <1>1 DEF TablesMade, Upgrade, db
<1>5. Migrating' /\ Starts'
  BY DEF Migrating, Starts, Upgrade, db, process
<1> QED
  BY <1>2, <1>3, <1>4, <1>5

\* Nothing changes.
LEMMA IdleStep == SchemaInv /\ UNCHANGED vars => SchemaInv'
<1> SUFFICES ASSUME SchemaInv, UNCHANGED vars PROVE SchemaInv'
  OBVIOUS
<1> USE DEF SchemaInv
<1>1. TypeOK'
  BY DEF TypeOK, vars
<1>2. VersionTrue' /\ TablesMade'
  BY SameDatabase DEF vars, db
<1>3. Migrating'
  <2>1. SUFFICES ASSUME phase = "migrating" PROVE Migrating'
    BY DEF Migrating, vars
  <2>2. Built(level, at)' /\ Based(level, at)'
    BY <2>1 DEF Migrating, vars, Built, Based, Effect
  <2> QED
    BY <2>1, <2>2 DEF Migrating, vars
<1>4. Starts'
  BY DEF Starts, vars
<1> QED
  BY <1>1, <1>2, <1>3, <1>4

\* The invariant holds in every state.
THEOREM SchemaAlways == Spec => []SchemaInv
<1>1. SchemaInv /\ [Next]_vars => SchemaInv'
  BY SelectVersionStep, SelectRaisesStep, CreateVersionTableStep, InsertVersionStep,
     ExecuteStep, ExecuteRaisesStep, UpdateVersionStep, WriteStep, StopStep, CrashStep,
     UpgradeStep, IdleStep DEF Next, Starting
<1> QED
  BY InitSchema, <1>1, PTL DEF Spec

-----------------------------------------------------------------------------
(* What it gives.                                                          *)

\* The version has one row, the migration level and the statement stay in range, and
\* only tables and parts some migration makes exist.
THEOREM TypeCorrect == Spec => []TypeOK
<1>1. SchemaInv => TypeOK
  BY DEF SchemaInv
<1> QED
  BY SchemaAlways, <1>1, PTL

\* What a statement made is there in a complete schema.
LEMMA MadeIsThere ==
  ASSUME Built(15, 1), NEW k \in 4..15, NEW i \in 1..Len(Statements[k]),
         Statements[k][i].op \in Makes
  PROVE  Statements[k][i].table \in tables
<1> k <= 15
  OBVIOUS
<1>1. Effect(Statements[k][i])
  BY DEF Built
<1> QED
  BY <1>1 DEF Effect

\* What a statement added is there in a complete schema.
LEMMA AddedIsThere ==
  ASSUME Built(15, 1), NEW k \in 4..15, NEW i \in 1..Len(Statements[k]),
         Statements[k][i].op = "add"
  PROVE  <<Statements[k][i].table, Statements[k][i].part>> \in parts
<1> k <= 15
  OBVIOUS
<1>1. Effect(Statements[k][i])
  BY DEF Built
<1> QED
  BY <1>1 DEF Effect

\* All tables and columns that are used are there in a complete schema.
LEMMA SchemaComplete ==
  ASSUME Built(15, 1), Based(15, 1)
  PROVE  UsedTables \subseteq tables /\ UsedColumns \subseteq parts
<1>1. "messages" \in tables
  BY DEF Based
<1>2. "encrypted_events" \in tables
  <2>1. Statements[4][1] = Create("encrypted_events") /\ 1 \in 1..Len(Statements[4])
    BY Read4
  <2>2. /\ Create("encrypted_events").op \in Makes
        /\ Create("encrypted_events").table = "encrypted_events"
    BY DEF Create, Makes
  <2> QED
    BY <2>1, <2>2, MadeIsThere
<1>3. "Users" \in tables
  <2>1. Statements[6][6] = Ensure("Users") /\ 6 \in 1..Len(Statements[6])
    BY Read6
  <2>2. Ensure("Users").op \in Makes /\ Ensure("Users").table = "Users"
    BY DEF Ensure, Makes
  <2> QED
    BY <2>1, <2>2, MadeIsThere
<1>4. "Staff" \in tables
  <2>1. Statements[6][7] = Ensure("Staff") /\ 7 \in 1..Len(Statements[6])
    BY Read6
  <2>2. Ensure("Staff").op \in Makes /\ Ensure("Staff").table = "Staff"
    BY DEF Ensure, Makes
  <2> QED
    BY <2>1, <2>2, MadeIsThere
<1>5. "Tickets" \in tables
  <2>1. Statements[6][8] = Ensure("Tickets") /\ 8 \in 1..Len(Statements[6])
    BY Read6
  <2>2. Ensure("Tickets").op \in Makes /\ Ensure("Tickets").table = "Tickets"
    BY DEF Ensure, Makes
  <2> QED
    BY <2>1, <2>2, MadeIsThere
<1>6. "TicketsStaffRelation" \in tables
  <2>1. Statements[6][9] = Ensure("TicketsStaffRelation") /\ 9 \in 1..Len(Statements[6])
    BY Read6
  <2>2. /\ Ensure("TicketsStaffRelation").op \in Makes
        /\ Ensure("TicketsStaffRelation").table = "TicketsStaffRelation"
    BY DEF Ensure, Makes
  <2> QED
    BY <2>1, <2>2, MadeIsThere
<1>7. "Chats" \in tables
  <2>1. Statements[8][3] = Ensure("Chats") /\ 3 \in 1..Len(Statements[8])
    BY Read8
  <2>2. Ensure("Chats").op \in Makes /\ Ensure("Chats").table = "Chats"
    BY DEF Ensure, Makes
  <2> QED
    BY <2>1, <2>2, MadeIsThere
<1>8. "ChatsStaffRelation" \in tables
  <2>1. Statements[8][4] = Ensure("ChatsStaffRelation") /\ 4 \in 1..Len(Statements[8])
    BY Read8
  <2>2. /\ Ensure("ChatsStaffRelation").op \in Makes
        /\ Ensure("ChatsStaffRelation").table = "ChatsStaffRelation"
    BY DEF Ensure, Makes
  <2> QED
    BY <2>1, <2>2, MadeIsThere
<1>9. "IncomingEvents" \in tables
  <2>1. Statements[9][1] = Ensure("IncomingEvents") /\ 1 \in 1..Len(Statements[9])
    BY Read9
  <2>2. /\ Ensure("IncomingEvents").op \in Makes
        /\ Ensure("IncomingEvents").table = "IncomingEvents"
    BY DEF Ensure, Makes
  <2> QED
    BY <2>1, <2>2, MadeIsThere
<1>10. "EventPairs" \in tables
  <2>1. Statements[10][1] = Ensure("EventPairs") /\ 1 \in 1..Len(Statements[10])
    BY Read10
  <2>2. Ensure("EventPairs").op \in Makes /\ Ensure("EventPairs").table = "EventPairs"
    BY DEF Ensure, Makes
  <2> QED
    BY <2>1, <2>2, MadeIsThere
<1>11. "Support" \in tables
  <2>1. Statements[11][1] = Ensure("Support") /\ 1 \in 1..Len(Statements[11])
    BY Read11
  <2>2. Ensure("Support").op \in Makes /\ Ensure("Support").table = "Support"
    BY DEF Ensure, Makes
  <2> QED
    BY <2>1, <2>2, MadeIsThere
<1>12. "TicketsSupportRelation" \in tables
  <2>1. Statements[11][2] = Ensure("TicketsSupportRelation") /\ 2 \in 1..Len(Statements[11])
    BY Read11
  <2>2. /\ Ensure("TicketsSupportRelation").op \in Makes
        /\ Ensure("TicketsSupportRelation").table = "TicketsSupportRelation"
    BY DEF Ensure, Makes
  <2> QED
    BY <2>1, <2>2, MadeIsThere
<1>13. "TicketLabels" \in tables
  <2>1. Statements[13][1] = Ensure("TicketLabels") /\ 1 \in 1..Len(Statements[13])
    BY Read13
  <2>2. Ensure("TicketLabels").op \in Makes /\ Ensure("TicketLabels").table = "TicketLabels"
    BY DEF Ensure, Makes
  <2> QED
    BY <2>1, <2>2, MadeIsThere
<1>14. "TicketsTicketLabelsRelation" \in tables
  <2>1. Statements[13][2] = Ensure("TicketsTicketLabelsRelation") /\ 2 \in 1..Len(Statements[13])
    BY Read13
  <2>2. /\ Ensure("TicketsTicketLabelsRelation").op \in Makes
        /\ Ensure("TicketsTicketLabelsRelation").table = "TicketsTicketLabelsRelation"
    BY DEF Ensure, Makes
  <2> QED
    BY <2>1, <2>2, MadeIsThere
<1>15. "ChatsSupportRelation" \in tables
  <2>1. Statements[15][1] = Ensure("ChatsSupportRelation") /\ 1 \in 1..Len(Statements[15])
    BY Read15
  <2>2. /\ Ensure("ChatsSupportRelation").op \in Makes
        /\ Ensure("ChatsSupportRelation").table = "ChatsSupportRelation"
    BY DEF Ensure, Makes
  <2> QED
    BY <2>1, <2>2, MadeIsThere
<1>16. <<"encrypted_events", "user_id">> \in parts
  <2>1. Statements[5][1] = Add("encrypted_events", "user_id") /\ 1 \in 1..Len(Statements[5])
    BY Read5
  <2>2. /\ Statements[5][1].op = "add"
        /\ Statements[5][1].table = "encrypted_events"
        /\ Statements[5][1].part = "user_id"
    BY <2>1 DEF Add
  <2> QED
    BY <2>1, <2>2, AddedIsThere
<1>17. <<"Users", "current_ticket_id">> \in parts
  <2>1. Statements[7][1] = Add("Users", "current_ticket_id") /\ 1 \in 1..Len(Statements[7])
    BY Read7
  <2>2. /\ Statements[7][1].op = "add"
        /\ Statements[7][1].table = "Users"
        /\ Statements[7][1].part = "current_ticket_id"
    BY <2>1 DEF Add
  <2> QED
    BY <2>1, <2>2, AddedIsThere
<1>18. <<"Users", "current_chat_room_id">> \in parts
  <2>1. Statements[8][5] = Add("Users", "current_chat_room_id") /\ 5 \in 1..Len(Statements[8])
    BY Read8
  <2>2. /\ Statements[8][5].op = "add"
        /\ Statements[8][5].table = "Users"
        /\ Statements[8][5].part = "current_chat_room_id"
    BY <2>1 DEF Add
  <2> QED
    BY <2>1, <2>2, AddedIsThere
<1>19. <<"Tickets", "raised_at">> \in parts
  <2>1. Statements[12][1] = Add("Tickets", "raised_at") /\ 1 \in 1..Len(Statements[12])
    BY Read12
  <2>2. /\ Statements[12][1].op = "add"
        /\ Statements[12][1].table = "Tickets"
        /\ Statements[12][1].part = "raised_at"
    BY <2>1 DEF Add
  <2> QED
    BY <2>1, <2>2, AddedIsThere
<1>20. <<"Tickets", "closed_at">> \in parts
  <2>1. Statements[12][2] = Add("Tickets", "closed_at") /\ 2 \in 1..Len(Statements[12])
    BY Read12
  <2>2. /\ Statements[12][2].op = "add"
        /\ Statements[12][2].table = "Tickets"
        /\ Statements[12][2].part = "closed_at"
    BY <2>1 DEF Add
  <2> QED
    BY <2>1, <2>2, AddedIsThere
<1>21. <<"Chats", "created_at">> \in parts
  <2>1. Statements[14][1] = Add("Chats", "created_at") /\ 1 \in 1..Len(Statements[14])
    BY Read14
  <2>2. /\ Statements[14][1].op = "add"
        /\ Statements[14][1].table = "Chats"
        /\ Statements[14][1].part = "created_at"
    BY <2>1 DEF Add
  <2> QED
    BY <2>1, <2>2, AddedIsThere
<1>22. <<"Chats", "closed_at">> \in parts
  <2>1. Statements[14][2] = Add("Chats", "closed_at") /\ 2 \in 1..Len(Statements[14])
    BY Read14
  <2>2. /\ Statements[14][2].op = "add"
        /\ Statements[14][2].table = "Chats"
        /\ Statements[14][2].part = "closed_at"
    BY <2>1 DEF Add
  <2> QED
    BY <2>1, <2>2, AddedIsThere
<1>23. <<"Chats", "status">> \in parts
  <2>1. Statements[14][3] = Add("Chats", "status") /\ 3 \in 1..Len(Statements[14])
    BY Read14
  <2>2. /\ Statements[14][3].op = "add"
        /\ Statements[14][3].table = "Chats"
        /\ Statements[14][3].part = "status"
    BY <2>1 DEF Add
  <2> QED
    BY <2>1, <2>2, AddedIsThere
<1>24. UsedTables \subseteq tables
  BY <1>1, <1>2, <1>3, <1>4, <1>5, <1>6, <1>7, <1>8, <1>9, <1>10, <1>11, <1>12,
     <1>13, <1>14, <1>15 DEF UsedTables
<1>25. UsedColumns \subseteq parts
  BY <1>16, <1>17, <1>18, <1>19, <1>20, <1>21, <1>22, <1>23 DEF UsedColumns
<1> QED
  BY <1>24, <1>25

\* ServesWholeSchema holds: a bot of the last release that serves has a version of 15,
\* and what the fifteen migrations made is still there.
THEOREM WholeSchemaServed == Spec => []ServesWholeSchema
<1>1. SchemaInv => ServesWholeSchema
  <2> SUFFICES ASSUME SchemaInv, phase = "serving", release = 15
               PROVE  UsedTables \subseteq tables /\ UsedColumns \subseteq parts
    BY DEF ServesWholeSchema
  <2>1. PICK v \in version : v >= 15
    BY DEF SchemaInv, Starts
  <2>2. v = 15 /\ Built(v, 1) /\ Based(v, 1)
    BY <2>1 DEF SchemaInv, TypeOK, VersionTrue
  <2> QED
    BY <2>2, SchemaComplete
<1> QED
  BY SchemaAlways, <1>1, PTL

-----------------------------------------------------------------------------
(* Tables with data.                                                       *)

\* Data of a watched table survives only where messages is not one of them, or no bot
\* older than the third version is installed: the second and the third migration drop
\* messages and whatever the bots before them stored there.
MessagesLater == "messages" \in Watched => Releases \subseteq 3..15

\* The first table written to is of the release that serves.
LEMMA KeptAsWritten ==
  ASSUME MessagesLater, SchemaInv, DataKept, NEW t \in Tables, Write(t)
  PROVE  DataKept'
<1>1. PICK v \in version : v >= release
  BY DEF Write, SchemaInv, Starts
<1>2. /\ v \in 1..15 /\ version = {v} /\ version' = version
      /\ release \in Releases /\ release \in 1..15
  BY <1>1, MigrationsAssumption DEF SchemaInv, TypeOK, VersionTrue, Write, db
<1>3. PICK j \in 1..release : MadeBy(j, t)
  BY DEF Write, SchemaInv, TablesMade
<1>4. j \in 1..15 /\ j <= v
  BY <1>1, <1>2
<1>5. v >= 3
  <2>1. CASE "messages" \in Watched
    BY <1>1, <1>2, <2>1 DEF MessagesLater
  <2>2. CASE "messages" \notin Watched
    <3>1. PICK i \in 1..Len(Statements[j]) : Statements[j][i].table = t
      BY <1>3 DEF MadeBy
    <3>2. Sane(Statements[j][i], j, i)
      BY <1>4, At
    <3>3. t # "messages"
      BY <2>2 DEF Write
    <3>4. j > 3
      BY <1>4, <3>1, <3>2, <3>3 DEF Sane
    <3> QED
      BY <1>2, <1>4, <3>4
  <2> QED
    BY <2>1, <2>2
<1>6. ASSUME NEW u \in data', NEW k \in (v + 1)..15
      PROVE  ~DroppedBy(k, u)
  <2>1. k \in 4..15 /\ j < k
    BY <1>2, <1>4, <1>5, <1>6
  <2>2. CASE u = t
    BY <1>3, <1>4, <2>1, <2>2, NotDroppedLater
  <2>3. CASE u \in data
    BY <1>2, <2>3 DEF DataKept
  <2> QED
    BY <1>6, <2>2, <2>3 DEF Write
<1> QED
  BY <1>2, <1>5, <1>6 DEF DataKept

\* A statement that is executed drops no table with data.
LEMMA DropsNoData ==
  ASSUME SchemaInv, DataKept, Execute
  PROVE  data' = data
<1>1. /\ level + 1 \in 1..15 /\ at \in 1..Len(Statements[level + 1]) /\ level \in 0..15
      /\ Sane(Statement, level + 1, at) /\ Apply(Statement)
  BY Current DEF Execute, SchemaInv, TypeOK
<1>2. Statement.op \in Drops \cup Makes \cup {"add"}
  BY <1>1 DEF Sane
<1>3. SUFFICES ASSUME Statement.op \in Drops, data' = data \ {Statement.table},
                      Statement.table \in data
               PROVE  FALSE
  BY <1>1, <1>2, Applied
<1>4. PICK v \in version : v >= 3 /\ \A t \in data : \A k \in (v + 1)..15 : ~DroppedBy(k, t)
  BY <1>3 DEF DataKept
<1>5. v = level
  BY <1>4, GetsNowhere
<1>6. level + 1 \in (v + 1)..15
  BY <1>1, <1>5
<1>7. DroppedBy(level + 1, Statement.table)
  BY <1>1, <1>3 DEF DroppedBy, Statement
<1> QED
  BY <1>3, <1>4, <1>6, <1>7

\* The version never goes back from a table with data.
LEMMA KeptAsUpdated ==
  ASSUME SchemaInv, DataKept, UpdateVersion
  PROVE  DataKept'
<1>1. data' = data /\ version' = (IF version = {} THEN {} ELSE {level + 1})
  BY DEF UpdateVersion
<1>2. SUFFICES ASSUME data # {} PROVE DataKept'
  BY <1>1 DEF DataKept
<1>3. PICK v \in version : v >= 3 /\ \A t \in data : \A k \in (v + 1)..15 : ~DroppedBy(k, t)
  BY <1>2 DEF DataKept
<1>4. v \in 0..15 /\ level \in 0..15
  BY DEF SchemaInv, TypeOK
<1>5. v = level
  <2>1. SUFFICES ASSUME level = 0, at = 1 PROVE FALSE
    BY <1>3 DEF SchemaInv, Migrating, UpdateVersion
  <2>2. level + 1 = 1 /\ Len(Statements[1]) = 1
    BY <2>1, Read1
  <2>3. at > Len(Statements[1])
    BY <2>2 DEF UpdateVersion, Migrated
  <2> QED
    BY <2>1, <2>2, <2>3
<1>6. version' = {level + 1} /\ level + 1 >= 3
  BY <1>1, <1>3, <1>4, <1>5
<1>7. ASSUME NEW t \in data', NEW k \in (level + 1 + 1)..15
      PROVE  ~DroppedBy(k, t)
  <2>1. k \in (v + 1)..15
    BY <1>4, <1>5, <1>7
  <2> QED
    BY <1>1, <1>3, <1>7, <2>1
<1> QED
  BY <1>6, <1>7 DEF DataKept

\* The steps that leave the data and the version alone.
LEMMA KeptOtherwise ==
  ASSUME DataKept, UNCHANGED <<version, data>>
  PROVE  DataKept'
  BY DEF DataKept

\* An inserted version is the first: nothing was written without one.
LEMMA KeptAsInserted ==
  ASSUME SchemaInv, DataKept, InsertVersion
  PROVE  DataKept'
<1>1. version = {} /\ data' = data
  BY DEF SchemaInv, Starts, InsertVersion
<1> QED
  BY <1>1 DEF DataKept

\* The version stays beyond the migrations that drop a table with data.
THEOREM DataKeptAlways ==
  ASSUME MessagesLater PROVE Spec => []DataKept
<1>1. Init => DataKept
  BY DEF Init, DataKept
<1>2. SchemaInv /\ DataKept /\ [Next]_vars => DataKept'
  <2> SUFFICES ASSUME SchemaInv, DataKept, [Next]_vars PROVE DataKept'
    OBVIOUS
  <2>1. CASE Execute
    <3>1. UNCHANGED <<version, data>>
      BY <2>1, DropsNoData DEF Execute
    <3> QED
      BY <3>1, KeptOtherwise
  <2>2. CASE UpdateVersion
    BY <2>2, KeptAsUpdated
  <2>3. CASE InsertVersion
    BY <2>3, KeptAsInserted
  <2>4. CASE \E t \in Tables : Write(t)
    BY <2>4, KeptAsWritten
  <2>5. CASE SelectVersion \/ SelectRaises \/ CreateVersionTable \/ ExecuteRaises
    BY <2>5, KeptOtherwise
       DEF SelectVersion, SelectRaises, CreateVersionTable, ExecuteRaises, db
  <2>6. CASE Stop \/ Crash \/ Upgrade \/ UNCHANGED vars
    BY <2>6, KeptOtherwise DEF Stop, Crash, Upgrade, vars, db
  <2> QED
    BY <2>1, <2>2, <2>3, <2>4, <2>5, <2>6 DEF Next, Starting
<1> QED
  BY SchemaAlways, <1>1, <1>2, PTL DEF Spec

\* DataSurvives holds: no start drops a table the bot has written to.
THEOREM DataAlwaysSurvives ==
  ASSUME MessagesLater PROVE Spec => DataSurvives
<1>1. SchemaInv /\ DataKept /\ [Next]_vars => [data \subseteq data']_vars
  <2> SUFFICES ASSUME SchemaInv, DataKept, Next PROVE data \subseteq data'
    OBVIOUS
  <2>1. CASE Execute
    BY <2>1, DropsNoData
  <2>2. CASE \E t \in Tables : Write(t)
    BY <2>2 DEF Write
  <2>3. CASE \/ SelectVersion \/ SelectRaises \/ CreateVersionTable
             \/ InsertVersion \/ ExecuteRaises \/ UpdateVersion
    BY <2>3 DEF SelectVersion, SelectRaises, CreateVersionTable, InsertVersion,
                ExecuteRaises, UpdateVersion
  <2>4. CASE Stop \/ Crash \/ Upgrade
    BY <2>4 DEF Stop, Crash, Upgrade
  <2> QED
    BY <2>1, <2>2, <2>3, <2>4 DEF Next, Starting
<1> QED
  BY SchemaAlways, DataKeptAlways, <1>1, PTL DEF Spec, DataSurvives
=============================================================================
