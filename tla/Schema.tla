------------------------------- MODULE Schema -------------------------------
(***************************************************************************)
(* The database schema under its three Alembic revisions.  A run of        *)
(* `alembic upgrade` or `alembic downgrade` reads the revision the         *)
(* database is at and executes the statements of the revisions in between  *)
(* in one transaction (env.py); PostgreSQL rolls all of them back when one *)
(* fails.  Two runs may overlap, and the backend goes on writing rows.     *)
(*                                                                         *)
(* The shape of a table is a set of columns, with the length of a VARCHAR  *)
(* (0 for other types), CHECKs, foreign keys and indexes.  Primary keys,   *)
(* UNIQUE, ON DELETE and other types are left out: no revision changes     *)
(* them, and no handler deletes a row that others refer to.                *)
(***************************************************************************)
EXTENDS Integers, Sequences, SequencesExt, FiniteSetsExt

CONSTANTS
  Run,       \* the operators that run alembic
  Written,   \* what the handlers write while alembic runs
  Goals      \* the revisions alembic is asked for

Version == 0..3                           \* base, 0001, 0002, 0003
ASSUME SchemaGoals == Goals \subseteq Version
\* A word is a value in a column of a table.
ASSUME WrittenWords ==
  \A w \in Written : w = [on |-> w.on, column |-> w.column, value |-> w.value]

VARIABLES
  db,        \* the committed database: tables, words (values rows hold), version
  run        \* run[r]: the transaction of one alembic process

schemaVars == <<db, run>>

---------------------------------------------------------------------------
(* Tables and statements                                                   *)

Column(c, w) == [is |-> "column", name |-> c, width |-> w]
Reference(c, to) == [is |-> "fk", name |-> c, to |-> to]
Index(n) == [is |-> "index", name |-> n]
Check(c, allowed) == [is |-> "check", name |-> c, allows |-> allowed]

\* Plain columns, and VARCHARs with their lengths.
Columns(plain, text) ==
  {Column(c, 0) : c \in plain} \cup {Column(c, text[c]) : c \in DOMAIN text}
None == [c \in {} |-> ""]

Create(t, plain, text, keys, allowed) ==
  [do |-> "create", on |-> t,
   shape |-> Columns(plain, text) \cup {Reference(c, keys[c]) : c \in DOMAIN keys}
               \cup {Check(c, allowed[c]) : c \in DOMAIN allowed}]
\* "required": NOT NULL without a default, which existing rows refuse;
\* "unchecked": a CHECK that is NOT VALID, which looks at no existing row.
Add(t, obj, how) == [do |-> "add", on |-> t, shape |-> {obj}, how |-> how]
Drop(is, t, n) == [do |-> "drop", on |-> t, is |-> is, name |-> n]
DropTable(t, cascade) == [do |-> "droptable", on |-> t, cascade |-> cascade]
Stamp(from, to) ==
  [do |-> "stamp", on |-> "alembic_version", from |-> from, to |-> to]

Exists(shape, is, n) == \E o \in shape : o.is = is /\ o.name = n
Targets(shape) == {o.to : o \in {p \in shape : p.is = "fk"}}
Allowed(word, check) == word.column = check.name => word.value \in check.allows

\* PostgreSQL refuses the statement s in the database d.
Refused(d, s) ==
  LET there == s.on \in DOMAIN d.tables
      shape == d.tables[s.on]
  IN  CASE s.do = "create" ->
             there \/ ~(Targets(s.shape) \subseteq DOMAIN d.tables \cup {s.on})
        [] s.do = "add" ->
             \/ ~there \/ ~(Targets(s.shape) \subseteq DOMAIN d.tables)
             \/ \E o \in s.shape : Exists(shape, o.is, o.name)
             \/ \E o \in s.shape, w \in d.words :
                  /\ o.is = "check" /\ s.how # "unchecked"
                  /\ w.on = s.on /\ ~Allowed(w, o)
             \/ /\ s.how = "required"
                /\ \E w \in d.words : w.on = s.on
        [] s.do = "drop" -> ~there \/ ~Exists(shape, s.is, s.name)
        [] s.do = "droptable" ->
             /\ ~s.cascade
             /\ \/ ~there
                \/ \E t \in DOMAIN d.tables \ {s.on} : s.on \in Targets(d.tables[t])
        [] s.do = "stamp" -> d.version # s.from

\* The shape of a table after s.  A foreign key or a CHECK on a column goes when
\* the column goes.
Altered(shape, s) ==
  IF s.do = "add" THEN shape \cup s.shape
  ELSE {o \in shape : o.name = s.name =>
                       /\ o.is # s.is
                       /\ s.is = "column" => o.is = "index"}

\* What s makes of the tables when it is not refused.
Effect(tables, s) ==
  CASE s.do = "create" ->
         [t \in DOMAIN tables \cup {s.on} |->
            IF t \in DOMAIN tables THEN tables[t] ELSE s.shape]
    [] s.do \in {"add", "drop"} -> [tables EXCEPT ![s.on] = Altered(@, s)]
    [] s.do = "droptable" ->
         [t \in DOMAIN tables \ {s.on} |->
            {o \in tables[t] : ~(o.is = "fk" /\ o.to = s.on)}]
    [] s.do = "stamp" -> tables

---------------------------------------------------------------------------
(* The revisions                                                           *)

TripKey == [trip_id |-> "trips"]
UserKey == [user_id |-> "users"]
TripUserKeys == [trip_id |-> "trips", user_id |-> "users"]
PlainRoles == {"owner", "member"}
AllRoles == PlainRoles \cup {"driver", "navigator", "dj", "photographer", "treasurer"}

Initial_Trips == <<
  Create("users", {"id", "created_at"},
         [phone |-> 20, display_name |-> 80, avatar_url |-> 500], None, None),
  Create("trips", {"id", "owner_id", "start_at", "end_at", "created_at"},
         [name |-> 120, status |-> 20, join_code |-> 6], [owner_id |-> "users"],
         [status |-> {"planned", "active", "ended", "cancelled"}]),
  Add("trips", Index("ix_trips_owner_id"), "plain"),
  Create("trip_members", {"trip_id", "user_id", "joined_at", "left_at", "ghost_mode"},
         [role |-> 10, color |-> 9], TripUserKeys, [role |-> PlainRoles]),
  Add("trip_members", Index("ix_trip_members_user_id"), "plain") >>

Initial_Rest == <<
  Create("waypoints", {"id", "trip_id", "position", "arrival_radius_m", "created_at"},
         [name |-> 120], TripKey, None),
  Add("waypoints", Column("geom", 0), "required"),
  Add("waypoints", Index("ix_waypoints_geom"), "plain"),
  Add("waypoints", Index("ix_waypoints_trip_id"), "plain"),
  Create("messages", {"id", "trip_id", "user_id", "body", "sent_at"}, [kind |-> 20],
         TripUserKeys, [kind |-> {"text", "system", "arrival", "leave", "join"}]),
  Add("messages", Index("ix_messages_trip_sent"), "plain"),
  Create("devices", {"id", "user_id", "last_seen_at"},
         [fcm_token |-> 500, platform |-> 10], UserKey, None),
  Create("locations", {"user_id", "trip_id", "geom", "heading", "speed_mps",
                       "battery_pct", "recorded_at"}, None, TripUserKeys, None),
  Add("locations", Index("ix_locations_trip_time"), "plain"),
  Add("locations", Index("ix_locations_geom"), "plain") >>

Advanced_Members == <<
  Add("trip_members", Column("visibility_scope", 0), "plain"),
  Add("trip_members", Column("share_until", 0), "plain"),
  Add("trip_members", Column("is_ready", 0), "plain"),
  Add("trip_members", Column("vehicle_label", 40), "plain"),
  Add("trip_members", Column("subgroup_id", 0), "plain") >>

\* Mutant: the CHECK is left as it was.
Advanced_SameRoles == << >>

Advanced_Roles == <<
  Drop("check", "trip_members", "role"),
  Add("trip_members", Check("role", AllRoles), "plain") >>

Advanced_Trips == <<
  Add("trips", Column("template", 40), "plain"),
  Add("trips", Column("cover_color", 9), "plain") >>

Advanced_Safety == <<
  Create("safety_alerts", {"id", "trip_id", "user_id", "details", "created_at",
                           "acknowledged_at"}, [kind |-> 20, severity |-> 20],
         TripUserKeys,
         [kind |-> {"sos", "crash", "stranded", "speed", "fatigue"},
          severity |-> {"info", "warning", "critical"}]),
  Add("safety_alerts", Index("ix_safety_alerts_trip_created"), "plain"),
  Create("audit_logs", {"id", "subject_user_id", "actor_user_id", "trip_id",
                        "details", "created_at"}, [action |-> 40],
         [subject_user_id |-> "users", actor_user_id |-> "users", trip_id |-> "trips"],
         None),
  Add("audit_logs", Index("ix_audit_logs_subject_created"), "plain"),
  Create("subgroups", {"id", "trip_id", "created_at"}, [name |-> 60, color |-> 9],
         TripKey, None),
  Add("subgroups", Index("ix_subgroups_trip"), "plain"),
  Add("trip_members", Reference("subgroup_id", "subgroups"), "plain") >>

Advanced_Money == <<
  Create("expenses", {"id", "trip_id", "paid_by", "amount_cents", "created_at"},
         [description |-> 200, currency |-> 3, category |-> 20],
         [trip_id |-> "trips", paid_by |-> "users"], None),
  Add("expenses", Index("ix_expenses_trip"), "plain"),
  Create("expense_shares", {"expense_id", "user_id", "share_cents"}, None,
         [expense_id |-> "expenses", user_id |-> "users"], None),
  Create("subscriptions", {"id", "user_id", "monthly_amount_cents", "started_at",
                           "renewed_at", "cancelled_at"},
         [provider |-> 20, plan |-> 20, status |-> 20, currency |-> 3,
          paywall_source |-> 40], UserKey,
         [provider |-> {"razorpay", "stripe"}, plan |-> {"free", "pro", "family"},
          status |-> {"trialing", "active", "past_due", "cancelled", "expired"}]),
  Add("subscriptions", Index("ix_subscriptions_user"), "plain"),
  Create("reminders", {"id", "trip_id", "body", "fire_at", "created_at", "fired_at"},
         [title |-> 120, kind |-> 20], TripKey, None),
  Add("reminders", Index("ix_reminders_fire_at"), "plain") >>

Advanced_Telemetry == <<
  Create("events", {"user_id", "name", "properties", "created_at", "session_id",
                    "trip_id"}, None, TripUserKeys, None),
  Add("events", Index("ix_events_name_time"), "plain"),
  Add("events", Index("ix_events_user_time"), "plain"),
  Create("maps_provider_calls", {"provider", "endpoint", "duration_ms", "status",
                                 "created_at"}, None, None, None),
  Add("maps_provider_calls", Index("ix_maps_calls_provider_time"), "plain") >>

IsAdmin == << Add("users", Column("is_admin", 0), "plain") >>

InitialDown == <<
  DropTable("locations", TRUE), DropTable("devices", FALSE),
  Drop("index", "messages", "ix_messages_trip_sent"), DropTable("messages", FALSE),
  Drop("index", "waypoints", "ix_waypoints_trip_id"),
  Drop("index", "waypoints", "ix_waypoints_geom"), DropTable("waypoints", FALSE),
  Drop("index", "trip_members", "ix_trip_members_user_id"),
  DropTable("trip_members", FALSE),
  Drop("index", "trips", "ix_trips_owner_id"), DropTable("trips", FALSE),
  DropTable("users", FALSE) >>

AdvancedDown_Money == <<
  DropTable("maps_provider_calls", TRUE), DropTable("events", TRUE),
  Drop("index", "reminders", "ix_reminders_fire_at"), DropTable("reminders", FALSE),
  Drop("index", "subscriptions", "ix_subscriptions_user"),
  DropTable("subscriptions", FALSE), DropTable("expense_shares", FALSE),
  Drop("index", "expenses", "ix_expenses_trip"), DropTable("expenses", FALSE) >>

\* Mutant: the table goes before the key that refers to it.
AdvancedDown_SubgroupsFirst == <<
  Drop("index", "subgroups", "ix_subgroups_trip"), DropTable("subgroups", FALSE),
  Drop("fk", "trip_members", "subgroup_id") >>

AdvancedDown_Subgroups == <<
  Drop("fk", "trip_members", "subgroup_id"),
  Drop("index", "subgroups", "ix_subgroups_trip"), DropTable("subgroups", FALSE) >>

AdvancedDown_Safety == <<
  Drop("index", "audit_logs", "ix_audit_logs_subject_created"),
  DropTable("audit_logs", FALSE),
  Drop("index", "safety_alerts", "ix_safety_alerts_trip_created"),
  DropTable("safety_alerts", FALSE) >>

\* Mutant: the old CHECK comes back without a look at the rows.
AdvancedDown_RolesUnchecked == <<
  Drop("column", "trips", "cover_color"), Drop("column", "trips", "template"),
  Drop("check", "trip_members", "role"),
  Add("trip_members", Check("role", PlainRoles), "unchecked") >>

AdvancedDown_Roles == <<
  Drop("column", "trips", "cover_color"), Drop("column", "trips", "template"),
  Drop("check", "trip_members", "role"),
  Add("trip_members", Check("role", PlainRoles), "plain") >>

\* Mutant: one column is forgotten.
AdvancedDown_MembersButOne == <<
  Drop("column", "trip_members", "subgroup_id"),
  Drop("column", "trip_members", "is_ready"),
  Drop("column", "trip_members", "share_until"),
  Drop("column", "trip_members", "visibility_scope") >>

AdvancedDown_Members == <<
  Drop("column", "trip_members", "subgroup_id"),
  Drop("column", "trip_members", "vehicle_label"),
  Drop("column", "trip_members", "is_ready"),
  Drop("column", "trip_members", "share_until"),
  Drop("column", "trip_members", "visibility_scope") >>

IsAdminDown == << Drop("column", "users", "is_admin") >>

Up(v) ==   \* from v - 1 to v
  CASE v = 1 -> Initial_Trips \o Initial_Rest
    [] v = 2 -> Advanced_Members \o Advanced_Roles \o Advanced_Trips
                  \o Advanced_Safety \o Advanced_Money \o Advanced_Telemetry
    [] v = 3 -> IsAdmin
Down(v) == \* from v to v - 1
  CASE v = 1 -> InitialDown
    [] v = 2 -> AdvancedDown_Money \o AdvancedDown_Subgroups \o AdvancedDown_Safety
                  \o AdvancedDown_Roles \o AdvancedDown_Members
    [] v = 3 -> IsAdminDown

\* What alembic does to get from one revision to another: every revision in
\* between, each followed by a guarded update of alembic_version.
UpBy(v) == Append(Up(v), Stamp(v - 1, v))
DownBy(v) == Append(Down(v), Stamp(v, v - 1))
Script == [p \in Version \X Version |->
  LET up == [i \in 1..(p[2] - p[1]) |-> UpBy(p[1] + i)]
      down == [i \in 1..(p[1] - p[2]) |-> DownBy(p[1] - i + 1)]
  IN  IF p[1] < p[2] THEN FlattenSeq(up) ELSE FlattenSeq(down)]

\* The tables each revision is meant to leave.
Revision == [v \in Version |-> FoldLeft(Effect, None, Script[<<0, v>>])]

---------------------------------------------------------------------------
(* What the backend expects of the schema it runs on                       *)

\* Columns of the table t, each with the length the backend counts on.
In(t, plain, text) == {[on |-> t, name |-> o.name, width |-> o.width] :
                         o \in Columns(plain, text)}

OrmUser == In("users", {"id", "is_admin", "created_at"},
                   [phone |-> 20, display_name |-> 80, avatar_url |-> 500])
OrmTrip ==
  In("trips", {"id", "owner_id", "start_at", "end_at", "created_at"},
          [name |-> 120, status |-> 20, join_code |-> 6, template |-> 40,
           cover_color |-> 9])
OrmTripMember ==
  In("trip_members", {"trip_id", "user_id", "joined_at", "left_at", "ghost_mode",
                           "is_ready", "visibility_scope", "share_until", "subgroup_id"},
          [role |-> 20, color |-> 9, vehicle_label |-> 40])
OrmWaypoint ==
  In("waypoints", {"id", "trip_id", "position", "geom", "arrival_radius_m",
                        "created_at"}, [name |-> 120])
OrmMessage ==
  In("messages", {"id", "trip_id", "user_id", "body", "sent_at"}, [kind |-> 20])
OrmDevice ==
  In("devices", {"id", "user_id", "last_seen_at"},
          [fcm_token |-> 500, platform |-> 10])
OrmSafety ==
  In("safety_alerts", {"id", "trip_id", "user_id", "details", "created_at",
                            "acknowledged_at"}, [kind |-> 20, severity |-> 20])
OrmAudit ==
  In("audit_logs", {"id", "subject_user_id", "actor_user_id", "trip_id", "details",
                         "created_at"}, [action |-> 40])
OrmSubgroup ==
  In("subgroups", {"id", "trip_id", "created_at"}, [name |-> 60, color |-> 9])
OrmExpense ==
  In("expenses", {"id", "trip_id", "paid_by", "amount_cents", "created_at"},
          [description |-> 200, currency |-> 3, category |-> 20])
  \cup In("expense_shares", {"expense_id", "user_id", "share_cents"}, None)
OrmSubscription ==
  In("subscriptions", {"id", "user_id", "monthly_amount_cents", "started_at",
                            "renewed_at", "cancelled_at"},
          [provider |-> 20, plan |-> 20, status |-> 20, currency |-> 3,
           paywall_source |-> 40])
OrmReminder ==
  In("reminders", {"id", "trip_id", "body", "fire_at", "created_at", "fired_at"},
          [title |-> 120, kind |-> 20])
Orm == OrmUser \cup OrmTrip \cup OrmTripMember \cup OrmWaypoint \cup OrmMessage
         \cup OrmDevice \cup OrmSafety \cup OrmAudit \cup OrmSubgroup \cup OrmExpense
         \cup OrmSubscription \cup OrmReminder

\* Columns that SQL written by hand names.
SqlLocations ==
  In("locations", {"user_id", "trip_id", "geom", "heading", "speed_mps",
                        "battery_pct", "recorded_at"}, None)
SqlEvents ==
  In("events", {"user_id", "name", "properties", "created_at", "session_id",
                     "trip_id"}, None)
SqlMapsHealth ==
  In("maps_provider_calls", {"provider", "duration_ms", "status", "created_at"},
          None)

\* The longest text a request may carry into a column.
Limits(t, longest) == In(t, {}, longest)
PhoneLimits == Limits("users", [phone |-> 20])
ProfileLimits == Limits("users", [display_name |-> 80, avatar_url |-> 500])
TripLimits == Limits("trips", [name |-> 120])
JoinCodeLimits == Limits("trips", [join_code |-> 6])
WaypointLimits == Limits("waypoints", [name |-> 120])
DeviceLimits == Limits("devices", [fcm_token |-> 500, platform |-> 7])
ExpenseLimits ==
  Limits("expenses", [description |-> 200, currency |-> 3, category |-> 20])
SubgroupLimits == Limits("subgroups", [name |-> 60])
ReminderLimits == Limits("reminders", [title |-> 120, kind |-> 20])
BillingLimits == Limits("subscriptions", [currency |-> 3])
RequestLimits ==
  PhoneLimits \cup ProfileLimits \cup TripLimits \cup JoinCodeLimits
    \cup WaypointLimits \cup DeviceLimits \cup ExpenseLimits \cup SubgroupLimits
    \cup ReminderLimits \cup BillingLimits

\* The words handlers put into columns that a CHECK guards.
Words(t, c, values) == {[on |-> t, column |-> c, value |-> x] : x \in values}
RoleWords == Words("trip_members", "role", AllRoles)
TripWords == Words("trips", "status", {"planned", "ended"})
MessageWords == Words("messages", "kind", {"text", "arrival"})
DeviceAlertWords ==
  Words("safety_alerts", "kind", {"sos", "crash"})
    \cup Words("safety_alerts", "severity", {"critical", "warning"})
AlertWords ==
  Words("safety_alerts", "kind", {"speed", "stranded"})
    \cup Words("safety_alerts", "severity", {"warning"})
BillingWords ==
  Words("subscriptions", "provider", {"razorpay", "stripe"})
    \cup Words("subscriptions", "plan", {"free", "pro", "family"})
    \cup Words("subscriptions", "status", {"trialing", "active"})
HandlerWords ==
  RoleWords \cup TripWords \cup MessageWords \cup DeviceAlertWords \cup AlertWords
    \cup BillingWords
\* All of them but the longest role fit VARCHAR(10).
ASSUME WordLengths ==
  \A w \in HandlerWords : w.value = "photographer" \/ Len(w.value) \in 0..10

\* The tables take the word w: its column exists, is long enough, and the CHECK on
\* it agrees.
Accept(tables, w) ==
  /\ w.on \in DOMAIN tables
  /\ \E o \in tables[w.on] : /\ o.is = "column" /\ o.name = w.column
                            /\ (o.width = 0 \/ Len(w.value) <= o.width)
  /\ \A o \in tables[w.on] : o.is = "check" => Allowed(w, o)

---------------------------------------------------------------------------
(* Alembic and the handlers                                                *)

Idle == [step |-> "idle", from |-> 0, to |-> 0, at |-> 1, alone |-> FALSE,
         made |-> None, gone |-> {}, held |-> {}]
On(r) == run[r].step = "on"
Statements(r) == Script[<<run[r].from, run[r].to>>]
HasNext(r) == On(r) /\ run[r].at <= Len(Statements(r))
Statement(r) == Statements(r)[run[r].at]

\* What the transaction of r sees: the committed database and its own work, the
\* tables it has made or altered, those it has dropped, the last stamp.
View(r) ==
  LET made == run[r].made
      tables == [t \in DOMAIN made \cup (DOMAIN db.tables \ run[r].gone) |->
                   IF t \in DOMAIN made THEN made[t] ELSE db.tables[t]]
      stamps == {i \in 1..(run[r].at - 1) : Statements(r)[i].do = "stamp"}
  IN  [tables |-> tables,
       words |-> {w \in db.words : /\ w.on \in DOMAIN tables
                                   /\ Exists(tables[w.on], "column", w.column)},
       version |-> IF stamps = {} THEN db.version
                   ELSE Statements(r)[Max(stamps)].to]

\* A statement locks its table and those it refers to until the transaction
\* ends; dropping a table also locks those the table refers to.
Locks(s) ==
  {s.on} \cup CASE s.do \in {"create", "add"} -> Targets(s.shape)
               [] s.do = "droptable" /\ s.on \in DOMAIN db.tables ->
                    Targets(db.tables[s.on])
               [] OTHER -> {}
Blocks(q, r) == q # r /\ Locks(Statement(r)) \cap run[q].held # {}

SchemaInit ==
  /\ db = [tables |-> None, words |-> {}, version |-> 0]
  /\ run = [r \in Run |-> Idle]

\* run_migrations: read the revision the database is at.
Begin(r, goal) ==
  /\ ~On(r) /\ goal # db.version
  /\ LET others == {q \in Run : On(q)}
     IN  run' = [q \in Run |->
                   IF q = r THEN [Idle EXCEPT !.step = "on", !.from = db.version,
                                              !.to = goal, !.alone = (others = {})]
                   ELSE [run[q] EXCEPT !.alone = FALSE]]
  /\ UNCHANGED db

\* The next statement, once no other transaction holds a lock it needs; a
\* statement that is refused rolls everything back.
Execute(r) ==
  /\ HasNext(r)
  /\ \A q \in Run : ~Blocks(q, r)
  /\ LET s == Statement(r)
         seen == View(r)
         after == Effect(seen.tables, s)
         changed == {t \in DOMAIN after :
                       t \in DOMAIN db.tables => after[t] # db.tables[t]}
     IN  run' = [run EXCEPT ![r] =
                   IF Refused(seen, s) THEN [Idle EXCEPT !.step = "refused"]
                   ELSE [run[r] EXCEPT !.at = run[r].at + 1,
                                       !.made = [t \in changed |-> after[t]],
                                       !.gone = DOMAIN db.tables \ DOMAIN after,
                                       !.held = run[r].held \cup Locks(s)]]
  /\ UNCHANGED db

Commit(r) ==
  /\ On(r) /\ ~HasNext(r)
  /\ db' = View(r)
  /\ run' = [run EXCEPT ![r] = Idle]

\* PostgreSQL breaks a circle of transactions that wait for each other.
Deadlock(r) ==
  /\ HasNext(r)
  /\ \E q \in Run : HasNext(q) /\ Blocks(q, r) /\ Blocks(r, q)
  /\ run' = [run EXCEPT ![r] = Idle]
  /\ UNCHANGED db

\* The process or its connection dies.
Die(r) ==
  /\ On(r)
  /\ run' = [run EXCEPT ![r] = Idle]
  /\ UNCHANGED db

\* A handler's UPDATE or INSERT; what the database refuses is a 500.
Write(w) ==
  /\ \A r \in Run : w.on \notin run[r].held
  /\ Accept(db.tables, w) /\ w \notin db.words
  /\ db' = [db EXCEPT !.words = @ \cup {w}]
  /\ UNCHANGED run

\* set_member_role replaces the last row's word by another one.
Rewrite(w, x) ==
  /\ w \in db.words /\ x.on = w.on /\ x.column = w.column /\ x # w
  /\ \A r \in Run : w.on \notin run[r].held
  /\ Accept(db.tables, x)
  /\ db' = [db EXCEPT !.words = (@ \ {w}) \cup {x}]
  /\ UNCHANGED run

SchemaNext ==
  \/ \E r \in Run, goal \in Goals : Begin(r, goal)
  \/ \E r \in Run : Execute(r) \/ Commit(r) \/ Deadlock(r) \/ Die(r)
  \/ \E w \in Written : Write(w)
  \/ \E w, x \in Written \cap RoleWords : Rewrite(w, x)

SchemaSpec == SchemaInit /\ [][SchemaNext]_schemaVars

---------------------------------------------------------------------------
(* Properties                                                              *)

\* Types of both variables.
SchemaTypeOK ==
  /\ db.version \in Version
  /\ db.words \subseteq Written
  /\ \A r \in Run : /\ run[r].step \in {"idle", "on", "refused"}
                    /\ run[r].from \in Version /\ run[r].to \in Version
                    /\ run[r].at \in 1..(Len(Statements(r)) + 1)

\* Whatever runs of alembic overlap, die, are refused or go back and forth, the
\* database has exactly the schema of the revision alembic_version names: every
\* downgrade undoes its upgrade, and no two runs apply one revision twice
\* (the versions' upgrade and downgrade functions; nothing in CI runs a downgrade).
SchemaIsRevision == SchemaTypeOK /\ db.tables = Revision[db.version]

\* Every word stored fits the column that holds it and the CHECKs of the moment,
\* also while a CHECK is dropped and made anew beside handlers that write.
StoredWordsFit == \A v \in db.words : Accept(db.tables, v)

\* A single run is refused only where it takes back the roles of 0002 while a
\* member has one of them: no statement needs what an earlier one has dropped,
\* and none adds a column that existing rows refuse.
OnlyRolesBlock ==
  [][\A r \in Run :
       /\ On(r) /\ run[r].alone
       /\ run'[r].step = "refused"
       => /\ Statement(r) = Add("trip_members", Check("role", PlainRoles), "plain")
          /\ \E v \in db.words : v \in RoleWords /\ v.value \notin PlainRoles]_schemaVars

\* At the head every column the ORM or handwritten SQL names is there, every text
\* the length of which a request's validation bounds fits its column, and so does
\* every word the handlers write, the role "photographer" apart (see RolesFit).
HeadServesHandlers ==
  db.version = 3 =>
    LET width(c) == {o.width : o \in {p \in db.tables[c.on] :
                                        p.is = "column" /\ p.name = c.name}}
    IN  /\ \A c \in Orm \cup SqlLocations \cup SqlEvents \cup SqlMapsHealth :
             c.on \in DOMAIN db.tables /\ width(c) # {}
        /\ \A c \in RequestLimits : \E n \in width(c) : c.width <= n
        /\ \A w \in HandlerWords : w.value = "photographer" \/ Accept(db.tables, w)

\* "Expand the role check constraint to cover the new richer set" (0002): once it
\* is in force, every role set_member_role accepts can be stored.
RolesFit == db.version >= 2 => \A w \in RoleWords : Accept(db.tables, w)
=============================================================================
