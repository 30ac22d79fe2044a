----------------------------- MODULE Migration ------------------------------
(***************************************************************************)
(* init_db of zline_sso: how a start creates the database or migrates the   *)
(* one of an older version, and what a crash on the way leaves.             *)
(*                                                                         *)
(* The migration runs in no transaction: each statement is committed on its *)
(* own, the process may stop between any two, and the next start begins     *)
(* from the first one on what is in the file. An error of six of the         *)
(* statements is ignored: the start goes on as if nothing had happened.     *)
(***************************************************************************)
EXTENDS Naturals

CONSTANTS Uid,
          NoTable,
          ForeignKeysOn,   \* SQLite's default for a new connection
          MaxStarts        \* bound of the starts

ASSUME SwitchAssumption == ForeignKeysOn \in BOOLEAN
ASSUME MaxStartsAssumption == MaxStarts \in Nat

VARIABLES users,       \* the table users: [type, rows], or NoTable
          users_new,   \* the table users_new: its rows, or NoTable
          login_logs,  \* the log lines [uid, time], or NoTable
          geo,         \* does login_logs have its two geo columns?
          foreign_keys,
          stage,       \* the statement that comes next
          starts,
          old,         \* history: the database the first start found
          ignored      \* history: the stages that failed when they were run
                       \* last, whose error was ignored

vars == <<users, users_new, login_logs, geo, foreign_keys, stage, starts, old,
          ignored>>

-----------------------------------------------------------------------------
\* What stands in a time column: NULL, '', an old text, a Unix time. A text cast
\* to an integer without a conversion is its year: a wrong time.
Time == {"null", "empty", "text", "unix", "wrong"}
Column == {"last_login_time", "restriction_end_time"}
Rows == UNION {[S -> [Column -> Time]] : S \in SUBSET Uid}
Table == [type: {"TEXT", "INTEGER"}, rows: Rows]
LogLine == [uid: Uid, time: {"text", "unix"}]

ASSUME NoTableAssumption == /\ NoTable \notin Rows \cup Table
                            /\ \A lines \in SUBSET LogLine : lines # NoTable

\* The statements whose error is ignored; the conversion of a column is named
\* after it.
Ignorable == {"fk_off", "fk_on", "geo", "convert_logs"} \cup Column
Stage == {"off", "create", "detect", "create_new", "copy", "drop", "rename",
          "logs", "serving", "failed"} \cup Ignorable

MTypeOK ==
    /\ users \in Table \cup {NoTable}
    /\ users_new \in Rows \cup {NoTable}
    /\ login_logs = NoTable \/ login_logs \in SUBSET LogLine
    /\ geo \in BOOLEAN /\ foreign_keys \in BOOLEAN
    /\ stage \in Stage
    /\ starts \in Nat
    /\ ignored \in SUBSET Ignorable

\* No file yet, the tables of an old version (whose logs lack the geo columns),
\* or those of this one.
NewFile == /\ users = NoTable /\ login_logs = NoTable /\ geo = FALSE
OldFile == /\ \E rows \in [Uid -> [Column -> {"null", "empty", "text"}]] :
                 users = [type |-> "TEXT", rows |-> rows]
           /\ login_logs \in SUBSET [uid: Uid, time: {"text"}]
           /\ geo = FALSE
CurrentFile == /\ \E rows \in [Uid -> [Column -> {"null", "unix"}]] :
                     users = [type |-> "INTEGER", rows |-> rows]
               /\ login_logs \in SUBSET [uid: Uid, time: {"unix"}]
               /\ geo = TRUE

Init ==
    /\ NewFile \/ OldFile \/ CurrentFile
    /\ users_new = NoTable
    /\ foreign_keys = ForeignKeysOn
    /\ stage = "off"
    /\ starts = 0
    /\ old = [users |-> users, logs |-> login_logs]
    /\ ignored = {}

-----------------------------------------------------------------------------
At(from, to) == stage = from /\ stage' = to

\* The outcomes of a statement whose error is ignored.
Succeeds == ignored' = ignored \ {stage}
Fails == ignored' = ignored \cup {stage}

Start ==
    /\ At("off", "create")
    /\ starts < MaxStarts
    /\ starts' = starts + 1
    /\ foreign_keys' = ForeignKeysOn
    /\ UNCHANGED <<users, users_new, login_logs, geo, old, ignored>>

\* The process stops, while it migrates or serves; the error of a statement,
\* where it is not ignored, ends it too. A failed one has stopped.
Stop ==
    /\ stage # "off"
    /\ stage' = "off"
    /\ UNCHANGED <<users, users_new, login_logs, geo, foreign_keys, starts, old,
                   ignored>>

NoRows == [uid \in {} |-> [c \in Column |-> "null"]]

\* CREATE TABLE IF NOT EXISTS users
CreateUsers ==
    /\ At("create", "detect")
    /\ users' = IF users = NoTable THEN [type |-> "INTEGER", rows |-> NoRows]
                                   ELSE users
    /\ UNCHANGED <<users_new, login_logs, geo, foreign_keys, starts, old, ignored>>

DetectTextColumns ==
    /\ stage = "detect"
    /\ stage' = IF users.type = "TEXT" THEN "fk_off" ELSE "logs"
    /\ UNCHANGED <<users, users_new, login_logs, geo, foreign_keys, starts, old,
                   ignored>>

\* Not the code: the foreign keys stay on.
Bug_ForeignKeysStay ==
    /\ At("fk_off", "last_login_time")
    /\ Succeeds
    /\ UNCHANGED <<users, users_new, login_logs, geo, foreign_keys, starts, old>>

\* If the pragma cannot be read, the keys count as off and stay as they are, here
\* and at RestoreForeignKeys; if it cannot be set, they stay as well.
DisableForeignKeys ==
    /\ At("fk_off", "last_login_time")
    /\ \/ Succeeds /\ foreign_keys' = FALSE
       \/ Fails /\ UNCHANGED foreign_keys
    /\ UNCHANGED <<users, users_new, login_logs, geo, starts, old>>

Converted(row, column) ==
    [row EXCEPT ![column] = IF @ = "text" THEN "unix" ELSE @]

\* UPDATE users SET column = strftime('%s', column) where it holds an old text.
Convert(column) ==
    \/ /\ Succeeds
       /\ users' = [users EXCEPT !.rows =
                       [uid \in DOMAIN @ |-> Converted(@[uid], column)]]
    \/ Fails /\ UNCHANGED users

\* Not the code: the second conversion forgotten.
Bug_ConvertOnce ==
    /\ At("last_login_time", "create_new")
    /\ Convert("last_login_time")
    /\ UNCHANGED <<users_new, login_logs, geo, foreign_keys, starts, old>>

ConvertLogin ==
    /\ At("last_login_time", "restriction_end_time")
    /\ Convert("last_login_time")
    /\ UNCHANGED <<users_new, login_logs, geo, foreign_keys, starts, old>>

ConvertEnd ==
    /\ At("restriction_end_time", "create_new")
    /\ Convert("restriction_end_time")
    /\ UNCHANGED <<users_new, login_logs, geo, foreign_keys, starts, old>>

\* CREATE TABLE users_new fails if a crash has left that table behind; init_db
\* answers the error and the process ends.
CreateNew ==
    /\ users_new = NoTable
    /\ At("create_new", "copy")
    /\ users_new' = NoRows
    /\ UNCHANGED <<users, login_logs, geo, foreign_keys, starts, old, ignored>>

CreateNewFails ==
    /\ users_new # NoTable
    /\ At("create_new", "failed")
    /\ UNCHANGED <<users, users_new, login_logs, geo, foreign_keys, starts, old,
                   ignored>>

\* The CAST of the copy.
CastTime(t) == CASE t = "empty" -> "null"
                 [] t = "text" -> "wrong"
                 [] OTHER -> t

\* Not the code: a copy without the time columns.
Bug_CopyWithoutTimes ==
    /\ At("copy", "drop")
    /\ users_new' = [uid \in DOMAIN users.rows |-> [c \in Column |-> "null"]]
    /\ UNCHANGED <<users, login_logs, geo, foreign_keys, starts, old, ignored>>

Copy ==
    /\ At("copy", "drop")
    /\ users_new' = [uid \in DOMAIN users.rows |->
                        [c \in Column |-> CastTime(users.rows[uid][c])]]
    /\ UNCHANGED <<users, login_logs, geo, foreign_keys, starts, old, ignored>>

\* DROP TABLE users deletes its rows first; with foreign keys on, their log
\* lines go with them.
DropUsers ==
    /\ At("drop", "rename")
    /\ users' = NoTable
    /\ login_logs' = IF foreign_keys /\ login_logs # NoTable
                     THEN {l \in login_logs : l.uid \notin DOMAIN users.rows}
                     ELSE login_logs
    /\ UNCHANGED <<users_new, geo, foreign_keys, starts, old, ignored>>

RenameNew ==
    /\ At("rename", "fk_on")
    /\ users' = [type |-> "INTEGER", rows |-> users_new]
    /\ users_new' = NoTable
    /\ UNCHANGED <<login_logs, geo, foreign_keys, starts, old, ignored>>

RestoreForeignKeys ==
    /\ At("fk_on", "logs")
    /\ \/ Succeeds /\ foreign_keys' = ForeignKeysOn
       \/ Fails /\ UNCHANGED foreign_keys
    /\ UNCHANGED <<users, users_new, login_logs, geo, starts, old>>

\* CREATE TABLE IF NOT EXISTS login_logs, with its geo columns.
CreateLogs ==
    /\ At("logs", "geo")
    /\ login_logs' = IF login_logs = NoTable THEN {} ELSE login_logs
    /\ geo' = (geo \/ login_logs = NoTable)
    /\ UNCHANGED <<users, users_new, foreign_keys, starts, old, ignored>>

\* ALTER TABLE for each column that is missing.
AddGeoColumns ==
    /\ At("geo", "convert_logs")
    /\ \/ Succeeds /\ geo' = TRUE
       \/ Fails /\ UNCHANGED geo
    /\ UNCHANGED <<users, users_new, login_logs, foreign_keys, starts, old>>

\* Not the code: the conversion applied to converted times as well.
Bug_ConvertAgain ==
    /\ At("convert_logs", "serving")
    /\ Succeeds
    /\ login_logs' = {[l EXCEPT !.time = IF @ = "text" THEN "unix" ELSE "wrong"] :
                         l \in login_logs}
    /\ UNCHANGED <<users, users_new, geo, foreign_keys, starts, old>>

\* UPDATE login_logs where the time is an old text.
ConvertLogs ==
    /\ At("convert_logs", "serving")
    /\ \/ Succeeds /\ login_logs' = {[l EXCEPT !.time = "unix"] : l \in login_logs}
       \/ Fails /\ UNCHANGED login_logs
    /\ UNCHANGED <<users, users_new, geo, foreign_keys, starts, old>>

Statement ==
    \/ CreateUsers \/ DetectTextColumns
    \/ DisableForeignKeys \/ ConvertLogin \/ ConvertEnd
    \/ CreateNew \/ CreateNewFails \/ Copy \/ DropUsers \/ RenameNew
    \/ RestoreForeignKeys
    \/ CreateLogs \/ AddGeoColumns \/ ConvertLogs

Next == Start \/ Stop \/ Statement

Spec == Init /\ [][Next]_vars

-----------------------------------------------------------------------------
\* A time as it should read after the migration.
Migrated(t) == CASE t = "text" -> "unix"
                 [] t = "empty" -> "null"
                 [] OTHER -> t

\* What an ignored failure of the conversion makes of a column: the CAST of the
\* copy leaves the years of its texts.
Damage(column) == IF column \in ignored THEN {"wrong"} ELSE {}

\* A row of a table holds what the row the first start found says: as it was,
\* or as it reads after the migration.
Holds(rows, uid) ==
    /\ uid \in DOMAIN rows
    /\ \A c \in Column : rows[uid][c] \in {old.users.rows[uid][c],
                                           Migrated(old.users.rows[uid][c])}
                                          \cup Damage(c)

\* However often the process stops on the way, no account disappears from the
\* file: it is in one of the two tables, with its times but for those of a column
\* whose conversion failed. (Not always in the table that is served: a stop
\* between the DROP and the RENAME leaves it in the other.)
AccountsInFile ==
    old.users # NoTable =>
        \A uid \in DOMAIN old.users.rows :
            \/ users # NoTable /\ Holds(users.rows, uid)
            \/ users_new # NoTable /\ Holds(users_new, uid)

\* However often the process stops, and although the table their foreign key
\* refers to is dropped, no log line is lost, unless the foreign keys could not
\* be switched off.
LogsKept ==
    old.logs # NoTable /\ "fk_off" \notin ignored =>
        /\ login_logs # NoTable
        /\ {l.uid : l \in old.logs} = {l.uid : l \in login_logs}

\* A service that runs has only Unix times in the rows it serves: no text is
\* left that could not be read as an integer, and none was cast unconverted.
\* A failed conversion spoils its own column, and the log lines until the first
\* start whose conversion of them succeeds, nothing else.
TimesReadable ==
    stage = "serving" =>
        /\ users.type = "INTEGER"
        /\ \A uid \in DOMAIN users.rows, c \in Column :
              users.rows[uid][c] \in {"null", "unix"} \cup Damage(c)
        /\ "convert_logs" \notin ignored => \A l \in login_logs : l.time = "unix"

-----------------------------------------------------------------------------
(* What an assertion says; TLC refutes it.                                 *)

\* main.rs:55 expects init_db to succeed. Here: no start fails.
StartSucceeds == stage # "failed"
=============================================================================
