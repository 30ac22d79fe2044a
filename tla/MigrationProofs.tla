-------------------------- MODULE MigrationProofs ---------------------------
(***************************************************************************)
(* What init_db keeps of a database, for every number of accounts, log      *)
(* lines and starts, a stop between any two statements, and any failure of  *)
(* those whose error is ignored.                                            *)
(***************************************************************************)
EXTENDS Migration, TLAPS

-----------------------------------------------------------------------------
(* The invariant. The log lines depend on the foreign keys being off when    *)
(* the table is dropped; the rows on the conversions having been made when   *)
(* they are copied. As long as the table of the old type is there, nothing   *)
(* is spoilt: only then can a failed statement be run again.                 *)

\* The statements of the rebuild, with the foreign keys off.
Rebuild == {"create_new", "copy", "drop"} \cup Column

\* There is a table to rebuild, of the old type; and a table when it is needed.
TablesInPlace ==
    /\ stage \in Rebuild \cup {"fk_off"} => users # NoTable /\ users.type = "TEXT"
    /\ stage \in {"copy", "drop", "rename"} => users_new # NoTable
    /\ stage = "detect" => users # NoTable
    /\ stage \in {"fk_on", "logs", "geo", "convert_logs", "serving"} =>
          users # NoTable /\ users.type = "INTEGER"
    /\ stage \in {"geo", "convert_logs", "serving"} => login_logs # NoTable

KeysOff == stage \in Rebuild /\ "fk_off" \notin ignored => ~foreign_keys

LogsAsFound == old.logs # NoTable =>
                  /\ login_logs # NoTable
                  /\ {l.uid : l \in old.logs} = {l.uid : l \in login_logs}

\* Log lines are lost with the table of the old type, not before.
LogsBefore == users # NoTable /\ users.type = "TEXT" => LogsAsFound

LogsConverted == stage = "serving" /\ "convert_logs" \notin ignored =>
                    \A l \in login_logs : l.time = "unix"

LogsInv == /\ MTypeOK /\ TablesInPlace /\ KeysOff
           /\ LogsKept /\ LogsBefore /\ LogsConverted

\* The times of a row of the old type.
AnyTime == {"null", "empty", "text", "unix"}

\* The old database has no half-converted times.
OldOK == old.users # NoTable =>
            /\ old.users \in Table
            /\ \A uid \in DOMAIN old.users.rows, c \in Column :
                  old.users.rows[uid][c] \in AnyTime

HoldsAll(rows) == old.users # NoTable =>
                      \A uid \in DOMAIN old.users.rows : Holds(rows, uid)

\* The same with nothing spoilt.
AsFound(rows) ==
    old.users # NoTable =>
        \A uid \in DOMAIN old.users.rows :
            /\ uid \in DOMAIN rows
            /\ \A c \in Column : rows[uid][c] \in {old.users.rows[uid][c],
                                                   Migrated(old.users.rows[uid][c])}

Times(rows, times) == \A uid \in DOMAIN rows, c \in Column : rows[uid][c] \in times

Readable(rows) == \A uid \in DOMAIN rows, c \in Column :
                     rows[uid][c] \in {"null", "unix"} \cup Damage(c)

\* The column has been converted, or its conversion has failed.
Tried(column) == column \notin ignored =>
                    \A uid \in DOMAIN users.rows : users.rows[uid][column] # "text"

RowsInv ==
    /\ OldOK
    /\ AccountsInFile
    /\ users # NoTable =>
          /\ users.type = "TEXT" => AsFound(users.rows)
          /\ users.type = "TEXT" => Times(users.rows, AnyTime)
          /\ users.type = "INTEGER" => Readable(users.rows)
    /\ stage \in {"restriction_end_time", "create_new", "copy"} =>
          Tried("last_login_time")
    /\ stage \in {"create_new", "copy"} => Tried("restriction_end_time")
    /\ stage \in {"drop", "rename"} => Readable(users_new) /\ HoldsAll(users_new)

-----------------------------------------------------------------------------
LEMMA InitLogs == Init => LogsInv
<1> SUFFICES ASSUME Init PROVE LogsInv
  OBVIOUS
<1>1. MTypeOK
  <2>1. \A rows : rows \in [Uid -> [Column -> {"null", "empty", "text"}]]
                    \/ rows \in [Uid -> [Column -> {"null", "unix"}]]
                  => rows \in Rows
    <3>1. [Uid -> [Column -> Time]] \subseteq Rows
      BY DEF Rows
    <3> QED
      BY <3>1 DEF Time
  <2>2. users \in Table \cup {NoTable}
    BY <2>1 DEF Init, NewFile, OldFile, CurrentFile, Table
  <2>3. login_logs = NoTable \/ login_logs \in SUBSET LogLine
    BY DEF Init, NewFile, OldFile, CurrentFile, LogLine
  <2> QED
    BY <2>2, <2>3, MaxStartsAssumption, SwitchAssumption
       DEF Init, NewFile, OldFile, CurrentFile, MTypeOK, Stage
<1>2. TablesInPlace /\ KeysOff /\ LogsConverted /\ LogsKept /\ LogsBefore
  BY DEF Init, TablesInPlace, KeysOff, LogsConverted, LogsKept, LogsBefore,
         LogsAsFound, Rebuild, Column
<1> QED
  BY <1>1, <1>2 DEF LogsInv

LEMMA NoRowsType == NoRows \in Rows /\ NoRows # NoTable /\ DOMAIN NoRows = {}
<1>1. NoRows \in [{} -> [Column -> Time]]
  BY DEF NoRows
<1>2. [{} -> [Column -> Time]] \subseteq Rows
  BY DEF Rows
<1> QED
  BY <1>1, <1>2, NoTableAssumption DEF NoRows

LEMMA RowsType ==
  /\ \A rows \in Rows : /\ DOMAIN rows \in SUBSET Uid
                        /\ rows \in [DOMAIN rows -> [Column -> Time]]
  /\ \A S \in SUBSET Uid : [S -> [Column -> Time]] \subseteq Rows
<1>1. \A S \in SUBSET Uid : [S -> [Column -> Time]] \subseteq Rows
  BY DEF Rows
<1>2. ASSUME NEW rows \in Rows
      PROVE  DOMAIN rows \in SUBSET Uid /\ rows \in [DOMAIN rows -> [Column -> Time]]
  <2>1. PICK S \in SUBSET Uid : rows \in [S -> [Column -> Time]]
    BY DEF Rows
  <2> QED
    BY <2>1
<1> QED
  BY <1>1, <1>2

\* What a conversion makes of a table.
LEMMA ConvertType ==
  ASSUME users \in Table, NEW column \in Column, Convert(column)
  PROVE  /\ users' \in Table /\ users' # NoTable /\ users'.type = users.type
         /\ DOMAIN users'.rows = DOMAIN users.rows
<1>1. CASE UNCHANGED users
  BY <1>1, NoTableAssumption
<1>2. CASE users' = [users EXCEPT !.rows =
                        [uid \in DOMAIN @ |-> Converted(@[uid], column)]]
  <2> DEFINE rows == users.rows
             new == [uid \in DOMAIN rows |-> Converted(rows[uid], column)]
  <2>1. rows \in Rows
    BY DEF Table
  <2>2. rows \in [DOMAIN rows -> [Column -> Time]] /\ DOMAIN rows \in SUBSET Uid
    BY <2>1, RowsType
  <2>3. new \in [DOMAIN rows -> [Column -> Time]]
    BY <2>2 DEF Time, Converted
  <2>4. new \in Rows
    BY <2>2, <2>3, RowsType
  <2>5. users' = [users EXCEPT !.rows = new]
    BY <1>2
  <2>6. /\ users' \in Table /\ users'.type = users.type
        /\ users'.rows = new
    BY <2>4, <2>5 DEF Table
  <2>7. DOMAIN users'.rows = DOMAIN users.rows
    BY <2>6
  <2> QED
    BY <2>6, <2>7, NoTableAssumption
<1> QED
  BY <1>1, <1>2 DEF Convert

LEMMA CopyType ==
  ASSUME users \in Table, Copy
  PROVE  users_new' \in Rows /\ users_new' # NoTable
<1>1. users.rows \in Rows
  BY DEF Table
<1>2. \A t \in Time : CastTime(t) \in Time
  BY DEF CastTime, Time
<1>3. users_new' \in [DOMAIN users.rows -> [Column -> Time]]
  BY <1>1, <1>2, RowsType DEF Copy
<1>4. users_new' \in Rows
  BY <1>1, <1>3, RowsType
<1> QED
  BY <1>4, NoTableAssumption

LEMMA StepTypes == LogsInv /\ Next => MTypeOK'
<1> SUFFICES ASSUME LogsInv, Next PROVE MTypeOK'
  OBVIOUS
<1> USE DEF LogsInv, MTypeOK
<1>0. stage' \in Stage /\ ignored' \in SUBSET Ignorable
  <2>1. stage' \in Stage
    BY DEF Next, Statement, Start, Stop, CreateUsers, DetectTextColumns,
           DisableForeignKeys, ConvertLogin, ConvertEnd, CreateNew, CreateNewFails,
           Copy, DropUsers, RenameNew, RestoreForeignKeys, CreateLogs,
           AddGeoColumns, ConvertLogs, At, Stage, Ignorable, Column
  <2>2. \/ UNCHANGED ignored
        \/ (Succeeds \/ Fails) /\ stage \in Ignorable
    BY DEF Next, Statement, Start, Stop, CreateUsers, DetectTextColumns,
           DisableForeignKeys, ConvertLogin, ConvertEnd, Convert, CreateNew,
           CreateNewFails, Copy, DropUsers, RenameNew, RestoreForeignKeys,
           CreateLogs, AddGeoColumns, ConvertLogs, At, Ignorable, Column
  <2> QED
    BY <2>1, <2>2 DEF Succeeds, Fails
<1>1. CASE Start \/ Stop
  BY <1>0, <1>1, SwitchAssumption DEF Start, Stop
<1>2. CASE CreateUsers
  BY <1>0, <1>2, NoRowsType DEF CreateUsers, Table
<1>3. CASE DetectTextColumns \/ DisableForeignKeys \/ CreateNewFails
           \/ RestoreForeignKeys \/ AddGeoColumns
  BY <1>0, <1>3, SwitchAssumption
     DEF DetectTextColumns, DisableForeignKeys, CreateNewFails,
         RestoreForeignKeys, AddGeoColumns
<1>4. CASE ConvertLogin \/ ConvertEnd
  <2>1. users \in Table
    BY <1>4 DEF ConvertLogin, ConvertEnd, At, TablesInPlace, Rebuild, Column
  <2>2. users' \in Table
    BY <1>4, <2>1, ConvertType DEF ConvertLogin, ConvertEnd, Column
  <2> QED
    BY <1>0, <1>4, <2>2 DEF ConvertLogin, ConvertEnd
<1>5. CASE CreateNew
  BY <1>0, <1>5, NoRowsType DEF CreateNew
<1>6. CASE Copy
  <2>1. users \in Table
    BY <1>6 DEF Copy, At, TablesInPlace, Rebuild
  <2> QED
    BY <1>0, <1>6, <2>1, CopyType DEF Copy
<1>7. CASE DropUsers
  BY <1>0, <1>7 DEF DropUsers
<1>8. CASE RenameNew
  <2>1. users_new \in Rows
    BY <1>8 DEF RenameNew, At, TablesInPlace
  <2> QED
    BY <1>0, <1>8, <2>1 DEF RenameNew, Table
<1>9. CASE CreateLogs
  BY <1>0, <1>9 DEF CreateLogs
<1>10. CASE ConvertLogs
  <2>1. login_logs \in SUBSET LogLine
    BY <1>10 DEF ConvertLogs, At, TablesInPlace
  <2>2. login_logs' \in SUBSET LogLine
    BY <1>10, <2>1 DEF ConvertLogs, LogLine
  <2> QED
    BY <1>0, <1>10, <2>2 DEF ConvertLogs
<1> QED
  BY <1>1, <1>2, <1>3, <1>4, <1>5, <1>6, <1>7, <1>8, <1>9, <1>10
     DEF Next, Statement

LEMMA StepInPlace == LogsInv /\ Next => TablesInPlace' /\ KeysOff'
<1> SUFFICES ASSUME LogsInv, Next PROVE TablesInPlace' /\ KeysOff'
  OBVIOUS
<1> USE DEF LogsInv, TablesInPlace, KeysOff, Rebuild, Column, Succeeds, Fails
<1>1. CASE Start \/ Stop
  BY <1>1 DEF Start, Stop, At
<1>2. CASE CreateUsers
  BY <1>2, NoTableAssumption, NoRowsType DEF CreateUsers, At, Table
<1>3. CASE DetectTextColumns
  BY <1>3 DEF DetectTextColumns, MTypeOK, Table
<1>4. CASE DisableForeignKeys \/ CreateNewFails \/ RestoreForeignKeys
           \/ AddGeoColumns
  BY <1>4 DEF DisableForeignKeys, CreateNewFails, RestoreForeignKeys,
              AddGeoColumns, At
<1>5. CASE ConvertLogin \/ ConvertEnd
  <2>1. users \in Table
    BY <1>5 DEF ConvertLogin, ConvertEnd, At, MTypeOK
  <2>2. users' # NoTable /\ users'.type = users.type
    BY <1>5, <2>1, ConvertType DEF ConvertLogin, ConvertEnd
  <2>3. "fk_off" \notin ignored' => "fk_off" \notin ignored
    BY <1>5 DEF ConvertLogin, ConvertEnd, Convert, At
  <2> QED
    BY <1>5, <2>2, <2>3 DEF ConvertLogin, ConvertEnd, At
<1>6. CASE CreateNew
  BY <1>6, NoRowsType DEF CreateNew, At
<1>7. CASE Copy
  <2>1. users_new' # NoTable
    BY <1>7, CopyType DEF Copy, At, MTypeOK
  <2> QED
    BY <1>7, <2>1 DEF Copy, At
<1>8. CASE DropUsers
  BY <1>8 DEF DropUsers, At
<1>9. CASE RenameNew
  <2>1. users' \in Table /\ users'.type = "INTEGER"
    BY <1>9 DEF RenameNew, At, MTypeOK, Table
  <2> QED
    BY <1>9, <2>1, NoTableAssumption DEF RenameNew, At
<1>10. CASE CreateLogs
  BY <1>10, NoTableAssumption DEF CreateLogs, At
<1>11. CASE ConvertLogs
  <2>1. login_logs \in SUBSET LogLine /\ login_logs # NoTable
    BY <1>11 DEF ConvertLogs, At, MTypeOK
  <2>2. login_logs' \in SUBSET LogLine
    BY <1>11, <2>1 DEF ConvertLogs, LogLine
  <2> QED
    BY <1>11, <2>2, NoTableAssumption DEF ConvertLogs, At
<1> QED
  BY <1>1, <1>2, <1>3, <1>4, <1>5, <1>6, <1>7, <1>8, <1>9, <1>10, <1>11
     DEF Next, Statement

\* The conversion of the log lines keeps whose they are.
LEMMA ConvertLogsKeeps ==
  ASSUME login_logs \in SUBSET LogLine,
         login_logs' = {[l EXCEPT !.time = "unix"] : l \in login_logs}
  PROVE  /\ \A l \in login_logs' : l.time = "unix"
         /\ {l.uid : l \in login_logs'} = {l.uid : l \in login_logs}
<1>1. \A l \in login_logs : [l EXCEPT !.time = "unix"]
                               = [uid |-> l.uid, time |-> "unix"]
  BY DEF LogLine
<1>2. \A m : m \in login_logs' <=>
         \E l \in login_logs : m = [uid |-> l.uid, time |-> "unix"]
  BY <1>1
<1>3. ASSUME NEW m \in login_logs'
      PROVE  m.time = "unix" /\ \E l \in login_logs : l.uid = m.uid
  <2>1. PICK l \in login_logs : m = [uid |-> l.uid, time |-> "unix"]
    BY <1>2
  <2> QED
    BY <2>1
<1>4. ASSUME NEW l \in login_logs PROVE \E m \in login_logs' : m.uid = l.uid
  <2> DEFINE m == [uid |-> l.uid, time |-> "unix"]
  <2>1. m \in login_logs' /\ m.uid = l.uid
    BY <1>2
  <2> QED
    BY <2>1
<1>5. {l.uid : l \in login_logs'} = {l.uid : l \in login_logs}
  <2>1. ASSUME NEW x \in {l.uid : l \in login_logs'}
        PROVE  x \in {l.uid : l \in login_logs}
    BY <1>3
  <2>2. ASSUME NEW x \in {l.uid : l \in login_logs}
        PROVE  x \in {l.uid : l \in login_logs'}
    BY <1>4
  <2> QED
    BY <2>1, <2>2
<1> QED
  BY <1>3, <1>5

LEMMA StepLogs == LogsInv /\ Next => LogsKept' /\ LogsBefore' /\ LogsConverted'
<1> SUFFICES ASSUME LogsInv, Next PROVE LogsKept' /\ LogsBefore' /\ LogsConverted'
  OBVIOUS
<1> USE DEF LogsInv, LogsKept, LogsBefore, LogsAsFound, LogsConverted
\* What lies between leaves the log lines alone, and makes no old table.
<1>1. CASE /\ UNCHANGED <<login_logs, old>> /\ stage' # "serving"
           /\ users' # NoTable /\ users'.type = "TEXT"
                 => users # NoTable /\ users.type = "TEXT"
           /\ "fk_off" \notin ignored' => "fk_off" \notin ignored
  BY <1>1
<1>2. CASE \/ Start \/ Stop \/ DetectTextColumns \/ CreateNew \/ CreateNewFails
           \/ Copy \/ RestoreForeignKeys \/ AddGeoColumns
  BY <1>1, <1>2
     DEF Start, Stop, DetectTextColumns, CreateNew, CreateNewFails, Copy,
         RestoreForeignKeys, AddGeoColumns, At, Succeeds, Fails
<1>3. CASE CreateUsers
  BY <1>1, <1>3 DEF CreateUsers, At
<1>4. CASE DisableForeignKeys
  <2>1. LogsAsFound
    BY <1>4 DEF DisableForeignKeys, At, TablesInPlace
  <2> QED
    BY <1>4, <2>1 DEF DisableForeignKeys, At
<1>5. CASE ConvertLogin \/ ConvertEnd
  <2>1. /\ users # NoTable /\ users.type = "TEXT"
        /\ UNCHANGED <<login_logs, old>> /\ stage' # "serving"
    BY <1>5 DEF ConvertLogin, ConvertEnd, At, TablesInPlace, Rebuild, Column
  <2> QED
    BY <2>1
<1>6. CASE DropUsers
  <2>1. "fk_off" \notin ignored => ~foreign_keys
    BY <1>6 DEF DropUsers, At, KeysOff, Rebuild
  <2>2. users' = NoTable /\ UNCHANGED <<old, ignored>> /\ stage' = "rename"
    BY <1>6 DEF DropUsers, At
  <2>3. "fk_off" \notin ignored => UNCHANGED login_logs
    BY <1>6, <2>1 DEF DropUsers
  <2> QED
    BY <2>2, <2>3
<1>7. CASE RenameNew
  BY <1>1, <1>7 DEF RenameNew, At
<1>8. CASE CreateLogs
  BY <1>8 DEF CreateLogs, At
<1>9. CASE ConvertLogs
  <2>1. login_logs \in SUBSET LogLine /\ login_logs # NoTable
    BY <1>9 DEF ConvertLogs, At, MTypeOK, TablesInPlace
  <2>2. /\ UNCHANGED <<users, old>>
        /\ "fk_off" \notin ignored' => "fk_off" \notin ignored
    BY <1>9 DEF ConvertLogs, At, Succeeds, Fails
  <2>3. CASE login_logs' = {[l EXCEPT !.time = "unix"] : l \in login_logs}
    <3>1. login_logs' \in SUBSET LogLine
      BY <2>1, <2>3 DEF LogLine
    <3> QED
      BY <2>1, <2>2, <2>3, <3>1, ConvertLogsKeeps, NoTableAssumption
  <2>4. CASE Fails /\ UNCHANGED login_logs
    BY <1>9, <2>2, <2>4 DEF Fails, ConvertLogs, At
  <2> QED
    BY <1>9, <2>3, <2>4 DEF ConvertLogs
<1> QED
  BY <1>2, <1>3, <1>4, <1>5, <1>6, <1>7, <1>8, <1>9 DEF Next, Statement

LEMMA LogsInvariance == Spec => []LogsInv
<1>1. LogsInv /\ UNCHANGED vars => LogsInv'
  <2> SUFFICES ASSUME LogsInv, UNCHANGED vars PROVE LogsInv'
    OBVIOUS
  <2>1. (MTypeOK /\ TablesInPlace /\ KeysOff)'
    BY DEF LogsInv, MTypeOK, TablesInPlace, KeysOff, vars
  <2>2. (LogsKept /\ LogsBefore /\ LogsConverted)'
    BY DEF LogsInv, LogsKept, LogsBefore, LogsAsFound, LogsConverted, vars
  <2> QED
    BY <2>1, <2>2 DEF LogsInv
<1>2. LogsInv /\ [Next]_vars => LogsInv'
  BY <1>1, StepTypes, StepInPlace, StepLogs DEF LogsInv
<1> QED
  BY <1>2, InitLogs, PTL DEF Spec

-----------------------------------------------------------------------------
(* The rows.                                                               *)

\* A time keeps what it held, or reads as after the migration, under the
\* conversion; and under the cast if no old text is left.
LEMMA TimeKept ==
  ASSUME NEW was \in AnyTime, NEW t \in {was, Migrated(was)}
  PROVE  /\ IF t = "text" THEN "unix" \in {was, Migrated(was)} ELSE TRUE
         /\ t # "text" => CastTime(t) \in {was, Migrated(was)}
  BY DEF AnyTime, Migrated, CastTime

LEMMA InitRows == Init => RowsInv
<1> SUFFICES ASSUME Init PROVE RowsInv
  OBVIOUS
<1>1. LogsInv
  BY InitLogs
<1>2. CASE users = NoTable
  BY <1>2 DEF Init, RowsInv, OldOK, AccountsInFile
<1>3. CASE users # NoTable
  <2>1. users \in Table /\ old.users = users
    BY <1>1, <1>3 DEF LogsInv, MTypeOK, Init
  <2>2. /\ users.rows \in [Uid -> [Column -> AnyTime]]
        /\ users.type = "INTEGER" => users.rows \in [Uid -> [Column -> {"null", "unix"}]]
    BY <1>3 DEF Init, NewFile, OldFile, CurrentFile, AnyTime
  <2>3. /\ Times(users.rows, AnyTime)
        /\ users.type = "INTEGER" => Times(users.rows, {"null", "unix"})
    BY <2>2 DEF Times
  <2>4. AsFound(users.rows)
    BY <2>1, <2>2 DEF AsFound
  <2>5. OldOK /\ AccountsInFile
    BY <1>3, <2>1, <2>3, <2>4 DEF OldOK, AccountsInFile, AsFound, Holds, Times, AnyTime
  <2>6. users.type = "INTEGER" => Readable(users.rows)
    BY <2>3 DEF Times, Readable
  <2> QED
    BY <2>3, <2>4, <2>5, <2>6 DEF RowsInv, Init
<1> QED
  BY <1>2, <1>3

\* What a successful conversion makes of the rows.
LEMMA ConvertRows ==
  ASSUME users \in Table, NEW column \in Column,
         users' = [users EXCEPT !.rows =
                     [uid \in DOMAIN @ |-> Converted(@[uid], column)]],
         UNCHANGED old, OldOK, AsFound(users.rows), Times(users.rows, AnyTime)
  PROVE  /\ Times(users.rows, AnyTime)'
         /\ \A uid \in DOMAIN users'.rows : users'.rows[uid][column] # "text"
         /\ \A c \in Column :
               (\A uid \in DOMAIN users.rows : users.rows[uid][c] # "text") =>
                  \A uid \in DOMAIN users'.rows : users'.rows[uid][c] # "text"
         /\ AsFound(users.rows)'
<1> DEFINE rows == users.rows
           new == users'.rows
<1>1. rows \in [DOMAIN rows -> [Column -> Time]]
  BY RowsType DEF Table
<1>2. new = [uid \in DOMAIN rows |-> Converted(rows[uid], column)]
  BY DEF Table
<1>3. \A uid \in DOMAIN rows, c \in Column :
         new[uid][c] = IF c = column /\ rows[uid][c] = "text" THEN "unix"
                                                              ELSE rows[uid][c]
  BY <1>1, <1>2 DEF Converted
<1>4. DOMAIN new = DOMAIN rows
  BY <1>2
<1> HIDE DEF rows, new
<1>5. /\ Times(rows, AnyTime) => Times(new, AnyTime)
      /\ \A uid \in DOMAIN new : new[uid][column] # "text"
      /\ \A c \in Column : (\A uid \in DOMAIN rows : rows[uid][c] # "text") =>
                              \A uid \in DOMAIN new : new[uid][c] # "text"
  BY <1>3, <1>4 DEF Times, AnyTime
<1> USE DEF rows, new
<1>6. Times(users.rows, AnyTime)' <=> Times(new, AnyTime)
  BY DEF Times, AnyTime
<1>7. ASSUME old.users # NoTable, NEW uid \in DOMAIN old.users.rows
      PROVE  /\ uid \in DOMAIN users'.rows
             /\ \A c \in Column : users'.rows[uid][c] \in
                   {old.users.rows[uid][c], Migrated(old.users.rows[uid][c])}
  <2>1. /\ uid \in DOMAIN users.rows
        /\ \A c \in Column : /\ old.users.rows[uid][c] \in AnyTime
                             /\ users.rows[uid][c] \in
                                  {old.users.rows[uid][c],
                                   Migrated(old.users.rows[uid][c])}
    BY <1>7 DEF AsFound, OldOK, AnyTime
  <2>2. ASSUME NEW c \in Column
        PROVE  users'.rows[uid][c] \in {old.users.rows[uid][c],
                                        Migrated(old.users.rows[uid][c])}
    BY <1>3, <2>1, TimeKept
  <2> QED
    BY <1>4, <2>1, <2>2
<1> QED
  BY <1>5, <1>6, <1>7 DEF AsFound

LEMMA CopyRows ==
  ASSUME users \in Table, Copy, OldOK, AsFound(users.rows),
         Times(users.rows, AnyTime), \A c \in Column : Tried(c)
  PROVE  Readable(users_new)' /\ HoldsAll(users_new)'
<1>1. /\ DOMAIN users_new' = DOMAIN users.rows
      /\ \A uid \in DOMAIN users.rows, c \in Column :
            users_new'[uid][c] = CastTime(users.rows[uid][c])
      /\ UNCHANGED <<old, ignored>>
  BY DEF Copy
<1>2. Readable(users_new)'
  BY <1>1 DEF Times, AnyTime, Readable, Damage, Tried, CastTime
<1>3. ASSUME old.users # NoTable, NEW uid \in DOMAIN old.users.rows
      PROVE  Holds(users_new, uid)'
  <2>1. /\ uid \in DOMAIN users.rows
        /\ \A c \in Column : /\ old.users.rows[uid][c] \in AnyTime
                             /\ users.rows[uid][c] = "text" => c \in ignored
                             /\ users.rows[uid][c] \in
                                  {old.users.rows[uid][c],
                                   Migrated(old.users.rows[uid][c])}
    BY <1>3 DEF AsFound, OldOK, AnyTime, Tried
  <2>2. ASSUME NEW c \in Column
        PROVE  users_new'[uid][c] \in {old.users.rows[uid][c],
                                       Migrated(old.users.rows[uid][c])}
                                      \cup Damage(c)
    <3>1. CASE users.rows[uid][c] = "text"
      BY <1>1, <2>1, <3>1 DEF CastTime, Damage
    <3>2. CASE users.rows[uid][c] # "text"
      BY <1>1, <2>1, <3>2, TimeKept
    <3> QED
      BY <3>1, <3>2
  <2> QED
    BY <1>1, <2>1, <2>2 DEF Holds, Damage
<1> QED
  BY <1>1, <1>2, <1>3 DEF HoldsAll

LEMMA StepRows == LogsInv /\ RowsInv /\ Next => RowsInv'
<1> SUFFICES ASSUME LogsInv, RowsInv, Next PROVE RowsInv'
  OBVIOUS
<1>0. UNCHANGED old
  BY DEF Next, Statement, Start, Stop, CreateUsers, DetectTextColumns,
         DisableForeignKeys, ConvertLogin, ConvertEnd, CreateNew, CreateNewFails,
         Copy, DropUsers, RenameNew, RestoreForeignKeys, CreateLogs,
         AddGeoColumns, ConvertLogs
<1>a. OldOK'
  BY <1>0 DEF RowsInv, OldOK
\* But for the conversions, no step changes what is known of a column.
<1>d. (\A c \in Column : c \in ignored' <=> c \in ignored) =>
         /\ \A c \in Column : Damage(c)' = Damage(c)
         /\ \A rows, uid : Holds(rows, uid) =>
               /\ uid \in DOMAIN rows
               /\ \A c \in Column : rows[uid][c] \in
                     ({old.users.rows[uid][c], Migrated(old.users.rows[uid][c])}
                      \cup Damage(c))'
  BY <1>0 DEF Damage, Holds
<1>1. CASE /\ UNCHANGED <<users, users_new>>
           /\ \A c \in Column : c \in ignored' <=> c \in ignored
           /\ stage' \notin {"restriction_end_time", "create_new", "copy", "drop",
                             "rename"}
  <2>1. AccountsInFile'
    BY <1>0, <1>1, <1>d DEF RowsInv, AccountsInFile, Holds
  <2>2. users # NoTable /\ users.type = "INTEGER" => Readable(users.rows)'
    BY <1>1, <1>d DEF RowsInv, Readable
  <2> QED
    BY <1>0, <1>1, <1>a, <2>1, <2>2 DEF RowsInv, AsFound, Times
<1>2. CASE CreateUsers
  <2>1. users # NoTable => UNCHANGED users
    BY <1>2 DEF CreateUsers
  <2>2. users = NoTable => users'.type = "INTEGER" /\ Readable(users.rows)'
    BY <1>2, NoRowsType DEF CreateUsers, Readable
  <2>3. UNCHANGED ignored /\ stage' = "detect" /\ UNCHANGED users_new
    BY <1>2 DEF CreateUsers, At
  <2>4. AccountsInFile'
    BY <1>0, <2>1, <2>3, <1>d DEF RowsInv, AccountsInFile, Holds
  <2> QED
    BY <1>0, <1>a, <2>1, <2>2, <2>3, <2>4
       DEF RowsInv, AsFound, Times, Readable, Damage
<1>3. CASE ConvertLogin \/ ConvertEnd
  <2>1. /\ users \in Table /\ users # NoTable /\ users.type = "TEXT"
        /\ AsFound(users.rows) /\ Times(users.rows, AnyTime) /\ OldOK
    BY <1>3, NoTableAssumption
       DEF ConvertLogin, ConvertEnd, At, LogsInv, TablesInPlace, Rebuild,
           MTypeOK, RowsInv, Column
  <2>2. PICK column \in Column :
           /\ Convert(column) /\ stage = column
           /\ \/ ConvertLogin /\ column = "last_login_time"
              \/ ConvertEnd /\ column = "restriction_end_time"
    <3>1. CASE ConvertLogin
      BY <3>1 DEF ConvertLogin, At, Column
    <3>2. CASE ConvertEnd
      BY <3>2 DEF ConvertEnd, At, Column
    <3> QED
      BY <1>3, <3>1, <3>2
  <2>3. /\ users' # NoTable /\ users'.type = "TEXT"
        /\ AsFound(users.rows)' /\ Times(users.rows, AnyTime)'
        /\ Tried(column)'
        /\ \A c \in Column \ {column} : Tried(c) => Tried(c)'
    <3>1. users' # NoTable /\ users'.type = "TEXT"
      BY <2>1, <2>2, ConvertType
    <3>2. CASE Fails /\ UNCHANGED users
      <4>1. column \in ignored' /\ \A c \in Column \ {column} : c \in ignored' <=> c \in ignored
        BY <2>2, <3>2 DEF Fails
      <4> QED
        BY <1>0, <2>1, <3>1, <3>2, <4>1 DEF AsFound, Times, Tried
    <3>3. CASE /\ Succeeds
               /\ users' = [users EXCEPT !.rows =
                              [uid \in DOMAIN @ |-> Converted(@[uid], column)]]
      <4>1. \A c \in Column \ {column} : c \in ignored' <=> c \in ignored
        BY <2>2, <3>3 DEF Succeeds
      <4> QED
        BY <1>0, <2>1, <3>1, <3>3, <4>1, ConvertRows DEF Tried
    <3> QED
      BY <2>2, <3>2, <3>3 DEF Convert
  <2>4. AccountsInFile'
    BY <2>3 DEF AccountsInFile, AsFound, Holds
  <2>5. /\ stage' \in {"restriction_end_time", "create_new"}
        /\ Tried("last_login_time")'
        /\ stage' = "create_new" => Tried("restriction_end_time")'
    BY <2>2, <2>3 DEF ConvertLogin, ConvertEnd, At, RowsInv, Column
  <2> QED
    BY <1>a, <2>3, <2>4, <2>5 DEF RowsInv
<1>4. CASE CreateNew
  <2>1. /\ users # NoTable /\ users.type = "TEXT"
        /\ AsFound(users.rows)' /\ Times(users.rows, AnyTime)'
        /\ Tried("last_login_time")' /\ Tried("restriction_end_time")'
        /\ stage' = "copy" /\ UNCHANGED users
    BY <1>0, <1>4 DEF CreateNew, At, LogsInv, TablesInPlace, Rebuild, RowsInv,
                      AsFound, Times, Tried
  <2>2. AccountsInFile'
    BY <2>1 DEF AccountsInFile, AsFound, Holds
  <2> QED
    BY <1>a, <2>1, <2>2 DEF RowsInv
<1>5. CASE Copy
  <2>1. /\ users \in Table /\ users # NoTable /\ users.type = "TEXT"
        /\ AsFound(users.rows) /\ Times(users.rows, AnyTime) /\ OldOK
        /\ \A c \in Column : Tried(c)
    BY <1>5 DEF Copy, At, LogsInv, TablesInPlace, Rebuild, MTypeOK, RowsInv, Column
  <2>2. Readable(users_new)' /\ HoldsAll(users_new)'
    BY <1>5, <2>1, CopyRows
  <2>3. UNCHANGED users /\ AsFound(users.rows)' /\ Times(users.rows, AnyTime)'
    BY <1>0, <1>5, <2>1 DEF Copy, AsFound, Times
  <2>4. AccountsInFile'
    BY <2>1, <2>3 DEF AccountsInFile, AsFound, Holds
  <2>5. stage' = "drop"
    BY <1>5 DEF Copy, At
  <2> QED
    BY <1>a, <2>1, <2>2, <2>3, <2>4, <2>5 DEF RowsInv
<1>6. CASE DropUsers
  <2>1. users_new # NoTable /\ HoldsAll(users_new) /\ Readable(users_new)
    BY <1>6 DEF DropUsers, At, LogsInv, TablesInPlace, RowsInv
  <2>2. users' = NoTable /\ UNCHANGED <<users_new, ignored>> /\ stage' = "rename"
    BY <1>6 DEF DropUsers, At
  <2>3. HoldsAll(users_new)' /\ Readable(users_new)'
    BY <1>0, <1>d, <2>1, <2>2 DEF HoldsAll, Holds, Readable, Damage
  <2>4. AccountsInFile'
    BY <2>1, <2>2, <2>3 DEF AccountsInFile, HoldsAll
  <2> QED
    BY <1>a, <2>2, <2>3, <2>4 DEF RowsInv
<1>7. CASE RenameNew
  <2>1. users_new \in Rows /\ HoldsAll(users_new) /\ Readable(users_new)
    BY <1>7 DEF RenameNew, At, LogsInv, TablesInPlace, MTypeOK, RowsInv
  <2>2. /\ users' \in Table /\ users'.rows = users_new /\ users'.type = "INTEGER"
        /\ UNCHANGED ignored /\ stage' = "fk_on"
    BY <1>7, <2>1 DEF RenameNew, At, Table
  <2>3. users' # NoTable
    BY <2>2, NoTableAssumption
  <2>4. HoldsAll(users.rows)' /\ Readable(users.rows)'
    BY <1>0, <2>1, <2>2 DEF HoldsAll, Holds, Readable, Damage
  <2>5. AccountsInFile'
    BY <2>3, <2>4 DEF AccountsInFile, HoldsAll
  <2> QED
    BY <1>a, <2>2, <2>3, <2>4, <2>5 DEF RowsInv
<1> QED
  BY <1>1, <1>2, <1>3, <1>4, <1>5, <1>6, <1>7
     DEF Next, Statement, Start, Stop, DetectTextColumns, DisableForeignKeys,
         CreateNewFails, RestoreForeignKeys, CreateLogs, AddGeoColumns,
         ConvertLogs, At, Succeeds, Fails, Column

LEMMA RowsInvariance == Spec => [](LogsInv /\ RowsInv)
<1>1. RowsInv /\ UNCHANGED vars => RowsInv'
  BY DEF RowsInv, OldOK, AccountsInFile, AsFound, HoldsAll, Holds, Damage, Times,
         Readable, Tried, vars
<1>2. LogsInv /\ RowsInv /\ [Next]_vars => RowsInv'
  BY <1>1, StepRows
<1> QED
  BY <1>2, InitRows, LogsInvariance, PTL DEF Spec

-----------------------------------------------------------------------------
\* Every table of the file keeps its type, whatever stops the migration.
THEOREM FileTyped == Spec => []MTypeOK
<1>1. LogsInv => MTypeOK
  BY DEF LogsInv
<1> QED
  BY <1>1, LogsInvariance, PTL

\* No log line is lost, although the table their foreign key refers to is
\* dropped, however often the process stops and whatever else fails, unless the
\* foreign keys could not be switched off.
THEOREM NoLogLineLost == Spec => []LogsKept
<1>1. LogsInv => LogsKept
  BY DEF LogsInv
<1> QED
  BY <1>1, LogsInvariance, PTL

\* No account disappears from the file, and of its times only those of a column
\* whose conversion failed.
THEOREM NoAccountLost == Spec => []AccountsInFile
<1>1. RowsInv => AccountsInFile
  BY DEF RowsInv
<1> QED
  BY <1>1, RowsInvariance, PTL

\* A service that runs reads every time it serves, but for the columns whose
\* conversion failed.
THEOREM ServedTimesReadable == Spec => []TimesReadable
<1>1. LogsInv /\ RowsInv => TimesReadable
  BY DEF LogsInv, TablesInPlace, LogsConverted, RowsInv, Readable, TimesReadable
<1> QED
  BY <1>1, RowsInvariance, PTL
=============================================================================
