----------------------------- MODULE DbUpgrade -----------------------------
(***************************************************************************)
(* The database at a launch: create_all and run_migrations of init_db      *)
(* (db.py, db_migrations.py) and the backup before them (db_backup.py).    *)
(*                                                                         *)
(* The desktop application and `openboson serve' may launch at the same    *)
(* time over one file, and a process may end between any two statements.   *)
(* The driver opens a transaction at the first INSERT or UPDATE only: what *)
(* is created or altered before it is committed at once.  A statement that *)
(* writes waits for another's transaction, or fails after a while.         *)
(*                                                                         *)
(* A table is the set of its columns and its rows, functions on them.  The *)
(* columns no migration adds are one, "kept".                              *)
(***************************************************************************)
EXTENDS Integers, Sequences, FiniteSetsExt

CONSTANTS
    Processes,      \* the application, the server
    OldSessions,    \* rows of exam_sessions an older version left: ids
    OldAnswers,     \* rows of user_answers
    CodeOf(_),      \* exam_code of the exam a session refers to, '' without one
    MaxBackups,     \* MAX_BACKUPS
    MaxLaunches, MaxKills   \* bounds of a run

ASSUME BackupAssumption == MaxBackups \in Nat \ {0}

\* Ids are positive; no process has the name that stands for none.
ASSUME OldRowsAssumption == IsFiniteSet(OldSessions) /\ OldSessions \subseteq Nat \ {0}
ASSUME ProcessAssumption == "nobody" \notin Processes

VARIABLES
    db,             \* the file: tables, the stamped version
    txn,            \* the open transaction: its process and what it has written
    proc,           \* process |-> where its launch is, and what it has read
    backups,        \* the files in backups/, finished or not
    installed,      \* history: an older version left the file
    saved,          \* history: the sessions the application has saved since
    raced,          \* history: two launches ran at the same time
    cut,            \* history: a launch ended in the middle of a rebuild
    launches, kills

dbVars == <<db, txn, proc, backups, installed, saved, raced, cut, launches, kills>>

V1Sessions == {"exam_code", "exam_version"}
V1Answers == {"bank_question_id"}
V2Answers == <<"topic_code", "cert_tag", "exam_version">>
V3Sessions == <<"engine_session_id", "status", "blueprint_id", "current_index",
                "remaining_seconds", "paused_at", "last_active_at", "state_json">>
Names(columns) == {columns[i] : i \in DOMAIN columns}

\* Whether the exam row of an old session is known does not change; a column
\* added later has its default.
Default(column) == IF column = "status" THEN "finished" ELSE "default"
OldRow(id, columns) ==
    [c \in {"kept"} \cup columns |-> IF c = "kept" THEN id
                                     ELSE IF c = "exam_code" THEN CodeOf(id) ELSE Default(c)]
Table(ids, columns) == [cols |-> {"kept"} \cup columns, rows |-> [id \in ids |-> OldRow(id, columns)]]

\* No file; one from before the migrations; one that an earlier version stamped.
NoTable == [cols |-> {}, rows |-> <<>>]
NoFile == [sessions |-> NoTable, answers |-> NoTable, new |-> {}, stamp |-> 0]
FileOf(version) ==
    [sessions |-> Table(OldSessions, (IF version >= 1 THEN V1Sessions ELSE {})
                                     \cup (IF version >= 3 THEN Names(V3Sessions) ELSE {})),
     answers |-> Table(OldAnswers, (IF version >= 1 THEN V1Answers ELSE {})
                                   \cup (IF version >= 2 THEN Names(V2Answers) ELSE {})),
     new |-> {}, stamp |-> version]

Versions == 0..3
Off == [step |-> "off"]

DbInit ==
    /\ db = NoFile /\ txn = [by |-> "nobody"]
    /\ proc = [p \in Processes |-> Off]
    /\ backups = {} /\ installed = FALSE /\ saved = {}
    /\ raced = FALSE /\ cut = FALSE
    /\ launches = 0 /\ kills = 0

\* The file an older version left, before anything runs.
Install(version) ==
    /\ launches = 0 /\ db = NoFile
    /\ db' = FileOf(version) /\ installed' = TRUE
    /\ UNCHANGED <<txn, proc, backups, saved, raced, cut, launches, kills>>

-----------------------------------------------------------------------------
(* Statements.                                                             *)

Mine(p) == txn.by = p
Sees(p) == IF Mine(p) THEN txn.db ELSE db
Free(p) == txn.by \in {"nobody", p}

\* A statement that defines: committed at once outside a transaction.
Define(p, content) ==
    /\ Free(p)
    /\ IF Mine(p) THEN txn' = [txn EXCEPT !.db = content] /\ UNCHANGED db
       ELSE db' = content /\ UNCHANGED txn

\* A statement that changes rows: it opens the transaction.
Change(p, content) ==
    /\ Free(p)
    /\ txn' = [by |-> p, db |-> content]
    /\ UNCHANGED db

Rollback(p) == IF Mine(p) THEN txn' = [by |-> "nobody"] ELSE UNCHANGED txn

Goto(p, state) == proc' = [proc EXCEPT ![p] = state]

Launching(p) == proc[p].step \notin {"off", "failed", "up"}

\* Between the creation of a new table, committed at once, and the commit of the
\* transaction that fills and renames it: a rollback leaves it behind.
Exposed(p) == Launching(p) /\ db.new # {}

\* An exception leaves init_db.
Fails(p) ==
    /\ Goto(p, [step |-> "failed"])
    /\ Rollback(p)
    /\ cut' = (cut \/ Exposed(p))
    /\ UNCHANGED <<db, backups, installed, saved, raced, launches, kills>>

Keeps == UNCHANGED <<backups, installed, saved, raced, cut, launches, kills>>

-----------------------------------------------------------------------------
(* A launch.                                                               *)

\* create_all looks which tables are there...
Launch(p) ==
    /\ proc[p].step \in {"off", "failed"} /\ launches < MaxLaunches
    /\ launches' = launches + 1
    /\ Goto(p, [step |-> "create", missing |-> (IF db.sessions = NoTable THEN {"sessions"} ELSE {})
                                               \cup (IF db.answers = NoTable THEN {"answers"} ELSE {})])
    /\ raced' = (raced \/ \E q \in Processes \ {p} : Launching(q))
    /\ UNCHANGED <<db, txn, backups, installed, saved, cut, kills>>

\* ...and creates the missing ones, sessions first.
AllColumns(table) == IF table = "sessions" THEN V1Sessions \cup Names(V3Sessions)
                     ELSE V1Answers \cup Names(V2Answers)

CreateTable(p) ==
    LET missing == proc[p].missing
        table == IF "sessions" \in missing THEN "sessions" ELSE "answers"
    IN  /\ proc[p].step = "create" /\ missing # {} /\ db[table] = NoTable
        /\ Define(p, [db EXCEPT ![table] = Table({}, AllColumns(table))])
        /\ Goto(p, [proc[p] EXCEPT !.missing = @ \ {table}])
        /\ Keeps

\* Another launch has created it meanwhile.
CreateFails(p) ==
    /\ proc[p].step = "create" /\ \E table \in proc[p].missing : db[table] # NoTable
    /\ Fails(p)

\* run_migrations: the version table, the version, and a backup first when an
\* upgrade of a stamped file is due.
ReadVersion(p) ==
    /\ proc[p].step = "create" /\ proc[p].missing = {}
    /\ Free(p)
    /\ Goto(p, [step |-> CASE db.stamp = 0 -> "migrate" [] db.stamp = 3 -> "commit" [] OTHER -> "backup",
                version |-> db.stamp])
    /\ UNCHANGED <<db, txn>> /\ Keeps

\* backup_database opens the file of its version and second, and so empties one
\* that was begun in that second.  The launches so far are noted if no other runs.
BeginCopy(p) ==
    LET seconds == {c.second : c \in backups} \cup {0}
    IN  /\ proc[p].step = "backup"
        /\ \E second \in {Max(seconds), Max(seconds) + 1} \ {0} :
              /\ backups' = {c \in backups : c.second # second}
                            \cup {[second |-> second, file |-> NoFile, done |-> FALSE]}
              /\ Goto(p, [step |-> "copying", version |-> proc[p].version, second |-> second,
                          since |-> IF \E q \in Processes \ {p} : Launching(q) THEN 0 ELSE launches])
        /\ UNCHANGED <<db, txn, installed, saved, raced, cut, launches, kills>>

\* shutil.copy2 takes no lock: if another launch may have written meanwhile, the copy
\* is the file or a mix that is of no use.
Copied(p) == {db} \cup IF proc[p].since = launches THEN {} ELSE {NoFile}

\* The files are pruned by their time of modification.  A finished copy has the
\* database's, which may be the same for the next; a copy that was cut off has
\* that of its last write, later than the database's.
SurelyNewer(c, d) == c.second > d.second /\ (~c.done \/ (d.done /\ c.file # d.file))

\* _prune_backups leaves MAX_BACKUPS of the newest (that a file cannot be removed, and
\* stays, is left out).
Pruned(copies) ==
    {kept \in kSubset(Min({MaxBackups, Cardinality(copies)}), copies) :
        \A c \in kept, d \in copies \ kept : ~SurelyNewer(d, c)}

\* The copy has ended, and its file is there: another launch may have pruned it.
EndCopy(p) ==
    /\ proc[p].step = "copying" /\ \E c \in backups : c.second = proc[p].second
    /\ \E file \in Copied(p) :
          backups' \in Pruned({c \in backups : c.second # proc[p].second}
                              \cup {[second |-> proc[p].second, file |-> file, done |-> TRUE]})
    /\ Goto(p, [step |-> "migrate", version |-> proc[p].version])
    /\ UNCHANGED <<db, txn, installed, saved, raced, cut, launches, kills>>

\* A failure is logged, before there is a file or with a part of it written, which
\* stays; nothing is pruned, and the migrations go on.
BackupFails(p) ==
    /\ proc[p].step \in {"backup", "copying"}
    /\ Goto(p, [step |-> "migrate", version |-> proc[p].version])
    /\ UNCHANGED <<db, txn>> /\ Keeps

\* The next migration reads the columns it is about: _migrate_v1_exam_identity
\* for one table after the other, _migrate_v2_answer_objective_identity,
\* _migrate_v3_active_exam_sessions.
\* A mutant adds all; another takes the first column for all of them.
MissingFromAll(columns, table) == Names(columns)
MissingFromMutant(columns, table) == IF Head(columns) \in table.cols THEN {} ELSE Names(columns)

MissingFrom(columns, table) == Names(columns) \ table.cols

ReadColumns(p) ==
    LET v == proc[p].version
        seen == Sees(p)
        at(step, table, todo) == [step |-> step, version |-> v, table |-> table, todo |-> todo]
    IN  /\ proc[p].step = "migrate"
        /\ Goto(p, CASE v = 0 /\ ~(V1Sessions \subseteq seen.sessions.cols) -> at("new", "sessions", {})
                     [] v = 0 /\ V1Sessions \subseteq seen.sessions.cols -> at("answers", "answers", {})
                     [] v = 1 -> at("add", "answers", MissingFrom(V2Answers, seen.answers))
                     [] v = 2 -> at("add", "sessions", MissingFrom(V3Sessions, seen.sessions)))
        /\ UNCHANGED <<db, txn>> /\ Keeps

ReadAnswers(p) ==
    /\ proc[p].step = "answers"
    /\ Goto(p, [proc[p] EXCEPT !.step = IF V1Answers \subseteq Sees(p).answers.cols THEN "stamp" ELSE "new",
                               !.table = "answers"])
    /\ UNCHANGED <<db, txn>> /\ Keeps

\* _rebuild_exam_sessions, _rebuild_user_answers: CREATE TABLE ..._new...
CreateNew(p) ==
    /\ proc[p].step = "new" /\ proc[p].table \notin Sees(p).new
    /\ Define(p, [Sees(p) EXCEPT !.new = @ \cup {proc[p].table}])
    /\ Goto(p, [proc[p] EXCEPT !.step = "copy"])
    /\ Keeps

NewExists(p) ==
    /\ proc[p].step = "new" /\ proc[p].table \in Sees(p).new
    /\ Fails(p)

\* ...INSERT ... SELECT into it, DROP the old one, RENAME.  The statements after
\* the INSERT are in its transaction, and seen by no other process before the
\* commit: they are one step.
RebuiltSessions(table) ==
    [cols |-> {"kept"} \cup V1Sessions,
     rows |-> [id \in DOMAIN table.rows |-> OldRow(table.rows[id]["kept"], V1Sessions)]]

RebuiltAnswers(table) ==
    [cols |-> {"kept"} \cup V1Answers,
     rows |-> [id \in DOMAIN table.rows |-> OldRow(table.rows[id]["kept"], V1Answers)]]

CopyAndSwap(p) ==
    LET table == proc[p].table
        seen == Sees(p)
    IN  /\ proc[p].step = "copy"
        /\ Change(p, [seen EXCEPT
              ![table] = IF table = "sessions" THEN RebuiltSessions(@) ELSE RebuiltAnswers(@),
              !.new = @ \ {table}])
        /\ Goto(p, [proc[p] EXCEPT !.step = IF table = "sessions" THEN "answers" ELSE "stamp"])
        /\ Keeps

\* ALTER TABLE ... ADD COLUMN, one by one.
WithColumn(table, c) ==
    [cols |-> table.cols \cup {c},
     rows |-> [id \in DOMAIN table.rows |->
                 [d \in table.cols \cup {c} |-> IF d = c THEN Default(c) ELSE table.rows[id][d]]]]

IsNext(c, columns, todo) ==
    /\ c \in todo
    /\ \E i \in DOMAIN columns : columns[i] = c /\ \A j \in 1..(i - 1) : columns[j] \notin todo

NextToAdd(p, c) == IsNext(c, IF proc[p].table = "answers" THEN V2Answers ELSE V3Sessions, proc[p].todo)

AddColumn(p, c) ==
    LET table == proc[p].table
    IN  /\ proc[p].step = "add" /\ NextToAdd(p, c) /\ c \notin Sees(p)[table].cols
        /\ Define(p, [Sees(p) EXCEPT ![table] = WithColumn(@, c)])
        /\ Goto(p, [proc[p] EXCEPT !.todo = @ \ {c}])
        /\ Keeps

ColumnExists(p, c) ==
    /\ proc[p].step = "add" /\ NextToAdd(p, c)
    /\ c \in Sees(p)[proc[p].table].cols
    /\ Fails(p)

\* The indexes come next; in version 3 an UPDATE of rows without a status, of
\* which there are none, opens the transaction.
Added(p) ==
    /\ proc[p].step = "add" /\ proc[p].todo = {} /\ Free(p)
    /\ Goto(p, [proc[p] EXCEPT !.step = "stamp"])
    /\ IF proc[p].version = 2 THEN Change(p, Sees(p)) ELSE UNCHANGED <<db, txn>>
    /\ Keeps

\* _write_version
Stamp(p) ==
    LET v == proc[p].version + 1
    IN  /\ proc[p].step = "stamp"
        /\ Change(p, [Sees(p) EXCEPT !.stamp = v])
        /\ Goto(p, [step |-> IF v = 3 THEN "commit" ELSE "migrate", version |-> v])
        /\ Keeps

\* A statement that writes waits too long for another's transaction.
Locked(p) ==
    /\ Launching(p) /\ proc[p].step \notin {"backup", "copying", "commit"} /\ ~Free(p)
    /\ Fails(p)

\* engine.begin() commits.
Commit(p) ==
    /\ proc[p].step = "commit"
    /\ IF Mine(p) THEN db' = txn.db /\ txn' = [by |-> "nobody"] ELSE UNCHANGED <<db, txn>>
    /\ Goto(p, [step |-> "up"])
    /\ Keeps

\* The application saves an exam in progress, once in a run.
SaveExam(p) ==
    LET id == Max(DOMAIN db.sessions.rows \cup {0}) + 1
    IN  /\ proc[p].step = "up" /\ txn.by = "nobody" /\ saved = {}
        /\ db' = [db EXCEPT !.sessions.rows =
                    [x \in DOMAIN @ \cup {id} |->
                       IF x # id THEN @[x]
                       ELSE [c \in db.sessions.cols |->
                               CASE c = "kept" -> id [] c = "status" -> "active" [] OTHER -> "set"]]]
        /\ saved' = saved \cup {id}
        /\ UNCHANGED <<txn, proc, backups, installed, raced, cut, launches, kills>>

\* A process ends, at any point.
Kill(p) ==
    /\ proc[p].step # "off" /\ kills < MaxKills
    /\ kills' = kills + 1
    /\ cut' = (cut \/ Exposed(p))
    /\ Goto(p, Off)
    /\ Rollback(p)
    /\ UNCHANGED <<db, backups, installed, saved, raced, launches>>

DbNext ==
    \/ \E version \in Versions : Install(version)
    \/ \E p \in Processes :
          \/ Launch(p) \/ CreateTable(p) \/ CreateFails(p) \/ ReadVersion(p)
          \/ BeginCopy(p) \/ EndCopy(p) \/ BackupFails(p)
          \/ ReadColumns(p) \/ ReadAnswers(p) \/ CreateNew(p) \/ NewExists(p) \/ CopyAndSwap(p)
          \/ \E c \in AllColumns("sessions") \cup AllColumns("answers") : AddColumn(p, c) \/ ColumnExists(p, c)
          \/ Added(p) \/ Stamp(p) \/ Locked(p) \/ Commit(p)
          \/ SaveExam(p) \/ Kill(p)

DbSpec == DbInit /\ [][DbNext]_dbVars

-----------------------------------------------------------------------------
(* Properties.                                                             *)

\* What each stamped version says of the tables.
StampTrue(file) ==
    /\ file.stamp >= 1 => /\ V1Sessions \subseteq file.sessions.cols
                          /\ V1Answers \subseteq file.answers.cols
    /\ file.stamp >= 2 => Names(V2Answers) \subseteq file.answers.cols
    /\ file.stamp >= 3 => Names(V3Sessions) \subseteq file.sessions.cols

\* All the rows of before are there, each with its identity once there is a
\* column for it.
OldRowsIn(file) ==
    /\ OldSessions \subseteq DOMAIN file.sessions.rows
    /\ OldAnswers \subseteq DOMAIN file.answers.rows
    /\ "exam_code" \in file.sessions.cols =>
          \A id \in OldSessions : file.sessions.rows[id]["exam_code"] = CodeOf(id)

\* Whatever ends in between and whichever launches overlap, the file on the disk
\* has the tables its version promises and all the rows an older version left
\* (run_migrations).  Unless launches raced, so has each backup whose copy ended
\* (a copy takes no lock; one that was cut off is a part of a file, under the name of a
\* backup), and what the application has saved since stays as it was: a launch that
\* read the columns before another's commit rebuilds the other's table.
UpgradeSound ==
    /\ StampTrue(db)
    /\ installed => /\ OldRowsIn(db)
                    /\ \A c \in backups : c.done => raced \/ OldRowsIn(c.file)
    /\ \A id \in saved : /\ id \in DOMAIN db.sessions.rows
                         /\ raced \/ db.sessions.rows[id]["status"] = "active"

\* init_db "(idempotent)": a launch that ran alone has not failed, unless an
\* earlier one ended after a rebuild had begun and before the commit: the new table
\* is left behind, and CREATE TABLE fails from then on.
LaunchSucceeds ==
    \A p \in Processes : proc[p].step = "failed" => raced \/ cut
=============================================================================
