---------------------------- MODULE Migrations ----------------------------
(***************************************************************************)
(* The migration commands of the command line tool (nestforge-cli,         *)
(* main.rs: db init, generate, migrate, status).                           *)
(*                                                                         *)
(* A project has a directory of migration files, a database, and a text    *)
(* file with one line `name|hash` for each migration that was applied.     *)
(* `db migrate` reads the applied file once, and then runs every pending   *)
(* migration, in the order of the names, in a transaction of its own and   *)
(* appends its line after the commit.  The line is written by writeln! on  *)
(* an unbuffered file, in four writes: the name, the bar, the hash and the *)
(* end of the line.  An invocation can fail at every call and be killed    *)
(* between any two, which is one action here.                              *)
(*                                                                         *)
(* A file name is its rank in the order of the names, a content is a       *)
(* member of a small set, and its hash is the content itself.              *)
(***************************************************************************)
EXTENDS Integers, Sequences, SequencesExt, FiniteSets

CONSTANTS
    Runs,        \* the invocations of db migrate
    Files,       \* the names of migration files, in their order
    Scripts,     \* contents with some SQL
    Template,    \* the content db generate writes: comments only
    Absent,      \* no such file
    Overlapping, \* the invocations that do not wait for one another
    MaxEdits     \* bound on the changes made to migration files

Contents == Scripts \cup {Template}

ASSUME MigrationsAssumption ==
    /\ Files \subseteq Nat
    /\ IsFiniteSet(Files)    \* they are in one directory
    /\ Template \notin Scripts
    /\ Absent \notin Contents
    /\ Overlapping \subseteq Runs
    /\ MaxEdits \in Nat

Name(f) == [kind |-> "name", is |-> f]
Bar == [kind |-> "bar", is |-> 0]
Hash(c) == [kind |-> "hash", is |-> c]

VARIABLES
    file,          \* file[f]: the content of migration f
    made,          \* the applied file exists
    lines,         \* its lines, each a sequence of what was written to it;
                   \* the last is the one that the next write goes to
    committed,     \* what the database committed: the migration, its script
                   \* and the invocation, in order
    skipped,       \* history: migrations that had no SQL when they were read
    phase,         \* phase[r]: where invocation r is
    todo,          \* todo[r]: the migrations r has yet to run
    sql,           \* sql[r]: the content r read
    listed,        \* listed[r]: the files r found
    edits,         \* changes made to migration files so far
    interrupted,   \* history: an invocation ended in the middle of its work
                   \* on a migration
    overlapped     \* history: two invocations ran at the same time

files == <<file, edits>>
applied == <<made, lines>>
outcome == <<committed, skipped>>
work == <<phase, todo, sql, listed>>
faults == <<interrupted, overlapped>>
migrationVars == <<files, applied, outcome, work, faults>>

-----------------------------------------------------------------------------
(* Reading the applied file. *)

\* split_once('|'): what is before the first bar and what is after it
BarIn(line) == SelectInSeq(line, LAMBDA x : x = Bar)
NameOf(line) == IF BarIn(line) = 0 THEN line ELSE SubSeq(line, 1, BarIn(line) - 1)
HashOf(line) == IF BarIn(line) = 0 THEN <<>> ELSE SubSeq(line, BarIn(line) + 1, Len(line))

LinesOf(f) == {i \in 1..Len(lines) : NameOf(lines[i]) = <<Name(f)>>}
Recorded(f) == LinesOf(f) # {}

\* read_applied_migrations keeps the last line of a name.
StoredHash(f) == HashOf(lines[CHOOSE i \in LinesOf(f) : \A j \in LinesOf(f) : j <= i])

\* db_status
Status(f) ==
    IF ~Recorded(f) THEN "pending"
    ELSE IF StoredHash(f) \in {<<>>, <<Hash(file[f])>>} THEN "applied"
    ELSE "drift"

-----------------------------------------------------------------------------
MigrationsInit ==
    /\ file = [f \in Files |-> Absent]
    /\ made = FALSE
    /\ lines = <<<<>>>>
    /\ committed = <<>>
    /\ skipped = {}
    /\ phase = [r \in Runs |-> "idle"]
    /\ todo = [r \in Runs |-> <<>>]
    /\ sql = [r \in Runs |-> Absent]
    /\ listed = [r \in Runs |-> {}]
    /\ edits = 0
    /\ interrupted = FALSE
    /\ overlapped = FALSE

Ended(r) == phase[r] \in {"done", "stopped"}
Active(r) == phase[r] # "idle" /\ ~Ended(r)

Go(r, place) == phase' = [phase EXCEPT ![r] = place]

Generate(f) ==
    /\ edits < MaxEdits
    /\ file[f] = Absent
    /\ file' = [file EXCEPT ![f] = Template]
    /\ edits' = edits + 1
    /\ UNCHANGED <<applied, outcome, work, faults>>

\* The developer writes a script, or checks out or removes a file.
Edit(f, c) ==
    /\ edits < MaxEdits
    /\ file[f] # c
    /\ file' = [file EXCEPT ![f] = c]
    /\ edits' = edits + 1
    /\ UNCHANGED <<applied, outcome, work, faults>>

\* db_init looks for the applied file ...
Start(r) ==
    /\ phase[r] = "idle"
    /\ \A s \in Runs : Active(s) => {r, s} \subseteq Overlapping
    /\ overlapped' = (overlapped \/ \E s \in Runs : Active(s))
    /\ Go(r, IF made THEN "list" ELSE "create")
    /\ UNCHANGED <<files, applied, outcome, todo, sql, listed, interrupted>>

\* ... and writes an empty one, over whatever is there by now.
CreateApplied(r) ==
    /\ phase[r] = "create"
    /\ made' = TRUE
    /\ lines' = <<<<>>>>
    /\ Go(r, "list")
    /\ UNCHANGED <<files, outcome, todo, sql, listed, faults>>

List(r) ==
    /\ phase[r] = "list"
    /\ listed' = [listed EXCEPT ![r] = {f \in Files : file[f] # Absent}]
    /\ Go(r, "pending")
    /\ UNCHANGED <<files, applied, outcome, todo, sql, faults>>

\* the members of a finite set in ascending order
Sorted(S) == CHOOSE s \in [1..Cardinality(S) -> S] :
                 \A i, j \in DOMAIN s : i < j => s[i] < s[j]

\* runs every file it found
RunAll(r) ==
    /\ phase[r] = "pending"
    /\ todo' = [todo EXCEPT ![r] = Sorted(listed[r])]
    /\ Go(r, IF listed[r] = {} THEN "done" ELSE "read")
    /\ UNCHANGED <<files, applied, outcome, sql, listed, faults>>

ReadApplied(r) ==
    LET pending == {f \in listed[r] : ~Recorded(f)} IN
    /\ phase[r] = "pending"
    /\ todo' = [todo EXCEPT ![r] = Sorted(pending)]
    /\ Go(r, IF pending = {} THEN "done" ELSE "read")
    /\ UNCHANGED <<files, applied, outcome, sql, listed, faults>>

\* A content that has no SQL is not run, and is recorded all the same.
Read(r) ==
    LET c == file[Head(todo[r])] IN
    /\ phase[r] = "read"
    /\ c # Absent
    /\ sql' = [sql EXCEPT ![r] = c]
    /\ IF c = Template
       THEN Go(r, "name") /\ skipped' = skipped \cup {Head(todo[r])}
       ELSE Go(r, "commit") /\ UNCHANGED skipped
    /\ UNCHANGED <<files, applied, committed, todo, listed, faults>>

Commit(r) ==
    /\ phase[r] = "commit"
    /\ committed' = Append(committed,
           [name |-> Head(todo[r]), script |-> sql[r], by |-> r])
    /\ Go(r, "name")
    /\ UNCHANGED <<files, applied, skipped, todo, sql, listed, faults>>

WriteToLine(x) == lines' = [lines EXCEPT ![Len(lines)] = Append(@, x)]

WriteName(r) ==
    /\ phase[r] = "name"
    /\ WriteToLine(Name(Head(todo[r])))
    /\ Go(r, "bar")
    /\ UNCHANGED <<files, made, outcome, todo, sql, listed, faults>>

WriteBar(r) ==
    /\ phase[r] = "bar"
    /\ WriteToLine(Bar)
    /\ Go(r, "hash")
    /\ UNCHANGED <<files, made, outcome, todo, sql, listed, faults>>

\* hashes the file as it is now, and not the script that was run
HashAgain(r) ==
    /\ phase[r] = "hash"
    /\ WriteToLine(Hash(file[Head(todo[r])]))
    /\ Go(r, "newline")
    /\ UNCHANGED <<files, made, outcome, todo, sql, listed, faults>>

WriteHash(r) ==
    /\ phase[r] = "hash"
    /\ WriteToLine(Hash(sql[r]))
    /\ Go(r, "newline")
    /\ UNCHANGED <<files, made, outcome, todo, sql, listed, faults>>

EndLine(r) ==
    /\ phase[r] = "newline"
    /\ lines' = Append(lines, <<>>)
    /\ todo' = [todo EXCEPT ![r] = Tail(@)]
    /\ Go(r, IF Len(todo[r]) = 1 THEN "done" ELSE "read")
    /\ UNCHANGED <<files, made, outcome, sql, listed, faults>>

\* a script that fails is left for later, and the next one is run
SkipFailed(r) ==
    /\ Active(r)
    /\ IF phase[r] = "commit" /\ Len(todo[r]) > 1
       THEN /\ todo' = [todo EXCEPT ![r] = Tail(@)]
            /\ Go(r, "read")
            /\ UNCHANGED interrupted
       ELSE /\ Go(r, "stopped")
            /\ interrupted' = (interrupted \/ phase[r] \in {"name", "bar", "hash", "newline"})
            /\ UNCHANGED todo
    /\ UNCHANGED <<files, applied, outcome, sql, listed, overlapped>>

\* A call fails and `?` returns its error, or the process is killed.  The
\* transaction that is open is rolled back.
Stop(r) ==
    /\ Active(r)
    /\ Go(r, "stopped")
    /\ interrupted' = (interrupted \/ phase[r] \in {"name", "bar", "hash", "newline"})
    /\ UNCHANGED <<files, applied, outcome, todo, sql, listed, overlapped>>

MigrationsNext ==
    \/ \E f \in Files : Generate(f)
    \/ \E f \in Files, c \in Scripts \cup {Absent} : Edit(f, c)
    \/ \E r \in Runs :
          \/ Start(r) \/ CreateApplied(r) \/ List(r) \/ ReadApplied(r)
          \/ Read(r) \/ Commit(r)
          \/ WriteName(r) \/ WriteBar(r) \/ WriteHash(r) \/ EndLine(r)
          \/ Stop(r)

MigrationsSpec == MigrationsInit /\ [][MigrationsNext]_migrationVars

-----------------------------------------------------------------------------
(* Properties *)

TypeOK ==
    /\ file \in [Files -> Contents \cup {Absent}]
    /\ made \in BOOLEAN
    /\ lines \in Seq(Seq([kind: {"name", "bar", "hash"}, is: Files \cup {0} \cup Contents]))
    /\ lines # <<>>
    /\ committed \in Seq([name: Files, script: Scripts, by: Runs])
    /\ skipped \subseteq Files
    /\ phase \in [Runs -> {"idle", "create", "list", "pending", "read", "commit",
                        "name", "bar", "hash", "newline", "done", "stopped"}]
    /\ todo \in [Runs -> Seq(Files)]
    /\ \A r \in Runs : (Active(r) /\ phase[r] \notin {"create", "list", "pending"}) => todo[r] # <<>>
    /\ sql \in [Runs -> Contents \cup {Absent}]
    /\ listed \in [Runs -> SUBSET Files]
    /\ edits \in 0..MaxEdits
    /\ {interrupted, overlapped} \subseteq BOOLEAN

Ran(f, c) == \E i \in DOMAIN committed : committed[i].name = f /\ committed[i].script = c
Undisturbed == ~interrupted /\ ~overlapped

\* What the applied file says is true, whatever failed, was killed or was edited
\* meanwhile.  A name stands in it only for a migration that was committed or
\* had no SQL, though invocations mix their writes within a line; and when they
\* wait for one another, the script whose hash it stores was committed.
\* (db_migrate hashes the text it ran, and appends after the commit.)
RecordsAreTrue ==
    /\ TypeOK
    /\ \A f \in Files : Recorded(f) =>
          /\ f \in skipped \/ \E c \in Scripts : Ran(f, c)
          /\ \A c \in Scripts :
                ~overlapped /\ StoredHash(f) = <<Hash(c)>> => Ran(f, c)

\* No migration is run twice, and an invocation that completes leaves nothing it
\* found pending, unless one ended after a commit and before the end of the
\* line that records it, or ran beside another.
OnceUnlessDisturbed ==
    Undisturbed =>
        /\ \A i, j \in DOMAIN committed : committed[i].name = committed[j].name => i = j
        /\ \A r \in Runs : phase[r] = "done" => \A f \in listed[r] : Recorded(f)

\* When an invocation commits a script, every migration before it that it found
\* was committed, by whichever invocation, or had no SQL: the first that fails
\* ends the invocation.  This is so however invocations are interrupted or
\* overlap; and if none was, those migrations are on record too.
EarlierFirst ==
    [][\A r \in Runs : phase[r] = "commit" /\ phase'[r] = "name" =>
          \A f \in listed[r] : f < Head(todo[r]) =>
              /\ f \in skipped \/ \E c \in Scripts : Ran(f, c)
              /\ Undisturbed => Recorded(f)]_migrationVars

\* docs/cli-guide.md, db status: "Shows `applied`, `pending`, and `drift`
\* migration status."  What an invocation committed and recorded to the end of
\* the line is not shown as pending once it completed.
AppliedIsNotPending ==
    \A i \in DOMAIN committed : phase[committed[i].by] = "done"
                                   => Status(committed[i].name) # "pending"
=============================================================================
