-------------------------- MODULE MasterKeyRotation --------------------------
(***************************************************************************)
(* cypra admin rotate-master-key: the wrapped DEK of every encrypted row   *)
(* is unwrapped with the old master key and wrapped with the new one.      *)
(*   internal/crypto/master_key_rotation.go   Start, Resume, countRows,    *)
(*       loadState, targetRows, rewrapRow, rewrapValue, ConfirmCutover     *)
(*   cmd/cypra/main.go                        adminRotateMasterKey         *)
(*                                                                         *)
(* The command runs in a process of its own beside the server, which keeps *)
(* writing rows under the one key it was started with.  It can be stopped  *)
(* at any point and started again with --resume.  A rotation commits row   *)
(* by row; what it knows of a column is what it read when it came to it.   *)
(* One rotation is modelled, resumed by any number of processes.           *)
(***************************************************************************)
EXTENDS Naturals, FiniteSets, Sequences

CONSTANTS
    Columns,    \* registered encrypted columns: a sequence of sets of rows, which
                \* are numbered in the order of the columns and of their ids
    Rotator,    \* rotate-master-key commands that can run at once
    MaxWrites   \* bound on the server's writes during the rotation

Row == UNION {Columns[i] : i \in 1..Len(Columns)}

ASSUME ColumnsAssumption ==
    /\ Columns \in Seq(SUBSET Nat)
    /\ \A i, j \in 1..Len(Columns) : i < j => \A a \in Columns[i], b \in Columns[j] : a < b
    /\ IsFiniteSet(Row)
    /\ MaxWrites \in Nat

VARIABLES
    wrap,     \* the key a row's DEK is wrapped with
    phase,    \* master_key_rotations.phase
    total,    \* rows_total
    done,     \* rows_done
    run,      \* the Resume each process executes
    writes,   \* history: writes and deletes of the server since Start
    written,  \* history: rows the server wrote since Start
    grown,    \* history: one of these rows was new
    shared    \* history: two processes were in Resume at once

rotVars == <<phase, total, done>>
serverVars == <<writes, written, grown>>
mkvars == <<wrap, rotVars, run, serverVars, shared>>

Wraps  == {"absent", "old", "new"}
Phases == {"none", "rewrap", "cutover", "done"}

(***************************************************************************)
(* A Resume.  col is the next column to read; list the rows of the current *)
(* column that are left, newer those whose value targetRows read was       *)
(* wrapped with the new key; seen, from and goal are seen, rowsDone and    *)
(* rowsTotal.                                                              *)
(***************************************************************************)
Resuming == [on : BOOLEAN, col : Nat, list : SUBSET Row, newer : SUBSET Row,
             seen : Nat, from : Nat, goal : Nat]

NotRunning == [on |-> FALSE, col |-> 0, list |-> {}, newer |-> {},
               seen |-> 0, from |-> 0, goal |-> 0]

Present == {r \in Row : wrap[r] # "absent"}

(* ORDER BY the id: the number of x among the rows S.                      *)
Number(S, x) == Cardinality({y \in S : y <= x})

targetRows(column) == Present \cap column

MKInit ==
    /\ wrap \in [Row -> {"absent", "old"}]
    /\ phase = "none" /\ total = 0 /\ done = 0
    /\ run = [p \in Rotator |-> NotRunning]
    /\ writes = 0 /\ written = {} /\ grown = FALSE /\ shared = FALSE

-----------------------------------------------------------------------------
(* Resume: loadState, and the first column is next.                        *)
Begin(p, from, goal) ==
    /\ run' = [run EXCEPT ![p] = [NotRunning EXCEPT !.on = TRUE, !.col = 1,
                                                    !.from = from, !.goal = goal]]
    /\ shared' = (shared \/ \E q \in Rotator \ {p} : run[q].on)

(* Start: countRows, the INSERT, and Resume.                               *)
Start(p) ==
    /\ phase = "none"
    /\ phase' = "rewrap"
    /\ total' = Cardinality(Present)
    /\ done' = 0
    /\ Begin(p, 0, total')
    /\ UNCHANGED <<wrap, serverVars>>

Resume(p) ==
    /\ ~run[p].on
    /\ phase \in {"rewrap", "cutover"}
    /\ Begin(p, done, total)
    /\ UNCHANGED <<wrap, rotVars, serverVars>>

(* How many rows of a column earlier runs have rewrapped.                  *)
Skipped(r, rows) ==
    LET upto == IF r.from <= r.goal THEN r.from ELSE r.goal
    IN  IF r.seen >= upto THEN 0
        ELSE IF r.seen + Cardinality(rows) <= upto THEN Cardinality(rows)
        ELSE upto - r.seen

(* targetRows of the next column.  Rows counted by rows_done are skipped,  *)
(* rows beyond rows_total are not looked at.                               *)
ReadColumn(p) ==
    LET r    == run[p]
        rows == targetRows(Columns[r.col])
        skip == Skipped(r, rows)
        list == {x \in rows : skip < Number(rows, x) /\ r.seen + Number(rows, x) <= r.goal}
    IN  /\ r.on /\ r.list = {} /\ r.col <= Len(Columns)
        /\ run' = [run EXCEPT ![p].col = @ + 1, ![p].list = list,
                              ![p].newer = {x \in list : wrap[x] = "new"},
                              ![p].seen = @ + skip]
        /\ UNCHANGED <<wrap, rotVars, serverVars, shared>>

(* Fault: rows_done is written after the commit of the row, and lost.      *)
Progress_Behind(r) == r.seen

(* rows_done = seen + 1                                                    *)
Progress(r) == r.seen + 1

(* The row the loop over the column has reached.                           *)
Reached(r, x) == x \in r.list /\ \A y \in r.list : x <= y

(* rewrapRow: the row and rows_done are written in one transaction.  The   *)
(* row is updated by its id, whatever it holds now; if it is gone the      *)
(* UPDATE changes nothing.                                                 *)
RewrapRow(p, x) ==
    LET r == run[p]
    IN  /\ r.on /\ Reached(r, x)
        /\ x \notin r.newer
        /\ wrap' = [wrap EXCEPT ![x] = IF @ = "absent" THEN @ ELSE "new"]
        /\ done' = Progress(r)
        /\ run' = [run EXCEPT ![p].list = @ \ {x}, ![p].seen = @ + 1]
        /\ UNCHANGED <<phase, total, serverVars, shared>>

(* rewrapValue cannot unwrap the row with the old key: Resume fails.       *)
RewrapFails(p) ==
    /\ run[p].on
    /\ \E x \in run[p].newer : Reached(run[p], x)
    /\ run' = [run EXCEPT ![p] = NotRunning]
    /\ UNCHANGED <<wrap, rotVars, serverVars, shared>>

(* Resume ends early: ErrRotationIncomplete when MaxRows rows are done, a  *)
(* failed statement, or the command is stopped.                            *)
Interrupt(p) ==
    /\ run[p].on
    /\ run' = [run EXCEPT ![p] = NotRunning]
    /\ UNCHANGED <<wrap, rotVars, serverVars, shared>>

(* Fault: the rows that were seen are not compared with rows_total.        *)
Complete_Unchecked(r) == TRUE

(* seen < rowsTotal is an error, row count drift.                          *)
Complete(r) == r.seen >= r.goal

(* Resume has read every column.                                           *)
Cutover(p) ==
    LET r == run[p]
    IN  /\ r.on /\ r.list = {} /\ r.col > Len(Columns)
        /\ phase' = IF Complete(r) THEN "cutover" ELSE phase
        /\ run' = [run EXCEPT ![p] = NotRunning]
        /\ UNCHANGED <<wrap, total, done, serverVars, shared>>

(* --confirm-cutover: the phase is not looked at.                          *)
ConfirmCutover ==
    /\ phase # "none"
    /\ phase' = "done"
    /\ UNCHANGED <<wrap, total, done, run, serverVars, shared>>

(* The server writes a secret under the key it was started with, which is  *)
(* the new one only after an operator restarted it, done with the rotation.*)
ServerWrites(r) ==
    /\ phase # "none" /\ writes < MaxWrites
    /\ \/ wrap' = [wrap EXCEPT ![r] = "old"]
       \/ phase = "done" /\ wrap' = [wrap EXCEPT ![r] = "new"]
    /\ writes' = writes + 1
    /\ written' = written \cup {r}
    /\ grown' = (grown \/ r \notin Present)
    /\ UNCHANGED <<rotVars, run, shared>>

(* The server deletes a secret, with its row.                              *)
ServerDeletes(r) ==
    /\ phase # "none" /\ writes < MaxWrites
    /\ r \in Present
    /\ wrap' = [wrap EXCEPT ![r] = "absent"]
    /\ writes' = writes + 1
    /\ UNCHANGED <<rotVars, run, written, grown, shared>>

MKNext ==
    \/ \E p \in Rotator : \/ Start(p) \/ Resume(p) \/ ReadColumn(p)
                          \/ \E x \in run[p].list : RewrapRow(p, x)
                          \/ RewrapFails(p) \/ Interrupt(p) \/ Cutover(p)
    \/ ConfirmCutover
    \/ \E r \in Row : ServerWrites(r) \/ ServerDeletes(r)

MKSpec == MKInit /\ [][MKNext]_mkvars

-----------------------------------------------------------------------------
(* Rows, the progress record and the runs have their types; progress never *)
(* exceeds the rows counted at the start.                                  *)
RotationTypeOK ==
    /\ wrap \in [Row -> Wraps]
    /\ phase \in Phases /\ total \in 0..Cardinality(Row) /\ done \in 0..total
    /\ run \in [Rotator -> Resuming]
    /\ writes \in 0..MaxWrites /\ written \subseteq Row /\ grown \in BOOLEAN /\ shared \in BOOLEAN

(* ADR-0004: each rewrap commits with rows_done, so that a resumed run     *)
(* continues exactly where the last one stopped and never unwraps a        *)
(* rewrapped row with the old key, however often it was interrupted.  The  *)
(* code ensures it while the server writes nothing and one command runs at *)
(* a time.                                                                 *)
ResumePoint ==
    phase # "none" /\ writes = 0 /\ ~shared =>
        \A x \in Present : wrap[x] = "new" <=> Number(Present, x) <= done

(* A rotation that reports its cutover has rewrapped every row the server  *)
(* did not write meanwhile, even when several commands resumed it at once  *)
(* and rows were deleted under their lists: the count of rows catches what *)
(* a shifted list skips.  A row the server adds is not covered: it shifts  *)
(* the lists without being counted.                                        *)
CutoverComplete ==
    phase = "cutover" /\ ~grown => \A r \in Present \ written : wrap[r] = "new"

=============================================================================
