--------------------------- MODULE SizeVerification ---------------------------
(***************************************************************************)
(* The script buildVerificationScript generates (k8s/verify.go), and       *)
(* ParseVerificationLogs, which turns its output into a verdict.           *)
(*                                                                         *)
(* A server is a function from the names of its databases to their sizes   *)
(* in bytes, so DOMAIN is the listing psql prints.  Sizes stay far below   *)
(* 2^63 / 100, where the shell's product would wrap (92 petabytes).        *)
(***************************************************************************)
EXTENDS Integers, FiniteSets

CONSTANTS
    Database,       \* names of databases
    Size,           \* sizes a database may have
    Excluded,       \* options.exclude_databases
    SourceDatabase  \* source.database, of the single-database mode

ASSUME SizeAssumption == Size \subseteq Nat
ASSUME NameAssumption == SourceDatabase \in Database

VARIABLES
    AllDatabases,   \* options.all_databases, the mode of this migration
    source, target, \* what the two servers answer
    todo,           \* source lines not read yet
    lines,          \* DB|... lines printed: database -> status
    counts,         \* the shell variables TOTAL, MATCHED, MISSING, MISMATCH
    verdict         \* "running", then Verification.Status

vars == <<AllDatabases, source, target, todo, lines, counts, verdict>>

LineStatus == {"ok", "missing", "size_mismatch"}
Server == UNION {[D -> Size] : D \in SUBSET Database}

TypeOK ==
    /\ AllDatabases \in BOOLEAN
    /\ source \in Server /\ target \in Server
    /\ todo \subseteq Database
    /\ lines \in UNION {[D -> LineStatus] : D \in SUBSET Database}
    /\ counts \in [{"total", "ok", "missing", "size_mismatch"} -> Nat]
    /\ verdict \in {"running", "passed", "failed"}

\* db := src.Database, whether target.database is set or not (182-185): the
\* same name is looked up on both servers, whatever the restore has written.
ComparedName(db) == IF AllDatabases THEN db ELSE SourceDatabase

\* The script asks for the source's size under set -e, so the single database
\* exists there or the Job fails without a verdict of the script.
Init ==
    /\ AllDatabases \in BOOLEAN
    /\ source \in Server /\ target \in Server
    /\ ~AllDatabases => SourceDatabase \in DOMAIN source
    /\ todo = IF AllDatabases THEN DOMAIN source ELSE {SourceDatabase}
    /\ lines = [db \in {} |-> "ok"]
    /\ counts = [c \in {"total", "ok", "missing", "size_mismatch"} |-> 0]
    /\ verdict = "running"

Abs(n) == IF n < 0 THEN -n ELSE n

\* Mutation: only a target that is smaller counts as different.
PercentLost(src, tgt) ==
    IF src > tgt THEN ((src - tgt) * 100) \div src ELSE 0

\* pct=$((diff * 100 / src_size)): the shell drops the fraction.
Percent(src, tgt) == IF src > 0 THEN (Abs(src - tgt) * 100) \div src ELSE 0

SizeStatus(db) ==
    IF Percent(source[db], target[db]) > 10 THEN "size_mismatch" ELSE "ok"

\* Mutation: the fourth status models/verification.go:21 names is used.
SourceOnlyStatus(db) ==
    IF ComparedName(db) \in DOMAIN target THEN SizeStatus(db) ELSE "source_only"

\* In the single mode a size of 0 stands for "no such database" as well.
CompareStatus(db) ==
    LET there == ComparedName(db) \in DOMAIN target
        empty == there /\ ~AllDatabases /\ target[db] = 0
    IN  IF ~there \/ empty THEN "missing" ELSE SizeStatus(db)

\* `continue`, before the counters.
Skips(db) ==
    /\ db \in todo /\ AllDatabases /\ db \in Excluded
    /\ todo' = todo \ {db}
    /\ UNCHANGED <<AllDatabases, source, target, lines, counts, verdict>>

\* Mutation: the total leaves the missing ones out.
CountedIfThere(status) ==
    [counts EXCEPT !["total"] = IF status = "missing" THEN @ ELSE @ + 1,
                   ![status] = @ + 1]

Counted(status) ==
    [counts EXCEPT !["total"] = @ + 1, ![status] = @ + 1]

Compares(db) ==
    /\ db \in todo /\ ~(AllDatabases /\ db \in Excluded)
    /\ todo' = todo \ {db}
    /\ lines' = [d \in DOMAIN lines \cup {db} |->
                    IF d = db THEN CompareStatus(db) ELSE lines[d]]
    /\ counts' = Counted(CompareStatus(db))
    /\ UNCHANGED <<AllDatabases, source, target, verdict>>

\* PASSED of the SUMMARY line.
ScriptPassed ==
    counts["missing"] = 0 /\ counts["size_mismatch"] = 0 /\ counts["total"] > 0

\* ParseVerificationLogs: the SUMMARY line decides.
Parses ==
    /\ todo = {} /\ verdict = "running"
    /\ verdict' = IF ScriptPassed THEN "passed" ELSE "failed"
    /\ UNCHANGED <<AllDatabases, source, target, todo, lines, counts>>

Next == Parses \/ \E db \in Database: Skips(db) \/ Compares(db)

Spec == Init /\ [][Next]_vars

-----------------------------------------------------------------------------
\* The databases the verdict is about: in the single mode what the script looks
\* up, which need not be the target.database the restore wrote.
Examined == IF AllDatabases THEN DOMAIN source \ Excluded ELSE {SourceDatabase}

\* What the truncating division tolerates: less than eleven percent.  The page
\* promises less, see UpToTenPercent.
Tolerated(src, tgt) == src = 0 \/ 100 * Abs(src - tgt) < 11 * src

\* The verdict of the loop, its counters and the parser is exactly this one:
\* there is something to examine, and all of it is on the target and within
\* what the script tolerates, whether or not that is what the page says of it
\* (verify.go:135-174, 200-227, 261-283).
VerdictIsExact ==
    verdict # "running" =>
        (verdict = "passed" <=>
            /\ Examined # {}
            /\ \A db \in Examined:
                /\ db \in DOMAIN target
                /\ Tolerated(source[db], target[db])
                /\ AllDatabases \/ target[db] # 0)

\* The summary the user sees agrees with the rows below it at every line: the
\* two are parsed from different lines and never compared (verify.go:252-271).
SummaryMatchesRows ==
    /\ counts["total"] = Cardinality(DOMAIN lines)
    /\ \A s \in LineStatus:
        counts[s] = Cardinality({db \in DOMAIN lines : lines[db] = s})

-----------------------------------------------------------------------------
(* What the user interface says of the comparison, and the code does not   *)
(* keep.                                                                   *)

\* VerificationPanel "Size comparison allows up to 10% difference": what passes
\* differs by no more than a tenth of the source (k8s/verify.go:153-154, 207-208).
UpToTenPercent ==
    verdict = "passed" =>
        \A db \in Examined: source[db] > 0 =>
            10 * Abs(source[db] - target[db]) <= source[db]
=============================================================================
