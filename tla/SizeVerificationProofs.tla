------------------------ MODULE SizeVerificationProofs ------------------------
(***************************************************************************)
(* The comparison script and its parser give exactly the reference         *)
(* verdict, for all databases, sizes and exclusions: what is excluded, how *)
(* many there are and how large they are does not matter.                  *)
(***************************************************************************)
EXTENDS SizeVerification, FiniteSetTheorems, TLAPS

-----------------------------------------------------------------------------
(* The arithmetic of the shell.                                            *)

\* The truncated quotient is above 10 from eleven times the divisor on.
LEMMA Truncation ==
    ASSUME NEW a \in Nat, NEW b \in Nat, b > 0
    PROVE  (a \div b) > 10 <=> a >= 11 * b
<1> DEFINE q == a \div b
           r == a % b
<1>1. q \in Int /\ r \in 0..(b - 1) /\ a = b * q + r
  OBVIOUS
<1> HIDE DEF q, r
<1>2. CASE q > 10
  <2>1. b * q >= b * 11
    BY <1>1, <1>2
  <2> QED
    BY <1>1, <1>2, <2>1 DEF q
<1>3. CASE ~(q > 10)
  <2>1. b * q <= b * 10
    BY <1>1, <1>3
  <2> QED
    BY <1>1, <1>3, <2>1 DEF q
<1> QED
  BY <1>2, <1>3

\* "size_mismatch" is printed for what is not tolerated, and for nothing else
\* (k8s/verify.go:150-163, 204-213).
LEMMA PercentIsTolerance ==
    ASSUME NEW src \in Nat, NEW tgt \in Nat
    PROVE  Percent(src, tgt) > 10 <=> ~Tolerated(src, tgt)
<1>1. Abs(src - tgt) \in Nat
  BY DEF Abs
<1>2. CASE src = 0
  BY <1>2 DEF Percent, Tolerated
<1>3. CASE src > 0
  <2> DEFINE a == Abs(src - tgt) * 100
  <2>1. a \in Nat /\ a = 100 * Abs(src - tgt)
    BY <1>1
  <2>2. (a \div src) > 10 <=> a >= 11 * src
    BY <1>3, <2>1, Truncation
  <2>3. Percent(src, tgt) = a \div src
    BY <1>3 DEF Percent
  <2>4. Tolerated(src, tgt) <=> a < 11 * src
    BY <1>3, <2>1 DEF Tolerated
  <2>5. 11 * src \in Nat
    OBVIOUS
  <2> HIDE DEF a
  <2> QED
    BY <2>1, <2>2, <2>3, <2>4, <2>5
<1> QED
  BY <1>2, <1>3

-----------------------------------------------------------------------------
(* The inductive invariant.                                                *)

\* What is examined is printed or still to be read, and a line says what the two
\* servers say.  There are finitely many lines, however many names there are.
LinesAreRight ==
    /\ ~AllDatabases => SourceDatabase \in DOMAIN source /\ todo \subseteq {SourceDatabase}
    /\ todo \cap DOMAIN lines = {}
    /\ Examined = DOMAIN lines \cup {db \in todo: ~(AllDatabases /\ db \in Excluded)}
    /\ \A db \in DOMAIN lines: lines[db] = CompareStatus(db)
    /\ IsFiniteSet(DOMAIN lines)

\* The parser runs when all is read and takes over what the script says.
VerdictIsScripts ==
    verdict # "running" => todo = {} /\ (verdict = "passed" <=> ScriptPassed)

Inv ==
    /\ TypeOK
    /\ LinesAreRight
    /\ SummaryMatchesRows
    /\ VerdictIsScripts

\* The membership in a set of partial functions, taken apart.
LEMMA PartialFunction ==
    ASSUME NEW A, NEW B, NEW f \in UNION {[D -> B] : D \in SUBSET A}
    PROVE  DOMAIN f \subseteq A /\ f \in [DOMAIN f -> B]
  OBVIOUS

LEMMA PartialFunctionIntro ==
    ASSUME NEW A, NEW B, NEW D \in SUBSET A, NEW f \in [D -> B]
    PROVE  f \in UNION {[E -> B] : E \in SUBSET A}
  OBVIOUS

\* What a line says is one of three things, and "ok" means there and tolerated
\* (verify.go:135-174, 200-227).
LEMMA LineMeaning ==
    ASSUME TypeOK, LinesAreRight, NEW db \in Examined
    PROVE  /\ CompareStatus(db) \in LineStatus
           /\ CompareStatus(db) = "ok" <=>
                /\ db \in DOMAIN target
                /\ Tolerated(source[db], target[db])
                /\ AllDatabases \/ target[db] # 0
<1>1. db \in DOMAIN source /\ ComparedName(db) = db
  BY DEF LinesAreRight, Examined, ComparedName
<1>2. source[db] \in Nat /\ (db \in DOMAIN target => target[db] \in Nat)
  BY <1>1, PartialFunction, SizeAssumption DEF TypeOK, Server
<1>3. SizeStatus(db) \in LineStatus
  BY DEF SizeStatus, LineStatus
<1>4. db \in DOMAIN target => (SizeStatus(db) = "ok" <=> Tolerated(source[db], target[db]))
  BY <1>2, PercentIsTolerance DEF SizeStatus
<1> QED
  BY <1>1, <1>3, <1>4 DEF CompareStatus, LineStatus

\* Nothing is printed or counted at the start (verify.go:114-134).
LEMMA InitInv == Init => Inv
<1> SUFFICES ASSUME Init PROVE Inv
  OBVIOUS
<1>1. DOMAIN lines = {}
  BY DEF Init
<1>2. TypeOK
  <2>1. lines \in [{} -> LineStatus]
    BY DEF Init
  <2>2. lines \in UNION {[D -> LineStatus] : D \in SUBSET Database}
    BY <2>1, PartialFunctionIntro
  <2>3. todo \subseteq Database
    BY PartialFunction, NameAssumption DEF Init, Server
  <2> QED
    BY <2>2, <2>3 DEF Init, TypeOK
<1>3. LinesAreRight
  BY <1>1, FS_EmptySet DEF Init, LinesAreRight, Examined
<1>4. SummaryMatchesRows
  BY <1>1, FS_EmptySet DEF Init, SummaryMatchesRows, LineStatus
<1>5. VerdictIsScripts
  BY DEF Init, VerdictIsScripts
<1> QED
  BY <1>2, <1>3, <1>4, <1>5 DEF Inv

-----------------------------------------------------------------------------
(* The steps of the loop and of the parser.                                *)

\* A new line adds one to the rows of its status and nothing to the others.
LEMMA OneMoreRow ==
    ASSUME NEW D, IsFiniteSet(D), NEW db, db \notin D,
           NEW f, NEW g, DOMAIN f = D, DOMAIN g = D \cup {db},
           \A d \in D: g[d] = f[d], NEW s
    PROVE  /\ Cardinality(DOMAIN g) = Cardinality(D) + 1
           /\ Cardinality({d \in DOMAIN g: g[d] = s}) =
                IF g[db] = s THEN Cardinality({d \in D: f[d] = s}) + 1
                             ELSE Cardinality({d \in D: f[d] = s})
<1> DEFINE rows == {d \in D: f[d] = s}
<1>1. IsFiniteSet(rows) /\ db \notin rows
  BY FS_Subset
<1>2. {d \in DOMAIN g: g[d] = s} = IF g[db] = s THEN rows \cup {db} ELSE rows
  OBVIOUS
<1>3. Cardinality(rows \cup {db}) = Cardinality(rows) + 1
  BY <1>1, FS_AddElement
<1>4. Cardinality(D \cup {db}) = Cardinality(D) + 1
  BY FS_AddElement
<1> QED
  BY <1>2, <1>3, <1>4

\* A database that is excluded is passed over before anything is counted
\* (verify.go:141-143).
LEMMA SkipsKeeps ==
    ASSUME Inv, NEW db \in Database, Skips(db)
    PROVE  Inv'
<1> USE DEF Inv, Skips
<1>1. TypeOK'
  BY DEF TypeOK
<1>2. LinesAreRight'
  <2>1. Examined' = Examined
    BY DEF Examined
  <2>2. \A d \in DOMAIN lines: CompareStatus(d)' = CompareStatus(d)
    BY DEF CompareStatus, ComparedName, SizeStatus
  <2> QED
    BY <2>1, <2>2 DEF LinesAreRight
<1>3. SummaryMatchesRows'
  BY DEF SummaryMatchesRows
<1>4. VerdictIsScripts'
  BY DEF VerdictIsScripts, ScriptPassed
<1> QED
  BY <1>1, <1>2, <1>3, <1>4

\* Any other gets one line, and the line is counted (verify.go:144-174, 200-227).
LEMMA ComparesKeeps ==
    ASSUME Inv, NEW db \in Database, Compares(db)
    PROVE  Inv'
<1> USE DEF Inv, Compares
<1>1. db \in Examined /\ db \notin DOMAIN lines
  BY DEF LinesAreRight
<1>2. CompareStatus(db) \in LineStatus
  BY <1>1, LineMeaning
<1>3. DOMAIN lines' = DOMAIN lines \cup {db}
  OBVIOUS
<1>4. /\ lines'[db] = CompareStatus(db)
      /\ \A d \in DOMAIN lines: lines'[d] = lines[d]
  BY <1>1
<1>5. lines \in [DOMAIN lines -> LineStatus] /\ DOMAIN lines \subseteq Database
  BY PartialFunction DEF TypeOK
<1>6. TypeOK'
  <2>1. lines' \in [DOMAIN lines' -> LineStatus]
    BY <1>2, <1>3, <1>4, <1>5
  <2>2. lines' \in UNION {[D -> LineStatus] : D \in SUBSET Database}
    BY <1>3, <1>5, <2>1, PartialFunctionIntro
  <2>3. counts' \in [{"total", "ok", "missing", "size_mismatch"} -> Nat]
    BY <1>2 DEF TypeOK, Counted, LineStatus
  <2> QED
    BY <2>2, <2>3 DEF TypeOK
<1>7. LinesAreRight'
  <2>1. Examined' = Examined
    BY DEF Examined
  <2>2. \A d: CompareStatus(d)' = CompareStatus(d)
    BY DEF CompareStatus, ComparedName, SizeStatus
  <2>3. IsFiniteSet(DOMAIN lines')
    BY <1>3, FS_AddElement DEF LinesAreRight
  <2>4. \A d \in DOMAIN lines': lines'[d] = CompareStatus(d)'
    BY <1>3, <1>4, <2>2 DEF LinesAreRight
  <2> QED
    BY <1>1, <1>3, <2>1, <2>3, <2>4 DEF LinesAreRight
<1>8. SummaryMatchesRows'
  <2>1. IsFiniteSet(DOMAIN lines)
    BY DEF LinesAreRight
  <2>2. ASSUME NEW s
        PROVE  /\ Cardinality(DOMAIN lines') = Cardinality(DOMAIN lines) + 1
               /\ Cardinality({d \in DOMAIN lines': lines'[d] = s}) =
                    IF lines'[db] = s THEN Cardinality({d \in DOMAIN lines: lines[d] = s}) + 1
                                      ELSE Cardinality({d \in DOMAIN lines: lines[d] = s})
    <3> DEFINE D == DOMAIN lines
               f == lines
               g == lines'
    <3>1. IsFiniteSet(D) /\ db \notin D /\ DOMAIN f = D
      BY <1>1, <2>1
    <3>2. DOMAIN g = D \cup {db} /\ \A d \in D: g[d] = f[d]
      BY <1>3, <1>4
    <3>3. /\ Cardinality(DOMAIN g) = Cardinality(D) + 1
          /\ Cardinality({d \in DOMAIN g: g[d] = s}) =
               IF g[db] = s THEN Cardinality({d \in D: f[d] = s}) + 1
                            ELSE Cardinality({d \in D: f[d] = s})
      <4> HIDE DEF D, f, g, Inv, Compares
      <4> QED
        BY ONLY <3>1, <3>2, OneMoreRow
    <3> QED
      BY <3>3
  <2>3. /\ Cardinality(DOMAIN lines') = counts["total"] + 1
        /\ \A s \in LineStatus: Cardinality({d \in DOMAIN lines': lines'[d] = s}) =
                IF CompareStatus(db) = s THEN counts[s] + 1 ELSE counts[s]
    BY <1>4, <2>2 DEF SummaryMatchesRows
  <2>4. /\ counts'["total"] = counts["total"] + 1
        /\ \A s \in LineStatus:
              counts'[s] = IF CompareStatus(db) = s THEN counts[s] + 1 ELSE counts[s]
    BY <1>2 DEF Counted, TypeOK, LineStatus
  <2> QED
    BY <2>3, <2>4 DEF SummaryMatchesRows
<1>9. VerdictIsScripts'
  BY DEF VerdictIsScripts
<1> QED
  BY <1>6, <1>7, <1>8, <1>9

\* The parser adds nothing of its own (verify.go:252-283).
LEMMA ParsesKeeps ==
    ASSUME Inv, Parses
    PROVE  Inv'
<1> USE DEF Inv, Parses
<1>1. TypeOK'
  BY DEF TypeOK
<1>2. LinesAreRight'
  <2>1. Examined' = Examined /\ \A d: CompareStatus(d)' = CompareStatus(d)
    BY DEF Examined, CompareStatus, ComparedName, SizeStatus
  <2> QED
    BY <2>1 DEF LinesAreRight
<1>3. SummaryMatchesRows'
  BY DEF SummaryMatchesRows
<1>4. VerdictIsScripts'
  BY DEF VerdictIsScripts, ScriptPassed
<1> QED
  BY <1>1, <1>2, <1>3, <1>4

-----------------------------------------------------------------------------
\* Types, lines, counters and verdict, for all databases, sizes and exclusions.
THEOREM Invariance == Spec => []Inv
<1>1. Inv /\ [Next]_vars => Inv'
  <2> SUFFICES ASSUME Inv, [Next]_vars PROVE Inv'
    OBVIOUS
  <2>1. CASE UNCHANGED vars
    <3>1. Examined' = Examined /\ \A d: CompareStatus(d)' = CompareStatus(d)
      BY <2>1 DEF vars, Examined, CompareStatus, ComparedName, SizeStatus
    <3> QED
      BY <2>1, <3>1 DEF vars, Inv, TypeOK, LinesAreRight, SummaryMatchesRows,
                        VerdictIsScripts, ScriptPassed
  <2> QED
    BY <2>1, SkipsKeeps, ComparesKeeps, ParsesKeeps DEF Next
<1> QED
  BY InitInv, <1>1, PTL DEF Spec

\* Every variable of the script and of its parser keeps its type.
THEOREM TypeCorrectness == Spec => []TypeOK
<1>1. Inv => TypeOK
  BY DEF Inv
<1> QED
  BY <1>1, Invariance, PTL

\* The counters of the SUMMARY line are the numbers of rows, at every line
\* (verify.go:135-174, 200-227, 252-271).
THEOREM Summary == Spec => []SummaryMatchesRows
<1>1. Inv => SummaryMatchesRows
  BY DEF Inv
<1> QED
  BY <1>1, Invariance, PTL

\* The verdict of loop, counters and parser is the reference verdict
\* (verify.go:135-174, 200-227, 261-283).
THEOREM Exactness == Spec => []VerdictIsExact
<1>1. Inv => VerdictIsExact
  <2> SUFFICES ASSUME Inv, verdict # "running"
               PROVE  verdict = "passed" <=>
                        /\ Examined # {}
                        /\ \A db \in Examined:
                            /\ db \in DOMAIN target
                            /\ Tolerated(source[db], target[db])
                            /\ AllDatabases \/ target[db] # 0
    BY DEF VerdictIsExact
  <2>1. Examined = DOMAIN lines /\ (verdict = "passed" <=> ScriptPassed)
    BY DEF Inv, VerdictIsScripts, LinesAreRight
  <2>2. IsFiniteSet(DOMAIN lines)
    BY DEF Inv, LinesAreRight
  <2>3. counts["total"] > 0 <=> Examined # {}
    <3>1. counts["total"] = Cardinality(DOMAIN lines)
      BY DEF Inv, SummaryMatchesRows
    <3>2. counts["total"] \in Nat
      BY DEF Inv, TypeOK
    <3> QED
      BY <2>1, <2>2, <3>1, <3>2, FS_EmptySet
  <2>4. ASSUME NEW s \in LineStatus
        PROVE  counts[s] = 0 <=> \A db \in Examined: CompareStatus(db) # s
    <3>1. IsFiniteSet({db \in DOMAIN lines: lines[db] = s})
      BY <2>2, FS_Subset
    <3>2. counts[s] = Cardinality({db \in DOMAIN lines: lines[db] = s})
      BY DEF Inv, SummaryMatchesRows
    <3>3. counts[s] = 0 <=> {db \in DOMAIN lines: lines[db] = s} = {}
      BY <3>1, <3>2, FS_EmptySet
    <3> QED
      BY <2>1, <3>3 DEF Inv, LinesAreRight
  <2>5. ScriptPassed <=>
            Examined # {} /\ \A db \in Examined: CompareStatus(db) = "ok"
    <3>1. \A db \in Examined: CompareStatus(db) \in {"ok", "missing", "size_mismatch"}
      BY LineMeaning DEF Inv, LineStatus
    <3> QED
      BY <2>3, <2>4, <3>1 DEF ScriptPassed, LineStatus
  <2> QED
    BY <2>1, <2>5, LineMeaning DEF Inv
<1> QED
  BY <1>1, Invariance, PTL
=============================================================================
