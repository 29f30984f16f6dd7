-------------------------- MODULE RunOutcomeProofs --------------------------
(***************************************************************************)
(* Safety of RunOutcome for any tests, devices, runs and limits.           *)
(***************************************************************************)
EXTENDS RunOutcome, FiniteSetTheorems, TLAPS

Executing == {"preflight", "pyats", "jobs", "report"}
Late      == {"robot", "finish"}

\* The JSONL files of type t that the tests of this run have written.
Own(t) == {[run |-> run, test |-> x, status |-> wrote[x]] :
              x \in {y \in TestsOf(t) : wrote[y] # "nothing"}}

\* What a phase says of the other parts of the state.
ShapeInv ==
    /\ jobs # {} \/ zipped # {} => phase = "jobs"
    /\ phase # "report" => gathered = NoFiles
    /\ phase \in Executing \ {"report"} => \A t \in Types : outcome[t] = "none"
    /\ phase \in {"preflight", "pyats"} => archived = {}
    /\ phase \in Executing => /\ plan.mode # "render_only"
                              /\ \A t \in Types : results[t] = None
    /\ phase \in Late /\ plan.mode = "render_only" => \A t \in Types : outcome[t] = "none"
    /\ phase # "over" => merged = {} /\ run \in Runs

\* The files on disk are those the tests of this run wrote, and no others.
FilesInv ==
    /\ phase \in {"preflight", "pyats"} => \A x \in Tests : wrote[x] = "nothing"
    /\ \A x \in InProgress : wrote[x] = "nothing"
    /\ phase \in Executing => \A t \in Types : temp[t] \cup gathered[t] = Own(t)
    /\ phase = "report" => \A t \in Types :
          /\ outcome[t] = "success" => gathered[t] = Own(t)
          /\ outcome[t] # "success" => gathered[t] = {}
          /\ outcome[t] = "no_results" => Own(t) = {}

\* Every failure of a type that was processed is in its results.
FailedInv ==
    phase \in Late => \A t \in Types :
        outcome[t] \notin {"none", "error"} => results[t].failed = Wrote(t, {"failed"})

\* The archives of this run are the newest; what is reported of a type is this
\* run's archive if there is one.
ArchiveInv ==
    /\ \A t \in Types : \A n \in archives[t] : n =< run
    /\ phase \in {"jobs", "report"} => \A t \in archived : run \in archives[t]
    /\ phase = "report" => \A t \in Types : outcome[t] = "pending" => archives[t] # {}
    /\ phase = "report" => \A t \in archived :
          outcome[t] \in {"success", "no_results"} => reports[t] = run
    /\ phase \in Late => \A t \in archived : Total(results[t]) > 0 => reports[t] = run

\* The archives that the jobs of this run wrote are still there when the D2D archive
\* is made of them.
PartsInv ==
    /\ \A d \in zipped : zips[d] # 0
    /\ \A n \in Runs : n > run => parts[n] = {}
    /\ phase \in {"preflight", "pyats"} => own = {} /\ parts[run] = {}
    /\ jobs \cap Devices # {} => parts[run] = {}
    /\ phase = "jobs" /\ "d2d" \notin archived => \A d \in own : zips[d] = run
    /\ run \in Runs => \A p \in parts[run] : p[1] \in own => p[2] = run

IInv == TypeOK /\ ShapeInv /\ FilesInv /\ CountsAreOwn /\ FailedInv /\ ArchiveInv
        /\ PartsInv /\ FailuresShow /\ StaleXunitOnlyWithoutOwn

\* Every test is one of the tests of its type, which are finitely many.
LEMMA TestsOfTypes ==
    ASSUME NEW t \in Types
    PROVE  /\ TestsOf(t) \subseteq Tests /\ IsFiniteSet(TestsOf(t))
           /\ \A x \in Tests : TypeOf(x) \in Types /\ x \in TestsOf(TypeOf(x))
BY TestsAssumption DEF Types, Tests, TestsOf, TypeOf

\* The number of files with a status is that of the tests that wrote it
\* (_collect_pyats_stats counts files, not tests).
LEMMA CountOwn ==
    ASSUME TypeOK, NEW t \in Types, NEW S \in SUBSET Written
    PROVE  /\ Cardinality({f \in Own(t) : f.status \in S}) = Wrote(t, S)
           /\ Wrote(t, S) \in Nat
<1> DEFINE A == {x \in TestsOf(t) : wrote[x] \in S}
           B == {f \in Own(t) : f.status \in S}
           g == [x \in A |-> [run |-> run, test |-> x, status |-> wrote[x]]]
<1>1. IsFiniteSet(A)
  BY TestsOfTypes, FS_Subset
<1>2. "nothing" \notin S
  BY DEF Written
<1>3. \A x \in A : g[x] \in B
  BY <1>2 DEF Own
<1>4. \A x, y \in A : g[x] = g[y] => x = y
  OBVIOUS
<1>5. \A f \in B : \E x \in A : g[x] = f
  BY DEF Own
<1>6. g \in Bijection(A, B)
  <2>1. g \in [A -> B] /\ DOMAIN g = A
    BY <1>3
  <2> HIDE DEF A, B, g
  <2>2. QED
    BY <1>4, <1>5, <2>1 DEF Bijection, Injection, Surjection, IsInjective
<1>7. ExistsBijection(A, B)
  BY <1>6 DEF ExistsBijection
<1>8. Cardinality(B) = Cardinality(A) /\ Cardinality(A) \in Nat
  BY <1>1, <1>7, FS_Bijection, FS_CardinalityType
<1>9. QED BY <1>8 DEF Wrote

\* A test that wrote a status is counted.
LEMMA WrotePositive ==
    ASSUME TypeOK, NEW x \in Tests, wrote[x] = "failed"
    PROVE  Wrote(TypeOf(x), {"failed"}) > 0
<1> DEFINE A == {y \in TestsOf(TypeOf(x)) : wrote[y] \in {"failed"}}
<1>1. TypeOf(x) \in Types /\ x \in A
  BY TestsOfTypes DEF Types
<1>2. IsFiniteSet(A)
  BY <1>1, TestsOfTypes, FS_Subset
<1>3. Cardinality(A) \in Nat /\ Cardinality(A) # 0
  BY <1>1, <1>2, FS_CardinalityType, FS_EmptySet
<1>4. QED BY <1>3 DEF Wrote

\* The exit code is one that main() knows.
LEMMA ExitType ==
    ASSUME NEW c \in [{"api", "d2d", "robot"} -> Results], NEW mode, NEW failed \in BOOLEAN
    PROVE  MainExit(mode, c, failed) \in ExitCodes
<1>1. Failed(c) \in Nat
  BY DEF Results, Failed
<1>2. ~(Failed(c) < FailureCap) \/ Failed(c) = 0 \/ Failed(c) \in 1 .. FailureCap
  BY <1>1, CapAssumption
<1>3. FailureCap \in 1 .. FailureCap
  BY CapAssumption
<1>4. ExitCode(c, failed) \in ExitCodes
  BY <1>1, <1>2, <1>3 DEF ExitCode, ExitCodes
<1>5. QED BY <1>4 DEF MainExit, ExitCodes

\* What tests leave is well-typed.
LEMMA LeaveType ==
    ASSUME TypeOK, run \in Runs, NEW X \in SUBSET Tests,
           NEW s \in [X -> Statuses \cup {"nothing"}], Leave(X, s)
    PROVE  /\ wrote' \in [Tests -> Written \cup {"nothing"}]
           /\ temp' \in [Types -> SUBSET Files]
<1>1. wrote' \in [Tests -> Written \cup {"nothing"}]
  BY StatusesAssumption DEF Leave, TypeOK
<1>2. ASSUME NEW t \in Types
      PROVE  {[run |-> run, test |-> x, status |-> s[x]] :
                 x \in {y \in X \cap TestsOf(t) : s[y] # "nothing"}} \subseteq Files
  BY StatusesAssumption DEF Files
<1>3. QED BY <1>1, <1>2 DEF Leave, TypeOK

\* No file or result of another type appears in the counts of a type.
LEMMA StatsType ==
    ASSUME TypeOK, FilesInv, phase = "report", NEW t \in Types
    PROVE  /\ Stats(t) \in Results
           /\ outcome[t] # "success" => Stats(t) = None
           /\ outcome[t] = "success" =>
                 /\ Stats(t).state = "success"
                 /\ Stats(t).passed = Wrote(t, {"passed"})
                 /\ Stats(t).failed = Wrote(t, {"failed"})
                 /\ Stats(t).skipped = Wrote(t, {"skipped", "unfinished"})
<1>1. CASE outcome[t] # "success"
  BY <1>1 DEF Stats, None, NoCounts, Results, States
<1>2. CASE outcome[t] = "success"
  <2>1. gathered[t] = Own(t)
    BY <1>2 DEF FilesInv
  <2>2. {"passed"} \in SUBSET Written /\ {"failed"} \in SUBSET Written
        /\ {"skipped", "unfinished"} \in SUBSET Written
    BY DEF Written
  <2>3. ASSUME NEW S \in SUBSET Written
        PROVE  With(t, S) = Wrote(t, S) /\ Wrote(t, S) \in Nat
    BY <2>1, CountOwn DEF With
  <2>4. QED BY <1>2, <2>2, <2>3 DEF Stats, Results, States
<1>3. QED BY <1>1, <1>2

\* A set of numbers up to a bound has a greatest one: of the sets of the numbers
\* above each of them, a least one by inclusion is empty.
LEMMA Greatest ==
    ASSUME NEW bound \in Nat, NEW S \in SUBSET (1 .. bound), S # {}
    PROVE  \E n \in S : \A m \in S : m =< n
<1> DEFINE Above(n) == {m \in S : m > n}
           T == {Above(n) : n \in S}
           R == StrictSubsetOrdering(S)
<1>1. IsFiniteSet(S)
  <2>1. IsFiniteSet(1 .. bound)
    BY FS_Interval, 1 \in Int, bound \in Int
  <2>2. QED BY <2>1, FS_Subset
<1>2. IsWellFoundedOn(R, FiniteSubsetsOf(S)) /\ T \subseteq FiniteSubsetsOf(S)
  BY <1>1, FS_FiniteSubsetsOfFinite, FS_StrictSubsetOrderingWellFounded
<1>3. PICK x \in T : \A y \in T : <<y, x>> \notin R
  <2>1. T # {}
    <3>1. PICK n \in S : TRUE
      OBVIOUS
    <3>2. Above(n) \in T
      OBVIOUS
    <3>3. QED BY <3>2
  <2> HIDE DEF T, R
  <2>2. QED BY <1>2, <2>1, WFMin
<1>4. PICK n \in S : x = Above(n)
  OBVIOUS
<1>5. ASSUME NEW m \in S, m > n
      PROVE  FALSE
  <2>1. m \in Above(n) /\ m \notin Above(m)
    BY <1>5
  <2>2. Above(m) \subseteq Above(n)
    <3>1. S \subseteq Int
      OBVIOUS
    <3>2. \A k \in S : k > m => k > n
      BY <1>5, <3>1
    <3>3. QED BY <3>2
  <2>3. Above(m) \in T
    OBVIOUS
  <2>4. <<Above(m), Above(n)>> \in R
    BY <2>1, <2>2 DEF StrictSubsetOrdering
  <2>5. QED BY <1>3, <1>4, <2>3, <2>4
<1>6. QED BY <1>5

\* There is a newest archive where there is any.
LEMMA NewestArchive ==
    ASSUME TypeOK, NEW t \in Types, archives[t] # {}
    PROVE  /\ Newest(t) \in archives[t]
           /\ \A n \in archives[t] : n =< Newest(t)
<1>1. archives[t] \in SUBSET (1 .. MaxRuns)
  BY DEF TypeOK, Runs
<1>2. \E n \in archives[t] : \A m \in archives[t] : m =< n
  BY <1>1, Greatest, BoundsAssumption
<1>3. QED BY <1>2 DEF Newest

\* The state is well-typed before the first run.
LEMMA TypeInit == Init => TypeOK
<1> SUFFICES ASSUME Init PROVE TypeOK
  OBVIOUS
<1>1. /\ archives \in [Types \cup {"legacy"} -> SUBSET Runs]
      /\ temp \in [Types -> SUBSET Files] /\ gathered \in [Types -> SUBSET Files]
  BY DEF Init, NoFiles
<1>2. reports \in [Types -> 0 .. MaxRuns] /\ run \in 0 .. MaxRuns
  BY BoundsAssumption DEF Init
<1>3. plan \in Plans /\ phase \in Phases /\ exit \in ExitCodes
  BY DEF Init, Plans, Modes, Phases, ExitCodes
<1>4. results \in [{"api", "d2d", "robot"} -> Results]
  BY DEF Init, NoResults, None, NoCounts, Results, States
<1>5. QED BY <1>1, <1>2, <1>3, <1>4 DEF Init, TypeOK, Outcomes

\* Every step keeps the types.
LEMMA TypeStep ==
    ASSUME IInv, Next
    PROVE  TypeOK'
<1>0. TypeOK /\ ShapeInv /\ FilesInv
  BY DEF IInv
<1>a. \A r \in States : NoCounts(r) \in Results
  BY DEF NoCounts, Results
<1>b. None \in Results /\ NoResults \in [{"api", "d2d", "robot"} -> Results]
  BY <1>a DEF None, NoResults, States
<1>c. ASSUME NEW api \in Results, NEW d2d \in Results, PyatsEnds(api, d2d)
      PROVE  results' \in [{"api", "d2d", "robot"} -> Results] /\ phase' \in Phases
  BY <1>0, <1>c DEF PyatsEnds, TypeOK, Phases
<1>1. ASSUME NEW p \in Discoverable, Start(p)
      PROVE  TypeOK'
  <2>0. p \in Plans /\ plan' = p
    BY <1>1 DEF Start, Discoverable
  <2>1. run' \in 0 .. MaxRuns
    BY <1>0, <1>1, BoundsAssumption DEF Start, TypeOK
  <2>a. FirstPhase(p) \in Phases
    BY DEF FirstPhase, Phases
  <2>b. phase' \in Phases
    BY <1>0, <1>1, <2>a DEF Start, TypeOK
  <2>2. temp' \in [Types -> SUBSET Files]
    BY <1>0, <1>1 DEF Start, TypeOK, CleanTemp, NoFiles
  <2>3. exit' \in ExitCodes
    <3>1. MainExit(p.mode, NoResults, FALSE) \in ExitCodes
      BY <1>b, ExitType
    <3>2. QED BY <1>1, <3>1 DEF Start, ExitCodes
  <2>4. QED
    BY <1>0, <1>1, <1>b, <2>0, <2>1, <2>b, <2>2, <2>3 DEF Start, Forget, TypeOK, Outcomes
<1>2. CASE PreflightPasses \/ PreflightFails
  BY <1>0, <1>2 DEF history, PreflightPasses, PreflightFails, TypeOK, Phases, disk
<1>3. CASE NothingExecuted
  <2>1. ASSUME NEW t \in Types, NEW r \in States
        PROVE  ForSelected(NoCounts(r), t) \in Results
    BY <1>a, <1>b DEF ForSelected
  <2>2. results' \in [{"api", "d2d", "robot"} -> Results] /\ phase' \in Phases
    BY <1>3, <1>c, <2>1 DEF NothingExecuted, States, Types
  <2>3. QED BY <1>0, <1>3, <2>2 DEF history, NothingExecuted, TypeOK, disk
<1>4. ASSUME NEW D \in SUBSET Devices, StartJobs(D)
      PROVE  TypeOK'
  BY <1>0, <1>4 DEF history, StartJobs, TypeOK, Phases, disk
<1>5. ASSUME NEW s \in [ApiTests -> Statuses \cup {"nothing"}],
             NEW a \in {"api", "legacy", "none"}, ApiJobEnds(s, a)
      PROVE  TypeOK'
  <2>1. run \in Runs /\ ApiTests \in SUBSET Tests
    BY <1>0, <1>5 DEF ApiJobEnds, ShapeInv, Tests
  <2>2. /\ wrote' \in [Tests -> Written \cup {"nothing"}]
        /\ temp' \in [Types -> SUBSET Files]
    BY <1>0, <1>5, <2>1, LeaveType DEF ApiJobEnds
  <2>3. archives' \in [Types \cup {"legacy"} -> SUBSET Runs]
    BY <1>0, <1>5, <2>1 DEF ApiJobEnds, Archive, TypeOK, Types
  <2>4. QED
    BY <1>0, <1>5, <2>2, <2>3 DEF ApiJobEnds, TypeOK, control, Types
<1>6. ASSUME NEW d \in Devices, NEW s \in Statuses \cup {"nothing"},
             NEW path \in BOOLEAN, NEW zip \in BOOLEAN,
             DeviceJobEnds(d, [x \in {d} |-> s], path, zip)
      PROVE  TypeOK'
  <2>1. run \in Runs /\ {d} \in SUBSET Tests
    BY <1>0, <1>6 DEF DeviceJobEnds, ShapeInv, Tests
  <2>2. /\ wrote' \in [Tests -> Written \cup {"nothing"}]
        /\ temp' \in [Types -> SUBSET Files]
    <3>1. [x \in {d} |-> s] \in [{d} -> Statuses \cup {"nothing"}]
      OBVIOUS
    <3>2. QED BY <1>0, <1>6, <2>1, <3>1, LeaveType DEF DeviceJobEnds
  <2>3. zips' \in [Devices -> 0 .. MaxRuns] /\ own' \subseteq Devices
    BY <1>0, <1>6, <2>1 DEF DeviceJobEnds, WriteZips, TypeOK, Runs
  <2>4. zipped' \subseteq Devices
    BY <1>0, <1>6 DEF DeviceJobEnds, TypeOK
  <2>5. QED BY <1>0, <1>6, <2>2, <2>3, <2>4 DEF DeviceJobEnds, TypeOK, control
<1>7. ASSUME NEW X \in SUBSET Devices, CreateD2dArchive(X)
      PROVE  TypeOK'
  <2>1. run \in Runs
    BY <1>0, <1>7 DEF CreateD2dArchive, ShapeInv
  <2>2. archives' \in [Types \cup {"legacy"} -> SUBSET Runs]
    BY <1>0, <1>7, <2>1 DEF CreateD2dArchive, Archive, TypeOK, Types
  <2>3. \A d \in zipped : zips[d] \in Runs
    BY <1>0, BoundsAssumption DEF IInv, PartsInv, TypeOK, Runs
  <2>4. {<<d, zips[d]>> : d \in X \cap zipped} \subseteq Devices \X Runs
    BY <2>3
  <2>5. parts' \in [Runs -> SUBSET (Devices \X Runs)]
    BY <1>0, <1>7, <2>4 DEF CreateD2dArchive, TypeOK
  <2>6. QED
    BY <1>0, <1>7, <2>2, <2>5 DEF CreateD2dArchive, TypeOK, control, history
<1>17. ASSUME NEW K \in SUBSET Devices, Aggregate(K)
       PROVE  TypeOK'
  <2>1. archived' \subseteq Types /\ zipped' = {}
    BY <1>0, <1>17 DEF Aggregate, TypeOK, Types
  <2>2. zips' \in [Devices -> 0 .. MaxRuns]
    BY <1>0, <1>17, BoundsAssumption DEF Aggregate, TypeOK
  <2>3. QED BY <1>0, <1>17, <2>1, <2>2 DEF Aggregate, TypeOK, control
<1>18. CASE AggregationFails
  BY <1>0, <1>18 DEF AggregationFails, TypeOK, control, disk, history
<1>8. ASSUME JobsGivenUp, run \in Runs
      PROVE  /\ wrote' \in [Tests -> Written \cup {"nothing"}]
             /\ temp' \in [Types -> SUBSET Files]
             /\ zips' \in [Devices -> 0 .. MaxRuns]
             /\ own' \subseteq Devices
  <2>1. /\ wrote' \in [Tests -> Written \cup {"nothing"}]
        /\ temp' \in [Types -> SUBSET Files]
    BY <1>0, <1>8, LeaveType DEF JobsGivenUp, InProgress
  <2>2. /\ zips' \in [Devices -> 0 .. MaxRuns]
        /\ own' \subseteq Devices
    BY <1>0, <1>8 DEF JobsGivenUp, WriteZips, TypeOK, Runs
  <2>3. QED BY <2>1, <2>2
<1>9. CASE OrchestrationFails
  <2>1. run \in Runs
    BY <1>0, <1>9 DEF OrchestrationFails, ShapeInv
  <2>2. results' \in [{"api", "d2d", "robot"} -> Results] /\ phase' \in Phases
    BY <1>9, <1>a, <1>b, <1>c DEF OrchestrationFails, States
  <2>3. QED
    BY <1>0, <1>8, <1>9, <2>1, <2>2
    DEF OrchestrationFails, JobsGivenUp, TypeOK, NoFiles, Outcomes
<1>10. CASE BeginReport
  <2>1. results' \in [{"api", "d2d", "robot"} -> Results] /\ phase' \in Phases
    BY <1>0, <1>10, <1>b, <1>c DEF BeginReport, TypeOK, Phases
  <2>2. outcome' \in [Types -> Outcomes] /\ reports' \in [Types -> 0 .. MaxRuns]
    BY <1>0, <1>10, BoundsAssumption DEF BeginReport, TypeOK, Outcomes
  <2>3. QED BY <1>0, <1>10, <2>1, <2>2 DEF history, BeginReport, TypeOK
<1>11. ASSUME NEW t \in Types, NEW ok \in BOOLEAN, ProcessArchive(t, ok)
       PROVE  TypeOK'
  <2>1. reports' \in [Types -> 0 .. MaxRuns]
    <3>1. archives[t] # {} /\ archives[t] \subseteq 1 .. MaxRuns
      BY <1>0, <1>11 DEF ProcessArchive, ArchiveInv, IInv, TypeOK, Runs
    <3>2. Newest(t) \in 0 .. MaxRuns
      BY <1>0, <3>1, NewestArchive
    <3>3. QED BY <1>0, <1>11, <3>2 DEF ProcessArchive, TypeOK
  <2>2. outcome' \in [Types -> Outcomes]
    BY <1>0, <1>11 DEF ProcessArchive, TypeOK, Outcomes
  <2>3. QED
    BY <1>0, <1>11, <2>1, <2>2 DEF history, ProcessArchive, TypeOK, control
<1>12. ASSUME NEW keep \in BOOLEAN, FinishReport(keep)
       PROVE  TypeOK'
  <2>1. Stats("api") \in Results /\ Stats("d2d") \in Results
    BY <1>0, <1>12, StatsType DEF FinishReport, Types
  <2>2. results' \in [{"api", "d2d", "robot"} -> Results] /\ phase' \in Phases
    BY <1>12, <1>c, <2>1 DEF FinishReport
  <2>3. archives' \in [Types \cup {"legacy"} -> SUBSET Runs]
    BY <1>0, <1>12 DEF FinishReport, TypeOK
  <2>4. QED BY <1>0, <1>12, <2>2, <2>3 DEF history, FinishReport, TypeOK, NoFiles
<1>13. CASE RobotStep
  <2>1. PICK r \in Results : Robot(r)
    BY <1>13, <1>a, <1>b, BoundsAssumption DEF RobotStep, RobotResults, Results, States
  <2>2. QED BY <1>0, <2>1 DEF history, Robot, TypeOK, Phases, disk
<1>14. ASSUME NEW m \in {Mergeable, {}}, Finish(m)
       PROVE  TypeOK'
  <2>1. Mergeable \subseteq ({"api"} \cup Devices) \X Runs
    <3>1. ASSUME NEW t \in Types
          PROVE  Extracted(t) \subseteq ({"api"} \cup Devices) \X Runs
      <4>1. reports[t] # 0 => reports[t] \in Runs
        BY <1>0, BoundsAssumption DEF TypeOK, Runs
      <4>2. QED BY <1>0, <4>1 DEF Extracted, TypeOK
    <3>2. QED BY <3>1 DEF Mergeable
  <2>2. exit' \in ExitCodes
    BY <1>0, <1>14, ExitType DEF Finish, TypeOK
  <2>3. QED BY <1>0, <1>14, <2>1, <2>2 DEF history, Finish, TypeOK, Phases, disk
<1>15. ASSUME NEW code \in {InterruptedCode, ErrorCode, Killed}, Stop(code)
       PROVE  TypeOK'
  <2>1. run \in Runs
    BY <1>0, <1>15 DEF Stop, ShapeInv
  <2>2. QED
    BY <1>0, <1>b, <1>8, <1>15, <2>1
    DEF history, Stop, JobsGivenUp, TypeOK, NoFiles, ExitCodes, Outcomes, Phases
<1>16. QED
  BY <1>1, <1>2, <1>3, <1>4, <1>5, <1>6, <1>7, <1>9, <1>10, <1>11, <1>12, <1>13, <1>14,
     <1>15, <1>17, <1>18 DEF Next

\* Every step keeps what a phase implies.
LEMMA ShapeStep ==
    ASSUME IInv, Next
    PROVE  ShapeInv'
<1>0. TypeOK /\ ShapeInv
  BY DEF IInv
<1> USE DEF ShapeInv, Executing, Late
<1>1. ASSUME NEW p \in Discoverable, Start(p)
      PROVE  ShapeInv'
  <2>1. run' \in Runs
    BY <1>0, <1>1, BoundsAssumption DEF Start, TypeOK, Runs
  <2>2. /\ phase' \in Executing => p.mode # "render_only"
        /\ phase' \in {"over", "robot", "preflight", "pyats"}
    BY <1>1 DEF Start, FirstPhase
  <2>3. results' = NoResults
    BY <1>1 DEF Start, Forget
  <2>4. QED BY <1>0, <1>1, <2>1, <2>2, <2>3 DEF Start, Forget, NoResults, Types
<1>2. CASE PreflightPasses \/ PreflightFails
  BY <1>0, <1>2 DEF history, PreflightPasses, PreflightFails
<1>3. CASE NothingExecuted
  BY <1>0, <1>3 DEF NothingExecuted, PyatsEnds
<1>4. ASSUME NEW D \in SUBSET Devices, StartJobs(D)
      PROVE  ShapeInv'
  BY <1>0, <1>4 DEF StartJobs
<1>5. ASSUME NEW s, NEW a, ApiJobEnds(s, a)
      PROVE  ShapeInv'
  BY <1>0, <1>5 DEF ApiJobEnds, control
<1>6. ASSUME NEW d, NEW s, NEW path, NEW zip, DeviceJobEnds(d, s, path, zip)
      PROVE  ShapeInv'
  BY <1>0, <1>6 DEF DeviceJobEnds, control
<1>7. ASSUME NEW X, CreateD2dArchive(X)
      PROVE  ShapeInv'
  BY <1>0, <1>7 DEF CreateD2dArchive, control, history
<1>16. ASSUME NEW K, Aggregate(K)
       PROVE  ShapeInv'
  BY <1>0, <1>16 DEF Aggregate, control
<1>17. CASE AggregationFails
  BY <1>0, <1>17 DEF AggregationFails, control, history
<1>8. CASE OrchestrationFails
  BY <1>0, <1>8 DEF OrchestrationFails, JobsGivenUp, PyatsEnds
<1>9. CASE BeginReport
  BY <1>0, <1>9 DEF BeginReport, PyatsEnds
<1>10. ASSUME NEW t \in Types, NEW ok \in BOOLEAN, ProcessArchive(t, ok)
       PROVE  ShapeInv'
  BY <1>0, <1>10 DEF ProcessArchive, control
<1>11. ASSUME NEW keep \in BOOLEAN, FinishReport(keep)
       PROVE  ShapeInv'
  BY <1>0, <1>11 DEF FinishReport, PyatsEnds
<1>12. CASE RobotStep
  BY <1>0, <1>12 DEF RobotStep, Robot
<1>13. ASSUME NEW m, Finish(m)
       PROVE  ShapeInv'
  BY <1>0, <1>13 DEF Finish
<1>14. ASSUME NEW code, Stop(code)
       PROVE  ShapeInv'
  BY <1>0, <1>14 DEF Stop, JobsGivenUp
<1>15. QED
  BY <1>1, <1>2, <1>3, <1>4, <1>5, <1>6, <1>7, <1>8, <1>9, <1>10, <1>11, <1>12, <1>13, <1>14,
     <1>16, <1>17 DEF Next

\* A test that had written nothing and the file it leaves appear together.
LEMMA LeaveFiles ==
    ASSUME TypeOK, run' = run, gathered' = gathered, NEW X \in SUBSET Tests,
           NEW s \in [X -> Statuses \cup {"nothing"}], Leave(X, s),
           \A x \in X : wrote[x] = "nothing",
           NEW t \in Types, temp[t] \cup gathered[t] = Own(t)
    PROVE  temp'[t] \cup gathered'[t] = Own(t)'
<1> DEFINE New == {[run |-> run, test |-> x, status |-> s[x]] :
                      x \in {y \in X \cap TestsOf(t) : s[y] # "nothing"}}
<1>1. temp'[t] = temp[t] \cup New
  BY DEF Leave
<1>2. TestsOf(t) \subseteq Tests
  BY TestsOfTypes
<1>3. \A x \in TestsOf(t) : wrote'[x] = IF x \in X THEN s[x] ELSE wrote[x]
  BY <1>2 DEF Leave
<1>4. Own(t)' = {[run |-> run, test |-> x, status |-> wrote'[x]] :
                   x \in {y \in TestsOf(t) : wrote'[y] # "nothing"}}
  BY DEF Own, TestsOf
<1>5. Own(t)' \subseteq Own(t) \cup New
  BY <1>3, <1>4 DEF Own
<1>6. Own(t) \cup New \subseteq Own(t)'
  BY <1>3, <1>4 DEF Own
<1>7. QED BY <1>1, <1>5, <1>6

\* Every step keeps the JSONL files those of the tests that wrote in this run.
LEMMA FilesStep ==
    ASSUME IInv, Next
    PROVE  FilesInv'
<1>0. TypeOK /\ ShapeInv /\ FilesInv
  BY DEF IInv
<1>a. InProgress \in SUBSET Tests
  BY DEF InProgress
<1>b. ASSUME wrote' = [x \in Tests |-> "nothing"], NEW t \in Types
      PROVE  Own(t)' = {}
  BY <1>b, TestsOfTypes DEF Own, TestsOf
<1>c. ASSUME run' = run, wrote' = wrote, NEW t \in Types
      PROVE  Own(t)' = Own(t)
  BY <1>c DEF Own, TestsOf
<1>1. ASSUME NEW p \in Discoverable, Start(p)
      PROVE  FilesInv'
  <2>1. jobs' = {} /\ gathered' = NoFiles /\ phase' \notin {"jobs", "report"}
    BY <1>0, <1>1 DEF Start, ShapeInv, FirstPhase
  <2>2. phase' \in Executing => temp' = NoFiles
    BY <1>0, <1>1 DEF Start, CleanTemp, Executing
  <2>3. wrote' = [x \in Tests |-> "nothing"]
    BY <1>1 DEF Start, Forget
  <2>4. \A t \in Types : Own(t)' = {}
    BY <1>b, <2>3
  <2>5. QED BY <2>1, <2>2, <2>3, <2>4 DEF FilesInv, InProgress, NoFiles
<1>2. CASE \/ PreflightPasses \/ PreflightFails \/ NothingExecuted \/ RobotStep
           \/ \E m \in {Mergeable, {}} : Finish(m)
  <2>1. /\ UNCHANGED <<temp, gathered, wrote, run, jobs>>
        /\ phase' # "report"
        /\ phase' \in Executing => phase = "preflight"
    BY <1>2 DEF PreflightPasses, PreflightFails, NothingExecuted, PyatsEnds, RobotStep,
                Robot, Finish, disk, history, Executing
  <2>2. \A t \in Types : Own(t)' = Own(t)
    BY <1>c, <2>1
  <2>3. InProgress' = InProgress
    BY <2>1 DEF InProgress
  <2>4. phase' \in {"preflight", "pyats"} => phase = "preflight"
    BY <2>1 DEF Executing
  <2>5. QED BY <1>0, <2>1, <2>2, <2>3, <2>4 DEF FilesInv, Executing
<1>3. ASSUME NEW D \in SUBSET Devices, StartJobs(D)
      PROVE  FilesInv'
  <2>1. /\ UNCHANGED <<temp, gathered, wrote, run>>
        /\ phase = "pyats" /\ phase' = "jobs"
    BY <1>3 DEF history, StartJobs, disk
  <2>2. \A t \in Types : Own(t)' = Own(t)
    BY <1>c, <2>1
  <2>3. InProgress' \subseteq Tests
    BY DEF InProgress
  <2>4. QED BY <1>0, <2>1, <2>2, <2>3 DEF FilesInv, Executing
<1>4. ASSUME NEW s \in [ApiTests -> Statuses \cup {"nothing"}],
             NEW a \in {"api", "legacy", "none"}, ApiJobEnds(s, a)
      PROVE  FilesInv'
  <2>1. /\ phase = "jobs" /\ phase' = "jobs" /\ run' = run /\ gathered' = gathered
        /\ jobs' = jobs \ {"api"} /\ "api" \in jobs /\ Leave(ApiTests, s)
    BY <1>4 DEF ApiJobEnds, control
  <2>2. ApiTests \in SUBSET Tests /\ \A x \in ApiTests : wrote[x] = "nothing"
    BY <1>0, <2>1 DEF FilesInv, InProgress, Tests
  <2>3. \A t \in Types : temp'[t] \cup gathered'[t] = Own(t)'
    BY <1>0, <2>1, <2>2, LeaveFiles DEF FilesInv, Executing
  <2>4. \A x \in InProgress' : x \in InProgress /\ x \notin ApiTests
    BY <1>0, <2>1, TestsAssumption DEF InProgress, TypeOK
  <2>5. \A x \in InProgress' : wrote'[x] = "nothing"
    BY <1>0, <1>a, <2>1, <2>4 DEF FilesInv, Leave
  <2>6. QED BY <2>1, <2>3, <2>5 DEF FilesInv
<1>5. ASSUME NEW d \in Devices, NEW s \in Statuses \cup {"nothing"},
             NEW path \in BOOLEAN, NEW zip \in BOOLEAN,
             DeviceJobEnds(d, [x \in {d} |-> s], path, zip)
      PROVE  FilesInv'
  <2>1. /\ phase = "jobs" /\ phase' = "jobs" /\ run' = run /\ gathered' = gathered
        /\ jobs' = jobs \ {d} /\ d \in jobs /\ Leave({d}, [x \in {d} |-> s])
    BY <1>5 DEF DeviceJobEnds, control
  <2>2. {d} \in SUBSET Tests /\ \A x \in {d} : wrote[x] = "nothing"
    BY <1>0, <2>1 DEF FilesInv, InProgress, Tests
  <2>3. [x \in {d} |-> s] \in [{d} -> Statuses \cup {"nothing"}]
    OBVIOUS
  <2>4. \A t \in Types : temp'[t] \cup gathered'[t] = Own(t)'
    BY <1>0, <2>1, <2>2, <2>3, LeaveFiles DEF FilesInv, Executing
  <2>5. \A x \in InProgress' : x \in InProgress /\ x # d
    BY <1>0, <2>1, TestsAssumption DEF InProgress
  <2>6. \A x \in InProgress' : wrote'[x] = "nothing"
    BY <1>0, <1>a, <2>1, <2>5 DEF FilesInv, Leave
  <2>7. QED BY <2>1, <2>4, <2>6 DEF FilesInv
<1>6. CASE \/ \E X \in SUBSET Devices : CreateD2dArchive(X)
           \/ \E K \in SUBSET Devices : Aggregate(K)
           \/ AggregationFails
  <2>1. UNCHANGED <<temp, gathered, wrote, run, jobs, phase, outcome>>
    BY <1>6 DEF CreateD2dArchive, Aggregate, AggregationFails, control, disk, history
  <2>2. \A t \in Types : Own(t)' = Own(t)
    BY <1>c, <2>1
  <2>3. QED BY <1>0, <2>1, <2>2 DEF FilesInv, InProgress
<1>7. CASE OrchestrationFails \/ \E code \in {InterruptedCode, ErrorCode, Killed} : Stop(code)
  <2>1. jobs' = {} /\ phase' \in {"robot", "over"}
    BY <1>7 DEF OrchestrationFails, Stop, JobsGivenUp, PyatsEnds
  <2>2. QED BY <2>1 DEF FilesInv, InProgress, Executing
<1>8. CASE BeginReport
  <2>1. /\ UNCHANGED <<temp, gathered, wrote, run, jobs>>
        /\ phase = "jobs" /\ jobs = {} /\ phase' \in {"report", "robot"}
        /\ phase' = "report" => \A t \in Types : outcome'[t] \in {"pending", "none"}
    BY <1>8 DEF history, BeginReport, PyatsEnds
  <2>2. \A t \in Types : Own(t)' = Own(t)
    BY <1>c, <2>1
  <2>3. \A t \in Types : gathered[t] = {}
    BY <1>0, <2>1 DEF ShapeInv, NoFiles
  <2>4. QED BY <1>0, <2>1, <2>2, <2>3 DEF FilesInv, InProgress, Executing
<1>9. ASSUME NEW t \in Types, NEW ok \in BOOLEAN, ProcessArchive(t, ok)
      PROVE  FilesInv'
  <2>1. /\ UNCHANGED <<wrote, run, jobs, phase>> /\ phase = "report" /\ jobs = {}
        /\ \A u \in Types \ {t} : /\ temp'[u] = temp[u] /\ gathered'[u] = gathered[u]
                                  /\ outcome'[u] = outcome[u]
    BY <1>0, <1>9 DEF history, ProcessArchive, control, TypeOK, ShapeInv
  <2>2. \A u \in Types : Own(u)' = Own(u)
    BY <1>c, <2>1
  <2>3. temp[t] = Own(t) /\ gathered[t] = {}
    BY <1>0, <1>9 DEF ProcessArchive, FilesInv, Executing
  <2>4. CASE ok
    <3>1. /\ gathered'[t] = Own(t) /\ temp'[t] = {}
          /\ outcome'[t] = IF Own(t) = {} THEN "no_results" ELSE "success"
      BY <1>0, <1>9, <2>3, <2>4 DEF ProcessArchive, TypeOK
    <3>2. QED BY <1>0, <2>1, <2>2, <3>1 DEF FilesInv, InProgress, Executing
  <2>5. CASE ~ok
    <3>1. gathered' = gathered /\ temp' = temp /\ outcome'[t] = "error"
      BY <1>0, <1>9, <2>5 DEF ProcessArchive, TypeOK
    <3>2. QED BY <1>0, <2>1, <2>2, <2>3, <3>1 DEF FilesInv, InProgress, Executing
  <2>6. QED BY <2>4, <2>5
<1>10. ASSUME NEW keep \in BOOLEAN, FinishReport(keep)
       PROVE  FilesInv'
  <2>1. phase' = "robot" /\ jobs' = {}
    BY <1>0, <1>10 DEF FinishReport, PyatsEnds, ShapeInv
  <2>2. QED BY <2>1 DEF FilesInv, InProgress, Executing
<1>11. QED
  BY <1>1, <1>2, <1>3, <1>4, <1>5, <1>6, <1>7, <1>8, <1>9, <1>10 DEF Next

\* The results of the PyATS tests change only when PyATS ends or a run starts.
Counts(t) ==
    \/ results[t].state = "success"
       /\ results[t].passed = Wrote(t, {"passed"})
       /\ results[t].failed = Wrote(t, {"failed"})
       /\ results[t].skipped = Wrote(t, {"skipped", "unfinished"})
    \/ Total(results[t]) = 0

\* Every step keeps the counts those of the run's own tests, with their failures.
LEMMA CountsStep ==
    ASSUME IInv, Next
    PROVE  (CountsAreOwn /\ FailedInv)'
<1>0. TypeOK /\ ShapeInv /\ FilesInv /\ CountsAreOwn /\ FailedInv
  BY DEF IInv
<1>a. \A k : Total(NoCounts(k)) = 0 /\ NoCounts(k).failed = 0 /\ Total(None) = 0
             /\ None.failed = 0
  BY DEF Total, NoCounts, None
<1>c. CountsAreOwn = (phase \in Late => \A t \in Types : Counts(t))
      /\ CountsAreOwn' = (phase' \in Late => \A t \in Types : Counts(t)')
  BY DEF CountsAreOwn, Counts, Late
<1>d. ASSUME phase' \notin Late
      PROVE  (CountsAreOwn /\ FailedInv)'
  BY <1>c, <1>d DEF FailedInv
<1>e. ASSUME \A t \in Types : /\ Total(results'[t]) = 0
                             /\ outcome'[t] \in {"none", "error"}
      PROVE  (CountsAreOwn /\ FailedInv)'
  BY <1>c, <1>e DEF FailedInv, Counts, Total
<1>f. ASSUME NEW api, NEW d2d, PyatsEnds(api, d2d)
      PROVE  results'["api"] = api /\ results'["d2d"] = d2d
  BY <1>0, <1>f DEF PyatsEnds, TypeOK
<1>1. ASSUME NEW p \in Discoverable, Start(p)
      PROVE  (CountsAreOwn /\ FailedInv)'
  <2>1. results' = NoResults /\ \A t \in Types : outcome'[t] = "none"
    BY <1>1 DEF Start, Forget
  <2>2. \A t \in Types : results'[t] = None
    BY <2>1 DEF NoResults, Types
  <2>3. QED BY <1>a, <1>e, <2>1, <2>2
<1>2. CASE PreflightFails
  <2>1. phase = "preflight" /\ results' = results /\ outcome' = outcome
    BY <1>2 DEF PreflightFails
  <2>2. \A t \in Types : results'[t] = None /\ outcome'[t] = "none"
    BY <1>0, <2>1 DEF ShapeInv, Executing
  <2>3. QED BY <1>a, <1>e, <2>2
<1>3. CASE \/ PreflightPasses
           \/ \E D \in SUBSET Devices : StartJobs(D)
           \/ \E s \in [ApiTests -> Statuses \cup {"nothing"}], a \in {"api", "legacy", "none"} :
                 ApiJobEnds(s, a)
           \/ \E d \in Devices, s \in Statuses \cup {"nothing"}, path \in BOOLEAN,
                 zip \in BOOLEAN : DeviceJobEnds(d, [x \in {d} |-> s], path, zip)
           \/ \E X \in SUBSET Devices : CreateD2dArchive(X)
           \/ \E K \in SUBSET Devices : Aggregate(K)
           \/ AggregationFails
           \/ \E t \in Types, ok \in BOOLEAN : ProcessArchive(t, ok)
           \/ \E m \in {Mergeable, {}} : Finish(m)
           \/ \E code \in {InterruptedCode, ErrorCode, Killed} : Stop(code)
  <2>1. phase' \notin Late
    BY <1>3 DEF PreflightPasses, StartJobs, ApiJobEnds, DeviceJobEnds, CreateD2dArchive, Aggregate,
                AggregationFails, ProcessArchive, Finish, Stop, control, Late
  <2>2. QED BY <1>d, <2>1
<1>4. CASE NothingExecuted
  <2>1. PICK k : PyatsEnds(ForSelected(NoCounts(k), "api"), ForSelected(NoCounts(k), "d2d"))
    BY <1>4 DEF NothingExecuted
  <2>2. \A t \in Types : Total(results'[t]) = 0
    BY <1>a, <1>f, <2>1 DEF ForSelected, Types
  <2>3. \A t \in Types : outcome'[t] = "none"
    BY <1>0, <1>4 DEF NothingExecuted, ShapeInv, Executing
  <2>4. QED BY <1>e, <2>2, <2>3
<1>5. CASE OrchestrationFails
  <2>1. \A t \in Types : Total(results'[t]) = 0
    BY <1>5, <1>a, <1>f DEF OrchestrationFails, Types
  <2>2. \A t \in Types : outcome'[t] = "none"
    BY <1>5 DEF OrchestrationFails
  <2>3. QED BY <1>e, <2>1, <2>2
<1>6. CASE BeginReport
  <2>1. CASE \E t \in Types : archives[t] # {}
    BY <1>6, <1>d, <2>1 DEF BeginReport, Late
  <2>2. CASE \A t \in Types : archives[t] = {}
    <3>1. \A t \in Types : Total(results'[t]) = 0
      BY <1>6, <1>a, <1>f, <2>2 DEF BeginReport, Types
    <3>2. \A t \in Types : outcome'[t] = "none"
      BY <1>0, <1>6, <2>2 DEF BeginReport, ShapeInv, Executing
    <3>3. QED BY <1>e, <3>1, <3>2
  <2>3. QED BY <2>1, <2>2
<1>7. ASSUME NEW keep \in BOOLEAN, FinishReport(keep)
      PROVE  (CountsAreOwn /\ FailedInv)'
  <2>1. \A t \in Types : results'[t] = Stats(t)
    BY <1>7, <1>f DEF FinishReport, Types
  <2>2. phase = "report" /\ UNCHANGED <<outcome, wrote>>
    BY <1>7 DEF history, FinishReport
  <2>3. \A t \in Types, S \in SUBSET Written : Wrote(t, S)' = Wrote(t, S)
    BY <2>2 DEF Wrote, TestsOf
  <2>4. {"passed"} \in SUBSET Written /\ {"failed"} \in SUBSET Written
        /\ {"skipped", "unfinished"} \in SUBSET Written
    BY DEF Written
  <2>5. ASSUME NEW t \in Types
        PROVE  Counts(t)'
    BY <1>0, <1>a, <2>1, <2>2, <2>3, <2>4, StatsType DEF Counts
  <2>6. ASSUME NEW t \in Types, outcome[t] \notin {"none", "error"}
        PROVE  Stats(t).failed = Wrote(t, {"failed"})
    <3>1. CASE outcome[t] = "success"
      BY <1>0, <2>2, <3>1, StatsType
    <3>2. CASE outcome[t] = "no_results"
      <4>1. Own(t) = {} /\ Stats(t) = None
        BY <1>0, <2>2, <3>2, StatsType DEF FilesInv
      <4>2. {f \in Own(t) : f.status \in {"failed"}} = {}
        BY <4>1
      <4>3. Wrote(t, {"failed"}) = 0
        BY <1>0, <2>4, <4>2, CountOwn, FS_EmptySet
      <4>4. QED BY <1>a, <4>1, <4>3
    <3>3. QED
      BY <1>0, <1>7, <2>6, <3>1, <3>2 DEF FinishReport, TypeOK, Outcomes
  <2>7. FailedInv'
    BY <2>1, <2>2, <2>3, <2>4, <2>6 DEF FailedInv
  <2>8. QED BY <1>c, <2>5, <2>7
<1>8. CASE RobotStep
  <2>1. /\ phase = "robot" /\ UNCHANGED <<wrote, outcome>>
        /\ \A t \in Types : results'[t] = results[t]
    BY <1>0, <1>8 DEF history, RobotStep, Robot, TypeOK, Types
  <2>2. \A t \in Types, S \in SUBSET Written : Wrote(t, S)' = Wrote(t, S)
    BY <2>1 DEF Wrote, TestsOf
  <2>3. {"passed"} \in SUBSET Written /\ {"failed"} \in SUBSET Written
        /\ {"skipped", "unfinished"} \in SUBSET Written
    BY DEF Written
  <2>4. \A t \in Types : Counts(t)' = Counts(t)
    BY <2>1, <2>2, <2>3 DEF Counts
  <2>5. QED BY <1>0, <1>c, <2>1, <2>2, <2>3, <2>4 DEF FailedInv, Late
<1>9. QED
  BY <1>1, <1>2, <1>3, <1>4, <1>5, <1>6, <1>7, <1>8 DEF Next

\* No step leaves an archive newer than the run.
LEMMA ArchiveStep ==
    ASSUME IInv, Next
    PROVE  ArchiveInv'
<1>0. TypeOK /\ ShapeInv /\ ArchiveInv
  BY DEF IInv
<1>a. /\ run \in Nat /\ MaxRuns \in Nat
      /\ \A t \in Types : archives[t] \subseteq Nat
  BY <1>0, BoundsAssumption DEF TypeOK, Runs
<1>b. \A k : Total(NoCounts(k)) = 0 /\ Total(None) = 0
  BY DEF Total, NoCounts, None
<1>c. ASSUME NEW api, NEW d2d, PyatsEnds(api, d2d)
      PROVE  /\ results'["api"] = api /\ results'["d2d"] = d2d /\ phase' = "robot"
  BY <1>0, <1>c DEF PyatsEnds, TypeOK
<1>d. ASSUME UNCHANGED <<archives, run>>, phase' = "robot",
             \A t \in Types : Total(results'[t]) = 0, archived' = archived
      PROVE  ArchiveInv'
  BY <1>0, <1>d DEF ArchiveInv, TypeOK
<1>1. ASSUME NEW p \in Discoverable, Start(p)
      PROVE  ArchiveInv'
  <2>1. /\ phase' \notin {"jobs", "report"} /\ archived' = {} /\ archives' = archives
        /\ run' = run + 1
    BY <1>1 DEF Start, Forget, FirstPhase
  <2>2. \A t \in Types : \A n \in archives'[t] : n =< run'
    BY <1>0, <1>a, <2>1 DEF ArchiveInv
  <2>3. QED BY <2>1, <2>2 DEF ArchiveInv
<1>2. CASE PreflightPasses \/ \E D \in SUBSET Devices : StartJobs(D)
  <2>1. /\ UNCHANGED <<archives, run, archived>> /\ archived = {}
        /\ phase' \in {"pyats", "jobs"}
    BY <1>0, <1>2 DEF history, PreflightPasses, StartJobs, disk, ShapeInv
  <2>2. QED BY <1>0, <2>1 DEF ArchiveInv, Late
<1>3. CASE PreflightFails
  <2>1. UNCHANGED <<archives, run, archived>> /\ archived = {} /\ phase' = "robot"
    BY <1>0, <1>3 DEF history, PreflightFails, disk, ShapeInv
  <2>2. QED BY <1>0, <2>1 DEF ArchiveInv
<1>4. CASE NothingExecuted
  <2>1. PICK k : PyatsEnds(ForSelected(NoCounts(k), "api"), ForSelected(NoCounts(k), "d2d"))
    BY <1>4 DEF NothingExecuted
  <2>2. \A t \in Types : Total(results'[t]) = 0
    BY <1>b, <1>c, <2>1 DEF ForSelected, Types
  <2>3. QED BY <1>4, <1>c, <1>d, <2>1, <2>2 DEF history, NothingExecuted, disk
<1>5. ASSUME NEW s, NEW a \in {"api", "legacy", "none"}, ApiJobEnds(s, a)
      PROVE  ArchiveInv'
  <2>1. /\ run' = run /\ phase = "jobs" /\ phase' = "jobs"
        /\ archived' = archived \cup ({a} \cap {"api"})
    BY <1>5 DEF ApiJobEnds, control
  <2>2. \A t \in Types : archives'[t] = IF t = a THEN archives[t] \cup {run} ELSE archives[t]
    BY <1>0, <1>5 DEF ApiJobEnds, Archive, TypeOK, Types
  <2>3. \A t \in Types : \A n \in archives'[t] : n =< run'
    <3>1. run =< run /\ \A t \in Types : \A n \in archives[t] : n =< run
      BY <1>0, <1>a DEF ArchiveInv
    <3>2. QED BY <2>1, <2>2, <3>1
  <2>4. \A t \in archived' : run' \in archives'[t]
    BY <1>0, <2>1, <2>2 DEF ArchiveInv, TypeOK, Types
  <2>5. QED BY <2>1, <2>3, <2>4 DEF ArchiveInv, Late
<1>6. ASSUME NEW d, NEW s, NEW path, NEW zip, DeviceJobEnds(d, s, path, zip)
      PROVE  ArchiveInv'
  BY <1>0, <1>6 DEF DeviceJobEnds, control, ArchiveInv, Late
<1>7. ASSUME NEW X \in SUBSET Devices, CreateD2dArchive(X)
      PROVE  ArchiveInv'
  <2>1. run' = run /\ phase = "jobs" /\ phase' = "jobs" /\ archived' = archived
    BY <1>7 DEF CreateD2dArchive, control, history
  <2>2. \A t \in Types : archives'[t] = IF t = "d2d" THEN archives[t] \cup {run} ELSE archives[t]
    BY <1>0, <1>7 DEF CreateD2dArchive, Archive, TypeOK, Types
  <2>3. \A t \in Types : \A n \in archives'[t] : n =< run'
    <3>1. run =< run /\ \A t \in Types : \A n \in archives[t] : n =< run
      BY <1>0, <1>a DEF ArchiveInv
    <3>2. QED BY <2>1, <2>2, <3>1
  <2>4. \A t \in archived' : run' \in archives'[t]
    BY <1>0, <2>1, <2>2 DEF ArchiveInv, TypeOK, Types
  <2>5. QED BY <2>1, <2>3, <2>4 DEF ArchiveInv, Late
<1>15. ASSUME NEW K \in SUBSET Devices, Aggregate(K)
       PROVE  ArchiveInv'
  <2>1. /\ run' = run /\ phase = "jobs" /\ phase' = "jobs" /\ archives' = archives
        /\ run \in archives["d2d"] /\ archived' = archived \cup {"d2d"}
    BY <1>15 DEF Aggregate, control
  <2>2. \A t \in archived' : run' \in archives'[t]
    BY <1>0, <2>1 DEF ArchiveInv
  <2>3. QED BY <1>0, <2>1, <2>2 DEF ArchiveInv, Late
<1>16. CASE AggregationFails
  BY <1>0, <1>16 DEF AggregationFails, control, disk, history, ArchiveInv, Late
<1>8. CASE OrchestrationFails
  <2>1. /\ UNCHANGED <<archives, run, archived>> /\ phase' = "robot"
        /\ \A t \in Types : Total(results'[t]) = 0
    BY <1>8, <1>b, <1>c DEF OrchestrationFails, Types
  <2>2. QED BY <1>d, <2>1
<1>9. CASE BeginReport
  <2>1. CASE \E t \in Types : archives[t] # {}
    <3>1. /\ UNCHANGED <<archives, run, archived>> /\ phase' = "report"
          /\ phase = "jobs"
          /\ \A t \in Types : outcome'[t] = IF archives[t] # {} THEN "pending" ELSE "none"
      BY <1>9, <2>1 DEF history, BeginReport
    <3>2. QED BY <1>0, <3>1 DEF ArchiveInv, TypeOK, Late
  <2>2. CASE \A t \in Types : archives[t] = {}
    <3>1. /\ UNCHANGED <<archives, run, archived>> /\ phase' = "robot"
          /\ \A t \in Types : Total(results'[t]) = 0
      BY <1>9, <1>b, <1>c, <2>2 DEF history, BeginReport, Types
    <3>2. QED BY <1>d, <3>1
  <2>3. QED BY <2>1, <2>2
<1>10. ASSUME NEW t \in Types, NEW ok \in BOOLEAN, ProcessArchive(t, ok)
       PROVE  ArchiveInv'
  <2>1. /\ UNCHANGED <<archives, run, phase, archived>> /\ phase = "report"
        /\ outcome[t] = "pending"
        /\ \A u \in Types \ {t} : /\ outcome'[u] = outcome[u] /\ reports'[u] = reports[u]
    BY <1>0, <1>10 DEF history, ProcessArchive, control, TypeOK
  <2>2. outcome'[t] # "pending"
    BY <1>0, <1>10 DEF ProcessArchive, TypeOK
  <2>3. ASSUME outcome'[t] \in {"success", "no_results"}, t \in archived
        PROVE  reports'[t] = run
    <3>1. reports'[t] = Newest(t)
      BY <1>0, <1>10, <2>3 DEF ProcessArchive, TypeOK
    <3>2. run \in archives[t] /\ \A n \in archives[t] : n =< run
      BY <1>0, <2>1, <2>3 DEF ArchiveInv
    <3>3. Newest(t) \in archives[t] /\ run =< Newest(t)
      BY <1>0, <3>2, NewestArchive
    <3>4. QED BY <1>a, <3>1, <3>2, <3>3
  <2>4. QED BY <1>0, <2>1, <2>2, <2>3 DEF ArchiveInv, TypeOK, Late
<1>11. ASSUME NEW keep \in BOOLEAN, FinishReport(keep)
       PROVE  ArchiveInv'
  <2>1. /\ UNCHANGED <<run, reports, outcome, archived>> /\ phase = "report"
        /\ phase' = "robot"
        /\ \A t \in Types : results'[t] = Stats(t)
    BY <1>11, <1>c DEF history, FinishReport, Types
  <2>2. \A t \in Types : archives'[t] \subseteq archives[t]
    BY <1>0, <1>11 DEF FinishReport, TypeOK
  <2>3. \A t \in Types : Total(Stats(t)) > 0 => outcome[t] = "success"
    BY <1>b DEF Stats
  <2>4. QED BY <1>0, <2>1, <2>2, <2>3 DEF ArchiveInv, TypeOK, Late
<1>12. CASE RobotStep
  <2>1. /\ UNCHANGED <<archives, run, reports, archived>> /\ phase = "robot"
        /\ phase' = "finish"
        /\ \A t \in Types : results'[t] = results[t]
    BY <1>0, <1>12 DEF history, RobotStep, Robot, TypeOK, Types, disk
  <2>2. QED BY <1>0, <2>1 DEF ArchiveInv, TypeOK, Late
<1>13. CASE \/ \E m \in {Mergeable, {}} : Finish(m)
            \/ \E code \in {InterruptedCode, ErrorCode, Killed} : Stop(code)
  <2>1. UNCHANGED <<archives, run>> /\ phase' = "over"
    BY <1>13 DEF Finish, Stop, disk
  <2>2. QED BY <1>0, <2>1 DEF ArchiveInv, Late
<1>14. QED
  BY <1>1, <1>2, <1>3, <1>4, <1>5, <1>6, <1>7, <1>8, <1>9, <1>10, <1>11, <1>12, <1>13,
     <1>15, <1>16 DEF Next

\* A failure of a type that was processed is in the exit code.
LEMMA FailureInExitCode ==
    ASSUME IInv, phase = "finish", NEW x \in Tests, wrote[x] = "failed",
           outcome[TypeOf(x)] \notin {"none", "error"}
    PROVE  MainExit(plan.mode, results, preflight) \notin {0, DataError}
<1>1. TypeOf(x) \in Types
  BY TestsOfTypes DEF Types
<1>2. results[TypeOf(x)].failed > 0
  <2>1. TypeOK /\ FailedInv
    BY DEF IInv
  <2>2. Wrote(TypeOf(x), {"failed"}) > 0
    BY <2>1, WrotePositive
  <2>3. QED BY <1>1, <2>1, <2>2 DEF FailedInv, Late
<1>3. \A k \in {"api", "d2d", "robot"} : results[k].failed \in Nat
  BY DEF IInv, TypeOK, Results
<1>4. Failed(results) \in Nat /\ Failed(results) > 0
  BY <1>1, <1>2, <1>3 DEF Failed, Types
<1>5. ExitCode(results, preflight) \notin {0, DataError}
  BY <1>4, CapAssumption
  DEF ExitCode, PreflightFailure, InterruptedCode, ErrorCode, DataError
<1>6. plan.mode # "render_only"
  BY <1>1 DEF IInv, ShapeInv, Late
<1>7. QED BY <1>5, <1>6 DEF MainExit

\* Every step keeps the failures of processed archives in the exit code.
LEMMA FailuresStep ==
    ASSUME IInv, Next
    PROVE  FailuresShow'
<1>1. ASSUME NEW p \in Discoverable, Start(p)
      PROVE  FailuresShow'
  <2>1. \A x \in Tests : wrote'[x] # "failed"
    BY <1>1 DEF Start, Forget
  <2>2. QED BY <2>1 DEF FailuresShow
<1>2. ASSUME NEW m \in {Mergeable, {}}, Finish(m)
      PROVE  FailuresShow'
  <2>1. /\ phase = "finish" /\ UNCHANGED <<wrote, outcome>>
        /\ exit' = MainExit(plan.mode, results, preflight)
    BY <1>2 DEF history, Finish
  <2>2. \A x \in Tests : wrote[x] = "failed" /\ outcome[TypeOf(x)] \notin {"none", "error"}
                         => exit' \notin {0, DataError}
    BY <2>1, FailureInExitCode
  <2>3. QED BY <2>1, <2>2 DEF FailuresShow, TypeOf
<1>3. ASSUME NEW code \in {InterruptedCode, ErrorCode, Killed}, Stop(code)
      PROVE  FailuresShow'
  <2>1. exit' \notin {0, DataError}
    BY <1>3 DEF Stop, InterruptedCode, ErrorCode, Killed, DataError
  <2>2. QED BY <2>1 DEF FailuresShow
<1>4. ASSUME phase' # "over"
      PROVE  FailuresShow'
  BY <1>4 DEF FailuresShow, Complete
<1>5. QED
  BY <1>1, <1>2, <1>3, <1>4
  DEF Next, PreflightPasses, PreflightFails, NothingExecuted, StartJobs, ApiJobEnds,
      DeviceJobEnds, CreateD2dArchive, Aggregate, AggregationFails, OrchestrationFails,
      BeginReport, ProcessArchive, FinishReport, RobotStep, Robot, PyatsEnds, control

\* No step loses an archive that a job of this run wrote before it is aggregated.
LEMMA PartsStep ==
    ASSUME IInv, Next
    PROVE  PartsInv'
<1>0. TypeOK /\ ShapeInv /\ ArchiveInv /\ PartsInv
  BY DEF IInv
<1>a. ASSUME UNCHANGED <<zips, parts, run, own>>,
             zipped' \subseteq zipped, jobs' \cap Devices \subseteq jobs,
             phase' = "pyats" => phase = "preflight", phase' # "preflight",
             phase' = "jobs" => phase = "jobs" /\ archived \subseteq archived'
      PROVE  PartsInv'
  BY <1>0, <1>a DEF PartsInv
<1>b. run \in Int /\ 0 \notin Runs
  BY <1>0, BoundsAssumption DEF TypeOK, Runs
<1>1. ASSUME NEW p \in Discoverable, Start(p)
      PROVE  PartsInv'
  <2>1. /\ run' = run + 1 /\ own' = {} /\ UNCHANGED <<parts, zips>>
        /\ jobs' = {} /\ zipped' = {}
    BY <1>0, <1>1 DEF Start, Forget, ShapeInv
  <2>2. run' \in Runs
    BY <1>0, <1>1, BoundsAssumption DEF Start, TypeOK, Runs
  <2>3. \A n \in Runs : n > run' => n > run
    BY <1>b, <2>1 DEF Runs
  <2>4. run' > run
    BY <1>b, <2>1
  <2>5. QED BY <1>0, <2>1, <2>2, <2>3, <2>4 DEF PartsInv
<1>2. CASE \/ PreflightPasses \/ PreflightFails \/ NothingExecuted \/ AggregationFails
           \/ BeginReport \/ RobotStep
           \/ \E t \in Types, ok \in BOOLEAN : ProcessArchive(t, ok)
           \/ \E keep \in BOOLEAN : FinishReport(keep)
           \/ \E m \in {Mergeable, {}} : Finish(m)
  <2>1. /\ UNCHANGED <<zips, parts, run, own, archived, jobs>> /\ zipped' \subseteq zipped
        /\ phase' = "pyats" => phase = "preflight"
        /\ phase' # "preflight"
        /\ phase' = "jobs" => phase = "jobs"
    BY <1>2 DEF PreflightPasses, PreflightFails, NothingExecuted, AggregationFails,
                BeginReport, RobotStep, Robot, ProcessArchive, FinishReport, Finish,
                PyatsEnds, disk, control, history
  <2>2. QED BY <1>a, <2>1
<1>3. ASSUME NEW D \in SUBSET Devices, StartJobs(D)
      PROVE  PartsInv'
  <2>1. /\ UNCHANGED <<zips, parts, run, own, zipped>>
        /\ own = {} /\ parts[run] = {} /\ phase' = "jobs"
    BY <1>0, <1>3 DEF StartJobs, PartsInv, disk, history
  <2>2. QED BY <1>0, <2>1 DEF PartsInv
<1>4. ASSUME NEW s, NEW a \in {"api", "legacy", "none"}, ApiJobEnds(s, a)
      PROVE  PartsInv'
  <2>1. /\ UNCHANGED <<zips, parts, run, own, zipped>> /\ phase = "jobs" /\ phase' = "jobs"
        /\ jobs' \subseteq jobs /\ archived \subseteq archived'
    BY <1>4 DEF ApiJobEnds, control
  <2>2. QED BY <1>a, <2>1
<1>5. ASSUME NEW d \in Devices, NEW s, NEW path \in BOOLEAN, NEW zip \in BOOLEAN,
             DeviceJobEnds(d, s, path, zip)
      PROVE  PartsInv'
  <2> DEFINE D == IF zip THEN {d} ELSE {}
  <2>1. /\ UNCHANGED <<parts, run, archived>> /\ phase = "jobs" /\ phase' = "jobs"
        /\ d \in jobs /\ jobs' = jobs \ {d} /\ run \in Runs
        /\ zipped' = IF path /\ zips'[d] # 0 THEN zipped \cup {d} ELSE zipped
        /\ zips' = [e \in Devices |-> IF e \in D THEN run ELSE zips[e]]
        /\ own' = own \cup D
    BY <1>0, <1>5 DEF DeviceJobEnds, WriteZips, control, ShapeInv
  <2>2. \A e \in zipped' : zips'[e] # 0
    BY <1>0, <1>b, <2>1 DEF PartsInv, TypeOK
  <2>3. parts[run] = {}
    BY <1>0, <2>1 DEF PartsInv
  <2>4. "d2d" \notin archived => \A e \in own' : zips'[e] = run
    BY <1>0, <2>1 DEF PartsInv, TypeOK
  <2>5. QED BY <1>0, <2>1, <2>2, <2>3, <2>4 DEF PartsInv
<1>6. ASSUME NEW X \in SUBSET Devices, CreateD2dArchive(X)
      PROVE  PartsInv'
  <2>1. /\ UNCHANGED <<zips, run, own, zipped, jobs, archived>>
        /\ phase = "jobs" /\ phase' = "jobs" /\ jobs \cap Devices = {}
        /\ run \in Runs /\ run \notin archives["d2d"]
        /\ parts' = [parts EXCEPT ![run] = {<<d, zips[d]>> : d \in X \cap zipped}]
    BY <1>0, <1>6 DEF CreateD2dArchive, control, history, ShapeInv
  <2>2. "d2d" \notin archived
    BY <1>0, <2>1 DEF ArchiveInv
  <2>3. \A d \in own : zips[d] = run
    BY <1>0, <2>1, <2>2 DEF PartsInv
  <2>4. parts'[run] = {<<d, zips[d]>> : d \in X \cap zipped}
    BY <1>0, <2>1 DEF TypeOK
  <2>5. \A q \in parts'[run] : q[1] \in own => q[2] = run
    BY <2>3, <2>4
  <2>6. \A n \in Runs : n > run => parts'[n] = {}
    BY <1>0, <1>b, <2>1 DEF PartsInv, TypeOK
  <2>7. QED BY <1>0, <2>1, <2>3, <2>5, <2>6 DEF PartsInv
<1>7. ASSUME NEW K \in SUBSET Devices, Aggregate(K)
      PROVE  PartsInv'
  <2>1. /\ UNCHANGED <<parts, run, own, jobs>> /\ phase = "jobs" /\ phase' = "jobs"
        /\ zipped' = {} /\ "d2d" \in archived'
    BY <1>7 DEF Aggregate, control
  <2>2. QED BY <1>0, <2>1 DEF PartsInv
<1>8. CASE OrchestrationFails \/ \E code \in {InterruptedCode, ErrorCode, Killed} : Stop(code)
  <2>1. /\ UNCHANGED <<parts, run>> /\ phase' \in {"robot", "over"} /\ zipped' = {}
        /\ jobs' = {} /\ own' \subseteq own \cup (jobs \cap Devices)
    BY <1>8 DEF OrchestrationFails, Stop, JobsGivenUp, WriteZips, PyatsEnds
  <2>2. run \in Runs => \A q \in parts[run] : q[1] \in own' => q[2] = run
    BY <1>0, <2>1 DEF PartsInv
  <2>3. QED BY <1>0, <2>1, <2>2 DEF PartsInv
<1>9. QED BY <1>1, <1>2, <1>3, <1>4, <1>5, <1>6, <1>7, <1>8 DEF Next

\* No step merges an older xUnit file where the run left an archive.
LEMMA StaleStep ==
    ASSUME IInv, Next
    PROVE  StaleXunitOnlyWithoutOwn'
<1>0. TypeOK /\ ShapeInv /\ ArchiveInv /\ PartsInv
  BY DEF IInv
<1>1. ASSUME NEW m \in {Mergeable, {}}, Finish(m)
      PROVE  StaleXunitOnlyWithoutOwn'
  <2>1. /\ phase = "finish" /\ UNCHANGED <<run, archived, own>> /\ merged' \subseteq Mergeable
        /\ run \in Runs
    BY <1>0, <1>1 DEF Finish, history, ShapeInv
  <2>2. ASSUME NEW k \in Mergeable, k[2] # run
        PROVE  IF k[1] = "api" THEN "api" \notin archived
               ELSE k[1] \notin own \/ "d2d" \notin archived
    <3>1. PICK t \in Types : k \in Extracted(t) /\ Total(results[t]) > 0
      BY DEF Mergeable
    <3>2. t \in archived => reports[t] = run
      BY <1>0, <2>1, <3>1 DEF ArchiveInv, Late
    <3>3. CASE t = "api"
      BY <2>2, <3>1, <3>2, <3>3 DEF Extracted
    <3>4. CASE t = "d2d"
      <4>1. reports[t] \in Runs /\ k \in parts[reports[t]]
        BY <1>0, <3>1, <3>4, BoundsAssumption DEF Extracted, TypeOK, Runs
      <4>2. k[1] # "api"
        BY <1>0, <4>1, TestsAssumption DEF TypeOK
      <4>3. "d2d" \in archived => k[1] \notin own
        BY <1>0, <2>1, <2>2, <3>2, <3>4, <4>1 DEF PartsInv
      <4>4. QED BY <4>2, <4>3
    <3>5. QED BY <3>3, <3>4 DEF Types
  <2>3. QED BY <2>1, <2>2 DEF StaleXunitOnlyWithoutOwn
<1>2. ASSUME merged' = {}
      PROVE  StaleXunitOnlyWithoutOwn'
  BY <1>2 DEF StaleXunitOnlyWithoutOwn
<1>3. QED
  BY <1>0, <1>1, <1>2
  DEF Next, Start, Forget, PreflightPasses, PreflightFails, NothingExecuted, StartJobs,
      ApiJobEnds, DeviceJobEnds, CreateD2dArchive, Aggregate, AggregationFails,
      OrchestrationFails, BeginReport, ProcessArchive, FinishReport, RobotStep, Robot,
      Stop, ShapeInv

\* The invariant holds before the first run.
LEMMA IInvInit == Init => IInv
<1> SUFFICES ASSUME Init PROVE IInv
  OBVIOUS
<1>1. TypeOK
  BY TypeInit
<1>2. ShapeInv /\ FilesInv
  BY DEF Init, ShapeInv, FilesInv, Executing, Late, InProgress
<1>3. CountsAreOwn /\ FailedInv /\ ArchiveInv
  BY DEF Init, CountsAreOwn, FailedInv, ArchiveInv, Late
<1>4. PartsInv /\ FailuresShow /\ StaleXunitOnlyWithoutOwn
  BY DEF Init, PartsInv, FailuresShow, Complete, StaleXunitOnlyWithoutOwn, Runs
<1>5. QED BY <1>1, <1>2, <1>3, <1>4 DEF IInv

\* Every step keeps the invariant.
LEMMA IInvStep == IInv /\ [Next]_vars => IInv'
<1> SUFFICES ASSUME IInv, [Next]_vars PROVE IInv'
  OBVIOUS
<1>1. CASE Next
  BY <1>1, TypeStep, ShapeStep, FilesStep, CountsStep, ArchiveStep, PartsStep, FailuresStep,
     StaleStep DEF IInv
<1>2. CASE UNCHANGED vars
  <2> USE <1>2 DEF vars, disk, control, history
  <2>1. TypeOK' /\ ShapeInv'
    BY DEF IInv, TypeOK, ShapeInv
  <2>2. FilesInv'
    <3>1. InProgress' = InProgress /\ \A t \in Types : Own(t)' = Own(t)
      BY DEF InProgress, Own, TestsOf
    <3>2. QED BY <3>1 DEF IInv, FilesInv
  <2>3. CountsAreOwn' /\ FailedInv'
    <3>1. \A t \in Types : \A S : Wrote(t, S)' = Wrote(t, S)
      BY DEF Wrote, TestsOf
    <3>2. QED BY <3>1 DEF IInv, CountsAreOwn, FailedInv, Total
  <2>4. ArchiveInv' /\ PartsInv' /\ StaleXunitOnlyWithoutOwn'
    BY DEF IInv, ArchiveInv, PartsInv, Total, StaleXunitOnlyWithoutOwn
  <2>5. FailuresShow'
    BY DEF IInv, FailuresShow, Complete, TypeOf
  <2>6. QED BY <2>1, <2>2, <2>3, <2>4, <2>5 DEF IInv
<1>3. QED BY <1>1, <1>2

\* The state of a run and of its output directory is well-typed; in particular
\* the exit code is always one of those that main() documents (CombinedResults.
\* exit_code, cli/main.py), whatever is counted and whatever fails.
THEOREM RunTypeCorrect == Spec => []TypeOK
<1>1. IInv => TypeOK
  BY DEF IInv
<1>2. QED BY IInvInit, IInvStep, <1>1, PTL DEF Spec

\* Of any number of runs in one directory, each interrupted or killed anywhere,
\* a run reports the results that its own tests wrote, or none
\* (cleanup_stale_test_artifacts, _collect_pyats_stats).
THEOREM CountsOwn == Spec => []CountsAreOwn
<1>1. IInv => CountsAreOwn
  BY DEF IInv
<1>2. QED BY IInvInit, IInvStep, <1>1, PTL DEF Spec

\* A failure that a PyATS test wrote reaches the exit code whenever an archive of
\* its type is processed, however many tests fail, whatever the other type,
\* Robot and the pre-flight check come to (CombinedResults.exit_code).
THEOREM FailuresReachExitCode == Spec => []FailuresShow
<1>1. IInv => FailuresShow
  BY DEF IInv
<1>2. QED BY IInvInit, IInvStep, <1>1, PTL DEF Spec

\* What is merged for the API job, if it left an archive in this run, is its xUnit
\* file; so it is for each device whose job wrote an archive, once the archives of
\* the devices are aggregated, whatever earlier runs have left (find_archives,
\* aggregate_device_archives, collect_xunit_files).
THEOREM OwnXunitFirst == Spec => []StaleXunitOnlyWithoutOwn
<1>1. IInv => StaleXunitOnlyWithoutOwn
  BY DEF IInv
<1>2. QED BY IInvInit, IInvStep, <1>1, PTL DEF Spec
=============================================================================
