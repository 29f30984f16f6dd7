---------------------------- MODULE JobRunProofs ----------------------------
(***************************************************************************)
(* Safety of JobRun for any devices, tests and bounds.                     *)
(***************************************************************************)
EXTENDS JobRun, SequenceTheorems, TLAPS

Ended == {"closing", "exited"}

\* The coroutine, the process and what is left of it.
JobInv ==
    /\ \A j \in Jobs :
        /\ job[j] \in {"idle", "job file", "testbed", "ready"} => proc[j] = "none"
        /\ job[j] = "returned" => proc[j] \in {"none", "exited"}
        /\ proc[j] \in Ended => \A t \in TasksOf(j) : ran[t] # "running"
        /\ zip[j] # "none" => proc[j] = "exited"
        /\ job[j] = "returned" /\ zip[j] # "none" /\ rc[j] \in {0, 1} =>
              j \in paths /\ (j = "api" => "api" \in archives)
    /\ "api" \in archives => job["api"] = "returned" /\ proc["api"] = "exited"

\* A line says what is so: a task whose end is in the pipe has its result, and
\* its start comes before its end; the end of a job is the last line of its pipe.
SaysWhatIsSo(j, i) ==
    LET line == pipe[j][i]
    IN  /\ line.kind = "end" => ran[line.task] \in Outcomes
        /\ line.kind = "start" =>
              /\ Line("end", line.task) \notin seen
              /\ \A k \in DOMAIN pipe[j] : k < i => pipe[j][k] # Line("end", line.task)
        /\ line.kind = "job_end" => /\ line.task = <<j, 1>> /\ proc[j] \in Ended
                                    /\ i = Len(pipe[j])

LineInv == \A j \in Jobs : \A i \in DOMAIN pipe[j] : SaysWhatIsSo(j, i)

\* So does an event that has been handled; after the end of a job nothing comes.
SeenInv ==
    /\ \A t \in Tasks : Line("end", t) \in seen => ran[t] \in Outcomes
    /\ \A j \in Jobs : JobEndSeen(j) => pipe[j] = <<>> /\ proc[j] \in Ended

ShownInv ==
    /\ StatusIsTrue
    /\ \A t \in Tasks : shown[t] = "EXECUTING" => Line("end", t) \notin seen

\* What is reported of an API test before there is an archive is its result, or
\* may still be filled in.
ReportInv ==
    /\ ArchiveTells
    /\ "api" \notin archives => \A t \in TasksOf("api") :
        \/ reported[NameOf(t)] \in {"none", "EXECUTING"}
        \/ ran[t] \in Outcomes /\ reported[NameOf(t)] = ran[t]

DebugFiles == IF Debug THEN KeepIfDebug ELSE {}

\* Every file is registered, or it is one of those that may be left.
OwnIsTrue(d) == /\ job[d] \in {"idle", "job file", "testbed"} => own[d] = "none"
                /\ job[d] \in {"ready", "reading", "terminating"} => own[d] # "none"

FilesInv ==
    /\ \A d \in Devices : OwnIsTrue(d)
    /\ main = "interrupted" => registered = {}
    /\ main # "over" => disk \subseteq Unregistered \cup registered \cup DebugFiles
    /\ LeftBehind

IInv == /\ TypeOK /\ JobInv /\ LineInv /\ SeenInv /\ ShownInv /\ ReportInv /\ FilesInv

Kinds == {"start", "end", "job_end", "output", "overlong"}
Lines == [kind : Kinds, task : Tasks]

-----------------------------------------------------------------------------
USE OutcomesAssumption

(* Tasks and lines.                                                         *)

\* Every task is one of the tasks of its job, and every job has a first one.
LEMMA TaskFacts ==
    /\ "api" \in Jobs /\ Devices \subseteq Jobs
    /\ \A j \in Jobs : <<j, 1>> \in TasksOf(j)
    /\ \A t \in Tasks : t[1] \in Jobs /\ t \in TasksOf(t[1]) /\ NameOf(t) \in TestNames
    /\ \A j \in Jobs : TasksOf(j) \subseteq Tasks /\ \A t \in TasksOf(j) : t[1] = j
<1>1. "api" \in Jobs /\ Devices \subseteq Jobs
  BY DEF Jobs
<1>2. \A t \in Tasks : t[1] \in Jobs
  BY DEF Tasks
<1>3. ASSUME NEW j \in Jobs
      PROVE  <<j, 1>> \in TasksOf(j)
  <2>1. Names(j) \in Seq(STRING) /\ Names(j) # <<>>
    BY NamesAssumption DEF Names
  <2>2. 1 \in DOMAIN Names(j)
    BY <2>1, LenProperties, EmptySeq
  <2>3. <<j, 1>> \in {<<j, i>> : i \in DOMAIN Names(j)}
    BY <2>2
  <2>4. QED BY <2>3 DEF TasksOf, Tasks
<1>4. QED BY <1>1, <1>2, <1>3 DEF TasksOf, TestNames

\* The names of API tests are different, and different from those of D2D tests.
LEMMA NameFacts ==
    /\ \A t, u \in TasksOf("api") : NameOf(t) = NameOf(u) => t = u
    /\ \A t \in TasksOf("api") : \A d \in Devices : NameOf(t) \notin ToSet(Names(d))
    /\ \A j \in Jobs : \A t \in TasksOf(j) : NameOf(t) \in ToSet(Names(j))
<1>1. ASSUME NEW j \in Jobs, NEW t \in TasksOf(j)
      PROVE  /\ t = <<j, t[2]>> /\ t[2] \in DOMAIN Names(j)
             /\ NameOf(t) = Names(j)[t[2]] /\ NameOf(t) \in ToSet(Names(j))
  BY DEF TasksOf, Tasks, NameOf, ToSet
<1>2. ASSUME NEW t \in TasksOf("api"), NEW u \in TasksOf("api"), NameOf(t) = NameOf(u)
      PROVE  t = u
  <2>1. t[2] = u[2]
    BY <1>1, <1>2, NamesAssumption DEF Jobs, Names, IsInjective
  <2>2. QED BY <1>1, <2>1 DEF Jobs
<1>3. ASSUME NEW t \in TasksOf("api"), NEW d \in Devices
      PROVE  NameOf(t) \notin ToSet(Names(d))
  <2>1. NameOf(t) \in ToSet(ApiNames)
    BY <1>1 DEF Jobs, Names
  <2>2. Names(d) = D2dNames
    BY JobsAssumption DEF Names
  <2>3. QED BY <2>1, <2>2, NamesAssumption
<1>4. QED BY <1>1, <1>2, <1>3

\* A line that is printed is the last of its pipe and leaves the others where they are.
LEMMA Appended ==
    ASSUME TypeOK, NEW j \in Jobs, NEW line \in Lines, line.task[1] = j, PrintLine(j, line)
    PROVE  /\ pipe' \in [Jobs -> Seq(Lines)]
           /\ Len(pipe'[j]) = Len(pipe[j]) + 1 /\ Len(pipe'[j]) <= PipeSize
           /\ Len(pipe[j]) \in Nat /\ DOMAIN pipe[j] = 1 .. Len(pipe[j])
           /\ DOMAIN pipe'[j] = 1 .. Len(pipe[j]) + 1
           /\ \A i \in DOMAIN pipe[j] : pipe'[j][i] = pipe[j][i]
           /\ pipe'[j][Len(pipe[j]) + 1] = line
           /\ \A k \in Jobs \ {j} : pipe'[k] = pipe[k]
<1>1. pipe \in [Jobs -> Seq(Lines)] /\ pipe[j] \in Seq(Lines)
  BY DEF TypeOK, Lines, Kinds
<1>2. /\ Append(pipe[j], line) \in Seq(Lines)
      /\ Len(Append(pipe[j], line)) = Len(pipe[j]) + 1
      /\ \A i \in 1 .. Len(pipe[j]) : Append(pipe[j], line)[i] = pipe[j][i]
      /\ Append(pipe[j], line)[Len(pipe[j]) + 1] = line
  BY <1>1, AppendProperties
<1>3. /\ pipe' = [pipe EXCEPT ![j] = Append(pipe[j], line)]
      /\ Len(pipe[j]) < PipeSize
  BY DEF PrintLine
<1>4. Len(pipe[j]) \in Nat /\ DOMAIN pipe[j] = 1 .. Len(pipe[j])
  BY <1>1, LenProperties
<1>5. DOMAIN Append(pipe[j], line) = 1 .. Len(pipe[j]) + 1
  BY <1>2, LenProperties
<1>6. /\ pipe'[j] = Append(pipe[j], line)
      /\ \A k \in Jobs \ {j} : pipe'[k] = pipe[k]
      /\ pipe' \in [Jobs -> Seq(Lines)]
  BY <1>1, <1>2, <1>3
<1> HIDE DEF PrintLine
<1>7. QED BY <1>2, <1>3, <1>4, <1>5, <1>6, JobsAssumption

\* A line that is read is the first of its pipe, and the others move up.
LEMMA Shortened ==
    ASSUME TypeOK, NEW j \in Jobs, pipe[j] # <<>>, pipe' = [pipe EXCEPT ![j] = Tail(@)]
    PROVE  /\ pipe' \in [Jobs -> Seq(Lines)]
           /\ Head(pipe[j]) = pipe[j][1] /\ 1 \in DOMAIN pipe[j] /\ Head(pipe[j]) \in Lines
           /\ Len(pipe[j]) \in Nat /\ Len(pipe'[j]) = Len(pipe[j]) - 1
           /\ DOMAIN pipe[j] = 1 .. Len(pipe[j])
           /\ \A i \in DOMAIN pipe'[j] : /\ i \in Nat /\ i + 1 \in DOMAIN pipe[j]
                                         /\ pipe'[j][i] = pipe[j][i + 1]
           /\ Len(pipe[j]) = 1 => pipe'[j] = <<>>
           /\ \A k \in Jobs \ {j} : pipe'[k] = pipe[k]
<1>1. pipe \in [Jobs -> Seq(Lines)] /\ pipe[j] \in Seq(Lines)
  BY DEF TypeOK, Lines, Kinds
<1>2. /\ Head(pipe[j]) \in Lines /\ Tail(pipe[j]) \in Seq(Lines)
      /\ Head(pipe[j]) = pipe[j][1]
      /\ Len(Tail(pipe[j])) = Len(pipe[j]) - 1
      /\ \A i \in 1 .. Len(Tail(pipe[j])) : Tail(pipe[j])[i] = pipe[j][i + 1]
  BY <1>1, HeadTailProperties
<1>3. /\ Len(pipe[j]) \in Nat /\ DOMAIN pipe[j] = 1 .. Len(pipe[j])
      /\ DOMAIN Tail(pipe[j]) = 1 .. Len(pipe[j]) - 1
      /\ Len(pipe[j]) # 0
  BY <1>1, <1>2, LenProperties, EmptySeq
<1>4. /\ pipe'[j] = Tail(pipe[j])
      /\ \A k \in Jobs \ {j} : pipe'[k] = pipe[k]
      /\ pipe' \in [Jobs -> Seq(Lines)]
  BY <1>1, <1>2
<1>5. Len(pipe[j]) = 1 => Tail(pipe[j]) = <<>>
  <2>1. Len(pipe[j]) = 1 => Len(Tail(pipe[j])) = 0
    BY <1>2
  <2>2. Len(Tail(pipe[j])) = 0 => Tail(pipe[j]) = <<>>
    BY <1>2, EmptySeq
  <2>3. QED BY <2>1, <2>2
<1>6. QED BY <1>2, <1>3, <1>4, <1>5

\* Faults stay within their bound.
LEMMA FaultCounts ==
    ASSUME TypeOK, Fault
    PROVE  faults' \in 0 .. MaxFaults
<1>1. faults \in 0 .. MaxFaults /\ MaxFaults \in Nat
  BY JobsAssumption DEF TypeOK
<1>2. QED BY <1>1 DEF Fault

\* What a process prints is the event, or output that has swallowed it.
LEMMA Emitted ==
    ASSUME TypeOK, NEW j \in Jobs, NEW t \in TasksOf(j), NEW kind \in Kinds,
           Emit(j, Line(kind, t))
    PROVE  /\ \E line \in Lines : /\ line.task = t /\ line.kind \in {kind, "output"}
                                  /\ line = Line(line.kind, t)
                                  /\ PrintLine(j, line)
           /\ faults' \in 0 .. MaxFaults
<1>1. t \in Tasks
  BY TaskFacts
<1>2. Line(kind, t) \in Lines /\ Line("output", t) \in Lines
  BY <1>1 DEF Lines, Line, Kinds
<1>3. Line(kind, t).task = t /\ Line(kind, t).kind = kind /\ Line("output", t).task = t
      /\ Line("output", t).kind = "output"
  BY DEF Line
<1>4. CASE PrintLine(j, Line(kind, t)) /\ UNCHANGED faults
  BY <1>2, <1>3, <1>4 DEF TypeOK
<1>5. CASE PrintLine(j, Line("output", Line(kind, t).task)) /\ Fault
  <2>1. faults' \in 0 .. MaxFaults
    BY <1>5, FaultCounts
  <2>2. QED BY <1>2, <1>3, <1>5, <2>1
<1>6. QED BY <1>4, <1>5 DEF Emit

-----------------------------------------------------------------------------
(* What a step does to the processes and to their lines.                    *)

\* When a process dies its running tests end without a result, and no other changes.
LEMMA LostFacts ==
    ASSUME TypeOK, NEW j \in Jobs,
           ran' = [t \in Tasks |-> IF t \in TasksOf(j) THEN Lost(t) ELSE ran[t]]
    PROVE  /\ ran' \in [Tasks -> {"none", "running"} \cup Outcomes]
           /\ \A t \in Tasks : ran[t] # "running" => ran'[t] = ran[t]
           /\ \A t \in Tasks : t[1] # j => ran'[t] = ran[t]
           /\ \A t \in TasksOf(j) : ran'[t] # "running"
<1>1. ran \in [Tasks -> {"none", "running"} \cup Outcomes]
  BY DEF TypeOK
<1>2. QED BY <1>1, TaskFacts DEF Lost

\* Nothing happens to the results of a process that has ended, nor to a process
\* that has exited.
Monotone ==
    /\ \A t \in Tasks : ran[t] \in Outcomes \/ proc[t[1]] \in Ended => ran'[t] = ran[t]
    /\ \A j \in Jobs : proc[j] \in Ended => proc'[j] \in Ended
    /\ \A j \in Jobs : proc[j] = "exited" =>
          proc'[j] = "exited" /\ rc'[j] = rc[j] /\ zip'[j] = zip[j]

ProcessTypes ==
    /\ proc \in [Jobs -> {"none", "up", "closing", "exited"}]
    /\ rc \in [Jobs -> {0, 1, 2, -9, -15}]
    /\ zip \in [Jobs -> {"none", "torn", "whole"}] /\ held \subseteq Jobs
    /\ ran \in [Tasks -> {"none", "running"} \cup Outcomes]

\* What is known of each process, whatever its coroutine does.
ProcessInv ==
    \A j \in Jobs :
        /\ proc[j] \in Ended => \A t \in TasksOf(j) : ran[t] # "running"
        /\ zip[j] # "none" => proc[j] = "exited"

\* A process that dies leaves none of its tests running.
LEMMA DiesStep ==
    ASSUME TypeOK, JobInv, NEW j \in Jobs, proc[j] # "exited",
           NEW code \in {1, 2, -9, -15}, Dies(j, code), UNCHANGED held
    PROVE  ProcessTypes' /\ Monotone /\ ProcessInv' /\ proc'[j] = "exited"
<1>1. /\ ran' \in [Tasks -> {"none", "running"} \cup Outcomes]
      /\ \A t \in Tasks : ran[t] # "running" => ran'[t] = ran[t]
      /\ \A t \in Tasks : t[1] # j => ran'[t] = ran[t]
      /\ \A t \in TasksOf(j) : ran'[t] # "running"
  BY LostFacts DEF Dies
<1>2. ProcessTypes
  BY DEF TypeOK, ProcessTypes
<1>3. /\ proc' = [proc EXCEPT ![j] = "exited"] /\ rc' = [rc EXCEPT ![j] = code]
      /\ zip' = zip \/ \E z \in {"torn", "whole"} : zip' = [zip EXCEPT ![j] = z]
  BY DEF Dies
<1>4. ProcessTypes'
  BY <1>1, <1>2, <1>3 DEF ProcessTypes
<1>5. ProcessInv
  BY DEF JobInv, ProcessInv
<1>6. Monotone
  <2>1. \A t \in Tasks : ran[t] \in Outcomes \/ proc[t[1]] \in Ended => ran[t] # "running"
    BY <1>5, TaskFacts DEF ProcessInv
  <2>2. QED BY <1>1, <1>2, <1>3, <2>1 DEF Monotone, ProcessTypes, Ended
<1>7. ProcessInv'
  <2>1. ASSUME NEW k \in Jobs \ {j}, proc'[k] \in Ended, NEW t \in TasksOf(k)
        PROVE  ran'[t] # "running"
    BY <1>1, <1>2, <1>3, <1>5, <2>1, TaskFacts DEF ProcessInv, ProcessTypes
  <2>2. \A k \in Jobs : zip'[k] # "none" => proc'[k] = "exited"
    BY <1>2, <1>3, <1>5 DEF ProcessInv, ProcessTypes
  <2>3. QED BY <1>1, <2>1, <2>2 DEF ProcessInv
<1>8. QED BY <1>2, <1>3, <1>4, <1>6, <1>7 DEF ProcessTypes

\* Every step keeps processes and archives consistent, and results once they are there.
LEMMA ProcessStep ==
    ASSUME TypeOK, JobInv, Next
    PROVE  ProcessTypes' /\ Monotone /\ ProcessInv'
<1>1. ProcessTypes /\ ProcessInv
  BY DEF TypeOK, ProcessTypes, JobInv, ProcessInv
<1>2. CASE UNCHANGED <<proc, rc, zip, ran>> /\ held' \subseteq held
  BY <1>1, <1>2 DEF ProcessTypes, ProcessInv, Monotone
<1>3. ASSUME NEW j \in Jobs, proc[j] = "up", UNCHANGED <<proc, rc, zip, held>>,
             NEW t \in TasksOf(j), ran[t] \notin Outcomes,
             NEW status \in {"running"} \cup Outcomes, ran' = [ran EXCEPT ![t] = status]
      PROVE  ProcessTypes' /\ Monotone /\ ProcessInv'
  <2>1. t \in Tasks /\ t[1] = j
    BY TaskFacts
  <2>2. ProcessTypes'
    BY <1>1, <1>3, <2>1 DEF ProcessTypes
  <2>3. \A u \in Tasks : u[1] # j => ran'[u] = ran[u]
    BY <1>1, <1>3, <2>1 DEF ProcessTypes
  <2>4. Monotone
    <3>1. \A u \in Tasks \ {t} : ran'[u] = ran[u]
      BY <1>1, <1>3, <2>1 DEF ProcessTypes
    <3>2. QED BY <1>3, <2>1, <3>1 DEF Monotone, Ended
  <2>5. ProcessInv'
    BY <1>1, <1>3, <2>3, TaskFacts DEF ProcessInv, Ended
  <2>6. QED BY <2>2, <2>4, <2>5
<1>4. ASSUME NEW j \in Jobs, TaskStarts(j) \/ TaskEnds(j)
      PROVE  ProcessTypes' /\ Monotone /\ ProcessInv'
  <2>1. CASE TaskStarts(j)
    <3>1. PICK t \in Next1(j) : ran' = [ran EXCEPT ![t] = "running"]
      BY <2>1 DEF TaskStarts
    <3>2. QED BY <1>3, <2>1, <3>1 DEF TaskStarts, Next1
  <2>2. CASE TaskEnds(j)
    <3>1. PICK t \in Current(j), result \in Outcomes : ran' = [ran EXCEPT ![t] = result]
      BY <2>2 DEF TaskEnds
    <3>2. QED BY <1>3, <2>2, <3>1 DEF TaskEnds, Current
  <2>3. QED BY <1>4, <2>1, <2>2
<1>5. ASSUME NEW j \in Jobs, TaskLost(j)
      PROVE  ProcessTypes' /\ Monotone /\ ProcessInv'
  <2>1. /\ ran' \in [Tasks -> {"none", "running"} \cup Outcomes]
        /\ \A t \in Tasks : ran[t] # "running" => ran'[t] = ran[t]
        /\ \A t \in Tasks : t[1] # j => ran'[t] = ran[t]
        /\ \A t \in TasksOf(j) : ran'[t] # "running"
    BY <1>5, LostFacts DEF TaskLost
  <2>2. UNCHANGED <<proc, rc, zip, held>>
    BY <1>5 DEF TaskLost
  <2>3. \A t \in Tasks : ran[t] \in Outcomes \/ proc[t[1]] \in Ended => ran[t] # "running"
    BY <1>1, TaskFacts DEF ProcessInv
  <2>4. ProcessTypes' /\ Monotone
    BY <1>1, <2>1, <2>2, <2>3 DEF ProcessTypes, Monotone
  <2>5. ProcessInv'
    <3>1. ASSUME NEW k \in Jobs, proc'[k] \in Ended, NEW t \in TasksOf(k)
          PROVE  ran'[t] # "running"
      BY <1>1, <2>1, <2>2, <3>1, TaskFacts DEF ProcessInv
    <3>2. QED BY <1>1, <2>2, <3>1 DEF ProcessInv
  <2>6. QED BY <2>4, <2>5
<1>6. ASSUME NEW j \in Jobs, PostJob(j)
      PROVE  ProcessTypes' /\ Monotone /\ ProcessInv'
  <2>1. /\ proc[j] = "up" /\ proc' = [proc EXCEPT ![j] = "closing"]
        /\ Current(j) = {} /\ UNCHANGED <<rc, zip, held, ran>>
    BY <1>6 DEF PostJob
  <2>2. \A t \in TasksOf(j) : ran[t] # "running"
    BY <2>1 DEF Current
  <2>3. QED BY <1>1, <2>1, <2>2 DEF ProcessTypes, ProcessInv, Monotone, Ended
<1>7. ASSUME NEW j \in Jobs, Exits(j)
      PROVE  ProcessTypes' /\ Monotone /\ ProcessInv'
  <2>1. /\ proc[j] = "closing" /\ proc' = [proc EXCEPT ![j] = "exited"]
        /\ zip' = [zip EXCEPT ![j] = "whole"] /\ UNCHANGED ran
        /\ held' = held \/ held' = held \cup {j}
    BY <1>7 DEF Exits
  <2>2. \E code \in {0, 1} : rc' = [rc EXCEPT ![j] = code]
    BY <1>7 DEF Exits, ExitCodes
  <2>3. QED BY <1>1, <2>1, <2>2 DEF ProcessTypes, ProcessInv, Monotone, Ended
<1>8. ASSUME NEW j \in Jobs, Crashes(j)
      PROVE  ProcessTypes' /\ Monotone /\ ProcessInv'
  BY <1>8, DiesStep DEF Crashes
<1>9. ASSUME NEW j \in Jobs, GiveUpReading(j)
      PROVE  ProcessTypes' /\ Monotone /\ ProcessInv'
  <2>1. CASE proc[j] = "exited"
    BY <1>2, <1>9, <2>1 DEF GiveUpReading
  <2>2. CASE proc[j] # "exited"
    BY <1>9, <2>2, DiesStep DEF GiveUpReading
  <2>3. QED BY <2>1, <2>2
<1>10. ASSUME NEW j \in Jobs, StartProcess(j)
       PROVE  ProcessTypes' /\ Monotone /\ ProcessInv'
  <2>1. proc[j] = "none"
    BY <1>10 DEF StartProcess, JobInv
  <2>2. proc' = [proc EXCEPT ![j] = "up"] /\ UNCHANGED <<rc, zip, held, ran>>
    BY <1>10 DEF StartProcess
  <2>3. QED BY <1>1, <2>1, <2>2 DEF ProcessTypes, ProcessInv, Monotone, Ended
<1>11. ASSUME NEW j \in Jobs,
              \/ LetsGo(j) \/ PrintsOverlong(j) \/ CreateJobFile(j) \/ Read(j)
              \/ Returns(j) \/ ReturnsOne(j) \/ StartFails(j)
              \/ CreateTestbed(j) \/ RegisterFiles(j) \/ PreparationFails(j)
       PROVE  UNCHANGED <<proc, rc, zip, ran>> /\ held' \subseteq held
  BY <1>11 DEF LetsGo, PrintsOverlong, CreateJobFile, Read, Returns, ReturnsOne, StartFails,
        JobReturns, CreateTestbed, RegisterFiles, PreparationFails, CoroutineOnly, processVars
<1>12. ASSUME Aggregate \/ Exit \/ Unwind \/ Signal
       PROVE  UNCHANGED <<proc, rc, zip, ran>> /\ held' \subseteq held
  BY <1>12 DEF Aggregate, Exit, Unwind, Signal, processVars
<1>13. QED BY <1>2, <1>4, <1>5, <1>6, <1>7, <1>8, <1>9, <1>10, <1>11, <1>12
         DEF Next, Process, Coroutine, Faulty

\* The process of j prints a line, which says what is so after the step.
Prints(j, line) ==
    /\ proc[j] = "up" /\ PrintLine(j, line) /\ line.task[1] = j
    /\ UNCHANGED <<shown, seen, reported>>
    /\ line.kind = "start" => ran[line.task] = "none"
    /\ line.kind = "end" => ran'[line.task] \in Outcomes
    /\ line.kind = "job_end" => line.task = <<j, 1>> /\ proc'[j] = "closing"

\* A step leaves the pipes alone, prints one line or reads one.
LEMMA PipeStep ==
    ASSUME TypeOK, Next
    PROVE  \/ UNCHANGED <<pipe, shown, seen>>
           \/ \E j \in Jobs, line \in Lines : Prints(j, line)
           \/ \E j \in Jobs : Read(j)
<1> DEFINE Goal == \/ UNCHANGED <<pipe, shown, seen>>
                   \/ \E j \in Jobs, line \in Lines : Prints(j, line)
                   \/ \E j \in Jobs : Read(j)
<1>1. ASSUME NEW j \in Jobs, TaskStarts(j)
      PROVE  Goal
  <2>1. PICK t \in Next1(j) : Emit(j, Line("start", t))
    BY <1>1 DEF TaskStarts
  <2>2. t \in TasksOf(j) /\ t[1] = j /\ ran[t] = "none"
    BY TaskFacts DEF Next1
  <2>3. PICK line \in Lines : line.task = t /\ line.kind \in {"start", "output"} /\ PrintLine(j, line)
    BY <2>1, <2>2, Emitted DEF Kinds
  <2>4. Prints(j, line)
    BY <1>1, <2>2, <2>3 DEF Prints, TaskStarts, ProcessOnly, statusVars
  <2>5. QED BY <2>4
<1>2. ASSUME NEW j \in Jobs, TaskEnds(j)
      PROVE  Goal
  <2>1. PICK t \in Current(j), result \in Outcomes :
            Emit(j, Line("end", t)) /\ ran' = [ran EXCEPT ![t] = result]
    BY <1>2 DEF TaskEnds
  <2>2. t \in TasksOf(j) /\ t[1] = j /\ t \in Tasks
    BY TaskFacts DEF Current
  <2>3. PICK line \in Lines : line.task = t /\ line.kind \in {"end", "output"} /\ PrintLine(j, line)
    BY <2>1, <2>2, Emitted DEF Kinds
  <2>4. ran'[t] \in Outcomes
    <3>1. ran \in [Tasks -> {"none", "running"} \cup Outcomes]
      BY DEF TypeOK
    <3>2. QED BY <2>1, <2>2, <3>1
  <2>5. Prints(j, line)
    BY <1>2, <2>2, <2>3, <2>4 DEF Prints, TaskEnds, ProcessOnly, statusVars
  <2>6. QED BY <2>5
<1>3. ASSUME NEW j \in Jobs, PrintsOverlong(j)
      PROVE  Goal
  <2>1. PICK t \in Current(j) : PrintLine(j, Line("overlong", t))
    BY <1>3 DEF PrintsOverlong
  <2>2. t \in Tasks /\ t[1] = j
    BY TaskFacts DEF Current
  <2>3. Line("overlong", t) \in Lines
    BY <2>2 DEF Lines, Line, Kinds
  <2>4. Prints(j, Line("overlong", t))
    BY <1>3, <2>1, <2>2 DEF Prints, PrintsOverlong, ProcessOnly, statusVars, Line
  <2>5. QED BY <2>3, <2>4
<1>4. ASSUME NEW j \in Jobs, PostJob(j)
      PROVE  Goal
  <2>1. <<j, 1>> \in TasksOf(j) /\ Emit(j, Line("job_end", <<j, 1>>))
    BY <1>4, TaskFacts DEF PostJob
  <2>2. PICK line \in Lines : /\ line.task = <<j, 1>> /\ line.kind \in {"job_end", "output"}
                             /\ PrintLine(j, line)
    BY <2>1, Emitted DEF Kinds
  <2>3. proc'[j] = "closing"
    BY <1>4 DEF PostJob, TypeOK
  <2>4. Prints(j, line)
    BY <1>4, <2>2, <2>3 DEF Prints, PostJob, ProcessOnly, statusVars
  <2>5. QED BY <2>4
<1>5. ASSUME NEW j \in Jobs, LetsGo(j) \/ TaskLost(j) \/ Exits(j) \/ Crashes(j)
      PROVE  UNCHANGED <<pipe, shown, seen>>
  BY <1>5 DEF LetsGo, TaskLost, Exits, Crashes, ProcessOnly, statusVars
<1>6. ASSUME NEW j \in Jobs,
             \/ CreateJobFile(j) \/ StartProcess(j) \/ GiveUpReading(j)
             \/ CreateTestbed(j) \/ RegisterFiles(j) \/ PreparationFails(j)
      PROVE  UNCHANGED <<pipe, shown, seen>>
  BY <1>6 DEF CreateJobFile, StartProcess, GiveUpReading, CreateTestbed, RegisterFiles,
        PreparationFails, CoroutineOnly, statusVars
<1>7. ASSUME NEW j \in Jobs, Returns(j) \/ ReturnsOne(j) \/ StartFails(j)
      PROVE  UNCHANGED <<pipe, shown, seen>>
  BY <1>7 DEF Returns, ReturnsOne, StartFails, JobReturns
<1>8. ASSUME Aggregate \/ Exit \/ Unwind \/ Signal
      PROVE  UNCHANGED <<pipe, shown, seen>>
  BY <1>8 DEF Aggregate, Exit, Unwind, Signal, statusVars
<1>9. QED BY <1>1, <1>2, <1>3, <1>4, <1>5, <1>6, <1>7, <1>8 DEF Next, Process, Coroutine, Faulty

\* A line that is read, with its task; reported only changes for tests of the job.
LEMMA ReadFacts ==
    ASSUME TypeOK, NEW j \in Jobs, Read(j)
    PROVE  \E line \in Lines :
              /\ line = pipe[j][1] /\ 1 \in DOMAIN pipe[j]
              /\ line.task \in Tasks /\ line.task \in TasksOf(j)
              /\ line = Line(line.kind, line.task) /\ Handle(j, line)
              /\ pipe[j] # <<>> /\ pipe' = [pipe EXCEPT ![j] = Tail(@)]
              /\ UNCHANGED <<job, proc, rc, zip, held, ran>>
<1>1. pipe[j] # <<>> /\ pipe' = [pipe EXCEPT ![j] = Tail(@)] /\ Handle(j, Head(pipe[j]))
      /\ UNCHANGED <<job, proc, rc, zip, held, ran>>
  BY DEF Read, processVars
<1>2. Head(pipe[j]) = pipe[j][1] /\ 1 \in DOMAIN pipe[j] /\ Head(pipe[j]) \in Lines
  BY <1>1, Shortened
<1>3. pipe[j][1].task[1] = j
  BY <1>2 DEF TypeOK
<1>4. pipe[j][1].task \in TasksOf(j)
  BY <1>2, <1>3 DEF Lines, TasksOf
<1>5. pipe[j][1] = Line(pipe[j][1].kind, pipe[j][1].task)
  BY <1>2 DEF Lines, Line
<1>6. QED BY <1>1, <1>2, <1>4, <1>5, TaskFacts

\* What the handling of a line does to the statuses shown and reported.
LEMMA HandleFacts ==
    ASSUME TypeOK, NEW j \in Jobs, NEW line \in Lines, Handle(j, line)
    PROVE  /\ line.kind = "start" =>
                 /\ shown' = [shown EXCEPT ![line.task] = "EXECUTING"] /\ seen' = seen
                 /\ reported' = [reported EXCEPT ![NameOf(line.task)] = "EXECUTING"]
           /\ line.kind = "end" =>
                 /\ seen' = seen \cup {line}
                 /\ \E s \in {"none", ran[line.task]} : shown' = [shown EXCEPT ![line.task] = s]
                 /\ \E s \in {"none", ran[line.task]} : reported' = [reported EXCEPT ![NameOf(line.task)] = s]
           /\ line.kind = "job_end" =>
                 /\ seen' = seen \cup {line} /\ reported' = reported
                 /\ shown' = [u \in Tasks |-> IF u \in Orphans(j) THEN "errored" ELSE shown[u]]
           /\ line.kind \notin {"start", "end", "job_end"} => UNCHANGED statusVars
           /\ line.kind \notin {"end", "job_end"} => UNCHANGED seen
<1>1. /\ shown \in [Tasks -> Statuses] /\ reported \in [TestNames -> Statuses]
      /\ line.task \in Tasks /\ NameOf(line.task) \in TestNames
  BY TaskFacts DEF TypeOK, Lines
<1>2. CASE line.kind = "start"
  BY <1>2 DEF Handle, Report
<1>3. CASE line.kind = "end"
  <2>1. /\ shown' = [shown EXCEPT ![line.task] =
                         IF shown[line.task] = "none" THEN shown[line.task] ELSE ran[line.task]]
        /\ reported' = [reported EXCEPT ![NameOf(line.task)] =
                         IF reported[NameOf(line.task)] = "none" THEN reported[NameOf(line.task)]
                         ELSE ran[line.task]]
        /\ seen' = seen \cup {line}
    BY <1>1, <1>3 DEF Handle
  <2>2. QED BY <1>3, <2>1
<1>4. CASE line.kind = "job_end"
  BY <1>4 DEF Handle
<1>5. CASE line.kind \notin {"start", "end", "job_end"}
  BY <1>5 DEF Handle, statusVars
<1>6. QED BY <1>2, <1>3, <1>4, <1>5

-----------------------------------------------------------------------------
(* Lines, events, and what the user is shown.                               *)

\* A line in the pipe of a job is about one of its tasks.
LEMMA PipeTyped ==
    ASSUME TypeOK, NEW j \in Jobs, NEW i \in DOMAIN pipe[j]
    PROVE  /\ pipe[j][i] \in Lines /\ pipe[j][i].task \in Tasks /\ pipe[j][i].task[1] = j
           /\ pipe[j][i] = Line(pipe[j][i].kind, pipe[j][i].task)
           /\ i \in Nat
<1>1. pipe[j] \in Seq(Lines) /\ pipe[j][i].task[1] = j
  BY DEF TypeOK, Lines, Kinds
<1>2. i \in 1 .. Len(pipe[j]) /\ Len(pipe[j]) \in Nat
  BY <1>1, LenProperties
<1>3. pipe[j][i] \in Lines
  BY <1>1, <1>2, ElementOfSeq
<1>4. QED BY <1>1, <1>2, <1>3 DEF Lines, Line

\* Every step keeps the lines in the pipes true.
LEMMA LineStep ==
    ASSUME IInv, Next
    PROVE  LineInv'
<1>1. TypeOK /\ LineInv /\ SeenInv /\ Monotone
  BY ProcessStep DEF IInv
\* What a line in the pipe says remains so.
<1>2. ASSUME NEW j \in Jobs, NEW i \in DOMAIN pipe[j]
      PROVE  /\ pipe[j][i].kind = "end" => ran'[pipe[j][i].task] \in Outcomes
             /\ pipe[j][i].kind = "job_end" => proc'[j] \in Ended
  BY <1>1, PipeTyped DEF LineInv, SaysWhatIsSo, Monotone
<1>3. CASE UNCHANGED <<pipe, shown, seen>>
  BY <1>1, <1>2, <1>3 DEF LineInv, SaysWhatIsSo
<1>4. ASSUME NEW j \in Jobs, NEW line \in Lines, Prints(j, line)
      PROVE  LineInv'
  <2>a. Len(pipe[j]) + 1 \in Nat
    BY <1>1, <1>4, Appended DEF Prints
  <2>b. PICK n \in Nat : n = Len(pipe[j]) + 1
    BY <2>a
  <2>1. /\ Len(pipe'[j]) = n /\ Len(pipe[j]) \in Nat
        /\ DOMAIN pipe[j] = 1 .. Len(pipe[j]) /\ DOMAIN pipe'[j] = 1 .. n
        /\ \A i \in DOMAIN pipe[j] : pipe'[j][i] = pipe[j][i]
        /\ pipe'[j][n] = line
        /\ \A k \in Jobs \ {j} : pipe'[k] = pipe[k]
    BY <1>1, <1>4, <2>b, Appended DEF Prints
  <2>2. UNCHANGED seen /\ line.task \in Tasks
    BY <1>4 DEF Prints, Lines
  <2>3. ASSUME NEW k \in Jobs \ {j}, NEW i \in DOMAIN pipe'[k]
        PROVE  SaysWhatIsSo(k, i)'
    BY <1>1, <1>2, <2>1, <2>2 DEF LineInv, SaysWhatIsSo
  <2>4. ASSUME NEW i \in DOMAIN pipe[j]
        PROVE  SaysWhatIsSo(j, i)'
    <3>1. pipe[j][i].kind # "job_end"
      BY <1>1, <1>4 DEF LineInv, SaysWhatIsSo, Prints, Ended
    <3>2. \A k \in DOMAIN pipe'[j] : k < i => k \in DOMAIN pipe[j]
      BY <2>1, <2>b
    <3>3. QED BY <1>1, <1>2, <2>1, <2>2, <3>1, <3>2 DEF LineInv, SaysWhatIsSo
  <2>5. SaysWhatIsSo(j, n)'
    <3>1. line.kind = "start" => \A k \in DOMAIN pipe[j] : pipe[j][k] # Line("end", line.task)
      <4>1. ASSUME NEW k \in DOMAIN pipe[j], pipe[j][k] = Line("end", line.task)
            PROVE  ran[line.task] \in Outcomes
        BY <1>1, <4>1 DEF LineInv, SaysWhatIsSo, Line
      <4>2. QED BY <1>4, <4>1 DEF Prints
    <3>2. line.kind = "start" => Line("end", line.task) \notin seen
      BY <1>1, <1>4, <2>2 DEF SeenInv, Prints
    <3>3. \A k \in DOMAIN pipe'[j] : k < n => k \in DOMAIN pipe[j]
      BY <2>1, <2>b
    <3>4. QED BY <1>4, <2>1, <2>2, <3>1, <3>2, <3>3 DEF SaysWhatIsSo, Prints, Ended
  <2>6. \A i \in DOMAIN pipe'[j] : i = n \/ i \in DOMAIN pipe[j]
    BY <2>1, <2>b
  <2>7. QED BY <2>3, <2>4, <2>5, <2>6 DEF LineInv
<1>5. ASSUME NEW j \in Jobs, Read(j)
      PROVE  LineInv'
  <2>1. PICK line \in Lines :
            /\ line = pipe[j][1] /\ 1 \in DOMAIN pipe[j]
            /\ line.task \in Tasks /\ line.task \in TasksOf(j)
            /\ line = Line(line.kind, line.task) /\ Handle(j, line)
            /\ pipe[j] # <<>> /\ pipe' = [pipe EXCEPT ![j] = Tail(@)]
            /\ UNCHANGED <<job, proc, rc, zip, held, ran>>
    BY <1>1, <1>5, ReadFacts
  <2>2. /\ Len(pipe[j]) \in Nat /\ Len(pipe'[j]) = Len(pipe[j]) - 1
        /\ DOMAIN pipe[j] = 1 .. Len(pipe[j])
        /\ \A i \in DOMAIN pipe'[j] : /\ i \in Nat /\ i + 1 \in DOMAIN pipe[j]
                                      /\ pipe'[j][i] = pipe[j][i + 1]
        /\ \A k \in Jobs \ {j} : pipe'[k] = pipe[k]
    BY <1>1, <2>1, Shortened
  <2>3. seen' = seen \/ (line.kind \in {"end", "job_end"} /\ seen' = seen \cup {line})
    <3>1. line.kind \in {"end", "job_end"} => seen' = seen \cup {line}
      BY <1>1, <2>1, HandleFacts
    <3>2. line.kind \notin {"end", "job_end"} => seen' = seen
      BY <1>1, <2>1, HandleFacts
    <3>3. QED BY <3>1, <3>2
  <2>4. ASSUME NEW k \in Jobs \ {j}, NEW i \in DOMAIN pipe'[k]
        PROVE  SaysWhatIsSo(k, i)'
    <3>1. pipe[k][i].task # line.task
      BY <1>1, <2>1, <2>2, PipeTyped, TaskFacts
    <3>2. Line("end", pipe[k][i].task) \notin seen => Line("end", pipe[k][i].task) \notin seen'
      BY <2>3, <3>1 DEF Line
    <3>3. QED BY <1>1, <1>2, <2>2, <3>2 DEF LineInv, SaysWhatIsSo
  <2>5. ASSUME NEW i \in DOMAIN pipe'[j]
        PROVE  SaysWhatIsSo(j, i)'
    <3>1. /\ i + 1 \in DOMAIN pipe[j] /\ pipe'[j][i] = pipe[j][i + 1] /\ i \in Nat
          /\ SaysWhatIsSo(j, i + 1) /\ i >= 1
      <4>1. i + 1 \in 1 .. Len(pipe[j])
        BY <2>2
      <4>2. DOMAIN pipe'[j] = 1 .. Len(pipe'[j])
        <5>1. pipe'[j] \in Seq(Lines)
          BY <1>1, <2>1, Shortened
        <5>2. QED BY <5>1, LenProperties
      <4>3. QED BY <1>1, <2>2, <4>1, <4>2 DEF LineInv
    <3>2. pipe[j][i + 1].kind = "start" =>
              /\ Line("end", pipe[j][i + 1].task) \notin seen
              /\ line # Line("end", pipe[j][i + 1].task)
              /\ \A k \in DOMAIN pipe'[j] :
                     k < i => pipe'[j][k] # Line("end", pipe[j][i + 1].task)
      <4>1. 1 < i + 1 /\ \A k \in DOMAIN pipe'[j] : k < i => k + 1 < i + 1
        BY <2>2, <3>1
      <4>2. QED BY <2>1, <2>2, <3>1, <4>1 DEF SaysWhatIsSo
    <3>3. pipe[j][i + 1].kind = "start" => Line("end", pipe[j][i + 1].task) \notin seen'
      BY <2>3, <3>2
    <3>4. pipe[j][i + 1].kind = "job_end" =>
              /\ pipe[j][i + 1].task = <<j, 1>> /\ i = Len(pipe'[j])
      BY <2>2, <3>1 DEF SaysWhatIsSo
    <3>5. QED BY <1>2, <3>1, <3>2, <3>3, <3>4 DEF SaysWhatIsSo
  <2>6. QED BY <2>4, <2>5 DEF LineInv
<1>6. QED BY <1>1, <1>3, <1>4, <1>5, PipeStep

\* Every step keeps the events that were handled true.
LEMMA SeenStep ==
    ASSUME IInv, Next
    PROVE  SeenInv'
<1>1. TypeOK /\ LineInv /\ SeenInv /\ Monotone
  BY ProcessStep DEF IInv
<1>2. CASE UNCHANGED <<pipe, shown, seen>>
  BY <1>1, <1>2 DEF SeenInv, Monotone, JobEndSeen
<1>3. ASSUME NEW j \in Jobs, NEW line \in Lines, Prints(j, line)
      PROVE  SeenInv'
  <2>1. ~JobEndSeen(j) /\ seen' = seen
    BY <1>1, <1>3 DEF SeenInv, Prints, Ended
  <2>2. \A k \in Jobs \ {j} : pipe'[k] = pipe[k]
    BY <1>1, <1>3, Appended DEF Prints
  <2>3. QED BY <1>1, <2>1, <2>2 DEF SeenInv, Monotone, JobEndSeen
<1>4. ASSUME NEW j \in Jobs, Read(j)
      PROVE  SeenInv'
  <2>1. PICK line \in Lines :
            /\ line = pipe[j][1] /\ 1 \in DOMAIN pipe[j]
            /\ line.task \in Tasks /\ line.task \in TasksOf(j)
            /\ line = Line(line.kind, line.task) /\ Handle(j, line)
            /\ pipe[j] # <<>> /\ pipe' = [pipe EXCEPT ![j] = Tail(@)]
            /\ UNCHANGED <<job, proc, rc, zip, held, ran>>
    BY <1>1, <1>4, ReadFacts
  <2>2. ~JobEndSeen(j) /\ SaysWhatIsSo(j, 1)
    BY <1>1, <2>1 DEF SeenInv, LineInv
  <2>3. /\ \A k \in Jobs \ {j} : pipe'[k] = pipe[k]
        /\ Len(pipe[j]) = 1 => pipe'[j] = <<>>
    BY <1>1, <2>1, Shortened
  <2>4. seen' = seen \/ (line.kind \in {"end", "job_end"} /\ seen' = seen \cup {line})
    <3>1. line.kind \in {"end", "job_end"} => seen' = seen \cup {line}
      BY <1>1, <2>1, HandleFacts
    <3>2. line.kind \notin {"end", "job_end"} => seen' = seen
      BY <1>1, <2>1, HandleFacts
    <3>3. QED BY <3>1, <3>2
  <2>5. ASSUME NEW t \in Tasks, Line("end", t) \in seen'
        PROVE  ran'[t] \in Outcomes
    <3>1. CASE Line("end", t) \in seen
      BY <1>1, <2>1, <3>1 DEF SeenInv
    <3>2. CASE line = Line("end", t)
      BY <2>1, <2>2, <3>2 DEF SaysWhatIsSo, Line
    <3>3. QED BY <2>4, <2>5, <3>1, <3>2
  <2>6. ASSUME NEW k \in Jobs, JobEndSeen(k)'
        PROVE  pipe'[k] = <<>> /\ proc'[k] \in Ended
    <3>1. CASE JobEndSeen(k)
      <4>1. k # j
        BY <2>2, <3>1
      <4>2. QED BY <1>1, <2>1, <2>3, <3>1, <4>1 DEF SeenInv
    <3>2. CASE line = Line("job_end", <<k, 1>>)
      <4>1. line.kind = "job_end" /\ line.task = <<k, 1>> /\ k = j
        BY <2>1, <3>2, TaskFacts DEF Line
      <4>2. QED BY <2>1, <2>2, <2>3, <4>1 DEF SaysWhatIsSo
    <3>3. QED BY <2>4, <2>6, <3>1, <3>2 DEF JobEndSeen
  <2>7. QED BY <2>5, <2>6 DEF SeenInv
<1>5. QED BY <1>1, <1>2, <1>3, <1>4, PipeStep

\* Every step keeps the statuses true that are shown.
LEMMA ShownStep ==
    ASSUME IInv, Next
    PROVE  ShownInv'
<1>1. /\ TypeOK /\ LineInv /\ SeenInv /\ ShownInv /\ Monotone
      /\ shown \in [Tasks -> Statuses]
  BY ProcessStep DEF IInv, TypeOK
<1>2. CASE UNCHANGED <<shown, seen>>
  <2>1. ASSUME NEW t \in Tasks, shown[t] \in Outcomes, Line("end", t) \in seen
        PROVE  shown[t] = ran'[t]
    BY <1>1, <2>1 DEF ShownInv, StatusIsTrue, Monotone
  <2>2. QED BY <1>1, <1>2, <2>1 DEF ShownInv, StatusIsTrue, JobEndSeen
<1>3. ASSUME NEW j \in Jobs, Read(j)
      PROVE  ShownInv'
  <2>1. PICK line \in Lines :
            /\ line = pipe[j][1] /\ 1 \in DOMAIN pipe[j]
            /\ line.task \in Tasks /\ line.task \in TasksOf(j)
            /\ line = Line(line.kind, line.task) /\ Handle(j, line)
            /\ pipe[j] # <<>> /\ pipe' = [pipe EXCEPT ![j] = Tail(@)]
            /\ UNCHANGED <<job, proc, rc, zip, held, ran>>
    BY <1>1, <1>3, ReadFacts
  <2>2. ~JobEndSeen(j) /\ SaysWhatIsSo(j, 1)
    BY <1>1, <2>1 DEF SeenInv, LineInv
  <2>3. line.task[1] = j
    BY <2>1, TaskFacts
  <2>4. CASE line.kind = "start"
    <3>1. shown' = [shown EXCEPT ![line.task] = "EXECUTING"] /\ seen' = seen
      BY <1>1, <2>1, <2>4, HandleFacts
    <3>2. Line("end", line.task) \notin seen
      BY <2>1, <2>2, <2>4 DEF SaysWhatIsSo
    <3>3. QED BY <1>1, <2>1, <2>2, <2>3, <3>1, <3>2 DEF ShownInv, StatusIsTrue, JobEndSeen
  <2>5. CASE line.kind = "end"
    <3>1. PICK s \in {"none", ran[line.task]} : shown' = [shown EXCEPT ![line.task] = s]
      BY <1>1, <2>1, <2>5, HandleFacts
    <3>2. s \in {"none"} \cup Outcomes
      BY <2>1, <2>2, <2>5 DEF SaysWhatIsSo
    <3>3. seen' = seen \cup {line} /\ line = Line("end", line.task)
      BY <1>1, <2>1, <2>5, HandleFacts
    <3>4. \A k \in Jobs : JobEndSeen(k)' <=> JobEndSeen(k)
      BY <3>3 DEF JobEndSeen, Line
    <3>5. \A t \in Tasks : t # line.task =>
              /\ shown'[t] = shown[t]
              /\ Line("end", t) \in seen' <=> Line("end", t) \in seen
      BY <1>1, <3>1, <3>3 DEF Line
    <3>6. /\ shown'[line.task] = s /\ UNCHANGED ran
          /\ s \in Outcomes => s = ran[line.task]
      BY <1>1, <2>1, <3>1
    <3>7. \A t \in Tasks : t[1] \in Jobs
      BY TaskFacts
    <3>8. ASSUME NEW t \in Tasks \ {line.task}
          PROVE  /\ shown'[t] \in Outcomes => IF Line("end", t) \in seen' THEN shown'[t] = ran'[t]
                                               ELSE shown'[t] = "errored" /\ JobEndSeen(t[1])'
                 /\ shown'[t] = "EXECUTING" => ~JobEndSeen(t[1])' /\ Line("end", t) \notin seen'
      <4>1. /\ shown[t] \in Outcomes => IF Line("end", t) \in seen THEN shown[t] = ran[t]
                                         ELSE shown[t] = "errored" /\ JobEndSeen(t[1])
            /\ shown[t] = "EXECUTING" => ~JobEndSeen(t[1]) /\ Line("end", t) \notin seen
        BY <1>1 DEF ShownInv, StatusIsTrue
      <4>2. JobEndSeen(t[1])' <=> JobEndSeen(t[1])
        BY <3>4, <3>7
      <4>3. shown'[t] = shown[t] /\ (Line("end", t) \in seen' <=> Line("end", t) \in seen)
        BY <3>5
      <4>4. ran'[t] = ran[t]
        BY <2>1
      <4>5. QED BY <4>1, <4>2, <4>3, <4>4
    <3>9. /\ shown'[line.task] \in Outcomes => shown'[line.task] = ran'[line.task]
          /\ shown'[line.task] # "EXECUTING" /\ Line("end", line.task) \in seen'
      BY <3>2, <3>3, <3>6
    <3>10. QED BY <3>8, <3>9 DEF ShownInv, StatusIsTrue
  <2>6. CASE line.kind = "job_end"
    <3>1. /\ seen' = seen \cup {line} /\ line = Line("job_end", <<j, 1>>)
          /\ shown' = [u \in Tasks |-> IF u \in Orphans(j) THEN "errored" ELSE shown[u]]
      BY <1>1, <2>1, <2>2, <2>6, HandleFacts DEF SaysWhatIsSo
    <3>2. /\ JobEndSeen(j)'
          /\ \A k \in Jobs \ {j} : JobEndSeen(k)' <=> JobEndSeen(k)
      BY <3>1 DEF JobEndSeen, Line
    <3>3. \A t \in Tasks : Line("end", t) \in seen' <=> Line("end", t) \in seen
      BY <3>1 DEF Line
    <3>4. \A t \in Orphans(j) : t \in Tasks /\ t[1] = j /\ shown[t] = "EXECUTING"
      BY TaskFacts DEF Orphans
    <3>5. \A t \in Tasks : t[1] \in Jobs /\ (t[1] = j /\ shown[t] = "EXECUTING" => t \in Orphans(j))
      BY TaskFacts DEF Orphans
    <3>6. ASSUME NEW t \in Tasks, t \in Orphans(j)
          PROVE  shown'[t] = "errored" /\ JobEndSeen(t[1])' /\ Line("end", t) \notin seen'
      BY <1>1, <3>1, <3>2, <3>3, <3>4, <3>6 DEF ShownInv
    <3>7. ASSUME NEW t \in Tasks, t \notin Orphans(j)
          PROVE  /\ shown'[t] = shown[t]
                 /\ shown[t] = "EXECUTING" => JobEndSeen(t[1])' <=> JobEndSeen(t[1])
                 /\ JobEndSeen(t[1]) => JobEndSeen(t[1])'
      BY <3>1, <3>2, <3>5, <3>7
    <3>8. QED BY <1>1, <2>1, <3>3, <3>6, <3>7 DEF ShownInv, StatusIsTrue
  <2>7. CASE line.kind \notin {"start", "end", "job_end"}
    <3>1. UNCHANGED <<shown, seen>>
      BY <1>1, <2>1, <2>7, HandleFacts DEF statusVars
    <3>2. QED BY <1>2, <3>1
  <2>8. QED BY <2>4, <2>5, <2>6, <2>7
<1>4. ASSUME NEW j \in Jobs, NEW line \in Lines, Prints(j, line)
      PROVE  ShownInv'
  BY <1>2, <1>4 DEF Prints
<1>5. QED BY <1>1, <1>2, <1>3, <1>4, PipeStep

-----------------------------------------------------------------------------
(* The coroutines, and the results that are taken from archives.            *)

\* How a job returns: without a process, or after it.
LEMMA Returning ==
    ASSUME TypeOK, JobInv, NEW j \in Jobs, StartFails(j) \/ Returns(j) \/ ReturnsOne(j)
    PROVE  \E code \in {0, 1, 2, -9, -15} :
              /\ JobReturns(j, code) /\ job[j] \in {"ready", "reading", "terminating"}
              /\ \/ proc[j] = "none"
                 \/ proc[j] = "exited" /\ (rc[j] \in {0, 1} => code \in {0, 1})
<1>1. rc[j] \in {0, 1, 2, -9, -15}
  BY DEF TypeOK
<1>2. CASE StartFails(j)
  BY <1>2 DEF StartFails, JobInv
<1>3. CASE Returns(j)
  BY <1>1, <1>3 DEF Returns
<1>4. CASE ReturnsOne(j)
  BY <1>4 DEF ReturnsOne
<1>5. QED BY <1>2, <1>3, <1>4

\* What a job that returns leaves.
LEMMA ReturnFacts ==
    ASSUME TypeOK, NEW j \in Jobs, NEW code \in {0, 1, 2, -9, -15}, JobReturns(j, code)
    PROVE  /\ job' = [job EXCEPT ![j] = "returned"] /\ UNCHANGED <<proc, rc, zip, ran>>
           /\ paths' = paths \/ paths' = paths \cup {j}
           /\ code \in {0, 1} => j \in paths'
           /\ j # "api" => /\ UNCHANGED <<archives, reported, disk, registered, main, signal>>
                           /\ \E s \in {"passed", "failed"} : own' = [own EXCEPT ![j] = s]
           /\ j = "api" => /\ own' = own /\ Unlink(JobFile("api"))
                           /\ \/ /\ zip["api"] # "none" /\ archives' = archives \cup {"api"}
                                 /\ reported' = FilledFrom("api")
                              \/ /\ code \notin {0, 1} \/ zip["api"] = "none"
                                 /\ archives' = archives \/ archives' = archives \cup {"legacy"}
                                 /\ reported' = reported
<1>1. /\ job' = [job EXCEPT ![j] = "returned"] /\ UNCHANGED <<proc, rc, zip, ran>>
      /\ paths' = IF IsPath(j, code) THEN paths \cup {j} ELSE paths
  BY DEF JobReturns, Become, processVars
<1>2. code \in {0, 1} => IsPath(j, code)
  BY DEF IsPath
<1>3. CASE j = "api"
  <2>1. ApiReturns(code)
    BY <1>3 DEF JobReturns
  <2>2. CASE IsPath("api", code) /\ zip["api"] # "none"
    <3>1. /\ own' = own /\ Unlink(JobFile("api"))
          /\ archives' = archives \cup {"api"}
          /\ reported' = FilledFrom("api")
      BY <2>1, <2>2 DEF ApiReturns
    <3>2. QED BY <1>1, <1>2, <1>3, <2>2, <3>1
  <2>3. CASE ~(IsPath("api", code) /\ zip["api"] # "none")
    <3>1. /\ own' = own /\ Unlink(JobFile("api"))
          /\ archives' = archives \/ archives' = archives \cup {"legacy"}
          /\ reported' = reported
      BY <2>1, <2>3 DEF ApiReturns
    <3>2. code \notin {0, 1} \/ zip["api"] = "none"
      BY <1>2, <1>3, <2>3
    <3>3. QED BY <1>1, <1>2, <1>3, <3>1, <3>2
  <2>4. QED BY <2>2, <2>3
<1>4. CASE j # "api"
  <2>1. DeviceReturns(j, code)
    BY <1>4 DEF JobReturns
  <2>2. UNCHANGED <<archives, reported, disk, registered, main, signal>>
    BY <2>1 DEF DeviceReturns, cleanupVars
  <2>3. \E s \in {"passed", "failed"} : own' = [own EXCEPT ![j] = s]
    BY <2>1 DEF DeviceReturns
  <2>4. QED BY <1>1, <1>2, <1>4, <2>2, <2>3
<1>5. QED BY <1>3, <1>4

\* The steps of processes leave coroutines and their results alone.
LEMMA ProcessMoves ==
    ASSUME TypeOK, NEW j \in Jobs,
           Process(j) \/ TaskLost(j) \/ PrintsOverlong(j) \/ Crashes(j)
    PROVE  /\ UNCHANGED <<job, statusVars, resultVars, cleanupVars>>
           /\ \A k \in Jobs : proc[k] = "none" => proc'[k] = "none"
<1>1. proc \in [Jobs -> {"none", "up", "closing", "exited"}]
  BY DEF TypeOK
<1>2. CASE TaskStarts(j) \/ TaskEnds(j) \/ LetsGo(j)
  BY <1>2 DEF TaskStarts, TaskEnds, LetsGo, ProcessOnly
<1>3. CASE PostJob(j) \/ Exits(j)
  BY <1>1, <1>3 DEF PostJob, Exits, ProcessOnly
<1>4. CASE TaskLost(j) \/ PrintsOverlong(j)
  BY <1>4 DEF TaskLost, PrintsOverlong, ProcessOnly, processVars
<1>5. CASE Crashes(j)
  BY <1>1, <1>5 DEF Crashes, Dies, ProcessOnly
<1>6. QED BY <1>2, <1>3, <1>4, <1>5 DEF Process

\* Every step keeps jobs, processes and archives consistent.
LEMMA JobStep ==
    ASSUME IInv, Next
    PROVE  JobInv'
<1>1. /\ TypeOK /\ JobInv /\ Monotone /\ ProcessInv' /\ ProcessInv
      /\ job \in [Jobs -> {"idle", "job file", "testbed", "ready", "reading", "terminating", "returned"}]
      /\ proc \in [Jobs -> {"none", "up", "closing", "exited"}]
      /\ "api" \in Jobs
  BY ProcessStep, TaskFacts DEF IInv, TypeOK, JobInv, ProcessInv
\* It is enough to look at one job, and the archive of the API job.
<1> DEFINE JobOK(j) ==
        /\ job'[j] \in {"idle", "job file", "testbed", "ready"} => proc'[j] = "none"
        /\ job'[j] = "returned" => proc'[j] \in {"none", "exited"}
        /\ job'[j] = "returned" /\ zip'[j] # "none" /\ rc'[j] \in {0, 1} =>
              j \in paths' /\ (j = "api" => "api" \in archives')
<1> DEFINE ApiOK == "api" \in archives' => job'["api"] = "returned" /\ proc'["api"] = "exited"
<1>2. ASSUME \A j \in Jobs : JobOK(j), ApiOK
      PROVE  JobInv'
  BY <1>1, <1>2 DEF JobInv, ProcessInv
<1>3. ASSUME NEW j \in Jobs, job'[j] = job[j], paths \subseteq paths', archives \subseteq archives',
             proc[j] = "none" => proc'[j] = "none"
      PROVE  JobOK(j)
  <2>1. proc[j] = "exited" => proc'[j] = "exited" /\ rc'[j] = rc[j] /\ zip'[j] = zip[j]
    BY <1>1 DEF Monotone
  <2>2. zip'[j] # "none" => proc'[j] = "exited"
    BY <1>1 DEF ProcessInv
  <2>3. QED BY <1>1, <1>3, <2>1, <2>2 DEF JobInv
<1>4. ASSUME UNCHANGED job, UNCHANGED <<paths, archives>>,
             \A k \in Jobs : proc[k] = "none" => proc'[k] = "none"
      PROVE  JobInv'
  <2>1. ApiOK
    BY <1>1, <1>4 DEF JobInv, Monotone
  <2>2. QED BY <1>2, <1>3, <1>4, <2>1
<1>5. ASSUME NEW j \in Jobs, Process(j) \/ TaskLost(j) \/ PrintsOverlong(j) \/ Crashes(j)
      PROVE  JobInv'
  BY <1>1, <1>4, <1>5, ProcessMoves DEF resultVars
<1>6. ASSUME NEW j \in Jobs, CreateJobFile(j) \/ CreateTestbed(j) \/ RegisterFiles(j) \/ PreparationFails(j)
      PROVE  JobInv'
  <2>1. /\ job[j] \in {"idle", "job file", "testbed"}
        /\ \E s \in {"job file", "testbed", "ready", "returned"} : job' = [job EXCEPT ![j] = s]
        /\ UNCHANGED <<proc, rc, zip, ran, paths, archives>>
    BY <1>6 DEF CreateJobFile, CreateTestbed, RegisterFiles, PreparationFails, Become, CoroutineOnly,
          processVars, resultVars
  <2>2. proc[j] = "none" /\ zip[j] = "none"
    BY <1>1, <2>1 DEF JobInv
  <2>3. \A k \in Jobs \ {j} : JobOK(k)
    BY <1>1, <1>3, <2>1
  <2>4. JobOK(j)
    BY <1>1, <2>1, <2>2
  <2>5. ApiOK
    BY <1>1, <2>1 DEF JobInv
  <2>6. QED BY <1>2, <2>3, <2>4, <2>5
<1>7. ASSUME NEW j \in Jobs, StartProcess(j) \/ GiveUpReading(j)
      PROVE  JobInv'
  <2>1. /\ job[j] # "returned" /\ UNCHANGED <<paths, archives>>
        /\ \E s \in {"reading", "terminating"} : job' = [job EXCEPT ![j] = s]
    BY <1>7 DEF StartProcess, GiveUpReading, Become, resultVars
  <2>2. \A k \in Jobs \ {j} : proc'[k] = proc[k]
    BY <1>1, <1>7 DEF StartProcess, GiveUpReading, Dies
  <2>3. \A k \in Jobs \ {j} : JobOK(k)
    BY <1>1, <1>3, <2>1, <2>2
  <2>4. JobOK(j)
    BY <1>1, <2>1
  <2>5. ApiOK
    BY <1>1, <2>1, <2>2 DEF JobInv
  <2>6. QED BY <1>2, <2>3, <2>4, <2>5
<1>8. ASSUME NEW j \in Jobs, StartFails(j) \/ Returns(j) \/ ReturnsOne(j)
      PROVE  JobInv'
  <2>1. PICK code \in {0, 1, 2, -9, -15} :
            /\ JobReturns(j, code) /\ job[j] \in {"ready", "reading", "terminating"}
            /\ \/ proc[j] = "none"
               \/ proc[j] = "exited" /\ (rc[j] \in {0, 1} => code \in {0, 1})
    BY <1>1, <1>8, Returning
  <2>a. TypeOK /\ JobReturns(j, code)
    BY <1>1, <2>1
  <2>b. /\ job' = [job EXCEPT ![j] = "returned"] /\ UNCHANGED <<proc, rc, zip, ran>>
        /\ paths' = paths \/ paths' = paths \cup {j}
        /\ code \in {0, 1} => j \in paths'
    BY <2>a, ReturnFacts
  <2>2. /\ job' = [job EXCEPT ![j] = "returned"] /\ UNCHANGED <<proc, rc, zip, ran>>
        /\ paths \subseteq paths' /\ (code \in {0, 1} => j \in paths')
    BY <2>b
  <2>3. zip[j] # "none" => proc[j] = "exited"
    BY <1>1 DEF JobInv
  <2>4. /\ archives \subseteq archives'
        /\ "api" \in archives' => ("api" \in archives \/ (j = "api" /\ zip[j] # "none"))
        /\ (j = "api" /\ zip["api"] # "none" /\ code \in {0, 1}) => "api" \in archives'
    <3>1. CASE j = "api"
      <4>1. \/ /\ zip["api"] # "none" /\ archives' = archives \cup {"api"}
               /\ reported' = FilledFrom("api")
            \/ /\ code \notin {0, 1} \/ zip["api"] = "none"
               /\ archives' = archives \/ archives' = archives \cup {"legacy"}
               /\ reported' = reported
        BY <2>a, <3>1, ReturnFacts
      <4>2. QED BY <3>1, <4>1
    <3>2. CASE j # "api"
      <4>1. archives' = archives
        BY <2>a, <3>2, ReturnFacts
      <4>2. QED BY <3>2, <4>1
    <3>3. QED BY <3>1, <3>2
  <2>6. \A k \in Jobs \ {j} : JobOK(k)
    BY <1>1, <1>3, <2>2, <2>4
  <2>7. JobOK(j)
    BY <1>1, <2>1, <2>2, <2>3, <2>4
  <2>8. ApiOK
    BY <1>1, <2>2, <2>3, <2>4 DEF JobInv
  <2>9. QED BY <1>2, <2>6, <2>7, <2>8
<1>9. ASSUME NEW j \in Jobs, Read(j)
      PROVE  JobInv'
  BY <1>4, <1>9 DEF Read, processVars, resultVars
<1>10. CASE Aggregate
  <2>1. /\ UNCHANGED <<job, proc, rc, zip, ran, paths>> /\ archives' = archives \cup {"d2d"}
    BY <1>10 DEF Aggregate, processVars
  <2>2. ApiOK
    BY <1>1, <2>1 DEF JobInv
  <2>3. QED BY <1>2, <1>3, <2>1, <2>2
<1>11. CASE Exit \/ Unwind \/ Signal
  BY <1>4, <1>11 DEF Exit, Unwind, Signal, processVars, resultVars
<1>12. QED BY <1>5, <1>6, <1>7, <1>8, <1>9, <1>10, <1>11 DEF Next, Process, Coroutine, Faulty

\* Results fill in what is missing of the tests of their job, and nothing else.
LEMMA FilledFacts ==
    ASSUME TypeOK, NEW j \in Jobs, \A t \in TasksOf(j) : ran[t] # "running"
    PROVE  LET filled == Filled(ResultsOf(j), reported)
           IN  /\ filled \in [TestNames -> Statuses]
               /\ \A n \in TestNames :
                     n \notin ToSet(Names(j)) \/ reported[n] \notin {"none", "EXECUTING"} =>
                        filled[n] = reported[n]
               /\ j = "api" => \A t \in TasksOf(j) :
                     reported[NameOf(t)] \in {"none", "EXECUTING"} => filled[NameOf(t)] = ran[t]
<1> DEFINE filled == Filled(ResultsOf(j), reported)
<1> DEFINE TaskNamed(n) == CHOOSE t \in TasksOf(j) : NameOf(t) = n
<1>1. reported \in [TestNames -> Statuses] /\ DOMAIN ResultsOf(j) = ToSet(Names(j))
  BY DEF TypeOK, ResultsOf
<1>2. ASSUME NEW n \in ToSet(Names(j))
      PROVE  /\ TaskNamed(n) \in TasksOf(j) /\ NameOf(TaskNamed(n)) = n
             /\ ResultsOf(j)[n] = ran[TaskNamed(n)]
             /\ ran[TaskNamed(n)] \in Statuses
  <2>1. PICK i \in DOMAIN Names(j) : n = Names(j)[i]
    BY DEF ToSet
  <2>2. <<j, i>> \in TasksOf(j) /\ NameOf(<<j, i>>) = n
    BY <2>1 DEF TasksOf, Tasks, NameOf
  <2>3. TaskNamed(n) \in TasksOf(j) /\ NameOf(TaskNamed(n)) = n
    BY <2>2
  <2>4. ResultsOf(j)[n] = ran[TaskNamed(n)]
    BY DEF ResultsOf
  <2>5. ran[TaskNamed(n)] \in {"none"} \cup Outcomes
    BY <2>3, TaskFacts DEF TypeOK
  <2> HIDE DEF TaskNamed
  <2>6. QED BY <2>3, <2>4, <2>5 DEF Statuses
<1> HIDE DEF TaskNamed
<1>3. \A n \in TestNames :
          filled[n] = IF reported[n] \in {"none", "EXECUTING"} /\ n \in ToSet(Names(j))
                      THEN ResultsOf(j)[n] ELSE reported[n]
  BY <1>1 DEF Filled
<1>4. DOMAIN filled = TestNames /\ filled = [n \in TestNames |-> filled[n]]
  BY DEF Filled
<1> HIDE DEF filled
<1>5. \A n \in TestNames : filled[n] \in Statuses
  BY <1>1, <1>2, <1>3
<1>6. filled \in [TestNames -> Statuses]
  BY <1>4, <1>5
<1>7. ASSUME j = "api", NEW t \in TasksOf(j), reported[NameOf(t)] \in {"none", "EXECUTING"}
      PROVE  filled[NameOf(t)] = ran[t]
  <2>1. NameOf(t) \in ToSet(Names(j)) /\ NameOf(t) \in TestNames
    BY NameFacts, TaskFacts
  <2>2. TaskNamed(NameOf(t)) = t
    BY <1>2, <1>7, <2>1, NameFacts
  <2>3. QED BY <1>2, <1>3, <1>7, <2>1, <2>2
<1>8. \A n \in TestNames :
          n \notin ToSet(Names(j)) \/ reported[n] \notin {"none", "EXECUTING"} =>
             filled[n] = reported[n]
  BY <1>3
<1>9. QED BY <1>6, <1>7, <1>8 DEF filled

\* Every step keeps what is reported of API tests a result, or to be filled in.
LEMMA ReportStep ==
    ASSUME IInv, Next
    PROVE  ReportInv' /\ reported' \in [TestNames -> Statuses]
<1>1. /\ TypeOK /\ JobInv /\ LineInv /\ ReportInv /\ Monotone
      /\ reported \in [TestNames -> Statuses] /\ "api" \in Jobs
  BY ProcessStep, TaskFacts DEF IInv, TypeOK
<1>2. ASSUME NEW t \in TasksOf("api")
      PROVE  /\ NameOf(t) \in TestNames /\ t \in Tasks /\ t[1] = "api"
             /\ ran[t] \in Outcomes => ran'[t] = ran[t]
             /\ "api" \in archives => ran'[t] = ran[t] /\ zip'["api"] = zip["api"]
  BY <1>1, TaskFacts DEF JobInv, Monotone, Ended
\* Nothing is lost as long as nothing is reported of the API tests.
<1>3. ASSUME \A t \in TasksOf("api") : reported'[NameOf(t)] = reported[NameOf(t)],
             "api" \in archives' <=> "api" \in archives
      PROVE  ReportInv'
  BY <1>1, <1>2, <1>3 DEF ReportInv, ArchiveTells
<1>4. CASE UNCHANGED <<reported, archives>>
  BY <1>1, <1>3, <1>4
<1>6. ASSUME NEW j \in Jobs, Read(j)
      PROVE  ReportInv' /\ reported' \in [TestNames -> Statuses]
  <2>1. PICK line \in Lines :
            /\ line = pipe[j][1] /\ 1 \in DOMAIN pipe[j]
            /\ line.task \in Tasks /\ line.task \in TasksOf(j)
            /\ line = Line(line.kind, line.task) /\ Handle(j, line)
            /\ pipe[j] # <<>> /\ pipe' = [pipe EXCEPT ![j] = Tail(@)]
            /\ UNCHANGED <<job, proc, rc, zip, held, ran>>
    BY <1>1, <1>6, ReadFacts
  <2>2. UNCHANGED <<archives, ran>> /\ job[j] = "reading"
    BY <1>6 DEF Read, resultVars, processVars
  <2>3. SaysWhatIsSo(j, 1)
    BY <1>1, <2>1 DEF LineInv
  <2>4. NameOf(line.task) \in TestNames
    BY <2>1, TaskFacts
  <2>5. \/ reported' = reported
        \/ \E s \in Statuses : /\ reported' = [reported EXCEPT ![NameOf(line.task)] = s]
                               /\ s \in {"none", "EXECUTING"} \/ (ran[line.task] \in Outcomes /\ s = ran[line.task])
    <3>1. CASE line.kind = "start"
      BY <1>1, <2>1, <3>1, HandleFacts DEF Statuses
    <3>2. CASE line.kind = "end"
      <4>1. ran[line.task] \in Outcomes
        BY <2>1, <2>3, <3>2 DEF SaysWhatIsSo
      <4>2. PICK s \in {"none", ran[line.task]} : reported' = [reported EXCEPT ![NameOf(line.task)] = s]
        BY <1>1, <2>1, <3>2, HandleFacts
      <4>3. QED BY <4>1, <4>2 DEF Statuses
    <3>3. CASE line.kind = "job_end"
      BY <1>1, <2>1, <3>3, HandleFacts
    <3>4. CASE line.kind \notin {"start", "end", "job_end"}
      BY <1>1, <2>1, <3>4, HandleFacts DEF statusVars
    <3>5. QED BY <3>1, <3>2, <3>3, <3>4
  <2>6. reported' \in [TestNames -> Statuses]
    BY <1>1, <2>4, <2>5
  <2>7. CASE reported' = reported
    BY <1>4, <2>2, <2>7
  <2>8. ASSUME NEW s \in Statuses, reported' = [reported EXCEPT ![NameOf(line.task)] = s],
               s \in {"none", "EXECUTING"} \/ (ran[line.task] \in Outcomes /\ s = ran[line.task])
        PROVE  ReportInv'
    <3>1. CASE j = "api"
      <4>1. "api" \notin archives
        BY <1>1, <2>2, <3>1 DEF JobInv
      <4>2. ASSUME NEW t \in TasksOf("api")
            PROVE  \/ reported'[NameOf(t)] \in {"none", "EXECUTING"}
                   \/ ran[t] \in Outcomes /\ reported'[NameOf(t)] = ran[t]
        <5>1. CASE t = line.task
          BY <1>1, <2>4, <2>8, <5>1
        <5>2. CASE t # line.task
          <6>1. NameOf(t) # NameOf(line.task)
            BY <2>1, <3>1, <5>2, NameFacts
          <6>2. reported'[NameOf(t)] = reported[NameOf(t)]
            BY <1>1, <1>2, <2>8, <6>1
          <6>3. QED BY <1>1, <4>1, <6>2 DEF ReportInv
        <5>3. QED BY <5>1, <5>2
      <4>3. QED BY <2>2, <4>1, <4>2 DEF ReportInv, ArchiveTells
    <3>2. CASE j # "api"
      <4>1. j \in Devices
        BY <3>2 DEF Jobs
      <4>2. \A t \in TasksOf("api") : NameOf(t) # NameOf(line.task)
        BY <1>1, <2>1, <4>1, NameFacts, TaskFacts
      <4>3. \A t \in TasksOf("api") : reported'[NameOf(t)] = reported[NameOf(t)]
        BY <1>1, <1>2, <2>8, <4>2
      <4>4. QED BY <1>3, <2>2, <4>3
    <3>3. QED BY <3>1, <3>2
  <2>9. QED BY <2>5, <2>6, <2>7, <2>8
<1>7. ASSUME NEW j \in Jobs, StartFails(j) \/ Returns(j) \/ ReturnsOne(j)
      PROVE  ReportInv' /\ reported' \in [TestNames -> Statuses]
  <2>1. PICK code \in {0, 1, 2, -9, -15} :
            JobReturns(j, code) /\ job[j] \in {"ready", "reading", "terminating"}
    BY <1>1, <1>7, Returning
  <2>2. CASE j # "api"
    <3>1. UNCHANGED <<archives, reported>>
      BY <1>1, <2>1, <2>2, ReturnFacts
    <3>2. QED BY <1>4, <3>1
  <2>3. CASE j = "api"
    <3>1. "api" \notin archives /\ UNCHANGED ran
      BY <1>1, <2>1, <2>3, ReturnFacts DEF JobInv
    <3>2. \/ /\ zip["api"] # "none" /\ archives' = archives \cup {"api"}
             /\ reported' = FilledFrom("api")
          \/ /\ code \notin {0, 1} \/ zip["api"] = "none"
             /\ archives' = archives \/ archives' = archives \cup {"legacy"}
             /\ reported' = reported
      BY <1>1, <2>1, <2>3, ReturnFacts
    <3>3. CASE zip["api"] = "whole" /\ archives' = archives \cup {"api"}
               /\ reported' = FilledFrom("api")
      <4>1. \A t \in TasksOf("api") : ran[t] # "running"
        BY <1>1, <3>3 DEF JobInv, Ended
      <4>2. /\ reported' \in [TestNames -> Statuses]
            /\ \A n \in TestNames :
                  reported[n] \notin {"none", "EXECUTING"} => reported'[n] = reported[n]
            /\ \A t \in TasksOf("api") :
                  reported[NameOf(t)] \in {"none", "EXECUTING"} => reported'[NameOf(t)] = ran[t]
        BY <1>1, <3>3, <4>1, FilledFacts DEF FilledFrom
      <4>3. \A t \in TasksOf("api") : reported'[NameOf(t)] = ran'[t]
        BY <1>1, <1>2, <3>1, <4>2 DEF ReportInv
      <4>4. QED BY <3>3, <4>2, <4>3 DEF ReportInv, ArchiveTells
    <3>4. CASE reported' = reported /\ (archives' = archives \/ archives' = archives \cup {"legacy"})
      BY <1>1, <1>3, <3>4
    <3>5. CASE zip["api"] = "torn" /\ archives' = archives \cup {"api"}
               /\ reported' = FilledFrom("api")
      <4>1. reported' = reported /\ zip' = zip
        BY <1>1, <2>1, <3>5, ReturnFacts DEF FilledFrom
      <4>2. QED BY <1>1, <3>5, <4>1 DEF ReportInv, ArchiveTells
    <3>6. zip["api"] \in {"none", "torn", "whole"}
      BY <1>1 DEF TypeOK
    <3>7. QED BY <3>2, <3>3, <3>4, <3>5, <3>6
  <2>4. QED BY <2>2, <2>3
<1>8. CASE Aggregate
  <2>1. "api" \in archives' <=> "api" \in archives
    BY <1>8 DEF Aggregate
  <2>2. CASE reported' = reported
    BY <1>1, <1>3, <2>1, <2>2
  <2>3. ASSUME NEW d \in Zipped, zip[d] = "whole", reported' = FilledFrom(d)
        PROVE  ReportInv' /\ reported' \in [TestNames -> Statuses]
    <3>1. d \in Devices /\ d \in Jobs
      BY TaskFacts DEF Zipped
    <3>2. \A t \in TasksOf(d) : ran[t] # "running"
      BY <1>1, <2>3, <3>1 DEF JobInv, Ended
    <3>3. /\ reported' \in [TestNames -> Statuses]
          /\ \A n \in TestNames : n \notin ToSet(Names(d)) => reported'[n] = reported[n]
      BY <1>1, <2>3, <3>1, <3>2, FilledFacts DEF FilledFrom
    <3>4. \A t \in TasksOf("api") : NameOf(t) \notin ToSet(Names(d))
      BY <3>1, NameFacts
    <3>5. \A t \in TasksOf("api") : reported'[NameOf(t)] = reported[NameOf(t)]
      BY <1>2, <3>3, <3>4
    <3>6. QED BY <1>3, <2>1, <3>3, <3>5
  <2>4. \/ reported' = reported
        \/ \E d \in Zipped : zip[d] = "whole" /\ reported' = FilledFrom(d)
    BY <1>8 DEF Aggregate
  <2>5. QED BY <2>2, <2>3, <2>4
<1>9. ASSUME NEW j \in Jobs, Process(j) \/ TaskLost(j) \/ PrintsOverlong(j) \/ Crashes(j)
      PROVE  UNCHANGED <<reported, archives>>
  BY <1>1, <1>9, ProcessMoves DEF statusVars, resultVars
<1>10. ASSUME NEW j \in Jobs,
              \/ CreateJobFile(j) \/ StartProcess(j) \/ GiveUpReading(j)
              \/ CreateTestbed(j) \/ RegisterFiles(j) \/ PreparationFails(j)
       PROVE  UNCHANGED <<reported, archives>>
  BY <1>10 DEF CreateJobFile, StartProcess, GiveUpReading, CreateTestbed, RegisterFiles,
        PreparationFails, CoroutineOnly, statusVars, resultVars
<1>11. ASSUME Exit \/ Unwind \/ Signal
       PROVE  UNCHANGED <<reported, archives>>
  BY <1>11 DEF Exit, Unwind, Signal, statusVars, resultVars
<1>12. QED BY <1>4, <1>6, <1>7, <1>8, <1>9, <1>10, <1>11 DEF Next, Process, Coroutine, Faulty

-----------------------------------------------------------------------------
(* Files.                                                                   *)

\* The files a job or a run creates are files.
LEMMA JobFilesExist ==
    /\ \A j \in Jobs : JobFile(j) \in Files
    /\ \A d \in Devices : Testbed(d) \in Files /\ DeviceFiles(d) \subseteq Files
    /\ RunFiles \subseteq Files
<1>1. \A j \in Jobs : DeviceFiles(j) \subseteq Files
  BY FilesAssumption
<1>2. QED BY <1>1, FilesAssumption, TaskFacts DEF DeviceFiles

\* A cleanup leaves nothing registered but what is kept for debugging.
LEMMA CleanupLeaves ==
    ASSUME RunCleanup, NEW U, disk \subseteq U \cup registered \cup DebugFiles
    PROVE  registered' = {} /\ disk' \subseteq disk /\ disk' \subseteq U \cup DebugFiles
BY DEF RunCleanup, Kept, DebugFiles

\* Every step leaves each file registered, or among those that may be left.
LEMMA FilesStep ==
    ASSUME IInv, Next
    PROVE  FilesInv'
<1>1. /\ TypeOK /\ FilesInv /\ JobInv
      /\ job \in [Jobs -> {"idle", "job file", "testbed", "ready", "reading", "terminating", "returned"}]
      /\ own \in [Devices -> {"none", "pending", "passed", "failed"}]
      /\ "api" \in Jobs /\ Devices \subseteq Jobs /\ "api" \notin Devices
  BY TaskFacts, JobsAssumption DEF IInv, TypeOK
<1>2. main # "over"
  BY DEF Next, Aggregate, Exit, Unwind, Signal, Terminate, Interrupt, Kill, Running
<1>3. disk \subseteq Unregistered \cup registered \cup DebugFiles
  BY <1>1, <1>2 DEF FilesInv
\* The statuses of the devices go with their coroutines.
<1>a. \A d \in Devices : OwnIsTrue(d)
  BY <1>1 DEF FilesInv
<1>4. \A d \in Devices : job'[d] = job[d] /\ own'[d] = own[d] => OwnIsTrue(d)'
  BY <1>a DEF OwnIsTrue
<1>5. ASSUME \A d \in Devices : OwnIsTrue(d)', main' = main, main = "running",
             disk' \subseteq Unregistered' \cup registered' \cup DebugFiles
      PROVE  FilesInv'
  BY <1>5 DEF FilesInv, LeftBehind, DebugFiles
\* Who is not registered does not depend on anything else.
<1>6. ASSUME \A d \in Devices : own[d] = "none" => own'[d] = "none",
             job["api"] # "returned" => job'["api"] # "returned"
      PROVE  Unregistered \subseteq Unregistered'
  BY <1>6 DEF Unregistered
<1>7. ASSUME NEW j \in Jobs, main = "running",
             \/ Process(j) \/ TaskLost(j) \/ PrintsOverlong(j) \/ Crashes(j)
             \/ Read(j) \/ StartProcess(j) \/ GiveUpReading(j)
      PROVE  FilesInv'
  <2>1. /\ UNCHANGED <<own, disk, registered, main>>
        /\ \/ job' = job
           \/ /\ job[j] \in {"ready", "reading"}
              /\ job' = [job EXCEPT ![j] = "reading"] \/ job' = [job EXCEPT ![j] = "terminating"]
    <3>1. CASE Process(j) \/ TaskLost(j) \/ PrintsOverlong(j) \/ Crashes(j)
      BY <1>1, <3>1, ProcessMoves DEF resultVars, cleanupVars
    <3>2. CASE Read(j) \/ StartProcess(j) \/ GiveUpReading(j)
      BY <3>2 DEF Read, StartProcess, GiveUpReading, Become, resultVars, cleanupVars
    <3>3. QED BY <1>7, <3>1, <3>2
  <2>2. \A d \in Devices : OwnIsTrue(d)'
    BY <1>1, <1>4, <2>1, <1>a DEF OwnIsTrue
  <2>3. job["api"] # "returned" => job'["api"] # "returned"
    BY <1>1, <2>1
  <2>4. Unregistered \subseteq Unregistered'
    BY <1>6, <2>1, <2>3
  <2>5. QED BY <1>3, <1>5, <1>7, <2>1, <2>2, <2>4
<1>8. ASSUME NEW j \in Jobs, main = "running", CreateJobFile(j)
      PROVE  FilesInv'
  <2>1. /\ job[j] = "idle" /\ disk' = disk \cup {JobFile(j)} /\ UNCHANGED <<own, registered, main>>
        /\ job' = [job EXCEPT ![j] = IF j = "api" THEN "ready" ELSE "job file"]
    BY <1>8 DEF CreateJobFile, Create, Become, resultVars
  <2>2. \A d \in Devices : OwnIsTrue(d)'
    BY <1>1, <1>4, <2>1, <1>a DEF OwnIsTrue
  <2>3. Unregistered \subseteq Unregistered'
    BY <1>1, <1>6, <2>1
  <2>4. JobFile(j) \in Unregistered'
    <3>1. CASE j = "api"
      <4>1. job'["api"] # "returned"
        BY <1>1, <2>1, <3>1
      <4>2. QED BY <3>1, <4>1 DEF Unregistered
    <3>2. CASE j # "api"
      <4>1. j \in Devices /\ own'[j] = "none"
        BY <1>1, <1>a, <2>1, <3>2 DEF OwnIsTrue, Jobs
      <4>2. JobFile(j) \in DeviceFiles(j)
        BY DEF DeviceFiles
      <4>3. QED BY <4>1, <4>2 DEF Unregistered
    <3>3. QED BY <3>1, <3>2
  <2>5. QED BY <1>3, <1>5, <1>8, <2>1, <2>2, <2>3, <2>4
<1>9. ASSUME NEW d \in Devices, main = "running", CreateTestbed(d)
      PROVE  FilesInv'
  <2>1. /\ job[d] = "job file" /\ disk' = disk \cup {Testbed(d)} /\ UNCHANGED <<own, registered, main>>
        /\ job' = [job EXCEPT ![d] = "testbed"]
    BY <1>9 DEF CreateTestbed, Create, Become, resultVars
  <2>2. \A e \in Devices : OwnIsTrue(e)'
    BY <1>1, <1>4, <2>1, <1>a DEF OwnIsTrue
  <2>3. Unregistered \subseteq Unregistered'
    BY <1>1, <1>6, <2>1
  <2>4. own'[d] = "none" /\ Testbed(d) \in DeviceFiles(d)
    BY <1>1, <1>a, <2>1 DEF OwnIsTrue, DeviceFiles
  <2>5. Testbed(d) \in Unregistered'
    BY <2>4 DEF Unregistered
  <2>6. QED BY <1>3, <1>5, <1>9, <2>1, <2>2, <2>3, <2>5
<1>10. ASSUME NEW d \in Devices, main = "running", PreparationFails(d)
       PROVE  FilesInv'
  <2>1. /\ job' = [job EXCEPT ![d] = "returned"] /\ UNCHANGED <<own, disk, registered, main>>
    BY <1>10 DEF PreparationFails, Become, resultVars, cleanupVars
  <2>2. \A e \in Devices : OwnIsTrue(e)'
    BY <1>1, <1>4, <2>1, <1>a DEF OwnIsTrue
  <2>3. Unregistered \subseteq Unregistered'
    BY <1>1, <1>6, <2>1
  <2>4. QED BY <1>3, <1>5, <1>10, <2>1, <2>2, <2>3
<1>11. ASSUME NEW d \in Devices, main = "running", RegisterFiles(d)
       PROVE  FilesInv'
  <2>1. /\ job' = [job EXCEPT ![d] = "ready"] /\ UNCHANGED <<disk, main>>
        /\ own' = [own EXCEPT ![d] = "pending"]
        /\ registered' = registered \cup DeviceFiles(d)
    BY <1>11 DEF RegisterFiles, Register, Become
  <2>2. \A e \in Devices : OwnIsTrue(e)'
    BY <1>1, <1>4, <2>1, <1>a DEF OwnIsTrue
  <2>3. Unregistered \subseteq Unregistered' \cup DeviceFiles(d)
    <3>1. \A e \in Devices \ {d} : own'[e] = own[e]
      BY <1>1, <2>1
    <3>2. job'["api"] = job["api"]
      BY <1>1, <2>1
    <3>3. QED BY <3>1, <3>2 DEF Unregistered
  <2>4. QED BY <1>3, <1>5, <1>11, <2>1, <2>2, <2>3
<1>12. ASSUME NEW j \in Jobs, main = "running", StartFails(j) \/ Returns(j) \/ ReturnsOne(j)
       PROVE  FilesInv'
  <2>1. PICK code \in {0, 1, 2, -9, -15} :
            JobReturns(j, code) /\ job[j] \in {"ready", "reading", "terminating"}
    BY <1>1, <1>12, Returning
  <2>a. TypeOK /\ JobReturns(j, code)
    BY <1>1, <2>1
  <2>2. job' = [job EXCEPT ![j] = "returned"]
    BY <2>a, ReturnFacts
  <2>3. CASE j = "api"
    <3>1. own' = own /\ Unlink(JobFile("api"))
      BY <2>a, <2>3, ReturnFacts
    <3>2. disk' = disk \ {JobFile("api")} /\ UNCHANGED <<registered, main>>
      BY <3>1 DEF Unlink
    <3>3. \A d \in Devices : OwnIsTrue(d)'
      BY <1>1, <1>4, <2>2, <2>3, <3>1, <1>a DEF OwnIsTrue
    <3>4. Unregistered \subseteq Unregistered' \cup {JobFile("api")}
      <4>1. UNION {DeviceFiles(d) : d \in {d \in Devices : own'[d] = "none"}}
              = UNION {DeviceFiles(d) : d \in {d \in Devices : own[d] = "none"}}
        BY <3>1
      <4>2. QED BY <4>1 DEF Unregistered
    <3>5. QED BY <1>3, <1>5, <1>12, <3>2, <3>3, <3>4
  <2>4. CASE j # "api"
    <3>1. j \in Devices /\ own[j] # "none" /\ UNCHANGED <<disk, registered, main>>
      <4>1. UNCHANGED <<disk, registered, main>>
        BY <2>a, <2>4, ReturnFacts
      <4>2. QED BY <1>1, <1>a, <2>1, <2>4, <4>1 DEF OwnIsTrue, Jobs
    <3>2. PICK s \in {"passed", "failed"} : own' = [own EXCEPT ![j] = s]
      BY <2>a, <2>4, ReturnFacts
    <3>3. \A d \in Devices : OwnIsTrue(d)'
      BY <1>1, <1>4, <2>2, <3>1, <3>2, <1>a DEF OwnIsTrue
    <3>4. Unregistered \subseteq Unregistered'
      BY <1>1, <1>6, <2>2, <2>4, <3>1, <3>2
    <3>5. QED BY <1>3, <1>5, <1>12, <3>1, <3>3, <3>4
  <2>5. QED BY <2>3, <2>4
<1>13. CASE Aggregate
  <2>1. UNCHANGED <<job, own, disk, registered, main>> /\ main = "running"
    BY <1>13 DEF Aggregate, cleanupVars, Running
  <2>2. Unregistered \subseteq Unregistered'
    BY <1>6, <2>1
  <2>3. QED BY <1>3, <1>4, <1>5, <2>1, <2>2
\* The end of the run.
<1>14. ASSUME UNCHANGED <<job, own>>
       PROVE  Unregistered' = Unregistered /\ \A d \in Devices : OwnIsTrue(d)'
  BY <1>4, <1>14 DEF Unregistered
<1>15. ASSUME UNCHANGED <<job, own>>, RunCleanup, main' # "running"
       PROVE  FilesInv'
  <2>1. registered' = {} /\ disk' \subseteq Unregistered \cup DebugFiles
    BY <1>3, <1>15, CleanupLeaves
  <2>2. QED BY <1>14, <1>15, <2>1 DEF FilesInv, LeftBehind, DebugFiles
<1>16. CASE Exit
  <2>1. UNCHANGED <<job, own>> /\ RunCleanup /\ main' # "running"
    BY <1>16 DEF Exit, AtExit, resultVars
  <2>2. QED BY <1>15, <2>1
<1>17. CASE Unwind
  <2>1. /\ UNCHANGED <<job, own, registered, main>> /\ disk' \subseteq disk /\ main = "interrupted"
    BY <1>17 DEF Unwind, Unlink, resultVars
  <2>2. QED BY <1>1, <1>3, <1>14, <2>1 DEF FilesInv, LeftBehind
<1>18. CASE Signal
  <2>1. UNCHANGED <<job, own>>
    BY <1>18 DEF Signal, resultVars
  <2>2. CASE Terminate \/ Interrupt
    BY <1>15, <2>1, <2>2 DEF Terminate, Interrupt
  <2>3. CASE Kill
    <3>1. main' = "over" /\ signal' = "SIGKILL"
      BY <2>3 DEF Kill
    <3>2. QED BY <1>14, <2>1, <3>1 DEF FilesInv, LeftBehind
  <2>4. QED BY <1>18, <2>2, <2>3 DEF Signal
<1>19. QED BY <1>7, <1>8, <1>9, <1>10, <1>11, <1>12, <1>13, <1>16, <1>17, <1>18
         DEF Next, Process, Coroutine, Faulty, Running

-----------------------------------------------------------------------------
(* Types.                                                                   *)

PipeTypes ==
    /\ pipe \in [Jobs -> Seq(Lines)]
    /\ \A j \in Jobs : Len(pipe[j]) <= PipeSize /\ \A i \in DOMAIN pipe[j] : pipe[j][i].task[1] = j
    /\ shown \in [Tasks -> Statuses] /\ seen \subseteq [kind : {"end", "job_end"}, task : Tasks]

CoroutineTypes ==
    /\ job \in [Jobs -> {"idle", "job file", "testbed", "ready", "reading", "terminating", "returned"}]
    /\ own \in [Devices -> {"none", "pending", "passed", "failed"}]
    /\ paths \subseteq Jobs /\ archives \subseteq {"api", "d2d", "legacy"}

CleanupTypes ==
    /\ disk \subseteq Files /\ registered \subseteq Files
    /\ main \in {"running", "interrupted", "over"}
    /\ signal \in {"none", "SIGTERM", "SIGINT", "SIGKILL"}

\* The type invariant, in the parts in which it is proved.
LEMMA TypesAgree ==
    TypeOK <=> /\ ProcessTypes /\ PipeTypes /\ CoroutineTypes /\ CleanupTypes
               /\ reported \in [TestNames -> Statuses] /\ faults \in 0 .. MaxFaults
BY DEF TypeOK, ProcessTypes, PipeTypes, CoroutineTypes, CleanupTypes, Lines, Kinds

\* Every step keeps pipes and statuses well-typed.
LEMMA PipeTypeStep ==
    ASSUME IInv, Next
    PROVE  PipeTypes'
<1>1. TypeOK /\ LineInv /\ PipeTypes
  BY TypesAgree DEF IInv
<1>2. CASE UNCHANGED <<pipe, shown, seen>>
  BY <1>1, <1>2 DEF PipeTypes
<1>3. ASSUME NEW j \in Jobs, NEW line \in Lines, Prints(j, line)
      PROVE  PipeTypes'
  <2>1. /\ pipe' \in [Jobs -> Seq(Lines)] /\ Len(pipe'[j]) <= PipeSize
        /\ Len(pipe[j]) \in Nat /\ DOMAIN pipe[j] = 1 .. Len(pipe[j])
        /\ DOMAIN pipe'[j] = 1 .. Len(pipe[j]) + 1
        /\ \A i \in DOMAIN pipe[j] : pipe'[j][i] = pipe[j][i]
        /\ pipe'[j][Len(pipe[j]) + 1] = line /\ line.task[1] = j
        /\ \A k \in Jobs \ {j} : pipe'[k] = pipe[k]
    BY <1>1, <1>3, Appended DEF Prints
  <2>2. UNCHANGED <<shown, seen>>
    BY <1>3 DEF Prints
  <2>3. ASSUME NEW i \in DOMAIN pipe'[j]
        PROVE  pipe'[j][i].task[1] = j
    <3>1. i = Len(pipe[j]) + 1 \/ i \in DOMAIN pipe[j]
      BY <2>1
    <3>2. QED BY <1>1, <2>1, <3>1 DEF PipeTypes
  <2>4. \A k \in Jobs \ {j} : /\ Len(pipe'[k]) <= PipeSize
                              /\ \A i \in DOMAIN pipe'[k] : pipe'[k][i].task[1] = k
    BY <1>1, <2>1 DEF PipeTypes
  <2>5. QED BY <1>1, <2>1, <2>2, <2>3, <2>4 DEF PipeTypes
<1>4. ASSUME NEW j \in Jobs, Read(j)
      PROVE  PipeTypes'
  <2>1. PICK line \in Lines :
            /\ line = pipe[j][1] /\ 1 \in DOMAIN pipe[j]
            /\ line.task \in Tasks /\ line.task \in TasksOf(j)
            /\ line = Line(line.kind, line.task) /\ Handle(j, line)
            /\ pipe[j] # <<>> /\ pipe' = [pipe EXCEPT ![j] = Tail(@)]
            /\ UNCHANGED <<job, proc, rc, zip, held, ran>>
    BY <1>1, <1>4, ReadFacts
  <2>2. /\ pipe' \in [Jobs -> Seq(Lines)]
        /\ Len(pipe[j]) \in Nat /\ Len(pipe'[j]) = Len(pipe[j]) - 1
        /\ \A i \in DOMAIN pipe'[j] : i + 1 \in DOMAIN pipe[j] /\ pipe'[j][i] = pipe[j][i + 1]
        /\ \A k \in Jobs \ {j} : pipe'[k] = pipe[k]
    BY <1>1, <2>1, Shortened
  <2>3. Len(pipe'[j]) <= PipeSize /\ \A i \in DOMAIN pipe'[j] : pipe'[j][i].task[1] = j
    <3>1. Len(pipe[j]) <= PipeSize /\ \A i \in DOMAIN pipe[j] : pipe[j][i].task[1] = j
      BY <1>1 DEF PipeTypes
    <3>2. QED BY <2>2, <3>1, JobsAssumption
  <2>4. \A k \in Jobs \ {j} : /\ Len(pipe'[k]) <= PipeSize
                              /\ \A i \in DOMAIN pipe'[k] : pipe'[k][i].task[1] = k
    BY <1>1, <2>2 DEF PipeTypes
  <2>5. SaysWhatIsSo(j, 1)
    BY <1>1, <2>1 DEF LineInv
  <2>6. shown' \in [Tasks -> Statuses]
    <3>1. shown \in [Tasks -> Statuses]
      BY <1>1 DEF PipeTypes
    <3>2. CASE line.kind = "start"
      BY <1>1, <2>1, <3>1, <3>2, HandleFacts DEF Statuses
    <3>3. CASE line.kind = "end"
      <4>1. PICK s \in {"none", ran[line.task]} : shown' = [shown EXCEPT ![line.task] = s]
        BY <1>1, <2>1, <3>3, HandleFacts
      <4>2. s \in Statuses
        BY <2>1, <2>5, <3>3 DEF SaysWhatIsSo, Statuses
      <4>3. QED BY <3>1, <4>1, <4>2
    <3>4. CASE line.kind = "job_end"
      <4>1. shown' = [u \in Tasks |-> IF u \in Orphans(j) THEN "errored" ELSE shown[u]]
        BY <1>1, <2>1, <3>4, HandleFacts
      <4>2. QED BY <3>1, <4>1 DEF Statuses
    <3>5. CASE line.kind \notin {"start", "end", "job_end"}
      BY <1>1, <2>1, <3>1, <3>5, HandleFacts DEF statusVars
    <3>6. QED BY <3>2, <3>3, <3>4, <3>5
  <2>7. seen' \subseteq [kind : {"end", "job_end"}, task : Tasks]
    <3>1. line.kind \in {"end", "job_end"} => line \in [kind : {"end", "job_end"}, task : Tasks]
      BY DEF Lines
    <3>2. line.kind \in {"end", "job_end"} => seen' = seen \cup {line}
      BY <1>1, <2>1, HandleFacts
    <3>3. line.kind \notin {"end", "job_end"} => seen' = seen
      BY <1>1, <2>1, HandleFacts
    <3>4. QED BY <1>1, <3>1, <3>2, <3>3 DEF PipeTypes
  <2>8. QED BY <2>2, <2>3, <2>4, <2>6, <2>7 DEF PipeTypes
<1>5. QED BY <1>1, <1>2, <1>3, <1>4, PipeStep

\* Every step keeps the coroutines of jobs well-typed.
LEMMA CoroutineTypeStep ==
    ASSUME TypeOK, JobInv, Next
    PROVE  CoroutineTypes'
<1>1. CoroutineTypes /\ "api" \in Jobs /\ Devices \subseteq Jobs
  BY TypesAgree, TaskFacts
<1>2. CASE UNCHANGED <<job, own, paths, archives>>
  BY <1>1, <1>2 DEF CoroutineTypes
<1>3. ASSUME NEW j \in Jobs, Process(j) \/ TaskLost(j) \/ PrintsOverlong(j) \/ Crashes(j) \/ Read(j)
      PROVE  UNCHANGED <<job, own, paths, archives>>
  BY <1>3, ProcessMoves DEF Read, resultVars
<1>4. ASSUME NEW j \in Jobs,
             \/ CreateJobFile(j) \/ StartProcess(j) \/ GiveUpReading(j)
             \/ j \in Devices /\ (CreateTestbed(j) \/ RegisterFiles(j) \/ PreparationFails(j))
      PROVE  CoroutineTypes'
  <2>1. \E s \in {"job file", "testbed", "ready", "reading", "terminating", "returned"} :
            job' = [job EXCEPT ![j] = s]
    BY <1>4 DEF CreateJobFile, StartProcess, GiveUpReading, CreateTestbed, RegisterFiles,
          PreparationFails, Become
  <2>2. UNCHANGED <<paths, archives>>
    BY <1>4 DEF CreateJobFile, StartProcess, GiveUpReading, CreateTestbed, RegisterFiles,
          PreparationFails, resultVars
  <2>3. own' = own \/ own' = [own EXCEPT ![j] = "pending"]
    BY <1>4 DEF CreateJobFile, StartProcess, GiveUpReading, CreateTestbed, RegisterFiles,
          PreparationFails, resultVars
  <2>4. QED BY <1>1, <2>1, <2>2, <2>3 DEF CoroutineTypes
<1>5. ASSUME NEW j \in Jobs, StartFails(j) \/ Returns(j) \/ ReturnsOne(j)
      PROVE  CoroutineTypes'
  <2>1. PICK code \in {0, 1, 2, -9, -15} : JobReturns(j, code)
    BY <1>5, Returning
  <2>2. /\ job' = [job EXCEPT ![j] = "returned"]
        /\ paths' = paths \/ paths' = paths \cup {j}
    BY <2>1, ReturnFacts
  <2>3. CASE j = "api"
    <3>1. \/ /\ zip["api"] # "none" /\ archives' = archives \cup {"api"}
             /\ reported' = FilledFrom("api")
          \/ /\ code \notin {0, 1} \/ zip["api"] = "none"
             /\ archives' = archives \/ archives' = archives \cup {"legacy"}
             /\ reported' = reported
      BY <2>1, <2>3, ReturnFacts
    <3>2. archives' \subseteq {"api", "d2d", "legacy"}
      BY <1>1, <3>1 DEF CoroutineTypes
    <3>3. own' = own
      BY <2>1, <2>3, ReturnFacts
    <3>4. QED BY <1>1, <2>2, <3>2, <3>3 DEF CoroutineTypes
  <2>4. CASE j # "api"
    <3>1. archives' = archives
      BY <2>1, <2>4, ReturnFacts
    <3>2. PICK s \in {"passed", "failed"} : own' = [own EXCEPT ![j] = s]
      BY <2>1, <2>4, ReturnFacts
    <3>3. QED BY <1>1, <2>2, <3>1, <3>2 DEF CoroutineTypes
  <2>5. QED BY <2>3, <2>4
<1>6. CASE Aggregate
  BY <1>1, <1>6 DEF Aggregate, CoroutineTypes
<1>7. ASSUME Exit \/ Unwind \/ Signal
      PROVE  UNCHANGED <<job, own, paths, archives>>
  BY <1>7 DEF Exit, Unwind, Signal, resultVars
<1>8. QED BY <1>2, <1>3, <1>4, <1>5, <1>6, <1>7 DEF Next, Process, Coroutine, Faulty

\* Every step keeps files and registrations well-typed.
LEMMA CleanupTypeStep ==
    ASSUME TypeOK, JobInv, Next
    PROVE  CleanupTypes' /\ faults' \in 0 .. MaxFaults
<1>1. CleanupTypes /\ faults \in 0 .. MaxFaults
  BY TypesAgree
<1>2. ASSUME UNCHANGED cleanupVars
      PROVE  CleanupTypes'
  BY <1>1, <1>2 DEF CleanupTypes, cleanupVars
<1>3. ASSUME NEW j \in Jobs, Process(j) \/ TaskLost(j) \/ PrintsOverlong(j) \/ Crashes(j)
      PROVE  UNCHANGED cleanupVars /\ faults' \in 0 .. MaxFaults
  <2>1. UNCHANGED cleanupVars
    BY <1>3, ProcessMoves
  <2>2. faults' = faults \/ Fault
    BY <1>3 DEF Process, TaskStarts, TaskEnds, PostJob, Exits, LetsGo, TaskLost, PrintsOverlong,
          Crashes, Emit, ProcessOnly
  <2>3. QED BY <1>1, <2>1, <2>2, FaultCounts
<1>4. ASSUME NEW j \in Jobs, Read(j) \/ StartProcess(j) \/ GiveUpReading(j)
      PROVE  UNCHANGED cleanupVars /\ faults' = faults
  BY <1>4 DEF Read, StartProcess, GiveUpReading
<1>5. ASSUME NEW j \in Jobs, CreateJobFile(j) \/ (j \in Devices /\ (CreateTestbed(j) \/ RegisterFiles(j)))
      PROVE  CleanupTypes' /\ faults' = faults
  <2>1. JobFile(j) \in Files
    BY JobFilesExist
  <2>2. j \in Devices => Testbed(j) \in Files /\ DeviceFiles(j) \subseteq Files
    BY JobFilesExist
  <2>3. QED BY <1>1, <1>5, <2>1, <2>2 DEF CreateJobFile, CreateTestbed, RegisterFiles, Create, Register,
                CleanupTypes
<1>6. ASSUME NEW d \in Devices, PreparationFails(d)
      PROVE  UNCHANGED cleanupVars /\ faults' \in 0 .. MaxFaults
  BY <1>6, FaultCounts DEF PreparationFails
<1>7. ASSUME NEW j \in Jobs, StartFails(j) \/ Returns(j) \/ ReturnsOne(j)
      PROVE  CleanupTypes' /\ faults' \in 0 .. MaxFaults
  <2>1. PICK code \in {0, 1, 2, -9, -15} : JobReturns(j, code)
    BY <1>7, Returning
  <2>2. j = "api" => Unlink(JobFile("api"))
    BY <2>1, ReturnFacts
  <2>3. j # "api" => UNCHANGED <<disk, registered, main, signal>>
    BY <2>1, ReturnFacts
  <2>4. faults' = faults \/ Fault
    BY <1>7 DEF StartFails, Returns, ReturnsOne
  <2>5. QED BY <1>1, <2>2, <2>3, <2>4, FaultCounts DEF CleanupTypes, Unlink
<1>8. CASE Aggregate
  BY <1>1, <1>2, <1>8 DEF Aggregate
<1>9. CASE Exit \/ Unwind \/ Signal
  BY <1>1, <1>9 DEF Exit, Unwind, Signal, AtExit, Terminate, Interrupt, Kill, RunCleanup, Unlink, CleanupTypes
<1>10. QED BY <1>1, <1>2, <1>3, <1>4, <1>5, <1>6, <1>7, <1>8, <1>9 DEF Next, Process, Coroutine, Faulty

\* Every step keeps the state well-typed.
LEMMA TypeStep ==
    ASSUME IInv, Next
    PROVE  TypeOK'
<1>1. /\ ProcessTypes' /\ PipeTypes' /\ CoroutineTypes' /\ CleanupTypes'
      /\ reported' \in [TestNames -> Statuses] /\ faults' \in 0 .. MaxFaults
  BY ProcessStep, PipeTypeStep, CoroutineTypeStep, CleanupTypeStep, ReportStep DEF IInv
<1>2. QED BY <1>1 DEF TypeOK, ProcessTypes, PipeTypes, CoroutineTypes, CleanupTypes, Lines, Kinds

\* The invariant holds before the first job.
LEMMA InitInv == Init => IInv
<1> SUFFICES ASSUME Init PROVE IInv
  OBVIOUS
<1>1. TypeOK
  <2>1. pipe \in [Jobs -> Seq(Lines)] /\ \A j \in Jobs : Len(pipe[j]) = 0 /\ DOMAIN pipe[j] = {}
    BY EmptySeq DEF Init
  <2>2. PipeTypes
    BY <2>1, JobsAssumption DEF Init, PipeTypes, Statuses
  <2>3. CleanupTypes
    BY JobFilesExist DEF Init, CleanupInit, CleanupTypes
  <2>4. ProcessTypes /\ CoroutineTypes /\ reported \in [TestNames -> Statuses]
    BY DEF Init, ProcessTypes, CoroutineTypes, Statuses
  <2>5. faults \in 0 .. MaxFaults
    BY JobsAssumption DEF Init
  <2>6. QED BY <2>2, <2>3, <2>4, <2>5, TypesAgree
<1>2. JobInv /\ ReportInv
  BY TaskFacts DEF Init, JobInv, Ended, ReportInv, ArchiveTells
<1>3. LineInv
  BY DEF Init, LineInv
<1>4. SeenInv /\ ShownInv
  BY DEF Init, SeenInv, JobEndSeen, ShownInv, StatusIsTrue
<1>5. FilesInv
  <2>1. /\ \A d \in Devices : job[d] = "idle" /\ own[d] = "none"
        /\ disk = registered /\ main = "running"
    BY TaskFacts DEF Init, CleanupInit
  <2>2. \A d \in Devices : OwnIsTrue(d)
    BY <2>1 DEF OwnIsTrue
  <2>3. QED BY <2>1, <2>2 DEF FilesInv, LeftBehind
<1>6. QED BY <1>1, <1>2, <1>3, <1>4, <1>5 DEF IInv

\* A step that changes nothing keeps the invariant.
LEMMA Stutter ==
    ASSUME IInv, UNCHANGED vars
    PROVE  IInv'
<1> USE DEF vars, processVars, statusVars, resultVars, cleanupVars
<1>1. TypeOK'
  BY DEF IInv, TypeOK
<1>2. JobInv'
  BY DEF IInv, JobInv
<1>3. LineInv' /\ SeenInv'
  BY DEF IInv, LineInv, SaysWhatIsSo, SeenInv, JobEndSeen
<1>4. ShownInv' /\ ReportInv'
  BY DEF IInv, ShownInv, StatusIsTrue, JobEndSeen, ReportInv, ArchiveTells
<1>5. FilesInv'
  <2>1. (\A d \in Devices : OwnIsTrue(d)') /\ Unregistered' = Unregistered
    BY DEF IInv, FilesInv, OwnIsTrue, Unregistered
  <2>2. QED BY <2>1 DEF IInv, FilesInv, LeftBehind
<1>6. QED BY <1>1, <1>2, <1>3, <1>4, <1>5 DEF IInv

\* The invariant holds in every reachable state.
LEMMA Invariance == Spec => []IInv
<1>1. IInv /\ [Next]_vars => IInv'
  BY TypeStep, JobStep, LineStep, SeenStep, ShownStep, ReportStep, FilesStep, Stutter DEF IInv
<1>2. QED BY InitInv, <1>1, PTL DEF Spec

\* Every variable keeps its type, and every pipe its bound; a line of a pipe is
\* about a task of its own job.
THEOREM TypeCorrect == Spec => []TypeOK
<1>1. IInv => TypeOK
  BY DEF IInv
<1>2. QED BY <1>1, Invariance, PTL

\* Whatever events are lost and whichever jobs crash, the status a user is shown
\* of a test that has ended is the one it has got, no test of a job that has
\* ended is shown as executing, and the end of one job says nothing about another.
THEOREM StatusesAreTrue == Spec => []StatusIsTrue
<1>1. IInv => StatusIsTrue
  BY DEF IInv, ShownInv
<1>2. QED BY <1>1, Invariance, PTL

\* An archive of the API job makes up for every progress event that was lost.
THEOREM ArchivesTell == Spec => []ArchiveTells
<1>1. IInv => ArchiveTells
  BY DEF IInv, ReportInv
<1>2. QED BY <1>1, Invariance, PTL

\* What a job that ended on its own has left is in the reports, whatever became
\* of the other jobs.
THEOREM FinishedJobsCounted == Spec => []FinishedJobsCount
<1>1. ASSUME IInv, Done, NEW j \in Jobs, zip[j] = "whole", rc[j] \in {0, 1}
      PROVE  IF j = "api" THEN "api" \in Reported ELSE j \in Zipped /\ "d2d" \in Reported
  <2>1. j \in Jobs /\ job[j] = "returned"
    BY <1>1 DEF IInv, TypeOK, Done, Returned
  <2>2. j \in paths /\ (j = "api" => "api" \in archives)
    BY <1>1, <2>1 DEF IInv, JobInv
  <2>3. CASE j = "api"
    BY <2>2, <2>3 DEF Reported
  <2>4. CASE j # "api"
    <3>1. j \in Zipped
      BY <1>1, <2>1, <2>2, <2>4 DEF Zipped, Jobs
    <3>2. "d2d" \in archives
      BY <1>1, <3>1 DEF Done
    <3>3. QED BY <2>4, <3>1, <3>2 DEF Reported
  <2>5. QED BY <2>3, <2>4
<1>2. IInv => FinishedJobsCount
  BY <1>1 DEF FinishedJobsCount
<1>3. QED BY <1>2, Invariance, PTL

\* However it ends, but for SIGKILL, the run leaves no file that is not kept for
\* debugging or known to be left.
THEOREM FilesAreRemoved == Spec => []LeftBehind
<1>1. IInv => LeftBehind
  BY DEF IInv, FilesInv
<1>2. QED BY <1>1, Invariance, PTL
=============================================================================
