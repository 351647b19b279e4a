----------------------------- MODULE Scheduler ------------------------------
(***************************************************************************)
(* The scheduler process (crawl/scheduler.py) under systemd: it registers  *)
(* one interval job per source, sweeps every source once, and waits.  A    *)
(* run is the three parts of CrawlRunner.run (crawl/runner.py) that meet   *)
(* the database differently: its opening transaction, the sweep, whose     *)
(* exceptions are caught, and _finalize.                                   *)
(*                                                                         *)
(*   up       whether the process runs                                     *)
(*   left     the sources whose startup run is not over, the first of them *)
(*            being the one under way                                      *)
(*   job      the APScheduler job of each source: none, paused (it has no  *)
(*            next_run_time) or armed                                      *)
(*   run      where the run of each task is: the startup loop is one, and  *)
(*            each job                                                     *)
(*   dbUp     whether the database answers                                 *)
(*   faults   outages and kills so far                                     *)
(***************************************************************************)
EXTENDS Naturals, Sequences

CONSTANTS
  Registry,    \* the registered adapters in registration order
  Loop,        \* the startup loop, as a task
  MaxFaults    \* bound on faults

Sources == {Registry[i] : i \in DOMAIN Registry}
Tasks   == Sources \cup {Loop}

ASSUME SchedulerAssumption ==
  /\ Registry \in Seq(Sources) \ {<<>>}
  /\ Loop \notin Sources
  /\ MaxFaults \in Nat

VARIABLES up, left, job, run, dbUp, faults

schedulerVars == <<up, left, job, run, dbUp, faults>>

Stages  == {"none", "start", "sweep", "finalize"}

NoRuns == [w \in Tasks |-> "none"]

\* The process is gone and everything in its memory with it.
Stopped ==
  /\ up' = FALSE
  /\ left' = <<>>
  /\ job' = [k \in Sources |-> "none"]
  /\ run' = NoRuns

SchedulerInit ==
  /\ up = FALSE
  /\ left = <<>>
  /\ job = [k \in Sources |-> "none"]
  /\ run = NoRuns
  /\ dbUp = TRUE
  /\ faults = 0

Fault == faults < MaxFaults /\ faults' = faults + 1

-----------------------------------------------------------------------------
\* systemd starts the process; load_schedule reads the sources table, and
\* every registered adapter gets a job, whether or not its source is enabled.
\* add_job is given next_run_time=None, which registers the job paused.
Boot ==
  /\ ~up /\ dbUp
  /\ up' = TRUE
  /\ left' = Registry
  /\ job' = [k \in Sources |-> "paused"]
  /\ UNCHANGED <<run, dbUp, faults>>

\* The startup loop turns to the next source.
StartupRun ==
  /\ left # <<>>
  /\ run[Loop] = "none"
  /\ run' = [run EXCEPT ![Loop] = "start"]
  /\ UNCHANGED <<up, left, job, dbUp, faults>>

\* APScheduler looks for jobs whose time has come; a paused one has none.
\* max_instances=1: a job whose last run is under way is skipped.
Tick ==
  /\ up
  /\ \E due \in SUBSET {k \in Sources : job[k] = "armed"} :
       run' = [w \in Tasks |-> IF w \in due /\ run[w] = "none" THEN "start" ELSE run[w]]
  /\ UNCHANGED <<up, left, job, dbUp, faults>>

\* The opening transaction, then the sweep, then _finalize.
Follows(from, to) ==
  \/ from = "start" /\ dbUp /\ to = "sweep"
  \/ from = "sweep" /\ to = "finalize"
  \/ from = "finalize" /\ dbUp /\ to = "none"

Proceed(w) ==
  /\ \E to \in Stages : Follows(run[w], to) /\ run' = [run EXCEPT ![w] = to]
  /\ left' = IF w = Loop /\ run'[w] = "none" THEN Tail(left) ELSE left
  /\ UNCHANGED <<up, job, dbUp, faults>>

\* Mutant of Raise: the exception leaves the startup loop, and the process
\* goes on waiting.
RaiseAndHang(w) ==
  /\ run[w] \in {"start", "finalize"} /\ ~dbUp
  /\ run' = [run EXCEPT ![w] = "none"]
  /\ left' = <<>>
  /\ UNCHANGED <<up, job, dbUp, faults>>

\* Neither transaction is inside the try of run, so its exception is run's.
\* The startup loop is in no try either: run_forever ends, and asyncio.run
\* cancels what else there is.  APScheduler logs the exception of a job.
Raise(w) ==
  /\ run[w] \in {"start", "finalize"} /\ ~dbUp
  /\ IF w = Loop
     THEN Stopped
     ELSE run' = [run EXCEPT ![w] = "none"] /\ UNCHANGED <<up, left, job>>
  /\ UNCHANGED <<dbUp, faults>>

-----------------------------------------------------------------------------
Outage ==
  /\ Fault
  /\ dbUp
  /\ dbUp' = FALSE
  /\ UNCHANGED <<up, left, job, run>>

OutageOver ==
  /\ ~dbUp
  /\ dbUp' = TRUE
  /\ UNCHANGED <<up, left, job, run, faults>>

Kill ==
  /\ Fault
  /\ up
  /\ Stopped
  /\ UNCHANGED dbUp

TaskStep(w) == Proceed(w) \/ Raise(w)

SchedulerNext ==
  \/ Boot \/ StartupRun \/ Tick \/ (\E w \in Tasks : TaskStep(w))
  \/ Outage \/ OutageOver \/ Kill

SchedulerSpec == SchedulerInit /\ [][SchedulerNext]_schedulerVars

(***************************************************************************)
(* systemd always restarts (Restart=always, no start limit), outages end,  *)
(* runs under way keep going, and APScheduler wakes for what is due.       *)
(***************************************************************************)
SchedulerFairSpec ==
  /\ SchedulerSpec
  /\ WF_schedulerVars(Boot)
  /\ WF_schedulerVars(OutageOver)
  /\ WF_schedulerVars(StartupRun)
  /\ WF_schedulerVars(Tick)
  /\ \A w \in Tasks : WF_schedulerVars(TaskStep(w))

-----------------------------------------------------------------------------
(***************************************************************************)
(* The types, and that nothing of a stopped process is left running.       *)
(***************************************************************************)
SchedulerTypeOK ==
  /\ up \in BOOLEAN /\ dbUp \in BOOLEAN
  /\ faults \in 0 .. MaxFaults
  /\ \E i \in 0 .. Len(Registry) : left = SubSeq(Registry, i + 1, Len(Registry))
  /\ job \in [Sources -> {"none", "paused", "armed"}]
  /\ run \in [Tasks -> Stages]
  /\ left = <<>> => run[Loop] = "none"
  /\ up <=> \A k \in Sources : job[k] # "none"
  /\ ~up => left = <<>> /\ run = NoRuns

Sweeping(k) ==
  \/ run[Loop] = "sweep" /\ Head(left) = k
  \/ run[k] = "sweep"

(***************************************************************************)
(* "Crawl once at startup so a restart does not leave a 30-minute gap"     *)
(* (crawl/scheduler.py): the startup loop of a process gets to every       *)
(* source or, when a run takes the process down, that of its successor.    *)
(***************************************************************************)
StartupSweepsAll ==
  \A k \in Sources :
    up /\ left = Registry /\ run[Loop] = "none" ~> run[Loop] = "sweep" /\ Head(left) = k

(***************************************************************************)
(* deploy/README.md: the unit runs always and sweeps every 30 minutes.     *)
(***************************************************************************)
KeepsSweeping == \A k \in Sources : []<>Sweeping(k)

(***************************************************************************)
(* "a run must never crash the scheduler" (crawl/runner.py): the process   *)
(* only stops when it is killed.                                           *)
(***************************************************************************)
RunNeverCrashesScheduler ==
  [][up /\ ~up' => faults' > faults]_schedulerVars
=============================================================================
