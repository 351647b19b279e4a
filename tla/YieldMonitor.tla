---------------------------- MODULE YieldMonitor ----------------------------
(***************************************************************************)
(* The verdict on each crawl of one source: CrawlRunner._finalize and      *)
(* _is_anomalous (crawl/runner.py) over the log kept by start_run,         *)
(* finish_run and trailing_yield (db/repo.py).                             *)
(*                                                                         *)
(*   runs  the crawl_runs rows in the order of started_at                  *)
(*   open  the runs whose process is alive                                 *)
(*                                                                         *)
(* The scheduler's run and one started by hand may be open together, and   *)
(* the row of a process that dies stays "running" for ever.                *)
(***************************************************************************)
EXTENDS Naturals, Sequences, FiniteSetsExt

CONSTANTS
  Window,    \* the runs argument of trailing_yield
  Yields,    \* what items_found can be
  MaxRuns,   \* bound on the rows
  MaxOpen    \* bound on the runs open together

ASSUME YieldAssumption ==
  /\ Window \in Nat \ {0}
  /\ Yields \subseteq Nat
  /\ MaxRuns \in Nat
  /\ MaxOpen \in Nat

VARIABLES runs, open
yieldVars == <<runs, open>>

Outcomes == {"ok", "partial", "failed"}

Row == [status : Outcomes \cup {"running"}, full : BOOLEAN, found : Yields \cup {0},
        anomaly : BOOLEAN]

YieldInit ==
  /\ runs = <<>>
  /\ open = {}

\* start_run: is_full_sweep says whether the run is capped with --pages.
StartRun ==
  /\ Len(runs) < MaxRuns
  /\ Cardinality(open) < MaxOpen
  /\ \E full \in BOOLEAN :
       runs' = Append(runs, [status |-> "running", full |-> full, found |-> 0,
                             anomaly |-> FALSE])
  /\ open' = open \cup {Len(runs')}

\* The process of a run dies.
Killed(i) ==
  /\ open' = open \ {i}
  /\ UNCHANGED runs

-----------------------------------------------------------------------------
\* Mutant of Yardstick: capped runs count as well.
YardstickWithCapped(log, i) == log[i].status = "ok" /\ log[i].found > 0

\* What trailing_yield averages over.
Yardstick(log, i) == log[i].status = "ok" /\ log[i].found > 0 /\ log[i].full

\* ORDER BY started_at DESC LIMIT runs.
Recent(log) ==
  LET good == {i \in DOMAIN log : Yardstick(log, i)}
  IN  {i \in good : Cardinality({j \in good : j > i}) < Window}

\* items_found < AVG * YIELD_ANOMALY_RATIO, the ratio being one half.
BelowHalfOfMean(found, log) ==
  2 * found * Cardinality(Recent(log)) < MapThenSumSet(LAMBDA i : log[i].found, Recent(log))

\* Mutant of IsAnomalous: a capped run is compared as well.
IsAnomalousCapped(status, full, found, log) ==
  status = "failed" \/ found = 0 \/ BelowHalfOfMean(found, log)

\* With no baseline both sides of the comparison are 0.
IsAnomalous(status, full, found, log) ==
  \/ status = "failed"
  \/ found = 0
  \/ full /\ BelowHalfOfMean(found, log)

\* _finalize, one transaction: the baseline is read, the verdict reached
\* and the row closed.
Finalize(i) ==
  /\ \E status \in Outcomes, found \in Yields :
       runs' = [runs EXCEPT ![i] =
                  [status |-> status, full |-> runs[i].full, found |-> found,
                   anomaly |-> IsAnomalous(status, runs[i].full, found, runs)]]
  /\ open' = open \ {i}

YieldNext ==
  \/ StartRun
  \/ \E i \in open : Finalize(i) \/ Killed(i)

YieldSpec == YieldInit /\ [][YieldNext]_yieldVars

-----------------------------------------------------------------------------
(***************************************************************************)
(* The types, and that a row is "running" as long as its process is alive. *)
(***************************************************************************)
YieldTypeOK ==
  /\ runs \in Seq(Row)
  /\ open \subseteq DOMAIN runs
  /\ \A i \in open : runs[i].status = "running"

(***************************************************************************)
(* migrations/003_full_sweep_flag.sql: no false anomaly.  A run that found *)
(* something and did not fail is flagged only if it is a full sweep and    *)
(* some other full, successful sweep found more than twice as much,        *)
(* whatever capped, failed, partial and unfinished runs lie between.       *)
(***************************************************************************)
NoFalseAlarm ==
  \A i \in DOMAIN runs :
    runs[i].anomaly /\ runs[i].status # "failed" /\ runs[i].found > 0 =>
      /\ runs[i].full
      /\ \E j \in DOMAIN runs \ {i} :
           /\ runs[j].status = "ok" /\ runs[j].full
           /\ runs[j].found > 2 * runs[i].found

\* The full sweeps that closed "ok" with something found, the latest Window
\* of them.
LatestSweeps ==
  LET sweeps == {i \in DOMAIN runs :
                   runs[i].full /\ runs[i].status = "ok" /\ runs[i].found # 0}
  IN  {i \in sweeps : Cardinality({j \in sweeps : i < j}) < Window}

(***************************************************************************)
(* The same file: no hidden collapse.  A full sweep that closes with less  *)
(* than a quarter of what half of the latest sweeps found is flagged: one  *)
(* collapsed run among them, or any number of capped ones, does not drag   *)
(* the baseline down far enough to hide the next.                          *)
(***************************************************************************)
CollapseIsFlagged ==
  [][\A i \in open :
       LET closed == runs'[i]
           richer == {j \in LatestSweeps : runs[j].found > 4 * closed.found}
       IN  /\ closed.status # "running"
           /\ closed.full
           /\ LatestSweeps # {}
           /\ 2 * Cardinality(richer) >= Cardinality(LatestSweeps)
           => closed.anomaly]_yieldVars

(***************************************************************************)
(* crawl/runner.py, of MIN_RUNS_FOR_BASELINE: below three runs of history  *)
(* the average is not yet meaningful.  So a run that found something and   *)
(* did not fail is flagged only when there are three successful sweeps     *)
(* besides it.                                                             *)
(***************************************************************************)
NoVerdictWithoutHistory ==
  \A i \in DOMAIN runs :
    runs[i].anomaly /\ runs[i].status # "failed" /\ runs[i].found > 0 =>
      Cardinality({j \in DOMAIN runs \ {i} :
                     runs[j].status = "ok" /\ runs[j].full /\ runs[j].found > 0}) >= 3
=============================================================================
