----------------------------- MODULE DurableRun -----------------------------
(***************************************************************************)
(* Durable execution checkpoints and their recovery.                       *)
(*                                                                         *)
(* A plain sub-agent, an execution graph or an orchestrate script keeps a  *)
(* checkpoint row while it works.  A recovery pass, at boot over every     *)
(* running row and later over the rows whose heartbeat has lapsed,         *)
(* replaces a row it takes for crashed by a new one (the claim), mints a   *)
(* lease and starts the run again; what cannot be resumed is orphaned.     *)
(* An operator kills a whole tree; the daemon dies at any point.           *)
(*                                                                         *)
(* One tree (one root run) is modelled: no statement relates two roots.    *)
(* A checkpoint is a pair of a run and a generation; the runner's own rows *)
(* and the replacements of a claim are the generations of one run.  The    *)
(* SQLite store is synchronous and a pass awaits nothing else between the  *)
(* re-read of a row and the call of resumeRun, so those are one step; the  *)
(* arms of resumeRun wait for files, and anything can happen meanwhile.    *)
(* Time is abstracted to whether a heartbeat is within the threshold.      *)
(***************************************************************************)
EXTENDS Naturals, FiniteSets

CONSTANTS
    Plain, Graph, Script,  \* the runs of the tree, by kind
    MaxGen,                \* bound: checkpoints of one run
    MaxLaunch,             \* bound: launches of one script by its callers
    MaxReanchor,           \* claims without progress before giving up (3)
    MaxRestarts            \* bound: restarts of the daemon

ASSUME KindsDisjoint ==
    Plain \cap Graph = {} /\ Plain \cap Script = {} /\ Graph \cap Script = {}
ASSUME BoundsAssumption ==
    MaxGen \in Nat /\ MaxLaunch \in Nat /\ MaxReanchor \in Nat \ {0} /\ MaxRestarts \in Nat

Run == Plain \cup Graph \cup Script
Gen == 0 .. MaxGen
Id  == Run \X Gen
Nobody == <<"nobody", 0>>

ASSUME NobodyAssumption == Nobody \notin Id

Of(kind) == kind \X Gen

\* "superseded" is status completed with that terminal reason.
RowStatus == {"absent", "running", "completed", "superseded", "orphaned", "revoked"}
Row == [status : RowStatus, beat : {"fresh", "stale"}, by : {"runner", "engine"}]

VARIABLES
    row,       \* durable_run_checkpoints
    revoked,   \* the root's tombstone
    live,      \* executions at work, by the checkpoint they write
    ending,    \* ended executions whose terminal write is still to come
    producer,  \* graphs whose completion announcement this process owns
    lease,     \* leases minted for resumed checkpoints
    reanchor,  \* consecutive claims at an unchanged heartbeat
    boot,      \* boot recovery: due, running or done
    todo,      \* rows the running pass has still to look at
    at,        \* the replacement whose resumeRun is awaited
    restarts

store   == <<row, revoked>>
process == <<live, ending, producer, lease, reanchor>>
pass    == <<boot, todo, at>>
vars    == <<store, process, pass, restarts>>

TypeOK ==
    /\ row \in [Id -> Row]
    /\ revoked \in BOOLEAN
    /\ live \in SUBSET Id
    /\ ending \in SUBSET Id
    /\ producer \in SUBSET Graph
    /\ lease \in SUBSET Id
    /\ reanchor \in [Id -> 0 .. MaxReanchor]
    /\ boot \in {"due", "running", "done"}
    /\ todo \in SUBSET Id
    /\ at \in Id \cup {Nobody}
    /\ restarts \in 0 .. MaxRestarts

Init ==
    /\ row = [i \in Id |-> [status |-> "absent", beat |-> "fresh", by |-> "runner"]]
    /\ revoked = FALSE
    /\ live = {} /\ ending = {} /\ producer = {} /\ lease = {}
    /\ reanchor = [i \in Id |-> 0]
    /\ boot = "due" /\ todo = {} /\ at = Nobody
    /\ restarts = 0

-----------------------------------------------------------------------------
(* The store's statements, on the table t.                                 *)

Running(t) == {i \in Id : t[i].status = "running"}

\* The generation a new checkpoint of r gets: one that is not in the table, or
\* none within the bound.
Unused(r) == {g \in Gen : row[<<r, g>>].status = "absent"}
NextGen(r) == IF Unused(r) = {} THEN MaxGen + 1 ELSE CHOOSE g \in Unused(r) : TRUE

\* upsertCheckpoint refuses a revoked root; a terminal row keeps its contents
\* although the call reports success.
CanUpsert == ~revoked

Upsert(t, i) ==
    IF t[i].status \in {"absent", "running"}
    THEN [t EXCEPT ![i].status = "running", ![i].beat = "fresh"]
    ELSE t

\* UPDATE ... SET status WHERE checkpoint_id = i AND status = 'running'.
Retire(t, i, status) ==
    IF t[i].status = "running" THEN [t EXCEPT ![i].status = status] ELSE t

\* The recovery pass gives a run up: the row is orphaned, the operator told.
Orphan(t, i) == Retire(t, i, "orphaned")

\* Mutant: the source of a claim is left as it was.
SupersedeKept(t, i, j, by) ==
    [t EXCEPT ![j] = [status |-> "running", beat |-> t[i].beat, by |-> by]]

\* claimForResume: one transaction retires i and inserts its replacement j,
\* which inherits the heartbeat.
Supersede(t, i, j, by) ==
    [t EXCEPT ![i].status = "superseded",
              ![j] = [status |-> "running", beat |-> t[i].beat, by |-> by]]

CanClaim(i) == row[i].status = "running" /\ ~revoked

-----------------------------------------------------------------------------
(* The runners.                                                            *)

\* reserveGraphAnnouncementProducer: this process takes over a graph's
\* announcement, unless a graph at work here has it.
Reserve(g) == g \notin producer /\ producer' = producer \cup {g}

\* A run begins once its first checkpoint is written; a script also without.
Submit(r) ==
    LET i == <<r, 0>>
    IN  /\ boot = "done"
        /\ row[i].status = "absent" /\ i \notin live
        /\ \/ CanUpsert /\ row' = Upsert(row, i)
           \/ r \in Script /\ UNCHANGED row
        /\ live' = live \cup {i}
        /\ IF r \in Graph THEN Reserve(r) ELSE UNCHANGED producer
        /\ UNCHANGED <<revoked, ending, lease, reanchor, pass, restarts>>

\* A running heartbeat: the keep-alive of a sub-agent or script, a graph's
\* checkpoint at a node boundary.
Refresh(i) ==
    /\ i \in live
    /\ row[i].status = "running"
    /\ CanUpsert
    /\ row' = Upsert(row, i)
    /\ reanchor' = [reanchor EXCEPT ![i] = 0]
    /\ UNCHANGED <<revoked, live, ending, producer, lease, pass, restarts>>

\* The threshold passes.  The keep-alive of a live sub-agent or script beats
\* several times within it; a graph whose nodes are all at work does not.
HeartbeatLapses(i) ==
    /\ row[i].status = "running" /\ row[i].beat = "fresh"
    /\ i \in live => i \in Of(Graph)
    /\ row' = [row EXCEPT ![i].beat = "stale"]
    /\ UNCHANGED <<revoked, process, pass, restarts>>

\* A sub-agent or a graph ends; a graph first writes its last checkpoint and
\* awaits the delivery of its announcement.
Finish(i) ==
    /\ i \in live \ Of(Script)
    /\ \/ i \in Of(Plain) /\ UNCHANGED row
       \/ i \in Of(Graph) /\ CanUpsert /\ row' = Upsert(row, i)
    /\ live' = live \ {i}
    /\ ending' = ending \cup {i}
    /\ UNCHANGED <<revoked, producer, lease, reanchor, pass, restarts>>

\* The terminal write: refused on a row completed for another reason, retried
\* for a sub-agent, not for a graph.
Terminalize(i) ==
    /\ i \in ending
    /\ \/ row[i].status # "superseded" /\ row' = Retire(row, i, "completed")
       \/ i \in Of(Graph) /\ UNCHANGED row
    /\ ending' = ending \ {i}
    /\ producer' = producer \ {i[1]}
    /\ UNCHANGED <<revoked, live, lease, reanchor, pass, restarts>>

\* A script ends, or times out and is kept for an explicit resume; a failed
\* write is only logged.
FinishScript(i) ==
    /\ i \in live \cap Of(Script)
    /\ live' = live \ {i}
    /\ \/ row' = Retire(row, i, "completed") /\ UNCHANGED reanchor
       \/ /\ CanUpsert
          /\ row' = Upsert(row, i)
          /\ reanchor' = [reanchor EXCEPT ![i] = 0]
       \/ UNCHANGED <<row, reanchor>>
    /\ UNCHANGED <<revoked, ending, producer, lease, pass, restarts>>

Launches(r) ==
    {g \in Gen : row[<<r, g>>].status # "absent" /\ row[<<r, g>>].by = "runner"}

\* An explicit resume that failed after its claim: the source is used up already,
\* so the replacement is quarantined.
SettleClaimedResumeFailure(t, j) == Retire(t, j, "orphaned")

\* orchestrate({resumeRunId}): the caller names a run it was told of; the tool's
\* answer carries the id, so that run's process has ended.
ResumeScript(i) ==
    LET j == <<i[1], NextGen(i[1])>>
    IN  /\ boot = "done"
        /\ i \in Of(Script) /\ row[i].by = "runner" /\ i \notin live
        /\ CanClaim(i)
        /\ Cardinality(Launches(i[1])) < MaxLaunch /\ j \in Id
        /\ \/ /\ row' = Upsert(Supersede(row, i, j, "runner"), j)
              /\ live' = live \cup {j}
           \/ /\ row' = SettleClaimedResumeFailure(Supersede(row, i, j, "runner"), j)
              /\ UNCHANGED live
        /\ UNCHANGED <<revoked, ending, producer, lease, reanchor, pass, restarts>>

-----------------------------------------------------------------------------
(* The recovery pass: single-flight, at boot and on the watchdog's ticks.  *)

PassIdle == todo = {} /\ at = Nobody

\* Boot recovery takes every running row.
BootScan ==
    /\ boot = "due"
    /\ boot' = "running"
    /\ todo' = Running(row)
    /\ UNCHANGED <<store, process, at, restarts>>

BootDone ==
    /\ boot = "running" /\ PassIdle
    /\ boot' = "done"
    /\ UNCHANGED <<store, process, todo, at, restarts>>

\* Mutant: the watchdog sweeps every running row.
DetectRunning == Running(row)

\* detectStaleRuns.
DetectStaleRuns == {i \in Running(row) : row[i].beat = "stale"}

WatchdogScan ==
    /\ boot = "done" /\ PassIdle
    /\ DetectStaleRuns # {}
    /\ todo' = DetectStaleRuns
    /\ UNCHANGED <<store, process, boot, at, restarts>>

\* The store failed or the recovery budget is spent.
PassStops ==
    /\ todo # {} /\ at = Nobody
    /\ todo' = {}
    /\ UNCHANGED <<store, process, boot, at, restarts>>

\* Mutant: the replacement starts with a clean count.
CarriedCountLost(i) == 0

\* The no-progress count a replacement inherits.
CarriedCount(i) == reanchor[i] + 1

\* The claim: the replacement is blocked by an uncertain outward send, or it
\* gets a lease and its resumeRun is called.
Claim(i) ==
    LET j       == <<i[1], NextGen(i[1])>>
        claimed == Supersede(row, i, j, "engine")
    IN  /\ reanchor' = [reanchor EXCEPT ![i] = @ + 1, ![j] = CarriedCount(i)]
        /\ \/ /\ row' = Orphan(claimed, j)
              /\ UNCHANGED <<lease, at>>
           \/ /\ row' = claimed
              /\ lease' = lease \cup {j}
              /\ at' = j

\* Mutant: nothing counts the claims that bring no progress.
RecoverUncapped(i) ==
    /\ at = Nobody
    /\ i \in todo
    /\ NextGen(i[1]) \in Gen
    /\ todo' = todo \ {i}
    /\ CanClaim(i) /\ Claim(i)
    /\ UNCHANGED <<revoked, live, ending, producer, boot, restarts>>

\* One candidate of the pass, up to the call of resumeRun.  It is orphaned when
\* it cannot be re-read or was claimed too often at the same heartbeat; that
\* write leaves a row alone that has stopped running since the scan.
Recover(i) ==
    /\ at = Nobody
    /\ i \in todo
    /\ NextGen(i[1]) \in Gen
    /\ todo' = todo \ {i}
    /\ \/ row' = Orphan(row, i) /\ UNCHANGED <<lease, reanchor, at>>
       \/ CanClaim(i) /\ reanchor[i] < MaxReanchor /\ Claim(i)
    /\ UNCHANGED <<revoked, live, ending, producer, boot, restarts>>

\* resumeRun failed: the lease is revoked and the replacement orphaned.
ResumeFails ==
    /\ at # Nobody
    /\ row' = Orphan(row, at)
    /\ lease' = lease \ {at}
    /\ at' = Nobody
    /\ UNCHANGED <<revoked, live, ending, producer, reanchor, boot, todo, restarts>>

\* The execution is admitted under its replacement's first checkpoint.
Admit ==
    /\ row' = Upsert(row, at)
    /\ live' = live \cup {at}
    /\ reanchor' = [reanchor EXCEPT ![at] = 0]

\* Mutant: the store's answer to the first checkpoint is not awaited.
ResumePlainUnchecked ==
    /\ at \in Of(Plain)
    /\ Admit
    /\ at' = Nobody
    /\ UNCHANGED <<revoked, ending, producer, lease, boot, todo, restarts>>

\* resumePlain: the sub-agent is spawned again under the replacement's id.
ResumePlain ==
    /\ at \in Of(Plain)
    /\ CanUpsert
    /\ Admit
    /\ at' = Nobody
    /\ UNCHANGED <<revoked, ending, producer, lease, boot, todo, restarts>>

\* resumeGraph: a graph whose announcement is in other hands, those of a graph at
\* work in this process or, since before a restart, of the dead-letter queue, is
\* only completed; otherwise its unfinished nodes start again.
ResumeGraph ==
    /\ at \in Of(Graph)
    /\ \/ /\ row' = Retire(row, at, "completed")
          /\ producer' \in {producer, producer \ {at[1]}}
          /\ UNCHANGED <<live, reanchor>>
       \/ Reserve(at[1]) /\ CanUpsert /\ Admit
    /\ at' = Nobody
    /\ UNCHANGED <<revoked, ending, lease, boot, todo, restarts>>

\* The orchestrate arm only verifies the pinned files and registers the root.
ResumeOrchestrate ==
    /\ at \in Of(Script)
    /\ at' = Nobody
    /\ UNCHANGED <<store, process, boot, todo, restarts>>

-----------------------------------------------------------------------------
(* The operator and the environment.                                       *)

\* killSpawnTree: graphs and sub-agents stop, every lease of the root goes,
\* then the root is tombstoned, unless that write fails.
Kill ==
    /\ live # {} \/ lease # {} \/ Running(row) # {}
    /\ boot = "done"
    /\ ~revoked
    /\ live' = live \cap Of(Script)
    /\ ending' = ending \cup (live \ Of(Script))
    /\ UNCHANGED producer
    /\ lease' = {}
    /\ \/ /\ revoked' = TRUE
          /\ row' = [i \in Id |-> Retire(row, i, "revoked")[i]]
       \/ UNCHANGED <<revoked, row>>
    /\ UNCHANGED <<reanchor, pass, restarts>>

\* The daemon dies and starts again.
Restart ==
    /\ restarts < MaxRestarts
    /\ restarts' = restarts + 1
    /\ live' = {} /\ ending' = {} /\ producer' = {} /\ lease' = {}
    /\ reanchor' = [i \in Id |-> 0]
    /\ boot' = "due" /\ todo' = {} /\ at' = Nobody
    /\ UNCHANGED store

Work(i) ==
    \/ Refresh(i) \/ Finish(i) \/ Terminalize(i)
    \/ FinishScript(i) \/ ResumeScript(i)

ResumeEnds == ResumeFails \/ ResumePlain \/ ResumeGraph \/ ResumeOrchestrate

Next ==
    \/ \E r \in Run : Submit(r)
    \/ \E i \in Id : Work(i) \/ HeartbeatLapses(i) \/ Recover(i)
    \/ BootScan \/ BootDone \/ WatchdogScan \/ PassStops \/ ResumeEnds
    \/ Kill \/ Restart

Spec == Init /\ [][Next]_vars

\* Boot recovery runs, the watchdog keeps ticking, a resume attempt comes to an
\* end and the budget lets every run be looked at some time (a run has at most one
\* running row, see OneRunningRow).
FairSpec ==
    /\ Spec
    /\ WF_vars(BootScan) /\ WF_vars(BootDone) /\ WF_vars(WatchdogScan)
    /\ WF_vars(ResumeEnds)
    /\ \A r \in Run : /\ WF_vars(\E g \in Gen : HeartbeatLapses(<<r, g>>))
                      /\ SF_vars(\E g \in Gen : Recover(<<r, g>>))

-----------------------------------------------------------------------------
(* Properties.                                                             *)

\* Whoever claims a run, the watchdog, the boot pass or an explicit resume, its
\* checkpoints never have two running rows: the claim is atomic.
OneRunningRow ==
    \A i, j \in Running(row) : i[1] = j[1] => i = j

\* A sub-agent or script works at most once at a time: no recovery starts
\* a second execution of one that is alive.
OneExecution ==
    \A i, j \in live \ Of(Graph) : i[1] = j[1] => i = j

\* A killed tree stays dead: once the root is tombstoned nothing of it runs, no
\* row is resumable and no re-minted lease survives, although a resume may have
\* been under way.  (A script's process ends on its own.)
RevokedIsDead ==
    revoked => live \subseteq Of(Script) /\ Running(row) = {} /\ lease = {}

\* A sub-agent at work keeps a running checkpoint, so that a crash now would be
\* recovered: recovery neither claims nor orphans it.
LiveIsRecoverable == \A i \in live \cap Of(Plain) : row[i].status = "running"

\* As the configuration reference has it, a live run stamps its heartbeat however
\* long a child takes and never looks stale: recovery does not replace the
\* checkpoint of a graph at work.
LiveGraphNotReplaced ==
    \A i \in live \cap Of(Graph) : row[i].status # "superseded"

\* No row stays running for a run nobody executes: it is resumed, completed or
\* orphaned, and the orphaning is what the no-progress count is for.
Ghost(r) ==
    /\ \E i \in Running(row) : i[1] = r
    /\ \A i \in live : i[1] # r

NoGhost == \A r \in Run : Ghost(r) ~> ~Ghost(r)
=============================================================================
