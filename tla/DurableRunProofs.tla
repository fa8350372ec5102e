-------------------------- MODULE DurableRunProofs --------------------------
(***************************************************************************)
(* Proofs about DurableRun, for every number of runs, checkpoints and      *)
(* restarts: a run never has two running rows, a killed tree stays dead,   *)
(* no run is executed twice at a time, and a sub-agent at work keeps its   *)
(* running row.                                                            *)
(*                                                                         *)
(* OneRunningRow is not inductive alone.  A script may be at work without  *)
(* a row, and its last write then inserts one: no other checkpoint of the  *)
(* run may be running at that moment, because a run whose first checkpoint *)
(* is missing has none (Anchored), and only the first launch of a script   *)
(* can be without (Recorded).                                              *)
(***************************************************************************)
EXTENDS DurableRun, TLAPS

OneRunning(t) ==
    \A i, j \in Id :
        t[i].status = "running" /\ t[j].status = "running" /\ i[1] = j[1] => i = j

\* A run with a row has the row of its first checkpoint.
Anchored(t) ==
    \A i \in Id : t[i].status # "absent" => t[<<i[1], 0>>].status # "absent"

Table(t) == t \in [Id -> Row] /\ OneRunning(t) /\ Anchored(t)

\* Rows are never deleted.
Grows(t, u) == \A i \in Id : t[i].status # "absent" => u[i].status # "absent"

\* Who may lack a row: the first launch of a script.
Recorded ==
    /\ \A i \in live : row[i].status = "absent" => i \in Of(Script) /\ i[2] = 0
    /\ at # Nobody => row[at].status # "absent"

IndInv == TypeOK /\ Table(row) /\ Recorded

-----------------------------------------------------------------------------
(* Lemmas about the store's statements.                                    *)

\* The first checkpoint of a run is a checkpoint.
LEMMA FirstIsId == ASSUME NEW r \in Run PROVE <<r, 0>> \in Id
  BY BoundsAssumption DEF Id, Gen

\* An upsert of a row that exists changes no status.
LEMMA UpsertKnown ==
  ASSUME NEW t, Table(t), NEW i \in Id, t[i].status # "absent"
  PROVE  Table(Upsert(t, i)) /\ Grows(t, Upsert(t, i))
<1>1. Upsert(t, i) \in [Id -> Row]
  BY DEF Table, Upsert, Row, RowStatus
<1>2. \A k \in Id : Upsert(t, i)[k].status = t[k].status
  BY DEF Table, Upsert, Row, RowStatus
<1>3. QED
  BY <1>1, <1>2, FirstIsId DEF Table, Grows, OneRunning, Anchored, Id

\* An upsert of the first checkpoint of a run without rows inserts its only row.
LEMMA UpsertFirst ==
  ASSUME NEW t, Table(t), NEW r \in Run, t[<<r, 0>>].status = "absent"
  PROVE  /\ Table(Upsert(t, <<r, 0>>)) /\ Grows(t, Upsert(t, <<r, 0>>))
         /\ Upsert(t, <<r, 0>>)[<<r, 0>>].status = "running"
<1> DEFINE i == <<r, 0>>
           u == Upsert(t, i)
<1>1. i \in Id
  BY FirstIsId
<1>2. u = [t EXCEPT ![i] = [@ EXCEPT !.status = "running", !.beat = "fresh"]]
  BY <1>1 DEF Upsert, Table
<1> HIDE DEF i, u
<1>3. u \in [Id -> Row] /\ u[i].status = "running"
  <2>1. t[i] \in Row
    BY <1>1 DEF Table
  <2>2. [t[i] EXCEPT !.status = "running", !.beat = "fresh"] \in Row
    BY <2>1 DEF Row, RowStatus
  <2>3. [t[i] EXCEPT !.status = "running", !.beat = "fresh"].status = "running"
    BY <2>1 DEF Row
  <2>4. QED
    BY <1>1, <1>2, <2>2, <2>3 DEF Table
<1>4. \A k \in Id \ {i} : u[k] = t[k]
  BY <1>1, <1>2 DEF Table
<1> USE DEF i
<1>5. \A k \in Id : k[1] = r => t[k].status = "absent"
  BY DEF Table, Anchored
<1>6. OneRunning(u)
  BY <1>1, <1>3, <1>4, <1>5 DEF Table, OneRunning
<1>7. Anchored(u)
  <2> SUFFICES ASSUME NEW k \in Id, u[k].status # "absent"
               PROVE  u[<<k[1], 0>>].status # "absent"
    BY DEF Anchored
  <2> <<k[1], 0>> \in Id
    BY FirstIsId DEF Id
  <2>1. CASE k[1] = r
    BY <2>1, <1>3
  <2>2. CASE k[1] # r
    BY <2>2, <1>1, <1>4 DEF Table, Anchored
  <2>3. QED
    BY <2>1, <2>2
<1>8. Grows(t, u)
  BY <1>3, <1>4 DEF Grows
<1>9. QED
  BY <1>3, <1>6, <1>7, <1>8 DEF Table, u

\* Ending a row that runs makes no row run.
LEMMA RetireKeeps ==
  ASSUME NEW t, Table(t), NEW i \in Id,
         NEW s \in {"completed", "orphaned", "revoked"}
  PROVE  Table(Retire(t, i, s)) /\ Grows(t, Retire(t, i, s))
<1> DEFINE u == Retire(t, i, s)
<1>1. u \in [Id -> Row]
  BY DEF Table, Retire, Row, RowStatus
<1>2. \A k \in Id : /\ u[k].status = "absent" <=> t[k].status = "absent"
                    /\ u[k].status = "running" => t[k].status = "running"
  BY DEF Table, Retire, Row, RowStatus
<1>3. QED
  BY <1>1, <1>2, FirstIsId DEF Table, Grows, OneRunning, Anchored, Id

\* A claim moves the running row of a run to a new checkpoint.
LEMMA SupersedeMoves ==
  ASSUME NEW t, Table(t), NEW i \in Id, NEW j \in Id, NEW by \in {"runner", "engine"},
         t[i].status = "running", t[j].status = "absent", i[1] = j[1]
  PROVE  /\ Table(Supersede(t, i, j, by)) /\ Grows(t, Supersede(t, i, j, by))
         /\ Supersede(t, i, j, by)[j].status = "running"
<1> DEFINE u == Supersede(t, i, j, by)
<1>1. i # j
  OBVIOUS
<1>2. u \in [Id -> Row] /\ u[j].status = "running" /\ u[i].status = "superseded"
  BY <1>1 DEF Table, Supersede, Row, RowStatus
<1>3. \A k \in Id \ {i, j} : u[k] = t[k]
  BY DEF Table, Supersede
<1>4. OneRunning(u)
  BY <1>2, <1>3 DEF Table, OneRunning
<1>5. Grows(t, u)
  BY <1>2, <1>3 DEF Grows
<1>6. Anchored(u)
  <2> SUFFICES ASSUME NEW k \in Id, u[k].status # "absent"
               PROVE  u[<<k[1], 0>>].status # "absent"
    BY DEF Anchored
  <2>1. <<k[1], 0>> \in Id
    BY FirstIsId DEF Id
  <2>2. t[<<k[1], 0>>].status # "absent"
    BY <1>3 DEF Table, Anchored
  <2>3. QED
    BY <1>5, <2>1, <2>2 DEF Grows
<1>7. QED
  BY <1>2, <1>4, <1>5, <1>6 DEF Table

\* A new checkpoint is not in the table.
LEMMA NextGenUnused ==
  ASSUME NEW r \in Run, NextGen(r) \in Gen
  PROVE  <<r, NextGen(r)>> \in Id /\ row[<<r, NextGen(r)>>].status = "absent"
<1>1. Unused(r) # {}
  BY BoundsAssumption DEF NextGen, Gen
<1>2. NextGen(r) \in Unused(r)
  BY <1>1 DEF NextGen
<1>3. QED
  BY <1>2 DEF Unused, Id

-----------------------------------------------------------------------------
(* The inductive invariant.                                                *)

\* A row once written stays, so what has a row keeps it.
LEMMA RecordedKept ==
  ASSUME IndInv, Grows(row, row'), row' \in [Id -> Row],
         live' \in SUBSET Id,
         \A i \in live' \ live : row'[i].status # "absent",
         at' \in {at, Nobody}
  PROVE  Recorded'
  BY DEF IndInv, TypeOK, Recorded, Grows

\* The empty table satisfies the invariant.
LEMMA InitInd == Init => IndInv
<1> SUFFICES ASSUME Init PROVE IndInv
  OBVIOUS
<1>1. TypeOK
  <2>1. row \in [Id -> Row]
    BY DEF Init, Row, RowStatus
  <2>2. reanchor \in [Id -> 0 .. MaxReanchor] /\ restarts \in 0 .. MaxRestarts
    BY BoundsAssumption DEF Init
  <2>3. QED
    BY <2>1, <2>2 DEF Init, TypeOK
<1>2. Table(row)
  BY <1>1 DEF Init, TypeOK, Table, OneRunning, Anchored
<1>3. QED
  BY <1>1, <1>2 DEF Init, IndInv, Recorded

\* A first checkpoint is written where the run has none, so it is the only running one.
LEMMA SubmitInd == ASSUME IndInv, NEW r \in Run, Submit(r) PROVE IndInv'
<1> DEFINE i == <<r, 0>>
<1>1. i \in Id /\ row[i].status = "absent"
  BY FirstIsId DEF Submit
<1>2. live' = live \cup {i} /\ at' = at
  BY DEF Submit, pass
<1>3. CASE CanUpsert /\ row' = Upsert(row, i)
  <2>1. Table(row') /\ Grows(row, row') /\ row'[i].status = "running"
    BY <1>1, <1>3, UpsertFirst DEF IndInv
  <2>2. TypeOK'
    <3>1. producer' \in SUBSET Graph
      BY DEF IndInv, TypeOK, Submit, Reserve
    <3>2. QED
      BY <1>1, <2>1, <3>1 DEF IndInv, TypeOK, Table, Submit, pass
  <2>3. Recorded'
    BY <1>1, <1>2, <2>1, <2>2, RecordedKept DEF Table, TypeOK
  <2>4. QED
    BY <2>1, <2>2, <2>3 DEF IndInv
<1>4. CASE r \in Script /\ UNCHANGED row
  <2>1. TypeOK'
    BY <1>1, <1>4 DEF IndInv, TypeOK, Submit, Reserve, pass
  <2>2. i \in Of(Script) /\ i[2] = 0
    BY <1>1, <1>4 DEF Of, Id
  <2>3. Recorded'
    BY <1>2, <1>4, <2>2 DEF IndInv, Recorded
  <2>4. QED
    BY <1>4, <2>1, <2>3 DEF IndInv
<1>5. QED
  BY <1>3, <1>4 DEF Submit

\* A heartbeat rewrites a row that is already running.
LEMMA RefreshInd == ASSUME IndInv, NEW i \in Id, Refresh(i) PROVE IndInv'
<1>1. Table(row') /\ Grows(row, row')
  BY UpsertKnown DEF IndInv, Refresh
<1>2. TypeOK'
  <2>1. reanchor' \in [Id -> 0 .. MaxReanchor]
    BY BoundsAssumption DEF IndInv, TypeOK, Refresh
  <2>2. QED
    BY <1>1, <2>1 DEF IndInv, TypeOK, Table, Refresh, pass
<1>3. Recorded'
  BY <1>1, <1>2, RecordedKept DEF Refresh, pass, Table, TypeOK
<1>4. QED
  BY <1>1, <1>2, <1>3 DEF IndInv

\* The lapse of a heartbeat changes no status.
LEMMA LapseInd == ASSUME IndInv, NEW i \in Id, HeartbeatLapses(i) PROVE IndInv'
<1>1. row' \in [Id -> Row] /\ \A k \in Id : row'[k].status = row[k].status
  BY DEF IndInv, TypeOK, HeartbeatLapses, Row, RowStatus
<1>2. Table(row') /\ Grows(row, row')
  BY <1>1, FirstIsId DEF IndInv, Table, OneRunning, Anchored, Grows, Id
<1>3. TypeOK'
  BY <1>1 DEF IndInv, TypeOK, HeartbeatLapses, process, pass
<1>4. Recorded'
  BY <1>1, <1>2, <1>3, RecordedKept DEF HeartbeatLapses, process, pass, TypeOK
<1>5. QED
  BY <1>2, <1>3, <1>4 DEF IndInv

\* A graph's last checkpoint rewrites a row its execution already owns.
LEMMA FinishInd == ASSUME IndInv, NEW i \in Id, Finish(i) PROVE IndInv'
<1>1. CASE UNCHANGED row
  <2>1. TypeOK'
    BY <1>1 DEF IndInv, TypeOK, Finish, pass
  <2>2. QED
    BY <1>1, <2>1 DEF IndInv, Finish, pass, Recorded
<1>2. CASE i \in Of(Graph) /\ row' = Upsert(row, i)
  <2>1. row[i].status # "absent"
    BY <1>2, KindsDisjoint DEF IndInv, Recorded, Finish, Of
  <2>2. Table(row') /\ Grows(row, row')
    BY <1>2, <2>1, UpsertKnown DEF IndInv
  <2>3. TypeOK'
    BY <2>2 DEF IndInv, TypeOK, Table, Finish, pass
  <2>4. Recorded'
    BY <2>2, <2>3, RecordedKept DEF Finish, pass, Table, TypeOK
  <2>5. QED
    BY <2>2, <2>3, <2>4 DEF IndInv
<1>3. QED
  BY <1>1, <1>2 DEF Finish

\* The terminal write can only retire a row.
LEMMA TerminalizeInd == ASSUME IndInv, NEW i \in Id, Terminalize(i) PROVE IndInv'
<1>1. Table(row') /\ Grows(row, row')
  BY RetireKeeps DEF IndInv, Terminalize, Grows
<1>2. TypeOK'
  BY <1>1 DEF IndInv, TypeOK, Table, Terminalize, pass
<1>3. Recorded'
  BY <1>1, <1>2, RecordedKept DEF Terminalize, pass, Table, TypeOK
<1>4. QED
  BY <1>1, <1>2, <1>3 DEF IndInv

\* A script completes its row, keeps it for a resume, or loses the write.
LEMMA FinishScriptInd == ASSUME IndInv, NEW i \in Id, FinishScript(i) PROVE IndInv'
<1>1. Table(row') /\ Grows(row, row')
  <2>1. CASE row' = Retire(row, i, "completed")
    BY <2>1, RetireKeeps DEF IndInv
  <2>2. CASE row' = Upsert(row, i) /\ row[i].status # "absent"
    BY <2>2, UpsertKnown DEF IndInv
  <2>3. CASE row' = Upsert(row, i) /\ row[i].status = "absent"
    <3>1. i[1] \in Run /\ i = <<i[1], 0>>
      BY <2>3 DEF IndInv, Recorded, FinishScript, Id
    <3>2. QED
      BY <2>3, <3>1, UpsertFirst DEF IndInv
  <2>4. CASE UNCHANGED row
    BY <2>4 DEF IndInv, Grows
  <2>5. QED
    BY <2>1, <2>2, <2>3, <2>4 DEF FinishScript
<1>2. TypeOK'
  BY <1>1, BoundsAssumption DEF IndInv, TypeOK, Table, FinishScript, pass
<1>3. Recorded'
  BY <1>1, <1>2, RecordedKept DEF FinishScript, pass, Table, TypeOK
<1>4. QED
  BY <1>1, <1>2, <1>3 DEF IndInv
\* An explicit resume moves the running row to the replacement.
LEMMA ResumeScriptInd == ASSUME IndInv, NEW i \in Id, ResumeScript(i) PROVE IndInv'
<1> DEFINE j == <<i[1], NextGen(i[1])>>
           u == Supersede(row, i, j, "runner")
<1>1. i[1] \in Run /\ NextGen(i[1]) \in Gen
  BY DEF ResumeScript, Id
<1>2. j \in Id /\ row[j].status = "absent" /\ row[i].status = "running"
  BY <1>1, NextGenUnused DEF ResumeScript, CanClaim
<1> HIDE DEF j
<1>3. j[1] = i[1]
  BY DEF j
<1>4. Table(u) /\ Grows(row, u) /\ u[j].status = "running"
  BY <1>2, <1>3, SupersedeMoves DEF IndInv
<1> HIDE DEF u
<1>5. \/ row' = Upsert(u, j) /\ live' = live \cup {j}
      \/ row' = Retire(u, j, "orphaned") /\ live' = live
  BY DEF ResumeScript, SettleClaimedResumeFailure, u, j
<1>6. Table(row') /\ Grows(u, row')
  BY <1>2, <1>4, <1>5, UpsertKnown, RetireKeeps
<1>7. Grows(row, row') /\ row'[j].status # "absent"
  BY <1>2, <1>4, <1>6 DEF Grows
<1>8. TypeOK'
  BY <1>2, <1>5, <1>6 DEF IndInv, TypeOK, Table, ResumeScript, pass
<1>9. Recorded'
  BY <1>5, <1>6, <1>7, <1>8, RecordedKept DEF ResumeScript, pass, Table, TypeOK
<1>10. QED
  BY <1>6, <1>8, <1>9 DEF IndInv

\* The pass orphans a candidate, or moves its running row to a replacement.
LEMMA RecoverInd == ASSUME IndInv, NEW i \in Id, Recover(i) PROVE IndInv'
<1>1. CASE row' = Retire(row, i, "orphaned") /\ UNCHANGED <<lease, reanchor, at>>
  <2>1. Table(row') /\ Grows(row, row')
    BY <1>1, RetireKeeps DEF IndInv
  <2>2. TypeOK'
    BY <1>1, <2>1 DEF IndInv, TypeOK, Table, Recover
  <2>3. Recorded'
    BY <1>1, <2>1, <2>2, RecordedKept DEF Recover, Table, TypeOK
  <2>4. QED
    BY <2>1, <2>2, <2>3 DEF IndInv
<1>2. CASE CanClaim(i) /\ reanchor[i] < MaxReanchor /\ Claim(i)
  <2> DEFINE j == <<i[1], NextGen(i[1])>>
             u == Supersede(row, i, j, "engine")
  <2>1. i[1] \in Run /\ NextGen(i[1]) \in Gen
    BY DEF Recover, Id
  <2>2. j \in Id /\ row[j].status = "absent" /\ row[i].status = "running"
    BY <1>2, <2>1, NextGenUnused DEF CanClaim
  <2>3. /\ reanchor' = [reanchor EXCEPT ![i] = @ + 1, ![j] = reanchor[i] + 1]
        /\ \/ row' = Retire(u, j, "orphaned") /\ UNCHANGED <<lease, at>>
           \/ row' = u /\ lease' = lease \cup {j} /\ at' = j
    BY <1>2 DEF Claim, CarriedCount, Orphan
  <2>4. j[1] = i[1]
    OBVIOUS
  <2> HIDE DEF j
  <2>5. Table(u) /\ Grows(row, u) /\ u[j].status = "running"
    BY <2>2, <2>4, SupersedeMoves DEF IndInv
  <2> HIDE DEF u
  <2>6. Table(row') /\ Grows(row, row')
    <3>1. CASE row' = u
      BY <2>5, <3>1
    <3>2. CASE row' = Retire(u, j, "orphaned")
      <4>1. Table(row') /\ Grows(u, row')
        BY <2>2, <2>5, <3>2, RetireKeeps
      <4>2. QED
        BY <2>5, <4>1 DEF Grows
    <3>3. QED
      BY <2>3, <3>1, <3>2
  <2>7. reanchor' \in [Id -> 0 .. MaxReanchor]
    BY <1>2, <2>2, <2>3, BoundsAssumption DEF IndInv, TypeOK
  <2>8. TypeOK'
    BY <2>2, <2>3, <2>6, <2>7 DEF IndInv, TypeOK, Table, Recover
  <2>9. Recorded'
    BY <2>2, <2>3, <2>5, <2>6, <2>8
       DEF IndInv, Recorded, Grows, Recover, Table, TypeOK
  <2>10. QED
    BY <2>6, <2>8, <2>9 DEF IndInv
<1>3. QED
  BY <1>1, <1>2 DEF Recover, Orphan

\* Scanning, stopping and ending a pass leave the table alone.
LEMMA PassInd ==
  ASSUME IndInv, BootScan \/ BootDone \/ WatchdogScan \/ PassStops \/ ResumeOrchestrate
  PROVE  IndInv'
<1>1. UNCHANGED <<row, live>> /\ at' \in {at, Nobody}
  BY DEF BootScan, BootDone, WatchdogScan, PassStops, ResumeOrchestrate, store, process
<1>2. TypeOK'
  BY DEF IndInv, TypeOK, BootScan, BootDone, WatchdogScan, PassStops, ResumeOrchestrate,
         DetectStaleRuns, Running, store, process
<1>3. QED
  BY <1>1, <1>2 DEF IndInv, Recorded

\* A failed resume retires the replacement it was for.
LEMMA ResumeFailsInd == ASSUME IndInv, ResumeFails PROVE IndInv'
<1>1. at \in Id
  BY DEF IndInv, TypeOK, ResumeFails
<1>2. Table(row') /\ Grows(row, row')
  BY <1>1, RetireKeeps DEF IndInv, ResumeFails, Orphan
<1>3. TypeOK'
  BY <1>2 DEF IndInv, TypeOK, Table, ResumeFails
<1>4. Recorded'
  BY <1>2, <1>3, RecordedKept DEF ResumeFails, Table, TypeOK
<1>5. QED
  BY <1>2, <1>3, <1>4 DEF IndInv

\* Both resuming arms leave the table well formed and start only what has a row.
LEMMA AdmitTable ==
  ASSUME IndInv, at \in Id, Admit
  PROVE  /\ Table(row') /\ Grows(row, row') /\ row'[at].status # "absent"
         /\ live' = live \cup {at}
         /\ reanchor' \in [Id -> 0 .. MaxReanchor]
<1>1. row[at].status # "absent"
  BY NobodyAssumption DEF IndInv, Recorded
<1>2. Table(row') /\ Grows(row, row')
  BY <1>1, UpsertKnown DEF IndInv, Admit
<1>3. reanchor' \in [Id -> 0 .. MaxReanchor]
  BY BoundsAssumption DEF IndInv, TypeOK, Admit
<1>4. QED
  BY <1>1, <1>2, <1>3 DEF Admit, Grows
\* An accepted resume rewrites, or completes, the replacement it was for.
LEMMA ResumeInd == ASSUME IndInv, ResumePlain \/ ResumeGraph PROVE IndInv'
<1>1. at \in Id /\ at' = Nobody
  BY NobodyAssumption DEF IndInv, TypeOK, ResumePlain, ResumeGraph, Of, Run, Id
<1>2. CASE /\ row' = Retire(row, at, "completed") /\ UNCHANGED <<live, reanchor>>
           /\ producer' \in {producer, producer \ {at[1]}}
           /\ ResumeGraph
  <2>1. Table(row') /\ Grows(row, row')
    BY <1>1, <1>2, RetireKeeps DEF IndInv
  <2>2. TypeOK'
    BY <1>2, <2>1 DEF IndInv, TypeOK, Table, ResumeGraph
  <2>3. Recorded'
    BY <1>1, <1>2, <2>1, <2>2, RecordedKept DEF Table, TypeOK
  <2>4. QED
    BY <2>1, <2>2, <2>3 DEF IndInv
<1>3. CASE Admit
  <2>1. /\ Table(row') /\ Grows(row, row') /\ row'[at].status # "absent"
        /\ live' = live \cup {at}
        /\ reanchor' \in [Id -> 0 .. MaxReanchor]
    BY <1>1, <1>3, AdmitTable
  <2>2. producer' \in SUBSET Graph
    BY <1>3, <1>1, NobodyAssumption
       DEF IndInv, TypeOK, ResumePlain, ResumeGraph, Reserve, Of, Admit, Id
  <2>3. TypeOK'
    BY <1>1, <2>1, <2>2 DEF IndInv, TypeOK, Table, ResumePlain, ResumeGraph
  <2>4. Recorded'
    BY <1>1, <2>1, <2>3, RecordedKept DEF Table, TypeOK
  <2>5. QED
    BY <2>1, <2>3, <2>4 DEF IndInv
<1>4. QED
  BY <1>2, <1>3 DEF ResumePlain, ResumeGraph

\* A kill retires every running row at once, or none when its write fails.
LEMMA KillInd == ASSUME IndInv, Kill PROVE IndInv'
<1>1. Table(row') /\ Grows(row, row')
  <2>1. CASE UNCHANGED row
    BY <2>1 DEF IndInv, Grows
  <2>2. CASE row' = [i \in Id |-> Retire(row, i, "revoked")[i]]
    <3>1. \A k \in Id : Retire(row, k, "revoked")[k] \in Row
      BY DEF IndInv, TypeOK, Retire, Row, RowStatus
    <3>2. row' \in [Id -> Row]
      BY <2>2, <3>1
    <3>3. \A k \in Id : /\ row'[k].status = "absent" <=> row[k].status = "absent"
                        /\ row'[k].status # "running"
      BY <2>2 DEF IndInv, TypeOK, Retire, Row, RowStatus
    <3>4. QED
      BY <3>2, <3>3, FirstIsId DEF IndInv, Table, OneRunning, Anchored, Grows, Id
  <2>3. QED
    BY <2>1, <2>2 DEF Kill
<1>2. TypeOK'
  BY <1>1 DEF IndInv, TypeOK, Table, Kill, pass
<1>3. Recorded'
  BY <1>1, <1>2, RecordedKept DEF Kill, pass, Table, TypeOK
<1>4. QED
  BY <1>1, <1>2, <1>3 DEF IndInv

\* A restart forgets the executions and keeps the table.
LEMMA RestartInd == ASSUME IndInv, Restart PROVE IndInv'
<1>1. reanchor' \in [Id -> 0 .. MaxReanchor] /\ restarts' \in 0 .. MaxRestarts
  BY BoundsAssumption DEF IndInv, TypeOK, Restart
<1>2. TypeOK'
  BY <1>1 DEF IndInv, TypeOK, Restart, store
<1>3. QED
  BY <1>2 DEF IndInv, Recorded, Restart, store

\* Every step keeps the invariant.
LEMMA NextInd == IndInv /\ [Next]_vars => IndInv'
<1> SUFFICES ASSUME IndInv, [Next]_vars PROVE IndInv'
  OBVIOUS
<1>1. CASE UNCHANGED vars
  BY <1>1 DEF vars, store, process, pass, IndInv, TypeOK, Recorded
<1>2. CASE \E r \in Run : Submit(r)
  BY <1>2, SubmitInd
<1>3. CASE \E i \in Id : Work(i)
  BY <1>3, RefreshInd, FinishInd, TerminalizeInd, FinishScriptInd, ResumeScriptInd DEF Work
<1>4. CASE \E i \in Id : HeartbeatLapses(i) \/ Recover(i)
  BY <1>4, LapseInd, RecoverInd
<1>5. CASE BootScan \/ BootDone \/ WatchdogScan \/ PassStops
  BY <1>5, PassInd
<1>6. CASE ResumeEnds
  BY <1>6, PassInd, ResumeFailsInd, ResumeInd DEF ResumeEnds
<1>7. CASE Kill \/ Restart
  BY <1>7, KillInd, RestartInd
<1>8. QED
  BY <1>1, <1>2, <1>3, <1>4, <1>5, <1>6, <1>7 DEF Next

\* The inductive invariant holds in every reachable state.
THEOREM Invariance == Spec => []IndInv
<1>1. QED
  BY InitInd, NextInd, PTL DEF Spec

\* The no-progress count never passes its cap, and a pass awaits at most one
\* resumed checkpoint, whatever the runs, restarts and kills (MAX_REANCHOR_ATTEMPTS).
THEOREM TypeCorrect == Spec => []TypeOK
<1>1. IndInv => TypeOK
  BY DEF IndInv
<1>2. QED
  BY <1>1, Invariance, PTL

\* A run has at most one running row, however boot recovery, the watchdog,
\* explicit resumes, late terminal writes and restarts interleave
\* (claimForResume and the status guards of the store's statements).
THEOREM SingleRunningRow == Spec => []OneRunningRow
<1>1. IndInv => OneRunningRow
  BY DEF IndInv, Table, OneRunning, OneRunningRow, Running
<1>2. QED
  BY <1>1, Invariance, PTL
-----------------------------------------------------------------------------
(* Revocation.  With the types, RevokedIsDead is inductive.                *)

\* While the root is revoked no statement of the store makes a row run.
LEMMA RetireStops ==
  ASSUME row \in [Id -> Row], NEW i \in Id, NEW s \in {"completed", "orphaned"},
         row' = Retire(row, i, s), Running(row) = {}
  PROVE  Running(row') = {}
  BY DEF Retire, Running, Row, RowStatus

\* No step revives a tombstoned tree: what would write a running row asks
\* the store first, and the store refuses a revoked root.
LEMMA RevokedInd == IndInv /\ RevokedIsDead /\ [Next]_vars => RevokedIsDead'
<1> SUFFICES ASSUME IndInv, RevokedIsDead, [Next]_vars, revoked'
             PROVE  live' \subseteq Of(Script) /\ Running(row') = {} /\ lease' = {}
  BY DEF RevokedIsDead, Running
<1>0. /\ TypeOK
      /\ revoked => live \subseteq Of(Script) /\ Running(row) = {} /\ lease = {}
  BY DEF IndInv, RevokedIsDead
<1>1. CASE UNCHANGED vars
  BY <1>0, <1>1 DEF vars, store, process, Running
<1>2. CASE \E r \in Run : Submit(r)
  <2> PICK r \in Run : Submit(r)
    BY <1>2
  <2>1. revoked /\ r \in Script /\ UNCHANGED <<row, lease>> /\ live' = live \cup {<<r, 0>>}
    BY DEF Submit, CanUpsert
  <2>2. <<r, 0>> \in Of(Script)
    BY <2>1, BoundsAssumption DEF Of, Gen
  <2>3. QED
    BY <1>0, <2>1, <2>2 DEF Running
<1>3. ASSUME NEW i \in Id, Work(i)
      PROVE  live' \subseteq Of(Script) /\ Running(row') = {} /\ lease' = {}
  <2>1. revoked /\ lease' = lease
    BY <1>3 DEF Work, Refresh, Finish, Terminalize, FinishScript, ResumeScript
  <2>2. live' \subseteq live
    BY <1>3, <2>1 DEF Work, Refresh, Finish, Terminalize, FinishScript, ResumeScript,
                      CanUpsert, CanClaim
  <2>3. UNCHANGED row \/ row' = Retire(row, i, "completed")
    BY <1>3, <2>1 DEF Work, Refresh, Finish, Terminalize, FinishScript, ResumeScript,
                      CanUpsert, CanClaim
  <2>4. Running(row') = {}
    BY <1>0, <2>1, <2>3, RetireStops DEF TypeOK, Running
  <2>5. QED
    BY <1>0, <2>1, <2>2, <2>4
<1>4. CASE \E i \in Id : HeartbeatLapses(i)
  BY <1>0, <1>4 DEF HeartbeatLapses, process, Running
<1>5. CASE \E i \in Id : Recover(i)
  <2> PICK i \in Id : Recover(i)
    BY <1>5
  <2>1. revoked /\ live' = live /\ lease' = lease /\ row' = Retire(row, i, "orphaned")
    BY DEF Recover, CanClaim, Orphan
  <2>2. QED
    BY <1>0, <2>1, RetireStops DEF TypeOK
<1>6. CASE BootScan \/ BootDone \/ WatchdogScan \/ PassStops \/ ResumeOrchestrate
  BY <1>0, <1>6 DEF BootScan, BootDone, WatchdogScan, PassStops, ResumeOrchestrate,
                    store, process, Running
<1>7. CASE ResumeFails
  <2>1. revoked /\ at \in Id /\ live' = live /\ lease' \subseteq lease
        /\ row' = Retire(row, at, "orphaned")
    BY <1>0, <1>7 DEF ResumeFails, Orphan, TypeOK
  <2>2. QED
    BY <1>0, <2>1, RetireStops DEF TypeOK
<1>8. CASE ResumePlain \/ ResumeGraph
  <2>1. at \in Id
    BY <1>8, NobodyAssumption DEF ResumePlain, ResumeGraph, Of, Run, Id
  <2>2. revoked /\ live' = live /\ lease' = lease /\ row' = Retire(row, at, "completed")
    BY <1>8 DEF ResumePlain, ResumeGraph, CanUpsert
  <2>3. QED
    BY <1>0, <2>1, <2>2, RetireStops DEF TypeOK
<1>9. CASE Kill
  <2>1. row' = [i \in Id |-> Retire(row, i, "revoked")[i]]
    BY <1>9 DEF Kill
  <2>2. \A k \in Id : row'[k].status # "running"
    BY <1>0, <2>1 DEF TypeOK, Retire, Row, RowStatus
  <2>3. QED
    BY <1>9, <2>2 DEF Kill, Running
<1>10. CASE Restart
  BY <1>0, <1>10 DEF Restart, store, Running
<1>11. QED
  BY <1>1, <1>2, <1>3, <1>4, <1>5, <1>6, <1>7, <1>8, <1>9, <1>10 DEF Next, ResumeEnds

\* Once run.kill has tombstoned a root nothing of the tree runs, no row is
\* resumable and no lease survives, although a recovery pass may be holding a
\* replacement of it (killSpawnTree, invalidateForRevoke).
THEOREM KilledStaysDead == Spec => []RevokedIsDead
<1>1. Init => RevokedIsDead
  BY DEF Init, RevokedIsDead
<1>2. QED
  BY <1>1, Invariance, RevokedInd, PTL DEF Spec

-----------------------------------------------------------------------------
(* Executions.  That a run works at most once, and that a sub-agent at     *)
(* work keeps its running row, rest on who may touch the row: a recovery   *)
(* pass holds no row of a live sub-agent or script, since their heartbeats *)
(* are fresh when it scans and new executions get rows it has not seen;    *)
(* the replacement it awaits belongs to nobody else; an ended execution    *)
(* that has still to write is not alive again.                             *)

\* The row of a sub-agent or script at work.
Owns(i) ==
    /\ row[i].status = "running" => row[i].beat = "fresh"
    /\ i \notin todo
    /\ \/ row[i].status = "running"
       \/ i \in Of(Script) /\ (row[i].status = "absent" \/ revoked)

\* The replacement whose resumeRun is awaited.
Awaited ==
    at # Nobody =>
        /\ at \notin live \cup ending \cup todo
        /\ row[at].by = "engine"
        /\ row[at].status = "running" \/ revoked

Owned ==
    /\ \A i \in live \ Of(Graph) : Owns(i)
    /\ Awaited
    /\ \A i \in ending : i \notin live /\ i \notin Of(Script) /\ row[i].status # "absent"
    /\ \A i \in todo : row[i].status # "absent"
    /\ boot = "due" => live = {} /\ todo = {} /\ at = Nobody
    /\ OneExecution

\* What an upsert writes.
LEMMA UpsertFields ==
  ASSUME NEW t \in [Id -> Row], NEW i \in Id
  PROVE  /\ Upsert(t, i) \in [Id -> Row]
         /\ \A k \in Id \ {i} : Upsert(t, i)[k] = t[k]
         /\ Upsert(t, i)[i].by = t[i].by
         /\ Upsert(t, i)[i].beat \in {t[i].beat, "fresh"}
         /\ t[i].status \in {"absent", "running"} =>
               Upsert(t, i)[i].beat = "fresh" /\ Upsert(t, i)[i].status = "running"
         /\ t[i].status # "absent" => Upsert(t, i)[i].status = t[i].status
  BY DEF Upsert, Row, RowStatus

\* What the end of a row writes.
LEMMA RetireFields ==
  ASSUME NEW t \in [Id -> Row], NEW i \in Id, NEW s \in RowStatus
  PROVE  /\ Retire(t, i, s) \in [Id -> Row]
         /\ \A k \in Id \ {i} : Retire(t, i, s)[k] = t[k]
         /\ Retire(t, i, s)[i].by = t[i].by
         /\ Retire(t, i, s)[i].beat = t[i].beat
         /\ t[i].status # "running" => Retire(t, i, s)[i] = t[i]
         /\ t[i].status = "running" => Retire(t, i, s)[i].status = s
  BY DEF Retire, Row

\* What a claim writes.
LEMMA SupersedeFields ==
  ASSUME NEW t \in [Id -> Row], NEW i \in Id, NEW j \in Id, i # j,
         NEW by \in {"runner", "engine"}
  PROVE  /\ Supersede(t, i, j, by) \in [Id -> Row]
         /\ \A k \in Id \ {i, j} : Supersede(t, i, j, by)[k] = t[k]
         /\ Supersede(t, i, j, by)[i].status = "superseded"
         /\ Supersede(t, i, j, by)[j].status = "running"
         /\ Supersede(t, i, j, by)[j].by = by
  BY DEF Supersede, Row, RowStatus

\* The row of checkpoint i is left to its owner: a heartbeat can only become
\* fresh, and only a kill ends it.
RowKept(i) ==
    /\ row'[i].by = row[i].by
    /\ row'[i].beat \in {row[i].beat, "fresh"}
    /\ \/ row'[i].status = row[i].status
       \/ revoked' /\ row'[i].status # "running"

\* A step that starts no execution and leaves the rows of the live ones and of
\* the awaited replacement to them.
LEMMA OwnedKept ==
  ASSUME IndInv, Owned, Grows(row, row'),
         live' \subseteq live,
         \A i \in ending' \ ending : i \in live \ live' /\ i \notin Of(Script),
         todo' \subseteq todo, at' \in {at, Nobody}, boot' \in {boot, "running", "done"},
         revoked => revoked',
         \A i \in live' \ Of(Graph) :
            RowKept(i) /\ (row'[i].status = row[i].status \/ i \in Of(Script)),
         at' # Nobody => RowKept(at)
  PROVE  Owned'
<1>1. live \in SUBSET Id /\ ending \in SUBSET Id /\ todo \in SUBSET Id
  BY DEF IndInv, TypeOK
<1>2. \A i \in live' \ Of(Graph) : Owns(i)'
  BY DEF Owned, Owns, RowKept
<1>3. Awaited'
  <2> SUFFICES ASSUME at' # Nobody PROVE Awaited'
    BY DEF Awaited
  <2>1. at' = at /\ Awaited
    BY DEF Owned
  <2>2. at \notin live' \cup ending' \cup todo'
    BY <2>1 DEF Awaited
  <2> QED
    BY <2>1, <2>2 DEF Awaited, RowKept
<1>4. \A i \in ending' : i \notin live' /\ i \notin Of(Script) /\ row'[i].status # "absent"
  <2> SUFFICES ASSUME NEW i \in ending'
               PROVE  i \notin live' /\ i \notin Of(Script) /\ row'[i].status # "absent"
    OBVIOUS
  <2>1. CASE i \in ending
    BY <1>1, <2>1 DEF Owned, Grows
  <2>2. CASE i \notin ending
    BY <1>1, <2>2 DEF IndInv, Recorded, Grows
  <2> QED
    BY <2>1, <2>2
<1>5. \A i \in todo' : row'[i].status # "absent"
  BY <1>1 DEF Owned, Grows
<1>6. boot' = "due" => live' = {} /\ todo' = {} /\ at' = Nobody
  BY DEF Owned
<1>7. OneExecution'
  BY DEF Owned, OneExecution
<1> QED
  BY <1>2, <1>3, <1>4, <1>5, <1>6, <1>7 DEF Owned

\* Unchanged rows are left to their owners.
LEMMA UnchangedKept ==
  ASSUME UNCHANGED row PROVE Grows(row, row') /\ \A i : RowKept(i)
  BY DEF Grows, RowKept

\* Writing one row leaves the others to their owners.
LEMMA OneRowKept ==
  ASSUME IndInv, NEW i \in Id, \A k \in Id \ {i} : row'[k] = row[k]
  PROVE  \A k \in Id \ {i} : RowKept(k) /\ row'[k].status = row[k].status
  BY DEF RowKept

\* The steps that do not touch a row and start nothing.
LEMMA QuietOwned ==
  ASSUME IndInv, Owned, BootDone \/ PassStops \/ ResumeOrchestrate \/ UNCHANGED vars
  PROVE  Owned'
<1>1. UNCHANGED <<row, revoked, live, ending>>
  BY DEF BootDone, PassStops, ResumeOrchestrate, vars, store, process
<1>2. todo' \subseteq todo /\ at' \in {at, Nobody} /\ boot' \in {boot, "done"}
  BY DEF BootDone, PassStops, ResumeOrchestrate, vars, pass
<1> QED
  BY <1>1, <1>2, UnchangedKept, OwnedKept

\* A heartbeat and its lapse: a live sub-agent's or script's does not lapse.
LEMMA BeatOwned ==
  ASSUME IndInv, Owned, NEW i \in Id, Refresh(i) \/ HeartbeatLapses(i)
  PROVE  Owned'
<1>1. UNCHANGED <<revoked, live, ending, todo, at, boot>> /\ row \in [Id -> Row]
  BY DEF Refresh, HeartbeatLapses, process, pass, IndInv, TypeOK
<1>2. CASE Refresh(i)
  <2>1. /\ Grows(row, row') /\ \A k \in Id \ {i} : row'[k] = row[k]
        /\ RowKept(i) /\ row'[i].status = row[i].status
    <3>1. /\ \A k \in Id \ {i} : row'[k] = row[k]
          /\ row'[i].by = row[i].by /\ row'[i].beat \in {row[i].beat, "fresh"}
          /\ row'[i].status = row[i].status
      BY <1>1, <1>2, UpsertFields DEF Refresh
    <3> QED
      BY <3>1 DEF Grows, RowKept
  <2>2. \A k \in Id : RowKept(k) /\ row'[k].status = row[k].status
    BY <2>1, OneRowKept
  <2> QED
    BY <1>1, <2>1, <2>2, OwnedKept DEF IndInv, TypeOK
<1>3. CASE HeartbeatLapses(i)
  <2>1. /\ \A k \in Id \ {i} : row'[k] = row[k]
        /\ row'[i].status = row[i].status /\ row'[i].by = row[i].by
    BY <1>1, <1>3 DEF HeartbeatLapses, Row
  <2>2. \A k \in Id \ {i} : RowKept(k) /\ row'[k].status = row[k].status
    BY <2>1, OneRowKept
  <2>3. i \notin live \ Of(Graph)
    BY <1>3 DEF HeartbeatLapses
  <2>4. Grows(row, row')
    BY <2>1 DEF Grows
  <2>5. CASE at # i
    BY <1>1, <2>2, <2>3, <2>4, <2>5, OwnedKept DEF IndInv, TypeOK
  <2>6. CASE at = i
    \* The awaited replacement may grow stale: only its owner's view counts.
    <3>1. \A k \in live \ Of(Graph) : Owns(k)'
      BY <1>1, <2>1, <2>3 DEF Owned, Owns, IndInv, TypeOK
    <3>2. Awaited'
      BY <1>1, <2>1, <2>6 DEF Owned, Awaited
    <3> QED
      BY <1>1, <2>4, <3>1, <3>2 DEF Owned, OneExecution, Grows, IndInv, TypeOK
  <2> QED
    BY <2>5, <2>6
<1> QED
  BY <1>2, <1>3

\* An execution ends, or its terminal write comes: neither touches a live row.
LEMMA EndOwned ==
  ASSUME IndInv, Owned, NEW i \in Id, Finish(i) \/ Terminalize(i) \/ FinishScript(i)
  PROVE  Owned'
<1>1. /\ UNCHANGED <<revoked, todo, at, boot>> /\ row \in [Id -> Row]
      /\ live \in SUBSET Id /\ at \in Id \cup {Nobody}
  BY DEF Finish, Terminalize, FinishScript, pass, IndInv, TypeOK
<1>2. /\ live' \subseteq live /\ i \notin live'
      /\ \A k \in ending' \ ending : k \in live \ live' /\ k \notin Of(Script)
      /\ i # at
  <2>1. Terminalize(i) => i \notin live
    BY DEF Terminalize, Owned
  <2>2. i \in live \cup ending
    BY DEF Finish, Terminalize, FinishScript
  <2>3. i # at
    BY <2>2, NobodyAssumption DEF Owned, Awaited
  <2> QED
    BY <2>1, <2>3 DEF Finish, Terminalize, FinishScript
<1>3. UNCHANGED row \/ row' = Upsert(row, i) \/ row' = Retire(row, i, "completed")
  BY DEF Finish, Terminalize, FinishScript
<1>4. \A k \in Id \ {i} : row'[k] = row[k]
  BY <1>1, <1>3, UpsertFields, RetireFields DEF RowStatus
<1>5. row[i].status # "absent" => row'[i].status # "absent"
  <2>1. CASE row' = Upsert(row, i)
    BY <1>1, <2>1, UpsertFields
  <2>2. CASE row' = Retire(row, i, "completed")
    <3> "completed" \in RowStatus
      BY DEF RowStatus
    <3> QED
      BY <1>1, <2>2, RetireFields
  <2> QED
    BY <1>3, <2>1, <2>2
<1>6. Grows(row, row')
  BY <1>4, <1>5 DEF Grows
<1>7. \A k \in Id \ {i} : RowKept(k) /\ row'[k].status = row[k].status
  BY <1>4, OneRowKept
<1> QED
  BY <1>1, <1>2, <1>6, <1>7, OwnedKept

\* A failed resume, and a graph that is only completed, end the replacement.
LEMMA GiveUpOwned ==
  ASSUME IndInv, Owned, at \in Id, NEW s \in {"orphaned", "completed"},
         row' = Retire(row, at, s), at' = Nobody,
         UNCHANGED <<revoked, live, ending, boot, todo>>
  PROVE  Owned'
<1>1. row \in [Id -> Row] /\ live \in SUBSET Id
  BY DEF IndInv, TypeOK
<1>2. at \notin live
  BY NobodyAssumption DEF Owned, Awaited
<1>3. /\ \A k \in Id \ {at} : row'[k] = row[k]
      /\ row[at].status # "absent" => row'[at].status # "absent"
  BY <1>1, RetireFields DEF RowStatus
<1>4. Grows(row, row')
  BY <1>3 DEF Grows
<1>5. \A k \in live \ Of(Graph) : RowKept(k) /\ row'[k].status = row[k].status
  BY <1>1, <1>2, <1>3, OneRowKept
<1> QED
  BY <1>4, <1>5, OwnedKept

\* A kill ends the rows of the scripts it leaves at work.
LEMMA KillOwned ==
  ASSUME IndInv, Owned, Kill PROVE Owned'
<1>1. /\ UNCHANGED <<todo, at, boot>> /\ row \in [Id -> Row]
      /\ live \in SUBSET Id /\ at \in Id \cup {Nobody}
      /\ live' = live \cap Of(Script) /\ ending' = ending \cup (live \ Of(Script))
      /\ revoked => revoked'
  BY DEF Kill, pass, IndInv, TypeOK
<1>2. Grows(row, row') /\ \A k \in Id : RowKept(k)
  <2>1. CASE UNCHANGED row
    BY <2>1, UnchangedKept
  <2>2. CASE revoked' /\ row' = [i \in Id |-> Retire(row, i, "revoked")[i]]
    <3>1. \A k \in Id : row'[k] = Retire(row, k, "revoked")[k]
      BY <2>2
    <3>2. \A k \in Id : /\ row'[k].by = row[k].by /\ row'[k].beat = row[k].beat
                        /\ row'[k].status # "running"
                        /\ row[k].status # "absent" => row'[k].status # "absent"
      <4> TAKE k \in Id
      <4>1. "revoked" \in RowStatus
        BY DEF RowStatus
      <4>2. row'[k] = Retire(row, k, "revoked")[k]
        BY <3>1
      <4> QED
        BY <1>1, <4>1, <4>2, RetireFields
    <3> QED
      BY <2>2, <3>2 DEF Grows, RowKept
  <2> QED
    BY <2>1, <2>2 DEF Kill
<1> QED
  BY <1>1, <1>2, OwnedKept

\* A restart ends every execution before boot recovery scans.
LEMMA RestartOwned == ASSUME Restart PROVE Owned'
  BY DEF Restart, Owned, Awaited, OneExecution

\* Boot recovery scans while nothing is alive; a watchdog scan sees stale rows.
LEMMA ScanOwned ==
  ASSUME IndInv, Owned, BootScan \/ WatchdogScan PROVE Owned'
<1>1. UNCHANGED <<row, revoked, live, ending, at>> /\ boot' # "due"
  BY DEF BootScan, WatchdogScan, store, process
<1>2. \A i \in todo' : row[i].status = "running"
  BY DEF BootScan, WatchdogScan, DetectStaleRuns, Running
<1>3. at = Nobody
  BY DEF BootScan, WatchdogScan, PassIdle, Owned
<1>4. \A i \in live \ Of(Graph) : i \notin todo'
  BY DEF BootScan, WatchdogScan, DetectStaleRuns, Running, Owned, Owns
<1>5. \A i \in live' \ Of(Graph) : Owns(i)'
  BY <1>1, <1>4 DEF Owned, Owns
<1> QED
  BY <1>1, <1>2, <1>3, <1>5 DEF Owned, Awaited, OneExecution

\* The generation a new checkpoint gets is in nobody's hands.
LEMMA NewIsFree ==
  ASSUME IndInv, Owned, NEW i \in Id, NEW j \in Id, i[1] = j[1],
         row[i].status # "absent", row[j].status = "absent"
  PROVE  j \notin live \cup ending \cup todo \cup {at}
<1>1. row[<<j[1], 0>>].status # "absent"
  BY DEF IndInv, Table, Anchored
<1>2. j = <<j[1], j[2]>>
  BY DEF Id
<1>3. j \notin live
  BY <1>1, <1>2 DEF IndInv, Recorded
<1>4. j # at
  BY NobodyAssumption DEF IndInv, Recorded
<1> QED
  BY <1>3, <1>4 DEF Owned

\* A run whose running row no execution writes is not at work.
LEMMA NobodyWorks ==
  ASSUME IndInv, Owned, ~revoked, NEW i \in Id \ live, row[i].status = "running"
  PROVE  \A k \in live \ Of(Graph) : k[1] # i[1]
<1> SUFFICES ASSUME NEW k \in live \ Of(Graph), k[1] = i[1] PROVE FALSE
  OBVIOUS
<1>1. k \in Id
  BY DEF IndInv, TypeOK
<1>2. CASE row[k].status = "running"
  BY <1>1, <1>2 DEF IndInv, Table, OneRunning
<1>3. CASE row[k].status = "absent"
  BY <1>1, <1>3, NewIsFree
<1> QED
  BY <1>2, <1>3 DEF Owned, Owns

\* An execution of a run nobody works on begins, under a row of its own.
LEMMA StartOwned ==
  ASSUME IndInv, Owned, Grows(row, row'), boot # "due",
         NEW n \in Id, n \notin ending,
         live' = live \cup {n}, UNCHANGED <<ending, todo, boot, revoked>>,
         at' \in {at, Nobody}, at' # Nobody => at # n /\ RowKept(at),
         \A k \in live \ Of(Graph) : RowKept(k) /\ row'[k].status = row[k].status,
         n \notin Of(Graph) => Owns(n)' /\ \A k \in live \ Of(Graph) : k[1] # n[1]
  PROVE  Owned'
<1>1. live \in SUBSET Id /\ ending \in SUBSET Id /\ todo \in SUBSET Id
  BY DEF IndInv, TypeOK
<1>2. \A k \in live \ Of(Graph) : Owns(k)'
  BY DEF Owned, Owns, RowKept
<1>3. Awaited'
  BY DEF Owned, Awaited, RowKept
<1>4. OneExecution'
  BY DEF Owned, OneExecution
<1> QED
  BY <1>1, <1>2, <1>3, <1>4 DEF Owned, Grows

\* A run begins once: its first checkpoint is not in the table.
LEMMA SubmitOwned == ASSUME IndInv, Owned, NEW r \in Run, Submit(r) PROVE Owned'
<1> DEFINE i == <<r, 0>>
<1>1. /\ i \in Id /\ row[i].status = "absent" /\ i \notin live
      /\ live' = live \cup {i} /\ UNCHANGED <<ending, todo, at, boot, revoked>>
      /\ boot = "done" /\ row \in [Id -> Row] /\ live \in SUBSET Id
      /\ at \in Id \cup {Nobody}
  BY FirstIsId DEF Submit, pass, IndInv, TypeOK
<1>2. i \notin ending \cup todo \cup {at}
  BY <1>1, NobodyAssumption DEF Owned, IndInv, Recorded
<1>3. \A k \in live : k[1] # r
  <2> SUFFICES ASSUME NEW k \in live, k[1] = r PROVE FALSE
    OBVIOUS
  <2>1. k \in Id /\ k = <<k[1], k[2]>>
    BY <1>1 DEF Id
  <2>2. row[k].status = "absent"
    BY <1>1, <2>1 DEF IndInv, Table, Anchored
  <2> QED
    BY <1>1, <2>1, <2>2 DEF IndInv, Recorded
<1>4. /\ \A k \in Id \ {i} : row'[k] = row[k]
      /\ i \notin Of(Graph) => Owns(i)'
  <2>1. CASE row' = Upsert(row, i)
    BY <1>1, <1>2, <2>1, UpsertFields DEF Owns
  <2>2. CASE r \in Script /\ UNCHANGED row
    <3>1. i \in Of(Script)
      BY <1>1, <2>2 DEF Of, Id
    <3> QED
      BY <1>1, <1>2, <2>2, <3>1 DEF Owns
  <2> QED
    BY <2>1, <2>2 DEF Submit
<1> HIDE DEF i
<1>5. Grows(row, row')
  BY <1>1, <1>4 DEF Grows
<1>6. \A k \in Id \ {i} : RowKept(k) /\ row'[k].status = row[k].status
  BY <1>1, <1>4, OneRowKept
<1>7. i[1] = r
  BY DEF i
<1> QED
  BY <1>1, <1>2, <1>3, <1>4, <1>5, <1>6, <1>7, StartOwned

\* An explicit resume: the run it names has ended, and the claim leaves the rows
\* the recovery pass works on alone.
LEMMA ResumeScriptOwned ==
  ASSUME IndInv, Owned, NEW i \in Id, ResumeScript(i) PROVE Owned'
<1> DEFINE j == <<i[1], NextGen(i[1])>>
           u == Supersede(row, i, j, "runner")
<1>1. i[1] \in Run /\ NextGen(i[1]) \in Gen
  BY DEF ResumeScript, Id
<1>2. /\ j \in Id /\ row[j].status = "absent"
      /\ row[i].status = "running" /\ ~revoked /\ i \notin live /\ row[i].by = "runner"
      /\ boot = "done" /\ UNCHANGED <<revoked, ending, todo, boot, at>>
      /\ row \in [Id -> Row] /\ live \in SUBSET Id /\ at \in Id \cup {Nobody}
  BY <1>1, NextGenUnused DEF ResumeScript, CanClaim, pass, IndInv, TypeOK
<1> HIDE DEF j
<1>3. i # j /\ j[1] = i[1]
  BY <1>2 DEF j
<1>4. \/ row' = Upsert(u, j) /\ live' = live \cup {j}
      \/ row' = Retire(u, j, "orphaned") /\ live' = live
  BY DEF ResumeScript, SettleClaimedResumeFailure, u, j
<1>5. /\ u \in [Id -> Row] /\ \A k \in Id \ {i, j} : u[k] = row[k]
      /\ u[i].status = "superseded" /\ u[j].status = "running"
  BY <1>2, <1>3, SupersedeFields
<1> HIDE DEF u
<1>6. "orphaned" \in RowStatus
  BY DEF RowStatus
<1>7. /\ \A k \in Id \ {i, j} : row'[k] = row[k]
      /\ row'[i].status # "absent"
  BY <1>2, <1>3, <1>4, <1>5, <1>6, UpsertFields, RetireFields
<1>8. Grows(row, row')
  BY <1>2, <1>7 DEF Grows
<1>9. j \notin live \cup ending \cup todo \cup {at} /\ i # at
  BY <1>2, <1>3, NewIsFree, NobodyAssumption DEF Owned, Awaited
<1>10. \A k \in live \cup {at} : k # Nobody => RowKept(k) /\ row'[k].status = row[k].status
  BY <1>2, <1>7, <1>9 DEF RowKept
<1>11. \A k \in live \ Of(Graph) : k[1] # j[1]
  BY <1>2, <1>3, NobodyWorks
<1>12. \A k \in live : k # Nobody
  BY <1>2, NobodyAssumption
<1>13. CASE row' = Upsert(u, j) /\ live' = live \cup {j}
  <2>1. PICK n \in Id : n = j
    BY <1>2
  <2>2. Upsert(u, n)[n].beat = "fresh" /\ Upsert(u, n)[n].status = "running"
    BY <1>5, <2>1, UpsertFields
  <2>3. Owns(n)'
    BY <1>2, <1>9, <1>13, <2>1, <2>2 DEF Owns
  <2> QED
    BY <1>2, <1>8, <1>9, <1>10, <1>11, <1>12, <1>13, <2>1, <2>3, StartOwned
<1>14. CASE live' = live
  BY <1>2, <1>8, <1>10, <1>12, <1>14, OwnedKept
<1> QED
  BY <1>4, <1>13, <1>14

\* The pass gives a candidate up or moves its row to a replacement: neither is
\* the row of a live sub-agent or script.
LEMMA RecoverOwned ==
  ASSUME IndInv, Owned, NEW i \in Id, Recover(i) PROVE Owned'
<1>1. /\ at = Nobody /\ i \in todo /\ todo' = todo \ {i}
      /\ UNCHANGED <<revoked, live, ending, boot>>
      /\ row \in [Id -> Row] /\ live \in SUBSET Id /\ todo \in SUBSET Id
      /\ ending \in SUBSET Id
  BY DEF Recover, IndInv, TypeOK
<1>2. i \notin live \ Of(Graph)
  BY <1>1 DEF Owned, Owns
<1>3. "orphaned" \in RowStatus
  BY DEF RowStatus
<1>4. CASE row' = Retire(row, i, "orphaned") /\ UNCHANGED at
  <2>1. /\ \A k \in Id \ {i} : row'[k] = row[k]
        /\ row[i].status # "absent" => row'[i].status # "absent"
    BY <1>1, <1>3, <1>4, RetireFields
  <2>2. Grows(row, row')
    BY <2>1 DEF Grows
  <2>3. \A k \in live \ Of(Graph) : RowKept(k) /\ row'[k].status = row[k].status
    BY <1>1, <1>2, <2>1, OneRowKept
  <2> QED
    BY <1>1, <1>4, <2>2, <2>3, OwnedKept
<1>5. CASE CanClaim(i) /\ Claim(i)
  <2> DEFINE j == <<i[1], NextGen(i[1])>>
             u == Supersede(row, i, j, "engine")
  <2>1. i[1] \in Run /\ NextGen(i[1]) \in Gen
    BY DEF Recover, Id
  <2>2. /\ j \in Id /\ row[j].status = "absent"
        /\ row[i].status = "running" /\ ~revoked
    BY <1>5, <2>1, NextGenUnused DEF CanClaim
  <2>3. \/ row' = Retire(u, j, "orphaned") /\ UNCHANGED at
        \/ row' = u /\ at' = j
    BY <1>5 DEF Claim, Orphan
  <2> HIDE DEF j
  <2>4. i # j /\ i[1] = j[1]
    BY <2>2 DEF j
  <2>5. /\ u \in [Id -> Row] /\ \A k \in Id \ {i, j} : u[k] = row[k]
        /\ u[i].status = "superseded" /\ u[j].status = "running" /\ u[j].by = "engine"
    BY <1>1, <2>2, <2>4, SupersedeFields
  <2> HIDE DEF u
  <2>6. /\ \A k \in Id \ {i, j} : row'[k] = row[k]
        /\ row'[i].status # "absent"
    BY <1>3, <2>2, <2>3, <2>4, <2>5, RetireFields
  <2>7. Grows(row, row')
    BY <2>2, <2>6 DEF Grows
  <2>8. j \notin live \cup ending \cup todo
    BY <2>2, <2>4, NewIsFree
  <2>9. \A k \in live \ Of(Graph) : row'[k] = row[k]
    BY <1>1, <1>2, <2>6, <2>8
  <2>10. CASE UNCHANGED at
    <3>1. \A k \in live \ Of(Graph) : RowKept(k) /\ row'[k].status = row[k].status
      BY <2>9 DEF RowKept
    <3> QED
      BY <1>1, <2>7, <2>10, <3>1, OwnedKept
  <2>11. CASE row' = u /\ at' = j
    <3>1. \A k \in live \ Of(Graph) : Owns(k)'
      BY <1>1, <2>9 DEF Owned, Owns
    <3>2. Awaited'
      BY <1>1, <2>5, <2>8, <2>11 DEF Awaited
    <3>3. boot # "due"
      BY <1>1 DEF Owned, Recover
    <3> QED
      BY <1>1, <2>7, <3>1, <3>2, <3>3 DEF Owned, OneExecution, Grows
  <2> QED
    BY <2>3, <2>10, <2>11
<1> QED
  BY <1>4, <1>5 DEF Recover, Orphan

\* The awaited replacement starts, or is given up.
LEMMA ResumeOwned ==
  ASSUME IndInv, Owned, ResumeFails \/ ResumePlain \/ ResumeGraph PROVE Owned'
<1>1. /\ at \in Id /\ at # Nobody /\ at' = Nobody
      /\ UNCHANGED <<revoked, ending, boot, todo>>
      /\ row \in [Id -> Row] /\ live \in SUBSET Id
  BY NobodyAssumption DEF IndInv, TypeOK, ResumeFails, ResumePlain, ResumeGraph, Of, Run, Id
<1>2. CASE row' \in {Retire(row, at, "orphaned"), Retire(row, at, "completed")}
           /\ UNCHANGED live
  BY <1>1, <1>2, GiveUpOwned
<1>3. CASE CanUpsert /\ Admit
  <2> PICK n \in Id : n = at
    BY <1>1
  <2>1. row' = Upsert(row, n) /\ live' = live \cup {n} /\ ~revoked
    BY <1>3 DEF Admit, CanUpsert
  <2>2. n \notin live \cup ending \cup todo /\ row[n].status = "running" /\ boot # "due"
    BY <1>1, <2>1 DEF Owned, Awaited
  <2>3. /\ \A k \in Id \ {n} : row'[k] = row[k]
        /\ row'[n].status = "running" /\ row'[n].beat = "fresh"
    BY <1>1, <2>1, <2>2, UpsertFields
  <2>4. Grows(row, row')
    BY <2>3 DEF Grows
  <2>5. Owns(n)'
    BY <1>1, <2>2, <2>3 DEF Owns
  <2>6. \A k \in live \ Of(Graph) : k[1] # n[1]
    BY <2>1, <2>2, NobodyWorks
  <2>7. \A k \in live \ Of(Graph) : RowKept(k) /\ row'[k].status = row[k].status
    BY <1>1, <2>2, <2>3, OneRowKept
  <2> QED
    BY <1>1, <2>1, <2>2, <2>4, <2>5, <2>6, <2>7, StartOwned
<1> QED
  BY <1>2, <1>3 DEF ResumeFails, ResumePlain, ResumeGraph, Orphan

\* Nothing is alive at first.
LEMMA InitOwned == Init => Owned
  BY DEF Init, Owned, Awaited, OneExecution

\* Every step leaves each row to its owner.
LEMMA NextOwned == IndInv /\ Owned /\ [Next]_vars => Owned'
<1> SUFFICES ASSUME IndInv, Owned, [Next]_vars PROVE Owned'
  OBVIOUS
<1>1. CASE UNCHANGED vars
  BY <1>1, QuietOwned
<1>2. CASE \E r \in Run : Submit(r)
  BY <1>2, SubmitOwned
<1>3. CASE \E i \in Id : Work(i)
  BY <1>3, BeatOwned, EndOwned, ResumeScriptOwned DEF Work
<1>4. CASE \E i \in Id : HeartbeatLapses(i) \/ Recover(i)
  BY <1>4, BeatOwned, RecoverOwned
<1>5. CASE BootScan \/ BootDone \/ WatchdogScan \/ PassStops
  BY <1>5, QuietOwned, ScanOwned
<1>6. CASE ResumeEnds
  BY <1>6, QuietOwned, ResumeOwned DEF ResumeEnds
<1>7. CASE Kill \/ Restart
  BY <1>7, KillOwned, RestartOwned
<1> QED
  BY <1>1, <1>2, <1>3, <1>4, <1>5, <1>6, <1>7 DEF Next

\* Each row a live execution or a recovery pass works on is its own, in every
\* reachable state (detectStaleRuns, claimForResume, the keep-alive).
THEOREM Ownership == Spec => [](IndInv /\ Owned)
<1>1. QED
  BY InitInd, InitOwned, NextInd, NextOwned, PTL DEF Spec

\* No recovery starts a second execution of a sub-agent or script that is
\* alive, whatever boot passes, watchdog ticks, explicit resumes, kills whose
\* tombstone fails and restarts interleave (resumePlain, the orchestrate arm).
THEOREM AtMostOneExecution == Spec => []OneExecution
<1>1. Owned => OneExecution
  BY DEF Owned
<1>2. QED
  BY <1>1, Ownership, PTL

\* A sub-agent at work keeps a running checkpoint, so that a crash at any time
\* is recovered: neither recovery nor a kill takes the row away from under it.
THEOREM LiveKeepsItsRow == Spec => []LiveIsRecoverable
<1>1. IndInv /\ Owned => LiveIsRecoverable
  <2> SUFFICES ASSUME IndInv, Owned, NEW i \in live \cap Of(Plain)
               PROVE  row[i].status = "running"
    BY DEF LiveIsRecoverable
  <2>1. i \notin Of(Graph) /\ i \notin Of(Script)
    BY KindsDisjoint DEF Of
  <2> QED
    BY <2>1 DEF Owned, Owns
<1>2. QED
  BY <1>1, Ownership, PTL
=============================================================================
