----------------------------- MODULE RunsProofs -----------------------------
(***************************************************************************)
(* Proofs about the rows that runs leave and the loss limit they decide by *)
(* (AccountRuns), for any number of runs and stocks, any equities, any     *)
(* loss limit and any days.                                                *)
(***************************************************************************)
EXTENDS AccountRuns, TLAPS

Settled == {"SUCCESS", "FAILED"}
AtStock == {"asking", "deciding", "ordering"}
Ending == {"saving", "closing"}

\* Run p has inserted its closing snapshot, committed or not.
HasSnapshot(p) == \E i \in 1 .. Len(snaps) : snaps[i].by = p

\* The rows of a pipeline run, as far as it has come
ChildrenOK(p) ==
  /\ pc[p] = "idle" => \A s \in Stocks : child[p][s] = "none"
  /\ pc[p] \in AtStock \cup {"looping"} => \A s \in todo[p] : child[p][s] = "none"
  /\ pc[p] = "looping" => \A s \in Stocks \ todo[p] : child[p][s] \in Settled
  /\ pc[p] \in AtStock => /\ stock[p] \in Stocks \ todo[p]
                          /\ \A s \in Stocks \ todo[p] : s # stock[p] => child[p][s] \in Settled
  /\ pc[p] \in Ending \/ row[p] = "SUCCESS" => \A s \in Stocks : child[p][s] \in Settled
  /\ \A s, t \in Stocks : child[p][s] = "RUNNING" /\ child[p][t] = "RUNNING" => s = t

DecisionsOK(p) ==
  /\ pc[p] = "ordering" => decision[p][stock[p]] # "none"
  /\ "queries" \notin events =>
       \A s \in Stocks : child[p][s] = "SUCCESS" => decision[p][s] # "none"

RowOK(p) ==
  /\ pc[p] = "idle" => row[p] = "none"
  /\ Active(p) => row[p] = "RUNNING"
  /\ pc[p] = "done" /\ "kill" \notin events => row[p] \in Settled
  /\ pc[p] = "saving" => HasSnapshot(p)

PipelineOK(p) == ChildrenOK(p) /\ DecisionsOK(p) /\ RowOK(p)

\* Only runs that have begun are in the table.
StartedOK == \A i \in 1 .. Len(started) : pc[started[i]] # "idle"

RunsInv == TypeOK /\ StartedOK /\ \A p \in Pipelines : PipelineOK(p)

\* Every other run, and what it left, stays as it is.
Only(r) ==
  /\ events' = events
  /\ \A q \in Runs \ {r} : /\ pc'[q] = pc[q] /\ row'[q] = row[q] /\ child'[q] = child[q]
                           /\ stock'[q] = stock[q] /\ todo'[q] = todo[q]
                           /\ q \in Pipelines => decision'[q] = decision[q]
  /\ pc'[r] # "idle"
  /\ started' \in {started, Append(started, r)}
  /\ \A q \in Pipelines : HasSnapshot(q) => HasSnapshot(q)'
-----------------------------------------------------------------------------
\* No run, no row.
LEMMA RunsInitInv == Init => RunsInv
<1> SUFFICES ASSUME Init PROVE RunsInv
  OBVIOUS
<1>1. TypeOK
  BY DEF Init, TypeOK, ExecutionRunRows, TraderRunRows, DecisionRows, Statuses
<1>2. StartedOK
  BY DEF Init, StartedOK
<1>3. ASSUME NEW p \in Pipelines PROVE PipelineOK(p)
  BY <1>3 DEF Init, PipelineOK, ChildrenOK, DecisionsOK, RowOK, Active, Runs, AtStock,
     Ending, Settled
<1> QED BY <1>1, <1>2, <1>3 DEF RunsInv

\* A step of one run leaves the rows of the others in order.
LEMMA OnlyStep ==
  ASSUME RunsInv, TypeOK', NEW r \in Runs, Only(r), r \in Pipelines => PipelineOK(r)'
  PROVE  RunsInv'
<1>1. StartedOK'
  <2>1. started \in Seq(Runs)
    BY DEF RunsInv, TypeOK
  <2>2. CASE started' = started
    BY <2>1, <2>2 DEF RunsInv, StartedOK, Only
  <2>3. CASE started' = Append(started, r)
    BY <2>1, <2>3 DEF RunsInv, StartedOK, Only
  <2> QED BY <2>2, <2>3 DEF Only
<1>2. ASSUME NEW q \in Pipelines, q # r PROVE PipelineOK(q)'
  <2>1. PipelineOK(q) /\ q \in Runs
    BY DEF RunsInv, Runs
  <2>2. /\ pc'[q] = pc[q] /\ row'[q] = row[q] /\ child'[q] = child[q] /\ events' = events
        /\ stock'[q] = stock[q] /\ todo'[q] = todo[q] /\ decision'[q] = decision[q]
        /\ HasSnapshot(q) => HasSnapshot(q)'
    BY <1>2, <2>1 DEF Only
  <2>3. ChildrenOK(q)' /\ DecisionsOK(q)'
    BY <2>1, <2>2 DEF PipelineOK, ChildrenOK, DecisionsOK
  <2>4. RowOK(q)'
    BY <2>1, <2>2 DEF PipelineOK, RowOK, Active
  <2> QED BY <2>3, <2>4 DEF PipelineOK
<1> QED BY <1>1, <1>2 DEF RunsInv

\* An action that keeps the snapshots and does not start a run
Quiet == UNCHANGED <<events, snaps, started>>

\* What one run writes about itself
LEMMA OnlyOne ==
  ASSUME TypeOK, Quiet, NEW r \in Runs,
         NEW x1, pc' = [pc EXCEPT ![r] = x1], x1 # "idle",
         NEW x2, row' = [row EXCEPT ![r] = x2],
         NEW x3, child' = [child EXCEPT ![r] = x3],
         NEW x4, stock' = [stock EXCEPT ![r] = x4],
         NEW x5, todo' = [todo EXCEPT ![r] = x5],
         \A q \in Pipelines \ {r} : decision'[q] = decision[q]
  PROVE  Only(r)
BY DEF TypeOK, ExecutionRunRows, TraderRunRows, Quiet, Only, HasSnapshot, Runs

\* What a run knows of itself
LEMMA RunTyped ==
  ASSUME RunsInv, NEW p \in Pipelines
  PROVE  /\ p \in Runs /\ row[p] \in Statuses /\ child[p] \in [Stocks -> Statuses]
         /\ decision[p] \in [Stocks -> Actions \cup {"none"}]
         /\ todo[p] \subseteq Stocks /\ read[p] \in Equities \cup {0}
         /\ PipelineOK(p)
BY DEF RunsInv, TypeOK, Runs, ExecutionRunRows, TraderRunRows, DecisionRows

\* The row of a run that starts
LEMMA StartStep ==
  ASSUME RunsInv, NEW p \in Pipelines, Start(p)
  PROVE  RunsInv'
<1>1. TypeOK'
  BY RunTyped DEF RunsInv, TypeOK, Start, Goto, SetRow, ExecutionRunRows, Statuses
<1>2. Only(p)
  BY RunTyped DEF RunsInv, TypeOK, ExecutionRunRows, Start, Goto, SetRow, Only, HasSnapshot
<1>3. /\ pc[p] = "idle" /\ pc'[p] = "looping" /\ row'[p] = "RUNNING" /\ todo'[p] = Stocks
      /\ UNCHANGED <<child, decision, stock, events>>
  BY RunTyped DEF RunsInv, TypeOK, ExecutionRunRows, Start, Goto, SetRow
<1>4. ChildrenOK(p)' /\ DecisionsOK(p)' /\ RowOK(p)'
  BY <1>3, RunTyped DEF PipelineOK, ChildrenOK, DecisionsOK, RowOK, Active, AtStock,
     Ending, Settled
<1> QED BY <1>1, <1>2, <1>4, RunTyped, OnlyStep DEF PipelineOK

\* The row of the next stock
LEMMA OpenChildStep ==
  ASSUME RunsInv, NEW p \in Pipelines, NEW s \in Stocks, OpenChild(p, s)
  PROVE  RunsInv'
<1>1. TypeOK'
  BY RunTyped DEF RunsInv, TypeOK, OpenChild, Goto, TraderRunRows, Statuses
<1>2. Only(p)
  BY RunTyped DEF RunsInv, TypeOK, TraderRunRows, OpenChild, Goto, Only, HasSnapshot
<1>3. /\ pc[p] = "looping" /\ pc'[p] = "asking" /\ s \in todo[p] /\ todo'[p] = todo[p] \ {s}
      /\ stock'[p] = s /\ child'[p] = [child[p] EXCEPT ![s] = "RUNNING"]
      /\ UNCHANGED <<row, decision, events>>
  BY RunTyped DEF RunsInv, TypeOK, TraderRunRows, OpenChild, Goto
<1>4. ChildrenOK(p)' /\ DecisionsOK(p)' /\ RowOK(p)'
  BY <1>3, RunTyped DEF PipelineOK, ChildrenOK, DecisionsOK, RowOK, Active, AtStock,
     Ending, Settled
<1> QED BY <1>1, <1>2, <1>4, RunTyped, OnlyStep DEF PipelineOK

\* The balance that was read
LEMMA AskBalanceStep ==
  ASSUME RunsInv, NEW p \in Pipelines, AskBalance(p)
  PROVE  RunsInv'
<1>1. TypeOK'
  BY RunTyped DEF RunsInv, TypeOK, AskBalance, Goto, Told, rows
<1>2. Only(p)
  BY RunTyped DEF RunsInv, TypeOK, AskBalance, Goto, Only, HasSnapshot, rows
<1>3. /\ pc[p] = "asking" /\ pc'[p] = "deciding"
      /\ UNCHANGED <<row, child, stock, todo, decision, events>>
  BY RunTyped DEF RunsInv, TypeOK, AskBalance, Goto, rows
<1>4. ChildrenOK(p)' /\ DecisionsOK(p)' /\ RowOK(p)'
  BY <1>3, RunTyped DEF PipelineOK, ChildrenOK, DecisionsOK, RowOK, Active, AtStock,
     Ending, Settled
<1> QED BY <1>1, <1>2, <1>4, RunTyped, OnlyStep DEF PipelineOK

\* A stock is left with its child settled: as SUCCESS only after a decision, or
\* when queries may raise.
LEMMA LeaveStep ==
  ASSUME RunsInv, NEW p \in Pipelines, pc[p] \in AtStock, NEW status \in Settled,
         pc' = [pc EXCEPT ![p] = "looping"], SetChild(p, status), Leave(p),
         UNCHANGED <<events, equity, row, decision, started, todo, snaps, dayStart>>,
         status = "SUCCESS" => pc[p] = "ordering" \/ "queries" \in events
  PROVE  RunsInv'
<1>1. TypeOK'
  BY RunTyped DEF RunsInv, TypeOK, SetChild, Leave, TraderRunRows, Statuses, Settled
<1>2. Only(p)
  BY RunTyped DEF RunsInv, TypeOK, TraderRunRows, SetChild, Leave, Only, HasSnapshot
<1>3. /\ pc'[p] = "looping" /\ child'[p] = [child[p] EXCEPT ![stock[p]] = status]
      /\ UNCHANGED <<row, todo, decision, events>>
  BY RunTyped DEF RunsInv, TypeOK, TraderRunRows, SetChild
<1>4. stock[p] \in Stocks \ todo[p]
  BY RunTyped DEF PipelineOK, ChildrenOK
<1>5. ChildrenOK(p)'
  BY <1>3, <1>4, RunTyped DEF PipelineOK, ChildrenOK, AtStock, Ending, Settled, RowOK, Active
<1>6. DecisionsOK(p)' /\ RowOK(p)'
  BY <1>3, <1>4, RunTyped DEF PipelineOK, DecisionsOK, RowOK, Active, AtStock, Settled
<1> QED BY <1>1, <1>2, <1>5, <1>6, RunTyped, OnlyStep DEF PipelineOK

\* Every decision is an action.
LEMMA DecideStep ==
  ASSUME RunsInv, NEW p \in Pipelines, Decide(p)
  PROVE  RunsInv'
<1>1. PICK i \in Inputs : decision' = [decision EXCEPT ![p][stock[p]] = FinalAction(i, read[p])]
  BY DEF Decide, Possible
<1> DEFINE a == FinalAction(i, read[p])
<1>2. a \in Actions
  BY DEF FinalAction, Vetted, Signal, Inputs, Actions
<1> HIDE DEF a
<1>3. stock[p] \in Stocks /\ pc[p] = "deciding"
  BY RunTyped DEF Decide, Goto, PipelineOK, ChildrenOK, AtStock
<1>4. /\ decision' = [decision EXCEPT ![p][stock[p]] = a] /\ pc' = [pc EXCEPT ![p] = "ordering"]
      /\ read' = [read EXCEPT ![p] = 0]
      /\ UNCHANGED <<events, equity, row, child, started, stock, todo, snaps, dayStart>>
  BY <1>1 DEF Decide, Goto, a
<1>5. TypeOK'
  BY <1>2, <1>4, RunTyped DEF RunsInv, TypeOK, DecisionRows
<1>6. Only(p)
  BY <1>4, RunTyped DEF RunsInv, TypeOK, DecisionRows, Only, HasSnapshot
<1>7. pc'[p] = "ordering" /\ decision'[p] = [decision[p] EXCEPT ![stock[p]] = a]
  BY <1>4, RunTyped DEF RunsInv, TypeOK, DecisionRows
<1>8. ChildrenOK(p)' /\ RowOK(p)'
  BY <1>3, <1>4, <1>7, RunTyped DEF PipelineOK, ChildrenOK, RowOK, Active, AtStock,
     Ending, Settled
<1>9. DecisionsOK(p)'
  BY <1>2, <1>3, <1>4, <1>7, RunTyped DEF PipelineOK, DecisionsOK, Actions
<1> QED BY <1>5, <1>6, <1>8, <1>9, RunTyped, OnlyStep DEF PipelineOK

\* The closing snapshot, not committed yet
LEMMA StampStep ==
  ASSUME RunsInv, NEW p \in Pipelines, Stamp(p)
  PROVE  RunsInv'
<1>1. PICK total \in Told :
        snaps' = Append(snaps, [by |-> p, total |-> total, worth |-> equity, committed |-> FALSE])
  BY DEF Stamp
<1> DEFINE row0 == [by |-> p, total |-> total, worth |-> equity, committed |-> FALSE]
<1>2. row0 \in SnapshotRows /\ snaps \in Seq(SnapshotRows) /\ row0.by = p
  BY DEF RunsInv, TypeOK, SnapshotRows, Told
<1>3. snaps' = Append(snaps, row0)
  BY <1>1
<1> HIDE DEF row0
<1>4. /\ snaps' \in Seq(SnapshotRows) /\ Len(snaps') = Len(snaps) + 1 /\ Len(snaps) \in Nat
      /\ snaps'[Len(snaps) + 1] = row0 /\ \A i \in 1 .. Len(snaps) : snaps'[i] = snaps[i]
  BY <1>2, <1>3
<1>5. HasSnapshot(p)' /\ \A q \in Pipelines : HasSnapshot(q) => HasSnapshot(q)'
  BY <1>2, <1>4 DEF HasSnapshot
<1>6. TypeOK'
  BY <1>4, RunTyped DEF RunsInv, TypeOK, Stamp, Goto, rows
<1>7. Only(p)
  BY <1>5, RunTyped DEF RunsInv, TypeOK, Stamp, Goto, Only, rows
<1>8. /\ pc[p] = "looping" /\ todo[p] = {} /\ pc'[p] = "saving"
      /\ UNCHANGED <<row, child, stock, todo, decision, events>>
  BY RunTyped DEF RunsInv, TypeOK, Stamp, Goto, rows
<1>9. ChildrenOK(p)' /\ DecisionsOK(p)' /\ RowOK(p)'
  BY <1>5, <1>8, RunTyped DEF PipelineOK, ChildrenOK, DecisionsOK, RowOK, Active, AtStock,
     Ending, Settled
<1> QED BY <1>6, <1>7, <1>9, RunTyped, OnlyStep DEF PipelineOK

\* The commit of the closing snapshot: what it is worth is known.
LEMMA SaveSnapshotStep ==
  ASSUME RunsInv, NEW p \in Pipelines, SaveSnapshot(p)
  PROVE  RunsInv'
<1>1. /\ pc[p] = "saving" /\ pc' = [pc EXCEPT ![p] = "closing"]
      /\ UNCHANGED <<events, equity, row, child, decision, started, stock, todo, read>>
  BY DEF SaveSnapshot, Goto, rows
<1>2. snaps \in Seq(SnapshotRows)
  BY DEF RunsInv, TypeOK
<1> DEFINE Committed(b) == [b EXCEPT !.committed = TRUE]
<1>3. \A b \in SnapshotRows : Committed(b) \in SnapshotRows /\ Committed(b).by = b.by
  BY DEF SnapshotRows
<1>4. /\ snaps' \in Seq(SnapshotRows) /\ Len(snaps') = Len(snaps)
      /\ \A i \in 1 .. Len(snaps) : snaps'[i].by = snaps[i].by
  BY <1>2, <1>3 DEF SaveSnapshot
<1>5. \A q \in Pipelines : HasSnapshot(q) => HasSnapshot(q)'
  BY <1>4 DEF HasSnapshot
<1>6. PICK i \in 1 .. Len(snaps) : snaps[i].by = p
  BY <1>1, RunTyped DEF PipelineOK, RowOK, HasSnapshot
<1>7. \E b \in ToSet(snaps) : b.by = p
  BY <1>2, <1>6 DEF ToSet
<1>8. (CHOOSE b \in ToSet(snaps) : b.by = p) \in SnapshotRows
  <2>1. ToSet(snaps) \subseteq SnapshotRows
    BY <1>2 DEF ToSet
  <2> QED BY <1>7, <2>1
<1>9. dayStart' \in Equities \cup {0}
  BY <1>8 DEF RunsInv, TypeOK, SaveSnapshot, SnapshotRows
<1>10. TypeOK'
  BY <1>1, <1>4, <1>9, RunTyped DEF RunsInv, TypeOK
<1>11. Only(p) /\ pc'[p] = "closing"
  BY <1>1, <1>5, RunTyped DEF RunsInv, TypeOK, Only
<1>12. ChildrenOK(p)' /\ DecisionsOK(p)' /\ RowOK(p)'
  BY <1>1, <1>11, RunTyped DEF PipelineOK, ChildrenOK, DecisionsOK, RowOK, Active, AtStock,
     Ending, Settled
<1> QED BY <1>10, <1>11, <1>12, RunTyped, OnlyStep DEF PipelineOK

\* No snapshot
LEMMA MissSnapshotStep ==
  ASSUME RunsInv, NEW p \in Pipelines, MissSnapshot(p)
  PROVE  RunsInv'
<1>1. TypeOK'
  BY RunTyped DEF RunsInv, TypeOK, MissSnapshot, rows
<1>2. Only(p)
  BY RunTyped DEF RunsInv, TypeOK, MissSnapshot, Only, HasSnapshot, rows
<1>3. /\ (pc[p] = "looping" /\ todo[p] = {}) \/ pc[p] = "saving"
      /\ pc'[p] = "closing" /\ UNCHANGED <<row, child, stock, todo, decision, events>>
  BY RunTyped DEF RunsInv, TypeOK, MissSnapshot, rows
<1>4. ChildrenOK(p)' /\ DecisionsOK(p)' /\ RowOK(p)'
  BY <1>3, RunTyped DEF PipelineOK, ChildrenOK, DecisionsOK, RowOK, Active, AtStock,
     Ending, Settled
<1> QED BY <1>1, <1>2, <1>4, RunTyped, OnlyStep DEF PipelineOK

\* SUCCESS: a pipeline run has been through all of its stocks.
LEMMA CloseStep ==
  ASSUME RunsInv, NEW r \in Runs, NEW from, Close(r, from), r \in Pipelines => from = "closing"
  PROVE  RunsInv'
<1>1. TypeOK'
  BY DEF RunsInv, TypeOK, Close, Goto, SetRow, ExecutionRunRows, Statuses
<1>2. Only(r)
  BY DEF RunsInv, TypeOK, ExecutionRunRows, Close, Goto, SetRow, Only, HasSnapshot
<1>3. /\ pc[r] = from /\ pc'[r] = "done" /\ row'[r] = "SUCCESS"
      /\ UNCHANGED <<child, stock, todo, decision, events>>
  BY DEF RunsInv, TypeOK, ExecutionRunRows, Close, Goto, SetRow
<1>4. ASSUME r \in Pipelines PROVE ChildrenOK(r)' /\ DecisionsOK(r)' /\ RowOK(r)'
  BY <1>3, <1>4, RunTyped DEF PipelineOK, ChildrenOK, DecisionsOK, RowOK, Active, AtStock,
     Ending, Settled
<1> QED BY <1>1, <1>2, <1>4, OnlyStep DEF PipelineOK

\* A run ends before its time, with its row FAILED or, when it is killed, as it is.
LEMMA EndStep ==
  ASSUME RunsInv, NEW r \in Runs, Active(r),
         pc' = [pc EXCEPT ![r] = "done"], Leave(r), todo' = [todo EXCEPT ![r] = {}],
         UNCHANGED <<events, equity, child, decision, started, snaps, dayStart>>,
         SetRow(r, "FAILED") \/ (row' = row /\ (r \in Pipelines => "kill" \in events))
  PROVE  RunsInv'
<1>1. TypeOK'
  BY DEF RunsInv, TypeOK, Leave, SetRow, ExecutionRunRows, Statuses
<1>2. Only(r)
  BY DEF RunsInv, TypeOK, ExecutionRunRows, Leave, SetRow, Only, HasSnapshot
<1>3. pc'[r] = "done" /\ (row'[r] = "FAILED" \/ row' = row)
  BY DEF RunsInv, TypeOK, ExecutionRunRows, SetRow
<1>4. ASSUME r \in Pipelines PROVE ChildrenOK(r)' /\ DecisionsOK(r)' /\ RowOK(r)'
  <2>1. row[r] = "RUNNING"
    BY <1>4, RunTyped DEF PipelineOK, RowOK
  <2>2. row'[r] = "FAILED" \/ (row'[r] = "RUNNING" /\ "kill" \in events)
    BY <1>4, <2>1 DEF RunsInv, TypeOK, ExecutionRunRows, SetRow
  <2> QED BY <1>3, <1>4, <2>2, RunTyped DEF PipelineOK, ChildrenOK, DecisionsOK, RowOK, Active,
          AtStock, Ending, Settled
<1> QED BY <1>1, <1>2, <1>4, OnlyStep DEF PipelineOK
-----------------------------------------------------------------------------
\* A step of a monitor: no pipeline run is touched.
LEMMA MonitorOnly ==
  ASSUME RunsInv, TypeOK', NEW m \in Monitors, Only(m)
  PROVE  RunsInv'
BY RunsAssumption, OnlyStep DEF Runs

LEMMA StartMonitorStep ==
  ASSUME RunsInv, NEW m \in Monitors, NEW b \in SUBSET Stocks, StartMonitor(m, b)
  PROVE  RunsInv'
<1>1. TypeOK'
  BY DEF RunsInv, TypeOK, StartMonitor, Goto, SetRow, ExecutionRunRows, Statuses, Runs
<1>2. Only(m)
  BY DEF RunsInv, TypeOK, ExecutionRunRows, StartMonitor, Goto, SetRow, Only, HasSnapshot, Runs
<1> QED BY <1>1, <1>2, MonitorOnly

LEMMA MonitorStep ==
  ASSUME RunsInv, NEW m \in Monitors, Monitor(m)
  PROVE  RunsInv'
<1> USE DEF Runs
<1>1. ASSUME NEW s \in Stocks, OpenChild(m, s) PROVE RunsInv'
  <2>1. TypeOK'
    BY <1>1 DEF RunsInv, TypeOK, OpenChild, Goto, TraderRunRows, Statuses
  <2>2. Only(m)
    BY <1>1 DEF RunsInv, TypeOK, TraderRunRows, OpenChild, Goto, Only, HasSnapshot
  <2> QED BY <2>1, <2>2, MonitorOnly
<1>2. CASE ExitStock(m)
  <2>1. TypeOK'
    BY <1>2 DEF RunsInv, TypeOK, ExitStock, Goto, Leave, rows
  <2>2. Only(m)
    BY <1>2 DEF RunsInv, TypeOK, ExitStock, Goto, Leave, Only, HasSnapshot, rows
  <2> QED BY <2>1, <2>2, MonitorOnly
<1>3. CASE MonitorFails(m) \/ Kill(m)
  BY <1>3, RunsAssumption, EndStep DEF MonitorFails, Kill, rows
<1>4. CASE Close(m, "looping")
  BY <1>4, RunsAssumption, CloseStep
<1> QED BY <1>1, <1>2, <1>3, <1>4 DEF Monitor

\* Every step of a pipeline run that has started
LEMMA PipelineStep ==
  ASSUME RunsInv, NEW p \in Pipelines, Pipeline(p)
  PROVE  RunsInv'
<1>1. CASE PassOver(p) \/ CloseChild(p)
  BY <1>1, LeaveStep DEF PassOver, CloseChild, Goto, AtStock, Settled
<1>2. CASE ChildFails(p)
  BY <1>2, LeaveStep DEF ChildFails, AtStock, Settled
<1>3. CASE RunFails(p) \/ Kill(p)
  BY <1>3, EndStep DEF RunFails, Kill, rows, Active, Runs
<1>4. CASE Close(p, "closing")
  BY <1>4, CloseStep DEF Runs
<1>5. CASE Stamp(p) \/ SaveSnapshot(p) \/ MissSnapshot(p)
  BY <1>5, StampStep, SaveSnapshotStep, MissSnapshotStep
<1> QED BY <1>1, <1>2, <1>3, <1>4, <1>5, OpenChildStep, AskBalanceStep, DecideStep DEF Pipeline

\* Every step: of the market, of a run, or none.
LEMMA RunsStep == RunsInv /\ [Next]_vars => RunsInv'
<1> SUFFICES ASSUME RunsInv, [Next]_vars PROVE RunsInv'
  OBVIOUS
<1>1. CASE MarketMoves \/ UNCHANGED vars
  <2>1. UNCHANGED <<events, row, child, decision, started, pc, stock, todo, read, snaps,
                 dayStart>>
    BY <1>1 DEF MarketMoves, vars, rows, control
  <2>2. TypeOK'
    BY <1>1, <2>1 DEF RunsInv, TypeOK, MarketMoves, vars
  <2>3. StartedOK' /\ \A p \in Pipelines : PipelineOK(p)'
    BY <2>1 DEF RunsInv, StartedOK, PipelineOK, ChildrenOK, DecisionsOK, RowOK, Active,
       HasSnapshot
  <2> QED BY <2>2, <2>3 DEF RunsInv
<1> QED BY <1>1, StartStep, PipelineStep, MonitorStep, StartMonitorStep DEF Next
-----------------------------------------------------------------------------
\* The rows of runs, stocks, decisions and snapshots keep their types, however
\* many runs there are and wherever they are killed.
THEOREM RunsTyped == Spec => []TypeOK
<1>1. RunsInv => TypeOK
  BY DEF RunsInv
<1> QED BY <1>1, RunsInitInv, RunsStep, PTL DEF Spec

\* A pipeline run that says SUCCESS has a settled child for every stock, and no
\* run leaves more than one child RUNNING (account_executor.py:79-131).
THEOREM EndedRunsSettled == Spec => []EndedRunsAreSettled
<1>1. RunsInv => EndedRunsAreSettled
  BY DEF RunsInv, EndedRunsAreSettled, PipelineOK, ChildrenOK, Settled
<1> QED BY <1>1, RunsInitInv, RunsStep, PTL DEF Spec

\* If no query raises, a stock marked SUCCESS has been decided on.
THEOREM SuccessDecided == Spec => []SuccessMeansDecided
<1>1. RunsInv => SuccessMeansDecided
  BY DEF RunsInv, SuccessMeansDecided, PipelineOK, DecisionsOK
<1> QED BY <1>1, RunsInitInv, RunsStep, PTL DEF Spec

\* When nothing is under way and no worker was killed, the health report tells a
\* last pipeline run that failed from one that did not (health.py).
THEOREM HealthReports == Spec => []HealthTells
<1>1. RunsInv => HealthTells
  <2> SUFFICES ASSUME RunsInv, "kill" \notin events, started # <<>>,
                      \A r \in Runs : ~Active(r), started[Len(started)] \in Pipelines
               PROVE  Healthy <=> row[started[Len(started)]] = "SUCCESS"
    BY DEF HealthTells
  <2>1. started \in Seq(Runs) /\ Len(started) \in 1 .. Len(started)
    BY DEF RunsInv, TypeOK
  <2>2. pc[started[Len(started)]] # "idle" /\ started[Len(started)] \in Runs
    BY <2>1 DEF RunsInv, StartedOK
  <2>3. row[started[Len(started)]] \in Settled
    BY <2>2 DEF RunsInv, PipelineOK, RowOK, Active
  <2> QED BY <2>3 DEF Healthy, Settled
<1> QED BY <1>1, RunsInitInv, RunsStep, PTL DEF Spec
-----------------------------------------------------------------------------
\* What the loss limit rests on, on a day without overlap and empty answers:
\* one run at a time; a snapshot is what the account was worth; the one that
\* is being saved is the last; and the base is the first one committed.
Calm == {"overlap", "empty_answer"} \cap events = {}
OneRun == \A q, r \in Runs : Active(q) /\ Active(r) => q = r
TrueSnapshots == \A i \in 1 .. Len(snaps) : snaps[i].total = snaps[i].worth
SnapshotsEnd == \A i \in 1 .. Len(snaps) : pc[snaps[i].by] \in Ending \cup {"done"}
LastIsSaved ==
  \A p \in Pipelines, i \in 1 .. Len(snaps) :
    pc[p] = "saving" => (snaps[i].by = p <=> i = Len(snaps))
BaseIsDayStart ==
  \/ dayStart = 0 /\ \A i \in 1 .. Len(snaps) : ~snaps[i].committed
  \/ dayStart # 0 /\ Base = {dayStart}
LossInv ==
  Calm => OneRun /\ TrueSnapshots /\ SnapshotsEnd /\ LastIsSaved /\ BaseIsDayStart
-----------------------------------------------------------------------------
\* No snapshot, no base
LEMMA LossInit == Init => LossInv
BY DEF Init, LossInv, OneRun, TrueSnapshots, SnapshotsEnd, LastIsSaved, BaseIsDayStart, Base,
   Active, Runs

\* What a snapshot is
LEMMA SnapshotTyped ==
  ASSUME RunsInv, NEW i \in 1 .. Len(snaps)
  PROVE  /\ snaps[i] \in SnapshotRows /\ snaps[i].by \in Pipelines /\ snaps[i].by \in Runs
         /\ snaps[i].worth \in Nat /\ snaps[i].worth # 0
<1>1. snaps[i] \in SnapshotRows
  BY DEF RunsInv, TypeOK
<1>2. snaps[i].by \in Pipelines /\ snaps[i].worth \in Equities
  BY <1>1 DEF SnapshotRows
<1> QED BY <1>1, <1>2, RunsAssumption DEF Runs

\* A step that leaves the snapshots alone and moves one run, the only one that
\* is active or the first to become so
LEMMA MoveKeepsLoss ==
  ASSUME RunsInv, LossInv, NEW r \in Runs, NEW x, pc' = [pc EXCEPT ![r] = x],
         UNCHANGED <<events, snaps, dayStart>>, x # "saving",
         pc[r] \in Ending => x \in Ending \cup {"done"},
         \/ Active(r)
         \/ pc[r] = "idle" /\ (Calm => \A q \in Runs : ~Active(q))
  PROVE  LossInv'
<1> SUFFICES ASSUME Calm PROVE (OneRun /\ TrueSnapshots /\ SnapshotsEnd /\ LastIsSaved
                                 /\ BaseIsDayStart)'
  BY DEF LossInv, Calm
<1>1. OneRun /\ TrueSnapshots /\ SnapshotsEnd /\ LastIsSaved /\ BaseIsDayStart
  BY DEF LossInv
<1>2. pc'[r] = x /\ \A q \in Runs : q # r => pc'[q] = pc[q]
  BY DEF RunsInv, TypeOK
<1>3. OneRun'
  BY <1>1, <1>2 DEF OneRun, Active
<1>4. TrueSnapshots' /\ BaseIsDayStart'
  BY <1>1 DEF TrueSnapshots, BaseIsDayStart, Base
<1>5. \A i \in 1 .. Len(snaps) : snaps[i].by \in Runs
  BY SnapshotTyped
<1>6. SnapshotsEnd'
  BY <1>1, <1>2, <1>5 DEF SnapshotsEnd, Active, Ending
<1>7. LastIsSaved'
  BY <1>1, <1>2 DEF LastIsSaved, Runs
<1> QED BY <1>3, <1>4, <1>6, <1>7

\* The closing snapshot of the only run, taken at what the account is worth
LEMMA StampKeepsLoss ==
  ASSUME RunsInv, LossInv, NEW p \in Pipelines, Stamp(p)
  PROVE  LossInv'
<1> SUFFICES ASSUME Calm PROVE (OneRun /\ TrueSnapshots /\ SnapshotsEnd /\ LastIsSaved
                                 /\ BaseIsDayStart)'
  BY DEF LossInv, Calm, Stamp
<1>1. OneRun /\ TrueSnapshots /\ SnapshotsEnd /\ LastIsSaved /\ BaseIsDayStart
  BY DEF LossInv
<1>2. /\ snaps' = Append(snaps, [by |-> p, total |-> equity, worth |-> equity,
                                 committed |-> FALSE])
      /\ pc[p] = "looping" /\ pc' = [pc EXCEPT ![p] = "saving"] /\ dayStart' = dayStart
  BY DEF Stamp, Goto, Told, Calm
<1> DEFINE row0 == [by |-> p, total |-> equity, worth |-> equity, committed |-> FALSE]
<1>3. /\ row0 \in SnapshotRows /\ row0.by = p /\ row0.total = row0.worth
      /\ row0.committed = FALSE /\ snaps \in Seq(SnapshotRows)
  BY DEF RunsInv, TypeOK, SnapshotRows
<1>4. snaps' = Append(snaps, row0)
  BY <1>2
<1> HIDE DEF row0
<1>5. /\ Len(snaps') = Len(snaps) + 1 /\ Len(snaps) \in Nat
      /\ snaps'[Len(snaps) + 1] = row0 /\ \A i \in 1 .. Len(snaps) : snaps'[i] = snaps[i]
  BY <1>3, <1>4
<1>6. pc'[p] = "saving" /\ (\A q \in Runs : q # p => pc'[q] = pc[q]) /\ p \in Runs
  BY <1>2 DEF RunsInv, TypeOK, Runs
<1>7. Active(p) /\ \A i \in 1 .. Len(snaps) : snaps[i].by \in Runs /\ snaps[i].by # p
  BY <1>1, <1>2, SnapshotTyped DEF SnapshotsEnd, Active, Ending
<1>8. OneRun'
  BY <1>1, <1>6, <1>7 DEF OneRun, Active
<1>9. TrueSnapshots'
  BY <1>1, <1>3, <1>5 DEF TrueSnapshots
<1>10. SnapshotsEnd'
  BY <1>1, <1>3, <1>5, <1>6, <1>7 DEF SnapshotsEnd, Ending
<1>11. LastIsSaved'
  <2> SUFFICES ASSUME NEW q \in Pipelines, NEW i \in 1 .. Len(snaps'), pc'[q] = "saving"
               PROVE  snaps'[i].by = q <=> i = Len(snaps')
    BY DEF LastIsSaved
  <2>1. q = p
    BY <1>1, <1>6, <1>7 DEF OneRun, Active, Runs
  <2> QED BY <2>1, <1>3, <1>5, <1>7
<1>12. Base' = Base
  <2> DEFINE First(k) == snaps[k].committed /\ \A j \in 1 .. k - 1 : ~snaps[j].committed
             First2(k) == snaps'[k].committed /\ \A j \in 1 .. k - 1 : ~snaps'[j].committed
  <2>1. \A k \in 1 .. Len(snaps) : First(k) <=> First2(k)
    BY <1>5
  <2>2. ~First2(Len(snaps) + 1)
    BY <1>3, <1>5
  <2>3. {k \in 1 .. Len(snaps') : First2(k)} = {k \in 1 .. Len(snaps) : First(k)}
    BY <1>5, <2>1, <2>2
  <2> HIDE DEF First, First2
  <2>4. {snaps'[i].total : i \in {k \in 1 .. Len(snaps') : First2(k)}}
          = {snaps[i].total : i \in {k \in 1 .. Len(snaps) : First(k)}}
    BY <1>5, <2>3
  <2> QED BY <2>4 DEF Base, First, First2
<1>13. (\A i \in 1 .. Len(snaps) : ~snaps[i].committed)
         => \A i \in 1 .. Len(snaps') : ~snaps'[i].committed
  BY <1>3, <1>5
<1> QED BY <1>1, <1>2, <1>8, <1>9, <1>10, <1>11, <1>12, <1>13 DEF BaseIsDayStart

\* The first commit of the day makes the base, and a later one leaves it.
LEMMA SaveKeepsLoss ==
  ASSUME RunsInv, LossInv, NEW p \in Pipelines, SaveSnapshot(p)
  PROVE  LossInv'
<1> SUFFICES ASSUME Calm PROVE (OneRun /\ TrueSnapshots /\ SnapshotsEnd /\ LastIsSaved
                                 /\ BaseIsDayStart)'
  BY DEF LossInv, Calm, SaveSnapshot
<1>1. OneRun /\ TrueSnapshots /\ SnapshotsEnd /\ LastIsSaved /\ BaseIsDayStart
  BY DEF LossInv
<1>2. /\ pc[p] = "saving" /\ pc' = [pc EXCEPT ![p] = "closing"] /\ p \in Runs
      /\ snaps \in Seq(SnapshotRows) /\ Len(snaps) \in Nat
  BY DEF SaveSnapshot, Goto, RunsInv, TypeOK, Runs
<1>3. pc'[p] = "closing" /\ \A q \in Runs : q # p => pc'[q] = pc[q]
  BY <1>2 DEF RunsInv, TypeOK
<1>4. Len(snaps) \in 1 .. Len(snaps)
      /\ \A i \in 1 .. Len(snaps) : snaps[i].by = p <=> i = Len(snaps)
  BY <1>1, <1>2, RunTyped DEF LastIsSaved, PipelineOK, RowOK, HasSnapshot
<1>5. /\ Len(snaps') = Len(snaps)
      /\ \A i \in 1 .. Len(snaps) :
           /\ snaps'[i].by = snaps[i].by /\ snaps'[i].total = snaps[i].total
           /\ snaps'[i].worth = snaps[i].worth
           /\ i # Len(snaps) => snaps'[i].committed = snaps[i].committed
      /\ snaps'[Len(snaps)].committed = TRUE
  <2> DEFINE Committed(b) == [b EXCEPT !.committed = TRUE]
  <2>1. \A b \in SnapshotRows : /\ Committed(b).by = b.by /\ Committed(b).total = b.total
                                /\ Committed(b).worth = b.worth /\ Committed(b).committed = TRUE
    BY DEF SnapshotRows
  <2>2. \A i \in 1 .. Len(snaps) : snaps[i] \in SnapshotRows
    BY <1>2
  <2>3. snaps' = [i \in 1 .. Len(snaps) |->
                    IF snaps[i].by = p THEN Committed(snaps[i]) ELSE snaps[i]]
    BY DEF SaveSnapshot
  <2> HIDE DEF Committed
  <2> QED BY <1>2, <1>4, <2>1, <2>2, <2>3
<1>6. OneRun'
  BY <1>1, <1>2, <1>3 DEF OneRun, Active
<1>7. TrueSnapshots'
  BY <1>1, <1>5 DEF TrueSnapshots
<1>8. SnapshotsEnd'
  <2>1. \A i \in 1 .. Len(snaps) : snaps[i].by \in Runs
    BY SnapshotTyped
  <2> QED BY <1>1, <1>3, <1>5, <2>1 DEF SnapshotsEnd, Ending
<1>9. LastIsSaved'
  <2>1. \A q \in Pipelines : pc'[q] # "saving"
    BY <1>1, <1>2, <1>3 DEF OneRun, Active, Runs
  <2> QED BY <2>1 DEF LastIsSaved
<1> DEFINE n == Len(snaps)
           First(k) == snaps[k].committed /\ \A j \in 1 .. k - 1 : ~snaps[j].committed
           First2(k) == snaps'[k].committed /\ \A j \in 1 .. k - 1 : ~snaps'[j].committed
<1>10. Base = {snaps[i].total : i \in {k \in 1 .. n : First(k)}}
  BY DEF Base
<1>11. Base' = {snaps'[i].total : i \in {k \in 1 .. n : First2(k)}}
  BY <1>5 DEF Base
<1>12. ASSUME Base # {} PROVE BaseIsDayStart'
  <2>1. PICK k \in 1 .. n : First(k)
    BY <1>10, <1>12
  <2>2. First2(k)
    BY <1>2, <1>5, <2>1
  <2>3. \A i \in 1 .. n : First2(i) => i = k
    BY <1>2, <2>2
  <2>4. Base' = {snaps[k].total}
    BY <1>5, <1>11, <2>2, <2>3
  <2>5. Base = {snaps[k].total}
    <3>1. \A i \in 1 .. n : First(i) => i = k
      BY <1>2, <2>1
    <3> QED BY <1>10, <2>1, <3>1
  <2>6. dayStart # 0 /\ Base = {dayStart}
    BY <1>1, <2>1 DEF BaseIsDayStart
  <2>7. dayStart' = dayStart
    BY <1>12 DEF SaveSnapshot
  <2>8. Base' = {dayStart'}
    BY <2>4, <2>5, <2>6, <2>7
  <2> QED BY <2>6, <2>7, <2>8 DEF BaseIsDayStart
<1>13. ASSUME Base = {} PROVE BaseIsDayStart'
  <2>1. dayStart' = snaps[n].worth
    <3>1. \A b \in ToSet(snaps) : b.by = p <=> b = snaps[n]
      BY <1>2, <1>4 DEF ToSet
    <3>2. snaps[n] \in ToSet(snaps)
      BY <1>2, <1>4 DEF ToSet
    <3>3. (CHOOSE b \in ToSet(snaps) : b.by = p) = snaps[n]
      BY <3>1, <3>2
    <3> QED BY <1>13, <3>3 DEF SaveSnapshot
  <2>2. snaps[n].worth # 0
    BY <1>4, SnapshotTyped
  <2>3. \A j \in 1 .. n : ~snaps[j].committed
    BY <1>1, <1>13 DEF BaseIsDayStart
  <2>4. First2(n) /\ \A i \in 1 .. n : First2(i) => i = n
    BY <1>2, <1>4, <1>5, <2>3
  <2>5. Base' = {snaps[n].total}
    BY <1>4, <1>5, <1>11, <2>4
  <2>6. snaps[n].total = snaps[n].worth
    BY <1>1, <1>4 DEF TrueSnapshots
  <2> QED BY <2>1, <2>2, <2>5, <2>6 DEF BaseIsDayStart
<1>14. BaseIsDayStart'
  BY <1>12, <1>13
<1> QED BY <1>6, <1>7, <1>8, <1>9, <1>14

\* Every step keeps what the loss limit rests on.
LEMMA LossStep == RunsInv /\ LossInv /\ [Next]_vars => LossInv'
<1> SUFFICES ASSUME RunsInv, LossInv, [Next]_vars PROVE LossInv'
  OBVIOUS
<1>1. CASE MarketMoves \/ UNCHANGED vars
  <2>1. UNCHANGED <<events, pc, snaps, dayStart>>
    BY <1>1 DEF MarketMoves, vars, control
  <2> QED BY <2>1 DEF LossInv, Calm, OneRun, TrueSnapshots, SnapshotsEnd, LastIsSaved,
          BaseIsDayStart, Base, Active
<1>2. ASSUME NEW p \in Pipelines, Start(p) PROVE LossInv'
  BY <1>2, MoveKeepsLoss DEF Start, Goto, Alone, Calm, Runs, Ending
<1>3. ASSUME NEW p \in Pipelines, Pipeline(p) PROVE LossInv'
  <2> USE DEF Runs
  <2>1. ASSUME NEW s \in Stocks, OpenChild(p, s) PROVE LossInv'
    BY <2>1, MoveKeepsLoss DEF OpenChild, Goto, Active, Ending
  <2>2. CASE PassOver(p) \/ AskBalance(p) \/ Decide(p) \/ CloseChild(p)
    BY <2>2, MoveKeepsLoss DEF PassOver, AskBalance, Decide, CloseChild, Goto, Active, Ending
  <2>3. CASE ChildFails(p) \/ RunFails(p)
    BY <2>3, MoveKeepsLoss DEF ChildFails, RunFails, Active, Ending
  <2>4. CASE MissSnapshot(p) \/ Kill(p) \/ Close(p, "closing")
    BY <2>4, MoveKeepsLoss DEF MissSnapshot, Kill, Close, Goto, Active, Ending
  <2> QED BY <1>3, <2>1, <2>2, <2>3, <2>4, StampKeepsLoss, SaveKeepsLoss DEF Pipeline
<1>4. ASSUME NEW m \in Monitors, Monitor(m) PROVE LossInv'
  <2> USE DEF Runs
  <2>1. ASSUME NEW s \in Stocks, OpenChild(m, s) PROVE LossInv'
    BY <2>1, MoveKeepsLoss DEF OpenChild, Goto, Active, Ending
  <2>2. CASE ExitStock(m)
    BY <2>2, MoveKeepsLoss DEF ExitStock, Goto, Active, Ending
  <2>3. CASE MonitorFails(m) \/ Kill(m) \/ Close(m, "looping")
    BY <2>3, MoveKeepsLoss DEF MonitorFails, Kill, Close, Goto, Active, Ending
  <2> QED BY <1>4, <2>1, <2>2, <2>3 DEF Monitor
<1>5. ASSUME NEW m \in Monitors, NEW b \in SUBSET Stocks, StartMonitor(m, b) PROVE LossInv'
  BY <1>5, MoveKeepsLoss DEF StartMonitor, Goto, Alone, Calm, Runs, Ending
<1> QED BY <1>1, <1>2, <1>3, <1>4, <1>5 DEF Next

\* The limit of a decision: measured against the balance that was read, it is
\* never looser than against the base.
LEMMA LimitMeasured ==
  ASSUME NEW base \in Nat, base # 0, NEW total \in Nat, total > 0, LossLimit \in 1 .. 100,
         ~((base - total) * 100 >= LossLimit * total)
  PROVE  (base - total) * 100 < LossLimit * base
<1>1. CASE base >= total
  <2>1. base - total \in Nat
    BY <1>1
  <2>2. LossLimit * total <= LossLimit * base
    BY <1>1, <2>1
  <2>3. LossLimit * total \in Nat /\ LossLimit * base \in Nat /\ (base - total) * 100 \in Nat
    BY <2>1
  <2> QED BY <2>2, <2>3
<1>2. CASE base < total
  <2>1. (base - total) * 100 < 0
    BY <1>2
  <2>2. LossLimit * base \in Nat /\ LossLimit * base >= 0 /\ (base - total) * 100 \in Int
    OBVIOUS
  <2> QED BY <2>1, <2>2
<1> QED BY <1>1, <1>2

\* Only the decision of a run writes decisions.
LEMMA OthersDecideNothing ==
  ASSUME [Next]_vars, \A p \in Pipelines : ~Decide(p)
  PROVE  decision' = decision
<1>1. ASSUME NEW p \in Pipelines, Pipeline(p) PROVE decision' = decision
  BY <1>1 DEF Pipeline, OpenChild, PassOver, AskBalance, CloseChild, ChildFails, Stamp,
     SaveSnapshot, MissSnapshot, Close, RunFails, Kill, rows
<1>2. ASSUME NEW m \in Monitors, Monitor(m) PROVE decision' = decision
  BY <1>2 DEF Monitor, OpenChild, ExitStock, MonitorFails, Kill, Close, rows
<1> QED BY <1>1, <1>2 DEF Next, MarketMoves, Start, StartMonitor, vars, rows

\* With one run at a time and no error body taken for zero, no purchase is
\* decided on a balance that is below the worth of the account at the first
\* snapshot of the day by the loss limit or more (risk_guard.py, daily_loss_breached
\* and get_day_start_equity).
THEOREM LossLimitStands == Spec => LossLimitHeldAlone
<1>1. RunsInv /\ LossInv /\ [Next]_vars
        => [{"overlap", "empty_answer"} \cap events = {} => WithinLimit]_vars
  <2> SUFFICES ASSUME RunsInv, LossInv, [Next]_vars, Calm, NEW p \in Pipelines, NEW s \in Stocks,
                      decision[p][s] = "none", decision'[p][s] = "BUY", dayStart # 0
               PROVE  (dayStart - read[p]) * 100 < LossLimit * dayStart
    BY DEF WithinLimit, Calm
  <2>1. PICK q \in Pipelines : Decide(q)
    BY OthersDecideNothing
  <2>2. PICK i \in Inputs :
          decision' = [decision EXCEPT ![q][stock[q]] = FinalAction(i, read[q])]
    BY <2>1 DEF Decide, Possible
  <2> DEFINE a == FinalAction(i, read[q])
  <2> HIDE DEF a
  <2>3. q = p /\ a = "BUY"
    BY <2>2, RunTyped DEF RunsInv, TypeOK, DecisionRows, a
  <2>4. ~LossBreached(read[p])
    BY <2>3 DEF a, FinalAction, MayOpen, Vetted
  <2>5. Base = {dayStart}
    BY DEF LossInv, BaseIsDayStart
  <2>6. dayStart \in Nat /\ read[p] \in Nat /\ LossLimit \in 1 .. 100
    <3>1. dayStart \in Equities \cup {0} /\ read[p] \in Equities \cup {0}
      BY RunTyped DEF RunsInv, TypeOK
    <3>2. Equities \subseteq Nat \ {0}
      BY RunsAssumption
    <3>3. LossLimit \in 1 .. 100
      BY RunsAssumption
    <3>4. dayStart \in Nat
      BY <3>1, <3>2, Zenon
    <3>5. read[p] \in Nat
      <4>1. 0 \in Nat
        OBVIOUS
      <4> QED BY <3>1, <3>2, <4>1, Zenon
    <3> QED BY <3>3, <3>4, <3>5
  <2> QED BY <2>4, <2>5, <2>6, LimitMeasured DEF LossBreached
<1> QED BY <1>1, RunsInitInv, RunsStep, LossInit, LossStep, PTL DEF Spec, LossLimitHeldAlone
=============================================================================
