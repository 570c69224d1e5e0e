------------------------------- MODULE Universe -------------------------------
(***************************************************************************)
(* Point-in-time universes: apps/stock/models.py and the two commands that *)
(* write them, import_universe_membership (an index is rebalanced: stocks  *)
(* leave and enter) and sync_collection_universe (the collected stocks,    *)
(* append-only).                                                           *)
(*                                                                         *)
(* Each command takes its instant first and then runs two or three         *)
(* statements outside any transaction; nothing in the table makes an open  *)
(* membership unique.  Commands may run beside each other and may die.     *)
(***************************************************************************)
EXTENDS Naturals, FiniteSets

CONSTANTS
  Members,     \* stocks
  Commands,    \* calls of either command
  LastInstant  \* bound on the clock

ASSUME UniverseConstants ==
  /\ LastInstant \in Nat

VARIABLES
  instant,     \* timezone.now()
  membership,  \* the rows; "by" is the command that inserted a row
  command,     \* command[j]: arguments, progress and what it read
  gone,        \* the commands whose process died
  alone,       \* no command has yet started beside another one
  newest       \* the command whose rows were added last, or "none"

universeVars == <<instant, membership, command, gone, alone, newest>>
-----------------------------------------------------------------------------
Index == "KOSPI200"
Collection == "COLLECTION"
Universes == {Index, Collection}
Instants == 0 .. LastInstant
Open == LastInstant + 1     \* effective_to is NULL

Rows == [universe : Universes, stock : Members, from : Instants,
         to : Instants \cup {Open}, by : Commands]

\* get_universe_stock_ids(universe, at)
MembersAt(universe, at) ==
  {r.stock : r \in {q \in membership : /\ q.universe = universe
                                       /\ q.from <= at
                                       /\ q.to > at}}

OpenRows(universe) ==
  {r \in membership : r.universe = universe /\ r.to = Open}

Running(j) == j \notin gone /\ command[j].stage \in {"read", "retire", "add"}

Step(j, stage) == command[j].stage = stage /\ j \notin gone

Proceed(j, stage, active) ==
  LET c == command[j] IN
  command' = [command EXCEPT ![j] =
    [stage |-> stage, universe |-> c.universe, target |-> c.target,
     at |-> c.at, active |-> active]]
-----------------------------------------------------------------------------
UniverseInit ==
  /\ instant = 0
  /\ membership = {}
  /\ command = [j \in Commands |->
                  [stage |-> "idle", universe |-> Index, target |-> {},
                   at |-> 0, active |-> {}]]
  /\ gone = {}
  /\ alone = TRUE
  /\ newest = "none"

\* A command without symbols is refused before it reads anything; symbols that
\* are no stock are dropped silently, all of them if need be.
BeginCommand(j) ==
  /\ Step(j, "idle")
  /\ \E u \in Universes, target \in SUBSET Members :
       command' = [command EXCEPT ![j] =
         [stage |-> "read", universe |-> u, target |-> target,
          at |-> instant, active |-> {}]]
  /\ alone' = (alone /\ ~ \E k \in Commands : Running(k))
  /\ newest' = "none"
  /\ UNCHANGED <<instant, membership, gone>>

ReadActive(j) ==
  /\ Step(j, "read")
  /\ Proceed(j, IF command[j].universe = Index THEN "retire" ELSE "add",
             {r.stock : r \in OpenRows(command[j].universe)})
  /\ UNCHANGED <<instant, membership, gone, alone, newest>>

Closed(r, at) == [universe |-> r.universe, stock |-> r.stock,
                  from |-> r.from, to |-> at, by |-> r.by]

\* wrong: the rows of leavers are deleted
DeleteLeavers(j) ==
  /\ Step(j, "retire")
  /\ membership' = {r \in membership : r \in OpenRows(Index) => r.stock \in command[j].target}
  /\ Proceed(j, "add", command[j].active)
  /\ UNCHANGED <<instant, gone, alone, newest>>

\* rebalance_universe only: the stocks that are not on the list leave.
RetireLeavers(j) ==
  /\ Step(j, "retire")
  /\ LET leavers == {r \in OpenRows(Index) : r.stock \notin command[j].target}
     IN membership' = (membership \ leavers)
                        \cup {Closed(r, command[j].at) : r \in leavers}
  /\ Proceed(j, "add", command[j].active)
  /\ UNCHANGED <<instant, gone, alone, newest>>

\* wrong: members are entered again
AddEveryone(j) ==
  /\ Step(j, "add")
  /\ LET c == command[j] IN
     membership' = membership \cup
       {[universe |-> c.universe, stock |-> s, from |-> c.at, to |-> Open,
         by |-> j] : s \in c.target}
  /\ Proceed(j, "done", command[j].active)
  /\ newest' = j
  /\ UNCHANGED <<instant, gone, alone>>

AddEntrants(j) ==
  /\ Step(j, "add")
  /\ LET c == command[j] IN
     membership' = membership \cup
       {[universe |-> c.universe, stock |-> s, from |-> c.at, to |-> Open,
         by |-> j] : s \in c.target \ c.active}
  /\ Proceed(j, "done", command[j].active)
  /\ newest' = j
  /\ UNCHANGED <<instant, gone, alone>>

KillCommand(j) ==
  /\ Running(j)
  /\ gone' = gone \cup {j}
  /\ UNCHANGED <<instant, membership, command, alone, newest>>

PassTime ==
  /\ instant < LastInstant
  /\ instant' = instant + 1
  /\ UNCHANGED <<membership, command, gone, alone, newest>>

UniverseNext ==
  \/ \E j \in Commands : \/ BeginCommand(j)
                         \/ ReadActive(j)
                         \/ RetireLeavers(j)
                         \/ AddEntrants(j)
                         \/ KillCommand(j)
  \/ PassTime

UniverseSpec == UniverseInit /\ [][UniverseNext]_universeVars
-----------------------------------------------------------------------------
UniverseTypeOK ==
  /\ instant \in Instants
  /\ membership \in SUBSET Rows
  /\ command \in [Commands ->
       [stage : {"idle", "read", "retire", "add", "done"},
        universe : Universes, target : SUBSET Members, at : Instants,
        active : SUBSET Members]]
  /\ gone \in SUBSET Commands
  /\ alone \in BOOLEAN
  /\ newest \in Commands \cup {"none"}

\* The instants every running command took are not later than the present.
SettledBefore(t) ==
  /\ t < instant
  /\ \A j \in Commands : Running(j) => t < command[j].at

\* A backtest that asks who was in a universe at a past instant gets the same
\* answer for ever, once no command that took an earlier instant is running
\* (the survivorship bias that rebalance_universe's docstring is about).
HistoryIsStable ==
  [][\A u \in Universes, t \in Instants :
       SettledBefore(t) => MembersAt(u, t)' = MembersAt(u, t)]_universeVars

\* While commands do not run beside each other, a stock has one open
\* membership per universe, and after a rebalance that was not cut short the
\* index holds exactly the stocks it was given.
UniverseIsAsAsked ==
  alone =>
    /\ \A u \in Universes : \A r, q \in OpenRows(u) : r.stock = q.stock => r = q
    /\ (newest # "none" /\ command[newest].universe = Index) =>
         {r.stock : r \in OpenRows(Index)} = command[newest].target

\* A stock that is collected stays collected, whatever runs beside whatever.
CollectionOnlyGrows == [][OpenRows(Collection) \subseteq OpenRows(Collection)']_universeVars
=============================================================================
