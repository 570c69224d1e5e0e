---------------------------- MODULE ServiceProofs -----------------------------
(***************************************************************************)
(* Proofs about the tables and files that several processes share without  *)
(* a lock: the tokens (BrokerTokens), for any number of workers; the       *)
(* universes (Universe), for any stocks and any number of commands;        *)
(* training, deployment and inference (Deployment), for any number of      *)
(* calls, stocks, versions and readers, processes that die included; and   *)
(* the features of a run and of a data set (Features), for any candles and *)
(* any window.                                                             *)
(*                                                                         *)
(* The argument about Deployment: a call that has created its artifact row *)
(* owns it (the unique constraint lets no second call do so), and whoever  *)
(* opens the file of a version stays visible as one that did.              *)
(*                                                                         *)
(* The argument about Features: the order of the candles is built minute   *)
(* by minute (IsAscent), so what lies up to a minute begins the order of   *)
(* all, whatever comes later (Begins), and two readings of it differ only  *)
(* where a minute has two candles.  A run's snapshot is remembered as what *)
(* it knew and one order of it (FeatureInv).                               *)
(***************************************************************************)
EXTENDS BrokerTokens, Universe, Deployment, Features, FoldLemmas

WorkerStages == {"idle", "issue", "store", "send", "answered", "refused"}
WorkerRecords == [stage : WorkerStages, ends : Nat]

\* No row promises more than a lifetime from now.
PromisesEnd == \A k \in tokens : k.expires <= tick + Lifetime

\* What is inductive: the bound is what makes "the row that lasts longest" exist.
TokenInv == TokenTypeOK /\ PromisesEnd /\ OneLiveTokenPerWorker
-----------------------------------------------------------------------------
\* A set of rows whose expiry is bounded has one that lasts longest.
LEMMA LongestExists ==
  ASSUME NEW S, S # {}, S \subseteq Tokens, NEW B \in Nat, \A k \in S : k.expires <= B
  PROVE  Longest(S) \in S
<1> DEFINE Left == {B - k.expires : k \in S}
<1>1. \A k \in S : k.expires \in Nat /\ B - k.expires \in Nat
  BY DEF Tokens
<1>2. Left \subseteq Nat /\ Left # {}
  BY <1>1
<1>3. PICK n \in Left : \A m \in Left : n <= m
  <2> HIDE DEF Left
  <2>1. PICK n \in Left : \A m \in Left : <<m, n>> \notin OpToRel(<, Nat)
    BY <1>2, NatLessThanWellFounded, WFMin
  <2>2. \A m \in Left : ~(m < n)
    BY <1>2, <2>1 DEF OpToRel
  <2> QED BY <1>2, <2>2
<1>4. PICK k \in S : n = B - k.expires
  BY <1>3
<1>5. \A m \in S : m.expires <= k.expires
  <2> SUFFICES ASSUME NEW m \in S PROVE m.expires <= k.expires
    OBVIOUS
  <2>1. B - k.expires <= B - m.expires
    BY <1>3, <1>4
  <2> QED BY <2>1, <1>1
<1> QED BY <1>4, <1>5 DEF Longest

\* A worker that goes on keeps its type and changes nobody else.
LEMMA HoldTyped ==
  ASSUME TokenTypeOK, NEW w \in Workers, NEW ends \in Nat, NEW stage \in WorkerStages,
         Hold(w, stage, ends)
  PROVE  /\ worker' \in [Workers -> WorkerRecords]
         /\ worker'[w].stage = stage
         /\ \A u \in Workers \ {w} : worker'[u] = worker[u]
<1>1. worker \in [Workers -> WorkerRecords]
  BY DEF TokenTypeOK, WorkerRecords, WorkerStages
<1>2. [stage |-> stage, ends |-> ends] \in WorkerRecords
  BY DEF WorkerRecords
<1> QED BY <1>1, <1>2 DEF Hold

\* The empty table satisfies the invariant.
LEMMA TokenInitInv == TokenInit => TokenInv
<1> SUFFICES ASSUME TokenInit PROVE TokenInv
  OBVIOUS
<1>1. TokenTypeOK
  BY DEF TokenInit, TokenTypeOK, Tokens
<1> QED BY <1>1 DEF TokenInit, TokenInv, PromisesEnd, OneLiveTokenPerWorker, Valid

\* A step of one worker that stores nothing keeps the invariant, provided it
\* goes to "issue" or "store" only without a valid row of its own.
LEMMA HoldKeeps ==
  ASSUME TokenInv, NEW w \in Workers, NEW ends \in Nat, NEW stage \in WorkerStages,
         Hold(w, stage, ends), UNCHANGED <<tick, tokens>>,
         stage \in {"issue", "store"} => \A a \in Valid : a.by # w
  PROVE  TokenInv'
<1>1. TokenTypeOK'
  BY HoldTyped DEF TokenInv, TokenTypeOK, WorkerRecords, WorkerStages
<1>2. PromisesEnd'
  BY DEF TokenInv, PromisesEnd
<1>3. Valid' = Valid /\ Valid \subseteq Tokens
  BY DEF TokenInv, Valid, TokenTypeOK
<1>4. OneLiveTokenPerWorker'
  <2>1. \A a, b \in Valid : a.by = b.by => a = b
    BY DEF TokenInv, OneLiveTokenPerWorker
  <2>2. ASSUME NEW a \in Valid PROVE worker'[a.by].stage \notin {"issue", "store"}
    <3>1. a.by \in Workers
      BY <1>3 DEF Tokens
    <3>2. worker[a.by].stage \notin {"issue", "store"}
      BY DEF TokenInv, OneLiveTokenPerWorker
    <3>3. CASE a.by = w
      BY <3>3, HoldTyped DEF TokenInv
    <3>4. CASE a.by # w
      BY <3>1, <3>2, <3>4, HoldTyped DEF TokenInv
    <3> QED BY <3>3, <3>4
  <2> QED BY <1>3, <2>1, <2>2 DEF OneLiveTokenPerWorker
<1> QED BY <1>1, <1>2, <1>4 DEF TokenInv

\* Looking into the table: "issue" is reached only while no row is valid.
LEMMA GetStep ==
  ASSUME TokenInv, NEW w \in Workers, GetAccessToken(w)
  PROVE  TokenInv'
<1>1. CASE Valid # {}
  <2>1. Valid \subseteq Tokens /\ tick + Lifetime \in Nat
    BY TokenConstants DEF TokenInv, TokenTypeOK, Valid
  <2>2. \A k \in Valid : k.expires <= tick + Lifetime
    BY DEF TokenInv, PromisesEnd, Valid
  <2>3. Longest(Valid) \in Valid
    BY <1>1, <2>1, <2>2, LongestExists
  <2>4. Longest(Valid).ends \in Nat
    BY <2>1, <2>3 DEF Tokens
  <2>5. Hold(w, "send", Longest(Valid).ends) /\ UNCHANGED <<tick, tokens>>
    BY <1>1 DEF GetAccessToken
  <2> QED BY <2>4, <2>5, HoldKeeps DEF WorkerStages
<1>2. CASE Valid = {}
  <2>1. Hold(w, "issue", 0) /\ UNCHANGED <<tick, tokens>>
    BY <1>2 DEF GetAccessToken
  <2> QED BY <1>2, <2>1, HoldKeeps DEF WorkerStages
<1> QED BY <1>1, <1>2

\* A worker at "issue" or "store" holds no valid row.
LEMMA NoneOfItsOwn ==
  ASSUME TokenInv, NEW w, worker[w].stage \in {"issue", "store"}
  PROVE  \A a \in Valid : a.by # w
BY DEF TokenInv, OneLiveTokenPerWorker

\* A token the broker has issued is not in the table yet.
LEMMA IssueStep ==
  ASSUME TokenInv, NEW w \in Workers, IssueAccessToken(w)
  PROVE  TokenInv'
<1>1. tick + Lifetime \in Nat
  BY TokenConstants DEF TokenInv, TokenTypeOK
<1>2. \A a \in Valid : a.by # w
  BY NoneOfItsOwn DEF IssueAccessToken
<1>3. CASE Hold(w, "store", tick + Lifetime)
  BY <1>1, <1>2, <1>3, HoldKeeps DEF IssueAccessToken, WorkerStages
<1>4. CASE Hold(w, "idle", 0)
  BY <1>4, HoldKeeps DEF IssueAccessToken, WorkerStages
<1> QED BY <1>3, <1>4 DEF IssueAccessToken

\* Sending ends at a stage that wants no token.
LEMMA SendStep ==
  ASSUME TokenInv, NEW w \in Workers, SendRequest(w)
  PROVE  TokenInv'
BY HoldKeeps DEF SendRequest, WorkerStages

\* The row that is stored is the only valid one of its worker.
LEMMA StoreStep ==
  ASSUME TokenInv, NEW w \in Workers, StoreToken(w)
  PROVE  TokenInv'
<1> DEFINE row == [by |-> w, ends |-> worker[w].ends, expires |-> tick + Lifetime]
<1>0. /\ worker[w].stage = "store"
      /\ tokens' = tokens \cup {row}
      /\ Hold(w, "send", worker[w].ends)
      /\ tick' = tick
  BY DEF StoreToken
<1>1. worker[w].ends \in Nat /\ tick \in Nat /\ tick + Lifetime \in Nat
  BY TokenConstants DEF TokenInv, TokenTypeOK
<1>2. row \in Tokens /\ row.by = w /\ row.expires = tick + Lifetime
  BY <1>1 DEF Tokens
<1> HIDE DEF row
<1>3. TokenTypeOK'
  <2>1. tokens' \subseteq Tokens
    BY <1>0, <1>2 DEF TokenInv, TokenTypeOK
  <2>2. worker' \in [Workers -> WorkerRecords]
    BY <1>0, <1>1, HoldTyped DEF TokenInv, WorkerStages
  <2> QED BY <1>0, <1>1, <2>1, <2>2 DEF TokenTypeOK, WorkerRecords, WorkerStages
<1>4. PromisesEnd'
  BY <1>0, <1>1, <1>2 DEF TokenInv, PromisesEnd
<1>5. Valid' \subseteq Valid \cup {row} /\ Valid \subseteq Tokens
  BY <1>0 DEF Valid, TokenInv, TokenTypeOK
<1>6. \A a \in Valid : a.by # w
  BY <1>0, NoneOfItsOwn
<1>7. \A a, b \in Valid' : a.by = b.by => a = b
  BY <1>2, <1>5, <1>6 DEF TokenInv, OneLiveTokenPerWorker
<1>8. ASSUME NEW a \in Valid' PROVE worker'[a.by].stage \notin {"issue", "store"}
  <2>1. worker'[w].stage = "send" /\ \A u \in Workers \ {w} : worker'[u] = worker[u]
    BY <1>0, <1>1, HoldTyped DEF TokenInv, WorkerStages
  <2>2. CASE a = row
    BY <1>2, <2>1, <2>2
  <2>3. CASE a \in Valid
    <3>1. a.by \in Workers \ {w}
      BY <1>5, <1>6, <2>3 DEF Tokens
    <3>2. worker[a.by].stage \notin {"issue", "store"}
      BY <2>3 DEF TokenInv, OneLiveTokenPerWorker
    <3> QED BY <2>1, <3>1, <3>2
  <2> QED BY <1>5, <2>2, <2>3
<1>9. OneLiveTokenPerWorker'
  BY <1>7, <1>8 DEF OneLiveTokenPerWorker
<1> QED BY <1>3, <1>4, <1>9 DEF TokenInv

\* As time passes rows only become invalid.
LEMMA WaitStep ==
  ASSUME TokenInv, Wait
  PROVE  TokenInv'
<1>1. tick \in Nat /\ tick' = tick + 1 /\ tokens' = tokens /\ worker' = worker
  BY DEF TokenInv, TokenTypeOK, Wait
<1>2. tokens \subseteq Tokens /\ \A k \in tokens : k.expires \in Nat
  BY DEF TokenInv, TokenTypeOK, Tokens
<1>3. TokenTypeOK'
  BY <1>1 DEF TokenInv, TokenTypeOK
<1>4. PromisesEnd'
  BY <1>1, <1>2, TokenConstants DEF TokenInv, PromisesEnd
<1>5. Valid' \subseteq Valid
  BY <1>1, <1>2 DEF Valid
<1>6. OneLiveTokenPerWorker'
  BY <1>1, <1>5 DEF TokenInv, OneLiveTokenPerWorker
<1> QED BY <1>3, <1>4, <1>6 DEF TokenInv

\* Every step of every worker, and of the clock, keeps the invariant.
LEMMA TokenStep == TokenInv /\ [TokenNext]_tokenVars => TokenInv'
<1> SUFFICES ASSUME TokenInv, [TokenNext]_tokenVars PROVE TokenInv'
  OBVIOUS
<1>1. CASE \E w \in Workers : GetAccessToken(w)
  BY <1>1, GetStep
<1>2. CASE \E w \in Workers : IssueAccessToken(w)
  BY <1>2, IssueStep
<1>3. CASE \E w \in Workers : StoreToken(w)
  BY <1>3, StoreStep
<1>4. CASE \E w \in Workers : SendRequest(w)
  BY <1>4, SendStep
<1>5. CASE Wait
  BY <1>5, WaitStep
<1>6. CASE UNCHANGED tokenVars
  BY <1>6 DEF tokenVars, TokenInv, TokenTypeOK, PromisesEnd, OneLiveTokenPerWorker, Valid
<1> QED BY <1>1, <1>2, <1>3, <1>4, <1>5, <1>6 DEF TokenNext
-----------------------------------------------------------------------------
\* The table and the workers keep their types: in particular there always is a
\* row that lasts longest among the valid ones.
THEOREM TokensTyped == TokenSpec => []TokenTypeOK
<1>1. TokenInv => TokenTypeOK
  BY DEF TokenInv
<1> QED BY <1>1, TokenInitInv, TokenStep, PTL DEF TokenSpec

\* Whatever the interleaving, no worker has two live tokens, and none asks for
\* one while it has one (client.py:38-53).
THEOREM OneLiveToken == TokenSpec => []OneLiveTokenPerWorker
<1>1. TokenInv => OneLiveTokenPerWorker
  BY DEF TokenInv
<1> QED BY <1>1, TokenInitInv, TokenStep, PTL DEF TokenSpec
-----------------------------------------------------------------------------

UniverseStages == {"idle", "read", "retire", "add", "done"}
CommandRecords == [stage : UniverseStages, universe : Universes,
                   target : SUBSET Members, at : Instants, active : SUBSET Members]

OpenStocks(universe) == {r.stock : r \in OpenRows(universe)}

OneOpenRow(universe) ==
  \A r, q \in OpenRows(universe) : r.stock = q.stock => r = q

\* What a command has read, and retired, still is so.
ReadingHolds(j) ==
  LET c == command[j] IN
  /\ c.stage = "retire" => c.universe = Index /\ OpenStocks(Index) = c.active
  /\ c.stage = "add" =>
       OpenStocks(c.universe) =
         IF c.universe = Index THEN c.active \cap c.target ELSE c.active

IndexIsNewest ==
  (newest # "none" /\ command[newest].universe = Index)
    => OpenStocks(Index) = command[newest].target

\* While commands do not run beside each other
AloneInv ==
  /\ \A j, k \in Commands : Running(j) /\ Running(k) => j = k
  /\ newest # "none" => \A j \in Commands : ~Running(j)
  /\ \A u \in Universes : OneOpenRow(u)
  /\ \A j \in Commands : Running(j) => ReadingHolds(j)
  /\ IndexIsNewest

UniverseInv == UniverseTypeOK /\ (alone => AloneInv)

\* NULL is later than every instant.
LEMMA OpenIsNoInstant == Open \notin Instants /\ \A t \in Instants : t < Open
BY UniverseConstants DEF Open, Instants

\* The type of one command, field by field.
LEMMA CommandTyped ==
  ASSUME UniverseTypeOK, NEW j \in Commands
  PROVE  /\ command[j].stage \in UniverseStages
         /\ command[j].universe \in Universes
         /\ command[j].target \in SUBSET Members
         /\ command[j].at \in Instants
         /\ command[j].active \in SUBSET Members
BY DEF UniverseTypeOK, UniverseStages

\* A command that proceeds keeps its arguments, and the others stay where they are.
LEMMA ProceedTyped ==
  ASSUME UniverseTypeOK, NEW j \in Commands, NEW stage \in UniverseStages,
         NEW active \in SUBSET Members, Proceed(j, stage, active)
  PROVE  /\ command' \in [Commands -> CommandRecords]
         /\ command'[j].stage = stage
         /\ command'[j].active = active
         /\ command'[j].universe = command[j].universe
         /\ command'[j].target = command[j].target
         /\ command'[j].at = command[j].at
         /\ \A k \in Commands \ {j} : command'[k] = command[k]
<1> DEFINE c == command[j]
           new == [stage |-> stage, universe |-> c.universe, target |-> c.target,
                   at |-> c.at, active |-> active]
<1>1. new \in CommandRecords
  BY CommandTyped DEF CommandRecords
<1>2. command \in [Commands -> CommandRecords]
  BY DEF UniverseTypeOK, CommandRecords, UniverseStages
<1>3. command' = [command EXCEPT ![j] = new]
  BY DEF Proceed
<1>4. command'[j] = new /\ \A k \in Commands \ {j} : command'[k] = command[k]
  BY <1>2, <1>3
<1>5. command' \in [Commands -> CommandRecords]
  BY <1>1, <1>2, <1>3
<1> QED BY <1>4, <1>5

\* What the two writing statements do to the open rows
LEMMA RetireOpens ==
  ASSUME UniverseTypeOK, NEW j \in Commands, RetireLeavers(j)
  PROVE  /\ OpenRows(Index)' = {r \in OpenRows(Index) : r.stock \in command[j].target}
         /\ OpenRows(Collection)' = OpenRows(Collection)
         /\ membership' \subseteq Rows
<1> DEFINE leavers == {r \in OpenRows(Index) : r.stock \notin command[j].target}
           closed == {Closed(r, command[j].at) : r \in leavers}
<1>1. membership' = (membership \ leavers) \cup closed
  BY DEF RetireLeavers
<1>2. command[j].at \in Instants
  BY CommandTyped
<1>3. leavers \subseteq membership /\ membership \subseteq Rows
  BY DEF OpenRows, UniverseTypeOK
<1>4. \A r \in closed : r \in Rows /\ r.to \in Instants
  BY <1>2, <1>3 DEF Closed, Rows
<1>5. \A r \in leavers : r.universe = Index
  BY DEF OpenRows
<1> HIDE DEF closed
<1>6. OpenRows(Index)' = {r \in membership : r.universe = Index /\ r.to = Open} \ leavers
  BY <1>1, <1>4, OpenIsNoInstant DEF OpenRows
<1>7. OpenRows(Collection)' = OpenRows(Collection)
  BY <1>1, <1>4, <1>5, OpenIsNoInstant DEF OpenRows, Index, Collection
<1> QED BY <1>1, <1>3, <1>4, <1>6, <1>7 DEF OpenRows

\* The rows AddEntrants adds
Entrants(j) ==
  {[universe |-> command[j].universe, stock |-> s, from |-> command[j].at,
    to |-> Open, by |-> j] : s \in command[j].target \ command[j].active}

\* The rows a command adds: open, and of the stocks that were missing.
LEMMA EntrantsAre ==
  ASSUME NEW j
  PROVE  /\ \A r \in Entrants(j) :
              /\ r.universe = command[j].universe /\ r.from = command[j].at
              /\ r.to = Open /\ r.by = j
              /\ r.stock \in command[j].target \ command[j].active
         /\ \A r, q \in Entrants(j) : r.stock = q.stock => r = q
         /\ {r.stock : r \in Entrants(j)} = command[j].target \ command[j].active
<1> DEFINE Row(s) == [universe |-> command[j].universe, stock |-> s,
                      from |-> command[j].at, to |-> Open, by |-> j]
           S == command[j].target \ command[j].active
<1>1. Entrants(j) = {Row(s) : s \in S}
  BY DEF Entrants
<1>2. \A s : /\ Row(s).universe = command[j].universe /\ Row(s).from = command[j].at
             /\ Row(s).to = Open /\ Row(s).by = j /\ Row(s).stock = s
  OBVIOUS
<1> HIDE DEF Row, S
<1>3. \A r \in Entrants(j) : \E s \in S : r = Row(s)
  BY <1>1
<1>4. \A r \in Entrants(j) : r.stock \in S /\ r = Row(r.stock)
  BY <1>2, <1>3
<1>5. \A s \in S : Row(s) \in Entrants(j)
  BY <1>1
<1>6. {r.stock : r \in Entrants(j)} = S
  BY <1>2, <1>4, <1>5
<1> QED BY <1>2, <1>4, <1>6 DEF S

\* Adding them touches the open rows of the command's universe only.
LEMMA AddOpens ==
  ASSUME UniverseTypeOK, NEW j \in Commands, AddEntrants(j),
         NEW CONSTANT u, u = command[j].universe
  PROVE  /\ OpenRows(u)' = OpenRows(u) \cup Entrants(j)
         /\ \A v \in Universes \ {u} : OpenRows(v)' = OpenRows(v)
         /\ membership' \subseteq Rows
<1>1. membership' = membership \cup Entrants(j)
  BY DEF AddEntrants, Entrants
<1>2. \A r \in Entrants(j) : r \in Rows /\ r.universe = u /\ r.to = Open
  BY CommandTyped DEF Rows, Entrants
<1>3. membership \subseteq Rows
  BY DEF UniverseTypeOK
<1>4. OpenRows(u)' = OpenRows(u) \cup Entrants(j)
  BY <1>1, <1>2 DEF OpenRows
<1>5. ASSUME NEW v \in Universes \ {u} PROVE OpenRows(v)' = OpenRows(v)
  BY <1>1, <1>2 DEF OpenRows
<1> QED BY <1>1, <1>2, <1>3, <1>4, <1>5
-----------------------------------------------------------------------------
\* Empty universes satisfy the invariant.
LEMMA UniverseInitInv == UniverseInit => UniverseInv
<1> SUFFICES ASSUME UniverseInit PROVE UniverseInv
  OBVIOUS
<1>1. UniverseTypeOK
  BY UniverseConstants DEF UniverseInit, UniverseTypeOK, Instants, Universes, Rows
<1>2. AloneInv
  BY DEF UniverseInit, AloneInv, Running, OneOpenRow, OpenRows, IndexIsNewest
<1> QED BY <1>1, <1>2 DEF UniverseInv

\* Starting: whoever starts beside another one ends what is said of "alone".
LEMMA BeginStep ==
  ASSUME UniverseInv, NEW j \in Commands, BeginCommand(j)
  PROVE  UniverseInv'
<1>1. PICK u \in Universes, target \in SUBSET Members :
        command' = [command EXCEPT ![j] =
          [stage |-> "read", universe |-> u, target |-> target,
           at |-> instant, active |-> {}]]
  BY DEF BeginCommand
<1> DEFINE new == [stage |-> "read", universe |-> u, target |-> target,
                   at |-> instant, active |-> {}]
<1>2. new \in CommandRecords
  BY DEF CommandRecords, UniverseStages, UniverseInv, UniverseTypeOK
<1>3. command \in [Commands -> CommandRecords]
  BY DEF UniverseInv, UniverseTypeOK, CommandRecords, UniverseStages
<1>4. /\ command' \in [Commands -> CommandRecords]
      /\ command'[j] = new
      /\ \A k \in Commands \ {j} : command'[k] = command[k]
  BY <1>1, <1>2, <1>3
<1>5. /\ alone' = (alone /\ ~ \E k \in Commands : Running(k))
      /\ newest' = "none"
      /\ UNCHANGED <<instant, membership, gone>>
  BY DEF BeginCommand
<1>6. UniverseTypeOK'
  BY <1>4, <1>5 DEF UniverseInv, UniverseTypeOK, CommandRecords, UniverseStages
<1>7. ASSUME alone' PROVE AloneInv'
  <2>1. alone /\ \A k \in Commands : ~Running(k)
    BY <1>5, <1>7
  <2>2. AloneInv
    BY <2>1 DEF UniverseInv
  <2>3. \A k \in Commands \ {j} : ~Running(k)'
    BY <1>4, <1>5, <2>1 DEF Running
  <2>4. \A v : OpenRows(v)' = OpenRows(v)
    BY <1>5 DEF OpenRows
  <2>5. \A v \in Universes : OneOpenRow(v)'
    BY <2>2, <2>4 DEF AloneInv, OneOpenRow
  <2>6. ReadingHolds(j)'
    BY <1>4 DEF ReadingHolds
  <2> QED BY <1>5, <2>3, <2>5, <2>6 DEF AloneInv, IndexIsNewest
<1> QED BY <1>6, <1>7 DEF UniverseInv

\* Reading: what a command has read holds as long as it is alone.
LEMMA ReadStep ==
  ASSUME UniverseInv, NEW j \in Commands, ReadActive(j)
  PROVE  UniverseInv'
<1> DEFINE u == command[j].universe
           stage == IF u = Index THEN "retire" ELSE "add"
<1>1. OpenStocks(u) \in SUBSET Members
  BY DEF OpenStocks, OpenRows, UniverseInv, UniverseTypeOK, Rows
<1>2. stage \in UniverseStages
  BY DEF UniverseStages
<1>3. Proceed(j, stage, OpenStocks(u)) /\ UNCHANGED <<instant, membership, gone, alone, newest>>
  BY DEF ReadActive, OpenStocks
<1>4. /\ command' \in [Commands -> CommandRecords]
      /\ command'[j].stage = stage
      /\ command'[j].active = OpenStocks(u)
      /\ command'[j].universe = u
      /\ command'[j].target = command[j].target
      /\ \A k \in Commands \ {j} : command'[k] = command[k]
  BY <1>1, <1>2, <1>3, ProceedTyped DEF UniverseInv
<1>5. UniverseTypeOK'
  BY <1>3, <1>4 DEF UniverseInv, UniverseTypeOK, CommandRecords, UniverseStages
<1>6. ASSUME alone' PROVE AloneInv'
  <2>1. alone /\ AloneInv /\ Running(j)
    BY <1>3, <1>6 DEF UniverseInv, ReadActive, Step, Running
  <2>2. \A k \in Commands : Running(k)' => k = j
    BY <1>3, <1>4, <2>1 DEF Running, AloneInv
  <2>3. newest' = "none"
    BY <1>3, <2>1 DEF AloneInv
  <2>4. \A v : OpenRows(v)' = OpenRows(v)
    BY <1>3 DEF OpenRows
  <2>5. \A v : OpenStocks(v)' = OpenStocks(v)
    BY <2>4 DEF OpenStocks
  <2>6. \A v \in Universes : OneOpenRow(v)'
    BY <2>1, <2>4 DEF AloneInv, OneOpenRow
  <2>7. ReadingHolds(j)'
    BY <1>4, <2>5 DEF ReadingHolds
  <2> QED BY <2>2, <2>3, <2>6, <2>7 DEF AloneInv, IndexIsNewest
<1> QED BY <1>5, <1>6 DEF UniverseInv

\* Retiring: of the open rows of the index, those on the list remain.
LEMMA RetireStep ==
  ASSUME UniverseInv, NEW j \in Commands, RetireLeavers(j)
  PROVE  UniverseInv'
<1>1. command[j].active \in SUBSET Members /\ "add" \in UniverseStages
  BY CommandTyped DEF UniverseInv, UniverseStages
<1>2. /\ Proceed(j, "add", command[j].active)
      /\ command[j].stage = "retire" /\ j \notin gone
      /\ UNCHANGED <<instant, gone, alone, newest>>
  BY DEF RetireLeavers, Step
<1>3. /\ command' \in [Commands -> CommandRecords]
      /\ command'[j].stage = "add"
      /\ command'[j].active = command[j].active
      /\ command'[j].universe = command[j].universe
      /\ command'[j].target = command[j].target
      /\ \A k \in Commands \ {j} : command'[k] = command[k]
  BY <1>1, <1>2, ProceedTyped DEF UniverseInv
<1>4. /\ OpenRows(Index)' = {r \in OpenRows(Index) : r.stock \in command[j].target}
      /\ OpenRows(Collection)' = OpenRows(Collection)
      /\ membership' \subseteq Rows
  BY RetireOpens DEF UniverseInv
<1>5. UniverseTypeOK'
  BY <1>2, <1>3, <1>4 DEF UniverseInv, UniverseTypeOK, CommandRecords, UniverseStages
<1>6. ASSUME alone' PROVE AloneInv'
  <2>1. alone /\ AloneInv /\ Running(j)
    BY <1>2, <1>6 DEF UniverseInv, Running
  <2>2. \A k \in Commands : Running(k)' => k = j
    BY <1>2, <1>3, <2>1 DEF Running, AloneInv
  <2>3. newest' = "none"
    BY <1>2, <2>1 DEF AloneInv
  <2>4. \A v \in Universes : OpenRows(v)' \subseteq OpenRows(v)
    BY <1>4 DEF Universes
  <2>5. \A v \in Universes : OneOpenRow(v)'
    BY <2>1, <2>4 DEF AloneInv, OneOpenRow
  <2>6. command[j].universe = Index /\ OpenStocks(Index) = command[j].active
    BY <1>2, <2>1 DEF AloneInv, ReadingHolds
  <2>7. OpenStocks(Index)' = command[j].active \cap command[j].target
    BY <1>4, <2>6 DEF OpenStocks
  <2>8. ReadingHolds(j)'
    BY <1>3, <2>6, <2>7 DEF ReadingHolds
  <2> QED BY <2>2, <2>3, <2>5, <2>8 DEF AloneInv, IndexIsNewest
<1> QED BY <1>5, <1>6 DEF UniverseInv

\* Adding: the index is now what the command was given.
LEMMA AddStep ==
  ASSUME UniverseInv, NEW j \in Commands, AddEntrants(j)
  PROVE  UniverseInv'
<1>1. command[j].active \in SUBSET Members /\ "done" \in UniverseStages
  BY CommandTyped DEF UniverseInv, UniverseStages
<1>2. /\ Proceed(j, "done", command[j].active)
      /\ command[j].stage = "add" /\ j \notin gone
      /\ newest' = j
      /\ UNCHANGED <<instant, gone, alone>>
  BY DEF AddEntrants, Step
<1>3. /\ command' \in [Commands -> CommandRecords]
      /\ command'[j].stage = "done"
      /\ command'[j].universe = command[j].universe
      /\ command'[j].target = command[j].target
      /\ \A k \in Commands \ {j} : command'[k] = command[k]
  BY <1>1, <1>2, ProceedTyped DEF UniverseInv
<1>4. PICK u : u = command[j].universe
  OBVIOUS
<1>5. /\ OpenRows(u)' = OpenRows(u) \cup Entrants(j)
      /\ \A v \in Universes \ {u} : OpenRows(v)' = OpenRows(v)
      /\ membership' \subseteq Rows
  BY <1>4, AddOpens DEF UniverseInv
<1>6. UniverseTypeOK'
  BY <1>2, <1>3, <1>5 DEF UniverseInv, UniverseTypeOK, CommandRecords, UniverseStages
<1>7. ASSUME alone' PROVE AloneInv'
  <2>1. alone /\ AloneInv /\ Running(j)
    BY <1>2, <1>7 DEF UniverseInv, Running
  <2>2. \A k \in Commands : ~Running(k)'
    BY <1>2, <1>3, <2>1 DEF Running, AloneInv
  <2>3. u \in Universes
    BY <1>4, CommandTyped DEF UniverseInv
  <2>4. OpenStocks(u) = IF u = Index THEN command[j].active \cap command[j].target
                        ELSE command[j].active
    BY <1>2, <1>4, <2>1 DEF AloneInv, ReadingHolds
  <2>5. /\ {r.stock : r \in Entrants(j)} = command[j].target \ command[j].active
        /\ \A r, q \in Entrants(j) : r.stock = q.stock => r = q
        /\ \A r \in Entrants(j) : r.stock \in command[j].target \ command[j].active
    BY EntrantsAre
  <2>6. OneOpenRow(u)'
    <3>1. \A r \in OpenRows(u), q \in Entrants(j) : r.stock # q.stock
      BY <2>4, <2>5 DEF OpenStocks
    <3>2. \A r, q \in OpenRows(u) : r.stock = q.stock => r = q
      BY <2>1, <2>3 DEF AloneInv, OneOpenRow
    <3> QED BY <1>5, <2>5, <3>1, <3>2 DEF OneOpenRow
  <2>7. \A v \in Universes : OneOpenRow(v)'
    BY <1>5, <2>1, <2>6 DEF AloneInv, OneOpenRow
  <2>8. IndexIsNewest'
    <3>1. SUFFICES ASSUME u = Index PROVE OpenStocks(Index)' = command[j].target
      BY <1>2, <1>3, <1>4 DEF IndexIsNewest
    <3>2. OpenStocks(Index)' = OpenStocks(Index) \cup {r.stock : r \in Entrants(j)}
      BY <1>5, <3>1 DEF OpenStocks
    <3> QED BY <2>4, <2>5, <3>1, <3>2
  <2> QED BY <2>2, <2>7, <2>8 DEF AloneInv
<1> QED BY <1>6, <1>7 DEF UniverseInv

\* A process that dies leaves rows behind, and nobody running.
LEMMA KillStep ==
  ASSUME UniverseInv, NEW j \in Commands, KillCommand(j)
  PROVE  UniverseInv'
<1>1. gone' = gone \cup {j} /\ UNCHANGED <<instant, membership, command, alone, newest>>
  BY DEF KillCommand
<1>2. UniverseTypeOK'
  BY <1>1 DEF UniverseInv, UniverseTypeOK
<1>3. \A k \in Commands : Running(k)' => Running(k)
  BY <1>1 DEF Running
<1>4. /\ \A u : OpenRows(u)' = OpenRows(u)
      /\ \A u : OpenStocks(u)' = OpenStocks(u)
  BY <1>1 DEF OpenRows, OpenStocks
<1>5. AloneInv => AloneInv'
  BY <1>1, <1>3, <1>4 DEF AloneInv, OneOpenRow, ReadingHolds, IndexIsNewest
<1> QED BY <1>1, <1>2, <1>5 DEF UniverseInv

\* A step that leaves rows and commands alone, as the passing of time does
LEMMA QuietStep ==
  ASSUME UniverseInv, instant' \in Instants,
         UNCHANGED <<membership, command, gone, alone, newest>>
  PROVE  UniverseInv'
<1>1. UniverseTypeOK'
  BY DEF UniverseInv, UniverseTypeOK
<1>2. /\ \A k \in Commands : Running(k)' = Running(k)
      /\ \A u : OpenRows(u)' = OpenRows(u)
      /\ \A u : OpenStocks(u)' = OpenStocks(u)
  BY DEF Running, OpenRows, OpenStocks
<1>3. AloneInv => AloneInv'
  BY <1>2 DEF AloneInv, OneOpenRow, ReadingHolds, IndexIsNewest
<1> QED BY <1>1, <1>3 DEF UniverseInv

\* Every step of every command, and of the clock, keeps the invariant.
LEMMA UniverseStep == UniverseInv /\ [UniverseNext]_universeVars => UniverseInv'
<1> SUFFICES ASSUME UniverseInv, [UniverseNext]_universeVars PROVE UniverseInv'
  OBVIOUS
<1>1. CASE \E j \in Commands : BeginCommand(j)
  BY <1>1, BeginStep
<1>2. CASE \E j \in Commands : ReadActive(j)
  BY <1>2, ReadStep
<1>3. CASE \E j \in Commands : RetireLeavers(j)
  BY <1>3, RetireStep
<1>4. CASE \E j \in Commands : AddEntrants(j)
  BY <1>4, AddStep
<1>5. CASE \E j \in Commands : KillCommand(j)
  BY <1>5, KillStep
<1>6. CASE PassTime
  <2>1. instant' \in Instants
    BY <1>6, UniverseConstants DEF PassTime, Instants, UniverseInv, UniverseTypeOK
  <2> QED BY <1>6, <2>1, QuietStep DEF PassTime
<1>7. CASE UNCHANGED universeVars
  BY <1>7, QuietStep DEF universeVars, UniverseInv, UniverseTypeOK
<1> QED BY <1>1, <1>2, <1>3, <1>4, <1>5, <1>6, <1>7 DEF UniverseNext
-----------------------------------------------------------------------------
\* The rows, the commands and what they read keep their types.
THEOREM UniverseTyped == UniverseSpec => []UniverseTypeOK
<1>1. UniverseInv => UniverseTypeOK
  BY DEF UniverseInv
<1> QED BY <1>1, UniverseInitInv, UniverseStep, PTL DEF UniverseSpec

\* While no command has been started beside another one, no stock is entered
\* twice and the index holds what the newest rebalance was given, processes
\* that died in the middle included (apps/stock/models.py:119-141).
THEOREM UniverseAsAsked == UniverseSpec => []UniverseIsAsAsked
<1>1. UniverseInv => UniverseIsAsAsked
  BY DEF UniverseInv, AloneInv, UniverseIsAsAsked, OneOpenRow, IndexIsNewest, OpenStocks
<1> QED BY <1>1, UniverseInitInv, UniverseStep, PTL DEF UniverseSpec

\* A row that is closed, or one that is added, at an instant later than t does
\* not change who was a member at t.
LEMMA StableStep ==
  ASSUME UniverseInv, [UniverseNext]_universeVars,
         NEW u \in Universes, NEW t \in Instants, SettledBefore(t)
  PROVE  MembersAt(u, t)' = MembersAt(u, t)
<1>0. /\ t \in Nat /\ t < Open /\ membership \subseteq Rows
      /\ \A j \in Commands : Running(j) => t < command[j].at
  BY OpenIsNoInstant DEF Instants, UniverseInv, UniverseTypeOK, SettledBefore
<1>1. ASSUME NEW j \in Commands, RetireLeavers(j) PROVE MembersAt(u, t)' = MembersAt(u, t)
  <2> DEFINE leavers == {r \in OpenRows(Index) : r.stock \notin command[j].target}
             closed == {Closed(r, command[j].at) : r \in leavers}
  <2>1. membership' = (membership \ leavers) \cup closed
    BY <1>1 DEF RetireLeavers
  <2>2. t < command[j].at
    BY <1>0, <1>1 DEF RetireLeavers, Step, Running
  <2>3. \A r \in leavers : r \in membership /\ r.to = Open
    BY DEF OpenRows
  <2>4. \A r \in leavers : LET q == Closed(r, command[j].at) IN
          /\ q \in closed /\ q.universe = r.universe /\ q.stock = r.stock
          /\ q.from = r.from /\ q.to = command[j].at
    BY DEF Closed
  <2>5. \A q \in closed : \E r \in leavers :
          /\ q.universe = r.universe /\ q.stock = r.stock
          /\ q.from = r.from /\ q.to = command[j].at
    BY DEF Closed
  <2> HIDE DEF closed, leavers
  <2>6. MembersAt(u, t)' \subseteq MembersAt(u, t)
    BY <1>0, <2>1, <2>3, <2>5 DEF MembersAt
  <2>7. MembersAt(u, t) \subseteq MembersAt(u, t)'
    <3>1. SUFFICES ASSUME NEW r \in membership, r.universe = u, r.from <= t, r.to > t
                   PROVE  r.stock \in MembersAt(u, t)'
      BY DEF MembersAt
    <3>2. CASE r \in leavers
      BY <2>1, <2>2, <2>4, <3>1, <3>2 DEF MembersAt
    <3>3. CASE r \notin leavers
      BY <2>1, <3>1, <3>3 DEF MembersAt
    <3> QED BY <3>2, <3>3
  <2> QED BY <2>6, <2>7
<1>2. ASSUME NEW j \in Commands, AddEntrants(j) PROVE MembersAt(u, t)' = MembersAt(u, t)
  <2>1. membership' = membership \cup Entrants(j)
    BY <1>2 DEF AddEntrants, Entrants
  <2>2. t < command[j].at /\ command[j].at \in Nat
    BY <1>0, <1>2, CommandTyped DEF AddEntrants, Step, Running, Instants, UniverseInv
  <2>3. \A r \in Entrants(j) : ~(r.from <= t)
    BY <1>0, <2>2, EntrantsAre
  <2> QED BY <2>1, <2>3 DEF MembersAt
<1>3. CASE membership' = membership
  BY <1>3 DEF MembersAt
<1>4. \/ \E j \in Commands : RetireLeavers(j)
      \/ \E j \in Commands : AddEntrants(j)
      \/ membership' = membership
  BY DEF UniverseNext, BeginCommand, ReadActive, KillCommand, PassTime, universeVars
<1> QED BY <1>1, <1>2, <1>3, <1>4

\* Who was a member at a past instant never changes (models.py:124).
THEOREM HistoryStable == UniverseSpec => HistoryIsStable
<1> DEFINE Stays == \A u \in Universes, t \in Instants :
                      SettledBefore(t) => MembersAt(u, t)' = MembersAt(u, t)
<1>1. UniverseInv /\ [UniverseNext]_universeVars => [Stays]_universeVars
  BY StableStep
<1>2. UniverseSpec => [][Stays]_universeVars
  BY <1>1, UniverseInitInv, UniverseStep, PTL DEF UniverseSpec
<1> QED BY <1>2 DEF HistoryIsStable

\* A stock that is collected is collected for ever (models.py:148-149).
LEMMA CollectionStep ==
  ASSUME UniverseInv, [UniverseNext]_universeVars
  PROVE  OpenRows(Collection) \subseteq OpenRows(Collection)'
<1>1. ASSUME NEW j \in Commands, RetireLeavers(j)
      PROVE  OpenRows(Collection) \subseteq OpenRows(Collection)'
  BY <1>1, RetireOpens DEF UniverseInv
<1>2. ASSUME NEW j \in Commands, AddEntrants(j)
      PROVE  OpenRows(Collection) \subseteq OpenRows(Collection)'
  BY <1>2 DEF AddEntrants, OpenRows
<1>3. CASE membership' = membership
  BY <1>3 DEF OpenRows
<1>4. \/ \E j \in Commands : RetireLeavers(j)
      \/ \E j \in Commands : AddEntrants(j)
      \/ membership' = membership
  BY DEF UniverseNext, BeginCommand, ReadActive, KillCommand, PassTime, universeVars
<1> QED BY <1>1, <1>2, <1>3, <1>4

\* The collection is append-only (models.py:144-150).
THEOREM CollectionGrows == UniverseSpec => CollectionOnlyGrows
<1> DEFINE Grows == OpenRows(Collection) \subseteq OpenRows(Collection)'
<1>1. UniverseInv /\ [UniverseNext]_universeVars => [Grows]_universeVars
  BY CollectionStep
<1>2. UniverseSpec => [][Grows]_universeVars
  BY <1>1, UniverseInitInv, UniverseStep, PTL DEF UniverseSpec
<1> QED BY <1>2 DEF CollectionOnlyGrows
-----------------------------------------------------------------------------
(* Training, deployment and inference. *)

\* Stages of a call whose artifact row exists
Owning == {"retireRows", "retireArtifacts", "mark", "deploy", "done"}

\* Stages of a call that has opened the file of its version
Writing == {"write", "create", "refused"} \cup Owning

ArgumentsGiven ==
  \A c \in Trainings : training[c].stage # "idle" => training[c].args \in Arguments

OwnersKnown ==
  /\ \A c \in Trainings : training[c].stage \in Owning =>
       /\ Version(c) \in Existing
       /\ artifact[Version(c)].trainedBy = c
       /\ training[c].stage \in {"retireRows", "retireArtifacts", "mark"} =>
            artifact[Version(c)].status = "READY"
  /\ \A v \in Existing :
       /\ artifact[v].trainedBy \in Trainings
       /\ training[artifact[v].trainedBy].stage \in Owning
       /\ Version(artifact[v].trainedBy) = v

\* Artifacts are numbered in the order of their creation.
BirthsOrdered ==
  /\ IsFiniteSet(Existing)
  /\ \A v \in Existing : artifact[v].born <= Cardinality(Existing)
  /\ \A v, w \in Existing : artifact[v].born = artifact[w].born => v = w

\* What a call expects to find in the file of its version
Expected(c) == IF training[c].stage = "write" THEN Torn ELSE c

\* It finds something else only if another call has opened the file, too.
FilesExplained ==
  \A c \in Trainings :
    (training[c].stage \in Writing /\ file[Version(c)] # Expected(c)) =>
      \E d \in Trainings \ {c} : /\ training[d].stage \in Writing
                                 /\ Version(d) = Version(c)

NoneServesMeansMark ==
  /\ \E v \in Versions : artifact[v].status = "RETIRED"
  /\ Deployed = {}
  => \E c \in Trainings : training[c].stage = "mark"

\* Readers were given versions that exist.
ReadersServed ==
  \A r \in Readers :
    inference[r].model # Mock => inference[r].model \in Existing

DeploymentInv ==
  /\ DeploymentTypeOK
  /\ ArgumentsGiven
  /\ OwnersKnown
  /\ BirthsOrdered
  /\ FilesExplained
  /\ NoneServesMeansMark
  /\ ReadersServed
  /\ InferencesAreExplained
-----------------------------------------------------------------------------
\* The version of a call that has been given its arguments.
LEMMA VersionTyped ==
  ASSUME DeploymentTypeOK, ArgumentsGiven, NEW c \in Trainings,
         training[c].stage # "idle"
  PROVE  /\ training[c].args \in Arguments
         /\ Version(c) \in Versions
         /\ Source(c) \in Symbols \X Versions
BY DEF ArgumentsGiven, Arguments, Version, Source

\* A call that goes on keeps its arguments and changes nobody else.
LEMMA GotoTyped ==
  ASSUME DeploymentTypeOK, NEW c \in Trainings, NEW stage \in Stages, Goto(c, stage)
  PROVE  /\ training' \in [Trainings -> [stage : Stages, args : Arguments \cup {NoArguments}]]
         /\ training'[c].stage = stage
         /\ training'[c].args = training[c].args
         /\ \A d \in Trainings \ {c} : training'[d] = training[d]
BY DEF DeploymentTypeOK, Goto

\* No call, no row, no file: the invariant holds.
LEMMA DeploymentInitInv == DeploymentInit => DeploymentInv
<1> SUFFICES ASSUME DeploymentInit PROVE DeploymentInv
  OBVIOUS
<1>1. DeploymentTypeOK
  BY DEF DeploymentInit, DeploymentTypeOK, Stages, DatasetRows, NoDataset,
         ArtifactRows, NoArtifact, DeploymentRows, InferenceRows
<1>2. Existing = {} /\ Deployed = {}
  BY DEF DeploymentInit, NoArtifact, Existing, Deployed
<1>3. IsFiniteSet(Existing)
  BY <1>2, FS_EmptySet
<1>4. \A c \in Trainings : training[c].stage = "idle"
  BY DEF DeploymentInit
<1>5. /\ ArgumentsGiven
      /\ OwnersKnown
      /\ FilesExplained
  BY <1>2, <1>4 DEF ArgumentsGiven, OwnersKnown, FilesExplained, Owning, Writing
<1>6. BirthsOrdered
  BY <1>2, <1>3 DEF BirthsOrdered
<1>7. NoneServesMeansMark /\ ReadersServed /\ InferencesAreExplained
  BY DEF DeploymentInit, NoArtifact, NoneServesMeansMark, ReadersServed,
         InferencesAreExplained
<1> QED BY <1>1, <1>5, <1>6, <1>7 DEF DeploymentInv

\* A file that does not hold the model its artifact was made of has been opened
\* by a second call.
LEMMA Culprit ==
  ASSUME DeploymentInv, NEW v \in Existing, file[v] # artifact[v].trainedBy
  PROVE  RetrainedBySecond(v)
<1> DEFINE o == artifact[v].trainedBy
<1>1. o \in Trainings /\ training[o].stage \in Owning /\ Version(o) = v
  BY DEF DeploymentInv, OwnersKnown
<1>2. training[o].stage \in Writing /\ Expected(o) = o
  BY <1>1 DEF Owning, Writing, Expected
<1>3. PICK d \in Trainings \ {o} : training[d].stage \in Writing /\ Version(d) = v
  BY <1>1, <1>2 DEF DeploymentInv, FilesExplained
<1>4. training[d].stage \notin Owning
  BY <1>3 DEF DeploymentInv, OwnersKnown
<1> QED BY <1>3, <1>4 DEF Writing, RetrainedBySecond
-----------------------------------------------------------------------------
\* A call that has not opened a file yet does something that shows nowhere
\* but in its progress and its dataset.
LEMMA EarlyStep ==
  ASSUME DeploymentInv, NEW c \in Trainings,
         training' \in [Trainings -> [stage : Stages, args : Arguments \cup {NoArguments}]],
         dataset' \in [Symbols \X Versions -> DatasetRows],
         training[c].stage \notin Writing, training'[c].stage \notin Writing,
         training'[c].args \in Arguments,
         \A d \in Trainings \ {c} : training'[d] = training[d],
         UNCHANGED <<died, artifact, file, deployment, inference>>
  PROVE  DeploymentInv'
<1>1. DeploymentTypeOK'
  BY DEF DeploymentInv, DeploymentTypeOK
<1>2. ArgumentsGiven'
  BY DEF DeploymentInv, ArgumentsGiven
<1>3. Existing' = Existing /\ Deployed' = Deployed
  BY DEF Existing, Deployed
<1>4. /\ training[c].stage \notin Owning /\ training'[c].stage \notin Owning
      /\ training[c].stage \notin {"write", "create", "refused", "mark"}
  BY DEF Writing, Owning
<1>5. \A d \in Trainings \ {c} : Version(d)' = Version(d) /\ Expected(d)' = Expected(d)
  BY DEF Version, Expected
<1>6. OwnersKnown'
  <2>1. \A d \in Trainings : training'[d].stage \in Owning =>
          d # c /\ training'[d] = training[d] /\ Version(d)' = Version(d)
    BY <1>4, <1>5
  <2>2. \A v \in Existing : artifact[v].trainedBy \in Trainings \ {c}
    BY <1>4 DEF DeploymentInv, OwnersKnown
  <2> QED BY <1>3, <1>5, <2>1, <2>2 DEF DeploymentInv, OwnersKnown
<1>7. BirthsOrdered'
  BY <1>3 DEF DeploymentInv, BirthsOrdered
<1>8. FilesExplained'
  <2>1. \A d \in Trainings : training'[d].stage \in Writing =>
          d # c /\ training'[d] = training[d]
    OBVIOUS
  <2>2. \A d \in Trainings : training[d].stage \in Writing =>
          d # c /\ training'[d] = training[d]
    OBVIOUS
  <2> QED BY <1>5, <2>1, <2>2 DEF DeploymentInv, FilesExplained
<1>9. NoneServesMeansMark'
  BY <1>3, <1>4 DEF DeploymentInv, NoneServesMeansMark
<1>10. ReadersServed'
  BY <1>3 DEF DeploymentInv, ReadersServed
<1>11. \A v : RetrainedBySecond(v) => RetrainedBySecond(v)'
  BY <1>4, <1>5 DEF RetrainedBySecond
<1>12. InferencesAreExplained'
  BY <1>11 DEF DeploymentInv, InferencesAreExplained
<1> QED BY <1>1, <1>2, <1>6, <1>7, <1>8, <1>9, <1>10, <1>12 DEF DeploymentInv

\* The statements before the file is opened, refusals included.
LEMMA EarlySteps ==
  ASSUME DeploymentInv, NEW c \in Trainings,
         \/ \E args \in Arguments : StartDataset(c, args)
         \/ AddSnapshots(c)
         \/ AddItems(c)
         \/ MarkReady(c)
         \/ /\ At(c, "train")
            /\ Goto(c, "failed")
            /\ UNCHANGED <<died, dataset, artifact, file, deployment, inference>>
  PROVE  DeploymentInv'
<1>1. DeploymentTypeOK /\ ArgumentsGiven
  BY DEF DeploymentInv
<1>2. /\ \A a, b \in BOOLEAN : Building(a, b) \in DatasetRows
      /\ \A a, b \in BOOLEAN : [status |-> "READY", snapshots |-> a, items |-> b] \in DatasetRows
      /\ \A d \in Symbols \X Versions : /\ dataset[d].snapshots \in BOOLEAN
                                        /\ dataset[d].items \in BOOLEAN
  BY <1>1 DEF Building, DatasetRows, DeploymentTypeOK
<1>3. CASE \E args \in Arguments : StartDataset(c, args)
  <2>1. PICK args \in Arguments : StartDataset(c, args)
    BY <1>3
  <2>2. PICK stage \in {"snapshots", "failed"} :
          training' = [training EXCEPT ![c] = [stage |-> stage, args |-> args]]
    BY <2>1 DEF StartDataset
  <2>3. /\ training' \in [Trainings -> [stage : Stages, args : Arguments \cup {NoArguments}]]
        /\ training'[c].stage = stage /\ training'[c].args = args
        /\ \A d \in Trainings \ {c} : training'[d] = training[d]
    BY <1>1, <2>2 DEF DeploymentTypeOK, Stages
  <2>4. dataset' \in [Symbols \X Versions -> DatasetRows]
    BY <1>1, <1>2, <2>1 DEF StartDataset, DeploymentTypeOK
  <2> QED BY <2>1, <2>3, <2>4, EarlyStep DEF StartDataset, At, Writing, Owning
<1>4. ASSUME NEW stage \in {"items", "ready", "train", "failed"}, Goto(c, stage),
             training[c].stage \in {"snapshots", "items", "ready", "train"},
             dataset' \in [Symbols \X Versions -> DatasetRows],
             UNCHANGED <<died, artifact, file, deployment, inference>>
      PROVE  DeploymentInv'
  <2>1. stage \in Stages /\ stage \notin Writing /\ training[c].stage \notin Writing
    BY <1>4 DEF Stages, Writing, Owning
  <2>2. training[c].args \in Arguments
    BY <1>1, <1>4, VersionTyped
  <2>3. /\ training' \in [Trainings -> [stage : Stages, args : Arguments \cup {NoArguments}]]
        /\ training'[c].stage = stage
        /\ training'[c].args = training[c].args
        /\ \A d \in Trainings \ {c} : training'[d] = training[d]
    BY <1>1, <1>4, <2>1, GotoTyped
  <2> QED BY <1>4, <2>1, <2>2, <2>3, EarlyStep
<1>5. training[c].stage # "idle" => Source(c) \in Symbols \X Versions
  BY <1>1, VersionTyped
<1>6. CASE AddSnapshots(c)
  <2>1. dataset' \in [Symbols \X Versions -> DatasetRows]
    BY <1>1, <1>2, <1>6 DEF AddSnapshots, DeploymentTypeOK
  <2> QED BY <1>4, <1>6, <2>1 DEF AddSnapshots, At
<1>7. CASE AddItems(c)
  <2>1. dataset' \in [Symbols \X Versions -> DatasetRows]
    BY <1>1, <1>2, <1>5, <1>7 DEF AddItems, At, DeploymentTypeOK
  <2> QED BY <1>4, <1>7, <2>1 DEF AddItems, At
<1>8. CASE MarkReady(c)
  <2>1. dataset' \in [Symbols \X Versions -> DatasetRows]
    BY <1>1, <1>2, <1>5, <1>8 DEF MarkReady, At, DeploymentTypeOK
  <2> QED BY <1>4, <1>8, <2>1 DEF MarkReady, At
<1>9. CASE At(c, "train") /\ Goto(c, "failed")
           /\ UNCHANGED <<died, dataset, artifact, file, deployment, inference>>
  BY <1>1, <1>4, <1>9 DEF At, DeploymentTypeOK
<1> QED BY <1>3, <1>6, <1>7, <1>8, <1>9

\* A call that opens, or has opened, the file of its version and changes at
\* most its bytes; it creates no artifact row.
LEMMA FileStep ==
  ASSUME DeploymentInv, NEW c \in Trainings,
         training[c].stage \in {"train", "write", "create"},
         NEW stage \in {"write", "create", "refused"}, Goto(c, stage),
         file' \in [Versions -> Trainings \cup {"none", Torn}],
         \A v \in Versions \ {Version(c)} : file'[v] = file[v],
         UNCHANGED <<died, dataset, artifact, deployment, inference>>,
         file'[Version(c)] # (IF stage = "write" THEN Torn ELSE c) =>
           \E d \in Trainings \ {c} : /\ training[d].stage \in Writing
                                      /\ Version(d) = Version(c)
  PROVE  DeploymentInv'
<1>0. DeploymentTypeOK /\ ArgumentsGiven
  BY DEF DeploymentInv
<1>1. stage \in Stages /\ stage \in Writing /\ stage \notin Owning \cup {"mark", "idle"}
  BY DEF Stages, Writing, Owning
<1>2. /\ training' \in [Trainings -> [stage : Stages, args : Arguments \cup {NoArguments}]]
      /\ training'[c].stage = stage
      /\ training'[c].args = training[c].args
      /\ \A d \in Trainings \ {c} : training'[d] = training[d]
  BY <1>0, <1>1, GotoTyped
<1>3. DeploymentTypeOK'
  BY <1>0, <1>2 DEF DeploymentTypeOK
<1>4. ArgumentsGiven'
  BY <1>0, <1>2, VersionTyped DEF ArgumentsGiven
<1>5. Existing' = Existing /\ Deployed' = Deployed
  BY DEF Existing, Deployed
<1>6. \A d \in Trainings : Version(d)' = Version(d)
  BY <1>2 DEF Version
<1>7. training[c].stage \notin Owning \cup {"mark"}
  BY DEF Owning
<1>8. OwnersKnown'
  <2>1. \A d \in Trainings : training'[d].stage \in Owning => d # c /\ training'[d] = training[d]
    BY <1>1, <1>2
  <2>2. \A v \in Existing : artifact[v].trainedBy \in Trainings \ {c}
    BY <1>7 DEF DeploymentInv, OwnersKnown
  <2> QED BY <1>2, <1>5, <1>6, <2>1, <2>2 DEF DeploymentInv, OwnersKnown
<1>9. BirthsOrdered'
  BY <1>5 DEF DeploymentInv, BirthsOrdered
<1>10. FilesExplained'
  <2>1. SUFFICES ASSUME NEW d \in Trainings, training'[d].stage \in Writing,
                        file'[Version(d)] # Expected(d)'
                 PROVE  \E e \in Trainings \ {d} : /\ training'[e].stage \in Writing
                                                   /\ Version(e) = Version(d)
    BY <1>6 DEF FilesExplained
  <2>2. \A e \in Trainings : training[e].stage \in Writing => training'[e].stage \in Writing
    BY <1>1, <1>2
  <2>3. CASE d = c
    BY <1>2, <2>1, <2>2, <2>3 DEF Expected
  <2>4. CASE d # c /\ Version(d) = Version(c)
    BY <1>1, <1>2, <2>4
  <2>5. CASE d # c /\ Version(d) # Version(c)
    <3>1. /\ training[d].stage \in Writing /\ training[d].stage # "idle"
          /\ Expected(d)' = Expected(d)
      BY <1>2, <2>1, <2>5 DEF Expected, Writing, Owning
    <3>2. Version(d) \in Versions
      BY <1>0, <3>1, VersionTyped
    <3> QED BY <2>1, <2>2, <2>5, <3>1, <3>2 DEF DeploymentInv, FilesExplained
  <2> QED BY <2>3, <2>4, <2>5
<1>11. NoneServesMeansMark'
  BY <1>2, <1>5, <1>7 DEF DeploymentInv, NoneServesMeansMark
<1>12. ReadersServed'
  BY <1>5 DEF DeploymentInv, ReadersServed
<1>13. \A v : RetrainedBySecond(v) => RetrainedBySecond(v)'
  BY <1>2, <1>6 DEF RetrainedBySecond
<1>14. InferencesAreExplained'
  BY <1>13 DEF DeploymentInv, InferencesAreExplained
<1> QED BY <1>3, <1>4, <1>8, <1>9, <1>10, <1>11, <1>12, <1>14 DEF DeploymentInv

\* The open that empties the file, or a training without samples that fails.
LEMMA TrainStep ==
  ASSUME DeploymentInv, NEW c \in Trainings, TrainAndOpen(c)
  PROVE  DeploymentInv'
<1>1. DeploymentTypeOK /\ Version(c) \in Versions
  BY VersionTyped DEF DeploymentInv, TrainAndOpen, At
<1>2. CASE file' = [file EXCEPT ![Version(c)] = Torn] /\ Goto(c, "write") /\ UNCHANGED dataset
  <2>1. /\ file' \in [Versions -> Trainings \cup {"none", Torn}]
        /\ file'[Version(c)] = Torn
        /\ \A v \in Versions \ {Version(c)} : file'[v] = file[v]
    BY <1>1, <1>2 DEF DeploymentTypeOK
  <2> QED BY <1>2, <2>1, FileStep DEF TrainAndOpen, At
<1>3. CASE Goto(c, "failed") /\ UNCHANGED <<file, dataset>>
  BY <1>3, EarlySteps DEF TrainAndOpen
<1> QED BY <1>2, <1>3 DEF TrainAndOpen

\* The write: its own model, unless another writer has been there before it.
LEMMA WriteStep ==
  ASSUME DeploymentInv, NEW c \in Trainings, WriteFile(c)
  PROVE  DeploymentInv'
<1>1. DeploymentTypeOK /\ Version(c) \in Versions
  BY VersionTyped DEF DeploymentInv, WriteFile, At
<1>2. PICK bytes \in {c} \cup (IF file[Version(c)] = Torn THEN {} ELSE {Torn}) :
        file' = [file EXCEPT ![Version(c)] = bytes]
  BY DEF WriteFile
<1>3. /\ file' \in [Versions -> Trainings \cup {"none", Torn}]
      /\ file'[Version(c)] = bytes
      /\ \A v \in Versions \ {Version(c)} : file'[v] = file[v]
  BY <1>1, <1>2 DEF DeploymentTypeOK
<1>4. training[c].stage = "write" /\ training[c].stage \in Writing
  BY DEF WriteFile, At, Writing
<1>5. bytes # c => \E d \in Trainings \ {c} : /\ training[d].stage \in Writing
                                              /\ Version(d) = Version(c)
  BY <1>2, <1>4 DEF DeploymentInv, FilesExplained, Expected
<1> QED BY <1>3, <1>4, <1>5, FileStep DEF WriteFile

\* The unique constraint refuses a second artifact of the same version.
LEMMA RefusedStep ==
  ASSUME DeploymentInv, NEW c \in Trainings, At(c, "create"), Goto(c, "refused"),
         UNCHANGED <<died, dataset, artifact, file, deployment, inference>>
  PROVE  DeploymentInv'
<1>1. training[c].stage = "create" /\ training[c].stage \in Writing
  BY DEF At, Writing
<1>2. file[Version(c)] # c =>
        \E d \in Trainings \ {c} : /\ training[d].stage \in Writing
                                   /\ Version(d) = Version(c)
  BY <1>1 DEF DeploymentInv, FilesExplained, Expected
<1>3. file' \in [Versions -> Trainings \cup {"none", Torn}]
  BY DEF DeploymentInv, DeploymentTypeOK
<1> QED BY <1>1, <1>2, <1>3, FileStep

\* The artifact row: the call owns its version from here on.
LEMMA CreateStep ==
  ASSUME DeploymentInv, NEW c \in Trainings, At(c, "create"),
         Version(c) \notin Existing,
         artifact' = [artifact EXCEPT ![Version(c)] =
                        [status |-> "READY", trainedBy |-> c,
                         born |-> 1 + Cardinality(Existing)]],
         NEW stage \in {"retireRows", "done"}, Goto(c, stage),
         UNCHANGED <<died, dataset, file, deployment, inference>>
  PROVE  DeploymentInv'
<1> DEFINE v == Version(c)
           born == 1 + Cardinality(Existing)
<1>0. DeploymentTypeOK /\ ArgumentsGiven /\ training[c].stage = "create" /\ v \in Versions
  BY VersionTyped DEF DeploymentInv, At
<1>1. /\ stage \in Stages /\ stage \in Owning /\ stage \in Writing
      /\ stage # "mark" /\ stage # "write"
  BY DEF Stages, Owning, Writing
<1>2. /\ training' \in [Trainings -> [stage : Stages, args : Arguments \cup {NoArguments}]]
      /\ training'[c].stage = stage
      /\ training'[c].args = training[c].args
      /\ \A d \in Trainings \ {c} : training'[d] = training[d]
  BY <1>0, <1>1, GotoTyped
<1>3. IsFiniteSet(Existing) /\ Cardinality(Existing) \in Nat
  BY FS_CardinalityType DEF DeploymentInv, BirthsOrdered
<1>4. /\ artifact' \in [Versions -> ArtifactRows]
      /\ artifact'[v].status = "READY" /\ artifact'[v].trainedBy = c /\ artifact'[v].born = born
      /\ \A w \in Versions \ {v} : artifact'[w] = artifact[w]
  BY <1>0, <1>3 DEF DeploymentTypeOK, ArtifactRows
<1>5. DeploymentTypeOK'
  BY <1>0, <1>2, <1>4 DEF DeploymentTypeOK
<1>6. ArgumentsGiven'
  BY <1>0, <1>2, VersionTyped DEF ArgumentsGiven
<1>7. \A d \in Trainings : Version(d)' = Version(d)
  BY <1>2 DEF Version
<1>8. artifact[v].status = "none"
  BY <1>0 DEF Existing
<1>9. Existing' = Existing \cup {v} /\ Existing \subseteq Versions \ {v} /\ Deployed' = Deployed
  BY <1>0, <1>4, <1>8 DEF Existing, Deployed
<1>10. training[c].stage \notin Owning /\ training[c].stage \in Writing
  BY <1>0 DEF Owning, Writing
<1>11. OwnersKnown'
  <2>1. ASSUME NEW d \in Trainings, training'[d].stage \in Owning
        PROVE  /\ Version(d)' \in Existing'
               /\ artifact'[Version(d)'].trainedBy = d
               /\ training'[d].stage \in {"retireRows", "retireArtifacts", "mark"} =>
                    artifact'[Version(d)'].status = "READY"
    <3>1. CASE d = c
      BY <1>4, <1>7, <1>9, <3>1
    <3>2. CASE d # c
      <4>1. training[d].stage \in Owning /\ training'[d] = training[d]
        BY <1>2, <2>1, <3>2
      <4>2. Version(d) \in Existing /\ artifact[Version(d)].trainedBy = d
        BY <4>1 DEF DeploymentInv, OwnersKnown
      <4>3. artifact'[Version(d)] = artifact[Version(d)]
        BY <1>4, <1>9, <4>2
      <4> QED BY <1>7, <1>9, <4>1, <4>2, <4>3 DEF DeploymentInv, OwnersKnown
    <3> QED BY <3>1, <3>2
  <2>2. ASSUME NEW w \in Existing'
        PROVE  /\ artifact'[w].trainedBy \in Trainings
               /\ training'[artifact'[w].trainedBy].stage \in Owning
               /\ training'[artifact'[w].trainedBy].args.version = w
    <3>1. CASE w = v
      BY <1>1, <1>2, <1>4, <3>1 DEF Version
    <3>2. CASE w # v
      <4>1. w \in Existing /\ artifact'[w] = artifact[w]
        BY <1>4, <1>9, <2>2, <3>2
      <4>2. /\ artifact[w].trainedBy \in Trainings \ {c}
            /\ training[artifact[w].trainedBy].stage \in Owning
            /\ Version(artifact[w].trainedBy) = w
        BY <1>10, <4>1 DEF DeploymentInv, OwnersKnown
      <4> QED BY <1>2, <4>1, <4>2 DEF Version
    <3> QED BY <3>1, <3>2
  <2> QED BY <2>1, <2>2 DEF OwnersKnown, Version
<1>12. BirthsOrdered'
  <2>1. IsFiniteSet(Existing') /\ Cardinality(Existing') = Cardinality(Existing) + 1
    BY <1>3, <1>9, FS_AddElement
  <2>2. \A w \in Existing : artifact'[w] = artifact[w] /\ artifact[w].born \in Nat
    BY <1>0, <1>4, <1>9 DEF DeploymentTypeOK, ArtifactRows
  <2>3. \A w \in Existing : artifact[w].born <= Cardinality(Existing)
    BY DEF DeploymentInv, BirthsOrdered
  <2>4. \A w \in Existing' : artifact'[w].born <= Cardinality(Existing')
    BY <1>3, <1>4, <1>9, <2>1, <2>2, <2>3
  <2>5. \A w, x \in Existing : artifact'[w].born = artifact'[x].born => w = x
    BY <2>2 DEF DeploymentInv, BirthsOrdered
  <2>6. \A w \in Existing : artifact'[w].born # artifact'[v].born
    BY <1>3, <1>4, <2>2, <2>3
  <2>7. \A w, x \in Existing' : artifact'[w].born = artifact'[x].born => w = x
    BY <1>9, <2>5, <2>6
  <2> QED BY <2>1, <2>4, <2>7 DEF BirthsOrdered
<1>13. FilesExplained'
  <2>1. \A d \in Trainings : training'[d].stage \in Writing <=> training[d].stage \in Writing
    BY <1>1, <1>2, <1>10
  <2>2. \A d \in Trainings : Expected(d)' = Expected(d)
    BY <1>0, <1>1, <1>2 DEF Expected
  <2> QED BY <1>7, <2>1, <2>2 DEF DeploymentInv, FilesExplained
<1>14. NoneServesMeansMark'
  <2>1. \A w \in Versions : artifact'[w].status = "RETIRED" => artifact[w].status = "RETIRED"
    BY <1>4
  <2>2. \A d \in Trainings : training[d].stage = "mark" => training'[d].stage = "mark"
    BY <1>0, <1>2
  <2> QED BY <1>9, <2>1, <2>2 DEF DeploymentInv, NoneServesMeansMark
<1>15. ReadersServed'
  BY <1>9 DEF DeploymentInv, ReadersServed
<1>16. ASSUME NEW w \in Existing
       PROVE  artifact'[w] = artifact[w] /\ (RetrainedBySecond(w) => RetrainedBySecond(w)')
  <2>1. artifact'[w] = artifact[w] /\ w # v
    BY <1>4, <1>9
  <2> QED BY <1>2, <1>7, <2>1 DEF RetrainedBySecond
<1>17. InferencesAreExplained'
  BY <1>16 DEF DeploymentInv, InferencesAreExplained, ReadersServed
<1> QED BY <1>5, <1>6, <1>11, <1>12, <1>13, <1>14, <1>15, <1>17 DEF DeploymentInv

\* Either of the two outcomes of creating the artifact row.
LEMMA CreateSteps ==
  ASSUME DeploymentInv, NEW c \in Trainings, CreateArtifact(c)
  PROVE  DeploymentInv'
<1>1. CASE Version(c) \in Existing
  BY <1>1, RefusedStep DEF CreateArtifact
<1>2. CASE Version(c) \notin Existing
  <2> DEFINE stage == IF training[c].args.deploy THEN "retireRows" ELSE "done"
  <2>1. stage \in {"retireRows", "done"}
    OBVIOUS
  <2> HIDE DEF stage
  <2>2. Goto(c, stage)
    BY <1>2 DEF CreateArtifact, stage
  <2> QED BY <1>2, <2>1, <2>2, CreateStep DEF CreateArtifact
<1> QED BY <1>1, <1>2
-----------------------------------------------------------------------------
\* A statement of deploy_artifact: rows change their status only, the files
\* nothing, and an artifact that waits for its turn waits on.
LEMMA OwnerStep ==
  ASSUME DeploymentInv, NEW c \in Trainings,
         training[c].stage \in Owning \ {"done"},
         NEW stage \in Owning, Goto(c, stage),
         artifact' \in [Versions -> ArtifactRows],
         deployment' \in [Trainings -> DeploymentRows],
         \A v \in Versions : /\ artifact'[v].trainedBy = artifact[v].trainedBy
                             /\ artifact'[v].born = artifact[v].born
                             /\ artifact'[v].status = "none" <=> artifact[v].status = "none",
         \A v \in Versions \ {Version(c)} :
           artifact[v].status = "READY" => artifact'[v].status = "READY",
         stage \in {"retireRows", "retireArtifacts", "mark"} =>
           artifact'[Version(c)].status = "READY",
         NoneServesMeansMark',
         UNCHANGED <<died, dataset, file, inference>>
  PROVE  DeploymentInv'
<1>0. DeploymentTypeOK /\ ArgumentsGiven
  BY DEF DeploymentInv
<1>1. stage \in Stages /\ stage \in Writing /\ stage # "write" /\ training[c].stage # "write"
      /\ training[c].stage \in Writing /\ stage \notin {"write", "create", "refused", "idle"}
      /\ training[c].stage # "idle"
  BY DEF Stages, Owning, Writing
<1>2. /\ training' \in [Trainings -> [stage : Stages, args : Arguments \cup {NoArguments}]]
      /\ training'[c].stage = stage
      /\ training'[c].args = training[c].args
      /\ \A d \in Trainings \ {c} : training'[d] = training[d]
  BY <1>0, <1>1, GotoTyped
<1>3. DeploymentTypeOK'
  BY <1>0, <1>2 DEF DeploymentTypeOK
<1>4. ArgumentsGiven'
  BY <1>0, <1>1, <1>2, VersionTyped DEF ArgumentsGiven
<1>5. \A d \in Trainings : Version(d)' = Version(d)
  BY <1>2 DEF Version
<1>6. Existing' = Existing /\ Existing \subseteq Versions
  BY DEF Existing
<1>7. \A d \in Trainings : training'[d].stage \in Owning <=> training[d].stage \in Owning
  BY <1>2
<1>8. OwnersKnown'
  <2>1. ASSUME NEW d \in Trainings, training'[d].stage \in Owning
        PROVE  /\ Version(d)' \in Existing'
               /\ artifact'[Version(d)'].trainedBy = d
               /\ training'[d].stage \in {"retireRows", "retireArtifacts", "mark"} =>
                    artifact'[Version(d)'].status = "READY"
    <3>1. Version(d) \in Existing /\ artifact[Version(d)].trainedBy = d
      BY <1>7, <2>1 DEF DeploymentInv, OwnersKnown
    <3>2. Version(c) \in Existing /\ artifact[Version(c)].trainedBy = c
      BY DEF DeploymentInv, OwnersKnown
    <3>3. CASE d = c
      BY <1>2, <1>5, <1>6, <3>1, <3>3
    <3>4. CASE d # c
      <4>1. Version(d) \in Versions \ {Version(c)} /\ training'[d] = training[d]
        BY <1>2, <1>6, <3>1, <3>2, <3>4
      <4>2. training[d].stage \in {"retireRows", "retireArtifacts", "mark"} =>
              artifact[Version(d)].status = "READY"
        BY <2>1, <4>1 DEF DeploymentInv, OwnersKnown
      <4> QED BY <1>5, <1>6, <3>1, <4>1, <4>2
    <3> QED BY <3>3, <3>4
  <2>2. ASSUME NEW w \in Existing'
        PROVE  /\ artifact'[w].trainedBy \in Trainings
               /\ training'[artifact'[w].trainedBy].stage \in Owning
               /\ training'[artifact'[w].trainedBy].args.version = w
    <3>1. w \in Existing /\ artifact'[w].trainedBy = artifact[w].trainedBy
      BY <1>6, <2>2
    <3>2. /\ artifact[w].trainedBy \in Trainings
          /\ training[artifact[w].trainedBy].stage \in Owning
          /\ training[artifact[w].trainedBy].args.version = w
      BY <3>1 DEF DeploymentInv, OwnersKnown, Version
    <3> QED BY <1>2, <1>7, <3>1, <3>2
  <2> QED BY <2>1, <2>2 DEF OwnersKnown, Version
<1>9. BirthsOrdered'
  BY <1>6 DEF DeploymentInv, BirthsOrdered
<1>10. FilesExplained'
  <2>1. \A d \in Trainings : training'[d].stage \in Writing <=> training[d].stage \in Writing
    BY <1>1, <1>2
  <2>2. \A d \in Trainings : Expected(d)' = Expected(d)
    BY <1>1, <1>2 DEF Expected
  <2> QED BY <1>5, <2>1, <2>2 DEF DeploymentInv, FilesExplained
<1>11. ReadersServed'
  BY <1>6 DEF DeploymentInv, ReadersServed
<1>12. ASSUME NEW w \in Existing
       PROVE  /\ artifact'[w].trainedBy = artifact[w].trainedBy
              /\ RetrainedBySecond(w) => RetrainedBySecond(w)'
  <2>1. artifact'[w].trainedBy = artifact[w].trainedBy
    BY <1>6
  <2>2. training[c].stage \notin {"write", "create", "refused"}
    BY DEF Owning
  <2> QED BY <1>2, <1>5, <2>1, <2>2 DEF RetrainedBySecond
<1>13. InferencesAreExplained'
  BY <1>12 DEF DeploymentInv, InferencesAreExplained, ReadersServed
<1> QED BY <1>3, <1>4, <1>8, <1>9, <1>10, <1>11, <1>13 DEF DeploymentInv

\* A call at one of the first three statements of deploy_artifact waits with an
\* artifact that is READY.
LEMMA Waiting ==
  ASSUME DeploymentInv, NEW c \in Trainings,
         training[c].stage \in {"retireRows", "retireArtifacts", "mark"}
  PROVE  Version(c) \in Versions /\ artifact[Version(c)].status = "READY"
BY DEF DeploymentInv, OwnersKnown, Owning, Existing

\* First statement of deploy_artifact: no artifact is touched.
LEMMA RetireDeploymentsStep ==
  ASSUME DeploymentInv, NEW c \in Trainings, RetireDeployments(c)
  PROVE  DeploymentInv'
<1>1. /\ training[c].stage = "retireRows" /\ training[c].stage \in Owning \ {"done"}
      /\ "retireArtifacts" \in Owning /\ "retireArtifacts" \in Stages
      /\ Goto(c, "retireArtifacts")
  BY DEF RetireDeployments, At, Owning, Stages
<1>2. deployment' \in [Trainings -> DeploymentRows]
  BY DEF RetireDeployments, DeploymentInv, DeploymentTypeOK, DeploymentRows
<1>3. artifact' = artifact /\ artifact \in [Versions -> ArtifactRows] /\ DeploymentTypeOK
  BY DEF RetireDeployments, DeploymentInv, DeploymentTypeOK
<1>4. NoneServesMeansMark'
  <2>1. \A d \in Trainings : training[d].stage = "mark" => training'[d].stage = "mark"
    BY <1>1, <1>3, GotoTyped
  <2> QED BY <1>3, <2>1 DEF DeploymentInv, NoneServesMeansMark, Deployed
<1> QED BY <1>1, <1>2, <1>3, <1>4, Waiting, OwnerStep DEF RetireDeployments

\* What RetireArtifacts does: nobody serves, and its own version is on the way.
LEMMA RetireArtifactsDoes ==
  ASSUME DeploymentInv, NEW c \in Trainings, RetireArtifacts(c)
  PROVE  /\ artifact' \in [Versions -> ArtifactRows]
         /\ \A v \in Versions :
              /\ artifact'[v].trainedBy = artifact[v].trainedBy
              /\ artifact'[v].born = artifact[v].born
              /\ artifact'[v].status =
                   IF artifact[v].status = "DEPLOYED" THEN "RETIRED" ELSE artifact[v].status
         /\ Deployed' = {}
<1>1. artifact[Version(c)].status = "READY" /\ artifact \in [Versions -> ArtifactRows]
  BY Waiting DEF RetireArtifacts, At, DeploymentInv, DeploymentTypeOK
<1>2. \A v \in Versions : /\ Retired(artifact[v]) \in ArtifactRows
                          /\ Retired(artifact[v]).trainedBy = artifact[v].trainedBy
                          /\ Retired(artifact[v]).born = artifact[v].born
                          /\ Retired(artifact[v]).status = "RETIRED"
  BY <1>1 DEF Retired, ArtifactRows
<1>3. \A v \in Versions :
        artifact'[v] = IF artifact[v].status = "DEPLOYED" THEN Retired(artifact[v])
                       ELSE artifact[v]
  BY <1>1 DEF RetireArtifacts, Deployed
<1>4. artifact' \in [Versions -> ArtifactRows]
  BY <1>1, <1>2 DEF RetireArtifacts
<1>5. \A v \in Versions :
        artifact'[v].status =
          IF artifact[v].status = "DEPLOYED" THEN "RETIRED" ELSE artifact[v].status
  BY <1>2, <1>3
<1>6. Deployed' = {}
  BY <1>5 DEF Deployed
<1> QED BY <1>2, <1>3, <1>4, <1>5, <1>6

\* Second statement: the register is empty, and the call that emptied it is at "mark".
LEMMA RetireArtifactsStep ==
  ASSUME DeploymentInv, NEW c \in Trainings, RetireArtifacts(c)
  PROVE  DeploymentInv'
<1>1. /\ training[c].stage = "retireArtifacts" /\ training[c].stage \in Owning \ {"done"}
      /\ "mark" \in Owning /\ "mark" \in Stages /\ Goto(c, "mark")
      /\ DeploymentTypeOK
  BY DEF RetireArtifacts, At, Owning, Stages, DeploymentInv
<1>2. training'[c].stage = "mark"
  BY <1>1, GotoTyped
<1>3. NoneServesMeansMark'
  BY <1>2 DEF NoneServesMeansMark
<1>4. artifact[Version(c)].status = "READY" /\ Version(c) \in Versions
  BY <1>1, Waiting
<1>5. deployment' \in [Trainings -> DeploymentRows]
  BY <1>1 DEF RetireArtifacts, DeploymentTypeOK
<1> QED BY <1>1, <1>3, <1>4, <1>5, RetireArtifactsDoes, OwnerStep DEF RetireArtifacts

\* What MarkDeployed does: its version is deployed, whatever else is.
LEMMA MarkDeployedDoes ==
  ASSUME DeploymentInv, NEW c \in Trainings, MarkDeployed(c)
  PROVE  /\ artifact' \in [Versions -> ArtifactRows]
         /\ \A v \in Versions :
              /\ artifact'[v].trainedBy = artifact[v].trainedBy
              /\ artifact'[v].born = artifact[v].born
         /\ \A v \in Versions \ {Version(c)} : artifact'[v] = artifact[v]
         /\ Version(c) \in Versions
         /\ artifact[Version(c)].status = "READY"
         /\ artifact'[Version(c)].status = "DEPLOYED"
         /\ Deployed' = Deployed \cup {Version(c)}
<1>1. Version(c) \in Versions /\ artifact[Version(c)].status = "READY"
      /\ artifact \in [Versions -> ArtifactRows]
  BY Waiting DEF MarkDeployed, At, DeploymentInv, DeploymentTypeOK
<1>2. /\ artifact' \in [Versions -> ArtifactRows]
      /\ artifact'[Version(c)].status = "DEPLOYED"
      /\ artifact'[Version(c)].trainedBy = artifact[Version(c)].trainedBy
      /\ artifact'[Version(c)].born = artifact[Version(c)].born
      /\ \A v \in Versions \ {Version(c)} : artifact'[v] = artifact[v]
  BY <1>1 DEF MarkDeployed, ArtifactRows
<1>3. Deployed' = Deployed \cup {Version(c)}
  BY <1>1, <1>2 DEF Deployed
<1> QED BY <1>1, <1>2, <1>3

\* Third statement: a version is deployed again.
LEMMA MarkDeployedStep ==
  ASSUME DeploymentInv, NEW c \in Trainings, MarkDeployed(c)
  PROVE  DeploymentInv'
<1>1. /\ training[c].stage \in Owning \ {"done"}
      /\ "deploy" \in Owning /\ Goto(c, "deploy")
      /\ DeploymentTypeOK
  BY DEF MarkDeployed, At, Owning, DeploymentInv
<1>2. NoneServesMeansMark'
  BY MarkDeployedDoes DEF NoneServesMeansMark
<1>3. deployment' \in [Trainings -> DeploymentRows]
  BY <1>1 DEF MarkDeployed, DeploymentTypeOK
<1>4. \A v \in Versions : artifact'[v].status = "none" <=> artifact[v].status = "none"
  BY MarkDeployedDoes
<1> QED BY <1>1, <1>2, <1>3, <1>4, MarkDeployedDoes, OwnerStep DEF MarkDeployed

\* Fourth statement: the log row of the deployment.
LEMMA CreateDeploymentStep ==
  ASSUME DeploymentInv, NEW c \in Trainings, CreateDeployment(c)
  PROVE  DeploymentInv'
<1>1. /\ training[c].stage = "deploy" /\ training[c].stage \in Owning \ {"done"}
      /\ "done" \in Owning /\ "done" \in Stages /\ Goto(c, "done")
  BY DEF CreateDeployment, At, Owning, Stages
<1>2. deployment' \in [Trainings -> DeploymentRows]
  BY DEF CreateDeployment, DeploymentInv, DeploymentTypeOK, DeploymentRows
<1>3. artifact' = artifact /\ artifact \in [Versions -> ArtifactRows] /\ DeploymentTypeOK
  BY DEF CreateDeployment, DeploymentInv, DeploymentTypeOK
<1>4. NoneServesMeansMark'
  <2>1. \A d \in Trainings : training[d].stage = "mark" => training'[d].stage = "mark"
    BY <1>1, <1>3, GotoTyped
  <2> QED BY <1>3, <2>1 DEF DeploymentInv, NoneServesMeansMark, Deployed
<1> QED BY <1>1, <1>2, <1>3, <1>4, OwnerStep DEF CreateDeployment

\* A process that dies leaves every row and its own progress as they are.
LEMMA DieStep ==
  ASSUME DeploymentInv, NEW c \in Trainings, Die(c)
  PROVE  DeploymentInv'
<1>1. /\ died' \in SUBSET Trainings
      /\ UNCHANGED <<training, dataset, artifact, file, deployment, inference>>
  BY DEF Die, DeploymentInv, DeploymentTypeOK
<1>2. /\ Existing' = Existing /\ Deployed' = Deployed
      /\ \A d : Version(d)' = Version(d) /\ Expected(d)' = Expected(d)
      /\ \A v : RetrainedBySecond(v)' = RetrainedBySecond(v)
  BY <1>1 DEF Existing, Deployed, Version, Expected, RetrainedBySecond
<1>3. DeploymentTypeOK'
  BY <1>1 DEF DeploymentInv, DeploymentTypeOK
<1>4. /\ ArgumentsGiven'
      /\ OwnersKnown'
      /\ BirthsOrdered'
  BY <1>1, <1>2 DEF DeploymentInv, ArgumentsGiven, OwnersKnown, BirthsOrdered
<1>5. FilesExplained' /\ NoneServesMeansMark'
  BY <1>1, <1>2 DEF DeploymentInv, FilesExplained, NoneServesMeansMark
<1>6. ReadersServed' /\ InferencesAreExplained'
  BY <1>1, <1>2 DEF DeploymentInv, ReadersServed, InferencesAreExplained
<1> QED BY <1>3, <1>4, <1>5, <1>6 DEF DeploymentInv
-----------------------------------------------------------------------------
\* The newest of a set of artifact rows
Newest(table, D) == CHOOSE v \in D : \A w \in D : table[w].born <= table[v].born

\* A set of rows whose numbers are bounded has a newest one.
LEMMA NewestIs ==
  ASSUME NEW table, NEW D, D # {}, NEW B \in Nat,
         \A v \in D : table[v].born \in Nat /\ table[v].born <= B
  PROVE  /\ Newest(table, D) \in D
         /\ \A w \in D : table[w].born <= table[Newest(table, D)].born
<1> DEFINE Left == {B - table[v].born : v \in D}
<1>1. \A v \in D : B - table[v].born \in Nat
  OBVIOUS
<1>2. Left \subseteq Nat /\ Left # {}
  BY <1>1
<1>3. PICK n \in Left : \A m \in Left : n <= m
  <2> HIDE DEF Left
  <2>1. PICK n \in Left : \A m \in Left : <<m, n>> \notin OpToRel(<, Nat)
    BY <1>2, NatLessThanWellFounded, WFMin
  <2>2. \A m \in Left : ~(m < n)
    BY <1>2, <2>1 DEF OpToRel
  <2> QED BY <1>2, <2>2
<1>4. PICK v \in D : n = B - table[v].born
  BY <1>3
<1>5. \A w \in D : table[w].born <= table[v].born
  <2>1. SUFFICES ASSUME NEW w \in D PROVE table[w].born <= table[v].born
    OBVIOUS
  <2>2. B - table[v].born <= B - table[w].born
    BY <1>3, <1>4
  <2> QED BY <2>2
<1> QED BY <1>5 DEF Newest

\* The query of the filter engine, in these terms.
LEMMA ServingNewest == Serving = IF Deployed = {} THEN Mock ELSE Newest(artifact, Deployed)
BY DEF Serving, Newest

\* The deployed rows are numbered, and so the newest of them exists.
LEMMA ServingIs ==
  ASSUME DeploymentInv, Deployed # {}
  PROVE  /\ Newest(artifact, Deployed) \in Deployed
         /\ \A w \in Deployed : artifact[w].born <= artifact[Newest(artifact, Deployed)].born
<1>1. Deployed \subseteq Existing
  BY DEF Deployed, Existing
<1>2. Cardinality(Existing) \in Nat
  BY FS_CardinalityType DEF DeploymentInv, BirthsOrdered
<1>3. \A v \in Deployed : artifact[v].born \in Nat /\ artifact[v].born <= Cardinality(Existing)
  BY <1>1 DEF DeploymentInv, DeploymentTypeOK, BirthsOrdered, ArtifactRows, Existing
<1> QED BY <1>2, <1>3, NewestIs

\* The row is read: it names a version that exists.
LEMMA SelectStep ==
  ASSUME DeploymentInv, NEW r \in Readers, SelectModel(r)
  PROVE  DeploymentInv'
<1>1. Serving # Mock => Serving \in Existing
  BY ServingNewest, ServingIs DEF Deployed, Existing
<1>2. UNCHANGED <<training, died, dataset, artifact, file, deployment>>
  BY DEF SelectModel
<1>3. /\ inference' \in [Readers -> InferenceRows]
      /\ inference'[r].stage = "selected" /\ inference'[r].model = Serving
      /\ \A q \in Readers \ {r} : inference'[q] = inference[q]
  BY <1>1 DEF SelectModel, DeploymentInv, DeploymentTypeOK, InferenceRows, Existing
<1>4. ReadersServed'
  BY <1>1, <1>2, <1>3 DEF DeploymentInv, ReadersServed, Existing
<1>5. InferencesAreExplained'
  BY <1>2, <1>3 DEF DeploymentInv, InferencesAreExplained, RetrainedBySecond, Version
<1>6. DeploymentTypeOK'
  BY <1>2, <1>3 DEF DeploymentInv, DeploymentTypeOK
<1>7. ArgumentsGiven' /\ OwnersKnown' /\ BirthsOrdered'
  BY <1>2 DEF DeploymentInv, ArgumentsGiven, OwnersKnown, BirthsOrdered, Version, Existing
<1>8. FilesExplained' /\ NoneServesMeansMark'
  BY <1>2 DEF DeploymentInv, FilesExplained, NoneServesMeansMark, Version, Expected, Deployed
<1> QED BY <1>4, <1>5, <1>6, <1>7, <1>8 DEF DeploymentInv

\* The file is read now, whatever has happened to it since the row was read.
LEMMA InferStep ==
  ASSUME DeploymentInv, NEW r \in Readers, Infer(r)
  PROVE  DeploymentInv'
<1> DEFINE m == inference[r].model
           loaded == m # Mock /\ file[m] # Torn
<1>1. m = Mock \/ m \in Existing
  BY DEF DeploymentInv, ReadersServed
<1>2. UNCHANGED <<training, died, dataset, artifact, file, deployment>>
  BY DEF Infer
<1>3. /\ inference' \in [Readers -> InferenceRows]
      /\ inference'[r].stage = "logged" /\ inference'[r].model = m
      /\ loaded => inference'[r].source = "model" /\ inference'[r].content = file[m]
      /\ \A q \in Readers \ {r} : inference'[q] = inference[q]
  BY <1>1 DEF Infer, DeploymentInv, DeploymentTypeOK, InferenceRows, Existing
<1>4. ReadersServed'
  BY <1>1, <1>2, <1>3 DEF DeploymentInv, ReadersServed, Existing
<1>5. m # Mock => \/ inference'[r].source = "model" /\ inference'[r].content = artifact[m].trainedBy
                  \/ RetrainedBySecond(m)
  <2>1. SUFFICES ASSUME m # Mock, ~RetrainedBySecond(m)
                 PROVE  /\ inference'[r].source = "model"
                        /\ inference'[r].content = artifact[m].trainedBy
    OBVIOUS
  <2>2. file[m] = artifact[m].trainedBy /\ artifact[m].trainedBy \in Trainings
    BY <1>1, <2>1, Culprit DEF DeploymentInv, OwnersKnown
  <2>3. file[m] # Torn
    BY <2>2, DeploymentConstants
  <2> QED BY <1>3, <2>1, <2>2, <2>3
<1>6. \A v : RetrainedBySecond(v)' = RetrainedBySecond(v)
  BY <1>2 DEF RetrainedBySecond, Version
<1>7. InferencesAreExplained'
  BY <1>2, <1>3, <1>5, <1>6 DEF DeploymentInv, InferencesAreExplained
<1>8. DeploymentTypeOK'
  BY <1>2, <1>3 DEF DeploymentInv, DeploymentTypeOK
<1>9. ArgumentsGiven' /\ OwnersKnown' /\ BirthsOrdered'
  BY <1>2 DEF DeploymentInv, ArgumentsGiven, OwnersKnown, BirthsOrdered, Version, Existing
<1>10. FilesExplained' /\ NoneServesMeansMark'
  BY <1>2 DEF DeploymentInv, FilesExplained, NoneServesMeansMark, Version, Expected, Deployed
<1> QED BY <1>4, <1>7, <1>8, <1>9, <1>10 DEF DeploymentInv

\* Every step of every call and of every reader keeps the invariant.
LEMMA DeploymentStep == DeploymentInv /\ [DeploymentNext]_deploymentVars => DeploymentInv'
<1> SUFFICES ASSUME DeploymentInv, [DeploymentNext]_deploymentVars PROVE DeploymentInv'
  OBVIOUS
<1>1. CASE UNCHANGED deploymentVars
  <2>1. UNCHANGED <<training, died, dataset, artifact, file, deployment, inference>>
    BY <1>1 DEF deploymentVars
  <2>2. DeploymentTypeOK' /\ ArgumentsGiven' /\ OwnersKnown' /\ BirthsOrdered'
    BY <2>1 DEF DeploymentInv, DeploymentTypeOK, ArgumentsGiven, OwnersKnown, BirthsOrdered,
                Version, Existing
  <2>3. FilesExplained' /\ NoneServesMeansMark'
    BY <2>1 DEF DeploymentInv, FilesExplained, NoneServesMeansMark, Version, Expected, Deployed
  <2>4. ReadersServed' /\ InferencesAreExplained'
    BY <2>1 DEF DeploymentInv, ReadersServed, InferencesAreExplained, RetrainedBySecond,
                Version, Existing
  <2> QED BY <2>2, <2>3, <2>4 DEF DeploymentInv
<1>2. ASSUME NEW c \in Trainings, Train(c) PROVE DeploymentInv'
  BY <1>2, EarlySteps, TrainStep, WriteStep, CreateSteps DEF Train
<1>3. ASSUME NEW c \in Trainings, Deploy(c) PROVE DeploymentInv'
  BY <1>3, RetireDeploymentsStep, RetireArtifactsStep, MarkDeployedStep,
     CreateDeploymentStep DEF Deploy
<1>4. ASSUME NEW c \in Trainings, Die(c) PROVE DeploymentInv'
  BY <1>4, DieStep
<1>5. ASSUME NEW r \in Readers, SelectModel(r) \/ Infer(r) PROVE DeploymentInv'
  BY <1>5, SelectStep, InferStep
<1> QED BY <1>1, <1>2, <1>3, <1>4, <1>5 DEF DeploymentNext
-----------------------------------------------------------------------------
\* Calls, rows, files and inferences keep their types: a version that serves
\* always exists among the deployed ones.
THEOREM DeploymentTyped == DeploymentSpec => []DeploymentTypeOK
<1>1. DeploymentInv => DeploymentTypeOK
  BY DEF DeploymentInv
<1> QED BY <1>1, DeploymentInitInv, DeploymentStep, PTL DEF DeploymentSpec

\* Once a version has been retired, the mock serves only while some call stands
\* between retiring and marking (training.py:30-39).
THEOREM MockOnlyInBetween == DeploymentSpec => []UnservedOnlyWhileDeploying
<1>1. DeploymentInv => UnservedOnlyWhileDeploying
  <2> SUFFICES ASSUME DeploymentInv, Serving = Mock PROVE Deployed = {}
    BY DEF DeploymentInv, NoneServesMeansMark, UnservedOnlyWhileDeploying
  <2>1. Deployed # {} => Serving \in Versions
    BY ServingNewest, ServingIs DEF Deployed
  <2> QED BY <2>1, DeploymentConstants
<1> QED BY <1>1, DeploymentInitInv, DeploymentStep, PTL DEF DeploymentSpec

\* The file of a version holds another model than its artifact row says only if
\* a second call has trained that version (training.py:80-86).
THEOREM SwappedFiles == DeploymentSpec => []SwappedFilesHaveACulprit
<1>1. DeploymentInv => SwappedFilesHaveACulprit
  BY Culprit DEF SwappedFilesHaveACulprit
<1> QED BY <1>1, DeploymentInitInv, DeploymentStep, PTL DEF DeploymentSpec

\* An inference used what its log row names, unless a second call has trained
\* that version (filter.py:90-105).
THEOREM InferencesExplained == DeploymentSpec => []InferencesAreExplained
<1>1. DeploymentInv => InferencesAreExplained
  BY DEF DeploymentInv
<1> QED BY <1>1, DeploymentInitInv, DeploymentStep, PTL DEF DeploymentSpec
-----------------------------------------------------------------------------
\* The second half of the refinement mapping
Spent == {v \in Versions : artifact[v].status \in {"DEPLOYED", "RETIRED"}}

\* A step that leaves the deployed rows and the published versions alone.
LEMMA StatusKept ==
  ASSUME DeploymentInv,
         \A v \in Versions : artifact'[v].status \in {"DEPLOYED", "RETIRED"} \/
                              artifact[v].status \in {"DEPLOYED", "RETIRED"}
                              => artifact'[v] = artifact[v]
  PROVE  Serving' = Serving /\ Spent' = Spent
<1>1. Deployed' = Deployed /\ Spent' = Spent
  BY DEF Deployed, Spent
<1>2. \A v \in Deployed : artifact'[v] = artifact[v]
  BY DEF Deployed
<1>3. \A v \in Deployed : (\A w \in Deployed : artifact'[w].born <= artifact'[v].born)
                        <=> (\A w \in Deployed : artifact[w].born <= artifact[v].born)
  BY <1>2
<1>4. Newest(artifact', Deployed) = Newest(artifact, Deployed)
  BY <1>3, Zenon DEF Newest
<1>5. Serving' = IF Deployed' = {} THEN Mock ELSE Newest(artifact', Deployed')
  BY DEF Serving, Newest
<1>6. Serving' = Serving
  BY <1>1, <1>4, <1>5, ServingNewest
<1> QED BY <1>1, <1>6

\* The statement that marks an artifact publishes its version, or enters it
\* behind a newer one.
LEMMA MarkPublishes ==
  ASSUME DeploymentInv, DeploymentInv', NEW c \in Trainings, MarkDeployed(c)
  PROVE  \E v \in Versions : Register!Publish(v)
<1>0. PICK v \in Versions : v = Version(c)
  BY MarkDeployedDoes
<1>1. /\ v \in Versions /\ artifact[v].status = "READY"
      /\ artifact'[v].status = "DEPLOYED"
      /\ \A w \in Versions : artifact'[w].born = artifact[w].born
      /\ \A w \in Versions \ {v} : artifact'[w] = artifact[w]
      /\ Deployed' = Deployed \cup {v}
  BY <1>0, MarkDeployedDoes
<1>2. v \notin Spent /\ Spent' = Spent \cup {v}
  BY <1>1 DEF Spent
<1>3. Serving' \in {v, Serving}
  <2>1. /\ Newest(artifact', Deployed') \in Deployed'
        /\ \A w \in Deployed' : artifact'[w].born <= artifact'[Newest(artifact', Deployed')].born
    <3>1. Deployed' \subseteq Existing'
      BY DEF Deployed, Existing
    <3>2. Cardinality(Existing') \in Nat
      BY FS_CardinalityType DEF DeploymentInv, BirthsOrdered
    <3>3. \A w \in Deployed' : /\ artifact'[w].born \in Nat
                               /\ artifact'[w].born <= Cardinality(Existing')
      BY <3>1 DEF DeploymentInv, DeploymentTypeOK, BirthsOrdered, ArtifactRows, Existing
    <3> QED BY <1>1, <3>2, <3>3, NewestIs
  <2>2. Serving' = Newest(artifact', Deployed')
    BY <1>1 DEF Serving, Newest
  <2>3. CASE Deployed = {}
    BY <1>1, <2>1, <2>2, <2>3
  <2>4. CASE Deployed # {}
    <3>1. Serving = Newest(artifact, Deployed) /\ Serving \in Deployed
          /\ \A w \in Deployed : artifact[w].born <= artifact[Serving].born
      BY <2>4, ServingNewest, ServingIs
    <3>2. SUFFICES ASSUME Serving' # v PROVE Serving' = Serving
      OBVIOUS
    <3>3. Serving' \in Deployed
      BY <1>1, <2>1, <2>2, <3>2
    <3>4. Deployed \subseteq Existing /\ Deployed \subseteq Versions
      BY DEF Deployed, Existing
    <3>5. artifact[Serving].born <= artifact[Serving'].born
          /\ artifact[Serving'].born <= artifact[Serving].born
      BY <1>1, <2>1, <2>2, <3>1, <3>3, <3>4
    <3>6. artifact[Serving].born \in Nat /\ artifact[Serving'].born \in Nat
      BY <3>1, <3>3, <3>4 DEF DeploymentInv, DeploymentTypeOK, ArtifactRows
    <3>7. artifact[Serving].born = artifact[Serving'].born
      BY <3>5, <3>6
    <3> QED BY <3>1, <3>3, <3>4, <3>7 DEF DeploymentInv, BirthsOrdered
  <2> QED BY <2>3, <2>4
<1> QED BY <1>1, <1>2, <1>3 DEF Register!Publish, Spent

\* The statement before it empties the register, or finds it empty.
LEMMA RetireWithdraws ==
  ASSUME DeploymentInv, NEW c \in Trainings, RetireArtifacts(c)
  PROVE  \/ Register!Withdraw
         \/ Serving' = Serving /\ Spent' = Spent
<1>1. Spent' = Spent
  BY RetireArtifactsDoes DEF Spent
<1>2. Serving' = Mock
  BY RetireArtifactsDoes DEF Serving
<1> QED BY <1>1, <1>2 DEF Register!Withdraw, Spent

\* Every step is a step of the register or leaves it alone.
LEMMA EveryStepMaps ==
  DeploymentInv /\ DeploymentInv' /\ [DeploymentNext]_deploymentVars
    => [Register!Next]_<<Serving, Spent>>
<1> SUFFICES ASSUME DeploymentInv, DeploymentInv', [DeploymentNext]_deploymentVars
             PROVE  [Register!Next]_<<Serving, Spent>>
  OBVIOUS
<1>1. CASE \E c \in Trainings : MarkDeployed(c)
  BY <1>1, MarkPublishes DEF Register!Next
<1>2. CASE \E c \in Trainings : RetireArtifacts(c)
  BY <1>2, RetireWithdraws DEF Register!Next
<1>3. CASE \E c \in Trainings : CreateArtifact(c)
  <2>1. PICK c \in Trainings : CreateArtifact(c)
    BY <1>3
  <2>2. CASE UNCHANGED artifact
    BY <2>2, StatusKept
  <2>3. CASE Version(c) \notin Existing
    <3>1. artifact' = [artifact EXCEPT ![Version(c)] =
                         [status |-> "READY", trainedBy |-> c,
                          born |-> 1 + Cardinality(Existing)]]
      BY <2>1, <2>3 DEF CreateArtifact
    <3>2. \A v \in Versions : v # Version(c) => artifact'[v] = artifact[v]
      BY <3>1 DEF DeploymentInv, DeploymentTypeOK
    <3>3. Version(c) \in Versions => /\ artifact'[Version(c)].status = "READY"
                                     /\ artifact[Version(c)].status = "none"
      BY <2>3, <3>1 DEF DeploymentInv, DeploymentTypeOK, Existing
    <3> QED BY <3>2, <3>3, StatusKept
  <2> QED BY <2>1, <2>2, <2>3 DEF CreateArtifact
<1>4. CASE UNCHANGED artifact
  BY <1>4, StatusKept
<1>5. \/ \E c \in Trainings : MarkDeployed(c)
      \/ \E c \in Trainings : RetireArtifacts(c)
      \/ \E c \in Trainings : CreateArtifact(c)
      \/ UNCHANGED artifact
  BY DEF DeploymentNext, Train, Deploy, StartDataset, AddSnapshots, AddItems, MarkReady,
         TrainAndOpen, WriteFile, RetireDeployments, CreateDeployment, Die, SelectModel,
         Infer, deploymentVars
<1> QED BY <1>1, <1>2, <1>3, <1>4, <1>5

\* deploy_artifact, its four statements, its deaths and the commands beside it,
\* is a register in which a version is published once and never comes back.
THEOREM DeploymentImplementsRegister == DeploymentSpec => ImplementsRegister
<1>1. DeploymentInit => Register!Init
  <2> SUFFICES ASSUME DeploymentInit PROVE Register!Init
    OBVIOUS
  <2>1. Deployed = {} /\ Spent = {}
    BY DEF DeploymentInit, NoArtifact, Deployed, Spent
  <2> QED BY <2>1 DEF Register!Init, Serving, Spent
<1>2. DeploymentInv /\ DeploymentInv' /\ [DeploymentNext]_deploymentVars
        => [Register!Next]_(Register!registerVars)
  BY EveryStepMaps DEF Register!registerVars, Spent
<1> QED BY <1>1, <1>2, DeploymentInitInv, DeploymentStep, PTL
        DEF DeploymentSpec, ImplementsRegister, Register!Spec
-----------------------------------------------------------------------------
(* Features. *)

\* The candles of a minute; at most one of a minute and source
Of(S, m) == {r \in S : r.opened = m}
OneEach(S) ==
  /\ S \subseteq CandleRows
  /\ \A q, r \in S : q.opened = r.opened /\ q.source = r.source => q = r

\* first says which of two candles of a minute comes first.
Settles(S, first) ==
  \A m \in FeatureMinutes : Cardinality(Of(S, m)) > 1 => first[m] \in Writers

\* u[m] are the candles up to minute m, in order
IsAscent(u, S, first) ==
  /\ u \in [0 .. LastFeatureMinute -> Seq(CandleRows)] /\ u[0] = <<>>
  /\ \A m \in 1 .. LastFeatureMinute : u[m] = u[m - 1] \o Within(S, m, first)

\* A run's snapshot is built from the candles it has seen, whichever of two came
\* first, and there was none later.
FeatureInv ==
  /\ OneEach(rows)
  /\ served # NothingServed =>
       /\ served.seen \subseteq rows
       /\ \E first : \E joined \in BOOLEAN :
            /\ Settles(served.seen, first)
            /\ served.features
                 = BuildFeatures(First(Reverse(Ascending(served.seen, first)), Lookback),
                                 served.quote, joined)

\* A minute has at most two candles.
LEMMA TwoAtMost ==
  ASSUME NEW S, OneEach(S), NEW m
  PROVE  /\ IsFiniteSet(Of(S, m)) /\ Cardinality(Of(S, m)) \in 0 .. 2
         /\ Cardinality(Of(S, m)) = 0 => Of(S, m) = {}
         /\ Cardinality(Of(S, m)) = 1 => \E r \in S : Of(S, m) = {r}
         /\ Cardinality(Of(S, m)) = 2 =>
              \A w \in Writers : (\E r \in Of(S, m) : r.source = w)
                                   /\ (\E r \in Of(S, m) : r.source # w)
<1> DEFINE T == Of(S, m)
           f == [r \in T |-> r.source]
<1>1. T \subseteq S /\ \A r \in T : r.opened = m /\ r.source \in Writers
  BY DEF Of, OneEach, CandleRows, CandleRow
<1>2. \A q, r \in T : q.source = r.source => q = r
  BY <1>1 DEF OneEach
<1>3. IsFiniteSet(Writers) /\ Cardinality(Writers) = 2
  <2>1. IsFiniteSet({"kis_ws"}) /\ Cardinality({"kis_ws"}) = 1
    BY FS_Singleton
  <2>2. Writers = {"kis_ws"} \cup {"kis_rest"} /\ "kis_rest" \notin {"kis_ws"}
    BY DEF Writers
  <2> QED BY <2>1, <2>2, FS_AddElement
<1> HIDE DEF T
<1>4. f \in Injection(T, Writers)
  <2>1. f \in [T -> Writers] /\ \A q, r \in T : f[q] = f[r] => q = r
    BY <1>1, <1>2
  <2> HIDE DEF f
  <2> QED BY <2>1 DEF Injection, IsInjective
<1>5. IsFiniteSet(T) /\ Cardinality(T) <= 2 /\ Cardinality(T) \in Nat
  <2> HIDE DEF f
  <2> QED BY <1>3, <1>4, FS_Injection, FS_CardinalityType
<1>6. Cardinality(T) = 0 => T = {}
  BY <1>5, FS_EmptySet
<1>7. Cardinality(T) = 1 => \E r \in S : T = {r}
  BY <1>1, <1>5, FS_Singleton
<1>8. ASSUME Cardinality(T) = 2, NEW w \in Writers
      PROVE  (\E r \in T : r.source = w) /\ (\E r \in T : r.source # w)
  <2>1. T # {}
    BY <1>8, FS_EmptySet
  <2>2. PICK q \in T : TRUE
    BY <2>1
  <2>3. T # {q}
    BY <1>8, FS_Singleton
  <2>4. PICK r \in T : r # q
    BY <2>2, <2>3
  <2>5. q.source # r.source
    BY <1>2, <2>4
  <2>6. q.source \in Writers /\ r.source \in Writers
    BY <1>1
  <2> QED BY <2>5, <2>6 DEF Writers
<1> QED BY <1>5, <1>6, <1>7, <1>8 DEF T

\* They are listed, whichever comes first; where there is one, there is no choice.
LEMMA WithinIs ==
  ASSUME NEW S, OneEach(S), NEW first, Settles(S, first), NEW m \in FeatureMinutes
  PROVE  /\ Within(S, m, first) \in Seq(CandleRows)
         /\ Len(Within(S, m, first)) = Cardinality(Of(S, m))
         /\ Cardinality(Of(S, m)) \in 0 .. 2
         /\ \A i \in 1 .. Cardinality(Of(S, m)) : Within(S, m, first)[i].opened = m
         /\ Cardinality(Of(S, m)) <= 1 => Within(S, m, first) = SetToSeq(Of(S, m))
<1> DEFINE T == Of(S, m)
           c == Cardinality(T)
           a == CHOOSE r \in T : r.source = first[m]
           b == CHOOSE r \in T : r.source # first[m]
           l == SetToSeq(T)
<1>1. /\ c \in 0 .. 2 /\ (c = 0 => T = {}) /\ (c = 1 => \E r \in S : T = {r})
      /\ c = 2 => \A w \in Writers : (\E r \in T : r.source = w) /\ (\E r \in T : r.source # w)
  BY TwoAtMost
<1>2. T \subseteq CandleRows /\ \A r \in T : r.opened = m
  BY DEF Of, OneEach
<1>3. Within(S, m, first) = IF c > 1 THEN <<a, b>> ELSE l
  BY DEF Within, Of
<1>4. c > 1 => first[m] \in Writers
  BY DEF Settles
<1> HIDE DEF T
<1>5. c > 1 => a \in T /\ b \in T
  <2> SUFFICES ASSUME c > 1 PROVE a \in T /\ b \in T
    OBVIOUS
  <2>1. c = 2
    BY <1>1
  <2> QED BY <1>1, <1>4, <2>1
<1>6. c <= 1 => l \in [1 .. c -> T]
  <2>1. ASSUME c = 0 PROVE \E g \in [1 .. c -> T] : IsInjective(g)
    <3> DEFINE g == [i \in 1 .. c |-> i]
    <3>1. g \in [1 .. c -> T] /\ \A i, j \in 1 .. c : g[i] = g[j] => i = j
      BY <2>1
    <3>2. IsInjective(g)
      BY <3>1 DEF IsInjective
    <3> QED BY <3>1, <3>2
  <2>2. ASSUME c = 1 PROVE \E g \in [1 .. c -> T] : IsInjective(g)
    <3>1. PICK r \in S : T = {r}
      BY <1>1, <2>2
    <3> DEFINE g == [i \in 1 .. c |-> r]
    <3>2. g \in [1 .. c -> T]
      BY <3>1
    <3>3. \A i, j \in 1 .. c : i = j
      BY <2>2
    <3>4. IsInjective(g)
      BY <3>3 DEF IsInjective
    <3> QED BY <3>2, <3>4
  <2>3. c <= 1 => \E g \in [1 .. c -> T] : IsInjective(g)
    BY <1>1, <2>1, <2>2
  <2>4. l = CHOOSE g \in [1 .. c -> T] : IsInjective(g)
    BY DEF SetToSeq
  <2> HIDE DEF c, l
  <2> QED BY <2>3, <2>4, Zenon
<1> HIDE DEF c, a, b, l
<1>7. CASE c > 1
  <2>1. c = 2 /\ Within(S, m, first) = <<a, b>> /\ a \in T /\ b \in T /\ ~(c <= 1)
    BY <1>1, <1>3, <1>5, <1>7
  <2>2. <<a, b>> \in Seq(CandleRows) /\ Len(<<a, b>>) = 2
    BY <1>2, <2>1
  <2>3. \A i \in 1 .. 2 : <<a, b>>[i].opened = m
    <3>1. \A i \in 1 .. 2 : i = 1 \/ i = 2
      OBVIOUS
    <3>2. <<a, b>>[1] = a /\ <<a, b>>[2] = b
      OBVIOUS
    <3> QED BY <1>2, <2>1, <3>1, <3>2
  <2> QED BY <1>1, <2>1, <2>2, <2>3 DEF c, T
<1>8. CASE c <= 1
  <2>1. Within(S, m, first) = l /\ l \in [1 .. c -> T] /\ c \in Nat
    BY <1>1, <1>3, <1>6, <1>8
  <2>2. l \in Seq(CandleRows) /\ Len(l) = c /\ \A i \in 1 .. c : l[i].opened = m
    <3>1. l \in Seq(T) /\ Len(l) = c
      BY <2>1
    <3>2. l \in [1 .. c -> CandleRows]
      BY <1>2, <2>1
    <3>3. l \in Seq(CandleRows)
      BY <2>1, <3>2
    <3> QED BY <1>2, <2>1, <3>1, <3>3
  <2> QED BY <1>1, <2>1, <2>2 DEF c, T, l
<1> QED BY <1>1, <1>7, <1>8

\* The candles in order, minute by minute
LEMMA AscendingRuns ==
  ASSUME NEW S, OneEach(S), NEW first, Settles(S, first)
  PROVE  \E u : IsAscent(u, S, first) /\ Ascending(S, first) = u[LastFeatureMinute]
<1> DEFINE n == LastFeatureMinute
           V == Seq(CandleRows)
           F(g) == [T \in SUBSET (1 .. n) |->
                      IF T = {} THEN <<>>
                      ELSE g[T \ {Max(T)}] \o Within(S, [k \in 1 .. n |-> k][Max(T)], first)]
           G == CHOOSE g : g = F(g)
           h == [k \in 1 .. n |-> [x \in V |-> x \o Within(S, k, first)]]
           u == [k \in 0 .. n |-> G[1 .. k]]
<1>1. n \in Nat /\ FeatureMinutes = 1 .. n
  BY FeatureConstants DEF FeatureMinutes
<1>2. Ascending(S, first) = G[1 .. n]
  BY <1>1 DEF Ascending, FoldLeft, MapThenFoldSet
<1>3. /\ \A k \in 1 .. n : \A x \in V : x \o Within(S, k, first) \in V
      /\ <<>> \in V
  <2>1. \A k \in 1 .. n : Within(S, k, first) \in V
    BY <1>1, WithinIs
  <2> QED BY <2>1
<1>4. G = F(G)
  <2>1. h \in [1 .. n -> [V -> V]]
    <3> HIDE DEF V, n
    <3> QED BY <1>3
  <2>2. PICK g \in [SUBSET (1 .. n) -> V] : ChainSolves(g, n, <<>>, h)
    <3> HIDE DEF h, n, V
    <3>1. <<>> \in V /\ n \in Nat
      BY <1>1, <1>3
    <3>2. \E g \in [SUBSET (1 .. n) -> V] : ChainSolves(g, n, <<>>, h)
      BY <2>1, <3>1, ChainFold, Zenon
    <3> QED BY <3>2
  <2>3. g = F(g)
    <3>1. ASSUME NEW T \in SUBSET (1 .. n), T # {}
          PROVE  /\ [k \in 1 .. n |-> k][Max(T)] = Max(T)
                 /\ h[Max(T)][g[T \ {Max(T)}]] = g[T \ {Max(T)}] \o Within(S, Max(T), first)
      <4>1. Max(T) \in 1 .. n
        BY <3>1, <1>1, LargestMember
      <4>2. g[T \ {Max(T)}] \in V
        BY <2>2
      <4> HIDE DEF V, n
      <4> QED BY <4>1, <4>2
    <3>2. \A T \in SUBSET (1 .. n) :
            g[T] = IF T = {} THEN <<>> ELSE h[Max(T)][g[T \ {Max(T)}]]
      BY <2>2 DEF ChainSolves
    <3>3. \A T \in SUBSET (1 .. n) :
            g[T] = IF T = {} THEN <<>>
                   ELSE g[T \ {Max(T)}] \o Within(S, [k \in 1 .. n |-> k][Max(T)], first)
      <4> HIDE DEF h, n, V
      <4> QED BY <3>1, <3>2
    <3>4. g \in [SUBSET (1 .. n) -> V]
      BY <2>2
    <3> HIDE DEF h, n, V
    <3> QED BY <3>3, <3>4
  <2>4. \E x : x = F(x)
    <3> HIDE DEF F
    <3> QED BY <2>3
  <2> HIDE DEF F
  <2> QED BY <2>4
<1>5. ASSUME NEW k \in 1 .. n PROVE G[1 .. k] = G[1 .. (k - 1)] \o Within(S, k, first)
  <2>1. /\ 1 .. k \in SUBSET (1 .. n) /\ 1 .. k # {} /\ Max(1 .. k) = k
        /\ (1 .. k) \ {k} = 1 .. (k - 1)
    <3> HIDE DEF n
    <3> QED BY <1>1, LastOfRange
  <2>2. G[1 .. k] = F(G)[1 .. k]
    BY <1>4
  <2>3. \A T \in SUBSET (1 .. n) : T # {} =>
          F(G)[T] = G[T \ {Max(T)}] \o Within(S, [j \in 1 .. n |-> j][Max(T)], first)
    <3> HIDE DEF G, n
    <3> QED OBVIOUS
  <2>4. F(G)[1 .. k] = G[(1 .. k) \ {Max(1 .. k)}]
          \o Within(S, [j \in 1 .. n |-> j][Max(1 .. k)], first)
    <3> HIDE DEF F, G, n
    <3> QED BY <2>1, <2>3
  <2>5. [j \in 1 .. n |-> j][Max(1 .. k)] = k
    <3> HIDE DEF n
    <3> QED BY <2>1
  <2> HIDE DEF F, G, n
  <2> QED BY <2>1, <2>2, <2>4, <2>5
<1>6. G[1 .. 0] = <<>>
  <2>1. G[1 .. 0] = F(G)[1 .. 0]
    BY <1>4
  <2> HIDE DEF G
  <2>2. 1 .. 0 = {} /\ {} \in SUBSET (1 .. n)
    OBVIOUS
  <2> QED BY <2>1, <2>2
<1> HIDE DEF G
<1>7. \A k \in 0 .. n : G[1 .. k] \in V
  <2> DEFINE A == {j \in 0 .. n : G[1 .. j] \in V}
  <2> HIDE DEF V, n
  <2>1. 0 \in A
    BY <1>1, <1>3, <1>6
  <2>2. ASSUME NEW k \in 1 .. n, k - 1 \in A PROVE k \in A
    <3>1. G[1 .. (k - 1)] \in V
      BY <2>2
    <3>2. G[1 .. k] \in V
      BY <3>1, <1>3, <1>5
    <3> QED BY <3>2, <1>1
  <2>3. \A k \in 0 .. n : k \in A
    <3> HIDE DEF A
    <3> QED BY <2>1, <2>2, <1>1, UpTo
  <2> QED BY <2>3
<1>8. u \in [0 .. n -> V] /\ u[0] = <<>> /\ Ascending(S, first) = u[n]
  <2> HIDE DEF V, n
  <2> QED BY <1>1, <1>2, <1>6, <1>7
<1>9. \A k \in 1 .. n : u[k] = u[k - 1] \o Within(S, k, first)
  <2> SUFFICES ASSUME NEW k \in 1 .. n PROVE u[k] = u[k - 1] \o Within(S, k, first)
    OBVIOUS
  <2> HIDE DEF V, n
  <2>1. k \in 0 .. n /\ k - 1 \in 0 .. n
    BY <1>1
  <2>2. u[k] = G[1 .. k] /\ u[k - 1] = G[1 .. (k - 1)]
    BY <2>1
  <2>3. G[1 .. k] = G[1 .. (k - 1)] \o Within(S, k, first)
    BY <1>5
  <2> HIDE DEF u
  <2> QED BY <2>2, <2>3
<1> HIDE DEF u
<1>10. IsAscent(u, S, first)
  BY <1>8, <1>9 DEF IsAscent
<1> QED BY <1>8, <1>10

\* A minute more: where its candles come, and that the others stay
LEMMA AscentStep ==
  ASSUME NEW S, OneEach(S), NEW first, Settles(S, first), NEW u, IsAscent(u, S, first),
         NEW m \in 1 .. LastFeatureMinute
  PROVE  /\ u[m] \in Seq(CandleRows) /\ u[m - 1] \in Seq(CandleRows)
         /\ Len(u[m]) = Len(u[m - 1]) + Cardinality(Of(S, m))
         /\ Cardinality(Of(S, m)) \in 0 .. 2
         /\ \A j \in 1 .. Len(u[m - 1]) : u[m][j] = u[m - 1][j]
         /\ \A j \in Len(u[m - 1]) + 1 .. Len(u[m]) :
              /\ u[m][j].opened = m
              /\ Cardinality(Of(S, m)) <= 1 =>
                   u[m][j] = SetToSeq(Of(S, m))[j - Len(u[m - 1])]
<1> DEFINE s == u[m - 1]
           w == Within(S, m, first)
           c == Cardinality(Of(S, m))
<1>1. m \in FeatureMinutes /\ m - 1 \in 0 .. LastFeatureMinute /\ m \in 0 .. LastFeatureMinute
  BY FeatureConstants DEF FeatureMinutes
<1>2. s \in Seq(CandleRows) /\ u[m] \in Seq(CandleRows) /\ u[m] = s \o w
  BY <1>1 DEF IsAscent
<1>3. /\ w \in Seq(CandleRows) /\ Len(w) = c /\ c \in 0 .. 2
      /\ \A i \in 1 .. c : w[i].opened = m
      /\ c <= 1 => w = SetToSeq(Of(S, m))
  BY <1>1, WithinIs
<1> DEFINE t == SetToSeq(Of(S, m))
<1> HIDE DEF s, w, c, t
<1>4. /\ Len(s \o w) = Len(s) + Len(w)
      /\ \A i \in 1 .. Len(s) + Len(w) : (s \o w)[i] = IF i <= Len(s) THEN s[i] ELSE w[i - Len(s)]
  BY <1>2, <1>3, ConcatProperties
<1>5. Len(s) \in Nat
  BY <1>2
<1>6. \A j \in 1 .. Len(s) : (s \o w)[j] = s[j]
  BY <1>3, <1>4, <1>5
<1>7. ASSUME NEW j \in Len(s) + 1 .. Len(s \o w)
      PROVE  /\ (s \o w)[j].opened = m
             /\ c <= 1 => (s \o w)[j] = t[j - Len(s)]
  <2>1. j \in 1 .. Len(s) + Len(w) /\ ~(j <= Len(s)) /\ j - Len(s) \in 1 .. c
    BY <1>3, <1>4, <1>5
  <2>2. (s \o w)[j] = w[j - Len(s)]
    BY <1>4, <2>1
  <2> QED BY <1>3, <2>1, <2>2 DEF t
<1> QED BY <1>2, <1>3, <1>4, <1>6, <1>7 DEF s, c, t

\* The candles up to a minute are those of that minute or earlier ones, and come
\* first among all.
LEMMA AscentSplits ==
  ASSUME NEW S, OneEach(S), NEW first, Settles(S, first), NEW u, IsAscent(u, S, first),
         NEW k \in 0 .. LastFeatureMinute
  PROVE  /\ \A j \in 1 .. Len(u[k]) : u[k][j].opened <= k /\ u[k][j].opened \in FeatureMinutes
         /\ \A m \in 0 .. LastFeatureMinute : m >= k =>
              /\ Len(u[k]) <= Len(u[m])
              /\ \A j \in 1 .. Len(u[k]) : u[m][j] = u[k][j]
              /\ \A j \in Len(u[k]) + 1 .. Len(u[m]) : u[m][j].opened > k
<1> DEFINE n == LastFeatureMinute
           Early(m) == \A j \in 1 .. Len(u[m]) : u[m][j].opened <= m /\ u[m][j].opened \in 1 .. n
           Late(m) == /\ Len(u[k]) <= Len(u[m])
                      /\ \A j \in 1 .. Len(u[k]) : u[m][j] = u[k][j]
                      /\ \A j \in Len(u[k]) + 1 .. Len(u[m]) : u[m][j].opened > k
           A == {m \in 0 .. n : Early(m)}
           B == {m \in 0 .. n : m >= k => Late(m)}
<1>1. n \in Nat /\ FeatureMinutes = 1 .. n
  BY FeatureConstants DEF FeatureMinutes
<1>2. u[0] = <<>> /\ \A m \in 0 .. n : u[m] \in Seq(CandleRows) /\ Len(u[m]) \in Nat
  BY DEF IsAscent
<1>3. \A m \in 1 .. n :
        /\ Len(u[m]) = Len(u[m - 1]) + Cardinality(Of(S, m))
        /\ Cardinality(Of(S, m)) \in 0 .. 2
        /\ \A j \in 1 .. Len(u[m - 1]) : u[m][j] = u[m - 1][j]
        /\ \A j \in Len(u[m - 1]) + 1 .. Len(u[m]) : u[m][j].opened = m
  BY AscentStep
<1> HIDE DEF n
<1>4. 0 \in A
  BY <1>1, <1>2
<1>5. ASSUME NEW m \in 1 .. n, m - 1 \in A PROVE m \in A
  <2>1. m - 1 \in 0 .. n /\ m \in 0 .. n /\ Len(u[m]) \in Nat /\ Len(u[m - 1]) \in Nat
    BY <1>1, <1>2
  <2>2. ASSUME NEW j \in 1 .. Len(u[m]) PROVE u[m][j].opened <= m /\ u[m][j].opened \in 1 .. n
    <3>1. CASE j <= Len(u[m - 1])
      <4>1. j \in 1 .. Len(u[m - 1])
        BY <2>1, <3>1
      <4>2. u[m][j] = u[m - 1][j]
        BY <1>3, <4>1
      <4>3. u[m - 1][j].opened <= m - 1 /\ u[m - 1][j].opened \in 1 .. n
        BY <1>5, <4>1
      <4>4. u[m][j].opened <= m - 1 /\ u[m][j].opened \in 1 .. n
        BY <4>2, <4>3
      <4> HIDE DEF A
      <4> QED BY <4>4, <1>1
    <3>2. CASE ~(j <= Len(u[m - 1]))
      <4>1. j \in Len(u[m - 1]) + 1 .. Len(u[m])
        BY <2>1, <3>2
      <4>2. u[m][j].opened = m
        BY <1>3, <4>1
      <4> QED BY <4>2
    <3> QED BY <3>1, <3>2
  <2> QED BY <2>1, <2>2
<1>6. \A m \in 0 .. n : m \in A
  <2> HIDE DEF A
  <2> QED BY <1>1, <1>4, <1>5, UpTo
<1>7. k \in B
  <2>1. Len(u[k]) \in Nat /\ k \in 0 .. n
    BY <1>2 DEF n
  <2> QED BY <2>1
<1>8. 0 \in B
  <2>1. CASE k = 0
    BY <1>7, <2>1
  <2>2. CASE k # 0
    <3>1. ~(0 >= k) /\ 0 \in 0 .. n
      BY <1>1, <2>2 DEF n
    <3> QED BY <3>1
  <2> QED BY <2>1, <2>2
<1>9. ASSUME NEW m \in 1 .. n, m - 1 \in B PROVE m \in B
  <2>1. m - 1 \in 0 .. n /\ m \in 0 .. n /\ k \in Nat
    BY <1>1 DEF n
  <2>2. CASE m <= k
    <3>1. CASE m = k
      BY <1>7, <3>1
    <3>2. CASE m # k
      <4>1. ~(m >= k)
        BY <2>1, <2>2, <3>2
      <4> QED BY <2>1, <4>1
    <3> QED BY <3>1, <3>2
  <2>3. CASE ~(m <= k)
    <3>1. m - 1 >= k /\ k \in 0 .. n /\ m > k
      BY <2>1, <2>3, <1>7
    <3>2. Late(m - 1)
      BY <1>9, <3>1
    <3> DEFINE p == Len(u[k])  q == Len(u[m - 1])  r == Len(u[m])
    <3>3. p \in Nat /\ q \in Nat /\ r \in Nat /\ p <= q /\ q <= r
      <4>1. p \in Nat /\ q \in Nat /\ r \in Nat
        BY <1>2, <2>1, <3>1
      <4>2. p <= q
        BY <3>2
      <4>3. r = q + Cardinality(Of(S, m)) /\ Cardinality(Of(S, m)) \in 0 .. 2
        BY <1>3
      <4> HIDE DEF p, q, r
      <4> QED BY <4>1, <4>2, <4>3
    <3>4. ASSUME NEW j \in 1 .. p PROVE u[m][j] = u[k][j]
      <4>1. j \in 1 .. q
        BY <3>3
      <4> QED BY <1>3, <3>2, <4>1
    <3>5. ASSUME NEW j \in p + 1 .. r PROVE u[m][j].opened > k
      <4>1. CASE j <= q
        <5>1. j \in p + 1 .. q /\ j \in 1 .. q
          BY <3>3, <4>1
        <5>2. u[m][j] = u[m - 1][j]
          BY <1>3, <5>1
        <5>3. u[m - 1][j].opened > k
          BY <3>2, <5>1
        <5> QED BY <5>2, <5>3
      <4>2. CASE ~(j <= q)
        <5>1. j \in q + 1 .. r
          BY <3>3, <4>2
        <5>2. u[m][j].opened = m
          BY <1>3, <5>1
        <5> QED BY <3>1, <5>2
      <4> QED BY <4>1, <4>2
    <3>6. Late(m)
      BY <3>3, <3>4, <3>5
    <3> HIDE DEF Late
    <3> QED BY <2>1, <3>6
  <2> QED BY <2>2, <2>3
<1>10. \A m \in 0 .. n : m \in B
  <2> HIDE DEF B
  <2> QED BY <1>1, <1>8, <1>9, UpTo
<1>11. Early(k)
  <2>1. k \in 0 .. n
    BY DEF n
  <2>2. k \in A
    BY <1>6, <2>1
  <2> QED BY <2>2
<1> QED BY <1>1, <1>10, <1>11 DEF n

\* No candle more: the candles stay.
LEMMA AscentEnds ==
  ASSUME NEW S, OneEach(S), NEW first, Settles(S, first), NEW u, IsAscent(u, S, first),
         NEW k \in 0 .. LastFeatureMinute,
         \A m \in 1 .. LastFeatureMinute : m > k => Of(S, m) = {}
  PROVE  Len(u[LastFeatureMinute]) = Len(u[k])
<1> DEFINE n == LastFeatureMinute
           A == {m \in 0 .. n : m >= k => Len(u[m]) = Len(u[k])}
<1>1. n \in Nat /\ k \in 0 .. n
  BY FeatureConstants
<1>2. \A m \in 0 .. n : Len(u[m]) \in Nat
  BY DEF IsAscent
<1>3. \A m \in 1 .. n : Len(u[m]) = Len(u[m - 1]) + Cardinality(Of(S, m))
  BY AscentStep
<1>4. \A m \in 1 .. n : m > k => Cardinality(Of(S, m)) = 0
  BY FS_EmptySet
<1> HIDE DEF n
<1>5. 0 \in A
  <2>1. 0 >= k => k = 0
    BY <1>1
  <2> QED BY <1>1, <2>1
<1>6. ASSUME NEW m \in 1 .. n, m - 1 \in A PROVE m \in A
  <2>1. m \in 0 .. n /\ m - 1 \in 0 .. n
    BY <1>1
  <2>2. ASSUME m > k PROVE Len(u[m]) = Len(u[k])
    <3>1. Len(u[m - 1]) = Len(u[k])
      <4>1. m - 1 >= k
        BY <1>1, <2>2
      <4> QED BY <1>6, <4>1
    <3>2. Len(u[m]) = Len(u[m - 1]) + 0
      BY <1>3, <1>4, <2>2
    <3>3. Len(u[m - 1]) \in Nat
      BY <1>2, <2>1
    <3> QED BY <3>1, <3>2, <3>3
  <2>3. m >= k => m > k \/ m = k
    BY <1>1
  <2> QED BY <2>1, <2>2, <2>3
<1>7. \A m \in 0 .. n : m \in A
  <2> HIDE DEF A
  <2> QED BY <1>1, <1>5, <1>6, UpTo
<1>8. n \in A /\ n >= k
  BY <1>1, <1>7
<1> QED BY <1>8 DEF n

\* Two readings of the same candles are as long, and differ only where a minute
\* has two.
LEMMA SameAscents ==
  ASSUME NEW S, OneEach(S), NEW f, Settles(S, f), NEW u, IsAscent(u, S, f),
         NEW T, OneEach(T), NEW g, Settles(T, g), NEW v, IsAscent(v, T, g),
         NEW k \in 0 .. LastFeatureMinute, \A m \in 1 .. k : Of(S, m) = Of(T, m)
  PROVE  /\ Len(u[k]) = Len(v[k])
         /\ \A j \in 1 .. Len(u[k]) :
              Cardinality(Of(S, u[k][j].opened)) <= 1 => u[k][j] = v[k][j]
<1> DEFINE Same(m) == /\ Len(u[m]) = Len(v[m])
                      /\ \A j \in 1 .. Len(u[m]) :
                           Cardinality(Of(S, u[m][j].opened)) <= 1 => u[m][j] = v[m][j]
           A == {m \in 0 .. k : Same(m)}
<1>1. k \in Nat /\ \A m \in 0 .. k : Len(u[m]) \in Nat /\ Len(v[m]) \in Nat
  <2>1. k \in Nat /\ \A m \in 0 .. k : m \in 0 .. LastFeatureMinute
    BY FeatureConstants
  <2>2. \A m \in 0 .. LastFeatureMinute : u[m] \in Seq(CandleRows) /\ v[m] \in Seq(CandleRows)
    BY DEF IsAscent
  <2>3. \A m \in 0 .. LastFeatureMinute : Len(u[m]) \in Nat /\ Len(v[m]) \in Nat
    BY <2>2
  <2> QED BY <2>1, <2>3
<1>2. u[0] = <<>> /\ v[0] = <<>>
  BY DEF IsAscent
<1>3. 0 \in A
  BY <1>1, <1>2
<1>4. ASSUME NEW m \in 1 .. k, m - 1 \in A PROVE m \in A
  <2>1. m \in 1 .. LastFeatureMinute /\ m \in 0 .. k /\ m - 1 \in 0 .. k
    BY FeatureConstants
  <2>2. Same(m - 1)
    BY <1>4
  <2> DEFINE p == Len(u[m - 1])
             r == Len(u[m])
             c == Cardinality(Of(S, m))
             l == SetToSeq(Of(S, m))
  <2>3. /\ r = p + c /\ c \in 0 .. 2
        /\ \A j \in 1 .. p : u[m][j] = u[m - 1][j]
        /\ \A j \in p + 1 .. r : u[m][j].opened = m /\ (c <= 1 => u[m][j] = l[j - p])
    <3>1. r = p + c /\ c \in 0 .. 2
      BY <2>1, AscentStep
    <3>2. \A j \in 1 .. p : u[m][j] = u[m - 1][j]
      BY <2>1, AscentStep
    <3>3. \A j \in p + 1 .. r : u[m][j].opened = m
      BY <2>1, AscentStep
    <3>4. \A j \in p + 1 .. r : c <= 1 => u[m][j] = l[j - p]
      BY <2>1, AscentStep
    <3> QED BY <3>1, <3>2, <3>3, <3>4
  <2>4. Of(T, m) = Of(S, m)
    OBVIOUS
  <2>5. /\ Len(v[m]) = Len(v[m - 1]) + Cardinality(Of(T, m))
        /\ \A j \in 1 .. Len(v[m - 1]) : v[m][j] = v[m - 1][j]
        /\ \A j \in Len(v[m - 1]) + 1 .. Len(v[m]) :
             Cardinality(Of(T, m)) <= 1 => v[m][j] = SetToSeq(Of(T, m))[j - Len(v[m - 1])]
    <3>1. Len(v[m]) = Len(v[m - 1]) + Cardinality(Of(T, m))
      BY <2>1, AscentStep
    <3>2. \A j \in 1 .. Len(v[m - 1]) : v[m][j] = v[m - 1][j]
      BY <2>1, AscentStep
    <3>3. \A j \in Len(v[m - 1]) + 1 .. Len(v[m]) :
            Cardinality(Of(T, m)) <= 1 => v[m][j] = SetToSeq(Of(T, m))[j - Len(v[m - 1])]
      BY <2>1, AscentStep
    <3> QED BY <3>1, <3>2, <3>3
  <2>6. Len(v[m - 1]) = p
    BY <2>2
  <2>7. /\ Len(v[m]) = r
        /\ \A j \in 1 .. p : v[m][j] = v[m - 1][j]
        /\ \A j \in p + 1 .. r : c <= 1 => v[m][j] = l[j - p]
    <3> HIDE DEF Same, A
    <3> QED BY <2>3, <2>4, <2>5, <2>6
  <2>8. p \in Nat /\ r \in Nat
    BY <1>1, <2>1
  <2>9. \A j \in 1 .. p : Cardinality(Of(S, u[m - 1][j].opened)) <= 1 =>
                            u[m - 1][j] = v[m - 1][j]
    BY <2>2
  <2> HIDE DEF p, r, c, l, A, Same
  <2>10. ASSUME NEW j \in 1 .. r, Cardinality(Of(S, u[m][j].opened)) <= 1
         PROVE  u[m][j] = v[m][j]
    <3>1. CASE j \in 1 .. p
      BY <2>3, <2>7, <2>9, <2>10, <3>1
    <3>2. CASE j \notin 1 .. p
      <4>1. j \in p + 1 .. r
        BY <2>8, <3>2
      <4>2. c <= 1
        BY <2>3, <2>10, <4>1 DEF c
      <4> QED BY <2>3, <2>7, <4>1, <4>2
    <3> QED BY <3>1, <3>2
  <2>11. Same(m)
    BY <2>7, <2>10 DEF Same, r
  <2> QED BY <2>1, <2>11 DEF A
<1>5. \A m \in 0 .. k : m \in A
  <2> HIDE DEF A
  <2> QED BY <1>1, <1>3, <1>4, UpTo
<1> QED BY <1>1, <1>5

\* b are the candles up to minute N, a those and the later ones: b begins a, but
\* for the order of two candles of one minute.
Begins(S, N, a, b) ==
  /\ a \in Seq(CandleRows) /\ b \in Seq(CandleRows) /\ Len(b) <= Len(a)
  /\ \A j \in 1 .. Len(b) : Cardinality(Of(S, a[j].opened)) <= 1 => a[j] = b[j]
  /\ \A j \in 1 .. Len(a) : a[j].opened = N /\ Cardinality(Of(S, N)) <= 1 => j = Len(b)
  /\ Of(S, N) # {} => Len(b) # 0 /\ b[Len(b)].opened = N

\* The candles up to a minute begin the order of all.
LEMMA Prefix ==
  ASSUME NEW S, OneEach(S), NEW f, Settles(S, f), NEW N \in FeatureMinutes,
         NEW T, T = {r \in S : r.opened <= N}, NEW g, Settles(T, g)
  PROVE  Begins(S, N, Ascending(S, f), Ascending(T, g))
<1> DEFINE n == LastFeatureMinute
           a == Ascending(S, f)
           b == Ascending(T, g)
<1>1. n \in Nat /\ N \in 1 .. n /\ N \in 0 .. n /\ n \in 0 .. n /\ N - 1 \in 0 .. n
  BY FeatureConstants DEF FeatureMinutes
<1>2. PICK u : IsAscent(u, S, f) /\ a = u[n]
  BY AscendingRuns
<1>3. OneEach(T)
  BY DEF OneEach
<1>4. PICK v : IsAscent(v, T, g) /\ b = v[n]
  BY <1>3, AscendingRuns
<1>5. \A m \in 1 .. N : Of(S, m) = Of(T, m)
  <2>1. \A m \in 1 .. N : m <= N
    BY <1>1
  <2> QED BY <2>1 DEF Of
<1>6. \A m \in 1 .. n : m > N => Of(T, m) = {}
  <2>1. \A m \in 1 .. n : m > N => ~(m <= N)
    BY <1>1
  <2> QED BY <2>1 DEF Of
<1>7. \A m \in 0 .. n : /\ u[m] \in Seq(CandleRows) /\ Len(u[m]) \in Nat
                        /\ v[m] \in Seq(CandleRows) /\ Len(v[m]) \in Nat
  <2>1. \A m \in 0 .. n : u[m] \in Seq(CandleRows) /\ v[m] \in Seq(CandleRows)
    BY <1>2, <1>4 DEF IsAscent
  <2> QED BY <2>1
<1>8. Len(v[n]) = Len(v[N])
  BY <1>1, <1>3, <1>4, <1>6, AscentEnds
<1>9. /\ Len(u[N]) = Len(v[N])
      /\ \A j \in 1 .. Len(u[N]) :
           Cardinality(Of(S, u[N][j].opened)) <= 1 => u[N][j] = v[N][j]
  <2>1. Len(u[N]) = Len(v[N])
    BY <1>1, <1>2, <1>3, <1>4, <1>5, SameAscents
  <2>2. \A j \in 1 .. Len(u[N]) :
          Cardinality(Of(S, u[N][j].opened)) <= 1 => u[N][j] = v[N][j]
    BY <1>1, <1>2, <1>3, <1>4, <1>5, SameAscents
  <2> QED BY <2>1, <2>2
<1>10. /\ Len(u[N]) <= Len(u[n])
       /\ \A j \in 1 .. Len(u[N]) : u[n][j] = u[N][j]
       /\ \A j \in Len(u[N]) + 1 .. Len(u[n]) : u[n][j].opened > N
       /\ \A j \in 1 .. Len(u[N]) : u[N][j].opened <= N /\ u[N][j].opened \in FeatureMinutes
  <2>1. n >= N
    BY <1>1
  <2>2. /\ Len(u[N]) <= Len(u[n])
        /\ \A j \in 1 .. Len(u[N]) : u[n][j] = u[N][j]
    BY <1>1, <1>2, <2>1, AscentSplits
  <2>3. \A j \in Len(u[N]) + 1 .. Len(u[n]) : u[n][j].opened > N
    BY <1>1, <1>2, <2>1, AscentSplits
  <2>4. \A j \in 1 .. Len(u[N]) : u[N][j].opened <= N /\ u[N][j].opened \in FeatureMinutes
    BY <1>1, <1>2, AscentSplits
  <2> QED BY <2>2, <2>3, <2>4
<1>11. \A j \in 1 .. Len(v[N]) : v[n][j] = v[N][j]
  <2>1. n >= N
    BY <1>1
  <2> QED BY <1>1, <1>3, <1>4, <2>1, AscentSplits
<1>12. Len(b) = Len(u[N]) /\ a \in Seq(CandleRows) /\ b \in Seq(CandleRows)
  BY <1>1, <1>2, <1>4, <1>7, <1>8, <1>9
<1> DEFINE l == Len(u[N])
<1>13. l \in Nat /\ Len(a) \in Nat /\ l <= Len(a)
  BY <1>1, <1>2, <1>7, <1>10
<1> HIDE DEF a, b, n
<1>14. ASSUME NEW j \in 1 .. Len(b)
       PROVE  Cardinality(Of(S, a[j].opened)) <= 1 => a[j] = b[j]
  <2>1. j \in 1 .. Len(u[N]) /\ j \in 1 .. Len(v[N])
    BY <1>9, <1>12
  <2>2. a[j] = u[N][j] /\ b[j] = v[N][j]
    BY <1>2, <1>4, <1>10, <1>11, <2>1
  <2> QED BY <1>9, <1>10, <2>1, <2>2
<1>15. ASSUME NEW j \in 1 .. Len(a), a[j].opened <= N PROVE j <= Len(b)
  <2> SUFFICES ASSUME j > l PROVE FALSE
    BY <1>12, <1>13
  <2>1. j \in l + 1 .. Len(a)
    BY <1>13
  <2>2. a[j].opened > N
    BY <1>2, <1>10, <2>1
  <2>3. a[j].opened \in Nat
    <3>1. a[j] \in CandleRows
      BY <1>12
    <3>2. FeatureMinutes \in SUBSET Nat
      BY DEF FeatureMinutes
    <3> QED BY <3>1, <3>2 DEF CandleRows, CandleRow
  <2> QED BY <1>1, <1>15, <2>2, <2>3
<1>16. /\ Len(u[N]) = Len(u[N - 1]) + Cardinality(Of(S, N))
       /\ Cardinality(Of(S, N)) \in 0 .. 2
       /\ \A j \in 1 .. Len(u[N - 1]) : u[N][j] = u[N - 1][j]
  <2>1. N \in 1 .. LastFeatureMinute
    BY <1>1 DEF n
  <2> QED BY <1>2, <2>1, AscentStep
<1>17. \A j \in 1 .. Len(u[N - 1]) : u[N - 1][j].opened <= N - 1
  <2>1. N - 1 \in 0 .. LastFeatureMinute
    BY <1>1 DEF n
  <2> QED BY <1>2, <2>1, AscentSplits
<1>18. Len(u[N - 1]) \in Nat
  BY <1>1, <1>7
<1>19. ASSUME NEW j \in 1 .. Len(a), a[j].opened = N, Cardinality(Of(S, N)) <= 1
       PROVE  j = Len(b)
  <2>1. j <= l
    <3>1. N <= N
      BY <1>1
    <3> QED BY <1>12, <1>15, <1>19, <3>1
  <2>2. ~(j <= Len(u[N - 1]))
    <3> SUFFICES ASSUME j <= Len(u[N - 1]) PROVE FALSE
      OBVIOUS
    <3>1. j \in 1 .. Len(u[N - 1]) /\ j \in 1 .. l
      BY <1>13, <1>18, <2>1
    <3>2. a[j] = u[N - 1][j]
      BY <1>2, <1>10, <1>16, <3>1
    <3>3. N <= N - 1
      BY <1>17, <1>19, <3>1, <3>2
    <3> QED BY <1>1, <3>3
  <2>3. l = Len(u[N - 1]) + Cardinality(Of(S, N))
    BY <1>16
  <2> HIDE DEF l
  <2>4. l <= Len(u[N - 1]) + 1
    BY <1>16, <1>18, <1>19, <2>3
  <2> QED BY <1>12, <1>13, <1>18, <2>1, <2>2, <2>4 DEF l
<1>20. ASSUME Of(S, N) # {} PROVE Len(b) # 0 /\ b[Len(b)].opened = N
  <2>1. N \in 1 .. LastFeatureMinute /\ Of(T, N) = Of(S, N) /\ Of(T, N) # {}
    BY <1>1, <1>5, <1>20 DEF n
  <2>2. Cardinality(Of(T, N)) \in 1 .. 2
    <3>1. /\ IsFiniteSet(Of(T, N)) /\ Cardinality(Of(T, N)) \in 0 .. 2
          /\ Cardinality(Of(T, N)) = 0 => Of(T, N) = {}
      BY <1>3, TwoAtMost
    <3> QED BY <2>1, <3>1
  <2>3. Len(v[N]) = Len(v[N - 1]) + Cardinality(Of(T, N)) /\ Len(v[N - 1]) \in Nat
    BY <1>1, <1>3, <1>4, <1>7, <2>1, AscentStep
  <2>4. \A j \in Len(v[N - 1]) + 1 .. Len(v[N]) : v[N][j].opened = N
    BY <1>3, <1>4, <2>1, AscentStep
  <2>5. Len(v[N]) \in Len(v[N - 1]) + 1 .. Len(v[N]) /\ Len(v[N]) \in 1 .. Len(v[N])
    BY <2>2, <2>3
  <2>6. v[N][Len(v[N])].opened = N /\ v[n][Len(v[N])] = v[N][Len(v[N])]
    BY <2>4, <2>5, <1>11
  <2>7. Len(b) = Len(v[N]) /\ b = v[n]
    BY <1>4, <1>8
  <2>8. Len(v[N]) # 0
    BY <2>5
  <2> QED BY <2>6, <2>7, <2>8
<1>21. Len(b) <= Len(a)
  BY <1>12, <1>13
<1>22. Begins(S, N, a, b)
  BY <1>12, <1>14, <1>19, <1>20, <1>21 DEF Begins
<1> QED BY <1>22 DEF a, b

\* A window: the last candles, the newest first
LEMMA NewestFirst ==
  ASSUME NEW s \in Seq(CandleRows)
  PROVE  First(Reverse(s), Lookback)
           = [x \in 1 .. (IF Lookback <= Len(s) THEN Lookback ELSE Len(s)) |-> s[Len(s) - x + 1]]
<1> DEFINE n == Len(s)
           r == Reverse(s)
           l == IF Lookback <= n THEN Lookback ELSE n
<1>1. n \in Nat /\ Lookback \in Nat /\ l \in 0 .. n
  BY FeatureConstants
<1>2. r \in Seq(CandleRows) /\ Len(r) = n /\ \A x \in 1 .. n : r[x] = s[n - x + 1]
  <2>1. r = [x \in 1 .. n |-> s[(n - x) + 1]]
    BY DEF Reverse
  <2>2. \A x \in 1 .. n : (n - x) + 1 \in 1 .. n /\ (n - x) + 1 = n - x + 1
    BY <1>1
  <2>3. \A x \in 1 .. n : s[(n - x) + 1] \in CandleRows
    BY <2>2
  <2> HIDE DEF n, r
  <2>4. r \in [1 .. n -> CandleRows]
    BY <2>1, <2>3
  <2> QED BY <1>1, <2>1, <2>2, <2>4
<1> HIDE DEF n, r
<1>3. First(r, Lookback) = SubSeq(r, 1, l)
  BY <1>2 DEF First
<1>4. SubSeq(r, 1, l) = [x \in 1 .. l |-> r[x]]
  <2> HIDE DEF l
  <2> QED BY <1>1, <1>2
<1>5. \A x \in 1 .. l : r[x] = s[n - x + 1]
  <2>1. \A x \in 1 .. l : x \in 1 .. n
    BY <1>1
  <2> HIDE DEF l
  <2> QED BY <1>2, <2>1
<1>6. [x \in 1 .. l |-> r[x]] = [x \in 1 .. l |-> s[n - x + 1]]
  <2> HIDE DEF l
  <2> QED BY <1>5
<1> QED BY <1>3, <1>4, <1>6 DEF n, r

\* The window of a data set, in those terms
LEMMA SampleIs ==
  ASSUME NEW s \in Seq(CandleRows), NEW i \in 1 .. Len(s)
  PROVE  SampleWindow(s, i)
           = [x \in 1 .. (IF Lookback <= i THEN Lookback ELSE i) |-> s[i - x + 1]]
<1> DEFINE t == SubSeq(s, 1, i)
           l == IF Lookback <= i THEN Lookback ELSE i
<1>1. i \in Nat /\ Lookback \in Nat /\ l \in 0 .. i
  BY FeatureConstants
<1>2. t \in Seq(CandleRows) /\ Len(t) = i /\ \A j \in 1 .. i : t[j] = s[j]
  OBVIOUS
<1> HIDE DEF t
<1>3. First(Reverse(t), Lookback) = [x \in 1 .. l |-> t[i - x + 1]]
  <2>1. First(Reverse(t), Lookback)
          = [x \in 1 .. (IF Lookback <= Len(t) THEN Lookback ELSE Len(t)) |-> t[Len(t) - x + 1]]
    BY <1>2, NewestFirst
  <2> QED BY <1>2, <2>1
<1>4. \A x \in 1 .. l : t[i - x + 1] = s[i - x + 1]
  <2>1. \A x \in 1 .. l : i - x + 1 \in 1 .. i
    BY <1>1
  <2> HIDE DEF l
  <2> QED BY <1>2, <2>1
<1>5. [x \in 1 .. l |-> t[i - x + 1]] = [x \in 1 .. l |-> s[i - x + 1]]
  <2> HIDE DEF l
  <2> QED BY <1>4
<1> QED BY <1>3, <1>5 DEF SampleWindow, t

\* Where a quote and a joined context enter the features
Extra == {"current_price", "primary_signal", "cs_return_rank", "excess_ret_1"}
Plain(R) == \A f \in R : f.name \notin Extra
Quoted(R, q) == R \cup {Feature("current_price", <<q>>)}
Signal(meta) == IF meta THEN {Feature("primary_signal", <<1>>)} ELSE {}
TrainedOn(N, meta) ==
  /\ "current_price" \in N /\ ("primary_signal" \in N <=> meta)
  /\ "cs_return_rank" \notin N /\ "excess_ret_1" \notin N
Parted(q, c, meta) ==
  {n \in {"current_price"} : q # c} \cup {n \in {"primary_signal"} : meta}

\* A run's features and a sample's, of one window
PartedOnly(w, q, c, joined, meta, N) ==
  Skew(BuildFeatures(w, q, joined), BuildFeatures(w, c, FALSE) \cup Signal(meta), N)
    = Parted(q, c, meta)

\* What is computed from the window alone takes none of the other names.
LEMMA PlainPart ==
  ASSUME NEW w, w # <<>>
  PROVE  \E R : /\ Plain(R)
                /\ \A q : \A joined \in BOOLEAN :
                     BuildFeatures(w, q, joined) = Quoted(R, q) \cup Context(Closes(w), joined)
<1> DEFINE c == Closes(w)
           R == {Feature("close", <<c[1]>>), Feature("time", <<w[1].opened>>)}
                  \cup Strength(c)
                  \cup Average("sma_5", c, ShortSpan)
                  \cup Average("sma_20", c, LongSpan)
                  \cup Return("ret_1", c, ShortLag)
                  \cup Return("ret_30", c, LongLag)
                  \cup Volatility(c)
                  \cup Shape(w[1])
                  \cup Volume(w)
<1>1. \A f \in Strength(c) : f.name \notin Extra
  BY DEF Strength, Feature, Extra
<1>2. /\ \A f \in Average("sma_5", c, ShortSpan) : f.name \notin Extra
      /\ \A f \in Average("sma_20", c, LongSpan) : f.name \notin Extra
  BY DEF Average, Feature, Extra
<1>3. /\ \A f \in Return("ret_1", c, ShortLag) : f.name \notin Extra
      /\ \A f \in Return("ret_30", c, LongLag) : f.name \notin Extra
  BY DEF Return, Feature, Extra
<1>4. \A f \in Volatility(c) : f.name \notin Extra
  BY DEF Volatility, Feature, Extra
<1>5. \A f \in Shape(w[1]) : f.name \notin Extra
  BY DEF Shape, Feature, Extra
<1>6. \A f \in Volume(w) : f.name \notin Extra
  BY DEF Volume, Feature, Extra
<1>7. \A f \in {Feature("close", <<c[1]>>), Feature("time", <<w[1].opened>>)} :
        f.name \notin Extra
  BY DEF Feature, Extra
<1>8. Plain(R)
  <2> HIDE DEF c
  <2> QED BY <1>1, <1>2, <1>3, <1>4, <1>5, <1>6, <1>7, Zenon DEF Plain
<1>9. ASSUME NEW q, NEW joined \in BOOLEAN
      PROVE  BuildFeatures(w, q, joined) = Quoted(R, q) \cup Context(c, joined)
  <2> DEFINE B == {Feature("close", <<c[1]>>), Feature("time", <<w[1].opened>>),
                   Feature("current_price", <<q>>)}
             H == {Feature("close", <<c[1]>>), Feature("time", <<w[1].opened>>)}
  <2>1. B = H \cup {Feature("current_price", <<q>>)}
    OBVIOUS
  <2>2. BuildFeatures(w, q, joined)
          = B \cup Strength(c)
              \cup Average("sma_5", c, ShortSpan)
              \cup Average("sma_20", c, LongSpan)
              \cup Return("ret_1", c, ShortLag)
              \cup Return("ret_30", c, LongLag)
              \cup Volatility(c)
              \cup Shape(w[1])
              \cup Volume(w)
              \cup Context(c, joined)
    BY Zenon DEF BuildFeatures
  <2>3. R = H \cup Strength(c)
              \cup Average("sma_5", c, ShortSpan)
              \cup Average("sma_20", c, LongSpan)
              \cup Return("ret_1", c, ShortLag)
              \cup Return("ret_30", c, LongLag)
              \cup Volatility(c)
              \cup Shape(w[1])
              \cup Volume(w)
    OBVIOUS
  <2> HIDE DEF c, B, H, R
  <2> QED BY <2>1, <2>2, <2>3 DEF Quoted
<1> HIDE DEF R
<1> QED BY <1>8, <1>9 DEF c

\* The joined context has names of its own.
LEMMA JoinedPart ==
  ASSUME NEW c
  PROVE  /\ Context(c, FALSE) = {}
         /\ \A joined \in BOOLEAN : \A f \in Context(c, joined) :
              f.name \in {"cs_return_rank", "excess_ret_1"}
BY DEF Context, Feature

\* A feature looked up by its name
Value(F, n) ==
  IF n \in Names(F) THEN (CHOOSE f \in F : f.name = n).value ELSE Missing

LEMMA LookedUp ==
  ASSUME NEW A, NEW B, NEW N, NEW n \in N
  PROVE  n \in Skew(A, B, N) <=> Value(A, n) # Value(B, n)
<1>1. ASSUME NEW F PROVE Vectorize(F, N)[n] = Value(F, n)
  BY DEF Vectorize, Value
<1> QED BY <1>1 DEF Skew

LEMMA SameValue ==
  ASSUME NEW A, NEW B, NEW n,
         \A f : (f \in A /\ f.name = n) <=> (f \in B /\ f.name = n)
  PROVE  Value(A, n) = Value(B, n)
<1>1. n \in Names(A) <=> n \in Names(B)
  BY DEF Names
<1>2. (CHOOSE f : f \in A /\ f.name = n) = (CHOOSE f : f \in B /\ f.name = n)
  BY Zenon
<1>3. /\ (CHOOSE f \in A : f.name = n) = (CHOOSE f : f \in A /\ f.name = n)
      /\ (CHOOSE f \in B : f.name = n) = (CHOOSE f : f \in B /\ f.name = n)
  OBVIOUS
<1>4. (CHOOSE f \in A : f.name = n) = (CHOOSE f \in B : f.name = n)
  BY <1>2, <1>3, Zenon
<1> DEFINE a == CHOOSE f \in A : f.name = n
           b == CHOOSE f \in B : f.name = n
<1>5. /\ Value(A, n) = IF n \in Names(A) THEN a.value ELSE Missing
      /\ Value(B, n) = IF n \in Names(B) THEN b.value ELSE Missing
  BY DEF Value
<1>6. a = b
  BY <1>4
<1> HIDE DEF a, b
<1> QED BY <1>1, <1>5, <1>6

LEMMA OnlyValue ==
  ASSUME NEW A, NEW n, NEW v, Feature(n, v) \in A,
         \A f \in A : f.name = n => f = Feature(n, v)
  PROVE  Value(A, n) = v
<1> DEFINE a == CHOOSE f \in A : f.name = n
<1>1. Feature(n, v).name = n /\ Feature(n, v).value = v
  BY DEF Feature
<1>2. a \in A /\ a.name = n
  BY <1>1
<1>3. n \in Names(A)
  BY <1>1 DEF Names
<1> HIDE DEF a
<1>4. a = Feature(n, v)
  BY <1>2
<1>5. Value(A, n) = IF n \in Names(A) THEN a.value ELSE Missing
  BY DEF Value, a
<1> QED BY <1>1, <1>3, <1>4, <1>5

\* They differ in the quote and in the signal.
LEMMA SkewIs ==
  ASSUME NEW w, w # <<>>, NEW q, NEW c, NEW joined \in BOOLEAN, NEW meta \in BOOLEAN,
         NEW N, TrainedOn(N, meta)
  PROVE  PartedOnly(w, q, c, joined, meta, N)
<1> DEFINE M == Signal(meta)
           A == BuildFeatures(w, q, joined)
           B == BuildFeatures(w, c, FALSE) \cup M
           J == Context(Closes(w), joined)
           S == Skew(A, B, N)
<1>1. PICK R : /\ Plain(R)
               /\ \A p : \A j \in BOOLEAN :
                    BuildFeatures(w, p, j) = Quoted(R, p) \cup Context(Closes(w), j)
  BY PlainPart
<1>2. Context(Closes(w), FALSE) = {} /\ \A f \in J : f.name \in {"cs_return_rank", "excess_ret_1"}
  BY JoinedPart
<1>3. A = Quoted(R, q) \cup J
  BY <1>1
<1>4. B = Quoted(R, c) \cup M
  <2>1. BuildFeatures(w, c, FALSE) = Quoted(R, c) \cup Context(Closes(w), FALSE)
    BY <1>1
  <2> QED BY <1>2, <2>1
<1>5. \A f \in R : f.name \notin Extra
  BY <1>1 DEF Plain
<1>6. \A f \in M : meta /\ f = Feature("primary_signal", <<1>>)
  BY DEF Signal
<1>0. /\ "current_price" \in N /\ ("primary_signal" \in N <=> meta)
      /\ "cs_return_rank" \notin N /\ "excess_ret_1" \notin N
  BY DEF TrainedOn
<1>7. \A p : Feature("current_price", <<p>>).name = "current_price"
  BY DEF Feature
<1>8. Feature("primary_signal", <<1>>).name = "primary_signal"
  BY DEF Feature
<1>9. S \subseteq N
  BY DEF Skew
<1>10. \A n \in N : n \in S <=> Value(A, n) # Value(B, n)
  BY LookedUp
<1>11. meta => Feature("primary_signal", <<1>>) \in M
  BY DEF Signal
<1> HIDE DEF A, B, J, M, S
<1>12. ASSUME NEW n \in N, n \notin {"current_price", "primary_signal"} PROVE n \notin S
  <2>1. ASSUME NEW f PROVE (f \in A /\ f.name = n) <=> (f \in B /\ f.name = n)
    BY <1>0, <1>2, <1>3, <1>4, <1>6, <1>7, <1>8, <1>12 DEF Quoted
  <2>2. Value(A, n) = Value(B, n)
    BY <2>1, SameValue
  <2> QED BY <1>10, <2>2
<1>13. "current_price" \in S <=> q # c
  <2>1. /\ Feature("current_price", <<q>>) \in A
        /\ \A f \in A : f.name = "current_price" => f = Feature("current_price", <<q>>)
    BY <1>2, <1>3, <1>5 DEF Quoted, Extra
  <2>2. Value(A, "current_price") = <<q>>
    BY <2>1, OnlyValue
  <2>3. /\ Feature("current_price", <<c>>) \in B
        /\ \A f \in B : f.name = "current_price" => f = Feature("current_price", <<c>>)
    BY <1>4, <1>5, <1>6, <1>8 DEF Quoted, Extra
  <2>5. Value(B, "current_price") = <<c>>
    BY <2>3, OnlyValue
  <2>4. <<q>> = <<c>> <=> q = c
    OBVIOUS
  <2> QED BY <1>0, <1>10, <2>2, <2>4, <2>5
<1>14. meta => "primary_signal" \in S
  <2> SUFFICES ASSUME meta PROVE "primary_signal" \in S
    OBVIOUS
  <2> DEFINE n == "primary_signal"
  <2>1. \A f \in A : f.name # n
    BY <1>2, <1>3, <1>5, <1>7 DEF Quoted, Extra
  <2>2. Value(A, n) = <<>>
    BY <2>1 DEF Value, Names, Missing
  <2>3. Feature(n, <<1>>) \in B /\ \A f \in B : f.name = n => f = Feature(n, <<1>>)
    BY <1>4, <1>5, <1>6, <1>7, <1>11 DEF Quoted, Extra
  <2>4. Value(B, n) = <<1>>
    BY <2>3, OnlyValue
  <2>5. <<1>> # <<>>
    OBVIOUS
  <2> QED BY <1>0, <1>10, <2>2, <2>4, <2>5
<1>15. ~meta => "primary_signal" \notin S
  BY <1>0, <1>9
<1>16. S = Parted(q, c, meta)
  BY <1>9, <1>12, <1>13, <1>14, <1>15 DEF Parted
<1> QED BY <1>16 DEF S, A, B, M, PartedOnly

\* The names trained on
LEMMA TrainedNames ==
  ASSUME NEW s, NEW samples, NEW meta \in BOOLEAN, NEW i \in samples,
         SampleWindow(s, i) # <<>>
  PROVE  TrainedOn(FeatureNames(s, samples, meta), meta)
<1> DEFINE N == FeatureNames(s, samples, meta)
           F(k) == SampleFeatures(s, k, meta)
<1>1. \A n : n \in N <=> \E k \in samples : \E f \in F(k) : f.name = n
  BY DEF FeatureNames, Names
<1>2. ASSUME NEW k \in samples, NEW f \in F(k)
      PROVE  /\ f.name \notin {"cs_return_rank", "excess_ret_1"}
             /\ f.name = "primary_signal" => meta
  <2> DEFINE v == SampleWindow(s, k)
             x == s[k].close
  <2>1. f \in BuildFeatures(v, x, FALSE) \/ (meta /\ f = Feature("primary_signal", <<1>>))
    BY DEF SampleFeatures
  <2>2. CASE meta /\ f = Feature("primary_signal", <<1>>)
    BY <2>2 DEF Feature
  <2>3. CASE f \in BuildFeatures(v, x, FALSE)
    <3> HIDE DEF v, x
    <3>1. v # <<>>
      BY <2>3 DEF BuildFeatures
    <3>2. PICK R : /\ Plain(R)
                   /\ \A p : \A j \in BOOLEAN :
                        BuildFeatures(v, p, j) = Quoted(R, p) \cup Context(Closes(v), j)
      BY <3>1, PlainPart
    <3>3. Context(Closes(v), FALSE) = {}
      BY JoinedPart
    <3>4. BuildFeatures(v, x, FALSE) = Quoted(R, x) \cup Context(Closes(v), FALSE)
      BY <3>2
    <3>5. f \in R \/ f = Feature("current_price", <<x>>)
      BY <2>3, <3>3, <3>4 DEF Quoted
    <3> QED BY <3>2, <3>5 DEF Plain, Extra, Feature
  <2> QED BY <2>1, <2>2, <2>3
<1>3. "current_price" \in N
  <2> DEFINE v == SampleWindow(s, i)
             x == s[i].close
  <2>1. BuildFeatures(v, x, FALSE) \subseteq F(i)
    BY DEF SampleFeatures
  <2>2. v # <<>>
    OBVIOUS
  <2> HIDE DEF v, x, F
  <2>3. PICK R : /\ Plain(R)
                 /\ \A p : \A j \in BOOLEAN :
                      BuildFeatures(v, p, j) = Quoted(R, p) \cup Context(Closes(v), j)
    BY <2>2, PlainPart
  <2>4. Feature("current_price", <<x>>) \in F(i)
    <3>1. BuildFeatures(v, x, FALSE) = Quoted(R, x) \cup Context(Closes(v), FALSE)
      BY <2>3
    <3> QED BY <2>1, <3>1 DEF Quoted
  <2>5. Feature("current_price", <<x>>).name = "current_price"
    BY DEF Feature
  <2> QED BY <1>1, <2>4, <2>5
<1>4. meta => "primary_signal" \in N
  <2> SUFFICES ASSUME meta PROVE "primary_signal" \in N
    OBVIOUS
  <2>1. Feature("primary_signal", <<1>>) \in F(i)
    BY DEF SampleFeatures
  <2>2. Feature("primary_signal", <<1>>).name = "primary_signal"
    BY DEF Feature
  <2> HIDE DEF F, N
  <2> QED BY <1>1, <2>1, <2>2
<1> HIDE DEF N, F
<1>5. TrainedOn(N, meta)
  BY <1>1, <1>2, <1>3, <1>4 DEF TrainedOn
<1> QED BY <1>5 DEF N

\* The database settles which of two candles comes first.
LEMMA TiesSettle ==
  ASSUME NEW first \in Ties
  PROVE  Settles(rows, first)
<1> SUFFICES ASSUME NEW m \in FeatureMinutes, Cardinality(Of(rows, m)) > 1
             PROVE  first[m] \in Writers
  BY DEF Settles
<1>1. Of(rows, m) # {}
  <2>1. ~(0 > 1)
    OBVIOUS
  <2> QED BY <2>1, FS_EmptySet
<1>2. m \in Opened(rows)
  BY <1>1 DEF Opened, Of
<1>3. m \in TwinMinutes
  BY <1>2 DEF TwinMinutes, Of
<1> QED BY <1>3 DEF Ties

\* No candle and no snapshot yet
LEMMA FeatureStarts ==
  FeatureInit => FeatureInv
BY DEF FeatureInit, FeatureInv, OneEach

\* A candle more
LEMMA CandleAdded ==
  ASSUME FeatureInv, NEW r \in CandleRows, CollectCandle(r) \/ BackfillCandle(r)
  PROVE  FeatureInv'
<1>1. FeatureMinutes \in SUBSET Nat
  BY DEF FeatureMinutes
<1>2. \A q \in CandleRows : q.opened \in Nat /\ q.source \in Writers
  BY <1>1 DEF CandleRows, CandleRow
<1>3. OneEach(rows) /\ rows \subseteq CandleRows
  BY DEF FeatureInv, OneEach
<1>4. rows' = rows \cup {r} /\ served' = served
  BY DEF CollectCandle, BackfillCandle
<1>5. \A q \in rows : ~(q.opened = r.opened /\ q.source = r.source)
  <2>1. CASE CollectCandle(r)
    <3>1. r.source = "kis_ws" /\ \A q \in rows : q.source = "kis_ws" => q.opened < r.opened
      BY <2>1 DEF CollectCandle
    <3>2. \A q \in rows : q.opened < r.opened => q.opened # r.opened
      BY <1>2, <1>3
    <3> QED BY <3>1, <3>2
  <2>2. CASE BackfillCandle(r)
    BY <2>2 DEF BackfillCandle
  <2> QED BY <2>1, <2>2
<1>6. OneEach(rows')
  <2> SUFFICES ASSUME NEW p \in rows', NEW q \in rows', p.opened = q.opened, p.source = q.source
               PROVE  p = q
    BY <1>3, <1>4 DEF OneEach
  <2>1. CASE p \in rows /\ q \in rows
    BY <1>3, <2>1 DEF OneEach
  <2>2. CASE p = r \/ q = r
    BY <1>4, <1>5, <2>2
  <2> QED BY <1>4, <2>1, <2>2
<1>7. served.seen \subseteq rows => served.seen \subseteq rows'
  BY <1>4
<1> QED BY <1>4, <1>6, <1>7 DEF FeatureInv

\* A run reads a minute that has a candle: what it knew is what lies up to the
\* newest candle of its window.
LEMMA SnapshotTaken ==
  ASSUME FeatureInv, NEW asOf \in Opened(rows), NEW first \in Ties, NEW quote \in Quotes,
         NEW joined \in BOOLEAN, Serve(asOf, first, quote, joined)
  PROVE  FeatureInv'
<1> DEFINE K == {r \in rows : r.opened <= asOf}
           b == Ascending(K, first)
           w == LiveWindow(asOf, first)
           o == IF w = <<>> THEN 0 ELSE w[1].opened
<1>1. OneEach(rows) /\ rows \subseteq CandleRows
  BY DEF FeatureInv, OneEach
<1>2. /\ rows' = rows
      /\ served'.seen = {r \in rows : r.opened <= o}
      /\ served'.features = BuildFeatures(w, served'.quote, joined)
  BY DEF Serve
<1>3. FeatureMinutes \in SUBSET Nat
  BY DEF FeatureMinutes
<1>4. \A r \in rows : r.opened \in FeatureMinutes
  BY <1>1 DEF CandleRows, CandleRow
<1>5. asOf \in FeatureMinutes /\ asOf \in Nat /\ Of(rows, asOf) # {}
  BY <1>3, <1>4 DEF Opened, Of
<1>6. Settles(rows, first)
  BY TiesSettle
<1>7. Settles(K, first)
  <2> SUFFICES ASSUME NEW m \in FeatureMinutes, Cardinality(Of(K, m)) > 1
               PROVE  first[m] \in Writers
    BY DEF Settles
  <2>1. Of(K, m) # {}
    <3>1. ~(0 > 1)
      OBVIOUS
    <3> QED BY <3>1, FS_EmptySet
  <2>2. m <= asOf
    BY <2>1 DEF Of
  <2>3. Of(K, m) = Of(rows, m)
    BY <2>2 DEF Of
  <2> QED BY <1>6, <2>3 DEF Settles
<1>8. w = First(Reverse(b), Lookback)
  BY DEF LiveWindow
<1>9. b \in Seq(CandleRows) /\ Len(b) # 0 /\ b[Len(b)].opened = asOf
  <2>1. K = {r \in rows : r.opened <= asOf}
    OBVIOUS
  <2> HIDE DEF K
  <2>2. Begins(rows, asOf, Ascending(rows, first), Ascending(K, first))
    BY <1>1, <1>5, <1>6, <1>7, <2>1, Prefix
  <2> QED BY <1>5, <2>2 DEF Begins
<1>10. w = [x \in 1 .. (IF Lookback <= Len(b) THEN Lookback ELSE Len(b)) |-> b[Len(b) - x + 1]]
  <2> HIDE DEF w, b
  <2> QED BY <1>8, <1>9, NewestFirst
<1>11. o = asOf
  <2> DEFINE l == IF Lookback <= Len(b) THEN Lookback ELSE Len(b)
  <2> HIDE DEF b, w
  <2>1. Lookback \in Nat \ {0} /\ Len(b) \in Nat \ {0}
    BY <1>9, FeatureConstants
  <2>2. 1 \in 1 .. l /\ Len(b) - 1 + 1 = Len(b)
    BY <2>1
  <2>3. w = [x \in 1 .. l |-> b[Len(b) - x + 1]]
    BY <1>10
  <2> HIDE DEF l
  <2>4. w[1] = b[Len(b)] /\ w # <<>>
    <3>1. w[1] = b[Len(b) - 1 + 1]
      BY <2>2, <2>3
    <3>2. 1 \in DOMAIN w /\ DOMAIN <<>> = {}
      BY <2>2, <2>3
    <3> QED BY <2>2, <3>1, <3>2
  <2> QED BY <1>9, <2>4
<1>12. served'.seen = K
  BY <1>2, <1>11
<1>13. /\ OneEach(rows') /\ served'.seen \subseteq rows'
       /\ Settles(served'.seen, first)
       /\ served'.features
            = BuildFeatures(First(Reverse(Ascending(served'.seen, first)), Lookback),
                            served'.quote, joined)
  BY <1>1, <1>2, <1>7, <1>8, <1>12
<1> HIDE DEF K, b, w, o
<1> QED BY <1>13 DEF FeatureInv

\* A model is asked with the values it is trained with, the quote and the signal
\* apart.
LEMMA SnapshotAgrees ==
  FeatureInv => SkewIsQuoteAndSignal
<1> SUFFICES ASSUME FeatureInv, served # NothingServed, ~WrittenLater,
                    NEW first \in Ties, NEW meta \in BOOLEAN,
                    NEW samples \in Samples(Ascending(rows, first), meta), NEW i \in samples,
                    Ascending(rows, first)[i].opened = served.newest,
                    ~ReachesTwins(SampleWindow(Ascending(rows, first), i))
             PROVE  Skew(served.features, SampleFeatures(Ascending(rows, first), i, meta),
                         FeatureNames(Ascending(rows, first), samples, meta))
                      = {n \in {"current_price"} :
                           served.quote # Ascending(rows, first)[i].close}
                          \cup {n \in {"primary_signal"} : meta}
  BY DEF SkewIsQuoteAndSignal
<1>0. i \in SampleIndices(Ascending(rows, first))
  BY DEF Samples
<1> DEFINE a == Ascending(rows, first)
           N == served.newest
           K == served.seen
           w == SampleWindow(a, i)
<1>1. OneEach(rows) /\ rows \subseteq CandleRows
  BY DEF FeatureInv, OneEach
<1>2. PICK g : \E joined \in BOOLEAN :
         /\ Settles(K, g)
         /\ served.features = BuildFeatures(First(Reverse(Ascending(K, g)), Lookback),
                                            served.quote, joined)
  BY DEF FeatureInv
<1>3. PICK joined \in BOOLEAN :
         /\ Settles(K, g)
         /\ served.features = BuildFeatures(First(Reverse(Ascending(K, g)), Lookback),
                                            served.quote, joined)
  BY <1>2
<1> DEFINE b == Ascending(K, g)
<1>4. K = {r \in rows : r.opened <= N}
  BY DEF WrittenLater
<1>5. Settles(rows, first)
  BY TiesSettle
<1>6. /\ \E u : IsAscent(u, rows, first) /\ a = u[LastFeatureMinute]
      /\ LastFeatureMinute \in Nat
  BY <1>1, <1>5, AscendingRuns, FeatureConstants
<1>7. a \in Seq(CandleRows)
  BY <1>6 DEF IsAscent
<1>8. i \in 1 .. Len(a)
  BY <1>0, <1>7 DEF SampleIndices
<1>9. a[i] \in CandleRows /\ a[i].opened = N
  BY <1>7, <1>8
<1>10. N \in FeatureMinutes
  BY <1>9 DEF CandleRows, CandleRow
<1> HIDE DEF a, b, K, N
<1>11. Begins(rows, N, a, b)
  BY <1>1, <1>3, <1>4, <1>5, <1>10, Prefix DEF a, b
<1>12. /\ b \in Seq(CandleRows) /\ Len(b) <= Len(a)
       /\ \A j \in 1 .. Len(b) : Cardinality(Of(rows, a[j].opened)) <= 1 => a[j] = b[j]
  BY <1>11 DEF Begins
<1>13. \A j \in 1 .. Len(a) :
         a[j].opened = N /\ Cardinality(Of(rows, N)) <= 1 => j = Len(b)
  BY <1>11 DEF Begins
<1> DEFINE l == IF Lookback <= i THEN Lookback ELSE i
<1>14. w = [x \in 1 .. l |-> a[i - x + 1]]
  BY <1>7, <1>8, SampleIs
<1>15. l \in Nat \ {0} /\ l <= i /\ i \in Nat /\ Lookback \in Nat
  BY <1>8, FeatureConstants
<1> HIDE DEF w, l
<1>16. ASSUME NEW x \in 1 .. l PROVE Cardinality(Of(rows, a[i - x + 1].opened)) <= 1
  <2>1. x \in DOMAIN w /\ w[x] = a[i - x + 1]
    BY <1>14
  <2>2. w[x].opened \notin TwinMinutes
    BY <2>1 DEF ReachesTwins, w, a
  <2> DEFINE m == w[x].opened
  <2>3. ~(Cardinality(Of(rows, m)) > 1)
    <3>1. CASE Of(rows, m) = {}
      <4>1. Cardinality(Of(rows, m)) = 0
        BY <3>1, FS_EmptySet
      <4> HIDE DEF m
      <4> QED BY <4>1
    <3>2. CASE Of(rows, m) # {}
      <4>1. m \in Opened(rows)
        BY <3>2 DEF Of, Opened
      <4> QED BY <2>2, <4>1 DEF TwinMinutes, Of
    <3> QED BY <3>1, <3>2
  <2>4. Cardinality(Of(rows, m)) \in 0 .. 2
    BY <1>1, TwoAtMost
  <2> HIDE DEF m
  <2>5. Cardinality(Of(rows, m)) <= 1
    BY <2>3, <2>4
  <2> QED BY <2>1, <2>5 DEF m
<1>17. i = Len(b)
  <2>1. 1 \in 1 .. l /\ i - 1 + 1 = i
    BY <1>15
  <2>2. Cardinality(Of(rows, a[i - 1 + 1].opened)) <= 1
    BY <1>16, <2>1
  <2>3. Cardinality(Of(rows, N)) <= 1
    BY <1>9, <2>1, <2>2
  <2> QED BY <1>8, <1>9, <1>13, <2>3
<1>18. First(Reverse(b), Lookback) = [x \in 1 .. l |-> b[i - x + 1]]
  BY <1>12, <1>17, NewestFirst DEF l
<1>19. \A x \in 1 .. l : a[i - x + 1] = b[i - x + 1]
  <2> SUFFICES ASSUME NEW x \in 1 .. l PROVE a[i - x + 1] = b[i - x + 1]
    OBVIOUS
  <2>1. i - x + 1 \in 1 .. Len(b)
    BY <1>15, <1>17
  <2> QED BY <1>12, <1>16, <2>1
<1>20. First(Reverse(b), Lookback) = w
  BY <1>14, <1>18, <1>19
<1>21. w # <<>>
  BY <1>14, <1>15
<1>22. served.features = BuildFeatures(w, served.quote, joined)
  BY <1>3, <1>20 DEF b
<1> DEFINE N2 == FeatureNames(a, samples, meta)
<1>23. TrainedOn(N2, meta)
  BY <1>21, TrainedNames DEF w
<1>24. SampleFeatures(a, i, meta)
         = BuildFeatures(w, a[i].close, FALSE) \cup Signal(meta)
  BY Zenon DEF SampleFeatures, Signal, w
<1> HIDE DEF N2
<1> DEFINE x == a[i].close
           y == served.quote
<1> HIDE DEF x, y
<1>25. PartedOnly(w, y, x, joined, meta, N2)
  BY <1>21, <1>23, SkewIs
<1> QED BY <1>22, <1>24, <1>25 DEF N2, a, x, y, PartedOnly, Parted

\* Asked about a minute a model is trained on, a run gives it the values it is
\* trained with but for the names current_price, when the quote is not the close,
\* and primary_signal, when the data set is a meta-labelled one - unless a candle
\* was written up to that minute later on, or the window reaches a minute with
\* two: capture_feature_snapshot and build_dataset agree on how the candles
\* before the minute are ordered and cut, and on nothing more (builder.py:6).
THEOREM FeaturesSound ==
  FeatureSpec => []SkewIsQuoteAndSignal
<1>1. FeatureInit => FeatureInv
  BY FeatureStarts
<1>2. FeatureInv /\ [FeatureNext]_featureVars => FeatureInv'
  <2> SUFFICES ASSUME FeatureInv, [FeatureNext]_featureVars PROVE FeatureInv'
    OBVIOUS
  <2>1. CASE \E r \in CandleRows : CollectCandle(r) \/ BackfillCandle(r)
    BY <2>1, CandleAdded
  <2>2. CASE \E asOf \in Opened(rows), first \in Ties, quote \in Quotes, joined \in BOOLEAN :
               Serve(asOf, first, quote, joined)
    BY <2>2, SnapshotTaken
  <2>3. CASE UNCHANGED featureVars
    <3>1. rows' = rows /\ served' = served
      BY <2>3 DEF featureVars
    <3> QED BY <3>1 DEF FeatureInv
  <2> QED BY <2>1, <2>2, <2>3 DEF FeatureNext
<1> QED BY <1>1, <1>2, SnapshotAgrees, PTL DEF FeatureSpec
=============================================================================
